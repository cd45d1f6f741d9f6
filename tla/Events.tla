-------------------------------- MODULE Events --------------------------------
(***************************************************************************)
(* The event readers of the contract bindings (contract/erc20.go,          *)
(* contract/ierc20.go, contract/ierc721.go).  Every event of every         *)
(* contract has its own copy of the same code: Filter returns an iterator  *)
(* over past logs (Next, Error, Close), Watch starts a goroutine that      *)
(* forwards new logs to the user's sink until it is unsubscribed.  The     *)
(* copies differ in the name of the event and in the number of its indexed *)
(* arguments.                                                              *)
(*                                                                         *)
(* External, modelled from their use: bind.FilterLogs and bind.WatchLogs   *)
(* return a channel of logs and a subscription whose Err channel yields    *)
(* one error or is closed; event.NewSubscription runs the goroutine of a   *)
(* watch, tells it to quit when the user unsubscribes and makes the user   *)
(* wait for it; UnpackLog refuses a log with another number of indexed     *)
(* arguments than the event has.  The node selects logs by the signature   *)
(* of the event, which does not say what is indexed, so that an ERC20      *)
(* reader is sent the Transfer logs of an ERC721 contract.  It does not    *)
(* select logs with fewer topics than the query names.                     *)
(***************************************************************************)
EXTENDS Naturals, Sequences

CONSTANTS
  Buffer,   (* capacity of the channel of logs (128 in go-ethereum)        *)
  MaxLogs   (* bound of the model: logs the contract emits                 *)

ASSUME BufferAssumption == Buffer \in Nat \ {0}
ASSUME BoundAssumption == MaxLogs \in Nat

(* An event of a contract: its name and its indexed arguments.              *)
Copy(contract, event, indexed) ==
  [contract |-> contract, event |-> event, indexed |-> indexed]

ERC20Approval == Copy("ERC20", "Approval", 2)
ERC20Transfer == Copy("ERC20", "Transfer", 2)
IERC20Approval == Copy("IERC20", "Approval", 2)
IERC20Transfer == Copy("IERC20", "Transfer", 2)
IERC721Approval == Copy("IERC721", "Approval", 3)
IERC721ApprovalForAll == Copy("IERC721", "ApprovalForAll", 2)
IERC721Transfer == Copy("IERC721", "Transfer", 3)

Copies == {ERC20Approval, ERC20Transfer, IERC20Approval, IERC20Transfer,
           IERC721Approval, IERC721ApprovalForAll, IERC721Transfer}

VARIABLES
  copy,     (* the copy of the code in use                                 *)
  use,      (* "none", "iterator" or "watch"                               *)
  found,    (* indexed arguments of the logs the node selects, in order    *)
  sent,     (* how many of them were put into the channel                  *)
  got,      (* how many of them were taken out of it                       *)
  source,   (* Err of the log subscription: "open", "failed" with an error *)
            (* waiting in it, or "ended"                                   *)
  handed,   (* positions of the logs whose events the user got (history)   *)
  asking,   (* the user is inside Next                                     *)
  answer,   (* what the last Next returned                                 *)
  done,     (* iterator.done                                               *)
  fail,     (* iterator.fail # nil                                         *)
  loop,     (* where the goroutine of the watch is                         *)
  reading,  (* the user receives from the sink                             *)
  outcome,  (* what the user's Err channel says after the watch stopped    *)
  closing,  (* of Close and Unsubscribe: "no", "called", "returned"        *)
  hungup    (* the connection was closed under a watch (history)           *)

channelVars == <<found, sent, got, source, hungup>>
iteratorVars == <<asking, answer, done, fail>>
watchVars == <<loop, reading, outcome>>
vars == <<copy, use, found, sent, got, source, handed,
          asking, answer, done, fail, loop, reading, outcome, closing, hungup>>

TypeOK ==
  /\ copy \in Copies
  /\ use \in {"none", "iterator", "watch"}
  /\ found \in Seq(2 .. 3)
  /\ sent \in 0 .. Len(found)
  /\ got \in 0 .. sent
  /\ source \in {"open", "failed", "ended"}
  /\ handed \in Seq(1 .. Len(found))
  /\ asking \in BOOLEAN
  /\ answer \in {"none", "true", "false"}
  /\ done \in BOOLEAN
  /\ fail \in BOOLEAN
  /\ loop \in {"off", "select", "deliver", "stopped"}
  /\ reading \in BOOLEAN
  /\ outcome \in {"none", "nil", "error"}
  /\ closing \in {"no", "called", "returned"}
  /\ hungup \in BOOLEAN

Init ==
  /\ copy \in Copies
  /\ use = "none"
  /\ found = <<>>
  /\ sent = 0
  /\ got = 0
  /\ source = "open"
  /\ handed = <<>>
  /\ asking = FALSE
  /\ answer = "none"
  /\ done = FALSE
  /\ fail = FALSE
  /\ loop = "off"
  /\ reading = TRUE
  /\ outcome = "none"
  /\ closing = "no"
  /\ hungup = FALSE

-----------------------------------------------------------------------------
(* The contract, the node and the channel.                                  *)

(* The contract emits a log that the node selects; logs after a Filter are  *)
(* not part of its answer.                                                  *)
Emit(indexed) ==
  /\ use # "iterator"
  /\ Len(found) < MaxLogs
  /\ indexed >= copy.indexed
  /\ found' = Append(found, indexed)
  /\ UNCHANGED <<copy, use, hungup, sent, got, source, handed,
                 iteratorVars, watchVars, closing>>

Produce ==
  /\ use # "none"
  /\ source = "open"
  /\ sent < Len(found)
  /\ sent - got < Buffer
  /\ sent' = sent + 1
  /\ UNCHANGED <<copy, use, hungup, found, got, source, handed,
                 iteratorVars, watchVars, closing>>

(* The subscription of a Filter ends when every log was sent or the         *)
(* iterator was closed, the one of a watch when the connection is closed.   *)
SourceEnds ==
  /\ use # "none"
  /\ source = "open"
  /\ use = "iterator" => sent = Len(found) \/ closing = "called"
  /\ source' = "ended"
  /\ hungup' = (use = "watch")
  /\ UNCHANGED <<copy, use, found, sent, got, handed,
                 iteratorVars, watchVars, closing>>

SourceFails ==
  /\ use # "none"
  /\ source = "open"
  /\ closing = "no"
  /\ source' = "failed"
  /\ UNCHANGED <<copy, use, hungup, found, sent, got, handed,
                 iteratorVars, watchVars, closing>>

(* UnpackLog, and with it Parse: the log has the event's indexed arguments. *)
UnpackLog(position) == found[position] = copy.indexed

-----------------------------------------------------------------------------
(* The iterator.                                                            *)

(* Filter: the logs are looked up and their subscription is started.        *)
Filter ==
  /\ use = "none"
  /\ use' = "iterator"
  /\ UNCHANGED <<copy, channelVars, handed, iteratorVars, watchVars, closing>>

(* The user calls Next.                                                     *)
Ask ==
  /\ use = "iterator"
  /\ ~asking
  /\ asking' = TRUE
  /\ UNCHANGED <<copy, use, channelVars, handed, answer, done, fail,
                 watchVars, closing>>

Return(result) == answer' = result /\ asking' = FALSE

(* erc20.go:682-684: an iterator that failed gives nothing more.            *)
NextFailed ==
  /\ asking
  /\ fail
  /\ Return("false")
  /\ UNCHANGED <<copy, use, channelVars, handed, done, fail, watchVars, closing>>

(* Faulty variant: a log is received once for the check and once more for   *)
(* the event.                                                               *)
NextTakeTwice ==
  /\ asking
  /\ ~fail
  /\ got < sent
  /\ got' = got + 2
  /\ handed' = Append(handed, got + 1)
  /\ Return("true")
  /\ UNCHANGED <<copy, use, hungup, found, sent, source, done, fail, watchVars,
                 closing>>

(* erc20.go:686-696, 700-708: a log is ready; its event is handed over, or  *)
(* it does not parse and the iterator fails.                                *)
NextTake ==
  /\ asking
  /\ ~fail
  /\ got < sent
  /\ got' = got + 1
  /\ IF UnpackLog(got + 1)
     THEN handed' = Append(handed, got + 1) /\ Return("true") /\ UNCHANGED fail
     ELSE fail' = TRUE /\ Return("false") /\ UNCHANGED handed
  /\ UNCHANGED <<copy, use, hungup, found, sent, source, done, watchVars, closing>>

(* erc20.go:697-698: the subscription is over and the channel empty.        *)
NextDrained ==
  /\ asking
  /\ ~fail
  /\ done
  /\ got = sent
  /\ Return("false")
  /\ UNCHANGED <<copy, use, channelVars, handed, done, fail, watchVars, closing>>

(* Faulty variants: Next stops at the end of the subscription although logs *)
(* wait in the channel; Next looks at errors only and not at a closed Err.  *)
NextErrStops ==
  /\ asking
  /\ ~fail
  /\ ~done
  /\ source # "open"
  /\ done' = TRUE
  /\ fail' = (source = "failed")
  /\ source' = "ended"
  /\ Return("false")
  /\ UNCHANGED <<copy, use, hungup, found, sent, got, handed, watchVars, closing>>

NextErrNilIgnored ==
  /\ asking
  /\ ~fail
  /\ ~done
  /\ source = "failed"
  /\ done' = TRUE
  /\ fail' = TRUE
  /\ source' = "ended"
  /\ UNCHANGED <<copy, use, hungup, found, sent, got, handed, asking, answer,
                 watchVars, closing>>

(* erc20.go:710-713: the subscription is over; Next calls itself.  While    *)
(* logs wait as well, select takes either.                                  *)
NextErr ==
  /\ asking
  /\ ~fail
  /\ ~done
  /\ source # "open"
  /\ done' = TRUE
  /\ fail' = (source = "failed")
  /\ source' = "ended"
  /\ UNCHANGED <<copy, use, hungup, found, sent, got, handed, asking, answer,
                 watchVars, closing>>

Next_ == NextFailed \/ NextTake \/ NextDrained \/ NextErr

(* Close, possibly while Next waits: the subscription is told to quit and   *)
(* Close waits for its end.                                                 *)
Close ==
  /\ use = "iterator"
  /\ closing = "no"
  /\ closing' = "called"
  /\ UNCHANGED <<copy, use, channelVars, handed, iteratorVars, watchVars>>

CloseReturns ==
  /\ use = "iterator"
  /\ closing = "called"
  /\ source # "open"
  /\ closing' = "returned"
  /\ UNCHANGED <<copy, use, channelVars, handed, iteratorVars, watchVars>>

-----------------------------------------------------------------------------
(* The watch.                                                               *)

Watch ==
  /\ use = "none"
  /\ found = <<>>
  /\ use' = "watch"
  /\ loop' = "select"
  /\ UNCHANGED <<copy, channelVars, handed, iteratorVars, reading, outcome,
                 closing>>

(* The goroutine returns err; the deferred Unsubscribe ends the             *)
(* subscription of the logs, and a user who unsubscribed sees no error.     *)
WatchReturns(err) ==
  /\ loop' = "stopped"
  /\ source' = "ended"
  /\ outcome' = IF closing = "no" THEN err ELSE "nil"

(* Faulty variant: the goroutine waits until the channel is full.           *)
WatchTakeBatch ==
  /\ loop = "select"
  /\ sent - got = Buffer
  /\ got' = got + 1
  /\ IF UnpackLog(got + 1)
     THEN loop' = "deliver" /\ UNCHANGED <<source, outcome>>
     ELSE WatchReturns("error")
  /\ UNCHANGED <<copy, use, hungup, found, sent, handed, iteratorVars, reading,
                 closing>>

(* Faulty variant: a log that does not parse ends the watch silently.       *)
WatchTakeSilent ==
  /\ loop = "select"
  /\ got < sent
  /\ got' = got + 1
  /\ IF UnpackLog(got + 1)
     THEN loop' = "deliver" /\ UNCHANGED <<source, outcome>>
     ELSE WatchReturns("nil")
  /\ UNCHANGED <<copy, use, hungup, found, sent, handed, iteratorVars, reading,
                 closing>>

(* erc20.go:782-788: a log arrived.                                         *)
WatchTake ==
  /\ loop = "select"
  /\ got < sent
  /\ got' = got + 1
  /\ IF UnpackLog(got + 1)
     THEN loop' = "deliver" /\ UNCHANGED <<source, outcome>>
     ELSE WatchReturns("error")
  /\ UNCHANGED <<copy, use, hungup, found, sent, handed, iteratorVars, reading,
                 closing>>

(* erc20.go:791: the user receives the event.                               *)
WatchSink ==
  /\ loop = "deliver"
  /\ reading
  /\ handed' = Append(handed, got)
  /\ loop' = "select"
  /\ UNCHANGED <<copy, use, channelVars, iteratorVars, reading, outcome, closing>>

(* erc20.go:792-793, 797-798: the subscription of the logs is over.         *)
WatchErr ==
  /\ loop \in {"select", "deliver"}
  /\ source # "open"
  /\ WatchReturns(IF source = "failed" THEN "error" ELSE "nil")
  /\ UNCHANGED <<copy, use, hungup, found, sent, got, handed, iteratorVars,
                 reading, closing>>

(* Faulty variant: the inner select does not look at quit.                  *)
WatchQuitOuter ==
  /\ loop = "select"
  /\ closing = "called"
  /\ WatchReturns("nil")
  /\ UNCHANGED <<copy, use, hungup, found, sent, got, handed, iteratorVars,
                 reading, closing>>

(* erc20.go:794-795, 799-800: the user unsubscribed.                        *)
WatchQuit ==
  /\ loop \in {"select", "deliver"}
  /\ closing = "called"
  /\ WatchReturns("nil")
  /\ UNCHANGED <<copy, use, hungup, found, sent, got, handed, iteratorVars,
                 reading, closing>>

WatchLoop == WatchTake \/ WatchSink \/ WatchErr \/ WatchQuit

(* The user unsubscribes and waits for the goroutine to return.             *)
Unsubscribe ==
  /\ use = "watch"
  /\ closing = "no"
  /\ closing' = "called"
  /\ UNCHANGED <<copy, use, channelVars, handed, iteratorVars, watchVars>>

UnsubscribeReturns ==
  /\ use = "watch"
  /\ closing = "called"
  /\ loop = "stopped"
  /\ closing' = "returned"
  /\ UNCHANGED <<copy, use, channelVars, handed, iteratorVars, watchVars>>

(* The user does not receive from the sink any more, for instance because   *)
(* it is the goroutine that waits in Unsubscribe.                           *)
StopReading ==
  /\ use = "watch"
  /\ reading
  /\ reading' = FALSE
  /\ UNCHANGED <<copy, use, channelVars, handed, iteratorVars, loop, outcome,
                 closing>>

-----------------------------------------------------------------------------
(* One copy per event.                                                      *)
Step ==
  \/ Filter \/ Ask \/ Next_ \/ Close \/ CloseReturns
  \/ Watch \/ WatchLoop \/ Unsubscribe \/ UnsubscribeReturns

StepERC20Approval == copy = ERC20Approval /\ Step
StepERC20Transfer == copy = ERC20Transfer /\ Step
StepIERC20Approval == copy = IERC20Approval /\ Step
StepIERC20Transfer == copy = IERC20Transfer /\ Step
StepIERC721Approval == copy = IERC721Approval /\ Step
StepIERC721ApprovalForAll == copy = IERC721ApprovalForAll /\ Step
StepIERC721Transfer == copy = IERC721Transfer /\ Step

Next ==
  \/ \E indexed \in 2 .. 3 : Emit(indexed)
  \/ Produce \/ SourceEnds \/ SourceFails
  \/ StopReading
  \/ StepERC20Approval \/ StepERC20Transfer
  \/ StepIERC20Approval \/ StepIERC20Transfer
  \/ StepIERC721Approval \/ StepIERC721ApprovalForAll \/ StepIERC721Transfer

Spec == Init /\ [][Next]_vars

(***************************************************************************)
(* Goroutines that can run do: the source of the logs, Next and Close once *)
(* called, the loop of the watch and the receiver of its sink.  Among the  *)
(* ready cases of a select Go chooses at random, so that none stays ready  *)
(* forever without being taken.                                            *)
(***************************************************************************)
Fairness ==
  /\ WF_vars(Produce)
  /\ WF_vars(use = "iterator" /\ SourceEnds)
  /\ WF_vars(Next_)
  /\ WF_vars(CloseReturns)
  /\ WF_vars(WatchLoop) /\ WF_vars(WatchQuit)
  /\ WF_vars(UnsubscribeReturns)

FairSpec == Spec /\ Fairness

-----------------------------------------------------------------------------
(* Properties.                                                              *)

(***************************************************************************)
(* The iterator and the watch implement Feed.  In particular Next returns  *)
(* false without an error only when every log was handed over or the       *)
(* iterator was closed, although the end of the subscription and the last  *)
(* logs reach it on two channels; and a watch that stops short of the last *)
(* log, at one that does not parse or because its subscription failed, has *)
(* reported an error, unless the user unsubscribed or the connection was   *)
(* closed.                                                                 *)
(***************************************************************************)
EndSeen ==
  IF fail \/ outcome = "error" THEN "error"
  ELSE IF answer = "false" \/ outcome = "nil" THEN "complete" ELSE "open"

Reader == INSTANCE Feed WITH
  offered <- Len(found),
  left <- closing # "no",
  cut <- hungup,
  end <- EndSeen

FeedSpec == Reader!Spec

(***************************************************************************)
(* Next returns: a log, an error or the end of the subscription always     *)
(* wakes it.                                                               *)
(***************************************************************************)
NextReturns == asking ~> ~asking

(***************************************************************************)
(* Unsubscribe and Close return, also when nobody receives from the sink   *)
(* any more and the goroutine of the watch holds an event.                 *)
(***************************************************************************)
ClosingReturns == closing = "called" ~> closing = "returned"

(***************************************************************************)
(* A log that a watch was sent reaches a user who goes on receiving, until *)
(* the watch stops.                                                        *)
(***************************************************************************)
WatchDelivers ==
  \A n \in 1 .. MaxLogs :
    loop # "off" /\ Len(found) >= n
      ~> Len(handed) >= n \/ ~reading \/ loop = "stopped"
=============================================================================
