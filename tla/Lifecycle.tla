------------------------------ MODULE Lifecycle ------------------------------
(***************************************************************************)
(* Construction, options, start and stop of the clients of one process     *)
(* (client/client.go, client/opt.go).                                      *)
(*                                                                         *)
(* The three durations that AsyncSend and SyncSend work with are package   *)
(* variables.  NewClient writes them one after the other without a lock    *)
(* (client.go:97-99), so that the client built last decides for all of     *)
(* them, and a call that runs meanwhile reads some old and some new ones.  *)
(* A read or a write of one duration is atomic, as it is on the 64-bit     *)
(* builds of Go.                                                           *)
(*                                                                         *)
(* What a call does between reading the durations is in NonceCash and      *)
(* SyncSend; here it sends or fails, for whatever reason.  The confirmer   *)
(* is external: Start runs its workers under a context, Close calls the    *)
(* function that cancels the context.                                      *)
(***************************************************************************)
EXTENDS Integers, Sequences

CONSTANTS
  Clients,     (* clients of the process, each built once                   *)
  Calls,       (* calls of AsyncSend and SyncSend                           *)
  NoClient,    (* the value of latest before any client was built           *)
  OptionLists, (* options of a NewClient: the last value of each kind       *)
  Defaults,    (* DefaultTimeout, DefaultSyncSendTimeout,                   *)
               (* DefaultSyncSendConfirmInterval                            *)
  Unit,        (* time.Second, time.Second, time.Millisecond                *)
  Limit,       (* 2^63: durations are int64                                 *)
  MaxTurns     (* bound of the model: calls of Start and Stop per client    *)

(* The fields of Client, in the order NewClient publishes them.             *)
Fields == {"timeout", "syncSendTimeout", "syncSendConfirmInterval"}

(* A value whose duration is positive.                                      *)
Sound(field, value) == value > 0 /\ value * Unit[field] < Limit

ASSUME ClientsAssumption == NoClient \notin Clients
ASSUME UnitAssumption == Unit \in [Fields -> Nat \ {0}] /\ Limit \in Nat \ {0}
ASSUME DefaultsAssumption ==
  Defaults \in [Fields -> Int] /\ \A f \in Fields : Sound(f, Defaults[f])
ASSUME OptionsAssumption ==
  \A opts \in OptionLists : DOMAIN opts \subseteq Fields
                              /\ \A f \in DOMAIN opts : opts[f] \in Int
ASSUME BoundsAssumption == MaxTurns \in Nat

VARIABLES
  global,     (* timeoutDuration, syncSendTimeoutDuration,                  *)
              (* syncSendConfirmIntervalDuration                            *)
  phase,      (* of each client: "absent", "failed", the field it publishes *)
              (* next, or "built"                                           *)
  options,    (* the fields of each client after the options were applied   *)
  latest,     (* the client that was built last (history)                   *)
  overlapped, (* two NewClient published at the same time (history)         *)
  pc,         (* where each call is                                         *)
  used,       (* the durations each call has read                           *)
  quiet,      (* no NewClient published during the call (history)           *)
  turns,      (* calls of Start and Stop of each client so far (history)    *)
  cancel,     (* Client.cancel: the context of a Start, named by the        *)
              (* position of the call in turns, 0 for nil                   *)
  live,       (* the contexts under which the client's workers run          *)
  closed,     (* the connection of the client was closed                    *)
  panic       (* what the process died of: "no", "option", "ticker",        *)
              (* "cancel"                                                   *)

clientVars == <<global, phase, options, latest, overlapped>>
callVars == <<pc, used, quiet>>
workerVars == <<turns, cancel, live, closed>>
vars == <<global, phase, options, latest, overlapped, pc, used, quiet,
          turns, cancel, live, closed, panic>>

Durations == -Limit .. (Limit - 1)

TypeOK ==
  /\ global \in [Fields -> Durations]
  /\ phase \in [Clients -> {"absent", "failed", "built"} \cup Fields]
  /\ options \in [Clients -> [Fields -> Int]]
  /\ latest \in Clients \cup {NoClient}
  /\ overlapped \in BOOLEAN
  /\ pc \in [Calls -> {"idle", "async", "sync", "deadline", "ticker", "poll",
                       "done"}]
  /\ used \in [Calls -> [Fields -> Durations]]
  /\ quiet \in [Calls -> BOOLEAN]
  /\ turns \in [Clients -> Seq({"start", "stop"})]
  /\ cancel \in [Clients -> Nat]
  /\ live \in [Clients -> SUBSET Nat]
  /\ closed \in [Clients -> BOOLEAN]
  /\ panic \in {"no", "option", "ticker", "cancel"}

Init ==
  /\ global = [f \in Fields |-> 0]
  /\ phase = [c \in Clients |-> "absent"]
  /\ options = [c \in Clients |-> Defaults]
  /\ latest = NoClient
  /\ overlapped = FALSE
  /\ pc = [k \in Calls |-> "idle"]
  /\ used = [k \in Calls |-> [f \in Fields |-> 0]]
  /\ quiet = [k \in Calls |-> FALSE]
  /\ turns = [c \in Clients |-> <<>>]
  /\ cancel = [c \in Clients |-> 0]
  /\ live = [c \in Clients |-> {}]
  /\ closed = [c \in Clients |-> FALSE]
  /\ panic = "no"

-----------------------------------------------------------------------------
(* NewClient and its options.                                               *)

(* Faulty variant: zero is let through.                                     *)
WithZero(opts) ==
  \A f \in DOMAIN opts : f # "syncSendConfirmInterval" => opts[f] >= 0

(* WithTimeout and WithSyncSendTimeout panic for a value that is not        *)
(* positive, WithSyncSendConfirmInterval takes every value.                 *)
With(opts) ==
  \A f \in DOMAIN opts : f # "syncSendConfirmInterval" => opts[f] > 0

(* The setters on top of the defaults.                                      *)
Apply(opts) ==
  [f \in Fields |-> IF f \in DOMAIN opts THEN opts[f] ELSE Defaults[f]]

(* The options are made, which may panic; the dial or ChainID fails, or the *)
(* options are applied.                                                     *)
NewClient(c, opts) ==
  /\ phase[c] = "absent"
  /\ IF With(opts)
     THEN /\ \/ /\ phase' = [phase EXCEPT ![c] = "failed"]
                /\ UNCHANGED options
             \/ /\ phase' = [phase EXCEPT ![c] = "timeout"]
                /\ options' = [options EXCEPT ![c] = Apply(opts)]
          /\ UNCHANGED panic
     ELSE panic' = "option" /\ UNCHANGED <<phase, options>>
  /\ UNCHANGED <<global, latest, overlapped, callVars, workerVars>>

(* Faulty variant: a product that is not cut to 64 bits.                    *)
DurationUnbounded(field, value) == value * Unit[field]

(* The product of two int64 values.                                         *)
Duration(field, value) ==
  ((value * Unit[field] + Limit) % (2 * Limit)) - Limit

(* Faulty variant: the interval is not published.                           *)
AfterTwo(field) ==
  IF field = "timeout" THEN "syncSendTimeout" ELSE "built"

After(field) ==
  IF field = "timeout" THEN "syncSendTimeout"
  ELSE IF field = "syncSendTimeout" THEN "syncSendConfirmInterval"
  ELSE "built"

(* Faulty variant: a duration that was published once stays.                *)
PublishOnce(c) ==
  /\ phase[c] \in Fields
  /\ global' = [global EXCEPT ![phase[c]] =
                  IF @ = 0 THEN Duration(phase[c], options[c][phase[c]]) ELSE @]
  /\ phase' = [phase EXCEPT ![c] = After(@)]
  /\ latest' = IF phase'[c] = "built" THEN c ELSE latest
  /\ overlapped' = (overlapped \/ \E d \in Clients \ {c} : phase[d] \in Fields)
  /\ quiet' = [k \in Calls |-> FALSE]
  /\ UNCHANGED <<options, pc, used, workerVars, panic>>

(* client.go:97-99: the next of the three durations is published; after the *)
(* last one NewClient returns.                                              *)
Publish(c) ==
  /\ phase[c] \in Fields
  /\ global' = [global EXCEPT ![phase[c]] =
                  Duration(phase[c], options[c][phase[c]])]
  /\ phase' = [phase EXCEPT ![c] = After(@)]
  /\ latest' = IF phase'[c] = "built" THEN c ELSE latest
  /\ overlapped' = (overlapped \/ \E d \in Clients \ {c} : phase[d] \in Fields)
  /\ quiet' = [k \in Calls |-> FALSE]
  /\ UNCHANGED <<options, pc, used, workerVars, panic>>

-----------------------------------------------------------------------------
(* The durations of a call.                                                 *)

Read(k, field, to) ==
  /\ used' = [used EXCEPT ![k][field] = global[field]]
  /\ pc' = [pc EXCEPT ![k] = to]

Goto(k, to) == pc' = [pc EXCEPT ![k] = to] /\ UNCHANGED used

Begin(k, to) ==
  /\ pc[k] = "idle"
  /\ \E c \in Clients : phase[c] = "built"
  /\ Read(k, "timeout", to)
  /\ quiet' = [quiet EXCEPT ![k] =
                 ~overlapped /\ \A c \in Clients : phase[c] \notin Fields]
  /\ UNCHANGED <<clientVars, workerVars, panic>>

(* client.go:139 and 156.                                                   *)
AsyncSend(k) == Begin(k, "async")
SyncSend(k) == Begin(k, "sync")

(* The transaction is signed and sent under that deadline; every round trip *)
(* fails when it has passed.                                                *)
SendTx(k) ==
  /\ pc[k] \in {"async", "sync"}
  /\ \/ Goto(k, "done")
     \/ /\ pc[k] = "sync"
        /\ used[k]["timeout"] > 0
        /\ Goto(k, "deadline")
  /\ UNCHANGED <<clientVars, quiet, workerVars, panic>>

(* client.go:173: the deadline of the wait.                                 *)
SyncSendTimeout(k) ==
  /\ pc[k] = "deadline"
  /\ Read(k, "syncSendTimeout", "ticker")
  /\ UNCHANGED <<clientVars, quiet, workerVars, panic>>

(* client.go:176: NewTicker panics for an interval that is not positive.    *)
NewTicker(k) ==
  /\ pc[k] = "ticker"
  /\ Read(k, "syncSendConfirmInterval", "poll")
  /\ panic' = IF used'[k]["syncSendConfirmInterval"] > 0 THEN "no" ELSE "ticker"
  /\ UNCHANGED <<clientVars, quiet, workerVars>>

-----------------------------------------------------------------------------
(* Start and Stop.                                                          *)

Turn(c, call) ==
  /\ phase[c] = "built"
  /\ Len(turns[c]) < MaxTurns
  /\ turns' = [turns EXCEPT ![c] = Append(@, call)]

(* Faulty variant: the first cancel function is kept.                       *)
StartKeepsCancel(c) ==
  /\ Turn(c, "start")
  /\ cancel' = [cancel EXCEPT ![c] = IF @ = 0 THEN Len(turns'[c]) ELSE @]
  /\ live' = [live EXCEPT ![c] = @ \cup {Len(turns'[c])}]
  /\ UNCHANGED <<clientVars, callVars, closed, panic>>

(* A new context; its cancel function replaces the one of an earlier Start. *)
Start(c) ==
  /\ Turn(c, "start")
  /\ cancel' = [cancel EXCEPT ![c] = Len(turns'[c])]
  /\ live' = [live EXCEPT ![c] = @ \cup {Len(turns'[c])}]
  /\ UNCHANGED <<clientVars, callVars, closed, panic>>

(* Close calls the cancel function, which may have been called before, and  *)
(* the connection is closed.  Before the first Start there is no function   *)
(* and the call panics.  A closed connection is never opened again; over    *)
(* http closing has no effect.                                              *)
Stop(c) ==
  /\ Turn(c, "stop")
  /\ IF cancel[c] = 0
     THEN panic' = "cancel" /\ UNCHANGED <<live, closed>>
     ELSE /\ live' = [live EXCEPT ![c] = @ \ {cancel[c]}]
          /\ closed' = [closed EXCEPT ![c] = TRUE]
          /\ UNCHANGED panic
  /\ UNCHANGED <<clientVars, callVars, cancel>>

-----------------------------------------------------------------------------
(* A panic nobody recovers from ends the process.                           *)
Next ==
  /\ panic = "no"
  /\ \/ \E c \in Clients, opts \in OptionLists : NewClient(c, opts)
     \/ \E c \in Clients : Publish(c) \/ Start(c) \/ Stop(c)
     \/ \E k \in Calls :
          \/ AsyncSend(k) \/ SyncSend(k) \/ SendTx(k)
          \/ SyncSendTimeout(k) \/ NewTicker(k)

Spec == Init /\ [][Next]_vars

-----------------------------------------------------------------------------
(* Properties.                                                              *)

(* The durations a call has read so far.                                    *)
Known(k) ==
  IF pc[k] \in {"async", "sync", "deadline"} THEN {"timeout"}
  ELSE IF pc[k] = "ticker" THEN {"timeout", "syncSendTimeout"}
  ELSE IF pc[k] = "poll" THEN Fields
  ELSE {}

(* A client whose value of the field is beyond what a duration can hold.    *)
Overflows(field) ==
  \E c \in Clients : options[c][field] * Unit[field] >= Limit

(***************************************************************************)
(* No call works under a deadline that has passed before it begins: the    *)
(* package variables, which are zero in a new process, are published       *)
(* before any client can be used, and WithTimeout and WithSyncSendTimeout  *)
(* refuse what is not positive.  What they do not refuse is a number of    *)
(* seconds that overflows int64 nanoseconds (client.go:97-98).             *)
(***************************************************************************)
DeadlineAhead ==
  \A k \in Calls : \A f \in Known(k) \ {"syncSendConfirmInterval"} :
    used[k][f] > 0 \/ Overflows(f)

(***************************************************************************)
(* SyncSend panics at its ticker, after the transaction was sent, only if  *)
(* some client of the process, not necessarily the one in use, was given   *)
(* an interval that is not positive or overflows.                          *)
(***************************************************************************)
TickerPanicHasCulprit ==
  panic = "ticker" =>
    \E c \in Clients : ~Sound("syncSendConfirmInterval",
                              options[c]["syncSendConfirmInterval"])

(***************************************************************************)
(* In a process that builds its clients one after the other, a call works  *)
(* with the durations of the client that was built last, whichever client  *)
(* it belongs to, unless a NewClient publishes while it runs.  With one    *)
(* client these are its own options.                                       *)
(***************************************************************************)
LastClientDecides ==
  \A k \in Calls : quiet[k] =>
    \A f \in Known(k) : used[k][f] = Duration(f, options[latest][f])

(* The Starts whose workers run, if a Stop ends those of the last Start and *)
(* no others: nothing was called since, or the next call was another Start. *)
Unreached(c) ==
  {n \in 1 .. Len(turns[c]) :
     turns[c][n] = "start" /\ (n < Len(turns[c]) => turns[c][n + 1] = "start")}

(***************************************************************************)
(* Whatever the order in which Start and Stop are called, workers go on    *)
(* exactly if no Stop was called since their Start or another Start came   *)
(* first; that one made the client forget how to stop them                 *)
(* (client.go:106).  And workers work on a closed connection (client.go:   *)
(* 113) only if they were started after a Stop or forgotten before it.     *)
(***************************************************************************)
StopReachesWorkers ==
  \A c \in Clients :
    /\ live[c] = Unreached(c)
    /\ closed[c] => \A n \in live[c] :
         n < Len(turns[c]) \/ \E m \in 1 .. (n - 1) : turns[c][m] = "stop"
=============================================================================
