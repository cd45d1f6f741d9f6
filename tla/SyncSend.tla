------------------------------- MODULE SyncSend -------------------------------
(***************************************************************************)
(* SyncSend and the confirmation of transactions (client/client.go,        *)
(* client/map.go): callers that send a transaction and poll until it is    *)
(* settled, the hooks the confirmer calls back, Client.ConfirmTx, and the  *)
(* chain they observe.                                                     *)
(*                                                                         *)
(* The confirmer (transaction-confirmer) is external.  It is modelled from *)
(* the way client.go uses it: EnqueueTx calls Client.SendTx and reports    *)
(* its error to the caller (client_test.go:133-145 relies on that), calls  *)
(* afterTxSent, and puts the hash in a queue of queueSize entries; workers *)
(* take hashes from the queue and call Client.ConfirmTx.  ErrTxNotFound    *)
(* and ErrTxConfirmPending mean "ask again later", no error is followed by *)
(* afterTxConfirmed and any other error by errHandle.  When and in which   *)
(* goroutine the hook afterTxSent runs is not visible in client.go, which  *)
(* reckons with a hash that is polled before it (client.go:185): the hook  *)
(* is a process of its own.  For the calls in HookFirst EnqueueTx waits    *)
(* for it before it queues the hash; for the others it runs whenever it    *)
(* likes once the node has the transaction, while the hash is queued,      *)
(* confirmed and polled.  What must hold in both cases is checked with a   *)
(* call of each kind.                                                      *)
(*                                                                         *)
(* A call and the hash of its transaction are the same value: distinct     *)
(* nonces give distinct hashes (see NonceCash).                            *)
(***************************************************************************)
EXTENDS Integers, Sequences, FiniteSets

CONSTANTS
  Calls,         (* calls of SyncSend, also the hashes of their transactions *)
  Foreign,       (* hashes given to EnqueueTxHash that no SyncSend sent      *)
  Workers,       (* confirmer workers (confirm.WithWorkers)                  *)
  NoHash,        (* the hash of a worker that has none                       *)
  QueueSize,     (* c.queueSize                                              *)
  Confirmations, (* confirm.WithConfirmationBlock                            *)
  Word,          (* 2^64: block numbers are uint64                           *)
  HookFirst,     (* the calls whose hash is queued only after afterTxSent   *)
  Faults,        (* which things may go wrong: see FaultKinds                *)
  MaxReorgs      (* bound of the model: how often the chain takes blocks back *)

(***************************************************************************)
(* "sign":    sinedTx fails;                                               *)
(* "refuse":  the node turns the transaction down;                         *)
(* "reply":   the node takes it but SendTx returns an error;               *)
(* "rpc":     a round trip of ConfirmTx fails;                             *)
(* "revert":  a transaction is mined with receipt status 0;                *)
(* "timeout": syncSendTimeout elapses while the caller polls;              *)
(* "stop":    Stop is called.                                              *)
(***************************************************************************)
FaultKinds == {"sign", "refuse", "reply", "rpc", "revert", "timeout", "stop"}

Hashes == Calls \cup Foreign

ASSUME HashesAssumption ==
  Calls \cap Foreign = {} /\ NoHash \notin Hashes /\ IsFiniteSet(Hashes)
ASSUME QueueAssumption == QueueSize \in Nat \ {0}
ASSUME WordAssumption == Word \in Nat \ {0} /\ Confirmations \in 0 .. (Word - 1)
ASSUME SwitchAssumption == HookFirst \subseteq Calls /\ Faults \subseteq FaultKinds
ASSUME BoundsAssumption == MaxReorgs \in Nat

VARIABLES
  pc,            (* where each call is; the last three phases are results   *)
  unconfirmedTx, (* Client.unconfirmedTx                                    *)
  sentTx,        (* Client.sentTx                                           *)
  hook,          (* where afterTxSent is for each hash                      *)
  phase,         (* of the client: "new", "running" after Start, "stopped"  *)
  queue,         (* the confirmer's queue of hashes                         *)
  wpc,           (* where each worker is                                    *)
  whash,         (* the hash the worker is confirming                       *)
  wblock,        (* the block number of the receipt it read                 *)
  confirmed,     (* hashes afterTxConfirmed was called for (history)        *)
  dropped,       (* hashes errHandle was called for (history)               *)
  mempool,       (* transactions the node accepted and has not mined        *)
  blockOf,       (* blockOf[h]: the block h is mined in, 0 if it is not     *)
  reverted,      (* mined transactions whose receipt status is not 1        *)
  head,          (* number of the latest block                              *)
  reorgs,        (* how often the chain took blocks back                    *)
  misled         (* hashes whose block was taken back after a worker had    *)
                 (* read their receipt for good (history)                   *)

(* The two maps, and the hook that writes them.                             *)
mapVars == <<unconfirmedTx, sentTx, hook>>
workerVars == <<wpc, whash, wblock>>
verdictVars == <<confirmed, dropped>>
chainVars == <<mempool, blockOf, reverted, head, reorgs, misled>>
vars == <<pc, unconfirmedTx, sentTx, hook, phase, queue, wpc, whash, wblock,
          confirmed, dropped, mempool, blockOf, reverted, head, reorgs, misled>>

Running == {"push", "wait", "check", "clear"}
Results == {"ok", "error", "timeout"}
CallPhases == {"idle", "send"} \cup Running \cup Results
HookPhases == {"none", "track", "mark", "done"}
WorkerPhases == {"idle", "receipt", "depth", "retry", "confirm", "fail"}

TypeOK ==
  /\ pc \in [Calls -> CallPhases]
  /\ unconfirmedTx \subseteq Calls
  /\ sentTx \subseteq Calls
  /\ hook \in [Calls -> HookPhases]
  /\ phase \in {"new", "running", "stopped"}
  /\ queue \in Seq(Hashes)
  /\ wpc \in [Workers -> WorkerPhases]
  /\ whash \in [Workers -> Hashes \cup {NoHash}]
  /\ wblock \in [Workers -> Nat]
  /\ confirmed \subseteq Hashes
  /\ dropped \subseteq Hashes
  /\ mempool \subseteq Hashes
  /\ blockOf \in [Hashes -> Nat]
  /\ reverted \subseteq Hashes
  /\ head \in Nat
  /\ reorgs \in Nat
  /\ misled \subseteq Hashes

Init ==
  /\ pc = [h \in Calls |-> "idle"]
  /\ unconfirmedTx = {}
  /\ sentTx = {}
  /\ hook = [h \in Calls |-> "none"]
  /\ phase = "new"
  /\ queue = <<>>
  /\ wpc = [w \in Workers |-> "idle"]
  /\ whash = [w \in Workers |-> NoHash]
  /\ wblock = [w \in Workers |-> 0]
  /\ confirmed = {}
  /\ dropped = {}
  /\ mempool = Foreign
  /\ blockOf = [h \in Hashes |-> 0]
  /\ reverted = {}
  /\ head = 0
  /\ reorgs = 0
  /\ misled = {}

HookGoto(h, p) == hook' = [hook EXCEPT ![h] = p]
Goto(h, p) == pc' = [pc EXCEPT ![h] = p]
WorkerGoto(w, p) == wpc' = [wpc EXCEPT ![w] = p]

-----------------------------------------------------------------------------
(* SyncSend.                                                                *)

(* client.go:155-165: the transaction is signed, or the call fails.         *)
Sign(h) ==
  /\ pc[h] = "idle"
  /\ \/ Goto(h, "send")
     \/ "sign" \in Faults /\ Goto(h, "error")
  /\ UNCHANGED <<mapVars, phase, queue, workerVars, verdictVars, chainVars>>

(* EnqueueTx: the transaction goes to the node.  An error makes SyncSend    *)
(* give the nonce back and return it (client.go:167-171); a client that was *)
(* stopped has closed its connection.                                       *)
SendTx(h) ==
  /\ pc[h] = "send"
  /\ \/ /\ mempool' = mempool \cup {h}
        /\ \/ Goto(h, "push") /\ HookGoto(h, "track")
           \/ "reply" \in Faults /\ Goto(h, "error") /\ UNCHANGED hook
     \/ /\ "refuse" \in Faults \/ phase = "stopped"
        /\ Goto(h, "error")
        /\ UNCHANGED <<mempool, hook>>
  /\ UNCHANGED <<unconfirmedTx, sentTx, phase, queue, workerVars, verdictVars,
                 blockOf, reverted, head, reorgs, misled>>

(* Faulty variant: the two maps are written in the other order.             *)
AfterTxSentSwapped(h) ==
  /\ \/ /\ hook[h] = "track"
        /\ sentTx' = sentTx \cup {h}
        /\ HookGoto(h, "mark")
        /\ UNCHANGED unconfirmedTx
     \/ /\ hook[h] = "mark"
        /\ unconfirmedTx' = unconfirmedTx \cup {h}
        /\ HookGoto(h, "done")
        /\ UNCHANGED sentTx
  /\ UNCHANGED <<pc, phase, queue, workerVars, verdictVars, chainVars>>

(* The hook: the hash goes into unconfirmedTx and then into sentTx, each    *)
(* under the lock of its map.                                               *)
AfterTxSent(h) ==
  /\ \/ /\ hook[h] = "track"
        /\ unconfirmedTx' = unconfirmedTx \cup {h}
        /\ HookGoto(h, "mark")
        /\ UNCHANGED sentTx
     \/ /\ hook[h] = "mark"
        /\ sentTx' = sentTx \cup {h}
        /\ HookGoto(h, "done")
        /\ UNCHANGED unconfirmedTx
  /\ UNCHANGED <<pc, phase, queue, workerVars, verdictVars, chainVars>>

(* Faulty variant: the hash is queued while the hook is still running.      *)
PushEarly(h) ==
  /\ pc[h] = "push"
  /\ IF Len(queue) < QueueSize
     THEN queue' = Append(queue, h) /\ Goto(h, "wait")
     ELSE UNCHANGED queue /\ Goto(h, "error")
  /\ UNCHANGED <<mapVars, phase, workerVars, verdictVars, chainVars>>

(* EnqueueTx: the hash is queued, or the queue is full until the deadline   *)
(* of the context and SyncSend returns an error.                            *)
Push(h) ==
  /\ pc[h] = "push"
  /\ h \in HookFirst => hook[h] = "done"
  /\ IF Len(queue) < QueueSize
     THEN queue' = Append(queue, h) /\ Goto(h, "wait")
     ELSE UNCHANGED queue /\ Goto(h, "error")
  /\ UNCHANGED <<mapVars, phase, workerVars, verdictVars, chainVars>>

(* Faulty variant: the tick looks at sentTx only.                           *)
PollSentOnly(h) ==
  /\ pc[h] = "wait"
  /\ h \in sentTx
  /\ Goto(h, "clear")
  /\ UNCHANGED <<mapVars, phase, queue, workerVars, verdictVars, chainVars>>

(* client.go:184-187: a tick finds the hash in sentTx; while the hook has   *)
(* not put it there, a tick does nothing.                                   *)
PollSent(h) ==
  /\ pc[h] = "wait"
  /\ h \in sentTx
  /\ Goto(h, "check")
  /\ UNCHANGED <<mapVars, phase, queue, workerVars, verdictVars, chainVars>>

(* client.go:188: the same tick looks at unconfirmedTx.                     *)
PollUnconfirmed(h) ==
  /\ pc[h] = "check"
  /\ Goto(h, IF h \in unconfirmedTx THEN "wait" ELSE "clear")
  /\ UNCHANGED <<mapVars, phase, queue, workerVars, verdictVars, chainVars>>

(* Faulty variant: the entry of sentTx stays.                               *)
ReturnHashKeeps(h) ==
  /\ pc[h] = "clear"
  /\ Goto(h, "ok")
  /\ UNCHANGED <<mapVars, phase, queue, workerVars, verdictVars, chainVars>>

(* client.go:189-190: the entry of sentTx goes and the call succeeds.       *)
ReturnHash(h) ==
  /\ pc[h] = "clear"
  /\ sentTx' = sentTx \ {h}
  /\ Goto(h, "ok")
  /\ UNCHANGED <<unconfirmedTx, hook, phase, queue, workerVars, verdictVars, chainVars>>

(* Faulty variant: the deadline is looked at after the hash was settled.    *)
TimeOutSettled(h) ==
  /\ "timeout" \in Faults
  /\ pc[h] = "wait"
  /\ h \notin unconfirmedTx
  /\ Goto(h, "timeout")
  /\ UNCHANGED <<mapVars, phase, queue, workerVars, verdictVars, chainVars>>

(* client.go:181-183: the select takes the deadline; it may do so even if a *)
(* tick is ready as well.                                                   *)
TimeOut(h) ==
  /\ "timeout" \in Faults
  /\ pc[h] = "wait"
  /\ Goto(h, "timeout")
  /\ UNCHANGED <<mapVars, phase, queue, workerVars, verdictVars, chainVars>>

(* Client.EnqueueTxHash: the user hands over a hash of somebody else's      *)
(* transaction, or the hash SyncSend returned together with its timeout.    *)
EnqueueTxHash(h) ==
  /\ h \in Calls => pc[h] = "timeout"
  /\ Len(queue) < QueueSize
  /\ queue' = Append(queue, h)
  /\ UNCHANGED <<pc, mapVars, phase, workerVars, verdictVars, chainVars>>

-----------------------------------------------------------------------------
(* The confirmer's workers.                                                 *)

Start ==
  /\ phase = "new"
  /\ phase' = "running"
  /\ UNCHANGED <<pc, mapVars, queue, workerVars, verdictVars, chainVars>>

(* Stop cancels the workers' context and closes the connection, on which    *)
(* requests may fail from then on (over http they do not); calls in         *)
(* progress are not told.                                                   *)
Stop ==
  /\ "stop" \in Faults
  /\ phase = "running"
  /\ phase' = "stopped"
  /\ UNCHANGED <<pc, mapVars, queue, workerVars, verdictVars, chainVars>>

Take(w) ==
  /\ phase = "running"
  /\ wpc[w] = "idle"
  /\ queue # <<>>
  /\ whash' = [whash EXCEPT ![w] = Head(queue)]
  /\ queue' = Tail(queue)
  /\ WorkerGoto(w, "receipt")
  /\ UNCHANGED <<pc, mapVars, phase, wblock, verdictVars, chainVars>>

(* A round trip of ConfirmTx may end in an error.                           *)
AnswerLost == "rpc" \in Faults \/ phase = "stopped"

(* Faulty variant: the status of the receipt is not looked at.              *)
ReceiptAnyStatus(w) ==
  /\ wpc[w] = "receipt"
  /\ wblock' = [wblock EXCEPT ![w] = blockOf[whash[w]]]
  /\ WorkerGoto(w, IF blockOf[whash[w]] = 0 THEN "retry" ELSE "depth")
  /\ UNCHANGED <<pc, mapVars, phase, queue, whash, verdictVars, chainVars>>

(* ConfirmTx, client.go:197-209: the receipt.                               *)
Receipt(w) ==
  /\ wpc[w] = "receipt"
  /\ \/ /\ blockOf[whash[w]] = 0
        /\ WorkerGoto(w, "retry")
        /\ UNCHANGED wblock
     \/ /\ blockOf[whash[w]] # 0
        /\ whash[w] \in reverted
        /\ WorkerGoto(w, "fail")
        /\ UNCHANGED wblock
     \/ /\ blockOf[whash[w]] # 0
        /\ whash[w] \notin reverted
        /\ wblock' = [wblock EXCEPT ![w] = blockOf[whash[w]]]
        /\ WorkerGoto(w, "depth")
     \/ /\ AnswerLost
        /\ WorkerGoto(w, "fail")
        /\ UNCHANGED wblock
  /\ UNCHANGED <<pc, mapVars, phase, queue, whash, verdictVars, chainVars>>

(* The sum of two uint64 values.                                            *)
UintSum(a, b) == IF a + b < Word THEN a + b ELSE a + b - Word

(* Faulty variants: one block too few; no block at all.                     *)
PendingOffByOne(block) == UintSum(block, Confirmations) > head + 1

PendingUnmined(block) == block > head

(* client.go:216: the receipt's block is not yet deep enough.               *)
Pending(block) == UintSum(block, Confirmations) > head

(* ConfirmTx, client.go:211-220: the depth, from a second round trip; the   *)
(* receipt is gone when ConfirmTx returns.                                  *)
Depth(w) ==
  /\ wpc[w] = "depth"
  /\ \/ WorkerGoto(w, IF Pending(wblock[w]) THEN "retry" ELSE "confirm")
     \/ AnswerLost /\ WorkerGoto(w, "fail")
  /\ wblock' = [wblock EXCEPT ![w] = 0]
  /\ UNCHANGED <<pc, mapVars, phase, queue, whash, verdictVars, chainVars>>

(* Faulty variant: the worker forgets its hash before it is queued again.   *)
RetryForgets(w) ==
  /\ wpc[w] = "retry"
  /\ \/ /\ WorkerGoto(w, "receipt")
        /\ UNCHANGED <<queue, whash>>
     \/ /\ Len(queue) < QueueSize
        /\ whash' = [whash EXCEPT ![w] = NoHash]
        /\ queue' = Append(queue, whash'[w])
        /\ WorkerGoto(w, "idle")
  /\ UNCHANGED <<pc, mapVars, phase, wblock, verdictVars, chainVars>>

(* ErrTxNotFound or ErrTxConfirmPending: ask again, at once or after the    *)
(* hash went through the queue.                                             *)
Retry(w) ==
  /\ wpc[w] = "retry"
  /\ \/ /\ WorkerGoto(w, "receipt")
        /\ UNCHANGED <<queue, whash>>
     \/ /\ Len(queue) < QueueSize
        /\ queue' = Append(queue, whash[w])
        /\ whash' = [whash EXCEPT ![w] = NoHash]
        /\ WorkerGoto(w, "idle")
  /\ UNCHANGED <<pc, mapVars, phase, wblock, verdictVars, chainVars>>

(* Faulty variant: the confirmed hash is taken out of the wrong map.        *)
AfterTxConfirmedSent(w) ==
  /\ wpc[w] = "confirm"
  /\ sentTx' = sentTx \ {whash[w]}
  /\ confirmed' = confirmed \cup {whash[w]}
  /\ whash' = [whash EXCEPT ![w] = NoHash]
  /\ WorkerGoto(w, "idle")
  /\ UNCHANGED <<pc, unconfirmedTx, hook, phase, queue, wblock, dropped, chainVars>>

(* afterTxConfirmed: the hash leaves unconfirmedTx.                         *)
AfterTxConfirmed(w) ==
  /\ wpc[w] = "confirm"
  /\ unconfirmedTx' = unconfirmedTx \ {whash[w]}
  /\ confirmed' = confirmed \cup {whash[w]}
  /\ whash' = [whash EXCEPT ![w] = NoHash]
  /\ WorkerGoto(w, "idle")
  /\ UNCHANGED <<pc, sentTx, hook, phase, queue, wblock, dropped, chainVars>>

(* Faulty variant: the error is only logged.                                *)
ErrHandleLogs(w) ==
  /\ wpc[w] = "fail"
  /\ dropped' = dropped \cup {whash[w]}
  /\ whash' = [whash EXCEPT ![w] = NoHash]
  /\ WorkerGoto(w, "idle")
  /\ UNCHANGED <<pc, mapVars, phase, queue, wblock, confirmed, chainVars>>

(* errHandle: the same, whatever the error was.                             *)
ErrHandle(w) ==
  /\ wpc[w] = "fail"
  /\ unconfirmedTx' = unconfirmedTx \ {whash[w]}
  /\ dropped' = dropped \cup {whash[w]}
  /\ whash' = [whash EXCEPT ![w] = NoHash]
  /\ WorkerGoto(w, "idle")
  /\ UNCHANGED <<pc, sentTx, hook, phase, queue, wblock, confirmed, chainVars>>

(* A worker sees that its context is cancelled and leaves its hash.         *)
WorkerExit(w) ==
  /\ phase = "stopped"
  /\ wpc[w] # "idle"
  /\ whash' = [whash EXCEPT ![w] = NoHash]
  /\ wblock' = [wblock EXCEPT ![w] = 0]
  /\ WorkerGoto(w, "idle")
  /\ UNCHANGED <<pc, mapVars, phase, queue, verdictVars, chainVars>>

-----------------------------------------------------------------------------
(* The chain.                                                               *)

(* A new block with the transactions included, some of which revert.        *)
(* Blocks that include nothing matter only while a mined transaction is not *)
(* deep enough; the others are left out.                                    *)
Mine(included, failing) ==
  /\ \/ included # {}
     \/ \E h \in Hashes : blockOf[h] # 0 /\ blockOf[h] + Confirmations > head
  /\ head' = head + 1
  /\ mempool' = mempool \ included
  /\ blockOf' = [h \in Hashes |-> IF h \in included THEN head + 1 ELSE blockOf[h]]
  /\ reverted' = reverted \cup failing
  /\ UNCHANGED <<pc, mapVars, phase, queue, workerVars, verdictVars, reorgs, misled>>

Failing(included) == IF "revert" \in Faults THEN SUBSET included ELSE {{}}

(* ConfirmTx has a receipt of h that it will not ask for again.             *)
Relied(h) ==
  \/ h \in confirmed
  \/ \E w \in Workers : whash[w] = h /\ wpc[w] \in {"depth", "confirm"}

(* The blocks from b on lose against siblings that hold none of their       *)
(* transactions.                                                            *)
Reorg(b) ==
  /\ reorgs < MaxReorgs
  /\ \E h \in Hashes : blockOf[h] >= b
  /\ LET undone == {h \in Hashes : blockOf[h] >= b}
     IN  /\ mempool' = mempool \cup undone
         /\ blockOf' = [h \in Hashes |-> IF h \in undone THEN 0 ELSE blockOf[h]]
         /\ reverted' = reverted \ undone
         /\ misled' = misled \cup {h \in undone : Relied(h)}
  /\ reorgs' = reorgs + 1
  /\ UNCHANGED <<pc, mapVars, phase, queue, workerVars, verdictVars, head>>

-----------------------------------------------------------------------------
CallStep(h) ==
  \/ Sign(h) \/ SendTx(h) \/ Push(h) \/ PollSent(h) \/ PollUnconfirmed(h)
  \/ ReturnHash(h) \/ TimeOut(h)

WorkerStep(w) ==
  \/ Take(w) \/ Receipt(w) \/ Depth(w) \/ Retry(w)
  \/ AfterTxConfirmed(w) \/ ErrHandle(w) \/ WorkerExit(w)

Block(included) == \E failing \in Failing(included) : Mine(included, failing)

Next ==
  \/ \E h \in Calls : CallStep(h) \/ AfterTxSent(h)
  \/ \E h \in Hashes : EnqueueTxHash(h)
  \/ \E w \in Workers : WorkerStep(w)
  \/ Start \/ Stop
  \/ \E included \in SUBSET mempool : Block(included)
  \/ \E b \in 1 .. head : Reorg(b)

Spec == Init /\ [][Next]_vars
(***************************************************************************)
(* Every goroutine that can run does; a select whose deadline has passed   *)
(* takes it in the end (Go chooses among the ready cases at random, so the *)
(* timeout of a polling call is strongly fair); the client is started as   *)
(* in the README; the node includes what it accepted and the chain grows.  *)
(***************************************************************************)
Fairness ==
  /\ \A h \in Calls :
       WF_vars(CallStep(h)) /\ WF_vars(AfterTxSent(h)) /\ SF_vars(TimeOut(h))
  /\ \A w \in Workers : WF_vars(WorkerStep(w))
  /\ WF_vars(Start)
  /\ \A h \in Hashes :
       WF_vars(\E included \in SUBSET mempool : h \in included /\ Block(included))
  /\ WF_vars(Block({}))

FairSpec == Spec /\ Fairness

-----------------------------------------------------------------------------
(* Properties.                                                              *)

(***************************************************************************)
(* SyncSend does not return a hash without an error before the confirmer   *)
(* has called afterTxConfirmed or errHandle for it, although the two maps  *)
(* it polls are written by the hook and the workers while it reads them,   *)
(* each under a lock of its own: a tick that finds the hash in the one map *)
(* and not in the other must not have looked between the writes of the     *)
(* hook (client.go:375-376).                                               *)
(***************************************************************************)
OkIsSettled ==
  \A h \in Calls : pc[h] \in {"clear", "ok"} => h \in confirmed \cup dropped

(***************************************************************************)
(* A call that succeeded leaves nothing behind in the two maps: no hook    *)
(* writes its hash again later.  Calls that timed out or failed to queue   *)
(* their hash do leave entries behind, and nothing is said of them.        *)
(***************************************************************************)
OkLeavesNoTrace ==
  \A h \in Calls : pc[h] = "ok" => h \notin sentTx /\ h \notin unconfirmedTx

Deep(h) ==
  blockOf[h] # 0 /\ h \notin reverted /\ blockOf[h] + Confirmations <= head

NoWrap == head + Confirmations < Word

(***************************************************************************)
(* A hash afterTxConfirmed was called for is mined, has not reverted and   *)
(* has the configured number of blocks on top, as long as the sum of       *)
(* client.go:216 fits a uint64: the receipt and the head come from two     *)
(* round trips between which the chain moves on.  The receipt is never     *)
(* read again: the one exception is a hash whose block was taken back      *)
(* after that.                                                             *)
(***************************************************************************)
ConfirmedIsDeep == NoWrap => \A h \in confirmed \ misled : Deep(h)

(***************************************************************************)
(* README.md:3 "support sync send, confirming x blocks mined": a hash that *)
(* SyncSend returns without an error is mined successfully, x blocks deep. *)
(***************************************************************************)
OkIsDeep == NoWrap => \A h \in Calls : pc[h] = "ok" => Deep(h)

(***************************************************************************)
(* What SyncSend keeps of that promise under every fault and however often *)
(* the chain takes blocks back: a hash it returns without an error is deep *)
(* unless errHandle was called for it (client.go:388-394) or its block was *)
(* taken back after the receipt was read.                                  *)
(***************************************************************************)
OkIsDeepOrExcused ==
  NoWrap => \A h \in Calls : pc[h] = "ok" => Deep(h) \/ h \in dropped \cup misled

(***************************************************************************)
(* Every call returns, whether or not the client is running, the node      *)
(* answers, or the confirmer forgets the hash.                             *)
(***************************************************************************)
EveryCallReturns == \A h \in Calls : pc[h] # "idle" ~> pc[h] \in Results

(* A worker has settled the hash and the hook is still to put it into       *)
(* unconfirmedTx, where it then stays.                                      *)
Overtaken(h) == hook[h] = "track" /\ h \in confirmed \cup dropped

(***************************************************************************)
(* Where EnqueueTx waits for the hook, no worker overtakes it, although    *)
(* the user may hand over a hash again (client.go:223) whose call timed    *)
(* out.                                                                    *)
(***************************************************************************)
HookFirstNotOvertaken == \A h \in HookFirst : ~Overtaken(h)

(***************************************************************************)
(* Without the help of the timeout: while the client runs, every           *)
(* transaction the node takes is settled and its call returns, unless a    *)
(* worker overtakes the hook.  Then the caller polls until its timeout,    *)
(* although the transaction is confirmed (client.go:188).                  *)
(***************************************************************************)
EverySendSettles ==
  \A h \in Calls :
    pc[h] = "send" ~> pc[h] \in Results \/ Overtaken(h) \/ phase = "stopped"

(***************************************************************************)
(* The confirmation that comes after SyncSend timed out still removes the  *)
(* hash from unconfirmedTx, provided the hash was put there before it was  *)
(* queued.                                                                 *)
(***************************************************************************)
LateAnswerCleansUp ==
  \A h \in HookFirst :
    pc[h] = "timeout" ~> h \notin unconfirmedTx \/ phase = "stopped"

(***************************************************************************)
(* SyncSend implements TxTicket: the ticket of a call is settled by the    *)
(* first hook the confirmer calls for its hash.                            *)
(***************************************************************************)
TicketOf(h) ==
  CASE pc[h] = "ok" -> "redeemed"
    [] pc[h] \in {"error", "timeout"} -> "void"
    [] pc[h] = "idle" -> "new"
    [] OTHER -> IF h \in confirmed \cup dropped THEN "settled" ELSE "pending"

Ticket == INSTANCE TxTicket WITH ticket <- [h \in Calls |-> TicketOf(h)]

TicketSpec == Ticket!Spec
=============================================================================
