---------------------------- MODULE SyncSendProofs ----------------------------
(***************************************************************************)
(* Proofs about SyncSend for any number of calls, foreign hashes and       *)
(* workers, any queue size and depth, both orders of the hook and the      *)
(* queue, and every fault.                                                 *)
(*                                                                         *)
(* The inductive invariant of the first result says where a hash can be:   *)
(* a worker that is not idle has one (WorkerInv), and a hash afterTxSent   *)
(* has put into unconfirmedTx is there until a hook is called for it, all  *)
(* the more so when it is in sentTx, which the hook writes afterwards      *)
(* (Tracked).  The other results need to know besides that no hash is      *)
(* known to anybody before its call has signed it and before its hook is   *)
(* through, where EnqueueTx waits for the hook (Known).                    *)
(***************************************************************************)
EXTENDS SyncSend, SequenceTheorems, TLAPS

Settled == confirmed \cup dropped

WorkerInv == \A w \in Workers : wpc[w] # "idle" => whash[w] \in Hashes

(* The phases that a call reaches only by queueing its hash.                *)
Queued == {"wait", "check", "clear", "ok", "timeout"}

Tracked ==
  \A h \in Calls :
    /\ pc[h] \in {"idle", "send"} => hook[h] = "none"
    /\ h \in sentTx \/ pc[h] = "check" => hook[h] = "done"
    /\ h \in HookFirst /\ pc[h] \in Queued => hook[h] = "done"
    /\ hook[h] \in {"mark", "done"} => h \in unconfirmedTx \cup Settled

IInv == TypeOK /\ WorkerInv /\ Tracked /\ OkIsSettled

-----------------------------------------------------------------------------
LEMMA TypeInit == Init => TypeOK /\ WorkerInv
BY HashesAssumption
DEF Init, TypeOK, WorkerInv, CallPhases, Running, Results, HookPhases,
    WorkerPhases, Hashes

(* Types, action by action.                                                 *)
LEMMA TypeNext == TypeOK /\ WorkerInv /\ [Next]_vars => TypeOK' /\ WorkerInv'
<1> SUFFICES ASSUME TypeOK, WorkerInv, [Next]_vars
             PROVE  TypeOK' /\ WorkerInv'
  OBVIOUS
<1> USE SwitchAssumption
    DEF TypeOK, WorkerInv, CallPhases, Running, Results, HookPhases, WorkerPhases,
        Goto, HookGoto, WorkerGoto, mapVars, workerVars, verdictVars, chainVars
<1>0. Calls \subseteq Hashes
  BY DEF Hashes
<1>1. ASSUME NEW h \in Calls, Sign(h) PROVE TypeOK' /\ WorkerInv'
  BY <1>1 DEF Sign
<1>2. ASSUME NEW h \in Calls, SendTx(h) PROVE TypeOK' /\ WorkerInv'
  <2>1. mempool' \subseteq Hashes
    BY <1>0, <1>2 DEF SendTx
  <2>2. pc' \in [Calls -> CallPhases] /\ hook' \in [Calls -> HookPhases]
    BY <1>2 DEF SendTx
  <2> QED
    BY <1>2, <2>1, <2>2 DEF SendTx
<1>3. ASSUME NEW h \in Calls, AfterTxSent(h) PROVE TypeOK' /\ WorkerInv'
  BY <1>3 DEF AfterTxSent
<1>5. ASSUME NEW h \in Calls, Push(h) PROVE TypeOK' /\ WorkerInv'
  <2>0. queue' = queue \/ queue' = Append(queue, h)
    BY <1>5 DEF Push
  <2>1. queue' \in Seq(Hashes)
    <3> h \in Hashes /\ queue \in Seq(Hashes)
      BY <1>0
    <3> HIDE DEF TypeOK
    <3> QED
      BY <2>0, AppendProperties
  <2>2. pc' \in [Calls -> CallPhases]
    BY <1>5 DEF Push
  <2> QED
    BY <1>5, <2>1, <2>2 DEF Push
<1>6. ASSUME NEW h \in Calls,
             PollSent(h) \/ PollUnconfirmed(h) \/ ReturnHash(h) \/ TimeOut(h)
      PROVE  TypeOK' /\ WorkerInv'
  BY <1>6 DEF PollSent, PollUnconfirmed, ReturnHash, TimeOut
<1>7. ASSUME NEW h \in Hashes, EnqueueTxHash(h) PROVE TypeOK' /\ WorkerInv'
  <2>1. queue' \in Seq(Hashes)
    BY <1>7 DEF EnqueueTxHash
  <2> QED
    BY <1>7, <2>1 DEF EnqueueTxHash
<1>8. ASSUME NEW w \in Workers, Take(w) PROVE TypeOK' /\ WorkerInv'
  <2>1. Head(queue) \in Hashes /\ queue' \in Seq(Hashes)
    BY <1>8 DEF Take
  <2> QED
    BY <1>8, <2>1 DEF Take
<1>9. ASSUME NEW w \in Workers, Receipt(w) PROVE TypeOK' /\ WorkerInv'
  <2>1. whash[w] \in Hashes /\ blockOf[whash[w]] \in Nat
    BY <1>9 DEF Receipt
  <2>2. wpc' \in [Workers -> WorkerPhases] /\ wblock' \in [Workers -> Nat]
    BY <1>9, <2>1 DEF Receipt
  <2>3. \A v \in Workers \ {w} : wpc'[v] = wpc[v]
    BY <1>9 DEF Receipt
  <2>4. UNCHANGED <<pc, mapVars, phase, queue, whash, verdictVars, chainVars>>
    BY <1>9 DEF Receipt
  <2> QED
    BY <2>1, <2>2, <2>3, <2>4
<1>10. ASSUME NEW w \in Workers, Depth(w) PROVE TypeOK' /\ WorkerInv'
  BY <1>10 DEF Depth
<1>11. ASSUME NEW w \in Workers, Retry(w) PROVE TypeOK' /\ WorkerInv'
  <2>1. whash[w] \in Hashes
    BY <1>11 DEF Retry
  <2>0. queue' = queue \/ queue' = Append(queue, whash[w])
    BY <1>11 DEF Retry
  <2>2. queue' \in Seq(Hashes)
    <3> queue \in Seq(Hashes)
      OBVIOUS
    <3> HIDE DEF TypeOK
    <3> QED
      BY <2>0, <2>1, AppendProperties
  <2>3. /\ wpc' \in [Workers -> WorkerPhases]
        /\ whash' \in [Workers -> Hashes \cup {NoHash}]
    BY <1>11, <2>1 DEF Retry
  <2>4. \A v \in Workers : wpc'[v] # "idle" => whash'[v] \in Hashes
    BY <1>11, <2>1 DEF Retry
  <2> QED
    BY <1>11, <2>2, <2>3, <2>4 DEF Retry
<1>12. ASSUME NEW w \in Workers, AfterTxConfirmed(w) \/ ErrHandle(w)
       PROVE  TypeOK' /\ WorkerInv'
  <2>1. whash[w] \in Hashes
    BY <1>12 DEF AfterTxConfirmed, ErrHandle
  <2> QED
    BY <1>12, <2>1 DEF AfterTxConfirmed, ErrHandle
<1>13. ASSUME NEW w \in Workers, WorkerExit(w) PROVE TypeOK' /\ WorkerInv'
  BY <1>13 DEF WorkerExit
<1>14. CASE Start \/ Stop
  BY <1>14 DEF Start, Stop
<1>15. ASSUME NEW included \in SUBSET mempool, Block(included)
       PROVE  TypeOK' /\ WorkerInv'
  <2>1. PICK failing \in Failing(included) : Mine(included, failing)
    BY <1>15 DEF Block
  <2>2. failing \subseteq Hashes /\ included \subseteq Hashes
    BY <2>1 DEF Failing
  <2>3. blockOf' \in [Hashes -> Nat]
    BY <2>1 DEF Mine
  <2> QED
    BY <2>1, <2>2, <2>3 DEF Mine
<1>16. CASE \E b \in 1 .. head : Reorg(b)
  BY <1>16 DEF Reorg
<1>17. CASE UNCHANGED vars
  BY <1>17 DEF vars
<1> QED
  BY <1>1, <1>2, <1>3, <1>5, <1>6, <1>7, <1>8, <1>9, <1>10, <1>11, <1>12,
     <1>13, <1>14, <1>15, <1>16, <1>17
  DEF Next, CallStep, WorkerStep

(* Every reachable state is well typed.                                     *)
THEOREM TypeCorrect == Spec => []TypeOK
<1>1. TypeOK /\ WorkerInv => TypeOK
  OBVIOUS
<1> QED
  BY TypeInit, TypeNext, <1>1, PTL DEF Spec

-----------------------------------------------------------------------------
(* A success means settled.                                                 *)

LEMMA SettledInit == Init => IInv
<1> SUFFICES ASSUME Init PROVE IInv
  OBVIOUS
<1>1. /\ \A h \in Calls : pc[h] = "idle" /\ hook[h] = "none"
      /\ sentTx = {}
  BY DEF Init
<1> QED
  BY <1>1, TypeInit DEF IInv, Tracked, Queued, OkIsSettled

(* Three kinds of steps touch pc, the maps or the verdicts: those of calls, *)
(* of the hook and of the workers that call a hook.                         *)
LEMMA SettledNext == IInv /\ [Next]_vars => IInv'
<1> SUFFICES ASSUME IInv, [Next]_vars PROVE IInv'
  OBVIOUS
<1>0. TypeOK' /\ WorkerInv'
  BY TypeNext DEF IInv
<1> SUFFICES Tracked' /\ OkIsSettled'
  BY <1>0 DEF IInv
<1>a. /\ pc \in [Calls -> CallPhases] /\ hook \in [Calls -> HookPhases]
      /\ Tracked /\ OkIsSettled
  BY DEF IInv, TypeOK
<1> USE <1>a, SwitchAssumption
    DEF Tracked, OkIsSettled, Settled, Queued, Goto, HookGoto,
        mapVars, workerVars, verdictVars, chainVars
<1>1. ASSUME NEW h \in Calls, Sign(h)
      PROVE  Tracked' /\ OkIsSettled'
  BY <1>1 DEF Sign
<1>2. ASSUME NEW h \in Calls, SendTx(h)
      PROVE  Tracked' /\ OkIsSettled'
  <2>1. /\ pc[h] = "send"
        /\ \A d \in Calls \ {h} : pc'[d] = pc[d] /\ hook'[d] = hook[d]
        /\ pc'[h] \in {"error", "push"} /\ hook'[h] \in {"none", "track"}
        /\ UNCHANGED <<unconfirmedTx, sentTx, verdictVars>>
    BY <1>2 DEF SendTx
  <2> QED
    BY <2>1
<1>3. ASSUME NEW h \in Calls, AfterTxSent(h)
      PROVE  Tracked' /\ OkIsSettled'
  BY <1>3 DEF AfterTxSent
<1>4. ASSUME NEW h \in Calls, Push(h) PROVE Tracked' /\ OkIsSettled'
  <2>1. /\ h \in HookFirst => hook[h] = "done"
        /\ \A d \in Calls \ {h} : pc'[d] = pc[d]
        /\ pc'[h] \in {"error", "wait"}
        /\ UNCHANGED <<mapVars, verdictVars>>
    BY <1>4 DEF Push
  <2> QED
    BY <2>1
<1>5. ASSUME NEW h \in Calls, PollSent(h) \/ TimeOut(h)
      PROVE  Tracked' /\ OkIsSettled'
  BY <1>5 DEF PollSent, TimeOut
<1>6. ASSUME NEW h \in Calls, PollUnconfirmed(h) \/ ReturnHash(h)
      PROVE  Tracked' /\ OkIsSettled'
  BY <1>6 DEF PollUnconfirmed, ReturnHash
<1>7. ASSUME NEW w \in Workers, AfterTxConfirmed(w) \/ ErrHandle(w)
      PROVE  Tracked' /\ OkIsSettled'
  BY <1>7 DEF AfterTxConfirmed, ErrHandle
<1>8. CASE UNCHANGED <<pc, mapVars, verdictVars>>
  BY <1>8
<1>9. ASSUME NEW w \in Workers,
             Take(w) \/ Receipt(w) \/ Depth(w) \/ Retry(w) \/ WorkerExit(w)
      PROVE  UNCHANGED <<pc, mapVars, verdictVars>>
  BY <1>9 DEF Take, Receipt, Depth, Retry, WorkerExit
<1>10. ASSUME \/ \E h \in Hashes : EnqueueTxHash(h)
              \/ Start \/ Stop \/ (\E b \in 1 .. head : Reorg(b))
              \/ \E included \in SUBSET mempool : Block(included)
              \/ UNCHANGED vars
       PROVE  UNCHANGED <<pc, mapVars, verdictVars>>
  BY <1>10 DEF EnqueueTxHash, Start, Stop, Reorg, Block, Mine, vars
<1> QED
  BY <1>1, <1>2, <1>3, <1>4, <1>5, <1>6, <1>7, <1>8, <1>9, <1>10
  DEF Next, CallStep, WorkerStep

(* SyncSend never answers without an error before a hook of the confirmer   *)
(* was called for its hash, whatever fails and however the steps of         *)
(* callers, workers and chain interleave.                                   *)
THEOREM SuccessIsSettled == Spec => []OkIsSettled
<1>1. IInv => OkIsSettled
  BY DEF IInv
<1> QED
  BY SettledInit, SettledNext, <1>1, PTL DEF Spec

-----------------------------------------------------------------------------
(* Who knows a hash.                                                        *)

Early(h) ==
  h \in Calls /\ (pc[h] = "idle" \/ (h \in HookFirst /\ hook[h] # "done"))

(* No hash is queued, taken or settled before its call has signed it, nor   *)
(* before its hook is through where EnqueueTx waits for that.               *)
Known ==
  /\ \A i \in 1 .. Len(queue) : ~Early(queue[i])
  /\ \A w \in Workers : ~Early(whash[w])
  /\ \A h \in Settled : ~Early(h)

KInv == IInv /\ Known

LEMMA KnownNext ==
  ASSUME IInv, Known, [Next]_vars
  PROVE  Known'
<1>a. /\ pc \in [Calls -> CallPhases] /\ hook \in [Calls -> HookPhases]
      /\ queue \in Seq(Hashes) /\ whash \in [Workers -> Hashes \cup {NoHash}]
      /\ Calls \subseteq Hashes /\ NoHash \notin Calls
      /\ Tracked
  BY HashesAssumption DEF IInv, TypeOK, Hashes
<1> USE <1>a DEF Known, Early, Settled, Goto, HookGoto, mapVars, workerVars, verdictVars,
                 chainVars
(* Nobody becomes early.                                                    *)
<1>b. \A h \in Calls :
        /\ pc'[h] = "idle" => pc[h] = "idle"
        /\ hook[h] = "done" => hook'[h] = "done"
  <2>1. ASSUME NEW h \in Calls, CallStep(h)
        PROVE  \A d \in Calls : pc'[d] = "idle" => pc[d] = "idle"
    BY <2>1 DEF CallStep, Sign, SendTx, Push, PollSent, PollUnconfirmed, ReturnHash,
                TimeOut
  <2>2. ASSUME NEW h \in Calls, SendTx(h)
        PROVE  \A d \in Calls : hook[d] = "done" => hook'[d] = "done"
    BY <2>2 DEF SendTx, Tracked
  <2>3. ASSUME NEW h \in Calls, AfterTxSent(h)
        PROVE  pc' = pc /\ \A d \in Calls : hook[d] = "done" => hook'[d] = "done"
    BY <2>3 DEF AfterTxSent
  <2>4. ASSUME ~\E h \in Calls : CallStep(h) \/ AfterTxSent(h)
        PROVE  UNCHANGED <<pc, hook>>
    BY <2>4 DEF Next, WorkerStep, Take, Receipt, Depth, Retry, AfterTxConfirmed,
                ErrHandle, WorkerExit, EnqueueTxHash, Start, Stop, Block, Mine,
                Reorg, vars
  <2>5. ASSUME NEW h \in Calls, CallStep(h), ~SendTx(h)
        PROVE  hook' = hook
    BY <2>5 DEF CallStep, Sign, Push, PollSent, PollUnconfirmed, ReturnHash, TimeOut
  <2> QED
    BY <2>1, <2>2, <2>3, <2>4, <2>5
<1> USE <1>b
<1>1. ASSUME NEW h \in Hashes, ~Early(h), queue' = Append(queue, h),
             \A w \in Workers : whash'[w] \in {whash[w], NoHash},
             UNCHANGED verdictVars
      PROVE  Known'
  <2>1. \A i \in 1 .. Len(queue') : queue'[i] = h \/ \E j \in 1 .. Len(queue) : queue'[i] = queue[j]
    BY <1>1, AppendProperties
  <2> QED
    BY <1>1, <2>1
<1>2. ASSUME UNCHANGED <<queue, verdictVars>>,
             \A w \in Workers : whash'[w] \in {whash[w], NoHash}
      PROVE  Known'
  BY <1>2
<1>3. ASSUME NEW h \in Calls, CallStep(h) PROVE Known'
  <2>1. CASE Push(h)
    <3>1. UNCHANGED <<whash, verdictVars>> /\ ~Early(h)
      BY <2>1 DEF Push
    <3>2. queue' = queue \/ queue' = Append(queue, h)
      BY <2>1 DEF Push
    <3> QED
      BY <1>1, <1>2, <3>1, <3>2
  <2>2. CASE ~Push(h)
    <3>1. UNCHANGED <<queue, whash, verdictVars>>
      BY <1>3, <2>2 DEF CallStep, Sign, SendTx, PollSent, PollUnconfirmed, ReturnHash,
                        TimeOut
    <3> QED
      BY <1>2, <3>1
  <2> QED
    BY <2>1, <2>2
<1>c. ASSUME NEW h \in Calls, AfterTxSent(h) PROVE Known'
  BY <1>2, <1>c DEF AfterTxSent
<1>4. ASSUME NEW h \in Hashes, EnqueueTxHash(h) PROVE Known'
  <2>1. ~Early(h)
    BY <1>4 DEF EnqueueTxHash, Tracked, Queued
  <2> QED
    BY <1>1, <1>4, <2>1 DEF EnqueueTxHash
<1>5. ASSUME NEW w \in Workers, Take(w) PROVE Known'
  <2>1. queue # <<>> /\ queue' = Tail(queue) /\ UNCHANGED verdictVars
        /\ whash' = [whash EXCEPT ![w] = Head(queue)]
    BY <1>5 DEF Take
  <2>2. Len(queue) \in Nat /\ Len(queue) >= 1 /\ Head(queue) = queue[1]
    BY <2>1
  <2>3. \A i \in 1 .. Len(queue') : i + 1 \in 1 .. Len(queue) /\ queue'[i] = queue[i + 1]
    BY <2>1, <2>2
  <2> QED
    BY <2>1, <2>2, <2>3
<1>6. ASSUME NEW w \in Workers, Retry(w) PROVE Known'
  <2>1. /\ \A v \in Workers : whash'[v] \in {whash[v], NoHash}
        /\ UNCHANGED verdictVars
        /\ queue' = queue \/ queue' = Append(queue, whash[w])
        /\ wpc[w] # "idle"
    BY <1>6 DEF Retry
  <2>2. whash[w] \in Hashes
    BY <2>1 DEF IInv, WorkerInv
  <2> QED
    BY <1>1, <1>2, <2>1, <2>2
<1>7. ASSUME NEW w \in Workers, AfterTxConfirmed(w) \/ ErrHandle(w) PROVE Known'
  BY <1>7 DEF AfterTxConfirmed, ErrHandle
<1>8. ASSUME NEW w \in Workers, Receipt(w) \/ Depth(w) \/ WorkerExit(w)
      PROVE  Known'
  BY <1>2, <1>8 DEF Receipt, Depth, WorkerExit
<1>9. ASSUME \/ Start \/ Stop \/ (\E b \in 1 .. head : Reorg(b))
             \/ \E included \in SUBSET mempool : Block(included)
             \/ UNCHANGED vars
      PROVE  Known'
  BY <1>2, <1>9 DEF Start, Stop, Reorg, Block, Mine, vars
<1> QED
  BY <1>3, <1>c, <1>4, <1>5, <1>6, <1>7, <1>8, <1>9 DEF Next, WorkerStep

LEMMA KInit == Init => KInv
<1> SUFFICES ASSUME Init PROVE KInv
  OBVIOUS
<1>1. Known
  BY HashesAssumption DEF Init, Known, Early, Settled, Hashes
<1> QED
  BY <1>1, SettledInit DEF KInv

(* Where EnqueueTx waits for afterTxSent, no worker settles a hash before   *)
(* the hook has put it into the maps, under every fault and although the    *)
(* user may hand over the hashes of calls that timed out.                   *)
THEOREM HookIsNotOvertaken == Spec => []HookFirstNotOvertaken
<1>1. KInv => HookFirstNotOvertaken
  BY SwitchAssumption DEF KInv, Known, Early, Settled, HookFirstNotOvertaken, Overtaken
<1>2. KInv /\ [Next]_vars => KInv'
  BY SettledNext, KnownNext DEF KInv
<1> QED
  BY KInit, <1>1, <1>2, PTL DEF Spec

-----------------------------------------------------------------------------
(* SyncSend implements TxTicket.                                            *)

tickets == [h \in Calls |-> TicketOf(h)]

(* The changes of one ticket that TxTicket allows.                          *)
Moves == {<<"new", "pending">>, <<"pending", "settled">>, <<"settled", "redeemed">>,
          <<"new", "void">>, <<"pending", "void">>, <<"settled", "void">>}

LEMMA OneMove ==
  ASSUME NEW h \in Calls,
         \A d \in Calls \ {h} : TicketOf(d)' = TicketOf(d),
         \/ TicketOf(h)' = TicketOf(h)
         \/ <<TicketOf(h), TicketOf(h)'>> \in Moves
  PROVE  [Ticket!Next]_tickets
<1>1. CASE TicketOf(h)' = TicketOf(h)
  BY <1>1 DEF tickets
<1>2. CASE <<TicketOf(h), TicketOf(h)'>> \in Moves
  <2>1. tickets' = [tickets EXCEPT ![h] = TicketOf(h)']
    BY DEF tickets
  <2>2. tickets[h] = TicketOf(h)
    BY DEF tickets
  <2>3. \/ Ticket!Submit(h) \/ Ticket!Settle(h)
        \/ Ticket!Redeem(h) \/ Ticket!GiveUp(h)
    BY <1>2, <2>1, <2>2
    DEF Moves, tickets, Ticket!Submit, Ticket!Settle, Ticket!Redeem, Ticket!GiveUp,
        Ticket!Move
  <2> QED
    BY <2>3 DEF Ticket!Next
<1> QED
  BY <1>1, <1>2

LEMMA EarlyIsIdle == \A h \in Calls : ~Early(h) => pc[h] # "idle"
BY DEF Early

(* A step of a call moves its own ticket only.                              *)
LEMMA CallMoves ==
  ASSUME KInv, KInv', NEW h \in Calls, CallStep(h)
  PROVE  [Ticket!Next]_tickets
<1>1. /\ pc \in [Calls -> CallPhases]
      /\ h \in Settled => pc[h] # "idle"
      /\ pc[h] \in {"clear", "ok"} => h \in Settled
      /\ pc'[h] \in {"clear", "ok"} => h \in Settled'
  BY EarlyIsIdle DEF KInv, IInv, TypeOK, Known, OkIsSettled, Settled
<1>a. UNCHANGED verdictVars /\ \E p \in CallPhases : Goto(h, p)
  BY DEF CallStep, Sign, SendTx, Push, PollSent, PollUnconfirmed, ReturnHash, TimeOut,
         CallPhases, Running, Results
<1>2. Settled' = Settled /\ \A d \in Calls \ {h} : pc'[d] = pc[d]
  BY <1>1, <1>a DEF Settled, Goto, verdictVars
<1>3. \A d \in Calls \ {h} : TicketOf(d)' = TicketOf(d)
  BY <1>2 DEF TicketOf, Settled
<1>4. /\ pc[h] \notin Results
      /\ pc'[h] # "idle"
      /\ pc'[h] = "ok" => pc[h] = "clear"
      /\ pc'[h] \in CallPhases
      /\ pc[h] \in CallPhases
  BY <1>1 DEF CallStep, Sign, SendTx, Push, PollSent, PollUnconfirmed, ReturnHash,
              TimeOut, Goto, CallPhases, Running, Results
<1>5. TicketOf(h)' = TicketOf(h) \/ <<TicketOf(h), TicketOf(h)'>> \in Moves
  BY <1>1, <1>2, <1>4 DEF TicketOf, Moves, Settled, Results
<1> QED
  BY <1>3, <1>5, OneMove

(* A hook settles the ticket of its hash, unless it is settled already.     *)
LEMMA HookMoves ==
  ASSUME KInv, NEW w \in Workers, AfterTxConfirmed(w) \/ ErrHandle(w)
  PROVE  [Ticket!Next]_tickets
<1>1. /\ pc' = pc /\ Settled' = Settled \cup {whash[w]}
      /\ ~Early(whash[w])
  BY DEF KInv, Known, AfterTxConfirmed, ErrHandle, Settled
<1>2. ASSUME NEW h \in Calls, whash[w] = h PROVE [Ticket!Next]_tickets
  <2>1. \A d \in Calls \ {h} : TicketOf(d)' = TicketOf(d)
    BY <1>1, <1>2 DEF TicketOf, Settled
  <2>2. pc[h] # "idle" /\ pc'[h] = pc[h] /\ h \in Settled'
    BY <1>1, <1>2, EarlyIsIdle
  <2>3. CASE pc[h] \in Results
    <3>1. TicketOf(h)' = TicketOf(h)
      BY <2>2, <2>3 DEF TicketOf, Results
    <3> QED
      BY <2>1, <3>1, OneMove
  <2>4. CASE pc[h] \notin Results
    <3>1. TicketOf(h) \in {"pending", "settled"}
      BY <2>2, <2>4 DEF TicketOf, Results
    <3>2. TicketOf(h)' = "settled"
      BY <2>2, <2>4 DEF TicketOf, Results, Settled
    <3>3. TicketOf(h)' = TicketOf(h) \/ <<TicketOf(h), TicketOf(h)'>> \in Moves
      BY <3>1, <3>2 DEF Moves
    <3> QED
      BY <2>1, <3>3, OneMove
  <2> QED
    BY <2>3, <2>4
<1>3. CASE whash[w] \notin Calls
  <2>1. \A d \in Calls : TicketOf(d)' = TicketOf(d)
    BY <1>1, <1>3 DEF TicketOf, Settled
  <2> QED
    BY <2>1 DEF tickets
<1> QED
  BY <1>2, <1>3

LEMMA TicketNext ==
  ASSUME KInv, KInv', [Next]_vars
  PROVE  [Ticket!Next]_tickets
<1>1. ASSUME NEW h \in Calls, CallStep(h) PROVE [Ticket!Next]_tickets
  BY <1>1, CallMoves
<1>2. ASSUME NEW w \in Workers, AfterTxConfirmed(w) \/ ErrHandle(w)
      PROVE  [Ticket!Next]_tickets
  BY <1>2, HookMoves
<1>3. CASE UNCHANGED <<pc, verdictVars>>
  <2>1. \A d \in Calls : TicketOf(d)' = TicketOf(d)
    BY <1>3 DEF TicketOf, verdictVars
  <2> QED
    BY <2>1 DEF tickets
<1>6. ASSUME NEW h \in Calls, AfterTxSent(h)
      PROVE  UNCHANGED <<pc, verdictVars>>
  BY <1>6 DEF AfterTxSent
<1>4. ASSUME NEW w \in Workers,
             Take(w) \/ Receipt(w) \/ Depth(w) \/ Retry(w) \/ WorkerExit(w)
      PROVE  UNCHANGED <<pc, verdictVars>>
  BY <1>4 DEF Take, Receipt, Depth, Retry, WorkerExit
<1>5. ASSUME \/ \E h \in Hashes : EnqueueTxHash(h)
             \/ Start \/ Stop \/ (\E b \in 1 .. head : Reorg(b))
             \/ \E included \in SUBSET mempool : Block(included)
             \/ UNCHANGED vars
      PROVE  UNCHANGED <<pc, verdictVars>>
  BY <1>5 DEF EnqueueTxHash, Start, Stop, Reorg, Block, Mine, vars, verdictVars
<1> QED
  BY <1>1, <1>2, <1>3, <1>4, <1>5, <1>6 DEF Next, WorkerStep

(* Every behaviour of SyncSend is one of TxTicket: the first hook settles   *)
(* a ticket, only a settled one is redeemed, and no answer is ever revised. *)
THEOREM ImplementsTicket == Spec => TicketSpec
<1>1. Init => KInv /\ Ticket!Init
  <2> SUFFICES ASSUME Init PROVE KInv /\ Ticket!Init
    OBVIOUS
  <2>2. \A h \in Calls : TicketOf(h) = "new"
    BY DEF Init, TicketOf
  <2>3. Ticket!Init
    BY <2>2 DEF Ticket!Init
  <2> QED
    BY <2>3, KInit
<1>2. KInv /\ [Next]_vars => KInv'
  BY SettledNext, KnownNext DEF KInv
<1>3. KInv /\ KInv' /\ [Next]_vars => [Ticket!Next]_tickets
  BY TicketNext
<1> QED
  BY <1>1, <1>2, <1>3, PTL DEF Spec, TicketSpec, Ticket!Spec, tickets
=============================================================================
