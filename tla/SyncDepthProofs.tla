--------------------------- MODULE SyncDepthProofs ---------------------------
(***************************************************************************)
(* Proofs about what the answers of SyncSend and the confirmer mean on the *)
(* chain, for any number of calls, foreign hashes and workers, any queue   *)
(* size and depth and both orders of the hook and the queue, however often *)
(* and however deep the chain takes blocks back.                           *)
(*                                                                         *)
(* The receipt a worker holds stays true while it asks for the head,       *)
(* because a transaction that is mined is not mined again (Once), unless   *)
(* its block is taken back, and then it is among the misled; so for all    *)
(* others a comparison that says "deep enough" is about the block the hash *)
(* really is in (Judged).                                                  *)
(***************************************************************************)
EXTENDS SyncSendProofs

(* A transaction that is still to be sent or mined is not mined yet.        *)
Once ==
  /\ \A h \in mempool : blockOf[h] = 0
  /\ \A h \in Calls : pc[h] \in {"idle", "send"} => h \notin mempool /\ blockOf[h] = 0
  /\ \A h \in Hashes : blockOf[h] <= head

Judged ==
  \A w \in Workers : whash[w] \notin misled =>
    /\ wpc[w] = "depth" =>
         /\ wblock[w] # 0 /\ wblock[w] = blockOf[whash[w]]
         /\ whash[w] \notin reverted
    /\ wpc[w] = "confirm" /\ NoWrap => Deep(whash[w])

DepthInv == TypeOK /\ WorkerInv /\ Once /\ Judged /\ ConfirmedIsDeep

(* What a step may do to the chain as far as depth is concerned: a mined    *)
(* transaction whose receipt somebody relies on stays where it is and does  *)
(* not revert afterwards, or it is misled from then on.                     *)
Grows ==
  /\ head' >= head
  /\ misled \subseteq misled'
  /\ \A h \in Hashes : Relied(h) /\ blockOf[h] # 0 /\ h \notin misled' =>
       /\ blockOf'[h] = blockOf[h]
       /\ h \in reverted' => h \in reverted

-----------------------------------------------------------------------------
LEMMA DepthInit == Init => DepthInv
<1> SUFFICES ASSUME Init
             PROVE  DepthInv
  OBVIOUS
<1>1. Once
  BY HashesAssumption DEF Init, Once, Hashes
<1>2. Judged /\ ConfirmedIsDeep
  BY DEF Init, Judged, ConfirmedIsDeep
<1> QED
  BY <1>1, <1>2, TypeInit DEF DepthInv

LEMMA Numbers ==
  ASSUME TypeOK
  PROVE  /\ head \in Nat /\ blockOf \in [Hashes -> Nat]
         /\ Confirmations \in Nat /\ Word \in Nat
         /\ Calls \subseteq Hashes /\ mempool \subseteq Hashes
BY WordAssumption DEF TypeOK, Hashes

(* What is deep enough stays so, as long as somebody relies on it.          *)
LEMMA DeepStays ==
  ASSUME TypeOK, TypeOK', Grows
  PROVE  /\ NoWrap' => NoWrap
         /\ \A h \in Hashes :
              Relied(h) /\ Deep(h) => Deep(h)' \/ h \in misled'
<1>1. NoWrap' => NoWrap
  BY Numbers DEF NoWrap, Grows, TypeOK
<1>2. ASSUME NEW h \in Hashes, Relied(h), Deep(h), h \notin misled'
      PROVE  Deep(h)'
  <2>1. blockOf'[h] = blockOf[h] /\ h \notin reverted' /\ head' >= head
    BY <1>2 DEF Grows, Deep
  <2>2. head \in Nat /\ head' \in Nat /\ blockOf[h] + Confirmations \in Nat
    BY Numbers DEF TypeOK
  <2>3. blockOf[h] # 0 /\ blockOf[h] + Confirmations <= head
    BY <1>2 DEF Deep
  <2>4. blockOf[h] + Confirmations <= head'
    BY <2>1, <2>2, <2>3
  <2> QED
    BY <2>1, <2>3, <2>4 DEF Deep
<1> QED
  BY <1>1, <1>2

(* A step that keeps the workers' receipts and the verdicts.                *)
LEMMA JudgedStays ==
  ASSUME DepthInv, TypeOK', Grows, UNCHANGED <<workerVars, confirmed>>
  PROVE  Judged' /\ ConfirmedIsDeep'
<1>1. Judged'
  <2> SUFFICES ASSUME NEW w \in Workers, whash[w] \notin misled'
               PROVE  /\ wpc[w] = "depth" =>
                           /\ wblock[w] # 0 /\ wblock[w] = blockOf'[whash[w]]
                           /\ whash[w] \notin reverted'
                      /\ wpc[w] = "confirm" /\ NoWrap' => Deep(whash[w])'
    BY DEF Judged, workerVars, Deep
  <2>1. wpc[w] # "idle" => whash[w] \in Hashes
    BY DEF DepthInv, WorkerInv
  <2>2. whash[w] \notin misled
    BY DEF Grows
  <2>3. wpc[w] \in {"depth", "confirm"} => Relied(whash[w])
    BY DEF Relied
  <2>4. wpc[w] = "depth" =>
          /\ wblock[w] # 0 /\ wblock[w] = blockOf'[whash[w]]
          /\ whash[w] \notin reverted'
    BY <2>1, <2>2, <2>3 DEF DepthInv, Judged, Grows
  <2>5. wpc[w] = "confirm" /\ NoWrap' => Deep(whash[w])'
    BY <2>1, <2>2, <2>3, DeepStays DEF DepthInv, Judged, workerVars
  <2> QED
    BY <2>4, <2>5
<1>2. ConfirmedIsDeep'
  <2> SUFFICES ASSUME NoWrap', NEW h \in confirmed, h \notin misled'
               PROVE  Deep(h)'
    BY DEF ConfirmedIsDeep
  <2>1. NoWrap /\ h \in Hashes /\ h \notin misled /\ Relied(h)
    BY DeepStays DEF DepthInv, TypeOK, Grows, Relied
  <2> QED
    BY <2>1, DeepStays DEF DepthInv, ConfirmedIsDeep
<1> QED
  BY <1>1, <1>2

(* A step of the rest of the system leaves the chain alone.                 *)
LEMMA Still ==
  ASSUME UNCHANGED <<blockOf, reverted, head, misled>>, TypeOK
  PROVE  Grows
BY DEF Grows, TypeOK

(* Blocks are taken back: whoever relies on what they hold is misled.       *)
LEMMA ReorgGrows ==
  ASSUME DepthInv, NEW b \in 1 .. head, Reorg(b)
  PROVE  Grows /\ Once'
<1> USE DEF DepthInv
<1> DEFINE undone == {h \in Hashes : blockOf[h] >= b}
<1>1. /\ UNCHANGED <<pc, head>>
      /\ mempool' = mempool \cup undone
      /\ blockOf' = [h \in Hashes |-> IF h \in undone THEN 0 ELSE blockOf[h]]
      /\ reverted' = reverted \ undone
      /\ misled' = misled \cup {h \in undone : Relied(h)}
  BY DEF Reorg
<1>2. \A h \in undone : blockOf[h] # 0
  BY Numbers
<1>3. Grows
  BY <1>1, Numbers DEF Grows
<1>4. Once'
  BY <1>1, <1>2, Numbers DEF Once
<1> QED
  BY <1>3, <1>4

LEMMA MineGrows ==
  ASSUME DepthInv, NEW included \in SUBSET mempool, Block(included)
  PROVE  Grows /\ Once'
<1> USE DEF DepthInv
<1>1. PICK failing \in Failing(included) : Mine(included, failing)
  BY DEF Block
<1>2. failing \subseteq included
  BY DEF Failing
<1>3. /\ head' = head + 1
      /\ mempool' = mempool \ included
      /\ blockOf' = [h \in Hashes |-> IF h \in included THEN head + 1 ELSE blockOf[h]]
      /\ reverted' = reverted \cup failing
      /\ UNCHANGED <<pc, misled>>
  BY <1>1 DEF Mine
<1>4. \A h \in included : blockOf[h] = 0 /\ h \in mempool
  BY DEF Once
<1>5. Grows
  BY <1>2, <1>3, <1>4, Numbers DEF Grows
<1>6. Once'
  BY <1>3, <1>4, Numbers DEF Once
<1> QED
  BY <1>5, <1>6

LEMMA SendTxDepth ==
  ASSUME DepthInv, NEW h \in Calls, SendTx(h)
  PROVE  Once'
<1> USE DEF DepthInv
<1>1. /\ UNCHANGED <<blockOf, head>>
      /\ pc[h] = "send" /\ pc'[h] \notin {"idle", "send"}
      /\ \A d \in Calls \ {h} : pc'[d] = pc[d]
      /\ mempool' = mempool \/ mempool' = mempool \cup {h}
  BY DEF SendTx, Goto, TypeOK
<1> QED
  BY <1>1 DEF Once

(* Every other step of a call leaves the node alone, and does not go back   *)
(* to sending.                                                              *)
LEMMA CallDepth ==
  ASSUME DepthInv, NEW h \in Calls, CallStep(h)
  PROVE  Once' /\ UNCHANGED <<workerVars, verdictVars, blockOf, reverted, head, misled>>
<1> USE DEF DepthInv
<1>1. UNCHANGED <<workerVars, verdictVars, blockOf, reverted, head, misled>>
  BY DEF CallStep, Sign, SendTx, Push, PollSent, PollUnconfirmed,
         ReturnHash, TimeOut, chainVars
<1>2. CASE SendTx(h)
  BY <1>1, <1>2, SendTxDepth
<1>3. CASE ~SendTx(h)
  <2>1. mempool' = mempool
    BY <1>3 DEF CallStep, Sign, Push, PollSent, PollUnconfirmed,
                ReturnHash, TimeOut, chainVars
  <2>2. \A d \in Calls : pc'[d] \in {"idle", "send"} => pc[d] \in {"idle", "send"}
    BY <1>3 DEF CallStep, Sign, Push, PollSent, PollUnconfirmed,
                ReturnHash, TimeOut, Goto, TypeOK
  <2> QED
    BY <1>1, <2>1, <2>2 DEF Once
<1> QED
  BY <1>1, <1>2, <1>3

(* The receipt is what the chain says now.                                  *)
LEMMA ReceiptDepth ==
  ASSUME DepthInv, NEW w \in Workers, Receipt(w)
  PROVE  Judged'
<1> USE DEF DepthInv
<1>1. /\ UNCHANGED <<whash, blockOf, reverted, head, misled>>
      /\ \A v \in Workers \ {w} : wpc'[v] = wpc[v] /\ wblock'[v] = wblock[v]
      /\ wpc'[w] # "confirm"
      /\ wpc'[w] = "depth" =>
           /\ wblock'[w] = blockOf[whash[w]] /\ blockOf[whash[w]] # 0
           /\ whash[w] \notin reverted
  BY DEF Receipt, WorkerGoto, TypeOK, chainVars
<1> QED
  BY <1>1 DEF Judged, Deep, NoWrap

(* A hash is deep when the sum says so, unless it has wrapped.              *)
LEMMA DepthDepth ==
  ASSUME DepthInv, NEW w \in Workers, Depth(w)
  PROVE  Judged'
<1> USE DEF DepthInv
<1>1. /\ UNCHANGED <<whash, blockOf, reverted, head, misled>>
      /\ \A v \in Workers \ {w} : wpc'[v] = wpc[v] /\ wblock'[v] = wblock[v]
      /\ wpc'[w] # "depth"
      /\ wpc'[w] = "confirm" => ~Pending(wblock[w])
      /\ wpc[w] = "depth"
  BY DEF Depth, WorkerGoto, TypeOK, chainVars
<1>2. ASSUME whash[w] \notin misled, wpc'[w] = "confirm", NoWrap
      PROVE  Deep(whash[w])
  <2>1. whash[w] \in Hashes
    BY <1>1 DEF WorkerInv
  <2>2. wblock[w] = blockOf[whash[w]] /\ wblock[w] # 0 /\ whash[w] \notin reverted
    BY <1>1, <1>2 DEF Judged
  <2>3. wblock[w] <= head /\ wblock[w] \in Nat
    BY <2>1, <2>2, Numbers DEF Once
  <2>4. wblock[w] + Confirmations <= head
    BY <1>1, <1>2, <2>3, Numbers DEF Pending, UintSum, NoWrap
  <2> QED
    BY <2>2, <2>4 DEF Deep
<1> QED
  BY <1>1, <1>2 DEF Judged, Deep, NoWrap

LEMMA WorkerDepth ==
  ASSUME DepthInv, NEW w \in Workers, WorkerStep(w)
  PROVE  Judged' /\ ConfirmedIsDeep'
<1> USE DEF DepthInv
<1>1. CASE Receipt(w)
  <2>1. ConfirmedIsDeep'
    BY <1>1 DEF Receipt, ConfirmedIsDeep, Deep, NoWrap, verdictVars, chainVars
  <2> QED
    BY <1>1, <2>1, ReceiptDepth
<1>2. CASE Depth(w)
  <2>1. ConfirmedIsDeep'
    BY <1>2 DEF Depth, ConfirmedIsDeep, Deep, NoWrap, verdictVars, chainVars
  <2> QED
    BY <1>2, <2>1, DepthDepth
<1>3. CASE AfterTxConfirmed(w)
  <2>1. /\ wpc[w] = "confirm" /\ wpc'[w] = "idle"
        /\ \A v \in Workers \ {w} : wpc'[v] = wpc[v] /\ whash'[v] = whash[v]
        /\ confirmed' = confirmed \cup {whash[w]}
        /\ UNCHANGED <<wblock, blockOf, reverted, head, misled>>
    BY <1>3 DEF AfterTxConfirmed, WorkerGoto, TypeOK, chainVars
  <2>2. NoWrap /\ whash[w] \notin misled => Deep(whash[w])
    BY <2>1 DEF Judged
  <2>3. Judged'
    BY <2>1 DEF Judged, Deep, NoWrap
  <2>4. ConfirmedIsDeep'
    BY <2>1, <2>2 DEF ConfirmedIsDeep, Deep, NoWrap
  <2> QED
    BY <2>3, <2>4
<1>4. CASE Take(w) \/ Retry(w) \/ ErrHandle(w) \/ WorkerExit(w)
  <2>1. /\ wpc'[w] \notin {"depth", "confirm"}
        /\ \A v \in Workers \ {w} : /\ wpc'[v] = wpc[v] /\ whash'[v] = whash[v]
                                      /\ wblock'[v] = wblock[v]
        /\ UNCHANGED <<confirmed, blockOf, reverted, head, misled>>
    BY <1>4 DEF Take, Retry, ErrHandle, WorkerExit, WorkerGoto, TypeOK, verdictVars,
                chainVars
  <2>2. Judged'
    BY <2>1 DEF Judged, Deep, NoWrap
  <2>3. ConfirmedIsDeep'
    BY <2>1 DEF ConfirmedIsDeep, Deep, NoWrap
  <2> QED
    BY <2>2, <2>3
<1> QED
  BY <1>1, <1>2, <1>3, <1>4 DEF WorkerStep

LEMMA DepthNext ==
  ASSUME DepthInv, [Next]_vars
  PROVE  DepthInv'
<1>1. TypeOK' /\ WorkerInv'
  BY TypeNext DEF DepthInv
<1> SUFFICES Once' /\ Judged' /\ ConfirmedIsDeep'
  BY <1>1 DEF DepthInv
<1>1a. ASSUME NEW h \in Calls, AfterTxSent(h)
       PROVE  Once' /\ Judged' /\ ConfirmedIsDeep'
  <2>1. UNCHANGED <<pc, workerVars, confirmed, mempool, blockOf, reverted, head, misled>>
    BY <1>1a DEF AfterTxSent, workerVars, verdictVars, chainVars
  <2>2. Once'
    BY <2>1 DEF DepthInv, Once
  <2>3. Grows
    BY <2>1, Still DEF DepthInv
  <2> QED
    BY <1>1, <2>1, <2>2, <2>3, JudgedStays
<1>2. ASSUME NEW h \in Calls, CallStep(h)
      PROVE  Once' /\ Judged' /\ ConfirmedIsDeep'
  <2>1. Once' /\ UNCHANGED <<workerVars, confirmed, blockOf, reverted, head, misled>>
    BY <1>2, CallDepth DEF verdictVars
  <2>2. Grows
    BY <2>1, Still DEF DepthInv
  <2> QED
    BY <1>1, <2>1, <2>2, JudgedStays
<1>3. ASSUME NEW w \in Workers, WorkerStep(w)
      PROVE  Once' /\ Judged' /\ ConfirmedIsDeep'
  <2>1. UNCHANGED <<pc, mempool, blockOf, head>>
    BY <1>3 DEF WorkerStep, Take, Receipt, Depth, Retry, AfterTxConfirmed, ErrHandle,
                WorkerExit, chainVars
  <2>2. Once'
    BY <2>1 DEF DepthInv, Once
  <2> QED
    BY <1>3, <2>2, WorkerDepth
<1>4. ASSUME NEW included \in SUBSET mempool, Block(included)
      PROVE  Once' /\ Judged' /\ ConfirmedIsDeep'
  <2>1. UNCHANGED <<workerVars, confirmed>>
    BY <1>4 DEF Block, Mine, verdictVars
  <2>2. Grows /\ Once'
    BY <1>4, MineGrows
  <2> QED
    BY <1>1, <2>1, <2>2, JudgedStays
<1>5. ASSUME NEW b \in 1 .. head, Reorg(b)
      PROVE  Once' /\ Judged' /\ ConfirmedIsDeep'
  <2>1. UNCHANGED <<workerVars, confirmed>>
    BY <1>5 DEF Reorg, verdictVars
  <2>2. Grows /\ Once'
    BY <1>5, ReorgGrows
  <2> QED
    BY <1>1, <2>1, <2>2, JudgedStays
<1>6. ASSUME (\E h \in Hashes : EnqueueTxHash(h)) \/ Start \/ Stop \/ UNCHANGED vars
      PROVE  Once' /\ Judged' /\ ConfirmedIsDeep'
  <2>1. UNCHANGED <<pc, workerVars, confirmed, mempool, blockOf, reverted, head, misled>>
    BY <1>6 DEF EnqueueTxHash, Start, Stop, vars, workerVars, verdictVars, chainVars
  <2>2. Once'
    BY <2>1 DEF DepthInv, Once
  <2>3. Grows
    BY <2>1, Still DEF DepthInv
  <2> QED
    BY <1>1, <2>1, <2>2, <2>3, JudgedStays
<1> QED
  BY <1>1a, <1>2, <1>3, <1>4, <1>5, <1>6 DEF Next

(* A hash afterTxConfirmed was called for is as deep as configured and      *)
(* stays so, under every fault, unless the sum of block number and depth    *)
(* wraps or its block is taken back after the receipt was read.             *)
THEOREM ConfirmedMeansDeep == Spec => []ConfirmedIsDeep
<1>1. DepthInv => ConfirmedIsDeep
  BY DEF DepthInv
<1>2. DepthInv /\ [Next]_vars => DepthInv'
  BY DepthNext
<1> QED
  BY DepthInit, <1>1, <1>2, PTL DEF Spec

(* A hash SyncSend returns without an error is that deep, unless errHandle  *)
(* was called for it or its block was taken back after the receipt was      *)
(* read: there is no other way in which README.md:3 is broken.              *)
THEOREM SuccessMeansDeepOrExcused == Spec => []OkIsDeepOrExcused
<1>1. TypeOK /\ OkIsSettled /\ ConfirmedIsDeep => OkIsDeepOrExcused
  BY DEF OkIsSettled, ConfirmedIsDeep, OkIsDeepOrExcused
<1> QED
  BY TypeCorrect, SuccessIsSettled, ConfirmedMeansDeep, <1>1, PTL

-----------------------------------------------------------------------------
(* Where nothing reverts, every round trip of ConfirmTx is answered and the *)
(* client is not stopped, errHandle is never called.                        *)
NothingDropped ==
  /\ phase # "stopped" /\ dropped = {} /\ reverted = {}
  /\ \A w \in Workers : wpc[w] # "fail"

LEMMA NothingDroppedNext ==
  ASSUME Faults \cap {"rpc", "revert", "stop"} = {}, TypeOK, NothingDropped, [Next]_vars
  PROVE  NothingDropped'
<1> USE DEF NothingDropped
<1>1. ASSUME NEW h \in Calls, CallStep(h) \/ AfterTxSent(h)
      PROVE  NothingDropped'
  <2>1. UNCHANGED <<phase, wpc, dropped, reverted>>
    BY <1>1 DEF CallStep, Sign, SendTx, AfterTxSent, Push, PollSent, PollUnconfirmed,
                ReturnHash, TimeOut, workerVars, verdictVars, chainVars
  <2> QED
    BY <2>1
<1>2. ASSUME NEW w \in Workers, WorkerStep(w)
      PROVE  NothingDropped'
  <2>1. ~ErrHandle(w)
    BY DEF ErrHandle
  <2>0. ~AnswerLost
    BY DEF AnswerLost
  <2>2. /\ wpc'[w] # "fail"
        /\ \A v \in Workers \ {w} : wpc'[v] = wpc[v]
        /\ UNCHANGED <<phase, dropped, reverted>>
    BY <1>2, <2>0, <2>1 DEF WorkerStep, Take, Receipt, Depth, Retry, AfterTxConfirmed,
                      WorkerExit, WorkerGoto, TypeOK, verdictVars, chainVars
  <2> QED
    BY <2>2
<1>3. ASSUME NEW included \in SUBSET mempool, Block(included)
      PROVE  NothingDropped'
  <2>1. PICK failing \in Failing(included) : Mine(included, failing)
    BY <1>3 DEF Block
  <2>2. failing = {}
    BY <2>1 DEF Failing
  <2> QED
    BY <2>1, <2>2 DEF Mine, workerVars, verdictVars
<1>4. CASE \E b \in 1 .. head : Reorg(b)
  <2>1. reverted' \subseteq reverted
    BY <1>4 DEF Reorg
  <2> QED
    BY <1>4, <2>1 DEF Reorg, workerVars, verdictVars
<1>5. CASE (\E h \in Hashes : EnqueueTxHash(h)) \/ Start \/ Stop \/ UNCHANGED vars
  <2>1. UNCHANGED <<wpc, dropped, reverted>> /\ phase' # "stopped"
    BY <1>5 DEF EnqueueTxHash, Start, Stop, vars, workerVars, verdictVars, chainVars
  <2> QED
    BY <2>1
<1> QED
  BY <1>1, <1>2, <1>3, <1>4, <1>5 DEF Next

(* On a chain that takes no block back nobody is misled.                    *)
LEMMA NobodyMisledNext ==
  ASSUME MaxReorgs = 0, TypeOK, misled = {}, [Next]_vars
  PROVE  misled' = {}
<1>1. ~\E b \in 1 .. head : Reorg(b)
  BY DEF Reorg, TypeOK
<1>2. misled' = misled
  BY <1>1 DEF Next, CallStep, Sign, SendTx, AfterTxSent, Push,
              PollSent, PollUnconfirmed, ReturnHash, TimeOut, EnqueueTxHash, WorkerStep,
              Take, Receipt, Depth, Retry, AfterTxConfirmed, ErrHandle, WorkerExit,
              Start, Stop, Block, Mine, vars, chainVars
<1> QED
  BY <1>2

(* Where nothing reverts, ConfirmTx gets its answers, the client is not     *)
(* stopped and no block is taken back, README.md:3 holds: a hash that       *)
(* SyncSend returns without an error is mined, has not reverted and is as   *)
(* deep as configured, unless the sum of block number and depth wraps.      *)
THEOREM SuccessMeansDeep ==
  ASSUME MaxReorgs = 0, Faults \cap {"rpc", "revert", "stop"} = {}
  PROVE  Spec => []OkIsDeep
<1> DEFINE NobodyMisled == misled = {}
<1>1. Init => NothingDropped /\ NobodyMisled
  BY DEF Init, NothingDropped
<1>2. TypeOK /\ NothingDropped /\ [Next]_vars => NothingDropped'
  BY NothingDroppedNext
<1>3. TypeOK /\ NobodyMisled /\ [Next]_vars => NobodyMisled'
  BY NobodyMisledNext
<1>4. NothingDropped /\ NobodyMisled /\ OkIsDeepOrExcused => OkIsDeep
  BY DEF NothingDropped, OkIsDeepOrExcused, OkIsDeep
<1> QED
  BY TypeCorrect, SuccessMeansDeepOrExcused, <1>1, <1>2, <1>3, <1>4, PTL DEF Spec

-----------------------------------------------------------------------------
(* From the poll that did not find the hash on nobody writes it again: the  *)
(* hook was through before.                                                 *)
Cleared ==
  \A h \in Calls :
    /\ pc[h] \in {"clear", "ok"} => hook[h] = "done" /\ h \notin unconfirmedTx
    /\ pc[h] = "ok" => h \notin sentTx

LEMMA ClearedNext ==
  ASSUME IInv, Cleared, [Next]_vars
  PROVE  Cleared'
<1>0. /\ pc \in [Calls -> CallPhases] /\ hook \in [Calls -> HookPhases]
      /\ Tracked
  BY DEF IInv, TypeOK
<1> USE DEF Cleared
<1>1. ASSUME NEW h \in Calls, Sign(h) \/ SendTx(h) \/ Push(h) \/ PollSent(h) \/ TimeOut(h)
      PROVE  Cleared'
  <2>1. /\ pc[h] \notin {"clear", "ok"} /\ pc'[h] \notin {"clear", "ok"}
        /\ \A d \in Calls \ {h} : pc'[d] = pc[d] /\ hook'[d] = hook[d]
        /\ UNCHANGED <<unconfirmedTx, sentTx>>
    BY <1>0, <1>1 DEF Sign, SendTx, Push, PollSent, TimeOut, Goto, HookGoto, mapVars
  <2> QED
    BY <2>1
<1>2. ASSUME NEW h \in Calls, PollUnconfirmed(h)
      PROVE  Cleared'
  <2>1. hook[h] = "done"
    BY <1>2 DEF PollUnconfirmed, Tracked, IInv
  <2> QED
    BY <1>0, <1>2, <2>1 DEF PollUnconfirmed, Goto, mapVars
<1>3. ASSUME NEW h \in Calls, ReturnHash(h)
      PROVE  Cleared'
  BY <1>0, <1>3 DEF ReturnHash, Goto
<1>4. ASSUME NEW h \in Calls, AfterTxSent(h)
      PROVE  Cleared'
  <2>1. hook[h] # "done" /\ pc' = pc
    BY <1>4 DEF AfterTxSent
  <2>2. /\ \A d \in Calls \ {h} : hook'[d] = hook[d]
        /\ unconfirmedTx' \subseteq unconfirmedTx \cup {h}
        /\ sentTx' \subseteq sentTx \cup {h}
    BY <1>0, <1>4 DEF AfterTxSent, HookGoto
  <2> QED
    BY <2>1, <2>2
<1>5. ASSUME UNCHANGED <<pc, hook, sentTx>>, unconfirmedTx' \subseteq unconfirmedTx
      PROVE  Cleared'
  BY <1>5
<1>6. ASSUME NEW w \in Workers, WorkerStep(w)
      PROVE  Cleared'
  <2>1. UNCHANGED <<pc, hook, sentTx>> /\ unconfirmedTx' \subseteq unconfirmedTx
    BY <1>6 DEF WorkerStep, Take, Receipt, Depth, Retry, AfterTxConfirmed, ErrHandle,
                WorkerExit, mapVars
  <2> QED
    BY <1>5, <2>1
<1>7. ASSUME \/ \E h \in Hashes : EnqueueTxHash(h)
             \/ Start \/ Stop \/ (\E b \in 1 .. head : Reorg(b))
             \/ \E included \in SUBSET mempool : Block(included)
             \/ UNCHANGED vars
      PROVE  Cleared'
  <2>1. UNCHANGED <<pc, mapVars>>
    BY <1>7 DEF EnqueueTxHash, Start, Stop, Reorg, Block, Mine, vars, mapVars
  <2> QED
    BY <1>5, <2>1 DEF mapVars
<1> QED
  BY <1>1, <1>2, <1>3, <1>4, <1>6, <1>7 DEF Next, CallStep

(* A call that succeeded leaves nothing behind in the two maps, under every *)
(* fault and in either order of hook and queue.                             *)
THEOREM SuccessLeavesNoTrace == Spec => []OkLeavesNoTrace
<1>1. Init => Cleared
  BY DEF Init, Cleared
<1>2. IInv /\ Cleared /\ [Next]_vars => Cleared'
  BY ClearedNext
<1>3. Cleared => OkLeavesNoTrace
  BY DEF Cleared, OkLeavesNoTrace
<1> QED
  BY SettledInit, SettledNext, <1>1, <1>2, <1>3, PTL DEF Spec
=============================================================================
