--------------------------- MODULE NonceCashProofs ---------------------------
(***************************************************************************)
(* Proofs about NonceCash for any number of callers and keys, and a map of *)
(* any size.                                                               *)
(*                                                                         *)
(* The ownership results rest on one inductive invariant, IInv.  Its parts *)
(* besides the results: the mutex is held exactly by the caller whose key  *)
(* is being looked up at the node (LockInv), which keeps a second counter  *)
(* from being made for that key, and what was given back lies below the    *)
(* counter (BackBelow), so that a new nonce is never one of the old ones.  *)
(* All but LockInv speak of the keys whose entry was never dropped: with   *)
(* an eviction a second counter starts from the account nonce while        *)
(* nonces of the first are still held.  When the keys fit the map          *)
(* (CacheFits) there are no others.                                        *)
(***************************************************************************)
EXTENDS NonceCash, FiniteSetTheorems, TLAPS

CacheFits == Cardinality(Keys) <= Capacity

LockInv ==
  \A c \in Callers :
    /\ pc[c] \in {"dial", "store"} <=> lock = c
    /\ lock = c => key[c] \notin cached

BackBelow == \A k \in Keys \ dropped : \A n \in failed[k] : n < next[k]

IInv == TypeOK /\ LockInv /\ BackBelow /\ GiveBackPossible /\ SingleOwner

-----------------------------------------------------------------------------
(* Type correctness.                                                        *)

(* A set CacheAfterAdd offers consists of keys.                             *)
LEMMA CacheAfterAddType ==
  ASSUME NEW k \in Keys, cached \subseteq Keys, NEW s \in CacheAfterAdd(k)
  PROVE  s \subseteq Keys
BY DEF CacheAfterAdd

LEMMA TypeInit == Init => TypeOK
BY DEF Init, TypeOK, Phases

LEMMA TypeNext == TypeOK /\ [Next]_vars => TypeOK'
<1> SUFFICES ASSUME TypeOK, [Next]_vars PROVE TypeOK'
  OBVIOUS
<1> USE DEF TypeOK, Phases, Goto, cacheVars, nodeVars, historyVars, ghostVars
<1>1. ASSUME NEW c \in Callers, NEW k \in Keys, AsyncSend(c, k)
      PROVE  TypeOK'
  BY <1>1 DEF AsyncSend
<1>2. ASSUME NEW c \in Callers, NonceHit(c) PROVE TypeOK'
  <2> PICK n \in failed[key[c]] \cup {next[key[c]]} : Assign(c, key[c], n)
    BY <1>2 DEF NonceHit
  <2> QED
    BY <1>2 DEF NonceHit, Assign
<1>3. ASSUME NEW c \in Callers, NonceMiss(c) PROVE TypeOK'
  BY <1>3 DEF NonceMiss
<1>4. ASSUME NEW c \in Callers, ClientNonce(c) PROVE TypeOK'
  BY <1>4 DEF ClientNonce
<1>5. ASSUME NEW c \in Callers, NewNonceFails(c) PROVE TypeOK'
  BY <1>5 DEF NewNonceFails
<1>6. ASSUME NEW c \in Callers, NonceStore(c) PROVE TypeOK'
  <2>1. cached' \subseteq Keys
    BY <1>6, CacheAfterAddType DEF NonceStore
  <2>2. next' \in [Keys -> Nat] /\ failed' \in [Keys -> SUBSET Nat]
    BY <1>6 DEF NonceStore
  <2> QED
    BY <1>6, <2>1, <2>2 DEF NonceStore
<1>7. ASSUME NEW c \in Callers, SinedTx(c) \/ SinedTxFails(c) PROVE TypeOK'
  BY <1>7 DEF SinedTx, SinedTxFails
<1>8. ASSUME NEW c \in Callers,
             SendTx(c) \/ SendTxRefused(c) \/ SendTxReplyLost(c)
      PROVE  TypeOK'
  BY <1>8 DEF SendTx, SendTxRefused, SendTxReplyLost
<1>9. ASSUME NEW c \in Callers, AddFailedNonce(c) PROVE TypeOK'
  BY <1>9 DEF AddFailedNonce
<1>10. ASSUME NEW k \in Keys, Mine(k) PROVE TypeOK'
  BY <1>10 DEF Mine
<1>11. CASE NewClient
  BY <1>11 DEF NewClient
<1>12. CASE UNCHANGED vars
  BY <1>12 DEF vars
<1> QED
  BY <1>1, <1>2, <1>3, <1>4, <1>5, <1>6, <1>7, <1>8, <1>9, <1>10, <1>11, <1>12
  DEF Next, LockStep, FreeStep

(* Every reachable state is well typed, whatever the constants are.         *)
THEOREM TypeCorrect == Spec => []TypeOK
BY TypeInit, TypeNext, PTL DEF Spec

-----------------------------------------------------------------------------
(* One owner for every nonce.                                               *)

(* Add stores its key and brings no other into the map.                     *)
LEMMA AddStores ==
  ASSUME NEW k, NEW s \in CacheAfterAdd(k)
  PROVE  k \in s /\ s \subseteq cached \cup {k}
BY DEF CacheAfterAdd

LEMMA OwnerInit == Init => IInv
<1> SUFFICES ASSUME Init PROVE IInv
  OBVIOUS
<1>1. TypeOK
  BY TypeInit
<1>2. \A c \in Callers : ~Holding(c)
  BY DEF Init, Holding
<1>3. LockInv
  BY CallersAssumption DEF Init, LockInv
<1> QED
  BY <1>1, <1>2, <1>3 DEF Init, IInv, BackBelow, GiveBackPossible, SingleOwner

LEMMA OwnerNext ==
  ASSUME IInv, [Next]_vars
  PROVE  IInv'
<1>0. TypeOK'
  BY TypeNext DEF IInv
<1> USE <1>0, CallersAssumption
    DEF IInv, TypeOK, Phases, Goto, cacheVars, nodeVars, historyVars, ghostVars
<1>1. ASSUME NEW c \in Callers, NEW k \in Keys, AsyncSend(c, k)
      PROVE  IInv'
  BY <1>1 DEF AsyncSend, LockInv, BackBelow, GiveBackPossible, SingleOwner, Holding
<1>2. ASSUME NEW c \in Callers, NonceHit(c) PROVE IInv'
  <2>0. PICK n \in failed[key[c]] \cup {next[key[c]]} : Assign(c, key[c], n)
    BY <1>2 DEF NonceHit
  <2> USE <1>2, <2>0 DEF NonceHit, Assign
  <2>1. LockInv'
    BY DEF LockInv
  <2>2. BackBelow'
    BY DEF BackBelow
  <2>3. GiveBackPossible'
    BY DEF GiveBackPossible, Holding, BackBelow
  <2>4. SingleOwner'
    BY DEF SingleOwner, GiveBackPossible, Holding, BackBelow
  <2> QED
    BY <2>1, <2>2, <2>3, <2>4
<1>3. ASSUME NEW c \in Callers, NonceMiss(c) PROVE IInv'
  BY <1>3 DEF NonceMiss, LockInv, BackBelow, GiveBackPossible, SingleOwner, Holding
<1>4. ASSUME NEW c \in Callers, ClientNonce(c) PROVE IInv'
  BY <1>4 DEF ClientNonce, LockInv, BackBelow, GiveBackPossible, SingleOwner, Holding
<1>5. ASSUME NEW c \in Callers, NewNonceFails(c) PROVE IInv'
  BY <1>5 DEF NewNonceFails, LockInv, BackBelow, GiveBackPossible, SingleOwner, Holding
<1>6. ASSUME NEW c \in Callers, NonceStore(c) PROVE IInv'
  <2>0. key[c] \notin cached /\ lock = c
    BY <1>6 DEF NonceStore, LockInv
  <2>00. key[c] \in cached' /\ cached' \subseteq cached \cup {key[c]}
    BY <1>6, AddStores DEF NonceStore
  <2> USE <1>6, <2>0, <2>00 DEF NonceStore
  <2>1. LockInv'
    BY DEF LockInv
  <2>2. BackBelow'
    BY DEF BackBelow
  <2>3. GiveBackPossible'
    BY DEF GiveBackPossible, Holding
  <2>4. SingleOwner'
    BY DEF SingleOwner, GiveBackPossible, Holding
  <2> QED
    BY <2>1, <2>2, <2>3, <2>4
<1>7. ASSUME NEW c \in Callers, SinedTx(c) \/ SinedTxFails(c) PROVE IInv'
  BY <1>7 DEF SinedTx, SinedTxFails,
              LockInv, BackBelow, GiveBackPossible, SingleOwner, Holding
<1>8. ASSUME NEW c \in Callers,
             SendTx(c) \/ SendTxRefused(c) \/ SendTxReplyLost(c)
      PROVE  IInv'
  BY <1>8 DEF SendTx, SendTxRefused, SendTxReplyLost,
              LockInv, BackBelow, GiveBackPossible, SingleOwner, Holding
<1>9. ASSUME NEW c \in Callers, AddFailedNonce(c) PROVE IInv'
  <2> USE <1>9 DEF AddFailedNonce
  <2>1. LockInv'
    BY DEF LockInv
  <2>2. BackBelow'
    BY DEF BackBelow, GiveBackPossible, Holding
  <2>3. GiveBackPossible'
    BY DEF GiveBackPossible, Holding
  <2>4. SingleOwner'
    BY DEF SingleOwner, Holding
  <2> QED
    BY <2>1, <2>2, <2>3, <2>4
<1>10. ASSUME NEW k \in Keys, Mine(k) PROVE IInv'
  BY <1>10 DEF Mine, LockInv, BackBelow, GiveBackPossible, SingleOwner, Holding
<1>11. CASE NewClient
  BY <1>11 DEF NewClient, LockInv, BackBelow, GiveBackPossible, SingleOwner, Holding
<1>12. CASE UNCHANGED vars
  BY <1>12 DEF vars, LockInv, BackBelow, GiveBackPossible, SingleOwner, Holding
<1> QED
  BY <1>1, <1>2, <1>3, <1>4, <1>5, <1>6, <1>7, <1>8, <1>9, <1>10, <1>11, <1>12
  DEF Next, LockStep, FreeStep

LEMMA OwnerInvariant == Spec => []IInv
<1>1. IInv /\ [Next]_vars => IInv'
  BY OwnerNext
<1> QED
  BY OwnerInit, <1>1, PTL DEF Spec

(* A nonce of a key whose entry was not dropped has one owner: no           *)
(* interleaving of lookups, creations, failing sends, restarts and          *)
(* evictions of other keys hands it out while somebody holds it or while it *)
(* waits to be handed out.                                                  *)
THEOREM OneOwner == Spec => []SingleOwner
<1>1. IInv => SingleOwner
  BY DEF IInv
<1> QED
  BY OwnerInvariant, <1>1, PTL

(* The error of AddFailedNonce that the callers ignore occurs only for a    *)
(* key whose entry was dropped.                                             *)
THEOREM GiveBackNeverFails == Spec => []GiveBackPossible
<1>1. IInv => GiveBackPossible
  BY DEF IInv
<1> QED
  BY OwnerInvariant, <1>1, PTL

-----------------------------------------------------------------------------
(* No gaps.                                                                 *)

(* The account nonce a caller read under the lock is not ahead of the       *)
(* chain: blocks may have been mined since, none is taken back.             *)
ReadBehind ==
  \A c \in Callers : pc[c] = "store" => nonce[c] <= mined[key[c]]

GapInv == IInv /\ ReadBehind /\ NoGap

LEMMA GapNext ==
  ASSUME GapInv, [Next]_vars
  PROVE  GapInv'
<1>0. TypeOK' /\ IInv'
  BY OwnerNext DEF GapInv, IInv
<1> USE <1>0, CallersAssumption
    DEF GapInv, TypeOK, Phases, Goto, cacheVars, nodeVars, historyVars, ghostVars
<1>a. TypeOK
  BY DEF IInv
<1> SUFFICES ReadBehind' /\ NoGap'
  OBVIOUS
<1> USE <1>a
<1>1. ASSUME NEW c \in Callers, NEW k \in Keys, AsyncSend(c, k)
      PROVE  ReadBehind' /\ NoGap'
  BY <1>1 DEF AsyncSend, ReadBehind, NoGap, Accounted, Holding
<1>2. ASSUME NEW c \in Callers, NonceHit(c) PROVE ReadBehind' /\ NoGap'
  <2>0. PICK n \in failed[key[c]] \cup {next[key[c]]} : Assign(c, key[c], n)
    BY <1>2 DEF NonceHit
  <2>1. ReadBehind'
    BY <1>2, <2>0 DEF NonceHit, Assign, ReadBehind
  <2>2. ASSUME NEW k \in cached' \ dropped', NEW m \in mined'[k] .. (next'[k] - 1)
        PROVE  Accounted(k, m)'
    <3>0. k \in Keys /\ k \in cached \ dropped /\ mined'[k] = mined[k]
      BY <1>2 DEF NonceHit
    <3>1. CASE k = key[c] /\ m = n
      BY <1>2, <2>0, <3>1 DEF NonceHit, Assign, Accounted, Holding
    <3>2. CASE ~(k = key[c] /\ m = n)
      <4>1. m \in mined[k] .. (next[k] - 1)
        BY <1>2, <2>0, <3>0, <3>2 DEF NonceHit, Assign
      <4>2. Accounted(k, m)
        BY <3>0, <4>1 DEF NoGap
      <4> QED
        BY <1>2, <2>0, <3>0, <3>2, <4>2
        DEF NonceHit, Assign, Accounted, Holding
    <3> QED
      BY <3>1, <3>2
  <2> QED
    BY <2>1, <2>2 DEF NoGap
<1>3. ASSUME NEW c \in Callers, NonceMiss(c) PROVE ReadBehind' /\ NoGap'
  BY <1>3 DEF NonceMiss, ReadBehind, NoGap, Accounted, Holding
<1>4. ASSUME NEW c \in Callers, ClientNonce(c) PROVE ReadBehind' /\ NoGap'
  BY <1>4 DEF ClientNonce, ReadBehind, NoGap, Accounted, Holding
<1>5. ASSUME NEW c \in Callers, NewNonceFails(c) PROVE ReadBehind' /\ NoGap'
  BY <1>5 DEF NewNonceFails, ReadBehind, NoGap, Accounted, Holding
<1>6. ASSUME NEW c \in Callers, NonceStore(c) PROVE ReadBehind' /\ NoGap'
  <2>0. key[c] \notin cached /\ nonce[c] <= mined[key[c]]
    BY <1>6 DEF NonceStore, IInv, LockInv, ReadBehind
  <2>1. key[c] \in cached' /\ cached' \subseteq cached \cup {key[c]}
    BY <1>6, AddStores DEF NonceStore
  <2>2. ReadBehind'
    BY <1>6 DEF NonceStore, ReadBehind
  <2>3. ASSUME NEW k \in cached' \ dropped', NEW m \in mined'[k] .. (next'[k] - 1)
        PROVE  Accounted(k, m)'
    <3>1. CASE k = key[c]
      <4>0. next'[k] = nonce[c] + 1 /\ mined'[k] = mined[k]
        BY <1>6, <2>1, <3>1 DEF NonceStore
      <4>1. m = nonce[c]
        <5>1. m \in mined[k] .. (nonce[c] + 1 - 1) /\ nonce[c] <= mined[k]
          BY <2>0, <3>1, <4>0
        <5>2. nonce[c] \in Nat /\ mined[k] \in Nat
          BY <1>6, <3>1
        <5> HIDE DEF GapInv, TypeOK
        <5> QED
          BY <5>1, <5>2
      <4> QED
        BY <1>6, <3>1, <4>1 DEF NonceStore, Accounted, Holding
    <3>2. CASE k # key[c]
      <4>1. k \in cached \ dropped /\ m \in mined[k] .. (next[k] - 1)
        BY <1>6, <2>1, <3>2 DEF NonceStore
      <4>2. Accounted(k, m)
        BY <4>1 DEF NoGap
      <4> QED
        BY <1>6, <2>1, <3>2, <4>1, <4>2 DEF NonceStore, Accounted, Holding
    <3> QED
      BY <3>1, <3>2
  <2> QED
    BY <2>2, <2>3 DEF NoGap
<1>7. ASSUME NEW c \in Callers, SinedTx(c) PROVE ReadBehind' /\ NoGap'
  BY <1>7 DEF SinedTx, ReadBehind, NoGap, Accounted, Holding
<1>8. ASSUME NEW c \in Callers, SinedTxFails(c) PROVE ReadBehind' /\ NoGap'
  BY <1>8 DEF SinedTxFails, ReadBehind, NoGap, Accounted, Holding
<1>9. ASSUME NEW c \in Callers, SendTx(c) PROVE ReadBehind' /\ NoGap'
  BY <1>9 DEF SendTx, ReadBehind, NoGap, Accounted, Holding
<1>10. ASSUME NEW c \in Callers, SendTxRefused(c) \/ SendTxReplyLost(c)
       PROVE  ReadBehind' /\ NoGap'
  BY <1>10 DEF SendTxRefused, SendTxReplyLost,
               ReadBehind, NoGap, Accounted, Holding
<1>11. ASSUME NEW c \in Callers, AddFailedNonce(c)
       PROVE  ReadBehind' /\ NoGap'
  <2>1. key[c] \in cached \/ key[c] \in dropped
    BY <1>11 DEF AddFailedNonce, IInv, GiveBackPossible, Holding
  <2> QED
    BY <1>11, <2>1 DEF AddFailedNonce, ReadBehind, NoGap, Accounted, Holding
<1>12. ASSUME NEW k \in Keys, Mine(k) PROVE ReadBehind' /\ NoGap'
  BY <1>12 DEF Mine, ReadBehind, NoGap, Accounted, Holding
<1>13. CASE NewClient
  BY <1>13 DEF NewClient, ReadBehind, NoGap
<1>14. CASE UNCHANGED vars
  BY <1>14 DEF vars, ReadBehind, NoGap, Accounted, Holding
<1> QED
  BY <1>1, <1>2, <1>3, <1>4, <1>5, <1>6, <1>7, <1>8, <1>9, <1>10, <1>11,
     <1>12, <1>13, <1>14
  DEF Next, LockStep, FreeStep

LEMMA GapInvariant == Spec => []GapInv
<1>1. Init => GapInv
  BY OwnerInit DEF Init, GapInv, ReadBehind, NoGap
<1>2. GapInv /\ [Next]_vars => GapInv'
  BY GapNext
<1> QED
  BY <1>1, <1>2, PTL DEF Spec

(* No nonce of a key whose entry was not dropped is lost but by a sinedTx   *)
(* that fails after it drew one: whatever sends are refused, half succeed   *)
(* or are cut off by a restart, each other nonce below the counter is       *)
(* pending, held or waiting.                                                *)
THEOREM NoNonceLost == Spec => []NoGap
<1>1. GapInv => NoGap
  BY DEF GapInv
<1> QED
  BY GapInvariant, <1>1, PTL

-----------------------------------------------------------------------------
(* No conflicts of the client's own making.                                 *)

(* The keys of which the cache knows all the node knows.                    *)
Current == Keys \ (dropped \cup stale)

HeldAcceptable ==
  \A c \in Callers :
    Holding(c) /\ key[c] \in Current => Acceptable(key[c], nonce[c])

BackAcceptable ==
  \A k \in cached \cap Current : \A n \in failed[k] : Acceptable(k, n)

(* The counter is beyond everything the node has seen of the account.       *)
CounterAhead ==
  \A k \in cached \cap Current :
    mined[k] <= next[k] /\ \A n \in pool[k] : n < next[k]

ConflictInv == IInv /\ HeldAcceptable /\ BackAcceptable /\ CounterAhead

LEMMA ConflictNext ==
  ASSUME ConflictInv, [Next]_vars
  PROVE  ConflictInv'
<1>0. TypeOK' /\ IInv'
  BY OwnerNext DEF ConflictInv, IInv
<1>a. TypeOK
  BY DEF ConflictInv, IInv
<1> DEFINE Goal == HeldAcceptable /\ BackAcceptable /\ CounterAhead
<1> SUFFICES Goal'
  BY <1>0 DEF ConflictInv
<1> USE <1>0, <1>a, CallersAssumption
    DEF ConflictInv, Current, TypeOK, Phases, Goto,
        cacheVars, nodeVars, historyVars, ghostVars
<1>1. ASSUME NEW c \in Callers, NEW k \in Keys, AsyncSend(c, k) PROVE Goal'
  BY <1>1 DEF AsyncSend, HeldAcceptable, BackAcceptable, CounterAhead,
              Holding, Acceptable
<1>2. ASSUME NEW c \in Callers, NonceHit(c) PROVE Goal'
  <2>0. PICK n \in failed[key[c]] \cup {next[key[c]]} : Assign(c, key[c], n)
    BY <1>2 DEF NonceHit
  <2>1. key[c] \in Current => Acceptable(key[c], n)
    BY <1>2, <2>0 DEF NonceHit, Assign, BackAcceptable, CounterAhead, Acceptable
  <2> USE <1>2, <2>0, <2>1 DEF NonceHit, Assign
  <2>2. HeldAcceptable'
    BY DEF HeldAcceptable, Holding, Acceptable
  <2>3. BackAcceptable'
    BY DEF BackAcceptable, Acceptable
  <2>4. CounterAhead'
    BY DEF CounterAhead
  <2> QED
    BY <2>2, <2>3, <2>4
<1>3. ASSUME NEW c \in Callers, NonceMiss(c) PROVE Goal'
  BY <1>3 DEF NonceMiss, HeldAcceptable, BackAcceptable, CounterAhead,
              Holding, Acceptable
<1>4. ASSUME NEW c \in Callers, ClientNonce(c) PROVE Goal'
  BY <1>4 DEF ClientNonce, HeldAcceptable, BackAcceptable, CounterAhead,
              Holding, Acceptable
<1>5. ASSUME NEW c \in Callers, NewNonceFails(c) PROVE Goal'
  BY <1>5 DEF NewNonceFails, HeldAcceptable, BackAcceptable, CounterAhead,
              Holding, Acceptable
<1>6. ASSUME NEW c \in Callers, NonceStore(c) PROVE Goal'
  <2>1. key[c] \notin cached /\ lock = c
    BY <1>6 DEF NonceStore, IInv, LockInv
  <2>2. key[c] \in cached' /\ cached' \subseteq cached \cup {key[c]}
    BY <1>6, AddStores DEF NonceStore
  <2>3. key[c] \in Current' => nonce[c] = mined[key[c]] /\ pool[key[c]] = {}
    BY <1>6 DEF NonceStore
  <2>4. Current' \subseteq Current
    BY <1>6 DEF NonceStore
  <2> USE <1>6, <2>1, <2>2, <2>3, <2>4 DEF NonceStore
  <2>5. HeldAcceptable'
    BY DEF HeldAcceptable, Holding, Acceptable
  <2>6. BackAcceptable'
    BY DEF BackAcceptable, Acceptable
  <2>7. CounterAhead'
    BY DEF CounterAhead
  <2> QED
    BY <2>5, <2>6, <2>7
<1>7. ASSUME NEW c \in Callers, SinedTx(c) \/ SinedTxFails(c) PROVE Goal'
  BY <1>7 DEF SinedTx, SinedTxFails, HeldAcceptable, BackAcceptable,
              CounterAhead, Holding, Acceptable
<1>8. ASSUME NEW c \in Callers, SendTx(c) PROVE Goal'
  <2>1. key[c] \notin dropped =>
          /\ key[c] \in cached
          /\ nonce[c] < next[key[c]]
          /\ nonce[c] \notin failed[key[c]]
    BY <1>8 DEF SendTx, IInv, GiveBackPossible, SingleOwner, Holding
  <2>2. key[c] \notin dropped =>
          \A d \in Callers \ {c} :
            Holding(d) /\ key[d] = key[c] => nonce[d] # nonce[c]
    BY <1>8 DEF SendTx, IInv, SingleOwner, Holding
  <2> USE <1>8, <2>1, <2>2 DEF SendTx
  <2>3. HeldAcceptable'
    BY DEF HeldAcceptable, Holding, Acceptable
  <2>4. BackAcceptable'
    BY DEF BackAcceptable, Acceptable
  <2>5. CounterAhead'
    BY DEF CounterAhead
  <2> QED
    BY <2>3, <2>4, <2>5
<1>9. ASSUME NEW c \in Callers, SendTxReplyLost(c) PROVE Goal'
  BY <1>9 DEF SendTxReplyLost, HeldAcceptable, BackAcceptable, CounterAhead,
              Holding, Acceptable
<1>10. ASSUME NEW c \in Callers, SendTxRefused(c) PROVE Goal'
  BY <1>10 DEF SendTxRefused, HeldAcceptable, BackAcceptable, CounterAhead,
               Holding, Acceptable
<1>11. ASSUME NEW c \in Callers, AddFailedNonce(c) PROVE Goal'
  BY <1>11 DEF AddFailedNonce, HeldAcceptable, BackAcceptable, CounterAhead,
               Holding, Acceptable
<1>12. ASSUME NEW k \in Keys, Mine(k) PROVE Goal'
  <2> USE <1>12 DEF Mine
  <2>1. HeldAcceptable'
    BY DEF HeldAcceptable, Holding, Acceptable
  <2>2. BackAcceptable'
    BY DEF BackAcceptable, Acceptable
  <2>3. CounterAhead'
    BY DEF CounterAhead
  <2> QED
    BY <2>1, <2>2, <2>3
<1>13. CASE NewClient
  BY <1>13 DEF NewClient, HeldAcceptable, BackAcceptable, CounterAhead, Holding
<1>14. CASE UNCHANGED vars
  BY <1>14 DEF vars, HeldAcceptable, BackAcceptable, CounterAhead,
               Holding, Acceptable
<1> QED
  BY <1>1, <1>2, <1>3, <1>4, <1>5, <1>6, <1>7, <1>8, <1>9, <1>10, <1>11,
     <1>12, <1>13, <1>14
  DEF Next, LockStep, FreeStep

LEMMA ConflictInvariant == Spec => []ConflictInv
<1>1. Init => ConflictInv
  <2> SUFFICES ASSUME Init PROVE ConflictInv
    OBVIOUS
  <2>1. IInv
    BY OwnerInit
  <2> QED
    BY <2>1 DEF Init, ConflictInv, HeldAcceptable, BackAcceptable, CounterAhead,
                Holding, Acceptable
<1>2. ConflictInv /\ [Next]_vars => ConflictInv'
  BY ConflictNext
<1> QED
  BY <1>1, <1>2, PTL DEF Spec

(* Under every fault, the node refuses a transaction of the client for its  *)
(* nonce only if the key's entry was dropped, its counter began while       *)
(* earlier transactions were pending, or a reply was lost.                  *)
THEOREM NoConflict == Spec => []NoSelfConflict
<1>1. ConflictInv => NoSelfConflict
  BY DEF ConflictInv, HeldAcceptable, BackAcceptable, NoSelfConflict, Holding,
         Current
<1> QED
  BY ConflictInvariant, <1>1, PTL

-----------------------------------------------------------------------------
(* What an accepted transaction waits for.                                  *)

(* What is mined is not pending.                                            *)
PoolAhead == \A k \in Keys : \A n \in pool[k] : n >= mined[k]

LEMMA PoolNext ==
  ASSUME TypeOK, TypeOK', PoolAhead, [Next]_vars
  PROVE  PoolAhead'
<1> USE DEF TypeOK, PoolAhead, cacheVars, nodeVars, historyVars, ghostVars
<1>1. ASSUME NEW c \in Callers, SendTx(c) \/ SendTxReplyLost(c) PROVE PoolAhead'
  BY <1>1 DEF SendTx, SendTxReplyLost, Acceptable
<1>2. ASSUME NEW k \in Keys, Mine(k) PROVE PoolAhead'
  BY <1>2 DEF Mine
<1>3. ASSUME UNCHANGED nodeVars PROVE PoolAhead'
  BY <1>3
<1>4. ASSUME NEW c \in Callers, FreeStep(c), ~SendTx(c), ~SendTxReplyLost(c)
      PROVE  UNCHANGED nodeVars
  BY <1>4 DEF FreeStep, ClientNonce, NewNonceFails, NonceStore, SinedTx,
              SinedTxFails, SendTxRefused
<1>5. ASSUME NEW c \in Callers, LockStep(c) PROVE UNCHANGED nodeVars
  BY <1>5 DEF LockStep, NonceHit, NonceMiss, AddFailedNonce
<1>6. ASSUME \/ \E c \in Callers, k \in Keys : AsyncSend(c, k)
             \/ NewClient \/ UNCHANGED vars
      PROVE  UNCHANGED nodeVars
  BY <1>6 DEF AsyncSend, NewClient, vars
<1> QED
  BY <1>1, <1>2, <1>3, <1>4, <1>5, <1>6 DEF Next

(* A transaction the node accepted waits for a nonce that is pending, held, *)
(* waiting to be handed out, or lost by a failing sinedTx; so without such  *)
(* a failure, only a nonce that was given back can hold it up for good.     *)
THEOREM HeldUpOnlyWithReason == Spec => []HeldUpHasReason
<1>1. Init => PoolAhead
  BY DEF Init, PoolAhead
<1>2. TypeOK /\ TypeOK' /\ PoolAhead /\ [Next]_vars => PoolAhead'
  BY PoolNext
<1>3. ASSUME ConflictInv, NoGap, PoolAhead
      PROVE  HeldUpHasReason
  <2> SUFFICES ASSUME NEW k \in cached \ (dropped \cup stale), NEW n \in pool[k]
               PROVE  Accounted(k, mined[k])
    BY DEF HeldUpHasReason
  <2>1. k \in Keys /\ mined[k] \in Nat /\ next[k] \in Nat /\ n \in Nat
    BY <1>3 DEF ConflictInv, IInv, TypeOK
  <2>2. mined[k] <= n /\ n < next[k]
    BY <1>3, <2>1 DEF PoolAhead, ConflictInv, CounterAhead, Current
  <2>3. mined[k] \in mined[k] .. (next[k] - 1)
    BY <2>1, <2>2
  <2> QED
    BY <1>3, <2>3 DEF NoGap
<1> QED
  BY TypeCorrect, ConflictInvariant, NoNonceLost, <1>1, <1>2, <1>3, PTL DEF Spec

-----------------------------------------------------------------------------
(* When the exceptions do not arise.                                        *)

(* With room for every key, Add never drops an entry.                       *)
LEMMA NoEviction ==
  ASSUME CacheFits, cached \subseteq Keys, NEW k \in Keys, k \notin cached
  PROVE  CacheAfterAdd(k) = {cached \cup {k}}
<1>1. IsFiniteSet(cached) /\ Cardinality(cached) <= Cardinality(Keys)
  BY KeysAssumption, FS_Subset
<1>2. Cardinality(cached) # Cardinality(Keys)
  BY KeysAssumption, FS_Subset
<1>3. Cardinality(cached) \in Nat /\ Cardinality(Keys) \in Nat
  BY <1>1, KeysAssumption, FS_CardinalityType
<1> QED
  BY <1>1, <1>2, <1>3, CapacityAssumption DEF CacheFits, CacheAfterAdd

(* When the map has room for every key, no entry is ever dropped, so that   *)
(* the results above hold for all keys.                                     *)
THEOREM NothingDropped ==
  ASSUME CacheFits
  PROVE  Spec => [](dropped = {})
<1> DEFINE Kept == dropped = {}
<1>1. Init => Kept
  BY DEF Init
<1>2. IInv /\ Kept /\ [Next]_vars => Kept'
  <2> SUFFICES ASSUME IInv, Kept, [Next]_vars PROVE Kept'
    OBVIOUS
  <2>1. ASSUME NEW c \in Callers, NonceStore(c) PROVE Kept'
    <3>1. key[c] \in Keys \ cached /\ cached \subseteq Keys
      BY <2>1 DEF NonceStore, IInv, LockInv, TypeOK
    <3>2. cached' = cached \cup {key[c]}
      BY <2>1, <3>1, NoEviction DEF NonceStore
    <3> QED
      BY <2>1, <3>2 DEF NonceStore
  <2>2. CASE \A c \in Callers : ~NonceStore(c)
    BY <2>2 DEF Next, LockStep, FreeStep, AsyncSend, NonceHit, NonceMiss,
       ClientNonce, NewNonceFails, SinedTx, SinedTxFails, SendTx, SendTxRefused,
       SendTxReplyLost, AddFailedNonce, Mine, NewClient, vars, ghostVars, historyVars
  <2> QED
    BY <2>1, <2>2
<1> QED
  BY <1>1, <1>2, OwnerInvariant, PTL DEF Spec

(* Only this client sends for its keys, so that an account without a        *)
(* counter has nothing pending and stands still while it is looked up.      *)
Untouched ==
  /\ \A k \in Keys \ cached : pool[k] = {}
  /\ \A c \in Callers : pc[c] = "store" => nonce[c] = mined[key[c]]

CurrentInv == IInv /\ CountersCurrent /\ Untouched

LEMMA CurrentNext ==
  ASSUME CacheFits, "reply" \notin Faults, MaxRestarts = 0, CurrentInv, [Next]_vars
  PROVE  CurrentInv'
<1>0. TypeOK' /\ IInv'
  BY OwnerNext DEF CurrentInv, IInv
<1>a. TypeOK
  BY DEF CurrentInv, IInv
<1> DEFINE Goal == CountersCurrent /\ Untouched
<1> SUFFICES Goal'
  BY <1>0 DEF CurrentInv
<1> USE <1>0, <1>a, CallersAssumption
    DEF CurrentInv, TypeOK, Phases, Goto, cacheVars, nodeVars, historyVars,
        ghostVars, CountersCurrent, Untouched
<1>1. ASSUME NEW c \in Callers, NEW k \in Keys, AsyncSend(c, k) PROVE Goal'
  BY <1>1 DEF AsyncSend
<1>2. ASSUME NEW c \in Callers, NonceHit(c) PROVE Goal'
  BY <1>2 DEF NonceHit, Assign
<1>3. ASSUME NEW c \in Callers, NonceMiss(c) \/ ClientNonce(c) \/ NewNonceFails(c)
      PROVE  Goal'
  BY <1>3 DEF NonceMiss, ClientNonce, NewNonceFails
<1>4. ASSUME NEW c \in Callers, NonceStore(c) PROVE Goal'
  <2>1. key[c] \notin cached
    BY <1>4 DEF NonceStore, IInv, LockInv
  <2>2. cached' = cached \cup {key[c]}
    BY <1>4, <2>1, NoEviction DEF NonceStore
  <2>3. nonce[c] = mined[key[c]] /\ pool[key[c]] = {}
    BY <1>4, <2>1 DEF NonceStore
  <2> QED
    BY <1>4, <2>2, <2>3 DEF NonceStore
<1>5. ASSUME NEW c \in Callers, SinedTx(c) \/ SinedTxFails(c) \/ SendTxRefused(c)
      PROVE  Goal'
  BY <1>5 DEF SinedTx, SinedTxFails, SendTxRefused
<1>6. ASSUME NEW c \in Callers, SendTx(c) PROVE Goal'
  <2>1. key[c] \in cached
    BY <1>6 DEF SendTx, IInv, GiveBackPossible, Holding
  <2> QED
    BY <1>6, <2>1 DEF SendTx
<1>7. ASSUME NEW c \in Callers, SendTxReplyLost(c) PROVE FALSE
  BY <1>7 DEF SendTxReplyLost
<1>8. ASSUME NEW c \in Callers, AddFailedNonce(c) PROVE Goal'
  BY <1>8 DEF AddFailedNonce
<1>9. ASSUME NEW k \in Keys, Mine(k) PROVE Goal'
  BY <1>9 DEF Mine, IInv, LockInv
<1>10. ASSUME NewClient PROVE FALSE
  BY <1>10 DEF NewClient
<1>11. CASE UNCHANGED vars
  BY <1>11 DEF vars
<1> QED
  BY <1>1, <1>2, <1>3, <1>4, <1>5, <1>6, <1>7, <1>8, <1>9, <1>10, <1>11
  DEF Next, LockStep, FreeStep

(* Without restarts, and when an error of a send means that the node did    *)
(* not take the transaction, the counters know of all the node has; with    *)
(* NoConflict, the node then refuses no nonce at all.                       *)
THEOREM CountersStayCurrent ==
  ASSUME CacheFits, "reply" \notin Faults, MaxRestarts = 0
  PROVE  Spec => []CountersCurrent
<1>1. Init => CurrentInv
  <2> SUFFICES ASSUME Init PROVE CurrentInv
    OBVIOUS
  <2>1. IInv
    BY OwnerInit
  <2> QED
    BY <2>1 DEF Init, CurrentInv, CountersCurrent, Untouched
<1>2. CurrentInv /\ [Next]_vars => CurrentInv'
  BY CurrentNext
<1>3. CurrentInv => CountersCurrent
  BY DEF CurrentInv
<1> QED
  BY <1>1, <1>2, <1>3, PTL DEF Spec

-----------------------------------------------------------------------------
(* The cache implements the desk of every key.                              *)

(* A step that touches neither k's entry nor its holders leaves k's desk    *)
(* alone.                                                                   *)
LEMMA DeskUnchanged ==
  ASSUME NEW k \in Keys, StateOf(k)' = StateOf(k), HeldOf(k)' = HeldOf(k),
         HasDesk(k)' = HasDesk(k),
         HasDesk(k) => next'[k] = next[k] /\ failed'[k] = failed[k],
         mined'[k] = mined[k]
  PROVE  UNCHANGED Desk(k)!vars
BY DEF Desk!vars

(* Only c's holding may have changed.                                       *)
LEMMA HeldExcept ==
  ASSUME NEW k \in Keys, NEW c \in Callers, NEW h,
         \A d \in Callers \ {c} : HeldOf(k)'[d] = HeldOf(k)[d],
         HeldOf(k)'[c] = h
  PROVE  HeldOf(k)' = [HeldOf(k) EXCEPT ![c] = h]
<1>1. HeldOf(k) = [d \in Callers |-> HeldOf(k)[d]]
  BY DEF HeldOf
<1>2. HeldOf(k)' = [d \in Callers |-> HeldOf(k)'[d]]
  BY DEF HeldOf
<1> HIDE DEF HeldOf
<1> QED
  BY <1>1, <1>2

LEMMA DeskNext ==
  ASSUME NEW k \in Keys, GapInv, GapInv', [Next]_vars
  PROVE  [Desk(k)!Next]_(Desk(k)!vars)
<1> DEFINE Goal == [Desk(k)!Next]_(Desk(k)!vars)
           Same == UNCHANGED Desk(k)!vars
<1>0. TypeOK /\ TypeOK' /\ IInv /\ ReadBehind
  BY DEF GapInv, IInv
<1> USE <1>0, CallersAssumption
    DEF TypeOK, Phases, Goto, cacheVars, nodeVars, historyVars, ghostVars
<1>1. ASSUME NEW c \in Callers, NEW j \in Keys, AsyncSend(c, j) PROVE Same
  BY <1>1, DeskUnchanged DEF AsyncSend, StateOf, HeldOf, HasDesk, Holding
<1>2. ASSUME NEW c \in Callers, NonceHit(c) PROVE Goal
  <2>0. PICK n \in failed[key[c]] \cup {next[key[c]]} : Assign(c, key[c], n)
    BY <1>2 DEF NonceHit
  <2> USE <1>2, <2>0 DEF NonceHit, Assign
  <2>1. CASE key[c] # k \/ k \in dropped
    <3>1. StateOf(k)' = StateOf(k) /\ HasDesk(k)' = HasDesk(k)
      BY DEF StateOf, HasDesk
    <3>2. HeldOf(k)' = HeldOf(k)
      BY <2>1 DEF HeldOf, Holding
    <3>3. HasDesk(k) => next'[k] = next[k] /\ failed'[k] = failed[k]
      BY <2>1 DEF HasDesk
    <3>4. Same
      BY <3>1, <3>2, <3>3, DeskUnchanged
    <3> QED
      BY <3>4
  <2>2. CASE key[c] = k /\ k \notin dropped
    <3>1. /\ HasDesk(k) /\ HasDesk(k)'
          /\ StateOf(k) = "open" /\ StateOf(k)' = "open"
      BY <2>2 DEF StateOf, HasDesk
    <3>2. HeldOf(k)[c] = -1 /\ HeldOf(k)'[c] = n
      BY <2>2 DEF HeldOf, Holding
    <3>3. \A d \in Callers \ {c} : HeldOf(k)'[d] = HeldOf(k)[d]
      BY <2>2 DEF HeldOf, Holding
    <3>4. HeldOf(k)' = [HeldOf(k) EXCEPT ![c] = n]
      BY <3>2, <3>3, HeldExcept
    <3>5. CASE failed[k] = {}
      <4>1. n = next[k] /\ next'[k] = next[k] + 1 /\ failed'[k] = {}
        BY <2>2, <3>5
      <4>2. Desk(k)!DrawNew(c)
        BY <3>1, <3>2, <3>4, <3>5, <4>1 DEF Desk!DrawNew, Desk!Nothing
      <4> QED
        BY <4>2 DEF Desk!Next
    <3>6. CASE failed[k] # {}
      <4>1. n \in failed[k] /\ next'[k] = next[k] /\ failed'[k] = failed[k] \ {n}
        BY <2>2, <3>6
      <4>2. Desk(k)!DrawBack(c, n)
        BY <3>1, <3>2, <3>4, <4>1 DEF Desk!DrawBack, Desk!Nothing
      <4> QED
        BY <3>1, <4>1, <4>2 DEF Desk!Next
    <3> QED
      BY <3>5, <3>6
  <2> QED
    BY <2>1, <2>2
<1>3. ASSUME NEW c \in Callers, NonceMiss(c) \/ ClientNonce(c) \/ NewNonceFails(c)
      PROVE  Same
  BY <1>3, DeskUnchanged
  DEF NonceMiss, ClientNonce, NewNonceFails, StateOf, HeldOf, HasDesk, Holding
<1>4. ASSUME NEW c \in Callers, NonceStore(c) PROVE Goal
  <2>0. key[c] \notin cached /\ nonce[c] <= mined[key[c]]
    BY <1>4 DEF NonceStore, IInv, LockInv, ReadBehind
  <2>1. key[c] \in cached' /\ cached' \subseteq cached \cup {key[c]}
    BY <1>4, AddStores DEF NonceStore
  <2>2. dropped' = dropped \cup (cached \ cached') /\ mined'[k] = mined[k]
    BY <1>4 DEF NonceStore
  <2>3. CASE k = key[c] /\ k \notin dropped
    <3>1. k \notin dropped' /\ ~HasDesk(k) /\ HasDesk(k)'
      BY <2>0, <2>1, <2>2, <2>3 DEF HasDesk
    <3>2. StateOf(k) = "none" /\ StateOf(k)' = "open"
      BY <2>0, <2>1, <2>3, <3>1 DEF StateOf
    <3>3. next'[k] = nonce[c] + 1 /\ failed'[k] = {}
      BY <1>4, <2>3 DEF NonceStore
    <3>4. HeldOf(k)'[c] = nonce[c]
      BY <1>4, <2>3, <3>1 DEF NonceStore, HeldOf, Holding
    <3>5. \A d \in Callers \ {c} : HeldOf(k)'[d] = HeldOf(k)[d]
      BY <1>4, <2>3, <3>1 DEF NonceStore, HeldOf, Holding
    <3>6. HeldOf(k)' = [HeldOf(k) EXCEPT ![c] = nonce[c]]
      BY <3>4, <3>5, HeldExcept
    <3>7. Desk(k)!Open(c, nonce[c])
      BY <2>0, <2>2, <2>3, <3>1, <3>2, <3>3, <3>6 DEF Desk!Open
    <3>8. nonce[c] \in 0 .. mined[k]
      BY <2>0, <2>3
    <3> QED
      BY <3>7, <3>8 DEF Desk!Next
  <2>4. CASE k = key[c] /\ k \in dropped
    <3>1. StateOf(k)' = StateOf(k) /\ ~HasDesk(k) /\ HasDesk(k)' = HasDesk(k)
      BY <2>2, <2>4 DEF StateOf, HasDesk
    <3>2. HeldOf(k)' = HeldOf(k)
      BY <2>2, <2>4 DEF HeldOf
    <3>3. Same
      BY <2>2, <3>1, <3>2, DeskUnchanged
    <3> QED
      BY <3>3
  <2>5. CASE k # key[c] /\ k \in cached \ cached' /\ k \notin dropped
    <3>1. StateOf(k) = "open" /\ StateOf(k)' = "lost" /\ ~HasDesk(k)'
      BY <2>2, <2>5 DEF StateOf, HasDesk
    <3>2. HeldOf(k)' = [d \in Callers |-> -1]
      BY <2>2, <2>5 DEF HeldOf
    <3>3. Desk(k)!Lose
      BY <2>2, <3>1, <3>2
      DEF Desk!Lose, Desk!Empty, Desk!NobodyHolds, Desk!Nothing
    <3> QED
      BY <3>3 DEF Desk!Next
  <2>6. CASE k # key[c] /\ ~(k \in cached \ cached' /\ k \notin dropped)
    <3>1. (k \in dropped') = (k \in dropped) /\ (k \notin dropped => (k \in cached') = (k \in cached))
      BY <2>1, <2>2, <2>6
    <3>2. StateOf(k)' = StateOf(k) /\ HasDesk(k)' = HasDesk(k)
      BY <3>1 DEF StateOf, HasDesk
    <3>3. HeldOf(k)' = HeldOf(k)
      BY <1>4, <2>6, <3>1 DEF NonceStore, HeldOf, Holding
    <3>4. HasDesk(k) => next'[k] = next[k] /\ failed'[k] = failed[k]
      BY <1>4, <2>6, <3>1 DEF NonceStore, HasDesk
    <3>5. Same
      BY <2>2, <3>2, <3>3, <3>4, DeskUnchanged
    <3> QED
      BY <3>5
  <2> QED
    BY <2>3, <2>4, <2>5, <2>6
<1>5. ASSUME NEW c \in Callers, SinedTx(c) \/ SendTxRefused(c) \/ SendTxReplyLost(c)
      PROVE  Same
  BY <1>5, DeskUnchanged
  DEF SinedTx, SendTxRefused, SendTxReplyLost, StateOf, HeldOf, HasDesk, Holding
<1>6. ASSUME NEW c \in Callers, SinedTxFails(c) \/ SendTx(c) PROVE Goal
  <2> USE <1>6 DEF SinedTxFails, SendTx
  <2>1. /\ StateOf(k)' = StateOf(k) /\ HasDesk(k)' = HasDesk(k)
        /\ next'[k] = next[k] /\ failed'[k] = failed[k] /\ mined'[k] = mined[k]
    BY DEF StateOf, HasDesk
  <2>2. CASE key[c] = k /\ k \notin dropped
    <3>1. HeldOf(k)[c] # -1 /\ HeldOf(k)'[c] = -1
      BY <2>2 DEF HeldOf, Holding
    <3>2. \A d \in Callers \ {c} : HeldOf(k)'[d] = HeldOf(k)[d]
      BY DEF HeldOf, Holding
    <3>3. HeldOf(k)' = [HeldOf(k) EXCEPT ![c] = -1]
      BY <3>1, <3>2, HeldExcept
    <3>4. Desk(k)!Use(c)
      BY <2>1, <3>1, <3>3 DEF Desk!Use, Desk!Nothing
    <3> QED
      BY <3>4 DEF Desk!Next
  <2>3. CASE ~(key[c] = k /\ k \notin dropped)
    <3>1. HeldOf(k)' = HeldOf(k)
      BY <2>3 DEF HeldOf, Holding
    <3>2. Same
      BY <2>1, <3>1, DeskUnchanged
    <3> QED
      BY <3>2
  <2> QED
    BY <2>2, <2>3
<1>7. ASSUME NEW c \in Callers, AddFailedNonce(c) PROVE Goal
  <2> USE <1>7 DEF AddFailedNonce
  <2>1. StateOf(k)' = StateOf(k) /\ HasDesk(k)' = HasDesk(k) /\ mined'[k] = mined[k]
    BY DEF StateOf, HasDesk
  <2>2. CASE key[c] = k /\ k \notin dropped
    <3>1. HasDesk(k) /\ HasDesk(k)'
      BY <2>1, <2>2 DEF HasDesk, IInv, GiveBackPossible, Holding
    <3>2. HeldOf(k)[c] = nonce[c] /\ HeldOf(k)'[c] = -1
      BY <2>2 DEF HeldOf, Holding
    <3>3. \A d \in Callers \ {c} : HeldOf(k)'[d] = HeldOf(k)[d]
      BY DEF HeldOf, Holding
    <3>4. HeldOf(k)' = [HeldOf(k) EXCEPT ![c] = -1]
      BY <3>2, <3>3, HeldExcept
    <3>5. failed'[k] = failed[k] \cup {nonce[c]} /\ next'[k] = next[k]
      BY <2>2, <3>1 DEF HasDesk
    <3>6. nonce[c] # -1
      OBVIOUS
    <3>7. Desk(k)!GiveBack(c)
      BY <2>1, <3>1, <3>2, <3>4, <3>5, <3>6 DEF Desk!GiveBack, Desk!Nothing
    <3> QED
      BY <3>7 DEF Desk!Next
  <2>3. CASE ~(key[c] = k /\ k \notin dropped)
    <3>1. HeldOf(k)' = HeldOf(k)
      BY <2>3 DEF HeldOf, Holding
    <3>2. HasDesk(k) => next'[k] = next[k] /\ failed'[k] = failed[k]
      BY <2>3 DEF HasDesk
    <3>3. Same
      BY <2>1, <3>1, <3>2, DeskUnchanged
    <3> QED
      BY <3>3
  <2> QED
    BY <2>2, <2>3
<1>8. ASSUME NEW j \in Keys, Mine(j) PROVE Goal
  <2>1. /\ StateOf(k)' = StateOf(k) /\ HasDesk(k)' = HasDesk(k)
        /\ HeldOf(k)' = HeldOf(k)
        /\ next'[k] = next[k] /\ failed'[k] = failed[k]
    BY <1>8 DEF Mine, StateOf, HasDesk, HeldOf, Holding
  <2>2. CASE j = k
    <3>1. mined'[k] = mined[k] + 1
      BY <1>8, <2>2 DEF Mine
    <3>2. Desk(k)!Mine
      BY <2>1, <3>1 DEF Desk!Mine
    <3> QED
      BY <3>2 DEF Desk!Next
  <2>3. CASE j # k
    <3>1. mined'[k] = mined[k]
      BY <1>8, <2>3 DEF Mine
    <3>2. Same
      BY <2>1, <3>1, DeskUnchanged
    <3> QED
      BY <3>2
  <2> QED
    BY <2>2, <2>3
<1>9. CASE NewClient
  <2>1. StateOf(k)' = "none" /\ ~HasDesk(k)' /\ mined'[k] = mined[k]
    BY <1>9 DEF NewClient, StateOf, HasDesk
  <2>2. HeldOf(k)' = [c \in Callers |-> -1]
    BY <1>9 DEF NewClient, HeldOf, Holding
  <2>3. Desk(k)!Restart
    BY <2>1, <2>2 DEF Desk!Restart, Desk!Empty, Desk!NobodyHolds, Desk!Nothing
  <2> QED
    BY <2>3 DEF Desk!Next
<1>10. CASE UNCHANGED vars
  BY <1>10, DeskUnchanged DEF vars, StateOf, HeldOf, HasDesk, Holding
<1> QED
  BY <1>1, <1>2, <1>3, <1>4, <1>5, <1>6, <1>7, <1>8, <1>9, <1>10
  DEF Next, LockStep, FreeStep

LEMMA DeskInit ==
  ASSUME NEW k \in Keys, Init
  PROVE  Desk(k)!Init
<1>1. StateOf(k) = "none" /\ ~HasDesk(k) /\ mined[k] = 0
  BY DEF Init, StateOf, HasDesk
<1>2. HeldOf(k) = [c \in Callers |-> -1]
  BY DEF Init, HeldOf, Holding
<1> QED
  BY <1>1, <1>2 DEF Desk!Init, Desk!Empty, Desk!NobodyHolds, Desk!Nothing

(* Every behaviour of the cache is one of a desk for each key, until the    *)
(* map drops the key's entry: looking up a new key under the mutex is as    *)
(* good as one step, and no number is handed out but in turn or after it    *)
(* came back.                                                               *)
THEOREM ImplementsDesk == Spec => DeskSpec
<1> DEFINE Begin == \A k \in Keys : Desk(k)!Init
           Step == \A k \in Keys : [Desk(k)!Next]_(Desk(k)!vars)
<1>1. Init => Begin
  BY DeskInit
<1>2. GapInv /\ GapInv' /\ [Next]_vars => Step
  BY DeskNext
<1>3. Step => [Step]_vars
  OBVIOUS
<1> QED
  BY <1>1, <1>2, <1>3, GapInvariant, PTL DEF Spec, DeskSpec
=============================================================================
