------------------------------ MODULE NonceCash ------------------------------
(***************************************************************************)
(* The nonce cache of the client (client/cache.go, NonceCash) together     *)
(* with the calls that draw nonces from it (AsyncSend, and SyncSend up to  *)
(* the point where its transaction is handed over) and the node that       *)
(* accepts and mines the transactions.                                     *)
(*                                                                         *)
(* One caller is one goroutine inside AsyncSend or SyncSend.  The cache    *)
(* mutex is held across the NewNonce round trip (cache.go:94-110), so a    *)
(* lookup that misses is three steps: take the lock, read the account      *)
(* nonce from the node, store the counter.  The counter object itself      *)
(* (nonce-incrementor) and the LRU map (go-cache) are external; they are   *)
(* modelled from the way cache.go uses them: Assign hands out a nonce      *)
(* that was given back by AddFailedNonce before it draws a new one, and    *)
(* Add on a full map drops some other entry.                               *)
(***************************************************************************)
EXTENDS Integers, FiniteSets

CONSTANTS
  Callers,      (* goroutines that call AsyncSend or SyncSend               *)
  Keys,         (* private keys, one account each                           *)
  NoCaller,     (* the value of lock when the mutex is free                 *)
  Capacity,     (* size of the LRU map (1024 in NewClient)                  *)
  Faults,       (* which calls may fail: see FaultKinds                     *)
  MaxCalls,     (* bound of the model: calls started by one process         *)
  MaxRestarts   (* bound of the model: restarts of the client process       *)

(***************************************************************************)
(* "sign":   a step of sinedTx after the nonce was drawn fails             *)
(*           (eip1559 probe, tip, base fee or gas estimation);             *)
(* "refuse": the node turns a transaction down for a reason other than     *)
(*           its nonce (intrinsic gas, balance, unreachable node);         *)
(* "reply":  the node takes the transaction but the caller gets an error   *)
(*           (deadline of the context, or the confirmer cannot queue it).  *)
(***************************************************************************)
FaultKinds == {"sign", "refuse", "reply"}

ASSUME CallersAssumption == NoCaller \notin Callers
ASSUME KeysAssumption == IsFiniteSet(Keys)
ASSUME CapacityAssumption == Capacity \in Nat \ {0}
ASSUME FaultsAssumption == Faults \subseteq FaultKinds
ASSUME BoundsAssumption == MaxCalls \in Nat /\ MaxRestarts \in Nat

VARIABLES
  lock,      (* NonceCash.Mutex: the caller that holds it across a round trip *)
  cached,    (* the keys that have an entry in NonceCash.nonces             *)
  next,      (* next[k]: the next new nonce of k's entry                    *)
  failed,    (* failed[k]: the nonces given back to k's entry               *)
  pc,        (* where each caller is                                        *)
  key,       (* the private key of the caller's call                        *)
  nonce,     (* the nonce the caller read or was assigned                   *)
  mined,     (* mined[k]: the account nonce at the latest block             *)
  pool,      (* pool[k]: nonces of the accepted, not yet mined transactions *)
  forgotten, (* forgotten[k]: nonces drawn by a sinedTx that failed (history) *)
  dropped,   (* keys whose entry the map dropped for another one (history)  *)
  stale,     (* keys for which the node has a transaction that their entry  *)
             (* does not know of (history)                                  *)
  calls,     (* calls started so far                                        *)
  restarts   (* restarts so far                                             *)

cacheVars == <<lock, cached, next, failed>>
nodeVars == <<mined, pool>>
historyVars == <<forgotten, dropped, stale>>
ghostVars == <<historyVars, calls, restarts>>
vars == <<lock, cached, next, failed, pc, key, nonce, mined, pool,
          forgotten, dropped, stale, calls, restarts>>

Phases == {"idle", "want", "dial", "store", "sign", "send", "giveback"}

TypeOK ==
  /\ lock \in Callers \cup {NoCaller}
  /\ cached \subseteq Keys
  /\ next \in [Keys -> Nat]
  /\ failed \in [Keys -> SUBSET Nat]
  /\ pc \in [Callers -> Phases]
  /\ key \in [Callers -> Keys]
  /\ nonce \in [Callers -> Nat]
  /\ mined \in [Keys -> Nat]
  /\ pool \in [Keys -> SUBSET Nat]
  /\ forgotten \in [Keys -> SUBSET Nat]
  /\ dropped \subseteq Keys
  /\ stale \subseteq Keys
  /\ calls \in Nat
  /\ restarts \in Nat

Init ==
  /\ lock = NoCaller
  /\ cached = {}
  /\ next = [k \in Keys |-> 0]
  /\ failed = [k \in Keys |-> {}]
  /\ pc = [c \in Callers |-> "idle"]
  /\ key \in [Callers -> Keys]
  /\ nonce = [c \in Callers |-> 0]
  /\ mined = [k \in Keys |-> 0]
  /\ pool = [k \in Keys |-> {}]
  /\ forgotten = [k \in Keys |-> {}]
  /\ dropped = {}
  /\ stale = {}
  /\ calls = 0
  /\ restarts = 0

Goto(c, phase) == pc' = [pc EXCEPT ![c] = phase]

-----------------------------------------------------------------------------
(* The calls.                                                               *)

(* A call of AsyncSend or SyncSend with key k reaches nonceCash.Nonce.      *)
AsyncSend(c, k) ==
  /\ pc[c] = "idle"
  /\ calls < MaxCalls
  /\ calls' = calls + 1
  /\ key' = [key EXCEPT ![c] = k]
  /\ Goto(c, "want")
  /\ UNCHANGED <<cacheVars, nodeVars, nonce, historyVars, restarts>>

(* nonce.Assign on k's entry: a nonce given back goes first.  That it may   *)
(* return an error (cache.go:99, 110) is left out: a call that gets one has *)
(* drawn no nonce and ends there.                                           *)
Assign(c, k, n) ==
  /\ IF failed[k] = {} THEN n = next[k] ELSE n \in failed[k]
  /\ next' = [next EXCEPT ![k] = IF failed[k] = {} THEN @ + 1 ELSE @]
  /\ failed' = [failed EXCEPT ![k] = @ \ {n}]
  /\ nonce' = [nonce EXCEPT ![c] = n]

(* cache.go:94-100: the key has an entry.                                   *)
NonceHit(c) ==
  /\ pc[c] = "want"
  /\ lock = NoCaller
  /\ key[c] \in cached
  /\ \E n \in failed[key[c]] \cup {next[key[c]]} : Assign(c, key[c], n)
  /\ Goto(c, "sign")
  /\ UNCHANGED <<lock, cached, key, nodeVars, ghostVars>>

(* Faulty variant: the mutex is released before the round trip.             *)
NonceMissUnlocked(c) ==
  /\ pc[c] = "want"
  /\ lock = NoCaller
  /\ key[c] \notin cached
  /\ Goto(c, "dial")
  /\ UNCHANGED <<cacheVars, key, nonce, nodeVars, ghostVars>>

(* cache.go:94-97, 102: no entry; the lock stays taken while NewNonce asks  *)
(* the node.                                                                *)
NonceMiss(c) ==
  /\ pc[c] = "want"
  /\ lock = NoCaller
  /\ key[c] \notin cached
  /\ lock' = c
  /\ Goto(c, "dial")
  /\ UNCHANGED <<cached, next, failed, key, nonce, nodeVars, ghostVars>>

(* Faulty variant: the nonce of the last transaction, not of the next one.  *)
ClientNonceOffByOne(c) ==
  /\ pc[c] = "dial"
  /\ nonce' = [nonce EXCEPT ![c] = mined[key[c]] - 1]
  /\ Goto(c, "store")
  /\ UNCHANGED <<cacheVars, key, nodeVars, ghostVars>>

(* Client.Nonce: the account nonce at the latest block, pending             *)
(* transactions not counted.                                                *)
ClientNonce(c) ==
  /\ pc[c] = "dial"
  /\ nonce' = [nonce EXCEPT ![c] = mined[key[c]]]
  /\ Goto(c, "store")
  /\ UNCHANGED <<cacheVars, key, nodeVars, ghostVars>>

(* Faulty variant: the error return forgets the mutex.                      *)
NewNonceFailsLocked(c) ==
  /\ pc[c] = "dial"
  /\ Goto(c, "idle")
  /\ UNCHANGED <<cacheVars, key, nonce, nodeVars, ghostVars>>

(* cache.go:104-106: NewNonce failed, nothing is cached.                    *)
NewNonceFails(c) ==
  /\ pc[c] = "dial"
  /\ lock' = NoCaller
  /\ Goto(c, "idle")
  /\ UNCHANGED <<cached, next, failed, key, nonce, nodeVars, ghostVars>>

(* Faulty variant: a full map takes no new entry.                           *)
CacheAfterAddFull(k) ==
  IF Cardinality(cached) < Capacity THEN {cached \cup {k}} ELSE {cached}

(* lru Add: on a full map some other entry, with its counter and the        *)
(* nonces given back to it, is dropped.                                     *)
CacheAfterAdd(k) ==
  IF Cardinality(cached) < Capacity
  THEN {cached \cup {k}}
  ELSE {(cached \ {victim}) \cup {k} : victim \in cached}

(* Faulty variant: the new counter is drawn from and never stored.          *)
NonceStoreDropped(c) ==
  /\ pc[c] = "store"
  /\ lock' = NoCaller
  /\ Goto(c, "sign")
  /\ UNCHANGED <<cached, next, failed, key, nonce, nodeVars, ghostVars>>

(* cache.go:108-110: store the new counter, draw its first nonce, unlock.   *)
(* The counter is stale from the start if the account nonce it begins with  *)
(* left out transactions that were pending when it was read.                *)
NonceStore(c) ==
  /\ pc[c] = "store"
  /\ cached' \in CacheAfterAdd(key[c])
  /\ next' = [k \in Keys |-> IF k = key[c] THEN nonce[c] + 1
                             ELSE IF k \in cached' THEN next[k] ELSE 0]
  /\ failed' = [k \in Keys |-> IF k = key[c] \/ k \notin cached' THEN {}
                               ELSE failed[k]]
  /\ lock' = NoCaller
  /\ Goto(c, "sign")
  /\ dropped' = dropped \cup (cached \ cached')
  /\ stale' = IF nonce[c] = mined[key[c]] /\ pool[key[c]] = {} THEN stale
              ELSE stale \cup {key[c]}
  /\ UNCHANGED <<key, nonce, nodeVars, forgotten, calls, restarts>>

(* Faulty variant: the transaction is signed with the nonce after the one   *)
(* the cache assigned.                                                      *)
SinedTxOffByOne(c) ==
  /\ pc[c] = "sign"
  /\ nonce' = [nonce EXCEPT ![c] = @ + 1]
  /\ Goto(c, "send")
  /\ UNCHANGED <<cacheVars, key, nodeVars, ghostVars>>

(* The rest of sinedTx succeeds.                                            *)
SinedTx(c) ==
  /\ pc[c] = "sign"
  /\ Goto(c, "send")
  /\ UNCHANGED <<cacheVars, key, nonce, nodeVars, ghostVars>>

(* A later step of sinedTx fails: it returns nonce 0 and an error, and the  *)
(* caller returns without AddFailedNonce (client.go:142-145, 159-163).      *)
SinedTxFails(c) ==
  /\ "sign" \in Faults
  /\ pc[c] = "sign"
  /\ forgotten' = [forgotten EXCEPT ![key[c]] = @ \cup {nonce[c]}]
  /\ Goto(c, "idle")
  /\ UNCHANGED <<cacheVars, key, nonce, nodeVars, dropped, stale, calls, restarts>>

(* The node's rule for nonces: not used by a mined or a pending             *)
(* transaction of the account.                                              *)
Acceptable(k, n) == n >= mined[k] /\ n \notin pool[k]

(* Faulty variant: the nonce is given back without looking at the error.    *)
SendTxGivesBack(c) ==
  /\ pc[c] = "send"
  /\ Acceptable(key[c], nonce[c])
  /\ pool' = [pool EXCEPT ![key[c]] = @ \cup {nonce[c]}]
  /\ Goto(c, "giveback")
  /\ UNCHANGED <<cacheVars, key, nonce, mined, ghostVars>>

(* SendTransaction succeeds and so does the call.                           *)
SendTx(c) ==
  /\ pc[c] = "send"
  /\ Acceptable(key[c], nonce[c])
  /\ pool' = [pool EXCEPT ![key[c]] = @ \cup {nonce[c]}]
  /\ Goto(c, "idle")
  /\ UNCHANGED <<cacheVars, key, nonce, mined, ghostVars>>

(* The node refuses the transaction.                                        *)
SendTxRefused(c) ==
  /\ pc[c] = "send"
  /\ "refuse" \in Faults \/ ~Acceptable(key[c], nonce[c])
  /\ Goto(c, "giveback")
  /\ UNCHANGED <<cacheVars, key, nonce, nodeVars, ghostVars>>

(* The node takes the transaction and the caller sees an error.             *)
SendTxReplyLost(c) ==
  /\ "reply" \in Faults
  /\ pc[c] = "send"
  /\ Acceptable(key[c], nonce[c])
  /\ pool' = [pool EXCEPT ![key[c]] = @ \cup {nonce[c]}]
  /\ stale' = stale \cup {key[c]}
  /\ Goto(c, "giveback")
  /\ UNCHANGED <<cacheVars, key, nonce, mined, forgotten, dropped, calls, restarts>>

(* Faulty variant: a nonce given back replaces the ones that already wait.  *)
AddFailedNonceOne(c) ==
  /\ pc[c] = "giveback"
  /\ lock = NoCaller
  /\ failed' = IF key[c] \in cached
               THEN [failed EXCEPT ![key[c]] = {nonce[c]}]
               ELSE failed
  /\ Goto(c, "idle")
  /\ UNCHANGED <<lock, cached, next, key, nonce, nodeVars, ghostVars>>

(* Faulty variant: the counter is set back to the nonce.                    *)
AddFailedNonceRollsBack(c) ==
  /\ pc[c] = "giveback"
  /\ lock = NoCaller
  /\ next' = IF key[c] \in cached THEN [next EXCEPT ![key[c]] = nonce[c]] ELSE next
  /\ Goto(c, "idle")
  /\ UNCHANGED <<lock, cached, failed, key, nonce, nodeVars, ghostVars>>

(* cache.go:125-135: the nonce goes back to the entry its key has now; with *)
(* no entry the nonce is dropped and the error ignored (client.go:149).     *)
AddFailedNonce(c) ==
  /\ pc[c] = "giveback"
  /\ lock = NoCaller
  /\ failed' = IF key[c] \in cached
               THEN [failed EXCEPT ![key[c]] = @ \cup {nonce[c]}]
               ELSE failed
  /\ Goto(c, "idle")
  /\ UNCHANGED <<lock, cached, next, key, nonce, nodeVars, ghostVars>>

-----------------------------------------------------------------------------
(* The node and the process.                                                *)

(* The node mines the next transaction of the account.                      *)
Mine(k) ==
  /\ mined[k] \in pool[k]
  /\ mined' = [mined EXCEPT ![k] = @ + 1]
  /\ pool' = [pool EXCEPT ![k] = @ \ {mined[k]}]
  /\ UNCHANGED <<cacheVars, pc, key, nonce, ghostVars>>

(* The process dies and NewClient starts over with an empty cache; what the *)
(* node accepted stays.                                                     *)
NewClient ==
  /\ restarts < MaxRestarts
  /\ restarts' = restarts + 1
  /\ lock' = NoCaller
  /\ cached' = {}
  /\ next' = [k \in Keys |-> 0]
  /\ failed' = [k \in Keys |-> {}]
  /\ forgotten' = [k \in Keys |-> {}]
  /\ dropped' = {}
  /\ stale' = {}
  /\ pc' = [c \in Callers |-> "idle"]
  /\ UNCHANGED <<key, nonce, nodeVars, calls>>

-----------------------------------------------------------------------------
(* Steps that take the mutex, and steps that do not wait for it.            *)
LockStep(c) == NonceHit(c) \/ NonceMiss(c) \/ AddFailedNonce(c)

FreeStep(c) ==
  \/ ClientNonce(c) \/ NewNonceFails(c) \/ NonceStore(c)
  \/ SinedTx(c) \/ SinedTxFails(c)
  \/ SendTx(c) \/ SendTxRefused(c) \/ SendTxReplyLost(c)

Next ==
  \/ \E c \in Callers, k \in Keys : AsyncSend(c, k)
  \/ \E c \in Callers : LockStep(c) \/ FreeStep(c)
  \/ \E k \in Keys : Mine(k)
  \/ NewClient

Spec == Init /\ [][Next]_vars

(***************************************************************************)
(* A waiting goroutine gets the mutex in the end (sync.Mutex hands it over *)
(* to a starved waiter), a goroutine that can run does, the context        *)
(* deadline ends every round trip, and the node mines what is executable.  *)
(* Nothing obliges anyone to start a call.                                 *)
(***************************************************************************)
Fairness ==
  /\ \A c \in Callers : SF_vars(LockStep(c)) /\ WF_vars(FreeStep(c))
  /\ \A k \in Keys : WF_vars(Mine(k))

FairSpec == Spec /\ Fairness

-----------------------------------------------------------------------------
(* Properties.                                                              *)

Holding(c) == pc[c] \in {"sign", "send", "giveback"}

(***************************************************************************)
(* No two callers hold the same nonce of the same key, and a nonce that a  *)
(* caller holds is not waiting to be handed out again: the cache gives     *)
(* each nonce one owner at a time, whatever the interleaving of lookups,   *)
(* creations under the lock, give-backs and restarts.  An eviction takes   *)
(* this from the key whose entry was dropped, and from no other.           *)
(***************************************************************************)
SingleOwner ==
  \A c \in Callers : Holding(c) /\ key[c] \notin dropped =>
    /\ nonce[c] \notin failed[key[c]]
    /\ \A d \in Callers \ {c} :
         Holding(d) /\ key[d] = key[c] => nonce[d] # nonce[c]

(***************************************************************************)
(* A caller that holds a nonce finds its key in the cache, with a counter  *)
(* beyond that nonce, when it gives the nonce back: the error that         *)
(* client.go:149 and client.go:168 ignore discards a nonce only of a key   *)
(* whose entry was dropped.                                                *)
(***************************************************************************)
GiveBackPossible ==
  \A c \in Callers : Holding(c) /\ key[c] \notin dropped =>
    key[c] \in cached /\ nonce[c] < next[key[c]]

(***************************************************************************)
(* Every nonce between the account nonce and the cache's counter is        *)
(* pending at the node, held by a caller that will still send it or give   *)
(* it back, waiting to be handed out again, or was drawn by a call whose   *)
(* sinedTx failed afterwards.  A nonce outside the first three is a gap    *)
(* nobody will fill, behind which every later transaction waits; the       *)
(* failing sinedTx is the only way to such a gap, for a key whose entry    *)
(* was not dropped.                                                        *)
(***************************************************************************)
Accounted(k, n) ==
  \/ n \in pool[k]
  \/ n \in failed[k]
  \/ n \in forgotten[k]
  \/ \E c \in Callers : Holding(c) /\ key[c] = k /\ nonce[c] = n

NoGap ==
  \A k \in cached \ dropped :
    \A n \in mined[k] .. (next[k] - 1) : Accounted(k, n)

(***************************************************************************)
(* An accepted transaction waits at the node for a reason the cache knows: *)
(* the nonce the account is at is pending too, so that the node can go on, *)
(* or held, or waiting to be handed out, or was drawn by a call whose      *)
(* sinedTx failed.  The key's entry must not have been dropped, nor the    *)
(* node have a transaction the entry does not know of.                     *)
(***************************************************************************)
HeldUpHasReason ==
  \A k \in cached \ (dropped \cup stale) : pool[k] # {} => Accounted(k, mined[k])

(***************************************************************************)
(* The client makes the node refuse its own transaction for its nonce in   *)
(* three cases only: the key's entry was dropped, its counter began while  *)
(* transactions of an earlier one were pending, or the node took a         *)
(* transaction whose call saw an error.  For all other keys, a nonce that  *)
(* is held or will be handed out again is not mined and not pending.       *)
(***************************************************************************)
NoSelfConflict ==
  \A k \in Keys \ (dropped \cup stale) :
    /\ \A c \in Callers :
         pc[c] \in {"sign", "send"} /\ key[c] = k => Acceptable(k, nonce[c])
    /\ k \in cached => \A n \in failed[k] : Acceptable(k, n)

(***************************************************************************)
(* While the keys fit the map, no reply is lost and the process does not   *)
(* restart, the counters know of all the node has: no caller reads an      *)
(* account nonce while transactions of the key are pending.                *)
(***************************************************************************)
CountersCurrent == dropped = {} /\ stale = {}

(***************************************************************************)
(* Every call comes back: nobody waits for the mutex forever although it   *)
(* is held across a round trip to the node.                                *)
(***************************************************************************)
CallsReturn == \A c \in Callers : pc[c] # "idle" ~> pc[c] = "idle"

(***************************************************************************)
(* client_test.go:141-143, 163: a send that the node accepted is mined     *)
(* although sends of the same key beside it are refused.                   *)
(***************************************************************************)
Mined(k, n) == n \in pool[k] ~> mined[k] > n

AcceptedIsMined == \A k \in Keys, n \in 0 .. MaxCalls : Mined(k, n)

(***************************************************************************)
(* The one thing that holds up an accepted transaction for ever is a nonce *)
(* that was given back and that no later call takes.                       *)
(***************************************************************************)
HeldUpByReturned ==
  \A k \in Keys, n \in 0 .. MaxCalls : Mined(k, n) \/ <>[](failed[k] # {})

(***************************************************************************)
(* The cache is a desk for each key.  A lookup that misses, which takes    *)
(* three steps and a round trip under the mutex, opens the desk in one; no *)
(* other caller sees a part of it.  The desk of a key is lost when the map *)
(* drops its entry, and that leaves the desks of the other keys alone.     *)
(***************************************************************************)
HasDesk(k) == k \in cached /\ k \notin dropped

StateOf(k) ==
  IF k \in dropped THEN "lost" ELSE IF k \in cached THEN "open" ELSE "none"

HeldOf(k) ==
  [c \in Callers |-> IF k \notin dropped /\ Holding(c) /\ key[c] = k
                     THEN nonce[c] ELSE -1]

Desk(k) == INSTANCE NonceDesk WITH
  state <- StateOf(k),
  next <- IF HasDesk(k) THEN next[k] ELSE 0,
  back <- IF HasDesk(k) THEN failed[k] ELSE {},
  held <- HeldOf(k),
  account <- mined[k]

(* Desk(k)!Spec for every key, with the keys' steps under one box.          *)
DeskSpec ==
  /\ \A k \in Keys : Desk(k)!Init
  /\ [][\A k \in Keys : [Desk(k)!Next]_(Desk(k)!vars)]_vars
=============================================================================
