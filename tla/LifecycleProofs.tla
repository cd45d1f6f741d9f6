---------------------------- MODULE LifecycleProofs ----------------------------
(***************************************************************************)
(* Proofs about Lifecycle for any number of clients and calls, any options *)
(* and any width of a duration.                                            *)
(*                                                                         *)
(* What a call reads is what some client published, so the argument is     *)
(* about the package variables: once a field was published its value is    *)
(* positive or some client has an unsound option (Positive), and as long   *)
(* as no two constructions overlapped the variables are those of the       *)
(* latest client, up to the one that is publishing (InTurn).  Of Start and *)
(* Stop it is enough to know that Client.cancel belongs to the last Start  *)
(* (TurnsInv).                                                             *)
(***************************************************************************)
EXTENDS Lifecycle, SequenceTheorems, TLAPS

Later == {"syncSendTimeout", "syncSendConfirmInterval"}

(* The fields a client in phase p has published.                            *)
Published(p) ==
  {f \in Fields :
     \/ p = "built"
     \/ p = "syncSendTimeout" /\ f = "timeout"
     \/ p = "syncSendConfirmInterval" /\ f # "syncSendConfirmInterval"}

Unsound(f) == \E c \in Clients : ~Sound(f, options[c][f])

(* A client that is not built has the defaults; only the interval may be    *)
(* zero or negative.                                                        *)
Accepted ==
  \A c \in Clients :
    /\ phase[c] = "absent" => options[c] = Defaults
    /\ \A f \in Fields \ {"syncSendConfirmInterval"} : options[c][f] > 0

Positive ==
  \A c \in Clients : \A f \in Published(phase[c]) : global[f] > 0 \/ Unsound(f)

ReadPositive ==
  \A k \in Calls : \A f \in Known(k) \ {"syncSendConfirmInterval"} :
    used[k][f] > 0 \/ Unsound(f)

(* A call runs only when a client was built.                                *)
LatestBuilt ==
  /\ latest \in Clients => phase[latest] = "built"
  /\ \A c \in Clients : phase[c] = "built" => latest \in Clients
  /\ \A k \in Calls : pc[k] # "idle" \/ quiet[k] => latest \in Clients

InTurn ==
  ~overlapped =>
    /\ \A c \in Clients : phase[c] \in Later =>
         \A f \in Published(phase[c]) : global[f] = Duration(f, options[c][f])
    /\ latest \in Clients /\ (\A c \in Clients : phase[c] \notin Later) =>
         \A f \in Fields : global[f] = Duration(f, options[latest][f])

QuietReads ==
  \A k \in Calls : quiet[k] =>
    \A f \in Fields :
      /\ global[f] = Duration(f, options[latest][f])
      /\ f \in Known(k) => used[k][f] = Duration(f, options[latest][f])

Panicked ==
  panic = "ticker" => Unsound("syncSendConfirmInterval")

TurnsInv ==
  \A c \in Clients :
    /\ cancel[c] \in 0 .. Len(turns[c])
    /\ cancel[c] # 0 => turns[c][cancel[c]] = "start"
    /\ \A n \in (cancel[c] + 1) .. Len(turns[c]) : turns[c][n] = "stop"
    /\ live[c] = Unreached(c)
    /\ closed[c] => \E n \in 1 .. Len(turns[c]) : turns[c][n] = "stop"

IInv ==
  /\ TypeOK /\ Accepted /\ Positive /\ ReadPositive /\ LatestBuilt /\ InTurn
  /\ QuietReads /\ Panicked /\ TurnsInv

-----------------------------------------------------------------------------
LEMMA Products ==
  ASSUME NEW v \in Int, NEW u \in Nat \ {0}
  PROVE  v * u \in Int /\ (v > 0 => v * u > 0)
OBVIOUS

LEMMA Remainder ==
  ASSUME NEW x \in Int, NEW m \in Nat \ {0}
  PROVE  /\ x % m \in 0 .. (m - 1)
         /\ x \in 0 .. (m - 1) => x % m = x
OBVIOUS

(* The product of a value and a unit, cut to the width of a duration.       *)
LEMMA DurationOf ==
  ASSUME NEW f \in Fields, NEW v \in Int
  PROVE  /\ Duration(f, v) \in Durations
         /\ Sound(f, v) => Duration(f, v) > 0
<1> DEFINE x == v * Unit[f] + Limit
           m == 2 * Limit
<1>1. Unit[f] \in Nat \ {0} /\ Limit \in Nat \ {0}
  BY UnitAssumption
<1>2. v * Unit[f] \in Int /\ (v > 0 => v * Unit[f] > 0)
  BY <1>1, Products
<1>3. x \in Int /\ m \in Nat \ {0}
  BY <1>1, <1>2
<1>4. Duration(f, v) = (x % m) - Limit
  BY DEF Duration
<1> HIDE DEF x, m
<1>5. x % m \in 0 .. (m - 1) /\ (x \in 0 .. (m - 1) => x % m = x)
  BY <1>3, Remainder
<1>6. Duration(f, v) \in Durations
  BY <1>1, <1>4, <1>5 DEF Durations, m
<1>7. ASSUME Sound(f, v)
      PROVE  Duration(f, v) > 0
  <2>1. v * Unit[f] \in 1 .. (Limit - 1)
    BY <1>1, <1>2, <1>7 DEF Sound
  <2>2. x \in 0 .. (m - 1)
    BY <1>1, <2>1 DEF x, m
  <2> QED
    BY <1>1, <1>2, <1>4, <1>5, <2>1, <2>2 DEF x
<1> QED
  BY <1>6, <1>7

(* What a client publishes next is not published yet, and all else remains. *)
LEMMA PublishedNext ==
  ASSUME NEW p \in Fields
  PROVE  /\ After(p) \in {"built"} \cup Later
         /\ Published(After(p)) = Published(p) \cup {p}
BY DEF After, Published, Fields, Later

LEMMA PublishedAtEnds ==
  /\ Published("built") = Fields
  /\ Published("absent") = {} /\ Published("failed") = {}
  /\ Published("timeout") = {}
BY DEF Published, Fields

(* Once some client was built the variables are positive or some option is  *)
(* to blame.                                                                *)
LEMMA BuiltPositive ==
  ASSUME Positive, LatestBuilt, latest \in Clients, NEW f \in Fields
  PROVE  global[f] > 0 \/ Unsound(f)
BY PublishedAtEnds DEF Positive, LatestBuilt

-----------------------------------------------------------------------------
LEMMA InitIInv == Init => IInv
<1> SUFFICES ASSUME Init
             PROVE  IInv
  OBVIOUS
<1> USE DEF Init
<1>1. TypeOK
  <2>1. 0 \in Durations /\ Defaults \in [Fields -> Int]
    BY UnitAssumption, DefaultsAssumption DEF Durations
  <2>2. overlapped \in BOOLEAN /\ quiet \in [Calls -> BOOLEAN]
          /\ closed \in [Clients -> BOOLEAN]
    BY Zenon
  <2>3. turns \in [Clients -> Seq({"start", "stop"})]
    BY EmptySeq
  <2> QED
    BY <2>1, <2>2, <2>3 DEF TypeOK
<1>2. Accepted
  BY DefaultsAssumption DEF Accepted, Sound
<1>3. Positive
  BY PublishedAtEnds DEF Positive
<1>4. ReadPositive /\ QuietReads
  BY DEF ReadPositive, QuietReads, Known
<1>5. LatestBuilt /\ InTurn
  BY ClientsAssumption DEF LatestBuilt, InTurn, Later
<1>6. Panicked /\ TurnsInv
  BY DEF Panicked, TurnsInv, Unreached
<1> QED
  BY <1>1, <1>2, <1>3, <1>4, <1>5, <1>6 DEF IInv

LEMMA AppliedOptions ==
  ASSUME NEW opts \in OptionLists
  PROVE  /\ Apply(opts) \in [Fields -> Int]
         /\ With(opts) =>
              \A f \in Fields \ {"syncSendConfirmInterval"} : Apply(opts)[f] > 0
BY OptionsAssumption, DefaultsAssumption DEF Apply, With, Sound

(* A construction leaves the other clients' options alone, and an unsound   *)
(* option is never taken back.                                              *)
LEMMA NewClientIInv ==
  ASSUME IInv, NEW c \in Clients, NEW opts \in OptionLists, NewClient(c, opts)
  PROVE  IInv'
<1> USE DEF IInv
<1>1. UNCHANGED <<global, latest, overlapped, callVars, workerVars>>
        /\ phase[c] = "absent"
  BY DEF NewClient
<1>2. CASE UNCHANGED <<phase, options>> /\ panic' = "option"
  <2>1. TypeOK' /\ Accepted' /\ Positive' /\ ReadPositive'
    BY <1>1, <1>2 DEF TypeOK, Accepted, Positive, ReadPositive, Known, Unsound,
                      callVars, workerVars
  <2>2. LatestBuilt' /\ InTurn' /\ QuietReads' /\ Panicked' /\ TurnsInv'
    BY <1>1, <1>2 DEF LatestBuilt, InTurn, QuietReads, Known, Panicked,
                      TurnsInv, Unreached, callVars, workerVars
  <2> QED
    BY <2>1, <2>2
<1>3. CASE /\ UNCHANGED panic
           /\ With(opts)
           /\ \/ phase' = [phase EXCEPT ![c] = "failed"] /\ UNCHANGED options
              \/ /\ phase' = [phase EXCEPT ![c] = "timeout"]
                 /\ options' = [options EXCEPT ![c] = Apply(opts)]
  <2>1. /\ phase' \in [Clients -> {"absent", "failed", "built"} \cup Fields]
        /\ options' \in [Clients -> [Fields -> Int]]
        /\ phase'[c] \in {"failed", "timeout"}
        /\ \A d \in Clients \ {c} : phase'[d] = phase[d] /\ options'[d] = options[d]
    BY <1>3, AppliedOptions DEF TypeOK, Fields
  <2>2. TypeOK'
    BY <1>1, <1>3, <2>1 DEF TypeOK, callVars, workerVars
  <2>3. Accepted'
    BY <1>3, <2>1, AppliedOptions DEF Accepted, TypeOK
  <2>4. \A f \in Fields : Unsound(f) => Unsound(f)'
    BY <1>1, <2>1, DefaultsAssumption DEF Unsound, Accepted
  <2>5. Published(phase'[c]) = {}
    BY <2>1, PublishedAtEnds
  <2>6. Positive'
    BY <1>1, <2>1, <2>4, <2>5 DEF Positive, Published
  <2>7. ReadPositive' /\ Panicked'
    BY <1>1, <1>3, <2>4 DEF ReadPositive, Panicked, Known, callVars, Fields
  <2>8. LatestBuilt'
    BY <1>1, <2>1 DEF LatestBuilt, callVars
  <2>9. latest \in Clients => latest # c
    BY <1>1 DEF LatestBuilt
  <2>10. InTurn'
    BY <1>1, <2>1, <2>9 DEF InTurn, Later
  <2>11. QuietReads'
    BY <1>1, <2>1, <2>9 DEF QuietReads, LatestBuilt, Known, callVars
  <2>12. TurnsInv'
    BY <1>1 DEF TurnsInv, Unreached, workerVars
  <2> QED
    BY <2>2, <2>3, <2>6, <2>7, <2>8, <2>10, <2>11, <2>12
<1> QED
  BY <1>2, <1>3 DEF NewClient

LEMMA PublishIInv ==
  ASSUME IInv, NEW c \in Clients, Publish(c)
  PROVE  IInv'
<1> USE DEF IInv
<1> DEFINE p == phase[c]
           value == Duration(p, options[c][p])
<1>1. /\ p \in Fields
      /\ global' = [global EXCEPT ![p] = value]
      /\ phase' = [phase EXCEPT ![c] = After(p)]
      /\ latest' = IF phase'[c] = "built" THEN c ELSE latest
      /\ quiet' = [k \in Calls |-> FALSE]
      /\ UNCHANGED <<options, pc, used, workerVars, panic>>
  BY DEF Publish, TypeOK
<1>2. overlapped' = (overlapped \/ \E d \in Clients \ {c} : phase[d] \in Fields)
  BY DEF Publish
<1>3. /\ value \in Durations
      /\ Sound(p, options[c][p]) => value > 0
  BY <1>1, DurationOf DEF TypeOK
<1>4. /\ phase'[c] = After(p)
      /\ After(p) \in {"built"} \cup Later
      /\ Published(phase'[c]) = Published(p) \cup {p}
      /\ \A d \in Clients \ {c} : phase'[d] = phase[d]
  BY <1>1, PublishedNext DEF TypeOK
<1>5. global'[p] = value /\ \A f \in Fields \ {p} : global'[f] = global[f]
  BY <1>1 DEF TypeOK
<1> HIDE DEF p, value
<1>6. \A f \in Fields : Unsound(f)' <=> Unsound(f)
  BY <1>1 DEF Unsound
<1>7. global'[p] > 0 \/ Unsound(p)
  BY <1>3, <1>5 DEF Unsound, p
<1>8. TypeOK'
  <2>1. quiet' \in [Calls -> BOOLEAN] /\ overlapped' \in BOOLEAN
    BY <1>1, <1>2, Zenon
  <2>2. phase' \in [Clients -> {"absent", "failed", "built"} \cup Fields]
    BY <1>1, <1>4 DEF TypeOK, Later, Fields
  <2>3. global' \in [Fields -> Durations] /\ latest' \in Clients \cup {NoClient}
    BY <1>1, <1>3 DEF TypeOK
  <2> QED
    BY <1>1, <2>1, <2>2, <2>3 DEF TypeOK, workerVars
<1>9. Accepted'
  BY <1>1, <1>4 DEF Accepted, Later
<1>10. Positive'
  <2> SUFFICES ASSUME NEW d \in Clients, NEW f \in Published(phase'[d])
               PROVE  global'[f] > 0 \/ Unsound(f)
    BY <1>6 DEF Positive, Published
  <2>1. f = p \/ f \in Published(phase[d])
    BY <1>4 DEF p
  <2>2. f \in Fields
    BY DEF Published
  <2> QED
    BY <1>5, <1>7, <2>1, <2>2 DEF Positive
<1>11. ReadPositive'
  BY <1>1, <1>6 DEF ReadPositive, Known, Fields
<1>12. LatestBuilt'
  BY <1>1, <1>4 DEF LatestBuilt, Later, Fields, p
<1>13. InTurn'
  <2> SUFFICES ASSUME ~overlapped'
               PROVE  InTurn'
    BY DEF InTurn
  <2>1. ~overlapped /\ \A d \in Clients \ {c} : phase[d] \notin Fields
    BY <1>2
  <2>2. \A f \in Published(p) : global[f] = Duration(f, options[c][f])
    BY <1>1, <2>1, PublishedAtEnds DEF InTurn, Later, Fields, p
  <2>3. \A f \in Published(phase'[c]) : global'[f] = Duration(f, options'[c][f])
    BY <1>1, <1>4, <1>5, <2>2 DEF Published, value
  <2>4. \A d \in Clients \ {c} : phase'[d] \notin Later
    BY <1>4, <2>1 DEF Later, Fields
  <2>5. phase'[c] \notin Later => phase'[c] = "built" /\ latest' = c
    BY <1>1, <1>4
  <2> QED
    BY <2>3, <2>4, <2>5, PublishedAtEnds DEF InTurn
<1>14. QuietReads' /\ Panicked' /\ TurnsInv'
  BY <1>1, <1>6 DEF QuietReads, Panicked, TurnsInv, Unreached, workerVars, Fields
<1> QED
  BY <1>8, <1>9, <1>10, <1>11, <1>12, <1>13, <1>14

(* What a call reads of a field once a client was built.                    *)
LEMMA ReadsSound ==
  ASSUME IInv, latest \in Clients, NEW k \in Calls, NEW f \in Fields
  PROVE  /\ global[f] \in Durations
         /\ global[f] > 0 \/ Unsound(f)
         /\ quiet[k] => global[f] = Duration(f, options[latest][f])
BY BuiltPositive DEF IInv, TypeOK, QuietReads

(* A step of a call that reads at most the next duration.                   *)
LEMMA CallIInv ==
  ASSUME IInv, NEW k \in Calls,
         NEW to \in {"async", "sync", "deadline", "ticker", "poll", "done"},
         UNCHANGED <<clientVars, workerVars>>,
         latest \in Clients,
         pc' = [pc EXCEPT ![k] = to],
         \A j \in Calls \ {k} : used'[j] = used[j] /\ quiet'[j] = quiet[j],
         used' \in [Calls -> [Fields -> Durations]],
         quiet' \in [Calls -> BOOLEAN],
         \A f \in Known(k)' : \/ used'[k][f] = global[f]
                              \/ f \in Known(k) /\ used'[k][f] = used[k][f],
         quiet'[k] => \A f \in Fields :
           /\ global[f] = Duration(f, options[latest][f])
           /\ quiet[k] \/ used'[k][f] = global[f] \/ f \notin Known(k)',
         panic' \in {"no", "option", "ticker", "cancel"},
         Panicked'
  PROVE  IInv'
<1> USE DEF IInv
<1>1. TypeOK'
  BY DEF TypeOK, clientVars, workerVars
<1>2. Accepted' /\ Positive' /\ InTurn' /\ TurnsInv'
  BY DEF Accepted, Positive, Unsound, InTurn, TurnsInv, Unreached, clientVars,
         workerVars
<1>3. \A j \in Calls \ {k} : Known(j)' = Known(j)
  BY DEF Known, TypeOK
<1>4. Known(k)' \subseteq Fields
  BY DEF Known, Fields
<1>5. \A f \in Fields : Unsound(f)' <=> Unsound(f)
  BY DEF Unsound, clientVars
<1>6. ReadPositive'
  <2> SUFFICES ASSUME NEW j \in Calls,
                      NEW f \in Known(j)' \ {"syncSendConfirmInterval"}
               PROVE  used'[j][f] > 0 \/ Unsound(f)'
    BY DEF ReadPositive
  <2>1. CASE j # k
    <3>1. f \in Fields /\ f \in Known(j) \ {"syncSendConfirmInterval"}
      BY <1>3, <2>1 DEF Known, Fields
    <3> QED
      BY <1>5, <2>1, <3>1 DEF ReadPositive
  <2>2. CASE j = k
    BY <1>4, <1>5, <2>2, ReadsSound DEF ReadPositive
  <2> QED
    BY <2>1, <2>2
<1>7. LatestBuilt'
  BY DEF LatestBuilt, clientVars
<1>8. QuietReads'
  <2> SUFFICES ASSUME NEW j \in Calls, quiet'[j], NEW f \in Fields
               PROVE  /\ global[f] = Duration(f, options[latest][f])
                      /\ f \in Known(j)' =>
                           used'[j][f] = Duration(f, options[latest][f])
    BY DEF QuietReads, clientVars
  <2>1. CASE j # k
    BY <1>3, <2>1 DEF QuietReads
  <2>2. CASE j = k
    BY <2>2 DEF QuietReads
  <2> QED
    BY <2>1, <2>2
<1> QED
  BY <1>1, <1>2, <1>6, <1>7, <1>8

(* A call begins with the durations of the latest client when nothing is    *)
(* being published.                                                         *)
LEMMA BeginIInv ==
  ASSUME IInv, NEW k \in Calls, NEW to \in {"async", "sync"}, Begin(k, to)
  PROVE  IInv'
<1> USE DEF IInv
<1>1. /\ UNCHANGED <<clientVars, workerVars, panic>>
      /\ used' = [used EXCEPT ![k]["timeout"] = global["timeout"]]
      /\ pc' = [pc EXCEPT ![k] = to]
      /\ quiet' = [quiet EXCEPT ![k] =
                     ~overlapped /\ \A c \in Clients : phase[c] \notin Fields]
  BY DEF Begin, Read
<1>2. latest \in Clients
  BY DEF Begin, LatestBuilt
<1>3. quiet' \in [Calls -> BOOLEAN]
  BY <1>1, Zenon DEF TypeOK
<1>4. used' \in [Calls -> [Fields -> Durations]] /\ used'[k]["timeout"] = global["timeout"]
  BY <1>1, ReadsSound DEF TypeOK, Fields
<1>5. Known(k)' = {"timeout"}
  BY <1>1 DEF Known, TypeOK
<1>6. quiet'[k] <=> ~overlapped /\ \A c \in Clients : phase[c] \notin Fields
  BY <1>1 DEF TypeOK
<1>7. quiet'[k] => \A f \in Fields : global[f] = Duration(f, options[latest][f])
  BY <1>2, <1>6 DEF InTurn, Later, Fields
<1>8. Panicked'
  BY <1>1 DEF Panicked, Unsound, clientVars
<1>9. \A j \in Calls \ {k} : used'[j] = used[j] /\ quiet'[j] = quiet[j]
  BY <1>1 DEF TypeOK
<1>10. \A f \in Known(k)' : used'[k][f] = global[f]
  BY <1>4, <1>5
<1>11. panic' \in {"no", "option", "ticker", "cancel"}
  BY <1>1 DEF TypeOK
<1> QED
  BY <1>1, <1>2, <1>3, <1>4, <1>7, <1>8, <1>9, <1>10, <1>11, CallIInv

LEMMA SendTxIInv ==
  ASSUME IInv, NEW k \in Calls, SendTx(k)
  PROVE  IInv'
<1> USE DEF IInv
<1>1. PICK to \in {"deadline", "done"} :
        /\ UNCHANGED <<clientVars, quiet, workerVars, panic, used>>
        /\ pc' = [pc EXCEPT ![k] = to]
  BY DEF SendTx, Goto
<1>2. pc[k] \in {"async", "sync"} /\ latest \in Clients
  BY DEF SendTx, LatestBuilt
<1>3. Known(k)' \subseteq Known(k)
  BY <1>1, <1>2 DEF Known, TypeOK
<1>4. quiet[k] => \A f \in Fields : global[f] = Duration(f, options[latest][f])
  BY DEF QuietReads
<1>5. Panicked'
  BY <1>1 DEF Panicked, Unsound, clientVars
<1> QED
  BY <1>1, <1>2, <1>3, <1>4, <1>5, CallIInv DEF TypeOK

(* A call reads its next duration, whatever was published since the last.   *)
LEMMA ReadIInv ==
  ASSUME IInv, NEW k \in Calls, NEW field \in Fields, NEW to \in {"ticker", "poll"},
         pc[k] # "idle", Read(k, field, to),
         UNCHANGED <<clientVars, quiet, workerVars>>,
         Known(k)' \subseteq Known(k) \cup {field},
         panic' \in {"no", "option", "ticker", "cancel"}, Panicked'
  PROVE  IInv'
<1> USE DEF IInv
<1>1. latest \in Clients
  BY DEF LatestBuilt
<1>2. /\ used' \in [Calls -> [Fields -> Durations]]
      /\ used'[k][field] = global[field]
      /\ \A f \in Fields \ {field} : used'[k][f] = used[k][f]
      /\ \A j \in Calls \ {k} : used'[j] = used[j]
  BY DEF Read, TypeOK
<1>3. quiet[k] => \A f \in Fields : global[f] = Duration(f, options[latest][f])
  BY DEF QuietReads
<1>4. Known(k)' \subseteq Fields
  BY DEF Known, Fields
<1>5. \A f \in Known(k)' : \/ used'[k][f] = global[f]
                           \/ f \in Known(k) /\ used'[k][f] = used[k][f]
  <2> SUFFICES ASSUME NEW f \in Known(k)', f # field
               PROVE  f \in Known(k) /\ used'[k][f] = used[k][f]
    BY <1>2
  <2> QED
    BY <1>2, <1>4
<1>6. pc' = [pc EXCEPT ![k] = to] /\ quiet' \in [Calls -> BOOLEAN]
  BY DEF Read, TypeOK
<1> QED
  BY <1>1, <1>2, <1>3, <1>5, <1>6, CallIInv

LEMMA DeadlineIInv ==
  ASSUME IInv, NEW k \in Calls, SyncSendTimeout(k)
  PROVE  IInv'
<1> USE DEF IInv
<1>1. Known(k)' \subseteq Known(k) \cup {"syncSendTimeout"}
  BY DEF SyncSendTimeout, Read, Known, TypeOK
<1>2. Panicked'
  BY DEF SyncSendTimeout, Panicked, Unsound, clientVars
<1> QED
  BY <1>1, <1>2, ReadIInv DEF SyncSendTimeout, TypeOK, Fields

LEMMA TickerIInv ==
  ASSUME IInv, NEW k \in Calls, NewTicker(k)
  PROVE  IInv'
<1> USE DEF IInv
<1> DEFINE interval == "syncSendConfirmInterval"
<1>1. Known(k)' \subseteq Known(k) \cup {interval}
  BY DEF NewTicker, Read, Known, TypeOK, Fields
<1>2. latest \in Clients /\ interval \in Fields
  BY DEF NewTicker, LatestBuilt, Fields
<1>3. used'[k][interval] = global[interval]
  BY <1>2 DEF NewTicker, Read, TypeOK
<1>4. global[interval] > 0 \/ Unsound(interval)
  BY <1>2, ReadsSound
<1>5. Panicked'
  BY <1>3, <1>4 DEF NewTicker, Panicked, Unsound, clientVars
<1>6. panic' \in {"no", "option", "ticker", "cancel"}
  BY DEF NewTicker
<1> QED
  BY <1>1, <1>2, <1>5, <1>6, ReadIInv DEF NewTicker

-----------------------------------------------------------------------------
(* Start and Stop touch nothing that the durations depend on.               *)
LEMMA WorkersIInv ==
  ASSUME IInv, UNCHANGED <<clientVars, callVars>>, TypeOK', TurnsInv',
         panic' # "ticker"
  PROVE  IInv'
<1> USE DEF IInv, clientVars, callVars
<1>1. Accepted' /\ Positive' /\ ReadPositive'
  BY DEF Accepted, Positive, ReadPositive, Known, Unsound
<1>2. LatestBuilt' /\ InTurn' /\ QuietReads' /\ Panicked'
  BY DEF LatestBuilt, InTurn, QuietReads, Known, Panicked
<1> QED
  BY <1>1, <1>2

(* One more call of Start or Stop.                                          *)
LEMMA TurnTaken ==
  ASSUME TypeOK, NEW c \in Clients, NEW call \in {"start", "stop"}, Turn(c, call)
  PROVE  /\ turns' \in [Clients -> Seq({"start", "stop"})]
         /\ \A d \in Clients \ {c} : turns'[d] = turns[d]
         /\ Len(turns[c]) \in Nat /\ Len(turns'[c]) = Len(turns[c]) + 1
         /\ \A n \in 1 .. Len(turns[c]) : turns'[c][n] = turns[c][n]
         /\ turns'[c][Len(turns[c]) + 1] = call
<1>1. turns[c] \in Seq({"start", "stop"})
  BY DEF TypeOK
<1>2. turns' = [turns EXCEPT ![c] = Append(turns[c], call)]
  BY DEF Turn
<1>3. Append(turns[c], call) \in Seq({"start", "stop"})
  BY <1>1, AppendProperties
<1>4. turns' \in [Clients -> Seq({"start", "stop"})] /\ turns'[c] = Append(turns[c], call)
      /\ \A d \in Clients \ {c} : turns'[d] = turns[d]
  BY <1>2, <1>3 DEF TypeOK
<1>5. Len(turns[c]) \in Nat
  BY <1>1, LenProperties
<1> QED
  BY <1>1, <1>4, <1>5, AppendProperties

(* What the turns of the other clients say stays true.                      *)
LEMMA OtherTurns ==
  ASSUME TurnsInv, NEW c \in Clients, NEW d \in Clients \ {c},
         turns'[d] = turns[d], cancel'[d] = cancel[d], live'[d] = live[d],
         closed'[d] = closed[d]
  PROVE  /\ cancel'[d] \in 0 .. Len(turns'[d])
         /\ cancel'[d] # 0 => turns'[d][cancel'[d]] = "start"
         /\ \A n \in (cancel'[d] + 1) .. Len(turns'[d]) : turns'[d][n] = "stop"
         /\ live'[d] = Unreached(d)'
         /\ closed'[d] => \E n \in 1 .. Len(turns'[d]) : turns'[d][n] = "stop"
BY DEF TurnsInv, Unreached

LEMMA StartIInv ==
  ASSUME IInv, panic = "no", NEW c \in Clients, Start(c)
  PROVE  IInv'
<1> USE DEF IInv
<1> DEFINE n == Len(turns[c])
<1>1. /\ UNCHANGED <<clientVars, callVars, closed, panic>>
      /\ cancel' = [cancel EXCEPT ![c] = Len(turns'[c])]
      /\ live' = [live EXCEPT ![c] = @ \cup {Len(turns'[c])}]
      /\ Turn(c, "start")
  BY DEF Start
<1>2. /\ turns' \in [Clients -> Seq({"start", "stop"})]
      /\ \A d \in Clients \ {c} : turns'[d] = turns[d]
      /\ n \in Nat /\ Len(turns'[c]) = n + 1
      /\ \A i \in 1 .. n : turns'[c][i] = turns[c][i]
      /\ turns'[c][n + 1] = "start"
  BY <1>1, TurnTaken
<1>3. /\ cancel'[c] = n + 1 /\ live'[c] = live[c] \cup {n + 1} /\ closed'[c] = closed[c]
      /\ \A d \in Clients \ {c} : /\ cancel'[d] = cancel[d] /\ live'[d] = live[d]
                                    /\ closed'[d] = closed[d]
  BY <1>1, <1>2 DEF TypeOK
<1>4. TypeOK'
  <2>1. n + 1 \in Nat
    BY <1>2
  <2>2. cancel' \in [Clients -> Nat] /\ live' \in [Clients -> SUBSET Nat]
    BY <1>1, <1>2, <2>1 DEF TypeOK
  <2> QED
    BY <1>1, <1>2, <2>2 DEF TypeOK, clientVars, callVars
<1>5. Unreached(c)' = Unreached(c) \cup {n + 1}
  <2>1. Unreached(c)' = {i \in 1 .. (n + 1) :
          turns'[c][i] = "start" /\ (i < n + 1 => turns'[c][i + 1] = "start")}
    BY <1>2 DEF Unreached
  <2>2. \A i \in 1 .. n : i \in Unreached(c)' <=> i \in Unreached(c)
    BY <1>2, <2>1 DEF Unreached
  <2>3. n + 1 \in Unreached(c)'
    BY <1>2, <2>1
  <2> QED
    BY <1>2, <2>1, <2>2, <2>3 DEF Unreached
<1>6. closed[c] => \E i \in 1 .. (n + 1) : turns'[c][i] = "stop"
  BY <1>2 DEF TurnsInv
<1>8. /\ cancel'[c] \in 0 .. (n + 1)
      /\ turns'[c][cancel'[c]] = "start"
      /\ \A i \in (cancel'[c] + 1) .. (n + 1) : turns'[c][i] = "stop"
  <2> HIDE DEF n
  <2> QED
    BY <1>2, <1>3
<1>9. live'[c] = Unreached(c)'
  BY <1>3, <1>5 DEF TurnsInv
<1>7. TurnsInv'
  <2>1. \A d \in Clients \ {c} :
          /\ cancel'[d] \in 0 .. Len(turns'[d])
          /\ cancel'[d] # 0 => turns'[d][cancel'[d]] = "start"
          /\ \A i \in (cancel'[d] + 1) .. Len(turns'[d]) : turns'[d][i] = "stop"
          /\ live'[d] = Unreached(d)'
          /\ closed'[d] => \E i \in 1 .. Len(turns'[d]) : turns'[d][i] = "stop"
    BY <1>2, <1>3, OtherTurns
  <2> QED
    BY <1>2, <1>3, <1>6, <1>8, <1>9, <2>1 DEF TurnsInv
<1> QED
  BY <1>1, <1>4, <1>7, WorkersIInv

(* Client.cancel is that of the last Start, so that Stop ends its workers   *)
(* if they still run, and no others.                                        *)
LEMMA StopIInv ==
  ASSUME IInv, panic = "no", NEW c \in Clients, Stop(c)
  PROVE  IInv'
<1> USE DEF IInv
<1> DEFINE n == Len(turns[c])
<1>1. /\ UNCHANGED <<clientVars, callVars, cancel>>
      /\ Turn(c, "stop")
      /\ cancel[c] = 0 => panic' = "cancel" /\ UNCHANGED <<live, closed>>
      /\ cancel[c] # 0 => /\ live' = [live EXCEPT ![c] = @ \ {cancel[c]}]
                           /\ closed' = [closed EXCEPT ![c] = TRUE]
                           /\ UNCHANGED panic
  BY DEF Stop
<1>2. /\ turns' \in [Clients -> Seq({"start", "stop"})]
      /\ \A d \in Clients \ {c} : turns'[d] = turns[d]
      /\ n \in Nat /\ Len(turns'[c]) = n + 1
      /\ \A i \in 1 .. n : turns'[c][i] = turns[c][i]
      /\ turns'[c][n + 1] = "stop"
  BY <1>1, TurnTaken
<1>3. /\ cancel[c] \in 0 .. n
      /\ cancel[c] # 0 => turns[c][cancel[c]] = "start"
      /\ \A i \in (cancel[c] + 1) .. n : turns[c][i] = "stop"
      /\ live[c] = Unreached(c)
  BY DEF TurnsInv
<1>4. closed' \in [Clients -> BOOLEAN]
  <2>1. CASE cancel[c] = 0
    BY <1>1, <2>1 DEF TypeOK
  <2>2. CASE cancel[c] # 0
    BY <1>1, <2>2, Zenon DEF TypeOK
  <2> QED
    BY <2>1, <2>2
<1>5. TypeOK'
  BY <1>1, <1>2, <1>4 DEF TypeOK, clientVars, callVars
<1>6. Unreached(c)' = Unreached(c) \ {n}
  <2>1. Unreached(c)' = {i \in 1 .. (n + 1) :
          turns'[c][i] = "start" /\ (i < n + 1 => turns'[c][i + 1] = "start")}
    BY <1>2 DEF Unreached
  <2>2. \A i \in 1 .. (n - 1) : i \in Unreached(c)' <=> i \in Unreached(c)
    BY <1>2, <2>1 DEF Unreached
  <2>3. n \notin Unreached(c)' /\ n + 1 \notin Unreached(c)'
    BY <1>2, <2>1
  <2> QED
    BY <1>2, <2>1, <2>2, <2>3 DEF Unreached
<1>7. live'[c] = Unreached(c)'
  <2>1. CASE cancel[c] = 0
    <3>1. \A i \in 1 .. n : turns[c][i] = "stop"
      BY <1>3, <2>1
    <3>2. Unreached(c) = {}
      BY <3>1 DEF Unreached
    <3> QED
      BY <1>1, <1>3, <1>6, <2>1, <3>2
  <2>2. CASE cancel[c] = n /\ n # 0
    BY <1>1, <1>3, <1>6, <2>2 DEF TypeOK
  <2>3. CASE cancel[c] \in 1 .. (n - 1)
    <3>4. n \in (cancel[c] + 1) .. n /\ cancel[c] + 1 \in (cancel[c] + 1) .. n
      BY <1>2, <2>3
    <3>1. turns[c][n] = "stop" /\ turns[c][cancel[c] + 1] = "stop"
      BY <1>3, <3>4
    <3>2. n \notin Unreached(c) /\ cancel[c] \notin Unreached(c)
      BY <1>2, <2>3, <3>1 DEF Unreached
    <3>3. live'[c] = live[c] \ {cancel[c]}
      BY <1>1, <2>3 DEF TypeOK
    <3> QED
      BY <1>3, <1>6, <3>2, <3>3
  <2> QED
    BY <1>2, <1>3, <2>1, <2>2, <2>3
<1>8. \A d \in Clients \ {c} : /\ cancel'[d] = cancel[d] /\ live'[d] = live[d]
                                /\ closed'[d] = closed[d]
  BY <1>1 DEF TypeOK
<1>9. /\ cancel'[c] \in 0 .. (n + 1)
      /\ cancel'[c] # 0 => turns'[c][cancel'[c]] = "start"
      /\ \A i \in (cancel'[c] + 1) .. (n + 1) : turns'[c][i] = "stop"
      /\ \E i \in 1 .. (n + 1) : turns'[c][i] = "stop"
  <2>1. cancel'[c] = cancel[c]
    BY <1>1
  <2> HIDE DEF n
  <2>2. \A i \in (cancel[c] + 1) .. (n + 1) : i \in (cancel[c] + 1) .. n \/ i = n + 1
    BY <1>2, <1>3
  <2>3. \A i \in (cancel[c] + 1) .. n : i \in 1 .. n
    BY <1>2, <1>3
  <2>4. \A i \in (cancel[c] + 1) .. (n + 1) : turns'[c][i] = "stop"
    BY <1>2, <1>3, <2>2, <2>3
  <2>5. cancel[c] # 0 => turns'[c][cancel[c]] = "start"
    BY <1>2, <1>3
  <2>6. n + 1 \in 1 .. (n + 1) /\ cancel[c] \in 0 .. (n + 1)
    BY <1>2, <1>3
  <2> QED
    BY <1>2, <2>1, <2>4, <2>5, <2>6
<1>10. TurnsInv'
  BY <1>2, <1>7, <1>8, <1>9, OtherTurns DEF TurnsInv
<1>11. panic' # "ticker"
  BY <1>1
<1> QED
  BY <1>1, <1>5, <1>10, <1>11, WorkersIInv

LEMMA NextIInv == IInv /\ [Next]_vars => IInv'
<1> SUFFICES ASSUME IInv, [Next]_vars
             PROVE  IInv'
  OBVIOUS
<1>1. CASE UNCHANGED vars
  <2>1. UNCHANGED <<clientVars, callVars, workerVars, panic>>
    BY <1>1 DEF vars, clientVars, callVars, workerVars
  <2>2. TypeOK' /\ TurnsInv' /\ Panicked'
    BY <2>1 DEF IInv, TypeOK, TurnsInv, Unreached, Panicked, Unsound, clientVars,
                callVars, workerVars
  <2>3. Accepted' /\ Positive' /\ ReadPositive'
    BY <2>1 DEF IInv, Accepted, Positive, ReadPositive, Known, Unsound,
                clientVars, callVars
  <2>4. LatestBuilt' /\ InTurn' /\ QuietReads'
    BY <2>1 DEF IInv, LatestBuilt, InTurn, QuietReads, Known, clientVars, callVars
  <2> QED
    BY <2>2, <2>3, <2>4 DEF IInv
<1>2. CASE Next
  <2>1. ASSUME NEW c \in Clients, NEW opts \in OptionLists, NewClient(c, opts)
        PROVE  IInv'
    BY <2>1, NewClientIInv
  <2>2. ASSUME NEW c \in Clients, Publish(c)
        PROVE  IInv'
    BY <2>2, PublishIInv
  <2>3. ASSUME NEW c \in Clients, panic = "no", Start(c) \/ Stop(c)
        PROVE  IInv'
    BY <2>3, StartIInv, StopIInv
  <2>4. ASSUME NEW k \in Calls, AsyncSend(k) \/ SyncSend(k)
        PROVE  IInv'
    BY <2>4, BeginIInv DEF AsyncSend, SyncSend
  <2>5. ASSUME NEW k \in Calls, SendTx(k) \/ SyncSendTimeout(k) \/ NewTicker(k)
        PROVE  IInv'
    BY <2>5, SendTxIInv, DeadlineIInv, TickerIInv
  <2> QED
    BY <1>2, <2>1, <2>2, <2>3, <2>4, <2>5 DEF Next
<1> QED
  BY <1>1, <1>2

THEOREM Invariance == Spec => []IInv
BY InitIInv, NextIInv, PTL DEF Spec

-----------------------------------------------------------------------------
(* Lifecycle is well typed in every reachable state.                        *)
THEOREM TypeCorrect == Spec => []TypeOK
<1>1. IInv => TypeOK
  BY DEF IInv
<1> QED
  BY <1>1, Invariance, PTL

(* No call works under a deadline that has passed before it begins, unless  *)
(* some client was given more seconds than a duration holds.                *)
THEOREM DeadlineIsAhead == Spec => []DeadlineAhead
<1>1. ASSUME IInv
      PROVE  DeadlineAhead
  <2> SUFFICES ASSUME NEW k \in Calls,
                      NEW f \in Known(k) \ {"syncSendConfirmInterval"},
                      Unsound(f)
               PROVE  Overflows(f)
    BY <1>1 DEF DeadlineAhead, IInv, ReadPositive
  <2>1. f \in Fields
    BY DEF Known, Fields
  <2>2. PICK c \in Clients : ~Sound(f, options[c][f])
    BY DEF Unsound
  <2>3. options[c][f] > 0 /\ options[c][f] \in Int
    BY <1>1, <2>1 DEF IInv, Accepted, TypeOK
  <2>4. options[c][f] * Unit[f] \in Int /\ Limit \in Int
    BY <2>1, <2>3, UnitAssumption, Products
  <2> QED
    BY <2>2, <2>3, <2>4 DEF Sound, Overflows
<1> QED
  BY <1>1, Invariance, PTL

(* SyncSend panics at its ticker only when some client has an interval that *)
(* is not positive or overflows.                                            *)
THEOREM TickerPanics == Spec => []TickerPanicHasCulprit
<1>1. IInv => TickerPanicHasCulprit
  BY DEF IInv, Panicked, Unsound, TickerPanicHasCulprit
<1> QED
  BY <1>1, Invariance, PTL

(* The client built last decides the durations of every client's calls.     *)
THEOREM LatestDecides == Spec => []LastClientDecides
<1>1. IInv => LastClientDecides
  BY DEF IInv, QuietReads, LastClientDecides, Known, Fields
<1> QED
  BY <1>1, Invariance, PTL

(* In whatever order Start and Stop are called, exactly those workers run   *)
(* that no Stop reached, and on a closed connection only if they were       *)
(* started after a Stop or if another Start came before the Stop.           *)
THEOREM StopsWhatItReaches == Spec => []StopReachesWorkers
<1>1. ASSUME IInv, NEW c \in Clients, closed[c], NEW n \in live[c],
             ~(n < Len(turns[c]))
      PROVE  \E m \in 1 .. (n - 1) : turns[c][m] = "stop"
  <2>1. PICK m \in 1 .. Len(turns[c]) : turns[c][m] = "stop"
    BY <1>1 DEF IInv, TurnsInv
  <2>2. n \in 1 .. Len(turns[c]) /\ turns[c][n] = "start"
    BY <1>1 DEF IInv, TurnsInv, Unreached
  <2>3. Len(turns[c]) \in Nat
    <3>1. turns[c] \in Seq({"start", "stop"})
      BY <1>1 DEF IInv, TypeOK
    <3> QED
      BY <3>1, LenProperties
  <2>4. m # n
    BY <2>1, <2>2
  <2>5. m \in 1 .. (n - 1)
    BY <1>1, <2>1, <2>2, <2>3, <2>4
  <2> QED
    BY <2>1, <2>5
<1>2. IInv => StopReachesWorkers
  <2> SUFFICES ASSUME IInv PROVE StopReachesWorkers
    OBVIOUS
  <2>1. \A c \in Clients : live[c] = Unreached(c)
    BY DEF IInv, TurnsInv
  <2>2. ASSUME NEW c \in Clients, closed[c], NEW n \in live[c]
        PROVE  n < Len(turns[c]) \/ \E m \in 1 .. (n - 1) : turns[c][m] = "stop"
    BY <1>1, <2>2
  <2> QED
    BY <2>1, <2>2, Zenon DEF StopReachesWorkers
<1> QED
  BY <1>2, Invariance, PTL
=============================================================================
