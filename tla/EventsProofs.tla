----------------------------- MODULE EventsProofs -----------------------------
(***************************************************************************)
(* Proofs about Events for a channel of any capacity and any number of     *)
(* logs.                                                                   *)
(*                                                                         *)
(* The reader implements Feed because of how far it is with its two        *)
(* channels: what was taken out of the channel of logs was handed over,    *)
(* but for the event a watch holds (Position), and an iterator that says   *)
(* it is complete has seen the end of a subscription that had sent         *)
(* everything, and then an empty channel, while a running watch sees a     *)
(* subscription without an error only after a hang-up (AtEnd).             *)
(***************************************************************************)
EXTENDS Events, SequenceTheorems, TLAPS

(* Which variables a reader that is not in use, an iterator and a watch     *)
(* leave alone.                                                             *)
Separate ==
  /\ use = "none" =>
       Len(handed) = 0 /\ got = 0 /\ source = "open" /\ closing = "no"
  /\ use # "iterator" => ~asking /\ answer = "none" /\ ~done /\ ~fail
  /\ IF use = "watch" THEN loop # "off"
     ELSE loop = "off" /\ outcome = "none" /\ hungup = FALSE

Position ==
  /\ use = "iterator" /\ ~fail => Len(handed) = got
  /\ loop = "select" => Len(handed) = got
  /\ loop = "deliver" => Len(handed) + 1 = got
  /\ loop # "stopped" => outcome = "none"

AtEnd ==
  /\ use = "iterator" /\ ~fail =>
       /\ done => source = "ended"
       /\ source = "ended" => sent = Len(found) \/ closing # "no"
       /\ answer = "false" => done /\ got = sent
  /\ use = "watch" /\ loop # "stopped" /\ source = "ended" => hungup

IInv == TypeOK /\ Separate /\ Position /\ AtEnd

-----------------------------------------------------------------------------
LEMMA Grow ==
  ASSUME NEW s \in Seq(2 .. 3), NEW x \in 2 .. 3, NEW t \in Seq(1 .. Len(s))
  PROVE  /\ Append(s, x) \in Seq(2 .. 3)
         /\ Len(Append(s, x)) = Len(s) + 1
         /\ t \in Seq(1 .. Len(Append(s, x)))
<1>1. Append(s, x) \in Seq(2 .. 3) /\ Len(Append(s, x)) = Len(s) + 1
  BY AppendProperties
<1>2. 1 .. Len(s) \subseteq 1 .. (Len(s) + 1)
  BY LenProperties
<1>3. \A i \in 1 .. Len(t) : t[i] \in 1 .. (Len(s) + 1)
  BY <1>2, ElementOfSeq
<1>4. t \in Seq(1 .. (Len(s) + 1))
  BY <1>3, SeqDef, LenProperties, SMT
<1> QED
  BY <1>1, <1>4

LEMMA HandOver ==
  ASSUME NEW n \in Nat, NEW t \in Seq(1 .. n), NEW k \in 1 .. n
  PROVE  Append(t, k) \in Seq(1 .. n) /\ Len(Append(t, k)) = Len(t) + 1
BY AppendProperties

LEMMA Lengths ==
  ASSUME TypeOK
  PROVE  Len(found) \in Nat /\ Len(handed) \in Nat /\ got \in Nat /\ sent \in Nat
BY LenProperties DEF TypeOK

(* The steps of Next, whichever copy of the code takes them.                *)
AnyStep ==
  \/ \E indexed \in 2 .. 3 : Emit(indexed)
  \/ Produce \/ SourceEnds \/ SourceFails \/ StopReading
  \/ Step

LEMMA OneCode == Next => AnyStep
BY DEF Next, AnyStep, StepERC20Approval, StepERC20Transfer, StepIERC20Approval,
       StepIERC20Transfer, StepIERC721Approval, StepIERC721ApprovalForAll,
       StepIERC721Transfer

-----------------------------------------------------------------------------
LEMMA InvInit == Init => IInv
<1> SUFFICES ASSUME Init PROVE IInv
  OBVIOUS
<1>1. found \in Seq(2 .. 3) /\ Len(found) = 0
  BY EmptySeq DEF Init
<1>2. handed \in Seq(1 .. Len(found)) /\ Len(handed) = 0
  BY EmptySeq DEF Init
<1>3. TypeOK
  <2>1. /\ copy \in Copies /\ use = "none" /\ sent = 0 /\ got = 0
        /\ source = "open" /\ asking = FALSE /\ answer = "none" /\ done = FALSE
        /\ fail = FALSE /\ loop = "off" /\ reading = TRUE /\ outcome = "none"
        /\ closing = "no" /\ hungup = FALSE
    BY DEF Init
  <2>2. /\ asking \in BOOLEAN /\ done \in BOOLEAN /\ fail \in BOOLEAN
        /\ hungup \in BOOLEAN
    BY <2>1, Zenon
  <2> QED
    BY <1>1, <1>2, <2>1, <2>2 DEF TypeOK
<1>4. Separate /\ Position /\ AtEnd
  BY <1>1, <1>2 DEF Init, Separate, Position, AtEnd
<1> QED
  BY <1>3, <1>4 DEF IInv

LEMMA InvNext == IInv /\ [Next]_vars => IInv'
<1> SUFFICES ASSUME IInv, [Next]_vars PROVE IInv'
  OBVIOUS
<1>0. Len(found) \in Nat /\ Len(handed) \in Nat /\ got \in Nat /\ sent \in Nat
  BY Lengths DEF IInv
<1> USE DEF IInv, TypeOK, Separate, Position, AtEnd,
            channelVars, iteratorVars, watchVars
<1>1. ASSUME NEW indexed \in 2 .. 3, Emit(indexed) PROVE IInv'
  <2>1. /\ found' \in Seq(2 .. 3) /\ Len(found') = Len(found) + 1
        /\ handed \in Seq(1 .. Len(found'))
    BY <1>1, Grow DEF Emit
  <2> QED
    BY <1>0, <1>1, <2>1 DEF Emit
<1>2. CASE Produce \/ SourceFails
  BY <1>0, <1>2 DEF Produce, SourceFails
<1>14. CASE SourceEnds
  <2>1. hungup' = (use = "watch") /\ hungup' \in BOOLEAN
    <3>1. hungup' = (use = "watch")
      BY <1>14 DEF SourceEnds
    <3> QED
      BY <3>1, Zenon
  <2>2. use = "watch" => hungup' = TRUE
    BY <2>1, Zenon
  <2>3. use # "watch" => hungup' = FALSE
    BY <2>1, Zenon
  <2> QED
    BY <1>0, <1>14, <2>1, <2>2, <2>3 DEF SourceEnds
<1>3. CASE Filter \/ Ask \/ Close \/ CloseReturns
  <2>1. CASE Filter
    BY <1>0, <2>1 DEF Filter
  <2>2. CASE Ask
    BY <1>0, <2>2 DEF Ask
  <2>3. CASE Close
    BY <1>0, <2>3 DEF Close
  <2>4. CASE CloseReturns
    BY <1>0, <2>4 DEF CloseReturns
  <2> QED
    BY <1>3, <2>1, <2>2, <2>3, <2>4
<1>4. CASE NextFailed \/ NextDrained \/ NextErr
  BY <1>0, <1>4 DEF NextFailed, NextDrained, NextErr, Return
<1>5. CASE NextTake
  <2>1. use = "iterator" /\ Len(handed) = got /\ got + 1 \in 1 .. Len(found)
    BY <1>0, <1>5 DEF NextTake
  <2>2. CASE UnpackLog(got + 1)
    <3>1. /\ handed' = Append(handed, got + 1) /\ UNCHANGED fail
          /\ answer' = "true" /\ asking' = FALSE
      BY <1>5, <2>2 DEF NextTake, Return
    <3>3. asking' \in BOOLEAN
      BY <3>1, Zenon
    <3>2. /\ handed' \in Seq(1 .. Len(found)) /\ Len(handed') = Len(handed) + 1
      BY <1>0, <2>1, <3>1, HandOver
    <3> QED
      BY <1>0, <1>5, <2>1, <3>1, <3>2, <3>3 DEF NextTake
  <2>3. CASE ~UnpackLog(got + 1)
    <3>1. asking' = FALSE
      BY <1>5, <2>3 DEF NextTake, Return
    <3>2. asking' \in BOOLEAN
      BY <3>1, Zenon
    <3> QED
      BY <1>0, <1>5, <2>1, <2>3, <3>2 DEF NextTake, Return
  <2> QED
    BY <2>2, <2>3
<1>6. CASE Watch
  <2>1. /\ use = "none" /\ use' = "watch" /\ loop' = "select"
        /\ UNCHANGED <<copy, channelVars, handed, iteratorVars, reading, outcome,
                       closing>>
    BY <1>6 DEF Watch
  <2> QED
    BY <1>0, <2>1
<1>11. CASE Unsubscribe
  BY <1>0, <1>11 DEF Unsubscribe
<1>12. CASE UnsubscribeReturns
  BY <1>0, <1>12 DEF UnsubscribeReturns
<1>13. CASE StopReading
  <2>1. reading' = FALSE
    BY <1>13 DEF StopReading
  <2>2. reading' \in BOOLEAN
    BY <2>1, Zenon
  <2> QED
    BY <1>0, <1>13, <2>2 DEF StopReading
<1>7. CASE WatchTake
  <2>1. use = "watch"
    BY <1>7 DEF WatchTake
  <2> QED
    BY <1>0, <1>7, <2>1 DEF WatchTake, WatchReturns
<1>8. CASE WatchSink
  <2>1. use = "watch" /\ got \in 1 .. Len(found)
    BY <1>0, <1>8 DEF WatchSink
  <2>2. handed' \in Seq(1 .. Len(found)) /\ Len(handed') = Len(handed) + 1
    BY <1>0, <1>8, <2>1, HandOver DEF WatchSink
  <2> QED
    BY <1>0, <1>8, <2>1, <2>2 DEF WatchSink
<1>9. CASE WatchErr \/ WatchQuit
  <2>1. use = "watch"
    BY <1>9 DEF WatchErr, WatchQuit
  <2> QED
    BY <1>0, <1>9, <2>1 DEF WatchErr, WatchQuit, WatchReturns
<1>10. CASE UNCHANGED vars
  BY <1>10 DEF vars
<1> QED
  BY <1>1, <1>2, <1>3, <1>4, <1>5, <1>6, <1>7, <1>8, <1>9, <1>10, <1>11,
     <1>12, <1>13, <1>14, OneCode
  DEF AnyStep, Step, Next_, WatchLoop

(* Where the goroutines and the logs are: Events is well typed.             *)
THEOREM TypeCorrect == Spec => []TypeOK
<1>1. Spec => []IInv
  BY InvInit, InvNext, PTL DEF Spec
<1>2. IInv => TypeOK
  BY DEF IInv
<1> QED
  BY <1>1, <1>2, PTL

-----------------------------------------------------------------------------
(* Refinement: no step but those below changes what Feed sees.              *)

LEMMA FeedInit == Init => Reader!Init
BY DEF Init, Reader!Init, EndSeen

LEMMA FeedNext ==
  IInv /\ [Next]_vars => [Reader!Next]_(Reader!feedVars)
<1> SUFFICES ASSUME IInv, [Next]_vars
             PROVE  Reader!Next \/ UNCHANGED Reader!feedVars
  OBVIOUS
<1>0. Len(found) \in Nat /\ Len(handed) \in Nat /\ got \in Nat /\ sent \in Nat
  BY Lengths DEF IInv
<1> USE DEF IInv, TypeOK, Separate, Position, AtEnd, EndSeen,
            channelVars, iteratorVars, watchVars, Reader!feedVars
<1>1. ASSUME NEW indexed \in 2 .. 3, Emit(indexed) PROVE Reader!Offer
  <2>1. Len(found') = Len(found) + 1
    BY <1>1, Grow DEF Emit
  <2> QED
    BY <1>1, <2>1 DEF Emit, Reader!Offer
<1>11. CASE SourceEnds
  <2>1. UNCHANGED <<Len(found), handed, closing, EndSeen>>
    BY <1>11 DEF SourceEnds
  <2>2. CASE use = "watch"
    <3>1. hungup' = TRUE
      BY <1>11, <2>2, Zenon DEF SourceEnds
    <3> QED
      BY <2>1, <3>1, Zenon DEF Reader!Cut, Reader!Next
  <2>3. CASE use # "watch"
    <3>1. hungup = FALSE
      BY <2>3
    <3>2. hungup' = FALSE
      BY <1>11, <2>3, Zenon DEF SourceEnds
    <3> QED
      BY <2>1, <3>1, <3>2, Zenon
  <2> QED
    BY <2>2, <2>3
<1>2. CASE \/ Produce \/ SourceFails \/ StopReading
           \/ Filter \/ Ask \/ Watch
           \/ NextFailed \/ CloseReturns \/ UnsubscribeReturns
  BY <1>2
  DEF Produce, SourceFails, StopReading, Filter, Ask, Watch,
      NextFailed, Return, CloseReturns, UnsubscribeReturns
<1>3. CASE Close \/ Unsubscribe
  <2>1. closing' = "called"
    BY <1>3 DEF Close, Unsubscribe
  <2>2. (closing # "no")' = TRUE
    BY <2>1, Zenon
  <2>3. UNCHANGED <<Len(found), handed, hungup, EndSeen>>
    BY <1>3 DEF Close, Unsubscribe
  <2> QED
    BY <2>2, <2>3, Zenon DEF Reader!Leave, Reader!Next
<1>4. CASE NextTake
  <2>1. /\ use = "iterator" /\ outcome = "none" /\ outcome' = outcome
        /\ Len(handed) = got /\ got + 1 <= Len(found) /\ answer # "false"
    BY <1>0, <1>4 DEF NextTake
  <2>4. UNCHANGED <<Len(found), closing # "no", hungup>>
    BY <1>4, <2>1 DEF NextTake
  <2>5. EndSeen = "open"
    BY <1>4, <2>1 DEF NextTake
  <2>2. CASE UnpackLog(got + 1)
    <3>1. handed' = Append(handed, Len(handed) + 1)
      BY <1>4, <2>1, <2>2 DEF NextTake
    <3>2. EndSeen' = "open"
      BY <1>4, <2>1, <2>2 DEF NextTake, Return
    <3> QED
      BY <1>0, <2>1, <2>4, <2>5, <3>1, <3>2 DEF Reader!Hand, Reader!Next
  <2>3. CASE ~UnpackLog(got + 1)
    <3>1. handed' = handed /\ EndSeen' = "error"
      BY <1>4, <2>1, <2>3 DEF NextTake
    <3> QED
      BY <2>4, <2>5, <3>1 DEF Reader!Break, Reader!Next
  <2> QED
    BY <2>2, <2>3
<1>5. CASE NextDrained
  <2>1. /\ use = "iterator" /\ outcome = "none" /\ outcome' = outcome
        /\ Len(handed) = Len(found) \/ closing # "no"
    BY <1>0, <1>5 DEF NextDrained
  <2> QED
    BY <1>5, <2>1 DEF NextDrained, Return, Reader!Finish, Reader!Next
<1>6. CASE NextErr
  <2>1. use = "iterator" /\ outcome = "none" /\ answer # "false"
    BY <1>6 DEF NextErr
  <2> QED
    BY <1>6, <2>1 DEF NextErr, Reader!Break, Reader!Next
<1>7. CASE WatchTake
  <2>1. use = "watch" /\ outcome = "none" /\ ~fail /\ answer = "none"
    BY <1>7 DEF WatchTake
  <2>2. /\ UNCHANGED <<Len(found), handed, closing, hungup>>
        /\ UNCHANGED outcome \/ outcome' = "error" \/ (outcome' = "nil" /\ closing # "no")
    BY <1>7 DEF WatchTake, WatchReturns
  <2> QED
    BY <1>7, <2>1, <2>2 DEF WatchTake, Reader!Break, Reader!Finish, Reader!Next
<1>8. CASE WatchSink
  <2>1. /\ use = "watch" /\ outcome = "none" /\ ~fail /\ answer = "none"
        /\ got = Len(handed) + 1 /\ got <= Len(found)
    BY <1>0, <1>8 DEF WatchSink
  <2> QED
    BY <1>0, <1>8, <2>1 DEF WatchSink, Reader!Hand, Reader!Next
<1>9. CASE WatchErr \/ WatchQuit
  <2>1. use = "watch" /\ outcome = "none" /\ ~fail /\ answer = "none"
    BY <1>9 DEF WatchErr, WatchQuit
  <2>2. /\ UNCHANGED <<Len(found), handed, closing, hungup, fail, answer>>
        /\ outcome' = "error" \/ (outcome' = "nil" /\ (closing # "no" \/ hungup))
    BY <1>9, <2>1 DEF WatchErr, WatchQuit, WatchReturns
  <2> QED
    BY <2>1, <2>2 DEF Reader!Break, Reader!Finish, Reader!Next
<1>10. CASE UNCHANGED vars
  BY <1>10 DEF vars
<1> QED
  BY <1>1, <1>2, <1>3, <1>4, <1>5, <1>6, <1>7, <1>8, <1>9, <1>10, <1>11, OneCode
  DEF AnyStep, Step, Next_, WatchLoop, Reader!Next

(* Every iterator and every watch implements Feed: events come one by one,  *)
(* in order, none twice and none left out, and an end without an error      *)
(* means that there was nothing more, that the reader left, or that the     *)
(* connection of a watch was closed.                                        *)
THEOREM ImplementsFeed == Spec => FeedSpec
<1>1. Spec => []IInv
  BY InvInit, InvNext, PTL DEF Spec
<1> QED
  BY <1>1, FeedInit, FeedNext, PTL DEF Spec, FeedSpec, Reader!Spec
=============================================================================
