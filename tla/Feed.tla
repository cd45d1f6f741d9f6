--------------------------------- MODULE Feed ---------------------------------
(***************************************************************************)
(* What a reader of contract events may rely on, whether it iterates over  *)
(* past logs or watches new ones: events are handed over one by one, in    *)
(* the order of the logs, none twice and none left out; after an error     *)
(* nothing more comes; and an end without an error means that there was    *)
(* nothing more, unless the reader itself left or the connection it reads  *)
(* from was closed.                                                        *)
(***************************************************************************)
EXTENDS Naturals, Sequences

VARIABLES
  offered,  (* logs the node selected so far                               *)
  handed,   (* positions of the logs whose events the reader got           *)
  left,     (* the reader left                                             *)
  cut,      (* the connection was closed                                   *)
  end       (* "open", "complete" or "error": what the reader was told     *)

feedVars == <<offered, handed, left, cut, end>>

Init ==
  /\ offered = 0 /\ handed = <<>>
  /\ left = FALSE /\ cut = FALSE
  /\ end = "open"

Offer ==
  /\ offered' = offered + 1
  /\ UNCHANGED <<handed, left, cut, end>>

Hand ==
  /\ end = "open"
  /\ Len(handed) < offered
  /\ handed' = Append(handed, Len(handed) + 1)
  /\ UNCHANGED <<offered, left, cut, end>>

Leave == left' = TRUE /\ UNCHANGED <<offered, handed, cut, end>>

Cut == cut' = TRUE /\ UNCHANGED <<offered, handed, left, end>>

Finish ==
  /\ end = "open"
  /\ Len(handed) = offered \/ left \/ cut
  /\ end' = "complete"
  /\ UNCHANGED <<offered, handed, left, cut>>

Break ==
  /\ end = "open"
  /\ end' = "error"
  /\ UNCHANGED <<offered, handed, left, cut>>

Next == Offer \/ Hand \/ Leave \/ Cut \/ Finish \/ Break

Spec == Init /\ [][Next]_feedVars
=============================================================================
