------------------------------ MODULE DrChannel ------------------------------
(***************************************************************************)
(* What dr_write_piggyback promises to its callers: while the driver runs, *)
(* the direct register settings they post reach the ProSLIC chip; perhaps  *)
(* not all of them, but in the order they were posted, none after a later  *)
(* one, none made up, and the last one eventually.  A setting is its       *)
(* ordinal number.                                                         *)
(***************************************************************************)
EXTENDS Naturals

CONSTANT MaxPosts   (* bound on the settings posted                        *)

VARIABLES open, posted, applied

vars == <<open, posted, applied>>

Init == open = FALSE /\ posted = 0 /\ applied = 0

Open  == ~open /\ open' = TRUE /\ posted' = 0 /\ applied' = 0

Close == open /\ open' = FALSE /\ UNCHANGED <<posted, applied>>

Post ==
  /\ open /\ posted < MaxPosts
  /\ posted' = posted + 1
  /\ UNCHANGED <<open, applied>>

(* The board may act on what it has got even after the driver has gone.    *)
Apply ==
  /\ \E n \in applied + 1 .. posted : applied' = n
  /\ UNCHANGED <<open, posted>>

ApplyLast == open /\ Apply /\ applied' = posted

Next == Open \/ Close \/ Post \/ Apply

Spec == Init /\ [][Next]_vars /\ WF_vars(ApplyLast)
=============================================================================
