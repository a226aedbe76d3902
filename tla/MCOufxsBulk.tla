----------------------------- MODULE MCOufxsBulk -----------------------------
(***************************************************************************)
(* Scenarios for TLC: tests that fail, a transfer that times out, boards   *)
(* open to processes before they are set up, SOF profiling, and boards     *)
(* without a serial number.                                                *)
(***************************************************************************)
EXTENDS OufxsBulk

usual == [serial |-> "burnt", sofprofile |-> "off", availinerror |-> FALSE,
          retonfail |-> FALSE, late |-> 0, bad |-> 0]

(* The converter's, the ADC's or the Q5/Q6 test fails three times.         *)
failing == [usual EXCEPT !.bad = 3 * Tries]

BulkParams ==
  { failing, [failing EXCEPT !.retonfail = TRUE],
    [usual EXCEPT !.late = 2, !.bad = 1],
    [usual EXCEPT !.availinerror = TRUE, !.bad = 1],
    [usual EXCEPT !.sofprofile = "early", !.late = 1],
    [usual EXCEPT !.sofprofile = "late"],
    [usual EXCEPT !.serial = "none"],
    [usual EXCEPT !.serial = "blank", !.availinerror = TRUE] }

(* One transfer times out, and nothing else is wrong.                      *)
LateParams == { [usual EXCEPT !.late = 1] }

=============================================================================
