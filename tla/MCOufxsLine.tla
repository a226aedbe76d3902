----------------------------- MODULE MCOufxsLine -----------------------------
(***************************************************************************)
(* OufxsLine for TLC: arguments of DAHDI_ONHOOKTRANSFER, one of each sign. *)
(***************************************************************************)
EXTENDS OufxsLine

MCOhtArgs == {-8, 0, 3}
=============================================================================
