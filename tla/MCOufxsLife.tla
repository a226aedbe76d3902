----------------------------- MODULE MCOufxsLife -----------------------------
(* Instances of OufxsLife for TLC: which slots have a reserved serial.     *)
EXTENDS OufxsLife

CONSTANTS a, b, c

(* One reserved slot; the others are handed out by probe.                  *)
OneReserved == [s \in Slots |-> IF s = 0 THEN {a} ELSE {}]
=============================================================================
