------------------------------- MODULE OufxsHook -------------------------------
(***************************************************************************)
(* Hook state and DTMF digits on their way from the telephone to the PBX:  *)
(* the line chip's interrupts, ProcessIO of the firmware, the odd packets  *)
(* that carry hkdtmf, and the callback of the driver with its debouncer    *)
(* and its event filter.                                                   *)
(*                                                                         *)
(* Only odd packets carry hkdtmf, so a packet here is one every two        *)
(* milliseconds, and Debounce, "time in milliseconds", counts them.  The   *)
(* interrupt handler takes hkdtmf between any two statements of ProcessIO, *)
(* which goes round at least once per packet.                              *)
(***************************************************************************)
EXTENDS Naturals

CONSTANTS
  Digits,      (* the keys                                                 *)
  None,        (* no key                                                   *)
  Debounce,    (* 32                                                       *)
  LostRun,     (* at most so many packets are lost in a row                *)
  Events       (* bound: sets of "tonedetect" and "replug"; those of one   *)
               (* set may come in the same behaviour                       *)

ASSUME HookConstants ==
  /\ None \notin Digits /\ Debounce \in Nat \ {0}
  /\ LostRun \in Nat
  /\ Events \subseteq SUBSET {"tonedetect", "replug"}

VARIABLES
  hook, key,                 (* the telephone: DR 68, DR 24                *)
  dr19, dr20,                (* pending interrupts                         *)
  fpc, smp,                  (* ProcessIO; its copy of DR 24               *)
  hk, dg,                    (* hkdtmf: bit 7; bits 4 to 0                 *)
  rounds,                    (* ProcessIO has gone round since last packet *)
  lastrxhook, debounce, debouncehook, oldrxhook, dtmf, dtmf_on,
  heard,                     (* the key the PBX has been told is down      *)
  seen, same,                (* the hook state of the last packet received,*)
                             (* and of how many in a row, up to Debounce+1 *)
  stale,                     (* a debounce of another state was running at *)
                             (* the new plug-in and has not started again  *)
  pause,                     (* 0 until the poll finds that no key is down,*)
                             (* then 1 and the packets since, up to Seen   *)
  slurred,                   (* the key came down before pause was Seen    *)
  lost,                      (* packets lost in a row                      *)
  toned, replugged           (* TONEDETECT, or a new plug-in, has happened *)

phoneVars == <<hook, key, slurred>>
chipVars  == <<dr19, dr20>>
fwVars    == <<fpc, smp, hk, dg>>
hookVars  == <<lastrxhook, debounce, debouncehook, oldrxhook>>
seenVars  == <<seen, same, stale>>
dtmfVars  == <<dtmf, heard>>
vars == <<phoneVars, chipVars, fwVars, hookVars, seenVars, dtmfVars, rounds, pause, dtmf_on,
          lost, toned, replugged>>

(* After so many packets one has been received that says the key is up.    *)
Seen == LostRun + 2

may_come(e) ==
  \E E \in Events : /\ e \in E
                    /\ toned => "tonedetect" \in E
                    /\ replugged => "replug" \in E

Init ==
  /\ hook = FALSE /\ key = None /\ dr19 = {} /\ dr20 = FALSE
  /\ fpc = "int" /\ smp = None /\ hk = FALSE /\ dg = None /\ rounds = FALSE
  /\ lastrxhook = FALSE /\ debounce = 0 /\ debouncehook = FALSE /\ oldrxhook = FALSE
  /\ dtmf = None /\ dtmf_on = TRUE
  /\ heard = None /\ seen = FALSE /\ same = Debounce + 1 /\ stale = FALSE
  /\ pause = Seen /\ slurred = FALSE
  /\ lost = 0 /\ toned = FALSE /\ replugged = FALSE

-----------------------------------------------------------------------------
(***************************************************************************)
(* The telephone and the line chip.  (DR 69 and DR 70 hold a hook change   *)
(* for 12.5 ms; nothing here relies on that.)                              *)
(***************************************************************************)
flip ==
  /\ hook' = ~hook /\ dr19' = dr19 \union {"hook"}
  /\ UNCHANGED <<key, slurred, dr20, fwVars, hookVars, seenVars, dtmfVars, rounds, pause,
                 dtmf_on, lost, toned, replugged>>

press ==
  /\ key = None /\ slurred' = (pause < Seen) /\ pause' = 0
  /\ \E d \in Digits : key' = d
  /\ dr20' = TRUE
  /\ UNCHANGED <<hook, dr19, fwVars, hookVars, seenVars, dtmfVars, rounds,
                 dtmf_on, lost, toned, replugged>>

(* No interrupt tells the end of a digit.                                  *)
unpress ==
  /\ key # None /\ key' = None
  /\ UNCHANGED <<hook, slurred, chipVars, fwVars, hookVars, seenVars, dtmfVars, rounds,
                 pause, dtmf_on, lost, toned, replugged>>

(* A power alarm.  It may come again as soon as it is cleared.  (No others *)
(* are enabled: DR 21 is 0, DR 23 has DTMF only, oufxs.c:2247-2249.)       *)
alarm ==
  /\ dr19' = dr19 \union {"power"}
  /\ UNCHANGED <<phoneVars, dr20, fwVars, hookVars, seenVars, dtmfVars, rounds,
                 pause, dtmf_on, lost, toned, replugged>>

-----------------------------------------------------------------------------
(***************************************************************************)
(* ProcessIO.  Reading DR 19 or DR 20 and writing back what was read is    *)
(* one step: only bits that were read are cleared.                         *)
(***************************************************************************)
others == <<phoneVars, hookVars, seenVars, dtmfVars, dtmf_on, lost, toned, replugged>>
int_3210 == dr19 # {} \/ dr20

fw_int ==
  /\ fpc = "int" /\ int_3210 /\ fpc' = "hook"
  /\ UNCHANGED <<smp, hk, dg, dr19, dr20, rounds, pause, others>>

(* Mutant: only interrupts are looked at.                                  *)
fw_poll_never ==
  /\ fpc = "int" /\ ~int_3210 /\ rounds' = TRUE
  /\ UNCHANGED <<fpc, smp, hk, dg, dr19, dr20, pause, others>>

(* No interrupt: a digit is polled for its end.                            *)
fw_poll ==
  /\ fpc = "int" /\ ~int_3210 /\ rounds' = TRUE
  /\ dg' = IF key = None THEN None ELSE dg
  /\ pause' = IF key = None /\ pause = 0 THEN 1 ELSE pause
  /\ UNCHANGED <<fpc, smp, hk, dr19, dr20, others>>

(* Mutant: DR 68 is read before the interrupt is cleared.                  *)
fw_hook_swapped ==
  /\ \/ /\ fpc = "hook" /\ UNCHANGED dr19
        /\ hk' = IF "hook" \in dr19 THEN hook ELSE hk
        /\ fpc' = "dr68"
     \/ fpc = "dr68" /\ dr19' = {} /\ fpc' = "dtmf" /\ UNCHANGED hk
  /\ UNCHANGED <<smp, dg, dr20, rounds, pause, others>>

(* DR 19 is cleared; if the hook has changed DR 68 is read.                *)
fw_hook ==
  /\ \/ /\ fpc = "hook" /\ dr19' = {} /\ UNCHANGED hk
        /\ fpc' = IF "hook" \in dr19 THEN "dr68" ELSE "dtmf"
     \/ fpc = "dr68" /\ hk' = hook /\ fpc' = "dtmf" /\ UNCHANGED dr19
  /\ UNCHANGED <<smp, dg, dr20, rounds, pause, others>>

(* The same for DR 20 and DR 24; the digit is first cleared, then set.     *)
fw_dtmf ==
  /\ \/ /\ fpc = "dtmf" /\ dr20' = FALSE /\ UNCHANGED <<smp, dg>>
        /\ IF dr20 THEN fpc' = "dr24" /\ UNCHANGED rounds
                   ELSE fpc' = "int" /\ rounds' = TRUE
     \/ /\ fpc = "dr24" /\ smp' = key /\ dg' = None
        /\ fpc' = "or" /\ UNCHANGED <<dr20, rounds>>
     \/ /\ fpc = "or" /\ dg' = smp /\ smp' = None
        /\ fpc' = "int" /\ rounds' = TRUE /\ UNCHANGED dr20
  /\ UNCHANGED <<hk, dr19, pause, others>>

-----------------------------------------------------------------------------
(***************************************************************************)
(* oufxs_isoc_in__cbak.                                                    *)
(***************************************************************************)
(* Mutant: a debouncer that runs is not started again.                     *)
in_hook_once ==
  /\ lastrxhook' = hk
  /\ debounce' = IF hk # lastrxhook /\ debounce = 0 THEN Debounce
                 ELSE IF debounce > 0 THEN debounce - 1 ELSE 0
  /\ debouncehook' = IF debounce = 1 THEN hk ELSE debouncehook
  /\ oldrxhook' = debouncehook'

(* A different state starts the debouncer; when it has run down the state  *)
(* is signalled if it is not the one signalled last (oldrxhook).           *)
in_hook ==
  /\ lastrxhook' = hk
  /\ \/ /\ hk # lastrxhook /\ debounce' = Debounce
        /\ UNCHANGED <<debouncehook, oldrxhook>>
     \/ /\ hk = lastrxhook
        /\ debounce' = IF debounce > 0 THEN debounce - 1 ELSE 0
        /\ debouncehook' = IF debounce = 1 THEN hk ELSE debouncehook
        /\ oldrxhook' = debouncehook'

(* How many packets in a row have said the same, which the driver does not *)
(* count.                                                                  *)
in_seen ==
  /\ seen' = hk
  /\ same' = IF hk # seen THEN 1 ELSE IF same <= Debounce THEN same + 1 ELSE same
  /\ stale' = (stale /\ hk = lastrxhook)

(* DTMFDOWN when a key appears, DTMFUP when it disappears, if tones are    *)
(* wanted; a key that follows another without a pause is not signalled.    *)
in_dtmf ==
  /\ dtmf' = dg
  /\ heard' = CASE dtmf_on /\ dg # None /\ dtmf = None -> dg
                [] dtmf_on /\ dg = None /\ dtmf # None -> None
                [] OTHER -> heard

(* Mutant: a bad packet ends the digit.                                    *)
packet_forget ==
  /\ rounds /\ rounds' = FALSE
  /\ pause' = IF pause \in 1 .. Seen - 1 THEN pause + 1 ELSE pause
  /\ \/ in_hook /\ in_seen /\ in_dtmf /\ lost' = 0
     \/ /\ lost < LostRun /\ lost' = lost + 1 /\ dtmf' = None
        /\ UNCHANGED <<hookVars, seenVars, heard>>
  /\ UNCHANGED <<phoneVars, dr19, dr20, fwVars, dtmf_on, toned, replugged>>

(* An odd packet is sent; it is received well, or lost or in error.        *)
packet ==
  /\ rounds /\ rounds' = FALSE
  /\ pause' = IF pause \in 1 .. Seen - 1 THEN pause + 1 ELSE pause
  /\ \/ in_hook /\ in_seen /\ in_dtmf /\ lost' = 0
     \/ /\ lost < LostRun /\ lost' = lost + 1
        /\ UNCHANGED <<hookVars, seenVars, dtmfVars>>
  /\ UNCHANGED <<phoneVars, dr19, dr20, fwVars, dtmf_on, toned, replugged>>

(* DAHDI_TONEDETECT.                                                       *)
tonedetect ==
  /\ may_come("tonedetect")
  /\ \E on \in BOOLEAN : dtmf_on' = on
  /\ toned' = TRUE
  /\ UNCHANGED <<phoneVars, chipVars, fwVars, hookVars, seenVars, dtmfVars, rounds, pause,
                 lost, replugged>>

(* The reserved board is unplugged, and plugged in and set up again: of the*)
(* driver's state lastrxhook, dtmf and dtmf_on are reset.                  *)
replug ==
  /\ may_come("replug") /\ ~replugged /\ replugged' = TRUE
  /\ dr19' = IF hook THEN {"hook"} ELSE {}
  /\ dr20' = (key # None) /\ fpc' = "int" /\ smp' = None /\ hk' = FALSE /\ dg' = None
  /\ lastrxhook' = FALSE /\ dtmf' = None /\ dtmf_on' = TRUE
  /\ stale' = (debounce > 0 /\ lastrxhook)
  /\ UNCHANGED <<phoneVars, debounce, debouncehook, oldrxhook, seen, same, heard,
                 rounds, pause, lost, toned>>

-----------------------------------------------------------------------------
ProcessIO == fw_int \/ fw_poll \/ fw_hook \/ fw_dtmf

Next == flip \/ press \/ unpress \/ alarm \/ ProcessIO \/ packet \/ tonedetect \/ replug

Spec == Init /\ [][Next]_vars

(* The main loop goes round and packets are sent.                          *)
FairSpec == Spec /\ WF_vars(ProcessIO) /\ SF_vars(packet)

-----------------------------------------------------------------------------
(***************************************************************************)
(* Properties.                                                             *)
(***************************************************************************)

(* The PBX is told of a hook state only after Debounce more packets have   *)
(* said the same as the one before them, however the telephone bounces and *)
(* whichever packets are lost (oufxs.c:1466-1491).  Left out is the state  *)
(* on which a debounce settles that was running, for the other state, when *)
(* a reserved board was plugged in again: lastrxhook was reset, the        *)
(* debouncer was not (oufxs.c:1803), and one packet may do.                *)
HookDebounced ==
  [][oldrxhook' # oldrxhook => oldrxhook' = seen' /\ (stale \/ same' = Debounce + 1)]_vars

(* What the comment "if (debounced) hook state has changed, signal         *)
(* upstream" says (oufxs.c:1478), new plug-ins included.  Does not hold:   *)
(* a new plug-in puts a debounce that is running astray.                   *)
SignalDebounced ==
  [][oldrxhook' # oldrxhook => same' = Debounce + 1]_vars

(* Once the telephone leaves its hook alone the PBX is told the state it   *)
(* is in, although changes come while ProcessIO deals with others, unless  *)
(* a reserved board was plugged in again.                                  *)
HookSettles ==
  \A h \in BOOLEAN : <>[](hook = h /\ ~replugged) => <>[](oldrxhook = h)

(* DTMFDOWN and DTMFUP alternate, and an up event names the key of the     *)
(* down event before it (the driver takes it from the last packet, dtmf),  *)
(* as long as the PBX does not change its mind about tones.  Left out are  *)
(* keys before which the poll has not found the last one up in time for    *)
(* more packets than are lost: interrupts hold it up (oufxs.c:1517-1538,   *)
(* user.c:236, 253).                                                       *)
DigitPairs ==
  [][heard' # heard /\ ~toned /\ ~replugged /\ ~slurred =>
       IF heard = None THEN heard' # None ELSE heard' = None /\ dtmf = heard]_vars

(* A key that is not down any more comes up at the PBX as well, although   *)
(* the chip has no interrupt for that, unless alarms keep ProcessIO from   *)
(* ever polling again (user.c:242-259).                                    *)
DigitEnds ==
  <>[](key = None /\ ~toned /\ ~replugged) /\ []<><<fw_poll>>_vars => <>[](heard = None)

(* What the comment "if DTMF was detected in previous round, keep probing  *)
(* DR 24" (user.c:252) says: a digit that is up is reset.  Does not hold   *)
(* while alarms come again and again.                                      *)
KeepsProbing == <>[](key = None) => <>[](dg = None)

=============================================================================
