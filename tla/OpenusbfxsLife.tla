---------------------------- MODULE OpenusbfxsLife ----------------------------
(***************************************************************************)
(* A board of the original character-device driver, from probe to delete:  *)
(* the set-up work, the processes that open, read, control and release the *)
(* device, the isochronous URBs, and disconnect.                           *)
(*                                                                         *)
(* A process is inside open when it has found the structure through the    *)
(* interface; usbcore holds minor_rwsem meanwhile, so usb_deregister_dev   *)
(* waits for it.  When an interface is unbound usbcore first ends the URBs *)
(* in flight and makes every later transfer fail, then calls disconnect.   *)
(* A bulk command is a step that succeeds or fails (OufxsBulk has the      *)
(* protocol); the rings the URBs belong to are in OpenusbfxsRing.          *)
(***************************************************************************)
EXTENDS Naturals, FiniteSets

CONSTANTS
  Procs,       (* processes                                                *)
  InFlight,    (* rurbsinflight + wurbsinflight                            *)
  Tries,       (* reads of a retry loop of the set-up: 10                  *)
  Silent,      (* timeouts after which the set-up reports the board: 5     *)
  RetOnFail,   (* tests whose third failure ends the set-up: retoncnvfail, *)
               (* retonlbcfail                                             *)
  MaxErrors    (* bound: commands and tests that fail on a present board   *)

ASSUME OpenusbfxsConstants ==
  /\ IsFiniteSet(Procs) /\ "free" \notin Procs
  /\ InFlight \in Nat /\ Tries \in Nat \ {0} /\ Silent \in Nat \ {0}
  /\ RetOnFail \subseteq {"dcdc", "cal", "lbc"} /\ MaxErrors \in Nat

VARIABLES
  probe, intfdata, minor,     (* openusbfxs_probe; what it has published   *)
  intf,                       (* dev->intf is not NULL                     *)
  oops,                       (* the kernel has crashed                    *)
  state, kref, opencnt, deleted,
  iomutex,                    (* its holder, or "free"                     *)
  f,                          (* f[p]: what process p is doing             *)
  wpc, n, fails, left,        (* openusbfxs_setup                          *)
  timedout, timeouts,         (* ... sts = -ETIMEDOUT; the number of those *)
  anchored, flying,           (* URBs: anchored; in flight                 *)
  plugged, disc,              (* the board; openusbfxs_disconnect          *)
  errors

devVars   == <<state, kref, opencnt, deleted, iomutex>>
setupVars == <<wpc, n, fails, left, timedout, timeouts>>
urbVars   == <<anchored, flying>>
busVars   == <<probe, intfdata, minor, intf, oops, plugged, disc>>
vars == <<devVars, setupVars, urbVars, busVars, f, errors>>

Init ==
  /\ probe = "none" /\ intfdata = FALSE /\ minor = FALSE /\ intf = FALSE /\ oops = FALSE
  /\ state = "IDLE" /\ kref = 0 /\ opencnt = 0 /\ deleted = "no"
  /\ iomutex = "free" /\ f = [p \in Procs |-> "closed"]
  /\ wpc = "none" /\ n = 0 /\ left = InFlight /\ timedout = FALSE /\ timeouts = 0
  /\ fails = [t \in {"dcdc", "cal", "lbc"} |-> 0]
  /\ anchored = 0 /\ flying = 0 /\ plugged = TRUE /\ disc = "idle" /\ errors = 0

-----------------------------------------------------------------------------
(***************************************************************************)
(* openusbfxs_probe.                                                       *)
(***************************************************************************)
probe_step ==
  \/ /\ probe = "none" /\ probe' = "allocated" /\ kref' = 1 /\ intf' = TRUE
     /\ UNCHANGED <<intfdata, minor, wpc>>
  \/ /\ probe = "allocated" /\ probe' = "checked" /\ intfdata' = TRUE
     /\ UNCHANGED <<kref, minor, intf, wpc>>
  \/ /\ probe = "checked" /\ probe' = "registered" /\ minor' = TRUE
     /\ UNCHANGED <<kref, intfdata, intf, wpc>>
  \/ /\ probe = "registered" /\ probe' = "done" /\ wpc' = "wait"
     /\ UNCHANGED <<kref, intfdata, minor, intf>>

probing ==
  /\ probe_step
  /\ UNCHANGED <<oops, plugged, disc, state, opencnt, deleted, iomutex, n, fails, left,
                 timedout, timeouts, urbVars, f, errors>>

(* probe_error: out of memory, no endpoints, no minor, no buffers.  The    *)
(* clean-up reads through dev when it is NULL, and otherwise has delete    *)
(* wake queues that are not there, destroy a work queue that is not there  *)
(* and free URBs that are not there or have been freed.                    *)
probe_error ==
  /\ probe \in {"none", "allocated", "checked", "registered"}
  /\ oops' = TRUE
  /\ UNCHANGED <<probe, intfdata, minor, intf, plugged, disc, devVars, setupVars, urbVars, f,
                 errors>>

-----------------------------------------------------------------------------
(***************************************************************************)
(* kref_put and openusbfxs_delete: the state, the wake-ups, the work queue *)
(* (destroying it waits for the work), the memory.                         *)
(***************************************************************************)
awaken(g) == [p \in Procs |-> IF g[p] = "asleep" THEN "reading" ELSE g[p]]

kref_put(g) ==
  /\ kref' = kref - 1
  /\ IF kref = 1
       THEN deleted' = "waiting" /\ state' = "UNLOAD" /\ f' = awaken(g)
       ELSE f' = g /\ UNCHANGED <<deleted, state>>

(* Mutant: the work queue is left to itself.                               *)
delete_free_now ==
  /\ deleted = "waiting" /\ deleted' = "freed"
  /\ UNCHANGED <<state, kref, opencnt, iomutex, setupVars, urbVars, busVars, f, errors>>

delete_free ==
  /\ deleted = "waiting" /\ wpc = "ended"
  /\ deleted' = "freed"
  /\ UNCHANGED <<state, kref, opencnt, iomutex, setupVars, urbVars, busVars, f, errors>>

-----------------------------------------------------------------------------
(***************************************************************************)
(* openusbfxs_open.                                                        *)
(***************************************************************************)
rest_of_dev == <<setupVars, urbVars, busVars, errors>>

open_find(p) ==
  /\ f[p] = "closed" /\ minor /\ intfdata
  /\ state = "OK"
  /\ f' = [f EXCEPT ![p] = "found"]
  /\ UNCHANGED <<devVars, rest_of_dev>>

open_get(p) ==
  /\ f[p] = "found"
  /\ kref' = kref + 1
  /\ f' = [f EXCEPT ![p] = "counted"]
  /\ UNCHANGED <<state, opencnt, deleted, iomutex, rest_of_dev>>

(* Mutant: -EBUSY keeps the reference.                                     *)
open_exclusive_leak(p) ==
  /\ f[p] = "counted" /\ iomutex = "free"
  /\ \/ /\ opencnt = 0 /\ opencnt' = 1
        /\ f' = [f EXCEPT ![p] = "open"]
     \/ /\ opencnt # 0 /\ UNCHANGED opencnt
        /\ f' = [f EXCEPT ![p] = "closed"]
  /\ UNCHANGED <<state, kref, deleted, iomutex, rest_of_dev>>

(* Exclusive, under iomutex; the second opener gives its reference back.   *)
open_exclusive(p) ==
  /\ f[p] = "counted" /\ iomutex = "free"
  /\ \/ /\ opencnt = 0 /\ opencnt' = 1
        /\ f' = [f EXCEPT ![p] = "open"]
        /\ UNCHANGED <<state, kref, deleted>>
     \/ /\ opencnt # 0 /\ UNCHANGED opencnt
        /\ kref_put([f EXCEPT ![p] = "closed"])
  /\ UNCHANGED <<iomutex, rest_of_dev>>

(***************************************************************************)
(* openusbfxs_read and openusbfxs_write: they return with what there is    *)
(* (or O_NONBLOCK), or sleep until they are woken and look again.          *)
(***************************************************************************)
read(p) ==
  /\ \/ f[p] = "open" /\ state = "OK" /\ f' = [f EXCEPT ![p] = "reading"]
     \/ f[p] = "reading" /\ state = "OK" /\ f' = [f EXCEPT ![p] = "asleep"]
     \/ f[p] = "reading" /\ f' = [f EXCEPT ![p] = "open"]
  /\ UNCHANGED <<devVars, rest_of_dev>>

(* openusbfxs_ioctl: under iomutex; nothing is done unless the state is OK.*)
ioctl(p) ==
  /\ \/ /\ f[p] = "open" /\ iomutex = "free" /\ state = "OK"
        /\ iomutex' = p /\ f' = [f EXCEPT ![p] = "ioctl"]
     \/ /\ f[p] = "ioctl"
        /\ iomutex' = "free" /\ f' = [f EXCEPT ![p] = "open"]
  /\ UNCHANGED <<state, kref, opencnt, deleted, rest_of_dev>>

(* openusbfxs_flush and openusbfxs_release.                                *)
release(p) ==
  /\ \/ /\ f[p] = "open" /\ iomutex = "free"
        /\ opencnt' = opencnt - 1
        /\ f' = [f EXCEPT ![p] = "released"]
        /\ UNCHANGED <<state, kref, deleted>>
     \/ /\ f[p] = "released"
        /\ kref_put([f EXCEPT ![p] = "closed"])
        /\ UNCHANGED opencnt
  /\ UNCHANGED <<iomutex, rest_of_dev>>

-----------------------------------------------------------------------------
(***************************************************************************)
(* The board, and openusbfxs_disconnect.                                   *)
(***************************************************************************)
unplug ==
  /\ probe = "done" /\ plugged /\ plugged' = FALSE
  /\ UNCHANGED <<probe, intfdata, minor, intf, oops, disc, devVars, setupVars, urbVars, f, errors>>

(* An URB completes.  Its callback submits it again, or finds that this    *)
(* does not work any more.                                                 *)
callback ==
  /\ flying > 0
  /\ IF plugged
       THEN UNCHANGED urbVars /\ f' = awaken(f)
       ELSE /\ flying' = flying - 1 /\ anchored' = anchored - 1
            /\ f' = awaken(f)
  /\ UNCHANGED <<devVars, setupVars, busVars, errors>>

disconnect_clear ==
  /\ disc = "idle" /\ ~plugged /\ flying = 0
  /\ intfdata' = FALSE
  /\ disc' = "state"
  /\ UNCHANGED <<probe, minor, intf, oops, plugged, devVars, setupVars, urbVars, f, errors>>

(* Mutant: sleeping readers are left asleep.                               *)
disconnect_state_quiet ==
  /\ disc = "state" /\ state' = "UNLOAD"
  /\ disc' = "minor"
  /\ UNCHANGED <<probe, intfdata, minor, intf, oops, plugged, kref, opencnt, deleted, iomutex,
                 setupVars, urbVars, f, errors>>

disconnect_state ==
  /\ disc = "state" /\ state' = "UNLOAD" /\ f' = awaken(f)
  /\ disc' = "minor"
  /\ UNCHANGED <<probe, intfdata, minor, intf, oops, plugged, kref, opencnt, deleted, iomutex,
                 setupVars, urbVars, errors>>

(* usb_deregister_dev waits for processes in open.                         *)
disconnect_minor ==
  /\ disc = "minor" /\ \A p \in Procs : f[p] \notin {"found", "counted"}
  /\ minor' = FALSE
  /\ disc' = "intf"
  /\ UNCHANGED <<probe, intfdata, intf, oops, plugged, devVars, setupVars, urbVars, f, errors>>

(* Mutant: dev->intf is cleared without the mutex.                         *)
disconnect_intf_unlocked ==
  /\ disc = "intf" /\ intf' = FALSE /\ disc' = "kill"
  /\ UNCHANGED <<probe, intfdata, minor, oops, plugged, devVars, setupVars, urbVars, f, errors>>

(* dev->intf = NULL, once no ioctl is working.                             *)
disconnect_intf ==
  /\ disc = "intf" /\ iomutex = "free" /\ intf' = FALSE /\ disc' = "kill"
  /\ UNCHANGED <<probe, intfdata, minor, oops, plugged, devVars, setupVars, urbVars, f, errors>>

(* usb_kill_anchored_urbs loops until no URB is anchored, which only the   *)
(* end of an URB's flight or a failed submission can bring about.          *)
disconnect_kill ==
  /\ disc = "kill" /\ anchored = 0 /\ disc' = "put"
  /\ UNCHANGED <<probe, intfdata, minor, intf, oops, plugged, devVars, setupVars, urbVars, f,
                 errors>>

disconnect_put ==
  /\ disc = "put" /\ disc' = "done"
  /\ kref_put(f)
  /\ UNCHANGED <<probe, intfdata, minor, intf, oops, plugged, opencnt, iomutex, setupVars,
                 urbVars, errors>>

disconnect ==
  \/ disconnect_clear \/ disconnect_state \/ disconnect_minor
  \/ disconnect_intf \/ disconnect_kill \/ disconnect_put

-----------------------------------------------------------------------------
(***************************************************************************)
(* openusbfxs_setup.  A command fails if the board is gone, and now and    *)
(* then if it is not.                                                      *)
(***************************************************************************)
board == <<kref, opencnt, deleted, iomutex, busVars, f>>

setup_wait ==
  /\ wpc = "wait"
  /\ IF state = "IDLE" THEN wpc' = "restart" /\ state' = "INIT"
                       ELSE wpc' = "ended" /\ UNCHANGED state
  /\ UNCHANGED <<n, fails, left, timedout, timeouts, urbVars, errors, board>>

(* Mutant: the state is not looked at again.                               *)
setup_restart_blind ==
  /\ wpc = "restart" /\ wpc' = "sanity" /\ n' = 0
  /\ UNCHANGED <<state, fails, left, timedout, timeouts, urbVars, errors, board>>

(* init_restart: the state; the timeouts in a row (counted to one more than*)
(* those of the message, which is for the last of them).                   *)
setup_restart ==
  /\ wpc = "restart" /\ n' = 0
  /\ IF state = "UNLOAD"
       THEN wpc' = "ended" /\ UNCHANGED timeouts
       ELSE /\ timeouts' = IF timedout /\ timeouts <= Silent THEN timeouts + 1 ELSE timeouts
            /\ wpc' = IF timeouts' = Silent THEN "silent" ELSE "sanity"
  /\ UNCHANGED <<state, fails, left, timedout, urbVars, errors, board>>

(* The messages about a board that does not respond and about a test that  *)
(* has failed three times read dev->intf->minor; no lock is held, and the  *)
(* state is not looked at.                                                 *)
setup_message ==
  /\ wpc \in {"silent", "report"}
  /\ IF intf THEN wpc' = (IF wpc = "silent" THEN "sanity" ELSE "restart") /\ UNCHANGED oops
             ELSE oops' = TRUE /\ UNCHANGED wpc
  /\ UNCHANGED <<state, n, fails, left, timedout, timeouts, urbVars, errors, kref, opencnt,
                 deleted, iomutex, probe, intfdata, minor, intf, plugged, disc, f>>

(* Labels with commands, in order; the checked and unchecked writes        *)
(* between two tests are one label.                                        *)
next_label == [sanity |-> "quiesce", quiesce |-> "dcdc", dcdc |-> "disable",
               disable |-> "cal", cal |-> "q5q6", q5q6 |-> "lbc",
               lbc |-> "longcal", longcal |-> "final", final |-> "mark"]
Tests == {"dcdc", "cal", "lbc"}

commands_ok ==
  /\ plugged
  /\ wpc' = next_label[wpc] /\ n' = 0 /\ timedout' = FALSE
  /\ timeouts' = IF wpc = "sanity" THEN 0 ELSE timeouts
  /\ fails' = IF wpc \in Tests THEN [fails EXCEPT ![wpc] = 0] ELSE fails
  /\ UNCHANGED errors

(* A command fails or a checked value is wrong: two seconds, then again.   *)
command_error ==
  /\ \/ ~plugged /\ timedout' = FALSE /\ UNCHANGED errors
     \/ plugged /\ errors < MaxErrors /\ errors' = errors + 1 /\ timedout' \in BOOLEAN
  /\ wpc' = "restart" /\ UNCHANGED <<n, fails, timeouts>>

(* A test reads a bad value: read again, or fail it; the third time the    *)
(* work may end, and the state stays INIT, or reports it.  The hook is read*)
(* once; the loops of the Q5/Q6 and longitudinal calibrations never give up*)
(* (the messages after the former are never reached: j is unsigned).       *)
test_bad ==
  /\ plugged /\ errors < MaxErrors /\ errors' = errors + 1
  /\ timedout' = FALSE /\ UNCHANGED timeouts
  /\ \/ wpc \in {"dcdc", "cal"} /\ n + 1 < Tries /\ n' = n + 1 /\ UNCHANGED <<wpc, fails>>
     \/ /\ wpc \in Tests /\ (wpc = "lbc" \/ n + 1 = Tries) /\ UNCHANGED n
        /\ fails' = [fails EXCEPT ![wpc] = IF @ < 3 THEN @ + 1 ELSE 3]
        /\ wpc' = IF fails[wpc] # 2 THEN "restart"
                  ELSE IF wpc \in RetOnFail THEN "ended" ELSE "report"
     \/ wpc \in {"q5q6", "longcal"} /\ UNCHANGED <<wpc, n, fails>>

setup_commands ==
  /\ wpc \in DOMAIN next_label
  /\ commands_ok \/ command_error \/ test_bad
  /\ UNCHANGED <<state, left, urbVars, board>>

(* The state is OK, whatever it was; PCM I/O is started; then the URBs are *)
(* spawned.                                                                *)
setup_mark ==
  /\ wpc = "mark" /\ state' = "OK" /\ wpc' = "spawn"
  /\ UNCHANGED <<n, fails, left, timedout, timeouts, urbVars, errors, board>>

spawn_anchor ==
  /\ wpc = "spawn"
  /\ IF left = 0
       THEN wpc' = "ended" /\ UNCHANGED <<left, anchored>>
       ELSE wpc' = "anchored" /\ left' = left - 1 /\ anchored' = anchored + 1
  /\ UNCHANGED <<state, n, fails, timedout, timeouts, flying, errors, board>>

(* The check of the state and the submission: statelck is not held here.   *)
spawn_check ==
  /\ wpc = "anchored"
  /\ wpc' = IF state = "OK" THEN "submit" ELSE "spawn"
  /\ UNCHANGED <<state, n, fails, left, timedout, timeouts, urbVars, errors, board>>

(* Mutant: an URB that could not be submitted stays anchored.              *)
spawn_submit_keep ==
  /\ wpc = "submit" /\ wpc' = "spawn"
  /\ flying' = IF plugged THEN flying + 1 ELSE flying
  /\ UNCHANGED <<state, n, fails, left, timedout, timeouts, anchored, errors, board>>

spawn_submit ==
  /\ wpc = "submit" /\ wpc' = "spawn"
  /\ IF plugged THEN flying' = flying + 1 /\ UNCHANGED anchored
                ELSE anchored' = anchored - 1 /\ UNCHANGED flying
  /\ UNCHANGED <<state, n, fails, left, timedout, timeouts, errors, board>>

setup ==
  \/ setup_wait \/ setup_restart \/ setup_message \/ setup_commands \/ setup_mark
  \/ spawn_anchor \/ spawn_check \/ spawn_submit

-----------------------------------------------------------------------------
proc(p) ==
  open_find(p) \/ open_get(p) \/ open_exclusive(p) \/ read(p) \/ ioctl(p) \/ release(p)

(* Nothing is left to do: the driver is through with the board, and no     *)
(* process has a call to make (ReadersReturn says that none sleeps).       *)
over ==
  /\ oops \/ (disc = "done" /\ \A p \in Procs : f[p] \in {"closed", "asleep"})
  /\ UNCHANGED vars

(* An URB was anchored and not submitted: disconnect spins.                *)
spin ==
  /\ disc = "kill" /\ anchored > 0 /\ flying = 0 /\ wpc = "ended"
  /\ UNCHANGED vars

Next ==
  \/ ~oops /\ (probing \/ probe_error \/ delete_free \/ unplug \/ callback \/ disconnect
               \/ setup \/ \E p \in Procs : proc(p))
  \/ over \/ spin

Spec == Init /\ [][Next]_vars

(* The work, disconnect, delete and the URBs make progress; a process that *)
(* is in a call gets on with it, and closes its file once the board is     *)
(* gone.                                                                   *)
in_call(p) == f[p] \notin {"closed", "open"} /\ proc(p)
closes(p)  == state # "OK" /\ release(p)

FairSpec ==
  /\ Spec /\ WF_vars(setup) /\ WF_vars(disconnect) /\ WF_vars(delete_free)
  /\ WF_vars(callback)
  /\ \A p \in Procs : SF_vars(in_call(p)) /\ SF_vars(closes(p))

-----------------------------------------------------------------------------
(***************************************************************************)
(* Properties.                                                             *)
(***************************************************************************)
holds(p) == f[p] \in {"counted", "open", "reading", "asleep", "ioctl", "released"}
sees(p)  == holds(p) \/ f[p] = "found"

(* Types; the mutex is held by the process in ioctl, and one process has   *)
(* the device open; the reference count is the number of those who hold the*)
(* structure: the driver until disconnect, each process from open to the   *)
(* end of release.                                                         *)
TypeOK ==
  /\ probe \in {"none", "allocated", "checked", "registered", "done"}
  /\ state \in {"IDLE", "INIT", "OK", "UNLOAD"}
  /\ kref \in 0..(Cardinality(Procs) + 1) /\ opencnt \in 0..1
  /\ deleted \in {"no", "waiting", "freed"}
  /\ f \in [Procs -> {"closed", "found", "counted", "open", "reading", "asleep", "ioctl", "released"}]
  /\ iomutex = "free" \/ f[iomutex] = "ioctl"
  /\ Cardinality({p \in Procs : f[p] \in {"open", "reading", "asleep", "ioctl"}}) <= 1
  /\ kref = Cardinality({p \in Procs : holds(p)})
            + (IF probe # "none" /\ disc # "done" THEN 1 ELSE 0)
  /\ n \in 0..Tries /\ fails \in [Tests -> 0..3]
  /\ timedout \in BOOLEAN /\ timeouts \in 0..(Silent + 1)
  /\ anchored \in 0..InFlight /\ flying \in 0..anchored /\ errors \in 0..MaxErrors

(* Nothing works on memory that is not there: a process finds the structure*)
(* only when probe is through with it, although the minor is published     *)
(* before the buffers, the wait queues and the work queue exist; when it is*)
(* freed no process has found or holds it, the work has ended, no URB is in*)
(* flight and disconnect is through (openusbfxs.c:391, 948, 2296); and when*)
(* dev->intf is gone no ioctl works, and none will ("prevent any filesystem*)
(* based I/O from starting").  The set-up work is not kept from it: see    *)
(* SetupReturns.                                                           *)
InUseAlive ==
  /\ \A p \in Procs : sees(p) => probe = "done"
  /\ deleted = "freed" =>
       /\ \A p \in Procs : ~sees(p)
       /\ wpc = "ended" /\ flying = 0 /\ disc = "done"
  /\ \A p \in Procs : f[p] = "ioctl" => intf

(* The set-up returns when the driver unloads (openusbfxs.c:1645, "return  *)
(* if driver is unloading").  It does not always: it may be about to report*)
(* a board when disconnect removes dev->intf, and reads through NULL.      *)
SetupReturns == ~(oops /\ probe = "done")

(* URBs left on the anchor: neither in flight nor about to be submitted.   *)
(* Nothing takes them off it any more.                                     *)
Stranded == anchored > flying + (IF wpc \in {"anchored", "submit"} THEN 1 ELSE 0)

(* An URB is left on the anchor only if the set-up found, between anchoring*)
(* it and looking at the state, that disconnect had begun;                 *)
(* usb_kill_anchored_urbs waits for ever in that case only.                *)
AnchoredFlies == Stranded => disc \notin {"idle", "state"}

(* A process that sleeps in read or write when the board goes away returns.*)
ReadersReturn == \A p \in Procs : f[p] = "asleep" /\ disc # "idle" ~> f[p] = "closed"

(* After an unplugging the structure is freed, however far the set-up was, *)
(* once the processes have closed their files; unless an URB was left on   *)
(* the anchor, where disconnect spins, or the set-up has crashed.          *)
Freed == ~plugged ~> (deleted = "freed" \/ Stranded \/ oops)

=============================================================================
