------------------------------ MODULE OufxsLife ------------------------------
(***************************************************************************)
(* The life of a board's structure in the DAHDI driver: oufxs_probe,       *)
(* oufxs_setup (as far as dev->state is concerned), oufxs_open, _ioctl,    *)
(* _close, oufxs_disconnect and the kref destructor oufxs_delete.          *)
(*                                                                         *)
(* boards[] has one slot per board.  A slot whose serial number is         *)
(* reserved (rsvserials=) holds a structure from module load on, with a    *)
(* channel registered in DAHDI; it survives unplugs.  The other slots are  *)
(* allocated by probe and freed by delete.  The structure is kept alive by *)
(* a kref: one reference for the bound USB interface, one per open.        *)
(*                                                                         *)
(* The USB core (external) probes a board when it is plugged in and        *)
(* disconnects it when it is unplugged.  DAHDI (external) opens a channel  *)
(* once at a time and calls its span's operations.  The variable bad       *)
(* collects what the kernel would punish: a NULL dereference ("oops"),     *)
(* buffers freed twice ("double_free"), a kref that is put or taken at     *)
(* zero ("kref"), a channel closed after its structure is gone ("uaf");    *)
(* and whether a probe has met a shortage ("short"): no slot is free, or   *)
(* an allocation or the registration fails.                                *)
(***************************************************************************)
EXTENDS Naturals, FiniteSets

CONSTANTS
  Slots,         (* indexes of boards[], 0 .. OUFXS_MAX_BOARDS - 1         *)
  Boards,        (* physical boards                                        *)
  ReservedFor,   (* ReservedFor[s]: boards whose serial is reserved to s   *)
  MayFail,       (* allocations and dahdi_register may fail                *)
  AvailInError,  (* the module parameter availinerror                      *)
  NoBoard,       (* a NULL udev                                            *)
  MaxPlugs       (* bound: plug-ins                                        *)

ASSUME LifeConstants ==
  /\ Slots \subseteq Nat /\ Slots # {} /\ IsFiniteSet(Boards)
  /\ NoBoard \notin Boards
  /\ ReservedFor \in [Slots -> SUBSET Boards]
  /\ \A s, t \in Slots : s # t => ReservedFor[s] \cap ReservedFor[t] = {}
  /\ MayFail \in BOOLEAN /\ AvailInError \in BOOLEAN
  /\ MaxPlugs \in Nat

VARIABLES
  boards,   (* boards[s]: "null", "one" (marked, not yet allocated), "dev" *)
  dev,      (* dev[s]: the structure of slot s                             *)
  pc, at,   (* progress of the probe of a board, and the slot it works on  *)
  worker,   (* the setup work of a structure                               *)
  user,     (* the opener of the slot's channel                            *)
  deleting, (* progress of oufxs_delete                                    *)
  bad, plugs

vars == <<boards, dev, pc, at, worker, user, deleting, bad, plugs>>

Rsrvd(s)  == ReservedFor[s] # {}
SlotOf(b) == {s \in Slots : b \in ReservedFor[s]}

(* mem: kzalloc'ed; bufs: URBs and buffers; urbs: the isochronous engine   *)
(* has URBs in flight ("flying"), or has left one on the anchor ("left");  *)
(* ops: what DAHDI finds in the span; eps: endpoint addresses known.       *)
Blank == [mem |-> TRUE, kref |-> 0, opencnt |-> 0, udev |-> NoBoard,
          bufs |-> "none", urbs |-> "none", state |-> "IDLE", ops |-> "dummy",
          eps |-> FALSE]
Freed == [Blank EXCEPT !.mem = FALSE, !.ops = "none"]

(* process_rsvserials has registered the reserved channels at load time.   *)
Init ==
  /\ boards = [s \in Slots |-> IF Rsrvd(s) THEN "dev" ELSE "null"]
  /\ dev = [s \in Slots |-> IF Rsrvd(s) THEN Blank ELSE Freed]
  /\ pc = [b \in Boards |-> "out"]
  /\ at = [b \in Boards |-> CHOOSE s \in Slots : TRUE]
  /\ worker = [s \in Slots |-> "none"]
  /\ user = [s \in Slots |-> "closed"]
  /\ deleting = [s \in Slots |-> "no"]
  /\ bad = {}
  /\ plugs = 0

(* usb_free_coherent / usb_free_urb: the pointers in outbufs[] and         *)
(* in_bufs[] are not cleared, so whoever comes second frees them again.    *)
FreeBufs(d)  == [d EXCEPT !.bufs = IF @ = "none" THEN "none" ELSE "freed"]
FreeFault(d) == IF d.bufs = "freed" THEN {"double_free"} ELSE {}

(* kref_put of the structure d0 of slot s: the last reference runs         *)
(* oufxs_delete.                                                           *)
kref_put(s, d0, more) ==
  /\ dev' = [dev EXCEPT ![s] = [d0 EXCEPT !.kref = IF @ = 0 THEN 0 ELSE @ - 1]]
  /\ deleting' = [deleting EXCEPT ![s] = IF d0.kref = 1 THEN "begin" ELSE @]
  /\ bad' = bad \cup more \cup (IF d0.kref = 0 THEN {"kref"} ELSE {})

-----------------------------------------------------------------------------
(* oufxs_probe.                                                            *)

(* probe_error: free the buffers of whatever structure dev points to, drop *)
(* its reference, and reset the slot if it is still marked.                *)
probe_error(b, s, why) ==
  /\ kref_put(s, FreeBufs(dev[s]), FreeFault(dev[s]) \cup why)
  /\ pc' = [pc EXCEPT ![b] = "failed"]

(* With dev == NULL the loop over dev->outbufs[] is a NULL dereference.    *)
probe_error_null(b) ==
  /\ bad' = bad \cup {"oops", "short"}
  /\ pc' = [pc EXCEPT ![b] = "failed"]
  /\ UNCHANGED <<dev, deleting>>

probe_reserved(b) ==
  \E s \in SlotOf(b) :
    /\ pc[b] = "out" /\ plugs < MaxPlugs
    /\ plugs' = plugs + 1
    /\ at' = [at EXCEPT ![b] = s]
    /\ IF dev[s].udev # NoBoard
         THEN probe_error(b, s, {})      \* "(!) duplicate serial ignored"
         ELSE pc' = [pc EXCEPT ![b] = "init"] /\ UNCHANGED <<dev, deleting, bad>>
    /\ UNCHANGED <<boards, worker, user>>

(* Mutant: the slot is found but not marked.                               *)
probe_find_slot_unmarked(b) ==
  /\ SlotOf(b) = {} /\ pc[b] = "out" /\ plugs < MaxPlugs
  /\ plugs' = plugs + 1
  /\ \E s \in Slots :
       /\ boards[s] = "null" /\ \A t \in Slots : t < s => boards[t] # "null"
       /\ at' = [at EXCEPT ![b] = s]
       /\ pc' = [pc EXCEPT ![b] = "alloc"]
  /\ UNCHANGED <<boards, dev, worker, user, deleting, bad>>

(* Under boardslock: find an empty slot and mark it.                       *)
probe_find_slot(b) ==
  /\ SlotOf(b) = {} /\ pc[b] = "out" /\ plugs < MaxPlugs
  /\ plugs' = plugs + 1
  /\ \/ \E s \in Slots :
          /\ boards[s] = "null" /\ \A t \in Slots : t < s => boards[t] # "null"
          /\ boards' = [boards EXCEPT ![s] = "one"]
          /\ at' = [at EXCEPT ![b] = s]
          /\ pc' = [pc EXCEPT ![b] = "alloc"]
          /\ UNCHANGED <<dev, deleting, bad>>
     \/ /\ \A s \in Slots : boards[s] # "null"     \* too many boards
        /\ probe_error_null(b)
        /\ UNCHANGED <<boards, at>>
  /\ UNCHANGED <<worker, user>>

probe_kzalloc(b) ==
  LET s == at[b] IN
  /\ pc[b] = "alloc"
  /\ \/ /\ dev' = [dev EXCEPT ![s] = [Blank EXCEPT !.ops = "none"]]
        /\ boards' = [boards EXCEPT ![s] = "dev"]
        /\ pc' = [pc EXCEPT ![b] = "init"]
        /\ UNCHANGED <<deleting, bad>>
     \/ MayFail /\ probe_error_null(b) /\ UNCHANGED boards
  /\ UNCHANGED <<at, worker, user, plugs>>

(* kref_init, state, udev, endpoints, then the URBs and buffers, of which  *)
(* an allocation may fail at once or after others; a reserved structure    *)
(* still holds the pointers of its last life.                              *)
probe_init(b) ==
  LET s == at[b]
      d == [dev[s] EXCEPT !.kref = 1, !.state = "IDLE", !.udev = b,
                          !.eps = TRUE, !.bufs = "live"]
  IN
  /\ pc[b] = "init"
  /\ \/ /\ dev' = [dev EXCEPT ![s] = d]
        /\ pc' = [pc EXCEPT ![b] = "register"]
        /\ UNCHANGED <<deleting, bad>>
     \/ /\ MayFail
        /\ \E some \in BOOLEAN :
             kref_put(s, IF some THEN FreeBufs(d) ELSE [d EXCEPT !.bufs = dev[s].bufs],
                      FreeFault(dev[s]) \cup {"short"})
        /\ pc' = [pc EXCEPT ![b] = "failed"]
  /\ UNCHANGED <<boards, at, worker, user, plugs>>

(* An unreserved board gets a channel and its span is registered; the span *)
(* gets the real operations; then the work queue is created, the setup     *)
(* work is queued and the probe returns.  Neither the channel nor the work *)
(* queue is compared with NULL before it is used.                          *)
probe_register(b) ==
  LET s == at[b] IN
  /\ pc[b] = "register"
  /\ \/ /\ dev' = [dev EXCEPT ![s].ops = "real"]
        /\ worker' = [worker EXCEPT ![s] = "queued"]
        /\ pc' = [pc EXCEPT ![b] = "bound"]
        /\ UNCHANGED <<deleting, bad>>
     \/ /\ MayFail /\ ~Rsrvd(s)             \* dahdi_register
        /\ probe_error(b, s, {"short"})
        /\ UNCHANGED worker
     \/ /\ MayFail
        /\ \/ ~Rsrvd(s) /\ UNCHANGED dev    \* dev->chans[0] == NULL
           \/ dev' = [dev EXCEPT ![s].ops = "real"]   \* dev->iniwq == NULL
        /\ bad' = bad \cup {"oops", "short"}
        /\ UNCHANGED <<pc, worker, deleting>>
  /\ UNCHANGED <<boards, at, user, plugs>>

(* A board that was refused is pulled out again.                           *)
unplug_refused(b) ==
  /\ pc[b] = "failed"
  /\ pc' = [pc EXCEPT ![b] = "out"]
  /\ UNCHANGED <<boards, dev, at, worker, user, deleting, bad, plugs>>

-----------------------------------------------------------------------------
(* Mutant: the worker never looks for UNLOAD.                              *)
setup_init_restart_blind(s) ==
  /\ worker[s] = "init"
  /\ worker' = [worker EXCEPT ![s] = "stages"]
  /\ UNCHANGED <<boards, dev, pc, at, user, deleting, bad, plugs>>

(* oufxs_setup: nothing is done for a board without a serial number, and   *)
(* "never proceed unless in idle state"; init_restart looks for UNLOAD;    *)
(* the stages fail and restart, give up (ERROR by retoncnvfail and its     *)
(* like, no change by sofprofile) or succeed; success and failure are      *)
(* written without a look at the state.                                    *)
setup_start(s) ==
  /\ worker[s] = "queued"
  /\ \/ /\ dev[s].state = "IDLE"
        /\ worker' = [worker EXCEPT ![s] = "init"]
        /\ dev' = [dev EXCEPT ![s].state = "INIT"]
     \/ worker' = [worker EXCEPT ![s] = "none"] /\ UNCHANGED dev
  /\ UNCHANGED <<boards, pc, at, user, deleting, bad, plugs>>

setup_init_restart(s) ==
  /\ worker[s] = "init"
  /\ worker' = [worker EXCEPT ![s] = IF dev[s].state = "UNLOAD" THEN "none" ELSE "stages"]
  /\ UNCHANGED <<boards, dev, pc, at, user, deleting, bad, plugs>>

setup_stages(s) ==
  /\ worker[s] = "stages"
  /\ \/ worker' = [worker EXCEPT ![s] = "init"] /\ UNCHANGED dev
     \/ /\ worker' = [worker EXCEPT ![s] = "none"]
        /\ \E st \in {"ERROR", dev[s].state} : dev' = [dev EXCEPT ![s].state = st]
     \/ /\ worker' = [worker EXCEPT ![s] = "spawn"]
        /\ dev' = [dev EXCEPT ![s].state = "OK"]
  /\ UNCHANGED <<boards, pc, at, user, deleting, bad, plugs>>

(* The two loops at the end: URBs are submitted while the state is OK and  *)
(* the board is there; one that meets another state stays on the anchor    *)
(* (OufxsIsoc has the loops URB by URB).                                   *)
setup_spawn(s) ==
  /\ worker[s] = "spawn"
  /\ worker' = [worker EXCEPT ![s] = "none"]
  /\ \E u \in {"none", "flying", "left"} :
       /\ u = "flying" => \E b \in Boards : pc[b] = "bound" /\ at[b] = s
       /\ u = "left" <=> dev[s].state # "OK"
       /\ dev' = [dev EXCEPT ![s].urbs = u]
  /\ UNCHANGED <<boards, pc, at, user, deleting, bad, plugs>>

setup(s) == setup_start(s) \/ setup_init_restart(s) \/ setup_stages(s) \/ setup_spawn(s)

(* The URBs in flight are given back and their callbacks submit the next   *)
(* ones (a step that changes nothing here), until they are refused: by the *)
(* USB core, or because the state is no longer OK, and then they stay on   *)
(* the anchor.                                                             *)
isoc_cbak(s) ==
  /\ dev[s].urbs = "flying"
  /\ dev' = [dev EXCEPT ![s].urbs = IF dev[s].state = "OK" THEN "none" ELSE "left"]
  /\ UNCHANGED <<boards, pc, at, worker, user, deleting, bad, plugs>>

-----------------------------------------------------------------------------
(* oufxs_open: the state is tested, later the references are taken.  The   *)
(* dummy operations of a reserved channel refuse (-ENXIO).                 *)
open_check(s) ==
  /\ user[s] = "closed" /\ dev[s].ops = "real"
  /\ dev[s].state = "OK" \/ (AvailInError /\ dev[s].state # "INIT")
  /\ user' = [user EXCEPT ![s] = "opening"]
  /\ UNCHANGED <<boards, dev, pc, at, worker, deleting, bad, plugs>>

(* Mutant: no reference is taken for the opener.                           *)
open_get_no_ref(s) ==
  /\ user[s] = "opening"
  /\ dev' = [dev EXCEPT ![s].opencnt = @ + 1]
  /\ user' = [user EXCEPT ![s] = "open"]
  /\ UNCHANGED <<boards, pc, at, worker, deleting, bad, plugs>>

open_get(s) ==
  /\ user[s] = "opening"
  /\ dev' = [dev EXCEPT ![s].kref = @ + 1, ![s].opencnt = @ + 1]
  /\ bad' = bad \cup (IF dev[s].kref = 0 THEN {"kref"} ELSE {})
  /\ user' = [user EXCEPT ![s] = "open"]
  /\ UNCHANGED <<boards, pc, at, worker, deleting, plugs>>

(* oufxs_ioctl: iomutex, the state test, then commands to the board.       *)
ioctl_enter(s) ==
  /\ user[s] = "open"
  /\ AvailInError \/ dev[s].state = "OK"
  /\ user' = [user EXCEPT ![s] = "ioctl"]
  /\ UNCHANGED <<boards, dev, pc, at, worker, deleting, bad, plugs>>

ioctl_exit(s) ==
  /\ user[s] = "ioctl"
  /\ user' = [user EXCEPT ![s] = "open"]
  /\ UNCHANGED <<boards, dev, pc, at, worker, deleting, bad, plugs>>

close(s) ==
  /\ user[s] = "open"
  /\ user' = [user EXCEPT ![s] = "closed"]
  /\ IF dev[s].mem
       THEN kref_put(s, [dev[s] EXCEPT !.opencnt = IF @ = 0 THEN 0 ELSE @ - 1], {})
       ELSE bad' = bad \cup {"uaf"} /\ UNCHANGED <<dev, deleting>>
  /\ UNCHANGED <<boards, pc, at, worker, plugs>>

-----------------------------------------------------------------------------
(* Mutant: the interface's reference is not dropped.                       *)
disconnect_keep_ref(b) ==
  /\ pc[b] = "bound"
  /\ pc' = [pc EXCEPT ![b] = "out"]
  /\ dev' = [dev EXCEPT ![at[b]].state = "UNLOAD"]
  /\ UNCHANGED <<boards, at, worker, user, deleting, bad, plugs>>

(* oufxs_disconnect takes no mutex: UNLOAD, then the interface's reference. *)
disconnect(b) ==
  LET s == at[b] IN
  /\ pc[b] = "bound"
  /\ pc' = [pc EXCEPT ![b] = "out"]
  /\ kref_put(s, [dev[s] EXCEPT !.state = "UNLOAD"], {})
  /\ UNCHANGED <<boards, at, worker, user, plugs>>

(* oufxs_delete, up to destroy_workqueue.                                  *)
delete_begin(s) ==
  /\ deleting[s] = "begin"
  /\ deleting' = [deleting EXCEPT ![s] = "wq"]
  /\ dev' = [dev EXCEPT ![s].state = "UNLOAD",
                        ![s].ops = IF Rsrvd(s) THEN "dummy" ELSE "none"]
  /\ UNCHANGED <<boards, pc, at, worker, user, bad, plugs>>

(* Mutant: the buffers are freed while URBs are in flight.                 *)
delete_free_early(s) ==
  /\ deleting[s] = "kill"
  /\ deleting' = [deleting EXCEPT ![s] = "end"]
  /\ dev' = [dev EXCEPT ![s] = [FreeBufs(@) EXCEPT !.udev = NoBoard]]
  /\ bad' = bad \cup FreeFault(dev[s])
  /\ UNCHANGED <<boards, pc, at, worker, user, plugs>>

(* destroy_workqueue returns when the worker has finished.                 *)
delete_workqueue(s) ==
  /\ deleting[s] = "wq" /\ worker[s] = "none"
  /\ deleting' = [deleting EXCEPT ![s] = "kill"]
  /\ UNCHANGED <<boards, dev, pc, at, worker, user, bad, plugs>>

(* usb_kill_anchored_urbs returns when nothing is on the anchor; buffers   *)
(* are freed, udev is cleared.                                             *)
delete_free(s) ==
  /\ deleting[s] = "kill" /\ dev[s].urbs = "none"
  /\ deleting' = [deleting EXCEPT ![s] = "end"]
  /\ dev' = [dev EXCEPT ![s] = [FreeBufs(@) EXCEPT !.udev = NoBoard]]
  /\ bad' = bad \cup FreeFault(dev[s])
  /\ UNCHANGED <<boards, pc, at, worker, user, plugs>>

(* An unreserved structure leaves its slot and is freed; a reserved one    *)
(* goes back to IDLE and forgets its endpoints.                            *)
delete_end(s) ==
  /\ deleting[s] = "end"
  /\ deleting' = [deleting EXCEPT ![s] = "no"]
  /\ IF Rsrvd(s)
       THEN /\ dev' = [dev EXCEPT ![s].state = "IDLE", ![s].eps = FALSE]
            /\ UNCHANGED boards
       ELSE /\ dev' = [dev EXCEPT ![s] = Freed]
            /\ boards' = [boards EXCEPT ![s] = "null"]
  /\ UNCHANGED <<pc, at, worker, user, bad, plugs>>

-----------------------------------------------------------------------------
probe(b)  == \/ probe_reserved(b) \/ probe_find_slot(b) \/ probe_kzalloc(b)
             \/ probe_init(b) \/ probe_register(b)
open(s)   == open_check(s) \/ open_get(s)
ioctl(s)  == ioctl_enter(s) \/ ioctl_exit(s)
delete(s) == delete_begin(s) \/ delete_workqueue(s) \/ delete_free(s) \/ delete_end(s)

Faults == {"oops", "double_free", "kref", "uaf"}

(* What a kernel does after a fault is not modelled.                       *)
Next ==
  /\ bad \cap Faults = {}
  /\ \/ \E b \in Boards : probe(b) \/ unplug_refused(b) \/ disconnect(b)
     \/ \E s \in Slots : setup(s) \/ isoc_cbak(s) \/ open(s) \/ ioctl(s) \/ close(s) \/ delete(s)

Spec == Init /\ [][Next]_vars

(* The kernel runs the worker and the destructor, openers hang up, and an  *)
(* engine whose state is not OK comes to rest.                             *)
Fairness ==
  \A s \in Slots : /\ WF_vars(setup(s)) /\ WF_vars(delete(s))
                   /\ WF_vars(isoc_cbak(s) /\ dev[s].state # "OK")
                   /\ WF_vars(open_get(s)) /\ WF_vars(ioctl_exit(s))
                   /\ SF_vars(close(s))

(***************************************************************************)
(* The orderly world the driver is written for: a serial number is plugged *)
(* in only when no board with it is left (not even in an unfinished        *)
(* delete), and no open overlaps an unplug.                                *)
(***************************************************************************)
Orderly ==
  /\ \A b \in Boards : probe_reserved(b) =>
       \A s \in SlotOf(b) : /\ dev[s].udev = NoBoard /\ deleting[s] = "no"
                            /\ \A c \in ReservedFor[s] : pc[c] = "out"
  /\ \A s \in Slots : open_check(s) => deleting[s] = "no"
  /\ \A b \in Boards : disconnect(b) => user[at[b]] # "opening"

OrderlySpec == Init /\ [][Next /\ Orderly]_vars /\ Fairness

(* No races at all: a board is probed only when no structure is being      *)
(* deleted (one hub thread does both), and no open overlaps an unplug.     *)
Sequential ==
  /\ \A b \in Boards : pc[b] = "out" /\ pc'[b] # "out" =>
       \A s \in Slots : deleting[s] = "no"
  /\ \A b \in Boards : disconnect(b) => user[at[b]] # "opening"
  /\ \A s \in Slots : open_check(s) => deleting[s] = "no"

SequentialSpec == Init /\ [][Next /\ Sequential]_vars

-----------------------------------------------------------------------------
(* Every variable has its type; the counts stay in their range.            *)
TypeOK ==
  /\ boards \in [Slots -> {"null", "one", "dev"}]
  /\ dev \in [Slots -> [mem : BOOLEAN, kref : 0 .. 2, opencnt : 0 .. 1,
                        udev : Boards \cup {NoBoard}, bufs : {"none", "live", "freed"},
                        urbs : {"none", "flying", "left"},
                        state : {"IDLE", "INIT", "OK", "ERROR", "UNLOAD"},
                        ops : {"none", "dummy", "real"}, eps : BOOLEAN]]
  /\ pc \in [Boards -> {"out", "alloc", "init", "register", "bound", "failed"}]
  /\ at \in [Boards -> Slots]
  /\ worker \in [Slots -> {"none", "queued", "init", "stages", "spawn"}]
  /\ user \in [Slots -> {"closed", "opening", "open", "ioctl"}]
  /\ deleting \in [Slots -> {"no", "begin", "wq", "kill", "end"}]
  /\ bad \subseteq Faults \cup {"short"}
  /\ plugs \in 0 .. MaxPlugs

Bound(s)  == {b \in Boards : pc[b] \in {"register", "bound"} /\ at[b] = s}
InUse(s)  == user[s] \in {"open", "ioctl"}
Count(P)  == IF P THEN 1 ELSE 0

(* The reference count of a structure is exactly the interface bound to it *)
(* plus its open channel, whatever order of opens, closes, unplugs and     *)
(* replugs came before.                                                    *)
RefCount ==
  \A s \in Slots : dev[s].kref = Cardinality(Bound(s)) + Count(InUse(s))

(* Whoever has the channel open or runs the setup work, and the URBs in    *)
(* flight, find a structure whose memory, buffers and USB device are       *)
(* there, even after an unplug.                                            *)
InUseAlive ==
  \A s \in Slots : InUse(s) \/ worker[s] # "none" \/ dev[s].urbs # "none" =>
    /\ dev[s].mem /\ dev[s].bufs = "live" /\ dev[s].udev # NoBoard /\ dev[s].eps
    /\ deleting[s] # "end"

(* A structure serves one board: no two boards get the same slot, although *)
(* their probes interleave (the mark under boardslock).                    *)
OneBoardPerSlot ==
  \A b, c \in Boards :
    /\ b # c /\ at[b] = at[c]
    => ~(pc[b] \in {"alloc", "init", "register", "bound"} /\
         pc[c] \in {"alloc", "init", "register", "bound"})

(* No order of probes, opens, closes, unplugs and deletes drops or takes a *)
(* reference too many, or has a channel closed whose structure is gone;    *)
(* and nothing is freed twice and no NULL pointer is used, unless a probe  *)
(* has met a shortage.                                                     *)
Clean ==
  /\ bad \cap {"kref", "uaf"} = {}
  /\ bad \cap {"oops", "double_free"} # {} => "short" \in bad

(* oufxs_delete is never called with opencnt non-zero ("this should never  *)
(* happen, or else our module becomes a zombie").                          *)
DeleteUnopened == \A s \in Slots : deleting[s] = "begin" => dev[s].opencnt = 0

(* After an unplug the slot comes back, a free slot or a reserved          *)
(* structure ready for the next board (or already taken by it), unless an  *)
(* URB has been left on the anchor: then oufxs_delete stays in its kill.   *)
(* After a fault nothing more happens.                                     *)
SlotComesBack ==
  \A s \in Slots :
    (dev[s].mem /\ dev[s].state = "UNLOAD") ~>
      \/ boards[s] = "null"
      \/ Rsrvd(s) /\ dev[s].udev = NoBoard
      \/ Bound(s) # {}
      \/ deleting[s] = "kill" /\ dev[s].urbs = "left"
      \/ bad \cap Faults # {}
=============================================================================
