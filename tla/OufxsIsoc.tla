------------------------------ MODULE OufxsIsoc ------------------------------
(***************************************************************************)
(* The isochronous engine of the DAHDI driver (LinuxDahdiDriver/oufxs).    *)
(*                                                                         *)
(* A board has two rings of OUFXS_MAXURB buffers, "out" and "in".  The     *)
(* board setup worker (oufxs_setup) ends by spawning {w,r}urbsinflight     *)
(* URBs in each ring; from then on the completion callback of a URB frees  *)
(* its buffer and submits the NEXT buffer of the ring.  Worker and         *)
(* callbacks run concurrently: they share the ring index (outsubmit,       *)
(* in_submit), the buffers and the OUT sequence number, each under its own *)
(* lock or under none.  oufxs_disconnect and oufxs_delete stop the engine, *)
(* and a later oufxs_probe of a reserved board reuses the same structure.  *)
(*                                                                         *)
(* One step of a submitter is one critical section of                      *)
(* oufxs_isoc_{out,in_}_submit; outseqno++ is a load and a store, because  *)
(* no lock protects it.  The USB core is external: it completes the URBs   *)
(* of an endpoint in the order of their submission, one callback at a      *)
(* time, and refuses URBs once the board has gone.                         *)
(***************************************************************************)
EXTENDS Naturals, Sequences, FiniteSets

CONSTANTS
  MaxUrb,      (* OUFXS_MAXURB: buffers per ring                           *)
  WUrbs,       (* wurbsinflight: URBs spawned in the OUT ring              *)
  RUrbs,       (* rurbsinflight: URBs spawned in the IN ring               *)
  Packs,       (* wpacksperurb: packets per OUT URB                        *)
  SeqMod,      (* 256: range of the __u8 outseqno                          *)
  Reserved,    (* dev->rsrvd: the structure survives an unplug             *)
  Rings,       (* the rings of this instance: a subset of {"out", "in"}    *)
  MaxPlugs     (* bound: how many times the board is plugged in            *)

ASSUME ConstantsOK ==
  /\ MaxUrb \in Nat \ {0}
  /\ WUrbs \in 1 .. MaxUrb /\ RUrbs \in 1 .. MaxUrb
  /\ Packs \in Nat \ {0}
  /\ SeqMod \in Nat \ {0}
  /\ Reserved \in BOOLEAN
  /\ Rings \in {{"out"}, {"in"}, {"out", "in"}}
  /\ MaxPlugs \in Nat

VARIABLES
  state,        (* dev->state                                              *)
  present,      (* the USB core accepts URBs for the board (external)      *)
  udev,         (* dev->udev # NULL                                        *)
  del,          (* progress of oufxs_disconnect / oufxs_delete             *)
  buf,          (* buf[r][i]: state of buffer i of ring r                  *)
  inconsistent, (* inconsistent[r][i]: buffer found in a bad state         *)
  submit,       (* submit[r]: outsubmit, in_submit                         *)
  outseqno,     (* dev->outseqno                                           *)
  pktseq,       (* pktseq[i][p]: outpack.outseq of packet p of outbufs[i]  *)
  anchored,     (* anchored[r]: URBs on the dev->submitted anchor          *)
  flight,       (* flight[r]: URBs the USB core holds, in order (external) *)
  pc, idx, cnt, (* program counter, buffer and packet of each submitter    *)
  tmp,          (* the outseqno it has loaded; its locals are 0 when dead  *)
  sdir, spawned,(* ring and counter of the worker's two spawning loops     *)
  plugs         (* how many times oufxs_probe has run                      *)

devVars  == <<state, present, udev, del, plugs>>
ringVars == <<buf, inconsistent, submit, anchored, flight>>
seqVars  == <<outseqno, pktseq>>
ctxVars  == <<pc, idx, cnt, tmp, sdir, spawned>>
vars     == <<devVars, ringVars, seqVars, ctxVars>>

Index == 0 .. MaxUrb - 1
Pack  == 0 .. Packs - 1
Seqno == 0 .. SeqMod - 1

(* Submitters: the setup worker, and the callback context of each ring.    *)
Ctx     == {"setup"} \cup Rings
Ring(c) == IF c = "setup" THEN sdir ELSE c

FirstRing   == IF "out" \in Rings THEN "out" ELSE "in"
LastRing    == IF "in" \in Rings THEN "in" ELSE "out"
InFlight(r) == IF r = "out" THEN WUrbs ELSE RUrbs

(* A submitter owns buffer idx[c] between marking it and handing it over.  *)
Owning   == {"fill", "store", "anchor", "check", "submit"}
Owns(c, r, i) == pc[c] \in Owning /\ Ring(c) = r /\ idx[c] = i

OnWire(r) == {flight[r][n] : n \in 1 .. Len(flight[r])}

(* URBs on the anchor that nobody will take off it: the USB core does not  *)
(* hold them and no submitter is about to hand them over.                  *)
Stranded(r) ==
  {i \in anchored[r] : i \notin OnWire(r) /\ \A c \in Ctx : ~Owns(c, r, i)}

(* dev->seq2chunk: the buffer and packet that carry a sequence number.     *)
seq2chunk(s) == <<(s \div Packs) % MaxUrb, s % Packs>>

AllFree  == [i \in Index |-> "st_free"]
Silence  == [i \in Index |-> [p \in Pack |-> 0]]
NoneSeen == [i \in Index |-> FALSE]

-----------------------------------------------------------------------------
(* Before the first plug-in: a zeroed structure with no board attached.    *)
Init ==
  /\ state = "IDLE" /\ present = FALSE /\ udev = FALSE /\ del = "gone"
  /\ buf = [r \in Rings |-> AllFree]
  /\ inconsistent = [r \in Rings |-> NoneSeen]
  /\ submit = [r \in Rings |-> 0]
  /\ outseqno = 0
  /\ pktseq = Silence
  /\ anchored = [r \in Rings |-> {}]
  /\ flight = [r \in Rings |-> <<>>]
  /\ pc = [c \in Ctx |-> "idle"]
  /\ idx = [c \in Ctx |-> 0]
  /\ cnt = [c \in Ctx |-> 0]
  /\ tmp = [c \in Ctx |-> 0]
  /\ sdir = FirstRing /\ spawned = 0
  /\ plugs = 0

(* Mutant: a new structure inherits the sequence number of the last one.   *)
probe_keep_seqno ==
  /\ del = "gone" /\ ~udev /\ plugs < MaxPlugs
  /\ plugs' = plugs + 1
  /\ present' = TRUE /\ udev' = TRUE /\ del' = "none" /\ state' = "IDLE"
  /\ submit' = [r \in Rings |-> 0]
  /\ buf' = [r \in Rings |-> AllFree]
  /\ inconsistent' = [r \in Rings |-> NoneSeen]
  /\ anchored' = [r \in Rings |-> {}]
  /\ pc' = [pc EXCEPT !["setup"] = "queued"]
  /\ pktseq' = Silence
  /\ UNCHANGED <<outseqno, flight, idx, cnt, tmp, sdir, spawned>>

(***************************************************************************)
(* oufxs_probe.  A reserved board keeps its structure: the OUT ring is     *)
(* reset, the IN ring only rewinds in_submit (the loop over the IN buffers *)
(* resets outbufs[i].state a second time), and outseqno is left alone.  An *)
(* unreserved board gets a fresh, zeroed structure.                        *)
(***************************************************************************)
probe ==
  /\ del = "gone" /\ ~udev /\ plugs < MaxPlugs
  /\ plugs' = plugs + 1
  /\ present' = TRUE /\ udev' = TRUE /\ del' = "none" /\ state' = "IDLE"
  /\ submit' = [r \in Rings |-> 0]
  /\ buf' = [r \in Rings |-> IF r = "out" \/ ~Reserved THEN AllFree ELSE buf[r]]
  /\ inconsistent' = [r \in Rings |->
       IF r = "out" \/ ~Reserved THEN NoneSeen ELSE inconsistent[r]]
  /\ outseqno' = IF Reserved THEN outseqno ELSE 0
  /\ anchored' = [r \in Rings |-> {}]
  /\ pc' = [pc EXCEPT !["setup"] = "queued"]
  /\ pktseq' = Silence
  /\ UNCHANGED <<flight, idx, cnt, tmp, sdir, spawned>>

-----------------------------------------------------------------------------
(* The setup worker.                                                       *)

(* oufxs_setup: nothing is done for a board without a serial number, nor   *)
(* unless the state is IDLE.                                               *)
setup_start ==
  /\ pc["setup"] = "queued"
  /\ \/ /\ state = "IDLE"
        /\ state' = "INIT" /\ pc' = [pc EXCEPT !["setup"] = "init"]
     \/ UNCHANGED state /\ pc' = [pc EXCEPT !["setup"] = "idle"]
  /\ UNCHANGED <<present, udev, del, plugs, ringVars, seqVars,
                 idx, cnt, tmp, sdir, spawned>>

(* Mutant: the worker never looks for UNLOAD.                              *)
setup_init_restart_blind ==
  /\ pc["setup"] = "init"
  /\ pc' = [pc EXCEPT !["setup"] = "final"]
  /\ UNCHANGED <<devVars, ringVars, seqVars, idx, cnt, tmp, sdir, spawned>>

(* init_restart: the only place where the worker looks for UNLOAD.         *)
setup_init_restart ==
  /\ pc["setup"] = "init"
  /\ pc' = [pc EXCEPT !["setup"] = IF state = "UNLOAD" THEN "idle" ELSE "final"]
  /\ UNCHANGED <<devVars, ringVars, seqVars, idx, cnt, tmp, sdir, spawned>>

(* The register programming of the stages fails, which leads back to       *)
(* init_restart, or gives up (retoncnvfail and its like: state ERROR;      *)
(* sofprofile: as it is), or gets as far as start_stop_iov2, which needs a *)
(* board.                                                                  *)
setup_stages ==
  /\ pc["setup"] = "final"
  /\ \/ pc' = [pc EXCEPT !["setup"] = "init"] /\ UNCHANGED state
     \/ pc' = [pc EXCEPT !["setup"] = "idle"] /\ state' \in {state, "ERROR"}
     \/ present /\ pc' = [pc EXCEPT !["setup"] = "ok"] /\ UNCHANGED state
  /\ UNCHANGED <<present, udev, del, plugs, ringVars, seqVars, idx, cnt, tmp, sdir, spawned>>

(* The worker marks the board OK whatever the state is by now, and enters  *)
(* the two spawning loops.                                                 *)
setup_ok ==
  /\ pc["setup"] = "ok"
  /\ state' = "OK"
  /\ pc' = [pc EXCEPT !["setup"] = "take"]
  /\ sdir' = FirstRing /\ spawned' = 0
  /\ UNCHANGED <<present, udev, del, plugs, ringVars, seqVars, idx, cnt, tmp>>

(* The end of an iteration of the worker's loops, whatever was returned.   *)
spawn_next ==
  /\ idx' = [idx EXCEPT !["setup"] = 0]
  /\ \/ /\ spawned + 1 < InFlight(sdir)
        /\ spawned' = spawned + 1
        /\ pc' = [pc EXCEPT !["setup"] = "take"]
        /\ UNCHANGED sdir
     \/ /\ spawned + 1 >= InFlight(sdir)
        /\ spawned' = 0
        /\ sdir' = LastRing
        /\ pc' = [pc EXCEPT !["setup"] = IF sdir = LastRing THEN "idle" ELSE "take"]

return(c) ==
  \/ c = "setup" /\ spawn_next
  \/ /\ c # "setup"
     /\ idx' = [idx EXCEPT ![c] = 0]
     /\ pc' = [pc EXCEPT ![c] = "idle"]
     /\ UNCHANGED <<sdir, spawned>>

-----------------------------------------------------------------------------
(* oufxs_isoc_out_submit and oufxs_isoc_in__submit, critical section by    *)
(* critical section.                                                       *)

(* Mutant: the ring index does not wrap.                                   *)
submit_take_no_wrap(c) ==
  LET r == Ring(c) IN
  /\ pc[c] = "take"
  /\ idx' = [idx EXCEPT ![c] = submit[r]]
  /\ submit' = [submit EXCEPT ![r] = @ + 1]
  /\ pc' = [pc EXCEPT ![c] = "mark"]
  /\ UNCHANGED <<devVars, buf, inconsistent, anchored, flight, seqVars,
                 cnt, tmp, sdir, spawned>>

(* Under outbuflock / in_buflock: take the next buffer of the ring.        *)
submit_take(c) ==
  LET r == Ring(c) IN
  /\ pc[c] = "take"
  /\ idx' = [idx EXCEPT ![c] = submit[r]]
  /\ submit' = [submit EXCEPT ![r] = (@ + 1) % MaxUrb]
  /\ pc' = [pc EXCEPT ![c] = "mark"]
  /\ UNCHANGED <<devVars, buf, inconsistent, anchored, flight, seqVars,
                 cnt, tmp, sdir, spawned>>

(* Under the buffer's lock: refuse a buffer that is not free, or claim it. *)
submit_refuse(c) ==
  LET r == Ring(c) IN
  /\ pc[c] = "mark" /\ buf[r][idx[c]] # "st_free"
  /\ inconsistent' = [inconsistent EXCEPT ![r][idx[c]] = TRUE]
  /\ return(c)
  /\ UNCHANGED <<devVars, buf, submit, anchored, flight, seqVars, cnt, tmp>>

(* Mutant: a buffer is claimed without a look at its state.                *)
submit_claim_any(c) ==
  LET r == Ring(c) IN
  /\ pc[c] = "mark"
  /\ buf' = [buf EXCEPT ![r][idx[c]] = "st_subm"]
  /\ cnt' = [cnt EXCEPT ![c] = 0]
  /\ pc' = [pc EXCEPT ![c] = IF r = "out" THEN "fill" ELSE "anchor"]
  /\ UNCHANGED <<devVars, inconsistent, submit, anchored, flight, seqVars,
                 idx, tmp, sdir, spawned>>

submit_claim(c) ==
  LET r == Ring(c) IN
  /\ pc[c] = "mark" /\ buf[r][idx[c]] = "st_free"
  /\ buf' = [buf EXCEPT ![r][idx[c]] = "st_subm"]
  /\ cnt' = [cnt EXCEPT ![c] = 0]
  /\ pc' = [pc EXCEPT ![c] = IF r = "out" THEN "fill" ELSE "anchor"]
  /\ UNCHANGED <<devVars, inconsistent, submit, anchored, flight, seqVars,
                 idx, tmp, sdir, spawned>>

(* p->outpack.outseq = dev->outseqno++, under no lock: load, then store.   *)
fill_load(c) ==
  /\ pc[c] = "fill"
  /\ tmp' = [tmp EXCEPT ![c] = outseqno]
  /\ pc' = [pc EXCEPT ![c] = "store"]
  /\ UNCHANGED <<devVars, ringVars, seqVars, idx, cnt, sdir, spawned>>

fill_store(c) ==
  /\ pc[c] = "store"
  /\ outseqno' = (tmp[c] + 1) % SeqMod
  /\ pktseq' = [pktseq EXCEPT ![idx[c]][cnt[c]] = tmp[c]]
  /\ cnt' = [cnt EXCEPT ![c] = (@ + 1) % Packs]
  /\ tmp' = [tmp EXCEPT ![c] = 0]
  /\ pc' = [pc EXCEPT ![c] = IF cnt[c] + 1 = Packs THEN "anchor" ELSE "fill"]
  /\ UNCHANGED <<devVars, ringVars, idx, sdir, spawned>>

(* Mutant: the URB is not anchored.                                        *)
submit_anchor_not(c) ==
  /\ pc[c] = "anchor" /\ udev
  /\ pc' = [pc EXCEPT ![c] = "check"]
  /\ UNCHANGED <<devVars, ringVars, seqVars, idx, cnt, tmp, sdir, spawned>>

(* usb_anchor_urb comes before the URB is handed over.                     *)
submit_anchor(c) ==
  LET r == Ring(c) IN
  /\ pc[c] = "anchor" /\ udev
  /\ anchored' = [anchored EXCEPT ![r] = @ \cup {idx[c]}]
  /\ pc' = [pc EXCEPT ![c] = "check"]
  /\ UNCHANGED <<devVars, buf, inconsistent, submit, flight, seqVars,
                 idx, cnt, tmp, sdir, spawned>>

(* Mutant: the error path forgets to free the buffer.                      *)
usb_submit_urb_leak(r, i) ==
  \/ /\ present
     /\ flight' = [flight EXCEPT ![r] = Append(@, i)]
     /\ UNCHANGED <<buf, anchored>>
  \/ /\ anchored' = [anchored EXCEPT ![r] = @ \ {i}]
     /\ UNCHANGED <<buf, flight>>

(* Mutant: the error path forgets to unanchor the URB.                     *)
usb_submit_urb_anchored(r, i) ==
  \/ /\ present
     /\ flight' = [flight EXCEPT ![r] = Append(@, i)]
     /\ UNCHANGED <<buf, anchored>>
  \/ /\ buf' = [buf EXCEPT ![r][i] = "st_free"]
     /\ UNCHANGED <<anchored, flight>>

(* usb_submit_urb (external) may fail, and does once the board has gone;   *)
(* the error path unanchors the URB and frees the buffer.                  *)
usb_submit_urb(r, i) ==
  \/ /\ present
     /\ flight' = [flight EXCEPT ![r] = Append(@, i)]
     /\ UNCHANGED <<buf, anchored>>
  \/ /\ anchored' = [anchored EXCEPT ![r] = @ \ {i}]
     /\ buf' = [buf EXCEPT ![r][i] = "st_free"]
     /\ UNCHANGED flight

(* GFP_ATOMIC: state check and submission are one section under statelck.  *)
(* When the state is not OK nothing is submitted and 0 is returned: the    *)
(* engine quiesces, the buffer stays st_subm, and so does the URB on the   *)
(* anchor.                                                                 *)
submit_atomic(c) ==
  /\ c # "setup" /\ pc[c] = "check"
  /\ IF state = "OK" THEN usb_submit_urb(c, idx[c])
                     ELSE UNCHANGED <<buf, anchored, flight>>
  /\ return(c)
  /\ UNCHANGED <<devVars, inconsistent, submit, seqVars, cnt, tmp>>

(* GFP_KERNEL (the worker): the state is read without the lock, and the    *)
(* URB is submitted later.                                                 *)
submit_check_state ==
  /\ pc["setup"] = "check"
  /\ \/ /\ state = "OK"
        /\ pc' = [pc EXCEPT !["setup"] = "submit"]
        /\ UNCHANGED <<idx, sdir, spawned>>
     \/ state # "OK" /\ spawn_next
  /\ UNCHANGED <<devVars, ringVars, seqVars, cnt, tmp>>

submit_kernel ==
  /\ pc["setup"] = "submit"
  /\ usb_submit_urb(sdir, idx["setup"])
  /\ spawn_next
  /\ UNCHANGED <<devVars, inconsistent, submit, seqVars, cnt, tmp>>

isoc_submit(c) ==
  \/ submit_take(c) \/ submit_refuse(c) \/ submit_claim(c)
  \/ fill_load(c) \/ fill_store(c) \/ submit_anchor(c) \/ submit_atomic(c)

-----------------------------------------------------------------------------
(***************************************************************************)
(* oufxs_isoc_{out,in_}_cbak.  The USB core gives back the oldest URB of   *)
(* the ring (external: it leaves the anchor) and the callback frees its    *)
(* buffer and turns to the next one.  What the callbacks do to the line    *)
(* (the oht timer, hook and DTMF events) is in modules of its own.         *)
(***************************************************************************)
isoc_cbak(r) ==
  LET i == Head(flight[r]) IN
  /\ pc[r] = "idle" /\ flight[r] # <<>>
  /\ flight' = [flight EXCEPT ![r] = Tail(@)]
  /\ anchored' = [anchored EXCEPT ![r] = @ \ {i}]
  /\ IF buf[r][i] = "st_subm"
       THEN /\ buf' = [buf EXCEPT ![r][i] = "st_free"]
            /\ pc' = [pc EXCEPT ![r] = "take"]
            /\ UNCHANGED inconsistent
       ELSE /\ inconsistent' = [inconsistent EXCEPT ![r][i] = TRUE]
            /\ UNCHANGED <<buf, pc>>
  /\ UNCHANGED <<devVars, submit, seqVars, idx, cnt, tmp, sdir, spawned>>

-----------------------------------------------------------------------------
(* Unplug, disconnect, delete.                                             *)

(* The USB core stops accepting URBs for the board (external).             *)
unplug ==
  /\ present /\ present' = FALSE
  /\ UNCHANGED <<state, udev, del, plugs, ringVars, seqVars, ctxVars>>

disconnect ==
  /\ ~present /\ del = "none"
  /\ state' = "UNLOAD" /\ del' = "disc"
  /\ UNCHANGED <<present, udev, plugs, ringVars, seqVars, ctxVars>>

(* The last reference is dropped, in oufxs_disconnect or in oufxs_close.   *)
delete_start ==
  /\ del = "disc"
  /\ state' = "UNLOAD" /\ del' = "wq"
  /\ UNCHANGED <<present, udev, plugs, ringVars, seqVars, ctxVars>>

(* Mutant: the teardown does not wait for the worker.                      *)
destroy_workqueue_early ==
  /\ del = "wq" /\ del' = "kill"
  /\ UNCHANGED <<state, present, udev, plugs, ringVars, seqVars, ctxVars>>

(* destroy_workqueue returns when the worker has finished.                 *)
destroy_workqueue ==
  /\ del = "wq" /\ pc["setup"] = "idle"
  /\ del' = "kill"
  /\ UNCHANGED <<state, present, udev, plugs, ringVars, seqVars, ctxVars>>

(* usb_kill_anchored_urbs (external) goes on until the anchor is empty: an *)
(* URB in flight leaves it when it is given back, and its callback has     *)
(* returned; killing one that has not been submitted has no effect.        *)
kill_anchored_urbs ==
  /\ del = "kill"
  /\ \A r \in Rings : anchored[r] = {} /\ pc[r] = "idle"
  /\ del' = "free"
  /\ UNCHANGED <<state, present, udev, plugs, ringVars, seqVars, ctxVars>>

(* Buffers and URBs are freed, udev is cleared; a reserved structure goes  *)
(* back to IDLE.                                                           *)
delete_finish ==
  /\ del = "free"
  /\ udev' = FALSE /\ state' = "IDLE" /\ del' = "gone"
  /\ UNCHANGED <<present, plugs, ringVars, seqVars, ctxVars>>

-----------------------------------------------------------------------------
worker ==
  \/ setup_start \/ setup_init_restart \/ setup_stages \/ setup_ok
  \/ submit_check_state \/ submit_kernel

delete == delete_start \/ destroy_workqueue \/ kill_anchored_urbs \/ delete_finish

Next ==
  \/ probe \/ worker
  \/ \E c \in Ctx : isoc_submit(c)
  \/ \E r \in Rings : isoc_cbak(r)
  \/ unplug \/ disconnect \/ delete

Spec == Init /\ [][Next]_vars

(* The kernel runs what is runnable: worker, callbacks, teardown.          *)
Fairness ==
  /\ WF_vars(worker \/ isoc_submit("setup"))
  /\ \A r \in Rings : WF_vars(isoc_submit(r)) /\ WF_vars(isoc_cbak(r))
  /\ WF_vars(disconnect) /\ WF_vars(delete)

FairSpec == Spec /\ Fairness
-----------------------------------------------------------------------------
(* Every variable has its type.                                            *)
PC == {"idle", "queued", "init", "final", "ok", "take", "mark", "fill",
       "store", "anchor", "check", "submit"}

TypeOK ==
  /\ state \in {"IDLE", "INIT", "OK", "ERROR", "UNLOAD"}
  /\ present \in BOOLEAN /\ udev \in BOOLEAN
  /\ del \in {"none", "disc", "wq", "kill", "free", "gone"}
  /\ buf \in [Rings -> [Index -> {"st_free", "st_subm"}]]
  /\ inconsistent \in [Rings -> [Index -> BOOLEAN]]
  /\ submit \in [Rings -> Index]
  /\ outseqno \in Seqno
  /\ pktseq \in [Index -> [Pack -> Seqno]]
  /\ anchored \in [Rings -> SUBSET Index]
  /\ flight \in [Rings -> Seq(Index)]
  /\ pc \in [Ctx -> PC]
  /\ idx \in [Ctx -> Index]
  /\ cnt \in [Ctx -> Pack]
  /\ tmp \in [Ctx -> Seqno]
  /\ sdir \in Rings
  /\ spawned \in 0 .. MaxUrb - 1
  /\ plugs \in 0 .. MaxPlugs

(* A buffer is in at most one pair of hands: one submitter is working on   *)
(* it, or the USB core holds its URB, once.  The packets of an URB on the  *)
(* wire are therefore never rewritten, although worker and callbacks race  *)
(* for the ring (oufxs_isoc_*_submit, "so nobody else messes with it").    *)
Exclusive ==
  /\ \A r \in Rings : \A m, n \in 1 .. Len(flight[r]) :
       flight[r][m] = flight[r][n] => m = n
  /\ \A c \in Ctx, r \in Rings, i \in Index :
       Owns(c, r, i) => i \notin OnWire(r)
  /\ \A c, d \in Ctx, r \in Rings, i \in Index :
       Owns(c, r, i) /\ Owns(d, r, i) => c = d

(* What a submitter works on and what the USB core holds is marked         *)
(* st_subm, and what the core holds can be killed through the anchor.      *)
Marked ==
  \A r \in Rings, i \in Index :
    /\ (\E c \in Ctx : Owns(c, r, i)) => buf[r][i] = "st_subm"
    /\ i \in OnWire(r) => buf[r][i] = "st_subm" /\ i \in anchored[r]

(* oufxs_delete frees buffers and URBs only when the worker has finished,  *)
(* no callback runs and the USB core holds nothing; so the check for a     *)
(* NULL udev in the submit functions never finds one.                      *)
FreedQuiet ==
  /\ del \in {"free", "gone"} =>
       /\ \A c \in Ctx : pc[c] = "idle"
       /\ \A r \in Rings : flight[r] = <<>>
  /\ (\E c \in Ctx : pc[c] \in Owning) => udev

(* No submitter and no callback ever meets a buffer in a bad state: the    *)
(* branches commented "should *never* happen".                             *)
NeverInconsistent == \A r \in Rings, i \in Index : ~inconsistent[r][i]

(* Every OUT packet on the wire carries a sequence number that seq2chunk   *)
(* maps back to it: the echo canceller finds the sample it transmitted     *)
(* (the check compiled in with DEBUGSEQMAP, "SERIOUS: seqno %d maps to").  *)
SeqMapOK ==
  \A i \in OnWire("out"), p \in Pack : seq2chunk(pktseq[i][p]) = <<i, p>>

(* Once the board is being unloaded its state is never set back to OK      *)
(* ("set state to UNLOAD, so others will see it").                         *)
UnloadStays == [][state = "UNLOAD" => state' # "OK"]_vars

(* As long as the board is plugged in no URB is lost from the engine: each *)
(* one on the anchor is on the wire or about to be submitted.  Only the    *)
(* state check of the submit functions, which returns 0 for an URB it does *)
(* not submit, leaves one behind, and only after a disconnect.             *)
NoneStranded == del = "none" => \A r \in Rings : Stranded(r) = {}

(* An unplugged board is torn down: the worker sees UNLOAD or stops        *)
(* spawning and oufxs_delete comes to its kill.  It ends there unless an   *)
(* URB has been left on the anchor; then it does not end at all.           *)
UnplugDrains ==
  ~present ~> \/ del = "gone"
              \/ del = "kill" /\ \E r \in Rings : Stranded(r) # {}

(* "let the isochronous engine quiesce down by not submitting any further  *)
(* urbs" (1242): once it has, oufxs_delete frees the buffers.  Does not    *)
(* hold: an URB refused in this way is left on the anchor.                 *)
KillEnds == del = "kill" ~> del = "free"

(***************************************************************************)
(* A timing assumption of the driver: an URB takes wpacksperurb            *)
(* milliseconds on the bus, longer than the worker needs to spawn them     *)
(* all, so no URB completes while the worker is spawning.                  *)
(***************************************************************************)
Spawning == pc["setup"] \in {"take", "mark"} \cup Owning

PromptNext == Next /\ (Spawning /\ present => \A r \in Rings : ~isoc_cbak(r))

PromptSpec == Init /\ [][PromptNext]_vars
=============================================================================
