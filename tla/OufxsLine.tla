------------------------------ MODULE OufxsLine ------------------------------
(***************************************************************************)
(* The linefeed mode of a line: DR 64 of the ProSLIC and the driver's idea *)
(* of it (lasttxhook, idletxhookstate, ohttimer, reversepolarity).         *)
(*                                                                         *)
(* Three contexts change it: the PBX through oufxs_hooksig (channel lock   *)
(* held), a process through oufxs_ioctl (iomutex held) and oufxs_close,    *)
(* and the callback of an OUT URB, once in wpacksperurb milliseconds,      *)
(* through the on-hook transfer (oht) timer.  They share no lock.  hooksig *)
(* and the callback use dr_write_piggyback, whose settings reach the chip  *)
(* later and in order (module DrChannel); ioctl uses dr_write, a bulk      *)
(* command that is executed before it returns, or fails.                   *)
(*                                                                         *)
(* On one CPU (SMP = FALSE) hooksig and the callback run with interrupts   *)
(* disabled, so nothing gets between their steps.                          *)
(***************************************************************************)
EXTENDS Integers, Sequences

CONSTANTS
  Sig,       (* the signalling of the channel: "FXOKS" (or FXOLS), ...     *)
  RevParam,  (* the module parameter reversepolarity                       *)
  Packs,     (* wpacksperurb                                               *)
  OhtTimer,  (* OHT_TIMER, in ms                                           *)
  OhtArgs,   (* arguments of DAHDI_ONHOOKTRANSFER, in ms: any int          *)
  IntMax,    (* bound: the largest int (the driver's are 32 bits wide)     *)
  PolArgs,   (* arguments of DAHDI_SETPOLARITY, normalised                 *)
  SMP,       (* more than one CPU                                          *)
  MaxOps     (* bound: calls of hooksig and ioctl                          *)

ASSUME LineConstants ==
  /\ Sig \in {"FXOKS", "FXOGS", "EM"}
  /\ Packs \in Nat \ {0} /\ OhtTimer \in Nat /\ OhtTimer >= Packs
  /\ IntMax \in Nat /\ IntMax >= 7 /\ IntMax >= OhtTimer
  /\ OhtArgs \subseteq -IntMax - 1 .. IntMax /\ PolArgs \subseteq BOOLEAN
  /\ RevParam \in BOOLEAN /\ SMP \in BOOLEAN /\ MaxOps \in Nat

VARIABLES
  lasttxhook, idletxhookstate, ohttimer, reversepolarity,
  dr64,      (* the register                                               *)
  posts,     (* values posted by dr_write_piggyback, not yet in DR 64      *)
  hs, io, cb,(* progress of hooksig, ioctl and the callback                *)
  val,       (* val[c]: the argument a context has evaluated               *)
  due,       (* ghost: milliseconds of on-hook transfer still promised     *)
  untimed,   (* ghost: the transfer asked for last is one of 0 ms          *)
  ioctls,    (* ghost: an ioctl has changed the line                       *)
  ops

devVars == <<lasttxhook, idletxhookstate, ohttimer, reversepolarity>>
vars    == <<devVars, dr64, posts, hs, io, cb, val, due, untimed, ioctls, ops>>

Int32 == -IntMax - 1 .. IntMax

Open == 0   FwdActive == 1   FwdOht == 2   TipOpen == 3
Ringing == 4   RevActive == 5   RevOht == 6   RingOpen == 7

reversed  == RevParam # reversepolarity
active(r) == IF r THEN RevActive ELSE FwdActive
oht(r)    == IF r THEN RevOht ELSE FwdOht

Ctx == {"hs", "io", "cb"}

(* oufxs_setup has set the default mode.                                   *)
Init ==
  /\ reversepolarity = FALSE /\ ohttimer = 0
  /\ idletxhookstate = active(RevParam) /\ lasttxhook = active(RevParam)
  /\ dr64 = active(RevParam) /\ posts = <<>>
  /\ hs = "idle" /\ io = "idle" /\ cb = "idle"
  /\ val = [c \in Ctx |-> 0]
  /\ due = 0 /\ untimed = FALSE /\ ioctls = FALSE /\ ops = 0

call == ops < MaxOps /\ ops' = ops + 1

(* Evaluating dev->lasttxhook for the argument of a register write.        *)
evaluate(c) == val' = [val EXCEPT ![c] = lasttxhook]

(* dr_write_piggyback (dev, 64, value), under outbuflock.                  *)
dr_write_piggyback(c) ==
  /\ posts' = Append(posts, val[c])
  /\ val' = [val EXCEPT ![c] = 0]

-----------------------------------------------------------------------------
(* oufxs_hooksig; a signal it does not know leaves the mode as it is.      *)
onhook  == IF Sig = "FXOGS" THEN TipOpen ELSE idletxhookstate
offhook == IF Sig = "EM" THEN RevActive ELSE idletxhookstate

hooksig_set ==
  /\ hs = "idle" /\ call
  /\ lasttxhook' \in {onhook, offhook, Ringing, Open, lasttxhook}
  /\ hs' = "evaluate"
  /\ UNCHANGED <<idletxhookstate, ohttimer, reversepolarity, dr64, posts, io, cb, val, due, untimed, ioctls>>

(* Mutant: hooksig changes the mode and does not write the register.       *)
hooksig_write_not ==
  /\ \/ hs = "evaluate" /\ hs' = "post"
     \/ hs = "post" /\ hs' = "idle"
  /\ UNCHANGED <<devVars, dr64, posts, val, io, cb, due, untimed, ioctls, ops>>

hooksig_write ==
  /\ \/ hs = "evaluate" /\ evaluate("hs") /\ hs' = "post" /\ UNCHANGED posts
     \/ hs = "post" /\ dr_write_piggyback("hs") /\ hs' = "idle"
  /\ UNCHANGED <<devVars, dr64, io, cb, due, untimed, ioctls, ops>>

-----------------------------------------------------------------------------
(* oufxs_ioctl.                                                            *)

(* DAHDI_ONHOOKTRANSFER: the timer, the idle mode, the effective mode.     *)
onhooktransfer ==
  \/ /\ io = "idle" /\ call
     /\ \E i \in OhtArgs : /\ ohttimer' = i /\ untimed' = (i = 0)
                          /\ due' = IF i > 0 THEN i ELSE 0
     /\ io' = "ohtidle"
     /\ UNCHANGED <<lasttxhook, idletxhookstate, reversepolarity>>
  \/ /\ io = "ohtidle"
     /\ idletxhookstate' = oht(reversed)
     /\ io' = "ohtmode"
     /\ UNCHANGED <<lasttxhook, ohttimer, reversepolarity, due, untimed, ops>>
  \/ /\ io = "ohtmode"
     /\ IF lasttxhook \in {RevActive, FwdActive}
          THEN lasttxhook' = idletxhookstate /\ io' = "evaluate"
          ELSE UNCHANGED lasttxhook /\ io' = "idle"
     /\ UNCHANGED <<idletxhookstate, ohttimer, reversepolarity, due, untimed, ops>>

(* DAHDI_SETPOLARITY: -EINVAL when ringing or open; then the polarity and  *)
(* bit 2 of the effective mode.                                            *)
setpolarity ==
  \/ /\ io = "idle" /\ call
     /\ lasttxhook \notin {Ringing, Open}
     /\ \E i \in PolArgs : reversepolarity' = i
     /\ io' = "polmode"
     /\ UNCHANGED <<lasttxhook, idletxhookstate, ohttimer, due, untimed>>
  \/ /\ io = "polmode"
     /\ lasttxhook' = (lasttxhook % 4) + (IF reversed THEN 4 ELSE 0)
     /\ io' = "evaluate"
     /\ UNCHANGED <<idletxhookstate, ohttimer, reversepolarity, due, untimed, ops>>

(* OUFXS_IOCSRING calls oufxs_hooksig, with START or OFFHOOK, in a context *)
(* that can be interrupted.                                                *)
iocsring ==
  /\ io = "idle" /\ call
  /\ lasttxhook' \in {Ringing, offhook}
  /\ io' = "sring"
  /\ UNCHANGED <<idletxhookstate, ohttimer, reversepolarity, due, untimed>>

ioctl ==
  /\ onhooktransfer \/ setpolarity \/ iocsring
  /\ ioctls' = TRUE
  /\ UNCHANGED <<dr64, posts, hs, cb, val>>

iocsring_write ==
  /\ \/ io = "sring" /\ evaluate("io") /\ io' = "post" /\ UNCHANGED posts
     \/ io = "post" /\ dr_write_piggyback("io") /\ io' = "idle"
  /\ UNCHANGED <<devVars, dr64, hs, cb, due, untimed, ioctls, ops>>

(* dr_write (64, lasttxhook): the board has executed it when it returns,   *)
(* unless it fails (-EIO).                                                 *)
dr_write ==
  /\ \/ io = "evaluate" /\ evaluate("io") /\ io' = "bulk" /\ UNCHANGED dr64
     \/ /\ io = "bulk"
        /\ dr64' \in {dr64, val["io"]}
        /\ val' = [val EXCEPT !["io"] = 0]
        /\ io' = "idle"
  /\ UNCHANGED <<devVars, posts, hs, cb, due, untimed, ioctls, ops>>

-----------------------------------------------------------------------------
(* oufxs_close resets the idle mode, whether or not the timer runs.        *)
close ==
  /\ idletxhookstate' = active(reversed)
  /\ UNCHANGED <<lasttxhook, ohttimer, reversepolarity, dr64, posts, hs, io, cb, val,
                 due, untimed, ioctls, ops>>

-----------------------------------------------------------------------------
(* oufxs_isoc_out_cbak, after it has submitted the next URB.               *)
elapsed == due' = IF due > Packs THEN due - Packs ELSE 0

(* Mutant: the two polarities of oht are swapped.                          *)
cbak_ringing_swapped ==
  /\ cb = "idle" /\ lasttxhook = Ringing
  /\ ohttimer' = OhtTimer \div Packs
  /\ due' = OhtTimer /\ untimed' = FALSE
  /\ idletxhookstate' = oht(~reversed)
  /\ UNCHANGED <<lasttxhook, reversepolarity, dr64, posts, hs, io, cb, val, ioctls, ops>>

(* If ringing, arm the timer and preset the idle mode.                     *)
cbak_ringing ==
  /\ cb = "idle" /\ lasttxhook = Ringing
  /\ ohttimer' = OhtTimer \div Packs
  /\ due' = OhtTimer /\ untimed' = FALSE
  /\ idletxhookstate' = oht(reversed)
  /\ UNCHANGED <<lasttxhook, reversepolarity, dr64, posts, hs, io, cb, val, ioctls, ops>>

decremented(i) == IF i = -IntMax - 1 THEN IntMax ELSE i - 1

(* If not, and the timer runs: --ohttimer, a load ...                      *)
cbak_load ==
  /\ cb = "idle" /\ lasttxhook # Ringing /\ ohttimer # 0
  /\ val' = [val EXCEPT !["cb"] = ohttimer]
  /\ cb' = "dec"
  /\ UNCHANGED <<devVars, dr64, posts, hs, io, due, untimed, ioctls, ops>>

(* Mutant: the effective mode is not reverted.                             *)
cbak_dec_idle_only ==
  /\ cb = "dec" /\ cb' = "idle"
  /\ ohttimer' = decremented(val["cb"])
  /\ val' = [val EXCEPT !["cb"] = 0]
  /\ elapsed
  /\ idletxhookstate' = IF ohttimer' = 0 THEN active(reversed) ELSE idletxhookstate
  /\ UNCHANGED <<lasttxhook, reversepolarity, dr64, posts, hs, io, untimed, ioctls, ops>>

(* ... and a store.  When it expires the idle mode reverts, and with it    *)
(* the effective one if it is oht.                                         *)
cbak_dec ==
  /\ cb = "dec"
  /\ ohttimer' = decremented(val["cb"])
  /\ val' = [val EXCEPT !["cb"] = 0]
  /\ elapsed
  /\ IF ohttimer' = 0
       THEN /\ idletxhookstate' = active(reversed)
            /\ cb' = IF lasttxhook \in {RevOht, FwdOht} THEN "revert" ELSE "idle"
       ELSE UNCHANGED idletxhookstate /\ cb' = "idle"
  /\ UNCHANGED <<lasttxhook, reversepolarity, dr64, posts, hs, io, untimed, ioctls, ops>>

cbak_revert ==
  /\ cb = "revert"
  /\ lasttxhook' = idletxhookstate
  /\ cb' = "evaluate"
  /\ UNCHANGED <<idletxhookstate, ohttimer, reversepolarity, dr64, posts, hs, io, val, due,
                 untimed, ioctls, ops>>

cbak_write ==
  /\ \/ cb = "evaluate" /\ evaluate("cb") /\ cb' = "post" /\ UNCHANGED posts
     \/ cb = "post" /\ dr_write_piggyback("cb") /\ cb' = "idle"
  /\ UNCHANGED <<devVars, dr64, hs, io, due, untimed, ioctls, ops>>

-----------------------------------------------------------------------------
(* The board applies posted settings in order; it may skip some.           *)
apply ==
  /\ \E n \in 1 .. Len(posts) :
       dr64' = posts[n] /\ posts' = SubSeq(posts, n + 1, Len(posts))
  /\ UNCHANGED <<devVars, hs, io, cb, val, due, untimed, ioctls, ops>>

hooksig  == hooksig_set \/ hooksig_write
out_cbak == cbak_ringing \/ cbak_load \/ cbak_dec \/ cbak_revert \/ cbak_write

Next ==
  \/ hooksig /\ (SMP \/ cb = "idle")
  \/ (ioctl \/ iocsring_write \/ dr_write \/ close) /\ (SMP \/ (cb = "idle" /\ hs = "idle"))
  \/ out_cbak /\ (SMP \/ hs = "idle")
  \/ apply

(* What has begun goes on, URBs keep completing, and the board applies the *)
(* settings (module OufxsPiggy).                                           *)
Fairness ==
  /\ WF_vars(hooksig_write) /\ WF_vars(io # "idle" /\ (ioctl \/ iocsring_write \/ dr_write))
  /\ WF_vars(out_cbak) /\ WF_vars(apply)

Spec == Init /\ [][Next]_vars /\ Fairness

(* A timing assumption: the milliseconds of DAHDI_ONHOOKTRANSFER do not    *)
(* run out between its first two statements: no tick begins there.         *)
Prompt == io = "ohtidle" => ~cbak_load

PromptSpec == Init /\ [][Next /\ Prompt]_vars /\ Fairness

-----------------------------------------------------------------------------
(* Every variable has its type; DR 64 is never given a mode that is not    *)
(* one of the eight, whatever SETPOLARITY's bit operations start from.     *)
TypeOK ==
  /\ lasttxhook \in 0 .. 7 /\ dr64 \in 0 .. 7
  /\ idletxhookstate \in {FwdActive, FwdOht, RevActive, RevOht}
  /\ ohttimer \in Int32 /\ due \in Nat /\ ops \in 0 .. MaxOps
  /\ reversepolarity \in BOOLEAN /\ untimed \in BOOLEAN /\ ioctls \in BOOLEAN
  /\ \A n \in 1 .. Len(posts) : posts[n] \in 0 .. 7
  /\ hs \in {"idle", "evaluate", "post"}
  /\ io \in {"idle", "ohtidle", "ohtmode", "polmode", "evaluate", "bulk",
            "sring", "post"}
  /\ cb \in {"idle", "dec", "revert", "evaluate", "post"}
  /\ val \in [Ctx -> Int32]

Quiet == posts = <<>> /\ hs = "idle" /\ io = "idle" /\ cb = "idle"

(* When nothing is under way, DR 64 holds what the driver believes it set  *)
(* ("int lasttxhook; last setting of DR 64"): settings posted by hooksig   *)
(* and by the timer's callback take effect in the order they were made.    *)
(* An ioctl's bulk command may overtake them.                              *)
InForce == Quiet /\ ~ioctls => dr64 = lasttxhook

(* An oht mode does not last longer than asked for ("remaining time for    *)
(* on-hook transfer in ms", "data contains the milliseconds to hold oht    *)
(* mode"): once the milliseconds are over and nothing is under way, the    *)
(* line is in another mode.  Does not hold: the timer counts URBs.         *)
OhtOnTime ==
  Quiet /\ lasttxhook \in {FwdOht, RevOht} /\ ~untimed => due > 0

(* An oht mode ends, whoever has begun it and whatever hooksig, ioctl and  *)
(* close do meanwhile: the timer runs out and the mode is reverted, or the *)
(* PBX changes it ("if so, revert the oht mode to normal rev/fwd active"). *)
(* The exception: an ioctl has asked for 0 ms and no ringing has armed the *)
(* timer since.  (With a negative argument the end is that of the ints.)   *)
OhtEnds ==
  lasttxhook \in {FwdOht, RevOht} ~> (lasttxhook \notin {FwdOht, RevOht} \/ untimed)

(* The callback ("if not ringing ... revert the oht mode") does not end a  *)
(* ringing the PBX has begun.  Does not hold on several CPUs: it tests the *)
(* mode and assigns it without a lock (oufxs.c:1398, 1399).                *)
RingSurvives ==
  [][lasttxhook = Ringing /\ lasttxhook' # Ringing => hooksig_set \/ ioctls']_vars

(* A line in an active or oht mode has the polarity that was asked for by  *)
(* the module parameter; DAHDI_SETPOLARITY does not change the idle mode.  *)
PolarityKept ==
  Quiet /\ ~ioctls =>
    /\ lasttxhook \in {FwdActive, FwdOht} => ~reversed
    /\ lasttxhook \in {RevActive, RevOht} => (reversed \/ Sig = "EM")
=============================================================================
