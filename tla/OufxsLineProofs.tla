---------------------------- MODULE OufxsLineProofs ----------------------------
(***************************************************************************)
(* Proofs about the linefeed mode, for every signalling, timer and number  *)
(* of packets per URB, any number of calls and closes: DR 64 holds what the*)
(* driver believes, and a line keeps its polarity.                         *)
(*                                                                         *)
(* The last setting under way, Last, is what DR 64 will hold when all      *)
(* posted settings have been applied.  It lags behind lasttxhook exactly   *)
(* while hooksig or the callback is between its change of the mode and its *)
(* post; on one CPU they are never both there.                             *)
(*                                                                         *)
(* The second part is about the way of the settings to the chip, which the *)
(* first takes to keep their order: OufxsPiggy, an instance here.          *)
(***************************************************************************)
EXTENDS OufxsLine, TLAPS

Last == IF posts = <<>> THEN dr64 ELSE posts[Len(posts)]

(* TypeOK, with the posted settings a sequence, and values that are modes  *)
(* but where the callback has the timer in its hands.                      *)
Typed ==
  /\ TypeOK
  /\ posts \in Seq(0 .. 7)
  /\ val["hs"] \in 0 .. 7 /\ val["io"] \in 0 .. 7
  /\ cb # "dec" => val["cb"] \in 0 .. 7
  /\ io # "idle" => ioctls

(* The mode is one the PBX or the timer gives it, in the polarity asked    *)
(* for by the parameter.                                                   *)
Polarised ==
  ~ioctls =>
    /\ reversepolarity = FALSE
    /\ idletxhookstate \in {active(RevParam), oht(RevParam)}
    /\ \/ lasttxhook \in {idletxhookstate, active(RevParam), oht(RevParam),
                          TipOpen, Ringing, Open}
       \/ Sig = "EM" /\ lasttxhook = RevActive

LineInv == Typed /\ Polarised

(* On one CPU: hooksig and the callback do not overlap, and unless one of  *)
(* them is on its way the last setting is the mode.                        *)
Alone == hs = "idle" \/ cb = "idle"

Follows ==
  ~ioctls =>
    /\ hs = "idle" /\ cb \in {"idle", "dec", "revert"} => Last = lasttxhook
    /\ hs = "post" => val["hs"] = lasttxhook
    /\ cb = "post" => val["cb"] = lasttxhook

CpuInv == LineInv /\ Alone /\ Follows

-----------------------------------------------------------------------------
(* Modes are ints, and so is the timer as the callback arms it.            *)
LEMMA Ints == 0 .. 7 \subseteq Int32 /\ OhtArgs \subseteq Int32
BY LineConstants DEF Int32

LEMMA Armed == OhtTimer \div Packs \in Int32
<1>1. OhtTimer \in Nat /\ Packs \in Nat \ {0} /\ IntMax \in Nat /\ IntMax >= OhtTimer
  BY LineConstants
<1>2. \A x \in Nat, p \in Nat \ {0} : x \div p \in 0 .. x
  OBVIOUS
<1>3. QED BY <1>1, <1>2 DEF Int32

LEMMA LineInit == Init => LineInv
<1> SUFFICES ASSUME Init PROVE LineInv
  OBVIOUS
<1> USE LineConstants, Ints DEF Init, active, FwdActive, RevActive
<1>1. Typed
  <2>1. active(RevParam) \in 0 .. 7 /\ active(RevParam) \in {FwdActive, FwdOht, RevActive, RevOht}
    OBVIOUS
  <2>2. val \in [Ctx -> Int32] /\ val["hs"] = 0 /\ val["io"] = 0 /\ val["cb"] = 0
    BY DEF Ctx
  <2>3. posts \in Seq(0 .. 7) /\ Len(posts) = 0
    OBVIOUS
  <2>4. TypeOK
    <3>1. /\ lasttxhook \in 0 .. 7 /\ dr64 \in 0 .. 7
          /\ idletxhookstate \in {FwdActive, FwdOht, RevActive, RevOht}
      BY <2>1
    <3>2. ohttimer \in Int32 /\ untimed \in BOOLEAN /\ due \in Nat /\ ops \in 0 .. MaxOps
      <4>1. ohttimer = 0 /\ 0 \in 0 .. 7
        OBVIOUS
      <4>2. ohttimer \in Int32
        BY <4>1, Ints
      <4>3. due \in Nat /\ ops \in 0 .. MaxOps
        OBVIOUS
      <4>4. untimed \in BOOLEAN
        BY Zenon
      <4>5. QED BY <4>2, <4>3, <4>4
    <3>3. reversepolarity \in BOOLEAN /\ ioctls \in BOOLEAN
      OBVIOUS
    <3>4. hs = "idle" /\ io = "idle" /\ cb = "idle"
      OBVIOUS
    <3> HIDE DEF Init, active, FwdActive, RevActive
    <3>5. QED BY <2>2, <2>3, <3>1, <3>2, <3>3, <3>4 DEF TypeOK
  <2>5. QED BY <2>1, <2>2, <2>3, <2>4 DEF Typed
<1>2. Polarised
  BY DEF Polarised
<1>3. QED BY <1>1, <1>2 DEF LineInv

(* What a posted setting does to the sequence of them.                     *)
LEMMA Posted ==
  ASSUME Typed, NEW v \in 0 .. 7, posts' = Append(posts, v), dr64' = dr64
  PROVE  posts' \in Seq(0 .. 7) /\ (\A n \in 1 .. Len(posts') : posts'[n] \in 0 .. 7)
         /\ Last' = v
BY DEF Typed, Last

LEMMA Applied ==
  ASSUME Typed, apply
  PROVE  /\ posts' \in Seq(0 .. 7) /\ (\A n \in 1 .. Len(posts') : posts'[n] \in 0 .. 7)
         /\ dr64' \in 0 .. 7 /\ Last' = Last
<1>1. PICK n \in 1 .. Len(posts) :
        dr64' = posts[n] /\ posts' = SubSeq(posts, n + 1, Len(posts))
  BY DEF apply
<1>2. posts \in Seq(0 .. 7) /\ Len(posts) \in Nat
  BY DEF Typed
<1>3. /\ posts' \in Seq(0 .. 7) /\ Len(posts') = Len(posts) - n
      /\ \A k \in 1 .. Len(posts') : posts'[k] = posts[k + n]
  BY <1>1, <1>2
<1>4. CASE n = Len(posts)
  BY <1>1, <1>2, <1>3, <1>4 DEF Last
<1>5. CASE n < Len(posts)
  <2>1. Len(posts') \in 1 .. Len(posts') /\ Len(posts') + n = Len(posts) /\ Len(posts) # 0
    <3>1. Len(posts') \in Nat
      BY <1>3
    <3>2. QED BY <1>1, <1>2, <1>3, <1>5, <3>1
  <2>2. posts'[Len(posts')] = posts[Len(posts)]
    BY <1>3, <2>1
  <2>3. posts' # <<>> /\ posts # <<>>
    BY <1>2, <1>3, <2>1
  <2>4. Last' = Last
    BY <2>2, <2>3 DEF Last
  <2>5. dr64' \in 0 .. 7
    BY <1>1, <1>2
  <2>6. \A k \in 1 .. Len(posts') : posts'[k] \in 0 .. 7
    BY <1>3
  <2>7. QED BY <1>3, <2>4, <2>5, <2>6
<1>6. QED BY <1>1, <1>2, <1>4, <1>5

LEMMA LineInductive == LineInv /\ [Next]_vars => LineInv'
<1> SUFFICES ASSUME LineInv, [Next]_vars PROVE LineInv'
  OBVIOUS
<1> USE LineConstants, Ints DEF active, oht, reversed, onhook, offhook, call, evaluate, Ctx,
        Open, FwdActive, FwdOht, TipOpen, Ringing, RevActive, RevOht
<1>0. Typed /\ Polarised /\ TypeOK
  BY DEF LineInv, Typed
<1>1. CASE UNCHANGED vars
  BY <1>0, <1>1 DEF vars, devVars, LineInv, Typed, TypeOK, Polarised
<1>2. CASE hooksig
  <2>1. CASE hooksig_set
    BY <1>0, <2>1 DEF hooksig_set, LineInv, Typed, TypeOK, Polarised
  <2>2. CASE hooksig_write
    <3>1. CASE hs = "evaluate" /\ hs' = "post" /\ evaluate("hs") /\ UNCHANGED posts
      BY <1>0, <2>2, <3>1 DEF hooksig_write, devVars, LineInv, Typed, TypeOK, Polarised
    <3>2. CASE hs = "post" /\ hs' = "idle" /\ dr_write_piggyback("hs")
      <4>1. posts' = Append(posts, val["hs"]) /\ val' = [val EXCEPT !["hs"] = 0]
        BY <3>2 DEF dr_write_piggyback
      <4>2. /\ posts' \in Seq(0 .. 7)
            /\ \A n \in 1 .. Len(posts') : posts'[n] \in 0 .. 7
        BY <1>0, <2>2, <4>1, Posted DEF hooksig_write, Typed
      <4>3. QED BY <1>0, <2>2, <3>2, <4>1, <4>2
                DEF hooksig_write, devVars, LineInv, Typed, TypeOK, Polarised
    <3>3. QED BY <2>2, <3>1, <3>2 DEF hooksig_write
  <2>3. QED BY <1>2, <2>1, <2>2 DEF hooksig
<1>3. CASE ioctl
  <2>1. /\ ioctls' = TRUE /\ UNCHANGED <<dr64, posts, hs, cb, val>>
        /\ Polarised'
    BY <1>3 DEF ioctl, Polarised
  <2>2. CASE onhooktransfer
    <3>1. /\ io' \in {"ohtidle", "ohtmode", "evaluate", "idle"}
          /\ lasttxhook' \in {lasttxhook, idletxhookstate}
          /\ idletxhookstate' \in {idletxhookstate, RevOht, FwdOht}
      BY <2>2 DEF onhooktransfer
    <3>2. ohttimer' \in Int32 /\ due' \in Nat
      <4>1. \A i \in OhtArgs : i \in Int32 /\ i \in Int
        BY Ints DEF Int32
      <4>2. \/ UNCHANGED <<ohttimer, due>>
            \/ \E i \in OhtArgs : ohttimer' = i /\ due' = IF i > 0 THEN i ELSE 0
        BY <2>2 DEF onhooktransfer
      <4>3. QED BY <1>0, <4>1, <4>2 DEF TypeOK
    <3>5. untimed' \in BOOLEAN
      <4>1. untimed' = untimed \/ \E i \in OhtArgs : untimed' = (i = 0)
        BY <2>2, Zenon DEF onhooktransfer
      <4>2. QED BY <1>0, <4>1 DEF TypeOK
    <3>6. ops' \in 0 .. MaxOps /\ reversepolarity' \in BOOLEAN
      BY <1>0, <2>2 DEF onhooktransfer, TypeOK
    <3>3. lasttxhook' \in 0 .. 7 /\ idletxhookstate' \in {FwdActive, FwdOht, RevActive, RevOht}
      BY <1>0, <3>1 DEF TypeOK
    <3>4. QED BY <1>0, <2>1, <3>1, <3>2, <3>3, <3>5, <3>6 DEF LineInv, Typed, TypeOK
  <2>3. CASE setpolarity
    <3>1. lasttxhook' \in 0 .. 7
      <4>1. lasttxhook % 4 \in 0 .. 3 /\ lasttxhook \in 0 .. 7
        BY <1>0 DEF TypeOK
      <4>2. lasttxhook' \in {lasttxhook, lasttxhook % 4, (lasttxhook % 4) + 0, (lasttxhook % 4) + 4}
        BY <2>3 DEF setpolarity
      <4> HIDE DEF reversed
      <4>3. QED BY <4>1, <4>2
    <3>2. /\ UNCHANGED <<idletxhookstate, ohttimer, due, untimed>> /\ io' \in {"polmode", "evaluate"}
          /\ reversepolarity' \in BOOLEAN /\ ops' \in 0 .. MaxOps
      BY <1>0, <2>3 DEF setpolarity, TypeOK
    <3>3. QED BY <1>0, <2>1, <3>1, <3>2 DEF LineInv, Typed, TypeOK
  <2>4. CASE iocsring
    BY <1>0, <2>1, <2>4 DEF iocsring, LineInv, Typed, TypeOK
  <2>5. QED BY <1>3, <2>2, <2>3, <2>4 DEF ioctl
<1>4. CASE iocsring_write \/ dr_write
  <2>1. /\ UNCHANGED <<devVars, hs, cb, due, untimed, ioctls, ops>> /\ io # "idle"
        /\ io' \in {"idle", "bulk", "post"}
    BY <1>4 DEF iocsring_write, dr_write
  <2>2. CASE evaluate("io") /\ UNCHANGED <<dr64, posts>>
    BY <1>0, <2>1, <2>2 DEF devVars, LineInv, Typed, TypeOK, Polarised
  <2>3. CASE io = "post" /\ dr_write_piggyback("io") /\ UNCHANGED dr64
    <3>1. posts' = Append(posts, val["io"]) /\ val' = [val EXCEPT !["io"] = 0]
      BY <2>3 DEF dr_write_piggyback
    <3>2. /\ posts' \in Seq(0 .. 7)
          /\ \A n \in 1 .. Len(posts') : posts'[n] \in 0 .. 7
      BY <1>0, <2>3, <3>1, Posted DEF Typed
    <3>3. QED BY <1>0, <2>1, <2>3, <3>1, <3>2
              DEF devVars, LineInv, Typed, TypeOK, Polarised
  <2>4. CASE io = "bulk" /\ dr64' \in {dr64, val["io"]} /\ val' = [val EXCEPT !["io"] = 0]
             /\ UNCHANGED posts
    BY <1>0, <2>1, <2>4 DEF devVars, LineInv, Typed, TypeOK, Polarised
  <2>5. QED BY <1>4, <2>2, <2>3, <2>4 DEF iocsring_write, dr_write
<1>5. CASE close
  BY <1>0, <1>5 DEF close, LineInv, Typed, TypeOK, Polarised
<1>6. CASE out_cbak
  <2>1. CASE cbak_ringing
    BY <1>0, <2>1, Armed DEF cbak_ringing, LineInv, Typed, TypeOK, Polarised
  <2>2. CASE cbak_load
    BY <1>0, <2>2 DEF cbak_load, devVars, LineInv, Typed, TypeOK, Polarised
  <2>3. CASE cbak_dec
    <3>1. /\ cb = "dec" /\ val["cb"] \in Int32 /\ ohttimer' = decremented(val["cb"])
          /\ due \in Nat /\ Packs \in Nat /\ due' = IF due > Packs THEN due - Packs ELSE 0
          /\ val' = [val EXCEPT !["cb"] = 0] /\ cb' \in {"idle", "revert"}
          /\ UNCHANGED <<lasttxhook, reversepolarity, dr64, posts, hs, io, untimed, ioctls, ops>>
      BY <1>0, <2>3 DEF cbak_dec, elapsed, Typed, TypeOK
    <3>2. /\ idletxhookstate' = idletxhookstate \/ idletxhookstate' = active(reversed)
          /\ idletxhookstate' \in {FwdActive, FwdOht, RevActive, RevOht}
      BY <1>0, <2>3 DEF cbak_dec, TypeOK
    <3>3. Typed'
      <4>1. ohttimer' \in Int32 /\ due' \in Nat
        BY <3>1 DEF decremented, Int32
      <4>2. QED BY <1>0, <3>1, <3>2, <4>1 DEF Typed, TypeOK
    <3>4. Polarised'
      <4>1. ~ioctls => reversepolarity = FALSE /\ active(reversed) = active(RevParam)
        BY <1>0 DEF Polarised
      <4> HIDE DEF active, oht, reversed
      <4>2. QED BY <1>0, <3>1, <3>2, <4>1 DEF Polarised
    <3>5. QED BY <3>3, <3>4 DEF LineInv
  <2>4. CASE cbak_revert
    BY <1>0, <2>4 DEF cbak_revert, LineInv, Typed, TypeOK, Polarised
  <2>5. CASE cbak_write
    <3>1. CASE cb = "evaluate" /\ cb' = "post" /\ evaluate("cb") /\ UNCHANGED posts
      BY <1>0, <2>5, <3>1 DEF cbak_write, devVars, LineInv, Typed, TypeOK, Polarised
    <3>2. CASE cb = "post" /\ cb' = "idle" /\ dr_write_piggyback("cb")
      <4>1. posts' = Append(posts, val["cb"]) /\ val' = [val EXCEPT !["cb"] = 0]
        BY <3>2 DEF dr_write_piggyback
      <4>2. /\ posts' \in Seq(0 .. 7)
            /\ \A n \in 1 .. Len(posts') : posts'[n] \in 0 .. 7
        BY <1>0, <2>5, <3>2, <4>1, Posted DEF cbak_write, Typed
      <4>3. QED BY <1>0, <2>5, <3>2, <4>1, <4>2
                DEF cbak_write, devVars, LineInv, Typed, TypeOK, Polarised
    <3>3. QED BY <2>5, <3>1, <3>2 DEF cbak_write
  <2>6. QED BY <1>6, <2>1, <2>2, <2>3, <2>4, <2>5 DEF out_cbak
<1>7. CASE apply
  BY <1>0, <1>7, Applied DEF apply, devVars, LineInv, Typed, TypeOK, Polarised
<1>8. QED BY <1>1, <1>2, <1>3, <1>4, <1>5, <1>6, <1>7 DEF Next

LEMMA LineInvariance == Spec => []LineInv
BY LineInit, LineInductive, PTL DEF Spec

-----------------------------------------------------------------------------
(***************************************************************************)
(* One CPU.                                                                *)
(***************************************************************************)
LEMMA CpuInit == Init => CpuInv
<1> SUFFICES ASSUME Init PROVE CpuInv
  OBVIOUS
<1>1. Alone /\ Follows
  BY DEF Init, Alone, Follows, Last
<1>2. QED BY <1>1, LineInit DEF CpuInv

LEMMA CpuInductive ==
  ASSUME ~SMP
  PROVE  CpuInv /\ [Next]_vars => CpuInv'
<1> SUFFICES ASSUME CpuInv, [Next]_vars PROVE CpuInv'
  OBVIOUS
<1>0. LineInv' /\ LineInv /\ Typed /\ Alone /\ Follows
  BY LineInductive DEF CpuInv, LineInv
<1>1. CASE UNCHANGED vars
  BY <1>0, <1>1 DEF vars, devVars, Alone, Follows, Last, CpuInv
<1>2. CASE hooksig /\ cb = "idle"
  <2>1. CASE hooksig_set
    BY <1>0, <1>2, <2>1 DEF hooksig_set, Alone, Follows, CpuInv
  <2>2. CASE hooksig_write
    <3>1. CASE hs = "evaluate" /\ hs' = "post" /\ evaluate("hs") /\ UNCHANGED posts
      <4>1. val'["hs"] = lasttxhook
        BY <1>0, <3>1 DEF evaluate, Typed, TypeOK, Ctx
      <4>2. QED BY <1>0, <1>2, <2>2, <3>1, <4>1
                DEF hooksig_write, devVars, Alone, Follows, CpuInv
    <3>2. CASE hs = "post" /\ hs' = "idle" /\ dr_write_piggyback("hs")
      <4>1. Last' = val["hs"]
        BY <1>0, <2>2, <3>2, Posted DEF hooksig_write, dr_write_piggyback, Typed
      <4>2. QED BY <1>0, <1>2, <2>2, <3>2, <4>1
                DEF hooksig_write, devVars, Alone, Follows, CpuInv
    <3>3. QED BY <2>2, <3>1, <3>2 DEF hooksig_write
  <2>3. QED BY <1>2, <2>1, <2>2 DEF hooksig
<1>3. CASE (ioctl \/ iocsring_write \/ dr_write) /\ cb = "idle" /\ hs = "idle"
  <2>1. ioctls' /\ cb' = "idle" /\ hs' = "idle"
    BY <1>0, <1>3 DEF ioctl, iocsring_write, dr_write, Typed
  <2>2. QED BY <1>0, <2>1 DEF Alone, Follows, CpuInv
<1>4. CASE close
  BY <1>0, <1>4 DEF close, Alone, Follows, Last, CpuInv
<1>5. CASE out_cbak /\ hs = "idle"
  <2>1. CASE cbak_ringing
    BY <1>0, <1>5, <2>1 DEF cbak_ringing, Alone, Follows, Last, CpuInv
  <2>2. CASE cbak_load
    BY <1>0, <1>5, <2>2 DEF cbak_load, devVars, Alone, Follows, Last, CpuInv
  <2>3. CASE cbak_dec
    BY <1>0, <1>5, <2>3 DEF cbak_dec, Alone, Follows, Last, CpuInv
  <2>4. CASE cbak_revert
    BY <1>0, <1>5, <2>4 DEF cbak_revert, Alone, Follows, CpuInv
  <2>5. CASE cbak_write
    <3>1. CASE cb = "evaluate" /\ cb' = "post" /\ evaluate("cb") /\ UNCHANGED posts
      <4>1. val'["cb"] = lasttxhook
        BY <1>0, <3>1 DEF evaluate, Typed, TypeOK, Ctx
      <4>2. QED BY <1>0, <1>5, <2>5, <3>1, <4>1
                DEF cbak_write, devVars, Alone, Follows, CpuInv
    <3>2. CASE cb = "post" /\ cb' = "idle" /\ dr_write_piggyback("cb")
      <4>1. Last' = val["cb"]
        BY <1>0, <2>5, <3>2, Posted DEF cbak_write, dr_write_piggyback, Typed
      <4>2. QED BY <1>0, <1>5, <2>5, <3>2, <4>1
                DEF cbak_write, devVars, Alone, Follows, CpuInv
    <3>3. QED BY <2>5, <3>1, <3>2 DEF cbak_write
  <2>6. QED BY <1>5, <2>1, <2>2, <2>3, <2>4, <2>5 DEF out_cbak
<1>6. CASE apply
  BY <1>0, <1>6, Applied DEF apply, devVars, Alone, Follows, CpuInv
<1>7. QED BY <1>1, <1>2, <1>3, <1>4, <1>5, <1>6 DEF Next

LEMMA CpuInvariance ==
  ASSUME ~SMP
  PROVE  Spec => []CpuInv
BY CpuInit, CpuInductive, PTL DEF Spec

-----------------------------------------------------------------------------
(***************************************************************************)
(* The theorems.  Spec allows more than the PromptSpec of the run.         *)
(***************************************************************************)

(* Every variable keeps its type, on one CPU or several: DR 64 is never    *)
(* given a mode that is not one of the eight, though oufxs_ioctl computes  *)
(* it with bit operations and the callback stores a timer it has loaded    *)
(* before.                                                                 *)
THEOREM TypeCorrect == Spec => []TypeOK
<1>1. LineInv => TypeOK
  BY DEF LineInv, Typed
<1>2. QED BY LineInvariance, <1>1, PTL

(* A line that no ioctl has changed has the polarity of the module         *)
(* parameter whenever it is in an active or oht mode, on one CPU or        *)
(* several and also while a change is under way.                           *)
THEOREM PolarityIsKept == Spec => []PolarityKept
<1>1. ASSUME LineInv, ~ioctls
      PROVE  /\ lasttxhook \in {FwdActive, FwdOht} => ~reversed
             /\ lasttxhook \in {RevActive, RevOht} => (reversed \/ Sig = "EM")
  <2> USE DEF active, oht, Open, FwdActive, FwdOht, TipOpen, Ringing, RevActive, RevOht
  <2>1. reversed <=> RevParam
    BY <1>1, LineConstants DEF LineInv, Polarised, reversed
  <2>2. \/ lasttxhook \in {active(RevParam), oht(RevParam), TipOpen, Ringing, Open}
        \/ Sig = "EM" /\ lasttxhook = RevActive
    BY <1>1 DEF LineInv, Polarised
  <2>3. CASE RevParam
    BY <2>1, <2>2, <2>3
  <2>4. CASE ~RevParam
    BY <2>1, <2>2, <2>4
  <2>5. QED BY <2>3, <2>4
<1>2. LineInv => PolarityKept
  BY <1>1 DEF PolarityKept
<1>3. QED BY LineInvariance, <1>2, PTL

(* On one CPU DR 64 holds the last mode set (lasttxhook) once nothing is   *)
(* under way: the settings that oufxs_hooksig and the timer's callback post*)
(* without a common lock take effect in the order of the modes.            *)
THEOREM SettingsInForce ==
  ASSUME ~SMP
  PROVE  Spec => []InForce
<1>1. CpuInv => InForce
  BY DEF CpuInv, Follows, Last, InForce, Quiet
<1>2. QED BY CpuInvariance, <1>1, PTL

-----------------------------------------------------------------------------
(***************************************************************************)
(* The settings on their way to the chip: the constants and the state of   *)
(* OufxsPiggy, but for Packs, which is that of the line.  For every number *)
(* of URBs, packets and settings, and every range of the sequence number:  *)
(* ProcessIO acts on whole headers only, and driver, bus and firmware      *)
(* implement the steps of DrChannel.  Both are about the first session     *)
(* after power up; in a later one the buffers still have the headers of    *)
(* the last.                                                               *)
(***************************************************************************)
CONSTANTS SeqMod, InFlight, MaxPosts, MaxSessions, Seqs, PowerUp

VARIABLES
  drs, posted, urbs, left, out, rx, drsena, drsseq, pio, smpl, hit, applied, sessions

Piggy == INSTANCE OufxsPiggy

(* What OufxsPiggy assumes of its constants.                               *)
PiggyRange ==
  /\ SeqMod \in Nat \ {0} /\ InFlight \in Nat \ {0} /\ Packs \in Nat \ {0}
  /\ MaxPosts \in 0 .. SeqMod - 1 /\ MaxSessions \in Nat
  /\ Seqs \subseteq 0 .. SeqMod - 1 /\ PowerUp \in 0 .. SeqMod - 1

FirstSession == MaxSessions <= 1

(* A header as the driver sent it, when n settings had been posted: its    *)
(* sequence number is what the current one was posted - n settings ago.    *)
Sent(h) ==
  /\ h.val <= posted
  /\ drs.seq = (h.seq + (posted - h.val)) % SeqMod
  /\ h.reg = IF h.val = 0 THEN "none" ELSE "DR64"
Whole(h) == h = Piggy!Blank \/ Sent(h)

-----------------------------------------------------------------------------
(* The inductive invariant.                                                *)
HeadersTyped ==
  /\ drs \in Piggy!Header /\ posted \in 0 .. MaxPosts /\ sessions \in Nat
  /\ urbs \in Seq(Piggy!Header)
  /\ out \in [{0, 1} -> Piggy!Header] /\ smpl \in Piggy!Header
  /\ rx \in [buf : {0, 1}, pkt : Piggy!Header, n : 0 .. 3]
  /\ hit \in BOOLEAN /\ applied \in 0 .. MaxPosts

(* Before the first session nothing has been sent.                         *)
Fresh ==
  sessions = 0 =>
    /\ drs = Piggy!Blank /\ posted = 0 /\ applied = 0 /\ urbs = <<>> /\ ~drsena
    /\ out = [b \in {0, 1} |-> Piggy!Blank] /\ rx.n = 0 /\ pio = "test"

(* The USB engine: the packet that arrives is of the oldest URB, and what  *)
(* has been written of it is in the buffer.                                *)
Engine ==
  /\ rx.n > 0 => urbs # <<>> /\ rx.pkt = urbs[1]
  /\ rx.n > 1 => out[rx.buf].seq = rx.pkt.seq
  /\ rx.n > 2 => out[rx.buf].reg = rx.pkt.reg
  /\ rx.n > 0 /\ pio # "test" => hit

(* The buffer that is not being written holds a whole header.              *)
Settled ==
  /\ Sent(drs) /\ drs.val = posted
  /\ \A i \in 1 .. Len(urbs) : Sent(urbs[i])
  /\ Whole(out[1 - rx.buf])

(* Values only grow along the way from the driver to the chip.             *)
Ascending ==
  /\ \A i, k \in 1 .. Len(urbs) : i <= k => urbs[i].val <= urbs[k].val
  /\ \A b \in {0, 1} :
       /\ applied <= out[b].val /\ out[b].val <= posted
       /\ \A i \in 1 .. Len(urbs) : out[b].val <= urbs[i].val
  /\ pio \in {"cmpseq", "cmpreg", "cmpval", "set"} => smpl.val <= out[0].val /\ applied <= smpl.val
  /\ pio = "set" => smpl.val <= out[1].val

(* While ProcessIO samples, one of the buffers holds a whole header and is *)
(* not written, and what has been sampled or compared agrees with it.      *)
Untouched(b) == Whole(out[b]) /\ (~hit \/ rx.n > 0 => rx.buf # b)
Sampled ==
  /\ pio \notin {"seq"} => smpl.seq = out[0].seq
  /\ pio \notin {"seq", "reg"} => smpl.reg = out[0].reg
  /\ pio \notin {"seq", "reg", "val"} => smpl.val = out[0].val
Compared ==
  /\ pio \in {"cmpreg", "cmpval", "set"} => smpl.seq = out[1].seq
  /\ pio \in {"cmpval", "set"} => smpl.reg = out[1].reg
  /\ pio = "set" => smpl.val = out[1].val
Steady ==
  pio # "test" => \/ Untouched(0) /\ Sampled
                  \/ Untouched(1) /\ Compared

PiggyInv == HeadersTyped /\ Fresh /\ Engine /\ Settled /\ Ascending /\ Steady

(* What ProcessIO acts on is a header the driver has sent, or the one left *)
(* from power up: never one put together from two packets.                 *)
ActsOnWhole == pio = "set" => Whole(smpl)

-----------------------------------------------------------------------------
(* Counting on after a division.                                           *)
LEMMA Remainder ==
  ASSUME NEW m \in Nat \ {0}, NEW q \in Nat, NEW p \in Nat,
         NEW r \in 0 .. m - 1, NEW s \in 0 .. m - 1, m * q + r = m * p + s
  PROVE  r = s
<1>1. ASSUME NEW x \in Nat, NEW y \in Nat, x < y PROVE m * x + m <= m * y
  <2>1. m * (x + 1) <= m * y
    BY <1>1
  <2>2. QED BY <2>1
<1>2. m * q \in Nat /\ m * p \in Nat
  OBVIOUS
<1>3. ~(q < p) /\ ~(p < q)
  BY <1>1, <1>2
<1>4. QED BY <1>2, <1>3

LEMMA Onward ==
  ASSUME PiggyRange, NEW x \in Nat
  PROVE  ((x % SeqMod) + 1) % SeqMod = (x + 1) % SeqMod
<1> DEFINE m == SeqMod
           r == x % m
           q == x \div m
           s == (x + 1) % m
           p == (x + 1) \div m
<1>1. m \in Nat \ {0}
  BY DEF PiggyRange
<1>2. q \in Nat /\ r \in 0 .. m - 1 /\ x = m * q + r
  BY <1>1, SMT
<1>3. p \in Nat /\ s \in 0 .. m - 1 /\ x + 1 = m * p + s
  BY <1>1, SMT
<1>4. (r + 1) % m = IF r + 1 = m THEN 0 ELSE r + 1
  BY <1>1, <1>2
<1> HIDE DEF m, r, q, s, p
<1>5. m * (q + 1) = m * q + m /\ m * q \in Nat /\ q + 1 \in Nat /\ 0 \in 0 .. m - 1
  BY <1>1, <1>2
<1>6. CASE r + 1 = m
  <2>1. m * (q + 1) + 0 = m * p + s
    BY <1>2, <1>3, <1>5, <1>6
  <2>2. s = 0
    BY <2>1, <1>1, <1>3, <1>5, Remainder
  <2>3. QED BY <2>2, <1>4, <1>6 DEF m, r, s
<1>7. CASE r + 1 # m
  <2>1. r + 1 \in 0 .. m - 1
    BY <1>1, <1>2, <1>7
  <2>2. m * q + (r + 1) = m * p + s
    BY <1>2, <1>3, <1>5
  <2>3. s = r + 1
    BY <2>1, <2>2, <1>1, <1>2, <1>3, Remainder
  <2>4. QED BY <2>3, <1>4, <1>7 DEF m, r, s
<1>8. QED BY <1>6, <1>7

-----------------------------------------------------------------------------
(* Headers.                                                                *)
LEMMA BlankHeader == ASSUME PiggyRange PROVE Piggy!Blank \in Piggy!Header
BY DEF PiggyRange, Piggy!Blank, Piggy!Header

LEMMA SameHeader ==
  ASSUME NEW g \in Piggy!Header, NEW h \in Piggy!Header, g.seq = h.seq, g.reg = h.reg, g.val = h.val
  PROVE  g = h
BY DEF Piggy!Header

LEMMA Copies ==
  ASSUME NEW S, NEW d \in S, NEW n \in Nat, NEW u, u = [i \in 1 .. n |-> d]
  PROVE  Len(u) = n /\ u \in Seq(S) /\ \A i \in 1 .. Len(u) : u[i] = d
OBVIOUS

LEMMA Rotate ==
  ASSUME NEW S, NEW s \in Seq(S), s # <<>>, NEW d \in S, NEW t, t = Append(Tail(s), d)
  PROVE  /\ t \in Seq(S) /\ Len(t) = Len(s) /\ Len(s) \in Nat \ {0}
         /\ t[Len(s)] = d /\ \A i \in 1 .. Len(s) - 1 : t[i] = s[i + 1]
<1>1. Tail(s) \in Seq(S) /\ Len(Tail(s)) = Len(s) - 1 /\ Len(s) \in Nat \ {0}
      /\ \A i \in 1 .. Len(s) - 1 : Tail(s)[i] = s[i + 1]
  OBVIOUS
<1>2. QED BY <1>1

LEMMA PiggyInit == ASSUME PiggyRange PROVE Piggy!Init => PiggyInv
<1> SUFFICES ASSUME Piggy!Init PROVE PiggyInv
  OBVIOUS
<1> USE BlankHeader DEF Piggy!Init
<1>1. HeadersTyped
  BY DEF HeadersTyped
<1>2. Fresh
  BY DEF Fresh
<1>3. Engine
  BY DEF Engine
<1>4. Settled
  <2>1. Sent(drs)
    BY DEF PiggyRange, Sent, Piggy!Blank
  <2>2. out[1 - rx.buf] = Piggy!Blank
    OBVIOUS
  <2>3. QED BY <2>1, <2>2 DEF Settled, Whole, Piggy!Blank
<1>5. Ascending
  BY DEF Ascending, Piggy!Blank
<1>6. Steady
  BY DEF Steady
<1>7. QED BY <1>1, <1>2, <1>3, <1>4, <1>5, <1>6 DEF PiggyInv

(* What was sent stays sent when another setting is posted.                *)
LEMMA SentStays ==
  ASSUME PiggyRange, HeadersTyped, Piggy!dr_write_piggyback, NEW h \in Piggy!Header, Sent(h)
  PROVE  Sent(h)'
<1>1. posted \in Nat /\ h.val \in Nat /\ h.seq \in Nat /\ h.val <= posted
  BY DEF PiggyRange, HeadersTyped, Piggy!Header, Sent
<1>2. posted' = posted + 1 /\ drs'.seq = (drs.seq + 1) % SeqMod
  BY DEF Piggy!dr_write_piggyback
<1>3. drs.seq = (h.seq + (posted - h.val)) % SeqMod
  BY DEF Sent
<1>4. h.seq + (posted - h.val) \in Nat
      /\ h.seq + (posted - h.val) + 1 = h.seq + (posted' - h.val)
  BY <1>1, <1>2
<1>5. drs'.seq = (h.seq + (posted' - h.val)) % SeqMod
  BY <1>2, <1>3, <1>4, Onward
<1>6. h.val <= posted'
  BY <1>1, <1>2
<1>7. QED BY <1>5, <1>6 DEF Sent

(* A step that posts nothing keeps headers as they were.                   *)
LEMMA SameSent ==
  ASSUME PiggyRange, UNCHANGED <<drs, posted>>, NEW h
  PROVE  (Sent(h)' <=> Sent(h)) /\ (Whole(h)' <=> Whole(h))
BY DEF Sent, Whole, Piggy!Blank

-----------------------------------------------------------------------------
(* The driver.                                                             *)
LEMMA StepStart ==
  ASSUME PiggyRange, PiggyInv, FirstSession, Piggy!start_stop_iov2
  PROVE  PiggyInv'
<1>1. sessions = 0 /\ sessions' = 1
  BY DEF PiggyRange, FirstSession, HeadersTyped, PiggyInv, Piggy!start_stop_iov2
<1>2. /\ out = [b \in {0, 1} |-> Piggy!Blank] /\ rx.n = 0 /\ pio = "test"
      /\ UNCHANGED <<out, rx, pio, smpl, hit>> /\ posted' = 0 /\ applied' = 0
  BY <1>1 DEF Fresh, PiggyInv, Piggy!start_stop_iov2
<1>3. PICK seq \in Seqs :
        /\ drs' = [Piggy!Blank EXCEPT !.seq = seq]
        /\ urbs' = [i \in 1 .. InFlight |-> drs']
  BY DEF Piggy!start_stop_iov2
<1>4. drs' \in Piggy!Header /\ drs'.seq = seq /\ drs'.val = 0 /\ drs'.reg = "none"
  BY <1>3 DEF PiggyRange, Piggy!Blank, Piggy!Header
<1>5. Len(urbs') = InFlight /\ urbs' \in Seq(Piggy!Header) /\ \A i \in 1 .. Len(urbs') : urbs'[i] = drs'
  <2>1. InFlight \in Nat
    BY DEF PiggyRange
  <2>2. QED BY <1>3, <1>4, <2>1, Copies
<1>6. HeadersTyped'
  BY <1>1, <1>2, <1>4, <1>5 DEF PiggyRange, HeadersTyped, PiggyInv
<1>7. Fresh'
  BY <1>1 DEF Fresh
<1>8. Engine'
  BY <1>2 DEF Engine
<1>9. Settled'
  <2>1. drs'.seq \in 0 .. SeqMod - 1
    BY <1>4 DEF Piggy!Header
  <2>2. Sent(drs)'
    BY <1>2, <1>4, <2>1 DEF PiggyRange, Sent
  <2>3. \A i \in 1 .. Len(urbs') : Sent(urbs[i])'
    BY <1>5, <2>2 DEF Sent
  <2>4. out'[1 - rx'.buf] = Piggy!Blank
    BY <1>2 DEF HeadersTyped, PiggyInv
  <2>5. QED BY <1>2, <1>4, <2>2, <2>3, <2>4 DEF Settled, Whole, Piggy!Blank
<1>10. Ascending'
  <2>1. \A b \in {0, 1} : out'[b].val = 0
    BY <1>2 DEF Piggy!Blank
  <2>2. \A i \in 1 .. Len(urbs') : urbs'[i].val = 0
    BY <1>4, <1>5
  <2>3. QED BY <1>2, <2>1, <2>2 DEF Ascending
<1>11. Steady'
  BY <1>2 DEF Steady
<1>12. QED BY <1>6, <1>7, <1>8, <1>9, <1>10, <1>11 DEF PiggyInv

LEMMA StepStop ==
  ASSUME PiggyRange, PiggyInv, Piggy!stop
  PROVE  PiggyInv'
<1> USE DEF Piggy!stop, PiggyInv, Piggy!fwVars
<1>1. Len(urbs') = 0 /\ urbs' \in Seq(Piggy!Header)
  OBVIOUS
<1>2. rx'.n = 0 /\ rx'.buf = rx.buf /\ rx'.pkt = rx.pkt
      /\ rx' \in [buf : {0, 1}, pkt : Piggy!Header, n : 0 .. 3]
  BY DEF HeadersTyped
<1>3. HeadersTyped'
  BY <1>1, <1>2 DEF HeadersTyped
<1>4. Fresh'
  BY DEF Fresh
<1>5. Engine'
  BY <1>2 DEF Engine
<1>6. Settled'
  <2>1. Sent(drs)' /\ Whole(out[1 - rx.buf])'
    BY <1>2, SameSent DEF Settled, Whole, Sent, Piggy!Blank
  <2>2. QED BY <1>1, <2>1 DEF Settled
<1>7. Ascending'
  BY <1>1 DEF Ascending
<1>8. Steady'
  BY <1>2, SameSent DEF Steady, Untouched, Sampled, Compared, Whole, Sent, Piggy!Blank
<1>9. QED BY <1>3, <1>4, <1>5, <1>6, <1>7, <1>8

LEMMA StepPost ==
  ASSUME PiggyRange, PiggyInv, Piggy!dr_write_piggyback
  PROVE  PiggyInv'
<1>1. /\ posted' = posted + 1 /\ posted \in Nat /\ posted' \in 0 .. MaxPosts
      /\ UNCHANGED <<urbs, sessions, left, out, rx, drsena, drsseq, pio, smpl, hit, applied>>
  BY DEF PiggyRange, Piggy!dr_write_piggyback, Piggy!busVars, Piggy!fwVars, PiggyInv, HeadersTyped
<1>2. /\ drs'.val = posted' /\ drs'.reg = "DR64" /\ drs'.seq = (drs.seq + 1) % SeqMod
      /\ drs' \in Piggy!Header
  <2>1. drs.seq \in Nat
    BY DEF PiggyRange, PiggyInv, HeadersTyped, Piggy!Header
  <2>2. (drs.seq + 1) % SeqMod \in 0 .. SeqMod - 1
    BY <2>1 DEF PiggyRange
  <2>3. drs' = [seq |-> (drs.seq + 1) % SeqMod, reg |-> "DR64", val |-> posted']
    BY <1>1 DEF Piggy!dr_write_piggyback
  <2>4. QED BY <1>1, <2>2, <2>3 DEF Piggy!Header
<1>3. HeadersTyped'
  BY <1>1, <1>2 DEF PiggyInv, HeadersTyped
<1>4. Fresh'
  BY <1>1 DEF PiggyInv, Fresh, Piggy!dr_write_piggyback
<1>5. Engine'
  BY <1>1 DEF PiggyInv, Engine
<1>6. \A h \in Piggy!Header : Whole(h) => Whole(h)'
  BY SentStays DEF Whole, PiggyInv, Piggy!Blank
<1>7. Settled'
  <2>1. Sent(drs)'
    BY <1>1, <1>2 DEF PiggyRange, Sent, Piggy!Header
  <2>2. \A i \in 1 .. Len(urbs') : Sent(urbs[i])'
    <3>1. TAKE i \in 1 .. Len(urbs')
    <3>2. urbs[i] \in Piggy!Header /\ Sent(urbs[i])
      BY <1>1 DEF PiggyInv, HeadersTyped, Settled
    <3>3. Sent(urbs[i])'
      BY <3>2, <1>1, SentStays DEF PiggyInv
    <3>4. QED BY <3>3
  <2>3. Whole(out[1 - rx.buf])'
    BY <1>1, <1>6 DEF PiggyInv, HeadersTyped, Settled
  <2>4. QED BY <1>2, <2>1, <2>2, <2>3 DEF Settled
<1>8. Ascending'
  <2>1. Ascending /\ \A b \in {0, 1} : out[b].val \in Nat
    BY DEF PiggyRange, PiggyInv, HeadersTyped, Piggy!Header
  <2>2. \A b \in {0, 1} : out[b].val <= posted'
    BY <1>1, <2>1 DEF Ascending
  <2>3. QED BY <1>1, <2>1, <2>2 DEF Ascending
<1>9. Steady'
  <2>1. \A b \in {0, 1} : Untouched(b) => Untouched(b)'
    BY <1>1, <1>6 DEF PiggyInv, HeadersTyped, Untouched
  <2>2. (Sampled => Sampled') /\ (Compared => Compared')
    BY <1>1 DEF Sampled, Compared
  <2>3. QED BY <1>1, <2>1, <2>2 DEF PiggyInv, Steady
<1>10. QED BY <1>3, <1>4, <1>5, <1>7, <1>8, <1>9 DEF PiggyInv

LEMMA StepCbak ==
  ASSUME PiggyRange, PiggyInv, Piggy!isoc_out_cbak
  PROVE  PiggyInv'
<1> DEFINE n == Len(urbs)
<1>1. /\ urbs # <<>> /\ urbs \in Seq(Piggy!Header) /\ drs \in Piggy!Header /\ rx.n = 0
      /\ urbs' = Append(Tail(urbs), drs)
      /\ UNCHANGED <<drs, posted, sessions, out, rx, drsena, drsseq, pio, smpl, hit, applied>>
  BY DEF Piggy!isoc_out_cbak, Piggy!fwVars, PiggyInv, HeadersTyped
<1>2. /\ urbs' \in Seq(Piggy!Header) /\ Len(urbs') = n /\ n \in Nat \ {0}
      /\ urbs'[n] = drs /\ \A i \in 1 .. n - 1 : urbs'[i] = urbs[i + 1]
  BY <1>1, Rotate
<1> HIDE DEF n
<1>3. HeadersTyped'
  BY <1>1, <1>2 DEF PiggyInv, HeadersTyped
<1>4. Fresh'
  BY <1>1 DEF PiggyInv, Fresh
<1>5. Engine'
  BY <1>1 DEF PiggyInv, Engine
<1>6. Settled'
  <2>1. Settled /\ \A i \in 1 .. n : Sent(urbs[i])
    BY DEF PiggyInv, Settled, n
  <2>2. \A i \in 1 .. n : Sent(urbs'[i])
    <3>1. TAKE i \in 1 .. n
    <3>2. CASE i = n
      BY <1>2, <2>1, <3>2 DEF Settled
    <3>3. CASE i # n
      BY <1>2, <2>1, <3>3
    <3>4. QED BY <3>2, <3>3
  <2>3. QED BY <1>1, <1>2, <2>1, <2>2, SameSent DEF Settled, Sent, Whole, Piggy!Blank
<1>7. Ascending'
  <2>1. /\ \A i, k \in 1 .. n : i <= k => urbs[i].val <= urbs[k].val
        /\ \A b \in {0, 1} : applied <= out[b].val /\ out[b].val <= posted
        /\ \A b \in {0, 1}, i \in 1 .. n : out[b].val <= urbs[i].val
        /\ \A i \in 1 .. n : urbs[i].val <= posted
        /\ drs.val = posted /\ posted \in Nat
    BY DEF PiggyRange, PiggyInv, Ascending, Settled, Sent, HeadersTyped, n
  <2>2. \A i, k \in 1 .. n : i <= k => urbs'[i].val <= urbs'[k].val
    <3>1. TAKE i, k \in 1 .. n
    <3>2. CASE k = n
      <4>1. urbs'[k].val = posted
        BY <1>2, <2>1, <3>2
      <4>2. urbs'[i].val <= posted
        <5>1. CASE i = n
          BY <4>1, <3>2, <5>1, <2>1
        <5>2. CASE i # n
          BY <1>2, <2>1, <5>2
        <5>3. QED BY <5>1, <5>2
      <4>3. QED BY <4>1, <4>2
    <3>3. CASE k # n
      <4>1. CASE i = n
        BY <1>2, <3>3, <4>1
      <4>2. CASE i # n
        <5>1. i + 1 \in 1 .. n /\ k + 1 \in 1 .. n /\ i \in 1 .. n - 1 /\ k \in 1 .. n - 1
          BY <1>2, <3>3, <4>2
        <5>2. urbs'[i] = urbs[i + 1] /\ urbs'[k] = urbs[k + 1]
          BY <1>2, <5>1
        <5>3. i <= k => i + 1 <= k + 1
          BY <5>1
        <5>4. QED BY <2>1, <5>1, <5>2, <5>3
      <4>3. QED BY <4>1, <4>2
    <3>4. QED BY <3>2, <3>3
  <2>3. \A b \in {0, 1}, i \in 1 .. n : out[b].val <= urbs'[i].val
    <3>1. TAKE b \in {0, 1}, i \in 1 .. n
    <3>2. CASE i = n
      BY <1>2, <2>1, <3>2
    <3>3. CASE i # n
      BY <1>2, <2>1, <3>3
    <3>4. QED BY <3>2, <3>3
  <2>4. QED BY <1>1, <1>2, <2>1, <2>2, <2>3 DEF PiggyInv, Ascending
<1>8. Steady'
  BY <1>1, SameSent DEF PiggyInv, Steady, Untouched, Sampled, Compared, Whole, Sent, Piggy!Blank
<1>9. QED BY <1>3, <1>4, <1>5, <1>6, <1>7, <1>8 DEF PiggyInv

-----------------------------------------------------------------------------
(* The bus and the USB engine.                                             *)
LEMMA Arrived ==
  ASSUME PiggyRange, NEW P, NEW r \in [buf : {0, 1}, pkt : P, n : 0 .. 3], NEW h \in P,
         NEW q, q = [r EXCEPT !.pkt = h, !.n = 1]
  PROVE  q.buf = r.buf /\ q.pkt = h /\ q.n = 1 /\ q \in [buf : {0, 1}, pkt : P, n : 0 .. 3]
<1>1. DOMAIN r = {"buf", "pkt", "n"} /\ r.buf \in {0, 1}
  OBVIOUS
<1>2. q.buf = r.buf
  BY <1>1, Zenon
<1>3. q.pkt = h
  BY <1>1, Zenon
<1>4. q.n = 1
  BY <1>1, Zenon
<1>5. q = [buf |-> r.buf, pkt |-> h, n |-> 1]
  OBVIOUS
<1>6. QED BY <1>1, <1>2, <1>3, <1>4, <1>5

LEMMA StepReceive ==
  ASSUME PiggyRange, PiggyInv, Piggy!receive
  PROVE  PiggyInv'
<1>1. /\ urbs # <<>> /\ rx.n = 0 /\ hit' = TRUE /\ (pio = "test" \/ ~hit)
      /\ rx'.buf = rx.buf /\ rx'.pkt = urbs[1] /\ rx'.n = 1 /\ urbs[1] \in Piggy!Header
      /\ rx' \in [buf : {0, 1}, pkt : Piggy!Header, n : 0 .. 3]
      /\ UNCHANGED <<drs, posted, urbs, sessions, out, drsena, drsseq, pio, smpl, applied>>
  <2>1. Head(urbs) = urbs[1] /\ urbs[1] \in Piggy!Header
    BY DEF Piggy!receive, PiggyInv, HeadersTyped
  <2>2. rx' = [rx EXCEPT !.pkt = Head(urbs), !.n = 1] /\ rx \in [buf : {0, 1}, pkt : Piggy!Header, n : 0 .. 3]
    BY DEF Piggy!receive, PiggyInv, HeadersTyped
  <2>3. rx'.buf = rx.buf /\ rx'.pkt = urbs[1] /\ rx'.n = 1
        /\ rx' \in [buf : {0, 1}, pkt : Piggy!Header, n : 0 .. 3]
    BY <2>1, <2>2, Arrived
  <2>4. QED BY <2>1, <2>3 DEF Piggy!receive, Piggy!drvVars
<1>2. HeadersTyped'
  BY <1>1 DEF PiggyInv, HeadersTyped
<1>3. Fresh'
  BY <1>1 DEF PiggyInv, Fresh
<1>4. Engine'
  BY <1>1 DEF Engine
<1>5. Settled'
  BY <1>1, SameSent DEF PiggyInv, Settled, Whole, Sent, Piggy!Blank
<1>6. Ascending'
  BY <1>1 DEF PiggyInv, Ascending
<1>7. Steady'
  BY <1>1, SameSent DEF PiggyInv, Steady, Untouched, Sampled, Compared, Whole, Sent, Piggy!Blank
<1>8. QED BY <1>2, <1>3, <1>4, <1>5, <1>6, <1>7 DEF PiggyInv

LEMMA StepLose ==
  ASSUME PiggyRange, PiggyInv, UNCHANGED <<Piggy!drvVars, out, rx, Piggy!fwVars>>
  PROVE  PiggyInv'
<1>1. UNCHANGED <<drs, posted, urbs, sessions, out, rx, drsena, drsseq, pio, smpl, hit, applied>>
  BY DEF Piggy!drvVars, Piggy!fwVars
<1>2. HeadersTyped' /\ Fresh' /\ Engine'
  BY <1>1 DEF PiggyInv, HeadersTyped, Fresh, Engine
<1>3. Settled' /\ Ascending'
  BY <1>1 DEF PiggyInv, Settled, Ascending, Whole, Sent, Piggy!Blank
<1>4. Steady'
  BY <1>1 DEF PiggyInv, Steady, Untouched, Sampled, Compared, Whole, Sent, Piggy!Blank
<1>5. QED BY <1>2, <1>3, <1>4 DEF PiggyInv

(* The number a header carries is a natural.                               *)
LEMMA Vals ==
  ASSUME PiggyRange, NEW h \in Piggy!Header
  PROVE  h.val \in Nat
BY DEF PiggyRange, Piggy!Header

(* What one store does to the buffer that is being written.                *)
LEMMA Stored ==
  ASSUME PiggyRange, PiggyInv, Piggy!store
  PROVE  /\ rx.buf \in {0, 1} /\ rx.n \in 1 .. 3 /\ rx.pkt \in Piggy!Header
         /\ out' \in [{0, 1} -> Piggy!Header]
         /\ out'[1 - rx.buf] = out[1 - rx.buf]
         /\ out'[rx.buf].seq = IF rx.n = 1 THEN rx.pkt.seq ELSE out[rx.buf].seq
         /\ out'[rx.buf].reg = IF rx.n = 2 THEN rx.pkt.reg ELSE out[rx.buf].reg
         /\ out'[rx.buf].val = IF rx.n = 3 THEN rx.pkt.val ELSE out[rx.buf].val
<1>1. rx.buf \in {0, 1} /\ rx.n \in 1 .. 3 /\ rx.pkt \in Piggy!Header /\ out \in [{0, 1} -> Piggy!Header]
  BY DEF PiggyInv, HeadersTyped, Piggy!store
<1> DEFINE h == out[rx.buf]
           g == CASE rx.n = 1 -> [h EXCEPT !.seq = rx.pkt.seq]
                  [] rx.n = 2 -> [h EXCEPT !.reg = rx.pkt.reg]
                  [] rx.n = 3 -> [h EXCEPT !.val = rx.pkt.val]
<1>2. h \in Piggy!Header /\ out' = [out EXCEPT ![rx.buf] = g]
  BY <1>1 DEF Piggy!store
<1>3. CASE rx.n = 1
  <2>1. g = [h EXCEPT !.seq = rx.pkt.seq]
    BY <1>3
  <2>2. g \in Piggy!Header /\ g.seq = rx.pkt.seq /\ g.reg = h.reg /\ g.val = h.val
    BY <1>1, <1>2, <2>1 DEF Piggy!Header
  <2>3. QED BY <1>1, <1>2, <1>3, <2>2
<1>4. CASE rx.n = 2
  <2>1. g = [h EXCEPT !.reg = rx.pkt.reg]
    BY <1>4
  <2>2. g \in Piggy!Header /\ g.seq = h.seq /\ g.reg = rx.pkt.reg /\ g.val = h.val
    BY <1>1, <1>2, <2>1 DEF Piggy!Header
  <2>3. QED BY <1>1, <1>2, <1>4, <2>2
<1>5. CASE rx.n = 3
  <2>1. g = [h EXCEPT !.val = rx.pkt.val]
    BY <1>5
  <2>2. g \in Piggy!Header /\ g.seq = h.seq /\ g.reg = h.reg /\ g.val = rx.pkt.val
    BY <1>1, <1>2, <2>1 DEF Piggy!Header
  <2>3. QED BY <1>1, <1>2, <1>5, <2>2
<1>6. QED BY <1>1, <1>3, <1>4, <1>5

LEMMA StepStore ==
  ASSUME PiggyRange, PiggyInv, Piggy!store
  PROVE  PiggyInv'
<1>1. /\ UNCHANGED <<drs, posted, urbs, sessions, drsena, drsseq, pio, smpl, hit, applied>>
      /\ \/ rx.n < 3 /\ rx' = [rx EXCEPT !.n = @ + 1]
         \/ rx.n = 3 /\ rx' = [buf |-> 1 - rx.buf, pkt |-> Piggy!Blank, n |-> 0]
  BY Stored DEF Piggy!store, Piggy!drvVars, Piggy!fwVars
<1>2. /\ rx' \in [buf : {0, 1}, pkt : Piggy!Header, n : 0 .. 3]
      /\ \/ rx.n < 3 /\ rx'.n = rx.n + 1 /\ rx'.buf = rx.buf /\ rx'.pkt = rx.pkt
         \/ rx.n = 3 /\ rx'.n = 0 /\ rx'.buf = 1 - rx.buf
  BY <1>1, Stored, BlankHeader DEF PiggyInv, HeadersTyped
<1>3. rx.n > 0 /\ urbs # <<>> /\ rx.pkt = urbs[1] /\ 1 \in 1 .. Len(urbs)
  BY Stored DEF PiggyInv, Engine, HeadersTyped
<1>4. HeadersTyped'
  BY <1>1, <1>2, Stored DEF PiggyInv, HeadersTyped
<1>5. Fresh'
  BY <1>1, <1>3 DEF PiggyInv, Fresh
<1>6. Engine'
  BY <1>1, <1>2, <1>3, Stored DEF PiggyInv, Engine
<1>7. Settled'
  <2>1. Whole(out[1 - rx.buf])'
    <3>1. CASE rx.n < 3
      BY <1>1, <1>2, <3>1, Stored, SameSent DEF PiggyInv, Settled, Whole, Sent, Piggy!Blank
    <3>2. CASE rx.n = 3
      <4>1. out'[rx.buf].seq = rx.pkt.seq /\ out'[rx.buf].reg = rx.pkt.reg
            /\ out'[rx.buf].val = rx.pkt.val
        BY <3>2, Stored DEF PiggyInv, Engine
      <4>2. Sent(rx.pkt)
        BY <1>3 DEF PiggyInv, Settled
      <4>3. 1 - rx'.buf = rx.buf
        BY <1>2, <3>2, Stored
      <4>4. QED BY <1>1, <4>1, <4>2, <4>3 DEF Sent, Whole
    <3>3. QED BY <1>2, <3>1, <3>2
  <2>2. QED BY <1>1, <2>1, SameSent DEF PiggyInv, Settled, Sent
<1>8. \A b \in {0, 1} :
        /\ out[b].val <= out'[b].val /\ out'[b].val <= posted
        /\ \A i \in 1 .. Len(urbs) : out'[b].val <= urbs[i].val
  <2>1. /\ \A b \in {0, 1} : out[b].val \in Nat /\ out[b].val <= posted
        /\ \A b \in {0, 1}, i \in 1 .. Len(urbs) : out[b].val <= urbs[i].val
        /\ \A i \in 1 .. Len(urbs) : rx.pkt.val <= urbs[i].val
        /\ rx.pkt.val \in Nat /\ rx.pkt.val <= posted
    <3>1. \A i \in 1 .. Len(urbs) : 1 <= i => urbs[1].val <= urbs[i].val
      BY <1>3 DEF PiggyInv, Ascending
    <3>2. rx.pkt.val <= posted
      BY <1>3 DEF PiggyInv, Settled, Sent
    <3>3. rx.pkt.val \in Nat /\ \A b \in {0, 1} : out[b].val \in Nat
      BY Vals, Stored DEF PiggyInv, HeadersTyped
    <3>4. QED BY <1>3, <3>1, <3>2, <3>3 DEF PiggyInv, Ascending
  <2>2. \A b \in {0, 1} : out'[b].val \in {out[b].val, rx.pkt.val} /\ out[b].val <= out'[b].val
    <3>1. TAKE b \in {0, 1}
    <3>2. CASE b = rx.buf
      BY <1>3, <2>1, <3>2, Stored
    <3>3. CASE b # rx.buf
      <4>1. b = 1 - rx.buf
        BY <3>3, Stored
      <4>2. QED BY <4>1, <2>1, Stored
    <3>4. QED BY <3>2, <3>3
  <2>3. TAKE b \in {0, 1}
  <2>4. out'[b].val = out[b].val \/ out'[b].val = rx.pkt.val
    BY <2>2
  <2>5. QED BY <2>1, <2>2, <2>4
<1>9. Ascending'
  <2>1. applied \in Nat /\ smpl.val \in Nat /\ \A b \in {0, 1} : out[b].val \in Nat /\ out'[b].val \in Nat
    <3>1. /\ applied \in 0 .. MaxPosts /\ MaxPosts \in Nat /\ smpl \in Piggy!Header
          /\ out \in [{0, 1} -> Piggy!Header]
      BY DEF PiggyRange, PiggyInv, HeadersTyped
    <3>2. \A b \in {0, 1} : out[b] \in Piggy!Header /\ out'[b] \in Piggy!Header
      BY <3>1, Stored
    <3>3. QED BY <3>1, <3>2, Vals
  <2>2. \A b \in {0, 1} : applied <= out'[b].val
    BY <1>8, <2>1 DEF PiggyInv, Ascending
  <2>3. pio \in {"cmpseq", "cmpreg", "cmpval", "set"} => smpl.val <= out'[0].val /\ applied <= smpl.val
    BY <1>8, <2>1 DEF PiggyInv, Ascending
  <2>4. pio = "set" => smpl.val <= out'[1].val
    BY <1>8, <2>1 DEF PiggyInv, Ascending
  <2>5. QED BY <1>1, <1>8, <2>2, <2>3, <2>4 DEF PiggyInv, Ascending
<1>10. Steady'
  <2>1. SUFFICES ASSUME pio # "test" PROVE \/ Untouched(0)' /\ Sampled'
                                           \/ Untouched(1)' /\ Compared'
    BY <1>1 DEF Steady
  <2>2. hit
    BY <1>3, <2>1 DEF PiggyInv, Engine
  <2>3. \A b \in {0, 1} : Untouched(b) => out'[b] = out[b] /\ Untouched(b)'
    BY <1>1, <1>2, <1>3, <2>2, Stored, SameSent DEF Untouched, Whole, Sent, Piggy!Blank, PiggyInv, HeadersTyped
  <2>4. CASE Untouched(0) /\ Sampled
    BY <1>1, <2>3, <2>4 DEF Sampled
  <2>5. CASE Untouched(1) /\ Compared
    BY <1>1, <2>3, <2>5 DEF Compared
  <2>6. QED BY <2>1, <2>4, <2>5 DEF PiggyInv, Steady
<1>11. QED BY <1>4, <1>5, <1>6, <1>7, <1>9, <1>10 DEF PiggyInv

-----------------------------------------------------------------------------
(* ProcessIO.                                                              *)
LEMMA StepSample ==
  ASSUME PiggyRange, PiggyInv, Piggy!ProcessIO_sample
  PROVE  PiggyInv'
<1>1. UNCHANGED <<drs, posted, urbs, sessions, left, out, rx, drsena, drsseq, applied>>
  BY DEF Piggy!ProcessIO_sample, Piggy!drvVars, Piggy!busVars
<1>2. \/ pio = "test" /\ pio' = "seq" /\ hit' = (rx.n > 0) /\ drsena
      \/ hit' = hit /\ \/ pio = "seq" /\ pio' = "reg" /\ smpl' = [smpl EXCEPT !.seq = out[0].seq]
                       \/ pio = "reg" /\ pio' = "val" /\ smpl' = [smpl EXCEPT !.reg = out[0].reg]
                       \/ pio = "val" /\ pio' = "cmpseq" /\ smpl' = [smpl EXCEPT !.val = out[0].val]
  BY DEF Piggy!ProcessIO_sample, Piggy!step
<1>3. /\ smpl' \in Piggy!Header
      /\ pio = "seq" => smpl'.seq = out[0].seq
      /\ pio = "reg" => smpl'.seq = smpl.seq /\ smpl'.reg = out[0].reg
      /\ pio = "val" => smpl'.seq = smpl.seq /\ smpl'.reg = smpl.reg /\ smpl'.val = out[0].val
  <2>1. smpl \in Piggy!Header /\ out[0] \in Piggy!Header
    BY DEF PiggyInv, HeadersTyped
  <2>2. CASE pio = "test"
    BY <2>1, <2>2 DEF Piggy!ProcessIO_sample, Piggy!step
  <2>3. CASE pio = "seq"
    BY <2>1, <2>3, <1>2 DEF Piggy!Header
  <2>4. CASE pio = "reg"
    BY <2>1, <2>4, <1>2 DEF Piggy!Header
  <2>5. CASE pio = "val"
    BY <2>1, <2>5, <1>2 DEF Piggy!Header
  <2>6. QED BY <1>2, <2>2, <2>3, <2>4, <2>5
<1>4. rx.n \in 0 .. 3 /\ rx.buf \in {0, 1}
  BY DEF PiggyInv, HeadersTyped
<1>5. HeadersTyped'
  <2>1. hit' \in BOOLEAN
    <3>1. (rx.n > 0) \in BOOLEAN
      OBVIOUS
    <3>2. hit' = (rx.n > 0) \/ hit' = hit
      BY <1>2, Zenon
    <3>3. QED BY <3>1, <3>2, Zenon DEF PiggyInv, HeadersTyped
  <2>2. QED BY <1>1, <1>3, <2>1 DEF PiggyInv, HeadersTyped
<1>6. Fresh'
  <2>1. sessions # 0
    BY <1>2 DEF PiggyInv, Fresh
  <2>2. QED BY <1>1, <2>1 DEF Fresh
<1>7. Engine'
  BY <1>1, <1>2, <1>4 DEF PiggyInv, Engine
<1>8. Settled'
  BY <1>1, SameSent DEF PiggyInv, Settled, Sent, Whole, Piggy!Blank
<1>9. Ascending'
  <2>1. Ascending /\ out[0].val \in Nat
    BY DEF PiggyInv, HeadersTyped, Piggy!Header
  <2>2. pio' = "cmpseq" => smpl'.val = out[0].val /\ applied <= smpl'.val
    BY <1>2, <1>3, <2>1 DEF Ascending
  <2>3. pio' \in {"seq", "reg", "val", "cmpseq"}
    BY <1>2
  <2>4. QED BY <1>1, <2>1, <2>2, <2>3 DEF Ascending
<1>10. Steady'
  <2>1. \A b \in {0, 1} : Whole(out[b])' <=> Whole(out[b])
    BY <1>1, SameSent DEF Whole, Sent, Piggy!Blank
  <2>2. CASE pio = "test"
    <3>1. Whole(out[1 - rx.buf]) /\ pio' = "seq" /\ hit' = (rx.n > 0)
      BY <1>2, <2>2 DEF PiggyInv, Settled
    <3>2. CASE rx.buf = 0
      <4>1. Whole(out[1])'
        BY <2>1, <3>1, <3>2
      <4>2. QED BY <1>1, <3>1, <3>2, <4>1 DEF Steady, Untouched, Compared
    <3>3. CASE rx.buf = 1
      <4>1. Whole(out[0])'
        BY <2>1, <3>1, <3>3
      <4>2. QED BY <1>1, <3>1, <3>3, <4>1 DEF Steady, Untouched, Sampled
    <3>4. QED BY <1>4, <3>2, <3>3
  <2>3. CASE pio # "test"
    <3>1. \A b \in {0, 1} : Untouched(b) => Untouched(b)'
      BY <1>1, <1>2, <2>1, <2>3 DEF Untouched
    <3>2. Sampled => Sampled'
      BY <1>1, <1>2, <1>3, <2>3 DEF Sampled
    <3>3. Compared'
      BY <1>2, <2>3 DEF Compared
    <3>4. QED BY <2>3, <3>1, <3>2, <3>3 DEF PiggyInv, Steady
  <2>4. QED BY <2>2, <2>3
<1>11. QED BY <1>5, <1>6, <1>7, <1>8, <1>9, <1>10 DEF PiggyInv

LEMMA StepCompare ==
  ASSUME PiggyRange, PiggyInv, Piggy!ProcessIO_compare
  PROVE  PiggyInv'
<1>1. UNCHANGED <<drs, posted, urbs, sessions, left, out, rx, drsena, drsseq, smpl, hit, applied>>
  BY DEF Piggy!ProcessIO_compare, Piggy!drvVars, Piggy!busVars
<1>2. /\ pio # "test"
      /\ \/ pio' = "test"
         \/ pio = "cmpseq" /\ pio' = "cmpreg" /\ out[1].seq = smpl.seq
         \/ pio = "cmpreg" /\ pio' = "cmpval" /\ out[1].reg = smpl.reg
         \/ pio = "cmpval" /\ pio' = "set" /\ out[1].val = smpl.val
  BY DEF Piggy!ProcessIO_compare, Piggy!step
<1>3. HeadersTyped' /\ Engine'
  BY <1>1, <1>2 DEF PiggyInv, HeadersTyped, Engine
<1>4. Fresh'
  BY <1>1, <1>2 DEF PiggyInv, Fresh
<1>5. Settled'
  BY <1>1, SameSent DEF PiggyInv, Settled, Sent, Whole, Piggy!Blank
<1>6. Ascending'
  <2>1. Ascending /\ smpl.val \in Nat
    BY DEF PiggyInv, HeadersTyped, Piggy!Header
  <2>2. QED BY <1>1, <1>2, <2>1 DEF Ascending
<1>7. Steady'
  <2>1. \A b \in {0, 1} : Untouched(b)' <=> Untouched(b)
    BY <1>1, SameSent DEF Untouched, Whole, Sent, Piggy!Blank
  <2>2. pio' # "test" => (Sampled => Sampled') /\ (Compared => Compared')
    BY <1>1, <1>2 DEF Sampled, Compared
  <2>3. QED BY <1>2, <2>1, <2>2 DEF PiggyInv, Steady
<1>8. QED BY <1>3, <1>4, <1>5, <1>6, <1>7 DEF PiggyInv

LEMMA Acted ==
  ASSUME PiggyRange, PiggyInv, pio = "set"
  PROVE  /\ Whole(smpl) /\ smpl.val \in 0 .. MaxPosts
         /\ applied <= smpl.val /\ smpl.val <= posted
         /\ smpl.val <= out[0].val /\ smpl.val <= out[1].val
<1>1. smpl \in Piggy!Header /\ out[0] \in Piggy!Header /\ out[1] \in Piggy!Header
  BY DEF PiggyInv, HeadersTyped
<1>2. \/ smpl = out[0] /\ Whole(out[0])
      \/ smpl = out[1] /\ Whole(out[1])
  <2>1. CASE Untouched(0) /\ Sampled
    <3>1. smpl.seq = out[0].seq /\ smpl.reg = out[0].reg /\ smpl.val = out[0].val
      BY <2>1 DEF Sampled
    <3>2. QED BY <1>1, <2>1, <3>1, SameHeader DEF Untouched
  <2>2. CASE Untouched(1) /\ Compared
    <3>1. smpl.seq = out[1].seq /\ smpl.reg = out[1].reg /\ smpl.val = out[1].val
      BY <2>2 DEF Compared
    <3>2. QED BY <1>1, <2>2, <3>1, SameHeader DEF Untouched
  <2>3. QED BY <2>1, <2>2 DEF PiggyInv, Steady
<1>3. Whole(smpl)
  BY <1>2
<1>4. smpl.val \in 0 .. MaxPosts
  BY <1>1 DEF Piggy!Header
<1>5. applied <= smpl.val /\ smpl.val <= out[0].val /\ smpl.val <= out[1].val
  BY DEF PiggyInv, Ascending
<1>6. smpl.val <= posted
  BY <1>2 DEF PiggyInv, Ascending
<1>7. QED BY <1>3, <1>4, <1>5, <1>6

LEMMA StepSet ==
  ASSUME PiggyRange, PiggyInv, Piggy!ProcessIO_set
  PROVE  PiggyInv'
<1>1. /\ UNCHANGED <<drs, posted, urbs, sessions, left, out, rx, drsena, smpl, hit>>
      /\ pio = "set" /\ pio' = "test"
      /\ applied' = smpl.val \/ applied' = applied
  BY DEF Piggy!ProcessIO_set, Piggy!step, Piggy!drvVars, Piggy!busVars
<1>2. HeadersTyped' /\ Engine'
  BY <1>1, Acted DEF PiggyInv, HeadersTyped, Engine
<1>3. Fresh'
  BY <1>1 DEF PiggyInv, Fresh
<1>4. Settled'
  BY <1>1, SameSent DEF PiggyInv, Settled, Sent, Whole, Piggy!Blank
<1>5. Ascending'
  BY <1>1, Acted DEF PiggyInv, Ascending
<1>6. Steady'
  BY <1>1 DEF Steady
<1>7. QED BY <1>2, <1>3, <1>4, <1>5, <1>6 DEF PiggyInv

-----------------------------------------------------------------------------
LEMMA PiggyInductive ==
  ASSUME PiggyRange, FirstSession, PiggyInv, [Piggy!Next]_Piggy!vars
  PROVE  PiggyInv'
<1>1. CASE Piggy!start_stop_iov2
  BY <1>1, StepStart
<1>2. CASE Piggy!stop
  BY <1>2, StepStop
<1>3. CASE Piggy!dr_write_piggyback
  BY <1>3, StepPost
<1>4. CASE Piggy!isoc_out_cbak
  BY <1>4, StepCbak
<1>5. CASE Piggy!receive
  BY <1>5, StepReceive
<1>6. CASE Piggy!lose
  BY <1>6, StepLose DEF Piggy!lose
<1>7. CASE Piggy!store
  BY <1>7, StepStore
<1>8. CASE Piggy!ProcessIO
  BY <1>8, StepSample, StepCompare, StepSet DEF Piggy!ProcessIO
<1>9. CASE UNCHANGED Piggy!vars
  BY <1>9, StepLose DEF Piggy!vars, Piggy!busVars
<1>10. QED BY <1>1, <1>2, <1>3, <1>4, <1>5, <1>6, <1>7, <1>8, <1>9 DEF Piggy!Next

(* ActsOnWhole holds in the first session, although buffers are sampled    *)
(* while packets are written into them, with no lock (user.c, ProcessIO).  *)
THEOREM NeverTorn == ASSUME PiggyRange, FirstSession PROVE Piggy!Spec => []ActsOnWhole
<1>1. Piggy!Init => PiggyInv
  BY PiggyInit
<1>2. PiggyInv /\ [Piggy!Next]_Piggy!vars => PiggyInv'
  BY PiggyInductive
<1>3. PiggyInv => ActsOnWhole
  BY Acted DEF ActsOnWhole
<1>4. QED BY <1>1, <1>2, <1>3, PTL DEF Piggy!Spec

(* A step of the implementation is one of DrChannel or changes nothing     *)
(* there.                                                                  *)
LEMMA StepRefines ==
  ASSUME PiggyRange, FirstSession, PiggyInv, [Piggy!Next]_Piggy!vars
  PROVE  [Piggy!Channel!Next]_Piggy!Channel!vars
<1> USE DEF Piggy!Channel!Next, Piggy!Channel!vars
<1>1. CASE Piggy!start_stop_iov2
  <2>1. urbs' # <<>>
    <3>1. PICK d : urbs' = [i \in 1 .. InFlight |-> d]
      BY <1>1 DEF Piggy!start_stop_iov2
    <3>2. 1 \in DOMAIN urbs'
      BY <3>1 DEF PiggyRange
    <3>3. QED BY <3>2
  <2>2. Piggy!Channel!Open
    BY <1>1, <2>1 DEF Piggy!start_stop_iov2, Piggy!Channel!Open
  <2>3. QED BY <2>2
<1>2. CASE Piggy!stop
  BY <1>2 DEF Piggy!stop, Piggy!drvVars, Piggy!fwVars, Piggy!Channel!Close
<1>3. CASE Piggy!dr_write_piggyback
  BY <1>3 DEF Piggy!dr_write_piggyback, Piggy!fwVars, Piggy!Channel!Post
<1>4. CASE Piggy!isoc_out_cbak
  <2>1. urbs # <<>> /\ urbs' # <<>>
    <3>1. urbs' = Append(Tail(urbs), drs) /\ urbs # <<>> /\ urbs \in Seq(Piggy!Header) /\ drs \in Piggy!Header
      BY <1>4 DEF Piggy!isoc_out_cbak, PiggyInv, HeadersTyped
    <3>2. Len(urbs') \in Nat \ {0}
      BY <3>1, Rotate
    <3>3. QED BY <3>1, <3>2
  <2>2. QED BY <1>4, <2>1 DEF Piggy!isoc_out_cbak, Piggy!fwVars
<1>5. CASE Piggy!receive \/ Piggy!lose \/ Piggy!store \/ Piggy!ProcessIO_sample \/ Piggy!ProcessIO_compare
  BY <1>5 DEF Piggy!receive, Piggy!lose, Piggy!store, Piggy!ProcessIO_sample, Piggy!ProcessIO_compare, Piggy!drvVars, Piggy!fwVars
<1>6. CASE Piggy!ProcessIO_set
  <2>1. UNCHANGED <<urbs, posted>> /\ (applied' = applied \/ applied' = smpl.val)
    BY <1>6 DEF Piggy!ProcessIO_set, Piggy!drvVars
  <2>2. pio = "set"
    BY <1>6 DEF Piggy!ProcessIO_set, Piggy!step
  <2>3. CASE applied' = applied
    BY <2>1, <2>3
  <2>4. CASE applied' # applied
    <3>1. smpl.val \in applied + 1 .. posted /\ applied' = smpl.val
      BY <2>1, <2>2, <2>4, Acted DEF PiggyRange, PiggyInv, HeadersTyped
    <3>2. Piggy!Channel!Apply
      BY <2>1, <3>1 DEF Piggy!Channel!Apply
    <3>3. QED BY <3>2
  <2>5. QED BY <2>3, <2>4
<1>7. CASE UNCHANGED Piggy!vars
  BY <1>7 DEF Piggy!vars, Piggy!drvVars, Piggy!fwVars
<1>8. QED BY <1>1, <1>2, <1>3, <1>4, <1>5, <1>6, <1>7 DEF Piggy!Next, Piggy!ProcessIO

(* The steps of driver, bus and firmware implement those of DrChannel: in  *)
(* the first session the settings that reach the chip are among those      *)
(* posted, each after those it was posted after.  That the last one gets   *)
(* there, the fairness of InOrder, stays with TLC.                         *)
THEOREM SettingsInOrder ==
  ASSUME PiggyRange, FirstSession PROVE Piggy!Spec => Piggy!Channel!Init /\ [][Piggy!Channel!Next]_Piggy!Channel!vars
<1>1. Piggy!Init => PiggyInv /\ Piggy!Channel!Init
  BY PiggyInit DEF Piggy!Init, Piggy!Channel!Init
<1>2. PiggyInv /\ [Piggy!Next]_Piggy!vars => PiggyInv' /\ [Piggy!Channel!Next]_Piggy!Channel!vars
  BY PiggyInductive, StepRefines
<1>3. QED BY <1>1, <1>2, PTL DEF Piggy!Spec

=============================================================================
