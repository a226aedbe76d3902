--------------------------- MODULE OufxsIsocProofs ---------------------------
(***************************************************************************)
(* Proofs about the isochronous engine, for every number of buffers, URBs, *)
(* packets and plug-ins.  The inductive invariant IInv adds two facts to   *)
(* the properties of OufxsIsoc: an URB is anchored before it is handed     *)
(* over, and the teardown steps leave behind what they waited for.  LapInv *)
(* (no buffer comes round too early) and MapInv (the sequence numbers fit) *)
(* need the timing assumption of PromptSpec.                               *)
(***************************************************************************)
EXTENDS OufxsIsoc, TLAPS

(* A submitter about to hand over an URB has anchored it.                  *)
AnchoredFirst ==
  \A c \in Ctx : pc[c] \in {"check", "submit"} => idx[c] \in anchored[Ring(c)]

(* What each stage of oufxs_delete has waited for stays quiet.             *)
Quiet ==
  /\ udev <=> del # "gone"
  /\ del \in {"kill", "free", "gone"} => pc["setup"] = "idle"
  /\ del \in {"free", "gone"} =>
       \A r \in Rings : flight[r] = <<>> /\ pc[r] = "idle"

IInv == TypeOK /\ Exclusive /\ Marked /\ AnchoredFirst /\ Quiet

(* Small facts about the parameters.                                       *)
LEMMA RingsFacts ==
  /\ FirstRing \in Rings /\ LastRing \in Rings
  /\ Rings \subseteq {"out", "in"} /\ "setup" \notin Rings
  /\ \A r \in Rings : InFlight(r) \in 1 .. MaxUrb
  /\ 0 \in Index /\ 0 \in Pack /\ 0 \in Seqno
BY ConstantsOK DEF FirstRing, LastRing, InFlight, Index, Pack, Seqno

LEMMA ModFacts ==
  /\ \A i \in Index : (i + 1) % MaxUrb \in Index
  /\ \A p \in Pack : (p + 1) % Packs \in Pack
  /\ \A s \in Seqno : (s + 1) % SeqMod \in Seqno
BY ConstantsOK DEF Index, Pack, Seqno

(* The queue of a ring, as a sequence without repetitions.                 *)
Once(s)    == \A m, n \in 1 .. Len(s) : s[m] = s[n] => m = n
Members(s) == {s[n] : n \in 1 .. Len(s)}

LEMMA AppendOnce ==
  ASSUME NEW S, NEW s \in Seq(S), NEW i \in S, Once(s), i \notin Members(s)
  PROVE  /\ Append(s, i) \in Seq(S)
         /\ Once(Append(s, i))
         /\ Members(Append(s, i)) = Members(s) \cup {i}
BY DEF Once, Members

LEMMA TailOnce ==
  ASSUME NEW S, NEW s \in Seq(S), s # <<>>, Once(s)
  PROVE  /\ Tail(s) \in Seq(S)
         /\ Head(s) \in Members(s)
         /\ Head(s) \in S
         /\ Once(Tail(s))
         /\ Members(Tail(s)) = Members(s) \ {Head(s)}
<1>1. /\ Tail(s) \in Seq(S) /\ Len(Tail(s)) = Len(s) - 1 /\ Len(s) >= 1
      /\ \A n \in 1 .. Len(s) - 1 : Tail(s)[n] = s[n + 1]
      /\ Head(s) = s[1] /\ Head(s) \in S
  OBVIOUS
<1>2. Once(Tail(s))
  BY <1>1 DEF Once
<1>3. Head(s) \in Members(s)
  BY <1>1 DEF Members
<1>4. Members(Tail(s)) \subseteq Members(s) \ {Head(s)}
  BY <1>1 DEF Once, Members
<1>5. ASSUME NEW x \in Members(s) \ {Head(s)} PROVE x \in Members(Tail(s))
  <2>1. PICK n \in 1 .. Len(s) : x = s[n]
    BY DEF Members
  <2>2. n # 1
    BY <2>1, <1>1
  <2>3. n - 1 \in 1 .. Len(s) - 1 /\ Tail(s)[n - 1] = s[n]
    BY <2>2, <1>1
  <2>4. QED BY <2>1, <2>3, <1>1 DEF Members
<1>6. QED BY <1>1, <1>2, <1>3, <1>4, <1>5

-----------------------------------------------------------------------------
(* Every variable keeps its type (all of OufxsIsoc).                       *)
LEMMA InitTypeOK == Init => TypeOK
<1> SUFFICES ASSUME Init PROVE TypeOK
  OBVIOUS
<1>1. AllFree \in [Index -> {"st_free", "st_subm"}] /\ NoneSeen \in [Index -> BOOLEAN]
  BY DEF AllFree, NoneSeen
<1>2. Silence \in [Index -> [Pack -> Seqno]]
  BY RingsFacts DEF Silence
<1>3. /\ buf \in [Rings -> [Index -> {"st_free", "st_subm"}]]
      /\ inconsistent \in [Rings -> [Index -> BOOLEAN]]
      /\ submit \in [Rings -> Index] /\ flight \in [Rings -> Seq(Index)]
      /\ anchored \in [Rings -> SUBSET Index] /\ pktseq \in [Index -> [Pack -> Seqno]]
  BY <1>1, <1>2, RingsFacts DEF Init
<1>4. pc \in [Ctx -> PC] /\ idx \in [Ctx -> Index]
      /\ cnt \in [Ctx -> Pack] /\ tmp \in [Ctx -> Seqno]
  BY RingsFacts DEF Init, PC
<1>5. /\ state = "IDLE" /\ present = FALSE /\ udev = FALSE /\ del = "gone"
      /\ outseqno = 0 /\ pktseq = Silence /\ sdir = FirstRing /\ spawned = 0 /\ plugs = 0
  BY DEF Init
<1>6. spawned \in 0 .. MaxUrb - 1 /\ plugs \in 0 .. MaxPlugs
  BY <1>5, ConstantsOK
<1>7. QED BY <1>2, <1>3, <1>4, <1>5, <1>6, RingsFacts DEF TypeOK

LEMMA ReturnType ==
  ASSUME TypeOK, NEW c \in Ctx, return(c)
  PROVE  /\ pc' \in [Ctx -> PC] /\ idx' \in [Ctx -> Index]
         /\ sdir' \in Rings /\ spawned' \in 0 .. MaxUrb - 1
<1>1. CASE c = "setup" /\ spawn_next
  BY <1>1, RingsFacts, ConstantsOK DEF spawn_next, TypeOK, PC, Ctx
<1>2. CASE c # "setup"
  <2>1. /\ idx' = [idx EXCEPT ![c] = 0] /\ pc' = [pc EXCEPT ![c] = "idle"]
        /\ UNCHANGED <<sdir, spawned>>
    BY <1>2 DEF return
  <2>2. pc \in [Ctx -> PC] /\ idx \in [Ctx -> Index] /\ sdir \in Rings /\ spawned \in 0 .. MaxUrb - 1
    BY DEF TypeOK
  <2>3. "idle" \in PC /\ 0 \in Index
    BY RingsFacts DEF PC
  <2>4. QED BY <2>1, <2>2, <2>3
<1>3. QED BY <1>1, <1>2 DEF return

LEMMA SubmitUrbType ==
  ASSUME TypeOK, NEW r \in Rings, NEW i \in Index, usb_submit_urb(r, i)
  PROVE  /\ buf' \in [Rings -> [Index -> {"st_free", "st_subm"}]]
         /\ anchored' \in [Rings -> SUBSET Index]
         /\ flight' \in [Rings -> Seq(Index)]
<1>1. buf[r] \in [Index -> {"st_free", "st_subm"}]
  BY DEF TypeOK
<1>2. CASE flight' = [flight EXCEPT ![r] = Append(@, i)] /\ UNCHANGED <<buf, anchored>>
  BY <1>2 DEF TypeOK
<1>3. CASE /\ anchored' = [anchored EXCEPT ![r] = @ \ {i}]
           /\ buf' = [buf EXCEPT ![r][i] = "st_free"]
           /\ UNCHANGED flight
  BY <1>1, <1>3 DEF TypeOK
<1>4. QED BY <1>2, <1>3 DEF usb_submit_urb

LEMMA RingType == ASSUME TypeOK, NEW c \in Ctx PROVE Ring(c) \in Rings
BY DEF Ring, TypeOK, Ctx

LEMMA SubmitType ==
  ASSUME TypeOK, NEW c \in Ctx, isoc_submit(c)
  PROVE  TypeOK'
<1> USE RingType, RingsFacts, ModFacts DEF devVars, ringVars, seqVars, ctxVars
<1>1. CASE submit_take(c)
  BY <1>1 DEF submit_take, TypeOK, PC
<1>2. CASE submit_refuse(c)
  <2>1. inconsistent' \in [Rings -> [Index -> BOOLEAN]]
    BY <1>2 DEF submit_refuse, TypeOK
  <2>2. QED BY <1>2, <2>1, ReturnType DEF submit_refuse, TypeOK
<1>3. CASE submit_claim(c)
  <2>1. buf' \in [Rings -> [Index -> {"st_free", "st_subm"}]]
    BY <1>3 DEF submit_claim, TypeOK
  <2>2. QED BY <1>3, <2>1 DEF submit_claim, TypeOK, PC
<1>4. CASE fill_load(c)
  BY <1>4 DEF fill_load, TypeOK, PC
<1>5. CASE fill_store(c)
  <2>1. pktseq' \in [Index -> [Pack -> Seqno]]
    BY <1>5 DEF fill_store, TypeOK
  <2>2. outseqno' \in Seqno /\ cnt' \in [Ctx -> Pack] /\ tmp' \in [Ctx -> Seqno]
    BY <1>5, RingsFacts, ModFacts DEF fill_store, TypeOK
  <2>3. pc' \in [Ctx -> PC]
    BY <1>5 DEF fill_store, TypeOK, PC
  <2>4. UNCHANGED <<devVars, ringVars, idx, sdir, spawned>>
    BY <1>5 DEF fill_store
  <2>5. QED BY <2>1, <2>2, <2>3, <2>4 DEF TypeOK, devVars, ringVars
<1>6. CASE submit_anchor(c)
  <2>1. anchored' \in [Rings -> SUBSET Index]
    <3>1. anchored' = [anchored EXCEPT ![Ring(c)] = anchored[Ring(c)] \cup {idx[c]}]
      BY <1>6 DEF submit_anchor
    <3>2. anchored \in [Rings -> SUBSET Index] /\ Ring(c) \in Rings /\ idx[c] \in Index
      BY RingType DEF TypeOK
    <3>3. QED BY <3>1, <3>2
  <2>2. pc' \in [Ctx -> PC]
    BY <1>6 DEF submit_anchor, TypeOK, PC
  <2>3. QED BY <1>6, <2>1, <2>2 DEF submit_anchor, TypeOK
<1>7. CASE submit_atomic(c)
  <2>1. Ring(c) = c /\ c \in Rings
    BY <1>7 DEF submit_atomic, Ring, Ctx
  <2>2. /\ buf' \in [Rings -> [Index -> {"st_free", "st_subm"}]]
        /\ anchored' \in [Rings -> SUBSET Index]
        /\ flight' \in [Rings -> Seq(Index)]
    BY <1>7, <2>1, SubmitUrbType DEF submit_atomic, TypeOK
  <2>3. QED BY <1>7, <2>2, ReturnType DEF submit_atomic, TypeOK
<1>8. QED BY <1>1, <1>2, <1>3, <1>4, <1>5, <1>6, <1>7 DEF isoc_submit

LEMMA NextTypeOK == TypeOK /\ [Next]_vars => TypeOK'
<1> SUFFICES ASSUME TypeOK, [Next]_vars PROVE TypeOK'
  OBVIOUS
<1> USE RingsFacts DEF devVars, ringVars, seqVars, ctxVars
<1>1. CASE probe
  BY <1>1, ConstantsOK DEF probe, TypeOK, PC, Ctx, AllFree, NoneSeen, Silence
<1>2. CASE worker
  <2>1. CASE setup_start
    BY <2>1 DEF setup_start, TypeOK, PC, Ctx
  <2>2. CASE setup_init_restart
    BY <2>2 DEF setup_init_restart, TypeOK, PC, Ctx
  <2>3. CASE setup_stages
    BY <2>3 DEF setup_stages, TypeOK, PC, Ctx
  <2>4. CASE setup_ok
    BY <2>4, ConstantsOK DEF setup_ok, TypeOK, PC, Ctx
  <2>5. CASE submit_check_state
    BY <2>5, ReturnType DEF submit_check_state, return, TypeOK, PC, Ctx
  <2>6. CASE submit_kernel
    <3>1. idx["setup"] \in Index /\ sdir \in Rings /\ "setup" \in Ctx
      BY DEF TypeOK, Ctx
    <3>2. return("setup")
      BY <2>6 DEF submit_kernel, return
    <3>3. QED BY <2>6, <3>1, <3>2, ReturnType, SubmitUrbType
              DEF submit_kernel, TypeOK
  <2>7. QED BY <1>2, <2>1, <2>2, <2>3, <2>4, <2>5, <2>6 DEF worker
<1>3. ASSUME NEW c \in Ctx, isoc_submit(c) PROVE TypeOK'
  BY <1>3, SubmitType
<1>4. ASSUME NEW r \in Rings, isoc_cbak(r) PROVE TypeOK'
  <2>1. Head(flight[r]) \in Index /\ Tail(flight[r]) \in Seq(Index)
    BY <1>4 DEF isoc_cbak, TypeOK
  <2>2. flight' \in [Rings -> Seq(Index)] /\ anchored' \in [Rings -> SUBSET Index]
    BY <1>4, <2>1 DEF isoc_cbak, TypeOK
  <2> DEFINE i == Head(flight[r])
  <2>3. /\ buf' \in [Rings -> [Index -> {"st_free", "st_subm"}]]
        /\ inconsistent' \in [Rings -> [Index -> BOOLEAN]]
        /\ pc' \in [Ctx -> PC]
    <3>1. i \in Index
      BY <2>1
    <3>2. CASE buf[r][i] = "st_subm"
      <4>1. /\ buf' = [buf EXCEPT ![r][i] = "st_free"]
            /\ pc' = [pc EXCEPT ![r] = "take"]
            /\ UNCHANGED inconsistent
        BY <1>4, <3>2 DEF isoc_cbak
      <4>2. buf' \in [Rings -> [Index -> {"st_free", "st_subm"}]]
        BY <4>1, <3>1, Zenon DEF TypeOK
      <4>3. pc' \in [Ctx -> PC]
        BY <4>1 DEF TypeOK, PC
      <4>4. QED BY <4>1, <4>2, <4>3 DEF TypeOK
    <3>3. CASE buf[r][i] # "st_subm"
      <4>1. /\ inconsistent' = [inconsistent EXCEPT ![r][i] = TRUE]
            /\ UNCHANGED <<buf, pc>>
        BY <1>4, <3>3 DEF isoc_cbak
      <4>2. inconsistent' \in [Rings -> [Index -> BOOLEAN]]
        BY <4>1, <3>1, Zenon DEF TypeOK
      <4>3. QED BY <4>1, <4>2 DEF TypeOK
    <3>4. QED BY <3>2, <3>3
  <2>4. QED BY <1>4, <2>2, <2>3 DEF isoc_cbak, TypeOK
<1>5. CASE unplug \/ disconnect
  BY <1>5 DEF unplug, disconnect, TypeOK
<1>6. CASE delete
  BY <1>6 DEF delete, delete_start, destroy_workqueue, kill_anchored_urbs,
              delete_finish, TypeOK
<1>7. CASE UNCHANGED vars
  BY <1>7 DEF vars, TypeOK
<1>8. QED BY <1>1, <1>2, <1>3, <1>4, <1>5, <1>6, <1>7 DEF Next

-----------------------------------------------------------------------------
(* Leaving a submit function: the submitter owns nothing, nobody else      *)
(* is disturbed.                                                           *)
LEMMA ReturnEffect ==
  ASSUME TypeOK, NEW c \in Ctx, return(c)
  PROVE  /\ pc'[c] \in {"idle", "take"}
         /\ \A d \in Ctx \ {c} :
              pc'[d] = pc[d] /\ idx'[d] = idx[d] /\ Ring(d)' = Ring(d)
<1>1. CASE c = "setup" /\ spawn_next
  <2>1. pc'["setup"] \in {"idle", "take"}
    BY <1>1 DEF spawn_next, TypeOK
  <2>2. ASSUME NEW d \in Ctx \ {c}
        PROVE pc'[d] = pc[d] /\ idx'[d] = idx[d] /\ Ring(d)' = Ring(d)
    BY <1>1 DEF spawn_next, TypeOK, Ring
  <2>3. QED BY <1>1, <2>1, <2>2
<1>2. CASE c # "setup"
  BY <1>2 DEF return, TypeOK, Ring
<1>3. QED BY <1>1, <1>2 DEF return

(* A step that hands over and frees nothing, and by which nobody acquires  *)
(* a buffer, preserves ownership.                                          *)
LEMMA Shrink ==
  ASSUME Exclusive, Marked, UNCHANGED <<buf, flight>>,
         \A r \in Rings : anchored[r] \subseteq anchored'[r],
         \A c \in Ctx, r \in Rings, i \in Index : Owns(c, r, i)' => Owns(c, r, i)
  PROVE  Exclusive' /\ Marked'
BY DEF Exclusive, Marked, OnWire

(* The same for a step that only moves the program counters.               *)
LEMMA Moves ==
  ASSUME IInv, UNCHANGED <<buf, flight, anchored>>,
         \A c \in Ctx : pc'[c] \in Owning =>
           /\ pc[c] \in Owning /\ idx'[c] = idx[c] /\ Ring(c)' = Ring(c)
           /\ pc'[c] \in {"check", "submit"} => pc[c] \in {"check", "submit"}
  PROVE  Exclusive' /\ Marked' /\ AnchoredFirst'
<1>1. Exclusive' /\ Marked'
  BY Shrink DEF Owns, IInv
<1>2. AnchoredFirst'
  BY DEF AnchoredFirst, IInv, Owning
<1>3. QED BY <1>1, <1>2

(* usb_submit_urb by the submitter that owns the buffer: either the buffer *)
(* goes to the USB core, or it is free again.                              *)
LEMMA HandOver ==
  ASSUME IInv, NEW c \in Ctx, pc[c] \in {"check", "submit"},
         usb_submit_urb(Ring(c), idx[c]), return(c)
  PROVE  Exclusive' /\ Marked' /\ AnchoredFirst'
<1> DEFINE r == Ring(c)
           i == idx[c]
<1>1. /\ r \in Rings /\ i \in Index /\ TypeOK
      /\ Owns(c, r, i) /\ i \notin OnWire(r) /\ buf[r][i] = "st_subm"
      /\ i \in anchored[r]
  BY RingType DEF IInv, TypeOK, Owns, Owning, Exclusive, Marked, AnchoredFirst
<1>2. \A q \in Rings, j \in Index : ~Owns(c, q, j)'
  BY <1>1, ReturnEffect DEF Owns, Owning
<1>3. \A d \in Ctx \ {c}, q \in Rings, j \in Index :
        /\ Owns(d, q, j)' <=> Owns(d, q, j)
        /\ Owns(d, q, j) => <<q, j>> # <<r, i>>
  BY <1>1, ReturnEffect DEF Owns, IInv, Exclusive
<1>4. \A d \in Ctx : pc'[d] \in {"check", "submit"} =>
        /\ d # c /\ pc[d] \in {"check", "submit"}
        /\ idx'[d] = idx[d] /\ Ring(d)' = Ring(d) /\ Ring(d) \in Rings
        /\ <<Ring(d), idx[d]>> # <<r, i>>
  <2> SUFFICES ASSUME NEW d \in Ctx, pc'[d] \in {"check", "submit"}
               PROVE  /\ d # c /\ pc[d] \in {"check", "submit"}
                      /\ idx'[d] = idx[d] /\ Ring(d)' = Ring(d) /\ Ring(d) \in Rings
                      /\ <<Ring(d), idx[d]>> # <<r, i>>
    OBVIOUS
  <2>1. d # c
    BY <1>1, ReturnEffect
  <2>2. /\ pc[d] \in {"check", "submit"}
        /\ idx'[d] = idx[d] /\ Ring(d)' = Ring(d) /\ Ring(d) \in Rings
    BY <1>1, <2>1, ReturnEffect, RingType
  <2>3. idx[d] \in Index /\ Owns(d, Ring(d), idx[d])
    BY <1>1, <2>2 DEF TypeOK, Owns, Owning
  <2>4. QED BY <1>3, <2>1, <2>2, <2>3
<1>5. CASE flight' = [flight EXCEPT ![r] = Append(@, i)] /\ UNCHANGED <<buf, anchored>>
  <2>1. \A q \in Rings : Once(flight[q]) /\ flight[q] \in Seq(Index)
    BY <1>1 DEF IInv, Exclusive, Once, TypeOK
  <2>2. i \notin Members(flight[r])
    BY <1>1 DEF OnWire, Members
  <2>3. \A q \in Rings : Once(flight'[q])
    BY <1>1, <1>5, <2>1, <2>2, AppendOnce DEF TypeOK
  <2>4. \A q \in Rings : OnWire(q)' = IF q = r THEN OnWire(q) \cup {i} ELSE OnWire(q)
    <3>1. \A q \in Rings : /\ OnWire(q) = Members(flight[q])
                           /\ OnWire(q)' = Members(flight'[q])
      BY DEF OnWire, Members
    <3>2. flight'[r] = Append(flight[r], i) /\ \A q \in Rings \ {r} : flight'[q] = flight[q]
      BY <1>1, <1>5 DEF TypeOK
    <3>3. Members(flight'[r]) = Members(flight[r]) \cup {i}
      BY <1>1, <2>1, <2>2, <3>2, AppendOnce
    <3>4. QED BY <3>1, <3>2, <3>3
  <2>5. Exclusive'
    BY <1>1, <1>2, <1>3, <2>3, <2>4 DEF Exclusive, IInv, Once
  <2>6. Marked'
    BY <1>1, <1>2, <1>3, <1>5, <2>4 DEF Marked, IInv
  <2>7. AnchoredFirst'
    BY <1>4, <1>5 DEF AnchoredFirst, IInv
  <2>8. QED BY <2>5, <2>6, <2>7
<1>6. CASE /\ anchored' = [anchored EXCEPT ![r] = @ \ {i}]
           /\ buf' = [buf EXCEPT ![r][i] = "st_free"]
           /\ UNCHANGED flight
  <2>1. \A q \in Rings : OnWire(q)' = OnWire(q)
    BY <1>6 DEF OnWire
  <2>2. \A q \in Rings, j \in Index : <<q, j>> # <<r, i>> =>
          buf'[q][j] = buf[q][j] /\ (j \in anchored'[q] <=> j \in anchored[q])
    BY <1>1, <1>6 DEF TypeOK
  <2>3. Exclusive'
    BY <1>2, <1>3, <1>6, <2>1 DEF Exclusive, IInv
  <2>4. Marked'
    BY <1>1, <1>2, <1>3, <2>1, <2>2 DEF Marked, IInv
  <2>5. AnchoredFirst'
    <3> SUFFICES ASSUME NEW d \in Ctx, pc'[d] \in {"check", "submit"}
                 PROVE  idx'[d] \in anchored'[Ring(d)']
      BY DEF AnchoredFirst
    <3>1. idx[d] \in anchored[Ring(d)] /\ idx[d] \in Index
      BY <1>1, <1>4 DEF AnchoredFirst, IInv, TypeOK
    <3>2. QED BY <1>4, <2>2, <3>1
  <2>6. QED BY <2>3, <2>4, <2>5
<1>7. QED BY <1>5, <1>6 DEF usb_submit_urb

(* The critical sections of the submit functions.                          *)
LEMMA SubmitPreserves ==
  ASSUME IInv, NEW c \in Ctx, isoc_submit(c)
  PROVE  Exclusive' /\ Marked' /\ AnchoredFirst'
<1> DEFINE r == Ring(c)
           i == idx[c]
<1>1. TypeOK /\ r \in Rings /\ i \in Index
  BY RingType DEF IInv, TypeOK
<1>2. \A d \in Ctx : UNCHANGED sdir => Ring(d)' = Ring(d)
  BY DEF Ring
<1>3. CASE submit_take(c)
  BY <1>1, <1>2, <1>3, Moves DEF submit_take, TypeOK, Owning
<1>4. CASE submit_refuse(c)
  <2>1. UNCHANGED <<buf, flight, anchored>> /\ return(c)
    BY <1>4 DEF submit_refuse
  <2>2. QED BY <1>1, <2>1, ReturnEffect, Moves DEF Owning
<1>5. CASE submit_claim(c)
  <2>1. /\ buf[r][i] = "st_free" /\ pc[c] = "mark" /\ UNCHANGED <<flight, anchored, idx, sdir>>
        /\ buf' = [buf EXCEPT ![r][i] = "st_subm"]
        /\ pc' = [pc EXCEPT ![c] = IF r = "out" THEN "fill" ELSE "anchor"]
    BY <1>5 DEF submit_claim, ringVars, devVars, seqVars
  <2>2. i \notin OnWire(r) /\ \A d \in Ctx : ~Owns(d, r, i)
    BY <1>1, <2>1 DEF IInv, Marked
  <2>3. \A d \in Ctx, q \in Rings, j \in Index :
          Owns(d, q, j)' <=> Owns(d, q, j) \/ (d = c /\ q = r /\ j = i)
    BY <1>1, <1>2, <2>1 DEF Owns, Owning, TypeOK
  <2>4. \A q \in Rings : OnWire(q)' = OnWire(q)
    BY <2>1 DEF OnWire
  <2>5. Exclusive'
    BY <1>1, <2>1, <2>2, <2>3, <2>4 DEF Exclusive, IInv
  <2>6. \A q \in Rings, j \in Index :
          buf'[q][j] = IF q = r /\ j = i THEN "st_subm" ELSE buf[q][j]
    BY <1>1, <2>1 DEF TypeOK
  <2>7. Marked'
    BY <1>1, <2>1, <2>3, <2>4, <2>6 DEF Marked, IInv
  <2>8. AnchoredFirst'
    BY <1>1, <1>2, <2>1 DEF AnchoredFirst, IInv, TypeOK
  <2>9. QED BY <2>5, <2>7, <2>8
<1>6. CASE fill_load(c)
  BY <1>1, <1>2, <1>6, Moves DEF fill_load, TypeOK, Owning, ringVars
<1>7. CASE fill_store(c)
  BY <1>1, <1>2, <1>7, Moves DEF fill_store, TypeOK, Owning, ringVars
<1>8. CASE submit_anchor(c)
  <2>1. /\ pc[c] = "anchor" /\ UNCHANGED <<buf, flight, idx, sdir>>
        /\ anchored' = [anchored EXCEPT ![r] = @ \cup {i}]
        /\ pc' = [pc EXCEPT ![c] = "check"]
    BY <1>8 DEF submit_anchor
  <2>2. /\ \A q \in Rings : anchored[q] \subseteq anchored'[q]
        /\ i \in anchored'[r]
    BY <1>1, <2>1 DEF TypeOK
  <2>3. \A d \in Ctx, q \in Rings, j \in Index : Owns(d, q, j)' => Owns(d, q, j)
    BY <1>1, <1>2, <2>1 DEF Owns, Owning, TypeOK
  <2>4. Exclusive' /\ Marked'
    BY <2>1, <2>2, <2>3, Shrink DEF IInv
  <2>5. AnchoredFirst'
    <3> SUFFICES ASSUME NEW d \in Ctx, pc'[d] \in {"check", "submit"}
                 PROVE  idx'[d] \in anchored'[Ring(d)']
      BY DEF AnchoredFirst
    <3>1. CASE d = c
      BY <3>1, <1>2, <2>1, <2>2
    <3>2. CASE d # c
      <4>1. pc[d] \in {"check", "submit"} /\ Ring(d) \in Rings
        BY <3>2, <1>1, <2>1, RingType DEF TypeOK
      <4>2. QED BY <4>1, <1>2, <2>1, <2>2 DEF AnchoredFirst, IInv
    <3>3. QED BY <3>1, <3>2
  <2>6. QED BY <2>4, <2>5
<1>9. CASE submit_atomic(c)
  <2>1. pc[c] = "check" /\ return(c) /\ r = c
    BY <1>9 DEF submit_atomic, Ring
  <2>2. CASE state = "OK"
    BY <1>9, <2>1, <2>2, HandOver DEF submit_atomic
  <2>3. CASE state # "OK"
    BY <1>1, <1>9, <2>1, <2>3, ReturnEffect, Moves DEF submit_atomic, Owning
  <2>4. QED BY <2>2, <2>3
<1>10. QED BY <1>3, <1>4, <1>5, <1>6, <1>7, <1>8, <1>9 DEF isoc_submit

(* The completion callback.                                                *)
LEMMA CbakPreserves ==
  ASSUME IInv, NEW r \in Rings, isoc_cbak(r)
  PROVE  Exclusive' /\ Marked' /\ AnchoredFirst'
<1> DEFINE i == Head(flight[r])
<1>1. \A q \in Rings : Once(flight[q]) /\ flight[q] \in Seq(Index)
  BY DEF IInv, TypeOK, Exclusive, Once
<1>2. flight[r] # <<>> /\ pc[r] = "idle"
  BY DEF isoc_cbak
<1>3. /\ i \in Members(flight[r]) /\ i \in Index /\ Once(Tail(flight[r]))
      /\ Members(Tail(flight[r])) = Members(flight[r]) \ {i}
  BY <1>1, <1>2, TailOnce
<1>4. \A q \in Rings : OnWire(q) = Members(flight[q]) /\ OnWire(q)' = Members(flight'[q])
  BY DEF OnWire, Members
<1>5. buf[r][i] = "st_subm" /\ \A c \in Ctx : ~Owns(c, r, i)
  BY <1>3, <1>4 DEF IInv, Marked, Exclusive
<1>6. /\ flight' = [flight EXCEPT ![r] = Tail(@)]
      /\ anchored' = [anchored EXCEPT ![r] = @ \ {i}]
      /\ buf' = [buf EXCEPT ![r][i] = "st_free"]
      /\ pc' = [pc EXCEPT ![r] = "take"]
      /\ UNCHANGED <<idx, sdir>>
  BY <1>5 DEF isoc_cbak
<1>7. \A q \in Rings : /\ Once(flight'[q])
                       /\ OnWire(q)' = IF q = r THEN OnWire(q) \ {i} ELSE OnWire(q)
  <2>1. flight'[r] = Tail(flight[r]) /\ \A q \in Rings \ {r} : flight'[q] = flight[q]
    BY <1>6 DEF IInv, TypeOK
  <2>2. QED BY <1>1, <1>3, <1>4, <2>1
<1>8. \A c \in Ctx : /\ Ring(c)' = Ring(c)
                     /\ pc'[c] \in Owning => pc'[c] = pc[c]
  BY <1>2, <1>6 DEF Ring, IInv, TypeOK, Owning
<1>9. \A c \in Ctx, q \in Rings, j \in Index :
        Owns(c, q, j)' => Owns(c, q, j) /\ <<q, j>> # <<r, i>>
  BY <1>5, <1>6, <1>8 DEF Owns
<1>10. Exclusive'
  BY <1>7, <1>9 DEF Exclusive, IInv, Once
<1>11. \A q \in Rings, j \in Index : <<q, j>> # <<r, i>> =>
         buf'[q][j] = buf[q][j] /\ (j \in anchored'[q] <=> j \in anchored[q])
  BY <1>3, <1>6 DEF IInv, TypeOK
<1>12. Marked'
  BY <1>7, <1>9, <1>11 DEF Marked, IInv
<1>13. AnchoredFirst'
  <2> SUFFICES ASSUME NEW c \in Ctx, pc'[c] \in {"check", "submit"}
               PROVE  idx'[c] \in anchored'[Ring(c)']
    BY DEF AnchoredFirst
  <2>1. pc[c] \in {"check", "submit"} /\ Ring(c) \in Rings /\ idx[c] \in Index
    BY <1>8, RingType DEF Owning, IInv, TypeOK
  <2>2. <<Ring(c), idx[c]>> # <<r, i>>
    BY <2>1, <1>5 DEF Owns, Owning
  <2>3. QED BY <2>1, <2>2, <1>6, <1>8, <1>11 DEF AnchoredFirst, IInv
<1>14. QED BY <1>10, <1>12, <1>13

(* The steps of the worker that are not those of a submit function.        *)
LEMMA WorkerPreserves ==
  ASSUME IInv, worker
  PROVE  Exclusive' /\ Marked' /\ AnchoredFirst'
<1> USE DEF devVars, ringVars, seqVars
<1>1. TypeOK /\ "setup" \in Ctx /\ Ring("setup") = sdir
  BY DEF IInv, Ctx, Ring
<1>2. \A c \in Ctx : c # "setup" \/ UNCHANGED sdir => Ring(c)' = Ring(c)
  BY DEF Ring
<1>3. CASE setup_start \/ setup_init_restart \/ setup_stages \/ setup_ok
  <2>1. /\ UNCHANGED <<buf, flight, anchored, idx>>
        /\ pc'["setup"] \notin Owning
        /\ \A c \in Ctx \ {"setup"} : pc'[c] = pc[c]
    BY <1>1, <1>3 DEF setup_start, setup_init_restart, setup_stages, setup_ok,
                      TypeOK, Owning
  <2>2. QED BY <1>2, <2>1, Moves
<1>4. CASE submit_check_state
  <2>1. UNCHANGED <<buf, flight, anchored>> /\ pc["setup"] = "check"
    BY <1>4 DEF submit_check_state
  <2>2. CASE return("setup")
    BY <1>1, <2>1, <2>2, ReturnEffect, Moves DEF Owning
  <2>3. CASE pc' = [pc EXCEPT !["setup"] = "submit"] /\ UNCHANGED <<idx, sdir, spawned>>
    BY <1>1, <1>2, <2>1, <2>3, Moves DEF Owning, TypeOK
  <2>4. QED BY <1>4, <2>2, <2>3 DEF submit_check_state, return
<1>5. CASE submit_kernel
  BY <1>1, <1>5, HandOver DEF submit_kernel, return
<1>6. QED BY <1>3, <1>4, <1>5 DEF worker

(* Plugging in: nothing is left from before, so the buffers may be reset.  *)
LEMMA ProbePreserves ==
  ASSUME IInv, probe
  PROVE  Exclusive' /\ Marked' /\ AnchoredFirst'
<1>1. /\ \A c \in Ctx : pc[c] = "idle"
      /\ \A r \in Rings : flight[r] = <<>>
  BY DEF probe, IInv, Quiet, Ctx
<1>2. \A c \in Ctx : pc'[c] \notin Owning \cup {"check", "submit"}
  BY <1>1 DEF probe, Owning, IInv, TypeOK
<1>3. \A r \in Rings : flight'[r] = <<>> /\ OnWire(r)' = {}
  BY <1>1 DEF probe, OnWire
<1>4. \A c \in Ctx, r \in Rings, i \in Index : ~Owns(c, r, i)'
  BY <1>2 DEF Owns
<1>5. QED BY <1>2, <1>3, <1>4 DEF Exclusive, Marked, AnchoredFirst

(* Unplug, disconnect and the steps of oufxs_delete.                       *)
LEMMA DeletePreserves ==
  ASSUME IInv, unplug \/ disconnect \/ delete
  PROVE  Exclusive' /\ Marked' /\ AnchoredFirst'
<1> USE DEF ringVars, seqVars, ctxVars
<1>1. \A c \in Ctx : UNCHANGED sdir => Ring(c)' = Ring(c)
  BY DEF Ring
<1>2. UNCHANGED <<buf, flight, anchored, pc, idx, sdir>>
  BY DEF unplug, disconnect, delete, delete_start, destroy_workqueue,
         kill_anchored_urbs, delete_finish
<1>3. QED BY <1>1, <1>2, Moves

(* What the teardown has waited for stays quiet.                           *)
LEMMA QuietPreserved == IInv /\ [Next]_vars => Quiet'
<1> SUFFICES ASSUME IInv, [Next]_vars PROVE Quiet'
  OBVIOUS
<1> USE RingsFacts DEF devVars, ringVars, seqVars, ctxVars
<1>1. TypeOK /\ Quiet
  BY DEF IInv
<1>2. CASE probe
  BY <1>1, <1>2 DEF probe, Quiet
<1>3. CASE worker
  <2>1. pc["setup"] # "idle" /\ UNCHANGED <<udev, del>>
    BY <1>3 DEF worker, setup_start, setup_init_restart, setup_stages, setup_ok,
                submit_check_state, submit_kernel
  <2>2. QED BY <1>1, <2>1 DEF Quiet
<1>4. ASSUME NEW c \in Ctx, isoc_submit(c) PROVE Quiet'
  <2>1. pc[c] # "idle" /\ UNCHANGED <<udev, del>>
    BY <1>4 DEF isoc_submit, submit_take, submit_refuse, submit_claim, fill_load,
                fill_store, submit_anchor, submit_atomic
  <2>2. c # "setup" => c \in Rings /\ pc'["setup"] = pc["setup"]
    BY <1>1, <1>4, ReturnEffect
       DEF isoc_submit, submit_take, submit_refuse, submit_claim, fill_load,
           fill_store, submit_anchor, submit_atomic, Ctx, TypeOK
  <2>3. QED BY <1>1, <2>1, <2>2 DEF Quiet
<1>5. ASSUME NEW r \in Rings, isoc_cbak(r) PROVE Quiet'
  <2>1. flight[r] # <<>> /\ UNCHANGED <<udev, del>> /\ r # "setup"
    BY <1>5 DEF isoc_cbak
  <2>2. pc' = [pc EXCEPT ![r] = "take"] \/ pc' = pc
    BY <1>5 DEF isoc_cbak
  <2>3. pc'["setup"] = pc["setup"]
    BY <1>1, <2>1, <2>2 DEF TypeOK, Ctx
  <2>4. QED BY <1>1, <2>1, <2>3 DEF Quiet
<1>6. CASE unplug \/ disconnect
  BY <1>1, <1>6 DEF unplug, disconnect, Quiet
<1>7. CASE delete
  <2>1. CASE kill_anchored_urbs
    <3>1. ASSUME NEW r \in Rings PROVE flight[r] = <<>>
      <4>1. anchored[r] = {}
        BY <2>1 DEF kill_anchored_urbs
      <4>2. \A i \in Index : i \notin OnWire(r)
        BY <4>1 DEF IInv, Marked
      <4>3. flight[r] \in Seq(Index)
        BY <1>1 DEF TypeOK
      <4>4. Len(flight[r]) = 0
        <5>1. SUFFICES ASSUME Len(flight[r]) # 0 PROVE FALSE
          OBVIOUS
        <5>2. 1 \in 1 .. Len(flight[r]) /\ flight[r][1] \in Index
          BY <4>3, <5>1
        <5>3. QED BY <5>2, <4>2 DEF OnWire
      <4>5. QED BY <4>3, <4>4
    <3>2. QED BY <1>1, <2>1, <3>1 DEF kill_anchored_urbs, Quiet
  <2>2. CASE delete_start \/ destroy_workqueue \/ delete_finish
    BY <1>1, <2>2 DEF delete_start, destroy_workqueue, delete_finish, Quiet, TypeOK
  <2>3. QED BY <1>7, <2>1, <2>2 DEF delete
<1>8. CASE UNCHANGED vars
  BY <1>1, <1>8 DEF vars, Quiet
<1>9. QED BY <1>2, <1>3, <1>4, <1>5, <1>6, <1>7, <1>8 DEF Next

-----------------------------------------------------------------------------
(* The inductive invariant holds initially and is preserved by every step. *)
LEMMA Inductive == (Init => IInv) /\ (IInv /\ [Next]_vars => IInv')
<1>1. Init => IInv
  <2> SUFFICES ASSUME Init PROVE IInv
    OBVIOUS
  <2>1. /\ \A c \in Ctx : pc[c] = "idle"
        /\ \A r \in Rings : flight[r] = <<>> /\ OnWire(r) = {}
    BY DEF Init, OnWire
  <2>2. QED BY <2>1, InitTypeOK, RingsFacts
            DEF IInv, Exclusive, Marked, AnchoredFirst, Quiet, Owns, Owning, Init, Ctx
<1>2. ASSUME IInv, [Next]_vars PROVE IInv'
  <2>1. TypeOK' /\ Quiet'
    BY <1>2, NextTypeOK, QuietPreserved DEF IInv
  <2>2. CASE UNCHANGED vars
    <3>1. \A c \in Ctx : Ring(c)' = Ring(c)
      BY <2>2 DEF vars, ctxVars, Ring
    <3>2. QED BY <1>2, <2>1, <2>2, <3>1, Moves DEF vars, ctxVars, ringVars, IInv
  <2>3. CASE Next
    <3>1. Exclusive' /\ Marked' /\ AnchoredFirst'
      BY <1>2, <2>3, SubmitPreserves, CbakPreserves, WorkerPreserves, ProbePreserves,
         DeletePreserves DEF Next
    <3>2. QED BY <2>1, <3>1 DEF IInv
  <2>4. QED BY <1>2, <2>2, <2>3
<1>3. QED BY <1>1, <1>2

(* Every variable keeps its type, whatever the size of the rings.          *)
THEOREM TypeCorrect == Spec => []TypeOK
BY InitTypeOK, NextTypeOK, PTL DEF Spec

LEMMA Invariance == Spec => []IInv
BY Inductive, PTL DEF Spec

(* No buffer is ever in two pairs of hands: the state test under the       *)
(* buffer's lock in oufxs_isoc_*_submit is enough to keep the worker and   *)
(* the callbacks off the packets of an URB on the wire.                    *)
THEOREM BuffersExclusive == Spec => []Exclusive
<1>1. IInv => Exclusive
  BY DEF IInv
<1>2. QED BY <1>1, Invariance, PTL

(* What is worked on or on the wire is marked st_subm, and everything on   *)
(* the wire can be killed through the anchor.                              *)
THEOREM BuffersMarked == Spec => []Marked
<1>1. IInv => Marked
  BY DEF IInv
<1>2. QED BY <1>1, Invariance, PTL

(* The order of oufxs_delete (work queue, then anchored URBs, then the     *)
(* buffers) frees nothing that is in use.                                  *)
THEOREM DeleteSafe == Spec => []FreedQuiet
<1>1. IInv => FreedQuiet
  BY DEF IInv, Quiet, FreedQuiet, Ctx, Owning
<1>2. QED BY <1>1, Invariance, PTL

-----------------------------------------------------------------------------
(***************************************************************************)
(* No URB is stranded before a disconnect.  The only step that leaves an   *)
(* URB behind is the state check, and until the disconnect it finds the    *)
(* state OK whenever somebody submits: the worker has set it before the    *)
(* first submission (Running), and nobody sets it to anything else.        *)
(***************************************************************************)
Still == \A r \in Rings : flight[r] = <<>> /\ pc[r] = "idle"

Spawns == pc["setup"] \in {"take", "mark"} \cup Owning

Running ==
  /\ pc["setup"] \in {"queued", "init", "final", "ok"} => Still
  /\ del = "none" => state = "OK" \/ (Still /\ ~Spawns)

Held ==
  del = "none" =>
    \A r \in Rings : \A i \in anchored[r] :
      i \in OnWire(r) \/ \E c \in Ctx : Owns(c, r, i)

(* A step of a submit function leaves the other rings alone, and is taken  *)
(* by somebody who is not idle.                                            *)
LEMMA SubmitEffect ==
  ASSUME TypeOK, NEW c \in Ctx, isoc_submit(c)
  PROVE  /\ UNCHANGED devVars
         /\ pc[c] \in {"take", "mark"} \cup Owning
         /\ \A d \in Ctx \ {c} : pc'[d] = pc[d] /\ idx'[d] = idx[d] /\ Ring(d)' = Ring(d)
         /\ c = "setup" => pc'[c] \in {"idle", "take", "mark"} \cup Owning
<1>1. CASE submit_refuse(c) \/ submit_atomic(c)
  <2>1. return(c) /\ UNCHANGED devVars /\ pc[c] \in {"take", "mark"} \cup Owning
    BY <1>1 DEF submit_refuse, submit_atomic, Owning
  <2>2. QED BY <2>1, ReturnEffect
<1>2. CASE submit_take(c) \/ submit_claim(c) \/ fill_load(c) \/ fill_store(c) \/ submit_anchor(c)
  BY <1>2 DEF submit_take, submit_claim, fill_load, fill_store, submit_anchor, devVars,
              TypeOK, Owning, Ring
<1>3. QED BY <1>1, <1>2 DEF isoc_submit

LEMMA RunningPreserved == IInv /\ Running /\ [Next]_vars => Running'
<1> SUFFICES ASSUME IInv, Running, [Next]_vars PROVE Running'
  OBVIOUS
<1> USE DEF devVars, ringVars, seqVars, ctxVars
<1>1. TypeOK /\ Quiet /\ "setup" \in Ctx /\ Rings \subseteq Ctx /\ "setup" \notin Rings
  BY RingsFacts DEF IInv, Ctx
<1>2. CASE probe
  <2>1. Still /\ UNCHANGED flight /\ pc' = [pc EXCEPT !["setup"] = "queued"]
    BY <1>1, <1>2 DEF probe, Quiet, Still
  <2>2. Still' /\ ~Spawns'
    BY <1>1, <2>1 DEF Still, Spawns, Owning, TypeOK
  <2>3. QED BY <2>2 DEF Running
<1>3. CASE worker
  <2>1. UNCHANGED del /\ \A r \in Rings : pc'[r] = pc[r]
    BY <1>1, <1>3, ReturnEffect
       DEF worker, setup_start, setup_init_restart, setup_stages, setup_ok,
           submit_check_state, submit_kernel, return, TypeOK
  <2>2. CASE setup_start \/ setup_init_restart \/ setup_stages
    <3>1. Still /\ UNCHANGED flight /\ ~Spawns'
      BY <1>1, <2>2 DEF setup_start, setup_init_restart, setup_stages, Running, Spawns,
                        Owning, TypeOK
    <3>2. QED BY <2>1, <3>1 DEF Still, Running
  <2>3. CASE setup_ok
    BY <1>1, <2>3 DEF setup_ok, Running, TypeOK
  <2>4. CASE submit_check_state \/ submit_kernel
    <3>1. /\ pc["setup"] \in {"check", "submit"} /\ UNCHANGED state
          /\ pc'["setup"] \in {"idle", "take", "submit"}
      BY <1>1, <2>4, ReturnEffect DEF submit_check_state, submit_kernel, return, TypeOK
    <3>2. QED BY <2>1, <3>1 DEF Running, Spawns, Owning
  <2>5. QED BY <1>3, <2>2, <2>3, <2>4 DEF worker
<1>4. ASSUME NEW c \in Ctx, isoc_submit(c) PROVE Running'
  <2>1. /\ pc[c] \in {"take", "mark"} \cup Owning /\ UNCHANGED <<state, del>>
        /\ \A d \in Ctx \ {c} : pc'[d] = pc[d]
        /\ c = "setup" => pc'[c] \in {"idle", "take", "mark"} \cup Owning
    BY <1>1, <1>4, SubmitEffect
  <2>2. CASE c = "setup"
    BY <2>1, <2>2 DEF Running, Spawns, Owning
  <2>3. CASE c # "setup"
    <3>1. c \in Rings /\ ~Still
      BY <2>1, <2>3 DEF Ctx, Still, Owning
    <3>2. QED BY <1>1, <2>1, <2>3, <3>1 DEF Running
  <2>4. QED BY <2>2, <2>3
<1>5. ASSUME NEW r \in Rings, isoc_cbak(r) PROVE Running'
  <2>1. ~Still /\ UNCHANGED <<state, del>> /\ (pc' = [pc EXCEPT ![r] = "take"] \/ pc' = pc)
    BY <1>5 DEF isoc_cbak, Still
  <2>2. pc'["setup"] = pc["setup"]
    BY <1>1, <2>1 DEF TypeOK
  <2>3. QED BY <2>1, <2>2 DEF Running
<1>6. CASE unplug
  BY <1>6 DEF unplug, Running, Still, Spawns
<1>7. CASE disconnect \/ delete
  <2>1. del' # "none" /\ UNCHANGED <<pc, flight>>
    BY <1>7 DEF disconnect, delete, delete_start, destroy_workqueue, kill_anchored_urbs,
                delete_finish
  <2>2. QED BY <2>1 DEF Running, Still
<1>8. CASE UNCHANGED vars
  BY <1>8 DEF vars, Running, Still, Spawns
<1>9. QED BY <1>2, <1>3, <1>4, <1>5, <1>6, <1>7, <1>8 DEF Next

(* Whoever owns a buffer keeps it, unless he is the one who takes the step.*)
LEMMA HeldPreserved == IInv /\ Running /\ Held /\ [Next]_vars => Held'
<1> SUFFICES ASSUME IInv, Running, Held, [Next]_vars, del' = "none",
                    NEW q \in Rings, NEW j \in anchored'[q]
             PROVE  j \in OnWire(q)' \/ \E c \in Ctx : Owns(c, q, j)'
  BY DEF Held
<1> USE DEF devVars, ringVars, seqVars, ctxVars
<1>1. /\ TypeOK /\ "setup" \in Ctx /\ Rings \subseteq Ctx /\ "setup" \notin Rings
      /\ \A c \in Ctx : Ring(c) \in Rings
  BY RingsFacts, RingType DEF IInv, Ctx
<1>2. CASE probe
  BY <1>2 DEF probe
<1> SUFFICES ASSUME ~probe PROVE j \in OnWire(q)' \/ \E c \in Ctx : Owns(c, q, j)'
  BY <1>2
<1>3. del = "none"
  BY DEF Next, vars, worker, setup_start, setup_init_restart, setup_stages, setup_ok,
         submit_check_state, submit_kernel, isoc_submit, submit_take, submit_refuse,
         submit_claim, fill_load, fill_store, submit_anchor, submit_atomic, isoc_cbak,
         unplug, disconnect, delete, delete_start, destroy_workqueue, kill_anchored_urbs,
         delete_finish
<1>4. \A r \in Rings : \A i \in anchored[r] : i \in OnWire(r) \/ \E c \in Ctx : Owns(c, r, i)
  BY <1>3 DEF Held
(* A step that only moves the program counters, and lets no owner go.      *)
<1>5. ASSUME UNCHANGED <<flight, anchored>>,
             \A c \in Ctx : pc[c] \in Owning =>
               pc'[c] \in Owning /\ idx'[c] = idx[c] /\ Ring(c)' = Ring(c)
      PROVE  j \in OnWire(q)' \/ \E c \in Ctx : Owns(c, q, j)'
  BY <1>4, <1>5 DEF OnWire, Owns
(* A hand-over by the owner.                                               *)
<1>6. ASSUME NEW c \in Ctx, pc[c] \in Owning, usb_submit_urb(Ring(c), idx[c]), return(c)
      PROVE  j \in OnWire(q)' \/ \E d \in Ctx : Owns(d, q, j)'
  <2> DEFINE r == Ring(c)
             i == idx[c]
  <2>1. r \in Rings /\ i \in Index /\ flight[r] \in Seq(Index) /\ anchored[q] \in SUBSET Index
    BY <1>1 DEF TypeOK
  <2>2. \A d \in Ctx : <<q, j>> # <<r, i>> /\ Owns(d, q, j) => Owns(d, q, j)'
    BY <1>1, <1>6, ReturnEffect DEF Owns
  <2>3. CASE flight' = [flight EXCEPT ![r] = Append(@, i)] /\ UNCHANGED <<buf, anchored>>
    <3>1. /\ \A p \in Rings \ {r} : flight'[p] = flight[p]
          /\ flight'[r] = Append(flight[r], i)
      BY <1>1, <2>1, <2>3 DEF TypeOK
    <3>2. OnWire(q) \subseteq OnWire(q)' /\ (q = r /\ j = i => j \in OnWire(q)')
      <4>1. /\ \A p \in Rings : OnWire(p) = Members(flight[p])
            /\ \A p \in Rings : OnWire(p)' = Members(flight'[p])
        BY DEF OnWire, Members
      <4>2. Members(flight'[r]) = Members(flight[r]) \cup {i}
        <5>1. Once(flight[r]) /\ i \notin Members(flight[r])
          <6>1. Owns(c, r, i)
            BY <1>6 DEF Owns
          <6>2. i \notin OnWire(r)
            BY <2>1, <6>1 DEF IInv, Exclusive
          <6>3. QED BY <2>1, <4>1, <6>2 DEF IInv, Exclusive, Once
        <5>2. QED BY <2>1, <3>1, <5>1, AppendOnce
      <4>3. CASE q = r
        BY <4>1, <4>2, <4>3
      <4>4. CASE q # r
        BY <3>1, <4>1, <4>4
      <4>5. QED BY <4>3, <4>4
    <3>3. QED BY <1>4, <2>2, <2>3, <3>2
  <2>4. CASE anchored' = [anchored EXCEPT ![r] = @ \ {i}] /\ UNCHANGED flight
    <3>1. j \in anchored[q] /\ <<q, j>> # <<r, i>>
      BY <1>1, <2>1, <2>4 DEF TypeOK
    <3>2. QED BY <1>4, <2>2, <2>4, <3>1 DEF OnWire
  <2>5. QED BY <1>6, <2>3, <2>4 DEF usb_submit_urb
<1>7. CASE worker
  <2>1. CASE setup_start \/ setup_init_restart \/ setup_stages \/ setup_ok
    <3>1. /\ UNCHANGED <<flight, anchored, idx>> /\ pc["setup"] \notin Owning
          /\ \A c \in Rings : pc'[c] = pc[c] /\ Ring(c)' = Ring(c)
      BY <1>1, <2>1 DEF setup_start, setup_init_restart, setup_stages, setup_ok, TypeOK,
                        Owning, Ring
    <3>2. QED BY <3>1, <1>5 DEF Ctx
  <2>2. CASE submit_check_state
    <3>1. state = "OK"
      BY <1>3, <2>2 DEF submit_check_state, Running, Spawns, Owning
    <3>2. QED BY <1>1, <1>5, <2>2, <3>1 DEF submit_check_state, TypeOK, Owning, Ring
  <2>3. CASE submit_kernel
    <3>1. Ring("setup") = sdir /\ return("setup")
      BY <2>3 DEF submit_kernel, return, Ring
    <3>2. QED BY <1>1, <1>6, <2>3, <3>1 DEF submit_kernel, Owning
  <2>4. QED BY <1>7, <2>1, <2>2, <2>3 DEF worker
<1>8. ASSUME NEW c \in Ctx, isoc_submit(c)
      PROVE  j \in OnWire(q)' \/ \E d \in Ctx : Owns(d, q, j)'
  <2>1. CASE submit_take(c) \/ submit_claim(c) \/ fill_load(c) \/ fill_store(c)
    BY <1>1, <1>5, <2>1 DEF submit_take, submit_claim, fill_load, fill_store, TypeOK,
                            Owning, Ring
  <2>2. CASE submit_refuse(c)
    <3>1. return(c) /\ pc[c] = "mark" /\ UNCHANGED <<flight, anchored>>
      BY <2>2 DEF submit_refuse
    <3>2. QED BY <1>1, <1>5, <3>1, ReturnEffect DEF Owning
  <2>3. CASE submit_anchor(c)
    <3>1. /\ pc[c] = "anchor" /\ UNCHANGED <<flight, idx, sdir>>
          /\ anchored' = [anchored EXCEPT ![Ring(c)] = @ \cup {idx[c]}]
          /\ pc' = [pc EXCEPT ![c] = "check"]
      BY <2>3 DEF submit_anchor
    <3>2. \A d \in Ctx, i \in Index : Owns(d, q, i) => Owns(d, q, i)'
      BY <1>1, <3>1 DEF Owns, Owning, Ring, TypeOK
    <3>3. OnWire(q)' = OnWire(q) /\ (q = Ring(c) /\ j = idx[c] => Owns(c, q, j)')
      <4>1. OnWire(q)' = OnWire(q)
        BY <3>1 DEF OnWire
      <4>2. pc'[c] = "check" /\ idx'[c] = idx[c] /\ Ring(c)' = Ring(c)
        BY <1>1, <3>1 DEF Ring, TypeOK
      <4>3. QED BY <4>1, <4>2 DEF Owns, Owning
    <3>4. anchored[q] \in SUBSET Index /\ (j \in anchored[q] \/ (q = Ring(c) /\ j = idx[c]))
      BY <1>1, <3>1 DEF TypeOK
    <3>5. QED BY <1>4, <3>2, <3>3, <3>4
  <2>4. CASE submit_atomic(c)
    <3>1. c \in Rings /\ pc[c] = "check" /\ Ring(c) = c /\ return(c)
      BY <2>4 DEF submit_atomic, Ctx, Ring
    <3>2. state = "OK"
      BY <1>3, <3>1 DEF Running, Still
    <3>3. QED BY <1>1, <1>6, <2>4, <3>1, <3>2 DEF submit_atomic, Owning
  <2>5. QED BY <1>8, <2>1, <2>2, <2>3, <2>4 DEF isoc_submit
<1>9. ASSUME NEW r \in Rings, isoc_cbak(r)
      PROVE  j \in OnWire(q)' \/ \E c \in Ctx : Owns(c, q, j)'
  <2> DEFINE i == Head(flight[r])
  <2>1. /\ flight[r] # <<>> /\ flight' = [flight EXCEPT ![r] = Tail(@)]
        /\ anchored' = [anchored EXCEPT ![r] = @ \ {i}]
        /\ pc[r] = "idle" /\ (pc' = pc \/ pc' = [pc EXCEPT ![r] = "take"])
        /\ UNCHANGED <<idx, sdir>>
    BY <1>9 DEF isoc_cbak
  <2>2. Once(flight[r]) /\ flight[r] \in Seq(Index)
    BY <1>1 DEF IInv, Exclusive, Once, TypeOK
  <2>3. Members(Tail(flight[r])) = Members(flight[r]) \ {i}
    BY <2>1, <2>2, TailOnce
  <2>4. /\ flight'[r] = Tail(flight[r]) /\ \A p \in Rings \ {r} : flight'[p] = flight[p]
        /\ j \in anchored[q] /\ <<q, j>> # <<r, i>>
    BY <1>1, <2>1 DEF TypeOK
  <2>5. j \in OnWire(q) => j \in OnWire(q)'
    <3>1. OnWire(q) = Members(flight[q]) /\ OnWire(q)' = Members(flight'[q])
      BY DEF OnWire, Members
    <3>2. CASE q = r
      BY <2>3, <2>4, <3>1, <3>2
    <3>3. CASE q # r
      BY <2>4, <3>1, <3>3
    <3>4. QED BY <3>2, <3>3
  <2>6. \A c \in Ctx : Owns(c, q, j) => Owns(c, q, j)'
    BY <1>1, <2>1 DEF Owns, Owning, Ring, TypeOK
  <2>7. QED BY <1>4, <2>4, <2>5, <2>6
<1>10. CASE unplug \/ disconnect \/ delete \/ UNCHANGED vars
  <2>1. UNCHANGED <<flight, anchored, pc, idx, sdir>>
    BY <1>10 DEF unplug, disconnect, delete, delete_start, destroy_workqueue,
                 kill_anchored_urbs, delete_finish, vars
  <2>2. QED BY <1>5, <2>1 DEF Ring
<1>11. QED BY <1>7, <1>8, <1>9, <1>10 DEF Next

(* As long as the board is plugged in every URB on the anchor is on the    *)
(* wire or about to be: whatever usb_kill_anchored_urbs finds there and    *)
(* cannot get rid of was put there after the disconnect.                   *)
THEOREM NothingStranded == Spec => []NoneStranded
<1>1. Init => Running /\ Held
  BY RingsFacts DEF Init, Running, Held, Still, Spawns, Owning, Ctx
<1>2. IInv /\ IInv' /\ Running /\ Held /\ [Next]_vars => Running' /\ Held'
  BY RunningPreserved, HeldPreserved
<1>3. Held => NoneStranded
  BY DEF Held, NoneStranded, Stranded
<1>4. QED BY <1>1, <1>2, <1>3, Invariance, PTL DEF Spec

-----------------------------------------------------------------------------
(***************************************************************************)
(* Under the timing assumption of PromptSpec the ring never meets itself.  *)
(* The argument counts the turns that are still due in a ring: those of    *)
(* the worker's loop, the one of a callback that has begun, and one for    *)
(* each URB in flight.  A buffer that is on the wire, worked on or left    *)
(* behind is further away from the ring index than that.                   *)
(***************************************************************************)

(* A reserved structure does not reset its IN buffers (oufxs_probe), so    *)
(* one that was left st_subm would be found again after the next plug-in.  *)
ResetByProbe == Reserved => Rings = {"out"}

(* How many times the ring turns before it is buffer i's turn.             *)
Distance(r, i) == IF i >= submit[r] THEN i - submit[r] ELSE i - submit[r] + MaxUrb

Starting == pc["setup"] \in {"queued", "init", "final", "ok"}
Taken    == {"mark"} \cup Owning
Working(c, r) == pc[c] \in Taken /\ Ring(c) = r

(* Turns of the worker that are due in ring r, and of its callback.        *)
ToSpawn(r) ==
  IF Starting THEN InFlight(r)
  ELSE IF pc["setup"] = "idle" THEN 0
  ELSE IF r # sdir THEN (IF sdir = LastRing THEN 0 ELSE InFlight(r))
  ELSE InFlight(r) - spawned - (IF pc["setup"] = "take" THEN 0 ELSE 1)
Turn(r) == IF pc[r] = "take" THEN 1 ELSE 0
Due(r)  == ToSpawn(r) + Turn(r) + Len(flight[r])

Hands(c, r) == IF Working(c, r) THEN 1 ELSE 0

(* The worker's loop is in bounds, and starts on a ring that is at rest.   *)
Paced ==
  /\ Spawning => spawned < InFlight(sdir)
  /\ Starting => \A r \in Rings : buf[r] = AllFree /\ flight[r] = <<>> /\ pc[r] = "idle"
  /\ Spawning /\ present => \A r \in Rings : pc[r] = "idle"

(* While the board is there nothing is left behind.                        *)
Plugged ==
  present =>
    /\ del = "none"
    /\ Spawning \/ (\E r \in Rings : pc[r] # "idle" \/ flight[r] # <<>>) => state = "OK"
    /\ \A r \in Rings, i \in Index : buf[r][i] = "st_subm" =>
         i \in OnWire(r) \/ \E c \in Ctx : Owns(c, r, i)

(* There are no more turns due than URBs were to be spawned, and no buffer *)
(* comes round within them.                                                *)
NoLapIn(r) ==
  /\ Due(r) + Hands("setup", r) + Hands(r, r) <= InFlight(r)
  /\ \A n \in 1 .. Len(flight[r]) :
       Distance(r, flight[r][n]) >= n - 1 + ToSpawn(r) + Turn(r)
  /\ \A c \in Ctx : Working(c, r) => Distance(r, idx[c]) >= Due(r)
  /\ \A i \in Index : buf[r][i] = "st_subm" /\ i \notin OnWire(r) => Distance(r, i) >= Due(r)

NoLap == \A r \in Rings : NoLapIn(r)

(* What is taken is free, and taken by one.                                *)
TakenFree ==
  \A c \in Ctx :
    /\ pc[c] = "mark" => buf[Ring(c)][idx[c]] = "st_free"
    /\ \A d \in Ctx : pc[c] \in Taken /\ pc[d] \in Taken /\ Ring(c) = Ring(d) /\ idx[c] = idx[d]
                        => c = d

Ahead  == Paced /\ Plugged /\ NoLap /\ TakenFree /\ NeverInconsistent
LapInv == IInv /\ Ahead

(***************************************************************************)
(* Sequence numbers: they start again with each structure, and their range *)
(* is a multiple of the number of packets in the ring.                     *)
(***************************************************************************)
Aligned == ~Reserved /\ SeqMod % (MaxUrb * Packs) = 0

Succ(i) == (i + 1) % MaxUrb
Mapped(i, p) == seq2chunk(pktseq[i][p]) = <<i, p>>

(* Only OUT packets are filled in.                                         *)
FillsOut == \A c \in Ctx : pc[c] \in {"fill", "store"} => Ring(c) = "out"

(* While the board is there the next number is that of the packet to be    *)
(* filled, or of the first one in the next buffer.                         *)
Fits(c) ==
  /\ submit["out"] = Succ(idx[c])
  /\ pc[c] = "mark" => seq2chunk(outseqno) = <<idx[c], 0>>
  /\ pc[c] \in {"fill", "store"} =>
       /\ seq2chunk(outseqno) = <<idx[c], cnt[c]>>
       /\ \A p \in Pack : p < cnt[c] => Mapped(idx[c], p)
  /\ pc[c] = "store" => tmp[c] = outseqno
  /\ pc[c] \in {"anchor", "check", "submit"} =>
       /\ seq2chunk(outseqno) = <<submit["out"], 0>>
       /\ \A p \in Pack : Mapped(idx[c], p)

InStep ==
  present =>
    /\ (\A c \in Ctx : ~Working(c, "out")) => seq2chunk(outseqno) = <<submit["out"], 0>>
    /\ \A c \in Ctx : Working(c, "out") => Fits(c)

Numbered == FillsOut /\ InStep /\ SeqMapOK
MapInv   == LapInv /\ Numbered

-----------------------------------------------------------------------------
(* Turns and distances are natural numbers.                                *)
LEMMA Counts ==
  ASSUME TypeOK, Paced, NEW r \in Rings
  PROVE  /\ ToSpawn(r) \in Nat /\ Turn(r) \in {0, 1} /\ Len(flight[r]) \in Nat
         /\ Due(r) \in Nat /\ Due(r) = ToSpawn(r) + Turn(r) + Len(flight[r])
         /\ InFlight(r) \in 1 .. MaxUrb /\ MaxUrb \in Nat \ {0}
         /\ \A c \in Ctx : Hands(c, r) \in {0, 1}
         /\ \A c \in Ctx : pc[c] = "take" /\ Ring(c) = r => ToSpawn(r) + Turn(r) >= 1
<1>1. InFlight(r) \in 1 .. MaxUrb /\ MaxUrb \in Nat \ {0} /\ spawned \in Nat
  BY RingsFacts, ConstantsOK DEF TypeOK
<1>2. Spawning => spawned < InFlight(sdir) /\ InFlight(sdir) \in Nat
  BY RingsFacts DEF Paced, TypeOK
<1>3. Starting \/ pc["setup"] = "idle" \/ Spawning
  BY DEF Starting, Spawning, TypeOK, PC, Ctx, Owning
<1>4. ToSpawn(r) \in Nat
  BY <1>1, <1>2, <1>3 DEF ToSpawn
<1>5. Turn(r) \in {0, 1} /\ Len(flight[r]) \in Nat
  BY DEF Turn, TypeOK
<1>6. ASSUME NEW c \in Ctx, pc[c] = "take", Ring(c) = r PROVE ToSpawn(r) + Turn(r) >= 1
  <2>1. CASE c = "setup"
    <3>1. r = sdir /\ ~Starting /\ Spawning
      BY <1>6, <2>1 DEF Ring, Starting, Spawning
    <3>2. ToSpawn(r) = InFlight(r) - spawned
      BY <1>6, <2>1, <3>1, <1>1 DEF ToSpawn
    <3>3. QED BY <3>1, <3>2, <1>1, <1>2, <1>5
  <2>2. CASE c # "setup"
    BY <1>4, <1>6, <2>2 DEF Ring, Turn
  <2>3. QED BY <2>1, <2>2
<1>7. QED BY <1>1, <1>4, <1>5, <1>6 DEF Due, Hands

LEMMA Distances ==
  ASSUME TypeOK, NEW r \in Rings, NEW i \in Index
  PROVE  Distance(r, i) \in 0 .. MaxUrb - 1 /\ (Distance(r, i) = 0 <=> i = submit[r])
<1>1. submit[r] \in Index /\ MaxUrb \in Nat \ {0}
  BY ConstantsOK DEF TypeOK
<1>2. QED BY <1>1 DEF Distance, Index

(* A step that takes no turn and hands nothing over brings nothing nearer. *)
LEMMA NoLapInKept ==
  ASSUME TypeOK, TypeOK', Paced, NEW r \in Rings, NoLapIn(r),
         flight'[r] = flight[r], submit'[r] = submit[r],
         ToSpawn(r)' \in Nat, Turn(r)' \in Nat,
         ToSpawn(r)' + Turn(r)' <= ToSpawn(r) + Turn(r),
         \A c \in Ctx : Working(c, r)' => Working(c, r) /\ idx'[c] = idx[c],
         \A i \in Index : buf'[r][i] = "st_subm" =>
           buf[r][i] = "st_subm" \/ \E c \in Ctx : Working(c, r) /\ idx[c] = i
  PROVE  NoLapIn(r)'
<1> SUFFICES /\ Due(r)' + Hands("setup", r)' + Hands(r, r)' <= InFlight(r)
             /\ \A n \in 1 .. Len(flight'[r]) :
                  Distance(r, flight[r][n])' >= n - 1 + ToSpawn(r)' + Turn(r)'
             /\ \A c \in Ctx : Working(c, r)' => Distance(r, idx[c])' >= Due(r)'
             /\ \A i \in Index : buf'[r][i] = "st_subm" /\ i \notin OnWire(r)'
                                   => Distance(r, i)' >= Due(r)'
  BY DEF NoLapIn, InFlight
<1>1. /\ ToSpawn(r) \in Nat /\ Turn(r) \in Nat /\ Len(flight[r]) \in Nat
      /\ Due(r) = ToSpawn(r) + Turn(r) + Len(flight[r])
  BY Counts
<1>2. /\ ToSpawn(r)' \in Nat /\ Turn(r)' \in Nat
      /\ Due(r)' = ToSpawn(r)' + Turn(r)' + Len(flight[r])
  BY DEF Due
<1>3. ToSpawn(r)' + Turn(r)' <= ToSpawn(r) + Turn(r)
  OBVIOUS
<1>4. Due(r)' <= Due(r)
  BY <1>1, <1>2, <1>3
<1>5. \A i \in Index : Distance(r, i)' = Distance(r, i) /\ Distance(r, i) \in Nat
  BY Distances DEF Distance
<1>6. OnWire(r)' = OnWire(r) /\ Len(flight'[r]) = Len(flight[r])
      /\ \A n \in 1 .. Len(flight[r]) : flight'[r][n] = flight[r][n] /\ flight[r][n] \in Index
  BY DEF OnWire, TypeOK
<1>7. /\ Due(r) + Hands("setup", r) + Hands(r, r) <= InFlight(r)
      /\ \A n \in 1 .. Len(flight[r]) : Distance(r, flight[r][n]) >= n - 1 + ToSpawn(r) + Turn(r)
      /\ \A c \in Ctx : Working(c, r) => Distance(r, idx[c]) >= Due(r)
      /\ \A i \in Index : buf[r][i] = "st_subm" /\ i \notin OnWire(r) => Distance(r, i) >= Due(r)
  BY DEF NoLapIn
<1>8. Due(r)' + Hands("setup", r)' + Hands(r, r)' <= InFlight(r)
  <2>1. \A c \in Ctx : Hands(c, r)' \in {0, 1} /\ Hands(c, r) \in {0, 1} /\ Hands(c, r)' <= Hands(c, r)
    BY DEF Hands
  <2>2. "setup" \in Ctx /\ r \in Ctx /\ InFlight(r) \in Nat
    BY RingsFacts DEF Ctx
  <2>3. Hands("setup", r)' \in {0, 1} /\ Hands("setup", r) \in {0, 1}
        /\ Hands("setup", r)' <= Hands("setup", r)
    BY <2>1, <2>2
  <2>4. Hands(r, r)' \in {0, 1} /\ Hands(r, r) \in {0, 1} /\ Hands(r, r)' <= Hands(r, r)
    BY <2>1, <2>2
  <2>5. Due(r) \in Nat /\ Due(r)' \in Nat
    BY <1>1, <1>2
  <2>6. Due(r) + Hands("setup", r) + Hands(r, r) <= InFlight(r)
    BY <1>7
  <2>7. QED BY <1>4, <2>2, <2>3, <2>4, <2>5, <2>6
<1>9. ASSUME NEW n \in 1 .. Len(flight'[r])
      PROVE  Distance(r, flight[r][n])' >= n - 1 + ToSpawn(r)' + Turn(r)'
  <2>1. Distance(r, flight[r][n])' = Distance(r, flight[r][n]) /\ Distance(r, flight[r][n]) \in Nat
    <3>1. PICK i \in Index : i = flight[r][n] /\ i = flight'[r][n]
      BY <1>6
    <3>2. Distance(r, i)' = Distance(r, flight[r][n])'
      BY <3>1 DEF Distance
    <3>3. QED BY <3>1, <3>2, <1>5
  <2>2. Distance(r, flight[r][n]) >= n - 1 + ToSpawn(r) + Turn(r) /\ n \in Nat
    BY <1>6, <1>7
  <2>3. QED BY <2>1, <2>2, <1>1, <1>2, <1>3
<1>10. ASSUME NEW c \in Ctx, Working(c, r)' PROVE Distance(r, idx[c])' >= Due(r)'
  <2>1. Working(c, r) /\ idx'[c] = idx[c] /\ idx[c] \in Index
    BY <1>10 DEF TypeOK
  <2>2. Distance(r, idx[c])' = Distance(r, idx[c]) /\ Distance(r, idx[c]) \in Nat
    <3>1. Distance(r, idx[c])' = IF idx[c] >= submit[r] THEN idx[c] - submit[r]
                                                        ELSE idx[c] - submit[r] + MaxUrb
      BY <2>1 DEF Distance
    <3>2. QED BY <3>1, <2>1, <1>5 DEF Distance
  <2>3. QED BY <2>1, <2>2, <1>1, <1>2, <1>4, <1>7
<1>11. ASSUME NEW i \in Index, buf'[r][i] = "st_subm", i \notin OnWire(r)'
       PROVE  Distance(r, i)' >= Due(r)'
  <2>1. Distance(r, i) >= Due(r)
    <3>1. buf[r][i] = "st_subm" \/ \E c \in Ctx : Working(c, r) /\ idx[c] = i
      BY <1>11
    <3>2. QED BY <3>1, <1>6, <1>7, <1>11
  <2>2. QED BY <2>1, <1>1, <1>2, <1>4, <1>5
<1>12. QED BY <1>8, <1>9, <1>10, <1>11

LEMMA NoLapKept ==
  ASSUME TypeOK, TypeOK', Paced, NoLap, UNCHANGED <<flight, submit>>,
         \A r \in Rings : ToSpawn(r)' \in Nat /\ Turn(r)' \in Nat,
         \A r \in Rings : ToSpawn(r)' + Turn(r)' <= ToSpawn(r) + Turn(r),
         \A c \in Ctx, r \in Rings : Working(c, r)' => Working(c, r) /\ idx'[c] = idx[c],
         \A r \in Rings, i \in Index : buf'[r][i] = "st_subm" =>
           buf[r][i] = "st_subm" \/ \E c \in Ctx : Working(c, r) /\ idx[c] = i
  PROVE  NoLap'
<1>1. ASSUME NEW r \in Rings PROVE NoLapIn(r)'
  <2>1. NoLapIn(r)
    BY DEF NoLap
  <2>2. QED BY <2>1, NoLapInKept
<1>2. QED BY <1>1 DEF NoLap

(* The same for what is taken.                                             *)
LEMMA TakenKept ==
  ASSUME TypeOK, TakenFree,
         \A c \in Ctx : pc'[c] \in Taken =>
           /\ pc[c] \in Taken /\ idx'[c] = idx[c] /\ Ring(c)' = Ring(c)
           /\ pc'[c] = "mark" => pc[c] = "mark",
         \A r \in Rings, i \in Index :
           \/ buf'[r][i] = buf[r][i] \/ buf'[r][i] = "st_free"
           \/ \E c \in Ctx : pc[c] = "mark" /\ pc'[c] # "mark" /\ Ring(c) = r /\ idx[c] = i
  PROVE  TakenFree'
<1>1. \A c \in Ctx : Ring(c) \in Rings /\ idx[c] \in Index
  BY RingType DEF TypeOK
<1>2. ASSUME NEW c \in Ctx, pc'[c] = "mark" PROVE buf'[Ring(c)'][idx'[c]] = "st_free"
  <2>1. /\ pc[c] = "mark" /\ idx'[c] = idx[c] /\ Ring(c)' = Ring(c)
        /\ Ring(c) \in Rings /\ idx[c] \in Index
    BY <1>1, <1>2 DEF Taken
  <2>2. buf[Ring(c)][idx[c]] = "st_free"
    BY <2>1 DEF TakenFree
  <2>3. ~ \E d \in Ctx : pc[d] = "mark" /\ pc'[d] # "mark" /\ Ring(d) = Ring(c) /\ idx[d] = idx[c]
    BY <1>2, <2>1 DEF TakenFree, Taken
  <2>4. QED BY <2>1, <2>2, <2>3
<1>3. ASSUME NEW c \in Ctx, NEW d \in Ctx, pc'[c] \in Taken, pc'[d] \in Taken,
             Ring(c)' = Ring(d)', idx'[c] = idx'[d]
      PROVE  c = d
  BY <1>3 DEF TakenFree
<1>4. QED BY <1>2, <1>3 DEF TakenFree

(* Leaving a submit function ends a turn that has been counted.            *)
LEMMA ReturnTurns ==
  ASSUME TypeOK, Paced, NEW c \in Ctx, pc[c] \in Taken, return(c)
  PROVE  /\ \A r \in Rings : ToSpawn(r)' = ToSpawn(r) /\ Turn(r)' = Turn(r)
         /\ Spawning' => Spawning /\ spawned' < InFlight(sdir)'
         /\ ~Starting'
         /\ \A d \in Ctx : pc'[d] \in Taken =>
              d # c /\ pc'[d] = pc[d] /\ idx'[d] = idx[d] /\ Ring(d)' = Ring(d)
         /\ \A r \in Rings : pc'[r] = "idle" \/ pc'[r] = pc[r]
<1>1. CASE c = "setup" /\ spawn_next
  <2>1. /\ spawned \in Nat /\ spawned < InFlight(sdir) /\ sdir \in Rings
        /\ \A r \in Rings : InFlight(r) \in Nat \ {0} /\ pc'[r] = pc[r]
        /\ Spawning /\ ~Starting /\ pc["setup"] # "take" /\ pc["setup"] # "idle"
    BY <1>1, RingsFacts, ConstantsOK
       DEF Paced, Spawning, Starting, Taken, Owning, TypeOK, spawn_next, Ctx
  <2>2. \A r \in Rings : Turn(r)' = Turn(r) /\ InFlight(r)' = InFlight(r)
    BY <2>1 DEF Turn, InFlight
  <2>3. \A r \in Rings : ToSpawn(r) =
          IF r # sdir THEN (IF sdir = LastRing THEN 0 ELSE InFlight(r))
                      ELSE InFlight(r) - spawned - 1
    BY <2>1 DEF ToSpawn
  <2>4. \A d \in Ctx \ {c} :
          pc'[d] = pc[d] /\ idx'[d] = idx[d] /\ Ring(d)' = Ring(d)
    BY ReturnEffect
  <2>5. CASE spawned + 1 < InFlight(sdir)
    <3>1. pc'["setup"] = "take" /\ spawned' = spawned + 1 /\ sdir' = sdir
      BY <1>1, <2>5, <2>1 DEF spawn_next, TypeOK, Ctx
    <3>2. \A r \in Rings : ToSpawn(r)' =
            IF r # sdir THEN (IF sdir = LastRing THEN 0 ELSE InFlight(r))
                        ELSE InFlight(r) - (spawned + 1) - 0
      BY <3>1 DEF ToSpawn, Starting, LastRing, InFlight
    <3>3. \A r \in Rings : ToSpawn(r)' = ToSpawn(r)
      BY <2>1, <2>3, <3>2
    <3>4. spawned' < InFlight(sdir)'
      BY <3>1, <2>5 DEF InFlight
    <3>5. QED BY <1>1, <2>1, <2>2, <2>4, <3>1, <3>3, <3>4 DEF Starting, Taken, Owning
  <2>6. CASE spawned + 1 >= InFlight(sdir) /\ sdir = LastRing
    <3>1. pc'["setup"] = "idle"
      BY <1>1, <2>6, <2>1 DEF spawn_next, TypeOK, Ctx
    <3>2. \A r \in Rings : ToSpawn(r)' = 0
      BY <3>1 DEF ToSpawn, Starting
    <3>3. \A r \in Rings : ToSpawn(r)' = ToSpawn(r)
      BY <2>1, <2>3, <2>6, <3>2
    <3>4. ~Spawning'
      BY <3>1 DEF Spawning, Owning
    <3>5. QED BY <1>1, <2>1, <2>2, <2>4, <3>1, <3>3, <3>4 DEF Starting, Taken, Owning
  <2>7. CASE spawned + 1 >= InFlight(sdir) /\ sdir # LastRing
    <3>1. pc'["setup"] = "take" /\ spawned' = 0 /\ sdir' = LastRing
      BY <1>1, <2>7, <2>1 DEF spawn_next, TypeOK, Ctx
    <3>2. \A r \in Rings : ToSpawn(r)' = IF r # LastRing THEN 0 ELSE InFlight(r) - 0 - 0
      BY <3>1 DEF ToSpawn, Starting, LastRing, InFlight
    <3>3. \A r \in Rings : r # LastRing => r = sdir
      BY <2>1, <2>7, ConstantsOK DEF LastRing
    <3>4. \A r \in Rings : ToSpawn(r)' = ToSpawn(r)
      BY <2>1, <2>3, <2>7, <3>2, <3>3
    <3>5. LastRing \in Rings /\ spawned' < InFlight(sdir)'
      BY <2>1, <3>1, RingsFacts DEF InFlight
    <3>6. QED BY <1>1, <2>1, <2>2, <2>4, <3>1, <3>4, <3>5 DEF Starting, Taken, Owning
  <2>8. QED BY <2>1, <2>5, <2>6, <2>7
<1>2. CASE c # "setup"
  <2>1. /\ c \in Rings /\ pc' = [pc EXCEPT ![c] = "idle"] /\ UNCHANGED <<sdir, spawned>>
        /\ pc'["setup"] = pc["setup"] /\ pc[c] # "take"
    BY <1>2 DEF return, Ctx, TypeOK, Taken, Owning
  <2>2. \A r \in Rings : ToSpawn(r)' = ToSpawn(r) /\ Turn(r)' = Turn(r)
    BY <2>1 DEF ToSpawn, Starting, Turn, TypeOK, Ctx
  <2>3. \A d \in Ctx \ {c} : pc'[d] = pc[d] /\ idx'[d] = idx[d] /\ Ring(d)' = Ring(d)
    BY ReturnEffect
  <2>4. pc'[c] = "idle"
    BY <2>1 DEF TypeOK
  <2>5. Spawning' <=> Spawning
    BY <2>1 DEF Spawning
  <2>6. Spawning => spawned' < InFlight(sdir)'
    BY <2>1 DEF Paced, InFlight
  <2>7. \A r \in Rings : pc'[r] = "idle" \/ pc'[r] = pc[r]
    BY <2>1 DEF TypeOK, Ctx
  <2>8. ~Starting'
    BY <2>1 DEF Paced, Starting, Taken, Owning, TypeOK
  <2>9. QED BY <2>1, <2>2, <2>3, <2>4, <2>5, <2>6, <2>7, <2>8 DEF Taken, Owning, TypeOK
<1>3. QED BY <1>1, <1>2 DEF return

-----------------------------------------------------------------------------
(* The steps, one by one.                                                  *)

(* The worker before it spawns.                                            *)
LEMMA AheadStages ==
  ASSUME LapInv, TypeOK', setup_start \/ setup_init_restart \/ setup_stages \/ setup_ok
  PROVE  Ahead'
<1> USE DEF devVars, ringVars, seqVars
<1>1. TypeOK /\ Paced /\ Plugged /\ NoLap /\ TakenFree /\ NeverInconsistent
  BY DEF LapInv, IInv, Ahead
<1>2. /\ Starting /\ \A r \in Rings : pc'[r] = pc[r]
      /\ UNCHANGED <<present, del, buf, inconsistent, submit, flight, idx>>
  <2>1. Starting /\ UNCHANGED <<present, del, buf, inconsistent, submit, flight, idx>>
    BY DEF setup_start, setup_init_restart, setup_stages, setup_ok, Starting
  <2>2. \E q : pc' = [pc EXCEPT !["setup"] = q]
    BY DEF setup_start, setup_init_restart, setup_stages, setup_ok
  <2>3. QED BY <1>1, <2>1, <2>2, RingsFacts DEF TypeOK
<1>3. \A r \in Rings : buf[r] = AllFree /\ flight[r] = <<>> /\ pc[r] = "idle"
  BY <1>1, <1>2 DEF Paced
<1>4. \/ pc'["setup"] \in {"init", "final", "ok"} /\ Starting'
      \/ pc'["setup"] = "idle"
      \/ pc'["setup"] = "take" /\ sdir' = FirstRing /\ spawned' = 0 /\ state' = "OK"
  BY <1>1 DEF setup_start, setup_init_restart, setup_stages, setup_ok, Starting, TypeOK, Ctx
<1>5. \A r \in Rings : InFlight(r) \in Nat \ {0} /\ InFlight(r)' = InFlight(r)
  BY RingsFacts, ConstantsOK DEF InFlight
<1>6. \A r \in Rings : ToSpawn(r) = InFlight(r) /\ Turn(r) = 0 /\ Turn(r)' = 0
  BY <1>2, <1>3 DEF ToSpawn, Turn
<1>7. \A r \in Rings : ToSpawn(r)' \in {0, InFlight(r)}
  <2>1. CASE Starting' \/ pc'["setup"] = "idle"
    BY <1>5, <2>1 DEF ToSpawn
  <2>2. CASE pc'["setup"] = "take" /\ sdir' = FirstRing /\ spawned' = 0
    BY <1>5, <2>2 DEF ToSpawn, Starting, InFlight
  <2>3. QED BY <1>4, <2>1, <2>2
<1>8. \A c \in Ctx : pc'[c] \notin Taken
  BY <1>2, <1>3, <1>4 DEF Taken, Owning, Starting, Ctx
<1>9. Paced'
  <2>1. \A r \in Rings : buf'[r] = AllFree /\ flight'[r] = <<>> /\ pc'[r] = "idle"
    BY <1>2, <1>3
  <2>2. FirstRing \in Rings
    BY RingsFacts
  <2>3. Spawning' => spawned' = 0 /\ sdir' = FirstRing
    BY <1>4 DEF Spawning, Starting, Owning
  <2>4. Spawning' => spawned' < InFlight(sdir)'
    BY <1>5, <2>2, <2>3 DEF InFlight
  <2>5. QED BY <2>1, <2>4 DEF Paced
<1>10. Plugged'
  <2>1. \A r \in Rings, i \in Index : buf'[r][i] # "st_subm"
    BY <1>2, <1>3 DEF AllFree
  <2>2. Spawning' => state' = "OK"
    BY <1>4 DEF Spawning, Starting, Owning
  <2>3. QED BY <1>1, <1>2, <1>3, <2>1, <2>2 DEF Plugged
<1>11. NoLap'
  <2>1. \A r \in Rings : /\ ToSpawn(r)' \in Nat /\ Turn(r)' \in Nat
                         /\ ToSpawn(r)' + Turn(r)' <= ToSpawn(r) + Turn(r)
    BY <1>5, <1>6, <1>7
  <2>2. \A c \in Ctx, r \in Rings : ~Working(c, r)'
    BY <1>8 DEF Working
  <2>3. QED BY <1>1, <1>2, <1>9, <2>1, <2>2, NoLapKept
<1>12. TakenFree'
  BY <1>8 DEF TakenFree, Taken
<1>13. NeverInconsistent'
  BY <1>1, <1>2 DEF NeverInconsistent
<1>14. QED BY <1>9, <1>10, <1>11, <1>12, <1>13 DEF Ahead

(* Claiming the buffer that was taken, filling and anchoring it, and the   *)
(* worker's look at the state.                                             *)
LEMMA AheadWork ==
  ASSUME LapInv, TypeOK', NEW c \in Ctx,
         \/ submit_claim(c) \/ fill_load(c) \/ fill_store(c) \/ submit_anchor(c)
         \/ c = "setup" /\ submit_check_state /\ pc'[c] = "submit"
  PROVE  Ahead'
<1> USE DEF devVars, ringVars, seqVars
<1>1. TypeOK /\ Paced /\ Plugged /\ NoLap /\ TakenFree /\ NeverInconsistent
  BY DEF LapInv, IInv, Ahead
<1>2. /\ pc[c] \in Taken /\ pc'[c] \in Owning /\ \A d \in Ctx \ {c} : pc'[d] = pc[d]
      /\ UNCHANGED <<state, present, del, inconsistent, submit, flight, idx, sdir, spawned>>
  <2>1. CASE submit_claim(c) \/ fill_load(c) \/ fill_store(c) \/ submit_anchor(c)
    BY <1>1, <2>1 DEF submit_claim, fill_load, fill_store, submit_anchor, Taken, Owning, TypeOK
  <2>2. CASE c = "setup" /\ submit_check_state /\ pc'[c] = "submit"
    <3>1. ~spawn_next
      BY <1>1, <2>2 DEF spawn_next, TypeOK
    <3>2. QED BY <1>1, <2>2, <3>1 DEF submit_check_state, Taken, Owning, TypeOK
  <2>3. QED BY <2>1, <2>2
<1>3. \/ UNCHANGED buf /\ pc[c] \in Owning
      \/ pc[c] = "mark" /\ buf' = [buf EXCEPT ![Ring(c)][idx[c]] = "st_subm"]
  BY DEF submit_claim, fill_load, fill_store, submit_anchor, submit_check_state, Owning
<1>4. /\ Ring(c) \in Rings /\ idx[c] \in Index
      /\ \A d \in Ctx : Ring(d)' = Ring(d)
      /\ \A d \in Ctx : pc'[d] \in Taken <=> pc[d] \in Taken
      /\ \A r \in Rings, i \in Index :
           \/ buf'[r][i] = buf[r][i]
           \/ pc[c] = "mark" /\ r = Ring(c) /\ i = idx[c]
  <2>1. Ring(c) \in Rings /\ idx[c] \in Index /\ \A d \in Ctx : Ring(d)' = Ring(d)
    BY <1>1, <1>2, RingType DEF Ring, TypeOK
  <2>2. \A d \in Ctx : pc'[d] \in Taken <=> pc[d] \in Taken
    BY <1>2 DEF Taken
  <2>3. \A r \in Rings, i \in Index :
          \/ buf'[r][i] = buf[r][i]
          \/ pc[c] = "mark" /\ r = Ring(c) /\ i = idx[c]
    <3>1. CASE UNCHANGED buf
      BY <3>1
    <3>2. CASE pc[c] = "mark" /\ buf' = [buf EXCEPT ![Ring(c)][idx[c]] = "st_subm"]
      BY <1>1, <2>1, <3>2 DEF TypeOK
    <3>3. QED BY <1>3, <3>1, <3>2
  <2>4. QED BY <2>1, <2>2, <2>3
<1>5. \A r \in Rings : ToSpawn(r)' = ToSpawn(r) /\ Turn(r)' = Turn(r)
  BY <1>2 DEF ToSpawn, Turn, Starting, Taken, Owning, Ctx, InFlight, LastRing
<1>6. Starting' <=> Starting
  BY <1>2 DEF Starting, Taken, Owning, Ctx
<1>7. Spawning' <=> Spawning
  BY <1>2 DEF Spawning, Taken, Owning, Ctx
<1>8. \A r \in Rings : pc'[r] = "idle" <=> pc[r] = "idle"
  BY <1>2 DEF Taken, Owning, Ctx
<1>9. Starting => c \notin Rings /\ c # "setup"
  BY <1>1, <1>2 DEF Paced, Starting, Taken, Owning
<1>10. Paced'
  <2>1. ~Starting
    BY <1>9 DEF Ctx
  <2>2. QED BY <1>1, <1>2, <1>6, <1>7, <1>8, <2>1 DEF Paced, InFlight
<1>11. Plugged'
  <2>1. \A d \in Ctx, r \in Rings, i \in Index : Owns(d, r, i) => Owns(d, r, i)'
    BY <1>2, <1>4 DEF Owns
  <2>2. \A r \in Rings, i \in Index : buf'[r][i] = "st_subm" =>
          buf[r][i] = "st_subm" \/ (r = Ring(c) /\ i = idx[c])
    BY <1>4
  <2>3. \A r \in Rings, i \in Index : r = Ring(c) /\ i = idx[c] => Owns(c, r, i)'
    BY <1>2, <1>4 DEF Owns
  <2>4. \A r \in Rings : OnWire(r)' = OnWire(r)
    BY <1>2 DEF OnWire
  <2>5. ASSUME present
        PROVE \A r \in Rings, i \in Index : buf'[r][i] = "st_subm" =>
                i \in OnWire(r)' \/ \E d \in Ctx : Owns(d, r, i)'
    <3>1. TAKE r \in Rings, i \in Index
    <3>2. HAVE buf'[r][i] = "st_subm"
    <3>3. CASE buf[r][i] = "st_subm"
      <4>1. i \in OnWire(r) \/ \E d \in Ctx : Owns(d, r, i)
        BY <1>1, <2>5, <3>3 DEF Plugged
      <4>2. ASSUME NEW d \in Ctx, Owns(d, r, i) PROVE Owns(d, r, i)'
        BY <2>1, <4>2
      <4>3. i \in OnWire(r) => i \in OnWire(r)'
        BY <2>4
      <4>4. QED BY <4>1, <4>2, <4>3
    <3>4. CASE r = Ring(c) /\ i = idx[c]
      BY <2>3, <3>4
    <3>5. QED BY <2>2, <3>2, <3>3, <3>4
  <2>6. QED BY <1>1, <1>2, <1>7, <1>8, <2>5 DEF Plugged
<1>12. \A r \in Rings, i \in Index : buf'[r][i] = "st_subm" =>
         buf[r][i] = "st_subm" \/ \E d \in Ctx : Working(d, r) /\ idx[d] = i
  <2>1. Working(c, Ring(c))
    BY <1>2 DEF Working
  <2>2. QED BY <1>4, <2>1
<1>13. NoLap'
  <2>1. \A d \in Ctx, r \in Rings : Working(d, r)' => Working(d, r) /\ idx'[d] = idx[d]
    BY <1>2, <1>4 DEF Working
  <2>2. \A r \in Rings : /\ ToSpawn(r)' \in Nat /\ Turn(r)' \in Nat
                         /\ ToSpawn(r)' + Turn(r)' <= ToSpawn(r) + Turn(r)
    BY <1>1, <1>5, Counts
  <2>3. QED BY <1>1, <1>2, <1>10, <1>12, <2>1, <2>2, NoLapKept
<1>14. TakenFree'
  <2>1. \A d \in Ctx : pc'[d] \in Taken =>
          /\ pc[d] \in Taken /\ idx'[d] = idx[d] /\ Ring(d)' = Ring(d)
          /\ pc'[d] = "mark" => pc[d] = "mark"
    BY <1>2, <1>4 DEF Owning
  <2>2. \A r \in Rings, i \in Index :
          \/ buf'[r][i] = buf[r][i] \/ buf'[r][i] = "st_free"
          \/ \E d \in Ctx : pc[d] = "mark" /\ pc'[d] # "mark" /\ Ring(d) = r /\ idx[d] = i
    BY <1>2, <1>4 DEF Owning
  <2>3. QED BY <1>1, <2>1, <2>2, TakenKept
<1>15. NeverInconsistent'
  BY <1>1, <1>2 DEF NeverInconsistent
<1>16. QED BY <1>10, <1>11, <1>13, <1>14, <1>15 DEF Ahead

(* Leaving a submit function without an URB on the wire: the buffer is     *)
(* free again, or the board has gone.                                      *)
LEMMA AheadLeave ==
  ASSUME LapInv, TypeOK', NEW c \in Ctx, pc[c] \in Owning, return(c),
         UNCHANGED <<state, present, del, inconsistent, submit, flight>>,
         \/ buf' = [buf EXCEPT ![Ring(c)][idx[c]] = "st_free"]
         \/ UNCHANGED buf /\ ~present
  PROVE  Ahead'
<1>1. TypeOK /\ Paced /\ Plugged /\ NoLap /\ TakenFree /\ NeverInconsistent
  BY DEF LapInv, IInv, Ahead
<1>2. pc[c] \in Taken /\ Ring(c) \in Rings /\ idx[c] \in Index
  BY <1>1, RingType DEF Taken, TypeOK
<1>3. /\ \A r \in Rings : ToSpawn(r)' = ToSpawn(r) /\ Turn(r)' = Turn(r)
      /\ Spawning' => Spawning /\ spawned' < InFlight(sdir)'
      /\ ~Starting'
      /\ \A d \in Ctx : pc'[d] \in Taken =>
           d # c /\ pc'[d] = pc[d] /\ idx'[d] = idx[d] /\ Ring(d)' = Ring(d)
      /\ \A r \in Rings : pc'[r] = "idle" \/ pc'[r] = pc[r]
  BY <1>1, <1>2, ReturnTurns
<1>4. \A r \in Rings, i \in Index :
        \/ buf'[r][i] = buf[r][i] /\ (present => r # Ring(c) \/ i # idx[c])
        \/ buf'[r][i] = buf[r][i] /\ ~present
        \/ buf'[r][i] = "st_free"
  <2>1. CASE buf' = [buf EXCEPT ![Ring(c)][idx[c]] = "st_free"]
    BY <1>1, <1>2, <2>1 DEF TypeOK
  <2>2. CASE UNCHANGED buf /\ ~present
    BY <2>2
  <2>3. QED BY <2>1, <2>2
<1>5. Paced'
  BY <1>1, <1>3 DEF Paced
<1>6. Plugged'
  <2>1. \A r \in Rings : OnWire(r)' = OnWire(r)
    BY DEF OnWire
  <2>2. ASSUME present, NEW r \in Rings, NEW i \in Index, buf'[r][i] = "st_subm"
        PROVE  i \in OnWire(r)' \/ \E d \in Ctx : Owns(d, r, i)'
    <3>1. buf[r][i] = "st_subm" /\ (r # Ring(c) \/ i # idx[c])
      BY <1>4, <2>2
    <3>2. i \in OnWire(r) \/ \E d \in Ctx : Owns(d, r, i)
      BY <1>1, <2>2, <3>1 DEF Plugged
    <3>3. ASSUME NEW d \in Ctx, Owns(d, r, i) PROVE Owns(d, r, i)'
      <4>1. d # c /\ pc[d] \in Owning /\ Ring(d) = r /\ idx[d] = i
        BY <3>1, <3>3 DEF Owns
      <4>2. pc'[d] = pc[d] /\ idx'[d] = idx[d] /\ Ring(d)' = Ring(d)
        BY <1>1, <4>1, ReturnEffect
      <4>3. QED BY <4>1, <4>2 DEF Owns
    <3>4. QED BY <2>1, <3>2, <3>3
  <2>3. present =>
          /\ del = "none"
          /\ Spawning \/ (\E r \in Rings : pc[r] # "idle" \/ flight[r] # <<>>) => state = "OK"
    BY <1>1 DEF Plugged
  <2>4. Spawning' \/ (\E r \in Rings : pc'[r] # "idle" \/ flight'[r] # <<>>) =>
          Spawning \/ (\E r \in Rings : pc[r] # "idle" \/ flight[r] # <<>>)
    BY <1>3
  <2>5. QED BY <2>2, <2>3, <2>4 DEF Plugged
<1>7. NoLap'
  <2>1. \A d \in Ctx, r \in Rings : Working(d, r)' => Working(d, r) /\ idx'[d] = idx[d]
    BY <1>3 DEF Working
  <2>2. \A r \in Rings : /\ ToSpawn(r)' \in Nat /\ Turn(r)' \in Nat
                         /\ ToSpawn(r)' + Turn(r)' <= ToSpawn(r) + Turn(r)
    BY <1>1, <1>3, Counts
  <2>3. \A r \in Rings, i \in Index : buf'[r][i] = "st_subm" => buf[r][i] = "st_subm"
    BY <1>4
  <2>4. QED BY <1>1, <1>5, <2>1, <2>2, <2>3, NoLapKept
<1>8. TakenFree'
  <2>1. \A d \in Ctx : pc'[d] \in Taken =>
          /\ pc[d] \in Taken /\ idx'[d] = idx[d] /\ Ring(d)' = Ring(d)
          /\ pc'[d] = "mark" => pc[d] = "mark"
    BY <1>3
  <2>2. \A r \in Rings, i \in Index : buf'[r][i] = buf[r][i] \/ buf'[r][i] = "st_free"
    BY <1>4
  <2>3. QED BY <1>1, <2>1, <2>2, TakenKept
<1>9. NeverInconsistent'
  BY <1>1 DEF NeverInconsistent
<1>10. QED BY <1>5, <1>6, <1>7, <1>8, <1>9 DEF Ahead

(* Leaving it with one more URB on the wire.  While the board is there and *)
(* the worker spawns no callback runs, so nobody else is at work in the    *)
(* ring: the URB gets the last place, and its buffer the last turn.        *)
LEMMA AheadHandOver ==
  ASSUME LapInv, TypeOK', NEW c \in Ctx, pc[c] \in {"check", "submit"}, return(c), present,
         UNCHANGED <<state, present, del, buf, inconsistent, submit>>,
         flight' = [flight EXCEPT ![Ring(c)] = Append(@, idx[c])]
  PROVE  Ahead'
<1>1. TypeOK /\ Paced /\ Plugged /\ NoLap /\ TakenFree /\ NeverInconsistent
  BY DEF LapInv, IInv, Ahead
<1>r. PICK r \in Rings : r = Ring(c)
  BY <1>1, RingType
<1>i. PICK i \in Index : i = idx[c]
  BY <1>1 DEF TypeOK
<1>2. /\ pc[c] \in Taken /\ pc[c] \in Owning /\ pc[c] # "idle"
      /\ flight[r] \in Seq(Index) /\ flight' = [flight EXCEPT ![r] = Append(@, i)]
  BY <1>1, <1>r, <1>i DEF Taken, Owning, TypeOK
<1>3. /\ \A q \in Rings : ToSpawn(q)' = ToSpawn(q) /\ Turn(q)' = Turn(q)
      /\ Spawning' => Spawning /\ spawned' < InFlight(sdir)'
      /\ ~Starting'
      /\ \A d \in Ctx : pc'[d] \in Taken =>
           d # c /\ pc'[d] = pc[d] /\ idx'[d] = idx[d] /\ Ring(d)' = Ring(d)
      /\ \A q \in Rings : pc'[q] = "idle" \/ pc'[q] = pc[q]
  BY <1>1, <1>2, ReturnTurns
<1>4. \A q \in Rings : flight'[q] = IF q = r THEN Append(flight[r], i) ELSE flight[q]
  BY <1>1, <1>2 DEF TypeOK
<1>5. \A d \in Ctx : Working(d, r) => d = c
  <2>1. \A d \in Ctx : Working(d, r) => d = "setup" \/ d = r
    BY DEF Working, Ring
  <2>2. c = "setup" \/ c = r
    BY <1>r DEF Ring
  <2>3. Spawning => pc[r] = "idle"
    BY <1>1, <1>2 DEF Paced
  <2>4. c = "setup" => Spawning
    BY <1>2 DEF Spawning
  <2>5. Working("setup", r) => Spawning
    BY DEF Working, Taken, Spawning
  <2>6. Working(r, r) => pc[r] # "idle"
    BY DEF Working, Taken, Owning
  <2>7. QED BY <1>2, <2>1, <2>2, <2>3, <2>4, <2>5, <2>6
<1>6. /\ \A n \in 1 .. Len(flight[r]) : flight'[r][n] = flight[r][n] /\ flight[r][n] \in Index
      /\ Len(flight'[r]) = Len(flight[r]) + 1 /\ flight'[r][Len(flight[r]) + 1] = i
      /\ Len(flight[r]) \in Nat
  <2>1. flight'[r] = Append(flight[r], i)
    BY <1>4
  <2>2. PICK s \in Seq(Index) : s = flight[r]
    BY <1>2
  <2>3. /\ \A n \in 1 .. Len(s) : Append(s, i)[n] = s[n] /\ s[n] \in Index
        /\ Len(Append(s, i)) = Len(s) + 1 /\ Append(s, i)[Len(s) + 1] = i
        /\ Len(s) \in Nat
    OBVIOUS
  <2>4. QED BY <2>1, <2>2, <2>3
<1>7. \A q \in Rings : OnWire(q) \subseteq OnWire(q)'
  <2>1. \A q \in Rings : q # r => OnWire(q)' = OnWire(q)
    BY <1>4 DEF OnWire
  <2>2. OnWire(r) \subseteq OnWire(r)'
    BY <1>6 DEF OnWire
  <2>3. QED BY <2>1, <2>2
<1>8. i \in OnWire(r)'
  BY <1>6 DEF OnWire
<1>9. Paced'
  BY <1>1, <1>3 DEF Paced
<1>10. Plugged'
  <2>1. ASSUME NEW q \in Rings, NEW j \in Index, buf'[q][j] = "st_subm"
        PROVE  j \in OnWire(q)' \/ \E d \in Ctx : Owns(d, q, j)'
    <3>1. j \in OnWire(q) \/ \E d \in Ctx : Owns(d, q, j)
      BY <1>1, <2>1 DEF Plugged
    <3>2. CASE q = r /\ j = i
      BY <1>8, <3>2
    <3>3. ASSUME NEW d \in Ctx, Owns(d, q, j), q # r \/ j # i PROVE Owns(d, q, j)'
      <4>1. d # c /\ pc[d] \in Owning /\ Ring(d) = q /\ idx[d] = j
        BY <1>r, <1>i, <3>3 DEF Owns
      <4>2. pc'[d] = pc[d] /\ idx'[d] = idx[d] /\ Ring(d)' = Ring(d)
        BY <1>1, <4>1, ReturnEffect
      <4>3. QED BY <4>1, <4>2 DEF Owns
    <3>4. QED BY <1>7, <3>1, <3>2, <3>3
  <2>2. del = "none" /\ state = "OK"
    <3>1. c = "setup" => Spawning
      BY <1>2 DEF Spawning
    <3>2. c # "setup" => c \in Rings
      BY DEF Ctx
    <3>3. QED BY <1>1, <1>2, <3>1, <3>2 DEF Plugged
  <2>3. QED BY <2>1, <2>2 DEF Plugged
<1>11. NoLap'
  <2>1. ASSUME NEW q \in Rings, q # r PROVE NoLapIn(q)'
    <3>1. NoLapIn(q) /\ flight'[q] = flight[q] /\ submit'[q] = submit[q]
      BY <1>1, <1>4, <2>1 DEF NoLap
    <3>2. /\ ToSpawn(q)' \in Nat /\ Turn(q)' \in Nat
          /\ ToSpawn(q)' + Turn(q)' <= ToSpawn(q) + Turn(q)
      BY <1>1, <1>3, Counts
    <3>3. \A d \in Ctx : Working(d, q)' => Working(d, q) /\ idx'[d] = idx[d]
      BY <1>3 DEF Working
    <3>4. \A j \in Index : buf'[q][j] = "st_subm" => buf[q][j] = "st_subm"
      OBVIOUS
    <3>5. QED BY <1>1, <3>1, <3>2, <3>3, <3>4, NoLapInKept
  <2>2. NoLapIn(r)'
    <3>1. /\ ToSpawn(r) \in Nat /\ Turn(r) \in Nat /\ InFlight(r) \in Nat
          /\ Due(r) = ToSpawn(r) + Turn(r) + Len(flight[r])
          /\ \A d \in Ctx : Hands(d, r) \in {0, 1}
      BY <1>1, <1>2, Counts
    <3>2. Due(r)' = Due(r) + 1
      <4>1. ToSpawn(r)' = ToSpawn(r) /\ Turn(r)' = Turn(r) /\ Len(flight'[r]) = Len(flight[r]) + 1
        BY <1>2, <1>3, <1>6
      <4>2. Due(r)' = ToSpawn(r)' + Turn(r)' + Len(flight'[r])
        BY DEF Due
      <4>3. QED BY <3>1, <4>1, <4>2, <1>6
    <3>3. /\ Due(r) + Hands("setup", r) + Hands(r, r) <= InFlight(r)
          /\ \A n \in 1 .. Len(flight[r]) : Distance(r, flight[r][n]) >= n - 1 + ToSpawn(r) + Turn(r)
          /\ Distance(r, i) >= Due(r)
      BY <1>1, <1>2, <1>r, <1>i DEF NoLap, NoLapIn, Working
    <3>4. \A d \in Ctx : ~Working(d, r)'
      BY <1>3, <1>5 DEF Working
    <3>5. Due(r)' + Hands("setup", r)' + Hands(r, r)' <= InFlight(r)'
      <4>1. Hands("setup", r)' = 0 /\ Hands(r, r)' = 0
        BY <3>4 DEF Hands, Ctx
      <4>2. Hands("setup", r) = 1 \/ Hands(r, r) = 1
        BY <1>2, <1>r DEF Hands, Working, Ring
      <4>3. Hands("setup", r) \in {0, 1} /\ Hands(r, r) \in {0, 1} /\ Due(r) \in Nat
        BY <3>1, <1>1, Counts DEF Hands
      <4>4. InFlight(r)' = InFlight(r)
        BY DEF InFlight
      <4>5. QED BY <3>1, <3>2, <3>3, <4>1, <4>2, <4>3, <4>4
    <3>6. \A n \in 1 .. Len(flight'[r]) :
            Distance(r, flight[r][n])' >= n - 1 + ToSpawn(r)' + Turn(r)'
      <4> TAKE n \in 1 .. Len(flight'[r])
      <4>1. PICK j \in Index : j = flight'[r][n] /\ (n <= Len(flight[r]) => j = flight[r][n])
                                /\ (n = Len(flight[r]) + 1 => j = i)
        BY <1>6
      <4>2. Distance(r, flight[r][n])' = Distance(r, j)
        BY <4>1 DEF Distance
      <4>3. Distance(r, j) >= n - 1 + ToSpawn(r) + Turn(r)
        <5>1. CASE n <= Len(flight[r])
          BY <1>6, <3>3, <4>1, <5>1
        <5>2. CASE n = Len(flight[r]) + 1
          BY <1>6, <3>1, <3>3, <4>1, <5>2
        <5>3. QED BY <1>6, <5>1, <5>2
      <4>4. QED BY <1>3, <4>2, <4>3
    <3>7. \A j \in Index : buf'[r][j] = "st_subm" => j \in OnWire(r)'
      <4> SUFFICES ASSUME NEW j \in Index, buf[r][j] = "st_subm" PROVE j \in OnWire(r)'
        OBVIOUS
      <4>1. j \in OnWire(r) \/ \E d \in Ctx : Owns(d, r, j)
        BY <1>1 DEF Plugged
      <4>2. ASSUME NEW d \in Ctx, Owns(d, r, j) PROVE j = i
        BY <1>5, <1>i, <4>2 DEF Owns, Working, Taken
      <4>3. QED BY <1>7, <1>8, <4>1, <4>2
    <3>8. QED BY <3>4, <3>5, <3>6, <3>7 DEF NoLapIn
  <2>3. QED BY <2>1, <2>2 DEF NoLap
<1>12. TakenFree'
  <2>1. \A d \in Ctx : pc'[d] \in Taken =>
          /\ pc[d] \in Taken /\ idx'[d] = idx[d] /\ Ring(d)' = Ring(d)
          /\ pc'[d] = "mark" => pc[d] = "mark"
    BY <1>3
  <2>2. QED BY <1>1, <2>1, TakenKept
<1>13. NeverInconsistent'
  BY <1>1 DEF NeverInconsistent
<1>14. QED BY <1>9, <1>10, <1>11, <1>12, <1>13 DEF Ahead

(* The successor in the ring, without the remainder.                       *)
LEMMA NextIndex ==
  ASSUME NEW m \in Nat \ {0}, NEW i \in 0 .. m - 1
  PROVE  (i + 1) % m = IF i + 1 = m THEN 0 ELSE i + 1
<1>1. i + 1 = m * ((i + 1) \div m) + ((i + 1) % m) /\ (i + 1) \div m \in Nat
      /\ (i + 1) % m \in 0 .. m - 1
  BY SMT
<1> DEFINE q == (i + 1) \div m
           s == (i + 1) % m
<1> HIDE DEF q, s
<1>2. q \in Nat /\ s \in 0 .. m - 1 /\ i + 1 = m * q + s
  BY <1>1 DEF q, s
<1>3. CASE q = 0
  BY <1>2, <1>3 DEF s
<1>4. CASE q = 1
  BY <1>2, <1>4 DEF s
<1>5. CASE q > 1
  <2>1. m * q >= m * 2
    BY <1>2, <1>5
  <2>2. m * q \in Nat
    BY <1>2
  <2>3. QED BY <1>2, <2>1, <2>2
<1>6. QED BY <1>2, <1>3, <1>4, <1>5

(* When the ring turns everything comes one nearer, but what is taken.     *)
LEMMA Turned ==
  ASSUME TypeOK, TypeOK', NEW r \in Rings, submit'[r] = (submit[r] + 1) % MaxUrb, NEW j \in Index
  PROVE  /\ Distance(r, j) \in Nat /\ (Distance(r, j) = 0 <=> j = submit[r])
         /\ Distance(r, j)' = IF j = submit[r] THEN MaxUrb - 1 ELSE Distance(r, j) - 1
<1>1. MaxUrb \in Nat \ {0} /\ submit[r] \in 0 .. MaxUrb - 1 /\ j \in 0 .. MaxUrb - 1
  BY ConstantsOK DEF TypeOK, Index
<1>2. submit'[r] = IF submit[r] + 1 = MaxUrb THEN 0 ELSE submit[r] + 1
  BY <1>1, NextIndex
<1>3. PICK a \in 0 .. MaxUrb - 1, b \in 0 .. MaxUrb - 1 :
        a = submit[r] /\ b = submit'[r] /\ b = IF a + 1 = MaxUrb THEN 0 ELSE a + 1
  BY <1>1, <1>2
<1>4. Distance(r, j) = IF j >= a THEN j - a ELSE j - a + MaxUrb
  BY <1>3 DEF Distance
<1>5. Distance(r, j)' = IF j >= b THEN j - b ELSE j - b + MaxUrb
  BY <1>3 DEF Distance
<1>6. a + 1 = MaxUrb => b = 0
  BY <1>3
<1>7. a + 1 # MaxUrb => b = a + 1
  BY <1>3
<1>8. QED BY <1>1, <1>3, <1>4, <1>5, <1>6, <1>7

(* Taking the next buffer: what is in use is further away than the turns   *)
(* that are due, and this one is due.                                      *)
LEMMA AheadTake ==
  ASSUME LapInv, TypeOK', NEW c \in Ctx, submit_take(c)
  PROVE  Ahead'
<1> USE DEF devVars, ringVars, seqVars
<1>1. TypeOK /\ Paced /\ Plugged /\ NoLap /\ TakenFree /\ NeverInconsistent
  BY DEF LapInv, IInv, Ahead
<1>r. PICK r \in Rings : r = Ring(c)
  BY <1>1, RingType
<1>i. PICK i \in Index : i = submit[r]
  BY <1>1 DEF TypeOK
<1>2. /\ pc[c] = "take" /\ pc'[c] = "mark" /\ idx'[c] = i
      /\ submit'[r] = (submit[r] + 1) % MaxUrb
      /\ \A q \in Rings \ {r} : submit'[q] = submit[q]
      /\ \A d \in Ctx \ {c} : pc'[d] = pc[d] /\ idx'[d] = idx[d]
      /\ UNCHANGED <<state, present, del, buf, inconsistent, flight, sdir, spawned>>
  BY <1>1, <1>r, <1>i DEF submit_take, TypeOK
<1>3. \A d \in Ctx : Ring(d)' = Ring(d)
  BY <1>2 DEF Ring
<1>4. /\ Starting' <=> Starting
      /\ Spawning' <=> Spawning
      /\ \A q \in Rings : pc'[q] = "idle" <=> pc[q] = "idle"
  BY <1>2 DEF Starting, Spawning, Owning, Ctx
<1>5. Paced'
  BY <1>1, <1>2, <1>4 DEF Paced, InFlight
<1>6. Plugged'
  <2>1. \A d \in Ctx, q \in Rings, j \in Index : Owns(d, q, j) => Owns(d, q, j)'
    BY <1>2, <1>3 DEF Owns, Owning
  <2>2. \A q \in Rings : OnWire(q)' = OnWire(q)
    BY <1>2 DEF OnWire
  <2>3. ASSUME present, NEW q \in Rings, NEW j \in Index, buf'[q][j] = "st_subm"
        PROVE  j \in OnWire(q)' \/ \E d \in Ctx : Owns(d, q, j)'
    <3>1. j \in OnWire(q) \/ \E d \in Ctx : Owns(d, q, j)
      BY <1>1, <1>2, <2>3 DEF Plugged
    <3>2. QED BY <2>1, <2>2, <3>1
  <2>4. QED BY <1>1, <1>2, <1>4, <2>3 DEF Plugged
<1>7. /\ ToSpawn(r)' + Turn(r)' = ToSpawn(r) + Turn(r) - 1
      /\ ToSpawn(r)' \in Nat /\ Turn(r)' \in Nat
      /\ \A q \in Rings \ {r} : ToSpawn(q)' = ToSpawn(q) /\ Turn(q)' = Turn(q)
  <2>1. \A q \in Rings : /\ InFlight(q) \in Nat \ {0} /\ InFlight(q)' = InFlight(q)
                         /\ ToSpawn(q) \in Nat /\ Turn(q) \in {0, 1}
                         /\ \A d \in Ctx : pc[d] = "take" /\ Ring(d) = q => ToSpawn(q) + Turn(q) >= 1
    <3>1. \A q \in Rings : InFlight(q)' = InFlight(q)
      BY DEF InFlight
    <3>2. QED BY <1>1, <3>1, Counts, RingsFacts, ConstantsOK
  <2>2. CASE c = "setup"
    <3>1. r = sdir /\ pc["setup"] = "take" /\ pc'["setup"] = "mark"
          /\ \A q \in Rings : pc'[q] = pc[q]
      BY <1>2, <1>r, <2>2, RingsFacts DEF Ring, Ctx
    <3>2. \A q \in Rings : Turn(q)' = Turn(q)
      BY <3>1 DEF Turn
    <3>3. \A q \in Rings \ {r} : ToSpawn(q)' = ToSpawn(q)
      BY <1>2, <3>1 DEF ToSpawn, Starting, InFlight, LastRing
    <3>4. ToSpawn(r) = InFlight(r) - spawned - 0 /\ ToSpawn(r)' = InFlight(r) - spawned - 1
      BY <1>2, <3>1 DEF ToSpawn, Starting, InFlight
    <3>5. spawned \in Nat /\ spawned < InFlight(r)
      BY <1>1, <3>1 DEF TypeOK, Paced, Spawning
    <3>6. QED BY <2>1, <3>2, <3>3, <3>4, <3>5
  <2>3. CASE c # "setup"
    <3>1. c = r /\ pc'["setup"] = pc["setup"]
      BY <1>2, <1>r, <2>3 DEF Ring, Ctx
    <3>2. \A q \in Rings : ToSpawn(q)' = ToSpawn(q)
      BY <1>2, <3>1 DEF ToSpawn, Starting, InFlight, LastRing
    <3>3. \A q \in Rings \ {r} : Turn(q)' = Turn(q)
      BY <1>2, <3>1 DEF Turn, Ctx
    <3>4. Turn(r) = 1 /\ Turn(r)' = 0
      BY <1>2, <3>1 DEF Turn
    <3>5. QED BY <2>1, <3>2, <3>3, <3>4
  <2>4. QED BY <2>2, <2>3
<1>8. /\ ToSpawn(r) \in Nat /\ Turn(r) \in Nat /\ Len(flight[r]) \in Nat /\ Due(r) \in Nat
      /\ Due(r) = ToSpawn(r) + Turn(r) + Len(flight[r])
      /\ ToSpawn(r) + Turn(r) >= 1 /\ InFlight(r) \in 1 .. MaxUrb
      /\ MaxUrb \in Nat \ {0}
      /\ \A d \in Ctx : Hands(d, r) \in {0, 1}
  <2>1. /\ ToSpawn(r) \in Nat /\ Turn(r) \in {0, 1} /\ Len(flight[r]) \in Nat /\ Due(r) \in Nat
        /\ Due(r) = ToSpawn(r) + Turn(r) + Len(flight[r])
        /\ InFlight(r) \in 1 .. MaxUrb /\ MaxUrb \in Nat \ {0}
        /\ \A d \in Ctx : Hands(d, r) \in {0, 1}
    BY <1>1, Counts
  <2>2. ToSpawn(r) + Turn(r) >= 1
    BY <1>1, <1>2, <1>r, Counts
  <2>3. QED BY <2>1, <2>2
<1>9. Due(r)' = Due(r) - 1 /\ Due(r)' \in Nat
  <2>1. Due(r)' = ToSpawn(r)' + Turn(r)' + Len(flight[r])
    BY <1>2 DEF Due
  <2>2. /\ ToSpawn(r) \in Nat /\ Turn(r) \in Nat /\ Len(flight[r]) \in Nat
        /\ Due(r) = ToSpawn(r) + Turn(r) + Len(flight[r]) /\ ToSpawn(r) + Turn(r) >= 1
    BY <1>8
  <2>3. ToSpawn(r)' + Turn(r)' = ToSpawn(r) + Turn(r) - 1
    BY <1>7
  <2>4. Due(r)' = (ToSpawn(r) + Turn(r) - 1) + Len(flight[r])
    BY <2>1, <2>3
  <2>5. QED BY <2>2, <2>4
<1>10. /\ Due(r) + Hands("setup", r) + Hands(r, r) <= InFlight(r)
       /\ \A n \in 1 .. Len(flight[r]) : Distance(r, flight[r][n]) >= n - 1 + ToSpawn(r) + Turn(r)
       /\ \A d \in Ctx : Working(d, r) => Distance(r, idx[d]) >= Due(r)
       /\ \A j \in Index : buf[r][j] = "st_subm" /\ j \notin OnWire(r) => Distance(r, j) >= Due(r)
  BY <1>1 DEF NoLap, NoLapIn
<1>11. \A j \in Index : /\ Distance(r, j) \in Nat /\ (Distance(r, j) = 0 <=> j = i)
                        /\ Distance(r, j)' = IF j = i THEN MaxUrb - 1 ELSE Distance(r, j) - 1
  BY <1>1, <1>2, <1>i, Turned
<1>12. \A d \in Ctx \ {c} : Working(d, r)' <=> Working(d, r)
  BY <1>2, <1>3 DEF Working
<1>13. NoLap'
  <2>1. ASSUME NEW q \in Rings, q # r PROVE NoLapIn(q)'
    <3>1. NoLapIn(q) /\ flight'[q] = flight[q] /\ submit'[q] = submit[q]
      BY <1>1, <1>2, <2>1 DEF NoLap
    <3>2. /\ ToSpawn(q)' \in Nat /\ Turn(q)' \in Nat
          /\ ToSpawn(q)' + Turn(q)' <= ToSpawn(q) + Turn(q)
      <4>1. ToSpawn(q)' = ToSpawn(q) /\ Turn(q)' = Turn(q)
        BY <1>7, <2>1
      <4>2. ToSpawn(q) \in Nat /\ Turn(q) \in {0, 1}
        BY <1>1, Counts
      <4>3. QED BY <4>1, <4>2
    <3>3. \A d \in Ctx : Working(d, q)' => Working(d, q) /\ idx'[d] = idx[d]
      BY <1>2, <1>3, <1>r, <2>1 DEF Working
    <3>4. \A j \in Index : buf'[q][j] = "st_subm" => buf[q][j] = "st_subm"
      BY <1>2
    <3>5. QED BY <1>1, <3>1, <3>2, <3>3, <3>4, NoLapInKept
  <2>2. NoLapIn(r)'
    <3>1. Due(r)' + Hands("setup", r)' + Hands(r, r)' <= InFlight(r)'
      <4>1. c = "setup" \/ c = r
        BY <1>r DEF Ring
      <4>2. "setup" \in Ctx /\ r \in Ctx /\ r # "setup"
        BY RingsFacts DEF Ctx
      <4>3. Hands(c, r) = 0 /\ Hands(c, r)' = 1
        BY <1>2, <1>3, <1>r DEF Hands, Working, Taken, Owning
      <4>4. \A d \in Ctx \ {c} : Hands(d, r)' = Hands(d, r)
        BY <1>12 DEF Hands
      <4>5. InFlight(r)' = InFlight(r)
        BY DEF InFlight
      <4>6. CASE c = "setup"
        <5>1. Hands("setup", r) = 0 /\ Hands("setup", r)' = 1 /\ Hands(r, r)' = Hands(r, r)
          BY <4>2, <4>3, <4>4, <4>6
        <5>2. QED BY <1>8, <1>9, <1>10, <4>2, <4>5, <5>1
      <4>7. CASE c = r
        <5>1. Hands(r, r) = 0 /\ Hands(r, r)' = 1 /\ Hands("setup", r)' = Hands("setup", r)
          BY <4>2, <4>3, <4>4, <4>7
        <5>2. QED BY <1>8, <1>9, <1>10, <4>2, <4>5, <5>1
      <4>8. QED BY <4>1, <4>6, <4>7
    <3>2. \A n \in 1 .. Len(flight'[r]) :
            Distance(r, flight[r][n])' >= n - 1 + ToSpawn(r)' + Turn(r)'
      <4> TAKE n \in 1 .. Len(flight'[r])
      <4>1. PICK j \in Index : j = flight[r][n] /\ j = flight'[r][n]
        BY <1>1, <1>2 DEF TypeOK
      <4>2. Distance(r, flight[r][n])' = Distance(r, j)'
        BY <4>1 DEF Distance
      <4>3. n \in Nat \ {0} /\ Distance(r, j) >= n - 1 + ToSpawn(r) + Turn(r)
        BY <1>2, <1>10, <4>1
      <4>4. Distance(r, j)' = Distance(r, j) - 1 /\ Distance(r, j) \in Nat
        BY <1>8, <1>11, <4>3
      <4>5. ToSpawn(r) \in Nat /\ Turn(r) \in Nat
        BY <1>8
      <4>6. QED BY <1>7, <4>2, <4>3, <4>4, <4>5
    <3>3. \A d \in Ctx : Working(d, r)' => Distance(r, idx[d])' >= Due(r)'
      <4> SUFFICES ASSUME NEW d \in Ctx, Working(d, r)' PROVE Distance(r, idx[d])' >= Due(r)'
        OBVIOUS
      <4>1. PICK j \in Index : j = idx'[d]
        BY DEF TypeOK
      <4>2. Distance(r, idx[d])' = Distance(r, j)'
        BY <4>1 DEF Distance
      <4>3. CASE d = c
        <5>1. Distance(r, j)' = MaxUrb - 1
          BY <1>2, <1>11, <4>1, <4>3
        <5>2. Due(r) <= MaxUrb
          <6>1. Hands("setup", r) \in {0, 1} /\ Hands(r, r) \in {0, 1}
            BY DEF Hands
          <6>2. QED BY <1>8, <1>10, <6>1
        <5>3. QED BY <1>8, <1>9, <4>2, <5>1, <5>2
      <4>4. CASE d # c
        <5>1. Working(d, r) /\ j = idx[d]
          BY <1>2, <1>12, <4>1, <4>4
        <5>2. Distance(r, j) >= Due(r)
          BY <1>10, <5>1
        <5>3. QED BY <1>8, <1>9, <1>11, <4>2, <5>2
      <4>5. QED BY <4>3, <4>4
    <3>4. \A j \in Index : buf'[r][j] = "st_subm" /\ j \notin OnWire(r)'
                            => Distance(r, j)' >= Due(r)'
      <4> SUFFICES ASSUME NEW j \in Index, buf'[r][j] = "st_subm", j \notin OnWire(r)'
                   PROVE  Distance(r, j)' >= Due(r)'
        OBVIOUS
      <4>1. Distance(r, j) >= Due(r)
        BY <1>2, <1>10 DEF OnWire
      <4>2. QED BY <1>8, <1>9, <1>11, <4>1
    <3>5. QED BY <3>1, <3>2, <3>3, <3>4 DEF NoLapIn
  <2>3. QED BY <2>1, <2>2 DEF NoLap
<1>14. buf[r][i] = "st_free" /\ \A d \in Ctx : Working(d, r) => idx[d] # i
  <2>1. Distance(r, i) = 0
    BY <1>11
  <2>2. Due(r) >= 1
    BY <1>8
  <2>3. i \notin OnWire(r)
    <3>1. \A n \in 1 .. Len(flight[r]) : Distance(r, flight[r][n]) >= 1
      <4> TAKE n \in 1 .. Len(flight[r])
      <4>1. Distance(r, flight[r][n]) >= n - 1 + ToSpawn(r) + Turn(r) /\ n \in Nat \ {0}
        BY <1>8, <1>10
      <4>2. flight[r][n] \in Index
        BY <1>1 DEF TypeOK
      <4>3. Distance(r, flight[r][n]) \in Nat
        BY <1>11, <4>2
      <4>4. QED BY <1>8, <4>1, <4>3
    <3>2. QED BY <2>1, <3>1 DEF OnWire
  <2>4. buf[r][i] # "st_subm"
    BY <1>8, <1>10, <2>1, <2>2, <2>3
  <2>5. buf[r][i] \in {"st_free", "st_subm"}
    BY <1>1 DEF TypeOK
  <2>6. QED BY <1>8, <1>10, <2>1, <2>2, <2>4, <2>5
<1>15. TakenFree'
  <2>1. ASSUME NEW d \in Ctx, pc'[d] = "mark" PROVE buf'[Ring(d)'][idx'[d]] = "st_free"
    <3>1. CASE d = c
      BY <1>2, <1>3, <1>r, <1>14, <3>1
    <3>2. CASE d # c
      BY <1>1, <1>2, <1>3, <2>1, <3>2 DEF TakenFree
    <3>3. QED BY <3>1, <3>2
  <2>2. ASSUME NEW d \in Ctx, NEW e \in Ctx, pc'[d] \in Taken, pc'[e] \in Taken,
               Ring(d)' = Ring(e)', idx'[d] = idx'[e]
        PROVE  d = e
    <3>1. ASSUME NEW f \in Ctx \ {c}, pc'[f] \in Taken, Ring(f)' = r PROVE idx'[f] # i
      BY <1>2, <1>3, <1>14, <3>1 DEF Working
    <3>2. CASE d = c \/ e = c
      BY <1>2, <1>3, <1>r, <2>2, <3>1, <3>2
    <3>3. CASE d # c /\ e # c
      BY <1>1, <1>2, <1>3, <2>2, <3>3 DEF TakenFree
    <3>4. QED BY <3>2, <3>3
  <2>3. QED BY <2>1, <2>2 DEF TakenFree
<1>16. NeverInconsistent'
  BY <1>1, <1>2 DEF NeverInconsistent
<1>17. QED BY <1>5, <1>6, <1>13, <1>15, <1>16 DEF Ahead

(* A completion: the first turn of those in flight has begun.              *)
LEMMA AheadCbak ==
  ASSUME LapInv, TypeOK', NEW r \in Rings, isoc_cbak(r), ~(Spawning /\ present)
  PROVE  Ahead'
<1> USE DEF devVars, ringVars, seqVars
<1>1. TypeOK /\ Paced /\ Plugged /\ NoLap /\ TakenFree /\ NeverInconsistent /\ Marked /\ Exclusive
  BY DEF LapInv, IInv, Ahead
<1>s. PICK s \in Seq(Index) : s = flight[r]
  BY <1>1 DEF TypeOK
<1>2. pc[r] = "idle" /\ s # <<>>
  BY <1>s DEF isoc_cbak
<1>3. /\ Head(s) = s[1] /\ s[1] \in Index /\ Len(s) \in Nat \ {0}
      /\ Len(Tail(s)) = Len(s) - 1
      /\ \A n \in 1 .. Len(s) - 1 : Tail(s)[n] = s[n + 1] /\ s[n + 1] \in Index
  BY <1>2
<1>i. PICK i \in Index : i = s[1]
  BY <1>3
<1>4. i \in OnWire(r) /\ buf[r][i] = "st_subm"
  <2>1. i \in OnWire(r)
    BY <1>3, <1>i, <1>s DEF OnWire
  <2>2. QED BY <1>1, <2>1 DEF Marked
<1>5. /\ flight' = [flight EXCEPT ![r] = Tail(s)]
      /\ buf' = [buf EXCEPT ![r][i] = "st_free"]
      /\ pc' = [pc EXCEPT ![r] = "take"]
      /\ UNCHANGED <<state, present, del, inconsistent, submit, idx, sdir, spawned>>
  <2>1. Head(flight[r]) = i
    BY <1>s, <1>i, <1>3
  <2>2. QED BY <1>s, <1>4, <2>1 DEF isoc_cbak
<1>6. /\ flight'[r] = Tail(s) /\ \A q \in Rings \ {r} : flight'[q] = flight[q]
      /\ pc'[r] = "take" /\ \A d \in Ctx \ {r} : pc'[d] = pc[d]
      /\ \A d \in Ctx : Ring(d)' = Ring(d)
      /\ pc'["setup"] = pc["setup"]
  BY <1>1, <1>5, RingsFacts DEF TypeOK, Ring, Ctx
<1>7. \A q \in Rings, j \in Index :
        IF q = r /\ j = i THEN buf'[q][j] = "st_free" ELSE buf'[q][j] = buf[q][j]
  BY <1>1, <1>5 DEF TypeOK
<1>8. \A d \in Ctx, q \in Rings : Working(d, q)' <=> Working(d, q)
  BY <1>2, <1>6 DEF Working, Taken, Owning
<1>9. ~Starting /\ ~Starting' /\ (Spawning' <=> Spawning)
  <2>1. ~Starting
    BY <1>1, <1>2, <1>s DEF Paced
  <2>2. QED BY <2>1, <1>6 DEF Starting, Spawning
<1>10. Paced'
  <2>1. ~(Spawning' /\ present')
    BY <1>5, <1>9
  <2>2. QED BY <1>1, <1>5, <1>9, <2>1 DEF Paced, InFlight
<1>11. \A q \in Rings : IF q = r THEN OnWire(q) \subseteq OnWire(q)' \cup {i}
                                 ELSE OnWire(q)' = OnWire(q)
  <2>1. \A q \in Rings \ {r} : OnWire(q)' = OnWire(q)
    BY <1>6 DEF OnWire
  <2>2. OnWire(r) \subseteq OnWire(r)' \cup {i}
    <3> SUFFICES ASSUME NEW n \in 1 .. Len(s) PROVE s[n] \in OnWire(r)' \cup {i}
      BY <1>s DEF OnWire
    <3>1. CASE n = 1
      BY <1>i, <3>1
    <3>2. CASE n # 1
      <4>1. n - 1 \in 1 .. Len(Tail(s)) /\ Tail(s)[n - 1] = s[n]
        BY <1>3, <3>2
      <4>2. QED BY <1>6, <4>1 DEF OnWire
    <3>3. QED BY <3>1, <3>2
  <2>3. QED BY <2>1, <2>2
<1>12. Plugged'
  <2>1. ASSUME present, NEW q \in Rings, NEW j \in Index, buf'[q][j] = "st_subm"
        PROVE  j \in OnWire(q)' \/ \E d \in Ctx : Owns(d, q, j)'
    <3>1. buf[q][j] = "st_subm" /\ (q # r \/ j # i)
      BY <1>7, <2>1
    <3>2. j \in OnWire(q) \/ \E d \in Ctx : Owns(d, q, j)
      BY <1>1, <2>1, <3>1 DEF Plugged
    <3>3. ASSUME NEW d \in Ctx, Owns(d, q, j) PROVE Owns(d, q, j)'
      BY <1>2, <1>5, <1>6, <3>3 DEF Owns, Owning
    <3>4. j \in OnWire(q) => j \in OnWire(q)'
      BY <1>11, <3>1
    <3>5. QED BY <3>2, <3>3, <3>4
  <2>2. present => del = "none" /\ state = "OK"
    BY <1>1, <1>2, <1>s DEF Plugged
  <2>3. QED BY <1>5, <2>1, <2>2 DEF Plugged
<1>13. /\ \A q \in Rings : ToSpawn(q)' = ToSpawn(q) /\ ToSpawn(q) \in Nat
       /\ \A q \in Rings \ {r} : Turn(q)' = Turn(q) /\ Turn(q) \in Nat
       /\ Turn(r) = 0 /\ Turn(r)' = 1
  <2>1. \A q \in Rings : ToSpawn(q)' = ToSpawn(q)
    BY <1>5, <1>6 DEF ToSpawn, Starting, InFlight, LastRing
  <2>2. \A q \in Rings \ {r} : Turn(q)' = Turn(q)
    BY <1>6 DEF Turn, Ctx
  <2>3. Turn(r) = 0 /\ Turn(r)' = 1
    BY <1>2, <1>6 DEF Turn
  <2>4. \A q \in Rings : ToSpawn(q) \in Nat /\ Turn(q) \in {0, 1}
    BY <1>1, Counts
  <2>5. QED BY <2>1, <2>2, <2>3, <2>4
<1>14. NoLap'
  <2>1. ASSUME NEW q \in Rings, q # r PROVE NoLapIn(q)'
    <3>1. NoLapIn(q) /\ flight'[q] = flight[q] /\ submit'[q] = submit[q]
      BY <1>1, <1>5, <1>6, <2>1 DEF NoLap
    <3>2. /\ ToSpawn(q)' \in Nat /\ Turn(q)' \in Nat
          /\ ToSpawn(q)' + Turn(q)' <= ToSpawn(q) + Turn(q)
      BY <1>13, <2>1
    <3>3. \A d \in Ctx : Working(d, q)' => Working(d, q) /\ idx'[d] = idx[d]
      BY <1>5, <1>8
    <3>4. \A j \in Index : buf'[q][j] = "st_subm" => buf[q][j] = "st_subm"
      BY <1>7, <2>1
    <3>5. QED BY <1>1, <3>1, <3>2, <3>3, <3>4, NoLapInKept
  <2>2. NoLapIn(r)'
    <3>1. /\ Due(r) = ToSpawn(r) + Turn(r) + Len(s) /\ Due(r) \in Nat /\ ToSpawn(r) \in Nat
      BY <1>1, <1>s, Counts
    <3>2. Due(r)' = Due(r)
      <4>1. Due(r)' = ToSpawn(r)' + Turn(r)' + Len(flight'[r])
        BY DEF Due
      <4>2. QED BY <1>3, <1>6, <1>13, <3>1, <4>1
    <3>3. /\ Due(r) + Hands("setup", r) + Hands(r, r) <= InFlight(r)
          /\ \A n \in 1 .. Len(s) : Distance(r, s[n]) >= n - 1 + ToSpawn(r) + Turn(r)
          /\ \A d \in Ctx : Working(d, r) => Distance(r, idx[d]) >= Due(r)
          /\ \A j \in Index : buf[r][j] = "st_subm" /\ j \notin OnWire(r) => Distance(r, j) >= Due(r)
      BY <1>1, <1>s DEF NoLap, NoLapIn
    <3>4. \A j \in Index : Distance(r, j)' = Distance(r, j) /\ Distance(r, j) \in Nat
      <4>1. \A j \in Index : Distance(r, j)' = Distance(r, j)
        BY <1>5 DEF Distance
      <4>2. \A j \in Index : Distance(r, j) \in 0 .. MaxUrb - 1
        BY <1>1, Distances
      <4>3. QED BY <4>1, <4>2
    <3>5. Due(r)' + Hands("setup", r)' + Hands(r, r)' <= InFlight(r)'
      <4>1. Hands("setup", r)' = Hands("setup", r) /\ Hands(r, r)' = Hands(r, r)
        BY <1>8 DEF Hands, Ctx
      <4>2. InFlight(r)' = InFlight(r)
        BY DEF InFlight
      <4>3. QED BY <3>2, <3>3, <4>1, <4>2
    <3>6. \A n \in 1 .. Len(flight'[r]) :
            Distance(r, flight[r][n])' >= n - 1 + ToSpawn(r)' + Turn(r)'
      <4> TAKE n \in 1 .. Len(flight'[r])
      <4>1. n \in 1 .. Len(s) - 1 /\ n + 1 \in 1 .. Len(s)
        BY <1>3, <1>6
      <4>2. PICK j \in Index : j = flight'[r][n] /\ j = s[n + 1]
        BY <1>3, <1>6, <4>1
      <4>3. Distance(r, flight[r][n])' = Distance(r, j)'
        BY <4>2 DEF Distance
      <4>4. Distance(r, j) >= (n + 1) - 1 + ToSpawn(r) + Turn(r)
        BY <3>3, <4>1, <4>2
      <4>5. QED BY <1>13, <3>1, <3>4, <4>1, <4>3, <4>4
    <3>7. \A d \in Ctx : Working(d, r)' => Distance(r, idx[d])' >= Due(r)'
      <4> SUFFICES ASSUME NEW d \in Ctx, Working(d, r)' PROVE Distance(r, idx[d])' >= Due(r)'
        OBVIOUS
      <4>1. PICK j \in Index : j = idx[d] /\ j = idx'[d]
        BY <1>1, <1>5 DEF TypeOK
      <4>2. Distance(r, idx[d])' = Distance(r, j)'
        BY <4>1 DEF Distance
      <4>3. Distance(r, j) >= Due(r)
        BY <1>8, <3>3, <4>1
      <4>4. QED BY <3>2, <3>4, <4>2, <4>3
    <3>8. \A j \in Index : buf'[r][j] = "st_subm" /\ j \notin OnWire(r)'
                            => Distance(r, j)' >= Due(r)'
      <4> SUFFICES ASSUME NEW j \in Index, buf'[r][j] = "st_subm", j \notin OnWire(r)'
                   PROVE  Distance(r, j)' >= Due(r)'
        OBVIOUS
      <4>1. j # i /\ buf[r][j] = "st_subm"
        BY <1>7
      <4>2. j \notin OnWire(r)
        BY <1>11, <4>1
      <4>3. QED BY <3>2, <3>3, <3>4, <4>1, <4>2
    <3>9. QED BY <3>5, <3>6, <3>7, <3>8 DEF NoLapIn
  <2>3. QED BY <2>1, <2>2 DEF NoLap
<1>15. TakenFree'
  <2>1. \A d \in Ctx : pc'[d] \in Taken =>
          /\ pc[d] \in Taken /\ idx'[d] = idx[d] /\ Ring(d)' = Ring(d)
          /\ pc'[d] = "mark" => pc[d] = "mark"
    BY <1>5, <1>6 DEF Taken, Owning
  <2>2. \A q \in Rings, j \in Index : buf'[q][j] = buf[q][j] \/ buf'[q][j] = "st_free"
    BY <1>7
  <2>3. QED BY <1>1, <2>1, <2>2, TakenKept
<1>16. NeverInconsistent'
  BY <1>1, <1>5 DEF NeverInconsistent
<1>17. QED BY <1>10, <1>12, <1>14, <1>15, <1>16 DEF Ahead

(* The critical sections of the submit functions, case by case.            *)
LEMMA AheadSubmit ==
  ASSUME LapInv, TypeOK', NEW c \in Ctx,
         isoc_submit(c) \/ (c = "setup" /\ (submit_check_state \/ submit_kernel))
  PROVE  Ahead'
<1> USE DEF devVars, ringVars, seqVars
<1>1. TypeOK /\ Paced /\ Plugged /\ NoLap /\ TakenFree /\ NeverInconsistent
  BY DEF LapInv, IInv, Ahead
<1>2. CASE submit_take(c)
  BY <1>2, AheadTake
<1>3. CASE submit_claim(c) \/ fill_load(c) \/ fill_store(c) \/ submit_anchor(c)
  BY <1>3, AheadWork
<1>4. CASE submit_refuse(c)
  BY <1>1, <1>4 DEF submit_refuse, TakenFree
<1>5. ASSUME pc[c] \in {"check", "submit"}, return(c), usb_submit_urb(Ring(c), idx[c]),
             UNCHANGED <<devVars, inconsistent, submit>>
      PROVE  Ahead'
  <2>1. CASE present /\ flight' = [flight EXCEPT ![Ring(c)] = Append(@, idx[c])] /\ UNCHANGED buf
    BY <1>5, <2>1, AheadHandOver
  <2>2. CASE buf' = [buf EXCEPT ![Ring(c)][idx[c]] = "st_free"] /\ UNCHANGED flight
    <3>1. pc[c] \in Owning
      BY <1>5 DEF Owning
    <3>2. QED BY <1>5, <2>2, <3>1, AheadLeave
  <2>3. QED BY <1>5, <2>1, <2>2 DEF usb_submit_urb
<1>6. ASSUME pc[c] = "check", return(c), state # "OK",
             UNCHANGED <<devVars, inconsistent, submit, buf, flight>>
      PROVE  Ahead'
  <2>1. pc[c] \in Owning /\ (c = "setup" => Spawning) /\ (c # "setup" => c \in Rings)
    BY <1>6 DEF Owning, Spawning, Ctx
  <2>2. ~present
    BY <1>1, <1>6, <2>1 DEF Plugged
  <2>3. QED BY <1>6, <2>1, <2>2, AheadLeave
<1>7. CASE submit_atomic(c)
  <2>1. c = Ring(c) /\ pc[c] = "check" /\ return(c) /\ UNCHANGED <<devVars, inconsistent, submit>>
    BY <1>7 DEF submit_atomic, Ring
  <2>2. CASE state = "OK"
    BY <1>5, <1>7, <2>1, <2>2 DEF submit_atomic
  <2>3. CASE state # "OK"
    BY <1>6, <1>7, <2>1, <2>3 DEF submit_atomic
  <2>4. QED BY <2>2, <2>3
<1>8. CASE c = "setup" /\ submit_check_state
  <2>1. pc[c] = "check" /\ UNCHANGED <<devVars, inconsistent, submit, buf, flight>>
    BY <1>8 DEF submit_check_state
  <2>2. CASE state # "OK" /\ spawn_next
    BY <1>6, <1>8, <2>1, <2>2 DEF return
  <2>3. CASE pc' = [pc EXCEPT !["setup"] = "submit"]
    <3>1. pc'[c] = "submit"
      BY <1>1, <1>8, <2>3 DEF TypeOK
    <3>2. QED BY <1>8, <3>1, AheadWork
  <2>4. QED BY <1>8, <2>2, <2>3 DEF submit_check_state
<1>9. CASE c = "setup" /\ submit_kernel
  <2>1. pc[c] = "submit" /\ UNCHANGED <<devVars, inconsistent, submit>> /\ return(c)
        /\ usb_submit_urb(sdir, idx["setup"]) /\ Ring(c) = sdir
    BY <1>9 DEF submit_kernel, return, Ring
  <2>2. QED BY <1>5, <1>9, <2>1
<1>10. QED BY <1>2, <1>3, <1>4, <1>7, <1>8, <1>9 DEF isoc_submit

(* A plug-in: everything is at rest and every buffer is reset.             *)
LEMMA AheadProbe ==
  ASSUME ResetByProbe, LapInv, TypeOK', probe
  PROVE  Ahead'
<1>1. TypeOK /\ Quiet
  BY DEF LapInv, IInv
<1>2. /\ present' = TRUE /\ del' = "none" /\ state' = "IDLE"
      /\ pc' = [pc EXCEPT !["setup"] = "queued"]
      /\ UNCHANGED <<flight, sdir, spawned>>
      /\ \A r \in Rings : flight[r] = <<>> /\ pc[r] = "idle"
  BY <1>1 DEF probe, Quiet
<1>3. pc'["setup"] = "queued" /\ \A r \in Rings : pc'[r] = "idle" /\ flight'[r] = <<>>
  BY <1>1, <1>2, RingsFacts DEF TypeOK, Ctx
<1>4. \A r \in Rings : buf'[r] = AllFree /\ inconsistent'[r] = NoneSeen
  BY DEF probe, ResetByProbe
<1>5. Starting' /\ ~Spawning' /\ \A c \in Ctx : pc'[c] \notin Taken
  BY <1>3 DEF Starting, Spawning, Taken, Owning, Ctx
<1>6. \A r \in Rings, i \in Index : buf'[r][i] = "st_free" /\ ~inconsistent'[r][i]
  BY <1>4 DEF AllFree, NoneSeen
<1>7. Paced'
  BY <1>3, <1>4, <1>5 DEF Paced
<1>8. Plugged'
  BY <1>2, <1>3, <1>5, <1>6 DEF Plugged
<1>9. NoLap'
  <2> SUFFICES ASSUME NEW r \in Rings PROVE NoLapIn(r)'
    BY DEF NoLap
  <2>1. Len(flight'[r]) = 0 /\ Turn(r)' = 0 /\ ToSpawn(r)' = InFlight(r) /\ InFlight(r) \in Nat
    BY <1>3, <1>5, RingsFacts DEF Turn, ToSpawn, InFlight
  <2>2. Due(r)' = InFlight(r)
    <3>1. Due(r)' = ToSpawn(r)' + Turn(r)' + Len(flight'[r])
      BY DEF Due
    <3>2. QED BY <2>1, <3>1
  <2>3. \A c \in Ctx : ~Working(c, r)'
    BY <1>5 DEF Working
  <2>4. Hands("setup", r)' = 0 /\ Hands(r, r)' = 0
    BY <2>3 DEF Hands, Ctx
  <2>5. (Due(r) + Hands("setup", r) + Hands(r, r) <= InFlight(r))'
    <3>1. InFlight(r)' = InFlight(r)
      BY DEF InFlight
    <3>2. QED BY <2>1, <2>2, <2>4, <3>1
  <2>6. \A n \in 1 .. Len(flight'[r]) : FALSE
    BY <2>1
  <2>7. \A i \in Index : buf'[r][i] # "st_subm"
    BY <1>6
  <2>8. QED BY <2>3, <2>5, <2>6, <2>7 DEF NoLapIn
<1>10. TakenFree'
  BY <1>5 DEF TakenFree, Taken
<1>11. NeverInconsistent'
  BY <1>6 DEF NeverInconsistent
<1>12. QED BY <1>7, <1>8, <1>9, <1>10, <1>11 DEF Ahead

(* Once the board has gone, what is on the host does not move.             *)
LEMMA AheadUnplug ==
  ASSUME LapInv, TypeOK', unplug \/ disconnect \/ delete \/ UNCHANGED vars
  PROVE  Ahead'
<1>1. TypeOK /\ Paced /\ Plugged /\ NoLap /\ TakenFree /\ NeverInconsistent
  BY DEF LapInv, IInv, Ahead
<1>2. /\ UNCHANGED <<buf, inconsistent, submit, flight, pc, idx, sdir, spawned>>
      /\ present' = FALSE \/ UNCHANGED <<state, present, del>>
  <2>1. CASE unplug \/ disconnect
    BY <1>1, <2>1 DEF unplug, disconnect, ringVars, ctxVars, TypeOK
  <2>2. CASE delete
    <3>1. del # "none" /\ UNCHANGED <<present, buf, inconsistent, submit, flight, pc, idx, sdir, spawned>>
      BY <2>2 DEF delete, delete_start, destroy_workqueue, kill_anchored_urbs, delete_finish,
                  ringVars, ctxVars
    <3>2. ~present
      BY <1>1, <3>1 DEF Plugged
    <3>3. QED BY <1>1, <3>1, <3>2 DEF TypeOK
  <2>3. CASE UNCHANGED vars
    BY <2>3 DEF vars, devVars, ringVars, ctxVars
  <2>4. QED BY <2>1, <2>2, <2>3
<1>3. /\ Starting' <=> Starting
      /\ Spawning' <=> Spawning
      /\ \A c \in Ctx : Ring(c)' = Ring(c)
      /\ \A r \in Rings : ToSpawn(r)' = ToSpawn(r) /\ Turn(r)' = Turn(r)
  BY <1>2 DEF Starting, Spawning, Ring, ToSpawn, Turn, InFlight, LastRing
<1>4. present' => present
  BY <1>2
<1>5. Paced'
  BY <1>1, <1>2, <1>3, <1>4 DEF Paced, InFlight
<1>6. Plugged'
  <2>1. CASE present' = FALSE
    BY <2>1 DEF Plugged
  <2>2. CASE UNCHANGED <<state, present, del>>
    <3>1. \A r \in Rings : OnWire(r)' = OnWire(r)
      BY <1>2 DEF OnWire
    <3>2. \A c \in Ctx, r \in Rings, i \in Index : Owns(c, r, i)' <=> Owns(c, r, i)
      BY <1>2, <1>3 DEF Owns
    <3>3. QED BY <1>1, <1>2, <1>3, <2>2, <3>1, <3>2 DEF Plugged
  <2>3. QED BY <1>2, <2>1, <2>2
<1>7. NoLap'
  <2>1. \A r \in Rings : /\ ToSpawn(r)' \in Nat /\ Turn(r)' \in Nat
                         /\ ToSpawn(r)' + Turn(r)' <= ToSpawn(r) + Turn(r)
    BY <1>1, <1>3, Counts
  <2>2. \A c \in Ctx, r \in Rings : Working(c, r)' => Working(c, r) /\ idx'[c] = idx[c]
    BY <1>2, <1>3 DEF Working
  <2>3. \A r \in Rings, i \in Index : buf'[r][i] = "st_subm" => buf[r][i] = "st_subm"
    BY <1>2
  <2>4. QED BY <1>1, <1>2, <2>1, <2>2, <2>3, NoLapKept
<1>8. TakenFree'
  BY <1>1, <1>2, <1>3, TakenKept
<1>9. NeverInconsistent'
  BY <1>1, <1>2 DEF NeverInconsistent
<1>10. QED BY <1>5, <1>6, <1>7, <1>8, <1>9 DEF Ahead

(* At the start there is no board and nothing has happened.                *)
LEMMA AheadInit == Init => Ahead
<1> SUFFICES ASSUME Init PROVE Ahead
  OBVIOUS
<1>1. /\ ~present /\ \A c \in Ctx : pc[c] = "idle"
      /\ \A r \in Rings : flight[r] = <<>> /\ buf[r] = AllFree /\ inconsistent[r] = NoneSeen
  BY DEF Init
<1>2. ~Starting /\ ~Spawning /\ \A c \in Ctx : pc[c] \notin Taken
  BY <1>1 DEF Starting, Spawning, Taken, Owning, Ctx
<1>3. Paced /\ Plugged /\ TakenFree
  BY <1>1, <1>2 DEF Paced, Plugged, TakenFree, Taken
<1>4. NeverInconsistent
  BY <1>1 DEF NeverInconsistent, NoneSeen
<1>5. NoLap
  <2> SUFFICES ASSUME NEW r \in Rings PROVE NoLapIn(r)
    BY DEF NoLap
  <2>1. Len(flight[r]) = 0 /\ Turn(r) = 0 /\ ToSpawn(r) = 0 /\ InFlight(r) \in Nat
    BY <1>1, <1>2, RingsFacts DEF Turn, ToSpawn, Ctx
  <2>2. \A c \in Ctx : ~Working(c, r)
    BY <1>2 DEF Working
  <2>3. Due(r) + Hands("setup", r) + Hands(r, r) <= InFlight(r)
    <3>1. Hands("setup", r) = 0 /\ Hands(r, r) = 0
      BY <2>2 DEF Hands, Ctx
    <3>2. QED BY <2>1, <3>1 DEF Due
  <2>4. QED BY <1>1, <2>1, <2>2, <2>3 DEF NoLapIn, AllFree
<1>6. QED BY <1>3, <1>4, <1>5 DEF Ahead

(* Put together.                                                           *)
LEMMA LapInductive ==
  ASSUME ResetByProbe
  PROVE  (Init => LapInv) /\ (LapInv /\ [PromptNext]_vars => LapInv')
<1>1. Init => LapInv
  BY Inductive, AheadInit DEF LapInv
<1>2. ASSUME LapInv, [PromptNext]_vars PROVE LapInv'
  <2>1. IInv'
    BY <1>2, Inductive DEF LapInv, PromptNext
  <2>2. TypeOK'
    BY <2>1 DEF IInv
  <2> SUFFICES Ahead'
    BY <2>1 DEF LapInv
  <2>3. CASE probe
    BY <1>2, <2>2, <2>3, AheadProbe
  <2>4. CASE setup_start \/ setup_init_restart \/ setup_stages \/ setup_ok
    BY <1>2, <2>2, <2>4, AheadStages
  <2>5. CASE submit_check_state \/ submit_kernel
    BY <1>2, <2>2, <2>5, AheadSubmit DEF Ctx
  <2>6. ASSUME NEW c \in Ctx, isoc_submit(c) PROVE Ahead'
    BY <1>2, <2>2, <2>6, AheadSubmit
  <2>7. CASE PromptNext /\ \E r \in Rings : isoc_cbak(r)
    <3>1. PICK r \in Rings : isoc_cbak(r)
      BY <2>7
    <3>2. ~(Spawning /\ present)
      BY <2>7, <3>1 DEF PromptNext
    <3>3. QED BY <1>2, <2>2, <3>1, <3>2, AheadCbak
  <2>8. CASE unplug \/ disconnect \/ delete \/ UNCHANGED vars
    BY <1>2, <2>2, <2>8, AheadUnplug
  <2>9. QED BY <1>2, <2>3, <2>4, <2>5, <2>6, <2>7, <2>8 DEF PromptNext, Next, worker
<1>3. QED BY <1>1, <1>2

(* The branches commented "should *never* happen" are unreachable when no  *)
(* URB completes while the worker spawns, however many URBs are put in     *)
(* flight, up to all the buffers.                                          *)
THEOREM NeverMeets ==
  ASSUME ResetByProbe PROVE PromptSpec => []NeverInconsistent
<1>1. LapInv => NeverInconsistent
  BY DEF LapInv, Ahead
<1>2. QED BY <1>1, LapInductive, PTL DEF PromptSpec

-----------------------------------------------------------------------------
(***************************************************************************)
(* Sequence numbers.                                                       *)
(***************************************************************************)

(* There is but one quotient and one remainder.                            *)
LEMMA Unique ==
  ASSUME NEW m \in Nat \ {0}, NEW q \in Nat, NEW p \in Nat,
         NEW r \in 0 .. m - 1, NEW s \in 0 .. m - 1, m * q + r = m * p + s
  PROVE  q = p /\ r = s
<1>1. ASSUME NEW x \in Nat, NEW y \in Nat, x < y PROVE m * x + m <= m * y
  <2>1. m * (x + 1) <= m * y
    BY <1>1
  <2>2. QED BY <2>1
<1>2. m * q \in Nat /\ m * p \in Nat
  OBVIOUS
<1>3. ~(q < p) /\ ~(p < q)
  BY <1>1, <1>2
<1>4. QED BY <1>2, <1>3

LEMMA DivMod ==
  ASSUME NEW a \in Nat, NEW m \in Nat \ {0}
  PROVE  a \div m \in Nat /\ a % m \in 0 .. m - 1 /\ a = m * (a \div m) + (a % m)
BY SMT

LEMMA Quotient ==
  ASSUME NEW m \in Nat \ {0}, NEW q \in Nat, NEW r \in 0 .. m - 1
  PROVE  (m * q + r) \div m = q /\ (m * q + r) % m = r
<1>1. m * q + r \in Nat
  OBVIOUS
<1>2. QED BY <1>1, DivMod, Unique

LEMMA Multiple ==
  ASSUME NEW m \in Nat \ {0}, NEW q \in Nat, NEW p \in Nat,
         NEW r \in 0 .. m - 1, m * q + r = m * p
  PROVE  q = p /\ r = 0
<1>1. m * q + r = m * p + 0 /\ 0 \in 0 .. m - 1
  OBVIOUS
<1>2. QED BY <1>1, Unique

LEMMA Split ==
  ASSUME NEW t \in Nat, NEW m \in Nat \ {0}, NEW q \in Nat, NEW r \in 0 .. m - 1, t = m * q + r
  PROVE  t \div m = q /\ t % m = r
BY Quotient

(* The number after that of a packet is that of the next packet of the     *)
(* URB, or of the first one of the next URB, when it wraps too.            *)
LEMMA NextChunk ==
  ASSUME Aligned, NEW s \in Seqno, NEW i \in Index, NEW p \in Pack, seq2chunk(s) = <<i, p>>
  PROVE  /\ p + 1 # Packs => seq2chunk((s + 1) % SeqMod) = <<i, p + 1>>
         /\ p + 1 = Packs => seq2chunk((s + 1) % SeqMod) = <<Succ(i), 0>>
<1> DEFINE ring == MaxUrb * Packs
           j == SeqMod \div ring
           a == s \div Packs
           c == a \div MaxUrb
<1>1. /\ MaxUrb \in Nat \ {0} /\ Packs \in Nat \ {0} /\ SeqMod \in Nat \ {0}
      /\ SeqMod % ring = 0 /\ s \in 0 .. SeqMod - 1
      /\ i \in 0 .. MaxUrb - 1 /\ p \in 0 .. Packs - 1
  BY ConstantsOK DEF Aligned, Seqno, Index, Pack
<1>2. ring \in Nat \ {0}
  BY <1>1
<1>3. j \in Nat /\ SeqMod = Packs * (MaxUrb * j)
  <2> HIDE DEF ring
  <2>1. j \in Nat /\ SeqMod = ring * j + (SeqMod % ring)
    BY <1>1, <1>2, DivMod
  <2>2. ring * j \in Nat
    BY <1>2, <2>1
  <2>3. SeqMod = ring * j
    BY <1>1, <2>1, <2>2
  <2> HIDE DEF j
  <2>4. QED BY <1>1, <2>1, <2>3 DEF ring
<1>4. a % MaxUrb = i /\ s % Packs = p
  BY DEF seq2chunk
<1>5. a \in Nat /\ s = Packs * a + p
  <2>1. s \in Nat /\ Packs \in Nat \ {0}
    BY <1>1
  <2>2. s \div Packs \in Nat /\ s = Packs * (s \div Packs) + (s % Packs)
    BY <2>1, DivMod
  <2>3. QED BY <1>4, <2>2
<1>6. c \in Nat /\ a = MaxUrb * c + i
  <2> HIDE DEF a
  <2>1. a \in Nat /\ MaxUrb \in Nat \ {0}
    BY <1>1, <1>5
  <2>2. a \div MaxUrb \in Nat /\ a = MaxUrb * (a \div MaxUrb) + (a % MaxUrb)
    BY <2>1, DivMod
  <2>3. QED BY <1>4, <2>2
<1> HIDE DEF j, a, c
<1>7. Succ(i) = IF i + 1 = MaxUrb THEN 0 ELSE i + 1
  <2>1. i \in 0 .. MaxUrb - 1 /\ MaxUrb \in Nat \ {0}
    BY <1>1
  <2>2. QED BY <2>1, NextIndex DEF Succ
<1>8. (s + 1) % SeqMod = IF s + 1 = SeqMod THEN 0 ELSE s + 1
  <2>1. s \in 0 .. SeqMod - 1 /\ SeqMod \in Nat \ {0}
    BY <1>1
  <2>2. QED BY <2>1, NextIndex
<1>9. CASE s + 1 = SeqMod
  <2>1. p + 1 = Packs
    <3> SUFFICES ASSUME p + 1 # Packs PROVE FALSE
      OBVIOUS
    <3>1. Packs * a + (p + 1) = Packs * (MaxUrb * j) + 0 /\ p + 1 \in 0 .. Packs - 1
          /\ MaxUrb * j \in Nat /\ 0 \in 0 .. Packs - 1
      BY <1>1, <1>3, <1>5, <1>9
    <3>2. p + 1 = 0
      BY <1>1, <1>5, <3>1, Unique
    <3>3. QED BY <1>1, <3>2
  <2>2. a + 1 = MaxUrb * j
    <3>1. Packs * (a + 1) + 0 = Packs * (MaxUrb * j) + 0
      BY <1>1, <1>3, <1>5, <1>9, <2>1
    <3>2. a + 1 \in Nat /\ MaxUrb * j \in Nat /\ 0 \in 0 .. Packs - 1
      BY <1>1, <1>3, <1>5
    <3>3. QED BY <1>1, <3>1, <3>2, Unique
  <2>3. i + 1 = MaxUrb
    <3> SUFFICES ASSUME i + 1 # MaxUrb PROVE FALSE
      OBVIOUS
    <3>1. MaxUrb * c + (i + 1) = MaxUrb * j /\ i + 1 \in 0 .. MaxUrb - 1
      BY <1>1, <1>3, <1>6, <2>2
    <3>2. i + 1 = 0
      BY <1>1, <1>3, <1>6, <3>1, Multiple
    <3>3. QED BY <1>1, <3>2
  <2>4. seq2chunk(0) = <<0, 0>>
    <3>1. 0 = Packs * 0 + 0 /\ 0 = MaxUrb * 0 + 0 /\ 0 \in 0 .. Packs - 1 /\ 0 \in 0 .. MaxUrb - 1
      BY <1>1
    <3>2. 0 \div Packs = 0 /\ 0 % Packs = 0 /\ 0 % MaxUrb = 0
      BY <1>1, <3>1, Quotient
    <3>3. QED BY <3>2 DEF seq2chunk
  <2>5. QED BY <1>7, <1>8, <1>9, <2>1, <2>3, <2>4
<1>10. CASE s + 1 # SeqMod /\ p + 1 # Packs
  <2>1. s + 1 = Packs * a + (p + 1) /\ p + 1 \in 0 .. Packs - 1
    BY <1>1, <1>5, <1>10
  <2>2. (s + 1) \div Packs = a /\ (s + 1) % Packs = p + 1
    <3>1. s + 1 \in Nat /\ Packs \in Nat \ {0} /\ a \in Nat
      BY <1>1, <1>5
    <3>2. QED BY <2>1, <3>1, Split, Zenon
  <2>3. QED BY <1>4, <1>8, <1>10, <2>2 DEF seq2chunk
<1>11. CASE s + 1 # SeqMod /\ p + 1 = Packs
  <2>1. s + 1 = Packs * (a + 1) + 0 /\ 0 \in 0 .. Packs - 1 /\ a + 1 \in Nat
    BY <1>1, <1>5, <1>11
  <2>2. (s + 1) \div Packs = a + 1 /\ (s + 1) % Packs = 0
    BY <1>1, <2>1, Split
  <2>3. (a + 1) % MaxUrb = Succ(i)
    <3>1. CASE i + 1 # MaxUrb
      <4>1. a + 1 = MaxUrb * c + (i + 1) /\ i + 1 \in 0 .. MaxUrb - 1
        BY <1>1, <1>6, <3>1
      <4>2. (a + 1) % MaxUrb = i + 1
        <5>1. a + 1 \in Nat /\ MaxUrb \in Nat \ {0} /\ c \in Nat
          BY <1>1, <1>5, <1>6
        <5>2. QED BY <4>1, <5>1, Split, Zenon
      <4>3. QED BY <1>7, <3>1, <4>2
    <3>2. CASE i + 1 = MaxUrb
      <4>1. a + 1 = MaxUrb * (c + 1) + 0 /\ c + 1 \in Nat /\ 0 \in 0 .. MaxUrb - 1
        BY <1>1, <1>6, <3>2
      <4>2. (a + 1) % MaxUrb = 0
        BY <1>1, <1>5, <4>1, Split
      <4>3. QED BY <1>7, <3>2, <4>2
    <3>3. QED BY <3>1, <3>2
  <2>4. QED BY <1>8, <1>11, <2>2, <2>3 DEF seq2chunk
<1>12. QED BY <1>9, <1>10, <1>11

(* While the board is there nobody else takes a turn in a ring where       *)
(* somebody is at work.                                                    *)
Busy(c, r) == pc[c] \in Taken \cup {"take"} /\ Ring(c) = r

LEMMA AloneInRing ==
  ASSUME Paced, present, NEW r \in Rings, NEW c \in Ctx, NEW d \in Ctx, Busy(c, r), Busy(d, r)
  PROVE  c = d
<1>1. \A e \in Ctx : Busy(e, r) => (e = "setup" /\ Spawning) \/ (e = r /\ pc[r] # "idle")
  BY DEF Busy, Ring, Taken, Owning, Spawning
<1>2. Spawning => pc[r] = "idle"
  BY DEF Paced
<1>3. QED BY <1>1, <1>2

(* A step that leaves the numbers, and those who work on them, alone.      *)
LEMMA NumberedKept ==
  ASSUME Numbered, present' => present, UNCHANGED <<outseqno, pktseq>>,
         submit'["out"] = submit["out"], OnWire("out")' \subseteq OnWire("out"),
         \A c \in Ctx : pc'[c] \in {"fill", "store"} => pc'[c] = pc[c] /\ Ring(c)' = Ring(c),
         \A c \in Ctx : Working(c, "out")' <=> Working(c, "out"),
         \A c \in Ctx : Working(c, "out") =>
           /\ idx'[c] = idx[c] /\ cnt'[c] = cnt[c] /\ tmp'[c] = tmp[c]
           /\ pc'[c] = pc[c] \/ {pc[c], pc'[c]} \subseteq {"anchor", "check", "submit"}
  PROVE  Numbered'
<1>1. FillsOut /\ InStep /\ SeqMapOK
  BY DEF Numbered
<1>2. ASSUME present, NEW c \in Ctx, Working(c, "out")' PROVE Fits(c)'
  <2>1. /\ Working(c, "out") /\ idx'[c] = idx[c] /\ cnt'[c] = cnt[c] /\ tmp'[c] = tmp[c]
        /\ pc'[c] = pc[c] \/ {pc[c], pc'[c]} \subseteq {"anchor", "check", "submit"}
    BY <1>2
  <2>2. Fits(c)
    BY <1>1, <1>2, <2>1 DEF InStep
  <2>3. \A i, p : Mapped(i, p)' <=> Mapped(i, p)
    BY DEF Mapped, seq2chunk
  <2>4. seq2chunk(outseqno)' = seq2chunk(outseqno) /\ Succ(idx[c])' = Succ(idx[c])
    BY <2>1 DEF seq2chunk, Succ
  <2>5. /\ pc'[c] = "mark" => pc[c] = "mark"
        /\ pc'[c] \in {"fill", "store"} => pc[c] = pc'[c]
        /\ pc'[c] \in {"anchor", "check", "submit"} => pc[c] \in {"anchor", "check", "submit"}
    BY <2>1
  <2>6. QED BY <2>1, <2>2, <2>3, <2>4, <2>5 DEF Fits
<1>3. present /\ (\A c \in Ctx : ~Working(c, "out")') =>
        seq2chunk(outseqno)' = <<submit'["out"], 0>>
  BY <1>1 DEF InStep, seq2chunk
<1>4. InStep'
  BY <1>2, <1>3 DEF InStep
<1>5. FillsOut'
  BY <1>1 DEF FillsOut
<1>6. SeqMapOK'
  BY <1>1 DEF SeqMapOK, seq2chunk
<1>7. QED BY <1>4, <1>5, <1>6 DEF Numbered

(* The only one who takes a turn in the OUT ring.                          *)
LEMMA OnlyOne ==
  ASSUME "out" \in Rings, TypeOK, Paced, NEW c \in Ctx, Busy(c, "out"), present' => present,
         \A d \in Ctx \ {c} : pc'[d] = pc[d] /\ Ring(d)' = Ring(d),
         present /\ Working(c, "out")' => Fits(c)',
         present /\ ~Working(c, "out")' => seq2chunk(outseqno)' = <<submit'["out"], 0>>
  PROVE  InStep'
<1> SUFFICES ASSUME present PROVE InStep'
  BY DEF InStep
<1>1. \A d \in Ctx \ {c} : ~Working(d, "out")
  BY AloneInRing DEF Working, Busy
<1>2. \A d \in Ctx \ {c} : ~Working(d, "out")'
  BY <1>1 DEF Working
<1>3. QED BY <1>2 DEF InStep

LEMMA NumberedTake ==
  ASSUME "out" \in Rings, MapInv, TypeOK', NEW c \in Ctx, submit_take(c)
  PROVE  Numbered'
<1> USE DEF devVars, ringVars, seqVars
<1>1. TypeOK /\ Paced /\ FillsOut /\ InStep /\ SeqMapOK /\ Numbered
  BY DEF MapInv, LapInv, IInv, Ahead, Numbered
<1>2. /\ pc[c] = "take" /\ pc'[c] = "mark" /\ idx'[c] = submit[Ring(c)]
      /\ submit' = [submit EXCEPT ![Ring(c)] = (@ + 1) % MaxUrb]
      /\ \A d \in Ctx \ {c} : pc'[d] = pc[d] /\ idx'[d] = idx[d]
      /\ UNCHANGED <<present, flight, outseqno, pktseq, cnt, tmp, sdir>>
  BY <1>1 DEF submit_take, TypeOK
<1>3. \A d \in Ctx : Ring(d)' = Ring(d)
  BY <1>2 DEF Ring
<1>4. OnWire("out")' = OnWire("out")
  BY <1>2 DEF OnWire
<1>5. CASE Ring(c) = "out"
  <2>1. FillsOut' /\ SeqMapOK'
    BY <1>1, <1>2, <1>3, <1>4 DEF FillsOut, SeqMapOK, seq2chunk
  <2>2. submit'["out"] = Succ(idx[c])'
    BY <1>1, <1>2, <1>5 DEF TypeOK, Succ
  <2>3. ASSUME present PROVE seq2chunk(outseqno)' = <<idx'[c], 0>>
    <3>1. Busy(c, "out") /\ ~Working(c, "out")
      BY <1>2, <1>5 DEF Busy, Working, Taken, Owning
    <3>2. \A d \in Ctx : Working(d, "out") => Busy(d, "out")
      BY DEF Busy, Working
    <3>3. \A d \in Ctx : ~Working(d, "out")
      BY <1>1, <2>3, <3>1, <3>2, AloneInRing
    <3>4. QED BY <1>1, <1>2, <1>5, <2>3, <3>3 DEF InStep, seq2chunk
  <2>4. present => Fits(c)'
    BY <1>2, <2>2, <2>3 DEF Fits
  <2>5. Busy(c, "out") /\ Working(c, "out")'
    BY <1>2, <1>3, <1>5 DEF Busy, Working, Taken
  <2>6. InStep'
    BY <1>1, <1>2, <1>3, <2>4, <2>5, OnlyOne
  <2>7. QED BY <2>1, <2>6 DEF Numbered
<1>6. CASE Ring(c) # "out"
  <2>1. submit'["out"] = submit["out"]
    BY <1>1, <1>2, <1>6 DEF TypeOK
  <2>2. \A d \in Ctx : Working(d, "out")' <=> Working(d, "out")
    BY <1>2, <1>3, <1>6 DEF Working
  <2>3. \A d \in Ctx : Working(d, "out") => d # c
    BY <1>6 DEF Working
  <2>4. \A d \in Ctx : pc'[d] \in {"fill", "store"} => pc'[d] = pc[d]
    BY <1>2
  <2>5. QED BY <1>1, <1>2, <1>3, <1>4, <2>1, <2>2, <2>3, <2>4, NumberedKept
<1>7. QED BY <1>5, <1>6

LEMMA NumberedClaim ==
  ASSUME "out" \in Rings, MapInv, NEW c \in Ctx, submit_claim(c)
  PROVE  Numbered'
<1> USE DEF devVars, ringVars, seqVars
<1>1. TypeOK /\ Paced /\ FillsOut /\ InStep /\ SeqMapOK /\ Numbered
  BY DEF MapInv, LapInv, IInv, Ahead, Numbered
<1>2. /\ pc[c] = "mark" /\ pc'[c] = IF Ring(c) = "out" THEN "fill" ELSE "anchor"
      /\ cnt'[c] = 0
      /\ \A d \in Ctx \ {c} : pc'[d] = pc[d] /\ cnt'[d] = cnt[d]
      /\ UNCHANGED <<present, submit, flight, outseqno, pktseq, idx, tmp, sdir>>
  BY <1>1 DEF submit_claim, TypeOK
<1>3. \A d \in Ctx : Ring(d)' = Ring(d)
  BY <1>2 DEF Ring
<1>4. OnWire("out")' = OnWire("out")
  BY <1>2 DEF OnWire
<1>5. CASE Ring(c) = "out"
  <2>1. FillsOut' /\ SeqMapOK'
    BY <1>1, <1>2, <1>3, <1>4, <1>5 DEF FillsOut, SeqMapOK, seq2chunk
  <2>2. Busy(c, "out") /\ Working(c, "out") /\ Working(c, "out")' /\ pc'[c] = "fill"
    BY <1>2, <1>3, <1>5 DEF Busy, Working, Taken, Owning
  <2>3. ASSUME present PROVE Fits(c)'
    <3>1. submit["out"] = Succ(idx[c]) /\ seq2chunk(outseqno) = <<idx[c], 0>>
      BY <1>1, <1>2, <2>2, <2>3 DEF InStep, Fits
    <3>2. \A p \in Pack : ~(p < 0)
      BY DEF Pack
    <3>3. submit'["out"] = Succ(idx[c])' /\ seq2chunk(outseqno)' = <<idx'[c], cnt'[c]>>
      BY <1>2, <3>1 DEF Succ, seq2chunk
    <3>4. QED BY <1>2, <2>2, <3>2, <3>3 DEF Fits
  <2>4. InStep'
    BY <1>1, <1>2, <1>3, <2>2, <2>3, OnlyOne
  <2>5. QED BY <2>1, <2>4 DEF Numbered
<1>6. CASE Ring(c) # "out"
  <2>1. \A d \in Ctx : Working(d, "out")' <=> Working(d, "out")
    BY <1>2, <1>3, <1>6 DEF Working
  <2>2. \A d \in Ctx : Working(d, "out") => d # c
    BY <1>6 DEF Working
  <2>3. \A d \in Ctx : pc'[d] \in {"fill", "store"} => pc'[d] = pc[d]
    BY <1>2, <1>6
  <2>4. QED BY <1>1, <1>2, <1>3, <1>4, <2>1, <2>2, <2>3, NumberedKept
<1>7. QED BY <1>5, <1>6

LEMMA NumberedLoad ==
  ASSUME "out" \in Rings, MapInv, NEW c \in Ctx, fill_load(c)
  PROVE  Numbered'
<1> USE DEF devVars, ringVars, seqVars
<1>1. TypeOK /\ Paced /\ FillsOut /\ InStep /\ SeqMapOK /\ Numbered
  BY DEF MapInv, LapInv, IInv, Ahead, Numbered
<1>2. /\ pc[c] = "fill" /\ pc'[c] = "store" /\ tmp'[c] = outseqno
      /\ \A d \in Ctx \ {c} : pc'[d] = pc[d]
      /\ UNCHANGED <<present, submit, flight, outseqno, pktseq, idx, cnt, sdir>>
  BY <1>1 DEF fill_load, TypeOK
<1>3. Ring(c) = "out" /\ \A d \in Ctx : Ring(d)' = Ring(d)
  BY <1>1, <1>2 DEF Ring, FillsOut
<1>4. OnWire("out")' = OnWire("out")
  BY <1>2 DEF OnWire
<1>5. FillsOut' /\ SeqMapOK'
  BY <1>1, <1>2, <1>3, <1>4 DEF FillsOut, SeqMapOK, seq2chunk
<1>6. Busy(c, "out") /\ Working(c, "out") /\ Working(c, "out")'
  BY <1>2, <1>3 DEF Busy, Working, Taken, Owning
<1>7. ASSUME present PROVE Fits(c)'
  <2>1. Fits(c)
    BY <1>1, <1>6, <1>7 DEF InStep
  <2>2. \A i, p : Mapped(i, p)' <=> Mapped(i, p)
    BY <1>2 DEF Mapped, seq2chunk
  <2>3. seq2chunk(outseqno)' = seq2chunk(outseqno) /\ Succ(idx[c])' = Succ(idx[c])
    BY <1>2 DEF Succ, seq2chunk
  <2>4. QED BY <1>2, <2>1, <2>2, <2>3 DEF Fits
<1>8. InStep'
  BY <1>1, <1>2, <1>3, <1>6, <1>7, OnlyOne
<1>9. QED BY <1>5, <1>8 DEF Numbered

(* The packet gets the number that is due, and the next one is due.        *)
LEMMA NumberedStore ==
  ASSUME Aligned, "out" \in Rings, MapInv, NEW c \in Ctx, fill_store(c)
  PROVE  Numbered'
<1> USE DEF devVars, ringVars, seqVars
<1>1. TypeOK /\ Paced /\ FillsOut /\ InStep /\ SeqMapOK /\ Numbered /\ Exclusive
  BY DEF MapInv, LapInv, IInv, Ahead, Numbered
<1>i. PICK i \in Index : i = idx[c]
  BY <1>1 DEF TypeOK
<1>n. PICK n \in Pack : n = cnt[c]
  BY <1>1 DEF TypeOK
<1>2. /\ pc[c] = "store"
      /\ outseqno' = (tmp[c] + 1) % SeqMod
      /\ pktseq' = [pktseq EXCEPT ![i][n] = tmp[c]]
      /\ cnt'[c] = (n + 1) % Packs
      /\ pc'[c] = IF n + 1 = Packs THEN "anchor" ELSE "fill"
      /\ \A d \in Ctx \ {c} : pc'[d] = pc[d]
      /\ UNCHANGED <<present, submit, flight, idx, sdir>>
  BY <1>1, <1>i, <1>n DEF fill_store, TypeOK
<1>3. Ring(c) = "out" /\ \A d \in Ctx : Ring(d)' = Ring(d)
  BY <1>1, <1>2 DEF Ring, FillsOut
<1>4. OnWire("out")' = OnWire("out") /\ i \notin OnWire("out")
  <2>1. Owns(c, "out", i)
    BY <1>2, <1>3, <1>i DEF Owns, Owning
  <2>2. QED BY <1>1, <1>2, <2>1 DEF OnWire, Exclusive
<1>5. /\ \A j \in Index \ {i} : pktseq'[j] = pktseq[j]
      /\ \A p \in Pack \ {n} : pktseq'[i][p] = pktseq[i][p]
      /\ pktseq'[i][n] = tmp[c]
  BY <1>1, <1>2 DEF TypeOK
<1>6. SeqMapOK'
  <2>1. \A j \in OnWire("out") : j \in Index
    BY <1>1 DEF OnWire, TypeOK
  <2>2. QED BY <1>1, <1>4, <1>5, <2>1 DEF SeqMapOK, seq2chunk
<1>7. FillsOut'
  BY <1>1, <1>2, <1>3 DEF FillsOut
<1>8. Busy(c, "out") /\ Working(c, "out") /\ Working(c, "out")'
  BY <1>2, <1>3 DEF Busy, Working, Taken, Owning
<1>9. ASSUME present PROVE Fits(c)'
  <2>1. /\ submit["out"] = Succ(i) /\ tmp[c] = outseqno
        /\ seq2chunk(outseqno) = <<i, n>>
        /\ \A p \in Pack : p < n => seq2chunk(pktseq[i][p]) = <<i, p>>
    BY <1>1, <1>2, <1>8, <1>9, <1>i, <1>n DEF InStep, Fits, Mapped
  <2>2. outseqno \in Seqno
    BY <1>1 DEF TypeOK
  <2>3. /\ n + 1 # Packs => seq2chunk((outseqno + 1) % SeqMod) = <<i, n + 1>>
        /\ n + 1 = Packs => seq2chunk((outseqno + 1) % SeqMod) = <<Succ(i), 0>>
    BY <2>1, <2>2, NextChunk
  <2>4. outseqno' = (outseqno + 1) % SeqMod /\ submit'["out"] = Succ(i) /\ idx'[c] = i
        /\ Succ(idx[c])' = Succ(i)
    BY <1>2, <1>i, <2>1 DEF Succ
  <2>5. \A p \in Pack : p < n + 1 => seq2chunk(pktseq'[i][p]) = <<i, p>>
    <3> SUFFICES ASSUME NEW p \in Pack, p < n + 1 PROVE seq2chunk(pktseq'[i][p]) = <<i, p>>
      OBVIOUS
    <3>1. CASE p = n
      BY <1>5, <2>1, <3>1
    <3>2. CASE p # n
      <4>1. p < n
        BY <3>2, ConstantsOK DEF Pack
      <4>2. QED BY <1>5, <2>1, <3>2, <4>1
    <3>3. QED BY <3>1, <3>2
  <2>6. \A p \in Pack : Mapped(idx[c], p)' <=> seq2chunk(pktseq'[i][p]) = <<i, p>>
    BY <2>4 DEF Mapped, seq2chunk
  <2>7. n \in 0 .. Packs - 1 /\ Packs \in Nat \ {0} /\ \A p \in Pack : p \in 0 .. Packs - 1
    BY ConstantsOK DEF Pack
  <2>8. CASE n + 1 = Packs
    <3>1. seq2chunk(outseqno)' = <<submit'["out"], 0>>
      BY <2>3, <2>4, <2>8 DEF seq2chunk
    <3>2. \A p \in Pack : Mapped(idx[c], p)'
      BY <2>5, <2>6, <2>7, <2>8
    <3>3. pc'[c] = "anchor"
      BY <1>2, <2>8
    <3>4. QED BY <2>4, <3>1, <3>2, <3>3 DEF Fits
  <2>9. CASE n + 1 # Packs
    <3>1. cnt'[c] = n + 1
      BY <1>2, <2>7, <2>9, NextIndex
    <3>2. seq2chunk(outseqno)' = <<idx'[c], cnt'[c]>>
      BY <2>3, <2>4, <2>9, <3>1 DEF seq2chunk
    <3>3. \A p \in Pack : p < cnt'[c] => Mapped(idx[c], p)'
      BY <2>5, <2>6, <3>1
    <3>4. pc'[c] = "fill"
      BY <1>2, <2>9
    <3>5. QED BY <2>4, <3>2, <3>3, <3>4 DEF Fits
  <2>10. QED BY <2>8, <2>9
<1>10. InStep'
  BY <1>1, <1>2, <1>3, <1>8, <1>9, OnlyOne
<1>11. QED BY <1>6, <1>7, <1>10 DEF Numbered

(* Anchoring the URB, and the worker's look at the state.                  *)
LEMMA NumberedReady ==
  ASSUME "out" \in Rings, MapInv, NEW c \in Ctx,
         submit_anchor(c) \/ (c = "setup" /\ submit_check_state /\ pc'[c] = "submit")
  PROVE  Numbered'
<1> USE DEF devVars, ringVars, seqVars
<1>1. TypeOK /\ Numbered
  BY DEF MapInv, LapInv, IInv
<1>2. /\ pc[c] \in {"anchor", "check"} /\ pc'[c] \in {"check", "submit"}
      /\ \A d \in Ctx \ {c} : pc'[d] = pc[d]
      /\ UNCHANGED <<present, submit, flight, outseqno, pktseq, idx, cnt, tmp, sdir>>
  <2>1. CASE submit_anchor(c)
    BY <1>1, <2>1 DEF submit_anchor, TypeOK
  <2>2. CASE c = "setup" /\ submit_check_state /\ pc'[c] = "submit"
    <3>1. ~spawn_next
      BY <1>1, <2>2 DEF spawn_next, TypeOK
    <3>2. QED BY <1>1, <2>2, <3>1 DEF submit_check_state, TypeOK
  <2>3. QED BY <2>1, <2>2
<1>3. \A d \in Ctx : Ring(d)' = Ring(d)
  BY <1>2 DEF Ring
<1>4. OnWire("out")' = OnWire("out")
  BY <1>2 DEF OnWire
<1>5. \A d \in Ctx : Working(d, "out")' <=> Working(d, "out")
  BY <1>2, <1>3 DEF Working, Taken, Owning
<1>6. \A d \in Ctx : pc'[d] \in {"fill", "store"} => pc'[d] = pc[d]
  BY <1>2
<1>7. \A d \in Ctx : pc'[d] = pc[d] \/ {pc[d], pc'[d]} \subseteq {"anchor", "check", "submit"}
  BY <1>2
<1>8. QED BY <1>1, <1>2, <1>3, <1>4, <1>5, <1>6, <1>7, NumberedKept

(* Leaving a submit function, with the URB on the wire or without.         *)
LEMMA NumberedLeave ==
  ASSUME "out" \in Rings, MapInv, NEW c \in Ctx, pc[c] \in {"check", "submit"}, return(c),
         UNCHANGED <<present, submit, outseqno, pktseq, cnt, tmp>>,
         \/ UNCHANGED flight
         \/ present /\ flight' = [flight EXCEPT ![Ring(c)] = Append(@, idx[c])]
  PROVE  Numbered'
<1>1. TypeOK /\ Paced /\ FillsOut /\ InStep /\ SeqMapOK /\ Numbered
  BY DEF MapInv, LapInv, IInv, Ahead, Numbered
<1>2. /\ pc'[c] \in {"idle", "take"}
      /\ \A d \in Ctx \ {c} : pc'[d] = pc[d] /\ idx'[d] = idx[d] /\ Ring(d)' = Ring(d)
  BY <1>1, ReturnEffect
<1>3. ~Working(c, "out")' /\ pc'[c] \notin {"fill", "store"}
  BY <1>2 DEF Working, Taken, Owning
<1>4. CASE Ring(c) = "out"
  <2>1. Busy(c, "out") /\ Working(c, "out")
    BY <1>4 DEF Busy, Working, Taken, Owning
  <2>2. present => Fits(c)
    BY <1>1, <2>1 DEF InStep
  <2>3. present => seq2chunk(outseqno)' = <<submit'["out"], 0>>
    BY <2>2 DEF Fits, seq2chunk
  <2>4. InStep'
    BY <1>1, <1>2, <1>3, <2>1, <2>3, OnlyOne
  <2>5. FillsOut'
    BY <1>1, <1>2, <1>3 DEF FillsOut
  <2>6. SeqMapOK'
    <3>1. CASE UNCHANGED flight
      BY <1>1, <3>1 DEF SeqMapOK, seq2chunk, OnWire
    <3>2. CASE present /\ flight' = [flight EXCEPT ![Ring(c)] = Append(@, idx[c])]
      <4>1. PICK i \in Index : i = idx[c]
        BY <1>1 DEF TypeOK
      <4>2. PICK s \in Seq(Index) : s = flight["out"]
        BY <1>1 DEF TypeOK
      <4>3. flight'["out"] = Append(s, i)
        BY <1>1, <1>4, <3>2, <4>1, <4>2 DEF TypeOK
      <4>4. OnWire("out") = {s[n] : n \in 1 .. Len(s)}
            /\ OnWire("out")' = {Append(s, i)[n] : n \in 1 .. Len(Append(s, i))}
        BY <4>2, <4>3 DEF OnWire
      <4>5. OnWire("out")' \subseteq OnWire("out") \cup {i}
        BY <4>4
      <4>6. \A p \in Pack : seq2chunk(pktseq[i][p]) = <<i, p>>
        BY <2>2, <3>2, <4>1 DEF Fits, Mapped
      <4>7. QED BY <1>1, <4>5, <4>6 DEF SeqMapOK, seq2chunk
    <3>3. QED BY <3>1, <3>2
  <2>7. QED BY <2>4, <2>5, <2>6 DEF Numbered
<1>5. CASE Ring(c) # "out"
  <2>1. OnWire("out")' = OnWire("out")
    <3>1. flight'["out"] = flight["out"]
      BY <1>1, <1>5 DEF TypeOK
    <3>2. QED BY <3>1 DEF OnWire
  <2>2. \A d \in Ctx : Working(d, "out") => d # c
    BY <1>5 DEF Working
  <2>3. \A d \in Ctx : Working(d, "out")' <=> Working(d, "out")
    BY <1>2, <1>3, <2>2 DEF Working
  <2>4. \A d \in Ctx : pc'[d] \in {"fill", "store"} => pc'[d] = pc[d] /\ Ring(d)' = Ring(d)
    BY <1>2, <1>3
  <2>5. QED BY <1>1, <1>2, <2>1, <2>2, <2>3, <2>4, NumberedKept
<1>6. QED BY <1>4, <1>5

LEMMA NumberedSubmit ==
  ASSUME Aligned, "out" \in Rings, MapInv, TypeOK', NEW c \in Ctx,
         isoc_submit(c) \/ (c = "setup" /\ (submit_check_state \/ submit_kernel))
  PROVE  Numbered'
<1> USE DEF devVars, ringVars, seqVars
<1>1. TypeOK /\ TakenFree
  BY DEF MapInv, LapInv, IInv, Ahead
<1>2. CASE submit_take(c)
  BY <1>2, NumberedTake
<1>3. CASE submit_refuse(c)
  BY <1>1, <1>3 DEF submit_refuse, TakenFree
<1>4. CASE submit_claim(c)
  BY <1>4, NumberedClaim
<1>5. CASE fill_load(c)
  BY <1>5, NumberedLoad
<1>6. CASE fill_store(c)
  BY <1>6, NumberedStore
<1>7. CASE submit_anchor(c)
  BY <1>7, NumberedReady
<1>8. CASE submit_atomic(c)
  <2>1. /\ pc[c] \in {"check", "submit"} /\ return(c) /\ Ring(c) = c
        /\ UNCHANGED <<present, submit, outseqno, pktseq, cnt, tmp>>
    BY <1>8 DEF submit_atomic, Ring
  <2>2. \/ UNCHANGED flight
        \/ present /\ flight' = [flight EXCEPT ![Ring(c)] = Append(@, idx[c])]
    BY <1>8, <2>1 DEF submit_atomic, usb_submit_urb
  <2>3. QED BY <2>1, <2>2, NumberedLeave
<1>9. CASE c = "setup" /\ submit_check_state
  <2>1. pc[c] \in {"check", "submit"} /\ UNCHANGED <<present, submit, outseqno, pktseq, cnt, tmp, flight>>
    BY <1>9 DEF submit_check_state
  <2>2. CASE spawn_next
    BY <1>9, <2>1, <2>2, NumberedLeave DEF return
  <2>3. CASE pc' = [pc EXCEPT !["setup"] = "submit"]
    <3>1. pc'[c] = "submit"
      BY <1>1, <1>9, <2>3 DEF TypeOK
    <3>2. QED BY <1>9, <3>1, NumberedReady
  <2>4. QED BY <1>9, <2>2, <2>3 DEF submit_check_state
<1>10. CASE c = "setup" /\ submit_kernel
  <2>1. /\ pc[c] \in {"check", "submit"} /\ return(c) /\ Ring(c) = sdir
        /\ UNCHANGED <<present, submit, outseqno, pktseq, cnt, tmp>>
    BY <1>10 DEF submit_kernel, return, Ring
  <2>2. \/ UNCHANGED flight
        \/ present /\ flight' = [flight EXCEPT ![Ring(c)] = Append(@, idx[c])]
    BY <1>10, <2>1 DEF submit_kernel, usb_submit_urb
  <2>3. QED BY <2>1, <2>2, NumberedLeave
<1>11. QED BY <1>2, <1>3, <1>4, <1>5, <1>6, <1>7, <1>8, <1>9, <1>10 DEF isoc_submit

(* A completion takes an URB off the wire.                                 *)
LEMMA NumberedCbak ==
  ASSUME "out" \in Rings, MapInv, NEW r \in Rings, isoc_cbak(r)
  PROVE  Numbered'
<1> USE DEF devVars, ringVars, seqVars
<1>1. TypeOK /\ Numbered
  BY DEF MapInv, LapInv, IInv
<1>2. /\ pc[r] = "idle" /\ pc'[r] \in {"idle", "take"}
      /\ \A d \in Ctx \ {r} : pc'[d] = pc[d]
      /\ flight[r] # <<>> /\ flight' = [flight EXCEPT ![r] = Tail(@)]
      /\ UNCHANGED <<present, submit, outseqno, pktseq, idx, cnt, tmp, sdir>>
  BY <1>1 DEF isoc_cbak, TypeOK, Ctx
<1>3. \A d \in Ctx : Ring(d)' = Ring(d)
  BY <1>2 DEF Ring
<1>4. OnWire("out")' \subseteq OnWire("out")
  <2>1. PICK s \in Seq(Index) : s = flight["out"]
    BY <1>1 DEF TypeOK
  <2>2. flight'["out"] = s \/ (s # <<>> /\ flight'["out"] = Tail(s))
    BY <1>1, <1>2, <2>1 DEF TypeOK
  <2>3. s # <<>> => \A n \in 1 .. Len(Tail(s)) : n + 1 \in 1 .. Len(s) /\ Tail(s)[n] = s[n + 1]
    OBVIOUS
  <2>4. ASSUME NEW x \in OnWire("out")' PROVE x \in OnWire("out")
    <3>1. PICK n \in 1 .. Len(flight'["out"]) : x = flight'["out"][n]
      BY <2>4 DEF OnWire
    <3>2. \E m \in 1 .. Len(s) : x = s[m]
      <4>1. CASE flight'["out"] = s
        BY <3>1, <4>1
      <4>2. CASE s # <<>> /\ flight'["out"] = Tail(s)
        BY <2>3, <3>1, <4>2
      <4>3. QED BY <2>2, <4>1, <4>2
    <3>3. QED BY <2>1, <3>2 DEF OnWire
  <2>5. QED BY <2>4
<1>5. \A d \in Ctx : Working(d, "out")' <=> Working(d, "out")
  BY <1>2, <1>3 DEF Working, Taken, Owning
<1>6. \A d \in Ctx : /\ pc'[d] \in {"fill", "store"} => pc'[d] = pc[d]
                     /\ Working(d, "out") => pc'[d] = pc[d]
  BY <1>2 DEF Working, Taken, Owning
<1>7. QED BY <1>1, <1>2, <1>3, <1>4, <1>5, <1>6, NumberedKept

(* The stages of the worker, and the way out.                              *)
LEMMA NumberedRest ==
  ASSUME "out" \in Rings, MapInv,
         \/ setup_start \/ setup_init_restart \/ setup_stages \/ setup_ok
         \/ unplug \/ disconnect \/ delete \/ UNCHANGED vars
  PROVE  Numbered'
<1> USE DEF devVars, ringVars, seqVars, ctxVars
<1>1. TypeOK /\ Numbered /\ (Starting => \A r \in Rings : pc[r] = "idle")
  BY DEF MapInv, LapInv, IInv, Ahead, Paced
<1>2. CASE setup_start \/ setup_init_restart \/ setup_stages \/ setup_ok
  <2>1. /\ Starting /\ UNCHANGED <<present, submit, flight, outseqno, pktseq, idx, cnt, tmp>>
        /\ \E q \in PC \ Taken : pc' = [pc EXCEPT !["setup"] = q]
    BY <1>2 DEF setup_start, setup_init_restart, setup_stages, setup_ok, Starting, PC, Taken, Owning
  <2>2. \A c \in Ctx : pc[c] \notin Taken /\ pc'[c] \notin Taken
    BY <1>1, <2>1 DEF TypeOK, Ctx, Starting, Taken, Owning
  <2>3. \A c \in Ctx : ~Working(c, "out") /\ ~Working(c, "out")' /\ pc'[c] \notin {"fill", "store"}
    BY <2>2 DEF Working, Taken, Owning
  <2>4. OnWire("out")' = OnWire("out")
    BY <2>1 DEF OnWire
  <2>5. QED BY <1>1, <2>1, <2>3, <2>4, NumberedKept
<1>3. CASE unplug \/ disconnect \/ delete \/ UNCHANGED vars
  <2>1. /\ UNCHANGED <<submit, flight, outseqno, pktseq, pc, idx, cnt, tmp, sdir>>
        /\ present' => present
    <3>1. CASE unplug \/ disconnect
      BY <3>1 DEF unplug, disconnect
    <3>2. CASE delete
      BY <3>2 DEF delete, delete_start, destroy_workqueue, kill_anchored_urbs, delete_finish
    <3>3. CASE UNCHANGED vars
      BY <3>3 DEF vars
    <3>4. QED BY <1>3, <3>1, <3>2, <3>3
  <2>2. /\ OnWire("out")' = OnWire("out")
        /\ \A c \in Ctx : Ring(c)' = Ring(c) /\ (Working(c, "out")' <=> Working(c, "out"))
    BY <2>1 DEF OnWire, Ring, Working
  <2>3. QED BY <1>1, <2>1, <2>2, NumberedKept
<1>4. QED BY <1>2, <1>3

(* A plug-in, and the beginning: number 0 is due in buffer 0.              *)
LEMMA NumberedStart ==
  ASSUME Aligned, "out" \in Rings
  PROVE  (Init => Numbered) /\ (MapInv /\ probe => Numbered')
<1>1. Init => Numbered
  <2> SUFFICES ASSUME Init PROVE Numbered
    OBVIOUS
  <2>1. ~present /\ flight["out"] = <<>> /\ \A c \in Ctx : pc[c] = "idle"
    BY DEF Init
  <2>2. OnWire("out") = {}
    BY <2>1 DEF OnWire
  <2>3. QED BY <2>1, <2>2 DEF Numbered, FillsOut, InStep, SeqMapOK
<1>2. ASSUME MapInv, probe PROVE Numbered'
  <2>1. TypeOK /\ Quiet
    BY <1>2 DEF MapInv, LapInv, IInv
  <2>2. /\ \A r \in Rings : flight[r] = <<>> /\ pc[r] = "idle"
        /\ pc' = [pc EXCEPT !["setup"] = "queued"]
        /\ flight' = flight /\ outseqno' = 0 /\ submit'["out"] = 0
    BY <1>2, <2>1 DEF probe, Quiet, Aligned
  <2>3. \A c \in Ctx : pc'[c] \in {"queued", "idle"}
    BY <2>1, <2>2 DEF TypeOK, Ctx
  <2>4. \A c \in Ctx : ~Working(c, "out")'
    BY <2>3 DEF Working, Taken, Owning
  <2>5. OnWire("out")' = {}
    BY <2>2 DEF OnWire
  <2>6. seq2chunk(0) = <<0, 0>>
    <3>1. 0 = Packs * 0 + 0 /\ 0 = MaxUrb * 0 + 0 /\ 0 \in 0 .. Packs - 1 /\ 0 \in 0 .. MaxUrb - 1
          /\ MaxUrb \in Nat \ {0} /\ Packs \in Nat \ {0}
      BY ConstantsOK
    <3>2. 0 \div Packs = 0 /\ 0 % Packs = 0 /\ 0 % MaxUrb = 0
      BY <3>1, Quotient
    <3>3. QED BY <3>2 DEF seq2chunk
  <2>7. seq2chunk(outseqno)' = <<submit'["out"], 0>>
    BY <2>2, <2>6 DEF seq2chunk
  <2>8. InStep'
    BY <2>4, <2>7 DEF InStep
  <2>9. QED BY <2>3, <2>5, <2>8 DEF Numbered, FillsOut, SeqMapOK
<1>3. QED BY <1>1, <1>2

(* Put together.                                                           *)
LEMMA MapInductive ==
  ASSUME Aligned, "out" \in Rings
  PROVE  (Init => MapInv) /\ (MapInv /\ [PromptNext]_vars => MapInv')
<1>1. ResetByProbe
  BY DEF Aligned, ResetByProbe
<1>2. Init => MapInv
  BY <1>1, LapInductive, NumberedStart DEF MapInv
<1>3. ASSUME MapInv, [PromptNext]_vars PROVE MapInv'
  <2>1. LapInv' /\ TypeOK'
    <3>1. LapInv'
      BY <1>1, <1>3, LapInductive DEF MapInv
    <3>2. QED BY <3>1 DEF LapInv, IInv
  <2> SUFFICES Numbered'
    BY <2>1 DEF MapInv
  <2>2. CASE probe
    BY <1>3, <2>2, NumberedStart
  <2>3. CASE submit_check_state \/ submit_kernel
    BY <1>3, <2>1, <2>3, NumberedSubmit DEF Ctx
  <2>4. ASSUME NEW c \in Ctx, isoc_submit(c) PROVE Numbered'
    BY <1>3, <2>1, <2>4, NumberedSubmit
  <2>5. ASSUME NEW r \in Rings, isoc_cbak(r) PROVE Numbered'
    BY <1>3, <2>5, NumberedCbak
  <2>6. CASE \/ setup_start \/ setup_init_restart \/ setup_stages \/ setup_ok
             \/ unplug \/ disconnect \/ delete \/ UNCHANGED vars
    BY <1>3, <2>6, NumberedRest
  <2>7. QED BY <1>3, <2>2, <2>3, <2>4, <2>5, <2>6 DEF PromptNext, Next, worker
<1>4. QED BY <1>2, <1>3

(* Every OUT packet on the wire carries the number that seq2chunk maps     *)
(* back to it, although no lock protects outseqno and nothing ties it to   *)
(* the ring index: the check compiled in with DEBUGSEQMAP never fails on a *)
(* structure that begins with number 0, whatever the sizes, as long as the *)
(* range of the numbers is a multiple of the packets in the ring.          *)
THEOREM SeqnoMapped ==
  ASSUME Aligned, "out" \in Rings PROVE PromptSpec => []SeqMapOK
<1>1. MapInv => SeqMapOK
  BY DEF MapInv, Numbered
<1>2. QED BY <1>1, MapInductive, PTL DEF PromptSpec

=============================================================================
