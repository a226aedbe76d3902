----------------------------- MODULE OufxsInProofs -----------------------------
(***************************************************************************)
(* Proofs about what oufxs_isoc_in__cbak does with the packets it receives:*)
(* it matches a sample with the one transmitted in its place (OufxsEcho),  *)
(* and it debounces the hook (OufxsHook).                                  *)
(*                                                                         *)
(* The echo reference is found for every size of the OUT ring, every number*)
(* of URBs in flight and packets per URB, and every number of frames,      *)
(* whenever the buffers that are not in flight hold the packets of the     *)
(* longest way there and back (LongEnough).                                *)
(*                                                                         *)
(* The inductive invariant says what the ring of OUT buffers remembers (the*)
(* last MaxUrb URBs), where the board is in it, and that what waits in the *)
(* IN direction mirrors consecutive packets.  Two facts of arithmetic      *)
(* connect that with seq2chunk: the sequence number of a packet, though    *)
(* taken modulo SeqMod, tells its buffer and its place in it; and no two   *)
(* URBs less than a ring apart share a buffer.                             *)
(*                                                                         *)
(* The PBX hears of a hook state only after Debounce packets in a row that *)
(* agree with the one before them, for every debounce time, every run of   *)
(* lost packets and every bouncing of the hook.  That is about one step; it*)
(* takes an invariant that relates the debouncer, which counts down, with  *)
(* the packets that have agreed, and that says that what the PBX was told  *)
(* is what the debouncer last settled on: were they to differ, a packet    *)
(* would signal a change with no debounce at all.  The packets that agree  *)
(* are counted on their own, for the driver forgets the last one when a    *)
(* reserved board is plugged in again.                                     *)
(***************************************************************************)
EXTENDS OufxsEcho, Integers, TLAPS

(* The way of a packet: to the board and back again (Latency), and in an   *)
(* IN URB until its callback has run.                                      *)
LongEnough == Latency + RPacks + Late <= (MaxUrb - InFlight) * Packs

(* The OUT buffers hold the last MaxUrb URBs that were filled.             *)
Remembers ==
  \A u \in Nat : u < filled /\ filled <= u + MaxUrb =>
    chunk[u % MaxUrb] = [p \in Pack |-> u * Packs + p]

(* InFlight URBs are filled and not called back; the board plays from      *)
(* those.                                                                  *)
Plays ==
  /\ filled = done + InFlight
  /\ done * Packs <= sent /\ sent <= filled * Packs

(* The packets that wait mirror consecutive samples, the last one that of  *)
(* Latency frames ago.                                                     *)
Mirrors ==
  \A n \in 1 .. Len(received) : \A k \in received[n] :
    sent + n = k + 1 + Latency + Len(received)

EchoInv == TypeOK /\ Remembers /\ Plays /\ Mirrors /\ EchoMatches

-----------------------------------------------------------------------------
(***************************************************************************)
(* Arithmetic.                                                             *)
(***************************************************************************)

(* Quotient and remainder are what they say.                               *)
LEMMA DivMod ==
  ASSUME NEW a \in Nat, NEW m \in Nat \ {0}
  PROVE  a \div m \in Nat /\ a % m \in 0 .. m - 1 /\ a = m * (a \div m) + (a % m)
BY SMT

(* A product with a positive number keeps the order.                       *)
LEMMA Mult ==
  ASSUME NEW m \in Nat \ {0}, NEW a \in Int, NEW b \in Int
  PROVE  /\ m * a <= m * b <=> a <= b
         /\ m * a < m * b <=> a < b
OBVIOUS

(* There is but one quotient and one remainder.                            *)
LEMMA Unique ==
  ASSUME NEW m \in Nat \ {0}, NEW q \in Nat, NEW p \in Nat,
         NEW r \in 0 .. m - 1, NEW s \in 0 .. m - 1, m * q + r = m * p + s
  PROVE  q = p /\ r = s
<1>1. ASSUME NEW x \in Nat, NEW y \in Nat, NEW u \in 0 .. m - 1, NEW v \in 0 .. m - 1,
             x < y
      PROVE  m * x + u < m * y + v
  <2>1. m * (x + 1) <= m * y
    BY <1>1, Mult
  <2>2. m * (x + 1) = m * x + m
    OBVIOUS
  <2>3. m * x \in Nat /\ m * y \in Nat
    OBVIOUS
  <2>4. QED BY <2>1, <2>2, <2>3
<1>2. ~(q < p) /\ ~(p < q)
  BY <1>1
<1>3. QED BY <1>2

LEMMA Quotient ==
  ASSUME NEW m \in Nat \ {0}, NEW q \in Nat, NEW r \in 0 .. m - 1
  PROVE  (m * q + r) \div m = q /\ (m * q + r) % m = r
<1>1. m * q + r \in Nat
  OBVIOUS
<1>2. QED BY <1>1, DivMod, Unique

(* Two numbers with the same remainder are at least the modulus apart.     *)
LEMMA Apart ==
  ASSUME NEW m \in Nat \ {0}, NEW a \in Nat, NEW b \in Nat, a < b, b < a + m
  PROVE  a % m # b % m
<1> SUFFICES ASSUME a % m = b % m PROVE FALSE
  OBVIOUS
<1> DEFINE qa == a \div m
           qb == b \div m
           r  == a % m
<1>1. qa \in Nat /\ r \in Nat /\ a = m * qa + r
  <2>1. a \div m \in Nat /\ a % m \in 0 .. m - 1 /\ a = m * (a \div m) + (a % m)
    BY DivMod
  <2>2. QED BY <2>1
<1>2. qb \in Nat /\ b = m * qb + r
  <2>1. b \div m \in Nat /\ b % m \in 0 .. m - 1 /\ b = m * (b \div m) + (b % m)
    BY DivMod
  <2>2. QED BY <2>1
<1> HIDE DEF qa, qb, r
<1>3. m * qa \in Nat /\ m * qb \in Nat
  BY <1>1, <1>2
<1>4. m * qa < m * qb /\ m * qb < m * qa + m
  BY <1>1, <1>2, <1>3
<1>5. m * qb < m * (qa + 1)
  BY <1>1, <1>2, <1>3, <1>4
<1>6. qa < qb /\ qb < qa + 1
  BY <1>1, <1>2, <1>4, <1>5, Mult
<1>7. QED BY <1>1, <1>2, <1>6

(* The sequence number of a packet wraps at a multiple of the ring, so it  *)
(* tells the buffer of its URB and the place of the packet in it.          *)
LEMMA SeqnoTells ==
  ASSUME NEW k \in Nat
  PROVE  seq2chunk(seqno(k)) = <<(k \div Packs) % MaxUrb, k % Packs>>
<1> DEFINE ring == MaxUrb * Packs
           j == SeqMod \div ring
           w == k \div SeqMod
           s == k % SeqMod
           a == s \div Packs
           r == s % Packs
           c == a \div MaxUrb
           i == a % MaxUrb
<1>1. /\ MaxUrb \in Nat \ {0} /\ Packs \in Nat \ {0} /\ SeqMod \in Nat \ {0}
      /\ SeqMod % ring = 0
  BY EchoConstants
<1>2. ring \in Nat \ {0}
  BY <1>1
<1>3. j \in Nat /\ SeqMod = ring * j
  <2> HIDE DEF ring
  <2>1. j \in Nat /\ SeqMod = ring * j + (SeqMod % ring)
    BY <1>1, <1>2, DivMod
  <2>2. ring * j \in Nat
    BY <1>2, <2>1
  <2>3. QED BY <1>1, <2>1, <2>2
<1>4. w \in Nat /\ s \in Nat /\ k = SeqMod * w + s
  BY <1>1, DivMod
<1>5. a \in Nat /\ r \in 0 .. Packs - 1 /\ s = Packs * a + r
  <2> HIDE DEF s
  <2>1. QED BY <1>1, <1>4, DivMod
<1>6. c \in Nat /\ i \in 0 .. MaxUrb - 1 /\ a = MaxUrb * c + i
  <2> HIDE DEF a
  <2>1. QED BY <1>1, <1>5, DivMod
<1>7. seq2chunk(seqno(k)) = <<i, r>>
  BY DEF seq2chunk, seqno
<1> DEFINE q == MaxUrb * (j * w + c) + i
<1> HIDE DEF j, w, s, a, r, c, i
<1>8. j * w + c \in Nat /\ q \in Nat
  BY <1>1, <1>3, <1>4, <1>6
<1>9. k = Packs * q + r
  <2>1. SeqMod * w = Packs * (MaxUrb * (j * w))
    BY <1>1, <1>3, <1>4
  <2>2. MaxUrb * (j * w + c) = MaxUrb * (j * w) + MaxUrb * c
    BY <1>1, <1>3, <1>4, <1>6
  <2>3. Packs * q = Packs * (MaxUrb * (j * w)) + Packs * a
    BY <1>1, <1>3, <1>4, <1>6, <2>2
  <2>4. QED BY <1>1, <1>3, <1>4, <1>5, <1>6, <2>1, <2>3
<1> HIDE DEF q
<1>10. k \div Packs = q /\ k % Packs = r
  BY <1>1, <1>5, <1>8, <1>9, Quotient
<1>11. q % MaxUrb = i
  BY <1>1, <1>6, <1>8, Quotient DEF q
<1>12. QED BY <1>7, <1>10, <1>11

-----------------------------------------------------------------------------
(***************************************************************************)
(* The invariant.                                                          *)
(***************************************************************************)

(* What is in a buffer that is filled with the URB u.                      *)
LEMMA Filling ==
  ASSUME NEW u \in Nat, NEW f \in Nat, u < f
  PROVE  [p \in Pack |-> u * Packs + p] \in [Pack -> 0 .. f * Packs - 1]
<1> SUFFICES ASSUME NEW p \in Pack PROVE u * Packs + p \in 0 .. f * Packs - 1
  OBVIOUS
<1>1. Packs \in Nat \ {0} /\ p \in 0 .. Packs - 1
  BY EchoConstants DEF Pack
<1>2. Packs * (u + 1) <= Packs * f
  BY <1>1, Mult
<1>3. Packs * (u + 1) = u * Packs + Packs /\ Packs * f = f * Packs
  BY <1>1
<1>4. u * Packs \in Nat /\ f * Packs \in Nat
  BY <1>1
<1>5. QED BY <1>1, <1>2, <1>3, <1>4

LEMMA EchoInit == Init => EchoInv
<1> SUFFICES ASSUME Init PROVE EchoInv
  OBVIOUS
<1> USE EchoConstants
<1>1. /\ filled = InFlight /\ done = 0 /\ sent = 0 /\ received = <<>> /\ echo = {}
      /\ chunk = [i \in Index |-> [p \in Pack |-> IF i < InFlight THEN i * Packs + p ELSE 0]]
  BY DEF Init
<1>2. InFlight * Packs \in Nat \ {0}
  OBVIOUS
<1>3. ASSUME NEW i \in Index
      PROVE  /\ i < InFlight => chunk[i] = [p \in Pack |-> i * Packs + p]
             /\ chunk[i] \in [Pack -> 0 .. filled * Packs - 1]
  <2>1. chunk[i] = [p \in Pack |-> IF i < InFlight THEN i * Packs + p ELSE 0]
    BY <1>1
  <2>2. CASE i < InFlight
    <3>1. chunk[i] = [p \in Pack |-> i * Packs + p]
      BY <2>1, <2>2
    <3>2. i \in Nat
      BY DEF Index
    <3>3. [p \in Pack |-> i * Packs + p] \in [Pack -> 0 .. InFlight * Packs - 1]
      BY <2>2, <3>2, Filling
    <3>4. QED BY <1>1, <3>1, <3>3
  <2>3. CASE ~(i < InFlight)
    <3>1. chunk[i] = [p \in Pack |-> 0]
      BY <2>1, <2>3
    <3>2. 0 \in 0 .. filled * Packs - 1
      BY <1>1, <1>2
    <3>3. QED BY <2>3, <3>1, <3>2
  <2>4. QED BY <2>2, <2>3
<1>4. TypeOK
  <2>1. chunk \in [Index -> [Pack -> 0 .. filled * Packs - 1]]
    BY <1>1, <1>3
  <2>2. QED BY <1>1, <2>1 DEF TypeOK
<1>5. Remembers
  <2> SUFFICES ASSUME NEW u \in Nat, u < filled
               PROVE  chunk[u % MaxUrb] = [p \in Pack |-> u * Packs + p]
    BY DEF Remembers
  <2>1. u < InFlight /\ u \in 0 .. MaxUrb - 1 /\ u = MaxUrb * 0 + u
    BY <1>1
  <2>2. u % MaxUrb = u
    BY <2>1, Quotient
  <2>3. QED BY <1>3, <2>1, <2>2 DEF Index
<1>6. Plays /\ Mirrors /\ EchoMatches
  BY <1>1, <1>2 DEF Plays, Mirrors, EchoMatches
<1>7. QED BY <1>4, <1>5, <1>6 DEF EchoInv

(* A frame on the bus, whose packet is received, or lost, or mirrors none. *)
LEMMA FrameStep ==
  ASSUME EchoInv, Frame \/ FrameLost
  PROVE  EchoInv'
<1> USE EchoConstants
<1>1. /\ sent < filled * Packs /\ sent < MaxFrames /\ Len(received) < RPacks + Late
      /\ sent' = sent + 1 /\ UNCHANGED <<chunk, filled, done, echo>> /\ TypeOK
  BY DEF Frame, FrameLost, EchoInv
<1>2. /\ sent \in Nat /\ filled \in Nat /\ done \in Nat
      /\ received \in Seq(SUBSET Nat) /\ Len(received) \in Nat
  BY <1>1 DEF TypeOK
<1>3. filled * Packs \in Nat /\ done * Packs \in Nat
  BY <1>2
<1>4. Plays'
  BY <1>1, <1>2, <1>3 DEF EchoInv, Plays
<1>5. Remembers' /\ EchoMatches'
  BY <1>1 DEF EchoInv, Remembers, EchoMatches
<1>6. CASE sent < Latency /\ UNCHANGED received
  <2>1. \A n \in 1 .. Len(received) : \A k \in received[n] : FALSE
    <3> SUFFICES ASSUME NEW n \in 1 .. Len(received), NEW k \in received[n] PROVE FALSE
      OBVIOUS
    <3>1. k \in Nat
      BY <1>2
    <3>2. sent + n = k + 1 + Latency + Len(received)
      BY DEF EchoInv, Mirrors
    <3>3. QED BY <1>2, <1>6, <3>1, <3>2
  <2>2. Mirrors'
    BY <1>6, <2>1 DEF Mirrors
  <2>3. TypeOK'
    BY <1>1, <1>2, <1>6 DEF TypeOK
  <2>4. QED BY <1>4, <1>5, <2>2, <2>3 DEF EchoInv
<1>7. ASSUME sent >= Latency, NEW x \in SUBSET {sent - Latency},
             received' = Append(received, x)
      PROVE  EchoInv'
  <2>1. x \in SUBSET Nat
    BY <1>2, <1>7
  <2>2. /\ received' \in Seq(SUBSET Nat) /\ Len(received') = Len(received) + 1
        /\ received'[Len(received) + 1] = x
        /\ \A n \in 1 .. Len(received) : received'[n] = received[n]
    BY <1>2, <1>7, <2>1
  <2>3. Mirrors'
    <3> SUFFICES ASSUME NEW n \in 1 .. Len(received) + 1, NEW k \in received'[n]
                 PROVE  sent' + n = k + 1 + Latency + Len(received')
      BY <2>2 DEF Mirrors
    <3>1. CASE n = Len(received) + 1
      <4>1. k = sent - Latency
        BY <1>7, <2>2, <3>1
      <4>2. QED BY <1>1, <1>2, <2>2, <3>1, <4>1
    <3>2. CASE n \in 1 .. Len(received)
      <4>1. k \in received[n]
        BY <2>2, <3>2
      <4>2. k \in Nat
        BY <1>2, <3>2, <4>1
      <4>3. sent + n = k + 1 + Latency + Len(received)
        BY <3>2, <4>1 DEF EchoInv, Mirrors
      <4>4. QED BY <1>1, <1>2, <2>2, <3>2, <4>2, <4>3
    <3>3. QED BY <1>2, <3>1, <3>2
  <2>4. TypeOK'
    BY <1>1, <1>2, <2>2 DEF TypeOK
  <2>5. QED BY <1>4, <1>5, <2>3, <2>4 DEF EchoInv
<1>8. \/ sent < Latency /\ UNCHANGED received
      \/ sent >= Latency /\ \E x \in SUBSET {sent - Latency} : received' = Append(received, x)
  <2>1. CASE Frame
    <3>1. received' = IF sent < Latency THEN received ELSE Append(received, {sent - Latency})
      BY <2>1 DEF Frame
    <3>2. {sent - Latency} \in SUBSET {sent - Latency}
      OBVIOUS
    <3>3. sent < Latency \/ sent >= Latency
      BY <1>2
    <3>4. QED BY <3>1, <3>2, <3>3
  <2>2. CASE FrameLost
    <3>1. sent >= Latency /\ received' = Append(received, {})
      BY <2>2 DEF FrameLost
    <3>2. {} \in SUBSET {sent - Latency}
      OBVIOUS
    <3>3. QED BY <3>1, <3>2
  <2>3. QED BY <2>1, <2>2
<1>9. QED BY <1>6, <1>7, <1>8

(* The oldest URB has gone out, and the next buffer is filled.             *)
LEMMA OutStep ==
  ASSUME EchoInv, isoc_out_cbak
  PROVE  EchoInv'
<1> USE EchoConstants
<1> DEFINE new == [p \in Pack |-> filled * Packs + p]
<1>1. /\ (done + 1) * Packs <= sent /\ done' = done + 1 /\ filled' = filled + 1
      /\ chunk' = [chunk EXCEPT ![filled % MaxUrb] = new]
      /\ UNCHANGED <<sent, received, echo>> /\ TypeOK /\ Plays
  BY DEF isoc_out_cbak, EchoInv
<1>2. /\ sent \in Nat /\ filled \in Nat /\ done \in Nat
      /\ chunk \in [Index -> [Pack -> 0 .. filled * Packs - 1]]
  BY <1>1 DEF TypeOK
<1>3. filled % MaxUrb \in Index
  BY <1>2, DivMod DEF Index
<1>4. /\ filled * Packs \in Nat /\ done * Packs \in Nat
      /\ (filled + 1) * Packs = filled * Packs + Packs
  BY <1>2
<1>5. Plays'
  BY <1>1, <1>2, <1>4 DEF Plays
<1>6. Mirrors' /\ EchoMatches'
  BY <1>1 DEF EchoInv, Mirrors, EchoMatches
<1>7. chunk' \in [Index -> [Pack -> 0 .. filled' * Packs - 1]]
  <2>1. new \in [Pack -> 0 .. (filled + 1) * Packs - 1]
    <3>1. filled < filled + 1 /\ filled + 1 \in Nat
      BY <1>2
    <3>2. QED BY <1>2, <3>1, Filling
  <2>2. 0 .. filled * Packs - 1 \subseteq 0 .. (filled + 1) * Packs - 1
    BY <1>4
  <2> HIDE DEF new
  <2>3. ASSUME NEW i \in Index PROVE chunk'[i] \in [Pack -> 0 .. (filled + 1) * Packs - 1]
    <3>1. CASE i = filled % MaxUrb
      BY <1>1, <1>2, <1>3, <2>1, <3>1
    <3>2. CASE i # filled % MaxUrb
      <4>1. chunk'[i] = chunk[i]
        BY <1>1, <1>2, <3>2
      <4>2. QED BY <1>2, <2>2, <4>1
    <3>3. QED BY <3>1, <3>2
  <2>4. DOMAIN chunk' = Index /\ chunk' = [i \in Index |-> chunk'[i]]
    BY <1>1, <1>2
  <2>5. QED BY <1>1, <2>3, <2>4
<1>8. TypeOK'
  BY <1>1, <1>2, <1>7 DEF TypeOK
<1>9. Remembers'
  <2> SUFFICES ASSUME NEW u \in Nat, u < filled + 1, filled + 1 <= u + MaxUrb
               PROVE  chunk'[u % MaxUrb] = [p \in Pack |-> u * Packs + p]
    BY <1>1 DEF Remembers
  <2>1. CASE u = filled
    BY <1>1, <1>2, <1>3, <2>1
  <2>2. CASE u < filled
    <3>1. u % MaxUrb # filled % MaxUrb
      <4>1. filled < u + MaxUrb /\ MaxUrb \in Nat \ {0}
        BY <1>2
      <4>2. QED BY <1>2, <2>2, <4>1, Apart
    <3>2. u % MaxUrb \in Index
      BY DivMod DEF Index
    <3>3. chunk'[u % MaxUrb] = chunk[u % MaxUrb]
      BY <1>1, <1>2, <3>1, <3>2
    <3>4. filled <= u + MaxUrb
      BY <1>2
    <3>5. QED BY <1>2, <2>2, <3>3, <3>4 DEF EchoInv, Remembers
  <2>3. QED BY <1>2, <2>1, <2>2
<1>10. QED BY <1>5, <1>6, <1>8, <1>9 DEF EchoInv

(* A full IN URB: each sample that is mirrored still stands in its buffer. *)
LEMMA InStep ==
  ASSUME LongEnough, EchoInv, isoc_in__cbak
  PROVE  EchoInv'
<1> USE EchoConstants
<1> DEFINE mirrored == UNION {received[n] : n \in 1 .. RPacks}
<1>1. /\ Len(received) >= RPacks /\ echo' = {<<k, sample(seqno(k))>> : k \in mirrored}
      /\ received' = SubSeq(received, RPacks + 1, Len(received))
      /\ UNCHANGED <<chunk, filled, done, sent>> /\ TypeOK /\ Plays
  BY DEF isoc_in__cbak, EchoInv
<1>2. /\ sent \in Nat /\ filled \in Nat /\ done \in Nat
      /\ received \in Seq(SUBSET Nat) /\ Len(received) \in Nat
      /\ Len(received) <= RPacks + Late
  BY <1>1 DEF TypeOK
<1>3. ASSUME NEW n \in 1 .. RPacks, NEW k \in received[n]
      PROVE  k \in Nat /\ sample(seqno(k)) = k
  <2>1. n \in 1 .. Len(received) /\ k \in Nat
    BY <1>1, <1>2
  <2>2. sent + n = k + 1 + Latency + Len(received)
    BY <2>1 DEF EchoInv, Mirrors
  <2> DEFINE u == k \div Packs
             p == k % Packs
  <2>3. u \in Nat /\ p \in 0 .. Packs - 1 /\ k = Packs * u + p
    <3>1. /\ k \div Packs \in Nat /\ k % Packs \in 0 .. Packs - 1
          /\ k = Packs * (k \div Packs) + (k % Packs)
      BY <2>1, DivMod
    <3>2. QED BY <3>1
  <2>4. sample(seqno(k)) = chunk[u % MaxUrb][p]
    <3>1. seq2chunk(seqno(k)) = <<u % MaxUrb, p>>
      BY <2>1, SeqnoTells
    <3> HIDE DEF u, p
    <3>2. seq2chunk(seqno(k))[1] = u % MaxUrb /\ seq2chunk(seqno(k))[2] = p
      BY <3>1
    <3>3. QED BY <3>2 DEF sample
  <2> HIDE DEF u, p
  <2>5. k < sent /\ sent <= k + (Latency + RPacks + Late)
    BY <1>1, <1>2, <2>1, <2>2
  <2>6. u < filled
    <3>1. Packs * u \in Nat /\ Packs * filled \in Nat /\ Packs * filled = filled * Packs
      BY <1>2, <2>3
    <3>2. Packs * u <= k
      BY <2>3, <3>1
    <3>3. k < Packs * filled
      BY <1>1, <1>2, <2>1, <2>5, <3>1 DEF Plays
    <3>4. Packs * u < Packs * filled
      BY <2>1, <3>1, <3>2, <3>3
    <3>5. QED BY <1>2, <2>3, <3>4, Mult
  <2>7. filled <= u + MaxUrb
    <3>1. Packs * done < Packs * (u + 1 + (MaxUrb - InFlight))
      <4>1. done * Packs < Packs * u + Packs + (MaxUrb - InFlight) * Packs
        <5>1. /\ Packs * u \in Nat /\ (MaxUrb - InFlight) * Packs \in Nat
              /\ done * Packs \in Nat
          BY <1>2, <2>3
        <5>2. k < Packs * u + Packs
          BY <2>1, <2>3, <5>1
        <5>3. done * Packs <= k + (Latency + RPacks + Late)
          BY <1>1, <1>2, <2>1, <2>5, <5>1 DEF Plays
        <5>4. Latency + RPacks + Late <= (MaxUrb - InFlight) * Packs
          BY DEF LongEnough
        <5>5. QED BY <2>1, <5>1, <5>2, <5>3, <5>4
      <4>2. Packs * (u + 1 + (MaxUrb - InFlight))
              = Packs * u + Packs + (MaxUrb - InFlight) * Packs
        BY <2>3
      <4>3. QED BY <1>2, <4>1, <4>2
    <3>2. done < u + 1 + (MaxUrb - InFlight)
      BY <1>2, <2>3, <3>1, Mult
    <3>3. QED BY <1>1, <1>2, <2>3, <3>2 DEF Plays
  <2>8. chunk[u % MaxUrb] = [q \in Pack |-> u * Packs + q]
    BY <2>3, <2>6, <2>7 DEF EchoInv, Remembers
  <2>9. chunk[u % MaxUrb][p] = u * Packs + p
    BY <2>3, <2>8 DEF Pack
  <2>10. QED BY <2>1, <2>3, <2>4, <2>9
<1>4. \A k \in mirrored : k \in Nat /\ sample(seqno(k)) = k
  BY <1>3
<1> HIDE DEF mirrored
<1>5. echo' \subseteq Nat \X Nat /\ EchoMatches'
  BY <1>1, <1>4 DEF EchoMatches
<1>6. /\ received' \in Seq(SUBSET Nat) /\ Len(received') = Len(received) - RPacks
      /\ \A n \in 1 .. Len(received') : received'[n] = received[n + RPacks]
  BY <1>1, <1>2
<1>7. TypeOK'
  BY <1>1, <1>2, <1>5, <1>6 DEF TypeOK
<1>8. Mirrors'
  <2> SUFFICES ASSUME NEW n \in 1 .. Len(received'), NEW k \in received'[n]
               PROVE  sent' + n = k + 1 + Latency + Len(received')
    BY DEF Mirrors
  <2>1. n + RPacks \in 1 .. Len(received) /\ k \in received[n + RPacks]
    BY <1>1, <1>2, <1>6
  <2>2. k \in Nat
    BY <1>2, <2>1
  <2>3. sent + (n + RPacks) = k + 1 + Latency + Len(received)
    BY <2>1 DEF EchoInv, Mirrors
  <2>4. sent' = sent /\ Len(received) = Len(received') + RPacks
    BY <1>1, <1>2, <1>6
  <2>5. n \in Nat /\ Len(received') \in Nat
    BY <1>6
  <2>6. QED BY <1>2, <2>2, <2>3, <2>4, <2>5
<1>9. Remembers' /\ Plays'
  BY <1>1 DEF EchoInv, Remembers, Plays
<1>10. QED BY <1>5, <1>7, <1>8, <1>9 DEF EchoInv

LEMMA EchoInductive ==
  ASSUME LongEnough
  PROVE  EchoInv /\ [Next]_vars => EchoInv'
<1> SUFFICES ASSUME EchoInv, [Next]_vars PROVE EchoInv'
  OBVIOUS
<1>1. CASE UNCHANGED vars
  BY <1>1 DEF vars, EchoInv, TypeOK, Remembers, Plays, Mirrors, EchoMatches
<1>2. QED BY <1>1, FrameStep, OutStep, InStep DEF Next

(* Every received sample is matched with the sample that was transmitted,  *)
(* and not with one that has overwritten it in the meantime (seq2chunk in  *)
(* oufxs_isoc_out_submit and oufxs_isoc_in__cbak), if the buffers that are *)
(* not in flight hold the packets of the way there and back.               *)
THEOREM EchoIsMatched ==
  ASSUME LongEnough
  PROVE  Spec => []EchoMatches
<1>1. EchoInv => EchoMatches
  BY DEF EchoInv
<1>2. QED BY EchoInit, EchoInductive, <1>1, PTL DEF Spec

-----------------------------------------------------------------------------
(***************************************************************************)
(* The hook: the constants and the state of OufxsHook.                     *)
(***************************************************************************)
CONSTANTS Digits, None, Debounce, LostRun, Events

VARIABLES
  hook, key, dr19, dr20, fpc, smp, hk, dg, rounds,
  lastrxhook, debounce, debouncehook, oldrxhook, dtmf, dtmf_on,
  heard, seen, same, stale, pause, slurred, lost, toned, replugged

Hook == INSTANCE OufxsHook

(* What is needed of the constants.                                        *)
Debounces == Debounce \in Nat \ {0}

(* The hook side of oufxs_isoc_in__cbak has its types.                     *)
HookTypeOK ==
  /\ hk \in BOOLEAN /\ hook \in BOOLEAN /\ lastrxhook \in BOOLEAN
  /\ stale \in BOOLEAN /\ replugged \in BOOLEAN
  /\ debounce \in 0 .. Debounce /\ same \in 1 .. Debounce + 1

(* While a debounce runs that no new plug-in has put astray, the packets   *)
(* that have agreed make up for those it does not wait for any more.  (They*)
(* may be more: a new plug-in makes lastrxhook forget packets.)            *)
CountsDown ==
  debounce > 0 /\ ~stale => seen = lastrxhook /\ same + debounce >= Debounce + 1

(* What has been signalled is what the debouncer settled on.               *)
Signalled == oldrxhook = debouncehook

(* Only a new plug-in puts a debounce astray, and there is one.            *)
StaleOnce == stale => replugged

HookInv == HookTypeOK /\ CountsDown /\ Signalled /\ StaleOnce

-----------------------------------------------------------------------------
LEMMA HookInit == ASSUME Debounces, Hook!Init PROVE HookInv
<1>1. /\ hk = FALSE /\ hook = FALSE /\ lastrxhook = FALSE /\ debounce = 0
      /\ same = Debounce + 1 /\ oldrxhook = debouncehook /\ stale = FALSE
      /\ replugged = FALSE
  BY DEF Hook!Init
<1>2. Debounce + 1 \in 1 .. Debounce + 1 /\ 0 \in 0 .. Debounce
  BY DEF Debounces
<1>3. HookTypeOK
  BY <1>1, <1>2 DEF HookTypeOK
<1>4. CountsDown /\ Signalled /\ StaleOnce
  BY <1>1 DEF CountsDown, Signalled, StaleOnce
<1>5. QED BY <1>3, <1>4 DEF HookInv

LEMMA AtLeast ==
  ASSUME NEW d \in Nat, NEW n \in 1 .. d + 1
  PROVE  n + d >= d + 1
OBVIOUS

(* A packet with a different state starts the debouncer again, any other   *)
(* brings it one nearer its end.                                           *)
LEMMA InHook ==
  ASSUME Debounces, HookInv, Hook!in_hook, Hook!in_seen,
         UNCHANGED <<hk, hook, replugged>>
  PROVE  HookInv'
<1> USE DEF Debounces
<1>1. lastrxhook' = hk /\ seen' = hk
  BY DEF Hook!in_hook, Hook!in_seen
<1>2. same' = IF hk # seen THEN 1 ELSE IF same <= Debounce THEN same + 1 ELSE same
  BY DEF Hook!in_seen
<1>3. (stale' => stale) /\ (hk = lastrxhook => (stale => stale'))
  BY Zenon DEF Hook!in_seen
<1>4. same' \in 1 .. Debounce + 1 /\ replugged' \in BOOLEAN
  BY <1>2 DEF HookInv, HookTypeOK
<1>5. stale' \in BOOLEAN
  BY Zenon DEF Hook!in_seen
<1>6. StaleOnce'
  BY <1>3, <1>4, <1>5 DEF HookInv, StaleOnce, HookTypeOK
<1>7. CASE hk # lastrxhook
  <2>1. debounce' = Debounce /\ UNCHANGED <<debouncehook, oldrxhook>>
    BY <1>7 DEF Hook!in_hook
  <2>2. HookTypeOK'
    BY <1>1, <1>4, <1>5, <2>1 DEF HookInv, HookTypeOK
  <2>3. CountsDown'
    <3>1. seen' = lastrxhook'
      BY <1>1
    <3>2. same' \in 1 .. Debounce + 1
      BY <1>4
    <3>3. same' + Debounce >= Debounce + 1
      BY <3>2, AtLeast
    <3>4. QED BY <2>1, <3>1, <3>3 DEF CountsDown
  <2>4. Signalled'
    BY <2>1 DEF HookInv, Signalled
  <2>5. QED BY <1>6, <2>2, <2>3, <2>4 DEF HookInv
<1>8. CASE hk = lastrxhook
  <2>1. /\ debounce' = IF debounce > 0 THEN debounce - 1 ELSE 0
        /\ oldrxhook' = debouncehook'
    BY <1>8 DEF Hook!in_hook
  <2>2. HookTypeOK'
    BY <1>1, <1>4, <1>5, <2>1 DEF HookInv, HookTypeOK
  <2>3. ASSUME debounce' > 0, ~stale' PROVE same' + debounce' >= Debounce + 1
    <3>1. debounce > 0 /\ debounce' = debounce - 1 /\ debounce \in 1 .. Debounce
      BY <2>1, <2>3 DEF HookInv, HookTypeOK
    <3>2. seen = hk /\ same + debounce >= Debounce + 1
      BY <1>3, <1>8, <2>3, <3>1 DEF HookInv, CountsDown
    <3>3. same \in 1 .. Debounce + 1
      BY DEF HookInv, HookTypeOK
    <3>4. same' = IF same <= Debounce THEN same + 1 ELSE same
      BY <1>2, <3>2
    <3>5. QED BY <3>1, <3>2, <3>3, <3>4
  <2>4. CountsDown'
    BY <1>1, <2>3 DEF CountsDown
  <2>5. QED BY <1>6, <2>1, <2>2, <2>4 DEF HookInv, Signalled
<1>9. QED BY <1>7, <1>8

(* Plugged in again with a debounce of "off hook" running, the structure   *)
(* has a debounce that is astray; any other goes on as if nothing was.     *)
LEMMA Replug == ASSUME HookInv, Hook!replug PROVE HookInv'
<1>1. /\ lastrxhook' = FALSE /\ hk' = FALSE /\ replugged' = TRUE
      /\ UNCHANGED <<hook, debounce, debouncehook, oldrxhook, seen, same>>
  BY DEF Hook!replug, Hook!phoneVars
<1>2. debounce > 0 /\ lastrxhook => stale'
  BY Zenon DEF Hook!replug
<1>3. ~stale /\ stale' \in BOOLEAN
  <2>1. ~replugged
    BY DEF Hook!replug
  <2>2. ~stale
    BY <2>1 DEF HookInv, StaleOnce, HookTypeOK
  <2>3. stale' \in BOOLEAN
    BY Zenon DEF Hook!replug
  <2>4. QED BY <2>2, <2>3
<1>4. HookTypeOK' /\ Signalled' /\ StaleOnce'
  BY <1>1, <1>3 DEF HookInv, HookTypeOK, Signalled, StaleOnce
<1>5. CountsDown'
  <2>1. SUFFICES ASSUME debounce > 0, ~stale'
                 PROVE  seen = FALSE /\ same + debounce >= Debounce + 1
    BY <1>1 DEF CountsDown
  <2>2. lastrxhook = FALSE
    BY <1>2, <2>1 DEF HookInv, HookTypeOK
  <2>3. QED BY <1>3, <2>1, <2>2 DEF HookInv, CountsDown
<1>6. QED BY <1>4, <1>5 DEF HookInv

(* Nothing but a packet and a new plug-in touches what the invariant is    *)
(* about, but for the state of the hook.                                   *)
LEMMA HookFrame ==
  ASSUME HookInv, hook' \in BOOLEAN, hk' \in BOOLEAN,
         UNCHANGED <<lastrxhook, debounce, debouncehook, oldrxhook, seen, same, stale,
                     replugged>>
  PROVE  HookInv'
<1>1. /\ lastrxhook' = lastrxhook /\ debounce' = debounce /\ debouncehook' = debouncehook
      /\ oldrxhook' = oldrxhook /\ seen' = seen /\ same' = same
  OBVIOUS
<1>2. stale' = stale /\ replugged' = replugged
  OBVIOUS
<1>3. HookTypeOK' /\ Signalled'
  BY <1>1, <1>2 DEF HookInv, HookTypeOK, Signalled
<1>4. StaleOnce'
  BY <1>2 DEF HookInv, StaleOnce, HookTypeOK
<1>5. CountsDown'
  BY <1>1, <1>2 DEF HookInv, CountsDown, HookTypeOK
<1>6. QED BY <1>3, <1>4, <1>5 DEF HookInv

LEMMA HookInductive == ASSUME Debounces, HookInv, [Hook!Next]_Hook!vars PROVE HookInv'
<1>0. hook \in BOOLEAN /\ hk \in BOOLEAN
  BY DEF HookInv, HookTypeOK
<1>1. CASE UNCHANGED Hook!vars
  BY <1>0, <1>1, HookFrame
  DEF Hook!vars, Hook!phoneVars, Hook!fwVars, Hook!hookVars, Hook!seenVars
<1>2. CASE Hook!flip \/ Hook!press \/ Hook!unpress \/ Hook!alarm \/ Hook!tonedetect
  <2>1. /\ hook' = hook \/ hook' = ~hook
        /\ hk' = hk
        /\ UNCHANGED <<Hook!hookVars, Hook!seenVars, replugged>>
    BY <1>2 DEF Hook!flip, Hook!press, Hook!unpress, Hook!alarm, Hook!tonedetect,
                Hook!phoneVars, Hook!fwVars
  <2>2. hook' \in BOOLEAN
    BY <1>0, <2>1, Zenon
  <2>3. QED BY <1>0, <2>1, <2>2, HookFrame DEF Hook!hookVars, Hook!seenVars
<1>3. CASE Hook!ProcessIO
  <2>1. /\ hook' = hook /\ (hk' = hk \/ hk' = hook)
        /\ UNCHANGED <<Hook!hookVars, Hook!seenVars, replugged>>
    BY <1>3 DEF Hook!ProcessIO, Hook!fw_int, Hook!fw_poll, Hook!fw_hook, Hook!fw_dtmf,
                Hook!others, Hook!phoneVars
  <2>2. QED BY <1>0, <2>1, HookFrame DEF Hook!hookVars, Hook!seenVars
<1>4. CASE Hook!packet
  <2>1. /\ UNCHANGED <<hk, hook, replugged>>
        /\ (Hook!in_hook /\ Hook!in_seen) \/ UNCHANGED <<Hook!hookVars, Hook!seenVars>>
    BY <1>4 DEF Hook!packet, Hook!phoneVars, Hook!fwVars
  <2>2. CASE Hook!in_hook /\ Hook!in_seen
    BY <2>1, <2>2, InHook
  <2>3. CASE UNCHANGED <<Hook!hookVars, Hook!seenVars>>
    BY <1>0, <2>1, <2>3, HookFrame DEF Hook!hookVars, Hook!seenVars
  <2>4. QED BY <2>1, <2>2, <2>3
<1>5. CASE Hook!replug
  BY <1>5, Replug
<1>6. QED BY <1>1, <1>2, <1>3, <1>4, <1>5 DEF Hook!Next

LEMMA HookInvariance == ASSUME Debounces PROVE Hook!Spec => []HookInv
<1>1. Hook!Init => HookInv
  BY HookInit
<1>2. HookInv /\ [Hook!Next]_Hook!vars => HookInv'
  BY HookInductive
<1>3. QED BY <1>1, <1>2, PTL DEF Hook!Spec

(* Only a packet that ends a debounce changes what the PBX has heard.      *)
LEMMA SignalStep ==
  ASSUME Debounces, HookInv, [Hook!Next]_Hook!vars, oldrxhook' # oldrxhook
  PROVE  oldrxhook' = seen' /\ (stale \/ same' = Debounce + 1)
<1> USE DEF Debounces
<1>1. Hook!packet /\ Hook!in_hook /\ Hook!in_seen
  BY DEF Hook!Next, Hook!vars, Hook!hookVars, Hook!flip, Hook!press, Hook!unpress,
         Hook!alarm, Hook!ProcessIO, Hook!fw_int, Hook!fw_poll, Hook!fw_hook, Hook!fw_dtmf,
         Hook!others, Hook!packet, Hook!tonedetect, Hook!replug
<1>2. /\ hk = lastrxhook /\ seen' = hk
      /\ same' = IF hk # seen THEN 1 ELSE IF same <= Debounce THEN same + 1 ELSE same
      /\ debouncehook' = IF debounce = 1 THEN hk ELSE debouncehook
      /\ oldrxhook' = debouncehook'
  BY <1>1 DEF Hook!in_hook, Hook!in_seen
<1>3. debounce = 1
  BY <1>2 DEF HookInv, Signalled
<1>4. ASSUME ~stale PROVE same' = Debounce + 1
  <2>1. seen = lastrxhook /\ same + 1 >= Debounce + 1 /\ same \in 1 .. Debounce + 1
    BY <1>3, <1>4 DEF HookInv, CountsDown, HookTypeOK
  <2>2. same' = IF same <= Debounce THEN same + 1 ELSE same
    BY <1>2, <2>1
  <2>3. QED BY <2>1, <2>2
<1>5. QED BY <1>2, <1>3, <1>4

(* The PBX is told of a hook state only after Debounce more packets have   *)
(* said the same as the one before them, however the telephone bounces and *)
(* whichever packets are lost (oufxs.c:1466-1491), but for a debounce of   *)
(* the other state that was running when a reserved board was plugged in   *)
(* again (oufxs.c:1803).                                                   *)
THEOREM HookIsDebounced ==
  ASSUME Debounces
  PROVE  Hook!Spec => Hook!HookDebounced
<1>1. HookInv /\ [Hook!Next]_Hook!vars =>
        [oldrxhook' # oldrxhook =>
           oldrxhook' = seen' /\ (stale \/ same' = Debounce + 1)]_Hook!vars
  BY SignalStep DEF Hook!vars, Hook!hookVars
<1>2. QED BY HookInvariance, <1>1, PTL DEF Hook!Spec, Hook!HookDebounced
=============================================================================
