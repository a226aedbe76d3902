------------------------- MODULE OpenusbfxsRingProofs -------------------------
(***************************************************************************)
(* Proofs about one ring of the original driver, for every number of       *)
(* buffers, URBs in flight, packets and bytes, any number of calls and     *)
(* failing submissions: read copies no more than was asked for (but for the*)
(* bytes it counts twice), the user reads no byte twice or out of order,   *)
(* and the board gets what the user wrote, every byte once and in order.   *)
(*                                                                         *)
(* Everything is told in the order in which the buffers will be submitted: *)
(* rank counts from the next one, and only marking a buffer turns the ring.*)
(* The URBs on the wire rank highest, what the board has filled ranks by   *)
(* its age, and read or write, whose index submit pushes along, is never   *)
(* beyond the wire.  The one buffer out of line is the one submit has taken*)
(* and not yet marked: its process may go on with it, but that is rank 0.  *)
(***************************************************************************)
EXTENDS OpenusbfxsRing, SequenceTheorems, WellFoundedInduction, TLAPS

-----------------------------------------------------------------------------
(***************************************************************************)
(* The ring and the callback's side, in both directions.                   *)
(***************************************************************************)
size  == Packs * Chunk
start == IF spc = "mark" THEN sb ELSE sub

(* The place of a buffer in the order of submission.                       *)
rank(k) == IF start <= k THEN k - start ELSE MaxUrb + k - start

(* What is on the wire is among the last InFlight buffers submitted.       *)
lowest == MaxUrb - InFlight + (IF spc \in {"take", "mark"} THEN 1 ELSE 0)

States == {"empty", "wrtng", "wrttn", "sbmng", "sbmtd", "ready", "rding"}
Buffer == [st : States, len : 0 .. Packs, data : Seq(Int)]
Urb    == [buf : Buffers, data : Seq(Int)]

Typed ==
  /\ dir \in {"read", "write"}
  /\ buf \in [Buffers -> Buffer]
  /\ next \in Buffers /\ sub \in Buffers /\ sb \in Buffers /\ mine \in Buffers
  /\ wire \in Seq(Urb)
  /\ spc \in {"idle", "take", "mark", "urb"}
  /\ pc \in {"idle", "count", "find", "wait", "chunk", "advance", "return", "overrun"}
  /\ nonblock \in BOOLEAN /\ cut \subseteq {"early", "flush"}
  /\ taken \in Seq(Int) /\ work \in Seq(Int) /\ tiny \in Seq(Int)
  /\ asked \in Int /\ cnt \in Int /\ act \in Int /\ done \in Nat /\ kept \in Nat
  /\ urbs \in Nat /\ errors \in Nat /\ last \in Int /\ w \in Int

(* A buffer the process may use has a packet left; tinyrbuf and tinywbuf   *)
(* have room for what they are given; a call asks for a size it may.       *)
Room ==
  /\ \A k \in Buffers : buf[k].st \in Mine => buf[k].len < Packs
  /\ Len(tiny) <= Chunk
  /\ pc # "idle" => asked \in Counts

(* What read may take from is what the board sent in one transfer.         *)
fresh(k)  == buf[k].st \in {"ready", "rding"}

Filled ==
  dir = "read" => \A k \in Buffers : fresh(k) =>
    /\ Len(buf[k].data) = size
    /\ \A i \in 1 .. size : buf[k].data[i] = buf[k].data[1] + i - 1
    /\ buf[k].data[1] + size - 1 <= urbs * size

(* Everything on the wire is marked so and in order, and no more than is   *)
(* meant to be in flight.                                                  *)
Submitting ==
  /\ spc \in {"mark", "urb"} => sub = after(sb)
  /\ spc = "urb" => buf[sb].st = "sbmng"
  /\ \A i \in 1 .. Len(wire) :
       /\ buf[wire[i].buf].st = "sbmtd"
       /\ lowest <= rank(wire[i].buf)
       /\ spc = "urb" => rank(wire[i].buf) < MaxUrb - 1
  /\ \A i, j \in 1 .. Len(wire) : i < j => rank(wire[i].buf) < rank(wire[j].buf)
  /\ Len(wire) <= IF spc = "idle" THEN InFlight ELSE InFlight - 1

(* The bytes owed that write counts are those it has copied, or none.      *)
Counting == pc = "count" => asked + Len(tiny) <= Len(work)

RingInv == Typed /\ Room /\ Filled /\ Submitting /\ Counting

-----------------------------------------------------------------------------
(***************************************************************************)
(* Arithmetic of the ring.                                                 *)
(***************************************************************************)
LEMMA Wrap ==
  ASSUME NEW m \in Nat \ {0}, NEW n \in Nat, n < m + m
  PROVE  n % m = IF n < m THEN n ELSE n - m
BY SMT

LEMMA Sizes ==
  /\ MaxUrb \in Nat /\ 3 <= MaxUrb /\ InFlight \in 2 .. MaxUrb - 1
  /\ Packs \in Nat \ {0} /\ Chunk \in Nat \ {0} /\ size \in Nat \ {0}
  /\ 1 <= lowest /\ lowest \in Nat /\ lowest <= MaxUrb - 1
<1>1. /\ MaxUrb \in Nat /\ InFlight \in 2 .. MaxUrb - 1
      /\ Packs \in Nat \ {0} /\ Chunk \in Nat \ {0}
  BY RingConstants
<1>2. \A x, y \in Nat \ {0} : x * y \in Nat \ {0}
  OBVIOUS
<1>3. size \in Nat \ {0}
  BY <1>1, <1>2 DEF size
<1>4. 3 <= MaxUrb /\ InFlight \in Nat /\ 2 <= InFlight /\ InFlight <= MaxUrb - 1
  BY <1>1
<1>5. 1 <= lowest /\ lowest \in Nat /\ lowest <= MaxUrb - 1
  <2>1. CASE spc \in {"take", "mark"}
    BY <1>1, <1>4, <2>1 DEF lowest
  <2>2. CASE ~(spc \in {"take", "mark"})
    BY <1>1, <1>4, <2>2 DEF lowest
  <2>3. QED BY <2>1, <2>2
<1>6. QED BY <1>1, <1>3, <1>4, <1>5

LEMMA After ==
  ASSUME NEW k \in Buffers
  PROVE  after(k) = (IF k = MaxUrb - 1 THEN 0 ELSE k + 1) /\ after(k) \in Buffers /\ after(k) # k
<1> DEFINE n == k + 1
<1>1. MaxUrb \in Nat \ {0} /\ 3 <= MaxUrb /\ k \in 0 .. MaxUrb - 1
  BY Sizes DEF Buffers
<1>2. n \in Nat /\ n <= MaxUrb /\ n < MaxUrb + MaxUrb
  BY <1>1
<1>3. n % MaxUrb = IF n < MaxUrb THEN n ELSE n - MaxUrb
  <2> HIDE DEF n
  <2>1. QED BY <1>1, <1>2, Wrap
<1>4. after(k) = n % MaxUrb
  BY DEF after
<1> HIDE DEF n
<1>5. after(k) = IF n < MaxUrb THEN n ELSE n - MaxUrb
  BY <1>3, <1>4
<1>6. QED BY <1>1, <1>5 DEF Buffers, n

LEMMA Ranks ==
  ASSUME Typed
  PROVE  /\ start \in Buffers /\ rank(start) = 0
         /\ \A k \in Buffers : rank(k) \in 0 .. MaxUrb - 1
         /\ \A k, l \in Buffers : rank(k) = rank(l) => k = l
         /\ \A k \in Buffers :
              rank(after(k)) = IF rank(k) = MaxUrb - 1 THEN 0 ELSE rank(k) + 1
<1>1. start \in Buffers
  BY DEF start, Typed
<1>2. \A k \in Buffers : k \in 0 .. MaxUrb - 1
  BY DEF Buffers
<1>3. \A k \in Buffers :
        rank(after(k)) = IF rank(k) = MaxUrb - 1 THEN 0 ELSE rank(k) + 1
  <2> TAKE k \in Buffers
  <2>1. after(k) = IF k = MaxUrb - 1 THEN 0 ELSE k + 1
    BY After
  <2>2. QED BY <1>1, <1>2, <2>1, Sizes DEF rank
<1>4. QED BY <1>1, <1>2, <1>3, Sizes DEF rank

(* Marking a buffer turns the ring by one.                                 *)
LEMMA Turn ==
  ASSUME Typed, start' = after(start)
  PROVE  \A k \in Buffers : rank(k)' = IF k = start THEN MaxUrb - 1 ELSE rank(k) - 1
<1>1. start \in Buffers /\ start' = IF start = MaxUrb - 1 THEN 0 ELSE start + 1
  BY After, Ranks
<1>2. \A k \in Buffers : k \in 0 .. MaxUrb - 1
  BY DEF Buffers
<1>3. QED BY <1>1, <1>2, Sizes DEF rank

LEMMA Stays ==
  ASSUME start' = start
  PROVE  \A k : rank(k)' = rank(k)
BY DEF rank

-----------------------------------------------------------------------------
(***************************************************************************)
(* What the steps do to the sequences.                                     *)
(***************************************************************************)
LEMMA Times ==
  /\ \A x, y, z \in Nat : (x * y) * z = x * (y * z)
  /\ \A x, y \in Nat : (x + 1) * y = x * y + y
  /\ \A x, y \in Nat : x * y \in Nat
  /\ \A x, y, z \in Nat : x < y => x * z + z <= y * z
<1>1. /\ \A x, y, z \in Nat : (x * y) * z = x * (y * z)
      /\ \A x, y \in Nat : (x + 1) * y = x * y + y
      /\ \A x, y \in Nat : x * y \in Nat
  OBVIOUS
<1>2. ASSUME NEW x \in Nat, NEW y \in Nat, NEW z \in Nat, x < y
      PROVE  x * z + z <= y * z
  <2> DEFINE d == y - (x + 1)
  <2>1. d \in Nat /\ y = (x + 1) + d
    BY <1>2
  <2> HIDE DEF d
  <2>2. \A a, b, c \in Nat : (a + b) * c = a * c + b * c /\ b * c \in Nat /\ a * c \in Nat
    OBVIOUS
  <2>3. y * z = (x + 1) * z + d * z /\ d * z \in Nat /\ x + 1 \in Nat /\ (x + 1) * z \in Nat
    BY <2>1, <2>2
  <2>4. (x + 1) * z = x * z + z /\ x * z \in Nat
    BY <1>1
  <2>5. QED BY <2>3, <2>4
<1>3. QED BY <1>1, <1>2

(* One transfer of the board.                                              *)
LEMMA Received ==
  ASSUME NEW u \in Nat
  PROVE  /\ received(u) \in Seq(Int) /\ Len(received(u)) = size
         /\ \A i \in 1 .. size : received(u)[i] = u * size + i
<1>1. u * Packs * Chunk = u * size /\ u * size \in Nat /\ size \in Nat
  <2>1. Packs \in Nat /\ Chunk \in Nat /\ size \in Nat
    BY Sizes
  <2>2. u * Packs * Chunk = u * (Packs * Chunk)
    <3>1. \A x, y, z \in Nat : x * y * z = x * (y * z)
      OBVIOUS
    <3>2. QED BY <2>1, <3>1, Zenon
  <2>3. u * size \in Nat
    BY <2>1, Times, Zenon
  <2>4. QED BY <2>1, <2>2, <2>3, Zenon DEF size
<1>2. received(u) = [i \in 1 .. size |-> u * size + i]
  BY <1>1, Zenon DEF received, size
<1>3. \A i \in 1 .. size : u * size + i \in Int
  BY <1>1
<1>4. QED BY <1>1, <1>2, <1>3

(* A packet of a buffer, or the last part of one.                          *)
LEMMA Part ==
  ASSUME NEW s \in Seq(Int), NEW m \in Nat, NEW n \in Nat, m <= n, n <= Len(s)
  PROVE  /\ SubSeq(s, m + 1, n) \in Seq(Int) /\ Len(SubSeq(s, m + 1, n)) = n - m
         /\ \A i \in 1 .. n - m : SubSeq(s, m + 1, n)[i] = s[m + i]
<1>1. \A i \in m + 1 .. n : i \in 1 .. Len(s)
  OBVIOUS
<1>2. \A i \in m + 1 .. n : s[i] \in Int
  BY <1>1, ElementOfSeq
<1> DEFINE p == m + 1
<1>3. p \in Int /\ n \in Int /\ n - p + 1 = n - m /\ \A i \in p .. n : s[i] \in Int
  BY <1>2
<1>4. \A i \in 1 .. n - m : p + i - 1 = m + i
  OBVIOUS
<1>5. p <= n \/ n - m = 0
  OBVIOUS
<1> HIDE DEF p
<1>6. /\ SubSeq(s, p, n) \in Seq(Int)
      /\ Len(SubSeq(s, p, n)) = IF p <= n THEN n - p + 1 ELSE 0
      /\ \A i \in 1 .. n - p + 1 : SubSeq(s, p, n)[i] = s[p + i - 1]
  BY <1>3, SubSeqProperties
<1>7. /\ SubSeq(s, p, n) \in Seq(Int) /\ Len(SubSeq(s, p, n)) = n - m
      /\ \A i \in 1 .. n - m : SubSeq(s, p, n)[i] = s[m + i]
  BY <1>3, <1>4, <1>5, <1>6
<1>8. QED BY <1>7 DEF p

(* The count that read goes on with is a size_t.                           *)
LEMMA Count ==
  ASSUME Typed, Room, pc # "idle"
  PROVE  (SizeT + cnt - act) % SizeT \in Nat
<1>1. SizeT \in Nat /\ asked \in Counts /\ asked + Chunk < SizeT /\ asked \in Nat
  BY RingConstants DEF Room
<1>2. SizeT > 0
  BY <1>1, Sizes
<1>3. \A i \in Int, n \in Nat \ {0} : i % n \in Nat
  OBVIOUS
<1>4. SizeT + cnt - act \in Int
  BY <1>1 DEF Typed
<1>5. QED BY <1>1, <1>2, <1>3, <1>4

-----------------------------------------------------------------------------
(***************************************************************************)
(* Types, room and what the board has filled, step by step.                *)
(***************************************************************************)
Sound == Typed /\ Room /\ Filled

LEMMA Callback ==
  ASSUME Sound, callback
  PROVE  Sound'
<1> DEFINE u == Head(wire)
           new == IF dir = "read" THEN [st |-> "ready", len |-> 0, data |-> received(urbs)] ELSE Empty
<1>1. wire \in Seq(Urb) /\ wire # <<>> /\ urbs \in Nat /\ last \in Int /\ buf \in [Buffers -> Buffer]
  BY DEF callback, Sound, Typed
<1>2. u \in Urb /\ Tail(wire) \in Seq(Urb)
  <2> DEFINE R == Urb
  <2>1. wire \in Seq(R) /\ wire # <<>>
    BY <1>1
  <2> HIDE DEF R
  <2>2. Head(wire) \in R /\ Tail(wire) \in Seq(R)
    BY <2>1, HeadTailProperties
  <2>3. QED BY <2>2 DEF R
<1>3. u.buf \in Buffers /\ u.data \in Seq(Int)
  BY <1>2 DEF Urb
<1>4. last' \in Int
  <2>1. last' = IF u.data = <<>> THEN last ELSE u.data[Len(u.data)]
    BY DEF callback
  <2>2. u.data # <<>> => Len(u.data) \in 1 .. Len(u.data)
    BY <1>3, EmptySeq
  <2>3. u.data # <<>> => u.data[Len(u.data)] \in Int
    BY <1>3, <2>2, ElementOfSeq
  <2>4. QED BY <1>1, <2>1, <2>3
<1>5. new \in Buffer /\ buf' = [buf EXCEPT ![u.buf] = new]
  <2>1. buf' = [buf EXCEPT ![u.buf] = new]
    BY DEF callback
  <2>2. received(urbs) \in Seq(Int) /\ <<>> \in Seq(Int)
    BY <1>1, Received, EmptySeq
  <2>3. 0 \in 0 .. Packs /\ "ready" \in States /\ "empty" \in States
    BY Sizes DEF States
  <2>4. [st |-> "ready", len |-> 0, data |-> received(urbs)] \in Buffer
    BY <2>2, <2>3 DEF Buffer
  <2>5. Empty \in Buffer
    BY <2>2, <2>3 DEF Buffer, Empty
  <2>6. QED BY <2>1, <2>4, <2>5
<1> HIDE DEF u
<1>6. Typed'
  <2> HIDE DEF new
  <2>1. buf' \in [Buffers -> Buffer]
    BY <1>1, <1>5
  <2>2. wire' = Tail(wire) /\ urbs' = urbs + 1 /\ spc' = "take"
        /\ UNCHANGED <<dir, next, sub, sb, taken, errors, pc, call_, tiny, w, cut, calls>>
    BY DEF callback, u
  <2>3. QED BY <1>1, <1>2, <1>4, <2>1, <2>2 DEF Sound, Typed, call_
<1>7. UNCHANGED <<dir, pc, asked, tiny>> /\ urbs' = urbs + 1
  BY DEF callback, call_
<1>8. Room'
  <2>1. \A k \in Buffers : buf'[k].st \in Mine' => buf'[k].len < Packs
    <3> TAKE k \in Buffers
    <3>1. Mine' = Mine
      BY <1>7 DEF Mine
    <3>2. CASE k = u.buf
      <4>1. buf'[k] = new
        BY <1>1, <1>3, <1>5, <3>2
      <4>2. new.len = 0
        BY DEF Empty
      <4> HIDE DEF new
      <4>3. QED BY <4>1, <4>2, Sizes
    <3>3. CASE k # u.buf
      BY <1>1, <1>5, <3>1, <3>3 DEF Sound, Room
    <3>4. QED BY <3>2, <3>3
  <2>2. QED BY <1>7, <2>1 DEF Sound, Room
<1>9. Filled'
  <2> SUFFICES ASSUME dir = "read", NEW k \in Buffers, fresh(k)'
               PROVE  /\ Len(buf'[k].data) = size
                      /\ \A i \in 1 .. size : buf'[k].data[i] = buf'[k].data[1] + i - 1
                      /\ buf'[k].data[1] + size - 1 <= urbs' * size
    BY <1>7 DEF Filled, size
  <2>1. urbs' * size = urbs * size + size /\ urbs * size \in Nat /\ size \in Nat \ {0}
    BY <1>1, <1>7, Sizes, Times
  <2>2. CASE k = u.buf
    <3>1. buf'[k].data = received(urbs)
      BY <1>1, <1>3, <1>5, <2>2
    <3>2. /\ Len(received(urbs)) = size
          /\ \A i \in 1 .. size : received(urbs)[i] = urbs * size + i
      BY <1>1, Received
    <3>3. 1 \in 1 .. size
      BY <2>1
    <3>4. QED BY <2>1, <3>1, <3>2, <3>3
  <2>3. CASE k # u.buf
    <3>1. buf'[k] = buf[k]
      BY <1>1, <1>5, <2>3
    <3>2. fresh(k)
      BY <3>1 DEF fresh
    <3>3. /\ Len(buf[k].data) = size
          /\ \A i \in 1 .. size : buf[k].data[i] = buf[k].data[1] + i - 1
          /\ buf[k].data[1] + size - 1 <= urbs * size
      BY <3>2 DEF Sound, Filled
    <3>4. buf[k].data[1] \in Int
      <4>1. buf[k].data \in Seq(Int) /\ 1 \in 1 .. Len(buf[k].data)
        BY <1>1, <2>1, <3>3 DEF Buffer
      <4>2. QED BY <4>1, ElementOfSeq
    <3>5. QED BY <2>1, <3>1, <3>3, <3>4
  <2>4. QED BY <2>2, <2>3
<1>10. QED BY <1>6, <1>8, <1>9 DEF Sound

(* A step that leaves what may be read or written alone, or takes it away. *)
LEMMA Narrower ==
  ASSUME Sound, Typed', UNCHANGED <<dir, urbs>>, Len(tiny') <= Chunk,
         pc' # "idle" => asked' \in Counts,
         \A k \in Buffers :
           \/ buf'[k] = buf[k]
           \/ buf'[k].st \notin Mine
           \/ buf[k].st \in Mine /\ dir = "read" /\ buf'[k].data = buf[k].data /\ buf'[k].len < Packs
           \/ dir = "write" /\ buf'[k].len < Packs
  PROVE  Sound'
<1>1. Mine' = Mine
  BY DEF Mine
<1>2. Room'
  BY <1>1 DEF Room, Sound
<1>3. Filled'
  <2> SUFFICES ASSUME dir = "read", NEW k \in Buffers, buf'[k].st \in {"ready", "rding"}
               PROVE  /\ Len(buf'[k].data) = size
                      /\ \A i \in 1 .. size : buf'[k].data[i] = buf'[k].data[1] + i - 1
                      /\ buf'[k].data[1] + size - 1 <= urbs * size
    BY DEF Filled, size, fresh
  <2>1. buf'[k].st \in Mine
    BY DEF Mine
  <2>2. buf[k].st \in {"ready", "rding"} /\ buf'[k].data = buf[k].data
    BY <2>1 DEF Mine
  <2>3. QED BY <2>2 DEF Sound, Filled, fresh
<1>4. QED BY <1>2, <1>3 DEF Sound

LEMMA Submit ==
  ASSUME Sound, submit_take \/ submit_mark \/ submit_urb
  PROVE  Sound'
<1>0. sb \in Buffers /\ buf \in [Buffers -> Buffer] /\ buf[sb].data \in Seq(Int) /\ buf[sb] \in Buffer
  BY DEF Sound, Typed, Buffer
<1>1. CASE submit_take
  <2>1. Typed'
    <3>1. after(sub) \in Buffers /\ after(next) \in Buffers
      BY After DEF Sound, Typed
    <3>2. QED BY <1>1, <3>1 DEF submit_take, Sound, Typed, call_, user
  <2>2. QED BY <1>1, <2>1, Narrower DEF submit_take, call_, user, Sound, Room
<1>2. CASE submit_mark
  <2>1. buf' = [buf EXCEPT ![sb].st = "sbmng"]
    BY <1>2 DEF submit_mark
  <2>2. buf' \in [Buffers -> Buffer] /\ \A k \in Buffers : IF k = sb THEN buf'[k].st = "sbmng" ELSE buf'[k] = buf[k]
    <3>1. [buf[sb] EXCEPT !.st = "sbmng"] \in Buffer
      BY <1>0 DEF Buffer, States
    <3>2. [buf[sb] EXCEPT !.st = "sbmng"].st = "sbmng"
      BY <1>0 DEF Buffer
    <3>3. QED BY <1>0, <2>1, <3>1, <3>2
  <2>3. taken' \in Seq(Int)
    BY <1>0, <1>2, EmptySeq DEF submit_mark
  <2>4. Typed'
    BY <1>2, <2>2, <2>3 DEF submit_mark, Sound, Typed, call_, user
  <2>5. "sbmng" \notin Mine
    BY DEF Mine
  <2>6. \A k \in Buffers : buf'[k] = buf[k] \/ buf'[k].st \notin Mine
    BY <2>2, <2>5
  <2>7. QED BY <1>2, <2>4, <2>6, Narrower DEF submit_mark, call_, user, Sound, Room
<1>3. CASE submit_urb
  <2>1. \/ /\ buf' = [buf EXCEPT ![sb].st = "sbmtd"] /\ wire' = Append(wire, [buf |-> sb, data |-> taken])
           /\ UNCHANGED errors
        \/ buf' = [buf EXCEPT ![sb] = Empty] /\ UNCHANGED wire /\ errors' = errors + 1
    BY <1>3 DEF submit_urb
  <2>2. buf' \in [Buffers -> Buffer]
        /\ \A k \in Buffers : buf'[k] = buf[k] \/ buf'[k].st = "sbmtd" \/ buf'[k] = Empty
    <3>1. CASE buf' = [buf EXCEPT ![sb].st = "sbmtd"]
      <4>1. [buf[sb] EXCEPT !.st = "sbmtd"] \in Buffer
        BY <1>0 DEF Buffer, States
      <4>2. [buf[sb] EXCEPT !.st = "sbmtd"].st = "sbmtd"
        BY <1>0 DEF Buffer
      <4>3. QED BY <1>0, <3>1, <4>1, <4>2
    <3>2. CASE buf' = [buf EXCEPT ![sb] = Empty]
      <4>1. 0 \in 0 .. Packs /\ "empty" \in States /\ <<>> \in Seq(Int)
        BY Sizes, EmptySeq DEF States
      <4>2. Empty \in Buffer
        BY <4>1 DEF Empty, Buffer
      <4>3. QED BY <1>0, <3>2, <4>2
    <3>3. QED BY <2>1, <3>1, <3>2
  <2>3. wire' \in Seq(Urb)
    <3> DEFINE R == Urb
               e == [buf |-> sb, data |-> taken]
    <3>1. wire \in Seq(R) /\ e \in R
      BY <1>0 DEF Sound, Typed, Urb
    <3> HIDE DEF R, e
    <3>2. Append(wire, e) \in Seq(R)
      BY <3>1, AppendProperties
    <3>3. QED BY <2>1, <3>1, <3>2 DEF R, e
  <2>4. <<>> \in Seq(Int) /\ errors' \in Nat
    BY <2>1, EmptySeq DEF Sound, Typed
  <2>5. Typed'
    BY <1>3, <2>2, <2>3, <2>4 DEF submit_urb, Sound, Typed, call_, user
  <2>6. "sbmtd" \notin Mine /\ Empty.st = "empty" /\ Empty.len = 0 /\ ("empty" \in Mine => dir = "write")
    BY DEF Mine, Empty, Sound, Typed
  <2>7. \A k \in Buffers : \/ buf'[k] = buf[k] \/ buf'[k].st \notin Mine
                           \/ dir = "write" /\ buf'[k].len < Packs
    BY <2>2, <2>6, Sizes
  <2>8. QED BY <1>3, <2>5, <2>7, Narrower DEF submit_urb, call_, user, Sound, Room
<1>4. QED BY <1>1, <1>2, <1>3

(* A packet that is still to be read lies in the buffer.                   *)
LEMMA Packet ==
  ASSUME Sound, dir = "read", NEW k \in Buffers, fresh(k)
  PROVE  /\ buf[k] \in Buffer /\ buf[k].data \in Seq(Int) /\ Len(buf[k].data) = size
         /\ buf[k].len \in Nat /\ buf[k].len < Packs
         /\ buf[k].len * Chunk \in Nat /\ buf[k].len * Chunk + Chunk <= size
         /\ buf[k].data[1] \in Int
         /\ \A i \in 1 .. size : buf[k].data[i] = buf[k].data[1] + i - 1
         /\ buf[k].data[1] + size - 1 <= urbs * size
<1>1. buf[k] \in Buffer
  BY DEF Sound, Typed
<1>2. buf[k].data \in Seq(Int) /\ buf[k].len \in Nat
  BY <1>1 DEF Buffer
<1>3. buf[k].len < Packs
  BY DEF Sound, Room, Mine, fresh
<1>4. /\ Len(buf[k].data) = size
      /\ \A i \in 1 .. size : buf[k].data[i] = buf[k].data[1] + i - 1
      /\ buf[k].data[1] + size - 1 <= urbs * size
  BY DEF Sound, Filled
<1>5. buf[k].len * Chunk \in Nat /\ buf[k].len * Chunk + Chunk <= size
  <2>1. Packs \in Nat /\ Chunk \in Nat
    BY Sizes
  <2>2. QED BY <1>2, <1>3, <2>1, Times, Zenon DEF size
<1>6. 1 \in 1 .. Len(buf[k].data)
  BY <1>4, Sizes
<1>7. buf[k].data[1] \in Int
  BY <1>2, <1>6, ElementOfSeq
<1>8. QED BY <1>1, <1>2, <1>3, <1>4, <1>5, <1>7

LEMMA Waiting ==
  ASSUME Sound, waiting
  PROVE  Sound'
<1>1. CASE wait_ready \/ wait_nonblock
  <2>1. Typed'
    BY <1>1 DEF wait_ready, wait_nonblock, Sound, Typed, ring, eng, call_, user
  <2>2. QED BY <1>1, <2>1, Narrower DEF wait_ready, wait_nonblock, ring, eng, call_, user, Sound, Room
<1>2. CASE wait_signal \/ wait_wouldblock
  <2>1. pc' = "idle" /\ work' = <<>> /\ mine' = 0 /\ nonblock' = FALSE
        /\ asked' = 0 /\ cnt' = 0 /\ act' = 0 /\ done' = 0 /\ kept' = 0
        /\ UNCHANGED <<dir, ring, eng, tiny, calls>>
    BY <1>2 DEF wait_signal, wait_wouldblock, idle_again
  <2>2. Len(work) \in Nat /\ done \in Nat /\ asked \in Int /\ w \in Int /\ last \in Int
    BY DEF Sound, Typed
  <2>3. w' \in Int
    <3>1. w' = w - asked \/ w' = w \/ w' = w - asked + done
      BY <1>2 DEF wait_signal, wait_wouldblock
    <3>2. QED BY <2>2, <3>1
  <2>4. last' \in Int
    <3>1. last' = last \/ last' = IF work = <<>> THEN last ELSE work[Len(work)]
      BY <1>2 DEF wait_signal, wait_wouldblock, deliver
    <3>2. work # <<>> => work[Len(work)] \in Int
      <4>1. work # <<>> => work \in Seq(Int) /\ Len(work) \in 1 .. Len(work)
        BY EmptySeq DEF Sound, Typed
      <4>2. QED BY <4>1, ElementOfSeq
    <3>3. QED BY <2>2, <3>1, <3>2
  <2>5. cut' \subseteq {"early", "flush"}
    <3>1. cut' = cut \/ cut' = cut \union {"early"}
      BY <1>2 DEF wait_signal, wait_wouldblock
    <3>2. cut \subseteq {"early", "flush"}
      BY DEF Sound, Typed
    <3>3. QED BY <3>1, <3>2
  <2>6. 0 \in Buffers /\ <<>> \in Seq(Int)
    BY Sizes, EmptySeq DEF Buffers
  <2>7. Typed'
    <3>1. nonblock' \in BOOLEAN /\ pc' \in {"idle", "count", "find", "wait", "chunk", "advance", "return", "overrun"}
      BY <2>1, Zenon
    <3>2. /\ mine' \in Buffers /\ work' \in Seq(Int)
          /\ asked' \in Int /\ cnt' \in Int /\ act' \in Int /\ done' \in Nat /\ kept' \in Nat
      BY <2>1, <2>6
    <3>3. Typed
      BY DEF Sound
    <3>4. UNCHANGED <<dir, buf, next, sub, wire, spc, sb, taken, tiny, urbs, errors>>
      BY <2>1 DEF ring, eng
    <3>5. QED BY <2>3, <2>4, <2>5, <3>1, <3>2, <3>3, <3>4 DEF Typed
  <2>8. QED BY <2>1, <2>7, Narrower DEF ring, eng, Sound, Room
<1>3. QED BY <1>1, <1>2 DEF waiting

(* What a read or a write that ends leaves.                                *)
LEMMA Ends ==
  ASSUME Sound, idle_again, UNCHANGED <<dir, ring, eng, cut>>,
         last' \in Int, w' \in Int, tiny' \in Seq(Int), Len(tiny') <= Chunk
  PROVE  Sound'
<1>1. 0 \in Buffers /\ <<>> \in Seq(Int)
  BY Sizes, EmptySeq DEF Buffers
<1>2. pc' = "idle" /\ work' = <<>> /\ mine' = 0 /\ nonblock' = FALSE
      /\ asked' = 0 /\ cnt' = 0 /\ act' = 0 /\ done' = 0 /\ kept' = 0
  BY DEF idle_again
<1>3. cut' \subseteq {"early", "flush"}
  BY DEF Sound, Typed
<1>4. last' \in Int /\ w' \in Int /\ tiny' \in Seq(Int)
  OBVIOUS
<1>5. UNCHANGED <<dir, buf, next, sub, wire, spc, sb, taken, urbs, errors>>
  BY DEF ring, eng
<1>6. Typed'
  <2>1. 0 \in Int /\ 0 \in Nat /\ FALSE \in BOOLEAN /\ pc' \in {"idle", "find"}
    BY <1>2
  <2>2. /\ pc' \in {"idle", "count", "find", "wait", "chunk", "advance", "return", "overrun"}
        /\ nonblock' \in BOOLEAN /\ mine' \in Buffers /\ work' \in Seq(Int)
        /\ asked' \in Int /\ cnt' \in Int /\ act' \in Int /\ done' \in Nat /\ kept' \in Nat
    BY <1>1, <1>2, <2>1
  <2>3. Typed
    BY DEF Sound
  <2>4. QED BY <1>3, <1>4, <1>5, <2>2, <2>3, Zenon DEF Typed
<1>7. QED BY <1>2, <1>5, <1>6, Narrower

(* The last byte of what read hands over.                                  *)
LEMMA Delivered ==
  ASSUME NEW b \in Seq(Int), deliver(b), last \in Int
  PROVE  last' \in Int
<1>1. b # <<>> => Len(b) \in 1 .. Len(b)
  BY EmptySeq
<1>2. b # <<>> => b[Len(b)] \in Int
  BY <1>1, ElementOfSeq
<1>3. QED BY <1>2 DEF deliver

LEMMA Read ==
  ASSUME Sound, read
  PROVE  Sound'
<1>0. /\ dir = "read" /\ tiny \in Seq(Int) /\ work \in Seq(Int) /\ last \in Int /\ cnt \in Int /\ w \in Int
      /\ <<>> \in Seq(Int) /\ Len(<<>>) = 0 /\ Len(tiny) \in Nat /\ Chunk \in Nat \ {0} /\ Len(tiny) <= Chunk
  <2>1. dir = "read"
    BY DEF read, read_small, read_call, read_find, read_lost, read_chunk, read_advance, read_return
  <2>2. tiny \in Seq(Int) /\ work \in Seq(Int) /\ last \in Int /\ cnt \in Int /\ w \in Int /\ Len(tiny) <= Chunk
    BY DEF Sound, Typed, Room
  <2>3. QED BY <2>1, <2>2, EmptySeq, Sizes
<1>1. CASE read_small
  <2>1. PICK c \in Counts : /\ c <= Len(tiny)
                            /\ deliver(SubSeq(tiny, 1, c)) /\ tiny' = SubSeq(tiny, c + 1, Len(tiny))
    BY <1>1 DEF read_small
  <2>2. c \in Nat /\ 0 + 1 = 1 /\ Len(tiny) <= Len(tiny) /\ 0 <= c
    BY <1>0, RingConstants
  <2>3. SubSeq(tiny, 1, c) \in Seq(Int)
    BY <1>0, <2>1, <2>2, Part
  <2>4. tiny' \in Seq(Int) /\ Len(tiny') = Len(tiny) - c
    BY <1>0, <2>1, <2>2, Part
  <2>5. last' \in Int
    BY <1>0, <2>1, <2>3, Delivered
  <2>6. Typed'
    BY <1>1, <2>4, <2>5 DEF read_small, Sound, Typed, ring, eng, call_
  <2>7. Len(tiny') <= Chunk
    BY <1>0, <2>2, <2>4
  <2>8. QED BY <1>1, <2>6, <2>7, Narrower DEF read_small, ring, eng, call_
<1>2. CASE read_call
  <2>1. PICK c \in Counts, nb \in BOOLEAN : asked' = c /\ cnt' = c - Len(tiny) /\ nonblock' = nb
    BY <1>2 DEF read_call
  <2>2. asked' \in Int /\ cnt' \in Int /\ nonblock' \in BOOLEAN /\ act' \in Int /\ kept' \in Nat
    BY <1>0, <1>2, <2>1, RingConstants DEF read_call
  <2>3. Typed'
    BY <1>0, <1>2, <2>2 DEF read_call, Sound, Typed, ring, eng
  <2>4. QED BY <1>0, <1>2, <2>1, <2>3, Narrower DEF read_call, ring, eng
<1>3. CASE read_find \/ read_lost
  <2>1. cnt' \in Nat
    BY <1>3, Count DEF read_find, read_lost, Sound
  <2>2. /\ UNCHANGED <<dir, buf, next, sub, wire, spc, sb, taken, urbs, errors>>
        /\ UNCHANGED <<nonblock, asked, work, done, kept, tiny, last, w, cut>>
        /\ act' = 0 /\ mine' \in {mine, next} /\ pc' \in {"wait", "find"}
    BY <1>3 DEF read_find, read_lost, ring, eng, user
  <2>3. Typed
    BY DEF Sound
  <2>4. act' \in Int /\ mine' \in Buffers /\ cnt' \in Int
        /\ pc' \in {"idle", "count", "find", "wait", "chunk", "advance", "return", "overrun"}
    BY <2>1, <2>2, <2>3 DEF Typed
  <2>5. Typed'
    BY <2>2, <2>3, <2>4, Zenon DEF Typed
  <2>6. QED BY <1>3, <2>5, Narrower DEF read_find, read_lost, ring, eng, user, Sound, Room
<1>4. CASE read_chunk
  <2> DEFINE c == (SizeT + cnt - act) % SizeT
             some == IF c < Chunk THEN c ELSE Chunk
             from == buf[mine].len * Chunk
             full == buf[mine].len + 1 = Packs
  <2>1. /\ buf[mine].st \in Mine /\ cnt' = c /\ act' = some
        /\ work' = work \o SubSeq(buf[mine].data, from + 1, from + some)
        /\ tiny' = IF c < Chunk THEN SubSeq(buf[mine].data, from + c + 1, from + Chunk) ELSE tiny
        /\ buf' = [buf EXCEPT ![mine].st = IF full THEN "empty" ELSE "rding", ![mine].len = @ + 1]
        /\ pc' = IF Len(work') > asked THEN "overrun"
                 ELSE IF full THEN "advance"
                 ELSE IF c <= Chunk THEN "return" ELSE "chunk"
        /\ pc = "chunk"
        /\ UNCHANGED <<dir, next, sub, wire, eng, mine, nonblock, asked, done, kept, last, w, cut, calls>>
    BY <1>4 DEF read_chunk
  <2>2. mine \in Buffers /\ fresh(mine)
    BY <1>0, <2>1 DEF Mine, fresh, Sound, Typed
  <2>3. /\ buf[mine] \in Buffer /\ buf[mine].data \in Seq(Int) /\ Len(buf[mine].data) = size
        /\ buf[mine].len \in Nat /\ buf[mine].len < Packs
        /\ from \in Nat /\ from + Chunk <= size
    BY <1>0, <2>2, Packet
  <2>4. c \in Nat
    BY <2>1, Count DEF Sound
  <2> HIDE DEF c, from
  <2>5. some \in Nat /\ some <= Chunk /\ (c < Chunk => some = c)
    BY <1>0, <2>4
  <2>6. work' \in Seq(Int)
    <3>0. size \in Int /\ Chunk \in Nat
      BY Sizes DEF size
    <3> HIDE DEF some
    <3>1. from + some \in Nat /\ from <= from + some /\ from + some <= Len(buf[mine].data)
      BY <2>3, <2>5, <3>0
    <3>2. SubSeq(buf[mine].data, from + 1, from + some) \in Seq(Int)
      BY <2>3, <3>1, Part
    <3>3. QED BY <1>0, <2>1, <3>2, ConcatProperties
  <2>7. tiny' \in Seq(Int) /\ Len(tiny') <= Chunk
    <3>1. CASE c < Chunk
      <4> DEFINE m == from + c
                 n == from + Chunk
      <4>1. m \in Nat /\ n \in Nat /\ m <= n /\ n <= Len(buf[mine].data) /\ n - m <= Chunk
        BY <1>0, <2>3, <2>4, <3>1
      <4>2. tiny' = SubSeq(buf[mine].data, m + 1, n)
        BY <2>1, <3>1
      <4> HIDE DEF m, n
      <4>3. SubSeq(buf[mine].data, m + 1, n) \in Seq(Int) /\ Len(SubSeq(buf[mine].data, m + 1, n)) = n - m
        BY <2>3, <4>1, Part
      <4>4. QED BY <4>1, <4>2, <4>3
    <3>2. CASE ~(c < Chunk)
      BY <1>0, <2>1, <3>2
    <3>3. QED BY <3>1, <3>2
  <2> DEFINE new == [buf[mine] EXCEPT !.st = IF full THEN "empty" ELSE "rding", !.len = @ + 1]
  <2>8. /\ new \in Buffer /\ new.data = buf[mine].data /\ new.len = buf[mine].len + 1
        /\ new.st = IF full THEN "empty" ELSE "rding"
    <3>1. buf[mine].len + 1 \in 0 .. Packs
      BY <2>3, Sizes
    <3>2. QED BY <2>3, <3>1 DEF Buffer, States
  <2>9. buf' \in [Buffers -> Buffer] /\ buf'[mine] = new /\ \A k \in Buffers : k # mine => buf'[k] = buf[k]
    <3>1. buf \in [Buffers -> Buffer] /\ buf' = [buf EXCEPT ![mine] = new]
      BY <2>1 DEF Sound, Typed
    <3> HIDE DEF new
    <3>2. QED BY <2>2, <2>8, <3>1
  <2>10. full => "empty" \notin Mine
    BY <1>0 DEF Mine
  <2>11. ~full => buf[mine].len + 1 < Packs
    BY <2>3, Sizes
  <2> HIDE DEF new, full, some
  <2>12. cnt' \in Int /\ act' \in Int
    BY <2>1, <2>4, <2>5
  <2>13. pc' \in {"idle", "count", "find", "wait", "chunk", "advance", "return", "overrun"}
    BY <2>1
  <2>14. Typed'
    BY <2>1, <2>6, <2>7, <2>9, <2>12, <2>13 DEF Sound, Typed, eng
  <2>15. \A k \in Buffers :
           \/ buf'[k] = buf[k]
           \/ buf'[k].st \notin Mine
           \/ buf[k].st \in Mine /\ dir = "read" /\ buf'[k].data = buf[k].data /\ buf'[k].len < Packs
    BY <1>0, <2>1, <2>8, <2>9, <2>10, <2>11
  <2>16. asked' \in Counts /\ UNCHANGED <<dir, urbs>>
    BY <2>1 DEF eng, Sound, Room
  <2>17. QED BY <2>7, <2>14, <2>15, <2>16, Narrower
<1>5. CASE read_advance
  <2>1. advanced \in Buffers
    BY After DEF advanced, Sound, Typed
  <2>2. Typed'
    BY <1>5, <2>1 DEF read_advance, Sound, Typed, eng, call_, user
  <2>3. QED BY <1>5, <2>2, Narrower DEF read_advance, eng, call_, user, Sound, Room
<1>6. CASE read_return
  <2>1. last' \in Int
    BY <1>0, <1>6, Delivered DEF read_return
  <2>2. QED BY <1>0, <1>6, <2>1, Ends DEF read_return
<1>7. QED BY <1>1, <1>2, <1>3, <1>4, <1>5, <1>6 DEF read

LEMMA Write ==
  ASSUME Sound, Counting, write
  PROVE  Sound'
<1>0. /\ dir = "write" /\ tiny \in Seq(Int) /\ work \in Seq(Int) /\ last \in Int /\ w \in Int /\ done \in Nat
      /\ asked \in Int /\ <<>> \in Seq(Int) /\ Len(<<>>) = 0 /\ Len(tiny) \in Nat /\ Len(work) \in Nat
      /\ Chunk \in Nat \ {0} /\ Len(tiny) <= Chunk
  <2>1. dir = "write"
    BY DEF write, write_call, write_count, write_rest, write_find, write_chunk, write_advance, flush
  <2>2. /\ tiny \in Seq(Int) /\ work \in Seq(Int) /\ last \in Int /\ w \in Int /\ done \in Nat
        /\ asked \in Int /\ Len(tiny) <= Chunk
    BY DEF Sound, Typed, Room
  <2>3. QED BY <2>1, <2>2, EmptySeq, Sizes
<1>1. CASE write_call
  <2>1. PICK c \in Counts, nb \in BOOLEAN :
          /\ work' = tiny \o [i \in 1 .. c |-> w + i]
          /\ asked' = c /\ nonblock' = nb /\ w' = w + c
    BY <1>1 DEF write_call
  <2>2. c \in Nat
    BY RingConstants
  <2>3. [i \in 1 .. c |-> w + i] \in Seq(Int)
    <3>1. \A i \in 1 .. c : w + i \in Int
      BY <1>0
    <3>2. QED BY <2>2, <3>1
  <2>4. work' \in Seq(Int)
    <3> DEFINE more == [i \in 1 .. c |-> w + i]
    <3>1. more \in Seq(Int) /\ work' = tiny \o more
      BY <2>1, <2>3
    <3> HIDE DEF more
    <3>2. QED BY <1>0, <3>1, ConcatProperties
  <2>5. asked' \in Int /\ nonblock' \in BOOLEAN /\ w' \in Int /\ kept' \in Nat /\ done' \in Nat
    BY <1>0, <1>1, <2>1, <2>2 DEF write_call
  <2>6. pc' = "count" /\ UNCHANGED <<dir, ring, eng, mine, cnt, act, tiny, last, cut>>
    BY <1>1 DEF write_call
  <2>7. Typed'
    BY <2>4, <2>5, <2>6 DEF Sound, Typed, ring, eng
  <2>8. asked' \in Counts
    BY <2>1
  <2>9. QED BY <1>0, <2>6, <2>7, <2>8, Narrower DEF ring, eng
<1>2. CASE write_rest
  <2>1. /\ tiny' = work /\ Len(work) < Chunk /\ idle_again
        /\ w' = w - asked + (done + Len(work) - Len(tiny))
        /\ UNCHANGED <<dir, ring, eng, last, cut, calls>>
    BY <1>2 DEF write_rest
  <2>2. tiny' \in Seq(Int) /\ Len(tiny') <= Chunk /\ last' \in Int /\ w' \in Int
    BY <1>0, <2>1
  <2>3. UNCHANGED <<dir, ring, eng, cut>>
    BY <2>1
  <2>4. QED BY <2>1, <2>2, <2>3, Ends
<1>3. CASE write_find
  <2>1. Typed'
    BY <1>3 DEF write_find, Sound, Typed, ring, eng, user
  <2>2. QED BY <1>3, <2>1, Narrower DEF write_find, ring, eng, user, Sound, Room
<1>4. CASE write_chunk
  <2>1. CASE buf[mine].st \notin Mine
    <3>1. pc = "chunk" /\ pc' = "find"
          /\ UNCHANGED <<dir, ring, eng, mine, nonblock, asked, cnt, act, work, done, kept, user>>
      BY <1>4, <2>1 DEF write_chunk, ring
    <3>2. Typed'
      BY <3>1 DEF Sound, Typed, ring, eng, user
    <3>3. QED BY <3>1, <3>2, Narrower DEF ring, eng, user, Sound, Room
  <2>2. CASE buf[mine].st \in Mine
    <3> DEFINE full == buf[mine].len + 1 = Packs
               some == SubSeq(work, 1, Chunk)
               new == [st |-> IF full THEN "wrttn" ELSE "wrtng", len |-> buf[mine].len + 1,
                       data |-> buf[mine].data \o some]
    <3>1. /\ buf' = [buf EXCEPT ![mine] = new]
          /\ work' = SubSeq(work, Chunk + 1, Len(work)) /\ done' = done + Chunk
          /\ pc' = (IF full THEN "advance" ELSE "chunk") /\ pc = "chunk" /\ Len(work) >= Chunk
          /\ UNCHANGED <<dir, next, sub, wire, eng, mine, nonblock, asked, cnt, act, kept, user>>
      BY <1>4, <2>2 DEF write_chunk
    <3>2. buf \in [Buffers -> Buffer] /\ mine \in Buffers /\ buf[mine] \in Buffer
      BY DEF Sound, Typed
    <3>3. buf[mine].len \in Nat /\ buf[mine].len < Packs /\ buf[mine].data \in Seq(Int)
      BY <2>2, <3>2 DEF Sound, Room, Buffer
    <3>4. some \in Seq(Int)
      <4>1. 0 \in Nat /\ Chunk \in Nat /\ 0 <= Chunk /\ Chunk <= Len(work) /\ 0 + 1 = 1
        BY <1>0, <3>1
      <4>2. QED BY <1>0, <4>1, Part
    <3>5. work' \in Seq(Int)
      <4>1. Chunk \in Nat /\ Len(work) \in Nat /\ Chunk <= Len(work) /\ Len(work) <= Len(work)
        BY <1>0, <3>1
      <4>2. SubSeq(work, Chunk + 1, Len(work)) \in Seq(Int)
        BY <1>0, <4>1, Part
      <4>3. QED BY <3>1, <4>2
    <3>6. buf[mine].data \o some \in Seq(Int)
      <4> HIDE DEF some
      <4>1. QED BY <3>3, <3>4, ConcatProperties
    <3>7. buf[mine].len + 1 \in 0 .. Packs /\ (~full => buf[mine].len + 1 < Packs)
      BY <3>3, Sizes
    <3>8. /\ new \in Buffer /\ new.len = buf[mine].len + 1 /\ new.st = IF full THEN "wrttn" ELSE "wrtng"
      <4> HIDE DEF full, some
      <4>1. QED BY <3>6, <3>7 DEF Buffer, States
    <3>9. buf' \in [Buffers -> Buffer] /\ buf'[mine] = new /\ \A k \in Buffers : k # mine => buf'[k] = buf[k]
      <4> HIDE DEF new
      <4>1. QED BY <3>1, <3>2, <3>8
    <3>10. "wrttn" \notin Mine
      BY <1>0 DEF Mine
    <3> HIDE DEF new, full, some
    <3>11. done' \in Nat /\ pc' \in {"idle", "count", "find", "wait", "chunk", "advance", "return", "overrun"}
      BY <1>0, <3>1
    <3>12. Typed'
      BY <3>1, <3>5, <3>9, <3>11 DEF Sound, Typed, eng, user
    <3>13. \A k \in Buffers :
             \/ buf'[k] = buf[k]
             \/ buf'[k].st \notin Mine
             \/ dir = "write" /\ buf'[k].len < Packs
      BY <1>0, <3>7, <3>8, <3>9, <3>10
    <3>14. asked' \in Counts /\ UNCHANGED <<dir, urbs, tiny>>
      BY <3>1 DEF eng, user, Sound, Room
    <3>15. QED BY <1>0, <3>12, <3>13, <3>14, Narrower
  <2>3. QED BY <2>1, <2>2
<1>5. CASE write_advance
  <2>1. advanced \in Buffers
    BY After DEF advanced, Sound, Typed
  <2>2. Typed'
    BY <1>5, <2>1 DEF write_advance, Sound, Typed, eng, call_, user
  <2>3. QED BY <1>5, <2>2, Narrower DEF write_advance, eng, call_, user, Sound, Room
<1>6. CASE flush
  <2>1. /\ tiny' = <<>> /\ (w' = w - Len(tiny) \/ w' = w)
        /\ cut' = cut \/ cut' = cut \union {"flush"}
        /\ UNCHANGED <<dir, ring, eng, pc, call_, last, calls>>
    BY <1>6 DEF flush
  <2>2. tiny' \in Seq(Int) /\ Len(tiny') <= Chunk /\ w' \in Int
    BY <1>0, <2>1
  <2>3. cut' \subseteq {"early", "flush"}
    <3>1. cut \subseteq {"early", "flush"}
      BY DEF Sound, Typed
    <3>2. QED BY <2>1, <3>1
  <2>4. Typed'
    BY <2>1, <2>2, <2>3 DEF Sound, Typed, ring, eng, call_
  <2>5. pc' # "idle" => asked' \in Counts
    BY <2>1 DEF Sound, Room, call_
  <2>6. QED BY <2>1, <2>2, <2>4, <2>5, Narrower DEF ring, eng
<1>7. CASE write_count
  <2>1. /\ work' = SubSeq(work, 1, asked + Len(tiny)) /\ pc = "count" /\ pc' = "find"
        /\ UNCHANGED <<dir, ring, eng, mine, nonblock, asked, cnt, act, done, kept, user>>
    BY <1>7 DEF write_count
  <2>2. work' \in Seq(Int)
    <3> DEFINE n == asked + Len(tiny)
    <3>1. asked \in Nat
      BY <2>1, RingConstants DEF Sound, Room
    <3>2. n \in Nat /\ n <= Len(work)
      BY <1>0, <2>1, <3>1 DEF Counting
    <3> HIDE DEF n
    <3>3. 0 \in Nat /\ 0 <= n /\ 0 + 1 = 1
      BY <3>2
    <3>4. SubSeq(work, 0 + 1, n) \in Seq(Int)
      BY <1>0, <3>2, <3>3, Part
    <3>5. QED BY <2>1, <3>3, <3>4 DEF n
  <2>3. Typed'
    BY <2>1, <2>2 DEF Sound, Typed, ring, eng, user
  <2>4. QED BY <2>1, <2>3, Narrower DEF ring, eng, user, Sound, Room
<1>8. QED BY <1>1, <1>2, <1>3, <1>4, <1>5, <1>6, <1>7 DEF write

LEMMA SoundStep ==
  ASSUME Sound, Counting, [Next]_vars
  PROVE  Sound'
<1>1. CASE UNCHANGED vars
  <2>1. Typed'
    BY <1>1 DEF vars, ring, eng, call_, user, Sound, Typed
  <2>2. QED BY <1>1, <2>1, Narrower DEF vars, ring, eng, call_, user, Sound, Room
<1>2. QED BY <1>1, Callback, Submit, Waiting, Read, Write DEF Next

-----------------------------------------------------------------------------
(***************************************************************************)
(* The wire, step by step.                                                 *)
(***************************************************************************)
LEMMA Starts == Init => RingInv
<1> SUFFICES ASSUME Init PROVE RingInv
  OBVIOUS
<1>1. /\ MaxUrb \in Nat /\ 3 <= MaxUrb /\ InFlight \in Nat /\ 2 <= InFlight /\ InFlight <= MaxUrb - 1
      /\ Packs \in Nat \ {0} /\ Chunk \in Nat \ {0}
  BY Sizes
<1>2. <<>> \in Seq(Int) /\ Len(<<>>) = 0
  BY EmptySeq
<1>3. Empty \in Buffer /\ [Empty EXCEPT !.st = "sbmtd"] \in Buffer
  <2>1. 0 \in 0 .. Packs /\ "empty" \in States /\ "sbmtd" \in States
    BY <1>1 DEF States
  <2>2. QED BY <1>2, <2>1 DEF Empty, Buffer
<1>4. buf \in [Buffers -> Buffer]
      /\ \A k \in Buffers : buf[k] = IF k < InFlight THEN [Empty EXCEPT !.st = "sbmtd"] ELSE Empty
  BY <1>3 DEF Init
<1>5. wire = [i \in 1 .. InFlight |-> [buf |-> i - 1, data |-> <<>>]]
  BY DEF Init
<1>6. wire \in Seq(Urb) /\ Len(wire) = InFlight /\ \A i \in 1 .. InFlight : wire[i].buf = i - 1
  <2>1. \A i \in 1 .. InFlight : [buf |-> i - 1, data |-> <<>>] \in Urb
    BY <1>1, <1>2 DEF Urb, Buffers
  <2>2. QED BY <1>1, <1>5, <2>1
<1>7. Typed
  <2>1. 0 \in Buffers /\ InFlight \in Buffers
    BY <1>1 DEF Buffers
  <2>2. /\ next = InFlight /\ sub = InFlight /\ sb = 0 /\ mine = 0 /\ spc = "idle" /\ pc = "idle"
        /\ taken = <<>> /\ work = <<>> /\ tiny = <<>> /\ nonblock = FALSE /\ cut = {}
        /\ asked = 0 /\ cnt = 0 /\ act = 0 /\ done = 0 /\ kept = 0
        /\ urbs = 0 /\ errors = 0 /\ last = 0 /\ w = 0 /\ dir \in {"read", "write"}
    BY DEF Init
  <2>3. buf \in [Buffers -> Buffer] /\ wire \in Seq(Urb) /\ <<>> \in Seq(Int)
    BY <1>2, <1>4, <1>6
  <2>4. QED BY <2>1, <2>2, <2>3 DEF Typed
<1>8. \A k \in Buffers : buf[k].len = 0 /\ (buf[k].st = "sbmtd" \/ buf[k].st = "empty")
  BY <1>4 DEF Empty
<1>9. Room
  BY <1>1, <1>2, <1>8 DEF Init, Room
<1>10. Filled
  BY <1>8 DEF Filled, fresh
<1>11. spc = "idle" /\ start = InFlight /\ lowest = MaxUrb - InFlight
  BY <1>1 DEF Init, start, lowest
<1>12. \A i \in 1 .. InFlight : i - 1 \in Buffers /\ rank(wire[i].buf) = lowest + i - 1 /\ buf[i - 1].st = "sbmtd"
  BY <1>1, <1>4, <1>6, <1>11 DEF rank, Buffers, Empty
<1>13. Submitting
  <2>1. \A i \in 1 .. Len(wire) : i \in 1 .. InFlight /\ wire[i].buf = i - 1 /\ i \in Int
    BY <1>1, <1>6
  <2>0. lowest \in Int
    BY <1>1, <1>11
  <2>2. \A i \in 1 .. Len(wire) :
          buf[wire[i].buf].st = "sbmtd" /\ rank(wire[i].buf) = lowest + i - 1 /\ lowest \in Int
    <3> TAKE i \in 1 .. Len(wire)
    <3>1. i \in 1 .. InFlight /\ wire[i].buf = i - 1
      BY <2>1
    <3>2. QED BY <1>12, <2>0, <3>1
  <2>3. \A i \in 1 .. Len(wire) : lowest <= rank(wire[i].buf)
    BY <2>1, <2>2
  <2>4. \A i, j \in 1 .. Len(wire) : i < j => rank(wire[i].buf) < rank(wire[j].buf)
    BY <2>1, <2>2
  <2>5. Len(wire) <= InFlight
    BY <1>1, <1>6
  <2>6. QED BY <1>11, <2>2, <2>3, <2>4, <2>5, Zenon DEF Submitting
<1>14. Counting
  BY DEF Init, Counting
<1>15. QED BY <1>7, <1>9, <1>10, <1>13, <1>14 DEF RingInv

LEMMA OnWire ==
  ASSUME Typed
  PROVE  /\ Len(wire) \in Nat
         /\ \A i \in 1 .. Len(wire) : wire[i] \in Urb /\ wire[i].buf \in Buffers /\ wire[i].data \in Seq(Int)
<1> DEFINE R == Urb
<1>1. wire \in Seq(R)
  BY DEF Typed
<1> HIDE DEF R
<1>2. Len(wire) \in Nat /\ \A i \in 1 .. Len(wire) : wire[i] \in R
  BY <1>1, ElementOfSeq
<1>3. QED BY <1>2 DEF R, Urb

(* A step that leaves the callback, the wire and its buffers alone.        *)
LEMMA Quiet ==
  ASSUME Submitting, Typed, UNCHANGED <<dir, spc, sb, sub, wire>>,
         \A k \in Buffers : buf[k].st \notin Mine => buf'[k].st = buf[k].st
  PROVE  Submitting' /\ start' = start /\ lowest' = lowest
<1>1. start' = start /\ lowest' = lowest
  BY DEF start, lowest
<1>2. \A k : rank(k)' = rank(k)
  BY <1>1, Stays
<1>3. "sbmtd" \notin Mine /\ "sbmng" \notin Mine
  BY DEF Mine
<1>4. \A i \in 1 .. Len(wire) : wire[i].buf \in Buffers
  BY OnWire
<1>5. sb \in Buffers
  BY DEF Typed
<1>6. spc = "urb" => buf'[sb].st = "sbmng"
  BY <1>3, <1>5 DEF Submitting
<1>7. \A i \in 1 .. Len(wire) : buf'[wire[i].buf].st = "sbmtd"
  BY <1>3, <1>4 DEF Submitting
<1>8. QED BY <1>1, <1>2, <1>6, <1>7 DEF Submitting, after

(* The facts about the wire that the steps need.                           *)
LEMMA Wire ==
  ASSUME Typed, Submitting
  PROVE  /\ Len(wire) \in Nat
         /\ \A i \in 1 .. Len(wire) :
              /\ wire[i].buf \in Buffers /\ wire[i].data \in Seq(Int)
              /\ rank(wire[i].buf) \in lowest .. MaxUrb - 1
              /\ wire[i].buf # start
              /\ spc \in {"mark", "urb"} => wire[i].buf # sb
<1>1. Len(wire) \in Nat
  BY DEF Typed
<1>2. ASSUME NEW i \in 1 .. Len(wire)
      PROVE  wire[i].buf \in Buffers /\ wire[i].data \in Seq(Int)
  BY OnWire
<1>3. ASSUME NEW i \in 1 .. Len(wire)
      PROVE  rank(wire[i].buf) \in lowest .. MaxUrb - 1 /\ wire[i].buf # start
  <2>1. rank(wire[i].buf) \in 0 .. MaxUrb - 1 /\ rank(start) = 0
    BY <1>2, Ranks
  <2>2. lowest <= rank(wire[i].buf)
    BY DEF Submitting
  <2>3. QED BY <2>1, <2>2, Sizes
<1>4. ASSUME NEW i \in 1 .. Len(wire)
      PROVE  spc \in {"mark", "urb"} => wire[i].buf # sb
  <2>1. CASE spc = "mark"
    BY <1>3, <2>1 DEF start
  <2>2. CASE spc = "urb"
    BY <2>2 DEF Submitting
  <2>3. CASE ~(spc \in {"mark", "urb"})
    BY <2>3
  <2>4. QED BY <2>1, <2>2, <2>3
<1>5. QED BY <1>1, <1>2, <1>3, <1>4

LEMMA WireCallback ==
  ASSUME Typed, Submitting, callback
  PROVE  /\ Submitting' /\ start' = start /\ lowest' = lowest + 1
         /\ Len(wire') = Len(wire) - 1 /\ \A i \in 1 .. Len(wire') : wire'[i] = wire[i + 1]
         /\ wire # <<>> /\ Head(wire) = wire[1] /\ 1 \in 1 .. Len(wire)
<1>1. /\ spc = "idle" /\ wire # <<>> /\ wire' = Tail(wire) /\ spc' = "take"
      /\ UNCHANGED <<sub, sb>>
  BY DEF callback
<1>2. Len(wire') = Len(wire) - 1 /\ \A i \in 1 .. Len(wire') : wire'[i] = wire[i + 1]
  <2> DEFINE R == Urb
  <2>1. wire \in Seq(R)
    BY DEF Typed
  <2> HIDE DEF R
  <2>2. QED BY <1>1, <2>1, HeadTailProperties
<1>3. Head(wire) = wire[1] /\ 1 \in 1 .. Len(wire) /\ Len(wire) \in Nat
  <2> DEFINE R == Urb
  <2>1. wire \in Seq(R)
    BY DEF Typed
  <2> HIDE DEF R
  <2>2. QED BY <1>1, <2>1, EmptySeq
<1>4. start' = start /\ lowest' = lowest + 1
  BY <1>1, Sizes DEF start, lowest
<1>5. \A k : rank(k)' = rank(k)
  BY <1>4, Stays
<1>6. buf \in [Buffers -> Buffer] /\ \A k \in Buffers : k # wire[1].buf => buf'[k] = buf[k]
  BY <1>3 DEF callback, Typed
<1>7. ASSUME NEW i \in 1 .. Len(wire')
      PROVE  /\ wire'[i] = wire[i + 1] /\ i + 1 \in 1 .. Len(wire)
             /\ rank(wire[1].buf) < rank(wire[i + 1].buf)
             /\ rank(wire[1].buf) \in Nat /\ rank(wire[i + 1].buf) \in Nat /\ lowest <= rank(wire[1].buf)
             /\ wire[i + 1].buf # wire[1].buf
             /\ buf'[wire[i + 1].buf] = buf[wire[i + 1].buf]
  <2>1. wire'[i] = wire[i + 1] /\ i + 1 \in 1 .. Len(wire) /\ 1 < i + 1
    BY <1>2, <1>3
  <2>2. rank(wire[1].buf) < rank(wire[i + 1].buf)
    BY <1>3, <2>1 DEF Submitting
  <2>3. rank(wire[1].buf) \in Nat /\ rank(wire[i + 1].buf) \in Nat /\ lowest <= rank(wire[1].buf)
        /\ wire[i + 1].buf \in Buffers
    BY <1>3, <2>1, Wire, Sizes
  <2>4. wire[i + 1].buf # wire[1].buf
    BY <2>2, <2>3
  <2>5. QED BY <1>6, <2>1, <2>2, <2>3, <2>4
<1>8. \A i \in 1 .. Len(wire') :
        /\ buf'[wire'[i].buf].st = "sbmtd"
        /\ lowest' <= rank(wire'[i].buf)
  BY <1>4, <1>7, Sizes DEF Submitting
<1>9. \A i, j \in 1 .. Len(wire') : i < j => rank(wire'[i].buf) < rank(wire'[j].buf)
  <2>1. SUFFICES ASSUME NEW i \in 1 .. Len(wire'), NEW j \in 1 .. Len(wire'), i < j
                 PROVE  rank(wire'[i].buf) < rank(wire'[j].buf)
    OBVIOUS
  <2>2. wire'[i] = wire[i + 1] /\ wire'[j] = wire[j + 1]
        /\ i + 1 \in 1 .. Len(wire) /\ j + 1 \in 1 .. Len(wire)
    BY <1>7, <2>1
  <2>3. i + 1 < j + 1
    BY <2>1
  <2>4. QED BY <2>2, <2>3 DEF Submitting
<1>10. Len(wire') <= InFlight - 1
  BY <1>1, <1>2, <1>3, Sizes DEF Submitting
<1>11. Submitting'
  BY <1>1, <1>5, <1>8, <1>9, <1>10 DEF Submitting
<1>12. QED BY <1>1, <1>2, <1>3, <1>4, <1>11

LEMMA WireTake ==
  ASSUME Typed, Submitting, submit_take
  PROVE  Submitting' /\ start' = start /\ lowest' = lowest
<1>1. spc = "take" /\ sb' = sub /\ sub' = after(sub) /\ spc' = "mark" /\ UNCHANGED <<buf, wire>>
  BY DEF submit_take
<1>2. start' = start /\ lowest' = lowest
  BY <1>1 DEF start, lowest
<1>3. \A k : rank(k)' = rank(k)
  BY <1>2, Stays
<1>4. QED BY <1>1, <1>2, <1>3 DEF Submitting, after

LEMMA WireMark ==
  ASSUME Typed, Submitting, submit_mark
  PROVE  /\ Submitting' /\ start = sb /\ start' = after(start) /\ lowest' = lowest - 1
         /\ \A k \in Buffers : rank(k)' = IF k = sb THEN MaxUrb - 1 ELSE rank(k) - 1
<1>1. spc = "mark" /\ buf' = [buf EXCEPT ![sb].st = "sbmng"] /\ spc' = "urb" /\ UNCHANGED <<sub, wire, sb>>
  BY DEF submit_mark, ring
<1>2. start = sb /\ start' = after(start) /\ lowest' = lowest - 1
  BY <1>1, Sizes DEF start, lowest, Submitting
<1>3. \A k \in Buffers : rank(k)' = IF k = sb THEN MaxUrb - 1 ELSE rank(k) - 1
  BY <1>2, Turn
<1>4. buf \in [Buffers -> Buffer] /\ sb \in Buffers
  BY DEF Typed
<1>5. buf'[sb].st = "sbmng" /\ \A k \in Buffers : k # sb => buf'[k] = buf[k]
  BY <1>1, <1>4 DEF Buffer
<1>6. ASSUME NEW i \in 1 .. Len(wire)
      PROVE  /\ wire[i].buf \in Buffers /\ wire[i].buf # sb
             /\ rank(wire[i].buf) \in lowest .. MaxUrb - 1
             /\ rank(wire[i].buf)' = rank(wire[i].buf) - 1
  <2>1. wire[i].buf \in Buffers /\ wire[i].buf # sb /\ rank(wire[i].buf) \in lowest .. MaxUrb - 1
    BY <1>1, Wire
  <2>2. wire[i].buf' = wire[i].buf
    BY <1>1
  <2>3. QED BY <1>3, <2>1, <2>2
<1>7. \A i \in 1 .. Len(wire) :
        /\ buf'[wire[i].buf].st = "sbmtd"
        /\ lowest' <= rank(wire[i].buf)'
        /\ rank(wire[i].buf)' < MaxUrb - 1
  BY <1>2, <1>5, <1>6, Sizes DEF Submitting
<1>8. \A i, j \in 1 .. Len(wire) : i < j => rank(wire[i].buf)' < rank(wire[j].buf)'
  <2> TAKE i, j \in 1 .. Len(wire)
  <2> HAVE i < j
  <2>1. rank(wire[i].buf) < rank(wire[j].buf)
    BY DEF Submitting
  <2>2. rank(wire[i].buf) \in Int /\ rank(wire[j].buf) \in Int
    BY <1>6, Sizes
  <2>3. rank(wire[i].buf)' = rank(wire[i].buf) - 1 /\ rank(wire[j].buf)' = rank(wire[j].buf) - 1
    BY <1>6
  <2>4. QED BY <2>1, <2>2, <2>3
<1>9. QED BY <1>1, <1>2, <1>3, <1>5, <1>7, <1>8 DEF Submitting, after

LEMMA WireUrb ==
  ASSUME Typed, Submitting, submit_urb
  PROVE  /\ Submitting' /\ start' = start /\ lowest' = lowest /\ rank(sb) = MaxUrb - 1
         /\ Len(wire) <= InFlight - 1
         /\ \/ /\ UNCHANGED errors
               /\ Len(wire') = Len(wire) + 1 /\ wire'[Len(wire) + 1] = [buf |-> sb, data |-> taken]
               /\ buf' = [buf EXCEPT ![sb].st = "sbmtd"]
            \/ Len(wire') = Len(wire) /\ buf' = [buf EXCEPT ![sb] = Empty] /\ errors' # 0
         /\ \A i \in 1 .. Len(wire) : wire'[i] = wire[i]
<1>1. spc = "urb" /\ spc' = "idle" /\ UNCHANGED <<sub, sb>>
  BY DEF submit_urb
<1>2. start' = start /\ lowest' = lowest /\ start = after(sb) /\ sb \in Buffers
  BY <1>1 DEF start, lowest, Submitting, Typed
<1>3. rank(sb) = MaxUrb - 1
  BY <1>2, Ranks, Sizes
<1>4. \A k : rank(k)' = rank(k)
  BY <1>2, Stays
<1>5. Len(wire) <= InFlight - 1 /\ Len(wire) \in Nat
  BY <1>1, OnWire DEF Submitting
<1>6. \/ /\ UNCHANGED errors
         /\ Len(wire') = Len(wire) + 1 /\ wire'[Len(wire) + 1] = [buf |-> sb, data |-> taken]
         /\ \A i \in 1 .. Len(wire) : wire'[i] = wire[i]
         /\ buf' = [buf EXCEPT ![sb].st = "sbmtd"]
      \/ wire' = wire /\ buf' = [buf EXCEPT ![sb] = Empty] /\ errors' # 0
  <2>1. CASE buf' = [buf EXCEPT ![sb].st = "sbmtd"] /\ wire' = Append(wire, [buf |-> sb, data |-> taken])
             /\ UNCHANGED errors
    <3> DEFINE R == Urb
               e == [buf |-> sb, data |-> taken]
    <3>1. wire \in Seq(R) /\ e \in R /\ wire' = Append(wire, e)
      BY <2>1 DEF Typed, Urb
    <3> HIDE DEF R, e
    <3>2. /\ Len(wire') = Len(wire) + 1 /\ wire'[Len(wire) + 1] = e
          /\ \A i \in 1 .. Len(wire) : wire'[i] = wire[i]
      BY <3>1, AppendProperties
    <3>3. QED BY <2>1, <3>2 DEF e
  <2>2. CASE buf' = [buf EXCEPT ![sb] = Empty] /\ wire' = wire /\ errors' = errors + 1
    BY <2>2 DEF Typed
  <2>3. QED BY <2>1, <2>2 DEF submit_urb
<1>7. buf \in [Buffers -> Buffer] /\ \A k \in Buffers : k # sb => buf'[k] = buf[k]
  BY <1>2, <1>6 DEF Typed
<1>8. \A i \in 1 .. Len(wire) :
        /\ wire'[i].buf = wire[i].buf
        /\ buf'[wire[i].buf].st = "sbmtd" /\ wire[i].buf # sb
        /\ lowest <= rank(wire[i].buf)
        /\ rank(wire[i].buf) < MaxUrb - 1 /\ rank(wire[i].buf) \in Nat
  <2> SUFFICES ASSUME NEW i \in 1 .. Len(wire)
               PROVE /\ wire'[i].buf = wire[i].buf
                     /\ buf'[wire[i].buf].st = "sbmtd" /\ wire[i].buf # sb
                     /\ lowest <= rank(wire[i].buf)
                     /\ rank(wire[i].buf) < MaxUrb - 1 /\ rank(wire[i].buf) \in Nat
    OBVIOUS
  <2>1. wire'[i].buf = wire[i].buf
    BY <1>6
  <2>2. wire[i].buf \in Buffers /\ wire[i].buf # sb /\ rank(wire[i].buf) \in lowest .. MaxUrb - 1
    BY <1>1, Wire
  <2>3. rank(wire[i].buf) \in Nat
    BY <2>2, Sizes
  <2>4. buf[wire[i].buf].st = "sbmtd" /\ lowest <= rank(wire[i].buf) /\ rank(wire[i].buf) < MaxUrb - 1
    BY <1>1 DEF Submitting
  <2>5. QED BY <1>7, <2>1, <2>2, <2>3, <2>4
<1>9. Submitting'
  <2>1. CASE wire' = wire /\ errors' # 0
    <3>1. \A i \in 1 .. Len(wire') : buf'[wire'[i].buf].st = "sbmtd" /\ lowest <= rank(wire'[i].buf)
      BY <1>8, <2>1
    <3>2. \A i, j \in 1 .. Len(wire') : i < j => rank(wire'[i].buf) < rank(wire'[j].buf)
      BY <2>1 DEF Submitting
    <3>3. Len(wire') <= InFlight
      BY <1>5, <2>1, Sizes
    <3>4. QED BY <1>1, <1>2, <1>4, <3>1, <3>2, <3>3 DEF Submitting
  <2>2. CASE /\ Len(wire') = Len(wire) + 1 /\ wire'[Len(wire) + 1] = [buf |-> sb, data |-> taken]
             /\ buf' = [buf EXCEPT ![sb].st = "sbmtd"]
    <3>1. buf'[sb].st = "sbmtd" /\ wire'[Len(wire) + 1].buf = sb
      BY <1>2, <1>7, <2>2 DEF Buffer
    <3>2. \A i \in 1 .. Len(wire') : i \in 1 .. Len(wire) \/ i = Len(wire) + 1
      BY <1>5, <2>2
    <3>3. \A i \in 1 .. Len(wire') : buf'[wire'[i].buf].st = "sbmtd" /\ lowest <= rank(wire'[i].buf)
      BY <1>3, <1>8, <3>1, <3>2, Sizes
    <3>4. \A i, j \in 1 .. Len(wire') : i < j => rank(wire'[i].buf) < rank(wire'[j].buf)
      <4> SUFFICES ASSUME NEW i \in 1 .. Len(wire'), NEW j \in 1 .. Len(wire'), i < j
                   PROVE  rank(wire'[i].buf) < rank(wire'[j].buf)
        OBVIOUS
      <4>1. i \in 1 .. Len(wire)
        BY <1>5, <2>2
      <4>2. CASE j \in 1 .. Len(wire)
        BY <1>8, <4>1, <4>2 DEF Submitting
      <4>3. CASE j = Len(wire) + 1
        BY <1>3, <1>8, <3>1, <4>1, <4>3
      <4>4. QED BY <3>2, <4>2, <4>3
    <3>5. Len(wire') <= InFlight
      BY <1>5, <2>2, Sizes
    <3>6. QED BY <1>1, <1>2, <1>4, <3>3, <3>4, <3>5 DEF Submitting
  <2>3. QED BY <1>6, <2>1, <2>2
<1>10. QED BY <1>2, <1>3, <1>5, <1>6, <1>9

(* Between copying and counting the bytes owed, only a flush counts.       *)
LEMMA CountingStep ==
  ASSUME Typed, Counting, [Next]_vars
  PROVE  Counting'
<1>0. tiny \in Seq(Int) /\ Len(tiny) \in Nat /\ asked \in Int /\ work \in Seq(Int) /\ w \in Int
  BY DEF Typed
<1>1. CASE write_call
  <2>1. PICK c \in Counts : work' = tiny \o [i \in 1 .. c |-> w + i] /\ asked' = c /\ tiny' = tiny
    BY <1>1 DEF write_call
  <2>2. c \in Nat
    BY RingConstants
  <2> DEFINE more == [i \in 1 .. c |-> w + i]
  <2>3. more \in Seq(Int) /\ Len(more) = c
    BY <1>0, <2>2
  <2> HIDE DEF more
  <2>4. Len(tiny \o more) = Len(tiny) + c
    BY <1>0, <2>3, ConcatProperties
  <2>5. QED BY <1>0, <2>1, <2>2, <2>4 DEF Counting, more
<1>2. CASE flush
  BY <1>0, <1>2 DEF flush, call_, Counting
<1>3. CASE waiting \/ read \/ write_count \/ write_rest \/ write_find \/ write_chunk \/ write_advance
  <2>1. pc' # "count"
    BY <1>3 DEF waiting, wait_ready, wait_nonblock, wait_signal, wait_wouldblock, idle_again,
         read, read_small, read_call, read_find, read_lost, read_chunk, read_advance, read_return,
         write_count, write_rest, write_find, write_chunk, write_advance
  <2>2. QED BY <2>1 DEF Counting
<1>4. CASE callback \/ submit_take \/ submit_mark \/ submit_urb \/ UNCHANGED vars
  <2>1. UNCHANGED <<pc, asked, work, tiny>>
    BY <1>4 DEF callback, submit_take, submit_mark, submit_urb, vars, call_, user
  <2>2. QED BY <2>1 DEF Counting
<1>5. QED BY <1>1, <1>2, <1>3, <1>4 DEF Next, write

(* What read and write do to the ring: at most, they change a buffer that  *)
(* is theirs.                                                              *)
LEMMA Other ==
  ASSUME Typed, waiting \/ read \/ write \/ UNCHANGED vars
  PROVE  /\ UNCHANGED <<dir, spc, sb, sub, wire, taken, urbs, errors>>
         /\ \A k \in Buffers : buf[k].st \notin Mine => buf'[k] = buf[k]
<1>1. CASE waiting
  BY <1>1 DEF waiting, wait_ready, wait_nonblock, wait_signal, wait_wouldblock, ring, eng
<1>2. CASE read_chunk
  <2> DEFINE st == IF buf[mine].len + 1 = Packs THEN "empty" ELSE "rding"
  <2>1. /\ buf[mine].st \in Mine /\ buf' = [buf EXCEPT ![mine].st = st, ![mine].len = @ + 1]
        /\ UNCHANGED <<dir, next, sub, wire, eng>>
    BY <1>2 DEF read_chunk
  <2> HIDE DEF st
  <2>2. \A k \in Buffers : k # mine => buf'[k] = buf[k]
    BY <2>1 DEF Typed
  <2>3. QED BY <2>1, <2>2 DEF eng
<1>3. CASE read /\ ~read_chunk
  BY <1>3 DEF read, read_small, read_call, read_find, read_lost, read_advance, read_return, ring, eng
<1>4. CASE write_chunk
  <2>1. CASE buf[mine].st \notin Mine
    BY <1>4, <2>1 DEF write_chunk, eng
  <2>2. CASE buf[mine].st \in Mine
    <3> DEFINE new == [st |-> IF buf[mine].len + 1 = Packs THEN "wrttn" ELSE "wrtng", len |-> buf[mine].len + 1,
                       data |-> buf[mine].data \o SubSeq(work, 1, Chunk)]
    <3>1. buf' = [buf EXCEPT ![mine] = new] /\ UNCHANGED <<dir, next, sub, wire, eng>>
      BY <1>4, <2>2 DEF write_chunk
    <3> HIDE DEF new
    <3>2. \A k \in Buffers : k # mine => buf'[k] = buf[k]
      BY <3>1 DEF Typed
    <3>3. QED BY <2>2, <3>1, <3>2 DEF eng
  <2>3. QED BY <2>1, <2>2
<1>5. CASE write /\ ~write_chunk
  BY <1>5 DEF write, write_call, write_count, write_rest, write_find, write_advance, flush, ring, eng
<1>6. CASE UNCHANGED vars
  BY <1>6 DEF vars, ring, eng
<1>7. QED BY <1>1, <1>2, <1>3, <1>4, <1>5, <1>6

LEMMA RingStep ==
  ASSUME RingInv, [Next]_vars
  PROVE  RingInv'
<1>1. Sound /\ Typed /\ Submitting /\ Sound' /\ Counting'
  BY SoundStep, CountingStep DEF RingInv, Sound
<1>2. CASE callback
  BY <1>1, <1>2, WireCallback DEF RingInv, Sound
<1>3. CASE submit_take
  BY <1>1, <1>3, WireTake DEF RingInv, Sound
<1>4. CASE submit_mark
  BY <1>1, <1>4, WireMark DEF RingInv, Sound
<1>5. CASE submit_urb
  BY <1>1, <1>5, WireUrb DEF RingInv, Sound
<1>6. CASE waiting \/ read \/ write \/ UNCHANGED vars
  <2>1. UNCHANGED <<dir, spc, sb, sub, wire>>
        /\ \A k \in Buffers : buf[k].st \notin Mine => buf'[k].st = buf[k].st
    BY <1>1, <1>6, Other
  <2>2. QED BY <1>1, <2>1, Quiet DEF RingInv, Sound
<1>7. QED BY <1>2, <1>3, <1>4, <1>5, <1>6 DEF Next

LEMMA RingAlways == Spec => []RingInv
<1>1. Init => RingInv
  BY Starts
<1>2. RingInv /\ [Next]_vars => RingInv'
  BY RingStep
<1>3. QED BY <1>1, <1>2, PTL DEF Spec


(* Every variable stays within its type, the wire never carries more than  *)
(* is meant to be in flight, and tinyrbuf and tinywbuf hold what they are  *)
(* given.                                                                  *)
THEOREM RingTypes == Spec => []TypeOK
<1>1. ASSUME RingInv PROVE TypeOK
  <2>1. Typed /\ Room /\ Submitting /\ InFlight \in Nat
    BY <1>1, Sizes DEF RingInv
  <2>2. \A k \in Buffers : buf[k].st \in States /\ buf[k].len \in 0 .. Packs
    BY <2>1 DEF Typed, Buffer
  <2>3. Len(wire) <= InFlight
    <3>1. Len(wire) \in Nat /\ Len(wire) <= IF spc = "idle" THEN InFlight ELSE InFlight - 1
      BY <2>1, OnWire DEF Submitting
    <3>2. QED BY <2>1, <3>1
  <2>4. QED BY <2>1, <2>2, <2>3 DEF TypeOK, Typed, Room, States
<1>2. QED BY <1>1, RingAlways, PTL
-----------------------------------------------------------------------------
(***************************************************************************)
(* read copies no more than was asked for.                                 *)
(***************************************************************************)
(* As long as tinyrbuf held no more than half of what was asked for, the   *)
(* count covers what is still to be copied, and no more than fits.         *)
Fitting ==
  IF dir = "read"
    THEN /\ pc = "overrun" => asked < 2 * kept
         /\ pc \notin {"idle", "overrun"} /\ 2 * kept <= asked =>
              0 <= act /\ act <= cnt /\ cnt <= asked /\ Len(work) + cnt - act <= asked
    ELSE pc # "overrun"

(* The unsigned subtraction does not wrap.                                 *)
LEMMA CountIs ==
  ASSUME Typed, Room, pc # "idle", 0 <= act, act <= cnt, cnt <= asked
  PROVE  (SizeT + cnt - act) % SizeT = cnt - act
<1> DEFINE n == SizeT + cnt - act
<1>1. SizeT \in Nat /\ asked \in Counts /\ asked + Chunk < SizeT /\ asked \in Nat \ {0}
      /\ cnt \in Int /\ act \in Int /\ Chunk \in Nat
  BY RingConstants, Sizes DEF Room, Typed
<1>2. n \in Nat /\ n < SizeT + SizeT /\ SizeT \in Nat \ {0} /\ ~(n < SizeT) /\ n - SizeT = cnt - act
  <2>1. asked < SizeT
    BY <1>1
  <2>2. cnt - act \in Nat /\ cnt - act < SizeT
    BY <1>1, <2>1
  <2>3. QED BY <1>1, <2>1, <2>2
<1> HIDE DEF n
<1>3. n % SizeT = n - SizeT
  BY <1>2, Wrap
<1>4. QED BY <1>2, <1>3 DEF n

LEMMA FittingStep ==
  ASSUME RingInv, RingInv', Fitting, [Next]_vars
  PROVE  Fitting'
<1>0. /\ Typed /\ Room /\ Sound
      /\ Len(work) \in Nat /\ Len(tiny) \in Nat /\ asked \in Int /\ cnt \in Int /\ act \in Int /\ kept \in Nat
      /\ work \in Seq(Int)
  <2>1. Typed /\ Room /\ Sound
    BY DEF RingInv, Sound
  <2>2. work \in Seq(Int) /\ tiny \in Seq(Int) /\ asked \in Int /\ cnt \in Int /\ act \in Int /\ kept \in Nat
    BY <2>1 DEF Typed
  <2>3. QED BY <2>1, <2>2
<1>1. CASE callback \/ submit_take \/ submit_mark \/ submit_urb \/ UNCHANGED vars
  <2>1. UNCHANGED <<dir, pc, call_>>
    BY <1>1 DEF callback, submit_take, submit_mark, submit_urb, vars
  <2>2. QED BY <2>1 DEF Fitting, call_
<1>2. CASE waiting
  <2>1. UNCHANGED dir
    BY <1>0, <1>2, Other
  <2>2. CASE pc' = "idle"
    BY <2>1, <2>2 DEF Fitting
  <2>3. CASE pc' # "idle"
    <3>1. UNCHANGED call_ /\ pc = "wait" /\ pc' \in {"find", "chunk"}
      BY <1>2, <2>3 DEF waiting, wait_ready, wait_nonblock, wait_signal, wait_wouldblock, idle_again
    <3>2. QED BY <2>1, <3>1 DEF Fitting, call_
  <2>4. QED BY <2>2, <2>3
<1>3. CASE write
  <2>1. dir = "write" /\ dir' = "write"
    BY <1>0, <1>3, Other DEF write, write_call, write_count, write_rest, write_find, write_chunk, write_advance, flush
  <2>2. pc' # "overrun"
    BY <1>3, <2>1 DEF write, write_call, write_count, write_rest, write_find, write_chunk, write_advance, flush,
         idle_again, Fitting
  <2>3. QED BY <2>1, <2>2 DEF Fitting
<1>4. CASE read_small \/ read_return
  BY <1>4 DEF read_small, read_return, idle_again, call_, Fitting
<1>5. CASE read_call
  <2>1. PICK c \in Counts, nb \in BOOLEAN : c > Len(tiny) /\ asked' = c /\ cnt' = c - Len(tiny)
    BY <1>5 DEF read_call
  <2>2. c \in Nat
    BY RingConstants
  <2>3. dir' = "read" /\ pc' = "find" /\ work' = tiny /\ act' = Len(tiny) /\ kept' = Len(tiny)
    BY <1>5 DEF read_call
  <2>4. QED BY <1>0, <2>1, <2>2, <2>3 DEF Fitting
<1>6. CASE read_find \/ read_lost
  <2> DEFINE c == (SizeT + cnt - act) % SizeT
  <2>1. cnt' = c /\ act' = 0 /\ dir = "read" /\ dir' = "read" /\ pc \in {"find", "chunk"}
        /\ pc' \in {"wait", "find"} /\ UNCHANGED <<asked, work, kept>>
    BY <1>6 DEF read_find, read_lost
  <2>2. ASSUME 2 * kept <= asked
        PROVE  0 <= act /\ act <= cnt /\ cnt <= asked /\ Len(work) + cnt - act <= asked
    BY <2>1, <2>2 DEF Fitting
  <2>3. 2 * kept <= asked => c = cnt - act
    BY <1>0, <2>1, <2>2, CountIs
  <2> HIDE DEF c
  <2>4. QED BY <1>0, <2>1, <2>2, <2>3 DEF Fitting
<1>7. CASE read_chunk
  <2> DEFINE c == (SizeT + cnt - act) % SizeT
             some == IF c < Chunk THEN c ELSE Chunk
             from == buf[mine].len * Chunk
             more == SubSeq(buf[mine].data, from + 1, from + some)
  <2>1. /\ buf[mine].st \in Mine /\ cnt' = c /\ act' = some /\ work' = work \o more
        /\ pc' = "overrun" => Len(work') > asked
        /\ pc = "chunk" /\ dir = "read" /\ dir' = "read"
        /\ UNCHANGED <<asked, kept>>
    BY <1>7 DEF read_chunk
  <2>2. mine \in Buffers /\ fresh(mine)
    BY <1>0, <2>1 DEF Mine, fresh, Typed
  <2>3. /\ buf[mine].data \in Seq(Int) /\ Len(buf[mine].data) = size
        /\ from \in Nat /\ from + Chunk <= size
    BY <1>0, <2>1, <2>2, Packet
  <2>4. c \in Nat
    BY <1>0, <2>1, Count
  <2>5. ASSUME 2 * kept <= asked
        PROVE  0 <= act /\ act <= cnt /\ cnt <= asked /\ Len(work) + cnt - act <= asked
    BY <2>1, <2>5 DEF Fitting
  <2>6. 2 * kept <= asked => c = cnt - act
    BY <1>0, <2>1, <2>5, CountIs
  <2> HIDE DEF c, from
  <2>7. some \in Nat /\ some <= Chunk /\ some <= c
    BY <2>4, Sizes
  <2> HIDE DEF some
  <2>8. more \in Seq(Int) /\ Len(more) = some
    <3> DEFINE n == from + some
    <3>1. n \in Nat /\ from <= n /\ n <= Len(buf[mine].data) /\ n - from = some
      BY <2>3, <2>7, Sizes
    <3>2. more = SubSeq(buf[mine].data, from + 1, n)
      OBVIOUS
    <3> HIDE DEF n, more
    <3>3. QED BY <2>3, <3>1, <3>2, Part
  <2> HIDE DEF more
  <2>9. Len(work') = Len(work) + some
    BY <1>0, <2>1, <2>8, ConcatProperties
  <2>10. 2 * kept <= asked => cnt' <= asked /\ act' <= cnt' /\ 0 <= act' /\ Len(work') + cnt' - act' <= asked
                              /\ Len(work') <= asked
    BY <1>0, <2>1, <2>4, <2>5, <2>6, <2>7, <2>9
  <2>11. pc' = "overrun" => asked < 2 * kept
    <3>1. Len(work') \in Nat /\ asked \in Int /\ 2 * kept \in Int
      BY <1>0, <2>7, <2>9
    <3>2. QED BY <2>1, <2>10, <3>1
  <2>12. QED BY <2>1, <2>10, <2>11 DEF Fitting
<1>8. CASE read_advance
  BY <1>8 DEF read_advance, Fitting, call_
<1>9. QED BY <1>1, <1>2, <1>3, <1>4, <1>5, <1>6, <1>7, <1>8 DEF Next, read

(* read never copies more bytes than the user asked for, into room that it *)
(* has allocated for so many, however the callback and the ring get in the *)
(* way; only when fewer were asked for than twice what tinyrbuf held does  *)
(* the count, from which those bytes are subtracted twice, come out wrong. *)
THEOREM ReadStaysWithinItsRoom == Spec => []ReadFits
<1>1. Init => Fitting
  BY DEF Init, Fitting
<1>2. RingInv /\ RingInv' /\ Fitting /\ [Next]_vars => Fitting'
  BY FittingStep
<1>3. Fitting => ReadFits
  BY DEF Fitting, ReadFits
<1>4. QED BY <1>1, <1>2, <1>3, RingAlways, PTL DEF Spec

-----------------------------------------------------------------------------
(***************************************************************************)
(* Rising sequences.                                                       *)
(***************************************************************************)
Rises(lo, s) ==
  /\ \A i \in 1 .. Len(s) : lo < s[i]
  /\ \A i, j \in 1 .. Len(s) : i < j => s[i] < s[j]

Top(lo, s) == IF s = <<>> THEN lo ELSE s[Len(s)]

LEMMA Joined ==
  ASSUME NEW r \in Seq(Int), NEW s \in Seq(Int), NEW t \in Seq(Int)
  PROVE  (r \o s) \o t = r \o (s \o t)
BY ConcatAssociative, SMTT(30)

LEMMA Tops ==
  ASSUME NEW lo \in Int, NEW s \in Seq(Int)
  PROVE  /\ Len(s) \in Nat /\ (s = <<>> <=> Len(s) = 0) /\ \A i \in 1 .. Len(s) : s[i] \in Int
         /\ Top(lo, s) \in Int
         /\ s # <<>> => Len(s) \in 1 .. Len(s) /\ Top(lo, s) = s[Len(s)]
         /\ Rises(lo, s) => lo <= Top(lo, s)
         /\ Rises(lo, <<>>) /\ Top(lo, <<>>) = lo
<1>1. Len(s) \in Nat /\ (s = <<>> <=> Len(s) = 0) /\ \A i \in 1 .. Len(s) : s[i] \in Int
  BY EmptySeq, ElementOfSeq
<1>2. s # <<>> => Len(s) \in 1 .. Len(s) /\ Top(lo, s) = s[Len(s)]
  BY <1>1 DEF Top
<1>3. Top(lo, s) \in Int
  BY <1>1, <1>2 DEF Top
<1>4. Rises(lo, s) => lo <= Top(lo, s)
  BY <1>1, <1>2 DEF Rises, Top
<1>5. Rises(lo, <<>>) /\ Top(lo, <<>>) = lo
  BY DEF Rises, Top
<1>6. QED BY <1>1, <1>2, <1>3, <1>4, <1>5

LEMMA RisesJoin ==
  ASSUME NEW lo \in Int, NEW s \in Seq(Int), NEW t \in Seq(Int), Rises(lo, s), Rises(Top(lo, s), t)
  PROVE  s \o t \in Seq(Int) /\ Rises(lo, s \o t) /\ Top(lo, s \o t) = Top(Top(lo, s), t)
<1> DEFINE x == s \o t
<1>1. /\ x \in Seq(Int) /\ Len(x) = Len(s) + Len(t)
      /\ \A i \in 1 .. Len(s) + Len(t) : x[i] = IF i <= Len(s) THEN s[i] ELSE t[i - Len(s)]
  BY ConcatProperties
<1> HIDE DEF x
<1>2. /\ Len(s) \in Nat /\ (s = <<>> <=> Len(s) = 0) /\ \A i \in 1 .. Len(s) : s[i] \in Int
      /\ s # <<>> => Len(s) \in 1 .. Len(s) /\ Top(lo, s) = s[Len(s)]
      /\ Top(lo, s) \in Int /\ lo <= Top(lo, s)
  BY Tops
<1>3. /\ Len(t) \in Nat /\ (t = <<>> <=> Len(t) = 0) /\ \A i \in 1 .. Len(t) : t[i] \in Int
  BY Tops
<1>4. \A i \in 1 .. Len(x) : \/ i \in 1 .. Len(s) /\ x[i] = s[i]
                             \/ i - Len(s) \in 1 .. Len(t) /\ x[i] = t[i - Len(s)] /\ Len(s) < i
  <2> TAKE i \in 1 .. Len(x)
  <2>1. i \in 1 .. Len(s) + Len(t)
    BY <1>1
  <2>2. CASE i <= Len(s)
    <3>1. x[i] = s[i]
      BY <1>1, <2>1, <2>2
    <3>2. QED BY <1>2, <1>3, <2>1, <2>2, <3>1
  <2>3. CASE ~(i <= Len(s))
    <3>1. x[i] = t[i - Len(s)]
      BY <1>1, <2>1, <2>3, Zenon
    <3>2. i - Len(s) \in 1 .. Len(t) /\ Len(s) < i
      BY <1>2, <1>3, <2>1, <2>3
    <3>3. QED BY <3>1, <3>2
  <2>4. QED BY <2>2, <2>3
<1>5. \A i \in 1 .. Len(s) : s[i] <= Top(lo, s)
  <2> TAKE i \in 1 .. Len(s)
  <2>1. s # <<>> /\ Len(s) \in 1 .. Len(s) /\ Top(lo, s) = s[Len(s)]
    BY <1>2
  <2>2. CASE i = Len(s)
    BY <1>2, <2>1, <2>2
  <2>3. CASE i # Len(s)
    <3>1. i < Len(s)
      BY <1>2, <2>3
    <3>2. s[i] < s[Len(s)]
      BY <2>1, <3>1 DEF Rises
    <3>3. QED BY <1>2, <2>1, <3>2
  <2>4. QED BY <2>2, <2>3
<1>6. \A i \in 1 .. Len(x) : lo < x[i]
  <2> TAKE i \in 1 .. Len(x)
  <2>1. CASE i \in 1 .. Len(s) /\ x[i] = s[i]
    BY <2>1 DEF Rises
  <2>2. CASE i - Len(s) \in 1 .. Len(t) /\ x[i] = t[i - Len(s)]
    <3>1. Top(lo, s) < t[i - Len(s)] /\ t[i - Len(s)] \in Int
      BY <1>3, <2>2 DEF Rises
    <3>2. QED BY <1>2, <2>2, <3>1
  <2>3. QED BY <1>4, <2>1, <2>2
<1>7. \A i, j \in 1 .. Len(x) : i < j => x[i] < x[j]
  <2> SUFFICES ASSUME NEW i \in 1 .. Len(x), NEW j \in 1 .. Len(x), i < j PROVE x[i] < x[j]
    OBVIOUS
  <2>1. CASE j \in 1 .. Len(s) /\ x[j] = s[j]
    <3>1. i \in 1 .. Len(s) /\ x[i] = s[i]
      BY <1>2, <1>4, <2>1
    <3>2. QED BY <2>1, <3>1 DEF Rises
  <2>2. CASE j - Len(s) \in 1 .. Len(t) /\ x[j] = t[j - Len(s)]
    <3>1. CASE i \in 1 .. Len(s) /\ x[i] = s[i]
      <4>1. Top(lo, s) < t[j - Len(s)] /\ t[j - Len(s)] \in Int
        BY <1>3, <2>2 DEF Rises
      <4>2. x[i] <= Top(lo, s) /\ x[i] \in Int /\ Top(lo, s) \in Int
        BY <1>2, <1>5, <3>1
      <4>3. QED BY <2>2, <4>1, <4>2
    <3>2. CASE i - Len(s) \in 1 .. Len(t) /\ x[i] = t[i - Len(s)]
      <4>1. i - Len(s) < j - Len(s)
        BY <1>2
      <4>2. QED BY <2>2, <3>2, <4>1 DEF Rises
    <3>3. QED BY <1>4, <3>1, <3>2
  <2>3. QED BY <1>4, <2>1, <2>2
<1>8. Top(lo, x) = Top(Top(lo, s), t)
  <2>1. CASE t = <<>>
    <3>1. x = s
      BY <2>1, ConcatEmptySeq DEF x
    <3>2. QED BY <2>1, <3>1 DEF Top
  <2>2. CASE t # <<>>
    <3>1. Len(t) > 0 /\ Len(x) = Len(s) + Len(t) /\ Len(x) \in 1 .. Len(s) + Len(t) /\ Len(x) > Len(s)
          /\ Len(x) - Len(s) = Len(t)
      <4>1. Len(t) \in Nat \ {0} /\ Len(s) \in Nat /\ Len(x) = Len(s) + Len(t)
        BY <1>1, <1>2, <1>3, <2>2, EmptySeq
      <4>2. QED BY <4>1
    <3>2. x # <<>>
      BY <3>1, <1>2
    <3>3. x[Len(x)] = t[Len(t)]
      <4> DEFINE n == Len(x)
      <4>1. n \in 1 .. Len(x) /\ n - Len(s) = Len(t) /\ ~(n \in 1 .. Len(s))
        BY <1>1, <1>2, <1>3, <3>1
      <4> HIDE DEF n
      <4>2. x[n] = t[n - Len(s)]
        BY <1>4, <4>1, Zenon
      <4>3. QED BY <4>1, <4>2 DEF n
    <3>4. QED BY <2>2, <3>2, <3>3 DEF Top
  <2>3. QED BY <2>1, <2>2
<1>9. Rises(lo, x)
  BY <1>6, <1>7 DEF Rises
<1>10. QED BY <1>1, <1>8, <1>9 DEF x

(* Numbers that follow on each other.                                      *)
LEMMA RisesRun ==
  ASSUME NEW lo \in Int, NEW s \in Seq(Int), NEW a \in Int, lo <= a, \A i \in 1 .. Len(s) : s[i] = a + i
  PROVE  Rises(lo, s) /\ Top(lo, s) = IF Len(s) = 0 THEN lo ELSE a + Len(s)
<1>1. Len(s) \in Nat /\ (s = <<>> <=> Len(s) = 0) /\ (s # <<>> => Len(s) \in 1 .. Len(s))
  BY Tops
<1>2. Rises(lo, s)
  BY <1>1 DEF Rises
<1>3. QED BY <1>1, <1>2 DEF Top

(* The first bytes and the rest.                                           *)
LEMMA RisesSplit ==
  ASSUME NEW lo \in Int, NEW s \in Seq(Int), Rises(lo, s), NEW c \in 1 .. Len(s)
  PROVE  /\ SubSeq(s, 1, c) \in Seq(Int) /\ SubSeq(s, c + 1, Len(s)) \in Seq(Int)
         /\ Top(lo, SubSeq(s, 1, c)) = s[c]
         /\ Rises(s[c], SubSeq(s, c + 1, Len(s)))
         /\ Top(s[c], SubSeq(s, c + 1, Len(s))) = Top(lo, s)
<1> DEFINE p == SubSeq(s, 1, c)
           q == SubSeq(s, c + 1, Len(s))
           n == Len(s)
<1>1. /\ n \in Nat /\ c \in Nat /\ c <= n /\ 0 + 1 = 1 /\ 0 \in Nat /\ 0 <= c /\ c - 0 = c /\ n <= n /\ s # <<>>
      /\ \A i \in 1 .. n : s[i] \in Int
  BY Tops
<1>2. p \in Seq(Int) /\ Len(p) = c /\ \A i \in 1 .. c : p[i] = s[0 + i]
  BY <1>1, Part
<1>3. q \in Seq(Int) /\ Len(q) = n - c /\ \A i \in 1 .. n - c : q[i] = s[c + i]
  BY <1>1, Part
<1> HIDE DEF p, q
<1>4. Top(lo, p) = s[c]
  <2>1. p # <<>>
    BY <1>1, <1>2
  <2>2. c \in 1 .. c /\ 0 + c = c
    BY <1>1
  <2>3. p[c] = s[c]
    BY <1>2, <2>2
  <2>4. QED BY <1>2, <2>1, <2>3 DEF Top
<1>5. Rises(s[c], q)
  <2>1. \A i \in 1 .. Len(q) : q[i] = s[c + i] /\ c + i \in 1 .. n /\ c < c + i
    BY <1>1, <1>3
  <2>2. \A i \in 1 .. Len(q) : s[c] < q[i]
    BY <2>1 DEF Rises
  <2>3. \A i, j \in 1 .. Len(q) : i < j => q[i] < q[j]
    <3>1. \A i, j \in 1 .. Len(q) : i < j => c + i < c + j
      BY <1>1
    <3>2. QED BY <2>1, <3>1 DEF Rises
  <2>4. QED BY <2>2, <2>3 DEF Rises
<1>6. Top(s[c], q) = Top(lo, s)
  <2>1. CASE c = n
    <3>1. q = <<>>
      BY <1>1, <1>3, <2>1, EmptySeq
    <3>2. QED BY <1>1, <2>1, <3>1 DEF Top
  <2>2. CASE c # n
    <3>1. n - c \in 1 .. n - c /\ c + (n - c) = n
      BY <1>1, <2>2
    <3>2. q # <<>>
      BY <1>3, <3>1
    <3>3. QED BY <1>1, <1>3, <3>1, <3>2 DEF Top
  <2>3. QED BY <2>1, <2>2
<1>7. QED BY <1>2, <1>3, <1>4, <1>5, <1>6 DEF p, q

-----------------------------------------------------------------------------
(***************************************************************************)
(* The order in which read hands over what the board sent, when neither    *)
(* side stands still for as long as the other takes to come round.         *)
(***************************************************************************)
unread(k) == buf[k].data[1] + buf[k].len * Chunk
top       == Top(Top(last, work), tiny)
busy      == pc \in {"chunk", "advance"} \/ (pc = "wait" /\ nonblock)

(* Where read will be once the buffer that submit has taken is marked.     *)
vnext == IF spc = "mark" /\ next = sb THEN MaxUrb ELSE rank(next)

(* What was filled later will be submitted later, and all of it before     *)
(* what is still to be filled.                                             *)
Sorted ==
  /\ \A k, l \in Buffers : fresh(k) /\ fresh(l) /\ rank(k) < rank(l) =>
       buf[k].data[1] + size <= buf[l].data[1]
  /\ \A k \in Buffers : fresh(k) =>
       \A i \in 1 .. Len(wire) : rank(k) < rank(wire[i].buf)

(* read has come to next: nothing behind it is left to read, and all that  *)
(* lies ahead is younger than all it has got.                              *)
Ahead ==
  /\ \A k \in Buffers : fresh(k) /\ vnext <= rank(k) => top < unread(k)
  /\ \A k \in Buffers : rank(k) < vnext /\ ~(spc = "mark" /\ k = sb) => ~fresh(k)
  /\ \A i \in 1 .. Len(wire) : vnext <= rank(wire[i].buf)
  /\ top <= urbs * size

(* A buffer that read is about to leave is read up and not submitted, and  *)
(* a call looks for a buffer when submit has taken none it did not mark.   *)
AtIt ==
  /\ pc = "advance" /\ mine = next =>
       /\ buf[mine].st = "empty"
       /\ \A i \in 1 .. Len(wire) : rank(mine) < rank(wire[i].buf)
  /\ spc = "mark" /\ pc \in {"wait", "chunk", "advance"} => next # sb

(* A buffer that submit took while read was at it is not filled again: it  *)
(* is being marked, or is not yet due.                                     *)
Stale ==
  /\ busy /\ mine # next =>
       \/ spc = "mark" /\ mine = sb
       \/ ~fresh(mine) /\ lowest <= rank(mine)
  /\ spc = "mark" /\ mine = sb /\ pc \in {"chunk", "wait"} /\ busy /\ fresh(sb) =>
       top < unread(sb)

(* What read has got so far, and what it has got too much.                 *)
Got ==
  /\ Rises(last, work) /\ Rises(Top(last, work), tiny)
  /\ pc \in {"find", "wait", "chunk"} \/ (pc = "advance" /\ cnt > Chunk) => tiny = <<>>
  /\ pc = "idle" => work = <<>>
  /\ \A i \in 1 .. Len(wire) : wire[i].data = <<>>
  /\ taken = <<>>

Following == Sorted /\ Ahead /\ AtIt /\ Stale /\ Got

(* The numbers of the bytes of a buffer.                                   *)
LEMMA Numbers ==
  ASSUME RingInv, dir = "read"
  PROVE  /\ top \in Int /\ Top(last, work) \in Int
         /\ \A k \in Buffers : fresh(k) =>
              /\ buf[k].data[1] \in Int /\ unread(k) \in Int
              /\ buf[k].data[1] <= unread(k) /\ unread(k) + Chunk <= buf[k].data[1] + size
              /\ buf[k].data[1] + size - 1 <= urbs * size
         /\ urbs * size \in Nat
<1>1. last \in Int /\ work \in Seq(Int) /\ tiny \in Seq(Int)
  BY DEF RingInv, Typed
<1>2. Top(last, work) \in Int
  BY <1>1, Tops
<1>3. top \in Int
  BY <1>1, <1>2, Tops DEF top
<1>4. urbs * size \in Nat
  BY Times, Sizes DEF RingInv, Typed
<1>5. ASSUME NEW k \in Buffers, fresh(k)
      PROVE  /\ buf[k].data[1] \in Int /\ unread(k) \in Int
             /\ buf[k].data[1] <= unread(k) /\ unread(k) + Chunk <= buf[k].data[1] + size
             /\ buf[k].data[1] + size - 1 <= urbs * size
  <2> DEFINE from == buf[k].len * Chunk
  <2>1. from \in Nat /\ from + Chunk <= size /\ buf[k].data[1] \in Int
        /\ buf[k].data[1] + size - 1 <= urbs * size
    BY <1>5, Packet DEF RingInv, Sound
  <2>2. unread(k) = buf[k].data[1] + from
    BY DEF unread
  <2> HIDE DEF from
  <2>3. QED BY <2>1, <2>2, Sizes
<1>6. QED BY <1>2, <1>3, <1>4, <1>5

(* The process' variables, and a buffer that keeps what it holds.          *)
LEMMA Same ==
  ASSUME UNCHANGED <<last, work, tiny>>
  PROVE  top' = top /\ Top(last, work)' = Top(last, work)
BY DEF top, Top

(* A process that submit has moved off a buffer finds out before that      *)
(* buffer is filled or taken again.                                        *)
LEMMA Overtaken ==
  ASSUME Prompt, Typed, spc = "idle", ~held, busy, mine # next, lowest <= rank(mine)
  PROVE  mine # Head(wire).buf /\ lowest + 1 <= rank(mine)
<1>1. Head(wire).buf # mine /\ ~((MaxUrb + sub - mine) % MaxUrb >= InFlight)
  BY DEF held, busy
<1>2. sub = start /\ start \in 0 .. MaxUrb - 1 /\ mine \in 0 .. MaxUrb - 1 /\ rank(start) = 0
      /\ MaxUrb \in Nat \ {0} /\ 1 <= lowest /\ lowest \in Nat /\ rank(mine) \in 0 .. MaxUrb - 1
  BY Sizes, Ranks DEF start, Buffers, Typed
<1>3. (MaxUrb + sub - mine) % MaxUrb = MaxUrb - rank(mine)
  <2> DEFINE n == MaxUrb + sub - mine
  <2>1. n \in Nat /\ n < MaxUrb + MaxUrb /\ mine # start
    BY <1>2 DEF rank
  <2> HIDE DEF n
  <2>2. n % MaxUrb = IF n < MaxUrb THEN n ELSE n - MaxUrb
    BY <1>2, <2>1, Wrap
  <2>3. QED BY <1>2, <2>1, <2>2 DEF rank, n
<1>4. lowest = MaxUrb - InFlight /\ InFlight \in Nat
  BY Sizes DEF lowest
<1>5. ~(MaxUrb - rank(mine) >= InFlight)
  BY <1>1, <1>3
<1>6. lowest + 1 <= rank(mine)
  BY <1>2, <1>4, <1>5
<1>7. QED BY <1>1, <1>6

LEMMA OrderCallback ==
  ASSUME Prompt, dir = "read", RingInv, RingInv', Following, callback
  PROVE  Following'
<1>1. /\ Typed /\ Submitting /\ Sound
  BY DEF RingInv, Sound
<1>2. /\ spc = "idle" /\ spc' = "take" /\ urbs' = urbs + 1 /\ ~held
      /\ UNCHANGED <<dir, next, sub, sb, taken, errors, pc, call_, tiny, w, cut, calls>>
  BY DEF callback
<1>3. /\ start' = start /\ lowest' = lowest + 1
      /\ Len(wire') = Len(wire) - 1 /\ \A i \in 1 .. Len(wire') : wire'[i] = wire[i + 1]
      /\ Head(wire) = wire[1] /\ 1 \in 1 .. Len(wire)
  BY <1>1, WireCallback
<1>4. \A k : rank(k)' = rank(k)
  BY <1>3, Stays
<1>u. PICK u : u = wire[1].buf
  OBVIOUS
<1>5. /\ u \in Buffers /\ rank(u) \in lowest .. MaxUrb - 1
      /\ \A i \in 1 .. Len(wire') : i + 1 \in 1 .. Len(wire) /\ wire'[i].buf \in Buffers /\ rank(u) < rank(wire'[i].buf)
  <2>1. Len(wire) \in Nat /\ u \in Buffers /\ rank(u) \in lowest .. MaxUrb - 1
    BY <1>1, <1>3, <1>u, Wire
  <2>2. ASSUME NEW i \in 1 .. Len(wire')
        PROVE  i + 1 \in 1 .. Len(wire) /\ wire'[i].buf \in Buffers /\ rank(u) < rank(wire'[i].buf)
    <3>1. i + 1 \in 1 .. Len(wire) /\ 1 < i + 1 /\ wire'[i] = wire[i + 1]
      BY <1>3, <2>1
    <3>2. wire[i + 1].buf \in Buffers
      BY <1>1, <3>1, Wire
    <3>3. QED BY <1>1, <1>3, <1>u, <3>1, <3>2 DEF Submitting
  <2>3. QED BY <2>1, <2>2
<1>6. last' = last /\ UNCHANGED <<work, tiny, pc, cnt, mine, nonblock>>
  <2>1. wire[1].data = <<>>
    BY <1>3 DEF Following, Got
  <2>2. QED BY <1>2, <1>3, <2>1 DEF callback, call_
<1>7. top' = top
  BY <1>6, Same
<1>8. /\ buf' = [buf EXCEPT ![u] = [st |-> "ready", len |-> 0, data |-> received(urbs)]]
      /\ buf \in [Buffers -> Buffer]
  BY <1>1, <1>3, <1>u DEF callback, Typed
<1>9. \A k \in Buffers : k # u => buf'[k] = buf[k] /\ (fresh(k)' <=> fresh(k)) /\ unread(k)' = unread(k)
  BY <1>8 DEF fresh, unread
<1>10. /\ urbs \in Nat /\ size \in Nat \ {0} /\ urbs * size \in Nat /\ (urbs + 1) * size = urbs * size + size
  BY <1>1, Sizes, Times DEF Typed
<1>11. fresh(u)' /\ buf'[u].data[1] = urbs * size + 1 /\ unread(u)' = urbs * size + 1
  <2>1. buf'[u] = [st |-> "ready", len |-> 0, data |-> received(urbs)]
    BY <1>5, <1>8
  <2>2. buf'[u].st = "ready" /\ buf'[u].len = 0 /\ buf'[u].data = received(urbs)
    BY <2>1
  <2>3. 1 \in 1 .. size
    BY <1>10
  <2>4. received(urbs)[1] = urbs * size + 1
    BY <1>10, <2>3, Received
  <2>5. 0 * Chunk = 0
    BY Sizes
  <2>6. QED BY <1>10, <2>2, <2>4, <2>5 DEF fresh, unread
<1>12. /\ top \in Int
       /\ \A k \in Buffers : fresh(k) => buf[k].data[1] \in Int /\ buf[k].data[1] + size - 1 <= urbs * size
       /\ \A k \in Buffers : rank(k) \in 0 .. MaxUrb - 1
       /\ \A k \in Buffers : fresh(k) => rank(k) < rank(u)
  BY <1>1, <1>3, <1>u, Numbers, Ranks DEF Following, Sorted
<1>13. vnext' = vnext /\ vnext <= rank(u) /\ vnext = rank(next)
  BY <1>2, <1>3, <1>4, <1>u DEF vnext, Following, Ahead
<1>14. next \in Buffers /\ mine \in Buffers /\ rank(next) \in 0 .. MaxUrb - 1 /\ lowest \in Nat /\ MaxUrb \in Nat
  BY <1>1, <1>12, Sizes DEF Typed
<1>15. Sorted'
  <2>1. ASSUME NEW k \in Buffers, NEW l \in Buffers, fresh(k)', fresh(l)', rank(k) < rank(l)
        PROVE  buf'[k].data[1] + size <= buf'[l].data[1]
    <3>1. CASE l = u
      <4>1. k # u
        BY <1>5, <2>1, <3>1
      <4>2. fresh(k) /\ buf'[k] = buf[k]
        BY <1>9, <2>1, <4>1
      <4>3. buf[k].data[1] \in Int /\ buf[k].data[1] + size - 1 <= urbs * size
        BY <1>12, <4>2
      <4>4. QED BY <1>10, <1>11, <3>1, <4>2, <4>3
    <3>2. CASE l # u
      <4>1. fresh(l) /\ buf'[l] = buf[l]
        BY <1>9, <2>1, <3>2
      <4>2. rank(l) < rank(u)
        BY <1>12, <4>1
      <4>3. k # u
        BY <1>12, <2>1, <4>2
      <4>4. QED BY <1>9, <2>1, <4>1, <4>3 DEF Following, Sorted
    <3>3. QED BY <3>1, <3>2
  <2>2. ASSUME NEW k \in Buffers, fresh(k)', NEW i \in 1 .. Len(wire')
        PROVE  rank(k) < rank(wire'[i].buf)
    <3>1. rank(u) < rank(wire'[i].buf) /\ rank(wire'[i].buf) \in 0 .. MaxUrb - 1
      BY <1>5, <1>12
    <3>2. k = u \/ rank(k) < rank(u)
      BY <1>9, <1>12, <2>2
    <3>3. rank(k) \in 0 .. MaxUrb - 1 /\ rank(u) \in 0 .. MaxUrb - 1
      BY <1>5, <1>12
    <3>4. QED BY <1>14, <3>1, <3>2, <3>3
  <2>3. size' = size
    BY DEF size
  <2>4. QED BY <1>4, <2>1, <2>2, <2>3 DEF Sorted
<1>16. Ahead'
  <2>1. ASSUME NEW k \in Buffers, fresh(k)', vnext <= rank(k)
        PROVE  top < unread(k)'
    <3>1. CASE k = u
      BY <1>10, <1>11, <1>12, <3>1 DEF Following, Ahead
    <3>2. CASE k # u
      BY <1>9, <2>1, <3>2 DEF Following, Ahead
    <3>3. QED BY <3>1, <3>2
  <2>2. ASSUME NEW k \in Buffers, rank(k) < vnext
        PROVE  ~fresh(k)'
    <3>1. k # u
      BY <1>5, <1>12, <1>13, <1>14, <2>2
    <3>2. QED BY <1>2, <1>9, <2>2, <3>1 DEF Following, Ahead
  <2>3. ASSUME NEW i \in 1 .. Len(wire')
        PROVE  vnext <= rank(wire'[i].buf)
    <3>1. i + 1 \in 1 .. Len(wire) /\ wire'[i] = wire[i + 1]
      BY <1>3, <1>5
    <3>2. QED BY <3>1 DEF Following, Ahead
  <2>4. top <= urbs' * size
    BY <1>2, <1>10, <1>12 DEF Following, Ahead
  <2>5. size' = size
    BY DEF size
  <2>6. QED BY <1>2, <1>4, <1>7, <1>13, <2>1, <2>2, <2>3, <2>4, <2>5 DEF Ahead
<1>17. AtIt'
  <2>1. ASSUME pc = "advance", mine = next
        PROVE  buf'[mine].st = "empty" /\ \A i \in 1 .. Len(wire') : rank(mine) < rank(wire'[i].buf)
    <3>1. buf[mine].st = "empty" /\ \A i \in 1 .. Len(wire) : rank(mine) < rank(wire[i].buf)
      BY <2>1 DEF Following, AtIt
    <3>2. mine # u
      BY <1>3, <1>5, <1>14, <1>u, <1>12, <3>1
    <3>3. \A i \in 1 .. Len(wire') : wire'[i].buf = wire[i + 1].buf /\ i + 1 \in 1 .. Len(wire)
      BY <1>3, <1>5
    <3>4. QED BY <1>9, <1>14, <3>1, <3>2, <3>3
  <2>2. QED BY <1>2, <1>4, <1>6, <2>1 DEF AtIt
<1>18. Stale'
  <2>1. ASSUME busy, mine # next
        PROVE  ~fresh(mine)' /\ lowest' <= rank(mine)
    <3>1. ~fresh(mine) /\ lowest <= rank(mine)
      BY <1>2, <2>1 DEF Following, Stale
    <3>2. mine # Head(wire).buf /\ lowest + 1 <= rank(mine)
      BY <1>1, <1>2, <2>1, <3>1, Overtaken
    <3>3. mine # u
      BY <1>3, <1>u, <3>2
    <3>4. ~fresh(mine)'
      BY <1>6, <1>9, <1>14, <3>1, <3>3 DEF fresh
    <3>5. QED BY <1>3, <3>2, <3>4
  <2>2. busy' = busy
    BY <1>6 DEF busy
  <2>3. QED BY <1>2, <1>4, <1>6, <2>1, <2>2 DEF Stale
<1>19. Got'
  <2>1. \A i \in 1 .. Len(wire') : wire'[i].data = <<>>
    BY <1>3, <1>5 DEF Following, Got
  <2>2. QED BY <1>2, <1>6, <2>1 DEF Following, Got
<1>20. QED BY <1>15, <1>16, <1>17, <1>18, <1>19 DEF Following

LEMMA OrderTake ==
  ASSUME dir = "read", RingInv, Following, submit_take
  PROVE  Following'
<1>1. Typed /\ Submitting
  BY DEF RingInv
<1>2. /\ spc = "take" /\ sb' = sub /\ spc' = "mark"
      /\ next' = IF next = sub THEN after(next) ELSE next
      /\ UNCHANGED <<dir, buf, wire, taken, urbs, pc, call_, last, work, tiny, mine, nonblock, cnt>>
  BY DEF submit_take, call_, user
<1>3. start' = start /\ lowest' = lowest /\ start = sub
  BY <1>1, <1>2, WireTake DEF start
<1>4. \A k : rank(k)' = rank(k)
  BY <1>3, Stays
<1>5. /\ top' = top /\ busy' = busy /\ \A k : (fresh(k)' <=> fresh(k)) /\ unread(k)' = unread(k)
  BY <1>2, Same DEF busy, fresh, unread
<1>6. /\ next \in Buffers /\ mine \in Buffers /\ sub \in Buffers /\ MaxUrb \in Nat /\ 3 <= MaxUrb
      /\ \A k \in Buffers : rank(k) \in 0 .. MaxUrb - 1
      /\ \A k, l \in Buffers : rank(k) = rank(l) => k = l
      /\ rank(sub) = 0
  BY <1>1, <1>3, Sizes, Ranks DEF Typed
<1>7. lowest \in Nat /\ 2 <= lowest
  BY <1>2, Sizes DEF lowest
<1>8. after(sub) \in Buffers /\ after(sub) # sub /\ rank(after(sub)) = 1
  BY <1>1, <1>6, After, Ranks
<1>9. vnext = rank(next) /\ next' # sub /\ next' \in Buffers /\ vnext' = rank(next')
  <2>1. next' # sub /\ next' \in Buffers
    BY <1>2, <1>6, <1>8
  <2>2. vnext = rank(next)
    BY <1>2 DEF vnext
  <2>3. vnext' = rank(next')
    BY <1>2, <1>3, <2>1 DEF vnext, rank
  <2>4. QED BY <2>1, <2>2, <2>3
<1>10. IF next = sub THEN vnext = 0 /\ vnext' = 1 ELSE vnext' = vnext /\ next' = next
  BY <1>2, <1>6, <1>8, <1>9
<1>11. \A i \in 1 .. Len(wire) : lowest <= rank(wire[i].buf) /\ wire[i].buf \in Buffers
  BY <1>1, OnWire DEF Submitting
<1>12. size' = size
  BY DEF size
<1>13. vnext \in Nat /\ vnext' \in Nat /\ vnext <= vnext'
  BY <1>6, <1>9, <1>10
<1>14. Sorted'
  BY <1>2, <1>4, <1>5, <1>12 DEF Following, Sorted
<1>15. Ahead'
  <2>1. ASSUME NEW k \in Buffers, fresh(k), vnext' <= rank(k)
        PROVE  top < unread(k)
    <3>1. vnext <= rank(k)
      BY <1>6, <1>13, <2>1
    <3>2. QED BY <2>1, <3>1 DEF Following, Ahead
  <2>2. ASSUME NEW k \in Buffers, rank(k) < vnext', k # sub
        PROVE  ~fresh(k)
    <3>1. CASE next = sub
      BY <1>6, <1>10, <2>2, <3>1
    <3>2. CASE next # sub
      BY <1>2, <1>10, <2>2, <3>2 DEF Following, Ahead
    <3>3. QED BY <3>1, <3>2
  <2>3. ASSUME NEW i \in 1 .. Len(wire)
        PROVE  vnext' <= rank(wire[i].buf)
    <3>1. CASE next = sub
      BY <1>6, <1>7, <1>10, <1>11, <3>1
    <3>2. CASE next # sub
      BY <1>10, <3>2 DEF Following, Ahead
    <3>3. QED BY <3>1, <3>2
  <2>4. QED BY <1>2, <1>4, <1>5, <1>12, <2>1, <2>2, <2>3 DEF Following, Ahead
<1>16. AtIt'
  <2>1. ASSUME pc = "advance", mine = next'
        PROVE  mine = next
    <3>1. CASE mine # next
      <4>1. lowest <= rank(mine)
        BY <1>2, <2>1, <3>1 DEF Following, Stale, busy
      <4>2. mine = after(sub)
        BY <1>2, <2>1, <3>1
      <4>3. QED BY <1>7, <1>8, <4>1, <4>2
    <3>2. QED BY <3>1
  <2>2. ASSUME pc = "advance", mine = next'
        PROVE  buf[mine].st = "empty" /\ \A i \in 1 .. Len(wire) : rank(mine) < rank(wire[i].buf)
    BY <2>1, <2>2 DEF Following, AtIt
  <2>3. QED BY <1>2, <1>4, <1>9, <2>2 DEF AtIt
<1>17. Stale'
  <2>1. ASSUME busy, mine # next'
        PROVE  mine = sub \/ (~fresh(mine) /\ lowest <= rank(mine))
    <3>1. CASE mine = next
      BY <1>2, <2>1, <3>1
    <3>2. CASE mine # next
      BY <1>2, <2>1, <3>2 DEF Following, Stale
    <3>3. QED BY <3>1, <3>2
  <2>2. ASSUME mine = sub, busy, fresh(sub)
        PROVE  top < unread(sub)
    <3>1. mine = next
      <4> SUFFICES ASSUME mine # next PROVE FALSE
        OBVIOUS
      <4>1. lowest <= rank(mine)
        BY <1>2, <2>2 DEF Following, Stale
      <4>2. QED BY <1>6, <1>7, <2>2, <4>1
    <3>2. vnext <= rank(sub)
      BY <1>6, <1>9, <2>2, <3>1
    <3>3. QED BY <1>6, <2>2, <3>2 DEF Following, Ahead
  <2>3. (fresh(mine)' <=> fresh(mine)) /\ (fresh(sb)' <=> fresh(sub)) /\ unread(sb)' = unread(sub)
    BY <1>2 DEF fresh, unread
  <2>4. QED BY <1>2, <1>3, <1>4, <1>5, <2>1, <2>2, <2>3 DEF Stale
<1>18. Got'
  BY <1>2 DEF Following, Got, Top
<1>19. QED BY <1>14, <1>15, <1>16, <1>17, <1>18 DEF Following

LEMMA OrderMark ==
  ASSUME dir = "read", RingInv, Following, submit_mark
  PROVE  Following'
<1>1. Typed /\ Submitting
  BY DEF RingInv
<1>2. /\ spc = "mark" /\ spc' = "urb" /\ taken' = <<>> /\ buf' = [buf EXCEPT ![sb].st = "sbmng"]
      /\ UNCHANGED <<dir, next, wire, sb, urbs, pc, call_, last, work, tiny, mine, nonblock, cnt>>
  BY DEF submit_mark, call_, user
<1>3. /\ start = sb /\ lowest' = lowest - 1
      /\ \A k \in Buffers : rank(k)' = IF k = sb THEN MaxUrb - 1 ELSE rank(k) - 1
  BY <1>1, WireMark
<1>4. /\ next \in Buffers /\ mine \in Buffers /\ sb \in Buffers /\ MaxUrb \in Nat /\ 3 <= MaxUrb
      /\ lowest \in Nat /\ 1 <= lowest /\ lowest <= MaxUrb - 1
      /\ \A k \in Buffers : rank(k) \in 0 .. MaxUrb - 1
      /\ buf \in [Buffers -> Buffer]
  BY <1>1, Sizes, Ranks DEF Typed
<1>5. /\ ~fresh(sb)' /\ \A k \in Buffers : k # sb => buf'[k] = buf[k] /\ (fresh(k)' <=> fresh(k)) /\ unread(k)' = unread(k)
  <2>1. buf'[sb].st = "sbmng" /\ \A k \in Buffers : k # sb => buf'[k] = buf[k]
    BY <1>2, <1>4 DEF Buffer
  <2>2. QED BY <1>2, <2>1 DEF fresh, unread
<1>6. top' = top /\ busy' = busy /\ size' = size
  BY <1>2, Same DEF busy, size
<1>7. vnext' = vnext - 1
  <2>1. vnext' = rank(next)'
    BY <1>2 DEF vnext
  <2>2. rank(next)' = IF next = sb THEN MaxUrb - 1 ELSE rank(next) - 1
    BY <1>2, <1>3, <1>4 DEF rank
  <2>3. QED BY <1>2, <2>1, <2>2 DEF vnext
<1>8. vnext \in Int
  BY <1>4 DEF vnext
<1>9. \A i \in 1 .. Len(wire) : wire[i].buf \in Buffers /\ wire[i].buf # sb
  BY <1>1, <1>2, Wire
<1>10. \A i \in 1 .. Len(wire) : rank(wire[i].buf)' = rank(wire[i].buf) - 1 /\ rank(wire[i].buf) \in Int
  BY <1>2, <1>3, <1>4, <1>9 DEF rank
<1>11. \A k \in Buffers : fresh(k)' => k # sb /\ fresh(k) /\ buf'[k] = buf[k] /\ rank(k)' = rank(k) - 1 /\ unread(k)' = unread(k)
                                       /\ rank(k) \in Int
  BY <1>2, <1>3, <1>4, <1>5 DEF fresh
<1>12. Sorted'
  <2>1. ASSUME NEW k \in Buffers, NEW l \in Buffers, fresh(k)', fresh(l)', rank(k)' < rank(l)'
        PROVE  buf'[k].data[1] + size <= buf'[l].data[1]
    <3>1. rank(k) < rank(l)
      BY <1>11, <2>1
    <3>2. QED BY <1>11, <2>1, <3>1 DEF Following, Sorted
  <2>2. ASSUME NEW k \in Buffers, fresh(k)', NEW i \in 1 .. Len(wire)
        PROVE  rank(k)' < rank(wire[i].buf)'
    <3>1. rank(k) < rank(wire[i].buf)
      BY <1>11, <2>2 DEF Following, Sorted
    <3>2. QED BY <1>10, <1>11, <2>2, <3>1
  <2>3. QED BY <1>2, <1>6, <2>1, <2>2 DEF Sorted
<1>13. Ahead'
  <2>1. ASSUME NEW k \in Buffers, fresh(k)', vnext' <= rank(k)'
        PROVE  top < unread(k)'
    <3>1. fresh(k) /\ vnext <= rank(k)
      BY <1>7, <1>8, <1>11, <2>1
    <3>2. QED BY <1>11, <2>1, <3>1 DEF Following, Ahead
  <2>2. ASSUME NEW k \in Buffers, rank(k)' < vnext', fresh(k)'
        PROVE  FALSE
    <3>1. fresh(k) /\ k # sb /\ rank(k) < vnext
      BY <1>7, <1>8, <1>11, <2>2
    <3>2. QED BY <3>1 DEF Following, Ahead
  <2>3. ASSUME NEW i \in 1 .. Len(wire)
        PROVE  vnext' <= rank(wire[i].buf)'
    <3>1. vnext <= rank(wire[i].buf)
      BY DEF Following, Ahead
    <3>2. QED BY <1>7, <1>8, <1>10, <3>1
  <2>4. top <= urbs * size
    BY DEF Following, Ahead
  <2>5. QED BY <1>2, <1>6, <2>1, <2>2, <2>3, <2>4 DEF Ahead
<1>14. AtIt'
  <2>1. ASSUME pc = "advance", mine = next
        PROVE  buf'[mine].st = "empty" /\ \A i \in 1 .. Len(wire) : rank(mine)' < rank(wire[i].buf)'
    <3>1. buf[mine].st = "empty" /\ mine # sb /\ \A i \in 1 .. Len(wire) : rank(mine) < rank(wire[i].buf)
      BY <1>2, <2>1 DEF Following, AtIt
    <3>2. rank(mine)' = rank(mine) - 1 /\ rank(mine) \in Int
      BY <1>2, <1>3, <1>4, <3>1 DEF rank
    <3>3. QED BY <1>4, <1>5, <1>10, <3>1, <3>2
  <2>2. QED BY <1>2, <2>1 DEF AtIt
<1>15. Stale'
  <2>1. ASSUME busy, mine # next
        PROVE  ~fresh(mine)' /\ lowest' <= rank(mine)'
    <3>1. CASE mine = sb
      <4>1. rank(mine)' = MaxUrb - 1
        BY <1>2, <1>3, <1>4, <3>1 DEF rank
      <4>2. ~fresh(mine)'
        BY <1>2, <1>5, <3>1 DEF fresh
      <4>3. QED BY <1>3, <1>4, <4>1, <4>2
    <3>2. CASE mine # sb
      <4>1. ~fresh(mine) /\ lowest <= rank(mine)
        BY <2>1, <3>2 DEF Following, Stale
      <4>2. rank(mine)' = rank(mine) - 1
        BY <1>2, <1>3, <1>4, <3>2 DEF rank
      <4>3. ~fresh(mine)'
        BY <1>2, <1>4, <1>5, <3>2, <4>1 DEF fresh
      <4>4. QED BY <1>3, <1>4, <4>1, <4>2, <4>3
    <3>3. QED BY <3>1, <3>2
  <2>2. QED BY <1>2, <1>6, <2>1 DEF Stale
<1>16. Got'
  BY <1>2 DEF Following, Got, Top
<1>17. QED BY <1>12, <1>13, <1>14, <1>15, <1>16 DEF Following

LEMMA OrderUrb ==
  ASSUME dir = "read", RingInv, Following, submit_urb
  PROVE  Following'
<1>1. Typed /\ Submitting
  BY DEF RingInv
<1>2. /\ spc = "urb" /\ spc' = "idle" /\ taken' = <<>>
      /\ UNCHANGED <<dir, next, sub, sb, urbs, pc, call_, last, work, tiny, mine, nonblock, cnt>>
  BY DEF submit_urb, call_, user
<1>3. /\ start' = start /\ lowest' = lowest /\ rank(sb) = MaxUrb - 1 /\ Len(wire) <= InFlight - 1
      /\ \/ /\ Len(wire') = Len(wire) + 1 /\ wire'[Len(wire) + 1] = [buf |-> sb, data |-> taken]
            /\ buf' = [buf EXCEPT ![sb].st = "sbmtd"]
         \/ Len(wire') = Len(wire) /\ buf' = [buf EXCEPT ![sb] = Empty]
      /\ \A i \in 1 .. Len(wire) : wire'[i] = wire[i]
  BY <1>1, WireUrb
<1>4. \A k : rank(k)' = rank(k)
  BY <1>3, Stays
<1>5. /\ next \in Buffers /\ mine \in Buffers /\ sb \in Buffers /\ MaxUrb \in Nat /\ Len(wire) \in Nat
      /\ \A k \in Buffers : rank(k) \in 0 .. MaxUrb - 1
      /\ \A k, l \in Buffers : rank(k) = rank(l) => k = l
      /\ buf \in [Buffers -> Buffer] /\ buf[sb].st = "sbmng"
  BY <1>1, <1>2, Sizes, Ranks, OnWire DEF Typed, Submitting
<1>6. \A k \in Buffers : k # sb => buf'[k] = buf[k]
  BY <1>3, <1>5
<1>7. ~fresh(sb) /\ ~(buf'[sb].st \in {"ready", "rding"})
  <2>1. ~fresh(sb)
    BY <1>5 DEF fresh
  <2>2. CASE buf' = [buf EXCEPT ![sb].st = "sbmtd"]
    <3>1. buf'[sb].st = "sbmtd"
      BY <1>5, <2>2 DEF Buffer
    <3>2. QED BY <2>1, <3>1
  <2>3. CASE buf' = [buf EXCEPT ![sb] = Empty]
    <3>1. buf'[sb].st = "empty"
      BY <1>5, <2>3 DEF Empty
    <3>2. QED BY <2>1, <3>1
  <2>4. QED BY <1>3, <2>2, <2>3
<1>8. \A k \in Buffers : /\ fresh(k)' <=> fresh(k)
                         /\ fresh(k) => k # sb /\ buf'[k] = buf[k] /\ unread(k)' = unread(k) /\ rank(k) < MaxUrb - 1
  <2> TAKE k \in Buffers
  <2>1. CASE k = sb
    BY <1>7, <2>1 DEF fresh
  <2>2. CASE k # sb
    <3>1. rank(k) < MaxUrb - 1
      BY <1>3, <1>5, <2>2
    <3>2. QED BY <1>6, <2>2, <3>1 DEF fresh, unread
  <2>3. QED BY <2>1, <2>2
<1>9. top' = top /\ busy' = busy /\ size' = size /\ vnext' = vnext /\ vnext = rank(next)
  BY <1>2, <1>4, Same DEF busy, size, vnext
<1>10. \A i \in 1 .. Len(wire') : \/ i \in 1 .. Len(wire) /\ wire'[i] = wire[i]
                                  \/ wire'[i].buf = sb /\ wire'[i].data = <<>>
  <2>1. taken = <<>>
    BY DEF Following, Got
  <2>2. QED BY <1>3, <1>5, <2>1
<1>11. Sorted'
  <2>1. ASSUME NEW k \in Buffers, fresh(k)', NEW i \in 1 .. Len(wire')
        PROVE  rank(k) < rank(wire'[i].buf)
    <3>1. CASE i \in 1 .. Len(wire) /\ wire'[i] = wire[i]
      BY <1>8, <2>1, <3>1 DEF Following, Sorted
    <3>2. CASE wire'[i].buf = sb
      BY <1>3, <1>8, <2>1, <3>2
    <3>3. QED BY <1>10, <3>1, <3>2
  <2>2. QED BY <1>4, <1>8, <1>9, <2>1 DEF Following, Sorted
<1>12. Ahead'
  <2>1. ASSUME NEW i \in 1 .. Len(wire')
        PROVE  vnext <= rank(wire'[i].buf)
    <3>1. CASE i \in 1 .. Len(wire) /\ wire'[i] = wire[i]
      BY <3>1 DEF Following, Ahead
    <3>2. CASE wire'[i].buf = sb
      BY <1>3, <1>5, <1>9, <3>2
    <3>3. QED BY <1>10, <3>1, <3>2
  <2>2. \A k \in Buffers : rank(k) < vnext => ~fresh(k)
    BY <1>2 DEF Following, Ahead
  <2>3. \A k \in Buffers : fresh(k) /\ vnext <= rank(k) => top < unread(k)
    BY DEF Following, Ahead
  <2>4. top <= urbs * size
    BY DEF Following, Ahead
  <2>5. QED BY <1>2, <1>4, <1>8, <1>9, <2>1, <2>2, <2>3, <2>4 DEF Ahead
<1>13. AtIt'
  <2>1. ASSUME pc = "advance", mine = next
        PROVE  buf'[mine].st = "empty" /\ \A i \in 1 .. Len(wire') : rank(mine) < rank(wire'[i].buf)
    <3>1. buf[mine].st = "empty" /\ \A i \in 1 .. Len(wire) : rank(mine) < rank(wire[i].buf)
      BY <2>1 DEF Following, AtIt
    <3>2. mine # sb
      BY <1>5, <3>1
    <3>3. rank(mine) < MaxUrb - 1
      BY <1>3, <1>5, <3>2
    <3>4. QED BY <1>3, <1>5, <1>6, <1>10, <3>1, <3>2, <3>3
  <2>2. QED BY <1>2, <1>4, <2>1 DEF AtIt
<1>14. Stale'
  <2>1. ASSUME busy, mine # next
        PROVE  ~fresh(mine)' /\ lowest <= rank(mine)
    <3>1. ~fresh(mine) /\ lowest <= rank(mine)
      BY <1>2, <2>1 DEF Following, Stale
    <3>2. ~fresh(mine)'
      BY <1>2, <1>5, <1>6, <1>7, <3>1 DEF fresh
    <3>3. QED BY <3>1, <3>2
  <2>2. QED BY <1>2, <1>3, <1>4, <1>9, <2>1 DEF Stale
<1>15. Got'
  <2>1. \A i \in 1 .. Len(wire') : wire'[i].data = <<>>
    BY <1>10 DEF Following, Got
  <2>2. QED BY <1>2, <2>1 DEF Following, Got, Top
<1>16. QED BY <1>11, <1>12, <1>13, <1>14, <1>15 DEF Following

(* A step of the process that leaves the ring and the callback alone, and  *)
(* by which the user and the driver together have no more than before.     *)
LEMMA Still ==
  ASSUME RingInv, Following, UNCHANGED <<dir, ring, eng>>, top' \in Int, top' <= top, dir = "read"
  PROVE  /\ Sorted' /\ Ahead' /\ taken' = <<>> /\ \A i \in 1 .. Len(wire') : wire'[i].data = <<>>
         /\ vnext' = vnext /\ start' = start /\ lowest' = lowest /\ \A k : rank(k)' = rank(k)
<1>1. UNCHANGED <<buf, next, sub, wire, spc, sb, taken, urbs>>
  BY DEF ring, eng
<1>2. start' = start /\ lowest' = lowest /\ size' = size
  BY <1>1 DEF start, lowest, size
<1>3. \A k : rank(k)' = rank(k)
  BY <1>2, Stays
<1>4. vnext' = vnext
  BY <1>1, <1>3 DEF vnext
<1>5. /\ top \in Int /\ urbs * size \in Nat
      /\ \A k \in Buffers : fresh(k) => unread(k) \in Int
  BY Numbers
<1>6. \A k : (fresh(k)' <=> fresh(k)) /\ unread(k)' = unread(k)
  BY <1>1 DEF fresh, unread
<1>7. Sorted'
  BY <1>1, <1>2, <1>3, <1>6 DEF Following, Sorted
<1>8. Ahead'
  <2>1. \A k \in Buffers : fresh(k) /\ vnext <= rank(k) => top' < unread(k)
    BY <1>5 DEF Following, Ahead
  <2>2. top' <= urbs * size
    BY <1>5 DEF Following, Ahead
  <2>3. QED BY <1>1, <1>2, <1>3, <1>4, <1>6, <2>1, <2>2 DEF Following, Ahead
<1>9. QED BY <1>1, <1>2, <1>3, <1>4, <1>7, <1>8 DEF Following, Got

(* A call that ends: read hands over what it has got, or drops it.         *)
LEMMA OrderEnd ==
  ASSUME RingInv, RingInv', Following, dir = "read", idle_again, UNCHANGED <<dir, ring, eng, tiny>>,
         \/ last' = last /\ tiny = <<>>
         \/ deliver(work)
  PROVE  Following'
<1>1. last \in Int /\ work \in Seq(Int) /\ tiny \in Seq(Int)
  BY DEF RingInv, Typed
<1>2. Rises(last, work) /\ Rises(Top(last, work), tiny)
  BY DEF Following, Got
<1>3. last' \in Int /\ last' <= Top(last, work) /\ Top(last, work) \in Int
      /\ (last' = Top(last, work) \/ tiny = <<>>)
  BY <1>1, <1>2, Tops DEF deliver, Top
<1>4. pc' = "idle" /\ work' = <<>> /\ nonblock' = FALSE
  BY DEF idle_again
<1>5. top' = Top(last', tiny)
  BY <1>4 DEF top, Top
<1>6. Rises(last', <<>>) /\ Rises(last', tiny)
  <2>1. CASE tiny = <<>>
    BY <1>3, <2>1, EmptySeq, Tops
  <2>2. CASE last' = Top(last, work)
    BY <1>2, <1>3, <2>2, EmptySeq, Tops
  <2>3. QED BY <1>3, <2>1, <2>2
<1>7. top' \in Int /\ top' <= top
  <2>1. top \in Int
    BY Numbers
  <2>2. CASE tiny = <<>>
    BY <1>3, <1>5, <2>2 DEF top, Top
  <2>3. CASE last' = Top(last, work)
    BY <1>3, <1>5, <2>1, <2>3 DEF top
  <2>4. QED BY <1>3, <2>2, <2>3
<1>8. /\ Sorted' /\ Ahead' /\ taken' = <<>> /\ \A i \in 1 .. Len(wire') : wire'[i].data = <<>>
  BY <1>7, Still
<1>9. AtIt' /\ Stale'
  BY <1>4 DEF AtIt, Stale, busy
<1>10. Got'
  <2>1. Top(last', work') = last'
    BY <1>4 DEF Top
  <2>2. QED BY <1>4, <1>6, <1>8, <2>1 DEF Got
<1>11. QED BY <1>8, <1>9, <1>10 DEF Following

LEMMA OrderWaiting ==
  ASSUME RingInv, RingInv', Following, dir = "read", waiting
  PROVE  Following'
<1>1. CASE wait_ready \/ wait_nonblock
  <2>1. UNCHANGED <<dir, ring, eng, call_, user>> /\ pc = "wait" /\ pc' \in {"find", "chunk"}
        /\ (pc' = "chunk" => nonblock \/ next = mine)
    BY <1>1 DEF wait_ready, wait_nonblock
  <2>2. UNCHANGED <<buf, next, sub, wire, spc, sb, last, work, tiny, mine, nonblock, cnt>>
    BY <2>1 DEF ring, eng, call_, user
  <2>3. top' = top /\ top \in Int
    BY <2>2, Same, Numbers
  <2>4. /\ Sorted' /\ Ahead' /\ taken' = <<>> /\ \A i \in 1 .. Len(wire') : wire'[i].data = <<>>
        /\ lowest' = lowest /\ \A k : rank(k)' = rank(k)
    BY <2>1, <2>3, Still
  <2>5. AtIt'
    BY <2>1, <2>2 DEF Following, AtIt
  <2>6. Stale'
    <3>1. ASSUME busy', mine # next
          PROVE  (spc = "mark" /\ mine = sb) \/ (~fresh(mine) /\ lowest <= rank(mine))
      <4>1. busy
        BY <2>1, <2>2, <3>1 DEF busy
      <4>2. QED BY <3>1, <4>1 DEF Following, Stale
    <3>2. ASSUME spc = "mark", mine = sb, busy', fresh(sb)
          PROVE  top < unread(sb)
      <4>1. next # sb
        BY <2>1, <3>2 DEF Following, AtIt
      <4>2. busy
        BY <2>1, <2>2, <3>2, <4>1 DEF busy
      <4>3. QED BY <2>1, <3>2, <4>2 DEF Following, Stale
    <3>3. (fresh(mine)' <=> fresh(mine)) /\ (fresh(sb)' <=> fresh(sb)) /\ unread(sb)' = unread(sb)
      BY <2>2 DEF fresh, unread
    <3>4. rank(mine)' = rank(mine)
      BY <2>2, <2>4 DEF rank
    <3>5. QED BY <2>2, <2>3, <2>4, <3>1, <3>2, <3>3, <3>4 DEF Stale
  <2>7. Got'
    BY <2>1, <2>2, <2>4 DEF Following, Got, Top
  <2>8. QED BY <2>4, <2>5, <2>6, <2>7 DEF Following
<1>2. CASE wait_signal
  <2>1. tiny = <<>> /\ last' = last /\ idle_again /\ UNCHANGED <<dir, ring, eng, tiny>>
    BY <1>2 DEF wait_signal, Following, Got
  <2>2. QED BY <2>1, OrderEnd
<1>3. CASE wait_wouldblock
  <2>1. deliver(work) /\ idle_again /\ UNCHANGED <<dir, ring, eng, tiny>>
    BY <1>3 DEF wait_wouldblock
  <2>2. QED BY <2>1, OrderEnd
<1>4. QED BY <1>1, <1>2, <1>3 DEF waiting

(* A call that begins, or that has enough in tinyrbuf.                     *)
LEMMA OrderCall ==
  ASSUME RingInv, RingInv', Following, dir = "read", read_small \/ read_call
  PROVE  Following'
<1>1. /\ last \in Int /\ work \in Seq(Int) /\ tiny \in Seq(Int) /\ top \in Int
      /\ pc = "idle" /\ work = <<>> /\ Rises(last, tiny) /\ top = Top(last, tiny)
  <2>1. last \in Int /\ work \in Seq(Int) /\ tiny \in Seq(Int) /\ top \in Int
    BY Numbers DEF RingInv, Typed
  <2>2. pc = "idle"
    BY DEF read_small, read_call
  <2>3. work = <<>>
    BY <2>2 DEF Following, Got
  <2>4. Top(last, work) = last
    BY <2>3 DEF Top
  <2>5. QED BY <2>1, <2>2, <2>3, <2>4 DEF Following, Got, top
<1>2. CASE read_small
  <2>1. PICK c \in Counts : /\ c <= Len(tiny)
                            /\ deliver(SubSeq(tiny, 1, c)) /\ tiny' = SubSeq(tiny, c + 1, Len(tiny))
    BY <1>2 DEF read_small
  <2>2. UNCHANGED <<dir, ring, eng, pc, call_>>
    BY <1>2 DEF read_small
  <2>3. c \in 1 .. Len(tiny)
    BY <1>1, <2>1, RingConstants
  <2>4. /\ Top(last, SubSeq(tiny, 1, c)) = tiny[c]
        /\ Rises(tiny[c], tiny') /\ Top(tiny[c], tiny') = top
    BY <1>1, <2>1, <2>3, RisesSplit
  <2>5. last' = tiny[c]
    BY <2>1, <2>4 DEF deliver, Top
  <2>6. work' = <<>> /\ pc' = "idle" /\ Top(last', work') = last'
    BY <1>1, <2>2 DEF call_, Top
  <2>7. top' = top
    BY <2>4, <2>5, <2>6 DEF top
  <2>8. /\ Sorted' /\ Ahead' /\ taken' = <<>> /\ \A i \in 1 .. Len(wire') : wire'[i].data = <<>>
    BY <1>1, <2>2, <2>7, Still
  <2>9. AtIt' /\ Stale'
    BY <2>6 DEF AtIt, Stale, busy
  <2>10. Got'
    <3>1. Rises(last', work')
      BY <2>6 DEF Rises
    <3>2. QED BY <2>4, <2>5, <2>6, <2>8, <3>1 DEF Got
  <2>11. QED BY <2>8, <2>9, <2>10 DEF Following
<1>3. CASE read_call
  <2>1. work' = tiny /\ tiny' = <<>> /\ pc' = "find" /\ last' = last /\ UNCHANGED <<dir, ring, eng>>
    BY <1>3 DEF read_call
  <2>2. top' = top
    BY <1>1, <2>1 DEF top, Top
  <2>3. /\ Sorted' /\ Ahead' /\ taken' = <<>> /\ \A i \in 1 .. Len(wire') : wire'[i].data = <<>>
    BY <1>1, <2>1, <2>2, Still
  <2>4. AtIt' /\ Stale'
    BY <2>1 DEF AtIt, Stale, busy
  <2>5. Got'
    <3>1. Rises(Top(last', work'), tiny')
      BY <2>1 DEF Rises
    <3>2. QED BY <1>1, <2>1, <2>3, <3>1 DEF Got
  <2>6. QED BY <2>3, <2>4, <2>5 DEF Following
<1>4. QED BY <1>2, <1>3

LEMMA OrderFind ==
  ASSUME Prompt, RingInv, RingInv', Following, dir = "read", read_find \/ read_lost
  PROVE  Following'
<1>1. /\ pc \in {"find", "chunk"} /\ UNCHANGED <<dir, ring, eng, nonblock, last, work, tiny>>
      /\ \/ pc' = "wait" /\ mine' = next /\ ~(spc = "mark" /\ next = sb)
         \/ pc' = "find"
  BY DEF read_find, read_lost, user
<1>2. UNCHANGED <<buf, next, sub, wire, spc, sb, taken>>
  BY <1>1 DEF ring, eng
<1>3. top' = top /\ top \in Int
  BY <1>1, Same, Numbers
<1>4. /\ Sorted' /\ Ahead' /\ taken' = <<>> /\ \A i \in 1 .. Len(wire') : wire'[i].data = <<>>
  BY <1>1, <1>3, Still
<1>5. AtIt'
  BY <1>1, <1>2 DEF AtIt
<1>6. Stale'
  <2>1. CASE pc' = "wait" /\ mine' = next /\ ~(spc = "mark" /\ next = sb)
    BY <1>2, <2>1 DEF Stale
  <2>2. CASE pc' = "find"
    BY <2>2 DEF Stale, busy
  <2>3. QED BY <1>1, <2>1, <2>2
<1>7. Got'
  <2>1. tiny' = <<>>
    BY <1>1 DEF Following, Got
  <2>2. pc' # "idle"
    BY <1>1
  <2>3. QED BY <1>1, <1>4, <2>1, <2>2 DEF Following, Got, Top
<1>8. QED BY <1>4, <1>5, <1>6, <1>7 DEF Following

(* A packet is copied out of the buffer that read is at, whether or not    *)
(* submit has moved it off there meanwhile.                                *)
LEMMA OrderChunk ==
  ASSUME RingInv, RingInv', Following, dir = "read", read_chunk
  PROVE  Following'
<1> DEFINE c == (SizeT + cnt - act) % SizeT
           some == IF c < Chunk THEN c ELSE Chunk
           from == buf[mine].len * Chunk
           full == buf[mine].len + 1 = Packs
           s == buf[mine].data
           d == s[1]
           more == SubSeq(s, from + 1, from + some)
           rest == SubSeq(s, from + c + 1, from + Chunk)
<1>0. /\ Typed /\ Room /\ Sound /\ Submitting
  BY DEF RingInv, Sound
<1>1. /\ buf[mine].st \in Mine /\ cnt' = c /\ act' = some
      /\ work' = work \o more
      /\ tiny' = IF c < Chunk THEN rest ELSE tiny
      /\ buf' = [buf EXCEPT ![mine].st = IF full THEN "empty" ELSE "rding", ![mine].len = @ + 1]
      /\ pc' = IF Len(work') > asked THEN "overrun"
               ELSE IF full THEN "advance"
               ELSE IF c <= Chunk THEN "return" ELSE "chunk"
      /\ pc = "chunk"
      /\ UNCHANGED <<dir, next, sub, wire, spc, sb, taken, urbs, mine, nonblock, asked, kept, last>>
  BY DEF read_chunk, eng
<1>2. mine \in Buffers /\ fresh(mine) /\ next \in Buffers
  BY <1>0, <1>1 DEF Mine, fresh, Typed
<1>3. /\ buf[mine] \in Buffer /\ s \in Seq(Int) /\ Len(s) = size
      /\ buf[mine].len \in Nat /\ buf[mine].len < Packs
      /\ from \in Nat /\ from + Chunk <= size /\ d \in Int
      /\ \A i \in 1 .. size : s[i] = d + i - 1
      /\ d + size - 1 <= urbs * size
  BY <1>0, <1>2, Packet
<1>4. c \in Nat
  BY <1>0, <1>1, Count
<1>5. Chunk \in Nat \ {0} /\ size \in Nat \ {0} /\ Packs \in Nat \ {0} /\ MaxUrb \in Nat
  BY Sizes
<1> DEFINE a == unread(mine) - 1
<1>6. a = d + from - 1 /\ a \in Int /\ unread(mine) = a + 1
  <2>1. unread(mine) = d + from
    BY DEF unread
  <2> HIDE DEF d, from, s
  <2>2. unread(mine) \in Int
    BY <1>3, <2>1
  <2>3. QED BY <1>3, <2>1, <2>2
<1> HIDE DEF a, from, c, d, s
<1>7. some \in Nat /\ some <= Chunk /\ (c < Chunk => some = c) /\ (~(c < Chunk) => some = Chunk)
  BY <1>4, <1>5
<1> HIDE DEF some
<1>8. more \in Seq(Int) /\ Len(more) = some /\ \A i \in 1 .. some : more[i] = a + i
  <2> DEFINE n == from + some
  <2>1. n \in Nat /\ from <= n /\ n <= Len(s) /\ n - from = some
    BY <1>3, <1>5, <1>7
  <2>2. more = SubSeq(s, from + 1, n)
    OBVIOUS
  <2> HIDE DEF n, more
  <2>3. more \in Seq(Int) /\ Len(more) = some /\ \A i \in 1 .. some : more[i] = s[from + i]
    BY <1>3, <2>1, <2>2, Part
  <2>4. \A i \in 1 .. some : from + i \in 1 .. size
    BY <1>3, <1>5, <1>7
  <2>5. \A i \in 1 .. some : s[from + i] = a + i
    <3> TAKE i \in 1 .. some
    <3>1. s[from + i] = d + (from + i) - 1
      BY <1>3, <2>4
    <3>2. d + (from + i) - 1 = a + i
      BY <1>3, <1>6, <1>7
    <3>3. QED BY <3>1, <3>2
  <2>6. QED BY <2>3, <2>5
<1>9. c < Chunk => rest \in Seq(Int) /\ Len(rest) = Chunk - c /\ \A i \in 1 .. Chunk - c : rest[i] = (a + c) + i
  <2> SUFFICES ASSUME c < Chunk
               PROVE  rest \in Seq(Int) /\ Len(rest) = Chunk - c /\ \A i \in 1 .. Chunk - c : rest[i] = (a + c) + i
    OBVIOUS
  <2> DEFINE m == from + c
             n == from + Chunk
  <2>1. m \in Nat /\ n \in Nat /\ m <= n /\ n <= Len(s) /\ n - m = Chunk - c
    BY <1>3, <1>4, <1>5
  <2>2. rest = SubSeq(s, m + 1, n)
    OBVIOUS
  <2>3. \A i \in 1 .. Chunk - c : m + i \in 1 .. size /\ m + i = from + c + i
    BY <1>3, <1>4, <1>5
  <2> HIDE DEF m, n, rest
  <2>4. rest \in Seq(Int) /\ Len(rest) = Chunk - c /\ \A i \in 1 .. Chunk - c : rest[i] = s[m + i]
    <3>1. rest \in Seq(Int) /\ Len(rest) = n - m /\ \A i \in 1 .. n - m : rest[i] = s[m + i]
      BY <1>3, <2>1, <2>2, Part
    <3>2. QED BY <2>1, <3>1
  <2>5. \A i \in 1 .. Chunk - c : s[m + i] = d + (m + i) - 1
    BY <1>3, <2>3
  <2>6. \A i \in 1 .. Chunk - c : d + (m + i) - 1 = (a + c) + i
    BY <1>3, <1>4, <1>6, <2>1, <2>3
  <2>7. QED BY <2>4, <2>5, <2>6
<1> HIDE DEF more, rest
<1>10. tiny = <<>> /\ work \in Seq(Int) /\ last \in Int /\ top = Top(last, work) /\ top \in Int /\ Rises(last, work)
  <2>1. tiny = <<>> /\ Rises(last, work)
    BY <1>1 DEF Following, Got
  <2>2. top = Top(last, work)
    BY <2>1 DEF top, Top
  <2>3. QED BY <2>1, <2>2, Numbers DEF RingInv, Typed
<1>11. top < unread(mine)
  <2>1. CASE mine = next
    <3>1. next # sb \/ spc # "mark"
      BY <1>1 DEF Following, AtIt
    <3>2. vnext = rank(mine)
      BY <2>1, <3>1 DEF vnext
    <3>3. rank(mine) \in Int
      BY <1>0, <1>2, Ranks
    <3>4. QED BY <1>2, <3>2, <3>3 DEF Following, Ahead
  <2>2. CASE mine # next
    <3>1. busy
      BY <1>1 DEF busy
    <3>2. spc = "mark" /\ mine = sb
      BY <1>2, <2>2, <3>1 DEF Following, Stale
    <3>3. QED BY <1>1, <1>2, <3>1, <3>2 DEF Following, Stale
  <2>3. QED BY <2>1, <2>2
<1>12. top <= a
  BY <1>6, <1>10, <1>11
<1>13. Rises(last, work') /\ Top(last, work') = IF some = 0 THEN top ELSE a + some
  <2>1. Rises(top, more) /\ Top(top, more) = IF some = 0 THEN top ELSE a + some
    BY <1>6, <1>8, <1>10, <1>12, RisesRun
  <2>2. Rises(last, work \o more) /\ Top(last, work \o more) = Top(top, more)
    BY <1>8, <1>10, <2>1, RisesJoin
  <2>3. QED BY <1>1, <2>1, <2>2
<1>14. Rises(Top(last, work'), tiny') /\ top' = a + Chunk
  <2> DEFINE t == Top(last, work')
  <2>0. top' = Top(t, tiny') /\ t \in Int
    BY <1>1, <1>6, <1>7, <1>10, <1>13 DEF top
  <2>1. CASE c < Chunk
    <3>1. tiny' = rest /\ some = c /\ t <= a + c /\ a + c \in Int
      BY <1>1, <1>4, <1>6, <1>7, <1>10, <1>12, <1>13, <2>1
    <3>2. Len(rest) # 0 /\ Len(rest) = Chunk - c /\ rest \in Seq(Int) /\ \A i \in 1 .. Len(rest) : rest[i] = (a + c) + i
      BY <1>4, <1>5, <1>9, <2>1
    <3> HIDE DEF t
    <3>3. Rises(t, rest) /\ Top(t, rest) = (a + c) + Len(rest)
      BY <2>0, <3>1, <3>2, RisesRun
    <3>4. (a + c) + Len(rest) = a + Chunk
      BY <1>4, <1>5, <1>6, <3>2
    <3>5. QED BY <2>0, <3>1, <3>3, <3>4 DEF t
  <2>2. CASE ~(c < Chunk)
    <3>1. tiny' = <<>> /\ some = Chunk /\ t = a + Chunk
      BY <1>1, <1>5, <1>7, <1>10, <1>13, <2>2
    <3>2. Rises(t, <<>>) /\ Top(t, <<>>) = t
      BY DEF Rises, Top
    <3>3. QED BY <2>0, <3>1, <3>2
  <2>3. QED BY <2>1, <2>2
<1> DEFINE new == [buf[mine] EXCEPT !.st = IF full THEN "empty" ELSE "rding", !.len = @ + 1]
<1>15. /\ buf' = [buf EXCEPT ![mine] = new] /\ buf \in [Buffers -> Buffer]
       /\ new.st = (IF full THEN "empty" ELSE "rding") /\ new.len = buf[mine].len + 1 /\ new.data = buf[mine].data
  BY <1>0, <1>1, <1>3 DEF Typed, Buffer
<1>16. /\ \A k \in Buffers : k # mine => buf'[k] = buf[k]
       /\ buf'[mine].st = (IF full THEN "empty" ELSE "rding") /\ buf'[mine].data = s
       /\ buf'[mine].len = buf[mine].len + 1
  <2> HIDE DEF new, full
  <2>1. QED BY <1>2, <1>15 DEF s
<1> HIDE DEF new, full
<1>17. /\ \A k \in Buffers : fresh(k)' => fresh(k) /\ buf'[k].data = buf[k].data
       /\ \A k \in Buffers : k # mine /\ fresh(k)' => unread(k)' = unread(k)
  BY <1>2, <1>16 DEF fresh, unread, s
<1>18. buf'[mine].data[1] + buf'[mine].len * Chunk = a + Chunk + 1
  <2>1. (buf[mine].len + 1) * Chunk = from + Chunk
    BY <1>3, <1>5, Times, Zenon DEF from
  <2>2. buf'[mine].len * Chunk = from + Chunk /\ buf'[mine].data[1] = d
    BY <1>16, <2>1, Zenon DEF d
  <2>3. d + (from + Chunk) = a + Chunk + 1
    BY <1>3, <1>5, <1>6
  <2>4. QED BY <2>2, <2>3
<1>19. a + Chunk <= d + size - 1 /\ a + Chunk \in Int
  <2>1. from + Chunk <= size /\ size \in Int /\ Chunk \in Int /\ from \in Int /\ d \in Int
    BY <1>3, <1>5, <1>6
  <2>2. a = d + from - 1
    BY <1>6
  <2>3. QED BY <2>1, <2>2
<1>20. start' = start /\ lowest' = lowest /\ size' = size
  BY <1>1 DEF start, lowest, size
<1>21. \A k : rank(k)' = rank(k)
  BY <1>20, Stays
<1>22. vnext' = vnext
  BY <1>1, <1>21 DEF vnext
<1>23. \A k \in Buffers : rank(k) \in 0 .. MaxUrb - 1
  BY <1>0, Ranks
<1>24. \A k, l \in Buffers : rank(k) = rank(l) => k = l
  BY <1>0, Ranks
<1>25. Sorted'
  <2>1. ASSUME NEW k \in Buffers, NEW l \in Buffers, fresh(k)', fresh(l)', rank(k) < rank(l)
        PROVE  buf'[k].data[1] + size <= buf'[l].data[1]
    BY <1>17, <2>1 DEF Following, Sorted
  <2>2. QED BY <1>1, <1>17, <1>20, <1>21, <2>1 DEF Following, Sorted
<1>26. (mine # next => spc = "mark" /\ mine = sb) /\ (mine = next => vnext = rank(mine))
  <2>1. mine # next => spc = "mark" /\ mine = sb
    BY <1>1, <1>2 DEF Following, Stale, busy
  <2>2. mine = next => vnext = rank(mine)
    BY <1>1 DEF Following, AtIt, vnext
  <2>3. QED BY <2>1, <2>2
<1>27. Ahead'
  <2>1. ASSUME NEW k \in Buffers, fresh(k)', vnext <= rank(k)
        PROVE  a + Chunk < unread(k)'
    <3>1. CASE k = mine
      <4>1. unread(k)' = a + Chunk + 1
        BY <1>18, <3>1 DEF unread
      <4>2. QED BY <1>19, <4>1
    <3>2. CASE k # mine
      <4>1. rank(mine) < rank(k)
        <5>1. CASE mine = next
          BY <1>2, <1>23, <1>24, <1>26, <2>1, <3>2, <5>1
        <5>2. CASE mine # next
          <6>1. rank(mine) = 0
            BY <1>0, <1>26, <5>2, Ranks DEF start
          <6>2. QED BY <1>2, <1>23, <1>24, <3>2, <6>1
        <5>3. QED BY <5>1, <5>2
      <4>2. fresh(k) /\ unread(k)' = unread(k)
        BY <1>17, <2>1, <3>2
      <4>3. d + size <= buf[k].data[1]
        BY <1>2, <4>1, <4>2 DEF Following, Sorted, d, s
      <4>4. buf[k].data[1] <= unread(k) /\ buf[k].data[1] \in Int /\ unread(k) \in Int
        BY <4>2, Numbers
      <4>5. a + Chunk < d + size /\ d + size \in Int
        BY <1>3, <1>5, <1>19
      <4>6. a + Chunk < unread(k)
        BY <1>19, <4>3, <4>4, <4>5
      <4>7. QED BY <4>2, <4>6
    <3>3. QED BY <3>1, <3>2
  <2>2. ASSUME NEW k \in Buffers, rank(k) < vnext, ~(spc = "mark" /\ k = sb)
        PROVE  ~fresh(k)'
    BY <1>17, <2>2 DEF Following, Ahead
  <2>3. a + Chunk <= urbs * size
    <3>1. urbs * size \in Nat
      BY Numbers
    <3>2. QED BY <1>3, <1>5, <1>19, <3>1
  <2>4. \A i \in 1 .. Len(wire) : vnext <= rank(wire[i].buf)
    BY DEF Following, Ahead
  <2>5. QED BY <1>1, <1>14, <1>20, <1>21, <1>22, <2>1, <2>2, <2>3, <2>4 DEF Ahead
<1>28. AtIt'
  <2>1. ASSUME pc' = "advance"
        PROVE  buf'[mine].st = "empty" /\ \A i \in 1 .. Len(wire) : rank(mine) < rank(wire[i].buf)
    <3>1. full
      BY <1>1, <2>1
    <3>2. QED BY <1>2, <1>16, <3>1 DEF Following, Sorted
  <2>2. spc = "mark" => next # sb
    BY <1>1 DEF Following, AtIt
  <2>3. QED BY <1>1, <1>21, <2>1, <2>2 DEF AtIt
<1>29. Stale'
  <2>1. ASSUME spc = "mark", mine = sb
        PROVE  top' < unread(sb)'
    <3>1. unread(sb)' = a + Chunk + 1
      BY <1>1, <1>18, <2>1 DEF unread
    <3>2. QED BY <1>14, <1>19, <3>1
  <2>2. QED BY <1>1, <1>26, <2>1 DEF Stale
<1>30. Got'
  <2>1. ASSUME pc' \in {"find", "wait", "chunk"} \/ (pc' = "advance" /\ cnt' > Chunk)
        PROVE  tiny' = <<>>
    <3>1. c > Chunk
      BY <1>1, <1>4, <1>5, <2>1
    <3>2. ~(c < Chunk)
      BY <1>4, <1>5, <3>1
    <3>3. QED BY <1>1, <1>10, <3>2
  <2>2. pc' # "idle" /\ last' = last
    BY <1>1
  <2>3. taken = <<>> /\ \A i \in 1 .. Len(wire) : wire[i].data = <<>>
    BY DEF Following, Got
  <2>4. Top(last, work)' = Top(last, work')
    BY <2>2 DEF Top
  <2>5. QED BY <1>1, <1>13, <1>14, <2>1, <2>2, <2>3, <2>4 DEF Got
<1>31. QED BY <1>25, <1>27, <1>28, <1>29, <1>30 DEF Following

(* read is done with the buffer it is at; it is told so only if it was not *)
(* moved off it before.                                                    *)
LEMMA OrderAdvance ==
  ASSUME RingInv, RingInv', Following, dir = "read", read_advance
  PROVE  Following'
<1>1. Typed /\ Submitting
  BY DEF RingInv
<1>2. /\ pc = "advance" /\ next' = (IF next = mine THEN after(next) ELSE next)
      /\ pc' = (IF cnt <= Chunk THEN "return" ELSE "find")
      /\ UNCHANGED <<dir, buf, sub, wire, spc, sb, taken, urbs, last, work, tiny, mine, nonblock, cnt>>
  BY DEF read_advance, advanced, eng, call_, user
<1>3. start' = start /\ lowest' = lowest /\ size' = size /\ top' = top
  BY <1>2, Same DEF start, lowest, size
<1>4. \A k : rank(k)' = rank(k)
  BY <1>3, Stays
<1>5. \A k : (fresh(k)' <=> fresh(k)) /\ unread(k)' = unread(k)
  BY <1>2 DEF fresh, unread
<1>6. AtIt' /\ Stale'
  BY <1>2 DEF AtIt, Stale, busy
<1>7. Got'
  <2>1. pc' = "find" => cnt > Chunk
    BY <1>1, <1>2, Sizes DEF Typed
  <2>2. pc' = "find" => tiny = <<>>
    BY <1>2, <2>1 DEF Following, Got
  <2>3. QED BY <1>2, <2>2 DEF Following, Got, Top
<1>8. Sorted'
  BY <1>2, <1>3, <1>4, <1>5 DEF Following, Sorted
<1>9. /\ next \in Buffers /\ start \in Buffers /\ rank(start) = 0 /\ MaxUrb \in Nat /\ 3 <= MaxUrb
      /\ \A k \in Buffers : rank(k) \in 0 .. MaxUrb - 1
      /\ \A k, l \in Buffers : rank(k) = rank(l) => k = l
      /\ \A i \in 1 .. Len(wire) : wire[i].buf \in Buffers
  BY <1>1, Sizes, Ranks, OnWire DEF Typed
<1>10. Ahead'
  <2>1. CASE next # mine
    <3>1. vnext' = vnext
      BY <1>2, <1>4, <2>1 DEF vnext
    <3>2. QED BY <1>2, <1>3, <1>4, <1>5, <3>1 DEF Following, Ahead
  <2>2. CASE next = mine
    <3>1. /\ buf[next].st = "empty" /\ (spc = "mark" => next # sb)
          /\ \A i \in 1 .. Len(wire) : rank(next) < rank(wire[i].buf)
      BY <1>2, <2>2 DEF Following, AtIt
    <3>2. vnext = rank(next) /\ ~fresh(next)
      BY <3>1 DEF vnext, fresh
    <3>3. after(next) \in Buffers /\ rank(after(next)) = IF rank(next) = MaxUrb - 1 THEN 0 ELSE rank(next) + 1
      BY <1>1, <1>9, After, Ranks
    <3>4. vnext' = IF spc = "mark" /\ after(next) = sb THEN MaxUrb ELSE rank(after(next))
      BY <1>2, <1>3, <2>2 DEF vnext, rank
    <3>5. \A k \in Buffers : rank(k) <= rank(next) /\ ~(spc = "mark" /\ k = sb) => ~fresh(k)
      <4> SUFFICES ASSUME NEW k \in Buffers, rank(k) <= rank(next), ~(spc = "mark" /\ k = sb)
                   PROVE  ~fresh(k)
        OBVIOUS
      <4>1. CASE k = next
        BY <3>2, <4>1
      <4>2. CASE k # next
        <5>1. rank(k) < rank(next)
          BY <1>9, <4>2
        <5>2. QED BY <3>2, <5>1 DEF Following, Ahead
      <4>3. QED BY <4>1, <4>2
    <3>6. CASE rank(next) = MaxUrb - 1
      <4>1. \A k \in Buffers : ~(spc = "mark" /\ k = sb) => ~fresh(k)
        BY <1>9, <3>5, <3>6
      <4>2. \A i \in 1 .. Len(wire) : FALSE
        BY <1>9, <3>1, <3>6
      <4>3. after(next) = start
        BY <1>9, <3>3, <3>6
      <4>4. spc = "mark" => vnext' = MaxUrb
        BY <3>4, <4>3 DEF start
      <4>5. spc # "mark" => vnext' = 0
        BY <1>9, <3>3, <3>4, <3>6
      <4>6. \A k \in Buffers : fresh(k) => ~(vnext' <= rank(k))
        BY <1>9, <4>1, <4>4
      <4>7. top <= urbs * size
        BY DEF Following, Ahead
      <4>8. \A k \in Buffers : rank(k) < vnext' /\ ~(spc = "mark" /\ k = sb) => ~fresh(k)
        BY <4>1
      <4>9. QED BY <1>2, <1>3, <1>4, <1>5, <4>2, <4>6, <4>7, <4>8 DEF Ahead
    <3>7. CASE rank(next) # MaxUrb - 1
      <4>1. vnext' = rank(next) + 1
        <5>1. rank(after(next)) = rank(next) + 1 /\ rank(next) + 1 # 0
          BY <1>9, <3>3, <3>7
        <5>2. spc = "mark" => after(next) # sb
          BY <1>9, <5>1 DEF start
        <5>3. QED BY <3>4, <5>1, <5>2
      <4>2. \A k \in Buffers : fresh(k) /\ vnext' <= rank(k) => top < unread(k)
        <5>1. \A k \in Buffers : vnext' <= rank(k) => vnext <= rank(k)
          BY <1>9, <3>2, <4>1
        <5>2. QED BY <5>1 DEF Following, Ahead
      <4>3. \A k \in Buffers : rank(k) < vnext' /\ ~(spc = "mark" /\ k = sb) => ~fresh(k)
        <5>1. \A k \in Buffers : rank(k) < vnext' => rank(k) <= rank(next)
          BY <1>9, <4>1
        <5>2. QED BY <3>5, <5>1
      <4>4. \A i \in 1 .. Len(wire) : vnext' <= rank(wire[i].buf)
        BY <1>9, <3>1, <4>1
      <4>5. top <= urbs * size
        BY DEF Following, Ahead
      <4>6. QED BY <1>2, <1>3, <1>4, <1>5, <4>2, <4>3, <4>4, <4>5 DEF Ahead
    <3>8. QED BY <3>6, <3>7
  <2>3. QED BY <2>1, <2>2
<1>11. QED BY <1>6, <1>7, <1>8, <1>10 DEF Following

LEMMA OrderReturn ==
  ASSUME RingInv, RingInv', Following, dir = "read", read_return
  PROVE  Following'
<1>1. idle_again /\ deliver(work) /\ UNCHANGED <<dir, ring, eng, tiny>>
  BY DEF read_return
<1>2. QED BY <1>1, OrderEnd

LEMMA OrderStutter ==
  ASSUME RingInv, Following, dir = "read", UNCHANGED vars
  PROVE  Following'
<1>1. UNCHANGED <<dir, ring, eng, pc, call_, user>>
  BY DEF vars
<1>2. UNCHANGED <<buf, next, sub, wire, spc, sb, last, work, tiny, mine, nonblock, cnt, taken>>
  BY <1>1 DEF ring, eng, call_, user
<1>3. top' = top /\ top \in Int
  BY <1>2, Same, Numbers
<1>4. /\ Sorted' /\ Ahead' /\ lowest' = lowest /\ \A k : rank(k)' = rank(k)
  BY <1>1, <1>3, Still
<1>5. AtIt'
  BY <1>1, <1>2 DEF Following, AtIt, rank, start
<1>6. Stale'
  <2>1. (fresh(mine)' <=> fresh(mine)) /\ (fresh(sb)' <=> fresh(sb)) /\ unread(sb)' = unread(sb)
    BY <1>2 DEF fresh, unread
  <2>2. rank(mine)' = rank(mine) /\ busy' = busy
    BY <1>1, <1>2, <1>4 DEF rank, busy
  <2>3. QED BY <1>1, <1>2, <1>3, <1>4, <2>1, <2>2 DEF Following, Stale
<1>7. Got'
  BY <1>1, <1>2 DEF Following, Got, Top
<1>8. QED BY <1>4, <1>5, <1>6, <1>7 DEF Following

LEMMA OrderStep ==
  ASSUME Prompt, RingInv, RingInv', dir = "read", Following, [Next]_vars
  PROVE  Following'
<1>1. CASE write
  BY <1>1 DEF write, write_call, write_count, write_rest, write_find, write_chunk, write_advance, flush
<1>2. QED
  BY <1>1, OrderCallback, OrderTake, OrderMark, OrderUrb, OrderWaiting, OrderCall, OrderFind,
     OrderChunk, OrderAdvance, OrderReturn, OrderStutter DEF Next, read

LEMMA OrderStarts ==
  ASSUME Init, dir = "read"
  PROVE  Following
<1>1. RingInv
  BY Starts
<1>2. /\ spc = "idle" /\ pc = "idle" /\ last = 0 /\ work = <<>> /\ tiny = <<>> /\ taken = <<>> /\ urbs = 0
      /\ next = InFlight /\ sub = InFlight /\ nonblock = FALSE
      /\ wire = [i \in 1 .. InFlight |-> [buf |-> i - 1, data |-> <<>>]]
      /\ buf = [k \in Buffers |-> IF k < InFlight THEN [Empty EXCEPT !.st = "sbmtd"] ELSE Empty]
  BY DEF Init
<1>3. \A k \in Buffers : ~fresh(k)
  BY <1>2 DEF fresh, Empty
<1>4. InFlight \in Nat
  BY Sizes
<1>5. Len(wire) = InFlight /\ \A i \in 1 .. Len(wire) : wire[i].data = <<>>
  BY <1>2, <1>4
<1>6. start = next /\ vnext = 0
  BY <1>1, <1>2, Ranks DEF start, vnext, RingInv
<1>7. \A i \in 1 .. Len(wire) : 0 <= rank(wire[i].buf)
  BY <1>1, OnWire, Ranks DEF RingInv
<1>8. top = 0 /\ top <= urbs * size
  <2>1. 0 * size = 0
    BY Sizes
  <2>2. QED BY <1>2, <2>1 DEF top, Top
<1>9. Sorted /\ Ahead
  BY <1>2, <1>3, <1>6, <1>7, <1>8 DEF Sorted, Ahead
<1>10. AtIt /\ Stale
  BY <1>2 DEF AtIt, Stale, busy
<1>11. Got
  <2>1. Rises(last, work) /\ Rises(Top(last, work), tiny)
    BY <1>2 DEF Rises
  <2>2. QED BY <1>2, <1>5, <2>1 DEF Got
<1>12. QED BY <1>9, <1>10, <1>11 DEF Following

(* What was proved step by step says what the run checks.                  *)
LEMMA OrderShows ==
  ASSUME Typed, Got
  PROVE  ReadInOrder
<1>1. last \in Int /\ work \in Seq(Int) /\ tiny \in Seq(Int) /\ Rises(last, work) /\ Rises(Top(last, work), tiny)
  BY DEF Typed, Got
<1> DEFINE x == work \o tiny
           one == <<last>>
           got == one \o work \o tiny
<1>2. x \in Seq(Int) /\ Rises(last, x)
  BY <1>1, RisesJoin
<1>3. one \in Seq(Int) /\ Len(one) = 1 /\ one[1] = last
  BY <1>1
<1> HIDE DEF one
<1>4. got = one \o x
  <2>1. (one \o work) \o tiny = one \o (work \o tiny)
    BY <1>1, <1>3, Joined
  <2>2. QED BY <2>1, Zenon
<1> HIDE DEF x, got
<1>5. Len(got) = 1 + Len(x) /\ Len(x) \in Nat /\ \A i \in 1 .. 1 + Len(x) : got[i] = IF i <= 1 THEN one[i] ELSE x[i - 1]
  <2>1. Len(got) = Len(one) + Len(x)
        /\ \A i \in 1 .. Len(one) + Len(x) : got[i] = IF i <= Len(one) THEN one[i] ELSE x[i - Len(one)]
    BY <1>2, <1>3, <1>4, ConcatProperties
  <2>2. QED BY <1>2, <1>3, <2>1
<1>6. \A i \in 1 .. Len(got) - 1 : got[i] < got[i + 1]
  <2> TAKE i \in 1 .. Len(got) - 1
  <2>1. i \in 1 .. Len(x) /\ i \in Nat /\ i + 1 \in 1 .. 1 + Len(x) /\ ~(i + 1 <= 1) /\ (i + 1) - 1 = i
    BY <1>5
  <2>2. got[i + 1] = x[i]
    BY <1>5, <2>1
  <2>3. CASE i = 1
    <3>1. got[i] = last
      BY <1>3, <1>5, <2>1, <2>3
    <3>2. QED BY <1>2, <2>1, <2>2, <3>1 DEF Rises
  <2>4. CASE i # 1
    <3>1. i - 1 \in 1 .. Len(x) /\ i - 1 < i /\ i \in 1 .. 1 + Len(x) /\ ~(i <= 1)
      BY <1>5, <2>1, <2>4
    <3>2. got[i] = x[i - 1]
      BY <1>5, <3>1
    <3>3. QED BY <1>2, <2>1, <2>2, <3>1, <3>2 DEF Rises
  <2>5. QED BY <2>3, <2>4
<1>7. QED BY <1>6 DEF ReadInOrder, got, one

(* The user never gets a byte twice, or one older than one he has, however *)
(* the callback fills, takes and submits the buffers, and submissions fail *)
(* and signals arrive, while read is at work: as long as neither side      *)
(* stands still for as long as the other takes to come round the ring.     *)
THEOREM ReadHandsOverInOrder ==
  ASSUME Prompt
  PROVE  Spec => []ReadInOrder
<1> DEFINE OrderInv == dir = "read" => Following
<1>1. Init => OrderInv
  BY OrderStarts
<1>2. RingInv /\ RingInv' /\ OrderInv /\ [Next]_vars => OrderInv'
  <2>1. RingInv /\ [Next]_vars => dir' = dir
    BY Other DEF Next, callback, submit_take, submit_mark, submit_urb, RingInv
  <2>2. QED BY <2>1, OrderStep
<1>3. RingInv /\ OrderInv => ReadInOrder
  <2>1. CASE dir = "read"
    BY <2>1, OrderShows DEF RingInv, Following
  <2>2. CASE dir # "read"
    BY <2>2 DEF ReadInOrder
  <2>3. QED BY <2>1, <2>2
<1> HIDE DEF OrderInv
<1>4. QED BY <1>1, <1>2, <1>3, RingAlways, PTL DEF Spec

-----------------------------------------------------------------------------
(***************************************************************************)
(* Consecutive bytes, and what is put together of them.                    *)
(***************************************************************************)
Block(lo, hi) == [k \in 1 .. hi - lo |-> lo + k]

(* Every set of naturals has a least one; this is what stands in for       *)
(* induction along a sequence.                                             *)
LEMMA Least ==
  ASSUME NEW T, T \subseteq Nat, T # {}
  PROVE  \E x \in T : \A y \in T : x <= y
<1> DEFINE R == {ss \in Nat \X Nat : ss[1] < ss[2]}
<1>1. IsWellFoundedOn(R, Nat)
  BY NatLessThanWellFounded, Zenon DEF OpToRel
<1>2. \A x, y \in Nat : y < x => <<y, x>> \in R
  OBVIOUS
<1> HIDE DEF R
<1>3. PICK x \in T : \A y \in T : ~(<<y, x>> \in R)
  BY <1>1, WFMin
<1>4. \A y \in T : x <= y
  <2>1. ASSUME NEW y \in T PROVE x <= y
    <3>1. x \in Nat /\ y \in Nat /\ ~(y < x)
      BY <1>2, <1>3, <2>1
    <3>2. QED BY <3>1
  <2>2. QED BY <2>1
<1>5. QED BY <1>4

LEMMA BlockIs ==
  ASSUME NEW lo \in Int, NEW hi \in Int, lo <= hi
  PROVE  Block(lo, hi) \in Seq(Int) /\ Len(Block(lo, hi)) = hi - lo
         /\ \A k \in 1 .. hi - lo : Block(lo, hi)[k] = lo + k
<1>1. hi - lo \in Nat
  OBVIOUS
<1>2. \A k \in 1 .. hi - lo : lo + k \in Int
  OBVIOUS
<1>3. QED BY <1>1, <1>2 DEF Block

LEMMA BlockMakes ==
  ASSUME NEW s \in Seq(Int), NEW lo \in Int, NEW hi \in Int, lo <= hi, Len(s) = hi - lo,
         \A k \in 1 .. hi - lo : s[k] = lo + k
  PROVE  s = Block(lo, hi)
<1> DEFINE b == Block(lo, hi)
<1>1. b \in Seq(Int) /\ Len(b) = hi - lo /\ \A k \in 1 .. hi - lo : b[k] = lo + k
  BY BlockIs
<1> HIDE DEF b
<1>2. Len(s) = Len(b) /\ \A k \in 1 .. Len(s) : s[k] = b[k]
  BY <1>1
<1>3. s = b
  BY <1>1, <1>2, SeqEqual
<1>4. QED BY <1>3 DEF b

LEMMA BlockEmpty ==
  ASSUME NEW lo \in Int
  PROVE  Block(lo, lo) = <<>>
<1>1. Block(lo, lo) \in Seq(Int) /\ Len(Block(lo, lo)) = 0
  BY BlockIs
<1>2. QED BY <1>1, EmptySeq

LEMMA BlockJoin ==
  ASSUME NEW a \in Int, NEW b \in Int, NEW c \in Int, a <= b, b <= c
  PROVE  Block(a, b) \o Block(b, c) = Block(a, c)
<1>1. b - a \in Nat /\ c - b \in Nat /\ c - a = (b - a) + (c - b) /\ a <= c
  OBVIOUS
<1> DEFINE x == Block(a, b)
           y == Block(b, c)
           z == x \o y
           m == b - a
           n == c - b
<1>2. x \in Seq(Int) /\ Len(x) = m /\ \A k \in 1 .. m : x[k] = a + k
  BY BlockIs
<1>3. y \in Seq(Int) /\ Len(y) = n /\ \A k \in 1 .. n : y[k] = b + k
  BY BlockIs
<1>4. m \in Nat /\ n \in Nat /\ c - a = m + n /\ b = a + m
  BY <1>1
<1> HIDE DEF x, y
<1>5. /\ z \in Seq(Int) /\ Len(z) = Len(x) + Len(y)
      /\ \A i \in 1 .. Len(x) + Len(y) : z[i] = IF i <= Len(x) THEN x[i] ELSE y[i - Len(x)]
  BY <1>2, <1>3, ConcatProperties
<1> HIDE DEF z, m, n
<1>6. \A i \in 1 .. m + n : z[i] = IF i <= m THEN x[i] ELSE y[i - m]
  BY <1>2, <1>3, <1>5
<1>7. \A k \in 1 .. m + n : z[k] = a + k
  <2> TAKE k \in 1 .. m + n
  <2>1. CASE k <= m
    <3>1. k \in 1 .. m
      BY <1>4, <2>1
    <3>2. QED BY <1>2, <1>6, <2>1, <3>1
  <2>2. CASE ~(k <= m)
    <3>1. k - m \in 1 .. n /\ b + (k - m) = a + k
      BY <1>4, <2>2
    <3>2. z[k] = y[k - m]
      BY <1>6, <2>2
    <3>3. QED BY <1>3, <3>1, <3>2
  <2>3. QED BY <2>1, <2>2
<1>8. Len(z) = c - a /\ \A k \in 1 .. c - a : z[k] = a + k
  BY <1>2, <1>3, <1>4, <1>5, <1>7
<1>9. z = Block(a, c)
  BY <1>1, <1>5, <1>8, BlockMakes
<1>10. QED BY <1>9 DEF x, y, z

(* The first bytes of a block, and the rest of it.                         *)
LEMMA BlockSplit ==
  ASSUME NEW lo \in Int, NEW hi \in Int, NEW c \in Nat, lo <= hi, c <= hi - lo
  PROVE  /\ SubSeq(Block(lo, hi), 1, c) = Block(lo, lo + c)
         /\ SubSeq(Block(lo, hi), c + 1, Len(Block(lo, hi))) = Block(lo + c, hi)
<1> DEFINE s == Block(lo, hi)
           n == hi - lo
<1>1. s \in Seq(Int) /\ Len(s) = n /\ \A k \in 1 .. n : s[k] = lo + k
  BY BlockIs
<1>2. n \in Nat /\ c <= n /\ 0 \in Nat /\ 0 + 1 = 1 /\ 0 <= c /\ c - 0 = c /\ n <= n
  OBVIOUS
<1> HIDE DEF s, n
<1>3. SubSeq(s, 1, c) \in Seq(Int) /\ Len(SubSeq(s, 1, c)) = c /\ \A i \in 1 .. c : SubSeq(s, 1, c)[i] = s[0 + i]
  BY <1>1, <1>2, Part
<1>4. SubSeq(s, c + 1, n) \in Seq(Int) /\ Len(SubSeq(s, c + 1, n)) = n - c
      /\ \A i \in 1 .. n - c : SubSeq(s, c + 1, n)[i] = s[c + i]
  BY <1>1, <1>2, Part
<1>5. SubSeq(s, 1, c) = Block(lo, lo + c)
  <2> DEFINE x == SubSeq(s, 1, c)
             h == lo + c
  <2>1. h \in Int /\ lo <= h /\ h - lo = c
    OBVIOUS
  <2>2. \A i \in 1 .. c : 0 + i = i /\ i \in 1 .. n
    BY <1>2
  <2>3. x \in Seq(Int) /\ Len(x) = h - lo /\ \A i \in 1 .. h - lo : x[i] = lo + i
    BY <1>1, <1>3, <2>1, <2>2
  <2> HIDE DEF x, h
  <2>4. x = Block(lo, h)
    BY <2>1, <2>3, BlockMakes
  <2>5. QED BY <2>4 DEF x, h
<1>6. SubSeq(s, c + 1, n) = Block(lo + c, hi)
  <2> DEFINE x == SubSeq(s, c + 1, n)
             h == lo + c
  <2>1. h \in Int /\ h <= hi /\ hi - h = n - c
    BY <1>2 DEF n
  <2>2. \A i \in 1 .. n - c : c + i \in 1 .. n /\ lo + (c + i) = h + i
    BY <1>2
  <2>3. x \in Seq(Int) /\ Len(x) = hi - h /\ \A i \in 1 .. hi - h : x[i] = h + i
    <3>1. \A i \in 1 .. n - c : x[i] = h + i
      BY <1>1, <1>4, <2>2
    <3>2. QED BY <1>4, <2>1, <3>1
  <2> HIDE DEF x, h
  <2>4. x = Block(h, hi)
    BY <2>1, <2>3, BlockMakes
  <2>5. QED BY <2>4 DEF x, h
<1>7. QED BY <1>1, <1>5, <1>6 DEF s

(* What never falls from one to the next never falls.                      *)
LEMMA Climbs ==
  ASSUME NEW n \in Nat, NEW e, \A k \in 1 .. n + 1 : e[k] \in Int, \A k \in 1 .. n : e[k] <= e[k + 1]
  PROVE  \A k \in 1 .. n + 1 : e[1] <= e[k]
<1> DEFINE low == {k \in 1 .. n + 1 : ~(e[1] <= e[k])}
<1>1. low = {}
  <2> SUFFICES ASSUME low # {} PROVE FALSE
    OBVIOUS
  <2>1. PICK k \in low : \A m \in low : k <= m
    <3>1. low \subseteq Nat
      OBVIOUS
    <3> HIDE DEF low
    <3>2. QED BY <3>1, Least
  <2>2. k \in 1 .. n + 1 /\ ~(e[1] <= e[k])
    OBVIOUS
  <2>3. 1 \in 1 .. n + 1
    OBVIOUS
  <2>4. k # 1
    BY <2>2, <2>3
  <2>5. k - 1 \in 1 .. n /\ k - 1 \in 1 .. n + 1 /\ ~(k <= k - 1) /\ (k - 1) + 1 = k
    BY <2>2, <2>4
  <2>6. e[1] <= e[k - 1]
    BY <2>1, <2>5
  <2>7. e[k - 1] <= e[k]
    BY <2>5
  <2>8. e[1] \in Int /\ e[k - 1] \in Int /\ e[k] \in Int
    BY <2>2, <2>3, <2>5
  <2>9. QED BY <2>2, <2>6, <2>7, <2>8
<1>2. QED BY <1>1

LEMMA FlatIs ==
  ASSUME NEW s, Len(s) # 0
  PROVE  FlattenSeq(s) =
           (CHOOSE h : h = [k \in 1 .. Len(s) |-> IF k = 1 THEN s[k] ELSE h[k - 1] \o s[k]])[Len(s)]
BY DEF FlattenSeq

(* Blocks that follow on each other are one block.                         *)
LEMMA Flat ==
  ASSUME NEW n \in Nat, NEW s, Len(s) = n, NEW e,
         \A k \in 1 .. n + 1 : e[k] \in Int,
         \A k \in 1 .. n : e[k] <= e[k + 1],
         \A k \in 1 .. n : s[k] = Block(e[k], e[k + 1]),
         n > 0
  PROVE  FlattenSeq(s) = Block(e[1], e[n + 1]) /\ e[1] <= e[n + 1]
<1> DEFINE Flattens(h) == h = [k \in 1 .. n |-> IF k = 1 THEN s[k] ELSE h[k - 1] \o s[k]]
           f == CHOOSE h : Flattens(h)
           g == [k \in 1 .. n |-> Block(e[1], e[k + 1])]
<1>0. \A k \in 1 .. n + 1 : e[1] <= e[k]
  BY Climbs
<1>1. FlattenSeq(s) = f[n]
  <2>1. Len(s) # 0
    OBVIOUS
  <2>2. QED BY <2>1, FlatIs, Zenon
<1>2. Flattens(g)
  <2>1. ASSUME NEW k \in 1 .. n
        PROVE  Block(e[1], e[k + 1]) = IF k = 1 THEN s[k] ELSE g[k - 1] \o s[k]
    <3>1. CASE k = 1
      BY <3>1
    <3>2. CASE k # 1
      <4>1. k - 1 \in 1 .. n /\ g[k - 1] = Block(e[1], e[k])
        BY <3>2
      <4>2. e[1] \in Int /\ e[k] \in Int /\ e[k + 1] \in Int /\ e[1] <= e[k] /\ e[k] <= e[k + 1]
        BY <1>0
      <4>3. Block(e[1], e[k]) \o Block(e[k], e[k + 1]) = Block(e[1], e[k + 1])
        BY <4>2, BlockJoin
      <4>4. s[k] = Block(e[k], e[k + 1])
        OBVIOUS
      <4>5. QED BY <3>2, <4>1, <4>3, <4>4
    <3>3. QED BY <3>1, <3>2
  <2>2. QED BY <2>1
<1>3. Flattens(f)
  BY <1>2, Zenon
<1>4. \A k \in 1 .. n : f[k] = IF k = 1 THEN s[k] ELSE f[k - 1] \o s[k]
  BY <1>3, Zenon
<1>5. \A k \in 1 .. n : g[k] = IF k = 1 THEN s[k] ELSE g[k - 1] \o s[k]
  BY <1>2, Zenon
<1> HIDE DEF f, g, Flattens
<1> DEFINE wrong == {k \in 1 .. n : f[k] # g[k]}
<1>6. wrong = {}
  <2> SUFFICES ASSUME wrong # {} PROVE FALSE
    OBVIOUS
  <2>1. PICK k \in wrong : \A m \in wrong : k <= m
    <3>1. wrong \subseteq Nat
      OBVIOUS
    <3>2. QED BY <3>1, Least
  <2>2. k \in 1 .. n /\ f[k] # g[k]
    BY <2>1
  <2>3. CASE k = 1
    BY <1>4, <1>5, <2>2, <2>3
  <2>4. CASE k # 1
    <3>1. k - 1 \in 1 .. n /\ ~(k <= k - 1)
      BY <2>2, <2>4
    <3>2. f[k - 1] = g[k - 1]
      BY <2>1, <3>1, Zenon
    <3>3. QED BY <1>4, <1>5, <2>2, <2>4, <3>2
  <2>5. QED BY <2>3, <2>4
<1>7. n \in 1 .. n /\ n + 1 \in 1 .. n + 1
  OBVIOUS
<1>8. f[n] = g[n]
  BY <1>6, <1>7
<1>9. QED BY <1>0, <1>1, <1>7, <1>8 DEF g


-----------------------------------------------------------------------------
(***************************************************************************)
(* The order in which the board is sent what the user wrote, as long as    *)
(* nothing of what WriteInOrder excepts has happened: cut is empty.        *)
(***************************************************************************)
(* The wire holds as many URBs as it is meant to, one buffer after another.*)
Exact ==
  /\ Len(wire) = IF spc = "idle" THEN InFlight ELSE InFlight - 1
  /\ \A i \in 1 .. Len(wire) : rank(wire[i].buf) = lowest + i - 1

(* write has come to next, at most up to the wire, and a buffer that submit*)
(* took while write was at it is being marked or is on the wire.           *)
Writing ==
  /\ rank(next) <= lowest
  /\ spc = "mark" => next # sb
  /\ spc # "urb" => taken = <<>>
  /\ pc = "advance" /\ mine = next => rank(mine) < lowest
  /\ busy /\ mine # next => (spc = "mark" /\ mine = sb) \/ lowest <= rank(mine)

(* The URBs on the wire carry the bytes after last: URB i those after e[i],*)
(* up to e[i + 1].                                                         *)
OnTheWire(e) ==
  /\ e \in [1 .. Len(wire) + 1 -> Int] /\ e[1] = last
  /\ \A i \in 1 .. Len(wire) : e[i] <= e[i + 1] /\ wire[i].data = Block(e[i], e[i + 1])

(* The buffers that wait hold the bytes after those, in the order in which *)
(* they will be submitted: the one of rank i those after r[i].  What lies  *)
(* ahead of write is empty, and what it may yet change is the last that is *)
(* not.                                                                    *)
InTheRing(r) ==
  /\ r \in [0 .. MaxUrb -> Int]
  /\ \A k \in Buffers :
       /\ r[rank(k)] <= r[rank(k) + 1]
       /\ IF rank(k) < lowest THEN buf[k].data = Block(r[rank(k)], r[rank(k) + 1])
                              ELSE r[rank(k) + 1] = r[rank(k)]
  /\ \A j \in 0 .. MaxUrb : rank(next) < j => r[j] = r[MaxUrb]
  /\ spc = "mark" /\ mine = sb /\ busy => \A j \in 1 .. MaxUrb : r[j] = r[MaxUrb]

(* Between the two there is what submit has taken.                         *)
Between(e, r) == e[Len(wire) + 1] <= r[0] /\ taken = Block(e[Len(wire) + 1], r[0])

(* What is left after z: what the call still has, or what waits for one.   *)
Left(z) ==
  /\ z <= w
  /\ (IF pc = "idle" THEN tiny ELSE work) = Block(z, w)
  /\ pc # "idle" => /\ kept = Len(tiny) /\ done + Len(work) = asked + kept
                    /\ done = 0 => tiny = Block(z, z + kept)
  /\ pc = "count" => done = 0

Stream ==
  \E e, r : OnTheWire(e) /\ InTheRing(r) /\ Between(e, r) /\ Left(r[MaxUrb])

Sending == Exact /\ Writing /\ Stream

(* The buffers that rank high are on their way, and no others.             *)
LEMMA Aloft ==
  ASSUME Typed, Submitting, Exact, NEW k \in Buffers
  PROVE  /\ k \in flying <=> lowest <= rank(k)
         /\ lowest <= rank(k) => buf[k].st \in {"sbmtd", "sbmng"}
<1>1. /\ rank(k) \in 0 .. MaxUrb - 1 /\ MaxUrb \in Nat /\ InFlight \in Nat /\ 2 <= InFlight /\ InFlight <= MaxUrb - 1
      /\ lowest \in Nat /\ lowest <= MaxUrb - 1 /\ Len(wire) \in Nat /\ sb \in Buffers
  BY Ranks, Sizes, Wire DEF Typed
<1>2. /\ \A l, m \in Buffers : rank(l) = rank(m) => l = m
      /\ \A i \in 1 .. Len(wire) : wire[i].buf \in Buffers /\ rank(wire[i].buf) = lowest + i - 1
                                   /\ buf[wire[i].buf].st = "sbmtd"
  BY Ranks, Wire DEF Exact, Submitting
<1>3. spc = "urb" => rank(sb) = MaxUrb - 1 /\ buf[sb].st = "sbmng"
  <2>1. SUFFICES ASSUME spc = "urb" PROVE rank(sb) = MaxUrb - 1
    BY DEF Submitting
  <2>2. start = after(sb)
    BY <2>1 DEF start, Submitting
  <2>3. QED BY <1>1, <2>2, Ranks
<1>4. lowest = MaxUrb - InFlight + (IF spc \in {"take", "mark"} THEN 1 ELSE 0)
      /\ Len(wire) = (IF spc = "idle" THEN InFlight ELSE InFlight - 1)
      /\ spc \in {"idle", "take", "mark", "urb"}
  BY DEF lowest, Exact, Typed
<1>5. ASSUME lowest <= rank(k), ~(spc = "urb" /\ k = sb)
      PROVE  \E i \in 1 .. Len(wire) : wire[i].buf = k
  <2> DEFINE i == rank(k) - lowest + 1
  <2>1. i \in 1 .. Len(wire)
    <3>1. CASE spc = "urb"
      <4>1. rank(k) # MaxUrb - 1
        BY <1>1, <1>3, <1>5, <1>2, <3>1
      <4>2. lowest = MaxUrb - InFlight /\ Len(wire) = InFlight - 1
        BY <1>1, <1>4, <3>1
      <4>3. rank(k) \in Nat /\ rank(k) <= MaxUrb - 2 /\ lowest <= rank(k) /\ MaxUrb \in Nat /\ InFlight \in Nat
        BY <1>1, <1>5, <4>1
      <4>4. QED BY <4>2, <4>3
    <3>2. CASE spc # "urb"
      <4>1. lowest = MaxUrb - Len(wire)
        BY <1>1, <1>4, <3>2
      <4>2. rank(k) \in Nat /\ rank(k) <= MaxUrb - 1 /\ lowest <= rank(k) /\ MaxUrb \in Nat /\ Len(wire) \in Nat
        BY <1>1, <1>5
      <4>3. QED BY <4>1, <4>2
    <3>3. QED BY <3>1, <3>2
  <2>2. lowest + i - 1 = rank(k)
    BY <1>1
  <2> HIDE DEF i
  <2>3. wire[i].buf = k
    BY <1>1, <1>2, <2>1, <2>2
  <2>4. QED BY <2>1, <2>3
<1>6. k \in flying <=> ((\E i \in 1 .. Len(wire) : wire[i].buf = k) \/ (spc = "urb" /\ k = sb))
  BY DEF flying
<1>7. ASSUME NEW i \in 1 .. Len(wire), wire[i].buf = k
      PROVE  lowest <= rank(k) /\ buf[k].st = "sbmtd"
  <2>1. rank(k) = lowest + i - 1
    BY <1>2, <1>7
  <2>2. QED BY <1>1, <1>7, <1>2, <2>1
<1>8. QED BY <1>1, <1>3, <1>5, <1>6, <1>7

LEMMA ExactSame ==
  ASSUME Exact, UNCHANGED <<wire, spc, sb, sub>>
  PROVE  Exact' /\ start' = start /\ lowest' = lowest
<1>1. start' = start /\ lowest' = lowest
  BY DEF start, lowest
<1>2. \A k : rank(k)' = rank(k)
  BY <1>1, Stays
<1>3. QED BY <1>1, <1>2 DEF Exact

LEMMA BlockLast ==
  ASSUME NEW lo \in Int, NEW hi \in Int, lo <= hi
  PROVE  /\ Block(lo, hi) = <<>> <=> lo = hi
         /\ Block(lo, hi) # <<>> => Block(lo, hi)[Len(Block(lo, hi))] = hi
<1> DEFINE b == Block(lo, hi)
<1>1. b \in Seq(Int) /\ Len(b) = hi - lo /\ \A k \in 1 .. hi - lo : b[k] = lo + k
  BY BlockIs
<1> HIDE DEF b
<1>2. b = <<>> <=> Len(b) = 0
  BY <1>1, EmptySeq
<1>3. b # <<>> => hi - lo \in 1 .. hi - lo /\ lo + (hi - lo) = hi
  BY <1>1, <1>2
<1>4. (b = <<>> <=> lo = hi) /\ (b # <<>> => b[Len(b)] = hi)
  BY <1>1, <1>2, <1>3
<1>5. QED BY <1>4 DEF b

LEMMA LeftSame ==
  ASSUME NEW z, Left(z), UNCHANGED <<w, pc, tiny, work, asked, kept, done>>
  PROVE  Left(z)'
BY DEF Left

(* The numbers of a stream.                                                *)
LEMMA Bounds ==
  ASSUME Typed, NEW e, OnTheWire(e), NEW r, InTheRing(r)
  PROVE  /\ Len(wire) \in Nat /\ MaxUrb \in Nat /\ 3 <= MaxUrb /\ lowest \in Nat
         /\ 1 <= lowest /\ lowest <= MaxUrb - 1
         /\ \A i \in 1 .. Len(wire) + 1 : e[i] \in Int
         /\ \A i \in 0 .. MaxUrb : r[i] \in Int
         /\ \A k \in Buffers : rank(k) \in 0 .. MaxUrb - 1 /\ rank(k) \in 0 .. MaxUrb /\ rank(k) + 1 \in 0 .. MaxUrb
         /\ e[Len(wire) + 1] \in Int /\ r[0] \in Int /\ r[MaxUrb] \in Int
<1>1. Len(wire) \in Nat
  BY OnWire
<1>2. MaxUrb \in Nat /\ 3 <= MaxUrb /\ lowest \in Nat /\ 1 <= lowest /\ lowest <= MaxUrb - 1
  BY Sizes
<1>3. \A k \in Buffers : rank(k) \in 0 .. MaxUrb - 1
  BY Ranks
<1>4. \A i \in 0 .. MaxUrb - 1 : i \in 0 .. MaxUrb /\ i + 1 \in 0 .. MaxUrb
  BY <1>2
<1>5. Len(wire) + 1 \in 1 .. Len(wire) + 1 /\ 0 \in 0 .. MaxUrb /\ MaxUrb \in 0 .. MaxUrb
  BY <1>1, <1>2
<1>6. (\A i \in 1 .. Len(wire) + 1 : e[i] \in Int) /\ (\A i \in 0 .. MaxUrb : r[i] \in Int)
  BY DEF OnTheWire, InTheRing
<1>7. QED BY <1>1, <1>2, <1>3, <1>4, <1>5, <1>6

LEMMA SendCallback ==
  ASSUME Prompt, dir = "write", RingInv, Sending, callback
  PROVE  Sending'
<1>1. Typed /\ Submitting /\ Exact /\ Writing
  BY DEF RingInv, Sending
<1>2. /\ spc = "idle" /\ spc' = "take" /\ ~held
      /\ UNCHANGED <<dir, next, sub, sb, taken, pc, mine, nonblock, work, tiny, w, asked, kept, done>>
  BY DEF callback, call_
<1>3. /\ start' = start /\ lowest' = lowest + 1
      /\ Len(wire') = Len(wire) - 1 /\ \A i \in 1 .. Len(wire') : wire'[i] = wire[i + 1]
      /\ Head(wire) = wire[1] /\ 1 \in 1 .. Len(wire)
  BY <1>1, WireCallback
<1>4. \A k : rank(k)' = rank(k)
  BY <1>3, Stays
<1>u. PICK u : u = wire[1].buf
  OBVIOUS
<1>5. lowest \in Nat /\ Len(wire) \in Nat
  BY <1>1, OnWire, Sizes
<1>6. u \in Buffers /\ rank(u) = lowest
  <2>1. rank(wire[1].buf) = lowest + 1 - 1 /\ wire[1].buf \in Buffers
    BY <1>1, <1>3, OnWire DEF Exact
  <2>2. QED BY <1>5, <1>u, <2>1
<1>7. /\ buf'[u].data = <<>> /\ \A k \in Buffers : k # u => buf'[k] = buf[k]
      /\ \A k \in Buffers : k # u => rank(k) # lowest
      /\ \A k \in Buffers : rank(k) \in 0 .. MaxUrb - 1
  <2>1. buf' = [buf EXCEPT ![u] = Empty] /\ buf \in [Buffers -> Buffer]
    BY <1>1, <1>3, <1>u DEF callback, Typed
  <2>2. QED BY <1>1, <1>6, <2>1, Ranks DEF Empty
<1>8. \A i \in 1 .. Len(wire') : i + 1 \in 1 .. Len(wire) /\ wire'[i] = wire[i + 1]
  BY <1>3, <1>5
<1>9. Exact'
  <2>1. Len(wire') = InFlight - 1
    BY <1>1, <1>2, <1>3 DEF Exact
  <2>2. \A i \in 1 .. Len(wire') : rank(wire'[i].buf) = lowest' + i - 1
    <3> TAKE i \in 1 .. Len(wire')
    <3>1. rank(wire'[i].buf) = lowest + (i + 1) - 1
      BY <1>1, <1>8 DEF Exact
    <3>2. QED BY <1>3, <1>5, <3>1
  <2>3. QED BY <1>2, <1>4, <2>1, <2>2 DEF Exact
<1>10. Writing'
  <2>1. next \in Buffers /\ mine \in Buffers /\ rank(next) \in Int /\ rank(mine) \in Int
    <3>1. next \in Buffers /\ mine \in Buffers
      BY <1>1 DEF Typed
    <3>2. QED BY <1>7, <3>1
  <2>2. rank(next) <= lowest' /\ (pc = "advance" /\ mine = next => rank(mine) < lowest')
    BY <1>1, <1>3, <1>5, <2>1 DEF Writing
  <2>3. ASSUME busy, mine # next
        PROVE  lowest' <= rank(mine)
    <3>1. lowest <= rank(mine)
      BY <1>1, <1>2, <2>3 DEF Writing
    <3>2. QED BY <1>1, <1>2, <1>3, <2>3, <3>1, Overtaken
  <2>4. busy' = busy /\ taken = <<>>
    BY <1>1, <1>2 DEF busy, Writing
  <2>5. QED BY <1>2, <1>4, <2>2, <2>3, <2>4 DEF Writing
<1>11. PICK e, r : OnTheWire(e) /\ InTheRing(r) /\ Between(e, r) /\ Left(r[MaxUrb])
  BY DEF Sending, Stream
<1>12. /\ \A i \in 1 .. Len(wire) + 1 : e[i] \in Int
       /\ \A i \in 0 .. MaxUrb : r[i] \in Int
       /\ \A k \in Buffers : rank(k) \in 0 .. MaxUrb
  BY <1>1, <1>11, Bounds
<1>13. \A i \in 1 .. Len(wire) : e[i] <= e[i + 1] /\ wire[i].data = Block(e[i], e[i + 1])
  BY <1>11 DEF OnTheWire
<1>14. last' = e[2]
  <2>1. e[1] \in Int /\ e[2] \in Int /\ e[1] <= e[2] /\ wire[1].data = Block(e[1], e[2]) /\ e[1] = last
    <3>1. 1 \in 1 .. Len(wire) + 1 /\ 2 \in 1 .. Len(wire) + 1 /\ 1 + 1 = 2
      BY <1>3, <1>5
    <3>2. QED BY <1>3, <1>11, <1>12, <1>13, <3>1 DEF OnTheWire
  <2>2. last' = IF wire[1].data = <<>> THEN last ELSE wire[1].data[Len(wire[1].data)]
    BY <1>3 DEF callback
  <2>3. QED BY <2>1, <2>2, BlockLast
<1>15. PICK f : f = [i \in 1 .. Len(wire) |-> e[i + 1]]
  OBVIOUS
<1>16. \A i \in 1 .. Len(wire) : i + 1 \in 1 .. Len(wire) + 1 /\ f[i] = e[i + 1]
  BY <1>5, <1>15
<1>17. OnTheWire(f)'
  <2>1. Len(wire') + 1 = Len(wire)
    BY <1>3, <1>5
  <2>2. f \in [1 .. Len(wire') + 1 -> Int] /\ f[1] = last'
    <3>1. f[1] = e[2]
      BY <1>3, <1>16
    <3>2. f \in [1 .. Len(wire) -> Int]
      BY <1>12, <1>15, <1>16
    <3>3. QED BY <1>14, <2>1, <3>1, <3>2
  <2>3. ASSUME NEW i \in 1 .. Len(wire')
        PROVE  f[i] <= f[i + 1] /\ wire'[i].data = Block(f[i], f[i + 1])
    <3>1. i \in 1 .. Len(wire) /\ i + 1 \in 1 .. Len(wire) /\ wire'[i] = wire[i + 1]
      BY <1>8, <2>1
    <3>2. f[i] = e[i + 1] /\ f[i + 1] = e[(i + 1) + 1]
      BY <1>16, <3>1
    <3>3. QED BY <1>13, <3>1, <3>2
  <2>4. QED BY <2>2, <2>3 DEF OnTheWire
<1>18. InTheRing(r)'
  <2>1. ASSUME NEW k \in Buffers
        PROVE  /\ r[rank(k)] <= r[rank(k) + 1]
               /\ IF rank(k) < lowest' THEN buf'[k].data = Block(r[rank(k)], r[rank(k) + 1])
                                       ELSE r[rank(k) + 1] = r[rank(k)]
    <3>1. /\ r[rank(k)] <= r[rank(k) + 1]
          /\ IF rank(k) < lowest THEN buf[k].data = Block(r[rank(k)], r[rank(k) + 1])
                                 ELSE r[rank(k) + 1] = r[rank(k)]
      BY <1>11 DEF InTheRing
    <3>2. CASE k = u
      <4>1. r[rank(k) + 1] = r[rank(k)] /\ r[rank(k)] \in Int
        BY <1>5, <1>6, <1>12, <3>1, <3>2
      <4>2. buf'[k].data = Block(r[rank(k)], r[rank(k) + 1])
        BY <1>7, <3>2, <4>1, BlockEmpty
      <4>3. QED BY <3>1, <4>1, <4>2
    <3>3. CASE k # u
      <4>1. rank(k) < lowest' <=> rank(k) < lowest
        BY <1>3, <1>5, <1>7, <3>3
      <4>2. buf'[k] = buf[k]
        BY <1>7, <3>3
      <4>3. QED BY <3>1, <4>1, <4>2
    <3>4. QED BY <3>2, <3>3
  <2>2. r \in [0 .. MaxUrb -> Int] /\ \A j \in 0 .. MaxUrb : rank(next) < j => r[j] = r[MaxUrb]
    BY <1>11 DEF InTheRing
  <2>3. QED BY <1>2, <1>4, <2>1, <2>2 DEF InTheRing
<1>19. Between(f, r)'
  <2>1. f[Len(wire)] = e[Len(wire) + 1] /\ Len(wire') + 1 = Len(wire)
    BY <1>3, <1>5, <1>16
  <2>2. QED BY <1>2, <1>11, <2>1 DEF Between
<1>20. Left(r[MaxUrb])'
  BY <1>2, <1>11, LeftSame
<1>21. QED BY <1>9, <1>10, <1>17, <1>18, <1>19, <1>20 DEF Sending, Stream

LEMMA SendTake ==
  ASSUME dir = "write", RingInv, Sending, submit_take
  PROVE  Sending'
<1>1. Typed /\ Submitting /\ Exact /\ Writing
  BY DEF RingInv, Sending
<1>2. /\ spc = "take" /\ sb' = sub /\ spc' = "mark"
      /\ next' = IF next = sub THEN after(next) ELSE next
      /\ UNCHANGED <<dir, buf, wire, taken, pc, mine, nonblock, work, tiny, last, w, asked, kept, done>>
  BY DEF submit_take, call_, user
<1>3. start' = start /\ lowest' = lowest /\ start = sub
  BY <1>1, <1>2, WireTake DEF start
<1>4. \A k : rank(k)' = rank(k)
  BY <1>3, Stays
<1>5. /\ next \in Buffers /\ mine \in Buffers /\ sub \in Buffers
      /\ rank(next) \in Nat /\ rank(mine) \in Nat /\ lowest \in Nat /\ 2 <= lowest
  <2>1. next \in Buffers /\ mine \in Buffers /\ sub \in Buffers
    BY <1>1 DEF Typed
  <2>2. rank(next) \in Nat /\ rank(mine) \in Nat
    BY <1>1, <2>1, Ranks, Sizes
  <2>3. lowest \in Nat /\ 2 <= lowest
    BY <1>2, Sizes DEF lowest
  <2>4. QED BY <2>1, <2>2, <2>3
<1>6. rank(sub) = 0 /\ after(sub) # sub /\ rank(after(sub)) = 1
  <2>1. rank(sub) = 0 /\ MaxUrb \in Nat /\ 3 <= MaxUrb
    BY <1>1, <1>3, Ranks, Sizes
  <2>2. QED BY <1>1, <1>5, <2>1, After, Ranks
<1>7. IF next = sub THEN rank(next) = 0 /\ rank(next') = 1 ELSE next' = next
  BY <1>2, <1>6
<1>8. rank(next') \in Nat /\ rank(next) <= rank(next') /\ rank(next') <= lowest /\ next' # sub
  BY <1>1, <1>2, <1>5, <1>6, <1>7 DEF Writing
<1>9. busy' = busy /\ taken = <<>>
  BY <1>1, <1>2 DEF busy, Writing
<1>10. Exact'
  BY <1>1, <1>2, <1>3, <1>4 DEF Exact
<1>11. busy /\ mine # next => lowest <= rank(mine)
  BY <1>1, <1>2 DEF Writing
<1>12. Writing'
  <2>1. ASSUME pc = "advance", mine = next'
        PROVE  rank(mine) < lowest
    <3>1. CASE next = sub
      BY <1>5, <1>7, <2>1, <3>1
    <3>2. CASE next # sub
      BY <1>1, <1>7, <2>1, <3>2 DEF Writing
    <3>3. QED BY <3>1, <3>2
  <2>2. ASSUME busy, mine # next'
        PROVE  mine = sub \/ lowest <= rank(mine)
    BY <1>7, <1>11, <2>2
  <2>3. rank(next)' = rank(next')
    BY <1>3 DEF rank
  <2>4. QED BY <1>2, <1>3, <1>4, <1>8, <1>9, <2>1, <2>2, <2>3 DEF Writing
<1>13. PICK e, r : OnTheWire(e) /\ InTheRing(r) /\ Between(e, r) /\ Left(r[MaxUrb])
  BY DEF Sending, Stream
<1>14. OnTheWire(e)' /\ Between(e, r)'
  BY <1>2, <1>13 DEF OnTheWire, Between
<1>15. InTheRing(r)'
  <2>1. ASSUME NEW j \in 0 .. MaxUrb, rank(next') < j
        PROVE  r[j] = r[MaxUrb]
    <3>1. rank(next) < j
      BY <1>5, <1>8, <2>1
    <3>2. QED BY <1>13, <3>1 DEF InTheRing
  <2>2. ASSUME mine = sub, busy, NEW j \in 1 .. MaxUrb
        PROVE  r[j] = r[MaxUrb]
    <3>1. mine = next
      BY <1>5, <1>6, <1>11, <2>2
    <3>2. rank(next) < j /\ j \in 0 .. MaxUrb
      BY <1>6, <2>2, <3>1
    <3>3. QED BY <1>13, <3>2 DEF InTheRing
  <2>3. rank(next)' = rank(next')
    BY <1>3 DEF rank
  <2>4. r \in [0 .. MaxUrb -> Int]
        /\ \A k \in Buffers :
             /\ r[rank(k)] <= r[rank(k) + 1]
             /\ IF rank(k) < lowest THEN buf[k].data = Block(r[rank(k)], r[rank(k) + 1])
                                    ELSE r[rank(k) + 1] = r[rank(k)]
    BY <1>13 DEF InTheRing
  <2>5. QED BY <1>2, <1>3, <1>4, <1>9, <2>1, <2>2, <2>3, <2>4 DEF InTheRing
<1>16. Left(r[MaxUrb])'
  BY <1>2, <1>13, LeftSame
<1>17. QED BY <1>10, <1>12, <1>14, <1>15, <1>16 DEF Sending, Stream

LEMMA SendMark ==
  ASSUME dir = "write", RingInv, Sending, submit_mark
  PROVE  Sending'
<1>1. Typed /\ Submitting /\ Exact /\ Writing
  BY DEF RingInv, Sending
<1>2. /\ spc = "mark" /\ spc' = "urb" /\ taken' = buf[sb].data /\ buf' = [buf EXCEPT ![sb].st = "sbmng"]
      /\ UNCHANGED <<dir, next, wire, sb, pc, mine, nonblock, work, tiny, last, w, asked, kept, done>>
  BY DEF submit_mark, call_, user
<1>3. /\ start = sb /\ lowest' = lowest - 1
      /\ \A k \in Buffers : rank(k)' = IF k = sb THEN MaxUrb - 1 ELSE rank(k) - 1
  BY <1>1, WireMark
<1>4. /\ next \in Buffers /\ mine \in Buffers /\ sb \in Buffers /\ MaxUrb \in Nat /\ 3 <= MaxUrb
      /\ lowest \in Nat /\ 1 <= lowest /\ lowest <= MaxUrb - 1 /\ Len(wire) \in Nat
  BY <1>1, Sizes, OnWire DEF Typed
<1>5. \A k \in Buffers : rank(k) \in 0 .. MaxUrb - 1 /\ (k # sb => 1 <= rank(k))
  <2>1. rank(sb) = 0
    BY <1>1, <1>3, Ranks
  <2>2. ASSUME NEW k \in Buffers PROVE rank(k) \in 0 .. MaxUrb - 1 /\ (k # sb => 1 <= rank(k))
    <3>1. rank(k) \in 0 .. MaxUrb - 1 /\ (rank(k) = rank(sb) => k = sb)
      BY <1>1, <1>4, Ranks
    <3>2. QED BY <1>4, <2>1, <3>1
  <2>3. QED BY <2>2
<1>6. rank(sb) = 0
  BY <1>1, <1>3, Ranks
<1>7. \A k \in Buffers : buf'[k].data = buf[k].data
  BY <1>1, <1>2, <1>4 DEF Typed, Buffer
<1>8. rank(next)' = rank(next) - 1 /\ 1 <= rank(next) /\ rank(next) \in Int
  <2>1. next # sb /\ next' = next
    BY <1>1, <1>2 DEF Writing
  <2>2. rank(next)' = rank(next) - 1
    BY <1>3, <1>4, <2>1 DEF rank
  <2>3. QED BY <1>4, <1>5, <2>1, <2>2
<1>9. rank(mine)' = (IF mine = sb THEN MaxUrb - 1 ELSE rank(mine) - 1) /\ rank(mine) \in Int
  <2>1. rank(mine)' = IF mine = sb THEN MaxUrb - 1 ELSE rank(mine) - 1
    BY <1>2, <1>3, <1>4 DEF rank
  <2>2. QED BY <1>4, <1>5, <2>1
<1>10. Exact'
  <2>1. ASSUME NEW i \in 1 .. Len(wire)
        PROVE  rank(wire[i].buf)' = lowest' + i - 1
    <3>1. wire[i].buf \in Buffers /\ wire[i].buf # sb /\ rank(wire[i].buf) = lowest + i - 1
      BY <1>1, <1>2, Wire DEF Exact
    <3>2. rank(wire[i].buf)' = rank(wire[i].buf) - 1
      BY <1>2, <1>3, <3>1 DEF rank
    <3>3. QED BY <1>3, <1>4, <3>1, <3>2
  <2>2. QED BY <1>1, <1>2, <2>1 DEF Exact
<1>11. Writing'
  <2>1. rank(next)' <= lowest'
    BY <1>1, <1>3, <1>4, <1>8 DEF Writing
  <2>2. ASSUME pc = "advance", mine = next
        PROVE  rank(mine)' < lowest'
    <3>1. rank(mine) < lowest /\ mine # sb
      BY <1>1, <1>2, <2>2 DEF Writing
    <3>2. QED BY <1>3, <1>4, <1>9, <3>1
  <2>3. ASSUME busy, mine # next
        PROVE  lowest' <= rank(mine)'
    <3>1. mine = sb \/ lowest <= rank(mine)
      BY <1>1, <2>3 DEF Writing
    <3>2. QED BY <1>3, <1>4, <1>9, <3>1
  <2>4. busy' = busy
    BY <1>2 DEF busy
  <2>5. QED BY <1>2, <2>1, <2>2, <2>3, <2>4 DEF Writing
<1>12. PICK e, r : OnTheWire(e) /\ InTheRing(r) /\ Between(e, r) /\ Left(r[MaxUrb])
  BY DEF Sending, Stream
<1>13. /\ \A i \in 0 .. MaxUrb : r[i] \in Int
       /\ e[Len(wire) + 1] \in Int /\ r[0] \in Int
  BY <1>1, <1>12, Bounds
<1>14. PICK s : s = [j \in 0 .. MaxUrb |-> IF j < MaxUrb THEN r[j + 1] ELSE r[MaxUrb]]
  OBVIOUS
<1>15. /\ \A j \in 0 .. MaxUrb - 1 : j + 1 \in 0 .. MaxUrb /\ s[j] = r[j + 1]
       /\ s[MaxUrb] = r[MaxUrb] /\ s[MaxUrb - 1] = r[MaxUrb] /\ s[0] = r[1]
  <2>1. \A j \in 0 .. MaxUrb - 1 : j \in 0 .. MaxUrb /\ j < MaxUrb /\ j + 1 \in 0 .. MaxUrb
    BY <1>4
  <2>2. \A j \in 0 .. MaxUrb - 1 : s[j] = r[j + 1]
    BY <1>14, <2>1
  <2>3. MaxUrb \in 0 .. MaxUrb /\ ~(MaxUrb < MaxUrb)
    BY <1>4
  <2>4. s[MaxUrb] = r[MaxUrb]
    BY <1>14, <2>3
  <2>5. MaxUrb - 1 \in 0 .. MaxUrb - 1 /\ (MaxUrb - 1) + 1 = MaxUrb /\ 0 \in 0 .. MaxUrb - 1 /\ 0 + 1 = 1
    BY <1>4
  <2>6. QED BY <2>1, <2>2, <2>4, <2>5
<1>16. /\ r[0] <= r[1] /\ buf[sb].data = Block(r[0], r[1])
  <2>1. /\ r[rank(sb)] <= r[rank(sb) + 1]
        /\ IF rank(sb) < lowest THEN buf[sb].data = Block(r[rank(sb)], r[rank(sb) + 1])
                                ELSE r[rank(sb) + 1] = r[rank(sb)]
    BY <1>4, <1>12 DEF InTheRing
  <2>2. rank(sb) + 1 = 1 /\ rank(sb) < lowest
    BY <1>4, <1>6
  <2>3. QED BY <1>6, <2>1, <2>2
<1>17. OnTheWire(e)' /\ Left(s[MaxUrb])'
  <2>1. OnTheWire(e)'
    BY <1>2, <1>12 DEF OnTheWire
  <2>2. Left(s[MaxUrb])
    BY <1>12, <1>15
  <2>3. QED BY <1>2, <2>1, <2>2, LeftSame
<1>18. Between(e, s)'
  <2>1. e[Len(wire) + 1] = r[0]
    <3>1. Block(e[Len(wire) + 1], r[0]) = <<>> /\ e[Len(wire) + 1] <= r[0]
      BY <1>1, <1>2, <1>12 DEF Between, Writing
    <3>2. QED BY <1>13, <3>1, BlockLast
  <2>2. QED BY <1>2, <1>15, <1>16, <2>1 DEF Between
<1>19. InTheRing(s)'
  <2>1. s \in [0 .. MaxUrb -> Int]
    <3>1. \A j \in 0 .. MaxUrb : (IF j < MaxUrb THEN r[j + 1] ELSE r[MaxUrb]) \in Int
      BY <1>4, <1>13
    <3>2. QED BY <1>14, <3>1
  <2>2. ASSUME NEW k \in Buffers, NEW i, i = rank(k)'
        PROVE  /\ s[i] <= s[i + 1]
               /\ IF i < lowest' THEN buf'[k].data = Block(s[i], s[i + 1]) ELSE s[i + 1] = s[i]
    <3>1. CASE k = sb
      <4>1. i = MaxUrb - 1 /\ i + 1 = MaxUrb /\ ~(i < lowest')
        BY <1>3, <1>4, <2>2, <3>1
      <4>2. s[i] = r[MaxUrb] /\ s[i + 1] = r[MaxUrb]
        BY <1>15, <4>1
      <4>3. r[MaxUrb] \in Int
        BY <1>4, <1>13
      <4>4. QED BY <4>1, <4>2, <4>3
    <3>2. CASE k # sb
      <4>1. i = rank(k) - 1 /\ i \in 0 .. MaxUrb - 1 /\ i + 1 \in 0 .. MaxUrb - 1 /\ i + 1 = rank(k)
            /\ (i < lowest' <=> rank(k) < lowest)
        BY <1>3, <1>4, <1>5, <2>2, <3>2
      <4>2. s[i] = r[rank(k)] /\ s[i + 1] = r[rank(k) + 1]
        BY <1>15, <4>1
      <4>3. /\ r[rank(k)] <= r[rank(k) + 1]
            /\ IF rank(k) < lowest THEN buf[k].data = Block(r[rank(k)], r[rank(k) + 1])
                                   ELSE r[rank(k) + 1] = r[rank(k)]
        BY <1>12 DEF InTheRing
      <4>4. QED BY <1>7, <4>1, <4>2, <4>3
    <3>3. QED BY <3>1, <3>2
  <2>3. ASSUME NEW j \in 0 .. MaxUrb, rank(next)' < j
        PROVE  s[j] = s[MaxUrb]
    <3>1. CASE j = MaxUrb
      BY <3>1
    <3>2. CASE j # MaxUrb
      <4>1. j \in 0 .. MaxUrb - 1 /\ rank(next) < j + 1
        BY <1>4, <1>8, <2>3, <3>2
      <4>2. s[j] = r[j + 1] /\ r[j + 1] = r[MaxUrb]
        BY <1>12, <1>15, <4>1 DEF InTheRing
      <4>3. QED BY <1>15, <4>2
    <3>3. QED BY <3>1, <3>2
  <2>4. \A k \in Buffers :
          /\ s[rank(k)'] <= s[rank(k)' + 1]
          /\ IF rank(k)' < lowest' THEN buf'[k].data = Block(s[rank(k)'], s[rank(k)' + 1])
                                   ELSE s[rank(k)' + 1] = s[rank(k)']
    BY <2>2
  <2>5. QED BY <1>2, <2>1, <2>3, <2>4 DEF InTheRing
<1>20. QED BY <1>10, <1>11, <1>17, <1>18, <1>19 DEF Sending, Stream

LEMMA SendUrb ==
  ASSUME dir = "write", RingInv, Sending, submit_urb, errors' = 0
  PROVE  Sending'
<1>1. Typed /\ Submitting /\ Exact /\ Writing
  BY DEF RingInv, Sending
<1>2. /\ spc = "urb" /\ spc' = "idle" /\ taken' = <<>>
      /\ UNCHANGED <<dir, next, sub, sb, pc, mine, nonblock, work, tiny, last, w, asked, kept, done>>
  BY DEF submit_urb, call_, user
<1>3. /\ start' = start /\ lowest' = lowest /\ rank(sb) = MaxUrb - 1
      /\ Len(wire') = Len(wire) + 1 /\ wire'[Len(wire) + 1] = [buf |-> sb, data |-> taken]
      /\ buf' = [buf EXCEPT ![sb].st = "sbmtd"]
      /\ \A i \in 1 .. Len(wire) : wire'[i] = wire[i]
  BY <1>1, WireUrb
<1>4. \A k : rank(k)' = rank(k)
  BY <1>3, Stays
<1>5. Len(wire) \in Nat /\ Len(wire) = InFlight - 1 /\ lowest = MaxUrb - InFlight /\ lowest \in Nat
      /\ MaxUrb \in Nat /\ InFlight \in Nat /\ sb \in Buffers
  BY <1>1, <1>2, OnWire, Sizes DEF Exact, lowest, Typed
<1>6. \A i \in 1 .. Len(wire') : i \in 1 .. Len(wire) \/ i = Len(wire) + 1
  BY <1>3, <1>5
<1>7. \A k \in Buffers : buf'[k].data = buf[k].data
  BY <1>1, <1>3, <1>5 DEF Typed, Buffer
<1>8. Exact'
  <2>1. ASSUME NEW i \in 1 .. Len(wire')
        PROVE  rank(wire'[i].buf) = lowest + i - 1
    <3>1. CASE i \in 1 .. Len(wire)
      BY <1>1, <1>3, <3>1 DEF Exact
    <3>2. CASE i = Len(wire) + 1
      <4>1. wire'[i].buf = sb
        BY <1>3, <3>2
      <4>2. QED BY <1>3, <1>5, <3>2, <4>1
    <3>3. QED BY <1>6, <3>1, <3>2
  <2>2. Len(wire') = InFlight
    BY <1>3, <1>5
  <2>3. QED BY <1>2, <1>3, <1>4, <2>1, <2>2 DEF Exact
<1>9. Writing'
  <2>1. busy' = busy
    BY <1>2 DEF busy
  <2>2. QED BY <1>1, <1>2, <1>3, <1>4, <2>1 DEF Writing
<1>10. PICK e, r : OnTheWire(e) /\ InTheRing(r) /\ Between(e, r) /\ Left(r[MaxUrb])
  BY DEF Sending, Stream
<1>11. /\ \A i \in 1 .. Len(wire) + 1 : e[i] \in Int
       /\ e[Len(wire) + 1] \in Int /\ r[0] \in Int
  BY <1>1, <1>10, Bounds
<1>n. PICK n : n = Len(wire)
  OBVIOUS
<1>12. PICK f : f = [i \in 1 .. n + 2 |-> IF i <= n + 1 THEN e[i] ELSE r[0]]
  OBVIOUS
<1>13. n \in Nat /\ (\A i \in 1 .. n + 1 : f[i] = e[i]) /\ f[n + 2] = r[0] /\ f \in [1 .. n + 2 -> Int]
       /\ Len(wire') = n + 1
  <2>1. n \in Nat /\ Len(wire') = n + 1
    BY <1>3, <1>5, <1>n
  <2>2. \A i \in 1 .. n + 2 : (IF i <= n + 1 THEN e[i] ELSE r[0]) \in Int
    BY <1>11, <1>n, <2>1
  <2>3. \A i \in 1 .. n + 1 : i \in 1 .. n + 2 /\ i <= n + 1
    BY <2>1
  <2>4. n + 2 \in 1 .. n + 2 /\ ~(n + 2 <= n + 1)
    BY <2>1
  <2>5. QED BY <1>12, <2>1, <2>2, <2>3, <2>4
<1>14. OnTheWire(f)'
  <2>1. Len(wire') + 1 = n + 2 /\ 1 \in 1 .. n + 1
    BY <1>13
  <2>2. f \in [1 .. Len(wire') + 1 -> Int] /\ f[1] = last
    <3>1. e[1] = last
      BY <1>10 DEF OnTheWire
    <3>2. QED BY <1>13, <2>1, <3>1
  <2>3. ASSUME NEW i \in 1 .. Len(wire')
        PROVE  f[i] <= f[i + 1] /\ wire'[i].data = Block(f[i], f[i + 1])
    <3>1. CASE i \in 1 .. Len(wire)
      <4>1. i \in 1 .. n + 1 /\ i + 1 \in 1 .. n + 1
        BY <1>5, <1>n, <3>1
      <4>2. f[i] = e[i] /\ f[i + 1] = e[i + 1] /\ wire'[i] = wire[i]
        BY <1>3, <1>13, <3>1, <4>1
      <4>3. e[i] <= e[i + 1] /\ wire[i].data = Block(e[i], e[i + 1])
        BY <1>10, <3>1 DEF OnTheWire
      <4>4. QED BY <4>2, <4>3
    <3>2. CASE i = Len(wire) + 1
      <4>1. i \in 1 .. n + 1 /\ i + 1 = n + 2
        BY <1>13, <1>n, <3>2
      <4>2. f[i] = e[Len(wire) + 1] /\ f[i + 1] = r[0]
        BY <1>13, <3>2, <4>1
      <4>3. wire'[i].data = taken
        BY <1>3, <3>2
      <4>4. QED BY <1>10, <4>2, <4>3 DEF Between
    <3>3. QED BY <1>6, <3>1, <3>2
  <2>4. QED BY <1>2, <2>2, <2>3 DEF OnTheWire
<1>15. InTheRing(r)'
  <2>1. busy' = busy
    BY <1>2 DEF busy
  <2>2. QED BY <1>2, <1>3, <1>4, <1>7, <1>10, <2>1 DEF InTheRing
<1>16. Between(f, r)'
  <2>1. f[Len(wire') + 1] = r[0]
    <3>1. Len(wire') + 1 = n + 2
      BY <1>13
    <3>2. QED BY <1>13, <3>1
  <2>2. Block(r[0], r[0]) = <<>>
    BY <1>11, BlockEmpty
  <2>3. QED BY <1>2, <1>11, <2>1, <2>2 DEF Between
<1>17. Left(r[MaxUrb])'
  BY <1>2, <1>10, LeftSame
<1>18. QED BY <1>8, <1>9, <1>14, <1>15, <1>16, <1>17 DEF Sending, Stream

(* A step of write that puts nothing into a buffer.                        *)
LEMMA SendAside ==
  ASSUME Typed, Sending, UNCHANGED <<buf, wire, spc, sb, sub, taken, last>>,
         rank(next) <= rank(next'), rank(next') <= lowest, rank(next) \in Int, rank(next') \in Int,
         spc = "mark" => next' # sb,
         pc' = "advance" /\ mine' = next' => rank(mine') < lowest,
         busy' => \/ mine' = next' /\ next' = next
                  \/ busy /\ mine' = mine /\ next' = next,
         \A z \in Int : Left(z) => Left(z)'
  PROVE  Sending'
<1>1. Exact' /\ start' = start /\ lowest' = lowest
  BY ExactSame DEF Sending
<1>2. \A k : rank(k)' = rank(k)
  BY <1>1, Stays
<1>3. rank(next)' = rank(next') /\ rank(mine)' = rank(mine')
  BY <1>1 DEF rank
<1>4. Writing
  BY DEF Sending
<1>5. Writing'
  <2>1. ASSUME busy', mine' # next'
        PROVE  (spc = "mark" /\ mine' = sb) \/ lowest <= rank(mine')
    <3>1. busy /\ mine' = mine /\ next' = next
      BY <2>1
    <3>2. QED BY <1>4, <2>1, <3>1 DEF Writing
  <2>2. spc # "urb" => taken = <<>>
    BY <1>4 DEF Writing
  <2>3. QED BY <1>1, <1>3, <2>1, <2>2 DEF Writing
<1>6. PICK e, r : OnTheWire(e) /\ InTheRing(r) /\ Between(e, r) /\ Left(r[MaxUrb])
  BY DEF Sending, Stream
<1>7. OnTheWire(e)' /\ Between(e, r)'
  BY <1>6 DEF OnTheWire, Between
<1>8. r[MaxUrb] \in Int
  BY <1>6, Bounds
<1>9. InTheRing(r)'
  <2>1. ASSUME NEW j \in 0 .. MaxUrb, rank(next') < j
        PROVE  r[j] = r[MaxUrb]
    <3>1. rank(next) < j
      BY <2>1
    <3>2. QED BY <1>6, <3>1 DEF InTheRing
  <2>2. ASSUME spc = "mark", mine' = sb, busy', NEW j \in 1 .. MaxUrb
        PROVE  r[j] = r[MaxUrb]
    <3>1. busy /\ mine = sb
      BY <2>2
    <3>2. QED BY <1>6, <2>2, <3>1 DEF InTheRing
  <2>3. r \in [0 .. MaxUrb -> Int]
        /\ \A k \in Buffers :
             /\ r[rank(k)] <= r[rank(k) + 1]
             /\ IF rank(k) < lowest THEN buf[k].data = Block(r[rank(k)], r[rank(k) + 1])
                                    ELSE r[rank(k) + 1] = r[rank(k)]
    BY <1>6 DEF InTheRing
  <2>4. QED BY <1>1, <1>2, <1>3, <2>1, <2>2, <2>3 DEF InTheRing
<1>10. QED BY <1>1, <1>5, <1>6, <1>7, <1>8, <1>9 DEF Sending, Stream

(* One that leaves the index alone.                                        *)
LEMMA SendHere ==
  ASSUME Typed, Sending, UNCHANGED <<buf, wire, spc, sb, sub, taken, last, next>>,
         pc' # "advance" \/ (pc = "advance" /\ mine' = mine),
         busy' => mine' = next \/ (busy /\ mine' = mine),
         \A z \in Int : Left(z) => Left(z)'
  PROVE  Sending'
<1>1. Writing
  BY DEF Sending
<1>2. next \in Buffers
  BY DEF Typed
<1>3. rank(next) \in Int
  BY <1>2, Ranks
<1>4. rank(next) <= lowest /\ (spc = "mark" => next # sb) /\ next' = next
  BY <1>1 DEF Writing
<1>5. pc' = "advance" /\ mine' = next' => rank(mine') < lowest
  BY <1>1, <1>4 DEF Writing
<1>6. rank(next) <= rank(next')
  BY <1>3, <1>4
<1>7. QED BY <1>3, <1>4, <1>5, <1>6, SendAside

(* What is left when a call begins and when it ends.                       *)
LEMMA LeftCall ==
  ASSUME Typed, NEW z \in Int, Left(z), write_call
  PROVE  Left(z)'
<1>1. /\ pc = "idle" /\ pc' = "count" /\ kept' = Len(tiny) /\ tiny' = tiny /\ done' = 0
      /\ tiny \in Seq(Int) /\ Len(tiny) \in Nat
  BY DEF write_call, Typed
<1>2. PICK c \in Counts : work' = tiny \o [i \in 1 .. c |-> w + i] /\ w' = w + c /\ asked' = c
  BY DEF write_call
<1>3. c \in Nat /\ w \in Int /\ z <= w /\ tiny = Block(z, w)
  BY <1>1, RingConstants DEF Typed, Left
<1>4. [i \in 1 .. c |-> w + i] = Block(w, w + c)
  <2>1. (w + c) - w = c
    BY <1>3
  <2>2. QED BY <2>1 DEF Block
<1> DEFINE h == w + c
<1>5. h \in Int /\ w <= h /\ z <= h /\ h - z = c + (w - z)
  BY <1>3
<1> HIDE DEF h
<1>6. Block(z, w) \o Block(w, h) = Block(z, h)
  BY <1>3, <1>5, BlockJoin
<1>7. work' = Block(z, h) /\ w' = h
  BY <1>2, <1>3, <1>4, <1>6 DEF h
<1>8. tiny = Block(z, z + Len(tiny)) /\ Len(tiny) = w - z
  <2>1. Len(tiny) = w - z
    BY <1>3, BlockIs
  <2>2. z + Len(tiny) = w
    BY <1>3, <2>1
  <2>3. QED BY <1>3, <2>1, <2>2
<1>9. done' + Len(work') = asked' + kept'
  <2>1. Len(Block(z, h)) = h - z
    BY <1>5, BlockIs
  <2>2. Len(work') = c + (w - z)
    BY <1>5, <1>7, <2>1
  <2>3. asked' + kept' = c + (w - z) /\ c + (w - z) \in Int
    BY <1>1, <1>2, <1>3, <1>8
  <2>4. QED BY <1>1, <2>2, <2>3
<1>10. QED BY <1>1, <1>5, <1>7, <1>8, <1>9 DEF Left

LEMMA LeftCount ==
  ASSUME Typed, Room, NEW z \in Int, Left(z), write_count
  PROVE  Left(z)'
<1>1. /\ work' = SubSeq(work, 1, asked + Len(tiny)) /\ pc = "count" /\ pc' = "find"
      /\ UNCHANGED <<asked, done, kept, tiny, w>>
  BY DEF write_count, user
<1>2. /\ kept = Len(tiny) /\ done = 0 /\ done + Len(work) = asked + kept
      /\ work \in Seq(Int) /\ Len(work) \in Nat /\ asked \in Int /\ Len(tiny) \in Nat
  BY <1>1 DEF Left, Typed
<1>3. asked + Len(tiny) = Len(work)
  BY <1>2
<1>4. SubSeq(work, 1, Len(work)) = work
  BY <1>2
<1>5. work' = work
  BY <1>1, <1>3, <1>4
<1>6. QED BY <1>1, <1>5 DEF Left

LEMMA LeftEnds ==
  ASSUME Typed, dir = "write", NEW z \in Int, Left(z), wait_signal \/ wait_wouldblock, cut' = {}
  PROVE  Left(z)'
<1>1. pc = "wait" /\ pc' = "idle" /\ tiny' = tiny
  BY DEF wait_signal, wait_wouldblock, idle_again
<1>2. /\ z <= w /\ work = Block(z, w) /\ kept = Len(tiny) /\ (done = 0 => tiny = Block(z, z + kept))
      /\ done + Len(work) = asked + kept /\ asked \in Int
      /\ w \in Int /\ done \in Nat /\ kept \in Nat /\ tiny \in Seq(Int)
  BY <1>1 DEF Left, Typed
<1>3. Len(work) = w - z
  BY <1>2, BlockIs
<1>u. cut \union {"early"} # {}
  OBVIOUS
<1>4. w' = z + kept /\ tiny = Block(z, z + kept)
  <2>1. CASE wait_signal
    <3>0. ~(done > 0) /\ w' = w - asked
      BY <1>u, <2>1, Zenon DEF wait_signal
    <3>1. w' = w - asked /\ done = 0
      BY <1>2, <3>0
    <3>2. QED BY <1>2, <1>3, <3>1
  <2>2. CASE wait_wouldblock
    <3>0. ~(done > 0 /\ kept > 0) /\ w' = w - asked + done
      <4>1. dir # "read"
        OBVIOUS
      <4>2. QED BY <1>u, <2>2, <4>1, Zenon DEF wait_wouldblock
    <3>1. w' = w - asked + done /\ (done = 0 \/ kept = 0)
      BY <1>2, <3>0
    <3>2. w' = z + kept
      BY <1>2, <1>3, <3>1
    <3>3. kept = 0 => tiny = Block(z, z + kept)
      <4>1. SUFFICES ASSUME kept = 0 PROVE tiny = Block(z, z + kept)
        OBVIOUS
      <4>2. Len(tiny) = 0
        BY <1>2, <4>1
      <4>3. tiny = <<>>
        BY <1>2, <4>2, EmptySeq
      <4>4. z + kept = z
        BY <4>1
      <4>5. QED BY <4>3, <4>4, BlockEmpty
    <3>4. QED BY <1>2, <3>1, <3>2, <3>3
  <2>3. QED BY <2>1, <2>2
<1>5. z <= z + kept
  BY <1>2
<1>6. QED BY <1>1, <1>4, <1>5 DEF Left

LEMMA LeftFlush ==
  ASSUME Typed, NEW z \in Int, Left(z), flush, cut' = {}
  PROVE  Left(z)'
<1>0. cut \union {"flush"} # {}
  OBVIOUS
<1>1. pc = "idle" /\ pc' = "idle" /\ tiny' = <<>> /\ w' = w - Len(tiny)
  BY <1>0, Zenon DEF flush
<1>2. z <= w /\ tiny = Block(z, w) /\ w \in Int
  BY <1>1 DEF Left, Typed
<1>3. Len(tiny) = w - z
  BY <1>2, BlockIs
<1>4. w' = z
  BY <1>1, <1>2, <1>3
<1>5. QED BY <1>1, <1>4, BlockEmpty DEF Left

LEMMA SendWaiting ==
  ASSUME dir = "write", RingInv, Sending, waiting, cut' = {}
  PROVE  Sending'
<1>1. Typed
  BY DEF RingInv
<1>2. UNCHANGED <<buf, wire, spc, sb, sub, taken, next>> /\ last' = last
  <2>1. CASE wait_ready \/ wait_nonblock
    BY <2>1 DEF wait_ready, wait_nonblock, ring, eng, user
  <2>2. CASE wait_signal \/ wait_wouldblock
    BY <2>2 DEF wait_signal, wait_wouldblock, ring, eng
  <2>3. QED BY <2>1, <2>2 DEF waiting
<1>3. CASE wait_ready \/ wait_nonblock
  <2>1. /\ pc = "wait" /\ UNCHANGED <<w, tiny, work, asked, kept, done, mine, nonblock>>
        /\ pc' \in {"find", "chunk"} /\ (pc' = "chunk" => mine = next \/ nonblock)
    BY <1>3 DEF wait_ready, wait_nonblock, call_, user
  <2>2. \A z \in Int : Left(z) => Left(z)'
    BY <2>1 DEF Left
  <2>3. busy' => mine' = next \/ (busy /\ mine' = mine)
    BY <2>1 DEF busy
  <2>4. QED BY <1>1, <1>2, <2>1, <2>2, <2>3, SendHere
<1>4. CASE wait_signal \/ wait_wouldblock
  <2>1. pc' = "idle"
    BY <1>4 DEF wait_signal, wait_wouldblock, idle_again
  <2>2. \A z \in Int : Left(z) => Left(z)'
    BY <1>1, <1>4, LeftEnds
  <2>3. ~busy'
    BY <2>1 DEF busy
  <2>4. QED BY <1>1, <1>2, <2>1, <2>2, <2>3, SendHere
<1>5. QED BY <1>3, <1>4 DEF waiting

LEMMA SendCall ==
  ASSUME RingInv, Sending, cut' = {}, write_call \/ write_count \/ write_rest \/ write_find \/ flush
  PROVE  Sending'
<1>1. Typed /\ Room
  BY DEF RingInv
<1>2. CASE write_call \/ write_count \/ flush
  <2>1. UNCHANGED <<buf, wire, spc, sb, sub, taken, last, next>>
    BY <1>2 DEF write_call, write_count, flush, ring, eng, user
  <2>2. \A z \in Int : Left(z) => Left(z)'
    BY <1>1, <1>2, LeftCall, LeftCount, LeftFlush
  <2>3. pc' = "count" \/ pc' = "find" \/ pc' = "idle"
    <3>1. CASE write_call \/ write_count
      BY <3>1 DEF write_call, write_count
    <3>2. CASE flush
      <4>1. cut \union {"flush"} # {}
        OBVIOUS
      <4>2. QED BY <3>2, <4>1, Zenon DEF flush
    <3>3. QED BY <1>2, <3>1, <3>2
  <2>4. ~busy'
    BY <2>3 DEF busy
  <2>5. QED BY <1>1, <2>1, <2>2, <2>3, <2>4, SendHere
<1>3. CASE write_rest
  <2>1. UNCHANGED <<buf, wire, spc, sb, sub, taken, last, next>> /\ pc \in {"find", "chunk"}
        /\ pc' = "idle" /\ tiny' = work /\ w' = w - asked + (done + Len(work) - Len(tiny))
    BY <1>3 DEF write_rest, idle_again, ring, eng
  <2>2. ASSUME NEW z \in Int, Left(z)
        PROVE  Left(z)'
    <3>1. /\ kept = Len(tiny) /\ done + Len(work) = asked + kept /\ z <= w /\ work = Block(z, w)
          /\ asked \in Int /\ kept \in Nat /\ w \in Int /\ done \in Nat /\ Len(work) \in Nat
      BY <1>1, <2>1, <2>2 DEF Left, Typed
    <3>2. w' = w
      BY <2>1, <3>1
    <3>3. QED BY <2>1, <3>1, <3>2 DEF Left
  <2>3. ~busy'
    BY <2>1 DEF busy
  <2>4. QED BY <1>1, <2>1, <2>2, <2>3, SendHere
<1>4. CASE write_find
  <2>1. UNCHANGED <<buf, wire, spc, sb, sub, taken, last, next, w, tiny, work, asked, kept, done>>
        /\ pc = "find" /\ pc' = "wait" /\ mine' = next
    BY <1>4 DEF write_find, ring, eng, user
  <2>2. \A z \in Int : Left(z) => Left(z)'
    BY <2>1 DEF Left
  <2>3. QED BY <1>1, <2>1, <2>2, SendHere
<1>5. QED BY <1>2, <1>3, <1>4

LEMMA SendAdvance ==
  ASSUME RingInv, Sending, write_advance
  PROVE  Sending'
<1>1. Typed /\ Writing
  BY DEF RingInv, Sending
<1>2. /\ pc = "advance" /\ pc' = "find" /\ next' = IF next = mine THEN after(next) ELSE next
      /\ UNCHANGED <<buf, wire, spc, sb, sub, taken, last, w, tiny, work, asked, kept, done, mine>>
  BY DEF write_advance, advanced, eng, call_, user
<1>3. /\ next \in Buffers /\ rank(next) \in 0 .. MaxUrb - 1 /\ MaxUrb \in Nat
      /\ lowest \in Nat /\ lowest <= MaxUrb - 1 /\ rank(next) <= lowest
  BY <1>1, Ranks, Sizes DEF Typed, Writing
<1>4. rank(next') \in Int /\ rank(next) <= rank(next') /\ rank(next') <= lowest /\ (spc = "mark" => next' # sb)
  <2>1. CASE next = mine
    <3>1. rank(next) < lowest
      BY <1>1, <1>2, <2>1 DEF Writing
    <3>2. next' = after(next) /\ rank(after(next)) = rank(next) + 1
      <4>1. rank(after(next)) = IF rank(next) = MaxUrb - 1 THEN 0 ELSE rank(next) + 1
        BY <1>1, <1>3, Ranks
      <4>2. QED BY <1>2, <1>3, <2>1, <3>1, <4>1
    <3>3. spc = "mark" => rank(sb) = 0
      BY <1>1, Ranks DEF start
    <3>4. QED BY <1>3, <3>1, <3>2, <3>3
  <2>2. CASE next # mine
    BY <1>1, <1>2, <1>3, <2>2 DEF Writing
  <2>3. QED BY <2>1, <2>2
<1>5. \A z \in Int : Left(z) => Left(z)'
  BY <1>2 DEF Left
<1>6. ~busy'
  BY <1>2 DEF busy
<1>7. rank(next) \in Int
  BY <1>3
<1>8. QED BY <1>1, <1>2, <1>4, <1>5, <1>6, <1>7, SendAside

(* A packet is put into the buffer that write is at, whether or not submit *)
(* has moved it off there meanwhile, as long as it is not marked.          *)
LEMMA SendChunk ==
  ASSUME dir = "write", RingInv, Sending, write_chunk
  PROVE  Sending'
<1>1. Typed /\ Submitting /\ Exact /\ Writing
  BY DEF RingInv, Sending
<1>2. pc = "chunk" /\ UNCHANGED <<next, sub, wire, spc, sb, taken, mine, asked, kept, tiny, last, w, nonblock>>
  BY DEF write_chunk, eng, user
<1>3. mine \in Buffers /\ next \in Buffers /\ busy
  BY <1>1, <1>2 DEF Typed, busy
<1>4. CASE buf[mine].st \notin Mine
  <2>1. pc' = "find" /\ UNCHANGED <<buf, work, done>>
    BY <1>4 DEF write_chunk
  <2>2. \A z \in Int : Left(z) => Left(z)'
    BY <1>2, <2>1 DEF Left
  <2>3. ~busy'
    BY <2>1 DEF busy
  <2>4. QED BY <1>1, <1>2, <2>1, <2>2, <2>3, SendHere
<1>5. CASE buf[mine].st \in Mine
  <2> DEFINE some == SubSeq(work, 1, Chunk)
             rest == SubSeq(work, Chunk + 1, Len(work))
             new  == [st |-> IF buf[mine].len + 1 = Packs THEN "wrttn" ELSE "wrtng", len |-> buf[mine].len + 1,
                      data |-> buf[mine].data \o some]
  <2>1. /\ buf' = [buf EXCEPT ![mine] = new] /\ work' = rest /\ done' = done + Chunk
        /\ pc' \in {"advance", "chunk"} /\ Chunk <= Len(work)
    BY <1>5 DEF write_chunk
  <2>2. new.data = buf[mine].data \o some
    OBVIOUS
  <2> HIDE DEF new
  <2>3. buf'[mine].data = buf[mine].data \o some /\ \A k \in Buffers : k # mine => buf'[k] = buf[k]
    BY <1>1, <1>3, <2>1, <2>2 DEF Typed
  <2>4. Exact' /\ lowest' = lowest /\ \A k : rank(k)' = rank(k)
    <3>1. Exact' /\ start' = start /\ lowest' = lowest
      BY <1>1, <1>2, ExactSame
    <3>2. QED BY <3>1, Stays
  <2>5. /\ rank(mine) < lowest /\ (mine = next \/ (spc = "mark" /\ mine = sb /\ rank(mine) = 0))
        /\ rank(mine) \in Nat /\ rank(next) \in Nat
    <3>1. rank(mine) \in Nat /\ rank(next) \in Nat /\ lowest \in Nat
      BY <1>1, <1>3, Ranks, Sizes
    <3>2. ~(lowest <= rank(mine))
      BY <1>1, <1>3, <1>5, Aloft DEF Mine
    <3>3. mine = next \/ (spc = "mark" /\ mine = sb)
      BY <1>1, <1>3, <3>2 DEF Writing
    <3>4. spc = "mark" /\ mine = sb => rank(mine) = 0
      BY <1>1, Ranks DEF start
    <3>5. QED BY <3>1, <3>2, <3>3, <3>4
  <2>6. Writing'
    <3>1. busy'
      BY <1>2, <2>1 DEF busy
    <3>2. rank(mine)' = rank(mine) /\ rank(next)' = rank(next)
      BY <1>2, <2>4 DEF rank
    <3>3. QED BY <1>1, <1>2, <1>3, <2>4, <2>5, <3>1, <3>2 DEF Writing
  <2>7. PICK e, r : OnTheWire(e) /\ InTheRing(r) /\ Between(e, r) /\ Left(r[MaxUrb])
    BY DEF Sending, Stream
  <2>m. PICK m : m = rank(mine)
    OBVIOUS
  <2>z. PICK z : z = r[MaxUrb]
    OBVIOUS
  <2>c. PICK c : c = Chunk
    OBVIOUS
  <2>8. /\ \A i \in 0 .. MaxUrb : r[i] \in Int
        /\ \A k \in Buffers : rank(k) \in 0 .. MaxUrb - 1
        /\ MaxUrb \in Nat /\ m \in 0 .. MaxUrb - 1 /\ z \in Int /\ c \in Nat \ {0} /\ lowest \in Nat
    BY <1>1, <1>3, <2>7, <2>m, <2>z, <2>c, Bounds, Sizes
  <2>9. \A j \in 0 .. MaxUrb : m < j => r[j] = z
    <3>1. ASSUME NEW j \in 0 .. MaxUrb, m < j
          PROVE  r[j] = z
      <4>1. CASE mine = next
        BY <2>7, <2>m, <2>z, <3>1, <4>1 DEF InTheRing
      <4>2. CASE spc = "mark" /\ mine = sb /\ rank(mine) = 0
        <5>1. j \in 1 .. MaxUrb
          BY <2>8, <2>m, <3>1, <4>2
        <5>2. QED BY <1>3, <2>7, <2>z, <4>2, <5>1 DEF InTheRing
      <4>3. QED BY <2>5, <4>1, <4>2
    <3>2. QED BY <3>1
  <2>10. PICK s : s = [j \in 0 .. MaxUrb |-> IF m < j THEN r[j] + c ELSE r[j]]
    OBVIOUS
  <2>11. /\ \A j \in 0 .. MaxUrb : s[j] = IF m < j THEN z + c ELSE r[j]
         /\ s[MaxUrb] = z + c /\ s[0] = r[0]
    <3>1. \A j \in 0 .. MaxUrb : s[j] = IF m < j THEN z + c ELSE r[j]
      BY <2>9, <2>10
    <3>2. MaxUrb \in 0 .. MaxUrb /\ m < MaxUrb /\ 0 \in 0 .. MaxUrb /\ ~(m < 0)
      BY <2>8
    <3>3. QED BY <3>1, <3>2
  <2>12. /\ z <= w /\ work = Block(z, w) /\ w \in Int /\ c <= w - z /\ kept = Len(tiny) /\ done \in Nat
         /\ Len(work) = w - z /\ done + Len(work) = asked + kept
    <3>1. /\ z <= w /\ work = Block(z, w) /\ w \in Int /\ kept = Len(tiny) /\ done \in Nat
          /\ done + Len(work) = asked + kept
      BY <1>1, <1>2, <2>7, <2>z DEF Left, Typed
    <3>2. Len(work) = w - z
      BY <2>8, <3>1, BlockIs
    <3>3. QED BY <2>1, <2>c, <3>1, <3>2
  <2>13. some = Block(z, z + c) /\ rest = Block(z + c, w)
    <3>1. /\ SubSeq(Block(z, w), 1, c) = Block(z, z + c)
          /\ SubSeq(Block(z, w), c + 1, Len(Block(z, w))) = Block(z + c, w)
      BY <2>8, <2>12, BlockSplit
    <3>2. QED BY <2>c, <2>12, <3>1
  <2>14. r[m] \in Int /\ r[m] <= r[m + 1] /\ buf[mine].data = Block(r[m], r[m + 1]) /\ r[m + 1] = z
    <3>1. /\ r[rank(mine)] <= r[rank(mine) + 1]
          /\ buf[mine].data = Block(r[rank(mine)], r[rank(mine) + 1])
      BY <1>3, <2>5, <2>7 DEF InTheRing
    <3>2. m \in 0 .. MaxUrb /\ m + 1 \in 0 .. MaxUrb /\ m < m + 1
      BY <2>8
    <3>3. QED BY <2>8, <2>9, <2>m, <3>1, <3>2
  <2>15. buf'[mine].data = Block(r[m], z + c)
    <3> DEFINE h == z + c
    <3>1. h \in Int /\ z <= h /\ r[m] <= z
      BY <2>8, <2>14
    <3> HIDE DEF h
    <3>2. Block(r[m], z) \o Block(z, h) = Block(r[m], h)
      BY <2>8, <2>14, <3>1, BlockJoin
    <3>3. some = Block(z, h)
      BY <2>13 DEF h
    <3> HIDE DEF some
    <3>4. buf'[mine].data = Block(r[m], h)
      BY <2>3, <2>14, <3>2, <3>3
    <3>5. QED BY <3>4 DEF h
  <2>16. OnTheWire(e)' /\ Between(e, s)'
    BY <1>2, <2>7, <2>11 DEF OnTheWire, Between
  <2>17. Left(s[MaxUrb])'
    <3> DEFINE h == z + c
    <3>1. h <= w /\ done' # 0 /\ pc' # "idle" /\ pc' # "count"
      <4>1. done' = done + c
        BY <2>1, <2>c
      <4>2. QED BY <2>1, <2>8, <2>12, <4>1
    <3>6. done' + Len(work') = asked' + kept'
      <4>1. Len(Block(h, w)) = w - h /\ h \in Int
        BY <2>8, <2>12, <3>1, BlockIs
      <4>2. Len(work') = (w - z) - c
        <5> HIDE DEF rest
        <5>1. QED BY <2>1, <2>8, <2>12, <2>13, <4>1
      <4>3. done' = done + c /\ asked' = asked /\ kept' = kept
        BY <1>2, <2>1, <2>c
      <4>4. QED BY <2>8, <2>12, <4>2, <4>3
    <3>2. work' = Block(h, w)
      BY <2>1, <2>13
    <3>3. s[MaxUrb] = h
      BY <2>11
    <3> HIDE DEF h, some, rest
    <3>4. kept' = Len(tiny') /\ w' = w
      BY <1>2, <2>12
    <3>5. QED BY <3>1, <3>2, <3>3, <3>4, <3>6 DEF Left
  <2>18. InTheRing(s)'
    <3>1. s \in [0 .. MaxUrb -> Int]
      <4>1. \A j \in 0 .. MaxUrb : (IF m < j THEN r[j] + c ELSE r[j]) \in Int
        BY <2>8
      <4>2. QED BY <2>10, <4>1
    <3>2. ASSUME NEW k \in Buffers, NEW i, i = rank(k)
          PROVE  /\ s[i] <= s[i + 1]
                 /\ IF i < lowest THEN buf'[k].data = Block(s[i], s[i + 1]) ELSE s[i + 1] = s[i]
      <4>1. i \in 0 .. MaxUrb - 1 /\ i \in 0 .. MaxUrb /\ i + 1 \in 0 .. MaxUrb
        BY <2>8, <3>2
      <4>2. /\ r[i] <= r[i + 1]
            /\ IF i < lowest THEN buf[k].data = Block(r[i], r[i + 1]) ELSE r[i + 1] = r[i]
        BY <2>7, <3>2 DEF InTheRing
      <4>3. /\ s[i] = IF m < i THEN z + c ELSE r[i]
            /\ s[i + 1] = IF m < i + 1 THEN z + c ELSE r[i + 1]
        BY <2>11, <4>1
      <4>4. CASE i = m
        <5>1. k = mine
          BY <1>1, <1>3, <2>m, <3>2, <4>4, Ranks
        <5>2. s[i] = r[m] /\ s[i + 1] = z + c /\ i < lowest
          BY <2>5, <2>8, <2>m, <4>3, <4>4
        <5>3. r[m] <= z + c
          BY <2>8, <2>14
        <5>4. QED BY <2>15, <5>1, <5>2, <5>3
      <4>5. CASE i < m
        <5>1. k # mine /\ s[i] = r[i] /\ s[i + 1] = r[i + 1]
          BY <2>8, <2>m, <3>2, <4>1, <4>3, <4>5
        <5>2. QED BY <2>3, <4>2, <5>1
      <4>6. CASE m < i
        <5>1. k # mine /\ s[i] = z + c /\ s[i + 1] = z + c
          BY <2>8, <2>m, <3>2, <4>1, <4>3, <4>6
        <5>2. r[i] = z /\ r[i + 1] = z
          BY <2>8, <2>9, <4>1, <4>6
        <5>3. z + c \in Int
          BY <2>8
        <5>4. i < lowest => buf'[k].data = Block(s[i], s[i + 1])
          <6>1. Block(z, z) = <<>> /\ Block(z + c, z + c) = <<>>
            BY <2>8, <5>3, BlockEmpty
          <6>2. QED BY <2>3, <4>2, <5>1, <5>2, <6>1
        <5>5. QED BY <5>1, <5>3, <5>4
      <4>7. i = m \/ i < m \/ m < i
        BY <2>8, <4>1
      <4>8. QED BY <4>4, <4>5, <4>6, <4>7
    <3>3. ASSUME NEW j \in 0 .. MaxUrb, rank(next) < j \/ (1 <= j /\ spc = "mark" /\ mine = sb)
          PROVE  s[j] = s[MaxUrb]
      <4>1. CASE mine = next /\ rank(next) < j
        BY <2>m, <2>11, <4>1
      <4>2. CASE spc = "mark" /\ mine = sb /\ rank(mine) = 0
        <5>1. m < j
          BY <2>5, <2>m, <3>3, <4>2
        <5>2. QED BY <2>11, <5>1
      <4>3. ~(spc = "mark" /\ mine = sb) \/ mine # next
        BY <1>1 DEF Writing
      <4>4. QED BY <2>5, <3>3, <4>1, <4>2, <4>3
    <3>4. \A k \in Buffers :
            /\ s[rank(k)] <= s[rank(k) + 1]
            /\ IF rank(k) < lowest THEN buf'[k].data = Block(s[rank(k)], s[rank(k) + 1])
                                   ELSE s[rank(k) + 1] = s[rank(k)]
      BY <3>2
    <3>5. \A j \in 1 .. MaxUrb : j \in 0 .. MaxUrb /\ 1 <= j
      BY <2>8
    <3>6. rank(next)' = rank(next)
      BY <1>2, <2>4 DEF rank
    <3>7. \A j \in 0 .. MaxUrb : rank(next)' < j => s[j] = s[MaxUrb]
      <4>1. SUFFICES ASSUME NEW j \in 0 .. MaxUrb, rank(next)' < j PROVE s[j] = s[MaxUrb]
        OBVIOUS
      <4>2. rank(next) < j
        BY <3>6, <4>1
      <4>3. QED BY <3>3, <4>2
    <3>8. spc = "mark" /\ mine = sb => \A j \in 1 .. MaxUrb : s[j] = s[MaxUrb]
      BY <3>3, <3>5
    <3>9. \A k \in Buffers :
            /\ s[rank(k)'] <= s[rank(k)' + 1]
            /\ IF rank(k)' < lowest' THEN buf'[k].data = Block(s[rank(k)'], s[rank(k)' + 1])
                                     ELSE s[rank(k)' + 1] = s[rank(k)']
      BY <2>4, <3>4
    <3>10. QED BY <1>2, <3>1, <3>7, <3>8, <3>9 DEF InTheRing
  <2>19. QED BY <2>4, <2>6, <2>16, <2>17, <2>18 DEF Sending, Stream
<1>6. QED BY <1>4, <1>5

LEMMA SendStep ==
  ASSUME Prompt, RingInv, dir = "write", Sending, cut' = {}, errors' = 0, [Next]_vars
  PROVE  Sending'
<1>1. CASE UNCHANGED vars
  <2>1. UNCHANGED <<buf, wire, spc, sb, sub, taken, last, next, pc, mine, nonblock, w, tiny, work, asked, kept, done>>
    BY <1>1 DEF vars, ring, eng, call_, user
  <2>2. \A z \in Int : Left(z) => Left(z)'
    BY <2>1 DEF Left
  <2>3. busy' = busy
    BY <2>1 DEF busy
  <2>4. QED BY <2>1, <2>2, <2>3, SendHere DEF RingInv
<1>2. CASE read
  BY <1>2 DEF read, read_small, read_call, read_find, read_lost, read_chunk, read_advance, read_return
<1>3. QED
  BY <1>1, <1>2, SendCallback, SendTake, SendMark, SendUrb, SendWaiting, SendCall, SendChunk, SendAdvance
     DEF Next, write

LEMMA SendStarts ==
  ASSUME Init, dir = "write"
  PROVE  Sending
<1>1. Typed
  BY Starts DEF RingInv
<1>2. /\ spc = "idle" /\ pc = "idle" /\ last = 0 /\ w = 0 /\ tiny = <<>> /\ taken = <<>>
      /\ next = InFlight /\ sub = InFlight /\ nonblock = FALSE
      /\ wire = [i \in 1 .. InFlight |-> [buf |-> i - 1, data |-> <<>>]]
      /\ buf = [k \in Buffers |-> IF k < InFlight THEN [Empty EXCEPT !.st = "sbmtd"] ELSE Empty]
  BY DEF Init
<1>3. MaxUrb \in Nat /\ 3 <= MaxUrb /\ InFlight \in Nat /\ 2 <= InFlight /\ InFlight <= MaxUrb - 1
  BY Sizes
<1>4. start = InFlight /\ lowest = MaxUrb - InFlight
  BY <1>2, <1>3 DEF start, lowest
<1>5. Len(wire) = InFlight /\ \A i \in 1 .. InFlight : wire[i].buf = i - 1 /\ wire[i].data = <<>>
  BY <1>2, <1>3
<1>6. \A i \in 1 .. InFlight : rank(i - 1) = lowest + i - 1
  BY <1>3, <1>4 DEF rank
<1>7. Exact
  BY <1>2, <1>5, <1>6 DEF Exact
<1>8. rank(next) = 0 /\ 0 <= lowest
  BY <1>2, <1>3, <1>4 DEF rank
<1>9. Writing
  BY <1>2, <1>8 DEF Writing, busy
<1>10. Block(0, 0) = <<>>
  BY BlockEmpty
<1>11. \A k \in Buffers : buf[k].data = <<>> /\ rank(k) \in 0 .. MaxUrb /\ rank(k) + 1 \in 0 .. MaxUrb
  <2>1. \A k \in Buffers : buf[k].data = <<>>
    BY <1>2 DEF Empty
  <2>2. \A k \in Buffers : rank(k) \in 0 .. MaxUrb - 1
    BY <1>1, Ranks
  <2>3. QED BY <1>3, <2>1, <2>2
<1>12. PICK e : e = [i \in 1 .. InFlight + 1 |-> 0]
  OBVIOUS
<1>13. PICK r : r = [j \in 0 .. MaxUrb |-> 0]
  OBVIOUS
<1>14. \A i \in 1 .. InFlight : i \in 1 .. InFlight + 1 /\ i + 1 \in 1 .. InFlight + 1
  BY <1>3
<1>15. \A i \in 1 .. InFlight : e[i] = 0 /\ e[i + 1] = 0
  BY <1>12, <1>14
<1>16. \A j \in 0 .. MaxUrb : r[j] = 0
  BY <1>13
<1>17. e[1] = 0 /\ e[Len(wire) + 1] = 0 /\ r[0] = 0 /\ r[MaxUrb] = 0
  <2>1. 1 \in 1 .. InFlight + 1 /\ InFlight + 1 \in 1 .. InFlight + 1 /\ 0 \in 0 .. MaxUrb /\ MaxUrb \in 0 .. MaxUrb
    BY <1>3
  <2>2. QED BY <1>5, <1>12, <1>13, <2>1
<1>18. OnTheWire(e)
  <2>1. e \in [1 .. Len(wire) + 1 -> Int]
    BY <1>5, <1>12
  <2>2. \A i \in 1 .. Len(wire) : e[i] <= e[i + 1] /\ wire[i].data = Block(e[i], e[i + 1])
    BY <1>5, <1>10, <1>15
  <2>3. QED BY <1>2, <1>17, <2>1, <2>2 DEF OnTheWire
<1>19. InTheRing(r)
  <2>1. r \in [0 .. MaxUrb -> Int]
    BY <1>13
  <2>2. \A k \in Buffers : r[rank(k)] = 0 /\ r[rank(k) + 1] = 0
    BY <1>11, <1>16
  <2>3. QED BY <1>2, <1>10, <1>11, <1>16, <1>17, <2>1, <2>2 DEF InTheRing
<1>20. Between(e, r) /\ Left(r[MaxUrb])
  BY <1>2, <1>10, <1>17 DEF Between, Left
<1>21. QED BY <1>7, <1>9, <1>18, <1>19, <1>20 DEF Sending, Stream

(* What was proved step by step says what the run checks.                  *)
LEMMA SendShows ==
  ASSUME Typed, Submitting, Sending
  PROVE  WriteInOrder
<1>1. PICK e, r : OnTheWire(e) /\ InTheRing(r) /\ Between(e, r) /\ Left(r[MaxUrb])
  BY DEF Sending, Stream
<1>n. PICK n : n = Len(wire)
  OBVIOUS
<1>2. /\ \A i \in 1 .. n + 1 : e[i] \in Int
      /\ \A i \in 0 .. MaxUrb : r[i] \in Int
      /\ \A i \in 1 .. n : e[i] <= e[i + 1] /\ wire[i].data = Block(e[i], e[i + 1])
      /\ n \in Nat /\ n > 0 /\ MaxUrb \in Nat /\ 3 <= MaxUrb
      /\ e[n + 1] \in Int /\ r[0] \in Int /\ r[MaxUrb] \in Int
  <2>1. n > 0
    BY <1>n, Sizes DEF Sending, Exact
  <2>2. QED BY <1>1, <1>n, <2>1, Bounds DEF OnTheWire
<1> DEFINE flown == [i \in 1 .. Len(wire) |-> wire[i].data]
           queue == [i \in 1 .. MaxUrb |-> (start + i - 1) % MaxUrb]
           parts == [i \in 1 .. MaxUrb |-> IF queue[i] \in flying THEN <<>> ELSE buf[queue[i]].data]
           left  == IF pc = "idle" THEN tiny ELSE work
<1>3. FlattenSeq(flown) = Block(last, e[n + 1]) /\ last <= e[n + 1] /\ last \in Int
  <2>1. Len(flown) = n /\ \A i \in 1 .. n : flown[i] = Block(e[i], e[i + 1])
    BY <1>2, <1>n
  <2>2. e[1] = last /\ e[1] \in Int
    <3>1. 1 \in 1 .. n + 1
      BY <1>2
    <3>2. QED BY <1>1, <1>2, <3>1 DEF OnTheWire
  <2> HIDE DEF flown
  <2>3. \A i \in 1 .. n : e[i] <= e[i + 1]
    BY <1>2
  <2>4. (\A i \in 1 .. n + 1 : e[i] \in Int) /\ n \in Nat /\ n > 0
    BY <1>2
  <2>5. FlattenSeq(flown) = Block(e[1], e[n + 1]) /\ e[1] <= e[n + 1]
    BY <2>1, <2>3, <2>4, Flat
  <2>6. QED BY <2>2, <2>5
<1>4. \A i \in 1 .. MaxUrb : queue[i] \in Buffers /\ rank(queue[i]) = i - 1
  <2>1. ASSUME NEW i \in 1 .. MaxUrb
        PROVE  queue[i] \in Buffers /\ rank(queue[i]) = i - 1
    <3> DEFINE m == start + i - 1
    <3>1. start \in 0 .. MaxUrb - 1 /\ MaxUrb \in Nat \ {0}
      BY <1>2, Ranks DEF Buffers
    <3>2. m \in Nat /\ m < MaxUrb + MaxUrb
      BY <3>1
    <3>3. queue[i] = m % MaxUrb
      OBVIOUS
    <3> HIDE DEF m, queue
    <3>4. queue[i] = IF m < MaxUrb THEN m ELSE m - MaxUrb
      BY <3>1, <3>2, <3>3, Wrap
    <3>5. QED BY <3>1, <3>2, <3>4 DEF rank, Buffers, m
  <2>2. QED BY <2>1
<1>5. inRing = FlattenSeq(parts)
  BY DEF inRing, start
<1>6. FlattenSeq(parts) = Block(r[0], r[MaxUrb]) /\ r[0] <= r[MaxUrb]
  <2>1. PICK f : f = [i \in 1 .. MaxUrb + 1 |-> r[i - 1]]
    OBVIOUS
  <2>2. \A i \in 1 .. MaxUrb + 1 : i - 1 \in 0 .. MaxUrb /\ f[i] = r[i - 1]
    BY <1>2, <2>1
  <2>3. \A i \in 1 .. MaxUrb : i \in 1 .. MaxUrb + 1 /\ i + 1 \in 1 .. MaxUrb + 1 /\ (i - 1) + 1 = i /\ (i + 1) - 1 = i
    BY <1>2
  <2>4. \A i \in 1 .. MaxUrb : f[i] = r[i - 1] /\ f[i + 1] = r[i]
    BY <2>2, <2>3
  <2>5. ASSUME NEW i \in 1 .. MaxUrb
        PROVE  f[i] <= f[i + 1] /\ parts[i] = Block(f[i], f[i + 1])
    <3> DEFINE k == queue[i]
    <3>1. k \in Buffers /\ rank(k) = i - 1
      BY <1>4
    <3>2. parts[i] = IF k \in flying THEN <<>> ELSE buf[k].data
      OBVIOUS
    <3> HIDE DEF k, queue, parts
    <3>3. /\ r[rank(k)] <= r[rank(k) + 1]
          /\ IF rank(k) < lowest THEN buf[k].data = Block(r[rank(k)], r[rank(k) + 1])
                                 ELSE r[rank(k) + 1] = r[rank(k)]
      BY <1>1, <3>1 DEF InTheRing
    <3>4. rank(k) + 1 = i
      BY <2>3, <3>1
    <3>5. f[i] = r[rank(k)] /\ f[i + 1] = r[rank(k) + 1]
      BY <2>4, <3>1, <3>4
    <3>6. k \in flying <=> ~(rank(k) < lowest)
      <4>1. k \in flying <=> lowest <= rank(k)
        BY <3>1, Aloft DEF Sending
      <4>2. lowest \in Nat /\ rank(k) \in Int
        BY <3>1, Sizes
      <4>3. QED BY <4>1, <4>2
    <3>7. r[rank(k)] \in Int
      BY <1>2, <2>2, <2>3, <3>1
    <3>8. Block(r[rank(k)], r[rank(k)]) = <<>>
      BY <3>7, BlockEmpty
    <3>9. CASE k \in flying
      BY <3>2, <3>3, <3>5, <3>6, <3>8, <3>9
    <3>10. CASE k \notin flying
      BY <3>2, <3>3, <3>5, <3>6, <3>10
    <3>11. QED BY <3>9, <3>10
  <2>6. \A i \in 1 .. MaxUrb + 1 : f[i] \in Int
    BY <1>2, <2>2
  <2>7. Len(parts) = MaxUrb
    BY <1>2
  <2>8. f[1] = r[0] /\ f[MaxUrb + 1] = r[MaxUrb]
    <3>1. 1 \in 1 .. MaxUrb + 1 /\ MaxUrb + 1 \in 1 .. MaxUrb + 1 /\ 1 - 1 = 0 /\ (MaxUrb + 1) - 1 = MaxUrb
      BY <1>2
    <3>2. QED BY <2>2, <3>1
  <2>9. MaxUrb > 0
    BY <1>2
  <2> HIDE DEF parts
  <2>10. FlattenSeq(parts) = Block(f[1], f[MaxUrb + 1]) /\ f[1] <= f[MaxUrb + 1]
    <3>1. (\A i \in 1 .. MaxUrb : f[i] <= f[i + 1]) /\ (\A i \in 1 .. MaxUrb : parts[i] = Block(f[i], f[i + 1]))
      BY <2>5
    <3>2. MaxUrb \in Nat
      BY <1>2
    <3>3. QED BY <2>6, <2>7, <2>9, <3>1, <3>2, Flat
  <2>11. QED BY <2>8, <2>10
<1> HIDE DEF parts
<1> DEFINE one == <<last>>
           all == one \o FlattenSeq(flown) \o taken \o inRing \o left
           a   == last - 1
<1>7. one = Block(a, last) /\ a \in Int /\ a <= last
  <2>1. a \in Int /\ a <= last /\ last - a = 1 /\ a + 1 = last
    BY <1>3
  <2>2. one \in Seq(Int) /\ Len(one) = 1 /\ one[1] = last
    BY <1>3
  <2> HIDE DEF one, a
  <2>3. \A k \in 1 .. last - a : one[k] = a + k
    BY <2>1, <2>2
  <2>4. Len(one) = last - a
    BY <2>1, <2>2
  <2>5. one = Block(a, last)
    BY <1>3, <2>1, <2>2, <2>3, <2>4, BlockMakes
  <2>6. QED BY <2>1, <2>5
<1>8. /\ e[n + 1] <= r[0] /\ taken = Block(e[n + 1], r[0])
      /\ r[MaxUrb] <= w /\ left = Block(r[MaxUrb], w) /\ w \in Int
  BY <1>1, <1>n DEF Between, Left, Typed
<1>9. WriteInOrder = (dir = "write" /\ cut = {} /\ errors = 0 =>
                        /\ \A i \in 1 .. Len(all) - 1 : all[i + 1] = all[i] + 1
                        /\ all[Len(all)] = w)
  BY DEF WriteInOrder, Unbroken
<1>10. all = Block(a, w) /\ a < w
  <2> DEFINE x == FlattenSeq(flown)
             y == e[n + 1]
             b == r[0]
             c == r[MaxUrb]
  <2>1. x = Block(last, y) /\ taken = Block(y, b) /\ inRing = Block(b, c) /\ left = Block(c, w) /\ one = Block(a, last)
    BY <1>3, <1>5, <1>6, <1>7, <1>8
  <2>2. /\ a \in Int /\ last \in Int /\ y \in Int /\ b \in Int /\ c \in Int /\ w \in Int
        /\ a <= last /\ last <= y /\ y <= b /\ b <= c /\ c <= w /\ a < last
    BY <1>2, <1>3, <1>6, <1>7, <1>8
  <2>3. all = one \o x \o taken \o inRing \o left
    OBVIOUS
  <2> HIDE DEF x, y, b, c, a, all, one, left
  <2>4. a <= y /\ a <= b /\ a <= c /\ a < w
    BY <2>2
  <2>5. Block(a, last) \o Block(last, y) = Block(a, y)
    BY <2>2, BlockJoin
  <2>6. Block(a, y) \o Block(y, b) = Block(a, b)
    BY <2>2, <2>4, BlockJoin
  <2>7. Block(a, b) \o Block(b, c) = Block(a, c)
    BY <2>2, <2>4, BlockJoin
  <2>8. Block(a, c) \o Block(c, w) = Block(a, w)
    BY <2>2, <2>4, BlockJoin
  <2>9. QED BY <2>1, <2>3, <2>4, <2>5, <2>6, <2>7, <2>8, Zenon
<1>11. /\ \A i \in 1 .. Len(all) - 1 : all[i + 1] = all[i] + 1
       /\ all[Len(all)] = w
  <2> HIDE DEF all, a
  <2>1. a \in Int /\ a < w /\ a <= w /\ w \in Int
    BY <1>7, <1>8, <1>10
  <2>2. Len(all) = w - a /\ \A k \in 1 .. w - a : all[k] = a + k
    BY <1>10, <2>1, BlockIs
  <2>3. \A i \in 1 .. Len(all) - 1 : i \in 1 .. w - a /\ i + 1 \in 1 .. w - a
    BY <2>1, <2>2
  <2>4. Len(all) \in 1 .. w - a /\ a + Len(all) = w
    BY <2>1, <2>2
  <2>5. QED BY <2>1, <2>2, <2>3, <2>4
<1>12. QED BY <1>9, <1>11

(* Failures add up, and a call that was cut short stays cut short.         *)
LEMMA NeverUndone ==
  ASSUME Typed, [Next]_vars
  PROVE  dir' = dir /\ cut \subseteq cut' /\ (errors' = 0 => errors = 0)
<1>1. errors \in Nat
  BY DEF Typed
<1>2. CASE callback \/ submit_take \/ submit_mark \/ UNCHANGED vars
  BY <1>2 DEF callback, submit_take, submit_mark, eng, user, vars
<1>3. CASE submit_urb
  BY <1>1, <1>3 DEF submit_urb, user
<1>4. CASE waiting \/ read \/ write
  <2>1. UNCHANGED <<dir, errors>>
    BY <1>4, Other
  <2>2. cut \subseteq cut'
    BY <1>4 DEF waiting, wait_ready, wait_nonblock, wait_signal, wait_wouldblock,
         read, read_small, read_call, read_find, read_lost, read_chunk, read_advance, read_return,
         write, write_call, write_count, write_rest, write_find, write_chunk, write_advance, flush, user
  <2>3. QED BY <2>1, <2>2
<1>5. QED BY <1>2, <1>3, <1>4 DEF Next

(* The board is sent what the user wrote, every byte once and in order,    *)
(* whatever the callback takes away from under write: as long as no        *)
(* submission has failed; no write has been interrupted after putting bytes*)
(* into buffers, or has returned, with O_NONBLOCK, after putting bytes     *)
(* there that an earlier one owed; no flush has come in the middle of a    *)
(* write with bytes owed; and neither side stands still for as long as the *)
(* other takes to come round the ring.                                     *)
THEOREM WriteSendsInOrder ==
  ASSUME Prompt
  PROVE  Spec => []WriteInOrder
<1> DEFINE SendInv == dir = "write" /\ cut = {} /\ errors = 0 => Sending
<1>1. Init => SendInv
  BY SendStarts
<1>2. RingInv /\ SendInv /\ [Next]_vars => SendInv'
  <2>1. SUFFICES ASSUME RingInv, SendInv, [Next]_vars, dir' = "write", cut' = {}, errors' = 0
                 PROVE  Sending'
    OBVIOUS
  <2>2. dir = "write" /\ cut = {} /\ errors = 0
    BY <2>1, NeverUndone DEF RingInv
  <2>3. QED BY <2>1, <2>2, SendStep
<1>3. RingInv /\ SendInv => WriteInOrder
  <2>1. CASE dir = "write" /\ cut = {} /\ errors = 0
    BY <2>1, SendShows DEF RingInv
  <2>2. CASE ~(dir = "write" /\ cut = {} /\ errors = 0)
    BY <2>2 DEF WriteInOrder
  <2>3. QED BY <2>1, <2>2
<1> HIDE DEF SendInv
<1>4. QED BY <1>1, <1>2, <1>3, RingAlways, PTL DEF Spec
=============================================================================
