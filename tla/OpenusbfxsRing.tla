---------------------------- MODULE OpenusbfxsRing ----------------------------
(***************************************************************************)
(* One ring of URB buffers of the original character-device driver: the    *)
(* completion callback that resubmits (interrupt) against the one process  *)
(* that read or write lets in (rdmutex, wrmutex).  Init chooses the        *)
(* direction, so one run covers the IN ring with read and the OUT ring     *)
(* with write.  A byte is its number in its stream: the order in which the *)
(* board sent it, or in which the user wrote it.                           *)
(*                                                                         *)
(* The board is set up and its URBs are flying (OpenusbfxsLife has the set-*)
(* up and disconnect).  Frames that arrive damaged are not told apart.     *)
(***************************************************************************)
EXTENDS Integers, Sequences, SequencesExt

CONSTANTS
  MaxUrb,     (* OPENUSBFXS_MAXURB: buffers of the ring                    *)
  InFlight,   (* rurbsinflight, wurbsinflight                              *)
  Packs,      (* rpacksperurb, wpacksperurb                                *)
  Chunk,      (* OPENUSBFXS_CHUNK_SIZE: samples of a packet                *)
  Counts,     (* sizes a process asks for                                  *)
  SizeT,      (* size_t counts modulo SizeT                                *)
  Prompt,     (* neither side stands still for as long as the other takes  *)
              (* to come round the ring                                    *)
  MaxCalls, MaxUrbs, MaxErrors   (* bounds: calls, completions, failures   *)

ASSUME RingConstants ==
  /\ MaxUrb \in Nat /\ InFlight \in 2 .. MaxUrb - 1
  /\ Packs \in Nat \ {0} /\ Chunk \in Nat \ {0}
  /\ Counts \subseteq Nat \ {0} /\ SizeT \in Nat /\ Prompt \in BOOLEAN
  /\ \A c \in Counts : c + Chunk < SizeT
  /\ MaxCalls \in Nat /\ MaxUrbs \in Nat /\ MaxErrors \in Nat

VARIABLES
  dir,               (* "read" or "write"                                  *)
  buf, next, sub,    (* in_bufs/outbufs; read_next/writenext; in_submit/... *)
  wire,              (* URBs submitted: their buffers and what they carry  *)
  spc, sb, taken,    (* the callback's submit; its buffer and the data     *)
  pc, mine,          (* read/write; ourbuf                                 *)
  nonblock,          (* O_NONBLOCK                                         *)
  asked, cnt, act,   (* read: count as called, count, actual               *)
  work,              (* the kmalloc'ed copy: read so far, or left to write *)
  done,              (* write: bytes put into buffers by this call         *)
  tiny,              (* tinyrbuf or tinywbuf, as much of it as is counted  *)
  kept,              (* bytes in tiny when the call began                  *)
  last, w,           (* last byte handed over; last byte the user wrote    *)
  cut,               (* what has cut a write short: an early return that   *)
                     (* gave a wrong count, a flush with bytes owed        *)
  calls, urbs, errors

ring  == <<buf, next, sub, wire>>
eng   == <<spc, sb, taken, urbs, errors>>
call_ == <<mine, nonblock, asked, cnt, act, work, done, kept>>
user  == <<tiny, last, w, cut, calls>>
vars  == <<dir, ring, eng, pc, call_, user>>

Buffers == 0 .. MaxUrb - 1
after(k) == (k + 1) % MaxUrb
Empty == [st |-> "empty", len |-> 0, data |-> <<>>]

(* The URBs have been spawned; each submit pushed the process' index on.   *)
Init ==
  /\ dir \in {"read", "write"}
  /\ buf = [k \in Buffers |-> IF k < InFlight THEN [Empty EXCEPT !.st = "sbmtd"] ELSE Empty]
  /\ next = InFlight /\ sub = InFlight
  /\ wire = [i \in 1 .. InFlight |-> [buf |-> i - 1, data |-> <<>>]]
  /\ spc = "idle" /\ sb = 0 /\ taken = <<>> /\ urbs = 0 /\ errors = 0
  /\ pc = "idle" /\ mine = 0 /\ nonblock = FALSE /\ asked = 0 /\ cnt = 0 /\ act = 0
  /\ work = <<>> /\ done = 0 /\ tiny = <<>> /\ kept = 0
  /\ last = 0 /\ w = 0 /\ cut = {} /\ calls = 0

-----------------------------------------------------------------------------
(***************************************************************************)
(* openusbfxs_isoc_out_cbak, openusbfxs_isoc_in__cbak: the buffer of the   *)
(* oldest URB becomes ready to read or free to write, sleepers are woken   *)
(* (their condition is tested in wait) and the next buffer is submitted.   *)
(***************************************************************************)
received(u) == [i \in 1 .. Packs * Chunk |-> u * Packs * Chunk + i]

(* Prompt: submit has moved the process off its buffer, and the next URB   *)
(* to complete is that buffer's (or would be, had it been submitted): the  *)
(* process has found out meanwhile.                                        *)
held ==
  /\ Prompt /\ mine # next
  /\ pc \in {"chunk", "advance"} \/ (pc = "wait" /\ nonblock)
  /\ Head(wire).buf = mine \/ (MaxUrb + sub - mine) % MaxUrb >= InFlight

callback ==
  /\ spc = "idle" /\ wire # <<>> /\ urbs < MaxUrbs
  /\ ~held
  /\ LET u == Head(wire) IN
       /\ buf' = [buf EXCEPT ![u.buf] = IF dir = "read"
                    THEN [st |-> "ready", len |-> 0, data |-> received(urbs)]
                    ELSE Empty]
       /\ last' = IF u.data = <<>> THEN last ELSE u.data[Len(u.data)]
  /\ wire' = Tail(wire) /\ urbs' = urbs + 1 /\ spc' = "take"
  /\ UNCHANGED <<dir, next, sub, sb, taken, errors, pc, call_, tiny, w, cut, calls>>

(***************************************************************************)
(* openusbfxs_isoc_out_submit, openusbfxs_isoc_in__submit: take the next   *)
(* buffer (moving the process off it), mark it, hand it to the bus.  An    *)
(* OUT buffer without a full packet goes out as silence.                   *)
(***************************************************************************)
submit_take ==
  /\ spc = "take"
  /\ sb' = sub /\ sub' = after(sub)
  /\ next' = IF next = sub THEN after(next) ELSE next
  /\ spc' = "mark"
  /\ UNCHANGED <<dir, buf, wire, taken, urbs, errors, pc, call_, user>>

(* Mutant: the buffer is not marked, write goes on filling it.             *)
submit_mark_quiet ==
  /\ spc = "mark"
  /\ taken' = IF dir = "read" THEN <<>> ELSE buf[sb].data
  /\ spc' = "urb"
  /\ UNCHANGED <<dir, ring, sb, urbs, errors, pc, call_, user>>

submit_mark ==
  /\ spc = "mark"
  /\ buf' = [buf EXCEPT ![sb].st = "sbmng"]
  /\ taken' = IF dir = "read" THEN <<>> ELSE buf[sb].data
  /\ spc' = "urb"
  /\ UNCHANGED <<dir, next, sub, wire, sb, urbs, errors, pc, call_, user>>

submit_urb ==
  /\ spc = "urb" /\ spc' = "idle" /\ taken' = <<>>
  /\ \/ /\ buf' = [buf EXCEPT ![sb].st = "sbmtd"]
        /\ wire' = Append(wire, [buf |-> sb, data |-> taken])
        /\ UNCHANGED errors
     \/ /\ errors < MaxErrors /\ errors' = errors + 1
        /\ buf' = [buf EXCEPT ![sb] = Empty]
        /\ UNCHANGED wire
  /\ UNCHANGED <<dir, next, sub, sb, urbs, pc, call_, user>>

-----------------------------------------------------------------------------
(***************************************************************************)
(* What read and write share: sampling the process' buffer, waiting for it *)
(* and moving on when it is finished.                                      *)
(***************************************************************************)
Mine == IF dir = "read" THEN {"ready", "rding"} ELSE {"empty", "wrtng"}

idle_again == pc' = "idle" /\ work' = <<>> /\ mine' = 0 /\ nonblock' = FALSE
              /\ asked' = 0 /\ cnt' = 0 /\ act' = 0 /\ done' = 0 /\ kept' = 0

(* copy_to_user: the bytes read so far are the user's.                     *)
deliver(b) == last' = IF b = <<>> THEN last ELSE b[Len(b)]

(* wait_event_interruptible and the test that follows it.                  *)
wait_ready ==
  /\ pc = "wait" /\ ~nonblock
  /\ \/ /\ next # mine /\ pc' = "find"
     \/ /\ next = mine /\ buf[mine].st \in Mine /\ pc' = "chunk"
  /\ UNCHANGED <<dir, ring, eng, call_, user>>

wait_nonblock ==
  /\ pc = "wait" /\ nonblock /\ buf[mine].st \in Mine
  /\ pc' = "chunk"
  /\ UNCHANGED <<dir, ring, eng, call_, user>>

(* -ERESTARTSYS: what read has copied is dropped; what write has put into  *)
(* buffers stays there, but the user is told nothing was written.          *)
wait_signal ==
  /\ pc = "wait" /\ ~nonblock /\ next = mine /\ buf[mine].st \notin Mine
  /\ idle_again
  /\ cut' = IF done > 0 THEN cut \union {"early"} ELSE cut
  /\ w' = IF dir = "write" THEN w - asked ELSE w
  /\ UNCHANGED <<dir, ring, eng, tiny, last, calls>>

(* O_NONBLOCK: read hands over what it has; write reports what it has put  *)
(* into buffers, the debt included, and leaves the debt in tinywbuf.       *)
wait_wouldblock ==
  /\ pc = "wait" /\ nonblock /\ buf[mine].st \notin Mine
  /\ idle_again
  /\ IF dir = "read"
       THEN deliver(work) /\ UNCHANGED <<w, cut>>
       ELSE /\ w' = w - asked + done
            /\ cut' = IF done > 0 /\ kept > 0 THEN cut \union {"early"} ELSE cut
            /\ UNCHANGED last
  /\ UNCHANGED <<dir, ring, eng, tiny, calls>>

advanced == IF next = mine THEN after(next) ELSE next

-----------------------------------------------------------------------------
(***************************************************************************)
(* openusbfxs_read.                                                        *)
(***************************************************************************)
read_small ==
  /\ dir = "read" /\ pc = "idle" /\ calls < MaxCalls
  /\ \E c \in Counts :
       /\ c <= Len(tiny)
       /\ deliver(SubSeq(tiny, 1, c)) /\ tiny' = SubSeq(tiny, c + 1, Len(tiny))
  /\ calls' = calls + 1
  /\ UNCHANGED <<dir, ring, eng, pc, call_, w, cut>>

(* Mutant: trbcount is not reset once tinyrbuf has been copied.            *)
read_call_keep ==
  /\ dir = "read" /\ pc = "idle" /\ calls < MaxCalls
  /\ \E c \in Counts, nb \in BOOLEAN :
       /\ c > Len(tiny)
       /\ asked' = c /\ cnt' = c - Len(tiny) /\ nonblock' = nb
  /\ work' = tiny /\ act' = Len(tiny) /\ kept' = Len(tiny)
  /\ pc' = "find" /\ calls' = calls + 1
  /\ UNCHANGED <<dir, ring, eng, mine, done, tiny, last, w, cut>>

read_call ==
  /\ dir = "read" /\ pc = "idle" /\ calls < MaxCalls
  /\ \E c \in Counts, nb \in BOOLEAN :
       /\ c > Len(tiny)
       /\ asked' = c /\ cnt' = c - Len(tiny) /\ nonblock' = nb
  /\ work' = tiny /\ act' = Len(tiny) /\ kept' = Len(tiny) /\ tiny' = <<>>
  /\ pc' = "find" /\ calls' = calls + 1
  /\ UNCHANGED <<dir, ring, eng, mine, done, last, w, cut>>

(* The bytes of tinyrbuf are subtracted from count a second time here.     *)
(* Prompt also says that the process does not read the whole ring while    *)
(* submit goes from taking a buffer to marking it.                         *)
read_find ==
  /\ dir = "read" /\ pc = "find" /\ ~(Prompt /\ spc = "mark" /\ next = sb)
  /\ cnt' = (SizeT + cnt - act) % SizeT /\ act' = 0
  /\ mine' = next /\ pc' = "wait"
  /\ UNCHANGED <<dir, ring, eng, nonblock, asked, work, done, kept, user>>

read_lost ==
  /\ dir = "read" /\ pc = "chunk" /\ buf[mine].st \notin Mine
  /\ cnt' = (SizeT + cnt - act) % SizeT /\ act' = 0
  /\ pc' = "find"
  /\ UNCHANGED <<dir, ring, eng, mine, nonblock, asked, work, done, kept, user>>

(* "overrun": more has been copied than was allocated.                     *)
(* Mutant: the last chunk is not cut to the bytes still asked for.         *)
read_chunk_whole ==
  /\ dir = "read" /\ pc = "chunk" /\ buf[mine].st \in Mine
  /\ LET c == (SizeT + cnt - act) % SizeT
         from == buf[mine].len * Chunk
         full == buf[mine].len + 1 = Packs
     IN /\ cnt' = c /\ act' = Chunk
        /\ work' = work \o SubSeq(buf[mine].data, from + 1, from + Chunk)
        /\ tiny' = IF c < Chunk THEN SubSeq(buf[mine].data, from + c + 1, from + Chunk) ELSE tiny
        /\ buf' = [buf EXCEPT ![mine].st = IF full THEN "empty" ELSE "rding",
                              ![mine].len = @ + 1]
        /\ pc' = IF Len(work') > asked THEN "overrun"
                 ELSE IF full THEN "advance"
                 ELSE IF c <= Chunk THEN "return" ELSE "chunk"
  /\ UNCHANGED <<dir, next, sub, wire, eng, mine, nonblock, asked, done, kept, last, w, cut, calls>>

read_chunk ==
  /\ dir = "read" /\ pc = "chunk" /\ buf[mine].st \in Mine
  /\ LET c == (SizeT + cnt - act) % SizeT
         some == IF c < Chunk THEN c ELSE Chunk
         from == buf[mine].len * Chunk
         full == buf[mine].len + 1 = Packs
     IN /\ cnt' = c /\ act' = some
        /\ work' = work \o SubSeq(buf[mine].data, from + 1, from + some)
        /\ tiny' = IF c < Chunk THEN SubSeq(buf[mine].data, from + c + 1, from + Chunk) ELSE tiny
        /\ buf' = [buf EXCEPT ![mine].st = IF full THEN "empty" ELSE "rding",
                              ![mine].len = @ + 1]
        /\ pc' = IF Len(work') > asked THEN "overrun"
                 ELSE IF full THEN "advance"
                 ELSE IF c <= Chunk THEN "return" ELSE "chunk"
  /\ UNCHANGED <<dir, next, sub, wire, eng, mine, nonblock, asked, done, kept, last, w, cut, calls>>

read_advance ==
  /\ dir = "read" /\ pc = "advance"
  /\ next' = advanced
  /\ pc' = IF cnt <= Chunk THEN "return" ELSE "find"
  /\ UNCHANGED <<dir, buf, sub, wire, eng, call_, user>>

read_return ==
  /\ dir = "read" /\ pc = "return"
  /\ idle_again /\ deliver(work)
  /\ UNCHANGED <<dir, ring, eng, tiny, w, cut, calls>>

read ==
  \/ read_small \/ read_call \/ read_find \/ read_lost \/ read_chunk
  \/ read_advance \/ read_return

-----------------------------------------------------------------------------
(***************************************************************************)
(* openusbfxs_write and openusbfxs_flush.                                  *)
(***************************************************************************)
write_call ==
  /\ dir = "write" /\ pc = "idle" /\ calls < MaxCalls
  /\ \E c \in Counts, nb \in BOOLEAN :
       /\ work' = tiny \o [i \in 1 .. c |-> w + i]
       /\ asked' = c /\ nonblock' = nb /\ w' = w + c
  /\ kept' = Len(tiny) /\ done' = 0
  /\ pc' = "count" /\ calls' = calls + 1
  /\ UNCHANGED <<dir, ring, eng, mine, cnt, act, tiny, last, cut>>

(* The bytes owed are counted by twbcount, which is read again.            *)
write_count ==
  /\ dir = "write" /\ pc = "count"
  /\ work' = SubSeq(work, 1, asked + Len(tiny)) /\ pc' = "find"
  /\ UNCHANGED <<dir, ring, eng, mine, nonblock, asked, cnt, act, done, kept, user>>

(* Less than a packet is left: it waits in tinywbuf for the next write.    *)
(* What write returns is all but the bytes owed, by twbcount.              *)
write_rest ==
  /\ dir = "write" /\ pc \in {"find", "chunk"} /\ Len(work) < Chunk
  /\ tiny' = work /\ w' = w - asked + (done + Len(work) - Len(tiny))
  /\ idle_again
  /\ UNCHANGED <<dir, ring, eng, last, cut, calls>>

write_find ==
  /\ dir = "write" /\ pc = "find" /\ Len(work) >= Chunk
  /\ mine' = next /\ pc' = "wait"
  /\ UNCHANGED <<dir, ring, eng, nonblock, asked, cnt, act, work, done, kept, user>>

write_chunk ==
  /\ dir = "write" /\ pc = "chunk" /\ Len(work) >= Chunk
  /\ IF buf[mine].st \notin Mine
       THEN pc' = "find" /\ UNCHANGED <<buf, work, done>>
       ELSE LET full == buf[mine].len + 1 = Packs IN
            /\ buf' = [buf EXCEPT ![mine] =
                 [st |-> IF full THEN "wrttn" ELSE "wrtng", len |-> @.len + 1,
                  data |-> @.data \o SubSeq(work, 1, Chunk)]]
            /\ work' = SubSeq(work, Chunk + 1, Len(work)) /\ done' = done + Chunk
            /\ pc' = IF full THEN "advance" ELSE "chunk"
  /\ UNCHANGED <<dir, next, sub, wire, eng, mine, nonblock, asked, cnt, act, kept, user>>

write_advance ==
  /\ dir = "write" /\ pc = "advance"
  /\ next' = advanced /\ pc' = "find"
  /\ UNCHANGED <<dir, buf, sub, wire, eng, call_, user>>

(* A descriptor is closed (there may be several of the file): what waits   *)
(* in tinywbuf is forgotten.  Between calls the next writer's bytes are    *)
(* counted on from the last one that was taken; but flush takes iomutex,   *)
(* not wrmutex, and may come in the middle of a write that has bytes owed. *)
flush ==
  /\ dir = "write" /\ tiny # <<>> /\ tiny' = <<>>
  /\ \/ pc = "idle" /\ w' = w - Len(tiny) /\ UNCHANGED cut
     \/ pc # "idle" /\ cut' = cut \union {"flush"} /\ UNCHANGED w
  /\ UNCHANGED <<dir, ring, eng, pc, call_, last, calls>>

write ==
  \/ write_call \/ write_count \/ write_rest \/ write_find \/ write_chunk
  \/ write_advance \/ flush

-----------------------------------------------------------------------------
waiting == wait_ready \/ wait_nonblock \/ wait_signal \/ wait_wouldblock

Next == callback \/ submit_take \/ submit_mark \/ submit_urb \/ waiting \/ read \/ write

Spec == Init /\ [][Next]_vars

-----------------------------------------------------------------------------
(***************************************************************************)
(* Properties.                                                             *)
(***************************************************************************)
TypeOK ==
  /\ dir \in {"read", "write"} /\ next \in Buffers /\ sub \in Buffers
  /\ \A k \in Buffers :
       /\ buf[k].st \in {"empty", "wrtng", "wrttn", "sbmng", "sbmtd", "ready", "rding"}
       /\ buf[k].len \in 0 .. Packs
  /\ Len(wire) <= InFlight
  /\ spc \in {"idle", "take", "mark", "urb"} /\ sb \in Buffers
  /\ pc \in {"idle", "count", "find", "wait", "chunk", "advance", "return", "overrun"}
  /\ mine \in Buffers /\ Len(tiny) <= Chunk

(* read: the user never gets a byte again, or one that is older than one   *)
(* he has, whatever the callback did to the buffer the process was reading *)
(* (bytes may be missing: that is an overrun).                             *)
ReadInOrder ==
  dir = "read" =>
    LET got == <<last>> \o work \o tiny
    IN  \A i \in 1 .. Len(got) - 1 : got[i] < got[i + 1]

(* write: what the board is sent is what the user wrote, every byte once   *)
(* and in order, a user who goes on from the count that write returned.    *)
(* The bytes on the wire, those submit has taken, those in the ring in the *)
(* order it will be submitted, and those waiting in the driver make up the *)
(* whole stream.                                                           *)
flying == {wire[i].buf : i \in 1 .. Len(wire)} \cup (IF spc = "urb" THEN {sb} ELSE {})

inRing ==
  LET start == IF spc = "mark" THEN sb ELSE sub
      queue == [i \in 1 .. MaxUrb |-> (start + i - 1) % MaxUrb]
  IN  FlattenSeq([i \in 1 .. MaxUrb |-> IF queue[i] \in flying THEN <<>> ELSE buf[queue[i]].data])

Unbroken ==
  LET left == IF pc = "idle" THEN tiny ELSE work
      all  == <<last>> \o FlattenSeq([i \in 1 .. Len(wire) |-> wire[i].data])
                \o taken \o inRing \o left
  IN  /\ \A i \in 1 .. Len(all) - 1 : all[i + 1] = all[i] + 1
      /\ all[Len(all)] = w

(* That holds as long as no submission has failed; no write was interrupted*)
(* after it had put bytes into buffers (it returns -ERESTARTSYS and they   *)
(* stay there, openusbfxs.c:828) or, with O_NONBLOCK, returned after it had*)
(* put bytes there that were owed (it counts them, and leaves them in      *)
(* tinywbuf, 818); and no flush has come in the middle of a write that had *)
(* bytes owed (980).                                                       *)
WriteInOrder == dir = "write" /\ cut = {} /\ errors = 0 => Unbroken

(* flush should "wait till others finish with (fs) IO like read, write,    *)
(* etc." (openusbfxs.c:967): without the last of these exceptions.  Does   *)
(* not hold: it waits for another mutex.                                   *)
FlushWaits == dir = "write" /\ "early" \notin cut /\ errors = 0 => Unbroken

(* read never copies more bytes than the user asked for (and than it has   *)
(* allocated), except when fewer were asked than twice what tinyrbuf held: *)
(* those bytes are subtracted from the count twice.                        *)
ReadFits == pc = "overrun" => asked < 2 * kept
=============================================================================
