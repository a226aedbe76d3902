------------------------------ MODULE OufxsEcho ------------------------------
(***************************************************************************)
(* How the DAHDI driver finds the echo reference of a received sample.     *)
(*                                                                         *)
(* Every OUT packet carries a sequence number; the board mirrors the       *)
(* number of the packet it is playing in the IN packet of the same frame;  *)
(* oufxs_isoc_in__cbak looks the number up in seq2chunk[] and hands the    *)
(* echo canceller whatever sample stands there.  seq2chunk points into the *)
(* OUT buffers themselves, and the engine refills a buffer as soon as the  *)
(* ring comes round to it.                                                 *)
(*                                                                         *)
(* The engine is the one of OufxsIsoc in its steady state: the buffers are *)
(* used in ring order and InFlight URBs are with the USB core.  A sample   *)
(* is the ordinal number of its packet.  One Frame is one millisecond.     *)
(***************************************************************************)
EXTENDS Naturals, Sequences

CONSTANTS
  MaxUrb,      (* OUFXS_MAXURB: buffers of the OUT ring                    *)
  InFlight,    (* wurbsinflight                                            *)
  Packs,       (* wpacksperurb                                             *)
  RPacks,      (* rpacksperurb                                             *)
  SeqMod,      (* 256: range of outseqno                                   *)
  Latency,     (* frames from the wire to the mirrored number (external)   *)
  Late,        (* frames by which an IN callback may be late (external)    *)
  MaxFrames    (* bound on the frames                                      *)

ASSUME EchoConstants ==
  /\ MaxUrb \in Nat \ {0} /\ Packs \in Nat \ {0} /\ RPacks \in Nat \ {0}
  /\ InFlight \in 1 .. MaxUrb
  /\ SeqMod \in Nat \ {0} /\ SeqMod % (MaxUrb * Packs) = 0
  /\ Latency \in Nat /\ Late \in Nat /\ MaxFrames \in Nat

VARIABLES
  chunk,     (* chunk[i][p]: the sample in packet p of outbufs[i]          *)
  filled,    (* OUT URBs filled and submitted so far                       *)
  done,      (* OUT URBs whose callback has run                            *)
  sent,      (* OUT packets the board has received (external)              *)
  received,  (* IN packets not yet handed to the callback: {the sample it  *)
             (* mirrors}, or {} for a packet lost on the bus               *)
  echo       (* what the last IN callback matched: <<mirrored, reference>> *)

vars == <<chunk, filled, done, sent, received, echo>>

Index == 0 .. MaxUrb - 1
Pack  == 0 .. Packs - 1

seqno(k)     == k % SeqMod
(* Mutant: the table is off by one URB.                                    *)
seq2chunk_next(s) == <<(s \div Packs + 1) % MaxUrb, s % Packs>>

seq2chunk(s) == <<(s \div Packs) % MaxUrb, s % Packs>>
sample(s)    == chunk[seq2chunk(s)[1]][seq2chunk(s)[2]]

(* The worker has spawned InFlight URBs; the other buffers are zeroed.     *)
Init ==
  /\ chunk = [i \in Index |-> [p \in Pack |->
                IF i < InFlight THEN i * Packs + p ELSE 0]]
  /\ filled = InFlight /\ done = 0 /\ sent = 0
  /\ received = <<>> /\ echo = {}

(* A frame on the bus (external): the board gets the next OUT packet and   *)
(* sends an IN packet that mirrors the one it got Latency frames ago; the  *)
(* IN packet may be lost.                                                  *)
Frame ==
  /\ sent < filled * Packs /\ sent < MaxFrames
  /\ Len(received) < RPacks + Late
  /\ sent' = sent + 1
  /\ received' = IF sent < Latency
                   THEN received
                   ELSE Append(received, {sent - Latency})
  /\ UNCHANGED <<chunk, filled, done, echo>>

FrameLost ==
  /\ sent < filled * Packs /\ sent < MaxFrames
  /\ sent >= Latency /\ Len(received) < RPacks + Late
  /\ sent' = sent + 1
  /\ received' = Append(received, {})
  /\ UNCHANGED <<chunk, filled, done, echo>>

(* oufxs_isoc_out_cbak, oufxs_isoc_out_submit: the oldest URB has gone out *)
(* and the next buffer of the ring is filled and submitted.                *)
isoc_out_cbak ==
  /\ (done + 1) * Packs <= sent
  /\ done' = done + 1
  /\ chunk' = [chunk EXCEPT ![filled % MaxUrb] = [p \in Pack |-> filled * Packs + p]]
  /\ filled' = filled + 1
  /\ UNCHANGED <<sent, received, echo>>

(* oufxs_isoc_in__cbak: a full IN URB; each packet that was received       *)
(* correctly is matched by its mirrored sequence number.                   *)
isoc_in__cbak ==
  /\ Len(received) >= RPacks
  /\ echo' = {<<k, sample(seqno(k))>> : k \in UNION {received[n] : n \in 1 .. RPacks}}
  /\ received' = SubSeq(received, RPacks + 1, Len(received))
  /\ UNCHANGED <<chunk, filled, done, sent>>

Next == Frame \/ FrameLost \/ isoc_out_cbak \/ isoc_in__cbak

Spec == Init /\ [][Next]_vars

-----------------------------------------------------------------------------
(* Every variable has its type.                                            *)
TypeOK ==
  /\ chunk \in [Index -> [Pack -> 0 .. filled * Packs - 1]]
  /\ filled \in Nat /\ done \in Nat /\ sent \in 0 .. MaxFrames
  /\ received \in Seq(SUBSET Nat) /\ Len(received) <= RPacks + Late
  /\ echo \subseteq Nat \X Nat

(* Every received sample is matched to the sample that was transmitted,    *)
(* and not to one that has overwritten it in the meantime ("matching it to *)
(* the respective transmitted sample based on the mirrored sequence #").   *)
EchoMatches == \A e \in echo : e[1] = e[2]
=============================================================================
