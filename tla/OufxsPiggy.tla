------------------------------ MODULE OufxsPiggy ------------------------------
(***************************************************************************)
(* Setting direct registers (DRs) of the ProSLIC through the headers of    *)
(* isochronous OUT packets: dr_write_piggyback, its sampling by            *)
(* oufxs_isoc_out_submit and start_stop_iov2 in the driver; the sampling   *)
(* of the two OUT buffers by ProcessIO and START_STOP_ISOV2 in the         *)
(* firmware (PIC18FSource, user.c).                                        *)
(*                                                                         *)
(* The driver changes (drsseq, drsreg, drsval) under outbuflock and every  *)
(* URB carries one sample of them in all its packets.  The board's USB     *)
(* engine writes packets alternately into OUTPCMData0 and OUTPCMData1,     *)
(* byte by byte, while ProcessIO, which has no lock, reads OUT_0, compares *)
(* it with OUT_1, and sets the register when a new sequence number is in   *)
(* both.  Packets may be lost on the bus.                                  *)
(*                                                                         *)
(* The value of a setting is its ordinal number; every one is for DR 64.   *)
(* A session is a run of the driver over a board that keeps its power.     *)
(*                                                                         *)
(* Timing: a sample takes ProcessIO a few dozen instructions and a packet  *)
(* arrives once in a millisecond, so at most one arrival overlaps a sample *)
(* (the flag hit).                                                         *)
(***************************************************************************)
EXTENDS Naturals, Sequences

CONSTANTS
  SeqMod,       (* 256: range of the __u8 drsseq                           *)
  InFlight,     (* wurbsinflight                                           *)
  Packs,        (* wpacksperurb                                            *)
  MaxPosts,     (* bound: settings posted in a session                     *)
  MaxSessions,  (* bound: loads of the driver                              *)
  Seqs,         (* the values "jiffies & 0xff" may have at start           *)
  PowerUp       (* the sequence number in the buffers after power up       *)

ASSUME PiggyConstants ==
  /\ SeqMod \in Nat \ {0} /\ InFlight \in Nat \ {0} /\ Packs \in Nat \ {0}
  /\ MaxPosts \in 0 .. SeqMod - 1 /\ MaxSessions \in Nat
  /\ Seqs \subseteq 0 .. SeqMod - 1 /\ PowerUp \in 0 .. SeqMod - 1

VARIABLES
  drs,      (* dev->drsseq, drsreg, drsval                                 *)
  posted,   (* calls of dr_write_piggyback in this session                 *)
  urbs,     (* the samples of the URBs in flight, oldest first             *)
  left,     (* packets left of the oldest one                              *)
  out,      (* headers in OUTPCMData0 and OUTPCMData1                      *)
  rx,       (* the USB engine: buffer, packet and bytes written so far     *)
  drsena,   (* firmware: DR setting enabled                                *)
  drsseq,   (* firmware: last sequence number acted upon                   *)
  pio, smpl,(* firmware: progress of ProcessIO and its sample              *)
  hit,      (* a packet has arrived during the sample                      *)
  applied,  (* the setting last written to DR 64, 0 at the session's start *)
  sessions

drvVars == <<drs, posted, urbs, sessions>>
busVars == <<left, out, rx>>
fwVars  == <<drsena, drsseq, pio, smpl, hit, applied>>
vars    == <<drvVars, busVars, fwVars>>

(* reg "none" is 0xff, a register that does not exist.                     *)
Header == [seq : 0 .. SeqMod - 1, reg : {"none", "DR64"}, val : 0 .. MaxPosts]
Blank  == [seq |-> PowerUp, reg |-> "none", val |-> 0]

(* Power has come up; the driver has not yet started PCM I/O.              *)
Init ==
  /\ drs = Blank /\ posted = 0 /\ urbs = <<>> /\ sessions = 0
  /\ left = Packs
  /\ out = [i \in {0, 1} |-> Blank]
  /\ rx = [buf |-> 0, pkt |-> Blank, n |-> 0]
  /\ drsena = FALSE /\ drsseq = 0 /\ pio = "test" /\ smpl = Blank /\ hit = FALSE
  /\ applied = 0

-----------------------------------------------------------------------------
(* The driver.                                                             *)

(* start_stop_iov2 and, in ServiceRequests, START_STOP_ISOV2: both sides   *)
(* agree on a sequence number; the headers in the OUT buffers stay as they *)
(* are.  Then the worker spawns the URBs.                                  *)
start_stop_iov2 ==
  /\ urbs = <<>> /\ sessions < MaxSessions /\ rx.n = 0 /\ pio = "test"
  /\ sessions' = sessions + 1
  /\ \E seq \in Seqs :
       /\ drs' = [Blank EXCEPT !.seq = seq]
       /\ urbs' = [i \in 1 .. InFlight |-> drs']
       /\ drsseq' = seq
  /\ drsena' = TRUE /\ posted' = 0 /\ applied' = 0 /\ left' = Packs
  /\ UNCHANGED <<out, rx, pio, smpl, hit>>

(* The driver goes away (disconnect, module unload): the URBs are killed,  *)
(* the board is not told.                                                  *)
stop ==
  /\ urbs # <<>>
  /\ urbs' = <<>> /\ rx' = [rx EXCEPT !.n = 0]
  /\ UNCHANGED <<drs, posted, sessions, left, out, fwVars>>

(* Under outbuflock.                                                       *)
dr_write_piggyback ==
  /\ urbs # <<>> /\ posted < MaxPosts
  /\ posted' = posted + 1
  /\ drs' = [seq |-> (drs.seq + 1) % SeqMod, reg |-> "DR64", val |-> posted + 1]
  /\ UNCHANGED <<urbs, sessions, busVars, fwVars>>

(* The oldest URB has gone out: its callback submits the next one, with a  *)
(* sample of drs taken under outbuflock.                                   *)
isoc_out_cbak ==
  /\ left = 0 /\ urbs # <<>> /\ rx.n = 0
  /\ urbs' = Append(Tail(urbs), drs)
  /\ left' = Packs
  /\ UNCHANGED <<drs, posted, sessions, out, rx, fwVars>>

-----------------------------------------------------------------------------
(* The bus and the USB engine of the board (external).                     *)

(* A packet arrives for the buffer whose turn it is ...                    *)
receive ==
  /\ urbs # <<>> /\ left > 0 /\ rx.n = 0
  /\ pio = "test" \/ ~hit
  /\ left' = left - 1
  /\ rx' = [rx EXCEPT !.pkt = Head(urbs), !.n = 1]
  /\ hit' = TRUE
  /\ UNCHANGED <<drvVars, out, drsena, drsseq, pio, smpl, applied>>

(* ... or is lost, and the buffer keeps its turn.                          *)
lose ==
  /\ urbs # <<>> /\ left > 0 /\ rx.n = 0
  /\ left' = left - 1
  /\ UNCHANGED <<drvVars, out, rx, fwVars>>

(* DRSSEQ, DRSREG and DRSVAL are written one after the other.              *)
store ==
  /\ rx.n > 0
  /\ out' = [out EXCEPT ![rx.buf] =
       CASE rx.n = 1 -> [@ EXCEPT !.seq = rx.pkt.seq]
         [] rx.n = 2 -> [@ EXCEPT !.reg = rx.pkt.reg]
         [] rx.n = 3 -> [@ EXCEPT !.val = rx.pkt.val]]
  /\ rx' = IF rx.n = 3 THEN [buf |-> 1 - rx.buf, pkt |-> Blank, n |-> 0]
                       ELSE [rx EXCEPT !.n = @ + 1]
  /\ UNCHANGED <<drvVars, left, fwVars>>

-----------------------------------------------------------------------------
(* ProcessIO, one memory access at a time.                                 *)
step(from, to) == pio = from /\ pio' = to

ProcessIO_sample ==
  /\ \/ /\ step("test", "seq") /\ drsena /\ out[0].seq # drsseq
        /\ hit' = (rx.n > 0)
        /\ UNCHANGED smpl
     \/ /\ \/ step("seq", "reg") /\ smpl' = [smpl EXCEPT !.seq = out[0].seq]
           \/ step("reg", "val") /\ smpl' = [smpl EXCEPT !.reg = out[0].reg]
           \/ step("val", "cmpseq") /\ smpl' = [smpl EXCEPT !.val = out[0].val]
        /\ UNCHANGED hit
  /\ UNCHANGED <<drvVars, busVars, drsena, drsseq, applied>>

(* Mutant: only the sequence numbers of the two buffers are compared.      *)
ProcessIO_compare_seq ==
  /\ step("cmpseq", IF out[1].seq = smpl.seq THEN "set" ELSE "test")
  /\ UNCHANGED <<drvVars, busVars, drsena, drsseq, smpl, hit, applied>>

ProcessIO_compare ==
  /\ \/ step("cmpseq", IF out[1].seq = smpl.seq THEN "cmpreg" ELSE "test")
     \/ step("cmpreg", IF out[1].reg = smpl.reg THEN "cmpval" ELSE "test")
     \/ step("cmpval", IF out[1].val = smpl.val THEN "set" ELSE "test")
  /\ UNCHANGED <<drvVars, busVars, drsena, drsseq, smpl, hit, applied>>

ProcessIO_set ==
  /\ step("set", "test")
  /\ drsseq' = smpl.seq
  /\ applied' = IF smpl.reg = "DR64" THEN smpl.val ELSE applied
  /\ UNCHANGED <<drvVars, busVars, drsena, smpl, hit>>

ProcessIO == ProcessIO_sample \/ ProcessIO_compare \/ ProcessIO_set

-----------------------------------------------------------------------------
Next ==
  \/ start_stop_iov2 \/ stop \/ dr_write_piggyback \/ isoc_out_cbak
  \/ receive \/ lose \/ store \/ ProcessIO

(* Callbacks run, the USB engine and ProcessIO's loop go on, and a packet  *)
(* gets through again and again.                                           *)
Fairness ==
  /\ WF_vars(isoc_out_cbak) /\ WF_vars(store) /\ WF_vars(ProcessIO)
  /\ WF_vars(receive \/ lose) /\ SF_vars(receive)

Spec == Init /\ [][Next]_vars /\ Fairness

-----------------------------------------------------------------------------
(* Every variable has its type.                                            *)
TypeOK ==
  /\ drs \in Header /\ posted \in 0 .. MaxPosts /\ sessions \in 0 .. MaxSessions
  /\ Len(urbs) \in {0, InFlight} /\ \A i \in 1 .. Len(urbs) : urbs[i] \in Header
  /\ left \in 0 .. Packs
  /\ out \in [{0, 1} -> Header] /\ smpl \in Header
  /\ rx \in [buf : {0, 1}, pkt : Header, n : 0 .. 3]
  /\ drsena \in BOOLEAN /\ hit \in BOOLEAN /\ drsseq \in 0 .. SeqMod - 1
  /\ pio \in {"test", "seq", "reg", "val", "cmpseq", "cmpreg", "cmpval", "set"}
  /\ applied \in 0 .. MaxPosts

(* The settings that reach the chip in a session are those the driver has  *)
(* posted, in order, and the last one gets there: ProcessIO's sampling is  *)
(* never fooled by a buffer that is being written.                         *)
Channel == INSTANCE DrChannel WITH open <- urbs # <<>>
InOrder == Channel!Spec

(* No setting of an earlier session is ever applied: "version 2 of the     *)
(* command is used to pass an initial sequence # to the board, to          *)
(* synchronize piggyback-based DR setting".                                *)
NoStaleSetting == applied <= posted
=============================================================================
