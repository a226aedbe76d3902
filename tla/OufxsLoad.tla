------------------------------- MODULE OufxsLoad -------------------------------
(***************************************************************************)
(* Loading and unloading the DAHDI driver: the adjustment of the module    *)
(* parameters, the reservation of channels for serial numbers, and what    *)
(* is undone when a step fails.                                            *)
(*                                                                         *)
(* dahdi_register gives a span the lowest free channel, so the driver asks *)
(* for dummy spans up to the highest channel it wants and swaps, on the    *)
(* way, those that were asked for.  Other drivers register and unregister  *)
(* channels meanwhile.  The parameter rsvserials is a sequence of entries  *)
(* "serial:channel", possibly with a comma after the last.                 *)
(***************************************************************************)
EXTENDS Integers, Sequences, FiniteSetsExt

CONSTANTS
  Serials, Numbers,          (* what an entry may ask for                  *)
  MaxEntries,                (* bound: entries of rsvserials               *)
  MaxBoards, MaxDummies,     (* OUFXS_MAX_BOARDS, MAX_DUMMYCHANS           *)
  Channels,                  (* DAHDI's channels: 1, 2, ...                *)
  Packs, InFlights, Currents,(* values of the parameters                   *)
  MaxUrb, MaxPacks, MaxInFlight,
  MaxOthers                  (* bound: what other drivers do               *)

ASSUME LoadConstants ==
  /\ Numbers \subseteq Int /\ Packs \union InFlights \union Currents \subseteq Int
  /\ {MaxEntries, MaxDummies, MaxOthers} \subseteq Nat
  /\ {MaxBoards, MaxUrb, MaxPacks} \subseteq Nat \ {0}
  /\ MaxInFlight \in 2..MaxUrb
  /\ IsFiniteSet(Channels) /\ Channels = 1..Cardinality(Channels)
  /\ \E k \in 0..MaxPacks : MaxPacks = 2^k
  /\ 256 % (MaxUrb * MaxPacks) = 0

(* sound: the serial is of eight digits and the channel a number.          *)
Entry == [serial : Serials, channo : Numbers, sound : BOOLEAN]

VARIABLES
  packs, inflight, current,  (* rpacksperurb, wpacksperurb; {r,w}urbsinflight;*)
                             (* loopcurrent                                *)
  rsvserials, comma,         (* the string; whether a comma ends it        *)
  pc, retval,
  rsvsn2chan, numdummies, i, j,
  chan,                      (* DAHDI: the owner of each channel           *)
  boards,                    (* boards[]: "null", "marked" (1), "dev", "rsrvd" *)
  oob,                       (* rsvsn2chan[j] has been read behind its end *)
  others                     (* steps of other drivers so far              *)

paramVars == <<packs, inflight, current, rsvserials, comma>>
rsvVars   == <<rsvsn2chan, numdummies, i, j>>
vars == <<paramVars, pc, retval, rsvVars, chan, boards, oob, others>>

Slots == 0..(MaxBoards - 1)
Free      == [kind |-> "free", no |-> 0]
Other     == [kind |-> "other", no |-> 0]
dummy(k)  == [kind |-> "dummy", no |-> k]
device(s) == [kind |-> "dev", no |-> s]
ours(owner) == owner.kind \in {"dummy", "dev"}

Init ==
  /\ packs \in Packs /\ inflight \in InFlights /\ current \in Currents
  /\ rsvserials \in UNION {[1..n -> Entry] : n \in 0..MaxEntries}
  /\ comma \in BOOLEAN /\ (comma => rsvserials # <<>>)
  /\ pc = "adjust" /\ retval = "ok"
  /\ rsvsn2chan = <<>> /\ numdummies = 0 /\ i = 0 /\ j = 0
  /\ chan = [c \in Channels |-> Free] /\ boards = [s \in Slots |-> "null"]
  /\ oob = FALSE /\ others = 0

-----------------------------------------------------------------------------
(***************************************************************************)
(* oufxs_init: the parameters.                                             *)
(***************************************************************************)
Powers == {p \in 1..MaxPacks : \E k \in 0..MaxPacks : p = 2^k}

(* Mutant: a value above the largest is left alone.                        *)
adjust_packs_high(v) == IF v > MaxPacks THEN v ELSE Min({p \in Powers : v <= p})

(* The next power of two, or the largest.                                  *)
adjust_packs(v) == IF v > MaxPacks THEN MaxPacks ELSE Min({p \in Powers : v <= p})

adjust_inflight(v) ==
  CASE v < 2 -> 2
    [] v > MaxInFlight -> MaxInFlight
    [] OTHER -> v

adjust_current(v) == IF v < 20 \/ v > 41 THEN 20 ELSE v

oufxs_init ==
  /\ pc = "adjust" /\ pc' = "count"
  /\ packs' = adjust_packs(packs) /\ inflight' = adjust_inflight(inflight)
  /\ current' = adjust_current(current)
  /\ UNCHANGED <<rsvserials, comma, retval, rsvVars, chan, boards, oob, others>>

-----------------------------------------------------------------------------
(***************************************************************************)
(* process_rsvserials: the string.                                         *)
(***************************************************************************)
fail(r) == pc' = "rsv_finish" /\ retval' = r

(* Entries are counted by their commas; the table is allocated.            *)
count ==
  /\ pc = "count"
  /\ LET numsn2chan == Len(rsvserials) + (IF comma THEN 1 ELSE 0) IN
     \/ rsvserials = <<>> /\ pc' = "usb" /\ UNCHANGED retval
     \/ rsvserials # <<>> /\ numsn2chan > MaxBoards /\ fail("EINVAL")
     \/ /\ rsvserials # <<>> /\ numsn2chan <= MaxBoards
        /\ \/ pc' = "parse" /\ UNCHANGED retval
           \/ fail("ENOMEM")
  /\ UNCHANGED <<paramVars, rsvVars, chan, boards, oob, others>>

(* Channels in increasing order, serials not repeated.                     *)
wellformed(e) ==
  /\ e.sound /\ e.channo > 0 /\ e.channo < MaxDummies /\ e.channo > numdummies
  /\ \A k \in 1..Len(rsvsn2chan) :
       rsvsn2chan[k].serial # e.serial /\ rsvsn2chan[k].channo # e.channo

parse ==
  /\ pc = "parse"
  /\ LET k == Len(rsvsn2chan) + 1
         e == rsvserials[k] IN
     \/ ~wellformed(e) /\ fail("EINVAL") /\ UNCHANGED <<rsvsn2chan, numdummies>>
     \/ /\ wellformed(e)
        /\ rsvsn2chan' = Append(rsvsn2chan, [serial |-> e.serial, channo |-> e.channo])
        /\ numdummies' = e.channo
        /\ IF k < Len(rsvserials) THEN pc' = "parse" /\ UNCHANGED retval
           ELSE IF comma THEN fail("EINVAL")
           ELSE pc' = "alloc" /\ UNCHANGED retval
  /\ UNCHANGED <<paramVars, i, j, chan, boards, oob, others>>

(* The arrays of dummy spans.                                              *)
alloc ==
  /\ pc = "alloc"
  /\ \/ pc' = "dummy" /\ UNCHANGED retval
     \/ fail("ENOMEM")
  /\ UNCHANGED <<paramVars, rsvVars, chan, boards, oob, others>>

-----------------------------------------------------------------------------
(***************************************************************************)
(* The loop over the dummy spans.                                          *)
(***************************************************************************)
free == {c \in Channels : chan[c] = Free}

(* The channel a registered span has.                                      *)
channo(owner) == CHOOSE c \in Channels : chan[c] = owner

(* dahdi_register; it may fail.                                            *)
dahdi_register(owner, next) ==
  \/ fail("register") /\ UNCHANGED chan
  \/ /\ free # {} /\ chan' = [chan EXCEPT ![Min(free)] = owner]
     /\ pc' = next /\ UNCHANGED retval

(* Mutant: one dummy span too many.                                        *)
register_dummy_more ==
  /\ pc = "dummy"
  /\ IF i <= numdummies THEN dahdi_register(dummy(i), "compare")
                        ELSE pc' = "rsv_finish" /\ UNCHANGED <<retval, chan>>
  /\ UNCHANGED <<paramVars, rsvVars, boards, oob, others>>

register_dummy ==
  /\ pc = "dummy"
  /\ IF i < numdummies THEN dahdi_register(dummy(i), "compare")
                       ELSE pc' = "rsv_finish" /\ UNCHANGED <<retval, chan>>
  /\ UNCHANGED <<paramVars, rsvVars, boards, oob, others>>

(* How a channel compares with the one reserved next.  When all have been  *)
(* found the table is read behind its end: whatever is there decides.      *)
past == j >= Len(rsvsn2chan)
compared(got) ==
  CASE past                          -> {"equal", "below", "above"}
    [] got = rsvsn2chan[j + 1].channo -> {"equal"}
    [] got < rsvsn2chan[j + 1].channo -> {"below"}
    [] OTHER                         -> {"above"}

compare ==
  /\ pc = "compare"
  /\ oob' = (oob \/ past)
  /\ \E result \in compared(channo(dummy(i))) :
       \/ result = "equal" /\ j < MaxBoards /\ pc' = "mark" /\ UNCHANGED <<retval, i>>
       \/ result = "above" /\ fail("EBUSY") /\ UNCHANGED i
       \/ result = "below" /\ pc' = "dummy" /\ i' = i + 1 /\ UNCHANGED retval
  /\ UNCHANGED <<paramVars, rsvsn2chan, numdummies, j, chan, boards, others>>

(* boards[j] is marked, the structure and its channel allocated.  Whether  *)
(* there is memory for the channel is not checked: the loading process dies*)
(* ("oops") at the first use of the NULL pointer.                          *)
mark ==
  /\ pc = "mark"
  /\ \/ boards' = [boards EXCEPT ![j] = "dev"] /\ pc' = "reregister" /\ UNCHANGED retval
     \/ boards' = [boards EXCEPT ![j] = "marked"] /\ fail("ENOMEM")
     \/ boards' = [boards EXCEPT ![j] = "dev"] /\ pc' = "oops" /\ UNCHANGED retval
  /\ UNCHANGED <<paramVars, rsvVars, chan, oob, others>>

(* The dummy gives its channel up ...                                      *)
unregister_dummy ==
  /\ pc = "reregister" /\ dummy(i) \in {chan[c] : c \in Channels}
  /\ chan' = [chan EXCEPT ![channo(dummy(i))] = Free]
  /\ UNCHANGED <<paramVars, pc, retval, rsvVars, boards, oob, others>>

(* ... and the structure's own span should get it.                         *)
register_dev ==
  /\ pc = "reregister" /\ dummy(i) \notin {chan[c] : c \in Channels}
  /\ dahdi_register(device(j), "check")
  /\ UNCHANGED <<paramVars, rsvVars, boards, oob, others>>

(* Mutant: the channel number is not compared.                             *)
check_dev_any ==
  /\ pc = "check"
  /\ boards' = [boards EXCEPT ![j] = "rsrvd"]
  /\ i' = i + 1 /\ j' = j + 1 /\ pc' = "dummy" /\ UNCHANGED retval
  /\ UNCHANGED <<paramVars, rsvsn2chan, numdummies, chan, oob, others>>

check_dev ==
  /\ pc = "check"
  /\ \E result \in compared(channo(device(j))) :
       IF result = "equal"
         THEN /\ boards' = [boards EXCEPT ![j] = "rsrvd"]
              /\ i' = i + 1 /\ j' = j + 1 /\ pc' = "dummy" /\ UNCHANGED retval
         ELSE fail("EBUSY") /\ UNCHANGED <<boards, i, j>>
  /\ UNCHANGED <<paramVars, rsvsn2chan, numdummies, chan, oob, others>>

-----------------------------------------------------------------------------
(***************************************************************************)
(* What is undone.                                                         *)
(***************************************************************************)
release(owners) == [c \in Channels |-> IF chan[c] \in owners THEN Free ELSE chan[c]]
dummies == {dummy(k) : k \in 0..(numdummies - 1)}
rsrvd   == {s \in Slots : boards[s] = "rsrvd"}

(* rsv_finish: the dummies go; after an error the reserved structures, too.*)
(* A slot that is marked is taken for a structure: "oops".                 *)
rsv_finish ==
  /\ pc = "rsv_finish" /\ numdummies' = 0
  /\ IF retval = "ok"
       THEN pc' = "usb" /\ chan' = release(dummies) /\ UNCHANGED boards
       ELSE /\ pc' = IF "marked" \in {boards[s] : s \in Slots} THEN "oops" ELSE "failed"
            /\ chan' = release(dummies \union {device(s) : s \in rsrvd})
            /\ boards' = [s \in Slots |-> IF s \in rsrvd THEN "null" ELSE boards[s]]
  /\ UNCHANGED <<paramVars, retval, rsvsn2chan, i, j, oob, others>>

usb_register ==
  /\ pc = "usb"
  /\ \/ pc' = "loaded" /\ UNCHANGED retval
     \/ pc' = "failed" /\ retval' = "usb"
  /\ UNCHANGED <<paramVars, rsvVars, chan, boards, oob, others>>

(* Mutant: the spans are left to DAHDI.                                    *)
oufxs_exit_spans ==
  /\ pc = "loaded" /\ pc' = "unloaded"
  /\ boards' = [s \in Slots |-> IF s \in rsrvd THEN "null" ELSE boards[s]]
  /\ UNCHANGED <<paramVars, retval, rsvVars, chan, oob, others>>

(* oufxs_exit: by then usb_deregister has disconnected the boards.         *)
oufxs_exit ==
  /\ pc = "loaded" /\ pc' = "unloaded"
  /\ chan' = release({device(s) : s \in rsrvd})
  /\ boards' = [s \in Slots |-> IF s \in rsrvd THEN "null" ELSE boards[s]]
  /\ UNCHANGED <<paramVars, retval, rsvVars, oob, others>>

(* Another driver registers or unregisters a span.                         *)
other ==
  /\ others < MaxOthers /\ others' = others + 1
  /\ \/ free # {} /\ chan' = [chan EXCEPT ![Min(free)] = Other]
     \/ \E c \in Channels : chan[c] = Other /\ chan' = [chan EXCEPT ![c] = Free]
  /\ UNCHANGED <<paramVars, pc, retval, rsvVars, boards, oob>>

over == pc \in {"failed", "oops", "unloaded"} /\ UNCHANGED vars

Next ==
  \/ oufxs_init \/ count \/ parse \/ alloc \/ register_dummy \/ compare \/ mark
  \/ unregister_dummy \/ register_dev \/ check_dev \/ rsv_finish \/ usb_register
  \/ oufxs_exit \/ other \/ over

Spec == Init /\ [][Next]_vars

-----------------------------------------------------------------------------
(***************************************************************************)
(* Properties.                                                             *)
(***************************************************************************)

(* After the adjustment the sizes fit: a ring of OUT packets divides the   *)
(* range of the sequence number, which the lookup of echo references (see  *)
(* OufxsEcho) relies on for any value the user gave (oufxs.c:3721-3775).   *)
ParamsFit ==
  pc # "adjust" =>
    /\ 256 % (MaxUrb * packs) = 0
    /\ inflight \in 2..MaxUrb /\ current \in 20..41

(* A driver that is loaded has for each entry of the string a reserved     *)
(* structure registered under the channel asked for, each for a serial of  *)
(* its own, and nothing else, although other drivers took and gave back    *)
(* channels meanwhile; unless it has read rsvsn2chan behind its end        *)
(* (oufxs.c:3448, 3566, 3644).                                             *)
ReservedAsAsked ==
  pc = "loaded" /\ ~oob =>
    /\ Len(rsvsn2chan) = Len(rsvserials)
    /\ \A k \in 1..Len(rsvserials) :
         chan[rsvserials[k].channo] = device(k - 1) /\ boards[k - 1] = "rsrvd"
    /\ \A k, l \in 1..Len(rsvserials) : rsvserials[k].serial = rsvserials[l].serial => k = l
    /\ Cardinality({c \in Channels : ours(chan[c])}) = Len(rsvserials)

(* rsvsn2chan is read behind its end only if other drivers have channels:  *)
(* otherwise dummy i has channel i + 1, and the last one is the last one   *)
(* reserved (oufxs.c:3505, 3566).                                          *)
InBounds == oob => others > 0

(* A driver that could not be loaded, or has been unloaded, leaves no span *)
(* in DAHDI and no slot taken; unless it fails between marking a slot and  *)
(* setting rsrvd (a "dev" is left, or an "oops" leaves everything) or in   *)
(* usb_register (oufxs.c:3663-3700).                                       *)
NothingLeft ==
  pc \in {"failed", "unloaded"} /\ retval # "usb" /\ (\A s \in Slots : boards[s] # "dev") =>
    /\ \A c \in Channels : ~ours(chan[c])
    /\ \A s \in Slots : boards[s] = "null"

=============================================================================
