--------------------------- MODULE OufxsLoadProofs ---------------------------
(***************************************************************************)
(* Proofs about loading and unloading the DAHDI driver, for any string of  *)
(* reservations, any number of boards, channels and dummy spans, and       *)
(* whatever other drivers do with DAHDI's channels meanwhile: a driver that*)
(* is loaded has the channels asked for, one that is not leaves nothing    *)
(* behind, and the table of reservations is read within its bounds as long *)
(* as no other driver is in the way.  The parameters fit whatever the user *)
(* gave: that a power of two divides the next ones is drawn from the number*)
(* of subsets of a finite set, the one thing the library says of powers.   *)
(*                                                                         *)
(* The loop over the dummy spans is a search: each round gets a channel    *)
(* that no other round has and that lies below the one looked for next.    *)
(* Were the loop to end with a channel still to be found, as many rounds as*)
(* there are channels up to the last one asked for would have found place  *)
(* below it (Rounds).                                                      *)
(***************************************************************************)
EXTENDS OufxsLoad, FiniteSetTheorems, WellFoundedInduction, TLAPS

-----------------------------------------------------------------------------
(***************************************************************************)
(* The inductive invariant.                                                *)
(***************************************************************************)
Loop == {"dummy", "compare", "mark", "reregister", "check"}

Typed ==
  /\ rsvserials \in Seq(Entry) /\ comma \in BOOLEAN
  /\ pc \in Loop \union {"adjust", "count", "parse", "alloc", "rsv_finish", "usb",
                         "loaded", "failed", "oops", "unloaded"}
  /\ retval \in {"ok", "EINVAL", "ENOMEM", "EBUSY", "register", "usb"}
  /\ rsvsn2chan \in Seq([serial : Serials, channo : Nat \ {0}])
  /\ numdummies \in Nat /\ i \in Nat /\ j \in 0 .. MaxBoards
  /\ chan \in [Channels -> {Free, Other} \union [kind : {"dummy", "dev"}, no : Nat]]
  /\ boards \in [Slots -> {"null", "marked", "dev", "rsrvd"}]
  /\ oob \in BOOLEAN /\ others \in Nat

(* The table has the entries of the string up to where it has been parsed, *)
(* in increasing order of channels; the last is the number of dummies.     *)
Table ==
  /\ Len(rsvsn2chan) <= Len(rsvserials)
  /\ \A k \in 1 .. Len(rsvsn2chan) :
       rsvsn2chan[k].serial = rsvserials[k].serial /\ rsvsn2chan[k].channo = rsvserials[k].channo
  /\ \A k, l \in 1 .. Len(rsvsn2chan) :
       k < l => /\ rsvsn2chan[k].serial # rsvsn2chan[l].serial
                /\ rsvsn2chan[k].channo < rsvsn2chan[l].channo
  /\ pc \in {"adjust", "count"} => rsvsn2chan = <<>>
  /\ pc = "parse" => Len(rsvsn2chan) < Len(rsvserials)
  /\ pc \in {"adjust", "count", "parse"} =>
       \A k \in 1 .. Len(rsvsn2chan) : rsvsn2chan[k].channo <= numdummies
  /\ pc \in {"usb", "loaded"} => Len(rsvsn2chan) = Len(rsvserials)
  /\ pc \in Loop \union {"alloc"} \/ (pc = "rsv_finish" /\ retval = "ok") =>
       /\ Len(rsvsn2chan) = Len(rsvserials) /\ rsvsn2chan # <<>>
       /\ numdummies = rsvsn2chan[Len(rsvsn2chan)].channo

(* The slots: those before j are reserved, that of j is in the making.     *)
Making ==
  /\ pc \in {"adjust", "count", "parse", "alloc"} => i = 0 /\ j = 0
  /\ pc \in {"mark", "reregister", "check"} => j < MaxBoards
  /\ pc \in Loop \ {"dummy"} => i < numdummies
  /\ pc = "dummy" => i <= numdummies
  /\ \A s \in Slots :
       /\ s < j /\ pc \notin {"failed", "oops", "unloaded"} => boards[s] = "rsrvd"
       /\ s > j => boards[s] = "null"
       /\ s = j /\ pc \in {"reregister", "check"} => boards[s] = "dev"
       /\ s = j /\ pc \notin {"reregister", "check", "oops"} /\ retval = "ok" => boards[s] = "null"
       /\ pc = "failed" /\ retval # "usb" => boards[s] \in {"null", "dev"}
       /\ pc = "unloaded" => boards[s] = "null"
  /\ pc \notin {"rsv_finish", "failed", "oops"} => retval = "ok"

(* The spans: no owner has two channels, dummies are there during the loop *)
(* only, and a device has a slot.                                          *)
Spans ==
  /\ \A c, d \in Channels : ours(chan[c]) /\ chan[c] = chan[d] => c = d
  /\ \A c \in Channels :
       /\ chan[c].kind = "dummy" =>
            /\ pc \in Loop \union {"rsv_finish", "oops"} /\ chan[c].no < numdummies
            /\ pc \in Loop => chan[c].no <= i
            /\ pc \in {"dummy", "check"} => chan[c].no < i
       /\ chan[c].kind = "dev" =>
            /\ chan[c].no \in Slots /\ boards[chan[c].no] \in {"rsrvd", "dev"}
            /\ chan[c].no = j => pc # "reregister"
  /\ pc \in {"compare", "mark"} => \E c \in Channels : chan[c] = dummy(i)
  /\ pc = "check" => \E c \in Channels : chan[c] = device(j)

(* The channels of the rounds that are over.                               *)
Settled == {c \in Channels : ours(chan[c]) /\ chan[c] # dummy(i) /\ chan[c] # device(j)}

Found ==
  \A s \in 0 .. j - 1 :
    rsvsn2chan[s + 1].channo \in Channels /\ chan[rsvsn2chan[s + 1].channo] = device(s)

(* As long as the table has been read within its bounds: a round has one   *)
(* channel, below the one that is looked for next.                         *)
Rounds ==
  ~oob =>
    /\ j <= Len(rsvsn2chan)
    /\ pc \in {"mark", "reregister", "check"} => j < Len(rsvsn2chan)
    /\ pc \in Loop =>
         /\ IsFiniteSet(Settled) /\ Cardinality(Settled) = i
         /\ j < Len(rsvsn2chan) => \A c \in Settled : c < rsvsn2chan[j + 1].channo
    /\ pc \in Loop \union {"usb", "loaded"} \/ (pc = "rsv_finish" /\ retval = "ok") => Found
    /\ pc \in {"usb", "loaded"} \/ (pc = "rsv_finish" /\ retval = "ok") =>
         j = Len(rsvsn2chan)

(* Without other drivers a round gets the next channel.                    *)
Alone ==
  others = 0 =>
    /\ ~oob /\ \A c \in Channels : chan[c] # Other
    /\ pc \in {"adjust", "count", "parse", "alloc"} => \A c \in Channels : chan[c] = Free
    /\ pc \in Loop => Settled = 1 .. i
    /\ pc \in {"compare", "mark"} => i + 1 \in Channels /\ chan[i + 1] = dummy(i)
    /\ pc = "check" => i + 1 \in Channels /\ chan[i + 1] = device(j)

LoadInv == Typed /\ Table /\ Making /\ Spans /\ Rounds /\ Alone

-----------------------------------------------------------------------------
(***************************************************************************)
(* Channels and their owners.                                              *)
(***************************************************************************)
Owner == {Free, Other} \union [kind : {"dummy", "dev"}, no : Nat]

LEMMA Least ==
  ASSUME NEW T, T \subseteq Nat, T # {}
  PROVE  Min(T) \in T /\ \A y \in T : Min(T) <= y
<1> DEFINE R == {ss \in Nat \X Nat : ss[1] < ss[2]}
<1>1. IsWellFoundedOn(R, Nat)
  BY NatLessThanWellFounded, Zenon DEF OpToRel
<1>2. \A x, y \in Nat : y < x => <<y, x>> \in R
  OBVIOUS
<1> HIDE DEF R
<1>3. PICK x \in T : \A y \in T : ~(<<y, x>> \in R)
  BY <1>1, WFMin
<1>4. \A y \in T : x <= y
  <2>1. ASSUME NEW y \in T PROVE x <= y
    <3>1. x \in Nat /\ y \in Nat /\ ~(y < x)
      BY <1>2, <1>3, <2>1
    <3>2. QED BY <3>1
  <2>2. QED BY <2>1
<1>5. QED BY <1>4 DEF Min

LEMMA ChannelFacts ==
  Channels \subseteq Nat \ {0} /\ \A c \in Channels : 1 .. c \subseteq Channels
<1>1. Cardinality(Channels) \in Nat
  BY LoadConstants, FS_CardinalityType
<1>2. PICK m \in Nat : Channels = 1 .. m
  BY <1>1, LoadConstants
<1>3. QED BY <1>2

LEMMA OwnerKinds ==
  /\ Free \in Owner /\ Other \in Owner /\ Free # Other /\ ~ours(Free) /\ ~ours(Other)
  /\ \A k \in Nat : /\ dummy(k) \in Owner /\ ours(dummy(k)) /\ dummy(k).kind = "dummy"
                    /\ dummy(k).no = k /\ dummy(k) # Free /\ dummy(k) # Other
  /\ \A k \in Nat : /\ device(k) \in Owner /\ ours(device(k)) /\ device(k).kind = "dev"
                    /\ device(k).no = k /\ device(k) # Free /\ device(k) # Other
  /\ \A x \in Owner : /\ ours(x) \/ x = Free \/ x = Other
                      /\ ours(x) => x.no \in Nat /\ (x = dummy(x.no) \/ x = device(x.no))
                      /\ x.kind = "dummy" => ours(x) /\ x = dummy(x.no)
                      /\ x.kind = "dev" => ours(x) /\ x = device(x.no)
  /\ \A k, l \in Nat : dummy(k) # device(l)
BY DEF Owner, Free, Other, ours, dummy, device

LEMMA LowestFree ==
  ASSUME Typed, free # {}
  PROVE  /\ Min(free) \in Channels /\ chan[Min(free)] = Free
         /\ \A c \in Channels : chan[c] = Free => Min(free) <= c
<1>1. free \subseteq Nat
  BY ChannelFacts DEF free
<1>2. Min(free) \in free /\ \A y \in free : Min(free) <= y
  BY <1>1, Least
<1>3. QED BY <1>2 DEF free

LEMMA ChannelOf ==
  ASSUME NEW owner, \E c \in Channels : chan[c] = owner
  PROVE  channo(owner) \in Channels /\ chan[channo(owner)] = owner
BY DEF channo

(* Without other drivers, and with all channels of the rounds before, the  *)
(* next channel is the lowest one that is free.                            *)
LEMMA NextChannel ==
  ASSUME Typed, free # {}, \A c \in Channels : chan[c] # Other, Settled = 1 .. i,
         \A c \in Channels : chan[c] # dummy(i) /\ chan[c] # device(j)
  PROVE  Min(free) = i + 1 /\ i + 1 \in Channels
<1> DEFINE m == Min(free)
<1>1. m \in Channels /\ chan[m] = Free /\ \A c \in Channels : chan[c] = Free => m <= c
  BY LowestFree
<1>2. m \in Nat \ {0} /\ 1 .. m \subseteq Channels /\ i \in Nat
  BY <1>1, ChannelFacts DEF Typed
<1> HIDE DEF m
<1>3. m \notin 1 .. i
  BY <1>1, OwnerKinds DEF Settled
<1>4. i + 1 \in Channels /\ i + 1 \notin 1 .. i
  BY <1>2, <1>3
<1>5. chan[i + 1] = Free
  <2>1. chan[i + 1] \in Owner /\ i + 1 \notin Settled
    BY <1>4 DEF Typed, Owner
  <2>2. ~ours(chan[i + 1])
    BY <1>4, <2>1 DEF Settled
  <2>3. QED BY <1>4, <2>1, <2>2, OwnerKinds
<1>6. m <= i + 1
  BY <1>1, <1>4, <1>5
<1>7. QED BY <1>2, <1>3, <1>4, <1>6 DEF m

(* While a slot is not in the making, no span has it.                      *)
LEMMA NoDevice ==
  ASSUME Typed, Spans, \A s \in Slots : s = j => boards[s] = "null"
  PROVE  \A c \in Channels : chan[c] # device(j)
<1>1. ASSUME NEW c \in Channels, chan[c] = device(j) PROVE FALSE
  <2>1. chan[c].kind = "dev" /\ chan[c].no = j
    BY <1>1, OwnerKinds DEF Typed
  <2>2. j \in Slots /\ boards[j] \in {"rsrvd", "dev"}
    BY <2>1 DEF Spans
  <2>3. QED BY <2>2
<1>2. QED BY <1>1

LEMMA NoDummy ==
  ASSUME Typed, Spans, pc \in {"dummy", "check"} \/ pc \notin Loop \union {"rsv_finish", "oops"}
  PROVE  \A c \in Channels : chan[c] # dummy(i)
<1>1. ASSUME NEW c \in Channels, chan[c] = dummy(i) PROVE FALSE
  <2>1. chan[c].kind = "dummy" /\ chan[c].no = i /\ i \in Nat
    BY <1>1, OwnerKinds DEF Typed
  <2>2. QED BY <2>1 DEF Spans
<1>2. QED BY <1>1

-----------------------------------------------------------------------------
(***************************************************************************)
(* The steps before the loop.                                              *)
(***************************************************************************)
LEMMA LoadInit == Init => LoadInv
<1> SUFFICES ASSUME Init PROVE LoadInv
  OBVIOUS
<1>1. rsvserials \in Seq(Entry)
  <2>1. PICK n \in 0 .. MaxEntries : rsvserials \in [1 .. n -> Entry]
    BY DEF Init
  <2>2. MaxEntries \in Nat
    BY LoadConstants
  <2>3. n \in Nat
    BY <2>2
  <2> HIDE DEF Entry
  <2>4. QED BY <2>1, <2>3
<1>2. \A c \in Channels : chan[c] = Free /\ ~ours(Free) /\ chan[c].kind = "free"
  BY DEF Init, Free, ours
<1>3. \A s \in Slots : boards[s] = "null"
  BY DEF Init
<1>4. Typed
  <2>1. chan \in [Channels -> {Free, Other} \union [kind : {"dummy", "dev"}, no : Nat]]
    BY DEF Init
  <2>2. MaxBoards \in Nat /\ 0 \in 0 .. MaxBoards
    BY LoadConstants
  <2>3. <<>> \in Seq([serial : Serials, channo : Nat \ {0}])
    OBVIOUS
  <2>4. boards \in [Slots -> {"null", "marked", "dev", "rsrvd"}]
    BY DEF Init
  <2>5. QED BY <1>1, <2>1, <2>2, <2>3, <2>4 DEF Init, Typed
<1>5. Table
  BY <1>1 DEF Init, Table, Loop
<1>6. Making
  BY <1>3 DEF Init, Making, Slots, Loop
<1>7. Spans
  BY <1>2 DEF Init, Spans, Loop
<1>8. Rounds
  BY DEF Init, Rounds, Loop
<1>9. Alone
  BY <1>2, OwnerKinds DEF Init, Alone, Loop
<1>10. QED BY <1>4, <1>5, <1>6, <1>7, <1>8, <1>9 DEF LoadInv

(* Nothing but the place and the outcome changes.                          *)
LEMMA StepFailed ==
  ASSUME LoadInv, pc \in Loop \union {"count", "alloc"}, retval = "ok",
         pc' = "rsv_finish", retval' \in {"EINVAL", "ENOMEM", "EBUSY", "register"},
         UNCHANGED <<rsvserials, comma, rsvsn2chan, numdummies, i, j, chan, others>>,
         oob' \in BOOLEAN, oob => oob', others = 0 => ~oob',
         \/ boards' = boards
         \/ pc = "mark" /\ boards' = [boards EXCEPT ![j] = "marked"]
  PROVE  LoadInv'
<1> USE DEF LoadInv
<1>1. \A s \in Slots : boards'[s] = boards[s] \/ (s = j /\ pc = "mark" /\ boards[s] = "null")
  BY DEF Typed, Making
<1>2. boards' \in [Slots -> {"null", "marked", "dev", "rsrvd"}]
  BY DEF Typed
<1>3. Typed'
  BY <1>2 DEF Typed
<1>4. Table'
  BY DEF Table, Loop
<1>5. Making'
  <2>1. \A s \in Slots : s < j => boards'[s] = "rsrvd"
    BY <1>1 DEF Making, Loop, Slots
  <2>2. \A s \in Slots : s > j => boards'[s] = "null"
    BY <1>1 DEF Making, Typed, Slots
  <2>3. QED BY <2>1, <2>2 DEF Making, Loop
<1>6. Spans'
  <2>1. \A c \in Channels : chan[c].kind = "dummy" => pc \in Loop /\ chan[c].no < numdummies
    BY DEF Spans, Loop
  <2>2. \A c \in Channels : chan[c].kind = "dev" =>
          chan[c].no \in Slots /\ boards'[chan[c].no] \in {"rsrvd", "dev"}
    BY <1>1 DEF Spans
  <2>3. QED BY <2>1, <2>2 DEF Spans, Loop
<1>7. Rounds'
  BY DEF Rounds, Loop
<1>8. Alone'
  BY DEF Alone, Loop
<1>9. QED BY <1>3, <1>4, <1>5, <1>6, <1>7, <1>8

LEMMA StepInit == ASSUME LoadInv, oufxs_init PROVE LoadInv'
<1> USE DEF LoadInv, oufxs_init, rsvVars
<1>1. Typed'
  BY DEF Typed
<1>2. Table' /\ Making'
  BY DEF Table, Making, Loop
<1>3. Spans'
  BY DEF Spans, Loop
<1>4. Rounds'
  BY DEF Rounds, Loop
<1>5. Alone'
  BY DEF Alone, Loop
<1>6. QED BY <1>1, <1>2, <1>3, <1>4, <1>5

LEMMA StepCount == ASSUME LoadInv, count PROVE LoadInv'
<1> USE DEF LoadInv, count, paramVars, rsvVars
<1>1. retval = "ok" /\ rsvsn2chan = <<>> /\ i = 0 /\ j = 0
  BY DEF Making, Table
<1>2. CASE pc' = "rsv_finish"
  <2>1. /\ pc = "count" /\ retval' \in {"EINVAL", "ENOMEM"}
        /\ UNCHANGED <<rsvserials, comma, rsvsn2chan, numdummies, i, j, chan, others, boards, oob>>
    BY <1>2 DEF fail
  <2>2. oob' \in BOOLEAN /\ (others = 0 => ~oob')
    BY <2>1 DEF Typed, Alone
  <2>3. QED BY <1>1, <1>2, <2>1, <2>2, StepFailed
<1>3. CASE pc' # "rsv_finish"
  <2>1. /\ pc = "count" /\ retval' = "ok"
        /\ (pc' = "usb" /\ rsvserials = <<>>) \/ (pc' = "parse" /\ rsvserials # <<>>)
        /\ UNCHANGED <<rsvserials, comma, rsvsn2chan, numdummies, i, j, chan, others, boards, oob>>
    BY <1>1, <1>3 DEF fail
  <2>2. Typed'
    BY <2>1 DEF Typed
  <2>3. Len(rsvsn2chan) = 0 /\ Len(rsvserials) \in Nat /\ (rsvserials # <<>> => Len(rsvserials) > 0)
          /\ (rsvserials = <<>> => Len(rsvserials) = 0)
    BY <1>1 DEF Typed
  <2>4. Table'
    BY <1>1, <2>1, <2>3 DEF Table, Loop
  <2>5. Making'
    BY <1>1, <2>1 DEF Making, Loop
  <2>6. Spans'
    BY <2>1 DEF Spans, Loop
  <2>7. Rounds'
    BY <1>1, <2>1, <2>3 DEF Rounds, Found, Loop
  <2>8. Alone'
    BY <1>1, <2>1 DEF Alone, Loop
  <2>9. QED BY <2>2, <2>4, <2>5, <2>6, <2>7, <2>8
<1>4. QED BY <1>2, <1>3

LEMMA StepAlloc == ASSUME LoadInv, alloc PROVE LoadInv'
<1> USE DEF LoadInv, alloc, paramVars, rsvVars
<1>1. retval = "ok" /\ i = 0 /\ j = 0
  BY DEF Making
<1>2. CASE pc' = "rsv_finish"
  <2>1. /\ pc = "alloc" /\ retval' = "ENOMEM"
        /\ UNCHANGED <<rsvserials, comma, rsvsn2chan, numdummies, i, j, chan, others, boards, oob>>
    BY <1>2 DEF fail
  <2>2. oob' \in BOOLEAN /\ (others = 0 => ~oob')
    BY <2>1 DEF Typed, Alone
  <2>3. QED BY <1>1, <1>2, <2>1, <2>2, StepFailed
<1>3. CASE pc' # "rsv_finish"
  <2>1. /\ pc = "alloc" /\ retval' = "ok" /\ pc' = "dummy"
        /\ UNCHANGED <<rsvserials, comma, rsvsn2chan, numdummies, i, j, chan, others, boards, oob>>
    BY <1>1, <1>3 DEF fail
  <2>2. Typed'
    BY <2>1 DEF Typed, Loop
  <2>3. Table'
    BY <2>1 DEF Table, Loop
  <2>4. Making'
    BY <1>1, <2>1 DEF Making, Loop, Typed
  <2>5. \A c \in Channels : ~ours(chan[c])
    <3>1. ASSUME NEW c \in Channels, ours(chan[c]) PROVE FALSE
      <4>1. chan[c].kind = "dev"
        BY <2>1, <3>1 DEF Spans, Loop, ours
      <4>2. chan[c].no \in Slots /\ boards[chan[c].no] \in {"rsrvd", "dev"}
        BY <4>1 DEF Spans
      <4>3. \A s \in Slots : boards[s] = "null"
        BY <1>1, <2>1 DEF Making, Slots
      <4>4. QED BY <4>2, <4>3
    <3>2. QED BY <3>1
  <2>6. Spans'
    BY <2>1, <2>5 DEF Spans, Loop, ours
  <2>7. Settled' = {}
    BY <2>1, <2>5 DEF Settled
  <2>8. Rounds'
    BY <1>1, <2>1, <2>7, FS_EmptySet DEF Rounds, Found, Loop
  <2>9. Alone'
    BY <1>1, <2>1, <2>7 DEF Alone, Loop
  <2>10. QED BY <2>2, <2>3, <2>4, <2>6, <2>8, <2>9
<1>4. QED BY <1>2, <1>3

LEMMA StepParse == ASSUME LoadInv, parse PROVE LoadInv'
<1> USE DEF LoadInv, parse, paramVars
<1> DEFINE L == Len(rsvsn2chan)
           e == rsvserials[L + 1]
           new == [serial |-> e.serial, channo |-> e.channo]
<1>1. pc = "parse" /\ retval = "ok" /\ i = 0 /\ j = 0 /\ L < Len(rsvserials) /\ L \in Nat
      /\ UNCHANGED <<rsvserials, comma, i, j, chan, others, boards, oob>>
  BY DEF Making, Table, Typed
<1>2. e \in Entry /\ numdummies \in Nat
  BY <1>1 DEF Typed
<1>3. rsvsn2chan \in Seq([serial : Serials, channo : Nat \ {0}])
  BY DEF Typed
<1>4. \/ /\ UNCHANGED <<rsvsn2chan, numdummies>>
         /\ pc' = "rsv_finish" /\ retval' = "EINVAL"
      \/ /\ wellformed(e) /\ rsvsn2chan' = Append(rsvsn2chan, new) /\ numdummies' = e.channo
         /\ \/ pc' = "parse" /\ retval' = "ok" /\ L + 1 < Len(rsvserials)
            \/ pc' = "alloc" /\ retval' = "ok" /\ L + 1 = Len(rsvserials)
            \/ pc' = "rsv_finish" /\ retval' = "EINVAL"
  <2>1. \/ ~wellformed(e) /\ fail("EINVAL") /\ UNCHANGED <<rsvsn2chan, numdummies>>
        \/ /\ wellformed(e)
           /\ rsvsn2chan' = Append(rsvsn2chan, new)
           /\ numdummies' = e.channo
           /\ IF L + 1 < Len(rsvserials) THEN pc' = "parse" /\ UNCHANGED retval
              ELSE IF comma THEN fail("EINVAL")
              ELSE pc' = "alloc" /\ UNCHANGED retval
    OBVIOUS
  <2>2. ~(L + 1 < Len(rsvserials)) => L + 1 = Len(rsvserials)
    BY <1>1 DEF Typed
  <2> HIDE DEF L, e, new
  <2>3. QED BY <1>1, <2>1, <2>2 DEF fail
<1>5. wellformed(e) =>
        /\ e.channo \in Nat \ {0} /\ e.channo > numdummies
        /\ \A k \in 1 .. L : rsvsn2chan[k].serial # e.serial
  <2>1. Numbers \subseteq Int
    BY LoadConstants
  <2>2. e.channo \in Int
    BY <1>2, <2>1 DEF Entry
  <2> HIDE DEF e
  <2>3. QED BY <2>2 DEF wellformed
<1>6. \A k \in 1 .. L : rsvsn2chan[k] \in [serial : Serials, channo : Nat \ {0}]
  <2> DEFINE Rows == [serial : Serials, channo : Nat \ {0}]
  <2>1. rsvsn2chan \in Seq(Rows)
    BY <1>3
  <2> HIDE DEF Rows
  <2>2. \A k \in 1 .. Len(rsvsn2chan) : rsvsn2chan[k] \in Rows
    BY <2>1
  <2>3. QED BY <2>2 DEF Rows
<1>7. \A k \in 1 .. L : rsvsn2chan[k].channo \in Nat
  BY <1>6
<1> HIDE DEF e
<1>8. CASE UNCHANGED <<rsvsn2chan, numdummies>> /\ pc' = "rsv_finish" /\ retval' = "EINVAL"
  <2>1. Typed'
    BY <1>1, <1>8 DEF Typed
  <2>2. Table' /\ Making'
    BY <1>1, <1>8 DEF Table, Making, Loop
  <2>3. Spans'
    BY <1>1, <1>8 DEF Spans, Loop
  <2>4. Rounds' /\ Alone'
    BY <1>1, <1>8 DEF Rounds, Alone, Loop
  <2>5. QED BY <2>1, <2>2, <2>3, <2>4
<1>9. CASE /\ wellformed(e) /\ rsvsn2chan' = Append(rsvsn2chan, new) /\ numdummies' = e.channo
           /\ \/ pc' = "parse" /\ retval' = "ok" /\ L + 1 < Len(rsvserials)
              \/ pc' = "alloc" /\ retval' = "ok" /\ L + 1 = Len(rsvserials)
              \/ pc' = "rsv_finish" /\ retval' = "EINVAL"
  <2>1. new \in [serial : Serials, channo : Nat \ {0}]
    BY <1>2, <1>5, <1>9 DEF Entry
  <2>2. PICK w : w = new
    OBVIOUS
  <2>3. /\ rsvsn2chan' \in Seq([serial : Serials, channo : Nat \ {0}])
        /\ Len(rsvsn2chan') = L + 1 /\ rsvsn2chan'[L + 1] = w
        /\ \A k \in 1 .. L : rsvsn2chan'[k] = rsvsn2chan[k]
    <3>1. rsvsn2chan' = Append(rsvsn2chan, w) /\ w \in [serial : Serials, channo : Nat \ {0}]
      BY <1>9, <2>1, <2>2
    <3>2. QED BY <1>3, <3>1
  <2>4. w.serial = e.serial /\ w.channo = e.channo
    BY <2>2
  <2>5. Typed'
    BY <1>1, <1>5, <1>9, <2>3 DEF Typed, Loop
  <2>6. \A k \in 1 .. L + 1 : k \in 1 .. L \/ k = L + 1
    BY <1>1
  <2>7. \A k \in 1 .. L : rsvsn2chan[k].channo < e.channo /\ rsvsn2chan[k].serial # e.serial
    <3>1. \A k \in 1 .. L : rsvsn2chan[k].channo <= numdummies /\ rsvsn2chan[k].channo \in Nat
      BY <1>1, <1>7 DEF Table
    <3>2. QED BY <1>2, <1>5, <1>9, <3>1
  <2>8. Table'
    <3>1. L + 1 <= Len(rsvserials)
      BY <1>1 DEF Typed
    <3>2. \A k \in 1 .. L + 1 : rsvsn2chan'[k].serial = rsvserials[k].serial
                                /\ rsvsn2chan'[k].channo = rsvserials[k].channo
      BY <2>3, <2>4, <2>6 DEF Table, e
    <3>3. \A k, l \in 1 .. L + 1 : k < l =>
            /\ rsvsn2chan'[k].serial # rsvsn2chan'[l].serial
            /\ rsvsn2chan'[k].channo < rsvsn2chan'[l].channo
      <4>1. ASSUME NEW k \in 1 .. L + 1, NEW l \in 1 .. L + 1, k < l
            PROVE  /\ rsvsn2chan'[k].serial # rsvsn2chan'[l].serial
                   /\ rsvsn2chan'[k].channo < rsvsn2chan'[l].channo
        <5>1. k \in 1 .. L
          BY <1>1, <4>1
        <5>2. CASE l = L + 1
          BY <2>3, <2>4, <2>7, <5>1, <5>2
        <5>3. CASE l \in 1 .. L
          BY <2>3, <4>1, <5>1, <5>3 DEF Table
        <5>4. QED BY <2>6, <5>2, <5>3
      <4>2. QED BY <4>1
    <3>4. \A k \in 1 .. L + 1 : rsvsn2chan'[k].channo <= e.channo
      <4>1. \A k \in 1 .. L : rsvsn2chan[k].channo \in Nat
        BY <1>7
      <4>2. e.channo \in Nat
        BY <1>5, <1>9
      <4>3. ASSUME NEW k \in 1 .. L
            PROVE  rsvsn2chan'[k].channo <= e.channo
        <5>1. rsvsn2chan'[k].channo = rsvsn2chan[k].channo
          BY <2>3
        <5>2. rsvsn2chan[k].channo < e.channo
          BY <2>7
        <5>3. QED BY <4>1, <4>2, <5>1, <5>2
      <4>4. rsvsn2chan'[L + 1].channo <= e.channo
        BY <2>3, <2>4, <4>2
      <4>5. QED BY <2>6, <4>3, <4>4
    <3>5. rsvsn2chan' # <<>>
      BY <1>1, <2>3
    <3>6. rsvserials' = rsvserials /\ numdummies' = e.channo
      BY <1>1, <1>9
    <3>7. QED BY <1>1, <1>9, <2>3, <2>4, <3>1, <3>2, <3>3, <3>4, <3>5, <3>6 DEF Table, Loop
  <2>9. Making'
    BY <1>1, <1>9 DEF Making, Loop
  <2>10. Spans'
    BY <1>1, <1>9 DEF Spans, Loop
  <2>11. Rounds'
    BY <1>1, <1>9, <2>3 DEF Rounds, Loop
  <2>12. Alone'
    BY <1>1, <1>9 DEF Alone, Loop
  <2>13. QED BY <2>5, <2>8, <2>9, <2>10, <2>11, <2>12
<1>10. QED BY <1>4, <1>8, <1>9


-----------------------------------------------------------------------------
(***************************************************************************)
(* The loop.                                                               *)
(***************************************************************************)
LEMMA Rows ==
  ASSUME Typed, Table
  PROVE  /\ Len(rsvsn2chan) \in Nat
         /\ \A k \in 1 .. Len(rsvsn2chan) : rsvsn2chan[k].channo \in Nat \ {0}
         /\ pc \in Loop =>
              /\ Len(rsvsn2chan) > 0 /\ Len(rsvsn2chan) = Len(rsvserials)
              /\ numdummies = rsvsn2chan[Len(rsvsn2chan)].channo
              /\ \A k \in 1 .. Len(rsvsn2chan) : rsvsn2chan[k].channo <= numdummies
<1> DEFINE Row == [serial : Serials, channo : Nat \ {0}]
<1>1. rsvsn2chan \in Seq(Row)
  BY DEF Typed
<1>2. \A r \in Row : r.channo \in Nat \ {0}
  OBVIOUS
<1> HIDE DEF Row
<1>3. Len(rsvsn2chan) \in Nat /\ (rsvsn2chan # <<>> => Len(rsvsn2chan) > 0)
  BY <1>1
<1>4. \A k \in 1 .. Len(rsvsn2chan) : rsvsn2chan[k] \in Row
  BY <1>1
<1>5. \A k \in 1 .. Len(rsvsn2chan) : rsvsn2chan[k].channo \in Nat \ {0}
  BY <1>2, <1>4
<1>6. ASSUME pc \in Loop
      PROVE  /\ Len(rsvsn2chan) > 0 /\ Len(rsvsn2chan) = Len(rsvserials)
             /\ numdummies = rsvsn2chan[Len(rsvsn2chan)].channo
  BY <1>3, <1>6 DEF Table
<1>7. ASSUME pc \in Loop, NEW k \in 1 .. Len(rsvsn2chan)
      PROVE  rsvsn2chan[k].channo <= numdummies
  <2>1. Len(rsvsn2chan) \in 1 .. Len(rsvsn2chan)
    BY <1>3, <1>6, <1>7
  <2>2. CASE k = Len(rsvsn2chan)
    BY <1>5, <1>6, <1>7, <2>2
  <2>3. CASE k < Len(rsvsn2chan)
    <3>1. rsvsn2chan[k].channo < rsvsn2chan[Len(rsvsn2chan)].channo
      BY <2>1, <2>3 DEF Table
    <3>2. QED BY <1>5, <1>6, <1>7, <2>1, <3>1
  <2>4. QED BY <1>3, <2>2, <2>3
<1>8. QED BY <1>3, <1>5, <1>6, <1>7

(* A channel goes to the owner that this round is about.                   *)
LEMMA Given ==
  ASSUME Typed, free # {}, NEW owner \in {dummy(i), device(j)},
         chan' = [chan EXCEPT ![Min(free)] = owner], i' = i, j' = j,
         rsvsn2chan' = rsvsn2chan, \A c \in Channels : chan[c] # owner
  PROVE  /\ chan' \in [Channels -> Owner]
         /\ Min(free) \in Channels /\ chan'[Min(free)] = owner
         /\ \A c \in Channels : c # Min(free) => chan'[c] = chan[c]
         /\ Settled' = Settled
         /\ Found => Found'
         /\ (\A c, d \in Channels : ours(chan[c]) /\ chan[c] = chan[d] => c = d)
              => \A c, d \in Channels : ours(chan'[c]) /\ chan'[c] = chan'[d] => c = d
<1> DEFINE m == Min(free)
<1>1. m \in Channels /\ chan[m] = Free
  BY LowestFree
<1> HIDE DEF m
<1>2. i \in Nat /\ j \in Nat
  BY LoadConstants DEF Typed
<1>3. owner \in Owner /\ ours(owner)
  BY <1>2, OwnerKinds
<1>4. chan \in [Channels -> Owner]
  BY DEF Typed, Owner
<1>5. chan' = [chan EXCEPT ![m] = owner]
  BY DEF m
<1>6. chan' \in [Channels -> Owner]
  BY <1>1, <1>3, <1>4, <1>5
<1>7. chan'[m] = owner /\ \A c \in Channels : c # m => chan'[c] = chan[c]
  BY <1>1, <1>4, <1>5
<1>8. Settled' = Settled
  <2>1. ASSUME NEW c \in Channels
        PROVE  /\ ours(chan'[c]) /\ chan'[c] # dummy(i) /\ chan'[c] # device(j)
                    <=> ours(chan[c]) /\ chan[c] # dummy(i) /\ chan[c] # device(j)
    <3>1. CASE c = m
      BY <1>1, <1>7, <3>1, OwnerKinds
    <3>2. CASE c # m
      BY <1>7, <3>2
    <3>3. QED BY <3>1, <3>2
  <2>2. QED BY <2>1 DEF Settled
<1>9. Found => Found'
  <2>1. ASSUME Found, NEW s \in 0 .. j - 1
        PROVE  /\ rsvsn2chan[s + 1].channo \in Channels
               /\ chan'[rsvsn2chan[s + 1].channo] = device(s)
    <3>1. /\ rsvsn2chan[s + 1].channo \in Channels
          /\ chan[rsvsn2chan[s + 1].channo] = device(s)
      BY <2>1 DEF Found
    <3>2. s \in Nat
      BY <1>2
    <3>3. rsvsn2chan[s + 1].channo # m
      BY <1>1, <3>1, <3>2, OwnerKinds
    <3>4. QED BY <1>7, <3>1, <3>3
  <2>2. QED BY <2>1 DEF Found
<1>10. (\A c, d \in Channels : ours(chan[c]) /\ chan[c] = chan[d] => c = d)
          => \A c, d \in Channels : ours(chan'[c]) /\ chan'[c] = chan'[d] => c = d
  <2>1. ASSUME \A c, d \in Channels : ours(chan[c]) /\ chan[c] = chan[d] => c = d,
               NEW c \in Channels, NEW d \in Channels, ours(chan'[c]), chan'[c] = chan'[d]
        PROVE  c = d
    <3>1. CASE c = m \/ d = m
      BY <1>7, <2>1, <3>1
    <3>2. CASE c # m /\ d # m
      BY <1>7, <2>1, <3>2
    <3>3. QED BY <3>1, <3>2
  <2>2. QED BY <2>1
<1>11. QED BY <1>1, <1>6, <1>7, <1>8, <1>9, <1>10 DEF m

(* Were a channel still to be found when the loop is over, each round would*)
(* have one below it, and there are not as many.                           *)
LEMMA LoopEnd ==
  ASSUME Typed, Table, Rounds, pc = "dummy", i = numdummies, ~oob
  PROVE  j = Len(rsvsn2chan)
<1>1. /\ j \in Nat /\ i \in Nat /\ Len(rsvsn2chan) \in Nat /\ j <= Len(rsvsn2chan)
      /\ IsFiniteSet(Settled) /\ Cardinality(Settled) = i
  BY Rows, LoadConstants DEF Typed, Rounds, Loop
<1>2. ASSUME j < Len(rsvsn2chan) PROVE FALSE
  <2>1. PICK t : t = rsvsn2chan[j + 1].channo
    OBVIOUS
  <2>2. j + 1 \in 1 .. Len(rsvsn2chan)
    BY <1>1, <1>2
  <2>3. t \in Nat \ {0} /\ t <= i
    BY <2>1, <2>2, Rows DEF Loop
  <2>4. \A c \in Settled : c < t
    BY <1>2, <2>1 DEF Rounds, Loop
  <2>5. Settled \subseteq 1 .. t - 1
    <3>1. ASSUME NEW c \in Settled PROVE c \in 1 .. t - 1
      <4>1. c \in Nat \ {0} /\ c < t
        BY <2>4, ChannelFacts DEF Settled
      <4>2. QED BY <2>3, <4>1
    <3>2. QED BY <3>1
  <2>6. IsFiniteSet(1 .. t - 1) /\ Cardinality(1 .. t - 1) = t - 1
    <3>1. 1 \in Int /\ t - 1 \in Int
      BY <2>3
    <3>2. IsFiniteSet(1 .. t - 1)
          /\ Cardinality(1 .. t - 1) = IF 1 > t - 1 THEN 0 ELSE (t - 1) - 1 + 1
      BY <3>1, FS_Interval
    <3>3. QED BY <2>3, <3>2
  <2>7. Cardinality(Settled) <= t - 1
    BY <2>5, <2>6, FS_Subset
  <2>8. QED BY <1>1, <2>3, <2>7
<1>3. QED BY <1>1, <1>2

LEMMA StepRegisterDummy == ASSUME LoadInv, register_dummy PROVE LoadInv'
<1> USE DEF LoadInv, register_dummy, paramVars, rsvVars
<1>1. /\ pc = "dummy" /\ retval = "ok" /\ i <= numdummies /\ i \in Nat /\ numdummies \in Nat
      /\ UNCHANGED <<rsvserials, comma, rsvsn2chan, numdummies, i, j, others, boards, oob>>
  BY DEF Making, Typed, Loop
<1>2. \/ i < numdummies /\ fail("register") /\ UNCHANGED chan
      \/ /\ i < numdummies /\ free # {} /\ chan' = [chan EXCEPT ![Min(free)] = dummy(i)]
         /\ pc' = "compare" /\ retval' = retval
      \/ ~(i < numdummies) /\ pc' = "rsv_finish" /\ UNCHANGED <<retval, chan>>
  BY DEF dahdi_register
<1>3. CASE i < numdummies /\ fail("register") /\ UNCHANGED chan
  <2>1. oob' \in BOOLEAN /\ (others = 0 => ~oob')
    BY <1>1 DEF Typed, Alone
  <2>2. pc' = "rsv_finish" /\ retval' = "register"
    BY <1>3 DEF fail
  <2>3. pc \in Loop
    BY <1>1 DEF Loop
  <2>4. QED BY <1>1, <1>3, <2>1, <2>2, <2>3, StepFailed
<1>4. CASE /\ i < numdummies /\ free # {} /\ chan' = [chan EXCEPT ![Min(free)] = dummy(i)]
           /\ pc' = "compare" /\ retval' = retval
  <2>1. \A c \in Channels : chan[c] # dummy(i)
    BY <1>1, NoDummy
  <2>2. PICK m : m = Min(free)
    OBVIOUS
  <2>3. /\ chan' \in [Channels -> Owner]
        /\ m \in Channels /\ chan'[m] = dummy(i)
        /\ \A c \in Channels : c # m => chan'[c] = chan[c]
        /\ Settled' = Settled
        /\ Found => Found'
        /\ (\A c, d \in Channels : ours(chan[c]) /\ chan[c] = chan[d] => c = d)
             => \A c, d \in Channels : ours(chan'[c]) /\ chan'[c] = chan'[d] => c = d
    <3>1. dummy(i) \in {dummy(i), device(j)}
      OBVIOUS
    <3>2. QED BY <1>1, <1>4, <2>1, <2>2, <3>1, Given
  <2>4. Typed'
    BY <1>1, <1>4, <2>3 DEF Typed, Loop, Owner
  <2>5. Table'
    BY <1>1, <1>4 DEF Table, Loop
  <2>6. Making'
    BY <1>1, <1>4 DEF Making, Loop
  <2>7. Spans'
    <3>1. dummy(i).kind = "dummy" /\ dummy(i).no = i
      BY <1>1, OwnerKinds
    <3>2. \A c \in Channels : chan'[c].kind = "dummy" => chan'[c].no <= i
      BY <1>1, <2>3, <3>1 DEF Spans, Loop
    <3>3. \A c \in Channels : chan'[c].kind = "dummy" => chan'[c].no < numdummies
      BY <1>4, <2>3, <3>1 DEF Spans
    <3>4. \A c \in Channels : chan'[c].kind = "dev" =>
            chan'[c].no \in Slots /\ boards[chan'[c].no] \in {"rsrvd", "dev"}
      BY <2>3, <3>1 DEF Spans
    <3>5. \E c \in Channels : chan'[c] = dummy(i)
      BY <2>3
    <3>6. \A c, d \in Channels : ours(chan'[c]) /\ chan'[c] = chan'[d] => c = d
      BY <2>3 DEF Spans
    <3>7. QED BY <1>1, <1>4, <3>2, <3>3, <3>4, <3>5, <3>6 DEF Spans, Loop
  <2>8. Rounds'
    BY <1>1, <1>4, <2>3 DEF Rounds, Loop
  <2>9. Alone'
    <3>1. CASE others = 0
      <4>1. ~oob /\ (\A c \in Channels : chan[c] # Other) /\ Settled = 1 .. i
        BY <1>1, <3>1 DEF Alone, Loop
      <4>2. \A c \in Channels : chan[c] # device(j)
        BY <1>1, NoDevice DEF Making
      <4>3. m = i + 1 /\ i + 1 \in Channels
        BY <1>4, <2>1, <2>2, <4>1, <4>2, NextChannel
      <4>4. \A c \in Channels : chan'[c] # Other
        BY <1>1, <2>3, <4>1, OwnerKinds
      <4>5. QED BY <1>1, <1>4, <2>3, <4>1, <4>3, <4>4 DEF Alone, Loop
    <3>2. CASE others # 0
      BY <1>1, <3>2 DEF Alone
    <3>3. QED BY <3>1, <3>2
  <2>10. QED BY <2>4, <2>5, <2>6, <2>7, <2>8, <2>9
<1>5. CASE ~(i < numdummies) /\ pc' = "rsv_finish" /\ UNCHANGED <<retval, chan>>
  <2>1. ~oob => j = Len(rsvsn2chan)
    BY <1>1, <1>5, LoopEnd
  <2>2. Typed'
    BY <1>1, <1>5 DEF Typed, Loop
  <2>3. Table'
    BY <1>1, <1>5 DEF Table, Loop
  <2>4. Making'
    BY <1>1, <1>5 DEF Making, Loop
  <2>5. Spans'
    BY <1>1, <1>5 DEF Spans, Loop
  <2>6. Rounds'
    BY <1>1, <1>5, <2>1 DEF Rounds, Found, Loop
  <2>7. Alone'
    BY <1>1, <1>5 DEF Alone, Loop
  <2>8. QED BY <2>2, <2>3, <2>4, <2>5, <2>6, <2>7
<1>6. QED BY <1>2, <1>3, <1>4, <1>5

(* The table is read behind its end only if another driver is in the way:  *)
(* all reserved channels but the last have been found by then, and the last*)
(* dummy has the last of them.                                             *)
LEMMA NotPast ==
  ASSUME LoadInv, pc = "compare", others = 0
  PROVE  ~past
<1> USE DEF LoadInv
<1>1. /\ j \in Nat /\ i \in Nat /\ numdummies \in Nat /\ Len(rsvsn2chan) \in Nat
      /\ i < numdummies /\ ~oob /\ Settled = 1 .. i
  BY Rows, LoadConstants DEF Typed, Making, Alone, Loop
<1>2. j <= Len(rsvsn2chan) /\ Found
  BY <1>1 DEF Rounds, Loop
<1>3. ASSUME past PROVE FALSE
  <2>1. j = Len(rsvsn2chan)
    BY <1>1, <1>2, <1>3 DEF past
  <2>2. j > 0 /\ numdummies = rsvsn2chan[j].channo
    BY <2>1, Rows DEF Loop
  <2>3. PICK s \in 0 .. j - 1 : s + 1 = j
    BY <1>1, <2>2
  <2>4. numdummies \in Channels /\ chan[numdummies] = device(s)
    BY <1>2, <2>2, <2>3 DEF Found
  <2>5. s \in Nat /\ s # j
    BY <1>1, <2>3
  <2>6. chan[numdummies] # device(j)
    BY <1>1, <2>4, <2>5, OwnerKinds
  <2>7. chan[numdummies] # dummy(i) /\ ours(chan[numdummies])
    BY <1>1, <2>4, <2>5, OwnerKinds
  <2>8. numdummies \in Settled
    BY <2>4, <2>6, <2>7 DEF Settled
  <2>9. QED BY <1>1, <2>8
<1>4. QED BY <1>3

(* The span of a round is settled when the round is over.                  *)
LEMMA RoundOver ==
  ASSUME LoadInv, pc \in {"compare", "check"}, NEW got \in Channels,
         chan[got] = IF pc = "compare" THEN dummy(i) ELSE device(j),
         chan' = chan, i' = i + 1, j' = j \/ j' = j + 1,
         pc = "check" <=> j' = j + 1
  PROVE  /\ Settled' = Settled \union {got} /\ got \notin Settled
         /\ (IsFiniteSet(Settled) /\ Cardinality(Settled) = i
               => IsFiniteSet(Settled') /\ Cardinality(Settled') = i + 1)
<1> USE DEF LoadInv
<1>1. i \in Nat /\ j \in Nat /\ chan \in [Channels -> Owner]
  BY LoadConstants DEF Typed, Owner
<1>2. ours(chan[got]) /\ (chan[got] = dummy(i) \/ chan[got] = device(j))
  BY <1>1, OwnerKinds
<1>3. got \notin Settled
  BY <1>2 DEF Settled
<1>4. \A c \in Channels : ours(chan[c]) /\ chan[c] = chan[got] => c = got
  BY DEF Spans
<1>5. \A c \in Channels : chan[c] # dummy(i + 1)
  <2>1. ASSUME NEW c \in Channels, chan[c] = dummy(i + 1) PROVE FALSE
    <3>1. chan[c].kind = "dummy" /\ chan[c].no = i + 1
      BY <1>1, <2>1, OwnerKinds
    <3>2. chan[c].no <= i
      BY <1>1, <3>1 DEF Spans, Loop
    <3>3. QED BY <1>1, <3>1, <3>2
  <2>2. QED BY <2>1
<1>6. \A c \in Channels : chan[c] # device(j + 1)
  <2>1. ASSUME NEW c \in Channels, chan[c] = device(j + 1) PROVE FALSE
    <3>1. chan[c].kind = "dev" /\ chan[c].no = j + 1
      BY <1>1, <2>1, OwnerKinds
    <3>2. j + 1 \in Slots /\ boards[j + 1] \in {"rsrvd", "dev"}
      BY <3>1 DEF Spans
    <3>3. boards[j + 1] = "null"
      BY <1>1, <3>2 DEF Making
    <3>4. QED BY <3>2, <3>3
  <2>2. QED BY <2>1
<1>7. CASE pc = "compare"
  <2>1. j' = j /\ chan[got] = dummy(i)
    BY <1>1, <1>7
  <2>2. \A c \in Channels : chan[c] # device(j)
    BY <1>7, NoDevice DEF Making
  <2>3. \A c \in Channels : ours(chan[c]) /\ chan[c] # dummy(i + 1) /\ chan[c] # device(j')
          <=> (ours(chan[c]) /\ chan[c] # dummy(i) /\ chan[c] # device(j)) \/ c = got
    BY <1>2, <1>4, <1>5, <2>1, <2>2
  <2>4. Settled' = Settled \union {got}
    BY <2>3 DEF Settled
  <2>5. QED BY <1>1, <1>3, <2>4, FS_AddElement
<1>8. CASE pc = "check"
  <2>1. j' = j + 1 /\ chan[got] = device(j)
    BY <1>8
  <2>2. \A c \in Channels : chan[c] # dummy(i)
    BY <1>8, NoDummy
  <2>3. \A c \in Channels : ours(chan[c]) /\ chan[c] # dummy(i + 1) /\ chan[c] # device(j + 1)
          <=> (ours(chan[c]) /\ chan[c] # dummy(i) /\ chan[c] # device(j)) \/ c = got
    BY <1>2, <1>4, <1>5, <1>6, <2>1, <2>2
  <2>4. Settled' = Settled \union {got}
    BY <2>1, <2>3 DEF Settled
  <2>5. QED BY <1>1, <1>3, <2>4, FS_AddElement
<1>9. QED BY <1>7, <1>8

LEMMA StepCompare == ASSUME LoadInv, compare PROVE LoadInv'
<1> USE DEF LoadInv
<1> DEFINE got == channo(dummy(i))
<1>1. /\ pc = "compare" /\ retval = "ok" /\ i < numdummies /\ i \in Nat /\ numdummies \in Nat
      /\ oob' = (oob \/ past) /\ j \in Nat
      /\ UNCHANGED <<rsvserials, comma, rsvsn2chan, numdummies, j, chan, boards, others>>
  BY LoadConstants DEF compare, paramVars, Making, Typed, Loop
<1>2. got \in Channels /\ chan[got] = dummy(i)
  BY <1>1, ChannelOf DEF Spans
<1>3. PICK result \in compared(got) :
       \/ result = "equal" /\ j < MaxBoards /\ pc' = "mark" /\ UNCHANGED <<retval, i>>
       \/ result = "above" /\ fail("EBUSY") /\ UNCHANGED i
       \/ result = "below" /\ pc' = "dummy" /\ i' = i + 1 /\ UNCHANGED retval
  BY DEF compare
<1> HIDE DEF got
<1>4. oob' \in BOOLEAN /\ (others = 0 => ~oob') /\ (~oob' => ~oob /\ ~past)
  BY <1>1, NotPast DEF Typed, Alone
<1>5. ~past => j < Len(rsvsn2chan)
  BY <1>1, Rows DEF past
<1>6. CASE result = "equal" /\ j < MaxBoards /\ pc' = "mark" /\ UNCHANGED <<retval, i>>
  <2>1. Typed'
    BY <1>1, <1>4, <1>6 DEF Typed, Loop
  <2>2. Table'
    BY <1>1, <1>6 DEF Table, Loop
  <2>3. Making'
    BY <1>1, <1>6 DEF Making, Loop
  <2>4. Spans'
    BY <1>1, <1>6 DEF Spans, Loop
  <2>5. Rounds'
    <3>1. Settled' = Settled
      BY <1>1, <1>6 DEF Settled
    <3>2. Found => Found'
      BY <1>1 DEF Found
    <3>3. QED BY <1>1, <1>4, <1>5, <1>6, <3>1, <3>2 DEF Rounds, Loop
  <2>6. Alone'
    <3>1. Settled' = Settled
      BY <1>1, <1>6 DEF Settled
    <3>2. QED BY <1>1, <1>4, <1>6, <3>1 DEF Alone, Loop
  <2>7. QED BY <2>1, <2>2, <2>3, <2>4, <2>5, <2>6
<1>7. CASE result = "above" /\ fail("EBUSY") /\ UNCHANGED i
  <2>1. pc' = "rsv_finish" /\ retval' = "EBUSY" /\ i' = i /\ pc \in Loop
    BY <1>1, <1>7 DEF fail, Loop
  <2>2. QED BY <1>1, <1>4, <2>1, StepFailed
<1>8. CASE result = "below" /\ pc' = "dummy" /\ i' = i + 1 /\ UNCHANGED retval
  <2>1. ~past => got < rsvsn2chan[j + 1].channo
    BY <1>3, <1>8 DEF compared
  <2>2. /\ Settled' = Settled \union {got}
        /\ (IsFiniteSet(Settled) /\ Cardinality(Settled) = i
             => IsFiniteSet(Settled') /\ Cardinality(Settled') = i + 1)
    BY <1>1, <1>2, <1>8, RoundOver
  <2>3. Typed'
    BY <1>1, <1>4, <1>8 DEF Typed, Loop
  <2>4. Table'
    BY <1>1, <1>8 DEF Table, Loop
  <2>5. Making'
    BY <1>1, <1>8 DEF Making, Loop
  <2>6. Spans'
    <3>1. \A c \in Channels : chan[c].kind = "dummy" => chan[c].no < i + 1 /\ chan[c].no <= i + 1
      <4>1. ASSUME NEW c \in Channels, chan[c].kind = "dummy"
            PROVE  chan[c].no < i + 1 /\ chan[c].no <= i + 1
        <5>1. chan[c].no <= i /\ chan[c].no \in Nat
          BY <1>1, <4>1, OwnerKinds DEF Spans, Typed, Loop, Owner
        <5>2. QED BY <1>1, <5>1
      <4>2. QED BY <4>1
    <3>2. QED BY <1>1, <1>8, <3>1 DEF Spans, Loop
  <2>7. Rounds'
    <3>1. Found => Found'
      BY <1>1 DEF Found
    <3>2. ~oob' => \A c \in Settled' : c < rsvsn2chan[j + 1].channo
      BY <1>1, <1>4, <1>5, <2>1, <2>2 DEF Rounds, Loop
    <3>3. QED BY <1>1, <1>4, <1>5, <1>8, <2>2, <3>1, <3>2 DEF Rounds, Loop
  <2>8. Alone'
    <3>1. CASE others = 0
      <4>1. Settled = 1 .. i /\ i + 1 \in Channels /\ chan[i + 1] = dummy(i)
        BY <1>1, <3>1 DEF Alone, Loop
      <4>2. got = i + 1
        BY <1>1, <1>2, <4>1, OwnerKinds DEF Spans
      <4>3. Settled' = 1 .. i + 1
        BY <1>1, <2>2, <4>1, <4>2
      <4>4. QED BY <1>1, <1>4, <1>8, <3>1, <4>3 DEF Alone, Loop
    <3>2. CASE others # 0
      BY <1>1, <3>2 DEF Alone
    <3>3. QED BY <3>1, <3>2
  <2>9. QED BY <2>3, <2>4, <2>5, <2>6, <2>7, <2>8
<1>9. QED BY <1>3, <1>6, <1>7, <1>8

LEMMA StepMark == ASSUME LoadInv, mark PROVE LoadInv'
<1> USE DEF LoadInv
<1>1. /\ pc = "mark" /\ retval = "ok" /\ i < numdummies /\ i \in Nat /\ j \in Slots
      /\ UNCHANGED <<rsvserials, comma, rsvsn2chan, numdummies, i, j, chan, others, oob>>
  BY LoadConstants DEF mark, paramVars, rsvVars, Making, Typed, Loop, Slots
<1>2. \/ boards' = [boards EXCEPT ![j] = "dev"] /\ pc' = "reregister" /\ UNCHANGED retval
      \/ boards' = [boards EXCEPT ![j] = "marked"] /\ fail("ENOMEM")
      \/ boards' = [boards EXCEPT ![j] = "dev"] /\ pc' = "oops" /\ UNCHANGED retval
  BY DEF mark
<1>3. CASE boards' = [boards EXCEPT ![j] = "dev"] /\ pc' \in {"reregister", "oops"} /\ UNCHANGED retval
  <2>1. /\ boards' \in [Slots -> {"null", "marked", "dev", "rsrvd"}]
        /\ boards[j] = "null" /\ boards'[j] = "dev"
        /\ \A s \in Slots : s # j => boards'[s] = boards[s]
    BY <1>1, <1>3 DEF Typed, Making
  <2>2. Typed'
    BY <1>1, <1>3, <2>1 DEF Typed, Loop
  <2>3. Table'
    BY <1>1, <1>3 DEF Table, Loop
  <2>4. Making'
    <3>1. j < MaxBoards /\ j \in Nat /\ Slots \subseteq Nat
      BY <1>1, LoadConstants DEF Slots
    <3>2. \A s \in Slots : (s < j => boards'[s] = "rsrvd") /\ (s > j => boards'[s] = "null")
      BY <1>1, <2>1, <3>1 DEF Making
    <3>3. QED BY <1>1, <1>3, <2>1, <3>1, <3>2 DEF Making, Loop
  <2>5. Spans'
    <3>1. \A c \in Channels : chan[c].kind = "dev" =>
            chan[c].no \in Slots /\ boards'[chan[c].no] \in {"rsrvd", "dev"} /\ chan[c].no # j
      BY <2>1 DEF Spans
    <3>2. QED BY <1>1, <1>3, <3>1 DEF Spans, Loop
  <2>6. Settled' = Settled /\ (Found => Found')
    BY <1>1 DEF Settled, Found
  <2>7. Rounds'
    BY <1>1, <1>3, <2>6 DEF Rounds, Loop
  <2>8. Alone'
    BY <1>1, <1>3, <2>6 DEF Alone, Loop
  <2>9. QED BY <2>2, <2>3, <2>4, <2>5, <2>7, <2>8
<1>4. CASE boards' = [boards EXCEPT ![j] = "marked"] /\ fail("ENOMEM")
  <2>1. pc' = "rsv_finish" /\ retval' = "ENOMEM" /\ pc \in Loop
    BY <1>1, <1>4 DEF fail, Loop
  <2>2. oob' \in BOOLEAN /\ (oob => oob') /\ (others = 0 => ~oob')
    BY <1>1 DEF Typed, Alone
  <2>3. QED BY <1>1, <1>4, <2>1, <2>2, StepFailed
<1>5. QED BY <1>2, <1>3, <1>4

LEMMA StepUnregisterDummy == ASSUME LoadInv, unregister_dummy PROVE LoadInv'
<1> USE DEF LoadInv
<1> DEFINE got == channo(dummy(i))
<1>1. /\ pc = "reregister" /\ pc' = pc /\ i \in Nat /\ j \in Nat
      /\ UNCHANGED <<rsvserials, comma, retval, rsvsn2chan, numdummies, i, j, others, oob, boards>>
  BY LoadConstants DEF unregister_dummy, paramVars, rsvVars, Typed
<1>2. got \in Channels /\ chan[got] = dummy(i)
  BY ChannelOf DEF unregister_dummy
<1>3. chan' = [chan EXCEPT ![got] = Free]
  BY DEF unregister_dummy
<1> HIDE DEF got
<1>4. chan \in [Channels -> Owner]
  BY DEF Typed, Owner
<1>5. /\ chan' \in [Channels -> Owner] /\ chan'[got] = Free
      /\ \A c \in Channels : c # got => chan'[c] = chan[c]
  BY <1>2, <1>3, <1>4, OwnerKinds
<1>6. ~ours(Free) /\ Free.kind = "free" /\ Free # Other
  BY OwnerKinds DEF Free
<1>7. Settled' = Settled
  BY <1>1, <1>2, <1>5, <1>6 DEF Settled
<1>8. Found => Found'
  <2>1. ASSUME Found, NEW s \in 0 .. j - 1
        PROVE  /\ rsvsn2chan[s + 1].channo \in Channels
               /\ chan'[rsvsn2chan[s + 1].channo] = device(s)
    <3>1. /\ rsvsn2chan[s + 1].channo \in Channels
          /\ chan[rsvsn2chan[s + 1].channo] = device(s)
      BY <2>1 DEF Found
    <3>2. s \in Nat
      BY <1>1
    <3>3. rsvsn2chan[s + 1].channo # got
      BY <1>1, <1>2, <3>1, <3>2, OwnerKinds
    <3>4. QED BY <1>5, <3>1, <3>3
  <2>2. QED BY <1>1, <2>1 DEF Found
<1>9. Typed'
  BY <1>1, <1>5 DEF Typed, Owner
<1>10. Table' /\ Making'
  BY <1>1 DEF Table, Making
<1>11. Spans'
  <2>1. \A c, d \in Channels : ours(chan'[c]) /\ chan'[c] = chan'[d] => c = d
    BY <1>5, <1>6 DEF Spans
  <2>2. \A c \in Channels :
          /\ chan'[c].kind = "dummy" => chan'[c].no < numdummies /\ chan'[c].no <= i
          /\ chan'[c].kind = "dev" =>
               chan'[c].no \in Slots /\ boards[chan'[c].no] \in {"rsrvd", "dev"} /\ chan'[c].no # j
    BY <1>1, <1>5, <1>6 DEF Spans, Loop
  <2>3. QED BY <1>1, <2>1, <2>2 DEF Spans, Loop
<1>12. Rounds'
  BY <1>1, <1>7, <1>8 DEF Rounds, Loop
<1>13. Alone'
  BY <1>1, <1>5, <1>6, <1>7 DEF Alone, Loop
<1>14. QED BY <1>9, <1>10, <1>11, <1>12, <1>13

LEMMA StepRegisterDev == ASSUME LoadInv, register_dev PROVE LoadInv'
<1> USE DEF LoadInv
<1>1. /\ pc = "reregister" /\ retval = "ok" /\ i < numdummies /\ i \in Nat /\ numdummies \in Nat
      /\ j \in Nat /\ j \in Slots
      /\ UNCHANGED <<rsvserials, comma, rsvsn2chan, numdummies, i, j, others, boards, oob>>
  BY LoadConstants DEF register_dev, paramVars, rsvVars, Making, Typed, Loop, Slots
<1>2. \/ fail("register") /\ UNCHANGED chan
      \/ /\ free # {} /\ chan' = [chan EXCEPT ![Min(free)] = device(j)]
         /\ pc' = "check" /\ retval' = retval
  BY DEF register_dev, dahdi_register
<1>3. CASE fail("register") /\ UNCHANGED chan
  <2>1. oob' \in BOOLEAN /\ (others = 0 => ~oob')
    BY <1>1 DEF Typed, Alone
  <2>2. pc' = "rsv_finish" /\ retval' = "register" /\ pc \in Loop
    BY <1>1, <1>3 DEF fail, Loop
  <2>3. QED BY <1>1, <1>3, <2>1, <2>2, StepFailed
<1>4. CASE /\ free # {} /\ chan' = [chan EXCEPT ![Min(free)] = device(j)]
           /\ pc' = "check" /\ retval' = retval
  <2>1. \A c \in Channels : chan[c] # dummy(i)
    BY DEF register_dev
  <2>2. \A c \in Channels : chan[c] # device(j)
    <3>1. ASSUME NEW c \in Channels, chan[c] = device(j) PROVE FALSE
      <4>1. chan[c].kind = "dev" /\ chan[c].no = j
        BY <1>1, <3>1, OwnerKinds
      <4>2. QED BY <1>1, <4>1 DEF Spans
    <3>2. QED BY <3>1
  <2>3. PICK m : m = Min(free)
    OBVIOUS
  <2>4. /\ chan' \in [Channels -> Owner]
        /\ m \in Channels /\ chan'[m] = device(j)
        /\ \A c \in Channels : c # m => chan'[c] = chan[c]
        /\ Settled' = Settled
        /\ Found => Found'
        /\ (\A c, d \in Channels : ours(chan[c]) /\ chan[c] = chan[d] => c = d)
             => \A c, d \in Channels : ours(chan'[c]) /\ chan'[c] = chan'[d] => c = d
    <3>1. device(j) \in {dummy(i), device(j)}
      OBVIOUS
    <3>2. QED BY <1>1, <1>4, <2>2, <2>3, <3>1, Given
  <2>5. Typed'
    BY <1>1, <1>4, <2>4 DEF Typed, Loop, Owner
  <2>6. Table'
    BY <1>1, <1>4 DEF Table, Loop
  <2>7. Making'
    BY <1>1, <1>4 DEF Making, Loop
  <2>8. Spans'
    <3>1. device(j).kind = "dev" /\ device(j).no = j /\ boards[j] = "dev"
      BY <1>1, OwnerKinds DEF Making
    <3>2. \A c \in Channels : chan'[c].kind = "dummy" =>
            chan'[c].no < numdummies /\ chan'[c].no <= i /\ chan'[c].no < i
      <4>1. ASSUME NEW c \in Channels, chan'[c].kind = "dummy"
            PROVE  chan'[c].no < numdummies /\ chan'[c].no <= i /\ chan'[c].no < i
        <5>1. c # m /\ chan'[c] = chan[c]
          BY <2>4, <3>1, <4>1
        <5>2. chan[c].no <= i /\ chan[c].no < numdummies
          BY <1>1, <4>1, <5>1 DEF Spans, Loop
        <5>3. chan[c] = dummy(chan[c].no) /\ chan[c].no \in Nat
          BY <4>1, <5>1, OwnerKinds DEF Typed, Owner
        <5>4. chan[c].no # i
          BY <2>1, <5>3
        <5>5. QED BY <1>1, <5>1, <5>2, <5>3, <5>4
      <4>2. QED BY <4>1
    <3>3. \A c \in Channels : chan'[c].kind = "dev" =>
            chan'[c].no \in Slots /\ boards[chan'[c].no] \in {"rsrvd", "dev"}
      BY <1>1, <2>4, <3>1 DEF Spans
    <3>4. \A c, d \in Channels : ours(chan'[c]) /\ chan'[c] = chan'[d] => c = d
      BY <2>4 DEF Spans
    <3>5. QED BY <1>1, <1>4, <2>4, <3>2, <3>3, <3>4 DEF Spans, Loop
  <2>9. Rounds'
    BY <1>1, <1>4, <2>4 DEF Rounds, Loop
  <2>10. Alone'
    <3>1. CASE others = 0
      <4>1. ~oob /\ (\A c \in Channels : chan[c] # Other) /\ Settled = 1 .. i
        BY <1>1, <3>1 DEF Alone, Loop
      <4>2. m = i + 1 /\ i + 1 \in Channels
        BY <1>4, <2>1, <2>2, <2>3, <4>1, NextChannel
      <4>3. \A c \in Channels : chan'[c] # Other
        BY <1>1, <2>4, <4>1, OwnerKinds
      <4>4. QED BY <1>1, <1>4, <2>4, <4>1, <4>2, <4>3 DEF Alone, Loop
    <3>2. CASE others # 0
      BY <1>1, <3>2 DEF Alone
    <3>3. QED BY <3>1, <3>2
  <2>11. QED BY <2>5, <2>6, <2>7, <2>8, <2>9, <2>10
<1>5. QED BY <1>2, <1>3, <1>4

LEMMA StepCheckDev == ASSUME LoadInv, check_dev PROVE LoadInv'
<1> USE DEF LoadInv
<1> DEFINE got == channo(device(j))
<1>1. /\ pc = "check" /\ retval = "ok" /\ i < numdummies /\ i \in Nat /\ numdummies \in Nat
      /\ j \in Nat /\ j \in Slots /\ j < MaxBoards
      /\ UNCHANGED <<rsvserials, comma, rsvsn2chan, numdummies, chan, others, oob>>
  BY LoadConstants DEF check_dev, paramVars, Making, Typed, Loop, Slots
<1>2. got \in Channels /\ chan[got] = device(j)
  BY <1>1, ChannelOf DEF Spans
<1>3. PICK result \in compared(got) :
       \/ /\ result = "equal" /\ boards' = [boards EXCEPT ![j] = "rsrvd"]
          /\ i' = i + 1 /\ j' = j + 1 /\ pc' = "dummy" /\ retval' = retval
       \/ fail("EBUSY") /\ UNCHANGED <<boards, i, j>>
  BY DEF check_dev
<1> HIDE DEF got
<1>4. CASE fail("EBUSY") /\ UNCHANGED <<boards, i, j>>
  <2>1. oob' \in BOOLEAN /\ (others = 0 => ~oob')
    BY <1>1 DEF Typed, Alone
  <2>2. pc' = "rsv_finish" /\ retval' = "EBUSY" /\ pc \in Loop
    BY <1>1, <1>4 DEF fail, Loop
  <2>3. QED BY <1>1, <1>4, <2>1, <2>2, StepFailed
<1>5. CASE /\ result = "equal" /\ boards' = [boards EXCEPT ![j] = "rsrvd"]
           /\ i' = i + 1 /\ j' = j + 1 /\ pc' = "dummy" /\ retval' = retval
  <2>1. /\ boards' \in [Slots -> {"null", "marked", "dev", "rsrvd"}]
        /\ boards[j] = "dev" /\ boards'[j] = "rsrvd"
        /\ \A s \in Slots : s # j => boards'[s] = boards[s]
    BY <1>1, <1>5 DEF Typed, Making
  <2>2. ~oob => j < Len(rsvsn2chan) /\ got = rsvsn2chan[j + 1].channo
    <3>1. ~oob => j < Len(rsvsn2chan)
      BY <1>1 DEF Rounds
    <3>2. j < Len(rsvsn2chan) => ~past
      BY <1>1, Rows DEF past
    <3>3. ~past => got = rsvsn2chan[j + 1].channo
      BY <1>3, <1>5 DEF compared
    <3>4. QED BY <3>1, <3>2, <3>3
  <2>3. /\ Settled' = Settled \union {got}
        /\ (IsFiniteSet(Settled) /\ Cardinality(Settled) = i
             => IsFiniteSet(Settled') /\ Cardinality(Settled') = i + 1)
    BY <1>1, <1>2, <1>5, RoundOver
  <2>4. Typed'
    <3>1. j + 1 \in 0 .. MaxBoards /\ i + 1 \in Nat
      BY <1>1, LoadConstants
    <3>2. QED BY <1>1, <1>5, <2>1, <3>1 DEF Typed, Loop
  <2>5. Table'
    BY <1>1, <1>5 DEF Table, Loop
  <2>6. Making'
    <3>1. \A s \in Slots : /\ s < j + 1 => boards'[s] = "rsrvd"
                           /\ s > j + 1 => boards'[s] = "null"
                           /\ s = j + 1 => boards'[s] = "null"
      <4>1. ASSUME NEW s \in Slots
            PROVE  /\ s < j + 1 => boards'[s] = "rsrvd"
                   /\ s > j + 1 => boards'[s] = "null"
                   /\ s = j + 1 => boards'[s] = "null"
        <5>1. s \in Nat /\ j \in Nat
          BY <1>1 DEF Slots
        <5>2. (s < j => boards[s] = "rsrvd") /\ (s > j => boards[s] = "null")
          BY <1>1, <4>1 DEF Making
        <5>3. s < j \/ s = j \/ s > j
          BY <5>1
        <5>4. QED BY <2>1, <5>1, <5>2, <5>3
      <4>2. QED BY <4>1
    <3>2. i + 1 <= numdummies
      BY <1>1
    <3>3. QED BY <1>1, <1>5, <3>1, <3>2 DEF Making, Loop
  <2>7. Spans'
    <3>1. \A c \in Channels : chan[c].kind = "dummy" => chan[c].no < i + 1 /\ chan[c].no <= i + 1
      <4>1. ASSUME NEW c \in Channels, chan[c].kind = "dummy"
            PROVE  chan[c].no < i + 1 /\ chan[c].no <= i + 1
        <5>1. chan[c].no <= i /\ chan[c].no \in Nat
          BY <1>1, <4>1, OwnerKinds DEF Spans, Typed, Loop, Owner
        <5>2. QED BY <1>1, <5>1
      <4>2. QED BY <4>1
    <3>2. \A c \in Channels : chan[c].kind = "dev" =>
            chan[c].no \in Slots /\ boards'[chan[c].no] \in {"rsrvd", "dev"}
      BY <2>1 DEF Spans
    <3>3. QED BY <1>1, <1>5, <3>1, <3>2 DEF Spans, Loop
  <2>8. Found /\ ~oob => Found'
    <3>1. ASSUME Found, ~oob, NEW s \in 0 .. (j + 1) - 1
          PROVE  /\ rsvsn2chan[s + 1].channo \in Channels
                 /\ chan[rsvsn2chan[s + 1].channo] = device(s)
      <4>1. s = j \/ s \in 0 .. j - 1
        BY <1>1
      <4>2. CASE s = j
        BY <1>2, <2>2, <3>1, <4>2
      <4>3. CASE s \in 0 .. j - 1
        BY <3>1, <4>3 DEF Found
      <4>4. QED BY <4>1, <4>2, <4>3
    <3>2. QED BY <1>1, <1>5, <3>1 DEF Found
  <2>9. Rounds'
    <3>1. ASSUME ~oob, j + 1 < Len(rsvsn2chan), NEW c \in Settled'
          PROVE  c < rsvsn2chan[j + 1 + 1].channo
      <4>1. Len(rsvsn2chan) \in Nat /\ j + 1 \in 1 .. Len(rsvsn2chan)
            /\ j + 1 + 1 \in 1 .. Len(rsvsn2chan)
        BY <1>1, <3>1, Rows
      <4>2. /\ rsvsn2chan[j + 1].channo \in Nat /\ rsvsn2chan[j + 1 + 1].channo \in Nat
        BY <4>1, Rows
      <4>3. j + 1 < j + 1 + 1
        BY <1>1
      <4>4. rsvsn2chan[j + 1].channo < rsvsn2chan[j + 1 + 1].channo
        BY <4>1, <4>3 DEF Table
      <4>5. c \in Settled => c < rsvsn2chan[j + 1].channo /\ c \in Nat
        BY <1>1, <2>2, <3>1, ChannelFacts DEF Rounds, Loop, Settled
      <4>6. c \in Settled \/ c = rsvsn2chan[j + 1].channo
        BY <2>2, <2>3, <3>1
      <4>7. QED BY <4>2, <4>4, <4>5, <4>6
    <3>2. ~oob => /\ j + 1 <= Len(rsvsn2chan) /\ Found'
                  /\ IsFiniteSet(Settled') /\ Cardinality(Settled') = i + 1
      BY <1>1, <2>2, <2>3, <2>8, Rows DEF Rounds, Loop
    <3>3. QED BY <1>1, <1>5, <3>1, <3>2 DEF Rounds, Loop
  <2>10. Alone'
    <3>1. CASE others = 0
      <4>1. /\ Settled = 1 .. i /\ i + 1 \in Channels /\ chan[i + 1] = device(j) /\ ~oob
            /\ \A c \in Channels : chan[c] # Other
        BY <1>1, <3>1 DEF Alone, Loop
      <4>2. got = i + 1
        BY <1>1, <1>2, <4>1, OwnerKinds DEF Spans
      <4>3. Settled' = 1 .. i + 1
        BY <1>1, <2>3, <4>1, <4>2
      <4>4. QED BY <1>1, <1>5, <3>1, <4>1, <4>3 DEF Alone, Loop
    <3>2. CASE others # 0
      BY <1>1, <3>2 DEF Alone
    <3>3. QED BY <3>1, <3>2
  <2>11. QED BY <2>4, <2>5, <2>6, <2>7, <2>9, <2>10
<1>6. QED BY <1>3, <1>4, <1>5

-----------------------------------------------------------------------------
(***************************************************************************)
(* After the loop, and other drivers.                                      *)
(***************************************************************************)
LEMMA Released ==
  ASSUME Typed, NEW owners, chan' = release(owners)
  PROVE  /\ chan' \in [Channels -> Owner]
         /\ \A c \in Channels : chan'[c] = IF chan[c] \in owners THEN Free ELSE chan[c]
         /\ (\A c, d \in Channels : ours(chan[c]) /\ chan[c] = chan[d] => c = d)
              => \A c, d \in Channels : ours(chan'[c]) /\ chan'[c] = chan'[d] => c = d
<1>1. \A c \in Channels : chan'[c] = IF chan[c] \in owners THEN Free ELSE chan[c]
  BY DEF release
<1>2. chan' \in [Channels -> Owner]
  BY OwnerKinds DEF release, Typed, Owner
<1>3. ~ours(Free)
  BY OwnerKinds
<1>4. QED BY <1>1, <1>2, <1>3

LEMMA StepFinish == ASSUME LoadInv, rsv_finish PROVE LoadInv'
<1> USE DEF LoadInv
<1>1. /\ pc = "rsv_finish" /\ numdummies' = 0 /\ i \in Nat /\ j \in Nat /\ numdummies \in Nat
      /\ UNCHANGED <<rsvserials, comma, retval, rsvsn2chan, i, j, others, oob>>
  BY LoadConstants DEF rsv_finish, paramVars, Typed
<1>2. \A c \in Channels : chan[c].kind = "dummy" => chan[c] \in dummies
  <2>1. ASSUME NEW c \in Channels, chan[c].kind = "dummy" PROVE chan[c] \in dummies
    <3>1. chan[c] = dummy(chan[c].no) /\ chan[c].no \in Nat
      BY <2>1, OwnerKinds DEF Typed, Owner
    <3>2. chan[c].no < numdummies
      BY <2>1 DEF Spans
    <3>3. chan[c].no \in 0 .. numdummies - 1
      BY <1>1, <3>1, <3>2
    <3>4. QED BY <3>1, <3>3 DEF dummies
  <2>2. QED BY <2>1
<1>3. Free.kind = "free" /\ Free # Other
  BY DEF Free, Other
<1>4. \A s \in Nat : device(s) \notin dummies
  BY <1>1, OwnerKinds DEF dummies
<1>5. CASE retval = "ok"
  <2>1. pc' = "usb" /\ chan' = release(dummies) /\ boards' = boards
    BY <1>5 DEF rsv_finish
  <2>2. /\ chan' \in [Channels -> Owner]
        /\ \A c \in Channels : chan'[c] = IF chan[c] \in dummies THEN Free ELSE chan[c]
        /\ \A c, d \in Channels : ours(chan'[c]) /\ chan'[c] = chan'[d] => c = d
    BY <2>1, Released DEF Spans
  <2>3. Typed'
    BY <1>1, <2>1, <2>2 DEF Typed, Loop, Owner
  <2>4. Table'
    BY <1>1, <1>5, <2>1 DEF Table, Loop
  <2>5. Making'
    BY <1>1, <1>5, <2>1 DEF Making, Loop
  <2>6. Spans'
    <3>1. \A c \in Channels : chan'[c].kind # "dummy"
      BY <1>2, <1>3, <2>2
    <3>2. \A c \in Channels : chan'[c].kind = "dev" =>
            chan'[c].no \in Slots /\ boards[chan'[c].no] \in {"rsrvd", "dev"}
      BY <1>3, <2>2 DEF Spans
    <3>3. QED BY <1>1, <2>1, <2>2, <3>1, <3>2 DEF Spans, Loop
  <2>7. Rounds'
    <3>1. Found => Found'
      <4>1. ASSUME Found, NEW s \in 0 .. j - 1
            PROVE  /\ rsvsn2chan[s + 1].channo \in Channels
                   /\ chan'[rsvsn2chan[s + 1].channo] = device(s)
        <5>1. /\ rsvsn2chan[s + 1].channo \in Channels
              /\ chan[rsvsn2chan[s + 1].channo] = device(s)
          BY <4>1 DEF Found
        <5>2. s \in Nat
          BY <1>1
        <5>3. QED BY <1>4, <2>2, <5>1, <5>2
      <4>2. QED BY <1>1, <4>1 DEF Found
    <3>2. QED BY <1>1, <1>5, <2>1, <3>1 DEF Rounds, Loop
  <2>8. Alone'
    BY <1>1, <1>3, <2>1, <2>2 DEF Alone, Loop
  <2>9. QED BY <2>3, <2>4, <2>5, <2>6, <2>7, <2>8
<1>6. CASE retval # "ok"
  <2>1. /\ pc' = IF "marked" \in {boards[s] : s \in Slots} THEN "oops" ELSE "failed"
        /\ chan' = release(dummies \union {device(s) : s \in rsrvd})
        /\ boards' = [s \in Slots |-> IF s \in rsrvd THEN "null" ELSE boards[s]]
    BY <1>6 DEF rsv_finish
  <2>2. /\ chan' \in [Channels -> Owner]
        /\ \A c \in Channels :
             chan'[c] = IF chan[c] \in dummies \union {device(s) : s \in rsrvd}
                          THEN Free ELSE chan[c]
        /\ \A c, d \in Channels : ours(chan'[c]) /\ chan'[c] = chan'[d] => c = d
    BY <2>1, Released DEF Spans
  <2>3. /\ boards' \in [Slots -> {"null", "marked", "dev", "rsrvd"}]
        /\ \A s \in Slots : boards'[s] = IF boards[s] = "rsrvd" THEN "null" ELSE boards[s]
    BY <2>1 DEF Typed, rsrvd
  <2>4. pc' \in {"failed", "oops"} /\ (pc' = "failed" => \A s \in Slots : boards[s] # "marked")
    BY <2>1
  <2>5. Typed'
    BY <1>1, <2>2, <2>3, <2>4 DEF Typed, Loop, Owner
  <2>6. Table'
    BY <1>1, <1>6, <2>4 DEF Table, Loop
  <2>7. Making'
    <3>1. \A s \in Slots : pc' = "failed" => boards'[s] \in {"null", "dev"}
      BY <2>3, <2>4 DEF Typed
    <3>2. \A s \in Slots : s > j => boards'[s] = "null"
      BY <2>3 DEF Making
    <3>3. QED BY <1>1, <1>6, <2>4, <3>1, <3>2 DEF Making, Loop
  <2>8. Spans'
    <3>1. \A c \in Channels : chan'[c].kind # "dummy"
      BY <1>2, <1>3, <2>2
    <3>2. \A c \in Channels : chan'[c].kind = "dev" =>
            chan'[c].no \in Slots /\ boards'[chan'[c].no] \in {"rsrvd", "dev"}
      <4>1. ASSUME NEW c \in Channels, chan'[c].kind = "dev"
            PROVE  chan'[c].no \in Slots /\ boards'[chan'[c].no] \in {"rsrvd", "dev"}
        <5>1. chan'[c] = chan[c] /\ chan[c] \notin {device(s) : s \in rsrvd}
          BY <1>3, <2>2, <4>1
        <5>2. chan[c].no \in Slots /\ boards[chan[c].no] \in {"rsrvd", "dev"}
          BY <4>1, <5>1 DEF Spans
        <5>3. chan[c] = device(chan[c].no)
          BY <4>1, <5>1, OwnerKinds DEF Typed, Owner
        <5>4. chan[c].no \notin rsrvd
          BY <5>1, <5>3
        <5>5. boards[chan[c].no] = "dev"
          BY <5>2, <5>4 DEF rsrvd
        <5>6. QED BY <2>3, <5>1, <5>2, <5>5
      <4>2. QED BY <4>1
    <3>3. QED BY <1>1, <2>2, <2>4, <3>1, <3>2 DEF Spans, Loop
  <2>9. Rounds'
    BY <1>1, <1>6, <2>4 DEF Rounds, Loop
  <2>10. Alone'
    BY <1>1, <1>3, <2>2, <2>4 DEF Alone, Loop
  <2>11. QED BY <2>5, <2>6, <2>7, <2>8, <2>9, <2>10
<1>7. QED BY <1>5, <1>6

LEMMA StepUsbRegister == ASSUME LoadInv, usb_register PROVE LoadInv'
<1> USE DEF LoadInv
<1>1. /\ pc = "usb" /\ retval = "ok"
      /\ UNCHANGED <<rsvserials, comma, rsvsn2chan, numdummies, i, j, chan, others, boards, oob>>
      /\ (pc' = "loaded" /\ retval' = "ok") \/ (pc' = "failed" /\ retval' = "usb")
  BY DEF usb_register, paramVars, rsvVars, Making
<1>2. Typed'
  BY <1>1 DEF Typed
<1>3. Table'
  BY <1>1 DEF Table, Loop
<1>4. Making'
  BY <1>1 DEF Making, Loop
<1>5. Spans'
  BY <1>1 DEF Spans, Loop
<1>6. Rounds' /\ Alone'
  BY <1>1 DEF Rounds, Found, Alone, Loop
<1>7. QED BY <1>2, <1>3, <1>4, <1>5, <1>6

LEMMA StepExit == ASSUME LoadInv, oufxs_exit PROVE LoadInv'
<1> USE DEF LoadInv
<1>1. /\ pc = "loaded" /\ retval = "ok" /\ pc' = "unloaded" /\ j \in Nat
      /\ UNCHANGED <<rsvserials, comma, retval, rsvsn2chan, numdummies, i, j, others, oob>>
      /\ chan' = release({device(s) : s \in rsrvd})
      /\ boards' = [s \in Slots |-> IF s \in rsrvd THEN "null" ELSE boards[s]]
  BY LoadConstants DEF oufxs_exit, paramVars, rsvVars, Making, Typed
<1>2. /\ chan' \in [Channels -> Owner]
      /\ \A c \in Channels :
           chan'[c] = IF chan[c] \in {device(s) : s \in rsrvd} THEN Free ELSE chan[c]
      /\ \A c, d \in Channels : ours(chan'[c]) /\ chan'[c] = chan'[d] => c = d
  BY <1>1, Released DEF Spans
<1>3. \A s \in Slots : boards[s] \in {"rsrvd", "null"}
  <2>1. ASSUME NEW s \in Slots PROVE boards[s] \in {"rsrvd", "null"}
    <3>1. s \in Nat
      BY DEF Slots
    <3>2. s < j \/ s = j \/ s > j
      BY <1>1, <3>1
    <3>3. QED BY <1>1, <3>2 DEF Making
  <2>2. QED BY <2>1
<1>4. boards' \in [Slots -> {"null", "marked", "dev", "rsrvd"}] /\ \A s \in Slots : boards'[s] = "null"
  BY <1>1, <1>3 DEF rsrvd
<1>5. Free.kind = "free" /\ Free # Other
  BY DEF Free, Other
<1>6. \A c \in Channels : chan'[c].kind # "dummy" /\ chan'[c].kind # "dev" /\ (chan'[c] = Free \/ chan'[c] = chan[c])
  <2>1. ASSUME NEW c \in Channels
        PROVE  chan'[c].kind # "dummy" /\ chan'[c].kind # "dev" /\ (chan'[c] = Free \/ chan'[c] = chan[c])
    <3>1. chan[c].kind # "dummy"
      BY <1>1 DEF Spans, Loop
    <3>2. ASSUME chan[c].kind = "dev" PROVE chan[c] \in {device(s) : s \in rsrvd}
      <4>1. chan[c].no \in Slots /\ boards[chan[c].no] = "rsrvd"
        BY <1>3, <3>2 DEF Spans
      <4>2. chan[c] = device(chan[c].no)
        BY <3>2, OwnerKinds DEF Typed, Owner
      <4>3. QED BY <4>1, <4>2 DEF rsrvd
    <3>3. QED BY <1>2, <1>5, <3>1, <3>2
  <2>2. QED BY <2>1
<1>7. Typed'
  BY <1>1, <1>2, <1>4 DEF Typed, Owner
<1>8. Table'
  BY <1>1 DEF Table, Loop
<1>9. Making'
  BY <1>1, <1>4 DEF Making, Loop
<1>10. Spans'
  BY <1>1, <1>2, <1>6 DEF Spans, Loop
<1>11. Rounds'
  BY <1>1 DEF Rounds, Loop
<1>12. Alone'
  BY <1>1, <1>5, <1>6 DEF Alone, Loop
<1>13. QED BY <1>7, <1>8, <1>9, <1>10, <1>11, <1>12

LEMMA StepOther == ASSUME LoadInv, other PROVE LoadInv'
<1> USE DEF LoadInv
<1>1. /\ others' = others + 1 /\ others' # 0 /\ others' \in Nat /\ i \in Nat /\ j \in Nat
      /\ UNCHANGED <<rsvserials, comma, pc, retval, rsvsn2chan, numdummies, i, j, boards, oob>>
  BY LoadConstants DEF other, paramVars, rsvVars, Typed
<1>2. /\ chan' \in [Channels -> Owner]
      /\ \A c \in Channels : \/ chan'[c] = chan[c]
                             \/ /\ chan[c] \in {Free, Other} /\ chan'[c] \in {Free, Other}
  <2>1. chan \in [Channels -> Owner]
    BY DEF Typed, Owner
  <2>2. CASE free # {} /\ chan' = [chan EXCEPT ![Min(free)] = Other]
    <3>1. PICK m \in Channels : m = Min(free) /\ chan[m] = Free
      BY <2>2, LowestFree
    <3>2. chan' = [chan EXCEPT ![m] = Other]
      BY <2>2, <3>1
    <3>3. QED BY <2>1, <3>1, <3>2, OwnerKinds
  <2>3. CASE \E c \in Channels : chan[c] = Other /\ chan' = [chan EXCEPT ![c] = Free]
    BY <2>1, <2>3, OwnerKinds
  <2>4. QED BY <2>2, <2>3 DEF other
<1>3. \A x \in {Free, Other} : ~ours(x) /\ x.kind # "dummy" /\ x.kind # "dev"
                              /\ \A k \in Nat : x # dummy(k) /\ x # device(k)
  BY DEF Free, Other, ours, dummy, device
<1>4. \A c \in Channels : ours(chan[c]) \/ ours(chan'[c]) => chan'[c] = chan[c]
  BY <1>2, <1>3
<1>5. Settled' = Settled
  BY <1>1, <1>4 DEF Settled
<1>6. \A c \in Channels, k \in Nat : (chan[c] = dummy(k) <=> chan'[c] = dummy(k))
                                     /\ (chan[c] = device(k) <=> chan'[c] = device(k))
  BY <1>2, <1>3
<1>7. Found => Found'
  <2>1. ASSUME Found, NEW s \in 0 .. j - 1
        PROVE  /\ rsvsn2chan[s + 1].channo \in Channels
               /\ chan'[rsvsn2chan[s + 1].channo] = device(s)
    <3>1. s \in Nat
      BY <1>1
    <3>2. QED BY <1>6, <2>1, <3>1 DEF Found
  <2>2. QED BY <1>1, <2>1 DEF Found
<1>8. Typed'
  BY <1>1, <1>2 DEF Typed, Owner
<1>9. Table' /\ Making'
  BY <1>1 DEF Table, Making
<1>10. Spans'
  <2>1. \A c, d \in Channels : ours(chan'[c]) /\ chan'[c] = chan'[d] => c = d
    BY <1>4 DEF Spans
  <2>2. \A c \in Channels : chan'[c].kind \in {"dummy", "dev"} => chan'[c] = chan[c]
    BY <1>2, <1>3
  <2>3. pc \in {"compare", "mark"} => \E c \in Channels : chan'[c] = dummy(i)
    BY <1>1, <1>6 DEF Spans
  <2>4. pc = "check" => \E c \in Channels : chan'[c] = device(j)
    BY <1>1, <1>6 DEF Spans
  <2>5. QED BY <1>1, <2>1, <2>2, <2>3, <2>4 DEF Spans
<1>11. Rounds'
  BY <1>1, <1>5, <1>7 DEF Rounds
<1>12. Alone'
  BY <1>1 DEF Alone
<1>13. QED BY <1>8, <1>9, <1>10, <1>11, <1>12

LEMMA StepNone == ASSUME LoadInv, UNCHANGED vars PROVE LoadInv'
<1> USE DEF LoadInv, vars, paramVars, rsvVars
<1>1. Typed' /\ Table' /\ Making'
  BY DEF Typed, Table, Making
<1>2. Spans' /\ Rounds' /\ Alone'
  BY DEF Spans, Rounds, Found, Settled, Alone
<1>3. QED BY <1>1, <1>2

LEMMA Loading == Spec => []LoadInv
<1>1. LoadInv /\ [Next]_vars => LoadInv'
  <2> SUFFICES ASSUME LoadInv, [Next]_vars PROVE LoadInv'
    OBVIOUS
  <2>1. CASE oufxs_init         BY <2>1, StepInit
  <2>2. CASE count              BY <2>2, StepCount
  <2>3. CASE parse              BY <2>3, StepParse
  <2>4. CASE alloc              BY <2>4, StepAlloc
  <2>5. CASE register_dummy     BY <2>5, StepRegisterDummy
  <2>6. CASE compare            BY <2>6, StepCompare
  <2>7. CASE mark               BY <2>7, StepMark
  <2>8. CASE unregister_dummy   BY <2>8, StepUnregisterDummy
  <2>9. CASE register_dev       BY <2>9, StepRegisterDev
  <2>10. CASE check_dev         BY <2>10, StepCheckDev
  <2>11. CASE rsv_finish        BY <2>11, StepFinish
  <2>12. CASE usb_register      BY <2>12, StepUsbRegister
  <2>13. CASE oufxs_exit        BY <2>13, StepExit
  <2>14. CASE other             BY <2>14, StepOther
  <2>15. CASE over \/ UNCHANGED vars
    BY <2>15, StepNone DEF over
  <2>16. QED
    BY <2>1, <2>2, <2>3, <2>4, <2>5, <2>6, <2>7, <2>8, <2>9, <2>10, <2>11, <2>12, <2>13,
       <2>14, <2>15 DEF Next
<1>2. QED BY LoadInit, <1>1, PTL DEF Spec

-----------------------------------------------------------------------------
(***************************************************************************)
(* The parameters.                                                         *)
(***************************************************************************)

(* A power of two is the number of subsets of a set of that many elements; *)
(* one element more and every subset is there with it and without it.      *)
LEMMA PowerZero == 2^0 = 1
<1>1. IsFiniteSet({}) /\ Cardinality({}) = 0
  BY FS_EmptySet
<1>2. SUBSET {} = {{}}
  OBVIOUS
<1>3. Cardinality({{}}) = 1
  BY FS_Singleton
<1>4. Cardinality(SUBSET {}) = 2^Cardinality({})
  BY <1>1, FS_SUBSET
<1>5. QED BY <1>1, <1>2, <1>3, <1>4

LEMMA PowerDoubles ==
  ASSUME NEW k \in Nat
  PROVE  2^k \in Nat /\ 2^(k + 1) = 2 * 2^k
<1> DEFINE A == 1 .. k
           B == 1 .. k + 1
           W == {s \union {k + 1} : s \in SUBSET A}
           f == [s \in SUBSET A |-> s \union {k + 1}]
<1>1. IsFiniteSet(A) /\ Cardinality(A) = k /\ IsFiniteSet(B) /\ Cardinality(B) = k + 1
  <2>1. 1 \in Int /\ k \in Int /\ k + 1 \in Int
    OBVIOUS
  <2>2. IsFiniteSet(1 .. k) /\ Cardinality(1 .. k) = IF 1 > k THEN 0 ELSE k - 1 + 1
    BY <2>1, FS_Interval
  <2>3. IsFiniteSet(1 .. k + 1) /\ Cardinality(1 .. k + 1) = IF 1 > k + 1 THEN 0 ELSE k + 1 - 1 + 1
    BY <2>1, FS_Interval
  <2>4. QED BY <2>2, <2>3
<1>2. k + 1 \notin A /\ A \subseteq B /\ B = A \union {k + 1}
  OBVIOUS
<1> HIDE DEF A, B
<1>3. IsFiniteSet(SUBSET A) /\ Cardinality(SUBSET A) = 2^k
  BY <1>1, FS_SUBSET
<1>4. Cardinality(SUBSET B) = 2^(k + 1)
  BY <1>1, FS_SUBSET
<1>5. ExistsBijection(SUBSET A, W)
  <2>1. f \in [SUBSET A -> W]
    OBVIOUS
  <2>2. \A s, t \in SUBSET A : s \union {k + 1} = t \union {k + 1} => s = t
    BY <1>2, Zenon
  <2>3. \A s, t \in SUBSET A : f[s] = f[t] => s = t
    BY <2>2, Zenon
  <2>4. \A x \in W : \E s \in SUBSET A : f[s] = x
    OBVIOUS
  <2>5. f \in Bijection(SUBSET A, W)
    BY <2>1, <2>3, <2>4, Zenon DEF Bijection, Injection, Surjection, IsInjective
  <2>6. QED BY <2>5, Zenon DEF ExistsBijection
<1>6. IsFiniteSet(W) /\ Cardinality(W) = 2^k
  BY <1>3, <1>5, FS_Bijection
<1>7. SUBSET B = (SUBSET A) \union W
  <2>1. ASSUME NEW t \in SUBSET B, t \notin SUBSET A PROVE t \in W
    <3>1. t \ {k + 1} \in SUBSET A /\ t = (t \ {k + 1}) \union {k + 1}
      BY <1>2, <2>1
    <3>2. QED BY <3>1
  <2>2. W \subseteq SUBSET B /\ SUBSET A \subseteq SUBSET B
    BY <1>2
  <2>3. QED BY <2>1, <2>2
<1>8. (SUBSET A) \intersect W = {}
  <2>1. ASSUME NEW t \in SUBSET A, t \in W PROVE FALSE
    BY <1>2, <2>1
  <2>2. QED BY <2>1, Zenon
<1> HIDE DEF W
<1>9. Cardinality(SUBSET B) =
        Cardinality(SUBSET A) + Cardinality(W) - Cardinality((SUBSET A) \intersect W)
  BY <1>3, <1>6, <1>7, FS_Union
<1>10. Cardinality((SUBSET A) \intersect W) = 0
  BY <1>8, FS_EmptySet
<1>11. 2^k \in Nat
  BY <1>3, FS_CardinalityType
<1>12. 2^(k + 1) = 2^k + 2^k
  BY <1>3, <1>4, <1>6, <1>9, <1>10, <1>11
<1>13. QED BY <1>11, <1>12

(* A power divides every higher one.                                       *)
LEMMA PowerSplits ==
  ASSUME NEW a \in Nat, NEW b \in Nat
  PROVE  2^b \in Nat \ {0} /\ 2^(a + b) = 2^a * 2^b
<1> DEFINE wrong == {n \in Nat : ~(2^n \in Nat \ {0} /\ 2^(a + n) = 2^a * 2^n)}
<1>1. 2^a \in Nat
  BY PowerDoubles
<1>2. wrong = {}
  <2> SUFFICES ASSUME wrong # {} PROVE FALSE
    OBVIOUS
  <2>1. Min(wrong) \in wrong /\ \A y \in wrong : Min(wrong) <= y
    BY Least
  <2>2. PICK n \in wrong : \A y \in wrong : n <= y
    BY <2>1
  <2>3. CASE n = 0
    BY <2>2, <2>3, <1>1, PowerZero
  <2>4. CASE n # 0
    <3> DEFINE m == n - 1
    <3>1. m \in Nat /\ n = m + 1 /\ ~(n <= m)
      BY <2>2, <2>4
    <3>2. m \notin wrong
      BY <2>2, <3>1
    <3> HIDE DEF m
    <3>3. 2^m \in Nat \ {0} /\ 2^(a + m) = 2^a * 2^m
      BY <3>1, <3>2
    <3>4. 2^n = 2 * 2^m
      BY <3>1, PowerDoubles
    <3>5. 2^((a + m) + 1) = 2 * 2^(a + m) /\ a + n = (a + m) + 1
      BY <3>1, PowerDoubles
    <3>6. \A x, y \in Nat : 2 * (x * y) = x * (2 * y)
      OBVIOUS
    <3>7. 2^(a + n) = 2^a * (2 * 2^m)
      BY <3>3, <3>5, <3>6, <1>1
    <3>8. QED BY <3>3, <3>4, <3>7, <2>2
  <2>5. QED BY <2>3, <2>4
<1>3. QED BY <1>2

(* Quotient and remainder: there is but one of each.                       *)
LEMMA DivMod ==
  ASSUME NEW a \in Nat, NEW m \in Nat \ {0}
  PROVE  a \div m \in Nat /\ a % m \in 0 .. m - 1 /\ a = m * (a \div m) + (a % m)
BY SMT

(* A multiple leaves nothing, and what leaves nothing is a multiple.      *)
LEMMA Divides ==
  ASSUME NEW m \in Nat \ {0}, NEW q \in Nat
  PROVE  (q * m) % m = 0
<1> DEFINE d == (q * m) \div m
           r == (q * m) % m
<1>1. q * m \in Nat /\ q * m = m * q
  OBVIOUS
<1>2. d \in Nat /\ r \in 0 .. m - 1 /\ q * m = m * d + r
  BY <1>1, DivMod
<1> HIDE DEF d, r
<1>3. m * q = m * d + r
  BY <1>1, <1>2
<1>4. ASSUME NEW x \in Nat, NEW y \in Nat, x < y PROVE m * x + m <= m * y
  <2>1. m * (x + 1) <= m * y
    BY <1>4
  <2>2. QED BY <2>1
<1>5. m * q \in Nat /\ m * d \in Nat
  BY <1>2
<1>6. ~(q < d) /\ ~(d < q)
  BY <1>2, <1>3, <1>4, <1>5
<1>7. QED BY <1>2, <1>3, <1>5, <1>6 DEF r

LEMMA Divisor ==
  ASSUME NEW m \in Nat \ {0}, 256 % m = 0
  PROVE  \E d \in Nat : 256 = m * d
<1> DEFINE d == 256 \div m
           r == 256 % m
<1>1. 256 \in Nat /\ m \in Nat \ {0}
  OBVIOUS
<1>2. d \in Nat /\ 256 = m * d + r
  BY <1>1, DivMod
<1>3. r = 0
  OBVIOUS
<1> HIDE DEF d, r
<1>4. 256 = m * d
  BY <1>2, <1>3
<1>5. QED BY <1>2, <1>4

(* The loop over the powers of two ends with one of them.                 *)
LEMMA Adjusted ==
  ASSUME NEW v \in Int
  PROVE  adjust_packs(v) \in Powers
<1>1. MaxPacks \in Powers
  BY LoadConstants DEF Powers
<1>2. ASSUME v <= MaxPacks PROVE Min({p \in Powers : v <= p}) \in Powers
  <2>1. {p \in Powers : v <= p} \subseteq Nat /\ {p \in Powers : v <= p} # {}
    BY <1>1, <1>2 DEF Powers
  <2>2. QED BY <2>1, Least
<1>3. QED BY <1>1, <1>2, LoadConstants DEF adjust_packs

(* The sizes of a ring of any of these powers divide 256, since that of the*)
(* largest does.                                                           *)
LEMMA RingFits ==
  ASSUME NEW p \in Powers
  PROVE  256 % (MaxUrb * p) = 0
<1>1. PICK k \in 0 .. MaxPacks : p = 2^k
  BY DEF Powers
<1>2. PICK m \in 0 .. MaxPacks : MaxPacks = 2^m
  BY LoadConstants
<1>3. p \in Nat \ {0} /\ p <= MaxPacks /\ MaxPacks \in Nat \ {0} /\ MaxUrb \in Nat \ {0}
  BY LoadConstants DEF Powers
<1>4. k <= m
  <2> SUFFICES ASSUME m < k PROVE FALSE
    OBVIOUS
  <2>1. k - m - 1 \in Nat /\ m \in Nat /\ k = m + ((k - m - 1) + 1)
    OBVIOUS
  <2>2. 2^k = 2^m * 2^((k - m - 1) + 1) /\ 2^((k - m - 1) + 1) = 2 * 2^(k - m - 1)
        /\ 2^(k - m - 1) \in Nat \ {0}
    BY <2>1, PowerSplits, PowerDoubles
  <2>3. \A x \in Nat \ {0}, y \in Nat \ {0} : x * (2 * y) > x
    <3>1. \A x \in Nat \ {0}, y \in Nat \ {0} : x * (2 * y) >= x * 2
      OBVIOUS
    <3>2. QED BY <3>1
  <2>4. QED BY <1>1, <1>2, <1>3, <2>2, <2>3
<1>5. PICK c \in Nat : MaxPacks = p * c
  <2>1. m - k \in Nat /\ m = k + (m - k) /\ k \in Nat
    BY <1>4
  <2>2. 2^m = 2^k * 2^(m - k) /\ 2^(m - k) \in Nat
    BY <2>1, PowerSplits
  <2>3. QED BY <1>1, <1>2, <2>2
<1>6. MaxUrb * MaxPacks \in Nat \ {0} /\ MaxUrb * p \in Nat \ {0}
  BY <1>3
<1>7. PICK e \in Nat : 256 = (MaxUrb * MaxPacks) * e
  <2>1. 256 % (MaxUrb * MaxPacks) = 0
    BY LoadConstants
  <2>2. QED BY <1>6, <2>1, Divisor
<1>8. 256 = (MaxUrb * (p * c)) * e
  BY <1>5, <1>7
<1>9. \A x, y, z, u \in Nat : (x * (y * z)) * u = (u * z) * (x * y)
  OBVIOUS
<1>10. 256 = (e * c) * (MaxUrb * p) /\ e * c \in Nat
  BY <1>3, <1>8, <1>9
<1>11. QED BY <1>6, <1>10, Divides

(* The parameters before and after oufxs_init has adjusted them.            *)
Adjusting ==
  /\ pc = "adjust" => packs \in Int /\ inflight \in Int /\ current \in Int
  /\ pc # "adjust" => packs \in Powers /\ inflight \in 2 .. MaxUrb /\ current \in 20 .. 41

LEMMA ParamsKept == Spec => []Adjusting
<1>1. Init => Adjusting
  BY LoadConstants DEF Init, Adjusting
<1>2. ASSUME Adjusting, [Next]_vars PROVE Adjusting'
  <2>1. CASE oufxs_init
    <3>1. adjust_packs(packs) \in Powers
      BY <1>2, <2>1, Adjusted DEF Adjusting, oufxs_init
    <3>2. inflight \in Int /\ current \in Int /\ MaxUrb \in Nat /\ MaxInFlight \in 2 .. MaxUrb
      BY <1>2, <2>1, LoadConstants DEF Adjusting, oufxs_init
    <3>3. adjust_inflight(inflight) \in 2 .. MaxUrb
      BY <3>2 DEF adjust_inflight
    <3>4. adjust_current(current) \in 20 .. 41
      BY <3>2 DEF adjust_current
    <3>5. QED BY <2>1, <3>1, <3>3, <3>4 DEF Adjusting, oufxs_init
  <2>2. CASE UNCHANGED <<paramVars, pc>>
    BY <1>2, <2>2 DEF Adjusting, paramVars
  <2>3. CASE pc # "adjust" /\ pc' # "adjust" /\ UNCHANGED paramVars
    BY <1>2, <2>3 DEF Adjusting, paramVars
  <2>4. CASE count \/ parse \/ alloc
    BY <2>3, <2>4 DEF count, parse, alloc, fail
  <2>5. CASE register_dummy \/ compare \/ mark
    BY <2>3, <2>5 DEF register_dummy, dahdi_register, compare, mark, fail
  <2>6. CASE register_dev \/ check_dev
    BY <2>3, <2>6 DEF register_dev, dahdi_register, check_dev, fail
  <2>7. CASE rsv_finish \/ usb_register \/ oufxs_exit
    BY <2>3, <2>7 DEF rsv_finish, usb_register, oufxs_exit
  <2>8. CASE unregister_dummy \/ other \/ over \/ UNCHANGED vars
    BY <2>2, <2>8 DEF unregister_dummy, other, over, vars, paramVars
  <2>9. QED
    BY <1>2, <2>1, <2>4, <2>5, <2>6, <2>7, <2>8 DEF Next
<1>3. QED BY <1>1, <1>2, PTL DEF Spec

-----------------------------------------------------------------------------
(***************************************************************************)
(* The theorems.                                                           *)
(***************************************************************************)

(* A driver that could not be loaded, or has been unloaded, leaves no span *)
(* in DAHDI and no slot taken, but for the failures NothingLeft names      *)
(* (oufxs.c:3663-3700): whatever the string, and whichever step fails.     *)
THEOREM LeavesNothing == Spec => []NothingLeft
<1>1. LoadInv => NothingLeft
  <2> SUFFICES ASSUME LoadInv, pc \in {"failed", "unloaded"}, retval # "usb",
                      \A s \in Slots : boards[s] # "dev"
               PROVE  /\ \A c \in Channels : ~ours(chan[c])
                      /\ \A s \in Slots : boards[s] = "null"
    BY DEF NothingLeft
  <2>1. \A s \in Slots : boards[s] = "null"
    BY DEF LoadInv, Making
  <2>2. ASSUME NEW c \in Channels, ours(chan[c]) PROVE FALSE
    <3>1. chan[c].kind = "dev"
      BY <2>2 DEF LoadInv, Spans, Loop, ours
    <3>2. chan[c].no \in Slots /\ boards[chan[c].no] \in {"rsrvd", "dev"}
      BY <3>1 DEF LoadInv, Spans
    <3>3. QED BY <2>1, <3>2
  <2>3. QED BY <2>1, <2>2
<1>2. QED BY Loading, <1>1, PTL

(* The table of reservations is read behind its end only if other drivers  *)
(* register channels meanwhile (oufxs.c:3505, 3566).                       *)
THEOREM ReadInBounds == Spec => []InBounds
<1>1. LoadInv => InBounds
  BY DEF LoadInv, Typed, Alone, InBounds
<1>2. QED BY Loading, <1>1, PTL

(* A driver that is loaded, and has not read the table behind its end, has *)
(* one structure per entry of the string, under the channel asked for, and *)
(* nothing else in DAHDI (oufxs.c:3448, 3566, 3644).                       *)
THEOREM HasWhatWasAsked == Spec => []ReservedAsAsked
<1>1. LoadInv => ReservedAsAsked
  <2> SUFFICES ASSUME LoadInv, pc = "loaded", ~oob
               PROVE  /\ Len(rsvsn2chan) = Len(rsvserials)
                      /\ \A k \in 1..Len(rsvserials) :
                           chan[rsvserials[k].channo] = device(k - 1) /\ boards[k - 1] = "rsrvd"
                      /\ \A k, l \in 1..Len(rsvserials) :
                           rsvserials[k].serial = rsvserials[l].serial => k = l
                      /\ Cardinality({c \in Channels : ours(chan[c])}) = Len(rsvserials)
    BY DEF ReservedAsAsked
  <2> USE DEF LoadInv
  <2> DEFINE L == Len(rsvserials)
             Ours == {c \in Channels : ours(chan[c])}
             asked(k) == rsvsn2chan[k].channo
  <2>1. L = Len(rsvsn2chan) /\ j = L /\ L \in Nat /\ j <= MaxBoards /\ Found /\ retval = "ok"
        /\ MaxBoards \in Nat
    BY Rows, LoadConstants DEF Typed, Table, Rounds, Making
  <2>2. \A k \in 1 .. L : rsvserials[k].channo = asked(k) /\ rsvserials[k].serial = rsvsn2chan[k].serial
    BY <2>1 DEF Table
  <2>3. \A k \in 1 .. L : asked(k) \in Channels /\ chan[asked(k)] = device(k - 1)
    <3>1. ASSUME NEW k \in 1 .. L
          PROVE  asked(k) \in Channels /\ chan[asked(k)] = device(k - 1)
      <4>1. PICK s \in 0 .. j - 1 : s + 1 = k /\ s = k - 1
        BY <2>1
      <4>2. QED BY <2>1, <4>1 DEF Found
    <3>2. QED BY <3>1
  <2>4. \A k \in 1 .. L : boards[k - 1] = "rsrvd"
    <3>1. ASSUME NEW k \in 1 .. L PROVE boards[k - 1] = "rsrvd"
      <4>1. k - 1 \in Slots /\ k - 1 < j
        BY <2>1 DEF Slots
      <4>2. QED BY <4>1 DEF Making
    <3>2. QED BY <3>1
  <2>5. \A k, l \in 1 .. L : k < l =>
          rsvserials[k].serial # rsvserials[l].serial /\ asked(k) < asked(l)
    BY <2>1, <2>2 DEF Table
  <2>6. \A k \in 1 .. L : asked(k) \in Nat
    BY <2>1, Rows
  <2> HIDE DEF L, asked
  <2>7. \A k, l \in 1 .. L : (rsvserials[k].serial = rsvserials[l].serial => k = l)
                             /\ (asked(k) = asked(l) => k = l)
    <3>1. ASSUME NEW k \in 1 .. L, NEW l \in 1 .. L, k # l
          PROVE  rsvserials[k].serial # rsvserials[l].serial /\ asked(k) # asked(l)
      <4>1. k < l \/ l < k
        BY <2>1, <3>1
      <4>2. QED BY <2>5, <2>6, <4>1
    <3>2. QED BY <3>1
  <2>8. \A c \in Ours : \E k \in 1 .. L : asked(k) = c
    <3>1. ASSUME NEW c \in Ours PROVE \E k \in 1 .. L : asked(k) = c
      <4>1. c \in Channels /\ chan[c].kind = "dev"
        BY <3>1 DEF Spans, Loop, ours
      <4>2. chan[c].no \in Slots /\ boards[chan[c].no] \in {"rsrvd", "dev"}
        BY <4>1 DEF Spans
      <4>3. PICK s \in Slots : chan[c].no = s
        BY <4>2
      <4>4. s \in Nat /\ chan[c] = device(s)
        BY <4>1, <4>3, OwnerKinds DEF Typed, Owner, Slots
      <4>5. s < j
        <5>1. ~(s > j) /\ s # j
          BY <2>1, <4>2, <4>3 DEF Making
        <5>2. QED BY <2>1, <4>4, <5>1
      <4>6. s + 1 \in 1 .. L /\ (s + 1) - 1 = s
        BY <2>1, <4>4, <4>5
      <4>7. asked(s + 1) \in Channels /\ chan[asked(s + 1)] = device(s)
        BY <2>3, <4>6
      <4>8. asked(s + 1) = c
        BY <3>1, <4>1, <4>4, <4>7 DEF Spans
      <4>9. QED BY <4>6, <4>8
    <3>2. QED BY <3>1
  <2>9. \A k \in 1 .. L : asked(k) \in Ours
    <3>1. \A k \in 1 .. L : k - 1 \in Nat
      BY <2>1
    <3>2. QED BY <2>3, <3>1, OwnerKinds
  <2> HIDE DEF Ours
  <2>10. Cardinality(Ours) = L
    <3> DEFINE f == [k \in 1 .. L |-> asked(k)]
    <3>1. f \in [1 .. L -> Ours]
      BY <2>9
    <3>2. \A k, l \in 1 .. L : f[k] = f[l] => k = l
      BY <2>7
    <3>3. \A c \in Ours : \E k \in 1 .. L : f[k] = c
      BY <2>8
    <3> HIDE DEF f
    <3>4. f \in Bijection(1 .. L, Ours)
      BY <3>1, <3>2, <3>3 DEF Bijection, Injection, Surjection, IsInjective
    <3>5. ExistsBijection(1 .. L, Ours)
      BY <3>4 DEF ExistsBijection
    <3>6. IsFiniteSet(1 .. L) /\ Cardinality(1 .. L) = L
      <4>1. 1 \in Int /\ L \in Int
        BY <2>1
      <4>2. IsFiniteSet(1 .. L) /\ Cardinality(1 .. L) = IF 1 > L THEN 0 ELSE L - 1 + 1
        BY <4>1, FS_Interval
      <4>3. QED BY <2>1, <4>2
    <3>7. QED BY <3>5, <3>6, FS_Bijection
  <2>11. QED BY <2>1, <2>2, <2>3, <2>4, <2>7, <2>10 DEF L, Ours, asked
<1>2. QED BY Loading, <1>1, PTL

(* After the adjustment the ring of OUT packets divides the range of the    *)
(* sequence number, for any value the user gave, which is what the lookup of*)
(* echo references relies on (oufxs.c:3721-3775).                           *)
THEOREM ParametersFit == Spec => []ParamsFit
<1>1. Adjusting => ParamsFit
  BY RingFits DEF Adjusting, ParamsFit
<1>2. QED BY ParamsKept, <1>1, PTL

=============================================================================
