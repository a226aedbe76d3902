---------------------------- MODULE OufxsLifeProofs ----------------------------
(***************************************************************************)
(* Proofs about the life of a board's structure in the DAHDI driver, for   *)
(* every number of slots, boards and plug-ins, whichever serial numbers    *)
(* are reserved, and whether or not allocations fail, in the orderly world *)
(* the driver is written for (OrderlySpec).                                *)
(*                                                                         *)
(* The inductive invariant is a property of each slot by itself, SlotInv:  *)
(* how the structure of the slot, its worker, its opener and its destructor*)
(* stand to the one board the slot serves; and of each board: the slot it  *)
(* works on is one it may have.                                            *)
(***************************************************************************)
EXTENDS OufxsLife, TLAPS, FiniteSetTheorems

Held == {"alloc", "init", "register", "bound"}

(* The slot s is, or is going to be, that of the board b.                  *)
Serving(b, s) == at[b] = s /\ pc[b] \in Held
Refers(b, s)  == at[b] = s /\ pc[b] \in {"register", "bound"}

Alive(s) == dev[s].mem /\ dev[s].bufs = "live" /\ dev[s].udev # NoBoard /\ dev[s].eps

(* Nothing goes on in a structure, unless a probe has crashed in it.        *)
AtRest(s) ==
  /\ user[s] = "closed" /\ worker[s] = "none" /\ dev[s].urbs = "none"
  /\ dev[s].ops # "real" \/ "oops" \in bad

(* A board of a reserved serial works on its slot, the others do not work  *)
(* on a reserved one.                                                      *)
Placed ==
  \A b \in Boards : pc[b] \in Held =>
    \/ at[b] \in SlotOf(b)
    \/ SlotOf(b) = {} /\ ~Rsrvd(at[b])

(* A board in its slot: it is alone there, the structure is not being      *)
(* deleted, and what probe has not yet set up is at rest.                  *)
Served(s) ==
  /\ \A b, c \in Boards : Serving(b, s) /\ Serving(c, s) => b = c
  /\ \A b \in Boards : Serving(b, s) =>
       /\ deleting[s] = "no"
       /\ boards[s] = IF pc[b] = "alloc" THEN "one" ELSE "dev"
       /\ pc[b] # "bound" => AtRest(s)
       /\ pc[b] \in {"register", "bound"} => Alive(s)

(* A slot without a structure.                                             *)
Vacant(s) ==
  /\ boards[s] = "dev" => dev[s].mem
  /\ boards[s] # "dev" =>
       /\ ~Rsrvd(s) /\ deleting[s] = "no" /\ AtRest(s)
       /\ dev[s].kref = 0 /\ dev[s].opencnt = 0
  /\ boards[s] = "null" => \A b \in Boards : ~Serving(b, s)

(* The references, one by one; an open is counted twice.                   *)
Counted(s) ==
  /\ dev[s].kref = Count(\E b \in Boards : Refers(b, s)) + Count(InUse(s))
  /\ dev[s].opencnt = Count(InUse(s))

(* An open that has passed the test of the state is backed by the bound    *)
(* interface.                                                              *)
Backed(s) ==
  user[s] = "opening" => \E b \in Boards : Serving(b, s) /\ pc[b] = "bound"

(* The destructor runs on a structure nobody has open; when it is through  *)
(* no worker is left and DAHDI does not find the operations any more.      *)
Deleted(s) ==
  /\ deleting[s] # "no" => user[s] = "closed" /\ dev[s].kref = 0
  /\ deleting[s] = "no" /\ dev[s].kref = 0 => AtRest(s)
  /\ deleting[s] \in {"wq", "kill", "end"} => dev[s].ops # "real"
  /\ deleting[s] \in {"kill", "end"} => worker[s] = "none"
  /\ deleting[s] \in {"begin", "wq", "kill"} /\ dev[s].bufs = "freed" => "short" \in bad

UsesAlive(s) ==
  InUse(s) \/ worker[s] # "none" \/ dev[s].urbs # "none" => Alive(s) /\ deleting[s] # "end"

SlotInv(s) ==
  Served(s) /\ Vacant(s) /\ Counted(s) /\ Backed(s) /\ Deleted(s) /\ UsesAlive(s)

(* The structure, as TypeOK has it.                                        *)
Structure ==
  [mem : BOOLEAN, kref : 0 .. 2, opencnt : 0 .. 1,
   udev : Boards \cup {NoBoard}, bufs : {"none", "live", "freed"},
   urbs : {"none", "flying", "left"}, state : {"IDLE", "INIT", "OK", "ERROR", "UNLOAD"},
   ops : {"none", "dummy", "real"}, eps : BOOLEAN]

IInv == TypeOK /\ Placed /\ Clean /\ \A s \in Slots : SlotInv(s)

-----------------------------------------------------------------------------
LEMMA BlankFreed ==
  /\ Blank = [mem |-> TRUE, kref |-> 0, opencnt |-> 0, udev |-> NoBoard,
              bufs |-> "none", urbs |-> "none", state |-> "IDLE", ops |-> "dummy", eps |-> FALSE]
  /\ Freed = [mem |-> FALSE, kref |-> 0, opencnt |-> 0, udev |-> NoBoard,
              bufs |-> "none", urbs |-> "none", state |-> "IDLE", ops |-> "none", eps |-> FALSE]
  /\ Blank \in Structure /\ Freed \in Structure
<1>1. Blank \in Structure
  BY DEF Blank, Structure
<1>2. Freed = [mem |-> FALSE, kref |-> 0, opencnt |-> 0, udev |-> NoBoard,
               bufs |-> "none", urbs |-> "none", state |-> "IDLE", ops |-> "none", eps |-> FALSE]
  <2>1. ASSUME NEW d, NEW e, d = Blank, e = [d EXCEPT !.mem = FALSE, !.ops = "none"]
        PROVE  e = [mem |-> FALSE, kref |-> 0, opencnt |-> 0, udev |-> NoBoard,
                    bufs |-> "none", urbs |-> "none", state |-> "IDLE", ops |-> "none", eps |-> FALSE]
    BY <2>1 DEF Blank
  <2>2. QED BY <2>1 DEF Freed
<1>3. Freed \in Structure
  BY <1>2 DEF Structure
<1>4. QED BY <1>1, <1>2, <1>3 DEF Blank

(* What TypeOK says of the structures.                                     *)
LEMMA Typed ==
  ASSUME TypeOK, NEW s \in Slots
  PROVE  /\ dev \in [Slots -> Structure] /\ dev[s] \in Structure
         /\ dev[s] = [mem |-> dev[s].mem, kref |-> dev[s].kref,
                      opencnt |-> dev[s].opencnt, udev |-> dev[s].udev,
                      bufs |-> dev[s].bufs, urbs |-> dev[s].urbs, state |-> dev[s].state,
                      ops |-> dev[s].ops, eps |-> dev[s].eps]
         /\ dev[s].mem \in BOOLEAN /\ dev[s].kref \in 0 .. 2 /\ dev[s].opencnt \in 0 .. 1
         /\ dev[s].udev \in Boards \cup {NoBoard}
         /\ dev[s].bufs \in {"none", "live", "freed"}
         /\ dev[s].state \in {"IDLE", "INIT", "OK", "ERROR", "UNLOAD"}
         /\ dev[s].ops \in {"none", "dummy", "real"} /\ dev[s].urbs \in {"none", "flying", "left"} /\ dev[s].eps \in BOOLEAN
BY DEF TypeOK, Structure

(* Fields of a structure that are assigned, and the others.                *)
LEMMA Setting ==
  ASSUME NEW x \in Structure, NEW o \in {"none", "dummy", "real"}, NEW e,
         e = [x EXCEPT !.ops = o]
  PROVE  /\ e \in Structure /\ e.mem = x.mem /\ e.kref = x.kref
         /\ e.opencnt = x.opencnt /\ e.udev = x.udev /\ e.bufs = x.bufs
         /\ e.urbs = x.urbs /\ e.eps = x.eps
BY DEF Structure

LEMMA SettingState ==
  ASSUME NEW x \in Structure, NEW e,
         \/ \E st \in {"IDLE", "INIT", "OK", "ERROR", "UNLOAD"} : e = [x EXCEPT !.state = st]
         \/ \E u \in {"none", "flying", "left"} : e = [x EXCEPT !.urbs = u]
  PROVE  /\ e \in Structure /\ e.mem = x.mem /\ e.kref = x.kref
         /\ e.opencnt = x.opencnt /\ e.udev = x.udev /\ e.bufs = x.bufs
         /\ e.ops = x.ops /\ e.eps = x.eps
<1>1. CASE \E st \in {"IDLE", "INIT", "OK", "ERROR", "UNLOAD"} : e = [x EXCEPT !.state = st]
  BY <1>1 DEF Structure
<1>2. CASE \E u \in {"none", "flying", "left"} : e = [x EXCEPT !.urbs = u]
  BY <1>2 DEF Structure
<1>3. QED BY <1>1, <1>2

(* A NULL pointer used because an allocation has failed.                   *)
LEMMA Crash ==
  ASSUME Clean, bad \subseteq Faults \cup {"short"}, bad' = bad \cup {"oops", "short"}
  PROVE  Clean' /\ bad' \subseteq Faults \cup {"short"} /\ bad \subseteq bad'
BY DEF Clean, Faults

(* The parts of a step that do not touch a slot leave its invariant alone. *)
LEMMA Elsewhere ==
  ASSUME NEW t \in Slots, SlotInv(t), bad \subseteq bad',
         boards'[t] = boards[t], dev'[t] = dev[t], worker'[t] = worker[t],
         user'[t] = user[t], deleting'[t] = deleting[t],
         \A b \in Boards : /\ Serving(b, t)' <=> Serving(b, t)
                           /\ Serving(b, t) => pc'[b] = pc[b]
  PROVE  SlotInv(t)'
<1>1. \A b \in Boards : Refers(b, t)' <=> Refers(b, t)
  BY DEF Serving, Refers, Held
<1>2. Served(t)'
  BY DEF SlotInv, Served, AtRest, Alive
<1>3. Vacant(t)'
  BY DEF SlotInv, Vacant, AtRest
<1>4. Counted(t)'
  BY <1>1 DEF SlotInv, Counted, InUse, Count
<1>5. Backed(t)' /\ Deleted(t)' /\ UsesAlive(t)'
  BY DEF SlotInv, Backed, Deleted, UsesAlive, AtRest, Alive, InUse
<1>6. QED BY <1>2, <1>3, <1>4, <1>5 DEF SlotInv

LEMMA InitInv == Init => IInv
<1> SUFFICES ASSUME Init PROVE IInv
  OBVIOUS
<1>1. (CHOOSE s \in Slots : TRUE) \in Slots
  BY LifeConstants
<1>2. TypeOK
  <2>1. dev \in [Slots -> Structure]
    BY BlankFreed DEF Init
  <2>2. QED BY <1>1, <2>1, LifeConstants DEF Init, TypeOK, Structure
<1>3. Placed /\ Clean
  BY DEF Init, Placed, Clean, Held
<1>4. ASSUME NEW s \in Slots PROVE SlotInv(s)
  <2>1. \A b \in Boards : ~Serving(b, s) /\ ~Refers(b, s)
    BY DEF Init, Serving, Refers, Held
  <2>2. QED BY <2>1, BlankFreed DEF Init, SlotInv, Served, Vacant, Counted, Backed, Deleted,
                        UsesAlive, AtRest, InUse, Count
<1>5. QED BY <1>2, <1>3, <1>4 DEF IInv

-----------------------------------------------------------------------------
(***************************************************************************)
(* The steps of probe.                                                     *)
(***************************************************************************)

(* The references of a slot nobody is registered in or bound to.           *)
LEMMA NoRefers ==
  ASSUME IInv, NEW s \in Slots, \A b \in Boards : ~Refers(b, s), ~InUse(s)
  PROVE  dev[s].kref = 0 /\ dev[s].opencnt = 0
BY DEF IInv, SlotInv, Counted, Count

LEMMA ReservedStep ==
  ASSUME IInv, NEW b \in Boards, probe_reserved(b),
         \A s \in SlotOf(b) : /\ dev[s].udev = NoBoard /\ deleting[s] = "no"
                              /\ \A c \in ReservedFor[s] : pc[c] = "out"
  PROVE  IInv'
<1>1. PICK s \in SlotOf(b) :
        /\ pc[b] = "out" /\ plugs < MaxPlugs /\ plugs' = plugs + 1
        /\ at' = [at EXCEPT ![b] = s] /\ pc' = [pc EXCEPT ![b] = "init"]
        /\ UNCHANGED <<dev, deleting, bad, boards, worker, user>>
  BY DEF probe_reserved
<1>2. s \in Slots /\ b \in ReservedFor[s] /\ Rsrvd(s) /\ SlotInv(s) /\ TypeOK
  BY <1>1 DEF SlotOf, Rsrvd, IInv
<1>3. \A c \in Boards : ~Serving(c, s)
  BY <1>1, <1>2 DEF IInv, Placed, Serving, SlotOf, Held
<1>4. ~InUse(s) /\ worker[s] = "none" /\ dev[s].urbs = "none"
  BY <1>1, <1>2 DEF SlotInv, UsesAlive, Alive
<1>5. user[s] = "closed"
  BY <1>2, <1>3, <1>4 DEF SlotInv, Backed, InUse, TypeOK
<1>6. dev[s].kref = 0 /\ dev[s].opencnt = 0
  BY <1>2, <1>3, <1>4, NoRefers DEF Refers, Serving, Held
<1>7. boards[s] = "dev" /\ dev[s].mem /\ AtRest(s)
  BY <1>1, <1>2, <1>6 DEF SlotInv, Vacant, Deleted, TypeOK
<1>8. /\ Serving(b, s)' /\ pc'[b] = "init" /\ ~Refers(b, s)'
      /\ \A c \in Boards : Serving(c, s)' => c = b
      /\ \A c \in Boards : ~Refers(c, s)'
  BY <1>1, <1>2, <1>3 DEF TypeOK, Serving, Refers, Held
<1>9. SlotInv(s)'
  BY <1>1, <1>2, <1>4, <1>5, <1>6, <1>7, <1>8
     DEF SlotInv, Served, Vacant, Counted, Backed, Deleted, UsesAlive, AtRest, InUse, Count
<1>10. ASSUME NEW t \in Slots \ {s} PROVE SlotInv(t)'
  <2>1. \A c \in Boards : /\ Serving(c, t)' <=> Serving(c, t)
                          /\ Serving(c, t) => pc'[c] = pc[c]
    BY <1>1, <1>2 DEF TypeOK, Serving, Held
  <2>2. QED BY <1>1, <2>1, Elsewhere DEF IInv
<1>11. TypeOK'
  BY <1>1, <1>2, LifeConstants DEF TypeOK
<1>12. Placed'
  BY <1>1, <1>2 DEF IInv, Placed, TypeOK, SlotOf
<1>13. Clean'
  BY <1>1 DEF IInv, Clean
<1>14. QED BY <1>9, <1>10, <1>11, <1>12, <1>13 DEF IInv

LEMMA FindSlotStep ==
  ASSUME IInv, NEW b \in Boards, probe_find_slot(b)
  PROVE  IInv'
<1>1. SlotOf(b) = {} /\ pc[b] = "out" /\ plugs' = plugs + 1 /\ plugs < MaxPlugs
      /\ UNCHANGED <<worker, user, dev, deleting>> /\ TypeOK
  BY DEF probe_find_slot, probe_error_null, IInv
<1>2. CASE \E s \in Slots :
             /\ boards[s] = "null"
             /\ boards' = [boards EXCEPT ![s] = "one"]
             /\ at' = [at EXCEPT ![b] = s] /\ pc' = [pc EXCEPT ![b] = "alloc"]
             /\ UNCHANGED bad
  <2>1. PICK s \in Slots :
             /\ boards[s] = "null"
             /\ boards' = [boards EXCEPT ![s] = "one"]
             /\ at' = [at EXCEPT ![b] = s] /\ pc' = [pc EXCEPT ![b] = "alloc"]
             /\ UNCHANGED bad
    BY <1>2
  <2>2. SlotInv(s) /\ boards'[s] = "one"
    BY <1>1, <2>1 DEF IInv, TypeOK
  <2>3. \A c \in Boards : ~Serving(c, s)
    BY <2>1, <2>2 DEF SlotInv, Vacant
  <2>4. /\ ~Rsrvd(s) /\ deleting[s] = "no" /\ AtRest(s)
        /\ dev[s].kref = 0 /\ dev[s].opencnt = 0
    BY <2>1, <2>2 DEF SlotInv, Vacant
  <2>5. /\ Serving(b, s)' /\ pc'[b] = "alloc"
        /\ \A c \in Boards : Serving(c, s)' => c = b
        /\ \A c \in Boards : ~Refers(c, s)'
    BY <1>1, <2>1, <2>3 DEF TypeOK, Serving, Refers, Held
  <2>6. SlotInv(s)'
    BY <1>1, <2>1, <2>2, <2>4, <2>5
       DEF SlotInv, Served, Vacant, Counted, Backed, Deleted, UsesAlive, AtRest, InUse, Count
  <2>7. ASSUME NEW t \in Slots \ {s} PROVE SlotInv(t)'
    <3>1. \A c \in Boards : /\ Serving(c, t)' <=> Serving(c, t)
                            /\ Serving(c, t) => pc'[c] = pc[c]
      BY <1>1, <2>1 DEF TypeOK, Serving, Held
    <3>2. boards'[t] = boards[t]
      BY <1>1, <2>1 DEF TypeOK
    <3>3. QED BY <1>1, <2>1, <3>1, <3>2, Elsewhere DEF IInv
  <2>8. TypeOK'
    BY <1>1, <2>1, LifeConstants DEF TypeOK
  <2>9. Placed'
    BY <1>1, <2>1, <2>4 DEF IInv, Placed, TypeOK, SlotOf
  <2>10. Clean'
    BY <2>1 DEF IInv, Clean
  <2>11. QED BY <2>6, <2>7, <2>8, <2>9, <2>10 DEF IInv
<1>3. CASE probe_error_null(b) /\ UNCHANGED <<boards, at>>
  <2>1. \A t \in Slots : SlotInv(t)'
    <3>1. ASSUME NEW t \in Slots PROVE SlotInv(t)'
      <4>1. \A c \in Boards : /\ Serving(c, t)' <=> Serving(c, t)
                              /\ Serving(c, t) => pc'[c] = pc[c]
        BY <1>1, <1>3 DEF probe_error_null, TypeOK, Serving, Held
      <4>2. bad \subseteq bad'
        BY <1>3 DEF probe_error_null
      <4>3. QED BY <1>1, <1>3, <4>1, <4>2, Elsewhere DEF IInv
    <3>2. QED BY <3>1
  <2>2. TypeOK'
    BY <1>1, <1>3, LifeConstants DEF TypeOK, probe_error_null, Faults
  <2>3. Placed' /\ Clean'
    BY <1>1, <1>3 DEF IInv, Placed, TypeOK, SlotOf, probe_error_null, Clean, Held
  <2>4. QED BY <2>1, <2>2, <2>3 DEF IInv
<1>4. QED BY <1>1, <1>2, <1>3 DEF probe_find_slot

(* A step that moves at most the board b of the slot s, and leaves at      *)
(* alone, is settled by what it does to s.                                 *)
LEMMA InSlot ==
  ASSUME IInv, NEW s \in Slots, NEW b \in Boards, NEW ph, NEW d \in Structure,
         at[b] = s, pc[b] \in Held, UNCHANGED <<at, plugs>>,
         pc' = [pc EXCEPT ![b] = ph],
         ph \in {"out", "init", "register", "bound", "failed"},
         dev' = [dev EXCEPT ![s] = d],
         boards' \in [Slots -> {"null", "one", "dev"}],
         worker' \in [Slots -> {"none", "queued", "init", "stages", "spawn"}],
         deleting' \in [Slots -> {"no", "begin", "wq", "kill", "end"}],
         UNCHANGED user,
         \A t \in Slots \ {s} : /\ boards'[t] = boards[t] /\ worker'[t] = worker[t]
                                /\ deleting'[t] = deleting[t],
         bad' \subseteq Faults \cup {"short"}, bad \subseteq bad', Clean',
         SlotInv(s)'
  PROVE  IInv'
<1>1. TypeOK /\ dev \in [Slots -> Structure] /\ dev'[s] = d
  BY Typed DEF IInv
<1>2. dev' \in [Slots -> Structure]
  BY <1>1
<1>3. TypeOK'
  BY <1>1, <1>2 DEF TypeOK, Structure
<1>4. Placed'
  BY <1>1 DEF IInv, Placed, TypeOK, SlotOf, Held
<1>5. ASSUME NEW t \in Slots \ {s} PROVE SlotInv(t)'
  <2>1. \A c \in Boards : /\ Serving(c, t)' <=> Serving(c, t)
                          /\ Serving(c, t) => pc'[c] = pc[c]
    BY <1>1 DEF TypeOK, Serving
  <2>2. dev'[t] = dev[t]
    BY <1>1
  <2>3. QED BY <2>1, <2>2, Elsewhere DEF IInv
<1>6. QED BY <1>3, <1>4, <1>5 DEF IInv

(* The same for a step in which no board moves.                            *)
LEMMA AtSlot ==
  ASSUME IInv, NEW s \in Slots, NEW d \in Structure, UNCHANGED <<pc, at, plugs>>,
         dev' = [dev EXCEPT ![s] = d],
         boards' \in [Slots -> {"null", "one", "dev"}],
         worker' \in [Slots -> {"none", "queued", "init", "stages", "spawn"}],
         user' \in [Slots -> {"closed", "opening", "open", "ioctl"}],
         deleting' \in [Slots -> {"no", "begin", "wq", "kill", "end"}],
         \A t \in Slots \ {s} : /\ boards'[t] = boards[t] /\ worker'[t] = worker[t]
                                /\ deleting'[t] = deleting[t] /\ user'[t] = user[t],
         bad' \subseteq Faults \cup {"short"}, bad \subseteq bad', Clean',
         SlotInv(s)'
  PROVE  IInv'
<1>1. TypeOK /\ dev \in [Slots -> Structure] /\ dev'[s] = d
  BY Typed DEF IInv
<1>2. dev' \in [Slots -> Structure]
  BY <1>1
<1>3. TypeOK'
  BY <1>1, <1>2 DEF TypeOK, Structure
<1>4. Placed'
  BY <1>1 DEF IInv, Placed, TypeOK, SlotOf, Held
<1>5. ASSUME NEW t \in Slots \ {s} PROVE SlotInv(t)'
  <2>1. \A c \in Boards : /\ Serving(c, t)' <=> Serving(c, t)
                          /\ Serving(c, t) => pc'[c] = pc[c]
    BY <1>1 DEF TypeOK, Serving
  <2>2. dev'[t] = dev[t]
    BY <1>1
  <2>3. QED BY <2>1, <2>2, Elsewhere DEF IInv
<1>6. QED BY <1>3, <1>4, <1>5 DEF IInv

(* What is known of the slot of a board that is being probed.              *)
LEMMA Probed ==
  ASSUME IInv, NEW b \in Boards, pc[b] \in Held
  PROVE  /\ at[b] \in Slots /\ Serving(b, at[b]) /\ SlotInv(at[b]) /\ TypeOK
         /\ deleting[at[b]] = "no"
         /\ boards[at[b]] = IF pc[b] = "alloc" THEN "one" ELSE "dev"
         /\ \A c \in Boards : Serving(c, at[b]) => c = b
         /\ pc[b] # "bound" => AtRest(at[b])
         /\ pc[b] \in {"register", "bound"} => Alive(at[b])
         /\ dev[at[b]].kref = Count(pc[b] \in {"register", "bound"}) + Count(InUse(at[b]))
         /\ dev[at[b]].opencnt = Count(InUse(at[b]))
<1>1. at[b] \in Slots /\ Serving(b, at[b]) /\ SlotInv(at[b]) /\ TypeOK
  BY DEF IInv, TypeOK, Serving
<1>2. \A c \in Boards : Serving(c, at[b]) => c = b
  BY <1>1 DEF SlotInv, Served
<1>3. (\E c \in Boards : Refers(c, at[b])) <=> pc[b] \in {"register", "bound"}
  BY <1>1, <1>2 DEF Refers, Serving, Held
<1>4. /\ dev[at[b]].kref = Count(pc[b] \in {"register", "bound"}) + Count(InUse(at[b]))
      /\ dev[at[b]].opencnt = Count(InUse(at[b]))
  BY <1>1, <1>3 DEF SlotInv, Counted, Count
<1>5. QED BY <1>1, <1>2, <1>4 DEF SlotInv, Served

LEMMA KzallocStep ==
  ASSUME IInv, NEW b \in Boards, probe_kzalloc(b)
  PROVE  IInv'
<1> DEFINE s == at[b]
<1>1. /\ pc[b] = "alloc" /\ pc[b] \in Held /\ UNCHANGED <<at, worker, user, plugs>>
      /\ UNCHANGED deleting
  BY DEF probe_kzalloc, probe_error_null, Held
<1>2. /\ s \in Slots /\ SlotInv(s) /\ TypeOK /\ deleting[s] = "no" /\ boards[s] = "one"
      /\ AtRest(s) /\ \A c \in Boards : Serving(c, s) => c = b
      /\ dev[s].kref = 0 /\ dev[s].opencnt = 0
  BY <1>1, Probed DEF AtRest, InUse, Count
<1>3. CASE /\ dev' = [dev EXCEPT ![s] = [Blank EXCEPT !.ops = "none"]]
           /\ boards' = [boards EXCEPT ![s] = "dev"]
           /\ pc' = [pc EXCEPT ![b] = "init"] /\ UNCHANGED bad
  <2> DEFINE d == [mem |-> TRUE, kref |-> 0, opencnt |-> 0, udev |-> NoBoard,
                   bufs |-> "none", urbs |-> "none", state |-> "IDLE", ops |-> "none", eps |-> FALSE]
  <2>1. d \in Structure
    BY DEF Structure
  <2>2. dev'[s] = [Blank EXCEPT !.ops = "none"] /\ boards'[s] = "dev" /\ pc'[b] = "init"
    BY <1>2, <1>3 DEF TypeOK
  <2>3. dev'[s] = d
    BY <2>2 DEF Blank
  <2>4. dev' = [dev EXCEPT ![s] = d]
    BY <1>2, <1>3, <2>2, <2>3 DEF TypeOK
  <2>5. \A c \in Boards : ~Refers(c, s)' /\ (Serving(c, s)' => c = b)
    BY <1>1, <1>2, <1>3 DEF TypeOK, Serving, Refers, Held
  <2>6. SlotInv(s)'
    BY <1>1, <1>2, <2>2, <2>3, <2>5
       DEF SlotInv, Served, Vacant, Counted, Backed, Deleted, UsesAlive, AtRest, InUse, Count
  <2>7. Clean' /\ bad' \subseteq Faults \cup {"short"}
    BY <1>2, <1>3 DEF IInv, Clean, TypeOK
  <2>8. /\ boards' \in [Slots -> {"null", "one", "dev"}]
        /\ \A t \in Slots \ {s} : boards'[t] = boards[t]
        /\ worker' \in [Slots -> {"none", "queued", "init", "stages", "spawn"}]
        /\ deleting' \in [Slots -> {"no", "begin", "wq", "kill", "end"}]
    BY <1>1, <1>2, <1>3 DEF TypeOK
  <2> HIDE DEF d
  <2>9. QED BY <1>1, <1>2, <1>3, <2>1, <2>4, <2>6, <2>7, <2>8, InSlot
<1>4. CASE probe_error_null(b) /\ UNCHANGED boards
  <2>1. /\ bad' = bad \cup {"oops", "short"} /\ pc' = [pc EXCEPT ![b] = "failed"]
        /\ dev' = dev
    BY <1>4 DEF probe_error_null
  <2>2. dev' = [dev EXCEPT ![s] = dev[s]] /\ dev[s] \in Structure
    BY <1>2, <2>1, Typed DEF TypeOK
  <2>3. \A c \in Boards : ~Refers(c, s)' /\ ~Serving(c, s)'
    BY <1>1, <1>2, <2>1 DEF TypeOK, Serving, Refers, Held
  <2>4. SlotInv(s)'
    BY <1>1, <1>2, <1>4, <2>1, <2>3
       DEF SlotInv, Served, Vacant, Counted, Backed, Deleted, UsesAlive, AtRest, InUse, Count
  <2>5. Clean' /\ bad' \subseteq Faults \cup {"short"} /\ bad \subseteq bad'
    BY <1>2, <2>1, Crash DEF IInv, TypeOK
  <2>6. /\ boards' \in [Slots -> {"null", "one", "dev"}]
        /\ \A t \in Slots \ {s} : boards'[t] = boards[t]
        /\ worker' \in [Slots -> {"none", "queued", "init", "stages", "spawn"}]
        /\ deleting' \in [Slots -> {"no", "begin", "wq", "kill", "end"}]
    BY <1>1, <1>2, <1>4 DEF TypeOK
  <2>7. QED BY <1>1, <1>2, <2>1, <2>2, <2>4, <2>5, <2>6, InSlot, ZenonT(40)
<1>5. QED BY <1>3, <1>4 DEF probe_kzalloc

(* kref_put of a structure that is referred to.                            *)
LEMMA Put ==
  ASSUME TypeOK, NEW s \in Slots, NEW d \in Structure, NEW more, d.kref \in 1 .. 2,
         kref_put(s, d, more)
  PROVE  /\ dev'[s] = [mem |-> d.mem, kref |-> d.kref - 1, opencnt |-> d.opencnt,
                       udev |-> d.udev, bufs |-> d.bufs, urbs |-> d.urbs, state |-> d.state,
                       ops |-> d.ops, eps |-> d.eps]
         /\ dev'[s] \in Structure /\ dev' = [dev EXCEPT ![s] = dev'[s]]
         /\ deleting'[s] = IF d.kref = 1 THEN "begin" ELSE deleting[s]
         /\ \A t \in Slots \ {s} : deleting'[t] = deleting[t]
         /\ deleting' \in [Slots -> {"no", "begin", "wq", "kill", "end"}]
         /\ bad' = bad \cup more
<1>1. dev'[s] = [d EXCEPT !.kref = IF @ = 0 THEN 0 ELSE @ - 1]
      /\ dev' = [dev EXCEPT ![s] = dev'[s]]
  BY DEF kref_put, TypeOK
<1>2. dev'[s] = [mem |-> d.mem, kref |-> d.kref - 1, opencnt |-> d.opencnt,
                 udev |-> d.udev, bufs |-> d.bufs, urbs |-> d.urbs, state |-> d.state,
                 ops |-> d.ops, eps |-> d.eps]
  BY <1>1 DEF Structure
<1>3. dev'[s] \in Structure
  BY <1>2 DEF Structure
<1>4. bad' = bad \cup more
  BY DEF kref_put
<1>5. QED BY <1>1, <1>2, <1>3, <1>4 DEF kref_put, TypeOK

(* The last reference is dropped by a board that leaves its slot, which is *)
(* not open: the destructor begins.                                        *)
LEMMA LastPut ==
  ASSUME IInv, NEW b \in Boards, pc[b] \in {"init", "register", "bound"},
         NEW ph \in {"out", "failed"}, pc' = [pc EXCEPT ![b] = ph],
         ~InUse(at[b]), user[at[b]] # "opening",
         NEW d \in Structure, d.kref = 1, d.opencnt = 0, d.mem,
         worker[at[b]] # "none" \/ d.urbs # "none" =>
           d.bufs = "live" /\ d.udev # NoBoard /\ d.eps,
         NEW more, more \subseteq {"double_free", "short"},
         "double_free" \in more => "short" \in more,
         d.bufs = "freed" => "short" \in more,
         kref_put(at[b], d, more), UNCHANGED <<boards, at, worker, user, plugs>>
  PROVE  IInv'
<1> DEFINE s == at[b]
<1>1. pc[b] \in Held
  BY DEF Held
<1>2. /\ s \in Slots /\ SlotInv(s) /\ TypeOK /\ boards[s] = "dev" /\ user[s] = "closed"
      /\ \A c \in Boards : Serving(c, s) => c = b
  BY <1>1, Probed DEF TypeOK, InUse
<1>3. /\ dev'[s] = [mem |-> d.mem, kref |-> d.kref - 1, opencnt |-> d.opencnt,
                    udev |-> d.udev, bufs |-> d.bufs, urbs |-> d.urbs, state |-> d.state,
                    ops |-> d.ops, eps |-> d.eps]
      /\ dev'[s] \in Structure /\ dev' = [dev EXCEPT ![s] = dev'[s]]
      /\ deleting'[s] = "begin"
      /\ \A t \in Slots \ {s} : deleting'[t] = deleting[t]
      /\ deleting' \in [Slots -> {"no", "begin", "wq", "kill", "end"}]
      /\ bad' = bad \cup more
  <2>1. d.kref \in 1 .. 2 /\ kref_put(s, d, more)
    OBVIOUS
  <2>2. QED BY <1>2, <2>1, Put
<1>4. \A c \in Boards : ~Refers(c, s)' /\ ~Serving(c, s)'
  BY <1>1, <1>2 DEF TypeOK, Serving, Refers, Held
<1>5. dev'[s].mem /\ dev'[s].kref = 0 /\ dev'[s].opencnt = 0 /\ ~InUse(s)'
      /\ dev'[s].bufs = d.bufs /\ dev'[s].udev = d.udev /\ dev'[s].eps = d.eps
      /\ dev'[s].urbs = d.urbs
  BY <1>2, <1>3 DEF InUse
<1>6. SlotInv(s)'
  BY <1>2, <1>3, <1>4, <1>5
     DEF SlotInv, Served, Vacant, Counted, Backed, Deleted, UsesAlive, Alive, AtRest, InUse, Count
<1>7. Clean' /\ bad' \subseteq Faults \cup {"short"} /\ bad \subseteq bad'
  BY <1>3, <1>2 DEF IInv, Clean, TypeOK, Faults
<1>8. /\ boards' \in [Slots -> {"null", "one", "dev"}]
      /\ worker' \in [Slots -> {"none", "queued", "init", "stages", "spawn"}]
  BY <1>2 DEF TypeOK
<1>9. QED BY <1>1, <1>2, <1>3, <1>6, <1>7, <1>8, InSlot, ZenonT(40)

LEMMA InitStep ==
  ASSUME IInv, NEW b \in Boards, probe_init(b)
  PROVE  IInv'
<1> DEFINE s == at[b]
           d == [mem |-> dev[s].mem, kref |-> 1, opencnt |-> dev[s].opencnt, udev |-> b,
                 bufs |-> "live", urbs |-> dev[s].urbs, state |-> "IDLE",
                 ops |-> dev[s].ops, eps |-> TRUE]
<1>1. pc[b] = "init" /\ pc[b] \in Held /\ UNCHANGED <<boards, at, worker, user, plugs>>
  BY DEF probe_init, Held
<1>2. /\ s \in Slots /\ SlotInv(s) /\ TypeOK /\ deleting[s] = "no" /\ boards[s] = "dev"
      /\ AtRest(s) /\ \A c \in Boards : Serving(c, s) => c = b
      /\ dev[s].kref = 0 /\ dev[s].opencnt = 0 /\ dev[s].mem
  BY <1>1, Probed DEF AtRest, InUse, Count, SlotInv, Vacant
<1>3. d \in Structure
  <2>1. /\ dev[s].mem \in BOOLEAN /\ dev[s].opencnt \in 0 .. 1
        /\ dev[s].ops \in {"none", "dummy", "real"} /\ dev[s].urbs \in {"none", "flying", "left"}
    BY <1>2, Typed
  <2>2. QED BY <2>1 DEF Structure
<1>4. ASSUME NEW e, e = [dev[s] EXCEPT !.kref = 1, !.state = "IDLE", !.udev = b,
                                       !.eps = TRUE, !.bufs = "live"]
      PROVE  e = d
  <2>1. dev[s] \in Structure
    BY <1>2, Typed
  <2>2. ASSUME NEW x \in Structure,
               e = [x EXCEPT !.kref = 1, !.state = "IDLE", !.udev = b,
                             !.eps = TRUE, !.bufs = "live"]
        PROVE  e = [mem |-> x.mem, kref |-> 1, opencnt |-> x.opencnt, udev |-> b,
                    bufs |-> "live", urbs |-> x.urbs, state |-> "IDLE", ops |-> x.ops,
                    eps |-> TRUE]
    BY <2>2 DEF Structure
  <2>3. QED BY <1>4, <2>1, <2>2
<1>5. CASE /\ dev' = [dev EXCEPT ![s] = [dev[s] EXCEPT !.kref = 1, !.state = "IDLE",
                                   !.udev = b, !.eps = TRUE, !.bufs = "live"]]
           /\ pc' = [pc EXCEPT ![b] = "register"] /\ UNCHANGED <<deleting, bad>>
  <2>1. dev'[s] = [dev[s] EXCEPT !.kref = 1, !.state = "IDLE", !.udev = b,
                                 !.eps = TRUE, !.bufs = "live"]
    BY <1>2, <1>5 DEF TypeOK
  <2>2. dev'[s] = d
    BY <2>1, <1>4
  <2>3. dev' = [dev EXCEPT ![s] = d] /\ pc'[b] = "register"
    <3>1. pc' = [pc EXCEPT ![b] = "register"] /\ pc \in [Boards -> {"out", "alloc", "init", "register", "bound", "failed"}]
      BY <1>2, <1>5 DEF TypeOK
    <3>2. pc'[b] = "register"
      BY <3>1
    <3>3. [dev[s] EXCEPT !.kref = 1, !.state = "IDLE", !.udev = b, !.eps = TRUE, !.bufs = "live"] = d
      BY <2>1, <2>2
    <3> HIDE DEF d
    <3>4. QED BY <1>5, <3>2, <3>3
  <2>4. /\ Refers(b, s)' /\ Serving(b, s)'
        /\ \A c \in Boards : Serving(c, s)' => c = b
    BY <1>1, <1>2, <1>5 DEF TypeOK, Serving, Refers, Held
  <2>5. b # NoBoard
    BY LifeConstants
  <2>6. SlotInv(s)'
    BY <1>1, <1>2, <1>5, <2>2, <2>3, <2>4, <2>5
       DEF SlotInv, Served, Vacant, Counted, Backed, Deleted, UsesAlive, Alive, AtRest, InUse, Count
  <2>7. Clean' /\ bad' \subseteq Faults \cup {"short"}
    BY <1>2, <1>5 DEF IInv, Clean, TypeOK
  <2>8. /\ boards' \in [Slots -> {"null", "one", "dev"}]
        /\ worker' \in [Slots -> {"none", "queued", "init", "stages", "spawn"}]
        /\ deleting' \in [Slots -> {"no", "begin", "wq", "kill", "end"}]
    BY <1>1, <1>2, <1>5 DEF TypeOK
  <2> HIDE DEF d
  <2>9. QED BY <1>1, <1>2, <1>3, <1>5, <2>3, <2>6, <2>7, <2>8, InSlot
<1>6. ASSUME NEW some \in BOOLEAN, NEW d0, NEW d1,
             d0 = [dev[s] EXCEPT !.kref = 1, !.state = "IDLE", !.udev = b,
                                 !.eps = TRUE, !.bufs = "live"],
             d1 = IF some THEN FreeBufs(d0) ELSE [d0 EXCEPT !.bufs = dev[s].bufs],
             kref_put(s, d1, FreeFault(dev[s]) \cup {"short"}),
             pc' = [pc EXCEPT ![b] = "failed"]
      PROVE  IInv'
  <2>1. d0 = d
    BY <1>4, <1>6
  <2>2. d1 = [mem |-> d.mem, kref |-> 1, opencnt |-> d.opencnt, udev |-> b,
              bufs |-> IF some THEN "freed" ELSE dev[s].bufs, urbs |-> d.urbs, state |-> "IDLE",
              ops |-> d.ops, eps |-> TRUE]
    BY <1>6, <2>1 DEF FreeBufs
  <2>3. d1 \in Structure
    <3>1. /\ dev[s].mem \in BOOLEAN /\ dev[s].opencnt \in 0 .. 1
          /\ dev[s].ops \in {"none", "dummy", "real"} /\ dev[s].urbs \in {"none", "flying", "left"}
          /\ dev[s].bufs \in {"none", "live", "freed"}
      BY <1>2, Typed
    <3>2. QED BY <2>2, <3>1 DEF Structure
  <2>4. /\ d1.kref = 1 /\ d1.opencnt = 0 /\ d1.mem /\ d1.urbs = "none"
        /\ worker[s] = "none" /\ user[s] = "closed"
    BY <1>2, <2>2 DEF AtRest
  <2> DEFINE more == FreeFault(dev[s]) \cup {"short"}
  <2>5. more \subseteq {"double_free", "short"} /\ "short" \in more
    BY DEF FreeFault
  <2> HIDE DEF d, more
  <2>6. kref_put(s, d1, more)
    BY <1>6 DEF more
  <2>7. ~InUse(s)
    BY <2>4 DEF InUse
  <2>8. QED BY <1>1, <1>6, <2>3, <2>4, <2>5, <2>6, <2>7, LastPut
<1>7. QED BY <1>5, <1>6 DEF probe_init

(* A NULL pointer used in a slot that is at rest, its probe registering.   *)
LEMMA RegisterCrash ==
  ASSUME IInv, NEW s \in Slots, AtRest(s), Alive(s), deleting[s] = "no",
         boards[s] = "dev", NEW o \in {"none", "dummy", "real"},
         dev' = [dev EXCEPT ![s].ops = o], bad' = bad \cup {"oops", "short"},
         UNCHANGED <<boards, pc, at, worker, user, deleting, plugs>>
  PROVE  IInv'
<1>1. TypeOK /\ dev[s] \in Structure /\ SlotInv(s)
  BY Typed DEF IInv
<1>2. dev'[s] = [dev[s] EXCEPT !.ops = o] /\ dev' = [dev EXCEPT ![s] = dev'[s]]
  BY <1>1 DEF TypeOK
<1>3. /\ dev'[s] \in Structure /\ dev'[s].mem = dev[s].mem /\ dev'[s].kref = dev[s].kref
      /\ dev'[s].opencnt = dev[s].opencnt /\ dev'[s].udev = dev[s].udev
      /\ dev'[s].bufs = dev[s].bufs /\ dev'[s].urbs = dev[s].urbs
      /\ dev'[s].eps = dev[s].eps
  BY <1>1, <1>2, Setting
<1>4. \A c \in Boards : /\ Serving(c, s)' <=> Serving(c, s)
                        /\ Refers(c, s)' <=> Refers(c, s)
  BY DEF Serving, Refers
<1>5. SlotInv(s)'
  <2>1. AtRest(s)' /\ Alive(s)' /\ user'[s] = "closed"
    BY <1>3 DEF AtRest, Alive
  <2>2. InUse(s)' <=> InUse(s)
    BY DEF InUse
  <2>3. Served(s)' /\ Vacant(s)'
    BY <1>1, <1>3, <1>4, <2>1 DEF SlotInv, Served, Vacant
  <2>4. Counted(s)'
    BY <1>1, <1>3, <1>4, <2>2 DEF SlotInv, Counted, Count
  <2>5. Backed(s)' /\ Deleted(s)' /\ UsesAlive(s)'
    BY <2>1 DEF Backed, Deleted, UsesAlive
  <2>6. QED BY <2>3, <2>4, <2>5 DEF SlotInv
<1>6. Clean' /\ bad' \subseteq Faults \cup {"short"} /\ bad \subseteq bad'
  BY <1>1, Crash DEF IInv, TypeOK
<1>7. /\ boards' \in [Slots -> {"null", "one", "dev"}]
      /\ worker' \in [Slots -> {"none", "queued", "init", "stages", "spawn"}]
      /\ user' \in [Slots -> {"closed", "opening", "open", "ioctl"}]
      /\ deleting' \in [Slots -> {"no", "begin", "wq", "kill", "end"}]
  BY <1>1 DEF TypeOK
<1>8. QED BY <1>2, <1>3, <1>5, <1>6, <1>7, AtSlot

LEMMA RegisterStep ==
  ASSUME IInv, NEW b \in Boards, probe_register(b)
  PROVE  IInv'
<1> DEFINE s == at[b]
<1>1. pc[b] = "register" /\ pc[b] \in Held /\ UNCHANGED <<boards, at, user, plugs>>
  BY DEF probe_register, Held
<1>2. /\ s \in Slots /\ SlotInv(s) /\ TypeOK /\ deleting[s] = "no" /\ boards[s] = "dev"
      /\ Serving(b, s) /\ \A c \in Boards : Serving(c, s) => c = b
      /\ AtRest(s) /\ Alive(s) /\ ~InUse(s)
      /\ dev[s].kref = 1 /\ dev[s].opencnt = 0 /\ dev[s] \in Structure
  <2>1. /\ s \in Slots /\ SlotInv(s) /\ TypeOK /\ deleting[s] = "no" /\ boards[s] = "dev"
        /\ Serving(b, s) /\ \A c \in Boards : Serving(c, s) => c = b
        /\ AtRest(s) /\ Alive(s)
    BY <1>1, Probed
  <2>2. ~InUse(s)
    BY <2>1 DEF AtRest, InUse
  <2>3. dev[s].kref = 1 /\ dev[s].opencnt = 0
    BY <1>1, <2>2, Probed DEF Count
  <2>4. QED BY <2>1, <2>2, <2>3, Typed
<1>3. CASE /\ dev' = [dev EXCEPT ![s].ops = "real"]
           /\ worker' = [worker EXCEPT ![s] = "queued"]
           /\ pc' = [pc EXCEPT ![b] = "bound"] /\ UNCHANGED <<deleting, bad>>
  <2>1. dev'[s] = [dev[s] EXCEPT !.ops = "real"] /\ dev' = [dev EXCEPT ![s] = dev'[s]]
    BY <1>2, <1>3 DEF TypeOK
  <2>2. dev'[s] \in Structure
    BY <1>2, <2>1 DEF Structure
  <2>3. /\ dev'[s].mem /\ dev'[s].bufs = "live" /\ dev'[s].udev # NoBoard /\ dev'[s].eps
        /\ dev'[s].kref = 1 /\ dev'[s].opencnt = 0
    BY <1>2, <2>1 DEF Structure, Alive
  <2>4. /\ Refers(b, s)' /\ Serving(b, s)' /\ pc'[b] = "bound" /\ worker'[s] = "queued"
        /\ \A c \in Boards : Serving(c, s)' => c = b
    BY <1>1, <1>2, <1>3 DEF TypeOK, Serving, Refers, Held
  <2>5. SlotInv(s)'
    BY <1>1, <1>2, <1>3, <2>3, <2>4
       DEF SlotInv, Served, Vacant, Counted, Backed, Deleted, UsesAlive, Alive, AtRest, InUse, Count
  <2>6. Clean' /\ bad' \subseteq Faults \cup {"short"}
    BY <1>2, <1>3 DEF IInv, Clean, TypeOK
  <2>7. /\ boards' \in [Slots -> {"null", "one", "dev"}]
        /\ worker' \in [Slots -> {"none", "queued", "init", "stages", "spawn"}]
        /\ \A t \in Slots \ {s} : worker'[t] = worker[t]
        /\ deleting' \in [Slots -> {"no", "begin", "wq", "kill", "end"}]
    BY <1>1, <1>2, <1>3 DEF TypeOK
  <2>8. QED BY <1>1, <1>2, <1>3, <2>1, <2>2, <2>5, <2>6, <2>7, InSlot
<1>4. CASE probe_error(b, s, {"short"}) /\ UNCHANGED worker
  <2> DEFINE d == [mem |-> dev[s].mem, kref |-> 1, opencnt |-> 0, udev |-> dev[s].udev,
                   bufs |-> "freed", urbs |-> dev[s].urbs, state |-> dev[s].state, ops |-> dev[s].ops,
                   eps |-> dev[s].eps]
  <2>1. FreeBufs(dev[s]) = d
    <3>1. ASSUME NEW x \in Structure, NEW e, e = [x EXCEPT !.bufs = IF @ = "none" THEN "none" ELSE "freed"],
                 x.kref = 1, x.opencnt = 0, x.bufs = "live"
          PROVE  e = [mem |-> x.mem, kref |-> 1, opencnt |-> 0, udev |-> x.udev,
                      bufs |-> "freed", urbs |-> x.urbs, state |-> x.state, ops |-> x.ops, eps |-> x.eps]
      BY <3>1 DEF Structure
    <3>2. QED BY <1>2, <3>1 DEF FreeBufs, Alive
  <2>2. d \in Structure
    <3>1. /\ dev[s].mem \in BOOLEAN /\ dev[s].eps \in BOOLEAN
          /\ dev[s].udev \in Boards \cup {NoBoard}
          /\ dev[s].state \in {"IDLE", "INIT", "OK", "ERROR", "UNLOAD"}
          /\ dev[s].ops \in {"none", "dummy", "real"} /\ dev[s].urbs \in {"none", "flying", "left"}
      BY <1>2, Typed
    <3>2. QED BY <3>1 DEF Structure
  <2> DEFINE more == FreeFault(dev[s]) \cup {"short"}
  <2>3. more \subseteq {"double_free", "short"} /\ "short" \in more
    BY DEF FreeFault
  <2>4. kref_put(s, d, more) /\ pc' = [pc EXCEPT ![b] = "failed"]
    BY <1>4, <2>1 DEF probe_error
  <2>5. /\ d.kref = 1 /\ d.opencnt = 0 /\ d.mem /\ d.urbs = "none"
        /\ worker[s] = "none" /\ user[s] = "closed"
    BY <1>2 DEF AtRest, Alive
  <2> HIDE DEF d, more
  <2>6. QED BY <1>1, <1>2, <1>4, <2>2, <2>3, <2>4, <2>5, LastPut
<1>5. CASE /\ UNCHANGED <<pc, worker, deleting>> /\ bad' = bad \cup {"oops", "short"}
           /\ UNCHANGED dev \/ dev' = [dev EXCEPT ![s].ops = "real"]
  <2>1. dev = [dev EXCEPT ![s].ops = dev[s].ops]
    BY <1>2, Typed DEF TypeOK
  <2>2. PICK o \in {dev[s].ops, "real"} : dev' = [dev EXCEPT ![s].ops = o]
    BY <1>5, <2>1
  <2>3. UNCHANGED <<boards, pc, at, worker, user, deleting, plugs>>
        /\ bad' = bad \cup {"oops", "short"}
    BY <1>1, <1>5
  <2>4. s \in Slots /\ o \in {"none", "dummy", "real"}
    BY <1>2, Typed
  <2> HIDE DEF s
  <2>5. QED BY <1>2, <2>2, <2>3, <2>4, RegisterCrash
<1>6. QED BY <1>3, <1>4, <1>5 DEF probe_register

LEMMA RefusedStep ==
  ASSUME IInv, NEW b \in Boards, unplug_refused(b)
  PROVE  IInv'
<1>1. /\ pc[b] = "failed" /\ pc' = [pc EXCEPT ![b] = "out"] /\ TypeOK
      /\ UNCHANGED <<boards, dev, at, worker, user, deleting, bad, plugs>>
  BY DEF unplug_refused, IInv
<1>2. ASSUME NEW t \in Slots PROVE SlotInv(t)'
  <2>1. \A c \in Boards : /\ Serving(c, t)' <=> Serving(c, t)
                          /\ Serving(c, t) => pc'[c] = pc[c]
    BY <1>1 DEF TypeOK, Serving, Held
  <2>2. QED BY <1>1, <2>1, Elsewhere DEF IInv
<1>3. TypeOK' /\ Clean'
  BY <1>1 DEF TypeOK, IInv, Clean
<1>4. Placed'
  BY <1>1 DEF TypeOK, IInv, Placed, SlotOf, Held
<1>5. QED BY <1>2, <1>3, <1>4 DEF IInv

(* disconnect: either the channel is open and keeps the structure, or the  *)
(* destructor begins.                                                      *)
LEMMA DisconnectStep ==
  ASSUME IInv, NEW b \in Boards, disconnect(b), user[at[b]] # "opening"
  PROVE  IInv'
<1> DEFINE s == at[b]
           d == [mem |-> dev[s].mem, kref |-> dev[s].kref, opencnt |-> dev[s].opencnt,
                 udev |-> dev[s].udev, bufs |-> dev[s].bufs, urbs |-> dev[s].urbs, state |-> "UNLOAD",
                 ops |-> dev[s].ops, eps |-> dev[s].eps]
<1>1. /\ pc[b] = "bound" /\ pc[b] \in Held /\ UNCHANGED <<boards, at, worker, user, plugs>>
      /\ pc' = [pc EXCEPT ![b] = "out"]
  BY DEF disconnect, Held
<1>2. /\ s \in Slots /\ SlotInv(s) /\ TypeOK /\ deleting[s] = "no" /\ boards[s] = "dev"
      /\ Serving(b, s) /\ \A c \in Boards : Serving(c, s) => c = b
      /\ Alive(s) /\ dev[s] \in Structure
      /\ dev[s].kref = 1 + Count(InUse(s)) /\ dev[s].opencnt = Count(InUse(s))
  BY <1>1, Probed, Typed DEF Count
<1>3. d \in Structure
  <2>1. /\ dev[s].mem \in BOOLEAN /\ dev[s].eps \in BOOLEAN
        /\ dev[s].kref \in 0 .. 2 /\ dev[s].opencnt \in 0 .. 1
        /\ dev[s].udev \in Boards \cup {NoBoard}
        /\ dev[s].bufs \in {"none", "live", "freed"}
        /\ dev[s].ops \in {"none", "dummy", "real"} /\ dev[s].urbs \in {"none", "flying", "left"}
    BY <1>2, Typed
  <2>2. QED BY <2>1 DEF Structure
<1>4. kref_put(s, d, {})
  <2>1. ASSUME NEW x \in Structure, NEW e, e = [x EXCEPT !.state = "UNLOAD"]
        PROVE  e = [mem |-> x.mem, kref |-> x.kref, opencnt |-> x.opencnt, udev |-> x.udev,
                    bufs |-> x.bufs, urbs |-> x.urbs, state |-> "UNLOAD", ops |-> x.ops, eps |-> x.eps]
    BY <2>1 DEF Structure
  <2>2. kref_put(s, [dev[s] EXCEPT !.state = "UNLOAD"], {})
    BY DEF disconnect
  <2>3. [dev[s] EXCEPT !.state = "UNLOAD"] = d
    BY <1>2, <2>1
  <2>4. QED BY <2>2, <2>3
<1>5. CASE ~InUse(s)
  <2>1. d.kref = 1 /\ d.opencnt = 0 /\ d.mem /\ d.bufs = "live" /\ d.udev # NoBoard /\ d.eps
    BY <1>2, <1>5 DEF Alive, Count
  <2> HIDE DEF d
  <2>2. QED BY <1>1, <1>2, <1>3, <1>4, <1>5, <2>1, LastPut
<1>6. CASE InUse(s)
  <2>1. d.kref = 2 /\ d.opencnt = 1 /\ d.mem /\ d.bufs = "live" /\ d.udev # NoBoard /\ d.eps
        /\ d.kref \in 1 .. 2
    BY <1>2, <1>6 DEF Alive, Count
  <2> HIDE DEF d
  <2>2. /\ dev'[s] = [mem |-> d.mem, kref |-> d.kref - 1, opencnt |-> d.opencnt,
                      udev |-> d.udev, bufs |-> d.bufs, urbs |-> d.urbs, state |-> d.state,
                      ops |-> d.ops, eps |-> d.eps]
        /\ dev'[s] \in Structure /\ dev' = [dev EXCEPT ![s] = dev'[s]]
        /\ deleting'[s] = deleting[s]
        /\ \A t \in Slots \ {s} : deleting'[t] = deleting[t]
        /\ deleting' \in [Slots -> {"no", "begin", "wq", "kill", "end"}]
        /\ bad' = bad
    <3>1. bad \cup {} = bad
      OBVIOUS
    <3>2. d.kref \in 1 .. 2 /\ s \in Slots /\ TypeOK /\ d.kref # 1
      BY <1>2, <2>1
    <3>3. /\ dev'[s] = [mem |-> d.mem, kref |-> d.kref - 1, opencnt |-> d.opencnt,
                        udev |-> d.udev, bufs |-> d.bufs, urbs |-> d.urbs, state |-> d.state,
                        ops |-> d.ops, eps |-> d.eps]
          /\ dev'[s] \in Structure /\ dev' = [dev EXCEPT ![s] = dev'[s]]
          /\ deleting'[s] = IF d.kref = 1 THEN "begin" ELSE deleting[s]
          /\ \A t \in Slots \ {s} : deleting'[t] = deleting[t]
          /\ deleting' \in [Slots -> {"no", "begin", "wq", "kill", "end"}]
          /\ bad' = bad \cup {}
      BY <1>3, <1>4, <3>2, Put, ZenonT(40)
    <3>4. QED BY <3>1, <3>2, <3>3
  <2>3. /\ dev'[s].mem /\ dev'[s].kref = 1 /\ dev'[s].opencnt = 1
        /\ dev'[s].bufs = "live" /\ dev'[s].udev # NoBoard /\ dev'[s].eps
    BY <2>1, <2>2
  <2>4. \A c \in Boards : ~Refers(c, s)' /\ ~Serving(c, s)'
    BY <1>1, <1>2 DEF TypeOK, Serving, Refers, Held
  <2>5. SlotInv(s)'
    BY <1>1, <1>2, <1>6, <2>2, <2>3, <2>4
       DEF SlotInv, Served, Vacant, Counted, Backed, Deleted, UsesAlive, Alive, AtRest, InUse, Count
  <2>6. Clean' /\ bad' \subseteq Faults \cup {"short"} /\ bad \subseteq bad'
    BY <1>2, <2>2 DEF IInv, Clean, TypeOK
  <2>7. /\ boards' \in [Slots -> {"null", "one", "dev"}]
        /\ worker' \in [Slots -> {"none", "queued", "init", "stages", "spawn"}]
    BY <1>1, <1>2 DEF TypeOK
  <2>8. QED BY <1>1, <1>2, <2>2, <2>5, <2>6, <2>7, InSlot
<1>7. QED BY <1>5, <1>6

-----------------------------------------------------------------------------
(***************************************************************************)
(* The steps of worker, opener and destructor: no board moves.             *)
(***************************************************************************)
(* The worker of a slot, or its engine, moves on, and changes nothing but  *)
(* the state and the URBs.                                                 *)
LEMMA StateStep ==
  ASSUME IInv, NEW s \in Slots, NEW d \in Structure, dev' = [dev EXCEPT ![s] = d],
         d.mem = dev[s].mem, d.kref = dev[s].kref, d.opencnt = dev[s].opencnt,
         d.udev = dev[s].udev, d.bufs = dev[s].bufs, d.ops = dev[s].ops, d.eps = dev[s].eps,
         NEW w \in {"none", "queued", "init", "stages", "spawn"},
         worker' = [worker EXCEPT ![s] = w],
         worker[s] # "none" \/ dev[s].urbs # "none", w # "none" => worker[s] # "none",
         UNCHANGED <<boards, pc, at, user, deleting, bad, plugs>>
  PROVE  IInv'
<1>1. TypeOK /\ dev[s] \in Structure /\ SlotInv(s) /\ worker'[s] = w
  BY Typed DEF IInv, TypeOK
<1>2. dev'[s] = d
  BY <1>1 DEF TypeOK
<1>3. /\ dev'[s].mem = dev[s].mem /\ dev'[s].kref = dev[s].kref
      /\ dev'[s].opencnt = dev[s].opencnt /\ dev'[s].udev = dev[s].udev
      /\ dev'[s].bufs = dev[s].bufs /\ dev'[s].ops = dev[s].ops /\ dev'[s].eps = dev[s].eps
  BY <1>2
<1>4. \A c \in Boards : /\ Serving(c, s)' <=> Serving(c, s)
                        /\ Refers(c, s)' <=> Refers(c, s)
  BY DEF Serving, Refers
<1>5. ~AtRest(s)
  BY DEF AtRest
<1>6. SlotInv(s)'
  <2>1. Served(s)' /\ Vacant(s)' /\ Deleted(s)'
    BY <1>1, <1>3, <1>4, <1>5 DEF SlotInv, Served, Vacant, Deleted, Alive
  <2>2. Counted(s)' /\ Backed(s)'
    BY <1>1, <1>3, <1>4 DEF SlotInv, Counted, Backed, InUse, Count
  <2>3. UsesAlive(s)'
    BY <1>1, <1>3 DEF SlotInv, UsesAlive, Alive, InUse
  <2>4. QED BY <2>1, <2>2, <2>3 DEF SlotInv
<1>7. /\ boards' \in [Slots -> {"null", "one", "dev"}]
      /\ worker' \in [Slots -> {"none", "queued", "init", "stages", "spawn"}]
      /\ user' \in [Slots -> {"closed", "opening", "open", "ioctl"}]
      /\ deleting' \in [Slots -> {"no", "begin", "wq", "kill", "end"}]
      /\ \A t \in Slots \ {s} : worker'[t] = worker[t]
      /\ Clean' /\ bad' \subseteq Faults \cup {"short"}
  BY <1>1 DEF IInv, TypeOK, Clean
<1>8. QED BY <1>6, <1>7, AtSlot

LEMMA SetupStep ==
  ASSUME IInv, NEW s \in Slots, setup(s)
  PROVE  IInv'
<1>1. TypeOK /\ dev[s] \in Structure /\ dev = [dev EXCEPT ![s] = dev[s]]
      /\ dev[s].state \in {"IDLE", "INIT", "OK", "ERROR", "UNLOAD"}
  BY Typed DEF IInv, TypeOK
<1>2. /\ UNCHANGED <<boards, pc, at, user, deleting, bad, plugs>> /\ worker[s] # "none"
      /\ \E w \in {"none", "queued", "init", "stages", "spawn"} :
           worker' = [worker EXCEPT ![s] = w]
  BY DEF setup, setup_start, setup_init_restart, setup_stages, setup_spawn
<1>3. \/ UNCHANGED dev
      \/ \E st \in {"IDLE", "INIT", "OK", "ERROR", "UNLOAD"} :
           dev' = [dev EXCEPT ![s] = [@ EXCEPT !.state = st]]
      \/ \E u \in {"none", "flying", "left"} : dev' = [dev EXCEPT ![s] = [@ EXCEPT !.urbs = u]]
  BY <1>1 DEF setup, setup_start, setup_init_restart, setup_stages, setup_spawn
<1>4. PICK d : /\ dev' = [dev EXCEPT ![s] = d]
               /\ \/ d = dev[s]
                  \/ \E st \in {"IDLE", "INIT", "OK", "ERROR", "UNLOAD"} :
                       d = [dev[s] EXCEPT !.state = st]
                  \/ \E u \in {"none", "flying", "left"} : d = [dev[s] EXCEPT !.urbs = u]
  BY <1>1, <1>3
<1>5. /\ d \in Structure /\ d.mem = dev[s].mem /\ d.kref = dev[s].kref
      /\ d.opencnt = dev[s].opencnt /\ d.udev = dev[s].udev /\ d.bufs = dev[s].bufs
      /\ d.ops = dev[s].ops /\ d.eps = dev[s].eps
  BY <1>1, <1>4, SettingState
<1>6. QED BY <1>2, <1>4, <1>5, StateStep

LEMMA IsocStep ==
  ASSUME IInv, NEW s \in Slots, isoc_cbak(s)
  PROVE  IInv'
<1>1. TypeOK /\ dev[s] \in Structure
      /\ worker[s] \in {"none", "queued", "init", "stages", "spawn"}
      /\ worker = [worker EXCEPT ![s] = worker[s]]
  BY Typed DEF IInv, TypeOK
<1>2. PICK u \in {"none", "left"} : dev' = [dev EXCEPT ![s] = [@ EXCEPT !.urbs = u]]
  BY DEF isoc_cbak
<1>3. PICK d : dev' = [dev EXCEPT ![s] = d] /\ d = [dev[s] EXCEPT !.urbs = u]
  BY <1>2
<1>4. /\ d \in Structure /\ d.mem = dev[s].mem /\ d.kref = dev[s].kref
      /\ d.opencnt = dev[s].opencnt /\ d.udev = dev[s].udev /\ d.bufs = dev[s].bufs
      /\ d.ops = dev[s].ops /\ d.eps = dev[s].eps
  BY <1>1, <1>3, SettingState
<1>5. dev[s].urbs # "none" /\ worker' = [worker EXCEPT ![s] = worker[s]]
      /\ UNCHANGED <<boards, pc, at, user, deleting, bad, plugs>>
  BY <1>1 DEF isoc_cbak
<1>6. QED BY <1>1, <1>3, <1>4, <1>5, StateStep

(* The opener moves, and nothing else.                                     *)
LEMMA UserStep ==
  ASSUME IInv, NEW s \in Slots, NEW u \in {"closed", "opening", "open", "ioctl"},
         user' = [user EXCEPT ![s] = u], InUse(s)' <=> InUse(s),
         u # "closed", u = "opening" => \E b \in Boards : Serving(b, s) /\ pc[b] = "bound",
         user[s] # "closed" \/ deleting[s] = "no",
         \A b \in Boards : Serving(b, s) => pc[b] = "bound", dev[s].kref # 0,
         boards[s] = "dev",
         UNCHANGED <<boards, dev, pc, at, worker, deleting, bad, plugs>>
  PROVE  IInv'
<1>1. TypeOK /\ dev[s] \in Structure /\ SlotInv(s) /\ user'[s] = u
  BY Typed DEF IInv, TypeOK
<1>2. \A c \in Boards : /\ Serving(c, s)' <=> Serving(c, s)
                        /\ Refers(c, s)' <=> Refers(c, s)
  BY DEF Serving, Refers
<1>3. SlotInv(s)'
  <2>1. Served(s)' /\ Vacant(s)'
    BY <1>1, <1>2 DEF SlotInv, Served, Vacant, Alive
  <2>2. Counted(s)'
    BY <1>1, <1>2 DEF SlotInv, Counted, Count
  <2>3. Deleted(s)'
    BY <1>1 DEF SlotInv, Deleted
  <2>4. Backed(s)'
    BY <1>1, <1>2 DEF SlotInv, Backed
  <2>5. UsesAlive(s)'
    BY <1>1 DEF SlotInv, UsesAlive, Alive
  <2>6. QED BY <2>1, <2>2, <2>3, <2>4, <2>5 DEF SlotInv
<1>4. dev' = [dev EXCEPT ![s] = dev[s]]
  BY <1>1 DEF TypeOK
<1>5. /\ boards' \in [Slots -> {"null", "one", "dev"}]
      /\ worker' \in [Slots -> {"none", "queued", "init", "stages", "spawn"}]
      /\ user' \in [Slots -> {"closed", "opening", "open", "ioctl"}]
      /\ deleting' \in [Slots -> {"no", "begin", "wq", "kill", "end"}]
      /\ \A t \in Slots \ {s} : user'[t] = user[t]
      /\ Clean' /\ bad' \subseteq Faults \cup {"short"}
  BY <1>1 DEF IInv, TypeOK, Clean
<1>6. QED BY <1>1, <1>3, <1>4, <1>5, AtSlot

LEMMA OpenCheckStep ==
  ASSUME IInv, NEW s \in Slots, open_check(s), deleting[s] = "no", "oops" \notin bad
  PROVE  IInv'
<1>1. /\ user[s] = "closed" /\ dev[s].ops = "real" /\ user' = [user EXCEPT ![s] = "opening"]
      /\ UNCHANGED <<boards, dev, pc, at, worker, deleting, bad, plugs>>
  BY DEF open_check
<1>2. SlotInv(s) /\ TypeOK /\ ~InUse(s) /\ ~AtRest(s)
  BY <1>1 DEF IInv, InUse, AtRest
<1>3. dev[s].kref # 0 /\ boards[s] = "dev"
  BY <1>2 DEF SlotInv, Deleted, Vacant
<1>4. \A b \in Boards : Serving(b, s) => pc[b] = "bound"
  BY <1>2 DEF SlotInv, Served
<1>5. \E b \in Boards : Serving(b, s) /\ pc[b] = "bound"
  <2>1. \E b \in Boards : Refers(b, s)
    BY <1>2, <1>3 DEF SlotInv, Counted, Count
  <2>2. QED BY <2>1, <1>4 DEF Refers, Serving, Held
<1>6. InUse(s)' <=> InUse(s)
  BY <1>1, <1>2 DEF InUse, TypeOK
<1>7. QED BY <1>1, <1>3, <1>4, <1>5, <1>6, UserStep

(* An open channel: the structure is referred to and not being deleted.    *)
LEMMA Open ==
  ASSUME IInv, NEW s \in Slots, InUse(s)
  PROVE  /\ SlotInv(s) /\ TypeOK /\ Alive(s) /\ boards[s] = "dev" /\ deleting[s] = "no"
         /\ dev[s].opencnt = 1 /\ dev[s] \in Structure
         /\ dev[s].kref = 1 + Count(\E b \in Boards : Refers(b, s))
         /\ \A b \in Boards : Serving(b, s) => pc[b] = "bound"
         /\ user[s] \in {"open", "ioctl"}
<1>1. SlotInv(s) /\ TypeOK /\ user[s] \in {"open", "ioctl"}
  BY DEF IInv, InUse
<1>2. /\ Alive(s) /\ boards[s] = "dev" /\ deleting[s] = "no"
      /\ \A b \in Boards : Serving(b, s) => pc[b] = "bound"
  BY <1>1 DEF SlotInv, UsesAlive, Vacant, Deleted, Served, AtRest, TypeOK
<1>3. dev[s].opencnt = 1 /\ dev[s].kref = 1 + Count(\E b \in Boards : Refers(b, s))
  BY <1>1 DEF SlotInv, Counted, Count
<1>4. QED BY <1>1, <1>2, <1>3, Typed

LEMMA IoctlStep ==
  ASSUME IInv, NEW s \in Slots, ioctl(s)
  PROVE  IInv'
<1>1. InUse(s)
  BY DEF ioctl, ioctl_enter, ioctl_exit, InUse
<1>2. \E u \in {"open", "ioctl"} : user' = [user EXCEPT ![s] = u]
  BY DEF ioctl, ioctl_enter, ioctl_exit
<1>3. InUse(s)' <=> InUse(s)
  BY <1>1, <1>2, Open DEF InUse, TypeOK
<1>4. UNCHANGED <<boards, dev, pc, at, worker, deleting, bad, plugs>>
  BY DEF ioctl, ioctl_enter, ioctl_exit
<1>5. dev[s].kref # 0
  BY <1>1, Open DEF Count
<1>6. QED BY <1>1, <1>2, <1>3, <1>4, <1>5, Open, UserStep, ZenonT(40)

(* The references of an open are taken: from now on it is counted.         *)
LEMMA OpenGetStep ==
  ASSUME IInv, NEW s \in Slots, open_get(s)
  PROVE  IInv'
<1>1. /\ user[s] = "opening" /\ user' = [user EXCEPT ![s] = "open"] /\ TypeOK /\ SlotInv(s)
      /\ UNCHANGED <<boards, pc, at, worker, deleting, plugs>> /\ ~InUse(s)
  BY DEF open_get, IInv, InUse
<1>2. PICK b \in Boards : Serving(b, s) /\ pc[b] = "bound"
  BY <1>1 DEF SlotInv, Backed
<1>3. /\ deleting[s] = "no" /\ boards[s] = "dev" /\ Alive(s) /\ Refers(b, s)
      /\ \A c \in Boards : Serving(c, s) => c = b
  BY <1>1, <1>2 DEF SlotInv, Served, Serving, Refers
<1>4. dev[s].kref = 1 /\ dev[s].opencnt = 0 /\ dev[s] \in Structure
  <2>1. dev[s].kref = Count(TRUE) + Count(FALSE) /\ dev[s].opencnt = Count(FALSE)
    BY <1>1, <1>3 DEF SlotInv, Counted, Count
  <2>2. dev[s].kref = 1 /\ dev[s].opencnt = 0
    BY <2>1 DEF Count
  <2>3. QED BY <1>1, <2>2, Typed
<1>5. dev' = [dev EXCEPT ![s].kref = @ + 1, ![s].opencnt = @ + 1] /\ bad' = bad
  BY <1>4 DEF open_get
<1>6. /\ dev'[s] = [dev[s] EXCEPT !.kref = @ + 1, !.opencnt = @ + 1]
      /\ dev' = [dev EXCEPT ![s] = dev'[s]] /\ user'[s] = "open"
  BY <1>1, <1>5 DEF TypeOK
<1>7. dev'[s] \in Structure
  <2>1. dev'[s] = [mem |-> dev[s].mem, kref |-> 2, opencnt |-> 1, udev |-> dev[s].udev,
                   bufs |-> dev[s].bufs, urbs |-> dev[s].urbs, state |-> dev[s].state, ops |-> dev[s].ops,
                   eps |-> dev[s].eps]
    <3>1. ASSUME NEW x \in Structure, x.kref = 1, x.opencnt = 0,
                 NEW e, e = [x EXCEPT !.kref = @ + 1, !.opencnt = @ + 1]
          PROVE  e = [mem |-> x.mem, kref |-> 2, opencnt |-> 1, udev |-> x.udev,
                      bufs |-> x.bufs, urbs |-> x.urbs, state |-> x.state, ops |-> x.ops, eps |-> x.eps]
      <4>1. e = [mem |-> x.mem, kref |-> x.kref + 1, opencnt |-> x.opencnt + 1,
                 udev |-> x.udev, bufs |-> x.bufs, urbs |-> x.urbs, state |-> x.state, ops |-> x.ops,
                 eps |-> x.eps]
        BY <3>1 DEF Structure
      <4>2. x.kref + 1 = 2 /\ x.opencnt + 1 = 1
        BY <3>1
      <4>3. QED BY <4>1, <4>2
    <3>2. QED BY <1>4, <1>6, <3>1
  <2>2. /\ dev[s].mem \in BOOLEAN /\ dev[s].eps \in BOOLEAN
        /\ dev[s].udev \in Boards \cup {NoBoard}
        /\ dev[s].bufs \in {"none", "live", "freed"}
        /\ dev[s].state \in {"IDLE", "INIT", "OK", "ERROR", "UNLOAD"}
        /\ dev[s].ops \in {"none", "dummy", "real"} /\ dev[s].urbs \in {"none", "flying", "left"}
    BY <1>1, Typed
  <2>3. QED BY <2>1, <2>2 DEF Structure
<1>8. /\ dev'[s].kref = 2 /\ dev'[s].opencnt = 1 /\ dev'[s].mem /\ dev'[s].bufs = "live"
      /\ dev'[s].udev # NoBoard /\ dev'[s].eps
  BY <1>3, <1>4, <1>6 DEF Structure, Alive
<1>9. \A c \in Boards : /\ Serving(c, s)' <=> Serving(c, s)
                        /\ Refers(c, s)' <=> Refers(c, s)
  BY <1>1 DEF Serving, Refers
<1>10. SlotInv(s)'
  BY <1>1, <1>2, <1>3, <1>6, <1>8, <1>9
     DEF SlotInv, Served, Vacant, Counted, Backed, Deleted, UsesAlive, Alive, AtRest, InUse, Count
<1>11. /\ boards' \in [Slots -> {"null", "one", "dev"}]
       /\ worker' \in [Slots -> {"none", "queued", "init", "stages", "spawn"}]
       /\ user' \in [Slots -> {"closed", "opening", "open", "ioctl"}]
       /\ deleting' \in [Slots -> {"no", "begin", "wq", "kill", "end"}]
       /\ \A t \in Slots \ {s} : user'[t] = user[t]
       /\ Clean' /\ bad' \subseteq Faults \cup {"short"}
  BY <1>1, <1>5 DEF IInv, TypeOK, Clean
<1>12. QED BY <1>1, <1>5, <1>6, <1>7, <1>10, <1>11, AtSlot

(* The last reference may be the channel's.                                *)
LEMMA CloseStep ==
  ASSUME IInv, NEW s \in Slots, close(s)
  PROVE  IInv'
<1> DEFINE d == [mem |-> dev[s].mem, kref |-> dev[s].kref, opencnt |-> 0,
                 udev |-> dev[s].udev, bufs |-> dev[s].bufs, urbs |-> dev[s].urbs, state |-> dev[s].state,
                 ops |-> dev[s].ops, eps |-> dev[s].eps]
<1>1. /\ user[s] = "open" /\ user' = [user EXCEPT ![s] = "closed"] /\ InUse(s)
      /\ UNCHANGED <<boards, pc, at, worker, plugs>>
  BY DEF close, InUse
<1>2. /\ SlotInv(s) /\ TypeOK /\ Alive(s) /\ boards[s] = "dev" /\ deleting[s] = "no"
      /\ dev[s].opencnt = 1 /\ dev[s] \in Structure
      /\ dev[s].kref = 1 + Count(\E b \in Boards : Refers(b, s))
      /\ \A b \in Boards : Serving(b, s) => pc[b] = "bound"
  BY <1>1, Open
<1>3. d \in Structure
  <2>1. /\ dev[s].mem \in BOOLEAN /\ dev[s].eps \in BOOLEAN
        /\ dev[s].kref \in 0 .. 2
        /\ dev[s].udev \in Boards \cup {NoBoard}
        /\ dev[s].bufs \in {"none", "live", "freed"}
        /\ dev[s].state \in {"IDLE", "INIT", "OK", "ERROR", "UNLOAD"}
        /\ dev[s].ops \in {"none", "dummy", "real"} /\ dev[s].urbs \in {"none", "flying", "left"}
    BY <1>2, Typed
  <2>2. QED BY <2>1 DEF Structure
<1>4. kref_put(s, d, {})
  <2>1. ASSUME NEW x \in Structure, x.opencnt = 1,
               NEW e, e = [x EXCEPT !.opencnt = IF @ = 0 THEN 0 ELSE @ - 1]
        PROVE  e = [mem |-> x.mem, kref |-> x.kref, opencnt |-> 0, udev |-> x.udev,
                    bufs |-> x.bufs, urbs |-> x.urbs, state |-> x.state, ops |-> x.ops, eps |-> x.eps]
    BY <2>1 DEF Structure
  <2>2. kref_put(s, [dev[s] EXCEPT !.opencnt = IF @ = 0 THEN 0 ELSE @ - 1], {})
    BY <1>2 DEF close, Alive
  <2>3. [dev[s] EXCEPT !.opencnt = IF @ = 0 THEN 0 ELSE @ - 1] = d
    BY <1>2, <2>1
  <2>4. QED BY <2>2, <2>3
<1>5. d.kref = dev[s].kref /\ d.opencnt = 0 /\ d.mem /\ d.bufs = "live" /\ d.udev # NoBoard /\ d.eps
  BY <1>2 DEF Alive
<1>6. dev[s].kref \in 1 .. 2
  BY <1>2 DEF Count
<1> HIDE DEF d
<1>7. /\ dev'[s] = [mem |-> d.mem, kref |-> d.kref - 1, opencnt |-> d.opencnt,
                    udev |-> d.udev, bufs |-> d.bufs, urbs |-> d.urbs, state |-> d.state,
                    ops |-> d.ops, eps |-> d.eps]
      /\ dev'[s] \in Structure /\ dev' = [dev EXCEPT ![s] = dev'[s]]
      /\ deleting'[s] = IF d.kref = 1 THEN "begin" ELSE deleting[s]
      /\ \A t \in Slots \ {s} : deleting'[t] = deleting[t]
      /\ deleting' \in [Slots -> {"no", "begin", "wq", "kill", "end"}]
      /\ bad' = bad \cup {}
  BY <1>2, <1>3, <1>4, <1>5, <1>6, Put
<1>8. /\ dev'[s].kref = Count(\E b \in Boards : Refers(b, s)) /\ dev'[s].opencnt = 0
      /\ dev'[s].mem /\ dev'[s].bufs = "live" /\ dev'[s].udev # NoBoard /\ dev'[s].eps
      /\ deleting'[s] = IF dev'[s].kref = 0 THEN "begin" ELSE "no"
      /\ user'[s] = "closed"
  BY <1>1, <1>2, <1>5, <1>7 DEF Count, TypeOK
<1>9. \A c \in Boards : /\ Serving(c, s)' <=> Serving(c, s)
                        /\ Refers(c, s)' <=> Refers(c, s)
                        /\ Serving(c, s) => Refers(c, s)
  BY <1>1, <1>2 DEF Serving, Refers
<1>10. SlotInv(s)'
  <2>1. Served(s)' /\ Vacant(s)'
    BY <1>1, <1>2, <1>8, <1>9 DEF SlotInv, Served, Vacant, Alive, Count
  <2>2. Counted(s)' /\ Backed(s)'
    BY <1>8, <1>9 DEF Counted, Backed, InUse, Count
  <2>3. Deleted(s)' /\ UsesAlive(s)'
    BY <1>8 DEF Deleted, UsesAlive, Alive, InUse
  <2>4. QED BY <2>1, <2>2, <2>3 DEF SlotInv
<1>11. /\ boards' \in [Slots -> {"null", "one", "dev"}]
       /\ worker' \in [Slots -> {"none", "queued", "init", "stages", "spawn"}]
       /\ user' \in [Slots -> {"closed", "opening", "open", "ioctl"}]
       /\ \A t \in Slots \ {s} : user'[t] = user[t]
       /\ Clean' /\ bad' \subseteq Faults \cup {"short"} /\ bad \subseteq bad'
  BY <1>1, <1>2, <1>7 DEF IInv, TypeOK, Clean
<1>12. QED BY <1>1, <1>7, <1>10, <1>11, AtSlot

(* A slot that serves nobody, after a step of its destructor.              *)
LEMMA Unserved ==
  ASSUME NEW s \in Slots,
         \A b \in Boards : ~Serving(b, s)' /\ ~Refers(b, s)',
         user'[s] = "closed", boards'[s] = "dev", dev'[s].mem,
         dev'[s].kref = 0, dev'[s].opencnt = 0,
         deleting'[s] = "no" => dev'[s].urbs = "none",
         deleting'[s] \in {"no", "kill", "end"} => worker'[s] = "none",
         deleting'[s] \in {"no", "wq", "kill", "end"} => dev'[s].ops # "real",
         deleting'[s] \in {"begin", "wq", "kill"} /\ dev'[s].bufs = "freed" => "short" \in bad',
         worker'[s] # "none" \/ dev'[s].urbs # "none" => Alive(s)' /\ deleting'[s] # "end"
  PROVE  SlotInv(s)'
<1>1. Served(s)'
  BY DEF Served
<1>2. Vacant(s)'
  BY DEF Vacant
<1>3. Counted(s)' /\ Backed(s)' /\ UsesAlive(s)'
  BY DEF Counted, Backed, UsesAlive, InUse, Count
<1>4. Deleted(s)'
  BY DEF Deleted, AtRest
<1>5. QED BY <1>1, <1>2, <1>3, <1>4 DEF SlotInv

(* The destructor.                                                         *)
LEMMA DeleteStep ==
  ASSUME IInv, NEW s \in Slots, delete(s)
  PROVE  IInv'
<1>1. /\ deleting[s] \in {"begin", "wq", "kill", "end"} /\ TypeOK /\ SlotInv(s) /\ dev[s] \in Structure
      /\ user[s] = "closed" /\ ~InUse(s) /\ boards[s] = "dev" /\ dev[s].mem
      /\ UNCHANGED <<pc, at, worker, user, plugs>>
  BY Typed DEF delete, delete_begin, delete_workqueue, delete_free, delete_end, IInv, SlotInv, Deleted,
               Vacant, InUse
<1>2. \A b \in Boards : ~Serving(b, s) /\ ~Refers(b, s)
  BY <1>1 DEF SlotInv, Served, Serving, Refers, Held
<1>3. dev[s].kref = 0 /\ dev[s].opencnt = 0
  BY <1>1, <1>2 DEF SlotInv, Counted, Count
<1>4. \A b \in Boards : ~Serving(b, s)' /\ ~Refers(b, s)'
  BY <1>1, <1>2 DEF Serving, Refers
<1>5. CASE delete_begin(s)
  <2>1. /\ dev' = [dev EXCEPT ![s].state = "UNLOAD",
                              ![s].ops = IF Rsrvd(s) THEN "dummy" ELSE "none"]
        /\ deleting' = [deleting EXCEPT ![s] = "wq"] /\ deleting[s] = "begin"
        /\ UNCHANGED <<boards, bad>>
    BY <1>5 DEF delete_begin
  <2>2. /\ dev'[s] = [dev[s] EXCEPT !.state = "UNLOAD", !.ops = IF Rsrvd(s) THEN "dummy" ELSE "none"]
        /\ dev' = [dev EXCEPT ![s] = dev'[s]] /\ deleting'[s] = "wq"
    BY <1>1, <2>1 DEF TypeOK
  <2>3. dev'[s] \in Structure
    BY <1>1, <2>2 DEF Structure
  <2>4. /\ dev'[s].mem = dev[s].mem /\ dev'[s].kref = 0 /\ dev'[s].opencnt = 0
        /\ dev'[s].udev = dev[s].udev /\ dev'[s].bufs = dev[s].bufs
        /\ dev'[s].ops # "real" /\ dev'[s].eps = dev[s].eps /\ dev'[s].urbs = dev[s].urbs
    BY <1>1, <1>3, <2>2 DEF Structure
  <2>5. SlotInv(s)'
    <3>1. worker'[s] # "none" \/ dev'[s].urbs # "none" => Alive(s)'
      BY <1>1, <2>4 DEF SlotInv, UsesAlive, Alive
    <3>2. dev'[s].bufs = "freed" => "short" \in bad'
      BY <1>1, <2>1, <2>4 DEF SlotInv, Deleted
    <3>3. user'[s] = "closed" /\ boards'[s] = "dev" /\ dev'[s].mem
      BY <1>1, <2>1, <2>4
    <3>4. QED BY <1>4, <2>2, <2>4, <3>1, <3>2, <3>3, Unserved
  <2>6. /\ boards' \in [Slots -> {"null", "one", "dev"}]
        /\ worker' \in [Slots -> {"none", "queued", "init", "stages", "spawn"}]
        /\ user' \in [Slots -> {"closed", "opening", "open", "ioctl"}]
        /\ deleting' \in [Slots -> {"no", "begin", "wq", "kill", "end"}]
        /\ \A t \in Slots \ {s} : deleting'[t] = deleting[t]
        /\ Clean' /\ bad' \subseteq Faults \cup {"short"}
    BY <1>1, <2>1 DEF IInv, TypeOK, Clean
  <2>7. QED BY <1>1, <2>1, <2>2, <2>3, <2>5, <2>6, AtSlot
<1>6. CASE delete_free(s)
  <2>1. /\ dev' = [dev EXCEPT ![s] = [FreeBufs(@) EXCEPT !.udev = NoBoard]]
        /\ deleting' = [deleting EXCEPT ![s] = "end"] /\ deleting[s] = "kill"
        /\ bad' = bad \cup FreeFault(dev[s]) /\ worker[s] = "none" /\ dev[s].urbs = "none"
        /\ UNCHANGED boards
    BY <1>1, <1>6 DEF delete_free, SlotInv, Deleted
  <2>2. /\ dev'[s] = [FreeBufs(dev[s]) EXCEPT !.udev = NoBoard]
        /\ dev' = [dev EXCEPT ![s] = dev'[s]] /\ deleting'[s] = "end"
    BY <1>1, <2>1 DEF TypeOK
  <2>3. /\ dev'[s] \in Structure
        /\ dev'[s].mem = dev[s].mem /\ dev'[s].kref = 0 /\ dev'[s].opencnt = 0
        /\ dev'[s].ops = dev[s].ops /\ dev'[s].urbs = dev[s].urbs
    <3>1. ASSUME NEW x \in Structure, x.kref = 0, x.opencnt = 0, NEW e, NEW g,
                 g = [x EXCEPT !.bufs = IF @ = "none" THEN "none" ELSE "freed"],
                 e = [g EXCEPT !.udev = NoBoard]
          PROVE  /\ e \in Structure /\ e.mem = x.mem /\ e.kref = 0 /\ e.opencnt = 0
                 /\ e.ops = x.ops /\ e.urbs = x.urbs
      BY <3>1 DEF Structure
    <3>2. FreeBufs(dev[s]) = [dev[s] EXCEPT !.bufs = IF @ = "none" THEN "none" ELSE "freed"]
      BY DEF FreeBufs
    <3>3. QED BY <1>1, <1>3, <2>2, <3>1, <3>2, ZenonT(40)
  <2>4. dev[s].ops # "real"
    BY <1>1, <2>1 DEF SlotInv, Deleted
  <2>5. SlotInv(s)'
    <3>1. /\ user'[s] = "closed" /\ boards'[s] = "dev" /\ dev'[s].mem
          /\ worker'[s] = "none" /\ dev'[s].ops # "real" /\ dev'[s].urbs = "none"
      BY <1>1, <2>1, <2>3, <2>4
    <3>2. QED BY <1>4, <2>2, <2>3, <3>1, Unserved
  <2>6. Clean' /\ bad' \subseteq Faults \cup {"short"} /\ bad \subseteq bad'
    <3>1. "double_free" \in bad' => "double_free" \in bad \/ dev[s].bufs = "freed"
      BY <2>1 DEF FreeFault
    <3>2. dev[s].bufs = "freed" => "short" \in bad
      BY <1>1, <2>1 DEF SlotInv, Deleted
    <3>3. QED BY <1>1, <2>1, <3>1, <3>2 DEF IInv, TypeOK, Clean, Faults, FreeFault
  <2>7. /\ boards' \in [Slots -> {"null", "one", "dev"}]
        /\ worker' \in [Slots -> {"none", "queued", "init", "stages", "spawn"}]
        /\ user' \in [Slots -> {"closed", "opening", "open", "ioctl"}]
        /\ deleting' \in [Slots -> {"no", "begin", "wq", "kill", "end"}]
        /\ \A t \in Slots \ {s} : deleting'[t] = deleting[t]
    BY <1>1, <2>1 DEF TypeOK
  <2>8. UNCHANGED <<pc, at, plugs>> /\ \A t \in Slots \ {s} : boards'[t] = boards[t]
                                      /\ worker'[t] = worker[t] /\ user'[t] = user[t]
    BY <1>1, <2>1
  <2>9. QED BY <2>2, <2>3, <2>5, <2>6, <2>7, <2>8, AtSlot
<1>7. CASE delete_end(s)
  <2>1. /\ deleting' = [deleting EXCEPT ![s] = "no"] /\ deleting[s] = "end"
        /\ UNCHANGED bad /\ worker[s] = "none" /\ deleting'[s] = "no"
        /\ dev[s].ops # "real" /\ dev[s].urbs = "none" /\ AtRest(s)
    BY <1>1, <1>7 DEF delete_end, SlotInv, UsesAlive, Deleted, AtRest, TypeOK
  <2>2. /\ deleting' \in [Slots -> {"no", "begin", "wq", "kill", "end"}]
        /\ worker' \in [Slots -> {"none", "queued", "init", "stages", "spawn"}]
        /\ user' \in [Slots -> {"closed", "opening", "open", "ioctl"}]
        /\ \A t \in Slots \ {s} : deleting'[t] = deleting[t]
        /\ Clean' /\ bad' \subseteq Faults \cup {"short"}
    BY <1>1, <2>1 DEF IInv, TypeOK, Clean
  <2>3. CASE Rsrvd(s)
    <3>1. /\ dev' = [dev EXCEPT ![s].state = "IDLE", ![s].eps = FALSE] /\ UNCHANGED boards
      BY <1>7, <2>3 DEF delete_end
    <3>2. /\ dev'[s] = [dev[s] EXCEPT !.state = "IDLE", !.eps = FALSE]
          /\ dev' = [dev EXCEPT ![s] = dev'[s]]
      BY <1>1, <3>1 DEF TypeOK
    <3>3. dev'[s] \in Structure
      BY <1>1, <3>2 DEF Structure
    <3>4. /\ dev'[s].mem = dev[s].mem /\ dev'[s].kref = 0 /\ dev'[s].opencnt = 0
          /\ dev'[s].ops = dev[s].ops /\ dev'[s].urbs = dev[s].urbs
      BY <1>1, <1>3, <3>2 DEF Structure
    <3>5. SlotInv(s)'
      <4>1. /\ user'[s] = "closed" /\ boards'[s] = "dev" /\ dev'[s].mem
            /\ worker'[s] = "none" /\ dev'[s].ops # "real" /\ dev'[s].urbs = "none"
        BY <1>1, <2>1, <3>1, <3>4
      <4>2. QED BY <1>4, <2>1, <3>4, <4>1, Unserved
    <3>6. boards' \in [Slots -> {"null", "one", "dev"}]
      BY <1>1, <3>1 DEF TypeOK
    <3>7. QED BY <1>1, <2>1, <2>2, <3>1, <3>2, <3>3, <3>5, <3>6, AtSlot
  <2>4. CASE ~Rsrvd(s)
    <3>1. dev' = [dev EXCEPT ![s] = Freed] /\ boards' = [boards EXCEPT ![s] = "null"]
      BY <1>7, <2>4 DEF delete_end
    <3>2. dev'[s] = Freed /\ boards'[s] = "null" /\ Freed \in Structure
      BY <1>1, <3>1, BlankFreed DEF TypeOK
    <3>3. /\ dev'[s].kref = 0 /\ dev'[s].opencnt = 0 /\ dev'[s].ops = "none"
          /\ dev'[s].urbs = "none"
      BY <3>2, BlankFreed
    <3>4. SlotInv(s)'
      BY <1>1, <1>4, <2>1, <2>4, <3>2, <3>3
         DEF SlotInv, Served, Vacant, Counted, Backed, Deleted, UsesAlive, Alive, AtRest, InUse,
             Count, Rsrvd
    <3>5. /\ boards' \in [Slots -> {"null", "one", "dev"}]
          /\ \A t \in Slots \ {s} : boards'[t] = boards[t]
      BY <1>1, <3>1 DEF TypeOK
    <3>6. QED BY <1>1, <2>1, <2>2, <3>1, <3>2, <3>4, <3>5, AtSlot
  <2>5. QED BY <2>3, <2>4
<1>8. CASE delete_workqueue(s)
  <2>1. /\ deleting' = [deleting EXCEPT ![s] = "kill"] /\ deleting[s] = "wq"
        /\ worker[s] = "none" /\ UNCHANGED <<boards, dev, bad>>
    BY <1>8 DEF delete_workqueue
  <2>2. deleting'[s] = "kill" /\ dev' = [dev EXCEPT ![s] = dev[s]]
    BY <1>1, <2>1 DEF TypeOK
  <2>3. SlotInv(s)'
    <3>1. /\ user'[s] = "closed" /\ boards'[s] = "dev" /\ dev'[s].mem
          /\ worker'[s] = "none" /\ dev'[s].ops # "real"
          /\ dev'[s].bufs = "freed" => "short" \in bad'
          /\ dev'[s].urbs # "none" => Alive(s)'
      BY <1>1, <2>1 DEF SlotInv, Deleted, UsesAlive, Alive
    <3>2. QED BY <1>3, <1>4, <2>1, <2>2, <3>1, Unserved
  <2>4. /\ boards' \in [Slots -> {"null", "one", "dev"}]
        /\ worker' \in [Slots -> {"none", "queued", "init", "stages", "spawn"}]
        /\ user' \in [Slots -> {"closed", "opening", "open", "ioctl"}]
        /\ deleting' \in [Slots -> {"no", "begin", "wq", "kill", "end"}]
        /\ \A t \in Slots \ {s} : deleting'[t] = deleting[t]
        /\ Clean' /\ bad' \subseteq Faults \cup {"short"}
    BY <1>1, <2>1 DEF IInv, TypeOK, Clean
  <2>5. QED BY <1>1, <2>1, <2>2, <2>3, <2>4, AtSlot
<1>9. QED BY <1>5, <1>6, <1>7, <1>8 DEF delete
-----------------------------------------------------------------------------
(***************************************************************************)
(* The theorems.                                                           *)
(***************************************************************************)
LEMMA Inductive == IInv /\ [Next /\ Orderly]_vars => IInv'
<1> SUFFICES ASSUME IInv, [Next /\ Orderly]_vars PROVE IInv'
  OBVIOUS
<1>1. CASE UNCHANGED vars
  <2>1. TypeOK' /\ Placed' /\ Clean'
    BY <1>1 DEF vars, IInv, TypeOK, Placed, Clean, SlotOf, Held
  <2>2. ASSUME NEW s \in Slots PROVE SlotInv(s)'
    <3>1. \A b \in Boards : Serving(b, s)' <=> Serving(b, s)
      BY <1>1 DEF vars, Serving, Held
    <3>2. QED BY <1>1, <3>1, Elsewhere DEF vars, IInv
  <2>3. QED BY <2>1, <2>2 DEF IInv
<1>2. CASE Next /\ Orderly
  <2>1. ASSUME NEW b \in Boards, probe(b) PROVE IInv'
    <3>1. CASE probe_reserved(b)
      <4>1. \A s \in SlotOf(b) : /\ dev[s].udev = NoBoard /\ deleting[s] = "no"
                                 /\ \A c \in ReservedFor[s] : pc[c] = "out"
        BY <1>2, <3>1 DEF Orderly
      <4>2. QED BY <3>1, <4>1, ReservedStep
    <3>2. QED BY <2>1, <3>1, FindSlotStep, KzallocStep, InitStep, RegisterStep DEF probe
  <2>2. ASSUME NEW b \in Boards, unplug_refused(b) PROVE IInv'
    BY <2>2, RefusedStep
  <2>3. ASSUME NEW b \in Boards, disconnect(b) PROVE IInv'
    <3>1. user[at[b]] # "opening"
      BY <1>2, <2>3 DEF Orderly
    <3>2. QED BY <2>3, <3>1, DisconnectStep
  <2>4. ASSUME NEW s \in Slots, setup(s) PROVE IInv'
    BY <2>4, SetupStep
  <2>5. ASSUME NEW s \in Slots, open(s) PROVE IInv'
    <3>1. (open_check(s) => deleting[s] = "no") /\ "oops" \notin bad
      BY <1>2 DEF Orderly, Next, Faults
    <3>2. QED BY <2>5, <3>1, OpenCheckStep, OpenGetStep DEF open
  <2>6. ASSUME NEW s \in Slots, ioctl(s) PROVE IInv'
    BY <2>6, IoctlStep
  <2>7. ASSUME NEW s \in Slots, close(s) PROVE IInv'
    BY <2>7, CloseStep
  <2>8. ASSUME NEW s \in Slots, delete(s) PROVE IInv'
    BY <2>8, DeleteStep
  <2>9. ASSUME NEW s \in Slots, isoc_cbak(s) PROVE IInv'
    BY <2>9, IsocStep
  <2>10. QED BY <1>2, <2>1, <2>2, <2>3, <2>4, <2>5, <2>6, <2>7, <2>8, <2>9 DEF Next
<1>3. QED BY <1>1, <1>2

LEMMA Invariance == OrderlySpec => []IInv
BY InitInv, Inductive, PTL DEF OrderlySpec

(* In the orderly world every variable keeps its type: no reference count  *)
(* leaves 0 .. 2, no open count leaves 0 .. 1, whatever order of probes,   *)
(* failures, opens, closes and unplugs.                                    *)
THEOREM TypeCorrect == OrderlySpec => []TypeOK
<1>1. IInv => TypeOK
  BY DEF IInv
<1>2. QED BY Invariance, <1>1, PTL

(* The reference count of a structure is the number of interfaces bound to *)
(* it plus one for the open channel (kref_init, kref_get and kref_put in   *)
(* oufxs_probe, _open, _close and _disconnect).                            *)
THEOREM RefCountExact == OrderlySpec => []RefCount
<1>1. ASSUME IInv PROVE RefCount
  <2> SUFFICES ASSUME NEW s \in Slots
               PROVE  dev[s].kref = Cardinality(Bound(s)) + Count(InUse(s))
    BY DEF RefCount
  <2>1. Bound(s) = {b \in Boards : Refers(b, s)}
    BY DEF Bound, Refers
  <2>2. /\ dev[s].kref = Count(\E b \in Boards : Refers(b, s)) + Count(InUse(s))
        /\ \A b, c \in Boards : Refers(b, s) /\ Refers(c, s) => b = c
    <3>1. Counted(s) /\ Served(s)
      BY <1>1 DEF IInv, SlotInv
    <3>2. \A b \in Boards : Refers(b, s) => Serving(b, s)
      BY DEF Refers, Serving, Held
    <3>3. QED BY <3>1, <3>2 DEF Counted, Served
  <2>3. CASE \E b \in Boards : Refers(b, s)
    <3>1. PICK b \in Boards : Refers(b, s)
      BY <2>3
    <3>2. Bound(s) = {b}
      BY <2>1, <2>2, <3>1
    <3>3. Cardinality(Bound(s)) = 1
      BY <3>2, FS_Singleton
    <3>4. QED BY <2>2, <2>3, <3>3 DEF Count
  <2>4. CASE ~ \E b \in Boards : Refers(b, s)
    <3>1. Bound(s) = {}
      BY <2>1, <2>4
    <3>2. Cardinality(Bound(s)) = 0
      BY <3>1, FS_EmptySet
    <3>3. QED BY <2>2, <2>4, <3>2 DEF Count
  <2>5. QED BY <2>3, <2>4
<1>2. QED BY Invariance, <1>1, PTL

(* Who has a channel open, runs the setup work of a board or completes one *)
(* of its URBs finds its memory, its buffers and its USB device there,     *)
(* after an unplug too (oufxs_ioctl, oufxs_close, oufxs_setup and the      *)
(* callbacks against oufxs_delete).                                        *)
THEOREM UsersFindIt == OrderlySpec => []InUseAlive
<1>1. IInv => InUseAlive
  BY DEF IInv, SlotInv, UsesAlive, Alive, InUseAlive
<1>2. QED BY Invariance, <1>1, PTL

(* Two boards never work on the same slot of boards[], however their       *)
(* probes interleave (the mark set under boardslock in oufxs_probe).       *)
THEOREM SlotsAreNotShared == OrderlySpec => []OneBoardPerSlot
<1>1. ASSUME IInv PROVE OneBoardPerSlot
  <2> SUFFICES ASSUME NEW b \in Boards, NEW c \in Boards, at[b] = at[c],
                      pc[b] \in Held, pc[c] \in Held
               PROVE  b = c
    BY DEF OneBoardPerSlot, Held
  <2>1. Serving(b, at[b]) /\ Serving(c, at[b]) /\ at[b] \in Slots
    BY <1>1 DEF Serving, IInv, TypeOK
  <2>2. QED BY <1>1, <2>1 DEF IInv, SlotInv, Served
<1>2. QED BY Invariance, <1>1, PTL

(* No reference is dropped or taken at zero and no channel is closed after *)
(* its structure is gone, whatever happens; and no buffer is freed twice   *)
(* and no NULL pointer is used before a probe has found no free slot, no   *)
(* memory or no registration.                                              *)
THEOREM FaultsComeFromShortage == OrderlySpec => []Clean
<1>1. IInv => Clean
  BY DEF IInv
<1>2. QED BY Invariance, <1>1, PTL

(* oufxs_delete is never entered while the channel is open, or counted as  *)
(* open.                                                                   *)
THEOREM DeletedUnopened == OrderlySpec => []DeleteUnopened
<1>1. ASSUME IInv PROVE DeleteUnopened
  BY <1>1 DEF IInv, SlotInv, Deleted, Counted, Count, InUse, DeleteUnopened
<1>2. QED BY Invariance, <1>1, PTL
=============================================================================
