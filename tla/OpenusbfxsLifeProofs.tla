------------------------- MODULE OpenusbfxsLifeProofs -------------------------
(***************************************************************************)
(* Proofs about a board of the original character-device driver, for every *)
(* number of processes, URBs, retries and failures: the reference count is *)
(* exact, nothing works on memory that is not there, and no URB is left on *)
(* the anchor before disconnect has begun.                                 *)
(*                                                                         *)
(* The invariant has a part for each concern: who holds the structure      *)
(* (Counted), who has the device open and the mutex (Exclusive), what is   *)
(* still untouched while probe is not through (Unborn), what disconnect has*)
(* already waited for (Ending), who still works through the interface      *)
(* (Linked), and where the URBs are (Urbs).                                *)
(***************************************************************************)
EXTENDS OpenusbfxsLife, TLAPS, FiniteSetTheorems

Doings  == {"closed", "found", "counted", "open", "reading", "asleep", "ioctl", "released"}
Using   == {"open", "reading", "asleep", "ioctl"}
Holding == {"counted", "released"} \cup Using
Holders == {p \in Procs : f[p] \in Holding}
Driver  == IF probe # "none" /\ disc # "done" THEN 1 ELSE 0

Typed ==
  /\ probe \in {"none", "allocated", "checked", "registered", "done"}
  /\ state \in {"IDLE", "INIT", "OK", "UNLOAD"}
  /\ deleted \in {"no", "waiting", "freed"}
  /\ disc \in {"idle", "state", "minor", "intf", "kill", "put", "done"}
  /\ wpc \in {"none", "wait", "restart", "silent", "report", "mark", "spawn", "anchored",
              "submit", "ended"} \cup DOMAIN next_label
  /\ timedout \in BOOLEAN /\ timeouts \in 0 .. (Silent + 1)
  /\ f \in [Procs -> Doings]
  /\ n \in 0 .. Tries /\ fails \in [Tests -> 0 .. 3] /\ errors \in 0 .. MaxErrors
  /\ left \in 0 .. InFlight /\ anchored \in Nat /\ flying \in Nat

(* The driver holds the structure until disconnect puts it, a process from *)
(* open to release.                                                        *)
Counted == kref = Cardinality(Holders) + Driver

(* One process at most has the device open, and who is in ioctl has the    *)
(* mutex.                                                                  *)
Exclusive ==
  /\ \A p, q \in Procs : f[p] \in Using /\ f[q] \in Using => p = q
  /\ opencnt = IF \E p \in Procs : f[p] \in Using THEN 1 ELSE 0
  /\ iomutex \in Procs \cup {"free"}
  /\ \A p \in Procs : f[p] = "ioctl" <=> iomutex = p

(* Until probe is through, nobody has found the structure, although the    *)
(* minor is there: the state is not OK.                                    *)
Unborn ==
  probe # "done" =>
    /\ wpc = "none" /\ state = "IDLE" /\ plugged /\ disc = "idle" /\ deleted = "no"
    /\ \A p \in Procs : f[p] = "closed"

(* Disconnect begins when no URB flies and none can any more; it has waited*)
(* for who was in open; delete follows the last reference and waits for the*)
(* work.                                                                   *)
Ending ==
  /\ disc # "idle" => ~plugged /\ flying = 0
  /\ disc \in {"intf", "kill", "put", "done"} =>
       ~minor /\ \A p \in Procs : f[p] \notin {"found", "counted"}
  /\ deleted # "no" => kref = 0 /\ disc = "done"
  /\ deleted = "freed" => wpc = "ended"

(* The set-up spawns an URB in three steps, of which the second looks at   *)
(* the state, which is OK until disconnect changes it.                     *)
Early == disc \in {"idle", "state"}

Urbs ==
  /\ anchored + left <= InFlight /\ flying <= anchored
  /\ wpc \in {"anchored", "submit"} => flying < anchored
  /\ Early => anchored = flying + (IF wpc \in {"anchored", "submit"} THEN 1 ELSE 0)
  /\ Early /\ wpc \in {"spawn", "anchored", "submit"} => state = "OK"

(* dev->intf is there from probe until disconnect has got hold of iomutex. *)
(* When disconnect has set the state no ioctl begins: the set-up may set it*)
(* to OK again, but then nobody has opened the device, and nobody will.    *)
Cleared == disc \in {"kill", "put", "done"}
SetUp   == wpc \in {"spawn", "anchored", "submit", "ended"}

Linked ==
  /\ probe # "none" /\ ~Cleared => intf
  /\ disc # "idle" => ~intfdata
  /\ \A p \in Procs : f[p] = "ioctl" => ~Cleared
  /\ ~Early /\ state = "OK" => \A p \in Procs : f[p] = "closed"
  /\ ~SetUp => state # "OK" /\ \A p \in Procs : f[p] = "closed"

LifeInv == Typed /\ Counted /\ Exclusive /\ Unborn /\ Ending /\ Urbs /\ Linked

-----------------------------------------------------------------------------
LEMMA LifeInit == Init => LifeInv
<1> SUFFICES ASSUME Init PROVE LifeInv
  OBVIOUS
<1> USE OpenusbfxsConstants
<1>1. Typed
  <2>1. timedout \in BOOLEAN
    BY Zenon DEF Init
  <2>2. QED BY <2>1 DEF Init, Typed, Doings, Tests
<1>2. Counted
  <2>1. Holders = {}
    BY DEF Init, Holders, Holding, Using
  <2>2. Cardinality(Holders) = 0
    BY <2>1, FS_EmptySet
  <2>3. QED BY <2>2 DEF Init, Counted, Driver
<1>3. Exclusive /\ Unborn /\ Ending /\ Urbs /\ Linked
  BY DEF Init, Exclusive, Unborn, Ending, Urbs, Linked, Cleared, SetUp, Early, Using
<1>4. QED BY <1>1, <1>2, <1>3 DEF LifeInv

(* A step that wakes sleepers at most does not change who holds or uses.   *)
LEMMA Waking ==
  ASSUME Typed, Exclusive, f' = f \/ f' = awaken(f)
  PROVE  /\ f' \in [Procs -> Doings] /\ Holders' = Holders
         /\ \A p \in Procs : /\ f'[p] \in Using <=> f[p] \in Using
                             /\ f'[p] \in Holding <=> f[p] \in Holding
                             /\ f'[p] = "ioctl" <=> f[p] = "ioctl"
                             /\ f'[p] \in {"found", "counted"} <=> f[p] \in {"found", "counted"}
                             /\ f[p] = "closed" => f'[p] = "closed"
BY DEF Typed, Exclusive, awaken, Doings, Using, Holding, Holders

LEMMA HoldersFinite == IsFiniteSet(Holders) /\ Cardinality(Holders) \in Nat
                       /\ Cardinality(Holders) <= Cardinality(Procs)
BY OpenusbfxsConstants, FS_Subset, FS_CardinalityType DEF Holders

(* The count does not change as long as nobody starts or ends holding.     *)
LEMMA SameCount ==
  ASSUME Counted, kref' = kref, Driver' = Driver, Holders' = Holders
  PROVE  Counted'
BY DEF Counted

(* Steps of processes, and what wakes them, as far as Linked is concerned: *)
(* who begins does so early, and ioctl before the interface is cleared.    *)
LEMMA LinkedKept ==
  ASSUME Linked, UNCHANGED <<probe, disc, intf, intfdata, wpc>>, state' \in {state, "UNLOAD"},
         \A p \in Procs : f'[p] = "ioctl" => f[p] = "ioctl" \/ ~Cleared,
         \A p \in Procs : f[p] = "closed" => f'[p] = "closed" \/ (Early /\ SetUp)
  PROVE  Linked'
BY DEF Linked, Cleared, SetUp, Early

-----------------------------------------------------------------------------
(***************************************************************************)
(* Probe, set-up, the bus.                                                 *)
(***************************************************************************)
LEMMA ProbingStep ==
  ASSUME LifeInv, probing
  PROVE  LifeInv'
<1> USE DEF LifeInv
<1>1. /\ UNCHANGED <<oops, plugged, disc, state, opencnt, deleted, iomutex, n, fails, left,
                     timedout, timeouts, anchored, flying, f, errors>>
      /\ probe \in {"none", "allocated", "checked", "registered"}
      /\ probe' \in {"allocated", "checked", "registered", "done"}
      /\ wpc' = IF probe' = "done" THEN "wait" ELSE wpc
      /\ kref' = IF probe = "none" THEN 1 ELSE kref
      /\ intf' = IF probe = "none" THEN TRUE ELSE intf
  BY DEF probing, probe_step, urbVars
<1>2. /\ wpc = "none" /\ state = "IDLE" /\ plugged /\ disc = "idle" /\ deleted = "no"
      /\ \A p \in Procs : f[p] = "closed"
  BY <1>1 DEF Unborn
<1>3. Typed' /\ Unborn' /\ Ending' /\ Urbs'
  BY <1>1, <1>2 DEF Typed, Unborn, Ending, Urbs, Early
<1>7. Linked'
  BY <1>1, <1>2 DEF Linked, Cleared, SetUp, Early
<1>4. Counted'
  <2>1. Holders = {} /\ Holders' = {}
    BY <1>1, <1>2 DEF Holders, Holding, Using
  <2>2. Cardinality(Holders) = 0 /\ Cardinality(Holders') = 0
    BY <2>1, FS_EmptySet
  <2>3. QED BY <1>1, <1>2, <2>2 DEF Counted, Driver
<1>5. Exclusive'
  BY <1>1 DEF Exclusive
<1>6. QED BY <1>3, <1>4, <1>5, <1>7

LEMMA Labels == DOMAIN next_label =
  {"sanity", "quiesce", "dcdc", "disable", "cal", "q5q6", "lbc", "longcal", "final"}
BY DEF next_label

(* The set-up leaves everything alone but itself, the state and the URBs.  *)
LEMMA SetupStep ==
  ASSUME LifeInv, setup
  PROVE  LifeInv'
<1> USE OpenusbfxsConstants DEF LifeInv
<1>1. /\ UNCHANGED <<kref, opencnt, deleted, iomutex, probe, intfdata, minor, intf, plugged,
                     disc, f>>
      /\ wpc \notin {"none", "ended"}
  BY Labels DEF setup, setup_wait, setup_restart, setup_message, setup_commands, setup_mark,
         spawn_anchor, spawn_check, spawn_submit, board, busVars
<1>2. Counted' /\ Exclusive'
  BY <1>1 DEF Counted, Holders, Driver, Exclusive
<1>3. probe = "done"
  BY <1>1 DEF Unborn
<1>4. Unborn'
  BY <1>1, <1>3 DEF Unborn
<1>5. deleted # "freed"
  BY <1>1 DEF Ending
<1>6. CASE setup_wait \/ setup_restart \/ setup_message \/ setup_mark
  <2>1. /\ UNCHANGED <<fails, left, anchored, flying, errors, timedout>> /\ n' \in {n, 0}
        /\ wpc' \in {wpc, "restart", "ended", "sanity", "silent", "spawn"}
        /\ state' \in {"INIT", "OK", state} /\ (state' = "OK" => wpc' = "spawn" \/ state = "OK")
        /\ (wpc' = "spawn" => state' = "OK")
        /\ wpc \notin {"spawn", "anchored", "submit", "ended"}
    BY <1>6 DEF setup_wait, setup_restart, setup_message, setup_mark, urbVars
  <2>2. timeouts' \in 0 .. (Silent + 1)
    BY <1>6 DEF setup_wait, setup_restart, setup_message, setup_mark, Typed
  <2>3. Typed'
    BY <1>1, <2>1, <2>2, Labels DEF Typed
  <2>4. Ending' /\ Urbs'
    BY <1>1, <1>5, <2>1 DEF Ending, Urbs, Early
  <2>5. Linked'
    BY <1>1, <2>1 DEF Linked, Cleared, SetUp, Early
  <2>6. QED BY <1>2, <1>4, <2>3, <2>4, <2>5
<1>7. CASE setup_commands
  <2>1. /\ UNCHANGED <<state, left, anchored, flying>> /\ wpc \in DOMAIN next_label
        /\ wpc' \in {next_label[wpc], "restart", "report", "ended", wpc}
        /\ n' \in {n, 0, n + 1} /\ (n' = n + 1 => n + 1 < Tries)
        /\ errors' \in {errors, errors + 1} /\ (errors' = errors + 1 => errors < MaxErrors)
    <3>1. UNCHANGED <<state, left, anchored, flying>> /\ wpc \in DOMAIN next_label
          /\ n \in Nat /\ errors \in Nat
      BY <1>7 DEF setup_commands, urbVars, Typed
    <3>2. CASE commands_ok
      BY <3>1, <3>2 DEF commands_ok
    <3>3. CASE command_error
      BY <3>1, <3>3 DEF command_error
    <3>4. CASE test_bad
      BY <3>1, <3>4 DEF test_bad
    <3>5. QED BY <1>7, <3>1, <3>2, <3>3, <3>4 DEF setup_commands
  <2>2. next_label[wpc] \in DOMAIN next_label \cup {"mark"}
    BY <2>1 DEF next_label
  <2>3. wpc' \in DOMAIN next_label \cup {"mark", "restart", "report", "ended"}
    BY <2>1, <2>2
  <2>4. fails' \in [Tests -> 0 .. 3]
    BY <1>7 DEF setup_commands, commands_ok, command_error, test_bad, Typed
  <2>8. timeouts' \in 0 .. (Silent + 1) /\ timedout' \in BOOLEAN
    <3>1. timeouts' \in {timeouts, 0}
      BY <1>7 DEF setup_commands, commands_ok, command_error, test_bad
    <3>2. timedout' \in BOOLEAN
      BY <1>7, Zenon DEF setup_commands, commands_ok, command_error, test_bad
    <3>3. timeouts \in 0 .. (Silent + 1) /\ 0 \in 0 .. (Silent + 1)
      BY DEF Typed
    <3>4. QED BY <3>1, <3>2, <3>3
  <2>5. Typed'
    BY <1>1, <2>1, <2>3, <2>4, <2>8 DEF Typed
  <2>9. Linked'
    BY <1>1, <2>1, <2>3, Labels DEF Linked, Cleared, SetUp, Early
  <2>6. Ending' /\ Urbs'
    BY <1>1, <1>5, <2>1, <2>3, Labels DEF Ending, Urbs, Early
  <2>7. QED BY <1>2, <1>4, <2>5, <2>6, <2>9
<1>8. CASE spawn_anchor
  <2>1. Typed'
    BY <1>1, <1>8 DEF spawn_anchor, Typed
  <2>2. Ending' /\ Urbs'
    BY <1>1, <1>5, <1>8 DEF spawn_anchor, Typed, Ending, Urbs, Early
  <2>3. Linked'
    BY <1>1, <1>8 DEF spawn_anchor, Linked, Cleared, SetUp, Early
  <2>4. QED BY <1>2, <1>4, <2>1, <2>2, <2>3
<1>9. CASE spawn_check
  <2>1. Typed'
    BY <1>1, <1>9 DEF spawn_check, urbVars, Typed
  <2>2. Ending' /\ Urbs'
    BY <1>1, <1>5, <1>9 DEF spawn_check, urbVars, Typed, Ending, Urbs, Early
  <2>3. Linked'
    BY <1>1, <1>9 DEF spawn_check, Linked, Cleared, SetUp, Early
  <2>4. QED BY <1>2, <1>4, <2>1, <2>2, <2>3
<1>10. CASE spawn_submit
  <2>1. Typed'
    BY <1>1, <1>10 DEF spawn_submit, Typed, Urbs
  <2>2. Ending' /\ Urbs'
    BY <1>1, <1>5, <1>10 DEF spawn_submit, Typed, Ending, Urbs, Early
  <2>3. Linked'
    BY <1>1, <1>10 DEF spawn_submit, Linked, Cleared, SetUp, Early
  <2>4. QED BY <1>2, <1>4, <2>1, <2>2, <2>3
<1>11. QED BY <1>6, <1>7, <1>8, <1>9, <1>10 DEF setup

(* An unplugging, and an URB that comes back.                              *)
LEMMA BusStep ==
  ASSUME LifeInv, unplug \/ callback
  PROVE  LifeInv'
<1> USE OpenusbfxsConstants DEF LifeInv
<1>1. CASE unplug
  <2>1. /\ UNCHANGED <<probe, intfdata, minor, intf, oops, disc, state, kref, opencnt,
                       deleted, iomutex, wpc, n, fails, left, timedout, timeouts, anchored,
                       flying, f, errors>>
        /\ probe = "done" /\ plugged' = FALSE
    BY <1>1 DEF unplug, devVars, setupVars, urbVars
  <2>2. Counted' /\ Exclusive'
    BY <2>1 DEF Counted, Holders, Driver, Exclusive
  <2>3. Typed' /\ Unborn' /\ Ending' /\ Urbs'
    BY <2>1 DEF Typed, Unborn, Ending, Urbs, Early
  <2>4. Linked'
    BY <2>1, LinkedKept
  <2>5. QED BY <2>2, <2>3, <2>4
<1>2. CASE callback
  <2>1. /\ UNCHANGED <<state, kref, opencnt, deleted, iomutex, wpc, n, fails, left,
                       timedout, timeouts, probe, intfdata, minor, intf, oops, plugged,
                       disc, errors>>
        /\ flying > 0 /\ f' = awaken(f)
        /\ \/ anchored' = anchored /\ flying' = flying
           \/ anchored' = anchored - 1 /\ flying' = flying - 1
    BY <1>2 DEF callback, devVars, setupVars, busVars, urbVars
  <2>2. /\ f' \in [Procs -> Doings] /\ Holders' = Holders
        /\ \A p \in Procs : /\ f'[p] \in Using <=> f[p] \in Using
                            /\ f'[p] = "ioctl" <=> f[p] = "ioctl"
                            /\ f'[p] \in {"found", "counted"} <=> f[p] \in {"found", "counted"}
                            /\ f[p] = "closed" => f'[p] = "closed"
    BY <2>1, Waking
  <2>3. Typed' /\ Urbs'
    BY <2>1, <2>2 DEF Typed, Urbs, Early
  <2>4. Counted'
    BY <2>1, <2>2, SameCount DEF Driver
  <2>5. Exclusive'
    BY <2>1, <2>2 DEF Exclusive
  <2>6. Unborn' /\ Ending'
    BY <2>1, <2>2 DEF Unborn, Ending
  <2>7. Linked'
    BY <2>1, <2>2, LinkedKept
  <2>8. QED BY <2>3, <2>4, <2>5, <2>6, <2>7
<1>3. QED BY <1>1, <1>2

-----------------------------------------------------------------------------
(***************************************************************************)
(* References.                                                             *)
(***************************************************************************)

(* kref_put, by somebody who has a reference.                              *)
LEMMA Put ==
  ASSUME LifeInv, NEW g \in [Procs -> Doings], kref_put(g)
  PROVE  /\ kref' = kref - 1 /\ f' \in [Procs -> Doings]
         /\ \A p \in Procs : /\ f'[p] \in Using <=> g[p] \in Using
                             /\ f'[p] \in Holding <=> g[p] \in Holding
                             /\ f'[p] = "ioctl" <=> g[p] = "ioctl"
                             /\ f'[p] \in {"found", "counted"} <=> g[p] \in {"found", "counted"}
                             /\ g[p] = "closed" => f'[p] = "closed"
         /\ kref = 1 => deleted' = "waiting" /\ state' = "UNLOAD"
         /\ kref # 1 => deleted' = deleted /\ state' = state
BY DEF kref_put, awaken, Doings, Using, Holding

(* A process gives its reference back.                                     *)
LEMMA ProcPut ==
  ASSUME LifeInv, NEW p \in Procs, f[p] \in {"counted", "released"},
         f[p] = "counted" => opencnt # 0,
         kref_put([f EXCEPT ![p] = "closed"]),
         UNCHANGED <<opencnt, iomutex, setupVars, urbVars, busVars, errors>>
  PROVE  LifeInv'
<1> USE DEF LifeInv
<1> DEFINE g == [f EXCEPT ![p] = "closed"]
<1>1. /\ g \in [Procs -> Doings] /\ g[p] = "closed"
      /\ \A q \in Procs \ {p} : g[q] = f[q]
  BY DEF Typed, Doings
<1>2. /\ UNCHANGED <<opencnt, iomutex, wpc, n, fails, left, timedout, timeouts, anchored,
                     flying, probe, intfdata, minor, intf, oops, plugged, disc, errors>>
  BY DEF setupVars, urbVars, busVars
<1>3. kref_put(g)
  OBVIOUS
<1> HIDE DEF g
<1>4. /\ kref' = kref - 1 /\ f' \in [Procs -> Doings]
      /\ \A q \in Procs : /\ f'[q] \in Using <=> g[q] \in Using
                          /\ f'[q] \in Holding <=> g[q] \in Holding
                          /\ f'[q] = "ioctl" <=> g[q] = "ioctl"
                          /\ f'[q] \in {"found", "counted"} <=> g[q] \in {"found", "counted"}
                          /\ g[q] = "closed" => f'[q] = "closed"
      /\ kref = 1 => deleted' = "waiting" /\ state' = "UNLOAD"
      /\ kref # 1 => deleted' = deleted /\ state' = state
  BY <1>1, <1>3, Put
<1>5. Holders' = Holders \ {p} /\ p \in Holders
  BY <1>1, <1>4 DEF Holders, Holding, Using
<1>6. /\ Cardinality(Holders') = Cardinality(Holders) - 1
      /\ Cardinality(Holders) \in Nat /\ Cardinality(Holders') \in Nat
  BY <1>5, HoldersFinite, FS_RemoveElement, FS_CardinalityType
<1>7. probe = "done" /\ kref # 0 /\ deleted = "no"
  BY <1>6, <1>2 DEF Unborn, Counted, Driver, Ending
<1>8. Counted'
  BY <1>2, <1>4, <1>6 DEF Counted, Driver
<1>9. kref = 1 => disc = "done"
  BY <1>6, <1>7 DEF Counted, Driver
<1>10. Typed'
  BY <1>2, <1>4 DEF Typed
<1>11. Exclusive'
  <2>1. \A q \in Procs : /\ f'[q] \in Using <=> f[q] \in Using
                         /\ f'[q] = "ioctl" <=> f[q] = "ioctl"
    BY <1>1, <1>4 DEF Using
  <2>2. QED BY <1>2, <2>1 DEF Exclusive
<1>12. Unborn'
  BY <1>2, <1>7 DEF Unborn
<1>13. Ending'
  <2>1. \A q \in Procs : f'[q] \in {"found", "counted"} => f[q] \in {"found", "counted"}
    BY <1>1, <1>4
  <2>2. deleted' # "no" => kref' = 0 /\ disc' = "done"
    BY <1>2, <1>4, <1>7, <1>9
  <2>3. deleted' # "freed"
    BY <1>4, <1>7
  <2>4. QED BY <1>2, <2>1, <2>2, <2>3 DEF Ending
<1>14. Urbs'
  BY <1>2, <1>4, <1>9 DEF Urbs, Early
<1>15. Linked'
  <2>1. \A q \in Procs : f[q] = "closed" => f'[q] = "closed"
    BY <1>1, <1>4
  <2>2. \A q \in Procs : f'[q] = "ioctl" => f[q] = "ioctl"
    BY <1>1, <1>4
  <2>3. state' \in {state, "UNLOAD"}
    BY <1>4
  <2>4. QED BY <1>2, <2>1, <2>2, <2>3, LinkedKept
<1>16. QED BY <1>8, <1>10, <1>11, <1>12, <1>13, <1>14, <1>15

LEMMA DisconnectStep ==
  ASSUME LifeInv, disconnect
  PROVE  LifeInv'
<1> USE OpenusbfxsConstants DEF LifeInv
<1>1. /\ UNCHANGED <<probe, oops, plugged, opencnt, iomutex, wpc, n, fails, left, timedout,
                     timeouts, anchored, flying, errors>>
  BY DEF disconnect, disconnect_clear, disconnect_state, disconnect_minor, disconnect_intf,
         disconnect_kill, disconnect_put, devVars, setupVars, urbVars
<1>2. probe = "done"
  BY DEF disconnect, disconnect_clear, disconnect_state, disconnect_minor, disconnect_intf,
         disconnect_kill, disconnect_put, Unborn
<1>3. Unborn'
  BY <1>1, <1>2 DEF Unborn
<1>4. CASE disconnect_clear \/ disconnect_minor \/ disconnect_intf \/ disconnect_kill
  <2>1. /\ UNCHANGED <<state, kref, deleted, f>>
        /\ deleted = "no" /\ disc # "done" /\ disc' # "done"
        /\ disc' = "state" => disc = "idle"
    BY <1>4 DEF disconnect_clear, disconnect_minor, disconnect_intf, disconnect_kill, devVars, Ending
  <2>2. Typed'
    BY <1>1, <1>4, <2>1 DEF disconnect_clear, disconnect_minor, disconnect_intf, disconnect_kill, Typed
  <2>3. Counted' /\ Exclusive'
    BY <1>1, <2>1 DEF Counted, Holders, Driver, Exclusive
  <2>4. Ending'
    BY <1>1, <1>4, <2>1 DEF disconnect_clear, disconnect_minor, disconnect_intf, disconnect_kill, Ending
  <2>5. Urbs'
    BY <1>1, <1>4, <2>1 DEF disconnect_clear, disconnect_minor, disconnect_intf, disconnect_kill, Urbs, Early
  <2>7. Linked'
    <3>1. CASE disconnect_intf
      <4>1. \A p \in Procs : f[p] # "ioctl"
        BY <3>1 DEF disconnect_intf, Exclusive
      <4>2. QED BY <1>1, <2>1, <3>1, <4>1 DEF disconnect_intf, Linked, Cleared, SetUp, Early
    <3>2. CASE disconnect_clear \/ disconnect_minor \/ disconnect_kill
      BY <1>1, <2>1, <3>2 DEF disconnect_clear, disconnect_minor, disconnect_kill, Linked, Cleared,
                              SetUp, Early
    <3>3. QED BY <1>4, <3>1, <3>2
  <2>6. QED BY <1>3, <2>2, <2>3, <2>4, <2>5, <2>7
<1>5. CASE disconnect_state
  <2>1. /\ UNCHANGED <<kref, deleted, minor>> /\ state' = "UNLOAD" /\ f' = awaken(f)
        /\ disc = "state" /\ disc' = "minor"
    BY <1>5 DEF disconnect_state
  <2>2. /\ f' \in [Procs -> Doings] /\ Holders' = Holders
        /\ \A p \in Procs : /\ f'[p] \in Using <=> f[p] \in Using
                            /\ f'[p] = "ioctl" <=> f[p] = "ioctl"
    BY <2>1, Waking
  <2>3. Typed' /\ Urbs'
    BY <1>1, <2>1, <2>2 DEF Typed, Urbs, Early
  <2>4. Counted'
    BY <1>1, <2>1, <2>2, SameCount DEF Driver
  <2>5. Exclusive'
    BY <1>1, <2>1, <2>2 DEF Exclusive
  <2>6. Ending'
    BY <1>1, <2>1 DEF Ending
  <2>7. Linked'
    <3>1. UNCHANGED <<intf, intfdata>>
      BY <1>5 DEF disconnect_state
    <3>2. \A p \in Procs : f[p] = "closed" => f'[p] = "closed"
      BY <2>1, Waking
    <3>3. QED BY <1>1, <2>1, <2>2, <3>1, <3>2 DEF Linked, Cleared, SetUp, Early
  <2>8. QED BY <1>3, <2>3, <2>4, <2>5, <2>6, <2>7
<1>6. CASE disconnect_put
  <2>1. /\ disc = "put" /\ disc' = "done" /\ kref_put(f) /\ UNCHANGED minor
        /\ f \in [Procs -> Doings]
    BY <1>6 DEF disconnect_put, Typed
  <2>2. /\ kref' = kref - 1 /\ f' \in [Procs -> Doings]
        /\ \A p \in Procs : /\ f'[p] \in Using <=> f[p] \in Using
                            /\ f'[p] \in Holding <=> f[p] \in Holding
                            /\ f'[p] = "ioctl" <=> f[p] = "ioctl"
                            /\ f'[p] \in {"found", "counted"} <=> f[p] \in {"found", "counted"}
                            /\ f[p] = "closed" => f'[p] = "closed"
        /\ kref = 1 => deleted' = "waiting" /\ state' = "UNLOAD"
        /\ kref # 1 => deleted' = deleted /\ state' = state
    BY <2>1, Put
  <2>3. Holders' = Holders
    BY <2>2 DEF Holders
  <2>4. kref = Cardinality(Holders) + 1 /\ Cardinality(Holders) \in Nat /\ deleted = "no"
    BY <1>2, <2>1, HoldersFinite DEF Counted, Driver, Ending
  <2>5. Counted'
    BY <1>1, <2>1, <2>2, <2>3, <2>4 DEF Counted, Driver
  <2>6. Typed' /\ Urbs'
    BY <1>1, <2>1, <2>2 DEF Typed, Urbs, Early
  <2>7. Exclusive'
    BY <1>1, <2>2 DEF Exclusive
  <2>8. Ending'
    BY <1>1, <2>1, <2>2, <2>4 DEF Ending
  <2>9. Linked'
    <3>1. UNCHANGED <<intf, intfdata>>
      BY <1>6 DEF disconnect_put
    <3>2. QED BY <1>1, <2>1, <2>2, <3>1 DEF Linked, Cleared, SetUp, Early
  <2>10. QED BY <1>3, <2>5, <2>6, <2>7, <2>8, <2>9
<1>7. QED BY <1>4, <1>5, <1>6 DEF disconnect

LEMMA DeleteStep ==
  ASSUME LifeInv, delete_free
  PROVE  LifeInv'
<1> USE DEF LifeInv
<1>1. /\ UNCHANGED <<state, kref, opencnt, iomutex, wpc, n, fails, left, timedout,
                     timeouts, anchored, flying, probe, intfdata, minor, intf, oops,
                     plugged, disc, f, errors>>
      /\ deleted = "waiting" /\ deleted' = "freed" /\ wpc = "ended"
  BY DEF delete_free, setupVars, urbVars, busVars
<1>2. Counted' /\ Exclusive'
  BY <1>1 DEF Counted, Holders, Driver, Exclusive
<1>3. Typed' /\ Unborn' /\ Ending' /\ Urbs'
  BY <1>1 DEF Typed, Unborn, Ending, Urbs, Early
<1>4. Linked'
  BY <1>1, LinkedKept
<1>5. QED BY <1>2, <1>3, <1>4

-----------------------------------------------------------------------------
(***************************************************************************)
(* Processes.                                                              *)
(***************************************************************************)

(* A process of a finished probe goes from one doing to another and holds  *)
(* or uses the device before as after.                                     *)
LEMMA ProcStep ==
  ASSUME LifeInv, NEW p \in Procs, NEW v \in Doings, f' = [f EXCEPT ![p] = v],
         UNCHANGED <<state, kref, opencnt, deleted, rest_of_dev>>,
         f[p] \in Holding <=> v \in Holding, f[p] \in Using <=> v \in Using,
         probe = "done", v \in {"found", "counted"} => minor,
         f[p] = "closed" => Early /\ SetUp, v = "ioctl" => ~Cleared,
         iomutex' \in Procs \cup {"free"},
         \A q \in Procs : f'[q] = "ioctl" <=> iomutex' = q
  PROVE  LifeInv'
<1> USE DEF LifeInv
<1>1. /\ UNCHANGED <<wpc, n, fails, left, timedout, timeouts, anchored, flying, probe,
                     intfdata, minor, intf, oops, plugged, disc, errors>>
  BY DEF rest_of_dev, setupVars, urbVars, busVars
<1>2. f'[p] = v /\ \A q \in Procs \ {p} : f'[q] = f[q]
  BY DEF Typed
<1>3. Typed'
  BY <1>1 DEF Typed
<1>4. Holders' = Holders
  BY <1>2 DEF Holders
<1>5. Counted'
  BY <1>1, <1>4, SameCount DEF Driver
<1>6. \A q \in Procs : f'[q] \in Using <=> f[q] \in Using
  BY <1>2
<1>7. Exclusive'
  BY <1>6 DEF Exclusive
<1>8. Unborn'
  BY <1>1 DEF Unborn
<1>9. Ending'
  BY <1>1, <1>2 DEF Ending
<1>10. Urbs'
  BY <1>1 DEF Urbs, Early
<1>11. Linked'
  BY <1>1, <1>2, LinkedKept
<1>12. QED BY <1>3, <1>5, <1>7, <1>8, <1>9, <1>10, <1>11

(* Who is not closed has found the structure after probe.                  *)
LEMMA Born ==
  ASSUME LifeInv, NEW p \in Procs, f[p] # "closed"
  PROVE  probe = "done"
BY DEF LifeInv, Unborn

LEMMA FindStep ==
  ASSUME LifeInv, NEW p \in Procs, open_find(p)
  PROVE  LifeInv'
<1>1. /\ f[p] = "closed" /\ minor /\ intfdata /\ state = "OK" /\ f' = [f EXCEPT ![p] = "found"]
      /\ UNCHANGED <<state, kref, opencnt, deleted, iomutex, rest_of_dev>>
  BY DEF open_find, devVars
<1>2. probe = "done"
  BY <1>1 DEF LifeInv, Unborn
<1>3. \A q \in Procs : f'[q] = "ioctl" <=> iomutex' = q
  BY <1>1 DEF LifeInv, Typed, Exclusive
<1>4. Early /\ SetUp
  BY <1>1 DEF LifeInv, Linked, Early
<1>5. QED BY <1>1, <1>2, <1>3, <1>4, ProcStep DEF LifeInv, Exclusive, Doings, Holding, Using

LEMMA GetStep ==
  ASSUME LifeInv, NEW p \in Procs, open_get(p)
  PROVE  LifeInv'
<1> USE DEF LifeInv
<1>1. /\ f[p] = "found" /\ kref' = kref + 1 /\ f' = [f EXCEPT ![p] = "counted"]
      /\ UNCHANGED <<state, opencnt, deleted, iomutex, wpc, n, fails, left, timedout,
                     timeouts, anchored, flying, probe, intfdata, minor, intf, oops,
                     plugged, disc, errors>>
      /\ probe = "done"
  BY Born DEF open_get, rest_of_dev, setupVars, urbVars, busVars
<1>2. f'[p] = "counted" /\ \A q \in Procs \ {p} : f'[q] = f[q]
  BY <1>1 DEF Typed
<1>3. Typed'
  BY <1>1 DEF Typed, Doings
<1>4. Holders' = Holders \cup {p} /\ p \notin Holders
  BY <1>1, <1>2 DEF Holders, Holding, Using
<1>5. Cardinality(Holders') = Cardinality(Holders) + 1 /\ Cardinality(Holders) \in Nat
  BY <1>4, HoldersFinite, FS_AddElement
<1>6. Counted'
  BY <1>1, <1>5 DEF Counted, Driver
<1>7. \A q \in Procs : /\ f'[q] \in Using <=> f[q] \in Using
                       /\ f'[q] = "ioctl" <=> f[q] = "ioctl"
                       /\ f'[q] \in {"found", "counted"} => f[q] \in {"found", "counted"}
  BY <1>1, <1>2 DEF Using
<1>8. Exclusive'
  BY <1>1, <1>7 DEF Exclusive
<1>9. Unborn' /\ Urbs'
  BY <1>1 DEF Unborn, Urbs, Early
<1>10. disc \notin {"intf", "kill", "put", "done"}
  BY <1>1 DEF Ending
<1>11. Ending'
  BY <1>1, <1>10 DEF Ending
<1>12. Linked'
  BY <1>1, <1>2, LinkedKept
<1>13. QED BY <1>3, <1>6, <1>8, <1>9, <1>11, <1>12

(* A process becomes the user of the device, or ceases to be.              *)
LEMMA UserStep ==
  ASSUME LifeInv, NEW p \in Procs, NEW v \in Doings, f' = [f EXCEPT ![p] = v],
         UNCHANGED <<state, kref, deleted, iomutex, rest_of_dev>>,
         f[p] \in Holding, v \in Holding \ {"counted"},
         f[p] # "ioctl", v # "ioctl",
         \/ v \in Using /\ opencnt' = 1 /\ \A q \in Procs : f[q] \notin Using
         \/ v \notin Using /\ opencnt' = 0 /\ f[p] \in Using
  PROVE  LifeInv'
<1> USE DEF LifeInv
<1>1. /\ UNCHANGED <<wpc, n, fails, left, timedout, timeouts, anchored, flying, probe,
                     intfdata, minor, intf, oops, plugged, disc, errors>>
  BY DEF rest_of_dev, setupVars, urbVars, busVars
<1>2. f'[p] = v /\ \A q \in Procs \ {p} : f'[q] = f[q]
  BY DEF Typed
<1>3. Typed'
  BY <1>1 DEF Typed
<1>4. Holders' = Holders
  BY <1>2 DEF Holders
<1>5. Counted'
  BY <1>1, <1>4, SameCount DEF Driver
<1>6. Exclusive'
  <2>1. \A q \in Procs : f'[q] = "ioctl" <=> f[q] = "ioctl"
    BY <1>2
  <2>2. CASE v \in Using
    <3>1. \A q \in Procs : f'[q] \in Using <=> q = p
      BY <1>2, <2>2
    <3>2. QED BY <2>1, <2>2, <3>1 DEF Exclusive
  <2>3. CASE v \notin Using
    <3>1. \A q \in Procs : f'[q] \notin Using
      BY <1>2, <2>3 DEF Exclusive
    <3>2. QED BY <2>1, <2>3, <3>1 DEF Exclusive
  <2>4. QED BY <2>2, <2>3
<1>7. Unborn'
  <2>1. f[p] # "closed"
    BY DEF Holding, Using
  <2>2. QED BY <1>1, <2>1, Born DEF Unborn
<1>8. Ending'
  <2>1. v \notin {"found", "counted"}
    BY DEF Holding, Using
  <2>2. QED BY <1>1, <1>2, <2>1 DEF Ending
<1>9. Urbs'
  BY <1>1 DEF Urbs, Early
<1>10. Linked'
  <2>1. f[p] # "closed"
    BY DEF Holding, Using
  <2>2. QED BY <1>1, <1>2, <2>1, LinkedKept
<1>11. QED BY <1>3, <1>5, <1>6, <1>7, <1>8, <1>9, <1>10

LEMMA ExclusiveStep ==
  ASSUME LifeInv, NEW p \in Procs, open_exclusive(p)
  PROVE  LifeInv'
<1>1. f[p] = "counted" /\ UNCHANGED <<iomutex, rest_of_dev>>
  BY DEF open_exclusive
<1>2. CASE opencnt = 0 /\ opencnt' = 1 /\ f' = [f EXCEPT ![p] = "open"]
           /\ UNCHANGED <<state, kref, deleted>>
  <2>1. \A q \in Procs : f[q] \notin Using
    BY <1>2 DEF LifeInv, Exclusive
  <2>2. QED BY <1>1, <1>2, <2>1, UserStep DEF Doings, Holding, Using
<1>3. CASE opencnt # 0 /\ UNCHANGED opencnt /\ kref_put([f EXCEPT ![p] = "closed"])
  BY <1>1, <1>3, ProcPut DEF rest_of_dev
<1>4. QED BY <1>2, <1>3 DEF open_exclusive

LEMMA ReadStep ==
  ASSUME LifeInv, NEW p \in Procs, read(p)
  PROVE  LifeInv'
<1>1. PICK v \in {"reading", "asleep", "open"} : f' = [f EXCEPT ![p] = v]
  BY DEF read
<1>2. /\ f[p] \in {"open", "reading"}
      /\ UNCHANGED <<state, kref, opencnt, deleted, iomutex, rest_of_dev>>
  BY DEF read, devVars
<1>3. probe = "done"
  BY <1>2, Born
<1>4. \A q \in Procs : f'[q] = "ioctl" <=> iomutex' = q
  BY <1>1, <1>2 DEF LifeInv, Typed, Exclusive
<1>5. QED BY <1>1, <1>2, <1>3, <1>4, ProcStep DEF LifeInv, Exclusive, Doings, Holding, Using

LEMMA IoctlStep ==
  ASSUME LifeInv, NEW p \in Procs, ioctl(p)
  PROVE  LifeInv'
<1> USE OpenusbfxsConstants
<1>1. UNCHANGED <<state, kref, opencnt, deleted, rest_of_dev>>
  BY DEF ioctl
<1>2. CASE f[p] = "open" /\ iomutex = "free" /\ state = "OK" /\ iomutex' = p
           /\ f' = [f EXCEPT ![p] = "ioctl"]
  <2>1. \A q \in Procs : f'[q] = "ioctl" <=> iomutex' = q
    BY <1>2 DEF LifeInv, Typed, Exclusive
  <2>2. probe = "done"
    BY <1>2, Born
  <2>3. ~Cleared
    BY <1>2 DEF LifeInv, Linked, Early, Cleared
  <2>4. QED BY <1>1, <1>2, <2>1, <2>2, <2>3, ProcStep DEF Doings, Holding, Using
<1>3. CASE f[p] = "ioctl" /\ iomutex' = "free" /\ f' = [f EXCEPT ![p] = "open"]
  <2>1. \A q \in Procs : f'[q] = "ioctl" <=> iomutex' = q
    BY <1>3 DEF LifeInv, Typed, Exclusive
  <2>2. probe = "done"
    BY <1>3, Born
  <2>3. QED BY <1>1, <1>3, <2>1, <2>2, ProcStep DEF Doings, Holding, Using
<1>4. QED BY <1>2, <1>3 DEF ioctl

LEMMA ReleaseStep ==
  ASSUME LifeInv, NEW p \in Procs, release(p)
  PROVE  LifeInv'
<1>1. UNCHANGED <<iomutex, rest_of_dev>>
  BY DEF release
<1>2. CASE f[p] = "open" /\ opencnt' = opencnt - 1 /\ f' = [f EXCEPT ![p] = "released"]
           /\ UNCHANGED <<state, kref, deleted>>
  <2>1. opencnt' = 0
    BY <1>2 DEF LifeInv, Exclusive, Using
  <2>2. QED BY <1>1, <1>2, <2>1, UserStep DEF Doings, Holding, Using
<1>3. CASE f[p] = "released" /\ kref_put([f EXCEPT ![p] = "closed"]) /\ UNCHANGED opencnt
  BY <1>1, <1>3, ProcPut DEF rest_of_dev
<1>4. QED BY <1>2, <1>3 DEF release

-----------------------------------------------------------------------------
(***************************************************************************)
(* The theorems.                                                           *)
(***************************************************************************)
LEMMA LifeInductive == LifeInv /\ [Next]_vars => LifeInv'
<1> SUFFICES ASSUME LifeInv, [Next]_vars PROVE LifeInv'
  OBVIOUS
<1>1. CASE UNCHANGED vars
  <2>1. /\ UNCHANGED <<state, kref, opencnt, deleted, iomutex, wpc, n, fails, left,
                       timedout, timeouts, anchored, flying, probe, intfdata, minor, intf,
                       oops, plugged, disc, f, errors>>
    BY <1>1 DEF vars, devVars, setupVars, urbVars, busVars
  <2>2. Typed' /\ Counted' /\ Exclusive'
    BY <2>1 DEF LifeInv, Typed, Counted, Holders, Driver, Exclusive
  <2>3. Unborn' /\ Ending' /\ Urbs' /\ Linked'
    BY <2>1 DEF LifeInv, Unborn, Ending, Urbs, Linked, Cleared, SetUp, Early
  <2>4. QED BY <2>2, <2>3 DEF LifeInv
<1>2. CASE probe_error
  <2>1. /\ UNCHANGED <<state, kref, opencnt, deleted, iomutex, wpc, n, fails, left,
                       timedout, timeouts, anchored, flying, probe, intfdata, minor, intf,
                       plugged, disc, f, errors>>
    BY <1>2 DEF probe_error, devVars, setupVars, urbVars
  <2>2. Typed' /\ Counted' /\ Exclusive'
    BY <2>1 DEF LifeInv, Typed, Counted, Holders, Driver, Exclusive
  <2>3. Unborn' /\ Ending' /\ Urbs' /\ Linked'
    BY <2>1 DEF LifeInv, Unborn, Ending, Urbs, Linked, Cleared, SetUp, Early
  <2>4. QED BY <2>2, <2>3 DEF LifeInv
<1>3. ASSUME NEW p \in Procs, proc(p) PROVE LifeInv'
  BY <1>3, FindStep, GetStep, ExclusiveStep, ReadStep, IoctlStep, ReleaseStep DEF proc
<1>4. QED
  BY <1>1, <1>2, <1>3, ProbingStep, DeleteStep, BusStep, DisconnectStep, SetupStep
     DEF Next, over, spin

LEMMA LifeInvariance == Spec => []LifeInv
BY LifeInit, LifeInductive, PTL DEF Spec

(* Every variable keeps its type; the reference count is the number of     *)
(* those who hold the structure, one process at most has the device open,  *)
(* and iomutex is held by the process in ioctl (openusbfxs_probe, _open,   *)
(* _ioctl, _release, _disconnect).                                         *)
THEOREM TypeCorrect == Spec => []TypeOK
<1>1. ASSUME LifeInv PROVE TypeOK
  <2>1. Holders = {p \in Procs : holds(p)}
    BY DEF Holders, holds, Holding, Using
  <2>2. kref = Cardinality({p \in Procs : holds(p)})
               + (IF probe # "none" /\ disc # "done" THEN 1 ELSE 0)
    BY <1>1, <2>1 DEF LifeInv, Counted, Driver
  <2>3. /\ Cardinality(Holders) \in Nat /\ Cardinality(Procs) \in Nat
        /\ Cardinality(Holders) <= Cardinality(Procs)
    BY HoldersFinite, OpenusbfxsConstants, FS_CardinalityType
  <2>4. kref \in 0 .. (Cardinality(Procs) + 1)
    BY <2>1, <2>2, <2>3
  <2>5. Cardinality({p \in Procs : f[p] \in Using}) <= 1
    <3>1. CASE \E p \in Procs : f[p] \in Using
      <4>1. PICK p \in Procs : f[p] \in Using
        BY <3>1
      <4>2. {q \in Procs : f[q] \in Using} = {p}
        BY <1>1, <4>1 DEF LifeInv, Exclusive
      <4>3. QED BY <4>2, FS_Singleton
    <3>2. CASE ~ \E p \in Procs : f[p] \in Using
      <4>1. {q \in Procs : f[q] \in Using} = {}
        BY <3>2
      <4>2. QED BY <4>1, FS_EmptySet
    <3>3. QED BY <3>1, <3>2
  <2>6. /\ opencnt \in 0 .. 1 /\ (iomutex = "free" \/ f[iomutex] = "ioctl")
        /\ anchored \in 0 .. InFlight /\ flying \in 0 .. anchored
    BY <1>1, OpenusbfxsConstants DEF LifeInv, Typed, Exclusive, Urbs
  <2>7. QED BY <1>1, <2>2, <2>4, <2>5, <2>6 DEF LifeInv, Typed, TypeOK, Doings, Using
<1>2. QED BY LifeInvariance, <1>1, PTL

(* Nothing works on memory that is not there: a process finds the structure*)
(* only when openusbfxs_probe is through with it, and openusbfxs_delete    *)
(* frees it when nobody holds it any more, the work has ended and no URB   *)
(* flies; and an ioctl works only before openusbfxs_disconnect clears      *)
(* dev->intf.  (The set-up work is not kept from dev->intf.)               *)
THEOREM UsersFindIt == Spec => []InUseAlive
<1>1. ASSUME LifeInv PROVE InUseAlive
  <2>1. \A p \in Procs : sees(p) => probe = "done"
    BY <1>1, Born DEF sees, holds
  <2>2. ASSUME deleted = "freed"
        PROVE  (\A p \in Procs : ~sees(p)) /\ wpc = "ended" /\ flying = 0 /\ disc = "done"
    <3>1. kref = 0 /\ disc = "done" /\ wpc = "ended" /\ flying = 0
      BY <1>1, <2>2 DEF LifeInv, Ending
    <3>2. Cardinality(Holders) = 0 /\ IsFiniteSet(Holders)
      BY <1>1, <3>1, HoldersFinite DEF LifeInv, Counted, Driver
    <3>3. Holders = {}
      BY <3>2, FS_EmptySet
    <3>4. \A p \in Procs : f[p] # "found"
      BY <1>1, <3>1 DEF LifeInv, Ending
    <3>5. QED BY <3>1, <3>3, <3>4 DEF sees, holds, Holders, Holding, Using
  <2>3. \A p \in Procs : f[p] = "ioctl" => intf
    BY <1>1, Born DEF LifeInv, Linked
  <2>4. QED BY <2>1, <2>2, <2>3 DEF InUseAlive
<1>2. QED BY LifeInvariance, <1>1, PTL

(* As long as disconnect has not changed the state, an URB that is anchored*)
(* and does not fly is the one the set-up is about to submit: none is left *)
(* on the anchor for usb_kill_anchored_urbs to wait for.                   *)
THEOREM AnchorHoldsWhatFlies == Spec => []AnchoredFlies
<1>1. LifeInv => AnchoredFlies
  BY DEF LifeInv, Typed, Urbs, Early, Stranded, AnchoredFlies
<1>2. QED BY LifeInvariance, <1>1, PTL
=============================================================================
