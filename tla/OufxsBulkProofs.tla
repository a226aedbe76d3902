--------------------------- MODULE OufxsBulkProofs ---------------------------
(***************************************************************************)
(* Proofs about the bulk commands and the set-up that sends them, for any  *)
(* parameters and any number of retries, ioctls, timeouts and unplugs:     *)
(* replies do not pile up, a board declared OK has been through the whole  *)
(* procedure, and without a timeout every reply is one's own.              *)
(*                                                                         *)
(* Besides types (Typed, Driven) the invariant has a part for each of the  *)
(* three: Recent (the age of the reply in INPacket, by what the board is   *)
(* doing), Established (what a stage of the set-up can rely on, counting   *)
(* the command the board has yet to execute), and Matched (the board holds *)
(* the command a host waits for, or has sent the reply to it); KeptOut says*)
(* when a process can be in the way of the set-up.                         *)
(***************************************************************************)
EXTENDS OufxsBulk, TLAPS, Integers

-----------------------------------------------------------------------------
(***************************************************************************)
(* The order of the stages.                                                *)
(***************************************************************************)
StageSet == ToSet(Stages)

(* The same order, written down a second time, label by label.             *)
Place ==
  [sanity |-> 1, quiesce |-> 2, ind |-> 3, dcconv |-> 4, conv_on |-> 5, volt |-> 6,
   leak_off |-> 7, leak_rd |-> 8, leak_on |-> 9, leak_volt |-> 10, intr_off |-> 11,
   adc_start |-> 12, adc_rd |-> 13, q56_wr |-> 14, q56_rd |-> 15, lbl |-> 16, lbl_rd |-> 17,
   dc_cal |-> 18, fin_ir |-> 19, fin_dr |-> 20, fin_line |-> 21, startio |-> 22,
   dump_dr |-> 23, dump_ir |-> 24, up |-> 25]

LEMMA StagesApart == Len(Stages) = 25 /\ \A i \in 1 .. 25 : Place[Stages[i]] = i
<1>1. Len(Stages) = 25
  BY DEF Stages
<1>2. ASSUME NEW i \in 1 .. 25 PROVE Place[Stages[i]] = i
  <2>1. \/ i = 1 \/ i = 2 \/ i = 3 \/ i = 4 \/ i = 5 \/ i = 6 \/ i = 7 \/ i = 8 \/ i = 9
        \/ i = 10 \/ i = 11 \/ i = 12 \/ i = 13 \/ i = 14 \/ i = 15 \/ i = 16 \/ i = 17
        \/ i = 18 \/ i = 19 \/ i = 20 \/ i = 21 \/ i = 22 \/ i = 23 \/ i = 24 \/ i = 25
    BY <1>2
  <2>2. QED BY <2>1 DEF Stages, Place
<1>3. QED BY <1>1, <1>2

LEMMA StagePosition ==
  /\ DOMAIN Position = StageSet
  /\ \A i \in 1 .. 25 : Stages[i] \in StageSet /\ Position[Stages[i]] = i
  /\ \A l \in StageSet : Position[l] \in 1 .. 25 /\ Stages[Position[l]] = l
<1>1. StageSet = {Stages[i] : i \in 1 .. 25}
  BY StagesApart DEF StageSet, ToSet, Stages
<1>2. DOMAIN Position = StageSet
  BY DEF Position, StageSet
<1>3. ASSUME NEW i \in 1 .. 25 PROVE Stages[i] \in StageSet /\ Position[Stages[i]] = i
  <2>1. Stages[i] \in StageSet
    BY <1>1
  <2>2. \A j \in 1 .. Len(Stages) : Stages[j] = Stages[i] => j = i
    BY StagesApart
  <2>3. Position[Stages[i]] = CHOOSE j \in 1 .. Len(Stages) : Stages[j] = Stages[i]
    BY <2>1 DEF Position, StageSet
  <2>4. QED BY <2>1, <2>2, <2>3, StagesApart
<1>4. QED BY <1>1, <1>2, <1>3

LEMMA NextStage ==
  ASSUME NEW l \in StageSet, l # "up"
  PROVE  /\ after(l) \in StageSet
         /\ Position[l] \in 1 .. 24
         /\ Position[after(l)] = Position[l] + 1
<1>1. Position[l] \in 1 .. 25 /\ Stages[Position[l]] = l
  BY StagePosition
<1>2. Stages[25] = "up"
  BY DEF Stages
<1>3. Position[l] \in 1 .. 24
  BY <1>1, <1>2
<1>4. Position[l] + 1 \in 1 .. 25
  BY <1>3
<1>5. QED BY <1>3, <1>4, StagePosition DEF after

(* The stages that are named, by their place.                              *)
LEMMA Places ==
  /\ "sanity" \in StageSet /\ Position["sanity"] = 1
  /\ "quiesce" \in StageSet /\ Position["quiesce"] = 2
  /\ "ind" \in StageSet /\ Position["ind"] = 3
  /\ "conv_on" \in StageSet /\ Position["conv_on"] = 5
  /\ "leak_off" \in StageSet /\ Position["leak_off"] = 7
  /\ "leak_on" \in StageSet /\ Position["leak_on"] = 9
  /\ "intr_off" \in StageSet /\ Position["intr_off"] = 11
  /\ "q56_wr" \in StageSet /\ Position["q56_wr"] = 14
  /\ "q56_rd" \in StageSet /\ Position["q56_rd"] = 15
  /\ "lbl" \in StageSet /\ Position["lbl"] = 16
  /\ "fin_dr" \in StageSet /\ Position["fin_dr"] = 20
  /\ "fin_line" \in StageSet /\ Position["fin_line"] = 21
  /\ "startio" \in StageSet /\ Position["startio"] = 22
  /\ "dump_dr" \in StageSet /\ Position["dump_dr"] = 23
  /\ "dump_ir" \in StageSet /\ Position["dump_ir"] = 24
  /\ "up" \in StageSet /\ Position["up"] = 25
<1>1. /\ Stages[1] = "sanity" /\ Stages[2] = "quiesce" /\ Stages[3] = "ind"
      /\ Stages[5] = "conv_on" /\ Stages[7] = "leak_off" /\ Stages[9] = "leak_on"
      /\ Stages[11] = "intr_off" /\ Stages[14] = "q56_wr" /\ Stages[15] = "q56_rd"
      /\ Stages[16] = "lbl" /\ Stages[20] = "fin_dr" /\ Stages[21] = "fin_line"
      /\ Stages[22] = "startio" /\ Stages[23] = "dump_dr" /\ Stages[24] = "dump_ir"
      /\ Stages[25] = "up"
  BY DEF Stages
<1>2. \A i \in 1 .. 25 : Stages[i] \in StageSet /\ Position[Stages[i]] = i
  BY StagePosition
<1>3. QED BY ONLY <1>1, <1>2

(* A stage, or one of the labels beside the procedure.                     *)
Beside == {"burn", "sof_early", "sof_late", "cnv_off", "cnv_dump", "cal_dump"}

LEMMA Stageless ==
  /\ Commands = (StageSet \ {"up"}) \union Beside
  /\ \A l \in Beside \union {"wait", "restart", "ended", "none", "user"} : l \notin StageSet
<1>1. Commands = (StageSet \ {"up"}) \union Beside
  BY DEF Commands, StageSet, Beside
<1>2. ASSUME NEW l \in StageSet PROVE l \notin Beside \union {"wait", "restart", "ended", "none", "user"}
  <2>1. PICK i \in 1 .. 25 : l = Stages[i]
    BY StagePosition
  <2>2. \/ i = 1 \/ i = 2 \/ i = 3 \/ i = 4 \/ i = 5 \/ i = 6 \/ i = 7 \/ i = 8 \/ i = 9
        \/ i = 10 \/ i = 11 \/ i = 12 \/ i = 13 \/ i = 14 \/ i = 15 \/ i = 16 \/ i = 17
        \/ i = 18 \/ i = 19 \/ i = 20 \/ i = 21 \/ i = 22 \/ i = 23 \/ i = 24 \/ i = 25
    BY <2>1
  <2>3. QED BY <2>1, <2>2 DEF Stages, Beside
<1>3. QED BY <1>1, <1>2

-----------------------------------------------------------------------------
(***************************************************************************)
(* Types, and what a host that is in the middle of a command is doing.     *)
(***************************************************************************)
Kinds == {"rdirect", "wdirect", "rdindir", "wrindir", "version", "serial",
          "sofprof", "startstop", "bootload", "reset"}

(* What an ioctl sends.                                                    *)
UserKinds == {"rdirect", "rdindir", "wdirect", "version", "serial", "bootload", "reset"}

Command == [by : {"setup"}, kind : Kinds, lab : Commands]
           \union [by : {"user"}, kind : UserKinds, lab : {"user"}]

Reply == [by : Hosts \union {"none"}, lab : Commands \union {"user", "none"},
          age : 0 .. 2, torn : BOOLEAN]

Typed ==
  /\ par \in Params
  /\ state \in {"IDLE", "INIT", "OK", "ERROR", "UNLOAD"}
  /\ pc \in Labels
  /\ todo \in Seq(UserKinds)
  /\ ph \in [Hosts -> {"idle", "out", "in", "ok", "bad", "fail"}]
  /\ out \in Command \union {Nothing}
  /\ fw \in {"idle", "serve"}
  /\ inp \in Reply
  /\ armed \in Nat
  /\ chip \subseteq Facts
  /\ link \in {"up", "lost", "reported"}
  /\ timeouts \in Nat

Driven ==
  /\ ph["setup"] # "idle" => pc \in Commands
  /\ ph["user"] # "idle" => todo # <<>>
  /\ fw = "serve" => out # Nothing

-----------------------------------------------------------------------------
(* A command the board has taken and not begun makes the reply one behind; *)
(* else the reply is the last command's.                                   *)
Recent == inp.age <= 1 /\ (out = Nothing \/ fw = "serve" => inp.age = 0)

(* What will be established when the command the board holds is executed.  *)
Pending == IF out = Nothing THEN chip ELSE effect(out)

(* The stage whose command establishes a fact.                             *)
Establishes == [ind |-> 3, on |-> 9, fin |-> 20, line |-> 21, pcm |-> 22]

(* How far the set-up is: stages whose command the board has taken.        *)
progress == IF ph["setup"] \in {"in", "ok", "bad"} THEN Position[pc] + 1 ELSE Position[pc]

Established ==
  /\ pc \in StageSet /\ ~gone =>
       \A f \in Facts : Establishes[f] < progress => f \in Pending
  /\ state = "OK" /\ ~gone /\ par.sofprofile # "late" => Facts \subseteq Pending

(* Processes are kept out until the set-up is over.                        *)
KeptOut ==
  /\ state = "OK" /\ par.sofprofile # "late" => pc = "ended"
  /\ todo # <<>> /\ ~par.availinerror /\ par.sofprofile # "late" => pc = "ended"

Calm == timeouts = 0 /\ ~par.availinerror /\ par.sofprofile # "late" /\ ~gone

(* The board holds the command h waits for, or has sent the reply to it.   *)
Awaited(h) ==
  \/ out = current(h) /\ armed = 0 /\ rlngth[current(h).kind] # 0
  \/ /\ out = Nothing /\ armed = rlngth[current(h).kind] /\ armed # 0
     /\ inp.by = h /\ inp.age = 0 /\ ~inp.torn

Matched ==
  Calm =>
    /\ \A h \in Hosts : ph[h] = "in" => Awaited(h)
    /\ armed # 0 => \E h \in Hosts : ph[h] = "in"
    /\ out # Nothing => counter(out.kind) = 0 \/ \E h \in Hosts : ph[h] = "in" /\ out = current(h)
    /\ fw = "serve" => inp.by = out.by /\ inp.age = 0


-----------------------------------------------------------------------------
(***************************************************************************)
(* The command a host sends.                                               *)
(***************************************************************************)
LEMMA KindOfLabel == \A l \in Commands : kindOf(l) \in Kinds
BY DEF kindOf, Kinds

LEMMA KindOfStage == \A l \in StageSet : kindOf(l) # "sofprof"
<1>1. \A l \in StageSet : l \notin {"sof_early", "sof_late"}
  BY Stageless DEF Beside
<1>2. QED BY <1>1 DEF kindOf

LEMMA CurrentCommand ==
  ASSUME Typed, Driven, NEW h \in Hosts, ph[h] # "idle"
  PROVE  /\ current(h) \in Command /\ current(h).by = h /\ current(h) # Nothing
         /\ h = "setup" => pc \in Commands /\ current(h).lab = pc /\ current(h).kind = kindOf(pc)
         /\ h = "user" => current(h).lab = "user" /\ current(h).kind \in UserKinds
<1>1. CASE h = "setup"
  <2>1. pc \in Commands /\ kindOf(pc) \in Kinds
    BY <1>1, KindOfLabel DEF Driven
  <2>2. current(h) = [by |-> "setup", kind |-> kindOf(pc), lab |-> pc]
    BY <1>1 DEF current
  <2>3. QED BY <1>1, <2>1, <2>2 DEF Command, Nothing
<1>2. CASE h = "user"
  <2>1. Head(todo) \in UserKinds
    BY <1>2 DEF Typed, Driven
  <2>2. current(h) = [by |-> "user", kind |-> Head(todo), lab |-> "user"]
    BY <1>2 DEF current
  <2>3. QED BY <1>2, <2>1, <2>2 DEF Command, Nothing
<1>3. QED BY <1>1, <1>2 DEF Hosts

LEMMA ReplyLength == \A k \in Kinds : rlngth[k] \in Nat
BY DEF Kinds, rlngth

LEMMA CommandParts ==
  ASSUME NEW c \in Command
  PROVE  /\ c # Nothing /\ c.by \in Hosts /\ c.kind \in Kinds /\ counter(c.kind) \in Nat
         /\ c.lab \in Commands \union {"user"}
         /\ c.lab = "user" => c.kind \in UserKinds
<1>1. UserKinds \subseteq Kinds
  BY DEF UserKinds, Kinds
<1>2. "user" \notin Commands
  BY Stageless DEF Beside
<1>3. c.by \in Hosts /\ c.kind \in Kinds /\ c.lab \in Commands \union {"user"}
        /\ (c.lab = "user" => c.kind \in UserKinds)
  BY <1>1, <1>2 DEF Command, Hosts
<1>4. QED BY <1>3, ReplyLength DEF counter, Nothing, Hosts

-----------------------------------------------------------------------------
(***************************************************************************)
(* What the set-up does with a result: it goes on by one stage after a     *)
(* reply, or goes back; it goes on after a failure only once everything is *)
(* established.  It does not declare the board OK.                         *)
(***************************************************************************)
LEMMA ResultGoesOn ==
  ASSUME Typed, Driven, setup_result
  PROVE  /\ ph["setup"] \in {"ok", "bad", "fail"} /\ ph' = [ph EXCEPT !["setup"] = "idle"]
         /\ pc \in Commands /\ pc' \in Labels
         /\ state' \in {state, "ERROR"}
         /\ pc' \in StageSet => pc \in StageSet /\ (Position[pc'] <= progress \/ progress >= 23)
         /\ UNCHANGED <<par, todo, out, fw, inp, armed, chip, link, timeouts>>
<1> DEFINE v == ph["setup"]
<1> DEFINE Goal == /\ pc' \in Labels /\ state' \in {state, "ERROR"}
                   /\ pc' \in StageSet => pc \in StageSet /\ (Position[pc'] <= progress \/ progress >= 23)
<1>1. /\ v \in {"ok", "bad", "fail"} /\ ph' = [ph EXCEPT !["setup"] = "idle"]
      /\ UNCHANGED <<par, todo, out, fw, inp, armed, chip, link, timeouts>>
  BY DEF setup_result, board, userVars, boardVars
<1>2. pc \in Commands
  BY <1>1 DEF Driven
<1>3. /\ Commands = (StageSet \ {"up"}) \union Beside
      /\ Labels = Commands \union {"wait", "restart", "up", "ended"}
      /\ \A l \in Beside \union {"wait", "restart", "ended"} : l \notin StageSet
      /\ {"sanity", "q56_wr", "q56_rd", "dump_dr", "dump_ir", "up"} \subseteq StageSet
  BY Stageless, Places DEF Labels
<1>4. /\ pc \in StageSet => Position[pc] \in 1 .. 25
      /\ pc \in StageSet =>
           /\ progress = Position[pc] \/ progress = Position[pc] + 1
           /\ v # "fail" => progress = Position[pc] + 1
  BY <1>1, StagePosition DEF progress
<1>5. pc \in StageSet => after(pc) \in StageSet /\ Position[after(pc)] = Position[pc] + 1
  BY <1>2, <1>3, NextStage DEF Beside
<1> SUFFICES Goal
  BY <1>1, <1>2
<1> HIDE DEF v
<1>6. ASSUME pc' \in {"restart", "ended", "cnv_off", "cnv_dump", "cal_dump", "sof_early"},
             state' \in {state, "ERROR"}
      PROVE  Goal
  BY <1>3, <1>6 DEF Beside
<1>7. ASSUME pc' = pc, state' = state PROVE Goal
  BY <1>2, <1>3, <1>4, <1>7
<1>8. ASSUME pc \in StageSet, v # "fail", pc' = after(pc), state' = state PROVE Goal
  BY <1>2, <1>3, <1>4, <1>5, <1>8
<1>9. CASE v = "fail" /\ command_failed
  BY <1>6, <1>9 DEF command_failed, proceed, goto
<1>10. CASE v = "bad" /\ pc \in Exact /\ proceed("restart")
  BY <1>6, <1>10 DEF proceed, goto
<1>11. CASE v # "fail" /\ retry_test(v)
  <2>1. {"volt", "adc_rd", "q56_rd", "lbl_rd", "leak_volt"} \subseteq StageSet
    <3>1. Stages[6] = "volt" /\ Stages[13] = "adc_rd" /\ Stages[15] = "q56_rd"
            /\ Stages[17] = "lbl_rd" /\ Stages[10] = "leak_volt"
      BY DEF Stages
    <3>2. QED BY ONLY <3>1, StagePosition
  <2>2. CASE v = "ok" /\ pc = "volt" /\ goto(after(pc)) /\ UNCHANGED state
    BY <1>8, <1>11, <2>1, <2>2 DEF goto
  <2>3. CASE v = "ok" /\ pc \in {"adc_rd", "q56_rd", "lbl_rd", "leak_volt"} /\ proceed(after(pc))
    BY <1>8, <1>11, <2>1, <2>3 DEF proceed, goto
  <2>4. CASE v = "bad" /\ pc = "leak_volt" /\ proceed("restart")
    BY <1>6, <2>4 DEF proceed, goto
  <2>5. CASE v = "bad" /\ pc = "lbl_rd" /\ proceed(pc)
    BY <1>7, <2>5 DEF proceed, goto
  <2>6. CASE v = "bad" /\ n + 1 < Tries /\ pc \in {"volt", "adc_rd"} /\ again(pc)
    BY <1>7, <2>6 DEF again
  <2>7. CASE v = "bad" /\ n + 1 < Tries /\ pc = "q56_rd" /\ again("q56_wr")
    <3>1. pc' = "q56_wr" /\ state' = state
      BY <2>7 DEF again
    <3>2. Position["q56_wr"] = 14 /\ Position["q56_rd"] = 15
      BY Places
    <3>3. progress = 16
      BY <1>3, <1>4, <1>11, <2>7, <3>2
    <3>4. pc' \in Labels
      BY <1>3, <3>1 DEF Beside
    <3>5. QED BY <1>3, <2>7, <3>1, <3>2, <3>3, <3>4
  <2>8. ASSUME NEW t \in {"cnv", "adc", "q56"}, test_failed(t) PROVE Goal
    <3>1. pc' \in {"cnv_dump", "cnv_off", "cal_dump", "restart"} /\ state' = state
      BY <2>8 DEF test_failed, goto
    <3>2. QED BY <1>6, <3>1
  <2>9. QED BY <1>11, <2>2, <2>3, <2>4, <2>5, <2>6, <2>7, <2>8 DEF retry_test
<1>12. CASE v # "fail" /\ leak_test
  <2>1. pc = "leak_rd" /\ pc \in StageSet
    <3>1. Stages[8] = "leak_rd"
      BY DEF Stages
    <3>2. QED BY <1>12, <3>1, StagePosition DEF leak_test
  <2>2. CASE proceed(after(pc))
    BY <1>8, <1>12, <2>1, <2>2 DEF proceed, goto
  <2>3. CASE again(pc)
    BY <1>7, <2>3 DEF again
  <2>4. QED BY <1>12, <2>2, <2>3 DEF leak_test
<1>13. CASE v # "fail" /\ plain(v)
  <2>1. pc \in StageSet /\ state' = state /\ (pc' = "sof_early" \/ pc' = after(pc))
    BY <1>13 DEF plain, proceed, goto, StageSet
  <2>2. QED BY <1>6, <1>8, <1>13, <2>1
<1>14. CASE v # "fail" /\ q56_write
  <2>1. /\ pc = "q56_wr" /\ pc' = "q56_rd" /\ state' = state
        /\ Position["q56_wr"] = 14 /\ Position["q56_rd"] = 15
    BY <1>14, Places DEF q56_write
  <2>2. progress = 15
    BY <1>3, <1>4, <1>14, <2>1
  <2>3. pc' \in Labels
    BY <1>3, <2>1 DEF Beside
  <2>4. QED BY <1>3, <2>1, <2>2, <2>3
<1>15. CASE v # "fail" /\ powered_down
  BY <1>6, <1>15 DEF powered_down, proceed, goto
<1>16. CASE dump
  <2>1. pc \in {"dump_dr", "dump_ir"} /\ pc' = after(pc) /\ state' = state
    BY <1>16 DEF dump, proceed, goto
  <2>2. Position[pc] >= 23
    BY <2>1, Places
  <2>3. progress >= 23
    BY <1>3, <1>4, <2>1, <2>2
  <2>4. QED BY <1>3, <1>5, <2>1, <2>3
<1>17. CASE fail_dump
  <2>1. pc' \in {"ended", "cnv_off", "restart"} /\ state' \in {state, "ERROR"}
    BY <1>17 DEF fail_dump, goto
  <2>2. QED BY <1>6, <2>1
<1>18. CASE profile(v)
  <2>1. state' = state /\ (pc' = "ended" \/ pc' = pc)
    BY <1>18 DEF profile, proceed, goto, again
  <2>2. QED BY <1>6, <1>7, <2>1
<1>19. CASE burnt
  BY <1>6, <1>19 DEF burnt, proceed, goto
<1>20. QED
  BY <1>9, <1>10, <1>11, <1>12, <1>13, <1>14, <1>15, <1>16, <1>17, <1>18, <1>19
     DEF setup_result, v

-----------------------------------------------------------------------------
(***************************************************************************)
(* Types are kept.                                                         *)
(***************************************************************************)
LEMMA EffectTyped ==
  ASSUME NEW c, chip \subseteq Facts PROVE effect(c) \subseteq Facts
BY DEF effect, Facts

LEMMA TypedInit == Init => Typed /\ Driven
<1> SUFFICES ASSUME Init PROVE Typed /\ Driven
  OBVIOUS
<1>1. NoReplyYet \in Reply
  BY DEF NoReplyYet, Reply
<1>2. <<>> \in Seq(UserKinds)
  OBVIOUS
<1>3. QED BY <1>1, <1>2 DEF Init, Typed, Driven, Labels, Hosts, Facts

LEMMA TypedSetup ==
  ASSUME Typed, Driven, setup PROVE Typed' /\ Driven'
<1> USE DEF Typed, Driven, board, userVars, boardVars
<1>1. {"burn", "ended", "restart", "sanity", "sof_late"} \subseteq Labels
  BY Stageless, Places DEF Labels, Beside
<1>2. CASE setup_start
  <2>1. pc' \in Labels /\ state' \in {state, "INIT"} /\ pc = "wait" /\ "wait" \notin Commands
    BY <1>1, <1>2, Stageless DEF setup_start, Beside
  <2>2. ph["setup"] = "idle"
    BY <2>1
  <2>3. UNCHANGED <<ph, par, todo, out, fw, inp, armed, chip, link, timeouts>>
    BY <1>2 DEF setup_start
  <2>4. QED BY <2>1, <2>2, <2>3
<1>3. CASE setup_restart
  <2>1. pc' \in Labels /\ state' = state /\ pc = "restart" /\ "restart" \notin Commands
    BY <1>1, <1>3, Stageless DEF setup_restart, Beside
  <2>2. ph["setup"] = "idle"
    BY <2>1
  <2>3. UNCHANGED <<ph, par, todo, out, fw, inp, armed, chip, link, timeouts>>
    BY <1>3 DEF setup_restart
  <2>4. QED BY <2>1, <2>2, <2>3
<1>4. CASE setup_command
  BY <1>4 DEF setup_command, setupVars, Hosts
<1>5. CASE setup_result
  BY <1>5, ResultGoesOn DEF Hosts
<1>6. CASE setup_up
  <2>1. pc' \in Labels /\ state' = "OK" /\ pc = "up" /\ "up" \notin Commands
    BY <1>1, <1>6, Stageless DEF setup_up, Beside
  <2>2. ph["setup"] = "idle"
    BY <2>1
  <2>3. UNCHANGED <<ph, par, todo, out, fw, inp, armed, chip, link, timeouts>>
    BY <1>6 DEF setup_up
  <2>4. QED BY <2>1, <2>2, <2>3
<1>7. QED BY <1>2, <1>3, <1>4, <1>5, <1>6 DEF setup

LEMMA TypedUser ==
  ASSUME Typed, Driven, user \/ open \/ ioctl PROVE Typed' /\ Driven'
<1> USE DEF Typed, Driven, setupVars, board, userVars, boardVars
<1>1. CASE ioctl_command
  BY <1>1 DEF ioctl_command, Hosts
<1>2. CASE ioctl_result
  <2>1. todo # <<>>
    BY <1>2 DEF ioctl_result
  <2>2. todo' \in Seq(UserKinds)
    BY <1>2, <2>1 DEF ioctl_result
  <2>3. ph' = [ph EXCEPT !["user"] = "idle"]
          /\ UNCHANGED <<par, state, pc, out, fw, inp, armed, chip, link, timeouts>>
    BY <1>2 DEF ioctl_result
  <2>4. QED BY <2>2, <2>3 DEF Hosts
<1>3. CASE open
  BY <1>3 DEF open
<1>4. CASE ioctl
  <2>1. \A i \in Ioctls : i.cmds \in Seq(UserKinds)
    <3>1. \A a, b \in UserKinds : <<a, b>> \in Seq(UserKinds) /\ <<a>> \in Seq(UserKinds)
      OBVIOUS
    <3>2. {"rdirect", "rdindir", "wdirect", "version", "serial", "bootload", "reset"} \subseteq UserKinds
      BY DEF UserKinds
    <3>3. ASSUME NEW i \in Ioctls
          PROVE  \/ \E a, b \in UserKinds : i.cmds = <<a, b>>
                 \/ \E a \in UserKinds : i.cmds = <<a>>
      <4>1. \/ i.cmds = <<"rdirect", "rdirect">> \/ i.cmds = <<"rdirect", "rdindir">>
            \/ \E a \in UserKinds : i.cmds = <<a>>
        BY <3>2 DEF Ioctls
      <4>2. QED BY ONLY <3>2, <4>1, Zenon
    <3>4. QED BY <3>1, <3>3
  <2>2. todo' \in Seq(UserKinds) /\ ph["user"] = "idle"
    BY <1>4, <2>1 DEF ioctl
  <2>3. UNCHANGED <<par, state, pc, ph, out, fw, inp, armed, chip, link, timeouts>>
    BY <1>4 DEF ioctl
  <2>4. QED BY <2>2, <2>3
<1>5. QED BY <1>1, <1>2, <1>3, <1>4 DEF user

LEMMA TypedUsb ==
  ASSUME Typed, Driven, NEW h \in Hosts, usb(h) \/ bulk_timeout(h) PROVE Typed' /\ Driven'
<1> USE DEF Typed, Driven, setupVars, userVars, boardVars
<1>0. par.late \in Nat
  BY BulkConstants
<1>1. CASE bulk_out(h)
  <2>1. current(h) \in Command /\ current(h) # Nothing
    BY <1>1, CurrentCommand DEF bulk_out
  <2>2. inp' \in Reply
    <3>1. inp \in Reply
      OBVIOUS
    <3>2. inp' = [inp EXCEPT !.age = IF inp.age < 2 THEN inp.age + 1 ELSE 2]
      BY <1>1 DEF bulk_out
    <3>3. \A old \in 0 .. 2 : (IF old < 2 THEN old + 1 ELSE 2) \in 0 .. 2
      OBVIOUS
    <3>4. QED BY <3>1, <3>2, <3>3 DEF Reply
  <2>3. ph' = [ph EXCEPT ![h] = "ok"] \/ ph' = [ph EXCEPT ![h] = "in"]
    BY <1>1 DEF bulk_out
  <2>4. ph[h] # "idle"
    BY <1>1 DEF bulk_out
  <2>5. UNCHANGED <<par, state, pc, todo, fw, armed, chip, link, timeouts>> /\ out' = current(h)
    BY <1>1 DEF bulk_out
  <2>6. QED BY <2>1, <2>2, <2>3, <2>4, <2>5 DEF Hosts
<1>2. CASE bulk_in(h)
  <2>1. ph[h] = "in" /\ \E v \in {"ok", "bad", "fail"} : ph' = [ph EXCEPT ![h] = v]
    <3>1. verdicts(h) \subseteq {"ok", "bad"}
      BY DEF verdicts
    <3>2. QED BY <1>2, <3>1 DEF bulk_in, finish
  <2>2. UNCHANGED <<par, state, pc, todo, out, fw, inp, chip, link, timeouts>> /\ armed' = 0
    BY <1>2 DEF bulk_in
  <2>3. QED BY <2>1, <2>2 DEF Hosts
<1>3. ASSUME bulk_lost(h) \/ bulk_error(h) \/ bulk_timeout(h) PROVE Typed' /\ Driven'
  <2>1. ph[h] # "idle" /\ ph' = [ph EXCEPT ![h] = "fail"]
    BY <1>3 DEF bulk_lost, bulk_error, bulk_timeout, finish
  <2>2. timeouts' \in Nat /\ UNCHANGED <<par, state, pc, todo, out, fw, inp, armed, chip, link>>
    BY <1>0, <1>3 DEF bulk_lost, bulk_error, bulk_timeout
  <2>3. QED BY <2>1, <2>2 DEF Hosts
<1>4. QED BY <1>1, <1>2, <1>3 DEF usb

LEMMA TypedBoard ==
  ASSUME Typed, Driven, firmware \/ unplug \/ disconnect PROVE Typed' /\ Driven'
<1> USE DEF Typed, Driven, setupVars, userVars, boardVars
<1>1. ASSUME lose, UNCHANGED <<par, state, pc, todo, ph, timeouts>> PROVE Typed' /\ Driven'
  <2>1. NoReplyYet \in Reply
    BY DEF NoReplyYet, Reply
  <2>2. out' = Nothing /\ fw' = "idle" /\ inp' \in Reply /\ armed' = 0 /\ chip' = {} /\ link' = "lost"
    BY <1>1, <2>1 DEF lose
  <2>3. QED BY <1>1, <2>2
<1>2. CASE service_take
  <2>1. out \in Command
    BY <1>2 DEF service_take
  <2>2. out.by \in Hosts /\ out.lab \in Commands \union {"user"}
    BY <2>1, CommandParts
  <2>3. inp' \in Reply
    BY <1>2, <2>2 DEF service_take, Reply
  <2>4. QED BY <1>2, <2>3 DEF service_take
<1>3. CASE service_reply
  <2>1. CASE out.kind \in {"reset", "bootload"}
    BY <1>1, <1>3, <2>1 DEF service_reply
  <2>2. CASE out.kind \notin {"reset", "bootload"}
    <3>1. out \in Command
      BY <1>3 DEF service_reply
    <3>2. counter(out.kind) \in Nat
      BY <3>1, CommandParts
    <3>3. inp' \in Reply
      <4>1. inp' = [inp EXCEPT !.torn = counter(out.kind) = 0]
        BY <1>3, <2>2 DEF service_reply
      <4>2. (counter(out.kind) = 0) \in BOOLEAN
        BY ZenonT(10)
      <4>3. PICK b \in BOOLEAN : inp' = [inp EXCEPT !.torn = b]
        BY <4>1, <4>2, Zenon
      <4>4. QED BY <4>3 DEF Reply
    <3>4. chip' \subseteq Facts
      BY <1>3, <2>2, EffectTyped DEF service_reply
    <3>5. /\ out' = Nothing /\ fw' = "idle" /\ armed' \in Nat
          /\ UNCHANGED <<par, state, pc, todo, ph, link, timeouts>>
      BY <1>3, <2>2, <3>2 DEF service_reply
    <3>6. QED BY <3>3, <3>4, <3>5
  <2>3. QED BY <2>1, <2>2
<1>4. CASE unplug
  BY <1>1, <1>4 DEF unplug
<1>5. CASE disconnect
  BY <1>5 DEF disconnect
<1>6. QED BY <1>2, <1>3, <1>4, <1>5 DEF firmware

LEMMA TypedStep ==
  ASSUME Typed, Driven, [Next]_vars PROVE Typed' /\ Driven'
<1>1. CASE UNCHANGED vars
  BY <1>1 DEF vars, setupVars, userVars, boardVars, Typed, Driven
<1>2. CASE rest
  BY <1>1, <1>2 DEF rest
<1>3. QED BY <1>1, <1>2, TypedSetup, TypedUser, TypedUsb, TypedBoard DEF Next

-----------------------------------------------------------------------------
(***************************************************************************)
(* The reply in INPacket is the last command's or the one before.          *)
(***************************************************************************)
LEMMA RecentStep ==
  ASSUME Typed, Driven, Recent, [Next]_vars PROVE Recent'
<1> USE DEF setupVars, userVars, boardVars, board
<1>1. ASSUME UNCHANGED <<inp, out, fw>> PROVE Recent'
  BY <1>1 DEF Recent
<1>2. ASSUME NEW h \in Hosts, bulk_out(h) PROVE Recent'
  <2>1. current(h) # Nothing
    BY <1>2, CurrentCommand DEF bulk_out
  <2>2. inp.age = 0 /\ fw # "serve"
    BY <1>2 DEF bulk_out, Recent, Driven
  <2>3. inp'.age = 1 /\ out' # Nothing /\ fw' # "serve"
    BY <1>2, <2>1, <2>2 DEF bulk_out, Typed, Reply
  <2>4. QED BY <2>3 DEF Recent
<1>3. CASE service_take
  <2>1. inp'.age = 0
    BY <1>3 DEF service_take
  <2>2. QED BY <2>1 DEF Recent
<1>4. ASSUME lose PROVE Recent'
  BY <1>4 DEF lose, NoReplyYet, Recent
<1>5. CASE service_reply
  <2>1. CASE out.kind \in {"reset", "bootload"}
    BY <1>4, <1>5, <2>1 DEF service_reply
  <2>2. CASE out.kind \notin {"reset", "bootload"}
    <3>1. inp.age = 0 /\ inp'.age = inp.age
      BY <1>5, <2>2 DEF service_reply, Recent, Typed, Reply
    <3>2. QED BY <3>1 DEF Recent
  <2>3. QED BY <2>1, <2>2
<1>6. CASE setup
  BY <1>1, <1>6, ResultGoesOn
     DEF setup, setup_start, setup_restart, setup_command, setup_up
<1>7. CASE user \/ open \/ ioctl
  BY <1>1, <1>7 DEF user, ioctl_command, ioctl_result, open, ioctl
<1>8. CASE unplug
  BY <1>4, <1>8 DEF unplug
<1>9. CASE disconnect \/ rest \/ UNCHANGED vars
  BY <1>1, <1>9 DEF disconnect, rest, vars
<1>10. ASSUME NEW h \in Hosts, usb(h) \/ bulk_timeout(h) PROVE Recent'
  BY <1>1, <1>2, <1>10 DEF usb, bulk_in, bulk_lost, bulk_error, bulk_timeout
<1>11. QED BY <1>3, <1>5, <1>6, <1>7, <1>8, <1>9, <1>10 DEF Next, firmware

(* Whatever times out and however the commands of the two hosts cross, a   *)
(* reply that is accepted is that of the last command the board took or of *)
(* the one before: the board takes a command only when the one before has  *)
(* been served, and serving it overwrites INPacket.                        *)
THEOREM RepliesDoNotPileUp == Spec => AtMostOneBehind
<1> DEFINE RecentInv == Typed /\ Driven /\ Recent
<1>1. Init => RecentInv
  <2>1. Init => Recent
    BY DEF Init, NoReplyYet, Recent
  <2>2. QED BY <2>1, TypedInit
<1>2. RecentInv /\ [Next]_vars => RecentInv'
  BY TypedStep, RecentStep
<1>3. RecentInv /\ [Next]_vars => [\A h \in Hosts : accepts(h) => inp.age <= 1]_vars
  BY DEF Recent
<1>4. QED BY <1>1, <1>2, <1>3, PTL DEF Spec, AtMostOneBehind

-----------------------------------------------------------------------------
(***************************************************************************)
(* Processes are kept out until the set-up is over, unless they are let in *)
(* early (availinerror) or the set-up goes on late (SOF profiling).        *)
(***************************************************************************)
LEMMA KeptOutStep ==
  ASSUME Typed, Driven, KeptOut, [Next]_vars PROVE KeptOut'
<1> USE DEF setupVars, userVars, boardVars, board
<1>1. ASSUME UNCHANGED <<par, state, pc, todo>> PROVE KeptOut'
  BY <1>1 DEF KeptOut
<1>2. ASSUME pc # "ended", UNCHANGED <<par, todo>>, state' # "OK" PROVE KeptOut'
  BY <1>2 DEF KeptOut
<1>3. CASE setup_start
  <2>1. CASE pc' = "ended"
    BY <1>3, <2>1 DEF setup_start, KeptOut
  <2>2. CASE pc' # "ended"
    BY <1>3, <2>2 DEF setup_start, KeptOut
  <2>3. QED BY <2>1, <2>2
<1>4. CASE setup_restart
  BY <1>4 DEF setup_restart, KeptOut
<1>5. CASE setup_command
  BY <1>1, <1>5 DEF setup_command
<1>6. CASE setup_result
  <2>1. pc \in Commands /\ "ended" \notin Commands
    BY <1>6, ResultGoesOn, Stageless DEF Beside
  <2>2. /\ pc # "ended" /\ state' \in {state, "ERROR"} /\ UNCHANGED <<par, todo>>
    BY <1>6, <2>1, ResultGoesOn
  <2>3. QED BY <2>2 DEF KeptOut
<1>7. CASE setup_up
  BY <1>7 DEF setup_up, KeptOut
<1>8. CASE ioctl_result
  <2>1. todo # <<>> /\ UNCHANGED <<par, state, pc>>
    BY <1>8 DEF ioctl_result, Driven
  <2>2. QED BY <2>1 DEF KeptOut
<1>9. CASE ioctl
  BY <1>9 DEF ioctl, available, KeptOut
<1>10. CASE ioctl_command \/ open
  BY <1>1, <1>10 DEF ioctl_command, open
<1>11. CASE firmware \/ unplug
  BY <1>1, <1>11 DEF firmware, service_take, service_reply, unplug
<1>12. CASE disconnect
  BY <1>12 DEF disconnect, KeptOut
<1>13. CASE rest \/ UNCHANGED vars
  BY <1>1, <1>13 DEF rest, vars
<1>14. ASSUME NEW h \in Hosts, usb(h) \/ bulk_timeout(h) PROVE KeptOut'
  BY <1>1, <1>14 DEF usb, bulk_out, bulk_in, bulk_lost, bulk_error, bulk_timeout
<1>15. QED
  BY <1>3, <1>4, <1>5, <1>6, <1>7, <1>8, <1>9, <1>10, <1>11, <1>12, <1>13, <1>14
     DEF Next, setup, user

-----------------------------------------------------------------------------
(***************************************************************************)
(* What has been established.                                              *)
(***************************************************************************)
LEMMA EffectOfUser ==
  ASSUME NEW c, c.lab = "user", c.kind \in UserKinds PROVE effect(c) = chip
BY DEF effect, UserKinds

(* A stage establishes its own fact, and undoes none of an earlier stage.  *)
LEMMA EffectOfStage ==
  ASSUME NEW c, c.lab \in StageSet, c.kind = kindOf(c.lab),
         NEW f \in Facts,
         Establishes[f] <= Position[c.lab],
         Establishes[f] < Position[c.lab] => f \in chip
  PROVE  f \in effect(c)
<1>1. /\ Establishes["on"] = 9 /\ Establishes["ind"] = 3 /\ Establishes["fin"] = 20
      /\ Establishes["line"] = 21 /\ Establishes["pcm"] = 22 /\ Establishes[f] \in Nat
  BY DEF Establishes, Facts
<1>2. c.kind # "sofprof" /\ c.lab # "cnv_off" /\ Position[c.lab] \in 1 .. 25
  BY KindOfStage, Stageless, StagePosition DEF Beside
<1>3. CASE Establishes[f] = Position[c.lab]
  <2>1. Stages[Establishes[f]] = c.lab
    BY <1>3, StagePosition
  <2>2. /\ Stages[3] = "ind" /\ Stages[9] = "leak_on" /\ Stages[20] = "fin_dr"
        /\ Stages[21] = "fin_line" /\ Stages[22] = "startio"
    BY DEF Stages
  <2>3. \/ (f = "ind" /\ c.lab = "ind") \/ (f = "on" /\ c.lab = "leak_on")
        \/ (f = "fin" /\ c.lab = "fin_dr") \/ (f = "line" /\ c.lab = "fin_line")
        \/ (f = "pcm" /\ c.lab = "startio")
    BY <1>1, <2>1, <2>2 DEF Facts
  <2>4. QED BY <1>2, <2>3 DEF effect
<1>4. CASE Establishes[f] < Position[c.lab]
  <2>1. f \in chip
    BY <1>4
  <2>2. CASE c.lab \in {"quiesce", "leak_off", "intr_off", "lbl"}
    <3>1. c.lab = "quiesce" => f \notin {"on", "line"}
      BY <1>1, <1>4, Places
    <3>2. c.lab = "leak_off" => f # "on"
      BY <1>1, <1>4, Places
    <3>3. c.lab \in {"intr_off", "lbl"} => f # "line"
      BY <1>1, <1>4, Places
    <3>4. QED BY <1>2, <2>1, <2>2, <3>1, <3>2, <3>3 DEF effect
  <2>3. CASE c.lab \notin {"quiesce", "leak_off", "intr_off", "lbl"}
    <3>1. effect(c) \in {chip, chip \union {"on"}, chip \union {"ind"}, chip \union {"fin"},
                         chip \union {"line"}, chip \union {"pcm"}}
      BY <1>2, <2>3, Zenon DEF effect
    <3>2. QED BY <2>1, <3>1
  <2>4. QED BY <2>2, <2>3
<1>5. QED BY <1>1, <1>2, <1>3, <1>4

LEMMA ProgressTyped ==
  pc \in StageSet => /\ Position[pc] \in 1 .. 25 /\ progress \in 1 .. 26
                     /\ Position[pc] <= progress /\ progress <= Position[pc] + 1
BY StagePosition DEF progress

LEMMA EstablishedStep ==
  ASSUME Typed, Driven, KeptOut, Established, [Next]_vars PROVE Established'
<1> USE DEF setupVars, userVars, boardVars, board
<1>0. \A f \in Facts : Establishes[f] \in 3 .. 22
  BY DEF Establishes, Facts
<1>p. pc' \in Labels /\ (pc' \in StageSet => Position[pc'] \in 1 .. 25)
  BY TypedStep, StagePosition DEF Typed
(* Nothing changes on the board, and the set-up goes back, or on when all  *)
(* is established.                                                         *)
<1>1. ASSUME UNCHANGED <<par, out, chip>>, link' = "up" => link = "up",
             state' = "OK" => state = "OK",
             pc' \in StageSet => pc \in StageSet /\ (progress' <= progress \/ progress >= 23)
      PROVE  Established'
  <2>1. Pending' = Pending
    BY <1>1 DEF Pending, effect
  <2>2. ASSUME pc' \in StageSet, ~gone', NEW f \in Facts, Establishes[f] < progress'
        PROVE  f \in Pending'
    <3>1. ~gone /\ pc \in StageSet /\ progress \in 1 .. 26
      BY <1>1, <2>2, ProgressTyped DEF gone
    <3>2. progress' \in 1 .. 26
      BY <1>p, <2>2 DEF progress
    <3>3. Establishes[f] < progress
      BY <1>0, <1>1, <2>2, <3>1, <3>2
    <3>4. QED BY <2>1, <3>1, <3>3 DEF Established
  <2>3. ASSUME state' = "OK", ~gone', par.sofprofile # "late" PROVE Facts \subseteq Pending'
    BY <1>1, <2>1, <2>3 DEF Established, gone
  <2>4. QED BY <1>1, <2>2, <2>3 DEF Established
<1>2. ASSUME UNCHANGED <<par, out, chip, pc>>, link' = "up" => link = "up",
             state' = "OK" => state = "OK", progress' <= progress
      PROVE  Established'
  BY <1>1, <1>2
<1>3. ASSUME NEW h \in Hosts, bulk_out(h) PROVE Established'
  <2>1. PICK c \in Command : c = current(h)
    BY <1>3, CurrentCommand DEF bulk_out
  <2>2. /\ c # Nothing /\ out' = c /\ chip' = chip /\ out = Nothing /\ ~gone
        /\ UNCHANGED <<par, state, pc, link>>
    BY <1>3, <2>1, CommandParts DEF bulk_out
  <2>3. Pending' = effect(c) /\ Pending = chip
    BY <2>2 DEF Pending, effect
  <2>4. CASE h = "user"
    <3>1. effect(c) = chip
      BY <1>3, <2>1, <2>4, CurrentCommand, EffectOfUser DEF bulk_out
    <3>2. ph'["setup"] = ph["setup"]
      BY <1>3, <2>4 DEF bulk_out, Typed, Hosts
    <3>3. progress' = progress
      BY <2>2, <3>2 DEF progress
    <3>4. QED BY <2>2, <2>3, <3>1, <3>3 DEF Established, gone
  <2>5. CASE h = "setup"
    <3>1. pc \in Commands /\ c.lab = pc /\ c.kind = kindOf(pc)
      BY <1>3, <2>1, <2>5, CurrentCommand DEF bulk_out
    <3>2. pc # "ended"
      BY <3>1, Stageless DEF Beside
    <3>3. ph["setup"] = "out" /\ ph'["setup"] \in {"in", "ok"}
      BY <1>3, <2>5 DEF bulk_out, Typed, Hosts
    <3>4. progress = Position[pc] /\ progress' = Position[pc] + 1
      BY <2>2, <3>3 DEF progress
    <3>5. ASSUME pc \in StageSet, NEW f \in Facts, Establishes[f] < progress'
          PROVE  f \in effect(c)
      <4>1. Position[pc] \in 1 .. 25 /\ Establishes[f] <= Position[pc]
        BY <1>0, <3>4, <3>5, StagePosition
      <4>2. Establishes[f] < Position[pc] => f \in chip
        BY <2>2, <2>3, <3>4, <3>5 DEF Established
      <4>3. QED BY <3>1, <3>5, <4>1, <4>2, EffectOfStage
    <3>6. ~(state = "OK" /\ par.sofprofile # "late")
      BY <3>2 DEF KeptOut
    <3>7. QED BY <2>2, <2>3, <3>5, <3>6 DEF Established
  <2>6. QED BY <2>4, <2>5 DEF Hosts
<1>4. ASSUME NEW h \in Hosts, bulk_in(h) PROVE Established'
  <2>1. ph[h] = "in"
    BY <1>4 DEF bulk_in
  <2>2. ph'["setup"] = ph["setup"] \/ ph["setup"] = "in"
    BY <1>4, <2>1 DEF bulk_in, finish, Typed, Hosts
  <2>3. UNCHANGED <<par, out, chip, pc, link, state>>
    BY <1>4 DEF bulk_in
  <2>4. CASE pc \in StageSet
    <3>1. progress' <= progress
      BY <2>2, <2>3, <2>4, ProgressTyped DEF progress
    <3>2. QED BY <1>2, <2>3, <3>1
  <2>5. CASE pc \notin StageSet
    BY <1>1, <2>3, <2>5
  <2>6. QED BY <2>4, <2>5
<1>5. ASSUME NEW h \in Hosts, bulk_lost(h) \/ bulk_error(h) \/ bulk_timeout(h) PROVE Established'
  <2>1. ph' = [ph EXCEPT ![h] = "fail"]
    BY <1>5 DEF bulk_lost, bulk_error, bulk_timeout, finish
  <2>2. ph'["setup"] = ph["setup"] \/ ph'["setup"] = "fail"
    BY <2>1 DEF Typed, Hosts
  <2>3. UNCHANGED <<par, out, chip, pc, link, state>>
    BY <1>5 DEF bulk_lost, bulk_error, bulk_timeout
  <2>4. CASE pc \in StageSet
    <3>1. progress' <= progress
      BY <2>2, <2>3, <2>4, ProgressTyped DEF progress
    <3>2. QED BY <1>2, <2>3, <3>1
  <2>5. CASE pc \notin StageSet
    BY <1>1, <2>3, <2>5
  <2>6. QED BY <2>4, <2>5
<1>6. CASE service_take
  <2>1. UNCHANGED <<par, out, chip, pc, link, state, ph>>
    BY <1>6 DEF service_take
  <2>2. Pending' = Pending /\ progress' = progress
    BY <2>1 DEF Pending, effect, progress
  <2>3. QED BY <2>1, <2>2 DEF Established, gone
<1>7. ASSUME lose PROVE Established'
  BY <1>7 DEF lose, Established, gone
<1>8. CASE service_reply
  <2>1. CASE out.kind \in {"reset", "bootload"}
    BY <1>7, <1>8, <2>1 DEF service_reply
  <2>2. CASE out.kind \notin {"reset", "bootload"}
    <3>1. /\ out # Nothing /\ out' = Nothing /\ chip' = effect(out)
          /\ UNCHANGED <<par, pc, link, state, ph>>
      BY <1>8, <2>2 DEF service_reply, Driven
    <3>2. Pending' = Pending /\ progress' = progress
      BY <3>1 DEF Pending, progress
    <3>3. QED BY <3>1, <3>2 DEF Established, gone
  <2>3. QED BY <2>1, <2>2
<1>9. CASE unplug
  BY <1>7, <1>9 DEF unplug
<1>10. CASE disconnect
  BY <1>10 DEF disconnect, Established, gone
<1>11. CASE setup_start
  <2>1. /\ pc' \in {"ended", "burn", "restart"} /\ (state' = "OK" => state = "OK")
        /\ UNCHANGED <<par, out, chip, link>>
    BY <1>11 DEF setup_start
  <2>2. pc' \notin StageSet
    BY <2>1, Stageless DEF Beside
  <2>3. QED BY <1>1, <2>1, <2>2
<1>12. CASE setup_restart
  <2>1. /\ pc = "restart" /\ pc' \in {"ended", "sanity"} /\ ph' = ph
        /\ UNCHANGED <<par, out, chip, link, state>>
    BY <1>12 DEF setup_restart
  <2>2. "ended" \notin StageSet /\ "restart" \notin Commands /\ Position["sanity"] = 1
    BY Stageless, Places DEF Beside
  <2>3. ph["setup"] = "idle"
    BY <2>1, <2>2 DEF Driven
  <2>4. pc' \in StageSet => progress' = 1
    BY <2>1, <2>2, <2>3 DEF progress
  <2>5. Pending' = Pending
    BY <2>1 DEF Pending, effect
  <2>6. ASSUME pc' \in StageSet, NEW f \in Facts PROVE ~(Establishes[f] < progress')
    BY <1>0, <2>4, <2>6
  <2>7. QED BY <2>1, <2>5, <2>6 DEF Established, gone
<1>13. CASE setup_command
  <2>1. ph'["setup"] = "out" /\ ph["setup"] = "idle" /\ UNCHANGED <<par, out, chip, pc, link, state>>
    BY <1>13 DEF setup_command, Typed, Hosts
  <2>2. progress' = progress
    BY <2>1 DEF progress
  <2>3. Pending' = Pending
    BY <2>1 DEF Pending, effect
  <2>4. QED BY <2>1, <2>2, <2>3 DEF Established, gone
<1>14. CASE setup_result
  <2>1. /\ ph' = [ph EXCEPT !["setup"] = "idle"] /\ state' \in {state, "ERROR"}
        /\ pc' \in StageSet => pc \in StageSet /\ (Position[pc'] <= progress \/ progress >= 23)
        /\ UNCHANGED <<par, out, chip, link>>
    BY <1>14, ResultGoesOn
  <2>2. progress' = Position[pc']
    BY <2>1 DEF progress, Typed, Hosts
  <2>3. QED BY <1>1, <2>1, <2>2
<1>15. CASE setup_up
  <2>1. /\ pc = "up" /\ pc' \in {"sof_late", "ended"}
        /\ UNCHANGED <<par, out, chip, link, ph>>
    BY <1>15 DEF setup_up
  <2>2. /\ pc \in StageSet /\ Position[pc] = 25 /\ pc' \notin StageSet
    BY <2>1, Places, Stageless DEF Beside
  <2>3. progress >= 25
    BY <2>2, ProgressTyped
  <2>4. ~gone => Facts \subseteq Pending
    BY <1>0, <2>2, <2>3, ProgressTyped DEF Established
  <2>5. Pending' = Pending
    BY <2>1 DEF Pending, effect
  <2>6. QED BY <2>1, <2>2, <2>4, <2>5 DEF Established, gone
<1>16. CASE user \/ open \/ ioctl
  <2>1. ph'["setup"] = ph["setup"] /\ UNCHANGED <<par, out, chip, pc, link, state>>
    BY <1>16 DEF user, ioctl_command, ioctl_result, open, ioctl, Typed, Hosts
  <2>2. progress' = progress
    BY <2>1 DEF progress
  <2>3. Pending' = Pending
    BY <2>1 DEF Pending, effect
  <2>4. QED BY <2>1, <2>2, <2>3 DEF Established, gone
<1>17. CASE rest \/ UNCHANGED vars
  <2>1. UNCHANGED <<par, out, chip, pc, link, state, ph>>
    BY <1>17 DEF rest, vars
  <2>2. Pending' = Pending /\ progress' = progress
    BY <2>1 DEF Pending, effect, progress
  <2>3. QED BY <2>1, <2>2 DEF Established, gone
<1>18. ASSUME NEW h \in Hosts, usb(h) \/ bulk_timeout(h) PROVE Established'
  BY <1>3, <1>4, <1>5, <1>18 DEF usb
<1>19. QED
  BY <1>6, <1>8, <1>9, <1>10, <1>11, <1>12, <1>13, <1>14, <1>15, <1>16, <1>17, <1>18
     DEF Next, setup, firmware

(* A board that is declared OK, whose command buffer is empty, has been    *)
(* taken through the whole procedure since its last reset, whatever timed  *)
(* out on the way and whichever command a reply was meant for: a stage is  *)
(* left only when the board has taken its command, and what the board has  *)
(* taken it executes before it takes another.                              *)
THEOREM SetUpIsComplete == Spec => []ConfiguredWhenOK
<1> DEFINE SetUpInv == Typed /\ Driven /\ KeptOut /\ Established
<1>1. Init => SetUpInv
  <2>1. "wait" \notin StageSet
    BY Stageless
  <2>2. Init => KeptOut /\ Established
    BY <2>1 DEF Init, KeptOut, Established
  <2>3. QED BY <2>2, TypedInit
<1>2. SetUpInv /\ [Next]_vars => SetUpInv'
  BY TypedStep, KeptOutStep, EstablishedStep
<1>3. SetUpInv => ConfiguredWhenOK
  BY DEF Typed, Established, Pending, ConfiguredWhenOK
<1>4. QED BY <1>1, <1>2, <1>3, PTL DEF Spec

-----------------------------------------------------------------------------
(***************************************************************************)
(* Replies are matched while nothing has timed out.                        *)
(***************************************************************************)

(* At most one host is in the middle of a command.                         *)
LEMMA OneAtATime ==
  ASSUME Typed, Driven, KeptOut, Calm,
         NEW g \in Hosts, NEW h \in Hosts, ph[g] # "idle", ph[h] # "idle"
  PROVE  g = h
<1>1. ph["user"] # "idle" => pc = "ended"
  BY DEF Driven, KeptOut, Calm
<1>2. ph["setup"] # "idle" => pc # "ended"
  BY Stageless DEF Driven, Beside
<1>3. QED BY <1>1, <1>2 DEF Hosts

LEMMA CurrentIsDistinct ==
  ASSUME NEW g \in Hosts, NEW h \in Hosts, current(g) = current(h) PROVE g = h
<1>1. \A k \in Hosts : current(k).by = k
  BY DEF current
<1>2. QED BY <1>1

LEMMA MatchedStep ==
  ASSUME Typed, Driven, KeptOut, Matched, [Next]_vars PROVE Matched'
<1> USE DEF setupVars, userVars, boardVars, board
<1>0. Typed' /\ Driven'
  BY TypedStep
<1>1. SUFFICES ASSUME Calm' PROVE Matched'
  BY DEF Matched
(* Only hosts without a command change, and only in what they will send.   *)
<1>2. ASSUME UNCHANGED <<par, out, fw, inp, armed, link, timeouts>>,
             \A h \in Hosts : ph'[h] = "in" <=> ph[h] = "in",
             \A h \in Hosts : ph[h] = "in" => current(h)' = current(h)
      PROVE  Matched'
  <2>1. Calm
    BY <1>1, <1>2 DEF Calm, gone
  <2>2. \A h \in Hosts : ph'[h] = "in" => Awaited(h)'
    <3>1. ASSUME NEW h \in Hosts, ph'[h] = "in" PROVE Awaited(h)'
      <4>1. Awaited(h) /\ current(h)' = current(h)
        BY <1>2, <2>1, <3>1 DEF Matched
      <4>2. QED BY <1>2, <4>1 DEF Awaited
    <3>2. QED BY <3>1
  <2>3. out' # Nothing => counter(out'.kind) = 0 \/ \E h \in Hosts : ph'[h] = "in" /\ out' = current(h)'
    <3>1. out # Nothing => counter(out.kind) = 0 \/ \E h \in Hosts : ph[h] = "in" /\ out = current(h)
      BY <2>1 DEF Matched
    <3>2. CASE out # Nothing /\ counter(out.kind) # 0
      <4>1. PICK h \in Hosts : ph[h] = "in" /\ out = current(h)
        BY <3>1, <3>2
      <4>2. ph'[h] = "in" /\ out' = current(h)'
        BY <1>2, <4>1
      <4>3. QED BY <4>2
    <3>3. QED BY <1>2, <3>2
  <2>4. armed' # 0 => \E h \in Hosts : ph'[h] = "in"
    BY <1>2, <2>1 DEF Matched
  <2>5. fw' = "serve" => inp'.by = out'.by /\ inp'.age = 0
    BY <1>2, <2>1 DEF Matched
  <2>6. QED BY <2>2, <2>3, <2>4, <2>5 DEF Matched
<1>3. ASSUME UNCHANGED <<par, out, fw, inp, armed, link, timeouts, ph, pc, todo>> PROVE Matched'
  <2>1. \A h \in Hosts : current(h)' = current(h)
    BY <1>3 DEF current
  <2>2. QED BY <1>2, <1>3, <2>1
<1>4. ASSUME NEW h \in Hosts, bulk_out(h) PROVE Matched'
  <2>1. /\ ph[h] = "out" /\ out = Nothing /\ out' = current(h)
        /\ UNCHANGED <<par, pc, todo, fw, armed, link, timeouts>>
    BY <1>4 DEF bulk_out
  <2>2. Calm /\ current(h) # Nothing /\ fw # "serve"
    BY <1>1, <1>4, <2>1, CurrentCommand DEF Calm, gone, Driven
  <2>3. \A g \in Hosts : g # h => ph[g] = "idle"
    BY <2>1, <2>2, OneAtATime
  <2>4. armed = 0
    BY <2>1, <2>2, <2>3 DEF Matched
  <2>5. \A g \in Hosts : current(g)' = current(g)
    BY <2>1 DEF current
  <2>6. CASE rlngth[current(h).kind] = 0
    <3>1. ph' = [ph EXCEPT ![h] = "ok"]
      BY <1>4, <2>6 DEF bulk_out
    <3>2. \A g \in Hosts : ph'[g] # "in"
      BY <2>3, <3>1 DEF Typed
    <3>3. counter(out'.kind) = 0
      BY <2>1, <2>6 DEF counter
    <3>4. QED BY <2>1, <2>2, <2>4, <3>2, <3>3 DEF Matched
  <2>7. CASE rlngth[current(h).kind] # 0
    <3>1. ph' = [ph EXCEPT ![h] = "in"]
      BY <1>4, <2>7 DEF bulk_out
    <3>2. ph'[h] = "in" /\ \A g \in Hosts : ph'[g] = "in" => g = h
      BY <2>3, <3>1 DEF Typed
    <3>3. Awaited(h)'
      BY <2>1, <2>4, <2>5, <2>7 DEF Awaited
    <3>4. QED BY <2>1, <2>2, <2>4, <2>5, <3>2, <3>3 DEF Matched
  <2>8. QED BY <2>6, <2>7
<1>5. ASSUME NEW h \in Hosts, bulk_in(h) PROVE Matched'
  <2>1. /\ ph[h] = "in" /\ armed # 0 /\ armed' = 0
        /\ UNCHANGED <<par, pc, todo, out, fw, inp, link, timeouts>>
    BY <1>5 DEF bulk_in
  <2>2. Calm
    BY <1>1, <2>1 DEF Calm, gone
  <2>3. out = Nothing
    BY <2>1, <2>2 DEF Matched, Awaited
  <2>4. \A g \in Hosts : g # h => ph[g] = "idle"
    BY <2>1, <2>2, OneAtATime
  <2>5. verdicts(h) \subseteq {"ok", "bad"}
    BY DEF verdicts
  <2>6. PICK v \in {"ok", "bad", "fail"} : ph' = [ph EXCEPT ![h] = v]
    BY <1>5, <2>5 DEF bulk_in, finish
  <2>7. \A g \in Hosts : ph'[g] # "in"
    BY <2>4, <2>6 DEF Typed
  <2>8. fw # "serve"
    BY <2>3 DEF Driven
  <2>9. QED BY <2>1, <2>3, <2>7, <2>8 DEF Matched
<1>6. ASSUME NEW h \in Hosts, bulk_timeout(h) \/ bulk_lost(h) PROVE FALSE
  <2>1. timeouts = 0 => timeouts' = 1
    BY <1>6, BulkConstants DEF bulk_timeout, bulk_lost, Typed
  <2>2. timeouts' # 0
    BY <1>6, <2>1 DEF bulk_timeout, bulk_lost, Typed
  <2>3. QED BY <1>1, <2>2 DEF Calm
<1>7. ASSUME NEW h \in Hosts, bulk_error(h) PROVE FALSE
  BY <1>1, <1>7 DEF bulk_error, Calm, gone
<1>8. CASE service_take
  <2>1. /\ out # Nothing /\ inp'.by = out.by /\ inp'.age = 0
        /\ UNCHANGED <<par, pc, todo, ph, out, armed, link, timeouts>>
    BY <1>8 DEF service_take
  <2>2. Calm
    BY <1>1, <2>1 DEF Calm, gone
  <2>3. \A g \in Hosts : current(g)' = current(g)
    BY <2>1 DEF current
  <2>4. ASSUME NEW g \in Hosts, ph[g] = "in" PROVE Awaited(g)'
    <3>1. Awaited(g)
      BY <2>2, <2>4 DEF Matched
    <3>2. QED BY <2>1, <2>3, <3>1 DEF Awaited
  <2>5. /\ armed # 0 => \E g \in Hosts : ph[g] = "in"
        /\ counter(out.kind) = 0 \/ \E g \in Hosts : ph[g] = "in" /\ out = current(g)
    BY <2>1, <2>2 DEF Matched
  <2>6. QED BY <2>1, <2>3, <2>4, <2>5 DEF Matched
<1>9. CASE service_reply
  <2>1. out.kind \notin {"reset", "bootload"}
    BY <1>1, <1>9 DEF service_reply, lose, Calm, gone
  <2>2. /\ fw = "serve" /\ fw' = "idle" /\ out' = Nothing
        /\ inp' = [inp EXCEPT !.torn = counter(out.kind) = 0]
        /\ armed' = IF armed = 0 THEN counter(out.kind) ELSE armed
        /\ UNCHANGED <<link, par, pc, todo, ph, timeouts>>
    BY <1>9, <2>1 DEF service_reply
  <2>3. Calm /\ out # Nothing
    BY <1>1, <2>2 DEF Calm, gone, Driven
  <2>4. \A g \in Hosts : current(g)' = current(g)
    BY <2>2 DEF current
  <2>5. inp.by = out.by /\ inp.age = 0
    BY <2>2, <2>3 DEF Matched
  <2>6. \A g \in Hosts : ph[g] = "in" =>
          out = current(g) /\ armed = 0 /\ counter(out.kind) # 0
    BY <2>3 DEF Matched, Awaited, counter
  <2>7. CASE \E g \in Hosts : ph[g] = "in"
    <3>1. PICK h \in Hosts : ph[h] = "in"
      BY <2>7
    <3>2. out = current(h) /\ armed = 0 /\ counter(out.kind) # 0
      BY <2>6, <3>1
    <3>3. out.by = h
      BY <3>2 DEF current
    <3>4. PICK b : b = (counter(out.kind) = 0)
      OBVIOUS
    <3>5. ~b
      BY <3>2, <3>4
    <3>6. inp' = [inp EXCEPT !.torn = b]
      BY <2>2, <3>4, Zenon
    <3>7. inp'.by = inp.by /\ inp'.age = inp.age /\ inp'.torn = b
      BY <3>6 DEF Typed, Reply
    <3>8. armed' = rlngth[current(h).kind] /\ armed' # 0
      BY <2>2, <3>2 DEF counter
    <3>9. inp'.by = h /\ inp'.age = 0 /\ ~inp'.torn
      BY <2>5, <3>3, <3>5, <3>7
    <3>10. Awaited(h)'
      BY <2>2, <2>4, <3>8, <3>9 DEF Awaited
    <3>11. \A g \in Hosts : ph[g] = "in" => g = h
      BY <2>3, <3>1, OneAtATime
    <3>12. QED BY <2>2, <3>1, <3>10, <3>11 DEF Matched
  <2>8. CASE \A g \in Hosts : ph[g] # "in"
    <3>1. counter(out.kind) = 0 /\ armed = 0
      BY <2>3, <2>8 DEF Matched
    <3>2. armed' = 0
      BY <2>2, <3>1
    <3>3. QED BY <2>2, <2>8, <3>2 DEF Matched
  <2>9. QED BY <2>7, <2>8
<1>10. ASSUME lose PROVE FALSE
  BY <1>1, <1>10 DEF lose, Calm, gone
<1>11. CASE disconnect
  BY <1>1, <1>11 DEF disconnect, Calm, gone
<1>12. CASE setup_start \/ setup_restart \/ setup_up
  <2>1. pc \in {"wait", "restart", "up"} /\ UNCHANGED <<par, out, fw, inp, armed, link, timeouts, ph, todo>>
    BY <1>12 DEF setup_start, setup_restart, setup_up
  <2>2. ph["setup"] = "idle"
    BY <2>1, Stageless DEF Driven, Beside
  <2>3. \A h \in Hosts : ph[h] = "in" => current(h)' = current(h)
    BY <2>1, <2>2 DEF current, Hosts
  <2>4. QED BY <1>2, <2>1, <2>3
<1>13. CASE setup_command
  <2>1. /\ ph["setup"] = "idle" /\ ph' = [ph EXCEPT !["setup"] = "out"]
        /\ UNCHANGED <<par, out, fw, inp, armed, link, timeouts, pc, todo>>
    BY <1>13 DEF setup_command
  <2>2. \A h \in Hosts : (ph'[h] = "in" <=> ph[h] = "in") /\ current(h)' = current(h)
    BY <2>1 DEF current, Hosts, Typed
  <2>3. QED BY <1>2, <2>1, <2>2
<1>14. CASE setup_result
  <2>1. /\ ph["setup"] \in {"ok", "bad", "fail"} /\ ph' = [ph EXCEPT !["setup"] = "idle"]
        /\ UNCHANGED <<par, out, fw, inp, armed, link, timeouts, todo>>
    BY <1>14, ResultGoesOn
  <2>2. \A h \in Hosts : (ph'[h] = "in" <=> ph[h] = "in")
    BY <2>1 DEF Hosts, Typed
  <2>3. \A h \in Hosts : ph[h] = "in" => current(h)' = current(h)
    BY <2>1 DEF current, Hosts
  <2>4. QED BY <1>2, <2>1, <2>2, <2>3
<1>15. CASE ioctl_command
  <2>1. /\ ph["user"] = "idle" /\ ph' = [ph EXCEPT !["user"] = "out"]
        /\ UNCHANGED <<par, out, fw, inp, armed, link, timeouts, pc, todo>>
    BY <1>15 DEF ioctl_command
  <2>2. \A h \in Hosts : (ph'[h] = "in" <=> ph[h] = "in") /\ current(h)' = current(h)
    BY <2>1 DEF current, Hosts, Typed
  <2>3. QED BY <1>2, <2>1, <2>2
<1>16. CASE ioctl_result
  <2>1. /\ ph["user"] \in {"ok", "fail"} /\ ph' = [ph EXCEPT !["user"] = "idle"]
        /\ UNCHANGED <<par, out, fw, inp, armed, link, timeouts, pc>>
    BY <1>16 DEF ioctl_result
  <2>2. \A h \in Hosts : (ph'[h] = "in" <=> ph[h] = "in")
    BY <2>1 DEF Hosts, Typed
  <2>3. \A h \in Hosts : ph[h] = "in" => current(h)' = current(h)
    BY <2>1 DEF current, Hosts
  <2>4. QED BY <1>2, <2>1, <2>2, <2>3
<1>17. CASE ioctl
  <2>1. todo = <<>> /\ UNCHANGED <<par, out, fw, inp, armed, link, timeouts, ph, pc>>
    BY <1>17 DEF ioctl
  <2>2. ph["user"] = "idle"
    BY <2>1 DEF Driven
  <2>3. \A h \in Hosts : ph[h] = "in" => current(h)' = current(h)
    BY <2>1, <2>2 DEF current, Hosts
  <2>4. QED BY <1>2, <2>1, <2>3
<1>18. CASE open \/ rest \/ UNCHANGED vars
  BY <1>3, <1>18 DEF open, rest, vars
<1>19. ASSUME NEW h \in Hosts, usb(h) \/ bulk_timeout(h) PROVE Matched'
  BY <1>4, <1>5, <1>6, <1>7, <1>19 DEF usb
<1>20. QED
  BY <1>8, <1>9, <1>10, <1>11, <1>12, <1>13, <1>14, <1>15, <1>16, <1>17, <1>18, <1>19
     DEF Next, setup, user, firmware, unplug

(* While no transfer has timed out, set-up and ioctl accept only whole     *)
(* replies to their own last command, although nothing ties a reply to its *)
(* command and no lock is held over the two transfers: dev->state keeps    *)
(* processes out until the set-up is over, unless availinerror or late SOF *)
(* profiling is on.                                                        *)
THEOREM RepliesAreOnesOwn == Spec => OwnReply
<1> DEFINE ReplyInv == Typed /\ Driven /\ KeptOut /\ Matched
<1> DEFINE Own == \A h \in Hosts :
       accepts(h) /\ timeouts = 0 /\ ~par.availinerror /\ par.sofprofile # "late"
         => inp.by = h /\ inp.age = 0 /\ ~inp.torn
<1>1. Init => ReplyInv
  <2>1. Init => KeptOut
    BY DEF Init, KeptOut
  <2>2. Init => Matched
    BY DEF Init, Matched, Hosts
  <2>3. QED BY <2>1, <2>2, TypedInit
<1>2. ReplyInv /\ [Next]_vars => ReplyInv'
  BY TypedStep, KeptOutStep, MatchedStep
<1>3. ReplyInv /\ [Next]_vars => [Own]_vars
  <2>1. SUFFICES ASSUME ReplyInv, Next, NEW h \in Hosts, accepts(h), timeouts = 0,
                        ~par.availinerror, par.sofprofile # "late"
                 PROVE  inp.by = h /\ inp.age = 0 /\ ~inp.torn
    OBVIOUS
  <2>2. ph[h] = "in" /\ ph'[h] \in {"ok", "bad"}
    BY <2>1 DEF accepts
  <2>3. bulk_in(h)
    <3>1. ASSUME UNCHANGED ph PROVE FALSE
      BY <2>2, <3>1
    <3>2. ASSUME NEW g \in Hosts, g # h, NEW v, ph' = [ph EXCEPT ![g] = v] PROVE FALSE
      BY <2>1, <2>2, <3>2 DEF Typed
    <3>3. ASSUME ph' = [ph EXCEPT ![h] = "fail"] PROVE FALSE
      BY <2>1, <2>2, <3>3 DEF Typed
    <3>4. ~(setup_start \/ setup_restart \/ setup_up \/ open \/ ioctl \/ service_take
            \/ service_reply \/ unplug \/ disconnect \/ rest)
      BY <3>1 DEF setup_start, setup_restart, setup_up, open, ioctl, service_take,
                  service_reply, unplug, disconnect, rest, vars, userVars, board
    <3>5. ~(setup_command \/ setup_result)
      BY <2>1, <2>2 DEF setup_command, setup_result, Typed, Hosts
    <3>6. ~(ioctl_command \/ ioctl_result)
      BY <2>1, <2>2 DEF ioctl_command, ioctl_result, Typed, Hosts
    <3>7. ASSUME NEW g \in Hosts, bulk_lost(g) \/ bulk_error(g) \/ bulk_timeout(g) PROVE FALSE
      BY <3>2, <3>3, <3>7 DEF bulk_lost, bulk_error, bulk_timeout, finish
    <3>8. ASSUME NEW g \in Hosts, bulk_out(g) PROVE FALSE
      BY <2>1, <2>2, <3>8 DEF bulk_out, Typed
    <3>9. ASSUME NEW g \in Hosts, bulk_in(g) PROVE g = h
      BY <3>2, <3>9 DEF bulk_in, finish
    <3>10. QED
      BY <2>1, <3>4, <3>5, <3>6, <3>7, <3>8, <3>9 DEF Next, setup, user, firmware, usb
  <2>4. Calm /\ armed # 0
    BY <2>1, <2>3 DEF Calm, bulk_in
  <2>5. Awaited(h)
    BY <2>1, <2>2, <2>4 DEF Matched
  <2>6. QED BY <2>4, <2>5 DEF Awaited
<1>4. QED BY <1>1, <1>2, <1>3, PTL DEF Spec, OwnReply


=============================================================================
