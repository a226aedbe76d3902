------------------------------ MODULE OufxsBulk ------------------------------
(***************************************************************************)
(* The bulk commands of the DAHDI driver, its board set-up, and the        *)
(* firmware that serves them.                                              *)
(*                                                                         *)
(* Two host contexts send commands: the set-up work (oufxs_setup) and a    *)
(* process in oufxs_ioctl.  A command is one OUT transfer and, for most    *)
(* kinds, one IN transfer, each with a timeout of a second; no lock        *)
(* covers the pair ("??? locking?").  The board has one OUT buffer         *)
(* (OUTPacket), re-armed when the command in it has been served, and one   *)
(* IN buffer (INPacket), which the next command overwrites whether or not  *)
(* the reply in it has been collected.  A host accepts whatever reply has  *)
(* the length it expects.                                                  *)
(*                                                                         *)
(* A label of the set-up whose code is several commands of one kind issues *)
(* one command here; the replies' values are what the driver's tests tell  *)
(* apart: they pass or they do not.                                        *)
(***************************************************************************)
EXTENDS Naturals, Sequences, FiniteSets, SequencesExt

CONSTANTS
  Params,      (* scenarios: the serial number and the module parameters,  *)
               (* and two bounds, on the transfers that time out and on    *)
               (* the replies that fail a test                             *)
  Tries,       (* reads of a retry loop: 10 (converter, ADC), 32 (Q5/Q6)   *)
  UserCalls,   (* bound: ioctls                                            *)
  Unplugs      (* the board may be unplugged or unbound                    *)

ASSUME BulkConstants ==
  /\ Params \subseteq [serial : {"none", "blank", "burnt"},
                       sofprofile : {"off", "early", "late"},
                       availinerror : BOOLEAN, retonfail : BOOLEAN,
                       late : Nat, bad : Nat]
  /\ Tries \in Nat \ {0} /\ UserCalls \in Nat /\ Unplugs \in BOOLEAN

VARIABLES
  par,       (* the module parameters of this run                          *)
  state,     (* dev->state                                                 *)
  pc,        (* where oufxs_setup is                                       *)
  n,         (* reads made by its current retry loop                       *)
  fails,     (* cnvfail, adcfail, q56fail                                  *)
  todo, ign, (* commands left of the ioctl; whether it ignores errors      *)
  opened, calls,
  ph,        (* ph[h]: progress of h's current command                     *)
  queue,     (* hosts with an IN transfer posted, oldest first             *)
  out,       (* OUTPacket: the command in it, or Nothing                   *)
  fw,        (* ServiceRequests: "idle", or "serve" a command              *)
  inp,       (* INPacket: whose reply it is, of what, how old, whether     *)
             (* half written                                               *)
  armed,     (* length of the reply the board has to send, 0 if none       *)
  chip,      (* what has been established on the board                     *)
  link,      (* "up"; "lost": the board does not answer this driver any    *)
             (* more; "reported": and oufxs_disconnect has been called     *)
  timeouts, bads

setupVars == <<state, pc, n, fails>>
userVars  == <<todo, ign, opened, calls>>
boardVars == <<out, fw, inp, armed, chip>>
vars == <<par, setupVars, userVars, ph, queue, boardVars, link, timeouts, bads>>

Hosts == {"setup", "user"}

gone == link # "up"

(***************************************************************************)
(* The commands: their kinds, and the length of the reply a host reads (0: *)
(* it does not read one).                                                  *)
(***************************************************************************)
NoReply == {"startstop", "bootload", "reset"}
rlngth == [rdirect |-> 3, wdirect |-> 3, rdindir |-> 4, wrindir |-> 4,
           version |-> 5, serial |-> 6, sofprof |-> 32,
           startstop |-> 0, bootload |-> 0, reset |-> 0]

(* The length of the firmware's reply (counter).                           *)
counter(kind) == rlngth[kind]

(***************************************************************************)
(* The set-up: its labels in program order, and the tests they make.       *)
(***************************************************************************)
Stages == <<"sanity", "quiesce", "ind", "dcconv", "conv_on", "volt",
            "leak_off", "leak_rd", "leak_on", "leak_volt", "intr_off",
            "adc_start", "adc_rd", "q56_wr", "q56_rd", "lbl", "lbl_rd",
            "dc_cal", "fin_ir", "fin_dr", "fin_line", "startio",
            "dump_dr", "dump_ir", "up">>

Position == [l \in ToSet(Stages) |-> CHOOSE i \in 1..Len(Stages) : Stages[i] = l]
after(l) == Stages[Position[l] + 1]

(* dr_write_check and dr_read_chk compare the reply with one value.        *)
Exact == {"sanity", "quiesce", "dcconv", "conv_on", "leak_on", "intr_off",
          "adc_start", "fin_dr"}
(* These compare it with a threshold.                                      *)
Threshold == {"volt", "leak_volt", "adc_rd", "q56_rd", "lbl_rd"}

kindOf(l) ==
  CASE l \in {"ind", "fin_ir"} -> "wrindir"
    [] l \in {"sanity", "leak_rd", "dump_dr", "cnv_dump", "cal_dump"} \union Threshold -> "rdirect"
    [] l = "dump_ir" -> "rdindir"
    [] l = "startio" -> "startstop"
    [] l = "burn" -> "serial"
    [] l \in {"sof_early", "sof_late"} -> "sofprof"
    [] OTHER -> "wdirect"

Commands == (ToSet(Stages) \ {"up"})
            \union {"burn", "sof_early", "sof_late",
                    "cnv_off", "cnv_dump", "cal_dump"}
Labels == Commands \union {"wait", "restart", "up", "ended"}

(* What the commands establish on the board.                               *)
Facts == {"on", "ind", "fin", "line", "pcm"}

effect(c) ==
  CASE c.lab \in {"conv_on", "leak_on"} -> chip \union {"on"}
    [] c.lab = "quiesce"                -> chip \ {"on", "line"}
    [] c.lab \in {"leak_off", "cnv_off"} -> chip \ {"on"}
    [] c.lab \in {"intr_off", "lbl"}    -> chip \ {"line"}
    [] c.lab = "ind"                    -> chip \union {"ind"}
    [] c.lab = "fin_dr"                 -> chip \union {"fin"}
    [] c.lab = "fin_line"               -> chip \union {"line"}
    [] c.lab = "startio"                -> chip \union {"pcm"}
    [] c.kind = "sofprof"               -> chip \intersect {"pcm"}
    [] OTHER                            -> chip

Nothing == [by |-> "none", kind |-> "none", lab |-> "none"]

NoReplyYet == [by |-> "none", lab |-> "none", age |-> 0, torn |-> FALSE]

Init ==
  /\ par \in Params
  /\ state = "IDLE" /\ pc = "wait" /\ n = 0
  /\ fails = [t \in {"cnv", "adc", "q56"} |-> 0]
  /\ todo = <<>> /\ ign = FALSE /\ opened = FALSE /\ calls = 0
  /\ ph = [h \in Hosts |-> "idle"] /\ queue = <<>>
  /\ out = Nothing /\ fw = "idle" /\ inp = NoReplyYet
  /\ armed = 0 /\ chip = {} /\ link = "up"
  /\ timeouts = 0 /\ bads = 0

-----------------------------------------------------------------------------
(***************************************************************************)
(* One command of a host: usb_bulk_msg out, then in.                       *)
(***************************************************************************)
current(h) ==
  IF h = "setup" THEN [by |-> h, kind |-> kindOf(pc), lab |-> pc]
                 ELSE [by |-> h, kind |-> Head(todo), lab |-> "user"]

finish(h, result) ==
  /\ ph' = [ph EXCEPT ![h] = result]
  /\ queue' = SelectSeq(queue, LAMBDA g : g # h)

(* The board takes the OUT transfer when its buffer is armed.              *)
bulk_out(h) ==
  /\ ph[h] = "out" /\ ~gone /\ out = Nothing
  /\ out' = current(h)
  /\ inp' = [inp EXCEPT !.age = IF @ < 2 THEN @ + 1 ELSE 2]
  /\ IF rlngth[current(h).kind] = 0
       THEN ph' = [ph EXCEPT ![h] = "ok"] /\ UNCHANGED queue
       ELSE ph' = [ph EXCEPT ![h] = "in"] /\ queue' = Append(queue, h)
  /\ UNCHANGED <<par, setupVars, userVars, fw, armed, chip, link, timeouts, bads>>

(* The results the test of h's command can have on the reply in INPacket.  *)
(* A reply to another command never has the one value an exact test wants. *)
verdicts(h) ==
  LET l == current(h).lab IN
  CASE h = "user" \/ l \notin Exact \union Threshold -> {"ok"}
    [] l \in Exact /\ inp.lab # l /\ ~inp.torn      -> {"bad"}
    [] OTHER -> IF bads < par.bad THEN {"ok", "bad"} ELSE {"ok"}

(* The reply is sent to the oldest IN transfer.  A length other than the   *)
(* expected one is -EIO.                                                   *)
bulk_in(h) ==
  /\ ph[h] = "in" /\ ~gone /\ armed # 0 /\ Head(queue) = h
  /\ armed' = 0
  /\ IF armed = rlngth[current(h).kind]
       THEN \E v \in verdicts(h) :
              /\ finish(h, v)
              /\ bads' = IF v = "bad" /\ bads < par.bad THEN bads + 1 ELSE bads
       ELSE finish(h, "fail") /\ UNCHANGED bads
  /\ UNCHANGED <<par, setupVars, userVars, out, fw, inp, chip, link, timeouts>>

(* -ETIMEDOUT: the OUT buffer is not re-armed, or no reply is sent, for a  *)
(* second.                                                                 *)
bulk_timeout(h) ==
  /\ ~gone /\ timeouts < par.late
  /\ \/ ph[h] = "out" /\ out # Nothing
     \/ ph[h] = "in" /\ armed = 0
  /\ finish(h, "fail")
  /\ timeouts' = timeouts + 1
  /\ UNCHANGED <<par, setupVars, userVars, boardVars, link, bads>>

(* A reply that another host has collected, or that was not sent, never    *)
(* comes: this timeout is certain.                                         *)
bulk_lost(h) ==
  /\ ~gone /\ ph[h] = "in" /\ armed = 0 /\ out = Nothing
  /\ finish(h, "fail")
  /\ timeouts' = IF timeouts <= par.late THEN timeouts + 1 ELSE timeouts
  /\ UNCHANGED <<par, setupVars, userVars, boardVars, link, bads>>

(* Every transfer fails when the board is gone.                            *)
bulk_error(h) ==
  /\ gone /\ ph[h] \in {"out", "in"}
  /\ finish(h, "fail")
  /\ UNCHANGED <<par, setupVars, userVars, boardVars, link, timeouts, bads>>

-----------------------------------------------------------------------------
(* Mutant: INPacket is left alone while a reply is waiting in it.          *)
service_take_free ==
  /\ fw = "idle" /\ out # Nothing /\ ~gone
  /\ fw' = "serve"
  /\ inp' = IF armed = 0
              THEN [by |-> out.by, lab |-> out.lab, age |-> 0, torn |-> TRUE]
              ELSE inp
  /\ UNCHANGED <<par, setupVars, userVars, ph, queue, out, armed, chip, link, timeouts, bads>>

(***************************************************************************)
(* ServiceRequests, in two steps: the host may collect INPacket between    *)
(* them.                                                                   *)
(***************************************************************************)
service_take ==
  /\ fw = "idle" /\ out # Nothing /\ ~gone
  /\ fw' = "serve"
  /\ inp' = [by |-> out.by, lab |-> out.lab, age |-> 0, torn |-> TRUE]
  /\ UNCHANGED <<par, setupVars, userVars, ph, queue, out, armed, chip, link, timeouts, bads>>

(* What a board held when it went away is lost.                            *)
lose ==
  /\ out' = Nothing /\ fw' = "idle" /\ inp' = NoReplyYet
  /\ armed' = 0 /\ chip' = {} /\ link' = "lost"

(* Mutant: the OUT buffer is re-armed only when the reply could be sent.   *)
service_reply_rearm ==
  /\ fw = "serve" /\ ~gone
  /\ fw' = "idle" /\ chip' = effect(out)
  /\ out' = IF armed = 0 /\ counter(out.kind) # 0 THEN Nothing ELSE out
  /\ inp' = [inp EXCEPT !.torn = counter(out.kind) = 0]
  /\ armed' = IF armed = 0 THEN counter(out.kind) ELSE armed
  /\ UNCHANGED <<link, par, setupVars, userVars, ph, queue, timeouts, bads>>

(* The command is executed, the reply is completed, and sent unless the    *)
(* IN endpoint is busy; the OUT buffer is re-armed.                        *)
service_reply ==
  /\ fw = "serve" /\ ~gone
  /\ IF out.kind \in {"reset", "bootload"}
       THEN lose
       ELSE /\ fw' = "idle" /\ out' = Nothing
            /\ chip' = effect(out)
            /\ inp' = [inp EXCEPT !.torn = counter(out.kind) = 0]
            /\ armed' = IF armed = 0 THEN counter(out.kind) ELSE armed
            /\ UNCHANGED link
  /\ UNCHANGED <<par, setupVars, userVars, ph, queue, timeouts, bads>>

unplug ==
  /\ Unplugs /\ ~gone /\ lose
  /\ UNCHANGED <<par, setupVars, userVars, ph, queue, timeouts, bads>>

(* oufxs_disconnect: the part the set-up sees.                             *)
disconnect ==
  /\ link = "lost" /\ link' = "reported" /\ state' = "UNLOAD"
  /\ UNCHANGED <<par, pc, n, fails, userVars, ph, queue, boardVars, timeouts, bads>>

-----------------------------------------------------------------------------
(***************************************************************************)
(* oufxs_setup.                                                            *)
(***************************************************************************)
board == <<par, userVars, queue, boardVars, link, timeouts, bads>>

(* After a second: the serial number, and the state.                       *)
setup_start ==
  /\ pc = "wait"
  /\ CASE par.serial = "none"  -> pc' = "ended" /\ UNCHANGED state
       [] par.serial = "blank" -> pc' = "burn" /\ UNCHANGED state
       [] OTHER -> IF state = "IDLE" THEN pc' = "restart" /\ state' = "INIT"
                                     ELSE pc' = "ended" /\ UNCHANGED state
  /\ UNCHANGED <<n, fails, ph, board>>

(* Mutant: the set-up does not look at the state when it starts again.     *)
setup_restart_blind ==
  /\ pc = "restart" /\ pc' = "sanity" /\ n' = 0
  /\ UNCHANGED <<state, fails, ph, board>>

(* init_restart.                                                           *)
setup_restart ==
  /\ pc = "restart"
  /\ pc' = IF state = "UNLOAD" THEN "ended" ELSE "sanity"
  /\ n' = 0
  /\ UNCHANGED <<state, fails, ph, board>>

setup_command ==
  /\ pc \in Commands /\ ph["setup"] = "idle"
  /\ ph' = [ph EXCEPT !["setup"] = "out"]
  /\ UNCHANGED <<setupVars, board>>

goto(l) == pc' = l /\ n' = 0

(* A converter, ADC or Q5/Q6 test has failed for good: the third time this *)
(* is reported, with a dump, and the set-up may give up.  The converter is *)
(* powered down first if it is the one that failed.                        *)
test_failed(t) ==
  /\ fails' = [fails EXCEPT ![t] = IF @ < 3 THEN @ + 1 ELSE 3]
  /\ goto(CASE t = "cnv" /\ fails[t] = 2 -> "cnv_dump"
            [] t = "cnv"                  -> "cnv_off"
            [] fails[t] = 2               -> "cal_dump"
            [] OTHER                      -> "restart")
  /\ UNCHANGED state

again(l) == pc' = l /\ n' = n + 1 /\ UNCHANGED <<state, fails>>
proceed(l) == goto(l) /\ UNCHANGED <<state, fails>>

Ignored == {"dump_dr", "dump_ir", "burn", "sof_early", "sof_late", "cnv_dump", "cal_dump"}

(* Mutant: errors of ir_write are not looked at.                           *)
command_failed_ir ==
  /\ pc \notin Ignored
  /\ proceed(IF kindOf(pc) = "wrindir" THEN after(pc) ELSE "restart")

(* A command other than those of Ignored failed: start again.              *)
command_failed == pc \notin Ignored /\ proceed("restart")

(* Retry loops and tests, by the verdict v on the reply.                   *)
retry_test(v) ==
  \/ v = "ok" /\ pc = "volt" /\ goto(after(pc))
     /\ fails' = [fails EXCEPT !["cnv"] = 0] /\ UNCHANGED state
  \/ v = "ok" /\ pc \in {"adc_rd", "q56_rd", "lbl_rd", "leak_volt"} /\ proceed(after(pc))
  \/ v = "bad" /\ pc = "leak_volt" /\ proceed("restart")
  \/ v = "bad" /\ pc = "lbl_rd" /\ proceed(pc)
  \/ v = "bad" /\ n + 1 < Tries /\ pc \in {"volt", "adc_rd"} /\ again(pc)
  \/ v = "bad" /\ n + 1 < Tries /\ pc = "q56_rd" /\ again("q56_wr")
  \/ v = "bad" /\ n + 1 = Tries /\ pc = "volt" /\ test_failed("cnv")
  \/ v = "bad" /\ n + 1 = Tries /\ pc = "adc_rd" /\ test_failed("adc")
  \/ v = "bad" /\ n + 1 = Tries /\ pc = "q56_rd" /\ test_failed("q56")

(* The leakage test reads until the voltage is low or half a second has    *)
(* passed; either way the set-up goes on.                                  *)
leak_test ==
  /\ pc = "leak_rd"
  /\ \/ proceed(after(pc))
     \/ n + 1 < Tries /\ again(pc)

(* Commands whose value is not tested, or is tested exactly.               *)
plain(v) ==
  /\ pc \in ToSet(Stages) \ (Threshold \union Ignored \union {"q56_wr", "leak_rd"})
  /\ v = "ok"
  /\ proceed(IF pc = "sanity" /\ par.sofprofile = "early" THEN "sof_early" ELSE after(pc))

(* The loop of the Q5/Q6 calibration keeps its counter over the write.     *)
q56_write == pc = "q56_wr" /\ pc' = "q56_rd" /\ UNCHANGED <<state, n, fails>>

(* Reads of the dumps, whose loops end at the first error.                 *)
dump == pc \in {"dump_dr", "dump_ir"} /\ proceed(after(pc))

fail_dump ==
  /\ pc \in {"cnv_dump", "cal_dump"}
  /\ IF par.retonfail THEN goto("ended") /\ state' = "ERROR"
     ELSE goto(IF pc = "cnv_dump" THEN "cnv_off" ELSE "restart") /\ UNCHANGED state
  /\ UNCHANGED fails

powered_down == pc = "cnv_off" /\ proceed("restart")

(* sof_profile is repeated until it fails or has been done often enough.   *)
profile(v) ==
  /\ pc \in {"sof_early", "sof_late"}
  /\ \/ proceed("ended")
     \/ v # "fail" /\ n + 1 < Tries /\ again(pc)

burnt == pc = "burn" /\ proceed("ended")

setup_result ==
  /\ ph["setup"] \in {"ok", "bad", "fail"}
  /\ ph' = [ph EXCEPT !["setup"] = "idle"]
  /\ LET v == ph["setup"] IN
     \/ v = "fail" /\ command_failed
     \/ v = "bad" /\ pc \in Exact /\ proceed("restart")
     \/ v # "fail" /\ (retry_test(v) \/ leak_test \/ plain(v) \/ q56_write \/ powered_down)
     \/ dump \/ fail_dump \/ profile(v) \/ burnt
  /\ UNCHANGED board

(* The board is up, whatever its state was; late profiling.                *)
setup_up ==
  /\ pc = "up"
  /\ state' = "OK"
  /\ pc' = IF par.sofprofile = "late" THEN "sof_late" ELSE "ended"
  /\ UNCHANGED <<n, fails, ph, board>>

-----------------------------------------------------------------------------
(***************************************************************************)
(* oufxs_open and the ioctls that send commands; iomutex: one at a time.   *)
(***************************************************************************)
(* Mutant: a board that is not set up is not told from one that is.        *)
available_always == TRUE

available == state = "OK" \/ par.availinerror

open ==
  /\ ~opened
  /\ available /\ state # "INIT"
  /\ opened' = TRUE
  /\ UNCHANGED <<par, setupVars, todo, ign, calls, ph, queue, boardVars, link, timeouts, bads>>

(* The commands of an ioctl, and whether it goes on after an error.        *)
Ioctls ==
  { [cmds |-> <<"rdirect", "rdirect">>, ign |-> FALSE],  (* GET_STATS     *)
    [cmds |-> <<"rdirect", "rdindir">>, ign |-> FALSE],  (* GET_REGS      *)
    [cmds |-> <<"rdirect", "rdindir">>, ign |-> TRUE],   (* IOCREGDMP     *)
    [cmds |-> <<"wdirect">>, ign |-> FALSE],  (* ONHOOKTRANSFER, SETPOLARITY *)
    [cmds |-> <<"version">>, ign |-> FALSE],             (* IOCGVER       *)
    [cmds |-> <<"serial">>, ign |-> FALSE],              (* IOCBURNSN     *)
    [cmds |-> <<"bootload">>, ign |-> FALSE],            (* IOCBOOTLOAD   *)
    [cmds |-> <<"reset">>, ign |-> FALSE] }              (* IOCRESET      *)

ioctl ==
  /\ opened /\ todo = <<>> /\ calls < UserCalls /\ calls' = calls + 1
  /\ available
  /\ \E i \in Ioctls : todo' = i.cmds /\ ign' = i.ign
  /\ UNCHANGED <<par, setupVars, opened, ph, queue, boardVars, link, timeouts, bads>>

ioctl_command ==
  /\ todo # <<>> /\ ph["user"] = "idle"
  /\ ph' = [ph EXCEPT !["user"] = "out"]
  /\ UNCHANGED <<setupVars, board>>

ioctl_result ==
  /\ ph["user"] \in {"ok", "fail"}
  /\ ph' = [ph EXCEPT !["user"] = "idle"]
  /\ todo' = IF ph["user"] = "ok" \/ ign THEN Tail(todo) ELSE <<>>
  /\ UNCHANGED <<par, setupVars, ign, opened, calls, queue, boardVars, link, timeouts, bads>>

-----------------------------------------------------------------------------
setup == setup_start \/ setup_restart \/ setup_command \/ setup_result \/ setup_up
user == ioctl_command \/ ioctl_result
usb(h) == bulk_out(h) \/ bulk_in(h) \/ bulk_lost(h) \/ bulk_error(h)
firmware == service_take \/ service_reply

(* Nothing left to do.                                                     *)
rest ==
  /\ pc = "ended" /\ todo = <<>> /\ link # "lost"
  /\ UNCHANGED vars

Next ==
  \/ setup \/ user \/ firmware \/ open \/ ioctl \/ unplug \/ disconnect \/ rest
  \/ \E h \in Hosts : usb(h) \/ bulk_timeout(h)

Spec == Init /\ [][Next]_vars

(* The set-up work, the ioctl, the USB host and the firmware make progress;*)
(* a posted transfer completes or fails; the core reports an unplugging.   *)
FairSpec ==
  /\ Spec
  /\ WF_vars(setup) /\ WF_vars(user) /\ WF_vars(firmware)
  /\ WF_vars(disconnect) /\ \A h \in Hosts : WF_vars(usb(h))

-----------------------------------------------------------------------------
(***************************************************************************)
(* Properties.                                                             *)
(***************************************************************************)

(* Types; only a host with a command to do has a transfer posted, the hosts*)
(* waiting for a reply are those queued for one, and each of them waits for*)
(* a command the board replies to (cmd_packet.h has no reply for the rest).*)
TypeOK ==
  /\ par \in Params /\ state \in {"IDLE", "INIT", "OK", "ERROR", "UNLOAD"}
  /\ pc \in Labels /\ n \in 0..Tries
  /\ fails \in [{"cnv", "adc", "q56"} -> 0..3]
  /\ ph \in [Hosts -> {"idle", "out", "in", "ok", "bad", "fail"}]
  /\ \A h \in Hosts : ph[h] # "idle" => IF h = "setup" THEN pc \in Commands ELSE todo # <<>>
  /\ ToSet(queue) = {h \in Hosts : ph[h] = "in"} /\ Len(queue) = Cardinality(ToSet(queue))
  /\ \A h \in Hosts : ph[h] = "in" => rlngth[current(h).kind] > 0
  /\ fw = "serve" => out # Nothing
  /\ chip \subseteq Facts /\ timeouts \in 0..(par.late + 1) /\ bads \in 0..par.bad

accepts(h) == ph[h] = "in" /\ ph[h]' \in {"ok", "bad"}

(* Whatever times out and however the two hosts' commands cross, a reply   *)
(* that is accepted is that of the last command the board took or of the   *)
(* one before: INPacket is overwritten by each command served, so replies  *)
(* do not pile up behind one that nobody has collected.                    *)
AtMostOneBehind == [][\A h \in Hosts : accepts(h) => inp.age <= 1]_vars

(* Nothing ties a reply to its command, and no lock is held over the pair. *)
(* Still, while no transfer has timed out, set-up and ioctl accept only    *)
(* whole replies to their own last command, unless availinerror or late    *)
(* SOF profiling is on: the state keeps processes out until set-up is over.*)
OwnReply ==
  [][\A h \in Hosts :
       accepts(h) /\ timeouts = 0 /\ ~par.availinerror /\ par.sofprofile # "late"
         => inp.by = h /\ inp.age = 0 /\ ~inp.torn]_vars

(* A board that is declared OK and whose command buffer is empty has been  *)
(* taken through the whole procedure since its last reset: converter on,   *)
(* registers set, line active, PCM I/O started.  This holds although any   *)
(* command may have timed out and been executed later, or been "confirmed" *)
(* by the reply to another one.                                            *)
ConfiguredWhenOK ==
  state = "OK" /\ ~gone /\ out = Nothing /\ par.sofprofile # "late" => chip = Facts

(* A set-up whose board is being disconnected ends, wherever it was: each  *)
(* of its loops runs into an error and looks at the state.                 *)
StopsOnUnload == state = "UNLOAD" ~> pc = "ended"

(* If no transfer times out and no process interferes, the set-up ends,    *)
(* whatever tests fail on the way: every retry is bounded or the board's   *)
(* answers are wrong for ever.                                             *)
SetupEnds == ~par.availinerror /\ [](timeouts = 0) => <>(pc = "ended")

(* "unless board responds and reports a sane DR11 value, loop back":       *)
(* oufxs.c:1839 (and 1836, "will keep trying") take a board that answers   *)
(* again to be a board that can be set up.  It need not be: a reply that   *)
(* came too late stays in the board and is taken for the reply to the next *)
(* command, which thereby leaves its own behind.                           *)
SetupRecovers == [](~gone) => <>(pc = "ended")

=============================================================================
