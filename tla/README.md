# A verification project for Open USB FXS

Open USB FXS is a USB adapter for one analogue telephone. It has three parts: a
board (a PIC18F microcontroller and a ProSLIC 3210 line chip), the firmware of
the microcontroller, and a Linux driver that presents the board to Asterisk as a
DAHDI channel. An older driver presents it as a character device. This project
models the parts of the drivers and the firmware whose correctness depends on
the order in which several actors take their steps, checks them with TLC on
small instances and proves most of their safety properties, for instances of any
size, with TLAPS.

In what follows `oufxs.c` is `src/LinuxDahdiDriver/oufxs/oufxs.c`, `user.c`
is `src/PIC18FSource/OPENUSBFXS-FMWR/user.c` and `openusbfxs.c` is the original
driver, `src/LinuxDriver/openusbfxs/openusbfxs.c`. Line numbers without a file
are of `oufxs.c`.

## The system

Samples travel in isochronous packets, one per millisecond and direction. A
packet holds 8 samples and an 8-byte header. OUT headers carry a sequence number
(for echo cancellation) and one register setting; IN headers mirror the sequence
number and carry the hook state and the DTMF digit. Commands (read and write a
register, start PCM I/O, burn a serial number) travel over two bulk endpoints.

| part | state | operations | what is hard |
|---|---|---|---|
| isochronous engine, 1171-1574, 2342-2407 | two rings of `OUFXS_MAXURB` buffers, ring indexes, `outseqno`, the anchor of submitted URBs | worker spawns URBs, callbacks free and submit, disconnect and delete stop | worker and two callbacks share rings under several locks or none; submissions fail; unplug at any moment; a reserved structure is used again |
| life of a board structure, 1608-1726, 2415-2490, 2826-3341 | `boards[]`, kref, `opencnt`, `state`, `udev`, buffers | probe, setup worker, open, ioctl, close, disconnect, delete | concurrent probes, unplug while open, replug, failing allocations |
| echo reference, 1204-1229, 1440-1456, 3116-3131 | `seq2chunk`, contents of the OUT ring | OUT refill, IN lookup | lost packets, late callbacks, wrap-around, refill of what is still needed |
| register setting in OUT headers, 471-482, 570-660, `user.c` 270-320, 440-460 | `drsseq`, `drsreg`, `drsval` on both sides, two OUT buffers on the board | post, sample, receive, compare, set | no lock between USB engine and main loop; lost packets; reload of the driver |
| linefeed mode, 1375-1403, 2463-2545, 2601-2641 | `lasttxhook`, `idletxhookstate`, `ohttimer`, `reversepolarity`, DR 64 | hooksig, ONHOOKTRANSFER, SETPOLARITY, close, timer | three contexts and no common lock; two paths of different speed to one register |
| hook and DTMF events, 1461-1543, `user.c` 200-265 | debounce counter, `hook`, `dtmf`; interrupt registers and `hkdtmf` on the board | poll of the line chip, IN callback | packets against milliseconds; changes while the poll deals with others; lost packets; filters that change in mid-event |
| bulk commands, 484-1170, `user.c` 322-540 | one command in flight, one reply buffer | read, write, reply | time-outs, late replies, no lock over command and reply |
| board set-up, 1743-2407 | stage, retry counters, state | ProSLIC power-up sequence | retries and give-ups, unplug at any stage, commands executed after their time-out |
| module parameters, reserved serials, 3343-3843 | `rsvsn2chan`, `boards[]`, dummy spans, parameters | load, unload | clean-up of partial failures, rounding, other drivers' channels |
| original driver's life, `openusbfxs.c` 250-480, 1578-2310 | kref, `opencnt`, `state`, `iomutex`, interface data, minor, anchor | probe, set-up, open, read, ioctl, release, disconnect, delete | minor published before probe is through; sleepers; submissions against disconnect |
| original driver's rings, `openusbfxs.c` 484-935, 949-1000, 1280-1500 | two rings, `tinyrbuf`, `tinywbuf` | read, write, flush, submit, callback | one buffer wanted by process and callback; calls of any size against packets |
| firmware interrupt handler, `tmr1_isr.asm` | 32-step cycle, ping-pong index | serve PCM, arm buffers | hard real time against the USB engine |

How they interact: the PBX calls hooksig, ioctl, open and close through DAHDI.
hooksig and the oht timer (which runs in the OUT callback) post register
settings; the engine samples them into OUT packets; the firmware applies them.
The setup worker configures the board over the bulk endpoints and then starts the
engine. The IN callback looks up echo references in the OUT ring and reports
hook and DTMF events. Probe, disconnect and delete create and stop all of it;
loading the module prepares `boards[]` for probe.

The remaining parts (boot loader, USB stack glue, utilities, Windows console
program) are listed in PROJECT.json with the reason they are left aside; see
also "Not modelled" below.

## Modules

### The DAHDI driver and the firmware

**OufxsIsoc** is the engine. An action of a submitter is one critical section of
`oufxs_isoc_out_submit` / `oufxs_isoc_in__submit`: `submit_take` (the ring index,
under `outbuflock`), `submit_refuse` / `submit_claim` (the buffer, under its own
lock), `fill_load`, `fill_store` (`outseqno++`, under no lock, so in two steps),
`submit_anchor`, and then either `submit_atomic` (a callback: state check and
submission in one section under `statelck`) or `submit_check_state` and
`submit_kernel` (the worker: without the lock). Three contexts run them: `setup`
and the callback of each ring, each with a program counter, its buffer, its
packet and the number it has loaded. `isoc_cbak` is the completion callback up to
its call of submit. `setup_*` is the worker; the register programming between
`init_restart` and the state OK is one step that fails or succeeds (OufxsBulk
has it in full). `probe`, `disconnect`, `delete_start`, `destroy_workqueue`,
`kill_anchored_urbs`, `delete_finish` begin and end a life of the structure. An URB
that the state check of a submit function turns away keeps its place on the anchor, as
in the code (1238, 1249: `retval` is still 0 at 1254), and `kill_anchored_urbs` has no
step while the anchor holds one: `Stranded` names these URBs.
`Reserved` chooses a reserved structure (kept over an unplug, and reset only in
part) or an unreserved one (fresh each time).

A module that ends in **Proofs** holds the theorems about the module it is named
after: OufxsIsocProofs, OufxsLifeProofs, OufxsLineProofs, OufxsBulkProofs,
OufxsLoadProofs, OpenusbfxsLifeProofs and OpenusbfxsRingProofs. OufxsLineProofs
also has those about OufxsPiggy, of which it has an instance: both are about the
settings of the line. **OufxsInProofs** has those about OufxsEcho, which it
extends, and OufxsHook, of which it has an instance: both are about
`oufxs_isoc_in__cbak`. The section "Proofs" says what is proved.

**OufxsLife** is the life of the structures. `dev[s]` is the structure of slot
`s`; a probe has one action per section between which it may sleep or another
probe may run; `open` tests the state first and takes its reference later, as
the code does. Every allocation of a probe may fail, those whose result the code does
not look at included (the channel at 3185, the work queue at 3244). The ghost `bad`
collects what a kernel would punish, and whether a probe has met a shortage; it is part
of no guard but the one that ends the behaviour. The worker may leave an URB on the
anchor (`urbs = "left"`), and a delete that comes to it stays in its kill.
`MCOufxsLife` gives constants their values.

**OufxsEcho** is the lookup of the echo reference. A sample is the ordinal
number of its packet, so matching is equality of numbers. The engine is
abstracted to its steady state: buffers in ring order, `InFlight` URBs.

**OufxsPiggy** is the path of a register setting from `dr_write_piggyback` to
the chip: the sampling by the engine, the bus, the byte-by-byte write of the
board's USB engine into two alternate buffers and the byte-by-byte read of
`ProcessIO`. **DrChannel** is its abstract specification: a lossy but ordered
channel that delivers the last setting. `InOrder` in OufxsPiggy is the refinement.

**OufxsLine** is the linefeed mode, with its three contexts: hooksig,
ioctl (ONHOOKTRANSFER, SETPOLARITY and OUFXS_IOCSRING, which calls hooksig) and the
callback. It uses the result of OufxsPiggy: a posted
setting reaches DR 64 later and in order. The callback's decrement of the timer is
a load and a store; the argument of a register write is evaluated in a step
before the write. The argument of ONHOOKTRANSFER is any int, as the ioctl stores what it
is given: 0 leaves the timer unarmed, and a negative one counts down to the least int
and wraps (`MCOufxsLine` has one of each sign). `IntMax` stands for 2^31 - 1, so what takes weeks in the driver takes a few
steps. `SMP` lets the contexts run on several CPUs.

**OufxsHook** is the way of a hook change or a key from the telephone to the
PBX: the chip's two interrupt registers and two state registers, `ProcessIO`
statement by statement (one access to the chip or to `hkdtmf` each), the packet
that carries `hkdtmf`, and the callback with its debouncer and its DTMF filter.
Only odd packets carry `hkdtmf`, so time is counted in packets of two
milliseconds. Hook, keys and power alarms change whenever they like: an alarm may come again
as soon as it is cleared. `Events` says whether TONEDETECT and a new plug-in of a
reserved board come too, at any time. Two things are counted that the driver does not
count: `seen` and `same`, the hook state of the packets received and of how many in a
row, new plug-ins notwithstanding, and `pause`, how long the poll has found no key down.

**OufxsBulk** composes set-up, ioctls, the bulk endpoints and `ServiceRequests`.
A host's command is an OUT and (for most kinds) an IN transfer, each of which may
time out, be lost or fail; a reply is accepted by its length alone. The
firmware is two steps, since the host may collect `INPacket` in between. The
program counter of the set-up takes the labels of `oufxs_setup`; a label whose
code is several commands of one kind issues one. `chip` is the set of facts the
commands have established (converter on, registers set, line active, PCM
started); a reset loses them. `MCOufxsBulk` defines scenarios (`BulkParams`):
failing tests with and without `retoncnvfail`, two late replies and a bad one,
`availinerror`, early and late SOF profiling, boards with no or a blank serial number.

**OufxsLoad** is `oufxs_init`, `process_rsvserials` and `oufxs_exit`: parameters
are adjusted, dummy spans registered one by one, wanted channels swapped for
reserved structures, all of it undone from any point of failure, while other
drivers take and give back DAHDI channels. A failed allocation of a channel goes
unnoticed (3611) and ends in the use of a NULL pointer, `oops`.

### The original driver

**OpenusbfxsLife** is one board from probe to delete: `openusbfxs_probe` with
what it publishes and in which order, `openusbfxs_setup` with its retry loops and
its submissions, two processes that open (exclusively), sleep in read or write,
use ioctl and release, `openusbfxs_disconnect` and `openusbfxs_delete`. A bulk
command is a step that fails, succeeds or times out. `intf` is the link from the
structure to the USB interface, which disconnect removes under `iomutex`; the set-up
reads through it, without the mutex, wherever it prints the board's minor
(`setup_message`: after `Silent` timeouts, and when a test has failed), and if
it is gone the kernel stops (`oops`). `RetOnFail` is the set of tests whose failure
ends the set-up.

**OpenusbfxsRing** is one ring (`Init` chooses the direction): the callback and
`submit` in the steps between which the process can see the buffer, and `read` or
`write` in theirs, with the bytes kept in `tinyrbuf` / `tinywbuf` from call to
call. `flush` may come at any time, since any descriptor of the file may be closed while
another is being written to, and it takes a mutex write does not take. A byte is its
position in its stream. `InFlight` is at least 2 and less than
the ring, as the module's initialisation demands (2331-2346, with
`OPENUSBFXS_MAXINFLIGHT` half of `OPENUSBFXS_MAXURB`): with one URB
`WriteInOrder` would fail.

External, and modelled from how the code uses it: the USB core completes the
URBs of an endpoint in order, one callback at a time, refuses URBs for a board
that has gone, and `usb_kill_anchored_urbs` goes on until the anchor is empty and no
callback runs; one workqueue thread per board; DAHDI opens a channel once at a
time and gives a span the lowest free channel; the board's USB engine fills its
two OUT buffers in turn; usbcore holds `minor_rwsem` over the call of open, so
that `usb_deregister_dev` waits for it.

## Runs

Each run's cfg has its name. Every property of a passing run has a mutant in
PROJECT.json: an operator beside the one it replaces, with the bug a programmer
might make, under which TLC finds the property violated.

| run | what it shows | instance |
|---|---|---|
| `isoc` | `Exclusive`: a buffer has one owner although worker and callbacks race; `Marked`: what is on the wire is marked and anchored; `FreedQuiet`: buffers are freed only when nobody uses them; `NoneStranded`: while the board is plugged in no URB drops out of the engine; `UnplugDrains`: an unplugged board is torn down, unless an URB has been left on the anchor | two rings of 2 buffers, 2 OUT URBs and 1 IN URB, a sequence number modulo 2, a reserved structure plugged in twice |
| `isoc_prompt` | `SeqMapOK`: packets on the wire carry the numbers seq2chunk expects; `NeverInconsistent`: no submitter meets a buffer in a bad state, even when submissions fail | OUT ring of 4, all in flight, unreserved structure, two plug-ins, `PromptSpec` |
| `life` | `RefCount`: references are exact; `InUseAlive`: whoever uses a structure finds it; `OneBoardPerSlot`; `Clean`: NULL is used and memory freed twice only after a shortage; `SlotComesBack`: after an unplug, unless an URB has been left on the anchor | three boards, two slots, one serial reserved, three plug-ins, failing allocations, opens in error states, `OrderlySpec` |
| `echo` | `EchoMatches`: a received sample is compared with the one transmitted in its place | see echo.cfg: a ring with URBs to spare, lost packets, late callbacks, the number wraps |
| `piggy` | `InOrder`: driver, bus and firmware implement DrChannel | three posted settings in one session, two URBs of two packets in flight, lost packets; the number wraps |
| `line` | `InForce`: DR 64 holds what the driver believes; `PolarityKept`; `OhtEnds`: an on-hook transfer ends | one CPU, four calls of hooksig or ioctl, any number of closes, arguments of ONHOOKTRANSFER -8, 0 and 3 with ints up to 7, reverse polarity by parameter, `PromptSpec` |
| `hook` | `HookDebounced`: no change reported before the debouncer has run; `HookSettles`: the final hook state reaches the PBX; `DigitPairs`: up and down events alternate and name one key; `DigitEnds`: no key stays down | two keys, a debouncer of 1 packet, one packet lost in a row, hook changes and alarms at any time, and TONEDETECT or a new plug-in (not both) |
| `bulk` | `AtMostOneBehind`: a reply is that of the last command or of the one before; `OwnReply`: without time-outs it is one's own; `ConfiguredWhenOK`: a board declared OK has been configured, late and crossed replies notwithstanding; `StopsOnUnload`, `SetupEnds` | the eight scenarios of `BulkParams`, retry loops of 2, one ioctl, unplug at any time |
| `bulk_late` | expected violation of `SetupRecovers`, see below | one transfer times out, nothing else is wrong |
| `load` | `ParamsFit`: parameters end up in range for any value; `ReservedAsAsked`: a loaded driver has the channels asked for; `InBounds`; `NothingLeft`: a failed load and an unload leave nothing, but for the failures it names | up to two entries, sound or not, of two serials and channels 0 to 4; three boards; two steps of other drivers |
| `olife` | `TypeOK` (with exact reference counts), `InUseAlive`, `AnchoredFlies`, `ReadersReturn`: sleepers return after an unplug; `Freed`: the structure is freed after one, unless an URB is stranded or the set-up has crashed | two processes, two URBs, retry loops of 2, two timeouts to a report, the leakage test ends the set-up, six failures |
| `oring` | `ReadInOrder`, `WriteInOrder`: bytes stay in order, on the way out none is doubled or skipped; `ReadFits`: when read copies too much | ring of 4, 2 in flight, 2 packets of 3 samples, calls of 1, 3, 4 and 7 bytes, three calls, seven completions, one failed submission, flushes at any time |

Why the bounds are enough. A ring of two buffers with both URBs in flight makes
worker and callback meet at a buffer, which is what a ring of sixteen needs
sixteen URBs for; the four that fit in `isoc_prompt` let the number wrap in the
middle of a ring. Two plug-ins are a first life and one that follows
another; the third of `life` is for the board that finds both slots taken. What
matters to `life` is one reserved and one unreserved slot and two boards that
compete for a slot. In `piggy` three settings suffice for an order with one
skipped, and the difference of two headers is all ProcessIO looks at. Four calls
in `line` are a ring, a change during the ring, and two ioctls; the timer's values
are those of each sign and the wrap at the least int. In `hook` a
debouncer of 1 has the two states that matter, reset and running, and is started
again by a packet that disagrees; that it works for any number is proved. One lost
packet in a row is enough to hide a state that lasted one packet, and two keys are what
it takes to confuse them. TONEDETECT and the new plug-in are the two members of
`Events`: they touch different parts of the driver's state. In `olife` six failures
let one test fail to its give-up, with timeouts up to a report of the silent board on
the way. In `bulk` three failures of one test reach the give-up, and a second late reply is what would make two replies pile up. In `load` two entries are the
least that can be out of order or equal, and four channels leave a gap below,
between and above them. In `oring` a call of 1 byte is less than a packet, 3 is
one, 4 leaves bytes over, and 7 crosses a buffer; three calls are one that leaves
bytes, one that uses them, and another; seven completions go round the ring
almost twice.

### Assumptions of the passing runs

*Timing.* `PromptSpec` of OufxsIsoc: no URB completes while the worker still
spawns. An URB takes `wpacksperurb` milliseconds on the bus; the code relies on
this and never says so. Without it `NeverInconsistent` and `SeqMapOK` fail.
`PromptSpec` of OufxsLine: no tick of the timer begins between the first two
statements of ONHOOKTRANSFER (with an argument of a few milliseconds it could run
out there, and oht would never end). `Late` and `Latency` of OufxsEcho bound how late
callbacks and mirrored numbers may be; `EchoMatches` needs
`Latency + RPacks + Late <= (MaxUrb - InFlight) * Packs` (that this is enough is proved). `Prompt` of
OpenusbfxsRing: neither process nor callback stands still between two steps for as
long as the other takes to come round the ring; it also excludes that an URB
completes before `submit` has set `st_sbmtd` (the callback would bail out with
"inconsistent state"). With `Prompt = FALSE` TLC finds `ReadInOrder` violated.
`LostRun` of OufxsHook is above; the poll goes round at least once per packet.

*Order.* `OrderlySpec` of OufxsLife: a serial is plugged in again only after its
last life has ended, and no open overlaps an unplug. Both do fail in the code
when they are dropped; see below.

*Conditions in the properties.* Where the code breaks a property in a known
way, the property excludes exactly that way, by a ghost or by the state in which it shows:

- `UnplugDrains` and `SlotComesBack`, `AnchoredFlies` and `Freed`: an URB that the state
  check has left on the anchor (`Stranded`, `urbs = "left"`); `NoneStranded` and
  `AnchoredFlies` say that only a disconnect brings it about. `Freed` also leaves out a
  set-up that has crashed (`oops`).
- `Clean`: NULL pointers and second frees after a probe has met a shortage.
- `InForce`, `PolarityKept`: lines an ioctl has changed; `OhtEnds`: an argument of 0 ms.
- `HookDebounced`: a debounce that was running for the other state at a new plug-in (`stale`);
  `HookSettles`: any new plug-in; `DigitPairs`, `DigitEnds`: TONEDETECT and new
  plug-ins; `DigitPairs` also a key that comes down before the poll has found the
  last one up for so long that a packet said so (`slurred`), and `DigitEnds` a
  poll that alarms never let come to its turn.
- `WriteInOrder`: what has cut a write short (`cut`): a signal after bytes have been put
  into buffers, a non-blocking return after bytes that were owed have been put there, a
  flush in the middle of a write with bytes owed; and failed submissions.
- `ReservedAsAsked`, `NothingLeft`, `InBounds`: see the comments in OufxsLoad.

The list below shows what happens in each.

*Fairness.* Weak fairness of what the kernel schedules: the worker, a callback
whose URB is back, the destructor, a call that has begun, a posted transfer, the
firmware's main loop. Strong fairness of `close` (an opener hangs up sooner or
later, although ioctls come in between), of `receive` in OufxsPiggy and `packet` in
OufxsHook (not every packet is lost), and in OpenusbfxsLife of a process waiting
for a mutex that others keep taking, and of its release. No fairness of the PBX, of plugging and
unplugging, of a test on the board that passes or of a submission that succeeds.

## Where code and comments disagree

One run looks for a violation of what a comment says, and finds it
(`findings` in PROJECT.json has the quotation and the steps): in `bulk_late` a
reply that comes after its command has timed out is taken for the reply to the
next command, which leaves its own behind; a board that "now responds OK again"
is then set up in vain for ever, since no command is told apart from its
predecessor's reply but by length and value.

The other disagreements have no run of their own. The properties are defined in
the modules; checking the named one, with the change that is named, shows them.

In the DAHDI driver:

- `NeverInconsistent` under `Spec` of OufxsIsoc: the branch marked "should *never*
  happen" (1192) is reached when a callback overtakes the worker in the ring; one
  URB drops out for good. Under `Spec` worker and callback also lose an
  `outseqno++` (`SeqMapOK`).
- `KillEnds` of OufxsIsoc (under `FairSpec`): "let the isochronous engine quiesce down by
  not submitting any further urbs" (1242), after which `oufxs_delete` goes on to "kill anchored
  urbs" (1658). But the URB that is not submitted was anchored before (1238) and stays
  there, as `retval` is still 0 (1254); `usb_kill_anchored_urbs` goes on until the anchor is
  empty, which it never is. A disconnect while the worker spawns is enough.
- `UnloadStays` of OufxsIsoc: "set state to UNLOAD, so others will see it" (3328),
  but the worker sets the state to OK without looking (2368).
- A reserved board with the IN ring plugged in twice: `oufxs_probe` resets
  `outbufs[i].state` where it means `in_bufs[i].state` (3111), and
  `NeverInconsistent` fails; likewise `outseqno` is not reset and `SeqMapOK` fails
  (`isoc_prompt` with `Reserved = TRUE`, IN or OUT ring).
- `DeleteUnopened` of OufxsLife under `Spec`: a reserved board that is plugged in
  again while its channel is open is taken for a duplicate, its probe drops a
  reference it has never taken, and `oufxs_delete` runs with `opencnt` non-zero,
  which "should never happen, or else our module becomes a zombie" (1621). A board
  with a serial that is in use is "ignored" in the same way. `oufxs_open` may take
  a reference to a structure that is being deleted.
- `Clean` without its "short": a probe that fails for want of memory or of a slot
  dereferences NULL or frees buffers twice; and two allocations (the channel, 3185, and
  the work queue, 3244) are not looked at, so that the probe goes on and uses NULL.
- `oufxs_disconnect` does not take `iomutex`, which the comment in
  `oufxs_ioctl` (2584-2588) relies on; the opener's reference saves the day
  (`InUseAlive` holds).
- `EchoMatches` with `InFlight = MaxUrb` in OufxsEcho: "matching it to the
  respective transmitted sample" (1450) fails when all buffers are in flight,
  and this is the default (`OUFXS_INFLIGHT` is `OUFXS_MAXURB`, `oufxs.h` 67).
- `NoStaleSetting` of OufxsPiggy with two sessions: the sequence number of START_STOP_ISOV2 is
  "to synchronize piggyback-based DR setting" (576), but the board still has the
  headers of the last session and applies its last setting once more.
- `OhtOnTime` of OufxsLine: "data contains the milliseconds to hold oht mode"
  (2603), but the timer counts URBs: oht lasts `wpacksperurb` times too long (`OhtArgs = {4}`).
- `OhtEnds` without `untimed`: an argument of 0 makes oht the idle mode and no timer ends it.
  A negative argument counts down through all the ints, which takes weeks.
- `RingSurvives` of OufxsLine on several CPUs (`SMP = TRUE`, and no ioctl): "if not ringing
  ... revert the oht mode" (1388), but the callback tests `lasttxhook` (1398) and
  assigns it (1399) without a lock: it replaces a ring that has just started.
  ONHOOKTRANSFER can lose the timer there, too (`OhtEnds`).
- A bulk write of DR 64 overtakes posted settings, and SETPOLARITY leaves the
  idle mode in the old polarity: therefore `InForce` and `PolarityKept` are stated
  for lines no ioctl has changed.
- `HookDebounced` counts packets, as the code does: "time in milliseconds" is
  decremented for odd packets only, so 32 are 64 ms.
- `SignalDebounced` of OufxsHook (`HookDebounced` without `stale`): "if (debounced) hook state has changed, signal upstream" (1478), but a new plug-in of a
  reserved board resets `lastrxhook` and not `debounce` (1803): the debounce that was running
  for off-hook is run down by the first packets that say on-hook.
- `HookSettles` without `~replugged`: a reserved board is unplugged off-hook and
  plugged in again on-hook; `oldrxhook` and `debouncehook` are not reset, and the
  PBX is never told.
- `KeepsProbing` of OufxsHook: "if DTMF was detected in previous round, keep probing DR 24"
  (`user.c` 252), but only in the branch without interrupts. A power alarm that comes again
  as soon as it is cleared keeps ProcessIO in the other one, "over and over"
  (242-249): the digit stays in `hkdtmf`, and the next key is not told apart from it
  (`DigitPairs` without `~slurred`).
- `DigitPairs` without `~toned`: a key held while TONEDETECT changes gives an up
  event without a down event or the other way round.
- `OwnReply` with late SOF profiling: "will not set state to OK in profile mode"
  (2400), but the state has been set to OK, and processes send commands meanwhile.
- `NothingLeft` without its conditions: a failure between `boards[j] = 1` and
  `rsrvd = 1` leaves a structure behind (or reads through the 1), one of
  `usb_register` leaves all reservations, since the module's exit is not called, and a
  failed allocation of a channel (3611) is used (3613).
- `InBounds`: with channels of other drivers the loop reads `rsvsn2chan[j]` behind
  its end.

Seen while reading, and left out of the models: `sof_profile` leaks its print
buffer on errors; the leakage stage restarts the set-up without counting; the
comma that ends an entry of rsvserials is overwritten and never restored.

In the original driver:

- every failure of `openusbfxs_probe` crashes (a NULL structure, a NULL work
  queue, a second free, or a minor left registered): the model's `oops`;
- the loop of the Q5/Q6 calibration counts an unsigned byte down to `>= 0`: the
  message after it is unreachable and the calibration is repeated for ever;
- the ways out of the set-up before its end leave the state INIT;
- `SetupReturns` of OpenusbfxsLife: "return if driver is unloading" (1645), but disconnect may
  set UNLOAD and clear `dev->intf` (2301) when the set-up has just looked at the state; its next
  message (1654, 1778, 1812, 1869) reads the minor through NULL;
- `Freed` without `Stranded`: when disconnect comes between the anchoring of an URB
  and the test of the state, `retval` is still 0, the URB stays on the anchor, and
  `usb_kill_anchored_urbs` does not end; the state OK may overwrite UNLOAD;
- `FlushWaits` of OpenusbfxsRing: flush should "wait till others finish with (fs) IO like
  read, write, etc." (967), but it takes `iomutex` (969) and write `wrmutex` (755). When
  another descriptor of the file is closed while a write has bytes of an earlier call to
  count, flush clears `twbcount` (980), and the count no longer agrees with what was copied;
- `WriteInOrder` without `cut = {}`: besides, a signal makes write return -ERESTARTSYS although
  bytes are in buffers (828), and a non-blocking write that returns early with bytes of
  `tinywbuf` in buffers counts them again (818);
- `ReadFits`: read subtracts the bytes of `tinyrbuf` twice; with fewer asked for than twice
  as many the unsigned count wraps;
- flush drops the bytes in `tinywbuf`.

## Proofs

All 25 invariants the passing runs check are proved, three of the four action
properties and the steps of the refinement besides, each for every value of the
constants that satisfies the module's named assumption (`ConstantsOK`,
`LoadConstants` ..., which TLC evaluates in each run) and what else the table names.
The assumptions only say what kind of thing a constant is and bound no size,
with the exceptions given below.

| theorem | proves | of | under |
|---|---|---|---|
| OufxsIsocProofs: `TypeCorrect`, `BuffersExclusive`, `BuffersMarked`, `DeleteSafe`, `NothingStranded` | `TypeOK`, `Exclusive`, `Marked`, `FreedQuiet`, `NoneStranded` | `Spec` | |
| `NeverMeets` | `NeverInconsistent` | `PromptSpec` | `ResetByProbe` |
| `SeqnoMapped` | `SeqMapOK` | `PromptSpec` | `Aligned`, an OUT ring |
| OufxsLifeProofs: `TypeCorrect`, `RefCountExact`, `UsersFindIt`, `SlotsAreNotShared`, `FaultsComeFromShortage`, `DeletedUnopened` | `TypeOK`, `RefCount`, `InUseAlive`, `OneBoardPerSlot`, `Clean`, `DeleteUnopened` | `OrderlySpec` | |
| OufxsInProofs: `EchoIsMatched` | `EchoMatches` | `Spec` | `LongEnough` |
| `HookIsDebounced` | `HookDebounced` | `Spec` of OufxsHook | a positive `Debounce` |
| OufxsLineProofs: `TypeCorrect`, `PolarityIsKept` | `TypeOK`, `PolarityKept` | `Spec`, one CPU or several | |
| `SettingsInForce` | `InForce` | `Spec` | one CPU (`~SMP`) |
| `NeverTorn`, `SettingsInOrder` | `ActsOnWhole`; initial state and every step map to DrChannel | `Spec` of OufxsPiggy | `FirstSession` |
| OufxsBulkProofs: `RepliesDoNotPileUp`, `SetUpIsComplete`, `RepliesAreOnesOwn` | `AtMostOneBehind`, `ConfiguredWhenOK`, `OwnReply` | `Spec` | |
| OufxsLoadProofs: `HasWhatWasAsked`, `LeavesNothing`, `ReadInBounds` | `ReservedAsAsked`, `NothingLeft`, `InBounds` | `Spec` | |
| `ParametersFit` | `ParamsFit` | `Spec` | |
| OpenusbfxsLifeProofs: `TypeCorrect`, `UsersFindIt`, `AnchorHoldsWhatFlies` | `TypeOK`, `InUseAlive`, `AnchoredFlies` | `Spec` | finitely many processes |
| OpenusbfxsRingProofs: `RingTypes`, `ReadStaysWithinItsRoom` | `TypeOK`, `ReadFits` | `Spec` | |
| `ReadHandsOverInOrder`, `WriteSendsInOrder` | `ReadInOrder`, `WriteInOrder` | `Spec` | `Prompt` |

What the assumptions mean:

- `PromptSpec` and `OrderlySpec` are those of the runs (see "Assumptions of the
  passing runs"); what fails without them is in the list above. OufxsLine is
  proved under `Spec`: its `PromptSpec` is needed for the liveness property only.
- `ResetByProbe`: a reserved structure has no IN ring. Probe does not reset the
  states of the IN buffers (3111), and `NeverInconsistent` then fails.
- `Aligned`: the structure is not reserved (or else `outseqno` goes on where it
  was, and the ring does not start at its first buffer) and a ring of OUT packets
  divides the range of the sequence number, which the parameters of a loaded
  driver do (`ParametersFit`).
- `LongEnough`, `Latency + RPacks + Late <= (MaxUrb - InFlight) * Packs`: the
  packets of the longest way there and back fit into the buffers that are not in
  flight. It is the condition under which a buffer is not refilled while its
  samples are still looked up. The driver's defaults (`InFlight = MaxUrb`) do not
  satisfy it, which is one of the disagreements above; the theorem says which
  settings of `wurbsinflight` do.
- `FirstSession`: at most one session since the board has power. In a later one the
  board still has the headers of the last, and applies a stale setting.
- `Prompt` of OpenusbfxsRing: neither the process nor the callback stands still while
  the other comes round the ring. Nothing in the code enforces it; without it TLC
  finds `ReadInOrder` violated. `ReadFits` is proved without it.

### The arguments

Hardly any of these invariants is inductive alone. What each proof adds:

*OufxsIsoc.* `IInv` adds to `Exclusive` and `Marked` that a submitter has anchored
its URB before it hands it over (`AnchoredFirst`), and what each stage of the
teardown has already waited for (`Quiet`: after `destroy_workqueue` the worker is
idle, after the kill nothing is on the wire, and `udev` is set until
`oufxs_delete` is through). `Exclusive` follows from `Marked`: a
submitter claims only a free buffer, and a free buffer is neither owned nor on the
wire. `NoneStranded` needs that before a disconnect the state is OK whenever anybody
submits (`Running`), so that no state check refuses, and that what is on the anchor is
on the wire or in a submitter's hands (`Held`). `LapInv` adds `Ahead`, whose core is `NoLap`: a ring owes at most as many
turns (URBs the worker has yet to spawn, callbacks that have yet to submit, URBs on
the wire) as there are URBs, and a buffer that is marked is farther ahead of the ring
index than turns are owed before it is given back. `PromptSpec` keeps callbacks from
taking turns while the worker still spawns. `MapInv` adds `Numbered`: while the
board is there the next sequence number is that of the packet about to be filled, or of
the first one in the next buffer (`InStep`), and each buffer on the wire holds its numbers.

*OufxsLife.* `SlotInv` is about each slot by itself: at most one board is served there
(`Served`), the references are those of this board and of the opener (`Counted`), an
open that has passed its test of the state is backed by a bound interface
(`Backed`), and worker, opener and destructor find what they need (`UsesAlive`,
`Deleted`; it finds the buffers freed only after a shortage); `Placed` says which slots a board can be on. A step changes one slot at
most, and `Elsewhere` deals with the others. The counts of `RefCount` are
cardinalities of sets with at most one element.

*OufxsEcho.* The ring remembers the last `MaxUrb` URBs (`Remembers`), the board is
in one of those in flight (`Plays`), and what waits in the IN direction mirrors
consecutive packets (`Mirrors`). Two lemmas of arithmetic do the rest: the sequence
number of a packet, though reduced modulo `SeqMod`, tells its buffer and its place
in it; and two URBs less than a ring apart do not share a buffer.

*OufxsPiggy.* ProcessIO takes a header from buffer 0 byte by byte and compares it with
buffer 1 while the USB engine may be writing one of them. A sample is over within a
millisecond, so that at most one packet arrives in it (`hit`): one of the buffers
holds a whole header throughout, and what has been sampled from it, or found equal to
it, is of that header (`Steady`). From the driver to the chip settings only get
older (`Ascending`), and the number of a header counts the settings posted before it
(`Sent`), so a new number is a later setting. The refinement maps the
start and the end of a session to Open and Close, a post to Post, `ProcessIO_set` to
Apply (a stutter if it sets nothing new), and all other steps to stutters.

*OufxsLine.* `Last`, the last setting under way, lags behind `lasttxhook` exactly
while a context is between its change of the mode and its post. On one CPU the
callback is never there at the same time as hooksig, which is what `InForce` needs.

*OufxsHook.* While a debounce runs that no new plug-in has put astray, `lastrxhook` is what the
last packet received has said, and the packets that have agreed and those still to come
add up to `Debounce + 1` at least (`CountsDown`). They may be more, since a new plug-in makes
`lastrxhook` forget packets that the count does not. What was signalled last is what the
debouncer settled on last (`Signalled`): were these two to differ, a packet would signal a change
with no debounce at all.

*OufxsBulk.* `Recent`: a board without a command, or in the middle of one, has the
reply to its last command in `INPacket`; taking a command makes the reply one older,
and the board takes the next only when it has served this one. `Established` is
about set-up: a stage can rely on the facts of all stages before it, counting
the command the board has yet to execute (`Pending`), since a command that timed out is
executed all the same. A stage that goes back is before the facts it may
undo. `Matched` holds as long as nothing has timed out: the board holds the command a host waits
for, or has sent the reply to it. `KeptOut` says that processes are not in the way
of the set-up, but for `availinerror` and late SOF profiling.

*OufxsLoad.* The loop over the dummy spans is a search: a round gets a channel that no
other round has, and that lies below the one looked for next (`Rounds`). If the loop
ended with a channel still to be found, as many rounds as there are channels up to
the last one asked for would have had one below it (`LoopEnd`, by counting). Without
other drivers a round gets exactly the next channel (`Alone`), so all reserved channels
but the last have been found when the last dummy is registered (`NotPast`). `Making`
and `Spans` relate slots and owners of channels; `NothingLeft` follows from them.
`ParamsFit` rests on powers of two: 2^k is the number of subsets of k elements,
which gives 2^0 and 2^(k+1) (`PowerZero`, `PowerDoubles`), and a least exponent at which
a power failed to divide a higher one would have a smaller one (`PowerSplits`). So the
ring fits whatever the user asks for, given (`LoadConstants`) that it fits with the largest
packets there are, a power of two.

*OpenusbfxsLife.* A part for each concern: who holds the structure (`Counted`), who
has the device open and the mutex (`Exclusive`), what is untouched while probe is not
through (`Unborn`), what disconnect has already waited for (`Ending`), where
the URBs are (`Urbs`), and who can still use the link to the interface (`Linked`): the
set-up may set the state to OK once more after disconnect has set UNLOAD, but only before
it has ever been OK, so that nobody has the device open; nobody can open it any more, either.

*OpenusbfxsRing.* Everything is told by `rank`, a buffer's place in the order of
submission; only marking a buffer turns the ring. `RingInv` holds in both
directions: the URBs on the wire rank highest and in order (`Submitting`), a buffer
that is fresh holds one transfer of the board (`Filled`). For `ReadFits`, `Fitting`
bounds what is still to be copied unless the subtraction has wrapped. For reading
(`Following`), what ranks higher is younger (`Sorted`), nothing behind read is
left to read (`Ahead`), and a buffer that submit took while read was at it is not filled
again before read notices (`Stale`): this is where `Prompt` is needed
(`Overtaken`). For writing (`Sending`), the wire is full, one buffer after another (`Exact`),
write has not come to the wire (`Writing`), and there are cut points in the
user's stream such that the URBs on the wire, what submit has taken, the
buffers that wait and what is left of the call are consecutive pieces of it (`Stream`).
What is left (`Left`) relates the bytes owed, the copy and the counts, between which `flush`
may come (`Counting`): it leaves the copy alone, so nothing that is counted is lost before
`cut` says so. `WriteInOrder` puts the pieces together again: `FlattenSeq` is unfolded once per
piece, and a least piece at which it went wrong would not be the least (`Flat`).

### Only model-checked

- All liveness properties: `UnplugDrains`, `SlotComesBack`, `OhtEnds`, `HookSettles`,
  `DigitEnds`, `StopsOnUnload`, `SetupEnds`, `ReadersReturn`, `Freed`, and the
  fairness part of `InOrder`. They are out of the prover's reach, like ENABLED.
  (Induction over data is too, as a principle; where a proof needs it, in OufxsLoad and
  OpenusbfxsRing, a least counterexample stands in.)
- `DigitPairs`, an action property that has not been attempted: it takes how long a
  digit can be on its way through `ProcessIO`, in packets.

## Not modelled

- The firmware's interrupt handler (`tmr1_isr.asm`). It arms the OUT buffer in
  mid-cycle and flips its ping-pong index by its own count; whether the packets it plays
  are in order depends on whether the microcontroller's USB engine advances its
  own index when a packet finds no armed buffer, which nothing in the repository says.
  If it does, all is in order; if it does not, the board loses one packet in three.
  A model would verify the assumption.
- The contents of samples, in particular the repeated sample for a lost packet
  (1458), and of registers beyond "the test passes".
- The firmware's initialisation, EEPROM, SPI and ProSLIC access: sequential, on
  peripherals. Of ServiceRequests the debugging commands are one kind.
- The original driver's module load and unload, statistics, and hook and DTMF latch. Its count
  of timeouts stops at `Silent + 1` in the model: that it wraps after 65536 more, and
  reports the silent board again, is left out.
- Boot loader and Microchip's USB stack (vendor code), firmware checker,
  command-line utilities and Windows console program (a few sequential calls each),
  hardware files.

## Plan

1. Proofs: `DigitPairs` of OufxsHook (a digit that is on its way, and the pause before
   the next, by the packets each stage can take); `TypeOK` of OufxsBulk in full.
2. The interrupt handler, should the behaviour of the USB engine become known.
