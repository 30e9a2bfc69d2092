# Formal model of the NutUPS HID simulator

An Arduino Leonardo presents itself as a HID Power Device, a USB UPS. A controller sets the
state of the simulated UPS over TCP (W5500) or a UART; a USB host (NUT) reads it, and writes a
few limits and delays. A Python package has the driver, a command line, a self test and a
simulator of the firmware. This directory has TLA+ modules of those parts, the TLC
configurations that check them, and TLAPS proofs of nearly all their safety properties.

Paths are those of the repository; `ino` is
`examples/UPS_Simulator_Ethernet/UPS_Simulator_Ethernet.ino`, `driver.py`, `firmware_sim.py` and
`selftest.py` are under `python-driver/src/ups_simulator/`.

## 1. Inventory

| Part | State | Operations | Interacts with |
|---|---|---|---|
| Control firmware (ino) | `sim` (armed, flags, overrides), `armLeaseMs`, `lastCommandMs`, the measurements, `iPresentStatus` | `setSafeState`, `updateModel`, `handleCommand` (18 commands), the lease check of `loop` | channel (lines in, replies out), HID core (raw storage of the Features), `sendUsbReports` |
| USB interrupt reports (ino) | `iPrevious...` snapshot, `lastReportMs`, the endpoint's two banks | `usbSend`, `sendUsbReports(force)` | called by every handler, the lease and every pass; read by the host |
| Control channel (ino) | `controlClient`, `netLine`, `uartLine` | accept / replace / stop a client, `pollStream` | Ethernet library, UART, `handleCommand` |
| HID core (`src/HID/HID.cpp`) | list of Features with lock bits, list of descriptors | `SetFeature`, `LockFeature`, `GetFeature`, `SendReport`, `setup` (GET/SET_REPORT, in the USB interrupt) | main loop and interrupt share the list and the stored values |
| Power device (`HIDPowerDevice*.cpp`) | descriptors (constant) | `begin`, `setFeature`, `setStringFeature`, `sendReport` | HID core |
| Basic example (`examples/UPS/UPS.ino`) | status, two previous values, timer | one `loop` with two seconds of `delay` | pins, HID core |
| Network start, DHCP (ino) | `dhcpLeased`, `nextDhcpMaintainMs` | `initEthernet`, maintenance in `loop` while disarmed | Ethernet library |
| Firmware simulator (`firmware_sim.py`) | the same UPS as attributes, `now_ms` | `command`, `advance`, `status_fields` | tests, instead of the firmware |
| Driver (`driver.py`) | socket or serial port, receive buffer | `connect`, `_sync`, `command`, setters, `armed_session` | channel |
| Command line, self test | none, the steps of a script | one driver call; discovery, the command test, emergency RESET | driver, HID discovery, NUT |

What is hard in it:

* the USB interrupt changes and reads Features between any two instructions of the loop;
* the lease has to survive the wrap of `millis()` and a sample of it that is older than the last command;
* several commands in any order, then one of three ways back to the safe state;
* a batch of seven reports into an endpoint of two banks, given up in the middle;
* TCP clients that stop in the middle of a line, close, vanish or are replaced;
* a driver that matches replies to commands by order only, with timeouts;
* two implementations, C++ and Python, of one protocol.

What makes each part correct:

* firmware: disarmed means safe; nothing moves a disarmed UPS; the lease ends, neither early nor late; the status is the one the values imply;
* reports: the host never combines an old status with newer measurements; what was not given up is sent; the status always arrives;
* channel: only whole lines are executed, and every whole line is;
* driver: a reply belongs to its command; a session that ends well has reset the simulator;
* Python simulator: it does what the firmware does.

## 2. Modules

| Module | Models | Correspondence |
|---|---|---|
| `Firmware` | the control side of ino | one action per group of commands, `LoopTop`, `EndPoll`, `UpdateModel`, `PublishStatus`, `SendUsbReports`; `HostSetReport` is the interrupt, `Tick` is `millis()` |
| `ArmingContract` | what the arming gate promises, abstractly | `Arm`, `Use`, `Restore`, `Elapse` over an opaque UPS |
| `MCFirmware`, `MCFirmwareSlices` | inputs for TLC, in slices | a behaviour stays in the slice it starts in |
| `FirmwareSim` | `firmware_sim.py` | one action per `command()` or `advance()`: they are atomic, the object has one thread |
| `FirmwareMirror` | ino implements `firmware_sim.py` | the refinement mapping |
| `Programs` | `selftest.py` and `cli.py` over TCP, composed with `FirmwareSim` | a program is a script of lines with what it requires of the replies; one step per line sent, executed or answered |
| `Arguments` | `parseSigned` of ino, `_parse_signed` of `firmware_sim.py` | the loop over the characters, turn by turn, and the number they spell |
| `MCPrograms` | inputs of `Programs` and `Arguments` | |
| `UsbReports`, `MCUsbReports` | `sendUsbReports`, endpoint, host | one step per report |
| `ControlChannel`, `MCControlChannel` | `loop`'s clients, the UART and `pollStream` | one step per byte |
| `DriverLink` | the transports, replies, `armed_session` | one step per line |
| `HidRegistry` | the list of Features of `HID.cpp`, filled by `setupHid()` | one step per store of the main loop; the interrupt between any two |
| `Dhcp` | `initEthernet()` and the timer at the top of `loop()` | one step per library call or pass |
| `Startup` | `setup()` and then the network part of `loop()` | `HidRegistry`, then `Dhcp` |
| `BasicExample` | `UPS.ino` | one step per byte of a shared word |
| `...Proofs` | theorems about the module named before `Proofs` | section 4; `ProgramsProofs` has those about `FirmwareSim` and `Arguments` too, `StartupProofs` those about `HidRegistry` and `Dhcp` |

How the parts fit together. `Startup` ends where `Firmware` begins: with the Features registered
and locked, so that the host can write the limits and delays only (`OnlyLimitsStayOpen` is the
reason for the `HostFeatures` of `Firmware`). `UsbReports` abstracts the handlers of `Firmware` to
"any values", and `Firmware` abstracts the reports away, because sending only reads the UPS.
`ControlChannel` delivers the lines that `Firmware` takes as any request of a set at any poll, and
`Arguments` says why a request can be a number: both implementations read the same one.
`DriverLink` knows of the firmware only whether it is armed and how it answers; `FirmwareMirror`
and `ArmingContract` state what users of the firmware may rely on. `Programs` composes the real
scripts with the whole Python simulator, which by `FirmwareMirror` answers as the firmware does.

### Firmware

The main loop is a program counter cut where the interrupt can make a difference: before
`updateModel()` reads the host's values, between that and the atomic store of the status, and
before the reports. Everything else of a handler is one step, since the interrupt touches only
the Features the host may write. Arguments are numbers; what the parsers refuse (missing,
malformed or too large) is a number outside the accepted range. `idle` is auxiliary: the true
time since the last command, which does not wrap.

### Programs

`stage` is where `main()` is: the HID check, the discovery, the look for a live upsmon, the
connection, the body, and the `finally` clause of the self test. In the last three `step` counts
the lines of a script (`Steps`), each with the reply it requires: OK or ERR, and for STATUS? the
fields compared. `lines` and `answers` are the two directions of the connection, `waiting` a call
of `command()`. A line waits as long as it likes before `Execute` runs it and the reply may come
after the wait was given up, when the next line takes it for its own. At any step the connection
may be cut, the user may press Ctrl-C, the process may die, time may pass, and once in a run
another controller (on the UART, say) may send a line. `disturbed`, `owner` and `ran` are
auxiliary: whether anything of that kind happened, who armed last, how many lines were executed.

### HidRegistry

`SetFeature()` is cut into filling the node, the two byte stores of the pointer that links it, and
the count. Two assumptions are named here because the code does not state them: the stores happen
in program order (nothing in the class is `volatile`; the AVR compiler emits them so), and the
interrupt, once started, runs to its end. The registry is the one of the Ethernet example.

Definitions named in a comment as a *slip* are plausible mistakes. No specification uses them;
each replaces the definition below it to show that a property notices.

## 3. What is checked

| Run | Shows |
|---|---|
| `firmware` | disarmed is safe, also as the host sees it; the automatic runtime follows the charge; nothing moves a disarmed UPS; the lease is neither early nor more than one pass late, across the wrap; silence ends in the safe state; host writes in the middle of `updateModel()` do not leave a wrong status for good; the firmware implements `ArmingContract` |
| `charge_low` | **violated**: "fixed 5%" (NUT_VARIABLES.md) is writable by the host and not restored |
| `programs` | the self test passes when nothing disturbs it, whatever state it finds; exit status 0 is the truth; however the self test ends, what it armed does not stay armed; driver and simulator agree on every range, firmware and simulator on every number; the Python simulator leaves no stale status and no expired lease |
| `mirror` | the firmware implements the Python simulator |
| `reports` | order, completeness and eventual arrival of the reports |
| `reports_retry` | **violated**: a batch given up is not always retried in the next pass (ETHERNET_SIMULATOR.md) |
| `channel` | only whole lines are executed, but for the end of a line that was too long and the line after a half one on the UART, and every line that was sent is handled |
| `driver` | replies belong to their commands and sessions end in a reset, as long as no wait was given up |
| `driver_session` | **violated**: after a timeout, `armed_session` can end well without a reset having been done |
| `startup` | the interrupt never follows a half-stored link; Features are found once registered, and closed to the host for good once locked; the DHCP timer is never early, late only by half the range of `millis()`, and never given up |
| `basic_example` | lost reports are repeated in bounded time; the right status arrives |
| `basic_torn` | **violated**: a 16-bit read in two halves requests a shutdown nobody asked for |

The four violations are disagreements of the code with a line of its documentation (or
docstring), quoted under "findings" in `PROJECT.json`. None of them shows in a single call.

The models also allow five behaviours no document rules out, listed as hazards: the tail of a
line that was too long is executed as a command of its own; a late `OK PONG` on a UART that was
reopened shifts the replies by one; a host that polls slowly can keep the last reports of
the batch from ever being sent; a host that writes a measurement while `setup()` runs, before its
lock, keeps it there until the next reset (the safe state was set before); and after an armed
session of more than 24.8 days DHCP maintenance can wait as long again.

### Bounds

* Clock: the `firmware` run uses `ClockWrap` 8, leases up to 4 and a pass of up to 2 ticks, so that a
  lease spans the wrap at every offset; its scenario slice needs no clock, and `charge_low` one for
  progress only. `programs` has `ClockWrap` 4 and leases up to 2: the self test's two leases differ,
  and its sixty odd lines cross the wrap many times.
  The proofs cover the real 2^32, 3600 s and any pass shorter than what the wrap leaves.
* Inputs: every command group occurs in some slice; values are the ones the code compares with
  (0, 5, 100, 101, the limit 600, the default lease, an excessive lease) and one within. Slices
  are used because the product of all inputs is out of reach; a property that several commands
  could break together (`DisarmedIsSafe`) is proved for all of them.
* Reports: three reports, the first two tracked, stand for seven of which three are tracked: one
  more than the banks hold, with one that is not compared. Two changes give a value that returns
  to what the host had. Values are versions.
* Programs: the simulator is found in the states a few kinds of requests leave (armed by another
  with, without and with the default lease, changed, refused; the self test resets it first), in
  every one of them a program may start. Each run of `ups-sim` has one line: the command line holds
  one driver call. One foreign line per run is enough to change the state under the program.
* Arguments: all tokens of up to six characters over 0, 1, 9, minus and a letter: six digits pass the
  limit of 99999, and leading zeros, bare, doubled and inner signs and letters all occur.
* Channel: a buffer of 3 bytes, lines of 1, of 2 (the longest that fits), of 3 (one too long by
  the terminating zero) and of 5 (its end is executed). Two clients with two lines and one; or a client beside a UART with two
  lines. More clients only repeat the take-over, a half line reaches one line and no further.
* Registry: every call of `setup()` in order; the stored values of four Features are followed, one
  of each kind (locked at the end, locked at once, never locked).
* DHCP: `MillisWrap` 8, intervals 3 and 1, calls and passes of up to 2 ticks; the age is followed
  to beyond the wrap plus the interval.
* Driver: seven lines: a `_sync`, a whole session, and one reconnection. Both transports are
  chosen initially. `max_lines` of `_sync` is 3 for the code's 8: over TCP exactly three lines
  come, so that its limit is the tightest that works. The violation run has 8.
* Basic example: interval 4 for 26 (two seconds a pass, three passes), three changes of the
  world, the bytes of -1, 0 and 300.

### Fairness

* `Firmware`: weak fairness of the loop's steps and of `Tick`: the processor runs `loop()` for
  ever and `millis()` counts. None for controllers, host or the interrupt. As a handler is not
  one of the loop's own steps, the liveness properties are stated for controllers (and hosts)
  that fall silent.
* `UsbReports`: the loop, its clock and a host that keeps polling (an enumerated interrupt
  endpoint is polled). How fast it polls is not assumed.
* `Programs`: a started program takes its next step or gives up waiting, the simulator reads what it
  is sent, and time passes. The kill, Ctrl-C, the cut and the other controller are not fair.
* `ControlChannel`: the loop only. A controller may stop at any byte.
* `Startup`: `setup()` and `loop()` go on (weak), and not all passes take no time (strong: it is one
  outcome of a pass, and `millis()` counts).
* `BasicExample`: the loop only; the property speaks of runs whose inputs come to rest with the
  host connected.
* Deadlock is checked except for `DriverLink`, where the bound on lines stops the driver.

## 4. What is proved

TLAPS checks every theorem for all values of the constants, from the assumptions named in the
modules; TLC evaluates each of those on the small instances. Every invariant the runs check is
the statement of a theorem, and so is every action property and both refinements.

Two kinds of assumption carry weight. `ClockAssumption`, `SimAssumption` and `DhcpAssumption` say
that the intervals of the code fit the clock: leases up to 3600 s and timers up to 60 s in 2^32 ms.
`LinkAssumption` has `MaxSkip` positive, where the code has 8. The others give types and name
distinct things; so does `CliAssumption`, by which the command line sends records, and `ARM`
with on or off, which is all that `arm()` and `disarm()` send.

**`FirmwareProofs`** (any clock, leases, requests and host writes)

* `TypeCorrect`: every variable keeps its type and width. `Widths`, `SafeTypes` and
  `DerivedStatusType` hold the facts about integers, so that the steps of the proof see the
  widths as opaque sets.
* `DisarmedSafe`: `DisarmedIsSafe` with the type invariant is inductive. The argument is that
  every handler which changes the UPS passes the gate (`GateHolds`, `CommandDisarms`), and that
  the recomputed runtime of a full battery is the default (`AutoRuntimeFacts`).
* `LeaseIsBounded`, `LeaseNotEarly`: `LeaseBound` is not inductive: it says nothing of the clock
  variables the code looks at. The strengthening is `LeaseInv`: the clock is at most a pass ahead
  of the loop's sample; while a lease runs, `idle` equals the wrapped difference of clock and last
  command, and is less than the lease plus the age of the sample. The second part is what makes
  the unsigned subtraction right across the wrap, the third is what the check at the top of the
  pass restores. `LeaseNotEarly` then follows from `idle` being the true age.
* `LooksSafeWhenDisarmed`, `RuntimeIsCharge`, `DisarmedIsLocked`: from the same invariants; the
  first needs that the delay the host may have written is gated by `armed` in the status.
* `FirmwareImplementsContract`: every step maps to a step or a stutter of `ArmingContract`, with
  the runtime mapped to the one `updateModel()` will set.

**`FirmwareMirrorProofs`** (any lines, without a USB host, which the Python simulator does not have)

* `FirmwareMirrorsSimulator`: every step of the firmware is a step or a stutter of `FirmwareSim`
  under the mapping of `FirmwareMirror`, when no time passes inside a pass. `MirrorInv` has what
  the simulator has as constants (the two limits), and that the loop's sample of `millis()` is at
  most a pass old, which is what lets both lease checks decide alike. One lemma per group of
  commands maps its handler.

**`ProgramsProofs`** (any lines, leases and advances, any token)

* `TypeCorrect`, `StatusIsAlwaysCurrent`, `DisarmedSafe`: each is inductive with the type
  invariant. `SimStep` is the statement that a module moves the simulator by `command()` and
  `advance()` alone; it holds of `FirmwareSim` and of `Programs`, so that `ProgramsKeepSimulator`
  has the three for the composition without a second proof.
* `LeaseCuts`, `ProgramsLeaseCuts`: `LeaseInv` says that the masked difference is the true
  silence. They assume `ShortAdvances`: one call of `advance()` that is longer than the wrap less
  the lease does skip the expiry. The firmware has no such jump; a test could ask for one.
* `ProgramsTypeCorrect`.
* `ZeroIsAlwaysTrue`: when a program ends with status 0, every line was executed, and the
  simulator is disarmed if the script says so. The invariant is `ScriptInv`: no more lines were
  executed than sent (`CountInv`), and as long as nothing has gone wrong the newest line or its
  answer is all that is on its way (`ExchangeInv`), so that no answer can be taken for another's.
  The scripts enter by few facts only: a last line that disarms.
* `NoAlarmIsFalse`: if nothing disturbs it, a program fails only where it should, the self test
  never. This needs the state of the simulator before each of the sixty odd lines. `Known`
  annotates the script with it: whether the simulator is armed, and the values of fields that the
  lines before have set. `Fits` says when a line passes in such knowledge and what it leaves,
  `Passes` that a whole sequence of lines does. `JoinPasses` (sequences that pass one after the
  other pass joined) reduces the script to its pairs of a setter and a STATUS?. That what is known
  holds is the invariant `Undisturbed`; `FittingStep` shows that `command()` keeps it, for which
  `RuntimeIsCurrent` is needed (a query recomputes the runtime, and must find it as it was), and
  `SentIsTaken` that a setter the driver does not refuse is taken by an armed simulator. A lease
  that runs out under the program is a disturbance.
* `SameNumbers`, `ParsersAlwaysAgree`: for tokens of any length and any range, `parseSigned()`,
  which gives up at the digit that passes the limit, and `int()` of the whole token have the same
  result. Once the value is over the limit it stays so (`ParsedFacts`); before that both loops hold
  the same number.
* `DriverAlwaysAgrees`: of every request, whatever its numbers, driver and simulator accept the
  same.

**`UsbReportsProofs`** (a batch of any length, any tracked reports, any number of banks)

* `StatusIsAlwaysNewest`: `OrderInv` says that the endpoint is in the order of versions, and that
  before each report in it, and before those that the batch under way has still to send, there is
  a status at least as new.
* `NothingIsLeftBehind`: `SentInv` says that what the batch has sent so far will be the host's, and
  that the snapshot of a quiet loop is the values themselves. The host will see what the last item
  of a report in the endpoint holds: the lemmas on `AfterPolling` show it, by the least
  counterexample (see `Turns` below).

**`ControlChannelProofs`** (any clients, lines of any length, any buffer)

* `EveryLineIsWhole`: what the buffer of a port holds and what the port will read next are a
  contiguous piece of its source's bytes, but for what a full buffer dropped. `ChainInv` says so
  of the stream, `FlowInv` that the buffer ends right before it, and `ClientInv` that a client not
  yet served is at its beginning, where the buffer was cleared. After a line that was given up on
  the UART the piece may begin in the middle, which is the exception the property makes.

**`DriverLinkProofs`** (either transport, any number of lines)

* `RepliesAreAligned`, `CleanExitIsAlwaysSafe`: until a wait is given up, the streams hold what the
  exchange under way has put there and nothing else (`ExchangeInv`). While `_sync()` waits, an
  `OK PONG` can only be the last answer there will be; lines that were sent on an earlier
  connection are never read (`LinkInv`).

**`StartupProofs`** (any clock and intervals)

* `NeverMaintainedTooSoon`, `LateByHalfTheRange`: `TimerInv` says that the true age of the last
  maintenance and the wrapped difference the code looks at agree up to half the range, and that
  beyond it the code takes a late timer for one not yet due.
* `NoTornPointer`, `RegisteredStaysFound`, `WindowIsShut`: `RegistryInv` says where the main loop
  is in `SetFeature()` (`PlaceInv`), that the counted nodes are linked and the next one is being
  linked (`ChainInv`), that no id is there twice (`IdInv`), and that a lock has been set once its
  call has returned (`LockInv`). A search of the interrupt walks the chain (`Turns`).
* `OnlyLimitsAreOpen`: at the end of `setup()` the host can write the limits and delays alone. The
  invariant adds `LockedInv`: a node is locked only by a call that locks its Feature. Which
  Features those are is read off the list of calls of the code (`WhatIsLocked`), and so is that no
  call locks a Feature before it is set (`CallsLawful`), on which `RegistryInv` rests: both are
  put together from the pieces of the list by lemmas about joined sequences.

**`BasicExampleProofs`** (any interval, charges and words of the host)

* `StaleStaysBounded`: `TimerInv`, a pass that leaves the host an old status has let the timer run
  on by two.

An induction over data has no usable theorem in the library here, since its rules take an operator
as parameter. Where a recursive function has to be followed (`Turns`, the turns of the
interrupt's search; `AfterPolling`; the loops of the parsers), the proofs take the least
counterexample, which `WFMin` gives for the order of the naturals: it is stated with sets. The
existence of such a function is proved the same way (`LoopExists`): the run of a shorter loop is
extended by one turn.

Only model-checked is liveness: `LeaseReturnsToSafe`, `StatusConverges`, `SelfTestLeavesSafe`,
`StatusReachesHost`, `SentLinesAreHandled`, `StatusArrives` and `LeaseIsMaintained` rest on
fairness and `ENABLED`, which are outside the prover's reach.

## 5. What is not modelled

* The order of bytes and the wording of replies; the parsing of STATUS? and NETWORK? payloads (their
  fields are compared, in `Programs`); how a line is split into tokens.
* pyserial's partial reads on a timeout; bytes the UART's receive buffer of 64 drops while a pass
  takes long; a controller that sends so fast that `pollStream()` never returns.
* The rest of the host's writes to the basic example, which locks no Feature; its status between
  two bit stores.
* The report descriptors, and the requests SET_IDLE and SET_PROTOCOL.
* In the self test, how USB devices, addresses and NUT processes are found: only the outcomes, any
  of them. In the command line, argparse, printing, `raw` and the serial port.
* Packaging, documentation, CI, udev rules.
* The Ethernet library, the W5500, the AVR USB core and TCP are external: modelled as the code
  uses them (one listening socket, `connected()` true until the last byte is read, an interrupt
  that runs to its end, DHCP calls that block for a while and succeed or fail).
* A program that is suspended for longer than a lease is a disturbance in `Programs`: its lease
  expires under it.

## 6. Plan

Done: the firmware core with its contract, the Python simulator and the mirror, the reports, the
channel with the UART, the driver, the basic example, the registry and the DHCP timer as one start
of the board, the self test and the command line, the number parsers; theorems about all of them,
one for every invariant, action property and refinement the runs check. Next:

1. The partial reads of pyserial in `DriverLink`, at the level of half replies.
2. GET_REPORT in the middle of the basic example's loop.
