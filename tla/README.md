# ESCSim in TLA+

ESCSim runs AM32 ESC firmware in emulators and shows the emulated ESCs to
ordinary configurators as USB serial devices. Around the emulators is a program
of many threads and processes: a launcher that starts, stops, imports, detaches,
sleeps and wakes up, devices that answer hosts, panels that drive motors, caches
that several processes fill, tools that command a real motor. This directory
models the parts of it that keep state, checks them with TLC and proves what
matters most with TLAPS.

    tlc -workers 2 -config UsbSleep.cfg UsbSleep       # a run
    tlc -workers 2 -config Panel.cfg MCPanel
    tlapm UsbSleepProofs.tla                           # the proofs of a module
    tlapm LabLifecycleProofs.tla
    tlapm UsbipServerProofs.tla
    tlapm FcMotors.tla

`PROJECT.json` lists the components, the runs, for every modelled definition
the source lines it stands for, for every property a mutation of the model that
breaks it, the hazards and the theorems. Paths below are relative to
`src/src/escsim` unless they begin with `src/` or `SITL/` (for `src/SITL/`).

## 1. The system and its parts

| Part | State | Operations | Talks to |
|---|---|---|---|
| **Launcher lifecycle** `gui.py`, class `Lab` | generation, processes, flight controller, published stub, startups in progress, USB leases, status | `start`, `stop`, `saw_log_line`, `_wait_ready`, `_start_stub`, `_start_fc_endpoint`, `_dfu_manifest`, `_watch_fc_usb` | processes, monitors, UsbSleep, devices, Qt |
| **Launcher window, images, control port** `gui.py`, `main` | combo boxes, buttons, queue of results, preferences | click handlers, `drain_log`, resolver and download threads, `control_serve` | `Lab`, artifacts, targets.h, scripts |
| **USB sleep leases and watcher** `control/usb_sleep.py` | imports, their ports, sleeping event, inhibitor, worker | `attach`, `detach`, `forget`, `prepare`, `resume`, `close` | kernel port table, the launcher, logind, Qt |
| **USB/IP device server** `control/usbip.py`, `UsbipServer` | connection, queued reads, held bytes | `read`, `write`, `drain`, `close`, server thread | the host's vhci_hcd, the stub behind it |
| **USB/IP client half** `control/usbip.py` | none of its own (the kernel's port table) | `attach`, `detach`, `find_tty`, udev rule | vhci_hcd, usbip-win2, other applications |
| **DFU device** `control/dfu.py` | DFU state, address, flash, manifest flag | DFU requests, manifest timer | `UsbipServer`; `Lab._dfu_manifest` |
| **Simulated flight controller** `control/msp_stub_fc.py` | motor values, 4-way flag, arming | MSP commands, DShot cycle, bridge, `close` | a USB link, ESC input ports |
| **4-way bridge** `control/fourway_server.py`, `fourway.py` | selected and connected ESCs, buffer, exit flag | `feed`, one-wire transactions | bootloaders of the ESCs |
| **Control panel** `control/ui.py`, `backend.py`, `sim_runner.py`, `dshot.py` | throttle, waveform, simulator process, USB device, parameters, CAN node, graphs | Qt handlers, sender, wave, CAN and fetch threads | ESC input, state and CAN ports |
| **Scope, sounds, models, parameters, replay** `control/scope*.py`, `tones.py`, `model_builder.py`, `param*.py` | captures, events, files, images | arm, feed; record; edit, save; fetch, apply; log, replay | state stream, panel |
| **Process trees, monitor** `renode/process.py`, `session.py`, `monitor.py` | processes, group or job, socket | start, stop, pump; `command`, `close` | operating system, Renode |
| **Caches and stores** `renode/download.py`, `artifacts/`, `target/source.py`, `settings.py` | directories, manifests, catalog, index | install, publish, fetch, select | one another, HTTP, other processes |
| **Target generator** `renode/generator.py`, `flight_controller.py`, `target/preprocessor.py` | flash of the machine; nothing else | which images, in which order; wiring; hot patches; targets.h | Renode |
| **SITL bench** `SITL/sitl_gui.py`, `sitl_serial_bridge.py`, `sitl_faults.py` | tabs, simulators, one USB device, benchmark | launch, drive, choose, poll, close | simulators, configurators |
| **Capture bench** `SITL/scripts` | session, worker, log, clock | connect, run, abort, fit, close | a real flight controller or CAN node |

How the first parts meet: a Start of the launcher begins the emulator
processes and a *startup* thread, which waits for the monitors and ports, opens
a USB device server with a flight-controller stub behind it, imports the device
into the same machine's kernel through `UsbSleep`, and publishes it. With an
emulated flight controller the device is the firmware's own; a *watch* thread
then imports it again whenever the firmware has dropped it. In DFU mode the
startup exports a factory DFU device instead, and a *handoff* thread replaces it
by the firmware after a download. Stop, an unexpected exit of an emulator and
the next Start all take down whatever of this exists at that moment. Across all
of it logind may put the machine to sleep: every import must be detached before
and made again after.

### What is hard here

* **Interleaving.** `lifecycle_lock` covers single steps; between them only the
  `generation` counter tells a thread that its launch is over.
* **Locks held across slow calls.** `UsbSleep.lock` is held while the kernel
  imports (seconds), `send_lock` while a host does not read.
* **Waiting on each other.** Stop runs on the Qt thread; an import that a sleep
  holds back is released by a signal the Qt thread delivers.
* **Partial failure.** A detach may be refused half way through Stop, Start,
  undo or a sleep, and must be retried later.
* **Stale reads.** Ports are numbers that the kernel gives to others once a
  device is gone; generations, device states and greetings are read before a
  lock and used under it.
* **Foreign actors.** Hosts unlink URBs that are being completed, devices leave
  by themselves, other applications use the same port table.

Section 8 lists the properties by part; the `hazards` of `PROJECT.json` give
the source line each one is aimed at.

## 2. Modules

A module models one part with its threads and what is outside the code.
Operators called *mutants* in the comments are the mutations of `PROJECT.json`:
each is a plausible bug of the definition after it, and no specification uses
them. Variables named *observer* or *external* are not the code's.

| Module | Models | Actors and steps | Checked in |
|---|---|---|---|
| `UsbLease` | what UsbSleep promises: an abstract lease of each import, a gate, an end | | `usb_sleep` (refined), `lab` (used) |
| `UsbSleep` | `usb_sleep.py` | below | `usb_sleep` |
| `LabLifecycle` | class `Lab` over `UsbLease` | below | `lab`, `devices` (`lab`) |
| `UsbipServer` | class `UsbipServer` | below | `panel` (`usbip`), `devices` (`usbip`) |
| `DfuDevice` | `dfu.py` | two hosts in turn, each a DfuSe client; the manifest timer. A request and its answer are one step | `devices` (`dfu`) |
| `FcMotors` | who drives the wires in `msp_stub_fc.py` | MSP thread, DShot thread with its snapshot and cycles, `close`, a RUN command that outlives its wait | `devices` (`fc`) |
| `FourWaySession` | the 4-way session of `msp_stub_fc.py`, `fourway_server.py` | the MSP thread frame by frame; a client that repeats a request at any time or moves on; a wire that may lose RUN | `devices` (`fourway`) |
| `DirectBridge` | class `DirectBridge` | one pass of its loop; the wire; the ESC | `devices` (`bridge`) |
| `ProcessTree` | `renode/process.py` and the pump | `stop` wait by wait on POSIX and Windows; the processes | `host` (`tree`) |
| `FcMonitor` | `renode/monitor.py` under its users | metrics thread, USB watch, Stop with its own connection, late answers | `host` (`monitor`) |
| `ArtifactRepository` | `artifacts/` | publishers write by write, dying anywhere; a client's three fetches | `host` (`artifacts`) |
| `RenodeCache` | `renode/download.py` | two processes, dying anywhere, somebody who tidies up | `host` (`renode`) |
| `TargetsSource` | `target/source.py` | two processes fetch, store, load; index without a lock | `host` (`source`) |
| `TargetMacros` | `target/preprocessor.py` | a line of the file is a step | `host` (`macros`) |
| `LauncherWindow` | `main` of `gui.py` over `Lab` | a handler is a function of the window; threads end in any order | `host` (`window`) |
| `ImageChoice` | bootloader and firmware boxes | user, catalog, resolver, installation | `host` (`images`) |
| `ControlPort` | the launcher's control port | a thread per client, the window's poll, resolver, download | `host` (`port`) |
| `EscFleet` | `SITL/sitl_gui.py` | Qt, the USB worker, simulators, refused detaches | `host` (`fleet`) |
| `SerialLinker` | `SITL/sitl_serial_bridge.py`, `sitl_faults.py` | bridge loop, link with faults, ESC | `host` (`linker`) |
| `DshotPort` | `control/dshot.py` | sender, reader thread, lost packets, damaged replies | `host` (`dshot`) |
| `ThrottlePanel` | PWM and DShot of `ui.py`, `backend.py` | Qt handlers, wave thread, sender thread without a lock | `panel` (`throttle`) |
| `SimProcess` | `sim_runner.py` | buttons, pump threads, exits | `panel` (`simulator`) |
| `PanelUsb` | the USB device of a panel | two panels on one port table | `panel` (`usb`) |
| `ScopeStream` | `SimStream`, `ScopeCapture` | simulator, resets, losses, the scope's user | `panel` (`stream`) |
| `CaptureBench` | the capture window, its session and backends | workers, window, user | `panel` (`bench`) |
| `CaptureLog` | the record of a capture | reader, main, writer threads; the file's buffer and its last flush | `panel` (`log`) |
| `SimClock` | `SITL/scripts/sim_clock.py` | simulator, reader, user of the clock; `now()` in its two readings | `panel` (`clock`) |
| `EepromRead` | reading settings through a flight controller | tool, controller with late answers | `panel` (`eeprom`) |
| `BootPlan` | `generator.py`: images and boot script | command by command; resets | `panel` (`boot`) |
| `FcFlash` | `flight_controller.py` and its callers | launches, kills, DFU, downloads, patch words | `panel` (`flash`) |
| `TargetWiring` | `generator.py`: the platform | a function of the target | `panel` (`wiring`) |
| `HexImage` | HEX, ELF and what reads them back | record by record | `panel` (`hex`) |
| `PanelReplay` | logging and replaying a session | handlers as functions of a panel | `panel` (`replay`) |
| `ParamEdit` | editor, periodic check, `EepromClient` | three clients of one port; others that write | `panel` (`params`) |
| `CanPanels` | `CanPanel`, `CanCommandGroup` | a thread per panel, Qt, the bus | `panel` (`can`) |
| `ToneTools`, `AudioPlay` | `tones.py`, tone and audio streams | simulator, reader, player threads | `panel` (`tones`, `audio`) |
| `MotorModels` | models of a panel | launches, editor, builder; kills | `panel` (`models`) |
| `BenchRecipe` | benchmarks of the SITL bench | simulator clock, timer, user | `panel` (`recipe`) |
| `VhciPort` | `attach`, `detach`, `find_tty`, udev | clients, kernel, other applications | `panel` (`vhci`) |
| `UsbSleepProofs`, `LabLifecycleProofs`, `UsbipServerProofs` | theorems about the modules they are named after | | |
| `MCDevices`, `MCHost`, `MCPanel` | several parts for one run, see below | | |

The composition is by contract where parts call each other: `UsbSleep` is
shown, by TLC and by proof, to implement `UsbLease`, and `LabLifecycle` takes
the lease steps of `UsbLease` as its own calls. A launcher thread that imports
does not see the lock, the port table or logind; it sees a lease that is being
acquired, live, suspended or gone, and a gate.

Parts that share no state while they run are checked together in one run.
`MCDevices`, `MCHost` and `MCPanel` instantiate each with variables of its own
and a variable `part`, chosen in the beginning and never changed: the chosen
part moves, the others stay as they begin. So the states of such a run are the
sum, not the product, of the parts' states, and a property of the run is a
conjunction of properties of its parts, guarded by `part` where the others'
initial state says nothing. The properties themselves, with their comments, are
in the parts' modules.

### UsbSleep

Actors: one client thread for every exported device (a thread of the launcher
that calls `attach`, `detach`, `forget`), the sleep worker, the Qt thread
(`PrepareForSleep`, `Complete`, `Close...`), and outside the code logind, the
kernel and other applications.

| Code | Model |
|---|---|
| `attach` (36-55): check, wait on the condition, import, register | `AttachCall`, `AttachRaises`, `AttachBlocks`, `AttachProceeds`, `ImportSucceeds`, `ImportFails` |
| `detach` (64-76), `forget` (78-84) | `DetachForgets`, `DetachSucceeds` |
| `prepare` (86-106), one step per attachment, the wait for a port to vanish and its timeout included | `PrepareBegins` ... `PrepareDone` |
| `resume` (108-132) | `ResumeLocks`, `ResumeAttaches`, `ResumeForgets`, `ResumeDone` |
| the watcher's signal slot, worker and completion (191-253) | `PrepareForSleep`, `StartJob`, `Complete`, `CloseBegins`, `CloseUsb`, `CloseJoins` |
| `vhci_hcd`, other applications, logind | `DeviceGone`, `ForeignAttaches`, `SleepAnnounced`, `SleepOver` |

`sleeping` is set without the lock (line 88), so `PrepareBegins` and
`PrepareLocks` are two steps. `port_attached` looks at a port's number, not at
whose device it is; `Listed` does the same.

### LabLifecycle

Every thread has a program counter in `pc`; a launch number says which Start it
belongs to. Lock regions of the code are single steps; a step ends where the
code gives `lifecycle_lock` up or calls something that blocks.

| Code | Model |
|---|---|
| `start` (477-686) | `Start` (refusals, first half of `_stop_stub`), `StartProcesses`, `StartFails` (a process cannot be started; one of the upsets), `NewGeneration` |
| `stop` (1435-1477) | `Stop` (the generation is advanced), `StopStub` (in a later lock region the endpoint is taken), `StopProcesses`, with `TakeStub`, `DropLeases`, `CloseHeld` for `_stop_stub` |
| `saw_log_line` (1479-1503) | `SawExit` (the generation), `StopStub`, `ExitProcesses`, `SawBound`, `SawUnbound` |
| `_wait_ready` (692-815) | `ConnectMonitor` ... `StartupFailed` |
| `_start_stub`, `_start_fc_endpoint`, `_import_usb` | `Begin`, `WaitFirmware`, `Import`, `Imported`, `Remember`, `Publish`, `Undo`, `Release` |
| `_dfu_manifest` | `Manifest`, `CheckHandoff` ... `HandoffFails`, then the import steps above |
| `_watch_fc_usb` | `WatchReads`, `WatchActs`, `WatchImports`, `WatchImported`, `WatchPublishes` |
| sleep and resume, as `UsbLease` allows them | `SleepBegins`, `Suspended`, `SleepForgets`, `Reconnected`, `SleepEnds` |
| emulators, devices, hosts | `EscExits`, `FcExits`, `EscUnbound`, `DeviceGone`, `Manifest` |

Abstractions. A launch's ESC processes are one entry that is running in full,
in part, dead or out of the list, because the code asks only for "any" and
"all". `generation` is kept as the launch it belongs to (0 once it was
advanced): threads only compare it with their own. Of `status` only whether it
says "stopped" is kept, since that is what a property is about. Log lines are
the exit and "no longer bound" lines of a launch still in the queue; they may
be drained after that launch is over, which is a case of its own in the code.

### UsbipServer

The server thread (`Accept` to `SessionEnds`), one writer (`Write`,
`WriteHeld`, `WriteChunk`, `WriterSent`), `Read`, the closing thread (`Close` to
`CloseReturns`), and the host (`Connect`, `Ask`, `Submit`, `Unlink`,
`HostReads`, `HangUp`). A send is two steps - `send_lock` taken and the
reply built, then `sendall` done - so it can block with the lock held when the
connection is full. A byte is its place in what was written, which is all that
order needs; control transfers, stalls and OUT transfers are answered at once
and are one kind of URB. `attached` is where the server thread stands and is not
a variable.

## 3. Runs

| Run | Question | Result |
|---|---|---|
| `usb_sleep` | two owners, one polling a cancel event, one port, two sleeps, closing at any time, fair threads | no import leaks, no lease is stranded, the inhibitor is given back only after the detaches, `UsbLease` is implemented; a cancelled attach returns whatever the Qt thread does; with a dispatching Qt thread no attach and no sleep is held up for ever |
| `usb_sleep_foreign` | are other applications' devices left alone? | **violated**, finding 1 |
| `lab` | two launches in each of three modes, an upset | every import, endpoint and process has an owner that will end it; what was cancelled starts and publishes nothing |
| `lab_status` | does a cancelled startup or handoff leave the status alone? | **violated**, finding 2 |
| `devices` | DFU loader, motor outputs, 4-way session, single wire; and what must come to its end: one launch with two upsets, the USB/IP server with one host | a download is written whole and manifests once; no DShot frame in a serial transaction; throttle goes to armed ESCs only; a client whose repeats come while its request is in work reads its own answers; an exit sends RUN to every ESC in touch; the motors get frames again; Start, Stop and exits return even while a sleep holds an import back; a cancelled startup gives its token back; close returns and the server thread ends |
| `fourway_retries` | are retries that queued up dropped? | **violated**, finding 3 |
| `host` | process trees, monitor, stores, window, images, control port, bench, bridge, input port | stores stay whole under crashes and rivals; what runs is what was picked; answers go to who asked; nothing of a stopped tree is left |
| `launcher_target` | does a target selection replace the emulated ESC? | **violated**, finding 4 |
| `panel` | panel, tools, generator, USB ports, USB/IP server | no stray command, one simulator, captures whole, URBs settled once and the stream in order, the bench ends with the motor at rest, records true, flash as asked for |
| `capture_driver` | one driver of a real motor? | **violated**, finding 5 |
| `fc_dfu_patches` | are hot patches only at code they were recognized in? | **violated**, finding 6 |
| `scope_lives` | is a frame of the scope of one life of the simulator? | **violated**, finding 7 |

All runs say `CHECK_DEADLOCK FALSE`: a closed program stops, and so does one
whose bounds are used up. That nothing waits for ever where it should not is
what the liveness properties state.

### Findings

1. `docs/quickstart.md:86` promises that other applications' devices are left
   alone. A lease names a port number; after its device has left by itself and
   before the lease is forgotten, another application may be given the number,
   and the next detach unplugs that application's device.
2. The generation counter "invalidates old pollers" (`gui.py:339`), yet a startup
   whose monitor greeting reports an error writes `status` and `start_failed`
   without comparing it (`:723`), and the `except` clause of the DFU handoff
   (`:1358`) does the same: after a Stop, "stopped" is overwritten.
3. The comment at `msp_stub_fc.py:693` says that retries which queued up are not
   answered, also for a client that moved on. Only copies of the request just
   answered are dropped; two copies of the next one are both answered (`:703`).
4. `gui.py:1796`: "A target selection replaces the emulated ESC." The new target
   is resolved in a thread; a Start pressed meanwhile launches the old one, and
   then the panels change to the new one while the old one runs (`:2496`).
5. `esc_capture_gui.py:443` guards against a second capture that "would command
   the motor behind the first"; a fit that ends while a capture runs enables Run
   again (`:552`).
6. `flight_controller.py:533` promises that no hook ever sits at a coincidental
   address; in DFU mode the machine's script, patches included, is made before
   the host writes the firmware (`gui.py:1332`).
7. `scope.py:192` says that a reset of the simulator discards what was captured
   across it. The scope takes a reset for one only when time goes back between two
   samples (`:333`). A reset simulator forgets its subscribers, and up to a second
   passes until it streams again: the first sample of its new life may be later than
   the last of the old one, and a frame mixes both.

### Observations without a run

Modelling also met behaviour that no document or comment speaks against, or that
lies in detail a module leaves out. The ones a maintainer may want to look at:

* **Launcher.** `Lab.start` advances the generation last. A Start by another way
  than the window's button (the control port's `start`, the end of an
  installation or of a download) may so overlap an earlier launch: its old
  startup may still publish an endpoint, its old handoff start the flight
  controller; with three launches an endpoint can be left listening. (The
  observer `overlapped` of `LabLifecycle` marks these behaviours; see section 6.)
  A failed update check resets a running download's flag. Stop does not cancel
  an installation, after which Start is enabled although a lab runs. A failed
  relaunch through the control port leaves the panel "running"; "ERR timeout"
  does not take its command back.
* **USB.** A panel whose USB start fails detaches every ESCSim device of the
  machine. A blanket detach reads identities before it writes ports, and stops
  at the first port refused. `import_device` spins if the server closes within
  the first 8 bytes. An explicit port is trusted as given.
* **Panel.** Zero throttle does nothing while the slider lags a waveform.
  `type_changed` sets the type before the value. An editor's late copy of a
  resent `set` can overwrite what others stored. A replayed log commands DShot
  1000 for a moment, since `ds_value` is logged before `ds_type`. Two quick changes
  of pace may arrive in the other order.
* **4-way session.** A copy of a request that comes before the request is read, or
  when its answer is already on its way (after the drain, `msp_stub_fc.py:700`), is a
  new request for the code: it is answered again and shifts the later responses of a
  client that gave nothing up. RUN is sent once and unacknowledged when the interface
  is left (`fourway.py:210`), on a wire that may lose it (`fourway_server.py:293`): an
  ESC in touch can stay in its bootloader while DShot resumes. Repeats are told by
  their bytes (`:703`); two equal requests in succession, the second taken for a repeat
  of the first, are outside the model, which compares requests.
* **CAN.** `enabled` is read twice per pass, and the thread may die of it;
  unchecking one of two panels cuts neither commands nor arming; "saved, node
  restarted" is posted even without an answer.
* **Capture bench.** A late probe answer can be saved as settings
  (`capture_session.py:463`). Closing the window in the middle of a capture leaves
  the motor at its last value (`SITL/scripts/README.md:84`). A second SIGTERM cuts the
  final zeros short. `Session.connect` clears an abort pressed before its worker
  began. The rate a flight controller had is not restored on every path
  (`esc_capture_gui.py:13`). The last flush of the log is outside the writer's `try`
  (`esc_measure.py:57`): when it fails, the thread ends with a traceback, `write_error`
  stays empty and `close()` returns as if the file were complete (`CaptureLog`, the
  observer `unflushed`). `now()` of the simulated clock reads `t_ns` under the lock and
  `t0_ns` after it (`sim_clock.py:147`, `:155`): a rebase in between makes it return a
  value that is too large, and the next one goes back, although the rebase is there "so
  now() continues smoothly" (`SimClock`, the observer `ahead`). Only a value that is
  waited for before the profile is armed can be of that kind.
* **Flash.** A torn flash file refuses every later start until it is deleted; a
  trampoline in erased flash disables the fast path; a patch cut short by Stop
  makes the next launch a factory reset.
* **Files.** A start killed while it copies a packaged motor model leaves a
  truncated file that is never replaced; the editor rounds values stored as
  integers. `find_bootloaders` compares versions as text. Overlapping HEX
  records are merged in address order.
* **SITL bench.** After a refused detach the mode shown is the new one while the
  panels stay locked. `connected` and `reset_done` of the serial bridge last as
  long as it does. `sitl_tones print` stops after 4096 events.

## 4. Bounds, and why they are enough

The theorems of section 6 hold for every value of the constants; for what is
only model-checked, the bounds are these.

* `UsbSleep`: `MaxSleeps = 2`: a sleep, its wake and a second sleep in quick
  succession is what the watcher's single pending slot has to survive. Two
  clients on one port: one lease in a state of a loop and one being acquired.
  Two leases at once are left to the proof, which has any number.
* `LabLifecycle`: `MaxStarts = 2`: the code knows "my launch" and "another one".
  `MaxUpsets` counts sleeps, exits, devices that leave, ports that are never
  bound, refused detaches and the end of the program: one in `lab` (and none
  where a mode is in `Quiet`: there only users act), two in one launch in
  `devices`. `MaxDownloads = 1`: a device's manifest timer is started once.
* `UsbipServer`: `Buffer = 1` blocks a send; `MaxUrbs = 2`: one URB completed while
  another is unlinked; two bytes and lengths 1 and 2: a write split over two
  reads, or over a read and what is held; two sessions: what one host leaves to
  the next; OUT data is not kept. `devices` has one session of it, reads of length 1
  and a receive buffer of one byte that can be full.
* `devices`: two hosts of the DFU device and images inside a sector, over two,
  at the end of flash and beyond it; two ESCs; two motor commands; four frames of
  a 4-way client - the passthrough, a request, its repetition and the next one;
  four bytes on the single wire in chunks of two.
* `host`: two processes on each store, each of which may die; two versions; two
  targets, two downloads under way; three questions on the monitor and one
  change of its answer; two ESCs on the bench with a reboot; one fault and two
  retries on the link; four lines of targets.h with nested conditionals; three
  lines on the control port from two clients.
* `panel`: three acts of a user on a throttle with a queue of three commands;
  three launches of a simulator; two panels on two ports; two lives of a
  simulation with a window of three samples; two workers and three acts on the
  capture bench; four resets; three starts of one flash; two CAN panels; two
  clients on the ports of a machine, beside others.

Mutations show that each bound lets its case happen: every property of a passing
run is broken by a plausible bug within the run's own bounds.

## 5. Fairness

* Threads that wait for `UsbSleep.lock` or `send_lock` get it although others
  take it in between: strong fairness (`threading.Lock` promises no order but
  does not starve a waiter for ever). In the parts `lab` and
  `usbip` of `devices` weak fairness is enough for all but the server thread, since
  the others wait for no lock that is taken again and again.
* The Qt thread dispatches its events: weak fairness, and only in the
  properties of `usb_sleep` that need it (`QtFair =>`). `CancelledAttachReturns`
  must hold without it, since Stop may be what keeps the Qt thread busy.
* The kernel finishes a detach it has accepted, and its USB/IP receiver reads
  what it is sent: a host that never reads, behind which `close`, and so Stop on the Qt
  thread, would wait for `send_lock`, is excluded by this and not covered by `Ends`. A
  client that has connected asks for something or hangs up.
* In the other parts of `devices`: a DFU host that has begun goes on, timers fire, the DShot and MSP
  threads run, a 4-way client that waits reads what it is sent.
* Nothing is assumed of users, of logind (a sleep may stay in preparation for
  ever), of emulators, networks or other applications. `host` and `panel` check
  safety only and assume no fairness.

## 6. Proofs

Twenty-two parts have proofs, for every value of their constants: any clients, ports
and sleeps; any launches, downloads, upsets and modes; any ESCs and commands, frames
and repetitions of a configurator, any bytes on the single wire, any flash, images and hosts of a DFU loader;
any URBs, bytes, lengths and sessions; any descendants of a process; any
processes on a store, any releases, sources, headers and versions; any commands on
a monitor's connection, any clients and lines of a control port, any targets,
threads and images of the launcher's window, any ESCs, inputs and devices of a SITL
bench, any chunks, probes and faults on a wire, any workers and sessions of a capture bench, any recipe of a
benchmark, any clock of a measurement, any firmwares of a flight controller and
resets of an ESC.

| Module | Theorem | Says |
|---|---|---|
| `UsbSleepProofs` | `TypeCorrect` | `[]TypeOK`; a port is kept exactly while an attachment counts as attached |
| | `NoLeak` | a device of ours that was not told to leave is reachable through its owner's lease |
| | `NoneStranded` | no lease is left suspended behind a cleared sleeping event |
| | `InhibitorHeld` | the inhibitor is given back only when every lease is suspended and none is being taken, or a detach failed |
| | `Refinement` | `UsbSleep` implements `UsbLease` |
| `LabLifecycleProofs` | `LabTypes` | `[]TypeOK`: threads are at places of their kind |
| | `ImportsKnown` | `[]NoLostImport`: every import is known to the launcher or held by the thread that has just made it |
| | `EndpointsHaveOwners` | `[]EndpointsOwned` |
| | `EndpointCurrent` | `[]PublishedIsCurrent` |
| | `ProcessesCurrent` | `[]RunningIsCurrent` |
| `UsbipServerProofs` | `ServerTypes` | `[]TypeOK`: queues, lock and threads agree |
| | `HostsApart` | nothing of an earlier host reaches this one |
| | `Settled` | every URB is answered at most once, none is forgotten, unlinks are truthful |
| | `StreamInOrder` | a host reads what was written, in order, nothing left out or held back |
| `FcMotors` | `WiresApart` | no DShot frame while the 4-way side has bytes on a wire, but for a RUN that outlived its wait |
| | `ThrottleSafe` | throttle only to ESCs that were commanded and have armed |
| `ProcessTree` | `TreeEnds` | when stop returns nothing is left but what broke away from its job |
| | `OrphansOnly` | on Windows something is left only if the leader had ended before or taskkill missed it |
| `MCDevices` | `ClientInStep` | `[]InStep`: a configurator that has given no request up, and repeated them only while they were in work, reads the answer of the one it waits for |
| | `ExitsRelease` | `ExitReleases`: when such a configurator has left the 4-way interface, every ESC whose bootloader answered last was sent RUN - it runs its application, or the wire lost that frame |
| | `DfuIsSafe` | the loader tells the launcher once; manifestation begins only when the whole image of the host that asks for it is in flash; a host reads back what it wrote |
| | `EchoIsHonest` | `[]EchoHonest`: a client of the single wire gets every byte it sent back, once and in order, and an answer only behind the echo of its command |
| | `DevicesTyped` | `[]TypesOK`: each of the four is in a state of its types; no output is enabled in 4-way mode, no frame of the session names an ESC there is not, no pending chunk is empty |
| `MCHost` | `StoresHonest` | a release in the index is there, and of one build; what a client installs is what the manifest it read names; an entry of the targets.h index was served by its source, a document comes from where it says |
| | `StepsKept` | no step changes or loses a published file or release, replaces a Renode directory somebody was given, or selects one that is not whole |
| | `AnswersTheirOwn` | a sample is an answer to the metrics thread and what the USB watch acts on was true after it asked; a reply of the control port is to the line it follows; a write on the bench's wire is executed once, its echo handed over once, an answer only behind its echo |
| | `WindowIsWhole` | what runs is of the target that was started, with its artifacts, the protocol shown and panels that fit; the bootloader shown is the one used, a file that was picked stays picked; the window is never without a button that works; what runs has the settings of the control port; the SITL bench's one USB device owns the wires, is known, and is gone when the bench closes |
| `MCPanel` | `BenchIsSafe` | `[]BenchSafe`: a capture hears every abort, sends at most the command on its way after it, and ends with the motor stopped or the user warned; a benchmark commands its stages while it runs, captures at the settled pace, ends at zero |
| | `SavedIsKept` | a measurement's clock goes back only from a value that a rebase overtook inside `now()`, and never in an armed profile; a reset leaves what is saved in the EEPROM, but a v203 binary's sibling; the firmware that is in the flash already keeps its settings |

`UsbipServer`, `FcMotors` and `ProcessTree` are checked by runs of `MCPanel`,
`MCDevices` and `MCHost`. There `UrbsOnce`, `StreamInOrder`, `DshotApart`, `ThrottleCommanded` and `TreeEnds` carry the
theorems over to the runs' own properties: a behaviour of the run, seen through
the variables of one part, is a behaviour of that part (`ServerBehaves`,
`FcBehaves`, `TreeBehaves`), since the other parts' steps leave these variables
alone. The proofs about the three stores - `ArtifactRepository`, `RenodeCache`,
`TargetsSource` - and about `FcMonitor`, `ControlPort`, `SerialLinker`, `LauncherWindow`, `ImageChoice` and
`EscFleet` are in `MCHost` itself, about its instances of them, those about `FourWaySession`, `DfuDevice` and
`DirectBridge` in `MCDevices`, those about `CaptureBench`, `BenchRecipe`, `SimClock`, `BootPlan` and `FcFlash` in
`MCPanel`. Of constants, `UsbSleepProofs` and `LabLifecycleProofs` assume what the
modules they extend assume; `UsbipServerProofs` assumes `ConstantsOK` - natural
numbers, and reads that ask for at least one byte - which `ServerConstants`
proves of the run's values; `MCHost` assumes `HostAssumption` - nobody is named
`"free"`, which is how a lock that nobody holds is written, no header is the one that
does not parse, the release with its elf under another name is a release, the default
source is a source, the last chunk is a natural number, no target is called `"none"`, one
ESC is a choice of the window, the SITL bench has ESCs and its inputs are theirs, and
bootloader files and releases are finite in number; `MCPanel` assumes
`PanelAssumption` - no worker is 0, which is how a session without a capture is
written, and a recipe has stages, the first of them at throttle zero, as every recipe
of `SITL/demag_bench.py` has, and a clock's bound is a natural number; `MCDevices` assumes `LoaderAssumption` - the flash has a size, and an
image a place and a length other than zero, without which a host would send no block - and `BoundsAssumption`: the bounds of the
session and of the single wire are natural numbers;
the others assume nothing.

### The arguments

**UsbSleep.** `NoLeakedImport` and `NoStrandedLease` hold because of what
`UsbSleep.lock` protects while the worker is inside its loops, and because
`sleeping` stays set from the start of `prepare` to the end of the `resume` that
visited every lease. `IInv` says so: `LockInv` (who holds the lock follows from
where the threads are; a client inside `attach` has no lease yet), `LoopInv` (every
lease `prepare` has not suspended is still in its list or is the one being waited
for; every suspended lease is in the list of `resume`, unless the program is
closing) and `QuietInv` (from the end of a `prepare` that did not raise until the
Qt thread handles it, all leases are suspended and none is being taken). The
refinement uses `IInv` for two steps: `Suspend` needs `LockInv`, `Reopen` needs
`LoopInv`.

**LabLifecycle.** None of the five properties is inductive alone: that an endpoint
is published by the current launch depends on where its thread stands when Stop
takes what is published. `IInv` has `DataOK` and `FlagsOK` (the data, and what the
flags say of one another), `Places` (which thread can be where, and that launches
to come have no threads), `RunShape` (what runs at each place of the Qt thread),
`Ends` (an endpoint that is open is at a place from which it is published or
closed; who has published has left the import behind) and `NoLostImport`. The
proof has a lemma for each group of places and one leaf for each action; the
attempt to prove `PublishedIsCurrent` in its first form failed for a good
reason - a Start that overlaps an earlier launch (section 3, observations) - and
TLC then found the behaviour. The observer `overlapped` now excepts exactly
those behaviours from `RunningIsCurrent`, `EndpointsOwned` and the second half of
`PublishedIsCurrent`. Nor does a Stop or an exit advance the generation and take
the endpoint at once: the code does so in two lock regions with calls to monitors
in between (gui.py:1441-1461), where the endpoint of a launch that is over is still
published. The invariant says that this is the only such time (`pc[Qt]` is
"void"), overlap or not: no thread publishes for a launch that is void.

**UsbipServer.** That a URB is completed once is not inductive: an unlink that
finds nothing is honest because the URB it names was submitted ahead of it. `IInv`
says where a URB may be - in the inbox, queued, with the interrupts, in the reply
under `send_lock`, completed - that it is in one place at a time, and that the
command which submits it is ahead of every other that names it. For the stream,
`SInv` adds that no read waits while bytes are held, and that the pieces - what the
host got, the reply, what is held, what the writer still has - end and begin at
the same place. The lemmas `Meet` and `Divide` about sequences that follow one
another do the work where a chunk is cut off or added.

**FcMotors.** The DShot thread may be in the middle of a burst while the MSP thread
goes in and out of 4-way mode. `ModeInv` ties the mode to the place of the MSP
thread, `WireInv` says whose the bytes on a wire are, `ArmedInv` that what was seen
armed is armed outside 4-way mode, and `FreshInv` that a snapshot which is still
fresh was made outside 4-way mode, of such ESCs.

**FourWaySession.** A frame may be taken, worked on and answered while copies of it
arrive. `Places` says that for a client in time - one that has given nothing up and
repeated a request only while it was in work (`InTime`) - there is one request under
way and it is in one place - the link, a buffer, in work, answered - and that the link
holds copies only while it is in work or its answer is not written; the frames dropped
then (`_fourway`) are these. What a client was late with stays in `late`, so who is in
time has always been (`InTimeBefore`). For the exit, `Left` adds that an ESC in touch is
connected until the interface is left, and from then on runs its application, or is one
that the wire kept RUN from (`unheard`), while the thread is on its way out: with one
request under way no frame can follow the exit into the session it ends.

**DfuDevice.** A request that the device refuses looks like any other until the next
status, and what an earlier host left - an error, a pointer, a scheduled manifest - is
there when the next one begins. `At` therefore says where a host stands under the
condition that its request went well, `Written` that the blocks before the one it is at
then hold its data, at the pointer it has set, and `Told` that the launcher is told only
by a timer that was started once.

**DirectBridge.** Echoes leave the bridge by three ways - the emulator's marker, in front
of an answer, by the clock - and a chunk may go in parts. `WireKept` says that what the
client was written, without the answers, and what is pending are together the bytes that
were read, and that whatever is on the wire or answered was read before; so an answer,
which goes behind all that is pending, finds its echo there. The lemmas are about the two
recursive functions: that the echoes of what is joined are joined (`EchoesJoined`,
`FlattenedJoined`, each by a least counterexample), and that what is released by count
and what is left make up the list (`Dribbles`), and that a chunk which has gone in part
is not empty (`DribblesPieces`).

**Types of the devices.** The loader's and the motor outputs' are parts of their
invariants. A session's frames are numbered by what was sent, so `SessionOK` adds that
requests are at most as many as frames, and that a frame of a kind which names an ESC
names one of those there are - which is what keeps the target and the list of ESCs in
their loaders inside the set. `WireTyped` says that no pending chunk is empty; it needs
nothing of `WireKept`, since all that is done to the bytes is cutting and joining.

**ProcessTree.** `IInv` says what stop has ended at each of its places; since a
process is started only by a living one, a tree that is down stays down.

**ArtifactRepository.** The publisher writes parts, then the manifest, then the
index, and may die anywhere; the lock is its only protection against others.
`RepositoryInv` says that whoever has a job holds the lock, and what stands behind
the job at each of its places (`PublisherInv`): the parts its manifest names are
stored with that content (`Whole`, `Backed`), or are the ones still to be written,
and the manifest it is about to put in the index is the stored one. `Backed` stays
true since a file is written only where there is none (`FilesStay`). `ClientInv`
carries this through the client's three fetches over its own cache: a manifest it
remembers and a file it has are of a build that was published, however long ago
(`OneBuild`). The invariant is needed because a client reads index, manifest and
files at different times, between which anything may be published.

**RenodeCache.** `RenodeInv` says that what a process is about to select is a
package of the version it asked for, verified and still so unless it was damaged
from outside since: an install is a rename to a name nobody has, so no other install
touches it.

**TargetsSource.** Two processes load, change and save one index without a lock, so
the index on disk may be older than what either has seen. `SourceInv` says that
nevertheless every index anywhere - stored, or in the hands of a process - names
only headers that are stored and that their source once had (`Records`), and that the
source a process is about to persist is in the stored index or was raced
(`CallInv`). It holds since stored headers and what a source once had only
grow (`SourceGrows`).

**FcMonitor.** The watch's answer may come after it was given up, and is then in the
way of the next. `NothingOld` says that as long as none was: what the watch has asked
and not used is in one place only - with the emulator, in the socket, or read - is
its last question, and so was answered after it was asked. `OneReader` says that who
reads holds the lock, and `AnswerRead` that the watch stops reading at its answer,
which is no older than its question.

**ControlPort.** A line is taken, and a reply sent, long after one another: the window
answers from its own thread, and a target may be resolved in between. `UnderWay` says
that everything on the way - what waits for the window, what it is busy with, what it
has done - carries the number and the verb of a line its client sent, and `Waits` that
a client which waits, waits for the last line it sent. That what runs has the settings
shown (`RunSettled`) is inductive as it stands: only a stop, a start and a setting, which
is refused while something runs, touch either.

**SerialLinker.** A chunk may be delivered twice in one burst, joined with another,
or the probe sent again. `LinkerInv` follows every chunk after the first through the
two ways it goes: on the wire it is in one place, once, and not yet executed
(`OnWire`); its echo is in one place, once (`InEcho`); and none that was not sent is
anywhere (`Unsent`). Only a bridge that has heard nothing sends again, and then the host
has sent nothing but the probe (`Connects`). For the order of answers, `BurstsTold` says
that whatever is on the wire has its echo due or handed over, and `AnswersTold` that an
answer that was handed over had its echo before it.

**LauncherWindow.** Handlers are functions of the window that call one another, and a
command reaches one while its widget is disabled. So `Fits` and `Alive` are stated of
any window, and the lemmas say what each function keeps: `Fits`, that the protocol
is the flight controller's exactly when there is one, that the panels are those of lab's
target, and that what runs is of the protocol and panels shown, with the boxes that
change them disabled - but for a target resolved since, which is `drift`; `Alive`, that
Start or Stop is enabled or a thread that enables them is on its way. `Rebuilt` has to
follow every change of protocol and count for the panels to fit.

**ImageChoice.** A bootloader is chosen before the catalog is there, and installed long
after. `ImagesInv` says that no release is listed without a catalog - so what is being
installed was chosen with one, and nothing refills the boxes meanwhile - that what is
installed is what is shown, and that what was picked is a file. What the boxes list is a
sequence because files and releases are finite (`FilesListed`, `ReleasesListed`); an
image is found where it is (`Found`, from the least number of a set, `Least`); and the
releases that are taken off the list leave the rest (`LeftOver`). This last is a
recursive function, and its proof shows that the function exists and what it returns by
a least counterexample, since theorems of induction take an operator.

**EscFleet.** The worker that brings a device up outlives the choice that started it, and
a detach may be refused. `FleetInv` says that the panels are locked and nothing is driven
that the mode forbids while a device is served or being made (`Owns`), that a device the
kernel has is the one the window knows (`Single`), that a result in the queue of the
start that was not cancelled is true (`Reported`), that what is shown as up is there
(`Shows`), and what is left at each step of closing (`Closing`, `Down`).

**CaptureBench.** An abort may fall anywhere between the making of a backend and its
end, and `run_step` takes the backend away from `abort()` before it winds the motor
down. `Reached` says that a backend a session has is that of a capture of this session,
short of its wind down, and that it has heard an abort the session has; `Sound` what a
worker may be at each of its places - only one past its preflight gives the motor
anything but zero, the one command that goes out late is the last before `spin_for`
sees the abort - and `Turning` that a motor which turns has a capture that will wind it
down, or the user was warned. A capture that runs beside another (finding 5) does not
break them.

**BenchRecipe.** What a stage commands, its load and what is armed depend on samples
that may be old or from a simulation before. `PaceSettles` is what makes `RecipeKept`,
`EndsQuiet` and `CaptureSettled` inductive: once the fine pace was asked for, no
deadline of this benchmark is earlier than its settling.

**SimClock.** `now()` takes the time and the start of the measurement in two steps, and
the reader may move the start in between. What has been shown bounds what will be:
`ClockInv` says that, while the measurement runs, the value shown last is at most the
newest sample's distance from the start, unless a rebase overtook the call that showed
it (`ahead`) or a restart was seen that ends the measurement; and that a call under
way has a time that is no later than the newest sample's, unless it was overtaken
(`rebased`). A restart before the measurement is armed moves the start, so that the
distance stays what it was; once it is armed nothing moves it, and the tool arms
outside `now()`, so no call of an armed profile is overtaken (`ClockKeeps`).

**BootPlan.** What a reset keeps depends on commands the boot script ran long before.
Only a v203 loads on a reset. `BootInv` says that what is left of its script ends as
every such script ends (`EndsAsTold`, which `Scripts` proves of each of its branches),
and what the commands that are done have left in the flash and in the macro
(`Loaded`): then what the reset loads is what is there.

**FcFlash.** Between two starts a flash may be patched, killed over or written by DFU.
Patches that are whole are undone before the firmware is compared, and stale ones are
where no image is; so `select_firmware` returns the file that is there, with its
settings. `FlashInv`, the shape of file and memory, is all it needs.

### Model-checked only

* Liveness under fairness (`AttachEventuallyDecided`, `SleepEventuallyReleased`,
  `CancelledAttachReturns`, `QtReturns`, `CancelledStartupEnds`, `Ends`,
  `GetsAnswer`, and the eventualities of `DevicesGoOn`): beyond the
  prover's temporal backend, which also does not know ENABLED.
* What a recursive definition computes for every input (the expression language
  of `TargetMacros`, the shapes of `HexImage`): induction over data needs theorems
  that take an operator, which the installed provers cannot instantiate. Hence
  `StoresHonest` excepts the part `macros`, whose property `LikeC` is of that kind.
  `AnswersTheirOwn` excepts the part `dshot`, whose frames are built and read bit by
  bit, with powers of two and folds. `WindowIsWhole` excepts `AutoFits` of the part
  `images`, which file auto finds: a matter of the order of a sorted list, and sorting
  is an operator the provers cannot look into.
* `TypesOK` of `MCHost` and `MCPanel`, but for the types the invariants above
  contain, and the other parts of `MCHost` and `MCPanel`: not proved yet.
* The violations, which are counterexamples.

## 7. What is not modelled

`components` of `PROJECT.json` says it part by part. In short: drawing and layout
of windows, arithmetic on recorded data, floating-point simulation (`src/native`),
the C# peripherals that Renode schedules, packaging and deployment have no
control state within reach of a model checker. Of modelled parts, texts, logs and
formats are left out, as are the configurator on a serial pty and the metrics
threads of `Lab`, DroneCAN arming and telemetry, and validators of artifacts.
`SITL/sitl_gui_backend.py`, `SITL/sitl_usbip.py` and `SITL/msp_stub_fc.py` are older
copies of modules of `src/src/escsim`, of which those are modelled.

## 8. Correctness, part by part, and the plan

| Part | What makes it correct | Checked | Proved |
|---|---|---|---|
| USB sleep leases | nothing imported is out of reach; nothing sleeps through; nobody waits for ever; others' devices are left alone | `usb_sleep`, finding 1 | all but liveness |
| Launcher | every import, endpoint and process belongs to somebody who will end it; only the current launch acts; Stop returns | `lab`, `devices`, finding 2 | all but liveness |
| USB/IP server | one answer to each URB; order of bytes; sessions do not mix; close ends it | `panel`, `devices` | all but liveness |
| Flight controller | no DShot frame inside a serial transaction; throttle only after arming; outputs resume | `devices` | the first two |
| 4-way session and bridge | answers stay in step for a client that repeats what is in work; an exit sends RUN to every ESC in touch; every byte is echoed once | `devices`, finding 3 | all but liveness |
| DFU device | a download is written whole and manifests once, whatever an earlier host left | `devices` | all but liveness |
| Process trees | nothing is left when stop returns | `host` | yes |
| Monitor, control port, bridge, input port | an answer goes to its own question | `host` | all but the input port |
| Artifacts, Renode cache, targets.h | what is read fits together across crashes; what is in use is never replaced; read as a C compiler reads it | `host` | all but the last |
| Window and image boxes | what runs is what was picked; the window is never dead | `host`, finding 4 | all but which file auto finds |
| SITL bench | the USB device owns its wires, is known, and goes first | `host` | yes |
| Panel | no stray command, one simulator, a truthful USB switch, replay reproduces, edits are exact | `panel` | |
| Scope and sounds | a capture is whole; it should be of one life, and is not (finding 7); notes recorded were played | `panel`, finding 7 | |
| Capture bench and its record | aborts are heard; the motor ends at rest or the user is warned; the record is in order, and what is on disk is how it began; its clock does not go back in a profile | `panel`, finding 5 | all but the record's order |
| SITL benchmarks | the recipe's stages are commanded, captured when settled, and end at zero | `panel` | yes |
| Generator and flash | what starts is what was asked for; saved settings outlive resets | `panel`, finding 6 | what is kept |
| USB ports of a machine | a port is the one that was told; others' devices are kept | `panel` | |

Next, in modules that hold proofs already:

1. Of `MCPanel`'s: `CaptureLog` (`LogOrdered`).
2. Of `MCHost`'s: `AutoFits` of the image boxes, once sorting is written as an operator
   that can be expanded.
