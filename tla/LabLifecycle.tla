---------------------------- MODULE LabLifecycle ----------------------------
(***************************************************************************)
(* escsim/gui.py, class Lab: one launch of the emulators and the USB       *)
(* device that goes with it, from Start to Stop, unexpected exit or next   *)
(* Start.                                                                  *)
(*                                                                         *)
(* Threads: the Qt thread (start, stop, saw_log_line) and, per launch, the *)
(* startup thread (_wait_ready and _start_stub or _start_fc_endpoint), the *)
(* DFU handoff (_dfu_manifest, on a timer of the DFU device) and the watch *)
(* thread (_watch_fc_usb).  lifecycle_lock makes single steps atomic; what *)
(* holds them together is `generation', which start, stop and an exit      *)
(* advance and every thread compares with the value it was started with.   *)
(*                                                                         *)
(* The imports themselves are UsbSleep's: its promise is UsbLease, whose   *)
(* actions are the lease steps here.  UsbSleep.lock is held exactly while  *)
(* an import is in flight ("acquiring") and for the length of one step.    *)
(*                                                                         *)
(* Left out: the configurator port "off"/"serial", monitors and metrics.   *)
(***************************************************************************)
EXTENDS Naturals, FiniteSets

CONSTANTS
    Modes,          \* "stub": USB device of the launcher's own; "flash": of
                    \* the flight controller's firmware; "dfu": factory DFU
                    \* first, the firmware's after a download
    MaxStarts,      \* bound: launches
    MaxDownloads,   \* bound: DFU downloads of the host
    MaxUpsets,      \* bound: sleeps, exits, devices leaving, ports not bound,
                    \* processes not started and the end of the program
    Quiet           \* bound: the modes whose later launches are explored only
                    \* when nothing of that kind happens

ASSUME ModeAssumption ==
    /\ Modes \subseteq {"stub", "flash", "dfu"}
    /\ MaxStarts \in Nat /\ MaxDownloads \in Nat
    /\ MaxUpsets \in Nat /\ Quiet \subseteq Modes

Launches == 1..MaxStarts

\* The threads that own an import.
Kinds ==
    {"start"} \cup (IF Modes = {"stub"} THEN {} ELSE {"watch"})
              \cup (IF "dfu" \in Modes THEN {"handoff"} ELSE {})
Owners == Kinds \X Launches

Startup(n) == <<"start", n>>
Handoff(n) == <<"handoff", n>>
Watch(n) == <<"watch", n>>
Qt == <<"qt", 0>>
Threads == Owners \cup {Qt}
None == <<"none", 0>>

VARIABLES
    mode,           \* which of Modes the configuration asks for
    generation,     \* Lab.generation: whose it is, or 0 once it was advanced
    launches,       \* launches that were given a generation
    group,          \* Lab.runner: each launch's entries in the list of processes
    fc,             \* Lab.fc_runner: the launch whose flight controller runs, or 0
    fcRequired,     \* Lab.fc_runner_required
    startFailed,    \* Lab.start_failed
    ready,          \* Lab.emulator_ready
    stopped,        \* Lab.status is "stopped"
    stub,           \* Lab.stub: the owner of the published endpoint, or None
    open,           \* the endpoints that are listening, by owner
    starting,       \* Lab.usb_starting: the startups that may hold an import
    usbPorts,       \* Lab.usb_ports: the leases the launcher knows of
    lease, gate, ended, \* UsbSleep, as UsbLease describes it
    gone,           \* leases whose device has left its port
    pc,             \* where each thread is
    held,           \* the stub each thread took to close it, or None
    cleanupError,   \* that thread's _stop_stub could not detach a lease
    qtJob,          \* what the Qt thread is doing: "start", "stop" or "exit"
    raised,         \* startups that raised
    lines,          \* lines of the emulators still in log_q
    overlapped,     \* observer: a Start went on while the launch before it was
                    \* still the current one
    upsets          \* bookkeeping for MaxUpsets

gens    == <<generation, launches>>
procs   == <<group, fc, fcRequired>>
flags   == <<startFailed, ready, stopped>>
stubs   == <<stub, open, held, cleanupError>>
leases  == <<lease, gate, ended, gone>>
books   == <<starting, usbPorts, raised>>
ui      == <<qtJob, lines>>
launcher == <<gens, procs, flags, ui>>
kept    == <<mode, overlapped, upsets>>
vars    == <<launcher, stubs, leases, books, pc, kept>>

Lease == INSTANCE UsbLease WITH Owners <- Owners

-----------------------------------------------------------------------------
(* Shared parts.                                                           *)

\* The threads only compare the generation they were given with the present
\* one, so what counts is whose it is.
Current(t) == t[2] = generation

\* ProcGroup.running and all_running: entries of an earlier launch that
\* died on their own stay in the list until the next stop.
Listed == {n \in Launches : group[n] # "out"}
GroupRunning == \E n \in Listed : group[n] # "dead"
GroupAllRunning == Listed # {} /\ \A n \in Listed : group[n] = "all"

AllRunning == GroupAllRunning /\ (fcRequired => fc # 0)

\* UsbSleep.lock is free.
LockFree == \A o \in Owners : lease[o] # "acquiring"

Goto(t, l) == pc' = [pc EXCEPT ![t] = l]

\* UsbSleep.port_attached
Attached(o) == lease[o] = "suspended" \/ (lease[o] = "live" /\ o \notin gone)

\* Lines that killing a process puts into log_q.
ExitLines(n) == IF group[n] \in {"all", "some"} THEN {<<"exit", n>>} ELSE {}
FcExitLine == IF fc # 0 THEN {<<"exit", fc>>} ELSE {}

\* runner.stop(); fc_runner.stop()
StopRunners ==
    /\ group' = [n \in Launches |-> "out"]
    /\ fc' = 0
    /\ lines' = lines \cup FcExitLine \cup UNION {ExitLines(n) : n \in Launches}

\* The first half of _stop_stub, under lifecycle_lock: the published stub is
\* taken, and USB leases are waited for only if any is known.
TakeStub(t) ==
    /\ held' = [held EXCEPT ![t] = stub]
    /\ stub' = None
    /\ cleanupError' = [cleanupError EXCEPT ![t] = FALSE]
    /\ Goto(t, IF usbPorts # {} THEN "drop" ELSE "close")

\* Mutant: a refused lease is forgotten.
DetachForgetsRefused(S, refused) ==
    /\ refused \subseteq {o \in S \cap usbPorts : lease[o] = "live" /\ o \notin gone}
    /\ lease' = [o \in Owners |->
                    IF o \in (S \cap usbPorts) \ refused THEN "none" ELSE lease[o]]
    /\ usbPorts' = usbPorts \ S
    /\ gone' = gone \ ((S \cap usbPorts) \ refused)

\* _detach_owned_usb on each lease of S under UsbSleep.lock; those of
\* `refused' stay known.  An empty port needs no detach and cannot be refused.
DetachOwned(S, refused) ==
    /\ refused \subseteq {o \in S \cap usbPorts : lease[o] = "live" /\ o \notin gone}
    /\ lease' = [o \in Owners |->
                    IF o \in (S \cap usbPorts) \ refused THEN "none" ELSE lease[o]]
    /\ usbPorts' = usbPorts \ (S \ refused)
    /\ gone' = gone \ ((S \cap usbPorts) \ refused)

\* The second half of _stop_stub, up to closing the stub.
DropLeases(t) ==
    /\ pc[t] = "drop"
    /\ LockFree
    /\ \E refused \in SUBSET usbPorts :
           /\ DetachOwned(usbPorts, refused)
           /\ cleanupError' = [cleanupError EXCEPT ![t] = refused # {}]
    /\ Goto(t, "close")
    /\ UNCHANGED <<launcher, stub, open, held, gate, ended, starting, raised>>

\* Mutant: the startups in flight are waited for.
CloseAfterStartups(t) ==
    /\ starting = {}
    /\ open' = open \ {held[t]}
    /\ held' = [held EXCEPT ![t] = None]
    /\ cleanupError' = [cleanupError EXCEPT ![t] = FALSE]

\* stub.close(), the end of _stop_stub.
CloseHeld(t) ==
    /\ open' = open \ {held[t]}
    /\ held' = [held EXCEPT ![t] = None]
    /\ cleanupError' = [cleanupError EXCEPT ![t] = FALSE]

Init ==
    /\ mode \in Modes
    /\ generation = 0
    /\ launches = 0
    /\ group = [n \in Launches |-> "out"]
    /\ fc = 0
    /\ fcRequired = FALSE
    /\ startFailed = FALSE
    /\ ready = FALSE
    /\ stopped = TRUE
    /\ stub = None
    /\ open = {}
    /\ starting = {}
    /\ usbPorts = {}
    /\ Lease!LInit
    /\ gone = {}
    /\ pc = [t \in Threads |-> IF t = Qt THEN "idle" ELSE "none"]
    /\ held = [t \in Threads |-> None]
    /\ cleanupError = [t \in Threads |-> FALSE]
    /\ qtJob = "none"
    /\ raised = {}
    /\ lines = {}
    /\ overlapped = FALSE
    /\ upsets = 0

-----------------------------------------------------------------------------
(* The Qt thread.                                                          *)

NextLaunch == launches + 1

UpsetsUpTo(launch) == IF mode \in Quiet /\ launch > 1 THEN 0 ELSE MaxUpsets

\* start, up to the close of what an earlier launch left; start_lab puts the
\* reason of a refusal into the status.
Start ==
    /\ pc[Qt] = "idle"
    /\ NextLaunch \in Launches
    /\ upsets <= UpsetsUpTo(NextLaunch)
    /\ LET refused == GroupRunning \/ fc # 0 \/ starting # {} IN
       \/ /\ refused
          /\ stopped' = FALSE
          /\ UNCHANGED <<stub, held, cleanupError, pc, qtJob, overlapped>>
       \/ /\ ~refused
          /\ TakeStub(Qt)
          /\ qtJob' = "start"
          /\ overlapped' = (overlapped \/ generation # 0)
          /\ UNCHANGED stopped
    /\ UNCHANGED <<gens, procs, startFailed, ready, lines, open, leases,
                   books>>

\* The rest of start, up to the running processes: refused while a lease
\* could not be detached or when a file, image or port cannot be prepared.
StartProcesses ==
    /\ pc[Qt] = "close" /\ qtJob = "start"
    /\ CloseHeld(Qt)
    /\ stopped' = FALSE
    /\ \/ /\ Goto(Qt, "idle")
          /\ qtJob' = "none"
          /\ fcRequired' \in IF cleanupError[Qt] THEN {fcRequired} ELSE {fcRequired, FALSE}
          /\ UNCHANGED <<group, fc, startFailed, ready>>
       \/ /\ ~cleanupError[Qt]
          /\ startFailed' = FALSE
          /\ ready' = FALSE
          /\ group' = [group EXCEPT ![NextLaunch] = "all"]
          /\ fc' = IF mode = "flash" THEN NextLaunch ELSE fc
          /\ fcRequired' = (mode = "flash")
          /\ Goto(Qt, "launched")
          /\ UNCHANGED qtJob
    /\ UNCHANGED <<gens, lines, stub, leases, books>>

\* A process cannot be started: the others are killed.
StartFails ==
    /\ pc[Qt] = "close" /\ qtJob = "start" /\ ~cleanupError[Qt]
    /\ CloseHeld(Qt)
    /\ startFailed' = FALSE
    /\ ready' = FALSE
    /\ group' = [n \in Launches |-> "out"]
    /\ fc' = 0
    /\ fcRequired' = FALSE
    /\ lines' \in {lines, lines \cup {<<"exit", NextLaunch>>}}
    /\ stopped' = FALSE
    /\ Goto(Qt, "idle")
    /\ qtJob' = "none"
    /\ UNCHANGED <<gens, stub, leases, books>>

\* Only now is the launch given a generation, and its startup thread.
NewGeneration ==
    /\ pc[Qt] = "launched"
    /\ generation' = NextLaunch
    /\ launches' = NextLaunch
    /\ pc' = [pc EXCEPT ![Qt] = "idle", ![Startup(NextLaunch)] = "connect"]
    /\ qtJob' = "none"
    /\ UNCHANGED <<procs, flags, lines, stubs, leases, books>>

\* The Stop button, or the end of the program.  (A Stop of the control port
\* while the button is disabled repeats what the last Stop has done.)
MayStop == pc[Qt] \in {"idle", "closing"}

\* Mutant: Stop hands out the generation the next launch will have.
StopTakesGeneration ==
    /\ MayStop
    /\ generation' = launches + 1
    /\ Goto(Qt, "void")
    /\ qtJob' = "stop"
    /\ UNCHANGED <<launches, procs, flags, lines, stubs, leases, books>>

\* The generation is advanced first; while stop speaks with the monitors of
\* the flight controller, what is published stays so.
Stop ==
    /\ MayStop
    /\ generation' = 0
    /\ Goto(Qt, "void")
    /\ qtJob' = "stop"
    /\ UNCHANGED <<launches, procs, flags, lines, stubs, leases, books>>

\* _stop_stub of Stop and of an exit, under lifecycle_lock again.
StopStub ==
    /\ pc[Qt] = "void"
    /\ TakeStub(Qt)
    /\ UNCHANGED <<launcher, open, leases, books>>

StopProcesses ==
    /\ pc[Qt] = "close" /\ qtJob = "stop"
    /\ CloseHeld(Qt)
    /\ StopRunners
    /\ fcRequired' = FALSE
    /\ ready' = FALSE
    /\ stopped' = ~cleanupError[Qt]
    /\ qtJob' = "none"
    /\ Goto(Qt, IF ended THEN "closed" ELSE "idle")
    /\ UNCHANGED <<gens, startFailed, stub, leases, books>>

\* saw_log_line of an exit: the line says nothing of the launch it is from.
SawExit(line) ==
    /\ pc[Qt] = "idle"
    /\ line[1] = "exit"
    /\ lines' = lines \ {line}
    /\ \/ /\ AllRunning
          /\ ready' = FALSE
          /\ UNCHANGED <<generation, pc, qtJob>>
       \/ /\ ~AllRunning
          /\ generation' = 0
          /\ Goto(Qt, "void")
          /\ qtJob' = "exit"
          /\ UNCHANGED ready
    /\ UNCHANGED <<launches, procs, startFailed, stopped, stubs, leases, books>>

ExitProcesses ==
    /\ pc[Qt] = "close" /\ qtJob = "exit"
    /\ CloseHeld(Qt)
    /\ StopRunners
    /\ ready' = FALSE
    /\ stopped' = (stopped /\ ~cleanupError[Qt])
    /\ qtJob' = "none"
    /\ Goto(Qt, "idle")
    /\ UNCHANGED <<gens, fcRequired, startFailed, stub, leases, books>>

\* saw_log_line of "could not bind the input port"
SawUnbound(line) ==
    /\ pc[Qt] = "idle"
    /\ line[1] = "unbound"
    /\ lines' = lines \ {line}
    /\ stopped' = FALSE
    /\ startFailed' = TRUE
    /\ UNCHANGED <<gens, procs, ready, qtJob, stubs, leases, books, pc>>

\* saw_log_line of "input port on udp", when every port is bound
SawBound ==
    /\ pc[Qt] = "idle"
    /\ GroupAllRunning
    /\ ready' = TRUE
    /\ UNCHANGED <<gens, procs, startFailed, stopped, ui, stubs, leases, books, pc>>

\* The end of main: the sleep handler is closed first, then Stop.
CloseProgram ==
    /\ pc[Qt] = "idle"
    /\ LockFree
    /\ Lease!End
    /\ Goto(Qt, "closing")
    /\ UNCHANGED <<launcher, stubs, gone, books>>

UserStep ==
    /\ \/ Start
       \/ /\ Stop \/ SawBound
             \/ \E line \in lines : SawExit(line) \/ SawUnbound(line)
          /\ UNCHANGED overlapped
    /\ UNCHANGED <<mode, upsets>>

\* What the thread does without another event.
QtStep ==
    /\ \/ pc[Qt] = "closing" /\ Stop
       \/ StopStub
       \/ pc[Qt] = "drop" /\ DropLeases(Qt)
       \/ StartProcesses
       \/ NewGeneration
       \/ StopProcesses
       \/ ExitProcesses
    /\ UNCHANGED kept

-----------------------------------------------------------------------------
(* The startup thread of launch n: _wait_ready.                            *)

\* The loops over the monitors end with greetings only, without one, or with
\* an error in a greeting.
ConnectMonitor(n) ==
    /\ pc[Startup(n)] = "connect"
    /\ \/ Goto(Startup(n), "check")
       \/ AllRunning /\ Current(Startup(n)) /\ Goto(Startup(n), "connected")
    /\ UNCHANGED <<launcher, stubs, leases, books>>

\* The error is put into the status without another look at the generation.
ReadGreeting(n) ==
    /\ pc[Startup(n)] = "connected"
    /\ stopped' = FALSE
    /\ startFailed' = TRUE
    /\ Goto(Startup(n), "check")
    /\ UNCHANGED <<gens, procs, ready, stubs, leases, books, ui>>

CheckStarted(n) ==
    /\ pc[Startup(n)] = "check"
    /\ Goto(Startup(n), IF ~Current(Startup(n)) THEN "done" ELSE IF startFailed THEN "kill" ELSE "bind")
    /\ UNCHANGED <<launcher, stubs, leases, books>>

KillFailed(n) ==
    /\ pc[Startup(n)] = "kill"
    /\ StopRunners
    /\ Goto(Startup(n), "done")
    /\ UNCHANGED <<gens, fcRequired, flags, stubs, leases, books, qtJob>>

WaitPorts(n) ==
    /\ pc[Startup(n)] = "bind"
    /\ \/ AllRunning /\ Current(Startup(n)) /\ ready' = TRUE
       \/ UNCHANGED ready       \* a failure, an exit, a Stop or the deadline
    /\ Goto(Startup(n), IF ready' THEN "settle" ELSE "unready")
    /\ UNCHANGED <<gens, procs, startFailed, stopped, stubs, leases, books, ui>>

CheckReady(n) ==
    /\ pc[Startup(n)] \in {"settle", "unready"}
    /\ Goto(Startup(n), IF ~Current(Startup(n)) THEN "done"
                        ELSE IF pc[Startup(n)] = "settle" THEN "begin" ELSE "giveUp")
    /\ UNCHANGED <<launcher, stubs, leases, books>>

GiveUp(n) ==
    /\ pc[Startup(n)] = "giveUp"
    /\ StopRunners
    /\ stopped' = FALSE
    /\ Goto(Startup(n), "done")
    /\ UNCHANGED <<gens, fcRequired, startFailed, ready, stubs, leases, books, qtJob>>

\* The handler of an exception that left _start_stub.
StartupRaised(n) ==
    /\ pc[Startup(n)] = "raised"
    /\ IF Current(Startup(n)) THEN TakeStub(Startup(n))
       ELSE Goto(Startup(n), "done") /\ UNCHANGED <<stub, held, cleanupError>>
    /\ UNCHANGED <<launcher, open, leases, books>>

StartupFailed(n) ==
    /\ pc[Startup(n)] = "close"
    /\ CloseHeld(Startup(n))
    /\ stopped' = FALSE
    /\ Goto(Startup(n), "done")
    /\ UNCHANGED <<gens, procs, startFailed, ready, stub, leases, books,
                   ui>>

-----------------------------------------------------------------------------
(* Bringing up the USB device: _start_stub, _start_fc_endpoint and         *)
(* _attach_firmware_usb, for an owner o that is a startup or a handoff.    *)

\* The launcher serves the device itself, or imports the firmware's.
ServesItself(o) ==
    o[1] = "start" /\ (mode = "stub" \/ (mode = "dfu" /\ ~fcRequired))

\* An exception: the startup undoes what it has done; the handoff only stops
\* the flight controller it started.
Raise(o) ==
    /\ raised' = raised \cup {o}
    /\ Goto(o, IF o[1] = "handoff" THEN "handoffFails" ELSE "undo")

\* The token is taken after the last look at the generation.
Begin(n) ==
    /\ pc[Startup(n)] = "begin"
    /\ starting' = starting \cup {Startup(n)}
    /\ \/ /\ ServesItself(Startup(n))
          /\ open' = open \cup {Startup(n)}
          /\ Goto(Startup(n), "gated")
          /\ UNCHANGED raised
       \/ /\ ServesItself(Startup(n))        \* the socket name is taken (Linux), or no socket
          /\ Raise(Startup(n))
          /\ UNCHANGED open
       \/ /\ ~ServesItself(Startup(n))
          /\ Goto(Startup(n), "usbReady")
          /\ UNCHANGED <<open, raised>>
    /\ UNCHANGED <<launcher, stub, held, cleanupError, leases, usbPorts>>

\* _wait_fc_usb_ready: the firmware enabled its USB device, or the wait
\* ended because of a Stop or an exit (return), or for another reason (raise).
WaitFirmware(o) ==
    /\ pc[o] = "usbReady"
    /\ \/ Current(o) /\ fc # 0 /\ Goto(o, "gated") /\ UNCHANGED raised
       \/ (~Current(o) \/ fc = 0) /\ Goto(o, "release") /\ UNCHANGED raised
       \/ Current(o) /\ fc # 0 /\ Raise(o)
    /\ UNCHANGED <<launcher, stubs, leases, starting, usbPorts>>

\* UsbSleep.attach: it may be held back by a sleep for any length of time,
\* and does not look at the generation.
Import(o) ==
    /\ pc[o] = "gated"
    /\ LockFree
    /\ \/ Lease!Acquire(o) /\ Goto(o, "importing") /\ UNCHANGED raised
       \/ ended /\ Raise(o) /\ UNCHANGED <<lease, gate, ended>>
    /\ UNCHANGED <<launcher, stubs, gone, starting, usbPorts>>

Imported(o) ==
    /\ pc[o] = "importing"
    /\ \/ Lease!Acquired(o) /\ Goto(o, "remember") /\ UNCHANGED raised
       \/ Lease!Refused(o) /\ Raise(o)
    /\ UNCHANGED <<launcher, stubs, gone, starting, usbPorts>>

\* _remember_usb: a sleep may have forgotten the lease in the meantime.
\* Then the serial device of a stub is looked for.
Remember(o) ==
    /\ pc[o] = "remember"
    /\ LockFree
    /\ \/ /\ lease[o] # "none"
          /\ usbPorts' = usbPorts \cup {o}
          /\ \/ Goto(o, "publish") /\ UNCHANGED raised
             \/ mode = "stub" /\ Raise(o)
       \/ /\ lease[o] = "none"
          /\ Raise(o)
          /\ UNCHANGED usbPorts
    /\ UNCHANGED <<launcher, stubs, leases, starting>>

\* Mutant: it does not look at the generation again.
StillWantedAnyway(o) ==
    /\ o \in open /\ mode = "stub" => AllRunning
    /\ o \notin open => fc # 0

\* What each startup checks under lifecycle_lock before it publishes.
StillWanted(o) ==
    /\ Current(o)
    /\ o \in open /\ mode = "stub" => AllRunning
    /\ o \notin open => fc # 0

Publish(o) ==
    /\ pc[o] = "publish"
    /\ \/ /\ StillWanted(o)
          /\ stopped' = FALSE
          /\ stub' = IF o \in open THEN o ELSE stub
          /\ pc' = [t \in Threads |-> IF t = o THEN "release"
                                      ELSE IF o \notin open /\ t = Watch(o[2])
                                      THEN "watch" ELSE pc[t]]
       \/ /\ ~StillWanted(o)
          /\ Goto(o, "undo")
          /\ UNCHANGED <<stopped, stub>>
    /\ UNCHANGED <<gens, procs, startFailed, ready, open, held, cleanupError, leases,
                   books, ui>>

\* Mutant: the endpoint is left listening.
UndoLeavesOpen(o) ==
    /\ pc[o] = "undo"
    /\ LockFree
    /\ \E refused \in SUBSET {o} : DetachOwned({o}, refused)
    /\ Goto(o, "release")
    /\ UNCHANGED <<launcher, stub, open, held, cleanupError, gate, ended, starting, raised>>

\* The finally block of a startup that did not publish: its lease is dropped
\* unless the detach is refused, and its endpoint closed.
Undo(o) ==
    /\ pc[o] = "undo"
    /\ LockFree
    /\ \E refused \in SUBSET {o} : DetachOwned({o}, refused)
    /\ open' = open \ {o}
    /\ Goto(o, "release")
    /\ UNCHANGED <<launcher, stub, held, cleanupError, gate, ended, starting,
                   raised>>

\* Mutant: the token stays when the startup was undone.
ReleaseOnlyPublished(o) ==
    /\ pc[o] = "release"
    /\ starting' = IF o \in raised \/ stub = o THEN starting \ {o} ELSE starting
    /\ Goto(o, IF o \in raised /\ o[1] = "start" THEN "raised" ELSE "done")
    /\ raised' = raised \ {o}
    /\ UNCHANGED <<launcher, stubs, leases, usbPorts>>

Release(o) ==
    /\ pc[o] = "release"
    /\ starting' = starting \ {o}
    /\ Goto(o, IF o \in raised /\ o[1] = "start" THEN "raised" ELSE "done")
    /\ raised' = raised \ {o}
    /\ UNCHANGED <<launcher, stubs, leases, usbPorts>>

BringUp(o) ==
    /\ pc[o] \in {"usbReady", "gated", "importing", "remember", "publish", "undo", "release"}
    /\ \/ WaitFirmware(o)
       \/ Import(o)
       \/ Imported(o)
       \/ Remember(o)
       \/ Publish(o)
       \/ Undo(o)
       \/ Release(o)

StartStep(n) ==
    /\ \/ ConnectMonitor(n) \/ ReadGreeting(n) \/ CheckStarted(n) \/ KillFailed(n)
       \/ WaitPorts(n) \/ CheckReady(n) \/ GiveUp(n)
       \/ Begin(n) \/ BringUp(Startup(n))
       \/ StartupRaised(n) \/ DropLeases(Startup(n)) \/ StartupFailed(n)
    /\ UNCHANGED kept

-----------------------------------------------------------------------------
(* The DFU handoff: _dfu_manifest.                                         *)

\* The host has downloaded an image; the device's timer fires 0.2 s later.
Manifest(n) ==
    /\ mode = "dfu"
    /\ Startup(n) \in open
    /\ lease[Startup(n)] = "live"
    /\ pc[Handoff(n)] = "none"
    /\ Cardinality({m \in Launches : pc[Handoff(m)] # "none"}) < MaxDownloads
    /\ Goto(Handoff(n), "manifest")
    /\ UNCHANGED <<launcher, stubs, leases, books>>

CheckHandoff(n) ==
    /\ pc[Handoff(n)] = "manifest"
    /\ Goto(Handoff(n), IF Current(Handoff(n)) THEN "handoff" ELSE "done")
    /\ UNCHANGED <<launcher, stubs, leases, books>>

BeginHandoff(n) ==
    /\ pc[Handoff(n)] = "handoff"
    /\ starting' = starting \cup {Handoff(n)}
    /\ stopped' = FALSE
    /\ TakeStub(Handoff(n))
    /\ UNCHANGED <<gens, procs, startFailed, ready, open, leases, usbPorts, raised, ui>>

\* Mutant: the generation is not looked at again before the start.
StartControllerAnyway(n) ==
    /\ pc[Handoff(n)] = "close"
    /\ CloseHeld(Handoff(n))
    /\ fc' = n /\ fcRequired' = TRUE
    /\ Goto(Handoff(n), "fcConnect")
    /\ UNCHANGED <<gens, group, flags, stub, leases, books, ui>>

\* The generation is compared and the process published under one lock.
StartController(n) ==
    /\ pc[Handoff(n)] = "close"
    /\ CloseHeld(Handoff(n))
    /\ \/ /\ cleanupError[Handoff(n)]
          /\ Raise(Handoff(n))
          /\ UNCHANGED <<fc, fcRequired>>
       \/ /\ ~cleanupError[Handoff(n)] /\ ~Current(Handoff(n))
          /\ Goto(Handoff(n), "release")
          /\ UNCHANGED <<fc, fcRequired, raised>>
       \/ /\ ~cleanupError[Handoff(n)] /\ Current(Handoff(n))
          /\ fc' = n /\ fcRequired' = TRUE
          /\ Goto(Handoff(n), "fcConnect")
          /\ UNCHANGED raised
    /\ UNCHANGED <<gens, group, flags, stub, leases, starting, usbPorts,
                   ui>>

ConnectController(n) ==
    /\ pc[Handoff(n)] = "fcConnect"
    /\ \/ fc # 0 /\ Goto(Handoff(n), "usbReady") /\ UNCHANGED raised
       \/ Raise(Handoff(n))
    /\ UNCHANGED <<launcher, stubs, leases, starting, usbPorts>>

\* The except clause: no look at the generation.
HandoffFails(n) ==
    /\ pc[Handoff(n)] = "handoffFails"
    /\ stopped' = FALSE
    /\ fc' = 0
    /\ lines' = lines \cup FcExitLine
    /\ fcRequired' = FALSE
    /\ Goto(Handoff(n), "release")
    /\ UNCHANGED <<gens, group, startFailed, ready, stubs, leases, books, qtJob>>

HandoffStep(n) ==
    /\ \/ CheckHandoff(n) \/ BeginHandoff(n) \/ DropLeases(Handoff(n))
       \/ StartController(n) \/ ConnectController(n) \/ HandoffFails(n)
       \/ BringUp(Handoff(n))
    /\ UNCHANGED kept

-----------------------------------------------------------------------------
(* The watch thread of launch n: _watch_fc_usb.                            *)

\* The head of the loop, and the read of the device state (without a lock).
WatchReads(n) ==
    /\ pc[Watch(n)] = "watch"
    /\ \/ Current(Watch(n)) /\ fc # 0 /\ gate = "open" /\ Goto(Watch(n), "watchLock")
       \/ (~Current(Watch(n)) \/ fc = 0) /\ Goto(Watch(n), "done")
    /\ UNCHANGED <<launcher, stubs, leases, books>>

\* Under UsbSleep.lock; the generation is not compared again.  `connected' is
\* the firmware's state, `changed' whether it differs from the last one.
WatchKeeps(o, changed) ==
    /\ gate = "shut" \/ (~changed /\ \E p \in usbPorts : Attached(p))
    /\ Goto(o, "watch")
    /\ UNCHANGED <<leases, usbPorts>>

\* With every known lease detached the firmware's device is imported anew,
\* without giving the lock back - unless a sleep began after the test.
WatchReimports(o, connected, changed) ==
    /\ changed \/ ~\E p \in usbPorts : Attached(p)
    /\ \E refused \in SUBSET usbPorts :
       IF refused = {} /\ connected /\ gate = "open" /\ ~ended
       THEN /\ lease' = [q \in Owners |-> IF q = o THEN "acquiring"
                                          ELSE IF q \in usbPorts THEN "none"
                                          ELSE lease[q]]
            /\ usbPorts' = {}
            /\ gone' = gone \ usbPorts
            /\ Goto(o, "watchImport")
       ELSE /\ DetachOwned(usbPorts, refused)
            /\ Goto(o, IF refused = {} /\ connected /\ ~ended THEN "watchGated" ELSE "watch")
    /\ UNCHANGED <<gate, ended>>

WatchActs(n) ==
    /\ pc[Watch(n)] = "watchLock"
    /\ LockFree
    /\ \E connected, changed \in BOOLEAN :
           WatchKeeps(Watch(n), changed) \/ WatchReimports(Watch(n), connected, changed)
    /\ UNCHANGED <<launcher, stubs, starting, raised>>

WatchImports(n) ==
    /\ pc[Watch(n)] = "watchGated"
    /\ LockFree
    /\ \/ Lease!Acquire(Watch(n)) /\ Goto(Watch(n), "watchImport")
       \/ ended /\ Goto(Watch(n), "watch") /\ UNCHANGED <<lease, gate, ended>>
    /\ UNCHANGED <<launcher, stubs, gone, books>>

\* Still under the lock: _remember_usb, the generation, _detach_owned_usb.
WatchImported(n) ==
    /\ pc[Watch(n)] = "watchImport"
    /\ \/ /\ Lease!Acquired(Watch(n))
          /\ usbPorts' = usbPorts \cup {Watch(n)}
          /\ Goto(Watch(n), IF Current(Watch(n)) THEN "watchTty" ELSE "done")
       \/ /\ Lease!Refused(Watch(n))
          /\ ~Current(Watch(n))            \* imported, and dropped again
          /\ Goto(Watch(n), "done")
          /\ UNCHANGED usbPorts
       \/ /\ Lease!Refused(Watch(n))
          /\ Goto(Watch(n), "watch")
          /\ UNCHANGED usbPorts
    /\ UNCHANGED <<launcher, stubs, gone, starting, raised>>

WatchPublishes(n) ==
    /\ pc[Watch(n)] = "watchTty"
    /\ stopped' = (stopped /\ ~Current(Watch(n)))
    /\ Goto(Watch(n), "watch")
    /\ UNCHANGED <<gens, procs, startFailed, ready, stubs, leases, books, ui>>

WatchStep(n) ==
    /\ \/ WatchReads(n) \/ WatchActs(n) \/ WatchImports(n) \/ WatchImported(n)
       \/ WatchPublishes(n)
    /\ UNCHANGED kept

-----------------------------------------------------------------------------
(* System sleep, as UsbLease allows it, and Lab._usb_reconnected.          *)

SleepBegins ==
    /\ gate = "open"
    /\ Lease!Shut
    /\ UNCHANGED <<launcher, stubs, gone, books, pc>>

Suspended(o) ==
    /\ o \notin gone
    /\ Lease!Suspend(o)
    /\ UNCHANGED <<launcher, stubs, gone, books, pc>>

\* prepare forgets a lease whose port is empty, without telling the launcher.
SleepForgets(o) ==
    /\ gate = "shut" /\ LockFree
    /\ o \in gone /\ lease[o] = "live"
    /\ Lease!Drop(o)
    /\ gone' = gone \ {o}
    /\ UNCHANGED <<launcher, stubs, books, pc>>

Reconnected(o) ==
    /\ LockFree
    /\ \/ Lease!Restore(o) /\ UNCHANGED usbPorts
       \/ lease[o] = "suspended" /\ Lease!Drop(o) /\ usbPorts' = usbPorts \ {o}
    /\ stopped' = FALSE
    /\ UNCHANGED <<gens, procs, startFailed, ready, stubs, gone, starting,
                   raised, pc, ui>>

SleepEnds ==
    /\ gate = "shut" /\ LockFree
    /\ Lease!Reopen
    /\ UNCHANGED <<launcher, stubs, gone, books, pc>>

-----------------------------------------------------------------------------
(* External: the emulators and their devices.                              *)

\* One ESC's process exits, or the last one.
EscExits(n) ==
    /\ group[n] \in {"all", "some"}
    /\ group' = [group EXCEPT ![n] = IF @ = "all" THEN "some" ELSE "dead"]
    /\ lines' = lines \cup {<<"exit", n>>}
    /\ UNCHANGED <<gens, fc, fcRequired, flags, stubs, leases, books, pc, qtJob>>

FcExits ==
    /\ fc # 0
    /\ fc' = 0
    /\ lines' = lines \cup FcExitLine
    /\ UNCHANGED <<gens, group, fcRequired, flags, stubs, leases, books, pc, qtJob>>

EscUnbound(n) ==
    /\ group[n] \in {"all", "some"}
    /\ lines' = lines \cup {<<"unbound", 0>>}
    /\ UNCHANGED <<gens, procs, flags, stubs, leases, books, pc, qtJob>>

\* A device leaves its port: firmware reset, or its exporter is gone.
DeviceGone(o) ==
    /\ lease[o] = "live"
    /\ o \notin gone
    /\ gone' = gone \cup {o}
    /\ UNCHANGED <<launcher, stubs, lease, gate, ended, books, pc>>

-----------------------------------------------------------------------------
LifecycleStep(n) ==
    \/ StartStep(n)
    \/ "handoff" \in Kinds /\ HandoffStep(n)
    \/ "watch" \in Kinds /\ WatchStep(n)

\* External: sleeps, emulators, devices and their hosts.
SleepStep ==
    /\ gate = "shut" \/ \E o \in Owners : lease[o] = "suspended"
    /\ \/ \E o \in Owners : Suspended(o) \/ SleepForgets(o) \/ Reconnected(o)
       \/ SleepEnds
    /\ UNCHANGED kept

UpsetStep ==
    /\ upsets < UpsetsUpTo(IF qtJob = "start" THEN NextLaunch ELSE launches)
    /\ upsets' = upsets + 1
    /\ UNCHANGED <<mode, overlapped>>
    /\ \/ \E n \in Launches : EscExits(n) \/ EscUnbound(n)
       \/ \E o \in Owners : DeviceGone(o)
       \/ FcExits
       \/ SleepBegins
       \/ StartFails
       \/ CloseProgram

Next ==
    \/ UserStep
    \/ QtStep
    \/ \E n \in Launches : LifecycleStep(n)
    \/ \E n \in Launches : Manifest(n) /\ UNCHANGED kept
    \/ SleepStep
    \/ UpsetStep

Spec == Init /\ [][Next]_vars

\* Every thread goes on, and gets UsbSleep.lock in the end although others
\* take it in between.  Nothing is assumed of users, sleeps and emulators.
FairSpec ==
    /\ Spec
    /\ SF_vars(QtStep)
    /\ \A n \in Launches : SF_vars(StartStep(n))
    /\ \A n \in Launches : SF_vars("handoff" \in Kinds /\ HandoffStep(n))
    /\ \A n \in Launches : SF_vars("watch" \in Kinds /\ WatchStep(n))

-----------------------------------------------------------------------------
StartLabels ==
    {"none", "connect", "connected", "check", "kill", "bind", "settle", "unready", "giveUp",
     "begin", "usbReady", "gated", "importing", "remember", "publish", "undo",
     "release", "raised", "drop", "close", "done"}
Labels == [start |-> StartLabels,
           handoff |-> {"none", "manifest", "handoff", "drop", "close", "fcConnect",
                        "usbReady", "gated", "importing", "remember", "publish", "undo",
                        "handoffFails", "release", "done"},
           watch |-> {"none", "watch", "watchLock", "watchGated", "watchImport",
                      "watchTty", "done"},
           qt |-> {"idle", "void", "drop", "close", "launched", "closing", "closed"}]

AllLabels == UNION {Labels[k] : k \in DOMAIN Labels}

PlacesOK ==
    /\ pc \in [Threads -> AllLabels]
    /\ \A t \in Threads : pc[t] \in Labels[t[1]]

FlagsOK ==
    /\ fcRequired \in BOOLEAN /\ startFailed \in BOOLEAN /\ ready \in BOOLEAN
    /\ stopped \in BOOLEAN /\ ended \in BOOLEAN /\ overlapped \in BOOLEAN
    /\ cleanupError \in [Threads -> BOOLEAN]

DataOK ==
    /\ launches \in 0..MaxStarts
    /\ generation \in 0..launches
    /\ group \in [Launches -> {"out", "all", "some", "dead"}]
    /\ fc \in {0} \cup Launches
    /\ stub \in Owners \cup {None}
    /\ open \subseteq Owners /\ starting \subseteq Owners /\ usbPorts \subseteq Owners
    /\ lease \in [Owners -> Lease!LeaseStates]
    /\ gate \in {"open", "shut"}
    /\ gone \subseteq {o \in Owners : lease[o] = "live"}
    /\ held \in [Threads -> Owners \cup {None}]
    /\ qtJob \in {"none", "start", "stop", "exit"}
    /\ raised \subseteq Owners
    /\ lines \subseteq {"exit", "unbound"} \X ({0} \cup Launches)
    /\ mode \in Modes /\ upsets \in 0..MaxUpsets

\* Types; a process list has entries only of launches that were started, and
\* a lease can only have left its port while it is live.
TypeOK == DataOK /\ FlagsOK /\ PlacesOK

\* No import is lost: whatever is stopped, slept through or refused, a lease
\* that UsbSleep still holds is known to the launcher, which detaches it at
\* the next Stop, Start or exit - or it is in the hands of the thread that
\* has just taken it.
NoLostImport ==
    \A o \in Owners : lease[o] \in {"live", "suspended"} =>
        o \in usbPorts \/ pc[o] = "remember"

\* Processes run only for a launch that neither a Stop nor an exit has made void,
\* so after a Stop none is left and none is started by a thread that was late -
\* unless the Qt thread is in the middle of ending them.  They are the current
\* launch's, but for a flight controller that a handoff started while the next
\* Start went on (gui.py:1326-1330).
RunningIsCurrent ==
    pc[Qt] = "idle" =>
        /\ \A n \in Launches : group[n] \in {"all", "some"} => n = generation
        /\ fc # 0 => fc \in 1..generation
        /\ fc # 0 /\ ~overlapped => fc = generation

\* No endpoint is left listening without an owner: it is the published stub, or
\* a thread still holds it and will publish or close it.  A Start of the control
\* port while an old startup goes on may break this (gui.py:478-486 against
\* gui.py:681).
EndpointsOwned ==
    ~overlapped => \A o \in open :
        \/ stub = o
        \/ \E t \in Threads : held[t] = o
        \/ pc[o] \in {"gated", "importing", "remember", "publish", "undo"}

\* An endpoint is published only for a launch that is not void: publishing compares
\* the generation under the lock that Stop advances it under (gui.py:1056-1066).  A
\* Stop or an exit makes void what is published before it takes it down, which is in
\* another region of that lock (gui.py:1441 and 1491 against 1415): in between, and
\* at no other time, the published endpoint is of a launch that is over.  It is of the
\* current one unless a Start went on while an older startup was about to publish.
PublishedIsCurrent ==
    stub # None /\ pc[Qt] # "void" =>
        /\ stub[2] \in 1..generation
        /\ ~overlapped => stub[2] = generation

\* "generation ... invalidates old pollers" (gui.py:339), and after a Stop in the
\* middle of a start the status is "stopped" (test_launcher_lifecycle.py:317): once
\* Stop has put it, no startup and no handoff it cancelled touches it again.
StatusStaysStopped ==
    [][\A n \in Launches :
           stopped /\ (\/ pc'[Startup(n)] # pc[Startup(n)]
                       \/ "handoff" \in Kinds /\ pc'[Handoff(n)] # pc[Handoff(n)])
             => stopped']_vars

\* Start, Stop and the handling of an exit return although a sleep may hold
\* back an import for ever (gui.py:1420-1421).
QtReturns == []<>(pc[Qt] \in {"idle", "closed"})

\* A startup that was superseded gives up its token, so Start is not refused
\* for ever - unless a sleep still holds its import back.
CancelledStartupEnds ==
    \A o \in Owners : []<>(o \in starting => Current(o) \/ gate = "shut")
=============================================================================
