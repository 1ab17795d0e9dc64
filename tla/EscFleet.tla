------------------------------ MODULE EscFleet ------------------------------
(***************************************************************************)
(* The SITL bench of several ESCs (SITL/sitl_gui.py): a tab and a          *)
(* simulator process for each ESC (class EscFleet, sim_launch, sim_halt,   *)
(* sim_runner.py), and one virtual USB device that bridges a configurator  *)
(* to them (usb_changed, usb_start, usb_stop, usb_poll).  Everything runs  *)
(* on Qt's thread except the worker that brings the device up; usb_stop    *)
(* joins it and blocks the window meanwhile.  A detach may be refused.     *)
(***************************************************************************)
EXTENDS Naturals, FiniteSets, Sequences

CONSTANTS
    MaxEscs,        \* QSpinBox: 8
    Inputs,         \* bound: the <<esc, input>> a user turns on
    MaxStarts,      \* bound: workers started
    MaxReboots      \* bound: reboots a configurator asks for

Starts == 1..MaxStarts
Escs == 1..MaxEscs

VARIABLES
    count,          \* len(panels)
    alive,          \* ESCs with a simulator process
    drives,         \* <<esc, input>> the window itself streams: "dshot", "can"
    locked,         \* ESCs whose DShot switch USB has disabled
    mode, direct,   \* usb_mode, and the ESC of the direct mode
    gui,            \* what the window does: "free", or usb_stop waits in it
    worker,         \* usb["worker"]: its step
    start,          \* the number of the last start; its usb["cancel"]
    cancelled,      \* that event is set
    stub,           \* usb["stub"]: the start it is of, 0 none
    targets,        \* the ESCs it bridges to
    attachment,     \* usb["attachment"]
    devices,        \* starts whose device the kernel has attached
    answers,        \* usb["q"]
    timers,         \* stubs a singleShot will reconnect
    reboots,        \* bounded
    shown           \* the start whose tty the status shows, 0 another text

usbVars == <<mode, direct, gui, worker, start, cancelled, stub, targets, attachment,
             devices, answers, timers, reboots, shown>>
vars == <<count, alive, drives, locked, usbVars>>

Modes == {"fourway", "serial", "betaflight"}
Panels == 1..count

Init ==
    /\ count = MaxEscs /\ alive = {} /\ drives = {} /\ locked = {}
    /\ mode = "off" /\ direct = 1 /\ gui = "free" /\ worker = "none" /\ start = 0
    /\ cancelled = FALSE /\ stub = 0 /\ targets = {} /\ attachment = 0 /\ devices = {}
    /\ answers = <<>> /\ timers = {} /\ reboots = 0 /\ shown = 0

--------------------------------------------------------------------------
(* The simulators.                                                         *)

\* sim_launch of some ESCs in turn until one fails (run_all: of those that do
\* not run).  Equal EEPROM paths fail it before anything is stopped; a file that
\* is missing fails it when runner.start has stopped the old process.
Launched(wanted) ==
    \/ UNCHANGED alive
    \/ \E failing \in wanted \cup {0} :
        alive' = IF failing = 0 THEN alive \cup wanted
                 ELSE (alive \cup {e \in wanted : e < failing}) \ {failing}

Launch(e) ==
    /\ gui = "free" /\ e \in Panels /\ Launched({e})
    /\ UNCHANGED <<count, drives, locked, usbVars>>

StartAll ==
    /\ gui = "free" /\ Launched(Panels \ alive)
    /\ UNCHANGED <<count, drives, locked, usbVars>>

StopAll ==
    /\ gui = "free" /\ alive # {} /\ alive' = {}
    /\ UNCHANGED <<count, drives, locked, usbVars>>

Halt(e) ==
    /\ gui = "free" /\ e \in alive /\ alive' = alive \ {e}
    /\ UNCHANGED <<count, drives, locked, usbVars>>

\* A simulator ends by itself, at any time.
Dies(e) ==
    /\ gui # "closed" /\ e \in alive /\ alive' = alive \ {e}
    /\ UNCHANGED <<count, drives, locked, usbVars>>

\* set_count, behind require_stopped: tabs are closed from the last, or added.
SetCount(n) ==
    /\ gui = "free" /\ n \in Escs /\ n # count /\ mode = "off" /\ alive = {}
    /\ count' = n /\ direct' = IF direct > n THEN n ELSE direct
    /\ drives' = {d \in drives : d[1] <= n} /\ locked' = {e \in locked : e <= n}
    /\ UNCHANGED <<alive, mode, gui, worker, start, cancelled, stub, targets, attachment,
                   devices, answers, timers, reboots, shown>>

SetDirect(e) ==
    /\ gui = "free" /\ mode = "off" /\ e \in Panels /\ e # direct /\ direct' = e
    /\ UNCHANGED <<count, alive, drives, locked, mode, gui, worker, start, cancelled, stub,
                   targets, attachment, devices, answers, timers, reboots, shown>>

--------------------------------------------------------------------------
(* The inputs the window drives itself: its switches, the control port's   *)
(* commands ds_enable, can_enable, can_dna, and start_bench.               *)

\* The switch where USB has not disabled it, the command where the mode allows
\* it: after a refused detach the two differ.
Drive(e, input) ==
    /\ gui = "free" /\ e \in Panels /\ <<e, input>> \notin drives
    /\ \/ input = "dshot" /\ (mode = "off" \/ e \notin locked)
       \/ input = "can" /\ mode # "betaflight"
    /\ drives' = drives \cup {<<e, input>>}
    /\ UNCHANGED <<count, alive, locked, usbVars>>

Release(d) ==
    /\ gui = "free" /\ d \in drives /\ drives' = drives \ {d}
    /\ UNCHANGED <<count, alive, locked, usbVars>>

\* start_bench: refused while USB is on; a new simulator, and DShot alone.  A
\* seed or a model that is missing ends it when half of that is done.
StartBench(e) ==
    /\ gui = "free" /\ e \in Panels /\ mode = "off" /\ <<e, "dshot">> \in Inputs
    /\ drives' = (drives \cup {<<e, "dshot">>}) \ {<<e, "can">>}
    /\ \E started \in BOOLEAN : alive' = IF started THEN alive \cup {e} ELSE alive \ {e}
    /\ UNCHANGED <<count, locked, usbVars>>

--------------------------------------------------------------------------
(* The USB device.                                                         *)

\* EscFleet.set_usb_ownership, of every panel.
Owned(m) ==
    /\ locked' = IF m = "off" THEN {} ELSE Panels
    /\ drives' = {d \in drives : m = "off" \/ (d[2] = "can" /\ m # "betaflight")}

\* usb_stop once the worker is joined: the device is detached while its server
\* still serves; the stub is closed even when that is refused.
Detach(refused) ==
    /\ refused => attachment # 0
    /\ devices' = IF refused THEN devices ELSE devices \ {attachment}
    /\ attachment' = IF refused THEN attachment ELSE 0
    /\ stub' = 0 /\ targets' = {}

NoDetach == UNCHANGED <<stub, targets, attachment, devices>>

\* The rest of usb_changed: a device of a mode that the bootloader serves is
\* refused when a simulator that was started here has none.
Bring(m) ==
    \/ /\ m # "off" /\ start < MaxStarts /\ Owned(m) /\ mode' = m
       /\ start' = start + 1 /\ cancelled' = FALSE /\ worker' = "build"
       /\ UNCHANGED <<answers, timers, reboots>>
    \/ /\ m = "off" \/ (m # "betaflight" /\ alive # {})
       /\ Owned("off") /\ mode' = "off" /\ worker' = "none" /\ cancelled' = TRUE
       /\ UNCHANGED <<start, answers, timers, reboots>>

\* usb_changed when nothing has to be joined: after a refused detach the window
\* shows the new mode, and the panels stay locked as they were.
Changed(m) ==
    /\ gui' = "free" /\ shown' = 0 /\ UNCHANGED <<count, alive, direct>>
    /\ \/ Detach(FALSE) /\ Bring(m)
       \/ /\ Detach(TRUE) /\ mode' = m /\ worker' = "none" /\ cancelled' = TRUE
          /\ UNCHANGED <<drives, locked, start, answers, timers, reboots>>

\* usb_mode is chosen, in the window or by the command "usb", which also works
\* while a start has disabled it; usb_stop cancels the worker and waits for it.
Choose(m) ==
    /\ gui = "free" /\ m # mode /\ m \in Modes \cup {"off"}
    /\ IF worker \in {"none", "done"}
       THEN Changed(m)
       ELSE /\ gui' = "change" /\ mode' = m /\ cancelled' = TRUE
            /\ NoDetach
            /\ UNCHANGED <<count, alive, drives, locked, direct, worker, start, answers,
                           timers, reboots, shown>>

Joined ==
    /\ gui = "change" /\ worker = "done" /\ Changed(mode)

\* EscFleet.close: USB first, then the simulators, whatever becomes of USB.
Close ==
    /\ gui = "free" /\ gui' = "close" /\ cancelled' = TRUE
    /\ UNCHANGED <<count, alive, drives, locked, mode, direct, worker, start, stub, targets,
                   attachment, devices, answers, timers, reboots, shown>>

Closed ==
    /\ gui = "close" /\ worker \in {"none", "done"} /\ gui' = "closed" /\ worker' = "none"
    /\ \E refused \in BOOLEAN : Detach(refused)
    /\ alive' = {} /\ drives' = {}
    /\ UNCHANGED <<count, locked, mode, direct, start, cancelled, answers, timers, reboots, shown>>

--------------------------------------------------------------------------
(* The worker: usb_start, and the usb_stop of a start that failed.         *)
Goes(step) ==
    /\ worker' = step
    /\ UNCHANGED <<count, alive, drives, locked, mode, direct, gui, start, cancelled, timers,
                   reboots, shown>>

\* The server of the device and the stub behind it.
Build ==
    /\ worker = "build"
    /\ \/ /\ stub' = start /\ targets' = (IF mode = "serial" THEN {direct} ELSE Panels)
          /\ Goes("attach")
       \/ Goes("cleanup") /\ UNCHANGED <<stub, targets>>
    /\ UNCHANGED <<attachment, devices, answers>>

\* After the attach a cancel is looked at once more.
Attach ==
    /\ worker = "attach"
    /\ \/ /\ attachment' = start /\ devices' = devices \cup {start}
          /\ Goes(IF cancelled THEN "cleanup" ELSE "tty")
       \/ Goes("cleanup") /\ UNCHANGED <<attachment, devices>>
    /\ UNCHANGED <<stub, targets, answers>>

FindTty ==
    /\ worker = "tty" /\ NoDetach /\ UNCHANGED answers
    /\ \E step \in {"up", "cleanup"} : Goes(step)

Cleanup ==
    /\ worker = "cleanup" /\ \E refused \in BOOLEAN : Detach(refused)
    /\ Goes("failed") /\ UNCHANGED answers

Reports ==
    /\ worker \in {"up", "failed"} /\ NoDetach
    /\ answers' = Append(answers, [kind |-> worker, of |-> start]) /\ Goes("done")

\* The configurator reboots the flight controller behind a Betaflight device.
Reboot ==
    /\ stub # 0 /\ stub \in devices /\ mode = "betaflight" /\ reboots < MaxReboots
    /\ reboots' = reboots + 1 /\ answers' = Append(answers, [kind |-> "reboot", of |-> stub])
    /\ UNCHANGED <<count, alive, drives, locked, mode, direct, gui, worker, start, cancelled,
                   stub, targets, attachment, devices, timers, shown>>

\* usb_poll, one answer every 200 ms: that of a cancelled start is thrown away.
Poll ==
    /\ gui = "free" /\ answers # <<>> /\ answers' = Tail(answers)
    /\ LET a == Head(answers)
           stale == a.of # start \/ cancelled IN
        CASE a.kind = "reboot" ->
                timers' = timers \cup {a.of} /\ UNCHANGED <<mode, shown, drives, locked>>
          [] a.kind # "reboot" /\ stale -> UNCHANGED <<mode, shown, drives, locked, timers>>
          [] a.kind = "up" /\ ~stale -> shown' = a.of /\ UNCHANGED <<mode, timers, drives, locked>>
          [] OTHER -> /\ mode' = "off" /\ shown' = 0 /\ Owned("off") /\ UNCHANGED timers
    /\ UNCHANGED <<count, alive, direct, gui, worker, start, cancelled, stub, targets,
                   attachment, devices, reboots>>

\* reconnect, 300 ms later: of the device that asked for it and no other.  Its
\* usb_changed is that of a choice of the same mode.
Reconnect(s) ==
    /\ gui = "free" /\ s \in timers
    /\ IF s = stub /\ mode = "betaflight"
       THEN IF worker \in {"none", "done"}
            THEN /\ gui' = "free" /\ shown' = 0 /\ timers' = timers \ {s}
                 /\ UNCHANGED <<count, alive, direct>>
                 /\ \/ /\ Detach(FALSE) /\ Owned(mode) /\ start < MaxStarts /\ start' = start + 1
                       /\ cancelled' = FALSE /\ worker' = "build"
                       /\ UNCHANGED <<mode, answers, reboots>>
                    \/ /\ Detach(TRUE) /\ worker' = "none" /\ cancelled' = TRUE
                       /\ UNCHANGED <<mode, drives, locked, start, answers, reboots>>
            ELSE /\ gui' = "change" /\ cancelled' = TRUE /\ timers' = timers \ {s} /\ NoDetach
                 /\ UNCHANGED <<count, alive, drives, locked, mode, direct, worker, start,
                                answers, reboots, shown>>
       ELSE /\ timers' = timers \ {s} /\ NoDetach
            /\ UNCHANGED <<count, alive, drives, locked, mode, direct, gui, worker, start,
                           cancelled, answers, reboots, shown>>

Next ==
    \/ StartAll \/ StopAll
    \/ \E e \in Escs : Launch(e) \/ Halt(e) \/ Dies(e) \/ SetCount(e) \/ SetDirect(e) \/ StartBench(e)
    \/ \E i \in Inputs : Drive(i[1], i[2])
    \/ \E d \in drives : Release(d)
    \/ \E m \in Modes \cup {"off"} : Choose(m)
    \/ Joined \/ Close \/ Closed
    \/ Build \/ Attach \/ FindTty \/ Cleanup \/ Reports \/ Reboot \/ Poll
    \/ \E s \in timers : Reconnect(s)

--------------------------------------------------------------------------
TypeOK ==
    /\ count \in Escs /\ alive \subseteq Escs /\ locked \subseteq Escs
    /\ drives \subseteq Escs \X {"dshot", "can"}
    /\ mode \in Modes \cup {"off"} /\ direct \in Escs
    /\ gui \in {"free", "change", "close", "closed"}
    /\ worker \in {"none", "build", "attach", "tty", "cleanup", "up", "failed", "done"}
    /\ start \in 0..MaxStarts /\ cancelled \in BOOLEAN /\ stub \in 0..MaxStarts
    /\ targets \subseteq Escs /\ attachment \in 0..MaxStarts /\ devices \subseteq Starts
    /\ \A i \in DOMAIN answers : answers[i] \in [kind : {"up", "failed", "reboot"}, of : Starts]
    /\ timers \subseteq Starts /\ reboots \in 0..MaxReboots /\ shown \in 0..MaxStarts

\* One signal wire (usb_changed): while a stub serves a configurator, no panel
\* streams DShot; below a Betaflight device none drives anything; and the ESCs it
\* bridges to are there.
WireOwned ==
    stub # 0 =>
        /\ \A e \in Escs : <<e, "dshot">> \notin drives
        /\ mode = "betaflight" /\ gui = "free" => drives = {}
        /\ targets \subseteq Panels

\* The kernel has at most the one device the window knows of, and a tty is shown
\* only while the device it belongs to is served.
DeviceKnown ==
    /\ devices = {attachment} \ {0}
    /\ shown # 0 /\ gui # "closed" => stub = shown /\ attachment = shown

\* After the shutdown no process and no server is left, whatever USB did (the
\* comment in usb_stop on a failed detach).
ShutdownComplete ==
    gui = "closed" => alive = {} /\ stub = 0 /\ worker = "none" /\ drives = {}
============================================================================
