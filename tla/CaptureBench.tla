---------------------------- MODULE CaptureBench ----------------------------
(***************************************************************************)
(* SITL/scripts: the calibration capture window (esc_capture_gui.py), its  *)
(* session (capture_session.py) and the backends that drive a real motor   *)
(* (esc_capture_fc.py over MSP, esc_measure.py over DroneCAN).  A worker   *)
(* thread runs a capture; the window aborts it, closes, or is told things  *)
(* over its control port.  A flight controller keeps the last motor value  *)
(* it was given, and the serial rate that was saved in it.                 *)
(*                                                                         *)
(* A throttle is zero or not.  What a capture records is left out (see     *)
(* CaptureLog), and so are plots, fits and the files of a data set.        *)
(***************************************************************************)
EXTENDS Naturals, Sequences, FiniteSets

CONSTANTS
    Workers,        \* worker threads of the window
    MaxSessions,    \* bound: connects
    MaxActs         \* bound: captures, aborts and fits the user asks for

VARIABLES
    transport,      \* Config.transport
    open,           \* the window is open
    busy,           \* Run and Connect are disabled
    ses,            \* sessions: [connected, aborting, backend, restore]
    cur,            \* MainWindow.session, 0 for None
    work,           \* worker: [pc, ses, keys, made, aborted, throttle, safe, ok, late]
    fits,           \* fits that have not been reported done
    motor,          \* the last motor value the ESC was given
    warned,         \* the user was told to cut the power
    fcRate,         \* serial_update_rate_hz of the flight controller
    old,            \* what it was
    failed,         \* a restore failed, which the log says
    acts            \* user actions so far

vars == <<transport, open, busy, ses, cur, work, fits, motor, warned, fcRate, old, failed, acts>>
window == <<open, busy, cur, fits, acts>>
device == <<motor, warned, fcRate, failed>>

Idle == [pc |-> "none", ses |-> 0, keys |-> 0, made |-> FALSE, aborted |-> "no",
         throttle |-> 0, safe |-> FALSE, ok |-> FALSE, late |-> 0]
Fresh == [connected |-> FALSE, aborting |-> FALSE, backend |-> 0, restore |-> FALSE]

Init ==
    /\ transport \in {"betaflight", "dronecan"}
    /\ open = TRUE /\ busy = FALSE /\ ses = <<>> /\ cur = 0
    /\ work = [w \in Workers |-> Idle] /\ fits = 0
    /\ motor = 0 /\ warned = FALSE /\ failed = FALSE
    /\ fcRate \in {"stock", "fast"} /\ old = fcRate /\ acts = 0

At(w, pc) == open /\ work[w].pc = pc
Set(w, r) == work' = [work EXCEPT ![w] = r]
To(w, pc) == Set(w, [work[w] EXCEPT !.pc = pc])
Fails(w, pc) == Set(w, [work[w] EXCEPT !.pc = pc, !.ok = FALSE])
Session(w) == ses[work[w].ses]
Aborting == cur # 0 /\ ses[cur].aborting
Drives(w) == work[w].pc \in {"publish", "ready", "drive", "send", "spin", "poll", "finally", "wind"}
Acts == open /\ acts < MaxActs /\ acts' = acts + 1

\* A motor value reaches the device; a zero ends the danger of an earlier one.
Gives(value) == motor' = value /\ warned' = (warned /\ value # 0)

(***************************************************************************)
(* The window.                                                             *)
(***************************************************************************)
Begin(w, pc, keys) ==
    /\ work[w].pc = "none"
    /\ busy' = TRUE
    /\ Set(w, [Idle EXCEPT !.pc = pc, !.keys = keys, !.ses = cur', !.ok = TRUE])

DoConnect(w) ==
    /\ open /\ ~busy /\ Len(ses) < MaxSessions
    /\ cur' = Len(ses) + 1
    /\ ses' = [s \in 1..cur' |-> IF s = cur' THEN Fresh ELSE ses[s]]
    /\ Begin(w, "connect", 0)
    /\ UNCHANGED <<transport, open, fits, device, old, acts>>

\* One step, or all that are ticked.
DoRun(w) ==
    /\ Acts /\ ~busy /\ cur # 0 /\ ses[cur].connected
    /\ cur' = cur
    /\ \E keys \in 1..2 : Begin(w, "step", keys)
    /\ ses' = [ses EXCEPT ![cur].aborting = FALSE]
    /\ UNCHANGED <<transport, open, fits, device, old>>

DoAbort ==
    /\ Acts /\ cur # 0
    /\ LET b == ses[cur].backend IN
       work' = IF b = 0 THEN work ELSE [work EXCEPT ![b].aborted = "user"]
    /\ ses' = [ses EXCEPT ![cur].aborting = TRUE]
    /\ UNCHANGED <<transport, open, busy, cur, fits, device, old>>

\* A fit is not refused while a capture runs, and reports done like one.
DoFit ==
    /\ Acts
    /\ busy' = TRUE /\ fits' = fits + 1
    /\ UNCHANGED <<transport, open, ses, cur, work, device, old>>

StepDone ==
    /\ open
    /\ \/ fits > 0 /\ fits' = fits - 1 /\ UNCHANGED work
       \/ \E w \in Workers : At(w, "done") /\ Set(w, Idle) /\ UNCHANGED fits
    /\ busy' = FALSE
    /\ UNCHANGED <<transport, open, ses, cur, device, old, acts>>

\* The window closes and the process with it: restore() of the last session
\* saves the old rate, which reboots the flight controller, or fails.
Close ==
    /\ open /\ open' = FALSE
    /\ IF cur # 0 /\ ses[cur].restore
       THEN \/ fcRate' = old /\ motor' = 0 /\ UNCHANGED <<warned, failed>>
            \/ failed' = TRUE /\ UNCHANGED <<motor, warned, fcRate>>
       ELSE UNCHANGED device
    /\ UNCHANGED <<transport, busy, ses, cur, work, fits, old, acts>>

(***************************************************************************)
(* A worker that connects.                                                 *)
(***************************************************************************)
Connect(w) ==
    /\ At(w, "connect")
    /\ ses' = [ses EXCEPT ![work[w].ses].aborting = FALSE]
    /\ To(w, IF transport = "betaflight" THEN "rate" ELSE "check")
    /\ UNCHANGED <<transport, window, device, old>>

\* set_fc_rate: a rate that cannot be read is left alone, and so is a fast one.
RaiseRate(w) ==
    /\ At(w, "rate")
    /\ \/ Fails(w, "done") /\ UNCHANGED device
       \/ To(w, "check") /\ UNCHANGED device
       \/ /\ fcRate # "fast"
          /\ fcRate' = "fast" /\ motor' = 0
          /\ To(w, "back") /\ UNCHANGED <<warned, failed>>
    /\ UNCHANGED <<transport, window, ses, old>>

\* The controller is waited for; only then is there something to put back.
RateRaised(w) ==
    /\ At(w, "back")
    /\ ses' = [ses EXCEPT ![work[w].ses].restore = TRUE]
    /\ To(w, "check")
    /\ UNCHANGED <<transport, window, device, old>>

\* The controller's or the node's answers are as a capture needs them, or the
\* connect fails.
Checked(w) ==
    /\ At(w, "check")
    /\ \/ Fails(w, "done") /\ UNCHANGED ses
       \/ To(w, "done") /\ ses' = [ses EXCEPT ![work[w].ses].connected = TRUE]
    /\ UNCHANGED <<transport, window, device, old>>
BfChecked(w) == transport = "betaflight" /\ Checked(w)
CanChecked(w) == transport = "dronecan" /\ Checked(w)

(***************************************************************************)
(* A worker that captures.                                                 *)
(***************************************************************************)
\* The settings are read without driving the motor (see EepromRead).
ReadSettings(w) == To(w, "closed") \/ Fails(w, "closed")

Step(w) ==
    /\ At(w, "step")
    /\ \/ Set(w, [work[w] EXCEPT !.pc = "publish", !.made = TRUE, !.aborted = "no",
                                 !.throttle = 0, !.safe = transport = "dronecan", !.late = 0])
       \/ Fails(w, "closed")
       \/ ReadSettings(w)
    /\ UNCHANGED <<transport, window, ses, device, old>>

\* Under Session._lock: an abort during the construction had nothing to set.
DeafToAbort(w) == FALSE
HearsAbort(w) == Session(w).aborting

Publish(w) ==
    /\ At(w, "publish")
    /\ ses' = [ses EXCEPT ![work[w].ses].backend = w]
    /\ Set(w, [work[w] EXCEPT !.pc = "ready",
                              !.aborted = IF HearsAbort(w) THEN "user" ELSE @])
    /\ UNCHANGED <<transport, window, device, old>>

\* The preflight shows that 1000 means stop, or the capture ends.  A node is
\* given zeros until its status is heard.
Ready(w) ==
    /\ At(w, "ready")
    /\ \/ Fails(w, "finally")
       \/ Set(w, [work[w] EXCEPT !.pc = "spin", !.safe = TRUE])
    /\ UNCHANGED <<transport, window, ses, device, old>>
BfReady(w) == transport = "betaflight" /\ Ready(w)
CanReady(w) == transport = "dronecan" /\ Ready(w)

\* What telemetry finds: current, temperature, silence, an armed controller.
Telemetry(w) == IF work[w].aborted = "no" THEN {"no", "telemetry"} ELSE {work[w].aborted}

\* set_throttle; over MSP it drains the telemetry first and may find an abort.
\* The levels of a chirp, of a square wave, of a sweep, of steps and cycles.
Levels == 0..1

SetThrottle(w) ==
    /\ At(w, "drive")
    /\ \E level \in Levels :
       IF level = work[w].throttle THEN To(w, "spin")
       ELSE IF transport = "dronecan"
            THEN Set(w, [work[w] EXCEPT !.pc = "send", !.throttle = level])
            ELSE \E found \in Telemetry(w) :
                 Set(w, [work[w] EXCEPT !.aborted = found,
                             !.throttle = IF found = "no" THEN level ELSE 0,
                             !.pc = IF found = "no" THEN "send" ELSE "spin"])
    /\ UNCHANGED <<transport, window, ses, device, old>>

ProfileEnds(w) ==
    /\ At(w, "drive") /\ work[w].throttle = 0
    /\ To(w, "finally")
    /\ UNCHANGED <<transport, window, ses, device, old>>

\* The controller stops taking data: the write raises.
LinkFails(w) == Fails(w, "finally") /\ UNCHANGED <<motor, warned>>

Send(w) ==
    /\ At(w, "send")
    /\ \/ /\ Gives(work[w].throttle)
          /\ Set(w, [work[w] EXCEPT !.pc = "spin",
                 !.late = IF work[w].aborted # "no" /\ work[w].throttle # 0 THEN @ + 1 ELSE @])
       \/ LinkFails(w)
    /\ UNCHANGED <<transport, window, ses, fcRate, failed, old>>

\* One pass of spin_for: the stream is kept alive when it is due.
AbortZeroes(w) == IF work[w].aborted # "no" THEN 0 ELSE work[w].throttle

Spin(w) ==
    /\ At(w, "spin")
    /\ \/ /\ \/ Gives(AbortZeroes(w))
             \/ UNCHANGED <<motor, warned>>
          /\ Set(w, [work[w] EXCEPT !.pc = "poll", !.throttle = AbortZeroes(w)])
       \/ LinkFails(w)
    /\ UNCHANGED <<transport, window, ses, fcRate, failed, old>>

Poll(w) ==
    /\ At(w, "poll")
    /\ \E found \in Telemetry(w) :
       IF found # "no" THEN Set(w, [work[w] EXCEPT !.pc = "finally", !.aborted = found, !.ok = FALSE])
       ELSE \E pc \in {"spin", "drive"} : To(w, pc)
    /\ UNCHANGED <<transport, window, ses, device, old>>

\* The finally clause of run_step takes the backend away from abort() before
\* the zeros are sent.
Finally(w) ==
    /\ At(w, "finally")
    /\ ses' = [ses EXCEPT ![work[w].ses].backend = 0]
    /\ Set(w, [work[w] EXCEPT !.pc = "wind", !.aborted = "no", !.throttle = 0])
    /\ UNCHANGED <<transport, window, device, old>>

WindDownSkipped(w) ==
    /\ At(w, "wind")
    /\ \/ work[w].ok /\ Gives(0)
       \/ ~work[w].ok /\ UNCHANGED <<motor, warned>>
    /\ To(w, "closed")
    /\ UNCHANGED <<transport, window, ses, fcRate, failed, old>>

\* Zeros for half a second, unless nothing was ever commanded; over CAN an
\* abort that telemetry finds meanwhile cuts them short.
WindDown(w) ==
    /\ At(w, "wind")
    /\ \/ ~work[w].safe /\ UNCHANGED <<motor, warned>>
       \/ work[w].safe /\ Gives(0)
       \/ work[w].safe /\ warned' = TRUE /\ UNCHANGED motor
    /\ To(w, "closed")
    /\ UNCHANGED <<transport, window, ses, fcRate, failed, old>>

\* The log and the node are closed, which may fail; run_all goes on.
StepEnds(w) ==
    /\ At(w, "closed")
    /\ \E ok \in {FALSE, work[w].ok} :
       IF ok /\ work[w].keys > 1 /\ ~Aborting
       THEN Set(w, [work[w] EXCEPT !.pc = "step", !.keys = @ - 1, !.made = FALSE, !.ses = cur])
       ELSE Set(w, [work[w] EXCEPT !.pc = "done", !.ok = ok])
    /\ UNCHANGED <<transport, window, ses, device, old>>

Works(w) ==
    \/ Connect(w) \/ RaiseRate(w) \/ RateRaised(w) \/ BfChecked(w) \/ CanChecked(w)
    \/ Step(w) \/ Publish(w) \/ BfReady(w) \/ CanReady(w) \/ SetThrottle(w) \/ ProfileEnds(w)
    \/ Send(w) \/ Spin(w) \/ Poll(w) \/ Finally(w) \/ WindDown(w) \/ StepEnds(w)

Next ==
    \/ \E w \in Workers : DoConnect(w) \/ DoRun(w) \/ Works(w)
    \/ DoAbort \/ DoFit \/ StepDone \/ Close
-----------------------------------------------------------------------------
(***************************************************************************)
(* Properties.                                                             *)
(***************************************************************************)
TypeOK ==
    /\ transport \in {"betaflight", "dronecan"} /\ open \in BOOLEAN /\ busy \in BOOLEAN
    /\ cur = Len(ses) /\ fits \in 0..MaxActs /\ motor \in 0..1 /\ warned \in BOOLEAN
    /\ fcRate \in {"stock", "fast"} /\ old \in {"stock", "fast"} /\ acts \in 0..MaxActs
    /\ \A s \in DOMAIN ses : ses[s].backend \in Workers \cup {0}
    /\ \A w \in Workers : work[w].aborted \in {"no", "user", "telemetry"} /\ work[w].throttle \in 0..1

\* A capture that the session can reach has heard an abort, and one that winds
\* the motor down cannot be aborted out of it (capture_session.py:200).
AbortHeard ==
    open => \A w \in Workers :
        /\ Drives(w) /\ Session(w).backend = w /\ Session(w).aborting => work[w].aborted # "no"
        /\ work[w].pc \in {"wind", "closed"} => work[w].aborted = "no"

\* After an abort at most the one command goes out that was on its way.
AbortStops == \A w \in Workers : work[w].late <= 1

\* No capture under way: the motor has its zero, or the user knows that it may
\* not - whatever failed, was aborted, or ran side by side.
MotorStopped ==
    open /\ (\A w \in Workers : ~Drives(w)) => motor = 0 \/ warned

\* "a second capture would command the motor behind the first"
\* (esc_capture_gui.py:443).  Violated: a fit that ends enables Run.
OneDriver == Cardinality({w \in Workers : Drives(w)}) <= 1

\* "Anything it changes on the flight controller [...] is recorded and put back
\* when the session finishes" (esc_capture_gui.py:13).  Violated: a second
\* connect forgets what the first has recorded.
RateRestored == ~open => fcRate = old \/ failed
=============================================================================
