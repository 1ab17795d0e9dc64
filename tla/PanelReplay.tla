---------------------------- MODULE PanelReplay ----------------------------
(***************************************************************************)
(* The controls of a panel, what they set, and the recording of a session  *)
(* (control/ui.py create_ui: the handlers, log_action, handle_command,     *)
(* cmd_poll, replay_reader).  A handler runs to its end on Qt's thread and *)
(* logs what it did; --replay hands the lines of that log, one by one, to  *)
(* the handlers of a fresh panel.  Two panels are modelled: the one that   *)
(* is recorded and the one that replays.  A panel is a record, a handler   *)
(* an operator from a panel to a panel.  What takes time - the USB device, *)
(* the parameters, the simulator - is modelled elsewhere.                  *)
(***************************************************************************)
EXTENDS Integers, Sequences, FiniteSets

CONSTANTS
    Switches,       \* boxes whose handler sets one attribute: "ds_bidir", "can_armed", ...
    Graphs,         \* "graph_i", "graph_v"
    Sounds,         \* "audio", "motor_audio"
    Machines,       \* what the machines of a session may have
    MaxActs         \* bound: commands of a session

VARIABLES
    has,            \* what this machine has: "plots" (pyqtgraph), "sound", "can"
    live, replica,  \* the two panels
    acts,
    stage,          \* "record", "replay", "done"
    read            \* lines of the log that were replayed

vars == <<has, live, replica, acts, stage, read>>

Dshot == 0    Pwm == 1                      \* ds_type
WaveOff == 0  OnDshot == 1  OnCan == 2      \* wave["kind"], wave["target"]
Coarse == 2000
Views == Graphs \cup {"rpm_graph", "motorview", "scope"}
Fine == Graphs \cup {"motorview", "scope"}
Lowest(t) == IF t = Pwm THEN 1000 ELSE 0
Highest(t) == IF t = Pwm THEN 2000 ELSE 2047
Clamped(t, v) == IF v < Lowest(t) THEN Lowest(t) ELSE IF v > Highest(t) THEN Highest(t) ELSE v

\* The speed of a slider position, as the log prints it and a replay reads it
\* back: four digits are too few at the slow end.
Coarser == [p \in {1, 3, 5, 8, 11} |-> CASE p = 1 -> 0 [] p = 3 -> 2 [] p = 5 -> 6 [] p = 8 -> 7 [] p = 11 -> 12]
Printed(p) == IF p \in DOMAIN Coarser THEN Coarser[p] ELSE p

Log(p, cmd, arg) == [p EXCEPT !.log = Append(@, <<cmd, arg>>)]
Truth(on) == IF on THEN 1 ELSE 0

--------------------------------------------------------------------------
(* The wire's controls.                                                    *)

\* value_changed: the range of the DShot commands never reaches the wire.
ValueChanged(p) ==
    Log([p EXCEPT !.value = IF p.type = Dshot /\ p.slider \in 1..47 THEN 0 ELSE p.slider],
        "ds_value", p.slider)

\* setValue: Qt clamps it, and signals only a change.
SetSlider(p, v) ==
    LET c == Clamped(p.range, v)
    IN IF c = p.slider THEN p ELSE ValueChanged([p EXCEPT !.slider = c])

SetRange(p, t) == SetSlider([p EXCEPT !.range = t], p.slider)

TypeChanged(p, t) ==
    LET stopped == SetSlider(SetRange([p EXCEPT !.type = t], t), Lowest(t))
    IN [ValueChanged(Log(stopped, "ds_type", t)) EXCEPT !.driven = p.wave = OnDshot]

Switch(p, b, on) == Log([p EXCEPT !.on = IF on THEN @ \cup {b} ELSE @ \ {b}], b, Truth(on))

\* A waveform owns the control of its input until it is stopped; what it leaves
\* there depends on the moment.
WaveApply(p, target) ==
    LET t == IF target = OnCan /\ "can" \notin has THEN OnDshot ELSE target
    IN Log([p EXCEPT !.wave = t, !.locked = t, !.driven = @ \/ t = OnDshot], "wave", t)

WaveStop(p) ==
    LET q == IF p.wave = WaveOff THEN p ELSE Log(p, "wave", WaveOff)
    IN [q EXCEPT !.wave = WaveOff, !.locked = WaveOff]

--------------------------------------------------------------------------
(* What is shown of the simulation.                                        *)

UpdateSimEnable(p) ==
    [p EXCEPT !.period = IF p.on \cap Fine = {} THEN Coarse ELSE p.sample,
              !.scoped = "scope" \in p.on]

Shown(p, w) ==
    [p EXCEPT !.made = IF w \in p.on THEN @ \cup {w} ELSE @,
              !.visible = IF w \in p.on THEN @ \cup {w} ELSE @ \ {w}]

\* A box without pyqtgraph unchecks itself, which runs its handler again.
Unavailable(p, w) == w \in p.on /\ w \notin p.made /\ "plots" \notin has
Boxed(p, w, on) == [p EXCEPT !.on = IF on THEN @ \cup {w} ELSE @ \ {w}]

GraphToggled(p, w, on) ==
    LET q == Log(Boxed(p, w, on), w, Truth(on))
    IN IF Unavailable(q, w) THEN UpdateSimEnable(Log(Boxed(q, w, FALSE), w, 0))
       ELSE UpdateSimEnable(Shown(q, w))

GraphRpmToggled(p, on) ==
    LET q == Log(Boxed(p, "rpm_graph", on), "rpm_graph", Truth(on))
    IN IF Unavailable(q, "rpm_graph") THEN Log(Boxed(q, "rpm_graph", FALSE), "rpm_graph", 0)
       ELSE Shown(q, "rpm_graph")

MotorviewChanged(p, on) ==
    UpdateSimEnable(Shown(Log(Boxed(p, "motorview", on), "motorview", Truth(on)), "motorview"))

\* The virtual scope is not recorded.
ScopeToggled(p, on) ==
    LET q == Boxed(p, "scope", on)
    IN IF Unavailable(q, "scope") THEN UpdateSimEnable(Boxed(q, "scope", FALSE))
       ELSE UpdateSimEnable(Shown(q, "scope"))

SampleChanged(p, us) ==
    IF us = p.sample THEN p
    ELSE Log(UpdateSimEnable([p EXCEPT !.sample = us]), "sample_us", us)

\* The button sends the speed even when the slider does not move.
SpeedChanged(p, pos) == Log([p EXCEPT !.speed = pos], "speedup", pos)

ScopeFineCapture(p) == SpeedChanged(SampleChanged(p, 5), 100)

\* Each sound has a player of its own; the endpoint is chosen while none plays.
AudioToggled(p, s, on) ==
    LET q == Log(Boxed(p, s, on), s, Truth(on))
        r == IF on /\ "sound" \notin has THEN Log(Boxed(q, s, FALSE), s, 0)
             ELSE [q EXCEPT !.playing = IF on THEN @ \cup {s} ELSE @ \ {s}]
    IN [r EXCEPT !.endpoint = r.on \cap Sounds = {}]

--------------------------------------------------------------------------
(* handle_command.  setChecked signals only a change.                      *)
Check(p, b, on) ==
    CASE (b \in p.on) = on -> p
      [] b \in Graphs -> GraphToggled(p, b, on)
      [] b \in Sounds -> AudioToggled(p, b, on)
      [] b = "rpm_graph" -> GraphRpmToggled(p, on)
      [] b = "motorview" -> MotorviewChanged(p, on)
      [] b = "scope" -> ScopeToggled(p, on)
      [] OTHER -> Switch(p, b, on)

HandleInput(p, cmd, arg) ==
    CASE cmd = "ds_value" -> SetSlider(p, arg)
      [] cmd = "ds_type" -> IF arg = p.type THEN p ELSE TypeChanged(p, arg)
      [] cmd = "zero" -> SetSlider(p, Lowest(p.type))
      [] cmd = "wave" -> IF arg = WaveOff THEN WaveStop(p) ELSE WaveApply(p, arg)
      [] OTHER -> Check(p, cmd, arg = 1)

HandleView(p, cmd, arg) ==
    CASE cmd = "sample_us" -> SampleChanged(p, arg)
      [] cmd = "speedup" -> SpeedChanged(p, Printed(arg))
      [] OTHER -> Check(p, cmd, arg = 1)

Inputs == {"ds_value", "ds_type", "zero", "wave"} \cup Switches
HandleCommand(p, c) ==
    IF c[1] \in Inputs THEN HandleInput(p, c[1], c[2]) ELSE HandleView(p, c[1], c[2])

--------------------------------------------------------------------------
Fresh ==
    [type |-> Dshot, range |-> Dshot, slider |-> 0, value |-> 0, driven |-> FALSE,
     on |-> {}, wave |-> WaveOff, locked |-> WaveOff, made |-> {}, visible |-> {},
     sample |-> 50, period |-> Coarse, scoped |-> FALSE, speed |-> 150,
     playing |-> {}, endpoint |-> TRUE, log |-> <<<<"speedup", 150>>>>]

Init ==
    /\ has \in Machines
    /\ live = Fresh /\ replica = Fresh /\ acts = 0 /\ stage = "record" /\ read = 0

\* A command of the control port, or the same control under the mouse.
Commands ==
    {<<"ds_value", v>> : v \in {0, 20, 1200}} \cup {<<"ds_type", t>> : t \in {Dshot, Pwm}}
    \cup {<<"zero", 0>>} \cup {<<"wave", w>> : w \in {WaveOff, OnDshot, OnCan}}
    \cup (Switches \cup Views \cup Sounds) \X {0, 1}
    \cup {<<"sample_us", 100>>, <<"speedup", 1>>}

Acts == stage = "record" /\ acts < MaxActs /\ acts' = acts + 1 /\ UNCHANGED <<has, replica, stage, read>>

Command(c) == Acts /\ live' = HandleCommand(live, c) /\ live' # live

\* The mouse reaches positions of the slider that no log can print.
Drag(pos) == Acts /\ live' = SpeedChanged(live, pos)

FineCapture == Acts /\ "scope" \in live.visible /\ live' = ScopeFineCapture(live)

\* ScopeWindow.closeEvent, and that of the virtual scope.
CloseWindow(w) == Acts /\ w \in live.visible \ {"motorview"} /\ live' = Check(live, w, FALSE)

\* The waveform's thread writes the throttle; update moves the slider after it,
\* with its signals blocked.
WaveWrites ==
    /\ stage = "record" /\ live.wave = OnDshot
    /\ \E v \in {800, 1200} : live' = [live EXCEPT !.value = Clamped(live.type, v), !.slider = Clamped(live.range, v)]
    /\ live' # live /\ UNCHANGED <<has, replica, acts, stage, read>>
ReplicaWaveWrites ==
    /\ stage = "replay" /\ replica.wave = OnDshot
    /\ replica' = [replica EXCEPT !.value = Clamped(replica.type, 1200), !.slider = Clamped(replica.range, 1200)]
    /\ replica' # replica /\ UNCHANGED <<has, live, acts, stage, read>>

Ends == stage = "record" /\ stage' = "replay" /\ UNCHANGED <<has, live, replica, acts, read>>

\* replay_reader queues a line at its time, cmd_poll hands what is queued to the
\* handlers in that order.
ReadLine ==
    /\ stage = "replay" /\ read < Len(live.log) /\ read' = read + 1
    /\ replica' = [HandleCommand(replica, live.log[read + 1]) EXCEPT !.log = <<>>]
    /\ UNCHANGED <<has, live, acts, stage>>

ReplayDone ==
    /\ stage = "replay" /\ read = Len(live.log) /\ stage' = "done"
    /\ UNCHANGED <<has, live, replica, acts, read>>

Next ==
    \/ acts < MaxActs /\ \E c \in Commands : Command(c)
    \/ acts < MaxActs /\ \E w \in Views : CloseWindow(w)
    \/ Drag(5) \/ FineCapture \/ WaveWrites \/ ReplicaWaveWrites \/ Ends
    \/ ReadLine \/ ReplayDone

--------------------------------------------------------------------------
TypeOK ==
    /\ has \in Machines /\ acts \in 0..MaxActs
    /\ stage \in {"record", "replay", "done"} /\ read \in 0..Len(live.log)
    /\ \A p \in {live, replica} :
        /\ p.type \in {Dshot, Pwm} /\ p.slider \in Lowest(p.range)..Highest(p.range)
        /\ p.on \subseteq Switches \cup Views \cup Sounds /\ p.made \subseteq Views
        /\ p.playing \subseteq Sounds

\* A replayed session ends with the controls of the one that was recorded: what
\* --log promises (ui.py:37), but for the virtual scope, which is not recorded,
\* and a throttle that a waveform left behind.
ReplayReproduces ==
    stage = "done" =>
        /\ replica.on = live.on \ {"scope"} /\ replica.visible = live.visible \ {"scope"}
        /\ replica.type = live.type /\ replica.wave = live.wave /\ replica.locked = live.locked
        /\ replica.sample = live.sample /\ replica.speed = Printed(live.speed)
        /\ replica.playing = live.playing
        /\ ~live.driven => replica.slider = live.slider /\ replica.value = live.value

\* The stream is as fine as asked exactly while something that shows it is open, a
\* window is open exactly while its box is checked, the audio endpoint can be
\* changed exactly while nothing plays, and what plays is what is checked.
ViewsServed ==
    \A p \in {live, replica} :
        /\ p.period = (IF p.visible \cap Fine = {} THEN Coarse ELSE p.sample)
        /\ p.scoped = ("scope" \in p.visible)
        /\ p.visible = p.on \cap Views /\ p.playing = p.on \cap Sounds
        /\ p.endpoint = (p.playing = {})
============================================================================
