--------------------------- MODULE ThrottlePanel ---------------------------
(***************************************************************************)
(* The PWM/DShot panel of the control UI: Qt's handlers, the thread that   *)
(* drives a waveform and the sender thread (control/ui.py create_ui,       *)
(* control/backend.py DshotPanel) share ptype, value and the command queue *)
(* without a lock.  A step is what a thread does between two accesses of   *)
(* another's.  The ESC at the end of the wire is external.                 *)
(***************************************************************************)
EXTENDS Naturals, Sequences

CONSTANTS
    Queue,          \* EDT_CMD_QUEUE
    Burst,          \* most frames of one round of the sender
    Latch,          \* commands in a row that the firmware acts on
    MaxActs         \* bound: what users and test scripts do

VARIABLES
    acts,           \* user actions so far
    enabled, ptype, bidir, edtWant,     \* DshotPanel's switches
    value,          \* ds.value: the throttle the sender reads
    slider,         \* what ds_value shows
    typing,         \* type_changed has set ptype and not yet the value
    wave, pend, waveValue,  \* a waveform runs; its next value; wave["value"]
    cmds,           \* cmd_queue
    pc, held, burst,        \* the sender: its step, the value it read, frames sent
    sent,           \* the last packet
    active,         \* edt_active
    esc            \* the ESC: [edt, count, cmd]

user == <<acts, enabled, ptype, bidir, edtWant, slider, typing, wave>>
sender == <<pc, held, burst, sent, cmds>>
vars == <<user, value, pend, waveValue, sender, active, esc>>

Types == {"pwm", "dshot"}
Stopped(t) == IF t = "pwm" THEN 1000 ELSE 0
Within(t, v) == IF t = "pwm" /\ v < 1000 THEN 1000 ELSE v
Positions(t) == IF t = "pwm" THEN {1000, 1500} ELSE {0, 20, 1000}
None == 9999

Init ==
    /\ acts = 0 /\ enabled = FALSE /\ ptype = "dshot" /\ bidir = FALSE /\ edtWant = FALSE
    /\ value = 0 /\ slider = 0 /\ typing = FALSE
    /\ wave = FALSE /\ pend = None /\ waveValue = 0
    /\ cmds = <<>> /\ pc = "wait" /\ held = 0 /\ burst = 0
    /\ sent = [form |-> "none", value |-> 0, wire |-> "none"]
    /\ active = FALSE /\ esc = [edt |-> FALSE, count |-> 0, cmd |-> 0]

--------------------------------------------------------------------------
(* Qt's thread: one handler at a time, except that the other threads see   *)
(* type_changed between its two writes.                                    *)
Acts == acts < MaxActs /\ ~typing /\ acts' = acts + 1
Switches == <<ptype, value, slider, typing, wave, pend, waveValue, sender, active, esc>>

Enables == Acts /\ enabled' = ~enabled /\ UNCHANGED <<bidir, edtWant, Switches>>
BidirChanged == Acts /\ bidir' = ~bidir /\ UNCHANGED <<enabled, edtWant, Switches>>
EdtChanged == Acts /\ edtWant' = ~edtWant /\ UNCHANGED <<enabled, bidir, Switches>>

\* A slider moves to v; value_changed runs only when that is a change, and
\* keeps the range of DShot commands off the wire.
Skips(v) == IF ptype = "dshot" /\ v \in 1..47 THEN 0 ELSE v
Moves(v) ==
    /\ slider' = v
    /\ value' = IF v = slider THEN value ELSE Skips(v)

Slides(v) ==
    /\ Acts /\ v \in Positions(ptype) /\ Moves(v)
    /\ UNCHANGED <<enabled, ptype, bidir, edtWant, typing, wave, pend, waveValue, sender, active, esc>>

Zero ==
    /\ Acts /\ Moves(Stopped(ptype))
    /\ UNCHANGED <<enabled, ptype, bidir, edtWant, typing, wave, pend, waveValue, sender, active, esc>>

TypeChanged ==
    /\ Acts /\ ptype' \in Types \ {ptype} /\ typing' = TRUE
    /\ UNCHANGED <<enabled, bidir, edtWant, value, slider, wave, pend, waveValue, sender, active, esc>>
TypeSettles ==
    /\ typing /\ typing' = FALSE
    /\ slider' = Stopped(ptype) /\ value' = Stopped(ptype)
    /\ UNCHANGED <<acts, enabled, ptype, bidir, edtWant, wave, pend, waveValue, sender, active, esc>>

WaveApply ==
    /\ Acts /\ wave' = TRUE
    /\ UNCHANGED <<enabled, ptype, bidir, edtWant, value, slider, typing, pend, waveValue, sender, active, esc>>
WaveStop ==
    /\ Acts /\ wave /\ wave' = FALSE
    /\ UNCHANGED <<enabled, ptype, bidir, edtWant, value, slider, typing, pend, waveValue, sender, active, esc>>

\* update, every 100 ms: the slider follows the waveform, signals blocked.
Update ==
    /\ ~typing /\ wave /\ slider # Within(ptype, waveValue)
    /\ slider' = Within(ptype, waveValue)
    /\ UNCHANGED <<acts, enabled, ptype, bidir, edtWant, value, typing, wave, pend, waveValue, sender, active, esc>>

UserStep ==
    \/ Enables \/ BidirChanged \/ EdtChanged \/ Zero \/ TypeChanged
    \/ WaveApply \/ WaveStop \/ \E v \in Positions(ptype) : Slides(v)

--------------------------------------------------------------------------
(* The waveform thread: a value for the input's type, then the write.      *)
\* Mutant: the waveform may rest on a command.
ScaledPlain(t, frac) == IF t = "pwm" THEN 1000 + 10 * frac ELSE 20 * frac
Scaled(t, frac) ==
    IF t = "pwm" THEN 1000 + 10 * frac
    ELSE LET v == 20 * frac IN IF v \in 1..47 THEN 48 ELSE v

WaveComputes ==
    /\ wave /\ pend = None /\ \E f \in {0, 1, 50} : pend' = Scaled(ptype, f)
    /\ UNCHANGED <<user, value, waveValue, sender, active, esc>>
WaveWrites ==
    /\ pend # None /\ value' = pend /\ waveValue' = pend /\ pend' = None
    /\ UNCHANGED <<user, sender, active, esc>>

--------------------------------------------------------------------------
(* The sender thread.                                                      *)
Keeps == UNCHANGED <<user, value, pend, waveValue, active>>

Wakes ==
    /\ pc = "wait" /\ enabled /\ pc' = "burst" /\ burst' = 0
    /\ Keeps /\ UNCHANGED <<held, sent, cmds, esc>>

\* The ESC counts the commands it processes; any other frame starts it again.
Hears(c) ==
    LET n == IF esc.cmd = c THEN esc.count + 1 ELSE 1
    IN  IF n >= Latch THEN [edt |-> c = 13, count |-> 0, cmd |-> 0]
        ELSE [esc EXCEPT !.count = n, !.cmd = c]
Forgets == [esc EXCEPT !.count = 0, !.cmd = 0]

TakeCommand(heard) ==
    /\ pc = "burst" /\ burst < Burst /\ cmds # <<>>
    /\ cmds' = Tail(cmds) /\ burst' = burst + 1
    /\ sent' = [form |-> "command", value |-> Head(cmds), wire |-> ptype]
    /\ esc' = IF heard /\ ptype = "dshot" /\ bidir THEN Hears(Head(cmds)) ELSE esc
    /\ Keeps /\ UNCHANGED <<pc, held>>
Heard == TakeCommand(TRUE)
Dropped == TakeCommand(FALSE)

NoCommand ==
    /\ pc = "burst" /\ burst < Burst /\ cmds = <<>> /\ pc' = ptype
    /\ Keeps /\ UNCHANGED <<held, burst, sent, cmds, esc>>
SendPwm ==
    /\ pc = "pwm" /\ pc' = "burst" /\ burst' = burst + 1
    /\ sent' = [form |-> "pulse", value |-> value, wire |-> "pwm"] /\ esc' = Forgets
    /\ Keeps /\ UNCHANGED <<held, cmds>>
ReadValue ==
    /\ pc = "dshot" /\ held' = value /\ pc' = "send"
    /\ Keeps /\ UNCHANGED <<burst, sent, cmds, esc>>
SendDshot ==
    /\ pc = "send" /\ pc' = "burst" /\ burst' = burst + 1
    /\ sent' = [form |-> "frame", value |-> held, wire |-> ptype] /\ esc' = Forgets
    /\ Keeps /\ UNCHANGED <<held, cmds>>

\* _edt_maintain: keep the command in the queue until the replies agree.
Maintained == ptype = "dshot" /\ bidir /\ edtWant # active /\ value = 0
Command == IF edtWant THEN 13 ELSE 14
\* Mutant: the queue is filled only once it has run empty.
TopUpWhenEmpty(low) ==
    IF Maintained /\ cmds = <<>> THEN [i \in 1..Queue |-> Command] ELSE cmds
TopUp(low) ==
    IF Maintained /\ Len(cmds) < low THEN cmds \o [i \in 1..Queue |-> Command] ELSE cmds
RoundEnds ==
    /\ pc = "burst" /\ burst > 0 /\ pc' = "wait" /\ cmds' = TopUp(Queue)
    /\ Keeps /\ UNCHANGED <<held, burst, sent, esc>>

SenderStep == Wakes \/ Heard \/ Dropped \/ NoCommand \/ SendPwm \/ ReadValue \/ SendDshot \/ RoundEnds

\* The replies that _collect finds, three seconds of them.
Collect ==
    /\ active' = (esc.edt /\ enabled /\ bidir /\ ptype = "dshot") /\ active' # active
    /\ UNCHANGED <<user, value, pend, waveValue, sender, esc>>

Next == UserStep \/ TypeSettles \/ Update \/ WaveComputes \/ WaveWrites \/ SenderStep \/ Collect

--------------------------------------------------------------------------
TypeOK ==
    /\ acts \in 0..MaxActs /\ {enabled, bidir, edtWant, typing, wave, active} \subseteq BOOLEAN
    /\ ptype \in Types /\ {value, slider, waveValue, held} \subseteq 0..2047
    /\ pend \in 0..2047 \cup {None} /\ pc \in {"wait", "burst", "pwm", "dshot", "send"}
    /\ cmds \in Seq({13, 14}) /\ Len(cmds) < 2 * Queue /\ burst \in 0..Burst
    /\ sent.form \in {"none", "command", "pulse", "frame"}
    /\ esc.edt \in BOOLEAN /\ esc.count \in 0..(Latch - 1)

\* A throttle never reads as a DShot command, whatever the slider, the
\* waveform and a change of type do meanwhile.
NoStrayCommand == sent.form = "frame" => sent.value \notin 1..47

\* A throttle that stays gets to the wire: commands do not keep it off.
ThrottleSent ==
    <>[](enabled /\ ptype = "dshot" /\ value = 1000) => []<>(sent.form = "frame" /\ sent.value = 1000)

\* While the motor is stopped, extended telemetry gets to the state asked for.
EdtFollows ==
    <>[](enabled /\ ptype = "dshot" /\ bidir /\ value = 0) => <>[](active = edtWant)
============================================================================
