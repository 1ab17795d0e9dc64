------------------------------ MODULE FcMonitor ------------------------------
(***************************************************************************)
(* escsim/renode/monitor.py and its users in gui.py: the one connection to *)
(* the flight controller's monitor.  The metrics thread owns it and asks   *)
(* once a second; the USB watch asks for the state of the device on the    *)
(* same connection; Stop takes it away from both, and pauses the emulator  *)
(* over a connection of its own.  An answer may come after the wait for it *)
(* was given up, and is then in the way of the next.                       *)
(*                                                                         *)
(* The emulator answers in order; an answer repeats its command, ends with *)
(* a prompt, and says what was true when it was made.                      *)
(***************************************************************************)
EXTENDS Naturals, Sequences, SequencesExt

CONSTANTS
    MaxAsked,       \* bound: commands sent
    MaxChanges      \* bound: changes of the USB state

Users == {"metrics", "watch"}

VARIABLES
    current,        \* Lab.generation is still that of the threads
    fcMonitor,      \* Lab.fc_monitor is set
    open,           \* the socket of the client
    io,             \* holder of fc_monitor_io_lock, or "free"
    pc,             \* of the metrics thread and of the watch
    data,           \* the answers _read_to_prompt has read
    asked,          \* external: commands the emulator has not answered
    answers,        \* external: answers not read
    now,            \* external: counts the changes of the USB state
    paused,         \* Stop: "no", "asked", "yes" or "failed"
    number,         \* commands sent so far
    since,          \* observer: now, when the watch sent its last command
    late,           \* observer: a command of the watch was given up
    shown, used     \* observers: the answers of the last sample, and the state
                    \* the watch acted on

socket == <<open, asked, answers>>
obs == <<since, late, shown, used>>
vars == <<current, fcMonitor, socket, io, pc, data, now, paused, number, obs>>

Init ==
    /\ current = TRUE /\ fcMonitor = TRUE /\ open = TRUE /\ io = "free"
    /\ pc = [u \in Users |-> "idle"] /\ data = <<>>
    /\ asked = <<>> /\ answers = <<>> /\ now = 0 /\ paused = "no" /\ number = 0
    /\ since = 0 /\ late = FALSE /\ shown = <<>> /\ used = 0

-----------------------------------------------------------------------------
(* The emulator. *)

Change ==
    /\ now < MaxChanges /\ now' = now + 1
    /\ UNCHANGED <<current, fcMonitor, socket, io, pc, data, paused, number, obs>>

Answer ==
    /\ asked # <<>> /\ asked' = Tail(asked)
    /\ LET q == Head(asked)
       IN  answers' = IF open THEN Append(answers, [cmd |-> q.cmd, no |-> q.no, says |-> now])
                      ELSE <<>>
    /\ UNCHANGED <<current, fcMonitor, open, io, pc, data, now, paused, number, obs>>

-----------------------------------------------------------------------------
(* MonitorClient.command, under fc_monitor_io_lock. *)

\* The watch takes the client from fc_monitor; it keeps what it took.
Take(u) ==
    /\ pc[u] = "idle" /\ current
    /\ IF u = "watch" /\ ~fcMonitor THEN UNCHANGED pc
       ELSE pc' = [pc EXCEPT ![u] = "take"]
    /\ UNCHANGED <<current, fcMonitor, socket, io, data, now, paused, number, obs>>

\* Mutant: a command is sent while the other waits for its answer.
SendUnlocked(u) ==
    /\ pc[u] = "take" /\ number < MaxAsked /\ open
    /\ io' = u /\ pc' = [pc EXCEPT ![u] = "read"] /\ data' = <<>>
    /\ asked' = Append(asked, [cmd |-> u, no |-> number + 1]) /\ number' = number + 1
    /\ since' = IF u = "watch" THEN now ELSE since
    /\ UNCHANGED <<current, fcMonitor, open, answers, now, paused, late, shown, used>>

Send(u) ==
    /\ pc[u] = "take" /\ io = "free" /\ number < MaxAsked /\ open
    /\ io' = u /\ pc' = [pc EXCEPT ![u] = "read"] /\ data' = <<>>
    /\ asked' = Append(asked, [cmd |-> u, no |-> number + 1]) /\ number' = number + 1
    /\ since' = IF u = "watch" THEN now ELSE since
    /\ UNCHANGED <<current, fcMonitor, open, answers, now, paused, late, shown, used>>

\* Mutant: the first prompt ends the answer, whatever command it belongs to.
CompleteAtPrompt(u, text) == text # <<>>

\* _read_to_prompt: a prompt, and the command repeated in the text.
Complete(u, text) == \E i \in DOMAIN text : text[i].cmd = u

Recv(u) ==
    /\ pc[u] = "read" /\ open /\ answers # <<>> /\ ~Complete(u, data)
    /\ data' = Append(data, Head(answers)) /\ answers' = Tail(answers)
    /\ UNCHANGED <<current, fcMonitor, open, asked, io, pc, now, paused, number, obs>>

\* What each does when its command fails: the metrics thread closes the client and
\* ends; the watch looks again later.
Fails(u) ==
    /\ io' = (IF io = u THEN "free" ELSE io)
    /\ IF u = "metrics"
       THEN /\ pc' = [pc EXCEPT ![u] = "ended"] /\ open' = FALSE
            /\ answers' = <<>> /\ fcMonitor' = FALSE /\ UNCHANGED asked
       ELSE pc' = [pc EXCEPT ![u] = "idle"] /\ UNCHANGED <<socket, fcMonitor>>
    /\ UNCHANGED <<current, now, paused, number, since, shown, used>>

\* The time is over: what has been read is forgotten, what has not will come.
Timeout(u) ==
    /\ pc[u] = "read" /\ ~Complete(u, data) /\ Fails(u)
    /\ late' = (late \/ u = "watch") /\ UNCHANGED data

Broken(u) ==
    /\ pc[u] \in {"take", "read"} /\ ~open /\ (pc[u] = "take" => io = "free")
    /\ Fails(u) /\ UNCHANGED <<late, data>>

-----------------------------------------------------------------------------
(* _metrics_loop and _fc_usb_connection_state. *)

\* Mutant: the numbers are not counted.
ParsesAny(text) == TRUE

\* parse_metrics: the numbers of one answer, and no more of them.
Parses(text) == Len(text) = 1

Sample ==
    /\ pc["metrics"] = "read" /\ Complete("metrics", data)
    /\ IF Parses(data)
       THEN /\ shown' = data /\ io' = "free"
            /\ pc' = [pc EXCEPT !["metrics"] = IF current THEN "idle" ELSE "ended"]
            /\ UNCHANGED <<current, fcMonitor, socket, now, paused, number, since,
                           used, late, data>>
       ELSE Fails("metrics") /\ UNCHANGED <<late, data>>

\* The last number in the text is the state of the device.
UseState ==
    /\ pc["watch"] = "read" /\ Complete("watch", data)
    /\ used' = Last(data).says /\ io' = "free"
    /\ pc' = [pc EXCEPT !["watch"] = "used"]
    /\ UNCHANGED <<current, fcMonitor, socket, data, now, paused, number, since, late,
                   shown>>

\* An attach or a detach later.
Acted ==
    /\ pc["watch"] = "used" /\ pc' = [pc EXCEPT !["watch"] = "idle"]
    /\ UNCHANGED <<current, fcMonitor, socket, io, data, now, paused, number, obs>>

Ends(u) ==
    /\ pc[u] = "idle" /\ ~current /\ pc' = [pc EXCEPT ![u] = "ended"]
    /\ IF u = "metrics" THEN fcMonitor' = FALSE /\ open' = FALSE /\ answers' = <<>>
       ELSE UNCHANGED <<fcMonitor, open, answers>>
    /\ UNCHANGED <<current, asked, io, data, now, paused, number, obs>>

-----------------------------------------------------------------------------
(* Lab.stop. *)

\* Mutant: Stop leaves the client to the thread that uses it.
InterruptWaits ==
    /\ current /\ current' = FALSE /\ fcMonitor' = FALSE /\ paused' = "asked"
    /\ UNCHANGED <<socket, io, pc, data, now, number, obs>>

\* The generation is void, and the client is closed under whoever reads from it.
Interrupt ==
    /\ current /\ current' = FALSE /\ fcMonitor' = FALSE
    /\ open' = IF fcMonitor THEN FALSE ELSE open
    /\ answers' = IF fcMonitor THEN <<>> ELSE answers
    /\ paused' = "asked" /\ UNCHANGED <<asked, io, pc, data, now, number, obs>>

\* pause, over a connection of its own: behind what the emulator has still to do.
Pause ==
    /\ paused = "asked" /\ paused' \in {"failed"} \cup (IF asked = <<>> THEN {"yes"} ELSE {})
    /\ UNCHANGED <<current, fcMonitor, socket, io, pc, data, now, number, obs>>

UserStep(u) == Take(u) \/ Send(u) \/ Recv(u) \/ Broken(u) \/ Ends(u)

Next ==
    \/ Change \/ Answer \/ Sample \/ UseState \/ Acted \/ Interrupt \/ Pause
    \/ \E u \in Users : UserStep(u) \/ Timeout(u)

-----------------------------------------------------------------------------
TypeOK ==
    /\ current \in BOOLEAN /\ fcMonitor \in BOOLEAN /\ open \in BOOLEAN
    /\ io \in Users \cup {"free"} /\ number \in 0..MaxAsked /\ now \in 0..MaxChanges
    /\ pc \in [Users -> {"idle", "take", "read", "used", "ended"}]
    /\ paused \in {"no", "asked", "yes", "failed"}
    /\ \A u \in Users : pc[u] = "read" => io = u

\* A sample is the answer to the command of the metrics thread and to no other, also
\* when an answer the watch gave up is still to come; and the watch acts on a state
\* that was true after it asked, unless it has given an answer up before: then every
\* answer on this connection is that of the question before.
AnswersOwn ==
    /\ \A i \in DOMAIN shown : shown[i].cmd = "metrics" /\ Len(shown) = 1
    /\ pc["watch"] = "used" /\ ~late => used >= since

\* Stop does not leave a thread behind that waits for an answer: both have ended, or
\* are about to, without the time of their command passing.
StopInterrupts == ~current ~> \A u \in Users : pc[u] = "ended"
=============================================================================
