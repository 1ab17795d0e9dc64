----------------------------- MODULE EepromRead -----------------------------
(***************************************************************************)
(* SITL/scripts: how a real ESC's settings are read through a flight       *)
(* controller (esc_eeprom_fc.py, and read_settings of capture_session.py,  *)
(* which does the same from the capture window).  MspPort.request switches *)
(* the controller's port into 4-way mode and hands the raw port over;      *)
(* FourWay sends a command and takes the first answer that comes, whatever *)
(* it answers.  The controller is external: it works through what it was   *)
(* sent in order, and takes its time.                                      *)
(***************************************************************************)
EXTENDS Naturals, Sequences, SequencesExt

CONSTANTS
    MaxProbes,      \* bound: probes for the bootloader
    MaxAsked        \* bound: passthrough requests of MspPort.request, 3 retries

VARIABLES
    tool,           \* "script" or "session"
    pc,             \* the tool
    probes,         \* commands sent so far that ask for the bootloader
    mode,           \* the controller's port: "msp" or "fourway"
    esc,            \* the ESC runs "app" or "boot"; a power cycle may change it
    sent,           \* on the way to the controller: commands
    inp,            \* the serial input of the tool: what each frame answers
    saved,          \* what was taken for the eeprom image, "none" before
    failed,         \* the tool has raised
    asked           \* the user was asked to power cycle the ESC

vars == <<tool, pc, probes, mode, esc, sent, inp, saved, failed, asked>>
controller == <<mode, esc>>

Init ==
    /\ tool \in {"script", "session"}
    /\ pc = "msp" /\ probes = 0 /\ mode = "msp" /\ esc = "app"
    /\ sent = <<>> /\ inp = <<>> /\ saved = "none"
    /\ failed = FALSE /\ asked = FALSE

(***************************************************************************)
(* The flight controller and the ESC.                                      *)
(***************************************************************************)
\* What an ESC in its application does not answer comes back as an error.
Answer(cmd) ==
    IF cmd \in {"init", "devinfo", "read"} /\ esc = "app" THEN "error" ELSE cmd

\* Entering passthrough reboots the ESC into its bootloader, when it works.
Serve ==
    /\ sent # <<>> /\ sent' = Tail(sent)
    /\ LET cmd == Head(sent) IN
       \/ /\ mode = "msp" /\ cmd = "passthrough"
          /\ mode' = "fourway" /\ inp' = Append(inp, "count")
          /\ esc' \in {"app", "boot"}
       \/ /\ mode = "fourway" /\ cmd \in {"alive", "init", "devinfo", "read"}
          /\ inp' = Append(inp, Answer(cmd)) /\ UNCHANGED controller
       \/ /\ mode = "fourway" /\ cmd = "reset"
          /\ esc' \in {"app", "boot"} /\ UNCHANGED <<mode, inp>>
       \/ /\ mode = "fourway" /\ cmd = "exit"
          /\ mode' = "msp" /\ UNCHANGED <<esc, inp>>
       \/ (mode = "fourway") # (cmd # "passthrough") /\ UNCHANGED <<controller, inp>>
    /\ UNCHANGED <<tool, pc, probes, saved, failed, asked>>

PowerCycle ==
    /\ asked /\ esc = "app" /\ pc \in {"init", "probe"}
    /\ esc' = "boot"
    /\ UNCHANGED <<tool, pc, probes, mode, sent, inp, saved, failed, asked>>

(***************************************************************************)
(* The tool.                                                               *)
(***************************************************************************)
Stays == UNCHANGED <<tool, controller, saved, failed, asked, probes>>
Raises == failed' = TRUE /\ pc' = "leave"

\* MspPort.request, which sends again every five seconds.
EnterPassthrough ==
    /\ pc = "msp"
    /\ \/ /\ probes < MaxAsked /\ probes' = probes + 1
          /\ sent' = Append(sent, "passthrough")
          /\ UNCHANGED <<pc, inp, failed>>
       \/ /\ inp # <<>> /\ inp' = Tail(inp) /\ probes' = 0
          /\ pc' = "alive" /\ UNCHANGED <<sent, failed>>
       \/ /\ probes = MaxAsked
          /\ failed' = TRUE /\ pc' = "over" /\ UNCHANGED <<sent, inp, probes>>
    /\ UNCHANGED <<tool, controller, saved, asked>>

\* send: the command, and the place where its answer is waited for.
Sends(cmd, at, next) ==
    /\ pc = at /\ pc' = next
    /\ sent' = Append(sent, cmd)
    /\ UNCHANGED inp

Asks ==
    /\ Stays
    /\ \/ Sends("alive", "alive", "aliveAnswer")
       \/ Sends("devinfo", "devinfo", "devinfoAnswer")
       \/ Sends("read", "read", "readAnswer")

\* read_reply: the first frame that stands in the input; frames read with it
\* in one piece are dropped with the buffer when it returns.
Takes(frame) ==
    /\ inp # <<>> /\ Head(inp) = frame
    /\ \E n \in 1..Len(inp) : inp' = SubSeq(inp, n + 1, Len(inp))

\* The interface is alive, at the second try after a resync that drains it.
Alive ==
    /\ pc = "aliveAnswer"
    /\ \/ /\ \E frame \in ToSet(inp) : Takes(frame) /\ frame # "error"
          /\ pc' = "init" /\ UNCHANGED <<sent, failed>>
       \/ pc' = "aliveAgain" /\ UNCHANGED <<sent, inp, failed>>
    /\ UNCHANGED <<tool, controller, saved, asked, probes>>
Resync ==
    /\ pc = "aliveAgain"
    /\ inp' = <<>> /\ sent' = Append(sent, "alive")
    /\ pc' = "secondAnswer"
    /\ Stays
SecondAnswer ==
    /\ pc = "secondAnswer"
    /\ \/ \E frame \in ToSet(inp) \ {"error"} : Takes(frame) /\ pc' = "init" /\ UNCHANGED failed
       \/ Raises /\ UNCHANGED inp
    /\ UNCHANGED <<tool, controller, sent, saved, asked, probes>>

\* The loop of probes: an answer that comes after its 120 ms finds the next
\* probe waiting.
Probe ==
    /\ pc = "init" /\ probes < MaxProbes
    /\ probes' = probes + 1 /\ sent' = Append(sent, "init") /\ pc' = "probe"
    /\ UNCHANGED <<tool, controller, inp, saved, failed, asked>>
Probed ==
    /\ pc = "probe"
    /\ \/ \E frame \in ToSet(inp) \ {"error"} :
             Takes(frame) /\ pc' = IF tool = "script" THEN "devinfo" ELSE "read"
       \/ Takes("error") /\ pc' = "init"
       \/ inp' = inp /\ pc' = "init"
    /\ UNCHANGED <<sent, asked>> /\ Stays
ProbesEnd ==
    /\ pc = "init" /\ probes = MaxProbes
    /\ \/ /\ tool = "session" /\ ~asked /\ asked' = TRUE /\ probes' = 0
          /\ UNCHANGED <<pc, failed>>
       \/ (tool = "script" \/ asked) /\ Raises /\ UNCHANGED <<asked, probes>>
    /\ UNCHANGED <<tool, controller, sent, inp, saved>>

\* FourWay.cmd: any answer that is not an error is the answer.
Devinfo ==
    /\ pc = "devinfoAnswer"
    /\ \/ \E frame \in ToSet(inp) \ {"error"} : Takes(frame) /\ pc' = "read" /\ UNCHANGED failed
       \/ Raises /\ UNCHANGED inp
    /\ UNCHANGED <<tool, controller, sent, saved, asked, probes>>

\* Only the script looks at the length: no other answer is as long.
AnyLength(frame) == TRUE
RightLength(frame) == tool = "script" => frame = "read"

Read ==
    /\ pc = "readAnswer"
    /\ \/ \E frame \in ToSet(inp) \ {"error"} :
             /\ Takes(frame)
             /\ IF RightLength(frame) THEN saved' = frame /\ pc' = "leave" /\ UNCHANGED failed
                ELSE Raises /\ UNCHANGED saved
       \/ Raises /\ UNCHANGED <<inp, saved>>
    /\ UNCHANGED <<tool, controller, sent, asked, probes>>

\* The finally clause: reset and exit are sent and not waited for, and a
\* write that fails is ignored.
Leave ==
    /\ pc = "leave"
    /\ sent' \in {sent \o <<"reset", "exit">>, sent \o <<"reset">>, sent}
    /\ pc' = "over"
    /\ UNCHANGED inp /\ Stays

Next ==
    \/ Serve \/ PowerCycle \/ EnterPassthrough \/ Asks \/ Alive \/ Resync \/ SecondAnswer
    \/ Probe \/ Probed \/ ProbesEnd \/ Devinfo \/ Read \/ Leave
-----------------------------------------------------------------------------
TypeOK ==
    /\ tool \in {"script", "session"} /\ mode \in {"msp", "fourway"} /\ esc \in {"app", "boot"}
    /\ probes \in 0..(MaxProbes + MaxAsked) /\ failed \in BOOLEAN /\ asked \in BOOLEAN
    /\ saved \in {"none", "count", "alive", "init", "devinfo", "read"}

\* The script saves the eeprom or nothing, whichever probe is answered late.
ImageHonest == tool = "script" => saved \in {"none", "read"}

\* "raw eeprom plus the values as the config tools display them": the docstring
\* of read_settings (capture_session.py:463).  Violated: the answer to an
\* earlier probe is taken for the image.
SettingsHonest == saved \in {"none", "read"}
=============================================================================
