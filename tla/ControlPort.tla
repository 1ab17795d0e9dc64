---------------------------- MODULE ControlPort ----------------------------
(***************************************************************************)
(* The launcher's control port (gui.py): a thread per client hands each    *)
(* line to the window's thread, which takes one every 50 ms and answers in *)
(* a queue that belongs to the line; the client's thread waits for it at   *)
(* most 70 s.  The command "target" lets the window wait for a resolver    *)
(* thread, and "start" may leave a download behind.                        *)
(***************************************************************************)
EXTENDS Naturals, Sequences

CONSTANTS
    Clients,
    Targets,
    Settings,       \* protocol, ESC count, flight controller and its boot mode
    MaxLines        \* bound: lines of a client

VARIABLES
    sent,           \* per client, the commands so far
    replies,        \* per client, [command, answer]
    asked,          \* per client, the command its thread waits for, or None
    pending,        \* commands for the window, [client, n, verb, arg]
    done,           \* what the window has put into queues, [client, n, answer]
    busy,           \* the command "target" the window waits in, or None
    selected, target,   \* of the combo box, and lab.target
    resolving,      \* targets of resolver threads
    setting,
    launch,         \* what runs, [target, setting], or None
    installing,     \* targets whose downloads will start them
    startable       \* start_btn is enabled

vars == <<sent, replies, asked, pending, done, busy, selected, target,
          resolving, setting, launch, installing, startable>>
port == <<sent, replies, asked, pending>>
window == <<selected, target, resolving, setting, launch, installing, startable>>

None == [verb |-> "none"]
Lines == [verb : {"target"}, arg : Targets] \cup [verb : {"set"}, arg : Settings]
         \cup [verb : {"start", "stop", "other"}, arg : {"-"}]

--------------------------------------------------------------------------
(* run_control_server and on_command.                                      *)
Send(c) ==
    /\ asked[c] = None /\ Len(sent[c]) < MaxLines
    /\ \E l \in Lines :
           LET m == [client |-> c, n |-> Len(sent[c]) + 1, verb |-> l.verb, arg |-> l.arg]
           IN /\ sent' = [sent EXCEPT ![c] = Append(@, l.verb)]
              /\ asked' = [asked EXCEPT ![c] = m] /\ pending' = Append(pending, m)
    /\ UNCHANGED <<replies, done, busy, window>>

Reply(c, answer) ==
    /\ replies' = [replies EXCEPT ![c] = Append(@, answer)]
    /\ asked' = [asked EXCEPT ![c] = None]

Answered(c) ==
    /\ \E d \in done :
           /\ d.client = c /\ asked[c] # None /\ d.n = asked[c].n
           /\ Reply(c, [verb |-> d.verb, answer |-> d.answer, target |-> d.target])
           /\ done' = done \ {d}
    /\ UNCHANGED <<sent, pending, busy, window>>

\* After 70 s: the command stays where it is, and is carried out later.
TimesOut(c) ==
    /\ asked[c] # None
    /\ Reply(c, [verb |-> asked[c].verb, answer |-> "timeout", target |-> target])
    /\ UNCHANGED <<sent, pending, done, busy, window>>

--------------------------------------------------------------------------
(* handle_command, in the window's thread.                                 *)
Done(m, answer) ==
    done' = done \cup {[client |-> m.client, n |-> m.n, verb |-> m.verb,
                        answer |-> answer, target |-> target']}
Take(verb) == busy = None /\ pending # <<>> /\ Head(pending).verb = verb
              /\ pending' = Tail(pending) /\ UNCHANGED <<sent, replies, asked>>
Took == Head(pending)
Running == launch # None

\* Another selection is resolved, and stops what runs unless it is lab's target.
Chosen(t) ==
    /\ selected' = t
    /\ resolving' = resolving \cup ({t} \ {selected})
    /\ IF t \in {selected, target} THEN UNCHANGED <<launch, startable>>
       ELSE launch' = None /\ startable' = (startable \/ Running)

CmdTarget ==
    /\ Take("target") /\ Chosen(Took.arg) /\ busy' = Took
    /\ UNCHANGED <<done, target, setting, installing>>

\* drain_log: a resolved target counts if it is still the selected one.
Resolved ==
    /\ \E t \in resolving :
           /\ resolving' = resolving \ {t}
           /\ target' = IF t = selected THEN t ELSE target
    /\ UNCHANGED <<port, done, busy, selected, setting, launch, installing, startable>>

TargetReached ==
    /\ busy # None /\ target = busy.arg
    /\ UNCHANGED window /\ Done(busy, "OK") /\ busy' = None
    /\ UNCHANGED port

TargetGivenUp ==
    /\ busy # None /\ target # busy.arg
    /\ UNCHANGED window /\ Done(busy, "ERR") /\ busy' = None
    /\ UNCHANGED port

CmdSet ==
    /\ Take("set")
    /\ setting' = IF Running THEN setting ELSE Took.arg
    /\ UNCHANGED <<selected, target, resolving, launch, installing, startable>>
    /\ Done(Took, IF Running THEN "ERR" ELSE "OK")
    /\ UNCHANGED busy

\* start_lab: reads the settings now; refused while it runs and without a target.
Starts ==
    IF Running \/ target = "none" THEN UNCHANGED launch
    ELSE launch' = [verb |-> "run", target |-> target, setting |-> setting]

\* do_start, with local images or with releases, which a thread installs first;
\* the button is looked at for the answer, not before.
CmdStart ==
    /\ Take("start")
    /\ \/ Starts /\ UNCHANGED installing
          /\ startable' = (launch' = launch /\ startable)
       \/ installing' = installing \cup {target} /\ UNCHANGED launch /\ startable' = FALSE
    /\ UNCHANGED <<selected, target, resolving, setting, busy>>
    /\ Done(Took, IF startable' THEN "ERR" ELSE "OK")

\* The launch, unless the target has changed or the installation failed.
ArtifactsReady ==
    /\ \E t \in installing :
           /\ installing' = installing \ {t}
           /\ \/ t = target /\ Starts
              \/ UNCHANGED launch
    /\ startable' = (launch' = launch)
    /\ UNCHANGED <<port, done, busy, selected, target, resolving, setting>>

CmdStop ==
    /\ Take("stop")
    /\ launch' = None /\ startable' = TRUE
    /\ UNCHANGED <<selected, target, resolving, setting, installing, busy>>
    /\ Done(Took, "OK")

\* status and the boxes nothing depends on; "canbus" without a number raises in
\* the window, and is never answered.
CmdOther ==
    /\ Take("other")
    /\ UNCHANGED <<window, busy>>
    /\ Done(Took, "OK") \/ UNCHANGED done

Init ==
    /\ sent = [c \in Clients |-> <<>>] /\ replies = [c \in Clients |-> <<>>]
    /\ asked = [c \in Clients |-> None] /\ pending = <<>> /\ done = {} /\ busy = None
    /\ selected = "none" /\ target = "none" /\ resolving = {}
    /\ setting \in Settings /\ launch = None /\ installing = {} /\ startable = TRUE

Next ==
    \/ \E c \in Clients : Send(c) \/ Answered(c) \/ TimesOut(c)
    \/ CmdTarget \/ Resolved \/ TargetReached \/ TargetGivenUp
    \/ CmdSet \/ CmdStart \/ ArtifactsReady \/ CmdStop \/ CmdOther

--------------------------------------------------------------------------
TypeOK ==
    /\ {selected, target} \subseteq Targets \cup {"none"}
    /\ resolving \subseteq Targets /\ installing \subseteq Targets \cup {"none"}
    /\ setting \in Settings /\ startable \in BOOLEAN
    /\ \A c \in Clients : Len(sent[c]) <= MaxLines

\* A client reads one reply per line, and a reply is to that line: an answer that
\* comes after its time never becomes the answer to a later line.
RepliesOwn ==
    \A c \in Clients :
        /\ Len(sent[c]) = Len(replies[c]) + IF asked[c] = None THEN 0 ELSE 1
        /\ \A k \in DOMAIN replies[c] : replies[c][k].verb = sent[c][k]

\* What runs has the settings that are shown: no line changes them under it, also
\* not while a download that was started earlier becomes a launch.
RunSettled == Running => launch.setting = setting
=============================================================================
