----------------------------- MODULE CanPanels -----------------------------
(***************************************************************************)
(* The DroneCAN side of the control panels of one launch                   *)
(* (control/backend.py CanPanel, CanCommandGroup): each panel has a node   *)
(* and a thread of its own, reads the switches that the window writes, and *)
(* commands the ESCs of all of them.  A panel is its esc_index; arming and  *)
(* telemetry are left out.  ESCs and the bus, which may lose a frame, are   *)
(* external.                                                               *)
(***************************************************************************)
EXTENDS Naturals, Sequences, FiniteSetsExt

CONSTANTS
    Panels,         \* a range of indices from 0
    Throttles,      \* beside 0
    MaxActs         \* bound: what users do

VARIABLES
    switch,         \* what the window writes: [running, enabled, dna, raw, throttle]
    thread,         \* [pc, anonymous, serving, node, vector, error]
    queue,          \* param_queue: parameters asked for
    results,        \* param_result
    bus,            \* the last RawCommand on it: [commands, current]
    had,            \* the parameters that reached the node with an index
    acts,           \* so far, for the bound
    asked,          \* parameters so far
    lately,         \* panels that wanted an ID since they last looked
    current         \* threads whose vector is built since the last act

vars == <<switch, thread, queue, results, bus, had, acts, asked, lately, current>>

Wants(p) == switch[p].enabled \/ switch[p].dna
Go(p, pc) == thread' = [thread EXCEPT ![p].pc = pc]
Posted(p, r) == results' = [results EXCEPT ![p] = Append(@, r)]

--------------------------------------------------------------------------
(* The window.                                                             *)
Act(p, s) ==
    /\ acts < MaxActs /\ switch[p].running /\ s # switch[p]
    /\ switch' = [switch EXCEPT ![p] = s]
    /\ acts' = acts + 1 /\ current' = {} /\ bus' = [bus EXCEPT !.current = FALSE]
    /\ lately' = IF s.enabled \/ s.dna THEN lately \cup {p} ELSE lately
    /\ UNCHANGED <<thread, queue, results, had, asked>>

Toggle(p) ==
    \/ Act(p, [switch[p] EXCEPT !.enabled = ~@])
    \/ Act(p, [switch[p] EXCEPT !.dna = ~@])
    \/ Act(p, [switch[p] EXCEPT !.raw = ~@])

SetThrottle(p) == \E t \in Throttles : Act(p, [switch[p] EXCEPT !.throttle = t])

\* cleanup waits 2 s for the thread, which then ends by itself.
Close(p) == Act(p, [switch[p] EXCEPT !.running = FALSE])

SetParam(p) ==
    /\ acts < MaxActs /\ switch[p].running
    /\ acts' = acts + 1 /\ asked' = [asked EXCEPT ![p] = @ + 1]
    /\ queue' = [queue EXCEPT ![p] = Append(@, asked[p] + 1)]
    /\ UNCHANGED <<switch, thread, results, bus, had, lately, current>>

--------------------------------------------------------------------------
(* _can_thread, one pass: spin, _handle_param, the ID, the allocator, and  *)
(* what is broadcast; each looks at the switches for itself.               *)
MakeNode(p) ==
    /\ thread[p].pc = "start"
    /\ \/ Go(p, "spin")
       \/ thread' = [thread EXCEPT ![p].pc = "ended", ![p].error = TRUE]
    /\ UNCHANGED <<switch, queue, results, bus, had, acts, asked, lately, current>>

\* on_esc_status: the sender of the status of this index is its node; looked at
\* by _handle_param alone.
Spin(p) ==
    /\ thread[p].pc = "spin"
    /\ IF ~switch[p].running THEN Go(p, "ended")
       ELSE \E heard \in BOOLEAN : thread' = [thread EXCEPT
                ![p].pc = IF queue[p] = <<>> THEN "id" ELSE "param",
                ![p].node = @ \/ (heard /\ queue[p] # <<>>)]
    /\ UNCHANGED <<switch, queue, results, bus, had, acts, asked, lately, current>>

HandleParam(p) ==
    /\ thread[p].pc = "param"
    /\ \/ /\ thread[p].node /\ ~thread[p].anonymous
          /\ Go(p, "set") /\ UNCHANGED <<queue, results>>
       \/ /\ ~thread[p].node \/ thread[p].anonymous
          /\ Go(p, "id") /\ queue' = [queue EXCEPT ![p] = Tail(@)]
          /\ Posted(p, IF thread[p].node THEN "passive" ELSE "no node")
    /\ UNCHANGED <<switch, bus, had, acts, asked, lately, current>>

\* Set, save and restart: a request reaches its node or not, and so does the
\* answer; only that to the first is looked at.
Request(p) ==
    /\ thread[p].pc \in {"set", "save", "restart"}
    /\ \E reached, answered \in BOOLEAN :
           /\ answered => reached
           /\ had' = IF reached /\ thread[p].pc = "set"
                     THEN [had EXCEPT ![p] = @ \cup {Head(queue[p])}] ELSE had
           /\ CASE thread[p].pc = "set" /\ answered -> Go(p, "save") /\ UNCHANGED <<queue, results>>
                [] thread[p].pc = "save" -> Go(p, "restart") /\ UNCHANGED <<queue, results>>
                [] OTHER ->
                     /\ Go(p, "id") /\ queue' = [queue EXCEPT ![p] = Tail(@)]
                     /\ Posted(p, IF thread[p].pc = "set" THEN "failed" ELSE "saved")
    /\ UNCHANGED <<switch, bus, acts, asked, lately, current>>

NodeId(p) ==
    /\ thread[p].pc = "id"
    /\ thread' = [thread EXCEPT ![p].pc = "allocator", ![p].anonymous = ~Wants(p)]
    /\ lately' = IF Wants(p) THEN lately \cup {p} ELSE lately \ {p}
    /\ UNCHANGED <<switch, queue, results, bus, had, acts, asked, current>>

\* An allocator on a node without an ID raises, which ends the thread.
Allocator(p) ==
    /\ thread[p].pc = "allocator"
    /\ thread' = [thread EXCEPT
           ![p].pc = IF switch[p].dna /\ ~thread[p].serving /\ thread[p].anonymous
                     THEN "raised" ELSE "send",
           ![p].serving = IF thread[p].anonymous THEN @ /\ switch[p].dna ELSE switch[p].dna]
    /\ UNCHANGED <<switch, queue, results, bus, had, acts, asked, lately, current>>

\* CanCommandGroup.raw_commands: a place for each index up to the last panel
\* that runs, with the throttle of those that command.
Running == {p \in Panels : switch[p].running}
Commands(q) == switch[q].running /\ switch[q].enabled /\ switch[q].raw
RawCommands ==
    IF Running = {} THEN <<0>>
    ELSE [i \in 1..(Max(Running) + 1) |->
              IF (i - 1) \in Panels /\ Commands(i - 1) THEN switch[i - 1].throttle ELSE 0]

\* The time to send comes with the rate; a broadcast without an ID raises.
Send(p) ==
    /\ thread[p].pc = "send"
    /\ \/ /\ Go(p, "spin")          \* not enabled, or not yet time
          /\ UNCHANGED current
       \/ /\ switch[p].enabled /\ thread[p].anonymous
          /\ Go(p, "raised")
          /\ UNCHANGED current
       \/ /\ switch[p].enabled /\ ~thread[p].anonymous
          /\ IF switch[p].raw
             THEN /\ thread' = [thread EXCEPT ![p].pc = "raw", ![p].vector = RawCommands]
                  /\ current' = current \cup {p}
             ELSE Go(p, "spin") /\ UNCHANGED current
    /\ UNCHANGED <<switch, queue, results, bus, had, acts, asked, lately>>

Broadcast(p) ==
    /\ thread[p].pc = "raw"
    /\ bus' = [bus EXCEPT !.commands = thread[p].vector, !.current = p \in current]
    /\ thread' = [thread EXCEPT ![p].pc = "spin", ![p].vector = <<>>]
    /\ current' = current \ {p}
    /\ UNCHANGED <<switch, queue, results, had, acts, asked, lately>>

Init ==
    /\ switch = [p \in Panels |-> [running |-> TRUE, enabled |-> FALSE, dna |-> FALSE,
                                   raw |-> TRUE, throttle |-> 0]]
    /\ thread = [p \in Panels |-> [pc |-> "start", anonymous |-> TRUE, serving |-> FALSE,
                                   node |-> FALSE, vector |-> <<>>, error |-> FALSE]]
    /\ queue = [p \in Panels |-> <<>>] /\ results = [p \in Panels |-> <<>>]
    /\ bus = [commands |-> <<>>, current |-> FALSE]
    /\ had = [p \in Panels |-> {}]
    /\ acts = 0 /\ asked = [p \in Panels |-> 0] /\ lately = {} /\ current = {}

Next == \E p \in Panels :
    \/ Toggle(p) \/ SetThrottle(p) \/ Close(p) \/ SetParam(p)
    \/ MakeNode(p) \/ Spin(p) \/ HandleParam(p)
    \/ Request(p) \/ NodeId(p) \/ Allocator(p) \/ Send(p) \/ Broadcast(p)

--------------------------------------------------------------------------
TypeOK ==
    /\ \A p \in Panels :
           /\ thread[p].pc \in {"start", "spin", "param", "set", "save", "restart", "id",
                                "allocator", "send", "raw", "raised", "ended"}
           /\ switch[p].throttle \in {0} \cup Throttles
    /\ acts \in 0..MaxActs

\* Two panels on one bus do not fight: a command that was put together after the
\* last change carries the throttle of every panel that commands, whoever sends it.
CommandsAgree ==
    bus.current =>
        \A p \in Panels :
            LET cs == bus.commands IN
            IF Commands(p) THEN Len(cs) > p /\ cs[p + 1] = switch[p].throttle
            ELSE Len(cs) > p => cs[p + 1] = 0

\* An idle window leaves the bus quiet: a node has an ID only if its panel has
\* wanted one since the thread last looked.
QuietWhenIdle == \A p \in Panels : ~thread[p].anonymous => p \in lately

\* Every parameter that is asked for is answered once, and one that is said to
\* be saved has reached its ESC.
ParamsAnswered ==
    \A p \in Panels :
        /\ Len(results[p]) + Len(queue[p]) = asked[p]
        /\ \A i \in DOMAIN results[p] :
               results[p][i] = "saved" => i \in had[p]
=============================================================================
