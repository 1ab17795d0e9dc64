----------------------------- MODULE ToneTools -----------------------------
(***************************************************************************)
(* The notes a motor beeps (control/backend.py ToneStream) and the command *)
(* line tools that print, record or assert them (control/tones.py).  The   *)
(* simulation, external here, sends a datagram when the tone changes and   *)
(* repeats it as a keepalive; a reset of the ESC forgets its subscribers   *)
(* and begins its time anew.  A note is <<frequency, amplitude>>.          *)
(***************************************************************************)
EXTENDS Integers, Sequences, SequencesExt

CONSTANTS
    Notes,          \* those the firmware beeps
    Kept,           \* maxlen of events
    Expected,       \* --notes: a sequence of <<note, duration>>
    MaxTime,        \* bound: the time a life of the simulation reaches
    MaxLives,       \* bound
    MaxWire         \* bound: datagrams on their way

VARIABLES
    played,         \* per life, the note of each moment so far
    subscribed,     \* the simulation knows this stream
    wire,           \* datagrams on their way
    events,
    stale,          \* nothing arrived for 0.3 s
    tool,           \* [mode, seen, printed, result]
    heard           \* all that was put into events

vars == <<played, subscribed, wire, events, stale, tool, heard>>

Silence == <<0, 0>>
Life == Len(played)
Now == Len(played[Life]) - 1
Playing == Last(played[Life])
Event(t) == [life |-> Life, t |-> t, note |-> Playing']
Sent(e) == IF subscribed THEN Append(wire, e) ELSE wire

--------------------------------------------------------------------------
(* The simulation.                                                         *)
Simulate ==
    /\ Now < MaxTime /\ Len(wire) < MaxWire /\ tool.result = "none"
    /\ \E n \in Notes \cup {Silence} :
           played' = [played EXCEPT ![Life] = Append(@, n)]
    /\ \/ wire' = Sent(Event(Now + 1))
       \/ Playing' = Playing /\ wire' = wire
    /\ UNCHANGED <<subscribed, events, stale, tool, heard>>

Reset ==
    /\ Life < MaxLives /\ tool.result = "none"
    /\ played' = Append(played, <<Silence>>)
    /\ subscribed' = FALSE
    /\ UNCHANGED <<wire, events, stale, tool, heard>>

\* _subscriber: at 0.02 s while stale, at 0.5 s otherwise.
Subscribe ==
    /\ ~subscribed /\ tool.result = "none"
    /\ subscribed' = TRUE
    /\ UNCHANGED <<played, wire, events, stale, tool, heard>>

\* No keepalive came for 0.3 s.
Stale ==
    /\ ~subscribed /\ wire = <<>> /\ ~stale
    /\ stale' = TRUE
    /\ UNCHANGED <<played, subscribed, wire, events, tool, heard>>

(* ToneStream._reader: a repeat of the newest event only keeps the stream  *)
(* fresh; the oldest of maxlen events makes room.                          *)
Repeats(e) == events # <<>> /\ Last(events).note = e.note

Read ==
    /\ wire # <<>> /\ tool.result = "none"
    /\ LET e == Head(wire) IN
           IF Repeats(e) THEN UNCHANGED <<events, heard>>
           ELSE /\ events' = (IF Len(events) = Kept THEN Tail(events) ELSE events) \o <<e>>
                /\ heard' = Append(heard, e)
    /\ wire' = Tail(wire) /\ stale' = FALSE
    /\ UNCHANGED <<played, subscribed, tool>>

Current == IF stale \/ events = <<>> THEN Silence ELSE Last(events).note

--------------------------------------------------------------------------
(* events_to_notes: a note lasts until the next event; the one that no     *)
(* event ends, and one that a reset ends, are dropped.                     *)
NotesOf(es, least) ==
    LET Ends(i) == es[i].note[2] >= least /\ es[i + 1].t > es[i].t
        idx == SelectSeq([i \in 1..(Len(es) - 1) |-> i], Ends)
    IN [k \in DOMAIN idx |-> [from |-> es[idx[k]], to |-> es[idx[k] + 1],
                              dur |-> es[idx[k] + 1].t - es[idx[k]].t]]

\* match_notes: the expected notes as a contiguous run of those captured.
Matched(ns) ==
    \E s \in 0..(Len(ns) - Len(Expected)) : \A k \in DOMAIN Expected :
        <<ns[s + k].from.note, ns[s + k].dur>> = Expected[k]

\* cmd_print: what is new since the last look, by its place in events.
CmdPrint ==
    /\ tool.mode = "print" /\ tool.result = "none" /\ Len(events) > tool.seen
    /\ tool' = [tool EXCEPT !.seen = Len(events),
                    !.printed = @ \o SubSeq(events, tool.seen + 1, Len(events))]
    /\ UNCHANGED <<played, subscribed, wire, events, stale, heard>>

\* cmd_wav: after its seconds all events are taken, and rendered to a file.
CmdWav ==
    /\ tool.mode = "wav" /\ tool.result = "none"
    /\ tool' = [tool EXCEPT !.result = "wrote", !.printed = NotesOf(events, -1)]
    /\ events' = <<>>
    /\ UNCHANGED <<played, subscribed, wire, stale, heard>>

\* cmd_assert: looks until the notes are found or the time is up.
CmdAssert ==
    /\ tool.mode = "assert" /\ tool.result = "none"
    /\ tool' = [tool EXCEPT
           !.printed = NotesOf(events, 1),
           !.result = IF Matched(NotesOf(events, 1)) THEN "PASS" ELSE "FAIL"]
    /\ UNCHANGED <<played, subscribed, wire, events, stale, heard>>

\* cmd_play, until the user interrupts it; cmd_print ends alike.  ToneSynth
\* plays what is current when the sink asks for samples.
CmdPlay ==
    /\ tool.mode = "play" /\ tool.result = "none"
    /\ tool' = [tool EXCEPT !.printed = <<Current>>]
    /\ UNCHANGED <<played, subscribed, wire, events, stale, heard>>

Interrupt ==
    /\ tool.mode \in {"print", "play"} /\ tool.result = "none"
    /\ tool' = [tool EXCEPT !.result = "stopped"]
    /\ UNCHANGED <<played, subscribed, wire, events, stale, heard>>

Init ==
    /\ played = <<<<Silence>>>> /\ subscribed = FALSE /\ wire = <<>>
    /\ events = <<>> /\ stale = TRUE /\ heard = <<>>
    /\ tool \in [mode : {"print", "wav", "assert", "play"}, seen : {0},
                 printed : {<<>>}, result : {"none"}]

Next ==
    \/ Simulate \/ Reset \/ Subscribe \/ Stale \/ Read
    \/ CmdPrint \/ CmdWav \/ CmdAssert \/ CmdPlay \/ Interrupt

--------------------------------------------------------------------------
TypeOK ==
    /\ Life \in 1..MaxLives /\ Now \in 0..MaxTime
    /\ subscribed \in BOOLEAN /\ stale \in BOOLEAN
    /\ Len(events) <= Kept
    /\ tool.result \in {"none", "wrote", "PASS", "FAIL", "stopped"}

\* A note of a record was played, throughout, from its beginning to the event
\* that ends it, and was not played on after that: no keepalive splits a note
\* and no reset ends up inside one, unless the new life has outlasted the old.
Whole(n) ==
    n.from.life = n.to.life =>
        /\ \A t \in n.from.t..(n.to.t - 1) : played[n.from.life][t + 1] = n.from.note
        /\ played[n.to.life][n.to.t + 1] # n.from.note
Forward(n) == n.to.life >= n.from.life /\ n.dur > 0

NotesPlayed ==
    LET ns == IF tool.mode \in {"wav", "assert"} THEN tool.printed ELSE <<>>
    IN \A k \in DOMAIN ns : Whole(ns[k]) /\ Forward(ns[k])

\* What the printing tool prints is every event once and in order, as long as
\* the stream has room for them all.
PrintsAll ==
    tool.mode = "print" /\ Len(heard) <= Kept => IsPrefix(tool.printed, heard)
=============================================================================
