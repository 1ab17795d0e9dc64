---------------------------- MODULE SerialLinker ----------------------------
(***************************************************************************)
(* The 1-wire linker of the SITL bench (SITL/sitl_serial_bridge.py class   *)
(* SerialBridge) behind the faults a user may put on its link              *)
(* (SITL/sitl_faults.py).  The host's bytes go out on the signal wire and  *)
(* come back as an echo; an ESC that does not answer the first command is  *)
(* reset into its bootloader, and that command is sent again.  A frame is  *)
(* the tuple of the chunks it was made of: chunk 1 is the host's probe,    *)
(* the others write to the flash.                                          *)
(***************************************************************************)
EXTENDS Naturals, Sequences

CONSTANTS
    Last,           \* bound: the host's last chunk
    MaxProbes,      \* bound: probes the host sends
    MaxFaults,      \* bound: faults of the link
    MaxRetries      \* bound: probes the bridge sends again

VARIABLES
    asked,          \* the last chunk the host has sent
    probes,
    inbound,        \* chunks at the endpoint
    busy,           \* wire_busy_until is ahead
    echoes,         \* echo_due
    pending, connected, resetDone,
    window,         \* retry_until is ahead
    retries,
    wire,           \* frames on the signal wire
    esc,            \* "app", "down" while it resets, "boot"
    runs,           \* how often the bootloader executed each chunk
    answers,        \* port.serial_rx
    written,        \* what the bridge has handed to its endpoint
    seen,           \* answers that reached the host
    faults

bridgeVars == <<busy, echoes, pending, connected, resetDone, window, retries, written>>
vars == <<asked, probes, inbound, bridgeVars, wire, esc, runs, answers, seen, faults>>

Chunks == 1..Last
None == <<>>

Init ==
    /\ asked = 0 /\ probes = 0 /\ inbound = <<>> /\ busy = FALSE /\ echoes = <<>>
    /\ pending = None /\ connected = FALSE /\ resetDone = FALSE /\ window = FALSE /\ retries = 0
    /\ wire = <<>> /\ esc \in {"app", "boot"} /\ runs = [c \in Chunks |-> 0] /\ answers = <<>>
    /\ written = <<>> /\ seen = {} /\ faults = 0

--------------------------------------------------------------------------
(* LinkFaults.apply.  What is cut or corrupted is a frame nobody answers.  *)

\* The chunks that are delivered of one, and what that costs.
Faulted(c) == {<<<<c>>, 0>>} \cup (IF faults < MaxFaults THEN {<<<<>>, 1>>, <<<<c, c>>, 1>>, <<<<0>>, 1>>} ELSE {})

\* read joins what it was given, so that a chunk sent twice is one chunk.
HostSends ==
    /\ \/ /\ (asked = 0 \/ (asked = 1 /\ 1 \notin seen)) /\ probes < MaxProbes
          /\ asked' = 1 /\ probes' = probes + 1
       \/ asked \in seen /\ asked < Last /\ asked' = asked + 1 /\ UNCHANGED probes
    /\ \E f \in Faulted(asked') :
        /\ inbound' = IF f[1] = <<>> THEN inbound ELSE Append(inbound, f[1])
        /\ faults' = faults + f[2]
    /\ UNCHANGED <<bridgeVars, wire, esc, runs, answers, seen>>

--------------------------------------------------------------------------
(* SerialBridge.  The passes of _loop: a chunk of the host is forwarded,   *)
(* then what the ESC said is drained, or else echoes and retries are due.  *)

\* Without a gap the chunk continues the frame that is being sent.
ToEsc ==
    /\ inbound # <<>> /\ inbound' = Tail(inbound) /\ busy' = TRUE
    /\ LET c == Head(inbound)  gap == ~busy IN
        /\ wire' = IF gap \/ wire = <<>> THEN Append(wire, c)
                   ELSE [wire EXCEPT ![Len(wire)] = @ \o c]
        /\ pending' = IF gap THEN c ELSE pending \o c
        /\ echoes' = Append(echoes, c)
    /\ UNCHANGED <<asked, probes, connected, resetDone, window, retries, written, esc, runs, answers, seen, faults>>

\* The bytes are out: the wire is idle, and their echoes are due.
WireIdle ==
    /\ busy /\ busy' = FALSE
    /\ UNCHANGED <<asked, probes, inbound, echoes, pending, connected, resetDone, window, retries,
                   written, wire, esc, runs, answers, seen, faults>>

Echoed(s) == [i \in DOMAIN s |-> <<"echo", s[i]>>]

FlushEcho ==
    /\ answers = <<>> /\ echoes # <<>> /\ (~busy \/ Len(echoes) > 1)
    /\ echoes' = Tail(echoes) /\ written' = Append(written, <<"echo", Head(echoes)>>)
    /\ UNCHANGED <<asked, probes, inbound, busy, pending, connected, resetDone, window, retries,
                   wire, esc, runs, answers, seen, faults>>

\* The echo goes out before the answer; what the link does to an answer, only the
\* host notices.
FromEsc ==
    /\ answers # <<>> /\ answers' = Tail(answers) /\ echoes' = <<>>
    /\ written' = written \o Echoed(echoes) \o <<<<"answer", Head(answers)>>>>
    /\ connected' = TRUE /\ pending' = None /\ window' = FALSE
    /\ \E f \in Faulted(Head(answers)) :
        /\ seen' = IF Head(answers) \in {f[1][i] : i \in DOMAIN f[1]} THEN seen \cup {Head(answers)} ELSE seen
        /\ faults' = faults + f[2]
    /\ UNCHANGED <<asked, probes, inbound, busy, resetDone, retries, wire, esc, runs>>

\* Nothing came back from the first command.
Unanswered == ~connected /\ pending # None

Reset ==
    /\ Unanswered /\ ~resetDone /\ resetDone' = TRUE /\ window' = TRUE /\ esc' = "down" /\ wire' = <<>>
    /\ UNCHANGED <<asked, probes, inbound, busy, echoes, pending, connected, retries, written,
                   runs, answers, seen, faults>>

\* flush_serial may take an answer that arrived since the loop drained.
Retry ==
    /\ Unanswered /\ resetDone /\ window /\ retries < MaxRetries /\ retries' = retries + 1
    /\ answers' = <<>> /\ wire' = Append(wire, pending) /\ busy' = TRUE
    /\ UNCHANGED <<asked, probes, inbound, echoes, pending, connected, resetDone, window, written,
                   esc, runs, seen, faults>>

WindowCloses ==
    /\ window /\ window' = FALSE
    /\ UNCHANGED <<asked, probes, inbound, busy, echoes, pending, connected, resetDone, retries,
                   written, wire, esc, runs, answers, seen, faults>>

--------------------------------------------------------------------------
(* The ESC: its application ignores the wire, its bootloader answers a     *)
(* frame that is one command.                                              *)
Hears ==
    /\ wire # <<>> /\ wire' = Tail(wire)
    /\ LET f == Head(wire)  good == esc = "boot" /\ Len(f) = 1 /\ f[1] # 0 IN
        /\ runs' = IF good THEN [runs EXCEPT ![f[1]] = @ + 1] ELSE runs
        /\ answers' = IF good THEN Append(answers, f[1]) ELSE answers
    /\ UNCHANGED <<asked, probes, inbound, bridgeVars, esc, seen, faults>>

\* It starts in the bootloader, which starts the application if nobody talks.
Boots ==
    /\ esc' = CASE esc = "down" -> "boot" [] esc = "boot" /\ 1 \notin seen -> "app" [] OTHER -> esc
    /\ esc' # esc
    /\ UNCHANGED <<asked, probes, inbound, bridgeVars, wire, runs, answers, seen, faults>>

Next ==
    \/ HostSends \/ ToEsc \/ WireIdle \/ FlushEcho \/ FromEsc \/ Reset \/ Retry \/ WindowCloses
    \/ Hears \/ Boots

--------------------------------------------------------------------------
TypeOK ==
    /\ asked \in 0..Last /\ probes \in 0..MaxProbes /\ esc \in {"app", "down", "boot"}
    /\ {busy, connected, resetDone, window} \subseteq BOOLEAN /\ seen \subseteq Chunks
    /\ runs \in [Chunks -> Nat] /\ faults \in 0..MaxFaults /\ retries \in 0..MaxRetries

\* What the bridge sends again never repeats a write (the docstring of _retry): the
\* bootloader executes one as often as the link delivered it, whatever was lost.
WritesOnce == \A c \in Chunks \ {1} : runs[c] <= 1

\* The host finds the echo of what it sent before the answer to it, and once: both
\* configurators strip exactly those bytes to find the reply.
EchoFirst ==
    LET ends == {i \in DOMAIN written : written[i][1] = "answer"} IN
    /\ \A i \in ends : \E j \in 1..(i - 1) :
        written[j][1] = "echo" /\ written[i][2] \in {written[j][2][k] : k \in DOMAIN written[j][2]}
    /\ \A c \in Chunks \ {1} : \A i, j \in DOMAIN written :
        written[i] = <<"echo", <<c>>>> /\ written[j] = written[i] => i = j
============================================================================
