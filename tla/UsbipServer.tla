---------------------------- MODULE UsbipServer ----------------------------
(***************************************************************************)
(* escsim/control/usbip.py, class UsbipServer: one exported USB serial     *)
(* device.  The server thread accepts one host at a time and answers its   *)
(* URBs; the writer thread completes queued reads or leaves bytes for the  *)
(* next one; another thread closes the server.  send_lock orders what is   *)
(* put on the connection - and sendall may block under it.                 *)
(*                                                                         *)
(* A byte is its place in what was written.  An OUT transfer, a control    *)
(* transfer and a stall are answered at once and are one kind of URB here; *)
(* their contents are left out, and so is what device lists say.           *)
(***************************************************************************)
EXTENDS Naturals, Sequences, FiniteSets

CONSTANTS
    RxMax,          \* UsbipServer.rx_max, in OUT transfers
    Buffer,         \* replies the connection holds until the host reads them
    Lengths,        \* lengths of read URBs and of writes
    MaxUrbs,        \* bound: URBs over all sessions
    MaxBytes,       \* bound: bytes written
    MaxSessions     \* bound: connections of hosts

Urbs == 1..MaxUrbs
Bytes == 1..MaxBytes
NoReply == [urb |-> 0, missed |-> 0, bytes |-> <<>>]

VARIABLES
    running,        \* UsbipServer.running
    conn,           \* UsbipServer.conn is set
    pending,        \* UsbipServer.pending: reads waiting for bytes
    intr,           \* UsbipServer.intr
    txHeld,         \* UsbipServer.tx_held
    rx,             \* OUT transfers in UsbipServer.rx
    lock,           \* holder of send_lock while it is sending, or "free"
    reply,          \* what the holder sends: the URB it completes, or the one
                    \* an unlink did not find, and the bytes it carries
    spc,            \* the server thread
    wpc, data,      \* the writer: idle, writing or sending, and its bytes left
    cpc,            \* the thread that calls close
    queued,         \* external: a host's connection not yet accepted
    line,           \* external: the accepted connection, "up" or "cut"
    inbox,          \* external: commands of the host not yet received
    unread,         \* external: replies the host has not read
    asked, given,   \* external: the URBs the host submitted in this session,
                    \* and those it has given up
    done,           \* how often each of them was completed
    got,            \* the bytes the session's completed reads carried
    nextUrb, nextByte, sessions     \* bookkeeping for the bounds

device  == <<pending, intr, txHeld>>
server  == <<conn, spc>>
writer  == <<wpc, data, nextByte>>
closer  == <<running, cpc>>
host    == <<queued, line, sessions>>
wire    == <<inbox, unread>>
session == <<asked, given, done, got, nextUrb>>
vars    == <<device, rx, lock, reply, server, writer, closer, host, wire, session>>

Init ==
    /\ running = TRUE /\ conn = FALSE
    /\ pending = <<>> /\ intr = {} /\ txHeld = <<>> /\ rx = 0
    /\ lock = "free" /\ reply = NoReply
    /\ spc = "accept"
    /\ wpc = "idle" /\ data = <<>>
    /\ cpc = "open"
    /\ queued = FALSE /\ line = "none" /\ inbox = <<>> /\ unread = 0
    /\ asked = {} /\ given = {} /\ done = [u \in Urbs |-> 0] /\ got = <<>>
    /\ nextUrb = 1 /\ nextByte = 1 /\ sessions = 0

\* The first n of s, and the rest.
First(s, n) == SubSeq(s, 1, IF n < Len(s) THEN n ELSE Len(s))
Rest(s, n) == SubSeq(s, n + 1, Len(s))

-----------------------------------------------------------------------------
(* Sending, under send_lock: _ret_submit and the end of _unlink.           *)

Holds(t, urb, missed, bytes) ==
    /\ lock = "free"
    /\ lock' = t
    /\ reply' = [urb |-> urb, missed |-> missed, bytes |-> bytes]

\* Mutant: the lock is not given back when the connection fails.
SendEndsLocked(t) ==
    /\ lock = t
    /\ \/ /\ line = "up" /\ unread < Buffer
          /\ unread' = unread + 1
          /\ done' = [u \in Urbs |-> IF u = reply.urb THEN done[u] + 1 ELSE done[u]]
          /\ got' = got \o reply.bytes
          /\ lock' = "free"
       \/ /\ line = "cut"
          /\ UNCHANGED <<unread, done, got, lock>>
    /\ reply' = NoReply

\* sendall returns once the reply is in the connection, or fails.
SendEnds(t) ==
    /\ lock = t
    /\ \/ /\ line = "up" /\ unread < Buffer
          /\ unread' = unread + 1
          /\ done' = [u \in Urbs |-> IF u = reply.urb THEN done[u] + 1 ELSE done[u]]
          /\ got' = got \o reply.bytes
       \/ /\ line = "cut"
          /\ UNCHANGED <<unread, done, got>>
    /\ lock' = "free"
    /\ reply' = NoReply

-----------------------------------------------------------------------------
(* The server thread: _serve and _session.                                 *)

Accept ==
    /\ spc = "accept"
    /\ \/ ~running /\ spc' = "exited" /\ UNCHANGED <<queued, line>>
       \/ /\ queued
          /\ queued' = FALSE
          /\ IF running THEN line' = "up" /\ spc' = "accepted"
             ELSE spc' = "exited" /\ UNCHANGED line
    /\ UNCHANGED <<device, rx, lock, reply, conn, writer, closer, sessions, wire, session>>

\* self.conn is set a moment after the look at `running', without the lock.
SessionBegins ==
    /\ spc = "accepted"
    /\ conn' = TRUE
    /\ spc' = "op"
    /\ UNCHANGED <<device, rx, lock, reply, writer, closer, host, wire, session>>

\* The op phase: the host imports the device, asks for another one or hangs up.
Imported ==
    /\ spc = "op" /\ line = "up"
    /\ inbox # <<>> /\ Head(inbox).op = "import"
    /\ inbox' = Tail(inbox)
    /\ spc' = IF running THEN "urb" ELSE "ending"
    /\ UNCHANGED <<device, rx, lock, reply, conn, writer, closer, host, unread, session>>

\* Another device, or a command nobody knows: the session is over.
Unknown ==
    /\ spc \in {"op", "urb"} /\ line = "up"
    /\ inbox # <<>> /\ Head(inbox).op = "other"
    /\ inbox' = Tail(inbox)
    /\ spc' = "ending"
    /\ UNCHANGED <<device, rx, lock, reply, conn, writer, closer, host, unread, session>>

SessionFails ==
    /\ spc \in {"op", "urb"}
    /\ line = "cut"
    /\ spc' = "ending"
    /\ UNCHANGED <<device, rx, lock, reply, conn, writer, closer, host, wire, session>>

\* The next command, and where the loop goes on.
Receives(op) ==
    /\ spc = "urb" /\ lock = "free"
    /\ inbox # <<>> /\ Head(inbox).op = op
    /\ inbox' = Tail(inbox)
    /\ UNCHANGED <<conn, writer, closer, host, unread, session>>

Cmd == Head(inbox)
Loops == spc' = IF running THEN "urb" ELSE "ending"

\* Mutant: received data is kept although rx is full.
AnswerNowOverflows ==
    /\ Receives("now")
    /\ rx' \in {rx, rx + 1}
    /\ Holds("server", Cmd.urb, 0, <<>>)
    /\ spc' = "sending"
    /\ UNCHANGED device

\* ep 0, a stall, or OUT data, which is acknowledged even if rx is full.
AnswerNow ==
    /\ Receives("now")
    /\ rx' \in {rx, IF rx < RxMax THEN rx + 1 ELSE rx}
    /\ Holds("server", Cmd.urb, 0, <<>>)
    /\ spc' = "sending"
    /\ UNCHANGED device

ReadHeld ==
    /\ Receives("in")
    /\ txHeld # <<>>
    /\ Holds("server", Cmd.urb, 0, First(txHeld, Cmd.len))
    /\ txHeld' = Rest(txHeld, Cmd.len)
    /\ spc' = "sending"
    /\ UNCHANGED <<pending, intr, rx>>

\* Mutant: a read is queued without a look at what is held.
ReadQueuedAnyway ==
    /\ Receives("in")
    /\ pending' = Append(pending, [urb |-> Cmd.urb, len |-> Cmd.len])
    /\ Loops
    /\ UNCHANGED <<intr, txHeld, rx, lock, reply>>

ReadQueued ==
    /\ Receives("in")
    /\ txHeld = <<>>
    /\ pending' = Append(pending, [urb |-> Cmd.urb, len |-> Cmd.len])
    /\ Loops
    /\ UNCHANGED <<intr, txHeld, rx, lock, reply>>

Interrupt ==
    /\ Receives("intr")
    /\ intr' = intr \cup {Cmd.urb}
    /\ Loops
    /\ UNCHANGED <<pending, txHeld, rx, lock, reply>>

\* Mutant: an unlinked read stays queued.
UnlinkKeepsRead ==
    /\ Receives("unlink")
    /\ \E i \in DOMAIN pending : pending[i].urb = Cmd.urb
    /\ Holds("server", Cmd.urb, 0, <<>>)
    /\ spc' = "sending"
    /\ UNCHANGED <<device, rx>>

UnlinkRead ==
    /\ Receives("unlink")
    /\ \E i \in DOMAIN pending :
           /\ pending[i].urb = Cmd.urb
           /\ pending' = [j \in 1..(Len(pending) - 1) |->
                              IF j < i THEN pending[j] ELSE pending[j + 1]]
    /\ Holds("server", Cmd.urb, 0, <<>>)
    /\ spc' = "sending"
    /\ UNCHANGED <<intr, txHeld, rx>>

UnlinkInterrupt ==
    /\ Receives("unlink")
    /\ \A i \in DOMAIN pending : pending[i].urb # Cmd.urb
    /\ Cmd.urb \in intr
    /\ intr' = intr \ {Cmd.urb}
    /\ Holds("server", Cmd.urb, 0, <<>>)
    /\ spc' = "sending"
    /\ UNCHANGED <<pending, txHeld, rx>>

UnlinkMissed ==
    /\ Receives("unlink")
    /\ Cmd.urb \notin intr
    /\ \A i \in DOMAIN pending : pending[i].urb # Cmd.urb
    /\ Holds("server", 0, Cmd.urb, <<>>)
    /\ spc' = "sending"
    /\ UNCHANGED <<device, rx>>

ServerSent ==
    /\ spc = "sending"
    /\ SendEnds("server")
    /\ Loops
    /\ UNCHANGED <<device, rx, conn, writer, closer, host, inbox, asked, given, nextUrb>>

\* Mutant: what was queued for this host is kept for the next one.
SessionEndsKeeping ==
    /\ spc = "ending" /\ lock = "free"
    /\ conn' = FALSE
    /\ spc' = IF running THEN "accept" ELSE "exited"
    /\ line' = "none"
    /\ inbox' = <<>> /\ unread' = 0
    /\ asked' = {} /\ given' = {} /\ got' = <<>>
    /\ UNCHANGED <<device, rx, lock, reply, writer, closer, queued, sessions, done, nextUrb>>

\* The finally block of _serve.
SessionEnds ==
    /\ spc = "ending" /\ lock = "free"
    /\ conn' = FALSE
    /\ pending' = <<>> /\ intr' = {} /\ txHeld' = <<>>
    /\ spc' = IF running THEN "accept" ELSE "exited"
    /\ line' = "none"
    /\ inbox' = <<>> /\ unread' = 0
    /\ asked' = {} /\ given' = {} /\ got' = <<>>
    /\ UNCHANGED <<rx, lock, reply, writer, closer, queued, sessions, done, nextUrb>>

ServerStep ==
    \/ Accept \/ SessionBegins \/ Imported \/ Unknown \/ SessionFails
    \/ AnswerNow \/ ReadHeld \/ ReadQueued \/ Interrupt
    \/ UnlinkRead \/ UnlinkInterrupt \/ UnlinkMissed
    \/ ServerSent \/ SessionEnds

-----------------------------------------------------------------------------
(* The writer thread: write.                                               *)

Write ==
    /\ wpc = "idle"
    /\ \E n \in Lengths :
           /\ nextByte + n - 1 <= MaxBytes
           /\ data' = [i \in 1..n |-> nextByte + i - 1]
           /\ nextByte' = nextByte + n
    /\ wpc' = "writing"
    /\ UNCHANGED <<device, rx, lock, reply, server, closer, host, wire, session>>

WriteHeld ==
    /\ wpc = "writing" /\ lock = "free"
    /\ pending = <<>>
    /\ txHeld' = txHeld \o data
    /\ data' = <<>>
    /\ wpc' = "idle"
    /\ UNCHANGED <<pending, intr, rx, lock, reply, nextByte, server, closer, host, wire,
                   session>>

WriteChunk ==
    /\ wpc = "writing"
    /\ pending # <<>>
    /\ Holds("writer", Head(pending).urb, 0, First(data, Head(pending).len))
    /\ data' = Rest(data, Head(pending).len)
    /\ pending' = Tail(pending)
    /\ wpc' = "sending"
    /\ UNCHANGED <<intr, txHeld, rx, nextByte, server, closer, host, wire, session>>

WriterSent ==
    /\ wpc = "sending"
    /\ SendEnds("writer")
    /\ wpc' = IF data = <<>> THEN "idle" ELSE "writing"
    /\ UNCHANGED <<device, rx, data, nextByte, server, closer, host, inbox, asked, given,
                   nextUrb>>

WriterStep == WriteHeld \/ WriteChunk \/ WriterSent

\* read and drain
Read ==
    /\ rx > 0
    /\ rx' = 0
    /\ UNCHANGED <<device, lock, reply, server, writer, closer, host, wire, session>>

-----------------------------------------------------------------------------
(* close                                                                   *)

Close ==
    /\ cpc = "open"
    /\ running' = FALSE
    /\ cpc' = "listening"
    /\ UNCHANGED <<device, rx, lock, reply, server, writer, host, wire, session>>

\* accept was woken; the listening socket goes, with who waits on it.
CloseListener ==
    /\ cpc = "listening"
    /\ queued' = FALSE
    /\ cpc' = "cutting"
    /\ UNCHANGED <<device, rx, lock, reply, server, writer, running, line, sessions, wire,
                   session>>

CloseConnection ==
    /\ cpc = "cutting" /\ lock = "free"
    /\ line' = IF conn THEN "cut" ELSE line
    /\ cpc' = "joining"
    /\ UNCHANGED <<device, rx, lock, reply, server, writer, running, queued, sessions, wire,
                   session>>

\* join with a timeout: the thread ended, or it is left behind.
CloseReturns ==
    /\ cpc = "joining"
    /\ cpc' = "closed"
    /\ UNCHANGED <<device, rx, lock, reply, server, writer, running, host, wire, session>>

CloserStep == CloseListener \/ CloseConnection \/ CloseReturns

-----------------------------------------------------------------------------
(* External: the host's USB/IP client.                                     *)

Connect ==
    /\ cpc \in {"open", "listening"}
    /\ ~queued
    /\ sessions < MaxSessions
    /\ queued' = TRUE
    /\ sessions' = sessions + 1
    /\ UNCHANGED <<device, rx, lock, reply, server, writer, closer, line, wire, session>>

Sends(op, urb, len) ==
    /\ line = "up"
    /\ inbox' = Append(inbox, [op |-> op, urb |-> urb, len |-> len])
    /\ UNCHANGED <<device, rx, lock, reply, server, writer, closer, host, unread, done, got>>

Ask ==
    /\ spc \in {"accepted", "op"} /\ inbox = <<>>
    /\ \E op \in {"import", "other"} : Sends(op, 0, 0)
    /\ UNCHANGED <<asked, given, nextUrb>>

Submit ==
    /\ spc \in {"urb", "sending"}
    /\ nextUrb \in Urbs
    /\ \/ \E n \in Lengths : Sends("in", nextUrb, n)
       \/ \E op \in {"now", "intr"} : Sends(op, nextUrb, 0)
    /\ asked' = asked \cup {nextUrb}
    /\ nextUrb' = nextUrb + 1
    /\ UNCHANGED given

\* The host gives up a URB it has no answer of yet; one may be on the way.
Unlink ==
    /\ \E u \in asked \ given :
           /\ done[u] = 0 \/ unread > 0
           /\ Sends("unlink", u, 0)
           /\ given' = given \cup {u}
    /\ UNCHANGED <<asked, nextUrb>>

HostReads ==
    /\ unread > 0
    /\ unread' = unread - 1
    /\ UNCHANGED <<device, rx, lock, reply, server, writer, closer, host, inbox, session>>

HangUp ==
    /\ line = "up"
    /\ line' = "cut"
    /\ UNCHANGED <<device, rx, lock, reply, server, writer, closer, queued, sessions, wire,
                   session>>

-----------------------------------------------------------------------------
(* A run ends when the bounds are used up.                                 *)

Next ==
    \/ ServerStep \/ Write \/ WriterStep \/ Read \/ Close \/ CloserStep
    \/ Connect \/ Ask \/ Submit \/ Unlink \/ HostReads \/ HangUp

Spec == Init /\ [][Next]_vars

\* A thread that waits for send_lock gets it; the host's kernel reads what it
\* is sent, and a client that connected asks for something or hangs up.
FairSpec ==
    /\ Spec
    /\ SF_vars(ServerStep) /\ SF_vars(WriterStep) /\ SF_vars(CloserStep)
    /\ WF_vars(HostReads) /\ WF_vars(Ask \/ (spc = "op" /\ HangUp))

-----------------------------------------------------------------------------
(* What the queues, the connection and the threads hold.                   *)
TypeOK ==
    /\ running \in BOOLEAN /\ conn \in BOOLEAN /\ queued \in BOOLEAN
    /\ \A i \in DOMAIN pending : pending[i] \in [urb : Urbs, len : Lengths]
    /\ intr \subseteq Urbs
    /\ rx \in 0..RxMax
    /\ lock \in {"free", "server", "writer"}
    /\ lock = "server" <=> spc = "sending"
    /\ lock = "writer" <=> wpc = "sending"
    /\ spc \in {"accept", "accepted", "op", "urb", "sending", "ending", "exited"}
    /\ wpc \in {"idle", "writing", "sending"}
    /\ cpc \in {"open", "listening", "cutting", "joining", "closed"}
    /\ line \in {"none", "up", "cut"}
    /\ unread \in 0..Buffer
    /\ given \subseteq asked /\ asked \subseteq Urbs

(* Reads wait for bytes or bytes wait for a read, never both: a read queued
   while bytes are held would wait for the next write (usbip.py:405, 623). *)
HeldOrPending == pending = <<>> \/ txHeld = <<>>

\* The places where a URB may be, counted.
Times(u, s) == Cardinality({i \in DOMAIN s : s[i].urb = u})
Places(u) ==
    Cardinality({i \in DOMAIN inbox : inbox[i].urb = u /\ inbox[i].op # "unlink"})
        + Times(u, pending) + (IF u \in intr THEN 1 ELSE 0) + Times(u, <<reply>>)
        + done[u]

(* Across submit, unlink, completion by either thread and the end of a
   session, a URB is answered at most once, and while the connection stands
   none is forgotten. *)
EachUrbOnce ==
    \A u \in Urbs :
        /\ Places(u) <= 1
        /\ u \in asked /\ line = "up" => Places(u) = 1

(* No URB of an earlier host is queued, or completed on this one's
   connection. *)
OnlyThisHosts ==
    \A u \in Urbs :
        Times(u, pending) + Times(u, <<reply>>) > 0 \/ u \in intr => u \in asked

(* An unlink that found nothing says the URB was completed: it was, by a reply
   put on the connection before this one. *)
UnlinkHonest ==
    lock = "server" /\ reply.missed # 0 /\ line = "up" => done[reply.missed] = 1

(* Within a session the host reads what was written, in the order it was
   written and with nothing left out, whichever thread completes the reads
   and however chunks and held bytes alternate. *)
InOrder ==
    line = "up" /\ conn =>
        LET stream == got \o reply.bytes \o txHeld \o data
        IN  \A i \in 1..(Len(stream) - 1) : stream[i + 1] = stream[i] + 1

(* close returns, although a reply may be blocked on the host while it waits
   for send_lock (usbip.py:445). *)
CloseEnds == []<>(cpc \in {"open", "closed"})

(* Closing ends the server thread, also when it had just accepted a host that
   close did not see. *)
ServerEnds == []<>(running \/ spc = "exited")

(* The bytes of the firmware reach the host: in order, and none is held while a
   read waits for it. *)
StreamKept == HeldOrPending /\ InOrder

(* Every URB is completed exactly once, by its reply or by a truthful unlink. *)
UrbsSettled == EachUrbOnce /\ UnlinkHonest

(* Closing comes to an end, in both threads. *)
Ends == CloseEnds /\ ServerEnds
=============================================================================
