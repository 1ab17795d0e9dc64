------------------------- MODULE UsbipServerProofs --------------------------
(***************************************************************************)
(* What the USB/IP server promises its host, for any number of URBs, bytes *)
(* and sessions: every URB is settled once and truthfully, none of an      *)
(* earlier host is completed, and the stream keeps its order.              *)
(*                                                                         *)
(* The first invariant, IInv, says where a URB may be; the second, SInv,   *)
(* that the pieces of the stream meet.                                     *)
(***************************************************************************)
EXTENDS UsbipServer, Integers, TLAPS, SequenceTheorems, FiniteSetTheorems

-----------------------------------------------------------------------------
(* Proofs, for any bounds and any lengths of reads and writes.             *)
(*                                                                         *)
(* That a URB is completed once is not inductive by itself: an unlink that *)
(* finds nothing is honest because the URB it names was asked for ahead of *)
(* it, and what the threads complete is what they have taken out of a      *)
(* queue under send_lock.  So the invariant says where a URB may be - in   *)
(* the inbox, queued, with the interrupts, in the reply, completed - and   *)
(* that it is in one place at a time.                                      *)

ConstantsOK ==
    RxMax \in Nat /\ Buffer \in Nat /\ MaxUrbs \in Nat /\ Lengths \subseteq Nat \ {0}

Reads == [urb : Urbs, len : Lengths]
Commands ==
    [op : {"import", "other"}, urb : {0}, len : {0}]
        \cup [op : {"in"}, urb : Urbs, len : Lengths]
        \cup [op : {"now", "intr", "unlink"}, urb : Urbs, len : {0}]

\* A URB is submitted in a queue of commands, or in a queue of reads.
Waits(u, q) == \E i \in DOMAIN q : q[i].urb = u /\ q[i].op # "unlink"
Reading(u, q) == \E i \in DOMAIN q : q[i].urb = u

\* The command that submits a URB is ahead of every other one that names it.
Ordered(q) ==
    \A i, j \in DOMAIN q :
        q[i].urb \in Urbs /\ q[i].urb = q[j].urb /\ q[i].op # "unlink" => i <= j

\* No read is queued twice.
Single(q) == \A i, j \in DOMAIN q : q[i].urb = q[j].urb => i = j

\* What the commands carry.
LEMMA CommandParts ==
    ASSUME ConstantsOK, NEW c \in Commands
    PROVE  /\ c.op \in {"import", "other"} => c.urb = 0
           /\ c.op \notin {"import", "other"} => c.urb \in Urbs
           /\ c.op = "in" => c.len \in Lengths
  BY SMT DEF Commands, Urbs, ConstantsOK

\* The server takes a command from the inbox.
LEMMA TakesCommand ==
    ASSUME NEW q \in Seq(Commands), q # <<>>, Ordered(q)
    PROVE  /\ Head(q) \in Commands /\ Tail(q) \in Seq(Commands) /\ Ordered(Tail(q))
           /\ \A u \in Urbs : Waits(u, Tail(q)) <=>
                Waits(u, q) /\ ~(Head(q).urb = u /\ Head(q).op # "unlink")
           /\ Head(q).urb \in Urbs /\ Head(q).op # "unlink" => Waits(Head(q).urb, q)
           /\ Head(q).urb \in Urbs /\ Head(q).op = "unlink" => ~Waits(Head(q).urb, q)
           /\ \A i \in DOMAIN Tail(q) : \E j \in DOMAIN q : Tail(q)[i] = q[j]
           /\ \E j \in DOMAIN q : Head(q) = q[j]
  <1>1. /\ Head(q) \in Commands /\ Tail(q) \in Seq(Commands)
        /\ Len(Tail(q)) = Len(q) - 1
        /\ \A i \in 1..Len(Tail(q)) : Tail(q)[i] = q[i + 1]
    BY HeadTailProperties
  <1>2. Len(q) \in Nat /\ Len(q) > 0 /\ Head(q) = q[1]
    BY EmptySeq
  <1>3. DOMAIN q = 1..Len(q) /\ DOMAIN Tail(q) = 1..(Len(q) - 1)
    BY <1>1, LenProperties
  <1>4. \A i \in DOMAIN Tail(q) : i + 1 \in DOMAIN q /\ Tail(q)[i] = q[i + 1]
    BY <1>1, <1>2, <1>3
  <1>5. \A j \in DOMAIN q : j = 1 \/ (j - 1 \in DOMAIN Tail(q) /\ Tail(q)[j - 1] = q[j])
    BY <1>1, <1>2, <1>3
  <1>6. 1 \in DOMAIN q
    BY <1>2, <1>3
  <1>7. Ordered(Tail(q))
    BY <1>3, <1>4 DEF Ordered
  <1>8. ASSUME NEW u \in Urbs
        PROVE  Waits(u, Tail(q)) <=> Waits(u, q) /\ ~(Head(q).urb = u /\ Head(q).op # "unlink")
    <2>1. Waits(u, Tail(q)) => Waits(u, q)
      BY <1>4 DEF Waits
    <2>2. ASSUME Waits(u, Tail(q)), Head(q).urb = u, Head(q).op # "unlink" PROVE FALSE
      <3> PICK i \in DOMAIN Tail(q) : Tail(q)[i].urb = u /\ Tail(q)[i].op # "unlink"
        BY <2>2 DEF Waits
      <3> i + 1 <= 1
        BY <1>2, <1>4, <1>6, <2>2 DEF Ordered
      <3> QED
        BY <1>2, <1>3
    <2>3. Waits(u, q) /\ ~(Head(q).urb = u /\ Head(q).op # "unlink") => Waits(u, Tail(q))
      BY <1>2, <1>5 DEF Waits
    <2> QED
      BY <2>1, <2>2, <2>3
  <1>9. Head(q).urb \in Urbs /\ Head(q).op # "unlink" => Waits(Head(q).urb, q)
    BY <1>2, <1>6 DEF Waits
  <1>10. ASSUME Head(q).urb \in Urbs, Head(q).op = "unlink", Waits(Head(q).urb, q)
         PROVE FALSE
    <2> PICK i \in DOMAIN q : q[i].urb = Head(q).urb /\ q[i].op # "unlink"
      BY <1>10 DEF Waits
    <2>1. i <= 1
      BY <1>2, <1>6, <1>10 DEF Ordered
    <2>2. i = 1
      BY <2>1, <1>3
    <2> QED
      BY <2>2, <1>2, <1>10
  <1>11. \A i \in DOMAIN Tail(q) : \E j \in DOMAIN q : Tail(q)[i] = q[j]
    BY <1>4
  <1>12. \E j \in DOMAIN q : Head(q) = q[j]
    BY <1>2, <1>6
  <1> QED
    BY <1>1, <1>7, <1>8, <1>9, <1>10, <1>11, <1>12

\* The host sends a command.
LEMMA SendsCommand ==
    ASSUME NEW q \in Seq(Commands), NEW c \in Commands, Ordered(q),
           c.urb \in Urbs /\ c.op # "unlink" => \A i \in DOMAIN q : q[i].urb # c.urb
    PROVE  /\ Append(q, c) \in Seq(Commands) /\ Ordered(Append(q, c))
           /\ \A u \in Urbs : Waits(u, Append(q, c)) <=>
                Waits(u, q) \/ (c.urb = u /\ c.op # "unlink")
           /\ \A i \in DOMAIN Append(q, c) :
                Append(q, c)[i] = c \/ \E j \in DOMAIN q : Append(q, c)[i] = q[j]
  <1> DEFINE a == Append(q, c)
  <1>1. /\ a \in Seq(Commands) /\ Len(a) = Len(q) + 1
        /\ \A i \in 1..Len(q) : a[i] = q[i]
        /\ a[Len(q) + 1] = c
    BY AppendProperties
  <1>2. Len(q) \in Nat /\ DOMAIN q = 1..Len(q) /\ DOMAIN a = 1..(Len(q) + 1)
    BY <1>1, LenProperties
  <1> HIDE DEF a
  <1>3. \A i \in DOMAIN q : i \in DOMAIN a /\ i <= Len(q) /\ a[i] = q[i]
    BY <1>1, <1>2
  <1>4. \A i \in DOMAIN a : i \in DOMAIN q \/ (i = Len(q) + 1 /\ a[i] = c)
    BY <1>1, <1>2
  <1>5. Len(q) + 1 \in DOMAIN a
    BY <1>2
  <1>6. Ordered(a)
    <2> SUFFICES ASSUME NEW i \in DOMAIN a, NEW j \in DOMAIN a,
                        a[i].urb \in Urbs, a[i].urb = a[j].urb, a[i].op # "unlink"
                 PROVE  i <= j
      BY DEF Ordered
    <2>1. CASE i \in DOMAIN q /\ j \in DOMAIN q
      BY <2>1, <1>3 DEF Ordered
    <2>2. CASE i \in DOMAIN q /\ j = Len(q) + 1
      BY <2>2, <1>2
    <2>3. CASE i = Len(q) + 1 /\ j \in DOMAIN q
      BY <2>3, <1>1, <1>3
    <2>4. CASE i = Len(q) + 1 /\ j = Len(q) + 1
      BY <2>4, <1>2
    <2> QED
      BY <1>4, <2>1, <2>2, <2>3, <2>4
  <1>7. \A u \in Urbs : Waits(u, a) <=> Waits(u, q) \/ (c.urb = u /\ c.op # "unlink")
    BY <1>1, <1>3, <1>4, <1>5 DEF Waits
  <1>8. \A i \in DOMAIN a : a[i] = c \/ \E j \in DOMAIN q : a[i] = q[j]
    BY <1>3, <1>4
  <1> QED
    BY <1>1, <1>6, <1>7, <1>8 DEF a

\* A read is queued.
LEMMA QueuesRead ==
    ASSUME NEW q \in Seq(Reads), NEW c \in Reads, Single(q), ~Reading(c.urb, q)
    PROVE  /\ Append(q, c) \in Seq(Reads) /\ Single(Append(q, c)) /\ Append(q, c) # <<>>
           /\ \A u \in Urbs : Reading(u, Append(q, c)) <=> Reading(u, q) \/ c.urb = u
  <1> DEFINE a == Append(q, c)
  <1>1. /\ a \in Seq(Reads) /\ Len(a) = Len(q) + 1 /\ a # <<>>
        /\ \A i \in 1..Len(q) : a[i] = q[i]
        /\ a[Len(q) + 1] = c
    BY AppendProperties
  <1>2. Len(q) \in Nat /\ DOMAIN q = 1..Len(q) /\ DOMAIN a = 1..(Len(q) + 1)
    BY <1>1, LenProperties
  <1> HIDE DEF a
  <1>3. \A i \in DOMAIN q : i \in DOMAIN a /\ a[i] = q[i]
    BY <1>1, <1>2
  <1>4. \A i \in DOMAIN a : i \in DOMAIN q \/ (i = Len(q) + 1 /\ a[i] = c)
    BY <1>1, <1>2
  <1>5. Len(q) + 1 \in DOMAIN a
    BY <1>2
  <1>6. Single(a)
    BY <1>3, <1>4 DEF Single, Reading
  <1>7. \A u \in Urbs : Reading(u, a) <=> Reading(u, q) \/ c.urb = u
    BY <1>1, <1>3, <1>4, <1>5 DEF Reading
  <1> QED
    BY <1>1, <1>6, <1>7 DEF a

\* The first read is completed by the writer.
LEMMA TakesRead ==
    ASSUME NEW q \in Seq(Reads), q # <<>>, Single(q)
    PROVE  /\ Head(q) \in Reads /\ Tail(q) \in Seq(Reads) /\ Single(Tail(q))
           /\ Reading(Head(q).urb, q)
           /\ \A u \in Urbs : Reading(u, Tail(q)) <=> Reading(u, q) /\ Head(q).urb # u
  <1>1. /\ Head(q) \in Reads /\ Tail(q) \in Seq(Reads)
        /\ Len(Tail(q)) = Len(q) - 1
        /\ \A i \in 1..Len(Tail(q)) : Tail(q)[i] = q[i + 1]
    BY HeadTailProperties
  <1>2. Len(q) \in Nat /\ Len(q) > 0 /\ Head(q) = q[1]
    BY EmptySeq
  <1>3. DOMAIN q = 1..Len(q) /\ DOMAIN Tail(q) = 1..(Len(q) - 1)
    BY <1>1, LenProperties
  <1>4. \A i \in DOMAIN Tail(q) : i + 1 \in DOMAIN q /\ i + 1 # 1 /\ Tail(q)[i] = q[i + 1]
    BY <1>1, <1>2, <1>3
  <1>5. \A j \in DOMAIN q : j = 1 \/ (j - 1 \in DOMAIN Tail(q) /\ Tail(q)[j - 1] = q[j])
    BY <1>1, <1>2, <1>3
  <1>6. 1 \in DOMAIN q
    BY <1>2, <1>3
  <1>7. Single(Tail(q))
    BY <1>3, <1>4 DEF Single
  <1>8. Reading(Head(q).urb, q)
    BY <1>2, <1>6 DEF Reading
  <1>9. ASSUME NEW u \in Urbs
        PROVE  Reading(u, Tail(q)) <=> Reading(u, q) /\ Head(q).urb # u
    <2>1. Reading(u, Tail(q)) => Reading(u, q) /\ Head(q).urb # u
      BY <1>2, <1>4, <1>6 DEF Reading, Single
    <2>2. Reading(u, q) /\ Head(q).urb # u => Reading(u, Tail(q))
      BY <1>2, <1>5 DEF Reading
    <2> QED
      BY <2>1, <2>2
  <1> QED
    BY <1>1, <1>7, <1>8, <1>9

\* A read is taken out by an unlink, wherever it is.
LEMMA DropsRead ==
    ASSUME NEW q \in Seq(Reads), NEW i \in DOMAIN q, Single(q), NEW r,
           r = [j \in 1..(Len(q) - 1) |-> IF j < i THEN q[j] ELSE q[j + 1]]
    PROVE  /\ r \in Seq(Reads) /\ Single(r)
           /\ Reading(q[i].urb, q)
           /\ \A u \in Urbs : Reading(u, r) <=> Reading(u, q) /\ q[i].urb # u
  <1>1. Len(q) \in Nat /\ DOMAIN q = 1..Len(q) /\ \A j \in DOMAIN q : q[j] \in Reads
    BY LenProperties, ElementOfSeq
  <1>2. Len(q) - 1 \in Nat /\ DOMAIN r = 1..(Len(q) - 1)
    BY <1>1
  <1>3. \A j \in DOMAIN r : \E k \in DOMAIN q :
            r[j] = q[k] /\ k # i /\ k = (IF j < i THEN j ELSE j + 1)
    BY <1>1, <1>2
  <1>4. \A k \in DOMAIN q : k = i \/ \E j \in DOMAIN r : r[j] = q[k]
    <2> SUFFICES ASSUME NEW k \in DOMAIN q, k # i PROVE \E j \in DOMAIN r : r[j] = q[k]
      OBVIOUS
    <2>1. CASE k < i
      BY <2>1, <1>1, <1>2
    <2>2. CASE k > i
      <3>1. k - 1 \in DOMAIN r /\ ~(k - 1 < i) /\ (k - 1) + 1 = k
        BY <2>2, <1>1, <1>2
      <3>2. r[k - 1] = q[(k - 1) + 1]
        BY <3>1, <1>2
      <3> QED
        BY <3>1, <3>2
    <2> QED
      BY <2>1, <2>2, <1>1
  <1>5. r \in Seq(Reads)
    <2>1. r \in [1..(Len(q) - 1) -> Reads]
      BY <1>1, <1>2, <1>3
    <2> QED
      BY <1>2, <2>1
  <1>6. Single(r)
    <2> SUFFICES ASSUME NEW j \in DOMAIN r, NEW k \in DOMAIN r, r[j].urb = r[k].urb
                 PROVE  j = k
      BY DEF Single
    <2>1. (IF j < i THEN j ELSE j + 1) = (IF k < i THEN k ELSE k + 1)
      BY <1>3 DEF Single
    <2> QED
      BY <2>1, <1>1, <1>2
  <1>7. ASSUME NEW u \in Urbs
        PROVE  Reading(u, r) <=> Reading(u, q) /\ q[i].urb # u
    <2>1. Reading(u, r) => Reading(u, q) /\ q[i].urb # u
      BY <1>3 DEF Reading, Single
    <2>2. Reading(u, q) /\ q[i].urb # u => Reading(u, r)
      BY <1>4 DEF Reading
    <2> QED
      BY <2>1, <2>2
  <1> QED
    BY <1>5, <1>6, <1>7 DEF Reading

-----------------------------------------------------------------------------
(* The invariant.                                                          *)

\* The queues, and what is under send_lock: nothing while it is free.
QueueInv ==
    /\ inbox \in Seq(Commands) /\ Ordered(inbox)
    /\ pending \in Seq(Reads) /\ Single(pending)
    /\ done \in [Urbs -> {0, 1}] /\ nextUrb \in Nat \ {0}
    /\ reply.urb \in Urbs \cup {0}
    /\ lock = "free" => reply = NoReply
    /\ lock = "writer" => reply.missed = 0

\* A session has no URB before its host's first command.
IdleInv ==
    /\ spc \in {"accept", "accepted", "op"} => asked = {}
    /\ spc = "accept" => line = "none" /\ ~conn

\* A URB is in one place at a time.
PlaceInv ==
    \A u \in Urbs :
        /\ Waits(u, inbox) =>
             ~Reading(u, pending) /\ u \notin intr /\ reply.urb # u /\ done[u] = 0
        /\ Reading(u, pending) => u \notin intr /\ reply.urb # u /\ done[u] = 0
        /\ u \in intr => reply.urb # u /\ done[u] = 0
        /\ reply.urb = u => done[u] = 0

\* Where a URB is not yet completed it was asked for in this session, before the
\* next URB; and what was asked for in a session that stands is somewhere.
AskedInv ==
    /\ \A u \in Urbs :
        /\ Reading(u, pending) \/ u \in intr \/ reply.urb = u => u \in asked
        /\ u \in asked \/ done[u] = 1 => u < nextUrb
        /\ u \in asked /\ line = "up" =>
             \/ Waits(u, inbox) \/ Reading(u, pending) \/ u \in intr
             \/ reply.urb = u \/ done[u] = 1
    /\ \A i \in DOMAIN inbox : inbox[i].urb \in Urbs => inbox[i].urb \in asked

IInv == TypeOK /\ QueueInv /\ IdleInv /\ PlaceInv /\ AskedInv /\ UnlinkHonest

USE DEF NoReply

\* The first states.
LEMMA InitInv == ASSUME ConstantsOK PROVE Init => IInv
  <1> SUFFICES ASSUME Init PROVE IInv
    OBVIOUS
  <1>1. done \in [Urbs -> {0, 1}] /\ \A u \in Urbs : done[u] = 0
    BY DEF Init
  <1>2. inbox = <<>> /\ pending = <<>> /\ DOMAIN inbox = {} /\ DOMAIN pending = {}
    BY DEF Init
  <1>3. \A u \in Urbs : ~Waits(u, inbox) /\ ~Reading(u, pending)
    BY <1>2 DEF Waits, Reading
  <1>4. TypeOK
    <2>1. rx \in 0..RxMax /\ unread \in 0..Buffer
      BY DEF Init, ConstantsOK
    <2> QED
      BY <1>2, <2>1 DEF Init, TypeOK
  <1>5. QueueInv
    BY <1>1, <1>2, EmptySeq DEF Init, QueueInv, Ordered, Single
  <1>6. IdleInv /\ UnlinkHonest
    BY DEF Init, IdleInv, UnlinkHonest
  <1>7. PlaceInv
    BY <1>1, <1>3 DEF Init, PlaceInv
  <1>8. AskedInv
    BY <1>1, <1>2, <1>3 DEF Init, AskedInv, Urbs
  <1> QED
    BY <1>4, <1>5, <1>6, <1>7, <1>8 DEF IInv

\* Steps that move no URB.  Only Accept puts a connection up, for a host that has not
\* asked for anything.
Quiet ==
    /\ UNCHANGED <<pending, intr, inbox, reply, done, asked, nextUrb, lock>>
    /\ line' = "up" => line = "up" \/ (asked = {} /\ lock # "server")

\* A step that leaves URBs, queues and the reply alone keeps the invariant.
LEMMA QuietStep ==
    ASSUME IInv, Quiet
    PROVE  QueueInv' /\ PlaceInv' /\ AskedInv' /\ UnlinkHonest'
  <1> USE DEF IInv, Quiet
  <1>1. QueueInv'
    BY DEF QueueInv
  <1>2. PlaceInv'
    BY DEF PlaceInv
  <1>3. AskedInv'
    BY DEF AskedInv
  <1>4. UnlinkHonest'
    BY DEF UnlinkHonest
  <1> QED
    BY <1>1, <1>2, <1>3, <1>4

\* These steps leave URBs, queues and the reply alone.
LEMMA QuietActions ==
    ASSUME ConstantsOK, IInv,
           \/ Accept \/ SessionBegins \/ SessionFails \/ Write \/ WriteHeld \/ Read
           \/ Close \/ CloserStep \/ Connect \/ HostReads \/ HangUp \/ UNCHANGED vars
    PROVE  Quiet
  <1> USE DEF Quiet, device, server, writer, closer, host, wire, session
  <1>1. CASE Accept
    BY <1>1 DEF Accept, IInv, IdleInv, TypeOK
  <1>2. CASE SessionBegins \/ SessionFails
    BY <1>2 DEF SessionBegins, SessionFails
  <1>3. CASE Write \/ WriteHeld \/ Read
    BY <1>3 DEF Write, WriteHeld, Read
  <1>4. CASE Close \/ CloserStep
    BY <1>4 DEF Close, CloserStep, CloseListener, CloseConnection, CloseReturns
  <1>5. CASE Connect \/ HostReads \/ HangUp
    BY <1>5 DEF Connect, HostReads, HangUp
  <1>6. CASE UNCHANGED vars
    BY <1>6 DEF vars
  <1> QED
    BY <1>1, <1>2, <1>3, <1>4, <1>5, <1>6

\* The next command, taken out of the inbox.
LEMMA Received ==
    ASSUME ConstantsOK, IInv, inbox # <<>>, inbox' = Tail(inbox)
    PROVE  /\ Cmd \in Commands
           /\ inbox' \in Seq(Commands) /\ Ordered(inbox')
           /\ \A u \in Urbs : Waits(u, inbox') <=>
                Waits(u, inbox) /\ ~(Cmd.urb = u /\ Cmd.op # "unlink")
           /\ Cmd.urb \in Urbs /\ Cmd.op # "unlink" => Waits(Cmd.urb, inbox)
           /\ Cmd.urb \in Urbs /\ Cmd.op = "unlink" => ~Waits(Cmd.urb, inbox)
           /\ \A i \in DOMAIN inbox' : inbox'[i].urb \in Urbs => inbox'[i].urb \in asked
           /\ Cmd.urb \in Urbs => Cmd.urb \in asked
  <1>1. inbox \in Seq(Commands) /\ Ordered(inbox)
    BY DEF IInv, QueueInv
  <1>2. /\ \A i \in DOMAIN inbox' : \E j \in DOMAIN inbox : inbox'[i] = inbox[j]
        /\ \E j \in DOMAIN inbox : Cmd = inbox[j]
    BY <1>1, TakesCommand DEF Cmd
  <1>3. \A i \in DOMAIN inbox : inbox[i].urb \in Urbs => inbox[i].urb \in asked
    BY DEF IInv, AskedInv
  <1> QED
    BY <1>1, <1>2, <1>3, TakesCommand DEF Cmd

\* A command of the op phase, or one nobody knows, names no URB.
LEMMA OpStep ==
    ASSUME ConstantsOK, IInv, Imported \/ Unknown
    PROVE  QueueInv' /\ PlaceInv' /\ AskedInv' /\ UnlinkHonest'
  <1>1. /\ inbox # <<>> /\ inbox' = Tail(inbox) /\ Cmd.op \in {"import", "other"}
        /\ UNCHANGED <<pending, intr, reply, done, asked, nextUrb, lock, line>>
    BY DEF Imported, Unknown, Cmd, device, writer, closer, host, session
  <1>2. Cmd \in Commands /\ Cmd.urb = 0
    BY <1>1, Received, CommandParts
  <1>3. /\ inbox' \in Seq(Commands) /\ Ordered(inbox')
        /\ \A u \in Urbs : Waits(u, inbox') <=> Waits(u, inbox)
        /\ \A i \in DOMAIN inbox' : inbox'[i].urb \in Urbs => inbox'[i].urb \in asked
    BY <1>1, <1>2, Received DEF Urbs
  <1>4. QueueInv'
    BY <1>1, <1>3 DEF IInv, QueueInv
  <1>5. PlaceInv'
    BY <1>1, <1>3 DEF IInv, PlaceInv
  <1>6. AskedInv'
    BY <1>1, <1>3 DEF IInv, AskedInv
  <1>7. UnlinkHonest'
    BY <1>1 DEF IInv, UnlinkHonest
  <1> QED
    BY <1>4, <1>5, <1>6, <1>7

\* A submitted URB is answered at once, or queued, or left with the interrupts: it
\* leaves the inbox for one other place.
LEMMA AnswerStep ==
    ASSUME ConstantsOK, IInv, AnswerNow \/ ReadHeld
    PROVE  QueueInv' /\ PlaceInv' /\ AskedInv' /\ UnlinkHonest'
  <1>1. /\ inbox # <<>> /\ inbox' = Tail(inbox) /\ Cmd.op \in {"now", "in"}
        /\ UNCHANGED <<pending, intr, done, asked, nextUrb, line>>
        /\ lock = "free" /\ lock' = "server"
        /\ reply'.urb = Cmd.urb /\ reply'.missed = 0
    BY DEF AnswerNow, ReadHeld, Receives, Holds, Cmd, device, writer, closer, host,
           session
  <1>2. Cmd \in Commands /\ Cmd.urb \in Urbs
    BY <1>1, Received, CommandParts
  <1>3. /\ inbox' \in Seq(Commands) /\ Ordered(inbox')
        /\ \A u \in Urbs : Waits(u, inbox') <=> Waits(u, inbox) /\ Cmd.urb # u
        /\ \A i \in DOMAIN inbox' : inbox'[i].urb \in Urbs => inbox'[i].urb \in asked
        /\ Waits(Cmd.urb, inbox) /\ Cmd.urb \in asked
    BY <1>1, <1>2, Received
  <1>4. \A u \in Urbs : reply.urb # u
    BY <1>1 DEF IInv, QueueInv, Urbs
  <1>5. QueueInv'
    BY <1>1, <1>2, <1>3 DEF IInv, QueueInv
  <1>6. PlaceInv'
    BY <1>1, <1>2, <1>3, <1>4 DEF IInv, PlaceInv
  <1>7. AskedInv'
    BY <1>1, <1>2, <1>3, <1>4 DEF IInv, AskedInv
  <1>8. UnlinkHonest'
    BY <1>1 DEF UnlinkHonest
  <1> QED
    BY <1>5, <1>6, <1>7, <1>8

\* A read for which no bytes are held is queued.
LEMMA QueueStep ==
    ASSUME ConstantsOK, IInv, ReadQueued
    PROVE  QueueInv' /\ PlaceInv' /\ AskedInv' /\ UnlinkHonest'
  <1>1. /\ inbox # <<>> /\ inbox' = Tail(inbox) /\ Cmd.op = "in"
        /\ pending' = Append(pending, [urb |-> Cmd.urb, len |-> Cmd.len])
        /\ UNCHANGED <<intr, reply, lock, done, asked, nextUrb, line>>
    BY DEF ReadQueued, Receives, Cmd, writer, closer, host, session
  <1>2. Cmd \in Commands /\ Cmd.urb \in Urbs /\ Cmd.len \in Lengths
    BY <1>1, Received, CommandParts
  <1>3. /\ inbox' \in Seq(Commands) /\ Ordered(inbox')
        /\ \A u \in Urbs : Waits(u, inbox') <=> Waits(u, inbox) /\ Cmd.urb # u
        /\ \A i \in DOMAIN inbox' : inbox'[i].urb \in Urbs => inbox'[i].urb \in asked
        /\ Waits(Cmd.urb, inbox) /\ Cmd.urb \in asked
    BY <1>1, <1>2, Received
  <1> DEFINE r == [urb |-> Cmd.urb, len |-> Cmd.len]
  <1>4. r \in Reads /\ r.urb = Cmd.urb
    BY <1>2 DEF Reads
  <1>5. pending \in Seq(Reads) /\ Single(pending) /\ ~Reading(r.urb, pending)
    BY <1>2, <1>3, <1>4 DEF IInv, QueueInv, PlaceInv
  <1>6. /\ pending' \in Seq(Reads) /\ Single(pending')
        /\ \A u \in Urbs : Reading(u, pending') <=> Reading(u, pending) \/ Cmd.urb = u
    BY <1>1, <1>4, <1>5, QueuesRead
  <1>7. QueueInv'
    BY <1>1, <1>3, <1>6 DEF IInv, QueueInv
  <1>8. PlaceInv'
    BY <1>1, <1>2, <1>3, <1>6 DEF IInv, PlaceInv
  <1>9. AskedInv'
    BY <1>1, <1>2, <1>3, <1>6 DEF IInv, AskedInv
  <1>10. UnlinkHonest'
    BY <1>1 DEF IInv, UnlinkHonest
  <1> QED
    BY <1>7, <1>8, <1>9, <1>10

\* An interrupt read waits for ever.
LEMMA InterruptStep ==
    ASSUME ConstantsOK, IInv, Interrupt
    PROVE  QueueInv' /\ PlaceInv' /\ AskedInv' /\ UnlinkHonest'
  <1>1. /\ inbox # <<>> /\ inbox' = Tail(inbox) /\ Cmd.op = "intr"
        /\ intr' = intr \cup {Cmd.urb}
        /\ UNCHANGED <<pending, reply, lock, done, asked, nextUrb, line>>
    BY DEF Interrupt, Receives, Cmd, writer, closer, host, session
  <1>2. Cmd \in Commands /\ Cmd.urb \in Urbs
    BY <1>1, Received, CommandParts
  <1>3. /\ inbox' \in Seq(Commands) /\ Ordered(inbox')
        /\ \A u \in Urbs : Waits(u, inbox') <=> Waits(u, inbox) /\ Cmd.urb # u
        /\ \A i \in DOMAIN inbox' : inbox'[i].urb \in Urbs => inbox'[i].urb \in asked
        /\ Waits(Cmd.urb, inbox) /\ Cmd.urb \in asked
    BY <1>1, <1>2, Received
  <1>4. QueueInv'
    BY <1>1, <1>3 DEF IInv, QueueInv
  <1>5. PlaceInv'
    BY <1>1, <1>2, <1>3 DEF IInv, PlaceInv
  <1>6. AskedInv'
    BY <1>1, <1>2, <1>3 DEF IInv, AskedInv
  <1>7. UnlinkHonest'
    BY <1>1 DEF IInv, UnlinkHonest
  <1> QED
    BY <1>4, <1>5, <1>6, <1>7

\* An unlink is received: its URB is not in the inbox any more.
LEMMA Unlinks ==
    ASSUME ConstantsOK, IInv, Receives("unlink")
    PROVE  /\ lock = "free" /\ Cmd.urb \in Urbs /\ Cmd.urb \in asked
           /\ ~Waits(Cmd.urb, inbox)
           /\ inbox' \in Seq(Commands) /\ Ordered(inbox')
           /\ \A u \in Urbs : Waits(u, inbox') <=> Waits(u, inbox)
           /\ \A i \in DOMAIN inbox' : inbox'[i].urb \in Urbs => inbox'[i].urb \in asked
           /\ \A u \in Urbs : reply.urb # u
           /\ UNCHANGED <<done, asked, nextUrb, line>>
  <1>1. /\ inbox # <<>> /\ inbox' = Tail(inbox) /\ Cmd.op = "unlink" /\ lock = "free"
        /\ UNCHANGED <<done, asked, nextUrb, line>>
    BY DEF Receives, Cmd, writer, closer, host, session
  <1>2. Cmd \in Commands /\ Cmd.urb \in Urbs
    BY <1>1, Received, CommandParts
  <1>3. \A u \in Urbs : reply.urb # u
    BY <1>1 DEF IInv, QueueInv, Urbs
  <1> QED
    BY <1>1, <1>2, <1>3, Received

\* A queued read that the host gives up leaves the queue.
LEMMA UnlinkReadStep ==
    ASSUME ConstantsOK, IInv, UnlinkRead
    PROVE  QueueInv' /\ PlaceInv' /\ AskedInv' /\ UnlinkHonest'
  <1>1. Receives("unlink")
    BY DEF UnlinkRead
  <1> PICK i \in DOMAIN pending :
        /\ pending[i].urb = Cmd.urb
        /\ pending' = [j \in 1..(Len(pending) - 1) |->
                         IF j < i THEN pending[j] ELSE pending[j + 1]]
    BY DEF UnlinkRead
  <1>2. /\ lock' = "server" /\ reply'.urb = Cmd.urb /\ reply'.missed = 0
        /\ UNCHANGED intr
    BY DEF UnlinkRead, Holds
  <1>3. pending \in Seq(Reads) /\ Single(pending)
    BY DEF IInv, QueueInv
  <1>4. /\ pending' \in Seq(Reads) /\ Single(pending')
        /\ Reading(Cmd.urb, pending)
        /\ \A u \in Urbs : Reading(u, pending') <=> Reading(u, pending) /\ Cmd.urb # u
    BY <1>3, DropsRead
  <1>5. QueueInv'
    BY <1>1, <1>2, <1>4, Unlinks DEF IInv, QueueInv
  <1>6. PlaceInv'
    BY <1>1, <1>2, <1>4, Unlinks DEF IInv, PlaceInv
  <1>7. AskedInv'
    BY <1>1, <1>2, <1>4, Unlinks DEF IInv, AskedInv
  <1>8. UnlinkHonest'
    BY <1>2 DEF UnlinkHonest
  <1> QED
    BY <1>5, <1>6, <1>7, <1>8

\* An interrupt read that the host gives up leaves the queue.
LEMMA UnlinkInterruptStep ==
    ASSUME ConstantsOK, IInv, UnlinkInterrupt
    PROVE  QueueInv' /\ PlaceInv' /\ AskedInv' /\ UnlinkHonest'
  <1>1. Receives("unlink")
    BY DEF UnlinkInterrupt
  <1>2. /\ lock' = "server" /\ reply'.urb = Cmd.urb /\ reply'.missed = 0
        /\ Cmd.urb \in intr /\ intr' = intr \ {Cmd.urb} /\ UNCHANGED pending
    BY DEF UnlinkInterrupt, Holds
  <1>3. QueueInv'
    BY <1>1, <1>2, Unlinks DEF IInv, QueueInv
  <1>4. PlaceInv'
    BY <1>1, <1>2, Unlinks DEF IInv, PlaceInv
  <1>5. AskedInv'
    BY <1>1, <1>2, Unlinks DEF IInv, AskedInv
  <1>6. UnlinkHonest'
    BY <1>2 DEF UnlinkHonest
  <1> QED
    BY <1>3, <1>4, <1>5, <1>6

\* Neither queued nor waiting nor in a reply: what a standing session asked for has
\* been completed.
LEMMA UnlinkMissedStep ==
    ASSUME ConstantsOK, IInv, UnlinkMissed
    PROVE  QueueInv' /\ PlaceInv' /\ AskedInv' /\ UnlinkHonest'
  <1>1. Receives("unlink")
    BY DEF UnlinkMissed
  <1>2. /\ lock' = "server" /\ reply'.urb = 0 /\ reply'.missed = Cmd.urb
        /\ Cmd.urb \notin intr /\ ~Reading(Cmd.urb, pending) /\ UNCHANGED <<pending, intr>>
    BY DEF UnlinkMissed, Holds, device, Reading
  <1>3. 0 \notin Urbs
    BY DEF Urbs
  <1>4. line = "up" => done[Cmd.urb] = 1
    BY <1>1, <1>2, Unlinks DEF IInv, AskedInv
  <1>5. QueueInv'
    BY <1>1, <1>2, Unlinks DEF IInv, QueueInv
  <1>6. PlaceInv'
    BY <1>1, <1>2, <1>3, Unlinks DEF IInv, PlaceInv
  <1>7. AskedInv'
    BY <1>1, <1>2, <1>3, Unlinks DEF IInv, AskedInv
  <1>8. UnlinkHonest'
    BY <1>1, <1>2, <1>4, Unlinks DEF UnlinkHonest
  <1> QED
    BY <1>5, <1>6, <1>7, <1>8

\* The writer completes the first read.
LEMMA ChunkStep ==
    ASSUME ConstantsOK, IInv, WriteChunk
    PROVE  QueueInv' /\ PlaceInv' /\ AskedInv' /\ UnlinkHonest'
  <1>1. /\ lock = "free" /\ lock' = "writer"
        /\ reply'.urb = Head(pending).urb /\ reply'.missed = 0
        /\ pending # <<>> /\ pending' = Tail(pending)
        /\ UNCHANGED <<intr, inbox, done, asked, nextUrb, line>>
    BY DEF WriteChunk, Holds, server, closer, host, wire, session
  <1>2. pending \in Seq(Reads) /\ Single(pending)
    BY DEF IInv, QueueInv
  <1> DEFINE first == Head(pending).urb
  <1>3. /\ pending' \in Seq(Reads) /\ Single(pending') /\ first \in Urbs
        /\ Reading(first, pending)
        /\ \A u \in Urbs : Reading(u, pending') <=> Reading(u, pending) /\ first # u
    BY <1>1, <1>2, TakesRead DEF Reads
  <1>4. \A u \in Urbs : reply.urb # u
    BY <1>1 DEF IInv, QueueInv, Urbs
  <1> HIDE DEF first
  <1>5. reply'.urb = first
    BY <1>1 DEF first
  <1>6. QueueInv'
    BY <1>1, <1>3, <1>5 DEF IInv, QueueInv
  <1>7. PlaceInv'
    BY <1>1, <1>3, <1>4, <1>5 DEF IInv, PlaceInv
  <1>8. AskedInv'
    BY <1>1, <1>3, <1>4, <1>5 DEF IInv, AskedInv
  <1>9. UnlinkHonest'
    BY <1>1 DEF UnlinkHonest
  <1> QED
    BY <1>6, <1>7, <1>8, <1>9

\* A reply is in the connection, or it failed and the session is over.
LEMMA SentStep ==
    ASSUME ConstantsOK, IInv, ServerSent \/ WriterSent
    PROVE  QueueInv' /\ PlaceInv' /\ AskedInv' /\ UnlinkHonest'
  <1>1. /\ lock' = "free" /\ reply' = NoReply
        /\ UNCHANGED <<pending, intr, inbox, asked, nextUrb, line>>
    BY DEF ServerSent, WriterSent, SendEnds, device, server, writer, closer, host
  <1>2. \/ done' = [u \in Urbs |-> IF u = reply.urb THEN done[u] + 1 ELSE done[u]]
        \/ line = "cut" /\ done' = done
    BY DEF ServerSent, WriterSent, SendEnds
  <1>3. done \in [Urbs -> {0, 1}] /\ \A u \in Urbs : reply.urb = u => done[u] = 0
    BY DEF IInv, QueueInv, PlaceInv
  <1>4. /\ done' \in [Urbs -> {0, 1}]
        /\ \A u \in Urbs : done'[u] = done[u] \/ (reply.urb = u /\ done'[u] = 1)
        /\ \A u \in Urbs : line = "up" /\ reply.urb = u => done'[u] = 1
    BY <1>2, <1>3
  <1>5. 0 \notin Urbs /\ \A u \in Urbs : reply'.urb # u
    BY <1>1 DEF Urbs
  <1>6. QueueInv'
    BY <1>1, <1>4 DEF IInv, QueueInv
  <1>7. PlaceInv'
    BY <1>1, <1>4, <1>5 DEF IInv, PlaceInv
  <1>8. AskedInv'
    BY <1>1, <1>4, <1>5 DEF IInv, AskedInv
  <1>9. UnlinkHonest'
    BY <1>1 DEF UnlinkHonest
  <1> QED
    BY <1>6, <1>7, <1>8, <1>9

\* Nothing of a session is left behind.
LEMMA EndStep ==
    ASSUME ConstantsOK, IInv, SessionEnds
    PROVE  QueueInv' /\ PlaceInv' /\ AskedInv' /\ UnlinkHonest'
  <1>1. /\ lock = "free" /\ line' = "none" /\ inbox' = <<>> /\ pending' = <<>>
        /\ intr' = {} /\ asked' = {} /\ UNCHANGED <<lock, reply, done, nextUrb>>
    BY DEF SessionEnds, writer, closer
  <1>2. DOMAIN inbox' = {} /\ DOMAIN pending' = {}
    BY <1>1
  <1>3. \A u \in Urbs : ~Waits(u, inbox') /\ ~Reading(u, pending') /\ reply'.urb # u
    BY <1>1, <1>2 DEF Waits, Reading, IInv, QueueInv, Urbs
  <1>4. QueueInv'
    BY <1>1, <1>2, EmptySeq DEF IInv, QueueInv, Ordered, Single
  <1>5. PlaceInv'
    BY <1>1, <1>3 DEF PlaceInv
  <1>6. AskedInv'
    BY <1>1, <1>2, <1>3 DEF IInv, AskedInv
  <1>7. UnlinkHonest'
    BY <1>1 DEF UnlinkHonest
  <1> QED
    BY <1>4, <1>5, <1>6, <1>7

\* The host submits a URB that nobody has heard of.
LEMMA SubmitStep ==
    ASSUME ConstantsOK, IInv, Submit
    PROVE  QueueInv' /\ PlaceInv' /\ AskedInv' /\ UnlinkHonest'
  <1>1. PICK c \in Commands :
          /\ c.urb = nextUrb /\ c.op # "unlink" /\ inbox' = Append(inbox, c)
          /\ nextUrb \in Urbs
          /\ UNCHANGED <<pending, intr, reply, lock, done, line>>
    <2>1. nextUrb \in Urbs
      BY DEF Submit
    <2>2. CASE \E n \in Lengths : Sends("in", nextUrb, n)
      <3> PICK n \in Lengths : Sends("in", nextUrb, n)
        BY <2>2
      <3>1. [op |-> "in", urb |-> nextUrb, len |-> n] \in Commands
        BY <2>1 DEF Commands
      <3> QED
        BY <2>1, <3>1 DEF Sends, device, server, writer, closer, host
    <2>3. CASE \E op \in {"now", "intr"} : Sends(op, nextUrb, 0)
      <3> PICK op \in {"now", "intr"} : Sends(op, nextUrb, 0)
        BY <2>3
      <3>1. [op |-> op, urb |-> nextUrb, len |-> 0] \in Commands
        BY <2>1 DEF Commands
      <3> QED
        BY <2>1, <3>1 DEF Sends, device, server, writer, closer, host
    <2> QED
      BY <2>2, <2>3 DEF Submit
  <1>2. asked' = asked \cup {nextUrb} /\ nextUrb' = nextUrb + 1
    BY DEF Submit
  <1>3. nextUrb \in Nat \ {0} /\ nextUrb \notin asked /\ done[nextUrb] # 1 /\ done[nextUrb] = 0
    BY <1>1 DEF IInv, QueueInv, AskedInv
  <1>4. \A i \in DOMAIN inbox : inbox[i].urb \in Urbs => inbox[i].urb \in asked
    BY DEF IInv, AskedInv
  <1>5. inbox \in Seq(Commands) /\ Ordered(inbox)
    BY DEF IInv, QueueInv
  <1>6. /\ inbox' \in Seq(Commands) /\ Ordered(inbox')
        /\ \A u \in Urbs : Waits(u, inbox') <=> Waits(u, inbox) \/ nextUrb = u
        /\ \A i \in DOMAIN inbox' : inbox'[i] = c \/ \E j \in DOMAIN inbox : inbox'[i] = inbox[j]
    <2>1. \A i \in DOMAIN inbox : inbox[i].urb # c.urb
      BY <1>1, <1>3, <1>4
    <2> QED
      BY <1>1, <1>5, <2>1, SendsCommand
  <1>7. ~Reading(nextUrb, pending) /\ nextUrb \notin intr /\ reply.urb # nextUrb
    BY <1>1, <1>3 DEF IInv, AskedInv
  <1>8. QueueInv'
    BY <1>1, <1>2, <1>6 DEF IInv, QueueInv
  <1>9. PlaceInv'
    BY <1>1, <1>3, <1>6, <1>7 DEF IInv, PlaceInv
  <1>10. AskedInv'
    <2>1. \A i \in DOMAIN inbox' : inbox'[i].urb \in Urbs => inbox'[i].urb \in asked'
      BY <1>1, <1>2, <1>4, <1>6
    <2>2. \A u \in Urbs : u \in Nat
      BY DEF Urbs
    <2> QED
      BY <1>1, <1>2, <1>3, <1>6, <2>1, <2>2 DEF IInv, AskedInv
  <1>11. UnlinkHonest'
    BY <1>1 DEF IInv, UnlinkHonest
  <1> QED
    BY <1>8, <1>9, <1>10, <1>11

\* The host gives up a URB, or asks for the device: the command submits none.
LEMMA OtherCommandStep ==
    ASSUME ConstantsOK, IInv, Ask \/ Unlink
    PROVE  QueueInv' /\ PlaceInv' /\ AskedInv' /\ UnlinkHonest'
  <1>1. PICK c \in Commands :
          /\ inbox' = Append(inbox, c)
          /\ (c.op = "unlink" /\ c.urb \in asked) \/ c.urb = 0
          /\ UNCHANGED <<pending, intr, reply, lock, done, line, asked, nextUrb>>
    <2>1. CASE Ask
      <3> PICK op \in {"import", "other"} : Sends(op, 0, 0)
        BY <2>1 DEF Ask
      <3>1. [op |-> op, urb |-> 0, len |-> 0] \in Commands
        BY DEF Commands
      <3> QED
        BY <2>1, <3>1 DEF Ask, Sends, device, server, writer, closer, host
    <2>2. CASE Unlink
      <3> PICK u \in asked \ given : Sends("unlink", u, 0)
        BY <2>2 DEF Unlink
      <3>1. u \in Urbs
        BY DEF IInv, TypeOK
      <3>2. [op |-> "unlink", urb |-> u, len |-> 0] \in Commands
        BY <3>1 DEF Commands
      <3> QED
        BY <2>2, <3>2 DEF Unlink, Sends, device, server, writer, closer, host
    <2> QED
      BY <2>1, <2>2
  <1>2. 0 \notin Urbs
    BY DEF Urbs
  <1>3. inbox \in Seq(Commands) /\ Ordered(inbox)
    BY DEF IInv, QueueInv
  <1>4. /\ inbox' \in Seq(Commands) /\ Ordered(inbox')
        /\ \A u \in Urbs : Waits(u, inbox') <=> Waits(u, inbox)
        /\ \A i \in DOMAIN inbox' : inbox'[i] = c \/ \E j \in DOMAIN inbox : inbox'[i] = inbox[j]
    BY <1>1, <1>2, <1>3, SendsCommand
  <1>5. QueueInv'
    BY <1>1, <1>4 DEF IInv, QueueInv
  <1>6. PlaceInv'
    BY <1>1, <1>4 DEF IInv, PlaceInv
  <1>7. AskedInv'
    BY <1>1, <1>2, <1>4 DEF IInv, AskedInv
  <1>8. UnlinkHonest'
    BY <1>1 DEF IInv, UnlinkHonest
  <1> QED
    BY <1>5, <1>6, <1>7, <1>8

\* A session begins without URBs and on a connection of its own.
LEMMA IdleStep == IdleInv /\ TypeOK /\ [Next]_vars => IdleInv'
  <1> SUFFICES ASSUME IdleInv, TypeOK, [Next]_vars PROVE IdleInv'
    OBVIOUS
  <1> USE DEF IdleInv, device, server, writer, closer, host, wire, session
  <1>1. CASE ServerStep
    <2>1. CASE Accept
      BY <2>1 DEF Accept
    <2>2. CASE SessionBegins \/ Imported \/ Unknown \/ SessionFails
      BY <2>2 DEF SessionBegins, Imported, Unknown, SessionFails
    <2>3. CASE AnswerNow \/ ReadHeld
      BY <2>3 DEF AnswerNow, ReadHeld, Receives
    <2>4. CASE ReadQueued \/ Interrupt
      BY <2>4 DEF ReadQueued, Interrupt, Receives, Loops
    <2>5. CASE UnlinkRead \/ UnlinkInterrupt \/ UnlinkMissed
      BY <2>5 DEF UnlinkRead, UnlinkInterrupt, UnlinkMissed, Receives
    <2>6. CASE ServerSent
      BY <2>6 DEF ServerSent, Loops
    <2>7. CASE SessionEnds
      BY <2>7 DEF SessionEnds
    <2> QED
      BY <1>1, <2>1, <2>2, <2>3, <2>4, <2>5, <2>6, <2>7 DEF ServerStep
  <1>2. CASE Write \/ WriterStep \/ Read
    BY <1>2 DEF Write, WriterStep, WriteHeld, WriteChunk, WriterSent, Read
  <1>3. CASE Close \/ CloserStep
    BY <1>3 DEF Close, CloserStep, CloseListener, CloseConnection, CloseReturns
  <1>4. CASE Connect \/ HostReads \/ HangUp
    BY <1>4 DEF Connect, HostReads, HangUp
  <1>5. CASE Ask \/ Submit \/ Unlink
    BY <1>5 DEF Ask, Submit, Unlink, Sends
  <1>6. CASE UNCHANGED vars
    BY <1>6 DEF vars
  <1> QED
    BY <1>1, <1>2, <1>3, <1>4, <1>5, <1>6 DEF Next

\* The lock is held by the thread that sends.
LEMMA TypeStep ==
    ASSUME ConstantsOK, IInv, QueueInv', [Next]_vars
    PROVE  TypeOK'
  <1>1. \A i \in DOMAIN pending' : pending'[i] \in [urb : Urbs, len : Lengths]
    BY LenProperties, ElementOfSeq DEF QueueInv, Reads
  <1>2. TypeOK
    BY DEF IInv
  <1> USE DEF TypeOK, device, server, writer, closer, host, wire, session
  <1>3. CASE Accept \/ SessionBegins \/ Imported
    BY <1>1, <1>2, <1>3 DEF Accept, SessionBegins, Imported
  <1>4. CASE Unknown \/ SessionFails
    BY <1>1, <1>2, <1>4 DEF Unknown, SessionFails
  <1>5. CASE AnswerNow
    BY <1>1, <1>2, <1>5 DEF AnswerNow, Receives, Holds, ConstantsOK
  <1>6. CASE ReadHeld
    BY <1>1, <1>2, <1>6 DEF ReadHeld, Receives, Holds
  <1>7. CASE ReadQueued
    BY <1>1, <1>2, <1>7 DEF ReadQueued, Receives, Loops
  <1>8. CASE Interrupt
    <2>1. inbox # <<>> /\ inbox' = Tail(inbox) /\ Cmd.op = "intr"
      BY <1>8 DEF Interrupt, Receives, Cmd
    <2>2. Cmd.urb \in Urbs
      BY <2>1, Received, CommandParts
    <2> QED
      BY <1>1, <1>2, <1>8, <2>2 DEF Interrupt, Receives, Loops
  <1>9. CASE UnlinkRead
    BY <1>1, <1>2, <1>9 DEF UnlinkRead, Receives, Holds
  <1>10. CASE UnlinkInterrupt \/ UnlinkMissed
    BY <1>1, <1>2, <1>10 DEF UnlinkInterrupt, UnlinkMissed, Receives, Holds
  <1>11. CASE ServerSent
    BY <1>1, <1>2, <1>11 DEF ServerSent, SendEnds, Loops, ConstantsOK
  <1>12. CASE SessionEnds
    <2>1. /\ lock = "free" /\ UNCHANGED <<lock, rx, wpc, cpc, running, queued>>
          /\ spc' \in {"accept", "exited"} /\ conn' = FALSE /\ line' = "none"
          /\ asked' = {} /\ given' = {} /\ intr' = {} /\ unread' = 0
      BY <1>12 DEF SessionEnds
    <2>2. 0 \in 0..Buffer
      BY DEF ConstantsOK
    <2> QED
      BY <1>1, <1>2, <2>1, <2>2
  <1>13. CASE Write \/ WriteHeld \/ Read
    BY <1>1, <1>2, <1>13 DEF Write, WriteHeld, Read, ConstantsOK
  <1>14. CASE WriteChunk
    BY <1>1, <1>2, <1>14 DEF WriteChunk, Holds
  <1>15. CASE WriterSent
    BY <1>1, <1>2, <1>15 DEF WriterSent, SendEnds, ConstantsOK
  <1>16. CASE Close \/ CloserStep
    BY <1>1, <1>2, <1>16 DEF Close, CloserStep, CloseListener, CloseConnection, CloseReturns
  <1>17. CASE Connect \/ HangUp
    BY <1>1, <1>2, <1>17 DEF Connect, HangUp
  <1>22. CASE HostReads
    BY <1>1, <1>2, <1>22 DEF HostReads, ConstantsOK
  <1>18. CASE Ask
    BY <1>1, <1>2, <1>18 DEF Ask, Sends
  <1>19. CASE Submit
    BY <1>1, <1>2, <1>19 DEF Submit, Sends
  <1>20. CASE Unlink
    BY <1>1, <1>2, <1>20 DEF Unlink, Sends
  <1>21. CASE UNCHANGED vars
    BY <1>1, <1>2, <1>21 DEF vars
  <1> QED
    BY <1>3, <1>4, <1>5, <1>6, <1>7, <1>8, <1>9, <1>10, <1>11, <1>12, <1>13, <1>14,
       <1>15, <1>16, <1>17, <1>18, <1>19, <1>20, <1>21, <1>22
    DEF Next, ServerStep, WriterStep

\* Every step keeps the invariant.
LEMMA NextInv == ASSUME ConstantsOK PROVE IInv /\ [Next]_vars => IInv'
  <1> SUFFICES ASSUME IInv, [Next]_vars PROVE IInv'
    OBVIOUS
  <1>1. QueueInv' /\ PlaceInv' /\ AskedInv' /\ UnlinkHonest'
    <2> DEFINE Kept == QueueInv' /\ PlaceInv' /\ AskedInv' /\ UnlinkHonest'
    <2> SUFFICES Kept
      OBVIOUS
    <2>1. CASE \/ Accept \/ SessionBegins \/ SessionFails \/ Write \/ WriteHeld \/ Read
               \/ Close \/ CloserStep \/ Connect \/ HostReads \/ HangUp
               \/ UNCHANGED vars
      BY ONLY ConstantsOK, IInv, <2>1, QuietActions, QuietStep
    <2>2. CASE Imported \/ Unknown
      BY ONLY ConstantsOK, IInv, <2>2, OpStep
    <2>3. CASE AnswerNow \/ ReadHeld
      BY ONLY ConstantsOK, IInv, <2>3, AnswerStep
    <2>4. CASE ReadQueued
      BY ONLY ConstantsOK, IInv, <2>4, QueueStep
    <2>5. CASE Interrupt
      BY ONLY ConstantsOK, IInv, <2>5, InterruptStep
    <2>6. CASE UnlinkRead
      BY ONLY ConstantsOK, IInv, <2>6, UnlinkReadStep
    <2>7. CASE UnlinkInterrupt
      BY ONLY ConstantsOK, IInv, <2>7, UnlinkInterruptStep
    <2>8. CASE UnlinkMissed
      BY ONLY ConstantsOK, IInv, <2>8, UnlinkMissedStep
    <2>9. CASE WriteChunk
      BY ONLY ConstantsOK, IInv, <2>9, ChunkStep
    <2>10. CASE ServerSent \/ WriterSent
      BY ONLY ConstantsOK, IInv, <2>10, SentStep
    <2>11. CASE SessionEnds
      BY ONLY ConstantsOK, IInv, <2>11, EndStep
    <2>12. CASE Submit
      BY ONLY ConstantsOK, IInv, <2>12, SubmitStep
    <2>13. CASE Ask \/ Unlink
      BY ONLY ConstantsOK, IInv, <2>13, OtherCommandStep
    <2> HIDE DEF Kept
    <2> QED
      BY <2>1, <2>2, <2>3, <2>4, <2>5, <2>6, <2>7, <2>8, <2>9, <2>10, <2>11, <2>12,
         <2>13 DEF Next, ServerStep, WriterStep
  <1>2. IdleInv'
    BY IdleStep DEF IInv
  <1>3. TypeOK'
    BY <1>1, TypeStep
  <1> QED
    BY <1>1, <1>2, <1>3 DEF IInv

\* The invariant holds in every state of the server.
THEOREM Invariance == ASSUME ConstantsOK PROVE Spec => []IInv
  BY InitInv, NextInv, PTL DEF Spec

\* The queues, the lock and the threads agree in every state.
THEOREM ServerTypes == ASSUME ConstantsOK PROVE Spec => []TypeOK
  BY Invariance, PTL DEF IInv

\* No URB of an earlier host is queued, or completed on this one's connection
\* (usbip.py, the finally block of _serve).
THEOREM HostsApart == ASSUME ConstantsOK PROVE Spec => []OnlyThisHosts
  <1>1. IInv => OnlyThisHosts
    <2> SUFFICES ASSUME IInv, NEW u \in Urbs,
                        Times(u, pending) + Times(u, <<reply>>) > 0 \/ u \in intr
                 PROVE  u \in asked
      BY DEF OnlyThisHosts
    <2>1. CASE u \in intr
      BY <2>1 DEF IInv, AskedInv
    <2>2. CASE Times(u, pending) + Times(u, <<reply>>) > 0
      <3>1. ~Reading(u, pending) => Times(u, pending) = 0
        BY FS_EmptySet DEF Reading, Times
      <3>2. ASSUME reply.urb # u PROVE Times(u, <<reply>>) = 0
        <4>1. {i \in DOMAIN <<reply>> : <<reply>>[i].urb = u} = {}
          BY <3>2
        <4> QED
          BY <4>1, FS_EmptySet DEF Times
      <3> QED
        BY <2>2, <3>1, <3>2 DEF IInv, AskedInv
    <2> QED
      BY <2>1, <2>2
  <1> QED
    BY Invariance, <1>1, PTL

\* The places of a URB, counted.
LEMMA Counted ==
    ASSUME IInv, NEW u \in Urbs
    PROVE  Places(u) = (IF Waits(u, inbox) THEN 1 ELSE 0)
                          + (IF Reading(u, pending) THEN 1 ELSE 0)
                          + (IF u \in intr THEN 1 ELSE 0)
                          + (IF reply.urb = u THEN 1 ELSE 0) + done[u]
  <1> DEFINE asks == {i \in DOMAIN inbox : inbox[i].urb = u /\ inbox[i].op # "unlink"}
             reads == {i \in DOMAIN pending : pending[i].urb = u}
             sent == {i \in DOMAIN <<reply>> : <<reply>>[i].urb = u}
  <1>1. Cardinality(asks) = IF Waits(u, inbox) THEN 1 ELSE 0
    <2>1. CASE ~Waits(u, inbox)
      <3>1. asks = {}
        BY <2>1 DEF Waits
      <3> QED
        BY <2>1, <3>1, FS_EmptySet
    <2>2. CASE Waits(u, inbox)
      <3> PICK i \in DOMAIN inbox : inbox[i].urb = u /\ inbox[i].op # "unlink"
        BY <2>2 DEF Waits
      <3>1. \A j \in asks : j = i
        <4> SUFFICES ASSUME NEW j \in asks PROVE j = i
          OBVIOUS
        <4>1. i <= j /\ j <= i
          BY DEF IInv, QueueInv, Ordered
        <4>2. i \in Nat /\ j \in Nat
          BY LenProperties DEF IInv, QueueInv
        <4> QED
          BY <4>1, <4>2
      <3>2. asks = {i}
        BY <3>1
      <3> QED
        BY <2>2, <3>2, FS_Singleton
    <2> QED
      BY <2>1, <2>2
  <1>2. Cardinality(reads) = IF Reading(u, pending) THEN 1 ELSE 0
    <2>1. CASE ~Reading(u, pending)
      <3>1. reads = {}
        BY <2>1 DEF Reading
      <3> QED
        BY <2>1, <3>1, FS_EmptySet
    <2>2. CASE Reading(u, pending)
      <3> PICK i \in DOMAIN pending : pending[i].urb = u
        BY <2>2 DEF Reading
      <3>1. reads = {i}
        BY DEF IInv, QueueInv, Single
      <3> QED
        BY <2>2, <3>1, FS_Singleton
    <2> QED
      BY <2>1, <2>2
  <1>3. Cardinality(sent) = IF reply.urb = u THEN 1 ELSE 0
    <2>1. CASE reply.urb # u
      <3>1. sent = {}
        BY <2>1
      <3> QED
        BY <2>1, <3>1, FS_EmptySet
    <2>2. CASE reply.urb = u
      <3>1. sent = {1}
        BY <2>2
      <3> QED
        BY <2>2, <3>1, FS_Singleton
    <2> QED
      BY <2>1, <2>2
  <1> QED
    BY <1>1, <1>2, <1>3 DEF Places, Times

\* Across submit, unlink, completion by either thread and the end of a session, a
\* URB is answered at most once, none is forgotten while the connection stands,
\* and an unlink that found nothing says so truthfully (usbip.py, _unlink).
THEOREM Settled == ASSUME ConstantsOK PROVE Spec => []UrbsSettled
  <1>1. IInv => UrbsSettled
    <2> SUFFICES ASSUME IInv, NEW u \in Urbs
                 PROVE  Places(u) <= 1 /\ (u \in asked /\ line = "up" => Places(u) = 1)
      BY DEF UrbsSettled, EachUrbOnce, IInv
    <2>1. done[u] \in {0, 1}
      BY DEF IInv, QueueInv
    <2> QED
      BY <2>1, Counted DEF IInv, PlaceInv, AskedInv
  <1> QED
    BY Invariance, <1>1, PTL

-----------------------------------------------------------------------------
(* The stream.  A byte is its place in what was written, so each piece of  *)
(* the stream - the bytes the writer has left, those held, those in the    *)
(* reply, those the host has - ends where the next one begins.             *)

\* s are the bytes up to n, in order, n not among them.
UpTo(s, n) == \A i \in DOMAIN s : s[i] = (n + i) - (Len(s) + 1)

\* The pieces; what was in a reply that failed is missing from them.
StreamInv ==
    /\ got \in Seq(Nat) /\ txHeld \in Seq(Nat) /\ data \in Seq(Nat)
    /\ reply.bytes \in Seq(Nat) /\ nextByte \in Nat \ {0}
    /\ wpc = "idle" => data = <<>>
    /\ UpTo(data, nextByte)
    /\ line # "cut" =>
        /\ UpTo(txHeld, nextByte - Len(data))
        /\ UpTo(reply.bytes, nextByte - Len(data) - Len(txHeld))
        /\ UpTo(got, nextByte - Len(data) - Len(txHeld) - Len(reply.bytes))

SInv == IInv /\ HeldOrPending /\ StreamInv

\* Two pieces that meet.
LEMMA Meet ==
    ASSUME NEW S, NEW s \in Seq(S), NEW t \in Seq(S), NEW n \in Int,
           UpTo(t, n), UpTo(s, n - Len(t))
    PROVE  s \o t \in Seq(S) /\ Len(s \o t) = Len(s) + Len(t) /\ UpTo(s \o t, n)
  <1>1. /\ s \o t \in Seq(S) /\ Len(s \o t) = Len(s) + Len(t)
        /\ \A i \in 1..(Len(s) + Len(t)) :
                (s \o t)[i] = IF i <= Len(s) THEN s[i] ELSE t[i - Len(s)]
    BY ConcatProperties
  <1>2. /\ Len(s) \in Nat /\ DOMAIN s = 1..Len(s)
        /\ Len(t) \in Nat /\ DOMAIN t = 1..Len(t)
        /\ DOMAIN (s \o t) = 1..(Len(s) + Len(t))
    BY <1>1, LenProperties
  <1>3. UpTo(s \o t, n)
    <2> SUFFICES ASSUME NEW i \in 1..(Len(s) + Len(t))
                 PROVE  (s \o t)[i] = (n + i) - (Len(s) + Len(t) + 1)
      BY <1>1, <1>2 DEF UpTo
    <2>1. CASE i <= Len(s)
      <3>1. i \in DOMAIN s /\ (s \o t)[i] = s[i]
        BY <2>1, <1>1, <1>2
      <3>2. s[i] = (n - Len(t) + i) - (Len(s) + 1)
        BY <3>1 DEF UpTo
      <3> QED
        BY <3>1, <3>2, <1>2
    <2>2. CASE i > Len(s)
      <3>1. i - Len(s) \in DOMAIN t /\ (s \o t)[i] = t[i - Len(s)]
        BY <2>2, <1>1, <1>2
      <3>2. t[i - Len(s)] = (n + (i - Len(s))) - (Len(t) + 1)
        BY SMTT(30), <3>1 DEF UpTo
      <3> QED
        BY <3>1, <3>2, <1>2
    <2> QED
      BY <2>1, <2>2, <1>2
  <1> QED
    BY <1>1, <1>3

\* A piece that is divided.
LEMMA Divide ==
    ASSUME NEW S, NEW s \in Seq(S), NEW k \in Nat, NEW n \in Int
    PROVE  /\ First(s, k) \in Seq(S) /\ Rest(s, k) \in Seq(S)
           /\ Len(First(s, k)) + Len(Rest(s, k)) = Len(s)
           /\ UpTo(s, n) =>
                UpTo(Rest(s, k), n) /\ UpTo(First(s, k), n - Len(Rest(s, k)))
  <1>0. Len(s) \in Nat
    BY LenProperties
  <1>1. Len(s) \in Nat /\ DOMAIN s = 1..Len(s) /\ \A i \in 1..Len(s) : s[i] \in S
    BY LenProperties, ElementOfSeq
  <1>2. PICK m \in Nat : m = IF k < Len(s) THEN k ELSE Len(s)
    BY <1>0
  <1>3. /\ m <= Len(s) /\ m <= k /\ m + (Len(s) - m) = Len(s)
        /\ (k < Len(s) => m = k) /\ (k >= Len(s) => m = Len(s))
        /\ \A i \in 1..m : i \in 1..Len(s)
    BY <1>0, <1>2
  <1>9. First(s, k) = SubSeq(s, 1, m)
    BY <1>2 DEF First
  <1>4. /\ SubSeq(s, 1, m) \in Seq(S)
        /\ Len(SubSeq(s, 1, m)) = m
        /\ \A i \in 1..m : SubSeq(s, 1, m)[i] = s[i]
    <2>1. \A i \in 1..m : s[i] \in S
      BY <1>1, <1>3
    <2>2. /\ SubSeq(s, 1, m) \in Seq(S)
          /\ Len(SubSeq(s, 1, m)) = IF 1 <= m THEN m - 1 + 1 ELSE 0
          /\ \A i \in 1..(m - 1 + 1) : SubSeq(s, 1, m)[i] = s[1 + i - 1]
      BY <2>1, SubSeqProperties
    <2>3. m - 1 + 1 = m /\ \A i \in 1..m : 1 + i - 1 = i
      OBVIOUS
    <2> QED
      BY SMTT(30), <2>2, <2>3
  <1>5. /\ Rest(s, k) \in Seq(S)
        /\ Len(Rest(s, k)) = Len(s) - m
        /\ \A i \in 1..(Len(s) - m) : Rest(s, k)[i] = s[m + i] /\ m + i \in 1..Len(s)
    <2>1. \A i \in (k + 1)..Len(s) : s[i] \in S
      BY <1>1
    <2>2. /\ Rest(s, k) \in Seq(S)
          /\ Len(Rest(s, k)) = IF k + 1 <= Len(s) THEN Len(s) - (k + 1) + 1 ELSE 0
          /\ \A i \in 1..(Len(s) - (k + 1) + 1) : Rest(s, k)[i] = s[(k + 1) + i - 1]
      BY <1>1, <2>1, k + 1 \in Nat, SubSeqProperties DEF Rest
    <2>3. CASE k < Len(s)
      <3>0. m = k /\ k + 1 <= Len(s)
        <4>1. m = k
          BY ONLY <2>3, <1>3
        <4>2. k + 1 <= Len(s)
          BY ONLY <2>3, <1>0, k \in Nat
        <4> QED
          BY <4>1, <4>2
      <3>4. Len(s) - (k + 1) + 1 = Len(s) - m
        BY ONLY <3>0, <1>0, k \in Nat
      <3>1. /\ Len(s) - (k + 1) + 1 = Len(s) - m
            /\ \A i \in 1..(Len(s) - m) : (k + 1) + i - 1 = m + i /\ m + i \in 1..Len(s)
        BY ONLY <3>4, <3>0, <1>0, k \in Nat
      <3>2. Len(Rest(s, k)) = Len(s) - m
        BY ONLY <2>2, <3>0, <3>4
      <3>3. \A i \in 1..(Len(s) - m) : Rest(s, k)[i] = s[m + i]
        BY ONLY <2>2, <3>1
      <3> QED
        BY ONLY SMTT(30), <2>2, <3>1, <3>2, <3>3
    <2>4. CASE k >= Len(s)
      <3>1. m = Len(s) /\ 1..(Len(s) - m) = {} /\ Len(s) - m = 0
        BY <2>4, <1>0, <1>3
      <3>2. Len(Rest(s, k)) = 0
        BY <2>2, <2>4, <1>0
      <3> QED
        BY <2>2, <3>1, <3>2
    <2> QED
      BY <2>3, <2>4, <1>0
  <1>6. /\ DOMAIN SubSeq(s, 1, m) = 1..m
        /\ DOMAIN Rest(s, k) = 1..(Len(s) - m)
    BY <1>4, <1>5, LenProperties
  <1>7. ASSUME UpTo(s, n) PROVE UpTo(Rest(s, k), n)
    <2> SUFFICES ASSUME NEW i \in 1..(Len(s) - m)
                 PROVE  s[m + i] = (n + i) - (Len(s) - m + 1)
      BY <1>5, <1>6 DEF UpTo
    <2>1. m + i \in DOMAIN s /\ s[m + i] = (n + (m + i)) - (Len(s) + 1)
      BY <1>1, <1>5, <1>7 DEF UpTo
    <2> QED
      BY <2>1, <1>1
  <1>8. ASSUME UpTo(s, n) PROVE UpTo(SubSeq(s, 1, m), n - (Len(s) - m))
    <2> SUFFICES ASSUME NEW i \in 1..m
                 PROVE  s[i] = (n - (Len(s) - m) + i) - (m + 1)
      BY SMTT(30), <1>4, <1>6 DEF UpTo
    <2>1. i \in DOMAIN s
      BY <1>1, <1>3
    <2>2. s[i] = (n + i) - (Len(s) + 1)
      BY <2>1, <1>8 DEF UpTo
    <2> QED
      BY <2>2, <1>1
  <1>10. ASSUME UpTo(s, n) PROVE UpTo(First(s, k), n - Len(Rest(s, k)))
    BY ONLY <1>5, <1>8, <1>9, <1>10
  <1> QED
    BY ONLY <1>3, <1>4, <1>5, <1>7, <1>9, <1>10

\* Steps that move no byte.  Only a new session's connection is "up" again.
Still ==
    /\ UNCHANGED <<got, txHeld, data, nextByte, wpc>>
    /\ reply'.bytes = reply.bytes
    /\ line' # "cut" => line # "cut"
    /\ pending' = <<>> => pending = <<>> \/ txHeld = <<>>
    /\ pending' # <<>> => pending # <<>> \/ txHeld = <<>>

\* A step that moves no bytes keeps them in order.
LEMMA StillStep ==
    ASSUME SInv, Still
    PROVE  HeldOrPending' /\ StreamInv'
  <1>1. HeldOrPending'
    BY DEF SInv, Still, HeldOrPending
  <1>2. StreamInv'
    BY DEF SInv, Still, StreamInv
  <1> QED
    BY <1>1, <1>2

\* These steps move no bytes.
LEMMA StillActions ==
    ASSUME SInv,
           \/ Accept \/ SessionBegins \/ Imported \/ Unknown \/ SessionFails \/ AnswerNow
           \/ ReadQueued \/ Interrupt \/ UnlinkRead \/ UnlinkInterrupt \/ UnlinkMissed
           \/ Read \/ Close \/ CloserStep \/ Connect \/ Ask \/ Submit \/ Unlink
           \/ HostReads \/ HangUp \/ UNCHANGED vars
    PROVE  Still
  <1> USE DEF Still, device, server, writer, closer, host, wire, session
  <1>1. HeldOrPending /\ (lock = "free" => reply.bytes = <<>>)
    BY DEF SInv, IInv, QueueInv
  <1>2. CASE Accept
    BY <1>1, <1>2 DEF Accept, SInv, IInv, IdleInv
  <1>3. CASE SessionBegins \/ Imported \/ Unknown \/ SessionFails
    BY <1>1, <1>3 DEF SessionBegins, Imported, Unknown, SessionFails
  <1>4. CASE AnswerNow \/ UnlinkInterrupt \/ UnlinkMissed
    BY <1>1, <1>4 DEF AnswerNow, UnlinkInterrupt, UnlinkMissed, Receives, Holds
  <1>5. CASE ReadQueued \/ Interrupt
    BY <1>1, <1>5 DEF ReadQueued, Interrupt, Receives
  <1>6. CASE UnlinkRead
    <2>1. DOMAIN pending # {}
      BY <1>6 DEF UnlinkRead
    <2>2. pending # <<>>
      BY <2>1
    <2> QED
      BY <1>1, <1>6, <2>2 DEF UnlinkRead, Receives, Holds, HeldOrPending
  <1>7. CASE Read \/ Close \/ CloserStep
    BY <1>1, <1>7 DEF Read, Close, CloserStep, CloseListener, CloseConnection, CloseReturns
  <1>8. CASE Connect \/ Ask \/ Submit \/ Unlink \/ HostReads \/ HangUp
    BY <1>1, <1>8 DEF Connect, Ask, Submit, Unlink, Sends, HostReads, HangUp
  <1>9. CASE UNCHANGED vars
    BY <1>1, <1>9 DEF vars
  <1> QED
    BY <1>2, <1>3, <1>4, <1>5, <1>6, <1>7, <1>8, <1>9

\* The empty piece.
LEMMA NoPiece ==
    ASSUME NEW n \in Int
    PROVE  <<>> \in Seq(Nat) /\ Len(<<>>) = 0 /\ UpTo(<<>>, n)
  BY EmptySeq DEF UpTo

\* The firmware writes.
LEMMA WriteStep ==
    ASSUME ConstantsOK, SInv, Write
    PROVE  HeldOrPending' /\ StreamInv'
  <1>1. HeldOrPending'
    BY DEF SInv, Write, HeldOrPending, device
  <1>2. PICK n \in Lengths : /\ data' = [i \in 1..n |-> nextByte + i - 1]
                             /\ nextByte' = nextByte + n
    BY DEF Write
  <1>3. n \in Nat /\ nextByte \in Nat \ {0} /\ nextByte + n \in Nat \ {0}
    <2>1. n \in Nat \ {0}
      BY DEF ConstantsOK
    <2>2. nextByte \in Nat \ {0}
      BY DEF SInv, StreamInv
    <2> QED
      BY <2>1, <2>2
  <1>4. \A i \in 1..n : nextByte + i - 1 \in Nat
    BY <1>3
  <1>5. data' \in Seq(Nat) /\ Len(data') = n /\ DOMAIN data' = 1..n
    <2>1. data' \in [1..n -> Nat]
      BY <1>2, <1>4
    <2>2. data' \in Seq(Nat)
      BY <1>3, <2>1, SeqDef
    <2> QED
      BY <1>3, <2>1, <2>2, LenProperties
  <1>6. UpTo(data', nextByte')
    BY <1>2, <1>3, <1>5 DEF UpTo
  <1>7. data = <<>> /\ Len(data) = 0
    BY NoPiece DEF SInv, StreamInv, Write
  <1>8. nextByte' - Len(data') = nextByte - Len(data)
    BY <1>2, <1>3, <1>5, <1>7
  <1> QED
    BY <1>1, <1>2, <1>3, <1>5, <1>6, <1>8
    DEF Write, SInv, StreamInv, device, session, host

\* Nothing waits: what is written is held.
LEMMA HoldStep ==
    ASSUME SInv, WriteHeld
    PROVE  HeldOrPending' /\ StreamInv'
  <1>1. /\ pending' = <<>> /\ txHeld' = txHeld \o data /\ data' = <<>>
        /\ UNCHANGED <<got, reply, nextByte, line>>
    BY DEF WriteHeld, session, host
  <1>2. /\ got \in Seq(Nat) /\ txHeld \in Seq(Nat) /\ data \in Seq(Nat)
        /\ reply.bytes \in Seq(Nat) /\ nextByte \in Nat \ {0} /\ UpTo(data, nextByte)
    BY DEF SInv, StreamInv
  <1>3. Len(data) \in Nat /\ Len(txHeld) \in Nat /\ nextByte \in Int
    BY <1>2, LenProperties
  <1>4. /\ txHeld \o data \in Seq(Nat)
        /\ Len(txHeld \o data) = Len(txHeld) + Len(data)
    BY <1>2, ConcatProperties
  <1>5. ASSUME line # "cut"
        PROVE  /\ UpTo(txHeld', nextByte' - Len(data'))
               /\ UpTo(reply'.bytes, nextByte' - Len(data') - Len(txHeld'))
               /\ UpTo(got', nextByte' - Len(data') - Len(txHeld') - Len(reply'.bytes))
    <2>1. /\ UpTo(txHeld, nextByte - Len(data))
          /\ UpTo(reply.bytes, nextByte - Len(data) - Len(txHeld))
          /\ UpTo(got, nextByte - Len(data) - Len(txHeld) - Len(reply.bytes))
      BY <1>5 DEF SInv, StreamInv
    <2>2. UpTo(txHeld \o data, nextByte)
      BY <1>2, <1>3, <2>1, Meet
    <2>3. nextByte' - Len(data') = nextByte
      BY <1>1, <1>3, NoPiece
    <2>4. nextByte - Len(txHeld') = nextByte - Len(data) - Len(txHeld)
      BY <1>1, <1>3, <1>4
    <2> QED
      BY ONLY <1>1, <2>1, <2>2, <2>3, <2>4
  <1>6. StreamInv'
    <2>1. data' \in Seq(Nat) /\ UpTo(data', nextByte')
      BY <1>1, <1>3, NoPiece
    <2> QED
      BY <1>1, <1>2, <1>4, <1>5, <2>1 DEF StreamInv
  <1> QED
    BY <1>1, <1>6 DEF HeldOrPending

\* A part of what is written, or of what is held, completes a read.
LEMMA ChunkSendStep ==
    ASSUME ConstantsOK, SInv, WriteChunk
    PROVE  HeldOrPending' /\ StreamInv'
  <1> DEFINE k == Head(pending).len
  <1>1. /\ pending # <<>> /\ lock = "free" /\ data' = Rest(data, k)
        /\ reply'.bytes = First(data, k) /\ wpc' = "sending"
        /\ UNCHANGED <<got, txHeld, nextByte, line>>
    BY DEF WriteChunk, Holds, session, host
  <1>2. /\ got \in Seq(Nat) /\ txHeld \in Seq(Nat) /\ data \in Seq(Nat)
        /\ nextByte \in Nat \ {0} /\ UpTo(data, nextByte)
    BY DEF SInv, StreamInv
  <1>3. k \in Nat
    <2>1. pending \in Seq(Reads)
      BY DEF SInv, IInv, QueueInv
    <2>2. Head(pending) \in Reads
      BY <1>1, <2>1, HeadTailProperties
    <2> QED
      BY <2>2 DEF Reads, ConstantsOK
  <1> HIDE DEF k
  <1>4. txHeld = <<>> /\ reply.bytes = <<>>
    BY <1>1 DEF SInv, HeldOrPending, IInv, QueueInv
  <1>5. /\ First(data, k) \in Seq(Nat) /\ Rest(data, k) \in Seq(Nat)
        /\ Len(First(data, k)) + Len(Rest(data, k)) = Len(data)
        /\ UpTo(Rest(data, k), nextByte)
        /\ UpTo(First(data, k), nextByte - Len(Rest(data, k)))
    BY <1>2, <1>3, nextByte \in Int, Divide
  <1>6. /\ Len(data) \in Nat /\ nextByte \in Int
        /\ Len(First(data, k)) \in Nat /\ Len(Rest(data, k)) \in Nat
    BY <1>2, <1>5, LenProperties
  <1>7. ASSUME line # "cut"
        PROVE  /\ UpTo(txHeld', nextByte' - Len(data'))
               /\ UpTo(reply'.bytes, nextByte' - Len(data') - Len(txHeld'))
               /\ UpTo(got', nextByte' - Len(data') - Len(txHeld') - Len(reply'.bytes))
    <2>1. UpTo(got, nextByte - Len(data) - Len(txHeld) - Len(reply.bytes))
      BY <1>7 DEF SInv, StreamInv
    <2>2. nextByte - Len(data) - Len(txHeld) - Len(reply.bytes) = nextByte - Len(data)
      BY <1>4, <1>6, NoPiece
    <2>3. nextByte - Len(Rest(data, k)) - Len(First(data, k)) = nextByte - Len(data)
      BY ONLY <1>5, <1>6
    <2>4. Len(txHeld') = 0 /\ \A n \in Int : n - 0 = n
      BY <1>1, <1>4, NoPiece
    <2>5. nextByte - Len(Rest(data, k)) \in Int
      BY ONLY <1>6
    <2>6. UpTo(txHeld', nextByte' - Len(data'))
      BY <1>1, <1>4, <2>5, NoPiece
    <2> QED
      BY ONLY <1>1, <1>5, <2>1, <2>2, <2>3, <2>4, <2>5, <2>6
  <1>8. StreamInv'
    BY <1>1, <1>2, <1>5, <1>7 DEF StreamInv
  <1> QED
    BY <1>1, <1>4, <1>8 DEF HeldOrPending

\* A read takes what is held, as much as it asks for.
LEMMA HeldSendStep ==
    ASSUME ConstantsOK, SInv, ReadHeld
    PROVE  HeldOrPending' /\ StreamInv'
  <1> DEFINE k == Cmd.len
  <1>1. /\ inbox # <<>> /\ inbox' = Tail(inbox) /\ Cmd.op = "in"
        /\ txHeld # <<>> /\ lock = "free" /\ txHeld' = Rest(txHeld, k)
        /\ reply'.bytes = First(txHeld, k)
        /\ UNCHANGED <<got, data, nextByte, line, wpc, pending>>
    BY DEF ReadHeld, Receives, Holds, Cmd, session, host, writer
  <1>2. /\ got \in Seq(Nat) /\ txHeld \in Seq(Nat) /\ data \in Seq(Nat)
        /\ nextByte \in Nat \ {0}
    BY DEF SInv, StreamInv
  <1>3. k \in Nat
    BY <1>1, Received, CommandParts DEF SInv, ConstantsOK
  <1> HIDE DEF k
  <1>4. pending = <<>> /\ reply.bytes = <<>>
    BY <1>1 DEF SInv, HeldOrPending, IInv, QueueInv
  <1>5. ASSUME line # "cut"
        PROVE  /\ UpTo(txHeld', nextByte' - Len(data'))
               /\ UpTo(reply'.bytes, nextByte' - Len(data') - Len(txHeld'))
               /\ UpTo(got', nextByte' - Len(data') - Len(txHeld') - Len(reply'.bytes))
    <2> DEFINE n == nextByte - Len(data)
    <2>1. /\ UpTo(txHeld, n) /\ UpTo(got, n - Len(txHeld) - Len(reply.bytes))
      BY <1>5 DEF SInv, StreamInv
    <2>2. n \in Int
      BY <1>2, LenProperties
    <2> HIDE DEF n
    <2>3. /\ First(txHeld, k) \in Seq(Nat) /\ Rest(txHeld, k) \in Seq(Nat)
          /\ Len(First(txHeld, k)) + Len(Rest(txHeld, k)) = Len(txHeld)
          /\ UpTo(Rest(txHeld, k), n)
          /\ UpTo(First(txHeld, k), n - Len(Rest(txHeld, k)))
      BY <1>2, <1>3, <2>1, <2>2, Divide
    <2>4. /\ Len(txHeld) \in Nat /\ Len(First(txHeld, k)) \in Nat
          /\ Len(Rest(txHeld, k)) \in Nat
      BY <1>2, <2>3, LenProperties
    <2>5. n - Len(txHeld) - Len(reply.bytes) = n - Len(txHeld)
      BY <1>4, <2>2, <2>4, NoPiece
    <2>6. n - Len(Rest(txHeld, k)) - Len(First(txHeld, k)) = n - Len(txHeld)
      BY ONLY <2>2, <2>3, <2>4
    <2>7. nextByte' - Len(data') = n
      BY <1>1 DEF n
    <2> QED
      BY ONLY <1>1, <2>1, <2>3, <2>5, <2>6, <2>7
  <1>6. txHeld' \in Seq(Nat) /\ reply'.bytes \in Seq(Nat)
    BY <1>1, <1>2, <1>3, 0 \in Int, Divide
  <1>7. StreamInv'
    BY <1>1, <1>2, <1>5, <1>6 DEF SInv, StreamInv
  <1> QED
    BY <1>1, <1>4, <1>7 DEF HeldOrPending

\* The reply goes: to the host, or with a connection that is cut.
LEMMA StreamSentStep ==
    ASSUME SInv, ServerSent \/ WriterSent
    PROVE  HeldOrPending' /\ StreamInv'
  <1>1. /\ UNCHANGED <<txHeld, data, nextByte, line, pending>>
        /\ reply'.bytes = <<>>
        /\ \/ got' = got \o reply.bytes
           \/ line = "cut" /\ got' = got
        /\ wpc' = "idle" => wpc = "idle" \/ data = <<>>
    BY DEF ServerSent, WriterSent, SendEnds, device, host, writer
  <1>2. /\ got \in Seq(Nat) /\ txHeld \in Seq(Nat) /\ data \in Seq(Nat)
        /\ reply.bytes \in Seq(Nat) /\ nextByte \in Nat \ {0}
    BY DEF SInv, StreamInv
  <1>3. /\ got \o reply.bytes \in Seq(Nat)
        /\ Len(got \o reply.bytes) = Len(got) + Len(reply.bytes)
    BY <1>2, ConcatProperties
  <1>4. ASSUME line # "cut"
        PROVE  /\ UpTo(reply'.bytes, nextByte' - Len(data') - Len(txHeld'))
               /\ UpTo(got', nextByte' - Len(data') - Len(txHeld') - Len(reply'.bytes))
    <2> DEFINE n == nextByte - Len(data) - Len(txHeld)
    <2>1. /\ UpTo(reply.bytes, n) /\ UpTo(got, n - Len(reply.bytes))
          /\ got' = got \o reply.bytes
      BY <1>1, <1>4 DEF SInv, StreamInv
    <2>2. n \in Int /\ nextByte' - Len(data') - Len(txHeld') = n
      BY <1>1, <1>2, LenProperties
    <2> HIDE DEF n
    <2>3. UpTo(got \o reply.bytes, n)
      BY <1>2, <2>1, <2>2, Meet
    <2>4. n - Len(reply'.bytes) = n
      BY <1>1, <2>2, NoPiece
    <2> QED
      BY <1>1, <2>1, <2>2, <2>3, <2>4, NoPiece
  <1>5. HeldOrPending'
    BY <1>1 DEF SInv, HeldOrPending
  <1>6. StreamInv'
    <2>1. got' \in Seq(Nat) /\ reply'.bytes \in Seq(Nat)
      BY <1>1, <1>2, <1>3, 0 \in Int, NoPiece
    <2> QED
      BY <1>1, <1>4, <2>1 DEF SInv, StreamInv
  <1> QED
    BY <1>5, <1>6

\* The session ends with what was held and what its host had.
LEMMA StreamEndStep ==
    ASSUME SInv, SessionEnds
    PROVE  HeldOrPending' /\ StreamInv'
  <1>1. /\ txHeld' = <<>> /\ got' = <<>> /\ pending' = <<>> /\ reply.bytes = <<>>
        /\ UNCHANGED <<data, nextByte, wpc, reply>>
    BY DEF SessionEnds, writer, SInv, IInv, QueueInv
  <1>2. /\ nextByte \in Int /\ Len(data) \in Int
        /\ data \in Seq(Nat) /\ nextByte \in Nat \ {0} /\ UpTo(data, nextByte)
        /\ wpc = "idle" => data = <<>>
    BY LenProperties DEF SInv, StreamInv
  <1>3. nextByte - Len(data) \in Int /\ Len(<<>>) = 0 /\ \A n \in Int : n - 0 = n
    BY <1>2, NoPiece
  <1>4. StreamInv'
    BY <1>1, <1>2, <1>3, NoPiece DEF StreamInv
  <1> QED
    BY <1>1, <1>4 DEF HeldOrPending

\* No step puts bytes out of order.
LEMMA StreamStep ==
    ASSUME ConstantsOK, SInv, [Next]_vars
    PROVE  SInv'
  <1>1. HeldOrPending' /\ StreamInv'
    <2> DEFINE Kept == HeldOrPending' /\ StreamInv'
    <2> SUFFICES Kept
      OBVIOUS
    <2>1. CASE \/ Accept \/ SessionBegins \/ Imported \/ Unknown \/ SessionFails \/ AnswerNow
               \/ ReadQueued \/ Interrupt \/ UnlinkRead \/ UnlinkInterrupt \/ UnlinkMissed
               \/ Read \/ Close \/ CloserStep \/ Connect \/ Ask \/ Submit \/ Unlink
               \/ HostReads \/ HangUp \/ UNCHANGED vars
      BY ONLY SInv, <2>1, StillActions, StillStep
    <2>2. CASE Write
      BY ONLY ConstantsOK, SInv, <2>2, WriteStep
    <2>3. CASE WriteHeld
      BY ONLY SInv, <2>3, HoldStep
    <2>4. CASE WriteChunk
      BY ONLY ConstantsOK, SInv, <2>4, ChunkSendStep
    <2>5. CASE ReadHeld
      BY ONLY ConstantsOK, SInv, <2>5, HeldSendStep
    <2>6. CASE ServerSent \/ WriterSent
      BY ONLY SInv, <2>6, StreamSentStep
    <2>7. CASE SessionEnds
      BY ONLY SInv, <2>7, StreamEndStep
    <2> HIDE DEF Kept
    <2> QED
      BY <2>1, <2>2, <2>3, <2>4, <2>5, <2>6, <2>7 DEF Next, ServerStep, WriterStep
  <1>2. IInv'
    BY NextInv DEF SInv
  <1> QED
    BY <1>1, <1>2 DEF SInv

\* Before the first session no byte is under way.
LEMMA StreamInit == ASSUME ConstantsOK PROVE Init => SInv
  <1> SUFFICES ASSUME Init PROVE SInv
    OBVIOUS
  <1>1. IInv
    BY InitInv
  <1>2. /\ got = <<>> /\ txHeld = <<>> /\ data = <<>> /\ reply.bytes = <<>>
        /\ nextByte = 1 /\ pending = <<>>
    BY DEF Init
  <1>3. /\ \A n \in Int : UpTo(<<>>, n) /\ n - 0 = n
        /\ Len(<<>>) = 0 /\ 1 \in Int /\ <<>> \in Seq(Nat)
    BY NoPiece, 0 \in Int
  <1>4. StreamInv
    BY ONLY <1>2, <1>3 DEF StreamInv
  <1> QED
    BY <1>1, <1>2, <1>4 DEF SInv, HeldOrPending

\* The pieces of the stream, put together.
LEMMA Together == SInv => StreamKept
  <1> SUFFICES ASSUME SInv, line # "cut"
               PROVE  LET stream == got \o reply.bytes \o txHeld \o data
                      IN  \A i \in 1..(Len(stream) - 1) : stream[i + 1] = stream[i] + 1
    BY DEF StreamKept, InOrder, SInv
  <1> DEFINE a == got \o reply.bytes
             b == a \o txHeld
             c == b \o data
  <1>1. /\ got \in Seq(Nat) /\ txHeld \in Seq(Nat) /\ data \in Seq(Nat)
        /\ reply.bytes \in Seq(Nat) /\ nextByte \in Nat \ {0}
        /\ UpTo(data, nextByte) /\ UpTo(txHeld, nextByte - Len(data))
        /\ UpTo(reply.bytes, nextByte - Len(data) - Len(txHeld))
        /\ UpTo(got, nextByte - Len(data) - Len(txHeld) - Len(reply.bytes))
    BY DEF SInv, StreamInv
  <1>2. /\ nextByte \in Int /\ nextByte - Len(data) \in Int
        /\ nextByte - Len(data) - Len(txHeld) \in Int
    BY <1>1, LenProperties
  <1>3. a \in Seq(Nat) /\ UpTo(a, nextByte - Len(data) - Len(txHeld))
    BY <1>1, <1>2, Meet
  <1> HIDE DEF a
  <1>4. b \in Seq(Nat) /\ UpTo(b, nextByte - Len(data))
    BY <1>1, <1>2, <1>3, Meet
  <1> HIDE DEF b
  <1>5. c \in Seq(Nat) /\ UpTo(c, nextByte)
    BY <1>1, <1>2, <1>4, Meet
  <1> HIDE DEF c
  <1>6. ASSUME NEW i \in 1..(Len(c) - 1) PROVE c[i + 1] = c[i] + 1
    <2>1. Len(c) \in Nat /\ DOMAIN c = 1..Len(c)
      BY <1>5, LenProperties
    <2>2. i \in DOMAIN c /\ i + 1 \in DOMAIN c
      BY <2>1
    <2>3. /\ c[i] = (nextByte + i) - (Len(c) + 1)
          /\ c[i + 1] = (nextByte + (i + 1)) - (Len(c) + 1)
      BY <1>5, <2>2 DEF UpTo
    <2> QED
      BY ONLY <1>2, <2>1, <2>3, i \in 1..(Len(c) - 1)
  <1> QED
    BY <1>6 DEF a, b, c

\* Within a session the host reads what the firmware wrote, in order and with nothing
\* left out, whichever thread completes its reads, and none of it is held while a read
\* waits (usbip.py:405 _read, 623 write).
THEOREM StreamInOrder == ASSUME ConstantsOK PROVE Spec => []StreamKept
  <1>1. Spec => []SInv
    BY StreamInit, StreamStep, PTL DEF Spec
  <1> QED
    BY <1>1, Together, PTL
=============================================================================
