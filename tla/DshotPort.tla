----------------------------- MODULE DshotPort -----------------------------
(***************************************************************************)
(* The input port of a simulated ESC as its users see it                   *)
(* (control/dshot.py): DShot frames and their checksum, the replies of     *)
(* bidirectional DShot with extended telemetry, and the serial bytes of    *)
(* the bootloader, which a reader thread collects for whoever asks.  How   *)
(* the firmware encodes a reply is external.  A packet may be lost, and a  *)
(* reply may be damaged where the simulation reads it off the wire.        *)
(***************************************************************************)
EXTENDS Naturals, Sequences, FiniteSets, SequencesExt

CONSTANTS
    Throttles,      \* 11-bit values that are sent
    Periods,        \* of an eRPM reply, microseconds
    Telemetry,      \* extended frames: <<type, data>>
    Damaged,        \* <<reply, error>>: replies with a burst of flipped bits
    SerialMax,      \* SERIAL_MAX: bytes of a packet
    Keep, Half,     \* 1000 replies, of which 500 are kept
    MaxBytes,       \* bound: serial bytes of the bootloader
    MaxPackets      \* bound: packets of the simulation, and sends to it, together

VARIABLES
    out,            \* packets of the last send: [type, len, gap], or a frame
    wire,           \* packets on their way to the reader
    packets,        \* how many there were, and sends
    bytes,          \* serial bytes sent, numbered from 1
    missing,        \* serial bytes that were lost or thrown away
    replies,        \* InputPort.replies, since they were last taken
    arrived,        \* all that arrived since then
    serialRx,       \* serial_rx
    read,           \* serial bytes that were handed out
    taken           \* a reply as it was sent and as it was decoded

vars == <<out, wire, packets, bytes, missing, replies, arrived, serialRx, read, taken>>

--------------------------------------------------------------------------
(* Frames.  The checksum is over nibbles, inverted with bidirectional      *)
(* DShot and in replies.                                                   *)
Bit(n, i) == (n \div 2^i) % 2
Nibble(n, k) == (n \div 16^k) % 16
Xor(a, b) ==
    LET d(i) == (Bit(a, i) + Bit(b, i)) % 2
    IN d(0) + 2 * d(1) + 4 * d(2) + 8 * d(3)
Xor16(a, b) ==
    LET n(k) == Xor(Nibble(a, k), Nibble(b, k))
    IN n(0) + 16 * n(1) + 256 * n(2) + 4096 * n(3)

DshotCrc(value12, bidir) ==
    LET csum == Xor(Nibble(value12, 0), Xor(Nibble(value12, 1), Nibble(value12, 2)))
    IN IF bidir THEN 15 - csum ELSE csum

DshotFrame(value11, telem, bidir, corrupt) ==
    LET v == (value11 % 2048) * 2 + telem
        crc == DshotCrc(v, bidir)
    IN 16 * v + IF corrupt THEN Xor(crc, 5) ELSE crc

CheckReplyCrc(f) == DshotCrc(f \div 16, FALSE) = 15 - (f % 16)

DecodeReply(f, edt) ==
    LET val == f \div 16
        etype == val \div 256
        names == [t \in {2, 4, 6} |-> CASE t = 2 -> "temp" [] t = 4 -> "volt" [] t = 6 -> "current"]
    IN IF ~CheckReplyCrc(f) THEN <<"badcrc", f>>
       ELSE IF edt /\ Bit(val, 8) = 0 /\ val # 0
            THEN IF etype \in DOMAIN names THEN <<names[etype], val % 256>> ELSE <<"edt", val>>
            ELSE <<"erpm", (val % 512) * 2^(val \div 512)>>

ErpmPeriodToRpm(period) == IF period = 0 \/ period >= 65408 THEN "stopped" ELSE "turns"

\* The firmware: the type of an extended frame is even and not 0; the smallest exponent
\* with which a period fits nine bits.
Erpm == 0
Exponent(p) == CHOOSE e \in 0..7 : p \div 2^e < 512 /\ (e = 0 \/ p \div 2^(e - 1) >= 512)
Reply12(r) == IF r[1] = Erpm THEN 512 * Exponent(r[2]) + r[2] \div 2^Exponent(r[2])
              ELSE 256 * r[1] + r[2]
ReplyFrame(r) == 16 * Reply12(r) + DshotCrc(Reply12(r), TRUE)
SentReplies == {<<Erpm, p>> : p \in Periods} \cup Telemetry

--------------------------------------------------------------------------
(* To the simulation.                                                      *)
Sends == packets < MaxPackets /\ packets' = packets + 1

SendDshot ==
    /\ Sends
    /\ \E v \in Throttles, telem \in {0, 1}, bidir, corrupt \in BOOLEAN :
           out' = <<[type |-> "dshot", len |-> 4, gap |-> FALSE, idleHigh |-> bidir,
                     data |-> DshotFrame(v, telem, bidir, corrupt), good |-> ~corrupt]>>
    /\ UNCHANGED <<wire, bytes, missing, replies, arrived, serialRx, read, taken>>

\* A payload in packets, of which the first may begin with a gap.
SendSerial ==
    /\ Sends
    /\ \E n \in 0..(2 * SerialMax + 1), gap \in BOOLEAN :
           out' = [i \in 1..((n + SerialMax - 1) \div SerialMax) |->
                     [type |-> "serial", gap |-> gap /\ i = 1, idleHigh |-> TRUE,
                      len |-> IF i * SerialMax <= n THEN SerialMax ELSE n % SerialMax,
                      data |-> n, good |-> TRUE]]
    /\ UNCHANGED <<wire, bytes, missing, replies, arrived, serialRx, read, taken>>

--------------------------------------------------------------------------
(* From the simulation.                                                    *)
Puts(p) == Sends /\ wire' = Append(wire, p)

SimReplies ==
    /\ \E x \in SentReplies \X {0} \cup Damaged :
           Puts([type |-> "reply", reply |-> x[1], error |-> x[2],
                 data |-> Xor16(ReplyFrame(x[1]), x[2])])
    /\ UNCHANGED <<out, bytes, missing, replies, arrived, serialRx, read, taken>>

SimSerial ==
    /\ bytes < MaxBytes
    /\ \E n \in 1..SerialMax :
           /\ bytes + n <= MaxBytes /\ bytes' = bytes + n
           /\ Puts([type |-> "serial", data |-> [i \in 1..n |-> bytes + i]])
    /\ UNCHANGED <<out, missing, replies, arrived, serialRx, read, taken>>

\* The marker that queued bytes have left, and what unpack does not accept.
SimOther ==
    /\ \E p \in {[type |-> "serial", data |-> <<>>], [type |-> "junk", data |-> <<>>]} : Puts(p)
    /\ UNCHANGED <<out, bytes, missing, replies, arrived, serialRx, read, taken>>

Lost ==
    /\ wire # <<>> /\ wire' = Tail(wire)
    /\ missing' = IF Head(wire).type = "serial" THEN missing \cup ToSet(Head(wire).data) ELSE missing
    /\ UNCHANGED <<out, packets, bytes, replies, arrived, serialRx, read, taken>>

\* _reader; of more replies than there is room for the newest are kept.
Trimmed(rs) == IF Len(rs) > Keep THEN SubSeq(rs, Len(rs) - Half + 1, Len(rs)) ELSE rs
Reader ==
    /\ wire # <<>> /\ wire' = Tail(wire)
    /\ LET p == Head(wire)
       IN CASE p.type = "serial" -> serialRx' = serialRx \o p.data /\ UNCHANGED <<replies, arrived>>
            [] p.type = "reply"  -> /\ replies' = Trimmed(Append(replies, p))
                                    /\ arrived' = Append(arrived, p) /\ UNCHANGED serialRx
            [] OTHER             -> UNCHANGED <<replies, arrived, serialRx>>
    /\ UNCHANGED <<out, packets, bytes, missing, read, taken>>

--------------------------------------------------------------------------
(* read_serial hands out what was asked for, or all when its time is up,   *)
(* like drain_serial; flush_serial throws away.                            *)
HandOut(n) ==
    /\ read' = read \o SubSeq(serialRx, 1, n) /\ serialRx' = SubSeq(serialRx, n + 1, Len(serialRx))
    /\ UNCHANGED <<out, wire, packets, bytes, missing, replies, arrived, taken>>

ReadSerial == serialRx # <<>> /\ \E n \in 1..Len(serialRx) : HandOut(n)
DrainSerial == serialRx # <<>> /\ HandOut(Len(serialRx))

FlushSerial ==
    /\ serialRx # <<>> /\ serialRx' = <<>> /\ missing' = missing \cup ToSet(serialRx)
    /\ UNCHANGED <<out, wire, packets, bytes, replies, arrived, read, taken>>

GetReplies ==
    /\ replies # <<>>
    /\ \E edt \in BOOLEAN :
           taken' = {[sent |-> replies[i].reply, error |-> replies[i].error, edt |-> edt,
                      value |-> DecodeReply(replies[i].data, edt)] : i \in DOMAIN replies}
    /\ replies' = <<>> /\ arrived' = <<>>
    /\ UNCHANGED <<out, wire, packets, bytes, missing, serialRx, read>>

Init ==
    /\ out = <<>> /\ wire = <<>> /\ packets = 0 /\ bytes = 0 /\ missing = {}
    /\ replies = <<>> /\ arrived = <<>> /\ serialRx = <<>> /\ read = <<>> /\ taken = {}

Next ==
    \/ SendDshot \/ SendSerial
    \/ SimReplies \/ SimSerial \/ SimOther \/ Lost \/ Reader
    \/ ReadSerial \/ DrainSerial \/ FlushSerial \/ GetReplies

--------------------------------------------------------------------------
TypeOK ==
    /\ packets \in 0..MaxPackets /\ bytes \in 0..MaxBytes
    /\ missing \subseteq 1..bytes /\ Len(replies) <= Keep

\* A frame is taken for what it is and for nothing else: the checksum of a frame
\* that is sent fits its value, idle level and telemetry bit, and a corrupted one
\* fits neither kind.
FrameSound ==
    \A i \in DOMAIN out : out[i].type = "dshot" =>
        LET v == out[i].data \div 16
            fits(bidir) == out[i].data % 16 = DshotCrc(v, bidir)
        IN IF out[i].good THEN fits(out[i].idleHigh) /\ ~fits(~out[i].idleHigh)
           ELSE ~fits(TRUE) /\ ~fits(FALSE)

\* A payload leaves whole, in packets the port accepts, with one gap at most, which
\* leads it.
PayloadWhole ==
    \A i \in DOMAIN out : out[i].type = "serial" =>
        /\ out[i].len \in 1..SerialMax /\ (out[i].gap => i = 1)
        /\ i < Len(out) => out[i].len = SerialMax
        /\ out[i].data = (Len(out) - 1) * SerialMax + Last(out).len

\* A reply is decoded to what was sent, rounded to its nine bits, and never to
\* another kind; damage is noticed.  With extended telemetry a motor that is too
\* fast for the ninth bit cannot be told from it.
Rounded(p) == p - (p % 2^Exponent(p))
DecodesTrue ==
    \A t \in taken :
        LET kinds == [k \in {2, 4, 6} |-> CASE k = 2 -> "temp" [] k = 4 -> "volt" [] k = 6 -> "current"]
        IN IF t.error # 0 THEN t.value[1] = "badcrc"
           ELSE IF t.sent[1] = Erpm
           THEN \/ t.edt /\ t.sent[2] \in 1..255
                \/ /\ t.value = <<"erpm", Rounded(t.sent[2])>>
                   /\ ErpmPeriodToRpm(t.value[2]) = "stopped" <=> t.sent[2] \in {0, 65408}
           ELSE t.edt => t.value = IF t.sent[1] \in DOMAIN kinds
                                   THEN <<kinds[t.sent[1]], t.sent[2]>>
                                   ELSE <<"edt", 256 * t.sent[1] + t.sent[2]>>

\* Serial bytes are handed out in order and once, and each that is neither lost nor
\* thrown away is handed out or there; of the replies the newest are there.
Underway == FlattenSeq([i \in DOMAIN wire |-> IF wire[i].type = "serial" THEN wire[i].data ELSE <<>>])
NoneTwice ==
    /\ read \o serialRx \o Underway =
           SelectSeq([i \in 1..bytes |-> i], LAMBDA b : b \notin missing)
    /\ IsSuffix(replies, arrived) /\ (arrived # <<>> => replies # <<>>)
=============================================================================
