----------------------------- MODULE CaptureLog -----------------------------
(***************************************************************************)
(* The record of a capture: telemetry that the reader thread of an MspPort *)
(* stamps and queues, commands that set_throttle adds (esc_capture_fc.py), *)
(* and the writer thread of a Recorder (esc_measure.py).                   *)
(***************************************************************************)
EXTENDS Naturals, Sequences, SequencesExt

CONSTANTS
    MaxTime,        \* bound: ticks of the measurement clock
    MaxRows         \* bound: samples, and commands

VARIABLES
    now,            \* the measurement clock
    lock,           \* order_lock: "free", "reader" or "main"
    stamp,          \* the reader's stamp of the sample it holds
    telemQ,         \* BetaflightBackend.telem_q: stamps
    pc,             \* the main thread: "run", "drain", "row", "closing", "closed"
    rows,           \* Recorder.rows: [t, type]
    writeQ,         \* Recorder.q
    writing,        \* the writer thread runs
    buffer,         \* rows that fh.write took and that are not on disk
    file,           \* the rows on disk
    writeError,     \* Recorder.write_error is set
    unflushed,      \* observer: the flush of fh.close failed, and ended the writer
    late            \* close() gave the writer up

writer == <<writing, buffer, file, writeError, unflushed>>
vars == <<now, lock, stamp, telemQ, pc, rows, writeQ, writer, late>>
store == <<rows, writeQ, writer, late>>

End == [t |-> 0, type |-> "end"]
Count(type) == Len(SelectSeq(rows, LAMBDA r : r.type = type))

Init ==
    /\ now = 0 /\ lock = "free" /\ stamp = 0 /\ telemQ = <<>> /\ pc = "run"
    /\ rows = <<>> /\ writeQ = <<>> /\ late = FALSE
    /\ writing = TRUE /\ buffer = <<>> /\ file = <<>>
    /\ writeError = FALSE /\ unflushed = FALSE

Tick == now < MaxTime /\ now' = now + 1 /\ UNCHANGED <<lock, stamp, telemQ, pc, store>>

\* _on_telemetry: the clock is read and the sample queued under the lock.
OnTelemetry ==
    /\ lock = "free" /\ pc # "closed"
    /\ Count("status") + Len(telemQ) < MaxRows
    /\ lock' = "reader" /\ stamp' = now
    /\ UNCHANGED <<now, telemQ, pc, store>>
Queued ==
    /\ lock = "reader"
    /\ telemQ' = Append(telemQ, stamp) /\ lock' = "free"
    /\ UNCHANGED <<now, stamp, pc, store>>

Adds(new) == rows' = rows \o new /\ writeQ' = writeQ \o new /\ UNCHANGED <<writer, late>>
Samples == [i \in DOMAIN telemQ |-> [t |-> telemQ[i], type |-> "status"]]

\* spin_for and set_throttle drain what has arrived.
PollTelemetry ==
    /\ pc = "run" /\ telemQ # <<>>
    /\ Adds(Samples) /\ telemQ' = <<>>
    /\ UNCHANGED <<now, lock, stamp, pc>>

\* set_throttle: drained and logged under the lock of the reader.
TakesNothing == UNCHANGED lock
Takes == lock = "free" /\ lock' = "main"
Gives == IF lock = "main" THEN lock' = "free" ELSE UNCHANGED lock

SetThrottle ==
    /\ pc = "run" /\ Count("cmd") < MaxRows
    /\ Takes
    /\ Adds(Samples) /\ telemQ' = <<>>
    /\ pc' = "row"
    /\ UNCHANGED <<now, stamp>>
CommandRow ==
    /\ pc = "row"
    /\ Adds(<<[t |-> now, type |-> "cmd"]>>)
    /\ Gives /\ pc' = "run"
    /\ UNCHANGED <<now, stamp, telemQ>>

\* The writer thread.  A row stays in the buffer, or all that is there goes to disk; a
\* row whose write fails is missed, and the user told when the log is closed.
Writer ==
    /\ writing /\ writeQ # <<>> /\ Head(writeQ) # End /\ writeQ' = Tail(writeQ)
    /\ LET held == Append(buffer, Head(writeQ)) IN
       \/ buffer' = held /\ UNCHANGED <<file, writeError>>
       \/ buffer' = <<>> /\ file' = file \o held /\ UNCHANGED writeError
       \/ writeError' = TRUE /\ UNCHANGED <<buffer, file>>
    /\ UNCHANGED <<now, lock, stamp, telemQ, pc, rows, writing, unflushed, late>>

\* fh.close() flushes what is left.  Nothing catches its failure: the thread ends, part
\* of the buffer is not on disk, and write_error is not set.
WriterEnds ==
    /\ writing /\ writeQ # <<>> /\ Head(writeQ) = End /\ writeQ' = Tail(writeQ)
    /\ writing' = FALSE /\ buffer' = <<>>
    /\ \/ file' = file \o buffer /\ UNCHANGED unflushed
       \/ \E n \in 1..Len(buffer) :
            file' = file \o SubSeq(buffer, 1, n - 1) /\ unflushed' = TRUE
    /\ UNCHANGED <<now, lock, stamp, telemQ, pc, rows, writeError, late>>

\* Recorder.close: the writer is sent an end and waited for ten seconds.
Close ==
    /\ pc = "run"
    /\ writeQ' = Append(writeQ, End) /\ pc' = "closing"
    /\ UNCHANGED <<now, lock, stamp, telemQ, rows, writer, late>>
Closed ==
    /\ pc = "closing"
    /\ late' = writing /\ pc' = "closed"
    /\ UNCHANGED <<now, lock, stamp, telemQ, rows, writeQ, writer>>

Next ==
    \/ Tick \/ OnTelemetry \/ Queued \/ PollTelemetry \/ SetThrottle \/ CommandRow
    \/ Writer \/ WriterEnds \/ Close \/ Closed
-----------------------------------------------------------------------------
TypeOK ==
    /\ now \in 0..MaxTime /\ lock \in {"free", "reader", "main"} /\ stamp \in 0..now
    /\ pc \in {"run", "row", "closing", "closed"} /\ Len(telemQ) <= MaxRows
    /\ {late, writing, writeError, unflushed} \subseteq BOOLEAN

\* "The file stays in time order": a command is logged after every sample that
\* was stamped before it, and before every later one.
LogOrdered ==
    \A i, j \in DOMAIN rows :
        i < j /\ "cmd" \in {rows[i].type, rows[j].type} => rows[i].t <= rows[j].t

\* When close() has told the user of no failed write and of no writer that did not
\* drain, what is on disk is how the record began.  It is all of it unless the last
\* flush failed, of which close() says nothing.
LogComplete ==
    pc = "closed" /\ ~writeError /\ ~late =>
        IsPrefix(file, rows) /\ (~unflushed => file = rows)
=============================================================================
