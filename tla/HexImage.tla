------------------------------ MODULE HexImage ------------------------------
(***************************************************************************)
(* Firmware images: an Intel HEX file read record by record, the ELF that  *)
(* is made of it, the chunks that are read back from an ELF, and the bytes *)
(* that the patch locators see (escsim/renode/generator.py,                *)
(* escsim/renode/flight_controller.py).  Addresses are small numbers; a    *)
(* byte is <<line, place>>, where the text has it.                         *)
(***************************************************************************)
EXTENDS Naturals, Sequences, SequencesExt, FiniteSetsExt

CONSTANTS
    Bank,           \* of a linear address record: 64 KiB
    Paragraph,      \* of a segment address record: 16 bytes
    Header, Entry,  \* sizes of an ELF's header and of a program header
    FlashSize,      \* the flash is 0..(FlashSize - 1)
    Elfs,           \* [segments, sections]
    MaxLines        \* bound

VARIABLES
    upper,          \* of parse_ihex_image
    entry,          \* the start record, or "none"
    records,
    state,          \* "reading", "ended", "refused", "elf"
    line,           \* lines read
    elf             \* what is read instead

vars == <<upper, entry, records, state, line, elf>>

--------------------------------------------------------------------------
(* parse_ihex_image                                                        *)
Read(u, e, rs, s) ==
    /\ state = "reading" /\ line < MaxLines
    /\ upper' = u /\ entry' = e /\ records' = rs /\ state' = s
    /\ line' = line + 1 /\ UNCHANGED elf

Data ==
    \E a \in 0..(Bank - 1), n \in {1, 2} :
        Read(upper, entry, Append(records, [at |-> upper + a,
                 bytes |-> [i \in 1..n |-> <<line + 1, i>>]]), "reading")
Linear == \E u \in {0, 1} : Read(u * Bank, entry, records, "reading")
Segment == \E u \in {0, 1} : Read(u * Paragraph, entry, records, "reading")
Start == Read(upper, <<line + 1>>, records, "reading")
EndOfFile == Read(upper, entry, records, "ended")
\* Not hexadecimal, a wrong sum or a wrong length; a line without a colon is
\* none of the file's.
Bad == Read(upper, entry, records, "refused")
Skipped == Read(upper, entry, records, "reading")
\* A file may end without its end record.
Ends == /\ state = "reading" /\ state' = "ended" /\ UNCHANGED <<upper, entry, records, line, elf>>

Joined(cs, r) ==
    IF cs # <<>> /\ Last(cs).at + Len(Last(cs).bytes) = r.at
    THEN Front(cs) \o <<[at |-> Last(cs).at, bytes |-> Last(cs).bytes \o r.bytes]>>
    ELSE Append(cs, r)

\* A stable sort by address: of two at one address the later stays later.
Before(i, j) == records[i].at < records[j].at \/ (records[i].at = records[j].at /\ i < j)
Sorted ==
    LET place(i) == 1 + Quantify(DOMAIN records, LAMBDA j : Before(j, i))
    IN [k \in DOMAIN records |-> records[CHOOSE i \in DOMAIN records : place(i) = k]]

Chunks == FoldLeft(Joined, <<>>, Sorted)

--------------------------------------------------------------------------
(* write_image_elf: one load segment per chunk, each at the next multiple  *)
(* of four in the file; and elf_chunks, which reads any ELF.               *)
Aligned(n) == ((n + 3) \div 4) * 4
Offsets(cs) ==
    LET after[k \in 0..Len(cs)] ==
            IF k = 0 THEN Header + Entry * Len(cs)
            ELSE Aligned(after[k - 1]) + Len(cs[k].bytes)
    IN [k \in DOMAIN cs |-> Aligned(after[k - 1])]

WriteImageElf(cs) ==
    LET off == Offsets(cs)
        In(k, i) == off[k] <= i /\ i < off[k] + Len(cs[k].bytes)
        size == IF cs = <<>> THEN Header ELSE Last(off) + Len(Last(cs).bytes)
    IN [segments |-> [k \in DOMAIN cs |->
            [type |-> "load", offset |-> off[k], vaddr |-> cs[k].at, filesz |-> Len(cs[k].bytes)]],
        file |-> [i \in Header..(size - 1) |->
            IF i < Header + Entry * Len(cs) THEN "header"
            ELSE IF \E k \in DOMAIN cs : In(k, i)
            THEN LET k == CHOOSE k \in DOMAIN cs : In(k, i) IN cs[k].bytes[i - off[k] + 1]
            ELSE "padding"]]

ElfChunks(e) ==
    LET loads == SelectSeq(e.segments, LAMBDA s : s.type = "load" /\ s.filesz > 0)
    IN [k \in DOMAIN loads |->
            [at |-> loads[k].vaddr,
             bytes |-> [i \in 1..loads[k].filesz |-> e.file[loads[k].offset + i - 1]]]]

(* BootImage.  bytes_at looks into one chunk.                              *)
Holds(c, a, n) == c.at <= a /\ a + n <= c.at + Len(c.bytes)
BytesAt(cs, a, n) ==
    IF \E k \in DOMAIN cs : Holds(cs[k], a, n)
    THEN LET c == cs[Min({k \in DOMAIN cs : Holds(cs[k], a, n)})]
         IN SubSeq(c.bytes, a - c.at + 1, a - c.at + n)
    ELSE <<>>

\* Where a pattern that does not overlap itself occurs; an address is even.
Scan(cs, pattern) ==
    UNION {{a \in cs[k].at..(cs[k].at + Len(cs[k].bytes) - Len(pattern)) :
               a % 2 = 0 /\ BytesAt(<<cs[k]>>, a, Len(pattern)) = pattern} : k \in DOMAIN cs}

(* _firmware_chunks for an ELF: the allocated sections with contents that  *)
(* lie in a load segment, at that segment's load address, or, when none is *)
(* in the flash, the load segments whole.                                  *)
ReadElf ==
    /\ state = "reading" /\ line = 0
    /\ state' = "elf" /\ elf' \in Elfs
    /\ UNCHANGED <<upper, entry, records, line>>

InFlash(a, n) == a + n <= FlashSize
Sections ==
    UNION {
        {[at |-> s.paddr + c.offset - s.offset, offset |-> c.offset, size |-> c.size] :
            c \in {d \in elf.sections :
                /\ d.kind = "progbits" /\ d.alloc /\ d.size > 0
                /\ s.offset <= d.offset /\ d.offset + d.size <= s.offset + s.filesz}} :
        s \in {r \in elf.segments : r.type = "load" /\ r.filesz > 0}}
FirmwareChunks ==
    LET inside == {c \in Sections : InFlash(c.at, c.size)}
    IN IF inside # {} THEN inside
       ELSE {[at |-> s.paddr, offset |-> s.offset, size |-> s.filesz] :
                s \in {s \in elf.segments : /\ s.type = "load" /\ s.filesz > 0
                                            /\ InFlash(s.paddr, s.filesz)}}

Init ==
    /\ upper = 0 /\ entry = <<>> /\ records = <<>>
    /\ state = "reading" /\ line = 0 /\ elf = [segments |-> {}, sections |-> {}]

Next ==
    \/ ReadElf \/ Data \/ Linear \/ Segment \/ Start \/ EndOfFile \/ Bad \/ Skipped \/ Ends

--------------------------------------------------------------------------
TypeOK ==
    /\ upper \in {0, Bank, Paragraph} /\ line \in 0..MaxLines
    /\ Len(entry) <= 1 /\ Len(records) <= line
    /\ state \in {"reading", "ended", "refused", "elf"}

Disjoint ==
    \A i, j \in DOMAIN records : i # j =>
        \/ records[i].at + Len(records[i].bytes) <= records[j].at
        \/ records[j].at + Len(records[j].bytes) <= records[i].at

\* The bytes of a file whose records do not overlap are found wherever they
\* are asked for, across the borders of its records and whatever their order.
Memory == UNION {{<<r.at + i - 1, r.bytes[i]>> : i \in DOMAIN r.bytes} : r \in Range(records)}
ImageWhole ==
    state = "ended" /\ Disjoint =>
        \A a \in 0..(2 * Bank), n \in {1, 2, 4} :
            LET there == {m \in Memory : m[1] \in a..(a + n - 1)}
                found == BytesAt(Chunks, a, n)
            IN IF Cardinality(there) < n THEN found = <<>>
               ELSE \A i \in 1..n : <<a + i - 1, found[i]>> \in there

\* An image that is written as an ELF and read back is the same image, and so a
\* pattern is found where it was.
ElfKeeps ==
    state = "ended" /\ Chunks # <<>> =>
        LET read == ElfChunks(WriteImageElf(Chunks)) IN
        /\ read = Chunks
        /\ \A p \in {r.bytes : r \in Range(records)} : Scan(read, p) = Scan(Chunks, p)

\* What is put into the flash from an ELF is what a loader of its segments
\* would put there, at the address the loader would.
FlashTrue ==
    state = "elf" =>
        \A c \in FirmwareChunks : \E s \in elf.segments :
            /\ s.offset <= c.offset /\ c.offset + c.size <= s.offset + s.filesz
            /\ c.at + s.offset = c.offset + s.paddr
=============================================================================
