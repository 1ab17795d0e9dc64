------------------------------ MODULE FcFlash -------------------------------
(***************************************************************************)
(* The flash of the simulated flight controller                            *)
(* (escsim/renode/flight_controller.py and its callers in gui.py).  One    *)
(* file outlives every launch: Renode loads it and, when its machine       *)
(* pauses or goes, writes the whole of its flash back, with the settings   *)
(* the firmware saved in it and with the instruction patches that make     *)
(* the emulation fast.  A launch must tell its own patches from another    *)
(* firmware, and may patch only code it has recognized.                    *)
(*                                                                         *)
(* A patch is "part" when some of its words are written, and "stale" when  *)
(* its trampoline in the erased end of flash is left over from code that   *)
(* a DFU download replaced.  Code that was written in part, or patched at  *)
(* addresses of another build, is "broken".                                *)
(***************************************************************************)
EXTENDS Naturals, Sequences

CONSTANTS
    Names,          \* the firmwares a user selects
    MaxStarts       \* launches

\* A managed firmware is bundled, and may be downloaded in a newer build.
Builds == Names \X {"bundled", "latest"}
Patches == {"gyro", "sof", "scheduler", "poll"}
InOrder == <<"gyro", "sof", "scheduler", "poll">>
Caves == {"scheduler", "poll"}    \* patches with a trampoline
Whole == {"none", "whole"}
Nowhere == <<"none", "none">>
Broken == <<"broken", "broken">>
Erased == <<"erased", "erased">>

VARIABLES
    file,      \* the flash image on disk
    mem,       \* the flash of the running machine
    cache,     \* the names of which a newer build is in the cache
    recognizable, \* the builds whose hook sites are recognized
    profiled,  \* the builds that bring a speed profile of their own
    mode,      \* fc_boot_mode
    selected,  \* the build that a start in flash mode selected
    plan,      \* the build whose sites the generated script patches
    words,     \* the patches that script has still to write
    state, starts

vars == <<file, mem, cache, recognizable, profiled, mode, selected, plan, words, state, starts>>

Unpatched == [p \in Patches |-> "none"]
Blank == [code |-> Erased, patch |-> Unpatched, saved |-> FALSE, torn |-> FALSE]

\* What flight_controller_firmware resolves a name to.
Image(n) == <<n, IF n \in cache THEN "latest" ELSE "bundled">>

----------------------------------------------------------------------------
(* Selecting a firmware *)

RestoresNothing(f) == f
\* Exact patches are undone before anything is compared; one that is not
\* exact leaves all of them where they are.
Restored(f) ==
    IF \A p \in Patches : f.patch[p] \in Whole THEN [f EXCEPT !.patch = Unpatched] ELSE f

\* The bytes of the image, without the settings, and without trampolines,
\* which are where no image is.
MatchesCode(f, image) == f.code = image
Matches(f, image) ==
    /\ f.code = image
    /\ \A p \in Patches : f.patch[p] \in {"none", "stale"}

select_firmware(f, image) ==
    IF Matches(Restored(f), image) THEN f
    ELSE [code |-> image, patch |-> Unpatched, saved |-> FALSE, torn |-> FALSE]

\* Every sequence is unique and in its context, or none is patched.
Recognized(f) ==
    IF Restored(f).code \in recognizable /\ Restored(f).patch = Unpatched
    THEN Restored(f).code ELSE Nowhere

\* Symbols are only those of the build that is recognized; firmware that
\* brings its own speed profile is left alone.
Disagrees(f, symbols) == symbols # Nowhere /\ Recognized(f) # symbols
Plan(f) == IF f.code \in profiled THEN Nowhere ELSE Recognized(f)

----------------------------------------------------------------------------
(* The launcher *)

\* The machine's script is written when Start is pressed, in both modes.
\* A torn file is refused, and symbols of another build are.
Start(n, m, symbols) ==
    /\ state = "stopped" /\ starts < MaxStarts
    /\ starts' = starts + 1
    /\ IF file.torn THEN UNCHANGED <<file, mode, selected, plan, words, state>>
       ELSE LET f == IF m = "flash" THEN select_firmware(file, Image(n)) ELSE file
                refused == f.code \notin profiled /\ Disagrees(f, symbols)
            IN  /\ file' = f
                /\ mode' = m
                /\ selected' = Image(n)
                /\ plan' = IF refused THEN Nowhere ELSE Plan(f)
                /\ words' = <<>>
                /\ state' = IF refused THEN "stopped" ELSE IF m = "flash" THEN "boot" ELSE "dfu"
    /\ UNCHANGED <<mem, cache, recognizable, profiled>>

\* A download is complete, or leaves its cache as it was.
Download(n) ==
    /\ n \notin cache
    /\ cache' = cache \cup {n}
    /\ UNCHANGED <<file, mem, recognizable, profiled, mode, selected, plan, words, state, starts>>

\* A DFU host erases what it writes, or everything, and the settings with
\* it or not; it may leave in the middle.
DfuDownload(image, everything, settings) ==
    /\ state = "dfu"
    /\ file' = [code |-> image, torn |-> FALSE, saved |-> file.saved /\ ~everything /\ ~settings,
                patch |-> [p \in Patches |->
                    IF everything \/ p \notin Caves \/ file.patch[p] = "none" THEN "none" ELSE "stale"]]
    /\ UNCHANGED <<mem, cache, recognizable, profiled, mode, selected, plan, words, state, starts>>

\* _dfu_manifest starts the process with the command of Start.
DfuManifest ==
    /\ state = "dfu"
    /\ state' = "boot"
    /\ UNCHANGED <<file, mem, cache, recognizable, profiled, mode, selected, plan, words, starts>>

----------------------------------------------------------------------------
(* Renode *)

\* The script loads the file, then writes the patches' words one by one.
Boot ==
    /\ state = "boot"
    /\ mem' = file
    /\ words' = IF plan = Nowhere THEN <<>> ELSE InOrder
    /\ state' = "script"
    /\ UNCHANGED <<file, cache, recognizable, profiled, mode, selected, plan, starts>>

\* A patch has several words; written over itself it stays whole.
Write ==
    /\ state = "script" /\ words # <<>>
    /\ LET p == Head(words)
           whole == mem.patch[p] \in {"part", "whole"} IN
        /\ mem' = [mem EXCEPT !.patch[p] = IF whole THEN "whole" ELSE "part",
                              !.code = IF @ = plan THEN @ ELSE Broken]
        /\ words' = IF whole THEN Tail(words) ELSE words
    /\ UNCHANGED <<file, cache, recognizable, profiled, mode, selected, plan, state, starts>>

Run ==
    /\ state = "script" /\ words = <<>>
    /\ state' = "run"
    /\ UNCHANGED <<file, mem, cache, recognizable, profiled, mode, selected, plan, words, starts>>

SaveSettings ==
    /\ state = "run" /\ mem.code \in Builds
    /\ mem' = [mem EXCEPT !.saved = TRUE]
    /\ UNCHANGED <<file, cache, recognizable, profiled, mode, selected, plan, words, state, starts>>

\* The machine is paused, or disposed of, and saves its flash; or the
\* process is killed, before that or in the middle of it.
Save ==
    /\ state \in {"script", "run"}
    /\ file' = mem
    /\ UNCHANGED <<mem, cache, recognizable, profiled, mode, selected, plan, words, state, starts>>

Stop(saves, torn) ==
    /\ state \in {"dfu", "boot", "script", "run"}
    /\ state' = "stopped"
    /\ file' = IF state \notin {"script", "run"} \/ ~saves THEN file ELSE [mem EXCEPT !.torn = torn]
    /\ words' = <<>>
    /\ UNCHANGED <<mem, cache, recognizable, profiled, mode, selected, plan, starts>>

Init ==
    /\ file = Blank /\ mem = Blank
    /\ cache = {}
    /\ recognizable \in {Builds, {b \in Builds : b[2] = "bundled"}}
    /\ profiled \in {{}, {b \in Builds : b[2] = "latest"}}
    /\ mode = "flash"
    /\ selected = Nowhere /\ plan = Nowhere
    /\ words = <<>>
    /\ state = "stopped" /\ starts = 0

Next ==
    \/ \E n \in Names, m \in {"flash", "dfu"}, s \in Builds \cup {Nowhere} : Start(n, m, s)
    \/ \E n \in Names : Download(n)
    \/ \E b \in Builds \cup {Broken}, e, s \in BOOLEAN : DfuDownload(b, e, s)
    \/ DfuManifest \/ Boot \/ Write
    \/ Run \/ SaveSettings \/ Save
    \/ \E s, t \in BOOLEAN : Stop(s, t)

----------------------------------------------------------------------------
Flash == [code : Builds \cup {Erased, Broken}, patch : [Patches -> {"none", "part", "whole", "stale"}],
          saved : BOOLEAN, torn : BOOLEAN]

TypeOK ==
    /\ file \in Flash /\ mem \in Flash
    /\ cache \subseteq Names
    /\ mode \in {"flash", "dfu"}
    /\ selected \in Builds \cup {Nowhere} /\ plan \in Builds \cup {Nowhere}
    /\ \E i \in 1..5 : words = SubSeq(InOrder, i, 4)
    /\ state \in {"stopped", "dfu", "boot", "script", "run"}
    /\ starts \in 0..MaxStarts

\* A start from flash runs the build that was selected, whole, whatever
\* earlier runs, downloads and kills have left in the file.
RunsSelected ==
    (state = "run" /\ mode = "flash") =>
        /\ mem.code = selected
        /\ \A p \in Patches : mem.patch[p] # "part"

\* Starting the firmware that is there keeps its settings, patched as it may
\* be (docstring of select_firmware); only a patch that was cut short, or is
\* of older code, makes it look like another firmware.
SettingsKept ==
    [][(starts' # starts /\ mode' = "flash" /\ file.code = selected' /\ ~file.torn
            /\ \A p \in Patches : file.patch[p] \in Whole)
        => file'.saved = file.saved]_vars

\* "rather than risking a hook at a coincidental address" (docstring of
\* recognize_betaflight_hotpatches): no code is patched at the sites of
\* another build.
PatchesFit == (state = "script" /\ mem.code # Broken /\ words # <<>>) => mem.code = plan
=============================================================================
