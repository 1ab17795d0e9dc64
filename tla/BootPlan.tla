------------------------------ MODULE BootPlan ------------------------------
(***************************************************************************)
(* What the Renode target generator puts into the emulated ESC's flash     *)
(* (escsim/renode/generator.py), and what a reset makes of it.  The        *)
(* program chooses images, refuses what does not fit, and writes a script  *)
(* of monitor commands; every command overwrites part of the flash that    *)
(* an earlier one loaded, so their order is the algorithm.                 *)
(*                                                                         *)
(* A region holds the name of the image it came from.  "zero" is what      *)
(* Renode has where nothing is, or where an ELF's RAM size is zero-filled  *)
(* at its load address.  Delays are skipped by patching the bootloader     *)
(* where its delay loop is recognised ("one"); without --no-skip-delays    *)
(* absent the plan is that of a loop that was not ("none", "many").        *)
(***************************************************************************)
EXTENDS Naturals, Sequences

CONSTANT MaxRuns                  \* things the running machine does

Families == {"m4", "m0", "v203"}  \* by what a reset and a jump need
Regions == {"boot", "delay", "init", "app", "eeprom"}
Images == {"zero", "erased", "boot", "patched", "app", "sibling", "cached", "defaults", "given", "saved", "update"}

VARIABLES
    opt,       \* the options of the command line, and what the files are
    todo,      \* the monitor commands still to run
    flash,     \* region |-> the image it holds
    entry,     \* where a reset starts: the vector table, on v203 the entry point
    macro,     \* the reset macro
    hook,      \* images whose initAfterJump moves the vectors, f051 and f031
    at,        \* what the CPU runs
    vectors,   \* whose vector table it uses
    state, runs

vars == <<opt, todo, flash, entry, macro, hook, at, vectors, state, runs>>

NoOptions == [family |-> "m4", firmware |-> "none", sibling |-> FALSE, start |-> "none",
              cached |-> FALSE, boot |-> "none", loop |-> "none", eeprom |-> {}]

Choices == [family : Families, firmware : {"elf", "hex", "bin", "newest", "none"}, sibling : BOOLEAN,
            start : {"record", "vector", "none"}, cached : BOOLEAN, boot : {"none", "elf", "hex", "bin"},
            loop : {"none", "one", "many"}, eeprom : SUBSET {"blank", "given"}]

\* An option that is not read has one value.  The Thumb loop of the delay
\* is never found in a RISC-V image.
Options ==
    {o \in Choices :
        /\ o.firmware \notin {"hex", "bin"} => ~o.sibling
        /\ o.firmware # "hex" => o.start = "none"
        /\ o.firmware \in {"elf", "hex", "bin"} => ~o.cached
        /\ (o.boot = "none" \/ o.family = "v203") => o.loop = "none"}

----------------------------------------------------------------------------
(* main, as long as nothing is planned *)

\* A hex without its start record takes the reset vector, which RISC-V has not.
Startable(o) == o.start = "record" \/ (o.start = "vector" /\ o.family # "v203")

Refused(o) ==
    \/ o.firmware = "none" /\ o.boot = "none"
    \/ o.eeprom = {"blank", "given"}
    \/ o.family = "v203" /\ o.boot \in {"hex", "bin"}
    \/ o.firmware = "none" /\ o.boot # "elf" /\ ~o.cached
    \/ o.firmware = "newest" /\ ~o.cached
    \/ o.firmware = "bin" /\ ~o.sibling
    \/ o.firmware = "hex" /\ ~Startable(o)

\* The ELF that the family's script loads.  A hex is wrapped in one of its
\* own; without firmware the bootloader's, or a cached one, stands in.
Elf(o) ==
    CASE o.firmware = "none" -> IF o.boot = "elf" THEN "boot" ELSE "cached"
      [] o.firmware = "bin" -> "sibling"
      [] OTHER -> "app"

\* The ELF whose symbols the machine has.  A wrapped hex has none while the
\* script runs: those of its sibling are loaded after it.
Symbols(o) == IF o.firmware = "hex" THEN {} ELSE {Elf(o)}

\* An eeprom is not optional: one is generated, as of a fresh ESC or not.
Eeprom(o) ==
    CASE "given" \in o.eeprom -> "given"
      [] "blank" \in o.eeprom -> "erased"
      [] OTHER -> "defaults"

Load(i, how) == [do |-> "load", image |-> i, how |-> how]
Do(what) == [do |-> what, image |-> "zero", how |-> "binary"]
Starts(i) == [do |-> "starts", image |-> i, how |-> "binary"]
If(p, commands) == IF p THEN commands ELSE <<>>

\* am32_<family>.resc, which the generated script includes.
FamilyScript(o) ==
    <<Load(Elf(o), "physical"), Do("eeprom")>>
    \o (IF o.family = "v203" THEN <<[Do("macro") EXCEPT !.image = Elf(o)]>>
        ELSE <<Starts("app"), [Do("macro") EXCEPT !.image = "app"]>>)

EepromLost(o) == If(o.firmware = "none", <<Do("erase")>>)
\* A blank part: all of the flash is erased, and the eeprom put back.
Blank(o) == If(o.firmware = "none", <<Do("erase"), Do("eeprom")>>)

BootPhysical(o) ==
    If(o.boot # "none",
       <<Load("boot", "physical"), Do("lmas"), Starts("boot"), [Do("macro") EXCEPT !.image = "boot"]>>
       \o If(o.family = "m0", <<Do("hook")>>))
KeepsMacro(o) ==
    If(o.boot # "none",
       <<Load("boot", IF o.boot = "elf" THEN "virtual" ELSE "binary"), Do("lmas")>>
       \o If(o.family # "v203", <<Starts("boot")>>)
       \o If(o.family = "m0", <<Do("hook")>>))
\* An ELF goes to its virtual addresses, and its initialized data apart, to
\* the flash; hex and binary hold both.
bootloader_script(o) ==
    If(o.boot # "none",
       <<Load("boot", IF o.boot = "elf" THEN "virtual" ELSE "binary")>>
       \o If(o.boot = "elf", <<Do("lmas")>>)
       \o If(o.family # "v203", <<Starts("boot")>>)
       \o <<[Do("macro") EXCEPT !.image = "boot"]>>
       \o If(o.family = "m0", <<Do("hook")>>))

script(o) == FamilyScript(o) \o Blank(o) \o bootloader_script(o)

\* The one loop of a bootloader without symbols, or the one they name.
Located(o) == o.boot # "none" /\ o.loop = "one"

Setup(o) ==
    script(o)
    \o If(o.firmware = "bin", <<Load("app", "binary")>>)
    \o If(Located(o), <<Do("patch")>>)
    \o <<Do("start")>>

Generate(o) ==
    /\ opt' = o
    /\ IF Refused(o) THEN state' = "off" /\ todo' = <<>>
                     ELSE state' = "load" /\ todo' = Setup(o)
    /\ UNCHANGED <<flash, entry, macro, hook, at, vectors, runs>>

----------------------------------------------------------------------------
(* The monitor's commands (Renode) *)

\* By physical address an ELF's RAM is zero-filled at its load address,
\* which is where an application begins above a bootloader.
Written(f, i, how) ==
    CASE i # "boot" -> [f EXCEPT !["app"] = i]
      [] i = "boot" /\ how = "physical" ->
             [f EXCEPT !["boot"] = "boot", !["delay"] = "boot", !["init"] = "boot", !["app"] = "zero"]
      [] i = "boot" /\ how = "virtual" -> [f EXCEPT !["boot"] = "boot", !["delay"] = "boot"]
      [] OTHER -> [f EXCEPT !["boot"] = "boot", !["delay"] = "boot", !["init"] = "boot"]

\* The initialized data of an ELF, at their load address.
Lmas(f) == [f EXCEPT !["init"] = "boot"]

Side(i) == IF i = "boot" THEN "boot" ELSE "app"

Command ==
    /\ state = "load" /\ todo # <<>>
    /\ todo' = Tail(todo)
    /\ LET c == Head(todo) IN
        /\ flash' = CASE c.do = "load" -> Written(flash, c.image, c.how)
                      [] c.do = "eeprom" -> [flash EXCEPT !["eeprom"] = Eeprom(opt)]
                      [] c.do = "erase" -> [r \in Regions |-> "erased"]
                      [] c.do = "lmas" -> Lmas(flash)
                      [] c.do = "patch" -> [flash EXCEPT !["delay"] = "patched"]
                      [] OTHER -> flash
        /\ entry' = CASE c.do = "starts" -> c.image
                      [] c.do = "load" /\ opt.family = "v203" /\ c.how # "binary" -> Side(c.image)
                      [] OTHER -> entry
        /\ macro' = IF c.do = "macro" THEN c.image ELSE macro
        /\ hook' = IF c.do = "hook" THEN Symbols(opt) ELSE hook
        /\ state' = IF c.do = "start" THEN "run" ELSE state
        /\ at' = IF c.do = "start" THEN entry ELSE at
        /\ vectors' = IF c.do = "start" THEN entry ELSE vectors
    /\ UNCHANGED <<opt, runs>>

----------------------------------------------------------------------------
(* The running machine *)

Act == state = "run" /\ runs < MaxRuns /\ runs' = runs + 1

\* The bootloader jumps to an application that is there.  One of them moves
\* the vectors, except where the hook has to; a binary is the build of its
\* sibling.
Builds == {"app", "sibling", "cached", "update"}
SameBuild(i) == IF i = "app" /\ opt.firmware = "bin" THEN "sibling" ELSE i
Jump ==
    /\ Act /\ at = "boot" /\ flash["app"] \in Builds
    /\ at' = "app"
    /\ vectors' = IF opt.family # "m0" \/ SameBuild(flash["app"]) \in hook THEN "app" ELSE vectors
    /\ UNCHANGED <<opt, todo, flash, entry, macro, hook, state>>

\* Firmware and bootloader save settings; the bootloader writes firmware.
Save ==
    /\ Act
    /\ flash' = [flash EXCEPT !["eeprom"] = "saved"]
    /\ UNCHANGED <<opt, todo, entry, macro, hook, at, vectors, state>>

Update ==
    /\ Act /\ at = "boot"
    /\ flash' = [flash EXCEPT !["app"] = "update"]
    /\ UNCHANGED <<opt, todo, entry, macro, hook, at, vectors, state>>

\* A watchdog or NVIC reset runs the macro.  On v203 that loads an ELF
\* again, the bootloader's with its initialized data.
Reset ==
    /\ Act
    /\ flash' = IF opt.family # "v203" THEN flash
                ELSE IF macro = "boot" THEN Lmas(Written(flash, "boot", "virtual"))
                ELSE Written(flash, macro, "physical")
    /\ entry' = Side(macro)
    /\ at' = Side(macro)
    /\ vectors' = Side(macro)
    /\ UNCHANGED <<opt, todo, macro, hook, state>>

Init ==
    /\ opt = NoOptions
    /\ todo = <<>>
    /\ flash = [r \in Regions |-> "zero"]
    /\ entry = "app" /\ macro = "app"
    /\ hook = {}
    /\ at = "off" /\ vectors = "off"
    /\ state = "plan" /\ runs = 0

Next ==
    \/ state = "plan" /\ \E o \in Options : Generate(o)
    \/ Command
    \/ Jump \/ Save \/ Update \/ Reset

----------------------------------------------------------------------------
TypeOK ==
    /\ opt \in Choices
    /\ flash \in [Regions -> Images]
    /\ entry \in {"boot", "app"} /\ macro \in Images
    /\ at \in {"off", "boot", "app"} /\ vectors \in {"off", "boot", "app"}
    /\ hook \subseteq Images
    /\ state \in {"plan", "load", "off", "run"}
    /\ runs \in 0..MaxRuns

\* When the CPU starts, and as long as nothing was written since, the flash
\* holds what was asked for: the selected image or none at all, the whole of
\* the bootloader, initialized data included, and the eeprom.
LoadedAsAsked ==
    (state = "run" /\ runs = 0) =>
        /\ flash["app"] = IF opt.firmware = "none" THEN "erased" ELSE "app"
        /\ flash["eeprom"] = Eeprom(opt)
        /\ opt.boot # "none" => /\ flash["boot"] = "boot" /\ flash["init"] = "boot"
                                /\ flash["delay"] = IF opt.loop = "one" THEN "patched" ELSE "boot"

\* With a bootloader every start and every reset is in it (docstring of
\* bootloader_script), and the vectors in use are those of what runs.  Not
\* where the symbol initAfterJump is another build's, or not known when the
\* script sets the hook: an update, no firmware, a hex.
StartsInBoot ==
    /\ state = "run" => entry = IF opt.boot = "none" THEN "app" ELSE "boot"
    /\ (at = "app" /\ flash["app"] = "app" /\ opt.firmware # "hex") => vectors = "app"

\* What firmware and bootloader wrote survives a reset, and so do the
\* patches.  Not the binary on v203, whose reset loads the sibling ELF.
ResetKeeps ==
    [][(Reset /\ ~(opt.firmware = "bin" /\ opt.family = "v203")) => flash' = flash]_vars
=============================================================================
