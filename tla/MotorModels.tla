---------------------------- MODULE MotorModels ----------------------------
(***************************************************************************)
(* The motor models of a control panel: the packaged ones that a start     *)
(* copies into the user's directory, the editor and the builder that write *)
(* others (control/ui.py), how the builder comes from the numbers of a     *)
(* spec sheet to a model (control/model_builder.py), and the simulation,   *)
(* external here, that reads a file when it is told to.  A file is         *)
(* <<directory, name>>, a number is <<kind, tenths>>.  Launchers run one   *)
(* after another, and any of them may be killed.                           *)
(***************************************************************************)
EXTENDS Naturals, Sequences, FiniteSetsExt

CONSTANTS
    Packaged,       \* name -> model, a model is parameter -> number
    Fresh,          \* what a builder saves
    Typed,          \* what a user types: <<"number", tenths>> or <<"word", 0>>
    MaxGiven,       \* bound: fields of a spec sheet that are filled in
    MaxActs         \* bound: what users do, kills included

VARIABLES
    files,          \* file -> model, or Torn
    program,        \* "off", "copying", "on"
    writing,        \* [file, model]: opened, and not yet written
    paths,          \* model_paths: name -> file
    selected,       \* of model_combo
    dialog,         \* [kind, file, model, typed, saved, sheet]
    wire,           \* a request to load, on its way
    simulated,      \* the model that is simulated
    kept,           \* file -> the model that a user saved last
    edited,         \* the last save of the editor: [before, typed, after]
    acts

vars == <<files, program, writing, paths, selected, dialog, wire, simulated,
          kept, edited, acts>>

Torn == [torn |-> TRUE]
Empty == <<>>
Models(n) == <<"models", n>>
NoFile == <<"none", "none">>
Idle == [file |-> NoFile, model |-> Empty]
NoDialog == [kind |-> "none", file |-> NoFile, model |-> Empty, typed |-> Empty,
             saved |-> NoFile, sheet |-> Empty]
Put(f, k, v) == [x \in DOMAIN f \cup {k} |-> IF x = k THEN v ELSE f[x]]
Whole(f) == f \in DOMAIN files /\ files[f] # Torn
Act == acts < MaxActs /\ acts' = acts + 1

--------------------------------------------------------------------------
(* create_ui: copies what is not there, and lists what is.                 *)
Launch ==
    /\ program = "off" /\ program' = "copying"
    /\ UNCHANGED <<files, writing, paths, selected, dialog, wire, simulated, kept, edited, acts>>

Missing == {n \in DOMAIN Packaged : Models(n) \notin DOMAIN files}
Copy ==
    /\ program = "copying" /\ writing = Idle
    /\ \E n \in Missing :
           /\ writing' = [file |-> Models(n), model |-> Packaged[n]]
           /\ files' = Put(files, Models(n), Torn)
    /\ UNCHANGED <<program, paths, selected, dialog, wire, simulated, kept, edited, acts>>

Written ==
    /\ writing # Idle /\ writing' = Idle
    /\ files' = Put(files, writing.file, writing.model)
    /\ UNCHANGED <<program, paths, selected, dialog, wire, simulated, kept, edited, acts>>

Listed ==
    /\ program = "copying" /\ writing = Idle /\ Missing = {}
    /\ program' = "on"
    /\ LET names == {f[2] : f \in {g \in DOMAIN files : g[1] = "models"}}
       IN paths' = [n \in names |-> Models(n)] /\ selected' \in names
    /\ UNCHANGED <<files, writing, dialog, wire, simulated, kept, edited, acts>>

Killed ==
    /\ program # "off" /\ Act
    /\ program' = "off" /\ writing' = Idle /\ dialog' = NoDialog /\ paths' = Empty
    /\ UNCHANGED <<files, selected, wire, simulated, kept, edited>>

--------------------------------------------------------------------------
(* Select and Load.  The request may be lost, and a file that cannot be    *)
(* read leaves the simulation as it is.                                    *)
Free == program = "on" /\ dialog.kind = "none" /\ writing = Idle

Select ==
    /\ Free /\ \E n \in DOMAIN paths : n # selected /\ selected' = n
    /\ UNCHANGED <<files, program, writing, paths, dialog, wire, simulated, kept, edited, acts>>

ModelLoad ==
    /\ Free /\ Act /\ wire = NoFile
    /\ wire' = paths[selected]
    /\ UNCHANGED <<files, program, writing, paths, selected, dialog, simulated, kept, edited>>

Loads ==
    /\ wire # NoFile /\ wire' = NoFile
    /\ simulated' \in {simulated} \cup IF Whole(wire) THEN {files[wire]} ELSE {}
    /\ UNCHANGED <<files, program, writing, paths, selected, dialog, kept, edited, acts>>

--------------------------------------------------------------------------
(* EditModelDialog.  A file it cannot read raises, and opens nothing.      *)
ModelEdit ==
    /\ Free /\ Act /\ Whole(paths[selected])
    /\ dialog' = [NoDialog EXCEPT !.kind = "edit", !.file = paths[selected],
                                  !.model = files[paths[selected]]]
    /\ UNCHANGED <<files, program, writing, paths, selected, wire, simulated, kept, edited>>

Type ==
    /\ dialog.kind = "edit" /\ Act
    /\ \E p \in DOMAIN dialog.model, t \in Typed :
           dialog' = [dialog EXCEPT !.typed = Put(@, p, t)]
    /\ UNCHANGED <<files, program, writing, paths, selected, wire, simulated, kept, edited>>

\* A number that was whole stays whole: what is typed is rounded, a half to the even.
Rounded(t) ==
    LET q == t \div 10
    IN 10 * IF t % 10 > 5 \/ (t % 10 = 5 /\ q % 2 = 1) THEN q + 1 ELSE q
Converted(was, t) == <<was[1], IF was[1] = "int" THEN Rounded(t) ELSE t>>
Entered(p) == IF p \in DOMAIN dialog.typed
              THEN Converted(dialog.model[p], dialog.typed[p][2]) ELSE dialog.model[p]

\* _save, under the old name or another, always into the user's directory; a word
\* among the numbers refuses it.
Save(f, m) ==
    /\ writing = Idle
    /\ writing' = [file |-> f, model |-> m] /\ files' = Put(files, f, Torn)
    /\ kept' = Put(kept, f, m)
    /\ dialog' = [dialog EXCEPT !.saved = f, !.sheet = Empty]

SaveEdit ==
    /\ dialog.kind = "edit" /\ Act
    /\ \A p \in DOMAIN dialog.typed : dialog.typed[p][1] = "number"
    /\ LET after == [p \in DOMAIN dialog.model |-> Entered(p)]
       IN /\ \E n \in {dialog.file[2], "new"} : Save(Models(n), after)
          /\ edited' = [before |-> dialog.model, typed |-> dialog.typed, after |-> after]
    /\ UNCHANGED <<program, paths, selected, wire, simulated>>

\* model_saved lists and selects what was saved; an edit is loaded, too.
Close ==
    /\ dialog.kind # "none" /\ writing = Idle
    /\ dialog' = NoDialog
    /\ IF dialog.saved = NoFile THEN UNCHANGED <<paths, selected, wire>>
       ELSE /\ paths' = Put(paths, dialog.saved[2], dialog.saved)
            /\ selected' = dialog.saved[2]
            /\ wire' = IF dialog.kind = "edit" THEN dialog.saved ELSE wire
    /\ UNCHANGED <<files, program, writing, simulated, kept, edited, acts>>

--------------------------------------------------------------------------
(* build_model: of which fields a value is made, and which are noted.      *)
Numbers == {"resistance", "weight", "prop", "prop_mass", "idle", "voltage", "cells",
            "source_resistance", "esc_current", "temperature"}
Filled(given) ==
    {[f \in Numbers |-> IF f \in given THEN v[f] ELSE "none"] :
        v \in {w \in [given -> {"zero", "some"}] :
                  \A f \in given \cap {"prop", "idle"} : w[f] = "some"}}
Sheets == UNION {Filled(given) : given \in UNION {kSubset(k, Numbers) : k \in 0..MaxGiven}}

\* ModelBuilderDialog._spec and main.
FromDialog(s) == [s EXCEPT !["cells"] = IF @ = "zero" THEN "none" ELSE @,
                           !["temperature"] = IF @ = "some" THEN @ ELSE "25"]
FromCommand(s) == [s EXCEPT !["temperature"] = IF @ = "none" THEN "25" ELSE @]

BuildModel(s, battery) ==
    LET true(f) == s[f] \notin {"none", "zero"}
        given(f) == s[f] # "none"
        if(c, fs) == IF c THEN fs ELSE {}
    IN [from |->
          [resistance |-> if(true("resistance"), {"resistance"}),
           inductance |-> {"size", "kv"},
           inertia |-> {"size"} \cup if(true("weight"), {"weight"}) \cup
                       if(true("prop"), {"prop"} \cup if(given("prop_mass"), {"prop_mass"})),
           load_k_omega2 |-> if(true("prop"), {"prop"}),
           damping |-> if(true("idle"), {"idle", "kv"} \cup if(true("voltage"), {"voltage"})),
           voltage |-> IF true("voltage") THEN {"voltage"} ELSE if(true("cells"), {"cells"}),
           battery_resistance |->
               IF given("source_resistance") THEN {"source_resistance"}
               ELSE {"source"} \cup if(battery /\ true("cells"), {"cells"}),
           sink |-> {"source"},
           rds_on |-> if(true("esc_current"), {"esc_current"}),
           temperature_c |-> {"temperature", s["temperature"]}],
        noted |-> {"resistance", "inductance", "inertia", "load_k_omega2", "damping",
                   "sink", "rds_on"}
                  \cup if(~true("voltage"), {"voltage"})
                  \cup if(~given("source_resistance"), {"battery_resistance"})]

ModelCreate ==
    /\ Free /\ Act
    /\ dialog' = [NoDialog EXCEPT !.kind = "create"]
    /\ UNCHANGED <<files, program, writing, paths, selected, wire, simulated, kept, edited>>

Build ==
    /\ dialog.kind = "create" /\ writing = Idle /\ dialog.sheet = Empty /\ Act
    /\ \E s \in Sheets, battery \in BOOLEAN :
           dialog' = [dialog EXCEPT !.sheet = [typed |-> s, battery |-> battery]]
    /\ UNCHANGED <<files, program, writing, paths, selected, wire, simulated, kept, edited>>

\* The user chooses the file, in any directory, or none.
SaveBuilt ==
    /\ dialog.kind = "create" /\ dialog.sheet # Empty
    /\ \E n \in {"new"} \cup DOMAIN Packaged, d \in {"models", "elsewhere"} :
           Save(<<d, n>>, Fresh)
    /\ UNCHANGED <<program, paths, selected, wire, simulated, edited, acts>>

Init ==
    /\ files = Empty /\ program = "off" /\ writing = Idle /\ paths = Empty
    /\ selected = "none" /\ dialog = NoDialog /\ wire = NoFile /\ simulated = Empty
    /\ kept = Empty /\ edited = [before |-> Empty, typed |-> Empty, after |-> Empty]
    /\ acts = 0

Next ==
    \/ Launch \/ Copy \/ Written \/ Listed \/ Killed
    \/ Select \/ ModelLoad \/ Loads
    \/ ModelEdit \/ Type \/ SaveEdit \/ Close
    \/ ModelCreate \/ Build \/ SaveBuilt

--------------------------------------------------------------------------
TypeOK ==
    /\ program \in {"off", "copying", "on"} /\ acts \in 0..MaxActs
    /\ dialog.kind \in {"none", "edit", "create"}
    /\ \A n \in DOMAIN paths : paths[n][2] = n /\ paths[n] \in DOMAIN files

\* No start replaces a model that a user has saved, whatever its name; only a save
\* that was cut short leaves less than that.
ModelsKept ==
    \A f \in DOMAIN kept : f \in DOMAIN files /\ files[f] \in {kept[f], Torn}

\* An edit changes what was typed and nothing else, and leaves a whole number whole.
EditExact ==
    /\ DOMAIN edited.after = DOMAIN edited.before
    /\ \A p \in DOMAIN edited.after :
           /\ edited.after[p][1] = edited.before[p][1]
           /\ p \notin DOMAIN edited.typed => edited.after[p] = edited.before[p]
           /\ p \in DOMAIN edited.typed /\ edited.before[p][1] = "float" =>
                  edited.after[p][2] = edited.typed[p][2]

\* No number of a spec sheet is ignored that could count, every value that is not a
\* number of the sheet itself is noted, and the dialog makes the model that the
\* command line makes, but for a temperature of zero, which the dialog takes for 25.
SheetUsed ==
    dialog.sheet # Empty =>
        LET s == dialog.sheet.typed
            battery == dialog.sheet.battery
            model == BuildModel(FromDialog(s), battery)
            known == s["voltage"] = "some"
                     /\ (~battery \/ s["source_resistance"] # "none")
        IN /\ \A f \in Numbers :
                  s[f] = "some" => \/ \E v \in DOMAIN model.from : f \in model.from[v]
                                   \/ f = "prop_mass" /\ s["prop"] = "none"
                                   \/ f = "cells" /\ known
           /\ \A v \in DOMAIN model.from \ {"temperature_c"} :
                  v \in model.noted \/ model.from[v] \in {{"voltage"}, {"source_resistance"}}
           /\ s["temperature"] # "zero" => model = BuildModel(FromCommand(s), battery)
=============================================================================
