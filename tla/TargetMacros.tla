---------------------------- MODULE TargetMacros ----------------------------
(***************************************************************************)
(* The preprocessor of targets.h (target/preprocessor.py): one pass over   *)
(* the lines of the file with a stack of the open conditionals, and what   *)
(* it should compute, said without a stack.  A line is a directive with    *)
(* its argument, a step of the pass; a text is any sequence of them.       *)
(* Comments and continued lines are taken as joined and removed.           *)
(***************************************************************************)
EXTENDS Naturals, Sequences, FiniteSets

CONSTANTS
    Target,         \* the macro of the target that is asked for
    Names,          \* the macros of the text
    Conditions,     \* [tokens, holds]: #if expressions, and the values of the
                    \* defined macros with which each is true in C
    MaxLines        \* bound

VARIABLES
    macros,         \* name -> value, of those that are defined
    stack,          \* of _Conditional
    active,
    failed,         \* a PreprocessorError was raised
    text            \* the lines read so far

vars == <<macros, stack, active, failed, text>>

Nothing == <<>>
Known == Names \cup {Target}
Value(env, m) == IF m \in DOMAIN env THEN env[m] ELSE 0
Truth(b) == IF b THEN 1 ELSE 0

--------------------------------------------------------------------------
(* _Expression.  A level of the grammar from a token on: the value, and    *)
(* the token that follows; 0 when there is none.                           *)
Level(toks, env) ==
    LET n == Len(toks)
        At(i) == IF i \in 1..n THEN toks[i] ELSE "end"
        Bad == <<0, 0>>
        f[l \in {"or", "and", "comparison", "unary"}, i \in 0..(n + 1)] ==
            LET inner == CASE l = "or" -> "and" [] l = "and" -> "comparison" [] OTHER -> "unary"
                left == f[inner, i]
                next == At(left[2])
                op == At(i)
            IN CASE i = 0 -> Bad
                 [] i > 0 /\ l \in {"or", "and"} ->
                    IF left[2] = 0 \/ next # (IF l = "or" THEN "||" ELSE "&&") THEN left
                    ELSE LET right == f[l, left[2] + 1]
                         IN <<Truth(IF l = "or" THEN left[1] + right[1] > 0 ELSE left[1] * right[1] > 0), right[2]>>
                 [] i > 0 /\ l = "comparison" ->
                    IF left[2] = 0 \/ next \notin {"==", "<"} THEN left
                    ELSE LET right == f["unary", left[2] + 1]
                         IN <<Truth(IF next = "==" THEN left[1] = right[1] ELSE left[1] < right[1]), right[2]>>
                 [] i > 0 /\ l = "unary" ->
                    CASE op = "!" -> LET r == f["unary", i + 1] IN <<Truth(r[1] = 0), r[2]>>
                      [] op = "defined" ->
                            IF At(i + 1) = "(" THEN
                               IF At(i + 2) \in Known /\ At(i + 3) = ")" THEN <<Truth(At(i + 2) \in DOMAIN env), i + 4>> ELSE Bad
                            ELSE IF At(i + 1) \in Known THEN <<Truth(At(i + 1) \in DOMAIN env), i + 2>> ELSE Bad
                      [] op = "(" -> LET r == f["or", i + 1] IN IF r[2] # 0 /\ At(r[2]) = ")" THEN <<r[1], r[2] + 1>> ELSE Bad
                      [] op \in Known -> <<Value(env, op), i + 1>>
                      [] op \in {"0", "1"} -> <<Truth(op = "1"), i + 1>>
                      [] OTHER -> Bad
    IN f["or", 1]

Parses(c, env) == Level(c.tokens, env)[2] = Len(c.tokens) + 1
Holds(c, env) == Level(c.tokens, env)[1] # 0

--------------------------------------------------------------------------
(* preprocess_macros.                                                      *)
Init ==
    /\ macros = [m \in {Target} |-> 0] /\ stack = <<>> /\ active = TRUE /\ failed = FALSE
    /\ text = <<>>

Top == stack[Len(stack)]
Pop == SubSeq(stack, 1, Len(stack) - 1)
Refuse == failed' = TRUE /\ UNCHANGED <<macros, stack, active>>

Open(selected) ==
    /\ stack' = Append(stack, [parent |-> active, taken |-> selected, active |-> selected, ended |-> FALSE])
    /\ active' = selected /\ UNCHANGED <<macros, failed>>

Branch(selected, ended) ==
    /\ stack' = Append(Pop, [Top EXCEPT !.active = selected, !.taken = @ \/ selected, !.ended = ended])
    /\ active' = selected /\ UNCHANGED <<macros, failed>>

\* A condition is looked at only where the branch may be taken.
If(c) == IF active /\ ~Parses(c, macros) THEN Refuse ELSE Open(active /\ Holds(c, macros))
Ifdef(m, wanted) == Open(active /\ (m \in DOMAIN macros) = wanted)

Elif(c) ==
    LET asked == Top.parent /\ ~Top.taken
    IN IF stack = <<>> THEN Refuse
       ELSE IF Top.ended \/ (asked /\ ~Parses(c, macros)) THEN Refuse
       ELSE Branch(asked /\ Holds(c, macros), FALSE)

Else ==
    IF stack = <<>> THEN Refuse
    ELSE IF Top.ended THEN Refuse ELSE Branch(Top.parent /\ ~Top.taken, TRUE)

Endif ==
    IF stack = <<>> THEN Refuse
    ELSE /\ stack' = Pop /\ active' = IF Pop = <<>> THEN TRUE ELSE Pop[Len(Pop)].active
         /\ UNCHANGED <<macros, failed>>

Without(m) == [d \in DOMAIN macros \ {m} |-> macros[d]]
Define(m) ==
    /\ macros' = IF active THEN [d \in DOMAIN macros \cup {m} |-> IF d = m THEN 1 ELSE macros[d]] ELSE macros
    /\ UNCHANGED <<stack, active, failed>>
Undef(m) ==
    /\ macros' = IF active THEN Without(m) ELSE macros
    /\ UNCHANGED <<stack, active, failed>>

\* #include is refused even where it is skipped, #error only where it is not.
Include == Refuse
Error == IF active THEN Refuse ELSE UNCHANGED <<macros, stack, active, failed>>

Line(kind, arg) == ~failed /\ Len(text) < MaxLines /\ text' = Append(text, <<kind, arg>>)

Next ==
    \/ \E c \in Conditions : Line("if", c) /\ If(c)
    \/ \E c \in Conditions : Line("elif", c) /\ Elif(c)
    \/ \E m \in Names :
        \/ Line("ifdef", m) /\ Ifdef(m, TRUE)
        \/ Line("ifndef", m) /\ Ifdef(m, FALSE)
        \/ Line("define", m) /\ Define(m)
        \/ Line("undef", m) /\ Undef(m)
    \/ Line("else", Nothing) /\ Else
    \/ Line("endif", Nothing) /\ Endif
    \/ Line("include", Nothing) /\ Include
    \/ Line("error", Nothing) /\ Error

--------------------------------------------------------------------------
(* What a text means.                                                      *)

\* The depth of each line: of the conditionals open before it.
Opens == {i \in DOMAIN text : text[i][1] \in {"if", "ifdef", "ifndef"}}
Depth(i) == Cardinality({j \in Opens : j < i}) - Cardinality({j \in 1..(i - 1) : text[j][1] = "endif"})

\* The conditionals a line is in, and the heads of the branches of one so far.
Around(i) == {j \in Opens : j < i /\ \A k \in (j + 1)..i : Depth(k) > Depth(j)}
Heads(j, i) == {j} \cup {k \in (j + 1)..(i - 1) : text[k][1] \in {"elif", "else"} /\ Depth(k) = Depth(j) + 1}
Last(S) == CHOOSE x \in S : \A y \in S : y <= x

\* What each line finds defined (env) and whether it is read (live): a line is read
\* if, of each conditional around it, its branch is the first that holds.
Reads ==
    LET r[i \in 1..(Len(text) + 1)] ==
        LET True(h) ==
                LET k == text[h][1]  a == text[h][2]  env == r[h].env
                IN CASE k = "ifdef" -> a \in DOMAIN env
                     [] k = "ifndef" -> a \notin DOMAIN env
                     [] k = "else" -> TRUE
                     [] OTHER -> env \in a.holds
            live == \A j \in Around(i) :
                        LET hs == Heads(j, i) IN
                        r[j].live /\ True(Last(hs)) /\ \A h \in hs \ {Last(hs)} : ~True(h)
            sets == {k \in 1..(i - 1) : text[k][1] \in {"define", "undef"} /\ r[k].live}
            given == {text[k][2] : k \in sets}
            final(m) == text[Last({k \in sets : text[k][2] = m})][1]
            defined == ({Target} \ given) \cup {m \in given : final(m) = "define"}
        IN [live |-> live, env |-> [m \in defined |-> Truth(m \in given)]]
    IN r[Len(text) + 1]

--------------------------------------------------------------------------
TypeOK ==
    /\ DOMAIN macros \subseteq Known /\ {active, failed} \subseteq BOOLEAN
    /\ Len(text) <= MaxLines /\ Len(stack) <= Len(text)

\* The macros of a target are those GCC would find ("CI compares its output with GCC
\* for every supported target"): at every line that was read without an error.
LikeC == ~failed => macros = Reads.env /\ active = Reads.live
============================================================================
