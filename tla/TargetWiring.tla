---------------------------- MODULE TargetWiring ----------------------------
(***************************************************************************)
(* From the macros of a target in targets.h to the peripherals of the      *)
(* emulated chip (renode/generator.py: FAMILY, CAPTURE_TIMER, STOCK_TIMER, *)
(* INMSEL, config, a153_config, platform, comp_block, bemf_block,          *)
(* adc_block, ws2812_block).  What is told apart is who drives which DMA   *)
(* channel, interrupt and EXTI line, and at which address a model sits: a  *)
(* page is 0x400 bytes.  In Renode a connection block of a peripheral      *)
(* replaces the one before it; the base platform of a family connects      *)
(* every pin n of every port to EXTI line n.                               *)
(***************************************************************************)
EXTENDS Naturals, FiniteSets, Sequences, SequencesExt, TLC

CONSTANTS Chosen    \* the families of this instance

VARIABLES
    target,         \* the macros that were read
    stage,          \* "asked", then "refused" or "loaded"
    conf,           \* what config returned
    wires,          \* per entry, what its outputs are connected to
    lines           \* per port, its pins that reach the EXTI

vars == <<target, stage, conf, wires, lines>>

Phases == {"A", "B", "C"}
Pins == 0..15
None == 99

--------------------------------------------------------------------------
(* The tables.  Pages: 0x48000000, 0x50000000, 0x60000000, 0x40010800.     *)
P48 == 1179648    P50 == 1310720    P60 == 1572864    P4001 == 1048642
Adc1 == 1048649   AdcL4 == 1310976
Every(irq) == [c \in 0..6 |-> irq]
F0Map == [c \in 0..6 |-> IF c = 0 THEN 9 ELSE IF c < 3 THEN 10 ELSE 11]
Fam(gpio, made, adc, irqs, adcDma, extra, kind, can) ==
    [gpio |-> gpio, made |-> made, adc |-> adc, irqs |-> irqs, adcDma |-> adcDma,
     extra |-> extra, kind |-> kind, can |-> can]

\* FAMILY: the capture's interrupt, by channel where the part has a fixed map;
\* the channel of the ADC; further interrupts of channels; how a phase is sensed.
FAMILY == [
    f051 |-> Fam(P48, P50, Adc1, Every(11), 0, {}, "comp", FALSE),
    g071 |-> Fam(P50, P60, Adc1, Every(9), 1, {}, "comp", FALSE),
    g431 |-> Fam(P48, P60, P50, Every(11), 1, {}, "comp", TRUE),
    l431 |-> Fam(P48, P60, AdcL4, Every(15), 0, {<<0, 11>>}, "comp", TRUE),
    v203 |-> Fam(P4001, P60, Adc1, Every(31), 0, {<<0, 27>>, <<6, 33>>}, "opa", FALSE),
    f031 |-> Fam(P48, P50, Adc1, F0Map, 1, {}, "bemf", FALSE),
    g031 |-> Fam(P50, P60, Adc1, Every(9), 1, {<<1, 10>>, <<2, 10>>}, "bemf", FALSE),
    f415 |-> Fam(P4001, P60, Adc1, Every(16), 0, {<<0, 11>>, <<3, 14>>}, "comp", TRUE),
    e230 |-> Fam(P48, P50, Adc1, F0Map, 0, {}, "comp", FALSE),
    f421 |-> Fam(P48, P50, Adc1, F0Map, 0, {<<0, 9>>}, "comp", FALSE),
    a153 |-> Fam(0, P60, 0, Every(0), 51, {}, "nxp", FALSE)]

\* CAPTURE_TIMER: the interrupts of the timers that may capture.
CAPTURE_TIMER == [
    f051 |-> [TIM3 |-> 16, TIM15 |-> 20],   g071 |-> [TIM3 |-> 16, TIM16 |-> 21],
    l431 |-> [TIM15 |-> 24],                g431 |-> [TIM15 |-> 24],
    v203 |-> [TIM2 |-> 44],                 f031 |-> [TIM2 |-> 15, TIM16 |-> 21],
    g031 |-> [TIM3 |-> 16],                 e230 |-> [TIMER2 |-> 16],
    f415 |-> [TMR3 |-> 29, TMR2 |-> 28],    f421 |-> [TMR3 |-> 16, TMR15 |-> 20]]

\* STOCK_TIMER: those that are declared as plain timers when they do not capture,
\* with their interrupt, and the pins a channel may be on, with the alternate
\* function (here of the channels a target captures on).
NoPins == [p \in {} |-> 0]
STOCK_TIMER == [
    f051 |-> [TIM3 |-> [irq |-> 16, af |-> (<<1, "A", 6>> :> 1 @@ <<1, "B", 4>> :> 1)],
              TIM15 |-> [irq |-> 20, af |-> (<<1, "A", 2>> :> 0 @@ <<1, "B", 14>> :> 1)]],
    g071 |-> [TIM3 |-> [irq |-> 16, af |-> (<<1, "A", 6>> :> 1 @@ <<1, "B", 4>> :> 1)],
              TIM16 |-> [irq |-> 21, af |-> (<<1, "A", 6>> :> 5 @@ <<1, "B", 6>> :> 2)]],
    l431 |-> [TIM15 |-> [irq |-> 24, af |-> (<<1, "A", 2>> :> 14)]],
    g431 |-> [TIM15 |-> [irq |-> 24, af |-> (<<1, "A", 2>> :> 9)]],
    v203 |-> [t \in {} |-> 0],
    f031 |-> [TIM2 |-> [irq |-> 15, af |-> (<<1, "A", 0>> :> 2 @@ <<3, "A", 2>> :> 2)],
              TIM16 |-> [irq |-> 21, af |-> (<<1, "A", 6>> :> 5)]],
    g031 |-> [TIM3 |-> [irq |-> 16, af |-> (<<1, "A", 6>> :> 1 @@ <<1, "B", 4>> :> 1)],
              TIM16 |-> [irq |-> 21, af |-> (<<1, "A", 6>> :> 5)]],
    e230 |-> [TIMER2 |-> [irq |-> 16, af |-> (<<1, "B", 4>> :> 1)]],
    f415 |-> [TMR2 |-> [irq |-> 28, af |-> NoPins], TMR3 |-> [irq |-> 29, af |-> NoPins]],
    f421 |-> [TMR3 |-> [irq |-> 16, af |-> (<<1, "B", 4>> :> 1)],
              TMR15 |-> [irq |-> 20, af |-> (<<1, "A", 2>> :> 0)]]]

\* INMSEL: the comparator inputs a family can select, as (INMSEL, INMESEL).
INMSEL(f) ==
    CASE f = "l431" -> <<<<6, 0>>, <<7, 0>>, <<7, 1>>, <<7, 2>>, <<7, 3>>>>
      [] f = "g071" -> <<<<6, 0>>, <<7, 0>>, <<8, 0>>>>
      [] f = "g431" -> <<<<6, 0>>, <<7, 0>>>>
      [] f = "f421" -> <<<<6, 0>>, <<4, 0>>, <<5, 0>>, <<7, 0>>>>
      [] OTHER -> <<<<6, 0>>, <<4, 0>>, <<5, 0>>>>

--------------------------------------------------------------------------
(* The targets: the groups of a family as its comments give them, with one *)
(* special macro at most.                                                  *)
Group(timer, ch, dma, port, pin) ==
    [timer |-> timer, ch |-> ch, dma |-> dma, port |-> port, pin |-> pin]
Groups(f) ==
    CASE f = "f051" -> {Group("TIM3", 1, 4, "B", 4), Group("TIM15", 1, 5, "A", 2)}
      [] f = "g071" -> {Group("TIM3", 1, 1, "B", 4), Group("TIM16", 1, 1, "A", 6)}
      [] f = "l431" -> {Group("TIM15", 1, 5, "A", 2)}
      [] f = "g431" -> {Group("TIM15", 1, 1, "A", 2)}
      [] f = "v203" -> {Group("TIM2", 1, 5, "A", 0)}
      [] f = "f031" -> {Group("TIM2", 3, 1, "A", 2), Group("TIM16", 1, 3, "A", 6)}
      [] f = "g031" -> {Group("TIM3", 1, 1, "B", 4)}
      [] f = "e230" -> {Group("TIMER2", 1, 3, "B", 4)}
      [] f = "f415" -> {Group("TMR3", 1, 6, "B", 4), Group("TMR2", 3, 6, "A", 2)}
      [] f = "f421" -> {Group("TMR3", 1, 4, "B", 4), Group("TMR15", 1, 5, "A", 2), Group("TMR9", 1, 5, "A", 2)}
      [] OTHER -> {Group("CTIMER0", 1, 1, "B", 2)}

Unmodelled == {"USE_PA2_AS_COMP", "PA6_VOLTAGE", "USE_ADC_INPUT", "USE_INVERTED_HIGH",
               "SWAPPED_HIGH", "DRONECAN"}
\* The comparator macros a phase may name: <<number, input>>, 0 for MAIN_COMP.
Sensed(f) ==
    LET inputs == CASE f = "g431" -> {<<1, 1>>, <<2, 1>>, <<2, 2>>}
                    [] f = "g071" -> {<<0, 1>>, <<0, 2>>, <<0, 3>>, <<1, 1>>}
                    [] FAMILY[f].kind = "comp" -> {<<0, i>> : i \in DOMAIN INMSEL(f)}
                    [] OTHER -> {<<0, 0>>, <<1, 0>>, <<1, 1>>}
    IN {s \in [Phases -> inputs] : IsInjective(s)}
\* External comparators: the pin of each phase, its line is the pin's number; no
\* target of these families has an LED strip (the comment in bemf_block).
Exti == {[A |-> <<"A", 0>>, B |-> <<"A", 4>>, C |-> <<"A", 6>>],
         [A |-> <<"B", 6>>, B |-> <<"A", 0>>, C |-> <<"B", 1>>]}
Targets == UNION {
    {[family |-> f, group |-> g, special |-> x, sensed |-> s, exti |-> e, led |-> l, sigrok |-> a] :
        g \in Groups(f), x \in Unmodelled \cup {"none"} \cup (IF f = "g431" THEN {"USE_ADC_1_2"} ELSE {}),
        s \in (IF FAMILY[f].kind = "comp" THEN Sensed(f) ELSE {CHOOSE s \in Sensed(f) : TRUE}),
        e \in (IF FAMILY[f].kind = "bemf" THEN Exti ELSE {CHOOSE e \in Exti : TRUE}),
        l \in (IF FAMILY[f].kind \in {"bemf", "nxp"} THEN {None} ELSE {None, 3}), a \in BOOLEAN} : f \in Chosen}

--------------------------------------------------------------------------
(* config and a153_config.                                                 *)

\* The reasons for Unsupported, of which the first is reported.
Refused(t) ==
    LET f == t.family x == t.special k == FAMILY[f].kind IN
    \/ x = "DRONECAN" /\ ~FAMILY[f].can
    \/ k = "opa" /\ x \in {"USE_PA2_AS_COMP", "PA6_VOLTAGE", "USE_ADC_INPUT"}
    \/ k = "nxp" /\ x = "USE_ADC_INPUT"
    \/ k # "nxp" /\ t.group.timer \notin DOMAIN CAPTURE_TIMER[f]
    \/ f = "e230" /\ x \in {"USE_ADC_INPUT", "SWAPPED_HIGH"}
    \/ f = "f415" /\ x \in {"PA6_VOLTAGE", "USE_ADC_INPUT"}
    \/ k # "nxp" /\ x = "USE_INVERTED_HIGH"

\* Reference manuals count channels from 1, GD and Renode from 0.
DmaChannel(t) == IF t.family \in {"e230", "a153"} THEN t.group.dma ELSE t.group.dma - 1

\* The comparator of each phase and its input: MAIN_COMP (COMP2) unless a macro
\* names another; some parts have only COMP1.
MainComp(f) == IF f \in {"f051", "e230", "f415", "f421"} THEN 1 ELSE 2
Comps(t) ==
    [p \in Phases |-> <<IF t.sensed[p][1] = 0 THEN MainComp(t.family) ELSE t.sensed[p][1],
                        INMSEL(t.family)[t.sensed[p][2]]>>]

\* capture_input_af: the function that routes the pin to the capture channel;
\* without an entry captures are not gated.
CaptureAf(t) ==
    LET stock == STOCK_TIMER[t.family]  pin == <<t.group.ch, t.group.port, t.group.pin>> IN
    IF t.group.timer \in DOMAIN stock /\ pin \in DOMAIN stock[t.group.timer].af
    THEN stock[t.group.timer].af[pin] ELSE None

A153Config(t) ==
    [timer |-> "CTIMER0", irq |-> None, dma |-> 0, af |-> None, led |-> None, adc12 |-> FALSE,
     can |-> FALSE, comps |-> t.sensed]

Config(t) ==
    IF FAMILY[t.family].kind = "nxp" THEN A153Config(t)
    ELSE [timer |-> t.group.timer, irq |-> CAPTURE_TIMER[t.family][t.group.timer],
          dma |-> DmaChannel(t), af |-> CaptureAf(t), led |-> t.led,
          adc12 |-> t.special = "USE_ADC_1_2", can |-> t.special = "DRONECAN",
          comps |-> IF FAMILY[t.family].kind = "comp" THEN Comps(t) ELSE [p \in Phases |-> <<0, 0>>]]

--------------------------------------------------------------------------
(* platform: the declarations and connections of the overlay, in order.    *)
Block(entry, page, conns) == [entry |-> entry, page |-> page, conns |-> conns]

\* Timers that do not capture are declared plain.
Others(t, c) ==
    SetToSeq({Block(o, 0, {<<0, "nvic", STOCK_TIMER[t.family][o].irq>>}) :
                o \in DOMAIN STOCK_TIMER[t.family] \ {c.timer}})

\* The channel that captures, then those whose interrupts are served.
DmaBlock(t, c) ==
    Block("dma", 0, {<<c.dma, "nvic", FAMILY[t.family].irqs[c.dma]>>}
                    \cup {<<e[1], "nvic", e[2]>> : e \in FAMILY[t.family].extra})

\* comp_block: the EXTI line of each comparator.
CompBlock(t) ==
    CASE t.family = "f415" -> Block("comp", 0, {<<0, "exti", 19>>})
      [] t.family = "f421" -> Block("comp", 0, {<<0, "exti", 21>>})
      [] t.family = "g071" -> Block("comp", 0, {<<0, "exti", 17>>, <<1, "exti", 18>>})
      [] FAMILY[t.family].kind = "bemf" ->
            Block("bemf", FAMILY[t.family].made + 5, {})
      [] OTHER -> Block("comp", 0, {<<0, "exti", 21>>, <<1, "exti", 22>>})

\* bemf_block: a port keeps no pin on a line that a phase of another port is on.
BemfPorts == {"A", "B", "C", "F"}
Kept(t, port) ==
    {n \in Pins : \A p \in Phases : t.exti[p][2] = n => \E q \in Phases : t.exti[q] = <<port, n>>}

\* adc_block: with two converters voltage and current come from the second.
AdcBlocks(t, c) ==
    LET adc == FAMILY[t.family].adc IN
    <<Block("adc", adc, {<<0, "dma", FAMILY[t.family].adcDma>>})>>
    \o (IF c.adc12 THEN <<Block("adc2", adc, {<<0, "dma", 3>>})>> ELSE <<>>)

\* ws2812_block: the strip's pin keeps its EXTI line and drives the decoder too.
StripBlocks(t, c) ==
    IF c.led = None THEN <<>>
    ELSE <<Block("ws2812", FAMILY[t.family].made + 4, {}),
           Block("gpioPortB", 0, {<<n, "exti", n>> : n \in Pins} \cup {<<c.led, "ws2812", 0>>})>>

\* The throttle generator drives the capture and the pin; the models of this
\* project sit in the pages from made on.
Analyser(t) == IF t.sigrok THEN <<Block("sigrok", FAMILY[t.family].made + 6, {})>> ELSE <<>>
Gui(t, c) ==
    LET made == FAMILY[t.family].made
    IN <<Block("throttle", made, {<<0, c.timer, 0>>, <<0, t.group.port, t.group.pin>>}),
         Block("bridge", made + 1, {}), Block("guilink", made + 2, {})>>

A153Overlay(t, c) ==
    <<Block("cmpmux", FAMILY[t.family].made + 4, {}), Block("cmp0", 0, {<<0, "nvic", 64>>}),
      Block("cmp1", 0, {<<0, "nvic", 65>>}), Block("adc", 0, {<<0, "dma", 51>>})>>
    \o Gui(t, c) \o Analyser(t)

Overlay(t, c) ==
    IF FAMILY[t.family].kind = "nxp" THEN A153Overlay(t, c)
    ELSE <<Block(c.timer, 0, {<<0, "dma", c.dma>>, <<1, "nvic", c.irq>>, <<2, "throttle", 0>>})>>
         \o Others(t, c) \o <<DmaBlock(t, c)>>
         \o (IF FAMILY[t.family].kind = "opa" THEN <<>> ELSE <<CompBlock(t)>>)
         \o AdcBlocks(t, c) \o Gui(t, c)
         \o (IF c.can THEN <<Block("canmcast", FAMILY[t.family].made + 3, {})>> ELSE <<>>)
         \o Analyser(t) \o StripBlocks(t, c)

\* Renode reads the overlay: the last block of an entry is the one that holds.
Loaded(blocks) ==
    [e \in {blocks[i].entry : i \in DOMAIN blocks} |->
        LET last == CHOOSE i \in DOMAIN blocks :
                        /\ blocks[i].entry = e
                        /\ \A j \in (i + 1)..Len(blocks) : blocks[j].entry # e
        IN [page |-> blocks[last].page, conns |-> blocks[last].conns]]

--------------------------------------------------------------------------
NoTarget == [family |-> "none"]
NoConf == [timer |-> "none"]
Init ==
    /\ target = NoTarget /\ stage = "asked" /\ conf = NoConf
    /\ wires = [e \in {} |-> 0] /\ lines = [p \in BemfPorts |-> Pins]

Generate(t) ==
    /\ target' = t
    /\ IF Refused(t)
       THEN stage' = "refused" /\ UNCHANGED <<conf, wires, lines>>
       ELSE /\ stage' = "loaded" /\ conf' = Config(t)
            /\ wires' = Loaded(Overlay(t, Config(t)))
            /\ lines' = IF FAMILY[t.family].kind = "bemf"
                        THEN [p \in BemfPorts |-> Kept(t, p)] ELSE lines

Next == stage = "asked" /\ \E t \in Targets : Generate(t)

--------------------------------------------------------------------------
TypeOK ==
    /\ stage \in {"asked", "refused", "loaded"}
    /\ \A e \in DOMAIN wires : wires[e].page \in Nat
    /\ \A p \in BemfPorts : lines[p] \subseteq Pins

OnLine(kind) ==
    UNION {{<<e, w>> : w \in {c \in wires[e].conns : c[2] = kind}} : e \in DOMAIN wires}

\* The capture survives the blocks that follow it: its DMA channel is not that of
\* a converter, and its interrupts are not those of another timer or channel that
\* fires; the telemetry channel of a G0 and its ADC share one by design.
CaptureWired ==
    stage = "loaded" /\ FAMILY[target.family].kind # "nxp" =>
        /\ {<<0, "dma", conf.dma>>, <<1, "nvic", conf.irq>>, <<2, "throttle", 0>>}
             \subseteq wires[conf.timer].conns
        /\ \A o \in OnLine("dma") : o[2][3] = conf.dma => o[1] = conf.timer
        /\ \E w \in wires["dma"].conns : w[1] = conf.dma
        /\ \A w \in wires["dma"].conns : w[1] = conf.dma =>
                \A o \in OnLine("nvic") : o[2][3] = w[3] => o = <<"dma", w>>
        /\ \A o \in OnLine("nvic") : o[2][3] = conf.irq => o[1] = conf.timer

\* The firmware can tell the phases apart: by comparator and input, or by an EXTI
\* line that no pin of another port reaches.
PhasesApart ==
    stage = "loaded" =>
        CASE FAMILY[target.family].kind \in {"comp", "nxp"} -> IsInjective(conf.comps)
          [] FAMILY[target.family].kind = "bemf" ->
                \A p \in Phases : \A port \in BemfPorts :
                    target.exti[p][2] \in lines[port] <=> target.exti[p][1] = port
          [] OTHER -> TRUE

\* The models this project adds sit where nothing of the chip is, and apart.
Apart ==
    stage = "loaded" =>
        LET f == FAMILY[target.family]
            made == {e \in DOMAIN wires : wires[e].page >= P50 /\ e \notin {"adc", "adc2"}}
        IN /\ \A d, e \in made : d # e => wires[d].page # wires[e].page
           /\ \A e \in made : wires[e].page \notin (f.gpio..(f.gpio + 5)) \cup {f.adc}

PlatformWhole == CaptureWired /\ PhasesApart /\ Apart
============================================================================
