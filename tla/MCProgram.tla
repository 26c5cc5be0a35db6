----------------------------- MODULE MCProgram -----------------------------
(***************************************************************************)
(* Two visible modes in two sections, one of them a control, and a hidden  *)
(* one: every shape of imports among them that matters (none, one, two in  *)
(* both orders, chains, diamonds, cycles, a mode that does not exist), then*)
(* LEDs that clash once imported, and layouts that exhaust the knobs.      *)
(***************************************************************************)
EXTENDS Program, TLC

Mode(name, feeds, meters, control, imports) ==
    [name |-> name, feeds |-> feeds, meters |-> meters, control |-> control,
     imports |-> imports]

\* a and b both have cpu, b and c both have load.
Graph(ofA, ofB, ofC, ledsOfC) ==
    << [hidden |-> FALSE,
        modes |-> << Mode("a", <<"time">>, "cpu" :> <<"A0", "A1">>, FALSE, ofA) >>],
       [hidden |-> TRUE,
        modes |-> << Mode("c", <<"time", "idle">>, "load" :> <<"D1">> @@ "net" :> ledsOfC, FALSE, ofC) >>],
       [hidden |-> FALSE,
        modes |-> << Mode("b", <<"network">>, "cpu" :> <<"A1">> @@ "load" :> <<"D0">>, TRUE, ofB) >>] >>

Graphs == {Graph(a, b, c, <<"D2">>) :
    a \in {<<>>, <<"b">>, <<"c">>, <<"b", "c">>, <<"c", "b">>, <<"b", "b">>},
    b \in {<<>>, <<"a">>, <<"c">>, <<"a", "c">>, <<"c", "none">>},
    c \in {<<>>, <<"a">>, <<"b">>, <<"c">>, <<"none">>}}

\* An imported LED: of the knob meters, of a meter of its own, of a default meter,
\* twice in the same meter.
Clashes == {Graph(<<"c">>, <<>>, <<>>, leds) :
    leds \in {<<"KNOBA">>, <<"A0">>, <<"MASTER">>, <<"RUN">>, <<"D2", "D2">>}}

Plain(name) == Mode(name, <<>>, Nothing, FALSE, <<>>)
Section(names, hidden) ==
    [hidden |-> hidden, modes |-> [i \in DOMAIN names |-> Plain(names[i])]]

Layouts == {
    << Section(<<"a", "b", "c", "d">>, FALSE), Section(<<>>, FALSE), Section(<<"e">>, FALSE) >>,
    << Section(<<"a", "b", "c", "d", "e">>, FALSE) >>,
    << Section(<<"a", "b", "c", "d", "e">>, TRUE) >>,
    [s \in 1 .. 9 |-> Section(IF s = 9 THEN <<"a">> ELSE <<>>, FALSE)],
    [s \in 1 .. 9 |-> Section(IF s = 9 THEN <<"a">> ELSE <<>>, s = 3)],
    << Section(<<"a">>, FALSE), Section(<<"a">>, TRUE) >>,
    << Section(<<"">>, FALSE) >> }

MCConfigs == Graphs \cup Clashes \cup Layouts
=============================================================================
