------------------------------- MODULE Modes -------------------------------
(***************************************************************************)
(* makeModes (mode.go): the modes of blink11 made from the sections of its *)
(* configuration.  The modes are parsed one by one, which gives them their *)
(* knob positions and their own meters; then every mode is walked from, in *)
(* the random order of a Go map, and takes the feeds and the meters of its *)
(* imports; then every LED must belong to one meter.                       *)
(*                                                                         *)
(* The recursive walk is a stack of frames, one step per call and per      *)
(* return, because a failed lib.Check does not always end it: before the   *)
(* exit hook is set it panics, afterwards it asks main to exit and returns *)
(* to its caller, which goes on.                                           *)
(***************************************************************************)
EXTENDS Integers, Sequences, FiniteSets, SequencesExt, Positions

CONSTANTS
    Configs,    \* the configurations considered: sequences of sections
    MaxDepth    \* bound: frames that fit in the stack of a goroutine

\* The LEDs with a default meter.
MASTER == "MASTER"
RUN    == "RUN"

\* A section is [hidden, modes]; a mode of it is [name, feeds, imports, meters,
\* control], where meters lists the LEDs of each metric the mode defines.
ModesOf(c) == UNION {ToSet(c[s].modes) : s \in DOMAIN c}
Names(c)   == {m.name : m \in ModesOf(c)}

\* A stack holds at least a frame for each mode.
ASSUME ConfigsAssumption ==
    /\ MaxDepth \in Nat \ {0}
    /\ \A c \in Configs :
        /\ c \in Seq(ToSet(c))
        /\ \A s \in DOMAIN c : c[s].hidden \in BOOLEAN /\ c[s].modes \in Seq(ToSet(c[s].modes))
        /\ IsFiniteSet(Names(c)) /\ Cardinality(Names(c)) <= MaxDepth
    /\ \A c \in Configs : \A m \in ModesOf(c) :
        /\ m.control \in BOOLEAN
        /\ m.feeds \in Seq(ToSet(m.feeds))
        /\ m.imports \in Seq(ToSet(m.imports))
        /\ m.meters \in [DOMAIN m.meters -> Range(m.meters)]

VARIABLES
    cfg,            \* the configuration of this run of the program
    making,         \* "off", "parse", "walk", "made"; "dead": the goroutine panicked
    sec, nth,       \* the mode to parse next: the nth of section sec
    sectionNum,     \* position of this section on the address knob
    modeNum,        \* position of the next mode on the data knob
    nameToMode,     \* the modes made, a record per name
    nameToImports,
    todo,           \* modes that the range over nameToMode has not come to yet
    stack,          \* frames of walk: a mode and the import it is at
    seen,           \* names this walk has been through
    hook,           \* lib.exitHook is set
    asked           \* a failed check has asked main to exit

parseVars == <<sec, nth, sectionNum, modeNum, nameToImports>>
walkVars  == <<todo, stack, seen>>
modesVars == <<cfg, making, parseVars, nameToMode, walkVars, hook, asked>>

Nothing == [x \in {} |-> x]

\* The assignment f[k] = v to a map of Go
With(f, k, v) == [x \in DOMAIN f \cup {k} |-> IF x = k THEN v ELSE f[x]]

\* Nothing is made before the event loop starts.
Off ==
    /\ making = "off"
    /\ sec = 1 /\ nth = 1 /\ sectionNum = 0 /\ modeNum = 0
    /\ nameToMode = Nothing /\ nameToImports = Nothing
    /\ todo = {} /\ stack = <<>> /\ seen = {}
    /\ hook = FALSE /\ asked = FALSE

\* Mutation: the exit hook tells main nothing.
PassesSilently(b) == (b \/ hook) /\ asked' = asked

\* lib.Check: what goes on after it, if anything does, is conjoined with Passes.
Passes(b) ==
    /\ b \/ hook
    /\ asked' = (asked \/ ~b)

Panics(b) ==
    /\ ~b /\ ~hook
    /\ making' = "dead"
    /\ UNCHANGED <<cfg, parseVars, nameToMode, walkVars, asked>>

-----------------------------------------------------------------------------
(* Parsing *)

usesLed(meters, led) == \E metric \in DOMAIN meters : led \in ToSet(meters[metric])

WithDefault(meters, metric, led) ==
    IF usesLed(meters, led) THEN meters ELSE With(meters, metric, <<led>>)

KnobMeters(meters) == With(With(meters, "system.knoba", <<"KNOBA">>), "system.knobd", <<"KNOBD">>)

\* The meters of a mode before its imports: a visible mode has the knob meters
\* whatever it configures, a control has a default meter on RUN, all on MASTER.
OwnMeters(c, hidden) ==
    LET knobs   == IF hidden THEN c.meters ELSE KnobMeters(c.meters)
        control == IF c.control THEN WithDefault(knobs, "system.running", RUN) ELSE knobs
    IN  WithDefault(control, "system.messages", MASTER)

NewMode(c, hidden, ka, kd) ==
    [feeds |-> c.feeds, meters |-> OwnMeters(c, hidden),
     knoba |-> IF hidden THEN -1 ELSE ka, knobd |-> IF hidden THEN -1 ELSE kd]

\* Mutation: the checks of names and positions have been lost.
ValidAlways(c, hidden) == TRUE

Valid(c, hidden) ==
    /\ c.name # ""
    /\ c.name \notin DOMAIN nameToMode
    /\ hidden \/ (sectionNum <= LastKnoba /\ modeNum <= LastKnobd)

\* One mode of the configuration.
ParseMode ==
    /\ making = "parse"
    /\ sec \in DOMAIN cfg /\ nth \in DOMAIN cfg[sec].modes
    /\ LET c == cfg[sec].modes[nth]
           hidden == cfg[sec].hidden
       IN  \/ /\ Passes(Valid(c, hidden))
              /\ nameToMode' = With(nameToMode, c.name, NewMode(c, hidden, sectionNum, modeNum))
              /\ nameToImports' = IF c.imports = <<>> THEN nameToImports
                                  ELSE With(nameToImports, c.name, c.imports)
              /\ modeNum' = IF hidden THEN modeNum ELSE modeNum + 1
              /\ nth' = nth + 1
              /\ UNCHANGED <<cfg, making, sec, sectionNum, walkVars>>
           \/ Panics(Valid(c, hidden))
    /\ UNCHANGED hook

\* The end of a section.
NextSection ==
    /\ making = "parse"
    /\ sec \in DOMAIN cfg /\ nth \notin DOMAIN cfg[sec].modes
    /\ sectionNum' = IF cfg[sec].hidden THEN sectionNum ELSE sectionNum + 1
    /\ sec' = sec + 1 /\ nth' = 1 /\ modeNum' = 0
    /\ UNCHANGED <<cfg, making, nameToMode, nameToImports, walkVars, hook, asked>>

ParseEnds ==
    /\ making = "parse" /\ sec \notin DOMAIN cfg
    /\ making' = "walk"
    /\ todo' = DOMAIN nameToMode
    /\ UNCHANGED <<cfg, parseVars, nameToMode, stack, seen, hook, asked>>

-----------------------------------------------------------------------------
(* Imports *)

Imports(n) == IF n \in DOMAIN nameToImports THEN nameToImports[n] ELSE <<>>

Frame(n) == [name |-> n, next |-> 1]
Top == stack[Len(stack)]
Depth == Len(stack)

\* The range over nameToMode comes to any mode left, with a new set of seen names.
WalkFrom(n) ==
    /\ making = "walk" /\ stack = <<>> /\ n \in todo
    /\ todo' = todo \ {n}
    /\ stack' = <<Frame(n)>>
    /\ seen' = {n}
    /\ UNCHANGED <<cfg, making, parseVars, nameToMode, hook, asked>>

\* Mutation: names already seen are walked again without a check.
UnseenAlways(n) == TRUE

Unseen(n) == n \notin seen

\* The call of walk for the next import.
WalkImport ==
    /\ making = "walk" /\ stack # <<>> /\ Depth < MaxDepth
    /\ Top.next \in DOMAIN Imports(Top.name)
    /\ LET n == Imports(Top.name)[Top.next]
       IN  \/ /\ Passes(Unseen(n))
              /\ seen' = seen \cup {n}
              /\ stack' = Append(stack, Frame(n))
              /\ UNCHANGED <<cfg, making, parseVars, nameToMode, todo>>
           \/ Panics(Unseen(n))
    /\ UNCHANGED hook

\* Frames go on being pushed on a cycle that main was only told of.
StackOverflow ==
    /\ making = "walk" /\ Depth = MaxDepth
    /\ Top.next \in DOMAIN Imports(Top.name)
    /\ making' = "dead"
    /\ UNCHANGED <<cfg, parseVars, nameToMode, walkVars, hook, asked>>

\* A metric that is already in the map keeps its meter.
MetersWith(own, imported) ==
    [p \in DOMAIN own \cup DOMAIN imported |-> IF p \in DOMAIN own THEN own[p] ELSE imported[p]]

\* Mutation: an imported meter wins over the mode's own.
MergedOver(mode, used) ==
    [mode EXCEPT !.feeds = @ \o used.feeds, !.meters = MetersWith(used.meters, @)]

Merged(mode, used) ==
    [mode EXCEPT !.feeds = @ \o used.feeds, !.meters = MetersWith(@, used.meters)]

\* The call for a root returns.
WalkEnds ==
    /\ making = "walk" /\ Depth = 1
    /\ Top.next \notin DOMAIN Imports(Top.name)
    /\ stack' = <<>>
    /\ UNCHANGED <<cfg, making, parseVars, nameToMode, todo, seen, hook, asked>>

\* The call for an import returns: its feeds and meters are taken.
Import ==
    /\ making = "walk" /\ Depth > 1
    /\ Top.next \notin DOMAIN Imports(Top.name)
    /\ LET n == stack[Depth - 1].name
       IN  /\ Top.name \in DOMAIN nameToMode
           /\ nameToMode' = [nameToMode EXCEPT ![n] = Merged(@, nameToMode[Top.name])]
           /\ stack' = [Front(stack) EXCEPT ![Depth - 1].next = @ + 1]
    /\ UNCHANGED <<cfg, making, parseVars, todo, seen, hook, asked>>

\* The import is no mode: without a hook the check panics, with one the nil mode is
\* dereferenced after it.
ImportUnknown ==
    /\ making = "walk" /\ Depth > 1
    /\ Top.next \notin DOMAIN Imports(Top.name)
    /\ Top.name \notin DOMAIN nameToMode
    /\ making' = "dead"
    /\ asked' = (asked \/ hook)
    /\ UNCHANGED <<cfg, parseVars, nameToMode, walkVars, hook>>

-----------------------------------------------------------------------------
(* LEDs *)

\* An LED is listed by the meters of two metrics, or twice by that of one.
Clash(meters, p, q) ==
    \/ p # q /\ ToSet(meters[p]) \cap ToSet(meters[q]) # {}
    \/ p = q /\ ~IsInjective(meters[p])

Distinct(meters) == \A p, q \in DOMAIN meters : ~Clash(meters, p, q)

CheckLeds ==
    /\ making = "walk" /\ stack = <<>> /\ todo = {}
    /\ LET distinct == \A n \in DOMAIN nameToMode : Distinct(nameToMode[n].meters)
       IN  \/ /\ Passes(distinct)
              /\ making' = "made"
              /\ UNCHANGED <<cfg, parseVars, nameToMode, walkVars>>
           \/ Panics(distinct)
    /\ UNCHANGED hook

makeModes ==
    \/ ParseMode \/ NextSection \/ ParseEnds
    \/ \E n \in todo : WalkFrom(n)
    \/ WalkImport \/ StackOverflow \/ WalkEnds \/ Import \/ ImportUnknown
    \/ CheckLeds

-----------------------------------------------------------------------------
(* What the result should be, from the configuration alone *)

\* The only mode with a name, in a configuration without duplicates.
Configured(c, n) == CHOOSE m \in ModesOf(c) : m.name = n

\* The names that follow n, n included, when those of next[m] come after m: the ones
\* in every set that holds n and, with a name, those after it.
Following(next, n) ==
    LET all == DOMAIN next \cup UNION {next[m] : m \in DOMAIN next}
    IN  {i \in all : \A S \in SUBSET all :
            n \in S /\ (\A m \in DOMAIN next \cap S : next[m] \subseteq S) => i \in S}

\* The names reached from n by imports, n included.
Reached(c, n) == Following([m \in Names(c) |-> ToSet(Configured(c, m).imports)], n)

\* The meters of n before its imports.
MetersOf(c, n) ==
    OwnMeters(Configured(c, n),
              \E s \in DOMAIN c : c[s].hidden /\ Configured(c, n) \in ToSet(c[s].modes))

\* A metric has a meter at n or where its imports lead.
Leads(c, n, p) == \E i \in Reached(c, n) : p \in DOMAIN MetersOf(c, i)

\* The first import of n that leads to the metric p.
FirstTo(c, n, p) ==
    LET imports == Configured(c, n).imports
    IN  imports[CHOOSE k \in DOMAIN imports :
            /\ Leads(c, imports[k], p)
            /\ \A j \in 1 .. k - 1 : ~Leads(c, imports[j], p)]

\* Where to look after each mode for the meter of p: own meters win over imported
\* ones, earlier imports over later ones.
Lookup(c, p) ==
    [n \in Names(c) |-> IF p \in DOMAIN MetersOf(c, n) \/ ~Leads(c, n, p) THEN {}
                        ELSE {FirstTo(c, n, p)}]

FinalMeters(c, n) ==
    [p \in UNION {DOMAIN MetersOf(c, i) : i \in Reached(c, n)} |->
        MetersOf(c, CHOOSE i \in Following(Lookup(c, p), n) : p \in DOMAIN MetersOf(c, i))[p]]

FinalFeeds(c, n) == UNION {ToSet(Configured(c, i).feeds) : i \in Reached(c, n)}

\* Names are given, once, and all visible modes have a position.
WellFormed(c) ==
    /\ "" \notin Names(c)
    /\ \A s, t \in DOMAIN c : \A i \in DOMAIN c[s].modes : \A j \in DOMAIN c[t].modes :
        c[s].modes[i].name = c[t].modes[j].name => s = t /\ i = j
    /\ \A s \in DOMAIN c : ~c[s].hidden /\ c[s].modes # <<>> =>
        /\ Cardinality({t \in 1 .. s - 1 : ~c[t].hidden}) <= LastKnoba
        /\ Len(c[s].modes) - 1 <= LastKnobd

\* Every import is a mode, and no mode is reached from another along two paths.
ImportTrees(c) ==
    /\ \A m \in ModesOf(c) : ToSet(m.imports) \subseteq Names(c)
    /\ \A m \in ModesOf(c) : \A i \in DOMAIN m.imports :
        /\ m.name \notin Reached(c, m.imports[i])
        /\ \A j \in DOMAIN m.imports : i # j =>
            Reached(c, m.imports[i]) \cap Reached(c, m.imports[j]) = {}

Acceptable(c) ==
    /\ WellFormed(c)
    /\ ImportTrees(c)
    /\ \A n \in Names(c) : Distinct(FinalMeters(c, n))

Accepted == making = "made" /\ ~asked
Refused  == asked \/ making = "dead"

\* A configuration is accepted when its names, positions, imports and LEDs are
\* sound, and refused otherwise, whatever order the modes are walked in and
\* whenever the exit hook is set.  The walk takes two paths to one mode for a
\* cycle: what it accepts are trees (mode.go:178-216).
VerdictRight ==
    /\ Accepted => Acceptable(cfg)
    /\ Refused => ~Acceptable(cfg)

\* The modes of an accepted configuration have the feeds of all they import,
\* directly or not, and the meters that overriding by name and order gives them,
\* whatever order the modes are walked in (mode.go:183-194).
ImportsApplied ==
    Accepted => \A n \in DOMAIN nameToMode :
        /\ ToSet(nameToMode[n].feeds) = FinalFeeds(cfg, n)
        /\ nameToMode[n].meters = FinalMeters(cfg, n)

\* What mode.go:159 says of the default meters, "if their leds are not used by the
\* config": only configured meters can clash.  An import refutes it, see the findings.
DefaultsYield ==
    Refused /\ WellFormed(cfg) /\ ImportTrees(cfg) => \E n \in Names(cfg) :
        LET meters == FinalMeters(cfg, n)
        IN  \E p, q \in DOMAIN meters \ {"system.messages", "system.running"} : Clash(meters, p, q)

\* What mode.go:181 says of the walk, "import cycle for mode": modes imported along
\* two paths, which make no cycle, are no reason to refuse.  They are, see the findings.
OnlyCyclesRefused ==
    Refused /\ WellFormed(cfg) =>
        \/ \E m \in ModesOf(cfg) : \E i \in ToSet(m.imports) :
            i \notin Names(cfg) \/ m.name \in Reached(cfg, i)
        \/ \E n \in Names(cfg) : ~Distinct(FinalMeters(cfg, n))

\* While no check has failed, visible modes have positions of their own, numbered
\* from 0 in their section, and hidden ones have none: what the event loop takes
\* for granted when it looks modes up (mode.go:104-114, eventloop.go:137-144), and
\* PositionsAssumption of EventLoop in the same words.
PositionsRight ==
    ~Refused => Positioned(DOMAIN nameToMode, [n \in DOMAIN nameToMode |-> nameToMode[n].knoba],
                                              [n \in DOMAIN nameToMode |-> nameToMode[n].knobd])
=============================================================================
