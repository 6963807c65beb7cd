---------------------------- MODULE CssVariables ----------------------------
(***************************************************************************)
(* Custom properties (htmlextract/variables.go): the scope an element      *)
(* builds from its winning definitions, and the component values in which  *)
(* var() references are found.                                             *)
(*                                                                         *)
(* A definition is a keyword, a literal, or var(--ref, fallback) with a    *)
(* fallback that is absent, a literal or another reference.  Values are    *)
(* literals, "invalid" or "unsupported".                                   *)
(***************************************************************************)
EXTENDS Integers, Sequences, FiniteSets, SequencesExt

CONSTANTS
    Order,        \* the names, in the order sort.Strings gives them
    Definitions,  \* the definitions a name may have; Undefined is one
    Parents,      \* scopes of the parent: name -> value
    Alternates,   \* definitions a name may have in another colour scheme
    Depths,       \* values of maxCSSValueDepth
    Alphabet,     \* tokens of a component value
    MaxValue      \* bound: tokens of a component value

VARIABLES
    defs,        \* name -> definition
    alternate,   \* names another colour scheme defines differently
    parent,      \* the parent scope
    limit,       \* maxCSSValueDepth
    scope,       \* the scope built, or NotBuilt
    first,       \* the scope built for the first colour scheme
    value        \* a component value: tokens

variableVars == <<defs, alternate, parent, limit, scope, first, value>>

Names == {Order[i] : i \in 1..Len(Order)}
Undefined == [kind |-> "none"]
NotBuilt == [built |-> FALSE]
Local == {n \in Names : defs[n] # Undefined}
Supported == {n \in Local : defs[n].kind # "unsupported"}

\* Mutant of Dependencies: the references of a fallback are overlooked.
DependenciesUsed(d) == IF d.kind \notin {"var", "unsupported"} THEN <<>> ELSE <<d.ref>>

\* variableDependencies: every reference, also those of unused fallbacks.
Dependencies(d) ==
    IF d.kind \notin {"var", "unsupported"} THEN <<>>
    ELSE <<d.ref>> \o (IF d.fallback.kind = "ref" THEN <<d.fallback.ref>> ELSE <<>>)

-----------------------------------------------------------------------------
(* Cycle detection: visit                                                  *)

Mark(st, n) ==   \* n is on the path: everything from it on is a cycle
    LET i == CHOOSE k \in 1..Len(st.path) : st.path[k] = n
    IN  [st EXCEPT !.cyclic = @ \cup {st.path[k] : k \in i..Len(st.path)}]

RECURSIVE Visit(_, _, _)
Visit(st, n, depth) ==
    IF depth >= limit THEN [st EXCEPT !.exceeded = TRUE]
    ELSE IF st.state[n] = 2 THEN st
    ELSE IF st.state[n] = 1 THEN Mark(st, n)
    ELSE LET entered == [st EXCEPT !.state[n] = 1, !.path = Append(@, n)]
             locals == SelectSeq(Dependencies(defs[n]), LAMBDA r : r \in Supported)
             explored == FoldLeft(LAMBDA acc, r : Visit(acc, r, depth + 1), entered, locals)
         IN  [explored EXCEPT !.state[n] = 2, !.path = SubSeq(@, 1, Len(@) - 1)]

Visited ==
    LET ordered == SelectSeq(Order, LAMBDA n : n \in Local)
    IN  FoldLeft(LAMBDA st, n : IF st.exceeded THEN st ELSE Visit(st, n, 0),
                 [state |-> [n \in Names |-> 0], path |-> <<>>, cyclic |-> {}, exceeded |-> FALSE],
                 ordered)

-----------------------------------------------------------------------------
(* Resolution: resolveName and substituteIndexedTokens                     *)

Known(values, n) == n \in DOMAIN values
With(values, n, v) == [m \in DOMAIN values \cup {n} |-> IF m = n THEN v ELSE values[m]]

Keyword(d, n) ==
    CASE d.kind \in {"inherit", "unset"} -> parent[n]
      [] d.kind = "initial" -> "invalid"
      [] d.kind = "revert" -> "unsupported"
      [] OTHER -> d.text

\* Both return the value and the memo.
RECURSIVE ResolveName(_, _, _)
Fallback(r, d, depth) ==   \* expand of the fallback
    CASE r.v # "invalid" \/ d.fallback.kind = "none" -> r
      [] depth + 1 >= limit -> [r EXCEPT !.v = "unsupported"]
      [] d.fallback.kind = "lit" -> [r EXCEPT !.v = d.fallback.text]
      [] OTHER -> ResolveName(d.fallback.ref, depth + 1, r.memo)

ResolveName(n, depth, memo) ==
    IF depth >= limit THEN [v |-> "unsupported", memo |-> memo]
    ELSE IF Known(memo, n) THEN [v |-> memo[n], memo |-> memo]
    ELSE IF n \notin Local THEN [v |-> parent[n], memo |-> memo]
    ELSE LET d == defs[n]
             r == IF d.kind = "var" THEN Fallback(ResolveName(d.ref, depth + 1, memo), d, depth)
                  ELSE [v |-> Keyword(d, n), memo |-> memo]
         IN  [v |-> r.v, memo |-> With(r.memo, n, r.v)]

Resolved(cyclic) ==
    LET given == [n \in (Local \ Supported) \cup cyclic |->
                    IF n \in cyclic THEN "invalid" ELSE "unsupported"]
        ordered == SelectSeq(Order, LAMBDA n : n \in Local)
    IN  FoldLeft(LAMBDA memo, n : ResolveName(n, 0, memo).memo, given, ordered)

-----------------------------------------------------------------------------
(* Colour-scheme dependence: dependsOnColourScheme                          *)

\* An unresolved parent scope leaves every name dependent.
ParentDependent(n) == parent[n] \in {"dark", "unsupported"}

RECURSIVE Colour(_, _, _)
Colour(st, n, depth) ==
    IF depth >= limit THEN [st EXCEPT !.last = TRUE]
    ELSE IF st.state[n] = 2 THEN [st EXCEPT !.last = st.dependent[n]]
    ELSE IF n \in alternate THEN [st EXCEPT !.last = TRUE, !.dependent[n] = TRUE]
    ELSE IF st.state[n] = 1 THEN [st EXCEPT !.last = FALSE]
    ELSE IF n \notin Local THEN [st EXCEPT !.last = ParentDependent(n)]
    ELSE LET entered == [st EXCEPT !.state[n] = 1]
             inherits == defs[n].kind \in {"inherit", "unset"}
             refs == IF inherits THEN <<>> ELSE Dependencies(defs[n])
             r == FoldLeft(LAMBDA acc, ref : LET c == Colour(acc.st, ref, depth + 1)
                                             IN  [st |-> c, any |-> acc.any \/ c.last],
                           [st |-> entered, any |-> inherits /\ ParentDependent(n)], refs)
         IN  [r.st EXCEPT !.state[n] = 2, !.dependent[n] = r.any, !.last = r.any]

ColourDependent ==
    LET start == [state |-> [n \in Names |-> 0], last |-> FALSE,
                  dependent |-> [n \in Names |->
                     n \notin Local /\ (n \in alternate \/ ParentDependent(n))]]
        ordered == SelectSeq(Order, LAMBDA n : n \in Local)
        done == FoldLeft(LAMBDA st, n : Colour(st, n, 0), start, ordered)
    IN  IF alternate = {} /\ \A n \in Names : ~ParentDependent(n) THEN {}
        ELSE {n \in Names : done.dependent[n]}

-----------------------------------------------------------------------------
(* buildVariables                                                          *)

LiteralDefinition(d) == d.kind \in {"none", "lit", "inherit", "unset", "initial", "revert"}
BuildLiteralVariables ==
    [built |-> TRUE, unresolved |-> FALSE, cyclic |-> {},
     values |-> [n \in Local |-> Keyword(defs[n], n)],
     colour |-> alternate \cup {n \in Names : /\ n \in Local => defs[n].kind \in {"inherit", "unset"}
                                            /\ ParentDependent(n)}]

BuildDependentVariables ==
    LET v == Visited
    IN  IF v.exceeded
        THEN [built |-> TRUE, unresolved |-> TRUE, cyclic |-> {}, values |-> <<>>,
              colour |-> Names]
        ELSE [built |-> TRUE, unresolved |-> FALSE, cyclic |-> v.cyclic,
              values |-> Resolved(v.cyclic), colour |-> ColourDependent]

BuildVariables ==
    IF \A n \in Names : LiteralDefinition(defs[n]) THEN BuildLiteralVariables
    ELSE BuildDependentVariables

-----------------------------------------------------------------------------
(* Component values: indexValueBlocks, closing, validVariableFunctions      *)

ClosingOf == [x \in {"var(", "(", "["} |-> IF x = "[" THEN "]" ELSE ")"]
Opens(t) == t \in DOMAIN ClosingOf
Closes(t) == t \in {")", "]"}

\* indexValueBlocks, first pass: the end and the first comma of each block.
BlockStep(s, i) ==
    LET t == value[i]
        top == IF s.stack = <<>> THEN 0 ELSE s.stack[Len(s.stack)]
    IN  IF Opens(t) THEN [s EXCEPT !.stack = Append(@, i),
                                   !.blocks[i] = [end |-> Len(value) + 1, comma |-> 0]]
        ELSE IF top = 0 THEN s
        ELSE IF t = ClosingOf[value[top]]
        THEN [s EXCEPT !.stack = SubSeq(@, 1, Len(@) - 1), !.blocks[top].end = i]
        ELSE IF t = "," /\ s.blocks[top].comma = 0 THEN [s EXCEPT !.blocks[top].comma = i]
        ELSE s

IndexBlocks ==
    FoldLeft(BlockStep, [stack |-> <<>>, blocks |-> [i \in 1..Len(value) |-> [end |-> 0, comma |-> 0]]],
             [i \in 1..Len(value) |-> i]).blocks

\* Second pass: the name of each var(), "" when it has none.
BlockName(blocks, i) ==
    LET end == IF blocks[i].comma > 0 THEN blocks[i].comma ELSE blocks[i].end
        inner == SubSeq(value, i + 1, end - 1)
    IN  IF Len(inner) = 1 /\ inner[1] \in {"name", "x"} THEN inner[1] ELSE ""

\* advanceDelimiters and closing
AdvanceDelimiters(stack, t) ==
    IF Opens(t) THEN Append(stack, ClosingOf[t])
    ELSE IF Closes(t) /\ stack # <<>> /\ stack[Len(stack)] = t THEN SubSeq(stack, 1, Len(stack) - 1)
    ELSE stack

RECURSIVE ClosingFrom(_, _)
ClosingFrom(stack, i) ==
    IF i > Len(value) THEN i
    ELSE LET s == AdvanceDelimiters(stack, value[i])
         IN  IF s = <<>> THEN i ELSE ClosingFrom(s, i + 1)
Closing(i) == ClosingFrom(<<ClosingOf[value[i]]>>, i + 1)

\* validVariableFunctions: a stack of frames, checked as they close.
Frame(t) == [variable |-> t = "var(", fallback |-> FALSE, names |-> <<>>, closer |-> ClosingOf[t]]
AddNameToken(stack, t) ==
    IF stack = <<>> \/ ~stack[Len(stack)].variable \/ stack[Len(stack)].fallback THEN stack
    ELSE [stack EXCEPT ![Len(stack)].names = Append(@, t)]
ValidFrame(f) == f.variable => f.names = <<"name">>

ValidStep(s, t) ==
    LET top == s.stack[Len(s.stack)]
        added == [s EXCEPT !.stack = AddNameToken(@, t)]
    IN  IF ~s.ok THEN s
        ELSE IF Opens(t) THEN [added EXCEPT !.stack = Append(@, Frame(t))]
        ELSE IF s.stack = <<>> THEN s
        ELSE IF Closes(t) /\ top.closer = t
        THEN [s EXCEPT !.ok = ValidFrame(top), !.stack = SubSeq(@, 1, Len(@) - 1)]
        ELSE IF t = "," /\ top.variable /\ ~top.fallback
        THEN [s EXCEPT !.stack[Len(s.stack)].fallback = TRUE]
        ELSE added

ValidVariableFunctions ==
    LET s == FoldLeft(ValidStep, [ok |-> TRUE, stack |-> <<>>], value)
    IN  s.ok /\ \A i \in 1..Len(s.stack) : ValidFrame(s.stack[i])

-----------------------------------------------------------------------------
VariablesInit ==
    /\ defs \in [Names -> Definitions]
    /\ alternate \in SUBSET Names
    /\ parent \in Parents /\ limit \in Depths
    /\ scope = NotBuilt /\ first = NotBuilt /\ value = <<>>

Build ==
    /\ ~scope.built
    /\ scope' = BuildVariables
    /\ UNCHANGED <<defs, alternate, parent, limit, first, value>>

\* The same element in the other colour scheme: the cascade gives the names of
\* alternate other definitions, the parent scope gives its dependent names other
\* values.
OtherScheme ==
    /\ scope.built /\ ~first.built
    /\ first' = scope /\ scope' = NotBuilt
    /\ \E other \in [alternate -> Alternates] :
          defs' = [n \in Names |-> IF n \in alternate THEN other[n] ELSE defs[n]]
    /\ parent' = [n \in Names |-> IF parent[n] = "dark" THEN "light" ELSE parent[n]]
    /\ UNCHANGED <<alternate, limit, value>>

ValueInit ==
    /\ defs = [n \in Names |-> Undefined] /\ alternate = {}
    /\ parent \in Parents /\ limit \in Depths
    /\ scope = NotBuilt /\ first = NotBuilt /\ value = <<>>

TypeValue ==
    /\ Len(value) < MaxValue
    /\ \E t \in Alphabet : value' = Append(value, t)
    /\ UNCHANGED <<defs, alternate, parent, limit, scope, first>>

-----------------------------------------------------------------------------
(* Properties                                                              *)

Edge == {e \in Supported \X Supported :
           LET on == Dependencies(defs[e[1]]) IN \E i \in 1..Len(on) : on[i] = e[2]}
\* A set of local names in which every name depends on some name of the set:
\* it holds a cycle.
Looping(S) == \A n \in S : \E m \in S : <<n, m>> \in Edge
Reaches(n) ==   \* the names n depends on, directly or not
    LET Grow(S) == S \cup {e[2] : e \in {f \in Edge : f[1] \in S}}
    IN  Grow(Grow(Grow({e[2] : e \in {f \in Edge : f[1] = n}})))

Equation(d, n, val) ==
    LET of(m) == IF m \in Local THEN val[m] ELSE parent[m]
    IN  IF d.kind # "var" THEN Keyword(d, n)
        ELSE IF of(d.ref) # "invalid" \/ d.fallback.kind = "none" THEN of(d.ref)
        ELSE IF d.fallback.kind = "lit" THEN d.fallback.text
        ELSE of(d.fallback.ref)

\* The scope an element gets is a solution of its definitions: marked names are
\* on a dependency cycle and invalid, every cycle has a marked name (so that
\* resolution ends), and each other name has the value its definition gives it
\* from the values of the names it refers to, its own or the parent's.  When the
\* depth limit was hit, nothing is concluded.
ScopeSolved ==
    scope.built /\ ~scope.unresolved =>
       /\ \A n \in scope.cyclic : n \in Reaches(n) /\ scope.values[n] = "invalid"
       /\ \A S \in SUBSET Supported : S # {} /\ Looping(S) => S \cap scope.cyclic # {}
       /\ DOMAIN scope.values = Local
       /\ \A n \in Local \ scope.cyclic :
             IF defs[n].kind = "unsupported" THEN scope.values[n] = "unsupported"
             ELSE \/ scope.values[n] = Equation(defs[n], n, scope.values)
                  \/ scope.values[n] = "unsupported" /\ limit <= Cardinality(Names) + 1

\* The shortcut for literal definitions gives what the general path would.
LiteralPathAgrees ==
    scope.built /\ (\A n \in Names : LiteralDefinition(defs[n])) /\ limit > 1 =>
       LET general == BuildDependentVariables
       IN  /\ scope.values = general.values
           /\ scope.colour = general.colour

\* Without dependency cycles, a name the element does not record as depending on
\* the colour scheme has the same value in the other scheme.
ColourDependenceKnown ==
    scope.built /\ first.built /\ first.cyclic = {} /\ limit > Cardinality(Names) + 1 =>
       \A n \in Local \ first.colour : scope.values[n] = first.values[n]

\* The index of blocks used for substitution, the delimiter matching and the
\* validation of custom properties agree on every component value: where each
\* block ends, and that each var() of an accepted value has exactly one name.
BlocksAgree ==
    LET blocks == IndexBlocks
        vars == {i \in 1..Len(value) : value[i] = "var("}
    IN  /\ \A i \in 1..Len(value) : Opens(value[i]) => blocks[i].end = Closing(i)
        /\ ValidVariableFunctions <=> \A i \in vars : BlockName(blocks, i) = "name"

\* buildVariables gives an element the values its definitions say, on either of
\* its paths and in both colour schemes, and the three ways to match the blocks
\* of a value agree.
VariablesSolved ==
    ScopeSolved /\ LiteralPathAgrees /\ ColourDependenceKnown /\ BlocksAgree

=============================================================================
