------------------------------- MODULE MCStyle -------------------------------
(***************************************************************************)
(* TLC instances of what reads the style of an HTML message: the CSS       *)
(* grammar parser and the session on top of it (CssParser), the lexer      *)
(* below it (CssLexer), and custom properties (CssVariables: the scopes of *)
(* elements, and the component values themselves).  A behaviour runs one   *)
(* of the four; the others stay at rest.                                   *)
(***************************************************************************)
EXTENDS CssParser, CssLexer, CssVariables

VARIABLES
    part,   \* which of the four runs
    beat    \* changes with every step, so that a step that leaves all else as it
            \* was, a loop that makes no progress, is still a step

MCNested == {"ident", "colon", "{", "}", "@media"}
MCVocabularies ==
    {MCNested,
     {"ident", "colon", "custom", "star", "{", "}"},
     {"ident", "colon", "(", ")", "{", "}"},
     {"ident", "@scope", "@font-face", "@import", "semi", "{", "}"}}

-----------------------------------------------------------------------------
\* Pieces of a text, one set for each family of tokens.

MCEscapes == {<<"g">>, <<"6", "1">>, <<"bs">>, <<"sp">>, <<"/", "*">>, <<"*", "/">>,
              <<"/", "*", "*", "/">>, <<"#">>, <<"-">>, <<"!">>}
MCURLs == {<<"u", "r", "l", "(">>, <<"quote">>, <<")">>, <<"bs">>, <<"nl">>, <<"g">>,
           <<"sp">>, <<"(">>}
MCNumbers == {<<"1">>, <<".">>, <<"e">>, <<"+">>, <<"-">>, <<"%">>, <<"g">>,
              <<"/", "*", "*", "/">>}
MCRanges == {<<"u", "+">>, <<"1", "1">>, <<"a">>, <<"?">>, <<"-">>}
MCDelimiters == {<<"<", "!">>, <<"-">>, <<">">>, <<"|">>, <<"=">>, <<"@">>, <<"g">>,
                 <<"(">>, <<"*">>, <<":">>}
MCAlphabets == {MCEscapes, MCURLs, MCNumbers, MCRanges, MCDelimiters}

-----------------------------------------------------------------------------
\* Definitions of custom properties.

Lit(t) == [kind |-> "lit", text |-> t]
None == [kind |-> "none"]
Var(r, f) == [kind |-> "var", ref |-> r, fallback |-> f]
Ref(r) == [kind |-> "ref", ref |-> r]

MCNames == {"a", "b", "c"}
MCOrder == <<"a", "b", "c">>
MCDefinitions ==
    {Undefined, Lit("red"), [kind |-> "inherit"], [kind |-> "initial"],
     [kind |-> "unsupported", ref |-> "a", fallback |-> None]}
      \cup {Var(r, None) : r \in MCNames} \cup {Var(r, Lit("blue")) : r \in MCNames}
      \cup {Var(r, Ref("c")) : r \in MCNames}
MCAlternates ==
    {Undefined, Lit("green"), Var("c", None)}
MCDark == [n \in MCNames |-> "dark"]
MCParents == {MCDark, [a |-> "invalid", b |-> "dark", c |-> "unsupported"]}

-----------------------------------------------------------------------------
styleVars == <<part, beat, cssVars, lexerVars, variableVars>>

StyleInit ==
    /\ part \in {"parser", "lexer", "scopes", "values"} /\ beat = FALSE
    /\ CssInit /\ LexerInit
    /\ part = "parser" \/ (parser = NewParser("sheet") /\ tokens = MCNested)
    /\ part = "lexer" \/ alphabet = MCRanges
    /\ IF part = "scopes" THEN VariablesInit ELSE ValueInit
    /\ part \in {"scopes", "values"}
          \/ (parent = MCDark /\ limit = 5)

InParser == part = "parser" /\ UNCHANGED <<part, lexerVars, variableVars>>
InLexer == part = "lexer" /\ UNCHANGED <<part, cssVars, variableVars>>
InScopes == part = "scopes" /\ UNCHANGED <<part, cssVars, lexerVars>>
InValues == part = "values" /\ UNCHANGED <<part, cssVars, lexerVars>>

StyleStep ==
    /\ beat' = ~beat
    /\ \/ InParser /\ CssNext
       \/ InLexer /\ LexerNext
       \/ InScopes /\ (Build \/ OtherScheme)
       \/ InValues /\ TypeValue

Ended ==
    \/ part = "parser" /\ session.finished
    \/ part = "lexer" /\ Lexed
    \/ part = "scopes" /\ first.built /\ scope.built
    \/ part = "values" /\ Len(value) = MaxValue

StyleNext == StyleStep \/ (Ended /\ UNCHANGED styleVars)

\* The parser, the lexer and the building of scopes are loops that wait for
\* nothing: weak fairness of their steps, which are enabled until they have ended.
StyleFairness == []<>Ended \/ []<><<StyleStep>>_styleVars

StyleSpec == StyleInit /\ [][StyleNext]_styleVars /\ StyleFairness

\* Every text is parsed to its end (run), with each token taking at least one
\* character of it (Lexer.Next).
StyleEnds == <>Ended

=============================================================================
