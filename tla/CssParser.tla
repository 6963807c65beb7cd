----------------------------- MODULE CssParser ------------------------------
(***************************************************************************)
(* A stylesheet or style attribute being parsed: the CSS grammar parser    *)
(* (fork/tdewolffparse/css/parse.go) and the session that consumes its     *)
(* grammar events (htmlextract/css_parser.go).  One step reads one token.  *)
(* Whitespace, comments and the bytes of a token are left out: "ident"     *)
(* stands for names, numbers and delimiters, "(" for functions and round   *)
(* brackets, "custom" for a custom-property name, "star" for a leading *.  *)
(***************************************************************************)
EXTENDS Integers, SequencesExt

CONSTANTS
    Vocabularies,    \* sets of tokens; a text is written with one of them
    MaxTokens,       \* bound: tokens of a text
    MaxStates,       \* maxCSSParserStates
    MaxDeclarations, \* maxCSSDeclarations
    Modes            \* subset of {"stylesheet", "inline"}

VARIABLES
    parser,     \* css.Parser
    session,    \* cssParseSession and the part of sheet it changes
    tokens,     \* the vocabulary of the text
    nesting,    \* reference: the blocks the text has open, innermost last
    read,       \* tokens read, or -1 once the end was seen
    applied     \* the declaration applied last

cssVars == <<parser, session, tokens, nesting, read, applied>>

AtRules == {"@media", "@scope", "@font-face", "@import"}
Openers == {"(", "{"}
Closers == {")", "}"}
Opener(t) == IF t = ")" THEN "(" ELSE "{"

NoDeclaration == [text |-> 0, depth |-> 0, excused |-> TRUE, conditions |-> 0, enclosing |-> 0]

NewParser(state) ==
    [states |-> <<state>>, level |-> <<>>, buf |-> <<>>, at |-> "next", event |-> "none",
     tt |-> "", name |-> "", prevEnd |-> FALSE, parseError |-> FALSE, resourceErr |-> FALSE,
     start |-> 0, lost |-> FALSE]

NewCSSParseSession(inline) ==
    [inline |-> inline, finished |-> FALSE, incomplete |-> FALSE, cascadeIncomplete |-> FALSE,
     unsupportedNesting |-> FALSE, conditions |-> 0, atRules |-> <<>>, rulesetDepth |-> 0,
     current |-> 0, rules |-> <<>>, declarations |-> 0, importsAllowed |-> ~inline,
     imported |-> FALSE]

CssInit ==
    \E mode \in Modes :
       /\ parser = NewParser(IF mode = "inline" THEN "decls" ELSE "sheet")
       /\ session = NewCSSParseSession(mode = "inline")
       /\ tokens \in Vocabularies
       /\ nesting = <<>> /\ read = 0 /\ applied = NoDeclaration

-----------------------------------------------------------------------------
(* The grammar parser.  Each operator takes the parser and the token.       *)

Emit(p, event) == [p EXCEPT !.at = "next", !.event = event]
ParseError(p) == [Emit(p, "error") EXCEPT !.parseError = TRUE]
AbortParse(p) == [Emit(p, "error") EXCEPT !.resourceErr = TRUE]
\* The token buffer.  Past a name and its colon only brackets, and whether the
\* rest is all names, are told apart: a run of other tokens counts as one.
Shape(t) == IF t \in Openers \cup Closers \cup {"ident"} THEN t ELSE "other"
Buffered(buf, t) ==
    IF Len(buf) < 2 THEN Append(buf, t)
    ELSE IF Shape(t) \in {"ident", "other"} /\ Len(buf) > 2 /\ Last(buf) \in {"ident", "other"}
    THEN [buf EXCEPT ![Len(buf)] = IF Shape(t) = "ident" THEN @ ELSE "other"]
    ELSE Append(buf, Shape(t))
PushBuf(p, t) == [p EXCEPT !.buf = Buffered(@, t)]
PopState(p) == [p EXCEPT !.states = Front(@)]
PushState(p, state, event) ==
    IF Len(p.states) >= MaxStates THEN AbortParse(p)
    ELSE [Emit(p, event) EXCEPT !.states = Append(@, state)]

OpenComponentToken(p, t) ==
    IF Len(p.level) >= MaxStates THEN AbortParse(p) ELSE [p EXCEPT !.level = Append(@, t)]

\* Mutant of CloseComponent: any closer closes the innermost block.
CloseAnyComponent(p, t) ==
    IF p.level = <<>> THEN AbortParse(p) ELSE [p EXCEPT !.level = Front(@)]

\* A mismatched closer stays inside its block.
CloseComponent(p, t) ==
    IF p.level = <<>> THEN AbortParse(p)
    ELSE IF Last(p.level) = Opener(t) THEN [p EXCEPT !.level = Front(@)] ELSE p

\* A token inside a construct: brackets are matched, and it is buffered.
Component(p, t) ==
    LET q == IF t \in Openers THEN OpenComponentToken(p, t)
             ELSE IF t \in Closers THEN CloseComponent(p, t) ELSE p
    IN  IF q.resourceErr THEN q ELSE PushBuf(q, t)

Ends(p, t) == (t \in {"semi", "}"} /\ p.level = <<>>) \/ t = "eof"

\* parseAtRule
BeginAtRule(p, t) == [p EXCEPT !.buf = <<>>, !.name = t, !.at = "atrule"]
AtRuleState(name) ==
    CASE name = "@font-face" -> "atdecls" [] name = "@media" -> "atrules" [] OTHER -> "atunknown"

ParseAtRule(p, t) ==
    IF t = "{" /\ p.level = <<>> THEN PushState(p, AtRuleState(p.name), "beginAtRule")
    ELSE IF Ends(p, t) THEN [Emit(p, "atRule") EXCEPT !.prevEnd = t = "}"]
    ELSE Component(p, t)

\* A closing brace where a rule was expected ends the enclosing at-rule without
\* an event of its own.
StrayBrace(p) ==
    LET q == PushBuf(p, "}")
    IN  ParseError(IF Len(q.states) > 1 THEN PopState(q) ELSE q)

ParseQualifiedRule(p, t) ==
    IF t = "{" /\ p.level = <<>> THEN PushState(p, "ruledecls", "beginRuleset")
    ELSE IF t = "eof" THEN ParseError(p)
    ELSE IF t = "}" /\ p.level = <<>> THEN StrayBrace(p)
    ELSE Component(p, t)

\* parseDeclarationError
ParseDeclarationError(p, t) ==
    IF Ends(p, t)
    THEN ParseError([p EXCEPT !.prevEnd = t = "}", !.buf = IF t = "semi" THEN Append(@, t) ELSE @])
    ELSE LET q == Component(p, t) IN IF q.resourceErr THEN q ELSE [q EXCEPT !.at = "declerror"]

DeclarationError(p, t) == ParseDeclarationError([p EXCEPT !.tt = t], t)

\* parseDeclaration; the value is the buffer after the name and the colon.
HasColon(p) == Len(p.buf) > 1 /\ p.buf[2] = "colon"
ParseDeclaration(p, t) ==
    IF Ends(p, t) THEN
        IF HasColon(p)
        THEN [Emit(p, "declaration") EXCEPT !.buf = SubSeq(@, 3, Len(@)), !.prevEnd = t = "}"]
        ELSE DeclarationError(p, t)
    ELSE IF t = "{" /\ p.level = <<>> /\ p.states[1] = "sheet"
    THEN PushState(p, "ruledecls", "beginRuleset")
    ELSE IF t \in Closers /\ p.level = <<>> THEN DeclarationError(p, t)
    ELSE Component(p, t)

\* parseCustomProperty: the colon, then the value.  Without a colon the token
\* read in its place is dropped; dropping a bracket loses the nesting.
ParseCustomColon(p, t) ==
    IF t = "colon" THEN [p EXCEPT !.at = "customvalue"]
    ELSE ParseError([p EXCEPT !.lost = @ \/ t \in Openers \cup Closers])

ParseCustomValue(p, t) ==
    IF Ends(p, t) THEN [Emit(p, "custom") EXCEPT !.prevEnd = t = "}"] ELSE Component(p, t)

Unexpected(p, t) ==
    LET q == [p EXCEPT !.buf = <<>>, !.tt = t]
    IN  IF t = "}" THEN ParseError([PushBuf(q, t) EXCEPT !.lost = @ \/ p.at = "star"])
        ELSE DeclarationError(q, t)

\* parseDeclarationList, once semicolons and a leading * are read.
DeclarationStart(p, t) ==
    CASE t = "eof" -> Emit(p, "error")
      [] t \in AtRules -> BeginAtRule(p, t)
      [] t \in {"ident", "star"} -> [p EXCEPT !.buf = <<t>>, !.at = "decl"]
      [] t = "custom" -> [p EXCEPT !.buf = <<>>, !.at = "customcolon"]
      [] OTHER -> Unexpected(p, t)

ParseDeclarationList(p, t) ==
    IF t = "semi" THEN p
    ELSE IF t = "star" THEN [p EXCEPT !.at = "star"]
    ELSE DeclarationStart(p, t)

\* parseQualifiedRuleDeclarationList, parseAtRuleDeclarationList
ParseBlockDeclarations(p, t, event) ==
    IF t \in {"}", "eof"} THEN Emit(PopState(p), event) ELSE ParseDeclarationList(p, t)

ParseAtRuleUnknown(p, t) ==
    IF (t = "}" /\ p.level = <<>>) \/ t = "eof" THEN Emit(PopState(p), "endAtRule")
    ELSE IF t \in Openers THEN OpenComponentToken(p, t)
    ELSE IF t \in Closers THEN CloseComponent(p, t)
    ELSE p

QualifiedStart(p, t) == ParseQualifiedRule([p EXCEPT !.buf = <<>>, !.at = "qualified"], t)

ParseAtRuleRuleList(p, t) ==
    IF t \in {"}", "eof"} THEN Emit(PopState(p), "endAtRule")
    ELSE IF t \in AtRules THEN BeginAtRule(p, t)
    ELSE QualifiedStart(p, t)

ParseStylesheet(p, t) ==
    IF t = "eof" THEN Emit(p, "error")
    ELSE IF t \in AtRules THEN BeginAtRule(p, t)
    ELSE IF t = "custom" THEN [p EXCEPT !.buf = <<>>, !.at = "customcolon"]
    ELSE QualifiedStart(p, t)

\* Next: the state function on top reads the first token of a construct.
Begin(p, t) ==
    CASE Last(p.states) = "sheet" -> ParseStylesheet(p, t)
      [] Last(p.states) = "decls" -> ParseDeclarationList(p, t)
      [] Last(p.states) = "atdecls" -> ParseBlockDeclarations(p, t, "endAtRule")
      [] Last(p.states) = "ruledecls" -> ParseBlockDeclarations(p, t, "endRuleset")
      [] Last(p.states) = "atrules" -> ParseAtRuleRuleList(p, t)
      [] OTHER -> ParseAtRuleUnknown(p, t)

Continue(p, t) ==
    CASE p.at = "next" -> Begin([p EXCEPT !.tt = t, !.parseError = FALSE, !.prevEnd = FALSE], t)
      [] p.at = "star" -> DeclarationStart(p, t)
      [] p.at = "atrule" -> ParseAtRule(p, t)
      [] p.at = "qualified" -> ParseQualifiedRule(p, t)
      [] p.at = "decl" -> ParseDeclaration(p, t)
      [] p.at = "declerror" -> ParseDeclarationError(p, t)
      [] p.at = "customcolon" -> ParseCustomColon(p, t)
      [] OTHER -> ParseCustomValue(p, t)

-----------------------------------------------------------------------------
(* The session: one operator per grammar event                             *)

\* hasTopLevelCSSBlock: a brace after some other token, outside brackets.
HasTopLevelCSSBlock(values) ==
    \E i \in 2..Len(values) :
       /\ values[i] = "{"
       /\ \A j \in 1..(i - 1) : values[j] # "{" /\ values[j] # "}"
       /\ \A j \in 1..(i - 1) : values[j] = "(" => \E k \in j..(i - 1) : values[k] = ")"

AbandonCascade(s) == [s EXCEPT !.cascadeIncomplete = TRUE, !.rules = <<>>, !.current = 0]
Stop(s) == [s EXCEPT !.finished = TRUE]
\* parseStylesheetCSS abandons the cascade on an incomplete parse.
Incomplete(s) ==
    LET q == [Stop(s) EXCEPT !.incomplete = TRUE] IN IF s.inline THEN q ELSE AbandonCascade(q)

InsideNestedGroup(s) == s.atRules # <<>> /\ Last(s.atRules).nested
NotesNesting(s, values) ==
    /\ ~s.inline /\ s.rulesetDepth > 0
    /\ HasTopLevelCSSBlock(values) \/ (s.current = 0 /\ InsideNestedGroup(s))

\* Mutant of HandleError: outside all blocks the end of the text is one more error.
HandleErrorGoesOn(s, p) ==
    IF p.resourceErr THEN Incomplete(s)
    ELSE IF ~p.parseError /\ (s.conditions > 0 \/ s.rulesetDepth > 0) THEN Stop(s)
    ELSE LET q == [s EXCEPT !.unsupportedNesting = @ \/ NotesNesting(s, p.buf)]
         IN  IF \/ s.inline /\ s.conditions > 0
                \/ s.conditions > 0 /\ \E i \in 1..Len(p.buf) : p.buf[i] = "}"
                \/ p.tt = ")"
             THEN Incomplete(q) ELSE q

HandleError(s, p) ==
    IF p.resourceErr THEN Incomplete(s)
    ELSE IF ~p.parseError THEN Stop(s)
    ELSE LET q == [s EXCEPT !.unsupportedNesting = @ \/ NotesNesting(s, p.buf)]
         IN  IF \/ s.inline /\ s.conditions > 0
                \/ s.conditions > 0 /\ \E i \in 1..Len(p.buf) : p.buf[i] = "}"
                \/ p.tt = ")"
             THEN Incomplete(q) ELSE q

OnBeginAtRule(s, p) ==
    [s EXCEPT !.importsAllowed = FALSE, !.current = 0, !.conditions = @ + 1,
              !.atRules = Append(@, [enclosing |-> s.current, depth |-> s.rulesetDepth,
                                     nested |-> /\ p.name \in {"@media", "@scope"}
                                                /\ s.current > 0 \/ InsideNestedGroup(s)])]

OnEndAtRule(s) ==
    IF s.conditions = 0 THEN [s EXCEPT !.current = 0]
    ELSE [s EXCEPT !.conditions = @ - 1, !.current = Last(s.atRules).enclosing,
                   !.atRules = Front(@)]

OnAtRule(s, p) ==
    IF p.name = "@import"
    THEN [s EXCEPT !.imported = @ \/ (s.importsAllowed /\ s.conditions = 0)]
    ELSE [s EXCEPT !.importsAllowed = FALSE]

ValidSelector(values) == values # <<>> /\ \A i \in 1..Len(values) : values[i] \in {"ident", "star"}

OnBeginRuleset(s, p) ==
    LET nested == \/ /\ s.rulesetDepth > 0
                     /\ s.atRules = <<>> \/ s.rulesetDepth > Last(s.atRules).depth
                  \/ InsideNestedGroup(s)
        q == [s EXCEPT !.importsAllowed = FALSE, !.rulesetDepth = @ + 1, !.current = 0,
                       !.unsupportedNesting = @ \/ (nested /\ ~s.inline)]
    IN  IF s.inline \/ ~ValidSelector(p.buf) THEN q
        ELSE [q EXCEPT !.rules = Append(@, s.conditions), !.current = Len(s.rules) + 1]

OnEndRuleset(s) ==
    [s EXCEPT !.current = 0, !.rulesetDepth = IF @ > 0 THEN @ - 1 ELSE 0]

Applicable(s) == IF s.inline THEN s.conditions = 0 ELSE s.current > 0
Applies(s, p) ==
    /\ p.event = "custom" \/ (p.event = "declaration" /\ ~NotesNesting(s, p.buf))
    /\ Applicable(s) /\ s.declarations < MaxDeclarations

OnDeclaration(s, p) ==
    IF p.event = "declaration" /\ NotesNesting(s, p.buf)
    THEN [s EXCEPT !.unsupportedNesting = TRUE]
    ELSE IF ~Applicable(s) THEN s
    ELSE IF s.declarations >= MaxDeclarations THEN Stop(AbandonCascade(s))
    ELSE [s EXCEPT !.declarations = @ + 1]

OnEvent(s, p) ==
    CASE p.event = "error" -> HandleError(s, p)
      [] p.event = "beginAtRule" -> OnBeginAtRule(s, p)
      [] p.event = "endAtRule" -> OnEndAtRule(s)
      [] p.event = "atRule" -> OnAtRule(s, p)
      [] p.event = "beginRuleset" -> OnBeginRuleset(s, p)
      [] p.event = "endRuleset" -> OnEndRuleset(s)
      [] p.event \in {"declaration", "custom"} -> OnDeclaration(s, p)
      [] OTHER -> s

-----------------------------------------------------------------------------
\* Reference: the blocks open in the text, with CSS's rule that a closer only
\* closes the innermost block of its kind.
Nest(stack, t) ==
    IF t \in Openers THEN Append(stack, t)
    ELSE IF t \in Closers /\ stack # <<>> /\ Last(stack) = Opener(t) THEN Front(stack)
    ELSE stack

Depth(s) == Len(s.atRules) + s.rulesetDepth

Started(p) == IF parser.at = "next" THEN [p EXCEPT !.start = Len(nesting)] ELSE p

\* What is left when run returns: the sheet and the result, not the parser.
Left(s) ==
    [s EXCEPT !.conditions = 0, !.atRules = <<>>, !.rulesetDepth = 0, !.current = 0,
              !.importsAllowed = FALSE]

Take(t) ==
    LET p == Continue([Started(parser) EXCEPT !.event = "none"], t)
        s == OnEvent(session, p)
    IN  /\ parser' = IF s.finished THEN NewParser("done") ELSE p
        /\ session' = IF s.finished THEN Left(s) ELSE s
        /\ applied' = IF Applies(session, p)
                      THEN [text |-> p.start, depth |-> Depth(session),
                            excused |-> p.lost \/ session.unsupportedNesting,
                            conditions |-> IF session.inline THEN 0 ELSE session.rules[session.current],
                            enclosing |-> session.conditions]
                      ELSE applied

\* The closing brace that ended a declaration is handed to the block.
EndBlock ==
    /\ ~session.finished /\ parser.at = "next" /\ parser.prevEnd
    /\ Take("}")
    /\ UNCHANGED <<tokens, nesting, read>>

ReadToken ==
    /\ ~session.finished /\ ~(parser.at = "next" /\ parser.prevEnd)
    /\ read # -1 /\ read < MaxTokens
    /\ \E t \in tokens :
         /\ Take(t)
         /\ nesting' = IF session'.finished THEN <<>> ELSE Nest(nesting, t)
    /\ read' = IF session'.finished THEN -1 ELSE read + 1
    /\ UNCHANGED tokens

ReadEnd ==
    /\ ~session.finished /\ ~(parser.at = "next" /\ parser.prevEnd)
    /\ Take("eof")
    /\ read' = -1
    /\ nesting' = IF session'.finished THEN <<>> ELSE nesting
    /\ UNCHANGED tokens

CssNext == EndBlock \/ ReadToken \/ ReadEnd

-----------------------------------------------------------------------------
(* Properties                                                              *)

AtStates == {"atdecls", "atrules", "atunknown"}
Count(s, S) == Len(SelectSeq(s, LAMBDA x : x \in S))

\* The parser's stack and the session's view of it stay in step as long as the
\* session trusts what it reads: as many at-rules and rulesets open in one as in
\* the other, a condition for each open at-rule, never an empty stack, and no
\* bracket left open between two constructs.
StacksAgree ==
    /\ parser.states # <<>>
    /\ session.conditions = Len(session.atRules)
    /\ session.current <= Len(session.rules)
    /\ ~session.finished =>
         /\ Count(parser.states, AtStates) = Len(session.atRules)
         /\ Count(parser.states, {"ruledecls"}) = session.rulesetDepth
         /\ parser.at = "next" /\ Last(parser.states) # "atunknown" /\ read # -1 =>
               parser.level = <<>>

\* A declaration is applied where the text puts it: when the session applies
\* one, the blocks open around it in the text are exactly the at-rules and the
\* rulesets the session has open, and the rule carries the conditions of its
\* at-rules.  Excused are texts in which nesting was noted as unsupported, or
\* where the parser dropped a bracket after a custom-property name or a *.
DeclarationsPlaced ==
    /\ applied.excused \/ applied.text = applied.depth
    /\ applied.conditions <= applied.enclosing

\* The session (css_parser.go) stays in step with the grammar parser
\* (css/parse.go), and applies a declaration where the text has it.
CssPlaced == StacksAgree /\ DeclarationsPlaced

=============================================================================
