---------------------------- MODULE AuthResults -----------------------------
(***************************************************************************)
(* Authentication evidence from headers (mailauth): Parse of an            *)
(* Authentication-Results field and its fallback to Received-SPF.  The     *)
(* field arrives piece by piece; a piece stands for a few characters and   *)
(* expands to symbols: the special characters of RFC 5322 one by one, a    *)
(* space, and whole words.                                                 *)
(***************************************************************************)
EXTENDS Integers, Sequences, SequencesExt

CONSTANTS
    FieldVocabularies, \* sets of pieces: each field is made of one of them
    MaxPieces,       \* bound: pieces of a field
    Symbols,         \* Pieces -> sequence of symbols
    Trusted,         \* TrustedAuthservIDs
    Domains,         \* the words NormalizeDomain accepts
    ReceivedSPF      \* Received-SPF fields: [receiver, outcome, identity, envelope, helo]

VARIABLES
    field,       \* the Authentication-Results field: pieces
    vocabulary,  \* the pieces it is made of
    received     \* the Received-SPF field of the message, or NoField

authVars == <<field, vocabulary, received>>

NoField == [receiver |-> "", outcome |-> "", identity |-> "", envelope |-> "", helo |-> ""]

Special == {"(", ")", "\"", "\\", ";", "=", " ", "<", ">"}
FieldText(pieces) == FoldLeft(LAMBDA acc, p : acc \o Symbols[p], <<>>, pieces)

-----------------------------------------------------------------------------
(* stripAuthenticationComments                                             *)

StripInit == [depth |-> 0, quoted |-> FALSE, escaped |-> FALSE, ok |-> TRUE, out |-> <<>>]

InComment(s, c) ==
    IF s.escaped THEN [s EXCEPT !.escaped = FALSE]
    ELSE IF c = "\\" THEN [s EXCEPT !.escaped = TRUE]
    ELSE IF c = "(" THEN [s EXCEPT !.depth = @ + 1]
    ELSE IF c = ")" THEN [s EXCEPT !.depth = @ - 1,
                                   !.out = IF s.depth = 1 THEN Append(@, " ") ELSE @]
    ELSE s

InQuotes(s, c) ==
    LET t == [s EXCEPT !.out = Append(@, c)]
    IN  IF s.escaped THEN [t EXCEPT !.escaped = FALSE]
        ELSE IF c = "\\" THEN [t EXCEPT !.escaped = TRUE]
        ELSE IF c = "\"" THEN [t EXCEPT !.quoted = FALSE]
        ELSE t

StripStep(s, c) ==
    IF ~s.ok THEN s
    ELSE IF s.depth > 0 THEN InComment(s, c)
    ELSE IF s.quoted THEN InQuotes(s, c)
    ELSE IF c = "(" THEN [s EXCEPT !.depth = 1]
    ELSE IF c = ")" THEN [s EXCEPT !.ok = FALSE]
    ELSE [s EXCEPT !.out = Append(@, c), !.quoted = c = "\""]

StripAuthenticationComments(text) ==
    LET s == FoldLeft(StripStep, StripInit, text)
    IN  [ok |-> s.ok /\ s.depth = 0 /\ ~s.quoted /\ ~s.escaped, text |-> s.out]

-----------------------------------------------------------------------------
(* splitAuthenticationClauses                                              *)


SplitStep(s, c) ==
    IF s.quoted /\ s.escaped THEN [s EXCEPT !.escaped = FALSE, !.clause = Append(@, c)]
    ELSE IF s.quoted /\ c = "\\" THEN [s EXCEPT !.escaped = TRUE, !.clause = Append(@, c)]
    ELSE IF c = "\"" THEN [s EXCEPT !.quoted = ~@, !.clause = Append(@, c)]
    ELSE IF c = ";" /\ ~s.quoted THEN [s EXCEPT !.done = Append(@, s.clause), !.clause = <<>>]
    ELSE [s EXCEPT !.clause = Append(@, c)]

SplitAuthenticationClauses(text) ==
    LET s == FoldLeft(SplitStep,
                      [quoted |-> FALSE, escaped |-> FALSE, done |-> <<>>, clause |-> <<>>], text)
    IN  Append(s.done, s.clause)

-----------------------------------------------------------------------------
(* authenticationProperties                                                *)

At(t, i) == IF i <= Len(t) THEN t[i] ELSE "end"
RunEnd(t, i, S) ==   \* the first place from i on whose symbol is not in S
    CHOOSE j \in i..(Len(t) + 1) : At(t, j) \notin S /\ \A k \in i..(j - 1) : t[k] \in S
NameSymbols(t) == {t[i] : i \in 1..Len(t)} \ Special
SkipWhitespace(t, i) == RunEnd(t, i, {" "})
Word(t, i, j) == SubSeq(t, i, j - 1)

\* readAuthenticationQuotedValue from the quote at i: [value, next], next = 0
\* if it is not closed.
RECURSIVE QuotedValue(_, _, _)
QuotedValue(t, i, value) ==
    CASE At(t, i) = "end" -> [value |-> <<>>, next |-> 0]
      [] At(t, i) = "\\" -> IF i = Len(t) THEN [value |-> <<>>, next |-> 0]
                            ELSE QuotedValue(t, i + 2, Append(value, t[i + 1]))
      [] At(t, i) = "\"" -> [value |-> value, next |-> i + 1]
      [] OTHER -> QuotedValue(t, i + 1, Append(value, t[i]))

AngleValue(t, i) ==
    LET close == RunEnd(t, i, {t[k] : k \in 1..Len(t)} \ {">"})
    IN  IF At(t, close) = "end" THEN [value |-> <<>>, next |-> 0]
        ELSE [value |-> Word(t, i, close), next |-> close + 1]

PlainValue(t, i) ==
    LET end == RunEnd(t, i, {t[k] : k \in 1..Len(t)} \ {" "})
    IN  IF \E k \in i..(end - 1) : t[k] \in {"\"", "<", ">"} THEN [value |-> <<>>, next |-> 0]
        ELSE [value |-> Word(t, i, end), next |-> end]

PropertyValue(t, i) ==
    CASE At(t, i) = "\"" -> QuotedValue(t, i + 1, <<>>)
      [] At(t, i) = "<" -> AngleValue(t, i + 1)
      [] OTHER -> PlainValue(t, i)

\* The assignments from i on, or none at all when one is malformed or repeated.
RECURSIVE AuthenticationProperties(_, _, _)
AuthenticationProperties(t, i, props) ==
    LET key == SkipWhitespace(t, i)
        keyEnd == RunEnd(t, key, NameSymbols(t))
        equals == SkipWhitespace(t, keyEnd)
        start == SkipWhitespace(t, equals + 1)
        name == Word(t, key, keyEnd)
    IN  IF key > Len(t) THEN props
        ELSE IF key = i \/ keyEnd = key \/ At(t, equals) # "=" \/ start > Len(t) THEN {}
        ELSE LET v == PropertyValue(t, start)
             IN  IF v.next = 0 \/ \E p \in props : p.name = name THEN {}
                 ELSE AuthenticationProperties(t, v.next,
                                                props \cup {[name |-> name, value |-> v.value]})

-----------------------------------------------------------------------------
(* Parse                                                                   *)

NormalizeDomain(v) == IF Len(v) = 1 /\ v[1] \in Domains THEN v[1] ELSE ""
DomainOf(props, name) ==
    IF \E p \in props : p.name = <<name>>
    THEN NormalizeDomain((CHOOSE p \in props : p.name = <<name>>).value) ELSE ""

Key == [dkim |-> "header.d", dmarc |-> "header.from", spf |-> "smtp.mailfrom"]

Result(method, outcome, domain, scope) ==
    [method |-> method, outcome |-> outcome, domain |-> domain, scope |-> scope]

\* authenticationResultsSPFIdentity
SPFResult(outcome, props) ==
    IF DomainOf(props, "smtp.mailfrom") # ""
    THEN Result("spf", outcome, DomainOf(props, "smtp.mailfrom"), "mailfrom")
    ELSE IF \E p \in props : p.name = <<"smtp.helo">>
    THEN Result("spf", outcome, DomainOf(props, "smtp.helo"), "helo")
    ELSE Result("spf", outcome, "", "")

NormalizeHeaderOutcome(method, o) ==
    IF method = "spf" /\ o = <<"tempfail">> THEN "temperror"
    ELSE IF Len(o) = 1 THEN o[1] ELSE "other"

\* One clause: the method, its outcome and its properties, or no result.
ClauseResult(t) ==
    LET m == SkipWhitespace(t, 1)
        equals == SkipWhitespace(t, m + 1)
        o == SkipWhitespace(t, equals + 1)
        end == RunEnd(t, o, NameSymbols(t))
        outcome == NormalizeHeaderOutcome(At(t, m), Word(t, o, end))
        props == AuthenticationProperties(SubSeq(t, end, Len(t)), 1, {})
    IN  IF At(t, m) \notin DOMAIN Key \/ At(t, equals) # "=" \/ o > Len(t) \/ end = o THEN {}
        ELSE IF t[m] = "spf" THEN {SPFResult(outcome, props)}
        ELSE {Result(t[m], outcome, DomainOf(props, Key[t[m]]), "")}

FieldResults(text) ==
    LET clean == StripAuthenticationComments(text)
        clauses == SplitAuthenticationClauses(clean.text)
        id == SkipWhitespace(clauses[1], 1)
        idEnd == RunEnd(clauses[1], id, {clauses[1][k] : k \in 1..Len(clauses[1])} \ {" "})
    IN  IF ~clean.ok \/ Len(clauses) < 2 THEN {}
        ELSE IF Word(clauses[1], id, idEnd) \notin {<<a>> : a \in Trusted} THEN {}
        ELSE UNION {ClauseResult(clauses[i]) : i \in 2..Len(clauses)}

AppendReceivedSPF(r) ==
    IF r.receiver \notin Trusted THEN {}
    ELSE IF r.identity = "helo" \/ (r.identity = "" /\ r.envelope = "<>")
    THEN {Result("spf", r.outcome, NormalizeDomain(<<r.helo>>), "helo")}
    ELSE {Result("spf", r.outcome, NormalizeDomain(<<r.envelope>>),
                 IF NormalizeDomain(<<r.envelope>>) = "" THEN "" ELSE "mailfrom")}

ParseResults(text, r) ==
    IF \E x \in FieldResults(text) : x.method = "spf" THEN FieldResults(text)
    ELSE FieldResults(text) \cup AppendReceivedSPF(r)

-----------------------------------------------------------------------------
AuthInit ==
    /\ field = <<>> /\ vocabulary \in FieldVocabularies
    /\ received \in ReceivedSPF \cup {NoField}

AuthNext ==
    /\ Len(field) < MaxPieces
    /\ \E p \in vocabulary : field' = Append(field, p)
    /\ UNCHANGED <<vocabulary, received>>

-----------------------------------------------------------------------------
(* Properties                                                              *)

\* Reference: how deep in comments and whether inside a quoted string the
\* symbol at i is, reading left to right.
Inside(text, i) ==
    LET s == FoldLeft(StripStep, StripInit, SubSeq(text, 1, i - 1))
    IN  IF s.depth > 0 THEN "comment" ELSE IF s.quoted THEN "quotes" ELSE "plain"
Plain(text, i) == Inside(text, i) = "plain" /\ text[i] \notin {"(", ")"}
PlainSeparator(text, i) == text[i] = ";" /\ Plain(text, i)

\* Text inside comments and quoted strings cannot manufacture evidence: each
\* result has its method and its outcome written outside them, after a trusted
\* service identifier and a separator; the domain it claims is the value of a
\* property whose name is outside them in the same clause; and a field with an
\* unclosed comment or string yields nothing.
EvidenceWritten ==
    LET text == FieldText(field)
    IN  \A x \in FieldResults(text) :
          /\ Inside(Append(text, " "), Len(text) + 1) = "plain"
          /\ \E s, m \in 1..Len(text) :
               /\ s < m /\ PlainSeparator(text, s)
               /\ text[m] = x.method /\ Plain(text, m)
               /\ \E a \in 1..(s - 1) : text[a] \in Trusted /\ Plain(text, a)
               /\ x.outcome # "other" =>
                    \E o \in (m + 1)..Len(text) :
                       /\ Plain(text, o) /\ NormalizeHeaderOutcome(x.method, <<text[o]>>) = x.outcome
                       /\ \A j \in m..o : ~PlainSeparator(text, j)
               /\ x.domain # "" =>
                    \E k, v \in (m + 1)..Len(text) :
                       /\ k < v /\ Plain(text, k) /\ text[v] = x.domain
                       /\ text[k] \in {Key[x.method], "smtp.helo"}
                       /\ \A j \in m..v : ~PlainSeparator(text, j)

\* Received-SPF is a fallback: a trusted Authentication-Results field that
\* holds an SPF clause, however malformed its properties, keeps the Received-
\* SPF field out, and the two never both vouch for the sender.
SPFFromOneSource ==
    LET text == FieldText(field)
    IN  (\E x \in FieldResults(text) : x.method = "spf") =>
            ParseResults(text, received) = ParseResults(text, NoField)


=============================================================================
