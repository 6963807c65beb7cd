------------------------------ MODULE CssLexer ------------------------------
(***************************************************************************)
(* The CSS lexer (fork/tdewolffparse/css/lex.go) and what the extractor    *)
(* does with a declaration's tokens before it keeps the value              *)
(* (htmlextract/css.go): trimming, !important, comments and escapes.       *)
(*                                                                         *)
(* Text is a sequence of characters, each standing for its class: "g" is a *)
(* letter that is no hexadecimal digit, "a" one that is, "6" and "1"       *)
(* digits, "c" a control character, "bs" a backslash, "nl" a newline.  A   *)
(* consume function returns the position after what it consumed, the       *)
(* position it was given when it consumed nothing.                         *)
(***************************************************************************)
EXTENDS Integers, Sequences, SequencesExt

CONSTANTS
    Alphabets,    \* sets of pieces: each text is written from one of them
    MaxText,      \* bound: pieces of a text
    LongestRange  \* hexadecimal digits of a code point (6 in CSS)

VARIABLES
    alphabet, \* the pieces of this text
    pieces,   \* how many it has
    text,     \* the characters
    pos,      \* where the lexer is; 0 while the text is being written
    produced  \* the tokens returned: kind, start and end

lexerVars == <<alphabet, pieces, text, pos, produced>>

Letters == {"g", "a", "u", "r", "l", "e"}
Digits == {"6", "1"}
HexDigits == {"a", "e"} \cup Digits
NameStart == Letters
NameChars == Letters \cup Digits \cup {"-"}
Space == {"sp", "nl"}

At(t, i) == IF i \in 1..Len(t) THEN t[i] ELSE ""

-----------------------------------------------------------------------------
(* The consume functions                                                   *)

RECURSIVE While(_, _, _)
While(t, i, S) == IF At(t, i) \in S THEN While(t, i + 1, S) ELSE i

\* At most n characters of S.
RECURSIVE UpTo(_, _, _, _)
UpTo(t, i, S, n) == IF n > 0 /\ At(t, i) \in S THEN UpTo(t, i + 1, S, n - 1) ELSE i

One(t, i, S) == UpTo(t, i, S, 1)

ConsumeEscape(t, i) ==
    IF At(t, i) # "bs" \/ At(t, i + 1) \in {"nl", ""} THEN i
    ELSE IF At(t, i + 1) \in HexDigits
    THEN One(t, UpTo(t, i + 1, HexDigits, LongestRange), Space)
    ELSE i + 2

RECURSIVE NameEnd(_, _)
NameEnd(t, i) ==
    LET j == IF At(t, i) \in NameChars THEN i + 1 ELSE ConsumeEscape(t, i)
    IN  IF j = i THEN i ELSE NameEnd(t, j)

IdentStart(t, start) == IF At(t, start) \in NameStart THEN start + 1 ELSE ConsumeEscape(t, start)
IdentRest(t, i, start, j) == IF j = start /\ start # i + 2 THEN i ELSE NameEnd(t, j)
IdentFrom(t, i, start) == IdentRest(t, i, start, IF start = i + 2 THEN start ELSE IdentStart(t, start))
ConsumeIdentToken(t, i) == IdentFrom(t, i, UpTo(t, i, {"-"}, 2))

ConsumeHashToken(t, i) ==
    LET j == NameEnd(t, i + 1) IN IF j = i + 1 THEN i ELSE j

ConsumeComment(t, i) ==
    LET ends == {j \in (i + 2)..Len(t) : At(t, j) = "*" /\ At(t, j + 1) = "/"}
    IN  IF At(t, i) # "/" \/ At(t, i + 1) # "*" THEN i
        ELSE IF ends = {} THEN Len(t) + 1
        ELSE (CHOOSE j \in ends : \A k \in ends : j <= k) + 2

Exponent(t, i) ==
    LET sign == One(t, i + 1, {"+", "-"})
        end == While(t, sign, Digits)
    IN  IF At(t, i) = "e" /\ end > sign THEN end ELSE i

NumberRest(t, i, sign, whole, fraction) ==
    IF At(t, whole) = "." /\ fraction > whole + 1 THEN Exponent(t, fraction)
    ELSE IF whole = sign THEN i
    ELSE IF At(t, whole) = "." THEN whole     \* the point belongs to the next token
    ELSE Exponent(t, whole)
NumberFrom(t, i, sign, whole) == NumberRest(t, i, sign, whole, While(t, whole + 1, Digits))
SignedFrom(t, i, sign) == NumberFrom(t, i, sign, While(t, sign, Digits))
ConsumeNumberToken(t, i) == SignedFrom(t, i, One(t, i, {"+", "-"}))

ConsumeUnicodeRangeToken(t, i) ==
    LET low == UpTo(t, i + 2, HexDigits, LongestRange + 1)
        high == UpTo(t, low + 1, HexDigits, LongestRange + 1)
        k == low - (i + 2)
        marks == UpTo(t, low, {"?"}, LongestRange + 1 - k)
        filled == IF At(t, low) = "?" /\ marks = low THEN low + 1 ELSE marks
    IN  IF At(t, i) # "u" \/ At(t, i + 1) # "+" THEN i
        ELSE IF At(t, low) = "-"
        THEN IF k \in 1..LongestRange /\ (high - low - 1) \in 1..LongestRange THEN high ELSE i
        ELSE IF filled - (i + 2) \in 1..LongestRange THEN filled ELSE i

RECURSIVE StringFrom(_, _)
StringFrom(t, i) ==
    LET c == At(t, i)
        escaped == ConsumeEscape(t, i)
    IN  IF c = "" THEN [kind |-> "string", end |-> i]
        ELSE IF c = "nl" THEN [kind |-> "badstring", end |-> i + 1]
        ELSE IF c = "quote" THEN [kind |-> "string", end |-> i + 1]
        ELSE IF c = "bs" THEN StringFrom(t, IF escaped > i THEN escaped ELSE One(t, i + 1, {"nl"}))
        ELSE StringFrom(t, i + 1)
ConsumeString(t, i) == StringFrom(t, i + 1)

\* Where an unquoted URL stops; it is one if that is the end or a ")".
RECURSIVE UnquotedEnd(_, _)
UnquotedEnd(t, i) ==
    LET c == At(t, i)
        j == IF c \in {"quote", "(", "sp", "nl", "c", ")", ""} THEN i
             ELSE IF c = "bs" THEN ConsumeEscape(t, i) ELSE i + 1
    IN  IF j = i THEN i ELSE UnquotedEnd(t, j)

RECURSIVE ConsumeRemnantsBadURL(_, _)
ConsumeRemnantsBadURL(t, i) ==
    LET escaped == ConsumeEscape(t, i)
    IN  IF At(t, i) = ")" THEN i + 1
        ELSE IF i > Len(t) THEN i
        ELSE ConsumeRemnantsBadURL(t, IF escaped > i THEN escaped ELSE i + 1)

BadURL(t, i) == [kind |-> "badurl", end |-> ConsumeRemnantsBadURL(t, i)]
CloseURL(t, j) ==
    IF At(t, j) = ")" THEN [kind |-> "url", end |-> j + 1]
    ELSE IF j > Len(t) THEN [kind |-> "url", end |-> j]
    ELSE BadURL(t, j)
\* The quoted or unquoted part ended at end, good or not.
URLRest(t, ok, end) == IF ok THEN CloseURL(t, While(t, end, Space)) ELSE BadURL(t, end)
QuotedURL(t, s) == URLRest(t, s.kind = "string", s.end)
UnquotedURL(t, j) == URLRest(t, At(t, j) \in {")", ""} \cup Space, j)
ConsumeURL(t, start) ==
    IF At(t, start) = "quote" THEN QuotedURL(t, ConsumeString(t, start))
    ELSE UnquotedURL(t, UnquotedEnd(t, start))

\* isURLName compares the name without its backslashes.
IsURLName(name) == SelectSeq(name, LAMBDA c : c # "bs") = <<"u", "r", "l">>

Identlike(t, i, j) ==
    IF j = i THEN [kind |-> "error", end |-> i]
    ELSE IF At(t, j) # "(" THEN [kind |-> "ident", end |-> j]
    ELSE IF IsURLName(SubSeq(t, i, j - 1)) THEN ConsumeURL(t, While(t, j + 1, Space))
    ELSE [kind |-> "function", end |-> j + 1]
ConsumeIdentlike(t, i) == Identlike(t, i, ConsumeIdentToken(t, i))

Unit(j, end) == [kind |-> IF end > j THEN "dimension" ELSE "number", end |-> end]
Numeric(t, i, j) ==
    IF j = i THEN [kind |-> "error", end |-> i]
    ELSE IF At(t, j) = "%" THEN [kind |-> "percentage", end |-> j + 1]
    ELSE Unit(j, ConsumeIdentToken(t, j))
ConsumeNumeric(t, i) == Numeric(t, i, ConsumeNumberToken(t, i))

-----------------------------------------------------------------------------
(* Next                                                                    *)

Simple == {":", ";", ",", "(", ")", "[", "]", "{", "}"}
Or(token, other) == IF token.kind = "error" THEN other ELSE token
Spanning(kind, i, j) == [kind |-> IF j > i THEN kind ELSE "error", end |-> j]
Delim(i) == [kind |-> "delim", end |-> i + 1]

Dash(t, i) ==
    IF At(t, i + 1) = "-" /\ At(t, i + 2) = ">" THEN [kind |-> "cdc", end |-> i + 3]
    ELSE IF At(t, i + 1) = "-" THEN Spanning("custom", i, ConsumeIdentToken(t, i))
    ELSE Or(ConsumeIdentlike(t, i), ConsumeNumeric(t, i))

AtKeyword(i, j) == Spanning("atkeyword", i, IF j = i + 1 THEN i ELSE j)

Match(t, i) ==
    IF At(t, i + 1) = "=" THEN [kind |-> "match", end |-> i + 2]
    ELSE IF At(t, i) = "|" /\ At(t, i + 1) = "|" THEN [kind |-> "column", end |-> i + 2]
    ELSE [kind |-> "error", end |-> i]

CDO(t, i) ==
    IF [k \in 1..4 |-> At(t, i + k - 1)] = <<"<", "!", "-", "-">> THEN [kind |-> "cdo", end |-> i + 4]
    ELSE [kind |-> "error", end |-> i]

LexStarted(t, i, c) ==
    CASE c \in Space -> [kind |-> "space", end |-> While(t, i, Space)]
      [] c \in Simple -> [kind |-> c, end |-> i + 1]
      [] c = "#" -> Spanning("hash", i, ConsumeHashToken(t, i))
      [] c = "quote" -> ConsumeString(t, i)
      [] c \in {".", "+"} -> ConsumeNumeric(t, i)
      [] c = "-" -> Dash(t, i)
      [] c = "@" -> AtKeyword(i, ConsumeIdentToken(t, i + 1))
      [] c \in {"*", "|"} -> Match(t, i)
      [] c = "/" -> Spanning("comment", i, ConsumeComment(t, i))
      [] c = "<" -> CDO(t, i)
      [] c = "bs" -> ConsumeIdentlike(t, i)
      [] c = "u" -> Or(Spanning("range", i, ConsumeUnicodeRangeToken(t, i)), ConsumeIdentlike(t, i))
      [] OTHER -> Or(ConsumeNumeric(t, i), ConsumeIdentlike(t, i))

NextToken(t, i) == Or(LexStarted(t, i, At(t, i)), Delim(i))

Token(t, i, next) == [kind |-> next.kind, raw |-> SubSeq(t, i, next.end - 1)]

\* lexValue
RECURSIVE LexFrom(_, _, _)
LexMore(t, ts, token, i) == LexFrom(t, i + Len(token.raw), Append(ts, token))
LexFrom(t, i, ts) ==
    IF i > Len(t) THEN ts ELSE LexMore(t, ts, Token(t, i, NextToken(t, i)), i)
Lex(t) == LexFrom(t, 1, <<>>)

-----------------------------------------------------------------------------
(* A declaration's value                                                   *)

Blank(token) == token.kind \in {"space", "comment"}
Significant(ts) == SelectSeq(ts, LAMBDA token : ~Blank(token))
Kinds(ts) == [i \in 1..Len(ts) |-> IF ts[i].kind = "custom" THEN "ident" ELSE ts[i].kind]
TextOf(ts) == FoldLeft(LAMBDA acc, token : acc \o token.raw, <<>>, ts)
Trimmed(ts) ==
    LET kept == {i \in 1..Len(ts) : ~Blank(ts[i])}
        from == CHOOSE i \in kept : \A j \in kept : i <= j
        to == CHOOSE i \in kept : \A j \in kept : j <= i
    IN  IF kept = {} THEN <<>> ELSE SubSeq(ts, from, to)

\* appendCustomCommentSpace: the value of a custom property keeps a comment's width.
Widened(ts) ==
    [i \in 1..Len(ts) |-> IF ts[i].kind = "comment"
                          THEN [ts[i] EXCEPT !.raw = [k \in 1..Len(ts[i].raw) |-> "sp"]] ELSE ts[i]]

\* A comment of another value becomes one space.
Spaced(ts) ==
    [i \in 1..Len(ts) |-> IF ts[i].kind = "comment" THEN [kind |-> "space", raw |-> <<"sp">>] ELSE ts[i]]

\* cssUnescapeWithBudget: a run of hexadecimal digits is a letter or a control
\* character by its value; another escaped character is itself.
Decoded(run) == IF Len(run) > 2 \/ (Len(run) = 2 /\ run[1] # "1") THEN "g" ELSE "c"
RECURSIVE Unescape(_, _)
Unescape(raw, i) ==
    LET end == UpTo(raw, i + 1, HexDigits, LongestRange)
    IN  IF i > Len(raw) THEN <<>>
        ELSE IF raw[i] # "bs" \/ i = Len(raw) THEN <<raw[i]>> \o Unescape(raw, i + 1)
        ELSE IF raw[i + 1] = "nl" THEN Unescape(raw, i + 2)
        ELSE IF end > i + 1
        THEN <<Decoded(SubSeq(raw, i + 1, end - 1))>> \o Unescape(raw, One(raw, end, Space))
        ELSE <<raw[i + 1]>> \o Unescape(raw, i + 2)

\* The word of the closing "! important", here "g".
Important(ts, word) ==
    LET s == Significant(ts)
        n == Len(s)
    IN  /\ n > 1 /\ s[n].kind = "ident" /\ word[n] = <<"g">>
        /\ s[n - 1].kind = "delim" /\ s[n - 1].raw = <<"!">>
WithoutImportant(ts) ==
    LET marks == {i \in 1..Len(ts) : ts[i].raw = <<"!">> /\ ts[i].kind = "delim"}
        bang == CHOOSE i \in marks : \A j \in marks : j <= i
    IN  Trimmed(SubSeq(ts, 1, bang - 1))

Escaped(token) == "bs" \in {token.raw[k] : k \in 1..Len(token.raw)}
NeedsRetention(ts) == \E i \in 1..Len(ts) : Escaped(ts[i])

\* parseUnretainedCSSTokens
ParseUnretained(ts) ==
    LET s == Significant(ts)
        important == Important(ts, [i \in 1..Len(s) |-> s[i].raw])
    IN  [important |-> important,
         text |-> TextOf(Spaced(IF important THEN WithoutImportant(ts) ELSE Trimmed(ts)))]

\* parseDeclarationTokens: an identifier's escapes are decoded where the result
\* is still one token of the same class.
SameClass(token, decoded) ==
    Len(decoded) = 1 /\ (\/ decoded[1].kind = token.kind
                         \/ token.kind = "ident" /\ decoded[1].kind = "custom")
Safe(token) == SameClass(token, Lex(Unescape(token.raw, 1)))
Decodable(token) == token.kind \in {"ident", "function"} /\ Escaped(token)
Prepared(token) ==
    IF Decodable(token) /\ Safe(token) THEN [token EXCEPT !.raw = Unescape(token.raw, 1)] ELSE token
Declared(important, kept, prepared) ==
    [important |-> important, tokens |-> prepared, text |-> TextOf(prepared),
     unsafe |-> \E i \in 1..Len(kept) : Decodable(kept[i]) /\ prepared[i] = kept[i]]
PrepareAll(important, kept) == Declared(important, kept, [i \in 1..Len(kept) |-> Prepared(kept[i])])
ParseDeclarationTokens(ts) ==
    LET s == Significant(ts)
        important == Important(ts, [i \in 1..Len(s) |-> Unescape(s[i].raw, 1)])
    IN  PrepareAll(important, Spaced(IF important THEN WithoutImportant(ts) ELSE Trimmed(ts)))

-----------------------------------------------------------------------------
LexerInit == alphabet \in Alphabets /\ pieces = 0 /\ text = <<>> /\ pos = 0 /\ produced = <<>>

Write ==
    /\ pos = 0 /\ pieces < MaxText
    /\ \E p \in alphabet : text' = text \o p
    /\ pieces' = pieces + 1
    /\ UNCHANGED <<alphabet, pos, produced>>

\* The first call of Next ends the writing.
Next ==
    /\ text # <<>> /\ pos <= Len(text)
    /\ LET i == IF pos = 0 THEN 1 ELSE pos
       IN  \E token \in {Token(text, i, NextToken(text, i))} :
              /\ produced' = Append(produced, token)
              /\ pos' = i + Len(token.raw)
    /\ UNCHANGED <<alphabet, pieces, text>>

LexerNext == Write \/ Next

Lexed == pos = Len(text) + 1 /\ text # <<>>
Bad == \E i \in 1..Len(produced) : produced[i].kind \in {"badstring", "badurl"}

-----------------------------------------------------------------------------
(* Properties                                                              *)

\* The lexer's look-ahead and rewinding lose nothing: every token has at least
\* one character, none reaches past the end, and together they are the text.
TokensPartition ==
    /\ pos <= Len(text) + 1
    /\ \A i \in 1..Len(produced) : produced[i].raw # <<>>
    /\ pos > 0 => TextOf(produced) = SubSeq(text, 1, pos - 1)

\* A decoded backslash starts a new escape in the text kept.
BackslashDecoded(ts) == \E i \in 1..Len(ts) : Decodable(ts[i]) /\ Escaped(Prepared(ts[i]))
\* A token other than an identifier keeps its escapes, and a hexadecimal escape
\* takes the space a comment becomes.
EscapeKept(ts) == \E i \in 1..Len(ts) : ~Decodable(ts[i]) /\ Escaped(ts[i])

KeepsBoundaries(d) == ~d.unsafe => Kinds(Significant(Lex(d.text))) = Kinds(Significant(d.tokens))
SameValue(short, careful) == short.text = careful.text /\ short.important = careful.important

\* Rewriting comments as white space never joins the tokens around them: the
\* value kept for a custom property, and the text kept for another declaration
\* whose escapes could all be decoded, lex to the tokens of the source.
CommentsSeparate ==
    Lexed /\ ~Bad =>
       /\ Kinds(Significant(Lex(TextOf(Widened(produced))))) = Kinds(Significant(produced))
       /\ ~EscapeKept(produced) /\ ~BackslashDecoded(produced) =>
             KeepsBoundaries(ParseDeclarationTokens(produced))

\* What parseDeclarationTokens says of the space it writes for a comment: it is
\* there to "Keep tokens on either side of a comment from being accidentally
\* joined into a different token".
TokensKeptApart ==
    Lexed /\ ~Bad /\ ~BackslashDecoded(produced) => KeepsBoundaries(ParseDeclarationTokens(produced))

\* The short way taken for a value without escapes prepares what the careful
\* way does.
ShortWayAgrees ==
    Lexed /\ ~Bad /\ ~NeedsRetention(produced) =>
       SameValue(ParseUnretained(produced), ParseDeclarationTokens(produced))


=============================================================================
