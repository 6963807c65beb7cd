--------------------------- MODULE HtmlTokenizer ----------------------------
(***************************************************************************)
(* The HTML tokenizer (token.go) byte by byte.  A call of Next runs from   *)
(* one token to the next; z.st is the place in it that reads the next      *)
(* byte, "idle" between calls.  Every place handles a byte c, already      *)
(* consumed, or the end of input (c = Eof, z.err set).                     *)
(*                                                                         *)
(* Spans [s, e] index z.buf from 0 as in the code.  The reader delivers    *)
(* its input in pieces, at most one read each; a read moves the bytes of   *)
(* the current token to the front of the buffer and shifts every span.     *)
(* Letters have no case, white space is "_", names are shortened           *)
(* (Spelling, Doctype, CData).                                             *)
(***************************************************************************)
EXTENDS Integers, Sequences, SequencesExt, TokenRules

CONSTANTS
    Pieces,                \* what one read may find: sets of byte sequences
    MaxPieces,             \* bound: pieces before the end of input
    InitialCap,            \* the capacity of a new buffer (4096)
    MaxAttributesPerTag,   \* maxAttributesPerTag (4096)
    MaxDocumentAttributes, \* maxDocumentAttributes (65536)
    Spelling,              \* the letters of the names in RawTags
    Doctype, CData         \* the letters of DOCTYPE and [CDATA[

VARIABLES
    z,          \* the Tokenizer
    sent,       \* ghost: the input read so far
    base,       \* ghost: how much of it has left the buffer
    reader,     \* the input: pieces to come, and the rest of the last one
    taken,      \* ghost: how much of the input the returned tokens hold
    raw, token  \* ghost: what TokenStream sees

tokenizerVars == <<z, sent, base, reader, taken, raw, token>>

Eof == "eof"
Letters == {"s", "c", "t", "d", "y", "a"}
Space == {"_"}
Ends == Space \cup {"/", ">"}
NoToken == [type |-> "none", tag |-> ""]
Span(s, e) == [s |-> s, e |-> e]

NewTokenizer ==
    [st |-> "idle", tt |-> "none", err |-> "nil", readErr |-> "nil",
     raw |-> Span(0, 0), data |-> Span(0, 0), key |-> Span(0, 0), val |-> Span(0, 0),
     attr |-> <<>>, save |-> FALSE, count |-> 0, total |-> 0,
     buf |-> <<>>, cap |-> InitialCap, rawTag |-> <<>>, allowCDATA |-> FALSE,
     i |-> 0, n |-> 0, mark |-> "", back |-> ""]

TokenizerInit ==
    /\ z = NewTokenizer /\ sent = <<>> /\ base = 0 /\ taken = 0
    /\ reader \in [of : Pieces, left : {MaxPieces}, rest : {<<>>}]
    /\ raw = NotRaw /\ token = NoToken

At(q, st) == [q EXCEPT !.st = st]
Unread(q) == [q EXCEPT !.raw.e = @ - 1]
Return(q, tt) == [q EXCEPT !.st = "idle", !.tt = tt]
DataTo(q, e) == [q EXCEPT !.data.e = e]
Text(q, sp) == SubSeq(q.buf, sp.s + 1, sp.e)
IsRaw(w) == w # <<>> /\ w \in Range(Spelling)
NameOf(w) == IF IsRaw(w) THEN CHOOSE t \in DOMAIN Spelling : Spelling[t] = w ELSE "other"

-----------------------------------------------------------------------------
\* Text, and the '<' that may open a token

EndOfText(q) ==
    IF q.raw.s < q.raw.e THEN Return(DataTo(q, q.raw.e), "text") ELSE Return(q, "error")

ReadText(q, c) ==
    IF c = Eof THEN EndOfText(q) ELSE At(q, IF c = "<" THEN "lt" ELSE "text")

\* readUntilCloseAngle for a token of type tt.
Angle(q, tt) == [q EXCEPT !.data.s = q.raw.e, !.mark = tt, !.st = "angle"]
ReadAngle(q, c) ==
    IF c = Eof THEN Return(DataTo(q, q.raw.e), q.mark)
    ELSE IF c = ">" THEN Return(DataTo(q, q.raw.e - 1), q.mark) ELSE q

\* readTag, from the first letter of the name.
TagNameFrom(q, save) ==
    [q EXCEPT !.attr = <<>>, !.count = 0, !.save = save, !.data.s = q.raw.e - 1,
              !.st = "tagName"]

Open(q, c) ==
    CASE c \in Letters -> TagNameFrom(q, TRUE)
      [] c = "/" -> At(q, "endOpen")
      [] c = "!" -> [q EXCEPT !.data.s = q.raw.e, !.st = "decl"]
      [] c = "?" -> Angle(Unread(q), "comment")

\* Text before a token is returned first.
ReadLt(q, c) ==
    IF c = Eof THEN EndOfText(q)
    ELSE IF c \notin Letters \cup {"/", "!", "?"} THEN At(Unread(q), "text")
    ELSE IF q.raw.s < q.raw.e - 2
    THEN Return([q EXCEPT !.raw.e = @ - 2, !.data.e = q.raw.e - 2], "text")
    ELSE Open(q, c)

ReadEndOpen(q, c) ==
    CASE c = Eof -> EndOfText(q)
      [] c = ">" -> Return(q, "comment")
      [] c \in Letters -> TagNameFrom(q, FALSE)
      [] OTHER -> Angle(Unread(q), "comment")

-----------------------------------------------------------------------------
\* Tags

\* readStartTag after readTag: the raw-text flag and the self-closing slash.
TagDone(q) ==
    IF q.err # "nil" THEN Return(q, "error")
    ELSE IF ~q.save THEN Return(q, "end")
    ELSE Return([q EXCEPT !.rawTag = IF IsRaw(Text(q, q.data)) THEN Text(q, q.data) ELSE @],
                IF /\ q.buf[q.raw.e - 1] = "/"
                   /\ q.attr = <<>> \/ q.raw.e - 2 # Last(q.attr).val.e - 1
                THEN "selfClosing" ELSE "start")

ReadTagName(q, c) ==
    CASE c = Eof -> TagDone(DataTo(q, q.raw.e))
      [] c \in Space -> At(DataTo(q, q.raw.e - 1), "beforeAttr")
      [] c \in {"/", ">"} -> At(DataTo(Unread(q), q.raw.e - 1), "beforeAttr")
      [] OTHER -> q

ReadBeforeAttr(q, c) ==
    CASE c \in {Eof, ">"} -> TagDone(q)
      [] c \in Space -> q
      [] OTHER -> [Unread(q) EXCEPT !.key.s = q.raw.e - 1, !.st = "attrKey"]

ReadAttrKey(q, c) ==
    CASE c = Eof -> TagDone(q)
      [] c = "=" /\ q.key.s + 1 = q.raw.e -> q
      [] c \in Ends \cup {"="} ->
           [Unread(q) EXCEPT !.key.e = q.raw.e - 1,
                             !.val = Span(q.raw.e - 1, q.raw.e - 1), !.st = "afterKey"]
      [] OTHER -> q

\* The limits, and the attribute is saved unless its key is empty or known.
AttrDone(q) ==
    LET known == {Text(q, q.attr[k].key) : k \in DOMAIN q.attr}
        r == [q EXCEPT !.count = @ + 1, !.total = @ + 1, !.st = "beforeAttr"]
    IN  IF q.count >= MaxAttributesPerTag \/ q.total >= MaxDocumentAttributes
        THEN TagDone([q EXCEPT !.err = "limit"])
        ELSE IF q.save /\ q.key.s # q.key.e /\ Text(q, q.key) \notin known
        THEN [r EXCEPT !.attr = Append(@, [key |-> q.key, val |-> q.val])] ELSE r

ReadAfterKey(q, c) ==
    CASE c = Eof -> TagDone(q)
      [] c \in Space -> q
      [] c = "/" -> AttrDone(q)
      [] c = "=" -> At(q, "beforeVal")
      [] OTHER -> AttrDone(Unread(q))

ReadBeforeVal(q, c) ==
    CASE c = Eof -> TagDone(q)
      [] c \in Space -> q
      [] c = ">" -> AttrDone(Unread(q))
      [] c = "'" -> [q EXCEPT !.val.s = q.raw.e, !.st = "quoted"]
      [] OTHER -> [q EXCEPT !.val.s = q.raw.e - 1, !.st = "unquoted"]

ReadQuoted(q, c) ==
    CASE c = Eof -> TagDone(q)
      [] c = "'" -> AttrDone([q EXCEPT !.val.e = q.raw.e - 1])
      [] OTHER -> q

ReadUnquoted(q, c) ==
    CASE c = Eof -> TagDone(q)
      [] c \in Space -> AttrDone([q EXCEPT !.val.e = q.raw.e - 1])
      [] c = ">" -> AttrDone([Unread(q) EXCEPT !.val.e = q.raw.e - 1])
      [] OTHER -> q

-----------------------------------------------------------------------------
\* Markup declarations

ReadDecl(q, c) ==
    CASE c = Eof -> Return(DataTo(q, q.raw.e), "comment")
      [] OTHER -> [q EXCEPT !.mark = c, !.st = "decl2"]

CommentFrom(q) == [q EXCEPT !.data.s = q.raw.e, !.n = 0, !.mark = "beginning", !.st = "comment"]

ReadDecl2(q, c) ==
    IF c = Eof THEN Return(DataTo(q, IF q.mark = ">" THEN q.raw.e - 1 ELSE q.raw.e), "comment")
    ELSE IF c = "-" /\ q.mark = "-" THEN CommentFrom(q)
    ELSE [q EXCEPT !.raw.e = @ - 2, !.i = 1, !.st = "doctype"]

\* The end of a comment cut short by the end of input.
AbruptEnd(q) ==
    LET data == SubSeq(Text(q, q.raw), 5, Len(Text(q, q.raw)))
        tails == {<<"-", "-", "!">>, <<"-", "-">>, <<"-">>}
        cut == {Len(t) : t \in {u \in tails : IsSuffix(u, data)}}
    IN  q.raw.e - (IF cut = {} THEN 0 ELSE CHOOSE k \in cut : \A j \in cut : j <= k)

CommentEnd(q, e) == Return(DataTo(q, IF e < q.data.s THEN q.data.s ELSE e), "comment")

CommentOn(q) == [q EXCEPT !.n = 0, !.mark = "", !.st = "comment"]

ReadComment(q, c) ==
    CASE c = Eof -> CommentEnd(q, AbruptEnd(q))
      [] c = "-" -> [q EXCEPT !.n = @ + 1]
      [] c = ">" /\ (q.n >= 2 \/ q.mark = "beginning") -> CommentEnd(q, q.raw.e - 3)
      [] c = "!" /\ q.n >= 2 -> At(q, "commentBang")
      [] OTHER -> CommentOn(q)

ReadCommentBang(q, c) ==
    CASE c = Eof -> CommentEnd(q, AbruptEnd(q))
      [] c = ">" -> CommentEnd(q, q.raw.e - 4)
      [] c = "-" -> [CommentOn(q) EXCEPT !.n = 1]
      [] OTHER -> CommentOn(q)

\* readDoctype and readCDATA give their bytes back when the word does not
\* match; at the end of input they take the error back too.
GiveBack(q, c) ==
    IF c # Eof THEN [q EXCEPT !.raw.e = q.data.s]
    ELSE IF q.err = Eof THEN [q EXCEPT !.raw.e = q.data.s, !.err = "nil"]
    ELSE DataTo(q, q.raw.e)
NotDoctype(q) == IF q.allowCDATA THEN [q EXCEPT !.i = 1, !.st = "cdata"] ELSE Angle(q, "comment")

ReadDoctype(q, c) ==
    IF c # Doctype[q.i] THEN NotDoctype(GiveBack(q, c))
    ELSE IF q.i = Len(Doctype) THEN At(q, "doctypeSpace") ELSE [q EXCEPT !.i = @ + 1]

ReadDoctypeSpace(q, c) ==
    CASE c = Eof -> Return([q EXCEPT !.data = Span(q.raw.e, q.raw.e)], "doctype")
      [] c \in Space -> q
      [] OTHER -> Angle(Unread(q), "doctype")

ReadCData(q, c) ==
    IF c # CData[q.i] THEN Angle(GiveBack(q, c), "comment")
    ELSE IF q.i < Len(CData) THEN [q EXCEPT !.i = @ + 1]
    ELSE [q EXCEPT !.data.s = q.raw.e, !.n = 0, !.st = "cdataBody"]

ReadCDataBody(q, c) ==
    CASE c = Eof -> Return(DataTo(q, q.raw.e), "text")
      [] c = "]" -> [q EXCEPT !.n = @ + 1]
      [] c = ">" /\ q.n >= 2 -> Return(DataTo(q, q.raw.e - 3), "text")
      [] OTHER -> [q EXCEPT !.n = 0]

-----------------------------------------------------------------------------
\* Raw text

\* An empty raw text is no token: Next goes on with the markup behind it.
RawDone(q) ==
    LET r == [DataTo(q, q.raw.e) EXCEPT !.rawTag = IF q.st = "plaintext" THEN @ ELSE <<>>]
    IN  IF r.data.e > r.data.s THEN Return(r, "text") ELSE At(r, "text")

ReadPlaintext(q, c) == IF c = Eof THEN RawDone(q) ELSE q

RawEndFrom(q, back) == [q EXCEPT !.i = 1, !.back = back, !.st = "rawEnd"]

ReadRaw(q, c) ==
    CASE c = Eof -> RawDone(q)
      [] OTHER -> At(q, IF c = "<" THEN "rawLt" ELSE "raw")
ReadRawLt(q, c) ==
    CASE c = Eof -> RawDone(q)
      [] c = "/" -> RawEndFrom(q, "raw")
      [] OTHER -> At(Unread(q), "raw")

\* Mutant of ReadRawEnd: a longer name that starts with the tag's ends it too.
ReadRawEndLoose(q, c) ==
    LET len == Len(q.rawTag)
    IN  CASE c = Eof -> RawDone(q)
          [] q.i <= len /\ c = q.rawTag[q.i] -> [q EXCEPT !.i = @ + 1]
          [] q.i > len -> IF q.back = "dbl" THEN At(q, "esc")
                          ELSE RawDone([q EXCEPT !.raw.e = @ - (3 + len)])
          [] OTHER -> At(Unread(q), q.back)

\* readRawEndTag; a hidden </script> only ends the double escape.
ReadRawEnd(q, c) ==
    LET len == Len(q.rawTag)
    IN  CASE c = Eof -> RawDone(q)
          [] q.i <= len /\ c = q.rawTag[q.i] -> [q EXCEPT !.i = @ + 1]
          [] q.i > len /\ c \in Ends ->
               IF q.back = "dbl" THEN At(q, "esc")
               ELSE RawDone([q EXCEPT !.raw.e = @ - (3 + len)])
          [] OTHER -> At(Unread(q), q.back)

\* readScript: where each place goes on the bytes it tells apart, and
\* whether it goes on anywhere else with the byte given back.
ScriptSteps ==
    [script      |-> [on |-> [x \in {"<"} |-> "scriptLt"], else |-> "script", back |-> FALSE],
     scriptLt    |-> [on |-> [x \in {"!"} |-> "escStart"], else |-> "script", back |-> TRUE],
     escStart    |-> [on |-> [x \in {"-"} |-> "escStartDash"], else |-> "script", back |-> TRUE],
     escStartDash |-> [on |-> [x \in {"-"} |-> "escDashDash"], else |-> "script", back |-> TRUE],
     esc         |-> [on |-> [x \in {"-", "<"} |-> IF x = "-" THEN "escDash" ELSE "escLt"],
                      else |-> "esc", back |-> FALSE],
     escDash     |-> [on |-> [x \in {"-", "<"} |-> IF x = "-" THEN "escDashDash" ELSE "escLt"],
                      else |-> "esc", back |-> FALSE],
     escDashDash |-> [on |-> [x \in {"-", "<", ">"} |->
                               CASE x = "-" -> "escDashDash" [] x = "<" -> "escLt"
                                 [] x = ">" -> "script"],
                      else |-> "esc", back |-> FALSE],
     escLt       |-> [on |-> <<>>, else |-> "script", back |-> TRUE],
     dbl         |-> [on |-> [x \in {"-", "<"} |-> IF x = "-" THEN "dblDash" ELSE "dblLt"],
                      else |-> "dbl", back |-> FALSE],
     dblDash     |-> [on |-> [x \in {"-", "<"} |-> IF x = "-" THEN "dblDashDash" ELSE "dblLt"],
                      else |-> "dbl", back |-> FALSE],
     dblDashDash |-> [on |-> [x \in {"-", "<", ">"} |->
                               CASE x = "-" -> "dblDashDash" [] x = "<" -> "dblLt"
                                 [] x = ">" -> "script"],
                      else |-> "dbl", back |-> FALSE],
     dblLt       |-> [on |-> <<>>, else |-> "dbl", back |-> TRUE]]

ScriptPlaces == DOMAIN ScriptSteps
EndOpenPlace == [scriptLt |-> "script", escLt |-> "esc", dblLt |-> "dbl"]

ReadScript(q, c) ==
    LET step == ScriptSteps[q.st]
    IN  CASE c = Eof -> RawDone(q)
          [] c = "/" /\ q.st \in DOMAIN EndOpenPlace -> RawEndFrom(q, EndOpenPlace[q.st])
          [] c \in Letters /\ q.st = "escLt" -> [Unread(q) EXCEPT !.i = 1, !.st = "dblStart"]
          [] c \in DOMAIN step.on -> At(q, step.on[c])
          [] OTHER -> At(IF step.back THEN Unread(q) ELSE q, step.else)

ReadDoubleEscapeStart(q, c) ==
    LET word == Spelling["script"]
    IN  CASE c = Eof -> RawDone(q)
          [] q.i <= Len(word) /\ c = word[q.i] -> [q EXCEPT !.i = @ + 1]
          [] q.i > Len(word) /\ c \in Ends -> At(q, "dbl")
          [] OTHER -> At(Unread(q), "esc")

-----------------------------------------------------------------------------
\* The reader, and calls of Next

\* What TokenStream sees when a token is returned.
Seen(q) ==
    LET tag == IF q.tt \in {"start", "selfClosing", "end"} THEN NameOf(Text(q, q.data)) ELSE ""
    IN  [type |-> CASE q.tt = "selfClosing" -> "start" [] q.tt = "error" -> Eof [] OTHER -> q.tt,
         tag |-> tag]

Step(q) ==
    /\ z' = q
    /\ IF q.st = "idle"
       THEN /\ token' = Seen(q)
            /\ raw' = RawAfter(raw, Seen(q).type, Seen(q).tag)
            /\ taken' = IF q.tt = "error" THEN taken ELSE taken + q.raw.e - q.raw.s
       ELSE UNCHANGED <<raw, token, taken>>
    /\ UNCHANGED <<sent, base, reader>>

Reading == z.st # "idle"
Exhausted == z.raw.e >= Len(z.buf)

\* readByte with a byte in the buffer, or with the reader's error.
Byte(c) == Reading /\ IF Exhausted THEN z.readErr # "nil" /\ c = Eof ELSE c = z.buf[z.raw.e + 1]
Taken(c) == IF c = Eof THEN [z EXCEPT !.err = z.readErr] ELSE [z EXCEPT !.raw.e = @ + 1]

Place(st, Handled(_, _)) ==
    \E c \in {IF Exhausted THEN Eof ELSE z.buf[z.raw.e + 1]} :
        Byte(c) /\ z.st = st /\ Step(Handled(Taken(c), c))

Shift(sp, x) == Span(sp.s - x, sp.e - x)

\* readByte with an exhausted buffer: the current token moves to the front of
\* a buffer that has room, and one read fills the rest.
Grown(q, d) == IF 2 * d > q.cap THEN 2 * q.cap ELSE q.cap
\* Mutant of Refilled: the data and the attributes do not move with the buffer.
RefilledUnshifted(q, bytes, err) ==
    LET x == q.raw.s
        d == q.raw.e - q.raw.s
    IN  [q EXCEPT !.raw = Span(0, d), !.key = Shift(@, x), !.val = Shift(@, x),
                  !.buf = SubSeq(@, x + 1, q.raw.e) \o bytes,
                  !.cap = Grown(q, d), !.readErr = err]

Refilled(q, bytes, err) ==
    LET x == q.raw.s
        d == q.raw.e - q.raw.s
    IN  [q EXCEPT !.raw = Span(0, d), !.data = Shift(@, x), !.key = Shift(@, x),
                  !.val = Shift(@, x),
                  !.attr = <<>> \o [k \in DOMAIN q.attr |-> [key |-> Shift(q.attr[k].key, x),
                                                           val |-> Shift(q.attr[k].val, x)]],
                  !.buf = SubSeq(@, x + 1, q.raw.e) \o bytes, !.cap = Grown(q, d),
                  !.readErr = err]

Room == LET d == z.raw.e - z.raw.s IN Grown(z, d) - d

Refill ==
    /\ Reading /\ Exhausted /\ z.readErr = "nil"
    /\ base' = base + z.raw.s
    /\ \/ \E piece \in IF reader.rest # <<>> THEN {reader.rest}
                       ELSE IF reader.left > 0 THEN reader.of ELSE {},
             last \in {"nil", Eof} :
            LET n == IF Len(piece) < Room THEN Len(piece) ELSE Room
            IN  /\ z' = Refilled(z, SubSeq(piece, 1, n), last)
                /\ sent' = sent \o SubSeq(piece, 1, n)
                /\ reader' = [reader EXCEPT !.rest = SubSeq(piece, n + 1, Len(piece)),
                                !.left = IF reader.rest = <<>> THEN @ - 1 ELSE @]
       \/ \E err \in {Eof, "error"} :
            z' = Refilled(z, <<>>, err) /\ UNCHANGED <<sent, reader>>
    /\ UNCHANGED <<raw, token, taken>>

\* Next, after the tree builder has set AllowCDATA.
Started(q) ==
    [q EXCEPT !.raw.s = q.raw.e, !.data = Span(q.raw.e, q.raw.e),
              !.st = CASE q.rawTag = <<>> -> "text"
                       [] q.rawTag = Spelling["plaintext"] -> "plaintext"
                       [] q.rawTag = Spelling["script"] -> "script"
                       [] OTHER -> "raw"]
CallNext ==
    /\ z.st = "idle" /\ z.tt # "error"
    /\ \E allow \in BOOLEAN :
         Step(IF z.err # "nil"
              THEN Return([z EXCEPT !.raw.s = z.raw.e, !.data = Span(z.raw.e, z.raw.e)], "error")
              ELSE Started([z EXCEPT !.allowCDATA = allow]))

\* NextIsNotRawText
CallNotRaw ==
    /\ z.st = "idle" /\ raw.tag # "" /\ ~raw.text
    /\ z' = [z EXCEPT !.rawTag = <<>>] /\ raw' = NotRaw
    /\ UNCHANGED <<sent, base, reader, taken, token>>

TokenizerNext ==
    \/ CallNext
    \/ CallNotRaw
    \/ Refill
    \/ Place("text", ReadText)
    \/ Place("lt", ReadLt)
    \/ Place("endOpen", ReadEndOpen)
    \/ Place("angle", ReadAngle)
    \/ Place("tagName", ReadTagName)
    \/ Place("beforeAttr", ReadBeforeAttr)
    \/ Place("attrKey", ReadAttrKey)
    \/ Place("afterKey", ReadAfterKey)
    \/ Place("beforeVal", ReadBeforeVal)
    \/ Place("quoted", ReadQuoted)
    \/ Place("unquoted", ReadUnquoted)
    \/ Place("decl", ReadDecl)
    \/ Place("decl2", ReadDecl2)
    \/ Place("comment", ReadComment)
    \/ Place("commentBang", ReadCommentBang)
    \/ Place("doctype", ReadDoctype)
    \/ Place("doctypeSpace", ReadDoctypeSpace)
    \/ Place("cdata", ReadCData)
    \/ Place("cdataBody", ReadCDataBody)
    \/ Place("plaintext", ReadPlaintext)
    \/ Place("raw", ReadRaw)
    \/ Place("rawLt", ReadRawLt)
    \/ Place("rawEnd", ReadRawEnd)
    \/ Place("dblStart", ReadDoubleEscapeStart)
    \/ \E st \in ScriptPlaces : Place(st, ReadScript)

TokenizerReturned == z.tt = "error" /\ UNCHANGED tokenizerVars

-----------------------------------------------------------------------------
\* Properties

\* The buffer is the window of the input that is not consumed yet: no read
\* skips, repeats or overwrites a byte, and the tokens returned partition the
\* input ("no overlaps or gaps", Raw).
RawPartition ==
    /\ z.buf = SubSeq(sent, base + 1, Len(sent))
    /\ Len(z.buf) <= z.cap
    /\ taken = base + IF Reading \/ z.tt = "error" THEN z.raw.s ELSE z.raw.e

Within(sp, outer) == outer.s <= sp.s /\ sp.s <= sp.e /\ sp.e <= outer.e

\* The name a tag's bytes spell, and the data of a comment's.
TagOf(w) ==
    LET from == IF w[2] = "/" THEN 3 ELSE 2
        ends == {k \in from..Len(w) : w[k] \in Ends}
    IN  SubSeq(w, from, (CHOOSE k \in ends : \A j \in ends : k <= j) - 1)
Closings == {<<"-", "-", ">">>, <<"-", "-", "!", ">">>}
CommentOf(w) ==
    LET body == SubSeq(w, 5, Len(w))
        closes == {k \in 1..Len(body) :
                     \/ SubSeq(body, 1, k) \in {<<">">>, <<"-", ">">>}
                     \/ \E t \in Closings : IsSuffix(t, SubSeq(body, 1, k))}
        tails == IF closes = {} THEN {<<"-">>, <<"-", "-">>, <<"-", "-", "!">>} ELSE Closings
        ends == {j \in 0..Len(body) : SubSeq(body, j + 1, Len(body)) \in tails}
    IN  IF closes \notin {{}, {Len(body)}} THEN <<"unclosed">>
        ELSE IF body \in {<<">">>, <<"-", ">">>} THEN <<>>
        ELSE SubSeq(body, 1, IF ends = {} THEN Len(body)
                             ELSE CHOOSE j \in ends : \A i \in ends : j <= i)

\* What Token reads through the spans is what the token's bytes say, wherever
\* the reads cut them: the whole text, the tag's name, the data of a comment
\* up to its first closing, and attributes inside the tag with distinct
\* non-empty keys (no slice of a token panics).
TokensFaithful ==
    ~Reading /\ z.tt \notin {"none", "error"} =>
        LET w == Text(z, z.raw)
        IN  /\ Within(z.data, z.raw)
            /\ z.tt = "text" /\ ~IsPrefix(<<"<", "!">>, w) => z.data = z.raw
            /\ z.tt \in {"start", "selfClosing", "end"} => Text(z, z.data) = TagOf(w)
            /\ z.tt = "comment" /\ IsPrefix(<<"<", "!", "-", "-">>, w) =>
                 Text(z, z.data) = CommentOf(w)
            /\ z.tt \in {"start", "selfClosing"} => \A k \in DOMAIN z.attr :
                 /\ Within(z.attr[k].key, z.raw) /\ Within(z.attr[k].val, z.raw)
                 /\ z.attr[k].key.s < z.attr[k].key.e
                 /\ Range(Text(z, z.attr[k].key)) \cap Ends = {}
                 /\ \A j \in DOMAIN z.attr :
                      Text(z, z.attr[j].key) = Text(z, z.attr[k].key) => j = k

\* At the end of input everything has been returned but an unfinished tag: no
\* text of the message is dropped because of the markup around it.
OnlyTagsDropped ==
    z.tt = "error" /\ z.err = Eof /\ taken < Len(sent) =>
        \/ sent[taken + 1] = "<" /\ sent[taken + 2] \in Letters
        \/ /\ sent[taken + 1] = "<" /\ sent[taken + 2] = "/"
           /\ sent[taken + 3] \in Letters

Stream == INSTANCE TokenStream WITH
    TokenTypes <- {"text", "start", "end", "comment", "doctype", Eof},
    TagNames <- DOMAIN Spelling \cup {"", "other"}

\* The bytes become a stream of tokens the tree builder is written for: raw
\* text ends with its own end tag and nothing else.
ImplementsTokenStream == Stream!Spec

\* Next returns the bytes of the input as tokens, each once, in order and as they
\* were written (readByte, Raw, Token).
TokensSound == RawPartition /\ TokensFaithful /\ OnlyTagsDropped

=============================================================================
