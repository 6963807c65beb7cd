----------------------------- MODULE HtmlParser -----------------------------
(***************************************************************************)
(* The HTML tree builder (parse.go): one operator per insertion mode, from *)
(* the parser to the parser and whether the token was consumed, and one    *)
(* action per call parseCurrentToken makes.                                *)
(*                                                                         *)
(* p.toks is the token in hand and, below it, the tokens suspended in      *)
(* parseImpliedToken; a token's "then" says what the suspended mode does   *)
(* when the implied one is consumed: run again, or finish </p> ("p") or    *)
(* the implied <body> ("body").  Scripting is off and there is no context  *)
(* element, as in both callers.  p.raw is what the tokenizer must deliver  *)
(* next after a raw-text start tag.                                        *)
(***************************************************************************)
EXTENDS HtmlTree, TokenRules, FiniteSets

CONSTANTS
    Vocabularies, \* sets of tokens; a document is written in one of them
    RawTexts,     \* the texts that may stand inside a raw-text element
    MaxTokens     \* bound: for a vocabulary, the tokens read before the end of input

VARIABLES
    p,            \* the parser
    tokens,       \* the vocabulary of the document
    read          \* number of tokens read

vars == <<p, tokens, read>>

WhiteSpace == {"n"}
TextToken(data) == [type |-> "text", tag |-> "", attrs |-> {}, data |-> data, sc |-> FALSE]
EndToken(tag) == [type |-> "end", tag |-> tag, attrs |-> {}, data |-> <<>>, sc |-> FALSE]
EofToken == [type |-> "eof", tag |-> "", attrs |-> {}, data |-> <<>>, sc |-> FALSE]

Tok(q) == q.toks[1].tok
IsStart(q, tags) == Tok(q).type = "start" /\ Tok(q).tag \in tags
IsEnd(q, tags) == Tok(q).type = "end" /\ Tok(q).tag \in tags
Is(q, type) == Tok(q).type = type

\* What a mode returns: the parser, whether the token was consumed and, for a
\* mode that ends by calling another mode's handler, that mode.
Consumed(q) == [p |-> q, ok |-> TRUE, use |-> ""]
Again(q) == [p |-> q, ok |-> FALSE, use |-> ""]
Use(q, im) == [p |-> q, ok |-> FALSE, use |-> im]
IM(q, im) == [q EXCEPT !.im = im]
FramesetNotOK(q) == [q EXCEPT !.framesetOK = FALSE]
WithData(q, data) == [q EXCEPT !.toks[1].tok.data = data]
NextIsNotRawText(q) == [q EXCEPT !.raw = NotRaw]

\* parseImpliedToken: the mode in hand is suspended until the token is consumed.
Implied(q, type, tag, then) ==
    Again([q EXCEPT !.toks = <<[tok |-> [type |-> type, tag |-> tag, attrs |-> {},
                                        data |-> <<>>, sc |-> FALSE],
                               then |-> then]>> \o @])

AddElement(q) ==
    AddNew(q, NewNodeRecord("element", Tok(q).tag, Tok(q).attrs, <<>>, Len(q.toks) > 1))
Void(r) == IF r.status # "ok" THEN r ELSE [Pop(r) EXCEPT !.toks[1].tok.sc = FALSE]
AddVoid(q) == Void(AddElement(q))
AddFormattingElement(q) == AddFormatting(AddElement(q))
AddComment(q) == AddNew(q, NewNodeRecord("comment", "", {}, Tok(q).data, FALSE))
AddDocumentComment(q) ==
    LET r == NewNode(q, NewNodeRecord("comment", "", {}, Tok(q).data, FALSE))
    IN  IF r.status # "ok" THEN r ELSE AppendChild(r, Document, Newest(r))

\* setOriginalIM panics when a mode to return to is already set;
\* parseGenericRawTextElement overwrites it.
TextMode(q, strict) ==
    IF strict /\ q.originalIM # "nil" THEN Panic(q)
    ELSE [q EXCEPT !.originalIM = q.im, !.im = "text"]
RawTextElement(q) == TextMode(AddElement(q), FALSE)

Leading(s) == LET i == Highest({k \in DOMAIN s : \A j \in 1..k : s[j] \in WhiteSpace})
              IN  SubSeq(s, 1, i)
TrimLeft(s) == SubSeq(s, Len(Leading(s)) + 1, Len(s))
Blank(s) == TrimLeft(s) = <<>>
Without(s, c) == LET keep(x) == x # c IN SelectSeq(s, keep)
OnlySpace(s) == LET keep(x) == x \in WhiteSpace IN SelectSeq(s, keep)

\* The initial white space goes to the current node, the rest stays in hand.
TakeLeadingSpace(q) == WithData(AddText(q, Leading(Tok(q).data)), TrimLeft(Tok(q).data))

\* resetInsertionMode: the mode of the highest element that decides one.
ModeTags == {"td", "th", "tr", "tbody", "thead", "tfoot", "caption", "colgroup",
             "table", "template", "head", "body", "frameset", "html"}
ResetInsertionMode(q) ==
    LET i == Highest({k \in DOMAIN q.oe : /\ Tag(q, q.oe[k]) \in ModeTags
                                          /\ Tag(q, q.oe[k]) = "template" =>
                                                Ns(q, q.oe[k]) = ""})
        tag == Tag(q, q.oe[i])
    IN  IF q.oe = <<>> THEN q
        ELSE IF i = 0 THEN IM(q, "inBody")
        ELSE IM(q, CASE tag \in {"td", "th"} -> "inCell"
                     [] tag = "tr" -> "inRow"
                     [] tag \in {"tbody", "thead", "tfoot"} -> "inTableBody"
                     [] tag = "caption" -> "inCaption"
                     [] tag = "colgroup" -> "inColumnGroup"
                     [] tag = "table" -> "inTable"
                     [] tag = "template" ->
                          IF q.templateStack = <<>> THEN "nil" ELSE Last(q.templateStack)
                     [] tag = "head" -> "inHead"
                     [] tag = "body" -> "inBody"
                     [] tag = "frameset" -> "inFrameset"
                     [] tag = "html" -> IF q.head = Nil THEN "beforeHead" ELSE "afterHead")

-----------------------------------------------------------------------------
\* Insertion modes: before and in the head

HeadTags == {"base", "basefont", "bgsound", "link", "meta"}
HeadContent == HeadTags \cup {"noframes", "script", "style", "template", "title"}

\* inBodyIM for an <html> start tag, the one case inHeadIM hands back to it.
\* copyAttributes adds the attributes the element does not have yet.
CopyAttributes(q, n) == [q EXCEPT !.nodes[n].attrs = @ \cup Tok(q).attrs]
InBodyHtml(q) ==
    Consumed(IF OpenContains(q, "template") THEN q
             ELSE IF q.oe = <<>> THEN Panic(q) ELSE CopyAttributes(q, q.oe[1]))

InitialIM(q) ==
    LET r == NewNode(q, NewNodeRecord("doctype", "", {}, <<>>, FALSE))
    IN  CASE Is(q, "text") /\ Blank(Tok(q).data) -> Consumed(WithData(q, <<>>))
          [] Is(q, "comment") -> Consumed(AddDocumentComment(q))
          [] Is(q, "doctype") ->
               IF r.status # "ok" THEN Consumed(r)
               ELSE Consumed(IM([AppendChild(r, Document, Newest(r)) EXCEPT
                                   !.quirks = "quirks" \in Tok(q).attrs], "beforeHTML"))
          [] OTHER ->
               Again(IM([(IF Is(q, "text") THEN WithData(q, TrimLeft(Tok(q).data)) ELSE q)
                           EXCEPT !.quirks = TRUE], "beforeHTML"))

BeforeHTMLIM(q) ==
    CASE Is(q, "doctype") -> Consumed(q)
      [] Is(q, "text") /\ Blank(Tok(q).data) -> Consumed(q)
      [] IsStart(q, {"html"}) -> Consumed(IM(AddElement(q), "beforeHead"))
      [] Is(q, "end") /\ ~IsEnd(q, {"head", "body", "html", "br"}) -> Consumed(q)
      [] Is(q, "comment") -> Consumed(AddDocumentComment(q))
      [] OTHER -> Implied(IF Is(q, "text") THEN WithData(q, TrimLeft(Tok(q).data)) ELSE q,
                          "start", "html", "again")

BeforeHeadIM(q) ==
    LET r == AddElement(q)
    IN  CASE Is(q, "text") /\ Blank(Tok(q).data) -> Consumed(q)
          [] IsStart(q, {"head"}) -> Consumed(IM([r EXCEPT !.head = Top(r)], "inHead"))
          [] IsStart(q, {"html"}) -> InBodyHtml(q)
          [] Is(q, "end") /\ ~IsEnd(q, {"head", "body", "html", "br"}) -> Consumed(q)
          [] Is(q, "comment") -> Consumed(AddComment(q))
          [] Is(q, "doctype") -> Consumed(q)
          [] OTHER -> Implied(IF Is(q, "text") THEN WithData(q, TrimLeft(Tok(q).data)) ELSE q,
                              "start", "head", "again")

\* The </template> handling shared by inHeadIM and the end of input in
\* inTemplateIM.
CloseTemplate(q) ==
    LET r == GenerateImpliedEndTags(q, {})
        i == Highest({k \in DOMAIN r.oe : IsHtml(r, r.oe[k], {"template"})})
        c == ClearActiveFormattingElements(
                 IF i = 0 THEN r ELSE [r EXCEPT !.oe = Upto(@, i - 1)])
    IN  IF c.status # "ok" THEN c
        ELSE IF c.templateStack = <<>> THEN Panic(c)
        ELSE ResetInsertionMode([c EXCEPT !.templateStack = Front(@)])

OpenTemplate(q) ==
    IF \E i \in DOMAIN q.oe : Ns(q, q.oe[i]) # "" THEN IM(q, "ignore")
    ELSE [AddMarker(AddElement(q)) EXCEPT
            !.framesetOK = FALSE, !.im = "inTemplate",
            !.templateStack = Append(@, "inTemplate")]

InHeadIM(q) ==
    LET spaced == Is(q, "text") /\ Leading(Tok(q).data) # <<>>
        r == IF spaced THEN TakeLeadingSpace(q) ELSE q
    IN  CASE spaced /\ Tok(r).data = <<>> -> Consumed(r)
          [] IsStart(q, {"html"}) -> InBodyHtml(q)
          [] IsStart(q, HeadTags) -> Consumed(AddVoid(q))
          [] IsStart(q, {"noscript"}) ->
               Consumed(NextIsNotRawText(IM(AddElement(q), "inHeadNoscript")))
          [] IsStart(q, {"script", "title"}) -> Consumed(TextMode(AddElement(q), TRUE))
          [] IsStart(q, {"noframes", "style"}) -> Consumed(RawTextElement(q))
          [] IsStart(q, {"head"}) -> Consumed(q)
          [] IsStart(q, {"template"}) -> Consumed(OpenTemplate(q))
          [] IsEnd(q, {"head"}) -> Consumed(IM(Pop(q), "afterHead"))
          [] IsEnd(q, {"template"}) ->
               Consumed(IF OpenContains(q, "template") THEN CloseTemplate(q) ELSE q)
          [] Is(q, "end") /\ ~IsEnd(q, {"body", "html", "br"}) -> Consumed(q)
          [] Is(q, "comment") -> Consumed(AddComment(q))
          [] Is(q, "doctype") -> Consumed(q)
          [] OTHER -> Implied(r, "end", "head", "again")

InHeadNoscriptIM(q) ==
    LET r == Pop(q)
    IN  CASE Is(q, "doctype") -> Consumed(q)
          [] IsStart(q, {"html"}) -> InBodyHtml(q)
          [] IsStart(q, {"basefont", "bgsound", "link", "meta", "noframes", "style"}) ->
               Use(q, "inHead")
          [] IsStart(q, {"head"}) -> Consumed(q)
          [] IsStart(q, {"noscript"}) -> Consumed(NextIsNotRawText(q))
          [] Is(q, "end") /\ ~IsEnd(q, {"noscript", "br"}) -> Consumed(q)
          [] Is(q, "text") /\ Blank(Tok(q).data) -> Use(q, "inHead")
          [] Is(q, "comment") -> Use(q, "inHead")
          [] OTHER -> IF Tag(r, Top(r)) # "head" THEN Consumed(Panic(r))
                      ELSE IF Tok(q).tag = "noscript" THEN Consumed(IM(r, "inHead"))
                      ELSE Again(IM(r, "inHead"))

AfterHeadIM(q) ==
    LET spaced == Is(q, "text") /\ Leading(Tok(q).data) # <<>>
        r == IF spaced THEN TakeLeadingSpace(q) ELSE q
        h == InHeadIM(InsertOpenElement(q, q.head))
    IN  CASE spaced /\ Tok(r).data = <<>> -> Consumed(r)
          [] IsStart(q, {"html"}) -> InBodyHtml(q)
          [] IsStart(q, {"body"}) -> Consumed(IM(FramesetNotOK(AddElement(q)), "inBody"))
          [] IsStart(q, {"frameset"}) -> Consumed(IM(AddElement(q), "inFrameset"))
          [] IsStart(q, HeadContent) ->
               [h EXCEPT !.p.oe = RemoveNode(@, q.head)]
          [] IsStart(q, {"head"}) -> Consumed(q)
          [] IsEnd(q, {"template"}) -> Use(q, "inHead")
          [] Is(q, "end") /\ ~IsEnd(q, {"body", "html", "br"}) -> Consumed(q)
          [] Is(q, "comment") -> Consumed(AddComment(q))
          [] Is(q, "doctype") -> Consumed(q)
          [] OTHER -> Implied(r, "start", "body", "body")

-----------------------------------------------------------------------------
\* Insertion modes: in the body

Headings == {"h1", "h2", "h3", "h4", "h5", "h6"}
BlockTags == {"address", "article", "aside", "blockquote", "center", "details",
    "dialog", "dir", "div", "dl", "fieldset", "figcaption", "figure", "footer",
    "header", "hgroup", "main", "menu", "nav", "ol", "search", "section", "summary",
    "ul"}
FormattingTags == {"b", "big", "code", "em", "font", "i", "s", "small", "strike",
                   "strong", "tt", "u"}
TableTags == {"caption", "col", "colgroup", "tbody", "td", "tfoot", "th", "thead", "tr"}

CloseP(q) == PopUntil(q, "button", {"p"})
Reconstruct(q) == ReconstructActiveFormattingElements(q)

\* A newline that opens a pre, listing or textarea is dropped.
DropNewline(q, tags) ==
    LET n == Current(q)
        d == Tok(q).data
    IN  IF /\ Tag(q, n) \in tags /\ q.nodes[n].kids = <<>>
           /\ d # <<>> /\ d[1] = "n"
        THEN Tail(d) ELSE d

InBodyText(q) ==
    LET d == Without(DropNewline(q, {"pre", "listing"}), "0")
        r == AddText(Reconstruct(q), d)
    IN  IF q.oe = <<>> THEN Panic(q)
        ELSE IF d = <<>> THEN q
        ELSE IF Blank(d) THEN r ELSE FramesetNotOK(r)

InBodyBody(q) ==
    IF OpenContains(q, "template") THEN q
    ELSE IF Len(q.oe) >= 2 /\ Tag(q, q.oe[2]) = "body"
    THEN FramesetNotOK(CopyAttributes(q, q.oe[2])) ELSE q

InBodyFrameset(q) ==
    LET r == Detach(q, q.oe[2])
    IN  IF ~q.framesetOK \/ Len(q.oe) < 2 THEN q
        ELSE IF Tag(q, q.oe[2]) # "body" THEN q
        ELSE IM(AddElement([r EXCEPT !.oe = Upto(@, 1)]), "inFrameset")

InBodyForm(q) ==
    LET r == AddElement(CloseP(q))
    IN  IF q.form # Nil /\ ~OpenContains(q, "template") THEN q
        ELSE IF OpenContains(r, "template") THEN r ELSE [r EXCEPT !.form = Top(r)]

\* <li>, <dd> and <dt> close an open one, unless a special element other than
\* address, div or p stands above it.
InBodyItem(q, tags) ==
    LET stops == {k \in DOMAIN q.oe :
                    \/ Tag(q, q.oe[k]) \in tags
                    \/ /\ IsSpecialElement(q, q.oe[k])
                       /\ Tag(q, q.oe[k]) \notin {"address", "div", "p"}}
        i == Highest(stops)
        r == IF i # 0 /\ Tag(q, q.oe[i]) \in tags THEN [q EXCEPT !.oe = Upto(@, i - 1)] ELSE q
    IN  AddElement(CloseP(FramesetNotOK(r)))

InBodyA(q) ==
    LET k == Highest({m \in (LastMarker(q) + 1)..Len(q.afe) : Tag(q, q.afe[m]) = "a"})
        n == q.afe[k]
        r == InBodyEndTagFormatting(q, "a")
        closed == [r EXCEPT !.oe = RemoveNode(@, n), !.afe = RemoveNode(@, n)]
    IN  AddFormattingElement(Reconstruct(IF k = 0 THEN q ELSE closed))

InBodyNobr(q) ==
    LET r == Reconstruct(q)
    IN  AddFormattingElement(IF ElementInScope(r, "default", {"nobr"})
                             THEN Reconstruct(InBodyEndTagFormatting(r, "nobr")) ELSE r)

InBodyButton(q) ==
    LET r == IF ElementInScope(q, "default", {"button"})
             THEN PopUntil(GenerateImpliedEndTags(q, {}), "default", {"button"}) ELSE q
    IN  FramesetNotOK(AddElement(Reconstruct(r)))

InBodyInput(q) ==
    LET r == AddVoid(Reconstruct(PopUntil(q, "default", {"select"})))
    IN  IF "hidden" \in Tok(q).attrs THEN r ELSE FramesetNotOK(r)

InBodyHr(q) ==
    LET r == IF ElementInScope(q, "button", {"p"})
             THEN PopUntil(GenerateImpliedEndTags(q, {"p"}), "default", {"p"}) ELSE q
        c == IF ElementInScope(r, "default", {"select"}) THEN GenerateImpliedEndTags(r, {}) ELSE r
    IN  FramesetNotOK(AddVoid(c))

\* <option> and <optgroup> inside and outside a select.
InBodyOption(q, exceptions) ==
    LET r == IF ElementInScope(q, "default", {"select"})
             THEN GenerateImpliedEndTags(q, exceptions)
             ELSE IF Tag(q, Top(q)) = "option" THEN Pop(q) ELSE q
    IN  AddElement(Reconstruct(r))

InBodyRuby(q, exceptions) ==
    AddElement(IF ElementInScope(q, "default", {"ruby"})
               THEN GenerateImpliedEndTags(q, exceptions) ELSE q)

\* A foreign root; a self-closing one is closed at once.
CloseIfSelfClosing(q) ==
    IF Tok(q).sc THEN [Pop(q) EXCEPT !.toks[1].tok.sc = FALSE] ELSE q
ForeignRoot(r, ns) ==
    IF r.status # "ok" THEN r ELSE CloseIfSelfClosing([r EXCEPT !.nodes[Newest(r)].ns = ns])
InBodyForeign(q) == ForeignRoot(AddElement(Reconstruct(q)), Tok(q).tag)

InBodySelect(q) ==
    IF ElementInScope(q, "default", {"select"}) THEN PopUntil(q, "default", {"select"})
    ELSE FramesetNotOK(AddElement(Reconstruct(q)))

InBodyHeading(q) ==
    LET r == CloseP(q)
    IN  AddElement(IF Tag(r, Top(r)) \in Headings THEN Pop(r) ELSE r)

\* The rest of the start tags, from void elements to unknown names.
InBodyStartRest(q) ==
    CASE IsStart(q, {"area", "br", "embed", "img", "keygen", "wbr"}) ->
           Consumed(FramesetNotOK(AddVoid(Reconstruct(q))))
      [] IsStart(q, {"input"}) -> Consumed(InBodyInput(q))
      [] IsStart(q, {"param", "source", "track"}) -> Consumed(AddVoid(q))
      [] IsStart(q, {"hr"}) -> Consumed(InBodyHr(q))
      [] IsStart(q, {"image"}) -> Again([q EXCEPT !.toks[1].tok.tag = "img"])
      [] IsStart(q, {"textarea"}) -> Consumed(TextMode(FramesetNotOK(AddElement(q)), TRUE))
      [] IsStart(q, {"xmp"}) ->
           Consumed(RawTextElement(FramesetNotOK(Reconstruct(CloseP(q)))))
      [] IsStart(q, {"iframe"}) -> Consumed(RawTextElement(FramesetNotOK(q)))
      [] IsStart(q, {"noembed"}) -> Consumed(RawTextElement(q))
      [] IsStart(q, {"noscript"}) -> Consumed(NextIsNotRawText(AddElement(Reconstruct(q))))
      [] IsStart(q, {"select"}) -> Consumed(InBodySelect(q))
      [] IsStart(q, {"option"}) -> Consumed(InBodyOption(q, {"optgroup"}))
      [] IsStart(q, {"optgroup"}) -> Consumed(InBodyOption(q, {}))
      [] IsStart(q, {"rb", "rtc"}) -> Consumed(InBodyRuby(q, {}))
      [] IsStart(q, {"rp", "rt"}) -> Consumed(InBodyRuby(q, {"rtc"}))
      [] IsStart(q, {"math", "svg"}) -> Consumed(InBodyForeign(q))
      [] IsStart(q, TableTags \cup {"frame", "head"}) -> Consumed(q)
      [] OTHER -> Consumed(AddElement(Reconstruct(q)))

\* The start tags of inBodyIM; inHeadIM takes HeadContent.
InBodyStart(q) ==
    CASE IsStart(q, {"html"}) -> InBodyHtml(q)
      [] IsStart(q, HeadContent) -> Use(q, "inHead")
      [] IsStart(q, {"body"}) -> Consumed(InBodyBody(q))
      [] IsStart(q, {"frameset"}) -> Consumed(InBodyFrameset(q))
      [] IsStart(q, BlockTags \cup {"p", "plaintext"}) -> Consumed(AddElement(CloseP(q)))
      [] IsStart(q, Headings) -> Consumed(InBodyHeading(q))
      [] IsStart(q, {"pre", "listing"}) -> Consumed(FramesetNotOK(AddElement(CloseP(q))))
      [] IsStart(q, {"form"}) -> Consumed(InBodyForm(q))
      [] IsStart(q, {"li"}) -> Consumed(InBodyItem(q, {"li"}))
      [] IsStart(q, {"dd", "dt"}) -> Consumed(InBodyItem(q, {"dd", "dt"}))
      [] IsStart(q, {"button"}) -> Consumed(InBodyButton(q))
      [] IsStart(q, {"a"}) -> Consumed(InBodyA(q))
      [] IsStart(q, FormattingTags) -> Consumed(AddFormattingElement(Reconstruct(q)))
      [] IsStart(q, {"nobr"}) -> Consumed(InBodyNobr(q))
      [] IsStart(q, {"applet", "marquee", "object"}) ->
           Consumed(FramesetNotOK(AddMarker(AddElement(Reconstruct(q)))))
      [] IsStart(q, {"table"}) ->
           Consumed(IM(FramesetNotOK(AddElement(IF q.quirks THEN q ELSE CloseP(q))), "inTable"))
      [] OTHER -> InBodyStartRest(q)

InBodyEndForm(q) ==
    LET i == IndexOfElementInScope(q, "default", {"form"})
        g == GenerateImpliedEndTags(q, {})
        f == [q EXCEPT !.form = Nil]
    IN  IF OpenContains(q, "template")
        THEN IF i = 0 THEN q
             ELSE IF Len(g.oe) < i THEN Panic(g)
             ELSE IF Tag(g, g.oe[i]) # "form" THEN g
             ELSE PopUntil(g, "default", {"form"})
        ELSE IF q.form = Nil \/ i = 0 THEN f
        ELSE IF q.oe[i] # q.form THEN f
        ELSE [GenerateImpliedEndTags(f, {}) EXCEPT !.oe = RemoveNode(@, q.form)]

\* The end tags of inBodyIM.
InBodyEnd(q) ==
    LET tag == {Tok(q).tag}
        closed == PopUntil(q, "default", tag)
    IN  CASE IsEnd(q, {"body"}) ->
               Consumed(IF ElementInScope(q, "default", {"body"}) THEN IM(q, "afterBody") ELSE q)
          [] IsEnd(q, {"html"}) ->
               IF ElementInScope(q, "default", {"body"})
               THEN Implied(q, "end", "body", "again") ELSE Consumed(q)
          [] IsEnd(q, BlockTags \cup {"button", "listing", "pre", "select"}) ->
               Consumed(IF ElementInScope(q, "default", tag)
                        THEN PopUntil(GenerateImpliedEndTags(q, {}), "default", tag) ELSE q)
          [] IsEnd(q, {"form"}) -> Consumed(InBodyEndForm(q))
          [] IsEnd(q, {"p"}) ->
               IF ElementInScope(q, "button", {"p"}) THEN Consumed(CloseP(q))
               ELSE Implied(q, "start", "p", "p")
          [] IsEnd(q, {"li"}) -> Consumed(PopUntil(q, "listItem", {"li"}))
          [] IsEnd(q, {"dd", "dt"}) -> Consumed(closed)
          [] IsEnd(q, Headings) -> Consumed(PopUntil(q, "default", Headings))
          [] IsEnd(q, FormattingTags \cup {"a", "nobr"}) ->
               Consumed(InBodyEndTagFormatting(q, Tok(q).tag))
          [] IsEnd(q, {"applet", "marquee", "object"}) ->
               Consumed(IF closed = q THEN q ELSE ClearActiveFormattingElements(closed))
          [] IsEnd(q, {"br"}) -> Again([q EXCEPT !.toks[1].tok.type = "start"])
          [] IsEnd(q, {"template"}) -> Use(q, "inHead")
          [] OTHER -> Consumed(InBodyEndTagOther(q, Tok(q).tag))

InBodyIM(q) ==
    CASE Is(q, "text") -> Consumed(InBodyText(q))
      [] Is(q, "start") -> InBodyStart(q)
      [] Is(q, "end") -> InBodyEnd(q)
      [] Is(q, "comment") -> Consumed(AddComment(q))
      [] Is(q, "eof") /\ q.templateStack # <<>> -> Again(IM(q, "inTemplate"))
      [] OTHER -> Consumed(q)

TextIM(q) ==
    LET d == DropNewline(q, {"textarea"})
        r == IF Is(q, "eof") \/ Is(q, "end") THEN Pop(q) ELSE q
    IN  IF Is(q, "text") THEN Consumed(IF q.oe = <<>> THEN Panic(q) ELSE AddText(q, d))
        ELSE [p |-> [r EXCEPT !.im = q.originalIM, !.originalIM = "nil"],
              ok |-> Is(q, "end"), use |-> ""]

-----------------------------------------------------------------------------
\* Insertion modes: tables and templates

\* inBodyIM with foster parenting, for what does not belong in a table.
InTableOther(q) ==
    Use([q EXCEPT !.foster = TRUE], "inBody")

CloseTable(q) == ResetInsertionMode(PopUntil(q, "table", {"table"}))

InTableIM(q) ==
    LET d == Without(Tok(q).data, "0")
        c == ClearStackToContext(q, "table")
        form == AddElement(q)
        hasTable == ElementInScope(q, "table", {"table"})
    IN  CASE Is(q, "text") ->
               IF q.oe = <<>> THEN Consumed(Panic(q))
               ELSE IF Tag(q, Current(q)) \in TableParts /\ Blank(d)
               THEN Consumed(AddText(q, d)) ELSE InTableOther(WithData(q, d))
          [] IsStart(q, {"caption"}) -> Consumed(IM(AddElement(AddMarker(c)), "inCaption"))
          [] IsStart(q, {"colgroup"}) -> Consumed(IM(AddElement(c), "inColumnGroup"))
          [] IsStart(q, {"col"}) -> Implied(q, "start", "colgroup", "again")
          [] IsStart(q, {"tbody", "tfoot", "thead"}) -> Consumed(IM(AddElement(c), "inTableBody"))
          [] IsStart(q, {"td", "th", "tr"}) -> Implied(q, "start", "tbody", "again")
          [] IsStart(q, {"table"}) -> IF hasTable THEN Again(CloseTable(q)) ELSE Consumed(q)
          [] IsStart(q, {"style", "script", "template"}) -> Use(q, "inHead")
          [] IsStart(q, {"input"}) /\ "hidden" \in Tok(q).attrs -> Consumed(AddVoid(q))
          [] IsStart(q, {"form"}) ->
               IF OpenContains(q, "template") \/ q.form # Nil THEN Consumed(q)
               ELSE IF form.status # "ok" THEN Consumed(form)
               ELSE InTableOther([Pop(form) EXCEPT !.form = Top(form)])
          [] IsEnd(q, {"table"}) -> Consumed(IF hasTable THEN CloseTable(q) ELSE q)
          [] IsEnd(q, TableTags \cup {"body", "html"}) -> Consumed(q)
          [] IsEnd(q, {"template"}) -> Use(q, "inHead")
          [] Is(q, "comment") -> Consumed(AddComment(q))
          [] Is(q, "doctype") -> Consumed(q)
          [] Is(q, "eof") -> Use(q, "inBody")
          [] OTHER -> InTableOther(q)

InCaptionIM(q) ==
    LET closed == IM(ClearActiveFormattingElements(PopUntil(q, "table", {"caption"})), "inTable")
        hasCaption == ElementInScope(q, "table", {"caption"})
    IN  CASE IsStart(q, TableTags \ {"th"}) \/ IsEnd(q, {"table"}) ->
               IF hasCaption THEN Again(closed) ELSE Consumed(q)
          [] IsEnd(q, {"caption"}) -> Consumed(IF hasCaption THEN closed ELSE q)
          [] IsEnd(q, TableTags \cup {"body", "html"}) -> Consumed(q)
          [] OTHER -> Use(q, "inBody")

InColumnGroupIM(q) ==
    LET spaced == Is(q, "text") /\ Leading(Tok(q).data) # <<>>
        r == IF spaced THEN TakeLeadingSpace(q) ELSE q
        isColgroup == Tag(q, Current(q)) = "colgroup"
    IN  CASE spaced /\ Tok(r).data = <<>> -> Consumed(r)
          [] Is(q, "comment") -> Consumed(AddComment(q))
          [] Is(q, "doctype") -> Consumed(q)
          [] IsStart(q, {"html"}) -> InBodyHtml(q)
          [] IsStart(q, {"col"}) -> Consumed(AddVoid(q))
          [] IsStart(q, {"template"}) \/ IsEnd(q, {"template"}) -> Use(q, "inHead")
          [] IsEnd(q, {"colgroup"}) -> Consumed(IF isColgroup THEN IM(Pop(q), "inTable") ELSE q)
          [] IsEnd(q, {"col"}) -> Consumed(q)
          [] Is(q, "eof") -> Use(q, "inBody")
          [] OTHER -> IF isColgroup THEN Again(IM(Pop(r), "inTable")) ELSE Consumed(r)

Sections == {"tbody", "thead", "tfoot"}

InTableBodyIM(q) ==
    LET hasSection == ElementInScope(q, "table", Sections)
        closed == IM(PopUntil(q, "table", Sections), "inTable")
    IN  CASE IsStart(q, {"tr"}) ->
               Consumed(IM(AddElement(ClearStackToContext(q, "tableBody")), "inRow"))
          [] IsStart(q, {"td", "th"}) -> Implied(q, "start", "tr", "again")
          [] IsStart(q, {"caption", "col", "colgroup"} \cup Sections) \/ IsEnd(q, {"table"}) ->
               IF hasSection THEN Again(closed) ELSE Consumed(q)
          [] IsEnd(q, Sections) ->
               Consumed(IF ElementInScope(q, "table", {Tok(q).tag})
                        THEN IM(Pop(ClearStackToContext(q, "tableBody")), "inTable") ELSE q)
          [] IsEnd(q, TableTags \cup {"body", "html"}) -> Consumed(q)
          [] Is(q, "comment") -> Consumed(AddComment(q))
          [] OTHER -> Use(q, "inTable")

InRowIM(q) ==
    LET hasRow == ElementInScope(q, "table", {"tr"})
        closed == IM(Pop(ClearStackToContext(q, "tableRow")), "inTableBody")
        cell == AddMarker(AddElement(ClearStackToContext(q, "tableRow")))
    IN  CASE IsStart(q, {"td", "th"}) -> Consumed(IM(cell, "inCell"))
          [] IsStart(q, TableTags) \/ IsEnd(q, {"table"}) ->
               IF hasRow THEN Again(closed) ELSE Consumed(q)
          [] IsEnd(q, {"tr"}) -> Consumed(IF hasRow THEN closed ELSE q)
          [] IsEnd(q, Sections) ->
               IF hasRow /\ ElementInScope(q, "table", {Tok(q).tag})
               THEN Again(closed) ELSE Consumed(q)
          [] IsEnd(q, TableTags \cup {"body", "html"}) -> Consumed(q)
          [] OTHER -> Use(q, "inTable")

InCellIM(q) ==
    LET closed(tags) ==
            LET r == PopUntil(q, "table", tags)
            IN  IM(IF r = q THEN q ELSE ClearActiveFormattingElements(r), "inRow")
        has(tags) == ElementInScope(q, "table", tags)
    IN  CASE IsStart(q, TableTags) ->
               IF has({"td", "th"}) THEN Again(closed({"td", "th"})) ELSE Consumed(q)
          [] IsEnd(q, {"td", "th"}) ->
               Consumed(IF has({Tok(q).tag}) THEN closed({Tok(q).tag}) ELSE q)
          [] IsEnd(q, {"body", "caption", "col", "colgroup", "html"}) -> Consumed(q)
          [] IsEnd(q, {"table", "tr"} \cup Sections) ->
               IF has({Tok(q).tag}) THEN Again(closed({"td", "th"})) ELSE Consumed(q)
          [] OTHER -> Use(q, "inBody")

\* The mode a template's first start tag switches it to.
TemplateMode(tag) ==
    CASE tag \in {"caption", "colgroup"} \cup Sections -> "inTable"
      [] tag = "col" -> "inColumnGroup"
      [] tag = "tr" -> "inTableBody"
      [] tag \in {"td", "th"} -> "inRow"
      [] OTHER -> "inBody"

InTemplateIM(q) ==
    LET mode == TemplateMode(Tok(q).tag)
    IN  CASE Tok(q).type \in {"text", "comment", "doctype"} -> Use(q, "inBody")
          [] IsStart(q, HeadContent) -> Use(q, "inHead")
          [] Is(q, "start") ->
               IF q.templateStack = <<>> THEN Consumed(Panic(q))
               ELSE Again(IM([q EXCEPT !.templateStack = Append(Front(@), mode)], mode))
          [] IsEnd(q, {"template"}) -> Use(q, "inHead")
          [] Is(q, "end") -> Consumed(q)
          [] Is(q, "eof") ->
               IF OpenContains(q, "template") THEN Again(CloseTemplate(q)) ELSE Consumed(q)

-----------------------------------------------------------------------------
\* Insertion modes: after the body, framesets, foreign content

AfterBodyIM(q) ==
    LET r == NewNode(q, NewNodeRecord("comment", "", {}, Tok(q).data, FALSE))
    IN  CASE Is(q, "eof") -> Consumed(q)
          [] Is(q, "text") /\ Blank(Tok(q).data) -> Use(q, "inBody")
          [] IsStart(q, {"html"}) -> InBodyHtml(q)
          [] IsEnd(q, {"html"}) -> Consumed(IF q.fragment THEN q ELSE IM(q, "afterAfterBody"))
          [] Is(q, "comment") ->
               Consumed(IF q.oe = <<>> THEN Panic(q)
                        ELSE IF Tag(q, q.oe[1]) # "html" THEN Panic(q)
                        ELSE IF r.status # "ok" THEN r
                        ELSE AppendChild(r, q.oe[1], Newest(r)))
          [] OTHER -> Again(IM(q, "inBody"))

InFramesetIM(q) ==
    LET r == Pop(q)
    IN  CASE Is(q, "comment") -> Consumed(AddComment(q))
          [] Is(q, "text") -> Consumed(AddText(q, OnlySpace(Tok(q).data)))
          [] IsStart(q, {"html"}) -> InBodyHtml(q)
          [] IsStart(q, {"frameset"}) -> Consumed(AddElement(q))
          [] IsStart(q, {"frame"}) -> Consumed(AddVoid(q))
          [] IsStart(q, {"noframes"}) -> Use(q, "inHead")
          [] IsEnd(q, {"frameset"}) ->
               Consumed(IF Tag(q, Current(q)) = "html" THEN q
                        ELSE IF Tag(r, Current(r)) # "frameset" THEN IM(r, "afterFrameset")
                        ELSE r)
          [] OTHER -> Consumed(q)

AfterFramesetIM(q) ==
    CASE Is(q, "comment") -> Consumed(AddComment(q))
      [] Is(q, "text") -> Consumed(AddText(q, OnlySpace(Tok(q).data)))
      [] IsStart(q, {"html"}) -> InBodyHtml(q)
      [] IsStart(q, {"noframes"}) -> Use(q, "inHead")
      [] IsEnd(q, {"html"}) -> Consumed(IM(q, "afterAfterFrameset"))
      [] OTHER -> Consumed(q)

AfterAfterBodyIM(q) ==
    CASE Is(q, "eof") -> Consumed(q)
      [] Is(q, "text") /\ Blank(Tok(q).data) -> Use(q, "inBody")
      [] IsStart(q, {"html"}) -> InBodyHtml(q)
      [] Is(q, "comment") -> Consumed(AddDocumentComment(q))
      [] Is(q, "doctype") -> Use(q, "inBody")
      [] OTHER -> Again(IM(q, "inBody"))

AfterAfterFramesetIM(q) ==
    CASE Is(q, "comment") -> Consumed(AddDocumentComment(q))
      [] Is(q, "text") /\ OnlySpace(Tok(q).data) # <<>> ->
           Use(WithData(q, OnlySpace(Tok(q).data)), "inBody")
      [] IsStart(q, {"html"}) -> InBodyHtml(q)
      [] IsStart(q, {"noframes"}) -> Use(q, "inHead")
      [] Is(q, "doctype") -> Use(q, "inBody")
      [] OTHER -> Consumed(q)

IgnoreTheRemainingTokens(q) == Consumed(q)

MathTextIntegrationPoint(q, n) ==
    Ns(q, n) = "math" /\ Tag(q, n) \in {"mi", "mo", "mn", "ms", "mtext"}
HtmlIntegrationPoint(q, n) ==
    \/ /\ Ns(q, n) = "math" /\ Tag(q, n) = "annotation-xml"
       /\ "encoding" \in q.nodes[n].attrs
    \/ Ns(q, n) = "svg" /\ Tag(q, n) \in {"desc", "foreignObject", "title"}

InForeignContent(q) ==
    LET n == Current(q)
    IN  /\ Ns(q, n) # ""
        /\ MathTextIntegrationPoint(q, n) =>
             /\ ~(Is(q, "start") /\ Tok(q).tag \notin {"mglyph", "malignmark"})
             /\ ~Is(q, "text")
        /\ ~(Ns(q, n) = "math" /\ Tag(q, n) = "annotation-xml" /\ IsStart(q, {"svg"}))
        /\ ~(HtmlIntegrationPoint(q, n) /\ Tok(q).type \in {"start", "text"})
        /\ ~Is(q, "eof")

Breakout == {"b", "big", "blockquote", "body", "br", "center", "code", "dd", "div",
    "dl", "dt", "em", "embed", "h1", "h2", "h3", "h4", "h5", "h6", "head", "hr", "i",
    "img", "li", "listing", "menu", "meta", "nobr", "ol", "p", "pre", "ruby", "s",
    "small", "span", "strong", "strike", "sub", "sup", "table", "tt", "u", "ul", "var"}

\* svgTagNameAdjustments, for the one name the tree builder looks at.
SvgTagName(tag) == IF tag = "foreignobject" THEN "foreignObject" ELSE tag
EqualFold(tag, lower) == tag = lower \/ tag = SvgTagName(lower)

\* The stack index of the element an end tag closes, down to the outermost
\* foreign element; 0 if there is none.
ForeignEndAt(q) ==
    LET low == Highest({1} \cup {k \in 2..Len(q.oe) : Ns(q, q.oe[k - 1]) = ""})
    IN  Highest({k \in low..Len(q.oe) : EqualFold(Tag(q, q.oe[k]), Tok(q).tag)})

BreaksOut(q) ==
    /\ Is(q, "start")
    /\ \/ Tok(q).tag \in Breakout
       \/ Tok(q).tag = "font" /\ Tok(q).attrs \cap {"color", "face", "size"} # {}

\* parseForeignContent hands the token to the insertion mode (p.im(p)): an end
\* tag that matches nothing, and a start tag that leaves the foreign elements.
ByMode(q) == q.use = "" /\ InForeignContent(q) => BreaksOut(q) \/ (Is(q, "end") /\ ForeignEndAt(q) = 0)
LeaveForeign(q) ==
    IF ~(q.use = "" /\ InForeignContent(q) /\ BreaksOut(q)) THEN q
    ELSE [q EXCEPT !.oe = Upto(@, Highest({k \in DOMAIN q.oe :
                                    \/ Ns(q, q.oe[k]) = ""
                                    \/ HtmlIntegrationPoint(q, q.oe[k])
                                    \/ MathTextIntegrationPoint(q, q.oe[k])}))]

ForeignAdded(r, ns) ==
    IF r.status # "ok" THEN r
    ELSE NextIsNotRawText(CloseIfSelfClosing([r EXCEPT !.nodes[Newest(r)].ns = ns]))

ForeignStart(q, ns) ==
    ForeignAdded(AddElement(IF ns = "svg" THEN [q EXCEPT !.toks[1].tok.tag = SvgTagName(@)]
                            ELSE q), ns)

ParseForeignContent(q) ==
    LET d == [k \in DOMAIN Tok(q).data |-> IF Tok(q).data[k] = "0" THEN "r" ELSE Tok(q).data[k]]
        blank == \A k \in DOMAIN Tok(q).data : Tok(q).data[k] \in WhiteSpace \cup {"0"}
    IN  CASE Is(q, "text") -> Consumed(AddText([q EXCEPT !.framesetOK = @ /\ blank], d))
          [] Is(q, "comment") -> Consumed(AddComment(q))
          [] Is(q, "start") -> Consumed(ForeignStart(q, Ns(q, Current(q))))
          [] Is(q, "end") -> Consumed([q EXCEPT !.oe = Upto(@, ForeignEndAt(q) - 1)])
          [] OTHER -> Consumed(q)

-----------------------------------------------------------------------------
\* The parser's loop

NewParser(fragment) ==
    [nodes |-> <<NewNodeRecord("document", "", {}, <<>>, FALSE)>>,
     oe |-> <<>>, afe |-> <<>>, head |-> Nil, form |-> Nil, framesetOK |-> ~fragment,
     templateStack |-> <<>>, im |-> "initial", originalIM |-> "nil", foster |-> FALSE,
     quirks |-> FALSE, fragment |-> fragment, textNode |-> Nil, textBuilder |-> <<>>,
     toks |-> <<>>, use |-> "", raw |-> NotRaw, status |-> "ok"]

\* ParseFragment starts below an implied html element.
NewFragmentParser ==
    LET q == NewNode(NewParser(TRUE), NewNodeRecord("element", "html", {}, <<>>, TRUE))
    IN  ResetInsertionMode(InsertOpenElement(AppendChild(q, Document, 2), 2))

Init == /\ p \in {NewParser(FALSE), NewFragmentParser}
        /\ tokens \in Vocabularies
        /\ read = 0

\* An aborted parse returns no tree.
Settle(q) ==
    IF q.status \in {"ok", "done"} THEN q ELSE [NewParser(q.fragment) EXCEPT !.status = q.status]

\* The token is consumed: resume what waited for it.
Finish(q) ==
    LET t == Tok(q)
        r == [q EXCEPT !.toks = Tail(@)]
        body == [r EXCEPT !.framesetOK = TRUE]
        end(x) == [x EXCEPT !.toks = <<>>, !.status = IF @ = "ok" THEN "done" ELSE @]
    IN  CASE q.toks[1].then = "body" -> IF Is(r, "eof") THEN end(body) ELSE body
          [] q.toks[1].then = "p" -> [CloseP(r) EXCEPT !.toks = Tail(@)]
          [] OTHER -> IF t.type = "eof" THEN end(r) ELSE r

\* A called mode goes on with the same token; foster parenting lasts until the
\* calls return.
Returning(q) == [q EXCEPT !.use = "", !.foster = FALSE]
Result(r) ==
    Settle(IF r.p.status # "ok" THEN r.p
           ELSE IF r.use # "" THEN [r.p EXCEPT !.use = r.use]
           ELSE IF r.ok THEN Finish(Returning(r.p)) ELSE Returning(r.p))

Ready == p.status = "ok" /\ p.toks # <<>>

\* There is no mode "nil": a call of it would panic, here it would deadlock.
Mode(im, r) == /\ Ready /\ ByMode(p)
               /\ im = IF p.use = "" THEN p.im ELSE p.use
               /\ p' = Result(r)
               /\ UNCHANGED <<tokens, read>>

Foreign == /\ Ready /\ ~ByMode(p)
           /\ p' = Result(ParseForeignContent(p))
           /\ UNCHANGED <<tokens, read>>

\* parse: read the next token, io.EOF included.
Read ==
    /\ p.status = "ok" /\ p.toks = <<>>
    /\ \E t \in tokens \cup {TextToken(d) : d \in RawTexts} \cup {EndToken(p.raw.tag), EofToken} :
         /\ p.raw.tag = "" => t \in tokens \cup {EofToken}
         /\ MayDeliver(p.raw, t.type, t.tag)
         /\ t.type # "eof" => read < MaxTokens[tokens]
         /\ p' = [p EXCEPT !.toks = <<[tok |-> t, then |-> "none"]>>,
                           !.raw = RawAfter(@, t.type, t.tag)]
    /\ read' = read + 1
    /\ UNCHANGED tokens

\* A tokenizer error other than io.EOF, and the CPU and memory refusals
\* that unwind through parse.
Fail ==
    /\ p.status = "ok"
    /\ \E why \in {"error", "terminated"} :
         /\ why = "error" => p.toks = <<>>
         /\ p' = Settle(Stop(p, why))
    /\ UNCHANGED <<tokens, read>>

Parse ==
    \/ Read
    \/ Foreign
    \/ Mode("initial", InitialIM(LeaveForeign(p)))
    \/ Mode("beforeHTML", BeforeHTMLIM(LeaveForeign(p)))
    \/ Mode("beforeHead", BeforeHeadIM(LeaveForeign(p)))
    \/ Mode("inHead", InHeadIM(LeaveForeign(p)))
    \/ Mode("inHeadNoscript", InHeadNoscriptIM(LeaveForeign(p)))
    \/ Mode("afterHead", AfterHeadIM(LeaveForeign(p)))
    \/ Mode("inBody", InBodyIM(LeaveForeign(p)))
    \/ Mode("text", TextIM(LeaveForeign(p)))
    \/ Mode("inTable", InTableIM(LeaveForeign(p)))
    \/ Mode("inCaption", InCaptionIM(LeaveForeign(p)))
    \/ Mode("inColumnGroup", InColumnGroupIM(LeaveForeign(p)))
    \/ Mode("inTableBody", InTableBodyIM(LeaveForeign(p)))
    \/ Mode("inRow", InRowIM(LeaveForeign(p)))
    \/ Mode("inCell", InCellIM(LeaveForeign(p)))
    \/ Mode("inTemplate", InTemplateIM(LeaveForeign(p)))
    \/ Mode("afterBody", AfterBodyIM(LeaveForeign(p)))
    \/ Mode("inFrameset", InFramesetIM(LeaveForeign(p)))
    \/ Mode("afterFrameset", AfterFramesetIM(LeaveForeign(p)))
    \/ Mode("afterAfterBody", AfterAfterBodyIM(LeaveForeign(p)))
    \/ Mode("afterAfterFrameset", AfterAfterFramesetIM(LeaveForeign(p)))
    \/ Mode("ignore", IgnoreTheRemainingTokens(LeaveForeign(p)))

Returned == p.status # "ok" /\ UNCHANGED vars

Next == Parse \/ Fail \/ Returned

\* The loop of parse never waits: weak fairness of Parse, which is enabled
\* exactly while the parse has not returned.
Fairness == []<>(p.status # "ok") \/ []<><<Parse>>_vars

Spec == Init /\ [][Next]_vars /\ Fairness

-----------------------------------------------------------------------------
\* Properties

RECURSIVE Below(_, _)
Below(q, S) ==
    LET T == S \cup UNION {ToSet(q.nodes[n].kids) : n \in S}
    IN  IF T = S THEN S ELSE Below(q, T)

\* The nodes of q form a forest rooted in the document and the detached
\* nodes: child lists and parent pointers agree, no child is listed twice,
\* and no node is its own ancestor.
Forest(q) ==
    /\ \A n \in DOMAIN q.nodes :
         /\ \A i, j \in DOMAIN q.nodes[n].kids :
              q.nodes[n].kids[i] = q.nodes[n].kids[j] => i = j
         /\ \A c \in ToSet(q.nodes[n].kids) : q.nodes[c].parent = n
         /\ q.nodes[n].parent # Nil => n \in ToSet(q.nodes[q.nodes[n].parent].kids)
    /\ Below(q, {n \in DOMAIN q.nodes : q.nodes[n].parent = Nil}) = DOMAIN q.nodes

\* No document drives the tree builder into a Go panic (ErrParserPanic) or
\* into cutting a sibling list.
NoParserPanic == p.status \notin {"panic", "broken"}

\* The tree and the parser's stacks stay coherent whatever the token order:
\* the node links form a forest, the incremental text builder holds the text
\* it last published, the stack of open elements has distinct elements with
\* html at the bottom, and there is one template insertion mode per open
\* template.
ParserSound ==
    /\ Forest(p)
    /\ p.textNode # Nil => p.nodes[p.textNode].data = p.textBuilder
    /\ \A i, j \in DOMAIN p.oe : p.oe[i] = p.oe[j] => i = j
    /\ p.im \in {"initial", "beforeHTML"} \/ p.oe # <<>>
    /\ p.oe # <<>> => Tag(p, p.oe[1]) = "html"
    /\ Len(p.templateStack) =
         Cardinality({i \in DOMAIN p.oe : IsHtml(p, p.oe[i], {"template"})})
    /\ (p.originalIM # "nil") = (p.im = "text")
    /\ \A i \in DOMAIN p.afe : p.afe[i] # Marker =>
         Cardinality({j \in DOMAIN p.afe :
             /\ p.afe[j] # Marker
             /\ \A k \in DOMAIN p.afe : p.afe[k] = Marker => ((k < i) = (k < j))
             /\ p.nodes[p.afe[j]].tag = p.nodes[p.afe[i]].tag
             /\ p.nodes[p.afe[j]].attrs = p.nodes[p.afe[i]].attrs}) <= 3

\* While the tree builder collects raw text, the tokenizer is inside the
\* element on top of the stack: what textIM pops at the next end tag is the
\* element that end tag closes.
RawTextAgrees ==
    p.im = "text" /\ p.toks = <<>> => p.raw.tag = Tag(p, Current(p))

Unseen == {"title", "script", "style", "noframes"}

\* Text once in the document stays in it and only grows: no later token,
\* whatever it reparents, makes part of the message disappear from the tree
\* that is analysed.  A frameset replacing an empty-looking body is the one
\* exception, and then the body held no text a reader would see (framesetOK).
TextKept ==
    [][LET texts(q) == {n \in Below(q, {Document}) : q.nodes[n].type = "text"}
       IN  p'.status \in {"ok", "done"} =>
             \A n \in texts(p) :
                IF n \in texts(p') THEN IsPrefix(p.nodes[n].data, p'.nodes[n].data)
                ELSE Blank(p.nodes[n].data) \/ Tag(p, p.nodes[n].parent) \in Unseen]_vars

\* The tree builder (parseCurrentToken) meets no panic, keeps its tree and stacks
\* coherent, and agrees with the tokenizer on raw text.
TreeSound == NoParserPanic /\ ParserSound /\ RawTextAgrees

=============================================================================
