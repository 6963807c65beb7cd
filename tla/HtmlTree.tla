------------------------------ MODULE HtmlTree ------------------------------
(***************************************************************************)
(* The state of the HTML tree builder and the operations its insertion     *)
(* modes are written with: the node tree (node.go), the stack of open      *)
(* elements, the list of active formatting elements and the adoption       *)
(* agency algorithm (parse.go).                                            *)
(*                                                                         *)
(* A parser is a record p.  Nodes are numbered in the order they are made  *)
(* (p.nodes[n]; 1 is the document, Nil no node).  A node's tag stands for  *)
(* both Data and DataAtom; attributes are a set of names; text is a        *)
(* sequence of character classes: "n" a newline (the white space), "0" a   *)
(* NUL, anything else a visible character.  A Go panic is the status       *)
(* "panic", a structural limit "limit"; "broken" is a sibling list that    *)
(* InsertBefore has cut.  The first of them sticks.                        *)
(***************************************************************************)
EXTENDS Integers, Sequences, SequencesExt

CONSTANTS
    MaxDocumentNodes,  \* maxDocumentNodes (262144)
    MaxOpenElements    \* the stack limit of insertOpenElement (512)

Nil == 0
Marker == 0
Document == 1

Stop(p, why) == [p EXCEPT !.status = IF @ = "ok" THEN why ELSE @]
Panic(p) == Stop(p, "panic")

NewNodeRecord(type, tag, attrs, data, implied) ==
    [type |-> type, tag |-> tag, ns |-> "", attrs |-> attrs, data |-> data,
     kids |-> <<>>, parent |-> Nil, implied |-> implied]

Tag(p, n) == IF n = Nil THEN "" ELSE p.nodes[n].tag
Ns(p, n) == IF n = Nil THEN "" ELSE p.nodes[n].ns
IsHtml(p, n, tags) == n # Nil /\ Ns(p, n) = "" /\ Tag(p, n) \in tags
LastChild(p, n) ==
    IF p.nodes[n].kids = <<>> THEN Nil ELSE Last(p.nodes[n].kids)

\* The highest index of s in S, 0 if there is none.
Highest(S) == IF S = {} THEN 0 ELSE CHOOSE i \in S : \A j \in S : j <= i
IndexOf(s, n) == Highest({i \in DOMAIN s : s[i] = n})
RemoveNode(s, n) == IF IndexOf(s, n) = 0 THEN s ELSE RemoveAt(s, IndexOf(s, n))
Upto(s, i) == SubSeq(s, 1, i)

-----------------------------------------------------------------------------
\* node.go

AppendChild(p, n, c) ==
    IF p.nodes[c].parent # Nil THEN Panic(p)
    ELSE [p EXCEPT !.nodes[n].kids = Append(@, c), !.nodes[c].parent = n]

InsertBefore(p, n, c, old) ==
    LET at == IndexOf(p.nodes[n].kids, old)
    IN  IF p.nodes[c].parent # Nil THEN Panic(p)
        ELSE IF old = Nil THEN AppendChild(p, n, c)
        ELSE IF at = 0 THEN Stop(p, "broken")
        ELSE [p EXCEPT !.nodes[n].kids = InsertAt(@, at, c), !.nodes[c].parent = n]

RemoveChild(p, n, c) ==
    IF p.nodes[c].parent # n \/ n = Nil THEN Panic(p)
    ELSE [p EXCEPT !.nodes[n].kids = RemoveNode(@, c), !.nodes[c].parent = Nil]

\* Mutant of Detach: a node that has a parent is not taken from it.
DetachNot(p, c) == p

Detach(p, c) ==
    IF p.nodes[c].parent = Nil THEN p ELSE RemoveChild(p, p.nodes[c].parent, c)

ReparentChildren(p, dst, src) ==
    LET Move(q, c) == AppendChild(RemoveChild(q, src, c), dst, c)
    IN  FoldLeft(Move, p, p.nodes[src].kids)

PrevSibling(p, c) ==
    LET kids == p.nodes[p.nodes[c].parent].kids
        at == IndexOf(kids, c)
    IN  IF p.nodes[c].parent = Nil \/ at < 2 THEN Nil ELSE kids[at - 1]

-----------------------------------------------------------------------------
\* The stack of open elements and the scopes of section 12.2.4.2

Top(p) == IF p.oe = <<>> THEN Document ELSE Last(p.oe)
Current(p) == IF p.oe = <<>> THEN Nil ELSE Last(p.oe)
Pop(p) == IF p.oe = <<>> THEN Panic(p) ELSE [p EXCEPT !.oe = Front(@)]
OpenContains(p, tag) == \E i \in DOMAIN p.oe : IsHtml(p, p.oe[i], {tag})

DefaultScopeStopTags(ns) ==
    CASE ns = "math" -> {"annotation-xml", "mi", "mn", "mo", "ms", "mtext"}
      [] ns = "svg"  -> {"desc", "foreignObject", "title"}
      [] OTHER       -> {"applet", "caption", "html", "table", "td", "th",
                         "marquee", "object", "template", "select"}

ScopeStop(p, scope, n) ==
    \/ scope = "listItem" /\ IsHtml(p, n, {"ol", "ul"})
    \/ scope = "button" /\ IsHtml(p, n, {"button"})
    \/ scope = "table" /\ IsHtml(p, n, {"html", "table", "template"})
    \/ scope # "table" /\ Tag(p, n) \in DefaultScopeStopTags(Ns(p, n))

IndexOfElementInScope(p, scope, tags) ==
    LET i == Highest({k \in DOMAIN p.oe : IsHtml(p, p.oe[k], tags)})
    IN  IF \E k \in (i + 1)..Len(p.oe) : ScopeStop(p, scope, p.oe[k]) THEN 0 ELSE i

ElementInScope(p, scope, tags) == IndexOfElementInScope(p, scope, tags) # 0

PopUntil(p, scope, tags) ==
    LET i == IndexOfElementInScope(p, scope, tags)
    IN  IF i = 0 THEN p ELSE [p EXCEPT !.oe = Upto(@, i - 1)]

ContextTags(scope) ==
    CASE scope = "table"     -> {"html", "table", "template"}
      [] scope = "tableRow"  -> {"html", "tr", "template"}
      [] scope = "tableBody" -> {"html", "tbody", "tfoot", "thead", "template"}

ClearStackToContext(p, scope) ==
    LET i == Highest({k \in DOMAIN p.oe : Tag(p, p.oe[k]) \in ContextTags(scope)})
    IN  IF i = 0 THEN p ELSE [p EXCEPT !.oe = Upto(@, i)]

ImpliedEndTags == {"dd", "dt", "li", "optgroup", "option", "p", "rb", "rp", "rt", "rtc"}

GenerateImpliedEndTags(p, exceptions) ==
    [p EXCEPT !.oe = Upto(@, Highest({k \in DOMAIN p.oe :
        Tag(p, p.oe[k]) \notin ImpliedEndTags \ exceptions}))]

-----------------------------------------------------------------------------
\* Adding nodes

NewNode(p, rec) ==
    IF Len(p.nodes) >= MaxDocumentNodes THEN Stop(p, "limit")
    ELSE [p EXCEPT !.nodes = Append(@, rec)]
Newest(p) == Len(p.nodes)

CloneNode(p, n) ==
    NewNode(p, NewNodeRecord(p.nodes[n].type, Tag(p, n), p.nodes[n].attrs, <<>>, TRUE))

InsertOpenElement(p, n) ==
    IF Len(p.oe) >= MaxOpenElements THEN Stop(p, "limit")
    ELSE [p EXCEPT !.oe = Append(@, n)]

TableParts == {"table", "tbody", "tfoot", "thead", "tr"}
ShouldFosterParent(p) == p.foster /\ Tag(p, Top(p)) \in TableParts

\* Mutant of AppendText: a new builder does not start from the node's text.
AppendTextAnew(p, n, text) ==
    LET base == IF p.textNode = n THEN p.textBuilder ELSE <<>>
    IN  [p EXCEPT !.textNode = n, !.textBuilder = base \o text,
                  !.nodes[n].data = base \o text]

\* appendText: the builder is kept between appends to the same node.
AppendText(p, n, text) ==
    LET base == IF p.textNode = n THEN p.textBuilder ELSE p.nodes[n].data
    IN  [p EXCEPT !.textNode = n, !.textBuilder = base \o text,
                  !.nodes[n].data = base \o text]

\* The text before the table takes the text that is fostered.
PlaceFostered(p, n, parent, prev, table) ==
    IF prev # Nil /\ p.nodes[prev].type = "text" /\ p.nodes[n].type = "text"
    THEN AppendText(p, prev, p.nodes[n].data)
    ELSE InsertBefore(p, parent, n, table)

FosterBeforeTable(p, n, i, table) ==
    IF p.nodes[table].parent = Nil THEN PlaceFostered(p, n, p.oe[i - 1], Nil, table)
    ELSE PlaceFostered(p, n, p.nodes[table].parent, PrevSibling(p, table), table)

FosterParent(p, n) ==
    LET i == Highest({k \in DOMAIN p.oe : Tag(p, p.oe[k]) = "table"})
        j == Highest({k \in DOMAIN p.oe : Tag(p, p.oe[k]) = "template"})
    IN  IF j # 0 /\ j > i THEN AppendChild(p, p.oe[j], n)
        ELSE IF i = 0 THEN PlaceFostered(p, n, p.oe[1], LastChild(p, p.oe[1]), Nil)
        ELSE FosterBeforeTable(p, n, i, p.oe[i])

PlaceChild(p, n) ==
    IF ShouldFosterParent(p) THEN FosterParent(p, n) ELSE AppendChild(p, Top(p), n)

AddChild(p, n) ==
    IF p.nodes[n].type = "element" THEN InsertOpenElement(PlaceChild(p, n), n)
    ELSE PlaceChild(p, n)

\* newNode followed by addChild; a refused node ends the parse.
AddNewest(p) == IF p.status # "ok" THEN p ELSE AddChild(p, Newest(p))
AddNew(p, rec) == AddNewest(NewNode(p, rec))

\* newNode makes the text node, unless the text extends the last child.
AddText(p, text) ==
    LET last == LastChild(p, Top(p))
    IN  IF text = <<>> THEN p
        ELSE IF ~ShouldFosterParent(p) /\ last # Nil /\ p.nodes[last].type = "text"
        THEN AppendText(p, last, text)
        ELSE AddNew(p, NewNodeRecord("text", "", {}, text, FALSE))

-----------------------------------------------------------------------------
\* Active formatting elements (section 12.2.4.3); Marker separates scopes.

SpecialTags == {"address", "applet", "area", "article", "aside", "base", "basefont",
    "bgsound", "blockquote", "body", "br", "button", "caption", "center", "col",
    "colgroup", "dd", "details", "dir", "div", "dl", "dt", "embed", "fieldset",
    "figcaption", "figure", "footer", "form", "frame", "frameset", "h1", "h2", "h3",
    "h4", "h5", "h6", "head", "header", "hgroup", "hr", "html", "iframe", "img",
    "input", "keygen", "li", "link", "listing", "main", "marquee", "menu", "meta",
    "nav", "noembed", "noframes", "noscript", "object", "ol", "p", "param",
    "plaintext", "pre", "script", "section", "select", "source", "style", "summary",
    "table", "tbody", "td", "template", "textarea", "tfoot", "th", "thead", "title",
    "tr", "track", "ul", "wbr", "xmp"}

IsSpecialElement(p, n) ==
    Tag(p, n) \in CASE Ns(p, n) = "math" -> {"mi", "mo", "mn", "ms", "mtext", "annotation-xml"}
                     [] Ns(p, n) = "svg" -> {"foreignObject", "desc", "title"}
                     [] OTHER -> SpecialTags

AddMarker(p) == [p EXCEPT !.afe = Append(@, Marker)]
LastMarker(p) == IndexOf(p.afe, Marker)

\* pop until a marker or the end; pop of an empty list panics.
ClearActiveFormattingElements(p) ==
    IF p.afe = <<>> THEN Panic(p)
    ELSE [p EXCEPT !.afe = Upto(@, IF LastMarker(p) = 0 THEN 0 ELSE LastMarker(p) - 1)]

\* addFormattingElement for the element just added: of its identical
\* predecessors after the last marker the two highest stay.
AddFormatting(p) ==
    LET n == Top(p)
        same == {k \in (LastMarker(p) + 1)..Len(p.afe) :
                   /\ IsHtml(p, p.afe[k], {Tag(p, n)})
                   /\ p.nodes[p.afe[k]].attrs = p.nodes[n].attrs}
        first == Highest(same)
        kept == {first, Highest(same \ {first})}
        stays(k) == k \notin same \/ k \in kept
        index == SelectSeq([k \in DOMAIN p.afe |-> k], stays)
    IN  IF p.status # "ok" THEN p
        ELSE [p EXCEPT !.afe = Append([k \in DOMAIN index |-> @[index[k]]], n)]

ReconstructActiveFormattingElements(p) ==
    LET open == Highest({k \in DOMAIN p.afe :
                           p.afe[k] = Marker \/ IndexOf(p.oe, p.afe[k]) # 0})
        Swap(q, k) == IF q.status # "ok" THEN q
                      ELSE [AddChild(q, Newest(q)) EXCEPT !.afe[k] = Newest(q)]
        Reopen(q, k) == IF q.status # "ok" THEN q ELSE Swap(CloneNode(q, q.afe[k]), k)
    IN  FoldLeft(Reopen, p, [k \in 1..(Len(p.afe) - open) |-> open + k])

InBodyEndTagOther(p, tag) ==
    LET i == Highest({k \in DOMAIN p.oe : IsHtml(p, p.oe[k], {tag})})
    IN  IF \/ i = 0
           \/ \E k \in (i + 1)..Len(p.oe) : IsSpecialElement(p, p.oe[k])
        THEN p ELSE [p EXCEPT !.oe = Upto(@, i - 1)]

-----------------------------------------------------------------------------
\* The adoption agency algorithm, inBodyEndTagFormatting

\* The inner loop, step 14: w carries the parser p, the stack index x, the
\* count j, lastNode and bookmark; fe is the formatting element, fb the
\* furthest block.  AdoptClone replaces the node at x by its clone.
AdoptClone(w, x, ni, c, clone, fb) ==
    IF c.status # "ok" THEN [w EXCEPT !.p = c]
    ELSE [w EXCEPT !.x = x, !.j = @ + 1,
            !.p = AppendChild(Detach([c EXCEPT !.afe[ni] = clone, !.oe[x] = clone],
                                     w.lastNode), clone, w.lastNode),
            !.bookmark = IF w.lastNode = fb THEN ni + 1 ELSE @,
            !.lastNode = clone]

AdoptNode(w, x, node, ni, fb) ==
    LET next == [w EXCEPT !.x = x, !.j = @ + 1]
    IN  IF w.j >= 3 /\ ni # 0
        THEN [next EXCEPT !.p.afe = RemoveNode(@, node),
                          !.bookmark = IF ni <= @ THEN @ - 1 ELSE @]
        ELSE IF ni = 0 THEN [next EXCEPT !.p.oe = RemoveNode(@, node)]
        ELSE AdoptClone(w, x, ni, CloneNode(w.p, node), Newest(w.p) + 1, fb)

RECURSIVE AdoptInner(_, _, _)
AdoptInner(w, fe, fb) ==
    LET node == w.p.oe[w.x - 1]
    IN  IF node = fe \/ w.p.status # "ok" THEN w
        ELSE AdoptInner(AdoptNode(w, w.x - 1, node, IndexOf(w.p.afe, node), fb), fe, fb)

\* Steps 15 to 20: lastNode under the common ancestor, the clone of fe around
\* the children of fb, and in fe's place in both lists.
AdoptPlace(w, loose, ancestor) ==
    IF Tag(loose, ancestor) \in TableParts THEN FosterParent(loose, w.lastNode)
    ELSE AppendChild(loose, ancestor, w.lastNode)

AdoptLists(p, fe, fb, old, bookmark, clone) ==
    LET stack == RemoveNode(p.oe, fe)
    IN  [p EXCEPT !.afe = InsertAt(RemoveNode(@, fe),
                              IF old # 0 /\ old < bookmark THEN bookmark - 1 ELSE bookmark,
                              clone),
                  !.oe = InsertAt(stack, IndexOf(stack, fb) + 1, clone)]

AdoptChildren(c, fe, fb, bookmark) ==
    IF c.status # "ok" THEN c
    ELSE AdoptLists(AppendChild(ReparentChildren(c, Newest(c), fb), fb, Newest(c)),
                    fe, fb, IndexOf(c.afe, fe), bookmark, Newest(c))

AdoptOuterBlock(w, fe, fb, ancestor) ==
    IF w.p.status # "ok" THEN w.p
    ELSE AdoptChildren(CloneNode(AdoptPlace(w, Detach(w.p, w.lastNode), ancestor), fe),
                       fe, fb, w.bookmark)

\* Steps 12 to 20 for the formatting element at index at of the stack.
AdoptBlock(p, fe, at, fb) ==
    AdoptOuterBlock(AdoptInner([p |-> p, x |-> IndexOf(p.oe, fb), j |-> 0, lastNode |-> fb,
                                bookmark |-> IndexOf(p.afe, fe)], fe, fb),
                    fe, fb, p.oe[at - 1])

RECURSIVE AdoptOuter(_, _, _)
AdoptOuter(p, tag, i) ==
    LET k == Highest({m \in (LastMarker(p) + 1)..Len(p.afe) : Tag(p, p.afe[m]) = tag})
        fe == p.afe[k]
        at == IndexOf(p.oe, fe)
        blocks == {m \in at..Len(p.oe) : IsSpecialElement(p, p.oe[m])}
        block == CHOOSE m \in blocks : \A o \in blocks : m <= o
    IN  IF i = 8 \/ p.status # "ok" THEN p
        ELSE IF k = 0 THEN InBodyEndTagOther(p, tag)
        ELSE IF at = 0 THEN [p EXCEPT !.afe = RemoveNode(@, fe)]
        ELSE IF ~ElementInScope(p, "default", {tag}) THEN p
        ELSE IF blocks = {}
        THEN [p EXCEPT !.oe = Upto(@, at - 1), !.afe = RemoveNode(@, fe)]
        ELSE IF at = 1 THEN Panic(p)
        ELSE AdoptOuter(AdoptBlock(p, fe, at, p.oe[block]), tag, i + 1)

InBodyEndTagFormatting(p, tag) ==
    IF p.oe = <<>> THEN Panic(p)
    ELSE IF Tag(p, Current(p)) = tag /\ IndexOf(p.afe, Current(p)) = 0 THEN Pop(p)
    ELSE AdoptOuter(p, tag, 0)

=============================================================================
