------------------------------ MODULE MCContent ------------------------------
(***************************************************************************)
(* TLC instances of what reads the content of a message: the extraction of *)
(* its parts (Extraction), the HTML tokenizer (HtmlTokenizer) and the tree *)
(* builder on top of it (HtmlParser).  A behaviour runs one of the three;  *)
(* the other two stay at rest.                                             *)
(***************************************************************************)
EXTENDS Extraction, HtmlParser, HtmlTokenizer

VARIABLES
    part,   \* which of the three runs
    beat    \* changes with every step, so that a step that leaves all else as it
            \* was, a loop that makes no progress, is still a step

-----------------------------------------------------------------------------
\* The messages of the extraction.

Node(kind, children) ==
  [kind |-> kind, children |-> children, file |-> FALSE, empty |-> FALSE,
   broken |-> FALSE, torn |-> FALSE]
File(kind) == [Node(kind, <<>>) EXCEPT !.file = TRUE]
Empty(kind) == [Node(kind, <<>>) EXCEPT !.empty = TRUE]
Leaf(kind) == Node(kind, <<>>)

Message(use, tree_, last) ==
  [use |-> use, tree |-> tree_, last |-> last, lost |-> {}, deep |-> FALSE]

\* A body in two forms with an attached file: alternative(plain, html, file).
Newsletter(use) ==
  Message(use, <<Node("alternative", <<2, 3, 4>>), Leaf("plain"), Leaf("html"), File("plain")>>,
          <<4, 2, 3, 4>>)

\* A text, a message attached to it that has two parts, and an opaque file.
Forwarded(use) ==
  Message(use, <<Node("mixed", <<2, 3, 7>>), Leaf("plain"), Node("rfc822", <<4>>),
                 Node("mixed", <<5, 6>>), Leaf("html"), Empty("plain"), Leaf("opaque")>>,
          <<7, 2, 6, 6, 5, 6, 7>>)

\* HTML that does not decode, in a multipart that is cut off.
Damaged ==
  [Message("analysis", <<[Node("mixed", <<2, 3>>) EXCEPT !.torn = TRUE],
                         [Leaf("html") EXCEPT !.broken = TRUE], Node("rfc822", <<>>)>>,
           <<3, 2, 3>>) EXCEPT !.lost = {"extraction"}]

\* Multiparts inside multiparts, beyond the nesting limit of the model.
Nested ==
  [Message("analysis", <<Node("mixed", <<2, 6>>), Node("mixed", <<3>>), Node("mixed", <<4>>),
                         Node("mixed", <<5>>), Leaf("plain"), Leaf("bare")>>,
           <<6, 5, 5, 5, 5, 6>>) EXCEPT !.deep = TRUE]

MCMessages == {Newsletter("analysis"), Newsletter("command"), Forwarded("analysis"),
               Forwarded("command"), Damaged, Nested}
MCCharges == {0, 1, 3}

-----------------------------------------------------------------------------
\* The vocabularies of the tree builder.

MCTag(type, tag, attrs, sc) ==
    [type |-> type, tag |-> tag, attrs |-> attrs, data |-> <<>>, sc |-> sc]
MCTags(type, tags) == {MCTag(type, t, {}, FALSE) : t \in tags}
MCMisc(types) == {MCTag(t, "", {}, FALSE) : t \in types}
MCText(data) == {TextToken(d) : d \in data}

MCFormatting == MCTags("start", {"a", "b", "p"}) \cup MCTags("end", {"a", "b"})
                \cup MCText({<<"x">>})
MCTables == MCTags("start", {"table", "tr", "td", "caption", "col", "b"})
            \cup MCTags("end", {"table", "td"}) \cup MCText({<<"n", "x">>})
MCTemplates == MCTags("start", {"template", "td", "col", "title", "b", "p"})
               \cup MCTags("end", {"template", "p"})
MCForeign == MCTags("start", {"svg", "math", "mi", "foreignobject", "template", "p"})
             \cup MCTags("end", {"svg", "p"}) \cup {MCTag("start", "svg", {}, TRUE)}
             \cup MCText({<<"0">>, <<"x">>})
MCHead == MCTags("start", {"head", "noscript", "title", "frameset", "body"})
          \cup MCTags("end", {"frameset", "html"}) \cup MCText({<<"n">>, <<"n", "x">>})
          \cup MCMisc({"comment", "doctype"})
MCForms == MCTags("start", {"form", "table", "select", "option", "li", "hr"})
           \cup MCTags("end", {"form", "br"})
           \cup {MCTag("start", "input", {"hidden"}, FALSE)}
MCObjects == MCTags("start", {"object", "button", "nobr", "pre", "html", "ruby", "rt"})
             \cup MCTags("end", {"object", "p", "body"}) \cup MCText({<<"n", "x">>})

MCVocabularies == {MCFormatting, MCTables, MCTemplates, MCForeign, MCHead, MCForms,
                   MCObjects}
MCMaxTokens == [v \in MCVocabularies |-> IF v = MCFormatting THEN 6 ELSE 4]
MCRawTexts == {<<"x">>}

-----------------------------------------------------------------------------
\* The pieces the tokenizer's input is put together from.

MCSpelling == [script |-> <<"s", "c">>, title |-> <<"t">>, plaintext |-> <<"y">>]
MCDoctype == <<"d", "y">>
MCCData == <<"[", "c">>

MCTagPieces == {<<"<", "a">>, <<"_", "a">>, <<"=">>, <<"'">>, <<"/">>, <<">">>, <<"<", "/">>}
MCDeclarationPieces ==
    {<<"<", "!">>, <<"-">>, <<">">>, <<"!">>, <<"d", "y">>, <<"[", "c">>, <<"]", "]">>,
     <<"?">>}
MCScriptPieces ==
    {<<"<", "s", "c", ">">>, <<"<", "!", "-", "-">>, <<"<">>, <<"/">>, <<"s", "c">>, <<">">>,
     <<"-", "-", ">">>}
MCRawPieces ==
    {<<"<", "t", ">">>, <<"<", "/", "t">>, <<"<", "y", ">">>, <<"a">>, <<"_">>, <<"<">>,
     <<">">>}
MCPieces == {MCTagPieces, MCDeclarationPieces, MCScriptPieces, MCRawPieces}

-----------------------------------------------------------------------------
contentVars == <<part, beat, extractionVars, vars, tokenizerVars>>

ContentInit ==
    /\ part \in {"extraction", "parser", "tokenizer"} /\ beat = FALSE
    /\ ExtractionInit /\ Init /\ TokenizerInit
    /\ part = "extraction" \/ (message = Damaged /\ allow)
    /\ part = "parser" \/ (p = NewParser(FALSE) /\ tokens = MCFormatting)
    /\ part = "tokenizer" \/ reader.of = MCRawPieces

InExtraction == part = "extraction" /\ UNCHANGED <<part, vars, tokenizerVars>>
InParser == part = "parser" /\ UNCHANGED <<part, extractionVars, tokenizerVars>>
InTokenizer == part = "tokenizer" /\ UNCHANGED <<part, extractionVars, vars>>

ContentStep ==
    /\ beat' = ~beat
    /\ \/ InExtraction /\ ExtractionStep
       \/ InParser /\ Parse
       \/ InTokenizer /\ TokenizerNext

ContentNext ==
    \/ ContentStep
    \/ /\ UNCHANGED beat
       /\ \/ InExtraction /\ (Cancel \/ Done)
          \/ InParser /\ (Fail \/ Returned)
          \/ InTokenizer /\ TokenizerReturned

Ended ==
    \/ part = "extraction" /\ phase = "done"
    \/ part = "parser" /\ p.status # "ok"
    \/ part = "tokenizer" /\ z.tt = "error"

\* One goroutine runs each of the three to its end without waiting for anything:
\* weak fairness of its steps, which are enabled exactly until it has ended.
ContentFairness == []<>Ended \/ []<><<ContentStep>>_contentVars

ContentSpec == ContentInit /\ [][ContentNext]_contentVars /\ ContentFairness

\* Whatever the message, extraction returns (extractMIME with its restarts and its
\* fallback stage), the tree builder returns (parse, with every reprocessed token)
\* and the tokenizer reaches the end of its input (Next, which never stays on a
\* byte).
ContentEnds == <>Ended

=============================================================================
