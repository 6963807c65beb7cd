------------------------------ MODULE Extraction ------------------------------
(***************************************************************************)
(* The extraction of one message's text: extractMIMEWithBudget walks the   *)
(* MIME tree under a CPU allowance and a memory ledger, and every          *)
(* restartable operation of the walk (runExtraction) may be cut short by   *)
(* either of them or by cancellation.  The first such failure may open the *)
(* fallback stage, which has an allowance and a ledger of its own and      *)
(* restarts only the operation that was cut short; a failure of the        *)
(* fallback stage, a cancellation or a refused fallback is terminal.       *)
(*                                                                         *)
(* A stack of frames stands for the recursive activations.  A text is the  *)
(* sequence of the parts it comes from, each with the attachments that are *)
(* wrapped around it.  Links, images and visibility are left out, and so   *)
(* are the characters.                                                     *)
(***************************************************************************)
EXTENDS Naturals, Sequences, FiniteSets, SequencesExt

CONSTANTS
  Messages,      \* the messages: see Message
  MaxDepth,      \* the nesting limit, 8 in the code
  MaxParts,      \* maxMIMEParts
  MaxHTMLParts,  \* maxHTMLParts
  HTMLBytes,     \* limits.InputBytes; an HTML part has one byte
  TextBytes,     \* setDecodedTextByteLimit; a plain part has one byte
  CSSBytes,      \* limits.CSSBytes
  MemoryLimit,   \* MemoryBytes
  Charges        \* the sizes of a reservation

VARIABLES
  message,       \* the message that is extracted
  allow,         \* AllowFallbackAfterLimit
  cancelled,     \* ctx.Err() # nil
  stage,         \* which stage is active: budget.fallback # nil
  terminal,      \* budget.terminal
  usage,         \* ProcessingUsage: the limits that were exceeded, by stage
  ledger,        \* primaryMemory and fallback.memory
  progress,      \* extractionProgress
  stack,         \* the activations of extractMIMEWithBudget
  result,        \* what the outermost activation returned
  phase          \* extract, normalize, done

budget == <<stage, terminal, usage, ledger>>
extractionVars == <<message, allow, cancelled, budget, progress, stack, result, phase>>

Stages == {"primary", "fallback"}
Codes == {"cpu", "memory", "cancelled"}
Allocation == {"memory"}   \* work with no checkpoint in it
Incomplete == {"mime", "transfer", "extraction"}
Flags == Incomplete \cup {"html", "lexical", "css"}

tree == message.tree
Nodes == DOMAIN tree
multipart(n) == tree[n].kind \in {"mixed", "alternative"}

\* What one activation returns: text, whether it is an attachment, and flags.
Content(n, text, flags) ==
  [node |-> n, text |-> text, attachment |-> FALSE, flags |-> flags]
NoContent == Content(0, <<>>, {})
Own(n) == <<[from |-> n, in |-> {}]>>
TextOf(n) == IF tree[n].empty THEN <<>> ELSE Own(n)
hasExtractedContent(c) == c.text # <<>>
flagged(c, flags) == [c EXCEPT !.flags = @ \cup flags]
transferOf(n) == IF tree[n].broken THEN {"transfer"} ELSE {}
anyHTML == IF progress.htmlParts > 0 THEN {"html"} ELSE {}

Frame(n, saved) ==
  [node |-> n, pc |-> "once", index |-> 0, parts |-> <<>>, content |-> NoContent,
   retained |-> NoContent, flags |-> {}, saved |-> saved]

ExtractionInit ==
  /\ message \in Messages
  /\ allow \in BOOLEAN
  /\ cancelled = FALSE
  /\ stage = "primary" /\ terminal = "none" /\ usage = {}
  /\ ledger = [s \in Stages |-> [used |-> 0, exhausted |-> FALSE]]
  /\ progress = [parts |-> 0, htmlParts |-> 0, htmlBytes |-> HTMLBytes,
                 textBytes |-> TextBytes, css |-> CSSBytes]
  /\ stack = <<Frame(1, progress)>>
  /\ result = NoContent
  /\ phase = "extract"

(***************************************************************************)
(* Guarded work and the stage boundary.                                    *)
(***************************************************************************)
room(s) == MemoryLimit - ledger[s].used

\* Work that may fail with these codes and does not.
Passes(codes) ==
  \E bytes \in Charges :
    /\ "cancelled" \in codes => ~cancelled
    /\ ~ledger[stage].exhausted /\ bytes <= room(stage)
    /\ ledger' = [ledger EXCEPT ![stage].used = @ + bytes]
    /\ UNCHANGED <<stage, terminal, usage>>

\* A reservation or a checkpoint that raises the failure code; the CPU allowance
\* can run out at any checkpoint of either stage.
Raises(code) ==
  CASE code = "memory" ->
         /\ ledger[stage].exhausted \/ \E bytes \in Charges : bytes > room(stage)
         /\ ledger' = [ledger EXCEPT ![stage].exhausted = TRUE]
    [] code = "cpu" -> UNCHANGED ledger
    [] code = "cancelled" -> cancelled /\ UNCHANGED ledger

recordTermination(code) ==
  usage' = IF code = "cancelled" THEN usage ELSE usage \cup {<<stage, code>>}

\* Mutant: the policy is not asked.
allowFallbackAlways == TRUE

\* BeginFallback and StopOnMemoryLimit, once the failure has been recorded.
allowFallback == ~cancelled /\ (usage' = {} \/ allow)

\* Mutant: an operation is retried in the fallback stage as well.
RecoverAgain(code, again, abort) ==
  /\ recordTermination(code)
  /\ IF code # "cancelled" /\ (stage = "fallback" \/ allowFallback)
       THEN stage' = "fallback" /\ UNCHANGED terminal /\ again
       ELSE terminal' = code /\ UNCHANGED stage /\ abort

\* The end of a failed attempt: the fallback stage begins, or the walk is over.
Recover(code, again, abort) ==
  /\ recordTermination(code)
  /\ IF stage = "primary" /\ code # "cancelled" /\ allowFallback
       THEN stage' = "fallback" /\ UNCHANGED terminal /\ again
       ELSE terminal' = code /\ UNCHANGED stage /\ abort

\* One operation under runExtraction: it completes, is done again, or aborts.
runExtraction(codes, complete, again, abort) ==
  \/ terminal # "none" /\ abort /\ UNCHANGED budget
  \/ terminal = "none" /\ Passes(codes) /\ complete
  \/ terminal = "none" /\ \E code \in codes : Raises(code) /\ Recover(code, again, abort)

(***************************************************************************)
(* The walk.  An operation is at the top of the stack.                     *)
(***************************************************************************)
top == stack[Len(stack)]
me == top.node
InOperation(pc) == phase = "extract" /\ top.pc = pc
same == UNCHANGED <<message, allow, cancelled>>

Goto(frame) == stack' = [stack EXCEPT ![Len(stack)] = frame] /\ UNCHANGED <<result, phase>>
To(pc) == Goto([top EXCEPT !.pc = pc])
With(c, pc) == Goto([top EXCEPT !.content = c, !.pc = pc])

Leave(c) ==
  LET rest == Front(stack)
  IN IF rest = <<>>
       THEN stack' = <<>> /\ result' = c /\ phase' = "normalize"
       ELSE /\ stack' = [rest EXCEPT ![Len(rest)].content = [c EXCEPT !.node = me],
                                     ![Len(rest)].pc = "returned"]
            /\ UNCHANGED <<result, phase>>

\* Mutant: the traversal allowances are not rewound.
RestartOnly ==
  Goto([Frame(me, top.saved) EXCEPT !.retained = top.retained]) /\ UNCHANGED progress

\* Mutant: what was retained is returned as if it were everything.
RetainUnflagged == Leave(top.retained) /\ UNCHANGED progress

\* extractMIMEWithBudget does the whole part again, or keeps what it retained.
Restart ==
  /\ Goto([Frame(me, top.saved) EXCEPT !.retained = top.retained])
  /\ progress' = top.saved
Retain == Leave(flagged(top.retained, {"extraction", "mime"})) /\ UNCHANGED progress

Whole(codes, complete) == runExtraction(codes, complete, Restart, Retain) /\ same

\* The type of the part is parsed and its transfer encoding undone.
extractMIMEOnce ==
  /\ InOperation("once")
  /\ LET n == tree[me]
         decoded == CASE n.kind = "opaque" -> Leave(Content(me, Own(me), transferOf(me)))
                      [] n.kind = "bare" ->
                           Leave(Content(me, Own(me), {"mime"} \cup transferOf(me)))
                      [] multipart(me) -> To("read")
                      [] OTHER -> To(n.kind)
     IN IF Len(stack) - 1 > MaxDepth
          THEN Leave(Content(me, Own(me), {"mime"})) /\ UNCHANGED <<budget, progress>> /\ same
          ELSE Whole(Codes, decoded /\ UNCHANGED progress)

\* The last completed part with any content, or the last one.
retainedMIMEPart(parts) ==
  LET full == SelectSeq(parts, hasExtractedContent)
  IN IF full # <<>> THEN Last(full) ELSE IF parts # <<>> THEN Last(parts) ELSE NoContent

signals(parts) == UNION {parts[i].flags \cap {"lexical", "css"} : i \in DOMAIN parts}

\* A multipart that stops at a terminal failure: one part and the flags of all.
StopOperation(c) == Leave(flagged(c, {"extraction", "mime"} \cup signals(top.parts)))
StopRetained == StopOperation(retainedMIMEPart(top.parts))

\* One turn of the loop up to the child's activation.
readRestartableMIMEPart ==
  /\ InOperation("read")
  /\ LET children == tree[me].children
         next == IF top.index < Len(children)
                   THEN LET now == [progress EXCEPT !.parts = @ + 1]
                        IN /\ progress' = now
                           /\ stack' = Append([stack EXCEPT ![Len(stack)].index = @ + 1,
                                                            ![Len(stack)].pc = "child"],
                                              Frame(children[top.index + 1], now))
                           /\ UNCHANGED <<result, phase>>
                   ELSE /\ Goto([top EXCEPT !.pc = "ended",
                                            !.flags = @ \cup (IF tree[me].torn THEN {"mime"} ELSE {})])
                        /\ UNCHANGED progress
         again == UNCHANGED <<stack, progress, result, phase>>
     IN IF progress.parts >= MaxParts
          THEN /\ Goto([top EXCEPT !.pc = "ended", !.flags = @ \cup {"mime"}])
               /\ UNCHANGED <<budget, progress>> /\ same
          ELSE runExtraction(Codes, next, again, StopRetained /\ UNCHANGED progress) /\ same

\* The child's content: its flags are kept, then it is retained and appended.
collectPart ==
  /\ InOperation("returned") /\ multipart(me)
  /\ LET c == top.content
         frame == [top EXCEPT !.flags = @ \cup (c.flags \cap Incomplete),
                              !.retained = IF hasExtractedContent(c) THEN c ELSE @]
         last == IF hasExtractedContent(c) THEN c ELSE retainedMIMEPart(top.parts)
     IN CASE terminal # "none" -> StopOperation(last)
          [] terminal = "none" /\ ~hasExtractedContent(c) /\ tree[me].kind = "alternative" ->
               Goto([frame EXCEPT !.pc = "read"])
          [] OTHER -> Goto([frame EXCEPT !.pc = "append"])
  /\ UNCHANGED <<budget, progress>> /\ same

appendMIMEPart ==
  /\ InOperation("append")
  /\ LET added == [top EXCEPT !.parts = Append(@, top.content)]
         classify == tree[me].kind = "alternative" /\ ~top.content.attachment
     IN runExtraction(Allocation, Goto([added EXCEPT !.pc = IF classify THEN "classify" ELSE "read"]),
                      UNCHANGED <<stack, result, phase>>, StopRetained)
  /\ UNCHANGED progress /\ same

\* The type of an alternative is parsed again, outside the small boundaries.
classifyAlternative == InOperation("classify") /\ Whole(Allocation, To("read") /\ UNCHANGED progress)

\* The body among the alternatives: the last HTML, the last plain text, or the last.
selected ==
  LET bodies == SelectSeq(top.parts, LAMBDA p : ~p.attachment)
      html == SelectSeq(bodies, LAMBDA p : "html" \in p.flags)
      plain == SelectSeq(bodies, LAMBDA p : "html" \notin p.flags /\ tree[p.node].kind = "plain")
      chosen == CASE html # <<>> -> Last(html)
                  [] html = <<>> /\ plain # <<>> -> Last(plain)
                  [] html = <<>> /\ plain = <<>> /\ bodies # <<>> -> Last(bodies)
                  [] OTHER -> NoContent
  IN [chosen EXCEPT !.flags = (@ \ {"mime", "transfer"}) \cup top.flags \cup transferOf(me) \cup anyHTML]

\* After the loop: an alternative is selected and joined with the attachments.
selectAlternative ==
  /\ InOperation("ended")
  /\ LET attachments == \E i \in DOMAIN top.parts : top.parts[i].attachment
         keep == SelectSeq(top.parts, LAMBDA p : p.attachment \/ p.node = selected.node)
         replaced == [i \in DOMAIN keep |-> IF keep[i].attachment THEN keep[i] ELSE selected]
     IN CASE tree[me].kind = "mixed" -> To("assemble") /\ UNCHANGED <<budget, progress>> /\ same
          [] tree[me].kind = "alternative" /\ ~attachments ->
               Leave(selected) /\ UNCHANGED <<budget, progress>> /\ same
          [] OTHER -> Whole(Allocation, Goto([top EXCEPT !.parts = replaced, !.pc = "assemble"])
                            /\ UNCHANGED progress)

assemble ==
  /\ InOperation("assemble")
  /\ LET parts == top.parts
         union == UNION {parts[i].flags \ {"mime", "transfer"} : i \in DOMAIN parts}
         combined == Content(me, FlattenSeq([i \in DOMAIN parts |-> parts[i].text]),
                             union \cup top.flags \cup transferOf(me) \cup anyHTML)
     IN runExtraction(Codes, Leave(combined), UNCHANGED <<stack, result, phase>>,
                      Leave(flagged(retainedMIMEPart(parts), {"extraction", "mime"})))
  /\ UNCHANGED progress /\ same

(***************************************************************************)
(* Leaves.                                                                 *)
(***************************************************************************)
After(c) == IF tree[me].file THEN With(c, "wrap") ELSE Leave(c)

\* Plain text, cut at the bytes that are left for decoded text.
decodePlain ==
  /\ InOperation("plain")
  /\ LET size == IF tree[me].empty THEN 0 ELSE 1
         fits == size <= progress.textBytes
         text == IF fits THEN TextOf(me) ELSE <<>>
         flags == transferOf(me) \cup (IF fits THEN {} ELSE {"extraction"})
     IN Whole(Codes, /\ After(Content(me, text, flags))
                     /\ progress' = [progress EXCEPT !.textBytes = @ - Len(text)])

htmlContent(text, flags) == Content(me, text, flags \cup {"html"} \cup transferOf(me))

\* htmlToTextWithBudget: the tree stage, unless it is too late or too much for it.
htmlToText ==
  /\ InOperation("html")
  /\ LET counted == [progress EXCEPT !.htmlParts = @ + 1]
         admitted == counted.htmlParts <= MaxHTMLParts /\ 1 <= progress.htmlBytes /\ progress.css > 0
         lexical(flags) == Goto([top EXCEPT !.pc = "lexical", !.content = htmlContent(<<>>, flags)])
     IN CASE stage = "fallback" -> Whole(Codes, lexical({}) /\ progress' = counted)
          [] stage = "primary" /\ room("primary") = 0 ->
               \E code \in Codes :
                 /\ Raises(code) /\ Recover(code, Restart, Retain) /\ same
          [] stage = "primary" /\ room("primary") > 0 /\ ~admitted ->
               Whole(Codes, lexical({"extraction"}) /\ progress' = [counted EXCEPT !.htmlBytes = 0])
          [] OTHER -> Whole(Codes, To("tree") /\ progress' = [counted EXCEPT !.htmlBytes = @ - 1])

\* Tree analysis and rendering charge ledgers of their own, limited to what the
\* primary one has left; their charges are transferred on every way out.
extractTreeHTML ==
  /\ InOperation("tree")
  /\ \E bytes \in 0..room("primary"), css \in 0..progress.css :
       LET charged == [ledger EXCEPT !["primary"].used = @ + bytes]
           spent == progress' = [progress EXCEPT !.css = @ - css]
       IN \/ /\ ~cancelled /\ UNCHANGED <<stage, terminal, usage>> /\ ledger' = charged /\ spent
             /\ \/ \E flags \in SUBSET {"css", "extraction"} : After(htmlContent(TextOf(me), flags))
                \/ With(htmlContent(<<>>, {"extraction"}), "lexical")
          \/ \E code \in Codes :
               /\ code = "cancelled" => cancelled
               /\ ledger' = charged
               /\ Recover(code, Restart, Leave(flagged(top.retained, {"extraction", "mime"})) /\ spent)
  /\ same

\* extractFallback: the fallback stage is entered if it may be.
beginFallback ==
  /\ InOperation("lexical")
  /\ IF stage = "primary" /\ (cancelled \/ (usage # {} /\ ~allow))
       THEN /\ After(flagged(top.content, {"extraction"}))
            /\ UNCHANGED budget
       ELSE /\ To("tokens")
            /\ stage' = "fallback"
            /\ UNCHANGED <<terminal, usage, ledger>>
  /\ UNCHANGED progress /\ same

\* The lexical fallback; cut short, it leaves the prefix it had, or nothing.
extractBoundedHTMLFallback ==
  /\ InOperation("tokens")
  /\ LET lexical(text, flags) ==
           After([flagged(top.content, {"lexical"} \cup flags) EXCEPT !.text = text])
     IN runExtraction(Codes, \E flags \in SUBSET {"extraction"} : lexical(TextOf(me), flags),
                      FALSE,
                      \E text \in {<<>>, TextOf(me)} : lexical(text, {"extraction"}))
  /\ UNCHANGED progress /\ same

\* The header of an attached message; without one it is only a marker.
parseAttachedMessage ==
  /\ InOperation("rfc822")
  /\ LET children == tree[me].children
     IN Whole(Codes,
              /\ IF children = <<>>
                   THEN With(Content(me, Own(me), {"mime"}), "wrap")
                   ELSE /\ stack' = Append([stack EXCEPT ![Len(stack)].pc = "child"],
                                           Frame(children[1], progress))
                        /\ UNCHANGED <<result, phase>>
              /\ UNCHANGED progress)

attachedMessageReturned ==
  /\ InOperation("returned") /\ tree[me].kind = "rfc822"
  /\ To("wrap")
  /\ UNCHANGED <<budget, progress>> /\ same

\* The generated boundary around everything inside the attachment n.
enclose(n, c) ==
  LET text == IF \E i \in DOMAIN c.text : c.text[i].from = n THEN c.text ELSE Own(n) \o c.text
  IN [c EXCEPT !.text = [i \in DOMAIN text |-> [text[i] EXCEPT !.in = @ \cup {n}]],
               !.attachment = TRUE]
\* Mutant: the text stays, without the boundary.
markerKeepsText(n, c) == flagged(c, {"extraction"})

marker(n, c) == enclose(n, flagged([c EXCEPT !.text = <<>>], {"extraction"}))

wrapAttachment ==
  /\ InOperation("wrap")
  /\ LET out(c) == Leave(flagged(c, transferOf(me)))
     IN IF message.use = "command"
          THEN out(top.content) /\ UNCHANGED budget
          ELSE runExtraction(Codes, out(enclose(me, top.content)), UNCHANGED <<stack, result, phase>>,
                             out(marker(me, top.content)))
  /\ UNCHANGED progress /\ same

\* processedContentWithHTMLControl: what the session already lost is added, and
\* invalid UTF-8 is replaced, or discarded when that cannot be done.
normalizeExtractedUTF8 ==
  /\ phase = "normalize"
  /\ LET c == flagged(result, IF message.use = "command"
                              THEN message.lost \cap {"mime"} ELSE message.lost)
         discarded(valid) == flagged([c EXCEPT !.text = IF valid THEN @ ELSE <<>>], {"extraction"})
         finish(r) == result' = r /\ phase' = "done"
     IN \E valid \in BOOLEAN :
          IF message.use = "command" \/ (valid /\ terminal = "none")
            THEN finish(c) /\ UNCHANGED budget
            ELSE runExtraction(Codes, finish(c), UNCHANGED <<result, phase>>, finish(discarded(valid)))
  /\ UNCHANGED <<stack, progress>> /\ same

Cancel ==
  /\ phase # "done" /\ ~cancelled
  /\ cancelled' = TRUE
  /\ UNCHANGED <<message, allow, budget, progress, stack, result, phase>>

Done == phase = "done" /\ UNCHANGED extractionVars

ExtractionStep ==
  \/ extractMIMEOnce \/ readRestartableMIMEPart \/ collectPart \/ appendMIMEPart
  \/ classifyAlternative \/ selectAlternative \/ assemble \/ decodePlain \/ htmlToText
  \/ extractTreeHTML \/ beginFallback \/ extractBoundedHTMLFallback \/ parseAttachedMessage
  \/ attachedMessageReturned \/ wrapAttachment \/ normalizeExtractedUTF8

ExtractionNext == ExtractionStep \/ Cancel \/ Done

ExtractionSpec == ExtractionInit /\ [][ExtractionNext]_extractionVars

(***************************************************************************)
(* Properties.                                                             *)
(***************************************************************************)
Texts == Seq([from : Nodes, in : SUBSET Nodes])
Contents == [node : Nodes \cup {0}, text : Texts, attachment : BOOLEAN, flags : SUBSET Flags]

\* The types of the budget, and its arithmetic: a ledger is never charged beyond
\* its limit although children are admitted against what it has left, the primary
\* ledger is exhausted only once the primary stage is over, and a part is counted
\* once however often it is replayed.
ExtractionConsistent ==
  /\ stage \in Stages /\ terminal \in Codes \cup {"none"}
  /\ usage \subseteq Stages \X {"cpu", "memory"}
  /\ \A s \in Stages : ledger[s].used \in 0..MemoryLimit /\ ledger[s].exhausted \in BOOLEAN
  /\ result \in Contents
  /\ \A i \in DOMAIN stack : stack[i].content \in Contents /\ stack[i].retained \in Contents
  /\ ledger["primary"].exhausted => stage = "fallback" \/ terminal # "none"
  /\ progress.parts < Cardinality(Nodes)

complete == result.flags \cap Incomplete = {}
from == {result.text[i].from : i \in DOMAIN result.text}
isAttachment(n) ==
  /\ message.use = "analysis"
  /\ tree[n].kind = "rfc822" \/ (tree[n].file /\ tree[n].kind \in {"plain", "html"})

\* Whether the part n has anything to show.
evidence[n \in Nodes] ==
  \/ tree[n].kind \in {"plain", "html"} /\ ~tree[n].empty
  \/ tree[n].kind \in {"opaque", "bare"}
  \/ isAttachment(n)
  \/ \E i \in DOMAIN tree[n].children : evidence[tree[n].children[i]]

\* Whether the text shows all of the part n: every part of a mixture, all the
\* attachments and one whole body of an alternative.
covered[n \in Nodes] ==
  LET children == Range(tree[n].children)
      bodies == {c \in children : ~isAttachment(c)}
  IN CASE tree[n].kind = "alternative" ->
            /\ \A c \in children \ bodies : covered[c]
            /\ bodies = {} \/ \E c \in bodies : covered[c] /\ \A b \in bodies : evidence[b] => evidence[c]
       [] tree[n].kind = "mixed" -> \A c \in children : covered[c]
       [] tree[n].kind = "rfc822" -> (isAttachment(n) => n \in from) /\ \A c \in children : covered[c]
       [] OTHER -> tree[n].empty \/ n \in from

\* A result that is not marked incomplete shows every part of the message, each
\* one once and in order, however often operations were restarted; and a message
\* within the structural limits is not marked as malformed MIME because of a
\* restart.  BodyExtractionIncomplete and the policies behind it rest on this.
ResultHonest ==
  phase = "done" =>
    /\ complete => covered[1] /\ terminal = "none"
    /\ \A i, j \in DOMAIN result.text : i < j => result.text[i].from < result.text[j].from
    /\ "mime" \in result.flags /\ terminal = "none" =>
         \/ "mime" \in message.lost \/ message.deep
         \/ Cardinality(Nodes) > MaxParts
         \/ \E n \in Nodes :
              \/ tree[n].torn \/ tree[n].kind = "bare"
              \/ tree[n].kind = "rfc822" /\ tree[n].children = <<>>

\* Text from inside an attached message or file is never shown without the
\* generated boundary around it, not even what is retained of an extraction that
\* was cut short (wrapAttachment: "must never expose retained child text without
\* its provenance").
within(n) == {a \in Nodes : isAttachment(a) /\ a <= n /\ n <= message.last[a]}
ProvenanceKept ==
  phase = "done" =>
    \A i \in DOMAIN result.text : within(result.text[i].from) \subseteq result.text[i].in

\* The fallback stage begins at most once, never after a cancellation, and after
\* an exceeded limit only where the configured action allows it; from then on the
\* primary ledger is not touched; after a terminal failure nothing is spent at all
\* (runExtraction, beginFallback, allocationMemory).
StagesOrdered ==
  /\ stage = "fallback" => stage' = "fallback" /\ ledger'["primary"] = ledger["primary"]
  /\ stage # stage' => ~cancelled /\ (usage' = {} \/ allow)
  /\ terminal # "none" => UNCHANGED budget
  /\ \A s \in Stages : ledger[s].exhausted => ledger'[s] = ledger[s]

\* An extraction is honest about what it leaves out, and spends its two stages
\* in order (runExtraction).
ExtractionHonest ==
  [][ExtractionConsistent' /\ ResultHonest' /\ StagesOrdered]_extractionVars

===============================================================================
