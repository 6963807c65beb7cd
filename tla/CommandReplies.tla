--------------------------- MODULE CommandReplies ---------------------------
(***************************************************************************)
(* E-mail commands from the authorised message to the delivered reply:     *)
(* handleEmailCommand's extraction, line loop and execution, the bounded   *)
(* reply slots, the reply worker's rendering under one attachment budget,  *)
(* the fitting of the reply to the message size limit, and the SMTP        *)
(* transaction of smtpreply.Client.Send.                                   *)
(*                                                                         *)
(* One message per session.  A line is its kind; texts are lengths in      *)
(* bytes, a reply text also knows which saved messages the notices at its  *)
(* front name.                                                             *)
(***************************************************************************)
EXTENDS Integers, Sequences, FiniteSetsExt

CONSTANTS
    Senders,           \* sessions that carry one command message each
    Messages,          \* the lines a message may hold: sequences of line kinds
    TextOf,            \* line kind -> bytes of its response text
    Saved,             \* line kind "REJECTION id" -> size of the saved message
    Expiring,          \* bound: the saved messages retention may remove meanwhile
    Configs,           \* [limit, headers, dense, tls, loopback, sendReplies]
    MaxCommands,       \* maxCommandsPerMessage
    ReplySlots, ExtractionSlots

VARIABLES
    cfg,       \* the configuration, fixed
    session,   \* Senders -> [pc, lines]
    reply,     \* Senders -> the reply worker of the session's message
    archive    \* the saved messages still in the archive

repliesVars == <<cfg, session, reply, archive>>

Ceil(a, b) == (a + b - 1) \div b

-----------------------------------------------------------------------------
(* Sizes                                                                   *)

MaxResponseBytes == 1048576
TextNotice == 63           \* commandReplyTextWithin's notice

\* Text is [len, front, named]: the first front bytes name saved messages.
Text(n) == [len |-> n, front |-> 0, named |-> {}]
Truncate(t, n) ==
    [len |-> Min({t.len, n}), front |-> IF n >= t.front THEN t.front ELSE 0,
     named |-> IF n >= t.front THEN t.named ELSE {}]

\* AppendBoundedResponse: the body's new length, and whether all of it fitted.
Fits(body, n) == n <= MaxResponseBytes - body
AppendBounded(body, n) == IF Fits(body, n) THEN body + n ELSE MaxResponseBytes

CommandReplyTextBytes(limit) == Min({MaxResponseBytes, limit \div 4})
CommandReplyAttachmentBytes(limit) == Max({0, limit - 2 * CommandReplyTextBytes(limit) - 4096})
CommandReplyTextWithin(t, n) ==
    IF t.len <= n THEN t
    ELSE IF n < TextNotice THEN Text(n)
    ELSE [Truncate(t, n - TextNotice) EXCEPT !.len = n]

\* smtpreply: line ends double where the text is all line ends; base64 in
\* lines of 57 bytes, as measured by Size and as written by writeBase64.
CRLF(n) == IF cfg.dense THEN 2 * n ELSE n
EncodedLen(n) == 4 * Ceil(n, 3)
MeasuredBase64(n) == EncodedLen(n) + 2 * Max({1, (EncodedLen(n) + 75) \div 76})
WrittenBase64(n) ==
    LET full == IF n > 57 THEN (n - 1) \div 57 ELSE 0
    IN  78 * full + EncodedLen(n - 57 * full) + 2
PartBytes == 300   \* headers and boundary of one attachment

RECURSIVE Parts(_)
Parts(ids) ==
    IF ids = <<>> THEN 0 ELSE PartBytes + MeasuredBase64(Saved[Head(ids)]) + Parts(Tail(ids))
Size(text, ids) == cfg.headers + CRLF(text) + Parts(ids)

-----------------------------------------------------------------------------
(* The line loop of handleEmailCommand                                     *)

IsCommand(l) == l \notin {"typo", "chat"}   \* Parse accepts it
RecognizedLine(l) == l # "chat"

\* The commands of a message: up to the first line Parse rejects, which
\* becomes a ParseError when it looks like a command.
CommandsOf(lines) ==
    LET bad == {i \in 1..Len(lines) : ~IsCommand(lines[i])}
        first == IF bad = {} THEN Len(lines) + 1 ELSE CHOOSE i \in bad : \A j \in bad : i <= j
        named == IF first <= Len(lines) /\ RecognizedLine(lines[first]) THEN first ELSE first - 1
    IN  IF first = 1 THEN <<>>
        ELSE SubSeq(lines, 1, Min({MaxCommands, IF first - 1 >= MaxCommands THEN first - 1 ELSE named}))

-----------------------------------------------------------------------------
(* The reply                                                               *)

NoReply == [pc |-> "none"]
Gone == [pc |-> "gone"]   \* the worker returned and released its slot
NewReply(commands, text) ==
    [pc |-> "render", commands |-> commands, next |-> 1, body |-> text, cut |-> FALSE,
     remaining |-> CommandReplyAttachmentBytes(cfg.limit), included |-> {}, omitted |-> {},
     attached |-> <<>>, dropped |-> {}, text |-> Text(0), tls |-> FALSE, advertised |-> FALSE,
     delivered |-> FALSE]

InFlight == {s \in Senders : reply[s].pc \notin {"none", "gone"}}

\* ReplyAttachmentBudget
ReadLimit(r) == Max({0, (r.remaining - 1024) \div 78}) * 57
Include(r, id) ==
    [r EXCEPT !.remaining = @ - (1024 + Max({1, (Saved[id] + 56) \div 57}) * 78),
              !.included = @ \cup {id}]
Omit(r, id) == [r EXCEPT !.omitted = @ \cup {id}]

\* rejectionDetail's effect on the budget, and the attachment it returns.
Detail(r, id) ==
    IF id \in r.included THEN r
    ELSE IF Min({cfg.limit, ReadLimit(r)}) <= 0 THEN Omit(r, id)
    ELSE IF id \notin archive THEN r
    ELSE IF Saved[id] > Min({cfg.limit, ReadLimit(r)}) THEN Omit(r, id)
    ELSE Include(r, id)
Attaches(r, id) == id \notin r.included /\ id \in Detail(r, id).included

Prefix == 40   \* the canonical form and a blank line

\* The result's text ends with a blank line; its attachments follow only if
\* the text fitted.
TextRendered(r, line, attaches) ==
    LET n == TextOf[line] + 2
    IN  IF ~Fits(r.body, n)
        THEN [r EXCEPT !.body = AppendBounded(@, n), !.cut = TRUE, !.pc = "build"]
        ELSE [r EXCEPT !.body = @ + n, !.next = @ + 1,
                       !.attached = IF attaches THEN Append(@, line) ELSE @]

RenderCommand(r) ==
    LET line == r.commands[r.next]
    IN  IF ~Fits(r.body, Prefix)
        THEN [r EXCEPT !.body = AppendBounded(@, Prefix), !.cut = TRUE, !.pc = "build"]
        ELSE IF line \in DOMAIN Saved
        THEN TextRendered([Detail(r, line) EXCEPT !.body = @ + Prefix], line, Attaches(r, line))
        ELSE TextRendered([r EXCEPT !.body = @ + Prefix], line, FALSE)

RenderTimedOut(r) == [r EXCEPT !.body = AppendBounded(@, 70), !.cut = TRUE, !.pc = "build"]

OmissionNotice(ids) == IF ids = {} THEN 0 ELSE 180 + 4 * Cardinality(ids)

\* Mutant of ReplyText: the notice of omitted messages comes last and is cut off.
ReplyTextNoticeLast(r) ==
    LET n == OmissionNotice(r.omitted) + r.body
    IN  CommandReplyTextWithin(Truncate([len |-> n, front |-> n, named |-> r.omitted],
                                        MaxResponseBytes), CommandReplyTextBytes(cfg.limit))

\* buildBoundedCommandReplyMessage: the text reserved a quarter of the limit...
ReplyText(r) ==
    LET whole == [len |-> OmissionNotice(r.omitted) + r.body,
                  front |-> OmissionNotice(r.omitted), named |-> r.omitted]
    IN  CommandReplyTextWithin(Truncate(whole, MaxResponseBytes), CommandReplyTextBytes(cfg.limit))

\* ... attachments dropped from the end while the message is too large...
DropNotice(ids) == 140 + 20 * Cardinality(ids)
RECURSIVE DropTail(_, _, _)
DropTail(text, kept, dropped) ==
    LET t == IF dropped = {} THEN text
             ELSE [len |-> text.len + DropNotice(dropped), front |-> text.front + DropNotice(dropped),
                   named |-> text.named \cup dropped]
    IN  IF Size(t.len, kept) <= cfg.limit \/ kept = <<>>
        THEN [text |-> t, kept |-> kept, dropped |-> dropped]
        ELSE DropTail(text, SubSeq(kept, 1, Len(kept) - 1), dropped \cup {kept[Len(kept)]})

\* ... and the longest prefix of the text that fits, by bisection.
RECURSIVE Bisect(_, _)
Bisect(low, high) ==
    IF low >= high THEN low
    ELSE LET middle == low + (high - low + 1) \div 2
         IN  IF Size(middle, <<>>) <= cfg.limit THEN Bisect(middle, high)
             ELSE Bisect(low, middle - 1)

Built(r, d) ==
    LET t == IF Size(d.text.len, d.kept) <= cfg.limit THEN d.text
             ELSE Truncate(d.text, Bisect(0, d.text.len))
    IN  IF Size(t.len, d.kept) > cfg.limit THEN Gone
        ELSE [r EXCEPT !.text = t, !.attached = d.kept, !.dropped = d.dropped, !.pc = "dial"]

\* tlsDecision: "yes", "no" or "error".
TLSDecision(advertised) ==
    CASE cfg.tls = "off" -> "no"
      [] cfg.tls = "opportunistic" -> IF advertised /\ ~cfg.loopback THEN "yes" ELSE "no"
      [] cfg.tls = "required" -> IF advertised THEN "yes" ELSE "error"

Following == [mail |-> "rcpt", rcpt |-> "data", data |-> "write",
              write |-> "close", close |-> "quit"]

-----------------------------------------------------------------------------
RepliesInit ==
    /\ cfg \in Configs
    /\ session \in [Senders -> {[pc |-> "new", lines |-> m] : m \in Messages}]
    /\ reply = [s \in Senders |-> NoReply]
    /\ archive = DOMAIN Saved

Move(s, pc) == session' = [session EXCEPT ![s].pc = pc]
Extracting == {s \in Senders : session[s].pc = "extract"}

\* messageLines: a slot, or the end of the session's context.
AcquireExtraction(s) ==
    /\ session[s].pc = "new" /\ Cardinality(Extracting) < ExtractionSlots
    /\ Move(s, "extract")
    /\ UNCHANGED <<cfg, reply, archive>>

\* queueReplyContentFunc: never waits for a slot.
Queue(s, r) ==
    reply' = IF cfg.sendReplies /\ Cardinality(InFlight) < ReplySlots
             THEN [reply EXCEPT ![s] = r] ELSE reply

\* Extraction failed, was interrupted or the first line is no command: the
\* reply says so, nothing is executed.
Refuse(s) ==
    /\ \/ session[s].pc = "new"
       \/ session[s].pc = "extract"
    /\ Queue(s, NewReply(<<>>, 3000))
    /\ Move(s, "done")
    /\ UNCHANGED <<cfg, archive>>

\* The lines are parsed and executed (a failing operation only changes the
\* text of its result), one reply is queued and the message is discarded.
ExecuteAll(s) ==
    /\ session[s].pc = "extract"
    /\ LET commands == CommandsOf(session[s].lines)
       IN  Queue(s, NewReply(commands, IF commands = <<>> THEN 3000 ELSE 0))
    /\ Move(s, "done")
    /\ UNCHANGED <<cfg, archive>>

Advance(s, r) == reply' = [reply EXCEPT ![s] = r] /\ UNCHANGED <<cfg, session, archive>>

Render(s) ==
    /\ reply[s].pc = "render"
    /\ IF reply[s].next > Len(reply[s].commands)
       THEN Advance(s, [reply[s] EXCEPT !.pc = "build"])
       ELSE Advance(s, RenderCommand(reply[s]))
RenderTimeout(s) ==
    /\ reply[s].pc = "render" /\ reply[s].next <= Len(reply[s].commands)
    /\ Advance(s, RenderTimedOut(reply[s]))

\* A renderer panics: the worker logs it and gives its slot back.
RenderPanic(s) == reply[s].pc = "render" /\ Advance(s, Gone)

Build(s) ==
    /\ reply[s].pc = "build"
    /\ Advance(s, Built(reply[s], DropTail(ReplyText(reply[s]), reply[s].attached, {})))

Dial(s) ==
    /\ reply[s].pc = "dial"
    /\ \E advertised \in BOOLEAN :
          Advance(s, [reply[s] EXCEPT !.pc = "tls", !.advertised = advertised])

StartTLS(s) ==
    /\ reply[s].pc = "tls"
    /\ TLSDecision(reply[s].advertised) # "error"
    /\ Advance(s, [reply[s] EXCEPT !.tls = TLSDecision(reply[s].advertised) = "yes", !.pc = "mail"])

\* MAIL, RCPT, DATA, the payload and the final dot, one after the other.
Transact(s) ==
    /\ reply[s].pc \in DOMAIN Following
    /\ Advance(s, [reply[s] EXCEPT !.delivered = reply[s].pc = "close", !.pc = Following[@]])

\* Send returns: after QUIT, or because a stage failed (a TLSDecision of
\* "error" included) or ran into the timeout, which closes the connection.
SendEnds(s) ==
    /\ reply[s].pc \in {"dial", "tls", "quit"} \cup DOMAIN Following
    /\ Advance(s, Gone)

\* Retention removes a saved message.
Expire(id) ==
    /\ archive' = archive \ {id}
    /\ UNCHANGED <<cfg, session, reply>>

WorkerStep(s) ==
    Render(s) \/ RenderTimeout(s) \/ RenderPanic(s) \/ Build(s) \/ Dial(s) \/ StartTLS(s)
    \/ Transact(s) \/ SendEnds(s)
SessionStep(s) == AcquireExtraction(s) \/ Refuse(s) \/ ExecuteAll(s)

RepliesNext ==
    \/ \E s \in Senders : WorkerStep(s) \/ SessionStep(s)
    \/ \E id \in archive \cap Expiring : Expire(id)

\* What a sender's message still keeps busy: its session or its reply worker.
\* Until then one of the two can take a step: neither waits without a way out.
Answered(s) == session[s].pc = "done" /\ s \notin InFlight
SenderStep(s) == WorkerStep(s) \/ SessionStep(s)

-----------------------------------------------------------------------------
(* Properties                                                              *)

\* The front notices fit into the quarter of the limit the text may use.
Roomy == CommandReplyTextBytes(cfg.limit) >= 600

\* A reply that is sent fits the message size limit, as measured (Size) and as
\* written (Build): the base64 line arithmetic of the two agrees.  And with
\* headers within the 4096 bytes reserved for them the attachment budget is
\* enough: no attachment a renderer was granted has to be dropped later.
ReplyFits ==
    \A s \in InFlight :
        LET r == reply[s]
        IN  /\ r.remaining >= 0
            /\ \A i \in 1..Len(r.attached) :
                  WrittenBase64(Saved[r.attached[i]]) = MeasuredBase64(Saved[r.attached[i]])
            /\ r.pc \notin {"render", "build"} =>
                  /\ Size(r.text.len, r.attached) <= cfg.limit
                  /\ r.dropped = {}

\* No reply conceals that something is missing: a saved message whose result
\* was rendered in full is attached, was already gone from the archive, or is
\* named in front of the text; and a reply that does not hold the result of
\* every command of the message ends in a notice that says so.
ReplyHonest ==
    \A s \in InFlight :
        LET r == reply[s]
        IN  r.pc \notin {"render", "build"} /\ Roomy =>
              /\ r.omitted \cup r.dropped \subseteq r.text.named
              /\ ~r.cut => r.included \subseteq
                              {r.attached[i] : i \in 1..Len(r.attached)} \cup r.text.named
              /\ r.next <= Len(r.commands) => r.cut

\* Replies and extractions hold at most their slots, each message gets at most
\* one reply, and a delivered reply went through TLS whenever the policy and
\* the server's answer asked for it.
SlotsBounded ==
    /\ Cardinality(InFlight) <= ReplySlots
    /\ Cardinality(Extracting) <= ExtractionSlots
    /\ \A s \in InFlight :
         reply[s].delivered =>
            /\ cfg.tls = "required" => reply[s].tls
            /\ cfg.tls = "opportunistic" /\ reply[s].advertised /\ ~cfg.loopback => reply[s].tls

\* A reply fits into the limit, says what it leaves out, and takes a slot that
\* comes back (queueReplyContentFunc, buildBoundedCommandReplyMessage).
ReplySound == ReplyFits /\ ReplyHonest /\ SlotsBounded

=============================================================================
