--------------------------- MODULE MilterSession ---------------------------
(***************************************************************************)
(* One Milter connection of MilterGuard: the protocol phases of            *)
(* session_protocol.go and the end-of-message pipeline of session.go.      *)
(*                                                                         *)
(* The mail server (MTA) sends one command and waits for its reply, so a   *)
(* command and its reply are one action.  The reply to end-of-body is the  *)
(* exception: finishMessage runs policy after policy, each may wait, and   *)
(* the transport, the message deadline and a shutdown may interfere        *)
(* between any two of them.  "stage" is the position in finishMessage.     *)
(*                                                                         *)
(* A write fails exactly when the transport is gone.  A reply that cannot  *)
(* be written ends the session with the same state as HangUp does, so the  *)
(* handlers of the plain commands only show the written reply.             *)
(***************************************************************************)
EXTENDS Naturals, Sequences, FiniteSets

CONSTANTS
  Configs,          \* the configurations a run explores
  Offers,           \* the sets of modifications the MTA may offer
  Macros,           \* the macro frames the MTA may send
  Peers,            \* the kinds of client address a CONNECT may carry
  Senders,          \* the mailboxes a From header may name
  Headers,          \* the header frames the MTA may send
  Mailboxes,        \* the recipients the MTA may send
  CommandMailbox,   \* the configured command recipient
  BadMailbox,       \* a recipient that does not normalize
  MaxRecipients,    \* maxEnvelopeRecipients
  MaxSenders        \* maxSenderBlockAddresses

VARIABLES
  cfg,        \* the configuration, fixed for the life of the session
  phase,      \* protocolPhase
  running,    \* session.run has not returned
  alive,      \* the transport accepts writes
  shutdown,   \* the context of the session is cancelled
  expired,    \* the deadline of the message context has passed
  caps,       \* negotiatedActions
  conn,       \* the identity of the SMTP connection
  msg,        \* the state of the current message
  openExact,  \* exact-message objects created and not closed
  stage,      \* the position in finishMessage, "idle" outside it
  due,        \* the updates that follow the final response
  wire,       \* what the MTA was sent about the current message
  effects,    \* persistent updates made for the current message
  activity    \* activity events recorded for the current message

vars == <<cfg, phase, running, alive, shutdown, expired, caps, conn, msg,
          openExact, stage, due, wire, effects, activity>>

Actions == {"accept", "reject", "tempfail"}
Finals == Actions \cup {"discard"}
Phases == {"negotiation", "connection", "envelope", "body"}
Stages == {"idle", "internal", "command", "protected", "blocklist",
           "authenticated", "attachments", "verify", "evidence", "analyse",
           "post"}
Capabilities == {"change", "add", "delrcpt"}
Adaptive == {"strike", "credit", "learn", "touch", "classify"}
Updates == Adaptive \cup {"rejection", "removal", "executed", "reply"}
Events == {"scan", "ip", "correspondent", "trustedDomain", "attachment",
           "protected", "blocklist", "htmlDoS", "htmlLimit", "incomplete"}
Outcomes == {"accepted", "rejected", "tempfailed", "responseFailed"}
Activity == [event : Events, outcome : Outcomes]

Config == [mode : {"enforce", "accept"}, scanAuthenticated : BOOLEAN,
           commands : BOOLEAN, attachments : BOOLEAN,
           invalidMIME : {"accept", "reject"}, unscannable : Actions,
           encrypted : Actions, attachmentStrike : BOOLEAN,
           internalAuth : BOOLEAN, addHeaders : BOOLEAN,
           domainAllowlist : BOOLEAN, requireTrust : BOOLEAN,
           aiError : {"accept", "tempfail"},
           htmlLimit : {"fallback", "reject", "dos-reject"},
           incompleteBody : {"scan", "reject"}]

\* A From header carries the mailboxes its strict parse yields; "valid" says
\* it names one usable mailbox, "protected" that a mailbox it names (or one
\* recovered from a malformed list) is in an authenticated-only domain.
Header == [kind : {"from", "result", "marker", "other"},
           boxes : SUBSET Senders, valid : BOOLEAN, protected : BOOLEAN]

Macro == [target : {"connect", "helo", "mail", "data", "eoh", "eob"},
          host : {"absent", "empty", "valid"},
          user : {"absent", "empty", "valid"}]

ASSUME SessionAssumption ==
  /\ Configs \subseteq Config /\ Configs # {}
  /\ Offers \subseteq SUBSET Capabilities
  /\ Macros \subseteq Macro
  /\ Peers \subseteq {"none", "local", "public"}
  /\ Headers \subseteq Header
  /\ IsFiniteSet(Mailboxes) /\ IsFiniteSet(Senders)
  /\ MaxRecipients \in Nat \ {0} /\ MaxSenders \in Nat \ {0}

-----------------------------------------------------------------------------
(* State of a connection and of a message, and their resets. *)

Connection == [connected : BOOLEAN, ip : {"none", "local", "public"},
               auth : BOOLEAN, mta : BOOLEAN, pendingMta : BOOLEAN,
               helo : BOOLEAN, dns : {"none", "pending", "plain", "excluded"}]

NoConnection == [connected |-> FALSE, ip |-> "none", auth |-> FALSE,
                 mta |-> FALSE, pendingMta |-> FALSE, helo |-> FALSE,
                 dns |-> "none"]

Message == [rcpts : Seq(Mailboxes), truncated : BOOLEAN, froms : 0 .. 2,
            fromValid : BOOLEAN, visible : BOOLEAN, boxes : SUBSET Senders,
            boxesTruncated : BOOLEAN, protected : BOOLEAN,
            counterfeit : BOOLEAN, marker : BOOLEAN,
            blocked : SUBSET Mailboxes, trust : BOOLEAN,
            exact : {"none", "open", "broken", "failed"}]

EmptyMessage == [rcpts |-> <<>>, truncated |-> FALSE, froms |-> 0,
                 fromValid |-> FALSE, visible |-> FALSE, boxes |-> {},
                 boxesTruncated |-> FALSE, protected |-> FALSE,
                 counterfeit |-> FALSE, marker |-> FALSE, blocked |-> {},
                 trust |-> FALSE, exact |-> "none"]

Wire == [finals : Nat, final : Finals \cup {"none"},
         deleted : SUBSET Mailboxes, stripped : BOOLEAN, added : BOOLEAN,
         unmarked : BOOLEAN]

NoWire == [finals |-> 0, final |-> "none", deleted |-> {},
           stripped |-> FALSE, added |-> FALSE, unmarked |-> FALSE]

\* The recipients an update is about are those that policyEnvelopeRecipients
\* gave when it became due.
Due == [updates : SUBSET Updates, await : BOOLEAN, events : SUBSET Activity,
        to : SUBSET Mailboxes]

NoDue == [updates |-> {}, await |-> FALSE, events |-> {}, to |-> {}]

CtxDone == shutdown \/ expired

\* The exact-message object is held while it is open, also after a failed write.
Held(m) == IF m.exact \in {"open", "broken"} THEN 1 ELSE 0

closeExactMessage(m) ==
  [m EXCEPT !.exact = CASE m.exact = "open" -> "none"
                        [] m.exact = "broken" -> "failed"
                        [] OTHER -> m.exact]

captureExact(m) ==
  IF m.exact = "open" THEN {m, [m EXCEPT !.exact = "broken"]} ELSE {m}

\* The factory is called for a new message under internal authentication only,
\* and it may fail.
newExact(p) ==
  IF p = "envelope" /\ cfg.internalAuth THEN {"open", "failed"} ELSE {"none"}

\* Mutant: the pending recipient removals outlive their message.
resetMessageKeepsBlocked(p) ==
  /\ phase' = p
  /\ \E e \in newExact(p) :
       /\ msg' = [EmptyMessage EXCEPT !.exact = e, !.blocked = msg.blocked]
       /\ openExact' = (openExact - Held(msg)) + (IF e = "open" THEN 1 ELSE 0)

resetMessage(p) ==
  /\ phase' = p
  /\ \E e \in newExact(p) :
       /\ msg' = [EmptyMessage EXCEPT !.exact = e]
       /\ openExact' = (openExact - Held(msg)) + (IF e = "open" THEN 1 ELSE 0)

\* Mutant: the state of the lookup is used without waiting for it.
awaitConnectionDNSNever(c) == {c}

\* awaitConnectionDNS: the result or, when its context ends first, a failed
\* lookup; nothing is pending afterwards.  "excluded" is a confirmed name of
\* an allowlisted domain (domainAllowed).
awaitConnectionDNS(c) ==
  IF c.dns # "pending" THEN {c}
  ELSE {[c EXCEPT !.dns = d] :
          d \in {"plain"} \cup (IF cfg.domainAllowlist THEN {"excluded"} ELSE {})}

\* Mutant: an interrupted message is dropped and the session goes on.
EndSessionKeepsRunning ==
  /\ running' = alive /\ alive' = alive /\ stage' = "idle"
  /\ msg' = closeExactMessage(msg)
  /\ openExact' = openExact - Held(msg)
  /\ expired' = FALSE /\ due' = NoDue

\* session.run returns: the deferred calls close the exact message and the
\* server closes the connection.
EndSession ==
  /\ running' = FALSE /\ alive' = FALSE /\ stage' = "idle"
  /\ msg' = closeExactMessage(msg)
  /\ openExact' = openExact - Held(msg)
  /\ expired' = FALSE /\ due' = NoDue

-----------------------------------------------------------------------------
(* Commands of the MTA outside finishMessage. *)

admitted(command) ==
  IF phase = "negotiation" THEN command \in {"optneg", "macro", "quit"}
  ELSE CASE command = "connect" -> phase = "connection" /\ ~conn.connected
         [] command \in {"helo", "mail"} -> phase = "connection" /\ conn.connected
         [] command \in {"rcpt", "data", "header", "eoh"} -> phase = "envelope"
         [] command \in {"body", "eob"} -> phase = "body"
         [] command = "optneg" -> FALSE
         [] OTHER -> TRUE

Command(command) == running /\ alive /\ stage = "idle" /\ admitted(command)

messageVars == <<msg, openExact>>
pipelineVars == <<stage, due, expired>>
ghostVars == <<wire, effects, activity>>

negotiate ==
  /\ Command("optneg")
  /\ \E offer \in Offers : caps' = offer
  /\ phase' = "connection"
  /\ UNCHANGED <<cfg, running, alive, shutdown, conn, messageVars,
                 pipelineVars, ghostVars>>

captureSessionMacros ==
  /\ Command("macro")
  /\ \E m \in Macros :
       LET hosted == IF m.host = "absent" THEN conn
                     ELSE IF m.target = "connect"
                          THEN [conn EXCEPT !.pendingMta = m.host = "valid"]
                     ELSE IF conn.connected
                          THEN [conn EXCEPT !.mta = m.host = "valid"]
                     ELSE conn
           authenticates == /\ conn.connected /\ m.user # "absent"
                            /\ m.target \in {"mail", "data", "eoh", "eob"}
       IN conn' = IF authenticates
                  THEN [hosted EXCEPT !.auth = m.user = "valid"] ELSE hosted
  /\ UNCHANGED <<cfg, phase, running, alive, shutdown, caps, messageVars,
                 pipelineVars, ghostVars>>

Abort ==
  /\ Command("abort")
  /\ resetMessage("connection")
  /\ UNCHANGED <<cfg, running, alive, shutdown, caps, conn, pipelineVars,
                 ghostVars>>

QuitSMTPConnection ==
  /\ Command("quit_nc")
  /\ conn' = NoConnection
  /\ resetMessage("connection")
  /\ UNCHANGED <<cfg, running, alive, shutdown, caps, pipelineVars, ghostVars>>

Connect ==
  /\ Command("connect")
  /\ \E peer \in Peers :
       conn' = [NoConnection EXCEPT
                  !.connected = TRUE, !.ip = peer, !.mta = conn.pendingMta,
                  !.dns = IF peer = "public" THEN "pending" ELSE "none"]
  /\ UNCHANGED <<cfg, phase, running, alive, shutdown, caps, messageVars,
                 pipelineVars, ghostVars>>

Helo ==
  /\ Command("helo")
  /\ \E usable \in BOOLEAN : conn' = [conn EXCEPT !.helo = usable]
  /\ UNCHANGED <<cfg, phase, running, alive, shutdown, caps, messageVars,
                 pipelineVars, ghostVars>>

\* rejectReputationIP: only an unauthenticated client with an address can be
\* blocked, and not one whose reverse DNS excludes it.  Whether the address
\* has an active block is the reputation store's answer.
rejectReputationIP(c) ==
  /\ cfg.mode = "enforce" /\ ~c.auth /\ c.ip # "none" /\ c.dns # "excluded"

\* The lookup of the IP waits for reverse DNS only when domains are excluded.
lookupReputation ==
  IF cfg.mode = "enforce" /\ ~conn.auth /\ conn.ip # "none" /\ cfg.domainAllowlist
  THEN awaitConnectionDNS(conn) ELSE {conn}

Mail ==
  /\ Command("mail")
  /\ conn' \in lookupReputation
  /\ wire' = NoWire /\ effects' = {}
  /\ \/ /\ rejectReputationIP(conn')
        /\ activity' = {[event |-> "ip", outcome |-> "rejected"]}
        /\ UNCHANGED <<phase, messageVars>>
     \/ /\ resetMessage("envelope")
        /\ activity' = {}
  /\ UNCHANGED <<cfg, running, alive, shutdown, caps, pipelineVars>>

\* A recipient that does not parse, or that exceeds the cap, is not kept, and
\* the set is known to be incomplete.
Recipient ==
  /\ Command("rcpt")
  /\ \E m \in Mailboxes, parsed \in BOOLEAN :
       msg' = IF parsed /\ Len(msg.rcpts) < MaxRecipients
              THEN [msg EXCEPT !.rcpts = Append(@, m)]
              ELSE [msg EXCEPT !.truncated = TRUE]
  /\ UNCHANGED <<cfg, phase, running, alive, shutdown, caps, conn, openExact,
                 pipelineVars, ghostVars>>

\* Commands that are answered and change nothing.
DataOrUnknown ==
  /\ Command("data") \/ Command("unknown")
  /\ UNCHANGED vars

\* The sender set of the blocklist keeps the first MaxSenders distinct
\* mailboxes; dropping one marks it truncated.
collectSenders(m, boxes) ==
  LET fresh == boxes \ m.boxes
      room == MaxSenders - Cardinality(m.boxes)
  IN IF Cardinality(fresh) <= room THEN {[m EXCEPT !.boxes = @ \cup boxes]}
     ELSE {[m EXCEPT !.boxes = @ \cup kept, !.boxesTruncated = TRUE] :
             kept \in {k \in SUBSET fresh : Cardinality(k) = room}}

recordHeader(m, h) ==
  CASE h.kind = "from" ->
         collectSenders([m EXCEPT !.froms = IF @ < 2 THEN @ + 1 ELSE @,
                                  !.fromValid = h.valid,
                                  !.protected = @ \/ h.protected], h.boxes)
    [] h.kind = "result" -> {[m EXCEPT !.counterfeit = TRUE]}
    [] h.kind = "marker" -> {[m EXCEPT !.marker = TRUE]}
    [] OTHER -> {m}

addHeader ==
  /\ Command("header")
  /\ \E h \in Headers : \E m \in recordHeader(msg, h) : msg' \in captureExact(m)
  /\ UNCHANGED <<cfg, phase, running, alive, shutdown, caps, conn, openExact,
                 pipelineVars, ghostVars>>

EndHeaders ==
  /\ Command("eoh")
  /\ phase' = "body"
  /\ msg' \in captureExact(msg)
  /\ UNCHANGED <<cfg, running, alive, shutdown, caps, conn, openExact,
                 pipelineVars, ghostVars>>

Body ==
  /\ Command("body")
  /\ msg' \in captureExact(msg)
  /\ UNCHANGED <<cfg, phase, running, alive, shutdown, caps, conn, openExact,
                 pipelineVars, ghostVars>>

\* End-of-body enters finishMessage; the visible sender is usable only when
\* there is exactly one From header and it names one mailbox.
EndBody ==
  /\ Command("eob")
  /\ \E m \in captureExact(msg) :
       msg' = [m EXCEPT !.visible = m.froms = 1 /\ m.fromValid]
  /\ stage' = "internal"
  /\ UNCHANGED <<cfg, phase, running, alive, shutdown, caps, conn, openExact,
                 due, expired, ghostVars>>

\* A command that the phase does not admit, a malformed frame and QUIT all
\* end the session.
Leave ==
  /\ running /\ alive /\ stage = "idle"
  /\ EndSession
  /\ UNCHANGED <<cfg, phase, shutdown, caps, conn, ghostVars>>

\* The read fails: the peer is gone, a frame stalled, or shutdown closed the
\* connection.
HangUp ==
  /\ running /\ ~alive /\ stage = "idle"
  /\ EndSession
  /\ UNCHANGED <<cfg, phase, shutdown, caps, conn, ghostVars>>

-----------------------------------------------------------------------------
(* Final responses. *)

selectActionForMode(proposed) ==
  IF cfg.mode = "enforce" THEN proposed ELSE "accept"

activityOutcome(final) ==
  CASE final = "reject" -> "rejected"
    [] final = "tempfail" -> "tempfailed"
    [] OTHER -> "accepted"

record(event, outcome) ==
  IF event = "none" THEN {} ELSE {[event |-> event, outcome |-> outcome]}


\* writeAcceptedResultHeaders and replaceResultHeaders: counterfeit results are
\* deleted when headers may be changed, and genuine ones are added only when
\* no counterfeit one stays.
resultHeaders(w) ==
  [w EXCEPT
     !.stripped = msg.counterfeit /\ "change" \in caps,
     !.added = /\ cfg.addHeaders /\ "add" \in caps
               /\ msg.counterfeit => "change" \in caps]

\* Mutant: recipients are deleted before any final response.
policyResponseAlwaysDeletes(w, final) ==
  [(IF final = "accept" THEN resultHeaders(w) ELSE w)
     EXCEPT !.deleted = msg.blocked, !.final = final, !.finals = @ + 1]

\* writePolicyResponse: recipient deletions immediately before an acceptance.
policyResponse(w, final) ==
  [(IF final = "accept" THEN [resultHeaders(w) EXCEPT !.deleted = msg.blocked]
                        ELSE w)
     EXCEPT !.final = final, !.finals = @ + 1]

\* The frames are written, the activity event is recorded and the updates in
\* d become due; or a write fails, after some of the deletions, the event is
\* recorded as a failed response, and the session ends.
Respond(w, final, event, d) ==
  \/ /\ alive
     /\ wire' = policyResponse(w, final)
     /\ activity' = activity \cup record(event, activityOutcome(final))
     /\ stage' = "post" /\ due' = d
     /\ UNCHANGED <<running, alive, expired, messageVars>>
  \/ /\ \E part \in SUBSET (IF alive /\ final = "accept" THEN msg.blocked ELSE {}) :
          wire' = [w EXCEPT !.deleted = part]
     /\ activity' = activity \cup record(event, "responseFailed")
     /\ EndSession

Then(next) ==
  /\ stage' = next
  /\ UNCHANGED <<running, alive, expired, due, messageVars, ghostVars>>

Frame == UNCHANGED <<cfg, phase, shutdown, caps>>

\* completeSenderBlocklistRemoval, after an acceptance.
removal ==
  IF msg.blocked = {} THEN NoDue
  ELSE [NoDue EXCEPT !.updates = {"removal"},
                     !.events = record("blocklist", "accepted")]

envelope == {msg.rcpts[i] : i \in DOMAIN msg.rcpts}

\* Mutant: what is learned is learned for the whole envelope.
policyEnvelopeRecipientsAll == envelope

policyEnvelopeRecipients == envelope \ msg.blocked

\* finishBypassedMessage.
finishBypassedMessage(w, source, event, learn, touch) ==
  Respond(w, "accept", event,
    [removal EXCEPT !.to = policyEnvelopeRecipients, !.updates = @ \cup
       (IF cfg.mode # "enforce" THEN {}
        ELSE (IF ~conn.auth /\ source \in {"known", "allowlist"} THEN {"credit"} ELSE {})
             \cup (IF learn THEN {"learn"} ELSE {})
             \cup (IF touch THEN {"touch"} ELSE {}))])

-----------------------------------------------------------------------------
(* finishMessage, one action per policy. *)

isInternalMessage == msg.marker /\ conn.ip \in {"none", "local"}

finishInternalMessage ==
  /\ stage = "internal"
  /\ \/ ~isInternalMessage /\ Then("command")
     \/ /\ isInternalMessage /\ "change" \notin caps
        /\ Respond(wire, "tempfail", "none", NoDue)
     \/ /\ isInternalMessage /\ "change" \in caps
        /\ finishBypassedMessage([wire EXCEPT !.unmarked = TRUE], "internal",
                                 "none", FALSE, FALSE)
  /\ Frame /\ UNCHANGED <<conn, effects>>

hasCommandRecipient == cfg.commands /\ CommandMailbox \in envelope


soleRecipient == Len(msg.rcpts) = 1 /\ ~msg.truncated

\* The commands run before the message is discarded.  Authorization of the
\* identity, the reply address and the body are inputs; a reply is queued
\* when replies are enabled and a reply slot is free.
handleEmailCommand ==
  /\ stage = "command"
  /\ \/ ~hasCommandRecipient /\ Then("protected") /\ UNCHANGED effects
     \/ /\ hasCommandRecipient
        /\ Respond(wire, "reject", "none", NoDue)
        /\ UNCHANGED effects
     \/ /\ hasCommandRecipient /\ soleRecipient /\ conn.auth
        /\ \E done \in SUBSET {"executed", "reply"} : effects' = effects \cup done
        /\ Respond(wire, "discard", "none", NoDue)
  /\ Frame /\ UNCHANGED conn

applyAuthenticatedOnlySenderDomain ==
  /\ stage = "protected"
  /\ LET selected == selectActionForMode("reject") IN
     \/ (conn.auth \/ ~msg.protected) /\ Then("blocklist")
     \/ /\ ~conn.auth /\ msg.protected /\ selected = "reject"
        /\ Respond(wire, selected, "protected",
             [NoDue EXCEPT !.updates = {"rejection", "strike"}, !.await = TRUE])
     \/ /\ ~conn.auth /\ msg.protected /\ selected = "accept"
        /\ Respond(wire, selected, "none", NoDue)
  /\ Frame /\ UNCHANGED <<conn, effects>>

recipientSetComplete ==
  ~msg.truncated /\ msg.rcpts # <<>> /\ BadMailbox \notin envelope

blocklistApplies ==
  ~conn.auth /\ msg.boxes # {} /\ ~msg.boxesTruncated /\ recipientSetComplete

\* "blocked" is what MatchSenderBlocks answers; an error is an empty answer.
applySenderBlocklist ==
  /\ stage = "blocklist"
  /\ \/ ~blocklistApplies /\ Then("authenticated")
     \/ /\ blocklistApplies
        /\ \E blocked \in SUBSET envelope :
             \/ /\ \/ blocked = {} \/ cfg.mode # "enforce"
                   \/ blocked # envelope /\ "delrcpt" \notin caps
                /\ Then("authenticated")
             \/ /\ blocked = envelope /\ cfg.mode = "enforce"
                /\ Respond(wire, "reject", "none",
                     [NoDue EXCEPT !.updates = {"rejection"},
                                   !.events = record("blocklist", "rejected")])
             \/ /\ blocked \notin {{}, envelope} /\ cfg.mode = "enforce"
                /\ "delrcpt" \in caps
                /\ msg' = [msg EXCEPT !.blocked = blocked]
                /\ stage' = "authenticated"
                /\ UNCHANGED <<running, alive, expired, due, openExact, ghostVars>>
  /\ Frame /\ UNCHANGED <<conn, effects>>

bypassAuthenticated ==
  /\ stage = "authenticated"
  /\ \/ (~conn.auth \/ cfg.scanAuthenticated) /\ Then("attachments")
     \/ /\ conn.auth /\ ~cfg.scanAuthenticated
        /\ finishBypassedMessage(wire, "authenticated", "none", TRUE, FALSE)
  /\ Frame /\ UNCHANGED <<conn, effects>>

\* finishAttachmentDecision; a strike is for a finding only.
finishAttachmentDecision(proposed, finding) ==
  LET selected == selectActionForMode(proposed)
      strikes == finding /\ cfg.attachmentStrike /\ ~conn.auth
  IN CASE selected = "accept" -> Respond(wire, selected, "none", removal)
       [] selected = "tempfail" -> Respond(wire, selected, "none", NoDue)
       [] OTHER -> Respond(wire, selected, "attachment",
                     [NoDue EXCEPT
                        !.updates = {"rejection"} \cup
                                    (IF strikes THEN {"strike"} ELSE {}),
                        !.await = strikes])

\* The configured action for each way an inspection can be incomplete.
configuredAction(problem) ==
  CASE problem = "malformed" -> cfg.invalidMIME
    [] problem = "encrypted" -> cfg.encrypted
    [] OTHER -> cfg.unscannable

\* A progress frame, the wait for a scanner slot, the scan and its decision.
\* A cancelled wait ends the session without a response.
applyAttachments ==
  /\ stage = "attachments"
  /\ \/ ~cfg.attachments /\ Then("verify")
     \/ /\ cfg.attachments /\ (~alive \/ CtxDone)
        /\ EndSession /\ UNCHANGED ghostVars
     \/ cfg.attachments /\ alive /\ Then("verify")
     \/ /\ cfg.attachments /\ alive
        /\ finishAttachmentDecision("reject", TRUE)
     \/ /\ cfg.attachments /\ alive
        /\ \E problem \in {"malformed", "encrypted", "unscannable"} :
             IF configuredAction(problem) = "accept" THEN Then("verify")
             ELSE finishAttachmentDecision(configuredAction(problem), FALSE)
  /\ Frame /\ UNCHANGED <<conn, effects>>

\* Mutant: a failed progress frame leaves the session waiting for its worker.
verifyAuthenticationStuck ==
  /\ stage = "verify"
  /\ \/ /\ alive
        /\ \E trust \in BOOLEAN :
             msg' = [closeExactMessage(msg) EXCEPT !.trust = trust]
        /\ openExact' = openExact - Held(msg)
        /\ stage' = "evidence"
     \/ ~alive /\ UNCHANGED <<msg, openExact, stage>>
  /\ Frame /\ UNCHANGED <<running, alive, expired, due, conn, ghostVars>>

\* verifyAuthenticationWithProgress and closeExactMessage.  A verifier error,
\* an ended context and a failed progress frame all leave no trust, and the
\* pipeline goes on.
verifyAuthentication ==
  /\ stage = "verify"
  /\ \E trust \in BOOLEAN :
       /\ trust => ~(cfg.internalAuth /\ conn.auth)
       /\ msg' = [closeExactMessage(msg) EXCEPT !.trust = trust]
  /\ openExact' = openExact - Held(msg)
  /\ stage' = "evidence"
  /\ Frame /\ UNCHANGED <<running, alive, expired, due, conn, ghostVars>>

\* prepareInboundEvidence and the two bypasses it can grant.  Whether the
\* visible domain is allowlisted and the sender a known correspondent are
\* inputs.
prepareInboundEvidence ==
  /\ stage = "evidence"
  /\ LET trusted == cfg.requireTrust => msg.trust IN
     \E domain, known \in BOOLEAN :
       /\ (domain \/ known) => ~conn.auth /\ msg.visible
       /\ LET allowed == domain /\ trusted
              bypassAI == known /\ recipientSetComplete /\ trusted
          IN \/ /\ allowed
                /\ finishBypassedMessage(wire, "allowlist", "trustedDomain",
                                         FALSE, known /\ msg.trust)
             \/ /\ ~allowed /\ bypassAI
                /\ finishBypassedMessage(wire, "known", "correspondent",
                                         FALSE, msg.trust)
             \/ ~allowed /\ ~bypassAI /\ Then("analyse")
  /\ Frame /\ UNCHANGED <<conn, effects>>

\* What evaluate can return: a verdict, a policy rejection for an exceeded
\* resource limit or an incomplete body, or a failure, which may follow an
\* exceeded limit when the deadline passes during extraction.
Evaluations ==
  {[kind |-> k, limit |-> FALSE] : k \in {"legitimate", "doubtful", "unwanted", "failed"}}
  \cup [kind : {"limit"}, limit : {l \in {TRUE} : cfg.htmlLimit # "fallback"}]
  \cup [kind : {"incomplete"}, limit : {l \in {FALSE} : cfg.incompleteBody = "reject"}]
  \cup [kind : {"failed"}, limit : {TRUE}]

analysisFailure ==
  IF cfg.mode = "enforce" /\ cfg.aiError = "tempfail" THEN "tempfail" ELSE "accept"

selectedAction(r) ==
  CASE r.kind = "failed" -> analysisFailure
    [] r.kind \in {"limit", "incomplete", "unwanted"} -> selectActionForMode("reject")
    [] OTHER -> "accept"

\* recordScan: the event type follows the limit flags, also on a failure.
scanEvent(r) ==
  CASE r.kind = "incomplete" -> "incomplete"
    [] r.limit /\ cfg.htmlLimit = "dos-reject" -> "htmlDoS"
    [] r.limit /\ cfg.htmlLimit = "reject" -> "htmlLimit"
    [] OTHER -> "scan"

\* applyPostDecisionUpdates: neutral are the rejections that are no evidence
\* against the sender.
postDecisionUpdates(r) ==
  LET rejected == selectedAction(r) = "reject"
      neutral == r.kind = "incomplete" \/ (r.limit /\ cfg.htmlLimit = "reject")
  IN IF cfg.mode # "enforce" THEN {}
     ELSE (IF rejected THEN {"rejection"} ELSE {})
          \cup (IF rejected /\ ~conn.auth /\ ~neutral THEN {"strike"} ELSE {})
          \cup (IF ~conn.auth /\ r.kind = "legitimate" THEN {"credit"} ELSE {})
          \cup (IF selectedAction(r) = "accept" /\ conn.auth THEN {"learn"} ELSE {})
          \cup (IF ~conn.auth /\ r.kind # "failed" /\ msg.visible /\ ~neutral
                THEN {"classify"} ELSE {})

\* A rejection concerns all recipients, also those the blocklist would remove.
updateRecipients(r) ==
  IF selectedAction(r) = "reject" THEN envelope ELSE policyEnvelopeRecipients

\* evaluateWithProgress, evaluateMessage and evaluate up to the response.  An
\* ended context or a failed progress frame ends the session unanswered.
evaluateMessage ==
  /\ stage = "analyse"
  /\ \E r \in Evaluations :
       /\ IF r.kind = "failed" THEN conn' \in {conn} \cup awaitConnectionDNS(conn)
          ELSE conn' \in awaitConnectionDNS(conn)
       /\ \/ /\ CtxDone \/ ~alive
             /\ EndSession
             /\ activity' = activity \cup record(scanEvent(r), "responseFailed")
             /\ UNCHANGED wire
          \/ LET accepted == selectedAction(r) = "accept"
                 base == IF accepted THEN removal ELSE NoDue
             IN Respond(wire, selectedAction(r), scanEvent(r),
                        [base EXCEPT !.to = updateRecipients(r),
                                     !.updates = @ \cup postDecisionUpdates(r)])
  /\ Frame /\ UNCHANGED effects

\* The updates that follow the response, on contexts of their own: reputation
\* skips an excluded or unknown address.  Then the message is reset.
finishUpdates ==
  /\ stage = "post"
  /\ conn' \in IF due.await THEN awaitConnectionDNS(conn) ELSE {conn}
  /\ effects' = effects \cup
       {u \in due.updates : u = "strike" => conn'.ip # "none" /\ conn'.dns # "excluded"}
  /\ activity' = activity \cup due.events
  /\ resetMessage("connection")
  /\ stage' = "idle" /\ due' = NoDue /\ expired' = FALSE
  /\ UNCHANGED <<cfg, running, alive, shutdown, caps, wire>>

-----------------------------------------------------------------------------
(* The environment. *)

\* The peer or the network drops the connection.
Break ==
  /\ running /\ alive /\ alive' = FALSE
  /\ UNCHANGED <<cfg, phase, running, shutdown, caps, conn, messageVars,
                 pipelineVars, ghostVars>>

\* analysisTimeout passes while finishMessage is still deciding.
Expire ==
  /\ stage \notin {"idle", "post"} /\ ~expired /\ expired' = TRUE
  /\ UNCHANGED <<cfg, phase, running, alive, shutdown, caps, conn, messageVars,
                 stage, due, ghostVars>>

\* The server cancels the context of its sessions ...
Shutdown ==
  /\ running /\ ~shutdown /\ shutdown' = TRUE
  /\ UNCHANGED <<cfg, phase, running, alive, caps, conn, messageVars,
                 pipelineVars, ghostVars>>

\* ... and the AfterFunc of run closes the connection.
CloseOnShutdown ==
  /\ running /\ shutdown /\ alive /\ alive' = FALSE
  /\ UNCHANGED <<cfg, phase, running, shutdown, caps, conn, messageVars,
                 pipelineVars, ghostVars>>

\* A closed session stays closed.
Closed == ~running /\ UNCHANGED vars

-----------------------------------------------------------------------------

Init ==
  /\ cfg \in Configs
  /\ phase = "negotiation" /\ running = TRUE /\ alive = TRUE
  /\ shutdown = FALSE /\ expired = FALSE
  /\ caps = {} /\ conn = NoConnection
  /\ msg = EmptyMessage /\ openExact = 0
  /\ stage = "idle" /\ due = NoDue
  /\ wire = NoWire /\ effects = {} /\ activity = {}

handleCommand ==
  \/ negotiate \/ captureSessionMacros \/ Abort \/ QuitSMTPConnection
  \/ Connect \/ Helo \/ Mail \/ Recipient \/ DataOrUnknown \/ addHeader
  \/ EndHeaders \/ Body \/ EndBody \/ Leave

finishMessage ==
  \/ finishInternalMessage \/ handleEmailCommand
  \/ applyAuthenticatedOnlySenderDomain \/ applySenderBlocklist
  \/ bypassAuthenticated \/ applyAttachments \/ verifyAuthentication
  \/ prepareInboundEvidence \/ evaluateMessage \/ finishUpdates

Next ==
  \/ handleCommand \/ finishMessage \/ HangUp
  \/ Break \/ Expire \/ Shutdown \/ CloseOnShutdown \/ Closed

Spec == Init /\ [][Next]_vars

\* The session goroutine, its workers (which observe their context) and the
\* AfterFunc are scheduled; the MTA and the network promise nothing.
FairSpec ==
  Spec /\ WF_vars(finishMessage) /\ WF_vars(HangUp) /\ WF_vars(CloseOnShutdown)

-----------------------------------------------------------------------------
(* Properties. *)

\* The shape of the state, with the caps of RCPT and of addHeader: no more than
\* MaxRecipients recipients and MaxSenders distinct senders are ever kept.
TypeOK ==
  /\ cfg \in Configs /\ phase \in Phases /\ stage \in Stages
  /\ running \in BOOLEAN /\ alive \in BOOLEAN
  /\ shutdown \in BOOLEAN /\ expired \in BOOLEAN
  /\ caps \subseteq Capabilities /\ openExact \in {0, 1}
  /\ conn \in Connection /\ msg \in Message /\ wire \in Wire /\ due \in Due
  /\ effects \subseteq Updates /\ activity \subseteq Activity
  /\ Len(msg.rcpts) <= MaxRecipients /\ Cardinality(msg.boxes) <= MaxSenders

\* finishMessage sends one final response: never a second one, none before the
\* decision, and whenever the session stays open after end-of-body the MTA has
\* been answered (every path of finishMessage returns false or has responded).
AnsweredExactlyOnce ==
  [][/\ wire'.finals <= 1
     /\ stage' \notin {"idle", "post"} => wire'.finals = 0
     /\ (stage # "idle" /\ stage' = "idle" /\ running') => wire'.finals = 1]_vars

\* Recipients are deleted only as part of an acceptance, and then all the
\* blocked ones are: a rejection or temporary failure decided after the
\* blocklist matched must not have removed anybody (writePolicyResponse).
RemovalsOnlyWithAcceptance ==
  /\ (running /\ wire.deleted # {}) => wire.final = "accept"
  /\ (stage = "post" /\ wire.final = "accept") => wire.deleted = msg.blocked

\* In accept mode no decision changes reputation, correspondents or the
\* rejection history, whichever policy decided.
AcceptModeLearnsNothing ==
  cfg.mode = "accept" => effects \subseteq {"executed", "reply"}

\* An adaptive update is made after the response it follows from, and agrees
\* with it: a strike needs a rejection of an unauthenticated client whose
\* reverse DNS was awaited and does not exclude it, credit and correspondent
\* learning need an acceptance, and credit never meets a strike.  What is learned
\* of a sender is learned for the recipients that the response left in the
\* envelope, never for one that the blocklist removed.
UpdatesJustified ==
  [][LET new == effects' \ effects IN
     /\ new \cap Adaptive # {} => wire'.finals = 1
     /\ "strike" \in new => /\ wire'.final = "reject" /\ ~conn'.auth
                            /\ conn'.dns \notin {"pending", "excluded"}
     /\ new \cap {"credit", "touch"} # {} => wire'.final = "accept" /\ ~conn'.auth
     /\ "learn" \in new => wire'.final = "accept" /\ conn'.auth
     /\ new \cap {"learn", "touch", "classify"} # {} => due.to = envelope \ wire.deleted
     /\ ~({"strike", "credit"} \subseteq effects')]_vars

\* Nothing of a message survives it: between two messages of a connection,
\* however the first ended (answered, aborted, blocked at MAIL, the SMTP
\* connection replaced), the message state is the initial one.
MessageIsolation ==
  (running /\ stage = "idle" /\ phase \in {"negotiation", "connection"})
    => msg = EmptyMessage

\* The identity of an SMTP connection ends with it: after QUIT_NC only macros
\* that announce the next connection are kept, and a message only exists
\* within a connection.
IdentityScoped ==
  /\ ~conn.connected => conn = [NoConnection EXCEPT !.pendingMta = conn.pendingMta]
  /\ phase \in {"envelope", "body"} => conn.connected

\* The exact-message object of a message is closed exactly once on every path,
\* and no later than the end of the session.
ExactReleased ==
  /\ openExact = Held(msg)
  /\ ~running => openExact = 0
  /\ openExact > 0 => phase \in {"envelope", "body"}



\* Every end-of-body is eventually concluded: answered, or the session closed.
MessageConcludes == (stage # "idle") ~> (stage = "idle")

\* A shutdown ends the session, also one that waits for its next command.
ShutdownStops == shutdown ~> ~running

\* The session goes on: messages conclude and a shutdown ends it.
SessionProgress == MessageConcludes /\ ShutdownStops

\* validActivityEvent of the activity store.
validActivityEvent(a) ==
  CASE a.event = "scan" -> TRUE
    [] a.event \in {"ip", "attachment", "protected"} ->
         a.outcome \in {"rejected", "responseFailed"}
    [] a.event \in {"correspondent", "trustedDomain"} ->
         a.outcome \in {"accepted", "responseFailed"}
    [] a.event = "blocklist" -> a.outcome \in {"accepted", "rejected"}
    [] OTHER -> a.outcome # "tempfailed"

\* The operating guide counts every failed evaluation and every temporary
\* failure among the scans, so the event recorded for one must be an event
\* that the store keeps.
ActivityStored == \A a \in activity : validActivityEvent(a)

\* What belongs to a message or a connection ends with it: its fields, its
\* identity and its exact-message object.
ScopesEnd == MessageIsolation /\ IdentityScoped /\ ExactReleased
=============================================================================
