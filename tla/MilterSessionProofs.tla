------------------------ MODULE MilterSessionProofs ------------------------
(***************************************************************************)
(* Theorems about MilterSession, for every configuration, every offer of   *)
(* the MTA, every set of headers and recipients and every cap.             *)
(***************************************************************************)
EXTENDS MilterSession, FiniteSetTheorems, TLAPS

\* The exact-message object is counted once while it is held.
ExactInv == openExact = Held(msg)

\* The session runs while it processes a message, and a message being
\* processed is in the body phase of a connection.
ControlInv ==
  /\ ~running => stage = "idle" /\ alive = FALSE /\ openExact = 0
  /\ stage # "idle" => phase = "body"
  /\ phase \in {"envelope", "body"} => conn.connected
  /\ openExact > 0 => phase \in {"envelope", "body"}
  /\ stage # "post" => due = NoDue

\* What the MTA knows of the current message at each point.
WireInv ==
  /\ (running /\ phase \in {"envelope", "body"} /\ stage # "post")
       => wire = NoWire /\ effects = {} /\ activity = {}
  /\ stage = "post" => wire.finals = 1 /\ wire.final # "none"
  /\ wire.finals <= 1

\* Recipient removals.
RemovalInv ==
  /\ (stage = "post" /\ wire.final = "accept") => wire.deleted = msg.blocked
  /\ (running /\ wire.deleted # {}) => wire.final = "accept"

\* Accept mode holds no removal, no update and no strike back.
ModeInv ==
  cfg.mode = "accept" => /\ msg.blocked = {} /\ due.updates = {}
                         /\ effects \subseteq {"executed", "reply"}

IInv == /\ TypeOK /\ ExactInv /\ ControlInv /\ WireInv /\ RemovalInv /\ ModeInv
        /\ MessageIsolation /\ IdentityScoped

-----------------------------------------------------------------------------

\* The initial records have their types.
LEMMA InitialRecords ==
  /\ NoConnection \in Connection /\ EmptyMessage \in Message
  /\ NoWire \in Wire /\ NoDue \in Due
  /\ Len(EmptyMessage.rcpts) = 0 /\ Cardinality(EmptyMessage.boxes) = 0
BY FS_EmptySet DEF NoConnection, Connection, EmptyMessage, Message, NoWire,
     Wire, NoDue, Due, Finals, Actions

\* closeExactMessage releases the object and changes nothing else.
LEMMA CloseReleases ==
  ASSUME NEW m \in Message
  PROVE  /\ closeExactMessage(m) \in Message
         /\ Held(closeExactMessage(m)) = 0
         /\ closeExactMessage(m).rcpts = m.rcpts
         /\ closeExactMessage(m).boxes = m.boxes
         /\ closeExactMessage(m).blocked = m.blocked
BY DEF closeExactMessage, Held, Message

\* resetMessage leaves the initial message and holds an object only for a new
\* envelope.
LEMMA ResetIsInitial ==
  ASSUME NEW p, openExact = Held(msg), resetMessage(p)
  PROVE  /\ phase' = p /\ msg' \in Message /\ openExact' = Held(msg')
         /\ openExact' \in {0, 1}
         /\ msg'.blocked = {} /\ Len(msg'.rcpts) = 0 /\ Cardinality(msg'.boxes) = 0
         /\ p # "envelope" => msg' = EmptyMessage /\ openExact' = 0
<1>1. PICK e \in newExact(p) :
        /\ msg' = [EmptyMessage EXCEPT !.exact = e]
        /\ openExact' = (openExact - Held(msg)) + (IF e = "open" THEN 1 ELSE 0)
  BY DEF resetMessage
<1>2. e \in {"none", "open", "failed"} /\ (p # "envelope" => e = "none")
  BY DEF newExact
<1>3. Held(msg) \in {0, 1}
  BY DEF Held
<1>4. msg'.exact = e /\ msg' \in Message
  BY <1>1, <1>2, InitialRecords DEF Message
<1>5. openExact' = Held(msg') /\ openExact' \in {0, 1}
  BY <1>1, <1>2, <1>3, <1>4 DEF Held
<1>6. p # "envelope" => msg' = EmptyMessage /\ openExact' = 0
  BY <1>1, <1>2, <1>3 DEF EmptyMessage
<1>7. msg'.blocked = {} /\ msg'.rcpts = <<>> /\ msg'.boxes = {}
  BY <1>1 DEF EmptyMessage
<1>8. phase' = p
  BY DEF resetMessage
<1>9. QED
  BY <1>4, <1>5, <1>6, <1>7, <1>8, FS_EmptySet

\* What the end of a session needs of the step that ends it.
LEMMA EndSessionKeeps ==
  ASSUME IInv, EndSession, Frame, conn' \in Connection,
         conn'.connected = conn.connected,
         conn'.connected \/ conn' = conn,
         wire' \in Wire, wire'.finals <= 1,
         effects' \subseteq Updates, activity' \subseteq Activity,
         cfg.mode = "accept" => effects' \subseteq {"executed", "reply"}
  PROVE  IInv'
<1>1. /\ msg' = closeExactMessage(msg) /\ Held(msg) \in {0, 1}
      /\ openExact' = 0 /\ running' = FALSE /\ alive' = FALSE
      /\ stage' = "idle" /\ expired' = FALSE /\ due' = NoDue
      /\ cfg' = cfg /\ phase' = phase /\ shutdown' = shutdown /\ caps' = caps
  BY DEF IInv, ExactInv, EndSession, Frame, Held
<1>2. TypeOK'
  BY <1>1, CloseReleases, InitialRecords, Zenon DEF IInv, TypeOK, Stages
<1>3. ExactInv'
  BY <1>1, CloseReleases DEF IInv, TypeOK, ExactInv, Held
<1>4. ControlInv'
  BY <1>1 DEF IInv, ControlInv
<1>5. WireInv' /\ RemovalInv' /\ MessageIsolation'
  BY <1>1 DEF WireInv, RemovalInv, MessageIsolation
<1>6. ModeInv'
  BY <1>1, CloseReleases DEF IInv, TypeOK, ModeInv, NoDue
<1>7. IdentityScoped'
  BY <1>1 DEF IInv, IdentityScoped, NoConnection
<1>8. QED
  BY <1>2, <1>3, <1>4, <1>5, <1>6, <1>7 DEF IInv

\* A plain step of the pipeline to another undecided stage.
LEMMA ThenKeeps ==
  ASSUME IInv, stage \notin {"idle", "post"},
         NEW next \in Stages \ {"idle", "post"}, Then(next), Frame, conn' = conn
  PROVE  IInv'
<1>1. /\ stage' = next /\ running' = running /\ alive' = alive
      /\ expired' = expired /\ due' = due /\ msg' = msg /\ openExact' = openExact
      /\ wire' = wire /\ effects' = effects /\ activity' = activity
      /\ cfg' = cfg /\ phase' = phase /\ shutdown' = shutdown /\ caps' = caps
  BY DEF Then, Frame, messageVars, ghostVars
<1>2. TypeOK' /\ ExactInv'
  BY <1>1 DEF IInv, TypeOK, ExactInv, Held
<1>3. ControlInv' /\ WireInv' /\ RemovalInv' /\ ModeInv'
  BY <1>1 DEF IInv, ControlInv, WireInv, RemovalInv, ModeInv
<1>4. MessageIsolation' /\ IdentityScoped'
  BY <1>1 DEF IInv, MessageIsolation, IdentityScoped
<1>5. QED
  BY <1>2, <1>3, <1>4 DEF IInv

\* An activity event of a response is one of the store's event types.
LEMMA RecordType ==
  ASSUME NEW event \in Events \cup {"none"}, NEW outcome \in Outcomes
  PROVE  record(event, outcome) \subseteq Activity
BY DEF record, Activity

\* The frames of a response: one final response, and deletions that agree
\* with it.
LEMMA ResponseFrames ==
  ASSUME TypeOK, NEW w \in Wire, w.finals = 0, w.deleted = {},
         NEW final \in Finals
  PROVE  /\ policyResponse(w, final) \in Wire
         /\ policyResponse(w, final).finals = 1
         /\ policyResponse(w, final).final = final
         /\ final = "accept" => policyResponse(w, final).deleted = msg.blocked
         /\ final # "accept" => policyResponse(w, final).deleted = {}
<1> DEFINE v == IF final = "accept"
                THEN [resultHeaders(w) EXCEPT !.deleted = msg.blocked] ELSE w
<1>1. resultHeaders(w) \in Wire /\ resultHeaders(w).finals = 0
  <2> DEFINE a == msg.counterfeit /\ "change" \in caps
             b == /\ cfg.addHeaders /\ "add" \in caps
                  /\ msg.counterfeit => "change" \in caps
  <2>1. a \in BOOLEAN /\ b \in BOOLEAN
    OBVIOUS
  <2>2. resultHeaders(w) = [w EXCEPT !.stripped = a, !.added = b]
    BY DEF resultHeaders
  <2> HIDE DEF a, b
  <2>3. QED
    BY <2>1, <2>2, Zenon DEF Wire
<1>2. msg.blocked \in SUBSET Mailboxes
  BY DEF TypeOK, Message
<1>3. /\ v \in Wire /\ v.finals = 0
      /\ v.deleted = IF final = "accept" THEN msg.blocked ELSE {}
  <2>1. CASE final = "accept"
    BY <1>1, <1>2, <2>1 DEF Wire
  <2>2. CASE final # "accept"
    BY <2>2
  <2>3. QED
    BY <2>1, <2>2
<1> DEFINE u == [v EXCEPT !.final = final]
<1>4. policyResponse(w, final) = [u EXCEPT !.finals = @ + 1]
  BY DEF policyResponse
<1> HIDE DEF v
<1>5. u \in Wire /\ u.finals = 0 /\ u.final = final /\ u.deleted = v.deleted
  BY <1>3 DEF Wire
<1> HIDE DEF u
<1>6. QED
  BY <1>3, <1>4, <1>5 DEF Wire

\* A response, written or failed, keeps the invariant.
LEMMA RespondKeeps ==
  ASSUME IInv, stage \notin {"idle", "post"},
         NEW w \in Wire, w.finals = 0, w.deleted = {},
         NEW final \in Finals, NEW event \in Events \cup {"none"},
         NEW d \in Due, cfg.mode = "accept" => d.updates = {},
         Respond(w, final, event, d), Frame,
         conn' \in Connection, conn'.connected = conn.connected,
         effects' \subseteq Updates,
         cfg.mode = "accept" => effects' \subseteq {"executed", "reply"}
  PROVE  IInv'
<1>1. /\ conn.connected /\ running /\ phase = "body"
      /\ activity = {} /\ msg.blocked \subseteq Mailboxes
  BY DEF IInv, TypeOK, ControlInv, WireInv, Message
<1>2. CASE /\ alive
           /\ wire' = policyResponse(w, final)
           /\ activity' = activity \cup record(event, activityOutcome(final))
           /\ stage' = "post" /\ due' = d
           /\ UNCHANGED <<running, alive, expired, messageVars>>
  <2>1. /\ wire' \in Wire /\ wire'.finals = 1 /\ wire'.final = final
        /\ final = "accept" => wire'.deleted = msg.blocked
        /\ final # "accept" => wire'.deleted = {}
        /\ final # "none"
    BY <1>2, ResponseFrames DEF IInv, Finals, Actions
  <2>2. activityOutcome(final) \in Outcomes
    BY DEF activityOutcome, Outcomes
  <2>3. activity' \subseteq Activity
    BY <1>1, <1>2, <2>2, RecordType
  <2>4. /\ stage' = "post" /\ due' = d /\ running' = running /\ alive' = alive
        /\ expired' = expired /\ msg' = msg /\ openExact' = openExact
        /\ cfg' = cfg /\ phase' = phase /\ shutdown' = shutdown /\ caps' = caps
    BY <1>2 DEF Frame, messageVars
  <2>5. TypeOK' /\ ExactInv'
    BY <2>1, <2>3, <2>4 DEF IInv, TypeOK, ExactInv, Held, Stages
  <2>6. ControlInv' /\ MessageIsolation' /\ IdentityScoped'
    BY <1>1, <2>4 DEF IInv, ControlInv, MessageIsolation, IdentityScoped
  <2>7. WireInv' /\ RemovalInv' /\ ModeInv'
    BY <1>1, <2>1, <2>4 DEF IInv, WireInv, RemovalInv, ModeInv
  <2>8. QED
    BY <2>5, <2>6, <2>7 DEF IInv
<1>3. CASE /\ \E part \in SUBSET (IF alive /\ final = "accept" THEN msg.blocked ELSE {}) :
                wire' = [w EXCEPT !.deleted = part]
           /\ activity' = activity \cup record(event, "responseFailed")
           /\ EndSession
  <2>1. wire' \in Wire /\ wire'.finals = 0
    BY <1>1, <1>3 DEF Wire
  <2>2. activity' \subseteq Activity
    BY <1>1, <1>3, RecordType DEF Outcomes
  <2>3. QED
    BY <1>1, <1>3, <2>1, <2>2, EndSessionKeeps
<1>4. QED
  BY <1>2, <1>3 DEF Respond

\* The updates of a bypass and of a removal are updates, and accept mode has
\* none of them.
LEMMA RemovalType ==
  ASSUME IInv
  PROVE  removal \in Due /\ (cfg.mode = "accept" => removal.updates = {})
<1>1. CASE msg.blocked = {}
  BY <1>1, InitialRecords DEF removal, NoDue
<1>2. CASE msg.blocked # {}
  <2> DEFINE a == [NoDue EXCEPT !.updates = {"removal"}]
             e == record("blocklist", "accepted")
  <2>1. removal = [a EXCEPT !.events = e]
    BY <1>2 DEF removal
  <2>2. e \subseteq Activity
    BY RecordType DEF Events, Outcomes
  <2>3. a \in Due
    BY InitialRecords DEF Due, Updates
  <2> HIDE DEF a, e
  <2>4. removal \in Due
    BY <2>1, <2>2, <2>3 DEF Due
  <2>5. cfg.mode # "accept"
    BY <1>2 DEF IInv, ModeInv
  <2>6. QED
    BY <2>4, <2>5
<1>3. QED
  BY <1>1, <1>2

\* The recipients of an update are recipients of the envelope.
LEMMA RecipientsType ==
  ASSUME IInv
  PROVE  envelope \in SUBSET Mailboxes /\ policyEnvelopeRecipients \in SUBSET Mailboxes
BY DEF IInv, TypeOK, Message, envelope, policyEnvelopeRecipients

\* Adding recipients, and updates that accept mode does not have.
LEMMA MoreUpdates ==
  ASSUME NEW d \in Due, cfg.mode = "accept" => d.updates = {},
         NEW more \in SUBSET Updates, cfg.mode = "accept" => more = {},
         NEW who \in SUBSET Mailboxes
  PROVE  /\ [d EXCEPT !.to = who, !.updates = @ \cup more] \in Due
         /\ cfg.mode = "accept" =>
              [d EXCEPT !.to = who, !.updates = @ \cup more].updates = {}
BY DEF Due

\* finishBypassedMessage keeps the invariant, whichever policy bypassed.
LEMMA BypassKeeps ==
  ASSUME IInv, stage \notin {"idle", "post"}, NEW w \in Wire,
         w.finals = 0, w.deleted = {}, NEW source,
         NEW event \in Events \cup {"none"},
         NEW learn \in BOOLEAN, NEW touch \in BOOLEAN,
         finishBypassedMessage(w, source, event, learn, touch), Frame,
         conn' = conn, effects' = effects
  PROVE  IInv'
<1> DEFINE more == IF cfg.mode # "enforce" THEN {}
        ELSE (IF ~conn.auth /\ source \in {"known", "allowlist"} THEN {"credit"} ELSE {})
             \cup (IF learn THEN {"learn"} ELSE {})
             \cup (IF touch THEN {"touch"} ELSE {})
           d == [removal EXCEPT !.to = policyEnvelopeRecipients, !.updates = @ \cup more]
<1>1. more \in SUBSET Updates /\ (cfg.mode = "accept" => more = {})
  BY DEF Updates, Adaptive
<1>2. Respond(w, "accept", event, d)
  BY DEF finishBypassedMessage
<1> HIDE DEF more
<1>3. d \in Due /\ (cfg.mode = "accept" => d.updates = {})
  BY <1>1, RemovalType, RecipientsType, MoreUpdates
<1> HIDE DEF d
<1>4. QED
  BY <1>2, <1>3, RespondKeeps, SMTT(60) DEF IInv, TypeOK, ModeInv, Finals, Actions

\* A command outside finishMessage.
LEMMA IdleKeeps ==
  ASSUME IInv, running, stage = "idle", UNCHANGED <<cfg, running, alive, shutdown>>,
         UNCHANGED pipelineVars,
         phase' \in Phases, caps' \subseteq Capabilities, conn' \in Connection,
         ~conn'.connected => conn' = [NoConnection EXCEPT !.pendingMta = conn'.pendingMta],
         phase' \in {"envelope", "body"} => conn'.connected,
         msg' \in Message, Len(msg'.rcpts) <= MaxRecipients,
         Cardinality(msg'.boxes) <= MaxSenders,
         cfg.mode = "accept" => msg'.blocked = {},
         openExact' = Held(msg'), openExact' > 0 => phase' \in {"envelope", "body"},
         phase' \in {"negotiation", "connection"} => msg' = EmptyMessage,
         \/ /\ UNCHANGED ghostVars
            /\ phase' \in {"envelope", "body"} => phase \in {"envelope", "body"}
         \/ /\ wire' = NoWire /\ effects' = {} /\ activity' \subseteq Activity
            /\ phase' \in {"envelope", "body"} => activity' = {}
  PROVE  IInv'
<1>1. /\ cfg' = cfg /\ running' = running /\ alive' = alive /\ shutdown' = shutdown
      /\ stage' = stage /\ due' = due /\ expired' = expired
  BY DEF pipelineVars
<1>2. /\ wire' \in Wire /\ effects' \subseteq Updates /\ activity' \subseteq Activity
      /\ wire'.finals <= 1 /\ (wire'.deleted # {} => wire'.final = "accept")
      /\ cfg.mode = "accept" => effects' \subseteq {"executed", "reply"}
      /\ phase' \in {"envelope", "body"} =>
           wire' = NoWire /\ effects' = {} /\ activity' = {}
  <2>1. CASE UNCHANGED ghostVars /\ (phase' \in {"envelope", "body"} => phase \in {"envelope", "body"})
    BY <2>1 DEF ghostVars, IInv, TypeOK, WireInv, RemovalInv, ModeInv
  <2>2. CASE /\ wire' = NoWire /\ effects' = {} /\ activity' \subseteq Activity
             /\ phase' \in {"envelope", "body"} => activity' = {}
    BY <2>2, InitialRecords DEF NoWire
  <2>3. QED
    BY <2>1, <2>2
<1>3. openExact' \in {0, 1}
  BY DEF Held
<1>4. TypeOK' /\ ExactInv'
  BY <1>1, <1>2, <1>3 DEF IInv, TypeOK, ExactInv, Held
<1>5. ControlInv' /\ MessageIsolation' /\ IdentityScoped'
  BY <1>1 DEF IInv, ControlInv, MessageIsolation, IdentityScoped
<1>6. WireInv' /\ RemovalInv' /\ ModeInv'
  BY <1>1, <1>2 DEF IInv, WireInv, RemovalInv, ModeInv
<1>7. QED
  BY <1>4, <1>5, <1>6 DEF IInv

-----------------------------------------------------------------------------
(* The commands. *)

\* What an idle, running session knows.
LEMMA IdleFacts ==
  ASSUME IInv, running, stage = "idle"
  PROVE  /\ openExact = Held(msg) /\ msg \in Message /\ conn \in Connection
         /\ Len(msg.rcpts) <= MaxRecipients /\ Cardinality(msg.boxes) <= MaxSenders
         /\ cfg.mode = "accept" => msg.blocked = {}
         /\ phase \in {"negotiation", "connection"} => msg = EmptyMessage
         /\ openExact > 0 => phase \in {"envelope", "body"}
         /\ phase \in {"envelope", "body"} => conn.connected
         /\ ~conn.connected => conn = [NoConnection EXCEPT !.pendingMta = conn.pendingMta]
         /\ phase \in Phases /\ caps \subseteq Capabilities
BY DEF IInv, TypeOK, ExactInv, ControlInv, ModeInv, MessageIsolation, IdentityScoped

\* Option negotiation.
LEMMA NegotiateKeeps == IInv /\ negotiate => IInv'
<1> SUFFICES ASSUME IInv, negotiate PROVE IInv'
  OBVIOUS
<1>1. running /\ stage = "idle" /\ phase = "negotiation"
  BY DEF negotiate, Command, admitted
<1>2. caps' \subseteq Capabilities
  BY SessionAssumption DEF negotiate
<1>3. /\ UNCHANGED <<cfg, running, alive, shutdown>> /\ UNCHANGED pipelineVars
      /\ UNCHANGED ghostVars /\ msg' = msg /\ openExact' = openExact /\ conn' = conn
      /\ phase' = "connection" /\ phase' \in Phases
  BY DEF negotiate, messageVars, Phases
<1>4. QED
  BY <1>1, <1>2, <1>3, IdleFacts, IdleKeeps DEF Held

\* A macro frame changes identity facts of the connection it belongs to.
LEMMA MacroKeeps == IInv /\ captureSessionMacros => IInv'
<1> SUFFICES ASSUME IInv, captureSessionMacros PROVE IInv'
  OBVIOUS
<1>1. running /\ stage = "idle"
  BY DEF captureSessionMacros, Command
<1>2. PICK m \in Macros :
        LET hosted == IF m.host = "absent" THEN conn
                     ELSE IF m.target = "connect"
                          THEN [conn EXCEPT !.pendingMta = m.host = "valid"]
                     ELSE IF conn.connected
                          THEN [conn EXCEPT !.mta = m.host = "valid"]
                     ELSE conn
            authenticates == /\ conn.connected /\ m.user # "absent"
                             /\ m.target \in {"mail", "data", "eoh", "eob"}
        IN conn' = IF authenticates
                   THEN [hosted EXCEPT !.auth = m.user = "valid"] ELSE hosted
  BY Zenon DEF captureSessionMacros
<1> DEFINE hosted == IF m.host = "absent" THEN conn
                     ELSE IF m.target = "connect"
                          THEN [conn EXCEPT !.pendingMta = m.host = "valid"]
                     ELSE IF conn.connected
                          THEN [conn EXCEPT !.mta = m.host = "valid"]
                     ELSE conn
           authenticates == /\ conn.connected /\ m.user # "absent"
                            /\ m.target \in {"mail", "data", "eoh", "eob"}
<1>3. conn \in Connection
      /\ (~conn.connected => conn = [NoConnection EXCEPT !.pendingMta = conn.pendingMta])
  BY <1>1, IdleFacts
<1>4. /\ hosted \in Connection /\ hosted.connected = conn.connected
      /\ ~conn.connected => hosted = [NoConnection EXCEPT !.pendingMta = hosted.pendingMta]
  <2>1. CASE m.host = "absent"
    BY <1>3, <2>1
  <2>2. CASE m.host # "absent" /\ m.target = "connect"
    <3>1. hosted = [conn EXCEPT !.pendingMta = (m.host = "valid")]
      BY <2>2
    <3>2. hosted \in Connection /\ hosted.connected = conn.connected
          /\ hosted.pendingMta = (m.host = "valid")
      BY <1>3, <3>1, Zenon DEF Connection
    <3>3. ~conn.connected => hosted = [NoConnection EXCEPT !.pendingMta = (m.host = "valid")]
      BY <1>3, <3>1 DEF NoConnection
    <3>4. QED
      BY <3>2, <3>3
  <2>3. CASE m.host # "absent" /\ m.target # "connect"
    BY <1>3, <2>3, Zenon DEF Connection
  <2>4. QED
    BY <2>1, <2>2, <2>3
<1>5. conn' = IF authenticates
              THEN [hosted EXCEPT !.auth = m.user = "valid"] ELSE hosted
  BY <1>2
<1> HIDE DEF hosted
<1>6. /\ conn' \in Connection /\ conn'.connected = conn.connected
      /\ ~conn'.connected => conn' = [NoConnection EXCEPT !.pendingMta = conn'.pendingMta]
  BY <1>4, <1>5, Zenon DEF Connection
<1>7. /\ UNCHANGED <<cfg, running, alive, shutdown>> /\ UNCHANGED pipelineVars
      /\ UNCHANGED ghostVars /\ msg' = msg /\ openExact' = openExact
      /\ phase' = phase /\ caps' = caps
  BY DEF captureSessionMacros, messageVars
<1>8. QED
  BY <1>1, <1>6, <1>7, IdleFacts, IdleKeeps DEF Held

\* ABORT and QUIT_NC reset the message, and QUIT_NC the connection.
LEMMA ResetKeeps ==
  ASSUME IInv, running, stage = "idle", resetMessage("connection"),
         conn' \in {conn, NoConnection},
         UNCHANGED <<cfg, running, alive, shutdown, caps, pipelineVars, ghostVars>>
  PROVE  IInv'
<1>1. /\ phase' = "connection" /\ msg' = EmptyMessage /\ openExact' = 0
      /\ msg' \in Message /\ openExact' = Held(msg')
      /\ msg'.blocked = {} /\ Len(msg'.rcpts) = 0 /\ Cardinality(msg'.boxes) = 0
  BY IdleFacts, ResetIsInitial
<1>2. /\ conn' \in Connection
      /\ ~conn'.connected => conn' = [NoConnection EXCEPT !.pendingMta = conn'.pendingMta]
  BY IdleFacts, InitialRecords, Zenon DEF NoConnection
<1>3. QED
  BY <1>1, <1>2, IdleFacts, IdleKeeps, SessionAssumption DEF Phases

\* ABORT resets the message of the connection.
LEMMA AbortKeeps == IInv /\ Abort => IInv'
BY ResetKeeps DEF Abort, Command

\* QUIT_NC resets the message and the identity.
LEMMA QuitSMTPConnectionKeeps == IInv /\ QuitSMTPConnection => IInv'
BY ResetKeeps DEF QuitSMTPConnection, Command

\* CONNECT and HELO record identity; the message is not touched.
LEMMA IdentityKeeps ==
  ASSUME IInv, running, stage = "idle", conn' \in Connection, conn'.connected,
         UNCHANGED <<cfg, phase, running, alive, shutdown, caps, messageVars,
                     pipelineVars, ghostVars>>
  PROVE  IInv'
BY IdleFacts, IdleKeeps DEF messageVars, Held

\* CONNECT starts an identity with nothing but its announced MTA.
LEMMA ConnectKeeps == IInv /\ Connect => IInv'
<1> SUFFICES ASSUME IInv, Connect PROVE IInv'
  OBVIOUS
<1>1. running /\ stage = "idle"
  BY DEF Connect, Command
<1>2. PICK peer \in Peers :
        conn' = [NoConnection EXCEPT
                   !.connected = TRUE, !.ip = peer, !.mta = conn.pendingMta,
                   !.dns = IF peer = "public" THEN "pending" ELSE "none"]
  BY Zenon DEF Connect
<1>3. peer \in {"none", "local", "public"} /\ conn.pendingMta \in BOOLEAN
  BY <1>1, IdleFacts, SessionAssumption DEF Connection
<1>4. conn' \in Connection /\ conn'.connected
  <2> DEFINE a == [NoConnection EXCEPT !.connected = TRUE]
             b == [a EXCEPT !.ip = peer]
             c == [b EXCEPT !.mta = conn.pendingMta]
             d == IF peer = "public" THEN "pending" ELSE "none"
  <2>1. a \in Connection /\ a.connected
    BY InitialRecords, Zenon DEF Connection
  <2>2. d \in {"pending", "none"}
    OBVIOUS
  <2>3. conn' = [c EXCEPT !.dns = d]
    BY <1>2
  <2> HIDE DEF a, d
  <2>4. b \in Connection /\ b.connected
    BY <1>3, <2>1 DEF Connection
  <2> HIDE DEF b
  <2>5. c \in Connection /\ c.connected
    BY <1>3, <2>4 DEF Connection
  <2> HIDE DEF c
  <2>6. QED
    BY <2>2, <2>3, <2>5 DEF Connection
<1>5. QED
  BY <1>1, <1>4, IdentityKeeps DEF Connect

\* HELO records whether its name is usable.
LEMMA HeloKeeps == IInv /\ Helo => IInv'
<1> SUFFICES ASSUME IInv, Helo PROVE IInv'
  OBVIOUS
<1>1. running /\ stage = "idle" /\ conn.connected
  BY DEF Helo, Command, admitted
<1>2. conn' \in Connection /\ conn'.connected
  BY <1>1, IdleFacts DEF Helo, Connection
<1>3. QED
  BY <1>1, <1>2, IdentityKeeps DEF Helo

\* Waiting for reverse DNS changes only its result.
LEMMA AwaitKeepsIdentity ==
  ASSUME NEW c \in Connection, NEW e \in awaitConnectionDNS(c)
  PROVE  e \in Connection /\ e.connected = c.connected
BY DEF awaitConnectionDNS, Connection

\* MAIL starts a message, or is refused by IP reputation.
LEMMA MailKeeps == IInv /\ Mail => IInv'
<1> SUFFICES ASSUME IInv, Mail PROVE IInv'
  OBVIOUS
<1>1. running /\ stage = "idle" /\ conn.connected /\ phase = "connection"
  BY DEF Mail, Command, admitted
<1>2. conn' \in Connection /\ conn'.connected
  BY <1>1, IdleFacts, AwaitKeepsIdentity DEF Mail, lookupReputation
<1>3. /\ UNCHANGED <<cfg, running, alive, shutdown>> /\ UNCHANGED pipelineVars
      /\ caps' = caps /\ wire' = NoWire /\ effects' = {}
  BY DEF Mail
<1>4. CASE /\ activity' = {[event |-> "ip", outcome |-> "rejected"]}
           /\ UNCHANGED <<phase, messageVars>>
  <2>1. activity' \subseteq Activity
    BY <1>4 DEF Activity, Events, Outcomes
  <2>2. phase' = "connection" /\ msg' = msg /\ openExact' = openExact
    BY <1>1, <1>4 DEF messageVars
  <2>3. QED
    BY <1>1, <1>2, <1>3, <2>1, <2>2, IdleFacts, IdleKeeps DEF Held
<1>5. CASE resetMessage("envelope") /\ activity' = {}
  <2>1. /\ phase' = "envelope" /\ msg' \in Message /\ openExact' = Held(msg')
        /\ msg'.blocked = {} /\ Len(msg'.rcpts) = 0 /\ Cardinality(msg'.boxes) = 0
    BY <1>1, <1>5, IdleFacts, ResetIsInitial
  <2>2. QED
    BY <1>1, <1>2, <1>3, <1>5, <2>1, IdleFacts, IdleKeeps, SessionAssumption DEF Phases
<1>6. QED
  BY <1>4, <1>5 DEF Mail

\* A step that extends the current message.
LEMMA ExtendKeeps ==
  ASSUME IInv, running, stage = "idle", phase \in {"envelope", "body"},
         phase' \in {"envelope", "body"}, msg' \in Message, Held(msg') = Held(msg),
         msg'.blocked = msg.blocked, Len(msg'.rcpts) <= MaxRecipients,
         Cardinality(msg'.boxes) <= MaxSenders,
         UNCHANGED <<cfg, running, alive, shutdown, caps, conn, openExact,
                     pipelineVars, ghostVars>>
  PROVE  IInv'
<1>1. conn.connected /\ (cfg.mode = "accept" => msg.blocked = {}) /\ openExact = Held(msg)
  BY IdleFacts
<1>2. QED
  BY <1>1, IdleFacts, IdleKeeps DEF Phases

\* Writing to the exact message may fail, which only marks it.
LEMMA CaptureKeeps ==
  ASSUME NEW m \in Message, NEW e \in captureExact(m)
  PROVE  /\ e \in Message /\ Held(e) = Held(m) /\ e.blocked = m.blocked
         /\ e.rcpts = m.rcpts /\ e.boxes = m.boxes
BY DEF captureExact, Held, Message

\* RCPT keeps at most MaxRecipients recipients.
LEMMA RecipientKeeps == IInv /\ Recipient => IInv'
<1> SUFFICES ASSUME IInv, Recipient PROVE IInv'
  OBVIOUS
<1>1. running /\ stage = "idle" /\ phase = "envelope"
  BY DEF Recipient, Command, admitted
<1>2. PICK m \in Mailboxes, parsed \in BOOLEAN :
        msg' = IF parsed /\ Len(msg.rcpts) < MaxRecipients
               THEN [msg EXCEPT !.rcpts = Append(@, m)]
               ELSE [msg EXCEPT !.truncated = TRUE]
  BY SMTT(60) DEF Recipient
<1>3. msg \in Message /\ Len(msg.rcpts) <= MaxRecipients
      /\ Cardinality(msg.boxes) <= MaxSenders
  BY <1>1, IdleFacts
<1>4. CASE parsed /\ Len(msg.rcpts) < MaxRecipients
  <2> DEFINE longer == Append(msg.rcpts, m)
  <2>1. longer \in Seq(Mailboxes) /\ Len(longer) = Len(msg.rcpts) + 1
        /\ Len(msg.rcpts) \in Nat
    BY <1>3 DEF Message
  <2>2. msg' = [msg EXCEPT !.rcpts = longer]
    BY <1>2, <1>4
  <2> HIDE DEF longer
  <2>3. /\ msg' \in Message /\ msg'.rcpts = longer /\ msg'.exact = msg.exact
        /\ msg'.blocked = msg.blocked /\ msg'.boxes = msg.boxes
    BY <1>3, <2>1, <2>2 DEF Message
  <2>4. Len(longer) <= MaxRecipients
    BY <1>4, <2>1, SessionAssumption
  <2>5. QED
    BY <1>1, <1>3, <2>3, <2>4, ExtendKeeps DEF Recipient, Held
<1>5. CASE ~(parsed /\ Len(msg.rcpts) < MaxRecipients)
  <2>1. /\ msg' \in Message /\ msg'.rcpts = msg.rcpts /\ msg'.exact = msg.exact
        /\ msg'.blocked = msg.blocked /\ msg'.boxes = msg.boxes
    BY <1>2, <1>3, <1>5, Zenon DEF Message
  <2>2. QED
    BY <1>1, <1>3, <2>1, ExtendKeeps, Zenon DEF Recipient, Held
<1>6. QED
  BY <1>4, <1>5

\* The set of collected senders stays within its cap.
LEMMA CollectBounded ==
  ASSUME NEW m \in Message, Cardinality(m.boxes) <= MaxSenders,
         NEW boxes \in SUBSET Senders, NEW e \in collectSenders(m, boxes)
  PROVE  /\ e \in Message /\ Cardinality(e.boxes) <= MaxSenders
         /\ e.rcpts = m.rcpts /\ e.blocked = m.blocked /\ e.exact = m.exact
<1> DEFINE fresh == boxes \ m.boxes
           room == MaxSenders - Cardinality(m.boxes)
<1>1. m.boxes \in SUBSET Senders /\ fresh \in SUBSET Senders
  BY DEF Message
<1>2. IsFiniteSet(m.boxes) /\ IsFiniteSet(fresh)
  BY <1>1, SessionAssumption, FS_Subset
<1>3. Cardinality(m.boxes) \in Nat /\ Cardinality(fresh) \in Nat
  BY <1>2, FS_CardinalityType
<1>4. PICK k \in SUBSET fresh :
        /\ Cardinality(k) <= room
        /\ e.boxes = m.boxes \cup k /\ e \in Message
        /\ e.rcpts = m.rcpts /\ e.blocked = m.blocked /\ e.exact = m.exact
  <2>1. CASE Cardinality(fresh) <= room
    <3>1. e = [m EXCEPT !.boxes = @ \cup boxes]
      BY <2>1 DEF collectSenders
    <3>2. m.boxes \cup boxes = m.boxes \cup fresh
      OBVIOUS
    <3>3. e.boxes = m.boxes \cup fresh /\ e \in Message
          /\ e.rcpts = m.rcpts /\ e.blocked = m.blocked /\ e.exact = m.exact
      BY <1>1, <3>1, <3>2 DEF Message
    <3>4. QED
      BY <2>1, <3>3
  <2>2. CASE ~(Cardinality(fresh) <= room)
    <3>1. PICK kept \in SUBSET fresh :
            /\ Cardinality(kept) = room
            /\ e = [m EXCEPT !.boxes = @ \cup kept, !.boxesTruncated = TRUE]
      BY <2>2, Zenon DEF collectSenders
    <3> DEFINE a == [m EXCEPT !.boxes = @ \cup kept]
    <3>2. e = [a EXCEPT !.boxesTruncated = TRUE]
      BY <3>1
    <3>3. a \in Message /\ a.boxes = m.boxes \cup kept /\ a.rcpts = m.rcpts
          /\ a.blocked = m.blocked /\ a.exact = m.exact
      BY <1>1, <3>1 DEF Message
    <3> HIDE DEF a
    <3>4. e \in Message /\ e.boxes = m.boxes \cup kept /\ e.rcpts = m.rcpts
          /\ e.blocked = m.blocked /\ e.exact = m.exact
      BY <3>2, <3>3, Zenon DEF Message
    <3>5. Cardinality(kept) <= room
      BY <1>3, <3>1, SessionAssumption
    <3>6. QED
      BY <3>1, <3>4, <3>5, SMTT(60)
  <2>3. QED
    BY <2>1, <2>2
<1>5. IsFiniteSet(k) /\ m.boxes \cap k = {}
  BY <1>2, FS_Subset
<1>6. Cardinality(m.boxes \cup k) = Cardinality(m.boxes) + Cardinality(k) - Cardinality(m.boxes \cap k)
      /\ Cardinality(m.boxes \cap k) = 0 /\ Cardinality(k) \in Nat
  BY <1>2, <1>5, FS_Union, FS_EmptySet, FS_CardinalityType, Zenon
<1>7. QED
  BY <1>3, <1>4, <1>6, SessionAssumption

\* Recording a header keeps the envelope, the removals and the caps.
LEMMA HeaderBounded ==
  ASSUME NEW m \in Message, Cardinality(m.boxes) <= MaxSenders,
         NEW h \in Headers, NEW e \in recordHeader(m, h)
  PROVE  /\ e \in Message /\ Cardinality(e.boxes) <= MaxSenders
         /\ e.rcpts = m.rcpts /\ e.blocked = m.blocked /\ e.exact = m.exact
<1>1. /\ h.kind \in {"from", "result", "marker", "other"}
      /\ h.boxes \in SUBSET Senders /\ h.valid \in BOOLEAN /\ h.protected \in BOOLEAN
  BY SessionAssumption DEF Header
<1>2. CASE h.kind = "from"
  <2> DEFINE n == IF m.froms < 2 THEN m.froms + 1 ELSE m.froms
             r == m.protected \/ h.protected
             a == [m EXCEPT !.froms = n]
             b == [a EXCEPT !.fromValid = h.valid]
             c == [b EXCEPT !.protected = r]
  <2>1. n \in 0 .. 2 /\ r \in BOOLEAN
    BY DEF Message
  <2>2. a.protected = m.protected /\ b.protected = m.protected
    BY DEF Message
  <2>3. e \in collectSenders(c, h.boxes)
    BY <1>2, <2>2 DEF recordHeader
  <2> HIDE DEF n, r
  <2>4. a \in Message /\ a.rcpts = m.rcpts /\ a.blocked = m.blocked
        /\ a.exact = m.exact /\ a.boxes = m.boxes
    BY <2>1, Zenon DEF Message
  <2> HIDE DEF a
  <2>5. b \in Message /\ b.rcpts = m.rcpts /\ b.blocked = m.blocked
        /\ b.exact = m.exact /\ b.boxes = m.boxes
    BY <1>1, <2>4 DEF Message
  <2> HIDE DEF b
  <2>6. c \in Message /\ c.rcpts = m.rcpts /\ c.blocked = m.blocked
        /\ c.exact = m.exact /\ c.boxes = m.boxes
    BY <2>1, <2>5 DEF Message
  <2> HIDE DEF c
  <2>7. QED
    BY <1>1, <2>3, <2>6, CollectBounded
<1>3. CASE h.kind = "result"
  BY <1>3, Zenon DEF recordHeader, Message
<1>4. CASE h.kind = "marker"
  BY <1>4, ZenonT(60) DEF recordHeader, Message
<1>5. CASE h.kind = "other"
  BY <1>5 DEF recordHeader
<1>6. QED
  BY <1>1, <1>2, <1>3, <1>4, <1>5

\* A header frame keeps the removals and the caps.
LEMMA AddHeaderKeeps == IInv /\ addHeader => IInv'
<1> SUFFICES ASSUME IInv, addHeader PROVE IInv'
  OBVIOUS
<1>1. running /\ stage = "idle" /\ phase = "envelope"
  BY DEF addHeader, Command, admitted
<1>2. PICK h \in Headers : \E m \in recordHeader(msg, h) : msg' \in captureExact(m)
  BY DEF addHeader
<1>3. PICK m \in recordHeader(msg, h) : msg' \in captureExact(m)
  BY <1>2
<1>4. /\ m \in Message /\ Cardinality(m.boxes) <= MaxSenders
      /\ m.rcpts = msg.rcpts /\ m.blocked = msg.blocked /\ m.exact = msg.exact
  BY <1>1, IdleFacts, HeaderBounded
<1>5. /\ msg' \in Message /\ Held(msg') = Held(msg) /\ msg'.blocked = msg.blocked
      /\ msg'.rcpts = msg.rcpts /\ msg'.boxes = m.boxes
  BY <1>3, <1>4, CaptureKeeps DEF Held
<1>6. QED
  BY <1>1, <1>4, <1>5, IdleFacts, ExtendKeeps DEF addHeader

\* End-of-headers and a body chunk only write to the exact message.
LEMMA BodyKeeps == IInv /\ (EndHeaders \/ Body) => IInv'
<1> SUFFICES ASSUME IInv, EndHeaders \/ Body PROVE IInv'
  OBVIOUS
<1>1. running /\ stage = "idle" /\ phase \in {"envelope", "body"} /\ phase' = "body"
  BY DEF EndHeaders, Body, Command, admitted
<1>2. /\ msg' \in Message /\ Held(msg') = Held(msg) /\ msg'.blocked = msg.blocked
      /\ msg'.rcpts = msg.rcpts /\ msg'.boxes = msg.boxes
  BY <1>1, IdleFacts, CaptureKeeps, Zenon DEF EndHeaders, Body
<1>3. QED
  BY <1>1, <1>2, IdleFacts, ExtendKeeps, Zenon DEF EndHeaders, Body

\* End-of-body enters the pipeline with the visible sender decided.
LEMMA EndBodyKeeps == IInv /\ EndBody => IInv'
<1> SUFFICES ASSUME IInv, EndBody PROVE IInv'
  OBVIOUS
<1>1. running /\ stage = "idle" /\ phase = "body"
  BY DEF EndBody, Command, admitted
<1>2. PICK m \in captureExact(msg) :
        msg' = [m EXCEPT !.visible = m.froms = 1 /\ m.fromValid]
  BY DEF EndBody
<1>3. /\ m \in Message /\ Held(m) = Held(msg) /\ m.blocked = msg.blocked
      /\ m.rcpts = msg.rcpts /\ m.boxes = msg.boxes
  BY <1>1, IdleFacts, CaptureKeeps
<1>4. /\ msg' \in Message /\ msg'.exact = m.exact /\ msg'.blocked = msg.blocked
      /\ msg'.rcpts = msg.rcpts /\ msg'.boxes = msg.boxes
  BY <1>2, <1>3, ZenonT(60) DEF Message
<1>5. /\ cfg' = cfg /\ phase' = phase /\ running' = running /\ alive' = alive
      /\ shutdown' = shutdown /\ caps' = caps /\ conn' = conn /\ stage' = "internal"
      /\ openExact' = openExact /\ due' = due /\ expired' = expired
      /\ wire' = wire /\ effects' = effects /\ activity' = activity
  BY DEF EndBody, ghostVars
<1>6. TypeOK'
  BY <1>4, <1>5 DEF IInv, TypeOK, Stages
<1>7. ExactInv' /\ ControlInv'
  BY <1>1, <1>3, <1>4, <1>5, SMTT(60) DEF IInv, ExactInv, ControlInv, Held
<1>8. WireInv' /\ RemovalInv' /\ ModeInv'
  BY <1>1, <1>4, <1>5 DEF IInv, WireInv, RemovalInv, ModeInv
<1>9. MessageIsolation' /\ IdentityScoped'
  BY <1>1, <1>5, SMTT(60) DEF IInv, MessageIsolation, IdentityScoped
<1>10. QED
  BY <1>6, <1>7, <1>8, <1>9 DEF IInv

\* The session ends while it waits for a command.
LEMMA LeaveKeeps == IInv /\ (Leave \/ HangUp) => IInv'
BY EndSessionKeeps, SMTT(60) DEF Leave, HangUp, Frame, ghostVars, IInv, TypeOK, WireInv, ModeInv

-----------------------------------------------------------------------------
(* The pipeline. *)

\* What an undecided message knows: the MTA has been sent nothing yet.
LEMMA UndecidedFacts ==
  ASSUME IInv, stage \notin {"idle", "post"}
  PROVE  /\ wire = NoWire /\ wire \in Wire /\ wire.finals = 0 /\ wire.deleted = {}
         /\ effects = {} /\ activity = {} /\ running /\ conn.connected
         /\ conn \in Connection /\ cfg \in Config
BY SMTT(60), InitialRecords, SessionAssumption
   DEF IInv, TypeOK, ControlInv, WireInv, NoWire

\* A response without a change of the connection and without side effects.
LEMMA PlainRespondKeeps ==
  ASSUME IInv, stage \notin {"idle", "post"}, NEW final \in Finals,
         NEW event \in Events \cup {"none"}, NEW d \in Due,
         cfg.mode = "accept" => d.updates = {},
         Respond(wire, final, event, d), Frame, UNCHANGED <<conn, effects>>
  PROVE  IInv'
BY UndecidedFacts, RespondKeeps

\* Literal updates of the policies.
LEMMA DueLiteral ==
  ASSUME NEW u \in SUBSET Updates, NEW a \in BOOLEAN
  PROVE  /\ [NoDue EXCEPT !.updates = u, !.await = a] \in Due
         /\ [NoDue EXCEPT !.updates = u, !.await = a].updates = u
<1> DEFINE x == [NoDue EXCEPT !.updates = u]
<1>1. x \in Due /\ x.updates = u
  BY InitialRecords DEF Due
<1>2. [NoDue EXCEPT !.updates = u, !.await = a] = [x EXCEPT !.await = a]
  OBVIOUS
<1> HIDE DEF x
<1>3. QED
  BY <1>1, <1>2, Zenon DEF Due

\* The recognition of command replies.
LEMMA InternalKeeps == IInv /\ finishInternalMessage => IInv'
<1> SUFFICES ASSUME IInv, finishInternalMessage PROVE IInv'
  OBVIOUS
<1>1. stage \notin {"idle", "post"} /\ Frame /\ UNCHANGED <<conn, effects>>
  BY DEF finishInternalMessage
<1>2. CASE Then("command")
  BY <1>1, <1>2, ThenKeeps DEF Stages
<1>3. CASE Respond(wire, "tempfail", "none", NoDue)
  BY <1>1, <1>3, PlainRespondKeeps, InitialRecords, SMTT(60) DEF Finals, Actions, NoDue
<1>4. CASE finishBypassedMessage([wire EXCEPT !.unmarked = TRUE], "internal",
                                 "none", FALSE, FALSE)
  <2> DEFINE w == [wire EXCEPT !.unmarked = TRUE]
  <2>1. w \in Wire /\ w.finals = 0 /\ w.deleted = {}
    BY <1>1, UndecidedFacts, Zenon DEF Wire
  <2> HIDE DEF w
  <2>2. finishBypassedMessage(w, "internal", "none", FALSE, FALSE)
    BY <1>4, Zenon DEF w
  <2>3. QED
    BY <1>1, <2>1, <2>2, BypassKeeps, Zenon
<1>5. QED
  BY <1>2, <1>3, <1>4, Zenon DEF finishInternalMessage

\* Command mail: only commands and replies take effect before the response.
LEMMA EmailCommandKeeps == IInv /\ handleEmailCommand => IInv'
<1> SUFFICES ASSUME IInv, handleEmailCommand PROVE IInv'
  OBVIOUS
<1>1. stage \notin {"idle", "post"} /\ Frame /\ conn' = conn
  BY DEF handleEmailCommand
<1>2. CASE Then("protected") /\ UNCHANGED effects
  BY <1>1, <1>2, ThenKeeps DEF Stages
<1>3. CASE Respond(wire, "reject", "none", NoDue) /\ UNCHANGED effects
  BY <1>1, <1>3, PlainRespondKeeps, InitialRecords, SMTT(60) DEF Finals, Actions, NoDue
<1>4. CASE /\ \E done \in SUBSET {"executed", "reply"} : effects' = effects \cup done
           /\ Respond(wire, "discard", "none", NoDue)
  <2>1. effects' \subseteq {"executed", "reply"} /\ effects' \subseteq Updates
    BY <1>1, <1>4, UndecidedFacts, Zenon DEF Updates
  <2>2. NoDue.updates = {} /\ "discard" \in Finals
    BY DEF NoDue, Finals
  <2>3. QED
    BY <1>1, <1>4, <2>1, <2>2, UndecidedFacts, InitialRecords, RespondKeeps
<1>5. QED
  BY <1>2, <1>3, <1>4 DEF handleEmailCommand

\* The authenticated-only sender domains.
LEMMA ProtectedKeeps == IInv /\ applyAuthenticatedOnlySenderDomain => IInv'
<1> SUFFICES ASSUME IInv, applyAuthenticatedOnlySenderDomain PROVE IInv'
  OBVIOUS
<1>1. stage \notin {"idle", "post"} /\ Frame /\ UNCHANGED <<conn, effects>>
  BY DEF applyAuthenticatedOnlySenderDomain
<1> DEFINE selected == selectActionForMode("reject")
           d == [NoDue EXCEPT !.updates = {"rejection", "strike"}, !.await = TRUE]
<1>2. CASE Then("blocklist")
  BY <1>1, <1>2, ThenKeeps DEF Stages
<1>3. CASE selected = "reject" /\ Respond(wire, selected, "protected", d)
  <2>1. d \in Due /\ cfg.mode # "accept" /\ Respond(wire, "reject", "protected", d)
    BY <1>3, DueLiteral, Zenon DEF Updates, Adaptive, selectActionForMode
  <2> HIDE DEF d
  <2>2. QED
    BY <1>1, <2>1, PlainRespondKeeps DEF Finals, Actions, Events
<1>4. CASE selected = "accept" /\ Respond(wire, selected, "none", NoDue)
  <2>1. Respond(wire, "accept", "none", NoDue)
    BY <1>4
  <2>2. QED
    BY <1>1, <2>1, PlainRespondKeeps, InitialRecords DEF Finals, Actions, NoDue
<1>5. QED
  BY <1>2, <1>3, <1>4 DEF applyAuthenticatedOnlySenderDomain

\* The sender blocklist, which holds removals back for the response.
LEMMA BlocklistKeeps == IInv /\ applySenderBlocklist => IInv'
<1> SUFFICES ASSUME IInv, applySenderBlocklist PROVE IInv'
  OBVIOUS
<1>1. stage = "blocklist" /\ Frame /\ UNCHANGED <<conn, effects>>
  BY DEF applySenderBlocklist
<1> DEFINE ev == record("blocklist", "rejected")
           d == [NoDue EXCEPT !.updates = {"rejection"}, !.events = ev]
<1>2. CASE Then("authenticated")
  BY <1>1, <1>2, ThenKeeps DEF Stages
<1>3. CASE cfg.mode = "enforce" /\ Respond(wire, "reject", "none", d)
  <2> DEFINE a == [NoDue EXCEPT !.updates = {"rejection"}]
  <2>1. ev \subseteq Activity
    BY RecordType DEF Events, Outcomes
  <2>2. a \in Due
    BY InitialRecords DEF Due, Updates
  <2>3. d = [a EXCEPT !.events = ev]
    OBVIOUS
  <2> HIDE DEF a, ev
  <2>4. d \in Due
    BY <2>1, <2>2, <2>3, Zenon DEF Due
  <2> HIDE DEF d
  <2>5. QED
    BY <1>1, <1>3, <2>4, PlainRespondKeeps DEF Finals, Actions
<1>4. CASE \E blocked \in SUBSET envelope :
             /\ cfg.mode = "enforce" /\ msg' = [msg EXCEPT !.blocked = blocked]
             /\ stage' = "authenticated"
             /\ UNCHANGED <<running, alive, expired, due, openExact, ghostVars>>
  <2>1. PICK blocked \in SUBSET envelope : msg' = [msg EXCEPT !.blocked = blocked]
    BY <1>4
  <2>2. msg \in Message /\ envelope \subseteq Mailboxes
    BY DEF IInv, TypeOK, Message, envelope
  <2>3. /\ msg' \in Message /\ msg'.rcpts = msg.rcpts /\ msg'.boxes = msg.boxes
        /\ msg'.exact = msg.exact
    BY <2>1, <2>2 DEF Message
  <2>4. /\ cfg' = cfg /\ phase' = phase /\ running' = running /\ alive' = alive
        /\ shutdown' = shutdown /\ caps' = caps /\ conn' = conn
        /\ openExact' = openExact /\ due' = due /\ expired' = expired
        /\ wire' = wire /\ effects' = effects /\ activity' = activity
        /\ stage' = "authenticated" /\ cfg.mode = "enforce"
    BY <1>1, <1>4 DEF Frame, ghostVars
  <2>5. TypeOK' /\ ExactInv'
    BY <2>3, <2>4 DEF IInv, TypeOK, ExactInv, Held, Stages
  <2>6. ControlInv' /\ MessageIsolation' /\ IdentityScoped'
    BY <1>1, <2>4, SMTT(60) DEF IInv, ControlInv, MessageIsolation, IdentityScoped
  <2>7. WireInv' /\ RemovalInv' /\ ModeInv'
    BY <1>1, <2>4 DEF IInv, WireInv, RemovalInv, ModeInv
  <2>8. QED
    BY <2>5, <2>6, <2>7 DEF IInv
<1>5. QED
  BY <1>2, <1>3, <1>4 DEF applySenderBlocklist

\* The bypass of authenticated mail.
LEMMA AuthenticatedKeeps == IInv /\ bypassAuthenticated => IInv'
<1> SUFFICES ASSUME IInv, bypassAuthenticated PROVE IInv'
  OBVIOUS
<1>1. stage \notin {"idle", "post"} /\ Frame /\ UNCHANGED <<conn, effects>>
  BY DEF bypassAuthenticated
<1>2. CASE Then("attachments")
  BY <1>1, <1>2, ThenKeeps DEF Stages
<1>3. CASE finishBypassedMessage(wire, "authenticated", "none", TRUE, FALSE)
  BY <1>1, <1>3, BypassKeeps, UndecidedFacts, Zenon
<1>4. QED
  BY <1>2, <1>3, Zenon DEF bypassAuthenticated

\* An attachment decision, for a finding or for an incomplete inspection.
LEMMA AttachmentDecisionKeeps ==
  ASSUME IInv, stage \notin {"idle", "post"}, NEW proposed \in Actions,
         NEW finding \in BOOLEAN, finishAttachmentDecision(proposed, finding),
         Frame, UNCHANGED <<conn, effects>>
  PROVE  IInv'
<1> DEFINE selected == selectActionForMode(proposed)
           strikes == finding /\ cfg.attachmentStrike /\ ~conn.auth
           u == {"rejection"} \cup (IF strikes THEN {"strike"} ELSE {})
           d == [NoDue EXCEPT !.updates = u, !.await = strikes]
<1>1. selected \in Actions /\ (cfg.mode = "accept" => selected = "accept")
  BY DEF selectActionForMode, Actions
<1>2. CASE selected = "accept"
  <2>1. Respond(wire, "accept", "none", removal)
    BY <1>2 DEF finishAttachmentDecision
  <2>2. QED
    BY <2>1, RemovalType, PlainRespondKeeps DEF Finals, Actions
<1>3. CASE selected = "tempfail"
  <2>1. Respond(wire, "tempfail", "none", NoDue)
    BY <1>3 DEF finishAttachmentDecision
  <2>2. QED
    BY <2>1, PlainRespondKeeps, InitialRecords, SMTT(60) DEF Finals, Actions, NoDue
<1>4. CASE selected = "reject"
  <2>1. Respond(wire, "reject", "attachment", d)
    BY <1>4 DEF finishAttachmentDecision
  <2>2. strikes \in BOOLEAN /\ u \in SUBSET Updates /\ cfg.mode # "accept"
    BY <1>1, <1>4, SMTT(60) DEF Updates, Adaptive
  <2> HIDE DEF strikes, u
  <2>3. d \in Due
    BY <2>2, DueLiteral, Zenon
  <2> HIDE DEF d
  <2>4. QED
    BY <2>1, <2>2, <2>3, PlainRespondKeeps DEF Finals, Actions, Events
<1>5. QED
  BY <1>1, <1>2, <1>3, <1>4 DEF Actions

\* Attachment inspection, also when its wait is cancelled.
LEMMA AttachmentsKeep == IInv /\ applyAttachments => IInv'
<1> SUFFICES ASSUME IInv, applyAttachments PROVE IInv'
  OBVIOUS
<1>1. stage \notin {"idle", "post"} /\ Frame /\ UNCHANGED <<conn, effects>>
  BY DEF applyAttachments
<1>2. CASE Then("verify")
  BY <1>1, <1>2, ThenKeeps, SMTT(60) DEF Stages
<1>3. CASE EndSession /\ UNCHANGED ghostVars
  BY <1>1, <1>3, EndSessionKeeps DEF ghostVars, IInv, TypeOK, WireInv, ModeInv
<1>4. CASE finishAttachmentDecision("reject", TRUE)
  BY <1>1, <1>4, AttachmentDecisionKeeps, Zenon DEF Actions
<1>5. CASE \E problem \in {"malformed", "encrypted", "unscannable"} :
             finishAttachmentDecision(configuredAction(problem), FALSE)
  <2>1. PICK problem \in {"malformed", "encrypted", "unscannable"} :
          finishAttachmentDecision(configuredAction(problem), FALSE)
    BY <1>5, Zenon
  <2>2. configuredAction(problem) \in Actions
    BY <1>1, UndecidedFacts DEF configuredAction, Config, Actions
  <2>3. QED
    BY <1>1, <2>1, <2>2, AttachmentDecisionKeeps, Zenon
<1>6. QED
  BY <1>2, <1>3, <1>4, <1>5, Zenon DEF applyAttachments

\* Verification closes the exact message.
LEMMA VerifyKeeps == IInv /\ verifyAuthentication => IInv'
<1> SUFFICES ASSUME IInv, verifyAuthentication PROVE IInv'
  OBVIOUS
<1>1. PICK trust \in BOOLEAN : msg' = [closeExactMessage(msg) EXCEPT !.trust = trust]
  BY DEF verifyAuthentication
<1> DEFINE m == closeExactMessage(msg)
<1>2. /\ m \in Message /\ Held(m) = 0 /\ m.rcpts = msg.rcpts
      /\ m.boxes = msg.boxes /\ m.blocked = msg.blocked
  BY CloseReleases DEF IInv, TypeOK
<1>3. msg' = [m EXCEPT !.trust = trust]
  BY <1>1
<1> HIDE DEF m
<1>4. /\ msg' \in Message /\ Held(msg') = 0 /\ msg'.rcpts = msg.rcpts
      /\ msg'.boxes = msg.boxes /\ msg'.blocked = msg.blocked
  BY <1>2, <1>3 DEF Message, Held
<1>5. openExact' = 0
  BY DEF verifyAuthentication, IInv, ExactInv, Held
<1>6. /\ cfg' = cfg /\ phase' = phase /\ running' = running /\ alive' = alive
      /\ shutdown' = shutdown /\ caps' = caps /\ conn' = conn
      /\ due' = due /\ expired' = expired /\ stage = "verify" /\ stage' = "evidence"
      /\ wire' = wire /\ effects' = effects /\ activity' = activity
  BY DEF verifyAuthentication, Frame, ghostVars
<1>7. TypeOK'
  BY <1>4, <1>5, <1>6 DEF IInv, TypeOK, Stages
<1>8. ExactInv'
  BY <1>4, <1>5 DEF ExactInv, Held
<1>9. ControlInv' /\ MessageIsolation' /\ IdentityScoped'
  BY <1>5, <1>6, SMTT(60) DEF IInv, ControlInv, MessageIsolation, IdentityScoped
<1>10. WireInv' /\ RemovalInv' /\ ModeInv'
  BY <1>4, <1>6, Zenon DEF IInv, WireInv, RemovalInv, ModeInv
<1>11. QED
  BY <1>7, <1>8, <1>9, <1>10 DEF IInv

\* The bypasses of allowlisted domains and known correspondents.
LEMMA EvidenceKeeps == IInv /\ prepareInboundEvidence => IInv'
<1> SUFFICES ASSUME IInv, prepareInboundEvidence PROVE IInv'
  OBVIOUS
<1>1. stage \notin {"idle", "post"} /\ Frame /\ UNCHANGED <<conn, effects>>
  BY DEF prepareInboundEvidence
<1>2. msg.trust \in BOOLEAN
  BY DEF IInv, TypeOK, Message
<1>3. CASE Then("analyse")
  BY <1>1, <1>3, ThenKeeps DEF Stages
<1>4. ASSUME NEW known \in BOOLEAN,
             finishBypassedMessage(wire, "allowlist", "trustedDomain", FALSE, known /\ msg.trust)
      PROVE  IInv'
  <2>1. (known /\ msg.trust) \in BOOLEAN
    OBVIOUS
  <2>2. QED
    BY <1>1, <1>4, <2>1, BypassKeeps, UndecidedFacts, Zenon DEF Events
<1>5. CASE finishBypassedMessage(wire, "known", "correspondent", FALSE, msg.trust)
  BY <1>1, <1>2, <1>5, BypassKeeps, UndecidedFacts, Zenon DEF Events
<1>6. QED
  BY <1>3, <1>4, <1>5, Zenon DEF prepareInboundEvidence

\* The evaluation and its response.
LEMMA EvaluateKeeps == IInv /\ evaluateMessage => IInv'
<1> SUFFICES ASSUME IInv, evaluateMessage PROVE IInv'
  OBVIOUS
<1>1. stage \notin {"idle", "post"} /\ Frame /\ UNCHANGED effects
  BY DEF evaluateMessage
<1>2. PICK r \in Evaluations :
       /\ IF r.kind = "failed" THEN conn' \in {conn} \cup awaitConnectionDNS(conn)
          ELSE conn' \in awaitConnectionDNS(conn)
       /\ \/ /\ CtxDone \/ ~alive
             /\ EndSession
             /\ activity' = activity \cup record(scanEvent(r), "responseFailed")
             /\ UNCHANGED wire
          \/ Respond(wire, selectedAction(r), scanEvent(r),
                     [(IF selectedAction(r) = "accept" THEN removal ELSE NoDue)
                        EXCEPT !.to = updateRecipients(r),
                               !.updates = @ \cup postDecisionUpdates(r)])
  BY Zenon DEF evaluateMessage
<1>3. conn' \in Connection /\ conn'.connected
  BY <1>1, <1>2, UndecidedFacts, AwaitKeepsIdentity
<1>4. scanEvent(r) \in Events
  BY DEF scanEvent, Events
<1>5. /\ wire \in Wire /\ wire.finals = 0 /\ wire.deleted = {}
      /\ effects = {} /\ activity = {} /\ conn.connected
  BY <1>1, UndecidedFacts
<1>6. CASE /\ EndSession /\ UNCHANGED wire
           /\ activity' = activity \cup record(scanEvent(r), "responseFailed")
  <2>1. activity' \subseteq Activity
    BY <1>4, <1>5, <1>6, RecordType, SMTT(60) DEF Outcomes
  <2>2. QED
    BY <1>1, <1>3, <1>5, <1>6, <2>1, EndSessionKeeps, SMTT(60)
<1> DEFINE base == IF selectedAction(r) = "accept" THEN removal ELSE NoDue
           more == postDecisionUpdates(r)
           who == updateRecipients(r)
           d == [base EXCEPT !.to = who, !.updates = @ \cup more]
<1>7. CASE Respond(wire, selectedAction(r), scanEvent(r), d)
  <2>1. base \in Due /\ (cfg.mode = "accept" => base.updates = {})
    BY RemovalType, InitialRecords DEF NoDue
  <2>2. more \in SUBSET Updates /\ (cfg.mode = "accept" => more = {})
    BY DEF postDecisionUpdates, Updates, Adaptive
  <2>3. who \in SUBSET Mailboxes
    BY RecipientsType DEF updateRecipients
  <2> HIDE DEF base, more, who
  <2>4. d \in Due /\ (cfg.mode = "accept" => d.updates = {})
    BY <2>1, <2>2, <2>3, MoreUpdates
  <2> HIDE DEF d
  <2>5. selectedAction(r) \in Finals
    BY DEF selectedAction, analysisFailure, selectActionForMode, Finals, Actions
  <2>6. QED
    BY <1>1, <1>3, <1>4, <1>5, <1>7, <2>4, <2>5, RespondKeeps, SMTT(60)
<1>8. QED
  BY <1>2, <1>6, <1>7

\* The updates after the response, and the reset of the message.
LEMMA UpdatesKeep == IInv /\ finishUpdates => IInv'
<1> SUFFICES ASSUME IInv, finishUpdates PROVE IInv'
  OBVIOUS
<1>1. /\ stage = "post" /\ stage' = "idle" /\ due' = NoDue /\ expired' = FALSE
      /\ cfg' = cfg /\ running' = running /\ alive' = alive
      /\ shutdown' = shutdown /\ caps' = caps /\ wire' = wire
      /\ activity' = activity \cup due.events
      /\ effects' \subseteq effects \cup due.updates
      /\ resetMessage("connection")
  BY DEF finishUpdates
<1>2. /\ running /\ conn.connected /\ conn \in Connection /\ due \in Due
      /\ openExact = Held(msg)
  BY <1>1, SMTT(60) DEF IInv, TypeOK, ControlInv, ExactInv
<1>3. conn' \in Connection /\ conn'.connected
  BY <1>2, AwaitKeepsIdentity DEF finishUpdates
<1>4. /\ phase' = "connection" /\ msg' = EmptyMessage /\ openExact' = 0
      /\ msg' \in Message /\ openExact' = Held(msg')
      /\ msg'.blocked = {} /\ Len(msg'.rcpts) = 0 /\ Cardinality(msg'.boxes) = 0
  BY <1>1, <1>2, ResetIsInitial
<1>5. effects' \subseteq Updates /\ activity' \subseteq Activity
  BY <1>1, <1>2, SMTT(60) DEF IInv, TypeOK, Due
<1>6. TypeOK'
  <2>1. /\ due' \in Due /\ wire' \in Wire /\ expired' \in BOOLEAN
        /\ stage' \in Stages /\ phase' \in Phases /\ openExact' \in {0, 1}
    BY <1>1, <1>4, InitialRecords, Zenon DEF IInv, TypeOK, Stages, Phases
  <2>2. Len(msg'.rcpts) <= MaxRecipients /\ Cardinality(msg'.boxes) <= MaxSenders
    BY <1>4, SessionAssumption
  <2>3. /\ cfg' \in Configs /\ running' \in BOOLEAN /\ alive' \in BOOLEAN
        /\ shutdown' \in BOOLEAN /\ caps' \subseteq Capabilities
    BY <1>1, Zenon DEF IInv, TypeOK
  <2>4. QED
    BY <1>3, <1>4, <1>5, <2>1, <2>2, <2>3, Zenon DEF TypeOK
<1>7. ExactInv' /\ ControlInv' /\ MessageIsolation' /\ IdentityScoped'
  BY SMTT(60), <1>1, <1>2, <1>3, <1>4
     DEF ExactInv, Held, ControlInv, MessageIsolation, IdentityScoped
<1>8. WireInv' /\ RemovalInv'
  BY <1>1, <1>4, ZenonT(60) DEF IInv, WireInv, RemovalInv
<1>9. ModeInv'
  BY <1>1, <1>4, Zenon DEF IInv, ModeInv, NoDue
<1>10. QED
  BY <1>6, <1>7, <1>8, <1>9 DEF IInv

-----------------------------------------------------------------------------
(* The environment, and the whole next-state relation. *)

\* A failing transport, a deadline and a shutdown only raise their own flag.
LEMMA EnvironmentKeeps == IInv /\ (Break \/ Expire \/ Shutdown \/ CloseOnShutdown) => IInv'
<1> SUFFICES ASSUME IInv, Break \/ Expire \/ Shutdown \/ CloseOnShutdown PROVE IInv'
  OBVIOUS
<1>1. /\ cfg' = cfg /\ phase' = phase /\ running' = running /\ caps' = caps
      /\ conn' = conn /\ msg' = msg /\ openExact' = openExact /\ stage' = stage
      /\ due' = due /\ wire' = wire /\ effects' = effects /\ activity' = activity
      /\ alive' \in BOOLEAN /\ shutdown' \in BOOLEAN /\ expired' \in BOOLEAN
      /\ ~running => alive' = alive
  BY Zenon DEF Break, Expire, Shutdown, CloseOnShutdown, messageVars, pipelineVars,
         ghostVars, IInv, TypeOK
<1>2. TypeOK' /\ ExactInv'
  BY <1>1 DEF IInv, TypeOK, ExactInv, Held
<1>3. ControlInv' /\ MessageIsolation' /\ IdentityScoped'
  BY <1>1, SMTT(60) DEF IInv, ControlInv, MessageIsolation, IdentityScoped
<1>4. WireInv' /\ RemovalInv' /\ ModeInv'
  BY <1>1, Zenon DEF IInv, WireInv, RemovalInv, ModeInv
<1>5. QED
  BY <1>2, <1>3, <1>4 DEF IInv

\* A step that changes nothing.
LEMMA StutterKeeps == IInv /\ UNCHANGED vars => IInv'
<1> SUFFICES ASSUME IInv, UNCHANGED vars PROVE IInv'
  OBVIOUS
<1> USE DEF vars
<1>1. TypeOK' /\ ExactInv'
  BY DEF IInv, TypeOK, ExactInv, Held
<1>2. ControlInv' /\ MessageIsolation' /\ IdentityScoped'
  BY DEF IInv, ControlInv, MessageIsolation, IdentityScoped
<1>3. WireInv' /\ RemovalInv' /\ ModeInv'
  BY DEF IInv, WireInv, RemovalInv, ModeInv
<1>4. QED
  BY <1>1, <1>2, <1>3 DEF IInv

\* A new session satisfies the invariant.
LEMMA InitIInv == Init => IInv
<1> SUFFICES ASSUME Init PROVE IInv
  OBVIOUS
<1>1. TypeOK
  <2>1. /\ conn \in Connection /\ msg \in Message /\ wire \in Wire /\ due \in Due
        /\ Len(msg.rcpts) = 0 /\ Cardinality(msg.boxes) = 0
    BY InitialRecords DEF Init
  <2>2. Len(msg.rcpts) <= MaxRecipients /\ Cardinality(msg.boxes) <= MaxSenders
    BY <2>1, SessionAssumption
  <2>3. /\ cfg \in Configs /\ phase \in Phases /\ stage \in Stages
        /\ running \in BOOLEAN /\ alive \in BOOLEAN
        /\ shutdown \in BOOLEAN /\ expired \in BOOLEAN
        /\ caps \subseteq Capabilities /\ openExact \in {0, 1}
        /\ effects \subseteq Updates /\ activity \subseteq Activity
    BY Zenon DEF Init, Phases, Stages
  <2>4. QED
    BY <2>1, <2>2, <2>3 DEF TypeOK
<1>2. ExactInv /\ ControlInv /\ MessageIsolation
  BY SMTT(60) DEF Init, ExactInv, Held, EmptyMessage, ControlInv, MessageIsolation
<1>5. IdentityScoped
  BY Zenon DEF Init, NoConnection, IdentityScoped
<1>3. WireInv /\ RemovalInv /\ ModeInv
  <2>1. /\ phase = "negotiation" /\ stage = "idle" /\ effects = {}
        /\ msg.blocked = {} /\ due.updates = {}
    BY DEF Init, NoDue, EmptyMessage
  <2>2. wire.finals = 0 /\ wire.deleted = {}
    BY DEF Init, NoWire
  <2>3. QED
    BY <2>1, <2>2 DEF WireInv, RemovalInv, ModeInv
<1>4. QED
  BY <1>1, <1>2, <1>3, <1>5 DEF IInv

\* Every step of a session preserves the invariant.
LEMMA NextIInv == IInv /\ [Next]_vars => IInv'
<1> SUFFICES ASSUME IInv, [Next]_vars PROVE IInv'
  OBVIOUS
<1>1. CASE handleCommand
  BY SMTT(60), <1>1, NegotiateKeeps, MacroKeeps, AbortKeeps, QuitSMTPConnectionKeeps,
     ConnectKeeps, HeloKeeps, MailKeeps, RecipientKeeps, AddHeaderKeeps,
     BodyKeeps, EndBodyKeeps, LeaveKeeps, StutterKeeps
     DEF handleCommand, DataOrUnknown
<1>2. CASE finishMessage
  BY SMTT(60), <1>2, InternalKeeps, EmailCommandKeeps, ProtectedKeeps, BlocklistKeeps,
     AuthenticatedKeeps, AttachmentsKeep, VerifyKeeps, EvidenceKeeps,
     EvaluateKeeps, UpdatesKeep DEF finishMessage
<1>3. CASE HangUp
  BY <1>3, LeaveKeeps
<1>4. CASE Break \/ Expire \/ Shutdown \/ CloseOnShutdown
  BY <1>4, EnvironmentKeeps
<1>5. CASE Closed \/ UNCHANGED vars
  BY <1>5, StutterKeeps DEF Closed
<1>6. QED
  BY <1>1, <1>2, <1>3, <1>4, <1>5 DEF Next

\* The inductive invariant holds in every reachable state of a session.
THEOREM Inductive == Spec => []IInv
<1>1. Init => IInv
  BY InitIInv
<1>2. IInv /\ [Next]_vars => IInv'
  BY NextIInv
<1>3. QED
  BY <1>1, <1>2, PTL DEF Spec

\* Type correctness, with the caps of RCPT and of addHeader, for every cap and
\* every set of recipients and headers.
THEOREM SessionTypes == Spec => []TypeOK
<1>1. IInv => TypeOK
  BY DEF IInv
<1>2. QED
  BY <1>1, Inductive, PTL

\* writePolicyResponse deletes recipients only with an acceptance, and then
\* exactly the blocked ones.
THEOREM RemovalsSafe == Spec => []RemovalsOnlyWithAcceptance
<1>1. IInv => RemovalsOnlyWithAcceptance
  BY DEF IInv, RemovalInv, RemovalsOnlyWithAcceptance
<1>2. QED
  BY <1>1, Inductive, PTL

\* Accept mode never updates reputation, correspondents or the history.
THEOREM AcceptModeSafe == Spec => []AcceptModeLearnsNothing
<1>1. IInv => AcceptModeLearnsNothing
  BY DEF IInv, ModeInv, AcceptModeLearnsNothing
<1>2. QED
  BY <1>1, Inductive, PTL

\* Nothing of one message is left when the session waits for the next.
THEOREM MessagesIsolated == Spec => []MessageIsolation
<1>1. IInv => MessageIsolation
  BY DEF IInv
<1>2. QED
  BY <1>1, Inductive, PTL

\* The identity of an SMTP connection ends with QUIT_NC.
THEOREM IdentitySafe == Spec => []IdentityScoped
<1>1. IInv => IdentityScoped
  BY DEF IInv
<1>2. QED
  BY <1>1, Inductive, PTL

\* The exact-message object is closed once on every path of the session.
THEOREM ExactSafe == Spec => []ExactReleased
<1>1. IInv => ExactReleased
  BY DEF IInv, ExactInv, ControlInv, ExactReleased
<1>2. QED
  BY <1>1, Inductive, PTL

\* A message, a connection and an exact-message object leave nothing behind.
THEOREM ScopesSafe == Spec => []ScopesEnd
<1>1. MessageIsolation /\ IdentityScoped /\ ExactReleased => ScopesEnd
  BY DEF ScopesEnd
<1>2. QED
  BY <1>1, MessagesIsolated, IdentitySafe, ExactSafe, PTL

\* Only the step after the updates leaves finishMessage with the session open.
LEMMA LeavesAnswered ==
  ASSUME Next, stage # "idle", stage' = "idle", running'
  PROVE  stage = "post" /\ wire' = wire
<1>1. ~handleCommand
  BY Zenon DEF handleCommand, negotiate, captureSessionMacros, Abort,
         QuitSMTPConnection, Connect, Helo, Mail, Recipient, DataOrUnknown,
         addHeader, EndHeaders, Body, EndBody, Leave, Command
<1>2. ~HangUp /\ ~Break /\ ~Expire /\ ~Shutdown /\ ~CloseOnShutdown /\ ~Closed
  BY Zenon DEF HangUp, Break, Expire, Shutdown, CloseOnShutdown, Closed, pipelineVars, vars
<1>3. ~EndSession
  BY DEF EndSession
<1>4. \A w, final, event, d : ~Respond(w, final, event, d)
  BY <1>3 DEF Respond
<1>5. ~Then("command") /\ ~Then("protected") /\ ~Then("blocklist")
      /\ ~Then("authenticated") /\ ~Then("attachments") /\ ~Then("verify")
      /\ ~Then("analyse")
  BY DEF Then
<1>6. CASE finishInternalMessage
  BY <1>4, <1>5, <1>6 DEF finishInternalMessage, finishBypassedMessage
<1>7. CASE handleEmailCommand
  BY <1>4, <1>5, <1>7 DEF handleEmailCommand
<1>8. CASE applyAuthenticatedOnlySenderDomain
  BY <1>4, <1>5, <1>8 DEF applyAuthenticatedOnlySenderDomain
<1>9. CASE applySenderBlocklist
  BY <1>4, <1>5, <1>9 DEF applySenderBlocklist
<1>10. CASE bypassAuthenticated
  BY <1>4, <1>5, <1>10 DEF bypassAuthenticated, finishBypassedMessage
<1>11. CASE applyAttachments
  <2>1. \A proposed, finding : ~finishAttachmentDecision(proposed, finding)
    BY <1>4 DEF finishAttachmentDecision
  <2>2. QED
    BY <1>3, <1>5, <1>11, <2>1, ZenonT(60) DEF applyAttachments
<1>12. CASE verifyAuthentication
  BY <1>12 DEF verifyAuthentication
<1>13. CASE prepareInboundEvidence
  BY <1>4, <1>5, <1>13 DEF prepareInboundEvidence, finishBypassedMessage
<1>14. CASE evaluateMessage
  BY <1>3, <1>4, <1>14 DEF evaluateMessage
<1>15. CASE finishUpdates
  BY <1>15 DEF finishUpdates
<1>16. QED
  BY SMTT(60), <1>1, <1>2, <1>6, <1>7, <1>8, <1>9, <1>10, <1>11, <1>12, <1>13, <1>14,
     <1>15 DEF Next, finishMessage

\* finishMessage answers once: no second final response, none before the
\* decision, and an open session after end-of-body means the MTA was answered.
THEOREM AnsweredOnce == Spec => AnsweredExactlyOnce
<1> DEFINE A == /\ wire'.finals <= 1
                /\ stage' \notin {"idle", "post"} => wire'.finals = 0
                /\ (stage # "idle" /\ stage' = "idle" /\ running') => wire'.finals = 1
<1>1. ASSUME IInv, IInv', Next PROVE A
  <2>1. wire'.finals <= 1 /\ (stage' \notin {"idle", "post"} => wire'.finals = 0)
    <3>1. wire'.finals <= 1
      BY <1>1 DEF IInv, WireInv
    <3>2. ASSUME stage' \notin {"idle", "post"} PROVE wire'.finals = 0
      <4>1. running' /\ phase' = "body"
        BY <1>1, <3>2, Zenon DEF IInv, ControlInv, TypeOK
      <4>2. wire' = NoWire
        BY <1>1, <3>2, <4>1 DEF IInv, WireInv
      <4>3. QED
        BY <4>2 DEF NoWire
    <3>3. QED
      BY <3>1, <3>2
  <2>2. (stage # "idle" /\ stage' = "idle" /\ running') => wire'.finals = 1
    BY <1>1, LeavesAnswered DEF IInv, WireInv
  <2>3. QED
    BY <2>1, <2>2, SMTT(60)
<1>2. IInv /\ IInv' /\ [Next]_vars => [A]_vars
  BY <1>1
<1>3. QED
  BY <1>2, Inductive, PTL DEF Spec, AnsweredExactlyOnce
=============================================================================
