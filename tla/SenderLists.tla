----------------------------- MODULE SenderLists -----------------------------
(***************************************************************************)
(* Whom the local mailboxes trust and whom they block: the tables          *)
(* correspondents and sender_blocklist, the messages that consult and      *)
(* teach them, and the commands and maintenance that edit them.            *)
(*                                                                         *)
(* A message looks its sender up in the blocklist, later in the            *)
(* correspondents, and records what it taught after its response, each in  *)
(* a statement or transaction of its own.  Every update reads the clock    *)
(* before its transaction.  Messages are enforced, have one visible sender *)
(* and a complete recipient set.                                           *)
(***************************************************************************)
EXTENDS Integers, Sequences, FiniteSets

CONSTANTS
  Locals,       \* local mailboxes
  Remotes,      \* mailboxes of correspondents
  DomainOf,     \* the domain of a remote mailbox, a sequence of labels
  Everyone,     \* the recipient "*" of a server-wide block
  Callers,      \* goroutines inside a message or a command
  Operations,   \* the calls a run explores
  Features,     \* the switches of the configuration that are on
  Scope,        \* "global", or per_sender with recipient_match "all" or "any"
  MinMessages,  \* legitimate_sender_min_messages
  StaleAfter,   \* correspondents.stale_after (zero: never)
  Expiry,       \* sender_blocklist.expiry
  MaxRows,      \* correspondents.max_entries
  MaxBlocks,    \* sender_blocklist.max_entries
  CallTimeout,  \* postDecisionUpdateTimeout
  MaxListTime,  \* bound of the clock
  MaxEvidence   \* bound on the remembered messages of a pair

VARIABLES
  time,            \* the clock
  correspondents,  \* correspondents, by (local, remote)
  blocks,          \* sender_blocklist: the expiry of each rule, zero for none
  call,            \* the message or command of each caller
  hist             \* history: teaching messages of a pair since it was last distrusted

listsVars == <<time, correspondents, blocks, call, hist>>

Pairs == Locals \X Remotes

\* The domain of a mailbox and, when subdomains are included, its parents.
senderDomainCandidates(c) ==
  {SubSeq(DomainOf[c], i, Len(DomainOf[c])) :
     i \in IF "subdomains" \in Features THEN 1 .. Len(DomainOf[c]) ELSE {1}}

Domains ==
  UNION {{SubSeq(DomainOf[c], i, Len(DomainOf[c])) : i \in 1 .. Len(DomainOf[c])}
           : c \in Remotes}

Scopes == Locals \cup {Everyone}
Values == ({"exact"} \X Remotes) \cup ({"domain"} \X Domains)
Rules == Scopes \X Values

ASSUME ListsAssumption ==
  /\ IsFiniteSet(Locals) /\ IsFiniteSet(Remotes) /\ Everyone \notin Locals
  /\ \A c \in Remotes : DomainOf[c] \in Seq(STRING) /\ DomainOf[c] # <<>>
  /\ Operations \subseteq {"message", "learn", "manual", "distrust", "block", "unblock"}
  /\ Features \subseteq {"outbound", "inbound", "bypass", "authenticated", "subdomains"}
  /\ Scope \in {"global", "all", "any"}
  /\ MinMessages \in Nat \ {0} /\ StaleAfter \in Nat /\ Expiry \in Nat \ {0}
  /\ MaxRows \in Nat \ {0} /\ MaxBlocks \in Nat \ {0}
  /\ CallTimeout \in Nat \ {0} /\ StaleAfter > 0 => CallTimeout <= StaleAfter
  /\ MaxListTime \in Nat /\ MaxEvidence \in Nat

Explicit == {"outbound", "manual"}
Kinds == Explicit \cup {"absent", "inbound"}
Row == [kind : Kinds, count : Nat, last : Nat]
NoRow == [kind |-> "absent", count |-> 0, last |-> 0]

Commands == {"learn", "manual", "distrust", "block", "unblock"}
Steps == {"message", "screened", "touch", "record"} \cup Commands
Call == [op : Steps \cup {"idle"}, locals : SUBSET Locals, remotes : SUBSET Remotes,
         at : Nat, action : {"none", "refresh", "advance", "remove"},
         rule : Rules, blocked : SUBSET Locals, removes : BOOLEAN]

NoCall == [op |-> "idle", locals |-> {}, remotes |-> {}, at |-> 0, action |-> "none",
           rule |-> CHOOSE r \in Rules : TRUE, blocked |-> {}, removes |-> TRUE]

Return(s) == call' = [call EXCEPT ![s] = NoCall]

target(s) == call[s].locals \X call[s].remotes

-----------------------------------------------------------------------------
(* Rows. *)

\* staleCutoff.
isStale(row, t) ==
  StaleAfter > 0 /\ row.kind # "absent" /\ row.last < t - StaleAfter

\* qualifiedFragment.
qualified(row) ==
  row.kind \in Explicit \/ (row.kind = "inbound" /\ row.count >= MinMessages)

active(row, t) == qualified(row) /\ ~isStale(row, t)

fresh(row, t) == IF isStale(row, t) THEN NoRow ELSE row

\* A row after authenticated mail of the local mailbox to the correspondent.
learned(row, t) ==
  IF fresh(row, t).kind = "manual" THEN [row EXCEPT !.last = t]
  ELSE [kind |-> "outbound", count |-> 0, last |-> t]

\* Mutant: the first message counts as a promotion.
taughtAtOnce(row, t, advance) ==
  IF advance /\ row.kind \notin Explicit
  THEN [kind |-> "inbound", count |-> MinMessages, last |-> t] ELSE row

\* A row of a recipient after a legitimate classification.
taught(row, t, advance) ==
  LET base == fresh(row, t)
  IN CASE base.kind = "absent" ->
            IF advance THEN [kind |-> "inbound", count |-> 1, last |-> t] ELSE base
       [] base.kind = "inbound" /\ base.count < MinMessages ->
            IF advance THEN [base EXCEPT !.count = @ + 1, !.last = t] ELSE base
       [] OTHER -> [base EXCEPT !.last = t]

\* Mutant: every block of the mailbox is reversed, the server-wide one too.
reversedEverywhere(l, C) == Scopes \X ({"exact"} \X C)

\* deleteExactSenderBlocksTx: the rules an explicit trust reverses.
deleteExactSenderBlocksTx(l, C) == {l} \X ({"exact"} \X C)

\* deleteCorrespondentsForExactBlockTx: the pairs an exact block contradicts.
deleteCorrespondentsForExactBlockTx(rule) ==
  IF rule[2][1] # "exact" THEN {}
  ELSE (IF rule[1] = Everyone THEN Locals ELSE {rule[1]}) \X {rule[2][2]}

\* Deletes the rules R.
WithoutRules(R) == [r \in Rules |-> IF r \in R THEN 0 ELSE blocks[r]]

\* Updates the rows of the pairs P.
Update(P, f(_)) == [p \in Pairs |-> IF p \in P THEN f(correspondents[p]) ELSE correspondents[p]]

Drop(row) == NoRow
Forget(P) == hist' = [p \in Pairs |-> IF p \in P THEN 0 ELSE hist[p]]

-----------------------------------------------------------------------------
(* Messages from outside. *)

\* A message or a command enters; an update reads the clock.
Begin(s) ==
  /\ call[s].op = "idle"
  /\ \/ /\ "message" \in Operations
        /\ \E L \in SUBSET Locals \ {{}}, c \in Remotes :
             /\ \A l \in L : hist[<<l, c>>] < MaxEvidence
             /\ call' = [call EXCEPT ![s] = [NoCall EXCEPT
                  !.op = "message", !.locals = L, !.remotes = {c}]]
     \/ /\ "learn" \in Operations /\ "outbound" \in Features
        /\ \E l \in Locals, C \in SUBSET Remotes \ {{}} :
             call' = [call EXCEPT ![s] = [NoCall EXCEPT
               !.op = "learn", !.locals = {l}, !.remotes = C, !.at = time]]
     \/ \E op \in {"manual", "distrust"} \cap Operations, l \in Locals, c \in Remotes :
          call' = [call EXCEPT ![s] = [NoCall EXCEPT
            !.op = op, !.locals = {l}, !.remotes = {c}, !.at = time]]
     \/ \E op \in {"block", "unblock"} \cap Operations, r \in Rules :
          call' = [call EXCEPT ![s] = [NoCall EXCEPT
            !.op = op, !.rule = r, !.at = time]]
  /\ UNCHANGED <<time, correspondents, blocks, hist>>

\* MatchSenderBlocks: the recipients that a rule in force keeps the sender from.
matched(L, c) ==
  {l \in L : \E scope \in {l, Everyone} :
     \E v \in {<<"exact", c>>} \cup ({"domain"} \X senderDomainCandidates(c)) :
       blocks[<<scope, v>>] > time}

\* policyEnvelopeRecipients.
remaining(L, B, removes) == IF removes THEN L \ B ELSE L

\* Without the delete-recipient capability, and when the lookup fails, the
\* message goes on to all its recipients.
applySenderBlocklist(s) ==
  /\ call[s].op = "message"
  /\ \E removes \in BOOLEAN, c \in call[s].remotes :
       LET L == call[s].locals
           B == matched(L, c)
       IN IF B = L /\ removes THEN Return(s)
          ELSE call' = [call EXCEPT ![s] = [@ EXCEPT
                 !.op = "screened", !.blocked = B, !.removes = removes,
                 !.locals = remaining(L, B, removes)]]
  /\ UNCHANGED <<time, correspondents, blocks, hist>>

\* DecideInboundLearning.
learningAction(legitimate, confident, aligned) ==
  IF legitimate
  THEN IF /\ "inbound" \in Features /\ confident
          /\ "authenticated" \in Features => aligned
       THEN "advance" ELSE "refresh"
  ELSE IF aligned /\ confident THEN "remove" ELSE "none"

\* Match, as prepareInboundEvidence uses it.
known(L, C) ==
  LET trusted == {p \in Pairs : p[2] \in C /\ active(correspondents[p], time)}
  IN CASE Scope = "global" -> trusted # {}
       [] Scope = "any" -> \E l \in L : \E c \in C : <<l, c>> \in trusted
       [] OTHER -> \A l \in L : \E c \in C : <<l, c>> \in trusted

\* The correspondents are consulted.  A known correspondent bypasses analysis
\* and, when authenticated, is touched; anything else is classified.
prepareInboundEvidence(s) ==
  /\ call[s].op = "screened"
  /\ \E aligned \in BOOLEAN :
       LET bypass == /\ "bypass" \in Features /\ known(call[s].locals, call[s].remotes)
                     /\ "authenticated" \in Features => aligned
       IN IF bypass
          THEN IF aligned
               THEN call' = [call EXCEPT ![s] = [@ EXCEPT !.op = "touch", !.at = time]]
               ELSE Return(s)
          ELSE \E legitimate, confident \in BOOLEAN :
                 LET a == learningAction(legitimate, confident, aligned)
                 IN IF a = "none" THEN Return(s)
                    ELSE call' = [call EXCEPT ![s] = [@ EXCEPT
                           !.op = "record", !.action = a, !.at = time]]
  /\ UNCHANGED <<time, correspondents, blocks, hist>>

\* The relationships of the sender that a scope reaches.
reached(s) ==
  (IF Scope = "global" THEN Locals ELSE call[s].locals) \X call[s].remotes

TouchInbound(s) ==
  /\ call[s].op = "touch"
  /\ LET touched(row) == IF active(row, call[s].at)
                         THEN [row EXCEPT !.last = call[s].at] ELSE row
     IN correspondents' = Update(reached(s), touched)
  /\ Return(s)
  /\ UNCHANGED <<time, blocks, hist>>

\* Mutant: an unwanted message also removes explicit trust.
removableAny(row) == TRUE

removable(row) == row.kind = "inbound"

RecordInboundClassification(s) ==
  /\ call[s].op = "record"
  /\ IF call[s].action = "remove"
     THEN LET gone == {p \in reached(s) : removable(correspondents[p])}
          IN correspondents' = Update(gone, Drop) /\ Forget(gone)
     ELSE LET advance == call[s].action = "advance"
              after(row) == taught(row, call[s].at, advance)
          IN /\ correspondents' = Update(target(s), after)
             /\ hist' = [p \in Pairs |-> IF advance /\ p \in target(s)
                                         THEN hist[p] + 1 ELSE hist[p]]
  /\ Return(s)
  /\ UNCHANGED <<time, blocks>>

-----------------------------------------------------------------------------
(* Authenticated mail, commands and maintenance. *)

LearnAuthenticated(s) ==
  /\ call[s].op = "learn"
  /\ \E l \in call[s].locals :
       blocks' = WithoutRules(deleteExactSenderBlocksTx(l, call[s].remotes))
  /\ LET after(row) == learned(row, call[s].at)
     IN correspondents' = Update(target(s), after)
  /\ Return(s)
  /\ UNCHANGED <<time, hist>>

AddManual(s) ==
  /\ call[s].op = "manual"
  /\ \E l \in call[s].locals :
       blocks' = WithoutRules(deleteExactSenderBlocksTx(l, call[s].remotes))
  /\ LET after(row) == [kind |-> "manual", count |-> 0, last |-> call[s].at]
     IN correspondents' = Update(target(s), after)
  /\ Return(s)
  /\ UNCHANGED <<time, hist>>

expiresAt(t) == t + Expiry

AddSenderBlock(s) ==
  /\ call[s].op = "block"
  /\ LET gone == deleteCorrespondentsForExactBlockTx(call[s].rule)
     IN correspondents' = Update(gone, Drop) /\ Forget(gone)
  /\ blocks' = [blocks EXCEPT ![call[s].rule] = expiresAt(call[s].at)]
  /\ Return(s)
  /\ UNCHANGED time

\* WHITELIST DELETE for one mailbox or for all.
DeleteCorrespondent(s) ==
  /\ call[s].op = "distrust"
  /\ \E L \in {Locals, call[s].locals} :
       /\ correspondents' = Update(L \X call[s].remotes, Drop)
       /\ Forget(L \X call[s].remotes)
  /\ Return(s)
  /\ UNCHANGED <<time, blocks>>

\* BLOCKLIST DELETE for one recipient, for "*" or for ALL.
DeleteSenderBlocks(s) ==
  /\ call[s].op = "unblock"
  /\ \E S \in {Scopes, {call[s].rule[1]}} : blocks' = WithoutRules(S \X {call[s].rule[2]})
  /\ Return(s)
  /\ UNCHANGED <<time, correspondents, hist>>

excess(S, max) == IF Cardinality(S) > max THEN Cardinality(S) - max ELSE 0

evictionRank(row) == IF qualified(row) THEN 1 ELSE 0

\* Candidates first, then the least recently active; ties by id.
goesBefore(a, b) ==
  \/ evictionRank(a) < evictionRank(b)
  \/ evictionRank(a) = evictionRank(b) /\ a.last <= b.last

\* Removes stale rows, then the excess.
CleanupCorrespondents ==
  /\ LET kept == {p \in Pairs : correspondents[p].kind # "absent" /\ ~isStale(correspondents[p], time)}
     IN \E E \in SUBSET kept :
          /\ Cardinality(E) = excess(kept, MaxRows)
          /\ \A e \in E, k \in kept \ E : goesBefore(correspondents[e], correspondents[k])
          /\ correspondents' = [p \in Pairs |-> IF p \in kept \ E THEN correspondents[p] ELSE NoRow]
  /\ UNCHANGED <<time, blocks, call, hist>>

expiresBefore(r, q) == blocks[r] <= blocks[q]

\* Removes expired rules, then the excess by earliest expiry.
CleanupBlocks ==
  /\ LET kept == {r \in Rules : blocks[r] > time}
     IN \E E \in SUBSET kept :
          /\ Cardinality(E) = excess(kept, MaxBlocks)
          /\ \A e \in E, k \in kept \ E : expiresBefore(e, k)
          /\ blocks' = [r \in Rules |-> IF r \in kept \ E THEN blocks[r] ELSE 0]
  /\ UNCHANGED <<time, correspondents, call, hist>>

\* The call's statement fails or the process stops: nothing is written.
Fail(s) ==
  /\ call[s].op # "idle" /\ Return(s)
  /\ UNCHANGED <<time, correspondents, blocks, hist>>

\* An update ends with its context.
ListsTick ==
  /\ time < MaxListTime /\ time' = time + 1
  /\ \A s \in Callers : call[s].op \in Steps \ {"message", "screened"}
                          => time - call[s].at < CallTimeout
  /\ UNCHANGED <<correspondents, blocks, call, hist>>

ListsInit ==
  /\ time = 0
  /\ correspondents = [p \in Pairs |-> NoRow] /\ blocks = [r \in Rules |-> 0]
  /\ call = [s \in Callers |-> NoCall] /\ hist = [p \in Pairs |-> 0]

Step(s) ==
  \/ Begin(s) \/ applySenderBlocklist(s) \/ prepareInboundEvidence(s)
  \/ TouchInbound(s) \/ RecordInboundClassification(s) \/ LearnAuthenticated(s)
  \/ AddManual(s) \/ DeleteCorrespondent(s)
  \/ AddSenderBlock(s) \/ DeleteSenderBlocks(s) \/ Fail(s)

ListsNext ==
  \/ \E s \in Callers : Step(s)
  \/ CleanupCorrespondents \/ CleanupBlocks \/ ListsTick

ListsSpec == ListsInit /\ [][ListsNext]_listsVars

-----------------------------------------------------------------------------
(* Properties. *)

\* The shape of the tables; an update never carries a time of the future.
ListsTypeOK ==
  /\ time \in Nat
  /\ correspondents \in [Pairs -> Row] /\ blocks \in [Rules -> Nat]
  /\ hist \in [Pairs -> Nat] /\ call \in [Callers -> Call]
  /\ \A s \in Callers : call[s].at <= time

\* A mailbox never both trusts a correspondent explicitly (it wrote to them,
\* or WHITELIST ADD) and blocks that very address: whichever came last has
\* removed the other (LearnAuthenticated, AddManual, AddSenderBlock).
ExplicitTrustUnblocked ==
  \A p \in Pairs : correspondents[p].kind \in Explicit => blocks[<<p[1], <<"exact", p[2]>>>>] = 0

\* The count that promotes an inbound sender is covered by confident legitimate
\* messages since the pair was last distrusted, by an unwanted message, a block
\* or WHITELIST DELETE (RecordInboundClassification).
InboundTrustEarned ==
  \A p \in Pairs : correspondents[p].kind = "inbound" => correspondents[p].count <= hist[p]

\* The step in which s completes one of the operations ops.
Completes(s, ops) == call[s].op \in ops /\ call'[s] = NoCall

\* A rule in force ends early only by its own command, by capacity or, for an
\* exact rule of one recipient, by that recipient's explicit trust: "Domain
\* and server-wide blocks are intentionally unaffected" (LearnAuthenticated).
BlocksStand ==
  \A r \in Rules : (blocks[r] > time /\ blocks'[r] < blocks[r]) =>
    \/ \E s \in Callers :
         \/ Completes(s, {"unblock", "block"}) /\ call[s].rule[2] = r[2]
         \/ /\ Completes(s, {"learn", "manual"}) /\ r[1] \in call[s].locals
            /\ r[2][1] = "exact" /\ r[2][2] \in call[s].remotes
    \/ call' = call /\ Cardinality({q \in Rules : blocks[q] > time}) > MaxBlocks

\* The relationship p is explicit and not older than stale_after.
Trusts(p) ==
  correspondents[p].kind \in Explicit /\ (StaleAfter > 0 => correspondents[p].last >= time - StaleAfter)

\* Explicit trust that is not stale survives every message, also an unwanted
\* one and late updates with an old clock: only WHITELIST DELETE, an exact
\* block or capacity ends it, and manual trust is never turned into another kind.
ExplicitTrustLasts ==
  \A p \in Pairs : Trusts(p) =>
    \/ /\ correspondents'[p].kind \in Explicit
       /\ StaleAfter > 0 => correspondents'[p].last >= time - StaleAfter
       /\ correspondents[p].kind = "manual" => correspondents'[p].kind = "manual"
    \/ \E s \in Callers :
         \/ Completes(s, {"distrust"}) /\ p[2] \in call[s].remotes
         \/ /\ Completes(s, {"block"})
            /\ call[s].rule[1] \in {p[1], Everyone} /\ call[s].rule[2] = <<"exact", p[2]>>
    \/ /\ call' = call
       /\ Cardinality({q \in Pairs : correspondents[q].kind # "absent"}) > MaxRows

\* The two tables agree, and no trust in them is unearned.
TrustConsistent == ListsTypeOK /\ ExplicitTrustUnblocked /\ InboundTrustEarned

\* What a user was promised about a correspondent, a block or trust, ends only
\* in the ways the promise allows, whatever message runs at the same time.
PromisesKept ==
  [][BlocksStand /\ ExplicitTrustLasts]_listsVars

=============================================================================
