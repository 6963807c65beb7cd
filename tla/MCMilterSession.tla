-------------------------- MODULE MCMilterSession --------------------------
(* Instances of MilterSession for TLC: small sets of recipients and headers,
   and the configurations each question needs. *)
EXTENDS MilterSession

CONSTANTS r1, r2, cmd, bad, s1, s2

Base == [mode |-> "enforce", scanAuthenticated |-> TRUE, commands |-> FALSE,
         attachments |-> FALSE, invalidMIME |-> "reject",
         unscannable |-> "tempfail", encrypted |-> "accept",
         attachmentStrike |-> TRUE, internalAuth |-> FALSE,
         addHeaders |-> TRUE, domainAllowlist |-> TRUE, requireTrust |-> TRUE,
         aiError |-> "tempfail", htmlLimit |-> "reject",
         incompleteBody |-> "reject"]

NoFrom == [kind |-> "other", boxes |-> {}, valid |-> FALSE, protected |-> FALSE]
From(boxes, protected) ==
  [kind |-> "from", boxes |-> boxes, valid |-> Cardinality(boxes) = 1,
   protected |-> protected]
Login(target, user) == [target |-> target, host |-> "absent", user |-> user]
AllCaps == {Capabilities}
NoMacros == {}

\* Decisions: every policy, ordinary mail and command mail, with every order of
\* identities, messages and connections of a small session.
DecisionConfigs ==
  {[Base EXCEPT !.attachments = TRUE],
   [Base EXCEPT !.attachments = TRUE, !.mode = "accept", !.htmlLimit = "dos-reject"],
   [Base EXCEPT !.commands = TRUE, !.internalAuth = TRUE, !.scanAuthenticated = FALSE]}
DecisionOffers == {{"change", "add", "delrcpt"}, {"add"}}
DecisionMacros == {Login("mail", "valid"), Login("eoh", "empty"),
                   [target |-> "connect", host |-> "valid", user |-> "absent"]}
DecisionHeaders ==
  {From({s1}, TRUE), From({s1}, FALSE), [NoFrom EXCEPT !.kind = "result"]}
ProtocolHeaders == {From({s1}, FALSE)}

\* Progress: short messages, replies of the service itself included.
ProgressConfigs ==
  {[Base EXCEPT !.attachments = a, !.internalAuth = TRUE] : a \in BOOLEAN}
ProgressOffers == {{"change", "add", "delrcpt"}, {"add"}}
ProgressHeaders == {From({s1}, FALSE), From({s1, s2}, FALSE),
                    [NoFrom EXCEPT !.kind = "marker"]}
=============================================================================
