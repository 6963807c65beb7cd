SPECIFICATION Spec
CONSTANTS
  r1 = r1 r2 = r2 cmd = cmd bad = bad s1 = s1 s2 = s2
  Configs <- DecisionConfigs
  Offers <- DecisionOffers
  Macros <- DecisionMacros
  Peers = {"public"}
  Senders = {s1}
  Headers <- DecisionHeaders
  Mailboxes = {r1, cmd}
  CommandMailbox = cmd
  BadMailbox = bad
  MaxRecipients = 2
  MaxSenders = 1
INVARIANTS RemovalsOnlyWithAcceptance ScopesEnd 
PROPERTIES AnsweredExactlyOnce UpdatesJustified 
