SPECIFICATION Spec
CONSTANTS
  r1 = r1 r2 = r2 cmd = cmd bad = bad s1 = s1 s2 = s2
  Configs <- DecisionConfigs
  Offers <- AllCaps
  Macros <- NoMacros
  Peers = {"public"}
  Senders = {s1}
  Headers <- ProtocolHeaders
  Mailboxes = {r1, r2}
  CommandMailbox = cmd
  BadMailbox = bad
  MaxRecipients = 2
  MaxSenders = 1
INVARIANTS ActivityStored
