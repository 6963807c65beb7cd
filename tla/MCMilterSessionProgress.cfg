SPECIFICATION FairSpec
CONSTANTS
  r1 = r1 r2 = r2 cmd = cmd bad = bad s1 = s1 s2 = s2
  Configs <- ProgressConfigs
  Offers <- ProgressOffers
  Macros <- NoMacros
  Peers = {"local"}
  Senders = {s1, s2}
  Headers <- ProgressHeaders
  Mailboxes = {r1}
  CommandMailbox = cmd
  BadMailbox = bad
  MaxRecipients = 1
  MaxSenders = 1
PROPERTIES SessionProgress
