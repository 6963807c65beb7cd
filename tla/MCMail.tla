------------------------------- MODULE MCMail -------------------------------
(***************************************************************************)
(* TLC instances of the components that answer one question about a        *)
(* message: the attachment scanner (AttachmentScanner), the authentication *)
(* evidence of its headers (AuthResults), its verification by a worker     *)
(* (MailVerification), the commands in it (AdminCommands) and the          *)
(* ownership of their sender (SenderAliases).  A behaviour runs one of the *)
(* five; the others stay at rest.                                          *)
(***************************************************************************)
EXTENDS AttachmentScanner, AuthResults, MailVerification, AdminCommands,
        SenderAliases

VARIABLES
    part,   \* which of the five runs
    beat    \* changes with every step of the loop over aliases, so that a step that
            \* leaves all else as it was, a loop without progress, is still a step

-----------------------------------------------------------------------------
\* Attachments.

E(media, typed, attach, name, kind, decodes) ==
    [media |-> media, typed |-> typed, attach |-> attach, name |-> name,
     kind |-> kind, decodes |-> decodes]
MCEntities ==
    {E("multipart", TRUE, FALSE, "", "", TRUE), E("digest", TRUE, FALSE, "", "", TRUE),
     E("unbounded", TRUE, FALSE, "", "", TRUE), E("text", FALSE, FALSE, "", "script", TRUE),
     E("text", TRUE, TRUE, "", "MZ", FALSE), E("rfc822", TRUE, FALSE, "", "", FALSE),
     E("binary", TRUE, TRUE, "eml", "", TRUE), E("binary", TRUE, TRUE, "bad", "", TRUE),
     E("binary", TRUE, TRUE, "rar", "", TRUE), E("binary", TRUE, TRUE, "gz", "zip", FALSE),
     E("zip", TRUE, FALSE, "", "", TRUE), E("binary", TRUE, TRUE, "tar", "", TRUE)}

X(skip, enc, name, declared, size, kind, intact) ==
    [skip |-> skip, encrypted |-> enc, name |-> name, declared |-> declared,
     size |-> size, kind |-> kind, intact |-> intact]
MCEntries ==
    {X(TRUE, FALSE, "", 0, 0, "", TRUE), X(FALSE, TRUE, "txt", 1, 1, "", TRUE),
     X(FALSE, FALSE, "rar", 1, 1, "", TRUE), X(FALSE, FALSE, "txt", 1, 4, "MZ", TRUE),
     X(FALSE, FALSE, "txt", 1, 2, "", TRUE), X(FALSE, FALSE, "txt", 4, 1, "", TRUE),
     X(FALSE, FALSE, "zip", 1, 1, "zip", TRUE), X(FALSE, FALSE, "gz", 0, 1, "gzip", FALSE),
     X(FALSE, FALSE, "gz", 0, 1, "gzip", TRUE)}

D(located, inside, records, fixed, counts) ==
    [located |-> located, inside |-> inside, records |-> records, fixed |-> fixed,
     counts |-> [i \in 1..Len(counts) |->
                   [entries |-> counts[i][1], bytes |-> counts[i][1], complete |-> counts[i][2]]]]
MCDirectories ==
    {D(FALSE, TRUE, 0, 1, <<<<0, TRUE>>>>), D(TRUE, FALSE, 0, 1, <<<<0, TRUE>>>>),
     D(TRUE, TRUE, 1, 1, <<<<1, TRUE>>>>), D(TRUE, TRUE, 2, 1, <<<<2, TRUE>>>>),
     D(TRUE, TRUE, 1, 1, <<<<1, TRUE>>, <<2, TRUE>>>>), D(TRUE, TRUE, 1, 1, <<<<1, FALSE>>>>),
     D(TRUE, TRUE, 2, 1, <<<<1, TRUE>>>>), D(TRUE, TRUE, 1, 5, <<<<1, TRUE>>>>),
     D(TRUE, TRUE, 1, 1, <<<<1, FALSE>>, <<4, TRUE>>>>), D(TRUE, TRUE, 1, 1, <<<<4, TRUE>>>>)}

-----------------------------------------------------------------------------
\* Authentication-Results and Received-SPF.

MCSymbols ==
    [id |-> <<"mx", ";">>, dkim |-> <<"dkim", "=", "pass">>,
     spf |-> <<" ", "spf", "=", "tempfail">>, hd |-> <<" ", "header.d", "=">>,
     mf |-> <<" ", "smtp.mailfrom", "=">>, helo |-> <<" ", "smtp.helo", "=">>,
     d1 |-> <<"d1">>, open |-> <<"(">>, close |-> <<")">>, quote |-> <<"\"">>,
     bs |-> <<"\\">>]
MCSPFVocabulary == {"id", "spf", "mf", "helo", "d1", "quote"}
MCFieldVocabularies ==
    {{"id", "dkim", "hd", "d1", "open", "close"}, {"id", "dkim", "hd", "d1", "quote", "bs"},
     MCSPFVocabulary}
MCReceivedSPF ==
    {[receiver |-> "mx", outcome |-> "pass", identity |-> "", envelope |-> "d1", helo |-> "d2"]}

-----------------------------------------------------------------------------
\* Commands.

A(administrator, mode, recipient) ==
    [administrator |-> administrator, commandMode |-> mode, recipient |-> recipient]
MCActors == {A(FALSE, FALSE, "me"), A(TRUE, FALSE, "me"), A(TRUE, TRUE, "*")}
MCWords ==
    {"ACTIVITY", "REJECTION", "REJECTIONS", "IP", "WHITELIST", "BLOCKLIST", "LIST",
     "LOOKUP", "ADD", "DELETE", "ALL", "*", "me", "you", "*@d", "2"}
P(s, r) == [sender |-> s, recipient |-> r]
MCStored ==
    [allow |-> {P("you", "me"), P("me", "you")},
     block |-> {P("you", "me"), P("you", "*"), P("*@d", "you"), P("*@d", "me")},
     rejections |-> {[id |-> "1", recipient |-> "me"], [id |-> "2", recipient |-> "you"]},
     ips |-> {"ip1"}]

-----------------------------------------------------------------------------
\* The aliases file.

L(indented, words) == [indented |-> indented, words |-> words]
MCFileLines ==
    {L(FALSE, <<"a", ":", "b">>), L(FALSE, <<"b", ":", "c">>), L(FALSE, <<"c", ":", "d">>),
     L(FALSE, <<"b", ":", "b">>), L(FALSE, <<"b", ":">>),
     L(TRUE, <<"c">>), L(TRUE, <<",", "c">>), L(FALSE, <<>>)}

-----------------------------------------------------------------------------
partVars == <<part, beat, scannerVars, authVars, mailVars, adminVars, aliasVars>>

PartsInit ==
    /\ part \in {"scanner", "headers", "verification", "commands", "aliases"}
    /\ beat = FALSE
    /\ ScannerInit
    /\ part = "scanner" \/ scan.stack[1].x = E("binary", TRUE, TRUE, "bad", "", TRUE)
    /\ AuthInit
    /\ vocabulary = MCSPFVocabulary \/ (part = "headers" /\ received = NoField)
    /\ part = "headers" \/ received = NoField
    /\ MailInit
    /\ part = "verification" \/ storage = "file"
    /\ AdminInit
    /\ part = "commands" \/ actor = A(FALSE, FALSE, "me")
    /\ AliasesInit
    /\ part = "aliases" \/ (sender = "a" /\ wanted = "b")

InScanner ==
    part = "scanner" /\ UNCHANGED <<part, beat, authVars, mailVars, adminVars, aliasVars>>
InHeaders ==
    part = "headers" /\ UNCHANGED <<part, beat, scannerVars, mailVars, adminVars, aliasVars>>
InVerification ==
    part = "verification" /\ UNCHANGED <<part, beat, scannerVars, authVars, adminVars, aliasVars>>
InCommands ==
    part = "commands" /\ UNCHANGED <<part, beat, scannerVars, authVars, mailVars, aliasVars>>
InAliases ==
    part = "aliases" /\ UNCHANGED <<part, scannerVars, authVars, mailVars, adminVars>>

Rested ==
    CASE part = "scanner" -> ScanEnded
      [] part = "headers" -> Len(field) = MaxPieces
      [] part = "verification" -> \A s \in Sessions : conv[s].at \in {"decided", "idle"}
      [] part = "commands" -> command # None
      [] part = "aliases" -> verdict \in {"owned", "refused"}

PartsNext ==
    \/ InScanner /\ ScannerNext
    \/ InHeaders /\ AuthNext
    \/ InVerification /\ MailNext
    \/ InCommands /\ AdminNext
    \/ InAliases /\ AliasesNext /\ beat' = ~beat
    \/ Rested /\ UNCHANGED partVars

\* The scanner and the check of aliases are loops of one goroutine, which can
\* always go on until they end: weak fairness of their steps.  A worker takes its
\* steps, its timeout fires, and the session picks up a result that is there.
PartsFairness ==
    /\ \/ []<>(part \notin {"scanner", "aliases"} \/ Rested)
       \/ []<><<(InScanner /\ ScannerStep) \/ (InAliases /\ AliasesStep)>>_partVars
    /\ \A s \in Sessions :
          /\ WF_partVars(InVerification /\ VerifierStep(s))
          /\ WF_partVars(InVerification /\ Timeout(s))
          /\ WF_partVars(InVerification /\ Deliver(s))

PartsSpec == PartsInit /\ [][PartsNext]_partVars /\ PartsFairness

\* What someone waits for; one of the sessions is enough, they are alike.
Awaited ==
    \/ part = "scanner" /\ ~ScanEnded
    \/ part = "verification" /\ conv[CHOOSE s \in Sessions : TRUE].at \in {"verifying", "draining"}
    \/ part = "aliases" /\ verdict \notin {"owned", "refused"}

\* Every scan ends, whatever the nesting (the depth limits and budgets bound the
\* recursion of scanMIME, scanRFC822 and scanFile); every verification a session
\* waits for ends in a decision (verifyAuthenticationWithProgress); and the owner
\* of an address is decided, also on a cycle of aliases (senderOwnedViaAliases).
AnswersArrive == Awaited ~> ~Awaited

=============================================================================
