------------------------------ MODULE MCServices ------------------------------
(* Three services of the sessions: the analysis slots, the database file, and
   the workers that reply to command messages.  A behaviour explores one of them
   while the others rest. *)
EXTENDS AnalysisService, SqliteStore, CommandReplies, TLC

VARIABLE part

MCMessages ==
    {<<"help">>, <<"get1", "get2", "get1">>, <<"get2", "typo">>, <<"chat">>,
     <<"help", "chat", "help">>, <<"list", "list", "get3">>, <<"get3", "list">>}
MCTextOf == [help |-> 3000, get1 |-> 900, get2 |-> 50000, get3 |-> 50000, list |-> 700000,
             typo |-> 60]
MCSaved == [get1 |-> 500000, get2 |-> 300000, get3 |-> 58]
C(limit, dense, tls, loopback, sendReplies) ==
    [limit |-> limit, headers |-> 700, dense |-> dense, tls |-> tls, loopback |-> loopback,
     sendReplies |-> sendReplies]
MCConfigs ==
    {C(2000000, TRUE, "required", FALSE, TRUE), C(1800000, TRUE, "opportunistic", TRUE, TRUE),
     C(3000, FALSE, "opportunistic", FALSE, TRUE), C(900, TRUE, "off", FALSE, TRUE),
     C(500, TRUE, "off", FALSE, TRUE), C(2000000, TRUE, "off", TRUE, FALSE)}

servicesVars == <<analysisVars, storeVars, repliesVars, part>>

ServicesInit ==
  /\ part \in {"analysis", "store", "replies"}
  /\ AnalysisInit /\ StoreInit
  /\ part = "store" \/ (file.shape = CurrentSchemaVersion /\ file.rows = {})
  /\ RepliesInit
  /\ part = "replies" \/ (cfg.limit = 500 /\ \A s \in Senders : session[s].lines = <<"chat">>)

ServicesNext ==
  /\ UNCHANGED part
  /\ \/ part = "analysis" /\ AnalysisNext /\ UNCHANGED <<storeVars, repliesVars>>
     \/ part = "store" /\ StoreNext /\ UNCHANGED <<analysisVars, repliesVars>>
     \/ part = "replies" /\ RepliesNext /\ UNCHANGED <<analysisVars, storeVars>>
     \/ /\ part = "replies" /\ \A s \in Senders : Answered(s)
        /\ UNCHANGED <<analysisVars, storeVars, repliesVars>>

ServicesSpec ==
  /\ ServicesInit /\ [][ServicesNext]_servicesVars
  /\ SF_analysisVars(part = "analysis" /\ Tick)
  /\ \A w \in Workers : SF_analysisVars(part = "analysis" /\ callStep(w))
  /\ \A p \in Processes : WF_storeVars(part = "store" /\ procStep(p))
  /\ \A s \in Senders : \/ []<>(part # "replies" \/ Answered(s))
                        \/ []<><<SenderStep(s)>>_repliesVars

\* The evaluation, the operation or the reply that is waited for; workers,
\* processes and senders are alike, so one of each is enough.
Awaited ==
  CASE part = "analysis" -> call[CHOOSE w \in Workers : TRUE].pc # "idle"
    [] part = "store" -> proc[CHOOSE p \in Processes : TRUE].pc \notin {"ready", "closed"}
    [] part = "replies" -> ~Answered(CHOOSE s \in Senders : TRUE)

\* Nothing is waited for in vain: an evaluation ends with or without a slot
\* (analyze), an operation ends under contention (withBusyRetry), and a command
\* message is answered and gives its reply slot back, also after a panic, a
\* rendering timeout or an SMTP failure (queueReplyContentFunc).
ServicesEnd == Awaited ~> ~Awaited
=============================================================================
