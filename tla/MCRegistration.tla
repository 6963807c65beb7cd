---------------------------- MODULE MCRegistration ----------------------------
(* The registration service and the RDAP client it asks, each with callers of
   its own: a behaviour explores one of the two while the other rests. *)
EXTENDS DomainRegistration, RDAPBootstrap, TLC

VARIABLE part

registrationVars == <<vars, bootstrapVars, part>>

RegistrationInit ==
  /\ Init /\ BootstrapInit /\ part \in {"service", "client"}
  /\ part = "client" => cache = [d \in Domains |-> NoRow]

ServiceNext == part = "service" /\ Next /\ UNCHANGED <<bootstrapVars, part>>
ClientNext == part = "client" /\ BootstrapNext /\ UNCHANGED <<vars, part>>

RegistrationSpec ==
  /\ RegistrationInit /\ [][ServiceNext \/ ClientNext]_registrationVars
  /\ \A c \in Callers : WF_vars(part = "service" /\ Step(c))
  /\ \A c \in Clients : /\ WF_bootstrapVars(part = "client" /\ step(c))
                        /\ WF_bootstrapVars(part = "client" /\ Expire(c))
                        /\ SF_bootstrapVars(part = "client" /\ giveUp(c))

\* The call that is waited for; callers are alike, so one of each is enough.
Awaited ==
  IF part = "service" THEN call[CHOOSE c \in Callers : TRUE].pc # "idle"
  ELSE pc[CHOOSE c \in Clients : TRUE] # "idle"

\* Every call of either (evidence, Lookup) returns: a waiter is woken by its
\* leader, or its own context ends the wait.
LookupsReturn == Awaited ~> ~Awaited
=============================================================================
