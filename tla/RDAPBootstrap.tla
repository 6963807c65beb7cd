---------------------------- MODULE RDAPBootstrap ----------------------------
(***************************************************************************)
(* The RDAP client that all sessions share (internal/rdap/client.go): the  *)
(* IANA bootstrap that maps top-level domains to services, loaded by one   *)
(* caller for all, kept when it is stale and retried after a pause, and    *)
(* the lookup that tries the services of a domain in turn.                 *)
(* A step is one critical section of c.mu or one answer of the network.    *)
(***************************************************************************)
EXTENDS Integers, FiniteSets

CONSTANTS
  Clients,                 \* goroutines inside Lookup
  Bases,                   \* services per top-level domain
  Refresh,                 \* bootstrapRefreshInterval
  BootstrapFailureRetry,   \* failureRetry
  BootstrapDeadlineRetry,  \* deadlineRetry
  MaxTime,                 \* bound on the clock
  MaxLoads                 \* bound on successful bootstraps

ASSUME BasesAssumption == Bases \in Nat \ {0}
ASSUME TimesAssumption ==
  /\ Refresh \in Nat \ {0} /\ BootstrapFailureRetry \in Nat \ {0} /\ BootstrapDeadlineRetry \in Nat \ {0}
  /\ MaxTime \in Nat /\ MaxLoads \in Nat \ {0}

VARIABLES
  now,      \* c.now()
  boot,     \* the client's fields under c.mu
  pc,       \* per caller
  expired,  \* per caller, whether its context is done
  got,      \* per caller, the map that rdapServices returned, 0 for none
  base,     \* per caller, how many services Lookup has asked
  result    \* per caller, how Lookup ended

bootstrapVars == <<now, boot, pc, expired, got, base, result>>

NoLeader == "none"

ASSUME ClientsAssumption == NoLeader \notin Clients

(* services numbers the successful bootstraps, 0 for none; leader is the caller
   whose refresh is in flight, and waiting the callers blocked on its channel. *)
Boot == [services : 0 .. MaxLoads, loadedAt : 0 .. MaxTime, leader : Clients \cup {NoLeader},
         err : {"none", "deadline", "failure"},
         retryAt : 0 .. (MaxTime + BootstrapFailureRetry + BootstrapDeadlineRetry),
         waiting : SUBSET Clients]

go(c, place) == pc' = [pc EXCEPT ![c] = place]

return(c, outcome) ==
  /\ go(c, "idle")
  /\ result' = [result EXCEPT ![c] = outcome]

-----------------------------------------------------------------------------
Ask(c) ==
  /\ pc[c] = "idle"
  /\ go(c, "enter")
  /\ expired' = [expired EXCEPT ![c] = FALSE]
  /\ got' = [got EXCEPT ![c] = 0]
  /\ base' = [base EXCEPT ![c] = 0]
  /\ result' = [result EXCEPT ![c] = "none"]
  /\ UNCHANGED <<now, boot>>

fresh == now < boot.loadedAt + Refresh
pausedNever == FALSE
paused == boot.retryAt > now
loadingUnseen == FALSE
loading == boot.leader # NoLeader
usable == boot.services # 0 /\ (fresh \/ paused \/ loading)

(* The critical section at the top of the loop. *)
enter(c) ==
  /\ pc[c] = "enter"
  /\ \/ /\ usable
        /\ got' = [got EXCEPT ![c] = boot.services]
        /\ go(c, "query")
        /\ UNCHANGED <<boot, result>>
     \/ /\ ~usable /\ paused
        /\ return(c, boot.err)
        /\ UNCHANGED <<boot, got>>
     \/ /\ ~usable /\ ~paused /\ loading
        /\ boot' = [boot EXCEPT !.waiting = @ \cup {c}]
        /\ go(c, "wait")
        /\ UNCHANGED <<got, result>>
     \/ /\ ~usable /\ ~paused /\ ~loading
        /\ boot' = [boot EXCEPT !.leader = c]
        /\ go(c, "fetch")
        /\ UNCHANGED <<got, result>>
  /\ UNCHANGED <<now, expired, base>>

(* <-pending: the channel c waits on has been closed. *)
wake(c) ==
  /\ pc[c] = "wait" /\ c \notin boot.waiting
  /\ go(c, "enter")
  /\ UNCHANGED <<now, boot, expired, got, base, result>>

giveUpNever(c) ==
  /\ FALSE
  /\ UNCHANGED bootstrapVars

giveUp(c) ==
  /\ pc[c] = "wait" /\ expired[c]
  /\ boot' = [boot EXCEPT !.waiting = @ \ {c}]
  /\ return(c, "context")
  /\ UNCHANGED <<now, expired, got, base>>

loadedAnew(b) == [b EXCEPT !.services = @ + 1, !.loadedAt = now, !.err = "none", !.retryAt = 0]

failedDropping(b, err) ==
  CASE err = "deadline" ->
         [b EXCEPT !.services = 0, !.err = err, !.retryAt = now + BootstrapDeadlineRetry]
    [] err = "failure" ->
         [b EXCEPT !.services = 0, !.err = err, !.retryAt = now + BootstrapFailureRetry]
    [] err = "canceled" -> b

(* A deadline pauses briefly, a failure for longer, a cancelled leader says
   nothing about the service. *)
failed(b, err) ==
  CASE err = "deadline" -> [b EXCEPT !.err = err, !.retryAt = now + BootstrapDeadlineRetry]
    [] err = "failure" -> [b EXCEPT !.err = err, !.retryAt = now + BootstrapFailureRetry]
    [] err = "canceled" -> b

released(b) == [b EXCEPT !.leader = NoLeader, !.waiting = {}]

(* The critical section after fetchRDAPServices. *)
loaded(c) ==
  /\ pc[c] = "fetch" /\ ~expired[c]
  /\ boot.services < MaxLoads
  /\ boot' = released(loadedAnew(boot))
  /\ got' = [got EXCEPT ![c] = boot.services + 1]
  /\ go(c, "query")
  /\ UNCHANGED <<now, expired, base, result>>

answerFailed(c, err) ==
  IF boot.services # 0
  THEN /\ got' = [got EXCEPT ![c] = boot.services]
       /\ go(c, "query")
       /\ UNCHANGED result
  ELSE return(c, err) /\ UNCHANGED got

fetchFailed(c) ==
  /\ pc[c] = "fetch"
  /\ \E err \in IF expired[c] THEN {"deadline", "canceled"} ELSE {"deadline", "failure"} :
       /\ boot' = released(failed(boot, err))
       /\ answerFailed(c, err)
  /\ UNCHANGED <<now, expired, base>>

(* Lookup: one service after the other until one names a registration. *)
noService(c) ==
  /\ pc[c] = "query" /\ base[c] = 0
  /\ return(c, "unserved")
  /\ UNCHANGED <<now, boot, expired, got, base>>

query(c) ==
  /\ pc[c] = "query" /\ base[c] < Bases
  /\ base' = [base EXCEPT ![c] = @ + 1]
  /\ \/ ~expired[c] /\ return(c, "registered")
     \/ /\ base[c] + 1 < Bases
        /\ UNCHANGED <<pc, result>>
     \/ /\ base[c] + 1 = Bases
        /\ return(c, "unanswered")
  /\ UNCHANGED <<now, boot, expired, got>>

(* The caller's deadline passes or its message is given up. *)
Expire(c) ==
  /\ pc[c] # "idle" /\ ~expired[c]
  /\ expired' = [expired EXCEPT ![c] = TRUE]
  /\ UNCHANGED <<now, boot, pc, got, base, result>>

BootstrapTick ==
  /\ now < MaxTime
  /\ now' = now + 1
  /\ UNCHANGED <<boot, pc, expired, got, base, result>>

-----------------------------------------------------------------------------
BootstrapInit ==
  /\ now = 0
  /\ boot = [services |-> 0, loadedAt |-> 0, leader |-> NoLeader, err |-> "none",
             retryAt |-> 0, waiting |-> {}]
  /\ pc = [c \in Clients |-> "idle"]
  /\ expired = [c \in Clients |-> FALSE]
  /\ got = [c \in Clients |-> 0]
  /\ base = [c \in Clients |-> 0]
  /\ result = [c \in Clients |-> "none"]

step(c) ==
  enter(c) \/ wake(c) \/ giveUp(c) \/ loaded(c) \/ fetchFailed(c) \/ noService(c) \/ query(c)

BootstrapNext == BootstrapTick \/ \E c \in Clients : Ask(c) \/ Expire(c) \/ step(c)

(* Goroutines run, an HTTP request ends within the client's timeout, a caller's
   context has a deadline, and select does not prefer the closed channel to the
   done context for ever. *)
BootstrapFairness ==
  \A c \in Clients :
     WF_bootstrapVars(step(c)) /\ WF_bootstrapVars(Expire(c)) /\ SF_bootstrapVars(giveUp(c))

BootstrapSpec == BootstrapInit /\ [][BootstrapNext]_bootstrapVars

-----------------------------------------------------------------------------
(* Every variable has its type. *)
BootstrapTypeOK ==
  /\ now \in 0 .. MaxTime /\ boot \in Boot
  /\ pc \in [Clients -> {"idle", "enter", "wait", "fetch", "query"}]
  /\ expired \in [Clients -> BOOLEAN] /\ got \in [Clients -> 0 .. MaxLoads]
  /\ base \in [Clients -> 0 .. Bases]
  /\ result \in [Clients -> {"none", "deadline", "failure", "canceled", "context",
                             "unserved", "registered", "unanswered"}]

(* One refresh at a time: whoever fetches is the leader, so a burst of mail
   never becomes a burst of bootstrap downloads. *)
OneRefresh == \A c \in Clients : pc[c] = "fetch" <=> boot.leader = c

(* A waiter always has a leader that will wake it. *)
ClientsHaveLeader == boot.waiting # {} => boot.leader # NoLeader

(* One leader refreshes and every waiter waits for it. *)
Coalesced == BootstrapTypeOK /\ OneRefresh /\ ClientsHaveLeader

(* "Never discard the last successful bootstrap" (client.go:178): it is never
   replaced by an earlier one, and while any is held no caller gets an error
   from rdapServices, whether it leads a failing refresh or meets one.  An error
   reaches only callers of a client that never loaded, or that began to wait
   before. *)
BootstrapServes ==
  /\ boot'.services >= boot.services
  /\ \A c \in Clients :
       pc[c] \in {"enter", "fetch"} /\ pc'[c] = "idle" => boot.services = 0

(* The pauses hold: a refresh starts only when the last failure is at least
   its pause ago and the bootstrap is not fresh.  A caller that gave up does not
   decide for the others: a cancelled fetch leaves no pause and no error. *)
RefreshPaced ==
  \A c \in Clients :
    /\ pc[c] # "fetch" /\ pc'[c] = "fetch" =>
         now >= boot.retryAt /\ (boot.services = 0 \/ now >= boot.loadedAt + Refresh)
    /\ pc[c] = "fetch" /\ result'[c] = "canceled" /\ result[c] = "none" =>
         boot'.retryAt = boot.retryAt /\ boot'.err = boot.err

(* The shared bootstrap (rdapServices): one download at a time, paced by the
   pauses, and never worse than the last one that succeeded. *)
BootstrapSound ==
  [][Coalesced' /\ BootstrapServes /\ RefreshPaced]_bootstrapVars

=============================================================================
