------------------------- MODULE RDAPBootstrapProofs -------------------------
(***************************************************************************)
(* Proofs about RDAPBootstrap: for any number of callers and any pauses,   *)
(* one refresh at a time, paced, that never loses what was loaded before.  *)
(***************************************************************************)
EXTENDS RDAPBootstrap, TLAPS

USE BasesAssumption, TimesAssumption, ClientsAssumption

\* BootstrapTypeOK without the flags of the contexts.
Shapes ==
  /\ now \in 0 .. MaxTime /\ boot \in Boot
  /\ pc \in [Clients -> {"idle", "enter", "wait", "fetch", "query"}]
  /\ got \in [Clients -> 0 .. MaxLoads]
  /\ base \in [Clients -> 0 .. Bases]
  /\ result \in [Clients -> {"none", "deadline", "failure", "canceled", "context",
                             "unserved", "registered", "unanswered"}]

\* The outcome of a failed fetch.
FetchErrors == {"deadline", "failure", "canceled"}

\* A pause ends within the range of retryAt.
LEMMA PauseInRange ==
  ASSUME now \in 0 .. MaxTime,
         NEW pause \in {0, BootstrapDeadlineRetry, BootstrapFailureRetry}
  PROVE  now + pause \in 0 .. (MaxTime + BootstrapFailureRetry + BootstrapDeadlineRetry)
OBVIOUS

\* The end of a refresh, whatever it leaves: nobody leads and nobody waits.
LEMMA ReleasedShape ==
  ASSUME NEW b \in Boot
  PROVE  /\ released(b) \in Boot
         /\ released(b).leader = NoLeader /\ released(b).waiting = {}
         /\ released(b).services = b.services
         /\ released(b).retryAt = b.retryAt /\ released(b).err = b.err
BY DEF released, Boot

\* What a failed refresh leaves of the shared fields.
LEMMA FailedShape ==
  ASSUME boot \in Boot, now \in 0 .. MaxTime, NEW err \in FetchErrors
  PROVE  /\ failed(boot, err) \in Boot
         /\ failed(boot, err).services = boot.services
         /\ err = "canceled" => failed(boot, err) = boot
<1>1. CASE err = "deadline"
  <2>1. failed(boot, err) = [boot EXCEPT !.err = err, !.retryAt = now + BootstrapDeadlineRetry]
    BY <1>1 DEF failed
  <2> QED
    BY <1>1, <2>1, PauseInRange DEF Boot
<1>2. CASE err = "failure"
  <2>1. failed(boot, err) = [boot EXCEPT !.err = err, !.retryAt = now + BootstrapFailureRetry]
    BY <1>2 DEF failed
  <2> QED
    BY <1>2, <2>1, PauseInRange DEF Boot
<1>3. CASE err = "canceled"
  BY <1>3 DEF failed
<1> QED
  BY <1>1, <1>2, <1>3 DEF FetchErrors

\* What a successful refresh leaves of them.
LEMMA LoadedShape ==
  ASSUME boot \in Boot, now \in 0 .. MaxTime, boot.services < MaxLoads
  PROVE  loadedAnew(boot) \in Boot /\ loadedAnew(boot).services = boot.services + 1
<1>1. boot.services + 1 \in 0 .. MaxLoads
  BY DEF Boot
<1>2. 0 \in 0 .. (MaxTime + BootstrapFailureRetry + BootstrapDeadlineRetry)
  OBVIOUS
<1> QED
  BY <1>1, <1>2 DEF loadedAnew, Boot

-----------------------------------------------------------------------------
\* The flags of the contexts keep their type.
LEMMA FlagsKept ==
  ASSUME expired \in [Clients -> BOOLEAN], [BootstrapNext]_bootstrapVars
  PROVE  expired' \in [Clients -> BOOLEAN]
<1>1. CASE UNCHANGED bootstrapVars
  BY <1>1 DEF bootstrapVars
<1>2. CASE BootstrapTick
  BY <1>2 DEF BootstrapTick
<1>3. ASSUME NEW c \in Clients, Ask(c) \/ Expire(c)
      PROVE  expired' \in [Clients -> BOOLEAN]
  BY <1>3 DEF Ask, Expire
<1>4. ASSUME NEW c \in Clients, step(c)
      PROVE  expired' \in [Clients -> BOOLEAN]
  BY <1>4 DEF step, enter, wake, giveUp, loaded, fetchFailed, noService, query
<1> QED
  BY <1>1, <1>2, <1>3, <1>4 DEF BootstrapNext

\* A step that leaves the shared fields alone and neither begins nor ends a
\* refresh keeps the leader's place.
LEMMA LeaderKept ==
  ASSUME OneRefresh, ClientsHaveLeader, boot' = boot,
         \A c \in Clients : pc'[c] = "fetch" <=> pc[c] = "fetch"
  PROVE  OneRefresh' /\ ClientsHaveLeader'
BY DEF OneRefresh, ClientsHaveLeader

\* The end of a refresh: its leader leaves, and nobody leads or waits.
LEMMA LeaderLeaves ==
  ASSUME OneRefresh, Shapes, NEW c \in Clients, pc[c] = "fetch",
         boot'.leader = NoLeader, boot'.waiting = {},
         NEW place \in {"idle", "query"}, pc' = [pc EXCEPT ![c] = place]
  PROVE  OneRefresh' /\ ClientsHaveLeader'
<1>1. \A d \in Clients : d # c => pc[d] # "fetch"
  BY DEF OneRefresh
<1>2. \A d \in Clients : pc'[d] # "fetch"
  BY <1>1 DEF Shapes
<1> QED
  BY <1>2 DEF OneRefresh, ClientsHaveLeader

\* The steps of one caller, the goal of the induction and of the step property.
Good == Shapes' /\ OneRefresh' /\ ClientsHaveLeader' /\ BootstrapServes /\ RefreshPaced

\* The critical section at the top of the loop of rdapServices.
LEMMA EnterGood ==
  ASSUME Shapes, OneRefresh, ClientsHaveLeader, NEW c \in Clients, enter(c)
  PROVE  Good
<1> USE DEF go, return
<1>1. CASE usable /\ got' = [got EXCEPT ![c] = boot.services] /\ go(c, "query")
           /\ UNCHANGED <<boot, result>>
  <2>1. Shapes'
    BY <1>1 DEF enter, Shapes, Boot
  <2>2. OneRefresh' /\ ClientsHaveLeader'
    BY <1>1, LeaderKept DEF enter, Shapes
  <2>3. BootstrapServes /\ RefreshPaced
    BY <1>1 DEF enter, Shapes, Boot, BootstrapServes, RefreshPaced
  <2> QED
    BY <2>1, <2>2, <2>3 DEF Good
<1>2. CASE ~usable /\ paused /\ return(c, boot.err) /\ UNCHANGED <<boot, got>>
  <2>1. Shapes'
    BY <1>2 DEF enter, Shapes, Boot
  <2>2. OneRefresh' /\ ClientsHaveLeader'
    BY <1>2, LeaderKept DEF enter, Shapes
  <2>3. boot.services = 0
    BY <1>2 DEF usable
  <2>4. BootstrapServes /\ RefreshPaced
    BY <1>2, <2>3 DEF enter, Shapes, Boot, BootstrapServes, RefreshPaced
  <2> QED
    BY <2>1, <2>2, <2>4 DEF Good
<1>3. CASE ~usable /\ ~paused /\ loading /\ boot' = [boot EXCEPT !.waiting = @ \cup {c}]
           /\ go(c, "wait") /\ UNCHANGED <<got, result>>
  <2>1. Shapes'
    BY <1>3 DEF enter, Shapes, Boot
  <2>2. boot'.leader = boot.leader /\ boot.leader # NoLeader
    BY <1>3 DEF Shapes, Boot, loading
  <2>3. \A d \in Clients : pc'[d] = "fetch" <=> pc[d] = "fetch"
    BY <1>3 DEF enter, Shapes
  <2>4. OneRefresh' /\ ClientsHaveLeader'
    BY <2>2, <2>3 DEF OneRefresh, ClientsHaveLeader
  <2>5. BootstrapServes /\ RefreshPaced
    BY <1>3 DEF enter, Shapes, Boot, BootstrapServes, RefreshPaced
  <2> QED
    BY <2>1, <2>4, <2>5 DEF Good
<1>4. CASE ~usable /\ ~paused /\ ~loading /\ boot' = [boot EXCEPT !.leader = c]
           /\ go(c, "fetch") /\ UNCHANGED <<got, result>>
  <2>1. Shapes'
    BY <1>4 DEF enter, Shapes, Boot
  <2>2. boot'.leader = c /\ boot.leader = NoLeader
    BY <1>4 DEF Shapes, Boot, loading
  <2>3. \A d \in Clients : pc'[d] = "fetch" <=> d = c
    BY <1>4, <2>2 DEF enter, Shapes, OneRefresh
  <2>4. OneRefresh' /\ ClientsHaveLeader'
    BY <2>2, <2>3 DEF OneRefresh, ClientsHaveLeader
  <2>5. now >= boot.retryAt /\ (boot.services = 0 \/ now >= boot.loadedAt + Refresh)
    BY <1>4 DEF Shapes, Boot, usable, fresh, paused
  <2>6. BootstrapServes /\ RefreshPaced
    BY <1>4, <2>5 DEF enter, Shapes, Boot, BootstrapServes, RefreshPaced
  <2> QED
    BY <2>1, <2>4, <2>6 DEF Good
<1> QED
  BY <1>1, <1>2, <1>3, <1>4 DEF enter

\* A refresh that succeeds.
LEMMA LoadedGood ==
  ASSUME Shapes, OneRefresh, ClientsHaveLeader, NEW c \in Clients, loaded(c)
  PROVE  Good
<1>1. /\ boot' \in Boot /\ boot'.leader = NoLeader /\ boot'.waiting = {}
      /\ boot'.services = boot.services + 1
  BY LoadedShape, ReleasedShape DEF loaded, Shapes
<1>2. pc[c] = "fetch" /\ pc' = [pc EXCEPT ![c] = "query"] /\ UNCHANGED <<now, base, result>>
  BY DEF loaded, go
<1>3. OneRefresh' /\ ClientsHaveLeader'
  BY <1>1, <1>2, LeaderLeaves
<1>4. Shapes'
  BY <1>1, <1>2 DEF loaded, Shapes, Boot
<1>5. BootstrapServes /\ RefreshPaced
  BY <1>1, <1>2 DEF Shapes, Boot, BootstrapServes, RefreshPaced
<1> QED
  BY <1>3, <1>4, <1>5 DEF Good

\* A refresh that fails: what was loaded stays and is served.
LEMMA FailedGood ==
  ASSUME Shapes, OneRefresh, ClientsHaveLeader, NEW c \in Clients, fetchFailed(c)
  PROVE  Good
<1>1. PICK err \in FetchErrors : boot' = released(failed(boot, err)) /\ answerFailed(c, err)
  BY DEF fetchFailed, FetchErrors
<1>2. /\ boot' \in Boot /\ boot'.leader = NoLeader /\ boot'.waiting = {}
      /\ boot'.services = boot.services
      /\ err = "canceled" => boot'.retryAt = boot.retryAt /\ boot'.err = boot.err
  BY <1>1, FailedShape, ReleasedShape DEF Shapes
<1>3. pc[c] = "fetch" /\ UNCHANGED <<now, base>>
  BY DEF fetchFailed
<1>4. CASE boot.services # 0
  <2>1. /\ pc' = [pc EXCEPT ![c] = "query"] /\ result' = result
        /\ got' = [got EXCEPT ![c] = boot.services]
    BY <1>1, <1>4 DEF answerFailed, go
  <2>2. OneRefresh' /\ ClientsHaveLeader'
    BY <1>2, <1>3, <2>1, LeaderLeaves
  <2>3. Shapes'
    BY <1>2, <1>3, <2>1 DEF Shapes, Boot
  <2>4. BootstrapServes /\ RefreshPaced
    BY <1>2, <1>3, <2>1 DEF Shapes, Boot, BootstrapServes, RefreshPaced
  <2> QED
    BY <2>2, <2>3, <2>4 DEF Good
<1>5. CASE boot.services = 0
  <2>1. /\ pc' = [pc EXCEPT ![c] = "idle"] /\ got' = got
        /\ result' = [result EXCEPT ![c] = err]
    BY <1>1, <1>5 DEF answerFailed, return, go
  <2>2. OneRefresh' /\ ClientsHaveLeader'
    BY <1>2, <1>3, <2>1, LeaderLeaves
  <2>3. Shapes'
    BY <1>2, <1>3, <2>1 DEF Shapes, FetchErrors
  <2>4. BootstrapServes /\ RefreshPaced
    BY <1>2, <1>3, <1>5, <2>1 DEF Shapes, Boot, BootstrapServes, RefreshPaced
  <2> QED
    BY <2>2, <2>3, <2>4 DEF Good
<1> QED
  BY <1>4, <1>5 DEF Shapes, Boot

\* The steps that neither begin nor end a refresh.
LEMMA OthersGood ==
  ASSUME Shapes, OneRefresh, ClientsHaveLeader, NEW c \in Clients,
         Ask(c) \/ Expire(c) \/ wake(c) \/ giveUp(c) \/ noService(c) \/ query(c)
  PROVE  Good
<1> USE DEF go, return
<1>1. CASE Ask(c) \/ Expire(c) \/ wake(c) \/ noService(c)
  <2>1. Shapes'
    BY <1>1 DEF Ask, Expire, wake, noService, Shapes
  <2>2. OneRefresh' /\ ClientsHaveLeader'
    BY <1>1, LeaderKept DEF Ask, Expire, wake, noService, Shapes
  <2>3. BootstrapServes /\ RefreshPaced
    BY <1>1 DEF Ask, Expire, wake, noService, Shapes, Boot, BootstrapServes, RefreshPaced
  <2> QED
    BY <2>1, <2>2, <2>3 DEF Good
<1>2. CASE query(c)
  <2>1. Shapes'
    BY <1>2 DEF query, Shapes
  <2>2. OneRefresh' /\ ClientsHaveLeader'
    BY <1>2, LeaderKept DEF query, Shapes
  <2>3. BootstrapServes /\ RefreshPaced
    BY <1>2 DEF query, Shapes, Boot, BootstrapServes, RefreshPaced
  <2> QED
    BY <2>1, <2>2, <2>3 DEF Good
<1>3. CASE giveUp(c)
  <2>1. Shapes'
    BY <1>3 DEF giveUp, Shapes, Boot
  <2>2. boot'.leader = boot.leader /\ boot'.waiting \subseteq boot.waiting
    BY <1>3 DEF giveUp, Shapes, Boot
  <2>3. \A d \in Clients : pc'[d] = "fetch" <=> pc[d] = "fetch"
    BY <1>3 DEF giveUp, Shapes
  <2>4. OneRefresh' /\ ClientsHaveLeader'
    BY <2>2, <2>3 DEF OneRefresh, ClientsHaveLeader
  <2>5. BootstrapServes /\ RefreshPaced
    BY <1>3 DEF giveUp, Shapes, Boot, BootstrapServes, RefreshPaced
  <2> QED
    BY <2>1, <2>4, <2>5 DEF Good
<1> QED
  BY <1>1, <1>2, <1>3

-----------------------------------------------------------------------------
\* Every step keeps the shared bootstrap coalesced, served and paced.
LEMMA StepGood ==
  ASSUME Coalesced, BootstrapNext
  PROVE  Coalesced' /\ BootstrapServes /\ RefreshPaced
<1>1. Shapes /\ OneRefresh /\ ClientsHaveLeader
  BY DEF Coalesced, BootstrapTypeOK, Shapes
<1>2. expired' \in [Clients -> BOOLEAN]
  BY FlagsKept DEF Coalesced, BootstrapTypeOK
<1>3. ASSUME BootstrapTick PROVE Good
  <2>1. Shapes'
    BY <1>1, <1>3 DEF BootstrapTick, Shapes
  <2>2. OneRefresh' /\ ClientsHaveLeader'
    BY <1>1, <1>3, LeaderKept DEF BootstrapTick
  <2>3. BootstrapServes /\ RefreshPaced
    BY <1>1, <1>3 DEF BootstrapTick, Shapes, Boot, BootstrapServes, RefreshPaced
  <2> QED
    BY <2>1, <2>2, <2>3 DEF Good
<1>4. ASSUME ~BootstrapTick PROVE Good
  BY <1>1, <1>4, EnterGood, LoadedGood, FailedGood, OthersGood DEF BootstrapNext, step
<1>5. Good
  BY <1>3, <1>4
<1> QED
  BY <1>2, <1>5 DEF Good, Coalesced, BootstrapTypeOK, Shapes

\* The client starts without a bootstrap, a leader or a waiter.
LEMMA StartCoalesced == BootstrapInit => Coalesced
<1> SUFFICES ASSUME BootstrapInit PROVE Coalesced
  OBVIOUS
<1>1. Shapes
  BY DEF BootstrapInit, Shapes, Boot
<1>2. expired \in [Clients -> BOOLEAN]
  BY DEF BootstrapInit
<1>3. OneRefresh /\ ClientsHaveLeader
  BY DEF BootstrapInit, OneRefresh, ClientsHaveLeader
<1> QED
  BY <1>1, <1>2, <1>3 DEF Coalesced, BootstrapTypeOK, Shapes

\* rdapServices, for any number of callers, services, pauses and refreshes: one
\* download at a time, begun only when it is due; the last bootstrap that
\* succeeded is kept and served; a caller that gives up leaves no pause behind.
THEOREM BootstrapSafe == BootstrapSpec => BootstrapSound
<1>1. Coalesced /\ [BootstrapNext]_bootstrapVars => Coalesced'
  <2>1. Coalesced /\ UNCHANGED bootstrapVars => Coalesced'
    BY DEF bootstrapVars, Coalesced, BootstrapTypeOK, OneRefresh, ClientsHaveLeader
  <2> QED
    BY <2>1, StepGood
<1>2. Coalesced /\ [BootstrapNext]_bootstrapVars
        => [Coalesced' /\ BootstrapServes /\ RefreshPaced]_bootstrapVars
  BY StepGood
<1> QED
  BY StartCoalesced, <1>1, <1>2, PTL DEF BootstrapSpec, BootstrapSound

=============================================================================
