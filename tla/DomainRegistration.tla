------------------------- MODULE DomainRegistration -------------------------
(***************************************************************************)
(* The domain-registration service of internal/milter/domain_registration.go *)
(* over the SQLite cache of internal/stores/sqlite/domains.go.  Sessions    *)
(* call evidence() concurrently; per registrable domain one caller (the    *)
(* leader) asks RDAP and the others wait on its channel.                   *)
(*                                                                         *)
(* A call is split at every point where another goroutine can run: the     *)
(* database calls, the two sections under s.mu, the channel waits and the  *)
(* RDAP lookup.  Time is a natural number; 0 is Go's zero time.            *)
(***************************************************************************)
EXTENDS Integers, FiniteSets

CONSTANTS
    Callers,        \* goroutines that call evidence()
    Domains,        \* registrable domains
    Slots,          \* capacity of s.slots: min(8, MaxEntries)
    MaxEntries,     \* s.maxSize and the capacity of the cache table
    FailureRetry,   \* domainRegistrationFailureRetry
    DeadlineRetry,  \* domainRegistrationDeadlineRetry
    MissingExpiry,  \* domainRegistrationMissingExpiryCache
    Grace,          \* domainRegistrationExpiryGrace
    MaxClock,       \* bound on the clock
    NoCaller

ASSUME ConstantsAssumption ==
    /\ Slots \in Nat \ {0} /\ MaxEntries \in Nat \ {0}
    /\ FailureRetry \in Nat \ {0} /\ DeadlineRetry \in Nat \ {0}
    /\ MissingExpiry \in Nat \ {0} /\ Grace \in Nat /\ MaxClock \in Nat \ {0}
    /\ NoCaller \notin Callers

ASSUME DomainsAssumption ==
    IsFiniteSet(Callers) /\ IsFiniteSet(Domains) /\ Domains # {}

VARIABLES
    clock,      \* s.now()
    cache,      \* domain_registrations: the cached row of each domain
    failures,   \* s.failures: the retry time of each domain, 0 when absent
    inflight,   \* s.inflight: the caller that made the channel of each domain
    slots,      \* len(s.slots)
    call        \* the locals of each goroutine's call of evidence()

vars == <<clock, cache, failures, inflight, slots, call>>
sharedVars == <<cache, failures, inflight, slots>>

Times == 0..MaxClock
Row == [reg : Nat, exp : Nat]
NoRow == [reg |-> 0, exp |-> 0]
PCs == {"idle", "read", "lock", "wait", "reread", "recheck", "slot", "lookup",
        "put", "finish"}

\* now: the time read on entry; done: the context has ended; chan: the caller
\* whose channel it waits on, NoCaller once that is closed; err and row: what
\* the lookup returned.
CallRecord ==
    [pc : PCs, dom : Domains, now : Nat, done : BOOLEAN,
     chan : Callers \union {NoCaller}, err : {"none", "failure", "deadline"},
     row : Row]

Idle ==
    [pc |-> "idle", dom |-> CHOOSE d \in Domains : TRUE, now |-> 0,
     done |-> FALSE, chan |-> NoCaller, err |-> "none", row |-> NoRow]

\* A caller in one of these places owns the channel in s.inflight.
Leading == {"recheck", "slot", "lookup", "put", "finish"}

TypeOK ==
    /\ clock \in Nat
    /\ cache \in [Domains -> Row]
    /\ failures \in [Domains -> Nat]
    /\ inflight \in [Domains -> Callers \union {NoCaller}]
    /\ slots \in Nat
    /\ call \in [Callers -> CallRecord]

\* The cache survives restarts, so it may hold rows at first.
Init ==
    /\ clock = 1
    /\ cache \in [Domains -> {NoRow, [reg |-> 1, exp |-> 2]}]
    /\ failures = [d \in Domains |-> 0]
    /\ inflight = [d \in Domains |-> NoCaller]
    /\ slots = 0
    /\ call = [c \in Callers |-> Idle]

-----------------------------------------------------------------------------
Fresh(row, t) == row.exp > t

Goto(c, label) == call' = [call EXCEPT ![c].pc = label]

\* The evidence or error returned goes to the policy and is not kept here.
Return(c) == call' = [call EXCEPT ![c] = Idle]

\* evidence(ctx, domain) for the registrable domain of a message.
Call(c) ==
    /\ call[c].pc = "idle"
    /\ \E d \in Domains :
          call' = [call EXCEPT ![c] =
                     [Idle EXCEPT !.pc = "read", !.dom = d, !.now = clock]]
    /\ UNCHANGED <<clock, sharedVars>>

\* Outcomes of repository.DomainRegistration: a database error, a fresh row, or
\* neither.  A query under a context that is done always fails.
ReadRow(c, t, onError, onFresh, onStale) ==
    \/ onError
    \/ ~call[c].done /\ Fresh(cache[call[c].dom], t) /\ onFresh
    \/ ~call[c].done /\ ~Fresh(cache[call[c].dom], t) /\ onStale

\* The first look into the cache compares with the time read on entry.
Read(c) ==
    /\ call[c].pc = "read"
    /\ ReadRow(c, call[c].now, Return(c), Return(c), Goto(c, "lock"))
    /\ UNCHANGED <<clock, sharedVars>>

\* Mutant: the recent failure is not looked up.
SuppressedNever(c) == FALSE

Suppressed(c) == failures[call[c].dom] > call[c].now
Pending(c) == inflight[call[c].dom] # NoCaller

\* First section under s.mu: give up while a failure is recent, wait on the
\* caller that is already asking, or become that caller.
Lock(c) ==
    /\ call[c].pc = "lock"
    /\ \/ Suppressed(c) /\ Return(c) /\ UNCHANGED inflight
       \/ /\ ~Suppressed(c) /\ Pending(c)
          /\ call' = [call EXCEPT ![c].pc = "wait",
                                  ![c].chan = inflight[call[c].dom]]
          /\ UNCHANGED inflight
       \/ /\ ~Suppressed(c) /\ ~Pending(c)
          /\ Goto(c, "recheck")
          /\ inflight' = [inflight EXCEPT ![call[c].dom] = c]
    /\ UNCHANGED <<clock, cache, failures, slots>>

\* select { case <-pending: ... case <-ctx.Done(): ... }
Wait(c) ==
    /\ call[c].pc = "wait"
    /\ \/ call[c].chan = NoCaller /\ Goto(c, "reread")
       \/ call[c].done /\ Return(c)
    /\ UNCHANGED <<clock, sharedVars>>

Reread(c) ==
    /\ call[c].pc = "reread"
    /\ ReadRow(c, clock, Return(c), Return(c), Return(c))
    /\ UNCHANGED <<clock, sharedVars>>

\* Mutant: the entry is deleted and the channel never closed.
ReleaseUnclosed(c) ==
    /\ inflight' = [inflight EXCEPT ![call[c].dom] = NoCaller]
    /\ Return(c)

\* The leader deletes its entry, closes the channel, which releases everyone
\* who waits on it, and returns.
Release(c) ==
    /\ inflight' = [inflight EXCEPT ![call[c].dom] = NoCaller]
    /\ call' = [w \in Callers |->
                  CASE w = c -> Idle
                    [] w # c /\ call[w].chan = c -> [call[w] EXCEPT !.chan = NoCaller]
                    [] OTHER -> call[w]]

\* Mutant: there is no second read.
RecheckSkipped(c) ==
    /\ call[c].pc = "recheck"
    /\ Goto(c, "slot")
    /\ UNCHANGED <<clock, cache, failures, inflight, slots>>

\* The leader looks into the cache again and needs no RDAP lookup if another
\* one has filled it in the meantime.
Recheck(c) ==
    /\ call[c].pc = "recheck"
    /\ ReadRow(c, clock, Release(c), Release(c),
               Goto(c, "slot") /\ UNCHANGED inflight)
    /\ UNCHANGED <<clock, cache, failures, slots>>

\* Mutant: the slot is waited for without a timeout.
AcquireSlotPatient(c) ==
    /\ call[c].pc = "slot"
    /\ slots < Slots /\ slots' = slots + 1 /\ Goto(c, "lookup")
    /\ UNCHANGED <<clock, cache, failures, inflight>>

\* Waiting for a lookup slot is bounded by the timeout of lookupCtx.
AcquireSlot(c) ==
    /\ call[c].pc = "slot"
    /\ \/ slots < Slots /\ slots' = slots + 1 /\ Goto(c, "lookup")
       \/ /\ call' = [call EXCEPT ![c].pc = "finish", ![c].err = "deadline"]
          /\ UNCHANGED slots
    /\ UNCHANGED <<clock, cache, failures, inflight>>

\* The dates RDAP returned are checked against the time read on entry.
ValidDates(row, t) ==
    /\ row.reg # 0 /\ row.reg <= t
    /\ row.exp = 0 \/ (row.reg < row.exp /\ t < row.exp)

CacheRow(row, t) ==
    IF row.exp = 0 THEN [row EXCEPT !.exp = t + MissingExpiry] ELSE row

\* lookupSafely returns dates, the deadline or an error, a panic included.
Lookup(c) ==
    /\ call[c].pc = "lookup"
    /\ slots' = slots - 1
    /\ \/ \E err \in {"failure", "deadline"} :
             call' = [call EXCEPT ![c].pc = "finish", ![c].err = err]
       \/ \E row \in [reg : Times, exp : Times] :
             IF ValidDates(row, call[c].now)
             THEN call' = [call EXCEPT ![c].pc = "put",
                                       ![c].row = CacheRow(row, call[c].now)]
             ELSE call' = [call EXCEPT ![c].pc = "finish", ![c].err = "failure"]
    /\ UNCHANGED <<clock, cache, failures, inflight>>

\* PutDomainRegistration upserts the row; it may fail, and does under a done
\* context.
Put(c) ==
    /\ call[c].pc = "put"
    /\ \/ ~call[c].done /\ cache' = [cache EXCEPT ![call[c].dom] = call[c].row]
       \/ UNCHANGED cache
    /\ Goto(c, "finish")
    /\ UNCHANGED <<clock, failures, inflight, slots>>

RecentFailures(t) == {d \in Domains : failures[d] > t}

\* pruneFailuresLocked drops what has expired and then arbitrary entries until
\* one more fits; the new failure is stored afterwards.
RecordFailure(d, t, retry) ==
    \E kept \in SUBSET RecentFailures(t) :
        /\ IF Cardinality(RecentFailures(t)) < MaxEntries
           THEN kept = RecentFailures(t)
           ELSE Cardinality(kept) = MaxEntries - 1
        /\ failures' = [e \in Domains |->
                          CASE e = d -> t + retry
                            [] e # d /\ e \in kept -> failures[e]
                            [] OTHER -> 0]

\* Second section under s.mu.  A failure of a caller whose own context is done
\* is not remembered; a lookup that succeeded clears the entry even when its
\* row could not be stored.
Finish(c) ==
    /\ call[c].pc = "finish"
    /\ \/ /\ call[c].err = "none"
          /\ failures' = [failures EXCEPT ![call[c].dom] = 0]
       \/ /\ call[c].err # "none" /\ ~call[c].done
          /\ RecordFailure(call[c].dom, call[c].now,
                           IF call[c].err = "deadline" THEN DeadlineRetry
                                                       ELSE FailureRetry)
       \/ call[c].err # "none" /\ call[c].done /\ UNCHANGED failures
    /\ Release(c)
    /\ UNCHANGED <<clock, cache, slots>>

-----------------------------------------------------------------------------
\* The session's context ends: the connection is gone or the server stops.
Cancel(c) ==
    /\ call[c].pc # "idle" /\ ~call[c].done
    /\ call' = [call EXCEPT ![c].done = TRUE]
    /\ UNCHANGED <<clock, sharedVars>>

Tick ==
    /\ clock < MaxClock
    /\ clock' = clock + 1
    /\ UNCHANGED <<sharedVars, call>>

\* Daily maintenance: rows past the grace period go, then the rows that expire
\* first until the capacity is met.
Cleanup ==
    LET live == {d \in Domains : cache[d] # NoRow /\ cache[d].exp + Grace >= clock}
    IN  \E kept \in SUBSET live :
          /\ IF Cardinality(live) <= MaxEntries
             THEN kept = live
             ELSE /\ Cardinality(kept) = MaxEntries
                  /\ \A k \in kept, g \in live \ kept :
                        cache[g].exp <= cache[k].exp
          /\ cache' = [d \in Domains |-> IF d \in kept THEN cache[d] ELSE NoRow]
          /\ UNCHANGED <<clock, failures, inflight, slots, call>>

Step(c) ==
    \/ Read(c) \/ Lock(c) \/ Wait(c) \/ Reread(c) \/ Recheck(c)
    \/ AcquireSlot(c) \/ Lookup(c) \/ Put(c) \/ Finish(c)

Next ==
    \/ \E c \in Callers : Call(c) \/ Step(c) \/ Cancel(c)
    \/ Tick
    \/ Cleanup

Spec == Init /\ [][Next]_vars

\* A goroutine that can run does, and a lookup ends by its timeout at the
\* latest.  Nothing forces a context to end, a call to come or time to pass.
FairSpec == Spec /\ \A c \in Callers : WF_vars(Step(c))

-----------------------------------------------------------------------------
\* Coalescing: a domain is in s.inflight exactly when one caller is refreshing
\* it, and it is that caller's channel (evidence, lines 100-118 and 158-173).
SingleFlight ==
    \A d \in Domains, c \in Callers :
        (inflight[d] = c) <=> (call[c].pc \in Leading /\ call[c].dom = d)

\* A caller that sleeps on a channel sleeps on that of the caller which now
\* refreshes the same domain, so somebody is left to close it.
WaitersHaveLeader ==
    \A w \in Callers : call[w].chan # NoCaller =>
        call[w].pc = "wait" /\ inflight[call[w].dom] = call[w].chan

\* "Recheck before contacting RDAP so that scheduling gap cannot produce a
\* duplicate external lookup": nobody asks RDAP about a domain whose row in the
\* cache is fresh.
NoDuplicateLookup ==
    \A c \in Callers : call[c].pc \in {"slot", "lookup"} =>
        ~Fresh(cache[call[c].dom], clock)

\* A caller asks RDAP only if no failed lookup suppressed the domain at the time
\* it was called, also when other lookups fail while it is on its way.
SuppressionRespected ==
    \A c \in Callers : call[c].pc \in Leading =>
        failures[call[c].dom] <= call[c].now

\* The slots taken are those of the lookups that run, never more than the
\* channel's capacity, and none leaks on a failure, a panic or a timeout.
SlotsAccounted ==
    /\ slots = Cardinality({c \in Callers : call[c].pc = "lookup"})
    /\ slots <= Slots

\* s.failures never outgrows the configured number of entries.
FailuresBounded == Cardinality({d \in Domains : failures[d] # 0}) <= MaxEntries

\* What the goroutines share is consistent: lookups are coalesced, nobody sleeps
\* on a channel that nobody will close, no slot leaks and s.failures is bounded.
Safe == TypeOK /\ SingleFlight /\ WaitersHaveLeader /\ SlotsAccounted /\ FailuresBounded

\* A remote lookup is justified: no fresh row answers it, and no recent failure
\* suppresses it (Lookup's second check after the slot is acquired).
LookupsJustified == NoDuplicateLookup /\ SuppressionRespected

=============================================================================
