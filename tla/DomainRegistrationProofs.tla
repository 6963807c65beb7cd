---------------------- MODULE DomainRegistrationProofs ----------------------
(***************************************************************************)
(* Coalescing of RDAP lookups holds for every number of sessions, domains, *)
(* slots and entries, and for every choice of the retry times.             *)
(***************************************************************************)
EXTENDS DomainRegistration, FiniteSetTheorems, TLAPS

\* Coalescing is not inductive alone: that no second caller refreshes a row
\* needs the ownership of the channel, and ownership needs the waiters.
IInv ==
    /\ TypeOK
    /\ SingleFlight
    /\ WaitersHaveLeader
    /\ NoDuplicateLookup
    /\ SuppressionRespected

\* The locals of a call that has returned are well typed.
LEMMA IdleType == Idle \in CallRecord
  BY DomainsAssumption DEF Idle, CallRecord, PCs, Row, NoRow

\* The first state, with any rows left in the cache, satisfies the invariant.
LEMMA InitIInv == Init => IInv
<1> SUFFICES ASSUME Init PROVE IInv
  OBVIOUS
<1>1. TypeOK
  BY IdleType, ConstantsAssumption DEF Init, TypeOK, Row, NoRow
<1>2. SingleFlight /\ WaitersHaveLeader /\ NoDuplicateLookup
        /\ SuppressionRespected
  BY ConstantsAssumption DEF Init, SingleFlight, WaitersHaveLeader,
     NoDuplicateLookup, SuppressionRespected, Idle, Leading
<1> QED BY <1>1, <1>2 DEF IInv

\* A step of one caller that keeps the shared state and keeps that caller out of
\* Leading and off every channel preserves the invariant.
LEMMA LocalStep ==
  ASSUME IInv, NEW c \in Callers, NEW r \in CallRecord,
         UNCHANGED <<clock, sharedVars>>,
         call' = [call EXCEPT ![c] = r],
         call[c].pc \notin Leading, r.pc \notin Leading, r.chan = NoCaller
  PROVE  IInv'
<1>1. TypeOK'
  BY DEF IInv, TypeOK, sharedVars
<1>2. SingleFlight' /\ WaitersHaveLeader'
  BY ConstantsAssumption DEF IInv, TypeOK, sharedVars, SingleFlight,
     WaitersHaveLeader
<1>3. NoDuplicateLookup' /\ SuppressionRespected'
  BY DEF IInv, TypeOK, sharedVars, NoDuplicateLookup, SuppressionRespected,
     Leading, Fresh
<1> QED BY <1>1, <1>2, <1>3 DEF IInv

\* A call that has returned is idle and waits on nothing.
LEMMA IdleFacts == Idle.pc = "idle" /\ Idle.chan = NoCaller
  BY DEF Idle

\* Starting a call reads the time and nothing else.
LEMMA CallStep ==
  ASSUME IInv, NEW c \in Callers, Call(c) PROVE IInv'
<1>1. PICK d \in Domains :
        call' = [call EXCEPT ![c] =
                   [Idle EXCEPT !.pc = "read", !.dom = d, !.now = clock]]
  BY Zenon DEF Call
<1> DEFINE r == [Idle EXCEPT !.pc = "read", !.dom = d, !.now = clock]
<1>2. r \in CallRecord /\ r.pc = "read" /\ r.chan = NoCaller
  BY IdleType, IdleFacts, Zenon DEF IInv, TypeOK, CallRecord, PCs
<1>3. call[c].pc \notin Leading /\ r.pc \notin Leading
  BY <1>2 DEF Call, Leading
<1> QED BY <1>1, <1>2, <1>3, LocalStep, Zenon DEF Call

\* Returning to the caller without having led.
LEMMA ReturnStep ==
  ASSUME IInv, NEW c \in Callers, UNCHANGED <<clock, sharedVars>>, Return(c),
         call[c].pc \notin Leading
  PROVE  IInv'
  BY LocalStep, IdleType, IdleFacts, Zenon DEF Return, Leading

\* Moving on inside evidence() outside the part that leads.
LEMMA GotoStep ==
  ASSUME IInv, NEW c \in Callers, NEW label \in PCs,
         UNCHANGED <<clock, sharedVars>>, Goto(c, label),
         call[c].pc \notin Leading, label \notin Leading,
         call[c].chan = NoCaller
  PROVE  IInv'
<1> DEFINE r == [call[c] EXCEPT !.pc = label]
<1>1. call[c] \in CallRecord
  BY DEF IInv, TypeOK
<1>2. r \in CallRecord /\ r.pc = label /\ r.chan = NoCaller
  BY <1>1 DEF CallRecord
<1>3. call' = [call EXCEPT ![c] = r]
  BY <1>1 DEF Goto, IInv, TypeOK
<1> HIDE DEF r
<1> QED BY <1>2, <1>3, LocalStep, Zenon

\* Only a waiting caller has a channel.
LEMMA NoChannel ==
  ASSUME IInv, NEW c \in Callers, call[c].pc # "wait"
  PROVE  call[c].chan = NoCaller
  BY DEF IInv, TypeOK, CallRecord, WaitersHaveLeader

\* The first look into the cache.
LEMMA ReadStep ==
  ASSUME IInv, NEW c \in Callers, Read(c) PROVE IInv'
<1>1. CASE Return(c)
  BY <1>1, ReturnStep DEF Read, Leading
<1>2. CASE Goto(c, "lock")
  BY <1>2, GotoStep, NoChannel DEF Read, Leading, PCs
<1> QED BY <1>1, <1>2 DEF Read, ReadRow

\* A waiter goes on once its channel is closed, or returns with its context.
LEMMA WaitStep ==
  ASSUME IInv, NEW c \in Callers, Wait(c) PROVE IInv'
<1>1. CASE call[c].chan = NoCaller /\ Goto(c, "reread")
  BY <1>1, GotoStep DEF Wait, Leading, PCs
<1>2. CASE Return(c)
  BY <1>2, ReturnStep DEF Wait, Leading
<1> QED BY <1>1, <1>2 DEF Wait

\* A released waiter reads the cache once more and returns.
LEMMA RereadStep ==
  ASSUME IInv, NEW c \in Callers, Reread(c) PROVE IInv'
  BY ReturnStep DEF Reread, ReadRow, Leading

\* The first critical section: it returns, joins the channel of the current
\* leader, or installs the caller's own where there was none.
LEMMA LockStep ==
  ASSUME IInv, NEW c \in Callers, Lock(c) PROVE IInv'
<1> USE DEF IInv
<1>0. call[c] \in CallRecord /\ call[c].pc = "lock" /\ call[c].chan = NoCaller
        /\ call[c].dom \in Domains
  BY NoChannel DEF Lock, TypeOK, CallRecord
<1>1. CASE Return(c) /\ UNCHANGED inflight
  BY <1>1, ReturnStep DEF Lock, sharedVars, Leading
<1>2. CASE /\ Pending(c)
           /\ call' = [call EXCEPT ![c].pc = "wait",
                                   ![c].chan = inflight[call[c].dom]]
           /\ UNCHANGED inflight
  <2>1. TypeOK'
    BY <1>0, <1>2, ZenonT(60) DEF Lock, TypeOK, CallRecord, PCs
  <2>2. SingleFlight' /\ WaitersHaveLeader'
    BY <1>0, <1>2 DEF TypeOK, SingleFlight, WaitersHaveLeader, Pending, Leading,
       CallRecord
  <2>3. NoDuplicateLookup' /\ SuppressionRespected'
    BY <1>0, <1>2 DEF Lock, TypeOK, NoDuplicateLookup, SuppressionRespected,
       Leading, Fresh, CallRecord
  <2> QED BY <2>1, <2>2, <2>3
<1>3. CASE /\ ~Suppressed(c) /\ ~Pending(c)
           /\ Goto(c, "recheck")
           /\ inflight' = [inflight EXCEPT ![call[c].dom] = c]
  <2>1. TypeOK'
    BY <1>0, <1>3 DEF Lock, Goto, TypeOK, CallRecord, PCs
  <2>2. SingleFlight'
    BY <1>0, <1>3, ConstantsAssumption DEF TypeOK, SingleFlight, Pending, Goto,
       Leading, CallRecord
  <2>3. WaitersHaveLeader'
    BY <1>0, <1>3 DEF TypeOK, WaitersHaveLeader, Pending, Goto, CallRecord
  <2>4. NoDuplicateLookup' /\ SuppressionRespected'
    BY <1>0, <1>3 DEF Lock, Goto, TypeOK, NoDuplicateLookup, CallRecord,
       SuppressionRespected, Suppressed, Leading, Fresh
  <2> QED BY <2>1, <2>2, <2>3, <2>4
<1> QED BY <1>1, <1>2, <1>3 DEF Lock

\* The leader's release frees its domain and every channel that led to it.
LEMMA ReleaseStep ==
  ASSUME IInv, NEW c \in Callers, call[c].pc \in Leading, Release(c),
         UNCHANGED <<clock, cache, slots>>,
         failures' \in [Domains -> Nat],
         \A d \in Domains \ {call[c].dom} :
             failures'[d] = failures[d] \/ failures'[d] = 0
  PROVE  IInv'
<1> USE DEF IInv
<1>0. call[c] \in CallRecord /\ call[c].dom \in Domains
        /\ inflight[call[c].dom] = c /\ c # NoCaller
  BY ConstantsAssumption DEF TypeOK, CallRecord, SingleFlight
<1>1. \A w \in Callers :
        /\ w # c => /\ call'[w].pc = call[w].pc
                    /\ call'[w].dom = call[w].dom
                    /\ call'[w].now = call[w].now
                    /\ call'[w].chan = IF call[w].chan = c THEN NoCaller
                                                           ELSE call[w].chan
                    /\ call'[w] \in CallRecord
        /\ w = c => call'[w] = Idle
  BY DEF Release, TypeOK, CallRecord
<1>2. TypeOK'
  <2>1. call' \in [Callers -> CallRecord]
    BY <1>1, IdleType DEF Release
  <2> QED BY <1>0, <2>1, Zenon DEF Release, TypeOK
<1>3. SingleFlight'
  BY <1>0, <1>1, IdleFacts, ConstantsAssumption DEF SingleFlight, Release, TypeOK,
     Leading
<1>4. WaitersHaveLeader'
  BY <1>0, <1>1, IdleFacts, ConstantsAssumption DEF WaitersHaveLeader, Release,
     TypeOK
<1>5. NoDuplicateLookup'
  BY <1>0, <1>1, IdleFacts DEF NoDuplicateLookup, Fresh
<1>6. SuppressionRespected'
  <2> SUFFICES ASSUME NEW w \in Callers, call'[w].pc \in Leading
               PROVE  failures'[call'[w].dom] <= call'[w].now
    BY DEF SuppressionRespected
  <2>1. w # c /\ call[w].pc \in Leading /\ call[w].dom \in Domains
          /\ call[w].now \in Nat
    BY <1>1, IdleFacts DEF Leading, TypeOK, CallRecord
  <2>2. call[w].dom # call[c].dom
    BY <1>0, <2>1 DEF SingleFlight
  <2> QED BY <1>1, <2>1, <2>2 DEF SuppressionRespected, TypeOK
<1> QED BY <1>2, <1>3, <1>4, <1>5, <1>6

\* Inside the part that leads, a step that changes only the leader's own locals
\* keeps its domain and entry time, and may not end in a lookup of a fresh row.
LEMMA LeaderStep ==
  ASSUME IInv, NEW c \in Callers, NEW r \in CallRecord,
         call' = [call EXCEPT ![c] = r],
         UNCHANGED <<clock, failures, inflight>>, slots' \in Nat,
         cache' \in [Domains -> Row],
         \A d \in Domains \ {call[c].dom} : cache'[d] = cache[d],
         call[c].pc \in Leading, r.pc \in Leading, r.dom = call[c].dom,
         r.now = call[c].now, r.chan = NoCaller,
         r.pc \in {"slot", "lookup"} => ~Fresh(cache'[r.dom], clock)
  PROVE  IInv'
<1> USE DEF IInv
<1>1. TypeOK'
  BY DEF TypeOK
<1>2. SingleFlight' /\ WaitersHaveLeader'
  BY ConstantsAssumption DEF TypeOK, SingleFlight, WaitersHaveLeader, Leading
<1>3. NoDuplicateLookup'
  <2> SUFFICES ASSUME NEW w \in Callers, call'[w].pc \in {"slot", "lookup"}
               PROVE  ~Fresh(cache'[call'[w].dom], clock)
    BY DEF NoDuplicateLookup
  <2>1. CASE w = c
    BY <2>1 DEF TypeOK
  <2>2. CASE w # c
    <3>1. call'[w] = call[w] /\ call[w].dom \in Domains
      BY <2>2 DEF TypeOK, CallRecord
    <3>2. call[w].dom # call[c].dom
      BY <2>2, <3>1 DEF SingleFlight, Leading
    <3> QED BY <3>1, <3>2 DEF NoDuplicateLookup
  <2> QED BY <2>1, <2>2
<1>4. SuppressionRespected'
  BY DEF TypeOK, SuppressionRespected
<1> QED BY <1>1, <1>2, <1>3, <1>4

\* The same for a step that only moves the program counter.
LEMMA LeaderGoto ==
  ASSUME IInv, NEW c \in Callers, NEW label \in Leading, Goto(c, label),
         UNCHANGED <<clock, failures, inflight>>, slots' \in Nat,
         cache' \in [Domains -> Row],
         \A d \in Domains \ {call[c].dom} : cache'[d] = cache[d],
         call[c].pc \in Leading,
         label \in {"slot", "lookup"} => ~Fresh(cache'[call[c].dom], clock)
  PROVE  IInv'
<1> DEFINE r == [call[c] EXCEPT !.pc = label]
<1>1. call[c] \in CallRecord /\ call[c].chan = NoCaller
  BY NoChannel DEF IInv, TypeOK, Leading
<1>2. r \in CallRecord /\ r.pc = label /\ r.chan = NoCaller
        /\ r.dom = call[c].dom /\ r.now = call[c].now
  BY <1>1 DEF CallRecord, Leading, PCs
<1>3. call' = [call EXCEPT ![c] = r]
  BY <1>1 DEF Goto, IInv, TypeOK
<1> HIDE DEF r
<1> QED BY <1>2, <1>3, LeaderStep, Zenon

\* The leader goes to RDAP only past a second look that found no fresh row.
LEMMA RecheckStep ==
  ASSUME IInv, NEW c \in Callers, Recheck(c) PROVE IInv'
<1>0. failures \in [Domains -> Nat] /\ cache \in [Domains -> Row] /\ slots \in Nat
  BY DEF IInv, TypeOK
<1>1. CASE Release(c)
  BY <1>0, <1>1, ReleaseStep DEF Recheck, Leading
<1>2. CASE /\ ~Fresh(cache[call[c].dom], clock)
           /\ Goto(c, "slot") /\ UNCHANGED inflight
  BY <1>0, <1>2, LeaderGoto DEF Recheck, Leading
<1> QED BY <1>1, <1>2 DEF Recheck, ReadRow

\* The slot is taken, or the timeout ends the wait for one.
LEMMA AcquireSlotStep ==
  ASSUME IInv, NEW c \in Callers, AcquireSlot(c) PROVE IInv'
<1>0. failures \in [Domains -> Nat] /\ cache \in [Domains -> Row] /\ slots \in Nat
        /\ call[c] \in CallRecord /\ call[c].chan = NoCaller
        /\ ~Fresh(cache[call[c].dom], clock)
  BY NoChannel DEF IInv, TypeOK, NoDuplicateLookup, AcquireSlot
<1>1. CASE slots' = slots + 1 /\ Goto(c, "lookup")
  BY <1>0, <1>1, LeaderGoto DEF AcquireSlot, Leading
<1>2. CASE /\ call' = [call EXCEPT ![c].pc = "finish", ![c].err = "deadline"]
           /\ UNCHANGED slots
  <2> DEFINE r == [call[c] EXCEPT !.pc = "finish", !.err = "deadline"]
  <2>1. r \in CallRecord /\ r.pc = "finish" /\ r.chan = NoCaller
          /\ r.dom = call[c].dom /\ r.now = call[c].now
    BY <1>0, Zenon DEF CallRecord, PCs
  <2>2. call' = [call EXCEPT ![c] = r]
    BY <1>2, <1>0, Zenon DEF IInv, TypeOK
  <2> HIDE DEF r
  <2> QED BY <1>0, <1>2, <2>1, <2>2, LeaderStep, Zenon DEF AcquireSlot, Leading
<1> QED BY <1>1, <1>2 DEF AcquireSlot

\* Giving the slot back never makes the count negative; this is the part of the
\* type invariant that needs the slots to be counted.
LEMMA LookupStep ==
  ASSUME IInv, NEW c \in Callers, Lookup(c), slots' \in Nat PROVE IInv'
<1>0. failures \in [Domains -> Nat] /\ cache \in [Domains -> Row]
        /\ call[c] \in CallRecord /\ call[c].chan = NoCaller
  BY NoChannel DEF IInv, TypeOK, Lookup
<1>1. ASSUME NEW err \in {"failure", "deadline"},
             call' = [call EXCEPT ![c].pc = "finish", ![c].err = err]
      PROVE  IInv'
  <2> DEFINE r == [call[c] EXCEPT !.pc = "finish", !.err = err]
  <2>1. r \in CallRecord /\ r.pc = "finish" /\ r.chan = NoCaller
          /\ r.dom = call[c].dom /\ r.now = call[c].now
    BY <1>0, Zenon DEF CallRecord, PCs
  <2>2. call' = [call EXCEPT ![c] = r]
    BY <1>1, <1>0, Zenon DEF IInv, TypeOK
  <2> HIDE DEF r
  <2> QED BY <1>0, <2>1, <2>2, LeaderStep, Zenon DEF Lookup, Leading
<1>2. ASSUME NEW row \in [reg : Times, exp : Times],
             call' = [call EXCEPT ![c].pc = "put",
                                  ![c].row = CacheRow(row, call[c].now)]
      PROVE  IInv'
  <2> DEFINE r == [call[c] EXCEPT !.pc = "put", !.row = CacheRow(row, call[c].now)]
  <2>0. CacheRow(row, call[c].now) \in Row
    BY <1>0, ConstantsAssumption DEF CacheRow, Row, Times, CallRecord
  <2>1. r \in CallRecord /\ r.pc = "put" /\ r.chan = NoCaller
          /\ r.dom = call[c].dom /\ r.now = call[c].now
    BY <1>0, <2>0, Zenon DEF CallRecord, PCs
  <2>2. call' = [call EXCEPT ![c] = r]
    BY <1>2, <1>0, Zenon DEF IInv, TypeOK
  <2> HIDE DEF r
  <2> QED BY <1>0, <2>1, <2>2, LeaderStep, Zenon DEF Lookup, Leading
<1> QED BY <1>1, <1>2 DEF Lookup

\* Only the leader writes the row of its domain.
LEMMA PutStep ==
  ASSUME IInv, NEW c \in Callers, Put(c) PROVE IInv'
<1>1. /\ cache' \in [Domains -> Row] /\ slots' \in Nat
      /\ \A d \in Domains \ {call[c].dom} : cache'[d] = cache[d]
  BY DEF IInv, TypeOK, Put, CallRecord
<1> QED BY <1>1, LeaderGoto DEF Put, Leading

\* The second critical section.
LEMMA FinishStep ==
  ASSUME IInv, NEW c \in Callers, Finish(c) PROVE IInv'
<1>0. failures \in [Domains -> Nat] /\ call[c] \in CallRecord
  BY DEF IInv, TypeOK
<1>1. /\ failures' \in [Domains -> Nat]
      /\ \A d \in Domains \ {call[c].dom} :
             failures'[d] = failures[d] \/ failures'[d] = 0
  <2>1. CASE UNCHANGED failures \/ failures' = [failures EXCEPT ![call[c].dom] = 0]
    BY <1>0, <2>1
  <2>2. ASSUME NEW retry \in Nat, RecordFailure(call[c].dom, call[c].now, retry)
        PROVE  <1>1
    BY <1>0, <2>2 DEF RecordFailure, CallRecord
  <2> QED BY <2>1, <2>2, ConstantsAssumption DEF Finish
<1> QED BY <1>1, ReleaseStep DEF Finish, Leading

\* A context may end at any time.
LEMMA CancelStep ==
  ASSUME IInv, NEW c \in Callers, Cancel(c) PROVE IInv'
<1> USE DEF IInv
<1>1. TypeOK'
  BY ZenonT(60) DEF Cancel, sharedVars, TypeOK, CallRecord
<1>2. SingleFlight' /\ WaitersHaveLeader' /\ NoDuplicateLookup'
        /\ SuppressionRespected'
  BY DEF Cancel, sharedVars, TypeOK, CallRecord, SingleFlight, Fresh,
     WaitersHaveLeader, NoDuplicateLookup, SuppressionRespected
<1> QED BY <1>1, <1>2

\* Time only makes rows staler.
LEMMA TickStep == IInv /\ Tick => IInv'
  BY DEF Tick, sharedVars, IInv, TypeOK, SingleFlight, WaitersHaveLeader,
     NoDuplicateLookup, SuppressionRespected, Fresh, CallRecord, Row

\* Maintenance only removes rows.
LEMMA CleanupStep == IInv /\ Cleanup => IInv'
<1> SUFFICES ASSUME IInv, Cleanup PROVE IInv'
  OBVIOUS
<1>1. /\ cache' \in [Domains -> Row]
      /\ \A d \in Domains : cache'[d] = cache[d] \/ cache'[d].exp = 0
      /\ UNCHANGED <<clock, failures, inflight, slots, call>>
  BY DEF IInv, TypeOK, Cleanup, Row, NoRow
<1> QED BY <1>1 DEF IInv, TypeOK, SingleFlight, WaitersHaveLeader,
     NoDuplicateLookup, SuppressionRespected, Fresh, CallRecord, Row

\* The callers whose RDAP lookup runs.
Lookers == {c \in Callers : call[c].pc = "lookup"}

\* There are finitely many lookups, one per caller at most.
LEMMA LookersFinite == IsFiniteSet(Lookers)
  BY DomainsAssumption, FS_Subset DEF Lookers

\* A step after which the same callers look up, and as many slots are taken.
LEMMA SlotsKept ==
  ASSUME SlotsAccounted, UNCHANGED slots,
         \A w \in Callers : (call'[w].pc = "lookup") <=> (call[w].pc = "lookup")
  PROVE  SlotsAccounted'
<1>1. Lookers' = Lookers
  BY DEF Lookers
<1> QED BY <1>1, Zenon DEF SlotsAccounted, Lookers

\* Every step but the two that take and return a slot leaves the lookups alone.
LEMMA OtherStepsKeepSlots ==
  ASSUME TypeOK, SlotsAccounted, NEW c \in Callers,
         \/ Call(c) \/ Read(c) \/ Lock(c) \/ Wait(c) \/ Reread(c) \/ Recheck(c)
         \/ Put(c) \/ Finish(c) \/ Cancel(c)
  PROVE  SlotsAccounted'
<1> DEFINE Kept == \A w \in Callers :
                     (call'[w].pc = "lookup") <=> (call[w].pc = "lookup")
<1>1. CASE Call(c)
  <2>1. Kept
    BY <1>1, Zenon DEF Call, TypeOK, Idle
  <2> QED BY <1>1, <2>1, SlotsKept, ZenonT(60) DEF Call, sharedVars
<1>2. CASE Read(c) \/ Wait(c) \/ Reread(c) \/ Cancel(c)
  <2>1. Kept
    BY <1>2 DEF Read, Wait, Reread, Cancel, ReadRow, Return, Goto, TypeOK, Idle,
       CallRecord
  <2> QED BY <1>2, <2>1, SlotsKept DEF Read, Wait, Reread, Cancel, sharedVars
<1>3. CASE Lock(c) \/ Put(c)
  <2>1. Kept
    BY <1>3 DEF Lock, Put, Return, Goto, TypeOK, Idle, CallRecord
  <2> QED BY <1>3, <2>1, SlotsKept DEF Lock, Put
<1>4. CASE Recheck(c) \/ Finish(c)
  <2>1. ASSUME Release(c), call[c].pc # "lookup"
        PROVE  Kept
    BY <2>1 DEF Release, TypeOK, Idle, CallRecord
  <2>2. CASE Release(c)
    BY <1>4, <2>1, <2>2, SlotsKept, Zenon DEF Recheck, Finish
  <2>3. CASE Recheck(c) /\ Goto(c, "slot")
    <3>1. Kept
      BY <2>3 DEF Recheck, Goto, TypeOK, CallRecord
    <3> QED BY <2>3, <3>1, SlotsKept DEF Recheck
  <2> QED BY <1>4, <2>2, <2>3 DEF Recheck, Finish, ReadRow
<1> QED BY <1>1, <1>2, <1>3, <1>4

\* Taking a slot adds one lookup and stays within the capacity.
LEMMA AcquireKeepsSlots ==
  ASSUME TypeOK, SlotsAccounted, NEW c \in Callers, AcquireSlot(c)
  PROVE  SlotsAccounted'
<1>1. CASE slots < Slots /\ slots' = slots + 1 /\ Goto(c, "lookup")
  <2>1. Lookers' = Lookers \union {c} /\ c \notin Lookers
    BY <1>1 DEF AcquireSlot, Goto, Lookers, TypeOK, CallRecord
  <2>2. Cardinality(Lookers') = Cardinality(Lookers) + 1
    BY <2>1, LookersFinite, FS_AddElement, SMTT(60)
  <2>3. slots' = Cardinality(Lookers')
    BY <1>1, <2>2 DEF SlotsAccounted, Lookers
  <2> QED BY <1>1, <2>3, ConstantsAssumption DEF SlotsAccounted, Lookers, TypeOK
<1>2. CASE /\ call' = [call EXCEPT ![c].pc = "finish", ![c].err = "deadline"]
           /\ UNCHANGED slots
  <2>1. \A w \in Callers : (call'[w].pc = "lookup") <=> (call[w].pc = "lookup")
    BY <1>2 DEF AcquireSlot, TypeOK, CallRecord
  <2> QED BY <1>2, <2>1, SlotsKept, Zenon
<1> QED BY <1>1, <1>2 DEF AcquireSlot

\* The end of a lookup, good or bad, returns exactly its slot.
LEMMA LookupKeepsSlots ==
  ASSUME TypeOK, SlotsAccounted, NEW c \in Callers, Lookup(c)
  PROVE  slots' \in Nat /\ SlotsAccounted'
<1>1. Lookers' = Lookers \ {c} /\ c \in Lookers
  BY DEF Lookup, Lookers, TypeOK, CallRecord
<1>2. Cardinality(Lookers') = Cardinality(Lookers) - 1
  BY <1>1, LookersFinite, FS_RemoveElement
<1>3. Cardinality(Lookers') \in Nat
  BY <1>1, LookersFinite, FS_RemoveElement, FS_CardinalityType
<1>4. slots' = Cardinality(Lookers') /\ slots' <= Slots
  BY <1>2, ConstantsAssumption DEF Lookup, SlotsAccounted, Lookers, TypeOK
<1> QED BY <1>3, <1>4 DEF SlotsAccounted, Lookers

-----------------------------------------------------------------------------
\* No slot is taken at first.
LEMMA InitSlots == Init => SlotsAccounted
<1> SUFFICES ASSUME Init PROVE SlotsAccounted
  OBVIOUS
<1>1. Lookers = {}
  BY IdleFacts DEF Init, Lookers
<1> QED BY <1>1, FS_EmptySet, ConstantsAssumption, SMTT(60) DEF Init, SlotsAccounted, Lookers

\* Every step preserves the invariant and the account of the slots.
LEMMA NextIInv ==
  ASSUME IInv, SlotsAccounted, [Next]_vars PROVE IInv' /\ SlotsAccounted'
<1>0. TypeOK
  BY DEF IInv
<1>1. ASSUME NEW c \in Callers, Call(c) \/ Step(c) \/ Cancel(c)
      PROVE  IInv' /\ SlotsAccounted'
  <2>1. CASE Lookup(c)
    BY <1>0, <2>1, LookupKeepsSlots, LookupStep
  <2>2. CASE AcquireSlot(c)
    BY <1>0, <2>2, AcquireKeepsSlots, AcquireSlotStep
  <2>3. CASE Call(c) \/ Read(c) \/ Lock(c) \/ Wait(c) \/ Reread(c)
    BY <1>0, <2>3, OtherStepsKeepSlots, CallStep, ReadStep, LockStep, WaitStep,
       RereadStep
  <2>4. CASE Recheck(c) \/ Put(c) \/ Finish(c) \/ Cancel(c)
    BY <1>0, <2>4, OtherStepsKeepSlots, RecheckStep, PutStep, FinishStep,
       CancelStep
  <2> QED BY <1>1, <2>1, <2>2, <2>3, <2>4 DEF Step
<1>2. CASE Tick
  BY <1>2, TickStep, SlotsKept DEF Tick, sharedVars
<1>3. CASE Cleanup
  BY <1>3, CleanupStep, SlotsKept, Zenon DEF Cleanup
<1>4. CASE UNCHANGED vars
  BY <1>4, SlotsKept DEF vars, IInv, TypeOK, SingleFlight, WaitersHaveLeader,
     NoDuplicateLookup, SuppressionRespected, Fresh
<1> QED BY <1>1, <1>2, <1>3, <1>4 DEF Next

\* Everything the service promises about coalescing at once.
LEMMA Inductive == Spec => [](IInv /\ SlotsAccounted)
<1>1. Init => IInv /\ SlotsAccounted
  BY InitIInv, InitSlots
<1>2. IInv /\ SlotsAccounted /\ [Next]_vars => (IInv /\ SlotsAccounted)'
  BY NextIInv
<1> QED BY <1>1, <1>2, PTL DEF Spec

\* The maps, the channel and the locals of evidence() always hold values of
\* their types; in particular the number of slots taken is never negative.
THEOREM TypeCorrect == Spec => []TypeOK
<1>1. IInv => TypeOK
  BY DEF IInv
<1> QED BY <1>1, Inductive, PTL

\* For any number of sessions, at most one of them refreshes a domain, and it is
\* the one whose channel is in s.inflight.
THEOREM Coalescing == Spec => []SingleFlight
<1>1. IInv => SingleFlight
  BY DEF IInv
<1> QED BY <1>1, Inductive, PTL

\* A session that sleeps on a channel has a live leader that will close it.
THEOREM NoLostWakeup == Spec => []WaitersHaveLeader
<1>1. IInv => WaitersHaveLeader
  BY DEF IInv
<1> QED BY <1>1, Inductive, PTL

\* The second read of the cache closes the scheduling gap: RDAP is never asked
\* about a domain whose cached row is fresh.
THEOREM NoLookupOfFreshRow == Spec => []NoDuplicateLookup
<1>1. IInv => NoDuplicateLookup
  BY DEF IInv
<1> QED BY <1>1, Inductive, PTL

\* Nobody asks RDAP about a domain that a recent failure suppresses.
THEOREM FailuresSuppress == Spec => []SuppressionRespected
<1>1. IInv => SuppressionRespected
  BY DEF IInv
<1> QED BY <1>1, Inductive, PTL

\* Lookups in progress and slots taken always agree and stay within capacity.
THEOREM SlotsNeverLeak == Spec => []SlotsAccounted
  BY Inductive, PTL

\* pruneFailuresLocked keeps the failure table within the configured entries,
\* however many domains fail.
THEOREM FailureTableBounded == Spec => []FailuresBounded
<1> DEFINE Failed == {d \in Domains : failures[d] # 0}
<1>0. IsFiniteSet(Failed) /\ IsFiniteSet(Failed')
  BY DomainsAssumption, FS_Subset
<1>1. Init => FailuresBounded
  <2> SUFFICES ASSUME Init PROVE FailuresBounded
    OBVIOUS
  <2>1. Failed = {}
    BY DEF Init
  <2> QED BY <2>1, FS_EmptySet, ConstantsAssumption DEF FailuresBounded
<1>2. ASSUME TypeOK, FailuresBounded, Failed' \subseteq Failed
      PROVE  FailuresBounded'
  <2>1. Cardinality(Failed') <= Cardinality(Failed)
    BY <1>0, <1>2, FS_Subset
  <2>2. Cardinality(Failed') \in Nat /\ Cardinality(Failed) \in Nat
    BY <1>0, FS_CardinalityType
  <2> QED BY <2>1, <2>2, <1>2, ConstantsAssumption DEF FailuresBounded
<1>3. ASSUME TypeOK, NEW d \in Domains, NEW t \in Nat, NEW retry \in Nat,
             RecordFailure(d, t, retry)
      PROVE  FailuresBounded'
  <2>1. PICK kept \in SUBSET RecentFailures(t) :
          /\ IF Cardinality(RecentFailures(t)) < MaxEntries
             THEN kept = RecentFailures(t)
             ELSE Cardinality(kept) = MaxEntries - 1
          /\ failures' = [e \in Domains |->
                            CASE e = d -> t + retry
                              [] e # d /\ e \in kept -> failures[e]
                              [] OTHER -> 0]
    BY <1>3 DEF RecordFailure
  <2>2. IsFiniteSet(kept) /\ IsFiniteSet(RecentFailures(t))
    BY DomainsAssumption, FS_Subset DEF RecentFailures
  <2>3. Cardinality(kept) \in Nat /\ Cardinality(RecentFailures(t)) \in Nat
    BY <2>2, FS_CardinalityType
  <2>4. Cardinality(kept) <= MaxEntries - 1
    BY <2>1, <2>3, ConstantsAssumption
  <2>5. Failed' \subseteq kept \union {d}
    BY <2>1 DEF RecentFailures
  <2>6. /\ IsFiniteSet(kept \union {d})
        /\ Cardinality(kept \union {d}) \in Nat
        /\ Cardinality(kept \union {d}) <= Cardinality(kept) + 1
    <3>1. IsFiniteSet(kept \union {d})
            /\ Cardinality(kept \union {d}) =
                 IF d \in kept THEN Cardinality(kept) ELSE Cardinality(kept) + 1
      BY <2>2, FS_AddElement
    <3> QED BY <3>1, <2>3
  <2>7. Cardinality(Failed') <= Cardinality(kept \union {d})
          /\ Cardinality(Failed') \in Nat
    BY <1>0, <2>5, <2>6, FS_Subset, FS_CardinalityType
  <2> QED BY <2>3, <2>4, <2>6, <2>7, ConstantsAssumption DEF FailuresBounded
<1>4. ASSUME TypeOK, FailuresBounded, [Next]_vars PROVE FailuresBounded'
  <2>1. CASE UNCHANGED failures
    BY <1>2, <1>4, <2>1
  <2>2. ASSUME NEW c \in Callers, Finish(c) PROVE FailuresBounded'
    <3>1. call[c] \in CallRecord
      BY <1>4 DEF TypeOK
    <3>2. CASE failures' = [failures EXCEPT ![call[c].dom] = 0]
      BY <1>2, <1>4, <3>1, <3>2 DEF TypeOK, CallRecord
    <3>3. CASE RecordFailure(call[c].dom, call[c].now,
                             IF call[c].err = "deadline" THEN DeadlineRetry
                                                         ELSE FailureRetry)
      BY <1>3, <1>4, <3>1, <3>3, ConstantsAssumption, SMTT(60) DEF CallRecord
    <3> QED BY <2>1, <2>2, <3>2, <3>3 DEF Finish
  <2>3. (\E c \in Callers : Finish(c)) \/ UNCHANGED failures
    BY <1>4, Zenon DEF Next, Step, Call, Read, Lock, Wait, Reread, Recheck, AcquireSlot,
       Lookup, Put, Cancel, Tick, Cleanup, vars, sharedVars
  <2> QED BY <2>1, <2>2, <2>3
<1> QED BY <1>1, <1>4, TypeCorrect, PTL DEF Spec

\* Whatever number of sessions share the service, its inflight map, slots and
\* failure table stay consistent.
THEOREM ServiceSafe == Spec => []Safe
<1>1. TypeOK /\ SingleFlight /\ WaitersHaveLeader /\ SlotsAccounted /\ FailuresBounded => Safe
  BY DEF Safe
<1> QED BY <1>1, TypeCorrect, Coalescing, NoLostWakeup, SlotsNeverLeak, FailureTableBounded, PTL

\* A lookup that runs was needed: Lookup asks RDAP for no domain whose row is
\* fresh, and for none that a failure suppressed when the call began.
THEOREM LookupsNeeded == Spec => []LookupsJustified
<1>1. NoDuplicateLookup /\ SuppressionRespected => LookupsJustified
  BY DEF LookupsJustified
<1> QED BY <1>1, NoLookupOfFreshRow, FailuresSuppress, PTL
=============================================================================
