-------------------------- MODULE MailVerification --------------------------
(***************************************************************************)
(* Local DKIM, SPF and DMARC verification: the exact-message stores of the *)
(* sessions (mailauth), the session's wait for its verification worker     *)
(* (milter), and the verifier (moxverify).  The DNS and cryptographic      *)
(* libraries are external: they answer anything their types allow.         *)
(***************************************************************************)
EXTENDS Integers, Sequences, FiniteSets

CONSTANTS
    Sessions,
    Storage,             \* exact_message_storage: a set of settings
    MemoryMessageLimit,  \* slots of the hybrid store
    MaxConcurrent,       \* slots of the verifier
    MaxBytes,            \* largest exact message
    Chunk,               \* sizes of one header or body chunk
    MaxDKIMSignatures,
    MaxMessages          \* bound: messages of one session

VARIABLES
    storage,      \* the configured storage
    conv,         \* session -> its message
    store,        \* session -> its exact-message store
    worker,       \* session -> its verification worker
    memorySlots,  \* slots of the factory in use
    slots         \* slots of the verifier in use

mailVars == <<storage, conv, store, worker, memorySlots, slots>>

\* exactMessage: kind none when the session holds none; size is what was
\* stored, sent what the MTA sent.
NoStore == [kind |-> "none", size |-> 0, err |-> FALSE]
NoWorker == [at |-> "none", message |-> FALSE, size |-> 0, sent |-> 0, done |-> FALSE,
             results |-> {}, err |-> FALSE, checked |-> 0]
NewConv == [at |-> "idle", sent |-> 0, messages |-> 0, evidence |-> {}, fault |-> FALSE]

Methods == {"spf", "dkim", "dmarc"}
Res(method, outcome, by) == [method |-> method, outcome |-> outcome, by |-> by]

MailInit ==
    /\ storage \in Storage
    /\ conv = [s \in Sessions |-> NewConv]
    /\ store = [s \in Sessions |-> NoStore]
    /\ worker = [s \in Sessions |-> NoWorker]
    /\ memorySlots = 0 /\ slots = 0

-----------------------------------------------------------------------------
(* Exact-message stores                                                    *)

\* NewExactMessage; a temporary file can fail to be created or unlinked.
NewExactMessage(kind) ==
    IF kind = "file" THEN {[NoStore EXCEPT !.kind = "file"], [NoStore EXCEPT !.err = TRUE]}
    ELSE {[NoStore EXCEPT !.kind = kind]}

\* ExactMessageFactory.New, with u slots in use.
FactoryNew(u) ==
    IF storage # "hybrid" THEN NewExactMessage(storage)
    ELSE IF u < MemoryMessageLimit THEN {[NoStore EXCEPT !.kind = "slot"]}
    ELSE NewExactMessage("file")

\* Slots in use once e is closed: limitedMemoryExactMessage.Close.
Released(e) == IF e.kind = "slot" THEN memorySlots - 1 ELSE memorySlots
Acquired(u, e) == IF e.kind = "slot" THEN u + 1 ELSE u

\* append through captureExact: too large, a failed or short write, or stored.
AppendTo(e, n) ==
    IF e.kind = "none" \/ e.err THEN {e}
    ELSE IF e.size + n > MaxBytes THEN {[e EXCEPT !.err = TRUE]}
    ELSE {[e EXCEPT !.size = @ + n]}
         \cup IF e.kind = "file"
              THEN {[e EXCEPT !.size = @ + k, !.err = TRUE] : k \in 0..(n - 1)} ELSE {}

\* MAIL FROM: resetMessage(phaseEnvelope).
MailFrom(s) ==
    /\ conv[s].at = "idle" /\ conv[s].messages < MaxMessages
    /\ \E e \in FactoryNew(Released(store[s])) :
         /\ store' = [store EXCEPT ![s] = e]
         /\ memorySlots' = Acquired(Released(store[s]), e)
    /\ conv' = [conv EXCEPT ![s] = [NewConv EXCEPT !.at = "capture",
                                                   !.messages = conv[s].messages + 1]]
    /\ UNCHANGED <<storage, worker, slots>>

\* A header, the end of headers or a body chunk.
Capture(s) ==
    /\ conv[s].at = "capture"
    /\ \E n \in Chunk : \E e \in AppendTo(store[s], n) :
         /\ conv[s].sent + n <= MaxBytes + 1
         /\ store' = [store EXCEPT ![s] = e]
         /\ conv' = [conv EXCEPT ![s].sent = @ + n]
    /\ UNCHANGED <<storage, worker, memorySlots, slots>>

\* closeExactMessage; an error recorded earlier stays until the reset.
CloseExactMessage(s) ==
    /\ memorySlots' = Released(store[s])
    /\ store' = [store EXCEPT ![s] = [NoStore EXCEPT !.err = store[s].err]]

\* ABORT, or a decision without verification: resetMessage(phaseConnection).
Abort(s) ==
    /\ conv[s].at = "capture"
    /\ memorySlots' = Released(store[s])
    /\ store' = [store EXCEPT ![s] = NoStore]
    /\ conv' = [conv EXCEPT ![s] = [NewConv EXCEPT !.messages = conv[s].messages]]
    /\ UNCHANGED <<storage, worker, slots>>

-----------------------------------------------------------------------------
(* The session and its worker: verifyAuthenticationWithProgress             *)

\* Mutant of EndOfMessage: a message whose capture failed is verified all the same.
EndOfMessagePartial(s) ==
    /\ conv[s].at = "capture"
    /\ conv' = [conv EXCEPT ![s].at = "verifying"]
    /\ worker' = [worker EXCEPT ![s] =
                    [NoWorker EXCEPT !.at = "queue", !.message = store[s].kind # "none",
                                     !.sent = conv[s].sent, !.size = store[s].size]]
    /\ UNCHANGED <<storage, store, memorySlots, slots>>

EndOfMessage(s) ==
    /\ conv[s].at = "capture"
    /\ conv' = [conv EXCEPT ![s].at = "verifying"]
    /\ LET usable == store[s].kind # "none" /\ ~store[s].err
       IN  worker' = [worker EXCEPT ![s] =
                        [NoWorker EXCEPT !.at = "queue", !.message = usable, !.sent = conv[s].sent,
                                         !.size = IF usable THEN store[s].size ELSE 0]]
    /\ UNCHANGED <<storage, store, memorySlots, slots>>

\* The session is told to stop, or a progress frame cannot be written: it
\* cancels the worker and waits for it.
Interrupt(s) ==
    /\ conv[s].at = "verifying"
    /\ conv' = [conv EXCEPT ![s].at = "draining"]
    /\ worker' = [worker EXCEPT ![s].done = TRUE]
    /\ UNCHANGED <<storage, store, memorySlots, slots>>

\* Verify's own timeout.
Timeout(s) ==
    /\ worker[s].at \notin {"none", "returned"} /\ ~worker[s].done
    /\ worker' = [worker EXCEPT ![s].done = TRUE]
    /\ UNCHANGED <<storage, conv, store, memorySlots, slots>>

\* EvidenceWithUnavailableMethods
WithUnavailable(results, methods) ==
    results \cup {Res(m, "temperror", "") : m \in {n \in methods : \A r \in results : r.method # n}}

\* The worker's result reaches the session, which closes the exact message
\* and completes the evidence.
Deliver(s) ==
    /\ worker[s].at = "returned" /\ conv[s].at \in {"verifying", "draining"}
    /\ CloseExactMessage(s)
    /\ LET interrupted == conv[s].at = "draining"
           results == IF interrupted THEN {} ELSE worker[s].results
           failed == interrupted \/ worker[s].err
       IN  conv' = [conv EXCEPT ![s].at = "decided", ![s].fault = failed,
                                ![s].evidence =
                                   IF failed THEN WithUnavailable(results, Methods) ELSE results]
    /\ UNCHANGED <<storage, worker, slots>>

\* The rest of the message, with its resetMessage(phaseConnection).
Decide(s) ==
    /\ conv[s].at = "decided"
    /\ conv' = [conv EXCEPT ![s] = [NewConv EXCEPT !.messages = conv[s].messages]]
    /\ worker' = [worker EXCEPT ![s] = NoWorker]
    /\ store' = [store EXCEPT ![s] = NoStore]
    /\ UNCHANGED <<storage, memorySlots, slots>>

-----------------------------------------------------------------------------
(* The verifier                                                            *)

\* The deferred release of the slot, and the worker's send.  A timeout seen
\* after the run discards its evidence.
WithResults(w, results, err) ==
    [w EXCEPT !.at = "returned", !.err = err \/ w.done,
              !.results = IF w.done THEN {} ELSE results]
ReturnResults(s, results, err) ==
    /\ worker' = [worker EXCEPT ![s] = WithResults(worker[s], results, err)]
    /\ slots' = slots - 1

QueueVerification(s) ==
    /\ worker[s].at = "queue"
    /\ \/ /\ slots < MaxConcurrent /\ ~worker[s].done
          /\ slots' = slots + 1
          /\ worker' = [worker EXCEPT ![s].at = "spf"]
       \/ /\ worker[s].done   \* also when the select takes the slot first
          /\ slots' = slots
          /\ worker' = [worker EXCEPT ![s] = WithResults(worker[s], {}, TRUE)]
    /\ UNCHANGED <<storage, conv, store, memorySlots>>

\* verifySPF: the library's answer; an input it cannot use counts as a fail.
SPFOutcomes == {"pass", "fail"}

VerifySPF(s) ==
    /\ worker[s].at = "spf"
    /\ \/ /\ ~worker[s].done
          /\ \E o \in SPFOutcomes :
               worker' = [worker EXCEPT ![s].at = "message", ![s].results = {Res("spf", o, "")}]
          /\ slots' = slots
       \/ worker[s].done /\ ReturnResults(s, {}, TRUE)
    /\ UNCHANGED <<storage, conv, store, memorySlots>>

\* unavailableMessageEvidence
Unavailable(w) == WithUnavailable(w.results, {"dkim", "dmarc"})

\* The message is there, and its last byte can be read.
CheckMessage(s) ==
    /\ worker[s].at = "message"
    /\ \/ worker[s].size = 0 /\ ReturnResults(s, Unavailable(worker[s]), TRUE)
       \/ store[s].kind = "file" /\ worker[s].size > 0 /\ ReturnResults(s, Unavailable(worker[s]), TRUE)
       \/ worker[s].size > 0 /\ worker' = [worker EXCEPT ![s].at = "dkim"] /\ slots' = slots
    /\ UNCHANGED <<storage, conv, store, memorySlots>>

\* dkim.Verify calls the policy for each signature it could parse, in order;
\* the policy refuses those after the first MaxDKIMSignatures.  A signature is
\* malformed, or admitted and verified (pass or fail), or refused (policy).
Admitted(sigs, i) == Cardinality({j \in 1..i : sigs[j] # "malformed"}) <= MaxDKIMSignatures
Checked(sigs) == Cardinality({i \in 1..Len(sigs) : sigs[i] # "malformed" /\ Admitted(sigs, i)})
Verified(sigs) ==
    [i \in 1..Len(sigs) |-> IF sigs[i] = "malformed" THEN "permerror"
                            ELSE IF Admitted(sigs, i) THEN sigs[i] ELSE "policy"]
SignatureLists ==
    UNION {[1..n -> {"pass", "fail", "malformed"}] : n \in 0..(MaxDKIMSignatures + 1)}

DKIMResults(verified) ==
    IF verified = <<>> THEN {Res("dkim", "none", "")}
    ELSE {Res("dkim", verified[i], "") : i \in {j \in 1..Len(verified) : j <= MaxDKIMSignatures}}
         \cup IF Len(verified) > MaxDKIMSignatures THEN {Res("dkim", "policy", "")} ELSE {}

\* dmarc.Verify (external): passes only on an aligned SPF or DKIM pass; no
\* policy, an invalid From and an error count as a fail.
DMARCResults(spf, verified) ==
    {Res("dmarc", "fail", "")}
    \cup (IF spf = "pass" THEN {Res("dmarc", "pass", "spf")} ELSE {})
    \cup (IF \E i \in 1..Len(verified) : verified[i] = "pass"
          THEN {Res("dmarc", "pass", "dkim")} ELSE {})

\* DKIM and DMARC; a file can fail to be read, and a context that ends while
\* the libraries run ends the verification.
VerifyMessage(s) ==
    /\ worker[s].at = "dkim"
    /\ \/ worker[s].done /\ ReturnResults(s, {}, TRUE)
       \/ ~worker[s].done /\ store[s].kind = "file" /\ ReturnResults(s, Unavailable(worker[s]), TRUE)
       \/ /\ ~worker[s].done   \* malformed headers: no DKIM result
          /\ \E d \in DMARCResults((CHOOSE r \in worker[s].results : TRUE).outcome, <<>>) :
               ReturnResults(s, worker[s].results \cup {Res("dkim", "permerror", ""), d}, FALSE)
       \/ /\ ~worker[s].done
          /\ \E sigs \in SignatureLists :
               LET spf == (CHOOSE r \in worker[s].results : TRUE).outcome
                   verified == Verified(sigs)
                   dkim == worker[s].results \cup DKIMResults(verified)
               IN  \E d \in DMARCResults(spf, verified) :
                      /\ worker' = [worker EXCEPT ![s] =
                                     [WithResults(worker[s], dkim \cup {d}, FALSE)
                                      EXCEPT !.checked = Checked(sigs)]]
                      /\ slots' = slots - 1
    /\ UNCHANGED <<storage, conv, store, memorySlots>>

\* A panic of the library is recovered by the worker; the deferred release runs.
Panic(s) ==
    /\ worker[s].at \in {"spf", "dkim"}
    /\ ReturnResults(s, {}, TRUE)
    /\ UNCHANGED <<storage, conv, store, memorySlots>>

VerifierStep(s) ==
    \/ QueueVerification(s) \/ VerifySPF(s) \/ CheckMessage(s) \/ VerifyMessage(s) \/ Panic(s)

MailNext ==
    \E s \in Sessions :
       \/ MailFrom(s) \/ Capture(s) \/ Abort(s) \/ EndOfMessage(s) \/ Interrupt(s)
       \/ Timeout(s) \/ Deliver(s) \/ Decide(s)
       \/ QueueVerification(s) \/ VerifySPF(s) \/ CheckMessage(s) \/ VerifyMessage(s) \/ Panic(s)

-----------------------------------------------------------------------------
(* Properties                                                              *)

Verifying(s) == worker[s].at \in {"spf", "message", "dkim"}

\* The hybrid memory slots and the verifier's slots are each held exactly by
\* the sessions and workers that use them, within their limits, whatever
\* aborts, interruptions, timeouts and panics happened; and no worker runs on
\* a store its session has closed.
SlotsExact ==
    /\ memorySlots = Cardinality({s \in Sessions : store[s].kind = "slot"})
    /\ memorySlots <= MemoryMessageLimit
    /\ slots = Cardinality({s \in Sessions : Verifying(s)})
    /\ slots <= MaxConcurrent
    /\ \A s \in Sessions : Verifying(s) /\ worker[s].message => store[s].kind # "none"

\* The evidence a decision is taken on says something about each method; a
\* DKIM pass was computed over exactly the bytes the MTA sent, by a worker
\* that was neither interrupted nor failed; DMARC passes only on an SPF or DKIM
\* pass; and no more than MaxDKIMSignatures signatures were verified.
EvidenceSound ==
    \A s \in Sessions :
       /\ worker[s].checked <= MaxDKIMSignatures
       /\ conv[s].at = "decided" =>
            /\ \A m \in Methods : \E r \in conv[s].evidence : r.method = m
            /\ \A r \in conv[s].evidence :
                 /\ r.method = "dkim" /\ r.outcome = "pass" =>
                       ~conv[s].fault /\ worker[s].size = conv[s].sent /\ conv[s].sent > 0
                 /\ r.by = "spf" => Res("spf", "pass", "") \in conv[s].evidence
                 /\ r.by = "dkim" => ~conv[s].fault /\ worker[s].checked > 0

\* The verification of a message returns its slots and reports evidence on the
\* message that was sent (verifyAuthenticationWithProgress).
VerificationSound == SlotsExact /\ EvidenceSound

=============================================================================
