--------------------------- MODULE AnalysisService ---------------------------
(***************************************************************************)
(* analysisService.evaluate (internal/milter/analysis.go) over the AI      *)
(* client's Analyze (internal/ai/client.go): sessions compete for          *)
(* ai.max_concurrent slots, prepare the message and ask the endpoint, with *)
(* retries, Retry-After pauses and token accounting, all under one         *)
(* deadline of MaximumAnalysisDuration.  Time passes in ticks, and never   *)
(* past an HTTP timeout, a retry timer or a deadline that is due.          *)
(***************************************************************************)
EXTENDS Integers, FiniteSets

CONSTANTS
  Workers,        \* analysis workers of sessions
  MaxConcurrent,  \* ai.max_concurrent
  Timeout,        \* ai.timeout
  Retries,        \* ai.retries
  MaxRetryAfter,  \* maxEndpointRetryAfter
  Backoff,        \* a backoff below maxEndpointRetryBackoff
  MaxExtraction,  \* the time content preparation may take
  MaxTokens,      \* the largest token count, math.MaxUint64
  Reported,       \* token counts an endpoint reports
  MaxTime         \* bound on the clock

ASSUME LimitsAssumption ==
  /\ MaxConcurrent \in Nat \ {0} /\ Timeout \in Nat \ {0} /\ Retries \in Nat
  /\ MaxRetryAfter \in Nat /\ Backoff \in 0 .. MaxRetryAfter /\ MaxExtraction \in Nat
  /\ MaxTokens \in Nat /\ Reported \subseteq 0 .. MaxTokens /\ MaxTime \in Nat

VARIABLES now, requestSlots, call

analysisVars == <<now, requestSlots, call>>

(* What evaluate and Analyze keep for one message.  since is when the current
   wait began, asked when Analyze began; spent counts every reported token and
   cancelled whether the session gave the worker up. *)
Call == [pc : {"idle", "queue", "prepare", "request", "pause"}, start : 0 .. MaxTime,
         asked : 0 .. MaxTime, since : 0 .. MaxTime, pause : 0 .. MaxRetryAfter,
         attempt : 0 .. Retries, usage : 0 .. MaxTokens, spent : Nat, cancelled : BOOLEAN,
         result : {"none", "decision", "limit", "context", "retryable", "permanent"}]

Idle == [pc |-> "idle", start |-> 0, asked |-> 0, since |-> 0, pause |-> 0, attempt |-> 0,
         usage |-> 0, spent |-> 0, cancelled |-> FALSE, result |-> "none"]

MaximumShort == Timeout * Retries + MaxRetryAfter * Retries
MaximumAnalysisDuration == Timeout * (Retries + 1) + MaxRetryAfter * Retries

ended(c, result) ==
  [Idle EXCEPT !.attempt = c.attempt, !.usage = c.usage, !.spent = c.spent, !.result = result]

setCall(w, c) == call' = [call EXCEPT ![w] = c]

ctxDone(w) == call[w].cancelled \/ now >= call[w].start + MaximumAnalysisDuration

-----------------------------------------------------------------------------
Evaluate(w) ==
  /\ call[w].pc = "idle" /\ now + MaximumAnalysisDuration <= MaxTime
  /\ setCall(w, [Idle EXCEPT !.pc = "queue", !.start = now, !.since = now])
  /\ UNCHANGED <<now, requestSlots>>

acquire(w) ==
  /\ call[w].pc = "queue" /\ requestSlots < MaxConcurrent
  /\ requestSlots' = requestSlots + 1
  /\ setCall(w, [call[w] EXCEPT !.pc = "prepare", !.since = now])
  /\ UNCHANGED now

(* analysisFailure without a slot. *)
queueExpires(w) ==
  /\ call[w].pc = "queue" /\ ctxDone(w)
  /\ setCall(w, ended(call[w], "context"))
  /\ UNCHANGED <<now, requestSlots>>

(* The deferred receive of evaluate, on every return after the acquisition. *)
released(w, result) ==
  /\ call[w].pc # "idle"
  /\ requestSlots' = requestSlots - 1

return(w, c, result) ==
  /\ released(w, result)
  /\ setCall(w, ended(c, result))
  /\ UNCHANGED now

(* buildAnalysis ends: with the context done, over a resource limit or with an
   incomplete body and a policy against it, or ready to ask. *)
prepared(w) ==
  /\ call[w].pc = "prepare"
  /\ \/ ctxDone(w) /\ return(w, call[w], "context")
     \/ ~ctxDone(w) /\ return(w, call[w], "limit")
     \/ /\ ~ctxDone(w)
        /\ setCall(w, [call[w] EXCEPT !.pc = "request", !.since = now, !.asked = now])
        /\ UNCHANGED <<now, requestSlots>>

-----------------------------------------------------------------------------
(* Analyze.  An attempt reports usage unless the transport failed, and an answer
   may just precede a timeout or a cancellation. *)

saturatingAdd(left, right) == IF MaxTokens - left < right THEN MaxTokens ELSE left + right

addFinalOnly(c, tokens) ==
  [c EXCEPT !.usage = tokens, !.spent = @ + tokens]

addUsage(c, tokens) ==
  [c EXCEPT !.usage = saturatingAdd(@, tokens), !.spent = @ + tokens]

timedOut(w) == now >= call[w].since + Timeout

answered(w) ==
  /\ call[w].pc = "request"
  /\ \E tokens \in Reported, result \in {"decision", "permanent"} :
       return(w, addUsage(call[w], tokens), result)

lastAttempt(w) == call[w].attempt = Retries

retryDelays == {Backoff} \cup 1 .. MaxRetryAfter

(* After a failed attempt: the last error, or a pause before the next attempt. *)
retry(w, c) ==
  \/ ctxDone(w) /\ return(w, c, "context")
  \/ ~ctxDone(w) /\ lastAttempt(w) /\ return(w, c, "retryable")
  \/ /\ ~ctxDone(w) /\ ~lastAttempt(w)
     /\ \E delay \in retryDelays :
          setCall(w, [c EXCEPT !.pc = "pause", !.since = now, !.pause = delay])
     /\ UNCHANGED <<now, requestSlots>>

(* A transport failure, a retryable status or an unusable answer. *)
attemptFailed(w) ==
  /\ call[w].pc = "request"
  /\ \E tokens \in Reported \cup {0} : retry(w, addUsage(call[w], tokens))

attemptHangs(w) == call[w].pc = "request" /\ timedOut(w) /\ lastAttempt(w) /\ retry(w, call[w])

(* The HTTP timeout or the context of the request. *)
attemptExpired(w) ==
  /\ call[w].pc = "request" /\ (timedOut(w) \/ ctxDone(w))
  /\ retry(w, call[w])

(* waitForRetry: the timer, or the context. *)
retryNow(w) ==
  /\ call[w].pc = "pause" /\ now >= call[w].since + call[w].pause
  /\ setCall(w, [call[w] EXCEPT !.pc = "request", !.since = now, !.attempt = @ + 1])
  /\ UNCHANGED <<now, requestSlots>>

pauseExpires(w) ==
  /\ call[w].pc = "pause" /\ call[w].pause > 0 /\ ctxDone(w)
  /\ return(w, call[w], "context")

-----------------------------------------------------------------------------
(* The session stops waiting: shutdown, disconnect or a failed progress frame. *)
Cancel(w) ==
  /\ call[w].pc # "idle" /\ ~call[w].cancelled
  /\ setCall(w, [call[w] EXCEPT !.cancelled = TRUE])
  /\ UNCHANGED <<now, requestSlots>>

due(w) ==
  \/ call[w].pc # "idle" /\ ctxDone(w)
  \/ call[w].pc = "queue" /\ requestSlots < MaxConcurrent
  \/ call[w].pc = "prepare" /\ now >= call[w].since + MaxExtraction
  \/ call[w].pc = "request" /\ timedOut(w)
  \/ call[w].pc = "pause" /\ now >= call[w].since + call[w].pause

Tick ==
  /\ now < MaxTime
  /\ \A w \in Workers : ~due(w)
  /\ now' = now + 1
  /\ UNCHANGED <<requestSlots, call>>

AnalysisInit == now = 0 /\ requestSlots = 0 /\ call = [w \in Workers |-> Idle]

(* What the worker does by itself, and what the endpoint does. *)
callStep(w) ==
  acquire(w) \/ queueExpires(w) \/ prepared(w) \/ attemptExpired(w) \/ retryNow(w)
    \/ pauseExpires(w)
endpoint(w) == answered(w) \/ attemptFailed(w)

(* The clock has reached its bound and no evaluation is left. *)
Finished ==
  /\ now + MaximumAnalysisDuration > MaxTime /\ \A w \in Workers : call[w].pc = "idle"
  /\ UNCHANGED analysisVars

AnalysisNext ==
  \/ Tick \/ Finished
  \/ \E w \in Workers : Evaluate(w) \/ Cancel(w) \/ callStep(w) \/ endpoint(w)

AnalysisSpec == AnalysisInit /\ [][AnalysisNext]_analysisVars

-----------------------------------------------------------------------------
(* Every variable has its type. *)
AnalysisTypeOK ==
  now \in 0 .. MaxTime /\ requestSlots \in 0 .. MaxConcurrent /\ call \in [Workers -> Call]

(* A slot is held exactly by the evaluations past the queue, whatever way they
   end: a failing endpoint never shrinks ai.max_concurrent. *)
RequestSlotsAccounted ==
  requestSlots = Cardinality({w \in Workers : call[w].pc \in {"prepare", "request", "pause"}})

(* Every token an endpoint reported is charged, failed attempts and failed
   evaluations included, and the sum never wraps around. *)
UsageCharged ==
  \A w \in Workers : call[w].usage = IF call[w].spent > MaxTokens THEN MaxTokens ELSE call[w].spent

(* MaximumAnalysisDuration really is "the worst-case duration of all configured
   endpoint attempts and accepted Retry-After delays" (ai/client.go:341): the
   deadline only cuts off an evaluation that had to queue or prepare first, that
   its session gave up, or whose last attempt has had its full timeout. *)
AttemptsFit ==
  \A w \in Workers :
    call[w].pc \in {"request", "pause"} /\ call'[w].result = "context" /\ call[w].result = "none"
      => \/ call[w].asked > call[w].start \/ call[w].cancelled
         \/ call[w].attempt = Retries /\ timedOut(w)

(* A retryable failure is reported only after every configured attempt. *)
AllAttemptsMade ==
  \A w \in Workers : call[w].result = "retryable" => call[w].attempt = Retries

(* Slots, attempts and tokens are accounted for, however an evaluation ends. *)
Accounted == AnalysisTypeOK /\ RequestSlotsAccounted /\ AllAttemptsMade /\ UsageCharged

(* Slots, attempts and tokens are accounted for (analyze, evaluate), and the
   deadline leaves room for every configured attempt. *)
AnalysisAccounted ==
  [][Accounted' /\ AttemptsFit]_analysisVars

=============================================================================
