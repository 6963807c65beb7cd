-------------------------- MODULE ServerLifecycle --------------------------
(***************************************************************************)
(* The life of a serving process: run() of cmd/milterguard/main.go around  *)
(* NewServer, Serve and Close of internal/milter/server.go, and the two    *)
(* maintenance goroutines of internal/milter/maintenance.go.               *)
(*                                                                         *)
(* Serve admits connections while a session slot is free, each to a        *)
(* goroutine of its own that may start a worker for authentication or      *)
(* analysis; shutdown cancels one context and then relies on the wait      *)
(* group, on maintenanceDone and on the order of deferred calls to close   *)
(* the database after its last user.  Every one of these goroutines moves  *)
(* on its own here.                                                        *)
(***************************************************************************)
EXTENDS Integers, FiniteSets

CONSTANTS
  Conns,          \* connections an MTA may hold open at a time
  Allowed,        \* those whose peer address milter.allowed_peer_ips admits
  MaxConnections, \* milter.max_connections, the capacity of sessionSlots
  Periodic,       \* whether persistence.cleanup_interval is positive
  MaxStarts,      \* how many processes are started (a bound of the model)
  MaxWorkers      \* how many workers a message starts: authentication, analysis

ASSUME ConnsAssumption == IsFiniteSet(Conns) /\ Allowed \subseteq Conns
ASSUME CapacityAssumption == MaxConnections \in Nat \ {0}
ASSUME PeriodicAssumption == Periodic \in BOOLEAN
ASSUME StartsAssumption == MaxStarts \in Nat \ {0}
ASSUME WorkersAssumption == MaxWorkers \in Nat

VARIABLES
  main,      \* where the main goroutine is
  start,     \* which process this is, 1..MaxStarts
  signalled, \* SIGINT or SIGTERM has cancelled the context of run()
  cancelled, \* sessionCtx is done
  listening, \* the listener is open
  fatal,     \* Serve ended with an error of its own
  code,      \* the exit status of run()
  slots,     \* tokens in the channel sessionSlots
  wg,        \* the counter of the wait group
  session,   \* per connection, where its session goroutine is
  ran,       \* per connection, workers run for the current message
  open,      \* per connection, whether the socket is open
  worker,    \* per connection, the state of the session's worker
  daily,     \* the goroutine of startDailyCleanupLoop
  periodic,  \* the maintenance goroutine of Serve
  database,  \* "none", "open" or "closed"
  status     \* the process the service_status row names, 0 for no row

process == <<main, start, signalled, cancelled, listening, fatal, code>>
conns == <<slots, session, ran, open, worker>>
maintenance == <<daily, periodic>>
vars == <<process, conns, wg, maintenance, database, status>>

MainStates == {"down", "new", "startup", "status", "daily", "accept", "retry",
               "drain", "stopping", "clear", "unlisten", "close"}
SessionStates == {"away", "pending", "read", "own", "select", "await", "left",
                  "released"}

Goroutines == {c \in Conns : session[c] \in {"read", "own", "select", "await",
                                             "left", "released"}}
Holders == {c \in Conns : session[c] \in {"read", "own", "select", "await", "left"}}

(* What a process starts from, and what its end leaves. *)
NoGoroutines ==
  /\ signalled' = FALSE /\ cancelled' = FALSE /\ listening' = FALSE /\ fatal' = FALSE
  /\ slots' = 0 /\ wg' = 0
  /\ session' = [c \in Conns |-> "away"]
  /\ ran' = [c \in Conns |-> 0]
  /\ open' = [c \in Conns |-> FALSE]
  /\ worker' = [c \in Conns |-> "none"]
  /\ daily' = "off" /\ periodic' = "off"

-----------------------------------------------------------------------------
(* run(): build the server, open the listener. *)

(* A new process has none of the goroutines of the one before it; opening the
   database, the reply token and the verifier may each fail. *)
NewServer ==
  /\ main = "down"
  /\ start < MaxStarts
  /\ start' = start + 1
  /\ database' \in {"none", "open"}
  /\ \/ main' = "new" /\ code' = 0
     \/ main' = "close" /\ code' = 2
  /\ NoGoroutines
  /\ UNCHANGED status

listen ==
  /\ main = "new"
  /\ \/ main' = "startup" /\ listening' = TRUE /\ UNCHANGED code
     \/ main' = "close" /\ code' = 1 /\ UNCHANGED listening
  /\ UNCHANGED <<start, signalled, cancelled, fatal, conns, wg, maintenance, database,
                 status>>

(* NotifyContext: sessionCtx is derived from it, so both are done. *)
Signal ==
  /\ main \notin {"down", "close"}
  /\ ~signalled
  /\ signalled' = TRUE
  /\ cancelled' = TRUE
  /\ UNCHANGED <<main, start, listening, fatal, code, conns, wg, maintenance, database,
                 status>>

-----------------------------------------------------------------------------
(* Serve, up to its accept loop. *)

startupCleanup ==
  /\ main = "startup"
  /\ main' = "status"
  /\ UNCHANGED <<start, signalled, cancelled, listening, fatal, code, conns, wg,
                 maintenance, database, status>>

setServiceStatus ==
  /\ main = "status"
  /\ main' = "daily"
  /\ \/ database = "open" /\ status' = start
     \/ UNCHANGED status
  /\ UNCHANGED <<start, signalled, cancelled, listening, fatal, code, conns, wg,
                 maintenance, database>>

(* startDailyCleanup runs once itself, then starts its loop; the timer
   goroutine is outside the wait group. *)
startMaintenance ==
  /\ main = "daily"
  /\ main' = "accept"
  /\ daily' = "idle"
  /\ wg' = wg + 1
  /\ periodic' = IF Periodic THEN "idle" ELSE periodic
  /\ UNCHANGED <<start, signalled, cancelled, listening, fatal, code, conns, database,
                 status>>

closeListenerOnReturn ==
  /\ main \in {"drain", "stopping", "clear", "unlisten", "close"}
  /\ cancelled /\ listening
  /\ listening' = FALSE
  /\ session' = [c \in Conns |-> IF session[c] = "pending" THEN "away" ELSE session[c]]
  /\ UNCHANGED <<main, start, signalled, cancelled, fatal, code, slots, ran, open, worker,
                 wg, maintenance, database, status>>

(* The goroutine that closes the listener once sessionCtx is done. *)
closeListener ==
  /\ main \in {"accept", "retry", "drain", "stopping", "clear", "unlisten", "close"}
  /\ cancelled /\ listening
  /\ listening' = FALSE
  /\ session' = [c \in Conns |-> IF session[c] = "pending" THEN "away" ELSE session[c]]
  /\ UNCHANGED <<main, start, signalled, cancelled, fatal, code, slots, ran, open, worker,
                 wg, maintenance, database, status>>

-----------------------------------------------------------------------------
(* The accept loop. *)

Connect(c) ==
  /\ listening /\ session[c] = "away"
  /\ session' = [session EXCEPT ![c] = "pending"]
  /\ open' = [open EXCEPT ![c] = TRUE]
  /\ UNCHANGED <<process, slots, ran, worker, wg, maintenance, database, status>>

peerAllowed(c) == c \in Allowed

slotFree == slots < MaxConnections

Turned(c) ==
  /\ session' = [session EXCEPT ![c] = "away"]
  /\ open' = [open EXCEPT ![c] = FALSE]
  /\ UNCHANGED <<slots, wg>>

addSession(c) ==
  /\ slots' = slots + 1
  /\ wg' = wg + 1

Admitted(c) ==
  /\ addSession(c)
  /\ session' = [session EXCEPT ![c] = "read"]
  /\ UNCHANGED open

(* One turn of the loop with a connection.  Accept may still return one after
   the context is done, until the listener is closed. *)
Accept(c) ==
  /\ main = "accept" /\ listening /\ session[c] = "pending"
  /\ IF peerAllowed(c) /\ slotFree THEN Admitted(c) ELSE Turned(c)
  /\ UNCHANGED <<process, ran, worker, maintenance, database, status>>

returnFromLoop(err) ==
  /\ main' = "drain"
  /\ cancelled' = TRUE
  /\ fatal' = (err = "listener")
  /\ UNCHANGED <<start, signalled, listening, code, conns, wg, maintenance, database,
                 status>>

acceptErr == IF cancelled THEN "context" ELSE "listener"

AcceptClosed ==
  /\ main = "accept" /\ ~listening
  /\ returnFromLoop(acceptErr)

(* acceptConnection: ctx.Err() wins over the listener's error, a temporary
   error waits, any other ends Serve. *)
AcceptError ==
  /\ main = "accept" /\ listening
  /\ \/ returnFromLoop(acceptErr)
     \/ /\ ~cancelled
        /\ main' = "retry"
        /\ UNCHANGED <<start, signalled, cancelled, listening, fatal, code, conns, wg,
                       maintenance, database, status>>

Retry ==
  /\ main = "retry"
  /\ \/ cancelled /\ returnFromLoop("context")
     \/ /\ main' = "accept"
        /\ UNCHANGED <<start, signalled, cancelled, listening, fatal, code, conns, wg,
                       maintenance, database, status>>

-----------------------------------------------------------------------------
(* A session goroutine: read commands, work on them, run at most MaxWorkers
   workers for a message (authentication, then analysis). *)

goTo(c, place) == session' = [session EXCEPT ![c] = place]

(* context.AfterFunc in session.run; the peer may hang up as well. *)
CloseSocket(c) ==
  /\ c \in Goroutines /\ open[c] /\ cancelled
  /\ open' = [open EXCEPT ![c] = FALSE]
  /\ UNCHANGED <<process, slots, session, ran, worker, wg, maintenance, database, status>>

HangUp(c) ==
  /\ c \in Goroutines /\ open[c]
  /\ open' = [open EXCEPT ![c] = FALSE]
  /\ UNCHANGED <<process, slots, session, ran, worker, wg, maintenance, database, status>>

readFrame(c) ==
  /\ session[c] = "read"
  /\ \/ open[c] /\ goTo(c, "own")
     \/ ~open[c] /\ goTo(c, "left")
  /\ ran' = [ran EXCEPT ![c] = 0]
  /\ UNCHANGED <<process, slots, open, worker, wg, maintenance, database, status>>

(* handleCommand: its result keeps the session or ends it; a panic is
   recovered by handle and ends it too. *)
handleCommand(c) ==
  /\ session[c] = "own"
  /\ \E place \in {"read", "left"} : goTo(c, place)
  /\ UNCHANGED <<process, slots, ran, open, worker, wg, maintenance, database, status>>

startWorker(c) ==
  /\ session[c] = "own" /\ ran[c] < MaxWorkers
  /\ goTo(c, "select")
  /\ ran' = [ran EXCEPT ![c] = @ + 1]
  /\ worker' = [worker EXCEPT ![c] = "running"]
  /\ UNCHANGED <<process, slots, open, wg, maintenance, database, status>>

(* The worker always sends one result: from the provider, or from its
   recover. *)
finishWorker(c) ==
  /\ worker[c] = "running"
  /\ worker' = [worker EXCEPT ![c] = "sent"]
  /\ UNCHANGED <<process, slots, session, ran, open, wg, maintenance, database, status>>

(* ctx.Done or a failed progress frame: cancelWorker, then receive. *)
interruptUnwaited(c) ==
  /\ session[c] = "select"
  /\ cancelled \/ ~open[c]
  /\ goTo(c, "own")
  /\ UNCHANGED <<process, slots, ran, open, worker, wg, maintenance, database, status>>

interrupt(c) ==
  /\ session[c] = "select"
  /\ cancelled \/ ~open[c]
  /\ goTo(c, "await")
  /\ UNCHANGED <<process, slots, ran, open, worker, wg, maintenance, database, status>>

receiveResult(c) ==
  /\ session[c] \in {"select", "await"}
  /\ worker[c] = "sent"
  /\ goTo(c, "own")
  /\ worker' = [worker EXCEPT ![c] = "none"]
  /\ UNCHANGED <<process, slots, ran, open, wg, maintenance, database, status>>

(* The deferred calls of the session goroutine, last in first out. *)
releaseSlot(c) ==
  /\ session[c] = "left"
  /\ goTo(c, "released")
  /\ open' = [open EXCEPT ![c] = FALSE]
  /\ slots' = slots - 1
  /\ UNCHANGED <<process, ran, worker, wg, maintenance, database, status>>

done(c) ==
  /\ session[c] = "released"
  /\ goTo(c, "away")
  /\ wg' = wg - 1
  /\ UNCHANGED <<process, slots, ran, open, worker, maintenance, database, status>>

-----------------------------------------------------------------------------
(* Maintenance goroutines: a tick starts a cleanup, a panic in it is contained
   by runMaintenance, a done context ends the loop. *)

dailyCleanup ==
  /\ \/ daily = "idle" /\ daily' = "cleaning"
     \/ daily = "cleaning" /\ daily' = "idle"
  /\ UNCHANGED <<process, conns, wg, periodic, database, status>>

dailyStop ==
  /\ daily = "idle" /\ cancelled
  /\ daily' = "done"
  /\ wg' = wg - 1
  /\ UNCHANGED <<process, conns, periodic, database, status>>

stopped == cancelled \/ main = "stopping"

periodicCleanup ==
  /\ \/ periodic = "idle" /\ periodic' = "cleaning"
     \/ periodic = "cleaning" /\ periodic' = "idle"
  /\ UNCHANGED <<process, conns, wg, daily, database, status>>

periodicStop ==
  /\ periodic = "idle" /\ stopped
  /\ periodic' = "done"
  /\ UNCHANGED <<process, conns, wg, daily, database, status>>

-----------------------------------------------------------------------------
(* Shutdown: wg.Wait, then the deferred calls of Serve and of run(). *)

waited == wg = 0

Wait ==
  /\ main = "drain" /\ waited
  /\ main' = "stopping"
  /\ UNCHANGED <<start, signalled, cancelled, listening, fatal, code, conns, wg,
                 maintenance, database, status>>

maintenanceNotWaited == TRUE
maintenanceDone == periodic \in {"off", "done"}

stopMaintenance ==
  /\ main = "stopping" /\ maintenanceDone
  /\ main' = "clear"
  /\ UNCHANGED <<start, signalled, cancelled, listening, fatal, code, conns, wg,
                 maintenance, database, status>>

clearAtReturn ==
  /\ main \in {"drain", "clear"}
  /\ main' = IF main = "clear" THEN "unlisten" ELSE main
  /\ \/ database = "open" /\ status' = 0
     \/ UNCHANGED status
  /\ UNCHANGED <<start, signalled, cancelled, listening, fatal, code, conns, wg,
                 maintenance, database>>

clearServiceStatus ==
  /\ main = "clear"
  /\ main' = "unlisten"
  /\ \/ database = "open" /\ status' = 0
     \/ UNCHANGED status
  /\ UNCHANGED <<start, signalled, cancelled, listening, fatal, code, conns, wg,
                 maintenance, database>>

exitCode == IF fatal THEN 1 ELSE 0

listenerCleanup ==
  /\ main = "unlisten"
  /\ main' = "close"
  /\ listening' = FALSE
  /\ code' = exitCode
  /\ UNCHANGED <<start, signalled, cancelled, fatal, conns, wg, maintenance, database,
                 status>>

(* Close, and the end of the process with every goroutine still in it. *)
Close ==
  /\ main = "close"
  /\ main' = "down"
  /\ database' = IF database = "open" THEN "closed" ELSE database
  /\ UNCHANGED <<start, signalled, cancelled, listening, fatal, code, conns, wg,
                 maintenance, status>>

(* The process is killed, or the machine stops. *)
Crash ==
  /\ main' = "down"
  /\ database' = "none"
  /\ NoGoroutines
  /\ UNCHANGED <<start, code, status>>

(* The bound on processes is reached. *)
Stopped ==
  /\ main = "down" /\ start = MaxStarts
  /\ UNCHANGED vars

-----------------------------------------------------------------------------
Init ==
  /\ main = "down" /\ start = 0 /\ code = 0
  /\ signalled = FALSE /\ cancelled = FALSE /\ listening = FALSE /\ fatal = FALSE
  /\ slots = 0 /\ wg = 0
  /\ session = [c \in Conns |-> "away"]
  /\ ran = [c \in Conns |-> 0]
  /\ open = [c \in Conns |-> FALSE]
  /\ worker = [c \in Conns |-> "none"]
  /\ daily = "off" /\ periodic = "off"
  /\ database = "none" /\ status = 0

mainSteps ==
  \/ listen \/ startupCleanup \/ setServiceStatus \/ startMaintenance
  \/ (\E c \in Conns : Accept(c)) \/ AcceptClosed \/ Retry
  \/ Wait \/ stopMaintenance \/ clearServiceStatus \/ listenerCleanup \/ Close

sessionSteps(c) ==
  \/ readFrame(c) \/ handleCommand(c) \/ startWorker(c) \/ interrupt(c)
  \/ receiveResult(c) \/ releaseSlot(c) \/ done(c)

Running ==
  \/ mainSteps
  \/ Signal \/ AcceptError \/ closeListener
  \/ \E c \in Conns : Connect(c) \/ HangUp(c) \/ CloseSocket(c) \/ finishWorker(c)
                      \/ sessionSteps(c)
  \/ dailyCleanup \/ dailyStop \/ periodicCleanup \/ periodicStop
  \/ Crash

Next == NewServer \/ (main # "down" /\ Running) \/ Stopped

(* Goroutines are scheduled; a provider or a cleanup returns once its context
   is done or its time is up; select does not prefer the ticker for ever. *)
Fairness ==
  /\ WF_vars(main # "down" /\ mainSteps)
  /\ WF_vars(main # "down" /\ closeListener)
  /\ \A c \in Conns : /\ WF_vars(main # "down" /\ CloseSocket(c))
                       /\ WF_vars(main # "down" /\ finishWorker(c))
                       /\ WF_vars(main # "down" /\ sessionSteps(c))
  /\ WF_vars(main # "down" /\ daily = "cleaning" /\ dailyCleanup)
  /\ WF_vars(main # "down" /\ periodic = "cleaning" /\ periodicCleanup)
  /\ SF_vars(main # "down" /\ dailyStop)
  /\ SF_vars(main # "down" /\ periodicStop)

Spec == Init /\ [][Next]_vars
FairSpec == Spec /\ Fairness

-----------------------------------------------------------------------------
(* Every variable has its type. *)
TypeOK ==
  /\ main \in MainStates /\ start \in 0 .. MaxStarts /\ code \in 0 .. 2
  /\ signalled \in BOOLEAN /\ cancelled \in BOOLEAN /\ listening \in BOOLEAN
  /\ fatal \in BOOLEAN
  /\ slots \in 0 .. MaxConnections /\ wg \in Nat
  /\ session \in [Conns -> SessionStates] /\ ran \in [Conns -> 0 .. MaxWorkers]
  /\ open \in [Conns -> BOOLEAN] /\ worker \in [Conns -> {"none", "running", "sent"}]
  /\ daily \in {"off", "idle", "cleaning", "done"}
  /\ periodic \in {"off", "idle", "cleaning", "done"}
  /\ database \in {"none", "open", "closed"} /\ status \in 0 .. MaxStarts

workersIdle == \A c \in Conns : worker[c] # "running"

(* A slot is held by exactly the connections whose session has not released
   it, however the session ended: no capacity is lost or counted twice. *)
SlotsAccounted == slots = Cardinality(Holders)

(* "Serve ... waits for active sessions before returning" (server.go:82): past
   wg.Wait no session goroutine exists and none has left a worker behind. *)
ServeWaitsForSessions ==
  main \in {"stopping", "clear", "unlisten", "close"} => Goroutines = {} /\ workersIdle

(* Close comes "only after Serve has returned" (server.go:58): once the
   database is closed, no session, worker or maintenance goroutine is left to
   use it. *)
DatabaseOutlivesUsers ==
  database = "closed" =>
    /\ Goroutines = {} /\ workersIdle
    /\ daily \in {"off", "done"} /\ periodic \in {"off", "done"}

(* run() reports success only for a requested stop, and failure of the
   listener whenever that is what ended Serve. *)
ExitStatus == main = "close" /\ ~signalled => code # 0

(* The service_status row of a running server is cleared only after its last
   session: ACTIVITY never reports a stopped server that still filters. *)
StatusOutlivesSessions ==
  [][main # "down" /\ status = start /\ status' # status => Goroutines = {} /\ workersIdle]_vars

(* Once the context is done, by a signal or by a listener failure, the process
   ends: no goroutine waits for ever for another. *)
ShutdownCompletes == cancelled ~> main = "down"

(* Serve accounts for what it started: slots, the wait group's goroutines and
   the status it exits with. *)
Consistent == TypeOK /\ SlotsAccounted /\ ServeWaitsForSessions /\ ExitStatus

\* What a session or a maintenance task uses outlives it (Serve, main): slots and
\* goroutines are accounted for, and the database is closed last.
ServerSound == Consistent /\ DatabaseOutlivesUsers

=============================================================================
