----------------------- MODULE ServerLifecycleProofs -----------------------
(***************************************************************************)
(* Proofs about ServerLifecycle: whatever connections, signals, listener   *)
(* failures and crashes do, Serve and Close account for every goroutine    *)
(* they started, and the database and the status row are given up last.    *)
(***************************************************************************)
EXTENDS ServerLifecycle, FiniteSetTheorems, TLAPS

\* What wg counts besides the sessions: the loop of the daily cleanup.
DailyCount == IF daily \in {"idle", "cleaning"} THEN 1 ELSE 0

\* The slots and the wait group count what they stand for.
Counted == SlotsAccounted /\ wg = Cardinality(Goroutines) + DailyCount

\* A worker runs only while its session waits for it.
Attended == \A c \in Conns : worker[c] # "none" => session[c] \in {"select", "await"}

\* Which goroutines exist where the main goroutine is.
Ordered ==
  /\ main \in {"new", "startup", "status", "daily"} =>
       Goroutines = {} /\ daily = "off" /\ periodic = "off"
  /\ main \in {"stopping", "clear", "unlisten", "close"} =>
       Goroutines = {} /\ daily \in {"off", "done"}
  /\ main \in {"clear", "unlisten", "close"} => periodic \in {"off", "done"}
  /\ database = "closed" =>
       /\ main = "down" /\ Goroutines = {}
       /\ daily \in {"off", "done"} /\ periodic \in {"off", "done"}

\* Why Serve returns.
Explained ==
  /\ main \in {"new", "startup", "status", "daily", "accept", "retry"} =>
       (cancelled => signalled)
  /\ main \in {"drain", "stopping", "clear", "unlisten"} => signalled \/ fatal
  /\ ExitStatus

\* The two halves of TypeOK: flags, and everything else.
Flags ==
  /\ signalled \in BOOLEAN /\ cancelled \in BOOLEAN /\ listening \in BOOLEAN
  /\ fatal \in BOOLEAN /\ open \in [Conns -> BOOLEAN]

Places ==
  /\ main \in MainStates /\ start \in 0 .. MaxStarts /\ code \in 0 .. 2
  /\ slots \in 0 .. MaxConnections /\ wg \in Nat
  /\ session \in [Conns -> SessionStates] /\ ran \in [Conns -> 0 .. MaxWorkers]
  /\ worker \in [Conns -> {"none", "running", "sent"}]
  /\ daily \in {"off", "idle", "cleaning", "done"}
  /\ periodic \in {"off", "idle", "cleaning", "done"}
  /\ database \in {"none", "open", "closed"} /\ status \in 0 .. MaxStarts

Inv == TypeOK /\ Counted /\ Attended /\ Ordered /\ Explained

USE ConnsAssumption, CapacityAssumption, PeriodicAssumption, StartsAssumption,
    WorkersAssumption

-----------------------------------------------------------------------------
\* The sessions that hold a slot and the session goroutines are finitely many.
LEMMA Finite ==
  /\ IsFiniteSet(Holders) /\ Cardinality(Holders) \in Nat
  /\ IsFiniteSet(Goroutines) /\ Cardinality(Goroutines) \in Nat
<1>1. Holders \subseteq Conns /\ Goroutines \subseteq Conns
  BY DEF Holders, Goroutines
<1>2. IsFiniteSet(Holders) /\ IsFiniteSet(Goroutines)
  BY <1>1, FS_Subset
<1> QED
  BY <1>2, FS_CardinalityType

\* A step that leaves both sets and all counters alone leaves the counts right.
LEMMA SameCount ==
  ASSUME Counted, Holders' = Holders, Goroutines' = Goroutines,
         slots' = slots, wg' = wg, DailyCount' = DailyCount
  PROVE  Counted'
BY DEF Counted, SlotsAccounted

\* A session that moves between two places of the same kind changes neither set.
LEMMA Moved ==
  ASSUME TypeOK, NEW c \in Conns, NEW place \in SessionStates, goTo(c, place),
         \/ /\ session[c] \in {"read", "own", "select", "await", "left"}
            /\ place \in {"read", "own", "select", "await", "left"}
         \/ session[c] \in {"away", "pending"} /\ place \in {"away", "pending"}
  PROVE  Holders' = Holders /\ Goroutines' = Goroutines
BY DEF TypeOK, goTo, Holders, Goroutines

\* No goroutine is left when the process starts or dies.
LEMMA Emptied ==
  ASSUME NoGoroutines
  PROVE  Holders' = {} /\ Goroutines' = {} /\ Counted' /\ Attended'
<1>1. Holders' = {} /\ Goroutines' = {}
  BY DEF NoGoroutines, Holders, Goroutines
<1>2. Cardinality({}) = 0
  BY FS_EmptySet
<1>3. DailyCount' = 0
  BY DEF NoGoroutines, DailyCount
<1>4. Counted'
  BY <1>1, <1>2, <1>3 DEF NoGoroutines, Counted, SlotsAccounted
<1>5. Attended'
  BY DEF NoGoroutines, Attended
<1> QED
  BY <1>1, <1>4, <1>5

-----------------------------------------------------------------------------
\* The steps of the process and of maintenance: they leave the sessions alone.
QuietStep ==
  \/ listen \/ startupCleanup \/ setServiceStatus \/ startMaintenance
  \/ AcceptClosed \/ Retry \/ Wait \/ stopMaintenance \/ clearServiceStatus
  \/ listenerCleanup \/ Close \/ Signal \/ AcceptError
  \/ dailyCleanup \/ dailyStop \/ periodicCleanup \/ periodicStop

\* Steps of one connection.
ConnStep(c) ==
  \/ Accept(c) \/ Connect(c) \/ HangUp(c) \/ CloseSocket(c) \/ finishWorker(c)
  \/ sessionSteps(c)

\* The kinds of steps there are.
LEMMA Kinds ==
  ASSUME [Next]_vars
  PROVE  \/ NewServer \/ (main # "down" /\ Crash) \/ UNCHANGED vars
         \/ main # "down" /\ closeListener
         \/ main # "down" /\ QuietStep
         \/ main # "down" /\ \E c \in Conns : ConnStep(c)
BY DEF Next, Running, mainSteps, Stopped, QuietStep, ConnStep

-----------------------------------------------------------------------------
\* A step keeps the types; the counts say that no counter goes below zero.
LEMMA TypesKept ==
  ASSUME TypeOK, Counted, [Next]_vars
  PROVE  TypeOK'
<1>1. CASE NewServer
  <2>1. Flags'
    BY <1>1 DEF NewServer, NoGoroutines, Flags
  <2>2. Places'
    BY <1>1 DEF NewServer, NoGoroutines, TypeOK, Places, MainStates, SessionStates
  <2> QED
    BY <2>1, <2>2 DEF TypeOK, Flags, Places
<1>2. CASE Crash
  <2>1. Flags'
    BY <1>2 DEF Crash, NoGoroutines, Flags
  <2>2. Places'
    BY <1>2 DEF Crash, NoGoroutines, TypeOK, Places, MainStates, SessionStates
  <2> QED
    BY <2>1, <2>2 DEF TypeOK, Flags, Places
<1>3. CASE UNCHANGED vars
  BY <1>3 DEF vars, process, conns, maintenance, TypeOK
<1>4. CASE closeListener
  BY <1>4 DEF closeListener, TypeOK, SessionStates, maintenance
<1>5. CASE QuietStep
  <2>1. daily \in {"idle", "cleaning"} => wg \in Nat \ {0}
    BY Finite DEF Counted, DailyCount
  <2>2. CASE listen \/ startupCleanup \/ setServiceStatus \/ startMaintenance
    <3>1. Flags'
      BY <2>2 DEF listen, startupCleanup, setServiceStatus, startMaintenance, TypeOK, Flags,
                  conns
    <3>2. Places'
      BY <2>2 DEF listen, startupCleanup, setServiceStatus, startMaintenance, TypeOK, Places,
                  MainStates, conns, maintenance
    <3> QED
      BY <3>1, <3>2 DEF TypeOK, Flags, Places
  <2>3. CASE AcceptClosed \/ Retry \/ AcceptError \/ Signal
    <3>1. Flags'
      BY <2>3 DEF AcceptClosed, Retry, AcceptError, Signal, returnFromLoop, TypeOK, Flags,
                  conns
    <3>2. Places'
      BY <2>3 DEF AcceptClosed, Retry, AcceptError, Signal, returnFromLoop, TypeOK, Places,
                  MainStates, conns, maintenance
    <3> QED
      BY <3>1, <3>2 DEF TypeOK, Flags, Places
  <2>4. CASE Wait \/ stopMaintenance \/ clearServiceStatus \/ listenerCleanup \/ Close
    <3>1. Flags'
      BY <2>4 DEF Wait, stopMaintenance, clearServiceStatus, listenerCleanup, Close, TypeOK,
                  Flags, conns
    <3>2. Places'
      BY <2>4 DEF Wait, stopMaintenance, clearServiceStatus, listenerCleanup, Close, exitCode,
                  TypeOK, Places, MainStates, conns, maintenance
    <3> QED
      BY <3>1, <3>2 DEF TypeOK, Flags, Places
  <2>5. CASE dailyCleanup \/ dailyStop \/ periodicCleanup \/ periodicStop
    BY <2>1, <2>5 DEF dailyCleanup, dailyStop, periodicCleanup, periodicStop, TypeOK,
                      process, conns
  <2> QED
    BY <1>5, <2>2, <2>3, <2>4, <2>5 DEF QuietStep
<1>6. ASSUME NEW c \in Conns, ConnStep(c)
      PROVE  TypeOK'
  <2>1. session[c] = "left" => slots \in 1 .. MaxConnections
    <3>1. SUFFICES ASSUME session[c] = "left" PROVE slots # 0
      BY DEF TypeOK
    <3>2. c \in Holders
      BY <3>1 DEF Holders
    <3> QED
      BY <3>2, Finite, FS_EmptySet DEF Counted, SlotsAccounted
  <2>2. session[c] = "released" => wg \in Nat \ {0}
    <3>1. SUFFICES ASSUME session[c] = "released" PROVE Cardinality(Goroutines) # 0
      BY Finite DEF Counted, DailyCount
    <3>2. c \in Goroutines
      BY <3>1 DEF Goroutines
    <3> QED
      BY <3>2, Finite, FS_EmptySet
  <2>3. CASE Accept(c) \/ Connect(c)
    <3>1. Flags'
      BY <2>3 DEF Accept, Connect, Admitted, Turned, TypeOK, Flags, process
    <3>2. Places'
      BY <2>3 DEF Accept, Connect, Admitted, Turned, addSession, slotFree, TypeOK, Places,
                  SessionStates, process, maintenance
    <3> QED
      BY <3>1, <3>2 DEF TypeOK, Flags, Places
  <2>4. CASE HangUp(c) \/ CloseSocket(c) \/ finishWorker(c)
    BY <2>4 DEF HangUp, CloseSocket, finishWorker, TypeOK, process, maintenance
  <2>5. CASE readFrame(c) \/ handleCommand(c) \/ startWorker(c)
    BY <2>5 DEF readFrame, handleCommand, startWorker, goTo, TypeOK, SessionStates,
                process, maintenance
  <2>6. CASE interrupt(c) \/ receiveResult(c)
    BY <2>6 DEF interrupt, receiveResult, goTo, TypeOK, SessionStates, process, maintenance
  <2>7. CASE releaseSlot(c) \/ done(c)
    <3>1. Flags'
      BY <2>7 DEF releaseSlot, done, TypeOK, Flags, process
    <3>2. Places'
      BY <2>1, <2>2, <2>7 DEF releaseSlot, done, goTo, TypeOK, Places, SessionStates, process,
                              maintenance
    <3> QED
      BY <3>1, <3>2 DEF TypeOK, Flags, Places
  <2> QED
    BY <1>6, <2>3, <2>4, <2>5, <2>6, <2>7 DEF ConnStep, sessionSteps
<1> QED
  BY <1>1, <1>2, <1>3, <1>4, <1>5, <1>6, Kinds

-----------------------------------------------------------------------------
\* An admitted connection takes one slot and joins the wait group once.
LEMMA Joined ==
  ASSUME TypeOK, Counted, NEW c \in Conns, session[c] = "pending",
         Admitted(c), daily' = daily
  PROVE  Counted'
<1>1. Holders' = Holders \cup {c} /\ c \notin Holders
  BY DEF TypeOK, Admitted, Holders
<1>2. Goroutines' = Goroutines \cup {c} /\ c \notin Goroutines
  BY DEF TypeOK, Admitted, Goroutines
<1>3. /\ Cardinality(Holders') = Cardinality(Holders) + 1
      /\ Cardinality(Goroutines') = Cardinality(Goroutines) + 1
  BY <1>1, <1>2, Finite, FS_AddElement
<1>4. DailyCount' = DailyCount /\ DailyCount \in Nat
  BY DEF DailyCount
<1> QED
  BY <1>3, <1>4, Finite DEF Counted, SlotsAccounted, Admitted, addSession, TypeOK

\* A session gives back one slot and stays in the wait group.
LEMMA Released ==
  ASSUME TypeOK, Counted, NEW c \in Conns, releaseSlot(c)
  PROVE  Counted' /\ Goroutines' = Goroutines
<1>1. Holders' = Holders \ {c} /\ c \in Holders
  BY DEF TypeOK, releaseSlot, goTo, Holders
<1>2. Goroutines' = Goroutines
  BY DEF TypeOK, releaseSlot, goTo, Goroutines
<1>3. Cardinality(Holders') = Cardinality(Holders) - 1
  BY <1>1, Finite, FS_RemoveElement
<1>4. DailyCount' = DailyCount
  BY DEF DailyCount, releaseSlot, maintenance
<1> QED
  BY <1>2, <1>3, <1>4, Finite DEF Counted, SlotsAccounted, releaseSlot

\* A session leaves the wait group once, after its slot.
LEMMA Left ==
  ASSUME TypeOK, Counted, NEW c \in Conns, done(c)
  PROVE  Counted' /\ Goroutines' = Goroutines \ {c}
<1>1. Goroutines' = Goroutines \ {c} /\ c \in Goroutines
  BY DEF TypeOK, done, goTo, Goroutines
<1>2. Holders' = Holders
  BY DEF TypeOK, done, goTo, Holders
<1>3. Cardinality(Goroutines') = Cardinality(Goroutines) - 1
  BY <1>1, Finite, FS_RemoveElement
<1>4. DailyCount' = DailyCount /\ DailyCount \in Nat
  BY DEF DailyCount, done, maintenance
<1> QED
  BY <1>1, <1>2, <1>3, <1>4, Finite DEF Counted, SlotsAccounted, done

\* A connection that is not admitted, and every other step of a session.
LEMMA Uncounted ==
  ASSUME TypeOK, NEW c \in Conns, ConnStep(c),
         ~releaseSlot(c), ~done(c), ~(Accept(c) /\ Admitted(c))
  PROVE  /\ Holders' = Holders /\ Goroutines' = Goroutines
         /\ slots' = slots /\ wg' = wg /\ daily' = daily
<1>1. CASE Accept(c)
  BY <1>1 DEF Accept, Turned, TypeOK, Holders, Goroutines, maintenance
<1>2. CASE Connect(c)
  BY <1>2 DEF Connect, TypeOK, Holders, Goroutines, maintenance
<1>3. CASE HangUp(c) \/ CloseSocket(c) \/ finishWorker(c)
  BY <1>3 DEF HangUp, CloseSocket, finishWorker, Holders, Goroutines, maintenance
<1>4. CASE readFrame(c) \/ handleCommand(c) \/ startWorker(c)
  BY <1>4, Moved DEF readFrame, handleCommand, startWorker, SessionStates, maintenance
<1>5. CASE interrupt(c) \/ receiveResult(c)
  BY <1>5, Moved DEF interrupt, receiveResult, SessionStates, maintenance
<1> QED
  BY <1>1, <1>2, <1>3, <1>4, <1>5 DEF ConnStep, sessionSteps

\* The steps of the process leave both sets alone.
LEMMA QuietSets ==
  ASSUME QuietStep
  PROVE  Holders' = Holders /\ Goroutines' = Goroutines /\ worker' = worker /\ session' = session
<1>1. session' = session /\ worker' = worker
  BY DEF QuietStep, listen, startupCleanup, setServiceStatus, startMaintenance, AcceptClosed,
         Retry, Wait, stopMaintenance, clearServiceStatus, listenerCleanup, Close, Signal,
         AcceptError, returnFromLoop, dailyCleanup, dailyStop, periodicCleanup, periodicStop,
         conns
<1> QED
  BY <1>1 DEF Holders, Goroutines

\* Closing the listener drops waiting connections, which are in neither set.
LEMMA ClosingSets ==
  ASSUME TypeOK, closeListener
  PROVE  Holders' = Holders /\ Goroutines' = Goroutines
BY DEF TypeOK, closeListener, Holders, Goroutines

\* Every step keeps the counts.
LEMMA CountsKept ==
  ASSUME TypeOK, Counted, Ordered, [Next]_vars
  PROVE  Counted'
<1>1. CASE NewServer
  BY <1>1, Emptied DEF NewServer
<1>2. CASE Crash
  BY <1>2, Emptied DEF Crash
<1>3. CASE UNCHANGED vars
  BY <1>3, SameCount DEF vars, conns, maintenance, Holders, Goroutines, DailyCount
<1>4. CASE closeListener
  <2>1. slots' = slots /\ wg' = wg /\ DailyCount' = DailyCount
    BY <1>4 DEF closeListener, maintenance, DailyCount
  <2> QED
    BY <1>4, <2>1, ClosingSets, SameCount
<1>5. CASE QuietStep
  <2>1. slots' = slots /\ Holders' = Holders /\ Goroutines' = Goroutines
    <3>1. slots' = slots
      BY <1>5 DEF QuietStep, listen, startupCleanup, setServiceStatus, startMaintenance,
                  AcceptClosed, Retry, Wait, stopMaintenance, clearServiceStatus,
                  listenerCleanup, Close, Signal, AcceptError, returnFromLoop, dailyCleanup,
                  dailyStop, periodicCleanup, periodicStop, conns
    <3> QED
      BY <1>5, <3>1, QuietSets
  <2>2. CASE startMaintenance
    <3>1. wg' = wg + 1 /\ DailyCount = 0 /\ DailyCount' = 1
      BY <2>2 DEF startMaintenance, DailyCount, Ordered
    <3> QED
      BY <2>1, <3>1, Finite DEF Counted, SlotsAccounted
  <2>3. CASE dailyStop
    <3>1. wg' = wg - 1 /\ DailyCount = 1 /\ DailyCount' = 0
      BY <2>3 DEF dailyStop, DailyCount
    <3> QED
      BY <2>1, <3>1, Finite DEF Counted, SlotsAccounted
  <2>4. CASE dailyCleanup
    <3>1. wg' = wg /\ DailyCount' = DailyCount
      BY <2>4 DEF dailyCleanup, DailyCount
    <3> QED
      BY <2>1, <3>1, SameCount
  <2>5. CASE ~(startMaintenance \/ dailyStop \/ dailyCleanup)
    <3>1. wg' = wg /\ daily' = daily
      BY <1>5, <2>5 DEF QuietStep, listen, startupCleanup, setServiceStatus, AcceptClosed,
                        Retry, Wait, stopMaintenance, clearServiceStatus, listenerCleanup,
                        Close, Signal, AcceptError, returnFromLoop, periodicCleanup,
                        periodicStop, maintenance
    <3>2. DailyCount' = DailyCount
      BY <3>1 DEF DailyCount
    <3> QED
      BY <2>1, <3>1, <3>2, SameCount
  <2> QED
    BY <2>2, <2>3, <2>4, <2>5
<1>6. ASSUME NEW c \in Conns, ConnStep(c)
      PROVE  Counted'
  <2>1. CASE Accept(c) /\ Admitted(c)
    BY <2>1, Joined DEF Accept, maintenance
  <2>2. CASE releaseSlot(c)
    BY <2>2, Released
  <2>3. CASE done(c)
    BY <2>3, Left
  <2>4. CASE ~releaseSlot(c) /\ ~done(c) /\ ~(Accept(c) /\ Admitted(c))
    <3>1. /\ Holders' = Holders /\ Goroutines' = Goroutines
          /\ slots' = slots /\ wg' = wg /\ daily' = daily
      BY <1>6, <2>4, Uncounted
    <3>2. DailyCount' = DailyCount
      BY <3>1 DEF DailyCount
    <3> QED
      BY <3>1, <3>2, SameCount
  <2> QED
    BY <2>1, <2>2, <2>3, <2>4
<1> QED
  BY <1>1, <1>2, <1>3, <1>4, <1>5, <1>6, Kinds

-----------------------------------------------------------------------------
\* A session leaves the wait for its worker only with the worker's result.
LEMMA AttendedKept ==
  ASSUME TypeOK, Attended, [Next]_vars
  PROVE  Attended'
<1>1. CASE NewServer
  BY <1>1, Emptied DEF NewServer
<1>2. CASE Crash
  BY <1>2, Emptied DEF Crash
<1>3. CASE UNCHANGED vars
  BY <1>3 DEF vars, conns, Attended
<1>4. CASE closeListener
  BY <1>4 DEF closeListener, TypeOK, Attended
<1>5. CASE QuietStep
  BY <1>5, QuietSets DEF Attended
<1>6. ASSUME NEW c \in Conns, ConnStep(c)
      PROVE  Attended'
  <2>1. CASE Accept(c) \/ Connect(c)
    BY <2>1 DEF Accept, Connect, Admitted, Turned, TypeOK, Attended
  <2>2. CASE HangUp(c) \/ CloseSocket(c) \/ finishWorker(c)
    BY <2>2 DEF HangUp, CloseSocket, finishWorker, TypeOK, Attended
  <2>3. CASE readFrame(c) \/ handleCommand(c) \/ startWorker(c)
    BY <2>3 DEF readFrame, handleCommand, startWorker, goTo, TypeOK, Attended
  <2>4. CASE interrupt(c) \/ receiveResult(c)
    BY <2>4 DEF interrupt, receiveResult, goTo, TypeOK, Attended
  <2>5. CASE releaseSlot(c) \/ done(c)
    BY <2>5 DEF releaseSlot, done, goTo, TypeOK, Attended
  <2> QED
    BY <1>6, <2>1, <2>2, <2>3, <2>4, <2>5 DEF ConnStep, sessionSteps
<1> QED
  BY <1>1, <1>2, <1>3, <1>4, <1>5, <1>6, Kinds

\* wg.Wait returns only when no session and no daily loop is left.
LEMMA WaitedForAll ==
  ASSUME Counted, waited
  PROVE  Goroutines = {} /\ daily \notin {"idle", "cleaning"}
<1>1. Cardinality(Goroutines) = 0 /\ DailyCount = 0
  BY Finite DEF Counted, waited, DailyCount
<1> QED
  BY <1>1, Finite, FS_EmptySet DEF DailyCount

\* Every step keeps the order of shutdown.
LEMMA OrderKept ==
  ASSUME TypeOK, Counted, Ordered, [Next]_vars
  PROVE  Ordered'
<1>1. CASE NewServer
  <2>1. Goroutines' = {} /\ daily' = "off" /\ periodic' = "off"
    BY <1>1, Emptied DEF NewServer, NoGoroutines
  <2>2. database' # "closed"
    BY <1>1 DEF NewServer
  <2> QED
    BY <2>1, <2>2 DEF Ordered
<1>2. CASE Crash
  BY <1>2, Emptied DEF Crash, NoGoroutines, Ordered
<1>3. CASE UNCHANGED vars
  BY <1>3 DEF vars, process, conns, maintenance, Goroutines, Ordered
<1>4. CASE main # "down" /\ closeListener
  BY <1>4, ClosingSets DEF closeListener, maintenance, Ordered
<1>5. CASE main # "down" /\ QuietStep
  <2>1. Goroutines' = Goroutines
    BY <1>5, QuietSets
  <2>2. CASE Wait
    <3>1. Goroutines = {} /\ daily \in {"off", "done"}
      BY <2>2, WaitedForAll DEF Wait, TypeOK
    <3> QED
      BY <1>5, <2>1, <2>2, <3>1 DEF Wait, maintenance, Ordered
  <2>3. CASE listen \/ startupCleanup \/ setServiceStatus \/ startMaintenance
    BY <1>5, <2>1, <2>3 DEF listen, startupCleanup, setServiceStatus, startMaintenance,
                            maintenance, Ordered
  <2>4. CASE AcceptClosed \/ Retry \/ AcceptError \/ Signal
    BY <1>5, <2>1, <2>4 DEF AcceptClosed, Retry, AcceptError, Signal, returnFromLoop,
                            maintenance, Ordered
  <2>5. CASE stopMaintenance \/ clearServiceStatus \/ listenerCleanup \/ Close
    BY <1>5, <2>1, <2>5 DEF stopMaintenance, maintenanceDone, clearServiceStatus,
                            listenerCleanup, Close, maintenance, Ordered
  <2>6. CASE dailyCleanup \/ dailyStop \/ periodicCleanup \/ periodicStop
    BY <1>5, <2>1, <2>6 DEF dailyCleanup, dailyStop, periodicCleanup, periodicStop, process,
                            Ordered
  <2> QED
    BY <1>5, <2>2, <2>3, <2>4, <2>5, <2>6 DEF QuietStep
<1>6. ASSUME NEW c \in Conns, main # "down", ConnStep(c)
      PROVE  Ordered'
  <2>1. UNCHANGED <<main, database, daily, periodic>>
    BY <1>6 DEF ConnStep, sessionSteps, Accept, Connect, HangUp, CloseSocket, finishWorker,
                readFrame, handleCommand, startWorker, interrupt, receiveResult, releaseSlot,
                done, process, maintenance
  <2>2. CASE Accept(c)
    BY <1>6, <2>1, <2>2 DEF Accept, Ordered
  <2>3. CASE ~Accept(c)
    <3>1. Goroutines' \subseteq Goroutines
      BY <1>6, <2>3, Uncounted, Released, Left
    <3> QED
      BY <1>6, <2>1, <3>1 DEF Ordered
  <2> QED
    BY <2>2, <2>3
<1> QED
  BY <1>1, <1>2, <1>3, <1>4, <1>5, <1>6, Kinds

\* Every step keeps the reason for which Serve ends.
LEMMA ReasonKept ==
  ASSUME TypeOK, Explained, [Next]_vars
  PROVE  Explained'
<1>1. CASE NewServer
  BY <1>1 DEF NewServer, NoGoroutines, Explained, ExitStatus
<1>2. CASE Crash
  BY <1>2 DEF Crash, Explained, ExitStatus
<1>3. CASE UNCHANGED vars
  BY <1>3 DEF vars, process, Explained, ExitStatus
<1>4. CASE closeListener
  BY <1>4 DEF closeListener, Explained, ExitStatus
<1>5. CASE QuietStep
  <2>1. CASE listen \/ startupCleanup \/ setServiceStatus \/ startMaintenance
    BY <2>1 DEF listen, startupCleanup, setServiceStatus, startMaintenance, Explained,
                ExitStatus
  <2>2. CASE AcceptClosed \/ Retry \/ AcceptError \/ Signal
    <3>1. ASSUME NEW err, returnFromLoop(err), cancelled => signalled,
                 ~cancelled => err = "listener"
          PROVE  Explained'
      <4>1. signalled' = signalled /\ main' = "drain"
        BY <3>1 DEF returnFromLoop
      <4>2. cancelled \/ fatal'
        BY <3>1 DEF returnFromLoop
      <4> QED
        BY <3>1, <4>1, <4>2 DEF Explained, ExitStatus
    <3>2. main \in {"accept", "retry"} => (cancelled => signalled)
      BY DEF Explained
    <3>3. CASE AcceptClosed
      BY <3>1, <3>2, <3>3 DEF AcceptClosed, acceptErr
    <3>4. CASE Retry
      BY <3>1, <3>2, <3>4 DEF Retry, Explained, ExitStatus
    <3>5. CASE AcceptError
      <4>1. CASE returnFromLoop(acceptErr)
        BY <3>1, <3>2, <3>5, <4>1 DEF AcceptError, acceptErr
      <4>2. CASE ~returnFromLoop(acceptErr)
        <5>1. main = "accept" /\ main' = "retry"
          BY <3>5, <4>2 DEF AcceptError
        <5>2. cancelled' = cancelled /\ signalled' = signalled
          BY <3>5, <4>2 DEF AcceptError
        <5> QED
          BY <3>2, <5>1, <5>2 DEF Explained, ExitStatus
      <4> QED
        BY <4>1, <4>2
    <3>6. CASE Signal
      BY <3>6 DEF Signal, Explained, ExitStatus
    <3> QED
      BY <2>2, <3>3, <3>4, <3>5, <3>6
  <2>3. CASE Wait \/ stopMaintenance \/ clearServiceStatus \/ listenerCleanup \/ Close
    BY <2>3 DEF Wait, stopMaintenance, clearServiceStatus, listenerCleanup, Close, exitCode,
                Explained, ExitStatus
  <2>4. CASE dailyCleanup \/ dailyStop \/ periodicCleanup \/ periodicStop
    BY <2>4 DEF dailyCleanup, dailyStop, periodicCleanup, periodicStop, process, Explained,
                ExitStatus
  <2> QED
    BY <1>5, <2>1, <2>2, <2>3, <2>4 DEF QuietStep
<1>6. ASSUME NEW c \in Conns, ConnStep(c)
      PROVE  Explained'
  <2>1. UNCHANGED process
    BY <1>6 DEF ConnStep, sessionSteps, Accept, Connect, HangUp, CloseSocket, finishWorker,
                readFrame, handleCommand, startWorker, interrupt, receiveResult, releaseSlot,
                done
  <2> QED
    BY <2>1 DEF process, Explained, ExitStatus
<1> QED
  BY <1>1, <1>2, <1>3, <1>4, <1>5, <1>6, Kinds

-----------------------------------------------------------------------------
\* A process that has not started satisfies the invariant.
LEMMA InvInit == Init => Inv
<1> SUFFICES ASSUME Init PROVE Inv
  OBVIOUS
<1>1. TypeOK
  <2>1. Flags
    BY DEF Init, Flags
  <2>2. Places
    BY DEF Init, Places, MainStates, SessionStates
  <2> QED
    BY <2>1, <2>2 DEF TypeOK, Flags, Places
<1>2. Holders = {} /\ Goroutines = {}
  BY DEF Init, Holders, Goroutines
<1>3. Counted
  BY <1>2, FS_EmptySet DEF Init, Counted, SlotsAccounted, DailyCount
<1>4. Attended /\ Explained
  BY DEF Init, Attended, Explained, ExitStatus
<1>5. Ordered
  BY <1>2 DEF Init, Ordered
<1> QED
  BY <1>1, <1>3, <1>4, <1>5 DEF Inv

\* Every step keeps the invariant.
LEMMA InvNext == Inv /\ [Next]_vars => Inv'
BY TypesKept, CountsKept, AttendedKept, OrderKept, ReasonKept DEF Inv

\* A worker runs only beside a session goroutine.
LEMMA NoWorkerAlone ==
  ASSUME Attended, Goroutines = {}
  PROVE  workersIdle
BY DEF Attended, Goroutines, workersIdle

\* The invariant says what the server promises.
LEMMA InvSound == Inv => ServerSound
<1> SUFFICES ASSUME Inv PROVE ServerSound
  OBVIOUS
<1>1. TypeOK /\ SlotsAccounted /\ ExitStatus
  BY DEF Inv, Counted, Explained
<1>2. ServeWaitsForSessions
  BY NoWorkerAlone DEF Inv, Ordered, ServeWaitsForSessions
<1>3. DatabaseOutlivesUsers
  BY NoWorkerAlone DEF Inv, Ordered, DatabaseOutlivesUsers
<1> QED
  BY <1>1, <1>2, <1>3 DEF ServerSound, Consistent

\* Serve gives back every slot, waits for every session and its worker, closes
\* the database after its last user and explains its exit status, for any
\* number of connections, slots, workers and processes.
THEOREM LifecycleSound == Spec => []ServerSound
<1>1. Inv /\ UNCHANGED vars => Inv'
  BY InvNext
<1> QED
  BY InvInit, InvNext, InvSound, PTL DEF Spec

\* The row that says a server is running is given up only when its last session
\* and worker are gone (clearServiceStatus, deferred in Serve before the rest).
THEOREM StatusLast == Spec => StatusOutlivesSessions
<1> DEFINE Kept == main # "down" /\ status = start /\ status' # status
                     => Goroutines = {} /\ workersIdle
<1>1. ASSUME Inv, [Next]_vars
      PROVE  [Kept]_vars
  <2> SUFFICES ASSUME main # "down", status = start, status' # status
               PROVE  Goroutines = {} /\ workersIdle
    OBVIOUS
  <2>1. clearServiceStatus
    <3>1. ~NewServer /\ ~Crash /\ ~UNCHANGED vars /\ ~closeListener
      BY DEF NewServer, Crash, vars, closeListener
    <3>2. \A c \in Conns : ~ConnStep(c)
      BY DEF ConnStep, sessionSteps, Accept, Connect, HangUp, CloseSocket, finishWorker,
             readFrame, handleCommand, startWorker, interrupt, receiveResult, releaseSlot,
             done
    <3>3. QuietStep
      BY <1>1, <3>1, <3>2, Kinds
    <3> QED
      BY <3>3 DEF QuietStep, listen, startupCleanup, setServiceStatus, startMaintenance,
                  AcceptClosed, Retry, Wait, stopMaintenance, listenerCleanup, Close, Signal,
                  AcceptError, returnFromLoop, dailyCleanup, dailyStop, periodicCleanup,
                  periodicStop
  <2>2. Goroutines = {}
    BY <1>1, <2>1 DEF clearServiceStatus, Inv, Ordered
  <2> QED
    BY <1>1, <2>2, NoWorkerAlone DEF Inv
<1> QED
  BY InvInit, InvNext, <1>1, PTL DEF Spec, StatusOutlivesSessions

=============================================================================
