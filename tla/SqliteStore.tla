----------------------------- MODULE SqliteStore -----------------------------
(***************************************************************************)
(* sqlitedb.Store (internal/sqlitedb/store.go): several processes, the     *)
(* service and command-mode shells, open one database file, prepare its    *)
(* schema and run transactions through WithTx, which repeats the whole     *)
(* closure after a lock error.  A statement may fail, a context may end    *)
(* and a process may crash anywhere.  Transactions are immediate: the      *)
(* writer lock is taken when they begin.                                   *)
(***************************************************************************)
EXTENDS Integers, FiniteSets

CONSTANTS
  Processes,    \* processes that open the file
  BusyRetries,  \* Options.BusyRetries
  Rows,         \* rows that may be stored
  Versions,     \* schema versions a file may have, user_version
  None          \* no process holds the writer lock

ASSUME StoreAssumption ==
  BusyRetries \in Nat /\ Versions \subseteq Nat /\ None \notin Processes

CurrentSchemaVersion == 6

VARIABLES file, work, writer, proc

storeVars == <<file, work, writer, proc>>

(* shape is the version whose tables the file has: 0 for no tables at all. *)
File == [version : Nat, shape : Nat, rows : SUBSET Rows]

(* deleted is the variable a cleanup closure captures, reported what Cleanup
   returned and removed what its committed transaction deleted. *)
Proc == [pc : {"closed", "begin", "version", "exec", "stamp", "commit", "pause", "ready",
               "add", "expire", "capacity"},
         op : {"open", "add", "clean"}, attempt : 0 .. BusyRetries, migrate : Nat,
         deleted : Nat, reported : Nat, removed : Nat]

Closed == [pc |-> "closed", op |-> "open", attempt |-> 0, migrate |-> 0,
           deleted |-> 0, reported |-> 0, removed |-> 0]

setProc(p, r) == proc' = [proc EXCEPT ![p] = r]

(* WithTx starts: from Open, or for one operation of an open store. *)
startProc(p, op) ==
  /\ setProc(p, [proc[p] EXCEPT !.pc = "begin", !.op = op, !.attempt = 0, !.deleted = 0,
                                !.reported = 0, !.removed = 0])
  /\ UNCHANGED <<file, work, writer>>

Open(p) == proc[p].pc = "closed" /\ startProc(p, "open")
AddRow(p) == proc[p].pc = "ready" /\ startProc(p, "add")
Cleanup(p) == proc[p].pc = "ready" /\ startProc(p, "clean")

Body(op) == IF op = "open" THEN "version" ELSE IF op = "add" THEN "add" ELSE "expire"

begin(p) ==
  /\ proc[p].pc = "begin" /\ writer = None
  /\ writer' = p /\ work' = file
  /\ setProc(p, [proc[p] EXCEPT !.pc = Body(proc[p].op)])
  /\ UNCHANGED file

leave(op) == IF op = "open" THEN "closed" ELSE "ready"

inTx(p) == proc[p].pc \in {"version", "exec", "stamp", "commit", "add", "expire", "capacity"}

rollbackKeeping(p) == writer' = None /\ file' = work /\ UNCHANGED work
rollback(p) == writer' = None /\ UNCHANGED <<file, work>>

(* An error that retry does not repeat: the operation fails, Open closes. *)
fail(p) ==
  /\ inTx(p) /\ rollback(p)
  /\ setProc(p, [proc[p] EXCEPT !.pc = leave(proc[p].op)])

exhausted(p) == proc[p].attempt = BusyRetries

(* SQLITE_BUSY or SQLITE_LOCKED: from the begin, a statement or the commit. *)
busy(p) ==
  /\ \/ proc[p].pc = "begin" /\ writer # None /\ UNCHANGED <<file, work, writer>>
     \/ inTx(p) /\ rollback(p)
  /\ setProc(p, [proc[p] EXCEPT !.pc = IF exhausted(p) THEN leave(proc[p].op) ELSE "pause"])

resumeAgain(p) ==
  /\ proc[p].pc = "pause"
  /\ setProc(p, [proc[p] EXCEPT !.pc = "begin"])
  /\ UNCHANGED <<file, work, writer>>

(* The retry timer, or the context. *)
resume(p) ==
  /\ proc[p].pc = "pause"
  /\ \/ setProc(p, [proc[p] EXCEPT !.pc = "begin", !.attempt = @ + 1])
     \/ setProc(p, [proc[p] EXCEPT !.pc = leave(proc[p].op)])
  /\ UNCHANGED <<file, work, writer>>

-----------------------------------------------------------------------------
(* prepareSchema. *)

compatible(w) ==
  \/ w.version = 0 /\ w.shape = 0
  \/ w.version \in 4 .. CurrentSchemaVersion

readVersion(p) ==
  /\ proc[p].pc = "version" /\ compatible(work)
  /\ setProc(p, [proc[p] EXCEPT !.pc = IF work.version = CurrentSchemaVersion THEN "commit" ELSE "exec",
                                !.migrate = work.version])
  /\ UNCHANGED <<file, work, writer>>

refuse(p) ==
  /\ proc[p].pc = "version" /\ ~compatible(work) /\ rollback(p)
  /\ setProc(p, [proc[p] EXCEPT !.pc = "closed"])

target(p) == IF proc[p].migrate = 0 THEN CurrentSchemaVersion ELSE proc[p].migrate + 1

script(w, to) == [w EXCEPT !.shape = to]

(* The schema script or one migration script, which copies every row. *)
execScript(p) ==
  /\ proc[p].pc = "exec"
  /\ work' = script(work, target(p))
  /\ setProc(p, [proc[p] EXCEPT !.pc = "stamp"])
  /\ UNCHANGED <<file, writer>>

(* PRAGMA user_version; from 4 the migration of 5 follows. *)
stampVersion(p) ==
  /\ proc[p].pc = "stamp"
  /\ work' = [work EXCEPT !.version = target(p)]
  /\ setProc(p, [proc[p] EXCEPT !.pc = IF target(p) = CurrentSchemaVersion THEN "commit" ELSE "exec",
                                !.migrate = target(p)])
  /\ UNCHANGED <<file, writer>>

-----------------------------------------------------------------------------
(* The closures: an insertion, and a cleanup of two deletions that counts what
   it deletes in a variable outside the closure. *)

insert(p) ==
  /\ proc[p].pc = "add"
  /\ \E r \in Rows \ work.rows : work' = [work EXCEPT !.rows = @ \cup {r}]
  /\ setProc(p, [proc[p] EXCEPT !.pc = "commit"])
  /\ UNCHANGED <<file, writer>>

countSum(p, gone) == proc[p].deleted + Cardinality(gone)
count(p, gone) == IF proc[p].pc = "expire" THEN Cardinality(gone)
                  ELSE proc[p].deleted + Cardinality(gone)

delete(p) ==
  /\ proc[p].pc \in {"expire", "capacity"}
  /\ \E gone \in SUBSET work.rows :
       /\ work' = [work EXCEPT !.rows = @ \ gone]
       /\ setProc(p, [proc[p] EXCEPT !.pc = IF @ = "expire" THEN "capacity" ELSE "commit",
                                     !.deleted = count(p, gone)])
  /\ UNCHANGED <<file, writer>>

commit(p) ==
  /\ proc[p].pc = "commit"
  /\ file' = work /\ writer' = None /\ UNCHANGED work
  /\ setProc(p, IF proc[p].op = "clean"
                THEN [proc[p] EXCEPT !.pc = "ready", !.reported = proc[p].deleted,
                                     !.removed = Cardinality(file.rows \ work.rows)]
                ELSE [proc[p] EXCEPT !.pc = "ready"])

CloseStore(p) ==
  /\ proc[p].pc = "ready"
  /\ setProc(p, Closed)
  /\ UNCHANGED <<file, work, writer>>

(* The process dies; SQLite rolls its transaction back. *)
CrashProcess(p) ==
  /\ proc[p].pc # "closed"
  /\ setProc(p, Closed)
  /\ writer' = IF writer = p THEN None ELSE writer
  /\ UNCHANGED <<file, work>>

StoreInit ==
  /\ file \in {[version |-> v, shape |-> v, rows |-> IF v = 0 THEN {} ELSE r] :
                 v \in Versions, r \in SUBSET Rows}
       \cup {[version |-> 0, shape |-> 1, rows |-> {}]}
  /\ work = file /\ writer = None
  /\ proc = [p \in Processes |-> Closed]

procStep(p) ==
  begin(p) \/ busy(p) \/ fail(p) \/ resume(p) \/ readVersion(p) \/ refuse(p) \/ execScript(p)
    \/ stampVersion(p) \/ insert(p) \/ delete(p) \/ commit(p)

StoreNext ==
  \E p \in Processes :
     Open(p) \/ AddRow(p) \/ Cleanup(p) \/ CloseStore(p) \/ CrashProcess(p) \/ procStep(p)

StoreSpec == StoreInit /\ [][StoreNext]_storeVars

-----------------------------------------------------------------------------
(* Every variable has its type. *)
StoreTypeOK ==
  /\ file \in File /\ work \in File
  /\ writer \in Processes \cup {None} /\ proc \in [Processes -> Proc]

(* The writer lock is held exactly by the process inside a transaction, so no
   error path of WithTx keeps it. *)
LockHeldInTx == \A p \in Processes : inTx(p) <=> writer = p

(* The version stamp always names the tables the file has: a crash between a
   script and its PRAGMA, or two processes migrating, never separates them.
   Only the unversioned database of another program has tables and no version. *)
StampMatchesTables == file.version = file.shape \/ file = [version |-> 0, shape |-> 1, rows |-> {}]

(* A store handed out by Open is on the current schema, and stays so. *)
OpenIsCurrent ==
  \A p \in Processes :
    proc[p].pc = "ready" \/ (proc[p].op # "open" /\ proc[p].pc # "closed")
      => file.version = CurrentSchemaVersion

(* The count a cleanup returns is what its committed transaction deleted,
   although the closure may have run and counted several times before. *)
CleanupReportsCommitted == \A p \in Processes : proc[p].reported = proc[p].removed

(* The file and its lock are sound whoever opens, migrates, retries or dies. *)
Sound == StoreTypeOK /\ LockHeldInTx /\ StampMatchesTables /\ OpenIsCurrent

(* What committed is whole and what is reported committed (withBusyRetry, Open,
   the cleanup transactions). *)
StoreSound == Sound /\ CleanupReportsCommitted

=============================================================================
