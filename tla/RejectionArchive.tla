-------------------------- MODULE RejectionArchive --------------------------
(***************************************************************************)
(* The history of rejections and the archive of rejected messages.         *)
(* recordRejection first inserts a row and then writes the message to      *)
(* <month>/<day>/<id>.eml beneath the archive root; REJECTION <id> reads   *)
(* the row and then the file; maintenance trims the table, and the daily   *)
(* cleanup removes expired directories and the oldest messages.  Nothing   *)
(* but the file system orders these against one another.                   *)
(*                                                                         *)
(* A step is one transaction or one file-system call.  Years behave as     *)
(* months do and are left out.  A crash loses the goroutines and keeps the *)
(* table and the files.                                                    *)
(***************************************************************************)
EXTENDS Integers, FiniteSets, Folds, Functions, TLC

CONSTANTS
  Savers,         \* sessions that record a rejection
  Readers,        \* commands that show one
  DayTicks,       \* ticks of a day
  MonthDays,      \* days of a month
  Retention,      \* rejection_history.expiry, of rows and of files
  MaxEntries,     \* rejection_history.max_entries
  MaxTotalBytes,  \* message_max_total_bytes, in messages
  MaxMessages,    \* bound on the rejections
  MaxTime         \* bound of the clock

VARIABLES
  now,      \* the clock
  rows,     \* rejections: id -> time and message
  nextId,   \* the AUTOINCREMENT sequence
  dirs,     \* [months, days]: the directories that exist
  files,    \* path -> message, what has been written of it, time of the last write
  saver, reader, cleaner,
  made      \* history: message -> its path, once it has one

archiveVars == <<now, rows, nextId, dirs, files, saver, reader, cleaner, made>>

ASSUME ArchiveAssumption ==
  /\ DayTicks \in Nat \ {0} /\ MonthDays \in Nat \ {0} /\ Retention \in Nat \ {0}
  /\ MaxEntries \in Nat \ {0} /\ MaxTotalBytes \in Nat \ {0}
  /\ MaxMessages \in Nat /\ MaxTime \in Nat

\* dateOnly, and the month of a day.
dateOnly(t) == t \div DayTicks
monthOf(day) == day \div MonthDays

Days == 0 .. dateOnly(MaxTime)
Messages == 1 .. MaxMessages

\* A file name is the ID of the record or, for a message without one, random.
Random(m) == 0 - m
Path == [day : Days, name : (1 .. MaxMessages + 1) \cup {Random(m) : m \in Messages}]
Content == {"none", "part", "full"}
File == [msg : Messages, content : Content, mtime : Nat]

Idle == [pc |-> "idle"]

\* Removes the keys K of a function.
Without(f, K) == Restrict(f, DOMAIN f \ K)

-----------------------------------------------------------------------------
(* recordRejection. *)

\* The rejection is dated, and the message begins its way.
recordRejection(s) ==
  /\ saver[s].pc = "idle" /\ Cardinality(DOMAIN made) < MaxMessages
  /\ LET m == Cardinality(DOMAIN made) + 1
     IN /\ made' = made @@ (m :> [day |-> dateOnly(now), name |-> Random(m)])
        /\ saver' = [saver EXCEPT ![s] = [pc |-> "record", msg |-> m, at |-> now]]
  /\ UNCHANGED <<now, rows, nextId, dirs, files, reader, cleaner>>

Saving(s, path) ==
  /\ made' = [made EXCEPT ![saver[s].msg] = path]
  /\ saver' = [saver EXCEPT ![s] =
       [pc |-> "mkdir", msg |-> saver[s].msg, path |-> path, retried |-> FALSE]]

\* Mutant: IDs of deleted rows are used again.
newIdReused == Cardinality(DOMAIN rows) + 1

newId == nextId

\* The row is inserted; its ID names the file, beneath the day of its time.
AddRejection(s) ==
  /\ saver[s].pc = "record"
  /\ rows' = (newId :> [at |-> saver[s].at, msg |-> saver[s].msg]) @@ rows
  /\ nextId' = newId + 1
  /\ Saving(s, [day |-> dateOnly(saver[s].at), name |-> newId])
  /\ UNCHANGED <<now, dirs, files, reader, cleaner>>

\* The row could not be inserted: a random name, beneath the present day.
SaveWithoutRecord(s) ==
  /\ saver[s].pc = "record"
  /\ Saving(s, [day |-> dateOnly(now), name |-> Random(saver[s].msg)])
  /\ UNCHANGED <<now, rows, nextId, dirs, files, reader, cleaner>>

Move(s, pc) == saver' = [saver EXCEPT ![s].pc = pc]

\* The save gives up.
GiveUp(s) == saver' = [saver EXCEPT ![s] = Idle]

\* os.MkdirAll looks for the day; it creates the month before the day.
MkdirAllStart(s) ==
  /\ saver[s].pc = "mkdir"
  /\ LET day == saver[s].path.day
     IN IF day \in dirs.days THEN Move(s, "open") /\ UNCHANGED dirs
        ELSE /\ dirs' = [dirs EXCEPT !.months = @ \cup {monthOf(day)}]
             /\ Move(s, "mkday")
  /\ UNCHANGED <<now, rows, nextId, files, reader, cleaner, made>>

MkdirAllDay(s) ==
  /\ saver[s].pc = "mkday"
  /\ LET day == saver[s].path.day
     IN IF monthOf(day) \in dirs.months
        THEN /\ dirs' = [dirs EXCEPT !.days = @ \cup {day}]
             /\ Move(s, "open")
        ELSE GiveUp(s) /\ UNCHANGED dirs
  /\ UNCHANGED <<now, rows, nextId, files, reader, cleaner, made>>

\* openArchiveFile creates the file exclusively; when its directory is gone
\* it makes the directory again, once.
openArchiveFile(s) ==
  /\ saver[s].pc = "open"
  /\ LET path == saver[s].path
     IN CASE path.day \in dirs.days /\ path \notin DOMAIN files ->
               /\ files' = files @@ (path :> [msg |-> saver[s].msg, content |-> "none",
                                              mtime |-> now])
               /\ Move(s, "write")
          [] path.day \in dirs.days /\ path \in DOMAIN files ->
               GiveUp(s) /\ UNCHANGED files
          [] path.day \notin dirs.days /\ ~saver[s].retried ->
               /\ saver' = [saver EXCEPT ![s] = [@ EXCEPT !.pc = "mkdir", !.retried = TRUE]]
               /\ UNCHANGED files
          [] OTHER -> GiveUp(s) /\ UNCHANGED files
  /\ UNCHANGED <<now, rows, nextId, dirs, reader, cleaner, made>>

\* A write reaches the file in pieces; a file that has been unlinked takes them
\* to the grave.
Write(s) ==
  /\ saver[s].pc = "write"
  /\ \E c \in {"part", "full"} :
       /\ files' = IF saver[s].path \in DOMAIN files
                   THEN [files EXCEPT ![saver[s].path] = [@ EXCEPT !.content = c, !.mtime = now]]
                   ELSE files
       /\ saver' = [saver EXCEPT ![s] = IF c = "full" THEN Idle ELSE @]
  /\ UNCHANGED <<now, rows, nextId, dirs, reader, cleaner, made>>

\* Writing or closing fails: the file is removed.
WriteFails(s) ==
  /\ saver[s].pc = "write"
  /\ files' = Without(files, {saver[s].path})
  /\ GiveUp(s)
  /\ UNCHANGED <<now, rows, nextId, dirs, reader, cleaner, made>>

-----------------------------------------------------------------------------
(* REJECTION <id>. *)

Show(r, result) ==
  reader' = [reader EXCEPT ![r] = [pc |-> "idle", of |-> reader[r].of, result |-> result]]

\* ByID.
ByID(r) ==
  /\ reader[r].pc = "idle"
  /\ \E id \in DOMAIN rows :
       reader' = [reader EXCEPT ![r] =
         [pc |-> "open", of |-> rows[id].msg,
          path |-> [day |-> dateOnly(rows[id].at), name |-> id]]]
  /\ UNCHANGED <<now, rows, nextId, dirs, files, saver, cleaner, made>>

OpenSaved(r) ==
  /\ reader[r].pc = "open"
  /\ IF reader[r].path \in DOMAIN files
     THEN reader' = [reader EXCEPT ![r] = [pc |-> "read", of |-> reader[r].of,
                       path |-> reader[r].path, file |-> files[reader[r].path]]]
     ELSE Show(r, [msg |-> 0, content |-> "unavailable"])
  /\ UNCHANGED <<now, rows, nextId, dirs, files, saver, cleaner, made>>

\* What io.ReadAll returns of the open file, which the writer may go on filling
\* after it was unlinked.
ReadSaved(r) ==
  /\ reader[r].pc = "read"
  /\ LET path == reader[r].path
         opened == reader[r].file
     IN IF path \in DOMAIN files
        THEN Show(r, [msg |-> files[path].msg, content |-> files[path].content])
        ELSE \E c \in {opened.content, "full"} :
               Show(r, [msg |-> opened.msg, content |-> c])
  /\ UNCHANGED <<now, rows, nextId, dirs, files, saver, cleaner, made>>

-----------------------------------------------------------------------------
(* Maintenance. *)

rowExpired(row) == row.at < now - Retention

\* Cleanup of the table: expired rows, then the excess by age and ID.
CleanupRows ==
  /\ LET kept == {id \in DOMAIN rows : ~rowExpired(rows[id])}
         before(i, j) == rows[i].at < rows[j].at \/ (rows[i].at = rows[j].at /\ i < j)
         newest == {id \in kept : Cardinality({j \in kept : before(id, j)}) < MaxEntries}
     IN rows' = Restrict(rows, newest)
  /\ UNCHANGED <<now, nextId, dirs, files, saver, reader, cleaner, made>>

\* Mutant: the day of the cutoff is removed as well.
expiredDayToo(day, cutoff) == day <= cutoff

expiredDay(day, cutoff) == day < cutoff

\* The whole month lies before the cutoff.
expiredMonth(month, cutoff) == (month + 1) * MonthDays <= cutoff

\* Cleanup of the archive lists the months.
StartCleanup ==
  /\ cleaner.pc = "idle"
  /\ cleaner' = [pc |-> "months", cutoff |-> dateOnly(now - Retention), months |-> dirs.months]
  /\ UNCHANGED <<now, rows, nextId, dirs, files, saver, reader, made>>

\* removeExpiredDateTrees visits one month: the expired trees in it go, and the
\* month itself when it is empty.
removeExpiredDateTrees ==
  /\ cleaner.pc = "months" /\ cleaner.months # {}
  /\ \E month \in cleaner.months :
       LET days == {d \in dirs.days : monthOf(d) = month}
           gone == {d \in days : \/ expiredMonth(month, cleaner.cutoff)
                                 \/ expiredDay(d, cleaner.cutoff)}
       IN /\ dirs' = [days |-> dirs.days \ gone,
                      months |-> IF days = gone THEN dirs.months \ {month} ELSE dirs.months]
          /\ files' = Without(files, {p \in DOMAIN files : p.day \in gone})
          /\ cleaner' = [cleaner EXCEPT !.months = @ \ {month}]
  /\ UNCHANGED <<now, rows, nextId, saver, reader, made>>

size(file) == IF file.content = "none" THEN 0 ELSE 1

total(index) ==
  MapThenFoldSet(LAMBDA x, y : x + y, 0, LAMBDA p : size(index[p]),
                 LAMBDA S : CHOOSE p \in S : TRUE, DOMAIN index)

\* archiveSize and, over the limit, indexFiles: two walks.
archiveSize ==
  /\ cleaner.pc = "months" /\ cleaner.months = {}
  /\ cleaner' = IF total(files) > MaxTotalBytes THEN [pc |-> "index"] ELSE Idle
  /\ UNCHANGED <<now, rows, nextId, dirs, files, saver, reader, made>>

indexFiles ==
  /\ cleaner.pc = "index"
  /\ cleaner' = [pc |-> "evict", index |-> files, left |-> files]
  /\ UNCHANGED <<now, rows, nextId, dirs, files, saver, reader, made>>

\* Mutant: the newest messages go first.
olderInverted(f, g) == f.mtime > g.mtime

older(f, g) == f.mtime < g.mtime

overLimit(index) == total(index) > MaxTotalBytes

\* The oldest message goes while the index says that there is too much; a file
\* that is gone already, and any other error, ends the cleanup.
Evict ==
  /\ cleaner.pc = "evict"
  /\ IF ~overLimit(cleaner.left) THEN cleaner' = Idle /\ UNCHANGED files
     ELSE \E p \in DOMAIN cleaner.left :
            /\ \A q \in DOMAIN cleaner.left : ~older(cleaner.left[q], cleaner.left[p])
            /\ IF p \in DOMAIN files
               THEN /\ files' = Without(files, {p})
                    /\ cleaner' = [pc |-> "rmday", index |-> cleaner.index,
                                   left |-> Without(cleaner.left, {p}), day |-> p.day]
               ELSE cleaner' = Idle /\ UNCHANGED files
  /\ UNCHANGED <<now, rows, nextId, dirs, saver, reader, made>>

emptyDay(day) == day \in dirs.days /\ \A p \in DOMAIN files : p.day # day

\* removeEmptyParents: the day, then the month.
removeEmptyDay ==
  /\ cleaner.pc = "rmday"
  /\ LET empty == emptyDay(cleaner.day)
     IN /\ dirs' = IF empty THEN [dirs EXCEPT !.days = @ \ {cleaner.day}] ELSE dirs
        /\ cleaner' = [cleaner EXCEPT !.pc = IF empty THEN "rmmonth" ELSE "evict"]
  /\ UNCHANGED <<now, rows, nextId, files, saver, reader, made>>

removeEmptyMonth ==
  /\ cleaner.pc = "rmmonth"
  /\ LET month == monthOf(cleaner.day)
     IN dirs' = IF \A d \in dirs.days : monthOf(d) # month
                THEN [dirs EXCEPT !.months = @ \ {month}] ELSE dirs
  /\ cleaner' = [cleaner EXCEPT !.pc = "evict"]
  /\ UNCHANGED <<now, rows, nextId, files, saver, reader, made>>

\* A walk or a removal fails, or the context ends.
AbortCleanup ==
  /\ cleaner.pc # "idle" /\ cleaner' = Idle
  /\ UNCHANGED <<now, rows, nextId, dirs, files, saver, reader, made>>

Crash ==
  /\ saver' = [s \in Savers |-> Idle] /\ cleaner' = Idle
  /\ reader' = [r \in Readers |-> [pc |-> "idle", of |-> 0, result |-> Idle]]
  /\ UNCHANGED <<now, rows, nextId, dirs, files, made>>

ArchiveTick ==
  /\ now < MaxTime /\ now' = now + 1
  /\ UNCHANGED <<rows, nextId, dirs, files, saver, reader, cleaner, made>>

NoFunction == [x \in {} |-> x]

ArchiveInit ==
  /\ now = 0 /\ rows = NoFunction /\ nextId = 1
  /\ dirs = [months |-> {}, days |-> {}] /\ files = NoFunction
  /\ saver = [s \in Savers |-> Idle] /\ cleaner = Idle
  /\ reader = [r \in Readers |-> [pc |-> "idle", of |-> 0, result |-> Idle]]
  /\ made = NoFunction

Save(s) ==
  \/ recordRejection(s) \/ AddRejection(s) \/ SaveWithoutRecord(s)
  \/ MkdirAllStart(s) \/ MkdirAllDay(s) \/ openArchiveFile(s) \/ Write(s) \/ WriteFails(s)

Read(r) == ByID(r) \/ OpenSaved(r) \/ ReadSaved(r)

Clean ==
  \/ StartCleanup \/ removeExpiredDateTrees \/ archiveSize \/ indexFiles \/ Evict
  \/ removeEmptyDay \/ removeEmptyMonth \/ AbortCleanup

ArchiveNext ==
  \/ \E s \in Savers : Save(s)
  \/ \E r \in Readers : Read(r)
  \/ Clean \/ CleanupRows \/ Crash \/ ArchiveTick

ArchiveSpec == ArchiveInit /\ [][ArchiveNext]_archiveVars

-----------------------------------------------------------------------------
(* Properties. *)

\* The shape of the table and of the archive; a file lies in a directory that
\* exists, and a day in its month.
ArchiveTypeOK ==
  /\ now \in Nat /\ nextId \in Nat
  /\ \A id \in DOMAIN rows : rows[id] \in [at : 0 .. now, msg : Messages]
  /\ \A p \in DOMAIN files : p \in Path /\ files[p] \in File /\ p.day \in dirs.days
  /\ \A d \in dirs.days : monthOf(d) \in dirs.months
  /\ \A s \in Savers : saver[s].pc \in {"idle", "record", "mkdir", "mkday", "open", "write"}

\* REJECTION <id> never shows another record's message: the path derived from
\* the row leads to the file that was saved for that very rejection, whatever
\* rows and files were deleted in between (ReadWithRecordID).
ReadsOwnMessage ==
  \A r \in Readers : (reader[r].pc = "idle" /\ reader[r].of # 0)
    => reader[r].result.msg \in {0, reader[r].of}

\* Retention never takes the message of a record that is still kept by the
\* same setting: "keeping the two parts aligned" (removeExpiredDateTrees).
RetentionAligned ==
  \A p \in DOMAIN files \ DOMAIN files' :
    (cleaner.pc = "months" /\ p.name \in DOMAIN rows)
      => rows[p.name].at < now - Retention \/ saver' # saver

\* Over the limit the cleanup removes a message only if the more recent ones
\* of its index fill the archive with it, so the newest always fit and stay.
OldestEvictedFirst ==
  (cleaner.pc = "evict" /\ cleaner'.pc = "rmday") =>
    \A p \in DOMAIN files \ DOMAIN files' :
      Cardinality({q \in DOMAIN cleaner.index :
        /\ cleaner.index[q].mtime >= cleaner.index[p].mtime
        /\ cleaner.index[q].content # "none"}) > MaxTotalBytes

\* Every file lies in a directory that exists, and every record leads to its own.
ArchiveConsistent == ArchiveTypeOK /\ ReadsOwnMessage

\* The archive follows its records: ReadWithRecordID finds the message of the
\* record, retention and capacity (Cleanup) take nothing they should have kept.
ArchiveFollowsRecords ==
  [][ArchiveConsistent' /\ RetentionAligned /\ OldestEvictedFirst]_archiveVars

=============================================================================
