------------------------- MODULE AttachmentScanner --------------------------
(***************************************************************************)
(* The attachment scanner (scanner.go, zip_limits.go): the recursive walk  *)
(* over MIME entities, attached messages and archives, under the budgets   *)
(* of one scanState, observing cancellation.                               *)
(*                                                                         *)
(* scan.stack holds the pending calls, innermost first; scan.ret is the    *)
(* result of the call that just returned.  What a message contains is      *)
(* chosen when the scanner reaches it: the entities of a multipart, the    *)
(* entries of an archive and the bytes an entry decompresses to.  A name   *)
(* is its decisive extension ("" when absent, "bad" when undecodable);     *)
(* content is its kind ("MZ", "script", "zip"...) and its size.            *)
(***************************************************************************)
EXTENDS Integers, Sequences, FiniteSetsExt

CONSTANTS
    Entities,        \* MIME entities: [media, typed, attach, name, kind, decodes]
    Entries,         \* archive entries: [skip, encrypted, name, declared, size, kind, intact]
    Directories,     \* ZIP directories: [located, inside, records, fixed, counts]
    MaxParts,        \* bound: parts of a multipart, entries of an archive
    MaxMIMEDepth,    \* maxMIMEDepth
    MaxZIPMetadata,  \* maxZIPMetadataBytes
    Blocked,         \* BlockedExtensions
    InspectSignatures, InspectArchives,
    MaxAttachmentBytes, MaxArchiveDepth, MaxArchiveFiles, MaxArchiveBytes

VARIABLES
    scan,        \* [stack, ret, files, bytes, meta]: the calls and the scanState
    cancelled,   \* ctx is done
    failed,      \* history: some call returned an error
    found,       \* history: some call returned a Finding
    unread,      \* history: some call returned with parts or entries left
    opened       \* history: archive entries read

scannerVars == <<scan, cancelled, failed, found, unread, opened>>

Running == "running"
Clean == "clean"       \* nil, nil
Finding == "finding"   \* &Finding, nil
Failed == "error"      \* nil, &ScanError

\* A pending call: its name, MIME depth, archive depth, parts or entries
\* left, whether it holds an error to return, and its argument.
Frame(k, d, a, n, err, x) == [k |-> k, d |-> d, a |-> a, n |-> n, err |-> err, x |-> x]
Top(s) == Head(s.stack)
Push(s, f) == [s EXCEPT !.stack = <<f>> \o @]
Become(s, f) == [s EXCEPT !.stack = <<f>> \o Tail(@)]
Return(s, r) == [s EXCEPT !.stack = Tail(@), !.ret = r]

-----------------------------------------------------------------------------
(* What names and contents show                                            *)

BlockedExtension(name) == name \in Blocked

\* The formats recognised by their first bytes, else by name or media type.
ByContent == [zip |-> "zip", gzip |-> "gzip", bzip2 |-> "bzip2", ustar |-> "tar"]
ByName == [zip |-> "zip", tar |-> "tar", gz |-> "gzip", bz2 |-> "bzip2"]
ArchiveFormat(name, media, kind) ==
    IF kind \in DOMAIN ByContent THEN ByContent[kind]
    ELSE IF name \in DOMAIN ByName THEN ByName[name]
    ELSE IF media \in DOMAIN ByName THEN ByName[media]
    ELSE ""

ConfiguredFormatSignature(kind) == kind \in {"rar", "lnk"} \cap Blocked
BinaryExecutableSignature(kind) == kind = "MZ"
ExecutableSignature(kind) == BinaryExecutableSignature(kind) \/ kind = "script"
ProhibitedSignature(kind) == ConfiguredFormatSignature(kind) \/ ExecutableSignature(kind)
Prohibited(kind) == InspectSignatures /\ ProhibitedSignature(kind)

DisguisedBinaryContent(kind) ==
    \/ InspectSignatures /\ (BinaryExecutableSignature(kind) \/ ConfiguredFormatSignature(kind))
    \/ InspectArchives /\ ArchiveFormat("", "", kind) # ""

-----------------------------------------------------------------------------
(* scanMIME and scanRFC822                                                 *)

Bare == [media |-> ""]
MimeCall(e, d) == Frame("mime", d, 0, 0, FALSE, e)
RFC822Call(d) == Frame("rfc822", d, 0, 0, FALSE, Bare)
FileCall(name, media, kind, a) ==
    Frame("file", 0, a, 0, FALSE, [name |-> name, media |-> media, kind |-> kind])

IsMessage(e) == e.media = "rfc822" \/ e.name = "eml"

\* Down to the transfer decoding: depth, media type, boundary and filename.
ScanMIME(s, f, n) ==
    IF cancelled \/ f.d >= MaxMIMEDepth THEN Return(s, Failed)
    ELSE IF f.x.media \in {"invalid", "unbounded"} THEN Return(s, Failed)
    ELSE IF f.x.media \in {"multipart", "digest"}
         THEN Become(s, Frame("multi", f.d, 0, n, FALSE, [media |-> f.x.media]))
    ELSE IF f.x.name = "bad" THEN Return(s, Failed)
    ELSE IF BlockedExtension(f.x.name) THEN Return(s, Finding)
    ELSE Become(s, [f EXCEPT !.k = "leaf"])

\* The rest of scanMIME, with the content decodeTransferStrict produced.
ScanLeaf(s, f, kind) ==
    LET file == FileCall(f.x.name, f.x.media, kind, 0)
    IN  IF f.x.name = "" /\ f.x.media = "text"
        THEN IF \/ f.d > 0 /\ ~f.x.typed
                \/ f.x.attach
                \/ f.d > 0 /\ DisguisedBinaryContent(kind)
             THEN Become(s, file)
             ELSE Return(s, Clean)
        ELSE IF IsMessage(f.x) THEN Become(s, RFC822Call(f.d))
        ELSE Become(s, file)

\* decodeTransferStrict failed: what it did decode is still searched.
ScanUndecoded(s, f, kind) ==
    IF Prohibited(kind) THEN Return(s, Finding)
    ELSE IF IsMessage(f.x)
         THEN Push(Become(s, [f EXCEPT !.k = "undecoded", !.x.kind = kind]), RFC822Call(f.d))
    ELSE Become(s, [f EXCEPT !.k = "partly", !.x.kind = kind])

UndecodedMessage(s, f) ==
    IF s.ret \in {Finding, Failed} THEN Return(s, s.ret)
    ELSE Become([s EXCEPT !.ret = Running], [f EXCEPT !.k = "partly"])

ScanPartly(s, f) ==
    IF InspectArchives /\ ArchiveFormat(f.x.name, f.x.media, f.x.kind) # ""
    THEN Push(Become(s, [f EXCEPT !.k = "decoded"]),
              FileCall(f.x.name, f.x.media, f.x.kind, 0))
    ELSE Return(s, Failed)

UndecodedArchive(s, f) == Return(s, IF s.ret = Finding THEN Finding ELSE Failed)

\* One turn of the multipart loop: a part (its body read whole or not).
NextPart(s, f, e, whole) ==
    LET part == IF f.x.media = "digest" /\ ~e.typed THEN [e EXCEPT !.media = "rfc822"] ELSE e
    IN  Push(Become(s, [f EXCEPT !.n = @ - 1, !.err = @ \/ ~whole]), MimeCall(part, f.d + 1))

\* Mutant of PartScanned: only the error of the last part is kept.
PartScannedForgets(s, f) ==
    IF s.ret = Finding THEN Return(s, Finding)
    ELSE Become([s EXCEPT !.ret = Running], [f EXCEPT !.err = s.ret = Failed])

PartScanned(s, f) ==
    IF s.ret = Finding THEN Return(s, Finding)
    ELSE Become([s EXCEPT !.ret = Running], [f EXCEPT !.err = @ \/ s.ret = Failed])

PartsEnd(s, f) == Return(s, IF f.err THEN Failed ELSE Clean)

ScanRFC822(s, f, e, readable) ==
    IF cancelled \/ f.d >= MaxMIMEDepth \/ ~readable THEN Return(s, Failed)
    ELSE Become(s, MimeCall(e, f.d + 1))

-----------------------------------------------------------------------------
(* The archive budgets                                                     *)

CheckArchiveFileSize(s, declared) ==
    declared <= MaxAttachmentBytes /\ declared <= MaxArchiveBytes - s.bytes

BeginArchiveFile(s, declared) ==
    s.files < MaxArchiveFiles /\ CheckArchiveFileSize(s, declared)

\* readArchiveEntry: the bytes it returns, and whether without an error.
\* Mutant of EntryLimit: what earlier entries decompressed to does not count.
EntryLimitOwn(s) == MaxAttachmentBytes
EntryLimit(s) == Min({MaxAttachmentBytes, MaxArchiveBytes - s.bytes})
EntryBytes(s, x) ==
    IF cancelled \/ EntryLimit(s) <= 0 THEN 0 ELSE Min({x.size, EntryLimit(s)})
EntryKind(s, x) == IF EntryBytes(s, x) > 0 THEN x.kind ELSE ""
EntryRead(s, x) == ~cancelled /\ EntryLimit(s) > 0 /\ x.intact /\ x.size <= EntryLimit(s)

\* countZIPDirectory over one candidate directory: [entries, bytes, complete].
CountZIPDirectory(c, entryLimit, byteLimit) ==
    IF c.entries > entryLimit \/ c.bytes > byteLimit THEN "limit"
    ELSE IF ~c.complete THEN "format"
    ELSE "ok"

\* The directories it reads: at the inferred and, if it differs, the advertised offset.
Candidates(dir) == {dir.counts[i] : i \in 1..Len(dir.counts)}

\* admitZIPDirectory: "ok" (reserving the entries), "format" or "limit".
Admission(s, dir) ==
    LET remaining == MaxArchiveFiles - s.files
        counted == [i \in 1..Len(dir.counts) |->
                       CountZIPDirectory(dir.counts[i], remaining,
                                         MaxZIPMetadata - s.meta - dir.fixed)]
        errors == SelectSeq(counted, LAMBDA r : r # "ok")
    IN  IF ~dir.located THEN "format"
        ELSE IF dir.records > remaining THEN "limit"
        ELSE IF ~dir.inside THEN "format"
        ELSE IF dir.fixed > MaxZIPMetadata - s.meta THEN "limit"
        ELSE IF errors # <<>> THEN errors[1]
        ELSE IF \A c \in Candidates(dir) : dir.records > c.entries THEN "format"
        ELSE "ok"

AdmitZIPDirectory(s, dir) ==
    [s EXCEPT !.files = @ + Max({c.entries : c \in Candidates(dir)}),
              !.meta = @ + dir.fixed + Max({c.bytes : c \in Candidates(dir)})]

-----------------------------------------------------------------------------
(* scanFile, scanZIP, scanPartialZIP and scanTAR                           *)

ScanFile(s, f, n, opens) ==
    LET format == ArchiveFormat(f.x.name, f.x.media, f.x.kind)
    IN  IF cancelled THEN Return(s, Failed)
        ELSE IF BlockedExtension(f.x.name) \/ Prohibited(f.x.kind) THEN Return(s, Finding)
        ELSE IF ~InspectArchives \/ format = "" THEN Return(s, Clean)
        ELSE IF f.a >= MaxArchiveDepth THEN Return(s, Failed)
        ELSE IF format = "zip" THEN Become(s, Frame("zip", 0, f.a + 1, 0, FALSE, Bare))
        ELSE IF format = "tar" THEN Become(s, Frame("tar", 0, f.a + 1, n, FALSE, Bare))
        ELSE IF (format = "gzip" /\ ~opens) \/ ~BeginArchiveFile(s, 0) THEN Return(s, Failed)
        ELSE Become([s EXCEPT !.files = @ + 1], Frame("stream", 0, f.a + 1, 0, FALSE, Bare))

\* A gzip or bzip2 stream is read whole and scanned as a file one level deeper.
ScanStream(s, f, x) ==
    LET t == [s EXCEPT !.bytes = @ + EntryBytes(s, x)]
    IN  IF EntryRead(s, x)
        THEN Become(t, FileCall(x.name, "binary", EntryKind(s, x), f.a))
        ELSE Return(t, Failed)

\* scanZIP down to its loop; zip.NewReader yields one of the candidates.
ScanZIP(s, f, dir, c, opens, n) ==
    IF cancelled \/ Admission(s, dir) = "limit" THEN Return(s, Failed)
    ELSE IF Admission(s, dir) = "ok" /\ opens
         THEN Become(AdmitZIPDirectory(s, dir), [f EXCEPT !.k = "entries", !.n = c.entries])
    ELSE Become(IF Admission(s, dir) = "ok" THEN AdmitZIPDirectory(s, dir) ELSE s,
                [f EXCEPT !.k = "partial", !.n = n])

\* What is decided from an entry's header, before any of it is read.
ZIPEntry(s, f, x) ==
    IF cancelled THEN Return(s, Failed)
    ELSE LET t == Become(s, [f EXCEPT !.n = @ - 1])
         IN  IF x.skip THEN t
             ELSE IF x.encrypted THEN Return(s, Failed)
             ELSE IF BlockedExtension(x.name) THEN Return(s, Finding)
             ELSE IF ~CheckArchiveFileSize(s, x.declared) THEN Return(s, Failed)
             ELSE Push(t, Frame("entry", 0, f.a, 0, FALSE, x))

TAREntry(s, f, x) ==
    IF cancelled THEN Return(s, Failed)
    ELSE LET t == Become(s, [f EXCEPT !.n = @ - 1])
         IN  IF x.skip THEN t
             ELSE IF ~BeginArchiveFile(s, x.declared) THEN Return(s, Failed)
             ELSE IF BlockedExtension(x.name)
                  THEN Return([s EXCEPT !.files = @ + 1], Finding)
             ELSE Push([t EXCEPT !.files = @ + 1], Frame("entry", 0, f.a, 0, FALSE, x))

\* A local header of a damaged ZIP; complete: its data is all there.
PartialEntry(s, f, x, method, complete) ==
    IF cancelled \/ x.encrypted THEN Return(s, Failed)
    ELSE IF BlockedExtension(x.name) THEN Return(s, Finding)
    ELSE IF ~BeginArchiveFile(s, x.declared) THEN Return(s, Failed)
    ELSE IF ~method THEN Return([s EXCEPT !.files = @ + 1], Failed)
    ELSE Push(Become([s EXCEPT !.files = @ + 1], [f EXCEPT !.n = @ - 1, !.err = ~complete]),
              Frame("local", 0, f.a, 0, FALSE, x))

\* The entry read and, when that went well, scanned as a file.
ReadEntry(s, f) ==
    LET t == [s EXCEPT !.bytes = @ + EntryBytes(s, f.x)]
    IN  IF Prohibited(EntryKind(s, f.x)) THEN Return(t, Finding)
        ELSE IF ~EntryRead(s, f.x) THEN Return(t, Failed)
        ELSE Become(t, FileCall(f.x.name, "binary", EntryKind(s, f.x), f.a))

\* In a damaged ZIP a nested archive is scanned even if reading it failed.
ReadLocal(s, f) ==
    LET t == [s EXCEPT !.bytes = @ + EntryBytes(s, f.x),
                       !.stack[2].err = @ \/ ~EntryRead(s, f.x)]
    IN  IF Prohibited(EntryKind(s, f.x)) THEN Return(t, Finding)
        ELSE IF InspectArchives /\ ArchiveFormat(f.x.name, "binary", EntryKind(s, f.x)) # ""
             THEN Become(t, FileCall(f.x.name, "binary", EntryKind(s, f.x), f.a))
        ELSE Return(t, Clean)

EntryScanned(s, f) ==
    IF s.ret \in {Finding, Failed} THEN Return(s, s.ret) ELSE [s EXCEPT !.ret = Running]

LocalScanned(s, f) ==
    IF s.ret = Finding THEN Return(s, Finding)
    ELSE IF f.err THEN Return(s, Failed)
    ELSE [s EXCEPT !.ret = Running]

-----------------------------------------------------------------------------
ScannerInit ==
    /\ \E e \in Entities :
         scan = [stack |-> <<MimeCall(e, 0)>>, ret |-> Running,
                 files |-> 0, bytes |-> 0, meta |-> 0]
    /\ cancelled = FALSE
    /\ failed = FALSE /\ found = FALSE /\ unread = FALSE /\ opened = 0

Calling(k) == scan.stack # <<>> /\ scan.ret = Running /\ Top(scan).k = k
Returned(k) == scan.stack # <<>> /\ scan.ret # Running /\ Top(scan).k = k

\* The scanner moves to s.
Step(s) ==
    /\ scan' = s
    /\ failed' = (failed \/ s.ret = Failed)
    /\ found' = (found \/ s.ret = Finding)
    /\ unread' = (unread \/ (Len(s.stack) < Len(scan.stack) /\ Top(scan).n > 0))
    /\ opened' = opened + (IF Top(scan).k \in {"entry", "local", "stream"}
                              /\ scan.ret = Running THEN 1 ELSE 0)
    /\ UNCHANGED cancelled

Mime == /\ Calling("mime")
        /\ \E n \in 0..MaxParts : Step(ScanMIME(scan, Top(scan), n))
Leaf == /\ Calling("leaf")
        /\ LET f == Top(scan) IN
           \/ ~cancelled /\ f.x.decodes /\ Step(ScanLeaf(scan, f, f.x.kind))
           \/ /\ cancelled \/ ~f.x.decodes
              /\ \E kind \in {"", f.x.kind} : Step(ScanUndecoded(scan, f, kind))
Undecoded == Returned("undecoded") /\ Step(UndecodedMessage(scan, Top(scan)))
Partly == Calling("partly") /\ Step(ScanPartly(scan, Top(scan)))
Decoded == Returned("decoded") /\ Step(UndecodedArchive(scan, Top(scan)))
Multi == /\ Calling("multi")
         /\ \/ cancelled /\ Step(Return(scan, Failed))
            \/ ~cancelled /\ Top(scan).n = 0 /\ Step(PartsEnd(scan, Top(scan)))
            \/ ~cancelled /\ Top(scan).n > 0 /\ Step(Return(scan, Failed))
            \/ /\ ~cancelled /\ Top(scan).n > 0
               /\ \E e \in Entities, whole \in BOOLEAN : Step(NextPart(scan, Top(scan), e, whole))
Part == Returned("multi") /\ Step(PartScanned(scan, Top(scan)))
RFC822 == /\ Calling("rfc822")
          /\ \E e \in Entities, readable \in BOOLEAN :
                Step(ScanRFC822(scan, Top(scan), e, readable))
File == /\ Calling("file")
        /\ \E n \in 0..MaxParts, opens \in BOOLEAN : Step(ScanFile(scan, Top(scan), n, opens))
Stream == Calling("stream") /\ \E x \in Entries : Step(ScanStream(scan, Top(scan), x))
OpenZip == /\ Calling("zip")
       /\ \E dir \in Directories : \E c \in Candidates(dir), opens \in BOOLEAN, n \in 0..MaxParts :
             Step(ScanZIP(scan, Top(scan), dir, c, opens, n))
Zipped == /\ Calling("entries")
          /\ \/ Top(scan).n = 0 /\ Step(Return(scan, Clean))
             \/ Top(scan).n > 0 /\ \E x \in Entries : Step(ZIPEntry(scan, Top(scan), x))
Tar == /\ Calling("tar")
       /\ \/ Top(scan).n = 0 /\ Step(Return(scan, IF cancelled THEN Failed ELSE Clean))
          \/ Top(scan).n > 0 /\ Step(Return(scan, Failed))
          \/ Top(scan).n > 0 /\ \E x \in Entries : Step(TAREntry(scan, Top(scan), x))
\* Without (another) local header it gives up: the ZIP was not inspected.
Partial == /\ Calling("partial")
           /\ \/ Step(Return(scan, Failed))
              \/ /\ Top(scan).n > 0
                 /\ \E x \in Entries, method \in BOOLEAN, complete \in BOOLEAN :
                       Step(PartialEntry(scan, Top(scan), x, method, complete))
Entry == Calling("entry") /\ Step(ReadEntry(scan, Top(scan)))
Local == Calling("local") /\ Step(ReadLocal(scan, Top(scan)))
Scanned == /\ Returned("entries") \/ Returned("tar")
           /\ Step(EntryScanned(scan, Top(scan)))
PartialScanned == Returned("partial") /\ Step(LocalScanned(scan, Top(scan)))

\* The message's deadline or the server's shutdown.
Cancel == /\ ~cancelled /\ scan.stack # <<>>
          /\ cancelled' = TRUE
          /\ UNCHANGED <<scan, failed, found, unread, opened>>

ScannerStep ==
    \/ Mime \/ Leaf \/ Undecoded \/ Partly \/ Decoded \/ Multi \/ Part \/ RFC822
    \/ File \/ Stream \/ OpenZip \/ Zipped \/ Tar \/ Partial \/ Entry \/ Local
    \/ Scanned \/ PartialScanned

ScannerNext == ScannerStep \/ Cancel

-----------------------------------------------------------------------------
(* Properties                                                              *)

ScanEnded == scan.stack = <<>>

\* ScanContext answers for everything it went through: it reports a Finding
\* exactly when some nested call produced one (an error met earlier in a
\* sibling part, or while decoding, does not hide it), and it calls a message
\* clean only if no nested call failed, was cancelled or ran into a limit,
\* and no multipart or archive was left with parts unread.
VerdictHonest ==
    ScanEnded => /\ (scan.ret = Finding) <=> found
                 /\ scan.ret = Clean => ~failed /\ ~unread

PendingEntries(s) ==
    LET pending[i \in 0..Len(s.stack)] ==
            IF i = 0 THEN 0
            ELSE pending[i - 1] + (CASE s.stack[i].k = "entries" -> s.stack[i].n
                                     [] s.stack[i].k \in {"entry", "local", "stream"} -> 1
                                     [] OTHER -> 0)
    IN  pending[Len(s.stack)]

\* One message has one budget, however its archives are nested: the entries
\* read so far together with those that the pending archives still hold were
\* all reserved, and the reservation, the bytes decompressed (declared sizes
\* are not trusted) and the ZIP metadata stay within the configured limits.
BudgetsShared ==
    /\ opened + PendingEntries(scan) <= scan.files
    /\ scan.files <= MaxArchiveFiles
    /\ scan.bytes <= MaxArchiveBytes
    /\ scan.meta <= MaxZIPMetadata
    /\ \A i \in 1..Len(scan.stack) : /\ scan.stack[i].d <= MaxMIMEDepth
                                      /\ scan.stack[i].a <= MaxArchiveDepth

\* ScanContext tells the truth about the message and stays within its budgets.
ScanSound == VerdictHonest /\ BudgetsShared

=============================================================================
