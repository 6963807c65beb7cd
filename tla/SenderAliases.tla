---------------------------- MODULE SenderAliases ----------------------------
(***************************************************************************)
(* Whether an authenticated identity owns the envelope sender of a command *)
(* message through the aliases file (milter/aliases.go).  The file is read *)
(* line by line into single-target aliases, then the chain from the sender *)
(* is followed.                                                            *)
(*                                                                         *)
(* A line is what is left without its comment: whether it is indented, and *)
(* its words.  ":" and "," are words.                                      *)
(***************************************************************************)
EXTENDS Integers, Sequences, FiniteSets, SequencesExt

CONSTANTS
    AliasNames, \* valid alias names
    FileLines,  \* lines a file may have
    MaxLines,   \* bound: lines of a file
    MaxEntry,   \* words of an entry (64 KiB in the code)
    MaxChain    \* aliases followed (16 in the code)

VARIABLES
    sender,   \* local part of the envelope sender, "elsewhere" in another domain
    wanted,   \* local name of the identity, "invalid" if it has none
    file,     \* the lines read
    entry,    \* words of the entry being put together
    aliases,  \* name -> its single target
    walk,     \* [current, seen, depth]
    verdict   \* "start", "reading", "walking", "owned" or "refused"

aliasVars == <<sender, wanted, file, entry, aliases, walk, verdict>>

ValidAliasName(words) == Len(words) = 1 /\ words[1] \in AliasNames
Put(f, k, v) == [n \in DOMAIN f \cup {k} |-> IF n = k THEN v ELSE f[n]]
Without(f, k) == [n \in DOMAIN f \ {k} |-> f[n]]

\* strings.Cut at the first colon.
ColonsOf(words) == {i \in 1..Len(words) : words[i] = ":"}
FirstColon(words) == CHOOSE i \in ColonsOf(words) : \A j \in ColonsOf(words) : i <= j
\* Mutant of Flush: an entry with several targets leaves an earlier one in force.
FlushKeepingOlder(known, words) ==
    LET key == SubSeq(words, 1, FirstColon(words) - 1)
        value == SubSeq(words, FirstColon(words) + 1, Len(words))
    IN  IF ColonsOf(words) = {} \/ ~ValidAliasName(key) \/ ~ValidAliasName(value) THEN known
        ELSE Put(known, key[1], value[1])

Flush(known, words) ==
    LET key == SubSeq(words, 1, FirstColon(words) - 1)
        value == SubSeq(words, FirstColon(words) + 1, Len(words))
    IN  IF ColonsOf(words) = {} \/ ~ValidAliasName(key) THEN known
        ELSE IF ValidAliasName(value) THEN Put(known, key[1], value[1])
        ELSE Without(known, key[1])

AliasesInit ==
    /\ sender \in AliasNames \cup {"elsewhere"} /\ wanted \in AliasNames \cup {"invalid"}
    /\ file = <<>> /\ entry = <<>> /\ aliases = <<>>
    /\ walk = [current |-> sender, seen |-> {}, depth |-> 0]
    /\ verdict = "start"

\* senderOwnedViaAliases up to the file; opening it may fail.
CheckAddresses ==
    /\ verdict = "start"
    /\ verdict' \in IF sender = "elsewhere" \/ wanted = "invalid" THEN {"refused"}
                    ELSE IF sender = wanted THEN {"owned"}
                    ELSE {"refused", "reading"}
    /\ UNCHANGED <<sender, wanted, file, entry, aliases, walk>>

\* The loop body of readSimpleAliases.
ReadLine(line) ==
    LET starts == line.words # <<>> /\ ~line.indented
        joined == (IF starts THEN <<>> ELSE entry) \o line.words
        skipped == line.words = <<>> \/ (line.indented /\ entry = <<>>)
    IN  /\ verdict = "reading" /\ Len(file) < MaxLines
        /\ file' = Append(file, line)
        /\ aliases' = IF starts THEN Flush(aliases, entry) ELSE aliases
        /\ entry' = IF skipped THEN entry ELSE joined
        /\ verdict' = IF ~skipped /\ Len(joined) > MaxEntry THEN "refused" ELSE "reading"
        /\ UNCHANGED <<sender, wanted, walk>>

ReadFails ==
    /\ verdict = "reading" /\ verdict' = "refused"
    /\ UNCHANGED <<sender, wanted, file, entry, aliases, walk>>

EndOfFile ==
    /\ verdict = "reading"
    /\ aliases' = Flush(aliases, entry) /\ entry' = <<>>
    /\ verdict' = "walking"
    /\ UNCHANGED <<sender, wanted, file, walk>>

\* Mutant of Follow: an alias seen before is followed again, and not counted.
FollowSeenAgain ==
    LET here == walk.current
        ends == walk.depth = MaxChain \/ here \notin DOMAIN aliases
    IN  /\ verdict = "walking"
        /\ verdict' = IF ends THEN "refused"
                      ELSE IF aliases[here] = wanted THEN "owned" ELSE "walking"
        /\ walk' = IF ends THEN walk
                   ELSE [current |-> aliases[here], seen |-> walk.seen \cup {here},
                         depth |-> Cardinality(walk.seen \cup {here})]
        /\ UNCHANGED <<sender, wanted, file, entry, aliases>>

\* One iteration of the loop that follows the chain.
Follow ==
    LET here == walk.current
        ends == walk.depth = MaxChain \/ here \in walk.seen \/ here \notin DOMAIN aliases
    IN  /\ verdict = "walking"
        /\ verdict' = IF ends THEN "refused"
                      ELSE IF aliases[here] = wanted THEN "owned" ELSE "walking"
        /\ walk' = IF ends THEN walk
                   ELSE [current |-> aliases[here], seen |-> walk.seen \cup {here},
                         depth |-> walk.depth + 1]
        /\ UNCHANGED <<sender, wanted, file, entry, aliases>>

\* One goroutine: it opens the file, reads it and follows the chain.
AliasesStep == CheckAddresses \/ ReadFails \/ EndOfFile \/ Follow
AliasesNext == AliasesStep \/ \E line \in FileLines : ReadLine(line)

-----------------------------------------------------------------------------
(* Properties                                                              *)

\* The logical entry line i starts: its words and those of the indented lines
\* after it, up to the next line that is not indented.
Starts(i) == file[i].words # <<>> /\ ~file[i].indented
EntryAt(i) ==
    LET later == {j \in (i + 1)..Len(file) : Starts(j)}
        end == IF later = {} THEN Len(file) ELSE (CHOOSE j \in later : \A k \in later : j <= k) - 1
    IN  FoldLeft(LAMBDA acc, j : acc \o file[j].words, <<>>, [k \in 1..(end - i + 1) |-> i + k - 1])
Defines(i, n) == Starts(i) /\ Len(EntryAt(i)) > 1 /\ EntryAt(i)[1] = n /\ EntryAt(i)[2] = ":"
\* The only target the file leaves n with.
Targets(n) ==
    {m \in AliasNames : \E i \in 1..Len(file) :
        /\ Defines(i, n) /\ EntryAt(i) = <<n, ":", m>>
        /\ \A j \in (i + 1)..Len(file) : ~Defines(j, n)}
Chains == UNION {[1..k -> AliasNames] : k \in 2..(MaxChain + 1)}
Leads(c) == /\ c[1] = sender /\ c[Len(c)] = wanted
            /\ \A k \in 1..(Len(c) - 1) : c[k + 1] \in Targets(c[k])

\* An identity owns the sender exactly when they are one name, or a chain of at
\* most sixteen entries, each the last one of its name and with a single target,
\* leads from the sender to the identity: a later or continued entry with more
\* recipients is never overlooked, and no chain is refused without a reason.
OwnershipProved ==
    /\ verdict = "owned" => sender = wanted \/ \E c \in Chains : Leads(c)
    /\ verdict = "walking" /\ walk.depth = 0 /\ sender # wanted =>
          DOMAIN aliases = {n \in AliasNames : Targets(n) # {}}
    /\ verdict = "refused" /\ walk.seen # {} => ~\E c \in Chains : Leads(c)

=============================================================================
