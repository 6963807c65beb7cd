---------------------------- MODULE IPReputation ----------------------------
(***************************************************************************)
(* The reputation of sending addresses: the rows of ip_reputation and      *)
(* ip_strikes, and the calls that sessions, administrators and the         *)
(* periodic maintenance make on them (internal/milter/ip_reputation.go     *)
(* over internal/stores/sqlite/ip_reputation.go).                          *)
(*                                                                         *)
(* Every call reads the clock first and runs its statements later, so its  *)
(* time "at" can be older than the rows it meets.  A transaction and a     *)
(* single statement are atomic; the two statements of a call that has two  *)
(* are two steps.  A restart loses the calls, keeps the rows and may       *)
(* change the configuration.                                               *)
(***************************************************************************)
EXTENDS Integers, Sequences, FiniteSets

CONSTANTS
  IPs,              \* canonical addresses
  Allowlist,        \* the addresses of ip_allowlist
  Sessions,         \* goroutines that may be inside a call
  Updates,          \* the calls a run explores
  Configs,          \* the configurations a (re)start may load
  MaxBlockEntries,  \* ip_reputation.max_entries
  RefreshInterval,  \* repeatRefreshInterval
  MaxMinutes,       \* bound of the clock
  MaxRejections     \* bound on the remembered rejections of each address

VARIABLES
  cfg,        \* the configuration of the process
  minute,     \* the clock
  entries,    \* the two tables, by address
  update,     \* the call of each caller
  rejections  \* history: unforgiven rejections of the address since its last fresh start

reputationVars == <<cfg, minute, entries, update, rejections>>

Config == [short : Nat, threshold : Nat, window : Nat, repeat : Nat,
           refresh : BOOLEAN, perStrike : Nat]

\* validateIPReputation.
ASSUME ReputationAssumption ==
  /\ \A c \in Configs : /\ c \in Config
                        /\ c.threshold > 0 => c.window > 0 /\ c.repeat > 0
  /\ Configs # {} /\ Allowlist \subseteq IPs
  /\ IsFiniteSet(IPs)
  /\ Updates \subseteq {"reject", "check", "attempt", "manual", "delete", "cleanup"}
  /\ MaxBlockEntries \in Nat \ {0} /\ RefreshInterval \in Nat \ {0}
  /\ MaxMinutes \in Nat /\ MaxRejections \in [IPs -> Nat]

Blocked == {"short", "repeat"}
Levels == {"absent", "none"} \cup Blocked

\* An address without a row; deleting a row deletes its strikes.
NoEntry == [level |-> "absent", until |-> 0, legit |-> 0, last |-> 0, strikes |-> <<>>]

\* Strikes are kept in the order of their times; strikes of one time cannot be
\* told apart.
Entry == [level : Levels, until : Nat, legit : Nat, last : Nat, strikes : Seq(Nat)]

present == {ip \in IPs : entries[ip].level # "absent"}

activeAt(row, t) == row.level \in Blocked /\ row.until > t

enabled == cfg.short > 0 \/ cfg.threshold > 0

Resting == {"idle", "refused", "admitted"}

NoUpdate(outcome) == [op |-> outcome, ip |-> CHOOSE ip \in IPs : TRUE, at |-> 0]

ReturnUpdate(s, outcome) == update' = [update EXCEPT ![s] = NoUpdate(outcome)]

Become(s, op) == update' = [update EXCEPT ![s].op = op]

-----------------------------------------------------------------------------
(* Strikes. *)

insideWindow(strikes, t) ==
  LET recent(x) == x > t - cfg.window IN SelectSeq(strikes, recent)

inserted(strikes, t) ==
  LET early(x) == x <= t
      late(x) == x > t
  IN SelectSeq(strikes, early) \o <<t>> \o SelectSeq(strikes, late)

newest(strikes, n) ==
  IF Len(strikes) <= n THEN strikes
  ELSE SubSeq(strikes, Len(strikes) - n + 1, Len(strikes))

\* pruneStrikesTx.
pruned(strikes, t) ==
  IF cfg.threshold = 0 \/ cfg.window <= 0 THEN <<>> ELSE insideWindow(strikes, t)

-----------------------------------------------------------------------------
(* Calls. *)

\* A caller enters a call and reads the clock.  The policy answers for an
\* allowlisted address without the store, except for a deletion and a credit.
BeginUpdate(s) ==
  /\ update[s].op \in Resting /\ enabled
  /\ \E op \in Updates, ip \in IPs :
       /\ op \in {"reject", "attempt", "manual"} => ip \notin Allowlist
       /\ op = "check" => cfg.perStrike > 0
       /\ op = "cleanup" => ip = NoUpdate("idle").ip
       /\ op = "reject" => Len(rejections[ip]) < MaxRejections[ip]
       /\ update' = [update EXCEPT ![s] = [op |-> op, ip |-> ip, at |-> minute]]
  /\ UNCHANGED <<cfg, minute, entries, rejections>>

\* Mutant: an expired repeat block does not start fresh.
expiredRepeatKept(row, t) == FALSE

expiredRepeat(row, t) == row.level = "repeat" /\ row.until <= t

\* The block a rejection leaves: the configured one, unless an active one
\* lasts longer, or as long at a higher level.
blockAfter(row, level, until, t) ==
  IF activeAt(row, t) /\ \/ level = "none" \/ row.until > until
                         \/ /\ row.until = until
                            /\ row.level = "repeat" /\ level # "repeat"
  THEN [level |-> row.level, until |-> row.until]
  ELSE [level |-> level, until |-> until]

\* Mutant: one strike too few suffices.
escalatesEarly(strikes) == cfg.threshold > 0 /\ Len(strikes) >= cfg.threshold - 1

escalates(strikes) == cfg.threshold > 0 /\ Len(strikes) >= cfg.threshold

struck(row, t) ==
  LET base == IF expiredRepeat(row, t) THEN NoEntry ELSE row
      strikes == IF cfg.threshold > 0
                 THEN newest(insideWindow(inserted(base.strikes, t), t), cfg.threshold)
                 ELSE <<>>
      block == CASE escalates(strikes) -> blockAfter(base, "repeat", t + cfg.repeat, t)
                 [] ~escalates(strikes) /\ cfg.short > 0 ->
                      blockAfter(base, "short", t + cfg.short, t)
                 [] OTHER -> blockAfter(base, "none", 0, t)
  IN [level |-> block.level, until |-> block.until, legit |-> 0, last |-> t,
      strikes |-> strikes]

RecordRejection(s) ==
  /\ update[s].op = "reject"
  /\ LET ip == update[s].ip  t == update[s].at
         fresh == entries[ip].level = "repeat" /\ entries[ip].until <= t
     IN /\ entries' = [entries EXCEPT ![ip] = struck(@, t)]
        /\ rejections' = [rejections EXCEPT ![ip] = inserted(IF fresh THEN <<>> ELSE @, t)]
  /\ ReturnUpdate(s, "idle")
  /\ UNCHANGED <<cfg, minute>>

\* RecordLegitimate looks for a current strike outside its transaction.
hasCurrentStrike(s) ==
  /\ update[s].op = "check"
  /\ IF /\ cfg.threshold > 0 /\ cfg.window > 0
        /\ insideWindow(entries[update[s].ip].strikes, update[s].at) # <<>>
     THEN Become(s, "credit") ELSE ReturnUpdate(s, "idle")
  /\ UNCHANGED <<cfg, minute, entries, rejections>>

\* The transaction of RecordLegitimate.
credited(row, t) ==
  LET strikes == pruned(row.strikes, t)
      pays == row.legit + 1 >= cfg.perStrike
      left == IF pays THEN Tail(strikes) ELSE strikes
  IN CASE row.level = "absent" -> row
       [] row.level # "absent" /\ strikes = <<>> ->
            IF activeAt(row, t) THEN [row EXCEPT !.legit = 0, !.strikes = <<>>]
            ELSE NoEntry
       [] OTHER ->
            IF left = <<>> /\ ~activeAt(row, t) THEN NoEntry
            ELSE [row EXCEPT !.strikes = left, !.last = t,
                             !.legit = IF pays THEN 0 ELSE @ + 1]

RecordLegitimate(s) ==
  /\ update[s].op = "credit"
  /\ LET ip == update[s].ip  t == update[s].at
         row == entries[ip]
         forgives == /\ row.level # "absent" /\ pruned(row.strikes, t) # <<>>
                     /\ row.legit + 1 >= cfg.perStrike
     IN /\ entries' = [entries EXCEPT ![ip] = credited(@, t)]
        /\ rejections' = [rejections EXCEPT ![ip] =
                            CASE entries'[ip] = NoEntry -> <<>>
                              [] entries'[ip] # NoEntry /\ forgives ->
                                   SubSeq(insideWindow(@, t), 2, Len(insideWindow(@, t)))
                              [] OTHER -> @]
  /\ ReturnUpdate(s, "idle")
  /\ UNCHANGED <<cfg, minute>>

\* ActiveBlockForAttempt reads the block and, for a repeat block that was not
\* refreshed within the interval, goes on to extend it.
readActiveBlock(s) ==
  /\ update[s].op = "attempt"
  /\ LET row == entries[update[s].ip]  t == update[s].at
         extends == /\ row.level = "repeat" /\ cfg.refresh
                    /\ t + cfg.repeat - row.until >= RefreshInterval
     IN IF ~activeAt(row, t) THEN ReturnUpdate(s, "admitted")
        ELSE IF extends THEN Become(s, "refresh") ELSE ReturnUpdate(s, "refused")
  /\ UNCHANGED <<cfg, minute, entries, rejections>>

\* Mutant: the statement does not compare with the stored expiry.
refreshedBlindly(row, t) ==
  IF row.level = "repeat" /\ row.until > t
  THEN [row EXCEPT !.until = t + cfg.repeat, !.last = t] ELSE row

\* The conditional UPDATE of refreshRepeatBlock.
refreshed(row, t) ==
  IF /\ row.level = "repeat" /\ row.until > t
     /\ row.until <= t + cfg.repeat - RefreshInterval
  THEN [row EXCEPT !.until = t + cfg.repeat, !.last = t] ELSE row

refreshRepeatBlock(s) ==
  /\ update[s].op = "refresh"
  /\ entries' = [entries EXCEPT ![update[s].ip] = refreshed(@, update[s].at)]
  /\ ReturnUpdate(s, "refused")
  /\ UNCHANGED <<cfg, minute, rejections>>

AddManualBlock(s) ==
  /\ update[s].op = "manual"
  /\ LET repeats == cfg.repeat > 0
         until == update[s].at + (IF repeats THEN cfg.repeat ELSE cfg.short)
     IN entries' = [entries EXCEPT ![update[s].ip] =
                      [@ EXCEPT !.level = IF repeats THEN "repeat" ELSE "short",
                                !.until = until, !.legit = 0, !.last = update[s].at]]
  /\ ReturnUpdate(s, "idle")
  /\ UNCHANGED <<cfg, minute, rejections>>

Delete(s) ==
  /\ update[s].op = "delete"
  /\ entries' = [entries EXCEPT ![update[s].ip] = NoEntry]
  /\ rejections' = [rejections EXCEPT ![update[s].ip] = <<>>]
  /\ ReturnUpdate(s, "idle")
  /\ UNCHANGED <<cfg, minute>>

\* The statements of Cleanup before the capacity is enforced.
swept(row, t) ==
  LET strikes == pruned(row.strikes, t)
      expired == row.level = "short" /\ row.until <= t
      level == IF expired THEN "none" ELSE row.level
  IN IF row.level = "absent" \/ expiredRepeat(row, t) \/ (level = "none" /\ strikes = <<>>)
     THEN NoEntry
     ELSE [row EXCEPT !.level = level, !.strikes = strikes,
                      !.until = IF expired THEN 0 ELSE @]

\* Mutant: repeat blocks go first.
usefulnessInverted(level) ==
  CASE level = "repeat" -> 0 [] level = "short" -> 1 [] OTHER -> 2

\* The order in which enforceCapacityTx visits the levels.
usefulness(level) == CASE level = "repeat" -> 2 [] level = "short" -> 1 [] OTHER -> 0

\* The oldest rows of the least useful level first; rows of equal age by id.
evictable(table, E) ==
  \A e \in E : \A k \in {ip \in IPs : table[ip].level # "absent"} \ E :
    LET re == usefulness(table[e].level)  rk == usefulness(table[k].level)
    IN re < rk \/ (re = rk /\ table[e].last <= table[k].last)

Cleanup(s) ==
  /\ update[s].op = "cleanup"
  /\ LET table == [ip \in IPs |-> swept(entries[ip], update[s].at)]
         kept == {ip \in IPs : table[ip].level # "absent"}
         excess == IF Cardinality(kept) > MaxBlockEntries
                   THEN Cardinality(kept) - MaxBlockEntries ELSE 0
     IN \E E \in SUBSET kept :
          /\ Cardinality(E) = excess /\ evictable(table, E)
          /\ entries' = [ip \in IPs |-> IF ip \in E THEN NoEntry ELSE table[ip]]
          /\ rejections' = [ip \in IPs |-> IF entries'[ip] = NoEntry THEN <<>> ELSE rejections[ip]]
  /\ ReturnUpdate(s, "idle")
  /\ UNCHANGED <<cfg, minute>>

\* A statement or transaction fails or its context ends: it changes nothing.
\* lookup() answers "not blocked" for any error; the other callers go on.
FailUpdate(s) ==
  /\ update[s].op \notin Resting
  /\ ReturnUpdate(s, IF update[s].op \in {"attempt", "refresh"} THEN "admitted" ELSE "idle")
  /\ UNCHANGED <<cfg, minute, entries, rejections>>

Minute == minute < MaxMinutes /\ minute' = minute + 1 /\ UNCHANGED <<cfg, entries, update, rejections>>

\* The process stops at any moment and starts with another configuration.
Restart ==
  /\ cfg' \in Configs
  /\ update' = [s \in Sessions |-> NoUpdate("idle")]
  /\ UNCHANGED <<minute, entries, rejections>>

ReputationInit ==
  /\ cfg \in Configs /\ minute = 0
  /\ entries = [ip \in IPs |-> NoEntry]
  /\ update = [s \in Sessions |-> NoUpdate("idle")]
  /\ rejections = [ip \in IPs |-> <<>>]

UpdateStep(s) ==
  \/ RecordRejection(s) \/ hasCurrentStrike(s) \/ RecordLegitimate(s)
  \/ readActiveBlock(s) \/ refreshRepeatBlock(s) \/ AddManualBlock(s)
  \/ Delete(s) \/ Cleanup(s)

ReputationNext == \/ \E s \in Sessions : BeginUpdate(s) \/ UpdateStep(s) \/ FailUpdate(s)
                  \/ Minute \/ Restart

ReputationSpec == ReputationInit /\ [][ReputationNext]_reputationVars

-----------------------------------------------------------------------------
(* Properties. *)

\* The shape of the tables; a call never carries a time of the future.
ReputationTypeOK ==
  /\ cfg \in Configs /\ minute \in Nat
  /\ entries \in [IPs -> Entry] /\ rejections \in [IPs -> Seq(Nat)]
  /\ \A s \in Sessions :
       /\ update[s].op \in Updates \cup Resting \cup {"credit", "refresh"}
       /\ update[s].ip \in IPs /\ update[s].at \in 0 .. minute

\* The step of a call on the address that ends the call.
Ends(s, ops, ip) ==
  update[s].op \in ops /\ update[s].ip = ip /\ update'[s].op \in Resting

\* A block that is active keeps its address blocked at least as long, whatever
\* late rejection, credit, refresh or maintenance runs (also under a changed
\* configuration).  Only IP ADD sets another expiry, and only IP DELETE or an
\* eviction over capacity ends it.
ActiveBlockLasts ==
  \A ip \in IPs : activeAt(entries[ip], minute) =>
    \/ entries'[ip].level \in Blocked /\ entries'[ip].until >= entries[ip].until
    \/ \E s \in Sessions : Ends(s, {"manual", "delete"}, ip)
    \/ /\ \E s \in Sessions : update[s].op = "cleanup" /\ update'[s].op = "idle"
       /\ Cardinality(present) > MaxBlockEntries

\* A repeat block that no administrator made follows from as many rejections
\* within the window as the threshold says, none of them forgiven and none from
\* before the last repeat block ran out.  What has been deleted comes back only
\* through a new rejection or IP ADD: a refresh, credit or cleanup that read the
\* row before inserts nothing.
EscalationJustified ==
  \A ip \in IPs :
    /\ (entries'[ip].level = "repeat" /\ entries[ip].level # "repeat") =>
         \E s \in Sessions :
           \/ Ends(s, {"manual"}, ip)
           \/ /\ Ends(s, {"reject"}, ip)
              /\ Len(insideWindow(rejections'[ip], update[s].at)) >= cfg.threshold
    /\ (entries[ip] = NoEntry /\ entries'[ip] # NoEntry) =>
         \E s \in Sessions : Ends(s, {"reject", "manual"}, ip)

\* The strikes of an address are unforgiven rejections of it.
StrikesAreRejections ==
  \A ip \in IPs : \A i \in DOMAIN entries[ip].strikes :
    Cardinality({j \in DOMAIN entries[ip].strikes : entries[ip].strikes[j] = entries[ip].strikes[i]})
      <= Cardinality({j \in DOMAIN rejections[ip] : rejections[ip][j] = entries[ip].strikes[i]})

\* After maintenance the table is within its capacity, and an address was
\* only evicted in favour of blocks that matter at least as much: a repeat
\* block never makes room for a short one, nor a block for plain strikes.
EvictionOrdered ==
  [][\A s \in Sessions :
       (update[s].op = "cleanup" /\ update'[s].op = "idle" /\ entries' # entries) =>
       /\ Cardinality(present') <= MaxBlockEntries
       /\ \A e, k \in IPs :
            (activeAt(entries[e], minute) /\ entries'[e] = NoEntry /\ k \in present')
              => /\ entries'[k].level \in Blocked
                 /\ entries[e].level = "repeat" => entries'[k].level = "repeat"]_reputationVars

\* A row is always one the store could have been asked for, and its strikes are
\* rejections of it that happened and have not been forgiven.
ReputationConsistent == ReputationTypeOK /\ StrikesAreRejections

\* A block is earned and then stands: RecordRejection, refreshRepeatBlock and
\* Cleanup never make, shorten or revive one without the rejections, or the
\* administrator, it takes.
BlocksEarned ==
  [][ReputationConsistent' /\ ActiveBlockLasts /\ EscalationJustified]_reputationVars

=============================================================================
