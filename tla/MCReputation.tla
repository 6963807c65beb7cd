----------------------------- MODULE MCReputation -----------------------------
(* What a rejection leaves behind, in the reputation of the address and in the
   archive: a behaviour explores one of the two while the other rests.  A tick
   of the reputation is a minute. *)
EXTENDS IPReputation, RejectionArchive

CONSTANTS a, b

VARIABLE part

\* One address is rejected; the other one only ever blocked by hand.
RejectionsOfOne == (a :> 2) @@ (b :> 0)

Escalating == [short |-> 1, threshold |-> 2, window |-> 2, repeat |-> 2,
               refresh |-> TRUE, perStrike |-> 1]
Patient == [short |-> 0, threshold |-> 2, window |-> 1, repeat |-> 1,
            refresh |-> FALSE, perStrike |-> 2]
ForgivingConfigs == {Escalating, Patient}
EveryUpdate == {"reject", "check", "attempt", "manual", "delete", "cleanup"}

Symmetry == Permutations(Sessions)

afterRejectionVars == <<reputationVars, archiveVars, part>>

AfterRejectionInit ==
  /\ ReputationInit /\ ArchiveInit
  /\ part \in {"reputation", "archive"}
  /\ part = "archive" => cfg = Escalating

AfterRejectionNext ==
  /\ UNCHANGED part
  /\ \/ part = "reputation" /\ ReputationNext /\ UNCHANGED archiveVars
     \/ part = "archive" /\ ArchiveNext /\ UNCHANGED reputationVars

AfterRejectionSpec == AfterRejectionInit /\ [][AfterRejectionNext]_afterRejectionVars
=============================================================================
