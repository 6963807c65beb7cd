---------------------------- MODULE MCSenderLists ----------------------------
(* An instance of SenderLists: a tick is longer than any update takes. *)
EXTENDS SenderLists, TLC

CONSTANT c1

OneDomain == (c1 :> <<"com">>)
AllFeatures == {"outbound", "inbound", "bypass", "authenticated", "subdomains"}
Everything == {"message", "learn", "manual", "distrust", "block", "unblock"}

CallerSymmetry == Permutations(Callers)
=============================================================================
