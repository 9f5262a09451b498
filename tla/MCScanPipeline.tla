--------------------------- MODULE MCScanPipeline ---------------------------
(***************************************************************************)
(* Instances of ScanPipeline for TLC: two events about the same head SHA   *)
(* (a pull request that is opened and then marked ready for review), a     *)
(* redelivery of the first one, an event that is not scanned, and a manual *)
(* scan.  Which of them take part, and with how many processes, workers    *)
(* and faults, is each configuration's choice.                             *)
(***************************************************************************)
EXTENDS ScanPipeline, TLC

CONSTANTS opened, again, ready, closed, manual, w1, w2, p1, p2, c1, c2

MCHead == [r \in Requests |-> "sha1"]
MCEvent == [r \in Requests |->
              CASE r = ready -> "ready_for_review"
                [] r = closed -> "closed"
                [] OTHER -> "opened"]
MCScannedEvents == {"opened", "reopened", "synchronize", "ready_for_review"}

FaultSymmetry ==
    Permutations({w1, w2}) \cup Permutations({p1, p2}) \cup Permutations({c1, c2})
=============================================================================
