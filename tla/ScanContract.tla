---------------------------- MODULE ScanContract ----------------------------
(***************************************************************************)
(* What the scan pipeline promises about every pull request scan, without  *)
(* saying how: a scan is accepted, is attempted at most MaxRetries + 1     *)
(* times, becomes "completed" only after its report was posted on the pull *)
(* request, becomes "failed" only when its attempts are used up, and then  *)
(* never changes again.  ScanPipeline implements it.                       *)
(***************************************************************************)
EXTENDS Naturals

CONSTANTS Scans,      \* the scans that may be accepted
          MaxRetries  \* retries after the first attempt

VARIABLES status,     \* what a reader of the scan sees
          attempts,   \* attempts begun so far
          reports     \* reports posted on the pull request so far

vars == <<status, attempts, reports>>

Init == /\ status = [s \in Scans |-> "absent"]
        /\ attempts = [s \in Scans |-> 0]
        /\ reports = [s \in Scans |-> 0]

Accept(s) == /\ status[s] = "absent"
             /\ status' = [status EXCEPT ![s] = "queued"]
             /\ UNCHANGED <<attempts, reports>>

Begin(s) == /\ status[s] \in {"queued", "running"}
            /\ attempts[s] <= MaxRetries
            /\ attempts' = [attempts EXCEPT ![s] = @ + 1]
            /\ UNCHANGED <<status, reports>>

Start(s) == /\ status[s] = "queued" /\ attempts[s] > 0
            /\ status' = [status EXCEPT ![s] = "running"]
            /\ UNCHANGED <<attempts, reports>>

\* A report may be posted again by a later attempt, never twice by the same one.
Publish(s) == /\ status[s] = "running" /\ reports[s] < attempts[s]
              /\ reports' = [reports EXCEPT ![s] = @ + 1]
              /\ UNCHANGED <<status, attempts>>

Complete(s) == /\ status[s] = "running" /\ reports[s] > 0
               /\ status' = [status EXCEPT ![s] = "completed"]
               /\ UNCHANGED <<attempts, reports>>

Fail(s) == /\ status[s] \in {"queued", "running"}
           /\ attempts[s] = MaxRetries + 1
           /\ status' = [status EXCEPT ![s] = "failed"]
           /\ UNCHANGED <<attempts, reports>>

Next == \E s \in Scans : \/ Accept(s) \/ Begin(s) \/ Start(s)
                         \/ Publish(s) \/ Complete(s) \/ Fail(s)

Spec == Init /\ [][Next]_vars
=============================================================================
