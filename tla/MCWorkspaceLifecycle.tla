------------------------ MODULE MCWorkspaceLifecycle ------------------------
(***************************************************************************)
(* Instances of WorkspaceLifecycle for TLC.                                *)
(***************************************************************************)
EXTENDS WorkspaceLifecycle, TLC

CONSTANTS a, b, c, d, w1, w2

RequestSymmetry == Permutations(Requests)

\* Symmetry is unsound for liveness.  Instead the requests, which are alike, begin
\* in the order a, b, c; to begin is not fair, so that no fair behaviour is cut.
InTurn == (phase[b] # "new" => phase[a] # "new") /\ (phase[c] # "new" => phase[b] # "new")
=============================================================================
