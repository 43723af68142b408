-------------------------------- MODULE MCLog --------------------------------
(* Instances of Log for TLC. *)
EXTENDS Log, TLC

Symmetry == Permutations(Tasks)

\* Two tasks make five calls at most; and there is a sample or a dropped
\* future, whichever comes first, but not both.  No call waits for any of these.
MCNext ==
    /\ Next
    /\ samples' + cancels' <= 1
    /\ \A s, t \in Tasks : s # t => calls'[s] + calls'[t] <= 5

MCSpec == Init /\ [][MCNext]_vars /\ Fairness
=============================================================================
