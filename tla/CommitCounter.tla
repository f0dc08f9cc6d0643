--------------------------- MODULE CommitCounter ----------------------------
(***************************************************************************)
(* What the counter service promises: a register that does not exist at    *)
(* first and that every commit moves on by exactly one, starting at zero.  *)
(***************************************************************************)
EXTENDS Integers

VARIABLES counter,   \* the committed value; None before the first commit
          commits    \* how many commits there have been

None == -1

Init == counter = None /\ commits = 0

Commit == /\ counter' = counter + 1
          /\ commits' = commits + 1

Spec == Init /\ [][Commit]_<<counter, commits>>
=============================================================================
