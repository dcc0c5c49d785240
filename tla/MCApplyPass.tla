---------------------------- MODULE MCApplyPass -----------------------------
(* Instances of ApplyPass for TLC. *)
EXTENDS ApplyPass, TLC

CONSTANTS db, api, old, m1, m2

Policy(automated, live, wait, pruneFirst) ==
    [automated |-> automated, live |-> live, wait |-> wait, pruneFirst |-> pruneFirst]

\* db before api; old is of the last wave and leaves with the second commit.
TwoWaves == [r \in Releases |-> IF r = db THEN 0 ELSE 1]

\* The second commit upgrades api, which loses a service, and drops old.
TwoCommits == << [r \in Releases |-> m1],
                 [r \in Releases |-> CASE r = db -> m1 [] r = api -> m2 [] OTHER -> None] >>

Three == {Policy(TRUE, TRUE, FALSE, FALSE), Policy(TRUE, TRUE, TRUE, TRUE),
          Policy(FALSE, FALSE, FALSE, FALSE)}
=============================================================================
