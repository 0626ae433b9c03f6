---------------------------- MODULE MCHardFork ----------------------------
(* Two releases: the second one schedules one more fork.                     *)
EXTENDS HardFork

CONSTANTS Threshold      \* percentage of votes a fork needs; 0 as deployed

ForkAt(v, h) == [version |-> v, height |-> h, threshold |-> IF v = 1 THEN 0 ELSE Threshold]
MCTables == {<<ForkAt(1, 1), ForkAt(2, 2)>>, <<ForkAt(1, 1), ForkAt(2, 2), ForkAt(3, 3)>>}
=============================================================================
