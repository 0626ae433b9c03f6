------------------------------- MODULE Ledger -------------------------------
(***************************************************************************)
(* What the blockchain promises to those who read it: a chain that grows   *)
(* by a block, goes over to a better chain at once, is popped on demand,   *)
(* is cut back when a checkpoint above the first block rules it out, and   *)
(* after a crash is the chain of the last batch that was closed.  A        *)
(* switch, tried block by block and perhaps given up, is not to be seen.   *)
(***************************************************************************)
EXTENDS Integers, Sequences

CONSTANTS
    Block,    \* blocks other than the genesis block
    Path,     \* the blocks from the genesis block (excluded) to each block
    Work,     \* the cumulative difficulty at each block
    Releases  \* the checkpoints the node may hold

VARIABLES
    chain,  \* the chain a reader sees
    saved,  \* << >>, or the chain from before the open batch
    points  \* the checkpoints in force

ledger == <<chain, saved, points>>

WorkOf(c) == IF c = << >> THEN 0 ELSE Work[c[Len(c)]]

\* The heights at which a checkpoint rules the chain out.
RuledOut(c, pts) == {h \in DOMAIN pts : h <= Len(c) /\ c[h] /= pts[h]}

CutOf(c) == {SubSeq(c, 1, n) : n \in 0..Len(c)}

\* Cut back for the checkpoints pts, and only if one above the first block rules
\* the chain out.
Enforced(c, pts) ==
    IF RuledOut(c, pts) \subseteq {1} THEN {c}
    ELSE {d \in CutOf(c) : RuledOut(d, pts) \subseteq {1}}

Extend(b) ==
    /\ saved /= << >>
    /\ Path[b] = Append(chain, b)
    /\ chain' = Path[b]
    /\ UNCHANGED <<saved, points>>

\* To more work, or to a block a checkpoint names.
SwitchTo(b) ==
    /\ saved /= << >>
    /\ \/ Work[b] > WorkOf(chain)
       \/ Len(Path[b]) \in DOMAIN points /\ points[Len(Path[b])] = b
    /\ chain' = Path[b]
    /\ UNCHANGED <<saved, points>>

\* A chain that stayed although its first block is ruled out does not come back
\* when a switch away from it fails.
Lose ==
    /\ saved /= << >>
    /\ 1 \in RuledOut(chain, points)
    /\ chain' = << >>
    /\ UNCHANGED <<saved, points>>

Pop ==
    /\ saved = << >>
    /\ chain' \in CutOf(chain)
    /\ UNCHANGED <<saved, points>>

Release(pts) ==
    /\ saved /= << >>
    /\ points' = pts
    /\ chain' \in Enforced(chain, pts)
    /\ UNCHANGED saved

Open == saved = << >> /\ saved' = <<chain>> /\ UNCHANGED <<chain, points>>

Close == saved /= << >> /\ saved' = << >> /\ UNCHANGED <<chain, points>>

Recover(pts) ==
    /\ points' = pts
    /\ chain' \in Enforced(IF saved = << >> THEN chain ELSE saved[1], pts)
    /\ saved' = << >>

Init == chain = << >> /\ saved = << >> /\ points \in Releases

Next ==
    \/ \E b \in Block : Extend(b) \/ SwitchTo(b)
    \/ Lose \/ Pop \/ Open \/ Close
    \/ \E pts \in Releases : Release(pts) \/ Recover(pts)

Spec == Init /\ [][Next]_ledger

=============================================================================
