---------------------------- MODULE MCBlockchain ----------------------------
(***************************************************************************)
(* A tree of eight blocks.  a1 a2 a3 is the first chain.  c2 c3 forks from *)
(* it after a1, spends the key image a2 spends and spends it again in c3,  *)
(* so c3 does not verify.  d3 is the right sibling of c3, and heavier than *)
(* a3.  b1 has the work of a1 and b2 more than a3, but claims too much.    *)
(***************************************************************************)
EXTENDS Blockchain, TLC

CONSTANTS a1, a2, a3, b1, b2, c2, c3, d3, t1, t2

MCBlock == {a1, a2, a3, b1, b2, c2, c3, d3}

MCPath ==
    a1 :> <<a1>> @@ a2 :> <<a1, a2>> @@ a3 :> <<a1, a2, a3>> @@
    b1 :> <<b1>> @@ b2 :> <<b1, b2>> @@
    c2 :> <<a1, c2>> @@ c3 :> <<a1, c2, c3>> @@ d3 :> <<a1, c2, d3>>

MCWork ==
    a1 :> 1 @@ a2 :> 2 @@ a3 :> 3 @@ b1 :> 1 @@ b2 :> 4 @@
    c2 :> 2 @@ c3 :> 4 @@ d3 :> 4

MCTxs ==
    a1 :> << >> @@ a2 :> <<t1>> @@ a3 :> << >> @@ b1 :> <<t1>> @@ b2 :> << >> @@
    c2 :> <<t2>> @@ c3 :> <<t1>> @@ d3 :> << >>

MCTx == {t1, t2}

\* Both spend the same output.
MCSpends == [x \in MCTx |-> {1}]

MCBadReward == {b2}

NoPoints == << >>

\* No checkpoint, one at the third block, one at the first, and two in a row as
\* the program has them for its first blocks.
MCReleases == {NoPoints, 3 :> d3, 3 :> a3, 1 :> b1, 1 :> a1 @@ 2 :> c2}

MCNoReleases == {NoPoints}

----------------------------------------------------------------------------
(***************************************************************************)
(* One line of four blocks, and a release that has other blocks as its     *)
(* checkpoints at the third and fourth.                                    *)
(***************************************************************************)

CONSTANT a4

MCLine == {a1, a2, a3, a4}

MCLinePath ==
    a1 :> <<a1>> @@ a2 :> <<a1, a2>> @@ a3 :> <<a1, a2, a3>> @@ a4 :> <<a1, a2, a3, a4>>

MCLineWork == a1 :> 1 @@ a2 :> 2 @@ a3 :> 3 @@ a4 :> 4

MCLineTxs == [b \in MCLine |-> << >>]

MCLineReleases == {NoPoints, 3 :> d3 @@ 4 :> b1}

\* Another block as the checkpoint at the first.
MCFirstReleases == {NoPoints, 1 :> b1}

MCNoBlocks == {}

============================================================================
