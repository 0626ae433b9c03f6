--------------------------- MODULE MCBlockQueue ---------------------------
(* Two connections whose peers' chains share a prefix and then fork.         *)
EXTENDS BlockQueue, TLC

\* Bounds: the length of the two chains and where they part.
CONSTANTS ChainLength, ForkHeight

MCHash == (1 .. ChainLength) \X {0, 1}
MCChains == {[h \in 1 .. ChainLength |-> <<h, IF h < ForkHeight THEN 0 ELSE f>>] : f \in {0, 1}}
MCSeeds == {0, make_pruning_seed(2, LOG_STRIPES)}
Symmetry == Permutations(Conn)
MCLocalSeed == make_pruning_seed(2, LOG_STRIPES)
=============================================================================
