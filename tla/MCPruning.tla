----------------------------- MODULE MCPruning -----------------------------
(* The chain grows block by block; every block below the tip is looked at    *)
(* under every pruning seed of the deployed number of stripes.               *)
EXTENDS Pruning

CONSTANT MaxHeight     \* bound on the chain's height

VARIABLES
  chain_height,        \* the chain's height
  block_height         \* the block looked at

vars == <<chain_height, block_height>>

Stripes == 1 .. 2^LOG_STRIPES
Seeds == {0} \cup {make_pruning_seed(s, LOG_STRIPES) : s \in Stripes}

Init == chain_height = 1 /\ block_height = 0

Extend ==
  /\ chain_height < MaxHeight
  /\ chain_height' = chain_height + 1
  /\ UNCHANGED block_height

Look ==
  /\ block_height' \in 0 .. chain_height - 1
  /\ UNCHANGED chain_height

Next == Extend \/ Look
Spec == Init /\ [][Next]_vars

-----------------------------------------------------------------------------
\* get_next_unpruned_block_height computes by stripe arithmetic the first block
\* from block_height on that a node with the seed keeps; the download of a span
\* starts there, so a later height loses blocks and an earlier one asks the
\* peer for blocks it has pruned.
NextUnprunedIsFirst ==
  \A seed \in Seeds :
    get_next_unpruned_block_height(block_height, chain_height, seed) =
      Min({h \in block_height .. chain_height :
             has_unpruned_block(h, chain_height, seed)})

\* get_next_pruned_block_height is never past a block the node has pruned.
NextPrunedMissesNone ==
  \A seed \in Seeds :
    \A h \in block_height .. chain_height :
      ~has_unpruned_block(h, chain_height, seed) =>
        get_next_pruned_block_height(block_height, chain_height, seed) <= h

\* A block a node no longer has is never announced as available again when the
\* chain grows: has_unpruned_block only ever turns from true to false.
PrunedForGood ==
  [][\A seed \in Seeds, h \in 0 .. chain_height :
       ~has_unpruned_block(h, chain_height, seed) =>
         ~has_unpruned_block(h, chain_height', seed)]_vars
=============================================================================
