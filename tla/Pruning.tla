------------------------------ MODULE Pruning ------------------------------
(* Which blocks a pruned node keeps (src/src/common/pruning.cpp, pruning.h).  *)
(* The chain is cut in stripes of STRIPE_SIZE blocks numbered cyclically     *)
(* 1 .. 2^log_stripes; a node with a pruning seed keeps the blocks of its    *)
(* own stripe and the TIP_BLOCKS blocks nearest the tip.  A seed is the      *)
(* integer the code packs (stripe, log_stripes) into, 0 meaning unpruned.    *)
EXTENDS Naturals, FiniteSetsExt

CONSTANTS
  STRIPE_SIZE,      \* CRYPTONOTE_PRUNING_STRIPE_SIZE
  LOG_STRIPES,      \* CRYPTONOTE_PRUNING_LOG_STRIPES
  TIP_BLOCKS        \* CRYPTONOTE_PRUNING_TIP_BLOCKS

ASSUME PruningAssumption ==
  /\ STRIPE_SIZE \in Nat \ {0}
  /\ LOG_STRIPES \in 1 .. 7
  /\ TIP_BLOCKS \in Nat

-----------------------------------------------------------------------------
get_pruning_log_stripes(seed) == (seed \div 2^7) % 2^3

seed_stripe(seed) == IF seed = 0 THEN 0 ELSE 1 + (seed % 2^7)

make_pruning_seed(stripe, log_stripes) == log_stripes * 2^7 + (stripe - 1)

\* The packed number of stripes, or the deployed one when the seed has none.
log_stripes_or_default(seed) ==
  IF get_pruning_log_stripes(seed) # 0 THEN get_pruning_log_stripes(seed) ELSE LOG_STRIPES

\* Mutant: stripes counted from the tip instead of from the genesis.
tip_based_pruning_stripe(block_height, blockchain_height, log_stripes) ==
  IF block_height + TIP_BLOCKS >= blockchain_height
  THEN 0
  ELSE (((blockchain_height - block_height) \div STRIPE_SIZE) % 2^log_stripes) + 1

\* The stripe a block belongs to; 0 when it is near enough the tip for every
\* node to keep it.
get_pruning_stripe(block_height, blockchain_height, log_stripes) ==
  IF block_height + TIP_BLOCKS >= blockchain_height
  THEN 0
  ELSE ((block_height \div STRIPE_SIZE) % 2^log_stripes) + 1

has_unpruned_block(block_height, blockchain_height, seed) ==
  \/ seed_stripe(seed) = 0
  \/ get_pruning_stripe(block_height, blockchain_height,
                        get_pruning_log_stripes(seed)) \in {0, seed_stripe(seed)}

\* Mutant: a block of the node's own stripe is sought from the
\* next cycle on when the stripe is still ahead in the current one.
late_cycle_next_unpruned(block_height, blockchain_height, seed) ==
  LET stripe == seed_stripe(seed)
      n      == 2^log_stripes_or_default(seed)
      own    == ((block_height \div STRIPE_SIZE) % n) + 1
      cycle  == ((block_height \div STRIPE_SIZE) \div n) + 1
      h      == cycle * STRIPE_SIZE * n + (stripe - 1) * STRIPE_SIZE
  IN  IF stripe \in {0, own} \/ block_height + TIP_BLOCKS >= blockchain_height
      THEN block_height
      ELSE IF h + TIP_BLOCKS > blockchain_height
           THEN blockchain_height - TIP_BLOCKS ELSE h

get_next_unpruned_block_height(block_height, blockchain_height, seed) ==
  LET stripe == seed_stripe(seed)
      n      == 2^log_stripes_or_default(seed)
      own    == ((block_height \div STRIPE_SIZE) % n) + 1
      cycles == (block_height \div STRIPE_SIZE) \div n
      cycle  == cycles + (IF stripe > own THEN 0 ELSE 1)
      h      == cycle * STRIPE_SIZE * n + (stripe - 1) * STRIPE_SIZE
  IN  IF \/ stripe = 0
         \/ block_height + TIP_BLOCKS >= blockchain_height
         \/ own = stripe
      THEN block_height
      ELSE IF h + TIP_BLOCKS > blockchain_height
           THEN IF blockchain_height < TIP_BLOCKS
                THEN 0 ELSE blockchain_height - TIP_BLOCKS
           ELSE h

\* Mutant: off by one in the stripe that follows the node's own.
skipping_next_pruned(block_height, blockchain_height, seed) ==
  LET stripe == seed_stripe(seed)
      logs   == log_stripes_or_default(seed)
      own    == ((block_height \div STRIPE_SIZE) % 2^logs) + 1
      next   == 1 + ((own + 1) % 2^logs)
  IN  IF stripe = 0 \/ block_height + TIP_BLOCKS >= blockchain_height
      THEN blockchain_height
      ELSE IF own # stripe
           THEN block_height
           ELSE get_next_unpruned_block_height(block_height, blockchain_height,
                                               make_pruning_seed(next, logs))

get_next_pruned_block_height(block_height, blockchain_height, seed) ==
  LET stripe == seed_stripe(seed)
      logs   == log_stripes_or_default(seed)
      own    == ((block_height \div STRIPE_SIZE) % 2^logs) + 1
      next   == 1 + (own % 2^logs)
  IN  IF stripe = 0 \/ block_height + TIP_BLOCKS >= blockchain_height
      THEN blockchain_height
      ELSE IF own # stripe
           THEN block_height
           ELSE get_next_unpruned_block_height(block_height, blockchain_height,
                                               make_pruning_seed(next, logs))
=============================================================================
