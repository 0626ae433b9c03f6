----------------------------- MODULE Blockchain -----------------------------
(***************************************************************************)
(* The main chain, the alternative blocks and the invalid blocks of        *)
(* cryptonote_core/blockchain.cpp: adding a block, switching to a heavier  *)
(* alternative chain, rolling a failed switch back, popping blocks,        *)
(* checkpoints (checkpoints/checkpoints.cpp) and the database batch        *)
(* everything runs in.                                                     *)
(*                                                                         *)
(* A block's hash commits to all of its ancestors, so a block stands for   *)
(* its path from the genesis block (left out) and prev_id is the top of    *)
(* the main chain just when the path without its last block is the main    *)
(* chain.  The transaction pool is the set of its transactions here;       *)
(* module TxPool has its insides.                                          *)
(*                                                                         *)
(* A switch holds the blockchain lock from its first step to its last, so  *)
(* its steps follow each other with no other action between them; only a   *)
(* crash can stop it half way.  job says which step is next.  A block that *)
(* spends a key image twice by itself, which the database refuses with an  *)
(* exception, is left out: module TxPool has the batch that is aborted.    *)
(***************************************************************************)
EXTENDS Integers, Sequences, FiniteSets, FiniteSetsExt

CONSTANTS
    Block,       \* blocks other than the genesis block
    Path,        \* the blocks from the genesis block (excluded) to each block
    Work,        \* the cumulative difficulty at each block
    Txs,         \* the transactions of each block, in order
    BadReward,   \* blocks whose miner transaction claims too much
    Tx,          \* transactions
    Spends,      \* the key images each transaction spends
    Releases,    \* the checkpoints of successive releases of the program
    HeightMod    \* uint64_t heights count modulo this number

ASSUME BlockchainAssumption ==
    /\ Path \in [Block -> Seq(Block)]
    /\ \A b \in Block : /\ Path[b] /= << >>
                        /\ Path[b][Len(Path[b])] = b
                        /\ \A i \in DOMAIN Path[b] : Path[Path[b][i]] = SubSeq(Path[b], 1, i)
    /\ Work \in [Block -> Nat \ {0}]
    /\ Txs \in [Block -> Seq(Tx)]
    /\ \A b \in Block : \A i, j \in DOMAIN Txs[b] :
          Spends[Txs[b][i]] \cap Spends[Txs[b][j]] /= {} => i = j
    /\ BadReward \subseteq Block
    /\ \A points \in Releases : DOMAIN points \subseteq Nat \ {0}
    /\ HeightMod \in Nat \ {0}
    /\ \A b \in Block : Len(Path[b]) + 2 < HeightMod

\* The cumulative difficulty never falls from a block to the next.
ASSUME WorkAssumption ==
    \A b \in Block : \A i \in DOMAIN Path[b] : Work[Path[b][i]] <= Work[b]

VARIABLES
    main,     \* the main chain above the genesis block
    alt,      \* the alternative blocks table
    pool,     \* the transactions in the pool
    invalid,  \* m_invalid_blocks, in memory
    points,   \* m_checkpoints, in memory
    job,      \* the chain switch under way
    disk,     \* << >>, or what an open batch would be rolled back to
    updating  \* m_checkpoints_updating left set

vars == <<main, alt, pool, invalid, points, job, disk, updating>>

(***************************************************************************)
(* Blocks and chains.                                                      *)
(***************************************************************************)

Blocks(c) == {c[i] : i \in DOMAIN c}

AllButLast(c) == SubSeq(c, 1, Len(c) - 1)

Top(c) == c[Len(c)]

IsPrefixOf(s, c) == Len(s) <= Len(c) /\ s = SubSeq(c, 1, Len(s))

TxsOf(b) == {Txs[b][i] : i \in DOMAIN Txs[b]}

Mined(c) == UNION {TxsOf(b) : b \in Blocks(c)}

Spent(c) == UNION {Spends[t] : t \in Mined(c)}

WorkOf(c) == IF c = << >> THEN 0 ELSE Work[Top(c)]

have_block(b) == b \in Blocks(main) \cup alt \cup invalid

(***************************************************************************)
(* Checkpoints.                                                            *)
(***************************************************************************)

check_block(height, b) == height \in DOMAIN points => points[height] = b

is_a_checkpoint(b) == Len(Path[b]) \in DOMAIN points

\* The last checkpoint at or below the chain's height lies below the block.
is_alternative_block_allowed(b) ==
    \A h \in DOMAIN points : h <= Len(main) + 1 => h < Len(Path[b])

(***************************************************************************)
(* handle_block_to_main_chain, for a block on top of chain c with the pool *)
(* p.  What it takes from the pool it returns when it fails.               *)
(***************************************************************************)

\* Mutant of Problems: the inputs are not checked against the chain.
unchecked_Problems(b, c, p) ==
    {i \in DOMAIN Txs[b] : Txs[b][i] \in Mined(c) \/ Txs[b][i] \notin p}

\* The first transaction that is in the chain, missing or does not verify.
Problems(b, c, p) ==
    {i \in DOMAIN Txs[b] : \/ Txs[b][i] \in Mined(c)
                           \/ Txs[b][i] \notin p
                           \/ Spends[Txs[b][i]] \cap Spent(c) /= {}}

\* check_tx_inputs failed, which is what add_block_as_invalid is called for.
WrongInputs(b, c, p) ==
    /\ check_block(Len(c) + 1, b)
    /\ Problems(b, c, p) /= {}
    /\ LET t == Txs[b][Min(Problems(b, c, p))] IN t \in p /\ t \notin Mined(c)

\* Mutant of Accepts: no checkpoint is looked up.
unpointed_Accepts(b, c, p) ==
    /\ AllButLast(Path[b]) = c
    /\ Problems(b, c, p) = {}
    /\ b \notin BadReward

Accepts(b, c, p) ==
    /\ AllButLast(Path[b]) = c
    /\ check_block(Len(c) + 1, b)
    /\ Problems(b, c, p) = {}
    /\ b \notin BadReward

(***************************************************************************)
(* build_alt_chain and the tests of handle_alternative_block.              *)
(***************************************************************************)

\* How many blocks of b's path lie below the alternative chain b extends.
Fork(b) == Max({0} \cup {i \in 1..(Len(Path[b]) - 1) : Path[b][i] \notin alt})

\* alt_chain once b is pushed back on it.
AltChain(b) == SubSeq(Path[b], Fork(b) + 1, Len(Path[b]))

\* The block alt_chain.front() builds on is in the main chain ...
Connects(b) == IsPrefixOf(SubSeq(Path[b], 1, Fork(b)), main)

\* ... and a chain of known alternative blocks starts below the top.
build_alt_chain(b) ==
    /\ Connects(b)
    /\ Fork(b) < Len(Path[b]) - 1 => Len(main) + 1 > Fork(b) + 1

AltAccepts(b) ==
    /\ is_alternative_block_allowed(b)
    /\ build_alt_chain(b)
    /\ check_block(Len(Path[b]), b)

(***************************************************************************)
(* The switch under way.  before is a history variable: the main chain the *)
(* switch started from.                                                    *)
(***************************************************************************)

Job == [step : {"idle", "disconnect", "connect", "rollback", "restore", "blame", "keep"},
        chain : Seq(Block), next : Nat, old : Seq(Block),
        discard : BOOLEAN, before : Seq(Block)]

NoJob == [step |-> "idle", chain |-> << >>, next |-> 1, old |-> << >>,
          discard |-> FALSE, before |-> << >>]

Idle == job.step = "idle"

Go(step) == job' = [job EXCEPT !.step = step]

\* Mutant of pop_block_from_blockchain: the transactions are gone.
lossy_pop_block_from_blockchain == main' = AllButLast(main) /\ UNCHANGED pool

\* pop_block_from_blockchain: the transactions return to the pool.
pop_block_from_blockchain ==
    /\ main' = AllButLast(main)
    /\ pool' = pool \cup TxsOf(Top(main))

\* handle_block_to_main_chain of a block it accepts.
PushBlock(b, p) ==
    /\ main' = Append(main, b)
    /\ pool' = p \ TxsOf(b)

(***************************************************************************)
(* Blocks arrive with their transactions: the protocol handler gives both  *)
(* to the core inside one batch, under the pool's lock.                    *)
(***************************************************************************)

Arrived(b) == pool \cup (TxsOf(b) \ Mined(main))

Arrives(b) == disk /= << >> /\ Idle /\ ~ have_block(b)

AddToMain(b) ==
    /\ Arrives(b)
    /\ AllButLast(Path[b]) = main
    /\ IF Accepts(b, main, Arrived(b))
          THEN PushBlock(b, Arrived(b)) /\ UNCHANGED invalid
          ELSE /\ pool' = Arrived(b)
               /\ invalid' = IF WrongInputs(b, main, Arrived(b))
                               THEN invalid \cup {b} ELSE invalid
               /\ UNCHANGED main
    /\ UNCHANGED <<alt, points, job, disk, updating>>

\* Mutant of AddAlternative: the longer chain wins, not the one with more work.
longest_AddAlternative(b) ==
    /\ Arrives(b)
    /\ AllButLast(Path[b]) /= main
    /\ pool' = Arrived(b)
    /\ IF AltAccepts(b)
          THEN /\ alt' = alt \cup {b}
               /\ job' = IF is_a_checkpoint(b) \/ Len(Path[b]) >= Len(main)
                           THEN [step |-> "disconnect", chain |-> AltChain(b),
                                 next |-> 1, old |-> << >>,
                                 discard |-> is_a_checkpoint(b), before |-> main]
                           ELSE job
          ELSE UNCHANGED <<alt, job>>
    /\ UNCHANGED <<main, invalid, points, disk, updating>>

\* A checkpointed block, or more work than the main chain has, starts a switch.
AddAlternative(b) ==
    /\ Arrives(b)
    /\ AllButLast(Path[b]) /= main
    /\ pool' = Arrived(b)
    /\ IF AltAccepts(b)
          THEN /\ alt' = alt \cup {b}
               /\ job' = IF is_a_checkpoint(b) \/ Work[b] > WorkOf(main)
                           THEN [step |-> "disconnect", chain |-> AltChain(b),
                                 next |-> 1, old |-> << >>,
                                 discard |-> is_a_checkpoint(b), before |-> main]
                           ELSE job
          ELSE UNCHANGED <<alt, job>>
    /\ UNCHANGED <<main, invalid, points, disk, updating>>

(***************************************************************************)
(* switch_to_alternative_blockchain, one loop iteration a step.            *)
(***************************************************************************)

SplitAt == AllButLast(Path[job.chain[1]])

\* Mutant of Disconnect: push_back for push_front.
backward_Disconnect ==
    /\ job.step = "disconnect"
    /\ IF main /= SplitAt
          THEN /\ pop_block_from_blockchain
               /\ job' = [job EXCEPT !.old = Append(@, Top(main))]
          ELSE Go("connect") /\ UNCHANGED <<main, pool>>
    /\ UNCHANGED <<alt, invalid, points, disk, updating>>

Disconnect ==
    /\ job.step = "disconnect"
    /\ IF main /= SplitAt
          THEN /\ pop_block_from_blockchain
               /\ job' = [job EXCEPT !.old = <<Top(main)>> \o @]
          ELSE Go("connect") /\ UNCHANGED <<main, pool>>
    /\ UNCHANGED <<alt, invalid, points, disk, updating>>

Connect ==
    /\ job.step = "connect"
    /\ job.next <= Len(job.chain)
    /\ LET b == job.chain[job.next] IN
         IF Accepts(b, main, pool)
           THEN /\ PushBlock(b, pool)
                /\ job' = [job EXCEPT !.next = @ + 1]
                /\ UNCHANGED invalid
           ELSE /\ Go("rollback")
                /\ invalid' = IF WrongInputs(b, main, pool)
                                THEN invalid \cup {b} ELSE invalid
                /\ UNCHANGED <<main, pool>>
    /\ UNCHANGED <<alt, points, disk, updating>>

\* Every block is connected.
Connected ==
    /\ job.step = "connect"
    /\ job.next > Len(job.chain)
    /\ Go("keep")
    /\ UNCHANGED <<main, alt, pool, invalid, points, disk, updating>>

\* rollback_blockchain_switching: down to the split ...
Rollback ==
    /\ job.step = "rollback"
    /\ IF main /= SplitAt
          THEN pop_block_from_blockchain /\ UNCHANGED job
          ELSE Go("restore") /\ UNCHANGED <<main, pool>>
    /\ UNCHANGED <<alt, invalid, points, disk, updating>>

\* ... and the original blocks back, giving up on the first that fails.
Restore ==
    /\ job.step = "restore"
    /\ IF job.old /= << >> /\ Accepts(Head(job.old), main, pool)
          THEN /\ PushBlock(Head(job.old), pool)
               /\ job' = [job EXCEPT !.old = Tail(@)]
               /\ UNCHANGED invalid
          ELSE /\ Go("blame")
               /\ invalid' = IF job.old /= << >> /\ WrongInputs(Head(job.old), main, pool)
                               THEN invalid \cup {Head(job.old)} ELSE invalid
               /\ UNCHANGED <<main, pool>>
    /\ UNCHANGED <<alt, points, disk, updating>>

\* The block that failed, and those after it, become invalid blocks.
Blame ==
    /\ job.step = "blame"
    /\ LET failed == {job.chain[i] : i \in job.next..Len(job.chain)} IN
         invalid' = invalid \cup failed /\ alt' = alt \ failed
    /\ job' = NoJob
    /\ UNCHANGED <<main, pool, points, disk, updating>>

\* The disconnected blocks go through handle_alternative_block.
Keep ==
    /\ job.step = "keep"
    /\ ~ job.discard /\ job.old /= << >>
    /\ alt' = IF AltAccepts(Head(job.old)) THEN alt \cup {Head(job.old)} ELSE alt
    /\ job' = [job EXCEPT !.old = Tail(@)]
    /\ UNCHANGED <<main, pool, invalid, points, disk, updating>>

Finish ==
    /\ job.step = "keep"
    /\ job.discard \/ job.old = << >>
    /\ alt' = alt \ Blocks(job.chain)
    /\ job' = NoJob
    /\ UNCHANGED <<main, pool, invalid, points, disk, updating>>

(***************************************************************************)
(* check_against_checkpoints with enforce set: the chain it leaves.  The   *)
(* loop goes on, with the height it read before, after it rolled back.     *)
(***************************************************************************)

Failing(c, pts) == {h \in DOMAIN pts : h <= Len(c) /\ c[h] /= pts[h]}

\* pt.first - 2, in unsigned arithmetic.
rollback_height(h) == IF h >= 2 THEN h - 2 ELSE h - 2 + HeightMod

\* rollback_blockchain_switching does nothing for a height above the chain's.
RolledBackFor(c, pts) == {h \in Failing(c, pts) : rollback_height(h) <= Len(c) + 1}

enforced(c, pts) ==
    IF RolledBackFor(c, pts) = {} THEN c
    ELSE SubSeq(c, 1, rollback_height(Min(RolledBackFor(c, pts))) - 1)

\* Popping the genesis block throws, and so does asking for the hash of a
\* block that has just been popped.
throws(c, pts) ==
    /\ RolledBackFor(c, pts) /= {}
    /\ LET h == Min(RolledBackFor(c, pts)) IN
         \/ rollback_height(h) = 0
         \/ \E later \in DOMAIN pts : h < later /\ later <= Len(c)

Popped(c, d) == UNION {TxsOf(c[i]) : i \in (Len(d) + 1)..Len(c)}

\* Checkpoints of a file or of DNS records, loaded as a block comes in.
\* An exception leaves m_checkpoints_updating set.
UpdateCheckpoints(pts) ==
    /\ disk /= << >> /\ Idle /\ ~ updating
    /\ pts /= points
    /\ \A h \in DOMAIN points : h \in DOMAIN pts /\ pts[h] = points[h]
    /\ points' = pts
    /\ main' = enforced(main, pts)
    /\ pool' = pool \cup Popped(main, main')
    /\ updating' = throws(main, pts)
    /\ UNCHANGED <<alt, invalid, job, disk>>

(***************************************************************************)
(* The batch, pop_blocks, and the pool's own comings and goings.           *)
(***************************************************************************)

\* prepare_handle_incoming_blocks and cleanup_handle_incoming_blocks.
OpenBatch ==
    /\ disk = << >>
    /\ disk' = <<[main |-> main, alt |-> alt, pool |-> pool]>>
    /\ UNCHANGED <<main, alt, pool, invalid, points, job, updating>>

CloseBatch ==
    /\ disk /= << >> /\ Idle
    /\ disk' = << >>
    /\ UNCHANGED <<main, alt, pool, invalid, points, job, updating>>

pop_blocks(n) ==
    /\ disk = << >>
    /\ main' = SubSeq(main, 1, Len(main) - n)
    /\ pool' = pool \cup Popped(main, main')
    /\ UNCHANGED <<alt, invalid, points, job, disk, updating>>

flush_invalid_blocks ==
    /\ Idle /\ invalid /= {}
    /\ invalid' = {}
    /\ UNCHANGED <<main, alt, pool, points, job, disk, updating>>

\* remove_stuck_transactions and prune, seen from here.
LoseTx(t) ==
    /\ disk = << >> /\ t \in pool
    /\ pool' = pool \ {t}
    /\ UNCHANGED <<main, alt, invalid, points, job, disk, updating>>

\* The program stops, at any point, and starts again with the checkpoints of
\* a release; the batch that was open is lost.  It does not start when
\* checking the chain against the checkpoints throws.
Restart(pts, keep_alt_blocks) ==
    LET saved == IF disk = << >> THEN [main |-> main, alt |-> alt, pool |-> pool]
                 ELSE disk[1] IN
    /\ ~ throws(saved.main, pts)
    /\ points' = pts
    /\ main' = enforced(saved.main, pts)
    /\ pool' = saved.pool \cup Popped(saved.main, main')
    /\ alt' = IF keep_alt_blocks THEN saved.alt ELSE {}
    /\ invalid' = {}
    /\ job' = NoJob
    /\ disk' = << >>
    /\ updating' = FALSE

----------------------------------------------------------------------------

Init ==
    /\ main = << >> /\ alt = {} /\ pool = {} /\ invalid = {}
    /\ points \in Releases
    /\ job = NoJob /\ disk = << >> /\ updating = FALSE

Next ==
    \/ \E b \in Block : AddToMain(b) \/ AddAlternative(b)
    \/ Disconnect \/ Connect \/ Connected
    \/ Rollback \/ Restore \/ Blame
    \/ Keep \/ Finish
    \/ \E pts \in Releases : UpdateCheckpoints(pts)
    \/ OpenBatch \/ CloseBatch
    \/ \E n \in 1..Len(main) : pop_blocks(n)
    \/ flush_invalid_blocks
    \/ \E t \in Tx : LoseTx(t)
    \/ \E pts \in Releases, keep \in BOOLEAN : Restart(pts, keep)

Spec == Init /\ [][Next]_vars

----------------------------------------------------------------------------
(***************************************************************************)
(* Properties.                                                             *)
(***************************************************************************)

\* Every variable has its type: a switch has a chain to switch to, and a
\* batch is open while it runs.
TypeOK ==
    /\ main \in Seq(Block)
    /\ alt \subseteq Block
    /\ invalid \subseteq Block
    /\ pool \subseteq Tx
    /\ points \in Releases
    /\ updating \in BOOLEAN
    /\ job \in Job
    /\ job.next \in 1..(Len(job.chain) + 1)
    /\ ~ Idle => job.chain /= << >> /\ disk /= << >>
    /\ disk /= << >> =>
         /\ disk[1].main \in Seq(Block)
         /\ disk[1].alt \subseteq Block
         /\ disk[1].pool \subseteq Tx

\* The main chain is a chain at every moment, in the middle of a switch too:
\* each block is the one the next block names as its parent.
ChainLinked == main /= << >> => main = Path[Top(main)]

\* No key image is spent twice in the main chain, whatever chains it was
\* switched between.
NoDoubleSpend ==
    \A i, j \in DOMAIN main : \A t \in TxsOf(main[i]), u \in TxsOf(main[j]) :
        Spends[t] \cap Spends[u] /= {} => i = j /\ t = u

\* Under the blockchain lock nobody sees a switch until it is over.
Promised ==
    INSTANCE Ledger WITH
        chain <- IF Idle THEN main ELSE job.before,
        saved <- IF disk = << >> THEN << >> ELSE <<disk[1].main>>

\* Seen from outside the lock the chain is a ledger: a switch happens whole and
\* only for more work or a checkpoint, and one that fails half way puts all the
\* disconnected blocks back, so that it was never there, but for a chain whose
\* first block a checkpoint rules out: handle_block_to_main_chain refuses that
\* block the second time, and the chain is lost.
ImplementsLedger == Promised!Spec

\* handle_alternative_block, called by a switch for the blocks it has
\* disconnected, never starts another switch inside the first: a block that it
\* does not refuse at once is not checkpointed and has no more work.
NoNestedSwitch ==
    job.step = "keep" /\ ~ job.discard =>
        \A b \in Blocks(job.old) :
            is_alternative_block_allowed(b) => ~ is_a_checkpoint(b) /\ Work[b] <= WorkOf(main)

\* A switch for more work keeps every block of the chain it left, so that the
\* node can come back to that chain, unless a checkpoint rules one of them out.
OldChainKept ==
    [][Finish /\ ~ job.discard
         => LET left == Blocks(job.before) \ Blocks(main) IN
            (\A b \in left : is_alternative_block_allowed(b)) => left \subseteq alt']_vars

\* The main chain agrees with every checkpoint it has reached above the first
\* block.  A first block that a checkpoint rules out stays, since pt.first - 2
\* wraps round to a height above the chain's.
CheckpointsHold == Failing(main, points) \subseteq {1}

\* A chain that fails a checkpoint is rolled back to two blocks prior to the
\* block that fails it, and the check comes to its end.
EnforcementRollsBack ==
    \A pts \in Releases : Failing(main, pts) /= {} =>
        /\ ~ throws(main, pts)
        /\ Len(enforced(main, pts)) + 1 = Min(Failing(main, pts)) - 2

\* A block with all of its ancestors is right in itself.
Sound(b) ==
    \A i \in DOMAIN Path[b] :
        /\ Path[b][i] \notin BadReward
        /\ \A t \in TxsOf(Path[b][i]) :
             \A j \in 1..(i - 1) : Spends[t] \cap Spent(<<Path[b][j]>>) = {}

\* Only a block that is not right, or follows one that is not, is kept as an
\* invalid block.
InvalidAreUnsound == \A b \in invalid : ~ Sound(b)

\* A block that makes a known alternative chain the heaviest starts a switch.
ForkedChainFollowed ==
    Idle => \A b \in Block :
        /\ ~ have_block(b) /\ Fork(b) < Len(Path[b]) - 1
        /\ Connects(b) /\ is_alternative_block_allowed(b)
        /\ check_block(Len(Path[b]), b) /\ Work[b] > WorkOf(main)
        => AltAccepts(b)

============================================================================
