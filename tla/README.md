# A TLA+ model of the WAZN node

This directory holds a model of the parts of the node (`waznd`) that keep state
and whose correctness depends on the order of events: the main chain and its
reorganisations, the transaction pool, the hard-fork votes, the threads and
locks around the database, the synchronization of the chain with peers, the
thread pool, and one connection of the levin protocol with its calls and timers.
`PROJECT.json` maps every definition to the lines it models and lists the runs,
the mutants of the code that each property detects, the hazards and the
theorems.

Paths below are relative to `src/src/` unless they begin with `contrib/`, which
is `src/contrib/`.

## The system and what of it is modelled

| Part | Code | Here |
| --- | --- | --- |
| Main chain, alternative blocks, reorganisation | `cryptonote_core/blockchain.cpp` | `Blockchain`, and `Ledger`, what it promises |
| Checkpoints and their enforcement | `checkpoints/checkpoints.cpp` | in `Blockchain` |
| Transaction pool | `cryptonote_core/tx_pool.cpp` | `TxPool` |
| Core dispatcher (transactions, blocks, batches, start-up) | `cryptonote_core/cryptonote_core.cpp` | its calls, in `Blockchain` and `TxPool` |
| Database transactions, batches, map resizes, locks of the core | `blockchain_db/lmdb/db_lmdb.cpp` and the lock order in `blockchain.cpp` | `CoreDb`; the effect of a batch also in `Blockchain` and `TxPool` |
| Hard forks and votes | `cryptonote_basic/hardfork.cpp` | `HardFork` |
| Block queue of the downloader | `cryptonote_protocol/block_queue.cpp` | `BlockQueue` |
| Pruning stripes | `common/pruning.cpp` | `Pruning` |
| Synchronization protocol | `cryptonote_protocol/cryptonote_protocol_handler.inl` | `Sync`, which uses `BlockQueue` |
| Thread pool | `common/threadpool.cpp` | `ThreadPool` |
| Levin protocol and its TCP endpoint | `contrib/epee/include/net/levin_protocol_handler_async.h`, `abstract_tcp_server2.inl` | `Levin` |
| Everything else | | see "Not modelled" |

How the parts interact: connections (`Levin`) carry requests and answers; the
protocol handler (`Sync`) asks peers for hashes and blocks, reserves spans in
the queue (`BlockQueue`) and, when the next span is complete, opens a database
batch through the core (`CoreDb`), hands over its transactions, which go to the
pool (`TxPool`), and its blocks, which take them out of it (`Blockchain`), and
closes the batch. The blocks of a batch are hashed and their signatures verified
on the thread pool (`ThreadPool`). A block that does not extend the top is kept
as an alternative, and a heavier alternative chain is switched to by popping and
pushing blocks one at a time, each of which moves transactions between pool and
chain and updates the hard-fork object (`HardFork`).

## The modules

**`Pruning`** is pure: each function of `pruning.cpp` is an operator of the same
name (the two overloads of `get_pruning_stripe` are `seed_stripe` and
`get_pruning_stripe`). `MCPruning` walks a chain that grows and compares the
operators with their definition by search.

**`BlockQueue`** has one variable, `queue`: the spans, and the sets
`requested_hashes` and `have_blocks`. Its actions are the calls that the
protocol handler makes: `ReserveSpan`, `AddBlocks`, `FlushSpans`,
`FlushStaleSpans`, `RemoveSpans`. Each holds the queue's mutex and so is one
step. Rates, times and sizes are left out. `remove_span` has no caller.

**`HardFork`** has the chain and the object `hf` (window, counts, current fork,
the `hf_versions` table of the database). `AddBlock`, `PopBlocks`,
`Switch` (a whole reorganisation, complete or rolled back) and `Restart` with the
same or a newer table are its actions. The deployed tables have threshold 0,
which the run uses. `on_block_popped` refills the window at its front with the
version recorded for the popped height, so after a pop the window is not exactly
that of the last blocks; a reorganisation or a restart makes it so again
(`RebuiltWindow`). With threshold 0 the votes do not change the version.

**`TxPool`** has the pool (`metas`, the database rows; `spent`, `sorted`,
`weight`, `timed_out` and `cache`, the in-memory indexes), the chain as a
sequence of blocks of transactions, the open `batch` (a copy of what an abort
restores), a clock, and `aborted`, which records that a batch has been aborted
since the last start. `LockedTXN` makes each operation's database writes all or
nothing, and `prune` keeps its early return. A block batch opens, adds, refuses
and pops blocks and closes or aborts. `add_loose_tx` is the core of `add_tx`.
Left out: fees and their minimum, `double_spend_seen`, the cookie, the parsed
transaction cache, pruned transactions and the zone of precomputed block hashes.
`m_mine_stem_txes` is off, as it is by default. `remove_transaction_keyimages`
goes through the key images and stops at the first it does not find, as the code
does. A restart needs `init` to accept the rows (`init_succeeds`); when it refuses
them the node does not start.
The limits of a template are the nondeterministic set `skip`. Two blocks with
the same transactions on the same prefix are the same block.

**`Blockchain`** has the main chain, the alternatives, the invalid blocks, the
transactions at hand, the checkpoints, the open batch (`disk`: what a crash
leaves) and `job`, the switch in progress. A switch is not atomic in the model:
`Disconnect`, `Connect`, `Rollback`, `Restore`, `Blame`, `Keep` and `Finish` are
single steps over one block, so that an invariant speaks of every intermediate
state that a crash can meet, though a single lock is held throughout. The block
tree is a constant: `Path[b]` is the chain that ends in `b`, `Work` its work.
Proof of work, timestamps, difficulty, weights and rewards are a verdict
(`BadReward`). A block that spends one key image twice by itself is left out.
Heights wrap at `HeightMod`, which stands for the 64-bit modulus.

**`Ledger`** is the abstract specification of `Blockchain`: a chain that grows by
a block, goes over at once to a chain with more work or to one that a checkpoint
names, is popped on demand, is cut back when a new checkpoint rules it out, and
after a crash is the chain of the last closed batch. A checkpoint at height 1,
which the deployed table has, is the exception: `pt.first - 2` underflows and the
chain stays (`Enforced`), and when a switch away from such a chain fails, its
first block is refused and the chain is empty until the batch ends (`Lose`).
`ImplementsLedger` in
`Blockchain` instantiates it with the chain that a reader behind the lock sees:
`main`, or `job.before` while a switch is in progress. So a switch is one step of
the ledger, its last one, and a switch that fails is none at all.

**`CoreDb`** is about who may do what to the database when. Threads run
operations (a bare lookup, a lookup that makes others inside its own transaction
as `get_output_histogram` does, a lookup under a `db_rtxn_guard`, a pool operation,
the same under `m_incoming_tx_lock`, a batch of blocks followed by pruning), each a
path through the recursive locks of the core, the gate and the counter of
`mdb_txn_safe`, the batch flags of `BlockchainLMDB` and the single writer of
LMDB. The map may be found too small (`do_resize`), another process may have
grown it (`lmdb_resized`), and `mdb_env_set_mapsize` may fail. A step ends where
another thread could come in between. What is read and written is left out. The
loop of `prepare_handle_incoming_blocks` that releases its two locks, sleeps and
takes them again when `batch_start` fails is there, without the time it sleeps.

**`Sync`** composes several connections with the block queue, which it uses
through `BQ == INSTANCE BlockQueue`. A context is a record of the fields of
`cryptonote_connection_context` that decide anything. A handler is cut where it
takes or leaves `m_sync_lock` and between its calls into the queue; `pc` says
where. Handlers of different connections interleave, those of one do not: it is
served by one strand. Peers answer requests in order; a bad peer may stop
answering, sends blocks that fail, and closes. Timers are `kick_idle_peers`,
`check_standby_peers` and `TimedSync`. They have no clock: a timer may fire
whenever its condition on the state holds, and `kick_idle_peers` counts a
timeout of a good peer as a mishap, of which there are `MaxMishaps`. An idle kick
is modelled only while no handler of that connection runs. Chains have equal
length and no peer is pruned, so stripes, `should_drop_connection` and
`update_sync_search` are left out, and so is the relay of new blocks.
`handle_response_chain_entry` is one step. Adding a span goes through the core
block by block (`core_after`): a block goes on the chain, among the alternatives or
among the invalid blocks, and the batch is committed (`commit_span`), ends at a bad
block (`fail_span`), or ends early or is lost (`leave_span`). `request_objects` takes
the next span and `reset_next_span_time` touches it again in another step, and
throws when it has been filled or has gone in between. `stranded` records the
connections whose handler was left in the middle: it returned from the loop of
`try_add_next_blocks`, or a callback threw.

**`ThreadPool`** gives every thread a stack of calls (`submit`, `wait`, `run`, and
bodies of tasks), because a thread that waits runs queued jobs, which submit and
wait in turn. A step is a critical section of the pool's or a waiter's mutex.
Tasks submit their jobs in order, wait and end, or throw after submitting, and
then the waiter's destructor waits, as it does for a task that has waited already.
Every caller of `submit` passes a waiter, so tasks without one are left out.
`destroy` ends the program. Sleeping and
notification are explicit (`sleeping`). `recycle` has no caller.

**`Levin`** is one connection. A call (`async_invoke`) has two threads, its caller
and the handler of its timer. Reads and writes are handled on the strand, the
timer of the connection and `config.close` have a thread each, and one more calls
`send`. `endpoint` holds the flags (`m_was_shutdown`, `m_want_close_connection`,
`m_protocol_released` and so on), the reference count of `add_ref` and `release`,
and the send queue. The locks of `m_connects`, `m_call_lock`,
`m_invoke_response_handlers_lock` and `m_send_que_lock` are explicit. `close`,
`shutdown` and `send` are called from several threads, so they are subroutines
with a place to return to (`back`). `close` cancels the timer, looks at the queue
under its lock and sets `m_want_close_connection` in three steps. `handler[c]` is the `anvoke_handler`: its
timer, `m_cancel_timer_called` (`tried`) and `m_timer_cancelled` (`won`), which
`cancel_timer` returns again when it is called again. `got` is a history of what
each callback was given. Messages have no contents and time does not pass: an
armed timer may expire at any moment. The peer answers in the order of the
requests or not at all. `async_invoke` takes
`m_call_lock` and `m_invoke_response_handlers_lock` in one step. The retries of
`do_send_chunk` on a full queue, which only let time pass, are left out, and so
are `m_ready_to_close`, which is never true for levin, and
`m_deletion_initiated`, which no caller can see set (`HeldWhileUsed`).

`MC*` modules give the constants values. `BlockQueueProofs`, `BlockchainProofs`,
`LedgerProofs`, `TxPoolProofs`, `CoreDbProofs`, `SyncProofs`, `LevinProofs` and
`ThreadPoolProofs` hold lemmas and proofs.

## What the runs show

Runs that pass, with the number of distinct states:

* `pruning` (300): heights to 24 with stripes of 2 and four stripes, so three full
  cycles; next pruned and unpruned heights are exact, and pruned blocks stay
  pruned.
* `block_queue` (44,226): two peers on chains of three blocks that fork at the
  last one, pruned and unpruned, spans of at most two: the shortest lengths at
  which spans overlap, nest and leave a gap. Peers are interchangeable, so
  symmetry is used.
* `hard_fork` (249): five blocks, three versions, a window of two, two releases
  of the table: the window rolls over, forks pass and are undone.
* `tx_pool` (39,370): three transactions, two in conflict and one that needs an
  output of another, a pool with room for one of them, two heights, time enough
  to expire. Memory agrees with the database, the cache with the chain, and no
  transaction of a block is lost.
* `tx_pool_relay` (199,821): weightless transactions with private relay methods
  and failing batches. The rows of the pool can be loaded at a restart wherever the
  node stops, except after an abort that brought back rows without their key
  images. After an abort the key images of a transaction are all there or all
  missing.
* `blockchain` (246,400): eight blocks in three competing branches, one with a
  double spend in its last block, one with a wrong reward; checkpoints on either
  branch released at any time, two of them at height 1; crashes and pops. The chain implements `Ledger`.
* `core_db` (236,230): three threads with one operation each of any kind, one
  resize, which may fail, and one growth by another process. Two threads make
  every pair of operations meet; the third is there for circles of three.
* `sync` (213,716): two connections to a good peer and one to a bad one, a chain of
  two blocks that differ from the first on, spans of one block: two spans can be
  out at once, a span of the bad peer can stand before one of the good peer, and
  a hash can be wanted twice. `MaxIds` 3 lets a chain entry overlap the chain.
  With one mishap of the good peer and one callback for each connection, the
  instance has 332,577 states and all four properties hold there too.
* `thread_pool` (172,980): two clients and one worker; jobs that submit jobs,
  leaves, a leaf that tries to submit, and jobs that throw at each depth.
* `levin` (109,924): every `Scenarios` member is a set of actors on one connection:
  two calls; a call, a sender and a request of the peer; a call, `config.close`
  and a request; a call and the timer of the connection. `MaxQueue` 1 lets
  two messages be queued. Safety alone was also checked with
  two calls, `config.close` and the idle timer together (3.7 million states).

Deadlock is checked in the first six. The other four check liveness instead, and
their behaviours end: the operations or calls are used up, the chain is
complete, the program has ended or the connection is deleted.

Runs that find a disagreement between a comment and the code (details and
quotations in `PROJECT.json`):

* `sync_unadded`: blocks that are all downloaded can stay in the queue for ever.
  Every connection finds its hashes in filled spans and is done with its peer
  before it comes to the code that would add them.
* `levin_full`: a connection whose send queue is full is shut down inside the
  critical section of the queue, and callbacks are called there, against the
  comment "Never call callback inside critical section".

### Further configurations

These are kept beside the runs. Each but `MCSyncFork.cfg` shows in full a behaviour that a hazard in
`PROJECT.json`, or an exception in a property, refers to:

| Configuration | Module | What TLC shows |
| --- | --- | --- |
| `MCBlockQueueRequested.cfg` | `MCBlockQueue` | a reserved span may hold hashes already requested |
| `MCTxPoolPrune.cfg` | `MCTxPool` | an early return of `prune` leaves memory and database apart |
| `MCTxPoolRestart.cfg` | `MCTxPool` | after an abort the pool takes a transaction in conflict with a row whose key images are missing, and the node does not start again |
| `MCTxPoolRecheck.cfg` | `MCTxPool` | a transaction that became valid is not checked again |
| `MCBlockchainCheckpoints.cfg` | `MCBlockchain` | enforcement works with a stale height after its first rollback and throws |
| `MCBlockchainFirst.cfg` | `MCBlockchain` | enforcement rolls nothing back for a checkpoint at height 1, whose `pt.first - 2` underflows |
| `MCBlockchainInvalid.cfg` | `MCBlockchain` | valid blocks are recorded as invalid by a failed switch |
| `MCBlockchainForked.cfg` | `MCBlockchain` | a block of a known fork is refused after pops |
| `MCCoreDbResized.cfg` | `CoreDb` | a map grown by another process is never adopted: the thread that finds it waits for its own transaction |
| `MCCoreDbNested.cfg` | `CoreDb` | a lookup inside a lookup waits at the gate that `do_resize` has shut until the outer one ends |
| `MCSyncWedged.cfg` | `MCSync` | an adder that fails on the span of another peer leaves its own connection with nothing to wake it up |
| `MCSyncFork.cfg` | `MCSync` | the properties of `sync` hold too when the chains part at the second block (152,004 states) |
| `MCLevinDeadlock.cfg` | `Levin` | with the queue full, a sender and a caller wait for each other's lock: neither `EveryCallEnds` nor `ShutIsDeleted` holds |
| `MCLevinClosed.cfg` | `Levin` | a closed connection is not shut down when the last write ends inside `close` |

## Fairness

Liveness properties assume weak fairness only, and only of what the code does by
itself:

* `CoreDb`: each thread that has begun an operation and can go on does so. Mutexes
  of the code are handed on by the system, and operations are few, so no strong
  fairness is needed. Nobody has to begin an operation.
* `Sync`: the thread that serves a connection goes on, runs pending callbacks and
  takes the answers that a good peer sends; the periodic calls (`on_idle` of the
  protocol handler, timed sync of the node server) come; a good peer is connected
  to again, as the node server keeps its number of outgoing connections. Nothing
  is assumed of a bad peer except that its idle requests are timed out.
* `ThreadPool`: each thread that can take a step is scheduled, and the program
  ends.
* `Levin`: threads inside a function go on, armed timers expire, writes end in
  success or in an error, and an object without owners is deleted. Nobody has to
  call, close or send, and the peer does nothing it does not want to.

Some of these properties have exceptions, each a behaviour of the code that a
configuration above shows.

* `EveryOperationEnds` excepts the runs in which the gate stays shut (`ShutForGood`):
  after a failed resize, or because the thread that resizes waits for a counted
  transaction whose owner cannot end it. That owner is the thread itself (a map grown
  by another process), one that makes a lookup inside its transaction or wants to
  resize too, or a batch that wants the chain lock of the thread that resizes. The
  property says that locks, gate, counter and writer make no other circle.
* `NoWedge` excepts the connections in `stranded`, and `DownloadEnds` the runs in
  which there is one. A narrower exception, that a connection to a good peer
  is stranded, is not enough: the span that a stranded connection to a bad peer has
  reserved stays, since its owner is alive, and each good peer in turn is asked for
  hashes that it does not have and dropped.
* `EveryCallEnds` and `ShutIsDeleted` hold in `levin`, where nobody calls while
  another finds the queue full; with both, they do not.
* `CanRestart`, which is a safety property, excepts the steps after an abort that
  left a row without its key images.

## Refinement

* `Blockchain` implements `Ledger` (`ImplementsLedger`), model-checked in
  `blockchain` and proved.
* `Sync` implements `BlockQueue` (`UsesQueueAsModelled`), with `queue` mapped to
  itself: each step of a handler is one call of the queue with arguments that the
  module allows, or none. So what is proved about the queue under any use holds
  of it under this one. This is model-checked only.

## What is proved

For every value of the constants that satisfies the named assumptions:

* `QueueTypeCorrect`, `NoRequestLeaks`, `HaveImpliesFilled`, `NoHoleIsSkipped`
  (`BlockQueueProofs`, from `QueueAssumption`: chains are sequences of hashes, bounds are naturals).
  The inductive invariant is `Sound(queue)`. The two hash sets are only right
  together: what is requested is in some span, and what is had is in a filled
  one. An operation that erases a span must take back exactly that span's
  hashes, so each operator has a lemma that it preserves `Sound`. The last theorem
  needs that a reserved span ends within the heights of its chain (`Bounded`) and
  what the recursive walk of `get_next_needed_height` computes: `IsWalk` is the
  function it chooses, `WalkExists` that there is one, and `WalkCovers` that the walk
  from any height passes no hole, argued from the highest span that could fail.
* `ChainTypeCorrect`, `ChainStaysLinked`, `NoKeyImageTwice`,
  `CheckpointsAlwaysHold` (`BlockchainProofs`, from `BlockchainAssumption`: paths
  are closed under prefixes, work is positive, a block does not spend a key image
  twice by itself). The invariant is
  `IInv == TypeOK /\ Good(main) /\ DiskGood /\ Splits`. `Good` says that a chain
  is the path of its top and spends each key image once. It is needed of the
  saved chain too, which a crash brings back, and `Splits` says that a switch
  always has its splitting point below it, or it would pop past it. The last
  theorem excepts height 1, since `pt.first - 2` underflows there, as
  `MCBlockchainFirst.cfg` shows; it assumes nothing of the releases.
* `BlockchainImplementsLedger` (`LedgerProofs`, from `BlockchainAssumption`). What has
  to be shown is that restoring the old chain never fails, although each block goes
  through the checks again, unless its first block is ruled out. The invariant
  `LInv` says that a chain in use is `Clean` (no bad reward, no transaction
  in two blocks), that during a switch the chain and the blocks still in
  `job.old` make up `job.before`, that the transactions of those blocks are at hand
  in the pool or on the chain, and how far the new chain has come. Then each step
  of `Blockchain` is a step of `Ledger` or leaves it as it is.
* `SwitchesDoNotNest`, `OldChainIsKept` (`LedgerProofs`, from `BlockchainAssumption`
  and `WorkAssumption`: work does not fall along a path, as the
  cumulative difficulty is a sum). They are about the blocks a successful switch has
  disconnected and gives to `handle_alternative_block`. The invariant `KInv` says
  that the two chains of a switch share no block above the split (`Branch`), for
  which it needs that no alternative block is in the main chain (`Apart`), on disk
  too. A checkpoint within reach of the old chain is below the new top, and
  `is_alternative_block_allowed` refuses what is not above it, so a block that is not
  refused has no checkpoint. `Rest` says that the blocks already handled are alternative
  blocks, so that `build_alt_chain` finds the split for the next one.
* `NeverInBoth`, `VerdictsAreFresh`, `TemplatesAreSound`, `MethodsOnlyRise`,
  `BatchesLoseNothing`, `BlockTxsStay` (`TxPoolProofs`, from `TxPoolAssumption`: there
  are finitely many transactions, blocks are sequences of them, relay methods are the
  six of the code). The steps fold `take_tx`, `add_tx`, `prune_entry` and `consider`
  over sequences. For each fold a lemma (`TakeTrace`, `PruneTrace`, `AddTrace`,
  `ConsiderTrace`) says that its result is the last of a row of states that starts with
  the first argument and makes one call from each to the next; what one call does then
  holds of the whole by `UpTo`, induction along the row. `Less`, `Pruned`, `Brought`,
  `Heard` and `Looked` say what the operations do to the rows. The invariant `PoolInv`
  has to say that no transaction is in two blocks, or popping one would bring to the
  pool what another still has. Of an open batch it says what an abort or a crash needs:
  the saved rows are off the saved chain, the cache is right for the saved chain as
  well, and what was held when the batch began is still held.
* `ResizeIsAlone`, `BatchesStayApart` (`CoreDbProofs`, from `CoreDbAssumption`, for
  any finite set of threads). The invariant makes what a thread owns a function
  of where it is: locks, transactions, batch, and the counter as the number of
  the threads that are counted. The uncounted transaction of a `db_rtxn_guard` is
  kept out of a resize by the blockchain lock alone.
* `HandlersLeaveAWakeUp` (`SyncProofs`, from `SyncAssumption`). The invariant: a
  connection with no running handler is closing, paused or done, or awaits an
  answer or a callback, or is stranded.
* `CallbackAtMostOnce`, `HolderKeepsEndpoint`, `AnswersAreNotCrossed` (`LevinProofs`,
  from `LevinAssumption`, for any set of calls).
  Four places call a callback. `CInv` says who holds the right to: nobody has used
  it while the timer is armed; whoever cancels the timer, or its expiry, takes the
  right along; a call that could arm no timer leaves it to `async_invoke`. It needs
  that a handler that has been won is in neither list of handlers and that none is
  listed twice, because `cancel_timer` repeats its first result. `HInv` says that
  `refs` is the size of the set of those that use the endpoint (`Holders`: callers
  and senders on their way, armed and running timers, the handler that the strand
  has won), so that the count is zero only when there are none. `Line` says that the
  handlers are in step with the requests on the way, to the peer or back, or that no
  answer is matched any more (`Astray`). A request is queued before its handler is
  listed; that is right because `m_invoke_response_handlers_lock` is held from the
  one to the other (`Owners`), so only the last request can be without a handler.
* `WaitIsComplete`, `ErrorsAreReported` (`ThreadPoolProofs`, from
  `ThreadPoolAssumption`: a job is submitted once, by one task). A waiter counts
  only the jobs that were queued; those that `submit` runs on the spot it does not,
  and only the stack keeps their submitter from waiting. So the invariant `IInv`
  has one part about the stacks (`Stacks`: a task has one body, and below a job
  that `submit` runs is the body of its submitter) and one about the set of bodies
  (`Good`: jobs begin once and in order, and a job that is queued or running has a
  submitter that has not ended; `Count`: `num` counts). `EInv` adds that the
  flag of a waiter comes from a job that threw, and that a job that threw has set
  it, or its submitter throws too.

Only model-checked, and why:

* liveness (`DownloadEnds`, `EveryOperationEnds`, `EveryProgramEnds`,
  `EveryCallEnds`, `ShutIsDeleted`), which is beyond the prover;
* `IndexedUnlessAborted`, `IndexesMatchDb`, `WeightIsCumulative` and `CanRestart` of
  `TxPool`, which are not claimed for all constants: with private relay methods a
  transaction can be added twice, and in a pool at its limit an early return of
  `prune` then parts memory and database (`MCTxPoolPrune.cfg`). `tx_pool` checks the
  second and third with public methods, `tx_pool_relay` the other two with weightless
  transactions;
* `HardFork`, whose steps fold over windows of votes and need sums over them;
* `NeededInPlace` and `UsesQueueAsModelled`, which need induction over filtered
  sequences;
* `Pruning`: its heights come from products, quotients and remainders by constants,
  non-linear arithmetic that the runs enumerate.

## Not modelled

* Relay of transactions (`cryptonote_protocol/levin_notify.cpp`): epochs, stems and
  noise channels are driven by random delays; what the pool does about relay
  methods is in `TxPool`.
* Node server and peer lists (`p2p/`): handshakes and timed sync enter `Sync` as
  `Connect` and `TimedSync`; the lists are bounded containers under one lock.
* In the levin protocol, framing, fragments, throttling, SSL, the accept loop, the
  blocking `invoke`, `notify`, `request_callback` and `delete_connections`.
* The hard-fork object, the pool and the chain composed over one failing batch: each
  is checked against the batch by itself. A single failing write in `add_tx` is
  not modelled, only a failing batch.
* Pruned peers in `Sync`, and a chain entry checked hash by hash while another
  connection adds blocks.
* Miner, RPC payment, bootstrap daemon: little shared state, optional services.
* Difficulty and block weights: 128-bit arithmetic over windows of 720 values,
  out of reach of explicit states; taken as given.
* Wallet, multisig messaging, cryptography, RingCT, devices, serialization, RPC
  marshalling, daemon and tools: no part of the protocol state, algebra, or I/O.
  They are most of the repository's lines.
