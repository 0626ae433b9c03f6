------------------------------- MODULE CoreDb -------------------------------
(* Threads of the daemon around the database: the locks of the core, the     *)
(* batch of BlockchainLMDB, and the gate that keeps transactions out while   *)
(* the memory map is resized (src/src/blockchain_db/lmdb/db_lmdb.cpp).       *)
(*                                                                           *)
(* An operation is one of                                                    *)
(*   read    a lookup that takes no lock of the core                         *)
(*   scan    one that makes others, such as get_output_histogram             *)
(*   guard   lookups under the blockchain lock and a db_rtxn_guard           *)
(*   pool    a pool operation in a LockedTXN                                 *)
(*   txs     the same under m_incoming_tx_lock                               *)
(*   blocks  prepare, add and cleanup of incoming blocks, then pruning       *)
(* What the operations read and write is left out.  The mutexes are          *)
(* recursive: taking one that is owned is no step, and it is released where  *)
(* the outermost owner releases it.                                          *)
EXTENDS Integers, FiniteSets

CONSTANTS
  Threads,
  NoThread,
  MaxOps,        \* operations of a thread
  MaxResizes,    \* times the map is found too small
  MaxGrows,      \* times another process grows the map
  MapFaults      \* whether mdb_env_set_mapsize may fail

ASSUME CoreDbAssumption ==
  /\ IsFiniteSet(Threads)
  /\ NoThread \notin Threads
  /\ {MaxOps, MaxResizes, MaxGrows} \subseteq Nat
  /\ MapFaults \in BOOLEAN

Locks == {"incoming", "pool", "chain"}
Ops == {"read", "scan", "guard", "pool", "txs", "blocks"}
LockFree == {"read", "scan"}
WriteOps == {"pool", "txs", "blocks"}
Owner == Threads \cup {NoThread}

VARIABLES
  pc,               \* where each thread is
  op,               \* its operation
  ops,              \* how many it has begun
  lock,             \* owner of each lock
  creation_gate,    \* mdb_txn_safe::creation_gate
  num_active_txns,  \* mdb_txn_safe::num_active_txns
  autos,            \* threads with a counted mdb_txn_safe on their stack
  nested,           \* those with a second one
  rtxn,             \* threads whose read transaction is active (m_rf_txn)
  wtxn,             \* thread of the one write transaction of LMDB
  m_write_batch_txn,  \* the thread that has allocated the batch transaction
  m_write_txn, m_batch_active, m_writer,
  resizes, grows,
  map_grown         \* another process has grown the map
vars == <<pc, op, ops, lock, creation_gate, num_active_txns, autos, nested, rtxn, wtxn,
          m_write_batch_txn, m_write_txn, m_batch_active, m_writer, resizes, grows, map_grown>>
batch == <<m_write_txn, m_batch_active, m_writer>>
txns == <<num_active_txns, autos, nested, m_write_batch_txn>>
gate == <<creation_gate, txns>>
env == <<ops, resizes, grows>>

Init ==
  /\ pc = [t \in Threads |-> "idle"]
  /\ op = [t \in Threads |-> "read"]
  /\ ops = [t \in Threads |-> 0]
  /\ lock = [l \in Locks |-> NoThread]
  /\ creation_gate = FALSE
  /\ num_active_txns = 0
  /\ autos = {}
  /\ nested = {}
  /\ m_write_batch_txn = NoThread
  /\ rtxn = {}
  /\ wtxn = NoThread
  /\ m_write_txn = FALSE
  /\ m_batch_active = FALSE
  /\ m_writer = NoThread
  /\ resizes = 0
  /\ grows = 0
  /\ map_grown = FALSE

-----------------------------------------------------------------------------
At(t, label) == pc[t] = label
Goto(t, label) == pc' = [pc EXCEPT ![t] = label]

Acquire(t, l) == /\ lock[l] \in {NoThread, t}
                 /\ lock' = [lock EXCEPT ![l] = t]
Release(t, ls) == lock' = [l \in Locks |-> IF l \in ls /\ lock[l] = t THEN NoThread ELSE lock[l]]

\* An exception ends the operation.  Scoped locks are released; those that
\* core::prepare_handle_incoming_blocks and Blockchain's take by hand are not.
Throw(t) == /\ Release(t, IF op[t] = "blocks" THEN {"chain"} ELSE Locks)
            /\ Goto(t, "idle")

\* Mutant: the constructor does not look at the gate.
ungated_construct ==
  /\ num_active_txns' = num_active_txns + 1
  /\ UNCHANGED creation_gate

\* The constructor of mdb_txn_safe.  Between its test_and_set and its clear
\* nobody looks at the counter, so it is one step.
construct ==
  /\ ~creation_gate
  /\ num_active_txns' = num_active_txns + 1
  /\ UNCHANGED creation_gate

\* The destructor, and uncheck.
uncount ==
  /\ num_active_txns' = num_active_txns - 1
  /\ UNCHANGED creation_gate

\* The same for the object that a macro puts on the stack of thread t.
construct_auto(t) ==
  construct /\ autos' = autos \cup {t} /\ UNCHANGED <<nested, m_write_batch_txn>>
uncount_auto(t) ==
  uncount /\ autos' = autos \ {t} /\ UNCHANGED <<nested, m_write_batch_txn>>

prevent_new_txns == ~creation_gate /\ creation_gate' = TRUE
allow_new_txns == creation_gate' = FALSE

-----------------------------------------------------------------------------
(* The start of an operation and its locks, in the order they are taken.     *)

Begin(t) ==
  /\ At(t, "idle")
  /\ ops[t] < MaxOps
  /\ ops' = [ops EXCEPT ![t] = @ + 1]
  /\ \E o \in Ops :
       /\ op' = [op EXCEPT ![t] = o]
       /\ Goto(t, CASE o \in LockFree -> "construct"
                    [] o = "guard" -> "lock_chain"
                    [] o = "pool" -> "lock_pool"
                    [] o \in {"txs", "blocks"} -> "lock_incoming")
  /\ UNCHANGED <<lock, gate, rtxn, wtxn, batch, resizes, grows, map_grown>>

LockIncoming(t) ==
  /\ At(t, "lock_incoming")
  /\ Acquire(t, "incoming")
  /\ Goto(t, "lock_pool")
  /\ UNCHANGED <<op, gate, rtxn, wtxn, batch, env, map_grown>>

LockPool(t) ==
  /\ At(t, "lock_pool")
  /\ Acquire(t, "pool")
  /\ Goto(t, "lock_chain")
  /\ UNCHANGED <<op, gate, rtxn, wtxn, batch, env, map_grown>>

LockChain(t) ==
  /\ At(t, "lock_chain")
  /\ Acquire(t, "chain")
  /\ Goto(t, IF op[t] = "guard" THEN "begin" ELSE "batch_start")
  /\ UNCHANGED <<op, gate, rtxn, wtxn, batch, env, map_grown>>

-----------------------------------------------------------------------------
(* BlockchainLMDB::batch_start and the resize it may need.                   *)

\* A batch that is already active makes prepare_handle_incoming_blocks let go
\* of its locks, sleep and try again.  A LockedTXN joins it and ends nothing.
batch_start(t) ==
  /\ At(t, "batch_start")
  /\ IF m_batch_active \/ m_write_batch_txn # NoThread
     THEN /\ IF op[t] = "blocks"
             THEN Release(t, {"chain", "pool"}) /\ Goto(t, "lock_pool")
             ELSE Release(t, Locks) /\ Goto(t, "idle")
          /\ UNCHANGED <<m_writer, resizes>>
     ELSE /\ m_writer' = t
          /\ \/ Goto(t, "construct") /\ UNCHANGED resizes
             \/ /\ resizes < MaxResizes            \* need_resize
                /\ resizes' = resizes + 1
                /\ Goto(t, "resize")
          /\ UNCHANGED lock
  /\ UNCHANGED <<op, ops, grows, gate, rtxn, wtxn, m_write_txn, m_batch_active, map_grown>>

\* do_resize as far as its wait: it throws with the gate shut when a write
\* transaction is in progress.
do_resize(t) ==
  /\ At(t, "resize")
  /\ prevent_new_txns
  /\ IF m_write_txn
     THEN Throw(t)
     ELSE UNCHANGED lock /\ Goto(t, "resize_wait")
  /\ UNCHANGED <<op, txns, rtxn, wtxn, batch, env, map_grown>>

\* lmdb_resized, when mdb_txn_begin or mdb_txn_renew said MDB_MAP_RESIZED.
lmdb_resized(t) ==
  /\ At(t, "resized")
  /\ prevent_new_txns
  /\ Goto(t, "resized_wait")
  /\ UNCHANGED <<op, lock, txns, rtxn, wtxn, batch, env, map_grown>>

wait_no_active_txns(t) ==
  /\ num_active_txns = 0
  /\ \/ At(t, "resize_wait") /\ Goto(t, "resize_set")
     \/ At(t, "resized_wait") /\ Goto(t, "resized_set")
  /\ UNCHANGED <<op, lock, gate, rtxn, wtxn, batch, env, map_grown>>

\* mdb_env_set_mapsize succeeds.  A size of zero adopts what the other process
\* has set, and the transaction is begun again.
SetMapsize(t) ==
  /\ \/ At(t, "resize_set") /\ Goto(t, "construct") /\ UNCHANGED map_grown
     \/ At(t, "resized_set") /\ Goto(t, "begin") /\ map_grown' = FALSE
  /\ allow_new_txns
  /\ UNCHANGED <<op, lock, txns, rtxn, wtxn, batch, env>>

\* It fails, and the exception passes allow_new_txns by.
SetMapsizeThrows(t) ==
  /\ MapFaults
  /\ At(t, "resize_set") \/ At(t, "resized_set")
  /\ Throw(t)
  /\ UNCHANGED <<op, gate, rtxn, wtxn, batch, env, map_grown>>

-----------------------------------------------------------------------------
(* Transactions.                                                             *)

\* The mdb_txn_safe of a lookup, or the one that batch_start allocates.
Construct(t) ==
  /\ At(t, "construct")
  /\ IF op[t] \in LockFree
     THEN construct_auto(t)
     ELSE construct /\ m_write_batch_txn' = t /\ UNCHANGED <<autos, nested>>
  /\ Goto(t, "begin")
  /\ UNCHANGED <<op, lock, rtxn, wtxn, batch, env, map_grown>>

\* block_rtxn_start for a thread that is not the writer.
BeginRead(t) ==
  /\ At(t, "begin") /\ op[t] \notin WriteOps
  /\ IF map_grown
     THEN Goto(t, "resized") /\ UNCHANGED rtxn
     ELSE /\ rtxn' = rtxn \cup {t}
          /\ Goto(t, CASE op[t] = "read" -> "use"
                       [] op[t] = "scan" -> "nest"
                       [] op[t] = "guard" -> "lookup")
  /\ UNCHANGED <<op, lock, gate, wtxn, batch, env, map_grown>>

\* The rest of batch_start; LMDB has one writer at a time.
BeginBatch(t) ==
  /\ At(t, "begin") /\ op[t] \in WriteOps
  /\ wtxn = NoThread
  /\ IF map_grown
     THEN Goto(t, "resized") /\ UNCHANGED <<wtxn, m_write_txn, m_batch_active, rtxn>>
     ELSE /\ wtxn' = t
          /\ m_write_txn' = TRUE
          /\ m_batch_active' = TRUE
          /\ rtxn' = rtxn \ {t}
          /\ Goto(t, IF op[t] = "blocks" THEN "prepared" ELSE "lookup")
  /\ UNCHANGED <<op, lock, gate, m_writer, env, map_grown>>

\* A lookup inside a guard or a batch: TXN_PREFIX_RDONLY counts a transaction,
\* finds that block_rtxn_start has none to begin, and unchecks it.
Lookup(t) ==
  /\ At(t, "lookup")
  /\ construct_auto(t)
  /\ Goto(t, "uncheck")
  /\ UNCHANGED <<op, lock, rtxn, wtxn, batch, env, map_grown>>

uncheck(t) ==
  /\ At(t, "uncheck")
  /\ uncount_auto(t)
  /\ Goto(t, IF op[t] = "guard" THEN "use" ELSE IF op[t] = "blocks" THEN "added" ELSE "end")
  /\ UNCHANGED <<op, lock, rtxn, wtxn, batch, env, map_grown>>

\* The same inside a lookup without locks, which is counted itself.
NestedLookup(t) ==
  /\ \/ At(t, "nest") /\ construct /\ nested' = nested \cup {t} /\ Goto(t, "nested")
     \/ At(t, "nested") /\ uncount /\ nested' = nested \ {t} /\ Goto(t, "use")
  /\ UNCHANGED <<op, lock, autos, m_write_batch_txn, rtxn, wtxn, batch, env, map_grown>>

\* The end of a lookup without locks resets its transaction and counts it off.
EndRead(t) ==
  /\ At(t, "use") /\ op[t] \in LockFree
  /\ rtxn' = rtxn \ {t}
  /\ uncount_auto(t)
  /\ Goto(t, "idle")
  /\ UNCHANGED <<op, lock, wtxn, batch, env, map_grown>>

\* block_rtxn_stop by the guard, which was never counted.
EndGuard(t) ==
  /\ At(t, "use") /\ op[t] = "guard"
  /\ rtxn' = rtxn \ {t}
  /\ Release(t, {"chain"})
  /\ Goto(t, "idle")
  /\ UNCHANGED <<op, gate, wtxn, batch, env, map_grown>>

\* batch_stop or batch_abort, each from its owner only; then the locks.
EndBatch(t) ==
  /\ At(t, "end")
  /\ m_batch_active /\ m_write_txn /\ m_writer = t
  /\ m_write_txn' = FALSE
  /\ m_batch_active' = FALSE
  /\ uncount /\ m_write_batch_txn' = NoThread /\ UNCHANGED <<autos, nested>>
  /\ wtxn' = NoThread
  /\ IF op[t] = "blocks"
     THEN Release(t, {"chain", "pool"}) /\ Goto(t, "prune")
     ELSE Release(t, Locks) /\ Goto(t, "idle")
  /\ UNCHANGED <<op, rtxn, m_writer, env, map_grown>>

-----------------------------------------------------------------------------
(* The rest of an operation on blocks.  The blockchain lock is free between  *)
(* its three calls, while the batch stays active.                            *)

\* Mutant: the pool lock is not kept until cleanup.
careless_Prepared(t) ==
  /\ At(t, "prepared")
  /\ Release(t, {"chain", "pool"})
  /\ Goto(t, "add")
  /\ UNCHANGED <<op, gate, rtxn, wtxn, batch, env, map_grown>>

\* prepare_handle_incoming_blocks returns.
Prepared(t) ==
  /\ At(t, "prepared")
  /\ Release(t, {"chain"})
  /\ Goto(t, "add")
  /\ UNCHANGED <<op, gate, rtxn, wtxn, batch, env, map_grown>>

\* add_new_block: its guard finds the write transaction of its own thread.
add_new_block(t) ==
  /\ At(t, "add")
  /\ Acquire(t, "chain")
  /\ Goto(t, "lookup")
  /\ UNCHANGED <<op, gate, rtxn, wtxn, batch, env, map_grown>>

\* add_new_block returns.
Added(t) ==
  /\ At(t, "added")
  /\ Release(t, {"chain"})
  /\ Goto(t, "cleanup")
  /\ UNCHANGED <<op, gate, rtxn, wtxn, batch, env, map_grown>>

cleanup_handle_incoming_blocks(t) ==
  /\ At(t, "cleanup")
  /\ Acquire(t, "chain")
  /\ Goto(t, "end")
  /\ UNCHANGED <<op, gate, rtxn, wtxn, batch, env, map_grown>>

\* Mutant: the locks in the other order.
swapped_update_blockchain_pruning(t) ==
  /\ \/ At(t, "prune") /\ Acquire(t, "chain") /\ Goto(t, "prune_chain")
     \/ At(t, "prune_chain") /\ Acquire(t, "pool") /\ Goto(t, "prune_construct")
  /\ UNCHANGED <<op, gate, rtxn, wtxn, batch, env, map_grown>>

\* update_blockchain_pruning takes the two locks again, in their order.
update_blockchain_pruning(t) ==
  /\ \/ At(t, "prune") /\ Acquire(t, "pool") /\ Goto(t, "prune_chain")
     \/ At(t, "prune_chain") /\ Acquire(t, "chain") /\ Goto(t, "prune_construct")
  /\ UNCHANGED <<op, gate, rtxn, wtxn, batch, env, map_grown>>

\* prune_worker has a write transaction of its own; it calls mdb_txn_begin
\* itself, and MDB_MAP_RESIZED makes it throw.
prune_worker(t) ==
  \/ /\ At(t, "prune_construct")
     /\ construct_auto(t)
     /\ Goto(t, "prune_begin")
     /\ UNCHANGED <<op, lock, rtxn, wtxn, batch, env, map_grown>>
  \/ /\ At(t, "prune_begin")
     /\ wtxn = NoThread
     /\ wtxn' = (IF map_grown THEN NoThread ELSE t)
     /\ Goto(t, "prune_end")
     /\ UNCHANGED <<op, lock, gate, rtxn, batch, env, map_grown>>
  \/ /\ At(t, "prune_end")
     /\ wtxn' = (IF wtxn = t THEN NoThread ELSE wtxn)
     /\ uncount_auto(t)
     /\ Release(t, Locks)
     /\ Goto(t, "idle")
     /\ UNCHANGED <<op, rtxn, batch, env, map_grown>>

-----------------------------------------------------------------------------
\* Environment.  Another process, such as a blockchain utility, grows the file.
\* Only the begin of a transaction notices, so it is early enough to do it when
\* one is about to begin.
MapGrows ==
  /\ grows < MaxGrows
  /\ \E t \in Threads : At(t, "begin") \/ At(t, "prune_begin")
  /\ grows' = grows + 1
  /\ map_grown' = TRUE
  /\ UNCHANGED <<pc, op, ops, lock, gate, rtxn, wtxn, batch, resizes>>

Step(t) ==
  \/ LockIncoming(t) \/ LockPool(t) \/ LockChain(t)
  \/ batch_start(t) \/ do_resize(t) \/ lmdb_resized(t) \/ wait_no_active_txns(t)
  \/ SetMapsize(t) \/ SetMapsizeThrows(t)
  \/ Construct(t) \/ BeginRead(t) \/ BeginBatch(t) \/ Lookup(t) \/ uncheck(t)
  \/ NestedLookup(t) \/ EndRead(t) \/ EndGuard(t) \/ EndBatch(t)
  \/ Prepared(t) \/ add_new_block(t) \/ Added(t) \/ cleanup_handle_incoming_blocks(t)
  \/ update_blockchain_pruning(t) \/ prune_worker(t)

Next == MapGrows \/ \E t \in Threads : Begin(t) \/ Step(t)

\* A thread that has begun an operation and can go on does so.  No fairness is
\* asked of the spinning threads beyond that: the operations are bounded.
Fairness == \A t \in Threads : WF_vars(Step(t))
Spec == Init /\ [][Next]_vars /\ Fairness

-----------------------------------------------------------------------------
(* Properties.                                                               *)

TypeOK ==
  /\ op \in [Threads -> Ops]
  /\ lock \in [Locks -> Owner]
  /\ creation_gate \in BOOLEAN
  /\ num_active_txns \in Int
  /\ autos \subseteq Threads /\ nested \subseteq Threads
  /\ m_write_batch_txn \in Owner
  /\ rtxn \subseteq Threads
  /\ wtxn \in Owner /\ m_writer \in Owner
  /\ m_write_txn \in BOOLEAN /\ m_batch_active \in BOOLEAN

\* mdb_env_set_mapsize is called with no transaction of this process active,
\* as LMDB demands: not a counted one, and not one that a db_rtxn_guard has
\* begun, which num_active_txns does not count.
NoTxnDuringResize ==
  \A t \in Threads : pc[t] \in {"resize_set", "resized_set"} =>
    rtxn = {} /\ wtxn = NoThread /\ autos = {} /\ m_write_batch_txn = NoThread

\* A batch met by batch_start is never the batch of another thread, which is
\* what LockedTXN relies on; and the thread that ends a batch is its writer,
\* so batch_stop and batch_abort do not throw.
BatchIsMine ==
  \A t \in Threads :
    /\ At(t, "batch_start") /\ m_batch_active => m_writer = t
    /\ At(t, "end") => m_batch_active /\ m_write_txn /\ m_writer = t /\ wtxn = t

Waits(t) == pc[t] \in {"resize_wait", "resized_wait"}
Resizing(t) == Waits(t) \/ pc[t] \in {"resize_set", "resized_set"}

\* u cannot end its counted transaction before t has resized: t is u itself, u
\* wants to construct or to resize, or it wants the lock that t holds.
HeldUpBy(u, t) ==
  /\ u \in autos \cup {m_write_batch_txn}
  /\ \/ u = t
     \/ pc[u] \in {"nest", "lookup", "resized"}
     \/ pc[u] \in {"add", "cleanup"} /\ lock["chain"] = t

\* The gate is shut for good: a resize failed, or the thread that resizes waits
\* for a transaction that waits for it.
ShutForGood ==
  /\ creation_gate
  /\ \/ \A t \in Threads : ~Resizing(t)
     \/ \E t, u \in Threads : Waits(t) /\ HeldUpBy(u, t)

\* Every operation that has begun ends, unless the gate is shut for good in one
\* of the ways above: the locks, the gate, the counter and the writer of LMDB are not
\* waited for in any other circle.
EveryOperationEnds == \A t \in Threads : ~At(t, "idle") ~> (At(t, "idle") \/ ShutForGood)

\* Who shuts the gate for a resize opens it again.  With neither a failed resize
\* nor another process it does not, because of the lookups inside a lookup.
GateOpens == creation_gate ~> ~creation_gate

\* A thread that finds the map grown by another process adopts the new size.
MapResizedAdopted ==
  \A t \in Threads : At(t, "resized") ~> ~map_grown
=============================================================================
