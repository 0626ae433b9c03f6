---------------------------- MODULE CoreDbProofs ----------------------------
(* For any number of threads, operations and faults: the map of the database *)
(* is resized only while no transaction is active, and a batch is met and    *)
(* ended only by its own thread.                                             *)
EXTENDS CoreDb, FiniteSetTheorems, TLAPS

-----------------------------------------------------------------------------
(* The inductive invariant: what a thread holds is a function of where it is. *)

Adopting == {"resized", "resized_wait", "resized_set"}
Growing == {"resize", "resize_wait", "resize_set"}
Labels == {"idle", "lock_incoming", "lock_pool", "lock_chain", "batch_start", "construct",
           "begin", "lookup", "uncheck", "use", "end", "prepared", "add", "added", "cleanup",
           "prune", "prune_chain", "prune_construct", "prune_begin", "prune_end", "nest", "nested"}
          \cup Adopting \cup Growing

InBatch(t) ==
  op[t] \in WriteOps /\ pc[t] \in {"prepared", "add", "lookup", "uncheck", "added", "cleanup", "end"}

\* The thread is on the way to a batch.
Starting(t) ==
  op[t] \in WriteOps /\ pc[t] \in {"construct", "begin"} \cup Adopting \cup Growing

HasAuto(t) ==
  \/ op[t] \in LockFree /\ pc[t] \in {"begin", "nest", "nested", "use"} \cup Adopting
  \/ pc[t] \in {"uncheck", "prune_begin", "prune_end"}

HasBatch(t) == InBatch(t) \/ (op[t] \in WriteOps /\ pc[t] \in {"begin"} \cup Adopting)

OwnsChain(t) ==
  \/ op[t] = "guard" /\ pc[t] \in {"begin", "lookup", "uncheck", "use"} \cup Adopting
  \/ Starting(t) \/ (InBatch(t) /\ pc[t] \notin {"add", "cleanup"})
  \/ pc[t] \in {"batch_start", "prune_construct", "prune_begin", "prune_end"}

OwnsPool(t) ==
  \/ Starting(t) \/ InBatch(t)
  \/ op[t] \in WriteOps /\ pc[t] = "lock_chain"
  \/ pc[t] \in {"batch_start", "prune_chain", "prune_construct", "prune_begin", "prune_end"}

\* Which operation reaches a label.
OpFits(t) ==
  /\ pc[t] \in {"batch_start"} \cup Growing \cup {"end"} => op[t] \in WriteOps
  /\ pc[t] \in {"prepared", "add", "added", "cleanup", "prune", "prune_chain",
                "prune_construct", "prune_begin", "prune_end"} => op[t] = "blocks"
  /\ pc[t] = "use" => op[t] \in LockFree \cup {"guard"}
  /\ pc[t] \in {"nest", "nested"} => op[t] = "scan"
  /\ pc[t] \in {"lookup", "uncheck"} => op[t] \notin LockFree
  /\ pc[t] = "construct" => op[t] # "guard"
  /\ pc[t] = "lock_chain" => op[t] \notin LockFree
  /\ pc[t] \in {"lock_pool", "lock_incoming"} => op[t] \in WriteOps

OpsFit == \A t \in Threads : OpFits(t)

LocksFit ==
  \A t \in Threads : /\ OwnsChain(t) => lock["chain"] = t
                     /\ OwnsPool(t) => lock["pool"] = t

ReadsFit ==
  \A t \in rtxn : \/ op[t] \in LockFree /\ pc[t] \in {"nest", "nested", "use"}
                  \/ op[t] = "guard" /\ pc[t] \in {"lookup", "uncheck", "use"}

WritesFit ==
  \A t \in Threads :
    /\ wtxn = t => InBatch(t) \/ pc[t] = "prune_end"
    /\ Starting(t) => m_writer = t
    /\ InBatch(t) => m_batch_active /\ m_write_txn /\ m_writer = t /\ wtxn = t

BatchHasThread == m_batch_active => \E t \in Threads : InBatch(t)

AutosFit ==
  \A t \in Threads : (t \in autos <=> HasAuto(t)) /\ (t \in nested <=> pc[t] = "nested")
BatchTxnFits == \A t \in Threads : m_write_batch_txn = t <=> HasBatch(t)

Counted ==
  /\ IsFiniteSet(autos) /\ IsFiniteSet(nested)
  /\ num_active_txns = Cardinality(autos) + Cardinality(nested)
                       + (IF m_write_batch_txn = NoThread THEN 0 ELSE 1)

GateShut ==
  \A t \in Threads : Resizing(t) => creation_gate /\ \A u \in Threads : Resizing(u) => u = t

Drained == \A t \in Threads : pc[t] \in {"resize_set", "resized_set"} =>
             autos = {} /\ m_write_batch_txn = NoThread

IInv ==
  /\ TypeOK /\ pc \in [Threads -> Labels]
  /\ OpsFit /\ LocksFit /\ ReadsFit /\ WritesFit /\ BatchHasThread
  /\ AutosFit /\ BatchTxnFits /\ Counted
  /\ GateShut /\ Drained



-----------------------------------------------------------------------------
(* Counting.                                                                 *)

\* The counter follows a constructor on the stack of a thread that has none.
LEMMA CountUp ==
  ASSUME Counted, NEW t \in Threads, t \notin autos, construct_auto(t)
  PROVE  Counted'
<1>1. IsFiniteSet(autos \cup {t}) /\ Cardinality(autos \cup {t}) = Cardinality(autos) + 1
  BY FS_AddElement, Zenon DEF Counted
<1>2. Cardinality(autos) \in Nat /\ Cardinality(nested) \in Nat
  BY FS_CardinalityType, Zenon DEF Counted
<1> QED
  BY <1>1, <1>2 DEF Counted, construct_auto, construct

\* The counter follows the destructor of the object that the thread has.
LEMMA CountDown ==
  ASSUME Counted, NEW t \in autos, uncount_auto(t)
  PROVE  Counted'
<1>1. IsFiniteSet(autos \ {t}) /\ Cardinality(autos \ {t}) = Cardinality(autos) - 1
  BY FS_RemoveElement, Zenon DEF Counted
<1>2. Cardinality(autos) \in Nat /\ Cardinality(nested) \in Nat
  BY FS_CardinalityType, Zenon DEF Counted
<1> QED
  BY <1>1, <1>2 DEF Counted, uncount_auto, uncount

\* The same for the second object of a thread.
LEMMA NestedCountUp ==
  ASSUME Counted, NEW t, t \notin nested, construct, nested' = nested \cup {t},
         UNCHANGED <<autos, m_write_batch_txn>>
  PROVE  Counted'
<1>1. IsFiniteSet(nested \cup {t}) /\ Cardinality(nested \cup {t}) = Cardinality(nested) + 1
  BY FS_AddElement, Zenon DEF Counted
<1>2. Cardinality(autos) \in Nat /\ Cardinality(nested) \in Nat
  BY FS_CardinalityType, Zenon DEF Counted
<1> QED
  BY <1>1, <1>2 DEF Counted, construct

LEMMA NestedCountDown ==
  ASSUME Counted, NEW t \in nested, uncount, nested' = nested \ {t},
         UNCHANGED <<autos, m_write_batch_txn>>
  PROVE  Counted'
<1>1. IsFiniteSet(nested \ {t}) /\ Cardinality(nested \ {t}) = Cardinality(nested) - 1
  BY FS_RemoveElement, Zenon DEF Counted
<1>2. Cardinality(autos) \in Nat /\ Cardinality(nested) \in Nat
  BY FS_CardinalityType, Zenon DEF Counted
<1> QED
  BY <1>1, <1>2 DEF Counted, uncount

\* A count of zero means that there is no counted transaction.
LEMMA ZeroMeansNone ==
  ASSUME Counted, num_active_txns = 0
  PROVE  autos = {} /\ m_write_batch_txn = NoThread
<1>1. Cardinality(autos) \in Nat /\ Cardinality(nested) \in Nat
  BY FS_CardinalityType, Zenon DEF Counted
<1>2. Cardinality(autos) = 0 /\ m_write_batch_txn = NoThread
  BY <1>1 DEF Counted
<1> QED
  BY <1>2, FS_EmptySet, Zenon DEF Counted

-----------------------------------------------------------------------------
(* Every step keeps the invariant.                                           *)

\* The daemon starts with no lock, no transaction and an open gate.
LEMMA InitFits == Init => IInv
<1> SUFFICES ASSUME Init PROVE IInv
  BY Zenon
<1>1. Counted
  BY FS_EmptySet DEF Init, Counted
<1>2. TypeOK /\ pc \in [Threads -> Labels]
  <2>1. creation_gate \in BOOLEAN /\ m_write_txn \in BOOLEAN /\ m_batch_active \in BOOLEAN
    BY Zenon DEF Init
  <2> QED
    BY <2>1, CoreDbAssumption DEF Init, TypeOK, Labels, Owner, Ops, Locks
<1>3. OpsFit /\ LocksFit
  BY CoreDbAssumption, Zenon DEF Init, OpsFit, LocksFit, OpFits, OwnsChain, OwnsPool, Starting, InBatch,
                          Adopting, Growing
<1>4. ReadsFit /\ WritesFit /\ BatchHasThread
  BY CoreDbAssumption, Zenon DEF Init, ReadsFit, WritesFit, BatchHasThread, Starting, InBatch, Adopting,
                          Growing
<1>5. AutosFit /\ BatchTxnFits /\ GateShut /\ Drained
  BY CoreDbAssumption, Zenon DEF Init, AutosFit, BatchTxnFits, GateShut, Drained, HasAuto, HasBatch,
                          InBatch, Waits, Resizing, Adopting, Growing
<1> QED
  BY <1>1, <1>2, <1>3, <1>4, <1>5, Zenon DEF IInv

\* The invariant through taking a lock, or beginning an operation.
LEMMA LockKeeps ==
  ASSUME IInv, NEW t \in Threads
  PROVE  (Begin(t) \/ LockIncoming(t) \/ LockPool(t) \/ LockChain(t)) => IInv'
<1> USE CoreDbAssumption DEF At, Goto, batch, gate, txns, env, Locks, Owner, Ops, WriteOps, LockFree,
                             Labels, Adopting, Growing, InBatch, Starting, Waits, Resizing, IInv, TypeOK
<1>1. ASSUME Begin(t) PROVE IInv'
  <2>1. TypeOK' /\ pc' \in [Threads -> Labels]
    BY <1>1
    DEF Begin, env
  <2>2. OpsFit' /\ LocksFit' /\ ReadsFit'
    BY <1>1, SMTT(60)
    DEF Begin, env, OpsFit, OpFits, LocksFit, OwnsChain, OwnsPool, ReadsFit
  <2>3. WritesFit' /\ BatchHasThread' /\ BatchTxnFits'
    BY <1>1, SMTT(60)
    DEF Begin, env, OpsFit, OpFits, LocksFit, OwnsPool, WritesFit, BatchHasThread,
        BatchTxnFits, HasBatch, Drained
  <2>4. AutosFit' /\ GateShut' /\ Drained'
    BY <1>1, SMTT(60)
    DEF Begin, env, OpsFit, OpFits, AutosFit, HasAuto, GateShut, Drained
  <2>5. Counted'
    BY <1>1, Zenon
    DEF Begin, env, Counted
  <2> QED
    BY <2>1, <2>2, <2>3, <2>4, <2>5, Zenon
<1>2. ASSUME LockIncoming(t) PROVE IInv'
  <2>1. TypeOK' /\ pc' \in [Threads -> Labels]
    BY <1>2, Zenon
    DEF LockIncoming, Acquire
  <2>2. OpsFit' /\ LocksFit' /\ ReadsFit'
    BY <1>2, SMTT(60)
    DEF LockIncoming, Acquire, OpsFit, OpFits, LocksFit, OwnsChain, OwnsPool, ReadsFit
  <2>3. WritesFit' /\ BatchHasThread' /\ BatchTxnFits'
    BY <1>2, SMTT(60)
    DEF LockIncoming, Acquire, OpsFit, OpFits, LocksFit, OwnsPool, WritesFit,
        BatchHasThread, BatchTxnFits, HasBatch, Drained
  <2>4. AutosFit' /\ GateShut' /\ Drained'
    BY <1>2, SMTT(60)
    DEF LockIncoming, Acquire, OpsFit, OpFits, AutosFit, HasAuto, GateShut, Drained
  <2>5. Counted'
    BY <1>2, Zenon
    DEF LockIncoming, Acquire, Counted
  <2> QED
    BY <2>1, <2>2, <2>3, <2>4, <2>5
<1>3. ASSUME LockPool(t) PROVE IInv'
  <2>1. TypeOK' /\ pc' \in [Threads -> Labels]
    BY <1>3, Zenon
    DEF LockPool, Acquire
  <2>2. OpsFit' /\ LocksFit' /\ ReadsFit'
    BY <1>3, SMTT(60)
    DEF LockPool, Acquire, OpsFit, OpFits, LocksFit, OwnsChain, OwnsPool, ReadsFit
  <2>3. WritesFit' /\ BatchHasThread' /\ BatchTxnFits'
    BY <1>3, SMTT(60)
    DEF LockPool, Acquire, OpsFit, OpFits, LocksFit, OwnsPool, WritesFit, BatchHasThread,
        BatchTxnFits, HasBatch, Drained
  <2>4. AutosFit' /\ GateShut' /\ Drained'
    BY <1>3, SMTT(60)
    DEF LockPool, Acquire, OpsFit, OpFits, AutosFit, HasAuto, GateShut, Drained
  <2>5. Counted'
    BY <1>3, Zenon
    DEF LockPool, Acquire, Counted
  <2> QED
    BY <2>1, <2>2, <2>3, <2>4, <2>5
<1>4. ASSUME LockChain(t) PROVE IInv'
  <2>1. TypeOK' /\ pc' \in [Threads -> Labels]
    BY <1>4, Zenon
    DEF LockChain, Acquire
  <2>2. OpsFit' /\ LocksFit' /\ ReadsFit'
    BY <1>4, SMTT(60)
    DEF LockChain, Acquire, OpsFit, OpFits, LocksFit, OwnsChain, OwnsPool, ReadsFit
  <2>3. WritesFit' /\ BatchHasThread' /\ BatchTxnFits'
    BY <1>4, SMTT(60)
    DEF LockChain, Acquire, OpsFit, OpFits, LocksFit, OwnsPool, WritesFit, BatchHasThread,
        BatchTxnFits, HasBatch, Drained
  <2>4. AutosFit' /\ GateShut' /\ Drained'
    BY <1>4, SMTT(60)
    DEF LockChain, Acquire, OpsFit, OpFits, AutosFit, HasAuto, GateShut, Drained
  <2>5. Counted'
    BY <1>4, Zenon
    DEF LockChain, Acquire, Counted
  <2> QED
    BY <2>1, <2>2, <2>3, <2>4, <2>5
<1> QED
  BY <1>1, <1>2, <1>3, <1>4, Zenon

\* The invariant through batch_start and the resizing of the map.
LEMMA ResizeKeeps ==
  ASSUME IInv, NEW t \in Threads
  PROVE  (batch_start(t) \/ do_resize(t) \/ lmdb_resized(t) \/
          wait_no_active_txns(t) \/ SetMapsize(t) \/ SetMapsizeThrows(t)) => IInv'
<1> USE CoreDbAssumption DEF At, Goto, batch, gate, txns, env, Locks, Owner, Ops, WriteOps, LockFree,
                             Labels, Adopting, Growing, InBatch, Starting, Waits, Resizing, IInv, TypeOK
<1>1. ASSUME batch_start(t) PROVE IInv'
  <2>1. TypeOK' /\ pc' \in [Threads -> Labels]
    BY <1>1
    DEF batch_start, Release
  <2>2. OpsFit' /\ LocksFit' /\ ReadsFit'
    <3>1. OpsFit'
      BY <1>1, SMTT(60)
      DEF batch_start, Release, OpsFit, OpFits
    <3>2. LocksFit'
      BY <1>1, SMTT(60)
      DEF batch_start, Release, OpsFit, OpFits, LocksFit, OwnsChain, OwnsPool
    <3>3. ReadsFit'
      BY <1>1, SMTT(60)
      DEF batch_start, Release, OpsFit, OpFits, ReadsFit
    <3> QED BY <3>1, <3>2, <3>3, Zenon
  <2>3. WritesFit' /\ BatchHasThread' /\ BatchTxnFits'
    <3>1. WritesFit'
      BY <1>1, SMTT(60)
      DEF batch_start, Release, OpsFit, OpFits, LocksFit, OwnsPool, WritesFit
    <3>2. BatchHasThread'
      BY <1>1, ZenonT(60)
      DEF batch_start, Release, OpsFit, OpFits, LocksFit, OwnsPool, WritesFit,
          BatchHasThread
    <3>3. BatchTxnFits'
      BY <1>1, SMTT(60)
      DEF batch_start, Release, OpsFit, OpFits, WritesFit, BatchTxnFits, HasBatch, Drained
    <3> QED BY <3>1, <3>2, <3>3, Zenon
  <2>4. AutosFit' /\ GateShut' /\ Drained'
    BY <1>1, SMTT(60)
    DEF batch_start, Release, OpsFit, OpFits, AutosFit, HasAuto, GateShut, Drained
  <2>5. Counted'
    BY <1>1, Zenon
    DEF batch_start, Release, Counted
  <2> QED
    BY <2>1, <2>2, <2>3, <2>4, <2>5
<1>2. ASSUME do_resize(t) PROVE IInv'
  <2>1. TypeOK' /\ pc' \in [Threads -> Labels]
    BY <1>2
    DEF do_resize, prevent_new_txns, Throw, Release
  <2>2. OpsFit' /\ LocksFit' /\ ReadsFit'
    BY <1>2, SMTT(60)
    DEF do_resize, prevent_new_txns, Throw, Release, OpsFit, OpFits, LocksFit, OwnsChain,
        OwnsPool, ReadsFit
  <2>3. WritesFit' /\ BatchHasThread' /\ BatchTxnFits'
    BY <1>2, SMTT(60)
    DEF do_resize, prevent_new_txns, Throw, Release, OpsFit, OpFits, LocksFit, OwnsPool,
        WritesFit, BatchHasThread, BatchTxnFits, HasBatch, Drained
  <2>4. AutosFit' /\ GateShut' /\ Drained'
    BY <1>2, SMTT(60)
    DEF do_resize, prevent_new_txns, Throw, Release, OpsFit, OpFits, AutosFit, HasAuto,
        GateShut, Drained
  <2>5. Counted'
    BY <1>2, Zenon
    DEF do_resize, prevent_new_txns, Throw, Release, Counted
  <2> QED
    BY <2>1, <2>2, <2>3, <2>4, <2>5
<1>3. ASSUME lmdb_resized(t) PROVE IInv'
  <2>1. TypeOK' /\ pc' \in [Threads -> Labels]
    BY <1>3, Zenon
    DEF lmdb_resized, prevent_new_txns
  <2>2. OpsFit' /\ LocksFit' /\ ReadsFit'
    <3>1. OpsFit'
      BY <1>3, Zenon
      DEF lmdb_resized, prevent_new_txns, OpsFit, OpFits
    <3>2. LocksFit'
      BY <1>3, SMTT(60)
      DEF lmdb_resized, prevent_new_txns, OpsFit, OpFits, LocksFit, OwnsChain, OwnsPool
    <3>3. ReadsFit'
      BY <1>3, Zenon
      DEF lmdb_resized, prevent_new_txns, OpsFit, OpFits, ReadsFit
    <3> QED BY <3>1, <3>2, <3>3, Zenon
  <2>3. WritesFit' /\ BatchHasThread' /\ BatchTxnFits'
    BY <1>3, SMTT(60)
    DEF lmdb_resized, prevent_new_txns, OpsFit, OpFits, LocksFit, OwnsPool, WritesFit,
        BatchHasThread, BatchTxnFits, HasBatch, Drained
  <2>4. AutosFit' /\ GateShut' /\ Drained'
    BY <1>3, SMTT(60)
    DEF lmdb_resized, prevent_new_txns, OpsFit, OpFits, AutosFit, HasAuto, GateShut, Drained
  <2>5. Counted'
    BY <1>3, Zenon
    DEF lmdb_resized, prevent_new_txns, Counted
  <2> QED
    BY <2>1, <2>2, <2>3, <2>4, <2>5
<1>4. ASSUME wait_no_active_txns(t) PROVE IInv'
  <2>0. autos = {} /\ m_write_batch_txn = NoThread
    BY <1>4, ZeroMeansNone, Zenon DEF wait_no_active_txns
  <2>1. TypeOK' /\ pc' \in [Threads -> Labels]
    BY <1>4, <2>0
    DEF wait_no_active_txns
  <2>2. OpsFit' /\ LocksFit' /\ ReadsFit'
    <3>1. OpsFit'
      BY <1>4, SMTT(60)
      DEF wait_no_active_txns, OpsFit, OpFits
    <3>2. LocksFit'
      BY <1>4, SMTT(60)
      DEF wait_no_active_txns, OpsFit, OpFits, LocksFit, OwnsChain, OwnsPool
    <3>3. ReadsFit'
      BY <1>4, ZenonT(60)
      DEF wait_no_active_txns, OpsFit, OpFits, ReadsFit
    <3> QED BY <3>1, <3>2, <3>3, Zenon
  <2>3. WritesFit' /\ BatchHasThread' /\ BatchTxnFits'
    BY <1>4, SMTT(60)
    DEF wait_no_active_txns, OpsFit, OpFits, LocksFit, OwnsPool, WritesFit, BatchHasThread,
        BatchTxnFits, HasBatch, Drained
  <2>4. AutosFit' /\ GateShut' /\ Drained'
    BY <1>4, <2>0, SMTT(60)
    DEF wait_no_active_txns, OpsFit, OpFits, AutosFit, HasAuto, GateShut, Drained
  <2>5. Counted'
    BY <1>4, Zenon
    DEF wait_no_active_txns, Counted
  <2> QED
    BY <2>1, <2>2, <2>3, <2>4, <2>5
<1>5. ASSUME SetMapsize(t) PROVE IInv'
  <2>0. m_write_txn' \in BOOLEAN /\ m_batch_active' \in BOOLEAN /\ creation_gate' \in BOOLEAN
    BY <1>5, Zenon
    DEF SetMapsize, allow_new_txns
  <2>1. TypeOK' /\ pc' \in [Threads -> Labels]
    BY <1>5, <2>0, Zenon
    DEF SetMapsize, allow_new_txns
  <2>2. OpsFit' /\ LocksFit' /\ ReadsFit'
    BY <1>5, SMTT(60)
    DEF SetMapsize, allow_new_txns, OpsFit, OpFits, LocksFit, OwnsChain, OwnsPool, ReadsFit
  <2>3. WritesFit' /\ BatchHasThread' /\ BatchTxnFits'
    BY <1>5, SMTT(60)
    DEF SetMapsize, allow_new_txns, OpsFit, OpFits, LocksFit, OwnsPool, WritesFit,
        BatchHasThread, BatchTxnFits, HasBatch, Drained
  <2>4. AutosFit' /\ GateShut' /\ Drained'
    BY <1>5, <2>0, SMTT(60)
    DEF SetMapsize, allow_new_txns, OpsFit, OpFits, AutosFit, HasAuto, GateShut, Drained
  <2>5. Counted'
    BY <1>5, Zenon
    DEF SetMapsize, allow_new_txns, Counted
  <2> QED
    BY <2>1, <2>2, <2>3, <2>4, <2>5
<1>6. ASSUME SetMapsizeThrows(t) PROVE IInv'
  <2>1. TypeOK' /\ pc' \in [Threads -> Labels]
    BY <1>6, Zenon
    DEF SetMapsizeThrows, Throw, Release
  <2>2. OpsFit' /\ LocksFit' /\ ReadsFit'
    BY <1>6, SMTT(60)
    DEF SetMapsizeThrows, Throw, Release, OpsFit, OpFits, LocksFit, OwnsChain, OwnsPool,
        ReadsFit
  <2>3. WritesFit' /\ BatchHasThread' /\ BatchTxnFits'
    BY <1>6, SMTT(60)
    DEF SetMapsizeThrows, Throw, Release, OpsFit, OpFits, LocksFit, OwnsPool, WritesFit,
        BatchHasThread, BatchTxnFits, HasBatch, Drained
  <2>4. AutosFit' /\ GateShut' /\ Drained'
    BY <1>6, ZenonT(60)
    DEF SetMapsizeThrows, Throw, Release, OpsFit, OpFits, AutosFit, HasAuto, GateShut,
        Drained
  <2>5. Counted'
    BY <1>6, Zenon
    DEF SetMapsizeThrows, Throw, Release, Counted
  <2> QED
    BY <2>1, <2>2, <2>3, <2>4, <2>5
<1> QED
  BY <1>1, <1>2, <1>3, <1>4, <1>5, <1>6, ZenonT(60)

\* The invariant through beginning and ending transactions.
LEMMA TxnKeeps ==
  ASSUME IInv, NEW t \in Threads
  PROVE  (Construct(t) \/ BeginRead(t) \/ BeginBatch(t) \/ Lookup(t) \/ uncheck(t) \/
          NestedLookup(t) \/ EndRead(t) \/ EndGuard(t) \/ EndBatch(t)) => IInv'
<1> USE CoreDbAssumption DEF At, Goto, batch, gate, txns, env, Locks, Owner, Ops, WriteOps, LockFree,
                             Labels, Adopting, Growing, InBatch, Starting, Waits, Resizing, IInv, TypeOK
<1>1. ASSUME Construct(t) PROVE IInv'
  <2>1. TypeOK' /\ pc' \in [Threads -> Labels]
    BY <1>1
    DEF Construct, construct, construct_auto
  <2>2. OpsFit' /\ LocksFit' /\ ReadsFit'
    BY <1>1, SMTT(60)
    DEF Construct, construct, construct_auto, OpsFit, OpFits, LocksFit, OwnsChain, OwnsPool,
        ReadsFit
  <2>3. WritesFit' /\ BatchHasThread' /\ BatchTxnFits'
    BY <1>1, SMTT(60)
    DEF Construct, construct, construct_auto, OpsFit, OpFits, LocksFit, OwnsPool, WritesFit,
        BatchHasThread, BatchTxnFits, HasBatch, Drained
  <2>4. AutosFit' /\ GateShut' /\ Drained'
    BY <1>1, SMTT(60)
    DEF Construct, construct, construct_auto, OpsFit, OpFits, AutosFit, HasAuto, GateShut,
        Drained
  <2>5. Counted'
    <3>1. t \notin autos
      BY <1>1, Zenon DEF Construct, AutosFit, HasAuto, OpsFit, OpFits
    <3>2. CASE op[t] \in LockFree
      BY <1>1, <3>1, <3>2, CountUp, Zenon DEF Construct
    <3>3. CASE op[t] \notin LockFree
      <4>1. m_write_batch_txn = NoThread
        BY <1>1, <3>3 DEF Construct, BatchTxnFits, HasBatch, LocksFit, OwnsPool, OpsFit, OpFits
      <4> QED
        BY <1>1, <3>3, <4>1, FS_CardinalityType DEF Construct, construct, Counted
    <3> QED
      BY <3>2, <3>3, Zenon
  <2> QED
    BY <2>1, <2>2, <2>3, <2>4, <2>5
<1>2. ASSUME BeginRead(t) PROVE IInv'
  <2>1. TypeOK' /\ pc' \in [Threads -> Labels]
    BY <1>2
    DEF BeginRead
  <2>2. OpsFit' /\ LocksFit' /\ ReadsFit'
    BY <1>2, SMTT(60)
    DEF BeginRead, OpsFit, OpFits, LocksFit, OwnsChain, OwnsPool, ReadsFit
  <2>3. WritesFit' /\ BatchHasThread' /\ BatchTxnFits'
    BY <1>2, SMTT(60)
    DEF BeginRead, OpsFit, OpFits, LocksFit, OwnsPool, WritesFit, BatchHasThread,
        BatchTxnFits, HasBatch, Drained
  <2>4. AutosFit' /\ GateShut' /\ Drained'
    BY <1>2, SMTT(60)
    DEF BeginRead, OpsFit, OpFits, AutosFit, HasAuto, GateShut, Drained
  <2>5. Counted'
    BY <1>2, Zenon
    DEF BeginRead, Counted
  <2> QED
    BY <2>1, <2>2, <2>3, <2>4, <2>5
<1>3. ASSUME BeginBatch(t) PROVE IInv'
  <2>0. m_write_txn' \in BOOLEAN /\ m_batch_active' \in BOOLEAN /\ creation_gate' \in BOOLEAN
    BY <1>3, Zenon
    DEF BeginBatch
  <2>1. TypeOK' /\ pc' \in [Threads -> Labels]
    BY <1>3, <2>0, ZenonT(60)
    DEF BeginBatch
  <2>2. OpsFit' /\ LocksFit' /\ ReadsFit'
    BY <1>3, SMTT(60)
    DEF BeginBatch, OpsFit, OpFits, LocksFit, OwnsChain, OwnsPool, ReadsFit
  <2>3. WritesFit' /\ BatchHasThread' /\ BatchTxnFits'
    BY <1>3, SMTT(60)
    DEF BeginBatch, OpsFit, OpFits, LocksFit, OwnsPool, WritesFit, BatchHasThread,
        BatchTxnFits, HasBatch, Drained
  <2>4. AutosFit' /\ GateShut' /\ Drained'
    BY <1>3, <2>0, SMTT(60)
    DEF BeginBatch, OpsFit, OpFits, AutosFit, HasAuto, GateShut, Drained
  <2>5. Counted'
    BY <1>3, ZenonT(60)
    DEF BeginBatch, Counted
  <2> QED
    BY <2>1, <2>2, <2>3, <2>4, <2>5
<1>4. ASSUME Lookup(t) PROVE IInv'
  <2>1. TypeOK' /\ pc' \in [Threads -> Labels]
    BY <1>4
    DEF Lookup, construct, construct_auto
  <2>2. OpsFit' /\ LocksFit' /\ ReadsFit'
    BY <1>4, SMTT(60)
    DEF Lookup, construct, construct_auto, OpsFit, OpFits, LocksFit, OwnsChain, OwnsPool,
        ReadsFit
  <2>3. WritesFit' /\ BatchHasThread' /\ BatchTxnFits'
    BY <1>4, SMTT(60)
    DEF Lookup, construct, construct_auto, OpsFit, OpFits, LocksFit, OwnsPool, WritesFit,
        BatchHasThread, BatchTxnFits, HasBatch, Drained
  <2>4. AutosFit' /\ GateShut' /\ Drained'
    BY <1>4, ZenonT(60)
    DEF Lookup, construct, construct_auto, OpsFit, OpFits, AutosFit, HasAuto, GateShut,
        Drained
  <2>5. Counted'
    <3>1. t \notin autos
      BY <1>4, Zenon DEF Lookup, AutosFit, HasAuto, OpsFit, OpFits
    <3> QED
      BY <1>4, <3>1, CountUp, Zenon DEF Lookup
  <2> QED
    BY <2>1, <2>2, <2>3, <2>4, <2>5
<1>5. ASSUME uncheck(t) PROVE IInv'
  <2>1. TypeOK' /\ pc' \in [Threads -> Labels]
    BY <1>5
    DEF uncheck, uncount, uncount_auto
  <2>2. OpsFit' /\ LocksFit' /\ ReadsFit'
    BY <1>5, SMTT(60)
    DEF uncheck, uncount, uncount_auto, OpsFit, OpFits, LocksFit, OwnsChain, OwnsPool,
        ReadsFit
  <2>3. WritesFit' /\ BatchHasThread' /\ BatchTxnFits'
    <3>1. WritesFit'
      BY <1>5, SMTT(60)
      DEF uncheck, uncount, uncount_auto, OpsFit, OpFits, LocksFit, OwnsPool, WritesFit
    <3>2. BatchHasThread'
      BY <1>5, SMTT(60)
      DEF uncheck, uncount, uncount_auto, OpsFit, OpFits, LocksFit, OwnsPool, WritesFit, BatchHasThread
    <3>3. BatchTxnFits'
      BY <1>5, SMTT(60)
      DEF uncheck, uncount, uncount_auto, OpsFit, OpFits, LocksFit, OwnsPool, BatchTxnFits, HasBatch
    <3> QED
      BY <3>1, <3>2, <3>3, Zenon
  <2>4. AutosFit' /\ GateShut' /\ Drained'
    BY <1>5, SMTT(60)
    DEF uncheck, uncount, uncount_auto, OpsFit, OpFits, AutosFit, HasAuto, GateShut, Drained
  <2>5. Counted'
    <3>1. t \in autos
      BY <1>5, ZenonT(60) DEF uncheck, AutosFit, HasAuto, OpsFit, OpFits
    <3> QED
      BY <1>5, <3>1, CountDown, Zenon DEF uncheck
  <2> QED
    BY <2>1, <2>2, <2>3, <2>4, <2>5
<1>6. ASSUME EndRead(t) PROVE IInv'
  <2>1. TypeOK' /\ pc' \in [Threads -> Labels]
    BY <1>6
    DEF EndRead, uncount, uncount_auto
  <2>2. OpsFit' /\ LocksFit' /\ ReadsFit'
    <3>1. OpsFit'
      BY <1>6, ZenonT(60)
      DEF EndRead, uncount, uncount_auto, OpsFit, OpFits
    <3>2. LocksFit'
      BY <1>6, SMTT(60)
      DEF EndRead, uncount, uncount_auto, OpsFit, OpFits, LocksFit, OwnsChain, OwnsPool
    <3>3. ReadsFit'
      BY <1>6, Zenon
      DEF EndRead, uncount, uncount_auto, OpsFit, OpFits, ReadsFit
    <3> QED BY <3>1, <3>2, <3>3, Zenon
  <2>3. WritesFit' /\ BatchHasThread' /\ BatchTxnFits'
    BY <1>6, SMTT(60)
    DEF EndRead, uncount, uncount_auto, OpsFit, OpFits, LocksFit, OwnsPool, WritesFit,
        BatchHasThread, BatchTxnFits, HasBatch, Drained
  <2>4. AutosFit' /\ GateShut' /\ Drained'
    BY <1>6, SMTT(60)
    DEF EndRead, uncount, uncount_auto, OpsFit, OpFits, AutosFit, HasAuto, GateShut, Drained
  <2>5. Counted'
    <3>1. t \in autos
      BY <1>6, Zenon DEF EndRead, AutosFit, HasAuto, OpsFit, OpFits
    <3> QED
      BY <1>6, <3>1, CountDown, Zenon DEF EndRead
  <2> QED
    BY <2>1, <2>2, <2>3, <2>4, <2>5
<1>7. ASSUME EndGuard(t) PROVE IInv'
  <2>1. TypeOK' /\ pc' \in [Threads -> Labels]
    BY <1>7, ZenonT(60)
    DEF EndGuard, Release
  <2>2. OpsFit' /\ LocksFit' /\ ReadsFit'
    BY <1>7, SMTT(60)
    DEF EndGuard, Release, OpsFit, OpFits, LocksFit, OwnsChain, OwnsPool, ReadsFit
  <2>3. WritesFit' /\ BatchHasThread' /\ BatchTxnFits'
    BY <1>7, SMTT(60)
    DEF EndGuard, Release, OpsFit, OpFits, LocksFit, OwnsPool, WritesFit, BatchHasThread,
        BatchTxnFits, HasBatch, Drained
  <2>4. AutosFit' /\ GateShut' /\ Drained'
    BY <1>7, SMTT(60)
    DEF EndGuard, Release, OpsFit, OpFits, AutosFit, HasAuto, GateShut, Drained
  <2>5. Counted'
    BY <1>7, Zenon
    DEF EndGuard, Release, Counted
  <2> QED
    BY <2>1, <2>2, <2>3, <2>4, <2>5
<1>8. ASSUME EndBatch(t) PROVE IInv'
  <2>0. m_write_txn' \in BOOLEAN /\ m_batch_active' \in BOOLEAN /\ creation_gate' \in BOOLEAN
    BY <1>8, Zenon
    DEF EndBatch, uncount, Release
  <2>1. TypeOK' /\ pc' \in [Threads -> Labels]
    BY <1>8, <2>0
    DEF EndBatch, uncount, Release
  <2>2. OpsFit' /\ LocksFit' /\ ReadsFit'
    BY <1>8, SMTT(60)
    DEF EndBatch, uncount, Release, OpsFit, OpFits, LocksFit, OwnsChain, OwnsPool, ReadsFit
  <2>3. WritesFit' /\ BatchHasThread' /\ BatchTxnFits'
    BY <1>8, SMTT(60)
    DEF EndBatch, uncount, Release, OpsFit, OpFits, LocksFit, OwnsPool, WritesFit,
        BatchHasThread, BatchTxnFits, HasBatch, Drained
  <2>4. AutosFit' /\ GateShut' /\ Drained'
    BY <1>8, <2>0, SMTT(60)
    DEF EndBatch, uncount, Release, OpsFit, OpFits, AutosFit, HasAuto, GateShut, Drained
  <2>5. Counted'
    <3>1. m_write_batch_txn = t
      BY <1>8, Zenon DEF EndBatch, BatchTxnFits, HasBatch, OpsFit, OpFits
    <3>2. /\ autos' = autos /\ nested' = nested /\ m_write_batch_txn' = NoThread
          /\ num_active_txns' = num_active_txns - 1
      BY <1>8, Zenon DEF EndBatch, uncount
    <3>3. /\ IsFiniteSet(autos) /\ IsFiniteSet(nested)
          /\ num_active_txns = Cardinality(autos) + Cardinality(nested) + 1
      BY <3>1, Zenon DEF Counted
    <3>4. Cardinality(autos) \in Nat /\ Cardinality(nested) \in Nat
      BY <3>3, FS_CardinalityType, Zenon
    <3> QED
      BY <3>2, <3>3, <3>4 DEF Counted
  <2> QED
    BY <2>1, <2>2, <2>3, <2>4, <2>5
<1>9. ASSUME NestedLookup(t) PROVE IInv'
  <2>1. TypeOK' /\ pc' \in [Threads -> Labels]
    BY <1>9
    DEF NestedLookup, construct, uncount
  <2>2. OpsFit' /\ LocksFit' /\ ReadsFit'
    <3>1. OpsFit'
      BY <1>9, SMTT(60)
      DEF NestedLookup, OpsFit, OpFits
    <3>2. LocksFit'
      BY <1>9, SMTT(60)
      DEF NestedLookup, OpsFit, OpFits, LocksFit, OwnsChain, OwnsPool
    <3>3. ReadsFit'
      BY <1>9, SMTT(60)
      DEF NestedLookup, OpsFit, OpFits, ReadsFit
    <3> QED BY <3>1, <3>2, <3>3, Zenon
  <2>3. WritesFit' /\ BatchHasThread' /\ BatchTxnFits'
    BY <1>9, SMTT(60)
    DEF NestedLookup, OpsFit, OpFits, WritesFit, BatchHasThread, BatchTxnFits, HasBatch
  <2>4. AutosFit' /\ GateShut' /\ Drained'
    BY <1>9, SMTT(60)
    DEF NestedLookup, construct, uncount, OpsFit, OpFits, AutosFit, HasAuto, GateShut, Drained
  <2>5. Counted'
    <3>1. CASE At(t, "nest")
      <4>1. t \notin nested
        BY <3>1, Zenon DEF AutosFit
      <4> QED
        BY <1>9, <3>1, <4>1, NestedCountUp, Zenon DEF NestedLookup
    <3>2. CASE At(t, "nested")
      <4>1. t \in nested
        BY <3>2, Zenon DEF AutosFit
      <4> QED
        BY <1>9, <3>2, <4>1, NestedCountDown, Zenon DEF NestedLookup
    <3> QED
      BY <1>9, <3>1, <3>2, Zenon DEF NestedLookup
  <2> QED
    BY <2>1, <2>2, <2>3, <2>4, <2>5, Zenon
<1> QED
  BY <1>1, <1>2, <1>3, <1>4, <1>5, <1>6, <1>7, <1>8, <1>9, Zenon

\* The invariant through the calls of an operation on blocks.
LEMMA BlocksKeep ==
  ASSUME IInv, NEW t \in Threads
  PROVE  (Prepared(t) \/ add_new_block(t) \/ Added(t) \/
          cleanup_handle_incoming_blocks(t) \/ update_blockchain_pruning(t) \/
          prune_worker(t)) => IInv'
<1> USE CoreDbAssumption DEF At, Goto, batch, gate, txns, env, Locks, Owner, Ops, WriteOps, LockFree,
                             Labels, Adopting, Growing, InBatch, Starting, Waits, Resizing, IInv, TypeOK
<1>1. ASSUME Prepared(t) PROVE IInv'
  <2>1. TypeOK' /\ pc' \in [Threads -> Labels]
    BY <1>1, Zenon
    DEF Prepared, Release
  <2>2. OpsFit' /\ LocksFit' /\ ReadsFit'
    <3>1. OpsFit'
      BY <1>1, ZenonT(60)
      DEF Prepared, Release, OpsFit, OpFits
    <3>2. LocksFit'
      BY <1>1, SMTT(60)
      DEF Prepared, Release, OpsFit, OpFits, LocksFit, OwnsChain, OwnsPool
    <3>3. ReadsFit'
      BY <1>1, ZenonT(60)
      DEF Prepared, Release, OpsFit, OpFits, ReadsFit
    <3> QED BY <3>1, <3>2, <3>3, Zenon
  <2>3. WritesFit' /\ BatchHasThread' /\ BatchTxnFits'
    BY <1>1, SMTT(60)
    DEF Prepared, Release, OpsFit, OpFits, LocksFit, OwnsPool, WritesFit, BatchHasThread,
        BatchTxnFits, HasBatch, Drained
  <2>4. AutosFit' /\ GateShut' /\ Drained'
    BY <1>1, SMTT(60)
    DEF Prepared, Release, OpsFit, OpFits, AutosFit, HasAuto, GateShut, Drained
  <2>5. Counted'
    BY <1>1, Zenon
    DEF Prepared, Release, Counted
  <2> QED
    BY <2>1, <2>2, <2>3, <2>4, <2>5
<1>2. ASSUME add_new_block(t) PROVE IInv'
  <2>1. TypeOK' /\ pc' \in [Threads -> Labels]
    BY <1>2, Zenon
    DEF add_new_block, Acquire
  <2>2. OpsFit' /\ LocksFit' /\ ReadsFit'
    <3>1. OpsFit'
      BY <1>2, ZenonT(60)
      DEF add_new_block, Acquire, OpsFit, OpFits
    <3>2. LocksFit'
      BY <1>2, SMTT(60)
      DEF add_new_block, Acquire, OpsFit, OpFits, LocksFit, OwnsChain, OwnsPool
    <3>3. ReadsFit'
      BY <1>2, ZenonT(60)
      DEF add_new_block, Acquire, OpsFit, OpFits, ReadsFit
    <3> QED BY <3>1, <3>2, <3>3, Zenon
  <2>3. WritesFit' /\ BatchHasThread' /\ BatchTxnFits'
    BY <1>2, SMTT(60)
    DEF add_new_block, Acquire, OpsFit, OpFits, LocksFit, OwnsPool, WritesFit,
        BatchHasThread, BatchTxnFits, HasBatch, Drained
  <2>4. AutosFit' /\ GateShut' /\ Drained'
    BY <1>2, SMTT(60)
    DEF add_new_block, Acquire, OpsFit, OpFits, AutosFit, HasAuto, GateShut, Drained
  <2>5. Counted'
    BY <1>2, Zenon
    DEF add_new_block, Acquire, Counted
  <2> QED
    BY <2>1, <2>2, <2>3, <2>4, <2>5
<1>3. ASSUME Added(t) PROVE IInv'
  <2>1. TypeOK' /\ pc' \in [Threads -> Labels]
    BY <1>3, Zenon
    DEF Added, Release
  <2>2. OpsFit' /\ LocksFit' /\ ReadsFit'
    <3>1. OpsFit'
      BY <1>3, ZenonT(60)
      DEF Added, Release, OpsFit, OpFits
    <3>2. LocksFit'
      BY <1>3, SMTT(60)
      DEF Added, Release, OpsFit, OpFits, LocksFit, OwnsChain, OwnsPool
    <3>3. ReadsFit'
      BY <1>3, ZenonT(60)
      DEF Added, Release, OpsFit, OpFits, ReadsFit
    <3> QED BY <3>1, <3>2, <3>3, Zenon
  <2>3. WritesFit' /\ BatchHasThread' /\ BatchTxnFits'
    BY <1>3, SMTT(60)
    DEF Added, Release, OpsFit, OpFits, LocksFit, OwnsPool, WritesFit, BatchHasThread,
        BatchTxnFits, HasBatch, Drained
  <2>4. AutosFit' /\ GateShut' /\ Drained'
    BY <1>3, SMTT(60)
    DEF Added, Release, OpsFit, OpFits, AutosFit, HasAuto, GateShut, Drained
  <2>5. Counted'
    BY <1>3, Zenon
    DEF Added, Release, Counted
  <2> QED
    BY <2>1, <2>2, <2>3, <2>4, <2>5
<1>4. ASSUME cleanup_handle_incoming_blocks(t) PROVE IInv'
  <2>1. TypeOK' /\ pc' \in [Threads -> Labels]
    BY <1>4, ZenonT(60)
    DEF cleanup_handle_incoming_blocks, Acquire
  <2>2. OpsFit' /\ LocksFit' /\ ReadsFit'
    BY <1>4, SMTT(60)
    DEF cleanup_handle_incoming_blocks, Acquire, OpsFit, OpFits, LocksFit, OwnsChain,
        OwnsPool, ReadsFit
  <2>3. WritesFit' /\ BatchHasThread' /\ BatchTxnFits'
    BY <1>4, SMTT(60)
    DEF cleanup_handle_incoming_blocks, Acquire, OpsFit, OpFits, LocksFit, OwnsPool,
        WritesFit, BatchHasThread, BatchTxnFits, HasBatch, Drained
  <2>4. AutosFit' /\ GateShut' /\ Drained'
    BY <1>4, SMTT(60)
    DEF cleanup_handle_incoming_blocks, Acquire, OpsFit, OpFits, AutosFit, HasAuto,
        GateShut, Drained
  <2>5. Counted'
    BY <1>4, Zenon
    DEF cleanup_handle_incoming_blocks, Acquire, Counted
  <2> QED
    BY <2>1, <2>2, <2>3, <2>4, <2>5
<1>5. ASSUME update_blockchain_pruning(t) PROVE IInv'
  <2>1. TypeOK' /\ pc' \in [Threads -> Labels]
    BY <1>5
    DEF update_blockchain_pruning, Acquire
  <2>2. OpsFit' /\ LocksFit' /\ ReadsFit'
    <3>1. OpsFit'
      BY <1>5, SMTT(60)
      DEF update_blockchain_pruning, Acquire, OpsFit, OpFits
    <3>2. LocksFit'
      BY <1>5, SMTT(60)
      DEF update_blockchain_pruning, Acquire, OpsFit, OpFits, LocksFit, OwnsChain,
          OwnsPool
    <3>3. ReadsFit'
      BY <1>5, ZenonT(60)
      DEF update_blockchain_pruning, Acquire, OpsFit, OpFits, ReadsFit
    <3> QED BY <3>1, <3>2, <3>3, Zenon
  <2>3. WritesFit' /\ BatchHasThread' /\ BatchTxnFits'
    BY <1>5, SMTT(60)
    DEF update_blockchain_pruning, Acquire, OpsFit, OpFits, LocksFit, OwnsPool, WritesFit,
        BatchHasThread, BatchTxnFits, HasBatch, Drained
  <2>4. AutosFit' /\ GateShut' /\ Drained'
    BY <1>5, SMTT(60)
    DEF update_blockchain_pruning, Acquire, OpsFit, OpFits, AutosFit, HasAuto, GateShut,
        Drained
  <2>5. Counted'
    BY <1>5, ZenonT(60)
    DEF update_blockchain_pruning, Acquire, Counted
  <2> QED
    BY <2>1, <2>2, <2>3, <2>4, <2>5
<1>6. ASSUME prune_worker(t) PROVE IInv'
  <2>1. TypeOK' /\ pc' \in [Threads -> Labels]
    BY <1>6
    DEF prune_worker, construct, construct_auto, uncount, uncount_auto, Release
  <2>2. OpsFit' /\ LocksFit' /\ ReadsFit'
    <3>1. OpsFit'
      BY <1>6, SMTT(60)
      DEF prune_worker, construct, construct_auto, uncount, uncount_auto, Release, OpsFit,
          OpFits
    <3>2. LocksFit'
      BY <1>6, SMTT(60)
      DEF prune_worker, construct, construct_auto, uncount, uncount_auto, Release, OpsFit,
          OpFits, LocksFit, OwnsChain, OwnsPool
    <3>3. ReadsFit'
      BY <1>6, SMTT(60)
      DEF prune_worker, construct, construct_auto, uncount, uncount_auto, Release, OpsFit,
          OpFits, ReadsFit
    <3> QED BY <3>1, <3>2, <3>3, Zenon
  <2>3. WritesFit' /\ BatchHasThread' /\ BatchTxnFits'
    BY <1>6, SMTT(60)
    DEF prune_worker, construct, construct_auto, uncount, uncount_auto, Release, OpsFit,
        OpFits, LocksFit, OwnsPool, WritesFit, BatchHasThread, BatchTxnFits, HasBatch,
        Drained
  <2>4. AutosFit' /\ GateShut' /\ Drained'
    BY <1>6, SMTT(60)
    DEF prune_worker, construct, construct_auto, uncount, uncount_auto, Release, OpsFit,
        OpFits, AutosFit, HasAuto, GateShut, Drained
  <2>5. Counted'
    <3>1. CASE At(t, "prune_construct")
      <4>1. t \notin autos /\ construct_auto(t)
        BY <1>6, <3>1, Zenon DEF prune_worker, AutosFit, HasAuto, OpsFit, OpFits
      <4> QED
        BY <4>1, CountUp, Zenon
    <3>2. CASE At(t, "prune_begin")
      BY <1>6, <3>2, Zenon DEF prune_worker, Counted
    <3>3. CASE At(t, "prune_end")
      <4>1. t \in autos /\ uncount_auto(t)
        BY <1>6, <3>3, Zenon DEF prune_worker, AutosFit, HasAuto, OpsFit, OpFits
      <4> QED
        BY <4>1, CountDown, Zenon
    <3> QED
      BY <1>6, <3>1, <3>2, <3>3, Zenon DEF prune_worker
  <2> QED
    BY <2>1, <2>2, <2>3, <2>4, <2>5
<1> HIDE DEF IInv
<1> QED
  BY <1>1, <1>2, <1>3, <1>4, <1>5, <1>6, Zenon

-----------------------------------------------------------------------------
(* The theorems.                                                             *)

\* Every step of a thread or of another process keeps the invariant.
LEMMA NextKeeps == IInv /\ [Next]_vars => IInv'
<1> SUFFICES ASSUME IInv, [Next]_vars PROVE IInv'
  BY Zenon
<1>1. CASE UNCHANGED vars \/ MapGrows
  <2> USE <1>1 DEF MapGrows, vars, batch, gate, txns, IInv, InBatch, Starting
  <2>1. TypeOK' /\ pc' \in [Threads -> Labels] /\ Counted' /\ Drained'
    BY Zenon DEF TypeOK, Counted, Drained
  <2>2. OpsFit' /\ LocksFit'
    BY ZenonT(60) DEF OpsFit, OpFits, LocksFit, OwnsChain, OwnsPool
  <2>3. ReadsFit' /\ WritesFit' /\ BatchHasThread'
    BY DEF ReadsFit, WritesFit, BatchHasThread
  <2>4. AutosFit' /\ BatchTxnFits' /\ GateShut'
    BY DEF AutosFit, BatchTxnFits, GateShut, HasAuto, HasBatch, Waits, Resizing
  <2> QED
    BY <2>1, <2>2, <2>3, <2>4, Zenon
<1>2. ASSUME NEW t \in Threads, Begin(t) \/ Step(t)
      PROVE  IInv'
  BY <1>2, LockKeeps, ResizeKeeps, TxnKeeps, BlocksKeep, Zenon DEF Step
<1> QED
  BY <1>1, <1>2, Zenon DEF Next

\* What a thread holds fits where it is, always.
LEMMA Invariance == Spec => []IInv
<1> QED
  BY InitFits, NextKeeps, PTL DEF Spec

\* NoTxnDuringResize for any number of threads.  A thread that sets the size of
\* the map has seen the counter at zero with the gate shut, so no counted
\* transaction is left or can begin; and it owns the blockchain lock, without
\* which no guard has a transaction.
THEOREM ResizeIsAlone == Spec => []NoTxnDuringResize
<1>1. ASSUME IInv PROVE NoTxnDuringResize
  <2> SUFFICES ASSUME NEW t \in Threads, pc[t] \in {"resize_set", "resized_set"}
               PROVE  rtxn = {} /\ wtxn = NoThread /\ autos = {} /\ m_write_batch_txn = NoThread
    BY Zenon DEF NoTxnDuringResize
  <2> USE CoreDbAssumption, <1>1 DEF IInv
  <2>1. autos = {} /\ m_write_batch_txn = NoThread
    BY Zenon DEF Drained
  <2>2. op[t] \notin LockFree
    BY <2>1, Zenon DEF AutosFit, HasAuto, Adopting, OpsFit, OpFits, Growing, WriteOps, LockFree
  <2>3. lock["chain"] = t
    <3>1. op[t] \in WriteOps \/ op[t] = "guard"
      BY <2>2, Zenon DEF TypeOK, Ops, WriteOps, LockFree
    <3>2. OwnsChain(t)
      BY <3>1, Zenon DEF OwnsChain, Starting, Adopting, Growing, OpsFit, OpFits, WriteOps
    <3> QED
      BY <3>2, Zenon DEF LocksFit
  <2>4. rtxn = {}
    <3> SUFFICES ASSUME NEW u \in rtxn PROVE FALSE
      BY Zenon
    <3>1. u \in Threads /\ op[u] \notin LockFree
      BY <2>1, Zenon DEF TypeOK, ReadsFit, AutosFit, HasAuto, LockFree
    <3>2. lock["chain"] = u
      BY <3>1, Zenon DEF ReadsFit, LocksFit, OwnsChain
    <3> QED
      BY <2>3, <3>2, Zenon DEF ReadsFit
  <2>5. wtxn = NoThread
    BY <2>1, Zenon DEF TypeOK, Owner, WritesFit, BatchTxnFits, HasBatch, AutosFit, HasAuto
  <2> QED
    BY <2>1, <2>4, <2>5, Zenon
<1> QED
  BY <1>1, Invariance, PTL

\* BatchIsMine for any number of threads: the pool lock, which every batch is
\* under from its start to its end, keeps the batches of two threads apart.
THEOREM BatchesStayApart == Spec => []BatchIsMine
<1>1. ASSUME IInv PROVE BatchIsMine
  <2> SUFFICES ASSUME NEW t \in Threads
               PROVE  /\ At(t, "batch_start") /\ m_batch_active => m_writer = t
                      /\ At(t, "end") => m_batch_active /\ m_write_txn /\ m_writer = t /\ wtxn = t
    BY Zenon DEF BatchIsMine
  <2> USE <1>1 DEF IInv, At
  <2>1. At(t, "batch_start") /\ m_batch_active => m_writer = t
    BY Zenon DEF BatchHasThread, LocksFit, OwnsPool, InBatch
  <2>2. At(t, "end") => m_batch_active /\ m_write_txn /\ m_writer = t /\ wtxn = t
    BY Zenon DEF OpsFit, OpFits, WritesFit, InBatch
  <2> QED
    BY <2>1, <2>2, Zenon
<1> QED
  BY <1>1, Invariance, PTL
=============================================================================
