---------------------------- MODULE TxPoolProofs ----------------------------
(***************************************************************************)
(* What the pool and the chain keep between them, for every set of         *)
(* transactions and blocks, every limit and every interleaving with        *)
(* aborted batches and restarts.                                           *)
(*                                                                         *)
(* The operations fold a step over a sequence: the transactions of a       *)
(* block, the entries by fee.  A lemma for each fold unrolls it into the   *)
(* states it goes through, and what one step does to the rows of the pool  *)
(* then holds of all of them.                                              *)
(*                                                                         *)
(* The invariant, PoolInv, has two parts that none of the properties       *)
(* mentions.  No transaction is in two blocks, so that a popped block      *)
(* brings nothing to the pool that the chain still has.  And an open batch *)
(* keeps what an abort or a crash goes back to: rows off their chain, for  *)
(* which the cached verdicts are right as well, and nothing that was held  *)
(* when it began and is not held now.                                      *)
(***************************************************************************)
EXTENDS TxPool, TLAPS, FiniteSetTheorems, NaturalsInduction

-----------------------------------------------------------------------------
(* Folds over sequences.  What a fold computes is the last of a sequence of  *)
(* states, each of which comes from the one before it.                       *)

\* A non-empty set of naturals has a least element, so Min denotes it.
LEMMA MinNat ==
  ASSUME NEW S \in SUBSET Nat, S # {}
  PROVE  Min(S) \in S /\ \A y \in S : Min(S) <= y
<1>1. \E x \in S : \A y \in S : ~(<<y, x>> \in OpToRel(<, Nat))
  BY NatLessThanWellFounded, WFMin, Zenon
<1>2. \E x \in S : \A y \in S : ~(y < x)
  <2>1. PICK x \in S : \A y \in S : ~(<<y, x>> \in OpToRel(<, Nat))
    BY <1>1, Zenon
  <2>2. ASSUME NEW y \in S, y < x PROVE FALSE
    <3>1. <<y, x>> \in Nat \X Nat /\ <<y, x>>[1] = y /\ <<y, x>>[2] = x
      BY Zenon
    <3>2. <<y, x>> \in OpToRel(<, Nat)
      BY <3>1, <2>2, Zenon DEF OpToRel
    <3> QED BY <2>1, <3>2, Zenon
  <2> QED BY <2>2, Zenon
<1>3. \E x \in S : \A y \in S : x <= y
  BY <1>2
<1> QED BY <1>3, Zenon DEF Min

\* A set that has 0, and with each number the next one up to n, has n.
LEMMA UpTo ==
  ASSUME NEW n \in Nat, NEW K, 0 \in K, \A k \in 1 .. n : k - 1 \in K => k \in K
  PROVE  n \in K
<1>1. SUFFICES ASSUME n \notin K PROVE FALSE
  BY Zenon
<1>2. PICK B : B = {k \in Nat : k <= n /\ k \notin K}
  BY Zenon
<1>3. n \in B /\ B \in SUBSET Nat
  BY <1>1, <1>2
<1>4. PICK k \in B : \A y \in B : k <= y
  BY <1>3, MinNat, Zenon
<1>5. k \in Nat /\ k <= n /\ k \notin K
  BY <1>2, <1>4, Zenon
<1>6. k # 0
  BY <1>5, Zenon
<1>7. k \in 1 .. n /\ k - 1 \in Nat /\ k - 1 <= n /\ ~(k <= k - 1)
  BY <1>5, <1>6
<1>8. k - 1 \notin B
  BY <1>4, <1>7, Zenon
<1> QED BY <1>2, <1>5, <1>7, <1>8, Zenon

\* A set of indices without the last one.
LEMMA FewerIndices ==
  /\ SUBSET (1 .. 0) = {{}}
  /\ \A m \in Nat \ {0} : \A s \in SUBSET (1 .. m) :
       /\ m \in s => Max(s) = m
       /\ s \ {m} \in SUBSET (1 .. m) /\ s \ {m} \in SUBSET (1 .. m - 1)
       /\ m \notin s => s \in SUBSET (1 .. m - 1)
       /\ s \ {Max(s)} \in SUBSET (1 .. m)
  /\ \A n \in Nat : \A i \in 1 .. n : Max(1 .. i) = i /\ (1 .. i) \ {i} = 1 .. i - 1
<1>1. SUBSET (1 .. 0) = {{}}
  OBVIOUS
<1>2. ASSUME NEW m \in Nat \ {0}, NEW s \in SUBSET (1 .. m), m \in s
      PROVE  Max(s) = m
  <2>1. \A y \in s : m >= y
    OBVIOUS
  <2>2. Max(s) \in s /\ Max(s) >= m
    BY <1>2, <2>1, Zenon DEF Max
  <2>3. Max(s) \in 1 .. m
    BY <2>2, Zenon
  <2> QED BY <2>2, <2>3
<1>3. ASSUME NEW m \in Nat \ {0}, NEW s \in SUBSET (1 .. m)
      PROVE  /\ s \ {m} \in SUBSET (1 .. m) /\ s \ {m} \in SUBSET (1 .. m - 1)
             /\ m \notin s => s \in SUBSET (1 .. m - 1)
  OBVIOUS
<1>4. ASSUME NEW n \in Nat, NEW i \in 1 .. n
      PROVE  Max(1 .. i) = i /\ (1 .. i) \ {i} = 1 .. i - 1
  <2>1. i \in Nat \ {0} /\ 1 .. i \in SUBSET (1 .. i) /\ i \in 1 .. i
    OBVIOUS
  <2>2. (1 .. i) \ {i} = 1 .. i - 1
    OBVIOUS
  <2> QED BY <1>2, <2>1, <2>2, Zenon
<1>5. \A m, s, x : s \in SUBSET (1 .. m) => s \ {x} \in SUBSET (1 .. m)
  BY Zenon
<1> QED BY <1>1, <1>2, <1>3, <1>4, <1>5, Zenon

\* take_txs folds take_tx.
TakeSteps(g, base, n, seq) ==
  /\ g[0] = base
  /\ \A i \in 1 .. n : g[i] = take_tx(g[i - 1], seq[i])
  /\ g[n] = take_txs(base, seq)

\* Every fold of take_tx goes through such states.
LEMMA TakeTrace ==
  ASSUME NEW base, NEW n \in Nat, NEW seq, DOMAIN seq = 1 .. n
  PROVE  \E g : TakeSteps(g, base, n, seq)
<1> DEFINE Next1(f, s) == take_tx(f[s \ {Max(s)}], seq[Max(s)])
           Iter(m, f) == f = [s \in SUBSET (1 .. m) |-> IF s = {} THEN base ELSE Next1(f, s)]
<1>1. \A m \in Nat : \E f : Iter(m, f)
  <2> SUFFICES ASSUME NEW x \in Nat, ~ \E f : Iter(x, f) PROVE FALSE
    BY Zenon
  <2>1. PICK m \in Nat : /\ ~ \E f : Iter(m, f)
                         /\ \A y \in Nat : (~ \E f : Iter(y, f)) => m <= y
    <3> HIDE DEF Iter
    <3>1. PICK B : B = {y \in Nat : ~ \E f : Iter(y, f)}
      BY Zenon
    <3>2. x \in B /\ B \in SUBSET Nat
      BY <3>1, Zenon
    <3>3. Min(B) \in B /\ \A y \in B : Min(B) <= y
      BY <3>2, MinNat, Zenon
    <3> QED BY <3>1, <3>3, Zenon
  <2>2. m # 0
    <3>1. SUBSET (1 .. 0) = {{}}
      BY FewerIndices, Zenon
    <3>2. Iter(0, [s \in SUBSET (1 .. 0) |-> base])
      BY <3>1, Zenon
    <3> HIDE DEF Iter
    <3> QED BY <2>1, <3>2, Zenon
  <2>3. m - 1 \in Nat /\ ~(m <= m - 1)
    BY <2>2
  <2>4. PICK f : Iter(m - 1, f)
    <3> HIDE DEF Iter
    <3> QED BY <2>1, <2>3, Zenon
  <2>5. PICK h : h = [s \in SUBSET (1 .. m) |->
                       IF m \in s THEN take_tx(f[s \ {m}], seq[m])
                       ELSE f[s]]
    BY Zenon
  <2>6. ASSUME NEW s \in SUBSET (1 .. m)
        PROVE  h[s] = IF s = {} THEN base ELSE Next1(h, s)
    <3>1. CASE m \in s
      <4>1. Max(s) = m /\ s \ {m} \in SUBSET (1 .. m) /\ s \ {m} \in SUBSET (1 .. m - 1)
        BY <2>2, <3>1, FewerIndices, Zenon
      <4>2. h[s \ {m}] = f[s \ {m}]
        BY <2>5, <4>1, Zenon
      <4> QED BY <2>5, <3>1, <4>1, <4>2, Zenon
    <3>2. CASE m \notin s
      <4>1. s \in SUBSET (1 .. m - 1) /\ s \ {Max(s)} \in SUBSET (1 .. m) /\ m \notin s \ {Max(s)}
        BY <2>2, <3>2, FewerIndices, Zenon
      <4>2. h[s] = f[s] /\ h[s \ {Max(s)}] = f[s \ {Max(s)}]
        BY <2>5, <3>2, <4>1, Zenon
      <4>3. f[s] = IF s = {} THEN base ELSE Next1(f, s)
        BY <2>4, <4>1, Zenon
      <4> QED BY <4>2, <4>3, Zenon
    <3> QED BY <3>1, <3>2, Zenon
  <2>7. h = [s \in SUBSET (1 .. m) |-> h[s]]
    BY <2>5, Zenon
  <2>8. Iter(m, h)
    <3> HIDE DEF Next1
    <3> QED BY <2>6, <2>7, Zenon
  <2> HIDE DEF Iter
  <2> QED BY <2>1, <2>8, Zenon
<1>2. PICK f : f = CHOOSE x : Iter(n, x)
  BY Zenon
<1>3. Iter(n, f)
  <2> HIDE DEF Iter
  <2> QED BY <1>1, <1>2, Zenon
<1>4. f[1 .. n] = take_txs(base, seq)
  BY <1>2, Zenon DEF take_txs, FoldLeft, MapThenFoldSet
<1>5. PICK g : g = [k \in 0 .. n |-> f[1 .. k]]
  BY Zenon
<1>6. 0 \in 0 .. n /\ n \in 0 .. n /\ 1 .. 0 = {} /\ 1 .. 0 \in SUBSET (1 .. n)
  OBVIOUS
<1>7. g[0] = base
  BY <1>3, <1>5, <1>6, Zenon
<1>8. ASSUME NEW i \in 1 .. n PROVE g[i] = take_tx(g[i - 1], seq[i])
  <2>1. i \in 0 .. n /\ i - 1 \in 0 .. n /\ 1 .. i \in SUBSET (1 .. n) /\ i \in 1 .. i
    OBVIOUS
  <2>2. Max(1 .. i) = i /\ (1 .. i) \ {i} = 1 .. i - 1
    BY FewerIndices, Zenon
  <2>3. f[1 .. i] = take_tx(f[1 .. i - 1], seq[i])
    BY <1>3, <2>1, <2>2, Zenon
  <2> QED BY <1>5, <2>1, <2>3, Zenon
<1>9. TakeSteps(g, base, n, seq)
  BY <1>4, <1>5, <1>6, <1>7, <1>8, Zenon DEF TakeSteps
<1> QED BY <1>9, Zenon

PruneFold(base, seq, in_batch) == FoldLeft(LAMBDA s, e : prune_entry(s, e, in_batch), base, seq)

\* prune folds prune_entry.
PruneSteps(g, base, in_batch, n, seq) ==
  /\ g[0] = base
  /\ \A i \in 1 .. n : g[i] = prune_entry(g[i - 1], seq[i], in_batch)
  /\ g[n] = PruneFold(base, seq, in_batch)

\* Every fold of prune_entry goes through such states.
LEMMA PruneTrace ==
  ASSUME NEW base, NEW in_batch, NEW n \in Nat, NEW seq, DOMAIN seq = 1 .. n
  PROVE  \E g : PruneSteps(g, base, in_batch, n, seq)
<1> DEFINE Next1(f, s) == prune_entry(f[s \ {Max(s)}], seq[Max(s)], in_batch)
           Iter(m, f) == f = [s \in SUBSET (1 .. m) |-> IF s = {} THEN base ELSE Next1(f, s)]
<1>1. \A m \in Nat : \E f : Iter(m, f)
  <2> SUFFICES ASSUME NEW x \in Nat, ~ \E f : Iter(x, f) PROVE FALSE
    BY Zenon
  <2>1. PICK m \in Nat : /\ ~ \E f : Iter(m, f)
                         /\ \A y \in Nat : (~ \E f : Iter(y, f)) => m <= y
    <3> HIDE DEF Iter
    <3>1. PICK B : B = {y \in Nat : ~ \E f : Iter(y, f)}
      BY Zenon
    <3>2. x \in B /\ B \in SUBSET Nat
      BY <3>1, Zenon
    <3>3. Min(B) \in B /\ \A y \in B : Min(B) <= y
      BY <3>2, MinNat, Zenon
    <3> QED BY <3>1, <3>3, Zenon
  <2>2. m # 0
    <3>1. SUBSET (1 .. 0) = {{}}
      BY FewerIndices, Zenon
    <3>2. Iter(0, [s \in SUBSET (1 .. 0) |-> base])
      BY <3>1, Zenon
    <3> HIDE DEF Iter
    <3> QED BY <2>1, <3>2, Zenon
  <2>3. m - 1 \in Nat /\ ~(m <= m - 1)
    BY <2>2
  <2>4. PICK f : Iter(m - 1, f)
    <3> HIDE DEF Iter
    <3> QED BY <2>1, <2>3, Zenon
  <2>5. PICK h : h = [s \in SUBSET (1 .. m) |->
                       IF m \in s THEN prune_entry(f[s \ {m}], seq[m], in_batch)
                       ELSE f[s]]
    BY Zenon
  <2>6. ASSUME NEW s \in SUBSET (1 .. m)
        PROVE  h[s] = IF s = {} THEN base ELSE Next1(h, s)
    <3>1. CASE m \in s
      <4>1. Max(s) = m /\ s \ {m} \in SUBSET (1 .. m) /\ s \ {m} \in SUBSET (1 .. m - 1)
        BY <2>2, <3>1, FewerIndices, Zenon
      <4>2. h[s \ {m}] = f[s \ {m}]
        BY <2>5, <4>1, Zenon
      <4> QED BY <2>5, <3>1, <4>1, <4>2, Zenon
    <3>2. CASE m \notin s
      <4>1. s \in SUBSET (1 .. m - 1) /\ s \ {Max(s)} \in SUBSET (1 .. m) /\ m \notin s \ {Max(s)}
        BY <2>2, <3>2, FewerIndices, Zenon
      <4>2. h[s] = f[s] /\ h[s \ {Max(s)}] = f[s \ {Max(s)}]
        BY <2>5, <3>2, <4>1, Zenon
      <4>3. f[s] = IF s = {} THEN base ELSE Next1(f, s)
        BY <2>4, <4>1, Zenon
      <4> QED BY <4>2, <4>3, Zenon
    <3> QED BY <3>1, <3>2, Zenon
  <2>7. h = [s \in SUBSET (1 .. m) |-> h[s]]
    BY <2>5, Zenon
  <2>8. Iter(m, h)
    <3> HIDE DEF Next1
    <3> QED BY <2>6, <2>7, Zenon
  <2> HIDE DEF Iter
  <2> QED BY <2>1, <2>8, Zenon
<1>2. PICK f : f = CHOOSE x : Iter(n, x)
  BY Zenon
<1>3. Iter(n, f)
  <2> HIDE DEF Iter
  <2> QED BY <1>1, <1>2, Zenon
<1>4. f[1 .. n] = PruneFold(base, seq, in_batch)
  BY <1>2, Zenon DEF PruneFold, FoldLeft, MapThenFoldSet
<1>5. PICK g : g = [k \in 0 .. n |-> f[1 .. k]]
  BY Zenon
<1>6. 0 \in 0 .. n /\ n \in 0 .. n /\ 1 .. 0 = {} /\ 1 .. 0 \in SUBSET (1 .. n)
  OBVIOUS
<1>7. g[0] = base
  BY <1>3, <1>5, <1>6, Zenon
<1>8. ASSUME NEW i \in 1 .. n PROVE g[i] = prune_entry(g[i - 1], seq[i], in_batch)
  <2>1. i \in 0 .. n /\ i - 1 \in 0 .. n /\ 1 .. i \in SUBSET (1 .. n) /\ i \in 1 .. i
    OBVIOUS
  <2>2. Max(1 .. i) = i /\ (1 .. i) \ {i} = 1 .. i - 1
    BY FewerIndices, Zenon
  <2>3. f[1 .. i] = prune_entry(f[1 .. i - 1], seq[i], in_batch)
    BY <1>3, <2>1, <2>2, Zenon
  <2> QED BY <1>5, <2>1, <2>3, Zenon
<1>9. PruneSteps(g, base, in_batch, n, seq)
  BY <1>4, <1>5, <1>6, <1>7, <1>8, Zenon DEF PruneSteps
<1> QED BY <1>9, Zenon

\* add_txs folds add_tx.
AddSteps(g, base, c, now, n, seq) ==
  /\ g[0] = base
  /\ \A i \in 1 .. n : g[i] = add_tx(g[i - 1], c, now, seq[i], "block", TRUE)
  /\ g[n] = add_txs(base, c, now, seq)

\* Every fold of add_tx goes through such states.
LEMMA AddTrace ==
  ASSUME NEW base, NEW c, NEW now, NEW n \in Nat, NEW seq, DOMAIN seq = 1 .. n
  PROVE  \E g : AddSteps(g, base, c, now, n, seq)
<1> DEFINE Next1(f, s) == add_tx(f[s \ {Max(s)}], c, now, seq[Max(s)], "block", TRUE)
           Iter(m, f) == f = [s \in SUBSET (1 .. m) |-> IF s = {} THEN base ELSE Next1(f, s)]
<1>1. \A m \in Nat : \E f : Iter(m, f)
  <2> SUFFICES ASSUME NEW x \in Nat, ~ \E f : Iter(x, f) PROVE FALSE
    BY Zenon
  <2>1. PICK m \in Nat : /\ ~ \E f : Iter(m, f)
                         /\ \A y \in Nat : (~ \E f : Iter(y, f)) => m <= y
    <3> HIDE DEF Iter
    <3>1. PICK B : B = {y \in Nat : ~ \E f : Iter(y, f)}
      BY Zenon
    <3>2. x \in B /\ B \in SUBSET Nat
      BY <3>1, Zenon
    <3>3. Min(B) \in B /\ \A y \in B : Min(B) <= y
      BY <3>2, MinNat, Zenon
    <3> QED BY <3>1, <3>3, Zenon
  <2>2. m # 0
    <3>1. SUBSET (1 .. 0) = {{}}
      BY FewerIndices, Zenon
    <3>2. Iter(0, [s \in SUBSET (1 .. 0) |-> base])
      BY <3>1, Zenon
    <3> HIDE DEF Iter
    <3> QED BY <2>1, <3>2, Zenon
  <2>3. m - 1 \in Nat /\ ~(m <= m - 1)
    BY <2>2
  <2>4. PICK f : Iter(m - 1, f)
    <3> HIDE DEF Iter
    <3> QED BY <2>1, <2>3, Zenon
  <2>5. PICK h : h = [s \in SUBSET (1 .. m) |->
                       IF m \in s THEN add_tx(f[s \ {m}], c, now, seq[m], "block", TRUE)
                       ELSE f[s]]
    BY Zenon
  <2>6. ASSUME NEW s \in SUBSET (1 .. m)
        PROVE  h[s] = IF s = {} THEN base ELSE Next1(h, s)
    <3>1. CASE m \in s
      <4>1. Max(s) = m /\ s \ {m} \in SUBSET (1 .. m) /\ s \ {m} \in SUBSET (1 .. m - 1)
        BY <2>2, <3>1, FewerIndices, Zenon
      <4>2. h[s \ {m}] = f[s \ {m}]
        BY <2>5, <4>1, Zenon
      <4> QED BY <2>5, <3>1, <4>1, <4>2, Zenon
    <3>2. CASE m \notin s
      <4>1. s \in SUBSET (1 .. m - 1) /\ s \ {Max(s)} \in SUBSET (1 .. m) /\ m \notin s \ {Max(s)}
        BY <2>2, <3>2, FewerIndices, Zenon
      <4>2. h[s] = f[s] /\ h[s \ {Max(s)}] = f[s \ {Max(s)}]
        BY <2>5, <3>2, <4>1, Zenon
      <4>3. f[s] = IF s = {} THEN base ELSE Next1(f, s)
        BY <2>4, <4>1, Zenon
      <4> QED BY <4>2, <4>3, Zenon
    <3> QED BY <3>1, <3>2, Zenon
  <2>7. h = [s \in SUBSET (1 .. m) |-> h[s]]
    BY <2>5, Zenon
  <2>8. Iter(m, h)
    <3> HIDE DEF Next1
    <3> QED BY <2>6, <2>7, Zenon
  <2> HIDE DEF Iter
  <2> QED BY <2>1, <2>8, Zenon
<1>2. PICK f : f = CHOOSE x : Iter(n, x)
  BY Zenon
<1>3. Iter(n, f)
  <2> HIDE DEF Iter
  <2> QED BY <1>1, <1>2, Zenon
<1>4. f[1 .. n] = add_txs(base, c, now, seq)
  BY <1>2, Zenon DEF add_txs, FoldLeft, MapThenFoldSet
<1>5. PICK g : g = [k \in 0 .. n |-> f[1 .. k]]
  BY Zenon
<1>6. 0 \in 0 .. n /\ n \in 0 .. n /\ 1 .. 0 = {} /\ 1 .. 0 \in SUBSET (1 .. n)
  OBVIOUS
<1>7. g[0] = base
  BY <1>3, <1>5, <1>6, Zenon
<1>8. ASSUME NEW i \in 1 .. n PROVE g[i] = add_tx(g[i - 1], c, now, seq[i], "block", TRUE)
  <2>1. i \in 0 .. n /\ i - 1 \in 0 .. n /\ 1 .. i \in SUBSET (1 .. n) /\ i \in 1 .. i
    OBVIOUS
  <2>2. Max(1 .. i) = i /\ (1 .. i) \ {i} = 1 .. i - 1
    BY FewerIndices, Zenon
  <2>3. f[1 .. i] = add_tx(f[1 .. i - 1], c, now, seq[i], "block", TRUE)
    BY <1>3, <2>1, <2>2, Zenon
  <2> QED BY <1>5, <2>1, <2>3, Zenon
<1>9. AddSteps(g, base, c, now, n, seq)
  BY <1>4, <1>5, <1>6, <1>7, <1>8, Zenon DEF AddSteps
<1> QED BY <1>9, Zenon

ConsiderFold(base, seq, c, skip) == FoldLeft(LAMBDA s, e : consider(s, e, c, skip), base, seq)

\* fill_block_template folds consider.
ConsiderSteps(g, base, c, skip, n, seq) ==
  /\ g[0] = base
  /\ \A i \in 1 .. n : g[i] = consider(g[i - 1], seq[i], c, skip)
  /\ g[n] = ConsiderFold(base, seq, c, skip)

\* Every fold of consider goes through such states.
LEMMA ConsiderTrace ==
  ASSUME NEW base, NEW c, NEW skip, NEW n \in Nat, NEW seq, DOMAIN seq = 1 .. n
  PROVE  \E g : ConsiderSteps(g, base, c, skip, n, seq)
<1> DEFINE Next1(f, s) == consider(f[s \ {Max(s)}], seq[Max(s)], c, skip)
           Iter(m, f) == f = [s \in SUBSET (1 .. m) |-> IF s = {} THEN base ELSE Next1(f, s)]
<1>1. \A m \in Nat : \E f : Iter(m, f)
  <2> SUFFICES ASSUME NEW x \in Nat, ~ \E f : Iter(x, f) PROVE FALSE
    BY Zenon
  <2>1. PICK m \in Nat : /\ ~ \E f : Iter(m, f)
                         /\ \A y \in Nat : (~ \E f : Iter(y, f)) => m <= y
    <3> HIDE DEF Iter
    <3>1. PICK B : B = {y \in Nat : ~ \E f : Iter(y, f)}
      BY Zenon
    <3>2. x \in B /\ B \in SUBSET Nat
      BY <3>1, Zenon
    <3>3. Min(B) \in B /\ \A y \in B : Min(B) <= y
      BY <3>2, MinNat, Zenon
    <3> QED BY <3>1, <3>3, Zenon
  <2>2. m # 0
    <3>1. SUBSET (1 .. 0) = {{}}
      BY FewerIndices, Zenon
    <3>2. Iter(0, [s \in SUBSET (1 .. 0) |-> base])
      BY <3>1, Zenon
    <3> HIDE DEF Iter
    <3> QED BY <2>1, <3>2, Zenon
  <2>3. m - 1 \in Nat /\ ~(m <= m - 1)
    BY <2>2
  <2>4. PICK f : Iter(m - 1, f)
    <3> HIDE DEF Iter
    <3> QED BY <2>1, <2>3, Zenon
  <2>5. PICK h : h = [s \in SUBSET (1 .. m) |->
                       IF m \in s THEN consider(f[s \ {m}], seq[m], c, skip)
                       ELSE f[s]]
    BY Zenon
  <2>6. ASSUME NEW s \in SUBSET (1 .. m)
        PROVE  h[s] = IF s = {} THEN base ELSE Next1(h, s)
    <3>1. CASE m \in s
      <4>1. Max(s) = m /\ s \ {m} \in SUBSET (1 .. m) /\ s \ {m} \in SUBSET (1 .. m - 1)
        BY <2>2, <3>1, FewerIndices, Zenon
      <4>2. h[s \ {m}] = f[s \ {m}]
        BY <2>5, <4>1, Zenon
      <4> QED BY <2>5, <3>1, <4>1, <4>2, Zenon
    <3>2. CASE m \notin s
      <4>1. s \in SUBSET (1 .. m - 1) /\ s \ {Max(s)} \in SUBSET (1 .. m) /\ m \notin s \ {Max(s)}
        BY <2>2, <3>2, FewerIndices, Zenon
      <4>2. h[s] = f[s] /\ h[s \ {Max(s)}] = f[s \ {Max(s)}]
        BY <2>5, <3>2, <4>1, Zenon
      <4>3. f[s] = IF s = {} THEN base ELSE Next1(f, s)
        BY <2>4, <4>1, Zenon
      <4> QED BY <4>2, <4>3, Zenon
    <3> QED BY <3>1, <3>2, Zenon
  <2>7. h = [s \in SUBSET (1 .. m) |-> h[s]]
    BY <2>5, Zenon
  <2>8. Iter(m, h)
    <3> HIDE DEF Next1
    <3> QED BY <2>6, <2>7, Zenon
  <2> HIDE DEF Iter
  <2> QED BY <2>1, <2>8, Zenon
<1>2. PICK f : f = CHOOSE x : Iter(n, x)
  BY Zenon
<1>3. Iter(n, f)
  <2> HIDE DEF Iter
  <2> QED BY <1>1, <1>2, Zenon
<1>4. f[1 .. n] = ConsiderFold(base, seq, c, skip)
  BY <1>2, Zenon DEF ConsiderFold, FoldLeft, MapThenFoldSet
<1>5. PICK g : g = [k \in 0 .. n |-> f[1 .. k]]
  BY Zenon
<1>6. 0 \in 0 .. n /\ n \in 0 .. n /\ 1 .. 0 = {} /\ 1 .. 0 \in SUBSET (1 .. n)
  OBVIOUS
<1>7. g[0] = base
  BY <1>3, <1>5, <1>6, Zenon
<1>8. ASSUME NEW i \in 1 .. n PROVE g[i] = consider(g[i - 1], seq[i], c, skip)
  <2>1. i \in 0 .. n /\ i - 1 \in 0 .. n /\ 1 .. i \in SUBSET (1 .. n) /\ i \in 1 .. i
    OBVIOUS
  <2>2. Max(1 .. i) = i /\ (1 .. i) \ {i} = 1 .. i - 1
    BY FewerIndices, Zenon
  <2>3. f[1 .. i] = consider(f[1 .. i - 1], seq[i], c, skip)
    BY <1>3, <2>1, <2>2, Zenon
  <2> QED BY <1>5, <2>1, <2>3, Zenon
<1>9. ConsiderSteps(g, base, c, skip, n, seq)
  BY <1>4, <1>5, <1>6, <1>7, <1>8, Zenon DEF ConsiderSteps
<1> QED BY <1>9, Zenon

-----------------------------------------------------------------------------
(* The pool.                                                                 *)

IsMeta(x) ==
  /\ x = [method |-> x.method, receive_time |-> x.receive_time, checked |-> x.checked,
          max_used |-> x.max_used, last_failed |-> x.last_failed]
  /\ x.method \in Range(relay_method)

IsMetas(m) ==
  /\ m = [t \in DOMAIN m |-> m[t]]
  /\ DOMAIN m \subseteq Tx
  /\ \A t \in DOMAIN m : IsMeta(m[t])

IsRecord(p) ==
  p = [metas |-> p.metas, spent |-> p.spent, sorted |-> p.sorted, weight |-> p.weight,
       timed_out |-> p.timed_out, cache |-> p.cache]

IsPool(p) == IsRecord(p) /\ IsMetas(p.metas) /\ IsFiniteSet(p.sorted)

\* Pool q is pool p without the transactions in gone.
Less(p, q, gone) ==
  /\ IsPool(q)
  /\ DOMAIN q.metas = DOMAIN p.metas \ gone
  /\ \A t \in DOMAIN q.metas : q.metas[t] = p.metas[t]
  /\ q.cache = p.cache
  /\ q.timed_out = p.timed_out

\* The fields of a pool.
LEMMA Fields ==
  ASSUME NEW q, NEW a, NEW b, NEW c, NEW d, NEW e, NEW f,
         q = [metas |-> a, spent |-> b, sorted |-> c, weight |-> d, timed_out |-> e, cache |-> f]
  PROVE  /\ IsRecord(q)
         /\ q.metas = a /\ q.spent = b /\ q.sorted = c /\ q.weight = d
         /\ q.timed_out = e /\ q.cache = f
<1>1. /\ q.metas = a /\ q.spent = b /\ q.sorted = c /\ q.weight = d
      /\ q.timed_out = e /\ q.cache = f
  BY Zenon
<1> QED BY <1>1, Zenon DEF IsRecord

\* Writing one field of a pool leaves the others alone: metas.
LEMMA Write_metas ==
  ASSUME NEW p, IsRecord(p), NEW x, NEW q, q = [p EXCEPT !.metas = x]
  PROVE  /\ IsRecord(q)
         /\ q.metas = x /\ q.spent = p.spent /\ q.sorted = p.sorted
         /\ q.weight = p.weight /\ q.timed_out = p.timed_out /\ q.cache = p.cache
<1>1. PICK a, b, c, d, e, f : /\ a = p.metas /\ b = p.spent /\ c = p.sorted
                              /\ d = p.weight /\ e = p.timed_out /\ f = p.cache
  BY Zenon
<1>2. p = [metas |-> a, spent |-> b, sorted |-> c, weight |-> d, timed_out |-> e, cache |-> f]
  BY <1>1, Zenon DEF IsRecord
<1>3. q = [metas |-> x, spent |-> b, sorted |-> c, weight |-> d, timed_out |-> e, cache |-> f]
  BY <1>2
<1> QED BY <1>1, <1>3, Fields, Zenon

\* Writing one field of a pool leaves the others alone: spent.
LEMMA Write_spent ==
  ASSUME NEW p, IsRecord(p), NEW x, NEW q, q = [p EXCEPT !.spent = x]
  PROVE  /\ IsRecord(q)
         /\ q.metas = p.metas /\ q.spent = x /\ q.sorted = p.sorted
         /\ q.weight = p.weight /\ q.timed_out = p.timed_out /\ q.cache = p.cache
<1>1. PICK a, b, c, d, e, f : /\ a = p.metas /\ b = p.spent /\ c = p.sorted
                              /\ d = p.weight /\ e = p.timed_out /\ f = p.cache
  BY Zenon
<1>2. p = [metas |-> a, spent |-> b, sorted |-> c, weight |-> d, timed_out |-> e, cache |-> f]
  BY <1>1, Zenon DEF IsRecord
<1>3. q = [metas |-> a, spent |-> x, sorted |-> c, weight |-> d, timed_out |-> e, cache |-> f]
  BY <1>2
<1> QED BY <1>1, <1>3, Fields, Zenon

\* Writing one field of a pool leaves the others alone: sorted.
LEMMA Write_sorted ==
  ASSUME NEW p, IsRecord(p), NEW x, NEW q, q = [p EXCEPT !.sorted = x]
  PROVE  /\ IsRecord(q)
         /\ q.metas = p.metas /\ q.spent = p.spent /\ q.sorted = x
         /\ q.weight = p.weight /\ q.timed_out = p.timed_out /\ q.cache = p.cache
<1>1. PICK a, b, c, d, e, f : /\ a = p.metas /\ b = p.spent /\ c = p.sorted
                              /\ d = p.weight /\ e = p.timed_out /\ f = p.cache
  BY Zenon
<1>2. p = [metas |-> a, spent |-> b, sorted |-> c, weight |-> d, timed_out |-> e, cache |-> f]
  BY <1>1, Zenon DEF IsRecord
<1>3. q = [metas |-> a, spent |-> b, sorted |-> x, weight |-> d, timed_out |-> e, cache |-> f]
  BY <1>2
<1> QED BY <1>1, <1>3, Fields, Zenon

\* Writing one field of a pool leaves the others alone: weight.
LEMMA Write_weight ==
  ASSUME NEW p, IsRecord(p), NEW x, NEW q, q = [p EXCEPT !.weight = x]
  PROVE  /\ IsRecord(q)
         /\ q.metas = p.metas /\ q.spent = p.spent /\ q.sorted = p.sorted
         /\ q.weight = x /\ q.timed_out = p.timed_out /\ q.cache = p.cache
<1>1. PICK a, b, c, d, e, f : /\ a = p.metas /\ b = p.spent /\ c = p.sorted
                              /\ d = p.weight /\ e = p.timed_out /\ f = p.cache
  BY Zenon
<1>2. p = [metas |-> a, spent |-> b, sorted |-> c, weight |-> d, timed_out |-> e, cache |-> f]
  BY <1>1, Zenon DEF IsRecord
<1>3. q = [metas |-> a, spent |-> b, sorted |-> c, weight |-> x, timed_out |-> e, cache |-> f]
  BY <1>2
<1> QED BY <1>1, <1>3, Fields, Zenon

\* Writing one field of a pool leaves the others alone: timed_out.
LEMMA Write_timed_out ==
  ASSUME NEW p, IsRecord(p), NEW x, NEW q, q = [p EXCEPT !.timed_out = x]
  PROVE  /\ IsRecord(q)
         /\ q.metas = p.metas /\ q.spent = p.spent /\ q.sorted = p.sorted
         /\ q.weight = p.weight /\ q.timed_out = x /\ q.cache = p.cache
<1>1. PICK a, b, c, d, e, f : /\ a = p.metas /\ b = p.spent /\ c = p.sorted
                              /\ d = p.weight /\ e = p.timed_out /\ f = p.cache
  BY Zenon
<1>2. p = [metas |-> a, spent |-> b, sorted |-> c, weight |-> d, timed_out |-> e, cache |-> f]
  BY <1>1, Zenon DEF IsRecord
<1>3. q = [metas |-> a, spent |-> b, sorted |-> c, weight |-> d, timed_out |-> x, cache |-> f]
  BY <1>2
<1> QED BY <1>1, <1>3, Fields, Zenon

\* Writing one field of a pool leaves the others alone: cache.
LEMMA Write_cache ==
  ASSUME NEW p, IsRecord(p), NEW x, NEW q, q = [p EXCEPT !.cache = x]
  PROVE  /\ IsRecord(q)
         /\ q.metas = p.metas /\ q.spent = p.spent /\ q.sorted = p.sorted
         /\ q.weight = p.weight /\ q.timed_out = p.timed_out /\ q.cache = x
<1>1. PICK a, b, c, d, e, f : /\ a = p.metas /\ b = p.spent /\ c = p.sorted
                              /\ d = p.weight /\ e = p.timed_out /\ f = p.cache
  BY Zenon
<1>2. p = [metas |-> a, spent |-> b, sorted |-> c, weight |-> d, timed_out |-> e, cache |-> f]
  BY <1>1, Zenon DEF IsRecord
<1>3. q = [metas |-> a, spent |-> b, sorted |-> c, weight |-> d, timed_out |-> e, cache |-> x]
  BY <1>2
<1> QED BY <1>1, <1>3, Fields, Zenon

\* A transaction leaves the rows of the database.
LEMMA WithoutMetas ==
  ASSUME NEW m, IsMetas(m), NEW t
  PROVE  /\ IsMetas(without(m, t))
         /\ DOMAIN without(m, t) = DOMAIN m \ {t}
         /\ \A s \in DOMAIN without(m, t) : without(m, t)[s] = m[s]
<1>1. /\ DOMAIN without(m, t) = DOMAIN m \ {t}
      /\ without(m, t) = [s \in DOMAIN without(m, t) |-> without(m, t)[s]]
  BY Zenon DEF without
<1>2. \A s \in DOMAIN without(m, t) : without(m, t)[s] = m[s]
  BY <1>1, Zenon DEF without
<1> QED BY <1>1, <1>2, Zenon DEF IsMetas

\* A row is written.
LEMMA WithMetas ==
  ASSUME NEW m, IsMetas(m), NEW t \in Tx, NEW x, IsMeta(x)
  PROVE  /\ IsMetas(with(m, t, x))
         /\ DOMAIN with(m, t, x) = DOMAIN m \cup {t}
         /\ with(m, t, x)[t] = x
         /\ \A s \in DOMAIN m \ {t} : with(m, t, x)[s] = m[s]
<1>1. /\ DOMAIN with(m, t, x) = DOMAIN m \cup {t}
      /\ with(m, t, x) = [s \in DOMAIN with(m, t, x) |-> with(m, t, x)[s]]
  BY Zenon DEF with
<1>2. with(m, t, x)[t] = x /\ \A s \in DOMAIN m \ {t} : with(m, t, x)[s] = m[s]
  BY <1>1, Zenon DEF with
<1> QED BY <1>1, <1>2, Zenon DEF IsMetas

\* Pool q is pool p but for the indices: key images, sorted entries and weight.
SameRows(p, q) ==
  /\ IsRecord(q)
  /\ q.metas = p.metas
  /\ q.cache = p.cache
  /\ q.timed_out = p.timed_out
  /\ IsFiniteSet(p.sorted) => IsFiniteSet(q.sorted)

\* remove_transaction_keyimages leaves the rows alone.
LEMMA RemoveImagesOnly ==
  ASSUME NEW p, IsRecord(p), NEW t
  PROVE  SameRows(p, remove_transaction_keyimages(p, t))
<1>1. PICK q : q = remove_transaction_keyimages(p, t)
  BY Zenon
<1>2. q = p \/ \E x : q = [p EXCEPT !.spent = x]
  BY <1>1, Zenon DEF remove_transaction_keyimages
<1> QED BY <1>1, <1>2, Write_spent DEF SameRows

\* insert_key_images leaves the rows alone.
LEMMA InsertImagesOnly ==
  ASSUME NEW p, IsRecord(p), NEW t
  PROVE  SameRows(p, insert_key_images(p, t))
<1>1. PICK q : q = insert_key_images(p, t)
  BY Zenon
<1>2. \E x : q = [p EXCEPT !.spent = x]
  BY <1>1, Zenon DEF insert_key_images
<1> QED BY <1>1, <1>2, Write_spent DEF SameRows

\* Erasing a sorted entry leaves the rows alone.
LEMMA EraseSortedOnly ==
  ASSUME NEW p, IsRecord(p), NEW t
  PROVE  SameRows(p, erase_sorted(p, t))
<1>1. PICK q : q = erase_sorted(p, t)
  BY Zenon
<1>2. q = p \/ \E x : q = [p EXCEPT !.sorted = p.sorted \ {x}]
  BY <1>1, Zenon DEF erase_sorted
<1>3. \A x : IsFiniteSet(p.sorted) => IsFiniteSet(p.sorted \ {x})
  BY FS_RemoveElement, Zenon
<1> QED BY <1>1, <1>2, <1>3, Write_sorted DEF SameRows

\* The part every removal shares takes one transaction out.
LEMMA RemoveLess ==
  ASSUME NEW p, IsPool(p), NEW t
  PROVE  Less(p, remove_txpool_tx(p, t), {t})
<1>2. PICK m : m = [p EXCEPT !.metas = without(p.metas, t)]
  BY Zenon
<1>3. PICK r : r = [m EXCEPT !.weight = (@ - Weight[t]) % SizeMod]
  BY Zenon
<1>4. remove_txpool_tx(p, t) = remove_transaction_keyimages(r, t)
  BY <1>2, <1>3, Zenon DEF remove_txpool_tx
<1>5. /\ IsRecord(m) /\ m.metas = without(p.metas, t) /\ m.cache = p.cache
      /\ m.timed_out = p.timed_out /\ m.sorted = p.sorted
  BY <1>2, Write_metas DEF IsPool
<1>6. /\ IsRecord(r) /\ r.metas = m.metas /\ r.cache = m.cache
      /\ r.timed_out = m.timed_out /\ r.sorted = m.sorted
  BY <1>3, <1>5, Write_weight
<1>7. SameRows(r, remove_txpool_tx(p, t))
  BY <1>4, <1>6, RemoveImagesOnly, Zenon
<1>8. PICK q : q = remove_txpool_tx(p, t)
  BY Zenon
<1>9. /\ IsRecord(q) /\ IsFiniteSet(q.sorted) /\ q.metas = without(p.metas, t)
      /\ q.cache = p.cache /\ q.timed_out = p.timed_out
  BY <1>5, <1>6, <1>7, <1>8, Zenon DEF IsPool, SameRows
<1>10. /\ IsMetas(without(p.metas, t))
       /\ DOMAIN without(p.metas, t) = DOMAIN p.metas \ {t}
       /\ \A s \in DOMAIN without(p.metas, t) : without(p.metas, t)[s] = p.metas[s]
  BY WithoutMetas, Zenon DEF IsPool
<1> QED BY <1>8, <1>9, <1>10, Zenon DEF IsPool, Less

\* take_tx takes one transaction out, if it is there.
LEMMA TakeLess ==
  ASSUME NEW p, IsPool(p), NEW t
  PROVE  Less(p, take_tx(p, t), {t})
<1>1. CASE in_pool(p, t)
  <2>1. PICK r : r = remove_txpool_tx(p, t)
    BY Zenon
  <2>2. Less(p, r, {t})
    BY <2>1, RemoveLess, Zenon
  <2>3. take_tx(p, t) = erase_sorted(r, t)
    BY <1>1, <2>1, Zenon DEF take_tx
  <2>4. SameRows(r, take_tx(p, t))
    BY <2>2, <2>3, EraseSortedOnly, Zenon DEF Less, IsPool
  <2> QED BY <2>2, <2>4, Zenon DEF Less, IsPool, SameRows
<1>2. CASE ~ in_pool(p, t)
  BY <1>2, Zenon DEF take_tx, in_pool, Less
<1> QED BY <1>1, <1>2, Zenon

\* take_txs takes out the transactions it is given and no others.
LEMMA TakeAllLess ==
  ASSUME NEW p, IsPool(p), NEW n \in Nat, NEW txs, DOMAIN txs = 1 .. n
  PROVE  Less(p, take_txs(p, txs), Range(txs))
<1>1. PICK g : /\ g[0] = p
               /\ \A i \in 1 .. n : g[i] = take_tx(g[i - 1], txs[i])
               /\ g[n] = take_txs(p, txs)
  BY TakeTrace, ZenonT(60) DEF TakeSteps
<1> DEFINE P(k) == Less(p, g[k], {txs[i] : i \in 1 .. k})
<1>2. P(0)
  <2>1. {txs[i] : i \in 1 .. 0} = {}
    OBVIOUS
  <2> QED BY <1>1, <2>1, Zenon DEF Less
<1>3. ASSUME NEW k \in 1 .. n, P(k - 1) PROVE P(k)
  <2>1. {txs[i] : i \in 1 .. k} = {txs[i] : i \in 1 .. k - 1} \cup {txs[k]}
    <3>1. 1 .. k = (1 .. k - 1) \cup {k}
      OBVIOUS
    <3> QED BY <3>1, Zenon
  <2>2. Less(g[k - 1], g[k], {txs[k]})
    <3>1. IsPool(g[k - 1])
      BY <1>3, Zenon DEF Less
    <3>2. Less(g[k - 1], take_tx(g[k - 1], txs[k]), {txs[k]})
      BY <3>1, TakeLess, Zenon
    <3> QED BY <1>1, <3>2, Zenon
  <2> QED BY <1>3, <2>1, <2>2, Zenon DEF Less
<1>4. P(n)
  <2> HIDE DEF P
  <2>1. PICK K : K = {k \in 0 .. n : P(k)}
    BY Zenon
  <2>2. 0 \in 0 .. n /\ \A k \in 1 .. n : k \in 0 .. n
    OBVIOUS
  <2>3. 0 \in K /\ \A k \in 1 .. n : k - 1 \in K => k \in K
    BY <1>2, <1>3, <2>1, <2>2, Zenon
  <2> QED BY <2>1, <2>3, UpTo, Zenon
<1> QED BY <1>1, <1>4, Zenon DEF Range

\* What prune does to a pool: some transactions leave, none that is known from a
\* block.
Pruned(p, q) ==
  /\ IsPool(q)
  /\ DOMAIN q.metas \subseteq DOMAIN p.metas
  /\ \A t \in DOMAIN q.metas : q.metas[t] = p.metas[t]
  /\ \A t \in DOMAIN p.metas : p.metas[t].method = "block" => t \in DOMAIN q.metas
  /\ q.cache = p.cache
  /\ q.timed_out = p.timed_out

IsPruning(s) == s = [p |-> s.p, stop |-> s.stop, abort |-> s.abort]

\* One turn of the loop.
LEMMA EntryPruned ==
  ASSUME NEW s, IsPruning(s), IsPool(s.p), NEW e, NEW in_batch
  PROVE  /\ IsPruning(prune_entry(s, e, in_batch))
         /\ Pruned(s.p, prune_entry(s, e, in_batch).p)
<1>1. PICK r : r = prune_entry(s, e, in_batch)
  BY Zenon
<1>A. PICK left : left = remove_txpool_tx(s.p, e.tx)
  BY Zenon
<1>2. PICK d : d = [left EXCEPT !.sorted = left.sorted \ {e}]
  BY Zenon
<1>3. \/ r = [s EXCEPT !.stop = TRUE]
      \/ r = [s EXCEPT !.stop = TRUE, !.abort = ~in_batch]
      \/ r = s
      \/ /\ s.p.metas[e.tx].method # "block"
         /\ r = [s EXCEPT !.p = d]
  BY <1>A, <1>1, <1>2, Zenon DEF prune_entry
<1>4. PICK a, b, c : s = [p |-> a, stop |-> b, abort |-> c] /\ s.p = a
  BY Zenon DEF IsPruning
<1>5. \/ IsPruning(r) /\ r.p = s.p
      \/ /\ s.p.metas[e.tx].method # "block"
         /\ IsPruning(r) /\ r.p = d
  <2>1. CASE r = [s EXCEPT !.stop = TRUE]
    <3>1. r = [p |-> a, stop |-> TRUE, abort |-> c]
      BY <1>4, <2>1, Zenon
    <3> QED BY <1>4, <3>1, Zenon DEF IsPruning
  <2>2. CASE r = [s EXCEPT !.stop = TRUE, !.abort = ~in_batch]
    <3>1. PICK x : x = ~in_batch
      BY Zenon
    <3>2. r = [p |-> a, stop |-> TRUE, abort |-> x]
      BY <1>4, <2>2, <3>1, Zenon
    <3> QED BY <1>4, <3>2, Zenon DEF IsPruning
  <2>3. CASE r = s
    BY <2>3, Zenon
  <2>4. CASE /\ s.p.metas[e.tx].method # "block"
             /\ r = [s EXCEPT !.p = d]
    <3>1. r = [p |-> d, stop |-> b, abort |-> c]
      BY <1>4, <2>4
    <3> QED BY <2>4, <3>1, Zenon DEF IsPruning
  <2> QED BY <1>3, <2>1, <2>2, <2>3, <2>4, Zenon
<1>6. ASSUME s.p.metas[e.tx].method # "block" PROVE Pruned(s.p, d)
  <2>1. Less(s.p, left, {e.tx})
    BY <1>A, RemoveLess, Zenon
  <2>2. IsFiniteSet(left.sorted \ {e})
    BY <2>1, FS_RemoveElement, Zenon DEF Less, IsPool
  <2>3. /\ IsRecord(d) /\ d.metas = left.metas /\ d.sorted = left.sorted \ {e}
        /\ d.cache = left.cache /\ d.timed_out = left.timed_out
    BY <2>1, <1>2, Write_sorted DEF Less, IsPool
  <2> QED BY <1>6, <2>1, <2>2, <2>3, Zenon DEF Less, Pruned, IsPool
<1>7. Pruned(s.p, s.p)
  BY Zenon DEF Pruned
<1> QED BY <1>1, <1>5, <1>6, <1>7, Zenon

\* prune walks over a sequence of entries.
LEMMA EntriesType ==
  ASSUME NEW p, IsFiniteSet(p.sorted)
  PROVE  /\ \E n \in Nat : DOMAIN by_fee_and_receive_time(p) = 1 .. n
         /\ \E n \in Nat : DOMAIN (IF by_fee_and_receive_time(p) = << >> THEN << >>
                                   ELSE Reverse(Tail(by_fee_and_receive_time(p)))) = 1 .. n
<1>1. PICK n : n = Cardinality(p.sorted)
  BY Zenon
<1>2. n \in Nat
  BY <1>1, FS_CardinalityType, Zenon
<1>3. PICK s : s = by_fee_and_receive_time(p)
  BY Zenon
<1>4. DOMAIN s = 1 .. n /\ s = [k \in 1 .. n |-> s[k]]
  BY <1>1, <1>3 DEF by_fee_and_receive_time
<1>5. PICK R : R = {s[k] : k \in 1 .. n}
  BY Zenon
<1>6. \A k \in 1 .. n : s[k] \in R
  BY <1>5, Zenon
<1>7. s \in Seq(R)
  BY <1>2, <1>4, <1>6
<1>8. ASSUME s # << >> PROVE \E m \in Nat : DOMAIN Reverse(Tail(s)) = 1 .. m
  <2>1. Tail(s) \in Seq(R)
    BY <1>7, <1>8
  <2>2. Len(Tail(s)) \in Nat
    BY <2>1
  <2>3. DOMAIN Reverse(Tail(s)) = 1 .. Len(Tail(s))
    BY Zenon DEF Reverse
  <2> QED BY <2>2, <2>3, Zenon
<1>9. 0 \in Nat /\ DOMAIN << >> = 1 .. 0
  OBVIOUS
<1> QED BY <1>2, <1>3, <1>4, <1>8, <1>9, Zenon

\* prune as a whole: the rows it puts back when it returns early are those it
\* began with.
LEMMA PruneType ==
  ASSUME NEW p, IsPool(p), NEW in_batch
  PROVE  Pruned(p, prune(p, in_batch))
<1>1. PICK seq : seq = IF by_fee_and_receive_time(p) = << >> THEN << >>
                       ELSE Reverse(Tail(by_fee_and_receive_time(p)))
  BY Zenon
<1>2. PICK n \in Nat : DOMAIN seq = 1 .. n
  BY <1>1, EntriesType, Zenon DEF IsPool
<1>3. PICK base : base = [p |-> p, stop |-> FALSE, abort |-> FALSE]
  BY Zenon
<1>4. PICK g : PruneSteps(g, base, in_batch, n, seq)
  BY <1>2, PruneTrace, Zenon
<1>5. PICK end : end = g[n]
  BY Zenon
<1> DEFINE P(k) == IsPruning(g[k]) /\ Pruned(p, g[k].p)
<1>6. P(0)
  <2>1. base.p = p /\ IsPruning(base)
    BY <1>3, Zenon DEF IsPruning
  <2> QED BY <1>4, <2>1, Zenon DEF Pruned, PruneSteps
<1>7. ASSUME NEW k \in 1 .. n, P(k - 1) PROVE P(k)
  <2>1. IsPruning(g[k - 1]) /\ IsPool(g[k - 1].p)
    BY <1>7, Zenon DEF Pruned
  <2>2. IsPruning(g[k]) /\ Pruned(g[k - 1].p, g[k].p)
    BY <1>4, <2>1, EntryPruned, Zenon DEF PruneSteps
  <2> QED BY <1>7, <2>2, Zenon DEF Pruned
<1>8. P(n)
  <2> HIDE DEF P
  <2>1. PICK K : K = {k \in 0 .. n : P(k)}
    BY Zenon
  <2>2. 0 \in 0 .. n /\ \A k \in 1 .. n : k \in 0 .. n
    OBVIOUS
  <2>3. 0 \in K /\ \A k \in 1 .. n : k - 1 \in K => k \in K
    BY <1>6, <1>7, <2>1, <2>2, Zenon
  <2> QED BY <2>1, <2>3, UpTo, Zenon
<1>9. Pruned(p, end.p)
  BY <1>5, <1>8, Zenon
<1>10. prune(p, in_batch) = IF end.abort THEN [end.p EXCEPT !.metas = p.metas] ELSE end.p
  BY <1>1, <1>3, <1>4, <1>5, Zenon DEF prune, PruneSteps, PruneFold
<1>11. PICK q : q = [end.p EXCEPT !.metas = p.metas]
  BY Zenon
<1>12. /\ IsRecord(q) /\ q.metas = p.metas /\ q.sorted = end.p.sorted
       /\ q.cache = end.p.cache /\ q.timed_out = end.p.timed_out
  BY <1>9, <1>11, Write_metas DEF Pruned, IsPool
<1>13. Pruned(p, q)
  BY <1>9, <1>12, Zenon DEF Pruned, IsPool
<1> QED BY <1>9, <1>10, <1>11, <1>13, Zenon

-----------------------------------------------------------------------------
(* Relay methods.                                                            *)

Method == Range(relay_method)

\* "block" is the last of the methods, and the others have their place before it.
LEMMA Ranks ==
  /\ Method = {"none", "local", "forward", "stem", "fluff", "block"}
  /\ \A m \in Method : rank(m) \in 1 .. 6
  /\ rank("block") = 6
  /\ \A m \in Method : rank(m) <= rank("block")
<1>1. DOMAIN relay_method = 1 .. 6
  BY DEF relay_method
<1>2. /\ relay_method[1] = "none" /\ relay_method[2] = "local" /\ relay_method[3] = "forward"
      /\ relay_method[4] = "stem" /\ relay_method[5] = "fluff" /\ relay_method[6] = "block"
  BY DEF relay_method
<1>3. 1 .. 6 = {1, 2, 3, 4, 5, 6}
  OBVIOUS
<1>4. Method = {"none", "local", "forward", "stem", "fluff", "block"}
  BY <1>1, <1>2, <1>3, ZenonT(60) DEF Method, Range
<1>5. ASSUME NEW m \in Method PROVE rank(m) \in 1 .. 6 /\ relay_method[rank(m)] = m
  <2>1. \E i \in DOMAIN relay_method : relay_method[i] = m
    BY Zenon DEF Method, Range
  <2> QED BY <1>1, <2>1, Zenon DEF rank
<1>6. rank("block") = 6
  <2>1. rank("block") \in {1, 2, 3, 4, 5, 6} /\ relay_method[rank("block")] = "block"
    BY <1>3, <1>4, <1>5, Zenon
  <2> QED BY <1>2, <2>1, Zenon
<1>7. ASSUME NEW m \in Method PROVE rank(m) <= rank("block")
  BY <1>5, <1>6
<1> QED BY <1>4, <1>5, <1>6, <1>7, Zenon

\* upgrade_relay_method never goes down, and nothing is above "block".
LEMMA UpgradeUp ==
  ASSUME NEW a \in Method, NEW b \in Method
  PROVE  /\ upgrade_relay_method(a, b) \in Method
         /\ rank(a) <= rank(upgrade_relay_method(a, b))
         /\ a = "block" => upgrade_relay_method(a, b) = "block"
<1>1. rank(a) \in 1 .. 6 /\ rank(b) \in 1 .. 6 /\ rank("block") = 6
  BY Ranks, Zenon
<1>2. rank(a) <= rank(a) /\ (rank(a) < rank(b) => rank(a) <= rank(b))
  BY <1>1
<1>3. ~(6 < rank(b))
  BY <1>1
<1> QED BY <1>1, <1>2, <1>3, Zenon DEF upgrade_relay_method

-----------------------------------------------------------------------------
(* Adding transactions.                                                      *)

\* A transaction is stored with its method, and nothing else changes.
Stored(p, q, t, m) ==
  /\ IsPool(q)
  /\ DOMAIN q.metas = DOMAIN p.metas \cup {t}
  /\ q.metas[t].method = m
  /\ \A s \in DOMAIN p.metas \ {t} : q.metas[s] = p.metas[s]
  /\ q.cache = p.cache
  /\ q.timed_out = p.timed_out

\* store does this.
LEMMA StoreType ==
  ASSUME NEW p, IsPool(p), NEW t \in Tx, NEW now, NEW m \in Method, NEW checked, NEW max_used,
         NEW q, q = store(p, t, now, m, checked, max_used)
  PROVE  Stored(p, q, t, m)
<1>1. PICK i : i = insert_key_images(p, t)
  BY Zenon
<1>2. SameRows(p, i)
  BY <1>1, InsertImagesOnly, Zenon DEF IsPool
<1>3. PICK x : x = [method |-> m, receive_time |-> now, checked |-> checked,
                    max_used |-> max_used, last_failed |-> {}]
  BY Zenon
<1>4. IsMeta(x) /\ x.method = m
  BY <1>3, Zenon DEF IsMeta, Method
<1>5. PICK y : y = [i EXCEPT !.metas = with(i.metas, t, x)]
  BY Zenon
<1>6. q = [y EXCEPT !.sorted = i.sorted \cup {[tx |-> t, time |-> now]}]
  BY <1>1, <1>3, <1>5, Zenon DEF store
<1>7. /\ IsRecord(y) /\ y.metas = with(p.metas, t, x) /\ y.sorted = i.sorted
      /\ y.cache = p.cache /\ y.timed_out = p.timed_out
  BY <1>2, <1>5, Write_metas DEF SameRows
<1>8. /\ IsRecord(q) /\ q.metas = with(p.metas, t, x)
      /\ q.sorted = i.sorted \cup {[tx |-> t, time |-> now]}
      /\ q.cache = p.cache /\ q.timed_out = p.timed_out
  BY <1>6, <1>7, Write_sorted
<1>9. IsFiniteSet(i.sorted)
  BY <1>2, Zenon DEF SameRows, IsPool
<1>10. IsFiniteSet(q.sorted)
  <2>1. PICK e : e = [tx |-> t, time |-> now]
    BY Zenon
  <2>2. IsFiniteSet(i.sorted \cup {e})
    BY <1>9, FS_AddElement, Zenon
  <2> QED BY <1>8, <2>1, <2>2, Zenon
<1>11. /\ IsMetas(with(p.metas, t, x))
       /\ DOMAIN with(p.metas, t, x) = DOMAIN p.metas \cup {t}
       /\ with(p.metas, t, x)[t] = x
       /\ \A s \in DOMAIN p.metas \ {t} : with(p.metas, t, x)[s] = p.metas[s]
  BY <1>4, WithMetas DEF IsPool
<1> QED BY <1>4, <1>8, <1>10, <1>11, Zenon DEF IsPool, Stored

\* The tail of add_tx removes only what prune may remove.
LEMMA CountPruned ==
  ASSUME NEW p, IsPool(p), NEW t, NEW in_batch
  PROVE  Pruned(p, count(p, t, in_batch))
<1>1. PICK q : q = [p EXCEPT !.weight = (@ + Weight[t]) % SizeMod]
  BY Zenon
<1>2. /\ IsRecord(q) /\ q.metas = p.metas /\ q.sorted = p.sorted
      /\ q.cache = p.cache /\ q.timed_out = p.timed_out
  BY <1>1, Write_weight DEF IsPool
<1>3. IsPool(q)
  BY <1>2, Zenon DEF IsPool
<1>4. Pruned(q, prune(q, in_batch))
  BY <1>3, PruneType, Zenon
<1>5. count(p, t, in_batch) = prune(q, in_batch)
  BY <1>1, Zenon DEF count
<1> QED BY <1>2, <1>4, <1>5, Zenon DEF Pruned

\* What a transaction of a block does to a pool: it is there from then on, known
\* from a block, unless it was there already; no other that is known from a
\* block leaves, and those that stay keep their method.
Brought(p, q, T) ==
  /\ IsPool(q)
  /\ DOMAIN q.metas \subseteq DOMAIN p.metas \cup T
  /\ \A t \in DOMAIN q.metas :
       \/ q.metas[t].method = "block"
       \/ t \in DOMAIN p.metas /\ q.metas[t].method = p.metas[t].method
  /\ \A t \in DOMAIN p.metas :
       p.metas[t].method = "block" => t \in DOMAIN q.metas /\ q.metas[t].method = "block"
  /\ \A t \in T \ DOMAIN p.metas : t \in DOMAIN q.metas /\ q.metas[t].method = "block"
  /\ q.cache = p.cache
  /\ q.timed_out = p.timed_out

\* add_tx with the method "block" brings its transaction: the key images of
\* others do not keep it out.
LEMMA AddBrings ==
  ASSUME NEW p, IsPool(p), NEW c, NEW now, NEW t \in Tx, NEW in_batch
  PROVE  Brought(p, add_tx(p, c, now, t, "block", in_batch), {t})
<1>1. PICK q : q = add_tx(p, c, now, t, "block", in_batch)
  BY Zenon
<1>2. ~ in_pool(p, t) => can_insert_key_images(p, t, "block")
  BY Zenon DEF can_insert_key_images
<1>3. \/ q = p /\ in_pool(p, t)
      \/ q = count(p, t, in_batch) /\ in_pool(p, t)
      \/ \E checked, max_used : q = count(store(p, t, now, "block", checked, max_used), t, in_batch)
  BY <1>1, <1>2, Zenon DEF add_tx, add_block_tx
<1>4. CASE q = p /\ in_pool(p, t)
  BY <1>1, <1>4, Zenon DEF Brought, in_pool
<1>5. CASE q = count(p, t, in_batch) /\ in_pool(p, t)
  <2>1. Pruned(p, q)
    BY <1>5, CountPruned, Zenon
  <2> QED BY <1>1, <1>5, <2>1, Zenon DEF Brought, Pruned, in_pool
<1>6. CASE \E checked, max_used : q = count(store(p, t, now, "block", checked, max_used), t, in_batch)
  <2>1. PICK checked, max_used : q = count(store(p, t, now, "block", checked, max_used), t, in_batch)
    BY <1>6, Zenon
  <2>2. PICK r : r = store(p, t, now, "block", checked, max_used)
    BY Zenon
  <2>3. "block" \in Method
    BY Ranks, Zenon
  <2>4. Stored(p, r, t, "block")
    BY <2>2, <2>3, StoreType, Zenon
  <2>5. Pruned(r, q)
    BY <2>1, <2>2, <2>4, CountPruned, Zenon DEF Stored
  <2> QED BY <1>1, <2>4, <2>5, Zenon DEF Brought, Pruned, Stored
<1> QED BY <1>3, <1>4, <1>5, <1>6, Zenon

\* add_txs brings in the transactions it is given.
LEMMA AddAllBrings ==
  ASSUME NEW p, IsPool(p), NEW c, NEW now, NEW n \in Nat, NEW txs, DOMAIN txs = 1 .. n,
         \A i \in 1 .. n : txs[i] \in Tx
  PROVE  Brought(p, add_txs(p, c, now, txs), Range(txs))
<1>0. PICK g : AddSteps(g, p, c, now, n, txs)
  BY AddTrace, Zenon
<1>1. /\ g[0] = p
      /\ \A i \in 1 .. n : g[i] = add_tx(g[i - 1], c, now, txs[i], "block", TRUE)
      /\ g[n] = add_txs(p, c, now, txs)
  BY <1>0, Zenon DEF AddSteps
<1> DEFINE P(k) == Brought(p, g[k], {txs[i] : i \in 1 .. k})
<1>2. P(0)
  <2>1. {txs[i] : i \in 1 .. 0} = {}
    OBVIOUS
  <2> QED BY <1>1, <2>1, Zenon DEF Brought
<1>3. ASSUME NEW k \in 1 .. n, P(k - 1) PROVE P(k)
  <2>1. {txs[i] : i \in 1 .. k} = {txs[i] : i \in 1 .. k - 1} \cup {txs[k]}
    <3>1. 1 .. k = (1 .. k - 1) \cup {k}
      OBVIOUS
    <3> QED BY <3>1, Zenon
  <2>2. Brought(g[k - 1], g[k], {txs[k]})
    <3>1. IsPool(g[k - 1])
      BY <1>3, Zenon DEF Brought
    <3>2. Brought(g[k - 1], add_tx(g[k - 1], c, now, txs[k], "block", TRUE), {txs[k]})
      BY <3>1, AddBrings, Zenon
    <3> QED BY <1>1, <3>2, Zenon
  <2>3. PICK T, x, a, b : /\ T = {txs[i] : i \in 1 .. k - 1} /\ x = txs[k]
                          /\ a = g[k - 1] /\ b = g[k]
    BY Zenon
  <2>4. Brought(p, a, T) /\ Brought(a, b, {x})
    BY <1>3, <2>2, <2>3, Zenon
  <2>5. Brought(p, b, T \cup {x})
    BY <2>4, Zenon DEF Brought
  <2> QED BY <2>1, <2>3, <2>5, Zenon
<1>4. P(n)
  <2> HIDE DEF P
  <2>1. PICK K : K = {k \in 0 .. n : P(k)}
    BY Zenon
  <2>2. 0 \in 0 .. n /\ \A k \in 1 .. n : k \in 0 .. n
    OBVIOUS
  <2>3. 0 \in K /\ \A k \in 1 .. n : k - 1 \in K => k \in K
    BY <1>2, <1>3, <2>1, <2>2, Zenon
  <2> QED BY <2>1, <2>3, UpTo, Zenon
<1> QED BY <1>1, <1>4, Zenon DEF Range

-----------------------------------------------------------------------------
(* Cached verdicts, and transactions that do not come with a block.          *)

\* Every verdict in the cache is the chain's.
Fresh(cache, c) == \A t \in DOMAIN cache : cache[t].ok = chain_check_tx_inputs(c, t).ok

\* check_tx_inputs answers as the chain would, and may keep the answer.
LEMMA CacheVerdict ==
  ASSUME NEW p, IsPool(p), NEW c, Fresh(p.cache, c), NEW t, NEW q, q = cache_verdict(p, c, t)
  PROVE  /\ IsPool(q)
         /\ q.metas = p.metas
         /\ q.timed_out = p.timed_out
         /\ Fresh(q.cache, c)
         /\ check_tx_inputs(p, c, t).ok = chain_check_tx_inputs(c, t).ok
<1>1. PICK v : v = check_tx_inputs(p, c, t)
  BY Zenon
<1>2. v.ok = chain_check_tx_inputs(c, t).ok
  BY <1>1, Zenon DEF check_tx_inputs, Fresh
<1>3. PICK x : x = with(p.cache, t, v)
  BY Zenon
<1>4. q = [p EXCEPT !.cache = x]
  BY <1>1, <1>3, Zenon DEF cache_verdict
<1>5. /\ IsRecord(q) /\ q.metas = p.metas /\ q.sorted = p.sorted
      /\ q.timed_out = p.timed_out /\ q.cache = x
  BY <1>4, Write_cache DEF IsPool
<1>6. DOMAIN x = DOMAIN p.cache \cup {t}
  BY <1>3, Zenon DEF with
<1>7. \A s \in DOMAIN x : x[s] = IF s = t THEN v ELSE p.cache[s]
  BY <1>3, <1>6, Zenon DEF with
<1>8. Fresh(x, c)
  BY <1>2, <1>6, <1>7, Zenon DEF Fresh
<1> QED BY <1>1, <1>2, <1>5, <1>8, Zenon DEF IsPool

\* What hearing of transaction t from a peer does to a pool: nothing that is
\* known from a block leaves, nothing becomes more private, and the verdicts
\* in the cache stay those of chain c.
Heard(p, q, c, t) ==
  /\ IsPool(q)
  /\ DOMAIN q.metas \subseteq DOMAIN p.metas \cup {t}
  /\ \A s \in DOMAIN p.metas \cap DOMAIN q.metas :
       rank(p.metas[s].method) <= rank(q.metas[s].method)
  /\ \A s \in DOMAIN p.metas :
       p.metas[s].method = "block" => s \in DOMAIN q.metas /\ q.metas[s].method = "block"
  /\ Fresh(q.cache, c)
  /\ q.timed_out = p.timed_out

\* A method is as public as itself.
LEMMA RankSelf ==
  ASSUME NEW m, IsMetas(m), NEW t \in DOMAIN m
  PROVE  m[t].method \in Method /\ rank(m[t].method) <= rank(m[t].method)
<1>1. m[t].method \in Method
  BY Zenon DEF IsMetas, IsMeta, Method
<1>2. rank(m[t].method) \in 1 .. 6
  BY <1>1, Ranks, Zenon
<1> QED BY <1>1, <1>2

\* add_tx with another method, on each of its ways out.
LEMMA LooseHeard ==
  ASSUME NEW p, IsPool(p), NEW c, Fresh(p.cache, c), NEW now, NEW t \in Tx, NEW m \in Method
  PROVE  Heard(p, add_loose_tx(p, c, now, t, m), c, t)
<1>1. PICK r : r = add_loose_tx(p, c, now, t, m)
  BY Zenon
<1>2. PICK q : q = cache_verdict(p, c, t)
  BY Zenon
<1>3. IsPool(q) /\ q.metas = p.metas /\ q.timed_out = p.timed_out /\ Fresh(q.cache, c)
  BY <1>2, CacheVerdict
<1>4. PICK relay : relay = IF in_pool(p, t) /\ m = "stem" /\ p.metas[t].method = "stem"
                           THEN "fluff" ELSE m
  BY Zenon
<1>5. relay \in Method
  BY <1>4, Ranks, Zenon
<1>6. PICK old : old = IF in_pool(p, t) THEN p.metas[t].method ELSE "none"
  BY Zenon
<1>7. old \in Method
  BY <1>6, Ranks, RankSelf, Zenon DEF IsPool, in_pool
<1>8. PICK new : new = upgrade_relay_method(old, relay)
  BY Zenon
<1>9. new \in Method /\ rank(old) <= rank(new) /\ (old = "block" => new = "block")
  BY <1>5, <1>7, <1>8, UpgradeUp, Zenon
<1>10. \A s \in DOMAIN p.metas : rank(p.metas[s].method) <= rank(p.metas[s].method)
  BY RankSelf, Zenon DEF IsPool
<1>11. \/ r = p
       \/ r = q
       \/ r = count(q, t, FALSE)
       \/ \E max_used : r = count(store(q, t, now, new, TRUE, max_used), t, FALSE)
  BY <1>1, <1>2, <1>4, <1>6, <1>8, Zenon DEF add_loose_tx
<1>12. CASE r = p
  BY <1>1, <1>10, <1>12, Zenon DEF Heard
<1>13. CASE r = q
  BY <1>1, <1>3, <1>10, <1>13, Zenon DEF Heard
<1>14. CASE r = count(q, t, FALSE)
  <2>1. Pruned(q, r)
    BY <1>3, <1>14, CountPruned, Zenon
  <2> QED BY <1>1, <1>3, <1>10, <2>1, Zenon DEF Heard, Pruned
<1>15. CASE \E max_used : r = count(store(q, t, now, new, TRUE, max_used), t, FALSE)
  <2>1. PICK x, max_used : /\ x = store(q, t, now, new, TRUE, max_used)
                           /\ r = count(x, t, FALSE)
    BY <1>15, Zenon
  <2>2. Stored(q, x, t, new)
    BY <1>3, <1>9, <2>1, StoreType, Zenon
  <2>3. Pruned(x, r)
    BY <2>1, <2>2, CountPruned, Zenon DEF Stored
  <2>4. /\ t \in DOMAIN p.metas => old = p.metas[t].method
        /\ \A s \in DOMAIN p.metas \ {t} : x.metas[s] = p.metas[s]
        /\ x.metas[t].method = new /\ DOMAIN x.metas = DOMAIN p.metas \cup {t}
    BY <1>3, <1>6, <2>2, Zenon DEF Stored, in_pool
  <2>5. \A s \in DOMAIN p.metas : rank(p.metas[s].method) <= rank(x.metas[s].method)
    BY <1>9, <1>10, <2>4, Zenon
  <2>6. \A s \in DOMAIN p.metas : p.metas[s].method = "block" => x.metas[s].method = "block"
    BY <1>9, <2>4, Zenon
  <2>7. Fresh(r.cache, c) /\ r.timed_out = p.timed_out /\ IsPool(r)
    BY <1>3, <2>2, <2>3, Zenon DEF Stored, Pruned
  <2> QED BY <1>1, <2>3, <2>4, <2>5, <2>6, <2>7, Zenon DEF Heard, Pruned
<1> QED BY <1>11, <1>12, <1>13, <1>14, <1>15, Zenon

\* What a block brings is heard of too.
LEMMA BroughtHeard ==
  ASSUME NEW p, IsPool(p), NEW q, NEW T, Brought(p, q, T)
  PROVE  \A s \in DOMAIN p.metas \cap DOMAIN q.metas :
           rank(p.metas[s].method) <= rank(q.metas[s].method)
<1> TAKE s \in DOMAIN p.metas \cap DOMAIN q.metas
<1>1. p.metas[s].method \in Method /\ rank(p.metas[s].method) <= rank(p.metas[s].method)
  BY RankSelf, Zenon DEF IsPool
<1>2. rank(p.metas[s].method) <= rank("block")
  BY <1>1, Ranks, Zenon
<1> QED BY <1>1, <1>2, Zenon DEF Brought

-----------------------------------------------------------------------------
(* Writing the fields of one row.                                            *)

\* Pool q is pool p but for the row of t, which is x.
RowWritten(p, q, t, x) ==
  /\ IsPool(q)
  /\ DOMAIN q.metas = DOMAIN p.metas
  /\ q.metas[t] = x
  /\ \A s \in DOMAIN p.metas \ {t} : q.metas[s] = p.metas[s]
  /\ q.cache = p.cache
  /\ q.timed_out = p.timed_out

\* A row is written as a field of the rows.
LEMMA WriteRow ==
  ASSUME NEW p, IsPool(p), NEW t \in DOMAIN p.metas, NEW x, IsMeta(x),
         NEW q, q = [p EXCEPT !.metas = [p.metas EXCEPT ![t] = x]]
  PROVE  RowWritten(p, q, t, x)
<1>1. PICK m : m = [p.metas EXCEPT ![t] = x]
  BY Zenon
<1>2. p.metas = [s \in DOMAIN p.metas |-> p.metas[s]] /\ DOMAIN p.metas \subseteq Tx
      /\ \A s \in DOMAIN p.metas : IsMeta(p.metas[s])
  BY Zenon DEF IsPool, IsMetas
<1>3. /\ DOMAIN m = DOMAIN p.metas /\ m[t] = x /\ m = [s \in DOMAIN m |-> m[s]]
      /\ \A s \in DOMAIN p.metas \ {t} : m[s] = p.metas[s]
  BY <1>1, Zenon
<1>4. IsMetas(m)
  BY <1>2, <1>3, Zenon DEF IsMetas
<1>5. /\ IsRecord(q) /\ q.metas = m /\ q.sorted = p.sorted
      /\ q.timed_out = p.timed_out /\ q.cache = p.cache
  BY <1>1, Write_metas DEF IsPool
<1> QED BY <1>3, <1>4, <1>5, Zenon DEF RowWritten, IsPool

\* set_relayed makes the row more public, if there is one.
LEMMA SetRelayedHeard ==
  ASSUME NEW p, IsPool(p), NEW c, Fresh(p.cache, c), NEW t, NEW m \in Method
  PROVE  Heard(p, set_relayed(p, t, m), c, t) /\ DOMAIN set_relayed(p, t, m).metas = DOMAIN p.metas
<1>1. \A s \in DOMAIN p.metas : rank(p.metas[s].method) <= rank(p.metas[s].method)
  BY RankSelf, Zenon DEF IsPool
<1>2. CASE ~in_pool(p, t)
  BY <1>1, <1>2, Zenon DEF set_relayed, Heard
<1>3. CASE in_pool(p, t)
  <2>1. t \in DOMAIN p.metas /\ p.metas[t].method \in Method
    BY <1>3, RankSelf, Zenon DEF in_pool, IsPool
  <2>2. PICK new : new = upgrade_relay_method(p.metas[t].method, m)
    BY Zenon
  <2>3. /\ new \in Method /\ rank(p.metas[t].method) <= rank(new)
        /\ p.metas[t].method = "block" => new = "block"
    BY <2>1, <2>2, UpgradeUp, Zenon
  <2>4. PICK x : x = [p.metas[t] EXCEPT !.method = new]
    BY Zenon
  <2>5. IsMeta(p.metas[t])
    BY <2>1, Zenon DEF IsPool, IsMetas
  <2>6. IsMeta(x) /\ x.method = new
    BY <2>3, <2>4, <2>5 DEF IsMeta, Method
  <2>7. set_relayed(p, t, m) = [p EXCEPT !.metas = [p.metas EXCEPT ![t] = x]]
    BY <1>3, <2>2, <2>4, Zenon DEF set_relayed
  <2>8. PICK q : q = set_relayed(p, t, m)
    BY Zenon
  <2>9. RowWritten(p, q, t, x)
    BY <2>1, <2>6, <2>7, <2>8, WriteRow, Zenon
  <2>10. \A s \in DOMAIN p.metas : rank(p.metas[s].method) <= rank(q.metas[s].method)
    BY <1>1, <2>3, <2>6, <2>9, Zenon DEF RowWritten
  <2>11. \A s \in DOMAIN p.metas : p.metas[s].method = "block" => q.metas[s].method = "block"
    BY <2>3, <2>6, <2>9, Zenon DEF RowWritten
  <2> QED BY <2>8, <2>9, <2>10, <2>11, Zenon DEF Heard, RowWritten
<1> QED BY <1>2, <1>3, Zenon

-----------------------------------------------------------------------------
(* Filling a block template.                                                 *)

\* Looking at the transactions changes no method and leaves the cache fresh.
Looked(p, q, c) ==
  /\ IsPool(q)
  /\ DOMAIN q.metas = DOMAIN p.metas
  /\ \A t \in DOMAIN p.metas : q.metas[t].method = p.metas[t].method
  /\ Fresh(q.cache, c)
  /\ q.timed_out = p.timed_out

\* What is_transaction_ready_to_go writes.
LEMMA AfterCheckLooked ==
  ASSUME NEW p, IsPool(p), NEW c, Fresh(p.cache, c), NEW t \in DOMAIN p.metas
  PROVE  Looked(p, after_check(p, c, t), c)
<1>1. PICK q : q = cache_verdict(p, c, t)
  BY Zenon
<1>2. IsPool(q) /\ q.metas = p.metas /\ q.timed_out = p.timed_out /\ Fresh(q.cache, c)
  BY <1>1, CacheVerdict
<1>3. IsMeta(p.metas[t]) /\ IsMeta(q.metas[t])
  BY <1>2, Zenon DEF IsPool, IsMetas
<1>4. PICK r : r = after_check(p, c, t)
  BY Zenon
<1>5. CASE ~is_worth_checking(p, c, t)
  BY <1>4, <1>5, Zenon DEF after_check, Looked
<1>6. CASE is_worth_checking(p, c, t) /\ check_tx_inputs(p, c, t).ok
  <2>1. PICK h : h = check_tx_inputs(p, c, t).max_used
    BY Zenon
  <2>2. PICK x : x = [q.metas[t] EXCEPT !.checked = TRUE, !.max_used = h]
    BY Zenon
  <2>3. IsMeta(x) /\ x.method = q.metas[t].method
    BY <1>3, <2>2, Zenon DEF IsMeta
  <2>4. r = [q EXCEPT !.metas[t].checked = TRUE, !.metas[t].max_used = h]
    BY <1>1, <1>4, <1>6, <2>1, Zenon DEF after_check
  <2>5. r = [q EXCEPT !.metas = [q.metas EXCEPT ![t] = x]]
    BY <1>2, <2>2, <2>4, Zenon DEF IsPool, IsRecord, IsMetas
  <2>6. RowWritten(q, r, t, x)
    BY <1>2, <2>3, <2>5, WriteRow, Zenon
  <2> QED BY <1>2, <1>4, <2>3, <2>6, Zenon DEF Looked, RowWritten
<1>7. CASE is_worth_checking(p, c, t) /\ ~check_tx_inputs(p, c, t).ok
  <2>1. PICK x : x = [q.metas[t] EXCEPT !.last_failed = {c}]
    BY Zenon
  <2>2. IsMeta(x) /\ x.method = q.metas[t].method
    BY <1>3, <2>1 DEF IsMeta
  <2>3. r = [q EXCEPT !.metas = [q.metas EXCEPT ![t] = x]]
    BY <1>1, <1>4, <1>7, <2>1, Zenon DEF after_check
  <2>4. RowWritten(q, r, t, x)
    BY <1>2, <2>2, <2>3, WriteRow, Zenon
  <2> QED BY <1>2, <1>4, <2>2, <2>4, Zenon DEF Looked, RowWritten
<1> QED BY <1>5, <1>6, <1>7, Zenon

\* The transactions of a template: the chain accepts each one, none is private
\* in metas, and no two share a key image.
Sound(txs, metas, c) ==
  /\ \A i, j \in DOMAIN txs : i /= j => KeyImages[txs[i]] \cap KeyImages[txs[j]] = {}
  /\ \A i \in DOMAIN txs : /\ chain_check_tx_inputs(c, txs[i]).ok
                           /\ matches_legacy(metas[txs[i]].method)

\* A template in the making.
Filling(p, s, c) ==
  /\ s = [p |-> s.p, txs |-> s.txs]
  /\ Looked(p, s.p, c)
  /\ s.txs \in Seq(Tx)
  /\ Sound(s.txs, p.metas, c)

\* One more transaction.
LEMMA SoundAppend ==
  ASSUME NEW txs \in Seq(Tx), NEW metas, NEW c, Sound(txs, metas, c), NEW t \in Tx,
         chain_check_tx_inputs(c, t).ok, matches_legacy(metas[t].method),
         \A i \in DOMAIN txs : KeyImages[txs[i]] \cap KeyImages[t] = {}
  PROVE  Append(txs, t) \in Seq(Tx) /\ Sound(Append(txs, t), metas, c)
<1>1. PICK u : u = Append(txs, t)
  BY Zenon
<1>2. u \in Seq(Tx)
  BY <1>1
<1>3. PICK n : n = Len(txs) + 1
  BY Zenon
<1>4. DOMAIN u = DOMAIN txs \cup {n} /\ u[n] = t
  BY <1>1, <1>3
<1>5. \A i \in DOMAIN txs : u[i] = txs[i]
  BY <1>1
<1>6. \A i, j \in DOMAIN u : i /= j => KeyImages[u[i]] \cap KeyImages[u[j]] = {}
  <2>1. \A i \in DOMAIN txs : KeyImages[t] \cap KeyImages[txs[i]] = {}
    BY Zenon
  <2> QED BY <1>4, <1>5, <2>1, Zenon DEF Sound
<1>7. \A i \in DOMAIN u : /\ chain_check_tx_inputs(c, u[i]).ok
                          /\ matches_legacy(metas[u[i]].method)
  BY <1>4, <1>5, Zenon DEF Sound
<1> QED BY <1>1, <1>2, <1>6, <1>7, Zenon DEF Sound

\* One turn of the loop of fill_block_template.
LEMMA ConsiderFills ==
  ASSUME NEW p, IsPool(p), NEW c, NEW s, Filling(p, s, c), NEW e, NEW skip
  PROVE  Filling(p, consider(s, e, c, skip), c)
<1>1. PICK t : t = e.tx
  BY Zenon
<1>2. PICK r : r = consider(s, e, c, skip)
  BY Zenon
<1>3. CASE ~in_pool(s.p, t) \/ t \in skip \/ ~matches_legacy(s.p.metas[t].method)
  BY <1>1, <1>2, <1>3, Zenon DEF consider
<1>4. CASE in_pool(s.p, t) /\ t \notin skip /\ matches_legacy(s.p.metas[t].method)
  <2>1. PICK q : q = after_check(s.p, c, t)
    BY Zenon
  <2>2. PICK txs : txs = IF /\ is_transaction_ready_to_go(s.p, c, t)
                            /\ \A i \in DOMAIN s.txs : KeyImages[s.txs[i]] \cap KeyImages[t] = {}
                         THEN Append(s.txs, t) ELSE s.txs
    BY Zenon
  <2>3. r = [p |-> q, txs |-> txs]
    BY <1>1, <1>2, <1>4, <2>1, <2>2, Zenon DEF consider
  <2>4. r.p = q /\ r.txs = txs
    BY <2>3, Zenon
  <2>5. Looked(p, s.p, c) /\ t \in DOMAIN s.p.metas
    BY <1>4, Zenon DEF Filling, in_pool
  <2>6. IsPool(s.p) /\ Fresh(s.p.cache, c)
    BY <2>5, Zenon DEF Looked
  <2>7. Looked(s.p, q, c)
    BY <2>1, <2>5, <2>6, AfterCheckLooked, Zenon
  <2>8. Looked(p, q, c)
    BY <2>5, <2>7, Zenon DEF Looked
  <2>9. t \in Tx /\ matches_legacy(p.metas[t].method)
    BY <1>4, <2>5, <2>6, Zenon DEF Looked, IsPool, IsMetas
  <2>10. s.txs \in Seq(Tx) /\ Sound(s.txs, p.metas, c)
    BY Zenon DEF Filling
  <2>11. check_tx_inputs(s.p, c, t).ok = chain_check_tx_inputs(c, t).ok
    BY <2>6, CacheVerdict
  <2>12. txs \in Seq(Tx) /\ Sound(txs, p.metas, c)
    <3>1. CASE txs = s.txs
      BY <2>10, <3>1, Zenon
    <3>2. CASE /\ is_transaction_ready_to_go(s.p, c, t)
               /\ \A i \in DOMAIN s.txs : KeyImages[s.txs[i]] \cap KeyImages[t] = {}
               /\ txs = Append(s.txs, t)
      <4>1. chain_check_tx_inputs(c, t).ok
        BY <2>11, <3>2, Zenon DEF is_transaction_ready_to_go
      <4> QED BY <2>9, <2>10, <3>2, <4>1, SoundAppend, Zenon
    <3> QED BY <2>2, <3>1, <3>2, Zenon
  <2> QED BY <1>2, <2>3, <2>4, <2>8, <2>12, Zenon DEF Filling
<1> QED BY <1>3, <1>4, Zenon

\* fill_block_template as a whole.
LEMMA TemplateFilled ==
  ASSUME NEW p, IsPool(p), NEW c, Fresh(p.cache, c), NEW skip
  PROVE  Filling(p, fill_block_template(p, c, skip), c)
<1>1. PICK seq : seq = by_fee_and_receive_time(p)
  BY Zenon
<1>2. PICK n \in Nat : DOMAIN seq = 1 .. n
  BY <1>1, EntriesType, Zenon DEF IsPool
<1>3. PICK base : base = [p |-> p, txs |-> << >>]
  BY Zenon
<1>4. PICK g : ConsiderSteps(g, base, c, skip, n, seq)
  BY <1>2, ConsiderTrace, Zenon
<1> DEFINE P(k) == Filling(p, g[k], c)
<1>5. P(0)
  <2>1. base.p = p /\ base.txs = << >>
    BY <1>3, Zenon
  <2>2. << >> \in Seq(Tx) /\ DOMAIN << >> = {}
    OBVIOUS
  <2>3. Sound(<< >>, p.metas, c)
    BY <2>2, Zenon DEF Sound
  <2>4. Looked(p, p, c)
    BY Zenon DEF Looked
  <2>5. Filling(p, base, c)
    BY <1>3, <2>1, <2>2, <2>3, <2>4, Zenon DEF Filling
  <2> QED BY <1>4, <2>5, Zenon DEF ConsiderSteps
<1>6. ASSUME NEW k \in 1 .. n, P(k - 1) PROVE P(k)
  <2>1. Filling(p, consider(g[k - 1], seq[k], c, skip), c)
    BY <1>6, ConsiderFills, Zenon
  <2> QED BY <1>4, <2>1, Zenon DEF ConsiderSteps
<1>7. P(n)
  <2> HIDE DEF P
  <2>1. PICK K : K = {k \in 0 .. n : P(k)}
    BY Zenon
  <2>2. 0 \in 0 .. n /\ \A k \in 1 .. n : k \in 0 .. n
    OBVIOUS
  <2>3. 0 \in K /\ \A k \in 1 .. n : k - 1 \in K => k \in K
    BY <1>5, <1>6, <2>1, <2>2, Zenon
  <2> QED BY <2>1, <2>3, UpTo, Zenon
<1>8. fill_block_template(p, c, skip) = ConsiderFold(base, seq, c, skip)
  BY <1>1, <1>3, Zenon DEF fill_block_template, ConsiderFold
<1> QED BY <1>4, <1>7, <1>8, Zenon DEF ConsiderSteps

-----------------------------------------------------------------------------
(* Chains, and sequences of transactions.                                    *)

\* The blocks of a chain, no transaction in two of them.
IsChain(c) ==
  /\ c \in Seq(Blocks)
  /\ \A h, k \in DOMAIN c : h /= k => Range(c[h]) \cap Range(c[k]) = {}

\* A block lists transactions.
LEMMA BlockType ==
  ASSUME NEW b \in Blocks
  PROVE  /\ b \in Seq(Tx)
         /\ Len(b) \in Nat
         /\ DOMAIN b = 1 .. Len(b)
         /\ \A i \in DOMAIN b : b[i] \in Tx
<1>1. b \in Seq(Tx)
  BY TxPoolAssumption, Zenon
<1> QED BY <1>1

\* The transactions of a block in reverse, as pop_block returns them.
LEMMA ReverseType ==
  ASSUME NEW b \in Blocks
  PROVE  /\ DOMAIN Reverse(b) = 1 .. Len(b)
         /\ \A i \in 1 .. Len(b) : Reverse(b)[i] \in Tx
         /\ Range(Reverse(b)) = Range(b)
<1>1. Len(b) \in Nat /\ DOMAIN b = 1 .. Len(b) /\ \A i \in DOMAIN b : b[i] \in Tx
  BY BlockType, Zenon
<1>2. /\ DOMAIN Reverse(b) = 1 .. Len(b)
      /\ \A i \in 1 .. Len(b) : Reverse(b)[i] = b[Len(b) - i + 1]
  BY Zenon DEF Reverse
<1>3. \A i \in 1 .. Len(b) : Len(b) - i + 1 \in 1 .. Len(b) /\ Len(b) - (Len(b) - i + 1) + 1 = i
  BY <1>1
<1>4. \A i \in 1 .. Len(b) : Reverse(b)[i] \in Tx
  BY <1>1, <1>2, <1>3, Zenon
<1>5. \A i \in 1 .. Len(b) : Reverse(b)[Len(b) - i + 1] = b[i]
  BY <1>2, <1>3, Zenon
<1>6. Range(Reverse(b)) = Range(b)
  <2>1. \A i \in 1 .. Len(b) : Reverse(b)[i] \in {b[j] : j \in 1 .. Len(b)}
    BY <1>2, <1>3, Zenon
  <2>2. \A i \in 1 .. Len(b) : b[i] \in {Reverse(b)[j] : j \in 1 .. Len(b)}
    BY <1>3, <1>5, Zenon
  <2>3. {Reverse(b)[j] : j \in 1 .. Len(b)} = {b[j] : j \in 1 .. Len(b)}
    BY <2>1, <2>2, Zenon
  <2> QED BY <1>1, <1>2, <2>3, Zenon DEF Range
<1> QED BY <1>2, <1>4, <1>6, Zenon

\* A chain with one more block, of transactions it does not have yet.
LEMMA MinedAppend ==
  ASSUME NEW c, IsChain(c), NEW b \in Blocks, Range(b) \cap Mined(c) = {}
  PROVE  IsChain(Append(c, b)) /\ Mined(Append(c, b)) = Mined(c) \cup Range(b)
<1>1. PICK d : d = Append(c, b)
  BY Zenon
<1>2. c \in Seq(Blocks)
  BY Zenon DEF IsChain
<1>3. d \in Seq(Blocks)
  BY <1>1, <1>2
<1>4. PICK n : n = Len(c) + 1
  BY Zenon
<1>5. DOMAIN d = DOMAIN c \cup {n} /\ d[n] = b
  BY <1>1, <1>2, <1>4
<1>6. \A h \in DOMAIN c : d[h] = c[h]
  BY <1>1, <1>2
<1>7. \A h \in DOMAIN c : Range(c[h]) \cap Range(b) = {} /\ Range(b) \cap Range(c[h]) = {}
  BY Zenon DEF Mined
<1>8. \A h, k \in DOMAIN d : h /= k => Range(d[h]) \cap Range(d[k]) = {}
  BY <1>5, <1>6, <1>7, Zenon DEF IsChain
<1>9. Mined(d) = Mined(c) \cup Range(b)
  <2>1. ASSUME NEW t \in Mined(d) PROVE t \in Mined(c) \cup Range(b)
    <3>1. PICK h \in DOMAIN d : t \in Range(d[h])
      BY <2>1, Zenon DEF Mined
    <3>2. CASE h = n
      BY <1>5, <3>1, <3>2, Zenon
    <3>3. CASE h \in DOMAIN c
      BY <1>6, <3>1, <3>3, Zenon DEF Mined
    <3> QED BY <1>5, <3>2, <3>3, Zenon
  <2>2. ASSUME NEW t \in Mined(c) \cup Range(b) PROVE t \in Mined(d)
    <3>1. CASE t \in Range(b)
      <4>1. n \in DOMAIN d /\ t \in Range(d[n])
        BY <1>5, <3>1, Zenon
      <4> QED BY <4>1, Zenon DEF Mined
    <3>2. CASE t \in Mined(c)
      <4>1. PICK h \in DOMAIN c : t \in Range(c[h])
        BY <3>2, Zenon DEF Mined
      <4>2. h \in DOMAIN d /\ t \in Range(d[h])
        BY <1>5, <1>6, <4>1, Zenon
      <4> QED BY <4>2, Zenon DEF Mined
    <3> QED BY <2>2, <3>1, <3>2, Zenon
  <2> QED BY <2>1, <2>2, Zenon
<1> QED BY <1>1, <1>3, <1>8, <1>9, Zenon DEF IsChain

\* A chain without its last block, which has its transactions to itself.
LEMMA MinedFront ==
  ASSUME NEW c, IsChain(c), c # << >>
  PROVE  /\ IsChain(Front(c))
         /\ Last(c) \in Blocks
         /\ Mined(c) = Mined(Front(c)) \cup Range(Last(c))
         /\ Mined(Front(c)) \cap Range(Last(c)) = {}
<1>1. PICK d : d = Front(c)
  BY Zenon
<1>2. c \in Seq(Blocks)
  BY Zenon DEF IsChain
<1>3. PICK n : n = Len(c)
  BY Zenon
<1>4. d \in Seq(Blocks)
  BY <1>1, <1>2 DEF Front
<1>5. /\ DOMAIN c = DOMAIN d \cup {n} /\ n \notin DOMAIN d
      /\ n \in DOMAIN c
  BY <1>1, <1>2, <1>3 DEF Front
<1>6. \A h \in DOMAIN d : d[h] = c[h]
  BY <1>1, <1>2, <1>3 DEF Front
<1>7. Last(c) = c[n] /\ c[n] \in Blocks
  BY <1>2, <1>3, <1>5 DEF Last
<1>8. \A h \in DOMAIN d : Range(d[h]) \cap Range(Last(c)) = {}
  BY <1>5, <1>6, <1>7, Zenon DEF IsChain
<1>9. \A h, k \in DOMAIN d : h /= k => Range(d[h]) \cap Range(d[k]) = {}
  BY <1>5, <1>6, Zenon DEF IsChain
<1>10. Mined(c) = Mined(d) \cup Range(Last(c))
  BY <1>5, <1>6, <1>7, Zenon DEF Mined
<1>11. Mined(d) \cap Range(Last(c)) = {}
  BY <1>8, Zenon DEF Mined
<1> QED BY <1>1, <1>4, <1>7, <1>9, <1>10, <1>11, Zenon DEF IsChain

\* The transactions a refused block had taken: none of them is in the chain.
LEMMA TakenType ==
  ASSUME NEW b \in Blocks
  PROVE  /\ \E n \in Nat : DOMAIN Taken(b) = 1 .. n /\ \A i \in 1 .. n : Taken(b)[i] \in Tx
         /\ Range(Taken(b)) \cap Mined(chain) = {}
<1>1. /\ b \in Seq(Tx) /\ Len(b) \in Nat /\ DOMAIN b = 1 .. Len(b)
      /\ \A i \in DOMAIN b : b[i] \in Tx
  BY BlockType, Zenon
<1>2. \A i \in DOMAIN b : i \notin Problems(b) => b[i] \notin Mined(chain)
  BY Zenon DEF Problems
<1>3. CASE Problems(b) = {}
  <2>1. Taken(b) = b
    BY <1>3, Zenon DEF Taken
  <2>2. Range(b) \cap Mined(chain) = {}
    BY <1>2, <1>3, Zenon DEF Range
  <2> QED BY <1>1, <2>1, <2>2, Zenon
<1>4. CASE Problems(b) # {}
  <2>1. PICK first : first = Min(Problems(b))
    BY Zenon
  <2>2. Problems(b) \subseteq DOMAIN b
    BY Zenon DEF Problems
  <2>3. DOMAIN b \subseteq Nat
    BY <1>1
  <2>4. Problems(b) \in SUBSET Nat
    BY <2>2, <2>3, Zenon
  <2>5. first \in Problems(b) /\ \A i \in Problems(b) : first <= i
    BY <1>4, <2>1, <2>4, MinNat, Zenon
  <2>6. first \in 1 .. Len(b)
    BY <1>1, <2>2, <2>5, Zenon
  <2>7. PICK k : k = IF b[first] \notin Mined(chain) /\ in_pool(pool, b[first])
                     THEN first ELSE first - 1
    BY Zenon
  <2>8. k \in 0 .. Len(b) /\ (k = first \/ k = first - 1)
    BY <1>1, <2>6, <2>7
  <2>9. PICK u : u = SubSeq(b, 1, k)
    BY Zenon
  <2>10. Taken(b) = u
    BY <1>4, <2>1, <2>7, <2>9, Zenon DEF Taken
  <2>11. DOMAIN u = 1 .. k /\ k \in Nat /\ \A i \in 1 .. k : u[i] = b[i] /\ i \in DOMAIN b
    BY <1>1, <2>8, <2>9
  <2>12. ASSUME NEW i \in 1 .. k PROVE b[i] \notin Mined(chain)
    <3>1. CASE i = first
      <4>1. k # first - 1
        BY <2>6, <2>8, <3>1
      <4> QED BY <2>7, <3>1, <4>1, Zenon
    <3>2. CASE i # first
      <4>1. ~(first <= i)
        BY <2>6, <2>8, <3>2
      <4> QED BY <1>2, <2>5, <2>11, <4>1, Zenon
    <3> QED BY <3>1, <3>2, Zenon
  <2>13. Range(u) \cap Mined(chain) = {}
    BY <2>11, <2>12, Zenon DEF Range
  <2>14. \A i \in 1 .. k : u[i] \in Tx
    BY <1>1, <2>11, Zenon
  <2> QED BY <2>10, <2>11, <2>13, <2>14, Zenon
<1> QED BY <1>3, <1>4, Zenon

\* A finite set as a sequence.
LEMMA SetToSeqType ==
  ASSUME NEW S, IsFiniteSet(S)
  PROVE  /\ \E n \in Nat : DOMAIN SetToSeq(S) = 1 .. n
         /\ Range(SetToSeq(S)) \subseteq S
<1>1. PICK n : n = Cardinality(S)
  BY Zenon
<1>2. n \in Nat /\ ExistsBijection(1 .. n, S)
  BY <1>1, FS_CardinalityType, Zenon
<1>3. \E f \in [1 .. n -> S] : IsInjective(f)
  BY <1>2, Zenon DEF ExistsBijection, Bijection, Injection
<1>4. SetToSeq(S) \in [1 .. n -> S]
  BY <1>1, <1>3, Zenon DEF SetToSeq
<1>5. PICK s : s = SetToSeq(S)
  BY Zenon
<1>6. DOMAIN s = 1 .. n /\ \A i \in 1 .. n : s[i] \in S
  BY <1>4, <1>5, Zenon
<1> QED BY <1>2, <1>5, <1>6, Zenon DEF Range

-----------------------------------------------------------------------------
(* The invariant.                                                            *)

\* No transaction with a row is in the chain.
OffChain(metas, c) == DOMAIN metas \cap Mined(c) = {}

\* What the chain holds and what blocks brought to the pool.
Held(metas, c) == {t \in DOMAIN metas : metas[t].method = "block"} \cup Mined(c)

\* What an open batch would be rolled back to is off its chain, the cache is
\* right for that chain too, and nothing that was held then is lost by now.
IsStart(start, p, c) ==
  /\ IsMetas(start.metas)
  /\ IsChain(start.chain)
  /\ OffChain(start.metas, start.chain)
  /\ Fresh(p.cache, start.chain)
  /\ Held(start.metas, start.chain) \subseteq Held(p.metas, c)

Good(p, c, s) ==
  /\ IsPool(p)
  /\ IsChain(c)
  /\ OffChain(p.metas, c)
  /\ Fresh(p.cache, c)
  /\ s # << >> => s = <<Head(s)>> /\ IsStart(Head(s), p, c)

PoolInv == Good(pool, chain, batch)

\* What a step from pool p, chain c and batch s to q, d and r may not do: make a
\* transaction more private, lose one that is known from a block, end a batch
\* without what was held when it began.
Ends(s, r) == s # << >> /\ r = << >>

Allowed(p, c, s, q, d, r) ==
  /\ \A t \in DOMAIN p.metas \cap DOMAIN q.metas :
       rank(p.metas[t].method) <= rank(q.metas[t].method) \/ Ends(s, r)
  /\ \A t \in Held(p.metas, c) \ (DOMAIN q.metas \cup Mined(d)) : t \in q.timed_out \/ Ends(s, r)
  /\ Ends(s, r) => Held(Head(s).metas, Head(s).chain) \subseteq DOMAIN q.metas \cup Mined(d)

\* A step that leaves the batch as it is.
Goes(p, c, s, q, d) ==
  /\ IsPool(q)
  /\ IsChain(d)
  /\ OffChain(q.metas, d)
  /\ Fresh(q.cache, d)
  /\ s = << >> \/ q.cache = p.cache \/ DOMAIN q.cache = {}
  /\ \A t \in DOMAIN p.metas \cap DOMAIN q.metas :
       rank(p.metas[t].method) <= rank(q.metas[t].method)
  /\ \A t \in Held(p.metas, c) : t \in Held(q.metas, d) \/ (s = << >> /\ t \in q.timed_out)

\* Such a step keeps the invariant and is allowed.
LEMMA Onward ==
  ASSUME NEW p, NEW c, NEW s, Good(p, c, s), NEW q, NEW d, Goes(p, c, s, q, d)
  PROVE  Good(q, d, s) /\ Allowed(p, c, s, q, d, s)
<1>1. ~Ends(s, s)
  BY Zenon DEF Ends
<1>2. Held(q.metas, d) \subseteq DOMAIN q.metas \cup Mined(d)
  BY Zenon DEF Held
<1>3. Allowed(p, c, s, q, d, s)
  BY <1>1, <1>2, Zenon DEF Allowed, Goes
<1>4. ASSUME s # << >> PROVE s = <<Head(s)>> /\ IsStart(Head(s), q, d)
  <2>1. PICK st : st = Head(s)
    BY Zenon
  <2>2. s = <<Head(s)>> /\ IsStart(st, p, c)
    BY <1>4, <2>1, Zenon DEF Good
  <2>3. Fresh(q.cache, st.chain)
    BY <1>4, <2>2, Zenon DEF IsStart, Fresh, Goes
  <2>4. Held(st.metas, st.chain) \subseteq Held(q.metas, d)
    BY <1>4, <2>2, Zenon DEF IsStart, Goes
  <2> QED BY <2>1, <2>2, <2>3, <2>4, Zenon DEF IsStart
<1> QED BY <1>3, <1>4, Zenon DEF Good, Goes

\* An empty cache is right for every chain.
LEMMA NoCache ==
  ASSUME NEW p, IsPool(p), NEW q, q = [p EXCEPT !.cache = << >>]
  PROVE  /\ IsPool(q)
         /\ q.metas = p.metas
         /\ q.timed_out = p.timed_out
         /\ DOMAIN q.cache = {}
         /\ \A c : Fresh(q.cache, c)
<1>1. /\ IsRecord(q) /\ q.metas = p.metas /\ q.sorted = p.sorted
      /\ q.timed_out = p.timed_out /\ q.cache = << >>
  BY Write_cache DEF IsPool
<1>2. DOMAIN << >> = {}
  OBVIOUS
<1>3. DOMAIN q.cache = {}
  BY <1>1, <1>2, Zenon
<1> QED BY <1>1, <1>3, Zenon DEF IsPool, Fresh

\* init and validate: a pool with the rows of the database and an empty cache.
LEMMA InitType ==
  ASSUME NEW m, IsMetas(m)
  PROVE  IsPool(init(m)) /\ init(m).metas = m /\ DOMAIN init(m).cache = {}
<1>1. PICK q : q = init(m)
  BY Zenon
<1>2. PICK a, b, d : /\ a = [k \in UNION {KeyImages[t] : t \in Tx} |-> {t \in DOMAIN m : k \in KeyImages[t]}]
                     /\ b = {[tx |-> t, time |-> m[t].receive_time] : t \in DOMAIN m}
                     /\ d = FoldFunctionOnSet(+, 0, Weight, DOMAIN m) % SizeMod
  BY Zenon
<1>3. q = [metas |-> m, spent |-> a, sorted |-> b, weight |-> d, timed_out |-> {}, cache |-> << >>]
  BY <1>1, <1>2 DEF init, NoPool
<1>4. IsRecord(q) /\ q.metas = m /\ q.sorted = b /\ q.cache = << >>
  BY <1>3, Fields, Zenon
<1>5. IsFiniteSet(DOMAIN m)
  <2>1. DOMAIN m \in SUBSET Tx
    BY Zenon DEF IsMetas
  <2> QED BY <2>1, TxPoolAssumption, FS_Subset, Zenon
<1>6. IsFiniteSet(b)
  <2>1. PICK f : f = [t \in DOMAIN m |-> [tx |-> t, time |-> m[t].receive_time]]
    BY Zenon
  <2>2. f \in Surjection(DOMAIN m, b)
    BY <1>2, <2>1, Zenon DEF Surjection
  <2> QED BY <1>5, <2>2, FS_Surjection, Zenon
<1>7. DOMAIN << >> = {}
  OBVIOUS
<1> QED BY <1>1, <1>4, <1>6, <1>7, Zenon DEF IsPool

\* validate finds nothing to remove.
LEMMA ValidateType ==
  ASSUME NEW m, IsMetas(m), NEW c, OffChain(m, c)
  PROVE  Less(init(m), validate(init(m), c), {})
<1>1. PICK p : p = init(m)
  BY Zenon
<1>2. IsPool(p) /\ DOMAIN p.metas \cap Mined(c) = {}
  BY <1>1, InitType, Zenon DEF OffChain
<1>3. IsFiniteSet({})
  BY FS_EmptySet, Zenon
<1>4. PICK txs : txs = SetToSeq({})
  BY Zenon
<1>5. /\ \E n \in Nat : DOMAIN txs = 1 .. n
      /\ Range(txs) = {}
  BY <1>3, <1>4, SetToSeqType, Zenon
<1>6. Less(p, take_txs(p, txs), Range(txs))
  BY <1>2, <1>5, TakeAllLess, Zenon
<1>7. validate(p, c) = take_txs(p, txs)
  BY <1>2, <1>4, Zenon DEF validate
<1> QED BY <1>1, <1>5, <1>6, <1>7, Zenon

-----------------------------------------------------------------------------
(* The steps.                                                                *)

\* What is to be shown of each of them.
Kept == PoolInv' /\ Allowed(pool, chain, batch, pool', chain', batch')

\* A transaction that arrives is not in the chain.
LEMMA ReceiveKeeps ==
  ASSUME PoolInv, NEW t \in Tx, NEW m \in Methods, ReceiveTx(t, m)
  PROVE  Kept
<1>1. /\ IsPool(pool) /\ IsChain(chain) /\ OffChain(pool.metas, chain) /\ Fresh(pool.cache, chain)
      /\ Good(pool, chain, batch)
  BY Zenon DEF PoolInv, Good
<1>2. /\ pool' = add_tx(pool, chain, clock, t, m, ~Idle) /\ chain' = chain /\ batch' = batch
      /\ t \notin Mined(chain) /\ (Idle \/ m = "block")
  BY Zenon DEF ReceiveTx
<1>3. PICK q : q = pool'
  BY Zenon
<1>4. /\ IsPool(q)
      /\ DOMAIN q.metas \subseteq DOMAIN pool.metas \cup {t}
      /\ Fresh(q.cache, chain)
      /\ batch = << >> \/ q.cache = pool.cache
      /\ \A s \in DOMAIN pool.metas \cap DOMAIN q.metas :
           rank(pool.metas[s].method) <= rank(q.metas[s].method)
      /\ \A s \in DOMAIN pool.metas : pool.metas[s].method = "block" =>
           s \in DOMAIN q.metas /\ q.metas[s].method = "block"
  <2>1. CASE m = "block"
    <3>1. Brought(pool, q, {t})
      BY <1>1, <1>2, <1>3, <2>1, AddBrings, Zenon
    <3> QED BY <1>1, <3>1, BroughtHeard, Zenon DEF Brought
  <2>2. CASE m # "block"
    <3>1. m \in Method
      BY TxPoolAssumption, Zenon DEF Method
    <3>2. Heard(pool, add_loose_tx(pool, chain, clock, t, m), chain, t)
      BY <1>1, <3>1, LooseHeard, Zenon
    <3>3. Heard(pool, q, chain, t)
      BY <1>2, <1>3, <2>2, <3>2, Zenon DEF add_tx
    <3> QED BY <1>2, <2>2, <3>3, Zenon DEF Heard, Idle
  <2> QED BY <2>1, <2>2, Zenon
<1>5. OffChain(q.metas, chain)
  BY <1>1, <1>2, <1>4, Zenon DEF OffChain
<1>6. \A s \in Held(pool.metas, chain) : s \in Held(q.metas, chain)
  BY <1>4, Zenon DEF Held
<1>7. Good(q, chain, batch) /\ Allowed(pool, chain, batch, q, chain, batch)
  <2>1. Goes(pool, chain, batch, q, chain)
    BY <1>1, <1>4, <1>5, <1>6, Zenon DEF Goes
  <2> QED BY <1>1, <2>1, Onward, Zenon
<1> QED BY <1>2, <1>3, <1>7, Zenon DEF Kept, PoolInv

\* A method is raised.
LEMMA SetRelayedKeeps ==
  ASSUME PoolInv, NEW t \in Tx, NEW m \in Methods \ {"none", "block"}, SetRelayed(t, m)
  PROVE  Kept
<1>1. /\ IsPool(pool) /\ IsChain(chain) /\ OffChain(pool.metas, chain) /\ Fresh(pool.cache, chain)
      /\ Good(pool, chain, batch)
  BY Zenon DEF PoolInv, Good
<1>2. pool' = set_relayed(pool, t, m) /\ chain' = chain /\ batch' = batch /\ batch = << >>
  BY Zenon DEF SetRelayed, Idle
<1>3. PICK q : q = pool'
  BY Zenon
<1>4. m \in Method
  BY TxPoolAssumption, Zenon DEF Method
<1>5. Heard(pool, q, chain, t) /\ DOMAIN q.metas = DOMAIN pool.metas
  BY <1>1, <1>2, <1>3, <1>4, SetRelayedHeard, Zenon
<1>6. OffChain(q.metas, chain)
  BY <1>1, <1>5, Zenon DEF OffChain
<1>7. \A s \in Held(pool.metas, chain) : s \in Held(q.metas, chain)
  BY <1>5, Zenon DEF Held, Heard
<1>8. /\ IsPool(q) /\ Fresh(q.cache, chain)
      /\ \A s \in DOMAIN pool.metas \cap DOMAIN q.metas :
           rank(pool.metas[s].method) <= rank(q.metas[s].method)
  BY <1>5, Zenon DEF Heard
<1>9. Good(q, chain, batch) /\ Allowed(pool, chain, batch, q, chain, batch)
  <2>1. Goes(pool, chain, batch, q, chain)
    BY <1>1, <1>2, <1>6, <1>7, <1>8, Zenon DEF Goes
  <2> QED BY <1>1, <2>1, Onward, Zenon
<1> QED BY <1>2, <1>3, <1>9, Zenon DEF Kept, PoolInv

\* A template is filled.
LEMMA FillKeeps ==
  ASSUME PoolInv, NEW skip, FillTemplate(skip)
  PROVE  Kept
<1>1. /\ IsPool(pool) /\ IsChain(chain) /\ OffChain(pool.metas, chain) /\ Fresh(pool.cache, chain)
      /\ Good(pool, chain, batch)
  BY Zenon DEF PoolInv, Good
<1>2. /\ pool' = fill_block_template(pool, chain, skip).p
      /\ chain' = chain /\ batch' = batch /\ batch = << >>
  BY Zenon DEF FillTemplate, Idle
<1>3. PICK q : q = pool'
  BY Zenon
<1>4. Looked(pool, q, chain)
  BY <1>1, <1>2, <1>3, TemplateFilled, Zenon DEF Filling
<1>5. OffChain(q.metas, chain)
  BY <1>1, <1>4, Zenon DEF OffChain, Looked
<1>6. \A s \in Held(pool.metas, chain) : s \in Held(q.metas, chain)
  BY <1>4, Zenon DEF Held, Looked
<1>7. \A s \in DOMAIN pool.metas \cap DOMAIN q.metas :
        rank(pool.metas[s].method) <= rank(q.metas[s].method)
  <2>1. \A s \in DOMAIN pool.metas : rank(pool.metas[s].method) <= rank(pool.metas[s].method)
    BY <1>1, RankSelf, Zenon DEF IsPool
  <2> QED BY <1>4, <2>1, Zenon DEF Looked
<1>8. IsPool(q) /\ Fresh(q.cache, chain)
  BY <1>4, Zenon DEF Looked
<1>9. Good(q, chain, batch) /\ Allowed(pool, chain, batch, q, chain, batch)
  <2>1. Goes(pool, chain, batch, q, chain)
    BY <1>1, <1>2, <1>5, <1>6, <1>7, <1>8, Zenon DEF Goes
  <2> QED BY <1>1, <2>1, Onward, Zenon
<1> QED BY <1>2, <1>3, <1>9, Zenon DEF Kept, PoolInv

\* What leaves by old age is in timed_out.
LEMMA RemoveStuckKeeps ==
  ASSUME PoolInv, RemoveStuck
  PROVE  Kept
<1>1. /\ IsPool(pool) /\ IsChain(chain) /\ OffChain(pool.metas, chain) /\ Fresh(pool.cache, chain)
      /\ Good(pool, chain, batch)
  BY Zenon DEF PoolInv, Good
<1>2. /\ pool' = remove_stuck_transactions(pool, clock)
      /\ chain' = chain /\ batch' = batch /\ batch = << >>
  BY Zenon DEF RemoveStuck, Idle
<1>3. PICK old : old = {t \in DOMAIN pool.metas : clock - pool.metas[t].receive_time >
                          IF pool.metas[t].method = "block" THEN AltLiveTime ELSE LiveTime}
  BY Zenon
<1>4. IsFiniteSet(old)
  <2>1. old \in SUBSET Tx
    BY <1>1, <1>3, Zenon DEF IsPool, IsMetas
  <2> QED BY <2>1, TxPoolAssumption, FS_Subset, Zenon
<1>5. PICK txs : txs = SetToSeq(old)
  BY Zenon
<1>6. (\E n \in Nat : DOMAIN txs = 1 .. n) /\ Range(txs) \subseteq old
  BY <1>4, <1>5, SetToSeqType, Zenon
<1>7. PICK r : r = take_txs(pool, txs)
  BY Zenon
<1>8. Less(pool, r, Range(txs))
  BY <1>1, <1>6, <1>7, TakeAllLess, Zenon
<1>9. PICK q : q = pool'
  BY Zenon
<1>10. q = [r EXCEPT !.timed_out = r.timed_out \cup old]
  BY <1>2, <1>3, <1>5, <1>7, <1>9, Zenon DEF remove_stuck_transactions
<1>11. /\ IsRecord(q) /\ q.metas = r.metas /\ q.sorted = r.sorted
       /\ q.timed_out = r.timed_out \cup old /\ q.cache = r.cache
  BY <1>8, <1>10, Write_timed_out DEF Less, IsPool
<1>12. /\ IsPool(q) /\ Fresh(q.cache, chain)
       /\ DOMAIN q.metas = DOMAIN pool.metas \ Range(txs)
       /\ \A t \in DOMAIN q.metas : q.metas[t] = pool.metas[t]
  BY <1>1, <1>8, <1>11, Zenon DEF Less, IsPool
<1>13. OffChain(q.metas, chain)
  BY <1>1, <1>12, Zenon DEF OffChain
<1>14. \A t \in Held(pool.metas, chain) :
         t \in Held(q.metas, chain) \/ (batch = << >> /\ t \in q.timed_out)
  BY <1>2, <1>6, <1>11, <1>12, Zenon DEF Held
<1>15. \A t \in DOMAIN pool.metas \cap DOMAIN q.metas :
         rank(pool.metas[t].method) <= rank(q.metas[t].method)
  <2>1. \A t \in DOMAIN pool.metas : rank(pool.metas[t].method) <= rank(pool.metas[t].method)
    BY <1>1, RankSelf, Zenon DEF IsPool
  <2> QED BY <1>12, <2>1, Zenon
<1>16. Good(q, chain, batch) /\ Allowed(pool, chain, batch, q, chain, batch)
  <2>1. Goes(pool, chain, batch, q, chain)
    BY <1>1, <1>2, <1>12, <1>13, <1>14, <1>15, Zenon DEF Goes
  <2> QED BY <1>1, <2>1, Onward, Zenon
<1> QED BY <1>2, <1>9, <1>16, Zenon DEF Kept, PoolInv

\* A block leaves the pool and joins the chain.
LEMMA AddBlockKeeps ==
  ASSUME PoolInv, NEW b \in Blocks, AddBlock(b)
  PROVE  Kept
<1>1. /\ IsPool(pool) /\ IsChain(chain) /\ OffChain(pool.metas, chain) /\ Fresh(pool.cache, chain)
      /\ Good(pool, chain, batch)
  BY Zenon DEF PoolInv, Good
<1>2. /\ chain' = Append(chain, b) /\ pool' = on_blockchain_inc(take_txs(pool, b))
      /\ batch' = batch /\ Problems(b) = {}
  BY Zenon DEF AddBlock
<1>3. Len(b) \in Nat /\ DOMAIN b = 1 .. Len(b)
  BY BlockType, Zenon
<1>4. PICK r : r = take_txs(pool, b)
  BY Zenon
<1>5. Less(pool, r, Range(b))
  BY <1>1, <1>3, <1>4, TakeAllLess, Zenon
<1>6. PICK q, d : q = pool' /\ d = chain'
  BY Zenon
<1>7. q = [r EXCEPT !.cache = << >>]
  BY <1>2, <1>4, <1>6, Zenon DEF on_blockchain_inc
<1>8. IsPool(r)
  BY <1>5, Zenon DEF Less
<1>9. /\ IsPool(q) /\ q.metas = r.metas /\ DOMAIN q.cache = {}
      /\ \A c : Fresh(q.cache, c)
  BY <1>7, <1>8, NoCache, Zenon
<1>10. Range(b) \cap Mined(chain) = {}
  BY <1>2, Zenon DEF Problems, Range
<1>11. IsChain(d) /\ Mined(d) = Mined(chain) \cup Range(b)
  BY <1>1, <1>2, <1>6, <1>10, MinedAppend, Zenon
<1>12. /\ DOMAIN q.metas = DOMAIN pool.metas \ Range(b)
       /\ \A t \in DOMAIN q.metas : q.metas[t] = pool.metas[t]
  BY <1>5, <1>9, Zenon DEF Less
<1>13. OffChain(q.metas, d)
  BY <1>1, <1>11, <1>12, Zenon DEF OffChain
<1>14. \A t \in Held(pool.metas, chain) : t \in Held(q.metas, d)
  BY <1>11, <1>12, Zenon DEF Held
<1>15. \A t \in DOMAIN pool.metas \cap DOMAIN q.metas :
         rank(pool.metas[t].method) <= rank(q.metas[t].method)
  <2>1. \A t \in DOMAIN pool.metas : rank(pool.metas[t].method) <= rank(pool.metas[t].method)
    BY <1>1, RankSelf, Zenon DEF IsPool
  <2> QED BY <1>12, <2>1, Zenon
<1>16. Fresh(q.cache, d)
  BY <1>9, Zenon
<1>17. Good(q, d, batch) /\ Allowed(pool, chain, batch, q, d, batch)
  <2>1. Goes(pool, chain, batch, q, d)
    BY <1>1, <1>9, <1>11, <1>13, <1>14, <1>15, <1>16, Zenon DEF Goes
  <2> QED BY <1>1, <2>1, Onward, Zenon
<1> QED BY <1>2, <1>6, <1>17, Zenon DEF Kept, PoolInv

\* A block's transactions are taken and given back: the pool after it.
Returned(p, q, txs) ==
  /\ IsPool(q)
  /\ q.cache = p.cache
  /\ DOMAIN q.metas \subseteq DOMAIN p.metas \cup Range(txs)
  /\ \A t \in DOMAIN q.metas \cap DOMAIN p.metas :
       rank(p.metas[t].method) <= rank(q.metas[t].method)
  /\ \A t \in DOMAIN p.metas : p.metas[t].method = "block" =>
       t \in DOMAIN q.metas /\ q.metas[t].method = "block"

\* return_tx_to_pool brings back, as known from a block, what was taken.
LEMMA GivenBack ==
  ASSUME NEW p, IsPool(p), NEW c, NEW now, NEW n \in Nat, NEW txs, DOMAIN txs = 1 .. n,
         \A i \in 1 .. n : txs[i] \in Tx,
         NEW q, q = add_txs(take_txs(p, txs), c, now, txs)
  PROVE  Returned(p, q, txs)
<1>1. PICK r : r = take_txs(p, txs)
  BY Zenon
<1>2. Less(p, r, Range(txs))
  BY <1>1, TakeAllLess, Zenon
<1>3. IsPool(r)
  BY <1>2, Zenon DEF Less
<1>4. Brought(r, q, Range(txs))
  BY <1>1, <1>3, AddAllBrings, Zenon
<1>5. \A t \in DOMAIN p.metas : /\ rank(p.metas[t].method) <= rank(p.metas[t].method)
                                /\ rank(p.metas[t].method) <= rank("block")
  BY RankSelf, Ranks, Zenon DEF IsPool
<1>6. ASSUME NEW t \in DOMAIN q.metas \cap DOMAIN p.metas
      PROVE  rank(p.metas[t].method) <= rank(q.metas[t].method)
  <2>1. CASE q.metas[t].method = "block"
    BY <1>5, <2>1, Zenon
  <2>2. CASE t \in DOMAIN r.metas /\ q.metas[t].method = r.metas[t].method
    BY <1>2, <1>5, <2>2, Zenon DEF Less
  <2> QED BY <1>4, <2>1, <2>2, Zenon DEF Brought
<1>7. ASSUME NEW t \in DOMAIN p.metas, p.metas[t].method = "block"
      PROVE  t \in DOMAIN q.metas /\ q.metas[t].method = "block"
  <2>1. CASE t \in Range(txs)
    BY <1>2, <1>4, <2>1, Zenon DEF Less, Brought
  <2>2. CASE t \notin Range(txs)
    BY <1>2, <1>4, <1>7, <2>2, Zenon DEF Less, Brought
  <2> QED BY <2>1, <2>2, Zenon
<1>8. IsPool(q) /\ q.cache = p.cache /\ DOMAIN q.metas \subseteq DOMAIN p.metas \cup Range(txs)
  BY <1>2, <1>4, Zenon DEF Less, Brought
<1> QED BY <1>6, <1>7, <1>8, Zenon DEF Returned

\* A refused block gives back what it took, and took nothing of the chain.
LEMMA RejectBlockKeeps ==
  ASSUME PoolInv, NEW b \in Blocks, RejectBlock(b)
  PROVE  Kept
<1>1. /\ IsPool(pool) /\ IsChain(chain) /\ OffChain(pool.metas, chain) /\ Fresh(pool.cache, chain)
      /\ Good(pool, chain, batch)
  BY Zenon DEF PoolInv, Good
<1>2. PICK txs : txs = Taken(b)
  BY Zenon
<1>3. /\ pool' = add_txs(take_txs(pool, txs), chain, clock, txs)
      /\ chain' = chain /\ batch' = batch
  BY <1>2, Zenon DEF RejectBlock
<1>4. /\ \E n \in Nat : DOMAIN txs = 1 .. n /\ \A i \in 1 .. n : txs[i] \in Tx
      /\ Range(txs) \cap Mined(chain) = {}
  BY <1>2, TakenType, Zenon
<1>5. PICK n \in Nat : DOMAIN txs = 1 .. n /\ \A i \in 1 .. n : txs[i] \in Tx
  BY <1>4, Zenon
<1>6. PICK q : q = pool'
  BY Zenon
<1>7. /\ IsPool(q)
      /\ q.cache = pool.cache
      /\ DOMAIN q.metas \subseteq DOMAIN pool.metas \cup Range(txs)
      /\ \A t \in DOMAIN q.metas \cap DOMAIN pool.metas :
           rank(pool.metas[t].method) <= rank(q.metas[t].method)
      /\ \A t \in DOMAIN pool.metas : pool.metas[t].method = "block" =>
           t \in DOMAIN q.metas /\ q.metas[t].method = "block"
  <2>1. Returned(pool, q, txs)
    BY <1>1, <1>3, <1>5, <1>6, GivenBack, Zenon
  <2> QED BY <2>1, Zenon DEF Returned
<1>8. OffChain(q.metas, chain)
  BY <1>1, <1>4, <1>7, Zenon DEF OffChain
<1>9. \A t \in Held(pool.metas, chain) : t \in Held(q.metas, chain)
  BY <1>7, Zenon DEF Held
<1>10. Fresh(q.cache, chain)
  BY <1>1, <1>7, Zenon
<1>11. Good(q, chain, batch) /\ Allowed(pool, chain, batch, q, chain, batch)
  <2>1. Goes(pool, chain, batch, q, chain)
    BY <1>1, <1>7, <1>8, <1>9, <1>10, Zenon DEF Goes
  <2> QED BY <1>1, <2>1, Onward, Zenon
<1> QED BY <1>3, <1>6, <1>11, Zenon DEF Kept, PoolInv

\* The last block's transactions are back in the pool when it is popped.
LEMMA PopBlockKeeps ==
  ASSUME PoolInv, PopBlock
  PROVE  Kept
<1>1. /\ IsPool(pool) /\ IsChain(chain) /\ OffChain(pool.metas, chain) /\ Fresh(pool.cache, chain)
      /\ Good(pool, chain, batch)
  BY Zenon DEF PoolInv, Good
<1>2. PICK b, d, txs : b = Last(chain) /\ d = Front(chain) /\ txs = Reverse(b)
  BY Zenon
<1>3. /\ chain # << >> /\ chain' = d /\ batch' = batch
      /\ pool' = on_blockchain_dec(add_txs(pool, d, clock, txs))
  BY <1>2, Zenon DEF PopBlock
<1>4. /\ IsChain(d) /\ b \in Blocks /\ Mined(chain) = Mined(d) \cup Range(b)
      /\ Mined(d) \cap Range(b) = {}
  BY <1>1, <1>2, <1>3, MinedFront, Zenon
<1>5. /\ DOMAIN txs = 1 .. Len(b) /\ \A i \in 1 .. Len(b) : txs[i] \in Tx
      /\ Range(txs) = Range(b) /\ Len(b) \in Nat
  BY <1>2, <1>4, ReverseType, BlockType, Zenon
<1>6. PICK r : r = add_txs(pool, d, clock, txs)
  BY Zenon
<1>7. Brought(pool, r, Range(txs))
  BY <1>1, <1>5, <1>6, AddAllBrings, Zenon
<1>8. IsPool(r)
  BY <1>7, Zenon DEF Brought
<1>9. PICK q : q = pool'
  BY Zenon
<1>10. q = [r EXCEPT !.cache = << >>]
  BY <1>3, <1>6, <1>9, Zenon DEF on_blockchain_dec
<1>11. IsPool(q) /\ q.metas = r.metas /\ DOMAIN q.cache = {} /\ \A c : Fresh(q.cache, c)
  BY <1>8, <1>10, NoCache, Zenon
<1>12. \A t \in DOMAIN pool.metas \cap DOMAIN q.metas :
         rank(pool.metas[t].method) <= rank(q.metas[t].method)
  BY <1>1, <1>7, <1>11, BroughtHeard, Zenon
<1>13. OffChain(q.metas, d)
  BY <1>1, <1>4, <1>5, <1>7, <1>11, Zenon DEF OffChain, Brought
<1>14. \A t \in Held(pool.metas, chain) : t \in Held(q.metas, d)
  <2>1. \A t \in Range(b) : t \in DOMAIN q.metas /\ q.metas[t].method = "block"
    BY <1>1, <1>4, <1>5, <1>7, <1>11, Zenon DEF OffChain, Brought
  <2> QED BY <1>4, <1>7, <1>11, <2>1, Zenon DEF Held, Brought
<1>15. Fresh(q.cache, d)
  BY <1>11, Zenon
<1>16. Good(q, d, batch) /\ Allowed(pool, chain, batch, q, d, batch)
  <2>1. Goes(pool, chain, batch, q, d)
    BY <1>1, <1>4, <1>11, <1>12, <1>13, <1>14, <1>15, Zenon DEF Goes
  <2> QED BY <1>1, <2>1, Onward, Zenon
<1> QED BY <1>3, <1>9, <1>16, Zenon DEF Kept, PoolInv

\* The batch is rolled back: the rows and the chain are those it began with.
LEMMA AbortBatchKeeps ==
  ASSUME PoolInv, NEW b \in Blocks, AbortBatch(b)
  PROVE  Kept
<1>1. IsPool(pool) /\ (batch # << >> => IsStart(Head(batch), pool, chain))
  BY Zenon DEF PoolInv, Good
<1>2. PICK start : start = Head(batch)
  BY Zenon
<1>3. PICK r : r = add_txs(take_txs(pool, b), chain, clock, b)
  BY Zenon
<1>4. PICK q : q = pool'
  BY Zenon
<1>5. /\ batch # << >> /\ batch' = << >> /\ chain' = start.chain
      /\ q = [r EXCEPT !.metas = start.metas]
  BY <1>2, <1>3, <1>4, Zenon DEF AbortBatch, Idle
<1>6. IsStart(start, pool, chain)
  BY <1>1, <1>2, <1>5, Zenon
<1>7. Len(b) \in Nat /\ DOMAIN b = 1 .. Len(b) /\ \A i \in 1 .. Len(b) : b[i] \in Tx
  BY BlockType, Zenon
<1>8. Returned(pool, r, b)
  BY <1>1, <1>3, <1>7, GivenBack, Zenon
<1>9. IsPool(r) /\ r.cache = pool.cache
  BY <1>8, Zenon DEF Returned
<1>10. /\ IsRecord(q) /\ q.metas = start.metas /\ q.sorted = r.sorted /\ q.cache = pool.cache
  BY <1>5, <1>9, Write_metas DEF IsPool
<1>11. IsPool(q)
  BY <1>6, <1>9, <1>10, Zenon DEF IsPool, IsStart
<1>12. Good(q, start.chain, << >>)
  BY <1>6, <1>10, <1>11, Zenon DEF Good, IsStart
<1>13. Held(start.metas, start.chain) \subseteq DOMAIN q.metas \cup Mined(start.chain)
  BY <1>10, Zenon DEF Held
<1>14. Ends(batch, batch')
  BY <1>5, Zenon DEF Ends
<1>15. Allowed(pool, chain, batch, q, start.chain, batch')
  BY <1>2, <1>13, <1>14, Zenon DEF Allowed
<1> QED BY <1>4, <1>5, <1>12, <1>15, Zenon DEF Kept, PoolInv

\* The node starts again from the database, without an open batch's changes.
LEMMA RestartKeeps ==
  ASSUME PoolInv, Restart
  PROVE  Kept
<1>1. PICK m, c : /\ m = IF Idle THEN pool.metas ELSE Head(batch).metas
                  /\ c = IF Idle THEN chain ELSE Head(batch).chain
  BY Zenon
<1>2. PICK q : q = pool'
  BY Zenon
<1>3. chain' = c /\ q = validate(init(m), c) /\ batch' = << >>
  <2>1. CASE Idle
    BY <1>1, <1>2, <2>1, Zenon DEF Restart
  <2>2. CASE ~Idle
    BY <1>1, <1>2, <2>2, Zenon DEF Restart
  <2> QED BY <2>1, <2>2, Zenon
<1>4. IsMetas(m) /\ IsChain(c) /\ OffChain(m, c)
  BY <1>1, Zenon DEF PoolInv, Good, IsPool, IsStart, Idle
<1>5. Less(init(m), q, {})
  BY <1>3, <1>4, ValidateType, Zenon
<1>6. init(m).metas = m /\ DOMAIN init(m).cache = {}
  BY <1>4, InitType, Zenon
<1>7. /\ IsPool(q) /\ DOMAIN q.metas = DOMAIN m /\ \A t \in DOMAIN m : q.metas[t] = m[t]
      /\ DOMAIN q.cache = {}
  BY <1>5, <1>6, Zenon DEF Less
<1>8. Good(q, c, << >>)
  BY <1>4, <1>7, Zenon DEF Good, OffChain, Fresh
<1>9. Held(m, c) \subseteq DOMAIN q.metas \cup Mined(c)
  BY <1>7, Zenon DEF Held
<1>10. CASE Idle
  <2>1. m = pool.metas /\ c = chain /\ ~Ends(batch, batch')
    BY <1>1, <1>10, Zenon DEF Ends, Idle
  <2>2. \A t \in DOMAIN pool.metas : rank(pool.metas[t].method) <= rank(pool.metas[t].method)
    BY RankSelf, Zenon DEF PoolInv, Good, IsPool
  <2>3. Allowed(pool, chain, batch, q, c, batch')
    BY <1>7, <1>9, <2>1, <2>2, Zenon DEF Allowed
  <2> QED BY <1>2, <1>3, <1>8, <2>3, Zenon DEF Kept, PoolInv
<1>11. CASE ~Idle
  <2>1. m = Head(batch).metas /\ c = Head(batch).chain /\ Ends(batch, batch')
    BY <1>1, <1>3, <1>11, Zenon DEF Ends, Idle
  <2>2. Allowed(pool, chain, batch, q, c, batch')
    BY <1>9, <2>1, Zenon DEF Allowed
  <2> QED BY <1>2, <1>3, <1>8, <2>2, Zenon DEF Kept, PoolInv
<1> QED BY <1>10, <1>11, Zenon

\* A batch begins with what there is.
LEMMA OpenBatchKeeps ==
  ASSUME PoolInv, OpenBatch
  PROVE  Kept
<1>1. PICK start : start = [chain |-> chain, metas |-> pool.metas]
  BY Zenon
<1>2. start.chain = chain /\ start.metas = pool.metas
  BY <1>1, Zenon
<1>3. batch = << >> /\ batch' = <<start>> /\ chain' = chain /\ pool' = pool
  BY <1>1, Zenon DEF OpenBatch, Idle
<1>4. Head(<<start>>) = start
  OBVIOUS
<1>5. IsStart(start, pool, chain)
  BY <1>2, Zenon DEF PoolInv, Good, IsStart, IsPool
<1>6. Good(pool, chain, <<start>>)
  BY <1>4, <1>5, Zenon DEF PoolInv, Good
<1>7. \A t \in DOMAIN pool.metas : rank(pool.metas[t].method) <= rank(pool.metas[t].method)
  BY RankSelf, Zenon DEF PoolInv, Good, IsPool
<1>8. Allowed(pool, chain, batch, pool, chain, <<start>>)
  BY <1>3, <1>7, Zenon DEF Allowed, Ends, Held
<1> QED BY <1>3, <1>6, <1>8, Zenon DEF Kept, PoolInv

\* A batch is committed: what was held when it began is held.
LEMMA CloseBatchKeeps ==
  ASSUME PoolInv, CloseBatch
  PROVE  Kept
<1>1. batch # << >> /\ batch' = << >> /\ chain' = chain /\ pool' = pool
  BY Zenon DEF CloseBatch, Idle
<1>2. Good(pool, chain, << >>)
  BY Zenon DEF PoolInv, Good
<1>3. Held(Head(batch).metas, Head(batch).chain) \subseteq Held(pool.metas, chain)
  BY <1>1, Zenon DEF PoolInv, Good, IsStart
<1>4. Held(pool.metas, chain) \subseteq DOMAIN pool.metas \cup Mined(chain)
  BY Zenon DEF Held
<1>5. Allowed(pool, chain, batch, pool, chain, << >>)
  BY <1>1, <1>3, <1>4, Zenon DEF Allowed, Ends
<1> QED BY <1>1, <1>2, <1>5, Zenon DEF Kept, PoolInv

\* The clock, and steps of the rest of the node.
LEMMA SameKeeps ==
  ASSUME PoolInv, chain' = chain, pool' = pool, batch' = batch
  PROVE  Kept
<1>1. \A t \in DOMAIN pool.metas : rank(pool.metas[t].method) <= rank(pool.metas[t].method)
  BY RankSelf, Zenon DEF PoolInv, Good, IsPool
<1>2. Allowed(pool, chain, batch, pool, chain, batch)
  BY <1>1, Zenon DEF Allowed, Ends, Held
<1> QED BY <1>2, Zenon DEF Kept, PoolInv

\* Every step keeps the invariant and is allowed.
LEMMA StepKeeps == PoolInv /\ [Next]_vars => Kept
<1> SUFFICES ASSUME PoolInv, [Next]_vars PROVE Kept
  BY Zenon
<1>1. CASE \E t \in Tx, m \in Methods : ReceiveTx(t, m)
  BY <1>1, ReceiveKeeps, Zenon
<1>2. CASE \E t \in Tx, m \in Methods \ {"none", "block"} : SetRelayed(t, m)
  BY <1>2, SetRelayedKeeps, Zenon
<1>3. CASE \E skip \in Skips : FillTemplate(skip)
  BY <1>3, FillKeeps, Zenon
<1>4. CASE \E b \in Blocks : AddBlock(b) \/ RejectBlock(b) \/ AbortBatch(b)
  BY <1>4, AddBlockKeeps, RejectBlockKeeps, AbortBatchKeeps, Zenon
<1>5. CASE RemoveStuck
  BY <1>5, RemoveStuckKeeps, Zenon
<1>6. CASE OpenBatch
  BY <1>6, OpenBatchKeeps, Zenon
<1>7. CASE CloseBatch
  BY <1>7, CloseBatchKeeps, Zenon
<1>8. CASE PopBlock
  BY <1>8, PopBlockKeeps, Zenon
<1>9. CASE Restart
  BY <1>9, RestartKeeps, Zenon
<1>10. CASE Tick
  BY <1>10, SameKeeps, Zenon DEF Tick
<1>11. CASE UNCHANGED vars
  BY <1>11, SameKeeps, Zenon DEF vars
<1> QED BY <1>1, <1>2, <1>3, <1>4, <1>5, <1>6, <1>7, <1>8, <1>9, <1>10, <1>11, Zenon DEF Next

\* An empty pool and no block above the genesis block.
LEMMA InitGood == Init => PoolInv
<1> SUFFICES ASSUME Init PROVE PoolInv
  BY Zenon
<1>1. chain = << >> /\ pool = NoPool /\ batch = << >>
  BY Zenon DEF Init
<1>2. PICK a : a = [k \in UNION {KeyImages[t] : t \in Tx} |-> {}]
  BY Zenon
<1>3. pool = [metas |-> << >>, spent |-> a, sorted |-> {}, weight |-> 0, timed_out |-> {}, cache |-> << >>]
  BY <1>1, <1>2, Zenon DEF NoPool
<1>4. IsRecord(pool) /\ pool.metas = << >> /\ pool.sorted = {} /\ pool.cache = << >>
  BY <1>3, Fields, Zenon
<1>5. DOMAIN << >> = {} /\ << >> = [t \in DOMAIN << >> |-> << >>[t]] /\ << >> \in Seq(Blocks)
  OBVIOUS
<1>6. IsMetas(<< >>)
  BY <1>5, Zenon DEF IsMetas
<1>7. IsFiniteSet({})
  BY FS_EmptySet, Zenon
<1>8. IsPool(pool)
  BY <1>4, <1>6, <1>7, Zenon DEF IsPool
<1>9. IsChain(chain)
  BY <1>1, <1>5, Zenon DEF IsChain
<1> QED BY <1>1, <1>4, <1>5, <1>8, <1>9, Zenon DEF PoolInv, Good, OffChain, Fresh

\* So the invariant always holds.
LEMMA PoolInvHolds == Spec => []PoolInv
<1>1. PoolInv /\ [Next]_vars => PoolInv'
  BY StepKeeps, Zenon DEF Kept
<1> QED BY InitGood, <1>1, PTL DEF Spec

-----------------------------------------------------------------------------
(* What holds of the pool.                                                   *)

\* In no state, as it is or as a crash would leave it, does the database have a
\* transaction in the pool and in a block of the main chain.
THEOREM NeverInBoth == Spec => []PoolOffChain
<1>1. PoolInv => PoolOffChain
  BY Zenon DEF PoolInv, Good, IsStart, OffChain, PoolOffChain, Idle
<1> QED BY PoolInvHolds, <1>1, PTL

\* A verdict of tx_memory_pool::check_tx_inputs that the pool remembers is the
\* one the chain would give now, blocks added, popped and rolled back included.
THEOREM VerdictsAreFresh == Spec => []CacheFresh
<1>1. PoolInv => CacheFresh
  BY Zenon DEF PoolInv, Good, Fresh, CacheFresh
<1> QED BY PoolInvHolds, <1>1, PTL

\* fill_block_template never puts together what the chain would refuse: no
\* double spend, no transaction with bad inputs and none that is still private.
THEOREM TemplatesAreSound == Spec => []TemplateSound
<1>1. PoolInv => TemplateSound
  <2> SUFFICES ASSUME PoolInv, NEW skip \in Skips
               PROVE  Sound(fill_block_template(pool, chain, skip).txs, pool.metas, chain)
    BY Zenon DEF TemplateSound, Sound
  <2> QED BY TemplateFilled, Zenon DEF PoolInv, Good, Filling
<1> QED BY PoolInvHolds, <1>1, PTL

\* No step but the end of a batch makes a transaction that stays in the pool
\* more private than it was.
THEOREM MethodsOnlyRise == Spec => NeverLessPublic
<1>1. PoolInv /\ [Next]_vars =>
        [\A t \in DOMAIN pool.metas \cap DOMAIN pool'.metas :
            \/ rank(pool.metas[t].method) <= rank(pool'.metas[t].method)
            \/ batch /= << >> /\ batch' = << >>]_vars
  BY StepKeeps, Zenon DEF Kept, Allowed, Ends
<1> QED BY PoolInvHolds, <1>1, PTL DEF Spec, NeverLessPublic

\* A batch of blocks that is over, committed, aborted or cut short by a crash,
\* has lost nothing that the chain held or blocks had brought when it began.
THEOREM BatchesLoseNothing == Spec => BatchKeepsTxs
<1>1. PoolInv /\ [Next]_vars =>
        [(batch /= << >> /\ batch' = << >>) =>
            LET start == Head(batch)
            IN  {t \in DOMAIN start.metas : start.metas[t].method = "block"} \cup Mined(start.chain)
                   \subseteq DOMAIN pool'.metas \cup Mined(chain')]_vars
  BY StepKeeps, Zenon DEF Kept, Allowed, Ends, Held
<1> QED BY PoolInvHolds, <1>1, PTL DEF Spec, BatchKeepsTxs

\* Nothing but old age and the end of a batch takes a transaction that is known
\* from a block out of the pool and the chain: not prune, no refused block and
\* no block that is popped.
THEOREM BlockTxsStay == Spec => BlockTxNotLost
<1>1. PoolInv /\ [Next]_vars =>
        [LET held  == {t \in DOMAIN pool.metas : pool.metas[t].method = "block"} \cup Mined(chain)
             after == DOMAIN pool'.metas \cup Mined(chain')
         IN  \A t \in held \ after :
               t \in pool'.timed_out \/ (batch /= << >> /\ batch' = << >>)]_vars
  BY StepKeeps, Zenon DEF Kept, Allowed, Ends, Held
<1> QED BY PoolInvHolds, <1>1, PTL DEF Spec, BlockTxNotLost
=============================================================================
