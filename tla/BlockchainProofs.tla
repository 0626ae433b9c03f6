-------------------------- MODULE BlockchainProofs --------------------------
(* Proofs about the main chain, for every tree of blocks, every assignment   *)
(* of transactions to them and every sequence of checkpoint releases.        *)
EXTENDS Blockchain, TLAPS, NaturalsInduction, WellFoundedInduction

\* A non-empty set of naturals has a least element, so Min denotes it.
LEMMA MinNat ==
  ASSUME NEW S \in SUBSET Nat, S # {}
  PROVE  Min(S) \in S /\ \A y \in S : Min(S) <= y
<1>1. \E x \in S : \A y \in S : ~(<<y, x>> \in OpToRel(<, Nat))
  BY NatLessThanWellFounded, WFMin
<1>2. \E x \in S : \A y \in S : ~(y < x)
  <2>1. PICK x \in S : \A y \in S : ~(<<y, x>> \in OpToRel(<, Nat))
    BY <1>1
  <2>2. ASSUME NEW y \in S, y < x PROVE FALSE
    <3>1. <<y, x>> \in Nat \X Nat /\ <<y, x>>[1] = y /\ <<y, x>>[2] = x
      BY Zenon
    <3>2. <<y, x>> \in OpToRel(<, Nat)
      BY <3>1, <2>2, Zenon DEF OpToRel
    <3> QED BY <2>1, <3>2
  <2> QED BY <2>2, Zenon
<1>3. \E x \in S : \A y \in S : x <= y
  BY <1>2
<1> QED BY <1>3, Zenon DEF Min

\* A non-empty set of naturals with an upper bound has a greatest element, so
\* Max denotes it.
LEMMA MaxNat ==
  ASSUME NEW n \in Nat, NEW S \in SUBSET (0..n), S # {}
  PROVE  Max(S) \in S /\ \A y \in S : y <= Max(S)
<1>1. PICK D : D = {n - i : i \in S}
  BY Zenon
<1>2. D \in SUBSET Nat /\ D # {}
  <2>1. \A d \in D : d \in Nat
    BY <1>1
  <2>2. PICK i \in S : TRUE
    BY Zenon
  <2>3. n - i \in D
    BY <1>1, <2>2, Zenon
  <2> QED BY <2>1, <2>3, Zenon
<1>3. PICK d \in D : \A y \in D : d <= y
  BY <1>2, MinNat, Zenon
<1>4. PICK i \in S : d = n - i
  BY <1>1, Zenon
<1>5. \A y \in S : y <= i
  BY <1>1, <1>3, <1>4
<1>6. \E x \in S : \A y \in S : x >= y
  BY <1>5, Zenon
<1> QED BY <1>6, Zenon DEF Max

\* Sequences of the same length with the same elements are the same.
LEMMA SeqEqual ==
  ASSUME NEW S, NEW s \in Seq(S), NEW t \in Seq(S), Len(s) = Len(t),
         \A i \in 1..Len(s) : s[i] = t[i]
  PROVE  s = t
OBVIOUS

-----------------------------------------------------------------------------
(* Chains.  Good is what holds of the main chain and of the one on disk.     *)

Linked(c) == c /= << >> => c = Path[Top(c)]

SpendsOnce(c) ==
  \A i, j \in DOMAIN c : \A x \in TxsOf(c[i]), y \in TxsOf(c[j]) :
    Spends[x] \cap Spends[y] /= {} => i = j /\ x = y

Good(c) == c \in Seq(Block) /\ Linked(c) /\ SpendsOnce(c)

\* A prefix of a chain: the sequence that is left when blocks are popped.
LEMMA PrefixType ==
  ASSUME NEW c \in Seq(Block), NEW n \in Int, n <= Len(c)
  PROVE  /\ SubSeq(c, 1, n) \in Seq(Block)
         /\ Len(SubSeq(c, 1, n)) = IF n <= 0 THEN 0 ELSE n
         /\ \A i \in 1..n : SubSeq(c, 1, n)[i] = c[i]
OBVIOUS

\* The path of a block is a chain of blocks that ends in the block, and the
\* paths of its ancestors are the prefixes of its own.
LEMMA PathFacts ==
  ASSUME NEW b \in Block
  PROVE  /\ Path[b] \in Seq(Block) /\ Path[b] /= << >>
         /\ Len(Path[b]) \in Nat \ {0}
         /\ Path[b][Len(Path[b])] = b
         /\ \A i \in 1..Len(Path[b]) :
              Path[b][i] \in Block /\ Path[Path[b][i]] = SubSeq(Path[b], 1, i)
<1>1. Path[b] \in Seq(Block) /\ Path[b] /= << >>
  BY BlockchainAssumption, Zenon
<1>2. Len(Path[b]) \in Nat \ {0} /\ DOMAIN Path[b] = 1..Len(Path[b])
  BY <1>1
<1>3. Path[b][Len(Path[b])] = b
  BY BlockchainAssumption, Zenon
<1>4. ASSUME NEW i \in 1..Len(Path[b])
      PROVE  Path[b][i] \in Block /\ Path[Path[b][i]] = SubSeq(Path[b], 1, i)
  <2>1. i \in DOMAIN Path[b] /\ Path[b][i] \in Block
    BY <1>1, <1>2
  <2>2. Path[Path[b][i]] = SubSeq(Path[b], 1, i)
    BY <2>1, BlockchainAssumption, Zenon
  <2> QED BY <2>1, <2>2, Zenon
<1> QED BY <1>1, <1>2, <1>3, <1>4, Zenon

\* Popping blocks leaves a good chain good.
LEMMA PrefixGood ==
  ASSUME NEW c, Good(c), NEW n \in Int, n <= Len(c)
  PROVE  Good(SubSeq(c, 1, n))
<1>1. PICK d : d = SubSeq(c, 1, n)
  BY Zenon
<1>2. /\ c \in Seq(Block) /\ d \in Seq(Block)
      /\ Len(d) = IF n <= 0 THEN 0 ELSE n
      /\ \A i \in 1..n : d[i] = c[i]
  BY <1>1, PrefixType, Zenon DEF Good
<1>3. Linked(d)
  <2>1. SUFFICES ASSUME d /= << >> PROVE d = Path[Top(d)]
    BY Zenon DEF Linked
  <2>2. n \in 1..Len(c) /\ Len(d) = n /\ Top(d) = c[n]
    BY <1>2, <2>1 DEF Top
  <2>3. c /= << >> /\ Top(c) \in Block /\ c = Path[Top(c)]
    BY <1>2, <2>2 DEF Good, Linked, Top
  <2>4. Path[c[n]] = SubSeq(c, 1, n)
    BY <2>2, <2>3, PathFacts
  <2> QED BY <1>1, <2>2, <2>4, Zenon
<1>4. SpendsOnce(d)
  <2>1. DOMAIN d \subseteq DOMAIN c /\ \A i \in DOMAIN d : d[i] = c[i]
    BY <1>2
  <2> QED BY <2>1, Zenon DEF Good, SpendsOnce
<1> QED BY <1>1, <1>2, <1>3, <1>4, Zenon DEF Good

\* The transactions of a block are transactions.
LEMMA TxsType ==
  ASSUME NEW b \in Block
  PROVE  TxsOf(b) \subseteq Tx
BY BlockchainAssumption DEF TxsOf

\* A block that handle_block_to_main_chain accepts leaves a good chain good.
LEMMA AcceptedGood ==
  ASSUME NEW c, Good(c), NEW b \in Block, NEW p, Accepts(b, c, p)
  PROVE  Good(Append(c, b))
<1>1. PICK d : d = Append(c, b)
  BY Zenon
<1>2. /\ c \in Seq(Block) /\ d \in Seq(Block) /\ Len(d) = Len(c) + 1
      /\ d[Len(d)] = b /\ \A i \in 1..Len(c) : d[i] = c[i]
      /\ DOMAIN d = 1..(Len(c) + 1) /\ Len(c) \in Nat
  BY <1>1 DEF Good
<1>3. Linked(d)
  <2>1. c = SubSeq(Path[b], 1, Len(Path[b]) - 1)
    BY Zenon DEF Accepts, AllButLast
  <2>2. Len(c) = Len(Path[b]) - 1 /\ \A i \in 1..Len(c) : c[i] = Path[b][i]
    BY <2>1, PathFacts, PrefixType
  <2>3. d = Path[b]
    <3>1. Len(d) = Len(Path[b]) /\ d[Len(d)] = Path[b][Len(d)]
      BY <1>2, <2>2, PathFacts
    <3>2. ASSUME NEW i \in 1..Len(d) PROVE d[i] = Path[b][i]
      BY <1>2, <2>2, <3>1
    <3> QED BY <1>2, <3>1, <3>2, PathFacts, SeqEqual
  <2> QED BY <1>2, <2>3, Zenon DEF Linked, Top
<1>4. SpendsOnce(d)
  <2>1. ASSUME NEW i \in DOMAIN c, NEW x \in TxsOf(b), NEW y \in TxsOf(c[i])
        PROVE  Spends[x] \cap Spends[y] = {}
    <3>1. PICK k \in DOMAIN Txs[b] : x = Txs[b][k]
      BY Zenon DEF TxsOf
    <3>2. Spends[x] \cap Spent(c) = {}
      BY <3>1, Zenon DEF Accepts, Problems
    <3>3. Spends[y] \subseteq Spent(c)
      BY Zenon DEF Spent, Mined, Blocks
    <3> QED BY <3>2, <3>3, Zenon
  <2>2. ASSUME NEW x \in TxsOf(b), NEW y \in TxsOf(b), Spends[x] \cap Spends[y] /= {}
        PROVE  x = y
    <3>1. PICK k \in DOMAIN Txs[b] : x = Txs[b][k]
      BY Zenon DEF TxsOf
    <3>2. PICK l \in DOMAIN Txs[b] : y = Txs[b][l]
      BY Zenon DEF TxsOf
    <3> QED BY <2>2, <3>1, <3>2, BlockchainAssumption, Zenon
  <2>3. SUFFICES ASSUME NEW i \in DOMAIN d, NEW j \in DOMAIN d,
                        NEW x \in TxsOf(d[i]), NEW y \in TxsOf(d[j]),
                        Spends[x] \cap Spends[y] /= {}
                 PROVE  i = j /\ x = y
    BY Zenon DEF SpendsOnce
  <2>4. CASE i \in DOMAIN c /\ j \in DOMAIN c
    <3>1. d[i] = c[i] /\ d[j] = c[j]
      BY <1>2, <2>4
    <3> QED BY <2>3, <2>4, <3>1, Zenon DEF Good, SpendsOnce
  <2>5. CASE i \notin DOMAIN c /\ j \notin DOMAIN c
    <3>1. i = Len(d) /\ j = Len(d) /\ d[i] = b /\ d[j] = b
      BY <1>2, <2>5
    <3> QED BY <2>2, <2>3, <3>1, Zenon
  <2>6. CASE i \in DOMAIN c /\ j \notin DOMAIN c
    <3>1. d[i] = c[i] /\ d[j] = b
      BY <1>2, <2>6
    <3>2. Spends[y] \cap Spends[x] = {}
      BY <2>1, <2>6, <3>1, Zenon
    <3> QED BY <2>3, <3>2, Zenon
  <2>7. CASE i \notin DOMAIN c /\ j \in DOMAIN c
    <3>1. d[i] = b /\ d[j] = c[j]
      BY <1>2, <2>7
    <3> QED BY <2>1, <2>3, <2>7, <3>1, Zenon
  <2> QED BY <2>4, <2>5, <2>6, <2>7, Zenon
<1> QED BY <1>1, <1>2, <1>3, <1>4, Zenon DEF Good

-----------------------------------------------------------------------------
(* Alternative chains.                                                       *)

\* The alternative chain of a block is not empty, and its first block builds
\* on the part of the block's path that build_alt_chain looks for in the main
\* chain.
LEMMA AltChainFacts ==
  ASSUME NEW b \in Block
  PROVE  /\ Fork(b) \in 0..(Len(Path[b]) - 1)
         /\ AltChain(b) \in Seq(Block) /\ AltChain(b) /= << >>
         /\ AllButLast(Path[AltChain(b)[1]]) = SubSeq(Path[b], 1, Fork(b))
<1>1. PICK n : n = Len(Path[b]) - 1
  BY Zenon
<1>2. n \in Nat /\ Len(Path[b]) = n + 1
  BY <1>1, PathFacts
<1>3. Fork(b) \in 0..n
  <2>1. PICK S : S = {0} \cup {i \in 1..n : Path[b][i] \notin alt}
    BY Zenon
  <2>2. S \in SUBSET (0..n) /\ S /= {}
    BY <1>2, <2>1
  <2>3. Max(S) \in 0..n
    BY <1>2, <2>2, MaxNat, Zenon
  <2> QED BY <1>1, <2>1, <2>3, Zenon DEF Fork
<1>4. PICK k : k = Fork(b) + 1
  BY Zenon
<1>5. k \in 1..Len(Path[b])
  BY <1>2, <1>3, <1>4
<1>6. AltChain(b) = SubSeq(Path[b], k, Len(Path[b]))
  BY <1>4, Zenon DEF AltChain
<1>7. AltChain(b) \in Seq(Block) /\ AltChain(b) /= << >> /\ AltChain(b)[1] = Path[b][k]
  <2>1. PICK q : q = Path[b]
    BY Zenon
  <2>2. q \in Seq(Block) /\ k \in 1..Len(q)
    BY <1>5, <2>1, PathFacts, Zenon
  <2>3. SubSeq(q, k, Len(q)) \in Seq(Block) /\ Len(SubSeq(q, k, Len(q))) = Len(q) - k + 1
    BY <2>2
  <2>4. SubSeq(q, k, Len(q))[1] = q[k]
    BY <2>2
  <2>5. SubSeq(q, k, Len(q)) /= << >>
    <3>1. Len(q) - k + 1 /= 0
      BY <2>2
    <3>2. Len(<< >>) = 0
      BY Zenon
    <3> QED BY <2>3, <3>1, <3>2, Zenon
  <2> QED BY <1>6, <2>1, <2>3, <2>4, <2>5, Zenon
<1>8. Path[AltChain(b)[1]] = SubSeq(Path[b], 1, k) /\ Len(SubSeq(Path[b], 1, k)) = k
  BY <1>5, <1>7, PathFacts, PrefixType
<1>9. AllButLast(SubSeq(Path[b], 1, k)) = SubSeq(Path[b], 1, k - 1)
  <2>1. PICK q : q = Path[b]
    OBVIOUS
  <2>2. PICK r : r = SubSeq(q, 1, k)
    BY Zenon
  <2>3. /\ q \in Seq(Block) /\ k \in 1..Len(q) /\ r \in Seq(Block) /\ Len(r) = k
        /\ \A i \in 1..k : r[i] = q[i]
    BY <1>5, <2>1, <2>2, PathFacts, PrefixType
  <2>4. /\ SubSeq(r, 1, k - 1) \in Seq(Block) /\ Len(SubSeq(r, 1, k - 1)) = k - 1
        /\ \A i \in 1..(k - 1) : SubSeq(r, 1, k - 1)[i] = r[i]
    BY <2>3, PrefixType
  <2>5. /\ SubSeq(q, 1, k - 1) \in Seq(Block) /\ Len(SubSeq(q, 1, k - 1)) = k - 1
        /\ \A i \in 1..(k - 1) : SubSeq(q, 1, k - 1)[i] = q[i]
    BY <2>3, PrefixType
  <2>6. SubSeq(r, 1, k - 1) = SubSeq(q, 1, k - 1)
    BY <2>3, <2>4, <2>5, SeqEqual
  <2> QED BY <2>1, <2>2, <2>3, <2>6, Zenon DEF AllButLast
<1> QED BY <1>1, <1>3, <1>4, <1>7, <1>8, <1>9

\* Popping a block of a chain that is longer than a prefix of it keeps the
\* prefix a prefix.
LEMMA PopKeepsPrefix ==
  ASSUME NEW c \in Seq(Block), NEW d, IsPrefixOf(d, c), d /= c, d \in Seq(Block)
  PROVE  c /= << >> /\ Top(c) \in Block /\ IsPrefixOf(d, AllButLast(c))
<1>1. Len(d) \in Nat /\ Len(c) \in Nat /\ Len(d) <= Len(c) /\ d = SubSeq(c, 1, Len(d))
  BY DEF IsPrefixOf
<1>2. Len(d) < Len(c)
  <2>1. ASSUME Len(d) = Len(c) PROVE FALSE
    BY <1>1, <2>1, SeqEqual, PrefixType
  <2> QED BY <1>1, <2>1
<1>3. c /= << >> /\ Top(c) \in Block
  BY <1>1, <1>2 DEF Top
<1>4. PICK e : e = SubSeq(c, 1, Len(c) - 1)
  BY Zenon
<1>5. /\ e \in Seq(Block) /\ Len(e) = Len(c) - 1
      /\ \A i \in 1..Len(e) : e[i] = c[i]
  <2>1. PICK n \in Int : n = Len(c) - 1
    BY <1>1
  <2>2. n <= Len(c) /\ n >= 0 /\ e = SubSeq(c, 1, n)
    BY <1>1, <1>2, <1>4, <2>1
  <2> QED BY <2>1, <2>2, PrefixType
<1>6. /\ SubSeq(e, 1, Len(d)) \in Seq(Block) /\ Len(SubSeq(e, 1, Len(d))) = Len(d)
      /\ \A i \in 1..Len(d) : SubSeq(e, 1, Len(d))[i] = e[i]
  BY <1>1, <1>2, <1>5, PrefixType
<1>7. \A i \in 1..Len(d) : d[i] = c[i]
  BY <1>1, PrefixType
<1>8. SubSeq(e, 1, Len(d)) = d
  BY <1>1, <1>2, <1>5, <1>6, <1>7, SeqEqual
<1> QED BY <1>2, <1>1, <1>3, <1>4, <1>5, <1>8 DEF IsPrefixOf, AllButLast

\* Enforcing checkpoints leaves a prefix of the chain.
LEMMA EnforcedPrefix ==
  ASSUME NEW c \in Seq(Block), NEW pts \in Releases
  PROVE  \E n \in Int : n <= Len(c) /\ enforced(c, pts) = SubSeq(c, 1, n)
<1>1. CASE RolledBackFor(c, pts) = {}
  <2>1. SubSeq(c, 1, Len(c)) = c
    BY PrefixType, SeqEqual
  <2>2. Len(c) \in Int /\ Len(c) <= Len(c)
    OBVIOUS
  <2>3. enforced(c, pts) = c
    BY <1>1, Zenon DEF enforced
  <2> QED BY <2>1, <2>2, <2>3, Zenon
<1>2. CASE RolledBackFor(c, pts) /= {}
  <2>1. RolledBackFor(c, pts) \in SUBSET Nat
    BY BlockchainAssumption, Zenon DEF RolledBackFor, Failing
  <2>2. PICK h \in RolledBackFor(c, pts) : h = Min(RolledBackFor(c, pts))
    BY <1>2, <2>1, MinNat, Zenon
  <2>3. rollback_height(h) \in Int
    BY <2>1, <2>2, BlockchainAssumption DEF rollback_height
  <2>4. rollback_height(h) <= Len(c) + 1
    BY <2>2, Zenon DEF RolledBackFor
  <2>5. rollback_height(h) - 1 \in Int /\ rollback_height(h) - 1 <= Len(c)
    BY <2>3, <2>4
  <2> QED BY <1>2, <2>2, <2>5, Zenon DEF enforced
<1> QED BY <1>1, <1>2, Zenon

\* The transactions of popped blocks are transactions.
LEMMA PoppedType ==
  ASSUME NEW c \in Seq(Block), NEW d \in Seq(Block)
  PROVE  Popped(c, d) \subseteq Tx
<1>1. SUFFICES ASSUME NEW i \in (Len(d) + 1)..Len(c) PROVE TxsOf(c[i]) \subseteq Tx
  BY Zenon DEF Popped
<1>2. i \in 1..Len(c)
  OBVIOUS
<1> QED BY <1>2, TxsType

-----------------------------------------------------------------------------
(* The inductive invariant.  What is on disk is good because a crash brings  *)
(* it back, and a switch has the block it splits at below it in the main     *)
(* chain, so that it pops blocks only while there are blocks to pop.         *)

DiskGood == disk /= << >> => Good(disk[1].main)

Splits ==
  job.step \in {"disconnect", "connect", "rollback"} => IsPrefixOf(SplitAt, main)

IInv == TypeOK /\ Good(main) /\ DiskGood /\ Splits

\* The block a switch starts with, and the chain it splits at.
LEMMA SplitType ==
  ASSUME TypeOK, ~ Idle
  PROVE  SplitAt \in Seq(Block)
<1>1. job.chain \in Seq(Block) /\ job.chain /= << >>
  BY Zenon DEF TypeOK, Job
<1>2. job.chain[1] \in Block
  BY <1>1
<1>3. Len(Path[job.chain[1]]) - 1 \in Int /\ Len(Path[job.chain[1]]) - 1 <= Len(Path[job.chain[1]])
  BY <1>2, PathFacts
<1> QED BY <1>2, <1>3, PathFacts, PrefixType, Zenon DEF SplitAt, AllButLast

\* pop_block_from_blockchain keeps the chain good and the pool a set of
\* transactions.
LEMMA PopStep ==
  ASSUME TypeOK, Good(main), main /= << >>, pop_block_from_blockchain
  PROVE  Good(main') /\ pool' \subseteq Tx
<1>1. main \in Seq(Block) /\ Len(main) \in Nat /\ Top(main) \in Block
  BY DEF TypeOK, Top
<1>2. Len(main) - 1 \in Int /\ Len(main) - 1 <= Len(main)
  BY <1>1
<1>3. Good(AllButLast(main))
  BY <1>2, PrefixGood, Zenon DEF AllButLast
<1>4. pool \subseteq Tx
  BY Zenon DEF TypeOK
<1> QED BY <1>1, <1>3, <1>4, TxsType, ZenonT(60) DEF pop_block_from_blockchain

\* So does pushing a block that is accepted.
LEMMA PushStep ==
  ASSUME TypeOK, Good(main), NEW b \in Block, NEW p \in SUBSET Tx,
         Accepts(b, main, p), PushBlock(b, p)
  PROVE  Good(main') /\ pool' \subseteq Tx
BY AcceptedGood, Zenon DEF PushBlock

\* The initial states satisfy the invariant.
LEMMA InitIInv == Init => IInv
<1>1. SUFFICES ASSUME Init PROVE IInv
  BY Zenon
<1>2. NoJob \in Job /\ NoJob.step = "idle" /\ NoJob.chain = << >> /\ NoJob.next = 1
  BY DEF NoJob, Job
<1>3. TypeOK
  <2>1. job \in Job /\ Idle /\ job.next \in 1..(Len(job.chain) + 1)
    BY <1>1, <1>2 DEF Init, Idle
  <2>2. main \in Seq(Block) /\ disk = << >>
    BY <1>1 DEF Init
  <2>3. alt \subseteq Block /\ invalid \subseteq Block /\ pool \subseteq Tx
    BY <1>1, Zenon DEF Init
  <2>4. points \in Releases /\ updating \in BOOLEAN
    BY <1>1, Zenon DEF Init
  <2> QED BY <2>1, <2>2, <2>3, <2>4, ZenonT(60) DEF TypeOK
<1>4. Good(main)
  BY <1>1 DEF Init, Good, Linked, SpendsOnce
<1> QED BY <1>1, <1>2, <1>3, <1>4, Zenon DEF Init, IInv, DiskGood, Splits

\* A block that arrives, to the main chain or as an alternative, keeps it.
LEMMA ArrivalIInv ==
  ASSUME IInv, NEW b \in Block, AddToMain(b) \/ AddAlternative(b)
  PROVE  IInv'
<1>1. TypeOK /\ Good(main) /\ DiskGood /\ Splits /\ Idle /\ disk /= << >>
  BY Zenon DEF IInv, AddToMain, AddAlternative, Arrives
<1>2. Arrived(b) \in SUBSET Tx
  BY <1>1, TxsType, Zenon DEF Arrived, TypeOK
<1>3. disk' = disk /\ points' = points /\ updating' = updating
  BY Zenon DEF AddToMain, AddAlternative
<1>4. CASE AddToMain(b)
  <2>1. Good(main') /\ pool' \subseteq Tx /\ invalid' \subseteq Block
    <3>1. CASE Accepts(b, main, Arrived(b))
      <4>1. PushBlock(b, Arrived(b)) /\ invalid' = invalid
        BY <1>4, <3>1, Zenon DEF AddToMain
      <4> QED BY <1>1, <1>2, <3>1, <4>1, PushStep, Zenon DEF TypeOK
    <3>2. CASE ~ Accepts(b, main, Arrived(b))
      BY <1>1, <1>2, <1>4, <3>2, Zenon DEF AddToMain, TypeOK
    <3> QED BY <3>1, <3>2, Zenon
  <2>2. alt' = alt /\ job' = job
    BY <1>4, Zenon DEF AddToMain
  <2>3. TypeOK'
    BY <1>1, <1>3, <2>1, <2>2, Zenon DEF TypeOK, Idle, Good
  <2>4. DiskGood' /\ Splits'
    BY <1>1, <1>3, <2>2, Zenon DEF DiskGood, Splits, Idle
  <2> QED BY <2>1, <2>3, <2>4, Zenon DEF IInv
<1>5. CASE AddAlternative(b)
  <2>1. main' = main /\ invalid' = invalid /\ pool' = Arrived(b)
    BY <1>5, Zenon DEF AddAlternative
  <2>2. CASE job' = job /\ alt' \subseteq Block
    <3>1. TypeOK'
      BY <1>1, <1>2, <1>3, <2>1, <2>2, ZenonT(60) DEF TypeOK, Idle
    <3>2. DiskGood' /\ Splits'
      BY <1>1, <1>3, <2>1, <2>2, Zenon DEF DiskGood, Splits, Idle
    <3> QED BY <1>1, <2>1, <3>1, <3>2, Zenon DEF IInv
  <2>3. CASE job' /= job
    <3>1. /\ AltAccepts(b) /\ alt' = alt \cup {b}
          /\ job' = [step |-> "disconnect", chain |-> AltChain(b),
                     next |-> 1, old |-> << >>,
                     discard |-> is_a_checkpoint(b), before |-> main]
      BY <1>5, <2>3, Zenon DEF AddAlternative
    <3>2. is_a_checkpoint(b) \in BOOLEAN
      BY DEF is_a_checkpoint
    <3>3. AltChain(b) \in Seq(Block) /\ AltChain(b) /= << >>
      BY AltChainFacts, ZenonT(60)
    <3>4. job' \in Job /\ job'.step = "disconnect" /\ job'.chain = AltChain(b) /\ job'.next = 1
      BY <1>1, <3>1, <3>2, <3>3 DEF Job, TypeOK
    <3>5. TypeOK'
      BY <1>1, <1>2, <1>3, <2>1, <3>1, <3>3, <3>4 DEF TypeOK, Idle
    <3>6. Splits'
      <4>1. IsPrefixOf(SubSeq(Path[b], 1, Fork(b)), main)
        BY <3>1, Zenon DEF AltAccepts, build_alt_chain, Connects
      <4>2. AllButLast(Path[job'.chain[1]]) = SubSeq(Path[b], 1, Fork(b))
        BY <3>4, AltChainFacts, Zenon
      <4>3. SplitAt' = SubSeq(Path[b], 1, Fork(b))
        BY <4>2, Zenon DEF SplitAt
      <4> QED BY <2>1, <4>1, <4>3, Zenon DEF Splits
    <3>7. DiskGood'
      BY <1>1, <1>3, Zenon DEF DiskGood
    <3> QED BY <1>1, <2>1, <3>5, <3>6, <3>7, ZenonT(60) DEF IInv
  <2>4. job' = job => alt' \subseteq Block
    BY <1>1, <1>5, Zenon DEF AddAlternative, TypeOK
  <2> QED BY <2>2, <2>3, <2>4, Zenon
<1> QED BY <1>4, <1>5, Zenon

\* The steps of a switch that move between its loops or touch the tables only.
LEMMA TablesIInv ==
  ASSUME IInv, Connected \/ Blame \/ Keep \/ Finish
  PROVE  IInv'
<1>1. TypeOK /\ Good(main) /\ DiskGood /\ Splits
  BY Zenon DEF IInv
<1>2. main' = main /\ pool' = pool /\ points' = points /\ disk' = disk /\ updating' = updating
  BY Zenon DEF Connected, Blame, Keep, Finish
<1>3. Good(main') /\ DiskGood'
  BY <1>1, <1>2, Zenon DEF DiskGood
<1>4. NoJob \in Job /\ NoJob.step = "idle" /\ NoJob.chain = << >> /\ NoJob.next = 1
  BY DEF NoJob, Job
<1>5. job.chain \in Seq(Block) /\ job.old \in Seq(Block) /\ job.next \in 1..(Len(job.chain) + 1)
  BY <1>1, Zenon DEF TypeOK, Job
<1>6. CASE Connected
  <2>1. job' = [job EXCEPT !.step = "keep"] /\ alt' = alt /\ invalid' = invalid /\ ~ Idle
    BY <1>6, Zenon DEF Connected, Go, Idle
  <2>2. job' \in Job /\ job'.step = "keep" /\ job'.chain = job.chain /\ job'.next = job.next
    BY <1>1, <2>1, Zenon DEF TypeOK, Job
  <2>3. TypeOK'
    BY <1>1, <1>2, <2>1, <2>2, Zenon DEF TypeOK, Idle
  <2>4. Splits'
    BY <2>2, Zenon DEF Splits
  <2> QED BY <1>3, <2>3, <2>4, Zenon DEF IInv
<1>7. CASE Blame \/ Finish
  <2>1. job' = NoJob
    BY <1>7, Zenon DEF Blame, Finish
  <2>2. alt' \subseteq Block /\ invalid' \subseteq Block
    <3>1. CASE Blame
      <4>1. \A i \in job.next..Len(job.chain) : job.chain[i] \in Block
        BY <1>5
      <4> QED BY <1>1, <3>1, <4>1, Zenon DEF Blame, TypeOK
    <3>2. CASE Finish
      BY <1>1, <3>2, Zenon DEF Finish, TypeOK
    <3> QED BY <1>7, <3>1, <3>2, Zenon
  <2>3. job' \in Job /\ Idle' /\ job'.next \in 1..(Len(job'.chain) + 1)
    BY <1>4, <2>1 DEF Idle
  <2>4. TypeOK'
    BY <1>1, <1>2, <2>2, <2>3, Zenon DEF TypeOK
  <2>5. Splits'
    BY <1>4, <2>1, Zenon DEF Splits
  <2> QED BY <1>3, <2>4, <2>5 DEF IInv
<1>8. CASE Keep
  <2>1. /\ job.step = "keep" /\ job.old /= << >>
        /\ job' = [job EXCEPT !.old = Tail(job.old)] /\ invalid' = invalid
    BY <1>8, Zenon DEF Keep
  <2>2. Tail(job.old) \in Seq(Block) /\ Head(job.old) \in Block
    BY <1>5, <2>1
  <2>3. job' \in Job /\ job'.step = "keep" /\ job'.chain = job.chain /\ job'.next = job.next
    BY <1>1, <2>1, <2>2, Zenon DEF TypeOK, Job
  <2>4. alt' \subseteq Block
    BY <1>1, <1>8, <2>2, Zenon DEF Keep, TypeOK
  <2>5. TypeOK'
    BY <1>1, <1>2, <2>1, <2>3, <2>4, Zenon DEF TypeOK, Idle
  <2>6. Splits'
    BY <2>3 DEF Splits
  <2> QED BY <1>3, <2>5, <2>6 DEF IInv
<1> QED BY <1>6, <1>7, <1>8, Zenon

\* Pushing a block keeps a prefix a prefix.
LEMMA PushKeepsPrefix ==
  ASSUME NEW c \in Seq(Block), NEW d \in Seq(Block), IsPrefixOf(d, c), NEW b \in Block
  PROVE  IsPrefixOf(d, Append(c, b))
<1>1. PICK e : e = Append(c, b)
  BY Zenon
<1>2. /\ e \in Seq(Block) /\ Len(e) = Len(c) + 1 /\ Len(d) \in Nat /\ Len(d) <= Len(c)
      /\ \A i \in 1..Len(c) : e[i] = c[i]
  BY <1>1 DEF IsPrefixOf
<1>3. \A i \in 1..Len(d) : d[i] = c[i]
  BY <1>2, PrefixType DEF IsPrefixOf
<1>4. /\ SubSeq(e, 1, Len(d)) \in Seq(Block) /\ Len(SubSeq(e, 1, Len(d))) = Len(d)
      /\ \A i \in 1..Len(d) : SubSeq(e, 1, Len(d))[i] = e[i]
  BY <1>2, PrefixType
<1>5. SubSeq(e, 1, Len(d)) = d
  BY <1>2, <1>3, <1>4, SeqEqual
<1> QED BY <1>1, <1>2, <1>5 DEF IsPrefixOf

\* The steps of a switch that pop or push a block.
LEMMA ChainIInv ==
  ASSUME IInv, Disconnect \/ Connect \/ Rollback \/ Restore
  PROVE  IInv'
<1>1. TypeOK /\ Good(main) /\ DiskGood /\ Splits
  BY DEF IInv
<1>2. alt' = alt /\ points' = points /\ disk' = disk /\ updating' = updating
  BY Zenon DEF Disconnect, Connect, Rollback, Restore
<1>3. DiskGood'
  BY <1>1, <1>2, Zenon DEF DiskGood
<1>4. /\ main \in Seq(Block) /\ pool \in SUBSET Tx /\ job \in Job
      /\ job.chain \in Seq(Block) /\ job.old \in Seq(Block)
      /\ job.next \in 1..(Len(job.chain) + 1)
  BY <1>1, Zenon DEF TypeOK, Job
<1>5. ~ Idle /\ SplitAt \in Seq(Block)
  <2>1. ~ Idle
    BY Zenon DEF Disconnect, Connect, Rollback, Restore, Idle
  <2> QED BY <1>1, <2>1, SplitType, Zenon
\* What is left to show of the type invariant when the job goes on.
<1>6. ASSUME job' \in Job, job'.chain = job.chain,
             job'.next \in 1..(Len(job.chain) + 1),
             Good(main'), pool' \subseteq Tx, invalid' \subseteq Block
      PROVE  TypeOK'
  BY <1>1, <1>2, <1>5, <1>6, Zenon DEF TypeOK, Good, Idle
<1>7. ASSUME NEW step \in {"connect", "rollback", "restore", "blame"},
             job' = [job EXCEPT !.step = step]
      PROVE  job' \in Job /\ job'.chain = job.chain /\ job'.next = job.next /\ job'.step = step
  BY <1>4, <1>7, Zenon DEF Job
<1>8. ASSUME job'.chain = job.chain
      PROVE  SplitAt' = SplitAt
  BY <1>8, Zenon DEF SplitAt
\* Popping while the main chain is longer than the split.
<1>9. ASSUME job.step \in {"disconnect", "rollback"}, main /= SplitAt, pop_block_from_blockchain
      PROVE  /\ Good(main') /\ pool' \subseteq Tx /\ IsPrefixOf(SplitAt, main')
             /\ Top(main) \in Block
  <2>1. IsPrefixOf(SplitAt, main)
    BY <1>1, <1>9, Zenon DEF Splits
  <2>2. main /= << >> /\ Top(main) \in Block /\ IsPrefixOf(SplitAt, AllButLast(main))
    BY <1>4, <1>5, <1>9, <2>1, PopKeepsPrefix, ZenonT(60)
  <2> QED BY <1>1, <1>9, <2>2, PopStep, Zenon DEF pop_block_from_blockchain
<1>10. CASE Disconnect
  <2>1. job.step = "disconnect" /\ invalid' = invalid /\ invalid' \subseteq Block
    BY <1>1, <1>10, Zenon DEF Disconnect, TypeOK
  <2>2. CASE main /= SplitAt
    <3>1. pop_block_from_blockchain /\ job' = [job EXCEPT !.old = <<Top(main)>> \o job.old]
      BY <1>10, <2>2, Zenon DEF Disconnect
    <3>2. /\ Good(main') /\ pool' \subseteq Tx /\ IsPrefixOf(SplitAt, main')
          /\ Top(main) \in Block
      BY <1>9, <2>1, <2>2, <3>1, Zenon
    <3>3. <<Top(main)>> \o job.old \in Seq(Block)
      BY <1>4, <3>2
    <3>4. job' \in Job /\ job'.chain = job.chain /\ job'.next = job.next
      BY <1>4, <3>1, <3>3, Zenon DEF Job
    <3>5. TypeOK'
      BY <1>4, <1>6, <2>1, <3>2, <3>4, Zenon
    <3>6. Splits'
      BY <1>8, <3>2, <3>4, Zenon DEF Splits
    <3> QED BY <1>3, <3>2, <3>5, <3>6, Zenon DEF IInv
  <2>3. CASE main = SplitAt
    <3>1. job' = [job EXCEPT !.step = "connect"] /\ main' = main /\ pool' = pool
      BY <1>10, <2>3, Zenon DEF Disconnect, Go
    <3>2. TypeOK'
      BY <1>1, <1>4, <1>6, <1>7, <2>1, <3>1, Zenon
    <3>3. Splits'
      BY <1>1, <1>7, <1>8, <2>1, <3>1, Zenon DEF Splits
    <3> QED BY <1>1, <1>3, <3>1, <3>2, <3>3, ZenonT(60) DEF IInv
  <2> QED BY <2>2, <2>3, Zenon
<1>11. CASE Rollback
  <2>1. job.step = "rollback" /\ invalid' = invalid /\ invalid' \subseteq Block
    BY <1>1, <1>11, Zenon DEF Rollback, TypeOK
  <2>2. CASE main /= SplitAt
    <3>1. pop_block_from_blockchain /\ job' = job
      BY <1>11, <2>2, Zenon DEF Rollback
    <3>2. Good(main') /\ pool' \subseteq Tx /\ IsPrefixOf(SplitAt, main')
      BY <1>9, <2>1, <2>2, <3>1, Zenon
    <3>3. TypeOK'
      BY <1>4, <1>6, <2>1, <3>1, <3>2, Zenon
    <3>4. Splits'
      BY <1>8, <3>1, <3>2, Zenon DEF Splits
    <3> QED BY <1>3, <3>2, <3>3, <3>4, Zenon DEF IInv
  <2>3. CASE main = SplitAt
    <3>1. job' = [job EXCEPT !.step = "restore"] /\ main' = main /\ pool' = pool
      BY <1>11, <2>3, Zenon DEF Rollback, Go
    <3>2. TypeOK'
      BY <1>1, <1>4, <1>6, <1>7, <2>1, <3>1
    <3>3. Splits'
      BY <1>7, <3>1, Zenon DEF Splits
    <3> QED BY <1>1, <1>3, <3>1, <3>2, <3>3, Zenon DEF IInv
  <2> QED BY <2>2, <2>3
<1>12. CASE Connect
  <2>1. job.step = "connect" /\ job.next \in 1..Len(job.chain)
    BY <1>4, <1>12 DEF Connect
  <2>2. PICK b \in Block : b = job.chain[job.next]
    BY <1>4, <2>1
  <2>3. CASE Accepts(b, main, pool)
    <3>1. PushBlock(b, pool) /\ job' = [job EXCEPT !.next = job.next + 1] /\ invalid' = invalid
      BY <1>12, <2>2, <2>3, Zenon DEF Connect
    <3>2. Good(main') /\ pool' \subseteq Tx /\ main' = Append(main, b)
      BY <1>1, <1>4, <2>2, <2>3, <3>1, PushStep, Zenon DEF PushBlock
    <3>3. job.next + 1 \in 1..(Len(job.chain) + 1) /\ job.next + 1 \in Nat
      BY <1>4, <2>1
    <3>4. job' \in Job /\ job'.chain = job.chain /\ job'.next = job.next + 1
      BY <1>4, <3>1, <3>3, Zenon DEF Job
    <3>5. TypeOK'
      <4>1. invalid' \subseteq Block
        BY <1>1, <3>1, Zenon DEF TypeOK
      <4> QED BY <1>6, <3>2, <3>3, <3>4, <4>1, Zenon
    <3>6. IsPrefixOf(SplitAt, main')
      BY <1>1, <1>4, <1>5, <2>1, <2>2, <3>2, PushKeepsPrefix, Zenon DEF Splits
    <3>7. Splits'
      BY <1>8, <3>4, <3>6, Zenon DEF Splits
    <3> QED BY <1>3, <3>2, <3>5, <3>7, Zenon DEF IInv
  <2>4. CASE ~ Accepts(b, main, pool)
    <3>1. /\ job' = [job EXCEPT !.step = "rollback"] /\ main' = main /\ pool' = pool
          /\ invalid' \subseteq invalid \cup {b}
      BY <1>12, <2>2, <2>4, Zenon DEF Connect, Go
    <3>2. invalid' \subseteq Block
      BY <1>1, <2>2, <3>1, Zenon DEF TypeOK
    <3>3. TypeOK'
      BY <1>1, <1>4, <1>6, <1>7, <3>1, <3>2, Zenon
    <3>4. Splits'
      BY <1>1, <1>7, <1>8, <2>1, <3>1, Zenon DEF Splits
    <3> QED BY <1>1, <1>3, <3>1, <3>3, <3>4, Zenon DEF IInv
  <2> QED BY <2>3, <2>4, Zenon
<1>13. CASE Restore
  <2>1. job.step = "restore" /\ invalid' \subseteq Block
    <3>1. invalid \subseteq Block
      BY <1>1, Zenon DEF TypeOK
    <3>2. job.old /= << >> => Head(job.old) \in Block
      BY <1>4
    <3> QED BY <1>13, <3>1, <3>2, Zenon DEF Restore
  <2>2. CASE job.old /= << >> /\ Accepts(Head(job.old), main, pool)
    <3>1. PICK b \in Block : b = Head(job.old)
      BY <1>4, <2>2
    <3>2. PushBlock(b, pool) /\ job' = [job EXCEPT !.old = Tail(job.old)]
      BY <1>13, <2>2, <3>1, Zenon DEF Restore
    <3>3. Good(main') /\ pool' \subseteq Tx
      BY <1>1, <1>4, <2>2, <3>1, <3>2, PushStep, Zenon
    <3>4. Tail(job.old) \in Seq(Block)
      BY <1>4, <2>2
    <3>5. job' \in Job /\ job'.chain = job.chain /\ job'.next = job.next /\ job'.step = job.step
      BY <1>4, <3>2, <3>4, Zenon DEF Job
    <3>6. TypeOK'
      BY <1>4, <1>6, <2>1, <3>3, <3>5, Zenon
    <3>7. Splits'
      BY <2>1, <3>5, Zenon DEF Splits
    <3> QED BY <1>3, <3>3, <3>6, <3>7, Zenon DEF IInv
  <2>3. CASE ~ (job.old /= << >> /\ Accepts(Head(job.old), main, pool))
    <3>1. job' = [job EXCEPT !.step = "blame"] /\ main' = main /\ pool' = pool
      BY <1>13, <2>3, Zenon DEF Restore, Go
    <3>2. TypeOK'
      BY <1>1, <1>4, <1>6, <1>7, <2>1, <3>1, Zenon
    <3>3. Splits'
      BY <1>7, <3>1, Zenon DEF Splits
    <3> QED BY <1>1, <1>3, <3>1, <3>2, <3>3, Zenon DEF IInv
  <2> QED BY <2>2, <2>3, Zenon
<1> QED BY <1>10, <1>11, <1>12, <1>13, Zenon

\* The batch, the pool, pop_blocks and the invalid blocks.
LEMMA IdleIInv ==
  ASSUME IInv,
         \/ OpenBatch \/ CloseBatch \/ flush_invalid_blocks
         \/ \E x \in Tx : LoseTx(x)
         \/ \E n \in 1..Len(main) : pop_blocks(n)
  PROVE  IInv'
<1>1. TypeOK /\ Good(main) /\ DiskGood /\ Splits
  BY Zenon DEF IInv
<1>2. CASE OpenBatch
  <2>1. /\ disk' = <<[main |-> main, alt |-> alt, pool |-> pool]>>
        /\ main' = main /\ alt' = alt /\ pool' = pool /\ invalid' = invalid
        /\ points' = points /\ job' = job /\ updating' = updating
    BY <1>2, Zenon DEF OpenBatch
  <2>2. disk' /= << >> /\ disk'[1].main = main /\ disk'[1].alt = alt /\ disk'[1].pool = pool
    BY <2>1, Zenon
  <2>3. TypeOK'
    BY <1>1, <2>1, <2>2, ZenonT(60) DEF TypeOK, Idle
  <2>4. DiskGood' /\ Splits'
    BY <1>1, <2>1, <2>2, Zenon DEF DiskGood, Splits, SplitAt
  <2> QED BY <1>1, <2>1, <2>3, <2>4, Zenon DEF IInv
<1>3. CASE CloseBatch
  <2>1. /\ disk' = << >> /\ Idle /\ main' = main /\ alt' = alt /\ pool' = pool
        /\ invalid' = invalid /\ points' = points /\ job' = job /\ updating' = updating
    BY <1>3, Zenon DEF CloseBatch
  <2>2. TypeOK'
    BY <1>1, <2>1, Zenon DEF TypeOK, Idle
  <2>3. DiskGood' /\ Splits'
    BY <1>1, <2>1, Zenon DEF DiskGood, Splits, Idle
  <2> QED BY <1>1, <2>1, <2>2, <2>3, Zenon DEF IInv
<1>4. CASE flush_invalid_blocks \/ \E x \in Tx : LoseTx(x)
  <2>1. /\ main' = main /\ alt' = alt /\ points' = points /\ job' = job /\ disk' = disk
        /\ updating' = updating /\ pool' \subseteq pool /\ invalid' \subseteq invalid
    BY <1>4, Zenon DEF flush_invalid_blocks, LoseTx
  <2>2. TypeOK'
    BY <1>1, <2>1, Zenon DEF TypeOK, Idle
  <2>3. DiskGood' /\ Splits'
    BY <1>1, <2>1, Zenon DEF DiskGood, Splits, SplitAt
  <2> QED BY <1>1, <2>1, <2>2, <2>3, Zenon DEF IInv
<1>5. ASSUME NEW n \in 1..Len(main), pop_blocks(n) PROVE IInv'
  <2>1. /\ disk = << >> /\ disk' = disk /\ alt' = alt /\ invalid' = invalid /\ points' = points
        /\ job' = job /\ updating' = updating
        /\ main' = SubSeq(main, 1, Len(main) - n)
        /\ pool' = pool \cup Popped(main, main')
    BY <1>5, Zenon DEF pop_blocks
  <2>2. Len(main) - n \in Int /\ Len(main) - n <= Len(main) /\ main \in Seq(Block)
    BY <1>1 DEF TypeOK
  <2>3. Good(main')
    BY <1>1, <2>1, <2>2, PrefixGood, Zenon
  <2>4. pool' \subseteq Tx
    BY <1>1, <2>1, <2>2, <2>3, PoppedType, ZenonT(60) DEF Good, TypeOK
  <2>5. TypeOK' /\ Idle
    BY <1>1, <2>1, <2>3, <2>4, ZenonT(60) DEF TypeOK, Good, Idle
  <2>6. DiskGood' /\ Splits'
    BY <2>1, <2>5, Zenon DEF DiskGood, Splits, Idle
  <2> QED BY <2>3, <2>5, <2>6, Zenon DEF IInv
<1> QED BY <1>2, <1>3, <1>4, <1>5, Zenon

\* Checkpoints, loaded while the program runs or when it starts.
LEMMA PointsIInv ==
  ASSUME IInv, NEW pts \in Releases, NEW keep \in BOOLEAN,
         UpdateCheckpoints(pts) \/ Restart(pts, keep)
  PROVE  IInv'
<1>1. TypeOK /\ Good(main) /\ DiskGood /\ Splits
  BY Zenon DEF IInv
<1>2. ASSUME NEW c, Good(c) PROVE Good(enforced(c, pts)) /\ Popped(c, enforced(c, pts)) \subseteq Tx
  <2>1. c \in Seq(Block)
    BY <1>2, Zenon DEF Good
  <2>2. PICK n \in Int : n <= Len(c) /\ enforced(c, pts) = SubSeq(c, 1, n)
    BY <2>1, EnforcedPrefix, Zenon
  <2>3. Good(enforced(c, pts))
    BY <1>2, <2>2, PrefixGood, Zenon
  <2> QED BY <2>1, <2>3, PoppedType, Zenon DEF Good
<1>3. CASE UpdateCheckpoints(pts)
  <2>1. /\ Idle /\ disk' = disk /\ alt' = alt /\ invalid' = invalid /\ job' = job
        /\ points' = pts /\ main' = enforced(main, pts)
        /\ pool' = pool \cup Popped(main, enforced(main, pts))
        /\ updating' = throws(main, pts)
    BY <1>3, Zenon DEF UpdateCheckpoints
  <2>2. Good(main') /\ pool' \subseteq Tx
    BY <1>1, <1>2, <2>1, Zenon DEF TypeOK
  <2>3. updating' \in BOOLEAN
    BY <2>1, Zenon DEF throws
  <2>4. TypeOK'
    BY <1>1, <2>1, <2>2, <2>3, Zenon DEF TypeOK, Good, Idle
  <2>5. DiskGood' /\ Splits'
    BY <1>1, <2>1, Zenon DEF DiskGood, Splits, Idle
  <2> QED BY <2>2, <2>4, <2>5, Zenon DEF IInv
<1>4. CASE Restart(pts, keep)
  <2>1. PICK saved : saved = IF disk = << >> THEN [main |-> main, alt |-> alt, pool |-> pool]
                             ELSE disk[1]
    BY Zenon
  <2>2. /\ points' = pts /\ main' = enforced(saved.main, pts)
        /\ pool' = saved.pool \cup Popped(saved.main, enforced(saved.main, pts))
        /\ alt' = (IF keep THEN saved.alt ELSE {})
        /\ invalid' = {} /\ job' = NoJob /\ disk' = << >> /\ updating' = FALSE
    BY <1>4, <2>1, Zenon DEF Restart
  <2>3. Good(saved.main) /\ saved.alt \subseteq Block /\ saved.pool \subseteq Tx
    BY <1>1, <2>1, Zenon DEF TypeOK, DiskGood
  <2>4. Good(main') /\ pool' \subseteq Tx /\ alt' \subseteq Block
    BY <1>2, <2>2, <2>3, ZenonT(60)
  <2>5. NoJob \in Job /\ NoJob.step = "idle" /\ NoJob.chain = << >> /\ NoJob.next = 1
    BY DEF NoJob, Job
  <2>6. job' \in Job /\ Idle' /\ job'.next \in 1..(Len(job'.chain) + 1)
    BY <2>2, <2>5 DEF Idle
  <2>7. TypeOK'
    BY <2>2, <2>4, <2>6, ZenonT(60) DEF TypeOK, Good
  <2>8. DiskGood' /\ Splits'
    BY <2>2, <2>5, Zenon DEF DiskGood, Splits
  <2> QED BY <2>4, <2>7, <2>8, Zenon DEF IInv
<1> QED BY <1>3, <1>4, Zenon

\* Every step keeps the invariant.
LEMMA NextIInv == IInv /\ [Next]_vars => IInv'
<1>1. SUFFICES ASSUME IInv, [Next]_vars PROVE IInv'
  BY Zenon
<1>2. CASE UNCHANGED vars
  BY <1>1, <1>2, Zenon DEF vars, IInv, TypeOK, Idle, DiskGood, Splits, SplitAt
<1>3. ASSUME NEW b \in Block, AddToMain(b) \/ AddAlternative(b) PROVE IInv'
  BY <1>1, <1>3, ArrivalIInv, Zenon
<1>4. CASE Disconnect \/ Connect \/ Rollback \/ Restore
  BY <1>1, <1>4, ChainIInv, Zenon
<1>5. CASE Connected \/ Blame \/ Keep \/ Finish
  BY <1>1, <1>5, TablesIInv, Zenon
<1>6. CASE \/ OpenBatch \/ CloseBatch \/ flush_invalid_blocks
           \/ \E x \in Tx : LoseTx(x)
           \/ \E n \in 1..Len(main) : pop_blocks(n)
  BY <1>1, <1>6, IdleIInv, Zenon
<1>7. ASSUME NEW pts \in Releases, UpdateCheckpoints(pts) PROVE IInv'
  BY <1>1, <1>7, PointsIInv, Zenon
<1>8. ASSUME NEW pts \in Releases, NEW keep \in BOOLEAN, Restart(pts, keep) PROVE IInv'
  BY <1>1, <1>8, PointsIInv, Zenon
<1> QED BY <1>1, <1>2, <1>3, <1>4, <1>5, <1>6, <1>7, <1>8, ZenonT(60) DEF Next

\* The invariant holds in every reachable state.
LEMMA InvariantHolds == Spec => []IInv
<1>1. Init => IInv
  BY InitIInv, Zenon
<1>2. IInv /\ [Next]_vars => IInv'
  BY NextIInv, Zenon
<1> QED BY <1>1, <1>2, PTL DEF Spec

-----------------------------------------------------------------------------

\* Every variable keeps its type: a switch never pops more blocks than there
\* are, never runs without a batch and never runs past the end of its chain.
THEOREM ChainTypeCorrect == Spec => []TypeOK
<1>1. IInv => TypeOK
  BY Zenon DEF IInv
<1> QED BY <1>1, InvariantHolds, PTL

\* The main chain is linked at every moment, in a switch and after a crash.
THEOREM ChainStaysLinked == Spec => []ChainLinked
<1>1. IInv => ChainLinked
  BY Zenon DEF IInv, Good, Linked, ChainLinked
<1> QED BY <1>1, InvariantHolds, PTL

\* No key image is ever spent twice in the main chain, whatever blocks arrive,
\* fail, are disconnected, connected again, popped or lost in a crash.
THEOREM NoKeyImageTwice == Spec => []NoDoubleSpend
<1>1. IInv => NoDoubleSpend
  BY Zenon DEF IInv, Good, SpendsOnce, NoDoubleSpend
<1> QED BY <1>1, InvariantHolds, PTL

-----------------------------------------------------------------------------
(* Checkpoints.  pt.first - 2 wraps round for a checkpoint at the first      *)
(* block, to a height that no chain has, so that one is not enforced; the    *)
(* others are.                                                               *)

\* No chain comes near the largest height.
LEMMA HeightBound ==
  ASSUME NEW c, Good(c), c /= << >>
  PROVE  Len(c) \in Nat /\ HeightMod \in Nat /\ Len(c) + 2 < HeightMod
<1>1. c \in Seq(Block) /\ Top(c) \in Block
  BY DEF Good, Top
<1>2. c = Path[Top(c)]
  BY <1>1, Zenon DEF Good, Linked
<1>3. Len(Path[Top(c)]) + 2 < HeightMod /\ HeightMod \in Nat
  BY <1>1, BlockchainAssumption, Zenon
<1> QED BY <1>1, <1>2, <1>3

\* A prefix of a chain fails no checkpoint the chain does not fail.
LEMMA PrefixAgrees ==
  ASSUME NEW c \in Seq(Block), NEW pts \in Releases, NEW n \in Int, n <= Len(c)
  PROVE  Failing(SubSeq(c, 1, n), pts) \subseteq {h \in Failing(c, pts) : h <= n}
<1>1. SUFFICES ASSUME NEW h \in Failing(SubSeq(c, 1, n), pts)
               PROVE  h \in Failing(c, pts) /\ h <= n
  BY Zenon
<1>2. h \in DOMAIN pts /\ h \in Nat \ {0}
  BY BlockchainAssumption, Zenon DEF Failing
<1>3. h <= Len(SubSeq(c, 1, n)) /\ SubSeq(c, 1, n)[h] /= pts[h]
  BY Zenon DEF Failing
<1>4. h <= n /\ h <= Len(c) /\ SubSeq(c, 1, n)[h] = c[h]
  BY <1>2, <1>3, PrefixType
<1> QED BY <1>2, <1>3, <1>4, ZenonT(60) DEF Failing

\* A block that is accepted passes the checkpoint at its height.
LEMMA AcceptedAgrees ==
  ASSUME NEW c \in Seq(Block), points \in Releases,
         NEW b \in Block, NEW p, Accepts(b, c, p)
  PROVE  Failing(Append(c, b), points) \subseteq Failing(c, points)
<1>1. PICK d : d = Append(c, b)
  BY Zenon
<1>2. /\ d \in Seq(Block) /\ Len(d) = Len(c) + 1 /\ d[Len(c) + 1] = b
      /\ \A i \in 1..Len(c) : d[i] = c[i]
  BY <1>1
<1>3. ASSUME NEW h \in DOMAIN points, h <= Len(d), d[h] /= points[h]
      PROVE  h \in Failing(c, points)
  <2>1. h \in Nat \ {0}
    BY BlockchainAssumption, Zenon
  <2>2. CASE h <= Len(c)
    <3>1. d[h] = c[h]
      BY <1>2, <2>1, <2>2
    <3> QED BY <1>3, <2>2, <3>1, Zenon DEF Failing
  <2>3. CASE h = Len(c) + 1
    BY <1>2, <1>3, <2>3, Zenon DEF Accepts, check_block
  <2> QED BY <1>2, <1>3, <2>1, <2>2, <2>3
<1> QED BY <1>1, <1>3, Zenon DEF Failing

\* check_against_checkpoints leaves a chain alone that fails no checkpoint above
\* the first block, and any other one it cuts back until it does not, even when
\* it throws on the way.
LEMMA EnforcedAgrees ==
  ASSUME NEW c, Good(c), NEW pts \in Releases
  PROVE  /\ Failing(c, pts) \subseteq {1} => enforced(c, pts) = c
         /\ Failing(enforced(c, pts), pts) \subseteq {1}
<1> c \in Seq(Block)
  BY Zenon DEF Good
<1>1. \A h \in Failing(c, pts) : h \in Nat \ {0} /\ h <= Len(c) /\ c /= << >>
  <2>1. \A h \in Failing(c, pts) : h \in Nat \ {0} /\ h <= Len(c)
    BY BlockchainAssumption, Zenon DEF Failing
  <2> QED BY <2>1
<1>2. RolledBackFor(c, pts) = Failing(c, pts) \ {1}
  <2>1. ASSUME NEW h \in Failing(c, pts) PROVE rollback_height(h) <= Len(c) + 1 <=> h /= 1
    <3>1. /\ Len(c) \in Nat /\ HeightMod \in Nat /\ Len(c) + 2 < HeightMod
          /\ h \in Nat \ {0} /\ h <= Len(c)
      BY <1>1, HeightBound, Zenon
    <3> QED BY <3>1 DEF rollback_height
  <2> QED BY <2>1, Zenon DEF RolledBackFor
<1>3. CASE Failing(c, pts) \subseteq {1}
  <2>1. RolledBackFor(c, pts) = {}
    BY <1>2, <1>3, Zenon
  <2> QED BY <1>3, <2>1, Zenon DEF enforced
<1>4. CASE ~ (Failing(c, pts) \subseteq {1})
  <2> DEFINE S == Failing(c, pts) \ {1}
  <2>1. S \in SUBSET Nat /\ S /= {}
    BY <1>1, <1>4, Zenon
  <2>2. PICK h \in S : h = Min(S) /\ \A k \in S : h <= k
    BY <2>1, MinNat, Zenon
  <2>3. PICK n : n = h - 3
    BY Zenon
  <2>4. h \in Nat /\ h >= 2 /\ n \in Int /\ n <= Len(c) /\ n < h
    BY <1>1, <2>2, <2>3
  <2>5. enforced(c, pts) = SubSeq(c, 1, n)
    <3>1. enforced(c, pts) = SubSeq(c, 1, rollback_height(h) - 1)
      BY <1>2, <2>1, <2>2, Zenon DEF enforced
    <3>2. rollback_height(h) - 1 = n
      BY <2>3, <2>4 DEF rollback_height
    <3> QED BY <3>1, <3>2, Zenon
  <2>6. Failing(SubSeq(c, 1, n), pts) \subseteq {k \in Failing(c, pts) : k <= n}
    BY <2>4, PrefixAgrees, Zenon
  <2>7. \A k \in S : ~ (k <= n)
    BY <1>1, <2>2, <2>4
  <2> QED BY <1>4, <2>5, <2>6, <2>7, Zenon
<1> QED BY <1>3, <1>4, Zenon

\* Every step keeps the main chain in agreement with the checkpoints.
LEMMA NextAgrees ==
  ASSUME IInv, CheckpointsHold, [Next]_vars
  PROVE  CheckpointsHold'
<1>1. TypeOK /\ Good(main) /\ DiskGood /\ Splits
  BY Zenon DEF IInv
<1>2. /\ main \in Seq(Block) /\ points \in Releases /\ Failing(main, points) \subseteq {1}
      /\ job \in Job
  BY <1>1, Zenon DEF TypeOK, CheckpointsHold
<1>3. ASSUME main' = main, points' = points PROVE CheckpointsHold'
  BY <1>2, <1>3, Zenon DEF CheckpointsHold
<1>4. ASSUME NEW n \in Int, n <= Len(main), main' = SubSeq(main, 1, n), points' = points
      PROVE  CheckpointsHold'
  BY <1>2, <1>4, PrefixAgrees, Zenon DEF CheckpointsHold
<1>5. ASSUME pop_block_from_blockchain, points' = points PROVE CheckpointsHold'
  <2>1. Len(main) - 1 \in Int /\ Len(main) - 1 <= Len(main)
    BY <1>2
  <2> QED BY <1>4, <1>5, <2>1, Zenon DEF pop_block_from_blockchain, AllButLast
<1>6. ASSUME NEW b \in Block, NEW p, Accepts(b, main, p), PushBlock(b, p), points' = points
      PROVE  CheckpointsHold'
  BY <1>2, <1>6, AcceptedAgrees, Zenon DEF PushBlock, CheckpointsHold
<1>7. CASE UNCHANGED vars
  BY <1>3, <1>7, Zenon DEF vars
<1>8. ASSUME NEW b \in Block, AddToMain(b) PROVE CheckpointsHold'
  BY <1>3, <1>6, <1>8, Zenon DEF AddToMain
<1>9. ASSUME NEW b \in Block, AddAlternative(b) PROVE CheckpointsHold'
  BY <1>3, <1>9, Zenon DEF AddAlternative
<1>10. CASE Disconnect \/ Rollback
  BY <1>3, <1>5, <1>10, Zenon DEF Disconnect, Rollback
<1>11. CASE Connect
  <2>1. job.next \in 1..Len(job.chain) /\ job.chain \in Seq(Block) /\ points' = points
    BY <1>1, <1>11 DEF Connect, TypeOK, Job
  <2>2. job.chain[job.next] \in Block
    BY <2>1
  <2> QED BY <1>3, <1>6, <1>11, <2>1, <2>2, Zenon DEF Connect
<1>12. CASE Restore
  <2>1. points' = points /\ (job.old /= << >> => Head(job.old) \in Block)
    BY <1>2, <1>12 DEF Restore, Job
  <2> QED BY <1>3, <1>6, <1>12, <2>1, Zenon DEF Restore
<1>13. CASE Connected \/ Blame \/ Keep \/ Finish
  BY <1>3, <1>13, Zenon DEF Connected, Blame, Keep, Finish
<1>14. CASE OpenBatch \/ CloseBatch \/ flush_invalid_blocks \/ \E x \in Tx : LoseTx(x)
  BY <1>3, <1>14, Zenon DEF OpenBatch, CloseBatch, flush_invalid_blocks, LoseTx
<1>15. ASSUME NEW n \in 1..Len(main), pop_blocks(n) PROVE CheckpointsHold'
  <2>1. Len(main) - n \in Int /\ Len(main) - n <= Len(main)
    BY <1>2
  <2> QED BY <1>4, <1>15, <2>1, Zenon DEF pop_blocks
<1>16. ASSUME NEW pts \in Releases, UpdateCheckpoints(pts) PROVE CheckpointsHold'
  BY <1>1, <1>2, <1>16, EnforcedAgrees, Zenon DEF UpdateCheckpoints, CheckpointsHold
<1>17. ASSUME NEW pts \in Releases, NEW keep \in BOOLEAN, Restart(pts, keep)
       PROVE  CheckpointsHold'
  <2>1. PICK saved : saved = IF disk = << >> THEN [main |-> main, alt |-> alt, pool |-> pool]
                             ELSE disk[1]
    BY Zenon
  <2>2. points' = pts /\ main' = enforced(saved.main, pts)
    BY <1>17, <2>1, Zenon DEF Restart
  <2>3. Good(saved.main)
    BY <1>1, <2>1, Zenon DEF DiskGood
  <2> QED BY <2>2, <2>3, EnforcedAgrees, Zenon DEF CheckpointsHold
<1> QED BY <1>7, <1>8, <1>9, <1>10, <1>11, <1>12, <1>13, <1>14, <1>15, <1>16, <1>17 DEF Next

\* Whatever the releases, one with a checkpoint at the first block included, the
\* main chain agrees with every checkpoint it has reached above that block, in
\* the middle of a switch too.
THEOREM CheckpointsAlwaysHold == Spec => []CheckpointsHold
<1>1. Init => CheckpointsHold
  BY BlockchainAssumption DEF Init, CheckpointsHold, Failing
<1>2. IInv /\ CheckpointsHold /\ [Next]_vars => CheckpointsHold'
  BY NextAgrees, Zenon
<1> QED BY <1>1, <1>2, InvariantHolds, PTL DEF Spec

============================================================================
