---------------------------- MODULE LedgerProofs ----------------------------
(* The blockchain implements the ledger: whatever the blocks, a switch that  *)
(* fails puts the old chain back whole, unless a checkpoint rules out its    *)
(* first block, and one that succeeds is for more work or for a checkpoint.  *)
(* The second part is about the blocks that it disconnects: they start no    *)
(* other switch, and none of them is lost.                                   *)
EXTENDS BlockchainProofs

-----------------------------------------------------------------------------
(* What a chain needs to be accepted a second time: none of its blocks       *)
(* claims too much, and no transaction is in two of them.                    *)

Clean(c) ==
  /\ \A i \in DOMAIN c : c[i] \notin BadReward
  /\ \A i, j \in DOMAIN c : TxsOf(c[i]) \cap TxsOf(c[j]) /= {} => i = j

\* The switch is for a block that deserves it.
Deserved(b, c) ==
  \/ Work[b] > WorkOf(c)
  \/ Len(Path[b]) \in DOMAIN points /\ points[Len(Path[b])] = b

\* The blocks that have been disconnected can be connected again: with them
\* the chain is the one from before, and their transactions are at hand.
Kept(c) ==
  /\ c \o job.old = job.before
  /\ \A i \in DOMAIN job.old : TxsOf(job.old[i]) \subseteq pool \cup Mined(main)

\* How far the switch has come in its chain.
Reached ==
  IF job.next = 1 THEN main = SplitAt
  ELSE main /= << >> /\ Top(main) = job.chain[job.next - 1]

\* The chain from before did not come back, because of its first block.
Lost == main = << >> /\ 1 \in Failing(job.before, points)

JobInv ==
  /\ ~ Idle => /\ Good(job.before) /\ Clean(job.before)
               /\ Failing(job.before, points) \subseteq {1}
               /\ Deserved(Top(job.chain), job.before)
  /\ job.step \in {"disconnect", "restore"} => Kept(main)
  /\ job.step \in {"connect", "rollback"} => Kept(SplitAt)
  /\ job.step = "disconnect" => job.next = 1
  /\ job.step = "connect" => Reached
  /\ job.step = "blame" => main = job.before \/ Lost
  /\ job.step = "keep" => main = Path[Top(job.chain)]

DiskClean == disk /= << >> => Clean(disk[1].main)

LInv == Clean(main) /\ DiskClean /\ JobInv

-----------------------------------------------------------------------------
(* Chains, blocks and transactions.                                          *)

\* Popping blocks leaves a clean chain clean.
LEMMA PrefixClean ==
  ASSUME NEW c \in Seq(Block), Clean(c), NEW n \in Int, n <= Len(c)
  PROVE  Clean(SubSeq(c, 1, n))
<1>1. PICK d : d = SubSeq(c, 1, n)
  BY Zenon
<1>2. DOMAIN d \subseteq DOMAIN c /\ \A i \in DOMAIN d : d[i] = c[i]
  BY <1>1, PrefixType
<1> QED BY <1>1, <1>2, Zenon DEF Clean

\* A block that handle_block_to_main_chain accepts leaves it clean.
LEMMA AcceptedClean ==
  ASSUME NEW c \in Seq(Block), Clean(c), NEW b \in Block, NEW p, Accepts(b, c, p)
  PROVE  Clean(Append(c, b))
<1>1. PICK d : d = Append(c, b)
  BY Zenon
<1>2. /\ DOMAIN d = 1..(Len(c) + 1) /\ d[Len(c) + 1] = b /\ DOMAIN c = 1..Len(c)
      /\ \A i \in DOMAIN c : d[i] = c[i]
  BY <1>1
<1>3. ASSUME NEW i \in DOMAIN c PROVE TxsOf(c[i]) \cap TxsOf(b) = {}
  <2>1. TxsOf(c[i]) \subseteq Mined(c)
    BY Zenon DEF Mined, Blocks
  <2>2. TxsOf(b) \cap Mined(c) = {}
    BY Zenon DEF Accepts, Problems, TxsOf
  <2> QED BY <2>1, <2>2, Zenon
<1>4. ASSUME NEW i \in DOMAIN d, NEW j \in DOMAIN d, TxsOf(d[i]) \cap TxsOf(d[j]) /= {}
      PROVE  i = j
  <2>1. CASE i \in DOMAIN c /\ j \in DOMAIN c
    BY <1>2, <1>4, <2>1, Zenon DEF Clean
  <2>2. CASE i \in DOMAIN c /\ j \notin DOMAIN c
    <3>1. d[i] = c[i] /\ d[j] = b
      BY <1>2, <2>2
    <3> QED BY <1>3, <1>4, <2>2, <3>1, Zenon
  <2>3. CASE i \notin DOMAIN c /\ j \in DOMAIN c
    <3>1. d[i] = b /\ d[j] = c[j]
      BY <1>2, <2>3
    <3>2. TxsOf(d[j]) \cap TxsOf(d[i]) = {}
      BY <1>3, <2>3, <3>1, Zenon
    <3> QED BY <1>4, <3>2, Zenon
  <2>4. CASE i \notin DOMAIN c /\ j \notin DOMAIN c
    BY <1>2, <2>4
  <2> QED BY <2>1, <2>2, <2>3, <2>4, Zenon
<1>5. ASSUME NEW i \in DOMAIN d PROVE d[i] \notin BadReward
  BY <1>2 DEF Clean, Accepts
<1> QED BY <1>1, <1>4, <1>5, Zenon DEF Clean

\* The transactions of a chain without its last block, and with one more.
LEMMA MinedPop ==
  ASSUME NEW c \in Seq(Block), c /= << >>
  PROVE  Mined(c) \subseteq Mined(AllButLast(c)) \cup TxsOf(Top(c))
<1>1. PICK d : d = AllButLast(c)
  BY Zenon
<1>2. Len(c) - 1 \in Int /\ Len(c) - 1 <= Len(c) /\ Len(c) \in Nat \ {0}
  OBVIOUS
<1>3. DOMAIN d = 1..(Len(c) - 1) /\ \A i \in 1..(Len(c) - 1) : d[i] = c[i]
  BY <1>1, <1>2, PrefixType DEF AllButLast
<1>4. ASSUME NEW i \in DOMAIN c PROVE TxsOf(c[i]) \subseteq Mined(d) \cup TxsOf(Top(c))
  <2>1. CASE i = Len(c)
    BY <2>1, Zenon DEF Top
  <2>2. CASE i /= Len(c)
    <3>1. i \in DOMAIN d /\ d[i] = c[i]
      BY <1>3, <2>2
    <3> QED BY <3>1, Zenon DEF Mined, Blocks
  <2> QED BY <2>1, <2>2, Zenon
<1> QED BY <1>1, <1>4 DEF Mined, Blocks

\* A pushed block mines its transactions and unmines none.
LEMMA MinedPush ==
  ASSUME NEW c \in Seq(Block), NEW b \in Block
  PROVE  Mined(c) \cup TxsOf(b) \subseteq Mined(Append(c, b))
<1>1. PICK d : d = Append(c, b)
  BY Zenon
<1>2. /\ DOMAIN d = 1..(Len(c) + 1) /\ d[Len(c) + 1] = b /\ DOMAIN c = 1..Len(c)
      /\ \A i \in DOMAIN c : d[i] = c[i]
  BY <1>1
<1>3. \A i \in DOMAIN c : c[i] \in Blocks(d)
  BY <1>2 DEF Blocks
<1>4. b \in Blocks(d)
  BY <1>2 DEF Blocks
<1> QED BY <1>1, <1>3, <1>4 DEF Mined, Blocks

\* Two chains of blocks put together.
LEMMA Joined ==
  ASSUME NEW c \in Seq(Block), NEW s \in Seq(Block)
  PROVE  /\ c \o s \in Seq(Block) /\ Len(c \o s) = Len(c) + Len(s)
         /\ \A i \in 1..Len(c) : (c \o s)[i] = c[i]
         /\ \A i \in 1..Len(s) : (c \o s)[Len(c) + i] = s[i]
OBVIOUS

\* Moving the block at the boundary of two parts does not change the whole.
LEMMA MoveLeft ==
  ASSUME NEW c \in Seq(Block), NEW s \in Seq(Block), c /= << >>
  PROVE  AllButLast(c) \o (<<Top(c)>> \o s) = c \o s
<1>1. Len(c) \in Nat \ {0} /\ Top(c) \in Block
  BY DEF Top
<1>2. PICK d : d = AllButLast(c)
  BY Zenon
<1>3. /\ d \in Seq(Block) /\ Len(d) = Len(c) - 1
      /\ \A i \in 1..(Len(c) - 1) : d[i] = c[i]
  <2>1. PICK n \in Int : n = Len(c) - 1
    BY <1>1
  <2>2. n <= Len(c) /\ n >= 0 /\ d = SubSeq(c, 1, n)
    BY <1>1, <1>2, <2>1 DEF AllButLast
  <2> QED BY <2>1, <2>2, PrefixType
<1>4. PICK t : t = <<Top(c)>> \o s
  BY Zenon
<1>5. /\ t \in Seq(Block) /\ Len(t) = Len(s) + 1 /\ t[1] = c[Len(c)]
      /\ \A i \in 2..Len(t) : t[i] = s[i - 1]
  BY <1>1, <1>4 DEF Top
<1>6. /\ d \o t \in Seq(Block) /\ c \o s \in Seq(Block)
      /\ Len(d \o t) = Len(c) + Len(s) /\ Len(c \o s) = Len(c) + Len(s)
      /\ Len(c) \in Nat /\ Len(s) \in Nat
  <2>1. Len(c) \in Nat /\ Len(s) \in Nat /\ Len(d) + Len(t) = Len(c) + Len(s)
    BY <1>1, <1>3, <1>5
  <2>2. d \o t \in Seq(Block) /\ Len(d \o t) = Len(d) + Len(t)
    BY <1>3, <1>5, Joined, Zenon
  <2>3. c \o s \in Seq(Block) /\ Len(c \o s) = Len(c) + Len(s)
    BY Joined, Zenon
  <2> QED BY <2>1, <2>2, <2>3, Zenon
<1>7. ASSUME NEW i \in 1..(Len(c) + Len(s)) PROVE (d \o t)[i] = (c \o s)[i]
  <2>1. CASE i < Len(c)
    BY <1>1, <1>3, <1>5, <1>6, <2>1, Joined
  <2>2. CASE i = Len(c)
    BY <1>1, <1>3, <1>5, <1>6, <2>2, Joined
  <2>3. CASE i > Len(c)
    <3>1. PICK k : k = i - Len(c)
      BY Zenon
    <3>2. k \in 1..Len(s) /\ i = Len(c) + k
      BY <1>6, <2>3, <3>1
    <3>3. k + 1 \in 2..Len(t) /\ k + 1 \in 1..Len(t) /\ (k + 1) - 1 = k /\ i = Len(d) + (k + 1)
      BY <1>3, <1>5, <1>6, <3>2
    <3>4. (c \o s)[i] = s[k]
      BY <3>2, Joined, Zenon
    <3>5. (d \o t)[i] = t[k + 1]
      BY <1>3, <1>5, <3>3, Joined, ZenonT(60)
    <3>6. t[k + 1] = s[(k + 1) - 1]
      BY <1>5, <3>3, Zenon
    <3> QED BY <3>3, <3>4, <3>5, <3>6, Zenon
  <2> QED BY <1>6, <2>1, <2>2, <2>3
<1>8. d \o t = c \o s
  BY <1>6, <1>7, SeqEqual, Zenon
<1> QED BY <1>2, <1>4, <1>8, Zenon

\* Moving the head of a list to the end of a chain, as
\* switch_to_alternative_blockchain does block by block, keeps their
\* concatenation.
LEMMA MoveRight ==
  ASSUME NEW c \in Seq(Block), NEW s \in Seq(Block), s /= << >>
  PROVE  Append(c, Head(s)) \o Tail(s) = c \o s
<1>1. Len(s) \in Nat \ {0} /\ Head(s) = s[1] /\ s[1] \in Block
  OBVIOUS
<1>2. PICK d : d = Append(c, Head(s))
  BY Zenon
<1>3. /\ d \in Seq(Block) /\ Len(d) = Len(c) + 1 /\ d[Len(c) + 1] = s[1]
      /\ \A i \in 1..Len(c) : d[i] = c[i]
  BY <1>1, <1>2
<1>4. PICK t : t = Tail(s)
  BY Zenon
<1>5. t \in Seq(Block) /\ Len(t) = Len(s) - 1 /\ \A i \in 1..Len(t) : t[i] = s[i + 1]
  BY <1>1, <1>4
<1>6. /\ d \o t \in Seq(Block) /\ c \o s \in Seq(Block)
      /\ Len(d \o t) = Len(c) + Len(s) /\ Len(c \o s) = Len(c) + Len(s)
      /\ Len(c) \in Nat /\ Len(s) \in Nat
  <2>1. Len(c) \in Nat /\ Len(s) \in Nat /\ Len(d) + Len(t) = Len(c) + Len(s)
    BY <1>1, <1>3, <1>5
  <2>2. d \o t \in Seq(Block) /\ Len(d \o t) = Len(d) + Len(t)
    BY <1>3, <1>5, Joined, Zenon
  <2>3. c \o s \in Seq(Block) /\ Len(c \o s) = Len(c) + Len(s)
    BY Joined, Zenon
  <2> QED BY <2>1, <2>2, <2>3, Zenon
<1>7. ASSUME NEW i \in 1..(Len(c) + Len(s)) PROVE (d \o t)[i] = (c \o s)[i]
  <2>1. CASE i <= Len(c)
    BY <1>1, <1>3, <1>5, <1>6, <2>1, Joined
  <2>2. CASE i = Len(c) + 1
    BY <1>1, <1>3, <1>5, <1>6, <2>2, Joined
  <2>3. CASE i > Len(c) + 1
    <3>1. PICK k : k = i - Len(d)
      BY Zenon
    <3>2. k \in 1..Len(t) /\ k + 1 \in 1..Len(s) /\ i = Len(c) + (k + 1) /\ i = Len(d) + k
      BY <1>3, <1>5, <1>6, <2>3, <3>1
    <3>3. (d \o t)[i] = t[k] /\ (c \o s)[i] = s[k + 1]
      BY <1>3, <1>5, <3>1, <3>2, Joined
    <3> QED BY <1>5, <3>2, <3>3, Zenon
  <2> QED BY <1>6, <2>1, <2>2, <2>3
<1>8. d \o t = c \o s
  BY <1>6, <1>7, SeqEqual, Zenon
<1> QED BY <1>2, <1>4, <1>8, Zenon

\* The next of the disconnected blocks is accepted again: it builds on what is
\* left of its chain, its transactions are in the pool, and the blocks below
\* it hold none of them and spend none of their key images.
LEMMA AcceptedAgain ==
  ASSUME NEW c \in Seq(Block), NEW s \in Seq(Block), s /= << >>, NEW p, points \in Releases,
         Good(c \o s), Clean(c \o s), Len(c) + 1 \notin Failing(c \o s, points),
         TxsOf(s[1]) \subseteq p \cup Mined(c)
  PROVE  Accepts(s[1], c, p)
<1>1. PICK b : b = s[1]
  BY Zenon
<1>2. PICK d : d = c \o s
  BY Zenon
<1>3. PICK k : k = Len(c) + 1
  BY Zenon
<1>4. /\ d \in Seq(Block) /\ k \in 1..Len(d) /\ d[k] = b /\ k - 1 = Len(c) /\ b \in Block
      /\ \A i \in 1..Len(c) : i \in DOMAIN d /\ d[i] = c[i] /\ i /= k
      /\ DOMAIN d = 1..Len(d) /\ DOMAIN c = 1..Len(c)
  <2>1. Len(s) \in Nat \ {0} /\ s[1] \in Block /\ Len(c) \in Nat
    OBVIOUS
  <2>2. d \in Seq(Block) /\ Len(d) = Len(c) + Len(s) /\ d[Len(c) + 1] = s[1]
    BY <1>2, <2>1, Joined
  <2>3. \A i \in 1..Len(c) : d[i] = c[i]
    BY <1>2, Joined, ZenonT(60)
  <2> QED BY <1>1, <1>3, <2>1, <2>2, <2>3
<1>5. AllButLast(Path[b]) = c
  <2>1. d /= << >> /\ Top(d) \in Block /\ d = Path[Top(d)]
    BY <1>2, <1>4 DEF Good, Linked, Top
  <2>2. Path[b] = SubSeq(d, 1, k)
    <3>1. \A i \in 1..Len(d) : Path[d[i]] = SubSeq(d, 1, i)
      BY <2>1, PathFacts, ZenonT(60)
    <3> QED BY <1>4, <3>1, Zenon
  <2>3. PICK q : q = SubSeq(d, 1, k)
    BY Zenon
  <2>4. q \in Seq(Block) /\ Len(q) = k /\ \A i \in 1..k : q[i] = d[i]
    BY <1>4, <2>3, PrefixType
  <2>5. /\ SubSeq(q, 1, k - 1) \in Seq(Block) /\ Len(SubSeq(q, 1, k - 1)) = k - 1
        /\ \A i \in 1..(k - 1) : SubSeq(q, 1, k - 1)[i] = q[i]
    BY <1>4, <2>4, PrefixType
  <2>6. SubSeq(q, 1, k - 1) = c
    BY <1>4, <2>4, <2>5, SeqEqual
  <2> QED BY <2>2, <2>3, <2>4, <2>6, Zenon DEF AllButLast
<1>6. check_block(Len(c) + 1, b)
  <2>1. k <= Len(d)
    BY <1>4
  <2> QED BY <1>2, <1>3, <1>4, <2>1, Zenon DEF Failing, check_block
<1>7. b \notin BadReward
  BY <1>2, <1>4, Zenon DEF Clean
<1>8. ASSUME NEW x \in TxsOf(b)
      PROVE  x \notin Mined(c) /\ x \in p /\ Spends[x] \cap Spent(c) = {}
  <2>1. ASSUME NEW i \in DOMAIN c PROVE x \notin TxsOf(c[i])
    BY <1>2, <1>4, Zenon DEF Clean
  <2>2. x \notin Mined(c)
    BY <2>1, Zenon DEF Mined, Blocks
  <2>3. ASSUME NEW i \in DOMAIN c, NEW y \in TxsOf(c[i]) PROVE Spends[x] \cap Spends[y] = {}
    <3>1. i \in DOMAIN d /\ k \in DOMAIN d /\ d[i] = c[i] /\ d[k] = b /\ i /= k
      BY <1>4, Zenon
    <3> QED BY <1>2, <3>1, Zenon DEF Good, SpendsOnce
  <2>4. Spends[x] \cap Spent(c) = {}
    BY <2>3 DEF Spent, Mined, Blocks
  <2> QED BY <1>1, <2>2, <2>4, Zenon
<1>9. Problems(b, c, p) = {}
  BY <1>8, Zenon DEF Problems, TxsOf
<1> QED BY <1>1, <1>5, <1>6, <1>7, <1>9, Zenon DEF Accepts

-----------------------------------------------------------------------------
(* The main chain and the one on disk stay clean.                            *)

\* Every step keeps the chains clean, as handle_block_to_main_chain refuses a
\* block with a wrong reward or a transaction that is in the chain.
LEMMA NextClean ==
  ASSUME IInv, Clean(main), DiskClean, [Next]_vars
  PROVE  Clean(main') /\ DiskClean'
<1>1. TypeOK /\ Good(main) /\ DiskGood
  BY Zenon DEF IInv
<1>2. main \in Seq(Block) /\ points \in Releases /\ job \in Job
  BY <1>1, Zenon DEF TypeOK
<1>3. ASSUME main' = main, disk' = disk PROVE Clean(main') /\ DiskClean'
  BY <1>3, Zenon DEF DiskClean
<1>4. ASSUME NEW n \in Int, n <= Len(main), main' = SubSeq(main, 1, n), disk' = disk
      PROVE  Clean(main') /\ DiskClean'
  BY <1>2, <1>4, PrefixClean, Zenon DEF DiskClean
<1>5. ASSUME pop_block_from_blockchain, disk' = disk PROVE Clean(main') /\ DiskClean'
  <2>1. Len(main) - 1 \in Int /\ Len(main) - 1 <= Len(main)
    BY <1>2
  <2> QED BY <1>4, <1>5, <2>1, Zenon DEF pop_block_from_blockchain, AllButLast
<1>6. ASSUME NEW b \in Block, NEW p, Accepts(b, main, p), PushBlock(b, p), disk' = disk
      PROVE  Clean(main') /\ DiskClean'
  BY <1>2, <1>6, AcceptedClean, Zenon DEF PushBlock, DiskClean
<1>7. ASSUME NEW c \in Seq(Block), Clean(c), NEW pts \in Releases PROVE Clean(enforced(c, pts))
  <2>1. PICK n \in Int : n <= Len(c) /\ enforced(c, pts) = SubSeq(c, 1, n)
    BY EnforcedPrefix, Zenon
  <2> QED BY <1>7, <2>1, PrefixClean, Zenon
<1>8. CASE UNCHANGED vars
  BY <1>3, <1>8, Zenon DEF vars
<1>9. ASSUME NEW b \in Block, AddToMain(b) \/ AddAlternative(b)
      PROVE  Clean(main') /\ DiskClean'
  BY <1>3, <1>6, <1>9, Zenon DEF AddToMain, AddAlternative
<1>10. CASE Disconnect \/ Rollback
  BY <1>3, <1>5, <1>10, Zenon DEF Disconnect, Rollback
<1>11. CASE Connect
  <2>1. job.next \in 1..Len(job.chain) /\ job.chain \in Seq(Block) /\ disk' = disk
    BY <1>1, <1>11 DEF Connect, TypeOK, Job
  <2>2. job.chain[job.next] \in Block
    BY <2>1
  <2> QED BY <1>3, <1>6, <1>11, <2>1, <2>2, ZenonT(60) DEF Connect
<1>12. CASE Restore
  <2>1. disk' = disk /\ (job.old /= << >> => Head(job.old) \in Block)
    BY <1>2, <1>12 DEF Restore, Job
  <2> QED BY <1>3, <1>6, <1>12, <2>1, Zenon DEF Restore
<1>13. CASE Connected \/ Blame \/ Keep \/ Finish
  BY <1>3, <1>13, Zenon DEF Connected, Blame, Keep, Finish
<1>14. CASE flush_invalid_blocks \/ \E x \in Tx : LoseTx(x)
  BY <1>3, <1>14, Zenon DEF flush_invalid_blocks, LoseTx
<1>15. CASE OpenBatch \/ CloseBatch
  BY <1>15 DEF OpenBatch, CloseBatch, DiskClean
<1>16. ASSUME NEW n \in 1..Len(main), pop_blocks(n) PROVE Clean(main') /\ DiskClean'
  <2>1. Len(main) - n \in Int /\ Len(main) - n <= Len(main)
    BY <1>2
  <2> QED BY <1>4, <1>16, <2>1, Zenon DEF pop_blocks
<1>17. ASSUME NEW pts \in Releases, UpdateCheckpoints(pts) PROVE Clean(main') /\ DiskClean'
  BY <1>2, <1>7, <1>17, Zenon DEF UpdateCheckpoints, DiskClean
<1>18. ASSUME NEW pts \in Releases, NEW keep \in BOOLEAN, Restart(pts, keep)
       PROVE  Clean(main') /\ DiskClean'
  <2>1. PICK c : c = IF disk = << >> THEN main ELSE disk[1].main
    BY Zenon
  <2>2. c \in Seq(Block) /\ Clean(c)
    BY <1>1, <2>1, Zenon DEF TypeOK, DiskClean
  <2>3. main' = enforced(c, pts) /\ disk' = << >>
    BY <1>18, <2>1, Zenon DEF Restart
  <2> QED BY <1>7, <2>2, <2>3, Zenon DEF DiskClean
<1> QED BY <1>8, <1>9, <1>10, <1>11, <1>12, <1>13, <1>14, <1>15, <1>16, <1>17, <1>18, ZenonT(60) DEF Next

-----------------------------------------------------------------------------
(* The switch.                                                               *)

\* Popping a block and pushing one move transactions between the pool and the
\* chain, and lose none.
LEMMA PopLosesNone ==
  ASSUME main \in Seq(Block), main /= << >>, pop_block_from_blockchain
  PROVE  /\ pool \cup Mined(main) \subseteq pool' \cup Mined(main')
         /\ TxsOf(Top(main)) \subseteq pool'
BY MinedPop, Zenon DEF pop_block_from_blockchain

\* The transactions that a pushed block takes out of the pool are in the
\* block.
LEMMA PushLosesNone ==
  ASSUME main \in Seq(Block), NEW b \in Block, PushBlock(b, pool)
  PROVE  pool \cup Mined(main) \subseteq pool' \cup Mined(main')
<1>1. Mined(main) \cup TxsOf(b) \subseteq Mined(main')
  BY MinedPush, Zenon DEF PushBlock
<1>2. pool' = pool \ TxsOf(b)
  BY Zenon DEF PushBlock
<1> QED BY <1>1, <1>2, Zenon

\* The path of an alternative block above Fork is its alternative chain, and
\* that is made of alternative blocks and the block itself.
LEMMA AltChainBlocks ==
  ASSUME NEW b \in Block
  PROVE  /\ Top(AltChain(b)) = b
         /\ Blocks(AltChain(b)) \subseteq alt \cup {b}
         /\ \A i \in (Fork(b) + 1)..Len(Path[b]) : Path[b][i] \in Blocks(AltChain(b))
<1>1. PICK q : q = Path[b]
  BY Zenon
<1>2. PICK k : k = Fork(b) + 1
  BY Zenon
<1>3. q \in Seq(Block) /\ Len(q) \in Nat \ {0} /\ q[Len(q)] = b
  BY <1>1, PathFacts, Zenon
<1>4. Fork(b) \in 0..(Len(q) - 1)
  BY <1>1, AltChainFacts, Zenon
<1>5. k \in 1..Len(q)
  BY <1>2, <1>3, <1>4
<1>6. PICK c : c = SubSeq(q, k, Len(q))
  BY Zenon
<1>7. /\ c \in Seq(Block) /\ Len(c) = Len(q) - k + 1
      /\ \A i \in 1..Len(c) : c[i] = q[k + i - 1]
  BY <1>3, <1>5, <1>6
<1>8. AltChain(b) = c
  BY <1>1, <1>2, <1>6, Zenon DEF AltChain
<1>9. Top(c) = b
  BY <1>3, <1>5, <1>7 DEF Top
<1>10. ASSUME NEW i \in k..(Len(q) - 1) PROVE q[i] \in alt
  <2>1. PICK S : S = {0} \cup {j \in 1..(Len(q) - 1) : q[j] \notin alt}
    BY Zenon
  <2>2. Len(q) - 1 \in Nat /\ S \in SUBSET (0..(Len(q) - 1)) /\ S /= {}
    BY <1>3, <2>1
  <2>3. \A y \in S : y <= Max(S)
    BY <2>2, MaxNat, Zenon
  <2>4. Fork(b) = Max(S)
    BY <1>1, <2>1, Zenon DEF Fork
  <2>5. i \in 1..(Len(q) - 1) /\ ~ (i <= Fork(b))
    BY <1>2, <1>3, <1>4
  <2> QED BY <2>1, <2>3, <2>4, <2>5, Zenon
<1>11. ASSUME NEW i \in 1..Len(c) PROVE c[i] \in alt \cup {b}
  <2>1. CASE i = Len(c)
    BY <1>9, <2>1, Zenon DEF Top
  <2>2. CASE i /= Len(c)
    <3>1. k + i - 1 \in k..(Len(q) - 1)
      BY <1>5, <1>7, <2>2
    <3> QED BY <1>7, <1>10, <3>1, Zenon
  <2> QED BY <2>1, <2>2, Zenon
<1>12. DOMAIN c = 1..Len(c)
  BY <1>7
<1>13. ASSUME NEW i \in k..Len(q) PROVE q[i] \in Blocks(c)
  <2>1. i - k + 1 \in 1..Len(c) /\ k + (i - k + 1) - 1 = i
    BY <1>5, <1>7
  <2> QED BY <1>7, <1>12, <2>1, Zenon DEF Blocks
<1>14. Blocks(c) \subseteq alt \cup {b}
  BY <1>11, <1>12, Zenon DEF Blocks
<1> QED BY <1>1, <1>2, <1>8, <1>9, <1>13, <1>14, ZenonT(60)

\* An alternative block that starts a switch deserves it.
LEMMA StartedJob ==
  ASSUME IInv, CheckpointsHold, Clean(main), JobInv, NEW b \in Block, AddAlternative(b)
  PROVE  JobInv'
<1>1. TypeOK /\ Good(main) /\ Idle
  BY Zenon DEF IInv, AddAlternative, Arrives
<1>2. main' = main /\ points' = points
  BY Zenon DEF AddAlternative
<1>3. CASE job' = job
  BY <1>1, <1>3, Zenon DEF JobInv, Idle
<1>4. CASE job' /= job
  <2>1. /\ AltAccepts(b) /\ (is_a_checkpoint(b) \/ Work[b] > WorkOf(main))
        /\ job' = [step |-> "disconnect", chain |-> AltChain(b),
                   next |-> 1, old |-> << >>,
                   discard |-> is_a_checkpoint(b), before |-> main]
    BY <1>4, Zenon DEF AddAlternative
  <2>2. /\ job'.step = "disconnect" /\ job'.old = << >> /\ job'.next = 1
        /\ job'.before = main /\ job'.chain = AltChain(b)
    BY <2>1, Zenon
  <2>3. Top(AltChain(b)) = b
    BY AltChainBlocks, Zenon
  <2>4. Deserved(b, main)
    BY <2>1, Zenon DEF Deserved, AltAccepts, check_block, is_a_checkpoint
  <2>5. Deserved(Top(job.chain), job.before)'
    BY <1>2, <2>2, <2>3, <2>4, Zenon DEF Deserved
  <2>6. main \o << >> = main
    BY <1>1 DEF TypeOK
  <2>7. Kept(main)'
    BY <1>2, <2>2, <2>6 DEF Kept
  <2> QED BY <1>1, <1>2, <2>2, <2>5, <2>7, Zenon DEF JobInv, CheckpointsHold
<1> QED BY <1>3, <1>4, Zenon

\* The steps of a switch keep its invariant: blocks that are popped are kept
\* in their order, and are all accepted again when the switch is given up.
LEMMA SwitchingJob ==
  ASSUME IInv, JobInv, Disconnect \/ Connect \/ Connected \/ Rollback \/ Restore
  PROVE  JobInv'
<1>1. TypeOK /\ Good(main) /\ Splits
  BY Zenon DEF IInv
<1>2. ~ Idle /\ points' = points
  BY Zenon DEF Disconnect, Connect, Connected, Rollback, Restore, Idle
<1>3. /\ main \in Seq(Block) /\ job \in Job /\ points \in Releases
      /\ job.chain \in Seq(Block) /\ job.old \in Seq(Block) /\ job.chain /= << >>
      /\ job.next \in 1..(Len(job.chain) + 1)
  BY <1>1, <1>2, Zenon DEF TypeOK, Job
<1>4. SplitAt \in Seq(Block)
  BY <1>1, <1>2, SplitType, Zenon
<1>5. /\ Good(job.before) /\ Clean(job.before) /\ Failing(job.before, points) \subseteq {1}
      /\ Deserved(Top(job.chain), job.before)
  BY <1>2, Zenon DEF JobInv
\* The part of the invariant that does not change.
<1>6. ASSUME job'.chain = job.chain, job'.before = job.before
      PROVE  /\ SplitAt' = SplitAt
             /\ Good(job.before)' /\ Clean(job.before)'
             /\ (Failing(job.before, points) \subseteq {1})'
             /\ Deserved(Top(job.chain), job.before)'
  BY <1>2, <1>5, <1>6, Zenon DEF SplitAt, Deserved
\* The disconnected blocks stay at hand.
<1>7. ASSUME job'.old = job.old, job'.before = job.before,
             pool \cup Mined(main) \subseteq pool' \cup Mined(main'),
             NEW c, NEW d, Kept(c), d \o job.old = c \o job.old
      PROVE  /\ d \o job'.old = job'.before
             /\ \A i \in DOMAIN job'.old : TxsOf(job'.old[i]) \subseteq pool' \cup Mined(main')
  BY <1>7, Zenon DEF Kept
<1>8. ASSUME job.step \in {"disconnect", "rollback"}, main /= SplitAt
      PROVE  main /= << >> /\ Top(main) \in Block
  <2>1. IsPrefixOf(SplitAt, main)
    BY <1>1, <1>8, Zenon DEF Splits
  <2> QED BY <1>3, <1>4, <1>8, <2>1, PopKeepsPrefix, Zenon
<1>9. CASE Disconnect
  <2>1. job.step = "disconnect" /\ Kept(main)
    BY <1>9, Zenon DEF Disconnect, JobInv
  <2>2. CASE main /= SplitAt
    <3>1. pop_block_from_blockchain /\ job' = [job EXCEPT !.old = <<Top(main)>> \o job.old]
      BY <1>9, <2>2, Zenon DEF Disconnect
    <3>2. /\ job'.step = "disconnect" /\ job'.old = <<Top(main)>> \o job.old
          /\ job.next = 1 /\ job'.next = job.next
          /\ job'.chain = job.chain /\ job'.before = job.before
      BY <1>3, <2>1, <3>1, Zenon DEF Job, JobInv
    <3>3. main' \o job'.old = job'.before
      BY <1>3, <1>8, <2>1, <2>2, <3>1, <3>2, MoveLeft, ZenonT(60) DEF Kept, pop_block_from_blockchain
    <3>4. /\ pool \cup Mined(main) \subseteq pool' \cup Mined(main')
          /\ TxsOf(Top(main)) \subseteq pool'
      BY <1>3, <1>8, <2>1, <2>2, <3>1, PopLosesNone, ZenonT(60)
    <3>5. ASSUME NEW i \in DOMAIN job'.old
          PROVE  TxsOf(job'.old[i]) \subseteq pool' \cup Mined(main')
      <4>1. CASE i = 1
        <5>1. job'.old[i] = Top(main)
          BY <1>3, <3>2, <4>1
        <5> QED BY <3>4, <5>1, Zenon
      <4>2. CASE i /= 1
        <5>1. i - 1 \in DOMAIN job.old /\ job'.old[i] = job.old[i - 1]
          BY <1>3, <3>2, <4>2
        <5> QED BY <2>1, <3>4, <5>1, ZenonT(60) DEF Kept
      <4> QED BY <4>1, <4>2, Zenon
    <3>6. Kept(main)'
      BY <3>3, <3>5, Zenon DEF Kept
    <3> QED BY <1>6, <3>2, <3>6, Zenon DEF JobInv
  <2>3. CASE main = SplitAt
    <3>1. job' = [job EXCEPT !.step = "connect"] /\ main' = main /\ pool' = pool
      BY <1>9, <2>3, Zenon DEF Disconnect, Go
    <3>2. /\ job'.step = "connect" /\ job'.old = job.old /\ job'.next = job.next
          /\ job'.chain = job.chain /\ job'.before = job.before
      BY <1>3, <3>1, Zenon DEF Job
    <3>3. Kept(SplitAt)'
      BY <1>6, <2>1, <2>3, <3>1, <3>2, Zenon DEF Kept
    <3>4. Reached'
      BY <1>6, <2>1, <2>3, <3>1, <3>2, ZenonT(60) DEF Reached, JobInv
    <3> QED BY <1>6, <3>2, <3>3, <3>4, Zenon DEF JobInv
  <2> QED BY <2>2, <2>3, Zenon
<1>10. CASE Rollback
  <2>1. job.step = "rollback" /\ Kept(SplitAt)
    BY <1>10, Zenon DEF Rollback, JobInv
  <2>2. CASE main /= SplitAt
    <3>1. pop_block_from_blockchain /\ job' = job
      BY <1>10, <2>2, Zenon DEF Rollback
    <3>2. pool \cup Mined(main) \subseteq pool' \cup Mined(main')
      BY <1>3, <1>8, <2>1, <2>2, <3>1, PopLosesNone, ZenonT(60)
    <3>3. Kept(SplitAt)'
      BY <1>6, <1>7, <2>1, <3>1, <3>2, Zenon DEF Kept
    <3> QED BY <1>6, <2>1, <3>1, <3>3 DEF JobInv
  <2>3. CASE main = SplitAt
    <3>1. job' = [job EXCEPT !.step = "restore"] /\ main' = main /\ pool' = pool
      BY <1>10, <2>3, Zenon DEF Rollback, Go
    <3>2. /\ job'.step = "restore" /\ job'.old = job.old
          /\ job'.chain = job.chain /\ job'.before = job.before
      BY <1>3, <3>1, Zenon DEF Job
    <3>3. Kept(main)'
      BY <2>1, <2>3, <3>1, <3>2, Zenon DEF Kept
    <3> QED BY <1>6, <3>2, <3>3, Zenon DEF JobInv
  <2> QED BY <2>2, <2>3
<1>11. CASE Connect
  <2>1. job.step = "connect" /\ job.next \in 1..Len(job.chain) /\ Kept(SplitAt)
    BY <1>3, <1>11 DEF Connect, JobInv
  <2>2. PICK b \in Block : b = job.chain[job.next]
    BY <1>3, <2>1
  <2>3. CASE Accepts(b, main, pool)
    <3>1. PushBlock(b, pool) /\ job' = [job EXCEPT !.next = job.next + 1]
      BY <1>11, <2>2, <2>3, Zenon DEF Connect
    <3>2. /\ job'.step = "connect" /\ job'.old = job.old /\ job'.next = job.next + 1
          /\ job'.chain = job.chain /\ job'.before = job.before
      BY <1>3, <2>1, <3>1, Zenon DEF Job
    <3>3. Kept(SplitAt)'
      BY <1>3, <1>6, <1>7, <2>1, <3>1, <3>2, PushLosesNone, Zenon DEF Kept
    <3>4. Reached'
      <4>1. main' = Append(main, b)
        BY <3>1, Zenon DEF PushBlock
      <4>2. main' /= << >> /\ Top(main') = b
        <5>1. main \in Seq(Block)
          BY <1>3, Zenon
        <5> QED BY <4>1, <5>1 DEF Top
      <4>3. job'.next /= 1 /\ job'.chain[job'.next - 1] = b
        BY <2>1, <2>2, <3>2
      <4> QED BY <4>2, <4>3, Zenon DEF Reached
    <3> QED BY <1>6, <3>2, <3>3, <3>4, Zenon DEF JobInv
  <2>4. CASE ~ Accepts(b, main, pool)
    <3>1. job' = [job EXCEPT !.step = "rollback"] /\ main' = main /\ pool' = pool
      BY <1>11, <2>2, <2>4, Zenon DEF Connect, Go
    <3>2. /\ job'.step = "rollback" /\ job'.old = job.old
          /\ job'.chain = job.chain /\ job'.before = job.before
      BY <1>3, <3>1, Zenon DEF Job
    <3>3. Kept(SplitAt)'
      BY <1>6, <2>1, <3>1, <3>2, Zenon DEF Kept
    <3> QED BY <1>6, <3>2, <3>3, Zenon DEF JobInv
  <2> QED BY <2>3, <2>4, Zenon
<1>12. CASE Connected
  <2>1. /\ job.step = "connect" /\ job.next = Len(job.chain) + 1 /\ Reached
        /\ job' = [job EXCEPT !.step = "keep"] /\ main' = main
    BY <1>3, <1>12 DEF Connected, Go, JobInv
  <2>2. /\ job'.step = "keep" /\ job'.chain = job.chain /\ job'.before = job.before
    BY <1>3, <2>1, Zenon DEF Job
  <2>3. main /= << >> /\ Top(main) = Top(job.chain)
    BY <1>3, <2>1 DEF Reached, Top
  <2>4. main = Path[Top(job.chain)]
    BY <1>1, <2>3, Zenon DEF Good, Linked
  <2> QED BY <1>6, <2>1, <2>2, <2>4, Zenon DEF JobInv
<1>13. CASE Restore
  <2>1. job.step = "restore" /\ Kept(main)
    BY <1>13, Zenon DEF Restore, JobInv
  <2>2. CASE job.old = << >>
    <3>1. job' = [job EXCEPT !.step = "blame"] /\ main' = main
      BY <1>13, <2>2, Zenon DEF Restore, Go
    <3>2. job'.step = "blame" /\ job'.chain = job.chain /\ job'.before = job.before
      BY <1>3, <3>1, Zenon DEF Job
    <3>3. main = job.before
      BY <1>3, <2>1, <2>2 DEF Kept
    <3> QED BY <1>6, <3>1, <3>2, <3>3, Zenon DEF JobInv
  <2>3. CASE job.old /= << >> /\ Len(main) + 1 \in Failing(job.before, points)
    <3>1. main = << >> /\ 1 \in Failing(job.before, points) /\ Len(main) + 1 = 1
      <4>1. Len(main) + 1 = 1
        BY <1>5, <2>3, Zenon
      <4> QED BY <1>3, <2>3, <4>1
    <3>2. Head(job.old) = job.before[1]
      BY <1>3, <2>1, <2>3, <3>1 DEF Kept
    <3>3. ~ check_block(1, Head(job.old))
      BY <3>1, <3>2, Zenon DEF Failing, check_block
    <3>4. job' = [job EXCEPT !.step = "blame"] /\ main' = main
      BY <1>13, <3>1, <3>3, Zenon DEF Restore, Go, Accepts
    <3>5. job'.step = "blame" /\ job'.chain = job.chain /\ job'.before = job.before
      BY <1>3, <3>4, Zenon DEF Job
    <3>6. Lost'
      BY <1>2, <3>1, <3>4, <3>5, Zenon DEF Lost
    <3> QED BY <1>6, <3>5, <3>6, Zenon DEF JobInv
  <2>4. CASE job.old /= << >> /\ Len(main) + 1 \notin Failing(job.before, points)
    <3>1. Head(job.old) = job.old[1] /\ job.old[1] \in Block /\ 1 \in DOMAIN job.old
      BY <1>3, <2>4
    <3>2. Accepts(Head(job.old), main, pool)
      BY <1>3, <1>5, <2>1, <2>4, <3>1, AcceptedAgain, ZenonT(60) DEF Kept
    <3>3. PushBlock(Head(job.old), pool) /\ job' = [job EXCEPT !.old = Tail(job.old)]
      BY <1>13, <2>4, <3>2, Zenon DEF Restore
    <3>4. /\ job'.step = "restore" /\ job'.old = Tail(job.old)
          /\ job'.chain = job.chain /\ job'.before = job.before
      BY <1>3, <2>1, <3>3, Zenon DEF Job
    <3>5. main' \o job'.old = job'.before
      BY <1>3, <2>1, <2>4, <3>3, <3>4, MoveRight, ZenonT(60) DEF Kept, PushBlock
    <3>6. pool \cup Mined(main) \subseteq pool' \cup Mined(main')
      BY <1>3, <3>1, <3>3, PushLosesNone, Zenon
    <3>7. ASSUME NEW i \in DOMAIN job'.old
          PROVE  TxsOf(job'.old[i]) \subseteq pool' \cup Mined(main')
      <4>1. i + 1 \in DOMAIN job.old /\ job'.old[i] = job.old[i + 1]
        BY <1>3, <2>4, <3>4
      <4> QED BY <2>1, <3>6, <4>1, Zenon DEF Kept
    <3>8. Kept(main)'
      BY <3>5, <3>7 DEF Kept
    <3> QED BY <1>6, <3>4, <3>8, Zenon DEF JobInv
  <2> QED BY <2>2, <2>3, <2>4, Zenon
<1> QED BY <1>9, <1>10, <1>11, <1>12, <1>13, Zenon

\* The other steps end the switch, leave it alone, or need the lock it holds.
LEMMA OtherJob ==
  ASSUME IInv, JobInv, [Next]_vars,
         ~ (Disconnect \/ Connect \/ Connected \/ Rollback \/ Restore),
         \A b \in Block : ~ AddAlternative(b)
  PROVE  JobInv'
<1>1. TypeOK
  BY Zenon DEF IInv
<1>2. job \in Job /\ (~ Idle => disk /= << >>)
  BY <1>1, Zenon DEF TypeOK
<1>3. NoJob.step = "idle"
  BY Zenon DEF NoJob
<1>4. ASSUME job'.step = "idle" PROVE JobInv'
  BY <1>4, Zenon DEF JobInv, Idle
<1>5. CASE UNCHANGED <<main, pool, points, job>>
  BY <1>5, Zenon DEF JobInv, Idle, Deserved, Kept, Reached, Lost, SplitAt
<1>6. CASE Blame \/ Finish
  BY <1>3, <1>4, <1>6, Zenon DEF Blame, Finish
<1>7. CASE Keep
  <2>1. /\ job.step = "keep" /\ job' = [job EXCEPT !.old = Tail(job.old)]
        /\ main' = main /\ points' = points
    BY <1>7, Zenon DEF Keep
  <2>2. /\ job'.step = "keep" /\ job'.chain = job.chain /\ job'.before = job.before
    BY <1>2, <2>1, Zenon DEF Job
  <2> QED BY <2>1, <2>2, Zenon DEF JobInv, Idle, Deserved
<1>8. ASSUME NEW b \in Block, AddToMain(b) PROVE JobInv'
  BY <1>4, <1>8, Zenon DEF AddToMain, Arrives, Idle
<1>9. ASSUME NEW pts \in Releases, UpdateCheckpoints(pts) PROVE JobInv'
  BY <1>4, <1>9, Zenon DEF UpdateCheckpoints, Idle
<1>10. ASSUME NEW pts \in Releases, NEW keep \in BOOLEAN, Restart(pts, keep) PROVE JobInv'
  BY <1>3, <1>4, <1>10, Zenon DEF Restart
<1>11. CASE OpenBatch \/ CloseBatch \/ flush_invalid_blocks
  BY <1>5, <1>11, Zenon DEF OpenBatch, CloseBatch, flush_invalid_blocks
<1>12. ASSUME NEW x \in Tx, LoseTx(x) PROVE JobInv'
  BY <1>2, <1>4, <1>12, Zenon DEF LoseTx, Idle
<1>13. ASSUME NEW n \in 1..Len(main), pop_blocks(n) PROVE JobInv'
  BY <1>2, <1>4, <1>13, Zenon DEF pop_blocks, Idle
<1>14. CASE UNCHANGED vars
  BY <1>5, <1>14, Zenon DEF vars
<1> QED BY <1>6, <1>7, <1>8, <1>9, <1>10, <1>11, <1>12, <1>13, <1>14 DEF Next

\* Every step keeps what the refinement needs.
LEMMA NextLInv ==
  ASSUME IInv, CheckpointsHold, LInv, [Next]_vars
  PROVE  LInv'
<1>1. Clean(main) /\ DiskClean /\ JobInv
  BY Zenon DEF LInv
<1>2. Clean(main') /\ DiskClean'
  BY <1>1, NextClean, Zenon
<1>3. JobInv'
  BY <1>1, StartedJob, SwitchingJob, OtherJob, Zenon
<1> QED BY <1>2, <1>3, Zenon DEF LInv

-----------------------------------------------------------------------------
(* The refinement.                                                           *)

\* The chain that checkpoints leave is the whole chain, or a shorter one when
\* the chain fails a checkpoint above the first block.
LEMMA EnforcedPromised ==
  ASSUME NEW c, Good(c), NEW pts \in Releases
  PROVE  enforced(c, pts) \in Promised!Enforced(c, pts)
<1>1. c \in Seq(Block) /\ Len(c) \in Nat
  BY DEF Good
<1>2. \A d : Promised!RuledOut(d, pts) = Failing(d, pts)
  BY Zenon DEF Promised!RuledOut, Failing
<1>3. PICK n \in Int : n <= Len(c) /\ enforced(c, pts) = SubSeq(c, 1, n)
  BY <1>1, EnforcedPrefix, Zenon
<1>4. SubSeq(c, 1, n) \in Promised!CutOf(c)
  <2>1. CASE n >= 0
    BY <1>1, <1>3, <2>1 DEF Promised!CutOf
  <2>2. CASE n < 0
    <3>1. SubSeq(c, 1, n) = SubSeq(c, 1, 0)
      BY <1>1, <1>3, <2>2, PrefixType, SeqEqual
    <3>2. 0 \in 0..Len(c)
      BY <1>1
    <3> QED BY <3>1, <3>2, Zenon DEF Promised!CutOf
  <2> QED BY <1>3, <2>1, <2>2
<1>5. /\ Failing(c, pts) \subseteq {1} => enforced(c, pts) = c
      /\ Failing(enforced(c, pts), pts) \subseteq {1}
  BY EnforcedAgrees, Zenon
<1>6. CASE Failing(c, pts) \subseteq {1}
  <2>1. Promised!Enforced(c, pts) = {c}
    BY <1>2, <1>6, Zenon DEF Promised!Enforced
  <2> QED BY <1>5, <1>6, <2>1, Zenon
<1>7. CASE ~ (Failing(c, pts) \subseteq {1})
  <2>1. Promised!Enforced(c, pts)
          = {d \in Promised!CutOf(c) : Promised!RuledOut(d, pts) \subseteq {1}}
    BY <1>2, <1>7, Zenon DEF Promised!Enforced
  <2> QED BY <1>2, <1>3, <1>4, <1>5, <2>1, Zenon
<1> QED BY <1>6, <1>7, Zenon

\* Every step of the blockchain is a step of the ledger or leaves it alone.
LEMMA NextPromised ==
  ASSUME IInv, LInv, [Next]_vars
  PROVE  [Promised!Next]_(Promised!ledger)
<1> DEFINE chain == IF Idle THEN main ELSE job.before
           saved == IF disk = << >> THEN << >> ELSE <<disk[1].main>>
<1>1. /\ TypeOK /\ Good(main) /\ DiskGood /\ JobInv
      /\ main \in Seq(Block) /\ job \in Job /\ points \in Releases
      /\ (~ Idle => disk /= << >> /\ job.chain \in Seq(Block) /\ job.chain /= << >>)
  BY Zenon DEF IInv, LInv, TypeOK, Job
<1>2. NoJob.step = "idle"
  BY Zenon DEF NoJob
<1>3. saved /= << >> <=> disk /= << >>
  BY Zenon
<1>4. CASE UNCHANGED <<chain, saved, points>>
  BY <1>4, Zenon DEF Promised!ledger
<1>5. ASSUME chain' = chain, disk' = disk, points' = points PROVE UNCHANGED <<chain, saved, points>>
  BY <1>5, Zenon
<1>6. CASE UNCHANGED vars
  BY <1>4, <1>6, Zenon DEF vars, Idle
<1>7. ASSUME NEW b \in Block, AddToMain(b) PROVE [Promised!Next]_(Promised!ledger)
  <2>1. Idle /\ Idle' /\ disk /= << >> /\ disk' = disk /\ points' = points
    BY <1>7, Zenon DEF AddToMain, Arrives, Idle
  <2>2. CASE main' = main
    BY <1>4, <1>5, <2>1, <2>2, Zenon
  <2>3. CASE main' /= main
    <3>1. Accepts(b, main, Arrived(b)) /\ main' = Append(main, b)
      BY <1>7, <2>3, Zenon DEF AddToMain, PushBlock
    <3>2. Good(main')
      BY <1>1, <3>1, AcceptedGood, Zenon
    <3>3. main' /= << >> /\ Top(main') = b
      BY <1>1, <3>1 DEF Top
    <3>4. Path[b] = Append(main, b)
      BY <3>1, <3>2, <3>3, Zenon DEF Good, Linked
    <3>5. chain = main /\ chain' = main' /\ saved' = saved
      BY <2>1, Zenon
    <3>6. Promised!Extend(b)
      BY <1>3, <2>1, <3>1, <3>4, <3>5, ZenonT(60) DEF Promised!Extend
    <3> QED BY <3>6, Zenon DEF Promised!Next
  <2> QED BY <2>2, <2>3, Zenon
<1>8. ASSUME NEW b \in Block, AddAlternative(b) PROVE [Promised!Next]_(Promised!ledger)
  <2>1. Idle /\ disk' = disk /\ points' = points /\ main' = main
    BY <1>8, Zenon DEF AddAlternative, Arrives
  <2>2. job' = job \/ (job'.step = "disconnect" /\ job'.before = main)
    BY <1>8 DEF AddAlternative
  <2>3. chain' = chain
    BY <2>1, <2>2, Zenon DEF Idle
  <2> QED BY <1>4, <1>5, <2>1, <2>3, Zenon
<1>9. CASE Disconnect \/ Connect \/ Connected \/ Rollback \/ Restore \/ Keep
  <2>1. ~ Idle /\ disk' = disk /\ points' = points
    BY <1>9, Zenon DEF Disconnect, Connect, Connected, Rollback, Restore, Keep, Idle
  <2>2. ~ Idle' /\ job'.before = job.before
    BY <1>1, <1>9, Zenon DEF Disconnect, Connect, Connected, Rollback, Restore, Keep, Go, Idle, Job
  <2>3. chain' = chain
    BY <2>1, <2>2, Zenon
  <2> QED BY <1>4, <1>5, <2>1, <2>3, Zenon
<1>10. CASE Blame
  <2>1. ~ Idle /\ Idle' /\ disk' = disk /\ points' = points /\ main' = main
    BY <1>2, <1>10, Zenon DEF Blame, Idle
  <2>2. CASE main = job.before
    <3>1. chain' = chain
      BY <2>1, <2>2, Zenon
    <3> QED BY <1>4, <1>5, <2>1, <3>1, Zenon
  <2>3. CASE Lost
    <3>1. chain = job.before /\ chain' = << >> /\ saved' = saved
      BY <2>1, <2>3, Zenon DEF Lost
    <3>2. 1 \in Promised!RuledOut(job.before, points)
      BY <2>3, Zenon DEF Lost, Failing, Promised!RuledOut
    <3>3. Promised!Lose
      BY <1>1, <1>3, <2>1, <3>1, <3>2, Zenon DEF Promised!Lose
    <3> QED BY <3>3, Zenon DEF Promised!Next
  <2> QED BY <1>1, <1>10, <2>2, <2>3, Zenon DEF Blame, JobInv
<1>11. CASE Finish
  <2>1. ~ Idle /\ Idle' /\ disk' = disk /\ points' = points /\ main' = main
    BY <1>2, <1>11, Zenon DEF Finish, Idle
  <2>2. PICK b \in Block : b = Top(job.chain)
    BY <1>1, <2>1 DEF Top
  <2>3. main = Path[b] /\ Deserved(b, job.before)
    BY <1>1, <1>11, <2>1, <2>2 DEF Finish, JobInv
  <2>4. chain = job.before /\ chain' = main /\ saved' = saved
    BY <2>1, Zenon
  <2>5. WorkOf(job.before) = Promised!WorkOf(job.before)
    BY Zenon DEF WorkOf, Promised!WorkOf, Top
  <2>6. Promised!SwitchTo(b)
    BY <1>1, <1>3, <2>1, <2>3, <2>4, <2>5, ZenonT(60) DEF Promised!SwitchTo, Deserved
  <2> QED BY <2>6, Zenon DEF Promised!Next
<1>12. CASE flush_invalid_blocks \/ \E x \in Tx : LoseTx(x)
  BY <1>4, <1>12, Zenon DEF flush_invalid_blocks, LoseTx, Idle
<1>13. CASE OpenBatch
  <2>1. Idle /\ Idle' /\ main' = main /\ points' = points /\ disk = << >>
    BY <1>1, <1>13, Zenon DEF OpenBatch, Idle
  <2>2. disk' /= << >> /\ disk'[1].main = main
    BY <1>13, Zenon DEF OpenBatch
  <2>3. Promised!Open
    BY <2>1, <2>2, Zenon DEF Promised!Open
  <2> QED BY <2>3, Zenon DEF Promised!Next
<1>14. CASE CloseBatch
  <2>1. Promised!Close
    BY <1>14, Zenon DEF CloseBatch, Promised!Close, Idle
  <2> QED BY <2>1, Zenon DEF Promised!Next
<1>15. ASSUME NEW n \in 1..Len(main), pop_blocks(n) PROVE [Promised!Next]_(Promised!ledger)
  <2>1. /\ disk = << >> /\ disk' = disk /\ points' = points /\ Idle /\ Idle'
        /\ main' = SubSeq(main, 1, Len(main) - n) /\ Len(main) - n \in 0..Len(main)
    BY <1>1, <1>15 DEF pop_blocks, Idle
  <2>2. main' \in Promised!CutOf(main)
    BY <2>1, Zenon DEF Promised!CutOf
  <2>3. Promised!Pop
    BY <2>1, <2>2, Zenon DEF Promised!Pop
  <2> QED BY <2>3, Zenon DEF Promised!Next
<1>16. ASSUME NEW pts \in Releases, UpdateCheckpoints(pts)
       PROVE  [Promised!Next]_(Promised!ledger)
  <2>1. /\ disk /= << >> /\ disk' = disk /\ points' = pts /\ Idle /\ Idle'
        /\ main' = enforced(main, pts)
    BY <1>16, Zenon DEF UpdateCheckpoints, Idle
  <2>2. main' \in Promised!Enforced(main, pts)
    BY <1>1, <2>1, EnforcedPromised
  <2>3. Promised!Release(pts)
    BY <1>3, <2>1, <2>2, Zenon DEF Promised!Release
  <2> QED BY <2>3, Zenon DEF Promised!Next
<1>17. ASSUME NEW pts \in Releases, NEW keep \in BOOLEAN, Restart(pts, keep)
       PROVE  [Promised!Next]_(Promised!ledger)
  <2>1. PICK c : c = IF disk = << >> THEN main ELSE disk[1].main
    BY Zenon
  <2>2. Good(c)
    BY <1>1, <2>1, Zenon DEF DiskGood
  <2>3. main' = enforced(c, pts) /\ disk' = << >> /\ points' = pts /\ Idle'
    BY <1>2, <1>17, <2>1, Zenon DEF Restart, Idle
  <2>4. main' \in Promised!Enforced(c, pts)
    BY <2>2, <2>3, EnforcedPromised, Zenon
  <2>5. c = IF saved = << >> THEN chain ELSE saved[1]
    BY <1>1, <2>1, Zenon
  <2>6. Promised!Recover(pts)
    BY <2>3, <2>4, <2>5, Zenon DEF Promised!Recover
  <2> QED BY <2>6, Zenon DEF Promised!Next
<1> QED BY <1>6, <1>7, <1>8, <1>9, <1>10, <1>11, <1>12, <1>13, <1>14, <1>15, <1>16, <1>17, ZenonT(60) DEF Next

-----------------------------------------------------------------------------

\* The blockchain, for every tree of blocks and whatever the releases, implements
\* the ledger: nobody ever sees a switch half done, and a switch that is given up
\* leaves no trace in the chain, unless a checkpoint rules out its first block:
\* then nothing of the chain is left.
THEOREM BlockchainImplementsLedger == Spec => ImplementsLedger
<1>1. Init => LInv
  BY DEF Init, LInv, Clean, DiskClean, JobInv, NoJob, Idle
<1>2. IInv /\ CheckpointsHold /\ LInv /\ [Next]_vars => LInv'
  BY NextLInv, Zenon
<1>3. Init => Promised!Init
  BY DEF Init, NoJob, Idle, Promised!Init
<1>4. IInv /\ LInv /\ [Next]_vars => [Promised!Next]_(Promised!ledger)
  BY NextPromised, Zenon
<1> QED
  BY <1>1, <1>2, <1>3, <1>4, InvariantHolds, CheckpointsAlwaysHold, PTL
     DEF Spec, ImplementsLedger, Promised!Spec

-----------------------------------------------------------------------------
(* The blocks of the two chains of a switch.  What has to be known is that   *)
(* they share no block above the split, that no alternative block is in the  *)
(* main chain, and that a checkpoint which the old chain could have reached  *)
(* does not lie above the new one.                                           *)

\* A switch goes from the chain before to the path of its last block.  They
\* part above SplitAt and share no block there, no checkpoint that the old
\* chain could have reached lies above the new one, and the new chain has more
\* work unless the switch is for a checkpoint.
Branch ==
  LET path == Path[Top(job.chain)] IN
  /\ Len(SplitAt) < Len(path) /\ Len(SplitAt) <= Len(job.before)
  /\ \A i \in 1..Len(SplitAt) : SplitAt[i] = path[i] /\ SplitAt[i] = job.before[i]
  /\ \A i \in (Len(SplitAt) + 1)..Len(path) : path[i] \in Blocks(job.chain)
  /\ Blocks(job.chain) \cap Blocks(job.before) = {}
  /\ \A h \in DOMAIN points : h <= Len(job.before) + 1 => h < Len(path)
  /\ ~ job.discard => Work[Top(job.chain)] > WorkOf(job.before)

\* The blocks that the switch has disconnected.
Left == {job.before[i] : i \in (Len(SplitAt) + 1)..Len(job.before)}

\* While they are kept, job.old is the rest of them; the others have become
\* alternative blocks if all of them may.
Rest ==
  /\ Len(job.old) <= Len(job.before) - Len(SplitAt)
  /\ \A i \in 1..Len(job.old) : job.old[i] = job.before[Len(job.before) - Len(job.old) + i]
  /\ (\A b \in Left : is_alternative_block_allowed(b)) =>
        \A i \in (Len(SplitAt) + 1)..(Len(job.before) - Len(job.old)) : job.before[i] \in alt

\* No block is both in the main chain and an alternative one, but for the
\* blocks that a switch is moving.
Apart ==
  /\ Idle => Blocks(main) \cap alt = {}
  /\ disk /= << >> => Blocks(disk[1].main) \cap disk[1].alt = {}
  /\ ~ Idle => Blocks(IF job.step = "keep" THEN SplitAt ELSE job.before) \cap alt = {}

KInv == Apart /\ (~ Idle => Branch) /\ (job.step = "keep" => Rest)

\* The blocks of a chain are at the heights of their paths, and the path of
\* each is the chain up to it.
LEMMA Heights ==
  ASSUME NEW c, Good(c), NEW i \in 1..Len(c)
  PROVE  /\ c[i] \in Block /\ Len(Path[c[i]]) = i
         /\ \A j \in 1..i : Path[c[i]][j] = c[j]
<1>1. c \in Seq(Block) /\ c /= << >> /\ Top(c) \in Block
  BY DEF Good, Top
<1>2. c = Path[Top(c)]
  BY <1>1, Zenon DEF Good, Linked
<1>3. c[i] \in Block /\ Path[c[i]] = SubSeq(c, 1, i)
  BY <1>1, <1>2, PathFacts, ZenonT(60)
<1>4. i \in Int /\ i <= Len(c) /\ i > 0
  BY <1>1
<1>5. Len(SubSeq(c, 1, i)) = i /\ \A j \in 1..i : SubSeq(c, 1, i)[j] = c[j]
  BY <1>1, <1>4, PrefixType
<1> QED BY <1>3, <1>5, Zenon

\* An alternative block that starts a switch starts it in this order.
LEMMA StartedBranch ==
  ASSUME IInv, KInv, NEW b \in Block, AddAlternative(b)
  PROVE  KInv'
<1>1. TypeOK /\ Idle /\ disk /= << >> /\ b \notin Blocks(main) \cup alt
  BY Zenon DEF IInv, AddAlternative, Arrives, have_block
<1>2. main' = main /\ points' = points /\ disk' = disk
  BY Zenon DEF AddAlternative
<1>3. /\ Blocks(main) \cap alt = {} /\ alt' \subseteq alt \cup {b}
      /\ Blocks(disk[1].main) \cap disk[1].alt = {}
  BY <1>1, Zenon DEF KInv, Apart, AddAlternative
<1>4. Blocks(main') \cap alt' = {}
  BY <1>1, <1>2, <1>3, Zenon
<1>5. CASE job' = job
  BY <1>1, <1>2, <1>3, <1>4, <1>5, ZenonT(60) DEF KInv, Apart, Idle
<1>6. CASE job' /= job
  <2>1. /\ AltAccepts(b) /\ (is_a_checkpoint(b) \/ Work[b] > WorkOf(main))
        /\ job' = [step |-> "disconnect", chain |-> AltChain(b),
                   next |-> 1, old |-> << >>,
                   discard |-> is_a_checkpoint(b), before |-> main]
    BY <1>6, Zenon DEF AddAlternative
  <2>2. /\ job'.step = "disconnect" /\ job'.before = main /\ job'.chain = AltChain(b)
        /\ job'.discard = is_a_checkpoint(b)
    BY <2>1, Zenon
  <2>3. PICK n : n = Fork(b)
    BY Zenon
  <2>4. PICK q : q = Path[b]
    BY Zenon
  <2>5. /\ n \in 0..(Len(q) - 1) /\ q \in Seq(Block) /\ Len(q) \in Nat \ {0}
        /\ SplitAt' = SubSeq(q, 1, n)
    BY <2>2, <2>3, <2>4, AltChainFacts, PathFacts, ZenonT(60) DEF SplitAt
  <2>6. PICK s : s = SubSeq(q, 1, n)
    BY Zenon
  <2>7. n \in Nat /\ n < Len(q) /\ Len(s) = n /\ s \in Seq(Block)
        /\ \A i \in 1..n : s[i] = q[i]
    BY <2>5, <2>6, PrefixType
  <2>8. n <= Len(main) /\ s = SubSeq(main, 1, n)
    BY <2>1, <2>3, <2>4, <2>6, <2>7, ZenonT(60) DEF AltAccepts, build_alt_chain, Connects, IsPrefixOf
  <2>9. \A i \in 1..n : s[i] = main[i]
    BY <1>1, <2>7, <2>8, PrefixType DEF TypeOK
  <2>10. /\ Top(AltChain(b)) = b /\ Blocks(AltChain(b)) \subseteq alt \cup {b}
         /\ \A i \in (n + 1)..Len(q) : q[i] \in Blocks(AltChain(b))
    BY <2>3, <2>4, AltChainBlocks, Zenon
  <2>11. \A h \in DOMAIN points : h <= Len(main) + 1 => h < Len(q)
    BY <2>1, <2>4, Zenon DEF AltAccepts, is_alternative_block_allowed
  <2>12. Blocks(AltChain(b)) \cap Blocks(main) = {}
    BY <1>1, <1>3, <2>10, Zenon
  <2>13. SplitAt' = s /\ Path[Top(job'.chain)] = q /\ Top(job'.chain) = b
    BY <2>2, <2>4, <2>5, <2>6, <2>10, ZenonT(60)
  <2>14. Branch'
    BY <1>2, <2>1, <2>2, <2>7, <2>8, <2>9, <2>10, <2>11, <2>12, <2>13, ZenonT(60) DEF Branch
  <2>15. Apart'
    BY <1>1, <1>2, <1>3, <1>4, <2>2, ZenonT(60) DEF Apart, Idle
  <2> QED BY <2>2, <2>14, <2>15, Zenon DEF KInv
<1> QED BY <1>5, <1>6, Zenon

\* What is known of the two chains once the new one is connected: the main
\* chain is the new one, and the blocks of the old one are at their heights.
LEMMA KeepFacts ==
  ASSUME IInv, JobInv, KInv, job.step = "keep"
  PROVE  /\ SplitAt \in Seq(Block) /\ job.before \in Seq(Block) /\ job.old \in Seq(Block)
         /\ Top(job.chain) \in Block /\ main = Path[Top(job.chain)] /\ main \in Seq(Block)
         /\ Good(job.before) /\ Branch /\ Rest /\ Blocks(SplitAt) \cap alt = {}
         /\ DOMAIN main = 1..Len(main) /\ DOMAIN job.before = 1..Len(job.before)
         /\ DOMAIN SplitAt = 1..Len(SplitAt)
<1>1. TypeOK /\ ~ Idle
  BY Zenon DEF IInv, Idle
<1>2. /\ job.before \in Seq(Block) /\ job.old \in Seq(Block) /\ job.chain \in Seq(Block)
      /\ job.chain /= << >> /\ main \in Seq(Block)
  BY <1>1, Zenon DEF TypeOK, Job
<1>3. SplitAt \in Seq(Block)
  BY <1>1, SplitType, Zenon
<1>4. Top(job.chain) \in Block
  BY <1>2 DEF Top
<1>5. main = Path[Top(job.chain)] /\ Good(job.before)
  BY <1>1, Zenon DEF JobInv
<1>6. Branch /\ Rest /\ Blocks(SplitAt) \cap alt = {}
  BY <1>1, Zenon DEF KInv, Apart
<1>7. /\ DOMAIN main = 1..Len(main) /\ DOMAIN job.before = 1..Len(job.before)
      /\ DOMAIN SplitAt = 1..Len(SplitAt)
  BY <1>2, <1>3
<1> QED BY <1>2, <1>3, <1>4, <1>5, <1>6, <1>7, ZenonT(60)

\* A disconnected block is not in the main chain any more.
LEMMA LeftIsOff ==
  ASSUME IInv, JobInv, KInv, job.step = "keep",
         NEW i \in (Len(SplitAt) + 1)..Len(job.before)
  PROVE  job.before[i] \in Block /\ job.before[i] \notin Blocks(main)
<1>1. PICK n : n = Len(SplitAt)
  BY Zenon
<1>2. n \in Nat /\ i \in 1..Len(job.before) /\ i > n /\ n <= Len(job.before)
  BY <1>1, KeepFacts DEF Branch
<1>3. Good(job.before) /\ job.before[i] \in Blocks(job.before)
  BY <1>2, KeepFacts, Zenon DEF Blocks
<1>4. ASSUME NEW j \in 1..Len(main), job.before[i] = main[j] PROVE FALSE
  <2>1. j \in 1..n \/ j \in (n + 1)..Len(main)
    BY <1>2, KeepFacts
  <2>2. CASE j \in (n + 1)..Len(main)
    BY <1>1, <1>3, <1>4, <2>2, KeepFacts, ZenonT(60) DEF Branch
  <2>3. CASE j \in 1..n
    <3>1. job.before[i] = job.before[j]
      BY <1>1, <1>4, <2>3, KeepFacts, ZenonT(60) DEF Branch
    <3>2. j \in 1..Len(job.before) /\ i /= j
      BY <1>2, <2>3, KeepFacts
    <3>3. Len(Path[job.before[i]]) = i
      BY <1>2, <1>3, Heights, Zenon
    <3>4. Len(Path[job.before[j]]) = j
      BY <1>3, <3>2, Heights, Zenon
    <3> QED BY <3>1, <3>2, <3>3, <3>4, ZenonT(60)
  <2> QED BY <2>1, <2>2, <2>3, ZenonT(60)
<1>5. job.before[i] \in Block
  BY <1>2, <1>3, Heights, Zenon
<1> QED BY <1>4, <1>5, KeepFacts, ZenonT(60) DEF Blocks

\* A disconnected block that is checkpointed is not allowed as an alternative
\* block, as the new chain goes beyond it, and none has more work than the new
\* chain.
LEMMA LeftIsLighter ==
  ASSUME IInv, JobInv, KInv, job.step = "keep",
         NEW i \in (Len(SplitAt) + 1)..Len(job.before)
  PROVE  /\ is_alternative_block_allowed(job.before[i]) => ~ is_a_checkpoint(job.before[i])
         /\ ~ job.discard => Work[job.before[i]] <= WorkOf(main)
<1>1. PICK c : c = job.before
  BY Zenon
<1>2. /\ c \in Seq(Block) /\ Good(c) /\ i \in 1..Len(c) /\ Len(c) \in Nat
      /\ DOMAIN c = 1..Len(c) /\ c /= << >> /\ Top(c) \in Block
  BY <1>1, KeepFacts DEF Top
<1>3. Len(Path[c[i]]) = i /\ c[i] \in Block
  BY <1>2, Heights, Zenon
<1>4. ASSUME i \in DOMAIN points, is_alternative_block_allowed(c[i]) PROVE FALSE
  <2>1. i <= Len(c) + 1
    BY <1>2
  <2>2. i < Len(main)
    BY <1>1, <1>4, <2>1, KeepFacts, ZenonT(60) DEF Branch
  <2>3. i <= Len(main) + 1 /\ ~ (i < i)
    BY <1>2, <2>2, KeepFacts
  <2> QED BY <1>3, <1>4, <2>3, Zenon DEF is_alternative_block_allowed
<1>5. ASSUME ~ job.discard PROVE Work[c[i]] <= WorkOf(main)
  <2>1. c = Path[Top(c)]
    BY <1>2, Zenon DEF Good, Linked
  <2>2. Work[c[i]] <= Work[Top(c)]
    BY <1>2, <2>1, WorkAssumption, Zenon
  <2>3. WorkOf(c) = Work[Top(c)]
    BY <1>2, Zenon DEF WorkOf
  <2>4. Work[Top(job.chain)] > Work[Top(c)]
    BY <1>1, <1>5, <2>3, KeepFacts, ZenonT(60) DEF Branch
  <2>5. main /= << >> /\ Top(main) = Top(job.chain)
    BY KeepFacts, PathFacts, ZenonT(60) DEF Top
  <2>6. WorkOf(main) = Work[Top(job.chain)] /\ Top(job.chain) \in Block
    BY <2>5, KeepFacts, Zenon DEF WorkOf
  <2>7. Work[c[i]] \in Nat /\ Work[Top(c)] \in Nat /\ Work[Top(job.chain)] \in Nat
    BY <1>2, <1>3, <2>6, BlockchainAssumption
  <2> QED BY <2>2, <2>4, <2>6, <2>7
<1> QED BY <1>1, <1>3, <1>4, <1>5, ZenonT(60) DEF is_a_checkpoint

\* If all of the disconnected blocks may be alternative blocks, the next one is
\* taken: those below it have been, so that build_alt_chain finds the block at
\* which the chains split.
LEMMA LeftIsTaken ==
  ASSUME IInv, JobInv, KInv, job.step = "keep", job.old /= << >>,
         \A b \in Left : is_alternative_block_allowed(b)
  PROVE  AltAccepts(Head(job.old))
<1>1. PICK n : n = Len(SplitAt)
  BY Zenon
<1>2. PICK m : m = Len(job.before) - Len(job.old) + 1
  BY Zenon
<1>3. PICK c : c = job.before
  BY Zenon
<1>4. Len(job.old) \in Nat \ {0} /\ Head(job.old) = job.old[1] /\ 1 \in 1..Len(job.old)
  BY KeepFacts
<1>5. /\ n \in Nat /\ m \in (n + 1)..Len(c) /\ m \in 1..Len(c)
      /\ Len(c) - Len(job.old) = m - 1
  <2>1. SplitAt \in Seq(Block) /\ c \in Seq(Block) /\ Len(job.old) <= Len(c) - n
    BY <1>1, <1>3, KeepFacts, ZenonT(60) DEF Rest
  <2>2. n \in Nat /\ Len(c) \in Nat
    BY <1>1, <2>1
  <2>3. PICK l \in Nat \ {0} : l = Len(job.old)
    BY <1>4, Zenon
  <2>4. m = Len(c) - l + 1 /\ l <= Len(c) - n
    BY <1>2, <1>3, <2>1, <2>3, ZenonT(60)
  <2>5. m \in (n + 1)..Len(c) /\ m \in 1..Len(c) /\ Len(c) - l = m - 1
    BY <2>2, <2>4
  <2> QED BY <2>2, <2>3, <2>5, Zenon
<1>6. PICK o : o = Head(job.old)
  BY Zenon
<1>7. o = c[m]
  BY <1>2, <1>3, <1>4, <1>6, KeepFacts, ZenonT(60) DEF Rest
<1>8. Good(c) /\ c \in Seq(Block) /\ n <= Len(c) /\ n < Len(main) /\ Len(main) \in Nat
  BY <1>1, <1>3, KeepFacts DEF Branch
<1>9. PICK q : q = Path[o]
  BY Zenon
<1>10. o \in Block /\ Len(q) = m /\ q \in Seq(Block) /\ \A j \in 1..m : q[j] = c[j]
  <2>1. o \in Block /\ Len(q) = m /\ \A j \in 1..m : q[j] = c[j]
    BY <1>5, <1>7, <1>8, <1>9, Heights, ZenonT(60)
  <2> QED BY <1>9, <2>1, PathFacts, Zenon
<1>11. is_alternative_block_allowed(o)
  BY <1>1, <1>3, <1>5, <1>7, ZenonT(60) DEF Left
<1>12. check_block(Len(Path[o]), o)
  BY <1>1, <1>3, <1>5, <1>7, <1>11, LeftIsLighter, ZenonT(60) DEF check_block, is_a_checkpoint
<1>13. Fork(o) = n
  <2>1. PICK S : S = {0} \cup {j \in 1..(m - 1) : q[j] \notin alt}
    BY Zenon
  <2>2. m - 1 \in Nat /\ S \in SUBSET (0..(m - 1)) /\ S /= {}
    BY <1>5, <2>1
  <2>3. Max(S) \in S /\ \A y \in S : y <= Max(S)
    BY <2>2, MaxNat, Zenon
  <2>4. n \in S
    <3>1. CASE n = 0
      BY <2>1, <3>1, Zenon
    <3>2. CASE n /= 0
      <4>1. n \in 1..n /\ n \in 1..(m - 1) /\ n \in 1..m
        BY <1>5, <3>2
      <4>2. q[n] = SplitAt[n]
        BY <1>1, <1>3, <1>10, <4>1, KeepFacts, ZenonT(60) DEF Branch
      <4>3. SplitAt[n] \notin alt
        BY <1>1, <4>1, KeepFacts, ZenonT(60) DEF Blocks
      <4> QED BY <2>1, <4>1, <4>2, <4>3, ZenonT(60)
    <3> QED BY <3>1, <3>2, Zenon
  <2>5. ASSUME NEW y \in S PROVE y <= n
    <3>1. y \in 0..(m - 1)
      BY <2>2, Zenon
    <3>2. CASE y > n
      <4>1. y \in (n + 1)..(m - 1) /\ y \in 1..m /\ y /= 0
        BY <1>5, <3>1, <3>2
      <4>2. c[y] \in alt
        BY <1>1, <1>3, <1>5, <4>1, KeepFacts, ZenonT(60) DEF Rest
      <4> QED BY <1>10, <2>1, <4>1, <4>2, ZenonT(60)
    <3> QED BY <1>5, <3>1, <3>2
  <2>6. Max(S) = n
    <3>1. Max(S) \in 0..(m - 1) /\ Max(S) <= n /\ n <= Max(S)
      BY <2>2, <2>3, <2>4, <2>5, ZenonT(60)
    <3> QED BY <1>5, <3>1
  <2> QED BY <1>9, <1>10, <2>1, <2>6, ZenonT(60) DEF Fork
<1>14. Connects(o)
  <2>1. PICK p : p = SubSeq(q, 1, n)
    BY Zenon
  <2>2. PICK r : r = SubSeq(main, 1, n)
    BY Zenon
  <2>3. /\ n \in Int /\ n <= Len(q) /\ n <= Len(main) /\ \A j \in 1..n : j \in 1..m
        /\ (IF n <= 0 THEN 0 ELSE n) = n
    BY <1>5, <1>8, <1>10
  <2>4. p \in Seq(Block) /\ Len(p) = n /\ \A j \in 1..n : p[j] = q[j]
    BY <1>10, <2>1, <2>3, PrefixType, ZenonT(60)
  <2>5. r \in Seq(Block) /\ Len(r) = n /\ \A j \in 1..n : r[j] = main[j]
    BY <2>2, <2>3, PrefixType, KeepFacts, ZenonT(60)
  <2>6. \A j \in 1..n : q[j] = main[j]
    BY <1>1, <1>3, <1>10, <2>3, KeepFacts, ZenonT(60) DEF Branch
  <2>7. p = r
    BY <2>4, <2>5, <2>6, SeqEqual, ZenonT(60)
  <2> QED BY <1>9, <1>13, <2>1, <2>2, <2>3, <2>4, <2>7, ZenonT(60) DEF Connects, IsPrefixOf
<1>15. Len(main) + 1 > n + 1
  BY <1>5, <1>8
<1>16. build_alt_chain(o)
  BY <1>13, <1>14, <1>15, Zenon DEF build_alt_chain
<1> QED BY <1>6, <1>11, <1>12, <1>16, ZenonT(60) DEF AltAccepts

\* The steps of a switch leave what it is for alone.
LEMMA SwitchingBranch ==
  ASSUME IInv, JobInv, KInv, Disconnect \/ Connect \/ Connected \/ Rollback \/ Restore
  PROVE  KInv'
<1>1. TypeOK /\ ~ Idle /\ job.step /= "keep"
  BY Zenon DEF IInv, Disconnect, Connect, Connected, Rollback, Restore, Idle
<1>2. /\ job \in Job /\ job.chain \in Seq(Block) /\ job.old \in Seq(Block)
      /\ SplitAt \in Seq(Block)
  BY <1>1, SplitType, Zenon DEF TypeOK, Job
<1>3. alt' = alt /\ points' = points /\ disk' = disk
  BY Zenon DEF Disconnect, Connect, Connected, Rollback, Restore
<1>4. Branch /\ Blocks(job.before) \cap alt = {}
  BY <1>1, Zenon DEF KInv, Apart
<1>5. ASSUME job'.chain = job.chain, job'.before = job.before, job'.discard = job.discard
      PROVE  SplitAt' = SplitAt /\ Branch'
  BY <1>3, <1>4, <1>5, Zenon DEF Branch, SplitAt
<1>6. ASSUME job'.chain = job.chain, job'.before = job.before, job'.discard = job.discard,
             job'.step \notin {"idle", "keep"}
      PROVE  KInv'
  BY <1>3, <1>4, <1>5, <1>6, ZenonT(60) DEF KInv, Apart, Idle
<1>7. CASE Disconnect \/ Connect \/ Rollback \/ Restore
  <2>1. ASSUME NEW x, x \notin {"idle", "keep"}, job' = [job EXCEPT !.step = x]
        PROVE  KInv'
    <3>1. /\ job'.chain = job.chain /\ job'.before = job.before
          /\ job'.discard = job.discard /\ job'.step = x
      BY <1>2, <2>1, Zenon DEF Job
    <3> QED BY <1>6, <2>1, <3>1, Zenon
  <2>2. ASSUME NEW x, job' = [job EXCEPT !.old = x] PROVE KInv'
    <3>1. /\ job'.chain = job.chain /\ job'.before = job.before
          /\ job'.discard = job.discard /\ job'.step = job.step
      BY <1>2, <2>2, ZenonT(60) DEF Job
    <3> QED BY <1>1, <1>6, <3>1, Zenon DEF Idle
  <2>3. ASSUME NEW x, job' = [job EXCEPT !.next = x] PROVE KInv'
    <3>1. /\ job'.chain = job.chain /\ job'.before = job.before
          /\ job'.discard = job.discard /\ job'.step = job.step
      BY <1>2, <2>3, Zenon DEF Job
    <3> QED BY <1>1, <1>6, <3>1, Zenon DEF Idle
  <2>4. ASSUME job' = job PROVE KInv'
    BY <1>1, <1>6, <2>4, Zenon DEF Idle
  <2>5. CASE Disconnect
    BY <2>1, <2>2, <2>5, ZenonT(60) DEF Disconnect, Go
  <2>6. CASE Connect
    BY <2>1, <2>3, <2>6, ZenonT(60) DEF Connect, Go
  <2>7. CASE Rollback
    BY <2>1, <2>4, <2>7, ZenonT(60) DEF Rollback, Go
  <2>8. CASE Restore
    BY <2>1, <2>2, <2>8, ZenonT(60) DEF Restore, Go
  <2> QED BY <1>7, <2>5, <2>6, <2>7, <2>8, ZenonT(60)
<1>8. CASE Connected
  <2>1. job.step = "connect" /\ job' = [job EXCEPT !.step = "keep"]
    BY <1>8, Zenon DEF Connected, Go
  <2>2. /\ job'.step = "keep" /\ job'.chain = job.chain /\ job'.before = job.before
        /\ job'.discard = job.discard /\ job'.old = job.old
    BY <1>2, <2>1, Zenon DEF Job
  <2>3. PICK c : c = SplitAt \o job.old
    BY Zenon
  <2>4. /\ job.before = c /\ Len(c) = Len(SplitAt) + Len(job.old)
        /\ \A i \in 1..Len(SplitAt) : c[i] = SplitAt[i]
        /\ \A i \in 1..Len(job.old) : c[Len(SplitAt) + i] = job.old[i]
    BY <1>2, <2>1, <2>3, Joined, ZenonT(60) DEF JobInv, Kept
  <2>5. Len(SplitAt) \in Nat /\ Len(job.old) \in Nat
    BY <1>2
  <2>6. /\ Len(job.old) <= Len(c) - Len(SplitAt) /\ Len(c) - Len(job.old) = Len(SplitAt)
        /\ (Len(SplitAt) + 1)..Len(SplitAt) = {}
    BY <2>4, <2>5
  <2>7. Rest'
    BY <1>5, <2>2, <2>4, <2>6, ZenonT(60) DEF Rest
  <2>8. Blocks(SplitAt) \subseteq Blocks(job.before)
    <3>1. DOMAIN SplitAt = 1..Len(SplitAt) /\ DOMAIN SplitAt \subseteq DOMAIN c
      BY <1>2, <2>3, <2>4, <2>5
    <3> QED BY <2>4, <3>1, ZenonT(60) DEF Blocks
  <2>9. Apart'
    BY <1>1, <1>3, <1>4, <1>5, <2>2, <2>8, ZenonT(60) DEF KInv, Apart, Idle
  <2> QED BY <1>5, <2>2, <2>7, <2>9, ZenonT(60) DEF KInv
<1> QED BY <1>7, <1>8, Zenon

\* A disconnected block that is kept joins the alternative blocks, all of
\* those that were before it being there if they may be.
LEMMA KeepBranch ==
  ASSUME IInv, JobInv, KInv, Keep
  PROVE  KInv'
<1>1. /\ job.step = "keep" /\ job.old /= << >> /\ job' = [job EXCEPT !.old = Tail(job.old)]
      /\ alt' = IF AltAccepts(Head(job.old)) THEN alt \cup {Head(job.old)} ELSE alt
      /\ main' = main /\ points' = points /\ disk' = disk
  BY Zenon DEF Keep
<1>2. job \in Job /\ disk /= << >>
  BY <1>1, Zenon DEF IInv, TypeOK, Idle
<1>3. /\ job'.step = "keep" /\ job'.chain = job.chain /\ job'.before = job.before
      /\ job'.discard = job.discard /\ job'.old = Tail(job.old)
  BY <1>1, <1>2, Zenon DEF Job
<1>4. SplitAt' = SplitAt /\ Branch'
  BY <1>1, <1>3, KeepFacts, Zenon DEF Branch, SplitAt
<1>5. PICK n : n = Len(SplitAt)
  BY Zenon
<1>6. PICK c : c = job.before
  BY Zenon
<1>7. PICK m : m = Len(c) - Len(job.old) + 1
  BY Zenon
<1>8. Len(job.old) <= Len(c) - n /\ n \in Nat /\ Len(c) \in Nat
  <2>1. SplitAt \in Seq(Block) /\ c \in Seq(Block) /\ Len(job.old) <= Len(c) - n
    BY <1>1, <1>5, <1>6, KeepFacts, ZenonT(60) DEF Rest
  <2> QED BY <1>5, <2>1
<1>9. /\ Len(job.old) \in Nat \ {0} /\ Head(job.old) = job.old[1] /\ Tail(job.old) \in Seq(Block)
      /\ 1 \in 1..Len(job.old) /\ Len(Tail(job.old)) = Len(job.old) - 1
      /\ \A i \in 1..Len(Tail(job.old)) : Tail(job.old)[i] = job.old[i + 1]
  <2>1. job.old \in Seq(Block)
    BY <1>1, KeepFacts, Zenon
  <2> QED BY <1>1, <2>1
<1>10. /\ m \in (n + 1)..Len(c) /\ Len(c) - Len(job.old) = m - 1
       /\ Len(c) - Len(Tail(job.old)) = m /\ Len(Tail(job.old)) <= Len(c) - n
       /\ \A i \in (n + 1)..m : i = m \/ i \in (n + 1)..(m - 1)
  <2>1. PICK l \in Nat \ {0} : l = Len(job.old)
    BY <1>9, Zenon
  <2>2. PICK k : k = Len(Tail(job.old))
    BY Zenon
  <2>3. PICK w \in Nat : w = Len(c)
    BY <1>8, Zenon
  <2>4. /\ m = w - l + 1 /\ l <= w - n /\ k = l - 1
        /\ n \in Nat /\ l \in Nat /\ l /= 0 /\ w \in Nat
    BY <1>7, <1>8, <1>9, <2>1, <2>2, <2>3, ZenonT(60)
  <2>5. m \in (n + 1)..w /\ w - l = m - 1 /\ w - k = m /\ k <= w - n
    BY <2>4
  <2>6. \A i \in (n + 1)..m : i = m \/ i \in (n + 1)..(m - 1)
    BY <2>4, <2>5
  <2> QED BY <2>1, <2>2, <2>3, <2>5, <2>6, ZenonT(60)
<1>11. Head(job.old) = c[m]
  BY <1>1, <1>6, <1>7, <1>9, KeepFacts, ZenonT(60) DEF Rest
<1>12. ASSUME NEW i \in 1..Len(Tail(job.old))
       PROVE  Tail(job.old)[i] = c[Len(c) - Len(Tail(job.old)) + i]
  <2>1. /\ i + 1 \in 1..Len(job.old)
        /\ Len(c) - Len(job.old) + (i + 1) = Len(c) - Len(Tail(job.old)) + i
    <3>1. PICK l \in Nat \ {0} : l = Len(job.old)
      BY <1>9, Zenon
    <3>2. PICK k : k = Len(Tail(job.old))
      BY Zenon
    <3>3. k = l - 1 /\ i \in 1..k
      BY <1>9, <3>1, <3>2, ZenonT(60)
    <3>4. i + 1 \in 1..l /\ Len(c) - l + (i + 1) = Len(c) - k + i
      BY <1>8, <3>1, <3>3
    <3> QED BY <3>1, <3>2, <3>4, ZenonT(60)
  <2>2. job.old[i + 1] = c[Len(c) - Len(job.old) + (i + 1)]
    BY <1>1, <1>6, <2>1, KeepFacts, ZenonT(60) DEF Rest
  <2> QED BY <1>9, <2>1, <2>2, ZenonT(60)
<1>13. ASSUME \A b \in Left : is_alternative_block_allowed(b),
              NEW i \in (n + 1)..m
       PROVE  c[i] \in alt'
  <2>1. CASE i = m
    BY <1>1, <1>11, <1>13, <2>1, LeftIsTaken, ZenonT(60)
  <2>2. CASE i \in (n + 1)..(m - 1)
    BY <1>1, <1>5, <1>6, <1>10, <1>13, <2>2, KeepFacts, ZenonT(60) DEF Rest
  <2> QED BY <1>10, <2>1, <2>2, ZenonT(60)
<1>14. /\ Left' = Left
       /\ (\A b \in Left : is_alternative_block_allowed(b))' =>
             \A b \in Left : is_alternative_block_allowed(b)
  BY <1>1, <1>3, <1>4, ZenonT(60) DEF Left, is_alternative_block_allowed
<1>15. Rest'
  BY <1>3, <1>4, <1>5, <1>6, <1>10, <1>12, <1>13, <1>14, ZenonT(60) DEF Rest
<1>16. Blocks(SplitAt) \cap alt' = {}
  <2>1. c[m] \notin Blocks(main)
    BY <1>1, <1>5, <1>6, <1>10, LeftIsOff, ZenonT(60)
  <2>2. Blocks(SplitAt) \subseteq Blocks(main)
    <3>1. 1..Len(SplitAt) \subseteq 1..Len(main)
      BY <1>1, KeepFacts DEF Branch
    <3> QED BY <1>1, <3>1, KeepFacts, ZenonT(60) DEF Branch, Blocks
  <2> QED BY <1>1, <1>11, <2>1, <2>2, KeepFacts, ZenonT(60)
<1>17. Apart'
  BY <1>1, <1>2, <1>3, <1>4, <1>16, ZenonT(60) DEF KInv, Apart, Idle
<1> QED BY <1>4, <1>15, <1>17, <1>3, ZenonT(60) DEF KInv

\* A switch that ends leaves no block of the new chain among the alternatives.
LEMMA FinishBranch ==
  ASSUME IInv, JobInv, KInv, Finish
  PROVE  KInv'
<1>1. /\ job.step = "keep" /\ main' = main /\ disk' = disk /\ job' = NoJob
      /\ alt' = alt \ Blocks(job.chain)
  BY Zenon DEF Finish
<1>2. Idle' /\ job'.step /= "keep"
  BY <1>1, Zenon DEF Idle, NoJob
<1>3. ASSUME NEW i \in 1..Len(main) PROVE main[i] \notin alt'
  <2>1. i \in 1..Len(SplitAt) \/ i \in (Len(SplitAt) + 1)..Len(main)
    BY <1>1, KeepFacts
  <2>2. CASE i \in 1..Len(SplitAt)
    BY <1>1, <2>2, KeepFacts, Zenon DEF Branch, Blocks
  <2>3. CASE i \in (Len(SplitAt) + 1)..Len(main)
    BY <1>1, <2>3, KeepFacts, ZenonT(60) DEF Branch
  <2> QED BY <2>1, <2>2, <2>3, ZenonT(60)
<1>4. Blocks(main') \cap alt' = {}
  BY <1>1, <1>3, KeepFacts, ZenonT(60) DEF Blocks
<1> QED BY <1>1, <1>2, <1>4, ZenonT(60) DEF KInv, Apart

\* The blocks of a chain that is popped, and of one that grows.
LEMMA BlocksOf ==
  ASSUME NEW c \in Seq(Block)
  PROVE  /\ \A n \in Int : n <= Len(c) => Blocks(SubSeq(c, 1, n)) \subseteq Blocks(c)
         /\ \A b \in Block : Blocks(Append(c, b)) = Blocks(c) \cup {b}
<1>1. ASSUME NEW n \in Int, n <= Len(c) PROVE Blocks(SubSeq(c, 1, n)) \subseteq Blocks(c)
  <2>1. PICK d : d = SubSeq(c, 1, n)
    BY Zenon
  <2>2. DOMAIN d \subseteq DOMAIN c /\ \A i \in DOMAIN d : d[i] = c[i]
    BY <1>1, <2>1, PrefixType
  <2> QED BY <2>1, <2>2, Zenon DEF Blocks
<1>2. ASSUME NEW b \in Block PROVE Blocks(Append(c, b)) = Blocks(c) \cup {b}
  <2>1. PICK d : d = Append(c, b)
    BY Zenon
  <2>2. /\ DOMAIN d = DOMAIN c \cup {Len(c) + 1} /\ d[Len(c) + 1] = b
        /\ \A i \in DOMAIN c : d[i] = c[i]
    BY <2>1
  <2> QED BY <2>1, <2>2, ZenonT(60) DEF Blocks
<1> QED BY <1>1, <1>2, Zenon

\* The other steps do not meet a switch, or give it up.
LEMMA OtherBranch ==
  ASSUME IInv, JobInv, KInv, [Next]_vars, ~ Keep, ~ Finish,
         ~ (Disconnect \/ Connect \/ Connected \/ Rollback \/ Restore),
         \A b \in Block : ~ AddAlternative(b)
  PROVE  KInv'
<1>1. TypeOK /\ Good(main) /\ DiskGood
  BY Zenon DEF IInv
<1>2. main \in Seq(Block) /\ points \in Releases /\ (~ Idle => disk /= << >>)
  BY <1>1, Zenon DEF TypeOK
<1>3. NoJob.step = "idle"
  BY Zenon DEF NoJob
\* Outside a switch only the main chain and its alternatives matter.
<1>4. ASSUME job'.step = "idle", Blocks(main') \cap alt' = {}, disk' = disk PROVE KInv'
  BY <1>4, Zenon DEF KInv, Apart, Idle
<1>5. ASSUME Idle PROVE Blocks(main) \cap alt = {} /\ job.step = "idle"
  BY <1>5, Zenon DEF KInv, Apart, Idle
<1>6. ASSUME NEW n \in Int, n <= Len(main), main' = SubSeq(main, 1, n),
             Idle, job' = job, alt' = alt, disk' = disk
      PROVE  KInv'
  BY <1>2, <1>4, <1>5, <1>6, BlocksOf, ZenonT(60)
<1>7. CASE Blame
  <2>1. (main = job.before \/ main = << >>) /\ job.step \notin {"idle", "keep"}
    BY <1>7, Zenon DEF Blame, JobInv, Lost
  <2>2. Blocks(main) \cap alt = {}
    <3>1. Blocks(<< >>) = {}
      BY DEF Blocks
    <3> QED BY <2>1, <3>1, Zenon DEF KInv, Apart, Idle
  <2>3. main' = main /\ alt' \subseteq alt /\ disk' = disk /\ job' = NoJob
    BY <1>7, Zenon DEF Blame
  <2> QED BY <1>3, <1>4, <2>2, <2>3, ZenonT(60)
<1>8. ASSUME NEW b \in Block, AddToMain(b) PROVE KInv'
  <2>1. Idle /\ b \notin alt /\ alt' = alt /\ disk' = disk /\ job' = job
    BY <1>8, Zenon DEF AddToMain, Arrives, have_block
  <2>2. main' = main \/ main' = Append(main, b)
    BY <1>8, Zenon DEF AddToMain, PushBlock
  <2>3. Blocks(main') \cap alt' = {}
    <3>1. Blocks(Append(main, b)) = Blocks(main) \cup {b}
      BY <1>2, BlocksOf, Zenon
    <3> QED BY <1>5, <2>1, <2>2, <3>1, ZenonT(60)
  <2> QED BY <1>4, <1>5, <2>1, <2>3, ZenonT(60)
<1>9. ASSUME NEW pts \in Releases, UpdateCheckpoints(pts) PROVE KInv'
  <2>1. Idle /\ alt' = alt /\ disk' = disk /\ job' = job /\ main' = enforced(main, pts)
    BY <1>9, Zenon DEF UpdateCheckpoints
  <2>2. PICK n \in Int : n <= Len(main) /\ enforced(main, pts) = SubSeq(main, 1, n)
    BY <1>2, EnforcedPrefix, Zenon
  <2> QED BY <1>6, <2>1, <2>2, Zenon
<1>10. ASSUME NEW pts \in Releases, NEW keep \in BOOLEAN, Restart(pts, keep) PROVE KInv'
  <2>1. PICK c, a : /\ c = IF disk = << >> THEN main ELSE disk[1].main
                    /\ a = IF disk = << >> THEN alt ELSE disk[1].alt
    BY Zenon
  <2>2. /\ main' = enforced(c, pts) /\ alt' \subseteq a /\ job' = NoJob /\ disk' = << >>
    BY <1>10, <2>1, Zenon DEF Restart
  <2>3. c \in Seq(Block) /\ Blocks(c) \cap a = {}
    BY <1>1, <1>2, <1>5, <2>1, ZenonT(60) DEF KInv, Apart, DiskGood, Good
  <2>4. PICK n \in Int : n <= Len(c) /\ enforced(c, pts) = SubSeq(c, 1, n)
    BY <2>3, EnforcedPrefix, Zenon
  <2>5. Blocks(main') \cap alt' = {}
    BY <2>2, <2>3, <2>4, BlocksOf, ZenonT(60)
  <2> QED BY <1>3, <2>2, <2>5, Zenon DEF KInv, Apart, Idle
<1>11. CASE OpenBatch
  <2>1. /\ Idle /\ main' = main /\ alt' = alt /\ job' = job
        /\ disk' = <<[main |-> main, alt |-> alt, pool |-> pool]>>
    BY <1>2, <1>11, ZenonT(60) DEF OpenBatch
  <2>2. disk'[1].main = main /\ disk'[1].alt = alt
    BY <2>1
  <2> QED BY <1>5, <2>1, <2>2, ZenonT(60) DEF KInv, Apart, Idle
<1>12. CASE CloseBatch
  BY <1>5, <1>12, Zenon DEF CloseBatch, KInv, Apart, Idle
<1>13. ASSUME NEW n \in 1..Len(main), pop_blocks(n) PROVE KInv'
  <2>1. Len(main) - n \in Int /\ Len(main) - n <= Len(main)
    BY <1>2
  <2>2. /\ Idle /\ alt' = alt /\ disk' = disk /\ job' = job
        /\ main' = SubSeq(main, 1, Len(main) - n)
    BY <1>2, <1>13, Zenon DEF pop_blocks
  <2> QED BY <1>6, <2>1, <2>2, ZenonT(60)
<1>14. CASE flush_invalid_blocks
  BY <1>4, <1>5, <1>14, ZenonT(60) DEF flush_invalid_blocks
<1>15. ASSUME NEW x \in Tx, LoseTx(x) PROVE KInv'
  BY <1>2, <1>4, <1>5, <1>15, ZenonT(60) DEF LoseTx
<1>16. CASE UNCHANGED vars
  <2>1. /\ main' = main /\ alt' = alt /\ points' = points /\ job' = job /\ disk' = disk
    BY <1>16, Zenon DEF vars
  <2> QED BY <2>1, ZenonT(60) DEF KInv, Apart, Idle, Branch, Rest, Left, SplitAt,
                             is_alternative_block_allowed
<1> QED BY <1>7, <1>8, <1>9, <1>10, <1>11, <1>12, <1>13, <1>14, <1>15, <1>16, Zenon DEF Next

\* Every step keeps the two chains of a switch in order.
LEMMA NextKInv ==
  ASSUME IInv, LInv, KInv, [Next]_vars
  PROVE  KInv'
<1>1. JobInv
  BY Zenon DEF LInv
<1> QED BY <1>1, StartedBranch, SwitchingBranch, KeepBranch, FinishBranch, OtherBranch, Zenon

\* What holds of a switch at all times.
LEMMA SwitchInvariant == Spec => [](IInv /\ LInv /\ KInv)
<1>1. Init => LInv
  BY DEF Init, LInv, Clean, DiskClean, JobInv, NoJob, Idle
<1>2. Init => KInv
  BY DEF Init, KInv, Apart, NoJob, Idle
<1>3. IInv /\ CheckpointsHold /\ LInv /\ [Next]_vars => LInv'
  BY NextLInv, Zenon
<1>4. IInv /\ LInv /\ KInv /\ [Next]_vars => KInv'
  BY NextKInv, Zenon
<1> QED BY <1>1, <1>2, <1>3, <1>4, InvariantHolds, CheckpointsAlwaysHold, PTL DEF Spec

\* handle_alternative_block never starts a switch for one of the blocks that a
\* switch has disconnected: it has no more work than the new chain, and if it is
\* checkpointed it is refused, whatever the tree of blocks and the checkpoints.
THEOREM SwitchesDoNotNest == Spec => []NoNestedSwitch
<1>1. ASSUME IInv, LInv, KInv PROVE NoNestedSwitch
  <2>1. SUFFICES ASSUME job.step = "keep", ~ job.discard, NEW b \in Blocks(job.old),
                        is_alternative_block_allowed(b)
                 PROVE  ~ is_a_checkpoint(b) /\ Work[b] <= WorkOf(main)
    BY Zenon DEF NoNestedSwitch
  <2>2. JobInv
    BY <1>1, Zenon DEF LInv
  <2>3. /\ SplitAt \in Seq(Block) /\ job.before \in Seq(Block) /\ job.old \in Seq(Block)
        /\ Len(job.old) <= Len(job.before) - Len(SplitAt)
        /\ \A i \in 1..Len(job.old) : job.old[i] = job.before[Len(job.before) - Len(job.old) + i]
    BY <1>1, <2>1, <2>2, KeepFacts, Zenon DEF Rest
  <2>4. PICK i \in 1..Len(job.old) : b = job.old[i]
    <3>1. DOMAIN job.old = 1..Len(job.old)
      BY <2>3
    <3> QED BY <2>1, <3>1, Zenon DEF Blocks
  <2>5. PICK k : k = Len(job.before) - Len(job.old) + i
    BY Zenon
  <2>6. b = job.before[k]
    BY <2>3, <2>4, <2>5, ZenonT(60)
  <2>7. k \in (Len(SplitAt) + 1)..Len(job.before)
    <3>1. Len(SplitAt) \in Nat /\ Len(job.before) \in Nat /\ Len(job.old) \in Nat
      BY <2>3
    <3>2. PICK x, y, z \in Nat : x = Len(SplitAt) /\ y = Len(job.before) /\ z = Len(job.old)
      BY <3>1, Zenon
    <3>3. /\ i \in 1..z /\ z <= y - x /\ k = y - z + i
          /\ x \in Nat /\ y \in Nat /\ z \in Nat
      BY <2>3, <2>4, <2>5, <3>2, ZenonT(60)
    <3>4. k \in (x + 1)..y
      BY <3>3
    <3> QED BY <3>2, <3>4, ZenonT(60)
  <2> QED BY <1>1, <2>1, <2>2, <2>6, <2>7, LeftIsLighter, ZenonT(60)
<1> QED BY <1>1, SwitchInvariant, PTL

\* A switch for more work ends with every disconnected block among the
\* alternative blocks, unless a checkpoint rules one of them out.
THEOREM OldChainIsKept == Spec => OldChainKept
<1> DEFINE left == Blocks(job.before) \ Blocks(main)
<1>1. ASSUME IInv, LInv, KInv, Finish, ~ job.discard,
             \A b \in left : is_alternative_block_allowed(b)
      PROVE  left \subseteq alt'
  <2>1. job.step = "keep" /\ job.old = << >> /\ alt' = alt \ Blocks(job.chain) /\ JobInv
    BY <1>1, Zenon DEF Finish, LInv
  <2>2. Left \subseteq left
    <3>1. \A i \in (Len(SplitAt) + 1)..Len(job.before) : i \in 1..Len(job.before)
      BY <1>1, <2>1, KeepFacts
    <3>2. ASSUME NEW i \in (Len(SplitAt) + 1)..Len(job.before) PROVE job.before[i] \in left
      BY <1>1, <2>1, <3>1, KeepFacts, LeftIsOff, ZenonT(60) DEF Blocks
    <3> QED BY <3>2, ZenonT(60) DEF Left
  <2>3. Len(job.before) - Len(job.old) = Len(job.before)
    BY <1>1, <2>1, KeepFacts
  <2>4. \A i \in (Len(SplitAt) + 1)..Len(job.before) : job.before[i] \in alt
    BY <1>1, <2>1, <2>2, <2>3, KeepFacts, ZenonT(60) DEF Rest
  <2>5. ASSUME NEW i \in 1..Len(job.before), job.before[i] \notin Blocks(main)
        PROVE  i \in (Len(SplitAt) + 1)..Len(job.before)
    <3>1. CASE i \in 1..Len(SplitAt)
      <4>1. i \in 1..Len(main)
        BY <1>1, <2>1, <3>1, KeepFacts DEF Branch
      <4> QED BY <1>1, <2>1, <2>5, <3>1, <4>1, KeepFacts, ZenonT(60) DEF Branch, Blocks
    <3> QED BY <1>1, <2>1, <3>1, KeepFacts
  <2>6. ASSUME NEW b \in left PROVE b \in alt /\ b \notin Blocks(job.chain)
    <3>1. PICK i \in 1..Len(job.before) : b = job.before[i]
      BY <1>1, <2>1, KeepFacts, ZenonT(60) DEF Blocks
    <3>2. b \in alt
      BY <2>4, <2>5, <3>1, ZenonT(60)
    <3>3. b \notin Blocks(job.chain)
      BY <1>1, <2>1, KeepFacts, ZenonT(60) DEF Branch
    <3> QED BY <3>2, <3>3, Zenon
  <2> QED BY <2>1, <2>6, Zenon
<1>2. IInv /\ LInv /\ KInv =>
        [Finish /\ ~ job.discard
           => LET gone == Blocks(job.before) \ Blocks(main) IN
              (\A b \in gone : is_alternative_block_allowed(b)) => gone \subseteq alt']_vars
  BY <1>1, Zenon
<1> QED BY <1>2, SwitchInvariant, PTL DEF OldChainKept

============================================================================
