-------------------------- MODULE BlockQueueProofs --------------------------
(* Proofs about the block queue, for every set of hashes, connections and    *)
(* chains and every span size and pruning seed.                              *)
EXTENDS BlockQueue, TLAPS, NaturalsInduction, WellFoundedInduction

\* A non-empty set of naturals has a least element, so Min denotes it.
LEMMA MinNat ==
  ASSUME NEW S \in SUBSET Nat, S # {}
  PROVE  Min(S) \in S /\ \A y \in S : Min(S) <= y
<1>1. \E x \in S : \A y \in S : ~(<<y, x>> \in OpToRel(<, Nat))
  BY NatLessThanWellFounded, WFMin
<1>2. \E x \in S : \A y \in S : ~(y < x)
  <2>1. PICK x \in S : \A y \in S : ~(<<y, x>> \in OpToRel(<, Nat))
    BY <1>1
  <2>2. ASSUME NEW y \in S, y < x PROVE FALSE
    <3>1. <<y, x>> \in Nat \X Nat /\ <<y, x>>[1] = y /\ <<y, x>>[2] = x
      BY Zenon
    <3>2. <<y, x>> \in OpToRel(<, Nat)
      BY <3>1, <2>2, Zenon DEF OpToRel
    <3> QED BY <2>1, <3>2
  <2> QED BY <2>2, Zenon
<1>3. \E x \in S : \A y \in S : x <= y
  BY <1>2
<1> QED BY <1>3, Zenon DEF Min

-----------------------------------------------------------------------------
(* The inductive invariant, as a predicate of a queue so that it can be      *)
(* carried through the methods that call one another.                        *)
Sound(q) ==
  /\ IsQueue(q)
  /\ q.requested_hashes \subseteq HashesAt(q, Starts(q))
  /\ q.have_blocks \subseteq q.requested_hashes
  /\ q.have_blocks \subseteq HashesAt(q, {h \in Starts(q) : filled(q, h)})

\* The hashes of a span are hashes, and a span without hashes has none.
LEMMA RangeType ==
  /\ \A s \in Seq(Hash) : Range(s) \subseteq Hash
  /\ Range(<<>>) = {}
<1>1. ASSUME NEW s \in Seq(Hash) PROVE Range(s) \subseteq Hash
  BY DEF Range
<1>2. Range(<<>>) = {}
  BY DEF Range
<1> QED BY <1>1, <1>2, Zenon

\* erase_block takes the hashes of the erased spans out of both sets, so what
\* stays in them belongs to the spans that stay.
LEMMA EraseSound ==
  ASSUME NEW q, Sound(q), NEW S \in SUBSET Starts(q)
  PROVE  Sound(erase_blocks(q, S))
<1> DEFINE e == erase_blocks(q, S)
<1>1. /\ e.blocks = [h \in Starts(q) \ S |-> q.blocks[h]]
      /\ e.requested_hashes = q.requested_hashes \ HashesAt(q, S)
      /\ e.have_blocks = q.have_blocks \ HashesAt(q, S)
      /\ e = [blocks |-> e.blocks, requested_hashes |-> e.requested_hashes,
              have_blocks |-> e.have_blocks]
  BY Zenon DEF erase_blocks
<1>2. Starts(e) = Starts(q) \ S
  BY <1>1, Zenon DEF Starts
<1>3. \A h \in Starts(e) : e.blocks[h] = q.blocks[h]
  BY <1>1, <1>2, Zenon
<1> HIDE DEF e
<1>4. IsQueue(e)
  BY <1>1, <1>2, <1>3 DEF Sound, IsQueue, Starts
<1>5. e.requested_hashes \subseteq HashesAt(e, Starts(e))
  BY <1>1, <1>2, <1>3 DEF Sound, HashesAt
<1>6. e.have_blocks \subseteq HashesAt(e, {h \in Starts(e) : filled(e, h)})
  BY <1>1, <1>2, <1>3 DEF Sound, HashesAt, filled
<1>7. e.have_blocks \subseteq e.requested_hashes
  BY <1>1, Zenon DEF Sound
<1> QED BY <1>4, <1>5, <1>6, <1>7, Zenon DEF Sound, e

\* A new span only adds to what the spans hold.
LEMMA InsertSound ==
  ASSUME NEW q, Sound(q), NEW height \in Nat, NEW span \in Span
  PROVE  Sound(insert(q, height, span))
<1>1. CASE height \in Starts(q)
  BY <1>1, Zenon DEF insert
<1>2. CASE height \notin Starts(q)
  <2> DEFINE e == insert(q, height, span)
  <2>1. /\ e.blocks = [h \in Starts(q) \cup {height} |->
                         IF h = height THEN span ELSE q.blocks[h]]
        /\ e.requested_hashes = q.requested_hashes
        /\ e.have_blocks = q.have_blocks
        /\ e = [blocks |-> e.blocks, requested_hashes |-> e.requested_hashes,
                have_blocks |-> e.have_blocks]
    BY <1>2, Zenon DEF insert, Sound, IsQueue
  <2>2. Starts(e) = Starts(q) \cup {height}
    BY <2>1, Zenon DEF Starts
  <2>3. e.blocks[height] = span /\ \A h \in Starts(q) : e.blocks[h] = q.blocks[h]
    BY <1>2, <2>1, <2>2, Zenon
  <2> HIDE DEF e
  <2>4. IsQueue(e)
    BY <2>1, <2>2, <2>3, Zenon DEF Sound, IsQueue, Starts
  <2>5. e.requested_hashes \subseteq HashesAt(e, Starts(e))
    BY <2>1, <2>2, <2>3 DEF Sound, HashesAt
  <2>6. e.have_blocks \subseteq HashesAt(e, {h \in Starts(e) : filled(e, h)})
    BY <2>1, <2>2, <2>3 DEF Sound, HashesAt, filled
  <2>7. e.have_blocks \subseteq e.requested_hashes
    BY <2>1, Zenon DEF Sound
  <2> QED BY <2>4, <2>5, <2>6, <2>7, Zenon DEF Sound, e
<1> QED BY <1>1, <1>2, Zenon

\* Queue e is queue q with the hashes of the span at the given height replaced.
HashesReplaced(q, e, height, hashes) ==
  /\ e = [blocks |-> e.blocks, requested_hashes |-> e.requested_hashes,
          have_blocks |-> e.have_blocks]
  /\ e.blocks = [h \in Starts(e) |-> e.blocks[h]]
  /\ Starts(e) = Starts(q)
  /\ \A h \in Starts(q) \ {height} : e.blocks[h] = q.blocks[h]
  /\ e.blocks[height] \in Span
  /\ e.blocks[height].hashes = hashes
  /\ e.blocks[height].blocks = q.blocks[height].blocks
  /\ e.requested_hashes =
       (q.requested_hashes \ Range(q.blocks[height].hashes)) \cup Range(hashes)
  /\ e.have_blocks = q.have_blocks \ Range(q.blocks[height].hashes)

\* set_span_hashes does just that to a span of the connection.
LEMMA SetHashesShape ==
  ASSUME NEW q, IsQueue(q), NEW height \in Starts(q), NEW c,
         q.blocks[height].connection_id = c, NEW hashes \in Seq(Hash)
  PROVE  HashesReplaced(q, set_span_hashes(q, height, c, hashes), height, hashes)
<1>0. PICK e : e = set_span_hashes(q, height, c, hashes)
  BY Zenon
<1>1. HashesAt(q, {height}) = Range(q.blocks[height].hashes)
  BY Zenon DEF HashesAt
<1>2. /\ e.blocks = [q.blocks EXCEPT ![height].hashes = hashes]
      /\ e.requested_hashes = (q.requested_hashes \ HashesAt(q, {height})) \cup Range(hashes)
      /\ e.have_blocks = q.have_blocks \ HashesAt(q, {height})
      /\ e = [blocks |-> e.blocks, requested_hashes |-> e.requested_hashes,
              have_blocks |-> e.have_blocks]
  BY <1>0, Zenon DEF set_span_hashes, erase_blocks
<1>3. q.blocks = [h \in Starts(q) |-> q.blocks[h]] /\ q.blocks[height] \in Span
  BY Zenon DEF IsQueue, Starts
<1>4. Starts(e) = Starts(q) /\ e.blocks = [h \in Starts(e) |-> e.blocks[h]]
  BY <1>2, <1>3, Zenon DEF Starts
<1>5. \A h \in Starts(q) \ {height} : e.blocks[h] = q.blocks[h]
  BY <1>2, <1>3, Zenon
<1>6. e.blocks[height] = [q.blocks[height] EXCEPT !.hashes = hashes]
  BY <1>2, <1>3, Zenon
<1>7. /\ e.blocks[height] \in Span
      /\ e.blocks[height].hashes = hashes
      /\ e.blocks[height].blocks = q.blocks[height].blocks
  BY <1>3, <1>6, Zenon DEF Span
<1> QED BY <1>0, <1>1, <1>2, <1>4, <1>5, <1>7, Zenon DEF HashesReplaced

\* set_span_hashes moves a span's claim from its old hashes to its new ones;
\* called for a span that is not the connection's, it changes nothing.
LEMMA SetHashesSound ==
  ASSUME NEW q, Sound(q), NEW height, NEW c, NEW hashes \in Seq(Hash)
  PROVE  Sound(set_span_hashes(q, height, c, hashes))
<1>1. CASE height \in Starts(q) /\ q.blocks[height].connection_id = c
  <2> DEFINE e == set_span_hashes(q, height, c, hashes)
  <2>1. HashesReplaced(q, e, height, hashes)
    BY <1>1, SetHashesShape, Zenon DEF Sound
  <2> HIDE DEF e
  <2>2. IsQueue(e)
    BY <1>1, <2>1, RangeType, Zenon DEF Sound, IsQueue, Starts, HashesReplaced
  <2>3. e.requested_hashes \subseteq HashesAt(e, Starts(e))
    BY <1>1, <2>1 DEF Sound, HashesAt, HashesReplaced
  <2>4. e.have_blocks \subseteq HashesAt(e, {h \in Starts(e) : filled(e, h)})
    <3>1. SUFFICES ASSUME NEW x \in e.have_blocks
                   PROVE  x \in HashesAt(e, {h \in Starts(e) : filled(e, h)})
      BY Zenon
    <3>2. PICK h \in Starts(q) : filled(q, h) /\ x \in Range(q.blocks[h].hashes)
      BY <2>1 DEF Sound, HashesAt, HashesReplaced
    <3>3. h # height
      BY <2>1, <3>2, Zenon DEF HashesReplaced
    <3> QED BY <2>1, <3>2, <3>3 DEF HashesAt, filled, HashesReplaced
  <2>5. e.have_blocks \subseteq e.requested_hashes
    BY <2>1, Zenon DEF Sound, HashesReplaced
  <2> QED BY <2>2, <2>3, <2>4, <2>5, Zenon DEF Sound, e
<1>2. CASE ~(height \in Starts(q) /\ q.blocks[height].connection_id = c)
  BY <1>2, Zenon DEF set_span_hashes
<1> QED BY <1>1, <1>2, Zenon

\* Delivered blocks replace the span at their height: its hashes leave both
\* sets and enter both again, now claimed by a filled span.
LEMMA AddBlocksSound ==
  ASSUME NEW q, Sound(q), NEW height \in Nat, NEW c \in Conn,
         NEW bcel \in Seq(Hash), Len(bcel) # 0
  PROVE  Sound(add_blocks(q, height, bcel, c))
<1> DEFINE span == [hashes |-> <<>>, blocks |-> bcel, connection_id |-> c,
                    nblocks |-> Len(bcel)]
           ins  == insert(erase_blocks(q, {height} \cap Starts(q)), height, span)
<1>1. span \in Span /\ span.hashes = <<>> /\ span.blocks # <<>> /\ span.connection_id = c
  BY DEF Span
<1>2. Sound(ins)
  BY <1>1, EraseSound, InsertSound, Zenon
<1>3. ins.blocks[height] = span /\ height \in Starts(ins)
  BY Zenon DEF insert, erase_blocks, Starts
<1>4. CASE height \notin Starts(q)
  BY <1>2, <1>4, Zenon DEF add_blocks
<1>5. CASE height \in Starts(q)
  <2>1. PICK hashes : hashes = q.blocks[height].hashes
    BY Zenon
  <2>2. hashes \in Seq(Hash) /\ Range(hashes) \subseteq Hash
    BY <1>5, <2>1, RangeType, Zenon DEF Sound, IsQueue, Span, Starts
  <2> HIDE DEF ins, span
  <2>3. PICK known :
          known = [blocks           |-> ins.blocks,
                   requested_hashes |-> ins.requested_hashes \cup Range(hashes),
                   have_blocks      |-> ins.have_blocks \cup Range(hashes)]
    BY Zenon
  <2>4. /\ known.blocks = ins.blocks
        /\ known.requested_hashes = ins.requested_hashes \cup Range(hashes)
        /\ known.have_blocks = ins.have_blocks \cup Range(hashes)
        /\ Starts(known) = Starts(ins)
        /\ IsQueue(known)
    BY <1>2, <2>2, <2>3, Zenon DEF Sound, IsQueue, Starts
  <2>5. PICK e : e = set_span_hashes(known, height, c, hashes)
    BY Zenon
  <2>6. HashesReplaced(known, e, height, hashes)
    <3>1. height \in Starts(known) /\ known.blocks[height].connection_id = c
      BY <1>1, <1>3, <2>4, Zenon
    <3> QED BY <2>2, <2>4, <2>5, <3>1, SetHashesShape, Zenon
  <2>7. /\ e.requested_hashes = ins.requested_hashes \cup Range(hashes)
        /\ e.have_blocks = ins.have_blocks \cup Range(hashes)
    BY <1>1, <1>3, <2>4, <2>6, RangeType DEF HashesReplaced
  <2>8. /\ \A h \in Starts(ins) \ {height} : e.blocks[h] = ins.blocks[h]
        /\ Starts(e) = Starts(ins)
        /\ filled(e, height)
    BY <1>1, <1>3, <2>4, <2>6, Zenon DEF filled, HashesReplaced
  <2>9. IsQueue(e)
    BY <1>2, <2>2, <2>6, <2>7, <2>8, Zenon DEF Sound, IsQueue, Starts, HashesReplaced
  <2>10. e.requested_hashes \subseteq HashesAt(e, Starts(e))
    <3>1. ASSUME NEW x \in ins.requested_hashes PROVE x \in HashesAt(e, Starts(e))
      <4>1. PICK h \in Starts(ins) : x \in Range(ins.blocks[h].hashes)
        BY <1>2, Zenon DEF Sound, HashesAt
      <4>2. h # height
        BY <1>1, <1>3, <4>1, RangeType, Zenon
      <4> QED BY <2>8, <4>1, <4>2, Zenon DEF HashesAt
    <3> QED BY <1>3, <2>6, <2>7, <2>8, <3>1, Zenon DEF HashesAt, HashesReplaced
  <2>11. e.have_blocks \subseteq HashesAt(e, {h \in Starts(e) : filled(e, h)})
    <3>1. ASSUME NEW x \in ins.have_blocks
          PROVE  x \in HashesAt(e, {h \in Starts(e) : filled(e, h)})
      <4>1. PICK h \in Starts(ins) : filled(ins, h) /\ x \in Range(ins.blocks[h].hashes)
        BY <1>2, Zenon DEF Sound, HashesAt
      <4>2. h # height
        BY <1>1, <1>3, <4>1, RangeType, Zenon
      <4> QED BY <2>8, <4>1, <4>2, Zenon DEF HashesAt, filled
    <3>2. ASSUME NEW x \in Range(hashes)
          PROVE  x \in HashesAt(e, {h \in Starts(e) : filled(e, h)})
      BY <1>3, <2>6, <2>8, <3>2, Zenon DEF HashesAt, HashesReplaced
    <3> QED BY <2>7, <3>1, <3>2, Zenon
  <2>12. e.have_blocks \subseteq e.requested_hashes
    BY <1>2, <2>7, Zenon DEF Sound
  <2>13. Sound(e)
    BY <2>9, <2>10, <2>11, <2>12, Zenon DEF Sound
  <2> QED BY <1>5, <2>1, <2>3, <2>5, <2>13, Zenon DEF add_blocks, ins, span
<1> QED BY <1>4, <1>5, Zenon

-----------------------------------------------------------------------------
(* What reserve_span decides is well formed, whatever the pruning seeds.     *)

\* skip_requested answers an index between its start and one past the end.
LEMMA SkipType ==
  ASSUME NEW q, NEW s \in Seq(Hash), NEW k \in 1 .. Len(s) + 1
  PROVE  skip_requested(q, s, k) \in k .. Len(s) + 1
<1> DEFINE S == {i \in k .. Len(s) + 1 : i <= Len(s) => s[i] \notin q.requested_hashes}
<1>1. Len(s) \in Nat
  OBVIOUS
<1>2. Len(s) + 1 \in S /\ S \subseteq Nat
  BY <1>1
<1>3. Min(S) \in S
  BY <1>2, MinNat, Zenon
<1> QED BY <1>1, <1>3, Zenon DEF skip_requested

\* span_length never reaches past the announced hashes.
LEMMA SpanLengthType ==
  ASSUME NEW s \in Seq(Hash), NEW k \in 1 .. Len(s) + 1, NEW start, NEW peer, NEW bc,
         NEW sync_pruned
  PROVE  /\ span_length(s, k, start, peer, bc, sync_pruned) \in Nat
         /\ k + span_length(s, k, start, peer, bc, sync_pruned) <= Len(s) + 1
<1> DEFINE wanted(n) ==
             IF sync_pruned
             THEN has_unpruned_block(start + n, bc, LocalSeed)
                    <=> has_unpruned_block(start, bc, LocalSeed)
             ELSE has_unpruned_block(start + n, bc, peer)
           S == {n \in 0 .. MaxBlocks : n < MaxBlocks => k + n > Len(s) \/ ~wanted(n)}
<1> HIDE DEF wanted
<1>1. Len(s) \in Nat /\ MaxBlocks \in Nat
  BY QueueAssumption
<1>2. MaxBlocks \in S /\ S \subseteq Nat
  BY <1>1
<1>3. Min(S) \in S /\ \A y \in S : Min(S) <= y
  BY <1>2, MinNat, Zenon
<1>4. k + Min(S) <= Len(s) + 1
  <2>1. CASE Len(s) + 1 - k \in 0 .. MaxBlocks
    <3>1. Len(s) + 1 - k \in S
      BY <1>1, <2>1
    <3> QED BY <1>1, <1>2, <1>3, <3>1
  <2>2. CASE Len(s) + 1 - k > MaxBlocks
    BY <1>1, <1>2, <1>3, <2>2
  <2> QED BY <1>1, <2>1, <2>2
<1>5. span_length(s, k, start, peer, bc, sync_pruned) = Min(S)
  BY Zenon DEF span_length, wanted
<1> QED BY <1>2, <1>3, <1>4, <1>5, Zenon

\* A reservation starts at a natural height and its hashes are announced ones.
LEMMA ReservationType ==
  ASSUME NEW q, NEW last \in Nat, NEW sync_pruned, NEW peer, NEW bc, NEW s \in Seq(Hash)
  PROVE  /\ reservation(q, last, sync_pruned, peer, bc, s).start \in Nat
         /\ reservation(q, last, sync_pruned, peer, bc, s).hashes \in Seq(Hash)
<1>1. PICK n : n = Len(s)
  BY ZenonT(60)
<1>2. CASE n = 0 \/ n > last
  BY <1>1, <1>2 DEF reservation
<1>3. CASE ~(n = 0 \/ n > last)
  <2>1. n \in Nat \ {0} /\ last - n \in Nat
    BY <1>1, <1>3
  <2>2. PICK base : base = last - n + 1
    BY Zenon
  <2>3. PICK ideal : ideal = base + skip_requested(q, s, 1) - 1
    BY Zenon
  <2>4. skip_requested(q, s, 1) \in 1 .. n + 1
    BY <1>1, <2>1, SkipType
  <2>5. base \in Nat /\ ideal \in base .. base + n
    BY <2>1, <2>2, <2>3, <2>4
  <2>6. PICK from : from = IF ~sync_pruned /\ get_next_unpruned_block_height(ideal, bc, peer)
                                              \in ideal + 1 .. ideal + STRIPE_SIZE - 1
                           THEN get_next_unpruned_block_height(ideal, bc, peer) ELSE ideal
    BY Zenon
  <2>7. from \in Int /\ from >= base
    BY <2>5, <2>6, PruningAssumption DEF PruningAssumption
  <2>8. PICK k : k = skip_requested(q, s, from - base + 1)
    BY Zenon
  <2>9. PICK len : len = span_length(s, k, base + k - 1, peer, bc, sync_pruned)
    BY ZenonT(60)
  <2>10. reservation(q, last, sync_pruned, peer, bc, s) =
           IF MaxBlocks = 0 \/ from >= n + base \/ len = 0
           THEN [start |-> 0, hashes |-> <<>>]
           ELSE [start |-> base + k - 1, hashes |-> SubSeq(s, k, k + len - 1)]
    BY <1>1, <1>3, <2>2, <2>3, <2>6, <2>8, <2>9, ZenonT(60) DEF reservation
  <2>11. CASE from >= n + base
    BY <2>10, <2>11
  <2>12. CASE ~(from >= n + base)
    <3>1. from - base + 1 \in 1 .. n + 1
      BY <2>1, <2>5, <2>7, <2>12
    <3>2. k \in 1 .. n + 1
      BY <1>1, <2>1, <2>8, <3>1, SkipType
    <3>3. len \in Nat /\ k + len <= n + 1
      BY <1>1, <2>9, <3>2, SpanLengthType, Zenon
    <3>4. base + k - 1 \in Nat
      BY <2>5, <3>2
    <3>5. SubSeq(s, k, k + len - 1) \in Seq(Hash)
      BY <1>1, <2>1, <3>2, <3>3
    <3> QED BY <2>10, <3>4, <3>5
  <2> QED BY <2>11, <2>12, Zenon
<1> QED BY <1>2, <1>3, Zenon

\* Queueing a reservation keeps the queue sound.
LEMMA ReserveSound ==
  ASSUME NEW q, Sound(q), NEW c \in Conn, NEW r, r.start \in Nat, r.hashes \in Seq(Hash)
  PROVE  Sound(reserve_span(q, c, r))
<1>1. CASE r.hashes = <<>>
  BY <1>1, Zenon DEF reserve_span
<1>2. CASE r.hashes # <<>>
  <2>1. PICK span : span = [hashes |-> <<>>, blocks |-> <<>>, connection_id |-> c,
                            nblocks |-> Len(r.hashes)]
    BY Zenon
  <2>2. span \in Span
    BY <1>2, <2>1 DEF Span
  <2>3. Sound(set_span_hashes(insert(q, r.start, span), r.start, c, r.hashes))
    BY <2>2, InsertSound, SetHashesSound, Zenon
  <2> QED BY <1>2, <2>1, <2>3, Zenon DEF reserve_span
<1> QED BY <1>1, <1>2, Zenon

\* A run of a chain's hashes is a sequence of hashes.
LEMMA SegmentType ==
  ASSUME NEW chain \in Chains, NEW first \in Heights(chain), NEW last \in Heights(chain),
         first <= last
  PROVE  /\ Segment(chain, first, last) \in Seq(Hash)
         /\ Len(Segment(chain, first, last)) # 0
         /\ first \in Nat /\ last \in Nat
<1>1. chain \in Seq(Hash)
  BY QueueAssumption, Zenon DEF QueueAssumption
<1>2. PICK n : n = last - first + 1
  BY Zenon
<1>3. /\ first \in 1 .. Len(chain) /\ last \in 1 .. Len(chain) /\ Len(chain) \in Nat
      /\ n \in Nat \ {0}
  BY <1>1, <1>2 DEF Heights
<1>4. \A i \in 1 .. n : chain[first + i - 1] \in Hash
  BY <1>1, <1>2, <1>3
<1>5. Segment(chain, first, last) = [i \in 1 .. n |-> chain[first + i - 1]]
  BY <1>2, Zenon DEF Segment
<1> QED BY <1>3, <1>4, <1>5

\* So are the reservations a step may make.
LEMMA ReservationsType ==
  ASSUME NEW chain \in Chains, NEW r \in Reservations(chain)
  PROVE  r.start \in Nat /\ r.hashes \in Seq(Hash)
<1>1. PICK p \in {x \in Heights(chain) \X Heights(chain) : x[1] <= x[2]},
           seed \in Seeds, sync_pruned \in BOOLEAN :
        r = reservation(queue, p[2], sync_pruned, seed, Len(chain) + 1,
                        Segment(chain, p[1], p[2]))
  BY DEF Reservations
<1>2. Segment(chain, p[1], p[2]) \in Seq(Hash) /\ p[2] \in Nat
  BY <1>1, SegmentType, Zenon
<1> QED BY <1>1, <1>2, ReservationType

-----------------------------------------------------------------------------
\* The inductive invariant of the specification.
IInv == Sound(queue)

\* The empty queue is sound.
LEMMA InitSound == Init => IInv
  BY DEF IInv, Init, EmptyQueue, Sound, IsQueue, Starts, HashesAt

\* Every method keeps the queue sound, called with any argument at any time.
LEMMA NextSound == IInv /\ [Next]_queue => IInv'
<1> SUFFICES ASSUME Sound(queue), [Next]_queue PROVE Sound(queue')
  BY Zenon DEF IInv
<1>1. ASSUME NEW c \in Conn, AddBlocks(c) PROVE Sound(queue')
  <2>1. PICK chain \in Chains : \E first, last \in Heights(chain) :
          first <= last /\ queue' = add_blocks(queue, first, Segment(chain, first, last), c)
    BY <1>1, Zenon DEF AddBlocks
  <2>2. PICK first \in Heights(chain), last \in Heights(chain) :
          first <= last /\ queue' = add_blocks(queue, first, Segment(chain, first, last), c)
    BY <2>1, Zenon
  <2> QED BY <2>2, SegmentType, AddBlocksSound, Zenon
<1>2. ASSUME NEW c \in Conn, ReserveSpan(c) PROVE Sound(queue')
  <2>0. PICK chain \in Chains :
          \E r \in Reservations(chain) : queue' = reserve_span(queue, c, r)
    BY <1>2, Zenon DEF ReserveSpan
  <2>1. PICK r \in Reservations(chain) : queue' = reserve_span(queue, c, r)
    BY <2>0, Zenon
  <2>2. r.start \in Nat /\ r.hashes \in Seq(Hash)
    BY <2>1, ReservationsType, Zenon
  <2> QED BY <2>1, <2>2, ReserveSound, Zenon
<1>3. ASSUME NEW c \in Conn, FlushSpans(c) PROVE Sound(queue')
  BY <1>3, EraseSound, Zenon DEF FlushSpans, flush_spans
<1>4. ASSUME NEW c \in Conn, RemoveSpans(c) PROVE Sound(queue')
  BY <1>4, EraseSound, Zenon DEF RemoveSpans, remove_spans
<1>5. ASSUME FlushStaleSpans PROVE Sound(queue')
  BY <1>5, EraseSound, Zenon DEF FlushStaleSpans, flush_stale_spans
<1>6. CASE UNCHANGED queue
  BY <1>6, Zenon
<1> QED BY <1>1, <1>2, <1>3, <1>4, <1>5, <1>6, Zenon DEF Next

\* The queue is always a set of well-formed spans, at most one per start height,
\* none of them empty.
THEOREM QueueTypeCorrect == Spec => []TypeOK
<1>1. IInv => TypeOK
  BY Zenon DEF IInv, Sound, TypeOK
<1> QED BY <1>1, InitSound, NextSound, PTL DEF Spec

\* No hash is ever left requested by no span.
THEOREM NoRequestLeaks == Spec => []NoLeakedRequest
<1>1. IInv => NoLeakedRequest
  BY Zenon DEF IInv, Sound, NoLeakedRequest
<1> QED BY <1>1, InitSound, NextSound, PTL DEF Spec

\* have() is only ever true of hashes of filled spans.
THEOREM HaveImpliesFilled == Spec => []HaveOnlyFromFilledSpans
<1>1. IInv => HaveOnlyFromFilledSpans
  BY Zenon DEF IInv, Sound, HaveOnlyFromFilledSpans
<1> QED BY <1>1, InitSound, NextSound, PTL DEF Spec
-----------------------------------------------------------------------------
(* The walk of get_next_needed_height.                                       *)

End(q, h) == h + q.blocks[h].nblocks

Later(q, bc) == {h \in Starts(q) : h + q.blocks[h].nblocks - 1 >= bc}

\* The span that follows the one at h starts where that ends.
Follows(q, bc, h) ==
  End(q, h) \in Later(q, bc) /\ \A g \in Later(q, bc) : g <= h \/ End(q, h) <= g

\* What the recursive definition asks of the function.
IsWalk(q, bc, w) ==
  w = [h \in Nat |-> IF Follows(q, bc, h) THEN w[End(q, h)] ELSE End(q, h)]

\* There is such a function: the walk ends where the first span from h on ends
\* that no span follows.
LEMMA WalkExists ==
  ASSUME NEW q, IsQueue(q), NEW bc \in Nat
  PROVE  \E w : IsWalk(q, bc, w)
<1> DEFINE last(h) == Min({g \in Later(q, bc) : h <= g /\ ~ Follows(q, bc, g)})
           w == [h \in Nat |-> IF h \in Later(q, bc) THEN End(q, last(h))
                               ELSE IF Follows(q, bc, h) THEN End(q, last(End(q, h)))
                               ELSE End(q, h)]
<1>1. /\ Later(q, bc) \subseteq Nat
      /\ \A h \in Later(q, bc) : End(q, h) \in Nat /\ End(q, h) > h
  BY DEF IsQueue, Later, Starts, End, Span
<1>2. ASSUME NEW h \in Nat
      PROVE  w[h] = IF Follows(q, bc, h) THEN w[End(q, h)] ELSE End(q, h)
  <2>1. CASE h \notin Later(q, bc) /\ ~ Follows(q, bc, h)
    BY <2>1, Zenon
  <2>2. ASSUME Follows(q, bc, h)
        PROVE  End(q, h) \in Nat /\ w[End(q, h)] = End(q, last(End(q, h)))
    BY <1>1, <2>2, Zenon DEF Follows
  <2>3. CASE h \notin Later(q, bc) /\ Follows(q, bc, h)
    BY <2>2, <2>3, Zenon
  <2>4. CASE h \in Later(q, bc) /\ Follows(q, bc, h)
    <3>1. ASSUME NEW g \in Later(q, bc), ~ Follows(q, bc, g)
          PROVE  h <= g <=> End(q, h) <= g
      <4>1. g <= h \/ End(q, h) <= g
        BY <2>4, Zenon DEF Follows
      <4>2. g # h
        BY <2>4, <3>1, Zenon
      <4>3. g \in Nat /\ h \in Nat /\ End(q, h) \in Nat /\ End(q, h) > h
        BY <1>1, <2>4, Zenon
      <4> QED BY <4>1, <4>2, <4>3
    <3>2. {g \in Later(q, bc) : h <= g /\ ~ Follows(q, bc, g)}
            = {g \in Later(q, bc) : End(q, h) <= g /\ ~ Follows(q, bc, g)}
      BY <3>1, Zenon
    <3>3. last(h) = last(End(q, h))
      BY <3>2, Zenon
    <3> QED BY <2>2, <2>4, <3>3, Zenon
  <2>5. CASE h \in Later(q, bc) /\ ~ Follows(q, bc, h)
    <3> DEFINE S == {g \in Later(q, bc) : h <= g /\ ~ Follows(q, bc, g)}
    <3>1. h \in S /\ S \in SUBSET Nat
      BY <1>1, <2>5
    <3>2. Min(S) \in S /\ Min(S) <= h
      BY <3>1, MinNat, Zenon
    <3>3. Min(S) \in Nat /\ h <= Min(S)
      BY <3>1, <3>2, Zenon
    <3>4. last(h) = h
      BY <3>2, <3>3
    <3> QED BY <2>5, <3>4, Zenon
  <2> QED BY <2>1, <2>3, <2>4, <2>5, Zenon
<1>3. w = [h \in Nat |-> IF Follows(q, bc, h) THEN w[End(q, h)] ELSE End(q, h)]
  <2> HIDE DEF last
  <2>1. w = [h \in Nat |-> w[h]]
    BY Zenon
  <2> HIDE DEF w
  <2> QED BY <1>2, <2>1, Zenon
<1> QED BY <1>3, Zenon DEF IsWalk

\* get_next_needed_height answers what such a function does.
LEMMA NeededIsWalk ==
  ASSUME NEW q, IsQueue(q), NEW bc \in Nat
  PROVE  \E w : /\ IsWalk(q, bc, w)
                /\ get_next_needed_height(q, bc) =
                     IF /\ bc \in Later(q, bc)
                        /\ \A g \in Later(q, bc) : bc <= g
                        /\ filled(q, bc)
                     THEN w[bc] ELSE bc
<1> DEFINE starts == /\ bc \in Later(q, bc)
                     /\ \A g \in Later(q, bc) : bc <= g
                     /\ filled(q, bc)
           w == CHOOSE x : IsWalk(q, bc, x)
<1>1. IsWalk(q, bc, w)
  BY WalkExists, Zenon
<1>2. get_next_needed_height(q, bc) = IF starts THEN w[bc] ELSE bc
  BY Zenon DEF get_next_needed_height, IsWalk, Later, End, Follows
<1> QED BY <1>1, <1>2, Zenon

\* No span starts above some height: the queue is finite.
Bounded(q) == \E n \in Nat : \A h \in Starts(q) : h <= n

\* The heights from one up to another all lie in spans.
Covered(q, from, to) ==
  /\ to \in Nat
  /\ to > from
  /\ \A h \in from .. to - 1 :
       \E s \in Starts(q) : h \in s .. s + q.blocks[s].nblocks - 1

\* The walk from a span ends above it and leaves no height out, because it only
\* goes on to a span that starts where the last one ended; it is argued from
\* the highest span from which that could fail.
LEMMA WalkCovers ==
  ASSUME NEW q, IsQueue(q), Bounded(q), NEW bc \in Nat, NEW w, IsWalk(q, bc, w)
  PROVE  \A h \in Later(q, bc) : Covered(q, h, w[h])
<1>1. PICK n \in Nat : \A h \in Starts(q) : h <= n
  BY Zenon DEF Bounded
<1>2. Later(q, bc) \subseteq Starts(q) /\ Starts(q) \subseteq Nat
  BY Zenon DEF Later, IsQueue, Starts
<1>3. ASSUME NEW h \in Later(q, bc)
      PROVE  /\ h \in Nat /\ End(q, h) \in Nat /\ End(q, h) > h
             /\ \A g \in h .. End(q, h) - 1 : g \in h .. h + q.blocks[h].nblocks - 1
  <2>1. h \in Nat /\ q.blocks[h].nblocks \in Nat \ {0}
    BY <1>2, Zenon DEF IsQueue, Starts, Span
  <2> QED BY <2>1 DEF End
<1>4. ASSUME NEW h \in Later(q, bc),
             Follows(q, bc, h) => Covered(q, End(q, h), w[End(q, h)])
      PROVE  Covered(q, h, w[h])
  <2>1. w[h] = IF Follows(q, bc, h) THEN w[End(q, h)] ELSE End(q, h)
    BY <1>3, Zenon DEF IsWalk
  <2>2. \A g \in h .. End(q, h) - 1 :
          \E s \in Starts(q) : g \in s .. s + q.blocks[s].nblocks - 1
    BY <1>2, <1>3, Zenon
  <2>3. CASE ~ Follows(q, bc, h)
    BY <1>3, <2>1, <2>2, <2>3, Zenon DEF Covered
  <2>4. CASE Follows(q, bc, h)
    <3>1. PICK e, t : e = End(q, h) /\ t = w[h]
      BY Zenon
    <3>2. Covered(q, e, t) /\ h \in Nat /\ e \in Nat /\ e > h
      BY <1>3, <1>4, <2>1, <2>4, <3>1, Zenon
    <3>3. t \in Nat /\ t > e
      BY <3>2, Zenon DEF Covered
    <3>4. t > h /\ \A g \in h .. t - 1 : g \in h .. e - 1 \/ g \in e .. t - 1
      BY <3>2, <3>3
    <3> QED BY <2>2, <3>1, <3>2, <3>3, <3>4, Zenon DEF Covered
  <2> QED BY <2>3, <2>4, Zenon
<1>5. SUFFICES ASSUME NEW f \in Later(q, bc), ~ Covered(q, f, w[f]) PROVE FALSE
  BY Zenon
<1>6. PICK D : D = {d \in Nat : n - d \in Later(q, bc) /\ ~ Covered(q, n - d, w[n - d])}
  BY Zenon
<1>7. n - f \in Nat /\ n - (n - f) = f
  BY <1>1, <1>2, <1>5
<1>8. n - f \in D
  BY <1>5, <1>6, <1>7, Zenon
<1>9. PICK d \in D : \A y \in D : d <= y
  BY <1>6, <1>8, MinNat, Zenon
<1>10. PICK h : h = n - d
  BY Zenon
<1>11. d \in Nat /\ h \in Later(q, bc) /\ ~ Covered(q, h, w[h])
  BY <1>6, <1>9, <1>10, Zenon
<1>12. Follows(q, bc, h) /\ ~ Covered(q, End(q, h), w[End(q, h)])
  BY <1>4, <1>11, Zenon
<1>13. PICK e : e = End(q, h)
  BY Zenon
<1>14. e \in Later(q, bc) /\ e \in Nat /\ h \in Nat /\ e > h /\ e <= n
  BY <1>1, <1>2, <1>3, <1>11, <1>12, <1>13, Zenon DEF Follows
<1>15. n - e \in Nat /\ n - (n - e) = e /\ n - e < d
  BY <1>10, <1>11, <1>14
<1>16. n - e \in D
  BY <1>6, <1>12, <1>13, <1>14, <1>15, Zenon
<1> QED BY <1>9, <1>11, <1>15, <1>16

\* So nothing between the chain's height and the answer is left out.
LEMMA NeededCovers ==
  ASSUME NEW q, IsQueue(q), Bounded(q), NEW bc \in Nat
  PROVE  \/ get_next_needed_height(q, bc) = bc
         \/ filled(q, bc) /\ Covered(q, bc, get_next_needed_height(q, bc))
<1>1. PICK w : /\ IsWalk(q, bc, w)
               /\ get_next_needed_height(q, bc) =
                    IF /\ bc \in Later(q, bc)
                       /\ \A g \in Later(q, bc) : bc <= g
                       /\ filled(q, bc)
                    THEN w[bc] ELSE bc
  BY NeededIsWalk, Zenon
<1>2. \A h \in Later(q, bc) : Covered(q, h, w[h])
  BY <1>1, WalkCovers, Zenon
<1> QED BY <1>1, <1>2, Zenon

\* A queue that gains at most one start height stays bounded.
LEMMA OneMoreBounded ==
  ASSUME NEW q, Sound(q), Bounded(q), NEW height \in Nat,
         NEW e, Starts(e) \subseteq Starts(q) \cup {height}
  PROVE  Bounded(e)
<1>1. PICK n \in Nat : \A h \in Starts(q) : h <= n
  BY Zenon DEF Bounded
<1>2. Starts(q) \subseteq Nat
  BY Zenon DEF Sound, IsQueue, Starts
<1>3. PICK m \in Nat : n <= m /\ height <= m
  <2>1. CASE n <= height
    BY <2>1
  <2>2. CASE height <= n
    BY <2>2
  <2> QED BY <2>1, <2>2
<1>4. \A h \in Starts(q) : h <= m
  <2>1. ASSUME NEW h \in Starts(q) PROVE h <= m
    <3>1. h \in Nat /\ h <= n
      BY <1>1, <1>2, Zenon
    <3> QED BY <1>3, <3>1
  <2> QED BY <2>1, Zenon
<1> QED BY <1>3, <1>4, Zenon DEF Bounded

\* Which heights spans start at after each method: erasing leaves the others,
LEMMA EraseStarts ==
  ASSUME NEW q, NEW S
  PROVE  Starts(erase_blocks(q, S)) = Starts(q) \ S
BY Zenon DEF Starts, erase_blocks

\* inserting adds at most its height,
LEMMA InsertStarts ==
  ASSUME NEW q, NEW height, NEW span
  PROVE  Starts(insert(q, height, span)) \subseteq Starts(q) \cup {height}
<1>1. CASE height \in Starts(q)
  BY <1>1, Zenon DEF insert
<1>2. CASE height \notin Starts(q)
  BY <1>2 DEF insert, Starts
<1> QED BY <1>1, <1>2, Zenon

\* setting hashes changes none,
LEMMA SetHashesStarts ==
  ASSUME NEW q, NEW height, NEW c, NEW hashes
  PROVE  Starts(set_span_hashes(q, height, c, hashes)) = Starts(q)
BY Zenon DEF set_span_hashes, Starts

\* delivered blocks add at most theirs,
LEMMA AddBlocksStarts ==
  ASSUME NEW q, NEW height, NEW bcel, NEW c
  PROVE  Starts(add_blocks(q, height, bcel, c)) \subseteq Starts(q) \cup {height}
<1>1. PICK span : span = [hashes |-> <<>>, blocks |-> bcel, connection_id |-> c,
                          nblocks |-> Len(bcel)]
  BY Zenon
<1>2. PICK e : e = erase_blocks(q, {height} \cap Starts(q))
  BY Zenon
<1>3. PICK ins : ins = insert(e, height, span)
  BY Zenon
<1>4. Starts(ins) \subseteq Starts(q) \cup {height}
  <2>1. Starts(e) \subseteq Starts(q)
    BY <1>2, EraseStarts
  <2>2. Starts(ins) \subseteq Starts(e) \cup {height}
    BY <1>3, InsertStarts
  <2> QED BY <2>1, <2>2
<1>5. CASE height \notin Starts(q)
  BY <1>1, <1>2, <1>3, <1>4, <1>5, Zenon DEF add_blocks
<1>6. CASE height \in Starts(q)
  <2>1. PICK hashes : hashes = q.blocks[height].hashes
    BY Zenon
  <2>2. PICK known :
          known = [blocks           |-> ins.blocks,
                   requested_hashes |-> ins.requested_hashes \cup Range(hashes),
                   have_blocks      |-> ins.have_blocks \cup Range(hashes)]
    BY Zenon
  <2>3. Starts(known) = Starts(ins)
    BY <2>2, Zenon DEF Starts
  <2>4. add_blocks(q, height, bcel, c) = set_span_hashes(known, height, c, hashes)
    BY <1>1, <1>2, <1>3, <1>6, <2>1, <2>2, Zenon DEF add_blocks
  <2> QED BY <1>4, <2>3, <2>4, SetHashesStarts
<1> QED BY <1>5, <1>6, Zenon

\* and so does a reservation.
LEMMA ReserveStarts ==
  ASSUME NEW q, NEW c, NEW r
  PROVE  Starts(reserve_span(q, c, r)) \subseteq Starts(q) \cup {r.start}
<1>1. CASE r.hashes = <<>>
  BY <1>1, Zenon DEF reserve_span
<1>2. CASE r.hashes # <<>>
  <2>1. PICK span : span = [hashes |-> <<>>, blocks |-> <<>>, connection_id |-> c,
                            nblocks |-> Len(r.hashes)]
    BY Zenon
  <2>2. PICK ins : ins = insert(q, r.start, span)
    BY Zenon
  <2>3. Starts(ins) \subseteq Starts(q) \cup {r.start}
    BY <2>2, InsertStarts
  <2>4. reserve_span(q, c, r) = set_span_hashes(ins, r.start, c, r.hashes)
    BY <1>2, <2>1, <2>2, Zenon DEF reserve_span
  <2> QED BY <2>3, <2>4, SetHashesStarts
<1> QED BY <1>1, <1>2, Zenon

QueueBounded == Bounded(queue)

\* The empty queue is bounded.
LEMMA InitBounded == Init => QueueBounded
<1>1. Init => Starts(queue) = {}
  BY DEF Init, EmptyQueue, Starts
<1>2. 0 \in Nat
  OBVIOUS
<1> QED BY <1>1, <1>2, Zenon DEF QueueBounded, Bounded

\* Every step adds at most one span.
LEMMA NextBounded == IInv /\ QueueBounded /\ [Next]_queue => QueueBounded'
<1> SUFFICES ASSUME Sound(queue), Bounded(queue), [Next]_queue PROVE Bounded(queue')
  BY Zenon DEF IInv, QueueBounded
<1>0. ASSUME Starts(queue') \subseteq Starts(queue) PROVE Bounded(queue')
  BY <1>0, Zenon DEF Bounded
<1>1. ASSUME NEW c \in Conn, AddBlocks(c) PROVE Bounded(queue')
  <2>1. PICK chain \in Chains : \E first, last \in Heights(chain) :
          first <= last /\ queue' = add_blocks(queue, first, Segment(chain, first, last), c)
    BY <1>1, Zenon DEF AddBlocks
  <2>2. PICK first \in Heights(chain), last \in Heights(chain) :
          first <= last /\ queue' = add_blocks(queue, first, Segment(chain, first, last), c)
    BY <2>1, Zenon
  <2> QED BY <2>2, SegmentType, AddBlocksStarts, OneMoreBounded
<1>2. ASSUME NEW c \in Conn, ReserveSpan(c) PROVE Bounded(queue')
  <2>1. PICK chain \in Chains :
          \E r \in Reservations(chain) : queue' = reserve_span(queue, c, r)
    BY <1>2, Zenon DEF ReserveSpan
  <2>2. PICK r \in Reservations(chain) : queue' = reserve_span(queue, c, r)
    BY <2>1, Zenon
  <2>3. r.start \in Nat
    BY <2>2, ReservationsType, Zenon
  <2> QED BY <2>2, <2>3, ReserveStarts, OneMoreBounded
<1>3. ASSUME NEW c \in Conn, FlushSpans(c) PROVE Bounded(queue')
  BY <1>0, <1>3, EraseStarts DEF FlushSpans, flush_spans
<1>4. ASSUME NEW c \in Conn, RemoveSpans(c) PROVE Bounded(queue')
  BY <1>0, <1>4, EraseStarts DEF RemoveSpans, remove_spans
<1>5. ASSUME FlushStaleSpans PROVE Bounded(queue')
  BY <1>0, <1>5, EraseStarts DEF FlushStaleSpans, flush_stale_spans
<1>6. CASE UNCHANGED queue
  BY <1>6, Zenon
<1> QED BY <1>1, <1>2, <1>3, <1>4, <1>5, <1>6, Zenon DEF Next

\* get_next_needed_height never answers a height with a hole below it, whatever
\* the spans in the queue.
THEOREM NoHoleIsSkipped == Spec => []NoHoleBeforeNeeded
<1>1. IInv /\ QueueBounded => NoHoleBeforeNeeded
  <2> SUFFICES ASSUME IsQueue(queue), Bounded(queue),
                      NEW bc \in UNION {Heights(chain) : chain \in Chains},
                      NEW needed, needed = get_next_needed_height(queue, bc)
               PROVE  /\ needed >= bc
                      /\ \A h \in bc .. needed - 1 :
                           \E s \in Starts(queue) : h \in s .. s + queue.blocks[s].nblocks - 1
                      /\ needed > bc => filled(queue, bc)
    BY Zenon DEF IInv, QueueBounded, Sound, NoHoleBeforeNeeded
  <2>1. bc \in Nat
    <3>1. PICK chain \in Chains : bc \in Heights(chain)
      BY Zenon
    <3>2. chain \in Seq(Hash)
      BY QueueAssumption, Zenon DEF QueueAssumption
    <3> QED BY <3>1, <3>2 DEF Heights
  <2>2. CASE needed = bc
    BY <2>1, <2>2
  <2>3. CASE filled(queue, bc) /\ Covered(queue, bc, needed)
    <3>1. needed \in Nat /\ needed > bc
      BY <2>3, Zenon DEF Covered
    <3>2. needed >= bc
      BY <2>1, <3>1
    <3> QED BY <2>3, <3>2, Zenon DEF Covered
  <2> QED BY <2>1, <2>2, <2>3, NeededCovers, Zenon
<1>2. Spec => [](IInv /\ QueueBounded)
  BY InitSound, NextSound, InitBounded, NextBounded, PTL DEF Spec
<1> QED BY <1>1, <1>2, PTL
=============================================================================
