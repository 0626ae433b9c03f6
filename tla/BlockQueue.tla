----------------------------- MODULE BlockQueue -----------------------------
(* The queue of block spans being downloaded during synchronization          *)
(* (src/src/cryptonote_protocol/block_queue.cpp, block_queue.h).             *)
(*                                                                           *)
(* Every method runs under the queue's mutex, so each is one step.  The      *)
(* methods are operators on the queue's value, because they call each other  *)
(* and because the protocol handler calls several in a row;                  *)
(* the actions below call them with every argument a caller may pass.        *)
(* A block is identified with its hash.  Rates, sizes and times only feed    *)
(* statistics and timeouts, and are left out.                                *)
EXTENDS Pruning, Sequences, Functions

CONSTANTS
  Hash,        \* block hashes
  Conn,        \* connection ids
  Chains,      \* chains peers may have, block by block above the genesis
  MaxBlocks,   \* largest span a caller asks for
  Seeds,       \* pruning seeds peers announce
  LocalSeed    \* this node's own pruning seed

ASSUME QueueAssumption ==
  /\ Chains \subseteq Seq(Hash)
  /\ MaxBlocks \in Nat
  /\ Seeds \subseteq Nat
  /\ LocalSeed \in Nat

VARIABLE queue

-----------------------------------------------------------------------------
(* A span; it is scheduled while blocks is empty, and filled afterwards.     *)
Span == [hashes : Seq(Hash), blocks : Seq(Hash), connection_id : Conn,
         nblocks : Nat \ {0}]

\* blocks is a std::set ordered by start height: at most one span per start.
IsQueue(q) ==
  /\ q = [blocks |-> q.blocks, requested_hashes |-> q.requested_hashes,
          have_blocks |-> q.have_blocks]
  /\ q.blocks = [h \in DOMAIN q.blocks |-> q.blocks[h]]
  /\ DOMAIN q.blocks \subseteq Nat
  /\ \A h \in DOMAIN q.blocks : q.blocks[h] \in Span
  /\ q.requested_hashes \subseteq Hash
  /\ q.have_blocks \subseteq Hash

EmptyQueue == [blocks |-> [h \in {} |-> {}], requested_hashes |-> {}, have_blocks |-> {}]

Starts(q) == DOMAIN q.blocks
filled(q, h) == q.blocks[h].blocks # <<>>
HashesAt(q, S) == UNION {Range(q.blocks[h].hashes) : h \in S}

\* Mutant: erased spans keep their hashes in have_blocks.
hoarding_erase_blocks(q, S) ==
  [blocks           |-> [h \in Starts(q) \ S |-> q.blocks[h]],
   requested_hashes |-> q.requested_hashes \ HashesAt(q, S),
   have_blocks      |-> q.have_blocks]

\* erase_block, applied to the spans starting at the heights of S.
erase_blocks(q, S) ==
  [blocks           |-> [h \in Starts(q) \ S |-> q.blocks[h]],
   requested_hashes |-> q.requested_hashes \ HashesAt(q, S),
   have_blocks      |-> q.have_blocks \ HashesAt(q, S)]

\* std::set::insert: nothing happens when a span with that start is there.
insert(q, height, span) ==
  IF height \in Starts(q)
  THEN q
  ELSE [q EXCEPT !.blocks = [h \in Starts(q) \cup {height} |->
                               IF h = height THEN span ELSE q.blocks[h]]]

\* The span's old hashes leave both sets; the new ones are requested only.
set_span_hashes(q, height, c, hashes) ==
  IF height \in Starts(q) /\ q.blocks[height].connection_id = c
  THEN LET e == erase_blocks(q, {height})
       IN  [blocks           |-> [q.blocks EXCEPT ![height].hashes = hashes],
            requested_hashes |-> e.requested_hashes \cup Range(hashes),
            have_blocks      |-> e.have_blocks]
  ELSE q

\* A connection delivers blocks: they replace the span that starts at the same
\* height, whoever it was reserved for, and inherit its hashes.
add_blocks(q, height, bcel, c) ==
  LET had    == height \in Starts(q)
      hashes == IF had THEN q.blocks[height].hashes ELSE <<>>
      span   == [hashes |-> <<>>, blocks |-> bcel, connection_id |-> c,
                 nblocks |-> Len(bcel)]
      ins    == insert(erase_blocks(q, {height} \cap Starts(q)), height, span)
      known  == [blocks           |-> ins.blocks,
                 requested_hashes |-> ins.requested_hashes \cup Range(hashes),
                 have_blocks      |-> ins.have_blocks \cup Range(hashes)]
  IN  IF had THEN set_span_hashes(known, height, c, hashes) ELSE ins

\* Mutant: the spans go but their hashes stay requested.
forgetful_flush_spans(q, c, all) ==
  LET gone == {h \in Starts(q) :
                 q.blocks[h].connection_id = c /\ (all \/ ~filled(q, h))}
  IN  [q EXCEPT !.blocks = [h \in Starts(q) \ gone |-> q.blocks[h]]]

flush_spans(q, c, all) ==
  erase_blocks(q, {h \in Starts(q) :
                     q.blocks[h].connection_id = c /\ (all \/ ~filled(q, h))})

flush_stale_spans(q, live) ==
  erase_blocks(q, {h \in Starts(q) :
                     ~filled(q, h) /\ q.blocks[h].connection_id \notin live})

remove_spans(q, c, height) ==
  erase_blocks(q, {h \in Starts(q) : q.blocks[h].connection_id = c /\ h <= height})

-----------------------------------------------------------------------------
(* reserve_span: from the hashes a peer announced, up to height last, pick a *)
(* run that starts at the first one not requested yet.                       *)

\* The first index from k on whose hash is not requested, or one past the end.
skip_requested(q, block_hashes, k) ==
  Min({i \in k .. Len(block_hashes) + 1 :
         i <= Len(block_hashes) => block_hashes[i] \notin q.requested_hashes})

\* How many hashes from index k (height start) on one span takes: the loop stops
\* after MaxBlocks, at the end of the hashes, or at the first block the peer does
\* not keep or, when syncing pruned blocks, the first one for which full data is
\* needed if it is not for the start, or the other way round.
span_length(block_hashes, k, start, peer, bc, sync_pruned) ==
  LET wanted(n) ==
        IF sync_pruned
        THEN has_unpruned_block(start + n, bc, LocalSeed)
               <=> has_unpruned_block(start, bc, LocalSeed)
        ELSE has_unpruned_block(start + n, bc, peer)
  IN  Min({n \in 0 .. MaxBlocks : n < MaxBlocks => k + n > Len(block_hashes) \/ ~wanted(n)})

\* What reserve_span decides: the start height and the hashes of the new span;
\* no hashes stand for its (0, 0) result.
reservation(q, last, sync_pruned, peer, bc, block_hashes) ==
  LET n     == Len(block_hashes)
      base  == last - n + 1
      none  == [start |-> 0, hashes |-> <<>>]
      ideal == base + skip_requested(q, block_hashes, 1) - 1
      next  == get_next_unpruned_block_height(ideal, bc, peer)
      from  == IF ~sync_pruned /\ next \in ideal + 1 .. ideal + STRIPE_SIZE - 1
               THEN next ELSE ideal
      k     == skip_requested(q, block_hashes, from - base + 1)
      len   == span_length(block_hashes, k, base + k - 1, peer, bc, sync_pruned)
  IN  IF n = 0 \/ n > last \/ MaxBlocks = 0 \/ from >= n + base
      THEN none
      ELSE IF len = 0
           THEN none
           ELSE [start |-> base + k - 1, hashes |-> SubSeq(block_hashes, k, k + len - 1)]

\* The scheduled span is inserted and its hashes set; both are silently skipped
\* when another connection's span starts at the same height.
reserve_span(q, c, r) ==
  IF r.hashes = <<>>
  THEN q
  ELSE set_span_hashes(insert(q, r.start, [hashes |-> <<>>, blocks |-> <<>>,
                                           connection_id |-> c,
                                           nblocks |-> Len(r.hashes)]),
                       r.start, c, r.hashes)

-----------------------------------------------------------------------------
(* Queries.                                                                  *)
requested(q, hash) == hash \in q.requested_hashes
have(q, hash) == hash \in q.have_blocks

\* get_next_span: the lowest filled span.
has_filled_span(q) == \E h \in Starts(q) : filled(q, h)
get_next_span(q) == Min({h \in Starts(q) : filled(q, h)})

\* get_next_span_if_scheduled: the lowest span, if it is still scheduled.
next_span_is_scheduled(q) == Starts(q) # {} /\ ~filled(q, Min(Starts(q)))

\* has_next_span: the lowest span starts no later than height.
has_next_span(q, height) == Starts(q) # {} /\ Min(Starts(q)) <= height

\* Mutant: the spans need not follow each other.
gappy_next_needed_height(q, blockchain_height) ==
  LET later == {h \in Starts(q) : h + q.blocks[h].nblocks - 1 >= blockchain_height}
      last  == Max(later)
  IN  IF blockchain_height \in later /\ filled(q, blockchain_height)
      THEN last + q.blocks[last].nblocks
      ELSE blockchain_height

\* Walks the spans that reach the chain's height in order: the first one must be
\* filled and start at that height, each other one start where the last ended.
get_next_needed_height(q, blockchain_height) ==
  LET later == {h \in Starts(q) : h + q.blocks[h].nblocks - 1 >= blockchain_height}
      walk[h \in Nat] ==
        LET end == h + q.blocks[h].nblocks
        IN  IF end \in later /\ \A g \in later : g <= h \/ end <= g
            THEN walk[end]
            ELSE end
  IN  IF /\ blockchain_height \in later
         /\ \A g \in later : blockchain_height <= g
         /\ filled(q, blockchain_height)
      THEN walk[blockchain_height]
      ELSE blockchain_height

-----------------------------------------------------------------------------
Init == queue = EmptyQueue

\* The run of a chain's hashes from height first to height last.
Segment(chain, first, last) == [i \in 1 .. last - first + 1 |-> chain[first + i - 1]]
Heights(chain) == DOMAIN chain

AddBlocks(c) ==
  \E chain \in Chains : \E first, last \in Heights(chain) :
    /\ first <= last
    /\ last - first < MaxBlocks
    /\ queue' = add_blocks(queue, first, Segment(chain, first, last), c)

\* The results of reserve_span for a peer with the given chain, whose height
\* counts the genesis block, that announces any run of it; pruned blocks are
\* only asked for by a node that prunes.
Reservations(chain) ==
  {reservation(queue, r[2], sync_pruned, seed, Len(chain) + 1, Segment(chain, r[1], r[2])) :
     r \in {p \in Heights(chain) \X Heights(chain) : p[1] <= p[2]},
     seed \in Seeds, sync_pruned \in {b \in BOOLEAN : b => LocalSeed # 0}}

ReserveSpan(c) ==
  \E chain \in Chains : \E r \in Reservations(chain) : queue' = reserve_span(queue, c, r)

FlushSpans(c) == \E all \in BOOLEAN : queue' = flush_spans(queue, c, all)

FlushStaleSpans == \E live \in SUBSET Conn : queue' = flush_stale_spans(queue, live)

RemoveSpans(c) == \E h \in Starts(queue) : queue' = remove_spans(queue, c, h)

Next ==
  \/ \E c \in Conn : AddBlocks(c) \/ ReserveSpan(c) \/ FlushSpans(c) \/ RemoveSpans(c)
  \/ FlushStaleSpans

Spec == Init /\ [][Next]_queue

-----------------------------------------------------------------------------
TypeOK == IsQueue(queue)

\* A hash is never left requested without a span that will deliver it: whatever
\* reservations, deliveries, flushes and removals happen, erase_block takes a
\* span's hashes out with it.  A leaked hash would be skipped by reserve_span
\* for ever.
NoLeakedRequest == queue.requested_hashes \subseteq HashesAt(queue, Starts(queue))

\* have() is only true of hashes that belong to a span which has been filled,
\* and every such hash counts as requested too: both sets are updated together
\* although four methods write them.
HaveOnlyFromFilledSpans ==
  queue.have_blocks \subseteq
    queue.requested_hashes \cap
      HashesAt(queue, {h \in Starts(queue) : filled(queue, h)})

\* Everything between the chain's height and the height get_next_needed_height
\* answers is covered by spans, the first of them downloaded: downloading from
\* that height on leaves no hole behind.
NoHoleBeforeNeeded ==
  \A bc \in UNION {Heights(chain) : chain \in Chains} :
    LET needed == get_next_needed_height(queue, bc)
    IN  /\ needed >= bc
        /\ \A h \in bc .. needed - 1 :
             \E s \in Starts(queue) : h \in s .. s + queue.blocks[s].nblocks - 1
        /\ needed > bc => filled(queue, bc)

\* "skip everything we've already requested" (reserve_span): a reservation never
\* takes in a hash that another span has already requested.
NeverReservesRequested ==
  [][\A h \in Starts(queue') \ Starts(queue) :
       queue'.blocks[h].blocks = <<>> =>
         Range(queue'.blocks[h].hashes) \cap queue.requested_hashes = {}]_queue
=============================================================================
