-------------------------------- MODULE Sync --------------------------------
(* Synchronization: the handlers of cryptonote_protocol_handler.inl for      *)
(* several connections, composed with the block queue.                       *)
(*                                                                           *)
(* The messages and callbacks of one connection are handled one at a time;   *)
(* those of different connections, and the timers, interleave.  A handler is *)
(* cut where it takes or leaves m_sync_lock and between its calls into the   *)
(* queue; calls in a row that only read the queue are one step.  Every peer  *)
(* has the same number of blocks above the genesis; those of a peer that is  *)
(* not good are bad from height Fork on, and it may stop answering at any    *)
(* time.  No peer is pruned, so all that depends on a pruning seed           *)
(* (should_drop_connection, the stripes) is left out.                        *)
EXTENDS Integers, Sequences, FiniteSets

CONSTANTS
  Conn,           \* connection ids
  Peers, Peer,    \* the peers, and the peer of each connection id
  Good,           \* the good peers
  NoConn,
  Length, Fork,   \* blocks of a chain; first height where a bad one differs
  MaxSpan,        \* get_block_sync_size
  MaxIds,         \* hashes a peer sends at once
  Spans,          \* BLOCK_QUEUE_NSPANS_THRESHOLD
  Near,           \* BLOCK_QUEUE_FORCE_DOWNLOAD_NEAR_BLOCKS
  MaxMishaps,     \* timeouts and closings that hit a good peer, and ill-timed syncs
  MaxBadConnects, \* connections to peers that are not good
  MaxCallbacks,   \* callbacks pending on each connection that a timer adds to
  STRIPE_SIZE, LOG_STRIPES, TIP_BLOCKS

ASSUME SyncAssumption ==
  /\ Peer \in [Conn -> Peers]
  /\ Good \subseteq Peers
  /\ NoConn \notin Conn
  /\ {Length, Fork, MaxSpan, Spans, Near} \subseteq Nat \ {0}
  /\ MaxCallbacks \in [Conn -> Nat \ {0}]
  /\ MaxIds \in Nat \ {0, 1}
  /\ {MaxMishaps, MaxBadConnects} \subseteq Nat

\* A block, by its height and the branch it is on.
Block(peer, h) == <<h, IF peer \in Good \/ h < Fork THEN 0 ELSE 1>>
Hash == (0 .. Length) \X {0, 1}
NoHash == <<0, 0>>
ChainOf(peer) == [h \in 1 .. Length |-> Block(peer, h)]
parent(b) == <<b[1] - 1, IF b[1] <= Fork THEN 0 ELSE b[2]>>

VARIABLES
  queue,      \* m_block_queue
  ctx,        \* the context of each connection
  pc,         \* where the handler of each connection is
  net,        \* the requests each peer has yet to answer
  sync,       \* owner of m_sync_lock
  job,        \* the span that owner has taken from the queue
  height,     \* get_current_blockchain_height
  alts,       \* the alternative blocks
  invalid,    \* m_invalid_blocks
  target,     \* get_target_blockchain_height
  mishaps, bad_connects,
  stranded    \* connections whose handler was left in the middle: try_add_next_blocks
              \* returned from its loop, or reset_next_span_time threw
core == <<height, alts, invalid>>
faults == <<mishaps, bad_connects>>
vars == <<queue, ctx, pc, net, sync, job, core, target, faults, stranded>>

BQ == INSTANCE BlockQueue
        WITH Chains <- {ChainOf(p) : p \in Peers}, MaxBlocks <- MaxSpan,
             Seeds <- {0}, LocalSeed <- 0

NoJob == [start |-> 0, conn |-> NoConn, blocks |-> <<>>]

\* cryptonote_connection_context.  waiting: m_last_request_time is set; last:
\* m_last_known_hash; lrh: m_last_response_height; asked: m_num_requested is not
\* zero; force, by (what the handler runs for: a callback, a chain entry or
\* objects) and span belong to the running handler.
NoSpan == [start |-> 0, hashes |-> <<>>]
Fresh == [state |-> "before_handshake", needed |-> <<>>, requested |-> {}, remote |-> 0,
          lrh |-> 0, waiting |-> FALSE, callbacks |-> 0, last |-> NoHash, score |-> 0,
          expect |-> "none", expect_height |-> 0, asked |-> FALSE, closing |-> FALSE,
          force |-> FALSE, by |-> "callback", span |-> NoSpan]

Init ==
  /\ queue = BQ!EmptyQueue
  /\ ctx = [c \in Conn |-> Fresh]
  /\ pc = [c \in Conn |-> "absent"]
  /\ net = [c \in Conn |-> <<>>]
  /\ sync = NoConn
  /\ job = NoJob
  /\ height = 1 /\ alts = {} /\ invalid = {}
  /\ target = 0
  /\ mishaps = 0 /\ bad_connects = 0
  /\ stranded = {}

-----------------------------------------------------------------------------
live == {c \in Conn : pc[c] # "absent"}
in_main(b) == b[2] = 0 /\ b[1] < height
have_block(b) == in_main(b) \/ b \in alts \/ b \in invalid
maximum(a, b) == IF a > b THEN a ELSE b
Idle(c) == pc[c] = "idle" /\ ~ctx[c].closing
Goto(c, label) == pc' = [pc EXCEPT ![c] = label]
Set(c, x) == ctx' = [ctx EXCEPT ![c] = x]
Send(c, m) == net' = [net EXCEPT ![c] = Append(@, m)]
next_needed == BQ!get_next_needed_height(queue, height)
next_span == BQ!Min(BQ!Starts(queue))

\* A connection that is being closed: only its state and height are looked at until
\* on_connection_close.
closed(x) == [Fresh EXCEPT !.state = x.state, !.remote = x.remote, !.closing = TRUE]

\* request_callback
call_back(x) == [x EXCEPT !.callbacks = @ + 1]

\* The hashes at the front that are in the chain, or also in a filled span.
skip_unneeded_hashes(x, check_block_queue) ==
  LET unneeded(i) == \/ have_block(x.needed[i])
                     \/ check_block_queue /\ BQ!have(queue, x.needed[i])
      n == CHOOSE k \in 0 .. Len(x.needed) :
             /\ \A i \in 1 .. k : unneeded(i)
             /\ k < Len(x.needed) => ~unneeded(k + 1)
  IN  [x EXCEPT !.needed = SubSeq(@, n + 1, Len(@)),
                !.last = IF n > 0 /\ n = Len(x.needed) THEN x.needed[n] ELSE @]

\* late: the time that passed since the next span was requested is over one of
\* the thresholds.
should_download_next_span(x, late) ==
  /\ x.remote > height
  /\ \/ ~BQ!has_next_span(queue, height)
     \/ ~BQ!filled(queue, next_span) /\ late

-----------------------------------------------------------------------------
\* process_payload_sync_data: what a peer says of its chain at the handshake and
\* in every timed sync.
process_payload_sync_data(c, x) ==
  LET y == [x EXCEPT !.remote = Length + 1]
      t == IF target = 0 THEN height ELSE target
  IN  IF have_block(Block(Peer[c], Length))
      THEN Set(c, [y EXCEPT !.state = "normal"]) /\ target' = target
      ELSE /\ Set(c, call_back([y EXCEPT !.state = "synchronizing", !.asked = FALSE]))
           /\ target' = IF Length + 1 > t THEN Length + 1 ELSE target

\* A new connection has a new id, one that neither the queue nor a handler still
\* knows; which of those is all the same.
NewIds(peer) ==
  {c \in Conn : /\ Peer[c] = peer /\ c \notin live /\ job.conn # c
                /\ \A h \in BQ!Starts(queue) : queue.blocks[h].connection_id # c}
Connect(c) ==
  /\ \A d \in live : Peer[d] # Peer[c]
  /\ NewIds(Peer[c]) # {} /\ c = CHOOSE d \in NewIds(Peer[c]) : TRUE
  /\ bad_connects' = IF Peer[c] \in Good THEN bad_connects ELSE bad_connects + 1
  /\ bad_connects' <= MaxBadConnects
  /\ process_payload_sync_data(c, Fresh)
  /\ Goto(c, "idle")
  /\ UNCHANGED <<queue, net, sync, job, core, mishaps, stranded>>

\* A connection that is already synchronizing ignores what the peer says.
TimedSync(c) ==
  /\ Idle(c)
  /\ ctx[c].state # "synchronizing"
  /\ ctx[c].callbacks < MaxCallbacks[c]
  /\ mishaps' = IF ctx[c].state = "standby" THEN mishaps + 1 ELSE mishaps
  /\ mishaps' <= MaxMishaps
  /\ process_payload_sync_data(c, ctx[c])
  /\ UNCHANGED <<queue, pc, net, sync, job, core, bad_connects, stranded>>

on_callback(c) ==
  LET x == [ctx[c] EXCEPT !.callbacks = @ - 1]
  IN  /\ Idle(c)
      /\ ctx[c].callbacks > 0
      /\ \/ /\ x.state = "synchronizing" /\ ~x.waiting
            /\ Set(c, [x EXCEPT !.needed = <<>>, !.expect = "chain", !.expect_height = height,
                                !.waiting = TRUE])
            /\ Send(c, [type |-> "chain", front |-> NoHash, top |-> height - 1])
            /\ UNCHANGED pc
         \/ /\ x.state = "standby"
            /\ Set(c, [x EXCEPT !.state = "synchronizing"])
            /\ Goto(c, "add")
            /\ UNCHANGED net
         \/ /\ x.state = "normal" \/ (x.state = "synchronizing" /\ x.waiting)
            /\ Set(c, x)
            /\ UNCHANGED <<pc, net>>
      /\ UNCHANGED <<queue, sync, job, core, target, faults, stranded>>

-----------------------------------------------------------------------------
(* The answers of the peers.                                                 *)

\* find_blockchain_supplement at the peer: the hashes from the first block of the
\* request it has on, at most MaxIds of them.
chain_entry(peer, m) ==
  LET top   == IF peer \in Good THEN m.top
               ELSE IF m.top < Fork THEN m.top ELSE Fork - 1
      start == IF m.front # NoHash /\ m.front = Block(peer, m.front[1]) THEN m.front[1] ELSE top
      n     == IF Length - start + 1 < MaxIds THEN Length - start + 1 ELSE MaxIds
  IN  [start |-> start, ids |-> [i \in 1 .. n |-> Block(peer, start + i - 1)]]

\* The checks of handle_response_chain_entry: the first hash is known, none after
\* it is that of an invalid block and none that is known follows an unknown one.
entry_accepted(r) ==
  /\ \/ have_block(r.ids[1])
     \/ BQ!requested(queue, r.ids[1])
     \/ BQ!have(queue, r.ids[1])
  /\ \A i \in 2 .. Len(r.ids) :
       /\ r.ids[i] \notin invalid
       /\ have_block(r.ids[i]) => have_block(r.ids[i - 1])

handle_response_chain_entry(c) ==
  LET x == ctx[c]
      m == Head(net[c])
      r == chain_entry(Peer[c], m)
      y == [x EXCEPT !.expect = "none", !.waiting = FALSE, !.remote = Length + 1,
                     !.lrh = r.start + Len(r.ids) - 1, !.needed = r.ids,
                     !.force = FALSE, !.by = "entry"]
      accepted == x.expect = "chain" /\ r.start + 1 <= x.expect_height /\ entry_accepted(r)
  IN  /\ Idle(c)
      /\ net[c] # <<>> /\ m.type = "chain"
      /\ net' = [net EXCEPT ![c] = Tail(@)]
      /\ Set(c, IF accepted THEN y ELSE x)
      /\ Goto(c, IF accepted THEN "flush" ELSE "drop")
      /\ UNCHANGED <<queue, sync, job, core, target, faults, stranded>>

\* The peer sends the blocks it has of those it was asked for.
handle_response_get_objects(c) ==
  LET x         == ctx[c]
      m         == Head(net[c])
      mine(b)   == b = Block(Peer[c], b[1])
      blocks    == SelectSeq(m.hashes, mine)
      y         == [x EXCEPT !.waiting = FALSE, !.expect = "none"]
      accepted  == /\ x.expect = "objects"
                   /\ blocks # <<>>
                   /\ blocks[1][1] <= x.expect_height
                   /\ BQ!Range(blocks) = x.requested
  IN  /\ Idle(c)
      /\ net[c] # <<>> /\ m.type = "objects"
      /\ net' = [net EXCEPT ![c] = Tail(@)]
      /\ \/ /\ accepted
            /\ queue' = BQ!add_blocks(queue, blocks[1][1], blocks, c)
            /\ Set(c, [y EXCEPT !.requested = {}, !.last = blocks[Len(blocks)],
                                !.by = "objects"])
            /\ Goto(c, "add")
         \/ /\ ~accepted
            /\ Set(c, y)
            /\ Goto(c, "drop")
            /\ UNCHANGED queue
      /\ target' = IF x.expect = "objects" /\ blocks # <<>> THEN maximum(target, x.remote)
                   ELSE target
      /\ UNCHANGED <<sync, job, core, faults, stranded>>

-----------------------------------------------------------------------------
(* try_add_next_blocks: add, adding, commit, added.                          *)

\* "If we can, it means no other thread is currently adding blocks."
lock_sync(c) ==
  /\ pc[c] = "add"
  /\ IF sync = NoConn
     THEN sync' = c /\ Goto(c, "adding") /\ UNCHANGED ctx
     ELSE /\ Goto(c, "flush")
          /\ Set(c, [ctx[c] EXCEPT !.force = FALSE])
          /\ UNCHANGED sync
  /\ UNCHANGED <<queue, net, job, core, target, faults, stranded>>

\* goto skip, or the end of the function: m_sync_lock is released.
unlock_sync(c, x, label) == sync' = NoConn /\ job' = NoJob /\ Set(c, x) /\ Goto(c, label)

\* The hashes are asked for from the start again.  Mutant: the old ones are kept.
keep_restart(x) == [x EXCEPT !.lrh = 0]
restart(x) == [x EXCEPT !.needed = <<>>, !.lrh = 0]

\* One turn of the loop up to prepare_handle_incoming_blocks.
take_span(c) ==
  LET start   == BQ!get_next_span(queue)
      span    == queue.blocks[start]
      blocks  == span.blocks
      orphan  == ~have_block(parent(blocks[1]))
      wanted  == BQ!requested(queue, parent(blocks[1]))
      skip    == [ctx[c] EXCEPT !.force = FALSE]
      old     == have_block(blocks[Len(blocks)])
      removed == BQ!remove_spans(queue, span.connection_id, start)
  IN  /\ pc[c] = "adding"
      /\ \/ /\ ~BQ!has_filled_span(queue)
            /\ Goto(c, "added")
            /\ UNCHANGED <<queue, ctx, sync, job>>
         \/ /\ BQ!has_filled_span(queue)
            /\ \/ /\ old
                  /\ queue' = removed
                  /\ UNCHANGED <<ctx, pc, sync, job>>
               \/ /\ ~old /\ orphan /\ wanted
                  /\ Goto(c, "added")
                  /\ UNCHANGED <<queue, ctx, sync, job>>
               \/ /\ ~old /\ orphan /\ ~wanted /\ start > height
                  /\ unlock_sync(c, skip, "flush")
                  /\ UNCHANGED queue
               \/ /\ ~old /\ orphan /\ ~wanted /\ start <= height
                  /\ queue' = removed
                  /\ unlock_sync(c, restart(skip), "flush")
               \/ /\ ~old /\ ~orphan
                  /\ job' = [start |-> start, conn |-> span.connection_id, blocks |-> blocks]
                  /\ Goto(c, "commit")
                  /\ UNCHANGED <<queue, ctx, sync>>
      /\ UNCHANGED <<net, core, target, faults, stranded>>

\* drop_connections closes every connection to the host the span came from (Connect
\* leaves at most one) and flushes its spans.
same_host(c) == {d \in live : Peer[d] = Peer[c]}
close(S, x) == [d \in Conn |-> IF d \in S THEN [x[d] EXCEPT !.closing = TRUE] ELSE x[d]]

\* add_new_block on the core s: blocks of the good chain extend it.  A bad one fails
\* its own checks (own), as an orphan, or when it is connected, at once or, stored
\* as an alternative until then, when its chain has become the heavier one.
add_new_block(s, b, own) ==
  LET known    == (b[2] = 0 /\ b[1] < s.height) \/ b \in s.alts \cup s.invalid
      extends  == parent(b) = <<s.height - 1, 0>>
      attached == (parent(b)[2] = 0 /\ parent(b)[1] < s.height) \/ parent(b) \in s.alts
  IN  IF s.failed \/ known THEN s
      ELSE IF b[2] = 0 THEN [s EXCEPT !.height = b[1] + 1]
      ELSE IF own \/ ~attached THEN [s EXCEPT !.failed = TRUE]
      ELSE IF extends THEN [s EXCEPT !.failed = TRUE, !.invalid = @ \cup {b}]
      ELSE IF b[1] < s.height THEN [s EXCEPT !.alts = @ \cup {b}]
      ELSE [s EXCEPT !.failed = TRUE, !.invalid = @ \cup s.alts \cup {b}, !.alts = {}]

\* The core after the first n blocks of the span.
core_after(n, own) ==
  LET after[i \in 0 .. n] ==
        IF i = 0 THEN [height |-> height, alts |-> alts, invalid |-> invalid, failed |-> FALSE]
        ELSE add_new_block(after[i - 1], job.blocks[i], own)
  IN  after[n]

\* cleanup_handle_incoming_blocks: the batch of the span is committed, or it is
\* lost, and false returned; m_invalid_blocks is in memory.
cleanup(s) == height' = s.height /\ alts' = s.alts /\ invalid' = s.invalid
cleanup_fails(s) == UNCHANGED <<height, alts>> /\ invalid' = s.invalid

\* The blocks of the span are all added, to the chain or as alternatives.
commit_span(c) ==
  /\ pc[c] = "commit"
  /\ \E own \in BOOLEAN : \E s \in {core_after(Len(job.blocks), own)} :
       ~s.failed /\ cleanup(s)
  /\ queue' = BQ!remove_spans(queue, job.conn, job.start)
  /\ job' = NoJob
  /\ Goto(c, "adding")
  /\ UNCHANGED <<ctx, net, sync, target, faults, stranded>>

\* The handler returns from the loop with m_sync_lock released and nothing asked
\* of its peer.
leave_loop(c) ==
  /\ sync' = NoConn /\ job' = NoJob
  /\ Goto(c, "idle")
  /\ UNCHANGED <<net, target, faults>>

\* A bad block: prepare_handle_incoming_blocks fails on the span as a whole, or
\* the blocks before it go in first.  The connections it came from are dropped;
\* the span is removed whatever became of them only when a block failed and
\* the batch is committed.
fail_span(c) ==
  LET bad   == {i \in DOMAIN job.blocks : job.blocks[i][2] = 1}
      hosts == same_host(job.conn)
      gone  == IF hosts = {} THEN queue
               ELSE BQ!flush_spans(queue, CHOOSE d \in hosts : TRUE, TRUE)
  IN  /\ pc[c] = "commit"
      /\ bad # {}
      /\ \/ queue' = gone /\ UNCHANGED core
         \/ \E own \in BOOLEAN : \E s \in {core_after(Len(job.blocks), own)} :
              /\ s.failed
              /\ \/ cleanup(s) /\ queue' = BQ!remove_spans(gone, job.conn, job.start)
                 \/ cleanup_fails(s) /\ queue' = gone
      /\ ctx' = [close(hosts, ctx) EXCEPT ![c].by = "callback"]
      /\ leave_loop(c)
      /\ stranded' = stranded \cup ({c} \ hosts)

\* No block failed, but the batch is lost when it is to be committed, or ends
\* early because the node stops (or by one of the two internal errors, which find
\* a wrong number of blocks or transactions).  The span stays in the queue.
leave_span(c) ==
  /\ pc[c] = "commit"
  /\ \E n \in 0 .. Len(job.blocks), own \in BOOLEAN : \E s \in {core_after(n, own)} :
       /\ ~s.failed
       /\ \/ cleanup_fails(s)
          \/ n < Len(job.blocks) /\ cleanup(s)
  /\ Set(c, [ctx[c] EXCEPT !.by = "callback"])
  /\ leave_loop(c)
  /\ stranded' = stranded \cup {c}
  /\ UNCHANGED queue

\* The end of try_add_next_blocks.  Late is free for a span that a mute peer has
\* been asked for, and otherwise counted.
Late == {FALSE} \cup
        (IF \/ mishaps < MaxMishaps
            \/ BQ!Starts(queue) # {} /\ Peer[queue.blocks[next_span].connection_id] \notin Good
         THEN {TRUE} ELSE {})
count_late(late) ==
  mishaps' = IF late /\ mishaps < MaxMishaps THEN mishaps + 1 ELSE mishaps

stop_adding(c) ==
  /\ pc[c] = "added"
  /\ \E late \in Late :
       /\ count_late(late)
       /\ unlock_sync(c, [ctx[c] EXCEPT !.force = should_download_next_span(ctx[c], late)],
                      "flush")
  /\ UNCHANGED <<queue, net, core, target, bad_connects, stranded>>

-----------------------------------------------------------------------------
(* request_missing_objects: flush, req, objects, reset, resort, chain.       *)

\* The two ways it ends.  A chain entry that brought it about then raises the
\* target and restarts the count of requests.
succeed(c, x) ==
  /\ Set(c, [x EXCEPT !.force = FALSE, !.by = "callback", !.span = NoSpan,
                      !.asked = @ /\ x.by # "entry"])
  /\ target' = IF x.by = "entry" THEN maximum(target, x.remote) ELSE target
  /\ Goto(c, "idle")
fail(c, x) == Set(c, x) /\ Goto(c, "drop") /\ UNCHANGED target
proceed(c, x, label) == Set(c, x) /\ Goto(c, label) /\ UNCHANGED target

flush_stale(c) ==
  /\ pc[c] = "flush"
  /\ queue' = BQ!flush_stale_spans(queue, live)
  /\ Goto(c, IF ctx[c].force THEN "objects" ELSE "req")
  /\ UNCHANGED <<ctx, net, sync, job, core, target, faults, stranded>>

\* on_connection_synchronized is a matter of logging.
done(x) == [x EXCEPT !.state = "normal"]

\* All the hashes from x to y were skipped, and nothing was asked for since they
\* came: the peer has nothing, unless it is not ahead.
skipped_all(x, y) == x.needed # <<>> /\ y.needed = <<>> /\ ~x.asked
nothing_to_request(c, x) ==
  IF x.remote > next_needed THEN fail(c, x) ELSE succeed(c, done(x))

\* When the queue is full and the next block not near the chain, the connection
\* pauses.
check_queue(c) ==
  /\ pc[c] = "req"
  /\ \E y \in {skip_unneeded_hashes(ctx[c], TRUE)} : \E late \in Late :
       LET next_block == IF y.needed = <<>> THEN next_needed ELSE y.lrh - Len(y.needed) + 1
           near  == next_block < height + Near \/ next_needed < height + Near
           room  == Cardinality({h \in BQ!Starts(queue) : BQ!filled(queue, h)}) < Spans
           force == near /\ should_download_next_span(y, late)
           ready == BQ!has_next_span(queue, height) /\ BQ!filled(queue, next_span)
           pause == [y EXCEPT !.state = "standby"]
           go    == [y EXCEPT !.state = "synchronizing", !.force = force]
       IN  /\ count_late(late)
           /\ \/ skipped_all(ctx[c], y) /\ nothing_to_request(c, y)
              \/ /\ ~skipped_all(ctx[c], y)
                 /\ \/ /\ near \/ room
                       /\ proceed(c, go, IF y.needed # <<>> \/ force THEN "objects" ELSE "chain")
                    \/ /\ ~near /\ ~room
                       /\ \/ sync = NoConn /\ ready /\ succeed(c, call_back(pause))
                          \/ sync = NoConn /\ ~ready /\ late /\ fail(c, y)
                          \/ (sync # NoConn \/ (~ready /\ ~late)) /\ succeed(c, pause)
  /\ UNCHANGED <<queue, net, sync, job, core, bad_connects, stranded>>

request_span(c, x, start, hashes) ==
  /\ succeed(c, [x EXCEPT !.requested = @ \cup BQ!Range(hashes), !.waiting = TRUE,
                          !.expect = "objects", !.expect_height = start, !.asked = TRUE])
  /\ Send(c, [type |-> "objects", hashes |-> hashes])

\* get_next_span_if_scheduled
scheduled_span == [start |-> next_span, hashes |-> queue.blocks[next_span].hashes]

reserve_and_request(c, x, r) ==
  LET first == x.lrh - Len(x.needed) + 1
      rest  == SubSeq(x.needed, r.start - first + Len(r.hashes) + 1, Len(x.needed))
  IN  /\ queue' = BQ!reserve_span(queue, c, r)
      /\ request_span(c, [x EXCEPT !.needed = rest], r.start, r.hashes)

\* The list without the hashes of the next span.
others(x) ==
  LET other(b) == b \notin BQ!Range(queue.blocks[next_span].hashes)
  IN  [x EXCEPT !.needed = SelectSeq(@, other)]

\* The span to ask the peer for.  Mutant: the heights of the hashes are off by one.
shifted_span_for(x) == BQ!reservation(queue, x.lrh + 1, FALSE, 0, x.remote, x.needed)
span_for(x) == BQ!reservation(queue, x.lrh, FALSE, 0, x.remote, x.needed)

\* The next span, when it is to be forced and is scheduled, or a new reservation.
\* That the hashes reach below the genesis, or that the reservation lies outside
\* them, is ruled out by NeededInPlace.
request_objects(c) ==
  LET x      == ctx[c]
      forced == x.force /\ BQ!next_span_is_scheduled(queue)
  IN  /\ pc[c] = "objects"
      /\ \/ /\ forced
            /\ proceed(c, [x EXCEPT !.span = scheduled_span, !.requested =
                                      @ \cup BQ!Range(scheduled_span.hashes)], "reset")
            /\ UNCHANGED <<queue, net>>
         \/ /\ ~forced
            /\ \E y \in {skip_unneeded_hashes(x, FALSE)} : \E r \in {span_for(y)} :
                 \/ skipped_all(x, y) /\ nothing_to_request(c, y) /\ UNCHANGED <<queue, net>>
                 \/ ~skipped_all(x, y) /\ r.hashes # <<>> /\ reserve_and_request(c, y, r)
                 \/ /\ ~skipped_all(x, y) /\ r.hashes = <<>>
                    /\ proceed(c, y, "resort")
                    /\ UNCHANGED <<queue, net>>
      /\ UNCHANGED <<sync, job, core, faults, stranded>>

\* reset_next_span_time, which throws when the next span has been filled or has
\* gone meanwhile.  call_back_starter catches what a callback throws and leaves
\* the connection as it is.  What a message throws reaches handle_read, which
\* then reads no more from the peer, until the connection times out.
reset_next_span_time(c) ==
  LET x == ctx[c]
  IN  /\ pc[c] = "reset"
      /\ \/ /\ BQ!next_span_is_scheduled(queue)
            /\ request_span(c, x, x.span.start, x.span.hashes)
            /\ UNCHANGED stranded
         \/ /\ ~BQ!next_span_is_scheduled(queue)
            /\ IF x.by = "callback"
               THEN /\ Set(c, [x EXCEPT !.force = FALSE, !.span = NoSpan])
                    /\ stranded' = stranded \cup {c}
               ELSE Set(c, closed(x)) /\ UNCHANGED stranded
            /\ Goto(c, "idle")
            /\ UNCHANGED <<net, target>>
      /\ UNCHANGED <<queue, sync, job, core, faults>>

\* Nothing could be reserved: the next span if it is scheduled, and not the one
\* that was to be forced.
last_resort(c) ==
  LET x         == ctx[c]
      scheduled == BQ!next_span_is_scheduled(queue)
  IN  /\ pc[c] = "resort"
      /\ \/ /\ ~x.force /\ scheduled
            /\ request_span(c, others(x), scheduled_span.start, scheduled_span.hashes)
         \/ /\ x.force \/ ~scheduled
            /\ IF maximum(height, next_needed) >= target
               THEN succeed(c, done(x))
               ELSE fail(c, x)
            /\ UNCHANGED net
      /\ UNCHANGED <<queue, sync, job, core, faults, stranded>>

\* Wake up to add blocks, ask for more hashes, or be done with this peer.
request_chain(c) ==
  LET x     == [ctx[c] EXCEPT !.needed = <<>>]
      add   == height < target /\ sync = NoConn /\ BQ!has_filled_span(queue)
      front == IF x.last = <<height - 1, 0>> THEN NoHash ELSE x.last
  IN  /\ pc[c] = "chain"
      /\ \/ /\ add
            /\ succeed(c, call_back([x EXCEPT !.state = "standby"]))
            /\ UNCHANGED net
         \/ /\ ~add /\ x.lrh < x.remote - 1
            /\ succeed(c, [x EXCEPT !.expect = "chain", !.waiting = TRUE, !.expect_height =
                                      IF front = NoHash THEN height ELSE Length + 2])
            /\ Send(c, [type |-> "chain", front |-> front, top |-> height - 1])
         \/ /\ ~add /\ x.lrh >= x.remote - 1
            /\ IF x.lrh = x.remote - 1 /\ x.requested = {}
               THEN succeed(c, done(x))
               ELSE fail(c, x)
            /\ UNCHANGED net
      /\ UNCHANGED <<queue, sync, job, core, faults, stranded>>

\* drop_connection(context, ..., false) at the end of a handler.
drop_connection(c) ==
  /\ pc[c] = "drop"
  /\ queue' = BQ!flush_spans(queue, c, FALSE)
  /\ Set(c, closed(ctx[c]))
  /\ Goto(c, "idle")
  /\ UNCHANGED <<net, sync, job, core, target, faults, stranded>>

on_connection_close(c) ==
  LET rest == {d \in live \ {c} : ctx[d].state # "before_handshake"}
      best == IF rest = {} THEN 0 ELSE BQ!Max({ctx[d].remote : d \in rest})
  IN  /\ pc[c] = "idle" /\ ctx[c].closing
      /\ target' = IF best < target THEN best ELSE target
      /\ queue' = BQ!flush_spans(queue, c, FALSE)
      /\ Set(c, Fresh)
      /\ Goto(c, "absent")
      /\ net' = [net EXCEPT ![c] = <<>>]
      /\ stranded' = stranded \ {c}
      /\ UNCHANGED <<sync, job, core, faults>>

-----------------------------------------------------------------------------
(* Timers.                                                                   *)

\* The connection is to start over with a callback.  Mutant: it is only marked as
\* having no request outstanding.
silent_kick(x) == [x EXCEPT !.score = @ - 1, !.waiting = FALSE, !.expect = "none",
                            !.expect_height = 0]
kick(x) == call_back([x EXCEPT !.score = @ - 1, !.waiting = FALSE, !.expect = "none",
                               !.expect_height = 0, !.state = "standby"])

\* The request has been outstanding for too long: a mute peer's always will be.
kick_idle_peers(c) ==
  LET x == ctx[c]
  IN  /\ Idle(c)
      /\ x.state = "synchronizing" /\ x.waiting
      /\ mishaps' = IF Peer[c] \in Good THEN mishaps + 1 ELSE mishaps
      /\ mishaps' <= MaxMishaps
      /\ \/ /\ x.score >= 0
            /\ Set(c, kick(x))
            /\ UNCHANGED queue
         \/ /\ x.score < 0
            /\ queue' = BQ!flush_spans(queue, c, FALSE)
            /\ Set(c, closed(x))
      /\ UNCHANGED <<pc, net, sync, job, core, target, bad_connects, stranded>>

check_standby_peers(c) ==
  /\ c \in live /\ ctx[c].state = "standby" /\ ~ctx[c].closing
  /\ ctx[c].callbacks < MaxCallbacks[c]
  /\ Set(c, call_back(ctx[c]))
  /\ UNCHANGED <<queue, pc, net, sync, job, core, target, faults, stranded>>

\* The peer closes the connection.
PeerCloses(c) ==
  /\ Idle(c)
  /\ mishaps' = IF Peer[c] \in Good THEN mishaps + 1 ELSE mishaps
  /\ mishaps' <= MaxMishaps
  /\ Set(c, closed(ctx[c]))
  /\ UNCHANGED <<queue, pc, net, sync, job, core, target, bad_connects, stranded>>

-----------------------------------------------------------------------------
Handler(c) ==
  \/ lock_sync(c) \/ take_span(c) \/ commit_span(c) \/ fail_span(c) \/ leave_span(c)
  \/ stop_adding(c) \/ flush_stale(c) \/ check_queue(c) \/ request_objects(c)
  \/ reset_next_span_time(c) \/ last_resort(c) \/ request_chain(c)
  \/ drop_connection(c) \/ on_connection_close(c)
Receive(c) == handle_response_chain_entry(c) \/ handle_response_get_objects(c)

Next ==
  \E c \in Conn :
    \/ Connect(c) \/ TimedSync(c) \/ on_callback(c) \/ Receive(c) \/ Handler(c)
    \/ kick_idle_peers(c) \/ check_standby_peers(c) \/ PeerCloses(c)

\* The thread that serves a connection goes on with what it started, runs the
\* callbacks and takes the answers, which a good peer sends; the timers that apply
\* to a connection fire; a good peer is connected to again.
Thread(c) == Handler(c) \/ on_callback(c) \/ (Peer[c] \in Good /\ Receive(c))
Timer(c) ==
  TimedSync(c) \/ check_standby_peers(c) \/ (Peer[c] \notin Good /\ kick_idle_peers(c))

Fairness ==
  \A c \in Conn : /\ WF_vars(Thread(c))
                  /\ WF_vars(Timer(c))
                  /\ WF_vars(Peer[c] \in Good /\ Connect(c))

Spec == Init /\ [][Next]_vars /\ Fairness

-----------------------------------------------------------------------------
\* A connection that synchronizes, with no request outstanding, no callback to
\* come and no handler running: no answer, timer or timed sync looks at it again.
Wedged(c) ==
  /\ Idle(c) /\ ctx[c].state = "synchronizing"
  /\ ~ctx[c].waiting /\ ctx[c].callbacks = 0

\* Whatever answers, kicks, callbacks, timed syncs and closings come in whatever
\* order, a handler leaves its connection in a state from which something wakes it
\* up.  There are two exceptions.  try_add_next_blocks returns from its loop when
\* the span of another peer fails, when its batch is not committed and when the
\* node stops; and reset_next_span_time throws in a callback.  No other
\* connection is ever without a wake-up.
NoWedge == \A c \in Conn : Wedged(c) => c \in stranded

\* "Then, we go back to download": no connection is left without anything to
\* wake it up when adding blocks ends.
GoesBackToDownload == \A c \in Conn : ~Wedged(c)

\* The hashes still needed are those of consecutive blocks that end at
\* m_last_response_height, from which every handler works out their heights,
\* although three handlers cut, filter, replace or clear the list.
NeededInPlace ==
  \A c \in Conn : LET x == ctx[c] IN
    \A i \in DOMAIN x.needed : x.needed[i][1] = x.lrh - Len(x.needed) + i

\* The blocks missing from the chain are, as far as the queue knows, in it.
Downloaded == \A h \in height .. Length : BQ!have(queue, <<h, 0>>)

\* As long as a good peer can be connected to, all its blocks are downloaded in
\* the end, whatever another peer that sends bad blocks, stops answering or goes
\* away has reserved, delivered or left behind in the queue, unless a handler has
\* left its connection by one of the exceptions of NoWedge.
DownloadEnds == <>(Downloaded \/ stranded # {})

\* "if we can add blocks instead, do so": blocks that are all in the queue do
\* not stay there.
DownloadedIsAdded == <>(height > Length \/ stranded # {})

\* The handlers use the queue only in the ways that BlockQueue allows: each of
\* their steps is one call of the queue or leaves it alone, with the arguments
\* that module supposes, so what is proved of the queue holds here.
UsesQueueAsModelled == BQ!Init /\ [][queue' # queue => BQ!Next]_queue
=============================================================================
