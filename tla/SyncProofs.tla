----------------------------- MODULE SyncProofs -----------------------------
(* No handler of the protocol leaves its connection without anything to wake *)
(* it up, for every set of connections and peers, chain and queue size.      *)
EXTENDS Sync, TLAPS

\* The fields of a context that decide what wakes a connection up.
Fields == {"state", "waiting", "callbacks", "closing", "needed", "requested", "remote", "lrh",
           "last", "score", "expect", "expect_height", "asked", "force", "by", "span"}

IsContext(x) == DOMAIN x = Fields /\ x.callbacks \in Nat

\* The inductive invariant: the contexts keep their fields, and a connection with
\* no handler running is closing, paused or done, or is waiting for an answer or
\* a callback, or is one whose handler was left in the middle.
Contexts ==
  /\ DOMAIN ctx = Conn /\ DOMAIN pc = Conn
  /\ \A c \in Conn : IsContext(ctx[c])
Awaits(x) == x.closing \/ x.state # "synchronizing" \/ x.waiting \/ x.callbacks > 0
Inv ==
  /\ Contexts
  /\ \A c \in Conn : pc[c] = "idle" => Awaits(ctx[c]) \/ c \in stranded

\* A connection that awaits something is not wedged.
LEMMA InvSuffices == Inv => NoWedge
  BY DEF Inv, Contexts, IsContext, Fields, Awaits, NoWedge, Wedged, Idle

\* Nothing is connected at first.
LEMMA InitInv == Init => Inv
  BY DEF Init, Inv, Contexts, IsContext, Fields, Fresh, Awaits

\* A step of one connection that gives it a new context and a new place keeps the
\* invariant if the context awaits something wherever the handler has ended.
LEMMA OneConnection ==
  ASSUME Inv, NEW c \in Conn, NEW x, NEW label, IsContext(x),
         ctx' = [ctx EXCEPT ![c] = x],
         pc' = [pc EXCEPT ![c] = label] \/ (pc' = pc /\ label = pc[c]),
         label = "idle" => Awaits(x),
         stranded' = stranded \/ (label = "absent" /\ stranded' = stranded \ {c})
  PROVE  Inv'
<1>1. Contexts'
  BY Zenon DEF Inv, Contexts, Set, Goto
<1>2. ASSUME NEW d \in Conn, pc'[d] = "idle"
      PROVE  Awaits(ctx'[d]) \/ d \in stranded'
  <2>1. CASE d = c
    BY <1>2, <2>1, Zenon DEF Inv, Contexts, Set, Goto, Awaits
  <2>2. CASE d # c
    BY <1>2, <2>2, Zenon DEF Inv, Contexts, Set, Goto, Awaits
  <2> QED BY <2>1, <2>2, Zenon
<1> QED BY <1>1, <1>2, Zenon DEF Inv, Awaits

\* A connection that is being closed awaits its end.
LEMMA ClosedContext ==
  ASSUME NEW x
  PROVE  IsContext(closed(x)) /\ Awaits(closed(x))
  BY DEF closed, Fresh, IsContext, Fields, Awaits

\* A handler that goes on keeps it whatever it does to its context.
LEMMA HandlerGoesOn ==
  ASSUME Inv, NEW c \in Conn, NEW label, label # "idle", ctx' = ctx \/ \E x : IsContext(x)
           /\ ctx' = [ctx EXCEPT ![c] = x],
         pc' = [pc EXCEPT ![c] = label], stranded' = stranded
  PROVE  Inv'
<1>1. CASE ctx' = ctx
  BY <1>1, Zenon DEF Inv, Contexts, Awaits
<1>2. CASE ctx' # ctx
  <2>1. PICK x : IsContext(x) /\ ctx' = [ctx EXCEPT ![c] = x]
    BY <1>2, Zenon
  <2> QED BY <2>1, OneConnection, Zenon
<1> QED BY <1>1, <1>2, Zenon

-----------------------------------------------------------------------------
(* The handlers.                                                             *)

\* The two timers, the callbacks and what a peer says of its chain.
LEMMA CallbackSteps ==
  ASSUME Inv, NEW c \in Conn,
         \/ Connect(c) \/ TimedSync(c) \/ on_callback(c)
         \/ kick_idle_peers(c) \/ check_standby_peers(c) \/ PeerCloses(c)
  PROVE  Inv'
<1> IsContext(ctx[c]) /\ DOMAIN ctx = Conn
  BY Zenon DEF Inv, Contexts
<1> IsContext(Fresh)
  BY DEF Fresh, IsContext, Fields
<1>1. ASSUME NEW x, IsContext(x), process_payload_sync_data(c, x)
      PROVE  \E y : IsContext(y) /\ Set(c, y) /\ Awaits(y)
  <2> DEFINE y == [x EXCEPT !.remote = Length + 1]
             n == [y EXCEPT !.state = "normal"]
             s == call_back([y EXCEPT !.state = "synchronizing", !.asked = FALSE])
  <2>1. IsContext(n) /\ Awaits(n)
    BY <1>1, Zenon DEF IsContext, Fields, Awaits
  <2>2. IsContext(s) /\ Awaits(s)
    BY <1>1 DEF IsContext, Fields, Awaits, call_back
  <2>3. Set(c, n) \/ Set(c, s)
    BY <1>1, Zenon DEF process_payload_sync_data
  <2> HIDE DEF n, s
  <2> QED BY <2>1, <2>2, <2>3, ZenonT(60)
<1>2. CASE Connect(c)
  <2>1. PICK y : IsContext(y) /\ Set(c, y) /\ Awaits(y)
    BY <1>1, <1>2, Zenon DEF Connect
  <2> QED BY <1>2, <2>1, OneConnection, Zenon DEF Connect, Set, Goto
<1>3. CASE TimedSync(c)
  <2>1. PICK y : IsContext(y) /\ Set(c, y) /\ Awaits(y)
    BY <1>1, <1>3, Zenon DEF TimedSync
  <2> QED BY <1>3, <2>1, OneConnection, Zenon DEF TimedSync, Set
<1>4. CASE on_callback(c)
  <2> DEFINE x == [ctx[c] EXCEPT !.callbacks = @ - 1]
  <2>1. IsContext(x) /\ x.state = ctx[c].state /\ x.waiting = ctx[c].waiting
    BY <1>4 DEF on_callback, IsContext, Fields
  <2>2. CASE x.state = "synchronizing" /\ ~x.waiting /\ UNCHANGED pc
             /\ Set(c, [x EXCEPT !.needed = <<>>, !.expect = "chain",
                                 !.expect_height = height, !.waiting = TRUE])
    <3> DEFINE y == [x EXCEPT !.needed = <<>>, !.expect = "chain",
                              !.expect_height = height, !.waiting = TRUE]
    <3>1. IsContext(y) /\ Awaits(y)
      BY <2>1, Zenon DEF IsContext, Fields, Awaits
    <3> QED BY <1>4, <2>2, <3>1, OneConnection, ZenonT(60) DEF on_callback, Set, Goto
  <2>3. CASE Set(c, [x EXCEPT !.state = "synchronizing"]) /\ Goto(c, "add")
    <3>1. IsContext([x EXCEPT !.state = "synchronizing"])
      BY <2>1, Zenon DEF IsContext, Fields
    <3> QED BY <1>4, <2>3, <3>1, OneConnection, ZenonT(60) DEF on_callback, Set, Goto
  <2>4. CASE (x.state = "normal" \/ (x.state = "synchronizing" /\ x.waiting))
             /\ Set(c, x) /\ UNCHANGED pc
    <3>1. Awaits(x)
      BY <2>4, Zenon DEF Awaits
    <3> HIDE DEF x
    <3> QED BY <1>4, <2>1, <2>4, <3>1, OneConnection, ZenonT(60) DEF on_callback, Set, Goto
  <2> QED BY <1>4, <2>2, <2>3, <2>4 DEF on_callback
<1>5. CASE kick_idle_peers(c)
  <2>1. IsContext(kick(ctx[c])) /\ Awaits(kick(ctx[c]))
    BY DEF kick, call_back, IsContext, Fields, Awaits
  <2>2. Set(c, kick(ctx[c])) \/ Set(c, closed(ctx[c]))
    BY <1>5, Zenon DEF kick_idle_peers
  <2> QED BY <1>5, <2>1, <2>2, ClosedContext, OneConnection, ZenonT(60) DEF kick_idle_peers, Set
<1>6. CASE check_standby_peers(c)
  <2>1. IsContext(call_back(ctx[c])) /\ Awaits(call_back(ctx[c]))
    BY DEF call_back, IsContext, Fields, Awaits
  <2> QED BY <1>6, <2>1, OneConnection, Zenon DEF check_standby_peers, Set
<1>7. CASE PeerCloses(c)
  BY <1>7, ClosedContext, OneConnection, Zenon DEF PeerCloses, Set
<1> QED BY <1>2, <1>3, <1>4, <1>5, <1>6, <1>7, ZenonT(60)

\* The answers of the peers.
LEMMA ReceiveSteps ==
  ASSUME Inv, NEW c \in Conn, Receive(c)
  PROVE  Inv'
<1> IsContext(ctx[c])
  BY Zenon DEF Inv, Contexts
<1>1. CASE handle_response_chain_entry(c)
  <2>1. PICK y : IsContext(y) /\ Set(c, y)
    BY <1>1, Zenon DEF handle_response_chain_entry, IsContext, Fields
  <2>2. PICK label : label \in {"flush", "drop"} /\ Goto(c, label)
    BY <1>1, Zenon DEF handle_response_chain_entry
  <2> QED BY <1>1, <2>1, <2>2, HandlerGoesOn, Zenon DEF handle_response_chain_entry, Set, Goto
<1>2. CASE handle_response_get_objects(c)
  <2>1. PICK y : IsContext(y) /\ Set(c, y)
    BY <1>2, Zenon DEF handle_response_get_objects, IsContext, Fields
  <2>2. PICK label : label \in {"add", "drop"} /\ Goto(c, label)
    BY <1>2, Zenon DEF handle_response_get_objects
  <2> QED BY <1>2, <2>1, <2>2, HandlerGoesOn, Zenon DEF handle_response_get_objects, Set, Goto
<1> QED BY <1>1, <1>2, Zenon DEF Receive

\* try_add_next_blocks up to the span that fails, and the end of a connection.
LEMMA AddingSteps ==
  ASSUME Inv, NEW c \in Conn,
         \/ lock_sync(c) \/ take_span(c) \/ commit_span(c) \/ stop_adding(c) \/ flush_stale(c)
         \/ drop_connection(c) \/ on_connection_close(c)
  PROVE  Inv'
<1> IsContext(ctx[c])
  BY Zenon DEF Inv, Contexts
<1>1. CASE lock_sync(c)
  <2> DEFINE y == [ctx[c] EXCEPT !.force = FALSE]
  <2>1. IsContext(y)
    BY Zenon DEF IsContext, Fields
  <2>2. \/ UNCHANGED ctx /\ Goto(c, "adding")
        \/ Set(c, y) /\ Goto(c, "flush")
    BY <1>1, Zenon DEF lock_sync
  <2> HIDE DEF y
  <2> QED BY <1>1, <2>1, <2>2, HandlerGoesOn, ZenonT(60) DEF lock_sync, Set, Goto
<1>2. CASE take_span(c)
  <2> DEFINE y == [ctx[c] EXCEPT !.force = FALSE]
             z == restart(y)
  <2>1. IsContext(y)
    BY DEF IsContext, Fields
  <2>2. IsContext(z)
    BY <2>1, Zenon DEF IsContext, Fields, restart
  <2>3. \/ UNCHANGED <<ctx, pc>>
        \/ UNCHANGED ctx /\ (Goto(c, "added") \/ Goto(c, "commit"))
        \/ (Set(c, y) \/ Set(c, z)) /\ Goto(c, "flush")
    BY <1>2, Zenon DEF take_span, unlock_sync
  <2>4. CASE UNCHANGED <<ctx, pc>>
    BY <1>2, <2>4, Zenon DEF take_span, Inv, Contexts, Awaits
  <2> HIDE DEF y, z
  <2>5. CASE UNCHANGED ctx /\ (Goto(c, "added") \/ Goto(c, "commit"))
    BY <1>2, <2>5, HandlerGoesOn, Zenon DEF take_span, Goto
  <2>6. CASE (Set(c, y) \/ Set(c, z)) /\ Goto(c, "flush")
    BY <1>2, <2>1, <2>2, <2>6, HandlerGoesOn, Zenon DEF take_span, Goto, Set
  <2> QED BY <2>3, <2>4, <2>5, <2>6, Zenon
<1>3. CASE commit_span(c)
  BY <1>3, HandlerGoesOn, Zenon DEF commit_span, Goto
<1>4. CASE stop_adding(c)
  <2>1. PICK late : Set(c, [ctx[c] EXCEPT !.force = should_download_next_span(ctx[c], late)])
                    /\ Goto(c, "flush")
    BY <1>4, Zenon DEF stop_adding, unlock_sync
  <2>2. IsContext([ctx[c] EXCEPT !.force = should_download_next_span(ctx[c], late)])
    BY Zenon DEF IsContext, Fields
  <2> QED BY <1>4, <2>1, <2>2, HandlerGoesOn, ZenonT(60) DEF stop_adding, Set, Goto
<1>5. CASE flush_stale(c)
  <2>1. PICK label : label \in {"objects", "req"} /\ Goto(c, label)
    BY <1>5, Zenon DEF flush_stale
  <2> QED BY <1>5, <2>1, HandlerGoesOn, ZenonT(60) DEF flush_stale, Goto
<1>6. CASE drop_connection(c)
  BY <1>6, ClosedContext, OneConnection, Zenon DEF drop_connection, Set, Goto
<1>7. CASE on_connection_close(c)
  <2>1. IsContext(Fresh)
    BY ZenonT(60) DEF IsContext, Fields, Fresh
  <2>2. /\ ctx' = [ctx EXCEPT ![c] = Fresh]
        /\ pc' = [pc EXCEPT ![c] = "absent"]
        /\ stranded' = stranded \ {c}
    BY <1>7, Zenon DEF on_connection_close, Set, Goto
  <2>3. "absent" = "idle" => Awaits(Fresh)
    BY Zenon
  <2>4. stranded' = stranded \/ ("absent" = "absent" /\ stranded' = stranded \ {c})
    BY <2>2, Zenon
  <2> QED BY <2>1, <2>2, <2>3, <2>4, OneConnection, ZenonT(60)
<1> QED BY <1>1, <1>2, <1>3, <1>4, <1>5, <1>6, <1>7, ZenonT(60)

\* A span that fails: the thread that added it goes back to its connection with
\* nothing more to do, which is what stranded records unless it is closed.
LEMMA FailedSpan ==
  ASSUME Inv, NEW c \in Conn, fail_span(c)
  PROVE  Inv'
<1> DEFINE hosts == same_host(job.conn)
<1>1. /\ ctx' = [close(hosts, ctx) EXCEPT ![c].by = "callback"] /\ Goto(c, "idle")
      /\ stranded' = stranded \cup ({c} \ hosts)
  BY Zenon DEF fail_span, leave_loop
<1> HIDE DEF hosts
<1>2. \A d \in Conn : /\ IsContext(close(hosts, ctx)[d])
                      /\ d \in hosts => Awaits(close(hosts, ctx)[d])
                      /\ d \notin hosts => close(hosts, ctx)[d] = ctx[d]
  BY Zenon DEF close, Inv, Contexts, IsContext, Fields, Awaits
<1>3. DOMAIN close(hosts, ctx) = Conn
  BY Zenon DEF close
<1>4. \A d \in Conn : /\ IsContext(ctx'[d])
                      /\ d \in hosts => Awaits(ctx'[d])
                      /\ d \notin hosts /\ d # c => ctx'[d] = ctx[d]
  <2> DEFINE x == close(hosts, ctx)[c]
             y == [x EXCEPT !.by = "callback"]
  <2>1. ctx' = [close(hosts, ctx) EXCEPT ![c] = y]
    BY <1>1, Zenon
  <2>2. IsContext(y) /\ (c \in hosts => Awaits(y))
    BY <1>2, Zenon DEF IsContext, Fields, Awaits
  <2> HIDE DEF x, y
  <2> QED BY <1>2, <1>3, <2>1, <2>2, Zenon DEF Awaits
<1>5. DOMAIN ctx' = Conn /\ DOMAIN pc' = Conn
  BY <1>1, <1>3, Zenon DEF Goto, Inv, Contexts
<1>6. ASSUME NEW d \in Conn, pc'[d] = "idle"
      PROVE  Awaits(ctx'[d]) \/ d \in stranded'
  BY <1>1, <1>4, <1>6, Zenon DEF Goto, Inv, Contexts
<1>7. Contexts'
  BY <1>4, <1>5, Zenon DEF Contexts, IsContext
<1> QED BY <1>6, <1>7, Zenon DEF Inv, Awaits

\* A handler that is left in the middle is recorded in stranded.
LEMMA LeftInTheMiddle ==
  ASSUME Inv, NEW c \in Conn, NEW x, IsContext(x), Set(c, x), Goto(c, "idle"),
         stranded' = stranded \cup {c}
  PROVE  Inv'
<1>1. Contexts'
  BY Zenon DEF Inv, Contexts, Set, Goto
<1>2. ASSUME NEW d \in Conn, pc'[d] = "idle"
      PROVE  Awaits(ctx'[d]) \/ d \in stranded'
  <2>1. CASE d = c
    BY <2>1, Zenon
  <2>2. CASE d # c
    BY <1>2, <2>2, Zenon DEF Inv, Contexts, Set, Goto, Awaits
  <2> QED BY <2>1, <2>2, Zenon
<1> QED BY <1>1, <1>2, Zenon DEF Inv, Awaits

\* A batch that is not committed, or not as a whole.
LEMMA LeftSpan ==
  ASSUME Inv, NEW c \in Conn, leave_span(c)
  PROVE  Inv'
<1> DEFINE y == [ctx[c] EXCEPT !.by = "callback"]
<1>1. IsContext(y)
  BY Zenon DEF Inv, Contexts, IsContext, Fields
<1>2. Set(c, y) /\ Goto(c, "idle") /\ stranded' = stranded \cup {c}
  BY Zenon DEF leave_span, leave_loop
<1> HIDE DEF y
<1> QED BY <1>1, <1>2, LeftInTheMiddle, Zenon

-----------------------------------------------------------------------------
(* request_missing_objects: every way it returns true leaves a request, a    *)
(* callback, the standby state or the normal state behind.                   *)

\* It returns true with a context that awaits something.
LEMMA Succeeds ==
  ASSUME Inv, NEW c \in Conn, NEW x, IsContext(x), Awaits(x), succeed(c, x),
         stranded' = stranded
  PROVE  Inv'
<1> DEFINE y == [x EXCEPT !.force = FALSE, !.by = "callback", !.span = NoSpan,
                           !.asked = @ /\ x.by # "entry"]
<1>1. IsContext(y) /\ Awaits(y)
  BY Zenon DEF IsContext, Fields, Awaits
<1>2. Set(c, y) /\ Goto(c, "idle")
  BY Zenon DEF succeed
<1> HIDE DEF y
<1> QED BY <1>1, <1>2, OneConnection, Zenon DEF Set, Goto

\* It returns false: the connection is yet to be dropped.
LEMMA Fails ==
  ASSUME Inv, NEW c \in Conn, NEW x, IsContext(x), fail(c, x), stranded' = stranded
  PROVE  Inv'
  BY HandlerGoesOn, Zenon DEF fail, Set, Goto

\* Skipping hashes and ending the synchronization change other fields.
LEMMA ContextKept ==
  ASSUME NEW x, IsContext(x)
  PROVE  /\ \A b : IsContext(skip_unneeded_hashes(x, b))
         /\ IsContext(done(x)) /\ Awaits(done(x))
         /\ IsContext(others(x))
  BY Zenon DEF IsContext, Fields, Awaits, skip_unneeded_hashes, done, others

\* Either the peer is dropped or its synchronization is over.
LEMMA NothingToRequest ==
  ASSUME Inv, NEW c \in Conn, NEW x, IsContext(x), nothing_to_request(c, x),
         stranded' = stranded
  PROVE  Inv'
<1>1. fail(c, x) \/ succeed(c, done(x))
  BY Zenon DEF nothing_to_request
<1> QED BY <1>1, ContextKept, Succeeds, Fails, Zenon

\* A request for objects is waited for.
LEMMA RequestSpan ==
  ASSUME Inv, NEW c \in Conn, NEW x, NEW start, NEW hashes, IsContext(x),
         request_span(c, x, start, hashes), stranded' = stranded
  PROVE  Inv'
<1> DEFINE y == [x EXCEPT !.requested = @ \cup BQ!Range(hashes), !.waiting = TRUE,
                          !.expect = "objects", !.expect_height = start, !.asked = TRUE]
<1>1. IsContext(y) /\ Awaits(y)
  BY Zenon DEF IsContext, Fields, Awaits
<1>2. succeed(c, y)
  BY Zenon DEF request_span
<1> HIDE DEF y
<1> QED BY <1>1, <1>2, Succeeds, Zenon

\* A full queue pauses the connection, with or without a callback.
LEMMA CheckQueue ==
  ASSUME Inv, NEW c \in Conn, check_queue(c)
  PROVE  Inv'
<1> DEFINE y == skip_unneeded_hashes(ctx[c], TRUE)
           pause == [y EXCEPT !.state = "standby"]
<1>1. IsContext(y)
  BY ContextKept, Zenon DEF Inv, Contexts
<1>2. PICK force, label :
        \/ nothing_to_request(c, y)
        \/ label # "idle" /\ proceed(c, [y EXCEPT !.state = "synchronizing", !.force = force], label)
        \/ succeed(c, call_back(pause)) \/ succeed(c, pause)
        \/ fail(c, y)
  <2>1. PICK late :
          LET next_block == IF y.needed = <<>> THEN next_needed ELSE y.lrh - Len(y.needed) + 1
              near  == next_block < height + Near \/ next_needed < height + Near
              force == near /\ should_download_next_span(y, late)
          IN  \/ nothing_to_request(c, y)
              \/ proceed(c, [y EXCEPT !.state = "synchronizing", !.force = force],
                         IF y.needed # <<>> \/ force THEN "objects" ELSE "chain")
              \/ succeed(c, call_back(pause)) \/ succeed(c, pause)
              \/ fail(c, y)
    BY ZenonT(60) DEF check_queue
  <2> HIDE DEF y, pause
  <2> QED BY <2>1, Zenon
<1>3. IsContext([y EXCEPT !.state = "synchronizing", !.force = force])
  BY <1>1, Zenon DEF IsContext, Fields
<1>4. IsContext(pause) /\ Awaits(pause)
  BY <1>1, Zenon DEF IsContext, Fields, Awaits
<1> HIDE DEF y, pause
<1>5. IsContext(call_back(pause)) /\ Awaits(call_back(pause))
  BY <1>4 DEF IsContext, Fields, Awaits, call_back
<1>6. stranded' = stranded
  BY Zenon DEF check_queue
<1>7. ASSUME proceed(c, [y EXCEPT !.state = "synchronizing", !.force = force], label),
             label # "idle"
      PROVE  Inv'
  BY <1>3, <1>6, <1>7, HandlerGoesOn, Zenon DEF proceed, Set, Goto
<1> QED BY <1>1, <1>2, <1>4, <1>5, <1>6, <1>7, NothingToRequest, Succeeds, Fails

\* A span is reserved and asked for, or the handler goes on.
LEMMA RequestObjects ==
  ASSUME Inv, NEW c \in Conn, request_objects(c)
  PROVE  Inv'
<1> DEFINE y == skip_unneeded_hashes(ctx[c], FALSE)
           z == [ctx[c] EXCEPT !.span = scheduled_span, !.requested =
                                 @ \cup BQ!Range(scheduled_span.hashes)]
<1>1. IsContext(y)
  BY ContextKept, Zenon DEF Inv, Contexts
<1>2. IsContext(z)
  BY Zenon DEF Inv, Contexts, IsContext, Fields
<1>3. stranded' = stranded
  BY Zenon DEF request_objects
<1>4. \/ proceed(c, z, "reset")
      \/ nothing_to_request(c, y)
      \/ reserve_and_request(c, y, span_for(y))
      \/ proceed(c, y, "resort")
  BY Zenon DEF request_objects
<1> HIDE DEF y, z
<1>5. ASSUME NEW x, IsContext(x), NEW label, label # "idle", proceed(c, x, label) PROVE Inv'
  BY <1>3, <1>5, HandlerGoesOn, Zenon DEF proceed, Set, Goto
<1>6. ASSUME NEW s, reserve_and_request(c, y, s) PROVE Inv'
  <2>1. PICK rest : request_span(c, [y EXCEPT !.needed = rest], s.start, s.hashes)
    BY <1>6, Zenon DEF reserve_and_request
  <2>2. IsContext([y EXCEPT !.needed = rest])
    BY <1>1, Zenon DEF IsContext, Fields
  <2> QED BY <1>3, <2>1, <2>2, RequestSpan, Zenon
<1> QED BY <1>1, <1>2, <1>3, <1>4, <1>5, <1>6, NothingToRequest, ZenonT(60)

\* The forced span is asked for, or reset_next_span_time throws.
LEMMA ResetNextSpanTime ==
  ASSUME Inv, NEW c \in Conn, reset_next_span_time(c)
  PROVE  Inv'
<1> DEFINE y == [ctx[c] EXCEPT !.force = FALSE, !.span = NoSpan]
<1>1. IsContext(ctx[c]) /\ IsContext(y)
  BY Zenon DEF Inv, Contexts, IsContext, Fields
<1>2. \/ /\ request_span(c, ctx[c], ctx[c].span.start, ctx[c].span.hashes)
         /\ stranded' = stranded
      \/ Set(c, y) /\ Goto(c, "idle") /\ stranded' = stranded \cup {c}
      \/ Set(c, closed(ctx[c])) /\ Goto(c, "idle") /\ stranded' = stranded
  BY ZenonT(60) DEF reset_next_span_time
<1> HIDE DEF y
<1>3. ASSUME Set(c, closed(ctx[c])), Goto(c, "idle"), stranded' = stranded PROVE Inv'
  BY <1>3, ClosedContext, OneConnection, Zenon DEF Set, Goto
<1> QED BY <1>1, <1>2, <1>3, RequestSpan, LeftInTheMiddle, Zenon

\* The next span is asked for, or the synchronization is over.
LEMMA LastResort ==
  ASSUME Inv, NEW c \in Conn, last_resort(c)
  PROVE  Inv'
<1>1. IsContext(ctx[c]) /\ IsContext(others(ctx[c]))
      /\ IsContext(done(ctx[c])) /\ Awaits(done(ctx[c]))
  BY ContextKept, Zenon DEF Inv, Contexts
<1>2. stranded' = stranded
  BY Zenon DEF last_resort
<1>3. \/ request_span(c, others(ctx[c]), scheduled_span.start, scheduled_span.hashes)
      \/ succeed(c, done(ctx[c])) \/ fail(c, ctx[c])
  BY Zenon DEF last_resort
<1> QED BY <1>1, <1>2, <1>3, RequestSpan, Succeeds, Fails, ZenonT(60)

\* Hashes are asked for, the connection is called back, or it is done.
LEMMA RequestChain ==
  ASSUME Inv, NEW c \in Conn, request_chain(c)
  PROVE  Inv'
<1> DEFINE x == [ctx[c] EXCEPT !.needed = <<>>]
           pause == [x EXCEPT !.state = "standby"]
           ask(h) == [x EXCEPT !.expect = "chain", !.waiting = TRUE, !.expect_height = h]
<1>1. IsContext(x)
  BY Zenon DEF Inv, Contexts, IsContext, Fields
<1>2. stranded' = stranded
  BY Zenon DEF request_chain
<1>3. PICK h : succeed(c, call_back(pause)) \/ succeed(c, ask(h)) \/ succeed(c, done(x)) \/ fail(c, x)
  BY Zenon DEF request_chain
<1> HIDE DEF x
<1>4. IsContext(pause) /\ Awaits(pause) /\ IsContext(ask(h)) /\ Awaits(ask(h))
  BY <1>1, Zenon DEF IsContext, Fields, Awaits
<1> HIDE DEF pause, ask
<1>5. IsContext(call_back(pause)) /\ Awaits(call_back(pause))
  BY <1>4 DEF IsContext, Fields, Awaits, call_back
<1>6. IsContext(done(x)) /\ Awaits(done(x))
  BY <1>1, ContextKept, Zenon
<1> QED BY <1>1, <1>2, <1>3, <1>4, <1>5, <1>6, Succeeds, Fails

-----------------------------------------------------------------------------
\* Every step of every connection keeps the invariant.
LEMMA NextInv == Inv /\ [Next]_vars => Inv'
<1> SUFFICES ASSUME Inv, [Next]_vars PROVE Inv'
  BY Zenon
<1>1. CASE UNCHANGED vars
  BY <1>1, Zenon DEF vars, core, faults, Inv, Contexts, Awaits
<1>2. ASSUME NEW c \in Conn, Handler(c) PROVE Inv'
  BY <1>2, AddingSteps, FailedSpan, LeftSpan, CheckQueue, RequestObjects, ResetNextSpanTime,
     LastResort, RequestChain, ZenonT(60) DEF Handler
<1> QED BY <1>1, <1>2, CallbackSteps, ReceiveSteps, Zenon DEF Next

\* Whatever connections there are, however long the chains and whatever the sizes
\* of the queue and of its spans: a handler that runs to its end leaves its
\* connection in a state from which an answer, a callback or a timer takes it on.
\* The connections for which nothing is to come are those whose handler
\* try_add_next_blocks left from its loop, because another peer's span failed or
\* a batch was not committed as a whole, or reset_next_span_time left in a callback
\* by throwing.
THEOREM HandlersLeaveAWakeUp == Spec => []NoWedge
<1>1. Inv /\ [Next]_vars => Inv'
  BY NextInv, Zenon
<1> QED BY <1>1, InitInv, InvSuffices, PTL DEF Spec
=============================================================================
