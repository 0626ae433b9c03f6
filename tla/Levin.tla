------------------------------- MODULE Levin -------------------------------
(***************************************************************************)
(* One connection of the levin protocol (levin_protocol_handler_async.h)   *)
(* on its TCP endpoint (abstract_tcp_server2.inl): asynchronous invokes    *)
(* with their timers, answers matched to them in the order of the          *)
(* requests, messages and requests in the other direction, the send queue, *)
(* and the ways in which a connection is closed, shut down and destroyed   *)
(* while threads of several kinds are inside it.                           *)
(*                                                                         *)
(* A call is an invoke_async.  It has two threads: the caller, and the one *)
(* of the io service that runs its timer's handler.  Reads and writes are  *)
(* handled on the strand of the connection, one at a time.  The peer       *)
(* answers requests in their order, or not at all.  Contents and lengths   *)
(* of messages and all times are left out: a timer may expire whenever it  *)
(* is armed.  reset_timer, which an incomplete answer calls, arms a timer  *)
(* again that is still armed, and so does nothing here.                    *)
(***************************************************************************)
EXTENDS Integers, Sequences, FiniteSets

CONSTANTS
    Call,         \* the calls of invoke_async
    NoCall,
    MaxQueue,     \* ABSTRACT_SERVER_SEND_QUE_MAX_COUNT
    Scenarios     \* who may act together: calls, and names of OtherActors

\* config.close, the timer of the connection, a caller of send, and a peer that
\* makes a request.
OtherActors == {"closer", "idler", "sender", "peer"}

ASSUME LevinAssumption ==
    /\ NoCall \notin Call
    /\ MaxQueue \in Nat
    /\ Scenarios \subseteq SUBSET (Call \cup OtherActors)

Caller(c) == <<"caller", c>>

Timer(c) == <<"timer", c>>

Strand == <<"strand", NoCall>>

\* The handler of the timer of the connection itself.
Idler == <<"idler", NoCall>>

\* config.close, called by the protocol.
Closer == <<"closer", NoCall>>

Sender == <<"sender", NoCall>>

Thread == {Caller(c) : c \in Call} \cup {Timer(c) : c \in Call}
              \cup {Strand, Idler, Closer, Sender}

VARIABLES
    endpoint,  \* the connection: its flags, references, queue and timer
    handlers,  \* m_invoke_response_handlers
    handler,   \* the anvoke_handler of each call
    pc,        \* where each thread is
    back,      \* where it goes on after a send, a close or a shutdown
    lock,      \* the owner of each lock, or {}
    list,      \* local_invoke_response_handlers of release_protocol
    peer,      \* what is on the way to the peer and from it
    got        \* history: what the callback of each call has been given

vars == <<endpoint, handlers, handler, pc, back, lock, list, peer, got>>

Free(l) == lock[l] = {}

FreeFor(l, t) == lock[l] \subseteq {t}

Goto(t, to) == pc' = [pc EXCEPT ![t] = to]

\* Leaving t's current place for a subroutine that returns to a place.
Enter(t, sub, return) ==
    pc' = [pc EXCEPT ![t] = sub] /\ back' = [back EXCEPT ![t] = return]

Return(t) ==
    pc' = [pc EXCEPT ![t] = back[t]] /\ back' = [back EXCEPT ![t] = "idle"]

CallBack(c, result) == got' = [got EXCEPT ![c] = Append(@, result)]

(***************************************************************************)
(* The endpoint.                                                           *)
(***************************************************************************)

\* Mutant of add_ref_and_arm: the handler takes no reference of its own.
unheld_add_ref_and_arm(c) ==
    IF endpoint.shut THEN UNCHANGED <<endpoint, handler>>
    ELSE /\ handler' = [handler EXCEPT ![c].timer = "armed"]
         /\ UNCHANGED endpoint

\* The constructor of anvoke_handler: start_outer_call, and the timer.
add_ref_and_arm(c) ==
    IF endpoint.shut THEN UNCHANGED <<endpoint, handler>>
    ELSE /\ handler' = [handler EXCEPT ![c].timer = "armed"]
         /\ endpoint' = [endpoint EXCEPT !.refs = @ + 1]

\* finish_outer_call.
Released(e) == [e EXCEPT !.refs = @ - 1]

\* reset_timer of the endpoint, when a condition asks for it.
Rearmed(e, cond) == [e EXCEPT !.idle = @ \/ (cond /\ ~ e.shut)]

\* connection::shutdown up to the end of its critical region.
shutdown(t, e, return) ==
    /\ endpoint' = [e EXCEPT !.shut = TRUE, !.idle = e.idle /\ e.shut]
    /\ IF e.shut THEN Enter(t, return, "idle") ELSE Enter(t, "swap", return)

(***************************************************************************)
(* release_protocol: the handlers are taken out under their lock ...       *)
(***************************************************************************)

Swap(t) ==
    /\ pc[t] = "swap" /\ FreeFor("handlers", t)
    /\ list' = handlers
    /\ handlers' = << >>
    /\ endpoint' = [endpoint EXCEPT !.released = TRUE]
    /\ Goto(t, "cancel")
    /\ UNCHANGED <<handler, back, lock, peer, got>>

\* cancel_timer: whether the timer was still waiting is found out once.
CancelTimer(h) ==
    IF h.tried THEN h
    ELSE [tried |-> TRUE, won |-> h.timer = "armed",
          timer |-> IF h.timer = "armed" THEN "off" ELSE h.timer]

\* Mutant of Cancel: the result of cancel_timer is not looked at.
eager_Cancel(t) ==
    /\ pc[t] = "cancel" /\ list /= << >>
    /\ LET c == Head(list) IN
         /\ handler' = [handler EXCEPT ![c] = CancelTimer(@)]
         /\ CallBack(c, <<"destroyed", c>>)
         /\ endpoint' = IF handler'[c].won THEN Released(endpoint) ELSE endpoint
    /\ list' = Tail(list)
    /\ UNCHANGED <<handlers, pc, back, lock, peer>>

\* ... and cancelled one by one.
Cancel(t) ==
    /\ pc[t] = "cancel" /\ list /= << >>
    /\ LET c == Head(list) IN
         /\ handler' = [handler EXCEPT ![c] = CancelTimer(@)]
         /\ IF handler'[c].won
              THEN CallBack(c, <<"destroyed", c>>) /\ endpoint' = Released(endpoint)
              ELSE UNCHANGED <<got, endpoint>>
    /\ list' = Tail(list)
    /\ UNCHANGED <<handlers, pc, back, lock, peer>>

\* shutdown returns, and the lock do_send_chunk may have called it with is
\* given back.
Cancelled(t) ==
    /\ pc[t] = "cancel" /\ list = << >>
    /\ Return(t)
    /\ lock' = [lock EXCEPT !["queue"] = @ \ {t}]
    /\ UNCHANGED <<endpoint, handlers, handler, list, peer, got>>

(***************************************************************************)
(* connection::close cancels the timer, looks at the queue and only then   *)
(* says that it wants the connection closed.  It does nothing on an object *)
(* that is being deleted.                                                  *)
(***************************************************************************)

CloseBegin(t) ==
    /\ pc[t] = "close"
    /\ endpoint' = [endpoint EXCEPT !.idle = FALSE,
                                    !.called = @ \/ t /= Idler]
    /\ IF endpoint.life /= "live" THEN Return(t)
         ELSE Goto(t, "closeLook") /\ UNCHANGED back
    /\ UNCHANGED <<handlers, handler, lock, list, peer, got>>

CloseLook(t) ==
    /\ pc[t] = "closeLook" /\ Free("queue")
    /\ Goto(t, IF endpoint.queue = << >> THEN "closeEmpty" ELSE "closeFull")
    /\ UNCHANGED <<handlers, handler, endpoint, lock, list, peer, back, got>>

CloseEnd(t) ==
    /\ pc[t] \in {"closeEmpty", "closeFull"}
    /\ LET e == [endpoint EXCEPT !.want = TRUE] IN
         IF pc[t] = "closeEmpty" THEN shutdown(t, e, back[t])
         ELSE endpoint' = e /\ Return(t)
    /\ UNCHANGED <<handlers, handler, lock, list, peer, got>>

(***************************************************************************)
(* do_send and do_send_chunk.  back says which message, and back.          *)
(***************************************************************************)

\* What a thread sends, where it goes when that fails, and when it does not.
Message(t) == IF t[1] = "caller" THEN t[2] ELSE NoCall

Unsent(t) == CASE t[1] = "caller" -> "error" [] t = Strand -> "refused" [] OTHER -> "finish"

Sent(t) == CASE t[1] = "caller" -> "add" [] t = Strand -> "readOn" [] OTHER -> "finish"

SendCheck(t) ==
    /\ pc[t] = "send"
    /\ Goto(t, IF endpoint.shut THEN Unsent(t) ELSE "push")
    /\ UNCHANGED <<endpoint, handlers, handler, back, lock, list, peer, got>>

SendPush(t) ==
    /\ pc[t] = "push" /\ Free("queue")
    /\ Len(endpoint.queue) <= MaxQueue
    /\ endpoint' = Rearmed([endpoint EXCEPT !.queue = Append(@, Message(t))],
                           endpoint.queue = << >>)
    /\ Goto(t, Sent(t))
    /\ UNCHANGED <<handlers, handler, back, lock, list, peer, got>>

\* After twenty waits for room the connection is shut down, with the lock of
\* the queue held.
SendFull(t) ==
    /\ pc[t] = "push" /\ Free("queue")
    /\ Len(endpoint.queue) > MaxQueue
    /\ IF endpoint.shut
          THEN Goto(t, Unsent(t)) /\ UNCHANGED <<endpoint, back, lock>>
          ELSE shutdown(t, endpoint, Unsent(t)) /\ lock' = [lock EXCEPT !["queue"] = {t}]
    /\ UNCHANGED <<handlers, handler, list, peer, got>>

(***************************************************************************)
(* The caller of invoke_async, and of send.                                *)
(***************************************************************************)

\* find_and_lock_connection.  Without the connection there is no call.
Find(t, next) ==
    /\ pc[t] = "start" /\ Free("connects")
    /\ IF endpoint.registered /\ endpoint.life = "live" /\ ~ endpoint.shut
          THEN endpoint' = [endpoint EXCEPT !.refs = @ + 1] /\ Goto(t, next)
          ELSE Goto(t, "notFound") /\ UNCHANGED endpoint
    /\ UNCHANGED <<handlers, handler, back, lock, list, peer, got>>

\* async_invoke takes m_call_lock, which only callers want, and then
\* m_invoke_response_handlers_lock.
TakeLocks(t) ==
    /\ pc[t] = "call" /\ Free("call") /\ Free("handlers")
    /\ lock' = [lock EXCEPT !["call"] = {t}, !["handlers"] = {t}]
    /\ Goto(t, "send")
    /\ UNCHANGED <<endpoint, handlers, handler, back, list, peer, got>>

Unlocked(t) == [l \in DOMAIN lock |-> lock[l] \ {t}]

\* add_invoke_response_handler: the handler is kept even when it could not
\* take a reference and has no timer.
Add(c) ==
    /\ pc[Caller(c)] = "add"
    /\ IF endpoint.released THEN UNCHANGED <<endpoint, handler, handlers>>
          ELSE add_ref_and_arm(c) /\ handlers' = Append(handlers, c)
    /\ Goto(Caller(c), IF handler'[c].timer = "armed" THEN "finish" ELSE "error")
    /\ lock' = IF pc'[Caller(c)] = "finish" THEN Unlocked(Caller(c)) ELSE lock
    /\ UNCHANGED <<back, list, peer, got>>

\* Mutant of Error: the caller is only told by the result.
silent_Error(c) ==
    /\ pc[Caller(c)] = "error"
    /\ lock' = Unlocked(Caller(c))
    /\ Goto(Caller(c), "finish")
    /\ UNCHANGED <<endpoint, handlers, handler, back, list, peer, got>>

\* Out of the critical regions after a failed send or a failed add, the
\* callback is told.
Error(c) ==
    /\ pc[Caller(c)] = "error"
    /\ lock' = Unlocked(Caller(c))
    /\ CallBack(c, <<"error", c>>)
    /\ Goto(Caller(c), "finish")
    /\ UNCHANGED <<endpoint, handlers, handler, back, list, peer>>

\* finish_outer_call at the end of a call, a send or a timeout.
Finish(t) ==
    /\ pc[t] = "finish"
    /\ endpoint' = Released(endpoint)
    /\ Goto(t, "done")
    /\ UNCHANGED <<handlers, handler, back, lock, list, peer, got>>

(***************************************************************************)
(* The timer of a call.                                                    *)
(***************************************************************************)

Expire(c) ==
    /\ handler[c].timer = "armed"
    /\ handler' = [handler EXCEPT ![c].timer = "expired"]
    /\ Goto(Timer(c), "timeout")
    /\ UNCHANGED <<endpoint, handlers, back, lock, list, peer, got>>

TimedOut(c) ==
    /\ pc[Timer(c)] = "timeout"
    /\ CallBack(c, <<"timeout", c>>)
    /\ Enter(Timer(c), "close", "finish")
    /\ UNCHANGED <<endpoint, handlers, handler, lock, list, peer>>

(***************************************************************************)
(* The timer of the connection, which may be armed again, and config.close *)
(* which erases the connection from m_connects when it has been closed.    *)
(***************************************************************************)

Idle ==
    /\ endpoint.idle /\ pc[Idler] = "idle"
    /\ endpoint' = [endpoint EXCEPT !.idle = FALSE]
    /\ Enter(Idler, "close", "idle")
    /\ UNCHANGED <<handlers, handler, lock, list, peer, got>>

CloseConnection ==
    /\ pc[Closer] = "start" /\ Free("connects")
    /\ IF endpoint.registered
          THEN /\ lock' = [lock EXCEPT !["connects"] = {Closer}]
               /\ Enter(Closer, "close", "erase")
          ELSE Goto(Closer, "done") /\ UNCHANGED <<back, lock>>
    /\ UNCHANGED <<endpoint, handlers, handler, list, peer, got>>

Erase ==
    /\ pc[Closer] = "erase"
    /\ endpoint' = [endpoint EXCEPT !.registered = FALSE]
    /\ lock' = Unlocked(Closer)
    /\ Goto(Closer, "done")
    /\ UNCHANGED <<handlers, handler, back, list, peer, got>>

(***************************************************************************)
(* The strand: reads.  While a read is pending the strand is free.         *)
(***************************************************************************)

CanRead == pc[Strand] = "idle" /\ endpoint.reading /\ ~ endpoint.shut

\* handle_read and handle_recv up to the answer of the first request that is
\* not answered, or to a request of the peer.
Receive(to) ==
    /\ CanRead
    /\ Goto(Strand, IF endpoint.called THEN "refused" ELSE to)
    /\ UNCHANGED <<endpoint, handlers, handler, back, lock, list, got>>

ReceiveAnswer ==
    /\ peer.asked /= << >>
    /\ peer' = [peer EXCEPT !.asked = Tail(@), !.answer = Head(peer.asked)]
    /\ Receive("match")

ReceiveRequest ==
    /\ peer.requests > 0
    /\ peer' = [peer EXCEPT !.requests = @ - 1]
    /\ Receive("send")

\* Mutant of Match: a handler whose timer has expired is passed over.
skipping_Match ==
    /\ pc[Strand] = "match" /\ Free("handlers")
    /\ LET waiting == SelectSeq(handlers, LAMBDA c : handler[c].timer = "armed") IN
         IF waiting = << >>
           THEN Goto(Strand, "readOn") /\ UNCHANGED <<handler, handlers, back>>
           ELSE /\ handler' = [handler EXCEPT ![Head(waiting)] = CancelTimer(@)]
                /\ handlers' = Tail(waiting)
                /\ Enter(Strand, "handle", Head(waiting))
    /\ UNCHANGED <<endpoint, lock, list, peer, got>>

\* The answer is for the first handler.  Unless its timer can be cancelled
\* it stays where it is and the answer is dropped.
Match ==
    /\ pc[Strand] = "match" /\ Free("handlers")
    /\ IF handlers = << >>
         THEN /\ Goto(Strand, IF endpoint.refs = 0 /\ ~ endpoint.called
                                THEN "refused" ELSE "readOn")
              /\ UNCHANGED <<handler, handlers, back>>
         ELSE LET c == Head(handlers) IN
              /\ handler' = [handler EXCEPT ![c] = CancelTimer(@)]
              /\ IF handler'[c].won
                   THEN handlers' = Tail(handlers) /\ Enter(Strand, "handle", c)
                   ELSE Goto(Strand, "readOn") /\ UNCHANGED <<handlers, back>>
    /\ UNCHANGED <<endpoint, lock, list, peer, got>>

\* Mutant of Handle: finish_outer_call is forgotten.
leaky_Handle ==
    /\ pc[Strand] = "handle"
    /\ CallBack(back[Strand], <<"answer", peer.answer>>)
    /\ Enter(Strand, "readOn", "idle")
    /\ UNCHANGED <<endpoint, handlers, handler, lock, list, peer>>

\* handle, of the handler that back names.
Handle ==
    /\ pc[Strand] = "handle"
    /\ CallBack(back[Strand], <<"answer", peer.answer>>)
    /\ endpoint' = Released(endpoint)
    /\ Enter(Strand, "readOn", "idle")
    /\ UNCHANGED <<handlers, handler, lock, list, peer>>

\* handle_recv has returned true: the timer is reset, the next read begins.
ReadOn ==
    /\ pc[Strand] = "readOn"
    /\ endpoint' = Rearmed(endpoint, TRUE)
    /\ Goto(Strand, "idle")
    /\ peer' = [peer EXCEPT !.answer = NoCall]
    /\ UNCHANGED <<handlers, handler, back, lock, list, got>>

\* The connection is shut down now, or when its queue has been sent.
ShutdownIf(cond, e) ==
    IF cond THEN shutdown(Strand, e, "idle")
    ELSE endpoint' = e /\ Goto(Strand, "idle") /\ UNCHANGED back

\* handle_recv has returned false.
Refuse ==
    /\ pc[Strand] = "refused" /\ Free("queue")
    /\ ShutdownIf(endpoint.queue = << >>,
                  [endpoint EXCEPT !.want = TRUE, !.reading = FALSE])
    /\ UNCHANGED <<handlers, handler, lock, list, peer, got>>

\* A read ends with an error: the end of the file (the first), or another.
ReadEnd ==
    /\ CanRead /\ Free("queue")
    /\ \/ ShutdownIf(endpoint.queue = << >>, [endpoint EXCEPT !.reading = FALSE])
       \/ ShutdownIf(TRUE, [endpoint EXCEPT !.reading = FALSE])
    /\ UNCHANGED <<handlers, handler, lock, list, peer, got>>

(***************************************************************************)
(* The strand: the first message of the queue has been written, or not.    *)
(***************************************************************************)

CanWrite ==
    /\ pc[Strand] = "idle" /\ Free("queue")
    /\ endpoint.queue /= << >> /\ ~ endpoint.shut

Write ==
    /\ CanWrite
    /\ LET rest == Tail(endpoint.queue) IN
         ShutdownIf(rest = << >> /\ endpoint.want,
                    Rearmed([endpoint EXCEPT !.queue = rest], rest /= << >>))
    /\ peer' = IF Head(endpoint.queue) = NoCall THEN peer
               ELSE [peer EXCEPT !.asked = Append(@, Head(endpoint.queue))]
    /\ UNCHANGED <<handlers, handler, lock, list, got>>

WriteError ==
    /\ CanWrite
    /\ ShutdownIf(TRUE, endpoint)
    /\ UNCHANGED <<handlers, handler, lock, list, peer, got>>

(***************************************************************************)
(* The last shared pointer goes: no read, no write, no timer, no           *)
(* reference and no thread inside a function of the connection has one.    *)
(***************************************************************************)

Outside == {"start", "idle", "done", "notFound", "erase"}

Die ==
    /\ endpoint.life = "live" /\ endpoint.refs = 0 /\ ~ endpoint.idle
    /\ endpoint.shut \/ (~ endpoint.reading /\ endpoint.queue = << >>)
    /\ pc[Strand] = "idle" /\ pc[Idler] \in Outside
    /\ pc[Closer] \in Outside \cup {"close"}
    /\ endpoint' = [endpoint EXCEPT !.life = "dying", !.shut = TRUE, !.released = TRUE]
    /\ handlers' = << >>
    /\ UNCHANGED <<handler, pc, back, lock, list, peer, got>>

\* The destructor of the handler: del_connection.
Delete ==
    /\ endpoint.life = "dying" /\ Free("connects")
    /\ endpoint' = [endpoint EXCEPT !.life = "gone", !.registered = FALSE]
    /\ UNCHANGED <<handlers, handler, pc, back, lock, list, peer, got>>

(***************************************************************************)
(* The specification.                                                      *)
(***************************************************************************)

Init ==
    /\ endpoint = [shut |-> FALSE, want |-> FALSE, called |-> FALSE,
                   released |-> FALSE, registered |-> TRUE, reading |-> TRUE,
                   idle |-> TRUE, refs |-> 0, queue |-> << >>, life |-> "live"]
    /\ handlers = << >>
    /\ handler = [c \in Call |-> [timer |-> "none", tried |-> FALSE, won |-> FALSE]]
    /\ \E actors \in Scenarios :
         /\ pc = [t \in Thread |->
                     CASE t[1] = "caller" /\ t[2] \in actors   -> "start"
                       [] t \in {Closer, Sender} /\ t[1] \in actors -> "start"
                       [] t = Idler /\ t[1] \notin actors       -> "done"
                       [] OTHER                                -> "idle"]
         /\ peer = [asked |-> << >>, answer |-> NoCall,
                    requests |-> IF "peer" \in actors THEN 1 ELSE 0]
    /\ back = [t \in Thread |-> "idle"]
    /\ lock = [l \in {"connects", "call", "handlers", "queue"} |-> {}]
    /\ list = << >>
    /\ got = [c \in Call |-> << >>]

\* What any thread does inside the connection.
Subroutine(t) ==
    \/ Swap(t) \/ Cancel(t) \/ Cancelled(t)
    \/ CloseBegin(t) \/ CloseLook(t) \/ CloseEnd(t)
    \/ SendCheck(t) \/ SendPush(t) \/ SendFull(t)
    \/ TakeLocks(t) \/ Finish(t)

OfCall(c) == Add(c) \/ Error(c) \/ TimedOut(c)

OfStrand == Match \/ Handle \/ ReadOn \/ Refuse

Next ==
    \/ \E t \in Thread : Subroutine(t)
    \/ \E c \in Call : OfCall(c) \/ Expire(c) \/ Find(Caller(c), "call")
    \/ Find(Sender, "send")
    \/ CloseConnection \/ Erase \/ Idle
    \/ OfStrand \/ ReceiveAnswer \/ ReceiveRequest \/ ReadEnd
    \/ Write \/ WriteError
    \/ Die \/ Delete

\* Threads inside a function go on, timers expire, writes end one way or the
\* other, and an object without owners is deleted.  Nobody has to call, to
\* close or to send, and the peer need not do anything.
Fairness ==
    /\ \A t \in Thread : WF_vars(Subroutine(t))
    /\ \A c \in Call : WF_vars(OfCall(c)) /\ WF_vars(Expire(c))
    /\ WF_vars(OfStrand) /\ WF_vars(Idle) /\ WF_vars(Erase)
    /\ WF_vars(Write \/ WriteError)
    /\ WF_vars(Die) /\ WF_vars(Delete)

Spec == Init /\ [][Next]_vars /\ Fairness

(***************************************************************************)
(* Properties.                                                             *)
(***************************************************************************)

\* The callback of a call is called at most once, although an answer, its
\* timer, the shutdown of the connection and async_invoke itself may call
\* it.  do_handshake_with_peer hands it references to its own locals.
CalledBackOnce == \A c \in Call : Len(got[c]) <= 1

\* No call is given the answer to another: a late answer to a call that has
\* timed out does not go to the next one.
NoCrossedAnswers ==
    \A c \in Call : \A i \in DOMAIN got[c] :
        got[c][i][1] = "answer" => got[c][i][2] = c

\* The object is not deleted while a caller, a handler or a timer that holds
\* a plain reference to it may still use it.
HeldWhileUsed ==
    endpoint.life /= "live" =>
        /\ \A c \in Call : /\ pc[Caller(c)] \in Outside
                           /\ pc[Timer(c)] \in Outside
                           /\ handler[c].timer /= "armed"
        /\ pc[Sender] \in Outside

\* Every invoke_async that finds the connection returns, and its callback is
\* called: no answer, error, timeout or shutdown leaves it waiting.  It holds as
\* long as nobody finds the send queue full during a call; the deadlock that
\* follows then (see CallbacksOutsideLocks) leaves the call waiting for ever.
EveryCallEnds ==
    \A c \in Call :
        pc[Caller(c)] = "call" ~> (pc[Caller(c)] = "done" /\ got[c] /= << >>)

\* A connection that is shut down is deleted in the end: every reference
\* that was taken is given back on every path.  The same deadlock is excepted:
\* the threads in it never give theirs back.
ShutIsDeleted == endpoint.shut ~> endpoint.life = "gone"

\* release_protocol and async_invoke never call a callback inside a critical
\* section of the connection.  This fails when the queue is full.
CallbacksOutsideLocks ==
    \A t \in Thread :
        pc[t] = "cancel" /\ list /= << >> =>
            \A l \in {"call", "handlers", "queue"} : t \notin lock[l]

\* A connection that has been closed is shut down.  This fails: close looks
\* at the queue before it sets m_want_close_connection, and the last write
\* may end between the two.
ClosedIsShut == endpoint.called ~> endpoint.shut

============================================================================
