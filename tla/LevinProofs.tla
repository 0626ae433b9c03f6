---------------------------- MODULE LevinProofs ----------------------------
(***************************************************************************)
(* The callback of a call is called at most once, and whoever uses the     *)
(* connection has a reference to it, for every set of calls, every limit   *)
(* of the queue and every combination of actors.                           *)
(*                                                                         *)
(* Four places call a callback: Handle, Cancel, TimedOut and Error.  CInv  *)
(* says which of them still may.  While the timer is armed nobody has; the *)
(* one that cancels it, or the expiry, takes the right to the callback     *)
(* with it, and a call that has no timer leaves it to async_invoke.  It    *)
(* has to say that a handler that was won is in neither list and that no   *)
(* handler is there twice, since cancel_timer repeats its first answer.    *)
(*                                                                         *)
(* HInv counts the references: refs is the size of the set of those that   *)
(* have one, a caller or sender on its way or the handler of a call, so    *)
(* that the count comes to zero only when there is none of them left.      *)
(***************************************************************************)
EXTENDS Levin, TLAPS

InSeq(c, s) == \E i \in 1 .. Len(s) : s[i] = c

Distinct(s) == \A i, j \in 1 .. Len(s) : s[i] = s[j] => i = j

Fresh == [timer |-> "none", tried |-> FALSE, won |-> FALSE]

Handler == [timer : {"none", "armed", "expired", "off"}, tried : BOOLEAN, won : BOOLEAN]

\* Inside close or shutdown, which return to back.
Inside == {"close", "closeLook", "closeEmpty", "closeFull", "swap", "cancel"}

\* A caller whose handler is not made yet.
Before == {"idle", "start", "notFound", "call", "send", "push", "add", "swap", "cancel"}

Types ==
    /\ pc = [t \in Thread |-> pc[t]]
    /\ back = [t \in Thread |-> back[t]]
    /\ handler \in [Call -> Handler]
    /\ got = [c \in Call |-> got[c]]
    /\ handlers \in Seq(Call) /\ list \in Seq(Call)

Lists ==
    /\ Distinct(handlers) /\ Distinct(list)
    /\ \A c \in Call : ~ (InSeq(c, handlers) /\ InSeq(c, list))

\* Where a thread may be, and to where it returns.
CallerAt(p, b) == p \in Before \cup {"error", "finish", "done"}
                    /\ (p \in Inside => b = "error")

TimerAt(p, b) == p \in Inside => b = "finish"

StrandAt(p, b) == p \in Inside => b \in {"idle", "refused"}

Places ==
    /\ \A c \in Call : /\ CallerAt(pc[Caller(c)], back[Caller(c)])
                       /\ TimerAt(pc[Timer(c)], back[Timer(c)])
    /\ StrandAt(pc[Strand], back[Strand])

\* Who may still call the callback of c.
Rights(c) ==
    /\ pc[Caller(c)] \in Before => /\ handler[c] = Fresh /\ got[c] = << >>
                                   /\ ~ InSeq(c, handlers) /\ ~ InSeq(c, list)
    /\ pc[Caller(c)] = "error" => handler[c].timer = "none" /\ got[c] = << >>
    /\ handler[c].timer = "armed" => ~ handler[c].tried /\ got[c] = << >>
    /\ pc[Timer(c)] = "timeout" => handler[c].timer = "expired" /\ got[c] = << >>
    /\ InSeq(c, handlers) \/ InSeq(c, list) => ~ handler[c].won
    /\ pc[Strand] = "handle" /\ back[Strand] = c =>
           handler[c].timer = "off" /\ handler[c].won /\ got[c] = << >>
    /\ Len(got[c]) <= 1

CInv ==
    /\ Types /\ Lists /\ Places
    /\ pc[Strand] = "handle" => back[Strand] \in Call
    /\ \A c \in Call : Rights(c)

(***************************************************************************)
(* Sequences without duplicates.                                           *)
(***************************************************************************)

\* Taking the first handler out of a list, as Cancel and Match do, leaves no
\* trace of it.
LEMMA TailForgets ==
  ASSUME NEW s \in Seq(Call), s /= << >>, Distinct(s)
  PROVE  /\ Tail(s) \in Seq(Call) /\ Head(s) \in Call
         /\ Distinct(Tail(s))
         /\ InSeq(Head(s), s) /\ ~ InSeq(Head(s), Tail(s))
         /\ \A c : InSeq(c, Tail(s)) => InSeq(c, s)
  <1>1. /\ Tail(s) \in Seq(Call) /\ Head(s) = s[1] /\ Len(s) \in Nat \ {0}
        /\ Len(Tail(s)) = Len(s) - 1
        /\ \A i \in 1 .. Len(Tail(s)) : Tail(s)[i] = s[i + 1]
    OBVIOUS
  <1>2. \A i \in 1 .. Len(Tail(s)) : i + 1 \in 1 .. Len(s) /\ i + 1 /= 1
    BY <1>1
  <1>3. Distinct(Tail(s))
    BY <1>1, <1>2 DEF Distinct
  <1>4. InSeq(Head(s), s)
    BY <1>1 DEF InSeq
  <1>5. ~ InSeq(Head(s), Tail(s))
    BY <1>1, <1>2 DEF InSeq, Distinct
  <1>6. \A c : InSeq(c, Tail(s)) => InSeq(c, s)
    BY <1>1, <1>2, Zenon DEF InSeq
  <1>7. Head(s) \in Call
    BY <1>1
  <1> QED BY <1>1, <1>3, <1>4, <1>5, <1>6, <1>7, Zenon

\* Appending a handler, as Add does, adds only that one.
LEMMA AppendAdds ==
  ASSUME NEW s \in Seq(Call), Distinct(s), NEW c \in Call, ~ InSeq(c, s)
  PROVE  /\ Append(s, c) \in Seq(Call)
         /\ Distinct(Append(s, c))
         /\ \A d : InSeq(d, Append(s, c)) => InSeq(d, s) \/ d = c
  <1> DEFINE a == Append(s, c)
  <1>1. /\ a \in Seq(Call) /\ Len(s) \in Nat /\ Len(a) = Len(s) + 1
        /\ \A i \in 1 .. Len(s) : a[i] = s[i]
        /\ a[Len(s) + 1] = c
    OBVIOUS
  <1> HIDE DEF a
  <1>2. \A i \in 1 .. Len(a) : i \in 1 .. Len(s) \/ i = Len(s) + 1
    BY <1>1
  <1>3. Distinct(a)
    BY <1>1, <1>2, Zenon DEF Distinct, InSeq
  <1>4. \A d : InSeq(d, a) => InSeq(d, s) \/ d = c
    BY <1>1, <1>2, Zenon DEF InSeq
  <1> QED BY <1>1, <1>3, <1>4, Zenon DEF a

\* The empty list.
LEMMA EmptyList ==
  /\ << >> \in Seq(Call) /\ Distinct(<< >>)
  /\ \A c : ~ InSeq(c, << >>)
  BY DEF Distinct, InSeq

\* Threads of different kinds, or of different calls, are different threads.
LEMMA ThreadsDiffer ==
  /\ \A c \in Call : /\ Caller(c) \in Thread /\ Timer(c) \in Thread
                     /\ Caller(c) /= Strand /\ Timer(c) /= Strand
                     /\ Caller(c)[1] = "caller" /\ Caller(c)[2] = c
                     /\ Timer(c)[1] = "timer"
                     /\ Caller(c) /= Closer /\ Caller(c) /= Idler /\ Caller(c) /= Sender
                     /\ Timer(c) /= Closer /\ Timer(c) /= Idler /\ Timer(c) /= Sender
  /\ \A c, d \in Call : /\ Caller(c) /= Timer(d)
                        /\ Caller(c) = Caller(d) => c = d
                        /\ Timer(c) = Timer(d) => c = d
  /\ Strand \in Thread /\ Strand[1] = "strand"
  /\ Closer \in Thread /\ Idler \in Thread /\ Sender \in Thread
  /\ Strand /= Closer /\ Strand /= Idler /\ Strand /= Sender
  /\ \A t \in Thread : t[1] = "caller" => \E c \in Call : t = Caller(c)
  BY DEF Caller, Timer, Strand, Closer, Idler, Sender, Thread

(***************************************************************************)
(* Steps that only move a thread.                                          *)
(***************************************************************************)

\* Where a step may take the thread t without touching anybody's rights.
Allowed(t, p, b) ==
    /\ \A c \in Call :
         /\ t = Caller(c) =>
               /\ CallerAt(p, b)
               /\ p \in Before => pc[t] \in Before
               /\ p = "error" => pc[t] \in Before \cup {"error"}
         /\ t = Timer(c) => TimerAt(p, b) /\ p /= "timeout"
    /\ t = Strand => StrandAt(p, b) /\ p /= "handle"

\* Such a step keeps the invariant.
LEMMA Move ==
  ASSUME CInv, NEW t \in Thread, NEW p, NEW b, Allowed(t, p, b),
         pc' = [pc EXCEPT ![t] = p], back' = [back EXCEPT ![t] = b],
         UNCHANGED <<handlers, handler, got, list>>
  PROVE  CInv'
  <1> USE ThreadsDiffer
  <1>1. /\ pc'[t] = p /\ back'[t] = b
        /\ \A u \in Thread : u /= t => pc'[u] = pc[u] /\ back'[u] = back[u]
    BY Zenon DEF CInv, Types
  <1>2. Types'
    BY Zenon DEF CInv, Types, Allowed
  <1>3. Lists'
    BY DEF CInv, Lists, InSeq, Distinct
  <1>4. Places'
    BY <1>1 DEF CInv, Places, Allowed
  <1>5. (pc[Strand] = "handle" => back[Strand] \in Call)'
    BY <1>1, Zenon DEF CInv, Allowed
  <1>6. ASSUME NEW c \in Call PROVE Rights(c)'
    <2>1. Rights(c) /\ (InSeq(c, handlers)' <=> InSeq(c, handlers))
                    /\ (InSeq(c, list)' <=> InSeq(c, list))
      BY Zenon DEF CInv, InSeq
    <2>2. /\ pc'[Caller(c)] \in Before => pc[Caller(c)] \in Before
          /\ pc'[Caller(c)] = "error" => pc[Caller(c)] \in Before \cup {"error"}
      BY <1>1 DEF Allowed
    <2>3. pc'[Timer(c)] = "timeout" => pc[Timer(c)] = "timeout"
      BY <1>1 DEF Allowed
    <2>4. pc'[Strand] = "handle" => pc[Strand] = "handle" /\ back'[Strand] = back[Strand]
      BY <1>1 DEF Allowed
    <2>5. Fresh.timer = "none"
      BY Zenon DEF Fresh
    <2> QED BY <2>1, <2>2, <2>3, <2>4, <2>5, Zenon DEF Rights
  <1> QED BY <1>2, <1>3, <1>4, <1>5, <1>6, Zenon DEF CInv

\* The same when back does not change, as in most steps ...
LEMMA Stay ==
  ASSUME CInv, NEW t \in Thread, NEW p, Allowed(t, p, back[t]),
         pc' = [pc EXCEPT ![t] = p],
         UNCHANGED <<back, handlers, handler, got, list>>
  PROVE  CInv'
  <1>1. back' = [back EXCEPT ![t] = back[t]]
    BY Zenon DEF CInv, Types
  <1> QED BY <1>1, Move, Zenon

\* ... or when no thread moves.
LEMMA Still ==
  ASSUME CInv, UNCHANGED <<pc, back, handlers, handler, got, list>>
  PROVE  CInv'
  <1>1. Types' /\ Lists' /\ Places' /\ (pc[Strand] = "handle" => back[Strand] \in Call)'
    BY ZenonT(60) DEF CInv, Types, Lists, Places, InSeq, Distinct
  <1>2. ASSUME NEW c \in Call PROVE Rights(c)'
    BY Zenon DEF CInv, Rights, InSeq
  <1> QED BY <1>1, <1>2, Zenon DEF CInv

\* shutdown itself only moves its thread: it returns, or goes on to Swap.
LEMMA ShutdownMoves ==
  ASSUME CInv, NEW t \in Thread, NEW e, NEW return, shutdown(t, e, return),
         Allowed(t, return, "idle"), Allowed(t, "swap", return),
         UNCHANGED <<handlers, handler, got, list>>
  PROVE  CInv'
  <1>1. CASE Enter(t, return, "idle")
    BY <1>1, Move, Zenon DEF Enter
  <1>2. CASE Enter(t, "swap", return)
    BY <1>2, Move, Zenon DEF Enter
  <1> QED BY <1>1, <1>2, Zenon DEF shutdown

\* What the invariant says of the place of the thread that takes a step.
LEMMA AtPlace ==
  ASSUME CInv, NEW t \in Thread
  PROVE  /\ \A c \in Call : t = Caller(c) => CallerAt(pc[t], back[t])
         /\ \A c \in Call : t = Timer(c) => TimerAt(pc[t], back[t])
         /\ t = Strand => StrandAt(pc[t], back[t])
  BY Zenon DEF CInv, Types, Places

\* The steps of close, of the end of shutdown, and of the sends.
LEMMA SubroutineMoves ==
  ASSUME CInv, NEW t \in Thread,
         \/ Cancelled(t) \/ CloseBegin(t) \/ CloseLook(t) \/ CloseEnd(t) \/ SendCheck(t)
         \/ SendPush(t) \/ SendFull(t) \/ TakeLocks(t) \/ Finish(t)
  PROVE  CInv'
  <1> USE ThreadsDiffer, AtPlace
  <1>r. ASSUME pc[t] \in Inside, Return(t), UNCHANGED <<handlers, handler, got, list>>
        PROVE  CInv'
    <2>1. Allowed(t, back[t], "idle")
      <3>1. \A c \in Call : t = Caller(c) => back[t] = "error" /\ pc[t] \in Before
        BY <1>r DEF CallerAt, Inside, Before
      <3>2. \A c \in Call : t = Timer(c) => back[t] = "finish"
        BY <1>r, Zenon DEF TimerAt
      <3>3. t = Strand => back[t] \in {"idle", "refused"}
        BY <1>r, Zenon DEF StrandAt
      <3> QED BY <3>1, <3>2, <3>3, Zenon DEF Allowed, CallerAt, TimerAt, StrandAt, Inside, Before
    <2> QED BY <1>r, <2>1, Move, Zenon DEF Return
  <1>1. CASE Cancelled(t)
    BY <1>1, <1>r, Zenon DEF Cancelled, Inside
  <1>2. CASE CloseBegin(t)
    <2>1. CASE Return(t)
      BY <1>2, <1>r, <2>1, Zenon DEF CloseBegin, Inside
    <2>2. CASE Goto(t, "closeLook") /\ UNCHANGED back
      <3>1. Allowed(t, "closeLook", back[t])
        BY <1>2 DEF CloseBegin, Allowed, CallerAt, TimerAt, StrandAt, Inside, Before
      <3> QED BY <1>2, <2>2, <3>1, Stay, Zenon DEF CloseBegin, Goto
    <2> QED BY <1>2, <2>1, <2>2, Zenon DEF CloseBegin
  <1>l. CASE CloseLook(t)
    <2>0. UNCHANGED <<handlers, handler, list, back, got>>
      BY <1>l, Zenon DEF CloseLook
    <2>1. CASE Goto(t, "closeEmpty")
      <3>1. Allowed(t, "closeEmpty", back[t])
        BY <1>l DEF CloseLook, Allowed, CallerAt, TimerAt, StrandAt, Inside, Before
      <3> QED BY <2>0, <2>1, <3>1, Stay, Zenon DEF Goto
    <2>2. CASE Goto(t, "closeFull")
      <3>1. Allowed(t, "closeFull", back[t])
        BY <1>l DEF CloseLook, Allowed, CallerAt, TimerAt, StrandAt, Inside, Before
      <3> QED BY <2>0, <2>2, <3>1, Stay, Zenon DEF Goto
    <2> QED BY <1>l, <2>1, <2>2, Zenon DEF CloseLook
  <1>3. CASE CloseEnd(t)
    <2>1. CASE Return(t)
      BY <1>3, <1>r, <2>1, Zenon DEF CloseEnd, Inside
    <2>2. ASSUME NEW e, shutdown(t, e, back[t]) PROVE CInv'
      <3>1. Allowed(t, back[t], "idle") /\ Allowed(t, "swap", back[t])
        BY <1>3 DEF CloseEnd, Allowed, CallerAt, TimerAt, StrandAt, Inside, Before
      <3> QED BY <1>3, <2>2, <3>1, ShutdownMoves, Zenon DEF CloseEnd
    <2> QED BY <1>3, <2>1, <2>2, Zenon DEF CloseEnd
  <1>4. CASE SendCheck(t)
    <2>1. Allowed(t, Unsent(t), back[t]) /\ Allowed(t, "push", back[t])
      BY <1>4 DEF SendCheck, Unsent, Allowed, CallerAt, TimerAt, StrandAt, Inside, Before
    <2> QED BY <1>4, <2>1, Stay, Zenon DEF SendCheck, Goto
  <1>5. CASE SendPush(t)
    <2>1. Allowed(t, Sent(t), back[t])
      BY <1>5 DEF SendPush, Sent, Allowed, CallerAt, TimerAt, StrandAt, Inside, Before
    <2> QED BY <1>5, <2>1, Stay, Zenon DEF SendPush, Goto
  <1>6. CASE SendFull(t)
    <2>1. /\ Allowed(t, Unsent(t), back[t]) /\ Allowed(t, Unsent(t), "idle")
          /\ Allowed(t, "swap", Unsent(t))
      BY <1>6 DEF SendFull, Unsent, Allowed, CallerAt, TimerAt, StrandAt, Inside, Before
    <2> QED BY <1>6, <2>1, Stay, ShutdownMoves DEF SendFull, Goto
  <1>7. CASE TakeLocks(t)
    <2>1. Allowed(t, "send", back[t])
      BY <1>7, Zenon DEF TakeLocks, Allowed, CallerAt, TimerAt, StrandAt, Inside, Before
    <2> QED BY <1>7, <2>1, Stay, Zenon DEF TakeLocks, Goto
  <1>8. CASE Finish(t)
    <2>1. Allowed(t, "done", back[t])
      BY <1>8, Zenon DEF Finish, Allowed, CallerAt, TimerAt, StrandAt, Inside, Before
    <2> QED BY <1>8, <2>1, Stay, Zenon DEF Finish, Goto
  <1> QED BY <1>1, <1>l, <1>2, <1>3, <1>4, <1>5, <1>6, <1>7, <1>8, Zenon

\* The steps with which calls and sends begin, of config.close, of the timer of
\* the connection and of the deletion.
LEMMA OtherMoves ==
  ASSUME CInv,
         \/ (\E c \in Call : Find(Caller(c), "call")) \/ Find(Sender, "send")
         \/ Idle \/ CloseConnection \/ Erase \/ Delete
  PROVE  CInv'
  <1> USE ThreadsDiffer, AtPlace
  <1>1. ASSUME NEW c \in Call, Find(Caller(c), "call") PROVE CInv'
    <2>1. Allowed(Caller(c), "call", back[Caller(c)]) /\ Allowed(Caller(c), "notFound", back[Caller(c)])
      BY <1>1, Zenon DEF Find, Allowed, CallerAt, TimerAt, StrandAt, Inside, Before
    <2> QED BY <1>1, <2>1, Stay DEF Find, Goto
  <1>2. CASE Find(Sender, "send")
    <2>1. Allowed(Sender, "send", back[Sender]) /\ Allowed(Sender, "notFound", back[Sender])
      BY Zenon DEF Allowed, CallerAt, TimerAt, StrandAt, Inside, Before
    <2>2. CASE Goto(Sender, "send")
      BY <1>2, <2>1, <2>2, Stay, Zenon DEF Find, Goto
    <2>3. CASE Goto(Sender, "notFound")
      BY <1>2, <2>1, <2>3, Stay, Zenon DEF Find, Goto
    <2> QED BY <1>2, <2>2, <2>3, Zenon DEF Find
  <1>3. CASE Idle
    <2>1. Allowed(Idler, "close", "idle")
      BY Zenon DEF Allowed, CallerAt, TimerAt, StrandAt, Inside, Before
    <2> QED BY <1>3, <2>1, Move, Zenon DEF Idle, Enter
  <1>4. CASE CloseConnection
    <2>1. Allowed(Closer, "close", "erase") /\ Allowed(Closer, "done", back[Closer])
      BY Zenon DEF Allowed, CallerAt, TimerAt, StrandAt, Inside, Before
    <2> QED BY <1>4, <2>1, Move, Stay DEF CloseConnection, Enter, Goto
  <1>5. CASE Erase
    <2>1. Allowed(Closer, "done", back[Closer])
      BY Zenon DEF Allowed, CallerAt, TimerAt, StrandAt, Inside, Before
    <2> QED BY <1>5, <2>1, Stay, Zenon DEF Erase, Goto
  <1>6. CASE Delete
    BY <1>6, Still, Zenon DEF Delete
  <1> QED BY <1>1, <1>2, <1>3, <1>4, <1>5, <1>6, Zenon

\* The steps of the strand that answer no call.
LEMMA StrandMoves ==
  ASSUME CInv,
         \/ ReceiveAnswer \/ ReceiveRequest \/ ReadOn \/ Refuse \/ ReadEnd
         \/ Write \/ WriteError
  PROVE  CInv'
  <1> USE ThreadsDiffer, AtPlace
  <1>p. \A p \in {"refused", "match", "send", "idle"} :
           pc[Strand] \notin Inside => Allowed(Strand, p, back[Strand])
    BY Zenon DEF Allowed, CallerAt, TimerAt, StrandAt, Inside, Before
  <1>s. ASSUME NEW cond, NEW e, ShutdownIf(cond, e), pc[Strand] \notin Inside,
               UNCHANGED <<handlers, handler, got, list>>
        PROVE  CInv'
    <2>1. Allowed(Strand, "idle", "idle") /\ Allowed(Strand, "swap", "idle")
      BY Zenon DEF Allowed, CallerAt, TimerAt, StrandAt, Inside, Before
    <2>2. CASE shutdown(Strand, e, "idle")
      BY <1>s, <2>1, <2>2, ShutdownMoves, Zenon
    <2>3. CASE Goto(Strand, "idle") /\ UNCHANGED back
      BY <1>p, <1>s, <2>3, Stay, Zenon DEF Goto
    <2> QED BY <1>s, <2>2, <2>3, Zenon DEF ShutdownIf
  <1>r. ASSUME NEW to \in {"match", "send"}, Receive(to) PROVE CInv'
    <2>1. pc[Strand] \notin Inside
      BY <1>r, Zenon DEF Receive, CanRead, Inside
    <2>2. CASE Goto(Strand, "refused")
      BY <1>p, <1>r, <2>1, <2>2, Stay, ZenonT(60) DEF Receive, Goto
    <2>3. CASE Goto(Strand, to)
      <3>1. Allowed(Strand, to, back[Strand])
        BY <1>p, <1>r, <2>1, Zenon
      <3> QED BY <1>r, <2>3, <3>1, Stay, ZenonT(60) DEF Receive, Goto
    <2> QED BY <1>r, <2>2, <2>3, Zenon DEF Receive
  <1>1. CASE ReceiveAnswer
    BY <1>1, <1>r, Zenon DEF ReceiveAnswer
  <1>2. CASE ReceiveRequest
    BY <1>2, <1>r, Zenon DEF ReceiveRequest
  <1>3. CASE ReadOn
    BY <1>3, <1>p, Stay, Zenon DEF ReadOn, Goto, Inside
  <1>4. CASE Refuse
    BY <1>4, <1>s, Zenon DEF Refuse, Inside
  <1>5. CASE ReadEnd
    BY <1>5, <1>s, Zenon DEF ReadEnd, CanRead, Inside
  <1>6. CASE Write
    BY <1>6, <1>s, Zenon DEF Write, CanWrite, Inside
  <1>7. CASE WriteError
    BY <1>7, <1>s, Zenon DEF WriteError, CanWrite, Inside
  <1> QED BY <1>1, <1>2, <1>3, <1>4, <1>5, <1>6, <1>7, Zenon

(***************************************************************************)
(* Steps that pass a right on, or use it.                                  *)
(***************************************************************************)

\* Emptying the lists of handlers takes nothing from anybody.
LEMMA SwapKeeps ==
  ASSUME CInv, NEW t \in Thread, Swap(t)
  PROVE  CInv'
  <1> USE ThreadsDiffer, EmptyList
  <1>1. /\ pc[t] = "swap" /\ pc'[t] = "cancel"
        /\ \A u \in Thread : u /= t => pc'[u] = pc[u]
        /\ UNCHANGED <<handler, back, got>> /\ list' = handlers /\ handlers' = << >>
    BY Zenon DEF Swap, Goto, CInv, Types
  <1>2. Types'
    <2>1. pc' = [u \in Thread |-> pc'[u]]
      BY Zenon DEF CInv, Types, Swap, Goto
    <2> QED BY <1>1, <2>1, Zenon DEF CInv, Types
  <1>3. Lists'
    BY <1>1, Zenon DEF CInv, Lists
  <1>4. Places'
    BY <1>1 DEF CInv, Places, CallerAt, TimerAt, StrandAt, Inside, Before
  <1>5. (pc[Strand] = "handle" => back[Strand] \in Call)'
    BY <1>1, Zenon DEF CInv
  <1>6. ASSUME NEW c \in Call PROVE Rights(c)'
    <2>1. /\ Rights(c) /\ ~ InSeq(c, handlers')
          /\ InSeq(c, list)' <=> InSeq(c, handlers)
      BY <1>1, Zenon DEF CInv
    <2>2. pc'[Caller(c)] \in Before => pc[Caller(c)] \in Before
      BY <1>1, Zenon DEF Before
    <2> QED BY <1>1, <2>1, <2>2, Zenon DEF Rights
  <1> QED BY <1>2, <1>3, <1>4, <1>5, <1>6, Zenon DEF CInv

\* Cancelling the timer of a handler that nobody has won: afterwards it is won
\* exactly if it was armed, and then it is off.
LEMMA CancelOnce ==
  ASSUME CInv, NEW c \in Call, ~ handler[c].won
  PROVE  /\ CancelTimer(handler[c]) \in Handler
         /\ CancelTimer(handler[c]).won =>
               handler[c].timer = "armed" /\ CancelTimer(handler[c]).timer = "off"
         /\ ~ CancelTimer(handler[c]).won =>
               handler[c].timer /= "armed" /\ CancelTimer(handler[c]).timer = handler[c].timer
  <1>1. handler[c] \in Handler /\ Rights(c)
    BY Zenon DEF CInv, Types
  <1> QED BY <1>1, Zenon DEF CancelTimer, Handler, Rights

\* A callback that nobody has called before is called once.
LEMMA FirstCallback ==
  ASSUME NEW x
  PROVE  Len(Append(<< >>, x)) = 1
  <1>1. << >> \in Seq({x}) /\ Len(<< >>) = 0
    OBVIOUS
  <1> QED BY <1>1

\* Cancel uses the right of a handler whose timer it could cancel.
LEMMA CancelKeeps ==
  ASSUME CInv, NEW t \in Thread, Cancel(t)
  PROVE  CInv'
  <1> USE ThreadsDiffer
  <1>1. /\ list \in Seq(Call) /\ list /= << >> /\ Distinct(list)
    BY Zenon DEF Cancel, CInv, Types, Lists
  <1>a. PICK c \in Call : c = Head(list)
    BY <1>1, TailForgets, Zenon
  <1> DEFINE h == CancelTimer(handler[c])
  <1>2. /\ list' = Tail(list) /\ list' \in Seq(Call) /\ Distinct(list')
        /\ InSeq(c, list) /\ ~ InSeq(c, list') /\ ~ InSeq(c, handlers)
        /\ \A d : InSeq(d, list') => InSeq(d, list)
    BY <1>1, <1>a, TailForgets, Zenon DEF Cancel, CInv, Lists
  <1>3. Rights(c) /\ ~ handler[c].won
    BY <1>2, Zenon DEF CInv, Rights
  <1>4. /\ handler' = [handler EXCEPT ![c] = h] /\ handler'[c] = h
        /\ \A d \in Call : d /= c => handler'[d] = handler[d]
        /\ UNCHANGED <<handlers, pc, back>>
    BY <1>a DEF Cancel, CInv, Types
  <1>5. /\ h \in Handler
        /\ h.won => handler[c].timer = "armed" /\ h.timer = "off"
        /\ ~ h.won => handler[c].timer /= "armed" /\ h.timer = handler[c].timer
    BY <1>2, <1>3, CancelOnce, ZenonT(60)
  <1>6. /\ got' = [d \in Call |-> got'[d]]
        /\ \A d \in Call : d /= c => got'[d] = got[d]
        /\ h.won => got'[c] = Append(got[c], <<"destroyed", c>>)
        /\ ~ h.won => got'[c] = got[c]
    BY <1>a, <1>4 DEF Cancel, CallBack, CInv, Types
  <1> HIDE DEF h
  <1>7. Types'
    <2>1. handler' \in [Call -> Handler]
      BY <1>4, <1>5, Zenon DEF CInv, Types
    <2>2. /\ pc' = [u \in Thread |-> pc'[u]] /\ back' = [u \in Thread |-> back'[u]]
          /\ handlers' \in Seq(Call)
      BY <1>4 DEF CInv, Types
    <2> QED BY <1>2, <1>6, <2>1, <2>2, Zenon DEF Types
  <1>8. Lists'
    BY <1>2, <1>4, Zenon DEF CInv, Lists
  <1>9. Places' /\ (pc[Strand] = "handle" => back[Strand] \in Call)'
    BY <1>4, Zenon DEF CInv, Places
  <1>10. ASSUME NEW d \in Call, d /= c PROVE Rights(d)'
    <2>1. Rights(d) /\ (InSeq(d, handlers)' <=> InSeq(d, handlers))
      BY <1>4, Zenon DEF CInv
    <2> QED BY <1>2, <1>4, <1>6, <1>10, <2>1, ZenonT(60) DEF Rights
  <1>11. Rights(c)'
    <2>1. pc[Caller(c)] \notin Before
      BY <1>2, <1>3, Zenon DEF Rights
    <2>2. CASE h.won
      <3>1. got[c] = << >> /\ Len(got'[c]) = 1
        BY <1>3, <1>5, <1>6, <2>2, FirstCallback DEF Rights
      <3>2. pc[Caller(c)] /= "error" /\ pc[Timer(c)] /= "timeout"
        BY <1>3, <1>5, <2>2, Zenon DEF Rights
      <3>3. ~ (pc[Strand] = "handle" /\ back[Strand] = c)
        BY <1>3, Zenon DEF Rights
      <3> QED BY <1>2, <1>4, <1>5, <2>1, <2>2, <3>1, <3>2, <3>3 DEF Rights
    <2>3. CASE ~ h.won
      BY <1>2, <1>3, <1>4, <1>5, <1>6, <2>1, <2>3, ZenonT(60) DEF Rights
    <2> QED BY <2>2, <2>3, Zenon
  <1> QED BY <1>7, <1>8, <1>9, <1>10, <1>11, Zenon DEF CInv

\* Match passes the right to Handle, or leaves it where it is.
LEMMA MatchKeeps ==
  ASSUME CInv, Match
  PROVE  CInv'
  <1> USE ThreadsDiffer, AtPlace
  <1>1. CASE handlers = << >>
    <2>1. /\ Allowed(Strand, "refused", back[Strand])
          /\ Allowed(Strand, "readOn", back[Strand])
      BY Zenon DEF Match, Allowed, StrandAt, Inside
    <2>2. CASE Goto(Strand, "refused")
      BY <1>1, <2>1, <2>2, Stay, Zenon DEF Match, Goto
    <2>3. CASE Goto(Strand, "readOn")
      BY <1>1, <2>1, <2>3, Stay, Zenon DEF Match, Goto
    <2> QED BY <1>1, <2>2, <2>3, Zenon DEF Match
  <1>2. CASE handlers /= << >>
    <2>a. PICK c \in Call : c = Head(handlers)
      BY <1>2, TailForgets, Zenon DEF CInv, Types, Lists
    <2> DEFINE h == CancelTimer(handler[c])
    <2>1. /\ Tail(handlers) \in Seq(Call) /\ Distinct(Tail(handlers))
          /\ InSeq(c, handlers) /\ ~ InSeq(c, Tail(handlers)) /\ ~ InSeq(c, list)
          /\ \A d : InSeq(d, Tail(handlers)) => InSeq(d, handlers)
      BY <1>2, <2>a, TailForgets, Zenon DEF CInv, Types, Lists
    <2>2. Rights(c) /\ ~ handler[c].won
      BY <2>1, Zenon DEF CInv, Rights
    <2>3. /\ handler' = [handler EXCEPT ![c] = h] /\ handler'[c] = h
          /\ \A d \in Call : d /= c => handler'[d] = handler[d]
          /\ UNCHANGED <<list, got>> /\ pc[Strand] = "match"
          /\ \/ h.won /\ handlers' = Tail(handlers) /\ Enter(Strand, "handle", c)
             \/ ~ h.won /\ Goto(Strand, "readOn") /\ UNCHANGED <<handlers, back>>
      BY <1>2, <2>a DEF Match, CInv, Types
    <2>4. /\ h \in Handler
          /\ h.won => handler[c].timer = "armed" /\ h.timer = "off"
          /\ ~ h.won => handler[c].timer /= "armed" /\ h.timer = handler[c].timer
      BY <2>1, <2>2, CancelOnce, Zenon
    <2> HIDE DEF h
    <2>5. /\ pc' = [u \in Thread |-> pc'[u]] /\ back' = [u \in Thread |-> back'[u]]
          /\ \A u \in Thread : u /= Strand => pc'[u] = pc[u] /\ back'[u] = back[u]
          /\ h.won => pc'[Strand] = "handle" /\ back'[Strand] = c
          /\ ~ h.won => pc'[Strand] = "readOn"
      BY <2>3 DEF Enter, Goto, CInv, Types
    <2>6. Types'
      <3>1. handler' \in [Call -> Handler]
        BY <2>3, <2>4 DEF CInv, Types
      <3>2. handlers' \in Seq(Call) /\ list' \in Seq(Call) /\ got' = [d \in Call |-> got'[d]]
        BY <2>1, <2>3, ZenonT(60) DEF CInv, Types
      <3> QED BY <2>5, <3>1, <3>2, Zenon DEF Types
    <2>7. Lists'
      <3>1. CASE handlers' = Tail(handlers)
        BY <2>1, <2>3, <3>1, Zenon DEF CInv, Lists
      <3>2. CASE handlers' = handlers
        <4>1. list' = list
          BY <2>3, Zenon
        <4> QED BY <3>2, <4>1, Zenon DEF CInv, Lists
      <3> QED BY <2>3, <3>1, <3>2, Zenon
    <2>8. Places' /\ (pc[Strand] = "handle" => back[Strand] \in Call)'
      BY <2>1, <2>5 DEF CInv, Places, StrandAt, Inside
    <2>9. ASSUME NEW d \in Call, d /= c PROVE Rights(d)'
      <3>1. Rights(d) /\ (InSeq(d, list)' <=> InSeq(d, list))
                      /\ (InSeq(d, handlers)' => InSeq(d, handlers))
        BY <2>1, <2>3, ZenonT(60) DEF CInv
      <3> QED BY <2>3, <2>5, <2>9, <3>1 DEF Rights
    <2>10. Rights(c)'
      <3>1. pc[Caller(c)] \notin Before
        BY <2>1, <2>2, Zenon DEF Rights
      <3>2. CASE h.won
        BY <2>1, <2>2, <2>3, <2>4, <2>5, <3>1, <3>2, ZenonT(60) DEF Rights
      <3>3. CASE ~ h.won
        BY <2>1, <2>2, <2>3, <2>4, <2>5, <3>1, <3>3 DEF Rights
      <3> QED BY <3>2, <3>3, Zenon
    <2> QED BY <2>6, <2>7, <2>8, <2>9, <2>10, Zenon DEF CInv
  <1> QED BY <1>1, <1>2, Zenon

\* The two lists are as they were.
LEMMA ListsStay ==
  ASSUME Lists, handlers' = handlers, list' = list
  PROVE  Lists'
  BY DEF Lists, InSeq, Distinct

\* A step that calls back a call nobody else may call back, and moves a thread.
LEMMA CallBackKeeps ==
  ASSUME CInv, NEW c \in Call, NEW x, CallBack(c, x), got[c] = << >>,
         NEW t \in Thread, NEW p, NEW b, Allowed(t, p, b),
         pc' = [pc EXCEPT ![t] = p], back' = [back EXCEPT ![t] = b],
         UNCHANGED <<handlers, handler, list>>,
         handler[c].timer /= "armed",
         pc'[Caller(c)] \notin Before \cup {"error"}, pc'[Timer(c)] /= "timeout",
         ~ (pc'[Strand] = "handle" /\ back'[Strand] = c)
  PROVE  CInv'
  <1> USE ThreadsDiffer
  <1>1. /\ pc'[t] = p /\ back'[t] = b
        /\ pc' = [u \in Thread |-> pc'[u]] /\ back' = [u \in Thread |-> back'[u]]
        /\ \A u \in Thread : u /= t => pc'[u] = pc[u] /\ back'[u] = back[u]
    BY ZenonT(60) DEF CInv, Types
  <1>2. /\ got' = [d \in Call |-> got'[d]] /\ got'[c] = Append(<< >>, x)
        /\ \A d \in Call : d /= c => got'[d] = got[d]
    BY Zenon DEF CallBack, CInv, Types
  <1>3. Types'
    BY <1>1, <1>2, Zenon DEF CInv, Types
  <1>4. Lists'
    <2>1. handlers' = handlers /\ list' = list
      BY Zenon
    <2>2. Lists
      BY Zenon DEF CInv
    <2> QED BY <2>1, <2>2, ListsStay, Zenon
  <1>5. Places'
    BY <1>1 DEF CInv, Places, Allowed
  <1>6. (pc[Strand] = "handle" => back[Strand] \in Call)'
    BY <1>1 DEF CInv, Allowed
  <1>7. ASSUME NEW d \in Call PROVE Rights(d)'
    <2>1. Rights(d) /\ (InSeq(d, handlers)' <=> InSeq(d, handlers))
                    /\ (InSeq(d, list)' <=> InSeq(d, list))
      BY Zenon DEF CInv, InSeq
    <2>2. /\ pc'[Caller(d)] \in Before => pc[Caller(d)] \in Before
          /\ pc'[Caller(d)] = "error" => pc[Caller(d)] \in Before \cup {"error"}
      BY <1>1 DEF Allowed
    <2>3. pc'[Timer(d)] = "timeout" => pc[Timer(d)] = "timeout"
      BY <1>1 DEF Allowed
    <2>4. pc'[Strand] = "handle" => pc[Strand] = "handle" /\ back'[Strand] = back[Strand]
      BY <1>1 DEF Allowed
    <2>5. Fresh.timer = "none"
      BY Zenon DEF Fresh
    <2>6. CASE d = c
      <3>a. Len(got'[c]) = 1
        BY <1>2, FirstCallback
      <3>1. Len(got'[d]) = 1 /\ handler'[d] = handler[d] /\ handler[d].timer /= "armed"
        BY <2>6, <3>a, Zenon
      <3>2. /\ pc'[Caller(d)] \notin Before \cup {"error"} /\ pc'[Timer(d)] /= "timeout"
            /\ ~ (pc'[Strand] = "handle" /\ back'[Strand] = d)
        BY <2>6, Zenon
      <3>3. InSeq(d, handlers)' \/ InSeq(d, list)' => ~ handler'[d].won
        BY <2>1, <3>1, Zenon DEF Rights
      <3> QED BY <3>1, <3>2, <3>3 DEF Rights
    <2>7. CASE d /= c
      BY <1>2, <2>1, <2>2, <2>3, <2>4, <2>5, <2>7, Zenon DEF Rights
    <2> QED BY <2>6, <2>7, Zenon
  <1> QED BY <1>3, <1>4, <1>5, <1>6, <1>7, Zenon DEF CInv

\* async_invoke uses its right when no timer was ever armed ...
LEMMA ErrorKeeps ==
  ASSUME CInv, NEW c \in Call, Error(c)
  PROVE  CInv'
  <1> USE ThreadsDiffer
  <1> DEFINE t == Caller(c)
  <1>1. Rights(c) /\ pc[t] = "error" /\ t \in Thread
    BY Zenon DEF CInv, Error
  <1>2. /\ handler[c].timer = "none" /\ got[c] = << >>
        /\ pc[Timer(c)] /= "timeout" /\ ~ (pc[Strand] = "handle" /\ back[Strand] = c)
    BY <1>1, Zenon DEF Rights
  <1>3. /\ pc' = [pc EXCEPT ![t] = "finish"] /\ back' = [back EXCEPT ![t] = back[t]]
        /\ CallBack(c, <<"error", c>>) /\ UNCHANGED <<handlers, handler, list>>
    BY Zenon DEF Error, Goto, CInv, Types
  <1>4. pc'[t] = "finish" /\ pc'[Timer(c)] = pc[Timer(c)]
        /\ pc'[Strand] = pc[Strand] /\ back' = back
    BY Zenon DEF Error, Goto, CInv, Types
  <1>5. Allowed(t, "finish", back[t])
    BY Zenon DEF Allowed, CallerAt, Before, Inside
  <1>6. "finish" \notin Before \cup {"error"}
    BY Zenon DEF Before
  <1>7. PICK b : b = back[t]
    BY Zenon
  <1>8. back' = [back EXCEPT ![t] = b] /\ Allowed(t, "finish", b)
    BY <1>3, <1>5, <1>7, Zenon
  <1>9. /\ pc'[Caller(c)] \notin Before \cup {"error"} /\ pc'[Timer(c)] /= "timeout"
        /\ ~ (pc'[Strand] = "handle" /\ back'[Strand] = c) /\ handler[c].timer /= "armed"
    BY <1>2, <1>4, <1>6, Zenon
  <1> HIDE DEF t
  <1> QED BY <1>1, <1>2, <1>3, <1>8, <1>9, CallBackKeeps, Zenon

\* ... an expired timer, which nobody can cancel any more, its own ...
LEMMA TimedOutKeeps ==
  ASSUME CInv, NEW c \in Call, TimedOut(c)
  PROVE  CInv'
  <1> USE ThreadsDiffer
  <1> DEFINE t == Timer(c)
  <1>1. Rights(c) /\ pc[t] = "timeout" /\ t \in Thread
    BY Zenon DEF CInv, TimedOut
  <1>2. /\ handler[c].timer = "expired" /\ got[c] = << >>
        /\ pc[Caller(c)] \notin Before \cup {"error"}
        /\ ~ (pc[Strand] = "handle" /\ back[Strand] = c)
    BY <1>1 DEF Rights, Fresh
  <1>3. /\ pc' = [pc EXCEPT ![t] = "close"] /\ back' = [back EXCEPT ![t] = "finish"]
        /\ CallBack(c, <<"timeout", c>>) /\ UNCHANGED <<handlers, handler, list>>
    BY Zenon DEF TimedOut, Enter
  <1>4. /\ pc'[t] = "close" /\ pc'[Caller(c)] = pc[Caller(c)]
        /\ pc'[Strand] = pc[Strand] /\ back'[Strand] = back[Strand]
    BY Zenon DEF TimedOut, Enter, CInv, Types
  <1>5. Allowed(t, "close", "finish")
    BY Zenon DEF Allowed, TimerAt, Inside
  <1> HIDE DEF t
  <1> QED BY <1>1, <1>2, <1>3, <1>4, <1>5, CallBackKeeps, Zenon DEF t

\* ... and the handler of the read the one it won in Match.
LEMMA HandleKeeps ==
  ASSUME CInv, Handle
  PROVE  CInv'
  <1> USE ThreadsDiffer
  <1>1. PICK c \in Call : c = back[Strand]
    BY Zenon DEF CInv, Handle
  <1>2. Rights(c) /\ pc[Strand] = "handle"
    BY Zenon DEF CInv, Handle
  <1>3. /\ handler[c].timer = "off" /\ got[c] = << >>
        /\ pc[Caller(c)] \notin Before \cup {"error"} /\ pc[Timer(c)] /= "timeout"
    BY <1>1, <1>2 DEF Rights, Fresh
  <1>4. PICK x : CallBack(c, x)
    BY <1>1, Zenon DEF Handle
  <1>5. /\ pc' = [pc EXCEPT ![Strand] = "readOn"] /\ back' = [back EXCEPT ![Strand] = "idle"]
        /\ UNCHANGED <<handlers, handler, list>>
    BY Zenon DEF Handle, Enter
  <1>6. /\ pc'[Strand] = "readOn" /\ pc'[Caller(c)] = pc[Caller(c)]
        /\ pc'[Timer(c)] = pc[Timer(c)]
    BY <1>5, Zenon DEF CInv, Types
  <1>7. Allowed(Strand, "readOn", "idle")
    BY Zenon DEF Allowed, StrandAt, Inside
  <1> QED BY <1>3, <1>4, <1>5, <1>6, <1>7, CallBackKeeps, Zenon

\* Setting the timer of one handler changes nothing else.
LEMMA SetTimer ==
  ASSUME NEW f \in [Call -> Handler], NEW c \in Call, NEW v \in {"armed", "expired"},
         NEW g, g = [f EXCEPT ![c].timer = v]
  PROVE  /\ g \in [Call -> Handler]
         /\ g[c].timer = v /\ g[c].won = f[c].won /\ g[c].tried = f[c].tried
         /\ \A d \in Call : d /= c => g[d] = f[d]
  <1>1. PICK h : h = [f[c] EXCEPT !.timer = v]
    BY Zenon
  <1>2. f[c] \in Handler
    BY Zenon
  <1>3. h \in Handler /\ h.timer = v /\ h.won = f[c].won /\ h.tried = f[c].tried
    BY <1>1, <1>2, Zenon DEF Handler
  <1>4. g = [f EXCEPT ![c] = h]
    BY <1>1, Zenon
  <1> QED BY <1>3, <1>4, Zenon

\* The expiry takes the right of an armed timer to TimedOut.
LEMMA ExpireKeeps ==
  ASSUME CInv, NEW c \in Call, Expire(c)
  PROVE  CInv'
  <1> USE ThreadsDiffer
  <1>1. /\ Rights(c) /\ handler[c] \in Handler /\ handler[c].timer = "armed"
        /\ got[c] = << >>
    BY Zenon DEF CInv, Types, Expire, Rights
  <1>2. /\ handler' \in [Call -> Handler]
        /\ handler'[c].timer = "expired" /\ handler'[c].won = handler[c].won
        /\ \A d \in Call : d /= c => handler'[d] = handler[d]
    <2>1. handler' = [handler EXCEPT ![c].timer = "expired"] /\ handler \in [Call -> Handler]
      BY Zenon DEF CInv, Types, Expire
    <2> QED BY <2>1, SetTimer
  <1>3. /\ pc' = [u \in Thread |-> pc'[u]] /\ pc'[Timer(c)] = "timeout"
        /\ \A u \in Thread : u /= Timer(c) => pc'[u] = pc[u]
        /\ UNCHANGED <<handlers, back, list, got>>
    BY ZenonT(60) DEF CInv, Types, Expire, Goto
  <1>4. Types'
    <2>1. /\ back' = [u \in Thread |-> back'[u]] /\ got' = [d \in Call |-> got'[d]]
          /\ handlers' \in Seq(Call) /\ list' \in Seq(Call)
      BY <1>3 DEF CInv, Types
    <2> QED BY <1>2, <1>3, <2>1, Zenon DEF Types
  <1>5. Lists'
    BY <1>3 DEF CInv, Lists, InSeq, Distinct
  <1>6. Places' /\ (pc[Strand] = "handle" => back[Strand] \in Call)'
    BY <1>3 DEF CInv, Places, TimerAt, Inside
  <1>7. ASSUME NEW d \in Call PROVE Rights(d)'
    <2>1. Rights(d) /\ (InSeq(d, handlers)' <=> InSeq(d, handlers))
                    /\ (InSeq(d, list)' <=> InSeq(d, list))
      BY <1>3, Zenon DEF CInv, InSeq
    <2>2. CASE d = c
      <3>1. /\ pc[Caller(c)] \notin Before \cup {"error"}
            /\ ~ (pc[Strand] = "handle" /\ back[Strand] = c)
        BY <1>1 DEF Rights, Fresh
      <3> QED BY <1>1, <1>2, <1>3, <2>1, <2>2, <3>1, Zenon DEF Rights
    <2>3. CASE d /= c
      BY <1>2, <1>3, <2>1, <2>3 DEF Rights
    <2> QED BY <2>2, <2>3, Zenon
  <1> QED BY <1>4, <1>5, <1>6, <1>7, Zenon DEF CInv

\* The destructor of the handler drops the list of handlers.
LEMMA DieKeeps ==
  ASSUME CInv, Die
  PROVE  CInv'
  <1> USE EmptyList
  <1>1. handlers' = << >> /\ UNCHANGED <<handler, pc, back, list, got>>
    BY Zenon DEF Die
  <1>2. Types' /\ Places' /\ (pc[Strand] = "handle" => back[Strand] \in Call)'
    BY <1>1, Zenon DEF CInv, Types, Places
  <1>3. Lists'
    BY <1>1, Zenon DEF CInv, Lists
  <1>4. ASSUME NEW c \in Call PROVE Rights(c)'
    <2>1. Rights(c) /\ (InSeq(c, list)' <=> InSeq(c, list)) /\ ~ InSeq(c, handlers')
      BY <1>1, Zenon DEF CInv
    <2> QED BY <1>1, <2>1, Zenon DEF Rights
  <1> QED BY <1>2, <1>3, <1>4, Zenon DEF CInv

\* Add makes the handler and arms its timer, or leaves the right to Error.
LEMMA AddKeeps ==
  ASSUME CInv, NEW c \in Call, Add(c)
  PROVE  CInv'
  <1> USE ThreadsDiffer
  <1>1. /\ Rights(c) /\ pc[Caller(c)] = "add" /\ pc[Caller(c)] \in Before
    BY Zenon DEF CInv, Add, Before
  <1>2. /\ handler[c] = Fresh /\ got[c] = << >>
        /\ ~ InSeq(c, handlers) /\ ~ InSeq(c, list)
    BY <1>1, Zenon DEF Rights
  <1>3. /\ ~ handler[c].won /\ ~ handler[c].tried /\ handler[c].timer = "none"
        /\ pc[Timer(c)] /= "timeout" /\ ~ (pc[Strand] = "handle" /\ back[Strand] = c)
    BY <1>1, <1>2 DEF Rights, Fresh
  <1>4. /\ \/ handler' = handler
           \/ handler' = [handler EXCEPT ![c].timer = "armed"]
        /\ \/ handlers' = handlers
           \/ handlers' = Append(handlers, c)
    BY Zenon DEF Add, add_ref_and_arm
  <1>5. /\ handler' \in [Call -> Handler]
        /\ handler'[c].timer \in {"none", "armed"}
        /\ ~ handler'[c].won /\ ~ handler'[c].tried
        /\ \A d \in Call : d /= c => handler'[d] = handler[d]
    <2>1. CASE handler' = handler
      BY <1>3, <2>1, Zenon DEF CInv, Types
    <2>2. CASE handler' = [handler EXCEPT ![c].timer = "armed"]
      <3>1. handler \in [Call -> Handler]
        BY Zenon DEF CInv, Types
      <3>2. /\ handler' \in [Call -> Handler] /\ handler'[c].timer = "armed"
            /\ handler'[c].won = handler[c].won /\ handler'[c].tried = handler[c].tried
            /\ \A d \in Call : d /= c => handler'[d] = handler[d]
        BY <2>2, <3>1, SetTimer DEF Handler
      <3> QED BY <1>3, <3>2, Zenon
    <2> QED BY <1>4, <2>1, <2>2, Zenon
  <1>6. /\ handlers' \in Seq(Call) /\ Distinct(handlers')
        /\ \A d : InSeq(d, handlers') => InSeq(d, handlers) \/ d = c
    <2>1. CASE handlers' = handlers
      BY <2>1, Zenon DEF CInv, Types, Lists
    <2>2. CASE handlers' = Append(handlers, c)
      BY <1>2, <2>2, AppendAdds, Zenon DEF CInv, Types, Lists
    <2> QED BY <1>4, <2>1, <2>2, Zenon
  <1>7. /\ pc' = [u \in Thread |-> pc'[u]]
        /\ pc'[Caller(c)] = IF handler'[c].timer = "armed" THEN "finish" ELSE "error"
        /\ \A u \in Thread : u /= Caller(c) => pc'[u] = pc[u]
        /\ UNCHANGED <<back, list, got>>
    BY DEF CInv, Types, Add, Goto
  <1>8. Types'
    <2>1. /\ back' = [u \in Thread |-> back'[u]] /\ got' = [d \in Call |-> got'[d]]
          /\ list' \in Seq(Call)
      BY <1>7 DEF CInv, Types
    <2> QED BY <1>5, <1>6, <1>7, <2>1, Zenon DEF Types
  <1>9. Lists'
    <2>1. list' = list /\ Distinct(list)
      BY <1>7, Zenon DEF CInv, Lists
    <2>2. ASSUME NEW d \in Call, InSeq(d, handlers'), InSeq(d, list) PROVE FALSE
      BY <1>2, <1>6, <2>2, Zenon DEF CInv, Lists
    <2> QED BY <1>6, <2>1, <2>2, Zenon DEF Lists
  <1>10. Places' /\ (pc[Strand] = "handle" => back[Strand] \in Call)'
    BY <1>7 DEF CInv, Places, CallerAt, Inside
  <1>11. ASSUME NEW d \in Call PROVE Rights(d)'
    <2>1. Rights(d) /\ (InSeq(d, list)' <=> InSeq(d, list))
      BY <1>7, Zenon DEF CInv
    <2>2. CASE d = c
      <3>1. pc'[Caller(c)] \notin Before
        BY <1>7, Zenon DEF Before
      <3>2. got'[c] = << >> /\ Len(got'[c]) = 0
        BY <1>2, <1>7, Zenon
      <3> QED BY <1>3, <1>5, <1>7, <2>2, <3>1, <3>2 DEF Rights
    <2>3. CASE d /= c
      <3>1. InSeq(d, handlers)' => InSeq(d, handlers)
        BY <1>6, <2>3, Zenon
      <3> QED BY <1>5, <1>7, <2>1, <2>3, <3>1 DEF Rights
    <2> QED BY <2>2, <2>3
  <1> QED BY <1>8, <1>9, <1>10, <1>11 DEF CInv

(***************************************************************************)
(* The invariant and the theorem.                                          *)
(***************************************************************************)

\* A connection without calls.
LEMMA InitCInv ==
  Init => CInv
  <1> SUFFICES ASSUME Init PROVE CInv
    BY Zenon
  <1> USE ThreadsDiffer, EmptyList
  <1>1. /\ handlers = << >> /\ list = << >>
        /\ handler = [c \in Call |-> Fresh] /\ got = [c \in Call |-> << >>]
        /\ back = [t \in Thread |-> "idle"]
    BY Zenon DEF Init, Fresh
  <1>2. /\ pc = [t \in Thread |-> pc[t]]
        /\ \A t \in Thread : pc[t] \in {"start", "idle", "done"}
    BY DEF Init
  <1>3. \A c \in Call : pc[Caller(c)] \in {"start", "idle"}
    BY DEF Init
  <1>4. Types
    BY <1>1, <1>2 DEF Types, Handler, Fresh
  <1>5. Lists
    BY <1>1, Zenon DEF Lists
  <1>6. Places /\ (pc[Strand] = "handle" => back[Strand] \in Call)
    BY <1>2, <1>3, Zenon DEF Places, CallerAt, TimerAt, StrandAt, Inside, Before
  <1>7. ASSUME NEW c \in Call PROVE Rights(c)
    <2>1. handler[c] = Fresh /\ got[c] = << >> /\ Len(got[c]) = 0
      BY <1>1, Zenon
    <2>2. Fresh.timer = "none" /\ ~ Fresh.won
      BY Zenon DEF Fresh
    <2>3. pc[Timer(c)] /= "timeout" /\ pc[Strand] /= "handle" /\ pc[Caller(c)] /= "error"
      BY <1>2, Zenon
    <2> QED BY <1>1, <2>1, <2>2, <2>3 DEF Rights
  <1> QED BY <1>4, <1>5, <1>6, <1>7, Zenon DEF CInv

\* Every action, by the lemma about it.
LEMMA NextCInv ==
  CInv /\ [Next]_vars => CInv'
  <1> SUFFICES ASSUME CInv, [Next]_vars PROVE CInv'
    BY Zenon
  <1>1. ASSUME NEW t \in Thread, Subroutine(t) PROVE CInv'
    BY <1>1, SubroutineMoves, SwapKeeps, CancelKeeps, Zenon DEF Subroutine
  <1>2. ASSUME NEW c \in Call, OfCall(c) \/ Expire(c) \/ Find(Caller(c), "call") PROVE CInv'
    BY <1>2, AddKeeps, ErrorKeeps, TimedOutKeeps, ExpireKeeps, OtherMoves, Zenon DEF OfCall
  <1>3. CASE Find(Sender, "send") \/ CloseConnection \/ Erase \/ Idle \/ Delete
    BY <1>3, OtherMoves, Zenon
  <1>4. CASE OfStrand
    BY <1>4, MatchKeeps, HandleKeeps, StrandMoves, Zenon DEF OfStrand
  <1>5. CASE ReceiveAnswer \/ ReceiveRequest \/ ReadEnd \/ Write \/ WriteError
    BY <1>5, StrandMoves, Zenon
  <1>6. CASE Die
    BY <1>6, DieKeeps, Zenon
  <1>7. CASE UNCHANGED vars
    BY <1>7, Still, Zenon DEF vars
  <1> QED BY <1>1, <1>2, <1>3, <1>4, <1>5, <1>6, <1>7, Zenon DEF Next

\* However an answer, the timers, the shutdowns and the calls themselves
\* interleave on one connection, no callback given to async_invoke is called
\* a second time: for any number of calls and any limit of the send queue.
THEOREM CallbackAtMostOnce ==
  Spec => []CalledBackOnce
  <1>1. CInv => CalledBackOnce
    BY Zenon DEF CInv, Rights, CalledBackOnce
  <1> QED BY <1>1, InitCInv, NextCInv, PTL DEF Spec

(***************************************************************************)
(* The references to the endpoint.                                         *)
(***************************************************************************)

\* S has n elements: they can be numbered from 1 to n.
Numbers(b, n, S) ==
  /\ b \in [1 .. n -> S]
  /\ \A i, k \in 1 .. n : b[i] = b[k] => i = k
  /\ \A x \in S : \E i \in 1 .. n : b[i] = x
Size(n, S) == n \in Nat /\ \E b : Numbers(b, n, S)

\* Only the empty set has no element.
LEMMA SizeZero ==
  /\ Size(0, {})
  /\ \A S : Size(0, S) => S = {}
<1>1. Numbers([i \in 1 .. 0 |-> i], 0, {})
  BY DEF Numbers
<1>2. ASSUME NEW S, Size(0, S) PROVE S = {}
  BY <1>2 DEF Size, Numbers
<1> QED BY <1>1, <1>2, Zenon DEF Size

\* One more element ...
LEMMA SizeMore ==
  ASSUME NEW n, NEW S, Size(n, S), NEW x, x \notin S
  PROVE  Size(n + 1, S \cup {x})
<1>1. PICK b : Numbers(b, n, S) /\ n \in Nat
  BY Zenon DEF Size
<1>2. PICK c : c = [i \in 1 .. n + 1 |-> IF i = n + 1 THEN x ELSE b[i]]
  BY Zenon
<1>3. c \in [1 .. n + 1 -> S \cup {x}]
  BY <1>1, <1>2 DEF Numbers
<1>4. \A i, k \in 1 .. n + 1 : c[i] = c[k] => i = k
  BY <1>1, <1>2 DEF Numbers
<1>5. ASSUME NEW y \in S \cup {x} PROVE \E i \in 1 .. n + 1 : c[i] = y
  BY <1>1, <1>2 DEF Numbers
<1>6. Numbers(c, n + 1, S \cup {x})
  BY <1>3, <1>4, <1>5, Zenon DEF Numbers
<1>7. n + 1 \in Nat
  BY <1>1
<1> QED BY <1>6, <1>7, Zenon DEF Size

\* ... and one less.
LEMMA SizeLess ==
  ASSUME NEW n, NEW S, Size(n, S), NEW x \in S
  PROVE  Size(n - 1, S \ {x})
<1>1. PICK b : Numbers(b, n, S) /\ n \in Nat
  BY Zenon DEF Size
<1>2. PICK m \in 1 .. n : b[m] = x
  BY <1>1, Zenon DEF Numbers
<1>3. PICK c : c = [i \in 1 .. n - 1 |-> IF i = m THEN b[n] ELSE b[i]]
  BY Zenon
<1>4. n - 1 \in Nat /\ n \in 1 .. n
  BY <1>1, <1>2
<1>5. ASSUME NEW i \in 1 .. n - 1 PROVE c[i] \in S \ {x}
  BY <1>1, <1>2, <1>3, <1>4 DEF Numbers
<1>6. \A i, k \in 1 .. n - 1 : c[i] = c[k] => i = k
  BY <1>1, <1>2, <1>3, <1>4 DEF Numbers
<1>7. ASSUME NEW y \in S \ {x} PROVE \E i \in 1 .. n - 1 : c[i] = y
  <2>1. PICK i \in 1 .. n : b[i] = y
    BY <1>1, Zenon DEF Numbers
  <2>2. i # m
    BY <1>2, <2>1, Zenon
  <2>3. CASE i = n
    <3>1. m \in 1 .. n - 1 /\ c[m] = y
      BY <1>1, <1>2, <1>3, <2>1, <2>2, <2>3
    <3> QED BY <3>1, Zenon
  <2>4. CASE i # n
    <3>1. i \in 1 .. n - 1 /\ c[i] = y
      BY <1>1, <1>3, <2>1, <2>2, <2>4
    <3> QED BY <3>1, Zenon
  <2> QED BY <2>3, <2>4, Zenon
<1>8. c \in [1 .. n - 1 -> S \ {x}]
  BY <1>3, <1>5, Zenon
<1>9. Numbers(c, n - 1, S \ {x})
  BY <1>6, <1>7, <1>8, Zenon DEF Numbers
<1> QED BY <1>4, <1>9, Zenon DEF Size

Endpoint == [shut : BOOLEAN, want : BOOLEAN, called : BOOLEAN, released : BOOLEAN,
             registered : BOOLEAN, reading : BOOLEAN, idle : BOOLEAN, refs : Int,
             queue : Seq(Call \cup {NoCall}), life : {"live", "dying", "gone"}]

\* Between start_outer_call and finish_outer_call.
Busy(p) == p \notin {"idle", "start", "notFound", "done"}

\* Who has a reference: callers and the sender on the way, and the handler of
\* a call, which stands under the name of its timer, while the timer is armed
\* or has expired and until Handle is through.
Holders ==
    {t \in Thread :
        \/ t[1] \in {"caller", "timer", "sender"} /\ Busy(pc[t])
        \/ \E c \in Call : /\ t = Timer(c)
                           /\ \/ handler[c].timer = "armed"
                              \/ pc[Strand] = "handle" /\ back[Strand] = c}

\* Where the threads of each kind may be, and to where they return.
Spot(t, p, b) ==
    /\ t[1] = "caller" => /\ p \in Before \cup {"error", "finish", "done"}
                          /\ p \in Inside => b = "error"
    /\ t[1] = "timer" => /\ p \in Inside \cup {"idle", "timeout", "finish", "done"}
                         /\ p \in Inside => b = "finish"
    /\ t = Sender => /\ p \in {"idle", "start", "notFound", "send", "push",
                               "swap", "cancel", "finish", "done"}
                     /\ p \in Inside => b = "finish"
    /\ t = Strand => /\ p \in Inside \cup {"idle", "match", "send", "push",
                                           "handle", "readOn", "refused"}
                     /\ p \in Inside => b \in {"idle", "refused"}
    /\ t = Idler => /\ p \in Inside \cup {"idle", "done"}
                    /\ p \in Inside => b = "idle"
    /\ t = Closer => /\ p \in Inside \cup {"idle", "start", "erase", "done"}
                     /\ p \in Inside => b = "erase"

Spots == \A t \in Thread : Spot(t, pc[t], back[t])

\* A timer whose handler runs has expired.
Spent == \A c \in Call : pc[Timer(c)] /= "idle" => handler[c].timer = "expired"

\* The endpoint counts its holders, and lives while it has one.
Counted ==
    /\ Size(endpoint.refs, Holders)
    /\ endpoint.life /= "live" => Holders = {}

HInv == endpoint \in Endpoint /\ Spots /\ Spent /\ Counted

\* The kinds of threads.
LEMMA ThreadKinds ==
  /\ \A t \in Thread : \/ \E c \in Call : t = Caller(c) \/ t = Timer(c)
                       \/ t \in {Strand, Idler, Closer, Sender}
  /\ \A t \in Thread : t[1] = "timer" => \E c \in Call : t = Timer(c)
  /\ Strand[1] = "strand" /\ Idler[1] = "idler" /\ Closer[1] = "closer" /\ Sender[1] = "sender"
  /\ Idler /= Closer /\ Idler /= Sender /\ Closer /= Sender
<1>1. ASSUME NEW t \in Thread PROVE \/ \E c \in Call : t = Caller(c) \/ t = Timer(c)
                                    \/ t \in {Strand, Idler, Closer, Sender}
  BY Zenon DEF Caller, Timer, Strand, Closer, Idler, Sender, Thread
<1>2. /\ Strand[1] = "strand" /\ Idler[1] = "idler" /\ Closer[1] = "closer" /\ Sender[1] = "sender"
      /\ Idler /= Closer /\ Idler /= Sender /\ Closer /= Sender
  BY DEF Strand, Closer, Idler, Sender
<1>3. \A c \in Call : Caller(c)[1] /= "timer"
  BY DEF Caller
<1>4. ASSUME NEW t \in Thread, t[1] = "timer" PROVE \E c \in Call : t = Timer(c)
  BY <1>1, <1>2, <1>3, <1>4
<1> QED BY <1>1, <1>2, <1>4, Zenon

\* f is e with other flags or another queue.
SameHold(e, f) == f \in Endpoint /\ f.refs = e.refs /\ f.life = e.life

\* The flags that the steps set.
LEMMA FlagSteps ==
  ASSUME NEW e \in Endpoint
  PROVE  /\ SameHold(e, e)
         /\ SameHold(e, [e EXCEPT !.released = TRUE])
         /\ SameHold(e, [e EXCEPT !.want = TRUE])
         /\ SameHold(e, [e EXCEPT !.reading = FALSE])
         /\ SameHold(e, [e EXCEPT !.want = TRUE, !.reading = FALSE])
         /\ SameHold(e, [e EXCEPT !.registered = FALSE])
         /\ SameHold(e, [e EXCEPT !.idle = FALSE])
         /\ SameHold(e, [e EXCEPT !.shut = TRUE, !.idle = e.idle /\ e.shut])
         /\ \A x \in BOOLEAN : SameHold(e, [e EXCEPT !.idle = FALSE, !.called = @ \/ x])
         /\ \A x \in BOOLEAN : SameHold(e, Rearmed(e, x))
         /\ \A q \in Seq(Call \cup {NoCall}) : SameHold(e, [e EXCEPT !.queue = q])
  BY ZenonT(60) DEF Endpoint, SameHold, Rearmed

\* The two that change the count, and the two of the end.
LEMMA HoldSteps ==
  ASSUME NEW e \in Endpoint, NEW f
  PROVE  /\ f = [e EXCEPT !.refs = @ + 1] =>
              f \in Endpoint /\ f.refs = e.refs + 1 /\ f.life = e.life
         /\ f = Released(e) =>
              f \in Endpoint /\ f.refs = e.refs - 1 /\ f.life = e.life
         /\ f = [e EXCEPT !.life = "dying", !.shut = TRUE, !.released = TRUE] =>
              f \in Endpoint /\ f.refs = e.refs
         /\ f = [e EXCEPT !.life = "gone", !.registered = FALSE] =>
              f \in Endpoint /\ f.refs = e.refs
  <1>1. ASSUME f = [e EXCEPT !.refs = @ + 1]
        PROVE  f \in Endpoint /\ f.refs = e.refs + 1 /\ f.life = e.life
    BY <1>1 DEF Endpoint
  <1>2. ASSUME f = Released(e)
        PROVE  f \in Endpoint /\ f.refs = e.refs - 1 /\ f.life = e.life
    BY <1>2 DEF Endpoint, Released
  <1>3. ASSUME f = [e EXCEPT !.life = "dying", !.shut = TRUE, !.released = TRUE]
        PROVE  f \in Endpoint /\ f.refs = e.refs
    BY <1>3, Zenon DEF Endpoint
  <1>4. ASSUME f = [e EXCEPT !.life = "gone", !.registered = FALSE]
        PROVE  f \in Endpoint /\ f.refs = e.refs
    BY <1>4, Zenon DEF Endpoint
  <1> QED BY <1>1, <1>2, <1>3, <1>4, Zenon

(***************************************************************************)
(* Steps that take no reference and give none back.                        *)
(***************************************************************************)

QuietStep(t, p, b) ==
    /\ pc' = [pc EXCEPT ![t] = p] /\ back' = [back EXCEPT ![t] = b]
    /\ Spot(t, p, b)
    /\ t[1] \in {"caller", "timer", "sender"} => (Busy(p) <=> Busy(pc[t]))
    /\ t[1] = "timer" => pc[t] /= "idle"
    /\ t = Strand => p /= "handle" /\ pc[t] /= "handle"
    /\ SameHold(endpoint, endpoint')
    /\ handler' = handler

\* Such a step keeps the count of the holders.
LEMMA QuietKeeps ==
  ASSUME CInv, HInv, NEW t \in Thread, NEW p, NEW b, QuietStep(t, p, b)
  PROVE  HInv'
  <1> USE ThreadsDiffer, ThreadKinds
  <1>1. /\ pc'[t] = p /\ back'[t] = b
        /\ \A u \in Thread : u /= t => pc'[u] = pc[u] /\ back'[u] = back[u]
    BY Zenon DEF QuietStep, CInv, Types
  <1>2. /\ endpoint' \in Endpoint /\ endpoint'.refs = endpoint.refs
        /\ endpoint'.life = endpoint.life /\ handler' = handler
    BY Zenon DEF QuietStep, SameHold
  <1>3. Spots'
    <2>1. ASSUME NEW u \in Thread PROVE Spot(u, pc'[u], back'[u])
      BY <1>1 DEF QuietStep, HInv, Spots
    <2> QED BY <2>1, Zenon DEF Spots
  <1>4. Spent'
    BY <1>1, <1>2 DEF QuietStep, HInv, Spent
  <1>5. /\ \A u \in Thread : u[1] \in {"caller", "timer", "sender"} =>
                                (Busy(pc'[u]) <=> Busy(pc[u]))
        /\ pc'[Strand] = "handle" <=> pc[Strand] = "handle"
        /\ pc[Strand] = "handle" => back'[Strand] = back[Strand]
    BY <1>1 DEF QuietStep
  <1>6. Holders' = Holders
    <2>1. ASSUME NEW u \in Thread PROVE u \in Holders' <=> u \in Holders
      BY <1>2, <1>5, SMTT(30) DEF Holders
    <2>2. Holders' \subseteq Thread /\ Holders \subseteq Thread
      BY Zenon DEF Holders
    <2> QED BY <2>1, <2>2
  <1> QED BY <1>2, <1>3, <1>4, <1>6, Zenon DEF HInv, Counted

\* The same when back does not change.
LEMMA QuietStay ==
  ASSUME CInv, HInv, NEW t \in Thread, NEW p, UNCHANGED back,
         Goto(t, p), Spot(t, p, back[t]),
         t[1] \in {"caller", "timer", "sender"} => (Busy(p) <=> Busy(pc[t])),
         t[1] = "timer" => pc[t] /= "idle",
         t = Strand => p /= "handle" /\ pc[t] /= "handle",
         SameHold(endpoint, endpoint'), handler' = handler
  PROVE  HInv'
  <1>1. back' = [back EXCEPT ![t] = back[t]]
    BY Zenon DEF CInv, Types
  <1>2. QuietStep(t, p, back[t])
    BY <1>1, Zenon DEF QuietStep, Goto
  <1> QED BY <1>2, QuietKeeps, Zenon

\* shutdown, in an endpoint of which only the flags have been set.
LEMMA QuietShutdown ==
  ASSUME CInv, HInv, NEW t \in Thread, NEW e, NEW return,
         SameHold(endpoint, e), shutdown(t, e, return),
         Spot(t, return, "idle"), Spot(t, "swap", return),
         t[1] \in {"caller", "timer", "sender"} => Busy(return) /\ Busy(pc[t]),
         t[1] = "timer" => pc[t] /= "idle",
         t = Strand => return /= "handle" /\ pc[t] /= "handle", handler' = handler
  PROVE  HInv'
  <1>1. SameHold(endpoint, endpoint')
    <2>1. SameHold(e, endpoint')
      BY FlagSteps, Zenon DEF shutdown, SameHold
    <2> QED BY <2>1, Zenon DEF SameHold
  <1>2. CASE Enter(t, return, "idle")
    <2>1. QuietStep(t, return, "idle")
      BY <1>1, <1>2, Zenon DEF QuietStep, Enter
    <2> QED BY <2>1, QuietKeeps, Zenon
  <1>3. CASE Enter(t, "swap", return)
    <2>1. QuietStep(t, "swap", return)
      BY <1>1, <1>3, Zenon DEF QuietStep, Enter, Busy
    <2> QED BY <2>1, QuietKeeps, Zenon
  <1> QED BY <1>2, <1>3, Zenon DEF shutdown

\* Of a thread that is inside close or shutdown.
LEMMA InsideSpot ==
  ASSUME HInv, NEW t \in Thread, pc[t] \in Inside
  PROVE  /\ Spot(t, back[t], "idle")
         /\ t[1] \in {"caller", "timer", "sender"} => Busy(back[t]) /\ Busy(pc[t])
         /\ pc[t] /= "idle"
         /\ t = Strand => back[t] /= "handle" /\ pc[t] /= "handle"
         /\ \A p \in Inside : t /= Sender /\ t[1] /= "caller" => Spot(t, p, back[t])
         /\ Spot(t, "swap", back[t]) /\ Spot(t, "cancel", back[t])
  <1> USE ThreadsDiffer, ThreadKinds
  <1>1. Spot(t, pc[t], back[t])
    BY Zenon DEF HInv, Spots
  <1>2. \/ t[1] \in {"caller", "timer"}
        \/ t \in {Strand, Idler, Closer, Sender}
    OBVIOUS
  <1>3. CASE t[1] = "caller"
    <2>1. t \notin {Strand, Idler, Closer, Sender} /\ back[t] = "error"
      BY <1>1, <1>3, Zenon DEF Spot
    <2> QED BY <1>1, <1>3, <2>1, Zenon DEF Spot, Inside, Before, Busy
  <1>4. CASE t[1] = "timer"
    <2>1. t \notin {Strand, Idler, Closer, Sender} /\ back[t] = "finish"
      BY <1>1, <1>4, Zenon DEF Spot
    <2> QED BY <1>1, <1>4, <2>1, Zenon DEF Spot, Inside, Busy
  <1>5. CASE t = Strand
    BY <1>1, <1>5, Zenon DEF Spot, Inside, Busy
  <1>6. CASE t = Idler
    BY <1>1, <1>6, Zenon DEF Spot, Inside, Busy
  <1>7. CASE t = Closer
    BY <1>1, <1>7, Zenon DEF Spot, Inside, Busy
  <1>8. CASE t = Sender
    BY <1>1, <1>8, Zenon DEF Spot, Inside, Busy
  <1> QED BY <1>2, <1>3, <1>4, <1>5, <1>6, <1>7, <1>8, Zenon

\* The returns of close and of shutdown.
LEMMA QuietReturn ==
  ASSUME CInv, HInv, NEW t \in Thread, pc[t] \in Inside, Return(t),
         SameHold(endpoint, endpoint'), handler' = handler
  PROVE  HInv'
  <1>1. QuietStep(t, back[t], "idle")
    BY InsideSpot, Zenon DEF QuietStep, Return
  <1> QED BY <1>1, QuietKeeps, Zenon

\* Of a thread that sends.
LEMMA SendSpot ==
  ASSUME HInv, NEW t \in Thread, pc[t] \in {"send", "push"}
  PROVE  /\ t[1] = "caller" \/ t = Strand \/ t = Sender
         /\ Spot(t, "push", back[t]) /\ Spot(t, "swap", Unsent(t))
         /\ \A b : Spot(t, Unsent(t), b) /\ Spot(t, Sent(t), b)
         /\ t[1] \in {"caller", "timer", "sender"} =>
               Busy(Unsent(t)) /\ Busy(Sent(t)) /\ Busy("push") /\ Busy(pc[t])
         /\ t[1] /= "timer"
         /\ t = Strand => Unsent(t) /= "handle" /\ Sent(t) /= "handle" /\ pc[t] /= "handle"
         /\ Message(t) \in Call \cup {NoCall}
  <1> USE ThreadsDiffer, ThreadKinds
  <1>1. Spot(t, pc[t], back[t])
    BY Zenon DEF HInv, Spots
  <1>2. t[1] = "caller" \/ t = Strand \/ t = Sender
    BY <1>1, SMTT(30) DEF Spot, Inside
  <1>3. CASE t[1] = "caller"
    <2>1. /\ t \notin {Strand, Idler, Closer, Sender}
          /\ Unsent(t) = "error" /\ Sent(t) = "add" /\ Message(t) = t[2]
      BY <1>3, Zenon DEF Unsent, Sent, Message
    <2>2. t[2] \in Call
      BY <1>3
    <2> QED BY <1>1, <1>3, <2>1, <2>2, Zenon DEF Spot, Inside, Before, Busy
  <1>4. CASE t = Strand
    <2>1. Unsent(t) = "refused" /\ Sent(t) = "readOn" /\ Message(t) = NoCall
      BY <1>4, Zenon DEF Unsent, Sent, Message
    <2> QED BY <1>1, <1>4, <2>1, Zenon DEF Spot, Inside, Busy
  <1>5. CASE t = Sender
    <2>1. Unsent(t) = "finish" /\ Sent(t) = "finish" /\ Message(t) = NoCall
      BY <1>5, Zenon DEF Unsent, Sent, Message
    <2> QED BY <1>1, <1>5, <2>1, Zenon DEF Spot, Inside, Busy
  <1> QED BY <1>2, <1>3, <1>4, <1>5, Zenon

\* The subroutines, but for the two that give references back.
LEMMA QuietSubroutines ==
  ASSUME CInv, HInv, NEW t \in Thread,
         \/ Swap(t) \/ Cancelled(t) \/ CloseBegin(t) \/ CloseLook(t) \/ CloseEnd(t) \/ SendCheck(t)
         \/ SendPush(t) \/ SendFull(t) \/ TakeLocks(t)
  PROVE  HInv'
  <1> USE ThreadsDiffer, ThreadKinds
  <1>e. endpoint \in Endpoint /\ SameHold(endpoint, endpoint)
    BY Zenon DEF HInv, SameHold
  <1>1. CASE Swap(t)
    <2>1. pc[t] \in Inside /\ Goto(t, "cancel") /\ UNCHANGED <<back, handler>>
      BY <1>1, Zenon DEF Swap, Inside
    <2>2. SameHold(endpoint, endpoint')
      BY <1>1, <1>e, FlagSteps, Zenon DEF Swap
    <2>3. Busy("cancel")
      BY Zenon DEF Busy
    <2> QED BY <2>1, <2>2, <2>3, InsideSpot, QuietStay, ZenonT(60)
  <1>2. CASE Cancelled(t)
    BY <1>2, <1>e, QuietReturn, Zenon DEF Cancelled, Inside
  <1>3. CASE CloseBegin(t)
    <2>1. pc[t] \in Inside /\ pc[t] = "close" /\ handler' = handler
      BY <1>3, Zenon DEF CloseBegin, Inside
    <2>2. SameHold(endpoint, endpoint')
      <3>1. PICK x \in BOOLEAN : x = (t /= Idler)
        BY Zenon
      <3>2. endpoint' = [endpoint EXCEPT !.idle = FALSE, !.called = @ \/ x]
        BY <1>3, <3>1, Zenon DEF CloseBegin
      <3> QED BY <1>e, <3>2, FlagSteps, Zenon
    <2>3. CASE Return(t)
      BY <2>1, <2>2, <2>3, QuietReturn, Zenon
    <2>4. CASE Goto(t, "closeLook") /\ UNCHANGED back
      <3>1. PICK p : p = "closeLook"
        BY Zenon
      <3>2. t /= Sender /\ t[1] /= "caller" /\ p \in Inside /\ Busy(p) /\ p /= "handle"
        <4>1. Spot(t, "close", back[t])
          BY <2>1, Zenon DEF HInv, Spots
        <4> QED BY <3>1, <4>1, Zenon DEF Spot, Inside, Before, Busy
      <3> QED BY <2>1, <2>2, <2>4, <3>1, <3>2, InsideSpot, QuietStay, Zenon
    <2> QED BY <1>3, <2>3, <2>4, Zenon DEF CloseBegin
  <1>l. CASE CloseLook(t)
    <2>1. /\ pc[t] \in Inside /\ pc[t] = "closeLook" /\ handler' = handler
          /\ UNCHANGED <<back, endpoint>>
      BY <1>l, Zenon DEF CloseLook, Inside
    <2>2. ASSUME NEW p \in {"closeEmpty", "closeFull"}, Goto(t, p) PROVE HInv'
      <3>1. t /= Sender /\ t[1] /= "caller" /\ p \in Inside /\ Busy(p) /\ p /= "handle"
        <4>1. Spot(t, "closeLook", back[t])
          BY <2>1, Zenon DEF HInv, Spots
        <4> QED BY <4>1, Zenon DEF Spot, Inside, Before, Busy
      <3>2. SameHold(endpoint, endpoint')
        BY <1>e, <2>1, Zenon
      <3> QED BY <2>1, <2>2, <3>1, <3>2, InsideSpot, QuietStay, Zenon
    <2> QED BY <1>l, <2>2, Zenon DEF CloseLook
  <1>4. CASE CloseEnd(t)
    <2>1. pc[t] \in Inside /\ handler' = handler
      BY <1>4, Zenon DEF CloseEnd, Inside
    <2>2. PICK e : e = [endpoint EXCEPT !.want = TRUE]
      BY Zenon
    <2>3. SameHold(endpoint, e)
      BY <1>e, <2>2, FlagSteps, Zenon
    <2>4. CASE shutdown(t, e, back[t])
      BY <2>1, <2>3, <2>4, InsideSpot, QuietShutdown, ZenonT(60)
    <2>5. CASE endpoint' = e /\ Return(t)
      BY <2>1, <2>3, <2>5, QuietReturn, Zenon
    <2> QED BY <1>4, <2>2, <2>4, <2>5, Zenon DEF CloseEnd
  <1>5. CASE SendCheck(t)
    <2>1. /\ pc[t] \in {"send", "push"} /\ UNCHANGED <<back, handler, endpoint>>
          /\ Goto(t, Unsent(t)) \/ Goto(t, "push")
      BY <1>5, Zenon DEF SendCheck
    <2>2. CASE Goto(t, Unsent(t))
      BY <1>e, <2>1, <2>2, SendSpot, QuietStay, ZenonT(60)
    <2>3. CASE Goto(t, "push")
      BY <1>e, <2>1, <2>3, SendSpot, QuietStay, Zenon
    <2> QED BY <2>1, <2>2, <2>3, Zenon
  <1>6. CASE SendPush(t)
    <2>1. /\ pc[t] \in {"send", "push"} /\ UNCHANGED <<back, handler>> /\ Goto(t, Sent(t))
      BY <1>6, Zenon DEF SendPush
    <2>2. SameHold(endpoint, endpoint')
      <3>1. PICK q : q = Append(endpoint.queue, Message(t))
        BY Zenon
      <3>2. q \in Seq(Call \cup {NoCall})
        BY <1>e, <2>1, <3>1, SendSpot, SMTT(30) DEF Endpoint
      <3>3. PICK e : e = [endpoint EXCEPT !.queue = q]
        BY Zenon
      <3>4. SameHold(endpoint, e)
        BY <1>e, <3>2, <3>3, FlagSteps, Zenon
      <3>5. PICK x \in BOOLEAN : x = (endpoint.queue = << >>)
        BY Zenon
      <3>6. endpoint' = Rearmed(e, x)
        BY <1>6, <3>1, <3>3, <3>5, Zenon DEF SendPush
      <3>7. SameHold(e, endpoint')
        BY <3>4, <3>6, FlagSteps, Zenon DEF SameHold
      <3> QED BY <3>4, <3>7, Zenon DEF SameHold
    <2> QED BY <2>1, <2>2, SendSpot, QuietStay, ZenonT(60)
  <1>7. CASE SendFull(t)
    <2>1. pc[t] \in {"send", "push"} /\ UNCHANGED handler
      BY <1>7, Zenon DEF SendFull
    <2>2. CASE Goto(t, Unsent(t)) /\ UNCHANGED <<endpoint, back>>
      BY <1>e, <2>1, <2>2, SendSpot, QuietStay, ZenonT(60)
    <2>3. CASE shutdown(t, endpoint, Unsent(t))
      BY <1>e, <2>1, <2>3, SendSpot, QuietShutdown, ZenonT(60)
    <2> QED BY <1>7, <2>2, <2>3, Zenon DEF SendFull
  <1>8. CASE TakeLocks(t)
    <2>1. /\ pc[t] = "call" /\ UNCHANGED <<endpoint, back, handler>> /\ Goto(t, "send")
      BY <1>8, Zenon DEF TakeLocks
    <2>2. Spot(t, "call", back[t])
      BY <2>1, ZenonT(60) DEF HInv, Spots
    <2>3. t[1] = "caller" /\ t \notin {Strand, Idler, Closer, Sender}
      BY <2>2, SMTT(30) DEF Spot, Inside
    <2>4. Spot(t, "send", back[t]) /\ Busy("send") /\ Busy(pc[t])
      BY <2>1, <2>3, Zenon DEF Spot, Before, Inside, Busy
    <2> QED BY <1>e, <2>1, <2>3, <2>4, QuietStay, Zenon
  <1> QED BY <1>1, <1>l, <1>2, <1>3, <1>4, <1>5, <1>6, <1>7, <1>8, Zenon

\* The beginnings of close, the callbacks of async_invoke and of a timer.
LEMMA QuietOthers ==
  ASSUME CInv, HInv,
         Idle \/ CloseConnection \/ Erase \/ (\E c \in Call : Error(c) \/ TimedOut(c))
  PROVE  HInv'
  <1> USE ThreadsDiffer, ThreadKinds
  <1>e. endpoint \in Endpoint /\ SameHold(endpoint, endpoint)
    BY Zenon DEF HInv, SameHold
  <1>1. CASE Idle
    <2>1. SameHold(endpoint, endpoint')
      BY <1>1, <1>e, FlagSteps, Zenon DEF Idle
    <2>2. QuietStep(Idler, "close", "idle")
      BY <1>1, <2>1, Zenon DEF Idle, Enter, QuietStep, Spot, Inside
    <2> QED BY <2>2, QuietKeeps, Zenon
  <1>2. CASE CloseConnection
    <2>1. CASE Enter(Closer, "close", "erase")
      <3>1. QuietStep(Closer, "close", "erase")
        BY <1>2, <1>e, <2>1, Zenon DEF CloseConnection, Enter, QuietStep, Spot, Inside
      <3> QED BY <3>1, QuietKeeps, Zenon
    <2>2. CASE Goto(Closer, "done") /\ UNCHANGED back
      <3>1. Spot(Closer, "done", back[Closer])
        BY Zenon DEF Spot, Inside
      <3> QED BY <1>2, <1>e, <2>2, <3>1, QuietStay, Zenon DEF CloseConnection
    <2> QED BY <1>2, <2>1, <2>2, Zenon DEF CloseConnection
  <1>3. CASE Erase
    <2>1. SameHold(endpoint, endpoint')
      BY <1>3, <1>e, FlagSteps, ZenonT(60) DEF Erase
    <2>2. Spot(Closer, "done", back[Closer])
      BY DEF Spot, Inside
    <2> QED BY <1>3, <2>1, <2>2, QuietStay, Zenon DEF Erase
  <1>4. ASSUME NEW c \in Call, Error(c) PROVE HInv'
    <2>1. /\ Spot(Caller(c), "finish", back[Caller(c)])
          /\ Busy("finish") /\ Busy(pc[Caller(c)])
      BY <1>4, Zenon DEF Error, Spot, Inside, Busy
    <2> QED BY <1>4, <1>e, <2>1, QuietStay, Zenon DEF Error
  <1>5. ASSUME NEW c \in Call, TimedOut(c) PROVE HInv'
    <2>1. QuietStep(Timer(c), "close", "finish")
      BY <1>5, <1>e, Zenon DEF TimedOut, Enter, QuietStep, Spot, Inside, Busy
    <2> QED BY <2>1, QuietKeeps, Zenon
  <1> QED BY <1>1, <1>2, <1>3, <1>4, <1>5, Zenon

\* The steps of the strand that answer no call.
LEMMA QuietStrand ==
  ASSUME CInv, HInv,
         \/ ReceiveAnswer \/ ReceiveRequest \/ ReadOn \/ Refuse \/ ReadEnd
         \/ Write \/ WriteError
  PROVE  HInv'
  <1> USE ThreadsDiffer, ThreadKinds
  <1>e. endpoint \in Endpoint /\ SameHold(endpoint, endpoint)
    BY Zenon DEF HInv, SameHold
  <1>g. ASSUME NEW p \in {"refused", "match", "send", "idle"}, pc[Strand] /= "handle",
               Goto(Strand, p), UNCHANGED <<back, handler>>, SameHold(endpoint, endpoint')
        PROVE  HInv'
    <2>1. Spot(Strand, p, back[Strand]) /\ p /= "handle"
      BY Zenon DEF Spot, Inside
    <2> QED BY <1>g, <2>1, QuietStay, Zenon
  <1>s. ASSUME NEW cond, NEW e, ShutdownIf(cond, e), pc[Strand] /= "handle",
               SameHold(endpoint, e), UNCHANGED handler
        PROVE  HInv'
    <2>1. CASE shutdown(Strand, e, "idle")
      <3>1. Spot(Strand, "idle", "idle") /\ Spot(Strand, "swap", "idle")
        BY Zenon DEF Spot, Inside
      <3> QED BY <1>s, <2>1, <3>1, QuietShutdown, Zenon
    <2>2. CASE endpoint' = e /\ Goto(Strand, "idle") /\ UNCHANGED back
      BY <1>g, <1>s, <2>2, Zenon
    <2> QED BY <1>s, <2>1, <2>2, Zenon DEF ShutdownIf
  <1>r. ASSUME NEW to \in {"match", "send"}, Receive(to) PROVE HInv'
    <2>1. /\ pc[Strand] = "idle" /\ UNCHANGED <<endpoint, back, handler>>
          /\ Goto(Strand, "refused") \/ Goto(Strand, to)
      BY <1>r, Zenon DEF Receive, CanRead
    <2> QED BY <1>e, <1>g, <2>1, Zenon
  <1>1. CASE ReceiveAnswer
    BY <1>1, <1>r, Zenon DEF ReceiveAnswer
  <1>2. CASE ReceiveRequest
    BY <1>2, <1>r, Zenon DEF ReceiveRequest
  <1>3. CASE ReadOn
    <2>1. SameHold(endpoint, endpoint')
      BY <1>3, <1>e, FlagSteps, Zenon DEF ReadOn
    <2> QED BY <1>3, <1>g, <2>1, Zenon DEF ReadOn
  <1>4. CASE Refuse
    <2>1. PICK e : e = [endpoint EXCEPT !.want = TRUE, !.reading = FALSE]
      BY Zenon
    <2>2. SameHold(endpoint, e)
      BY <1>e, <2>1, FlagSteps, Zenon
    <2> QED BY <1>4, <1>s, <2>1, <2>2, Zenon DEF Refuse
  <1>5. CASE ReadEnd
    <2>1. PICK e : e = [endpoint EXCEPT !.reading = FALSE]
      BY Zenon
    <2>2. SameHold(endpoint, e)
      BY <1>e, <2>1, FlagSteps, Zenon
    <2>3. PICK cond : ShutdownIf(cond, e) /\ pc[Strand] = "idle" /\ UNCHANGED handler
      BY <1>5, <2>1, Zenon DEF ReadEnd, CanRead
    <2> QED BY <1>s, <2>2, <2>3, Zenon
  <1>6. CASE Write
    <2>1. PICK q : q = Tail(endpoint.queue)
      BY Zenon
    <2>2. q \in Seq(Call \cup {NoCall})
      BY <1>6, <1>e, <2>1 DEF Endpoint, Write, CanWrite
    <2>3. PICK e : e = [endpoint EXCEPT !.queue = q]
      BY Zenon
    <2>4. SameHold(endpoint, e)
      BY <1>e, <2>2, <2>3, FlagSteps, Zenon
    <2>5. PICK x \in BOOLEAN : x = (q /= << >>)
      BY Zenon
    <2>6. PICK f : f = Rearmed(e, x)
      BY Zenon
    <2>7. SameHold(e, f)
      BY <2>4, <2>6, FlagSteps, ZenonT(60) DEF SameHold
    <2>8. SameHold(endpoint, f)
      BY <2>4, <2>7, Zenon DEF SameHold
    <2>9. ShutdownIf(q = << >> /\ endpoint.want, f)
      BY <1>6, <2>1, <2>3, <2>5, <2>6, Zenon DEF Write
    <2> QED BY <1>6, <1>s, <2>8, <2>9, Zenon DEF Write, CanWrite
  <1>7. CASE WriteError
    BY <1>7, <1>e, <1>s, Zenon DEF WriteError, CanWrite
  <1> QED BY <1>1, <1>2, <1>3, <1>4, <1>5, <1>6, <1>7, Zenon

(***************************************************************************)
(* Steps that take a reference, give one back or pass one on.              *)
(***************************************************************************)

\* A thread takes a reference ...
LEMMA Takes ==
  ASSUME Counted, NEW t, t \notin Holders, Holders' = Holders \cup {t},
         endpoint.life = "live", endpoint'.life = endpoint.life,
         endpoint'.refs = endpoint.refs + 1
  PROVE  Counted'
  <1>1. PICK n, S : n = endpoint.refs /\ S = Holders
    BY Zenon
  <1>2. Size(n + 1, S \cup {t})
    BY <1>1, SizeMore, Zenon DEF Counted
  <1> QED BY <1>1, <1>2, Zenon DEF Counted

\* ... and gives it back.
LEMMA GivesBack ==
  ASSUME Counted, NEW t \in Holders, Holders' = Holders \ {t},
         endpoint'.life = endpoint.life, endpoint'.refs = endpoint.refs - 1
  PROVE  Counted'
  <1>1. PICK n, S : n = endpoint.refs /\ S = Holders
    BY Zenon
  <1>2. Size(n - 1, S \ {t})
    BY <1>1, SizeLess, Zenon DEF Counted
  <1> QED BY <1>1, <1>2, Zenon DEF Counted

\* One thread moves to a place where it may be.
Jump(t, p, b) ==
    pc' = [pc EXCEPT ![t] = p] /\ back' = [back EXCEPT ![t] = b] /\ Spot(t, p, b)

\* Then every thread is where it may be.
LEMMA SpotsMove ==
  ASSUME CInv, HInv, NEW t \in Thread, NEW p, NEW b, Jump(t, p, b)
  PROVE  /\ Spots' /\ pc'[t] = p /\ back'[t] = b
         /\ \A u \in Thread : u /= t => pc'[u] = pc[u] /\ back'[u] = back[u]
  <1>1. /\ pc'[t] = p /\ back'[t] = b
        /\ \A u \in Thread : u /= t => pc'[u] = pc[u] /\ back'[u] = back[u]
    BY Zenon DEF Jump, CInv, Types
  <1>2. ASSUME NEW u \in Thread PROVE Spot(u, pc'[u], back'[u])
    BY <1>1, Zenon DEF Jump, HInv, Spots
  <1> QED BY <1>1, <1>2, Zenon DEF Spots

\* A caller or the sender finds the connection, or does not.
LEMMA FindHolds ==
  ASSUME CInv, HInv, NEW t \in Thread, NEW next,
         \/ t[1] = "caller" /\ next = "call"
         \/ t = Sender /\ next = "send",
         Find(t, next)
  PROVE  HInv'
  <1> USE ThreadsDiffer, ThreadKinds
  <1>e. endpoint \in Endpoint /\ SameHold(endpoint, endpoint)
    BY Zenon DEF HInv, SameHold
  <1>1. pc[t] = "start" /\ UNCHANGED <<back, handler>> /\ back' = [back EXCEPT ![t] = back[t]]
    BY DEF Find, CInv, Types
  <1>2. /\ Spot(t, next, back[t]) /\ Spot(t, "notFound", back[t])
        /\ Busy(next) /\ ~ Busy("start") /\ ~ Busy("notFound")
        /\ t[1] \in {"caller", "sender"} /\ t /= Strand
    BY Zenon DEF Spot, Inside, Before, Busy
  <1>3. CASE Goto(t, "notFound") /\ UNCHANGED endpoint
    BY <1>1, <1>2, <1>3, <1>e, QuietStay
  <1>4. CASE /\ endpoint.life = "live" /\ Goto(t, next)
             /\ endpoint' = [endpoint EXCEPT !.refs = @ + 1]
    <2>1. /\ endpoint' \in Endpoint /\ endpoint'.refs = endpoint.refs + 1
          /\ endpoint'.life = endpoint.life
      <3>1. PICK f : f = endpoint'
        BY Zenon
      <3>2. PICK e \in Endpoint : e = endpoint
        BY <1>e, Zenon
      <3>3. f = [e EXCEPT !.refs = @ + 1]
        BY <1>4, <3>1, <3>2, Zenon
      <3>4. f \in Endpoint /\ f.refs = e.refs + 1 /\ f.life = e.life
        BY <3>3, HoldSteps, ZenonT(60)
      <3> QED BY <3>1, <3>2, <3>4, Zenon
    <2>2. /\ Spots' /\ pc'[t] = next /\ back'[t] = back[t]
          /\ \A u \in Thread : u /= t => pc'[u] = pc[u]
      <3>1. Jump(t, next, back[t])
        BY <1>1, <1>2, <1>4, Zenon DEF Goto, Jump
      <3> QED BY <3>1, SpotsMove, SMTT(30)
    <2>3. Spent'
      BY <1>1, <1>2, <2>2 DEF HInv, Spent
    <2>4. t \notin Holders
      BY <1>1, <1>2, Zenon DEF Holders
    <2>5. Holders' = Holders \cup {t}
      <3>1. ASSUME NEW u \in Thread PROVE u \in Holders' <=> u \in Holders \/ u = t
        BY <1>1, <1>2, <2>2 DEF Holders
      <3>2. Holders' \subseteq Thread /\ Holders \subseteq Thread
        BY Zenon DEF Holders
      <3> QED BY <3>1, <3>2
    <2>6. Counted'
      BY <1>4, <2>1, <2>4, <2>5, Takes, Zenon DEF HInv
    <2> QED BY <2>1, <2>2, <2>3, <2>6, Zenon DEF HInv
  <1> QED BY <1>3, <1>4, Zenon DEF Find

\* finish_outer_call of a caller, of the sender or of a timer.
LEMMA FinishHolds ==
  ASSUME CInv, HInv, NEW t \in Thread, Finish(t)
  PROVE  HInv'
  <1> USE ThreadsDiffer, ThreadKinds
  <1>1. /\ pc[t] = "finish" /\ UNCHANGED <<back, handler>>
        /\ pc' = [pc EXCEPT ![t] = "done"] /\ back' = [back EXCEPT ![t] = back[t]]
    BY ZenonT(60) DEF Finish, Goto, CInv, Types
  <1>2. t[1] \in {"caller", "timer", "sender"} /\ t /= Strand
    <2>1. Spot(t, "finish", back[t])
      BY <1>1 DEF HInv, Spots
    <2> QED BY <2>1 DEF Spot, Inside
  <1>3. Spot(t, "done", back[t]) /\ Busy("finish") /\ ~ Busy("done")
    BY <1>2, Zenon DEF Spot, Inside, Busy
  <1>4. /\ endpoint' \in Endpoint /\ endpoint'.refs = endpoint.refs - 1
        /\ endpoint'.life = endpoint.life
    BY HoldSteps, ZenonT(60) DEF Finish, HInv
  <1>5. /\ Spots' /\ pc'[t] = "done"
        /\ \A u \in Thread : u /= t => pc'[u] = pc[u]
    <2>1. Jump(t, "done", back[t])
      BY <1>1, <1>3, Zenon DEF Jump
    <2> QED BY <2>1, SpotsMove, SMTT(30)
  <1>6. Spent'
    BY <1>1, <1>5 DEF HInv, Spent
  <1>7. t \in Holders
    BY <1>1, <1>2, <1>3, Zenon DEF Holders
  <1>8. Holders' = Holders \ {t}
    <2>1. ASSUME NEW c \in Call, t = Timer(c)
          PROVE  handler[c].timer /= "armed" /\ ~ (pc[Strand] = "handle" /\ back[Strand] = c)
      <3>1. Rights(c) /\ handler[c].timer = "expired"
        BY <1>1, <2>1, Zenon DEF CInv, HInv, Spent
      <3> QED BY <3>1, Zenon DEF Rights
    <2>2. t \notin Holders'
      BY <1>1, <1>2, <1>3, <1>5, <2>1 DEF Holders
    <2>3. ASSUME NEW u \in Thread, u /= t PROVE u \in Holders' <=> u \in Holders
      BY <1>1, <1>2, <1>5, <2>3 DEF Holders
    <2>4. Holders' \subseteq Thread /\ Holders \subseteq Thread
      BY Zenon DEF Holders
    <2> QED BY <2>2, <2>3, <2>4
  <1>9. Counted'
    BY <1>4, <1>7, <1>8, GivesBack, Zenon DEF HInv
  <1> QED BY <1>4, <1>5, <1>6, <1>9, Zenon DEF HInv

\* What the timer of one call says about its holder.
LEMMA TimerHolds ==
  ASSUME NEW c \in Call
  PROVE  Timer(c) \in Holders <=>
            \/ Busy(pc[Timer(c)]) \/ handler[c].timer = "armed"
            \/ pc[Strand] = "handle" /\ back[Strand] = c
  BY ThreadsDiffer, ZenonT(60) DEF Holders

\* The holders after a step, up to the one of c.
LEMMA OtherHolders ==
  ASSUME NEW c \in Call,
         \A u \in Thread : u /= Timer(c) /\ u[1] \in {"caller", "timer", "sender"} =>
                              (Busy(pc'[u]) <=> Busy(pc[u])),
         \A d \in Call : d /= c =>
            /\ handler'[d].timer = "armed" <=> handler[d].timer = "armed"
            /\ pc'[Strand] = "handle" /\ back'[Strand] = d
                 <=> pc[Strand] = "handle" /\ back[Strand] = d
  PROVE  /\ Timer(c) \in Holders' /\ Timer(c) \in Holders => Holders' = Holders
         /\ Timer(c) \notin Holders' /\ Timer(c) \notin Holders => Holders' = Holders
         /\ Timer(c) \in Holders' => Holders' = Holders \cup {Timer(c)}
         /\ Timer(c) \notin Holders' => Holders' = Holders \ {Timer(c)}
  <1>1. ASSUME NEW u \in Thread, u /= Timer(c) PROVE u \in Holders' <=> u \in Holders
    BY <1>1, ThreadsDiffer DEF Holders
  <1>2. Holders' \subseteq Thread /\ Holders \subseteq Thread
    BY Zenon DEF Holders
  <1> QED BY <1>1, <1>2, SMTT(30)

\* Cancel gives back the reference of a handler that it wins.
LEMMA CancelHolds ==
  ASSUME CInv, HInv, NEW t \in Thread, Cancel(t)
  PROVE  HInv'
  <1> USE ThreadsDiffer
  <1>1. list \in Seq(Call) /\ list /= << >> /\ Distinct(list)
    BY Zenon DEF Cancel, CInv, Types, Lists
  <1>2. PICK c \in Call : c = Head(list)
    BY <1>1, TailForgets, Zenon
  <1>3. PICK h : h = CancelTimer(handler[c])
    BY Zenon
  <1>4. Rights(c) /\ ~ handler[c].won
    <2>1. InSeq(c, list)
      BY <1>1, <1>2, TailForgets, Zenon
    <2> QED BY <2>1, Zenon DEF CInv, Rights
  <1>5. /\ h.won => handler[c].timer = "armed" /\ h.timer = "off"
        /\ ~ h.won => handler[c].timer /= "armed" /\ h.timer = handler[c].timer
    BY <1>3, <1>4, CancelOnce, ZenonT(60)
  <1>6. /\ handler'[c] = h /\ UNCHANGED <<pc, back>>
        /\ \A d \in Call : d /= c => handler'[d] = handler[d]
    BY <1>2, <1>3 DEF Cancel, CInv, Types
  <1>7. Spots'
    BY <1>6, ZenonT(60) DEF HInv, Spots
  <1>8. Spent'
    BY <1>5, <1>6, SMTT(30) DEF HInv, Spent
  <1>9. ~ (pc[Strand] = "handle" /\ back[Strand] = c)
    BY <1>4, Zenon DEF Rights
  <1>10. CASE h.won
    <2>1. endpoint' = Released(endpoint)
      BY <1>2, <1>6, <1>10, Zenon DEF Cancel
    <2>2. /\ endpoint' \in Endpoint /\ endpoint'.refs = endpoint.refs - 1
          /\ endpoint'.life = endpoint.life
      BY <2>1, HoldSteps, ZenonT(60) DEF HInv
    <2>3. pc[Timer(c)] = "idle" /\ ~ Busy("idle")
      BY <1>5, <1>10, Zenon DEF HInv, Spent, Busy
    <2>4. Timer(c) \in Holders
      BY <1>5, <1>10, TimerHolds, ZenonT(60)
    <2>5. Timer(c) \notin Holders'
      BY <1>5, <1>6, <1>9, <1>10, <2>3 DEF Holders
    <2>6. Holders' = Holders \ {Timer(c)}
      BY <1>6, <2>5, OtherHolders, ZenonT(60)
    <2>7. Counted'
      BY <2>2, <2>4, <2>6, GivesBack, Zenon DEF HInv
    <2> QED BY <1>7, <1>8, <2>2, <2>7, Zenon DEF HInv
  <1>11. CASE ~ h.won
    <2>1. endpoint' = endpoint
      BY <1>2, <1>6, <1>11, Zenon DEF Cancel
    <2>2. \A d \in Call : handler'[d].timer = handler[d].timer
      BY <1>5, <1>6, <1>11, ZenonT(60)
    <2>3. Holders' = Holders
      BY <1>6, <2>2 DEF Holders
    <2> QED BY <1>7, <1>8, <2>1, <2>3, Zenon DEF HInv, Counted
  <1> QED BY <1>10, <1>11, Zenon

\* The handler of a call takes a reference when it arms its timer.
LEMMA AddHolds ==
  ASSUME CInv, HInv, NEW c \in Call, Add(c)
  PROVE  HInv'
  <1> USE ThreadsDiffer
  <1> DEFINE t == Caller(c)
  <1>1. /\ pc[t] = "add" /\ pc[t] \in Before /\ t \in Thread /\ t[1] = "caller"
        /\ t /= Timer(c) /\ t /= Strand /\ t /= Idler /\ t /= Closer /\ t /= Sender
    BY ZenonT(60) DEF Add, Before
  <1>2. Rights(c) /\ handler[c] = Fresh /\ handler[c].timer = "none"
    BY <1>1, SMTT(30) DEF CInv, Rights, Fresh
  <1>3. /\ UNCHANGED back /\ back' = [back EXCEPT ![t] = back[t]]
        /\ Goto(t, IF handler'[c].timer = "armed" THEN "finish" ELSE "error")
        /\ \/ UNCHANGED <<endpoint, handler>>
           \/ /\ handler' = [handler EXCEPT ![c].timer = "armed"]
              /\ endpoint' = [endpoint EXCEPT !.refs = @ + 1]
    BY Zenon DEF Add, add_ref_and_arm, CInv, Types
  <1>4. /\ \A p \in {"error", "finish"} : Spot(t, p, back[t])
        /\ Busy("add") /\ Busy("error") /\ Busy("finish")
    BY <1>1, Zenon DEF Spot, Inside, Busy
  <1> HIDE DEF t
  <1>5. CASE UNCHANGED <<endpoint, handler>>
    <2>1. Goto(t, "error")
      BY <1>2, <1>3, <1>5, Zenon
    <2>2. SameHold(endpoint, endpoint')
      BY <1>5, Zenon DEF HInv, SameHold
    <2> QED BY <1>1, <1>3, <1>4, <1>5, <2>1, <2>2, QuietStay, Zenon
  <1>6. CASE /\ handler' = [handler EXCEPT ![c].timer = "armed"]
             /\ endpoint' = [endpoint EXCEPT !.refs = @ + 1]
    <2>1. /\ handler'[c].timer = "armed"
          /\ \A d \in Call : d /= c => handler'[d] = handler[d]
      <3>1. handler \in [Call -> Handler]
        BY Zenon DEF CInv, Types
      <3> QED BY <1>6, <3>1, SetTimer
    <2>2. /\ endpoint' \in Endpoint /\ endpoint'.refs = endpoint.refs + 1
          /\ endpoint'.life = endpoint.life
      <3>1. PICK e \in Endpoint : e = endpoint
        BY Zenon DEF HInv
      <3>2. PICK f : f = endpoint'
        BY Zenon
      <3>3. f = [e EXCEPT !.refs = @ + 1]
        BY <1>6, <3>1, <3>2, Zenon
      <3>4. f \in Endpoint /\ f.refs = e.refs + 1 /\ f.life = e.life
        BY <3>3, HoldSteps, ZenonT(60)
      <3> QED BY <3>1, <3>2, <3>4, Zenon
    <2>3. /\ Spots' /\ pc'[t] = "finish" /\ back'[t] = back[t]
          /\ \A u \in Thread : u /= t => pc'[u] = pc[u]
      <3>1. Jump(t, "finish", back[t])
        BY <1>3, <1>4, <2>1, Zenon DEF Goto, Jump
      <3> QED BY <1>1, <3>1, SpotsMove
    <2>4. pc[Timer(c)] = "idle" /\ ~ Busy(pc[Timer(c)])
      BY <1>2, ZenonT(60) DEF HInv, Spent, Busy
    <2>5. Spent'
      BY <1>1, <2>1, <2>3, <2>4, SMTT(30) DEF HInv, Spent, t
    <2>6. Timer(c) \notin Holders
      <3>1. ~ (pc[Strand] = "handle" /\ back[Strand] = c)
        BY <1>2, Zenon DEF Rights
      <3> QED BY <1>2, <2>4, <3>1, TimerHolds, Zenon
    <2>7. Timer(c) \in Holders'
      BY <2>1, Zenon DEF Holders
    <2>8. Holders' = Holders \cup {Timer(c)}
      <3>1. \A u \in Thread : Busy(pc'[u]) <=> Busy(pc[u])
        BY <1>1, <1>4, <2>3, SMTT(30)
      <3>2. pc'[Strand] = pc[Strand] /\ back' = back
        BY <1>1, <1>3, <2>3, Zenon
      <3> QED BY <2>1, <2>7, <3>1, <3>2, OtherHolders, ZenonT(60)
    <2>9. endpoint.life = "live"
      <3>1. t \in Holders
        BY <1>1, <1>4, Zenon DEF Holders
      <3> QED BY <3>1, Zenon DEF HInv, Counted
    <2>10. Counted'
      BY <2>2, <2>6, <2>8, <2>9, Takes, Zenon DEF HInv
    <2> QED BY <2>2, <2>3, <2>5, <2>10, Zenon DEF HInv
  <1> QED BY <1>3, <1>5, <1>6, Zenon

\* The expiry leaves the reference with the timer.
LEMMA ExpireHolds ==
  ASSUME CInv, HInv, NEW c \in Call, Expire(c)
  PROVE  HInv'
  <1> USE ThreadsDiffer
  <1>1. /\ handler[c].timer = "armed" /\ UNCHANGED <<endpoint, back>>
        /\ back' = [back EXCEPT ![Timer(c)] = back[Timer(c)]]
        /\ pc' = [pc EXCEPT ![Timer(c)] = "timeout"]
    BY Zenon DEF Expire, Goto, CInv, Types
  <1>2. /\ handler'[c].timer = "expired"
        /\ \A d \in Call : d /= c => handler'[d] = handler[d]
    <2>1. handler' = [handler EXCEPT ![c].timer = "expired"] /\ handler \in [Call -> Handler]
      BY Zenon DEF CInv, Types, Expire
    <2> QED BY <2>1, SetTimer
  <1>3. Spot(Timer(c), "timeout", back[Timer(c)])
    BY Zenon DEF Spot, Inside
  <1>4. /\ Spots' /\ pc'[Timer(c)] = "timeout"
        /\ \A u \in Thread : u /= Timer(c) => pc'[u] = pc[u]
    <2>1. Jump(Timer(c), "timeout", back[Timer(c)])
      BY <1>1, <1>3, Zenon DEF Jump
    <2> QED BY <2>1, SpotsMove, SMTT(30)
  <1>5. Spent'
    BY <1>2, <1>4 DEF HInv, Spent
  <1>6. Timer(c) \in Holders
    BY <1>1, TimerHolds, Zenon
  <1>7. Timer(c) \in Holders'
    BY <1>4, Zenon DEF Holders, Busy
  <1>8. Holders' = Holders
    BY <1>1, <1>2, <1>4, <1>6, <1>7, OtherHolders
  <1> QED BY <1>1, <1>4, <1>5, <1>8, Zenon DEF HInv, Counted

\* Match passes the reference of the handler it wins to Handle ...
LEMMA MatchHolds ==
  ASSUME CInv, HInv, Match
  PROVE  HInv'
  <1> USE ThreadsDiffer
  <1>e. endpoint' = endpoint /\ SameHold(endpoint, endpoint') /\ pc[Strand] = "match"
    BY Zenon DEF Match, HInv, SameHold
  <1>s. /\ Spot(Strand, "refused", back[Strand]) /\ Spot(Strand, "readOn", back[Strand])
        /\ \A b : Spot(Strand, "handle", b)
    BY ThreadKinds, Zenon DEF Spot, Inside
  <1>1. CASE handlers = << >>
    <2>1. /\ UNCHANGED <<handler, back>>
          /\ Goto(Strand, "refused") \/ Goto(Strand, "readOn")
      BY <1>1, Zenon DEF Match
    <2>2. CASE Goto(Strand, "refused")
      BY <1>e, <1>s, <2>1, <2>2, ThreadKinds, QuietStay, Zenon
    <2>3. CASE Goto(Strand, "readOn")
      BY <1>e, <1>s, <2>1, <2>3, ThreadKinds, QuietStay, ZenonT(60)
    <2> QED BY <2>1, <2>2, <2>3, Zenon
  <1>2. CASE handlers /= << >>
    <2>a. PICK c \in Call : c = Head(handlers) /\ InSeq(c, handlers)
      BY <1>2, TailForgets, Zenon DEF CInv, Types, Lists
    <2>h. PICK h : h = CancelTimer(handler[c])
      BY Zenon
    <2>1. Rights(c) /\ ~ handler[c].won
      BY <2>a, ZenonT(60) DEF CInv, Rights
    <2>2. /\ handler'[c] = h
          /\ \A d \in Call : d /= c => handler'[d] = handler[d]
          /\ \/ h.won /\ Enter(Strand, "handle", c)
             \/ ~ h.won /\ Goto(Strand, "readOn") /\ UNCHANGED back
      BY <1>2, <2>a, <2>h DEF Match, CInv, Types
    <2>3. /\ h.won => handler[c].timer = "armed" /\ h.timer = "off"
          /\ ~ h.won => handler[c].timer /= "armed" /\ h.timer = handler[c].timer
      BY <2>h, <2>1, CancelOnce, Zenon
    <2>4. PICK p, b : /\ Jump(Strand, p, b)
                      /\ h.won => p = "handle" /\ b = c
                      /\ ~ h.won => p = "readOn"
      <3>1. CASE h.won
        <4>1. Jump(Strand, "handle", c)
          BY <1>s, <2>2, <3>1, Zenon DEF Jump, Enter
        <4> QED BY <3>1, <4>1, Zenon
      <3>2. CASE ~ h.won
        <4>1. back' = [back EXCEPT ![Strand] = back[Strand]]
          BY <2>2, <3>2, ZenonT(60) DEF CInv, Types
        <4>2. Jump(Strand, "readOn", back[Strand])
          BY <1>s, <2>2, <3>2, <4>1, Zenon DEF Jump, Goto
        <4> QED BY <3>2, <4>2, Zenon
      <3> QED BY <3>1, <3>2, Zenon
    <2>5. /\ Spots' /\ pc'[Strand] = p /\ back'[Strand] = b
          /\ \A u \in Thread : u /= Strand => pc'[u] = pc[u]
      BY <2>4, SpotsMove
    <2>6. Spent'
      BY <2>2, <2>3, <2>5, SMTT(30) DEF HInv, Spent
    <2>7. \A u \in Thread : u[1] \in {"caller", "timer", "sender"} => pc'[u] = pc[u]
      BY <2>5, ThreadKinds, Zenon
    <2>8. \A d \in Call : d /= c =>
             /\ ~ (pc'[Strand] = "handle" /\ back'[Strand] = d)
             /\ ~ (pc[Strand] = "handle" /\ back[Strand] = d)
      BY <1>e, <2>4, <2>5, Zenon
    <2>9. Timer(c) \in Holders <=> Timer(c) \in Holders'
      <3>1. CASE h.won
        <4>1. Timer(c) \in Holders
          BY <2>3, <3>1, TimerHolds, Zenon
        <4>2. Timer(c) \in Holders'
          BY <2>4, <2>5, <3>1, ZenonT(60) DEF Holders
        <4> QED BY <4>1, <4>2, Zenon
      <3>2. CASE ~ h.won
        <4>1. /\ handler'[c].timer /= "armed" /\ handler[c].timer /= "armed"
              /\ pc'[Timer(c)] = pc[Timer(c)]
              /\ pc'[Strand] /= "handle" /\ pc[Strand] /= "handle"
          BY <1>e, <2>2, <2>3, <2>4, <2>5, <3>2, Zenon
        <4> QED BY <4>1, SMTT(30) DEF Holders
      <3> QED BY <3>1, <3>2, Zenon
    <2>10. Holders' = Holders
      BY <2>2, <2>7, <2>8, <2>9, OtherHolders, ZenonT(60)
    <2> QED BY <1>e, <2>5, <2>6, <2>10, Zenon DEF HInv, Counted
  <1> QED BY <1>1, <1>2, Zenon

\* ... which gives it back.
LEMMA HandleHolds ==
  ASSUME CInv, HInv, Handle
  PROVE  HInv'
  <1> USE ThreadsDiffer
  <1>1. PICK c \in Call : c = back[Strand]
    BY Zenon DEF CInv, Handle
  <1>2. pc[Strand] = "handle" /\ Rights(c) /\ handler' = handler
    BY Zenon DEF CInv, Handle
  <1>3. handler[c].timer = "off"
    BY <1>1, <1>2, Zenon DEF Rights
  <1>4. /\ Spots' /\ pc'[Strand] = "readOn"
        /\ \A u \in Thread : u /= Strand => pc'[u] = pc[u]
    <2>1. Jump(Strand, "readOn", "idle")
      BY ThreadKinds, Zenon DEF Handle, Enter, Jump, Spot, Inside
    <2> QED BY <2>1, SpotsMove
  <1>5. Spent'
    BY <1>2, <1>4, SMTT(30) DEF HInv, Spent
  <1>6. /\ endpoint' \in Endpoint /\ endpoint'.refs = endpoint.refs - 1
        /\ endpoint'.life = endpoint.life
    BY HoldSteps, ZenonT(60) DEF Handle, HInv
  <1>7. Timer(c) \in Holders
    BY <1>1, <1>2, TimerHolds, Zenon
  <1>8. Timer(c) \notin Holders'
    <2>1. pc'[Timer(c)] = "idle" /\ ~ Busy("idle")
      BY <1>3, <1>4, ZenonT(60) DEF HInv, Spent, Busy
    <2> QED BY <1>2, <1>3, <1>4, <2>1, Zenon DEF Holders
  <1>9. Holders' = Holders \ {Timer(c)}
    <2>1. \A u \in Thread : u[1] \in {"caller", "timer", "sender"} => pc'[u] = pc[u]
      BY <1>4, ThreadKinds, Zenon
    <2> QED BY <1>1, <1>2, <1>4, <1>8, <2>1, OtherHolders, ZenonT(60)
  <1>10. Counted'
    BY <1>6, <1>7, <1>9, GivesBack, Zenon DEF HInv
  <1> QED BY <1>4, <1>5, <1>6, <1>10, Zenon DEF HInv

\* Without a reference nobody holds the object that dies.
LEMMA EndHolds ==
  ASSUME CInv, HInv, Die \/ Delete \/ UNCHANGED vars
  PROVE  HInv'
  <1>1. UNCHANGED <<pc, back, handler>>
    BY Zenon DEF Die, Delete, vars
  <1>2. Spots' /\ Spent' /\ Holders' = Holders
    BY <1>1, Zenon DEF HInv, Spots, Spent, Holders
  <1>3. endpoint' \in Endpoint /\ endpoint'.refs = endpoint.refs
    BY HoldSteps, Zenon DEF Die, Delete, vars, HInv
  <1>4. endpoint'.life /= "live" => Holders = {}
    <2>1. CASE Die
      BY <2>1, SizeZero, Zenon DEF Die, HInv, Counted
    <2>2. CASE Delete \/ UNCHANGED vars
      BY <2>2, Zenon DEF Delete, vars, HInv, Counted
    <2> QED BY <2>1, <2>2, Zenon
  <1> QED BY <1>2, <1>3, <1>4, Zenon DEF HInv, Counted

\* At first there is no holder.
LEMMA InitHInv ==
  Init => HInv
  <1> SUFFICES ASSUME Init PROVE HInv
    OBVIOUS
  <1> USE ThreadsDiffer, ThreadKinds
  <1>1. endpoint \in Endpoint /\ endpoint.refs = 0 /\ endpoint.life = "live"
    BY DEF Init, Endpoint
  <1>2. /\ \A t \in Thread : pc[t] \in {"start", "idle", "done"}
        /\ \A c \in Call : pc[Timer(c)] = "idle" /\ pc[Caller(c)] \in {"start", "idle"}
        /\ pc[Strand] = "idle" /\ pc[Idler] \in {"idle", "done"}
        /\ pc[Closer] \in {"idle", "start"} /\ pc[Sender] \in {"idle", "start"}
    BY DEF Init
  <1>3. \A c \in Call : handler[c].timer = "none"
    BY Zenon DEF Init
  <1>4. Spots
    <2>1. ASSUME NEW t \in Thread PROVE Spot(t, pc[t], back[t])
      BY <1>2 DEF Spot, Inside, Before
    <2> QED BY <2>1, ZenonT(60) DEF Spots
  <1>5. Spent
    BY <1>2, Zenon DEF Spent
  <1>6. Holders = {}
    BY <1>2, <1>3, Zenon DEF Holders, Busy
  <1> QED BY <1>1, <1>4, <1>5, <1>6, SizeZero, Zenon DEF HInv, Counted

\* Every action, by the lemma about it.
LEMMA NextHInv ==
  CInv /\ HInv /\ [Next]_vars => HInv'
  <1> SUFFICES ASSUME CInv, HInv, [Next]_vars PROVE HInv'
    BY Zenon
  <1>1. ASSUME NEW t \in Thread, Subroutine(t) PROVE HInv'
    BY <1>1, QuietSubroutines, CancelHolds, FinishHolds, Zenon DEF Subroutine
  <1>2. ASSUME NEW c \in Call, OfCall(c) \/ Expire(c) PROVE HInv'
    BY <1>2, AddHolds, ExpireHolds, QuietOthers, Zenon DEF OfCall
  <1>3. ASSUME NEW c \in Call, Find(Caller(c), "call") PROVE HInv'
    BY <1>3, FindHolds, ThreadsDiffer, Zenon
  <1>4. CASE Find(Sender, "send")
    BY <1>4, FindHolds, ThreadsDiffer, Zenon
  <1>5. CASE CloseConnection \/ Erase \/ Idle
    BY <1>5, QuietOthers, Zenon
  <1>6. CASE OfStrand
    BY <1>6, MatchHolds, HandleHolds, QuietStrand, Zenon DEF OfStrand
  <1>7. CASE ReceiveAnswer \/ ReceiveRequest \/ ReadEnd \/ Write \/ WriteError
    BY <1>7, QuietStrand, Zenon
  <1>8. CASE Die \/ Delete \/ UNCHANGED vars
    BY <1>8, EndHolds, Zenon
  <1> QED BY <1>1, <1>2, <1>3, <1>4, <1>5, <1>6, <1>7, <1>8, ZenonT(60) DEF Next

\* start_outer_call and finish_outer_call keep count: an endpoint whose count
\* is zero, and which may so be deleted, has no caller inside, no handler with
\* an armed timer and no timer whose handler runs, on every path that closes
\* or shuts it down and for any number of calls.
THEOREM HolderKeepsEndpoint ==
  Spec => []HeldWhileUsed
  <1>1. HInv => HeldWhileUsed
    <2> SUFFICES ASSUME HInv, endpoint.life /= "live"
                 PROVE  /\ \A c \in Call : /\ pc[Caller(c)] \in Outside
                                           /\ pc[Timer(c)] \in Outside
                                           /\ handler[c].timer /= "armed"
                        /\ pc[Sender] \in Outside
      BY Zenon DEF HeldWhileUsed
    <2>1. Holders = {}
      BY Zenon DEF HInv, Counted
    <2>2. ASSUME NEW t \in Thread, t[1] \in {"caller", "timer", "sender"}
          PROVE  pc[t] \in Outside
      BY <2>1, <2>2, Zenon DEF Holders, Busy, Outside
    <2>3. ASSUME NEW c \in Call PROVE handler[c].timer /= "armed"
      BY <2>1, TimerHolds, Zenon
    <2> QED BY <2>2, <2>3, ThreadsDiffer, ThreadKinds
  <1> QED BY <1>1, InitCInv, NextCInv, InitHInv, NextHInv, PTL DEF Spec

----------------------------------------------------------------------------
(***************************************************************************)
(* No callback is given the answer to another call.                        *)
(*                                                                         *)
(* An answer carries no number: the strand gives it to the first handler   *)
(* of the list.  The invariant, Line, is that the handlers are in step     *)
(* with the requests on the way, to the peer or back, unless no answer is  *)
(* matched to a handler any more (Astray).  A request is queued before its *)
(* handler is added, but the lock of the handlers is held from the one to  *)
(* the other, so that only the last request can be without its handler.    *)
(***************************************************************************)

Precedes(c, d, s) == \E i, j \in 1 .. Len(s) : i < j /\ s[i] = c /\ s[j] = d

\* The answer that the strand is about to match.
Current == IF pc[Strand] = "match" THEN peer.answer ELSE NoCall

\* The requests on the way: the one answered now, those the peer has been
\* sent, and those in the queue, in this order.
Waits(c) == c = Current \/ InSeq(c, peer.asked) \/ InSeq(c, endpoint.queue)

Ahead(c, d) ==
    \/ c = Current /\ (InSeq(d, peer.asked) \/ InSeq(d, endpoint.queue))
    \/ InSeq(c, peer.asked) /\ InSeq(d, endpoint.queue)
    \/ Precedes(c, d, peer.asked) \/ Precedes(c, d, endpoint.queue)

\* A caller that has not put its request on the way, and one with
\* m_invoke_response_handlers_lock.
Unasked == {"idle", "start", "notFound", "call", "send", "push"}

Holding == {"send", "push", "add"}

Once ==
    \A c \in Call : /\ ~ Ahead(c, c)
                    /\ pc[Caller(c)] \in Unasked => ~ Waits(c)

Owners == \A c \in Call : pc[Caller(c)] \in Holding => lock["handlers"] = {Caller(c)}

\* No answer is matched to a handler any more: they have been released, the
\* reads refuse everything, or the first one cannot be won.
Astray ==
    \/ endpoint.released
    \/ endpoint.called /\ pc[Strand] /= "match"
    \/ handlers /= << >> /\ handler[Head(handlers)].timer /= "armed"

\* Otherwise the handlers are those of the requests on the way, in the same
\* order; only the last request may still be without.
InStep ==
    /\ \A i \in 1 .. Len(handlers) : Waits(handlers[i])
    /\ \A i, j \in 1 .. Len(handlers) : i < j => Ahead(handlers[i], handlers[j])
    /\ \A c \in Call : Waits(c) => InSeq(c, handlers) \/ pc[Caller(c)] = "add"
    /\ \A c \in Call : pc[Caller(c)] = "add" =>
          Waits(c) /\ \A d \in Call : Waits(d) /\ d /= c => Ahead(d, c)

Peer == [asked : Seq(Call), answer : Call \cup {NoCall}, requests : Int]

Line ==
    /\ peer \in Peer
    /\ lock \in [{"connects", "call", "handlers", "queue"} -> SUBSET Thread]
    /\ Once /\ Owners
    /\ ~ Astray => InStep
    /\ endpoint.released => handlers = << >>
    /\ pc[Strand] = "match" => peer.answer \in Call
    /\ pc[Strand] = "handle" => back[Strand] = peer.answer

\* Who is in a sequence, and in which order, when the first is taken out ...
LEMMA TailOrder ==
  ASSUME NEW X, NEW s \in Seq(X), s /= << >>
  PROVE  /\ Tail(s) \in Seq(X) /\ Head(s) \in X
         /\ \A c : InSeq(c, s) <=> c = Head(s) \/ InSeq(c, Tail(s))
         /\ \A c, d : Precedes(c, d, s) <=> \/ c = Head(s) /\ InSeq(d, Tail(s))
                                            \/ Precedes(c, d, Tail(s))
  <1>1. /\ Tail(s) \in Seq(X) /\ Head(s) = s[1] /\ Len(s) \in Nat \ {0}
        /\ Len(Tail(s)) = Len(s) - 1
        /\ \A i \in 1 .. Len(Tail(s)) : Tail(s)[i] = s[i + 1]
    OBVIOUS
  <1>2. PICK r : r = Tail(s)
    BY Zenon
  <1>3. /\ \A i \in 1 .. Len(r) : i + 1 \in 1 .. Len(s) /\ i + 1 > 1 /\ r[i] = s[i + 1]
        /\ \A i \in 1 .. Len(s) : i = 1 \/ (i - 1 \in 1 .. Len(r) /\ r[i - 1] = s[i])
        /\ 1 \in 1 .. Len(s) /\ Head(s) \in X
    BY <1>1, <1>2
  <1>4. ASSUME NEW c PROVE InSeq(c, s) <=> c = Head(s) \/ InSeq(c, r)
    BY <1>1, <1>3 DEF InSeq
  <1>5. ASSUME NEW c, NEW d, Precedes(c, d, s)
        PROVE  (c = Head(s) /\ InSeq(d, r)) \/ Precedes(c, d, r)
    <2>1. PICK i, j \in 1 .. Len(s) : i < j /\ s[i] = c /\ s[j] = d
      BY <1>5, Zenon DEF Precedes
    <2>2. j - 1 \in 1 .. Len(r) /\ r[j - 1] = d
      BY <1>1, <1>3, <2>1
    <2>3. CASE i = 1
      BY <1>1, <2>1, <2>2, <2>3, Zenon DEF InSeq
    <2>4. CASE i /= 1
      <3>1. i - 1 \in 1 .. Len(r) /\ r[i - 1] = c /\ i - 1 < j - 1
        BY <1>1, <1>3, <2>1, <2>4
      <3> QED BY <2>2, <3>1, Zenon DEF Precedes
    <2> QED BY <2>3, <2>4, Zenon
  <1>6. ASSUME NEW c, NEW d, (c = Head(s) /\ InSeq(d, r)) \/ Precedes(c, d, r)
        PROVE  Precedes(c, d, s)
    <2>1. CASE c = Head(s) /\ InSeq(d, r)
      <3>1. PICK j \in 1 .. Len(r) : r[j] = d
        BY <2>1, Zenon DEF InSeq
      <3>2. j + 1 \in 1 .. Len(s) /\ 1 < j + 1 /\ s[j + 1] = d /\ s[1] = c
        BY <1>1, <1>3, <2>1, <3>1, Zenon
      <3> QED BY <1>3, <3>2, Zenon DEF Precedes
    <2>2. CASE Precedes(c, d, r)
      <3>1. PICK i, j \in 1 .. Len(r) : i < j /\ r[i] = c /\ r[j] = d
        BY <2>2, Zenon DEF Precedes
      <3>2. /\ i + 1 \in 1 .. Len(s) /\ j + 1 \in 1 .. Len(s) /\ i + 1 < j + 1
            /\ s[i + 1] = c /\ s[j + 1] = d
        BY <1>1, <1>2, <1>3, <3>1
      <3> QED BY <3>2, Zenon DEF Precedes
    <2> QED BY <1>6, <2>1, <2>2, Zenon
  <1> QED BY <1>1, <1>2, <1>3, <1>4, <1>5, <1>6, Zenon

\* ... and when one is appended.
LEMMA AppendOrder ==
  ASSUME NEW X, NEW s \in Seq(X), NEW x \in X
  PROVE  /\ Append(s, x) \in Seq(X)
         /\ \A c : InSeq(c, Append(s, x)) <=> InSeq(c, s) \/ c = x
         /\ \A c, d : Precedes(c, d, Append(s, x)) <=> \/ Precedes(c, d, s)
                                                       \/ InSeq(c, s) /\ d = x
  <1>1. /\ Append(s, x) \in Seq(X) /\ Len(s) \in Nat /\ Len(Append(s, x)) = Len(s) + 1
        /\ \A i \in 1 .. Len(s) : Append(s, x)[i] = s[i]
        /\ Append(s, x)[Len(s) + 1] = x
    OBVIOUS
  <1>2. PICK r : r = Append(s, x)
    BY Zenon
  <1>3. /\ \A i \in 1 .. Len(s) : i \in 1 .. Len(r) /\ r[i] = s[i] /\ i < Len(s) + 1
        /\ \A i \in 1 .. Len(r) : i \in 1 .. Len(s) \/ i = Len(s) + 1
        /\ Len(s) + 1 \in 1 .. Len(r) /\ r[Len(s) + 1] = x
    BY <1>1, <1>2
  <1>4. ASSUME NEW c PROVE InSeq(c, r) <=> InSeq(c, s) \/ c = x
    BY <1>3, Zenon DEF InSeq
  <1>5. ASSUME NEW c, NEW d, Precedes(c, d, r)
        PROVE  Precedes(c, d, s) \/ (InSeq(c, s) /\ d = x)
    <2>1. PICK i, j \in 1 .. Len(r) : i < j /\ r[i] = c /\ r[j] = d
      BY <1>5, Zenon DEF Precedes
    <2>2. i \in 1 .. Len(s) /\ s[i] = c
      BY <1>1, <1>2, <1>3, <2>1
    <2>3. CASE j = Len(s) + 1
      BY <1>3, <2>1, <2>2, <2>3, ZenonT(60) DEF InSeq
    <2>4. CASE j \in 1 .. Len(s)
      BY <1>3, <2>1, <2>2, <2>4, Zenon DEF Precedes
    <2> QED BY <1>3, <2>3, <2>4, Zenon
  <1>6. ASSUME NEW c, NEW d, Precedes(c, d, s) \/ (InSeq(c, s) /\ d = x)
        PROVE  Precedes(c, d, r)
    BY <1>3, <1>6, Zenon DEF Precedes, InSeq
  <1> QED BY <1>1, <1>2, <1>4, <1>5, <1>6

(***************************************************************************)
(* Steps that leave the requests and the handlers alone.                   *)
(***************************************************************************)

\* f is e with other flags; reads that refuse go on refusing.
SameLine(e, f) ==
    f.queue = e.queue /\ f.released = e.released /\ (e.called => f.called)

\* The flags that the actions set.
LEMMA FlagLines ==
  ASSUME NEW e \in Endpoint
  PROVE  /\ SameLine(e, e)
         /\ SameLine(e, [e EXCEPT !.want = TRUE])
         /\ SameLine(e, [e EXCEPT !.reading = FALSE])
         /\ SameLine(e, [e EXCEPT !.want = TRUE, !.reading = FALSE])
         /\ SameLine(e, [e EXCEPT !.registered = FALSE])
         /\ SameLine(e, [e EXCEPT !.life = "gone", !.registered = FALSE])
         /\ SameLine(e, [e EXCEPT !.idle = FALSE])
         /\ SameLine(e, [e EXCEPT !.refs = @ + 1])
         /\ SameLine(e, Released(e))
         /\ SameLine(e, [e EXCEPT !.shut = TRUE, !.idle = e.idle /\ e.shut])
         /\ \A x \in BOOLEAN : SameLine(e, [e EXCEPT !.idle = FALSE, !.called = @ \/ x])
         /\ \A x \in BOOLEAN : SameLine(e, Rearmed(e, x))
  BY Zenon DEF Endpoint, SameLine, Rearmed, Released

OwnersStay ==
    /\ lock' \in [{"connects", "call", "handlers", "queue"} -> SUBSET Thread]
    /\ Owners'

\* What every step has to keep beside Once and InStep.
Aside ==
    /\ peer' \in Peer /\ OwnersStay
    /\ (endpoint.released => handlers = << >>)'
    /\ (pc[Strand] = "match" => peer.answer \in Call)'
    /\ (pc[Strand] = "handle" => back[Strand] = peer.answer)'
    /\ \A c \in Call : pc'[Caller(c)] \in Unasked => pc[Caller(c)] \in Unasked

\* A step that keeps the requests on the way in their order and the handlers,
LEMMA SameKeeps ==
  ASSUME Line, Aside, handlers' = handlers, Astray => Astray',
         handlers \in Seq(Call),
         \A c \in Call : Waits(c)' <=> Waits(c),
         \A c, d \in Call : Ahead(c, d)' <=> Ahead(c, d),
         \A c \in Call : pc'[Caller(c)] = "add" <=> pc[Caller(c)] = "add"
  PROVE  Line'
  <1>1. Once'
    BY Zenon DEF Line, Once, Aside
  <1>2. ASSUME InStep PROVE InStep'
    <2>1. \A i \in 1 .. Len(handlers) : handlers[i] \in Call
      OBVIOUS
    <2>2. \A c : InSeq(c, handlers)' <=> InSeq(c, handlers)
      BY Zenon DEF InSeq
    <2> QED BY <1>2, <2>1, <2>2, Zenon DEF InStep
  <1> QED BY <1>1, <1>2, Zenon DEF Line, Aside, OwnersStay

\* and one after which nothing is matched any more.
LEMMA AstrayKeeps ==
  ASSUME Line, Aside, Astray',
         \A c \in Call : Waits(c)' => Waits(c),
         \A c \in Call : Ahead(c, c)' => Ahead(c, c)
  PROVE  Line'
  <1>1. Once'
    BY Zenon DEF Line, Once, Aside
  <1> QED BY <1>1, Zenon DEF Line, Aside, OwnersStay

\* Where a step may take the thread t without a request or an answer.
Calm(t, p) ==
    /\ pc' = [pc EXCEPT ![t] = p]
    /\ t[1] = "caller" => /\ p \in Unasked => pc[t] \in Unasked
                          /\ p /= "add" /\ pc[t] /= "add"
    /\ t = Strand => pc[t] /= "match" /\ p \notin {"match", "handle"}
    /\ t /= Strand => peer' = peer /\ back'[Strand] = back[Strand]
    /\ peer' \in Peer /\ peer'.asked = peer.asked
    /\ SameLine(endpoint, endpoint') /\ handlers' = handlers
    /\ \A c \in Call : handler'[c].timer = "armed" => handler[c].timer = "armed"

\* Such a step keeps the requests and the handlers in step.
LEMMA CalmKeeps ==
  ASSUME CInv, Line, NEW t \in Thread, NEW p, Calm(t, p), OwnersStay
  PROVE  Line'
  <1> USE ThreadsDiffer
  <1>1. /\ pc'[t] = p
        /\ \A u \in Thread : u /= t => pc'[u] = pc[u]
    BY Zenon DEF Calm, CInv, Types
  <1>2. Current' = Current /\ (pc'[Strand] = "match" <=> pc[Strand] = "match")
    BY <1>1 DEF Calm, Current
  <1>3. /\ \A c : Waits(c)' <=> Waits(c)
        /\ \A c, d : Ahead(c, d)' <=> Ahead(c, d)
    <2>1. peer'.asked = peer.asked /\ endpoint'.queue = endpoint.queue
      BY Zenon DEF Calm, SameLine
    <2> QED BY <1>2, <2>1, Zenon DEF Waits, Ahead
  <1>4. \A c \in Call : /\ pc'[Caller(c)] = "add" <=> pc[Caller(c)] = "add"
                        /\ pc'[Caller(c)] \in Unasked => pc[Caller(c)] \in Unasked
    BY <1>1 DEF Calm
  <1>5. Astray => Astray'
    <2>1. /\ endpoint'.released = endpoint.released /\ (endpoint.called => endpoint'.called)
          /\ handlers' = handlers
          /\ \A c \in Call : handler'[c].timer = "armed" => handler[c].timer = "armed"
      BY Zenon DEF Calm, SameLine
    <2>2. handlers /= << >> => Head(handlers) \in Call
      BY TailForgets, Zenon DEF CInv, Types, Lists
    <2> QED BY <1>2, <2>1, <2>2, Zenon DEF Astray
  <1>6. Aside
    <2>1. (endpoint.released => handlers = << >>)'
      BY ZenonT(60) DEF Calm, SameLine, Line
    <2>2. /\ (pc[Strand] = "match" => peer.answer \in Call)'
          /\ (pc[Strand] = "handle" => back[Strand] = peer.answer)'
      BY <1>1 DEF Calm, Line
    <2> QED BY <1>4, <2>1, <2>2, Zenon DEF Aside, Calm
  <1>7. handlers' = handlers /\ handlers \in Seq(Call)
    BY Zenon DEF Calm, CInv, Types
  <1> QED BY <1>3, <1>4, <1>5, <1>6, <1>7, SameKeeps, ZenonT(60)

\* The locks, when the handlers lock is not touched and nobody gets to where
\* it is needed ...
LEMMA LockStays ==
  ASSUME CInv, Line, NEW t \in Thread, NEW p, pc' = [pc EXCEPT ![t] = p],
         t[1] = "caller" /\ p \in Holding => pc[t] \in Holding,
         \/ lock' = lock
         \/ \E l \in {"connects", "queue"} : \E S \in SUBSET Thread :
               lock' = [lock EXCEPT ![l] = S]
  PROVE  OwnersStay
  <1> USE ThreadsDiffer
  <1>1. /\ lock' \in [{"connects", "call", "handlers", "queue"} -> SUBSET Thread]
        /\ lock'["handlers"] = lock["handlers"]
    BY DEF Line
  <1>2. \A c \in Call : pc'[Caller(c)] \in Holding => pc[Caller(c)] \in Holding
    BY DEF CInv, Types
  <1> QED BY <1>1, <1>2, ZenonT(60) DEF OwnersStay, Line, Owners

\* ... and when a thread gives up all of its own.
LEMMA UnlockStays ==
  ASSUME CInv, Line, NEW t \in Thread, NEW p, pc' = [pc EXCEPT ![t] = p],
         p \notin Holding, lock' = Unlocked(t)
  PROVE  OwnersStay
  <1> USE ThreadsDiffer
  <1>1. /\ lock' \in [{"connects", "call", "handlers", "queue"} -> SUBSET Thread]
        /\ lock'["handlers"] = lock["handlers"] \ {t}
    BY ZenonT(60) DEF Line, Unlocked
  <1>2. \A c \in Call : pc'[Caller(c)] \in Holding => pc[Caller(c)] \in Holding /\ Caller(c) /= t
    BY Zenon DEF CInv, Types
  <1> QED BY <1>1, <1>2 DEF OwnersStay, Line, Owners

\* A calm step of t to p, with the locks unchanged but for the one of the queue.
CalmFrom(t, p) ==
    /\ t[1] = "caller" => /\ p \notin Unasked \/ pc[t] \in Unasked
                          /\ p \notin Holding \/ pc[t] \in Holding
                          /\ p /= "add" /\ pc[t] /= "add"
    /\ t = Strand => pc[t] /= "match" /\ p \notin {"match", "handle"}

\* A thread that moves so, and nothing else of the line changes.
LEMMA CalmMove ==
  ASSUME CInv, HInv, Line, NEW t \in Thread, NEW p, pc' = [pc EXCEPT ![t] = p],
         CalmFrom(t, p), t = Strand \/ back'[Strand] = back[Strand],
         UNCHANGED <<handlers, handler, peer>>, SameLine(endpoint, endpoint'),
         \/ lock' = lock
         \/ \E l \in {"connects", "queue"} : \E S \in SUBSET Thread :
               lock' = [lock EXCEPT ![l] = S]
  PROVE  Line'
  <1>1. Calm(t, p)
    BY Zenon DEF Calm, CalmFrom, Line
  <1>2. OwnersStay
    BY LockStays, ZenonT(60) DEF CalmFrom
  <1> QED BY <1>1, <1>2, CalmKeeps, Zenon

\* Another thread's place to return to is not changed.
LEMMA OwnBack ==
  ASSUME CInv, NEW t \in Thread,
         back' = back \/ \E b : back' = [back EXCEPT ![t] = b]
  PROVE  t = Strand \/ back'[Strand] = back[Strand]
  BY ThreadsDiffer, ZenonT(60) DEF CInv, Types

\* shutdown in an endpoint of which only flags have been set.
LEMMA CalmShutdown ==
  ASSUME CInv, HInv, Line, NEW t \in Thread, NEW e, NEW return,
         e \in Endpoint, SameLine(endpoint, e), shutdown(t, e, return),
         CalmFrom(t, return), CalmFrom(t, "swap"),
         UNCHANGED <<handlers, handler, peer>>,
         \/ lock' = lock
         \/ \E l \in {"connects", "queue"} : \E S \in SUBSET Thread :
               lock' = [lock EXCEPT ![l] = S]
  PROVE  Line'
  <1>1. SameLine(endpoint, endpoint')
    <2>1. SameLine(e, endpoint')
      BY FlagLines, Zenon DEF shutdown
    <2> QED BY <2>1, Zenon DEF SameLine
  <1>2. t = Strand \/ back'[Strand] = back[Strand]
    BY OwnBack, Zenon DEF shutdown, Enter
  <1>3. CASE Enter(t, return, "idle")
    BY <1>1, <1>2, <1>3, CalmMove, ZenonT(60) DEF Enter
  <1>4. CASE Enter(t, "swap", return)
    BY <1>1, <1>2, <1>4, CalmMove, ZenonT(60) DEF Enter
  <1> QED BY <1>3, <1>4, Zenon DEF shutdown

\* The places of a thread inside close or shutdown, or about to send, are calm.
LEMMA CalmPlaces ==
  ASSUME HInv, NEW t \in Thread
  PROVE  /\ pc[t] \in Inside =>
              /\ CalmFrom(t, back[t])
              /\ \A p \in Inside : CalmFrom(t, p)
         /\ pc[t] \in {"send", "push"} =>
              CalmFrom(t, Unsent(t)) /\ CalmFrom(t, "push") /\ CalmFrom(t, "swap")
         /\ pc[t] = "finish" => CalmFrom(t, "done")
  <1> USE ThreadsDiffer, ThreadKinds
  <1>1. Spot(t, pc[t], back[t])
    BY Zenon DEF HInv, Spots
  <1>2. CASE pc[t] \in Inside
    <2>1. t[1] = "caller" => back[t] = "error"
      BY <1>1, <1>2, ZenonT(60) DEF Spot
    <2>2. t = Strand => back[t] \in {"idle", "refused"}
      BY <1>1, <1>2, Zenon DEF Spot
    <2>3. CalmFrom(t, back[t])
      BY <1>2, <2>1, <2>2, ZenonT(60) DEF CalmFrom, Inside, Unasked, Holding
    <2>4. \A p \in Inside : CalmFrom(t, p)
      BY <1>2, Zenon DEF CalmFrom, Inside, Unasked, Holding
    <2> QED BY <1>2, <2>3, <2>4, ZenonT(60) DEF Inside
  <1>3. CASE pc[t] \in {"send", "push"}
    <2>1. /\ t[1] = "caller" => Unsent(t) = "error"
          /\ t = Strand => Unsent(t) = "refused"
      BY Zenon DEF Unsent
    <2> QED BY <1>3, <2>1, ZenonT(60) DEF CalmFrom, Unasked, Holding, Inside
  <1>4. CASE pc[t] = "finish"
    BY <1>4, ZenonT(60) DEF CalmFrom, Unasked, Holding, Inside
  <1> QED BY <1>2, <1>3, <1>4, ZenonT(60)

\* The subroutines that neither send nor release the handlers.
LEMMA CalmSubroutines ==
  ASSUME CInv, HInv, Line, NEW t \in Thread,
         \/ Cancelled(t) \/ CloseBegin(t) \/ CloseLook(t) \/ CloseEnd(t) \/ SendCheck(t)
         \/ SendFull(t) \/ TakeLocks(t) \/ Finish(t)
  PROVE  Line'
  <1>e. endpoint \in Endpoint /\ SameLine(endpoint, endpoint)
    BY Zenon DEF HInv, SameLine
  <1>r. ASSUME Return(t), pc[t] \in Inside, UNCHANGED <<handlers, handler, peer>>,
               SameLine(endpoint, endpoint'),
               \/ lock' = lock
               \/ \E l \in {"connects", "queue"} : \E S \in SUBSET Thread :
                     lock' = [lock EXCEPT ![l] = S]
        PROVE  Line'
    <2>1. t = Strand \/ back'[Strand] = back[Strand]
      BY <1>r, OwnBack, ZenonT(60) DEF Return
    <2> QED BY <1>r, <2>1, CalmPlaces, CalmMove, ZenonT(60) DEF Return
  <1>1. CASE Cancelled(t)
    <2>1. PICK S : S = lock["queue"] \ {t}
      BY Zenon
    <2>2. S \in SUBSET Thread
      BY <2>1, Zenon DEF Line
    <2>3. lock' = [lock EXCEPT !["queue"] = S]
      BY <1>1, <2>1, ZenonT(60) DEF Cancelled
    <2>4. \E l \in {"connects", "queue"} : \E R \in SUBSET Thread :
             lock' = [lock EXCEPT ![l] = R]
      BY <2>2, <2>3, Zenon
    <2>5. Return(t) /\ pc[t] \in Inside /\ UNCHANGED <<endpoint, handlers, handler, peer>>
      BY <1>1, Zenon DEF Cancelled, Inside
    <2> QED BY <1>e, <1>r, <2>4, <2>5, ZenonT(60)
  <1>2. CASE CloseBegin(t)
    <2>1. /\ pc[t] \in Inside /\ UNCHANGED <<handlers, handler, lock, peer>>
      BY <1>2, Zenon DEF CloseBegin, Inside
    <2>2. SameLine(endpoint, endpoint')
      <3>1. PICK x \in BOOLEAN : x = (t /= Idler)
        BY Zenon
      <3>2. endpoint' = [endpoint EXCEPT !.idle = FALSE, !.called = @ \/ x]
        BY <1>2, <3>1, Zenon DEF CloseBegin
      <3> QED BY <1>e, <3>2, FlagLines, ZenonT(60)
    <2>3. CASE Return(t)
      BY <1>r, <2>1, <2>2, <2>3, ZenonT(60)
    <2>4. CASE Goto(t, "closeLook") /\ UNCHANGED back
      <3>1. PICK p : p = "closeLook"
        BY Zenon
      <3>2. CalmFrom(t, p) /\ back'[Strand] = back[Strand]
        BY <2>1, <2>4, <3>1, CalmPlaces, Zenon DEF Inside
      <3> QED BY <2>1, <2>2, <2>4, <3>1, <3>2, CalmMove, ZenonT(60) DEF Goto
    <2> QED BY <1>2, <2>3, <2>4, ZenonT(60) DEF CloseBegin
  <1>l. CASE CloseLook(t)
    <2>1. pc[t] \in Inside /\ UNCHANGED <<handlers, handler, lock, peer, back, endpoint>>
      BY <1>l, Zenon DEF CloseLook, Inside
    <2>2. ASSUME NEW p \in {"closeEmpty", "closeFull"}, Goto(t, p) PROVE Line'
      <3>1. CalmFrom(t, p) /\ back'[Strand] = back[Strand]
        BY <2>1, <2>2, CalmPlaces, Zenon DEF Inside
      <3>2. SameLine(endpoint, endpoint')
        BY <1>e, <2>1, Zenon
      <3> QED BY <2>1, <2>2, <3>1, <3>2, CalmMove, ZenonT(60) DEF Goto
    <2> QED BY <1>l, <2>2, ZenonT(60) DEF CloseLook
  <1>3. CASE CloseEnd(t)
    <2>1. pc[t] \in Inside /\ UNCHANGED <<handlers, handler, lock, peer>>
      BY <1>3, Zenon DEF CloseEnd, Inside
    <2>2. PICK e : e = [endpoint EXCEPT !.want = TRUE]
      BY Zenon
    <2>3. e \in Endpoint /\ SameLine(endpoint, e)
      BY <1>e, <2>2, FlagSteps, FlagLines, ZenonT(60) DEF SameHold
    <2>4. CASE shutdown(t, e, back[t])
      <3>1. CalmFrom(t, back[t]) /\ CalmFrom(t, "swap")
        BY <2>1, CalmPlaces, ZenonT(60) DEF Inside
      <3> QED BY <2>1, <2>3, <2>4, <3>1, CalmShutdown, ZenonT(60)
    <2>5. CASE endpoint' = e /\ Return(t)
      BY <1>r, <2>1, <2>3, <2>5, ZenonT(60)
    <2> QED BY <1>3, <2>2, <2>4, <2>5, ZenonT(60) DEF CloseEnd
  <1>4. CASE SendCheck(t)
    <2>1. /\ pc[t] \in {"send", "push"}
          /\ UNCHANGED <<endpoint, handlers, handler, lock, peer, back>>
          /\ Goto(t, Unsent(t)) \/ Goto(t, "push")
      BY <1>4, Zenon DEF SendCheck
    <2>2. CASE Goto(t, Unsent(t))
      BY <1>e, <2>1, <2>2, CalmPlaces, CalmMove, ZenonT(60) DEF Goto
    <2>3. CASE Goto(t, "push")
      BY <1>e, <2>1, <2>3, CalmPlaces, CalmMove, ZenonT(60) DEF Goto
    <2> QED BY <2>1, <2>2, <2>3, ZenonT(60)
  <1>5. CASE SendFull(t)
    <2>1. pc[t] \in {"send", "push"} /\ UNCHANGED <<handlers, handler, peer>>
      BY <1>5, Zenon DEF SendFull
    <2>2. CASE Goto(t, Unsent(t)) /\ UNCHANGED <<endpoint, back, lock>>
      BY <1>e, <2>1, <2>2, CalmPlaces, CalmMove, ZenonT(60) DEF Goto
    <2>3. CASE shutdown(t, endpoint, Unsent(t)) /\ lock' = [lock EXCEPT !["queue"] = {t}]
      <3>1. \E l \in {"connects", "queue"} : \E S \in SUBSET Thread :
               lock' = [lock EXCEPT ![l] = S]
        BY <2>3, Zenon
      <3>2. CalmFrom(t, Unsent(t)) /\ CalmFrom(t, "swap")
        BY <2>1, CalmPlaces, ZenonT(60)
      <3> QED BY <1>e, <2>1, <2>3, <3>1, <3>2, CalmShutdown, ZenonT(60)
    <2> QED BY <1>5, <2>2, <2>3, ZenonT(60) DEF SendFull
  <1>6. CASE TakeLocks(t)
    <2>1. /\ pc[t] = "call" /\ pc' = [pc EXCEPT ![t] = "send"]
          /\ UNCHANGED <<endpoint, handlers, handler, peer, back>>
          /\ lock["handlers"] = {} /\ lock' = [lock EXCEPT !["call"] = {t}, !["handlers"] = {t}]
      BY <1>6, Zenon DEF TakeLocks, Goto, Free
    <2>2. t /= Strand
      BY <2>1, ThreadKinds DEF HInv, Spots, Spot, Inside
    <2>3. Calm(t, "send")
      BY <1>e, <2>1, <2>2, Zenon DEF Calm, Unasked, Line
    <2>4. /\ lock' \in [{"connects", "call", "handlers", "queue"} -> SUBSET Thread]
          /\ lock'["handlers"] = {t}
      BY <2>1, Zenon DEF Line
    <2>5. \A c \in Call : Caller(c) /= t => pc[Caller(c)] \notin Holding
      BY <2>1, Zenon DEF Line, Owners
    <2>6. \A c \in Call : Caller(c) /= t => pc'[Caller(c)] = pc[Caller(c)]
      BY <2>1, ThreadsDiffer, ZenonT(60) DEF CInv, Types
    <2>7. OwnersStay
      BY <2>4, <2>5, <2>6, ZenonT(60) DEF OwnersStay, Owners
    <2> QED BY <2>3, <2>7, CalmKeeps
  <1>7. CASE Finish(t)
    <2>1. /\ pc[t] = "finish" /\ pc' = [pc EXCEPT ![t] = "done"]
          /\ UNCHANGED <<handlers, handler, peer, back, lock>>
          /\ endpoint' = Released(endpoint)
      BY <1>7, Zenon DEF Finish, Goto
    <2>2. SameLine(endpoint, endpoint')
      BY <1>e, <2>1, FlagLines, ZenonT(60)
    <2> QED BY <2>1, <2>2, CalmPlaces, CalmMove, Zenon
  <1> QED BY <1>1, <1>l, <1>2, <1>3, <1>4, <1>5, <1>6, <1>7, ZenonT(60)

\* The steps of calls and of their timers, of close and of the deletion.
LEMMA CalmOthers ==
  ASSUME CInv, HInv, Line,
         \/ \E c \in Call : Find(Caller(c), "call") \/ Error(c) \/ TimedOut(c) \/ Expire(c)
         \/ Find(Sender, "send") \/ Idle \/ CloseConnection \/ Erase
         \/ (\E t \in Thread : Cancel(t)) \/ Delete \/ UNCHANGED vars
  PROVE  Line'
  <1> USE ThreadsDiffer, ThreadKinds
  <1>e. endpoint \in Endpoint /\ SameLine(endpoint, endpoint)
    BY Zenon DEF HInv, SameLine
  <1>p. \A t \in Thread : pc = [pc EXCEPT ![t] = pc[t]]
    BY DEF CInv, Types
  <1>h. peer \in Peer
    BY Zenon DEF Line
  <1>1. ASSUME NEW t \in Thread, NEW next, Find(t, next), t /= Strand,
               t[1] = "caller" => next = "call"
        PROVE  Line'
    <2>1. /\ pc[t] = "start" /\ UNCHANGED <<handlers, handler, back, lock, peer>>
          /\ Goto(t, next) \/ Goto(t, "notFound")
      BY <1>1, Zenon DEF Find
    <2>2. SameLine(endpoint, endpoint')
      <3>1. endpoint' = endpoint \/ endpoint' = [endpoint EXCEPT !.refs = @ + 1]
        BY <1>1, Zenon DEF Find
      <3>2. CASE endpoint' = [endpoint EXCEPT !.refs = @ + 1]
        BY <1>e, <3>2, ZenonT(60) DEF Endpoint, SameLine
      <3> QED BY <1>e, <3>1, <3>2
    <2>3. CalmFrom(t, next) /\ CalmFrom(t, "notFound")
      BY <1>1, <2>1, ZenonT(60) DEF CalmFrom, Unasked, Holding
    <2>4. CASE Goto(t, next)
      BY <2>1, <2>2, <2>3, <2>4, CalmMove, ZenonT(60) DEF Goto
    <2>5. CASE Goto(t, "notFound")
      BY <2>1, <2>2, <2>3, <2>5, CalmMove, ZenonT(60) DEF Goto
    <2> QED BY <2>1, <2>4, <2>5, ZenonT(60)
  <1>2. ASSUME NEW c \in Call, Error(c) PROVE Line'
    <2>1. /\ pc[Caller(c)] = "error" /\ pc' = [pc EXCEPT ![Caller(c)] = "finish"]
          /\ UNCHANGED <<endpoint, handlers, handler, back, peer>>
          /\ lock' = Unlocked(Caller(c))
      BY <1>2, Zenon DEF Error, Goto
    <2>2. Calm(Caller(c), "finish")
      BY <1>e, <1>h, <2>1, Zenon DEF Calm, Unasked
    <2>3. OwnersStay
      BY <2>1, UnlockStays, Zenon DEF Holding
    <2> QED BY <2>2, <2>3, CalmKeeps, Zenon
  <1>3. ASSUME NEW c \in Call, TimedOut(c) PROVE Line'
    <2>1. /\ pc' = [pc EXCEPT ![Timer(c)] = "close"] /\ CalmFrom(Timer(c), "close")
          /\ UNCHANGED <<endpoint, handlers, handler, lock, peer>>
          /\ back' = [back EXCEPT ![Timer(c)] = "finish"]
      BY <1>3, ZenonT(60) DEF TimedOut, Enter, CalmFrom
    <2>2. back'[Strand] = back[Strand]
      BY <2>1 DEF CInv, Types
    <2> QED BY <1>e, <2>1, <2>2, CalmMove, ZenonT(60)
  <1>4. ASSUME NEW c \in Call, Expire(c) PROVE Line'
    <2>1. /\ pc' = [pc EXCEPT ![Timer(c)] = "timeout"]
          /\ UNCHANGED <<endpoint, handlers, back, lock, peer>>
          /\ handler' = [handler EXCEPT ![c].timer = "expired"] /\ handler \in [Call -> Handler]
      BY <1>4, Zenon DEF Expire, Goto, CInv, Types
    <2>2. \A d \in Call : handler'[d].timer = "armed" => handler[d].timer = "armed"
      BY <2>1, SetTimer
    <2>3. Calm(Timer(c), "timeout")
      BY <1>e, <1>h, <2>1, <2>2, ZenonT(60) DEF Calm
    <2>4. OwnersStay
      BY <2>1, LockStays, Zenon
    <2> QED BY <2>3, <2>4, CalmKeeps, Zenon
  <1>5. CASE Idle
    <2>1. /\ pc' = [pc EXCEPT ![Idler] = "close"] /\ CalmFrom(Idler, "close")
          /\ UNCHANGED <<handlers, handler, lock, peer>>
          /\ back' = [back EXCEPT ![Idler] = "idle"]
      BY <1>5, Zenon DEF Idle, Enter, CalmFrom
    <2>2. back'[Strand] = back[Strand]
      BY <2>1, Zenon DEF CInv, Types
    <2>3. SameLine(endpoint, endpoint')
      BY <1>5, <1>e, FlagLines, Zenon DEF Idle
    <2> QED BY <2>1, <2>2, <2>3, CalmMove, Zenon
  <1>6. CASE CloseConnection
    <2>1. UNCHANGED <<endpoint, handlers, handler, peer>>
      BY <1>6, Zenon DEF CloseConnection
    <2>2. \A p : CalmFrom(Closer, p)
      BY Zenon DEF CalmFrom
    <2>3. CASE /\ lock' = [lock EXCEPT !["connects"] = {Closer}]
               /\ Enter(Closer, "close", "erase")
      <3>1. \E l \in {"connects", "queue"} : \E S \in SUBSET Thread :
               lock' = [lock EXCEPT ![l] = S]
        BY <2>3, ZenonT(60)
      <3>2. back'[Strand] = back[Strand]
        BY <2>3, Zenon DEF Enter, CInv, Types
      <3> QED BY <1>e, <2>1, <2>2, <2>3, <3>1, <3>2, CalmMove, ZenonT(60) DEF Enter
    <2>4. CASE Goto(Closer, "done") /\ UNCHANGED <<back, lock>>
      BY <1>e, <2>1, <2>2, <2>4, CalmMove, Zenon DEF Goto
    <2> QED BY <1>6, <2>3, <2>4, Zenon DEF CloseConnection
  <1>7. CASE Erase
    <2>1. /\ pc' = [pc EXCEPT ![Closer] = "done"] /\ lock' = Unlocked(Closer)
          /\ UNCHANGED <<handlers, handler, back, peer>>
      BY <1>7, Zenon DEF Erase, Goto
    <2>2. SameLine(endpoint, endpoint')
      BY <1>7, <1>e, FlagLines, Zenon DEF Erase
    <2>3. Calm(Closer, "done")
      BY <1>h, <2>1, <2>2, Zenon DEF Calm
    <2>4. OwnersStay
      BY <2>1, UnlockStays, ZenonT(60) DEF Holding
    <2> QED BY <2>3, <2>4, CalmKeeps, Zenon
  <1>8. ASSUME NEW t \in Thread, Cancel(t) PROVE Line'
    <2>1. /\ pc' = [pc EXCEPT ![t] = "cancel"] /\ pc[t] = "cancel"
          /\ UNCHANGED <<handlers, back, lock, peer>>
      BY <1>8, <1>p, Zenon DEF Cancel
    <2>2. SameLine(endpoint, endpoint')
      <3>1. endpoint' = endpoint \/ endpoint' = Released(endpoint)
        BY <1>8, Zenon DEF Cancel
      <3> QED BY <1>e, <3>1, FlagLines, ZenonT(60)
    <2>3. \A d \in Call : handler'[d].timer = "armed" => handler[d].timer = "armed"
      <3>1. PICK c \in Call : handler' = [handler EXCEPT ![c] = CancelTimer(@)]
        <4>1. Head(list) \in Call
          BY <1>8, TailForgets, Zenon DEF Cancel, CInv, Types, Lists
        <4> QED BY <1>8, <4>1, Zenon DEF Cancel
      <3>2. CancelTimer(handler[c]).timer = "armed" => handler[c].timer = "armed"
        BY Zenon DEF CancelTimer
      <3> QED BY <3>1, <3>2 DEF CInv, Types
    <2>4. Calm(t, "cancel")
      BY <1>h, <2>1, <2>2, <2>3, ZenonT(60) DEF Calm, Unasked
    <2>5. OwnersStay
      BY <2>1, LockStays, Zenon DEF Holding
    <2> QED BY <2>4, <2>5, CalmKeeps
  <1>9. CASE Delete \/ UNCHANGED vars
    <2>1. /\ pc' = [pc EXCEPT ![Closer] = pc[Closer]]
          /\ UNCHANGED <<handlers, handler, back, lock, peer>>
      BY <1>9, <1>p, Zenon DEF Delete, vars
    <2>2. SameLine(endpoint, endpoint')
      <3>1. \/ endpoint' = endpoint
            \/ endpoint' = [endpoint EXCEPT !.life = "gone", !.registered = FALSE]
        BY <1>9, Zenon DEF Delete, vars
      <3> QED BY <1>e, <3>1, FlagLines, ZenonT(60)
    <2>3. CalmFrom(Closer, pc[Closer])
      BY Zenon DEF CalmFrom
    <2> QED BY <2>1, <2>2, <2>3, CalmMove, ZenonT(60)
  <1>10. ASSUME NEW c \in Call, Find(Caller(c), "call") PROVE Line'
    BY <1>1, <1>10, Zenon
  <1>11. CASE Find(Sender, "send")
    BY <1>1, <1>11, Zenon
  <1> QED BY <1>2, <1>3, <1>4, <1>5, <1>6, <1>7, <1>8, <1>9, <1>10, <1>11

\* The strand, when it neither takes, writes nor matches anything.
LEMMA CalmStrand ==
  ASSUME CInv, HInv, Line,
         ReceiveRequest \/ Handle \/ ReadOn \/ Refuse \/ ReadEnd \/ WriteError
  PROVE  Line'
  <1> USE ThreadsDiffer, ThreadKinds
  <1>e. endpoint \in Endpoint /\ SameLine(endpoint, endpoint) /\ peer \in Peer
    BY Zenon DEF HInv, SameLine, Line
  <1>g. ASSUME NEW p \in {"send", "refused", "idle", "readOn"}, pc[Strand] /= "match",
               Goto(Strand, p), UNCHANGED <<handlers, handler, lock>>,
               SameLine(endpoint, endpoint'), peer' \in Peer, peer'.asked = peer.asked
        PROVE  Line'
    <2>1. Calm(Strand, p)
      BY <1>g, Zenon DEF Calm, Goto
    <2>2. OwnersStay
      BY <1>g, LockStays, Zenon DEF Goto
    <2> QED BY <2>1, <2>2, CalmKeeps, ZenonT(60)
  <1>s. ASSUME NEW cond, NEW e \in Endpoint, ShutdownIf(cond, e), pc[Strand] /= "match",
               SameLine(endpoint, e), UNCHANGED <<handlers, handler, lock, peer>>
        PROVE  Line'
    <2>1. CASE shutdown(Strand, e, "idle")
      <3>1. CalmFrom(Strand, "idle") /\ CalmFrom(Strand, "swap")
        BY <1>s, Zenon DEF CalmFrom
      <3> QED BY <1>s, <2>1, <3>1, CalmShutdown, ZenonT(60)
    <2>2. CASE endpoint' = e /\ Goto(Strand, "idle")
      BY <1>e, <1>g, <1>s, <2>2, ZenonT(60)
    <2> QED BY <1>s, <2>1, <2>2, Zenon DEF ShutdownIf
  <1>1. CASE ReceiveRequest
    <2>1. /\ pc[Strand] = "idle" /\ UNCHANGED <<endpoint, handlers, handler, lock>>
          /\ Goto(Strand, "refused") \/ Goto(Strand, "send")
      BY <1>1, Zenon DEF ReceiveRequest, Receive, CanRead
    <2>2. peer' \in Peer /\ peer'.asked = peer.asked
      BY <1>1, <1>e DEF ReceiveRequest, Peer
    <2> QED BY <1>e, <1>g, <2>1, <2>2, ZenonT(60)
  <1>2. CASE Handle
    <2>1. /\ pc[Strand] = "handle" /\ Goto(Strand, "readOn")
          /\ UNCHANGED <<handlers, handler, lock, peer>>
      BY <1>2, Zenon DEF Handle, Enter, Goto
    <2>2. SameLine(endpoint, endpoint')
      BY <1>2, <1>e, FlagLines, Zenon DEF Handle
    <2> QED BY <1>e, <1>g, <2>1, <2>2, ZenonT(60)
  <1>3. CASE ReadOn
    <2>1. SameLine(endpoint, endpoint')
      BY <1>3, <1>e, FlagLines, ZenonT(60) DEF ReadOn
    <2>2. peer' \in Peer /\ peer'.asked = peer.asked
      BY <1>3, <1>e, Zenon DEF ReadOn, Peer
    <2> QED BY <1>3, <1>g, <2>1, <2>2, ZenonT(60) DEF ReadOn
  <1>4. CASE Refuse
    <2>1. PICK e : e = [endpoint EXCEPT !.want = TRUE, !.reading = FALSE]
      BY Zenon
    <2>2. e \in Endpoint /\ SameLine(endpoint, e)
      BY <1>e, <2>1, FlagSteps, FlagLines, ZenonT(60) DEF SameHold
    <2> QED BY <1>4, <1>s, <2>1, <2>2, ZenonT(60) DEF Refuse
  <1>5. CASE ReadEnd
    <2>1. PICK e : e = [endpoint EXCEPT !.reading = FALSE]
      BY Zenon
    <2>2. e \in Endpoint /\ SameLine(endpoint, e)
      BY <1>e, <2>1, FlagSteps, FlagLines, ZenonT(60) DEF SameHold
    <2>3. PICK cond : /\ ShutdownIf(cond, e) /\ pc[Strand] = "idle"
                      /\ UNCHANGED <<handlers, handler, lock, peer>>
      BY <1>5, <2>1, Zenon DEF ReadEnd, CanRead
    <2> QED BY <1>s, <2>2, <2>3, Zenon
  <1>6. CASE WriteError
    BY <1>6, <1>e, <1>s, ZenonT(60) DEF WriteError, CanWrite
  <1> QED BY <1>1, <1>2, <1>3, <1>4, <1>5, <1>6, Zenon

(***************************************************************************)
(* Requests and answers on their way, and the handlers.                    *)
(***************************************************************************)

\* Releasing the handlers: from then on there is none.
LEMMA ReleaseLine ==
  ASSUME CInv, HInv, Line, Die \/ \E t \in Thread : Swap(t)
  PROVE  Line'
  <1> USE ThreadsDiffer
  <1>1. /\ handlers' = << >> /\ UNCHANGED <<handler, back, lock, peer>>
        /\ \/ pc' = pc
           \/ \E t \in Thread : pc[t] = "swap" /\ pc' = [pc EXCEPT ![t] = "cancel"]
    BY Zenon DEF Die, Swap, Goto
  <1>2. endpoint'.released /\ endpoint'.queue = endpoint.queue
    <2>1. endpoint \in Endpoint
      BY Zenon DEF HInv
    <2>2. CASE Die
      <3>1. endpoint' = [endpoint EXCEPT !.life = "dying", !.shut = TRUE, !.released = TRUE]
        BY <2>2, Zenon DEF Die
      <3> QED BY <2>1, <3>1, Zenon DEF Endpoint
    <2>3. CASE \E t \in Thread : Swap(t)
      <3>1. endpoint' = [endpoint EXCEPT !.released = TRUE]
        BY <2>3, Zenon DEF Swap
      <3> QED BY <2>1, <3>1, Zenon DEF Endpoint
    <2> QED BY <2>2, <2>3, Zenon
  <1>3. \A u \in Thread : pc'[u] = pc[u] \/ (pc[u] = "swap" /\ pc'[u] = "cancel")
    BY <1>1 DEF CInv, Types
  <1>4. Current' = Current /\ (pc'[Strand] = pc[Strand] \/ pc'[Strand] = "cancel")
    BY <1>1, <1>3 DEF Current
  <1>5. /\ \A c : Waits(c)' <=> Waits(c)
        /\ \A c, d : Ahead(c, d)' <=> Ahead(c, d)
    BY <1>1, <1>2, <1>4, Zenon DEF Waits, Ahead
  <1>6. OwnersStay
    <2>1. \A c \in Call : pc'[Caller(c)] \in Holding => pc[Caller(c)] \in Holding
      BY <1>3, Zenon DEF Holding
    <2> QED BY <1>1, <2>1, Zenon DEF OwnersStay, Line, Owners
  <1>7. Aside
    <2>1. \A c \in Call : pc'[Caller(c)] \in Unasked => pc[Caller(c)] \in Unasked
      BY <1>3, Zenon DEF Unasked
    <2> QED BY <1>1, <1>2, <1>4, <1>6, <2>1, ZenonT(60) DEF Aside, Line
  <1>8. Astray'
    BY <1>2, Zenon DEF Astray
  <1> QED BY <1>5, <1>7, <1>8, AstrayKeeps

\* A message put into the queue is the last.
LEMMA PushLine ==
  ASSUME CInv, HInv, Line, NEW t \in Thread, SendPush(t)
  PROVE  Line'
  <1> USE ThreadsDiffer
  <1>1. /\ pc[t] = "push" /\ UNCHANGED <<handlers, handler, back, lock, peer>>
        /\ pc' = [pc EXCEPT ![t] = Sent(t)]
    BY Zenon DEF SendPush, Goto
  <1>2. /\ pc'[t] = Sent(t)
        /\ \A u \in Thread : u /= t => pc'[u] = pc[u]
    BY <1>1, Zenon DEF CInv, Types
  <1>m. PICK m \in Call \cup {NoCall} : m = Message(t)
    BY <1>1, SendSpot, Zenon
  <1>q. PICK q \in Seq(Call \cup {NoCall}) : q = endpoint.queue
    BY Zenon DEF HInv, Endpoint
  <1>3. /\ endpoint'.queue = Append(q, m) /\ endpoint'.released = endpoint.released
        /\ endpoint'.called = endpoint.called
    <2>1. PICK r \in Seq(Call \cup {NoCall}) : r = Append(q, m)
      BY AppendOrder, Zenon
    <2>2. PICK e : e = [endpoint EXCEPT !.queue = r]
      BY Zenon
    <2>3. endpoint' = Rearmed(e, endpoint.queue = << >>)
      BY <1>m, <1>q, <2>1, <2>2, ZenonT(60) DEF SendPush
    <2>4. e \in Endpoint /\ e.queue = r /\ e.released = endpoint.released /\ e.called = endpoint.called
      BY <2>2, Zenon DEF HInv, Endpoint
    <2>5. /\ endpoint'.queue = e.queue /\ endpoint'.released = e.released
          /\ endpoint'.called = e.called
      BY <2>3, <2>4, Zenon DEF Rearmed, Endpoint
    <2> QED BY <2>1, <2>4, <2>5, ZenonT(60)
  <1>4. Current' = Current /\ (pc'[Strand] = "match" <=> pc[Strand] = "match")
        /\ (pc'[Strand] = "handle" <=> pc[Strand] = "handle")
    <2>1. t = Strand => pc'[Strand] = "readOn"
      BY <1>2, Zenon DEF Sent
    <2> QED BY <1>1, <1>2, <2>1, ZenonT(60) DEF Current
  <1>5. /\ \A c : InSeq(c, Append(q, m)) <=> InSeq(c, q) \/ c = m
        /\ \A c, d : Precedes(c, d, Append(q, m)) <=> \/ Precedes(c, d, q)
                                                      \/ InSeq(c, q) /\ d = m
    BY AppendOrder
  <1>6. /\ \A c : Waits(c)' <=> Waits(c) \/ c = m
        /\ \A c, d : Ahead(c, d)' <=> Ahead(c, d) \/ (Waits(c) /\ d = m)
    BY <1>1, <1>3, <1>4, <1>5, <1>q, SMTT(30) DEF Waits, Ahead
  <1>7. OwnersStay
    BY <1>1, LockStays, Zenon DEF Holding
  <1>8. Aside
    <2>1. t[1] = "caller" => Sent(t) = "add"
      BY Zenon DEF Sent
    <2>2. \A c \in Call : pc'[Caller(c)] \in Unasked => pc[Caller(c)] \in Unasked
      BY <1>2, <2>1 DEF Unasked
    <2> QED BY <1>1, <1>3, <1>4, <1>7, <2>2, ZenonT(60) DEF Aside, Line
  <1>9. Astray' <=> Astray
    BY <1>1, <1>3, <1>4, ZenonT(60) DEF Astray
  <1>10. CASE t[1] /= "caller"
    <2>1. m = NoCall /\ m \notin Call
      BY <1>10, <1>m, LevinAssumption, ZenonT(60) DEF Message
    <2>2. \A c \in Call : pc'[Caller(c)] = pc[Caller(c)]
      BY <1>2, <1>10
    <2>3. handlers' = handlers /\ handlers \in Seq(Call)
      BY <1>1, Zenon DEF CInv, Types
    <2> QED BY <1>6, <1>8, <1>9, <2>1, <2>2, <2>3, SameKeeps
  <1>11. CASE t[1] = "caller"
    <2>c. PICK c \in Call : t = Caller(c)
      BY <1>11, ZenonT(60)
    <2>1. m = c /\ pc[Caller(c)] = "push" /\ pc'[Caller(c)] = "add"
          /\ \A d \in Call : d /= c => pc'[Caller(d)] = pc[Caller(d)]
      BY <1>1, <1>2, <1>11, <1>m, <2>c DEF Message, Sent
    <2>2. ~ Waits(c) /\ lock["handlers"] = {Caller(c)}
      BY <2>1, Zenon DEF Line, Once, Owners, Unasked, Holding
    <2>3. Once'
      <3>1. ASSUME NEW d \in Call PROVE ~ Ahead(d, d)'
        BY <1>6, <2>1, <2>2 DEF Line, Once
      <3>2. ASSUME NEW d \in Call, pc'[Caller(d)] \in Unasked PROVE ~ Waits(d)'
        BY <1>6, <2>1, <3>2, ZenonT(60) DEF Line, Once, Unasked
      <3> QED BY <3>1, <3>2, ZenonT(60) DEF Once
    <2>4. ASSUME InStep PROVE InStep'
      <3>1. \A d \in Call : pc'[Caller(d)] = "add" => d = c
        <4>1. ASSUME NEW d \in Call, d /= c, pc[Caller(d)] = "add" PROVE FALSE
          BY <2>2, <4>1 DEF Line, Owners, Holding
        <4> QED BY <2>1, <4>1
      <3>2. \A i \in 1 .. Len(handlers') : Waits(handlers[i])'
        BY <1>1, <1>6, <2>4, ZenonT(60) DEF InStep
      <3>3. \A i, j \in 1 .. Len(handlers') : i < j => Ahead(handlers[i], handlers[j])'
        BY <1>1, <1>6, <2>4, ZenonT(60) DEF InStep
      <3>4. \A d \in Call : Waits(d)' => InSeq(d, handlers') \/ pc'[Caller(d)] = "add"
        BY <1>1, <1>6, <2>1, <2>4 DEF InStep
      <3>5. Waits(c)' /\ \A d \in Call : Waits(d)' /\ d /= c => Ahead(d, c)'
        BY <1>6, <2>1, Zenon
      <3> QED BY <3>1, <3>2, <3>3, <3>4, <3>5, SMTT(30) DEF InStep
    <2> QED BY <1>8, <1>9, <2>3, <2>4, ZenonT(60) DEF Line, Aside, OwnersStay
  <1> QED BY <1>10, <1>11, ZenonT(60)

\* The first request the peer has been sent is the one that is answered.
LEMMA ReceiveLine ==
  ASSUME CInv, HInv, Line, ReceiveAnswer
  PROVE  Line'
  <1> USE ThreadsDiffer
  <1>s. PICK s \in Seq(Call) : s = peer.asked /\ s /= << >>
    BY Zenon DEF ReceiveAnswer, Line, Peer
  <1>t. /\ Tail(s) \in Seq(Call) /\ Head(s) \in Call
        /\ \A c : InSeq(c, s) <=> c = Head(s) \/ InSeq(c, Tail(s))
        /\ \A c, d : Precedes(c, d, s) <=> \/ c = Head(s) /\ InSeq(d, Tail(s))
                                           \/ Precedes(c, d, Tail(s))
    BY <1>s, TailOrder, Zenon
  <1>1. peer' \in Peer /\ peer'.asked = Tail(s) /\ peer'.answer = Head(s)
    BY <1>s, <1>t, Zenon DEF ReceiveAnswer, Line, Peer
  <1>2. /\ pc[Strand] = "idle" /\ UNCHANGED <<endpoint, handlers, handler, back, lock>>
        /\ pc' = [pc EXCEPT ![Strand] = IF endpoint.called THEN "refused" ELSE "match"]
    BY Zenon DEF ReceiveAnswer, Receive, CanRead, Goto
  <1>3. /\ pc'[Strand] = IF endpoint.called THEN "refused" ELSE "match"
        /\ \A u \in Thread : u /= Strand => pc'[u] = pc[u]
    BY <1>2, Zenon DEF CInv, Types
  <1>4. Current = NoCall /\ NoCall \notin Call
        /\ Current' = IF endpoint.called THEN NoCall ELSE Head(s)
    BY <1>1, <1>2, <1>3, LevinAssumption DEF Current
  <1>5. OwnersStay
    <2>1. Strand[1] /= "caller"
      BY ZenonT(60)
    <2> QED BY <1>2, <2>1, LockStays, Zenon
  <1>6. Aside
    <2>1. \A c \in Call : pc'[Caller(c)] = pc[Caller(c)]
      BY <1>3, Zenon
    <2> QED BY <1>1, <1>2, <1>3, <1>5, <1>t, <2>1 DEF Aside, Line
  <1>7. CASE endpoint.called
    <2>1. Astray'
      BY <1>2, <1>3, <1>7 DEF Astray
    <2>2. /\ \A c \in Call : Waits(c)' => Waits(c)
          /\ \A c \in Call : Ahead(c, c)' => Ahead(c, c)
      BY <1>1, <1>2, <1>4, <1>7, <1>s, <1>t, ZenonT(60) DEF Waits, Ahead
    <2> QED BY <1>6, <2>1, <2>2, AstrayKeeps
  <1>8. CASE ~ endpoint.called
    <2>1. Astray => Astray'
      BY <1>2, <1>8, Zenon DEF Astray
    <2>2. \A c \in Call : Waits(c)' <=> Waits(c)
      BY <1>1, <1>2, <1>4, <1>8, <1>s, <1>t DEF Waits
    <2>3. \A c, d \in Call : Ahead(c, d)' <=> Ahead(c, d)
      BY <1>1, <1>2, <1>4, <1>8, <1>s, <1>t DEF Ahead
    <2>4. /\ handlers' = handlers /\ handlers \in Seq(Call)
          /\ \A c \in Call : pc'[Caller(c)] = pc[Caller(c)]
      BY <1>2, <1>3, ZenonT(60) DEF CInv, Types
    <2> QED BY <1>6, <2>1, <2>2, <2>3, <2>4, SameKeeps, Zenon
  <1> QED BY <1>7, <1>8, Zenon

\* The first message of the queue becomes the last request the peer has been sent.
LEMMA WriteLine ==
  ASSUME CInv, HInv, Line, Write
  PROVE  Line'
  <1> USE ThreadsDiffer
  <1>q. PICK q \in Seq(Call \cup {NoCall}) : q = endpoint.queue /\ q /= << >>
    BY Zenon DEF Write, CanWrite, HInv, Endpoint
  <1>s. PICK s \in Seq(Call) : s = peer.asked
    BY Zenon DEF Line, Peer
  <1>t. /\ Tail(q) \in Seq(Call \cup {NoCall}) /\ Head(q) \in Call \cup {NoCall}
        /\ \A c : InSeq(c, q) <=> c = Head(q) \/ InSeq(c, Tail(q))
        /\ \A c, d : Precedes(c, d, q) <=> \/ c = Head(q) /\ InSeq(d, Tail(q))
                                           \/ Precedes(c, d, Tail(q))
    BY <1>q, TailOrder, Zenon
  <1>1. /\ pc[Strand] = "idle" /\ UNCHANGED <<handlers, handler, lock>>
        /\ peer' = IF Head(q) = NoCall THEN peer ELSE [peer EXCEPT !.asked = Append(@, Head(q))]
    BY <1>q, Zenon DEF Write, CanWrite
  <1>2. /\ endpoint'.queue = Tail(q) /\ SameLine([endpoint EXCEPT !.queue = Tail(q)], endpoint')
        /\ \E p \in {"idle", "swap"} : pc' = [pc EXCEPT ![Strand] = p]
    <2>1. PICK r : r = Tail(q)
      BY Zenon
    <2>2. PICK e : e = [endpoint EXCEPT !.queue = r]
      BY Zenon
    <2>3. e \in Endpoint /\ e.queue = r
      BY <1>t, <2>1, <2>2, ZenonT(60) DEF HInv, Endpoint
    <2>4. PICK x \in BOOLEAN : x = (r /= << >>)
      BY Zenon
    <2>5. PICK f : f = Rearmed(e, x)
      BY Zenon
    <2>6. f \in Endpoint /\ SameLine(e, f)
      BY <2>3, <2>5, FlagSteps, FlagLines, ZenonT(60) DEF SameHold
    <2>7. ShutdownIf(r = << >> /\ endpoint.want, f)
      BY <1>q, <2>1, <2>2, <2>4, <2>5, ZenonT(60) DEF Write
    <2>8. CASE shutdown(Strand, f, "idle")
      <3>1. SameLine(f, endpoint')
        BY <2>6, <2>8, FlagLines, ZenonT(60) DEF shutdown
      <3>2. SameLine(e, endpoint')
        BY <2>6, <3>1, Zenon DEF SameLine
      <3>3. \E p \in {"idle", "swap"} : pc' = [pc EXCEPT ![Strand] = p]
        BY <2>8, Zenon DEF shutdown, Enter
      <3> QED BY <2>1, <2>2, <2>3, <3>2, <3>3, ZenonT(60) DEF SameLine
    <2>9. CASE endpoint' = f /\ Goto(Strand, "idle")
      BY <2>1, <2>2, <2>3, <2>6, <2>9, ZenonT(60) DEF SameLine, Goto
    <2> QED BY <2>7, <2>8, <2>9, ZenonT(60) DEF ShutdownIf
  <1>3. endpoint'.released = endpoint.released /\ (endpoint.called => endpoint'.called)
    <2>1. endpoint \in Endpoint
      BY Zenon DEF HInv
    <2> QED BY <1>2, <2>1, Zenon DEF SameLine, Endpoint
  <1>4. /\ pc'[Strand] \in {"idle", "swap"}
        /\ \A u \in Thread : u /= Strand => pc'[u] = pc[u]
    BY <1>2 DEF CInv, Types
  <1>5. Current = NoCall /\ Current' = NoCall /\ NoCall \notin Call
    BY <1>1, <1>4, LevinAssumption, Zenon DEF Current
  <1>6. OwnersStay
    <2>1. PICK p : pc' = [pc EXCEPT ![Strand] = p]
      BY <1>2, Zenon
    <2>2. Strand[1] /= "caller"
      BY Zenon
    <2> QED BY <1>1, <2>1, <2>2, LockStays, ZenonT(60)
  <1>7. peer' \in Peer
    <2>1. CASE Head(q) = NoCall
      BY <1>1, <2>1, Zenon DEF Line
    <2>2. CASE Head(q) \in Call
      <3>1. PICK r \in Seq(Call) : r = Append(s, Head(q))
        BY <2>2, AppendOrder, Zenon
      <3>2. peer' = [peer EXCEPT !.asked = r]
        BY <1>1, <1>5, <1>s, <2>2, <3>1
      <3> QED BY <3>2, Zenon DEF Line, Peer
    <2> QED BY <1>t, <2>1, <2>2, ZenonT(60)
  <1>8. Aside
    <2>1. \A c \in Call : pc'[Caller(c)] = pc[Caller(c)]
      BY <1>4
    <2> QED BY <1>1, <1>3, <1>4, <1>6, <1>7, <2>1 DEF Aside, Line
  <1>9. Astray => Astray'
    BY <1>1, <1>3, <1>4, ZenonT(60) DEF Astray
  <1>10. /\ \A c \in Call : Waits(c)' <=> Waits(c)
         /\ \A c, d \in Call : Ahead(c, d)' <=> Ahead(c, d)
    <2>1. CASE Head(q) = NoCall
      BY <1>1, <1>2, <1>5, <1>q, <1>s, <1>t, <2>1 DEF Waits, Ahead
    <2>2. CASE Head(q) \in Call
      <3>1. peer'.asked = Append(s, Head(q))
        BY <1>1, <1>5, <1>s, <2>2 DEF Line, Peer
      <3>2. /\ \A c : InSeq(c, Append(s, Head(q))) <=> InSeq(c, s) \/ c = Head(q)
            /\ \A c, d : Precedes(c, d, Append(s, Head(q))) <=>
                            Precedes(c, d, s) \/ (InSeq(c, s) /\ d = Head(q))
        BY <2>2, AppendOrder
      <3>3. \A c \in Call : Waits(c)' <=> Waits(c)
        BY <1>2, <1>5, <1>q, <1>s, <1>t, <3>1, <3>2 DEF Waits
      <3>4. \A c, d \in Call : Ahead(c, d)' <=> Ahead(c, d)
        BY <1>2, <1>5, <1>q, <1>s, <1>t, <3>1, <3>2 DEF Ahead
      <3> QED BY <3>3, <3>4, ZenonT(60)
    <2> QED BY <1>t, <2>1, <2>2
  <1>11. /\ handlers' = handlers /\ handlers \in Seq(Call)
         /\ \A c \in Call : pc'[Caller(c)] = pc[Caller(c)]
    BY <1>1, <1>4 DEF CInv, Types
  <1> QED BY <1>8, <1>9, <1>10, <1>11, SameKeeps

\* When the requests and the handlers are in step, the answer is for the first
\* The handlers behind the first are in step too.
LEMMA TailInStep ==
  ASSUME handlers \in Seq(Call), handlers /= << >>, Distinct(handlers), InStep,
         handlers' = Tail(handlers)
  PROVE  /\ \A i \in 1 .. Len(handlers') : /\ handlers'[i] \in Call
                                           /\ handlers'[i] /= Head(handlers)
                                           /\ Waits(handlers'[i])
         /\ \A i, j \in 1 .. Len(handlers') : i < j => Ahead(handlers'[i], handlers'[j])
  <1>1. \A i \in 1 .. Len(handlers') : /\ i + 1 \in 1 .. Len(handlers)
                                      /\ handlers'[i] = handlers[i + 1]
                                      /\ handlers'[i] \in Call /\ handlers'[i] /= Head(handlers)
    BY DEF Distinct
  <1>2. \A i, j \in 1 .. Len(handlers') : i < j => i + 1 < j + 1
    OBVIOUS
  <1>3. ASSUME NEW i \in 1 .. Len(handlers') PROVE Waits(handlers'[i])
    BY <1>1 DEF InStep
  <1>4. ASSUME NEW i \in 1 .. Len(handlers'), NEW j \in 1 .. Len(handlers'), i < j
        PROVE  Ahead(handlers'[i], handlers'[j])
    BY <1>1, <1>2, <1>4 DEF InStep
  <1> QED BY <1>1, <1>3, <1>4

\* handler; without the lock of the handlers held by anybody there is one.
LEMMA AnswerFirst ==
  ASSUME CInv, Line, pc[Strand] = "match", lock["handlers"] = {}, ~ Astray
  PROVE  handlers /= << >> /\ Head(handlers) = peer.answer
  <1>1. InStep /\ Once /\ peer.answer \in Call /\ Current = peer.answer
    BY Zenon DEF Line, Current
  <1>2. \A c \in Call : pc[Caller(c)] /= "add"
    BY Zenon DEF Line, Owners, Holding
  <1>3. InSeq(peer.answer, handlers)
    BY <1>1, <1>2, Zenon DEF InStep, Waits
  <1>4. PICK j \in 1 .. Len(handlers) : handlers[j] = peer.answer
    BY <1>3, Zenon DEF InSeq
  <1>5. handlers \in Seq(Call) /\ Len(handlers) \in Nat
    BY DEF CInv, Types
  <1>6. ASSUME j > 1 PROVE FALSE
    <2>1. Ahead(handlers[1], peer.answer)
      BY <1>1, <1>4, <1>5, <1>6 DEF InStep
    <2>2. InSeq(peer.answer, peer.asked) \/ InSeq(peer.answer, endpoint.queue)
      BY <2>1, Zenon DEF Ahead, Precedes, InSeq
    <2>3. Ahead(peer.answer, peer.answer)
      BY <1>1, <2>2, ZenonT(60) DEF Ahead
    <2> QED BY <1>1, <2>3, ZenonT(60) DEF Once
  <1>7. j = 1
    BY <1>4, <1>5, <1>6
  <1> QED BY <1>4, <1>5, <1>7

\* So Match passes it to the handler of its own call, and takes both out.
LEMMA MatchLine ==
  ASSUME CInv, HInv, Line, Match
  PROVE  Line'
  <1> USE ThreadsDiffer
  <1>1. /\ pc[Strand] = "match" /\ lock["handlers"] = {}
        /\ UNCHANGED <<endpoint, lock, peer>>
    BY Zenon DEF Match, Free
  <1>2. PICK p : /\ pc' = [pc EXCEPT ![Strand] = p] /\ p \in {"refused", "readOn", "handle"}
    BY Zenon DEF Match, Goto, Enter
  <1>3. /\ pc'[Strand] = p
        /\ \A u \in Thread : u /= Strand => pc'[u] = pc[u]
        /\ \A c \in Call : pc'[Caller(c)] = pc[Caller(c)]
    BY <1>2, Zenon DEF CInv, Types
  <1>4. Current = peer.answer /\ Current' = NoCall /\ NoCall \notin Call /\ peer.answer \in Call
    BY <1>1, <1>2, <1>3, LevinAssumption, ZenonT(60) DEF Current, Line
  <1>5. /\ \A c \in Call : Waits(c)' <=> InSeq(c, peer.asked) \/ InSeq(c, endpoint.queue)
        /\ \A c, d \in Call : Ahead(c, d)' <=>
              \/ InSeq(c, peer.asked) /\ InSeq(d, endpoint.queue)
              \/ Precedes(c, d, peer.asked) \/ Precedes(c, d, endpoint.queue)
    BY <1>1, <1>4 DEF Waits, Ahead
  <1>6. /\ \A c \in Call : Waits(c)' => Waits(c)
        /\ \A c, d \in Call : Ahead(c, d)' => Ahead(c, d)
    BY <1>5, Zenon DEF Waits, Ahead
  <1>7. OwnersStay
    <2>1. Strand[1] /= "caller"
      BY Zenon
    <2> QED BY <1>1, <1>2, <2>1, LockStays, ZenonT(60)
  <1>8. ASSUME (endpoint.released => handlers = << >>)', p = "handle" => back'[Strand] = peer.answer
        PROVE  Aside
    BY <1>1, <1>2, <1>3, <1>7, <1>8, ZenonT(60) DEF Aside, Line
  <1>9. CASE handlers = << >>
    <2>1. Astray
      BY <1>1, <1>9, AnswerFirst, Zenon
    <2>2. endpoint.released
      BY <1>1, <1>9, <2>1, Zenon DEF Astray
    <2>3. Astray'
      BY <1>1, <2>2, Zenon DEF Astray
    <2>4. p /= "handle" /\ handlers' = << >>
      <3>1. pc'[Strand] \in {"refused", "readOn"} /\ handlers' = << >>
        BY <1>9 DEF Match, Goto, CInv, Types
      <3> QED BY <1>3, <3>1, ZenonT(60)
    <2>5. Aside
      BY <1>8, <2>4, Zenon
    <2> QED BY <1>6, <2>3, <2>5, AstrayKeeps, ZenonT(60)
  <1>10. CASE handlers /= << >>
    <2>a. PICK c \in Call : c = Head(handlers) /\ InSeq(c, handlers)
      BY <1>10, TailForgets, ZenonT(60) DEF CInv, Types, Lists
    <2>h. PICK h : h = CancelTimer(handler[c])
      BY Zenon
    <2>1. ~ endpoint.released
      BY <1>10, ZenonT(60) DEF Line
    <2>2. /\ handler'[c] = h
          /\ \/ h.won /\ Enter(Strand, "handle", c) /\ handlers' = Tail(handlers)
             \/ ~ h.won /\ Goto(Strand, "readOn") /\ handlers' = handlers
      BY <1>10, <2>a, <2>h DEF Match, CInv, Types
    <2>3. /\ h.won => handler[c].timer = "armed"
          /\ ~ h.won => handler[c].timer /= "armed" /\ h.timer = handler[c].timer
      <3>1. ~ handler[c].won
        BY <2>a, ZenonT(60) DEF CInv, Rights
      <3> QED BY <2>h, <3>1, CancelOnce, ZenonT(60)
    <2>4. CASE ~ h.won
      <3>1. Astray'
        BY <1>10, <2>2, <2>3, <2>4, <2>a DEF Astray
      <3>2. p /= "handle"
        <4>1. pc'[Strand] = "readOn"
          BY <2>2, <2>4, ZenonT(60) DEF Goto, CInv, Types
        <4> QED BY <1>3, <4>1, Zenon
      <3>3. Aside
        BY <1>1, <1>8, <2>1, <3>2, ZenonT(60)
      <3> QED BY <1>6, <3>1, <3>3, AstrayKeeps, ZenonT(60)
    <2>5. CASE h.won
      <3>1. ~ Astray
        BY <1>1, <2>1, <2>3, <2>5, <2>a, ZenonT(60) DEF Astray
      <3>2. c = peer.answer /\ InStep
        BY <1>1, <2>a, <3>1, AnswerFirst, ZenonT(60) DEF Line
      <3>3. back'[Strand] = c /\ handlers' = Tail(handlers)
        BY <2>2, <2>5, ZenonT(60) DEF Enter, CInv, Types
      <3>4. Aside
        BY <1>1, <1>8, <2>1, <3>2, <3>3
      <3>5. Once'
        BY <1>3, <1>6, ZenonT(60) DEF Line, Once
      <3>6. /\ \A d \in Call : Waits(d)' <=> Waits(d) /\ d /= c
            /\ \A d, e \in Call : d /= c => (Ahead(d, e)' <=> Ahead(d, e))
        <4>1. ~ Ahead(c, c)
          BY Zenon DEF Line, Once
        <4>2. ~ InSeq(c, peer.asked) /\ ~ InSeq(c, endpoint.queue)
          BY <1>4, <3>2, <4>1, ZenonT(60) DEF Ahead
        <4> QED BY <1>4, <1>5, <3>2, <4>2, ZenonT(60) DEF Waits, Ahead
      <3>7. /\ handlers \in Seq(Call) /\ handlers /= << >> /\ Distinct(handlers)
            /\ c = Head(handlers) /\ handlers' = Tail(handlers)
        BY <1>10, <2>a, <3>3, ZenonT(60) DEF CInv, Types, Lists
      <3>8. /\ \A i \in 1 .. Len(handlers') : /\ handlers'[i] \in Call /\ handlers'[i] /= c
                                              /\ Waits(handlers'[i])
            /\ \A i, j \in 1 .. Len(handlers') : i < j => Ahead(handlers'[i], handlers'[j])
        BY <3>2, <3>7, TailInStep, ZenonT(60)
      <3>9. \A i \in 1 .. Len(handlers') : Waits(handlers[i])'
        BY <3>6, <3>8, Zenon
      <3>10. \A i, j \in 1 .. Len(handlers') : i < j => Ahead(handlers[i], handlers[j])'
        BY <3>6, <3>8, Zenon
      <3>11. \A d \in Call : Waits(d)' => InSeq(d, handlers') \/ pc'[Caller(d)] = "add"
        <4>1. ASSUME NEW d \in Call, Waits(d), d /= c, InSeq(d, handlers) PROVE InSeq(d, handlers')
          BY <3>7, <4>1, TailOrder, ZenonT(60)
        <4> QED BY <1>3, <3>2, <3>6, <4>1, ZenonT(60) DEF InStep
      <3>12. \A d \in Call : pc'[Caller(d)] /= "add"
        BY <1>1, <1>3, SMTT(30) DEF Line, Owners, Holding
      <3>13. InStep'
        BY <3>9, <3>10, <3>11, <3>12, ZenonT(60) DEF InStep
      <3> QED BY <3>4, <3>5, <3>13, ZenonT(60) DEF Line, Aside, OwnersStay
    <2> QED BY <2>4, <2>5, ZenonT(60)
  <1> QED BY <1>9, <1>10, ZenonT(60)

\* Add puts the handler of the last request at the end.
LEMMA AddLine ==
  ASSUME CInv, HInv, Line, NEW c \in Call, Add(c)
  PROVE  Line'
  <1> USE ThreadsDiffer
  <1>1. /\ pc[Caller(c)] = "add" /\ UNCHANGED <<back, peer>>
        /\ \E p \in {"finish", "error"} : pc' = [pc EXCEPT ![Caller(c)] = p]
        /\ lock' = lock \/ lock' = Unlocked(Caller(c))
    BY Zenon DEF Add, Goto
  <1>2. /\ pc'[Caller(c)] \in {"finish", "error"}
        /\ \A u \in Thread : u /= Caller(c) => pc'[u] = pc[u]
        /\ pc'[Strand] = pc[Strand]
    BY <1>1 DEF CInv, Types
  <1>3. SameLine(endpoint, endpoint')
    <2>1. endpoint \in Endpoint
      BY Zenon DEF HInv
    <2>2. endpoint' = endpoint \/ endpoint' = [endpoint EXCEPT !.refs = @ + 1]
      BY Zenon DEF Add, add_ref_and_arm
    <2>3. CASE endpoint' = [endpoint EXCEPT !.refs = @ + 1]
      BY <2>1, <2>3, Zenon DEF Endpoint, SameLine
    <2> QED BY <2>2, <2>3, Zenon DEF SameLine
  <1>4. /\ Current' = Current
        /\ \A d : Waits(d)' <=> Waits(d)
        /\ \A d, e : Ahead(d, e)' <=> Ahead(d, e)
    <2>1. Current' = Current
      BY <1>1, <1>2 DEF Current
    <2>2. peer' = peer /\ endpoint'.queue = endpoint.queue
      BY <1>1, <1>3, Zenon DEF SameLine
    <2> QED BY <2>1, <2>2, ZenonT(60) DEF Waits, Ahead
  <1>5. OwnersStay
    <2>1. PICK p \in {"finish", "error"} : pc' = [pc EXCEPT ![Caller(c)] = p]
      BY <1>1, Zenon
    <2>2. p \notin Holding
      BY ZenonT(60) DEF Holding
    <2> QED BY <1>1, <2>1, <2>2, LockStays, UnlockStays, ZenonT(60)
  <1>6. \A d \in Call : /\ pc'[Caller(d)] \in Unasked => pc[Caller(d)] \in Unasked
                        /\ pc'[Caller(d)] /= "add"
    <2>1. lock["handlers"] = {Caller(c)}
      BY <1>1, ZenonT(60) DEF Line, Owners, Holding
    <2>2. ASSUME NEW d \in Call, d /= c, pc[Caller(d)] = "add" PROVE FALSE
      BY <2>1, <2>2, SMTT(30) DEF Line, Owners, Holding
    <2> QED BY <1>2, <2>2 DEF Unasked
  <1>7. CASE endpoint.released
    <2>1. handlers' = handlers /\ endpoint'.released
      BY <1>3, <1>7, Zenon DEF Add, SameLine
    <2>2. Aside
      BY <1>1, <1>2, <1>5, <1>6, <1>7, <2>1, ZenonT(60) DEF Aside, Line
    <2>3. Astray'
      BY <2>1, Zenon DEF Astray
    <2> QED BY <1>4, <2>2, <2>3, AstrayKeeps, ZenonT(60)
  <1>8. CASE ~ endpoint.released
    <2>1. ~ endpoint'.released /\ handlers' = Append(handlers, c)
      BY <1>3, <1>8, Zenon DEF Add, SameLine
    <2>2. Aside
      BY <1>1, <1>2, <1>5, <1>6, <2>1, ZenonT(60) DEF Aside, Line
    <2>3. Once'
      BY <1>4, <1>6, ZenonT(60) DEF Line, Once
    <2>4. /\ handlers \in Seq(Call) /\ ~ InSeq(c, handlers) /\ Len(handlers) \in Nat
      <3>1. Rights(c) /\ pc[Caller(c)] \in Before
        BY <1>1, Zenon DEF CInv, Before
      <3>2. handlers \in Seq(Call)
        BY Zenon DEF CInv, Types
      <3> QED BY <3>1, <3>2, SMTT(30) DEF Rights
    <2>5. /\ Len(handlers') = Len(handlers) + 1 /\ handlers'[Len(handlers) + 1] = c
          /\ \A i \in 1 .. Len(handlers) : handlers'[i] = handlers[i]
      BY <2>1, <2>4
    <2>6. Astray => Astray'
      <3>1. \A d \in Call : d /= c => handler'[d] = handler[d]
        BY DEF Add, add_ref_and_arm, CInv, Types
      <3>2. ASSUME handlers /= << >>, handler[Head(handlers)].timer /= "armed"
            PROVE  handlers' /= << >> /\ handler'[Head(handlers')].timer /= "armed"
        <4>1. /\ Head(handlers) = handlers[1] /\ 1 \in 1 .. Len(handlers) /\ handlers[1] \in Call
              /\ handlers' /= << >> /\ Head(handlers') = handlers'[1]
          BY <2>1, <2>4, <3>2
        <4>2. handlers[1] /= c /\ handlers'[1] = handlers[1]
          BY <2>4, <2>5, <4>1, ZenonT(60) DEF InSeq
        <4> QED BY <3>1, <3>2, <4>1, <4>2
      <3> QED BY <1>2, <1>3, <1>8, <3>2, ZenonT(60) DEF Astray, SameLine
    <2>7. ASSUME InStep PROVE InStep'
      <3>1. Waits(c) /\ \A d \in Call : Waits(d) /\ d /= c => Ahead(d, c)
        BY <1>1, <2>7, ZenonT(60) DEF InStep
      <3>2. \A i \in 1 .. Len(handlers') : i \in 1 .. Len(handlers) \/ i = Len(handlers) + 1
        BY <2>4, <2>5
      <3>3. \A i \in 1 .. Len(handlers) : handlers[i] \in Call /\ Waits(handlers[i]) /\ handlers[i] /= c
        BY <2>4, <2>7 DEF InStep, InSeq
      <3>4. \A i \in 1 .. Len(handlers') : Waits(handlers[i])'
        BY <1>4, <2>5, <3>1, <3>2, <3>3, ZenonT(60)
      <3>5. \A i, j \in 1 .. Len(handlers') : i < j => Ahead(handlers[i], handlers[j])'
        <4> SUFFICES ASSUME NEW i \in 1 .. Len(handlers'), NEW j \in 1 .. Len(handlers'), i < j
                     PROVE  Ahead(handlers'[i], handlers'[j])
          BY <1>4, ZenonT(60)
        <4>1. i \in 1 .. Len(handlers)
          BY <2>4, <2>5
        <4>2. CASE j = Len(handlers) + 1
          BY <2>5, <3>1, <3>3, <4>1, <4>2
        <4>3. CASE j \in 1 .. Len(handlers)
          BY <2>5, <2>7, <4>1, <4>3, ZenonT(60) DEF InStep
        <4> QED BY <3>2, <4>2, <4>3, ZenonT(60)
      <3>6. \A d \in Call : Waits(d)' => InSeq(d, handlers')
        <4>1. \A d : InSeq(d, handlers') <=> InSeq(d, handlers) \/ d = c
          BY <2>1, <2>4, AppendOrder
        <4>2. ASSUME NEW d \in Call, d /= c, pc[Caller(d)] = "add" PROVE FALSE
          BY <1>2, <1>6, <4>2
        <4> QED BY <1>4, <2>7, <4>1, <4>2, ZenonT(60) DEF InStep
      <3> QED BY <1>6, <3>4, <3>5, <3>6, ZenonT(60) DEF InStep
    <2> QED BY <2>2, <2>3, <2>6, <2>7, ZenonT(60) DEF Line, Aside, OwnersStay
  <1> QED BY <1>7, <1>8, ZenonT(60)

\* At first nothing is on the way.
LEMMA InitLine ==
  Init => Line
  <1> SUFFICES ASSUME Init PROVE Line
    BY Zenon
  <1> USE ThreadsDiffer
  <1>1. /\ endpoint.queue = << >> /\ ~ endpoint.released /\ ~ endpoint.called
        /\ handlers = << >> /\ peer.asked = << >> /\ peer.answer = NoCall
        /\ lock = [l \in {"connects", "call", "handlers", "queue"} |-> {}]
    BY DEF Init
  <1>2. peer \in Peer
    BY DEF Init, Peer
  <1>3. \A t \in Thread : pc[t] \in {"start", "idle", "done"}
    BY DEF Init
  <1>4. Current = NoCall /\ NoCall \notin Call
    BY <1>3, LevinAssumption, ZenonT(60) DEF Current
  <1>5. \A c \in Call : ~ Waits(c) /\ ~ Ahead(c, c)
    BY <1>1, <1>4, SMTT(30) DEF Waits, Ahead, InSeq, Precedes
  <1>6. Once /\ Owners
    BY <1>3, <1>5, ZenonT(60) DEF Once, Owners, Holding
  <1>7. InStep
    BY <1>1, <1>3, <1>5, SMTT(30) DEF InStep
  <1> QED BY <1>1, <1>2, <1>3, <1>6, <1>7, ZenonT(60) DEF Line

\* Every action, by the lemma about it.
LEMMA NextLine ==
  CInv /\ HInv /\ Line /\ [Next]_vars => Line'
  <1> SUFFICES ASSUME CInv, HInv, Line, [Next]_vars PROVE Line'
    BY Zenon
  <1>1. ASSUME NEW t \in Thread, Subroutine(t) PROVE Line'
    BY <1>1, CalmSubroutines, ReleaseLine, PushLine, CalmOthers, ZenonT(60) DEF Subroutine
  <1>2. ASSUME NEW c \in Call, OfCall(c) \/ Expire(c) \/ Find(Caller(c), "call") PROVE Line'
    BY <1>2, AddLine, CalmOthers, Zenon DEF OfCall
  <1>3. CASE Find(Sender, "send") \/ CloseConnection \/ Erase \/ Idle \/ Delete \/ UNCHANGED vars
    BY <1>3, CalmOthers, Zenon
  <1>4. CASE OfStrand
    BY <1>4, MatchLine, CalmStrand, Zenon DEF OfStrand
  <1>5. CASE ReceiveAnswer
    BY <1>5, ReceiveLine, Zenon
  <1>6. CASE ReceiveRequest \/ ReadEnd \/ WriteError
    BY <1>6, CalmStrand, Zenon
  <1>7. CASE Write
    BY <1>7, WriteLine
  <1>8. CASE Die
    BY <1>8, ReleaseLine, Zenon
  <1> QED BY <1>1, <1>2, <1>3, <1>4, <1>5, <1>6, <1>7, <1>8, ZenonT(60) DEF Next

\* A callback that is told something of its own call.
LEMMA OwnResult ==
  ASSUME CInv, NoCrossedAnswers, NEW c \in Call, NEW x, CallBack(c, x),
         got[c] = << >>, x[1] = "answer" => x[2] = c
  PROVE  NoCrossedAnswers'
  <1>1. /\ got'[c] = Append(<< >>, x)
        /\ \A d \in Call : d /= c => got'[d] = got[d]
    BY Zenon DEF CallBack, CInv, Types
  <1>2. DOMAIN Append(<< >>, x) = {1} /\ Append(<< >>, x)[1] = x
    <2>1. << >> \in Seq({x})
      OBVIOUS
    <2> QED BY <2>1
  <1>3. \A i \in DOMAIN got'[c] : got'[c][i] = x
    BY <1>1, <1>2, Zenon
  <1> QED BY <1>1, <1>3, ZenonT(60) DEF NoCrossedAnswers

\* Only Handle tells a callback an answer, and it is the one of its call.
LEMMA NextAnswers ==
  CInv /\ Line /\ NoCrossedAnswers /\ [Next]_vars => NoCrossedAnswers'
  <1> SUFFICES ASSUME CInv, Line, NoCrossedAnswers, [Next]_vars PROVE NoCrossedAnswers'
    BY Zenon
  <1>1. ASSUME UNCHANGED got PROVE NoCrossedAnswers'
    BY <1>1, Zenon DEF NoCrossedAnswers
  <1>2. ASSUME NEW t \in Thread, Cancel(t) PROVE NoCrossedAnswers'
    <2>1. list \in Seq(Call) /\ list /= << >> /\ Distinct(list)
      BY <1>2, Zenon DEF Cancel, CInv, Types, Lists
    <2>2. PICK c \in Call : c = Head(list) /\ InSeq(c, list)
      BY <2>1, TailForgets, Zenon
    <2>3. handler' = [handler EXCEPT ![c] = CancelTimer(@)] /\ handler'[c] = CancelTimer(handler[c])
      BY <1>2, <2>2, ZenonT(60) DEF Cancel, CInv, Types
    <2>4. CASE handler'[c].won
      <3>1. Rights(c) /\ ~ handler[c].won
        BY <2>2, ZenonT(60) DEF CInv, Rights
      <3>2. got[c] = << >>
        BY <2>3, <2>4, <3>1, CancelOnce, ZenonT(60) DEF Rights
      <3>3. CallBack(c, <<"destroyed", c>>)
        BY <1>2, <2>2, <2>4, ZenonT(60) DEF Cancel
      <3> QED BY <3>2, <3>3, OwnResult, ZenonT(60)
    <2>5. CASE ~ handler'[c].won
      BY <1>1, <1>2, <2>2, <2>5, ZenonT(60) DEF Cancel
    <2> QED BY <2>4, <2>5, Zenon
  <1>3. ASSUME NEW c \in Call, Error(c) PROVE NoCrossedAnswers'
    <2>1. got[c] = << >> /\ CallBack(c, <<"error", c>>)
      BY <1>3, ZenonT(60) DEF Error, CInv, Rights
    <2> QED BY <2>1, OwnResult, ZenonT(60)
  <1>4. ASSUME NEW c \in Call, TimedOut(c) PROVE NoCrossedAnswers'
    <2>1. got[c] = << >> /\ CallBack(c, <<"timeout", c>>)
      BY <1>4, ZenonT(60) DEF TimedOut, CInv, Rights
    <2> QED BY <2>1, OwnResult, ZenonT(60)
  <1>5. CASE Handle
    <2>1. PICK c \in Call : c = back[Strand]
      BY <1>5, Zenon DEF Handle, CInv
    <2>2. got[c] = << >> /\ CallBack(c, <<"answer", c>>)
      BY <1>5, <2>1, ZenonT(60) DEF Handle, CInv, Rights, Line
    <2> QED BY <2>2, OwnResult, Zenon
  <1>6. ASSUME NEW t \in Thread, Subroutine(t) PROVE NoCrossedAnswers'
    BY <1>1, <1>2, <1>6, ZenonT(60) DEF Subroutine, Swap, Cancelled, CloseBegin, CloseLook, CloseEnd,
         SendCheck, SendPush, SendFull, TakeLocks, Finish
  <1>7. ASSUME NEW c \in Call, OfCall(c) \/ Expire(c) \/ Find(Caller(c), "call")
        PROVE  NoCrossedAnswers'
    BY <1>1, <1>3, <1>4, <1>7, ZenonT(60) DEF OfCall, Add, Expire, Find
  <1>8. CASE Find(Sender, "send") \/ CloseConnection \/ Erase \/ Idle
    BY <1>1, <1>8, ZenonT(60) DEF Find, CloseConnection, Erase, Idle
  <1>9. CASE OfStrand
    BY <1>1, <1>5, <1>9, ZenonT(60) DEF OfStrand, Match, ReadOn, Refuse
  <1>10. CASE ReceiveAnswer \/ ReceiveRequest \/ ReadEnd \/ Write \/ WriteError
    BY <1>1, <1>10, ZenonT(60) DEF ReceiveAnswer, ReceiveRequest, Receive, ReadEnd, Write, WriteError
  <1>11. CASE Die \/ Delete \/ UNCHANGED vars
    BY <1>1, <1>11, Zenon DEF Die, Delete, vars
  <1> QED BY <1>6, <1>7, <1>8, <1>9, <1>10, <1>11 DEF Next

\* Answers carry no name of the request they are for: they are matched by their
\* order alone.  Still no callback is given the answer to another call, for any
\* number of calls that time out, are refused, are closed or shut down between
\* their requests and the answers.
THEOREM AnswersAreNotCrossed ==
  Spec => []NoCrossedAnswers
  <1>1. Init => NoCrossedAnswers
    BY DEF Init, NoCrossedAnswers
  <1> QED BY <1>1, InitCInv, NextCInv, InitHInv, NextHInv, InitLine, NextLine, NextAnswers, PTL
          DEF Spec
==============================================================================
