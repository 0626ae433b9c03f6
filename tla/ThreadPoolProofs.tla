-------------------------- MODULE ThreadPoolProofs --------------------------
(* When wait has returned, no job of the task is queued or running: for any  *)
(* number of clients and workers and any program of jobs that submit jobs,   *)
(* leaves, and jobs that throw.                                              *)
(*                                                                           *)
(* The counter of a waiter counts the jobs that were queued; those that      *)
(* submit ran on the spot are not counted, and it is only the stack that     *)
(* keeps their submitter from waiting.  So the invariant has two parts.  One *)
(* is about the stacks: a task has one body, and below a job that submit     *)
(* runs is the body of its submitter.  The other is about the set of bodies: *)
(* a job is begun once and after its submitter, a job that is queued or      *)
(* running has a submitter that has not ended, and num counts.  The errors   *)
(* are then a matter of where finish puts them.                              *)
EXTENDS ThreadPool, TLAPS

BodyFrame == [call : {"body"}, task : Tasks, from : {"thread", "submit", "run"},
              submitted : Nat, at : {"submit", "wait", "end"}, thrown : BOOLEAN]
RunFrame == [call : {"run"}, flush : BOOLEAN, counted : BOOLEAN]
Frame == BodyFrame \cup RunFrame

-----------------------------------------------------------------------------
(* The stacks.                                                               *)

\* What is below the body at place i of a stack s.
Fits(s, i) ==
  s[i].call = "body" =>
    /\ s[i].from = "thread" => s[i].task \in Clients
    /\ s[i].from = "submit" => /\ i > 1 /\ s[i - 1].call = "body" /\ s[i - 1].at = "submit"
                               /\ s[i - 1].thrown = FALSE
                               /\ s[i].task \in Kids(s[i - 1].task)
    /\ s[i].from = "run" => i > 1 /\ s[i - 1].call = "run" /\ s[i].task \in Jobs

Nested == \A t \in Threads : \A i \in 1 .. Len(stack[t]) : Fits(stack[t], i)

BodyAt(t, i, p) == stack[t][i].call = "body" /\ stack[t][i].task = p

OneBody ==
  \A p \in Tasks : \A t, u \in Threads :
    \A i \in 1 .. Len(stack[t]), k \in 1 .. Len(stack[u]) :
      BodyAt(t, i, p) /\ BodyAt(u, k, p) => t = u /\ i = k

Stacks == stack \in [Threads -> Seq(Frame)] /\ Nested /\ OneBody

\* A body is a frame of some stack.
LEMMA BodyPlace ==
  ASSUME Stacks, NEW f
  PROVE  f \in Bodies <=> \E t \in Threads : \E i \in 1 .. Len(stack[t]) :
                             stack[t][i] = f /\ f.call = "body"
<1>1. ASSUME NEW t \in Threads PROVE DOMAIN stack[t] = 1 .. Len(stack[t])
  BY <1>1 DEF Stacks
<1>2. f \in Bodies <=> \E t \in Threads : \E i \in DOMAIN stack[t] :
                         stack[t][i] = f /\ f.call = "body"
  BY DEF Bodies, Range
<1> QED BY <1>1, <1>2, Zenon

\* A step that replaces the frames of t above the place m by those of r.
LEMMA StackMoves ==
  ASSUME Stacks, NEW t \in Threads, NEW r \in Seq(Frame), stack' = [stack EXCEPT ![t] = r],
         NEW m \in Nat, m <= Len(stack[t]), m <= Len(r),
         \A i \in 1 .. m : r[i] = stack[t][i],
         \A i \in m + 1 .. Len(r) : Fits(r, i),
         \A i, k \in m + 1 .. Len(r) :
           r[i].call = "body" /\ r[k].call = "body" /\ r[i].task = r[k].task => i = k,
         \A i \in m + 1 .. Len(r) : r[i].call = "body" =>
           \/ \E k \in m + 1 .. Len(stack[t]) : BodyAt(t, k, r[i].task)
           \/ \A f \in Bodies : f.task # r[i].task
  PROVE  /\ Stacks'
         /\ Bodies' = (Bodies \ {stack[t][k] : k \in m + 1 .. Len(stack[t])})
                        \cup {f \in {r[k] : k \in m + 1 .. Len(r)} : f.call = "body"}
<1>1. /\ stack' \in [Threads -> Seq(Frame)] /\ stack'[t] = r
      /\ \A u \in Threads : u # t => stack'[u] = stack[u]
  BY Zenon DEF Stacks
<1>2. /\ stack[t] \in Seq(Frame) /\ Len(stack[t]) \in Nat /\ Len(r) \in Nat
      /\ \A u \in Threads : Len(stack[u]) \in Nat
  BY DEF Stacks
<1>3. Nested'
  <2> SUFFICES ASSUME NEW u \in Threads, NEW i \in 1 .. Len(stack'[u])
               PROVE  Fits(stack'[u], i)
    BY Zenon DEF Nested
  <2>1. CASE u # t
    BY <1>1, <2>1, Zenon DEF Stacks, Nested
  <2>2. CASE u = t /\ i <= m
    <3>1. /\ i \in 1 .. m /\ i \in 1 .. Len(stack[t]) /\ r[i] = stack[t][i]
          /\ i > 1 => i - 1 \in 1 .. m /\ r[i - 1] = stack[t][i - 1]
      BY <1>1, <1>2, <2>2
    <3>2. Fits(stack[t], i)
      BY <3>1, Zenon DEF Stacks, Nested
    <3> QED BY <1>1, <2>2, <3>1, <3>2, Zenon DEF Fits
  <2>3. CASE u = t /\ i > m
    BY <1>1, <1>2, <2>3
  <2> QED BY <2>1, <2>2, <2>3, <1>2
<1>4. OneBody'
  <2> SUFFICES ASSUME NEW p \in Tasks, NEW u \in Threads, NEW v \in Threads,
                      NEW i \in 1 .. Len(stack'[u]), NEW k \in 1 .. Len(stack'[v]),
                      stack'[u][i].call = "body", stack'[u][i].task = p,
                      stack'[v][k].call = "body", stack'[v][k].task = p
               PROVE  u = v /\ i = k
    BY DEF OneBody, BodyAt
  \* an old frame, one that is still there
  <2>o. ASSUME NEW x \in Threads, NEW j \in 1 .. Len(stack'[x]), ~ (x = t /\ j > m)
        PROVE  j \in 1 .. Len(stack[x]) /\ stack'[x][j] = stack[x][j]
    BY <1>1, <1>2, <2>o
  \* a new frame of p and an old one cannot both be there
  <2>n. ASSUME NEW x \in Threads, NEW j \in 1 .. Len(stack'[x]), ~ (x = t /\ j > m),
               stack'[x][j].call = "body", stack'[x][j].task = p,
               NEW n \in m + 1 .. Len(r), r[n].call = "body", r[n].task = p
        PROVE  FALSE
    <3>1. j \in 1 .. Len(stack[x]) /\ BodyAt(x, j, p) /\ stack[x][j] \in Bodies
      BY <2>o, <2>n, BodyPlace DEF BodyAt
    <3>2. PICK l \in m + 1 .. Len(stack[t]) : BodyAt(t, l, p)
      BY <2>n, <3>1, ZenonT(60) DEF BodyAt
    <3>3. l \in 1 .. Len(stack[t])
      BY <1>2
    <3>4. x = t /\ j = l
      BY <3>1, <3>2, <3>3, Zenon DEF Stacks, OneBody
    <3> QED BY <2>n, <3>2, <3>4, <1>2
  <2>1. CASE ~ (u = t /\ i > m) /\ ~ (v = t /\ k > m)
    BY <2>o, <2>1 DEF Stacks, OneBody, BodyAt
  <2>2. CASE (u = t /\ i > m) /\ ~ (v = t /\ k > m)
    <3>1. i \in m + 1 .. Len(r) /\ stack'[u][i] = r[i]
      BY <1>1, <1>2, <2>2
    <3> QED BY <2>n, <2>2, <3>1, Zenon
  <2>3. CASE ~ (u = t /\ i > m) /\ (v = t /\ k > m)
    <3>1. k \in m + 1 .. Len(r) /\ stack'[v][k] = r[k]
      BY <1>1, <1>2, <2>3
    <3> QED BY <2>n, <2>3, <3>1, Zenon
  <2>4. CASE (u = t /\ i > m) /\ (v = t /\ k > m)
    BY <1>1, <1>2, <2>4
  <2> QED BY <2>1, <2>2, <2>3, <2>4, Zenon
<1>5. Bodies' = (Bodies \ {stack[t][k] : k \in m + 1 .. Len(stack[t])})
                  \cup {f \in {r[k] : k \in m + 1 .. Len(r)} : f.call = "body"}
  <2>p. ASSUME NEW f
        PROVE  f \in Bodies' <=> \E u \in Threads : \E i \in 1 .. Len(stack'[u]) :
                                    stack'[u][i] = f /\ f.call = "body"
    BY DEF Bodies, Range
  <2>1. ASSUME NEW f \in Bodies'
        PROVE  \/ f \in Bodies /\ f \notin {stack[t][k] : k \in m + 1 .. Len(stack[t])}
               \/ f.call = "body" /\ \E k \in m + 1 .. Len(r) : r[k] = f
    <3>u. PICK u \in Threads :
            \E i \in 1 .. Len(stack'[u]) : stack'[u][i] = f /\ f.call = "body"
      BY <2>p, <2>1, Zenon
    <3>1. PICK i \in 1 .. Len(stack'[u]) : stack'[u][i] = f /\ f.call = "body"
      BY <3>u, Zenon
    <3>2. CASE u = t /\ i > m
      BY <1>1, <1>2, <3>1, <3>2
    <3>3. CASE ~ (u = t /\ i > m)
      <4>1. i \in 1 .. Len(stack[u]) /\ stack[u][i] = f
        BY <1>1, <1>2, <3>1, <3>3
      <4>2. f \in Bodies /\ f \in Frame
        BY <3>1, <4>1, BodyPlace, <1>2 DEF Stacks
      <4>3. f.task \in Tasks
        BY <4>2, <3>1, Zenon DEF Frame, BodyFrame, RunFrame
      <4>4. ASSUME NEW k \in m + 1 .. Len(stack[t]), stack[t][k] = f PROVE FALSE
        <5>1. k \in 1 .. Len(stack[t])
          BY <1>2
        <5>2. u = t /\ i = k
          BY <3>1, <4>1, <4>3, <4>4, <5>1 DEF Stacks, OneBody, BodyAt
        <5> QED BY <1>2, <3>3, <5>2
      <4> QED BY <4>2, <4>4, Zenon
    <3> QED BY <3>2, <3>3, Zenon
  <2>2. ASSUME NEW f \in Bodies, f \notin {stack[t][k] : k \in m + 1 .. Len(stack[t])}
        PROVE  f \in Bodies'
    <3>u. PICK u \in Threads :
            \E i \in 1 .. Len(stack[u]) : stack[u][i] = f /\ f.call = "body"
      BY BodyPlace, Zenon
    <3>1. PICK i \in 1 .. Len(stack[u]) : stack[u][i] = f /\ f.call = "body"
      BY <3>u, Zenon
    <3>2. ~ (u = t /\ i > m)
      BY <1>2, <2>2, <3>1
    <3>3. i \in 1 .. Len(stack'[u]) /\ stack'[u][i] = f
      BY <1>1, <1>2, <3>1, <3>2
    <3> QED BY <2>p, <3>1, <3>3
  <2>3. ASSUME NEW k \in m + 1 .. Len(r), r[k].call = "body" PROVE r[k] \in Bodies'
    <3>1. k \in 1 .. Len(stack'[t]) /\ stack'[t][k] = r[k]
      BY <1>1, <1>2
    <3> QED BY <2>p, <2>3, <3>1
  <2> QED BY <2>1, <2>2, <2>3
<1> QED BY <1>1, <1>3, <1>4, <1>5, Zenon DEF Stacks

-----------------------------------------------------------------------------
(* The frames and what the calls and returns of a thread do to the bodies.   *)

\* The two kinds of frame.
LEMMA FrameKinds ==
  \A f \in Frame : /\ f.call = "body" => f \in BodyFrame
                   /\ f.call = "run" => f \in RunFrame
                   /\ f.call \in {"body", "run"}
  BY Zenon DEF Frame, BodyFrame, RunFrame

\* The stacks that Return and Replace leave.
LEMMA StackShapes ==
  ASSUME NEW s \in Seq(Frame), s # <<>>, NEW g \in Frame
  PROVE  /\ Len(s) \in Nat \ {0} /\ Last(s) = s[Len(s)] /\ Last(s) \in Frame
         /\ Front(s) \in Seq(Frame) /\ Len(Front(s)) = Len(s) - 1
         /\ \A i \in 1 .. Len(s) - 1 : Front(s)[i] = s[i]
         /\ Append(Front(s), g) \in Seq(Frame) /\ Len(Append(Front(s), g)) = Len(s)
         /\ \A i \in 1 .. Len(s) - 1 : Append(Front(s), g)[i] = s[i]
         /\ Append(Front(s), g)[Len(s)] = g
<1>1. Len(s) \in Nat \ {0} /\ Last(s) = s[Len(s)] /\ Last(s) \in Frame
  BY DEF Last
<1>2. PICK r : r = Front(s)
  BY Zenon
<1>3. r \in Seq(Frame) /\ Len(r) = Len(s) - 1 /\ \A i \in 1 .. Len(s) - 1 : r[i] = s[i]
  <2>1. r = SubSeq(s, 1, Len(s) - 1) /\ Len(s) - 1 \in 0 .. Len(s)
    BY <1>1, <1>2 DEF Front
  <2>2. r = [i \in 1 .. Len(s) - 1 |-> s[i]]
    BY <1>1, <2>1
  <2>3. \A i \in 1 .. Len(s) - 1 : s[i] \in Frame
    BY <1>1
  <2> QED BY <1>1, <2>2, <2>3
<1>4. /\ Append(r, g) \in Seq(Frame) /\ Len(Append(r, g)) = Len(s)
      /\ \A i \in 1 .. Len(s) - 1 : Append(r, g)[i] = s[i]
      /\ Append(r, g)[Len(s)] = g
  BY <1>1, <1>3
<1> QED BY <1>1, <1>2, <1>3, <1>4, Zenon

LEMMA Concat ==
  ASSUME NEW S, NEW q \in Seq(S), NEW l \in Seq(S)
  PROVE  /\ q \o l \in Seq(S) /\ Len(q \o l) = Len(q) + Len(l)
         /\ \A i \in 1 .. Len(q) + Len(l) :
              (q \o l)[i] = IF i <= Len(q) THEN q[i] ELSE l[i - Len(q)]
  OBVIOUS

\* Two frames on top of a stack.
LEMMA TwoMore ==
  ASSUME NEW q \in Seq(Frame), NEW l \in Seq(Frame), Len(l) = 2
  PROVE  /\ q \o l \in Seq(Frame) /\ Len(q \o l) = Len(q) + 2
         /\ \A i \in 1 .. Len(q) : (q \o l)[i] = q[i]
         /\ (q \o l)[Len(q) + 1] = l[1] /\ (q \o l)[Len(q) + 2] = l[2]
<1> DEFINE r == q \o l
<1>1. /\ r \in Seq(Frame) /\ Len(r) = Len(q) + Len(l)
      /\ \A i \in 1 .. Len(q) + Len(l) :
           r[i] = IF i <= Len(q) THEN q[i] ELSE l[i - Len(q)]
  BY Concat, Zenon
<1> HIDE DEF r
<1>2. Len(q) \in Nat /\ (Len(q) + 1) - Len(q) = 1 /\ (Len(q) + 2) - Len(q) = 2
  OBVIOUS
<1>3. /\ r \in Seq(Frame) /\ Len(r) = Len(q) + 2
      /\ \A i \in 1 .. Len(q) : r[i] = q[i]
  BY <1>1, <1>2
<1>4. r[Len(q) + 1] = l[1] /\ r[Len(q) + 2] = l[2]
  BY <1>1, <1>2
<1> QED BY <1>3, <1>4, Zenon DEF r

\* A task has one body.
LEMMA BodyUnique ==
  ASSUME Stacks
  PROVE  /\ \A f \in Bodies : f \in BodyFrame /\ f.task \in Tasks
         /\ \A f, g \in Bodies : f.task = g.task => f = g
<1>1. ASSUME NEW f \in Bodies PROVE f \in BodyFrame /\ f.task \in Tasks
  <2>1. f \in Frame /\ f.call = "body"
    BY BodyPlace DEF Stacks
  <2> QED BY <2>1, FrameKinds, Zenon DEF BodyFrame
<1>2. ASSUME NEW f \in Bodies, NEW g \in Bodies, f.task = g.task PROVE f = g
  <2>1. PICK t \in Threads : \E i \in 1 .. Len(stack[t]) : stack[t][i] = f /\ f.call = "body"
    BY BodyPlace, Zenon
  <2>2. PICK i \in 1 .. Len(stack[t]) : stack[t][i] = f /\ f.call = "body"
    BY <2>1, Zenon
  <2>3. PICK u \in Threads : \E k \in 1 .. Len(stack[u]) : stack[u][k] = g /\ g.call = "body"
    BY BodyPlace, Zenon
  <2>4. PICK k \in 1 .. Len(stack[u]) : stack[u][k] = g /\ g.call = "body"
    BY <2>3, Zenon
  <2>5. t = u /\ i = k
    BY <1>1, <1>2, <2>2, <2>4 DEF Stacks, OneBody, BodyAt
  <2> QED BY <2>2, <2>4, <2>5, Zenon
<1> QED BY <1>1, <1>2, Zenon

\* While submit runs a job, its submitter is at submit.
LEMMA SubmitterBelow ==
  ASSUME Stacks, NEW f \in Bodies
  PROVE  /\ f.from = "submit" => \E g \in Bodies : g.at = "submit" /\ f.task \in Kids(g.task)
         /\ f.from = "thread" => f.task \in Clients
         /\ f.from = "run" => f.task \in Jobs
<1>1. PICK t \in Threads : \E i \in 1 .. Len(stack[t]) : stack[t][i] = f /\ f.call = "body"
  BY BodyPlace, Zenon
<1>2. PICK i \in 1 .. Len(stack[t]) : stack[t][i] = f /\ f.call = "body"
  BY <1>1, Zenon
<1>3. Fits(stack[t], i)
  BY Zenon DEF Stacks, Nested
<1>4. ASSUME f.from = "submit"
      PROVE  \E g \in Bodies : g.at = "submit" /\ f.task \in Kids(g.task)
  <2>1. /\ i > 1 /\ stack[t][i - 1].call = "body" /\ stack[t][i - 1].at = "submit"
        /\ f.task \in Kids(stack[t][i - 1].task)
    BY <1>2, <1>3, <1>4, Zenon DEF Fits
  <2>2. i - 1 \in 1 .. Len(stack[t])
    BY <2>1 DEF Stacks
  <2>3. stack[t][i - 1] \in Bodies
    BY <2>1, <2>2, BodyPlace, Zenon
  <2> QED BY <2>1, <2>3, Zenon
<1> QED BY <1>2, <1>3, <1>4, Zenon DEF Fits

\* The innermost frame of a thread.
LEMMA TopFrame ==
  ASSUME Stacks, NEW t \in Threads, stack[t] # <<>>
  PROVE  /\ stack[t] \in Seq(Frame) /\ top(t) = stack[t][Len(stack[t])]
         /\ Len(stack[t]) \in Nat \ {0} /\ Len(stack[t]) \in 1 .. Len(stack[t])
         /\ top(t) \in Frame /\ Fits(stack[t], Len(stack[t]))
         /\ top(t).call = "body" => top(t) \in Bodies /\ top(t) \in BodyFrame
         /\ top(t).call # "body" => top(t) \notin Bodies
<1>1. stack[t] \in Seq(Frame)
  BY Zenon DEF Stacks
<1>2. /\ Len(stack[t]) \in Nat \ {0} /\ Len(stack[t]) \in 1 .. Len(stack[t])
      /\ top(t) = stack[t][Len(stack[t])] /\ top(t) \in Frame
  BY <1>1 DEF top, Last
<1>3. Fits(stack[t], Len(stack[t]))
  BY <1>2, Zenon DEF Stacks, Nested
<1>4. top(t).call = "body" => top(t) \in Bodies /\ top(t) \in BodyFrame
  BY <1>2, FrameKinds, BodyPlace, Zenon
<1>5. top(t).call # "body" => top(t) \notin Bodies
  BY BodyPlace, Zenon
<1> QED BY <1>1, <1>2, <1>3, <1>4, <1>5, Zenon

\* The top frame is replaced by another of the same kind and task.
SameCall(f, g) ==
  /\ g \in Frame /\ g.call = f.call
  /\ f.call = "body" => g.task = f.task /\ g.from = f.from

LEMMA ReplaceMoves ==
  ASSUME Stacks, NEW t \in Threads, stack[t] # <<>>, NEW g, SameCall(top(t), g), Replace(t, g)
  PROVE  /\ Stacks'
         /\ top(t).call = "body" => Bodies' = (Bodies \ {top(t)}) \cup {g}
         /\ top(t).call = "run" => Bodies' = Bodies
<1> DEFINE n == Len(stack[t])
           r == Append(Front(stack[t]), g)
<1>1. /\ n \in Nat \ {0} /\ top(t) = stack[t][n] /\ Fits(stack[t], n) /\ top(t) \in Frame
      /\ top(t).call # "body" => top(t) \notin Bodies
  BY TopFrame, Zenon
<1>2. /\ r \in Seq(Frame) /\ Len(r) = n /\ r[n] = g
      /\ \A i \in 1 .. n - 1 : r[i] = stack[t][i]
  <2>1. g \in Frame /\ stack[t] \in Seq(Frame)
    BY TopFrame, Zenon DEF SameCall
  <2> QED BY <2>1, StackShapes, Zenon
<1>3. stack' = [stack EXCEPT ![t] = r]
  BY Zenon DEF Replace, Stacks
<1> HIDE DEF n, r
<1>4. /\ n - 1 \in Nat /\ n - 1 <= Len(stack[t]) /\ n - 1 <= Len(r)
      /\ \A i \in (n - 1) + 1 .. Len(r) : i = n
      /\ \A i \in (n - 1) + 1 .. Len(stack[t]) : i = n
      /\ n \in (n - 1) + 1 .. Len(stack[t]) /\ n \in (n - 1) + 1 .. Len(r)
  BY <1>1, <1>2 DEF n
<1>5. Fits(r, n)
  <2>1. n > 1 => r[n - 1] = stack[t][n - 1]
    BY <1>1, <1>2
  <2> QED BY <1>1, <1>2, <2>1, Zenon DEF Fits, SameCall
<1>6. r[n].call = "body" => BodyAt(t, n, r[n].task)
  BY <1>1, <1>2, Zenon DEF BodyAt, SameCall
<1>7. /\ Stacks'
      /\ Bodies' = (Bodies \ {stack[t][k] : k \in (n - 1) + 1 .. Len(stack[t])})
                     \cup {f \in {r[k] : k \in (n - 1) + 1 .. Len(r)} : f.call = "body"}
  <2>1. \A i \in (n - 1) + 1 .. Len(r) : Fits(r, i)
    BY <1>4, <1>5, Zenon
  <2>2. \A i, k \in (n - 1) + 1 .. Len(r) :
          r[i].call = "body" /\ r[k].call = "body" /\ r[i].task = r[k].task => i = k
    BY <1>4, Zenon
  <2>3. \A i \in (n - 1) + 1 .. Len(r) : r[i].call = "body" =>
          \/ \E k \in (n - 1) + 1 .. Len(stack[t]) : BodyAt(t, k, r[i].task)
          \/ \A f \in Bodies : f.task # r[i].task
    BY <1>4, <1>6, Zenon
  <2> QED BY <1>2, <1>3, <1>4, <2>1, <2>2, <2>3, StackMoves, Zenon
<1>8. /\ {stack[t][k] : k \in (n - 1) + 1 .. Len(stack[t])} = {top(t)}
      /\ {r[k] : k \in (n - 1) + 1 .. Len(r)} = {g}
  BY <1>1, <1>2, <1>4
<1> QED BY <1>1, <1>7, <1>8, Zenon DEF SameCall

\* The top frame is left.
LEMMA ReturnMoves ==
  ASSUME Stacks, NEW t \in Threads, stack[t] # <<>>, Return(t)
  PROVE  Stacks' /\ Bodies' = Bodies \ {top(t)}
<1> DEFINE n == Len(stack[t])
           r == Front(stack[t])
<1>1. n \in Nat \ {0} /\ top(t) = stack[t][n] /\ top(t) \in Frame /\ stack[t] \in Seq(Frame)
  BY TopFrame, Zenon
<1>2. /\ r \in Seq(Frame) /\ Len(r) = n - 1
      /\ \A i \in 1 .. n - 1 : r[i] = stack[t][i]
  BY <1>1, StackShapes, Zenon
<1>3. stack' = [stack EXCEPT ![t] = r]
  BY Zenon DEF Return, Stacks
<1> HIDE DEF n, r
<1>4. /\ n - 1 \in Nat /\ n - 1 <= Len(stack[t]) /\ n - 1 <= Len(r)
      /\ (n - 1) + 1 .. Len(r) = {}
      /\ \A i \in (n - 1) + 1 .. Len(stack[t]) : i = n
      /\ n \in (n - 1) + 1 .. Len(stack[t])
  BY <1>1, <1>2 DEF n
<1>5. /\ Stacks'
      /\ Bodies' = (Bodies \ {stack[t][k] : k \in (n - 1) + 1 .. Len(stack[t])})
                     \cup {f \in {r[k] : k \in (n - 1) + 1 .. Len(r)} : f.call = "body"}
  BY <1>2, <1>3, <1>4, StackMoves, Zenon
<1>6. /\ {stack[t][k] : k \in (n - 1) + 1 .. Len(stack[t])} = {top(t)}
      /\ {r[k] : k \in (n - 1) + 1 .. Len(r)} = {}
  BY <1>1, <1>4, Zenon
<1> QED BY <1>5, <1>6, Zenon

\* The top frame goes on as g when the call of h returns.
LEMMA CallMoves ==
  ASSUME Stacks, NEW t \in Threads, stack[t] # <<>>, NEW g, SameCall(top(t), g),
         NEW h \in Frame, Call(t, g, h),
         h.call = "body" =>
           /\ \A f \in Bodies : f.task # h.task
           /\ \/ /\ h.from = "submit" /\ g.call = "body" /\ g.at = "submit"
                 /\ g.thrown = FALSE /\ h.task \in Kids(g.task)
              \/ h.from = "run" /\ g.call = "run" /\ h.task \in Jobs
  PROVE  /\ Stacks'
         /\ Bodies' = (Bodies \ {top(t)}) \cup {f \in {g, h} : f.call = "body"}
<1> DEFINE n == Len(stack[t])
           r == Front(stack[t]) \o <<g, h>>
<1>1. /\ n \in Nat \ {0} /\ top(t) = stack[t][n] /\ Fits(stack[t], n) /\ top(t) \in Frame
      /\ stack[t] \in Seq(Frame)
      /\ top(t).call = "body" => top(t) \in Bodies
  BY TopFrame, Zenon
<1>2. /\ r \in Seq(Frame) /\ Len(r) = n + 1 /\ r[n] = g /\ r[n + 1] = h
      /\ \A i \in 1 .. n - 1 : r[i] = stack[t][i]
  <2>1. g \in Frame
    BY Zenon DEF SameCall
  <2>2. PICK q : q = Front(stack[t])
    BY Zenon
  <2>3. q \in Seq(Frame) /\ Len(q) = n - 1 /\ \A i \in 1 .. n - 1 : q[i] = stack[t][i]
    BY <1>1, <2>1, <2>2, StackShapes, Zenon
  <2>4. PICK l : l = <<g, h>>
    BY Zenon
  <2>5. l \in Seq(Frame) /\ Len(l) = 2 /\ l[1] = g /\ l[2] = h
    BY <2>1, <2>4
  <2>6. r = q \o l
    BY <2>2, <2>4, Zenon
  <2> HIDE DEF n, r
  <2>7. /\ r \in Seq(Frame) /\ Len(r) = Len(q) + 2
        /\ \A i \in 1 .. Len(q) : r[i] = q[i]
        /\ r[Len(q) + 1] = l[1] /\ r[Len(q) + 2] = l[2]
    BY <2>3, <2>5, <2>6, TwoMore
  <2>8. Len(q) + 1 = n /\ Len(q) + 2 = n + 1 /\ 1 .. Len(q) = 1 .. n - 1
    BY <1>1, <2>3
  <2> QED BY <2>3, <2>5, <2>7, <2>8, Zenon
<1>3. stack' = [stack EXCEPT ![t] = r]
  BY Zenon DEF Call, Stacks
<1> HIDE DEF n, r
<1>4. /\ n - 1 \in Nat /\ n - 1 <= Len(stack[t]) /\ n - 1 <= Len(r)
      /\ \A i \in (n - 1) + 1 .. Len(r) : i = n \/ i = n + 1
      /\ \A i \in (n - 1) + 1 .. Len(stack[t]) : i = n
      /\ n \in (n - 1) + 1 .. Len(stack[t])
      /\ n \in (n - 1) + 1 .. Len(r) /\ n + 1 \in (n - 1) + 1 .. Len(r)
      /\ n + 1 > 1 /\ (n + 1) - 1 = n
  BY <1>1, <1>2 DEF n
<1>5. Fits(r, n)
  <2>1. n > 1 => r[n - 1] = stack[t][n - 1]
    BY <1>1, <1>2
  <2> QED BY <1>1, <1>2, <2>1, Zenon DEF Fits, SameCall
<1>6. Fits(r, n + 1)
  BY <1>2, <1>4, Zenon DEF Fits
<1>7. r[n].call = "body" => BodyAt(t, n, r[n].task)
  BY <1>1, <1>2, Zenon DEF BodyAt, SameCall
<1>8. r[n].call = "body" /\ r[n + 1].call = "body" => r[n].task # r[n + 1].task
  BY <1>1, <1>2, Zenon DEF SameCall
<1>9. /\ Stacks'
      /\ Bodies' = (Bodies \ {stack[t][k] : k \in (n - 1) + 1 .. Len(stack[t])})
                     \cup {f \in {r[k] : k \in (n - 1) + 1 .. Len(r)} : f.call = "body"}
  <2>1. \A i \in (n - 1) + 1 .. Len(r) : Fits(r, i)
    BY <1>4, <1>5, <1>6, Zenon
  <2>2. \A i, k \in (n - 1) + 1 .. Len(r) :
          r[i].call = "body" /\ r[k].call = "body" /\ r[i].task = r[k].task => i = k
    BY <1>4, <1>8, Zenon
  <2>3. \A i \in (n - 1) + 1 .. Len(r) : r[i].call = "body" =>
          \/ \E k \in (n - 1) + 1 .. Len(stack[t]) : BodyAt(t, k, r[i].task)
          \/ \A f \in Bodies : f.task # r[i].task
    BY <1>2, <1>4, <1>7, Zenon
  <2> QED BY <1>2, <1>3, <1>4, <2>1, <2>2, <2>3, StackMoves, Zenon
<1>10. /\ {stack[t][k] : k \in (n - 1) + 1 .. Len(stack[t])} = {top(t)}
       /\ {r[k] : k \in (n - 1) + 1 .. Len(r)} = {g, h}
  BY <1>1, <1>2, <1>4
<1> QED BY <1>9, <1>10, Zenon

\* The frame below a job that submit or run called.
LEMMA CallerFrame ==
  ASSUME Stacks, NEW t \in Threads, stack[t] # <<>>, top(t).call = "body",
         top(t).from # "thread", NEW n, n = Len(stack[t])
  PROVE  /\ n \in Nat /\ n > 1 /\ n - 1 \in 1 .. n
         /\ below(t) \in Seq(Frame) /\ below(t) # <<>> /\ Len(below(t)) = n - 1
         /\ \A i \in 1 .. n - 1 : below(t)[i] = stack[t][i]
         /\ Last(below(t)) = stack[t][n - 1] /\ Last(below(t)) \in Frame
         /\ Fits(stack[t], n - 1)
         /\ top(t).from = "submit" => /\ Last(below(t)) \in Bodies
                                      /\ Last(below(t)).call = "body"
                                      /\ Last(below(t)).at = "submit"
                                      /\ Last(below(t)).thrown = FALSE
                                      /\ top(t).task \in Kids(Last(below(t)).task)
         /\ top(t).from = "run" => Last(below(t)).call = "run" /\ top(t).task \in Jobs
<1>1. /\ stack[t] \in Seq(Frame) /\ top(t) = stack[t][n] /\ n \in Nat \ {0}
      /\ top(t) \in BodyFrame /\ top(t) \in Frame /\ Fits(stack[t], n)
  BY TopFrame, Zenon
<1>2. top(t).from \in {"submit", "run"}
  BY <1>1, Zenon DEF BodyFrame
<1>3. n > 1 /\ n - 1 \in 1 .. n
  BY <1>1, <1>2 DEF Fits
<1>4. PICK b : b = below(t)
  BY Zenon
<1>5. b \in Seq(Frame) /\ Len(b) = n - 1 /\ \A i \in 1 .. n - 1 : b[i] = stack[t][i]
  BY <1>1, <1>4, StackShapes, Zenon DEF below
<1>6. b # <<>> /\ Last(b) = stack[t][n - 1] /\ Last(b) \in Frame
  BY <1>3, <1>5 DEF Last
<1>7. Fits(stack[t], n - 1)
  BY <1>3, Zenon DEF Stacks, Nested
<1>8. top(t).from = "submit" => /\ Last(b) \in Bodies
                                /\ Last(b).call = "body" /\ Last(b).at = "submit"
                                /\ Last(b).thrown = FALSE
                                /\ top(t).task \in Kids(Last(b).task)
  BY <1>1, <1>3, <1>6, BodyPlace DEF Fits
<1>9. top(t).from = "run" => Last(b).call = "run" /\ top(t).task \in Jobs
  BY <1>1, <1>6, Zenon DEF Fits
<1> QED BY <1>1, <1>3, <1>4, <1>5, <1>6, <1>7, <1>8, <1>9, Zenon

\* The job ends and the frame below it goes on as g.
LEMMA ResumeMoves ==
  ASSUME Stacks, NEW t \in Threads, stack[t] # <<>>, top(t).call = "body",
         top(t).from # "thread", NEW g, SameCall(Last(below(t)), g),
         stack' = [stack EXCEPT ![t] = Append(Front(below(t)), g)]
  PROVE  /\ Stacks'
         /\ Bodies' = (Bodies \ {top(t), Last(below(t))}) \cup {f \in {g} : f.call = "body"}
<1>1. PICK n, c, r : n = Len(stack[t]) /\ c = Last(below(t)) /\ r = Append(Front(below(t)), g)
  BY Zenon
<1>2. /\ n \in Nat /\ n > 1 /\ n - 1 \in 1 .. n
      /\ below(t) \in Seq(Frame) /\ below(t) # <<>> /\ Len(below(t)) = n - 1
      /\ \A i \in 1 .. n - 1 : below(t)[i] = stack[t][i]
      /\ c = stack[t][n - 1] /\ Fits(stack[t], n - 1) /\ c \in Frame
  BY <1>1, CallerFrame, Zenon
<1>3. top(t) = stack[t][n]
  BY <1>1, TopFrame, Zenon
<1>4. /\ r \in Seq(Frame) /\ Len(r) = n - 1 /\ r[n - 1] = g
      /\ \A i \in 1 .. n - 2 : r[i] = stack[t][i]
  <2>1. PICK b : b = below(t)
    BY Zenon
  <2>2. g \in Frame
    BY Zenon DEF SameCall
  <2>3. /\ r \in Seq(Frame) /\ Len(r) = Len(b) /\ r[Len(b)] = g
        /\ \A i \in 1 .. Len(b) - 1 : r[i] = b[i]
    BY <1>1, <1>2, <2>1, <2>2, StackShapes
  <2>4. Len(b) = n - 1 /\ Len(b) - 1 = n - 2 /\ \A i \in 1 .. n - 2 : i \in 1 .. n - 1
    BY <1>2, <2>1
  <2> QED BY <1>2, <2>1, <2>3, <2>4, Zenon
<1>5. stack' = [stack EXCEPT ![t] = r]
  BY <1>1, Zenon
<1>6. /\ n - 2 \in Nat /\ n - 2 <= Len(stack[t]) /\ n - 2 <= Len(r)
      /\ \A i \in (n - 2) + 1 .. Len(r) : i = n - 1
      /\ \A i \in (n - 2) + 1 .. Len(stack[t]) : i = n - 1 \/ i = n
      /\ n - 1 \in (n - 2) + 1 .. Len(r) /\ n - 1 \in (n - 2) + 1 .. Len(stack[t])
      /\ n \in (n - 2) + 1 .. Len(stack[t])
  BY <1>1, <1>2, <1>4
<1>7. Fits(r, n - 1)
  <2>1. n - 1 > 1 => r[(n - 1) - 1] = stack[t][(n - 1) - 1]
    BY <1>2, <1>4
  <2> QED BY <1>1, <1>2, <1>4, <2>1, ZenonT(40) DEF Fits, SameCall
<1>8. r[n - 1].call = "body" => BodyAt(t, n - 1, r[n - 1].task)
  BY <1>1, <1>2, <1>4 DEF BodyAt, SameCall
<1>9. /\ Stacks'
      /\ Bodies' = (Bodies \ {stack[t][k] : k \in (n - 2) + 1 .. Len(stack[t])})
                     \cup {f \in {r[k] : k \in (n - 2) + 1 .. Len(r)} : f.call = "body"}
  <2>1. \A i \in (n - 2) + 1 .. Len(r) : Fits(r, i)
    BY <1>6, <1>7, Zenon
  <2>2. \A i, k \in (n - 2) + 1 .. Len(r) :
          r[i].call = "body" /\ r[k].call = "body" /\ r[i].task = r[k].task => i = k
    BY <1>6, Zenon
  <2>3. \A i \in (n - 2) + 1 .. Len(r) : r[i].call = "body" =>
          \/ \E k \in (n - 2) + 1 .. Len(stack[t]) : BodyAt(t, k, r[i].task)
          \/ \A f \in Bodies : f.task # r[i].task
    BY <1>6, <1>8, Zenon
  <2>4. \A i \in 1 .. n - 2 : r[i] = stack[t][i]
    BY <1>4, Zenon
  <2> QED BY <1>4, <1>5, <1>6, <2>1, <2>2, <2>3, <2>4, StackMoves, Zenon
<1>10. /\ {stack[t][k] : k \in (n - 2) + 1 .. Len(stack[t])} = {top(t), c}
       /\ {r[k] : k \in (n - 2) + 1 .. Len(r)} = {g}
  BY <1>2, <1>3, <1>4, <1>6
<1> QED BY <1>1, <1>9, <1>10, Zenon

-----------------------------------------------------------------------------
(* The life of a task, said of the set B of bodies, the set Q of queued      *)
(* jobs, the set W of the tasks whose wait has returned and the set O of     *)
(* the tasks that have ended.                                                *)

Single(B) == /\ \A f \in B : f \in BodyFrame
             /\ \A f, g \in B : f.task = g.task => f = g

Has(B, p) == \E f \in B : f.task = p
Begun(B, O, p) == p \in O \/ Has(B, p)
Open(B, p, n) == \E f \in B : f.task = p /\ f.at # "end" /\ n <= f.submitted
Fresh(B, p, n) == \E f \in B : f.task = p /\ f.submitted < n
AtEnd(B, p) == \E f \in B : f.task = p /\ f.at = "end"

\* The n-th job of p is queued or running only while p has submitted it and not
\* ended; it has begun only if p has; and not before p submits it.
Life(B, Q, O, p, n, j) ==
  /\ j \in Q \/ Has(B, j) => Open(B, p, n)
  /\ j \in Q \/ Begun(B, O, j) => Begun(B, O, p)
  /\ Fresh(B, p, n) => j \notin Q /\ ~Begun(B, O, j)

Good(B, Q, W, O) ==
  /\ \A j \in Q : j \in Jobs /\ ~Begun(B, O, j) /\ \E p \in Tasks : j \in Kids(p)
  /\ \A f \in B : f.task \notin O /\ (f.from = "run" => \E p \in Tasks : f.task \in Kids(p))
  /\ \A p \in Tasks : \A n \in DOMAIN Submits[p] : Life(B, Q, O, p, n, Submits[p][n])
  /\ \A p \in W : Begun(B, O, p) /\ (Has(B, p) => AtEnd(B, p))

\* The tasks that are leaving by an exception.
Thrown(B) == {p \in Tasks : \E f \in B : f.task = p /\ f.thrown}

\* The jobs that the waiter of p counts.
Counted(B, Q, p) == {j \in Kids(p) : j \in Q \/ \E f \in B : f.task = j /\ f.from = "run"}

\* The jobs are numbered.
LEMMA KidsOf ==
  ASSUME NEW p \in Tasks
  PROVE  /\ \A n \in DOMAIN Submits[p] : /\ n \in Nat \ {0} /\ Submits[p][n] \in Jobs
                                         /\ Submits[p][n] \in Tasks
                                         /\ Submits[p][n] \in Kids(p)
         /\ \A j \in Kids(p) : j \in Jobs /\ \E n \in DOMAIN Submits[p] : Submits[p][n] = j
         /\ \A q \in Tasks, n \in DOMAIN Submits[p] : \A k \in DOMAIN Submits[q] :
              Submits[p][n] = Submits[q][k] => p = q /\ n = k
         /\ \A q \in Tasks : \A j \in Kids(p) : j \in Kids(q) => p = q
<1>1. Submits[p] \in Seq(Jobs)
  BY ThreadPoolAssumption, Zenon
<1>2. \A n \in DOMAIN Submits[p] : n \in Nat \ {0} /\ Submits[p][n] \in Jobs
  BY <1>1
<1>3. \A q \in Tasks, n \in DOMAIN Submits[p] : \A k \in DOMAIN Submits[q] :
        Submits[p][n] = Submits[q][k] => p = q /\ n = k
  BY ThreadPoolAssumption, Zenon
<1> QED BY <1>2, <1>3 DEF Kids, Range, Tasks

\* What C tells of the tasks, when the body f of B goes on as g.
Viewed(B, C, f, g) ==
  /\ Single(C)
  /\ \A p : Has(C, p) <=> Has(B, p)
  /\ \A p : p # f.task => /\ \A n : Open(C, p, n) <=> Open(B, p, n)
                          /\ \A n : Fresh(C, p, n) <=> Fresh(B, p, n)
                          /\ AtEnd(C, p) <=> AtEnd(B, p)
  /\ \A n : Open(B, f.task, n) <=> f.at # "end" /\ n <= f.submitted
  /\ \A n : Fresh(B, f.task, n) <=> f.submitted < n
  /\ AtEnd(B, f.task) <=> f.at = "end"
  /\ \A n : Open(C, f.task, n) <=> g.at # "end" /\ n <= g.submitted
  /\ \A n : Fresh(C, f.task, n) <=> g.submitted < n
  /\ AtEnd(C, f.task) <=> g.at = "end"

LEMMA ViewGoes ==
  ASSUME NEW B, Single(B), NEW f \in B, NEW g \in BodyFrame, g.task = f.task,
         NEW C, C = (B \ {f}) \cup {g}
  PROVE  Viewed(B, C, f, g)
<1>1. Single(C)
  BY DEF Single
<1>2. /\ \A x \in B : x.task = f.task <=> x = f
      /\ \A x \in C : x.task = f.task <=> x = g
      /\ \A x : x.task # f.task => (x \in C <=> x \in B)
      /\ f \in B /\ g \in C
  BY Zenon DEF Single
<1>3. \A p : Has(C, p) <=> Has(B, p)
  BY <1>2, Zenon DEF Has
<1>4. \A p : p # f.task => /\ \A n : Open(C, p, n) <=> Open(B, p, n)
                           /\ \A n : Fresh(C, p, n) <=> Fresh(B, p, n)
                           /\ AtEnd(C, p) <=> AtEnd(B, p)
  BY <1>2, Zenon DEF Open, Fresh, AtEnd
<1>5. /\ \A n : Open(B, f.task, n) <=> f.at # "end" /\ n <= f.submitted
      /\ \A n : Fresh(B, f.task, n) <=> f.submitted < n
      /\ AtEnd(B, f.task) <=> f.at = "end"
  BY <1>2, Zenon DEF Open, Fresh, AtEnd
<1>6. /\ \A n : Open(C, f.task, n) <=> g.at # "end" /\ n <= g.submitted
      /\ \A n : Fresh(C, f.task, n) <=> g.submitted < n
      /\ AtEnd(C, f.task) <=> g.at = "end"
  BY <1>2, Zenon DEF Open, Fresh, AtEnd
<1> QED BY <1>1, <1>3, <1>4, <1>5, <1>6, Zenon DEF Viewed

\* A task throws, or goes on to wait.
LEMMA GoodGoes ==
  ASSUME NEW B, NEW Q, NEW W, NEW O, Single(B), Good(B, Q, W, O),
         NEW f \in B, NEW g \in BodyFrame, g.task = f.task, g.from = f.from,
         g.submitted = f.submitted, f.at # "end", g.at # "end",
         NEW C, C = (B \ {f}) \cup {g}
  PROVE  Single(C) /\ Good(C, Q, W, O)
<1>1. /\ Single(C)
      /\ \A p : Has(C, p) <=> Has(B, p)
      /\ \A p, n : Open(C, p, n) <=> Open(B, p, n)
      /\ \A p, n : Fresh(C, p, n) <=> Fresh(B, p, n)
      /\ \A p : AtEnd(C, p) <=> AtEnd(B, p)
  <2>0. Viewed(B, C, f, g)
    BY ViewGoes, Zenon
  <2>1. /\ Single(C)
        /\ \A p : Has(C, p) <=> Has(B, p)
        /\ \A p : p # f.task => /\ \A n : Open(C, p, n) <=> Open(B, p, n)
                                /\ \A n : Fresh(C, p, n) <=> Fresh(B, p, n)
                                /\ AtEnd(C, p) <=> AtEnd(B, p)
    BY <2>0, Zenon DEF Viewed
  <2>2. /\ \A n : Open(B, f.task, n) <=> f.at # "end" /\ n <= f.submitted
        /\ \A n : Fresh(B, f.task, n) <=> f.submitted < n
        /\ AtEnd(B, f.task) <=> f.at = "end"
        /\ \A n : Open(C, f.task, n) <=> g.at # "end" /\ n <= g.submitted
        /\ \A n : Fresh(C, f.task, n) <=> g.submitted < n
        /\ AtEnd(C, f.task) <=> g.at = "end"
    BY <2>0, Zenon DEF Viewed
  <2>3. \A n : /\ Open(C, f.task, n) <=> Open(B, f.task, n)
               /\ Fresh(C, f.task, n) <=> Fresh(B, f.task, n)
    BY <2>2, Zenon
  <2>4. AtEnd(C, f.task) <=> AtEnd(B, f.task)
    BY <2>2, Zenon
  <2> QED BY <2>1, <2>3, <2>4, Zenon
<1>2. \A x \in C : x.task \notin O /\ (x.from = "run" => \E p \in Tasks : x.task \in Kids(p))
  BY Zenon DEF Good
<1>3. \A p : Begun(C, O, p) <=> Begun(B, O, p)
  BY <1>1, Zenon DEF Begun
<1> QED BY <1>1, <1>2, <1>3, Zenon DEF Good, Life

\* A task's wait returns, when none of its jobs is queued or running.
LEMMA GoodWaited ==
  ASSUME NEW B, NEW Q, NEW W, NEW O, Single(B), Good(B, Q, W, O),
         NEW f \in B, NEW g \in BodyFrame, g.task = f.task, g.from = f.from,
         g.submitted = f.submitted, g.at = "end",
         \A j \in Kids(f.task) : j \notin Q /\ ~Has(B, j),
         NEW C, C = (B \ {f}) \cup {g}, NEW V, V \subseteq W \cup {f.task}
  PROVE  Good(C, Q, V, O)
<1>1. /\ \A p : Has(C, p) <=> Has(B, p)
      /\ \A p, n : p # f.task => (Open(C, p, n) <=> Open(B, p, n))
      /\ \A p, n : Fresh(C, p, n) <=> Fresh(B, p, n)
      /\ \A p : p # f.task => (AtEnd(C, p) <=> AtEnd(B, p))
      /\ AtEnd(C, f.task)
  <2>0. Viewed(B, C, f, g)
    BY ViewGoes, Zenon
  <2>1. /\ Single(C)
        /\ \A p : Has(C, p) <=> Has(B, p)
        /\ \A p : p # f.task => /\ \A n : Open(C, p, n) <=> Open(B, p, n)
                                /\ \A n : Fresh(C, p, n) <=> Fresh(B, p, n)
                                /\ AtEnd(C, p) <=> AtEnd(B, p)
    BY <2>0, Zenon DEF Viewed
  <2>2. /\ \A n : Open(B, f.task, n) <=> f.at # "end" /\ n <= f.submitted
        /\ \A n : Fresh(B, f.task, n) <=> f.submitted < n
        /\ AtEnd(B, f.task) <=> f.at = "end"
        /\ \A n : Open(C, f.task, n) <=> g.at # "end" /\ n <= g.submitted
        /\ \A n : Fresh(C, f.task, n) <=> g.submitted < n
        /\ AtEnd(C, f.task) <=> g.at = "end"
    BY <2>0, Zenon DEF Viewed
  <2>3. \A n : Fresh(C, f.task, n) <=> Fresh(B, f.task, n)
    BY <2>2, Zenon
  <2>4. AtEnd(C, f.task)
    BY <2>2, Zenon
  <2> QED BY <2>1, <2>3, <2>4, Zenon
<1>2. \A x \in C : x.task \notin O /\ (x.from = "run" => \E p \in Tasks : x.task \in Kids(p))
  BY Zenon DEF Good
<1>3. /\ \A p : Begun(C, O, p) <=> Begun(B, O, p)
      /\ Begun(C, O, f.task)
  BY <1>1, Zenon DEF Begun, Has
<1>4. ASSUME NEW p \in Tasks, NEW n \in DOMAIN Submits[p]
      PROVE  Life(C, Q, O, p, n, Submits[p][n])
  <2>1. Life(B, Q, O, p, n, Submits[p][n]) /\ Submits[p][n] \in Kids(p)
    BY KidsOf, Zenon DEF Good
  <2> QED BY <1>1, <1>3, <2>1, Zenon DEF Life
<1> QED BY <1>1, <1>2, <1>3, <1>4, Zenon DEF Good

\* A task submits its next job j, to the queue.
Submitting(f, g, j) ==
  /\ g \in BodyFrame /\ g.task = f.task /\ g.from = f.from
  /\ g.submitted = f.submitted + 1 /\ f.at = "submit" /\ g.at = "submit"
  /\ g.submitted \in DOMAIN Submits[f.task] /\ j = Submits[f.task][g.submitted]
  /\ f.thrown = FALSE /\ g.thrown = FALSE

LEMMA GoodQueues ==
  ASSUME NEW B, NEW Q, NEW W, NEW O, Single(B), Good(B, Q, W, O),
         NEW f \in B, NEW g, NEW j, Submitting(f, g, j), NEW C, C = (B \ {f}) \cup {g}
  PROVE  /\ Single(C) /\ Good(C, Q \cup {j}, W, O)
         /\ j \notin Q /\ ~Begun(B, O, j)
<1> USE DEF Submitting
<1>0. f \in BodyFrame /\ f.task \in Tasks /\ f.submitted \in Nat
  BY Zenon DEF Single, BodyFrame
<1>1. /\ Single(C)
      /\ \A p : Has(C, p) <=> Has(B, p)
      /\ \A p, n : p # f.task => (Open(C, p, n) <=> Open(B, p, n))
      /\ \A p, n : p # f.task => (Fresh(C, p, n) <=> Fresh(B, p, n))
      /\ \A p : AtEnd(C, p) <=> AtEnd(B, p)
      /\ Fresh(B, f.task, g.submitted)
      /\ Open(C, f.task, g.submitted)
      /\ ~Fresh(C, f.task, g.submitted)
  <2>0. Viewed(B, C, f, g)
    BY ViewGoes, Zenon
  <2>1. /\ Single(C)
        /\ \A p : Has(C, p) <=> Has(B, p)
        /\ \A p : p # f.task => /\ \A n : Open(C, p, n) <=> Open(B, p, n)
                                /\ \A n : Fresh(C, p, n) <=> Fresh(B, p, n)
                                /\ AtEnd(C, p) <=> AtEnd(B, p)
    BY <2>0, Zenon DEF Viewed
  <2>2. /\ \A n : Open(B, f.task, n) <=> f.at # "end" /\ n <= f.submitted
        /\ \A n : Fresh(B, f.task, n) <=> f.submitted < n
        /\ AtEnd(B, f.task) <=> f.at = "end"
        /\ \A n : Open(C, f.task, n) <=> g.at # "end" /\ n <= g.submitted
        /\ \A n : Fresh(C, f.task, n) <=> g.submitted < n
        /\ AtEnd(C, f.task) <=> g.at = "end"
    BY <2>0, Zenon DEF Viewed
  <2>3. AtEnd(C, f.task) <=> AtEnd(B, f.task)
    BY <2>2, Zenon
  <2>4. f.submitted < g.submitted /\ g.submitted <= g.submitted /\ ~ (g.submitted < g.submitted)
    BY <1>0
  <2>5. /\ Fresh(B, f.task, g.submitted)
        /\ Open(C, f.task, g.submitted)
        /\ ~Fresh(C, f.task, g.submitted)
    BY <2>2, <2>4, Zenon
  <2> QED BY <2>1, <2>3, <2>5, Zenon
<1>2. ASSUME NEW n \in Nat
      PROVE  /\ Open(B, f.task, n) => Open(C, f.task, n)
             /\ Fresh(C, f.task, n) => Fresh(B, f.task, n)
  <2>0. Viewed(B, C, f, g)
    BY ViewGoes, Zenon
  <2>1. /\ Open(B, f.task, n) <=> f.at # "end" /\ n <= f.submitted
        /\ Fresh(B, f.task, n) <=> f.submitted < n
        /\ Open(C, f.task, n) <=> g.at # "end" /\ n <= g.submitted
        /\ Fresh(C, f.task, n) <=> g.submitted < n
    BY <2>0, Zenon DEF Viewed
  <2>2. /\ n <= f.submitted => n <= g.submitted
        /\ g.submitted < n => f.submitted < n
    BY <1>0
  <2> QED BY <2>1, <2>2, Zenon
<1>3. \A x \in C : x.task \notin O /\ (x.from = "run" => \E p \in Tasks : x.task \in Kids(p))
  BY Zenon DEF Good
<1>4. \A p : Begun(C, O, p) <=> Begun(B, O, p)
  BY <1>1, Zenon DEF Begun
<1>5. /\ Life(B, Q, O, f.task, g.submitted, j)
      /\ j \in Jobs /\ j \in Kids(f.task)
  BY <1>0, KidsOf DEF Good
<1>6. j \notin Q /\ ~Begun(B, O, j)
  BY <1>1, <1>5, Zenon DEF Life
<1>7. Begun(C, O, f.task)
  BY <1>1, Zenon DEF Begun, Has
<1>8. ASSUME NEW p \in Tasks, NEW n \in DOMAIN Submits[p]
      PROVE  Life(C, Q \cup {j}, O, p, n, Submits[p][n])
  <2>1. Life(B, Q, O, p, n, Submits[p][n]) /\ n \in Nat
    BY KidsOf, Zenon DEF Good
  <2>2. CASE p = f.task /\ n = g.submitted
    BY <1>1, <1>7, <2>2, Zenon DEF Life
  <2>3. CASE ~ (p = f.task /\ n = g.submitted)
    <3>1. Submits[p][n] # j
      BY <1>0, <2>3, KidsOf
    <3>2. /\ Open(B, p, n) => Open(C, p, n)
          /\ Fresh(C, p, n) => Fresh(B, p, n)
      BY <1>1, <1>2, <2>1, Zenon
    <3> QED BY <1>1, <1>4, <2>1, <3>1, <3>2, Zenon DEF Life
  <2> QED BY <2>2, <2>3, Zenon
<1>9. \A i \in Q \cup {j} : i \in Jobs /\ ~Begun(C, O, i) /\ \E p \in Tasks : i \in Kids(p)
  BY <1>0, <1>4, <1>5, <1>6, Zenon DEF Good
<1> QED BY <1>1, <1>3, <1>4, <1>6, <1>8, <1>9, Zenon DEF Good

\* A queued job begins.
LEMMA GoodTakes ==
  ASSUME NEW B, NEW Q, NEW W, NEW O, Single(B), Good(B, Q, W, O),
         NEW h \in BodyFrame, h.task \in Q, h.submitted = 0,
         NEW C, C = B \cup {h}
  PROVE  Single(C) /\ Good(C, Q \ {h.task}, W, O)
<1>0. /\ h.task \in Jobs /\ ~Begun(B, O, h.task) /\ ~Has(B, h.task)
      /\ \E p \in Tasks : h.task \in Kids(p)
  BY Zenon DEF Good, Begun
<1>1. Single(C)
  BY <1>0, Zenon DEF Single, Has
<1>2. /\ \A p : Has(C, p) <=> Has(B, p) \/ p = h.task
      /\ \A p, n : Open(B, p, n) => Open(C, p, n)
      /\ \A p, n : p # h.task => (Fresh(C, p, n) <=> Fresh(B, p, n))
      /\ \A p : p # h.task => (AtEnd(C, p) <=> AtEnd(B, p))
  BY Zenon DEF Has, Open, Fresh, AtEnd
<1>3. \A x \in C : x.task \notin O /\ (x.from = "run" => \E p \in Tasks : x.task \in Kids(p))
  BY <1>0, Zenon DEF Good, Begun
<1>4. \A p : Begun(C, O, p) <=> Begun(B, O, p) \/ p = h.task
  BY <1>2, Zenon DEF Begun
<1>5. ASSUME NEW p \in Tasks, NEW n \in DOMAIN Submits[p]
      PROVE  Life(C, Q \ {h.task}, O, p, n, Submits[p][n])
  <2> DEFINE j == Submits[p][n]
  <2>1. Life(B, Q, O, p, n, j)
    BY Zenon DEF Good
  <2> HIDE DEF j
  <2>2. j \in Q \ {h.task} \/ Has(C, j) => Open(C, p, n)
    BY <1>2, <2>1, Zenon DEF Life
  <2>3. j \in Q \ {h.task} \/ Begun(C, O, j) => Begun(C, O, p)
    BY <1>4, <2>1, Zenon DEF Life
  <2>4. ASSUME Fresh(C, p, n) PROVE j \notin Q \ {h.task} /\ ~Begun(C, O, j)
    <3>1. CASE p = h.task
      \* the job has not begun, so none of its own jobs has; nor is it its own
      BY <1>0, <1>4, <2>1, <3>1, Zenon DEF Life
    <3>2. CASE p # h.task
      BY <1>2, <1>4, <2>1, <2>4, <3>2, Zenon DEF Life
    <3> QED BY <3>1, <3>2, Zenon
  <2> QED BY <2>2, <2>3, <2>4, Zenon DEF Life, j
<1>6. \A p \in W : Begun(C, O, p) /\ (Has(C, p) => AtEnd(C, p))
  BY <1>0, <1>2, <1>4, Zenon DEF Good
<1>7. \A i \in Q \ {h.task} : i \in Jobs /\ ~Begun(C, O, i) /\ \E p \in Tasks : i \in Kids(p)
  BY <1>4, Zenon DEF Good
<1> QED BY <1>1, <1>3, <1>5, <1>6, <1>7, Zenon DEF Good

\* A task ends.
LEMMA GoodEnds ==
  ASSUME NEW B, NEW Q, NEW W, NEW O, Single(B), Good(B, Q, W, O),
         NEW f \in B, f.at = "end", NEW C, C = B \ {f}, NEW P, P = O \cup {f.task}
  PROVE  Single(C) /\ Good(C, Q, W, P)
<1>1. Single(C) /\ \A x \in B : x.task = f.task => x = f
  BY Zenon DEF Single
<1>2. /\ \A p : Has(C, p) <=> Has(B, p) /\ p # f.task
      /\ \A p, n : p # f.task => (Open(C, p, n) <=> Open(B, p, n))
      /\ \A n : ~Open(B, f.task, n)
      /\ \A p, n : Fresh(C, p, n) => Fresh(B, p, n)
      /\ \A p : p # f.task => (AtEnd(C, p) <=> AtEnd(B, p))
  BY <1>1, Zenon DEF Has, Open, Fresh, AtEnd
<1>3. \A p : Begun(C, P, p) <=> Begun(B, O, p)
  BY <1>2, Zenon DEF Begun, Has
<1>4. ASSUME NEW p \in Tasks, NEW n \in DOMAIN Submits[p]
      PROVE  Life(C, Q, P, p, n, Submits[p][n])
  <2>1. Life(B, Q, O, p, n, Submits[p][n])
    BY Zenon DEF Good
  <2> QED BY <1>2, <1>3, <2>1, Zenon DEF Life
<1>5. \A x \in C : x.task \notin P /\ (x.from = "run" => \E p \in Tasks : x.task \in Kids(p))
  BY <1>1, Zenon DEF Good
<1> QED BY <1>1, <1>2, <1>3, <1>4, <1>5, Zenon DEF Good

-----------------------------------------------------------------------------
(* The queue and the counters.                                               *)

Distinct(q) == \A i, k \in 1 .. Len(q) : q[i] = q[k] => i = k

\* A new job, in front or at the back.
LEMMA QueueIn ==
  ASSUME NEW q \in Seq(Jobs), Distinct(q), NEW j \in Jobs, j \notin Range(q),
         NEW r, r = <<j>> \o q \/ r = Append(q, j)
  PROVE  r \in Seq(Jobs) /\ Distinct(r) /\ Range(r) = Range(q) \cup {j}
<1>1. \A i \in 1 .. Len(q) : q[i] # j
  BY DEF Range
<1>2. CASE r = Append(q, j)
  <2>1. /\ r \in Seq(Jobs) /\ Len(r) = Len(q) + 1 /\ Len(q) \in Nat
        /\ \A i \in 1 .. Len(q) : r[i] = q[i]
        /\ r[Len(q) + 1] = j
    BY <1>2
  <2>2. Distinct(r)
    BY <1>1, <2>1 DEF Distinct
  <2>3. DOMAIN r = 1 .. Len(q) + 1 /\ DOMAIN q = 1 .. Len(q)
    BY <2>1
  <2>4. Range(r) = Range(q) \cup {j}
    <3>1. \A x \in Range(r) : x \in Range(q) \cup {j}
      BY <2>1, <2>3 DEF Range
    <3>2. \A x \in Range(q) : x \in Range(r)
      BY <2>1, <2>3 DEF Range
    <3>3. j \in Range(r)
      BY <2>1, <2>3 DEF Range
    <3> QED BY <3>1, <3>2, <3>3, Zenon
  <2> QED BY <2>1, <2>2, <2>4, Zenon
<1>3. CASE r = <<j>> \o q
  <2>1. /\ r \in Seq(Jobs) /\ Len(r) = Len(q) + 1 /\ Len(q) \in Nat
        /\ \A i \in 1 .. Len(q) : r[i + 1] = q[i]
        /\ r[1] = j
    <3>1. PICK l : l = <<j>>
      BY Zenon
    <3>2. l \in Seq(Jobs) /\ Len(l) = 1 /\ l[1] = j
      BY <3>1
    <3>3. /\ r \in Seq(Jobs) /\ Len(r) = Len(l) + Len(q)
          /\ \A i \in 1 .. Len(l) + Len(q) : r[i] = IF i <= Len(l) THEN l[i] ELSE q[i - Len(l)]
      BY <1>3, <3>1, <3>2, Concat, ZenonT(40)
    <3>4. ASSUME NEW i \in 1 .. Len(q) PROVE r[i + 1] = q[i]
      <4>1. i + 1 \in 1 .. Len(l) + Len(q) /\ ~ (i + 1 <= Len(l)) /\ (i + 1) - Len(l) = i
        BY <3>2
      <4> QED BY <3>3, <4>1, Zenon
    <3>5. r[1] = j
      BY <3>2, <3>3
    <3> QED BY <3>2, <3>3, <3>4, <3>5
  <2>2. \A i \in 1 .. Len(r) : i # 1 => i - 1 \in 1 .. Len(q) /\ (i - 1) + 1 = i /\ r[i] = q[i - 1]
    BY <2>1
  <2>3. Distinct(r)
    <3> SUFFICES ASSUME NEW i \in 1 .. Len(r), NEW k \in 1 .. Len(r), r[i] = r[k] PROVE i = k
      BY Zenon DEF Distinct
    <3>1. CASE i = 1 \/ k = 1
      BY <1>1, <2>1, <2>2, <3>1
    <3>2. CASE i # 1 /\ k # 1
      <4>1. i - 1 = k - 1
        BY <2>2, <3>2, ZenonT(60) DEF Distinct
      <4> QED BY <2>1, <4>1
    <3> QED BY <3>1, <3>2, Zenon
  <2>4. DOMAIN r = 1 .. Len(r) /\ DOMAIN q = 1 .. Len(q)
    BY <2>1
  <2>5. Range(r) = Range(q) \cup {j}
    <3>0. ASSUME NEW i \in 1 .. Len(r) PROVE r[i] \in Range(q) \cup {j}
      <4>1. CASE i = 1
        BY <2>1, <4>1, Zenon
      <4>2. CASE i # 1
        <5>1. i - 1 \in DOMAIN q /\ r[i] = q[i - 1]
          BY <2>2, <2>4, <4>2, Zenon
        <5> QED BY <5>1, Zenon DEF Range
      <4> QED BY <4>1, <4>2, Zenon
    <3>1. \A x \in Range(r) : x \in Range(q) \cup {j}
      BY <2>4, <3>0, Zenon DEF Range
    <3>2. ASSUME NEW i \in 1 .. Len(q) PROVE q[i] \in Range(r)
      <4>1. i + 1 \in 1 .. Len(r) /\ r[i + 1] = q[i]
        BY <2>1
      <4> QED BY <2>4, <4>1, Zenon DEF Range
    <3>3. 1 \in 1 .. Len(r)
      BY <2>1
    <3>4. j \in Range(r)
      BY <2>1, <2>4, <3>3, Zenon DEF Range
    <3>5. \A x \in Range(q) : x \in Range(r)
      BY <2>4, <3>2, Zenon DEF Range
    <3> QED BY <3>1, <3>4, <3>5, Zenon
  <2> QED BY <2>1, <2>3, <2>5, Zenon
<1> QED BY <1>2, <1>3, Zenon

\* The first job is taken.
LEMMA QueueOut ==
  ASSUME NEW q \in Seq(Jobs), Distinct(q), q # <<>>
  PROVE  /\ Tail(q) \in Seq(Jobs) /\ Distinct(Tail(q))
         /\ Head(q) \in Range(q) /\ Head(q) \in Jobs
         /\ Range(Tail(q)) = Range(q) \ {Head(q)}
<1>1. PICK r : r = Tail(q)
  BY Zenon
<1>2. /\ r \in Seq(Jobs) /\ Len(r) = Len(q) - 1 /\ Len(q) \in Nat \ {0}
      /\ \A i \in 1 .. Len(q) - 1 : r[i] = q[i + 1]
      /\ Head(q) = q[1] /\ q[1] \in Jobs /\ 1 \in 1 .. Len(q)
      /\ DOMAIN q = 1 .. Len(q) /\ DOMAIN r = 1 .. Len(q) - 1
  BY <1>1
<1>3. \A i \in 1 .. Len(q) - 1 : i + 1 \in 1 .. Len(q) /\ i + 1 # 1
  BY <1>2
<1>4. Distinct(r)
  <2> SUFFICES ASSUME NEW i \in 1 .. Len(r), NEW k \in 1 .. Len(r), r[i] = r[k] PROVE i = k
    BY Zenon DEF Distinct
  <2>1. i + 1 = k + 1
    BY <1>2, <1>3 DEF Distinct
  <2> QED BY <1>2, <2>1
<1>5. Range(r) = Range(q) \ {q[1]}
  <2>1. \A x \in Range(r) : x \in Range(q) /\ x # q[1]
    BY <1>2, <1>3 DEF Range, Distinct
  <2>2. ASSUME NEW i \in 1 .. Len(q), q[i] # q[1] PROVE q[i] \in Range(r)
    <3>1. i - 1 \in 1 .. Len(q) - 1 /\ (i - 1) + 1 = i
      BY <1>2, <2>2
    <3>2. r[i - 1] = q[i]
      BY <1>2, <3>1, Zenon
    <3> QED BY <1>2, <3>1, <3>2, Zenon DEF Range
  <2>3. \A x \in Range(q) : x # q[1] => x \in Range(r)
    BY <1>2, <2>2 DEF Range
  <2> QED BY <2>1, <2>3, Zenon
<1>6. q[1] \in Range(q)
  BY <1>2, Zenon DEF Range
<1> QED BY <1>1, <1>2, <1>4, <1>5, <1>6, Zenon

\* S has n elements: they can be numbered from 1 to n.
Numbers(b, n, S) ==
  /\ b \in [1 .. n -> S]
  /\ \A i, k \in 1 .. n : b[i] = b[k] => i = k
  /\ \A x \in S : \E i \in 1 .. n : b[i] = x
Size(n, S) == n \in Nat /\ \E b : Numbers(b, n, S)

LEMMA SizeZero ==
  /\ Size(0, {})
  /\ \A S : Size(0, S) => S = {}
<1>1. Numbers([i \in 1 .. 0 |-> i], 0, {})
  BY DEF Numbers
<1>2. ASSUME NEW S, Size(0, S) PROVE S = {}
  BY <1>2 DEF Size, Numbers
<1> QED BY <1>1, <1>2, Zenon DEF Size

LEMMA SizeMore ==
  ASSUME NEW n, NEW S, Size(n, S), NEW x, x \notin S
  PROVE  Size(n + 1, S \cup {x})
<1>1. PICK b : Numbers(b, n, S) /\ n \in Nat
  BY Zenon DEF Size
<1>2. PICK c : c = [i \in 1 .. n + 1 |-> IF i = n + 1 THEN x ELSE b[i]]
  BY Zenon
<1>3. c \in [1 .. n + 1 -> S \cup {x}]
  BY <1>1, <1>2 DEF Numbers
<1>4. \A i, k \in 1 .. n + 1 : c[i] = c[k] => i = k
  BY <1>1, <1>2 DEF Numbers
<1>5. ASSUME NEW y \in S \cup {x} PROVE \E i \in 1 .. n + 1 : c[i] = y
  BY <1>1, <1>2 DEF Numbers
<1>6. Numbers(c, n + 1, S \cup {x})
  BY <1>3, <1>4, <1>5, Zenon DEF Numbers
<1>7. n + 1 \in Nat
  BY <1>1
<1> QED BY <1>6, <1>7, Zenon DEF Size

LEMMA SizeLess ==
  ASSUME NEW n, NEW S, Size(n, S), NEW x \in S
  PROVE  Size(n - 1, S \ {x})
<1>1. PICK b : Numbers(b, n, S) /\ n \in Nat
  BY Zenon DEF Size
<1>2. PICK m \in 1 .. n : b[m] = x
  BY <1>1, Zenon DEF Numbers
<1>3. PICK c : c = [i \in 1 .. n - 1 |-> IF i = m THEN b[n] ELSE b[i]]
  BY Zenon
<1>4. n - 1 \in Nat /\ n \in 1 .. n
  BY <1>1, <1>2
<1>5. ASSUME NEW i \in 1 .. n - 1 PROVE c[i] \in S \ {x}
  BY <1>1, <1>2, <1>3, <1>4 DEF Numbers
<1>6. \A i, k \in 1 .. n - 1 : c[i] = c[k] => i = k
  BY <1>1, <1>2, <1>3, <1>4 DEF Numbers
<1>7. ASSUME NEW y \in S \ {x} PROVE \E i \in 1 .. n - 1 : c[i] = y
  <2>1. PICK i \in 1 .. n : b[i] = y
    BY <1>1, Zenon DEF Numbers
  <2>2. i # m
    BY <1>2, <2>1, Zenon
  <2>3. CASE i = n
    <3>1. m \in 1 .. n - 1 /\ c[m] = y
      BY <1>1, <1>2, <1>3, <2>1, <2>2, <2>3
    <3> QED BY <3>1, Zenon
  <2>4. CASE i # n
    <3>1. i \in 1 .. n - 1 /\ c[i] = y
      BY <1>1, <1>3, <2>1, <2>2, <2>4
    <3> QED BY <3>1, Zenon
  <2> QED BY <2>3, <2>4, Zenon
<1>8. c \in [1 .. n - 1 -> S \ {x}]
  BY <1>3, <1>5, Zenon
<1>9. Numbers(c, n - 1, S \ {x})
  BY <1>6, <1>7, <1>8, Zenon DEF Numbers
<1> QED BY <1>4, <1>9, Zenon DEF Size

\* A body that goes on stays counted or not.
LEMMA CountedGoes ==
  ASSUME NEW B, NEW f \in B, NEW g, g.task = f.task, g.from = f.from,
         NEW C, C = (B \ {f}) \cup {g}, NEW Q, NEW p
  PROVE  Counted(C, Q, p) = Counted(B, Q, p)
<1>1. \A j : (\E x \in C : x.task = j /\ x.from = "run") <=> (\E x \in B : x.task = j /\ x.from = "run")
  BY Zenon
<1> QED BY <1>1, Zenon DEF Counted

-----------------------------------------------------------------------------
(* The invariant and the actions.                                            *)

Queued == Range(queue)
Waited == {p \in Tasks : waited[p] # "no"}
Ended == {p \in Tasks : outcome[p] # "none"}

Types ==
  /\ queue \in Seq(Jobs)
  /\ num \in [Tasks -> Int]
  /\ waited \in [Tasks -> {"no", "ok", "error"}]
  /\ outcome \in [Tasks -> {"none", "ok", "threw"}]

Count == \A p \in Tasks : Size(num[p], Counted(Bodies, Queued, p))

IInv == Stacks /\ Types /\ Distinct(queue) /\ Good(Bodies, Queued, Waited, Ended) /\ Count

\* What the body on top of a stack is.
LEMMA TopBody ==
  ASSUME IInv, NEW t \in Threads, Calls(t, "body"), NEW f, f = top(t)
  PROVE  /\ stack[t] # <<>> /\ f.call = "body" /\ f \in BodyFrame /\ f \in Bodies
         /\ f.task \in Tasks /\ f.submitted \in Nat /\ f.from \in {"thread", "submit", "run"}
         /\ f.at \in {"submit", "wait", "end"} /\ f.thrown \in BOOLEAN
         /\ Single(Bodies)
<1>1. stack[t] # <<>> /\ f.call = "body"
  BY Zenon DEF Calls, top
<1>2. f \in BodyFrame /\ f \in Bodies
  BY <1>1, TopFrame, Zenon DEF IInv
<1>3. Single(Bodies)
  BY BodyUnique, Zenon DEF IInv, Single
<1> QED BY <1>1, <1>2, <1>3, Zenon DEF BodyFrame

\* A step that changes nothing but a body that goes on.
LEMMA BodyGoes ==
  ASSUME IInv, Stacks', NEW f \in Bodies, NEW g \in BodyFrame, g.task = f.task, g.from = f.from,
         g.submitted = f.submitted, f.at # "end", g.at # "end", f.thrown => g.thrown,
         Bodies' = (Bodies \ {f}) \cup {g}, UNCHANGED <<queue, num, waited, outcome>>
  PROVE  IInv' /\ Thrown(Bodies) \subseteq Thrown(Bodies')
<1>1. Single(Bodies)
  BY BodyUnique, Zenon DEF IInv, Single
<1>2. Queued' = Queued /\ Waited' = Waited /\ Ended' = Ended
  BY Zenon DEF Queued, Waited, Ended
<1>3. Good(Bodies', Queued, Waited, Ended)
  BY <1>1, GoodGoes, Zenon DEF IInv
<1>4. \A p \in Tasks : Counted(Bodies', Queued, p) = Counted(Bodies, Queued, p)
  BY CountedGoes
<1>5. Types' /\ Distinct(queue)'
  BY Zenon DEF IInv, Types, Distinct
<1>6. Count'
  BY <1>2, <1>4, Zenon DEF IInv, Count
<1>7. Thrown(Bodies) \subseteq Thrown(Bodies')
  BY Zenon DEF Thrown
<1> QED BY <1>2, <1>3, <1>5, <1>6, <1>7, Zenon DEF IInv

\* A step that changes no body.
LEMMA BodiesStay ==
  ASSUME IInv, Stacks', Bodies' = Bodies, UNCHANGED <<queue, num, waited, outcome>>
  PROVE  IInv' /\ Thrown(Bodies) \subseteq Thrown(Bodies')
<1>1. Queued' = Queued /\ Waited' = Waited /\ Ended' = Ended
  BY Zenon DEF Queued, Waited, Ended
<1>2. Types' /\ Distinct(queue)'
  BY Zenon DEF IInv, Types, Distinct
<1>3. Count'
  BY <1>1, Zenon DEF IInv, Count
<1> QED BY <1>1, <1>2, <1>3, Zenon DEF IInv

\* submit refuses a job inside a leaf: the task throws.
LEMMA ThrowKeeps ==
  ASSUME IInv, NEW t \in Threads, Calls(t, "body"), NEW f, f = top(t), f.at = "submit",
         Replace(t, [f EXCEPT !.thrown = TRUE]), UNCHANGED <<queue, num, waited, outcome>>
  PROVE  IInv' /\ Thrown(Bodies) \subseteq Thrown(Bodies')
<1>1. PICK g : g = [f EXCEPT !.thrown = TRUE]
  BY Zenon
<1>2. stack[t] # <<>> /\ f.call = "body" /\ f \in BodyFrame /\ f \in Bodies
  BY TopBody, Zenon
<1>3. /\ g \in BodyFrame /\ g.call = "body" /\ g.task = f.task /\ g.from = f.from
      /\ g.submitted = f.submitted /\ g.at = f.at /\ g.thrown
  BY <1>1, <1>2, Zenon DEF BodyFrame
<1>4. SameCall(top(t), g)
  BY <1>2, <1>3, Zenon DEF SameCall, Frame
<1>5. Stacks' /\ Bodies' = (Bodies \ {f}) \cup {g}
  BY <1>1, <1>2, <1>4, ReplaceMoves, Zenon DEF IInv
<1> QED BY <1>2, <1>3, <1>5, BodyGoes, Zenon

\* wait.
LEMMA WaitKeeps ==
  ASSUME IInv, NEW t \in Threads, wait(t)
  PROVE  IInv' /\ Thrown(Bodies) \subseteq Thrown(Bodies')
<1>1. PICK f, g, h : /\ f = top(t) /\ h = Run(TRUE)
                     /\ g = [f EXCEPT !.thrown = @ \/ f.task \in Throws, !.at = "wait"]
  BY Zenon
<1>2. /\ Calls(t, "body") /\ f.at = "submit" /\ Call(t, g, h)
      /\ UNCHANGED <<queue, num, waited, outcome>>
  BY <1>1, Zenon DEF wait, pool, waiters
<1>3. stack[t] # <<>> /\ f.call = "body" /\ f \in BodyFrame /\ f \in Bodies
  BY <1>1, <1>2, TopBody, Zenon
<1>4. /\ g \in BodyFrame /\ g.call = "body" /\ g.task = f.task /\ g.from = f.from
      /\ g.submitted = f.submitted /\ g.at = "wait" /\ (f.thrown => g.thrown)
  BY <1>1, <1>3, Zenon DEF BodyFrame
<1>5. h \in Frame /\ h.call = "run"
  BY <1>1, Zenon DEF Run, Frame, RunFrame
<1>6. SameCall(top(t), g)
  BY <1>1, <1>3, <1>4, Zenon DEF SameCall, Frame
<1>7. Stacks' /\ Bodies' = (Bodies \ {f}) \cup {x \in {g, h} : x.call = "body"}
  BY <1>1, <1>2, <1>3, <1>5, <1>6, CallMoves, Zenon DEF IInv
<1>8. {x \in {g, h} : x.call = "body"} = {g}
  BY <1>4, <1>5, Zenon
<1> QED BY <1>2, <1>3, <1>4, <1>7, <1>8, BodyGoes, Zenon

\* The frame of a task that has submitted its next job.
LEMMA NextFrame ==
  ASSUME NEW f \in BodyFrame, f.at = "submit", ~f.thrown, f.submitted < Len(Submits[f.task]),
         NEW g, g = [f EXCEPT !.submitted = @ + 1],
         NEW j, j = Submits[f.task][f.submitted + 1]
  PROVE  Submitting(f, g, j) /\ g.call = "body"
<1>1. /\ g \in BodyFrame /\ g.call = "body" /\ g.task = f.task /\ g.from = f.from
      /\ g.submitted = f.submitted + 1 /\ g.at = "submit"
      /\ f.thrown = FALSE /\ g.thrown = FALSE
  BY DEF BodyFrame
<1>2. f.task \in Tasks /\ f.submitted \in Nat
  BY Zenon DEF BodyFrame
<1>3. Submits[f.task] \in Seq(Jobs)
  BY <1>2, ThreadPoolAssumption, Zenon
<1>4. g.submitted \in DOMAIN Submits[f.task] /\ j = Submits[f.task][g.submitted]
  BY <1>1, <1>2, <1>3
<1> QED BY <1>1, <1>4, Zenon DEF Submitting

\* What submit does to the bodies, with the new job queued.
SubmitsTo(B, f, g, j) == f \in Bodies /\ Submitting(f, g, j) /\ B = (Bodies \ {f}) \cup {g}

LEMMA NextBodies ==
  ASSUME IInv, NEW B, NEW f, NEW g, NEW j, SubmitsTo(B, f, g, j)
  PROVE  /\ Single(B) /\ Good(B, Queued \cup {j}, Waited, Ended)
         /\ j \notin Queued /\ ~Begun(Bodies, Ended, j)
         /\ \A Q, q : Counted(B, Q, q) = Counted(Bodies, Q, q)
<1>1. /\ Single(B) /\ Good(B, Queued \cup {j}, Waited, Ended)
      /\ j \notin Queued /\ ~Begun(Bodies, Ended, j)
  <2>1. Single(Bodies)
    BY BodyUnique, Zenon DEF IInv, Single
  <2> QED BY <2>1, GoodQueues DEF IInv, SubmitsTo
<1>2. f \in Bodies /\ g.task = f.task /\ g.from = f.from /\ B = (Bodies \ {f}) \cup {g}
  BY Zenon DEF Submitting, SubmitsTo
<1>3. ASSUME NEW Q, NEW q PROVE Counted(B, Q, q) = Counted(Bodies, Q, q)
  BY <1>2, CountedGoes
<1> QED BY <1>1, <1>3, Zenon

\* submit queues a job: its waiter counts it.
LEMMA QueueKeeps ==
  ASSUME IInv, NEW t \in Threads, Calls(t, "body"), NEW f, f = top(t), NEW g, NEW j,
         Submitting(f, g, j), g.call = "body", num' = [num EXCEPT ![f.task] = @ + 1],
         queue' = <<j>> \o queue \/ queue' = Append(queue, j),
         Replace(t, g), UNCHANGED <<waited, outcome>>
  PROVE  IInv' /\ Thrown(Bodies) \subseteq Thrown(Bodies')
<1>1. PICK p : p = f.task
  BY Zenon
<1>2. /\ stack[t] # <<>> /\ f.call = "body" /\ f \in BodyFrame /\ f \in Bodies
      /\ p \in Tasks /\ f.submitted \in Nat /\ Single(Bodies)
  BY <1>1, TopBody, Zenon
<1>3. /\ g \in BodyFrame /\ g.call = "body" /\ g.task = f.task /\ g.from = f.from
      /\ g.submitted = f.submitted + 1 /\ g.at = "submit"
      /\ f.thrown = FALSE /\ g.thrown = FALSE
  BY Zenon DEF Submitting
<1>4. SameCall(top(t), g)
  BY <1>2, <1>3, Zenon DEF SameCall, Frame
<1>5. Stacks' /\ Bodies' = (Bodies \ {f}) \cup {g}
  BY <1>1, <1>2, <1>4, ReplaceMoves, Zenon DEF IInv
<1>6. g.submitted \in DOMAIN Submits[f.task] /\ j = Submits[f.task][g.submitted]
  BY Zenon DEF Submitting
<1>7. /\ Good(Bodies', Queued \cup {j}, Waited, Ended)
      /\ j \notin Queued /\ ~Begun(Bodies, Ended, j)
      /\ \A Q, q : Counted(Bodies', Q, q) = Counted(Bodies, Q, q)
  <2>1. PICK C : C = (Bodies \ {f}) \cup {g}
    BY Zenon
  <2>2. SubmitsTo(C, f, g, j)
    BY <1>2, <2>1, Zenon DEF SubmitsTo
  <2>3. /\ Good(C, Queued \cup {j}, Waited, Ended)
        /\ j \notin Queued /\ ~Begun(Bodies, Ended, j)
        /\ \A Q, q : Counted(C, Q, q) = Counted(Bodies, Q, q)
    BY <2>2, NextBodies, Zenon
  <2>4. C = Bodies'
    BY <1>5, <2>1, Zenon
  <2> QED BY <2>3, <2>4, Zenon
<1>8. j \in Jobs /\ j \in Kids(p)
  BY <1>1, <1>2, <1>6, KidsOf, Zenon
<1>9. queue' \in Seq(Jobs) /\ Distinct(queue') /\ Queued' = Queued \cup {j}
  BY <1>7, <1>8, QueueIn, Zenon DEF IInv, Types, Queued
<1>10. Waited' = Waited /\ Ended' = Ended
  BY Zenon DEF Waited, Ended
<1>11. Types'
  <2>1. /\ num \in [Tasks -> Int] /\ waited \in [Tasks -> {"no", "ok", "error"}]
        /\ outcome \in [Tasks -> {"none", "ok", "threw"}]
    BY Zenon DEF IInv, Types
  <2>2. num' = [num EXCEPT ![p] = @ + 1]
    BY <1>1, Zenon
  <2>3. num[p] + 1 \in Int
    BY <1>2, <2>1
  <2>4. num' \in [Tasks -> Int]
    BY <2>1, <2>2, <2>3, Zenon
  <2> QED BY <1>9, <2>1, <2>4, Zenon DEF Types
<1>12. ASSUME NEW q \in Tasks
       PROVE  Size(num'[q], Counted(Bodies', Queued \cup {j}, q))
  <2>1. Counted(Bodies', Queued \cup {j}, q) = Counted(Bodies, Queued \cup {j}, q)
    BY <1>7, Zenon
  <2>2. CASE q = p
    <3>1. Counted(Bodies, Queued \cup {j}, q) = Counted(Bodies, Queued, q) \cup {j}
      BY <1>8, <2>2, Zenon DEF Counted
    <3>2. j \notin Counted(Bodies, Queued, q)
      BY <1>7, Zenon DEF Counted, Begun, Has
    <3>3. Size(num[q], Counted(Bodies, Queued, q))
      BY Zenon DEF IInv, Count
    <3>4. Size(num[q] + 1, Counted(Bodies, Queued, q) \cup {j})
      BY <3>2, <3>3, SizeMore, Zenon
    <3>5. num'[q] = num[q] + 1
      BY <1>1, <2>2, Zenon DEF IInv, Types
    <3> QED BY <2>1, <3>1, <3>4, <3>5, Zenon
  <2>3. CASE q # p
    <3>1. j \notin Kids(q)
      BY <1>2, <1>8, <2>3, KidsOf, Zenon
    <3>2. Counted(Bodies, Queued \cup {j}, q) = Counted(Bodies, Queued, q)
      BY <3>1, Zenon DEF Counted
    <3>3. num'[q] = num[q]
      BY <1>1, <2>3, Zenon DEF IInv, Types
    <3> QED BY <2>1, <3>2, <3>3, Zenon DEF IInv, Count
  <2> QED BY <2>2, <2>3, Zenon
<1>13. Count'
  BY <1>9, <1>12, Zenon DEF Count
<1>14. Thrown(Bodies) \subseteq Thrown(Bodies')
  BY <1>3, <1>5, Zenon DEF Thrown
<1> QED BY <1>14, <1>5, <1>7, <1>9, <1>10, <1>11, <1>13, Zenon DEF IInv

\* The body that a job begins with.
LEMMA NewBody ==
  ASSUME NEW j \in Jobs, NEW from \in {"submit", "run"}, NEW h, h = Body(j, from)
  PROVE  /\ h \in BodyFrame /\ h \in Frame /\ h.call = "body" /\ h.task = j /\ h.from = from
         /\ h.submitted = 0
  BY Zenon DEF Body, BodyFrame, Frame, Tasks

\* submit runs the job itself: no waiter counts it.
LEMMA HereKeeps ==
  ASSUME IInv, NEW t \in Threads, Calls(t, "body"), NEW f, f = top(t), NEW g, NEW j,
         Submitting(f, g, j), g.call = "body", NEW h, h = Body(j, "submit"), Call(t, g, h),
         UNCHANGED <<queue, num, waited, outcome>>
  PROVE  IInv' /\ Thrown(Bodies) \subseteq Thrown(Bodies')
<1>1. PICK p : p = f.task
  BY Zenon
<1>2. /\ stack[t] # <<>> /\ f.call = "body" /\ f \in BodyFrame /\ f \in Bodies
      /\ p \in Tasks /\ f.submitted \in Nat /\ Single(Bodies)
  BY <1>1, TopBody, Zenon
<1>3. /\ g \in BodyFrame /\ g.call = "body" /\ g.task = f.task /\ g.from = f.from
      /\ g.submitted = f.submitted + 1 /\ g.at = "submit"
      /\ f.thrown = FALSE /\ g.thrown = FALSE
  BY Zenon DEF Submitting
<1>4. SameCall(top(t), g)
  BY <1>2, <1>3, Zenon DEF SameCall, Frame
<1>5. PICK B : B = (Bodies \ {f}) \cup {g}
  BY Zenon
<1>6. g.submitted \in DOMAIN Submits[f.task] /\ j = Submits[f.task][g.submitted]
  BY Zenon DEF Submitting
<1>7. /\ Single(B) /\ Good(B, Queued \cup {j}, Waited, Ended)
      /\ j \notin Queued /\ ~Begun(Bodies, Ended, j)
      /\ \A Q, q : Counted(B, Q, q) = Counted(Bodies, Q, q)
  <2>1. SubmitsTo(B, f, g, j)
    BY <1>2, <1>5, Zenon DEF SubmitsTo
  <2> QED BY <2>1, NextBodies, Zenon
<1>8. j \in Jobs /\ j \in Kids(p)
  BY <1>1, <1>2, <1>6, KidsOf, Zenon
<1>9. /\ h \in BodyFrame /\ h \in Frame /\ h.call = "body" /\ h.task = j /\ h.from = "submit"
      /\ h.submitted = 0
  BY <1>1, <1>8, NewBody
<1>10. \A x \in Bodies : x.task # h.task
  BY <1>7, <1>9, Zenon DEF Begun, Has
<1>11. Stacks' /\ Bodies' = (Bodies \ {f}) \cup {x \in {g, h} : x.call = "body"}
  <2>1. /\ g.call = "body" /\ g.at = "submit" /\ g.thrown = FALSE
        /\ h.task \in Kids(g.task) /\ Call(t, g, h)
    BY <1>1, <1>3, <1>8, <1>9, Zenon
  <2> QED BY <1>2, <1>4, <1>9, <1>10, <2>1, CallMoves, ZenonT(60) DEF IInv
<1>12. Bodies' = B \cup {h}
  BY <1>3, <1>5, <1>9, <1>11, Zenon
<1>13. Good(Bodies', Queued, Waited, Ended)
  <2>1. h.task \in Queued \cup {j} /\ (Queued \cup {j}) \ {h.task} = Queued
    BY <1>7, <1>9, Zenon
  <2>2. Good(Bodies', (Queued \cup {j}) \ {h.task}, Waited, Ended)
    BY <1>7, <1>9, <1>12, <2>1, GoodTakes, Zenon
  <2> QED BY <2>1, <2>2, Zenon
<1>14. Queued' = Queued /\ Waited' = Waited /\ Ended' = Ended
  BY Zenon DEF Queued, Waited, Ended
<1>15. Types' /\ Distinct(queue)'
  BY Zenon DEF IInv, Types, Distinct
<1>16. Count'
  <2>1. \A q \in Tasks : Counted(B, Queued, q) = Counted(Bodies, Queued, q)
    BY <1>7, Zenon
  <2>2. \A q \in Tasks : Counted(Bodies', Queued, q) = Counted(B, Queued, q)
    BY <1>9, <1>12, Zenon DEF Counted
  <2> QED BY <1>14, <2>1, <2>2, Zenon DEF IInv, Count
<1>17. Thrown(Bodies) \subseteq Thrown(Bodies')
  BY <1>3, <1>5, <1>12, Zenon DEF Thrown
<1> QED BY <1>17, <1>11, <1>13, <1>14, <1>15, <1>16 DEF IInv

LEMMA SubmitKeeps ==
  ASSUME IInv, NEW t \in Threads, submit(t)
  PROVE  IInv' /\ Thrown(Bodies) \subseteq Thrown(Bodies')
<1>1. PICK f, j, g, h : /\ f = top(t) /\ j = Submits[f.task][f.submitted + 1]
                        /\ g = [f EXCEPT !.submitted = @ + 1] /\ h = Body(j, "submit")
  BY Zenon
<1>2. /\ Calls(t, "body") /\ f.at = "submit" /\ ~f.thrown
      /\ f.submitted < Len(Submits[f.task])
      /\ UNCHANGED <<waited, outcome>>
  BY <1>1, Zenon DEF submit
<1>3. Submitting(f, g, j) /\ g.call = "body"
  <2>1. f \in BodyFrame
    BY <1>1, <1>2, TopBody, Zenon
  <2> QED BY <1>1, <1>2, <2>1, NextFrame, Zenon
<1>4. \/ Replace(t, [f EXCEPT !.thrown = TRUE]) /\ UNCHANGED <<queue, num>>
      \/ Call(t, g, h) /\ UNCHANGED <<queue, num>>
      \/ /\ num' = [num EXCEPT ![f.task] = @ + 1]
         /\ queue' = <<j>> \o queue \/ queue' = Append(queue, j)
         /\ Replace(t, g)
  BY <1>1, Zenon DEF submit, pool
<1>5. CASE Replace(t, [f EXCEPT !.thrown = TRUE]) /\ UNCHANGED <<queue, num>>
  BY <1>1, <1>2, <1>5, ThrowKeeps, Zenon
<1>6. CASE Call(t, g, h) /\ UNCHANGED <<queue, num>>
  BY <1>1, <1>2, <1>3, <1>6, HereKeeps, Zenon
<1>7. CASE /\ num' = [num EXCEPT ![f.task] = @ + 1]
           /\ queue' = <<j>> \o queue \/ queue' = Append(queue, j)
           /\ Replace(t, g)
  BY <1>1, <1>2, <1>3, <1>7, QueueKeeps, Zenon
<1> QED BY <1>4, <1>5, <1>6, <1>7, Zenon

\* wait returns: the counter is at zero, and no job of the task is left that submit
\* runs, as its submitter would be at submit.
LEMMA WaitReturnsKeeps ==
  ASSUME IInv, NEW t \in Threads, wait_returns(t)
  PROVE  IInv' /\ Thrown(Bodies) \subseteq Thrown(Bodies')
<1>1. PICK f, g, h, p : /\ f = top(t) /\ g = [f EXCEPT !.at = "end"]
                        /\ h = Run(TRUE) /\ p = f.task
  BY Zenon
<1>2. /\ Calls(t, "body") /\ f.at = "wait" /\ num[p] = 0
      /\ Replace(t, g) \/ Call(t, g, h)
      /\ waited' = [waited EXCEPT ![p] = IF error_flag[p] THEN "error" ELSE "ok"]
      /\ UNCHANGED <<queue, num, outcome>>
  BY <1>1, Zenon DEF wait_returns, no_job_left, pool
<1>3. /\ stack[t] # <<>> /\ f.call = "body" /\ f \in BodyFrame /\ f \in Bodies
      /\ p \in Tasks /\ Single(Bodies)
  BY <1>1, <1>2, TopBody, Zenon
<1>4. /\ g \in BodyFrame /\ g.call = "body" /\ g.task = f.task /\ g.from = f.from
      /\ g.submitted = f.submitted /\ g.at = "end" /\ g.thrown = f.thrown
  BY <1>1, <1>3, Zenon DEF BodyFrame
<1>5. SameCall(top(t), g)
  BY <1>1, <1>3, <1>4, Zenon DEF SameCall, Frame
<1>6. Stacks' /\ Bodies' = (Bodies \ {f}) \cup {g}
  <2>1. CASE Replace(t, g)
    BY <1>1, <1>2, <1>3, <1>5, <2>1, ReplaceMoves, Zenon DEF IInv
  <2>2. CASE Call(t, g, h)
    <3>1. h \in Frame /\ h.call = "run"
      BY <1>1, Zenon DEF Run, Frame, RunFrame
    <3>2. Stacks' /\ Bodies' = (Bodies \ {f}) \cup {x \in {g, h} : x.call = "body"}
      BY <1>1, <1>2, <1>3, <1>5, <2>2, <3>1, CallMoves, Zenon DEF IInv
    <3>3. {x \in {g, h} : x.call = "body"} = {g}
      BY <1>4, <3>1, Zenon
    <3> QED BY <3>2, <3>3, Zenon
  <2> QED BY <1>2, <2>1, <2>2, Zenon
<1>7. ASSUME NEW j \in Kids(p) PROVE j \notin Queued /\ ~Has(Bodies, j)
  <2>1. Counted(Bodies, Queued, p) = {}
    <3>1. Size(0, Counted(Bodies, Queued, p))
      BY <1>2, <1>3, Zenon DEF IInv, Count
    <3> QED BY <3>1, SizeZero, Zenon
  <2>2. j \notin Queued /\ \A x \in Bodies : ~ (x.task = j /\ x.from = "run")
    BY <2>1, Zenon DEF Counted
  <2>3. ASSUME NEW x \in Bodies, x.task = j PROVE FALSE
    <3>1. j \in Jobs /\ j \notin Clients
      BY <1>3, KidsOf, ThreadPoolAssumption, Zenon
    <3>2. x.from \in {"thread", "submit", "run"}
      BY <1>3, Zenon DEF Single, BodyFrame
    <3>3. x.from = "submit"
      BY <2>2, <2>3, <3>1, <3>2, SubmitterBelow, Zenon DEF IInv
    <3>4. PICK y \in Bodies : y.at = "submit" /\ j \in Kids(y.task)
      BY <2>3, <3>3, SubmitterBelow, Zenon DEF IInv
    <3>5. y.task = p
      BY <1>3, <3>4, KidsOf, Zenon DEF Single, BodyFrame
    <3>6. y = f
      BY <1>1, <1>3, <3>5, Zenon DEF Single
    <3> QED BY <1>2, <3>4, <3>6, Zenon
  <2> QED BY <2>2, <2>3, Zenon DEF Has
<1>8. Queued' = Queued /\ Ended' = Ended
  BY <1>2, Zenon DEF Queued, Ended
<1>9. Waited' \subseteq Waited \cup {p}
  BY <1>2, Zenon DEF Waited, IInv, Types
<1>10. Good(Bodies', Queued, Waited', Ended)
  <2>1. Good(Bodies, Queued, Waited, Ended)
    BY Zenon DEF IInv
  <2>2. PICK C, V : C = (Bodies \ {f}) \cup {g} /\ V = Waited'
    BY Zenon
  <2>3. V \subseteq Waited \cup {f.task}
    BY <1>1, <1>9, <2>2, Zenon
  <2>4. \A j \in Kids(f.task) : j \notin Queued /\ ~Has(Bodies, j)
    BY <1>1, <1>7, Zenon
  <2>5. Good(C, Queued, V, Ended)
    BY <1>3, <1>4, <2>1, <2>2, <2>3, <2>4, GoodWaited, Zenon
  <2> QED BY <1>6, <2>2, <2>5, Zenon
<1>11. Types' /\ Distinct(queue)'
  <2>1. waited' \in [Tasks -> {"no", "ok", "error"}]
    BY <1>2, Zenon DEF IInv, Types
  <2>2. queue' = queue /\ num' = num /\ outcome' = outcome
    BY <1>2, Zenon
  <2>3. Types /\ Distinct(queue)
    BY Zenon DEF IInv
  <2>4. Types'
    BY <2>1, <2>2, <2>3, Zenon DEF Types
  <2> QED BY <2>2, <2>3, <2>4, Zenon
<1>12. Count'
  <2>0. f \in Bodies /\ g.task = f.task /\ g.from = f.from
    BY <1>3, <1>4, Zenon
  <2>1. ASSUME NEW q \in Tasks PROVE Counted(Bodies', Queued, q) = Counted(Bodies, Queued, q)
    <3>1. PICK C, Q : C = Bodies' /\ Q = Queued
      BY Zenon
    <3>2. C = (Bodies \ {f}) \cup {g}
      BY <1>6, <3>1, Zenon
    <3>3. Counted(C, Q, q) = Counted(Bodies, Q, q)
      BY <2>0, <3>2, CountedGoes
    <3> QED BY <3>1, <3>3, Zenon
  <2> QED BY <1>2, <1>8, <2>1, Zenon DEF IInv, Count
<1>13. Thrown(Bodies) \subseteq Thrown(Bodies')
  BY <1>4, <1>6, Zenon DEF Thrown
<1> QED BY <1>13, <1>6, <1>8, <1>10, <1>11, <1>12, Zenon DEF IInv

\* A body that ends is counted no more.
LEMMA CountedEnds ==
  ASSUME NEW B, Single(B), NEW f \in B, NEW C, C = B \ {f}, NEW Q, f.task \notin Q, NEW p
  PROVE  /\ f.from = "run" => Counted(C, Q, p) = Counted(B, Q, p) \ {f.task}
         /\ f.from # "run" => Counted(C, Q, p) = Counted(B, Q, p)
<1>1. \A x \in B : x.task = f.task => x = f
  BY Zenon DEF Single
<1>2. \A j : j # f.task => ((\E x \in C : x.task = j /\ x.from = "run")
                              <=> (\E x \in B : x.task = j /\ x.from = "run"))
  BY Zenon
<1>3. ~ \E x \in C : x.task = f.task
  BY <1>1, Zenon
<1>4. f.from # "run" => ~ \E x \in B : x.task = f.task /\ x.from = "run"
  BY <1>1, Zenon
<1>5. ASSUME f.from = "run" PROVE Counted(C, Q, p) = Counted(B, Q, p) \ {f.task}
  BY <1>2, <1>3, <1>5 DEF Counted
<1>6. ASSUME f.from # "run" PROVE Counted(C, Q, p) = Counted(B, Q, p)
  BY <1>2, <1>3, <1>4, <1>6 DEF Counted
<1> QED BY <1>5, <1>6, Zenon

\* A job that submit ran ends in its submitter c, which goes on as d.
Resumes(f, c, d) ==
  /\ c # f /\ c.at = "submit" /\ c.thrown = FALSE /\ f.task \in Kids(c.task)
  /\ d \in BodyFrame /\ d.task = c.task /\ d.from = c.from /\ d.submitted = c.submitted
  /\ d.at = c.at /\ d.thrown = f.thrown

\* What finish does to the stacks.
LEMMA FinishMoves ==
  ASSUME IInv, NEW t \in Threads, finish(t), NEW f, f = top(t)
  PROVE  /\ Stacks' /\ f \in Bodies /\ f \in BodyFrame /\ f.at = "end" /\ f.task \in Tasks
         /\ f.from \in {"thread", "submit", "run"} /\ f.thrown \in BOOLEAN
         /\ f.from # "submit" => Bodies' = Bodies \ {f}
         /\ f.from = "submit" =>
              \E c \in Bodies : \E d :
                Resumes(f, c, d) /\ Bodies' = ((Bodies \ {f}) \ {c}) \cup {d}
<1>1. Calls(t, "body") /\ f.at = "end"
  BY Zenon DEF finish
<1>2. /\ stack[t] # <<>> /\ f.call = "body" /\ f \in BodyFrame /\ f \in Bodies
      /\ f.task \in Tasks /\ f.from \in {"thread", "submit", "run"} /\ f.thrown \in BOOLEAN
  BY <1>1, TopBody, Zenon
<1>3. CASE f.from = "thread"
  <2>1. Return(t)
    BY <1>3, Zenon DEF finish
  <2>2. Stacks' /\ Bodies' = Bodies \ {f}
    BY <1>2, <2>1, ReturnMoves, Zenon DEF IInv
  <2> QED BY <1>1, <1>2, <1>3, <2>2, Zenon
<1>4. CASE f.from # "thread"
  <2>1. PICK c, n : c = Last(below(t)) /\ n = Len(stack[t])
    BY Zenon
  <2>2. /\ c \in Frame
        /\ f.from = "submit" => /\ c \in Bodies /\ c.call = "body" /\ c.at = "submit"
                                /\ c.thrown = FALSE /\ f.task \in Kids(c.task)
        /\ f.from = "run" => c.call = "run"
    BY <1>2, <1>4, <2>1, CallerFrame, Zenon DEF IInv
  <2>3. CASE f.from = "submit"
    <3>1. PICK d : d = [c EXCEPT !.thrown = f.thrown]
      BY Zenon
    <3>2. stack' = [stack EXCEPT ![t] = Append(Front(below(t)), d)]
      BY <2>1, <2>3, <3>1, Zenon DEF finish
    <3>3. c \in BodyFrame
      BY <2>2, <2>3, FrameKinds, Zenon
    <3>4. /\ d \in BodyFrame /\ d.task = c.task /\ d.from = c.from /\ d.submitted = c.submitted
          /\ d.at = c.at /\ d.call = "body" /\ d.thrown = f.thrown
      BY <1>2, <3>1, <3>3, Zenon DEF BodyFrame
    <3>5. SameCall(c, d)
      BY <2>2, <2>3, <3>4, Zenon DEF SameCall, Frame
    <3>6. Stacks' /\ Bodies' = (Bodies \ {f, c}) \cup {x \in {d} : x.call = "body"}
      BY <1>2, <1>4, <2>1, <3>2, <3>5, ResumeMoves, Zenon DEF IInv
    <3>7. Bodies' = ((Bodies \ {f}) \ {c}) \cup {d}
      BY <3>4, <3>6, Zenon
    <3>8. c \in Bodies /\ c # f /\ c.at = "submit" /\ c.thrown = FALSE /\ f.task \in Kids(c.task)
      BY <1>1, <2>2, <2>3, Zenon
    <3>9. Resumes(f, c, d)
      BY <3>4, <3>8, Zenon DEF Resumes
    <3>10. \E x \in Bodies : \E y : Resumes(f, x, y) /\ Bodies' = ((Bodies \ {f}) \ {x}) \cup {y}
      BY <3>7, <3>8, <3>9, Zenon
    <3> QED BY <1>1, <1>2, <2>3, <3>6, <3>10, Zenon
  <2>4. CASE f.from = "run"
    <3>1. PICK d : d = [c EXCEPT !.counted = TRUE]
      BY Zenon
    <3>2. stack' = [stack EXCEPT ![t] = Append(Front(below(t)), d)]
      BY <2>1, <2>4, <3>1, Zenon DEF finish
    <3>3. c \in RunFrame /\ c.call = "run" /\ c \notin Bodies
      BY <2>2, <2>4, FrameKinds, BodyPlace, Zenon DEF IInv
    <3>4. d \in RunFrame /\ d.call = "run"
      BY <3>1, <3>3, Zenon DEF RunFrame
    <3>5. SameCall(c, d)
      BY <3>3, <3>4, Zenon DEF SameCall, Frame
    <3>6. Stacks' /\ Bodies' = (Bodies \ {f, c}) \cup {x \in {d} : x.call = "body"}
      BY <1>2, <1>4, <2>1, <3>2, <3>5, ResumeMoves, Zenon DEF IInv
    <3>7. Bodies' = Bodies \ {f}
      BY <3>3, <3>4, <3>6, Zenon
    <3> QED BY <1>1, <1>2, <2>4, <3>6, <3>7, Zenon
  <2> QED BY <1>2, <1>4, <2>3, <2>4, Zenon
<1> QED BY <1>3, <1>4, Zenon

\* finish: the task has ended, and its waiter counts it no more if it counted it.
LEMMA FinishKeeps ==
  ASSUME IInv, NEW t \in Threads, finish(t)
  PROVE  IInv'
<1>1. PICK f, j, O : f = top(t) /\ j = f.task /\ O = Ended'
  BY Zenon
<1>2. /\ outcome' = [outcome EXCEPT ![j] = IF f.thrown THEN "threw" ELSE "ok"]
      /\ UNCHANGED <<queue, waited>>
      /\ f.from # "run" => num' = num
      /\ f.from = "run" => num' = [num EXCEPT ![submitter(j)] = @ - 1]
  BY <1>1, Zenon DEF finish, pool
<1>3. /\ Stacks' /\ f \in Bodies /\ f \in BodyFrame /\ f.at = "end" /\ j \in Tasks
      /\ f.from \in {"thread", "submit", "run"}
      /\ Single(Bodies) /\ Good(Bodies, Queued, Waited, Ended)
  <2>1. /\ Stacks' /\ f \in Bodies /\ f \in BodyFrame /\ f.at = "end" /\ f.task \in Tasks
        /\ f.from \in {"thread", "submit", "run"} /\ f.thrown \in BOOLEAN
    BY <1>1, FinishMoves, Zenon
  <2>2. Single(Bodies)
    BY BodyUnique, Zenon DEF IInv, Single
  <2> QED BY <1>1, <2>1, <2>2, Zenon DEF IInv
<1>4. O = Ended \cup {f.task}
  BY <1>1, <1>2, <1>3 DEF Ended, IInv, Types
<1>5. Queued' = Queued /\ Waited' = Waited
  BY <1>2, Zenon DEF Queued, Waited
<1>6. PICK B : B = Bodies \ {f}
  BY Zenon
<1>7. Single(B) /\ Good(B, Queued, Waited, O)
  BY <1>3, <1>4, <1>6, GoodEnds, Zenon
<1>8. /\ Good(Bodies', Queued, Waited, O)
      /\ \A q : Counted(Bodies', Queued, q) = Counted(B, Queued, q)
  <2>1. CASE f.from # "submit"
    BY <1>1, <1>6, <1>7, <2>1, FinishMoves, Zenon
  <2>2. CASE f.from = "submit"
    <3>0. PICK c \in Bodies : \E d :
            Resumes(f, c, d) /\ Bodies' = ((Bodies \ {f}) \ {c}) \cup {d}
      BY <1>1, <2>2, FinishMoves
    <3>1. PICK d : Resumes(f, c, d) /\ Bodies' = ((Bodies \ {f}) \ {c}) \cup {d}
      BY <3>0, Zenon
    <3>2. PICK C : C = Bodies'
      BY Zenon
    <3>3. /\ c \in B /\ C = (B \ {c}) \cup {d} /\ c.at # "end" /\ d.at # "end"
          /\ d \in BodyFrame /\ d.task = c.task /\ d.from = c.from /\ d.submitted = c.submitted
      BY <1>6, <3>1, <3>2, Zenon DEF Resumes
    <3>4. Good(C, Queued, Waited, O)
      BY <1>7, <3>3, GoodGoes, Zenon
    <3>5. \A q : Counted(C, Queued, q) = Counted(B, Queued, q)
      BY <3>3, CountedGoes
    <3> QED BY <3>2, <3>4, <3>5, Zenon
  <2> QED BY <2>1, <2>2, Zenon
<1>9. j \notin Queued
  BY <1>1, <1>3, Zenon DEF Good, Begun, Has
<1>10. Types' /\ Distinct(queue)'
  <2>1. /\ num \in [Tasks -> Int] /\ waited \in [Tasks -> {"no", "ok", "error"}]
        /\ outcome \in [Tasks -> {"none", "ok", "threw"}] /\ queue \in Seq(Jobs)
    BY Zenon DEF IInv, Types
  <2>2. outcome' \in [Tasks -> {"none", "ok", "threw"}]
    BY <1>2, <2>1, Zenon
  <2>3. num' \in [Tasks -> Int]
    BY <1>2, <2>1
  <2> QED BY <1>2, <2>1, <2>2, <2>3, ZenonT(60) DEF IInv, Types, Distinct
<1>11. ASSUME NEW q \in Tasks PROVE Size(num'[q], Counted(B, Queued, q))
  <2>1. CASE f.from # "run"
    <3>1. Counted(B, Queued, q) = Counted(Bodies, Queued, q)
      BY <1>1, <1>3, <1>6, <1>9, <2>1, CountedEnds
    <3> QED BY <1>2, <2>1, <3>1, Zenon DEF IInv, Count
  <2>2. CASE f.from = "run"
    <3>1. Counted(B, Queued, q) = Counted(Bodies, Queued, q) \ {j}
      BY <1>1, <1>3, <1>6, <1>9, <2>2, CountedEnds
    <3>2. \E p \in Tasks : j \in Kids(p)
      BY <1>1, <1>3, <2>2, Zenon DEF Good
    <3>3. submitter(j) \in Tasks /\ j \in Kids(submitter(j))
      BY <3>2, Zenon DEF submitter
    <3>4. Size(num[q], Counted(Bodies, Queued, q))
      BY Zenon DEF IInv, Count
    <3>5. j \in Counted(Bodies, Queued, q) <=> q = submitter(j)
      <4>1. j \in Kids(q) <=> q = submitter(j)
        BY <3>3, KidsOf, Zenon
      <4> QED BY <1>1, <1>3, <2>2, <4>1, Zenon DEF Counted
    <3>6. /\ q = submitter(j) => Size(num[q] - 1, Counted(B, Queued, q))
          /\ q # submitter(j) => Size(num[q], Counted(B, Queued, q))
      <4>1. CASE q = submitter(j)
        <5>1. Size(num[q] - 1, Counted(Bodies, Queued, q) \ {j})
          BY <3>4, <3>5, <4>1, SizeLess, Zenon
        <5> QED BY <3>1, <4>1, <5>1, Zenon
      <4>2. CASE q # submitter(j)
        <5>1. Counted(B, Queued, q) = Counted(Bodies, Queued, q)
          BY <3>1, <3>5, <4>2, Zenon
        <5> QED BY <3>4, <4>2, <5>1, Zenon
      <4> QED BY <4>1, <4>2, Zenon
    <3>7. num'[q] = IF q = submitter(j) THEN num[q] - 1 ELSE num[q]
      BY <1>2, <2>2, Zenon DEF IInv, Types
    <3> QED BY <3>6, <3>7, Zenon
  <2> QED BY <2>1, <2>2, Zenon
<1>12. Count'
  BY <1>5, <1>8, <1>11, Zenon DEF Count
<1> QED BY <1>1, <1>3, <1>5, <1>8, <1>10, <1>12, Zenon DEF IInv

\* run takes a job: it was counted in the queue and is counted now.
LEMMA TakeKeeps ==
  ASSUME IInv, NEW t \in Threads, Calls(t, "run"), NEW g, g = [top(t) EXCEPT !.counted = FALSE],
         queue # <<>>, queue' = Tail(queue), Call(t, g, Body(Head(queue), "run")),
         UNCHANGED <<num, waited, outcome>>
  PROVE  IInv' /\ Thrown(Bodies) \subseteq Thrown(Bodies')
<1>1. PICK f, j, h : f = top(t) /\ j = Head(queue) /\ h = Body(j, "run")
  BY Zenon
<1>2. stack[t] # <<>> /\ f.call = "run"
  BY <1>1, Zenon DEF Calls, top
<1>3. f \in RunFrame /\ f \notin Bodies
  BY <1>1, <1>2, TopFrame, FrameKinds, Zenon DEF IInv
<1>4. g \in RunFrame /\ g.call = "run"
  BY <1>1, <1>3, Zenon DEF RunFrame
<1>5. SameCall(top(t), g)
  BY <1>1, <1>2, <1>4, Zenon DEF SameCall, Frame
<1>6. /\ queue' \in Seq(Jobs) /\ Distinct(queue') /\ j \in Queued /\ j \in Jobs
      /\ Queued' = Queued \ {j}
  <2>1. queue \in Seq(Jobs) /\ Distinct(queue)
    BY Zenon DEF IInv, Types
  <2> QED BY <1>1, <2>1, QueueOut, Zenon DEF Queued
<1>7. /\ h \in BodyFrame /\ h \in Frame /\ h.call = "body" /\ h.task = j /\ h.from = "run"
      /\ h.submitted = 0
  BY <1>1, <1>6, NewBody
<1>8. Single(Bodies) /\ Good(Bodies, Queued, Waited, Ended)
  BY BodyUnique, Zenon DEF IInv, Single
<1>9. \A x \in Bodies : x.task # h.task
  BY <1>6, <1>7, <1>8, Zenon DEF Good, Begun, Has
<1>10. Stacks' /\ Bodies' = (Bodies \ {f}) \cup {x \in {g, h} : x.call = "body"}
  <2>1. g.call = "run" /\ h.task \in Jobs /\ Call(t, g, h)
    BY <1>1, <1>4, <1>6, <1>7, Zenon
  <2>2. Stacks /\ stack[t] # <<>>
    BY <1>2, Zenon DEF IInv
  <2> QED BY <1>1, <1>5, <1>7, <1>9, <2>1, <2>2, CallMoves, ZenonT(60)
<1>11. Bodies' = Bodies \cup {h}
  BY <1>3, <1>4, <1>7, <1>10, Zenon
<1>12. Good(Bodies', Queued', Waited, Ended)
  <2>1. PICK C : C = Bodies'
    BY Zenon
  <2>2. Good(C, Queued \ {h.task}, Waited, Ended)
    BY <1>6, <1>7, <1>8, <1>11, <2>1, GoodTakes, Zenon
  <2> QED BY <1>6, <1>7, <2>1, <2>2, Zenon
<1>13. Waited' = Waited /\ Ended' = Ended
  BY Zenon DEF Waited, Ended
<1>14. Types'
  BY <1>6, Zenon DEF IInv, Types
<1>15. Count'
  <2>1. \A q \in Tasks : Counted(Bodies', Queued', q) = Counted(Bodies, Queued, q)
    BY <1>6, <1>7, <1>11, Zenon DEF Counted
  <2> QED BY <2>1, Zenon DEF IInv, Count
<1>16. Thrown(Bodies) \subseteq Thrown(Bodies')
  BY <1>11, Zenon DEF Thrown
<1> QED BY <1>16, <1>6, <1>10, <1>12, <1>13, <1>14, <1>15, Zenon DEF IInv

LEMMA RunKeeps ==
  ASSUME IInv, NEW t \in Threads, run(t)
  PROVE  IInv' /\ Thrown(Bodies) \subseteq Thrown(Bodies')
<1>1. PICK f, g : f = top(t) /\ g = [f EXCEPT !.counted = FALSE]
  BY Zenon
<1>2. Calls(t, "run") /\ UNCHANGED <<num, waited, outcome>>
  BY Zenon DEF run, waiters
<1>3. \/ Return(t) /\ queue' = queue
      \/ Replace(t, g) /\ queue' = queue
      \/ queue # <<>> /\ queue' = Tail(queue) /\ Call(t, g, Body(Head(queue), "run"))
  BY <1>1, Zenon DEF run
<1>4. stack[t] # <<>> /\ f.call = "run"
  BY <1>1, <1>2, Zenon DEF Calls, top
<1>5. f \in RunFrame /\ f \notin Bodies
  BY <1>1, <1>4, TopFrame, FrameKinds, Zenon DEF IInv
<1>6. CASE Return(t) /\ queue' = queue
  <2>1. Stacks' /\ Bodies' = Bodies \ {f}
    BY <1>1, <1>4, <1>6, ReturnMoves, Zenon DEF IInv
  <2> QED BY <1>2, <1>5, <1>6, <2>1, BodiesStay, Zenon
<1>7. CASE Replace(t, g) /\ queue' = queue
  <2>1. g \in RunFrame /\ g.call = "run"
    BY <1>1, <1>5, Zenon DEF RunFrame
  <2>2. SameCall(top(t), g)
    BY <1>1, <1>4, <2>1, Zenon DEF SameCall, Frame
  <2>3. Stacks' /\ Bodies' = Bodies
    BY <1>1, <1>4, <1>7, <2>2, ReplaceMoves, Zenon DEF IInv
  <2> QED BY <1>2, <1>7, <2>3, BodiesStay, Zenon
<1>8. CASE queue # <<>> /\ queue' = Tail(queue) /\ Call(t, g, Body(Head(queue), "run"))
  BY <1>1, <1>2, <1>8, TakeKeeps, Zenon
<1> QED BY <1>3, <1>6, <1>7, <1>8, Zenon

\* At first each client runs its program and each worker is in run.
LEMMA InitIInv ==
  ASSUME Init
  PROVE  IInv
<1>1. ASSUME NEW t \in Threads
      PROVE  \E f \in Frame : /\ stack[t] = <<f>>
                              /\ t \in Clients => f = Body(t, "thread")
                              /\ t \notin Clients => f = Run(FALSE)
  <2>1. CASE t \in Clients
    <3>1. Body(t, "thread") \in Frame
      BY <2>1, Zenon DEF Body, Frame, BodyFrame, Tasks
    <3> QED BY <2>1, <3>1, Zenon DEF Init
  <2>2. CASE t \notin Clients
    <3>1. Run(FALSE) \in Frame
      BY Zenon DEF Run, Frame, RunFrame
    <3> QED BY <2>2, <3>1, Zenon DEF Init
  <2> QED BY <2>1, <2>2, Zenon
<1>2. ASSUME NEW t \in Threads
      PROVE  /\ stack[t] \in Seq(Frame) /\ Len(stack[t]) = 1
             /\ t \in Clients => stack[t][1] = Body(t, "thread")
             /\ t \notin Clients => stack[t][1] = Run(FALSE)
  <2>1. PICK f \in Frame : /\ stack[t] = <<f>>
                           /\ t \in Clients => f = Body(t, "thread")
                           /\ t \notin Clients => f = Run(FALSE)
    BY <1>1, Zenon
  <2>2. <<f>> \in Seq(Frame) /\ Len(<<f>>) = 1 /\ <<f>>[1] = f
    OBVIOUS
  <2> QED BY <2>1, <2>2, Zenon
<1>3. /\ \A t : /\ Body(t, "thread").call = "body" /\ Body(t, "thread").task = t
                /\ Body(t, "thread").from = "thread"
      /\ Run(FALSE).call = "run"
  BY Zenon DEF Body, Run
<1>4. \A t \in Threads : \A i \in 1 .. Len(stack[t]) :
        /\ i = 1
        /\ t \in Clients => /\ stack[t][i].call = "body" /\ stack[t][i].task = t
                            /\ stack[t][i].from = "thread"
        /\ t \notin Clients => stack[t][i].call = "run"
  <2> SUFFICES ASSUME NEW t \in Threads, NEW i \in 1 .. Len(stack[t])
               PROVE  /\ i = 1
                      /\ t \in Clients => /\ stack[t][i].call = "body" /\ stack[t][i].task = t
                                          /\ stack[t][i].from = "thread"
                      /\ t \notin Clients => stack[t][i].call = "run"
    BY Zenon
  <2>1. i = 1
    <3>1. Len(stack[t]) = 1
      BY <1>2, Zenon
    <3> QED BY <3>1
  <2> QED BY <1>2, <1>3, <2>1, ZenonT(60)
<1>5. stack \in [Threads -> Seq(Frame)]
  <2>1. stack = [t \in Threads |-> stack[t]]
    BY Zenon DEF Init
  <2> QED BY <1>2, <2>1, Zenon
<1>6. Nested
  BY <1>4 DEF Nested, Fits
<1>7. OneBody
  BY <1>4 DEF OneBody, BodyAt
<1>8. \A f \in Bodies : f.call = "body" /\ f.task \in Clients /\ f.from = "thread"
  BY <1>4, <1>5, <1>6, <1>7, BodyPlace DEF Stacks
<1>9. Types /\ Distinct(queue) /\ Queued = {} /\ Waited = {} /\ Ended = {}
  <2>1. /\ queue = <<>> /\ num = [p \in Tasks |-> 0] /\ waited = [p \in Tasks |-> "no"]
        /\ outcome = [p \in Tasks |-> "none"]
    BY Zenon DEF Init
  <2>2. queue \in Seq(Jobs) /\ Len(queue) = 0 /\ DOMAIN queue = {}
    BY <2>1
  <2> QED BY <2>1, <2>2 DEF Types, Distinct, Queued, Waited, Ended, Range
<1>10. ASSUME NEW p \in Tasks, NEW j \in Kids(p) PROVE ~Has(Bodies, j) /\ ~Begun(Bodies, {}, j)
  <2>1. j \notin Clients
    BY KidsOf, ThreadPoolAssumption, Zenon
  <2> QED BY <1>8, <2>1, Zenon DEF Has, Begun
<1>11. Good(Bodies, {}, {}, {})
  <2>1. ASSUME NEW p \in Tasks, NEW n \in DOMAIN Submits[p]
        PROVE  Life(Bodies, {}, {}, p, n, Submits[p][n])
    <3>1. Submits[p][n] \in Kids(p)
      BY KidsOf, Zenon
    <3> QED BY <1>10, <3>1, Zenon DEF Life
  <2> QED BY <1>8, <2>1, Zenon DEF Good
<1>12. Count
  <2>1. \A p \in Tasks : Counted(Bodies, {}, p) = {}
    BY <1>8, Zenon DEF Counted
  <2>2. \A p \in Tasks : num[p] = 0
    BY Zenon DEF Init
  <2> QED BY <1>9, <2>1, <2>2, SizeZero, Zenon DEF Count
<1> QED BY <1>5, <1>6, <1>7, <1>9, <1>11, <1>12, Zenon DEF IInv, Stacks

LEMMA SameStacks ==
  ASSUME Stacks, stack' = stack
  PROVE  Stacks' /\ Bodies' = Bodies
<1>1. Nested'
  BY Zenon DEF Stacks, Nested
<1>2. OneBody'
  BY DEF Stacks, OneBody, BodyAt
<1>3. Bodies' = Bodies
  BY Zenon DEF Bodies
<1> QED BY <1>1, <1>2, <1>3, Zenon DEF Stacks

LEMMA NextIInv ==
  ASSUME IInv, [Next]_vars
  PROVE  IInv'
<1>1. CASE UNCHANGED vars
  <2>1. stack' = stack /\ UNCHANGED <<queue, num, waited, outcome>>
    BY <1>1, Zenon DEF vars
  <2>2. Stacks' /\ Bodies' = Bodies
    BY <2>1, SameStacks, Zenon DEF IInv
  <2> QED BY <2>1, <2>2, BodiesStay, Zenon
<1>2. CASE destroy
  <2>1. stack' = stack /\ UNCHANGED <<queue, num, waited, outcome>>
    BY <1>2, Zenon DEF destroy, waiters
  <2>2. Stacks' /\ Bodies' = Bodies
    BY <2>1, SameStacks DEF IInv
  <2> QED BY <2>1, <2>2, BodiesStay
<1>3. ASSUME NEW t \in Threads, Step(t) PROVE IInv'
  <2>1. CASE submit(t)
    BY <2>1, SubmitKeeps, Zenon
  <2>2. CASE wait(t)
    BY <2>2, WaitKeeps, Zenon
  <2>3. CASE wait_returns(t)
    BY <2>3, WaitReturnsKeeps
  <2>4. CASE finish(t)
    BY <2>4, FinishKeeps, Zenon
  <2>5. CASE run(t)
    BY <2>5, RunKeeps
  <2> QED BY <1>3, <2>1, <2>2, <2>3, <2>4, <2>5, Zenon DEF Step
<1> QED BY <1>1, <1>2, <1>3, Zenon DEF Next

\* While a job of p is queued or running, p has not reached its end.
LEMMA IInvDone ==
  ASSUME IInv
  PROVE  WaitMeansDone
<1> SUFFICES ASSUME NEW p \in Tasks, waited[p] # "no", NEW j \in Kids(p), Pending(j)
             PROVE  FALSE
  BY Zenon DEF WaitMeansDone
<1>1. Single(Bodies) /\ Good(Bodies, Queued, Waited, Ended)
  BY BodyUnique, Zenon DEF IInv, Single
<1>2. j \in Queued \/ Has(Bodies, j)
  <2>1. j \in Range(queue) => j \in Queued
    BY Zenon DEF Queued
  <2> QED BY <2>1, Zenon DEF Pending, Has
<1>3. PICK n \in DOMAIN Submits[p] : Submits[p][n] = j
  BY KidsOf, Zenon
<1>4. Open(Bodies, p, n)
  BY <1>1, <1>2, <1>3, Zenon DEF Good, Life
<1>5. p \in Waited
  BY Zenon DEF Waited
<1>6. AtEnd(Bodies, p)
  BY <1>1, <1>4, <1>5, Zenon DEF Good, Open, Has
<1> QED BY <1>1, <1>4, <1>6, Zenon DEF Single, Open, AtEnd

\* Once wait, or the destructor of the waiter, has returned, no job of the task is
\* in the queue or running: for any program of tasks, whoever throws, on any number
\* of threads.
THEOREM WaitIsComplete == Spec => []WaitMeansDone
<1>1. Init => IInv
  BY InitIInv, Zenon
<1>2. IInv /\ [Next]_vars => IInv'
  BY NextIInv, Zenon
<1>3. IInv => WaitMeansDone
  BY IInvDone, Zenon
<1> QED BY <1>1, <1>2, <1>3, PTL DEF Spec

-----------------------------------------------------------------------------
(* The errors.                                                               *)

\* An error flag and a failed wait come from a job that threw; a job that threw has
\* set the flag of its submitter's waiter or, if submit ran it, its submitter throws.
EInv ==
  /\ error_flag \in [Tasks -> BOOLEAN]
  /\ \A p \in Tasks : error_flag[p] \/ waited[p] = "error" =>
       \E j \in Kids(p) : outcome[j] = "threw"
  /\ \A p \in Tasks : waited[p] = "ok" => ~error_flag[p]
  /\ \A p \in Tasks : \A j \in Kids(p) : outcome[j] = "threw" =>
       error_flag[p] \/ outcome[p] = "threw" \/ p \in Thrown(Bodies)

\* A step that ends no task.
LEMMA ErrorsStay ==
  ASSUME EInv, Thrown(Bodies) \subseteq Thrown(Bodies'), UNCHANGED <<error_flag, outcome>>,
         \A p \in Tasks : waited'[p] = waited[p]
           \/ waited'[p] = IF error_flag[p] THEN "error" ELSE "ok"
  PROVE  EInv'
<1>1. ASSUME NEW p \in Tasks
      PROVE  /\ waited'[p] = "error" => waited[p] = "error" \/ error_flag[p]
             /\ waited'[p] = "ok" => waited[p] = "ok" \/ ~error_flag[p]
  BY Zenon DEF EInv
<1> QED BY <1>1, Zenon DEF EInv

\* A task ends; if it throws, its submitter gets to know.
LEMMA FinishErrors ==
  ASSUME IInv, EInv, NEW t \in Threads, finish(t)
  PROVE  EInv'
<1>1. PICK f, j : f = top(t) /\ j = f.task
  BY Zenon
<1>2. /\ outcome' = [outcome EXCEPT ![j] = IF f.thrown THEN "threw" ELSE "ok"]
      /\ waited' = waited
      /\ f.from # "run" => error_flag' = error_flag
      /\ f.from = "run" =>
           error_flag' = [error_flag EXCEPT ![submitter(j)] = @ \/ f.thrown]
  BY <1>1, Zenon DEF finish, pool, set_error
<1>3. /\ Stacks /\ f \in Bodies /\ j \in Tasks /\ f.from \in {"thread", "submit", "run"}
      /\ f.thrown \in BOOLEAN
      /\ Single(Bodies) /\ Good(Bodies, Queued, Waited, Ended)
  <2>1. /\ Stacks' /\ f \in Bodies /\ f \in BodyFrame /\ f.at = "end" /\ f.task \in Tasks
        /\ f.from \in {"thread", "submit", "run"} /\ f.thrown \in BOOLEAN
    BY <1>1, FinishMoves, Zenon
  <2>2. Single(Bodies)
    BY BodyUnique, Zenon DEF IInv, Single
  <2> QED BY <1>1, <2>1, <2>2, Zenon DEF IInv
<1>4. /\ outcome[j] = "none" /\ \A q \in Tasks : q # j => outcome'[q] = outcome[q]
      /\ f.thrown => outcome'[j] = "threw"
      /\ ~f.thrown => outcome'[j] # "threw"
  <2>1. j \notin Ended
    BY <1>1, <1>3, Zenon DEF Good
  <2>2. outcome \in [Tasks -> {"none", "ok", "threw"}]
    BY Zenon DEF IInv, Types
  <2> QED BY <1>2, <1>3, <2>1, <2>2, Zenon DEF Ended
\* only the submitter of a job can be told of it
<1>5. ASSUME NEW q \in Tasks, j \in Kids(q)
      PROVE  /\ f.from = "run" => submitter(j) = q
             /\ f.from # "thread" /\ waited[q] = "no"
  <2>1. j \in Jobs /\ j \notin Clients
    BY <1>5, KidsOf, ThreadPoolAssumption, Zenon
  <2>2. f.from # "thread"
    BY <1>1, <1>3, <2>1, SubmitterBelow, Zenon
  <2>3. submitter(j) \in Tasks /\ j \in Kids(submitter(j))
    BY <1>5, Zenon DEF submitter
  <2>4. submitter(j) = q
    BY <1>5, <2>3, KidsOf, Zenon
  <2>5. Pending(j)
    BY <1>1, <1>3, Zenon DEF Pending
  <2>6. waited[q] = "no"
    BY <1>5, <2>5, IInvDone, Zenon DEF WaitMeansDone
  <2> QED BY <2>2, <2>4, <2>6, Zenon
<1>6. /\ \A q \in Tasks : q # j => (q \in Thrown(Bodies) => q \in Thrown(Bodies'))
      /\ \A q \in Tasks : f.from = "submit" /\ f.thrown /\ j \in Kids(q) => q \in Thrown(Bodies')
  <2>1. CASE f.from # "submit"
    <3>1. Bodies' = Bodies \ {f}
      BY <1>1, <2>1, FinishMoves, Zenon
    <3> QED BY <1>1, <2>1, <3>1, Zenon DEF Thrown
  <2>2. CASE f.from = "submit"
    <3>0. PICK c \in Bodies : \E d :
            Resumes(f, c, d) /\ Bodies' = ((Bodies \ {f}) \ {c}) \cup {d}
      BY <1>1, <2>2, FinishMoves
    <3>1. PICK d : Resumes(f, c, d) /\ Bodies' = ((Bodies \ {f}) \ {c}) \cup {d}
      BY <3>0, Zenon
    <3>2. /\ c.thrown = FALSE /\ j \in Kids(c.task) /\ d.task = c.task /\ d.thrown = f.thrown
          /\ c.task \in Tasks /\ d \in Bodies'
      BY <1>1, <1>3, <3>1, Zenon DEF Resumes, Single, BodyFrame
    <3>3. ASSUME NEW q \in Tasks, q # j, q \in Thrown(Bodies) PROVE q \in Thrown(Bodies')
      <4>1. PICK x \in Bodies : x.task = q /\ x.thrown
        BY <3>3, Zenon DEF Thrown
      <4>2. x # f /\ x # c
        BY <1>1, <3>2, <3>3, <4>1, Zenon
      <4>3. x \in Bodies'
        BY <3>1, <4>2, Zenon
      <4> QED BY <4>1, <4>3, Zenon DEF Thrown
    <3>4. ASSUME NEW q \in Tasks, f.thrown, j \in Kids(q) PROVE q \in Thrown(Bodies')
      <4>1. q = c.task
        BY <3>2, <3>4, KidsOf, Zenon
      <4> QED BY <3>2, <3>4, <4>1, Zenon DEF Thrown
    <3> QED BY <3>3, <3>4, Zenon
  <2> QED BY <2>1, <2>2, Zenon
<1>7. /\ error_flag' \in [Tasks -> BOOLEAN]
      /\ \A q \in Tasks : error_flag[q] => error_flag'[q]
      /\ \A q \in Tasks : error_flag'[q] => \/ error_flag[q]
                                            \/ f.from = "run" /\ f.thrown /\ q = submitter(j)
      /\ f.from = "run" /\ f.thrown => \A q \in Tasks : q = submitter(j) => error_flag'[q]
  <2>1. error_flag \in [Tasks -> BOOLEAN]
    BY Zenon DEF EInv
  <2>2. CASE f.from # "run"
    BY <1>2, <2>1, <2>2, Zenon
  <2>3. CASE f.from = "run"
    BY <1>2, <1>3, <2>1, <2>3, Zenon
  <2> QED BY <2>2, <2>3, Zenon
<1>8. ASSUME NEW q \in Tasks, error_flag'[q] \/ waited'[q] = "error"
      PROVE  \E k \in Kids(q) : outcome'[k] = "threw"
  <2>1. CASE error_flag[q] \/ waited[q] = "error"
    <3>1. PICK k \in Kids(q) : outcome[k] = "threw"
      BY <2>1, Zenon DEF EInv
    <3>2. k # j /\ k \in Tasks
      BY <1>4, <3>1, KidsOf, Zenon DEF Tasks
    <3> QED BY <1>4, <3>1, <3>2, Zenon
  <2>2. CASE ~ (error_flag[q] \/ waited[q] = "error")
    <3>1. f.from = "run" /\ f.thrown /\ q = submitter(j)
      BY <1>2, <1>7, <1>8, <2>2, Zenon
    <3>2. j \in Kids(q)
      BY <1>1, <1>3, <3>1, Zenon DEF Good, submitter
    <3> QED BY <1>4, <3>1, <3>2, Zenon
  <2> QED BY <2>1, <2>2, Zenon
<1>9. ASSUME NEW q \in Tasks, waited'[q] = "ok" PROVE ~error_flag'[q]
  <2>1. ~error_flag[q]
    BY <1>2, <1>9, Zenon DEF EInv
  <2>2. ASSUME f.from = "run", q = submitter(j) PROVE FALSE
    <3>1. j \in Kids(q)
      BY <1>1, <1>3, <2>2, Zenon DEF Good, submitter
    <3> QED BY <1>2, <1>5, <1>9, <3>1, Zenon
  <2> QED BY <1>7, <2>1, <2>2, Zenon
<1>10. ASSUME NEW q \in Tasks, NEW k \in Kids(q), outcome'[k] = "threw"
       PROVE  error_flag'[q] \/ outcome'[q] = "threw" \/ q \in Thrown(Bodies')
  <2>1. CASE k = j
    <3>1. f.thrown /\ j \in Kids(q)
      BY <1>4, <1>10, <2>1, Zenon
    <3>2. f.from \in {"submit", "run"} /\ (f.from = "run" => submitter(j) = q)
      BY <1>3, <1>5, <3>1, Zenon
    <3> QED BY <1>6, <1>7, <3>1, <3>2
  <2>2. CASE k # j
    <3>0. k \in Tasks
      BY <1>10, KidsOf
    <3>1. error_flag[q] \/ outcome[q] = "threw" \/ q \in Thrown(Bodies)
      BY <1>4, <1>10, <2>2, <3>0, Zenon DEF EInv
    <3>2. CASE q = j
      <4>1. q \in Thrown(Bodies) => f.thrown
        BY <1>1, <1>3, <3>2, Zenon DEF Thrown, Single
      <4> QED BY <1>4, <1>7, <3>1, <3>2, <4>1, Zenon
    <3>3. CASE q # j
      BY <1>4, <1>6, <1>7, <3>1, <3>3, Zenon
    <3> QED BY <3>2, <3>3, Zenon
  <2> QED BY <2>1, <2>2, ZenonT(60)
<1> QED BY <1>7, <1>8, <1>9, <1>10, Zenon DEF EInv

LEMMA NextEInv ==
  ASSUME IInv, EInv, [Next]_vars
  PROVE  EInv'
<1>1. CASE UNCHANGED vars \/ destroy
  <2>1. stack' = stack /\ UNCHANGED <<error_flag, waited, outcome>>
    BY <1>1, Zenon DEF vars, destroy, waiters
  <2>2. Bodies' = Bodies
    BY <2>1, Zenon DEF Bodies
  <2> QED BY <2>1, <2>2, ErrorsStay, Zenon
<1>2. ASSUME NEW t \in Threads, Step(t) PROVE EInv'
  <2>1. CASE submit(t)
    <3>1. Thrown(Bodies) \subseteq Thrown(Bodies')
      BY <2>1, SubmitKeeps, Zenon
    <3>2. UNCHANGED <<error_flag, waited, outcome>>
      BY <2>1, Zenon DEF submit
    <3> QED BY <3>1, <3>2, ErrorsStay, Zenon
  <2>2. CASE wait(t)
    <3>1. Thrown(Bodies) \subseteq Thrown(Bodies')
      BY <2>2, WaitKeeps
    <3>2. UNCHANGED <<error_flag, waited, outcome>>
      BY <2>2, Zenon DEF wait, waiters
    <3> QED BY <3>1, <3>2, ErrorsStay
  <2>3. CASE wait_returns(t)
    <3>1. Thrown(Bodies) \subseteq Thrown(Bodies')
      BY <2>3, WaitReturnsKeeps
    <3>2. UNCHANGED <<error_flag, outcome>>
      BY <2>3, Zenon DEF wait_returns
    <3>3. PICK p : waited' = [waited EXCEPT ![p] = IF error_flag[p] THEN "error" ELSE "ok"]
      BY <2>3, Zenon DEF wait_returns
    <3>4. \A q \in Tasks : waited'[q] = waited[q]
            \/ waited'[q] = IF error_flag[q] THEN "error" ELSE "ok"
      BY <3>3, Zenon DEF IInv, Types
    <3> QED BY <3>1, <3>2, <3>4, ErrorsStay
  <2>4. CASE finish(t)
    BY <2>4, FinishErrors, Zenon
  <2>5. CASE run(t)
    <3>1. Thrown(Bodies) \subseteq Thrown(Bodies')
      BY <2>5, RunKeeps
    <3>2. UNCHANGED <<error_flag, waited, outcome>>
      BY <2>5, Zenon DEF run, waiters
    <3> QED BY <3>1, <3>2, ErrorsStay
  <2> QED BY <1>2, <2>1, <2>2, <2>3, <2>4, <2>5 DEF Step
<1> QED BY <1>1, <1>2, Zenon DEF Next

\* An exception of a job is told to the task that submitted it, by wait or by submit,
\* and to no other, wherever the job ran.
THEOREM ErrorsAreReported == Spec => []ErrorReported
<1>1. Init => IInv /\ EInv
  <2>1. ASSUME Init PROVE EInv
    <3>1. /\ error_flag = [p \in Tasks |-> FALSE] /\ waited = [p \in Tasks |-> "no"]
          /\ outcome = [p \in Tasks |-> "none"]
      BY <2>1, Zenon DEF Init
    <3>2. \A p \in Tasks : \A j \in Kids(p) : j \in Tasks
      BY KidsOf, Zenon DEF Tasks
    <3> QED BY <3>1, <3>2, Zenon DEF EInv
  <2> QED BY <2>1, InitIInv, Zenon
<1>2. IInv /\ EInv /\ [Next]_vars => IInv' /\ EInv'
  BY NextIInv, NextEInv, Zenon
<1>3. EInv => ErrorReported
  BY Zenon DEF EInv, ErrorReported, Thrown
<1> QED BY <1>1, <1>2, <1>3, PTL DEF Spec

=============================================================================
