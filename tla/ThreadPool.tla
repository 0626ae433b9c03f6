----------------------------- MODULE ThreadPool -----------------------------
(* The thread pool of common/threadpool.cpp: threads that submit jobs and    *)
(* wait for them, and the pool's own threads.                                *)
(*                                                                           *)
(* A task is the code of a client or of a job.  It submits its jobs to one   *)
(* waiter, waits for them and ends; it may throw, and the waiter's           *)
(* destructor then waits instead.  Each thread has a stack of calls, since a *)
(* thread that waits runs queued jobs, which submit and wait in turn.  A     *)
(* step is a critical section of the pool's or of a waiter's mutex.          *)
EXTENDS Naturals, Sequences, FiniteSets, Functions

CONSTANTS
  Clients,   \* threads from outside the pool
  Workers,   \* threads of the pool: max - 1 of them
  Jobs,
  Submits,   \* the jobs that each task submits, in order
  Leaf,      \* the jobs that are submitted as leaves
  Throws     \* the tasks that throw when they have submitted all

Threads == Clients \cup Workers
Tasks == Clients \cup Jobs
max == Cardinality(Workers) + 1

ASSUME ThreadPoolAssumption ==
  /\ IsFiniteSet(Workers) /\ IsFiniteSet(Jobs)
  /\ Clients \cap Workers = {} /\ Clients \cap Jobs = {}
  /\ Submits \in [Tasks -> Seq(Jobs)]
  /\ Leaf \subseteq Jobs /\ Throws \subseteq Tasks
  \* a job is submitted once, by one task
  /\ \A p, q \in Tasks : \A i \in DOMAIN Submits[p], j \in DOMAIN Submits[q] :
       Submits[p][i] = Submits[q][j] => p = q /\ i = j

VARIABLES
  queue,      \* the jobs in the queue
  active,
  running,
  sleeping,   \* the threads that wait for has_work
  depth, is_leaf,   \* thread-local
  stack,      \* the calls of each thread, the innermost last
  num, error_flag,  \* of each task's waiter
  waited,     \* what wait() told each task
  outcome     \* how each task ended
vars == <<queue, active, running, sleeping, depth, is_leaf, stack, num, error_flag, waited,
          outcome>>
pool == <<queue, active, running, sleeping>>
locals == <<depth, is_leaf>>
waiters == <<num, error_flag, waited>>

\* A call of run, which has a job to be counted out of active or not; a call of a
\* task's code, from run, from submit itself, or as a client's program.  A task
\* that submits nothing has no waiter.
Run(flush) == [call |-> "run", flush |-> flush, counted |-> FALSE]
Body(task, from) == [call |-> "body", task |-> task, from |-> from, submitted |-> 0,
                     at |-> IF Submits[task] = <<>> THEN "end" ELSE "submit",
                     thrown |-> Submits[task] = <<>> /\ task \in Throws]

Init ==
  /\ queue = <<>> /\ active = 0 /\ running = TRUE /\ sleeping = {}
  /\ depth = [t \in Threads |-> 0]
  /\ is_leaf = [t \in Threads |-> FALSE]
  /\ stack = [t \in Threads |-> IF t \in Clients THEN <<Body(t, "thread")>> ELSE <<Run(FALSE)>>]
  /\ num = [p \in Tasks |-> 0]
  /\ error_flag = [p \in Tasks |-> FALSE]
  /\ waited = [p \in Tasks |-> "no"]
  /\ outcome = [p \in Tasks |-> "none"]

-----------------------------------------------------------------------------
Kids(p) == Range(Submits[p])
submitter(j) == CHOOSE p \in Tasks : j \in Kids(p)

Front(s) == SubSeq(s, 1, Len(s) - 1)
Last(s) == s[Len(s)]
Calls(t, call) == stack[t] # <<>> /\ Last(stack[t]).call = call
top(t) == Last(stack[t])
below(t) == Front(stack[t])
Return(t) == stack' = [stack EXCEPT ![t] = Front(@)]
Replace(t, f) == stack' = [stack EXCEPT ![t] = Append(Front(@), f)]
Call(t, f, g) == stack' = [stack EXCEPT ![t] = Front(@) \o <<f, g>>]

leave_job(t) ==
  /\ depth' = [depth EXCEPT ![t] = @ - 1]
  /\ is_leaf' = [is_leaf EXCEPT ![t] = FALSE]
enter_job(t, j) ==
  /\ depth' = [depth EXCEPT ![t] = @ + 1]
  /\ is_leaf' = [is_leaf EXCEPT ![t] = j \in Leaf]

\* has_work.notify_one
notify_one ==
  \/ sleeping = {} /\ UNCHANGED sleeping
  \/ \E w \in sleeping : sleeping' = sleeping \ {w}

\* submit: refused in a leaf; run at once when the pool is busy, or inside a job;
\* otherwise queued, a leaf in front.  Every caller passes a waiter.
submit(t) ==
  LET f == top(t)
      j == Submits[f.task][f.submitted + 1]
      g == [f EXCEPT !.submitted = @ + 1]
      here == j \notin Leaf /\ ((active = max /\ queue # <<>>) \/ depth[t] > 0)
  IN  /\ Calls(t, "body")
      /\ f.at = "submit" /\ ~f.thrown /\ f.submitted < Len(Submits[f.task])
      /\ \/ /\ is_leaf[t]
            /\ Replace(t, [f EXCEPT !.thrown = TRUE])
            /\ UNCHANGED <<pool, locals, num>>
         \/ /\ ~is_leaf[t] /\ here
            /\ enter_job(t, j)
            /\ Call(t, g, Body(j, "submit"))
            /\ UNCHANGED <<pool, num>>
         \/ /\ ~is_leaf[t] /\ ~here
            /\ num' = [num EXCEPT ![f.task] = @ + 1]
            /\ queue' = IF j \in Leaf THEN <<j>> \o queue ELSE Append(queue, j)
            /\ notify_one
            /\ Replace(t, g)
            /\ UNCHANGED <<active, running, locals>>
      /\ UNCHANGED <<error_flag, waited, outcome>>

\* Mutant: wait goes to sleep at once.
lazy_wait(t) ==
  LET f == top(t)
  IN  /\ Calls(t, "body")
      /\ f.at = "submit" /\ (f.thrown \/ f.submitted = Len(Submits[f.task]))
      /\ Replace(t, [f EXCEPT !.thrown = @ \/ f.task \in Throws, !.at = "wait"])
      /\ UNCHANGED <<pool, locals, waiters, outcome>>

\* wait first empties the queue.
wait(t) ==
  LET f == top(t)
  IN  /\ Calls(t, "body")
      /\ f.at = "submit" /\ (f.thrown \/ f.submitted = Len(Submits[f.task]))
      /\ Call(t, [f EXCEPT !.thrown = @ \/ f.task \in Throws, !.at = "wait"], Run(TRUE))
      /\ UNCHANGED <<pool, locals, waiters, outcome>>

\* Then it sleeps until no job is left.  Mutant: an empty queue is enough.
hasty_no_job_left(p) == queue = <<>>
no_job_left(p) == num[p] = 0

\* A task that waited by itself then destroys its waiter, which waits again: it
\* empties the queue and finds that no job of the task is left.
wait_returns(t) ==
  LET f == top(t)
      g == [f EXCEPT !.at = "end"]
  IN  /\ Calls(t, "body")
      /\ f.at = "wait" /\ no_job_left(f.task)
      /\ waited' = [waited EXCEPT ![f.task] = IF error_flag[f.task] THEN "error" ELSE "ok"]
      /\ IF f.thrown THEN Replace(t, g) ELSE Call(t, g, Run(TRUE))
      /\ UNCHANGED <<pool, locals, num, error_flag, outcome>>

\* set_error.  Mutant: the waiter is told of its last job only.
last_set_error(p, thrown) == error_flag' = [error_flag EXCEPT ![p] = thrown]
set_error(p, thrown) == error_flag' = [error_flag EXCEPT ![p] = @ \/ thrown]

\* The task's code ends.  An exception of a job that submit ran goes on to the
\* task that submitted it, past the line that counts depth down; one of a job
\* that run took is caught and told to the waiter.
finish(t) ==
  LET f == top(t)
      j == f.task
      p == submitter(j)
      caller == Last(below(t))
  IN  /\ Calls(t, "body")
      /\ f.at = "end"
      /\ \/ /\ f.from = "thread"
            /\ Return(t)
            /\ UNCHANGED <<locals, num, error_flag>>
         \/ /\ f.from = "submit"
            /\ stack' = [stack EXCEPT ![t] =
                           Append(Front(below(t)), [caller EXCEPT !.thrown = f.thrown])]
            /\ IF f.thrown THEN UNCHANGED locals ELSE leave_job(t)
            /\ UNCHANGED <<num, error_flag>>
         \/ /\ f.from = "run"
            /\ stack' = [stack EXCEPT ![t] =
                           Append(Front(below(t)), [caller EXCEPT !.counted = TRUE])]
            /\ leave_job(t)
            /\ set_error(p, f.thrown)
            /\ num' = [num EXCEPT ![p] = @ - 1]
      /\ outcome' = [outcome EXCEPT ![j] = IF f.thrown THEN "threw" ELSE "ok"]
      /\ UNCHANGED <<pool, waited>>

\* The critical section of run: count the last job out, and leave, sleep or take
\* the next job.
run(t) ==
  LET f    == top(t)
      left == IF f.counted THEN active - 1 ELSE active
      g    == [f EXCEPT !.counted = FALSE]
  IN  /\ Calls(t, "run")
      /\ t \notin sleeping
      /\ \/ /\ ~running \/ (queue = <<>> /\ f.flush)
            /\ Return(t)
            /\ active' = left
            /\ UNCHANGED <<queue, sleeping, locals>>
         \/ /\ running /\ queue = <<>> /\ ~f.flush
            /\ sleeping' = sleeping \cup {t}
            /\ Replace(t, g)
            /\ active' = left
            /\ UNCHANGED <<queue, locals>>
         \/ /\ running /\ queue # <<>>
            /\ active' = left + 1
            /\ queue' = Tail(queue)
            /\ enter_job(t, Head(queue))
            /\ Call(t, g, Body(Head(queue), "run"))
            /\ UNCHANGED sleeping
      /\ UNCHANGED <<running, waiters, outcome>>

\* destroy, when the program ends.
destroy ==
  /\ running
  /\ \A c \in Clients : stack[c] = <<>>
  /\ running' = FALSE
  /\ sleeping' = {}
  /\ UNCHANGED <<queue, active, locals, stack, waiters, outcome>>

Step(t) == submit(t) \/ wait(t) \/ wait_returns(t) \/ finish(t) \/ run(t)
Next == destroy \/ \E t \in Threads : Step(t)

\* Every thread that can take a step is scheduled, and the program ends.
Spec == Init /\ [][Next]_vars /\ WF_vars(destroy) /\ \A t \in Threads : WF_vars(Step(t))

-----------------------------------------------------------------------------
\* A job that is in the queue or on the stack of some thread.
Bodies == UNION {{f \in Range(stack[t]) : f.call = "body"} : t \in Threads}
Pending(j) == j \in Range(queue) \/ \E f \in Bodies : f.task = j

\* "The waiter lets the caller know when all of its tasks are completed": once
\* wait, or the destructor of a waiter, has returned, no job of the task is in
\* the queue or running on another thread, where it would use the locals and the
\* waiter of a function that has returned.  This holds of a task that threw half
\* way too.
WaitMeansDone == \A p \in Tasks : waited[p] # "no" => \A j \in Kids(p) : ~Pending(j)

\* "returns false iff any error": an exception of a job reaches the task that
\* submitted it, through the waiter or, if submit ran the job, directly, and
\* nobody else's waiter; wherever the job ran.
ErrorReported ==
  \A p \in Tasks :
    /\ waited[p] = "error" => \E j \in Kids(p) : outcome[j] = "threw"
    /\ waited[p] = "ok" =>
         \A j \in Kids(p) : outcome[j] = "threw" =>
           \/ outcome[p] = "threw"
           \/ \E f \in Bodies : f.task = p /\ f.thrown

\* Everybody's jobs are done in the end and the pool can be destroyed: threads
\* that wait for each other's jobs, with the queue, never all wait at once.
EveryProgramEnds == <>(\A t \in Threads : stack[t] = <<>>)
=============================================================================
