----------------------------- MODULE ThreadPool -----------------------------
(***************************************************************************)
(* The thread pool of src/utils/thread/thpool.c: a job queue guarded by    *)
(* rwmutex, a binary semaphore has_jobs, worker threads running thread_do, *)
(* and client threads that call the thpool_* API.                          *)
(*                                                                         *)
(* The two file-static flags threads_keepalive and threads_on_hold are     *)
(* shared by all pools of the process, so the module has a set of pools.   *)
(* A worker's step is one critical section or one read of a shared flag.   *)
(***************************************************************************)
EXTENDS Integers, Sequences, FiniteSets

CONSTANTS
  Pools,     \* the thpool_ structures the process creates
  Workers,   \* the pthreads of all pools
  PoolOf,    \* thread_p->thpool_p
  Clients,   \* application threads that call the API
  Jobs,      \* the jobs that may be added, each a fresh allocation
  Calls,     \* the API calls the clients make besides init and add_work
  NoOne,     \* a mutex that is not held, a client that uses no pool
  NoJob      \* a NULL job pointer

ASSUME PoolAssumption ==
  /\ PoolOf \in [Workers -> Pools]
  /\ IsFiniteSet(Workers)
  /\ NoOne \notin Workers \cup Clients \cup Pools
  /\ Workers \cap Clients = {}
  /\ NoJob \notin Jobs
  /\ Calls \subseteq {"wait", "pause", "destroy"}

VARIABLES
  threads_keepalive,   \* file-static flag: workers keep looping
  threads_on_hold,     \* file-static flag: thread_hold keeps spinning
  stage,               \* per pool: not created, spinning in init, usable, freed
  queue,               \* per pool: the job list from front to rear
  has_jobs,            \* per pool: value of the binary semaphore
  rwmutex,             \* per pool: the worker inside jobqueue_pull, or NoOne
  thcount_lock,        \* per pool: the thread inside a multi-step section
  num_threads_alive,
  num_threads_working,
  idle_waiters,        \* per pool: clients asleep on threads_all_idle
  pc, job,             \* per worker: position in thread_do, job_p
  pending, held,       \* per worker: SIGUSR1 pending, inside thread_hold
  cpc, cpool, cjob,    \* per client: the call it is in, and its arguments
  added, ran,          \* history: pool each job went to, times it was run
  owed,                \* history: jobs added before a client's thpool_wait
  paused               \* history: last of pause/resume called on the pool

globals == <<threads_keepalive, threads_on_hold>>
poolVars == <<stage, queue, has_jobs, rwmutex, thcount_lock,
              num_threads_alive, num_threads_working, idle_waiters>>
workerVars == <<pc, job>>
signalVars == <<pending, held>>
clientVars == <<cpc, cpool, cjob>>
history == <<added, ran, owed, paused>>
vars == <<globals, poolVars, workerVars, signalVars, clientVars, history>>

WorkersOf(p) == {w \in Workers : PoolOf[w] = p}

-----------------------------------------------------------------------------
(* Positions in thread_do.  "count".."uncount" is the part of the loop body  *)
(* between num_threads_working++ and num_threads_working--.                  *)
WorkerPcs == {"none", "born", "loop", "wait", "check", "count", "pull",
              "pullcs", "run", "uncount", "exit", "unlock", "gone"}
Counted == {"pull", "pullcs", "run", "uncount"}
Registered == {"loop", "wait", "check", "count", "exit"} \cup Counted
ClientPcs == {"idle", "init", "add", "wait", "waitlen", "waitwork", "asleep",
              "destroy"}

Init ==
  /\ threads_keepalive = 0
  /\ threads_on_hold = 0
  /\ stage = [p \in Pools |-> "none"]
  /\ queue = [p \in Pools |-> <<>>]
  /\ has_jobs = [p \in Pools |-> 0]
  /\ rwmutex = [p \in Pools |-> NoOne]
  /\ thcount_lock = [p \in Pools |-> NoOne]
  /\ num_threads_alive = [p \in Pools |-> 0]
  /\ num_threads_working = [p \in Pools |-> 0]
  /\ idle_waiters = [p \in Pools |-> {}]
  /\ pc = [w \in Workers |-> "none"]
  /\ job = [w \in Workers |-> NoJob]
  /\ pending = [w \in Workers |-> FALSE]
  /\ held = [w \in Workers |-> FALSE]
  /\ cpc = [c \in Clients |-> "idle"]
  /\ cpool = [c \in Clients |-> NoOne]
  /\ cjob = [c \in Clients |-> NoJob]
  /\ added = [j \in Jobs |-> NoOne]
  /\ ran = [j \in Jobs |-> 0]
  /\ owed = [c \in Clients |-> {}]
  /\ paused = [p \in Pools |-> FALSE]

-----------------------------------------------------------------------------
(* Worker threads: thread_do.                                                *)

Goto(w, label) == pc' = [pc EXCEPT ![w] = label]

\* A worker inside the SIGUSR1 handler executes nothing else.
At(w, label) == pc[w] = label /\ ~held[w]

thread_do_register(w) ==
  LET p == PoolOf[w] IN
  /\ At(w, "born")
  /\ thcount_lock[p] = NoOne
  /\ num_threads_alive' = [num_threads_alive EXCEPT ![p] = @ + 1]
  /\ Goto(w, "loop")
  /\ UNCHANGED <<globals, stage, queue, has_jobs, rwmutex, thcount_lock,
                 num_threads_working, idle_waiters, job, signalVars,
                 clientVars, history>>

\* Variant: the loop never looks at threads_keepalive.
thread_do_loop_Forever(w) ==
  /\ At(w, "loop")
  /\ Goto(w, "wait")
  /\ UNCHANGED <<globals, poolVars, job, signalVars, clientVars, history>>

thread_do_loop(w) ==
  /\ At(w, "loop")
  /\ Goto(w, IF threads_keepalive = 1 THEN "wait" ELSE "exit")
  /\ UNCHANGED <<globals, poolVars, job, signalVars, clientVars, history>>

\* The condition-variable loop of bsem_wait is an await on the value.
bsem_wait(w) ==
  /\ At(w, "wait")
  /\ has_jobs[PoolOf[w]] = 1
  /\ has_jobs' = [has_jobs EXCEPT ![PoolOf[w]] = 0]
  /\ Goto(w, "check")
  /\ UNCHANGED <<globals, stage, queue, rwmutex, thcount_lock,
                 num_threads_alive, num_threads_working, idle_waiters,
                 job, signalVars, clientVars, history>>

\* Variant: the decrement of num_threads_working is outside the if.
thread_do_check_Uncounts(w) ==
  /\ At(w, "check")
  /\ Goto(w, IF threads_keepalive = 1 THEN "count" ELSE "uncount")
  /\ UNCHANGED <<globals, poolVars, job, signalVars, clientVars, history>>

thread_do_check(w) ==
  /\ At(w, "check")
  /\ Goto(w, IF threads_keepalive = 1 THEN "count" ELSE "loop")
  /\ UNCHANGED <<globals, poolVars, job, signalVars, clientVars, history>>

\* Variant: the worker is not counted before it pulls.
thread_do_count_Late(w) ==
  /\ At(w, "count")
  /\ thcount_lock[PoolOf[w]] = NoOne
  /\ Goto(w, "pull")
  /\ UNCHANGED <<globals, poolVars, job, signalVars, clientVars, history>>

thread_do_count(w) ==
  LET p == PoolOf[w] IN
  /\ At(w, "count")
  /\ thcount_lock[p] = NoOne
  /\ num_threads_working' = [num_threads_working EXCEPT ![p] = @ + 1]
  /\ Goto(w, "pull")
  /\ UNCHANGED <<globals, stage, queue, has_jobs, rwmutex, thcount_lock,
                 num_threads_alive, idle_waiters, job, signalVars,
                 clientVars, history>>

jobqueue_pull_lock(w) ==
  LET p == PoolOf[w] IN
  /\ At(w, "pull")
  /\ rwmutex[p] = NoOne
  /\ rwmutex' = [rwmutex EXCEPT ![p] = w]
  /\ Goto(w, "pullcs")
  /\ UNCHANGED <<globals, stage, queue, has_jobs, thcount_lock,
                 num_threads_alive, num_threads_working, idle_waiters,
                 job, signalVars, clientVars, history>>

\* The critical section of jobqueue_pull, up to the unlock of rwmutex: the
\* front job is taken, rest is the queue that remains.
Pull(w, rest, post) ==
  LET p == PoolOf[w] IN
  /\ At(w, "pullcs")
  /\ job' = [job EXCEPT ![w] = IF queue[p] = <<>> THEN NoJob ELSE Head(queue[p])]
  /\ queue' = [queue EXCEPT ![p] = rest]
  /\ has_jobs' = [has_jobs EXCEPT ![p] = IF post THEN 1 ELSE @]
  /\ rwmutex' = [rwmutex EXCEPT ![p] = NoOne]
  /\ Goto(w, "run")
  /\ UNCHANGED <<globals, stage, thcount_lock, num_threads_alive,
                 num_threads_working, idle_waiters, signalVars, clientVars,
                 history>>

Rest(q) == IF q = <<>> THEN q ELSE Tail(q)

\* Variants: no post for the jobs left behind; the last job is not unlinked;
\* the queue is emptied as if it had held one job.
jobqueue_pull_NoRepost(w) == Pull(w, Rest(queue[PoolOf[w]]), FALSE)

jobqueue_pull_KeepsLast(w) ==
  LET q == queue[PoolOf[w]] IN
  Pull(w, IF Len(q) = 1 THEN q ELSE Rest(q), Len(q) > 1)

jobqueue_pull_Empties(w) == Pull(w, <<>>, Len(queue[PoolOf[w]]) > 1)

\* The semaphore is posted again when more than one job was queued.
jobqueue_pull(w) ==
  LET q == queue[PoolOf[w]] IN Pull(w, Rest(q), Len(q) > 1)

thread_do_run(w) ==
  /\ At(w, "run")
  /\ ran' = IF job[w] = NoJob THEN ran ELSE [ran EXCEPT ![job[w]] = @ + 1]
  /\ job' = [job EXCEPT ![w] = NoJob]
  /\ Goto(w, "uncount")
  /\ UNCHANGED <<globals, poolVars, signalVars, clientVars, added, owed, paused>>

\* pthread_cond_signal on threads_all_idle wakes one sleeper, if there is one.
SignalIdle(p, ws) ==
  \/ ws = {} /\ UNCHANGED <<idle_waiters, cpc>>
  \/ \E c \in ws : /\ idle_waiters' = [idle_waiters EXCEPT ![p] = @ \ {c}]
                   /\ cpc' = [cpc EXCEPT ![c] = "wait"]

Uncount(w, signal) ==
  LET p == PoolOf[w] IN
  /\ At(w, "uncount")
  /\ thcount_lock[p] = NoOne
  /\ num_threads_working' = [num_threads_working EXCEPT ![p] = @ - 1]
  /\ SignalIdle(p, IF signal THEN idle_waiters[p] ELSE {})
  /\ Goto(w, "loop")
  /\ UNCHANGED <<globals, stage, queue, has_jobs, rwmutex, thcount_lock,
                 num_threads_alive, job, signalVars, cpool, cjob, history>>

\* Variant: threads_all_idle is never signalled.
thread_do_uncount_Never(w) == Uncount(w, FALSE)

thread_do_uncount(w) == Uncount(w, num_threads_working[PoolOf[w]] = 1)

thread_do_exit(w) ==
  LET p == PoolOf[w] IN
  /\ At(w, "exit")
  /\ thcount_lock[p] = NoOne
  /\ num_threads_alive' = [num_threads_alive EXCEPT ![p] = @ - 1]
  /\ thcount_lock' = [thcount_lock EXCEPT ![p] = w]
  /\ Goto(w, "unlock")
  /\ UNCHANGED <<globals, stage, queue, has_jobs, rwmutex,
                 num_threads_working, idle_waiters, job, signalVars,
                 clientVars, history>>

thread_do_unlock(w) ==
  /\ At(w, "unlock")
  /\ thcount_lock' = [thcount_lock EXCEPT ![PoolOf[w]] = NoOne]
  /\ Goto(w, "gone")
  /\ UNCHANGED <<globals, stage, queue, has_jobs, rwmutex, num_threads_alive,
                 num_threads_working, idle_waiters, job, signalVars,
                 clientVars, history>>

\* SIGUSR1 is delivered at any point of the thread: thread_hold starts.
thread_hold_enter(w) ==
  /\ pending[w] /\ ~held[w]
  /\ pc[w] \notin {"none", "gone"}
  /\ pending' = [pending EXCEPT ![w] = FALSE]
  /\ held' = [held EXCEPT ![w] = TRUE]
  /\ threads_on_hold' = 1
  /\ UNCHANGED <<threads_keepalive, poolVars, workerVars, clientVars, history>>

\* The spin of thread_hold sees threads_on_hold = 0 and the handler returns.
thread_hold_leave(w) ==
  /\ held[w] /\ threads_on_hold = 0
  /\ held' = [held EXCEPT ![w] = FALSE]
  /\ UNCHANGED <<globals, poolVars, workerVars, pending, clientVars, history>>

-----------------------------------------------------------------------------
(* Client threads: the thpool_* API.  A client makes one call at a time.     *)

Enter(c, p, call) ==
  /\ cpc[c] = "idle"
  /\ cpc' = [cpc EXCEPT ![c] = call]
  /\ cpool' = [cpool EXCEPT ![c] = p]

Return(c) ==
  /\ cpc' = [cpc EXCEPT ![c] = "idle"]
  /\ cpool' = [cpool EXCEPT ![c] = NoOne]

thpool_init(c, p) ==
  /\ stage[p] = "none"
  /\ Enter(c, p, "init")
  /\ threads_on_hold' = 0
  /\ threads_keepalive' = 1
  /\ stage' = [stage EXCEPT ![p] = "init"]
  /\ pc' = [w \in Workers |-> IF PoolOf[w] = p THEN "born" ELSE pc[w]]
  /\ UNCHANGED <<queue, has_jobs, rwmutex, thcount_lock, num_threads_alive,
                 num_threads_working, idle_waiters, job, signalVars, cjob,
                 history>>

\* The spin at the end of thpool_init.
thpool_init_return(c) ==
  LET p == cpool[c] IN
  /\ cpc[c] = "init"
  /\ num_threads_alive[p] = Cardinality(WorkersOf(p))
  /\ stage' = [stage EXCEPT ![p] = "live"]
  /\ Return(c)
  /\ UNCHANGED <<globals, queue, has_jobs, rwmutex, thcount_lock,
                 num_threads_alive, num_threads_working, idle_waiters,
                 workerVars, signalVars, cjob, history>>

thpool_add_work(c, p, j) ==
  /\ stage[p] = "live"
  /\ added[j] = NoOne
  /\ \A d \in Clients : cjob[d] # j
  /\ Enter(c, p, "add")
  /\ cjob' = [cjob EXCEPT ![c] = j]
  /\ UNCHANGED <<globals, poolVars, workerVars, signalVars, history>>

\* jobqueue_push under rwmutex, posting has_jobs; thpool_add_work returns.
jobqueue_push(c) ==
  LET p == cpool[c] IN
  /\ cpc[c] = "add"
  /\ rwmutex[p] = NoOne
  /\ queue' = [queue EXCEPT ![p] = Append(@, cjob[c])]
  /\ has_jobs' = [has_jobs EXCEPT ![p] = 1]
  /\ added' = [added EXCEPT ![cjob[c]] = p]
  /\ cjob' = [cjob EXCEPT ![c] = NoJob]
  /\ Return(c)
  /\ UNCHANGED <<globals, stage, rwmutex, thcount_lock, num_threads_alive,
                 num_threads_working, idle_waiters, workerVars, signalVars,
                 ran, owed, paused>>

thpool_wait(c, p) ==
  /\ "wait" \in Calls
  /\ stage[p] = "live"
  /\ Enter(c, p, "wait")
  /\ owed' = [owed EXCEPT ![c] = {j \in Jobs : added[j] = p}]
  /\ UNCHANGED <<globals, poolVars, workerVars, signalVars, cjob, added, ran,
                 paused>>

thpool_wait_lock(c) ==
  LET p == cpool[c] IN
  /\ cpc[c] = "wait"
  /\ thcount_lock[p] = NoOne
  /\ thcount_lock' = [thcount_lock EXCEPT ![p] = c]
  /\ cpc' = [cpc EXCEPT ![c] = "waitlen"]
  /\ UNCHANGED <<globals, stage, queue, has_jobs, rwmutex, num_threads_alive,
                 num_threads_working, idle_waiters, workerVars, signalVars,
                 cpool, cjob, history>>

\* pthread_cond_wait: release thcount_lock and sleep on threads_all_idle.
Sleep(c) ==
  LET p == cpool[c] IN
  /\ thcount_lock' = [thcount_lock EXCEPT ![p] = NoOne]
  /\ idle_waiters' = [idle_waiters EXCEPT ![p] = @ \cup {c}]
  /\ cpc' = [cpc EXCEPT ![c] = "asleep"]
  /\ UNCHANGED cpool

\* First operand of the loop condition: jobqueue.len, read without rwmutex.
thpool_wait_len(c) ==
  LET p == cpool[c] IN
  /\ cpc[c] = "waitlen"
  /\ \/ queue[p] # <<>> /\ Sleep(c)
     \/ /\ queue[p] = <<>>
        /\ cpc' = [cpc EXCEPT ![c] = "waitwork"]
        /\ UNCHANGED <<thcount_lock, idle_waiters, cpool>>
  /\ UNCHANGED <<globals, stage, queue, has_jobs, rwmutex, num_threads_alive,
                 num_threads_working, workerVars, signalVars, cjob, history>>

\* Second operand: num_threads_working; if it is 0 thpool_wait returns.
thpool_wait_working(c) ==
  LET p == cpool[c] IN
  /\ cpc[c] = "waitwork"
  /\ \/ num_threads_working[p] # 0 /\ Sleep(c)
     \/ /\ num_threads_working[p] = 0
        /\ thcount_lock' = [thcount_lock EXCEPT ![p] = NoOne]
        /\ Return(c)
        /\ UNCHANGED idle_waiters
  /\ UNCHANGED <<globals, stage, queue, has_jobs, rwmutex, num_threads_alive,
                 num_threads_working, workerVars, signalVars, cjob, history>>

\* POSIX lets pthread_cond_wait return without a signal.
spurious_wakeup(c) ==
  LET p == cpool[c] IN
  /\ cpc[c] = "asleep"
  /\ idle_waiters' = [idle_waiters EXCEPT ![p] = @ \ {c}]
  /\ cpc' = [cpc EXCEPT ![c] = "wait"]
  /\ UNCHANGED <<globals, stage, queue, has_jobs, rwmutex, thcount_lock,
                 num_threads_alive, num_threads_working, workerVars,
                 signalVars, cpool, cjob, history>>

\* SIGUSR1 becomes pending for every thread of the pool.
thpool_pause(c, p) ==
  /\ "pause" \in Calls
  /\ cpc[c] = "idle" /\ stage[p] = "live"
  /\ pending' = [w \in Workers |-> pending[w] \/ PoolOf[w] = p]
  /\ paused' = [paused EXCEPT ![p] = TRUE]
  /\ UNCHANGED <<globals, poolVars, workerVars, held, clientVars, added, ran,
                 owed>>

thpool_resume(c, p) ==
  /\ "pause" \in Calls
  /\ cpc[c] = "idle" /\ stage[p] = "live"
  /\ threads_on_hold' = 0
  /\ paused' = [paused EXCEPT ![p] = FALSE]
  /\ UNCHANGED <<threads_keepalive, poolVars, workerVars, signalVars,
                 clientVars, added, ran, owed>>

\* The caller must be the only user of the pool: its memory is freed.
thpool_destroy(c, p) ==
  /\ "destroy" \in Calls
  /\ stage[p] = "live"
  /\ \A d \in Clients : cpool[d] # p
  /\ Enter(c, p, "destroy")
  /\ threads_keepalive' = 0
  /\ stage' = [stage EXCEPT ![p] = "dying"]
  /\ UNCHANGED <<threads_on_hold, queue, has_jobs, rwmutex, thcount_lock,
                 num_threads_alive, num_threads_working, idle_waiters,
                 workerVars, signalVars, cjob, history>>

\* One turn of either polling loop of thpool_destroy.
bsem_post_all(c) ==
  LET p == cpool[c] IN
  /\ cpc[c] = "destroy"
  /\ num_threads_alive[p] # 0
  /\ has_jobs[p] = 0
  /\ has_jobs' = [has_jobs EXCEPT ![p] = 1]
  /\ UNCHANGED <<globals, stage, queue, rwmutex, thcount_lock,
                 num_threads_alive, num_threads_working, idle_waiters,
                 workerVars, signalVars, clientVars, history>>

Free(c) ==
  LET p == cpool[c] IN
  /\ queue' = [queue EXCEPT ![p] = <<>>]
  /\ has_jobs' = [has_jobs EXCEPT ![p] = 0]
  /\ stage' = [stage EXCEPT ![p] = "freed"]
  /\ Return(c)
  /\ UNCHANGED <<globals, rwmutex, thcount_lock, num_threads_alive,
                 num_threads_working, idle_waiters, workerVars, signalVars,
                 cjob, history>>

\* Variant: destroy gives up after the first polling loop times out.
thpool_destroy_free_OnTimeout(c) == cpc[c] = "destroy" /\ Free(c)

\* The polling loops end: jobqueue_destroy drops the jobs still queued and
\* resets the semaphore, then the pool is freed.
thpool_destroy_free(c) ==
  /\ cpc[c] = "destroy"
  /\ num_threads_alive[cpool[c]] = 0
  /\ Free(c)

-----------------------------------------------------------------------------
ThreadStep(w) ==
  \/ thread_do_register(w) \/ thread_do_loop(w) \/ bsem_wait(w)
  \/ thread_do_check(w) \/ thread_do_count(w) \/ jobqueue_pull_lock(w)
  \/ jobqueue_pull(w) \/ thread_do_run(w) \/ thread_do_uncount(w)
  \/ thread_do_exit(w) \/ thread_do_unlock(w)

SignalStep(w) == thread_hold_enter(w) \/ thread_hold_leave(w)

\* A client inside a call makes progress by itself ...
CallStep(c) ==
  \/ thpool_init_return(c) \/ jobqueue_push(c) \/ thpool_wait_lock(c)
  \/ thpool_wait_len(c) \/ thpool_wait_working(c) \/ bsem_post_all(c)
  \/ thpool_destroy_free(c)

\* ... and starts a call when the application wants to.
StartCall(c) ==
  \E p \in Pools :
    \/ thpool_init(c, p) \/ thpool_wait(c, p) \/ thpool_pause(c, p)
    \/ thpool_resume(c, p) \/ thpool_destroy(c, p)
    \/ \E j \in Jobs : thpool_add_work(c, p, j)

Next ==
  \/ \E w \in Workers : ThreadStep(w) \/ SignalStep(w)
  \/ \E c \in Clients : CallStep(c) \/ StartCall(c) \/ spurious_wakeup(c)

Spec == Init /\ [][Next]_vars

\* The steps of thread_do that acquire thcount_lock or rwmutex.
LockStep(w) ==
  thread_do_count(w) \/ jobqueue_pull_lock(w) \/ thread_do_uncount(w)

\* The kernel schedules every runnable thread and delivers every signal, and a
\* thread that finds a mutex free again and again eventually gets it (spurious
\* wakeups of thpool_wait may take thcount_lock forever).  Nothing forces the
\* application to make a call.
Fairness ==
  /\ \A w \in Workers : WF_vars(ThreadStep(w)) /\ WF_vars(SignalStep(w))
  /\ \A w \in Workers : SF_vars(LockStep(w))
  /\ \A c \in Clients : WF_vars(CallStep(c)) /\ SF_vars(thpool_wait_lock(c))

FairSpec == Spec /\ Fairness

-----------------------------------------------------------------------------
(* Properties                                                               *)

\* Every field keeps the type its C declaration gives it; in particular the
\* two thread counters of thpool_ never become negative.
TypeOK ==
  /\ threads_keepalive \in {0, 1}
  /\ threads_on_hold \in {0, 1}
  /\ stage \in [Pools -> {"none", "init", "live", "dying", "freed"}]
  /\ queue \in [Pools -> Seq(Jobs)]
  /\ has_jobs \in [Pools -> {0, 1}]
  /\ rwmutex \in [Pools -> Workers \cup {NoOne}]
  /\ thcount_lock \in [Pools -> Workers \cup Clients \cup {NoOne}]
  /\ num_threads_alive \in [Pools -> Nat]
  /\ num_threads_working \in [Pools -> Nat]
  /\ idle_waiters \in [Pools -> SUBSET Clients]
  /\ pc \in [Workers -> WorkerPcs]
  /\ job \in [Workers -> Jobs \cup {NoJob}]
  /\ pending \in [Workers -> BOOLEAN]
  /\ held \in [Workers -> BOOLEAN]
  /\ cpc \in [Clients -> ClientPcs]
  /\ cpool \in [Clients -> Pools \cup {NoOne}]
  /\ cjob \in [Clients -> Jobs \cup {NoJob}]
  /\ added \in [Jobs -> Pools \cup {NoOne}]
  /\ ran \in [Jobs -> Nat]
  /\ owed \in [Clients -> SUBSET Jobs]
  /\ paused \in [Pools -> BOOLEAN]

Queued(p, j) == \E i \in 1..Len(queue[p]) : queue[p][i] = j
HeldBy(w, j) == job[w] = j

\* A job added with thpool_add_work is run at most once, whatever the
\* interleaving of pushes, pulls and the extra semaphore posts.
JobsRunAtMostOnce == \A j \in Jobs : ran[j] <= 1

\* Until thpool_destroy drops the queue, an added job is queued in its pool,
\* in the hands of a worker of that pool, or has been run.
NoJobLost ==
  \A j \in Jobs, p \in Pools :
    added[j] = p /\ stage[p] # "freed" =>
      \/ Queued(p, j)
      \/ \E w \in WorkersOf(p) : HeldBy(w, j)
      \/ ran[j] = 1

\* The binary semaphore never loses a wakeup: while no pool is destroyed and
\* jobs are queued, has_jobs is 1 or a worker that took it is still on its
\* way to jobqueue_pull (which posts again if it leaves jobs behind).
NoLostWakeup ==
  (\A q \in Pools : stage[q] \notin {"dying", "freed"}) =>
    \A p \in Pools : queue[p] # <<>> =>
      \/ has_jobs[p] = 1
      \/ \E w \in WorkersOf(p) : pc[w] \in {"check", "count", "pull", "pullcs"}

\* thpool_wait returns only when every job that had been added to the pool
\* before the call has been run to completion, although the queue length is
\* read without rwmutex.
WaitCoversEarlierJobs ==
  [][\A c \in Clients :
       cpc[c] = "waitwork" /\ cpc'[c] = "idle" =>
         \A j \in owed[c] : ran[j] = 1]_vars

\* thpool_destroy frees the pool only after every worker has left its loop,
\* so a job that was started has been finished.
DestroyAfterLoops ==
  \A p \in Pools : stage[p] = "freed" =>
    \A w \in WorkersOf(p) : pc[w] \in {"unlock", "gone"} /\ job[w] = NoJob

\* Every job added to a pool is eventually run unless the pool is destroyed,
\* although the semaphore is binary and counts no jobs.
LivePoolRunsJobs ==
  \A j \in Jobs, p \in Pools :
    (added[j] = p /\ stage[p] = "live") ~> (ran[j] = 1 \/ stage[p] # "live")

\* thpool.h, thpool_wait: "Once the queue is empty and all work has completed,
\* the calling thread ... will continue."
WaitReturns == \A c \in Clients : (cpc[c] = "wait") ~> (cpc[c] = "idle")

\* thpool_destroy eventually stops all threads and returns.
DestroyReturns == \A c \in Clients : (cpc[c] = "destroy") ~> (cpc[c] = "idle")
=============================================================================
