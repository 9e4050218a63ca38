-------------------------- MODULE ThreadPoolSteps ---------------------------
(***************************************************************************)
(* Proofs about ThreadPool for any number of pools, workers, clients and   *)
(* jobs.  The inductive invariant is built in layers.  The layers here are *)
(* the types of the variables (Typed), which calls a pool can be in at each *)
(* stage of its life (CallInv, StageInv), and the two thread counters of a *)
(* pool, which count the threads at given positions of thread_do           *)
(* (CountersOK): they never become negative, and what thpool_init,         *)
(* thpool_wait and thpool_destroy read in them is true.                    *)
(***************************************************************************)
EXTENDS ThreadPool, FiniteSetTheorems, TLAPS

\* A client inside a call has a pool, and a job if the call is add_work.
ClientsOK ==
  /\ \A c \in Clients : /\ cpc[c] # "idle" => cpool[c] \in Pools
                        /\ cpc[c] = "add" => cjob[c] \in Jobs
  /\ \A p \in Pools : \A c \in idle_waiters[p] : cpc[c] = "asleep" /\ cpool[c] = p

\* The threads of a pool are created by thpool_init.
UnbornOK ==
  \A w \in Workers : stage[PoolOf[w]] = "none" => pc[w] = "none"

Typed == TypeOK /\ ClientsOK /\ UnbornOK

LEMMA TypedInitially == Init => Typed
<1>1. Init => TypeOK
  BY DEF Init, TypeOK, WorkerPcs, ClientPcs
<1>2. Init => ClientsOK /\ UnbornOK
  BY PoolAssumption DEF Init, ClientsOK, UnbornOK
<1> QED BY <1>1, <1>2 DEF Typed

\* The loop of thread_do.
LEMMA TypedRegister ==
  ASSUME Typed, NEW w \in Workers, thread_do_register(w)
  PROVE  Typed'
<1> pc[w] = "born" /\ PoolOf[w] \in Pools
  BY PoolAssumption DEF thread_do_register, At
<1> /\ num_threads_alive' \in [Pools -> Nat]
    /\ pc' \in [Workers -> WorkerPcs]
  BY DEF Typed, TypeOK, thread_do_register, Goto, WorkerPcs
<1> QED BY DEF Typed, TypeOK, ClientsOK, UnbornOK,
     thread_do_register, Goto, globals, signalVars, clientVars, history

LEMMA TypedLoop ==
  ASSUME Typed, NEW w \in Workers, thread_do_loop(w)
  PROVE  Typed'
<1> pc[w] = "loop" /\ PoolOf[w] \in Pools
  BY PoolAssumption DEF thread_do_loop, At
<1> pc' \in [Workers -> WorkerPcs]
  BY DEF Typed, TypeOK, thread_do_loop, Goto, WorkerPcs
<1> QED BY DEF Typed, TypeOK, ClientsOK, UnbornOK, thread_do_loop,
     Goto, globals, poolVars, signalVars, clientVars, history

LEMMA TypedBsemWait ==
  ASSUME Typed, NEW w \in Workers, bsem_wait(w)
  PROVE  Typed'
<1> pc[w] = "wait" /\ PoolOf[w] \in Pools
  BY PoolAssumption DEF bsem_wait, At
<1> /\ has_jobs' \in [Pools -> {0, 1}]
    /\ pc' \in [Workers -> WorkerPcs]
  BY DEF Typed, TypeOK, bsem_wait, Goto, WorkerPcs
<1> QED BY DEF Typed, TypeOK, ClientsOK, UnbornOK, bsem_wait, Goto,
     globals, signalVars, clientVars, history

LEMMA TypedCheck ==
  ASSUME Typed, NEW w \in Workers, thread_do_check(w)
  PROVE  Typed'
<1> pc[w] = "check" /\ PoolOf[w] \in Pools
  BY PoolAssumption DEF thread_do_check, At
<1> pc' \in [Workers -> WorkerPcs]
  BY DEF Typed, TypeOK, thread_do_check, Goto, WorkerPcs
<1> QED BY DEF Typed, TypeOK, ClientsOK, UnbornOK, thread_do_check,
     Goto, globals, poolVars, signalVars, clientVars, history

LEMMA TypedCount ==
  ASSUME Typed, NEW w \in Workers, thread_do_count(w)
  PROVE  Typed'
<1> pc[w] = "count" /\ PoolOf[w] \in Pools
  BY PoolAssumption DEF thread_do_count, At
<1> /\ num_threads_working' \in [Pools -> Nat]
    /\ pc' \in [Workers -> WorkerPcs]
  BY DEF Typed, TypeOK, thread_do_count, Goto, WorkerPcs
<1> QED BY DEF Typed, TypeOK, ClientsOK, UnbornOK, thread_do_count,
     Goto, globals, signalVars, clientVars, history

LEMMA TypedLock ==
  ASSUME Typed, NEW w \in Workers, jobqueue_pull_lock(w)
  PROVE  Typed'
<1> pc[w] = "pull" /\ PoolOf[w] \in Pools
  BY PoolAssumption DEF jobqueue_pull_lock, At
<1> /\ rwmutex' \in [Pools -> Workers \cup {NoOne}]
    /\ pc' \in [Workers -> WorkerPcs]
  BY DEF Typed, TypeOK, jobqueue_pull_lock, Goto, WorkerPcs
<1> QED BY DEF Typed, TypeOK, ClientsOK, UnbornOK,
     jobqueue_pull_lock, Goto, globals, signalVars, clientVars, history

LEMMA TypedPull ==
  ASSUME Typed, NEW w \in Workers, jobqueue_pull(w)
  PROVE  Typed'
<1> pc[w] = "pullcs" /\ PoolOf[w] \in Pools
  BY PoolAssumption DEF jobqueue_pull, Pull, At
<1> /\ queue' \in [Pools -> Seq(Jobs)]
    /\ job' \in [Workers -> Jobs \cup {NoJob}]
    /\ has_jobs' \in [Pools -> {0, 1}]
    /\ rwmutex' \in [Pools -> Workers \cup {NoOne}]
    /\ pc' \in [Workers -> WorkerPcs]
  BY DEF Typed, TypeOK, jobqueue_pull, Pull, Rest, Goto, WorkerPcs
<1> QED BY DEF Typed, TypeOK, ClientsOK, UnbornOK, jobqueue_pull,
     Pull, Goto, globals, signalVars, clientVars, history

LEMMA TypedRun ==
  ASSUME Typed, NEW w \in Workers, thread_do_run(w)
  PROVE  Typed'
<1> pc[w] = "run" /\ PoolOf[w] \in Pools
  BY PoolAssumption DEF thread_do_run, At
<1> /\ ran' \in [Jobs -> Nat]
    /\ job' \in [Workers -> Jobs \cup {NoJob}]
    /\ pc' \in [Workers -> WorkerPcs]
  BY DEF Typed, TypeOK, thread_do_run, Goto, WorkerPcs
<1> QED BY DEF Typed, TypeOK, ClientsOK, UnbornOK, thread_do_run,
     Goto, globals, poolVars, signalVars, clientVars

\* The counters go down where CountersOK keeps them above zero.
LEMMA TypedExit ==
  ASSUME Typed, NEW w \in Workers, thread_do_exit(w),
         \A p \in Pools : num_threads_alive'[p] \in Nat
  PROVE  Typed'
<1> pc[w] = "exit" /\ PoolOf[w] \in Pools
  BY PoolAssumption DEF thread_do_exit, At
<1> /\ num_threads_alive' \in [Pools -> Nat]
    /\ thcount_lock' \in [Pools -> Workers \cup Clients \cup {NoOne}]
    /\ pc' \in [Workers -> WorkerPcs]
  BY DEF Typed, TypeOK, thread_do_exit, Goto, WorkerPcs
<1> QED BY DEF Typed, TypeOK, ClientsOK, UnbornOK, thread_do_exit,
     Goto, globals, signalVars, clientVars, history

LEMMA TypedUncount ==
  ASSUME Typed, NEW w \in Workers, thread_do_uncount(w),
         \A p \in Pools : num_threads_working'[p] \in Nat
  PROVE  Typed'
<1> /\ PoolOf[w] \in Pools /\ cpc \in [Clients -> ClientPcs]
    /\ idle_waiters \in [Pools -> SUBSET Clients]
  BY PoolAssumption DEF Typed, TypeOK
<1> \/ UNCHANGED <<idle_waiters, cpc>>
    \/ \E c \in idle_waiters[PoolOf[w]] :
           /\ idle_waiters' = [idle_waiters EXCEPT ![PoolOf[w]] = @ \ {c}]
           /\ cpc' = [cpc EXCEPT ![c] = "wait"]
  BY DEF thread_do_uncount, Uncount, SignalIdle
<1> /\ cpc' \in [Clients -> ClientPcs]
    /\ idle_waiters' \in [Pools -> SUBSET Clients]
  BY DEF ClientPcs
<1> pc[w] = "uncount" /\ Goto(w, "loop") /\ pc' \in [Workers -> WorkerPcs]
  BY DEF Typed, TypeOK, thread_do_uncount, Uncount, At, Goto, WorkerPcs
<1> num_threads_working' \in [Pools -> Nat]
  BY DEF Typed, TypeOK, thread_do_uncount, Uncount
<1> UNCHANGED <<globals, stage, queue, has_jobs, rwmutex, thcount_lock,
                  num_threads_alive, job, signalVars, cpool, cjob, history>>
  BY DEF thread_do_uncount, Uncount
<1> TypeOK'
  BY DEF Typed, TypeOK, globals, signalVars, history
<1> UnbornOK'
  BY DEF Typed, TypeOK, UnbornOK, Goto
<1> ClientsOK'
  BY DEF Typed, ClientsOK
<1> QED BY DEF Typed

LEMMA TypedUnlock ==
  ASSUME Typed, NEW w \in Workers, thread_do_unlock(w)
  PROVE  Typed'
<1> pc[w] = "unlock" /\ PoolOf[w] \in Pools
  BY PoolAssumption DEF thread_do_unlock, At
<1> /\ thcount_lock' \in [Pools -> Workers \cup Clients \cup {NoOne}]
    /\ pc' \in [Workers -> WorkerPcs]
  BY DEF Typed, TypeOK, thread_do_unlock, Goto, WorkerPcs
<1> QED BY DEF Typed, TypeOK, ClientsOK, UnbornOK,
     thread_do_unlock, Goto, globals, signalVars, clientVars, history

\* The signal handler, pausing and resuming.
LEMMA TypedHold ==
  ASSUME Typed, NEW w \in Workers, SignalStep(w)
  PROVE  Typed'
<1> pending \in [Workers -> BOOLEAN] /\ held \in [Workers -> BOOLEAN]
  BY DEF Typed, TypeOK
<1> pending' \in [Workers -> BOOLEAN] /\ held' \in [Workers -> BOOLEAN]
  <2>1. CASE thread_hold_enter(w)
    BY <2>1 DEF thread_hold_enter
  <2>2. CASE thread_hold_leave(w)
    BY <2>2 DEF thread_hold_leave
  <2> QED BY <2>1, <2>2 DEF SignalStep
<1> /\ UNCHANGED <<threads_keepalive, poolVars, workerVars, clientVars, history>>
    /\ threads_on_hold' \in {threads_on_hold, 1}
  BY DEF SignalStep, thread_hold_enter, thread_hold_leave, globals
<1> QED BY DEF Typed, TypeOK, ClientsOK, UnbornOK, poolVars,
     workerVars, clientVars, history

LEMMA TypedPause ==
  ASSUME Typed, NEW c \in Clients, NEW p \in Pools, thpool_pause(c, p)
  PROVE  Typed'
<1> /\ pending \in [Workers -> BOOLEAN] /\ held \in [Workers -> BOOLEAN]
    /\ paused \in [Pools -> BOOLEAN]
  BY DEF Typed, TypeOK
<1> /\ pending' \in [Workers -> BOOLEAN] /\ held' \in [Workers -> BOOLEAN]
    /\ paused' \in [Pools -> BOOLEAN]
  BY Zenon DEF thpool_pause, signalVars
<1> /\ UNCHANGED <<threads_keepalive, poolVars, workerVars, clientVars, added, ran,
                     owed>>
    /\ threads_on_hold' \in {threads_on_hold, 0}
  BY DEF thpool_pause, globals
<1> QED BY DEF Typed, TypeOK, ClientsOK, UnbornOK, poolVars,
     workerVars, clientVars

LEMMA TypedResume ==
  ASSUME Typed, NEW c \in Clients, NEW p \in Pools, thpool_resume(c, p)
  PROVE  Typed'
<1> /\ pending \in [Workers -> BOOLEAN] /\ held \in [Workers -> BOOLEAN]
    /\ paused \in [Pools -> BOOLEAN]
  BY DEF Typed, TypeOK
<1> /\ pending' \in [Workers -> BOOLEAN] /\ held' \in [Workers -> BOOLEAN]
    /\ paused' \in [Pools -> BOOLEAN]
  BY Zenon DEF thpool_resume, signalVars
<1> /\ UNCHANGED <<threads_keepalive, poolVars, workerVars, clientVars, added, ran,
                     owed>>
    /\ threads_on_hold' \in {threads_on_hold, 0}
  BY DEF thpool_resume, globals
<1> QED BY DEF Typed, TypeOK, ClientsOK, UnbornOK, poolVars,
     workerVars, clientVars

-----------------------------------------------------------------------------
(* The types, continued: the steps of the clients, and every step together   *)
(* (TypedStep).                                                              *)

\* The calls of the clients.
LEMMA TypedInit ==
  ASSUME Typed, NEW c \in Clients, NEW p \in Pools, thpool_init(c, p)
  PROVE  Typed'
<1> /\ stage' \in [Pools -> {"none", "init", "live", "dying", "freed"}]
    /\ pc' \in [Workers -> WorkerPcs]
    /\ cpc' \in [Clients -> ClientPcs]
    /\ cpool' \in [Clients -> Pools \cup {NoOne}]
  BY DEF Typed, TypeOK, thpool_init, Enter, WorkerPcs, ClientPcs
<1> TypeOK' /\ UnbornOK'
  BY DEF Typed, TypeOK, UnbornOK, thpool_init, Enter, signalVars, history
<1> ClientsOK'
  BY SMTT(20) DEF Typed, TypeOK, ClientsOK, thpool_init, Enter
<1> QED BY DEF Typed

LEMMA TypedInitReturn ==
  ASSUME Typed, NEW c \in Clients, thpool_init_return(c)
  PROVE  Typed'
<1> cpc[c] = "init" /\ cpool[c] \in Pools
  BY DEF thpool_init_return, ClientsOK, Typed
<1> /\ stage' \in [Pools -> {"none", "init", "live", "dying", "freed"}]
    /\ cpc' \in [Clients -> ClientPcs]
    /\ cpool' \in [Clients -> Pools \cup {NoOne}]
  BY DEF Typed, TypeOK, thpool_init_return, Return, ClientPcs
<1> TypeOK' /\ UnbornOK'
  BY DEF Typed, TypeOK, UnbornOK, thpool_init_return, Return, globals,
     workerVars, signalVars, history
<1> ClientsOK'
  BY DEF Typed, TypeOK, ClientsOK, thpool_init_return, Return
<1> QED BY ZenonT(30) DEF Typed

LEMMA TypedAddWork ==
  ASSUME Typed, NEW c \in Clients, NEW p \in Pools, NEW j \in Jobs,
         thpool_add_work(c, p, j)
  PROVE  Typed'
<1> /\ cpc' \in [Clients -> ClientPcs]
    /\ cpool' \in [Clients -> Pools \cup {NoOne}]
    /\ cjob' \in [Clients -> Jobs \cup {NoJob}]
  BY DEF Typed, TypeOK, thpool_add_work, Enter, ClientPcs
<1> TypeOK' /\ UnbornOK'
  BY DEF Typed, TypeOK, UnbornOK, thpool_add_work, Enter, poolVars,
     globals, workerVars, signalVars, history
<1> ClientsOK'
  BY DEF Typed, TypeOK, ClientsOK, thpool_add_work, Enter, poolVars
<1> QED BY DEF Typed

LEMMA TypedPush ==
  ASSUME Typed, NEW c \in Clients, jobqueue_push(c)
  PROVE  Typed'
<1> cpc[c] = "add" /\ cpool[c] \in Pools /\ cjob[c] \in Jobs
  BY DEF jobqueue_push, ClientsOK, Typed
<1> /\ queue' \in [Pools -> Seq(Jobs)]
    /\ has_jobs' \in [Pools -> {0, 1}]
    /\ added' \in [Jobs -> Pools \cup {NoOne}]
    /\ cpc' \in [Clients -> ClientPcs]
    /\ cpool' \in [Clients -> Pools \cup {NoOne}]
    /\ cjob' \in [Clients -> Jobs \cup {NoJob}]
  BY DEF Typed, TypeOK, jobqueue_push, Return, ClientPcs
<1> TypeOK' /\ UnbornOK'
  BY DEF Typed, TypeOK, UnbornOK, jobqueue_push, Return, globals,
     workerVars, signalVars, history
<1> ClientsOK'
  BY DEF Typed, TypeOK, ClientsOK, jobqueue_push, Return
<1> QED BY DEF Typed

LEMMA TypedWait ==
  ASSUME Typed, NEW c \in Clients, NEW p \in Pools, thpool_wait(c, p)
  PROVE  Typed'
<1> /\ cpc' \in [Clients -> ClientPcs]
    /\ cpool' \in [Clients -> Pools \cup {NoOne}]
    /\ owed' \in [Clients -> SUBSET Jobs]
  BY DEF Typed, TypeOK, thpool_wait, Enter, ClientPcs
<1> TypeOK' /\ UnbornOK'
  BY DEF Typed, TypeOK, UnbornOK, thpool_wait, Enter, globals, poolVars,
     workerVars, signalVars
<1> ClientsOK'
  BY DEF Typed, TypeOK, ClientsOK, thpool_wait, Enter, poolVars
<1> QED BY DEF Typed

LEMMA TypedWaitLock ==
  ASSUME Typed, NEW c \in Clients, thpool_wait_lock(c)
  PROVE  Typed'
<1> cpc[c] = "wait" /\ cpool[c] \in Pools
  BY Zenon DEF thpool_wait_lock, ClientsOK, Typed
<1> /\ thcount_lock' \in [Pools -> Workers \cup Clients \cup {NoOne}]
    /\ cpc' \in [Clients -> ClientPcs]
  BY DEF Typed, TypeOK, thpool_wait_lock, ClientPcs
<1> TypeOK' /\ UnbornOK'
  BY ZenonT(30) DEF Typed, TypeOK, UnbornOK, thpool_wait_lock, globals, workerVars,
     signalVars, history
<1> ClientsOK'
  BY SMTT(20) DEF Typed, TypeOK, ClientsOK, thpool_wait_lock
<1> QED BY DEF Typed

LEMMA TypedSleep ==
  ASSUME Typed, NEW c \in Clients, cpc[c] # "idle", Sleep(c),
         UNCHANGED <<globals, stage, queue, has_jobs, rwmutex, num_threads_alive,
                     num_threads_working, workerVars, signalVars, cjob, history>>
  PROVE  Typed'
<1> cpool[c] \in Pools
  BY DEF Typed, ClientsOK
<1> /\ thcount_lock' \in [Pools -> Workers \cup Clients \cup {NoOne}]
    /\ idle_waiters' \in [Pools -> SUBSET Clients]
    /\ cpc' \in [Clients -> ClientPcs]
  BY DEF Typed, TypeOK, Sleep, ClientPcs
<1> TypeOK' /\ UnbornOK'
  BY DEF Typed, TypeOK, UnbornOK, Sleep, globals, workerVars, signalVars, history
<1> ClientsOK'
  BY DEF Typed, TypeOK, ClientsOK, Sleep
<1> QED BY ZenonT(30) DEF Typed

LEMMA TypedWaitLen ==
  ASSUME Typed, NEW c \in Clients, thpool_wait_len(c)
  PROVE  Typed'
<1>1. CASE Sleep(c)
  BY <1>1, TypedSleep, Zenon DEF thpool_wait_len
<1>2. ASSUME ~Sleep(c) PROVE Typed'
  <2>1. /\ cpc[c] = "waitlen" /\ cpc' = [cpc EXCEPT ![c] = "waitwork"]
        /\ UNCHANGED <<globals, poolVars, workerVars, signalVars, cpool, cjob, history>>
    BY <1>2, Zenon DEF thpool_wait_len, poolVars
  <2>2. cpc' \in [Clients -> ClientPcs]
    BY <2>1 DEF Typed, TypeOK, ClientPcs
  <2> QED BY <2>1, <2>2 DEF Typed, TypeOK, ClientsOK, UnbornOK, poolVars, globals,
       workerVars, signalVars, history
<1> QED BY <1>1, <1>2

LEMMA TypedWaitWorking ==
  ASSUME Typed, NEW c \in Clients, thpool_wait_working(c)
  PROVE  Typed'
<1>1. CASE Sleep(c)
  BY <1>1, TypedSleep, Zenon DEF thpool_wait_working
<1>2. CASE ~Sleep(c)
  <2>1. /\ cpc[c] = "waitwork" /\ Return(c) /\ cpool[c] \in Pools
        /\ thcount_lock' = [thcount_lock EXCEPT ![cpool[c]] = NoOne]
        /\ UNCHANGED <<globals, stage, queue, has_jobs, rwmutex, num_threads_alive,
                       num_threads_working, idle_waiters, workerVars, signalVars,
                       cjob, history>>
    BY <1>2 DEF thpool_wait_working, Typed, ClientsOK
  <2>2. /\ thcount_lock' \in [Pools -> Workers \cup Clients \cup {NoOne}]
        /\ cpc' \in [Clients -> ClientPcs]
        /\ cpool' \in [Clients -> Pools \cup {NoOne}]
    BY <2>1 DEF Typed, TypeOK, Return, ClientPcs
  <2>3. TypeOK' /\ UnbornOK'
    BY <2>1, <2>2 DEF Typed, TypeOK, UnbornOK, globals, workerVars, signalVars,
       history
  <2>4. ClientsOK'
    BY <2>1 DEF Typed, TypeOK, ClientsOK, Return
  <2> QED BY <2>3, <2>4 DEF Typed
<1> QED BY <1>1, <1>2

LEMMA TypedWakeup ==
  ASSUME Typed, NEW c \in Clients, spurious_wakeup(c)
  PROVE  Typed'
<1> cpc[c] = "asleep" /\ cpool[c] \in Pools
  BY Zenon DEF spurious_wakeup, ClientsOK, Typed
<1> /\ idle_waiters' \in [Pools -> SUBSET Clients]
    /\ cpc' \in [Clients -> ClientPcs]
  BY DEF Typed, TypeOK, spurious_wakeup, ClientPcs
<1> TypeOK' /\ UnbornOK'
  BY ZenonT(30) DEF Typed, TypeOK, UnbornOK, spurious_wakeup, globals, workerVars,
     signalVars, history
<1> ClientsOK'
  BY DEF Typed, TypeOK, ClientsOK, spurious_wakeup
<1> QED BY DEF Typed

LEMMA TypedDestroy ==
  ASSUME Typed, NEW c \in Clients, NEW p \in Pools, thpool_destroy(c, p)
  PROVE  Typed'
<1> /\ stage' \in [Pools -> {"none", "init", "live", "dying", "freed"}]
    /\ cpc' \in [Clients -> ClientPcs]
    /\ cpool' \in [Clients -> Pools \cup {NoOne}]
  BY DEF Typed, TypeOK, thpool_destroy, Enter, ClientPcs
<1> threads_keepalive' \in {0, 1}
  BY ZenonT(30) DEF thpool_destroy
<1> TypeOK'
  BY ZenonT(30) DEF Typed, TypeOK, thpool_destroy, Enter, workerVars, signalVars, history
<1> UnbornOK'
  BY DEF Typed, TypeOK, UnbornOK, thpool_destroy, workerVars
<1> ClientsOK'
  BY SMTT(20) DEF Typed, TypeOK, ClientsOK, thpool_destroy, Enter
<1> QED BY DEF Typed

LEMMA TypedPostAll ==
  ASSUME Typed, NEW c \in Clients, bsem_post_all(c)
  PROVE  Typed'
<1> cpc[c] = "destroy" /\ cpool[c] \in Pools
  BY Zenon DEF bsem_post_all, ClientsOK, Typed
<1> has_jobs' \in [Pools -> {0, 1}]
  BY DEF Typed, TypeOK, bsem_post_all
<1> QED BY DEF Typed, TypeOK, ClientsOK, UnbornOK, bsem_post_all,
     globals, workerVars, signalVars, clientVars, history

LEMMA TypedFree ==
  ASSUME Typed, NEW c \in Clients, thpool_destroy_free(c)
  PROVE  Typed'
<1> cpc[c] = "destroy" /\ cpool[c] \in Pools
  BY DEF thpool_destroy_free, ClientsOK, Typed
<1> /\ queue' \in [Pools -> Seq(Jobs)]
    /\ has_jobs' \in [Pools -> {0, 1}]
    /\ stage' \in [Pools -> {"none", "init", "live", "dying", "freed"}]
    /\ cpc' \in [Clients -> ClientPcs]
    /\ cpool' \in [Clients -> Pools \cup {NoOne}]
  BY DEF Typed, TypeOK, thpool_destroy_free, Free, Return, ClientPcs
<1> TypeOK' /\ UnbornOK'
  BY DEF Typed, TypeOK, UnbornOK, thpool_destroy_free, Free, Return,
     globals, workerVars, signalVars, history
<1> ClientsOK'
  BY DEF Typed, TypeOK, ClientsOK, thpool_destroy_free, Free, Return
<1> QED BY DEF Typed

LEMMA TypedStep ==
  ASSUME Typed, [Next]_vars,
         \A p \in Pools : num_threads_working'[p] \in Nat,
         \A p \in Pools : num_threads_alive'[p] \in Nat
  PROVE  Typed'
<1>1. ASSUME NEW w \in Workers, ThreadStep(w) PROVE Typed'
  BY <1>1, TypedRegister, TypedLoop, TypedBsemWait, TypedCheck, TypedCount, ZenonT(30),
     TypedLock, TypedPull, TypedRun, TypedUnlock, TypedUncount, TypedExit
  DEF ThreadStep
<1>2. ASSUME NEW c \in Clients, CallStep(c) PROVE Typed'
  BY <1>2, TypedInitReturn, TypedPush, TypedWaitLock, TypedWaitLen, ZenonT(30),
     TypedWaitWorking, TypedPostAll, TypedFree DEF CallStep
<1>3. ASSUME NEW c \in Clients, StartCall(c) PROVE Typed'
  BY <1>3, TypedInit, TypedWait, TypedPause, TypedResume, TypedDestroy, ZenonT(30),
     TypedAddWork DEF StartCall
<1>4. CASE UNCHANGED vars
  BY <1>4 DEF Typed, TypeOK, ClientsOK, UnbornOK, vars, globals, poolVars,
     workerVars, signalVars, clientVars, history
<1> QED BY <1>1, <1>2, <1>3, <1>4, TypedHold, TypedWakeup, ZenonT(30) DEF Next

-----------------------------------------------------------------------------
(* What the steps leave alone.                                               *)

\* A step of thread_do wakes at most one sleeping client and changes no other
\* client, no stage and no history of what was added.
LEMMA ThreadFrame ==
  ASSUME Typed, NEW w \in Workers, ThreadStep(w)
  PROVE  /\ UNCHANGED <<threads_keepalive, stage, cpool, cjob, added, owed>>
         /\ \A c \in Clients : \/ cpc'[c] = cpc[c]
                               \/ cpc[c] = "asleep" /\ cpc'[c] = "wait"
<1>1. CASE thread_do_uncount(w)
  <2>1. UNCHANGED <<threads_keepalive, stage, cpool, cjob, added, owed>>
    BY <1>1, ZenonT(30) DEF thread_do_uncount, Uncount, globals, history
  <2>2. \/ UNCHANGED cpc
        \/ \E c \in idle_waiters[PoolOf[w]] : cpc' = [cpc EXCEPT ![c] = "wait"]
    BY <1>1, ZenonT(30) DEF thread_do_uncount, Uncount, SignalIdle
  <2>3. /\ PoolOf[w] \in Pools /\ cpc \in [Clients -> ClientPcs]
        /\ \A p \in Pools : \A c \in idle_waiters[p] : cpc[c] = "asleep"
    BY PoolAssumption DEF Typed, TypeOK, ClientsOK
  <2> QED BY <2>1, <2>2, <2>3
<1>2. CASE ~thread_do_uncount(w)
  BY <1>2, ZenonT(30) DEF ThreadStep, thread_do_register, thread_do_loop, bsem_wait,
     thread_do_check, thread_do_count, jobqueue_pull_lock, jobqueue_pull, Pull,
     thread_do_run, thread_do_exit, thread_do_unlock, globals, poolVars,
     clientVars, history
<1> QED BY <1>1, <1>2, Zenon

\* A thread moves jobs only when it pulls or runs one.
LEMMA JobFrame ==
  ASSUME NEW w \in Workers, ThreadStep(w), ~jobqueue_pull(w), ~thread_do_run(w)
  PROVE  UNCHANGED <<queue, job, ran>>
BY ZenonT(30) DEF ThreadStep, thread_do_register, thread_do_loop, bsem_wait,
   thread_do_check, thread_do_count, jobqueue_pull_lock, thread_do_uncount,
   Uncount, thread_do_exit, thread_do_unlock, poolVars, history

\* Pausing, resuming and the signal handler touch nothing else.
Quiet ==
  \/ \E w \in Workers : SignalStep(w)
  \/ \E c \in Clients, p \in Pools : thpool_pause(c, p) \/ thpool_resume(c, p)
  \/ UNCHANGED vars

LEMMA QuietFrame ==
  ASSUME Quiet
  PROVE  UNCHANGED <<threads_keepalive, stage, queue, has_jobs, idle_waiters, pc,
                     job, cpc, cpool, cjob, added, ran, owed>>
BY ZenonT(30) DEF Quiet, SignalStep, thread_hold_enter, thread_hold_leave, thpool_pause,
   thpool_resume, vars, globals, poolVars, workerVars, clientVars, history

\* The steps of thpool_wait after its first lock.
Waiting == {"wait", "waitlen", "waitwork", "asleep"}

WaitCall(c) ==
  \/ thpool_wait_lock(c) \/ thpool_wait_len(c) \/ thpool_wait_working(c)
  \/ spurious_wakeup(c)

LEMMA WaitFrame ==
  ASSUME Typed, NEW c \in Clients, WaitCall(c)
  PROVE  /\ UNCHANGED <<threads_keepalive, stage, queue, has_jobs, pc, job, cjob,
                        added, ran, owed>>
         /\ \A d \in Clients \ {c} : cpc'[d] = cpc[d] /\ cpool'[d] = cpool[d]
         /\ cpc[c] \in Waiting
         /\ \/ cpc'[c] \in Waiting /\ cpool'[c] = cpool[c]
            \/ cpc[c] = "waitwork" /\ cpc'[c] = "idle" /\ cpool'[c] = NoOne
         /\ cpc'[c] = "waitwork" => cpc[c] = "waitlen" /\ queue[cpool[c]] = <<>>
<1>1. cpc \in [Clients -> ClientPcs] /\ cpool \in [Clients -> Pools \cup {NoOne}]
  BY DEF Typed, TypeOK
<1>2. CASE thpool_wait_lock(c) \/ spurious_wakeup(c)
  BY <1>1, <1>2, Zenon DEF thpool_wait_lock, spurious_wakeup, Waiting, globals,
     workerVars, history
<1>3. CASE thpool_wait_len(c)
  BY <1>1, <1>3 DEF thpool_wait_len, Sleep, Waiting, globals, workerVars, history
<1>4. CASE thpool_wait_working(c)
  BY <1>1, <1>4 DEF thpool_wait_working, Sleep, Return, Waiting, globals,
     workerVars, history
<1> QED BY <1>2, <1>3, <1>4, Zenon DEF WaitCall

-----------------------------------------------------------------------------
(* The stages of a pool.                                                     *)

\* The stage of the pool that a client inside a call uses.
StageDuring(call) == CASE call = "init" -> "init"
                       [] call = "destroy" -> "dying"
                       [] OTHER -> "live"

CallInv ==
  \A c \in Clients :
    /\ cpc[c] = "idle" => cpool[c] = NoOne
    /\ cpc[c] # "idle" => stage[cpool[c]] = StageDuring(cpc[c])
    /\ \A d \in Clients :
         cpc[c] \in {"init", "destroy"} /\ cpc[d] = cpc[c] /\ cpool[d] = cpool[c]
           => c = d

\* thpool_init returns when every thread has registered; thpool_destroy frees
\* the pool when every thread has left; job_p is set only around the call.
StageInv ==
  \A w \in Workers :
    /\ stage[PoolOf[w]] \in {"live", "dying"} => pc[w] \notin {"none", "born"}
    /\ stage[PoolOf[w]] = "freed" => pc[w] \in {"unlock", "gone"}
    /\ job[w] # NoJob => pc[w] = "run"

\* What thpool_init, thpool_destroy and thpool_wait conclude from a counter.
CountersMean ==
  \A p \in Pools, w \in Workers : PoolOf[w] = p =>
    /\ num_threads_alive[p] = Cardinality(WorkersOf(p)) => pc[w] \in Registered
    /\ num_threads_alive[p] = 0 => pc[w] \notin Registered
    /\ num_threads_working[p] = 0 => pc[w] \notin Counted

LEMMA CallStepInv ==
  ASSUME Typed, CallInv, [Next]_vars
  PROVE  CallInv'
<1>t. /\ stage \in [Pools -> {"none", "init", "live", "dying", "freed"}]
      /\ cpool \in [Clients -> Pools \cup {NoOne}]
      /\ cpc \in [Clients -> ClientPcs]
      /\ \A c \in Clients : cpc[c] # "idle" => cpool[c] \in Pools
      /\ NoOne \notin Pools
  BY PoolAssumption DEF Typed, TypeOK, ClientsOK
<1>1. ASSUME NEW w \in Workers, ThreadStep(w) PROVE CallInv'
  BY <1>1, <1>t, ThreadFrame DEF CallInv, StageDuring
<1>2. CASE Quiet
  BY <1>2, QuietFrame DEF CallInv, StageDuring
<1>3. ASSUME NEW c \in Clients, WaitCall(c) PROVE CallInv'
  BY <1>3, <1>t, WaitFrame DEF CallInv, StageDuring, Waiting
<1>4. ASSUME NEW c \in Clients, NEW p \in Pools, thpool_init(c, p)
      PROVE  CallInv'
  BY <1>4, <1>t DEF thpool_init, Enter, CallInv, StageDuring
<1>5. ASSUME NEW c \in Clients,
             thpool_init_return(c) \/ thpool_destroy_free(c)
      PROVE  CallInv'
  <2>1. \A d \in Clients \ {c} : cpc[d] # "idle" => cpool[d] # cpool[c]
    BY <1>5, <1>t DEF thpool_init_return, thpool_destroy_free, CallInv, StageDuring
  <2>2. /\ cpc' = [cpc EXCEPT ![c] = "idle"]
        /\ cpool' = [cpool EXCEPT ![c] = NoOne]
        /\ \/ stage' = [stage EXCEPT ![cpool[c]] = "live"]
           \/ stage' = [stage EXCEPT ![cpool[c]] = "freed"]
    BY <1>5 DEF thpool_init_return, thpool_destroy_free, Free, Return
  <2>3. ASSUME NEW d \in Clients
        PROVE  /\ cpc'[d] = "idle" => cpool'[d] = NoOne
               /\ cpc'[d] # "idle" => stage'[cpool'[d]] = StageDuring(cpc'[d])
    BY <1>t, <2>1, <2>2 DEF CallInv
  <2>4. ASSUME NEW d \in Clients, NEW e \in Clients,
               cpc'[d] \in {"init", "destroy"}, cpc'[e] = cpc'[d],
               cpool'[e] = cpool'[d]
        PROVE  d = e
    BY <1>t, <2>2, <2>4 DEF CallInv
  <2> QED BY <2>3, <2>4 DEF CallInv, StageDuring
<1>6. ASSUME NEW c \in Clients, jobqueue_push(c) PROVE CallInv'
  BY <1>6, <1>t DEF jobqueue_push, Return, CallInv, StageDuring
<1>7. ASSUME NEW c \in Clients, bsem_post_all(c) PROVE CallInv'
  BY <1>7 DEF bsem_post_all, clientVars, CallInv, StageDuring
<1>8. ASSUME NEW c \in Clients, NEW p \in Pools,
             thpool_wait(c, p) \/ \E j \in Jobs : thpool_add_work(c, p, j)
      PROVE  CallInv'
  BY <1>8, <1>t DEF thpool_wait, thpool_add_work, Enter, poolVars, CallInv,
     StageDuring
<1>9. ASSUME NEW c \in Clients, NEW p \in Pools, thpool_destroy(c, p)
      PROVE  CallInv'
  BY <1>9, <1>t DEF thpool_destroy, Enter, CallInv, StageDuring
<1> QED
  BY <1>1, <1>2, <1>3, <1>4, <1>5, <1>6, <1>7, <1>8, <1>9
  DEF Next, CallStep, StartCall, Quiet, WaitCall

LEMMA StageStepInv ==
  ASSUME Typed, CountersMean, CallInv, StageInv, [Next]_vars
  PROVE  StageInv'
<1>t. /\ stage \in [Pools -> {"none", "init", "live", "dying", "freed"}]
      /\ pc \in [Workers -> WorkerPcs]
      /\ job \in [Workers -> Jobs \cup {NoJob}]
      /\ cpool \in [Clients -> Pools \cup {NoOne}]
      /\ \A c \in Clients : cpc[c] # "idle" => cpool[c] \in Pools
      /\ PoolOf \in [Workers -> Pools]
      /\ NoJob \notin Jobs
      /\ \A w \in Workers : stage[PoolOf[w]] = "none" => pc[w] = "none"
  BY PoolAssumption DEF Typed, TypeOK, ClientsOK, UnbornOK
<1>1. ASSUME NEW w \in Workers, ThreadStep(w) PROVE StageInv'
  <2>1. UNCHANGED stage
    BY <1>1, ThreadFrame
  <2>2. /\ pc[w] \notin {"none", "gone"} /\ pc'[w] \notin {"none", "born"}
        /\ pc[w] = "unlock" => pc'[w] = "gone"
        /\ \A v \in Workers \ {w} : pc'[v] = pc[v] /\ job'[v] = job[v]
        /\ \/ pc'[w] = "run"
           \/ job'[w] = NoJob
           \/ pc[w] # "run" /\ job'[w] = job[w]
    BY <1>1, <1>t, ZenonT(30) DEF ThreadStep, thread_do_register, thread_do_loop, bsem_wait,
       thread_do_check, thread_do_count, jobqueue_pull_lock, jobqueue_pull, Pull,
       thread_do_run, thread_do_uncount, Uncount, thread_do_exit,
       thread_do_unlock, Goto, At
  <2> QED BY <1>t, <2>1, <2>2 DEF StageInv
<1>2. CASE Quiet
  BY <1>2, QuietFrame, Zenon DEF StageInv
<1>3. ASSUME NEW c \in Clients, WaitCall(c) PROVE StageInv'
  BY <1>3, WaitFrame DEF StageInv
<1>4. ASSUME NEW c \in Clients, NEW p \in Pools, thpool_init(c, p)
      PROVE  StageInv'
  BY <1>4, <1>t DEF thpool_init, StageInv
<1>5. ASSUME NEW c \in Clients, thpool_init_return(c) PROVE StageInv'
  <2> DEFINE p == cpool[c]
  <2>1. \A w \in Workers : PoolOf[w] = p => pc[w] \in Registered
    BY <1>5, <1>t DEF thpool_init_return, CountersMean
  <2> QED BY <1>5, <1>t, <2>1, ZenonT(30) DEF thpool_init_return, workerVars, StageInv,
       Registered, Counted
<1>6. ASSUME NEW c \in Clients, thpool_destroy_free(c) PROVE StageInv'
  <2> DEFINE p == cpool[c]
  <2>1. \A w \in Workers : PoolOf[w] = p => pc[w] \notin Registered
    BY <1>6, <1>t DEF thpool_destroy_free, CountersMean
  <2> QED BY <1>6, <1>t, <2>1 DEF thpool_destroy_free, Free, workerVars, StageInv,
       CallInv, StageDuring, Registered, Counted, WorkerPcs
<1>7. ASSUME NEW c \in Clients, jobqueue_push(c) \/ bsem_post_all(c)
      PROVE  StageInv'
  BY <1>7, Zenon DEF jobqueue_push, bsem_post_all, workerVars, StageInv
<1>8. ASSUME NEW c \in Clients, NEW p \in Pools,
             thpool_wait(c, p) \/ \E j \in Jobs : thpool_add_work(c, p, j)
      PROVE  StageInv'
  <2>1. UNCHANGED <<stage, pc, job>>
    BY <1>8 DEF thpool_wait, thpool_add_work, poolVars, workerVars
  <2> QED BY <2>1 DEF StageInv
<1>9. ASSUME NEW c \in Clients, NEW p \in Pools, thpool_destroy(c, p)
      PROVE  StageInv'
  BY <1>9, <1>t DEF thpool_destroy, workerVars, StageInv
<1> QED
  BY <1>1, <1>2, <1>3, <1>4, <1>5, <1>6, <1>7, <1>8, <1>9, ZenonT(30)
  DEF Next, CallStep, StartCall, Quiet, WaitCall

-----------------------------------------------------------------------------
(* The thread counters.                                                      *)

\* Number of threads of pool p whose position is one of S.
Count(f, S, p) == Cardinality({v \in WorkersOf(p) : f[v] \in S})

CountersOK ==
  \A p \in Pools : /\ num_threads_working[p] = Count(pc, Counted, p)
                   /\ num_threads_alive[p] = Count(pc, Registered, p)

TypeInv == Typed /\ CountersOK

\* The number of threads at given positions is a natural number ...
LEMMA CountFinite ==
  ASSUME NEW f, NEW S, NEW p
  PROVE  IsFiniteSet({v \in WorkersOf(p) : f[v] \in S})
<1>1. /\ IsFiniteSet(Workers)
      /\ {v \in WorkersOf(p) : f[v] \in S} \subseteq Workers
  BY PoolAssumption DEF WorkersOf
<1> QED BY <1>1, FS_Subset

LEMMA CountType ==
  ASSUME NEW f, NEW S, NEW p
  PROVE  Count(f, S, p) \in Nat
BY CountFinite, FS_CardinalityType, Zenon DEF Count

\* ... that is the same when no thread of the pool enters or leaves them, ...
LEMMA CountSame ==
  ASSUME NEW f \in [Workers -> WorkerPcs], NEW g \in [Workers -> WorkerPcs],
         NEW S, NEW p,
         \A v \in Workers : PoolOf[v] = p => (f[v] \in S <=> g[v] \in S)
  PROVE  Count(g, S, p) = Count(f, S, p)
<1>1. {v \in WorkersOf(p) : f[v] \in S} = {v \in WorkersOf(p) : g[v] \in S}
  BY DEF WorkersOf
<1> QED BY <1>1, Zenon DEF Count

\* ... and one more when one thread of the pool enters them.
LEMMA CountUp ==
  ASSUME NEW f \in [Workers -> WorkerPcs], NEW g \in [Workers -> WorkerPcs],
         NEW S, NEW w \in Workers, f[w] \notin S, g[w] \in S,
         \A v \in Workers \ {w} : f[v] = g[v]
  PROVE  Count(g, S, PoolOf[w]) = Count(f, S, PoolOf[w]) + 1
<1> DEFINE F == {v \in WorkersOf(PoolOf[w]) : f[v] \in S}
           G == {v \in WorkersOf(PoolOf[w]) : g[v] \in S}
<1>1. IsFiniteSet(F)
  BY CountFinite, Zenon
<1>2. G = F \cup {w} /\ w \notin F
  BY DEF WorkersOf
<1> QED BY <1>1, <1>2, FS_AddElement, Zenon DEF Count

\* A thread w that goes from one position to another changes the number of
\* threads of its pool at the positions S by 1, 0 or -1.
In(l, S) == IF l \in S THEN 1 ELSE 0

LEMMA CountMove ==
  ASSUME NEW f \in [Workers -> WorkerPcs], NEW g \in [Workers -> WorkerPcs],
         NEW S, NEW w \in Workers, \A v \in Workers \ {w} : f[v] = g[v]
  PROVE  Count(g, S, PoolOf[w]) =
           Count(f, S, PoolOf[w]) + In(g[w], S) - In(f[w], S)
<1> DEFINE p == PoolOf[w]
<1>t. Count(f, S, p) \in Nat /\ Count(g, S, p) \in Nat
  BY CountType
<1>1. CASE f[w] \in S <=> g[w] \in S
  <2>1. Count(g, S, p) = Count(f, S, p)
    BY <1>1, CountSame
  <2> QED BY <1>t, <1>1, <2>1 DEF In
<1>2. CASE f[w] \notin S /\ g[w] \in S
  BY <1>t, <1>2, CountUp DEF In
<1>3. CASE f[w] \in S /\ g[w] \notin S
  <2>1. Count(f, S, p) = Count(g, S, p) + 1
    BY <1>3, CountUp
  <2> QED BY <1>t, <1>3, <2>1 DEF In
<1> QED BY <1>1, <1>2, <1>3

-----------------------------------------------------------------------------
(* The counters: where thread_do changes them, it changes its position.      *)

CountersAre(f, working, alive) ==
  \A p \in Pools : /\ working[p] = Count(f, Counted, p)
                   /\ alive[p] = Count(f, Registered, p)

LEMMA CountersPrime == CountersOK' <=>
                         CountersAre(pc', num_threads_working', num_threads_alive')
BY DEF CountersOK, CountersAre, Count, WorkersOf

\* The counter c becomes d when thread w goes from position k to position l.
Recount(c, d, w, k, l, S) ==
  /\ d[PoolOf[w]] = c[PoolOf[w]] + In(l, S) - In(k, S)
  /\ \A p \in Pools \ {PoolOf[w]} : d[p] = c[p]

LEMMA CountersMove ==
  ASSUME TypeInv, NEW w \in Workers, pc' \in [Workers -> WorkerPcs],
         \A v \in Workers \ {w} : pc[v] = pc'[v],
         Recount(num_threads_working, num_threads_working', w, pc[w], pc'[w], Counted),
         Recount(num_threads_alive, num_threads_alive', w, pc[w], pc'[w], Registered)
  PROVE  CountersOK'
<1>1. pc \in [Workers -> WorkerPcs] /\ PoolOf[w] \in Pools
  BY PoolAssumption DEF TypeInv, Typed, TypeOK
<1>2. \A S : Count(pc', S, PoolOf[w]) = Count(pc, S, PoolOf[w]) + In(pc'[w], S) - In(pc[w], S)
  BY <1>1, CountMove, Zenon
<1>3. ASSUME NEW p \in Pools, p # PoolOf[w]
      PROVE  /\ Count(pc', Counted, p) = Count(pc, Counted, p)
             /\ Count(pc', Registered, p) = Count(pc, Registered, p)
  <2>1. \A v \in Workers : PoolOf[v] = p => pc[v] = pc'[v]
    BY <1>3
  <2> QED BY <1>1, <2>1, CountSame
<1>4. \A p \in Pools : num_threads_working'[p] = Count(pc', Counted, p)
  BY <1>1, <1>2, <1>3, Zenon DEF Recount, TypeInv, CountersOK
<1>5. \A p \in Pools : num_threads_alive'[p] = Count(pc', Registered, p)
  BY <1>1, <1>2, <1>3, Zenon DEF Recount, TypeInv, CountersOK
<1> QED BY <1>4, <1>5, CountersPrime DEF CountersAre

\* The counters are natural numbers: a counter that changes by one recounts a
\* thread that enters or leaves, one that does not change any other thread.
LEMMA RecountSame ==
  ASSUME NEW c \in [Pools -> Nat], NEW w \in Workers, NEW k, NEW l, NEW S,
         k \in S <=> l \in S
  PROVE  Recount(c, c, w, k, l, S)
<1>1. c[PoolOf[w]] \in Nat
  BY PoolAssumption
<1> QED BY <1>1 DEF Recount, In

LEMMA RecountUp ==
  ASSUME NEW c \in [Pools -> Nat], NEW w \in Workers, NEW k, NEW l, NEW S,
         k \notin S, l \in S
  PROVE  Recount(c, [c EXCEPT ![PoolOf[w]] = @ + 1], w, k, l, S)
<1>1. PoolOf[w] \in Pools /\ c[PoolOf[w]] \in Nat
  BY PoolAssumption
<1> QED BY <1>1 DEF Recount, In

LEMMA RecountDown ==
  ASSUME NEW c \in [Pools -> Nat], NEW w \in Workers, NEW k, NEW l, NEW S,
         k \in S, l \notin S
  PROVE  Recount(c, [c EXCEPT ![PoolOf[w]] = @ - 1], w, k, l, S)
<1>1. PoolOf[w] \in Pools /\ c[PoolOf[w]] \in Nat
  BY PoolAssumption
<1> QED BY <1>1 DEF Recount, In

\* A step that moves no thread of the pools and changes no counter.
LEMMA CountersSame ==
  ASSUME TypeInv, UNCHANGED <<pc, num_threads_alive, num_threads_working>>
  PROVE  CountersOK'
BY CountersPrime DEF TypeInv, CountersOK, CountersAre

LEMMA CountersThread ==
  ASSUME TypeInv, NEW w \in Workers, ThreadStep(w)
  PROVE  CountersOK'
<1>t. /\ num_threads_working \in [Pools -> Nat] /\ num_threads_alive \in [Pools -> Nat]
      /\ pc \in [Workers -> WorkerPcs]
  BY DEF TypeInv, Typed, TypeOK
<1>m. ASSUME NEW l \in WorkerPcs, Goto(w, l),
             Recount(num_threads_working, num_threads_working', w, pc[w], l, Counted),
             Recount(num_threads_alive, num_threads_alive', w, pc[w], l, Registered)
      PROVE  CountersOK'
  <2>1. /\ pc' \in [Workers -> WorkerPcs] /\ pc'[w] = l
        /\ \A v \in Workers \ {w} : pc[v] = pc'[v]
    BY <1>t, <1>m DEF Goto
  <2> QED BY <1>m, <2>1, CountersMove, Zenon
<1>s. ASSUME NEW l \in WorkerPcs, Goto(w, l),
             l \in Counted <=> pc[w] \in Counted,
             l \in Registered <=> pc[w] \in Registered,
             UNCHANGED <<num_threads_alive, num_threads_working>>
      PROVE  CountersOK'
  BY <1>t, <1>m, <1>s, RecountSame, ZenonT(30)
<1>1. CASE thread_do_register(w)
  <2>1. /\ pc[w] = "born" /\ "loop" \in WorkerPcs /\ Goto(w, "loop")
        /\ UNCHANGED num_threads_working
        /\ num_threads_alive' = [num_threads_alive EXCEPT ![PoolOf[w]] = @ + 1]
    BY <1>1, Zenon DEF thread_do_register, At, WorkerPcs
  <2>2. Recount(num_threads_working, num_threads_working', w, pc[w], "loop", Counted)
    BY <1>t, <2>1, RecountSame DEF Counted
  <2>3. Recount(num_threads_alive, num_threads_alive', w, pc[w], "loop", Registered)
    BY <1>t, <2>1, RecountUp, Zenon DEF Registered, Counted
  <2> QED BY <1>m, <2>1, <2>2, <2>3
<1>2. CASE thread_do_count(w)
  <2>1. /\ pc[w] = "count" /\ "pull" \in WorkerPcs /\ Goto(w, "pull")
        /\ num_threads_working' = [num_threads_working EXCEPT ![PoolOf[w]] = @ + 1]
        /\ UNCHANGED num_threads_alive
    BY <1>2 DEF thread_do_count, At, WorkerPcs
  <2>2. Recount(num_threads_working, num_threads_working', w, pc[w], "pull", Counted)
    BY <1>t, <2>1, RecountUp, Zenon DEF Counted
  <2>3. Recount(num_threads_alive, num_threads_alive', w, pc[w], "pull", Registered)
    BY <1>t, <2>1, RecountSame DEF Registered, Counted
  <2> QED BY <1>m, <2>1, <2>2, <2>3, ZenonT(30)
<1>3. CASE thread_do_uncount(w)
  <2>1. /\ pc[w] = "uncount" /\ "loop" \in WorkerPcs /\ Goto(w, "loop")
        /\ num_threads_working' = [num_threads_working EXCEPT ![PoolOf[w]] = @ - 1]
        /\ UNCHANGED num_threads_alive
    BY <1>3, Zenon DEF thread_do_uncount, Uncount, At, WorkerPcs
  <2>2. Recount(num_threads_working, num_threads_working', w, pc[w], "loop", Counted)
    BY <1>t, <2>1, RecountDown, Zenon DEF Counted
  <2>3. Recount(num_threads_alive, num_threads_alive', w, pc[w], "loop", Registered)
    BY <1>t, <2>1, RecountSame, ZenonT(30) DEF Registered, Counted
  <2> QED BY <1>m, <2>1, <2>2, <2>3
<1>4. CASE thread_do_exit(w)
  <2>1. /\ pc[w] = "exit" /\ "unlock" \in WorkerPcs /\ Goto(w, "unlock")
        /\ UNCHANGED num_threads_working
        /\ num_threads_alive' = [num_threads_alive EXCEPT ![PoolOf[w]] = @ - 1]
    BY <1>4, Zenon DEF thread_do_exit, At, WorkerPcs
  <2>2. Recount(num_threads_working, num_threads_working', w, pc[w], "unlock", Counted)
    BY <1>t, <2>1, RecountSame DEF Counted
  <2>3. Recount(num_threads_alive, num_threads_alive', w, pc[w], "unlock", Registered)
    BY <1>t, <2>1, RecountDown, Zenon DEF Registered, Counted
  <2> QED BY <1>m, <2>1, <2>2, <2>3
<1>5. CASE thread_do_loop(w) \/ thread_do_check(w)
  BY <1>5, <1>s, ZenonT(30) DEF thread_do_loop, thread_do_check, At, poolVars, WorkerPcs,
     Counted, Registered
<1>6. CASE bsem_wait(w) \/ jobqueue_pull_lock(w)
  BY <1>6, <1>s DEF bsem_wait, jobqueue_pull_lock, At, WorkerPcs, Counted,
     Registered
<1>7. CASE jobqueue_pull(w) \/ thread_do_run(w)
  BY <1>7, <1>s, ZenonT(30) DEF jobqueue_pull, Pull, thread_do_run, At, poolVars, WorkerPcs,
     Counted, Registered
<1>8. CASE thread_do_unlock(w)
  BY <1>8, <1>s, ZenonT(30) DEF thread_do_unlock, At, WorkerPcs, Counted, Registered
<1> QED BY <1>1, <1>2, <1>3, <1>4, <1>5, <1>6, <1>7, <1>8 DEF ThreadStep

LEMMA CountersInit ==
  ASSUME TypeInv, NEW c \in Clients, NEW p \in Pools, thpool_init(c, p)
  PROVE  CountersOK'
<1>1. /\ pc \in [Workers -> WorkerPcs]
      /\ \A v \in Workers : PoolOf[v] = p => pc[v] = "none"
  BY ZenonT(30) DEF thpool_init, TypeInv, Typed, TypeOK, UnbornOK
<1>2. /\ pc' = [w \in Workers |-> IF PoolOf[w] = p THEN "born" ELSE pc[w]]
      /\ UNCHANGED <<num_threads_alive, num_threads_working>>
  BY Zenon DEF thpool_init
<1>3. /\ pc' \in [Workers -> WorkerPcs]
      /\ \A v \in Workers : pc'[v] = pc[v] \/ (pc[v] = "none" /\ pc'[v] = "born")
  BY <1>1, <1>2 DEF WorkerPcs
<1>4. \A v \in Workers : /\ pc[v] \in Counted <=> pc'[v] \in Counted
                         /\ pc[v] \in Registered <=> pc'[v] \in Registered
  BY <1>3 DEF Counted, Registered
<1>5. ASSUME NEW q \in Pools
      PROVE  /\ Count(pc', Counted, q) = Count(pc, Counted, q)
             /\ Count(pc', Registered, q) = Count(pc, Registered, q)
  BY <1>1, <1>3, <1>4, CountSame
<1> QED BY <1>2, <1>5, CountersPrime DEF TypeInv, CountersOK, CountersAre

LEMMA CountersCall ==
  ASSUME TypeInv, NEW c \in Clients
  PROVE  CallStep(c) \/ spurious_wakeup(c) => CountersOK'
<1>1. ASSUME thpool_init_return(c) \/ jobqueue_push(c) \/ bsem_post_all(c)
      PROVE  CountersOK'
  BY <1>1, CountersSame, ZenonT(30) DEF thpool_init_return, jobqueue_push, bsem_post_all,
     workerVars
<1>2. ASSUME thpool_wait_lock(c) \/ thpool_wait_len(c) PROVE CountersOK'
  BY <1>2, CountersSame, ZenonT(30) DEF thpool_wait_lock, thpool_wait_len, workerVars
<1>3. ASSUME thpool_wait_working(c) \/ spurious_wakeup(c) PROVE CountersOK'
  BY <1>3, CountersSame DEF thpool_wait_working, spurious_wakeup, workerVars
<1>4. ASSUME thpool_destroy_free(c) PROVE CountersOK'
  BY <1>4, CountersSame DEF thpool_destroy_free, Free, workerVars
<1> QED BY <1>1, <1>2, <1>3, <1>4 DEF CallStep

LEMMA CountersStep ==
  ASSUME TypeInv, [Next]_vars
  PROVE  CountersOK'
<1>1. ASSUME NEW w \in Workers, SignalStep(w) PROVE CountersOK'
  BY <1>1, CountersSame DEF SignalStep, thread_hold_enter, thread_hold_leave,
     poolVars, workerVars
<1>2. ASSUME NEW c \in Clients, StartCall(c) PROVE CountersOK'
  <2>1. ASSUME NEW p \in Pools, thpool_wait(c, p) \/ thpool_destroy(c, p)
        PROVE  CountersOK'
    BY <2>1, CountersSame DEF thpool_wait, thpool_destroy, poolVars, workerVars
  <2>2. ASSUME NEW p \in Pools, thpool_pause(c, p) \/ thpool_resume(c, p)
        PROVE  CountersOK'
    BY <2>2, CountersSame DEF thpool_pause, thpool_resume, poolVars, workerVars
  <2>3. ASSUME NEW p \in Pools, NEW j \in Jobs, thpool_add_work(c, p, j)
        PROVE  CountersOK'
    BY <2>3, CountersSame, Zenon DEF thpool_add_work, poolVars, workerVars
  <2> QED BY <1>2, <2>1, <2>2, <2>3, CountersInit DEF StartCall
<1>3. CASE UNCHANGED vars
  BY <1>3, CountersSame DEF vars, poolVars, workerVars
<1> QED BY <1>1, <1>2, <1>3, CountersThread, CountersCall DEF Next

-----------------------------------------------------------------------------
(* The types and the counters together.                                      *)

\* Nobody is counted before any thread is created.
LEMMA TypeInit == Init => TypeInv
<1> SUFFICES ASSUME Init PROVE CountersOK
  BY TypedInitially DEF TypeInv
<1>1. ASSUME NEW p \in Pools
      PROVE  Count(pc, Counted, p) = 0 /\ Count(pc, Registered, p) = 0
  <2>1. /\ {v \in WorkersOf(p) : pc[v] \in Counted} = {}
        /\ {v \in WorkersOf(p) : pc[v] \in Registered} = {}
    BY DEF Init, WorkersOf, Counted, Registered
  <2> QED BY <2>1, FS_EmptySet DEF Count
<1> QED BY <1>1 DEF Init, CountersOK

LEMMA TypeStep == TypeInv /\ [Next]_vars => TypeInv'
<1> SUFFICES ASSUME TypeInv, [Next]_vars PROVE TypeInv'
  OBVIOUS
<1>1. CountersOK'
  BY CountersStep
<1>2. /\ \A p \in Pools : num_threads_working'[p] \in Nat
      /\ \A p \in Pools : num_threads_alive'[p] \in Nat
  BY <1>1, CountersPrime, CountType DEF CountersAre
<1> QED BY <1>1, <1>2, TypedStep DEF TypeInv

\* What a count of none or of all threads of a pool says of each of them.
LEMMA CountersSay == TypeInv => CountersMean
<1> SUFFICES ASSUME TypeInv, NEW p \in Pools, NEW w \in Workers, PoolOf[w] = p
    PROVE  /\ num_threads_alive[p] = Cardinality(WorkersOf(p)) => pc[w] \in Registered
           /\ num_threads_alive[p] = 0 => pc[w] \notin Registered
           /\ num_threads_working[p] = 0 => pc[w] \notin Counted
  BY DEF CountersMean
<1> DEFINE F(S) == {v \in WorkersOf(p) : pc[v] \in S}
<1>1. /\ num_threads_alive[p] = Cardinality(F(Registered))
      /\ num_threads_working[p] = Cardinality(F(Counted))
  BY DEF TypeInv, CountersOK, Count
<1>2. \A S : IsFiniteSet(F(S))
  BY CountFinite
<1>3. IsFiniteSet(WorkersOf(p)) /\ \A S : F(S) \subseteq WorkersOf(p)
  BY PoolAssumption, FS_Subset DEF WorkersOf
<1>4. ASSUME num_threads_alive[p] = Cardinality(WorkersOf(p))
      PROVE  pc[w] \in Registered
  <2>1. F(Registered) = WorkersOf(p)
    BY <1>1, <1>3, <1>4, FS_Subset
  <2> QED BY <2>1 DEF WorkersOf
<1>5. ASSUME NEW S, Cardinality(F(S)) = 0
      PROVE  pc[w] \notin S
  <2>1. F(S) = {}
    BY <1>2, <1>5, FS_EmptySet
  <2> QED BY <2>1 DEF WorkersOf
<1> QED BY <1>1, <1>4, <1>5
=============================================================================
