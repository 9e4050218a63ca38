-------------------------- MODULE ThreadPoolProofs --------------------------
(***************************************************************************)
(* The theorems about ThreadPool, on the upper layers of the inductive     *)
(* invariant: every job is in exactly one place (JobInv), so it is run at  *)
(* most once and never lost; the semaphore is up while jobs are queued     *)
(* (WakeInv); and thpool_wait sees every earlier job through (WaitInv).    *)
(***************************************************************************)
EXTENDS ThreadPoolSteps

-----------------------------------------------------------------------------
(* Every job is in one place: with the client that adds it, at one position  *)
(* of one queue, in the hands of one worker, or run.                         *)

QueuedOnce ==
  \A p \in Pools : \A i, k \in 1..Len(queue[p]) : queue[p][i] = queue[p][k] => i = k

QueuedWaits ==
  \A p \in Pools : \A i \in 1..Len(queue[p]) :
    /\ added[queue[p][i]] = p /\ ran[queue[p][i]] = 0
    /\ \A w \in Workers : job[w] # queue[p][i]

HeldOnce ==
  \A w \in Workers : job[w] \in Jobs =>
    /\ added[job[w]] = PoolOf[w] /\ ran[job[w]] = 0
    /\ \A v \in Workers : job[v] = job[w] => v = w

AddedOnce ==
  \A c \in Clients : cjob[c] \in Jobs =>
    /\ added[cjob[c]] = NoOne /\ cpc[c] = "add"
    /\ \A d \in Clients : cjob[d] = cjob[c] => d = c

NotYetRun == \A j \in Jobs : added[j] = NoOne => ran[j] = 0

JobInv ==
  /\ QueuedOnce /\ QueuedWaits /\ HeldOnce /\ AddedOnce /\ NotYetRun
  /\ JobsRunAtMostOnce /\ NoJobLost

LEMMA PullsHead ==
  ASSUME NEW q \in Seq(Jobs), q # <<>>
  PROVE  /\ Head(q) = q[1] /\ Head(q) \in Jobs /\ Len(q) \in Nat \ {0}
         /\ Rest(q) \in Seq(Jobs) /\ Len(Rest(q)) = Len(q) - 1
         /\ \A i \in 1..Len(Rest(q)) : Rest(q)[i] = q[i + 1]
BY DEF Rest

\* What the job bookkeeping takes from the types.
JobTyped ==
  /\ queue \in [Pools -> Seq(Jobs)]
  /\ stage \in [Pools -> {"none", "init", "live", "dying", "freed"}]
  /\ job \in [Workers -> Jobs \cup {NoJob}]
  /\ cjob \in [Clients -> Jobs \cup {NoJob}]
  /\ cpc \in [Clients -> ClientPcs]
  /\ cpool \in [Clients -> Pools \cup {NoOne}]
  /\ added \in [Jobs -> Pools \cup {NoOne}]
  /\ ran \in [Jobs -> Nat]
  /\ \A c \in Clients : cpc[c] # "idle" => cpool[c] \in Pools
  /\ \A c \in Clients : cpc[c] = "add" => cjob[c] \in Jobs
  /\ \A p \in Pools : \A c \in idle_waiters[p] : cpc[c] = "asleep"
  /\ idle_waiters \in [Pools -> SUBSET Clients]
  /\ PoolOf \in [Workers -> Pools]
  /\ NoJob \notin Jobs /\ NoOne \notin Pools

LEMMA JobTypes == Typed => JobTyped
BY PoolAssumption DEF Typed, TypeOK, ClientsOK, JobTyped

\* A step that neither moves, adds nor runs a job.
LEMMA JobsStay ==
  ASSUME JobInv, UNCHANGED <<queue, job, added, ran>>
  PROVE  QueuedOnce' /\ QueuedWaits' /\ HeldOnce' /\ NotYetRun' /\ JobsRunAtMostOnce'
<1>1. QueuedOnce'
  BY DEF JobInv, QueuedOnce
<1>2. QueuedWaits'
  BY DEF JobInv, QueuedWaits
<1>3. HeldOnce' /\ NotYetRun' /\ JobsRunAtMostOnce'
  BY DEF JobInv, HeldOnce, NotYetRun, JobsRunAtMostOnce
<1> QED BY <1>1, <1>2, <1>3

\* ... and leaves the clients' jobs alone.
LEMMA JobFramed ==
  ASSUME JobInv, UNCHANGED <<queue, job, cjob, added, ran>>,
         \A p \in Pools : stage[p] = "freed" => stage'[p] = "freed",
         \A c \in Clients : cpc[c] = "add" => cpc'[c] = "add"
  PROVE  JobInv'
<1>1. QueuedOnce' /\ QueuedWaits' /\ HeldOnce' /\ NotYetRun' /\ JobsRunAtMostOnce'
  BY JobsStay
<1>2. AddedOnce'
  BY DEF JobInv, AddedOnce
<1>3. NoJobLost'
  BY DEF JobInv, NoJobLost, Queued, HeldBy, WorkersOf
<1> QED BY <1>1, <1>2, <1>3 DEF JobInv

LEMMA JobPull ==
  ASSUME Typed, StageInv, JobInv, NEW w \in Workers, jobqueue_pull(w)
  PROVE  JobInv'
<1>t. JobTyped
  BY JobTypes
<1> DEFINE p == PoolOf[w]
<1>1. /\ job[w] = NoJob
      /\ UNCHANGED <<stage, added, ran, cjob, cpc>>
  BY <1>t DEF JobTyped, jobqueue_pull, Pull, At, StageInv, clientVars, history
<1>2. CASE queue[p] = <<>>
  <2>1. job' = job /\ queue' = queue
    BY <1>t, <1>1, <1>2 DEF JobTyped, jobqueue_pull, Pull, Rest
  <2> QED BY <1>1, <2>1, JobFramed
<1>3. CASE queue[p] # <<>>
  <2>1. /\ job' = [job EXCEPT ![w] = Head(queue[p])]
        /\ queue' = [queue EXCEPT ![p] = Rest(queue[p])]
    BY <1>3 DEF jobqueue_pull, Pull
  <2>2. /\ queue[p] \in Seq(Jobs) /\ p \in Pools
        /\ Head(queue[p]) = queue[p][1] /\ queue[p][1] \in Jobs
        /\ Len(queue[p]) \in Nat \ {0}
        /\ Len(queue'[p]) = Len(queue[p]) - 1
        /\ \A i \in 1..Len(queue'[p]) : queue'[p][i] = queue[p][i + 1]
        /\ \A q \in Pools \ {p} : queue'[q] = queue[q]
    BY <1>t, <1>3, <2>1, PullsHead DEF JobTyped
  <2>3. /\ job'[w] = queue[p][1]
        /\ \A v \in Workers \ {w} : job'[v] = job[v]
    BY <1>t, <2>1, <2>2 DEF JobTyped
  <2>4. QueuedOnce'
    <3>1. ASSUME NEW q \in Pools, NEW i \in 1..Len(queue'[q]),
                 NEW k \in 1..Len(queue'[q]), queue'[q][i] = queue'[q][k]
          PROVE  i = k
      <4>1. CASE q = p
        <5>1. /\ i + 1 \in 1..Len(queue[p]) /\ k + 1 \in 1..Len(queue[p])
              /\ queue[p][i + 1] = queue[p][k + 1]
          BY <2>2, <3>1, <4>1
        <5>2. i + 1 = k + 1
          BY <2>2, <5>1 DEF JobInv, QueuedOnce
        <5> QED BY <5>2
      <4>2. CASE q # p
        BY <2>2, <3>1, <4>2 DEF JobInv, QueuedOnce
      <4> QED BY <4>1, <4>2
    <3> QED BY <3>1 DEF QueuedOnce
  <2>5. QueuedWaits'
    <3>1. ASSUME NEW q \in Pools, NEW i \in 1..Len(queue'[q])
          PROVE  /\ added[queue'[q][i]] = q /\ ran[queue'[q][i]] = 0
                 /\ \A v \in Workers : job'[v] # queue'[q][i]
      <4>1. CASE q = p
        <5>1. /\ i + 1 \in 1..Len(queue[p]) /\ 1 \in 1..Len(queue[p])
              /\ queue'[q][i] = queue[p][i + 1] /\ i + 1 # 1
          BY <2>2, <4>1
        <5>2. queue[p][i + 1] # queue[p][1]
          BY <2>2, <5>1 DEF JobInv, QueuedOnce
        <5>3. /\ added[queue[p][i + 1]] = p /\ ran[queue[p][i + 1]] = 0
              /\ \A v \in Workers : job[v] # queue[p][i + 1]
          BY <2>2, <5>1 DEF JobInv, QueuedWaits
        <5> QED BY <2>3, <4>1, <5>1, <5>2, <5>3
      <4>2. CASE q # p
        <5>1. /\ queue'[q] = queue[q] /\ 1 \in 1..Len(queue[p])
          BY <2>2, <4>2
        <5>2. /\ added[queue[q][i]] = q /\ added[queue[p][1]] = p
              /\ ran[queue[q][i]] = 0 /\ \A v \in Workers : job[v] # queue[q][i]
          BY <2>2, <5>1 DEF JobInv, QueuedWaits
        <5> QED BY <2>3, <4>2, <5>1, <5>2
      <4> QED BY <4>1, <4>2
    <3> QED BY <1>1, <3>1 DEF QueuedWaits
  <2>6. HeldOnce'
    <3>1. /\ added[queue[p][1]] = p /\ ran[queue[p][1]] = 0
          /\ \A v \in Workers : job[v] # queue[p][1]
      <4>1. 1 \in 1..Len(queue[p])
        BY <2>2
      <4> QED BY <2>2, <4>1 DEF JobInv, QueuedWaits
    <3>2. ASSUME NEW v \in Workers, job'[v] \in Jobs
          PROVE  /\ added[job'[v]] = PoolOf[v] /\ ran[job'[v]] = 0
                 /\ \A u \in Workers : job'[u] = job'[v] => u = v
      <4>1. CASE v = w
        BY <2>3, <3>1, <4>1
      <4>2. CASE v # w
        <5>1. job'[v] = job[v] /\ job[v] # queue[p][1]
          BY <2>3, <3>1, <4>2
        <5> QED BY <2>3, <3>2, <5>1 DEF JobInv, HeldOnce
      <4> QED BY <4>1, <4>2
    <3> QED BY <1>1, <3>2 DEF HeldOnce
  <2>7. NoJobLost'
    <3> SUFFICES ASSUME NEW j \in Jobs, NEW q \in Pools,
                        added[j] = q, stage[q] # "freed", ran[j] # 1
                 PROVE  \/ \E i \in 1..Len(queue'[q]) : queue'[q][i] = j
                        \/ \E v \in WorkersOf(q) : job'[v] = j
      BY <1>1 DEF NoJobLost, Queued, HeldBy, WorkersOf
    <3>1. CASE \E v \in WorkersOf(q) : job[v] = j
      BY <1>t, <1>1, <2>3, <3>1, Zenon DEF JobTyped, WorkersOf
    <3>2. CASE \E i \in 1..Len(queue[q]) : queue[q][i] = j
      <4>1. PICK i \in 1..Len(queue[q]) : queue[q][i] = j
        BY <3>2
      <4>2. CASE q # p
        BY <2>2, <4>1, <4>2
      <4>3. CASE q = p /\ i = 1
        BY <2>3, <4>1, <4>3 DEF WorkersOf
      <4>4. CASE q = p /\ i # 1
        <5>1. i - 1 \in 1..Len(queue'[q]) /\ queue'[q][i - 1] = j
          BY <2>2, <4>1, <4>4
        <5> QED BY <5>1
      <4> QED BY <4>2, <4>3, <4>4
    <3> QED BY <3>1, <3>2 DEF JobInv, NoJobLost, Queued, HeldBy
  <2> QED BY <1>1, <2>4, <2>5, <2>6, <2>7 DEF JobInv, AddedOnce, NotYetRun,
       JobsRunAtMostOnce
<1> QED BY <1>2, <1>3

LEMMA JobRun ==
  ASSUME Typed, StageInv, JobInv, NEW w \in Workers, thread_do_run(w)
  PROVE  JobInv'
<1>t. JobTyped
  BY JobTypes
<1>1. UNCHANGED <<queue, stage, added, cjob, cpc>> /\ job' = [job EXCEPT ![w] = NoJob]
  BY DEF thread_do_run, poolVars, clientVars
<1>2. CASE job[w] = NoJob
  <2>1. job' = job /\ ran' = ran
    BY <1>t, <1>1, <1>2 DEF JobTyped, thread_do_run
  <2> QED BY <1>1, <2>1, JobFramed
<1>3. CASE job[w] # NoJob
  <2>1. /\ job[w] \in Jobs
        /\ ran' = [ran EXCEPT ![job[w]] = ran[job[w]] + 1]
    BY <1>t, <1>3 DEF JobTyped, thread_do_run
  <2>2. /\ ran'[job[w]] = 1 /\ added[job[w]] = PoolOf[w]
        /\ \A j \in Jobs \ {job[w]} : ran'[j] = ran[j]
        /\ job'[w] = NoJob
        /\ \A v \in Workers \ {w} : job'[v] = job[v] /\ (job[v] \in Jobs => job[v] # job[w])
    BY <1>t, <1>1, <2>1 DEF JobTyped, JobInv, HeldOnce
  <2>3. QueuedOnce' /\ AddedOnce'
    BY <1>1 DEF JobInv, QueuedOnce, AddedOnce
  <2>4. QueuedWaits'
    BY <1>t, <1>1, <2>1, <2>2 DEF JobTyped, JobInv, QueuedWaits
  <2>5. HeldOnce'
    BY <1>t, <1>1, <2>1, <2>2 DEF JobTyped, JobInv, HeldOnce
  <2>6. NotYetRun' /\ JobsRunAtMostOnce'
    BY <1>t, <1>1, <2>1, <2>2 DEF JobTyped, JobInv, NotYetRun, JobsRunAtMostOnce
  <2>7. NoJobLost'
    <3> SUFFICES ASSUME NEW k \in Jobs, NEW q \in Pools,
                        added[k] = q, stage[q] # "freed", ran'[k] # 1
                 PROVE  \/ \E i \in 1..Len(queue[q]) : queue[q][i] = k
                        \/ \E v \in WorkersOf(q) : job'[v] = k
      BY <1>1 DEF NoJobLost, Queued, HeldBy, WorkersOf
    <3>1. k # job[w] /\ ran[k] # 1
      BY <2>2
    <3>2. \/ \E i \in 1..Len(queue[q]) : queue[q][i] = k
          \/ \E v \in WorkersOf(q) : job[v] = k
      BY <3>1 DEF JobInv, NoJobLost, Queued, HeldBy
    <3> QED BY <2>2, <3>1, <3>2 DEF WorkersOf
  <2> QED BY <2>3, <2>4, <2>5, <2>6, <2>7 DEF JobInv
<1> QED BY <1>2, <1>3

LEMMA JobPush ==
  ASSUME Typed, StageInv, JobInv, NEW c \in Clients, jobqueue_push(c)
  PROVE  JobInv'
<1>t. JobTyped
  BY JobTypes
<1> DEFINE p == cpool[c]
           j == cjob[c]
<1>1. /\ p \in Pools /\ j \in Jobs /\ cpc[c] = "add" /\ added[j] = NoOne
      /\ queue' = [queue EXCEPT ![p] = Append(queue[p], j)]
      /\ added' = [added EXCEPT ![j] = p]
      /\ cjob' = [cjob EXCEPT ![c] = NoJob]
      /\ cpc' = [cpc EXCEPT ![c] = "idle"]
      /\ UNCHANGED <<stage, job, ran>>
  BY <1>t DEF JobTyped, jobqueue_push, Return, workerVars, JobInv, AddedOnce
<1>2. /\ Len(queue[p]) \in Nat /\ Len(queue'[p]) = Len(queue[p]) + 1
      /\ \A i \in 1..Len(queue[p]) : queue'[p][i] = queue[p][i]
      /\ queue'[p][Len(queue[p]) + 1] = j
      /\ \A q \in Pools \ {p} : queue'[q] = queue[q]
      /\ \A q \in Pools : queue[q] \in Seq(Jobs)
  BY <1>t, <1>1 DEF JobTyped
<1>3. /\ added'[j] = p
      /\ \A k \in Jobs \ {j} : added'[k] = added[k]
  BY <1>t, <1>1 DEF JobTyped
<1>4. /\ \A q \in Pools : \A i \in 1..Len(queue[q]) : queue[q][i] # j
      /\ \A w \in Workers : job[w] # j
      /\ ran[j] = 0
  BY <1>t, <1>1 DEF JobTyped, JobInv, QueuedWaits, HeldOnce, NotYetRun
<1>5. QueuedOnce'
  <2>1. ASSUME NEW q \in Pools, NEW i \in 1..Len(queue'[q]),
               NEW k \in 1..Len(queue'[q]), queue'[q][i] = queue'[q][k]
        PROVE  i = k
    <3>1. CASE q = p /\ i \in 1..Len(queue[p]) /\ k \in 1..Len(queue[p])
      BY <1>2, <2>1, <3>1 DEF JobInv, QueuedOnce
    <3>2. CASE q = p /\ ~(i \in 1..Len(queue[p]) /\ k \in 1..Len(queue[p]))
      <4>1. \/ i = Len(queue[p]) + 1 /\ k = Len(queue[p]) + 1
            \/ i = Len(queue[p]) + 1 /\ k \in 1..Len(queue[p])
            \/ k = Len(queue[p]) + 1 /\ i \in 1..Len(queue[p])
        BY <1>2, <3>2
      <4>2. \A m \in 1..Len(queue[p]) : queue'[p][m] # queue'[p][Len(queue[p]) + 1]
        BY <1>1, <1>2, <1>4
      <4> QED BY <2>1, <3>2, <4>1, <4>2
    <3>3. CASE q # p
      BY <1>2, <2>1, <3>3, ZenonT(30) DEF JobInv, QueuedOnce
    <3> QED BY <3>1, <3>2, <3>3
  <2> QED BY <2>1 DEF QueuedOnce
<1>6. QueuedWaits'
  <2>1. ASSUME NEW q \in Pools, NEW i \in 1..Len(queue'[q])
        PROVE  /\ added'[queue'[q][i]] = q /\ ran[queue'[q][i]] = 0
               /\ \A v \in Workers : job[v] # queue'[q][i]
    <3>1. CASE q = p /\ i = Len(queue[p]) + 1
      BY <1>2, <1>3, <1>4, <3>1
    <3>2. CASE i \in 1..Len(queue[q])
      <4>1. /\ queue'[q][i] = queue[q][i] /\ queue[q][i] \in Jobs
        BY <1>2, <3>2
      <4> QED BY <1>3, <1>4, <3>2, <4>1 DEF JobInv, QueuedWaits
    <3> QED BY <1>2, <3>1, <3>2
  <2> QED BY <1>1, <2>1 DEF QueuedWaits
<1>7. HeldOnce' /\ JobsRunAtMostOnce' /\ NotYetRun'
  BY <1>t, <1>1, <1>3, <1>4 DEF JobTyped, JobInv, HeldOnce, JobsRunAtMostOnce, NotYetRun
<1>8. AddedOnce'
  BY <1>t, <1>1, <1>3 DEF JobTyped, JobInv, AddedOnce
<1>9. NoJobLost'
  <2> SUFFICES ASSUME NEW k \in Jobs, NEW q \in Pools,
                      added'[k] = q, stage[q] # "freed", ran[k] # 1
               PROVE  \/ \E i \in 1..Len(queue'[q]) : queue'[q][i] = k
                      \/ \E v \in WorkersOf(q) : job[v] = k
    BY <1>1 DEF NoJobLost, Queued, HeldBy, WorkersOf
  <2>1. CASE k = j
    <3>1. q = p /\ Len(queue[p]) + 1 \in 1..Len(queue'[q])
      BY <1>2, <1>3, <2>1
    <3> QED BY <1>2, <2>1, <3>1
  <2>2. CASE k # j
    <3>1. \/ \E i \in 1..Len(queue[q]) : queue[q][i] = k
          \/ \E v \in WorkersOf(q) : job[v] = k
      BY <1>3, <2>2 DEF JobInv, NoJobLost, Queued, HeldBy
    <3> QED BY <1>2, <3>1
  <2> QED BY <2>1, <2>2
<1> QED BY <1>5, <1>6, <1>7, <1>8, <1>9, ZenonT(30) DEF JobInv

LEMMA JobFree ==
  ASSUME Typed, StageInv, JobInv, NEW c \in Clients, thpool_destroy_free(c)
  PROVE  JobInv'
<1>t. JobTyped
  BY JobTypes
<1> DEFINE p == cpool[c]
<1>1. /\ p \in Pools /\ cpc[c] = "destroy"
      /\ queue' = [queue EXCEPT ![p] = <<>>]
      /\ stage' = [stage EXCEPT ![p] = "freed"]
      /\ cpc' = [cpc EXCEPT ![c] = "idle"]
      /\ UNCHANGED <<job, ran, added, cjob>>
  BY <1>t DEF JobTyped, thpool_destroy_free, Free, Return, workerVars, history
<1>2. /\ queue'[p] = <<>> /\ Len(queue'[p]) = 0 /\ stage'[p] = "freed"
      /\ \A q \in Pools \ {p} : queue'[q] = queue[q] /\ stage'[q] = stage[q]
  BY <1>t, <1>1 DEF JobTyped
<1>3. QueuedOnce' /\ QueuedWaits'
  BY <1>1, <1>2 DEF JobInv, QueuedOnce, QueuedWaits
<1>4. HeldOnce' /\ JobsRunAtMostOnce' /\ NotYetRun'
  BY <1>1 DEF JobInv, HeldOnce, JobsRunAtMostOnce, NotYetRun
<1>5. AddedOnce'
  BY <1>t, <1>1 DEF JobTyped, JobInv, AddedOnce
<1>6. NoJobLost'
  <2>1. ASSUME NEW k \in Jobs, NEW q \in Pools, added[k] = q,
               stage'[q] # "freed"
        PROVE  /\ stage[q] # "freed" /\ queue'[q] = queue[q]
    BY <1>2, <2>1
  <2> QED BY <1>1, <2>1 DEF JobInv, NoJobLost, Queued, HeldBy, WorkersOf
<1> QED BY <1>3, <1>4, <1>5, <1>6 DEF JobInv

LEMMA JobAdd ==
  ASSUME Typed, StageInv, JobInv, NEW c \in Clients, NEW p \in Pools, NEW j \in Jobs,
         thpool_add_work(c, p, j)
  PROVE  JobInv'
<1>t. JobTyped
  BY JobTypes
<1>1. /\ added[j] = NoOne /\ \A d \in Clients : cjob[d] # j
      /\ cpc[c] = "idle" /\ cpc' = [cpc EXCEPT ![c] = "add"]
      /\ cjob' = [cjob EXCEPT ![c] = j]
      /\ UNCHANGED <<queue, stage, job, added, ran>>
  BY ZenonT(30) DEF thpool_add_work, Enter, poolVars, workerVars, history
<1>2. QueuedOnce' /\ QueuedWaits' /\ HeldOnce' /\ NotYetRun' /\ JobsRunAtMostOnce'
  BY <1>1, JobsStay
<1>3. AddedOnce'
  BY <1>t, <1>1 DEF JobTyped, JobInv, AddedOnce
<1>4. NoJobLost'
  BY <1>1, ZenonT(30) DEF JobInv, NoJobLost, Queued, HeldBy, WorkersOf
<1> QED BY <1>2, <1>3, <1>4 DEF JobInv

LEMMA JobStep ==
  ASSUME Typed, CallInv, StageInv, JobInv, [Next]_vars
  PROVE  JobInv'
<1>t. JobTyped
  BY JobTypes
<1>1. ASSUME NEW w \in Workers, ThreadStep(w) PROVE JobInv'
  <2>1. CASE ~jobqueue_pull(w) /\ ~thread_do_run(w)
    BY <1>1, <2>1, JobFramed, ThreadFrame, JobFrame
  <2> QED BY <1>1, <2>1, JobPull, JobRun
<1>2. ASSUME Quiet PROVE JobInv'
  BY <1>2, JobFramed, QuietFrame
<1>3. ASSUME NEW c \in Clients, WaitCall(c) PROVE JobInv'
  BY <1>3, JobFramed, WaitFrame DEF Waiting
<1>4. ASSUME NEW c \in Clients, thpool_init_return(c) PROVE JobInv'
  <2>1. stage[cpool[c]] = "init"
    BY <1>4 DEF thpool_init_return, CallInv, StageDuring
  <2> QED BY <1>4, <1>t, <2>1, JobFramed DEF JobTyped, thpool_init_return, Return,
       workerVars, history
<1>5. ASSUME NEW c \in Clients, bsem_post_all(c) PROVE JobInv'
  BY <1>5, JobFramed DEF bsem_post_all, workerVars, clientVars, history
<1>6. ASSUME NEW c \in Clients, NEW p \in Pools,
              thpool_init(c, p) \/ thpool_destroy(c, p)
       PROVE  JobInv'
  BY <1>6, <1>t, JobFramed DEF JobTyped, thpool_init, thpool_destroy, Enter,
     workerVars, history
<1>7. ASSUME NEW c \in Clients, NEW p \in Pools, thpool_wait(c, p)
       PROVE  JobInv'
  BY <1>7, <1>t, JobFramed DEF JobTyped, thpool_wait, Enter, poolVars, workerVars
<1> QED
  BY <1>1, <1>2, <1>3, <1>4, <1>5, <1>6, <1>7, JobPush, JobFree, JobAdd
  DEF Next, CallStep, StartCall, Quiet, WaitCall

-----------------------------------------------------------------------------
(* The binary semaphore.                                                     *)

NoneStopped == \A q \in Pools : stage[q] \notin {"dying", "freed"}

\* The flag that every worker reads is up until some pool is destroyed.
KeepAlive ==
  NoneStopped => threads_keepalive = 1 \/ \A w \in Workers : pc[w] = "none"

WakeInv == KeepAlive /\ NoLostWakeup

LEMMA WakeStep ==
  ASSUME Typed, CallInv, WakeInv, [Next]_vars
  PROVE  WakeInv'
<1>t. /\ pc \in [Workers -> WorkerPcs]
      /\ has_jobs \in [Pools -> {0, 1}]
      /\ queue \in [Pools -> Seq(Jobs)]
      /\ stage \in [Pools -> {"none", "init", "live", "dying", "freed"}]
      /\ cpool \in [Clients -> Pools \cup {NoOne}]
      /\ \A c \in Clients : cpc[c] # "idle" => cpool[c] \in Pools
      /\ \A w \in Workers : stage[PoolOf[w]] = "none" => pc[w] = "none"
      /\ PoolOf \in [Workers -> Pools]
  BY PoolAssumption DEF Typed, TypeOK, ClientsOK, UnbornOK
<1>f. ASSUME UNCHANGED <<threads_keepalive, stage, queue, has_jobs, pc>>
      PROVE  WakeInv'
  BY <1>f DEF WakeInv, KeepAlive, NoneStopped, NoLostWakeup, WorkersOf
<1>g. ASSUME NEW w \in Workers, NEW l, Goto(w, l), pc[w] # "none",
             UNCHANGED <<threads_keepalive, stage, queue, has_jobs>>,
             pc[w] \in {"check", "count", "pull", "pullcs"}
               => l \in {"check", "count", "pull", "pullcs"}
      PROVE  WakeInv'
  <2>1. pc'[w] = l /\ \A v \in Workers \ {w} : pc'[v] = pc[v]
    BY <1>t, <1>g DEF Goto
  <2>2. KeepAlive'
    BY <1>g, <2>1 DEF WakeInv, KeepAlive, NoneStopped
  <2>3. NoLostWakeup'
    BY <1>g, <2>1 DEF WakeInv, NoLostWakeup, WorkersOf
  <2> QED BY <2>2, <2>3 DEF WakeInv
<1>1. ASSUME NEW w \in Workers,
             \/ thread_do_register(w) \/ thread_do_count(w)
             \/ jobqueue_pull_lock(w) \/ thread_do_exit(w) \/ thread_do_unlock(w)
      PROVE  WakeInv'
  BY <1>1, <1>g DEF thread_do_register, thread_do_count, jobqueue_pull_lock,
     thread_do_exit, thread_do_unlock, globals, At
<1>2. ASSUME NEW w \in Workers, thread_do_loop(w) \/ thread_do_check(w)
      PROVE  WakeInv'
  <2>1. CASE thread_do_loop(w)
    BY <1>g, <2>1, Zenon DEF thread_do_loop, globals, poolVars, At
  <2>2. CASE thread_do_check(w)
    BY <1>t, <2>2 DEF thread_do_check, globals, poolVars, Goto, At, WakeInv,
       KeepAlive, NoneStopped, NoLostWakeup, WorkersOf
  <2> QED BY <1>2, <2>1, <2>2
<1>3. ASSUME NEW w \in Workers, bsem_wait(w) PROVE WakeInv'
  BY <1>3, <1>t DEF bsem_wait, globals, Goto, At, WakeInv, KeepAlive,
     NoneStopped, NoLostWakeup, WorkersOf
<1>4. ASSUME NEW w \in Workers, jobqueue_pull(w) PROVE WakeInv'
  BY <1>4, <1>t DEF jobqueue_pull, Pull, Rest, globals, Goto, At, WakeInv,
     KeepAlive, NoneStopped, NoLostWakeup, WorkersOf
<1>5. ASSUME NEW w \in Workers, thread_do_run(w) \/ thread_do_uncount(w)
      PROVE  WakeInv'
  BY <1>5, <1>g DEF thread_do_run, thread_do_uncount, Uncount, globals, poolVars, At
<1>6. ASSUME NEW c \in Clients, thpool_init_return(c) PROVE WakeInv'
  <2>1. stage[cpool[c]] = "init"
    BY <1>6, ZenonT(30) DEF thpool_init_return, CallInv, StageDuring
  <2> QED BY <1>6, <1>t, <2>1 DEF thpool_init_return, globals, workerVars,
       WakeInv, KeepAlive, NoneStopped, NoLostWakeup, WorkersOf
<1>7. ASSUME NEW c \in Clients, jobqueue_push(c) \/ bsem_post_all(c)
      PROVE  WakeInv'
  BY <1>7, <1>t, ZenonT(30) DEF jobqueue_push, bsem_post_all, globals, workerVars, WakeInv,
     KeepAlive, NoneStopped, NoLostWakeup, WorkersOf
<1>8. ASSUME NEW c \in Clients, thpool_destroy_free(c) PROVE WakeInv'
  BY <1>8, <1>t, ZenonT(30) DEF thpool_destroy_free, Free, globals, workerVars,
     WakeInv, KeepAlive, NoneStopped, NoLostWakeup, WorkersOf
<1>9. ASSUME NEW c \in Clients, NEW p \in Pools, thpool_init(c, p)
      PROVE  WakeInv'
  <2>1. /\ NoneStopped' => NoneStopped
        /\ threads_keepalive' = 1
        /\ UNCHANGED <<queue, has_jobs>>
    BY <1>9, <1>t DEF thpool_init, NoneStopped
  <2>2. \A w \in Workers : pc[w] # "none" => pc'[w] = pc[w]
    BY <1>9, <1>t DEF thpool_init
  <2>3. KeepAlive'
    BY <2>1 DEF KeepAlive
  <2>4. ASSUME NoneStopped', NEW q \in Pools, queue[q] # <<>>, has_jobs[q] # 1
        PROVE  \E w \in WorkersOf(q) : pc'[w] \in {"check", "count", "pull", "pullcs"}
    <3>1. PICK w \in WorkersOf(q) : pc[w] \in {"check", "count", "pull", "pullcs"}
      BY <2>1, <2>4 DEF WakeInv, NoLostWakeup, NoneStopped
    <3> QED BY <2>2, <3>1 DEF WorkersOf
  <2> QED BY <2>1, <2>3, <2>4 DEF WakeInv, NoLostWakeup, NoneStopped, WorkersOf
<1>10. ASSUME NEW c \in Clients, NEW p \in Pools, thpool_destroy(c, p)
       PROVE  WakeInv'
  BY <1>10, <1>t DEF thpool_destroy, workerVars, WakeInv, KeepAlive,
     NoneStopped, NoLostWakeup, WorkersOf
<1>11. ASSUME NEW c \in Clients, NEW p \in Pools,
              thpool_wait(c, p) \/ \E j \in Jobs : thpool_add_work(c, p, j)
       PROVE  WakeInv'
  BY <1>11, <1>f DEF thpool_wait, thpool_add_work, globals, poolVars, workerVars
<1>12. ASSUME Quiet \/ \E c \in Clients : WaitCall(c)
       PROVE  WakeInv'
  BY <1>12, <1>f, QuietFrame, WaitFrame
<1> QED
  BY <1>1, <1>2, <1>3, <1>4, <1>5, <1>6, <1>7, <1>8, <1>9, <1>10, <1>11, <1>12
  DEF Next, ThreadStep, CallStep, StartCall, Quiet, WaitCall

-----------------------------------------------------------------------------
(* thpool_wait.                                                              *)

\* The jobs a waiter must see through are jobs of its pool, and none of them
\* is queued any more once it has found the queue empty.
WaitInv ==
  \A c \in Clients :
    /\ cpc[c] \in Waiting => \A j \in owed[c] : added[j] = cpool[c]
    /\ cpc[c] = "waitwork" => \A j \in owed[c] : ~Queued(cpool[c], j)

LEMMA WaitStep ==
  ASSUME Typed, JobInv, WaitInv, [Next]_vars
  PROVE  WaitInv'
<1>t. /\ queue \in [Pools -> Seq(Jobs)]
      /\ job \in [Workers -> Jobs \cup {NoJob}]
      /\ cpc \in [Clients -> ClientPcs]
      /\ cpool \in [Clients -> Pools \cup {NoOne}]
      /\ added \in [Jobs -> Pools \cup {NoOne}]
      /\ owed \in [Clients -> SUBSET Jobs]
      /\ idle_waiters \in [Pools -> SUBSET Clients]
      /\ \A c \in Clients : cpc[c] # "idle" => cpool[c] \in Pools
      /\ \A c \in Clients : cpc[c] = "add" => cjob[c] \in Jobs
      /\ \A p \in Pools : \A c \in idle_waiters[p] : cpc[c] = "asleep" /\ cpool[c] = p
      /\ PoolOf \in [Workers -> Pools]
      /\ NoOne \notin Pools
  BY PoolAssumption DEF Typed, TypeOK, ClientsOK
<1>f. ASSUME UNCHANGED <<queue, added, owed>>,
             \A c \in Clients :
               /\ cpc'[c] \in Waiting => cpc[c] \in Waiting /\ cpool'[c] = cpool[c]
               /\ cpc'[c] = "waitwork" => cpc[c] = "waitwork"
      PROVE  WaitInv'
  <2>1. ASSUME NEW c \in Clients
        PROVE  /\ cpc'[c] \in Waiting => \A j \in owed'[c] : added'[j] = cpool'[c]
               /\ cpc'[c] = "waitwork" => \A j \in owed'[c] : ~Queued(cpool[c], j)'
    BY <1>f DEF WaitInv, Waiting, Queued
  <2> QED BY <2>1, ZenonT(30) DEF WaitInv
<1>1. ASSUME NEW w \in Workers, jobqueue_pull(w) PROVE WaitInv'
  <2> DEFINE p == PoolOf[w]
  <2>1. /\ UNCHANGED <<added, owed, cpc, cpool>>
        /\ queue' = [queue EXCEPT ![p] = Rest(queue[p])]
    BY <1>1 DEF jobqueue_pull, Pull, clientVars, history
  <2>2. \A q \in Pools, j \in Jobs : Queued(q, j)' => Queued(q, j)
    <3> SUFFICES ASSUME NEW q \in Pools, NEW j \in Jobs,
                        NEW i \in 1..Len(queue'[q]), queue'[q][i] = j
                 PROVE  \E k \in 1..Len(queue[q]) : queue[q][k] = j
      BY DEF Queued
    <3>1. CASE q # p \/ queue[p] = <<>>
      BY <1>t, <2>1, <3>1 DEF Rest
    <3>2. CASE q = p /\ queue[p] # <<>>
      <4>1. i + 1 \in 1..Len(queue[p]) /\ queue[p][i + 1] = j
        BY <1>t, <2>1, <3>2, PullsHead
      <4> QED BY <3>2, <4>1
    <3> QED BY <3>1, <3>2
  <2> QED BY <1>t, <2>1, <2>2, Zenon DEF WaitInv, Waiting
<1>2. ASSUME NEW w \in Workers, ThreadStep(w) PROVE WaitInv'
  <2>1. CASE thread_do_run(w)
    BY <1>f, <2>1 DEF thread_do_run, poolVars, clientVars
  <2>2. CASE ~jobqueue_pull(w) /\ ~thread_do_run(w)
    BY <1>2, <1>f, <2>2, ThreadFrame, JobFrame, ZenonT(30) DEF Waiting
  <2> QED BY <1>1, <2>1, <2>2
<1>3. ASSUME Quiet PROVE WaitInv'
  BY <1>3, <1>f, QuietFrame
<1>4. ASSUME NEW c \in Clients, thpool_wait_len(c) PROVE WaitInv'
  <2>1. /\ UNCHANGED <<added, queue, owed, cpool>>
        /\ cpc[c] = "waitlen" /\ (cpc' = [cpc EXCEPT ![c] = "asleep"] \/
             (queue[cpool[c]] = <<>> /\ cpc' = [cpc EXCEPT ![c] = "waitwork"]))
    BY <1>4 DEF thpool_wait_len, Sleep, history
  <2>2. CASE cpc' = [cpc EXCEPT ![c] = "asleep"]
    BY <1>t, <1>f, <2>1, <2>2 DEF Waiting
  <2>3. CASE queue[cpool[c]] = <<>> /\ cpc' = [cpc EXCEPT ![c] = "waitwork"]
    <3>1. \A j \in Jobs : ~Queued(cpool[c], j)
      BY <1>t, <2>3 DEF Queued
    <3> QED BY <1>t, <2>1, <2>3, <3>1 DEF WaitInv, Waiting, Queued
  <2> QED BY <2>1, <2>2, <2>3
<1>5. ASSUME NEW c \in Clients, jobqueue_push(c) PROVE WaitInv'
  <2> DEFINE p == cpool[c]
             j == cjob[c]
  <2>1. /\ p \in Pools /\ j \in Jobs /\ added[j] = NoOne
        /\ queue' = [queue EXCEPT ![p] = Append(queue[p], j)]
        /\ added' = [added EXCEPT ![j] = p]
        /\ cpc' = [cpc EXCEPT ![c] = "idle"]
        /\ cpool' = [cpool EXCEPT ![c] = NoOne]
        /\ UNCHANGED owed
    BY <1>5, <1>t, Zenon DEF jobqueue_push, Return, JobInv, AddedOnce
  <2>2. \A q \in Pools, k \in Jobs : k # j /\ Queued(q, k)' => Queued(q, k)
    BY <1>t, <2>1 DEF Queued
  <2>3. ASSUME NEW d \in Clients, cpc'[d] \in Waiting
        PROVE  /\ d # c /\ cpc[d] = cpc'[d] /\ cpool'[d] = cpool[d]
               /\ j \notin owed[d] /\ cpool[d] \in Pools
    BY <1>t, <2>1, <2>3 DEF WaitInv, Waiting
  <2>4. ASSUME NEW d \in Clients, cpc'[d] \in Waiting, NEW k \in owed[d]
        PROVE  added'[k] = cpool[d]
    BY <1>t, <2>1, <2>3, <2>4, SMTT(20) DEF WaitInv
  <2>5. ASSUME NEW d \in Clients, cpc'[d] = "waitwork", NEW k \in owed[d]
        PROVE  ~Queued(cpool[d], k)'
    <3>1. cpc'[d] \in Waiting
      BY <2>5 DEF Waiting
    <3>2. cpc[d] = "waitwork" /\ cpool'[d] = cpool[d] /\ k \in Jobs /\ k # j /\ cpool[d] \in Pools
      BY <1>t, <2>3, <2>5, <3>1
    <3>3. ~Queued(cpool[d], k)
      BY <2>5, <3>2, Zenon DEF WaitInv
    <3> QED BY <2>2, <3>2, <3>3
  <2> QED BY <2>1, <2>3, <2>4, <2>5 DEF WaitInv, Queued
<1>6. ASSUME NEW c \in Clients, thpool_destroy_free(c) PROVE WaitInv'
  <2>1. /\ queue' = [queue EXCEPT ![cpool[c]] = <<>>]
        /\ cpc' = [cpc EXCEPT ![c] = "idle"] /\ cpool' = [cpool EXCEPT ![c] = NoOne]
        /\ UNCHANGED <<added, owed>>
    BY <1>6 DEF thpool_destroy_free, Free, Return, history
  <2>2. \A q \in Pools, j \in Jobs : Queued(q, j)' => Queued(q, j)
    BY <1>t, <2>1 DEF Queued
  <2> QED BY <1>t, <2>1, <2>2, ZenonT(30) DEF WaitInv, Waiting
<1>7. ASSUME NEW c \in Clients, NEW p \in Pools, thpool_wait(c, p)
      PROVE  WaitInv'
  <2>1. /\ UNCHANGED <<added, queue>>
        /\ owed' = [owed EXCEPT ![c] = {j \in Jobs : added[j] = p}]
        /\ cpc' = [cpc EXCEPT ![c] = "wait"] /\ cpool' = [cpool EXCEPT ![c] = p]
    BY <1>7, ZenonT(30) DEF thpool_wait, Enter, poolVars
  <2> QED BY <1>t, <2>1 DEF WaitInv, Waiting, Queued
<1>8. ASSUME NEW c \in Clients,
             thpool_wait_lock(c) \/ thpool_wait_working(c) \/ spurious_wakeup(c)
      PROVE  WaitInv'
  <2>1. WaitCall(c) /\ cpc'[c] # "waitwork"
    BY <1>8, <1>t, ZenonT(30) DEF WaitCall, thpool_wait_lock, thpool_wait_working,
       spurious_wakeup, Sleep, Return
  <2> QED BY <1>f, <2>1, WaitFrame DEF Waiting
<1>9. ASSUME NEW c \in Clients, thpool_init_return(c) \/ bsem_post_all(c)
      PROVE  WaitInv'
  BY <1>9, <1>t, <1>f, ZenonT(30) DEF thpool_init_return, bsem_post_all, Return, clientVars,
     history, Waiting
<1>10. ASSUME NEW c \in Clients, NEW p \in Pools,
              \/ thpool_init(c, p) \/ thpool_destroy(c, p)
              \/ \E j \in Jobs : thpool_add_work(c, p, j)
       PROVE  WaitInv'
  BY <1>10, <1>t, <1>f DEF thpool_init, thpool_destroy, thpool_add_work, Enter,
     poolVars, history, Waiting
<1> QED
  BY <1>2, <1>3, <1>4, <1>5, <1>6, <1>7, <1>8, <1>9, <1>10, ZenonT(30)
  DEF Next, CallStep, StartCall, Quiet

LEMMA OnlyWaitReturns ==
  ASSUME Typed, [Next]_vars, NEW d \in Clients,
         cpc[d] = "waitwork", cpc'[d] = "idle"
  PROVE  thpool_wait_working(d)
<1>t. cpc \in [Clients -> ClientPcs]
  BY DEF Typed, TypeOK
<1>1. ASSUME NEW w \in Workers, ThreadStep(w) PROVE FALSE
  BY <1>1, ThreadFrame
<1>2. ~Quiet
  BY QuietFrame
<1>3. ASSUME NEW c \in Clients,
             \/ thpool_init_return(c) \/ jobqueue_push(c) \/ bsem_post_all(c)
             \/ thpool_destroy_free(c) \/ thpool_wait_lock(c)
             \/ thpool_wait_len(c) \/ spurious_wakeup(c)
      PROVE  FALSE
  BY <1>3, <1>t, Zenon DEF thpool_init_return, jobqueue_push, bsem_post_all,
     thpool_destroy_free, thpool_wait_lock, thpool_wait_len, spurious_wakeup,
     Free, Sleep, Return, clientVars
<1>4. ASSUME NEW c \in Clients, NEW p \in Pools,
             \/ thpool_init(c, p) \/ thpool_wait(c, p) \/ thpool_destroy(c, p)
             \/ \E j \in Jobs : thpool_add_work(c, p, j)
      PROVE  FALSE
  BY <1>4, <1>t, Zenon DEF thpool_init, thpool_wait, thpool_destroy, thpool_add_work,
     Enter
<1>5. ASSUME NEW c \in Clients, thpool_wait_working(c)
      PROVE  c = d
  BY <1>5, <1>t, Zenon DEF thpool_wait_working, Sleep, Return
<1> QED
  BY <1>1, <1>2, <1>3, <1>4, <1>5, Zenon DEF Next, CallStep, StartCall, Quiet

-----------------------------------------------------------------------------
(* All layers together.                                                      *)

\* TypeOK, the type invariant of the run: in particular the two counters of a
\* pool, decremented in thread_do, never become negative.
THEOREM TypeCorrect == Spec => []TypeOK
<1>1. Spec => []TypeInv
  BY TypeInit, TypeStep, PTL DEF Spec
<1>2. TypeInv => TypeOK
  BY DEF TypeInv, Typed
<1> QED BY <1>1, <1>2, PTL

LEMMA PoolInvariant == Spec => [](TypeInv /\ CallInv /\ StageInv /\ JobInv /\ WakeInv /\ WaitInv)
<1> DEFINE Inv == TypeInv /\ CallInv /\ StageInv /\ JobInv /\ WakeInv /\ WaitInv
<1>1. Init => CallInv /\ StageInv
  BY PoolAssumption DEF Init, CallInv, StageInv
<1>2. Init => JobInv
  BY PoolAssumption DEF Init, JobInv, QueuedOnce, QueuedWaits, HeldOnce,
     AddedOnce, NotYetRun, JobsRunAtMostOnce, NoJobLost
<1>3. Init => WakeInv /\ WaitInv
  BY PoolAssumption DEF Init, WakeInv, KeepAlive, NoLostWakeup, WaitInv, Waiting
<1>4. Inv /\ [Next]_vars => Inv'
  <2> SUFFICES ASSUME Inv, [Next]_vars PROVE Inv'
    OBVIOUS
  <2>1. Typed /\ CountersMean
    BY CountersSay DEF TypeInv
  <2> QED BY <2>1, TypeStep, CallStepInv, StageStepInv, JobStep, WakeStep, WaitStep
<1> QED BY <1>1, <1>2, <1>3, <1>4, TypeInit, PTL DEF Spec

\* A started job is finished before the pool is freed: thpool_destroy returns
\* only after every worker of the pool has left its loop.
THEOREM DestroySafe == Spec => []DestroyAfterLoops
<1>1. StageInv => DestroyAfterLoops
  BY DEF StageInv, DestroyAfterLoops, WorkersOf
<1> QED BY <1>1, PoolInvariant, PTL

\* Whatever the interleaving of jobqueue_push, jobqueue_pull and the extra
\* semaphore posts, a job is run at most once ...
THEOREM RunsOnce == Spec => []JobsRunAtMostOnce
<1>1. JobInv => JobsRunAtMostOnce
  BY DEF JobInv
<1> QED BY <1>1, PoolInvariant, PTL

\* ... and never lost before thpool_destroy frees its pool.
THEOREM JobsKept == Spec => []NoJobLost
<1>1. JobInv => NoJobLost
  BY DEF JobInv
<1> QED BY <1>1, PoolInvariant, PTL

\* No wakeup is lost although pushes collapse into one value of the binary
\* semaphore: jobqueue_pull posts again for what it leaves behind.
THEOREM WakeupsKept == Spec => []NoLostWakeup
<1>1. WakeInv => NoLostWakeup
  BY DEF WakeInv
<1> QED BY <1>1, PoolInvariant, PTL

\* thpool_wait returns only after every job added before the call has been run.
THEOREM WaitIsComplete == Spec => WaitCoversEarlierJobs
<1> DEFINE Inv == TypeInv /\ CallInv /\ StageInv /\ JobInv /\ WaitInv
<1>1. Spec => []Inv
  BY PoolInvariant, PTL
<1>2. ASSUME Inv, [Next]_vars, NEW c \in Clients,
             cpc[c] = "waitwork", cpc'[c] = "idle", NEW j \in owed[c]
      PROVE  ran[j] = 1
  <2> DEFINE p == cpool[c]
  <2>1. num_threads_working[p] = 0
    BY <1>2, OnlyWaitReturns, Zenon DEF thpool_wait_working, Sleep, TypeInv, Typed, TypeOK
  <2>2. /\ j \in Jobs /\ p \in Pools /\ added[j] = p /\ ~Queued(p, j)
        /\ stage[p] # "freed"
    BY <1>2, ZenonT(30) DEF TypeInv, Typed, TypeOK, ClientsOK, WaitInv, Waiting, CallInv, StageDuring
  <2>3. \A w \in WorkersOf(p) : pc[w] \notin Counted
    BY <1>2, <2>1, <2>2, CountersSay, ZenonT(30) DEF CountersMean, WorkersOf
  <2>4. \A w \in WorkersOf(p) : job[w] # j
    BY <1>2, <2>2, <2>3, PoolAssumption, ZenonT(30) DEF StageInv, Counted, WorkersOf
  <2> QED BY <1>2, <2>2, <2>4 DEF JobInv, NoJobLost, HeldBy
<1>3. Inv /\ [Next]_vars =>
        [\A c \in Clients : cpc[c] = "waitwork" /\ cpc'[c] = "idle" =>
           \A j \in owed[c] : ran[j] = 1]_vars
  BY <1>2
<1> QED BY <1>1, <1>3, PTL DEF Spec, WaitCoversEarlierJobs
=============================================================================
