----------------------- MODULE SessionLifecycleProofs -----------------------
(***************************************************************************)
(* What SessionLifecycle keeps for every set of clients, apps and threads  *)
(* and any number of launches: types, the registry and the device queues.  *)
(***************************************************************************)
EXTENDS SessionLifecycle, TLAPS

\* The threads that are in the middle of something know for whom.
ThreadsInv ==
  /\ https.op # "idle" => https.client \in Client
  /\ https.op \in {"push", "swap"} => https.job \in Job
  /\ \A a \in Actor : stop[a].todo # {} => stop[a].client \in Client

\* Jobs are created in order, each inside a launch of its client that is not
\* younger.
JobsInv ==
  \A j \in Job : j <= njobs =>
    LET l == job[j].launch
    IN  /\ job[j].client \in Client
        /\ l \in Job /\ l <= j
        /\ IsLaunch(l) /\ job[l].client = job[j].client

\* A job that does not exist yet has done nothing.
FutureInv == \A j \in Job : pc[j] # "none" => j <= njobs

\* The registry has at most one record of a client, that of its latest launch;
\* so has a thread that is about to write one.
RegistryInv ==
  /\ \A c \in Client :
       running[c] = <<>> \/ \E j \in Job : running[c] = <<j>> /\ Latest(j, c)
  /\ https.op \in {"push", "swap"} => Latest(https.job, https.client)
  /\ https.op = "push" => running[https.client] = <<>>

\* A stored queue is that of the latest launch, and what a runner drains was
\* that when it started.
QueueInv ==
  /\ \A c \in Client : queue[c] # 0 => Latest(queue[c], c)
  /\ \A j \in Job : drain[j] # 0 =>
       /\ j <= njobs /\ drain[j] <= njobs
       /\ job[drain[j]].client = job[j].client
       /\ job[j].launch <= drain[j]

LifecycleInv == TypeOK /\ ThreadsInv /\ JobsInv /\ FutureInv /\ RegistryInv /\ QueueInv

-----------------------------------------------------------------------------
\* The invariant holds before the first request.
LEMMA InitInv == Init => LifecycleInv
BY SessionAssumption
   DEF Init, LifecycleInv, TypeOK, ThreadsInv, JobsInv, FutureInv, RegistryInv,
       QueueInv, Job, Actor, JobRecord, NoJob, Idle, Phase, Handler, NoStop

\* A registry in which a client's sessions are removed is one.
LEMMA EmptyRegistry ==
  ASSUME NEW old \in [Client -> Seq(Job)], NEW c
  PROVE  [old EXCEPT ![c] = <<>>] \in [Client -> Seq(Job)]
<1>1. <<>> \in Seq(Job)
  OBVIOUS
<1>2. QED
  BY <1>1

\* Every step leaves the variables in their types.
LEMMA TypeStep == LifecycleInv /\ [Next]_vars => TypeOK'
<1> SUFFICES ASSUME TypeOK, ThreadsInv, JobsInv, FutureInv, [Next]_vars PROVE TypeOK'
  BY DEF LifecycleInv
<1> USE SessionAssumption DEF Job, Actor, Handler
<1>1. ASSUME NEW c \in Client, NEW a \in App, LaunchFire(c, a) PROVE TypeOK'
  <2>1. /\ njobs + 1 \in Job /\ njobs' = njobs + 1
        /\ job' = [job EXCEPT ![njobs + 1] =
                     [client |-> c, app |-> a, launch |-> njobs + 1, stops |-> TRUE]]
        /\ queue' = [queue EXCEPT ![c] = njobs + 1]
        /\ https' = [op |-> "push", client |-> c, job |-> njobs + 1]
        /\ UNCHANGED <<running, live, drain, stop>>
    <3>1. njobs \in 0..MaxJobs /\ njobs < MaxJobs
      BY <1>1 DEF LaunchFire, NewJob, TypeOK
    <3>2. njobs + 1 \in Job
      BY <3>1
    <3>3. QED
      BY <1>1, <3>2 DEF LaunchFire, NewJob, StreamSessionHandler
  <2>2. producer' \in [Job -> {"none", "starting", "playing", "over"}] /\ pc' \in [Job -> Phase]
    <3>1. \/ /\ producer' = [producer EXCEPT ![njobs + 1] = "starting"]
             /\ pc' = [pc EXCEPT ![njobs + 1] = "await"]
          \/ producer' = producer /\ pc' = [pc EXCEPT ![njobs + 1] = "start"]
      BY <1>1 DEF LaunchFire, StreamSessionHandler, Goto
    <3>2. producer \in [Job -> {"none", "starting", "playing", "over"}] /\ pc \in [Job -> Phase]
      BY DEF TypeOK
    <3>3. "await" \in Phase /\ "start" \in Phase
      BY DEF Phase
    <3>4. QED
      BY <2>1, <3>1, <3>2, <3>3
  <2>3. job' \in [Job -> JobRecord]
    BY <2>1 DEF TypeOK, JobRecord
  <2>4. QED
    BY <2>1, <2>2, <2>3 DEF TypeOK
<1>2. ASSUME NEW c \in Client, ResumeLoad(c) PROVE TypeOK'
  <2>1. Head(running[c]) \in Job
    BY <1>2 DEF ResumeLoad, TypeOK
  <2>2. QED
    BY <1>2, <2>1 DEF ResumeLoad, TypeOK
<1>3. ASSUME NEW c \in Client, CancelFire(c) PROVE TypeOK'
  BY <1>3 DEF CancelFire, StopOf, TypeOK
<1>4. CASE LaunchPush
  <2>1. running' \in [Client -> Seq(Job)]
    BY <1>4 DEF LaunchPush, TypeOK, ThreadsInv
  <2>2. QED
    BY <1>4, <2>1 DEF LaunchPush, Idle, TypeOK
<1>5. CASE ResumeSwap
  <2>1. running' \in [Client -> Seq(Job)]
    BY <1>5 DEF ResumeSwap, TypeOK, ThreadsInv
  <2>2. QED
    BY <1>5, <2>1 DEF ResumeSwap, Idle, TypeOK
<1>6. CASE CancelRemove
  <2>1. running' \in [Client -> Seq(Job)]
    BY <1>6, EmptyRegistry DEF CancelRemove, TypeOK
  <2>2. QED
    BY <1>6, <2>1 DEF CancelRemove, Idle, TypeOK
<1>7. ASSUME NEW a \in Actor, StopStep(a) PROVE TypeOK'
  <2>1. ASSUME NEW h \in Handler, Done(a, h)
        PROVE  stop' \in [Actor -> [client : Client \cup {None}, todo : SUBSET Handler]]
    <3>1. [stop[a] EXCEPT !.todo = stop[a].todo \ {h}]
            \in [client : Client \cup {None}, todo : SUBSET Handler]
      <4>1. stop[a] \in [client : Client \cup {None}, todo : SUBSET Handler]
        BY DEF TypeOK
      <4>2. stop[a].todo \ {h} \in SUBSET Handler
        BY <4>1
      <4>3. QED
        BY <4>1, <4>2
    <3>2. QED
      BY <2>1, <3>1 DEF Done, NoStop, TypeOK
  <2>2. CASE StopSession(a)
    <3>1. running' \in [Client -> Seq(Job)]
      BY <2>2, EmptyRegistry DEF StopSession, TypeOK
    <3>2. QED
      BY <2>1, <2>2, <3>1 DEF StopSession, threads, TypeOK
  <2>3. CASE StopQueue(a)
    <3>1. queue' \in [Client -> 0..MaxJobs]
      <4>1. queue' = [queue EXCEPT ![stop[a].client] = 0]
        BY <2>3 DEF StopQueue
      <4>2. 0 \in 0..MaxJobs
        BY SessionAssumption
      <4>3. QED
        BY <4>1, <4>2 DEF TypeOK
    <3>2. QED
      BY <2>1, <2>3, <3>1 DEF StopQueue, threads, TypeOK
  <2>4. CASE StopTeardown(a)
    BY <2>1, <2>4 DEF StopTeardown, TypeOK
  <2>5. QED
    BY <1>7, <2>2, <2>3, <2>4 DEF StopStep
<1>8. ASSUME NEW t \in ApiThread, NEW c \in Client, ApiStop(t, c) PROVE TypeOK'
  BY <1>8 DEF ApiStop, StopOf, threads, TypeOK
<1>9. ASSUME NEW c \in Client, NEW a \in App, NEW stops \in BOOLEAN,
             ApiRunnerStart(c, a, stops)
      PROVE TypeOK'
  <2>1. Head(running[c]) \in Job
    BY <1>9 DEF ApiRunnerStart, TypeOK
  <2>2. njobs + 1 \in Job
    <3>1. njobs \in 0..MaxJobs /\ njobs < MaxJobs
      BY <1>9 DEF ApiRunnerStart, NewJob, TypeOK
    <3>2. QED
      BY <3>1
  <2>3. job' \in [Job -> JobRecord]
    BY <1>9, <2>1, <2>2 DEF ApiRunnerStart, NewJob, TypeOK, JobRecord
  <2>4. pc' \in [Job -> Phase]
    BY <1>9, <2>2 DEF ApiRunnerStart, Goto, TypeOK, Phase
  <2>5. njobs' \in 0..MaxJobs /\ UNCHANGED <<running, queue, https, producer, live, drain, stop>>
    BY <1>9, <2>2 DEF ApiRunnerStart, NewJob
  <2>6. QED
    BY <2>3, <2>4, <2>5 DEF TypeOK
<1>10. ASSUME NEW j \in Job, JobStep(j) PROVE TypeOK'
  <2>1. job[j].client \in Client \cup {None}
    BY DEF TypeOK, JobRecord
  <2>2. CASE StartRunner(j)
    <3>1. queue[job[j].client] \in 0..MaxJobs
      <4>1. j <= njobs
        BY <2>2 DEF StartRunner, FutureInv
      <4>2. job[j].client \in Client
        BY <4>1 DEF JobsInv
      <4>3. QED
        BY <4>2 DEF TypeOK
    <3>2. QED
      BY <2>2, <3>1 DEF StartRunner, Goto, TypeOK, Phase
  <2>3. CASE RunnerOver(j)
    <3>1. CASE job[j].stops
      <4>1. /\ pc' = [pc EXCEPT ![j] = "stopping"]
            /\ stop' = [stop EXCEPT ![j] = StopOf(job[j].client)]
            /\ UNCHANGED <<running, queue, https, njobs, job, producer, live, drain>>
        BY <2>3, <3>1 DEF RunnerOver, Goto
      <4>2. QED
        BY <2>1, <4>1 DEF StopOf, TypeOK, Phase
    <3>2. CASE ~job[j].stops
      BY <2>3, <3>2 DEF RunnerOver, Goto, TypeOK, Phase
    <3>3. QED
      BY <3>1, <3>2
  <2>4. CASE SocketTimeout(j)
    BY <2>1, <2>4 DEF SocketTimeout, Goto, StopOf, TypeOK, Phase
  <2>5. CASE CreateContainer(j)
    BY <2>5 DEF CreateContainer, Goto, TypeOK, Phase
  <2>6. CASE \/ PromiseBroken(j) \/ RegisterTerminate(j) \/ RunnerLoopExits(j)
             \/ StopFired(j) \/ SocketReady(j) \/ CreateFails(j)
    BY <2>6 DEF PromiseBroken, RegisterTerminate, RunnerLoopExits, StopFired,
       SocketReady, CreateFails, Goto, TypeOK, Phase
  <2>7. QED
    BY <1>10, <2>2, <2>3, <2>4, <2>5, <2>6 DEF JobStep
<1>11. ASSUME NEW j \in Job, Outside(j) PROVE TypeOK'
  BY <1>11 DEF Outside, ProducerPlays, ProducerFails, DisplayReady, ContainerExits,
     Goto, TypeOK, Phase
<1>12. CASE UNCHANGED vars
  BY <1>12 DEF vars, TypeOK
<1>13. QED
  BY <1>1, <1>2, <1>3, <1>4, <1>5, <1>6, <1>7, <1>8, <1>9, <1>10, <1>11, <1>12
     DEF Next, HttpsStep

\* Every step keeps the threads' records of whom they act for.
LEMMA ThreadsStep == LifecycleInv /\ [Next]_vars => ThreadsInv'
<1> SUFFICES ASSUME TypeOK, ThreadsInv, JobsInv, FutureInv, [Next]_vars PROVE ThreadsInv'
  BY DEF LifecycleInv
<1> USE SessionAssumption DEF Actor
<1>1. ASSUME NEW c \in Client, NEW a \in App, LaunchFire(c, a) PROVE ThreadsInv'
  BY <1>1 DEF LaunchFire, NewJob, TypeOK, ThreadsInv, Job
<1>2. ASSUME NEW c \in Client, ResumeLoad(c) PROVE ThreadsInv'
  BY <1>2 DEF ResumeLoad, TypeOK, ThreadsInv
<1>3. ASSUME NEW c \in Client, CancelFire(c) PROVE ThreadsInv'
  BY <1>3 DEF CancelFire, StopOf, TypeOK, ThreadsInv
<1>4. CASE HttpsStep
  BY <1>4 DEF HttpsStep, LaunchPush, ResumeSwap, CancelRemove, Idle, ThreadsInv
<1>5. ASSUME NEW a \in Actor, StopStep(a) PROVE ThreadsInv'
  <2>1. ASSUME NEW h \in Handler, Done(a, h), h \in stop[a].todo
        PROVE  \A b \in Actor : stop'[b].todo # {} => stop'[b].client \in Client
    BY <2>1 DEF Done, NoStop, TypeOK, ThreadsInv
  <2>2. UNCHANGED https
    BY <1>5 DEF StopStep, StopSession, StopQueue, StopTeardown, threads
  <2>3. \E h \in Handler : Done(a, h) /\ h \in stop[a].todo
    BY <1>5 DEF StopStep, StopSession, StopQueue, StopTeardown, Handler
  <2>4. QED
    BY <2>1, <2>2, <2>3 DEF ThreadsInv
<1>6. ASSUME NEW t \in ApiThread, NEW c \in Client, ApiStop(t, c) PROVE ThreadsInv'
  BY <1>6 DEF ApiStop, StopOf, threads, TypeOK, ThreadsInv
<1>7. ASSUME NEW c \in Client, NEW a \in App, NEW stops \in BOOLEAN,
             ApiRunnerStart(c, a, stops)
      PROVE ThreadsInv'
  BY <1>7 DEF ApiRunnerStart, ThreadsInv
<1>8. ASSUME NEW j \in Job, JobStep(j) PROVE ThreadsInv'
  <2>1. UNCHANGED https
    BY <1>8 DEF JobStep, PromiseBroken, StartRunner, RegisterTerminate, RunnerLoopExits,
       RunnerOver, StopFired, SocketReady, SocketTimeout, CreateContainer, CreateFails
  <2>2. CASE UNCHANGED stop
    BY <2>1, <2>2 DEF ThreadsInv
  <2>3. CASE /\ pc[j] # "none"
             /\ stop' = [stop EXCEPT ![j] = StopOf(job[j].client)]
    <3>1. job[j].client \in Client
      BY <2>3 DEF FutureInv, JobsInv
    <3>2. QED
      BY <2>1, <2>3, <3>1 DEF StopOf, TypeOK, ThreadsInv
  <2>4. CASE RunnerOver(j)
    BY <2>2, <2>3, <2>4 DEF RunnerOver
  <2>5. CASE SocketTimeout(j)
    BY <2>3, <2>5 DEF SocketTimeout
  <2>6. QED
    BY <1>8, <2>2, <2>4, <2>5 DEF JobStep, PromiseBroken, StartRunner, RegisterTerminate,
       RunnerLoopExits, StopFired, SocketReady, CreateContainer, CreateFails
<1>9. ASSUME NEW j \in Job, Outside(j) PROVE ThreadsInv'
  BY <1>9 DEF Outside, ProducerPlays, ProducerFails, DisplayReady, ContainerExits, ThreadsInv
<1>10. CASE UNCHANGED vars
  BY <1>10 DEF vars, ThreadsInv
<1>11. QED
  BY <1>1, <1>2, <1>3, <1>4, <1>5, <1>6, <1>7, <1>8, <1>9, <1>10 DEF Next

-----------------------------------------------------------------------------
\* The steps that create no job.
Quiet ==
  \/ \E c \in Client : ResumeLoad(c) \/ CancelFire(c)
  \/ HttpsStep
  \/ \E a \in Actor : StopStep(a)
  \/ \E t \in ApiThread, c \in Client : ApiStop(t, c)
  \/ \E j \in Job : JobStep(j) \/ Outside(j)
  \/ UNCHANGED vars

\* Such a step creates no job and changes none.
LEMMA QuietKeepsJobs == Quiet => UNCHANGED <<njobs, job>>
BY DEF Quiet, ResumeLoad, CancelFire, HttpsStep, LaunchPush, ResumeSwap, CancelRemove,
   StopStep, StopSession, StopQueue, StopTeardown, ApiStop, threads, vars,
   JobStep, PromiseBroken, StartRunner, RegisterTerminate, RunnerLoopExits,
   RunnerOver, StopFired, SocketReady, SocketTimeout, CreateContainer, CreateFails,
   Outside, ProducerPlays, ProducerFails, DisplayReady, ContainerExits

\* The next job is one for client c inside launch l; no other changes.
AddsJob(c, l) ==
  /\ njobs \in Nat /\ njobs + 1 \in Job /\ njobs' = njobs + 1
  /\ job'[njobs + 1].client = c /\ job'[njobs + 1].launch = l
  /\ \A j \in Job : j # njobs + 1 => job'[j] = job[j] /\ pc'[j] = pc[j]

\* A launch is a new job inside itself.
LEMMA LaunchAddsJob ==
  ASSUME LifecycleInv, NEW c \in Client, NEW a \in App, LaunchFire(c, a)
  PROVE  AddsJob(c, njobs + 1)
<1>1. njobs \in Nat /\ njobs + 1 \in Job /\ njobs' = njobs + 1
  BY SessionAssumption DEF LaunchFire, NewJob, LifecycleInv, TypeOK, Job
<1>2. job' = [job EXCEPT ![njobs + 1] =
                [client |-> c, app |-> a, launch |-> njobs + 1, stops |-> TRUE]]
  BY DEF LaunchFire, NewJob
<1>3. \E phase \in Phase : pc' = [pc EXCEPT ![njobs + 1] = phase]
  BY DEF LaunchFire, StreamSessionHandler, Goto, Phase
<1>4. QED
  BY <1>1, <1>2, <1>3 DEF LifecycleInv, TypeOK, AddsJob

\* A runner started over the API is a new job inside the running launch.
LEMMA ApiAddsJob ==
  ASSUME LifecycleInv, NEW c \in Client, NEW a \in App, NEW stops \in BOOLEAN,
         ApiRunnerStart(c, a, stops)
  PROVE  \E l \in Job : Latest(l, c) /\ AddsJob(c, l)
<1>1. PICK l \in Job : running[c] = <<l>> /\ Latest(l, c)
  BY DEF ApiRunnerStart, LifecycleInv, RegistryInv
<1>2. Head(running[c]) = l
  BY <1>1
<1>3. njobs + 1 \in Job /\ njobs' = njobs + 1
  BY SessionAssumption DEF ApiRunnerStart, NewJob, LifecycleInv, TypeOK, Job
<1>4. /\ job' = [job EXCEPT ![njobs + 1] =
                   [client |-> c, app |-> a, launch |-> l, stops |-> stops]]
      /\ pc' = [pc EXCEPT ![njobs + 1] = "start"]
  BY <1>2 DEF ApiRunnerStart, NewJob, Goto
<1>5. AddsJob(c, l)
  BY <1>3, <1>4 DEF LifecycleInv, TypeOK, AddsJob
<1>6. QED
  BY <1>1, <1>5

\* Every step is quiet, a launch or the start of a runner over the API.
LEMMA StepKinds ==
  ASSUME [Next]_vars
  PROVE  \/ Quiet
         \/ \E c \in Client, a \in App : LaunchFire(c, a)
         \/ \E c \in Client, a \in App, stops \in BOOLEAN : ApiRunnerStart(c, a, stops)
BY DEF Next, Quiet

\* The latest launch of a client is that until the client launches again.
LEMMA LatestKept ==
  ASSUME LifecycleInv, [Next]_vars, NEW c \in Client, NEW l \in Job, Latest(l, c),
         ~ \E a \in App : LaunchFire(c, a)
  PROVE  Latest(l, c)'
<1>1. CASE Quiet
  BY <1>1, QuietKeepsJobs DEF Latest, IsLaunch
<1>2. ASSUME NEW d \in Client, NEW a \in App, LaunchFire(d, a) PROVE Latest(l, c)'
  <2>1. c # d
    BY <1>2
  <2>2. AddsJob(d, njobs + 1)
    BY <1>2, LaunchAddsJob
  <2>3. QED
    BY <2>1, <2>2 DEF AddsJob, Latest, IsLaunch, Job
<1>3. ASSUME NEW d \in Client, NEW a \in App, NEW stops \in BOOLEAN,
             ApiRunnerStart(d, a, stops)
      PROVE Latest(l, c)'
  <2>1. PICK m \in Job : Latest(m, d) /\ AddsJob(d, m)
    BY <1>3, ApiAddsJob
  <2>2. QED
    BY <2>1 DEF AddsJob, Latest, IsLaunch, Job
<1>4. QED
  BY <1>1, <1>2, <1>3, StepKinds

\* Every step keeps each job inside an older launch of its client.
LEMMA JobsStep == LifecycleInv /\ [Next]_vars => JobsInv'
<1> SUFFICES ASSUME LifecycleInv, [Next]_vars PROVE JobsInv'
  OBVIOUS
<1>1. CASE Quiet
  BY <1>1, QuietKeepsJobs DEF LifecycleInv, JobsInv, IsLaunch
<1>2. ASSUME NEW c \in Client, NEW a \in App, LaunchFire(c, a) PROVE JobsInv'
  <2>1. AddsJob(c, njobs + 1)
    BY <1>2, LaunchAddsJob
  <2>2. ASSUME NEW j \in Job, j <= njobs, j # njobs + 1,
               NEW l \in Job, l = job[j].launch, l <= j, l # njobs + 1
        PROVE  job'[j] = job[j] /\ job'[l] = job[l]
    BY <2>1, <2>2 DEF AddsJob
  <2>3. QED
    BY <1>2, <2>1, <2>2 DEF LifecycleInv, JobsInv, AddsJob, IsLaunch, Job
<1>3. ASSUME NEW c \in Client, NEW a \in App, NEW stops \in BOOLEAN,
             ApiRunnerStart(c, a, stops)
      PROVE JobsInv'
  <2>1. PICK m \in Job : Latest(m, c) /\ AddsJob(c, m)
    BY <1>3, ApiAddsJob
  <2>2. QED
    BY <2>1, <1>3 DEF LifecycleInv, JobsInv, AddsJob, Latest, IsLaunch, Job
<1>4. QED
  BY <1>1, <1>2, <1>3, StepKinds

\* Every step leaves the jobs to come alone.
LEMMA FutureStep == LifecycleInv /\ [Next]_vars => FutureInv'
<1> SUFFICES ASSUME LifecycleInv, [Next]_vars PROVE FutureInv'
  OBVIOUS
<1>1. CASE Quiet
  <2>1. ASSUME NEW j \in Job, JobStep(j) \/ Outside(j) PROVE FutureInv'
    <3>1. pc[j] # "none" \/ UNCHANGED pc
      BY <2>1 DEF JobStep, PromiseBroken, StartRunner, RegisterTerminate, RunnerLoopExits,
         RunnerOver, StopFired, SocketReady, SocketTimeout, CreateContainer, CreateFails,
         Outside, ProducerPlays, ProducerFails, DisplayReady, ContainerExits
    <3>2. \A k \in Job : k # j => pc'[k] = pc[k]
      BY <2>1 DEF JobStep, PromiseBroken, StartRunner, RegisterTerminate, RunnerLoopExits,
         RunnerOver, StopFired, SocketReady, SocketTimeout, CreateContainer, CreateFails,
         Outside, ProducerPlays, ProducerFails, DisplayReady, ContainerExits, Goto,
         LifecycleInv, TypeOK
    <3>3. QED
      BY <1>1, <3>1, <3>2, QuietKeepsJobs DEF LifecycleInv, FutureInv
  <2>2. CASE UNCHANGED pc
    BY <1>1, <2>2, QuietKeepsJobs DEF LifecycleInv, FutureInv
  <2>3. QED
    BY <1>1, <2>1, <2>2
       DEF Quiet, ResumeLoad, CancelFire, HttpsStep, LaunchPush, ResumeSwap, CancelRemove,
           StopStep, StopSession, StopQueue, StopTeardown, ApiStop, threads, vars
<1>2. ASSUME NEW c \in Client, NEW a \in App, LaunchFire(c, a) PROVE FutureInv'
  <2>1. AddsJob(c, njobs + 1)
    BY <1>2, LaunchAddsJob
  <2>2. QED
    BY <2>1 DEF AddsJob, LifecycleInv, FutureInv, Job
<1>3. ASSUME NEW c \in Client, NEW a \in App, NEW stops \in BOOLEAN,
             ApiRunnerStart(c, a, stops)
      PROVE FutureInv'
  <2>1. PICK m \in Job : Latest(m, c) /\ AddsJob(c, m)
    BY <1>3, ApiAddsJob
  <2>2. QED
    BY <2>1 DEF AddsJob, LifecycleInv, FutureInv, Job
<1>4. QED
  BY <1>1, <1>2, <1>3, StepKinds

-----------------------------------------------------------------------------
\* The registry keeps at most the record of the latest launch of a client.
LEMMA RegistryStep == LifecycleInv /\ [Next]_vars => RegistryInv'
<1> SUFFICES ASSUME LifecycleInv, [Next]_vars PROVE RegistryInv'
  OBVIOUS
<1> DEFINE Registered(c, l) == running[c] = <<l>> /\ Latest(l, c)
<1>1. \A c \in Client : running[c] = <<>> \/ \E l \in Job : Registered(c, l)
  BY DEF LifecycleInv, RegistryInv
<1>2. ASSUME NEW c \in Client, NEW a \in App, LaunchFire(c, a) PROVE RegistryInv'
  <2>1. /\ running' = running /\ running[c] = <<>> /\ https.op = "idle"
        /\ https' = [op |-> "push", client |-> c, job |-> njobs + 1]
    BY <1>2 DEF LaunchFire, Idle
  <2>2. AddsJob(c, njobs + 1)
    BY <1>2, LaunchAddsJob
  <2>3. (https.op \in {"push", "swap"} => Latest(https.job, https.client))'
    BY <2>1, <2>2 DEF AddsJob, Latest, IsLaunch, Job
  <2>4. ASSUME NEW d \in Client, running'[d] # <<>>
        PROVE  \E l \in Job : Registered(d, l)'
    <3>1. PICK l \in Job : Registered(d, l)
      BY <1>1, <2>1, <2>4
    <3>2. Latest(l, d)'
      <4>1. d # c
        BY <2>1, <2>4
      <4>2. QED
        BY <2>2, <3>1, <4>1 DEF AddsJob, Latest, IsLaunch, Job
    <3>3. QED
      BY <2>1, <3>1, <3>2
  <2>5. QED
    BY <2>1, <2>3, <2>4 DEF RegistryInv
<1>3. ASSUME ~ \E c \in Client, a \in App : LaunchFire(c, a) PROVE RegistryInv'
  <2>1. \A c \in Client, l \in Job : Latest(l, c) => Latest(l, c)'
    BY <1>3, LatestKept
  <2>2. ASSUME NEW c \in Client, running'[c] = running[c]
        PROVE  running'[c] = <<>> \/ \E l \in Job : Registered(c, l)'
    BY <1>1, <2>1, <2>2
  <2>3. CASE UNCHANGED <<running, https>>
    BY <1>1, <2>1, <2>3 DEF RegistryInv, LifecycleInv, ThreadsInv
  <2>4. ASSUME NEW c \in Client, ResumeLoad(c) PROVE RegistryInv'
    <3>1. /\ running' = running /\ running[c] # <<>>
          /\ https' = [op |-> "swap", client |-> c, job |-> Head(running[c])]
      BY <2>4 DEF ResumeLoad
    <3>2. PICK l \in Job : Registered(c, l)
      BY <1>1, <3>1
    <3>3. Head(running[c]) = l
      BY <3>2
    <3>4. QED
      BY <1>1, <2>1, <3>1, <3>2, <3>3 DEF RegistryInv
  <2>5. ASSUME NEW c \in Client, CancelFire(c) PROVE RegistryInv'
    <3>1. running' = running /\ https'.op = "cancel"
      BY <2>5 DEF CancelFire
    <3>2. QED
      BY <1>1, <2>1, <3>1 DEF RegistryInv
  <2>6. CASE LaunchPush \/ ResumeSwap
    <3>1. PICK c \in Client, l \in Job :
            https.client = c /\ https.job = l /\ Latest(l, c)
      BY <2>6 DEF LaunchPush, ResumeSwap, LifecycleInv, ThreadsInv, RegistryInv
    <3>2. running' = [running EXCEPT ![c] = <<l>>]
      <4>1. CASE LaunchPush
        <5>1. running[c] = <<>> /\ running' = [running EXCEPT ![c] = Append(running[c], l)]
          BY <3>1, <4>1 DEF LaunchPush, LifecycleInv, RegistryInv, TypeOK
        <5>2. Append(<<>>, l) = <<l>>
          OBVIOUS
        <5>3. QED
          BY <5>1, <5>2
      <4>2. CASE ResumeSwap
        BY <3>1, <4>2 DEF ResumeSwap
      <4>3. QED
        BY <2>6, <4>1, <4>2
    <3>3. https'.op = "idle"
      BY <2>6 DEF LaunchPush, ResumeSwap, Idle
    <3>4. \A d \in Client : running'[d] = <<>> \/ \E k \in Job : Registered(d, k)'
      <4>1. Registered(c, l)'
        BY <2>1, <3>1, <3>2 DEF LifecycleInv, TypeOK
      <4>2. \A d \in Client : d # c => running'[d] = running[d]
        BY <3>2 DEF LifecycleInv, TypeOK
      <4>3. QED
        BY <2>2, <4>1, <4>2
    <3>5. QED
      BY <3>3, <3>4 DEF RegistryInv
  <2>7. ASSUME NEW c \in Client, running' = [running EXCEPT ![c] = <<>>],
               https' = https \/ https'.op = "idle"
        PROVE  RegistryInv'
    <3>1. \A d \in Client : running'[d] = IF d = c THEN <<>> ELSE running[d]
      BY <2>7 DEF LifecycleInv, TypeOK
    <3>2. \A d \in Client : running'[d] = <<>> \/ \E l \in Job : Registered(d, l)'
      BY <2>2, <3>1
    <3>3. (https.op \in {"push", "swap"} => Latest(https.job, https.client))'
      <4>1. CASE https' = https
        BY <2>1, <4>1 DEF LifecycleInv, RegistryInv, ThreadsInv
      <4>2. QED
        BY <2>7, <4>1
    <3>4. https'.op = "push" => running'[https'.client] = <<>>
      BY <2>7, <3>1 DEF LifecycleInv, RegistryInv, ThreadsInv
    <3>5. QED
      BY <3>2, <3>3, <3>4 DEF RegistryInv
  <2>8. CASE CancelRemove
    BY <2>7, <2>8 DEF CancelRemove, Idle, LifecycleInv, ThreadsInv
  <2>9. ASSUME NEW a \in Actor, StopStep(a) PROVE RegistryInv'
    <3>1. CASE StopSession(a)
      BY <2>7, <2>9, <3>1 DEF StopSession, threads, LifecycleInv, ThreadsInv
    <3>2. CASE StopQueue(a) \/ StopTeardown(a)
      BY <2>3, <3>2 DEF StopQueue, StopTeardown, threads
    <3>3. QED
      BY <2>9, <3>1, <3>2 DEF StopStep
  <2>10. ASSUME NEW t \in ApiThread, NEW c \in Client, ApiStop(t, c) PROVE RegistryInv'
    BY <2>3, <2>10 DEF ApiStop, threads
  <2>11. ASSUME NEW c \in Client, NEW a \in App, NEW stops \in BOOLEAN,
                ApiRunnerStart(c, a, stops)
         PROVE RegistryInv'
    BY <2>3, <2>11 DEF ApiRunnerStart
  <2>12. ASSUME NEW j \in Job, JobStep(j) \/ Outside(j) PROVE RegistryInv'
    BY <2>3, <2>12
       DEF JobStep, PromiseBroken, StartRunner, RegisterTerminate, RunnerLoopExits,
           RunnerOver, StopFired, SocketReady, SocketTimeout, CreateContainer, CreateFails,
           Outside, ProducerPlays, ProducerFails, DisplayReady, ContainerExits
  <2>13. CASE UNCHANGED vars
    BY <2>3, <2>13 DEF vars
  <2>14. QED
    BY <1>3, <2>4, <2>5, <2>6, <2>8, <2>9, <2>10, <2>11, <2>12, <2>13 DEF Next, HttpsStep
<1>4. QED
  BY <1>2, <1>3

-----------------------------------------------------------------------------
\* The devices runner j drains are those of its client, from its launch or a
\* later one.
DrainOK(j) ==
  drain[j] # 0 =>
    /\ j <= njobs /\ drain[j] <= njobs
    /\ job[drain[j]].client = job[j].client
    /\ job[j].launch <= drain[j]

\* What a runner drains stays what it was.
LEMMA DrainKept ==
  ASSUME LifecycleInv, [Next]_vars, NEW j \in Job, drain'[j] = drain[j]
  PROVE  DrainOK(j)'
<1>1. DrainOK(j) /\ (drain[j] # 0 => drain[j] \in Job)
  BY SessionAssumption DEF LifecycleInv, QueueInv, TypeOK, DrainOK, Job
<1>2. ASSUME NEW c, NEW l, AddsJob(c, l) PROVE DrainOK(j)'
  <2>1. ASSUME NEW k \in Job, k <= njobs PROVE job'[k] = job[k]
    BY <1>2, <2>1 DEF AddsJob, Job
  <2>2. njobs' = njobs + 1 /\ njobs \in Nat
    BY <1>2 DEF AddsJob
  <2>3. QED
    BY <1>1, <2>1, <2>2 DEF DrainOK, Job
<1>3. CASE Quiet
  BY <1>1, <1>3, QuietKeepsJobs DEF DrainOK
<1>4. QED
  BY <1>2, <1>3, StepKinds, LaunchAddsJob, ApiAddsJob

\* A stored queue stays that of the latest launch of its client, and no runner
\* gets the devices of an earlier launch.
LEMMA QueueStep == LifecycleInv /\ [Next]_vars => QueueInv'
<1> SUFFICES ASSUME LifecycleInv, [Next]_vars PROVE QueueInv'
  OBVIOUS
<1>1. \A c \in Client : queue[c] # 0 => Latest(queue[c], c) /\ queue[c] \in Job
  BY SessionAssumption DEF LifecycleInv, QueueInv, TypeOK, Job
<1>2. ASSUME NEW c \in Client, NEW a \in App, LaunchFire(c, a) PROVE QueueInv'
  <2>1. queue' = [queue EXCEPT ![c] = njobs + 1] /\ drain' = drain
    BY <1>2 DEF LaunchFire, StreamSessionHandler
  <2>2. AddsJob(c, njobs + 1)
    BY <1>2, LaunchAddsJob
  <2>3. ASSUME NEW d \in Client, queue'[d] # 0 PROVE Latest(queue[d], d)'
    <3>1. CASE d = c
      <4>1. queue'[d] = njobs + 1
        BY <2>1, <3>1 DEF LifecycleInv, TypeOK
      <4>2. QED
        BY <2>2, <3>1, <4>1 DEF AddsJob, Latest, IsLaunch, Job
    <3>2. CASE d # c
      <4>1. queue'[d] = queue[d]
        BY <2>1, <3>2 DEF LifecycleInv, TypeOK
      <4>2. QED
        BY <1>1, <2>2, <2>3, <3>2, <4>1 DEF AddsJob, Latest, IsLaunch, Job
    <3>3. QED
      BY <3>1, <3>2
  <2>4. \A j \in Job : DrainOK(j)'
    BY <2>1, DrainKept
  <2>5. QED
    BY <2>3, <2>4 DEF QueueInv, DrainOK
<1>3. ASSUME ~ \E c \in Client, a \in App : LaunchFire(c, a) PROVE QueueInv'
  <2>1. \A c \in Client, l \in Job : Latest(l, c) => Latest(l, c)'
    BY <1>3, LatestKept
  <2>2. \A c \in Client : queue'[c] \in {0, queue[c]}
    <3>1. UNCHANGED queue \/ \E a \in Actor : StopQueue(a)
      BY <1>3
         DEF Next, vars, ResumeLoad, CancelFire, HttpsStep, LaunchPush, ResumeSwap,
             CancelRemove, StopStep, StopSession, StopTeardown, ApiStop, threads,
             ApiRunnerStart, JobStep, PromiseBroken, StartRunner, RegisterTerminate,
             RunnerLoopExits, RunnerOver, StopFired, SocketReady, SocketTimeout,
             CreateContainer, CreateFails, Outside, ProducerPlays, ProducerFails,
             DisplayReady, ContainerExits
    <3>2. ASSUME NEW a \in Actor, StopQueue(a)
          PROVE  queue' = [queue EXCEPT ![stop[a].client] = 0]
      BY <3>2 DEF StopQueue
    <3>3. QED
      BY <3>1, <3>2 DEF LifecycleInv, TypeOK
  <2>3. ASSUME NEW c \in Client, queue'[c] # 0 PROVE Latest(queue[c], c)'
    BY <1>1, <2>1, <2>2, <2>3
  <2>4. ASSUME NEW j \in Job, StartRunner(j) PROVE \A k \in Job : DrainOK(k)'
    <3>1. /\ pc[j] = "start"
          /\ drain' = [drain EXCEPT ![j] = queue[job[j].client]]
          /\ UNCHANGED <<njobs, job>>
      BY <2>4 DEF StartRunner
    <3>2. j <= njobs /\ job[j].client \in Client
      BY <3>1 DEF LifecycleInv, FutureInv, JobsInv
    <3>3. DrainOK(j)'
      <4>1. PICK q \in 0..MaxJobs : q = queue[job[j].client] /\ drain'[j] = q
        BY <3>1, <3>2 DEF LifecycleInv, TypeOK
      <4>2. CASE q # 0
        <5>1. Latest(q, job[j].client) /\ q \in Job
          BY <1>1, <3>2, <4>1, <4>2
        <5>2. PICK l \in Job : l = job[j].launch /\ IsLaunch(l) /\ job[l].client = job[j].client
          BY <3>2 DEF LifecycleInv, JobsInv
        <5>3. l <= q /\ q <= njobs /\ job[q].client = job[j].client
          BY <5>1, <5>2 DEF Latest, IsLaunch
        <5>4. QED
          BY <3>1, <3>2, <4>1, <5>2, <5>3 DEF DrainOK
      <4>3. CASE q = 0
        BY <4>1, <4>3 DEF DrainOK
      <4>4. QED
        BY <4>2, <4>3
    <3>4. ASSUME NEW k \in Job, k # j PROVE DrainOK(k)'
      <4>1. drain'[k] = drain[k]
        BY <3>1, <3>4 DEF LifecycleInv, TypeOK
      <4>2. QED
        BY <4>1, DrainKept
    <3>5. QED
      BY <3>3, <3>4
  <2>5. UNCHANGED drain \/ \E j \in Job : StartRunner(j)
    BY <1>3
       DEF Next, vars, ResumeLoad, CancelFire, HttpsStep, LaunchPush, ResumeSwap,
           CancelRemove, StopStep, StopSession, StopQueue, StopTeardown, ApiStop, threads,
           ApiRunnerStart, JobStep, PromiseBroken, RegisterTerminate,
           RunnerLoopExits, RunnerOver, StopFired, SocketReady, SocketTimeout,
           CreateContainer, CreateFails, Outside, ProducerPlays, ProducerFails,
           DisplayReady, ContainerExits
  <2>6. \A j \in Job : DrainOK(j)'
    BY <2>4, <2>5, DrainKept
  <2>7. QED
    BY <2>3, <2>6 DEF QueueInv, DrainOK
<1>4. QED
  BY <1>2, <1>3

-----------------------------------------------------------------------------
\* The invariant is inductive.
THEOREM Invariant == Spec => []LifecycleInv
<1>1. LifecycleInv /\ [Next]_vars => LifecycleInv'
  BY TypeStep, ThreadsStep, JobsStep, FutureStep, RegistryStep, QueueStep DEF LifecycleInv
<1>2. QED
  BY InitInv, <1>1, PTL DEF Spec

\* Every variable stays in its type, however the threads interleave.
THEOREM TypeCorrect == Spec => []TypeOK
<1>1. LifecycleInv => TypeOK
  BY DEF LifecycleInv
<1>2. QED
  BY Invariant, <1>1, PTL

\* launch() can trust running_sessions: it never holds two records of a client
\* nor one of a launch that a later one has superseded.
THEOREM RegistryCorrect == Spec => []RegistryHoldsLatestLaunch
<1>1. LifecycleInv => RegistryHoldsLatestLaunch
  <2>1. ASSUME NEW c \in Client, NEW l \in Job, running[c] = <<l>>
        PROVE  Len(running[c]) = 1 /\ running[c][1] = l
    BY <2>1
  <2>2. QED
    BY <2>1 DEF LifecycleInv, RegistryInv, RegistryHoldsLatestLaunch
<1>2. QED
  BY Invariant, <1>1, PTL

\* No runner is ever handed devices that were plugged for an earlier launch.
THEOREM DevicesCorrect == Spec => []StaleQueueNeverDrained
<1>1. LifecycleInv => StaleQueueNeverDrained
  BY DEF LifecycleInv, QueueInv, StaleQueueNeverDrained
<1>2. QED
  BY Invariant, <1>1, PTL
=============================================================================
