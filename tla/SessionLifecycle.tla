-------------------------- MODULE SessionLifecycle --------------------------
(***************************************************************************)
(* The life of a Moonlight stream session: launch, resume and cancel on    *)
(* the HTTPS thread, the StreamSession, StartRunner and StopStream         *)
(* handlers, the producer thread, the continuation that waits for the      *)
(* Wayland display, the runner thread with its container, and stops that   *)
(* arrive from the API threads.                                            *)
(*                                                                         *)
(* Every session of a client has the same id (a hash of the certificate),  *)
(* so whatever outlives a stop acts on the next session of that client.    *)
(* A "job" is one runner-to-be: a launch, or a runner started over the API *)
(* inside the session of a launch.                                         *)
(***************************************************************************)
EXTENDS Integers, Sequences, FiniteSets

CONSTANTS Client,         \* paired clients, one session id each
          App,            \* apps (a container is named after app and session)
          CompositorApp,  \* the apps with start_virtual_compositor
          Https,          \* the one thread of the HTTPS server
          ApiThread,      \* API pool threads, and main's at shutdown
          MaxJobs,        \* bound: launches and API runners of a behaviour
          None            \* no client, no app

Job == 1..MaxJobs
Actor == {Https} \cup ApiThread \cup Job

\* Client, App and the actors are distinct kinds of things.
ASSUME SessionAssumption ==
  /\ MaxJobs \in Nat
  /\ CompositorApp \subseteq App
  /\ None \notin Client \cup App
  /\ Https \notin ApiThread \cup Job
  /\ ApiThread \cap Job = {}

VARIABLES
  running,   \* running_sessions: per client, the launches of its records
  queue,     \* plugged_devices_queue: the launch whose queue is stored, or 0
  https,     \* what the HTTPS thread is in the middle of
  njobs,     \* jobs created so far
  job,       \* what each job runs, for whom, inside which launch
  pc,        \* where the continuation / runner thread of a job is
  producer,  \* the video producer pipeline of each launch
  live,      \* jobs whose container (or process) is running
  drain,     \* the queue the runner of a job pops devices from, or 0
  stop       \* StopStream events being fired, and the handlers still to run

vars == <<running, queue, https, njobs, job, pc, producer, live, drain, stop>>
threads == <<https, njobs, job, pc, producer, live, drain>>

Phase == {"none", "await", "socket", "start", "create", "started", "running",
          "ended", "stopping", "over"}
JobRecord == [client : Client \cup {None}, app : App \cup {None},
              launch : 0..MaxJobs, stops : BOOLEAN]
NoJob == [client |-> None, app |-> None, launch |-> 0, stops |-> FALSE]
Idle == [op |-> "idle", client |-> None, job |-> 0]

\* The handlers of one StopStream event: the session leaves the registry, its
\* device queue is erased, and pipelines and runners that have registered a
\* handler are stopped.
Handler == {"session", "queue", "teardown"}
NoStop == [client |-> None, todo |-> {}]
StopOf(c) == [client |-> c, todo |-> Handler]

TypeOK ==
  /\ running \in [Client -> Seq(Job)]
  /\ queue \in [Client -> 0..MaxJobs]
  /\ https \in [op : {"idle", "push", "swap", "cancel"},
                client : Client \cup {None}, job : 0..MaxJobs]
  /\ njobs \in 0..MaxJobs
  /\ job \in [Job -> JobRecord]
  /\ pc \in [Job -> Phase]
  /\ producer \in [Job -> {"none", "starting", "playing", "over"}]
  /\ live \in SUBSET Job
  /\ drain \in [Job -> 0..MaxJobs]
  /\ stop \in [Actor -> [client : Client \cup {None}, todo : SUBSET Handler]]

Init ==
  /\ running = [c \in Client |-> <<>>]
  /\ queue = [c \in Client |-> 0]
  /\ https = Idle
  /\ njobs = 0
  /\ job = [j \in Job |-> NoJob]
  /\ pc = [j \in Job |-> "none"]
  /\ producer = [j \in Job |-> "none"]
  /\ live = {}
  /\ drain = [j \in Job |-> 0]
  /\ stop = [a \in Actor |-> NoStop]

Goto(j, phase) == pc' = [pc EXCEPT ![j] = phase]

-----------------------------------------------------------------------------
(* The HTTPS thread. *)

\* Variant of StreamSessionHandler for mutation: it keeps a queue it finds.
StreamSessionHandlerKeepsQueue(j, c, a) ==
  /\ queue' = [queue EXCEPT ![c] = IF @ = 0 THEN j ELSE @]
  /\ producer' = [producer EXCEPT ![j] = "starting"]
  /\ Goto(j, "await")

\* The StreamSession handler: a fresh device queue, and a producer thread for
\* an app with a compositor; without one the promise is fulfilled at once and
\* the continuation goes straight to the runner.
StreamSessionHandler(j, c, a) ==
  /\ queue' = [queue EXCEPT ![c] = j]
  /\ IF a \in CompositorApp
       THEN /\ producer' = [producer EXCEPT ![j] = "starting"]
            /\ Goto(j, "await")
       ELSE /\ UNCHANGED producer
            /\ Goto(j, "start")

NewJob(c, a, launch, stops) ==
  /\ njobs < MaxJobs
  /\ njobs' = njobs + 1
  /\ job' = [job EXCEPT ![njobs + 1] =
               [client |-> c, app |-> a, launch |-> launch, stops |-> stops]]

\* Variant of LaunchFire for mutation: no check for a running session.
LaunchFireUnchecked(c, a) ==
  /\ https = Idle
  /\ NewJob(c, a, njobs + 1, TRUE)
  /\ StreamSessionHandler(njobs + 1, c, a)
  /\ https' = [op |-> "push", client |-> c, job |-> njobs + 1]
  /\ UNCHANGED <<running, live, drain, stop>>

\* launch(): with no session of this client running, fire StreamSession ...
LaunchFire(c, a) ==
  /\ https = Idle
  /\ running[c] = <<>>
  /\ NewJob(c, a, njobs + 1, TRUE)
  /\ StreamSessionHandler(njobs + 1, c, a)
  /\ https' = [op |-> "push", client |-> c, job |-> njobs + 1]
  /\ UNCHANGED <<running, live, drain, stop>>

\* ... and only then add it to running_sessions.
LaunchPush ==
  /\ https.op = "push"
  /\ running' = [running EXCEPT ![https.client] = Append(@, https.job)]
  /\ https' = Idle
  /\ UNCHANGED <<queue, njobs, job, pc, producer, live, drain, stop>>

\* Variant of ResumeLoad for mutation: no check that a session was found.
ResumeLoadUnchecked(c) ==
  /\ https = Idle
  /\ https' = [op |-> "swap", client |-> c,
               job |-> IF running[c] = <<>> THEN 0 ELSE Head(running[c])]
  /\ UNCHANGED <<running, queue, njobs, job, pc, producer, live, drain, stop>>

\* resume() (and launch() of a client that has a session): load the session ...
ResumeLoad(c) ==
  /\ https = Idle
  /\ running[c] # <<>>
  /\ https' = [op |-> "swap", client |-> c, job |-> Head(running[c])]
  /\ UNCHANGED <<running, queue, njobs, job, pc, producer, live, drain, stop>>

\* ... and replace every record of that id by one with new secrets that keeps
\* the display and the devices of the loaded one.
ResumeSwap ==
  /\ https.op = "swap"
  /\ running' = [running EXCEPT ![https.client] = <<https.job>>]
  /\ https' = Idle
  /\ UNCHANGED <<queue, njobs, job, pc, producer, live, drain, stop>>

\* cancel(): fire StopStream, run all its handlers, then remove the session.
CancelFire(c) ==
  /\ https = Idle
  /\ running[c] # <<>>
  /\ https' = [op |-> "cancel", client |-> c, job |-> 0]
  /\ stop' = [stop EXCEPT ![Https] = StopOf(c)]
  /\ UNCHANGED <<running, queue, njobs, job, pc, producer, live, drain>>

CancelRemove ==
  /\ https.op = "cancel"
  /\ stop[Https].todo = {}
  /\ running' = [running EXCEPT ![https.client] = <<>>]
  /\ https' = Idle
  /\ UNCHANGED <<queue, njobs, job, pc, producer, live, drain, stop>>

HttpsStep == LaunchPush \/ ResumeSwap \/ CancelRemove

-----------------------------------------------------------------------------
(* The handlers of a StopStream event, called one after the other on the    *)
(* thread that fires it. The bus fixes no order between the components'     *)
(* handlers; inside the moonlight handler the session goes first.           *)

Done(a, handler) ==
  LET rest == stop[a].todo \ {handler}
  IN  stop' = [stop EXCEPT ![a] = IF rest = {} THEN NoStop
                                  ELSE [@ EXCEPT !.todo = rest]]

StopSession(a) ==
  /\ "session" \in stop[a].todo
  /\ running' = [running EXCEPT ![stop[a].client] = <<>>]
  /\ Done(a, "session")
  /\ UNCHANGED <<queue, threads>>

StopQueue(a) ==
  /\ "queue" \in stop[a].todo
  /\ "session" \notin stop[a].todo
  /\ queue' = [queue EXCEPT ![stop[a].client] = 0]
  /\ Done(a, "queue")
  /\ UNCHANGED <<running, threads>>

\* Only runners that have registered a handler by now hear of the event.
HeardBy(c) == {j \in Job : job[j].client = c /\ pc[j] = "running"}

\* Variant of StopTeardown for mutation: it leaves the containers alone.
StopTeardownOfProducers(a) ==
  /\ "teardown" \in stop[a].todo
  /\ producer' = [j \in Job |->
                    IF job[j].client = stop[a].client /\ producer[j] = "playing"
                    THEN "over" ELSE producer[j]]
  /\ Done(a, "teardown")
  /\ UNCHANGED <<running, queue, https, njobs, job, pc, live, drain>>

\* Stopping the container is a blocking call made by the handler.
StopTeardown(a) ==
  LET c == stop[a].client
  IN  /\ "teardown" \in stop[a].todo
      /\ producer' = [j \in Job |-> IF job[j].client = c /\ producer[j] = "playing"
                                    THEN "over" ELSE producer[j]]
      /\ live' = live \ HeardBy(c)
      /\ Done(a, "teardown")
      /\ UNCHANGED <<running, queue, https, njobs, job, pc, drain>>

StopStep(a) == StopSession(a) \/ StopQueue(a) \/ StopTeardown(a)

-----------------------------------------------------------------------------
(* The API: stop a session, start another runner inside one. *)

ApiStop(t, c) ==
  /\ stop[t] = NoStop
  /\ running[c] # <<>>
  /\ stop' = [stop EXCEPT ![t] = StopOf(c)]
  /\ UNCHANGED <<running, queue, threads>>

ApiRunnerStart(c, a, stops) ==
  /\ running[c] # <<>>
  /\ NewJob(c, a, Head(running[c]), stops)
  /\ Goto(njobs + 1, "start")
  /\ UNCHANGED <<running, queue, https, producer, live, drain, stop>>

-----------------------------------------------------------------------------
(* The producer thread and the continuation of StreamSession. *)

\* run_pipeline registers the stop handlers once the pipeline has parsed.
ProducerPlays(j) ==
  /\ producer[j] = "starting"
  /\ producer' = [producer EXCEPT ![j] = "playing"]
  /\ UNCHANGED <<running, queue, https, njobs, job, pc, live, drain, stop>>

ProducerFails(j) ==
  /\ producer[j] = "starting"
  /\ producer' = [producer EXCEPT ![j] = "over"]
  /\ UNCHANGED <<running, queue, https, njobs, job, pc, live, drain, stop>>

\* The plugin reports WAYLAND_DISPLAY: the continuation creates the display.
DisplayReady(j) ==
  /\ pc[j] = "await" /\ producer[j] = "playing"
  /\ Goto(j, "socket")
  /\ UNCHANGED <<running, queue, https, njobs, job, producer, live, drain, stop>>

\* The producer's thread returned first: the promise is broken, and the
\* continuation ends in an exception nobody reads.
PromiseBroken(j) ==
  /\ pc[j] = "await" /\ producer[j] = "over"
  /\ Goto(j, "over")
  /\ UNCHANGED <<running, queue, https, njobs, job, producer, live, drain, stop>>

SocketReady(j) ==
  /\ pc[j] = "socket"
  /\ Goto(j, "start")
  /\ UNCHANGED <<running, queue, https, njobs, job, producer, live, drain, stop>>

\* No socket after wait_for_wayland_socket's timeout: stop the session.
SocketTimeout(j) ==
  /\ pc[j] = "socket"
  /\ Goto(j, "stopping")
  /\ stop' = [stop EXCEPT ![j] = StopOf(job[j].client)]
  /\ UNCHANGED <<running, queue, https, njobs, job, producer, live, drain>>

-----------------------------------------------------------------------------
(* The StartRunner handler and the runner thread. *)

StartRunner(j) ==
  /\ pc[j] = "start"
  /\ LET q == queue[job[j].client]
     IN  /\ drain' = [drain EXCEPT ![j] = q]
         /\ Goto(j, IF q = 0 THEN "over" ELSE "create")
  /\ UNCHANGED <<running, queue, https, njobs, job, producer, live, stop>>

\* A container of that name is removed by force when it exists already.
SameName(j, k) == job[j].client = job[k].client /\ job[j].app = job[k].app

CreateContainer(j) ==
  /\ pc[j] = "create"
  /\ live' = {k \in live : ~SameName(j, k)} \cup {j}
  /\ Goto(j, "started")
  /\ UNCHANGED <<running, queue, https, njobs, job, producer, drain, stop>>

CreateFails(j) ==
  /\ pc[j] = "create"
  /\ Goto(j, "ended")
  /\ UNCHANGED <<running, queue, https, njobs, job, producer, live, drain, stop>>

RegisterTerminate(j) ==
  /\ pc[j] = "started"
  /\ Goto(j, "running")
  /\ UNCHANGED <<running, queue, https, njobs, job, producer, live, drain, stop>>

\* The user quits the app.
ContainerExits(j) ==
  /\ j \in live
  /\ live' = live \ {j}
  /\ UNCHANGED <<running, queue, https, njobs, job, pc, producer, drain, stop>>

\* The runner polls its container and leaves the loop once it is not running.
RunnerLoopExits(j) ==
  /\ pc[j] = "running"
  /\ j \notin live
  /\ Goto(j, "ended")
  /\ UNCHANGED <<running, queue, https, njobs, job, producer, live, drain, stop>>

\* Variant of RunnerOver for mutation: it fires no StopStream.
RunnerOverQuietly(j) ==
  /\ pc[j] = "ended"
  /\ Goto(j, "over")
  /\ UNCHANGED <<running, queue, https, njobs, job, producer, live, drain, stop>>

\* The runner is over: the session stops with it, unless it was started over
\* the API without stop_stream_when_over.
RunnerOver(j) ==
  /\ pc[j] = "ended"
  /\ IF job[j].stops
       THEN /\ Goto(j, "stopping")
            /\ stop' = [stop EXCEPT ![j] = StopOf(job[j].client)]
       ELSE /\ Goto(j, "over")
            /\ UNCHANGED stop
  /\ UNCHANGED <<running, queue, https, njobs, job, producer, live, drain>>

StopFired(j) ==
  /\ pc[j] = "stopping"
  /\ stop[j].todo = {}
  /\ Goto(j, "over")
  /\ UNCHANGED <<running, queue, https, njobs, job, producer, live, drain, stop>>

\* The steps a job's own threads take, and those that depend on the outside.
JobStep(j) ==
  \/ PromiseBroken(j)
  \/ StartRunner(j)
  \/ RegisterTerminate(j)
  \/ RunnerLoopExits(j)
  \/ RunnerOver(j)
  \/ StopFired(j)
  \/ SocketReady(j) \/ SocketTimeout(j)
  \/ CreateContainer(j) \/ CreateFails(j)

Outside(j) ==
  \/ ProducerPlays(j) \/ ProducerFails(j)
  \/ DisplayReady(j)
  \/ ContainerExits(j)

-----------------------------------------------------------------------------
Next ==
  \/ \E c \in Client, a \in App : LaunchFire(c, a)
  \/ \E c \in Client : ResumeLoad(c) \/ CancelFire(c)
  \/ HttpsStep
  \/ \E a \in Actor : StopStep(a)
  \/ \E t \in ApiThread, c \in Client : ApiStop(t, c)
  \/ \E c \in Client, a \in App, stops \in BOOLEAN : ApiRunnerStart(c, a, stops)
  \/ \E j \in Job : JobStep(j) \/ Outside(j)

\* Threads that have something to do keep running; clients, containers and
\* the compositor owe nothing.
Fairness ==
  /\ WF_vars(HttpsStep)
  /\ \A a \in Actor : WF_vars(StopStep(a))
  /\ \A j \in Job : WF_vars(JobStep(j))

Spec == Init /\ [][Next]_vars
FairSpec == Spec /\ Fairness

-----------------------------------------------------------------------------
IsLaunch(j) == j <= njobs /\ job[j].launch = j

\* A client's latest launch is j.
Latest(j, c) ==
  /\ IsLaunch(j) /\ job[j].client = c
  /\ \A k \in Job : IsLaunch(k) /\ job[k].client = c => k <= j

\* launch() relies on running_sessions to tell whether a client has a session:
\* it must never hold two records of a client, nor one of a launch that a later
\* launch has superseded, although resume() writes back what it loaded before
\* other threads stopped it.
RegistryHoldsLatestLaunch ==
  \A c \in Client :
    running[c] # <<>> => Len(running[c]) = 1 /\ Latest(running[c][1], c)

\* The StartRunner handler finds the device queue by session id, which all the
\* launches of a client share: it may find a later launch's queue, but devices
\* accumulated for an earlier launch must never reach a later launch's runner.
StaleQueueNeverDrained ==
  \A j \in Job : drain[j] # 0 =>
    /\ job[drain[j]].client = job[j].client
    /\ job[j].launch <= drain[j]

\* A runner that ends takes its session out of running_sessions, so that the
\* app list shows no app that is not running any more.
EndedRunnerUnregisters ==
  \A j \in Job, c \in Client :
    pc[j] = "ended" /\ job[j].stops /\ job[j].client = c ~> running[c] = <<>>

\* Cancel ends every runner that had registered for the event when it was
\* fired, all the way to the end of its thread.
CancelEndsRunner ==
  \A j \in Job :
    stop[Https].todo = Handler /\ pc[j] = "running"
      /\ job[j].client = stop[Https].client
    ~> pc[j] = "over"

\* "Re-launching while a session is already running would start a second
\* runner that removes the live container out from under the first one":
\* starting the container of a launch never removes a live container.
LiveContainerNeverReplaced ==
  [][\A j, k \in Job : j \in live \ live' /\ IsLaunch(j) /\ IsLaunch(k)
                         => k \notin live' \ live]_vars
=============================================================================
