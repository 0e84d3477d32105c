----------------------------- MODULE StreamSetup -----------------------------
(***************************************************************************)
(* How a launched session becomes a stream: the RTSP server and its        *)
(* connections, the threads that ANNOUNCE leaves waiting for an RTP ping,  *)
(* the streaming pipelines, the ENet control server, and the stop and      *)
(* pause events that end the pipelines.                                    *)
(*                                                                         *)
(* A client launches or resumes; each time its session gets new secrets    *)
(* (the fake IP of RTSP, the payload of pings, the data of ENet) under the *)
(* same session id. A launch number stands for one set of secrets.         *)
(***************************************************************************)
EXTENDS Integers, FiniteSets

CONSTANTS Client,     \* paired clients, a session id and an address each
          Kind,       \* the streams of a session: video, audio
          Conn,       \* RTSP connections open at a time
          Peer,       \* ENet peers
          MaxLaunch,  \* bound: launches and resumes per client
          MaxJobs,    \* bound: ANNOUNCE requests served
          None        \* no client

ASSUME StreamAssumption ==
  /\ MaxLaunch \in Nat /\ MaxJobs \in Nat
  /\ None \notin Client

Job == 1..MaxJobs
Launch == 1..MaxLaunch

VARIABLES
  latest,    \* per client, its latest launch: the secrets it was told
  ended,     \* per client, the latest launch whose session was stopped
  stopping,  \* clients whose StopStream has been fired, registry not updated
  rtsp,      \* the RTSP connections
  serving,   \* run_server is inside io_context.run()
  job,       \* what each ANNOUNCE announced
  phase,     \* per job and kind, the thread of that stream
  dest,      \* per job and kind, the client the pipeline sends to
  missed,    \* streams that had no handler for the StopStream of their session
  peer,      \* connected_clients: per peer a snapshot of its session
  told       \* peers that were sent a termination packet

registry == <<latest, ended, stopping>>
streams == <<job, phase, dest, missed>>
control == <<peer, told>>
vars == <<registry, rtsp, serving, streams, control>>

Stream == Job \X Kind
Phase == {"none", "spawned", "waiting", "pinged", "playing", "over"}
Command == {"PLAY", "ANNOUNCE", "ANNOUNCE_no_mode"}
Request == [client : Client, launch : 0..MaxLaunch, cmd : Command]
NoRequest == [client |-> None, launch |-> 0, cmd |-> "PLAY"]
NoSession == [client |-> None, launch |-> 0]
Session == [client : Client, launch : Launch] \cup {NoSession}

TypeOK ==
  /\ latest \in [Client -> 0..MaxLaunch]
  /\ ended \in [Client -> 0..MaxLaunch]
  /\ stopping \in SUBSET Client
  /\ rtsp \in [Conn -> [at : {"free", "reading", "complete"},
                        req : Request \cup {NoRequest}]]
  /\ serving \in BOOLEAN
  /\ job \in [Job -> Session]
  /\ phase \in [Stream -> Phase]
  /\ dest \in [Stream -> Client \cup {None}]
  /\ missed \in SUBSET Stream
  /\ peer \in [Peer -> Session]
  /\ told \in SUBSET Peer

Init ==
  /\ latest = [c \in Client |-> 0]
  /\ ended = [c \in Client |-> 0]
  /\ stopping = {}
  /\ rtsp = [k \in Conn |-> [at |-> "free", req |-> NoRequest]]
  /\ serving = TRUE
  /\ job = [j \in Job |-> NoSession]
  /\ phase = [s \in Stream |-> "none"]
  /\ dest = [s \in Stream |-> None]
  /\ missed = {}
  /\ peer = [p \in Peer |-> NoSession]
  /\ told = {}

\* The launch that running_sessions holds of a client, or 0.
Running(c) == IF ended[c] < latest[c] THEN latest[c] ELSE 0

Of(c, s) == job[s[1]].client = c

-----------------------------------------------------------------------------
(* Sessions. SessionLifecycle has the steps of these operations. *)

\* launch() adds a session, resume() replaces it: new secrets either way.
NewSecrets(c) ==
  /\ c \notin stopping
  /\ latest[c] < MaxLaunch
  /\ latest' = [latest EXCEPT ![c] = @ + 1]
  /\ UNCHANGED <<ended, stopping, rtsp, serving, streams, control>>

\* Streams of a client whose pipeline has registered its handlers, and those
\* on their way there.
Hearing(c) == {s \in Stream : Of(c, s) /\ phase[s] = "playing"}
Deaf(c) == {s \in Stream : Of(c, s) /\ phase[s] \in {"spawned", "waiting", "pinged"}}

\* Variant of EndStreams for mutation: only streams of the registered launch.
EndStreamsOfLaunch(c) ==
  phase' = [s \in Stream |->
              IF s \in Hearing(c) /\ job[s[1]].launch = Running(c)
              THEN "over" ELSE phase[s]]

\* The pause and stop handlers of a pipeline compare session ids and send EOS.
EndStreams(c) ==
  phase' = [s \in Stream |-> IF s \in Hearing(c) THEN "over" ELSE phase[s]]

PeersOf(c) == {p \in Peer : peer[p].client = c}

\* Variant of Terminated for mutation: it looks for the registered launch.
TerminatedOfLaunch(c) ==
  LET found == {p \in PeersOf(c) : peer[p].launch = Running(c)}
  IN  IF found = {} THEN {{}} ELSE {{p} : p \in found}

\* The StopStream handler of the control server: one peer with that session
\* id, the first of a hash map, is sent a termination packet.
Terminated(c) ==
  IF PeersOf(c) = {} THEN {{}} ELSE {{p} : p \in PeersOf(c)}

\* StopStream: every handler registered by now is called ...
StopFire(c) ==
  /\ Running(c) # 0 /\ c \notin stopping
  /\ stopping' = stopping \cup {c}
  /\ EndStreams(c)
  /\ missed' = missed \cup Deaf(c)
  /\ \E ps \in Terminated(c) : told' = told \cup ps
  /\ UNCHANGED <<latest, ended, rtsp, serving, job, dest, peer>>

\* ... and the session leaves running_sessions.
StopRemove(c) ==
  /\ c \in stopping
  /\ stopping' = stopping \ {c}
  /\ ended' = [ended EXCEPT ![c] = latest[c]]
  /\ UNCHANGED <<latest, rtsp, serving, streams, control>>

-----------------------------------------------------------------------------
(* The RTSP server: one thread, one message per connection. *)

\* ANNOUNCE requests on their way never outnumber the jobs left (bound).
JobsLeft ==
  Cardinality({j \in Job : job[j] = NoSession})
    > Cardinality({k \in Conn : rtsp[k].req.cmd = "ANNOUNCE"})

\* A client connects and starts a message, with the fake IP of one of its
\* launches, or with none (launch 0).
Open(k, c, l, cmd) ==
  /\ rtsp[k].at = "free"
  /\ l <= latest[c]
  /\ cmd = "ANNOUNCE" => JobsLeft
  /\ rtsp' = [rtsp EXCEPT ![k] =
                [at |-> "reading", req |-> [client |-> c, launch |-> l, cmd |-> cmd]]]
  /\ UNCHANGED <<registry, serving, streams, control>>

\* The rest of the message arrives: receive_message has read as many bytes as
\* Content-length announces. Until then it waits without a limit: it starts the
\* wait for its deadline before it sets the deadline, and expires_after()
\* cancels the waits it finds.
Arrive(k) ==
  /\ rtsp[k].at = "reading"
  /\ rtsp' = [rtsp EXCEPT ![k].at = "complete"]
  /\ UNCHANGED <<registry, serving, streams, control>>

\* The answer is sent and the socket closed.
Close(k) == rtsp' = [rtsp EXCEPT ![k] = [at |-> "free", req |-> NoRequest]]

\* The client hangs up half-way: a transmission error, answered with 400.
HangUp(k) ==
  /\ serving
  /\ rtsp[k].at = "reading"
  /\ Close(k)
  /\ UNCHANGED <<registry, serving, streams, control>>

\* get_session: by the fake IP, or by address if the request names no host.
SessionOf(req) ==
  IF req.launch \in {0, Running(req.client)} THEN Running(req.client) ELSE 0

\* No session (closed without an answer) or a command that only answers.
HandlePlain(k) ==
  /\ serving
  /\ rtsp[k].at = "complete"
  /\ rtsp[k].req.cmd = "PLAY" \/ SessionOf(rtsp[k].req) = 0
  /\ Close(k)
  /\ UNCHANGED <<registry, serving, streams, control>>

\* announce(): the VideoSession and AudioSession handlers each start a thread.
HandleAnnounce(k, j) ==
  LET req == rtsp[k].req
      mine == {j} \X Kind
  IN  /\ serving
      /\ rtsp[k].at = "complete" /\ req.cmd = "ANNOUNCE"
      /\ SessionOf(req) # 0
      /\ job[j] = NoSession
      /\ job' = [job EXCEPT ![j] =
                   [client |-> req.client, launch |-> SessionOf(req)]]
      /\ phase' = [s \in Stream |-> IF s \in mine THEN "spawned" ELSE phase[s]]
      /\ missed' = IF req.client \in stopping THEN missed \cup mine ELSE missed
      /\ Close(k)
      /\ UNCHANGED <<registry, serving, dest, control>>

\* announce() without a display mode throws out of io_context.run() ...
HandleThrows(k) ==
  /\ serving
  /\ rtsp[k].at = "complete" /\ rtsp[k].req.cmd = "ANNOUNCE_no_mode"
  /\ SessionOf(rtsp[k].req) # 0
  /\ serving' = FALSE
  /\ Close(k)
  /\ UNCHANGED <<registry, streams, control>>

\* Variant of RunAgain for mutation: run_server ends with the exception.
RunAgainNever == FALSE /\ UNCHANGED vars

\* ... and run_server calls it again.
RunAgain ==
  /\ ~serving
  /\ serving' = TRUE
  /\ UNCHANGED <<registry, rtsp, streams, control>>

Handle(k) ==
  \/ HandlePlain(k)
  \/ \E j \in Job : HandleAnnounce(k, j)
  \/ HandleThrows(k)

-----------------------------------------------------------------------------
(* The thread of a stream: wait_for_ping, then run_pipeline. *)

WaitForPing(s) ==
  /\ phase[s] = "spawned"
  /\ phase' = [phase EXCEPT ![s] = "waiting"]
  /\ UNCHANGED <<registry, rtsp, serving, job, dest, missed, control>>

\* Variant of Matches for mutation: any ping without a payload will do.
MatchesAnyLegacy(s, c, l) ==
  l = 0 \/ (Of(c, s) /\ l = job[s[1]].launch)

\* Variant of Matches for mutation: payloads are not looked at.
MatchesLegacyOnly(s, c, l) == Of(c, s) /\ l = 0

\* The ping of client c bears the payload of launch l, or none (l = 0); then
\* address and port have to be those of the session.
Matches(s, c, l) == Of(c, s) /\ l \in {0, job[s[1]].launch}

\* A ping of one kind resolves the promise of every thread it matches.
Ping(kind, c, l) ==
  LET hit == {s \in Stream : s[2] = kind /\ phase[s] = "waiting" /\ Matches(s, c, l)}
  IN  /\ l <= latest[c]
      /\ hit # {}
      /\ phase' = [s \in Stream |-> IF s \in hit THEN "pinged" ELSE phase[s]]
      /\ dest' = [s \in Stream |-> IF s \in hit THEN c ELSE dest[s]]
      /\ UNCHANGED <<registry, rtsp, serving, job, missed, control>>

\* run_pipeline has parsed the pipeline, registered its handlers and plays it.
Play(s) ==
  /\ phase[s] = "pinged"
  /\ phase' = [phase EXCEPT ![s] = "playing"]
  /\ UNCHANGED <<registry, rtsp, serving, job, dest, missed, control>>

\* The pipeline cannot be parsed, or an element of it fails while it plays.
PipelineFails(s) ==
  /\ phase[s] \in {"pinged", "playing"}
  /\ phase' = [phase EXCEPT ![s] = "over"]
  /\ UNCHANGED <<registry, rtsp, serving, job, dest, missed, control>>

-----------------------------------------------------------------------------
(* The control server: one thread, ENet events. *)

\* A peer whose client has a session (by secret, else by address) is kept with
\* a copy of it; any other is disconnected at once.
PeerConnects(p, c) ==
  /\ peer[p] = NoSession
  /\ Running(c) # 0
  /\ peer' = [peer EXCEPT ![p] = [client |-> c, launch |-> Running(c)]]
  /\ UNCHANGED <<registry, rtsp, serving, streams, told>>

\* The client disconnects or times out: PauseStream of the peer's session id.
PeerDisconnects(p) ==
  /\ peer[p] # NoSession
  /\ EndStreams(peer[p].client)
  /\ peer' = [peer EXCEPT ![p] = NoSession]
  /\ told' = told \ {p}
  /\ UNCHANGED <<registry, rtsp, serving, job, dest, missed>>

\* A termination packet from the client pauses, and the peer stays.
PeerTerminates(p) ==
  /\ peer[p] # NoSession
  /\ Hearing(peer[p].client) # {}
  /\ EndStreams(peer[p].client)
  /\ UNCHANGED <<registry, rtsp, serving, job, dest, missed, control>>

-----------------------------------------------------------------------------
Next ==
  \/ \E c \in Client : NewSecrets(c) \/ StopFire(c) \/ StopRemove(c)
  \/ \E k \in Conn, c \in Client, l \in 0..MaxLaunch, cmd \in Command :
       Open(k, c, l, cmd)
  \/ \E k \in Conn : Arrive(k) \/ HangUp(k) \/ Handle(k)
  \/ RunAgain
  \/ \E s \in Stream : WaitForPing(s) \/ Play(s) \/ PipelineFails(s)
  \/ \E kind \in Kind, c \in Client, l \in 0..MaxLaunch : Ping(kind, c, l)
  \/ \E p \in Peer : PeerDisconnects(p) \/ PeerTerminates(p)
  \/ \E p \in Peer, c \in Client : PeerConnects(p, c)

\* The server's threads keep running. A client pings until its stream comes
\* (the UDP socket delivers some of the pings); it owes nothing else, the end
\* of a message in particular.
Fairness ==
  /\ \A k \in Conn : WF_vars(Handle(k))
  /\ WF_vars(RunAgain)
  /\ \A s \in Stream : WF_vars(WaitForPing(s)) /\ WF_vars(Play(s))
  /\ \A c \in Client : WF_vars(StopRemove(c))
  /\ \A kind \in Kind, c \in Client :
       WF_vars(Running(c) # 0 /\ Ping(kind, c, Running(c)))

Spec == Init /\ [][Next]_vars
FairSpec == Spec /\ Fairness

-----------------------------------------------------------------------------
\* A pipeline sends to an address it has from a ping: it must be the address of
\* the client whose session was announced, whichever pings of other clients,
\* old launches and old Moonlights arrive meanwhile.
StreamsToAnnouncer ==
  \A s \in Stream : phase[s] = "playing" => dest[s] = job[s[1]].client

\* Stops reach pipelines by session id, at whatever step their threads are.
\* Once the session has left the registry, the streams of that launch and of
\* those it resumed are over, but for the streams that had registered no
\* handler yet when the stop was fired.
StopLeavesOnlyMissed ==
  \A s \in Stream : \A c \in Client :
    phase[s] = "playing" /\ Of(c, s) /\ s \notin missed => job[s[1]].launch > ended[c]

\* A stream that was announced under the registered secrets starts, as long as
\* the client keeps pinging and neither resumes nor stops: no ping that comes
\* too early or for another session uses up the wait.
AnnouncedStreams ==
  \A s \in Stream :
    phase[s] = "spawned" ~>
      \/ phase[s] \in {"playing", "over"}
      \/ \A c \in Client : Of(c, s) => job[s[1]].launch # Running(c)

\* "A single misbehaving connection handler must never take the whole server
\* down": a request that has arrived is answered or closed, whatever becomes of
\* the other connections.
RequestAnswered ==
  \A k \in Conn : rtsp[k].at = "complete" ~> rtsp[k].at # "complete"

\* A stop tells a peer of the session, whichever launch of it the peer's copy
\* is of: the client that streams may have connected before its last resume.
StopTellsPeer ==
  [][\A c \in stopping' \ stopping :
       PeersOf(c) # {} => PeersOf(c) \cap told' # {}]_vars
=============================================================================
