---------------------------- MODULE RoutingProofs ----------------------------
(***************************************************************************)
(* Where things of a session go.  First, where streams go, for all         *)
(* clients, connections and peers and any number of launches of            *)
(* StreamSetup, and which a stop leaves behind.  Then, where joypads go as *)
(* a session joins and leaves a lobby, for all joypads and threads of      *)
(* DeviceHotplug.                                                          *)
(***************************************************************************)
EXTENDS StreamSetup, DeviceHotplug, FiniteSetTheorems, TLAPS

Live == {"spawned", "waiting", "pinged", "playing"}

\* A pipeline that is about to play already knows its client's address.
DestOK(s) == phase[s] \in {"pinged", "playing"} => dest[s] = job[s[1]].client

\* While a stop is under way, and after it, the streams it has missed are the
\* only ones of its session that are not over.
StopOK(s) ==
  phase[s] \in Live /\ s \notin missed =>
    \A c \in Client : Of(c, s) => job[s[1]].launch > ended[c] /\ c \notin stopping

StreamsInv == \A s \in Stream : DestOK(s) /\ StopOK(s)

SetupInv == TypeOK /\ StreamsInv

-----------------------------------------------------------------------------
\* No request has come and nothing streams before the server starts.
LEMMA InitInv == Init => SetupInv
<1> SUFFICES ASSUME Init PROVE SetupInv
  OBVIOUS
<1>1. latest \in [Client -> 0..MaxLaunch] /\ ended \in [Client -> 0..MaxLaunch]
      /\ stopping \in SUBSET Client
  BY StreamAssumption DEF Init
<1>2. rtsp \in [Conn -> [at : {"free", "reading", "complete"},
                         req : Request \cup {NoRequest}]]
  BY DEF Init
<1>3. job \in [Job -> Session] /\ peer \in [Peer -> Session]
  BY DEF Init, Session
<1>4. phase \in [Stream -> Phase] /\ dest \in [Stream -> Client \cup {None}]
  BY DEF Init, Phase
<1>5. TypeOK
  BY <1>1, <1>2, <1>3, <1>4 DEF Init, TypeOK
<1>6. StreamsInv
  BY DEF Init, StreamsInv, DestOK, StopOK, Live
<1>7. QED
  BY <1>5, <1>6 DEF SetupInv

\* What a request names is a launch of a client, or nothing.
LEMMA RunningType ==
  ASSUME TypeOK, NEW c \in Client
  PROVE  Running(c) \in 0..MaxLaunch
BY StreamAssumption DEF TypeOK, Running

\* Every action keeps every variable in its type.
LEMMA TypeStep == TypeOK /\ [Next]_vars => TypeOK'
<1> SUFFICES ASSUME TypeOK, [Next]_vars PROVE TypeOK'
  OBVIOUS
<1> USE StreamAssumption
<1>1. ASSUME NEW c \in Client, NewSecrets(c) PROVE TypeOK'
  BY <1>1 DEF TypeOK, NewSecrets, streams, control
<1>2. ASSUME NEW c \in Client, StopFire(c) PROVE TypeOK'
  <2>1. phase' \in [Stream -> Phase] /\ missed' \in SUBSET Stream
    BY <1>2 DEF TypeOK, StopFire, EndStreams, Phase, Deaf
  <2>2. told' \in SUBSET Peer /\ stopping' \in SUBSET Client
    BY <1>2 DEF TypeOK, StopFire, Terminated, PeersOf
  <2>3. QED
    BY <1>2, <2>1, <2>2 DEF TypeOK, StopFire
<1>3. ASSUME NEW c \in Client, StopRemove(c) PROVE TypeOK'
  BY <1>3 DEF TypeOK, StopRemove, streams, control
<1>4. ASSUME NEW k \in Conn, NEW c \in Client, NEW l \in 0..MaxLaunch,
             NEW cmd \in Command, Open(k, c, l, cmd)
      PROVE  TypeOK'
  <2>1. [client |-> c, launch |-> l, cmd |-> cmd] \in Request
    BY DEF Request
  <2>2. rtsp' \in [Conn -> [at : {"free", "reading", "complete"},
                            req : Request \cup {NoRequest}]]
    BY <1>4, <2>1 DEF TypeOK, Open
  <2>3. QED
    BY <1>4, <2>2 DEF TypeOK, Open, registry, streams, control
<1>5. ASSUME NEW k \in Conn, Arrive(k) PROVE TypeOK'
  <2>1. rtsp' \in [Conn -> [at : {"free", "reading", "complete"},
                            req : Request \cup {NoRequest}]]
    BY <1>5 DEF TypeOK, Arrive
  <2>2. QED
    BY <1>5, <2>1 DEF TypeOK, Arrive, registry, streams, control
<1>6. ASSUME NEW k \in Conn, Close(k)
      PROVE  rtsp' \in [Conn -> [at : {"free", "reading", "complete"},
                                 req : Request \cup {NoRequest}]]
  BY <1>6 DEF TypeOK, Close
<1>7. ASSUME NEW k \in Conn, HangUp(k) \/ HandlePlain(k) \/ HandleThrows(k)
      PROVE  TypeOK'
  <2>1. Close(k) /\ serving' \in BOOLEAN /\ UNCHANGED <<registry, streams, control>>
    BY <1>7 DEF HangUp, HandlePlain, HandleThrows, TypeOK
  <2>2. QED
    BY <1>6, <2>1 DEF TypeOK, registry, streams, control
<1>8. ASSUME NEW k \in Conn, NEW j \in Job, HandleAnnounce(k, j) PROVE TypeOK'
  <2> DEFINE req == rtsp[k].req
  <2>1. req \in Request
    BY <1>8 DEF TypeOK, HandleAnnounce, NoRequest
  <2>2. req.client \in Client /\ SessionOf(req) \in Launch
    BY <1>8, <2>1, RunningType DEF HandleAnnounce, SessionOf, Request, Launch
  <2>3. [client |-> req.client, launch |-> SessionOf(req)] \in Session
    BY <2>2 DEF Session
  <2>4. job' \in [Job -> Session]
    BY <1>8, <2>3 DEF TypeOK, HandleAnnounce
  <2>5. phase' \in [Stream -> Phase] /\ missed' \in SUBSET Stream
    BY <1>8 DEF TypeOK, HandleAnnounce, Phase, Stream
  <2>6. QED
    BY <1>6, <1>8, <2>4, <2>5 DEF TypeOK, HandleAnnounce, registry, control
<1>9. CASE RunAgain
  BY <1>9 DEF TypeOK, RunAgain, registry, streams, control
<1>10. ASSUME NEW s \in Stream, WaitForPing(s) \/ Play(s) \/ PipelineFails(s)
       PROVE  TypeOK'
  <2>1. phase' \in [Stream -> Phase]
    BY <1>10 DEF TypeOK, WaitForPing, Play, PipelineFails, Phase
  <2>2. QED
    BY <1>10, <2>1 DEF TypeOK, WaitForPing, Play, PipelineFails, registry, control
<1>11. ASSUME NEW kind \in Kind, NEW c \in Client, NEW l \in 0..MaxLaunch,
              Ping(kind, c, l)
       PROVE  TypeOK'
  <2>1. phase' \in [Stream -> Phase] /\ dest' \in [Stream -> Client \cup {None}]
    BY <1>11 DEF TypeOK, Ping, Phase
  <2>2. QED
    BY <1>11, <2>1 DEF TypeOK, Ping, registry, control
<1>12. ASSUME NEW p \in Peer, NEW c \in Client, PeerConnects(p, c) PROVE TypeOK'
  <2>1. [client |-> c, launch |-> Running(c)] \in Session
    BY <1>12, RunningType DEF PeerConnects, Session, Launch
  <2>2. peer' \in [Peer -> Session]
    BY <1>12, <2>1 DEF TypeOK, PeerConnects
  <2>3. QED
    BY <1>12, <2>2 DEF TypeOK, PeerConnects, registry, streams
<1>13. ASSUME NEW p \in Peer, PeerDisconnects(p) \/ PeerTerminates(p) PROVE TypeOK'
  <2>1. phase' \in [Stream -> Phase]
    BY <1>13 DEF TypeOK, PeerDisconnects, PeerTerminates, EndStreams, Phase
  <2>2. peer' \in [Peer -> Session] /\ told' \in SUBSET Peer
    BY <1>13 DEF TypeOK, PeerDisconnects, PeerTerminates, Session, control
  <2>3. QED
    BY <1>13, <2>1, <2>2 DEF TypeOK, PeerDisconnects, PeerTerminates, registry, control
<1>14. CASE UNCHANGED vars
  BY <1>14 DEF TypeOK, vars, registry, streams, control
<1>15. QED
  BY <1>1, <1>2, <1>3, <1>4, <1>5, <1>7, <1>8, <1>9, <1>10, <1>11, <1>12, <1>13, <1>14
     DEF Next, Handle

-----------------------------------------------------------------------------
\* A stream that stays what it was, or ends, satisfies the invariant if no stop
\* of its session begins or completes meanwhile.
LEMMA StreamKept ==
  ASSUME NEW s, DestOK(s), StopOK(s),
         phase'[s] = phase[s] \/ phase'[s] = "over",
         dest' = dest, job'[s[1]] = job[s[1]], s \in missed => s \in missed',
         ended' = ended, stopping' \subseteq stopping
  PROVE  DestOK(s)' /\ StopOK(s)'
BY DEF DestOK, StopOK, Of, Live

\* Every action keeps every stream's part of the invariant.
LEMMA StreamsStep == SetupInv /\ [Next]_vars => StreamsInv'
<1> SUFFICES ASSUME SetupInv, [Next]_vars, NEW s \in Stream
             PROVE  DestOK(s)' /\ StopOK(s)'
  BY DEF StreamsInv
<1>0. DestOK(s) /\ StopOK(s) /\ TypeOK
  BY DEF SetupInv, StreamsInv
<1>1. ASSUME NEW c \in Client, StopFire(c) PROVE DestOK(s)' /\ StopOK(s)'
  <2>1. phase'[s] = IF s \in Hearing(c) THEN "over" ELSE phase[s]
    BY <1>1 DEF StopFire, EndStreams
  <2>2. UNCHANGED <<dest, job, ended>> /\ stopping' = stopping \cup {c}
        /\ missed' = missed \cup Deaf(c)
    BY <1>1 DEF StopFire
  <2>3. Of(c, s) /\ phase'[s] \in Live => s \in missed'
    BY <2>1, <2>2 DEF Hearing, Deaf, Live
  <2>4. QED
    BY <1>0, <2>1, <2>2, <2>3 DEF DestOK, StopOK, Of, Live
<1>2. ASSUME NEW c \in Client, StopRemove(c) PROVE DestOK(s)' /\ StopOK(s)'
  <2>1. c \in stopping /\ stopping' \subseteq stopping
        /\ UNCHANGED <<phase, dest, job, missed>>
    BY <1>2 DEF StopRemove, streams
  <2>2. \A d \in Client : d # c => ended'[d] = ended[d]
    BY <1>0, <1>2 DEF StopRemove, TypeOK
  <2>3. QED
    BY <1>0, <2>1, <2>2 DEF DestOK, StopOK, Of
<1>3. ASSUME NEW k \in Conn, NEW j \in Job, HandleAnnounce(k, j)
      PROVE  DestOK(s)' /\ StopOK(s)'
  <2>1. CASE s[1] = j
    <3>1. s \in {j} \X Kind
      BY <2>1 DEF Stream
    <3>2. phase'[s] = "spawned"
      BY <1>3, <3>1 DEF HandleAnnounce
    <3> DEFINE c == rtsp[k].req.client
    <3>3. job'[j] = [client |-> c, launch |-> SessionOf(rtsp[k].req)]
      BY <1>0, <1>3 DEF HandleAnnounce, TypeOK
    <3>4. c \in Client /\ SessionOf(rtsp[k].req) = Running(c) /\ Running(c) # 0
      BY <1>0, <1>3 DEF HandleAnnounce, TypeOK, SessionOf, Request, NoRequest
    <3>5. Running(c) > ended[c]
      BY <1>0, <3>4 DEF Running, TypeOK
    <3>6. c \in stopping => s \in missed'
      BY <1>3, <3>1 DEF HandleAnnounce
    <3>7. ended' = ended /\ stopping' = stopping
      BY <1>3 DEF HandleAnnounce, registry
    <3>8. QED
      BY <2>1, <3>2, <3>3, <3>4, <3>5, <3>6, <3>7 DEF DestOK, StopOK, Of
  <2>2. CASE s[1] # j
    <3>1. s \notin {j} \X Kind
      BY <2>2
    <3>2. phase'[s] = phase[s] /\ job'[s[1]] = job[s[1]]
      BY <1>0, <1>3, <2>2, <3>1 DEF HandleAnnounce, TypeOK, Stream
    <3>3. QED
      BY <1>0, <1>3, <3>2, StreamKept DEF HandleAnnounce, registry
  <2>3. QED
    BY <2>1, <2>2
<1>4. ASSUME NEW kind \in Kind, NEW c \in Client, NEW l \in 0..MaxLaunch,
             Ping(kind, c, l)
      PROVE  DestOK(s)' /\ StopOK(s)'
  <2>1. UNCHANGED <<job, ended, stopping, missed>>
    BY <1>4 DEF Ping, registry
  <2>2. CASE phase'[s] = phase[s] /\ dest'[s] = dest[s]
    BY <1>0, <2>1, <2>2 DEF DestOK, StopOK, Of
  <2>3. CASE phase[s] = "waiting" /\ Matches(s, c, l) /\ dest'[s] = c
    BY <1>0, <2>1, <2>3 DEF DestOK, StopOK, Of, Matches, Live
  <2>4. QED
    BY <1>4, <2>2, <2>3 DEF Ping
<1>5. ASSUME NEW t \in Stream, WaitForPing(t) \/ Play(t)
      PROVE  DestOK(s)' /\ StopOK(s)'
  <2>1. UNCHANGED <<job, ended, stopping, missed, dest>>
    BY <1>5 DEF WaitForPing, Play, registry
  <2>2. \/ phase'[s] = phase[s]
        \/ phase[s] = "spawned" /\ phase'[s] = "waiting"
        \/ phase[s] = "pinged" /\ phase'[s] = "playing"
    BY <1>0, <1>5 DEF WaitForPing, Play, TypeOK
  <2>3. QED
    BY <1>0, <2>1, <2>2 DEF DestOK, StopOK, Of, Live
<1>6. ASSUME NEW c \in Client, NewSecrets(c) PROVE DestOK(s)' /\ StopOK(s)'
  BY <1>0, <1>6, StreamKept DEF NewSecrets, streams
<1>7. ASSUME NEW k \in Conn,
             \/ Arrive(k) \/ HangUp(k) \/ HandlePlain(k) \/ HandleThrows(k)
             \/ \E c \in Client, l \in 0..MaxLaunch, cmd \in Command : Open(k, c, l, cmd)
      PROVE  DestOK(s)' /\ StopOK(s)'
  <2>1. UNCHANGED <<registry, streams>>
    BY <1>7 DEF Open, Arrive, HangUp, HandlePlain, HandleThrows
  <2>2. QED
    BY <1>0, <2>1, StreamKept DEF registry, streams
<1>8. CASE RunAgain
  BY <1>0, <1>8, StreamKept DEF RunAgain, registry, streams
<1>9. ASSUME NEW t \in Stream, PipelineFails(t) PROVE DestOK(s)' /\ StopOK(s)'
  <2>1. phase'[s] = phase[s] \/ phase'[s] = "over"
    BY <1>0, <1>9 DEF PipelineFails, TypeOK
  <2>2. QED
    BY <1>0, <1>9, <2>1, StreamKept DEF PipelineFails, registry
<1>10. ASSUME NEW p \in Peer, PeerDisconnects(p) \/ PeerTerminates(p)
       PROVE  DestOK(s)' /\ StopOK(s)'
  <2>1. phase'[s] = phase[s] \/ phase'[s] = "over"
    BY <1>10 DEF PeerDisconnects, PeerTerminates, EndStreams
  <2>2. QED
    BY <1>0, <1>10, <2>1, StreamKept DEF PeerDisconnects, PeerTerminates, registry
<1>11. ASSUME NEW p \in Peer, NEW c \in Client, PeerConnects(p, c)
       PROVE  DestOK(s)' /\ StopOK(s)'
  BY <1>0, <1>11, StreamKept DEF PeerConnects, registry, streams
<1>12. CASE UNCHANGED vars
  BY <1>0, <1>12, StreamKept DEF vars, registry, streams
<1>13. QED
  BY <1>1, <1>2, <1>3, <1>4, <1>5, <1>6, <1>7, <1>8, <1>9, <1>10, <1>11, <1>12
     DEF Next, Handle

-----------------------------------------------------------------------------
\* The invariant is inductive.
THEOREM Invariant == Spec => []SetupInv
<1>1. SetupInv /\ [Next]_vars => SetupInv'
  BY TypeStep, StreamsStep DEF SetupInv
<1>2. QED
  BY InitInv, <1>1, PTL DEF Spec

\* Every variable stays in its type, however clients and threads interleave.
THEOREM TypeCorrect == Spec => []TypeOK
<1>1. SetupInv => TypeOK
  BY DEF SetupInv
<1>2. QED
  BY Invariant, <1>1, PTL

\* wait_for_ping never sends a session's pictures to another client's address.
THEOREM DestinationCorrect == Spec => []StreamsToAnnouncer
<1>1. SetupInv => StreamsToAnnouncer
  BY DEF SetupInv, StreamsInv, DestOK, StreamsToAnnouncer
<1>2. QED
  BY Invariant, <1>1, PTL

\* A stop leaves no pipeline of its session but those that could not hear it.
THEOREM StopCorrect == Spec => []StopLeavesOnlyMissed
<1>1. SetupInv => StopLeavesOnlyMissed
  BY DEF SetupInv, StreamsInv, StopOK, Live, StopLeavesOnlyMissed
<1>2. QED
  BY Invariant, <1>1, PTL

\* A stop always finds a peer of its session to tell, if there is one.
THEOREM StopHeard == Spec => StopTellsPeer
<1>1. ASSUME [Next]_vars, NEW c \in stopping' \ stopping, PeersOf(c) # {}
      PROVE  PeersOf(c) \cap told' # {}
  <2>1. \A d \in Client : StopFire(d) => stopping' = stopping \cup {d}
    BY DEF StopFire
  <2>2. stopping' \subseteq stopping \/ \E d \in Client : StopFire(d)
    BY <1>1 DEF Next, Handle, vars, registry, NewSecrets, StopRemove, Open, Arrive,
                HangUp, HandlePlain, HandleAnnounce, HandleThrows, RunAgain, WaitForPing,
                Play, PipelineFails, Ping, PeerDisconnects, PeerTerminates, PeerConnects
  <2>3. PICK d \in Client : StopFire(d)
    BY <1>1, <2>2
  <2>4. d = c
    BY <1>1, <2>1, <2>3
  <2>5. PICK ps \in Terminated(c) : told' = told \cup ps
    BY <2>3, <2>4 DEF StopFire
  <2>6. \E p \in PeersOf(c) : ps = {p}
    BY <1>1, <2>5 DEF Terminated
  <2>7. QED
    BY <2>5, <2>6
<1>2. [Next]_vars =>
        [\A c \in stopping' \ stopping : PeersOf(c) # {} => PeersOf(c) \cap told' # {}]_vars
  BY <1>1
<1>3. QED
  BY <1>2, PTL DEF Spec, StopTellsPeer

-----------------------------------------------------------------------------
(* The sequences that a move is made of. *)

\* A set of naturals that is not empty has a least member.
LEMMA Least ==
  ASSUME NEW T, T \subseteq Nat, T # {}
  PROVE  \E m \in T : \A n \in T : m <= n
<1> DEFINE Less == {ss \in Nat \X Nat : ss[1] < ss[2]}
<1>0. OpToRel(<, Nat) = Less
  BY Zenon DEF OpToRel
<1>1. IsWellFoundedOn(Less, Nat)
  BY <1>0, NatLessThanWellFounded, Zenon
<1> HIDE DEF Less
<1>2. PICK m \in T : \A n \in T : ~(<<n, m>> \in Less)
  BY <1>1, WFMin
<1>3. ASSUME NEW n \in T, n < m PROVE FALSE
  <2>1. <<n, m>> \in Less
    BY <1>3 DEF Less
  <2>2. QED
    BY <1>2, <2>1
<1>4. QED
  BY <1>3

\* The joypads of a session in some order: all of them.
LEMMA SetToSeqIs ==
  ASSUME NEW S, IsFiniteSet(S)
  PROVE  /\ SetToSeq(S) \in Seq(S)
         /\ \A x \in S : \E i \in DOMAIN SetToSeq(S) : SetToSeq(S)[i] = x
<1> DEFINE n == Cardinality(S)
           f == SetToSeq(S)
<1>1. n \in Nat /\ ExistsBijection(1..n, S)
  BY FS_CardinalityType
<1>2. PICK g \in [1..n -> S] : IsInjective(g)
  BY <1>1 DEF ExistsBijection, Bijection, Injection
<1>3. f \in [1..n -> S] /\ IsInjective(f)
  BY <1>2 DEF SetToSeq
<1>4. f \in Injection(1..n, S)
  BY <1>3 DEF Injection
<1>5. Cardinality(1..n) = n
  BY <1>1, FS_Interval
<1> HIDE DEF f
<1>6. f \in Surjection(1..n, S)
  BY <1>4, <1>5, FS_Injection
<1>7. QED
  BY <1>1, <1>3, <1>6 DEF Surjection, f

Flat(seqs, g, n) == IF n = 1 THEN seqs[n] ELSE g[n - 1] \o seqs[n]

\* The recursive function that flattens the sequence exists.
LEMMA FlatExists ==
  ASSUME NEW K, NEW seqs \in Seq(K)
  PROVE  \E g : g = [n \in 1..Len(seqs) |-> Flat(seqs, g, n)]
<1> DEFINE Good(m, g) == g = [n \in 1..m |-> Flat(seqs, g, n)]
           T == {m \in 0..Len(seqs) : \A g : ~Good(m, g)}
<1>1. SUFFICES ASSUME T # {} PROVE FALSE
  OBVIOUS
<1>2. PICK m \in T : \A n \in T : m <= n
  <2>1. T \subseteq Nat
    OBVIOUS
  <2> HIDE DEF T
  <2>2. QED
    BY <1>1, <2>1, Least
<1>3. CASE m = 0
  <2> DEFINE g == [n \in 1..0 |-> <<>>]
  <2>1. Good(0, g)
    BY DEF Flat
  <2>2. QED
    BY <1>3, <2>1
<1>4. CASE m # 0
  <2>1. m - 1 \notin T /\ m - 1 \in 0..Len(seqs)
    BY <1>2, <1>4
  <2>2. PICK g : Good(m - 1, g)
    BY <2>1
  <2> DEFINE h == [n \in 1..m |-> IF n = m THEN Flat(seqs, g, m) ELSE g[n]]
  <2>3. ASSUME NEW n \in 1..m PROVE h[n] = Flat(seqs, h, n)
    <3>1. Flat(seqs, h, n) = Flat(seqs, g, n)
      <4>1. CASE n = 1
        BY <4>1 DEF Flat
      <4>2. CASE n # 1
        <5>1. n - 1 \in 1..m /\ n - 1 # m
          BY <2>1, <4>2
        <5>2. h[n - 1] = g[n - 1]
          BY <5>1
        <5> HIDE DEF h
        <5>3. QED
          BY <5>2 DEF Flat
      <4>3. QED
        BY <4>1, <4>2
    <3>2. ASSUME n # m PROVE g[n] = Flat(seqs, g, n)
      <4>1. n \in 1..(m - 1)
        BY <3>2
      <4> HIDE DEF Flat
      <4>2. QED
        BY <4>1, <2>2
    <3>3. QED
      BY <3>1, <3>2
  <2>4. h = [n \in 1..m |-> h[n]]
    OBVIOUS
  <2>5. Good(m, h)
    BY <2>3, <2>4
  <2>6. QED
    BY <2>5
<1>5. QED
  BY <1>3, <1>4

\* What \o makes of two sequences.
LEMMA JoinIs ==
  ASSUME NEW K, NEW s \in Seq(K), NEW t \in Seq(K)
  PROVE  s \o t \in Seq(K) /\ ToSet(s \o t) = ToSet(s) \cup ToSet(t)
<1> DEFINE u == s \o t
<1>1. /\ u \in Seq(K) /\ Len(u) = Len(s) + Len(t)
      /\ DOMAIN u = 1..Len(u) /\ DOMAIN s = 1..Len(s) /\ DOMAIN t = 1..Len(t)
      /\ Len(s) \in Nat /\ Len(t) \in Nat
      /\ \A i \in 1..Len(s) : u[i] = s[i]
      /\ \A i \in 1..Len(t) : u[Len(s) + i] = t[i]
  OBVIOUS
<1> HIDE DEF u
<1>2. ASSUME NEW i \in DOMAIN u PROVE u[i] \in ToSet(s) \cup ToSet(t)
  <2>1. CASE i \in 1..Len(s)
    BY <2>1, <1>1 DEF ToSet
  <2>2. CASE i \notin 1..Len(s)
    <3>1. i - Len(s) \in 1..Len(t) /\ i = Len(s) + (i - Len(s))
      BY <2>2, <1>1
    <3>2. u[i] = t[i - Len(s)]
      BY <3>1, <1>1
    <3>3. QED
      BY <3>1, <3>2 DEF ToSet
  <2>3. QED
    BY <2>1, <2>2
<1>3. ASSUME NEW i \in DOMAIN s PROVE s[i] \in ToSet(u)
  <2>1. i \in DOMAIN u /\ u[i] = s[i]
    BY <1>1
  <2>2. QED
    BY <2>1 DEF ToSet
<1>4. ASSUME NEW i \in DOMAIN t PROVE t[i] \in ToSet(u)
  <2>1. Len(s) + i \in DOMAIN u /\ u[Len(s) + i] = t[i]
    BY <1>1
  <2>2. QED
    BY <2>1 DEF ToSet
<1>5. QED
  BY <1>1, <1>2, <1>3, <1>4 DEF ToSet, u

\* What a push adds to a queue.
LEMMA AppendIs ==
  ASSUME NEW K, NEW s \in Seq(K), NEW e \in K
  PROVE  ToSet(Append(s, e)) = ToSet(s) \cup {e}
<1> DEFINE new == Append(s, e)
<1>1. /\ DOMAIN new = 1..(Len(s) + 1) /\ DOMAIN s = 1..Len(s) /\ Len(s) \in Nat
      /\ new[Len(s) + 1] = e /\ \A i \in 1..Len(s) : new[i] = s[i]
  OBVIOUS
<1> HIDE DEF new
<1>2. \A i \in DOMAIN new : i \in DOMAIN s \/ i = Len(s) + 1
  BY <1>1
<1>3. \A i \in DOMAIN s : i \in DOMAIN new
  BY <1>1
<1>4. Len(s) + 1 \in DOMAIN new
  BY <1>1
<1>5. ToSet(new) = ToSet(s) \cup {e}
  BY <1>1, <1>2, <1>3, <1>4 DEF ToSet
<1>6. QED
  BY <1>5 DEF new

\* A flattened sequence has what its parts have.
LEMMA FlattenIs ==
  ASSUME NEW K, NEW seqs \in Seq(Seq(K))
  PROVE  /\ FlattenSeq(seqs) \in Seq(K)
         /\ ToSet(FlattenSeq(seqs)) = UNION {ToSet(seqs[i]) : i \in DOMAIN seqs}
<1>1. CASE Len(seqs) = 0
  BY <1>1 DEF FlattenSeq, ToSet
<1>2. CASE Len(seqs) # 0
  <2> DEFINE g == CHOOSE g : g = [n \in 1..Len(seqs) |-> Flat(seqs, g, n)]
             First(n) == UNION {ToSet(seqs[i]) : i \in 1..n}
             P(n) == g[n] \in Seq(K) /\ ToSet(g[n]) = First(n)
             T == {n \in 1..Len(seqs) : ~P(n)}
  <2>1. g = [n \in 1..Len(seqs) |-> Flat(seqs, g, n)]
    BY FlatExists, Zenon
  <2>2. FlattenSeq(seqs) = g[Len(seqs)]
    BY <1>2 DEF FlattenSeq, Flat
  <2> HIDE DEF g
  <2>3. SUFFICES ASSUME T # {} PROVE FALSE
    <3>1. Len(seqs) \in 1..Len(seqs)
      BY <1>2
    <3>2. Len(seqs) \notin T
      BY <2>3
    <3>3. P(Len(seqs))
      <4> HIDE DEF P
      <4>1. QED
        BY <3>1, <3>2
    <3>4. DOMAIN seqs = 1..Len(seqs)
      OBVIOUS
    <3>5. QED
      BY <2>2, <3>3, <3>4
  <2>4. PICK n \in T : \A m \in T : n <= m
    <3>1. T \subseteq Nat
      OBVIOUS
    <3> HIDE DEF T
    <3>2. QED
      BY <2>3, <3>1, Least
  <2>5. seqs[n] \in Seq(K)
    OBVIOUS
  <2>6. CASE n = 1
    <3>1. g[n] = seqs[n]
      BY <2>1, <2>6 DEF Flat
    <3>2. First(n) = ToSet(seqs[n])
      BY <2>6
    <3>3. QED
      BY <2>5, <3>1, <3>2
  <2>7. CASE n # 1
    <3>1. n - 1 \in 1..Len(seqs) /\ n - 1 \notin T
      <4> HIDE DEF P
      <4>1. Len(seqs) \in Nat /\ n \in 1..Len(seqs)
        OBVIOUS
      <4>2. n - 1 \in 1..Len(seqs)
        BY <4>1, <2>7
      <4>3. QED
        BY <2>4, <4>1, <4>2
    <3>2. P(n - 1)
      BY <3>1
    <3>3. g[n] = g[n - 1] \o seqs[n]
      BY <2>1, <2>7 DEF Flat
    <3>4. g[n] \in Seq(K) /\ ToSet(g[n]) = ToSet(g[n - 1]) \cup ToSet(seqs[n])
      BY <2>5, <3>2, <3>3, JoinIs
    <3>5. First(n) = First(n - 1) \cup ToSet(seqs[n])
      <4>1. \A i : i \in 1..n <=> (i \in 1..(n - 1) \/ i = n)
        BY <3>1
      <4>2. QED
        BY <4>1
    <3>6. QED
      BY <3>2, <3>4, <3>5
  <2>8. QED
    BY <2>6, <2>7
<1>3. QED
  BY <1>1, <1>2

-----------------------------------------------------------------------------
(* The calls that wait. *)

Events == (SUBSET Call) \ {{}}
C(what, p) == [do |-> what, pad |-> p]
CallsOf(list) == UNION ToSet(list)
Waiting(t) == CallsOf(todo[t])
Pending == UNION {Waiting(t) : t \in Thread}

Whats == {"moonlight_plug", "lobbies_plug", "lobbies_unplug", "session_unplug",
          "lobby_unplug", "add", "drop", "push", "enter", "exit", "move_in", "move_out"}

\* An event of one call.
LEMMA DoIs ==
  ASSUME NEW what \in Whats, NEW p \in Pad \cup {NoPad}
  PROVE  Do(what, p) \in Events /\ Do(what, p) = {C(what, p)}
<1>1. C(what, p) \in Call
  <2>1. Call = [do : Whats, pad : Pad \cup {NoPad}]
    BY DEF Call, Whats
  <2> HIDE DEF Whats
  <2>2. QED
    BY <2>1 DEF C
<1>2. Do(what, p) = {C(what, p)}
  BY DEF C, Do
<1>3. QED
  BY <1>1, <1>2 DEF Events

\* The events of joypads have calls, which are of the joypad.
LEMMA EventsAre ==
  ASSUME NEW p \in Pad
  PROVE  /\ PlugEvent(p) \in Events
         /\ PlugEvent(p) = {C("moonlight_plug", p), C("lobbies_plug", p)}
         /\ UnplugEvent(p) \in Events
         /\ UnplugEvent(p) = {C("session_unplug", p), C("lobbies_unplug", p)}
         /\ UnplugLobbyEvent(p) \in Events /\ UnplugLobbyEvent(p) = {C("lobby_unplug", p)}
<1>1. \A what \in Whats : Do(what, p) \in Events /\ Do(what, p) = {C(what, p)}
  BY DoIs
<1>2. \A A, B \in Events : A \cup B \in Events
  BY DEF Events
<1> HIDE DEF Events
<1>3. QED
  BY <1>1, <1>2 DEF PlugEvent, UnplugEvent, UnplugLobbyEvent, Whats

\* The steps of a join and a leave are events too.
LEMMA MovesAre ==
  ASSUME NEW what \in {"enter", "exit", "move_in", "move_out"}
  PROVE  Move(what) \in Events /\ Move(what) = {C(what, NoPad)}
BY DoIs DEF Move, Whats

\* A list that is not empty is its head and its tail.
LEMMA HeadTail ==
  ASSUME NEW K, NEW list \in Seq(K), list # <<>>
  PROVE  /\ Head(list) \in K /\ Tail(list) \in Seq(K)
         /\ ToSet(list) = {Head(list)} \cup ToSet(Tail(list))
<1> DEFINE tail == Tail(list)
<1>1. /\ Len(list) \in Nat \ {0} /\ DOMAIN list = 1..Len(list)
      /\ Head(list) = list[1] /\ list[1] \in K
      /\ tail \in Seq(K) /\ DOMAIN tail = 1..(Len(list) - 1)
      /\ \A i \in 1..(Len(list) - 1) : tail[i] = list[i + 1]
  OBVIOUS
<1> HIDE DEF tail
<1>2. ASSUME NEW i \in DOMAIN list PROVE list[i] \in {Head(list)} \cup ToSet(tail)
  <2>1. CASE i = 1
    BY <2>1, <1>1
  <2>2. CASE i # 1
    <3>1. i - 1 \in DOMAIN tail /\ tail[i - 1] = list[i]
      BY <2>2, <1>1
    <3>2. QED
      BY <3>1 DEF ToSet
  <2>3. QED
    BY <2>1, <2>2
<1>3. ASSUME NEW i \in DOMAIN tail PROVE tail[i] \in ToSet(list)
  <2>1. i + 1 \in DOMAIN list /\ list[i + 1] = tail[i]
    BY <1>1
  <2>2. QED
    BY <2>1 DEF ToSet
<1>4. Head(list) \in ToSet(list)
  BY <1>1 DEF ToSet
<1>5. QED
  BY <1>1, <1>2, <1>3, <1>4 DEF ToSet, tail

\* What waits after a thread has taken its first event off and fired others.
LEMMA GoOnIs ==
  ASSUME HotplugTypeOK, NEW t \in Thread, todo[t] # <<>>,
         NEW events \in Seq(Events),
         GoOn(t, events)
  PROVE  /\ todo' \in [Thread -> Seq(Events)]
         /\ todo' = [todo EXCEPT ![t] = events \o Tail(todo[t])]
         /\ Waiting(t)' = CallsOf(events) \cup CallsOf(Tail(todo[t]))
         /\ \A u \in Thread \ {t} : Waiting(u)' = Waiting(u)
<1> DEFINE tail == Tail(todo[t])
<1>1. todo \in [Thread -> Seq(Events)]
  BY DEF HotplugTypeOK, Events
<1>2. tail \in Seq(Events)
  BY <1>1, HeadTail
<1>3. todo' = [todo EXCEPT ![t] = events \o tail]
  BY DEF GoOn
<1> HIDE DEF tail
<1>4. events \o tail \in Seq(Events)
      /\ ToSet(events \o tail) = ToSet(events) \cup ToSet(tail)
  BY <1>2, JoinIs
<1>5. todo'[t] = events \o tail /\ \A u \in Thread \ {t} : todo'[u] = todo[u]
  BY <1>1, <1>3
<1>6. todo' \in [Thread -> Seq(Events)]
  BY <1>1, <1>3, <1>4
<1>7. Waiting(t)' = CallsOf(events) \cup CallsOf(tail)
  BY <1>4, <1>5 DEF Waiting, CallsOf
<1>8. \A u \in Thread \ {t} : Waiting(u)' = Waiting(u)
  BY <1>5 DEF Waiting, CallsOf
<1>9. QED
  BY <1>3, <1>6, <1>7, <1>8 DEF tail

\* A call that is over waits no longer, unless it waits elsewhere; every other
\* call still waits, and so do those of the event it has fired.
LEMMA OverIs ==
  ASSUME HotplugTypeOK, NEW t \in Thread, NEW call \in Calls(t),
         NEW fires \in Seq(Events),
         Over(t, call, fires)
  PROVE  /\ todo' \in [Thread -> Seq(Events)]
         /\ call \in Pending
         /\ Pending' \subseteq Pending \cup CallsOf(fires)
         /\ Pending \ {call} \subseteq Pending'
         /\ CallsOf(fires) \subseteq Pending'
<1> DEFINE rest == Head(todo[t]) \ {call}
           last == IF rest = {} THEN <<>> ELSE <<rest>>
           tail == Tail(todo[t])
<1>1. todo \in [Thread -> Seq(Events)] /\ todo[t] # <<>> /\ call \in Head(todo[t])
  BY DEF HotplugTypeOK, Events, Calls
<1>2. /\ Head(todo[t]) \in Events
      /\ ToSet(todo[t]) = {Head(todo[t])} \cup ToSet(tail)
  BY <1>1, HeadTail
<1>3. last \in Seq(Events) /\ CallsOf(last) = rest
  <2>1. CASE rest = {}
    BY <2>1 DEF CallsOf, ToSet
  <2>2. CASE rest # {}
    <3>1. rest \in Events
      BY <1>2, <2>2 DEF Events
    <3> HIDE DEF rest
    <3>2. ToSet(<<rest>>) = {rest}
      BY DEF ToSet
    <3>3. QED
      BY <2>2, <3>1, <3>2 DEF CallsOf
  <2>3. QED
    BY <2>1, <2>2
<1>4. GoOn(t, fires \o last)
  BY DEF Over
<1> HIDE DEF last, tail
<1>5. fires \o last \in Seq(Events) /\ CallsOf(fires \o last) = CallsOf(fires) \cup rest
  BY <1>3, JoinIs DEF CallsOf
<1>6. /\ todo' \in [Thread -> Seq(Events)]
      /\ Waiting(t)' = CallsOf(fires) \cup rest \cup CallsOf(tail)
      /\ \A u \in Thread \ {t} : Waiting(u)' = Waiting(u)
  BY <1>1, <1>4, <1>5, GoOnIs DEF tail
<1>7. Waiting(t) = Head(todo[t]) \cup CallsOf(tail)
  BY <1>2 DEF Waiting, CallsOf
<1>8. Pending' = UNION {Waiting(u)' : u \in Thread}
  BY DEF Pending
<1> HIDE DEF Waiting, CallsOf
<1>9. QED
  BY <1>1, <1>6, <1>7, <1>8 DEF Pending

\* A set of fewer joypads is finite too, so that a move goes through all of them.
LEMMA JoypadList ==
  ASSUME HotplugTypeOK
  PROVE  /\ SetToSeq(joypads) \in Seq(joypads)
         /\ \A p \in joypads : \E i \in DOMAIN SetToSeq(joypads) : SetToSeq(joypads)[i] = p
<1>1. IsFiniteSet(joypads)
  BY HotplugAssumption, FS_Subset DEF HotplugTypeOK
<1>2. QED
  BY <1>1, SetToSeqIs

InEvents(p) == <<PlugEvent(p), UnplugEvent(p), Do("push", p)>>
OutEvents(p) == <<PlugEvent(p), UnplugLobbyEvent(p)>>

\* What a join fires: for each joypad of the session its events, and no other.
LEMMA MovesIn ==
  ASSUME HotplugTypeOK
  PROVE  LET events == ForEachJoypad([p \in joypads |-> InEvents(p)])
         IN  /\ events \in Seq(Events)
             /\ \A c \in CallsOf(events) :
                  /\ c.do \in {"moonlight_plug", "lobbies_plug", "session_unplug",
                               "lobbies_unplug", "push"}
                  /\ c.pad \in joypads
             /\ \A p \in joypads : C("session_unplug", p) \in CallsOf(events)
<1> DEFINE pads == SetToSeq(joypads)
           seqs == [i \in DOMAIN pads |-> InEvents(pads[i])]
           events == FlattenSeq(seqs)
<1>1. /\ joypads \subseteq Pad /\ pads \in Seq(joypads)
      /\ DOMAIN pads = 1..Len(pads) /\ Len(pads) \in Nat
      /\ \A i \in DOMAIN pads : pads[i] \in joypads
      /\ \A p \in joypads : \E i \in DOMAIN pads : pads[i] = p
  BY JoypadList DEF HotplugTypeOK
<1>2. events = ForEachJoypad([p \in joypads |-> InEvents(p)])
  <2>1. seqs = [i \in DOMAIN pads |-> [p \in joypads |-> InEvents(p)][pads[i]]]
    BY <1>1
  <2>2. QED
    BY <2>1 DEF ForEachJoypad
<1> HIDE DEF pads
<1>3. ASSUME NEW p \in joypads
      PROVE  /\ InEvents(p) \in Seq(Events)
             /\ ToSet(InEvents(p)) = {PlugEvent(p), UnplugEvent(p), Do("push", p)}
  <2>1. p \in Pad /\ "push" \in Whats
    BY <1>1 DEF Whats
  <2>2. PlugEvent(p) \in Events /\ UnplugEvent(p) \in Events /\ Do("push", p) \in Events
    BY <2>1, EventsAre, DoIs
  <2> HIDE DEF Events
  <2>3. QED
    BY <2>2 DEF InEvents, ToSet
<1>4. seqs \in Seq(Seq(Events))
  BY <1>1, <1>3
<1>5. events \in Seq(Events) /\ ToSet(events) = UNION {ToSet(seqs[i]) : i \in DOMAIN seqs}
  BY <1>4, FlattenIs
<1>6. \A i \in DOMAIN pads : i \in DOMAIN seqs /\ seqs[i] = InEvents(pads[i])
  OBVIOUS
<1>7. DOMAIN seqs = DOMAIN pads
  OBVIOUS
<1> HIDE DEF seqs, events
<1>8. ASSUME NEW c \in CallsOf(events)
      PROVE  \E p \in joypads : c \in {C("moonlight_plug", p), C("lobbies_plug", p),
                 C("session_unplug", p), C("lobbies_unplug", p), C("push", p)}
  <2>1. PICK S \in ToSet(events) : c \in S
    BY DEF CallsOf
  <2>2. PICK i \in DOMAIN pads : S \in ToSet(InEvents(pads[i]))
    BY <1>5, <1>6, <1>7
  <2>3. pads[i] \in Pad /\ pads[i] \in joypads /\ "push" \in Whats
    BY <1>1 DEF Whats
  <2>4. S \in {PlugEvent(pads[i]), UnplugEvent(pads[i]), Do("push", pads[i])}
    BY <1>3, <2>2, <2>3
  <2>5. QED
    BY <2>1, <2>3, <2>4, EventsAre, DoIs
<1>9. ASSUME NEW p \in joypads PROVE C("session_unplug", p) \in CallsOf(events)
  <2>1. PICK i \in DOMAIN pads : pads[i] = p
    BY <1>1
  <2>2. UnplugEvent(p) \in ToSet(events)
    BY <1>3, <1>5, <1>6, <2>1
  <2>3. C("session_unplug", p) \in UnplugEvent(p)
    BY <1>1, EventsAre
  <2>4. QED
    BY <2>2, <2>3 DEF CallsOf
<1>10. \A c \in CallsOf(events) :
         /\ c.do \in {"moonlight_plug", "lobbies_plug", "session_unplug",
                      "lobbies_unplug", "push"}
         /\ c.pad \in joypads
  BY <1>8 DEF C
<1>11. QED
  BY <1>2, <1>5, <1>9, <1>10

\* What a leave fires.
LEMMA MovesOut ==
  ASSUME HotplugTypeOK
  PROVE  LET events == ForEachJoypad([p \in joypads |-> OutEvents(p)])
         IN  /\ events \in Seq(Events)
             /\ \A c \in CallsOf(events) :
                  /\ c.do \in {"moonlight_plug", "lobbies_plug", "lobby_unplug"}
                  /\ c.pad \in joypads
             /\ \A p \in joypads : /\ C("moonlight_plug", p) \in CallsOf(events)
                                   /\ C("lobby_unplug", p) \in CallsOf(events)
<1> DEFINE pads == SetToSeq(joypads)
           seqs == [i \in DOMAIN pads |-> OutEvents(pads[i])]
           events == FlattenSeq(seqs)
<1>1. /\ joypads \subseteq Pad /\ pads \in Seq(joypads)
      /\ DOMAIN pads = 1..Len(pads) /\ Len(pads) \in Nat
      /\ \A i \in DOMAIN pads : pads[i] \in joypads
      /\ \A p \in joypads : \E i \in DOMAIN pads : pads[i] = p
  BY JoypadList DEF HotplugTypeOK
<1>2. events = ForEachJoypad([p \in joypads |-> OutEvents(p)])
  <2>1. seqs = [i \in DOMAIN pads |-> [p \in joypads |-> OutEvents(p)][pads[i]]]
    BY <1>1
  <2>2. QED
    BY <2>1 DEF ForEachJoypad
<1> HIDE DEF pads
<1>3. ASSUME NEW p \in joypads
      PROVE  /\ OutEvents(p) \in Seq(Events)
             /\ ToSet(OutEvents(p)) = {PlugEvent(p), UnplugLobbyEvent(p)}
  <2>1. p \in Pad
    BY <1>1
  <2>2. PlugEvent(p) \in Events /\ UnplugLobbyEvent(p) \in Events
    BY <2>1, EventsAre
  <2> HIDE DEF Events
  <2>3. QED
    BY <2>2 DEF OutEvents, ToSet
<1>4. seqs \in Seq(Seq(Events))
  BY <1>1, <1>3
<1>5. events \in Seq(Events) /\ ToSet(events) = UNION {ToSet(seqs[i]) : i \in DOMAIN seqs}
  BY <1>4, FlattenIs
<1>6. \A i \in DOMAIN pads : i \in DOMAIN seqs /\ seqs[i] = OutEvents(pads[i])
  OBVIOUS
<1>7. DOMAIN seqs = DOMAIN pads
  OBVIOUS
<1> HIDE DEF seqs, events
<1>8. ASSUME NEW c \in CallsOf(events)
      PROVE  \E p \in joypads : c \in {C("moonlight_plug", p), C("lobbies_plug", p),
                                        C("lobby_unplug", p)}
  <2>1. PICK S \in ToSet(events) : c \in S
    BY DEF CallsOf
  <2>2. PICK i \in DOMAIN pads : S \in ToSet(OutEvents(pads[i]))
    BY <1>5, <1>6, <1>7
  <2>3. pads[i] \in Pad /\ pads[i] \in joypads
    BY <1>1
  <2>4. S \in {PlugEvent(pads[i]), UnplugLobbyEvent(pads[i])}
    BY <1>3, <2>2, <2>3
  <2>5. QED
    BY <2>1, <2>3, <2>4, EventsAre
<1>9. ASSUME NEW p \in joypads
      PROVE  C("moonlight_plug", p) \in CallsOf(events) /\ C("lobby_unplug", p) \in CallsOf(events)
  <2>1. PICK i \in DOMAIN pads : pads[i] = p
    BY <1>1
  <2>2. PlugEvent(p) \in ToSet(events) /\ UnplugLobbyEvent(p) \in ToSet(events)
    BY <1>3, <1>5, <1>6, <2>1
  <2>3. C("moonlight_plug", p) \in PlugEvent(p) /\ C("lobby_unplug", p) \in UnplugLobbyEvent(p)
    BY <1>1, EventsAre
  <2>4. QED
    BY <2>2, <2>3 DEF CallsOf
<1>10. \A c \in CallsOf(events) :
         /\ c.do \in {"moonlight_plug", "lobbies_plug", "lobby_unplug"}
         /\ c.pad \in joypads
  BY <1>8 DEF C
<1>11. QED
  BY <1>2, <1>5, <1>9, <1>10

-----------------------------------------------------------------------------
(* Types. *)

LEMMA PadTypeInit == HotplugInit => HotplugTypeOK
<1> SUFFICES ASSUME HotplugInit PROVE HotplugTypeOK
  OBVIOUS
<1>1. todo \in [Thread -> Seq(Events)]
  BY DEF HotplugInit
<1>2. queue \in [Place -> Seq(Device)] /\ held \in [Place -> Device \cup {NoPad}]
  BY DEF HotplugInit
<1>3. \A w \in Place : held[w] # NoPad => held[w].for = w
  BY DEF HotplugInit
<1>4. QED
  BY <1>1, <1>2, <1>3 DEF HotplugInit, HotplugTypeOK, Events

\* The parts of TypeOK, for the steps that change only what threads fire.
LEMMA SameButTodo ==
  ASSUME HotplugTypeOK, UNCHANGED <<queue, up, held, plugged>>, inLobby' \in BOOLEAN,
         joypads' \subseteq Pad, todo' \in [Thread -> Seq(Events)]
  PROVE  HotplugTypeOK'
BY DEF HotplugTypeOK, Events

\* A device on a queue is of a place and a joypad.
LEMMA PushType ==
  ASSUME HotplugTypeOK, NEW w \in Place, NEW for \in Place, NEW p \in Pad,
         Push(w, for, p)
  PROVE  queue' \in [Place -> Seq(Device)]
<1>1. [for |-> for, pad |-> p] \in Device
  BY DEF Device
<1> HIDE DEF Device
<1>2. QED
  BY <1>1 DEF HotplugTypeOK, Push

\* The lists a thread begins with are events.
LEMMA BeginType ==
  ASSUME HotplugTypeOK, NEW t \in Thread, NEW events \in Seq(Events),
         Begin(t, events)
  PROVE  HotplugTypeOK'
<1>1. todo' \in [Thread -> Seq(Events)]
  BY DEF Begin, HotplugTypeOK, Events
<1>2. QED
  BY <1>1, SameButTodo DEF Begin, HotplugTypeOK

LEMMA FiresType ==
  ASSUME NEW p \in Pad
  PROVE  /\ <<PlugEvent(p), Do("add", p)>> \in Seq(Events)
         /\ <<UnplugEvent(p), Do("drop", p)>> \in Seq(Events)
         /\ <<UnplugLobbyEvent(p)>> \in Seq(Events)
<1>1. /\ PlugEvent(p) \in Events /\ UnplugEvent(p) \in Events
      /\ UnplugLobbyEvent(p) \in Events
  BY EventsAre
<1>2. Do("add", p) \in Events /\ Do("drop", p) \in Events
  BY DoIs DEF Whats
<1> HIDE DEF Events
<1>3. QED
  BY <1>1, <1>2

LEMMA MoveLists ==
  /\ <<Move("enter"), Move("move_in")>> \in Seq(Events)
  /\ <<Move("exit"), Move("move_out")>> \in Seq(Events)
<1>1. /\ Move("enter") \in Events /\ Move("move_in") \in Events
      /\ Move("exit") \in Events /\ Move("move_out") \in Events
  BY MovesAre
<1> HIDE DEF Events
<1>2. QED
  BY <1>1

\* Every action keeps every variable in its type.
LEMMA PadTypeStep ==
  HotplugTypeOK /\ [HotplugNext]_hotplugVars => HotplugTypeOK'
<1> SUFFICES ASSUME HotplugTypeOK, [HotplugNext]_hotplugVars PROVE HotplugTypeOK'
  OBVIOUS
<1>0. <<>> \in Seq(Events)
  OBVIOUS
<1>1. ASSUME NEW p \in Pad, ControllerArrival(p) PROVE HotplugTypeOK'
  BY <1>1, FiresType, BeginType DEF ControllerArrival, Thread
<1>2. ASSUME NEW p \in Pad, ControllerGone(p) PROVE HotplugTypeOK'
  BY <1>2, FiresType, BeginType DEF ControllerGone, Thread
<1>3. ASSUME NEW t \in ApiThread, JoinLobby(t) PROVE HotplugTypeOK'
  BY <1>3, MoveLists, BeginType DEF JoinLobby, Thread
<1>4. ASSUME NEW t \in Thread, LeaveLobby(t) PROVE HotplugTypeOK'
  BY <1>4, MoveLists, BeginType DEF LeaveLobby
<1>5. ASSUME NEW t \in Thread, Enter(t) \/ Exit(t)
      PROVE HotplugTypeOK'
  <2>1. todo' \in [Thread -> Seq(Events)]
    BY <1>0, <1>5, GoOnIs DEF Enter, Exit, Doing
  <2>2. QED
    BY <1>5, <2>1, SameButTodo DEF Enter, Exit, HotplugTypeOK
<1>6. ASSUME NEW t \in Thread, MoveIn(t) PROVE HotplugTypeOK'
  <2>1. GoOn(t, ForEachJoypad([p \in joypads |-> InEvents(p)])) /\ todo[t] # <<>>
    BY <1>6 DEF MoveIn, InEvents, ForEachJoypad, Doing
  <2>2. ForEachJoypad([p \in joypads |-> InEvents(p)]) \in Seq(Events)
    BY MovesIn
  <2>3. todo' \in [Thread -> Seq(Events)]
    BY <2>1, <2>2, GoOnIs
  <2>4. QED
    BY <1>6, <2>3, SameButTodo DEF MoveIn, HotplugTypeOK
<1>7. ASSUME NEW t \in Thread, MoveOut(t) PROVE HotplugTypeOK'
  <2>1. GoOn(t, ForEachJoypad([p \in joypads |-> OutEvents(p)])) /\ todo[t] # <<>>
    BY <1>7 DEF MoveOut, OutEvents, ForEachJoypad, Doing
  <2>2. ForEachJoypad([p \in joypads |-> OutEvents(p)]) \in Seq(Events)
    BY MovesOut
  <2>3. todo' \in [Thread -> Seq(Events)]
    BY <2>1, <2>2, GoOnIs
  <2>4. QED
    BY <1>7, <2>3, SameButTodo DEF MoveOut, HotplugTypeOK
<1>8. ASSUME NEW t \in Thread, NEW p \in Pad, MoonlightPlug(t, p)
      PROVE HotplugTypeOK'
  <2>1. todo' \in [Thread -> Seq(Events)]
    BY <1>0, <1>8, OverIs DEF MoonlightPlug
  <2>2. queue' \in [Place -> Seq(Device)]
    BY <1>8, PushType DEF MoonlightPlug, HotplugTypeOK, Place
  <2>3. QED
    BY <1>8, <2>1, <2>2 DEF MoonlightPlug, HotplugTypeOK, Events
<1>9. ASSUME NEW t \in Thread, NEW p \in Pad, LobbiesPlug(t, p)
      PROVE HotplugTypeOK'
  <2>1. todo' \in [Thread -> Seq(Events)]
    BY <1>0, <1>9, OverIs DEF LobbiesPlug
  <2>2. queue' \in [Place -> Seq(Device)]
    BY <1>9, PushType DEF LobbiesPlug, HotplugTypeOK, Place
  <2>3. QED
    BY <1>9, <2>1, <2>2 DEF LobbiesPlug, HotplugTypeOK, Events
<1>10. ASSUME NEW t \in Thread, NEW p \in Pad, LobbiesUnplug(t, p)
       PROVE HotplugTypeOK'
  <2>1. (IF inLobby THEN <<UnplugLobbyEvent(p)>> ELSE <<>>) \in Seq(Events)
    BY <1>0, FiresType
  <2>2. todo' \in [Thread -> Seq(Events)]
    BY <2>1, <1>10, OverIs DEF LobbiesUnplug
  <2>3. QED
    BY <1>10, <2>2, SameButTodo DEF LobbiesUnplug, HotplugTypeOK
<1>11. ASSUME NEW t \in Thread, NEW p \in Pad, JoinPush(t, p)
       PROVE HotplugTypeOK'
  <2>1. todo' \in [Thread -> Seq(Events)]
    BY <1>0, <1>11, OverIs DEF JoinPush
  <2>2. queue' \in [Place -> Seq(Device)]
    BY <1>11, PushType DEF JoinPush, HotplugTypeOK, Place
  <2>3. QED
    BY <1>11, <2>1, <2>2 DEF JoinPush, HotplugTypeOK, Events
<1>12. ASSUME NEW t \in Thread, NEW p \in Pad, NEW w \in Place,
              RunnerUnplug(t, w, p)
       PROVE  HotplugTypeOK'
  <2>1. todo' \in [Thread -> Seq(Events)]
    BY <1>0, <1>12, OverIs DEF RunnerUnplug
  <2>2. plugged' \in [Place -> SUBSET Pad]
    BY <1>12 DEF RunnerUnplug, HotplugTypeOK
  <2>3. QED
    BY <1>12, <2>1, <2>2 DEF RunnerUnplug, HotplugTypeOK, Events
<1>13. ASSUME NEW p \in Pad, AddJoypad(p) \/ DropJoypad(p)
       PROVE HotplugTypeOK'
  <2>1. Control \in Thread
    BY DEF Thread
  <2>2. todo' \in [Thread -> Seq(Events)]
    BY <1>0, <1>13, <2>1, OverIs DEF AddJoypad, DropJoypad
  <2>3. joypads' \subseteq Pad
    BY <1>13 DEF AddJoypad, DropJoypad, HotplugTypeOK
  <2>4. QED
    BY <1>13, <2>2, <2>3, SameButTodo
       DEF AddJoypad, DropJoypad, HotplugTypeOK
<1>14. ASSUME NEW w \in Place, RunnerStarts(w) PROVE HotplugTypeOK'
  BY <1>14 DEF RunnerStarts, HotplugTypeOK
<1>15. ASSUME NEW w \in Place, Pop(w) PROVE HotplugTypeOK'
  <2>1. queue[w] \in Seq(Device) /\ queue[w] # <<>>
    BY <1>15 DEF Pop, HotplugTypeOK
  <2>2. Head(queue[w]) \in Device /\ Tail(queue[w]) \in Seq(Device)
    BY <2>1, HeadTail
  <2>3. queue' \in [Place -> Seq(Device)]
    BY <1>15, <2>2 DEF Pop, HotplugTypeOK
  <2>4. /\ held' \in [Place -> Device \cup {NoPad}]
        /\ \A v \in Place : held'[v] # NoPad => held'[v].for = v
    <3> DEFINE new == IF Head(queue[w]).for = w THEN Head(queue[w]) ELSE NoPad
    <3>1. new \in Device \cup {NoPad} /\ (new # NoPad => new.for = w)
      BY <2>2
    <3>2. held' = [held EXCEPT ![w] = new]
      BY <1>15 DEF Pop
    <3> HIDE DEF new
    <3>3. QED
      BY <3>1, <3>2 DEF HotplugTypeOK
  <2>5. QED
    BY <1>15, <2>3, <2>4 DEF Pop, HotplugTypeOK
<1>16. ASSUME NEW w \in Place, PlugDevice(w) PROVE HotplugTypeOK'
  <2>1. held[w].pad \in Pad
    BY <1>16 DEF PlugDevice, HotplugTypeOK, Device
  <2>2. QED
    BY <1>16, <2>1 DEF PlugDevice, HotplugTypeOK
<1>17. CASE UNCHANGED hotplugVars
  BY <1>17 DEF hotplugVars, HotplugTypeOK
<1>18. QED
  BY <1>1, <1>2, <1>3, <1>4, <1>5, <1>6, <1>7, <1>8, <1>9, <1>10, <1>11, <1>12, <1>13,
     <1>14, <1>15, <1>16, <1>17 DEF HotplugNext, ThreadStep, RunnerStep

\* Every variable stays in its type: among others, a runner holds only devices of its own,
\* and no thread has an empty event to fire. Also when events overlap.
THEOREM PadTypeCorrect == HotplugSpec => []HotplugTypeOK
<1>1. HotplugTypeOK /\ [HotplugNext]_hotplugVars => HotplugTypeOK'
  BY PadTypeStep
<1>2. QED
  BY <1>1, PadTypeInit, PTL DEF HotplugSpec

-----------------------------------------------------------------------------
(* The inductive invariant: what every joypad is waiting for. *)

\* The joypads that are in a container, in its runner's hands or on its queue.
At(w) == plugged[w] \cup {p \in Pad : held[w] # NoPad /\ held[w].pad = p}
         \cup {p \in Pad : [for |-> w, pad |-> p] \in ToSet(queue[w])}

\* Only a runner in its loop plugs a device.
RunnerUp == \A w \in Place : plugged[w] # {} \/ held[w] # NoPad => w \in up

\* Nothing is on its way to the container the session does not play in.
Other == IF inLobby THEN "session" ELSE "lobby"
OtherDrained == queue[Other] = <<>> /\ held[Other] = NoPad

\* In a lobby: what the session's container still has is about to be taken out
\* of it, and the lobby has no joypad that is gone for good.
InLobbyOK ==
  inLobby =>
    /\ \A p \in plugged["session"] :
         C("move_in", NoPad) \in Pending \/ C("session_unplug", p) \in Pending
    /\ \A p \in At("lobby") :
         \/ p \in joypads \/ C("add", p) \in Pending
         \/ C("lobbies_unplug", p) \in Pending \/ C("lobby_unplug", p) \in Pending

\* In no lobby: what the lobby's container still has is about to be taken out of it,
\* the session's has no joypad that is gone for good, and gets all the others.
AloneOK ==
  ~inLobby =>
    /\ \A p \in plugged["lobby"] :
         C("move_out", NoPad) \in Pending \/ C("lobby_unplug", p) \in Pending
    /\ \A p \in At("session") :
         \/ p \in joypads \/ C("add", p) \in Pending
         \/ C("session_unplug", p) \in Pending
    /\ \A p \in joypads :
         \/ p \in At("session") \/ C("moonlight_plug", p) \in Pending
         \/ C("move_out", NoPad) \in Pending \/ C("drop", p) \in Pending
    /\ \A p \in Pad : C("add", p) \in Pending =>
         p \in At("session") \/ C("moonlight_plug", p) \in Pending

\* What threads are doing: one thing at a time, as events are spaced.
OnlyCalls(whats, pads) == \A c \in Pending : c.do \in whats /\ c.pad \in pads
Only(t, events) == todo[t] = events /\ \A u \in Thread \ {t} : todo[u] = <<>>

Arriving ==
  \E p \in Pad \ joypads :
    /\ OnlyCalls({"moonlight_plug", "lobbies_plug", "add"}, {p})
    /\ C("add", p) \in Pending
Going ==
  /\ Drained
  /\ \E p \in Pad :
       /\ OnlyCalls({"session_unplug", "lobbies_unplug", "lobby_unplug", "drop"}, {p})
       /\ p \in joypads => C("drop", p) \in Pending
       /\ inLobby /\ p \in plugged["lobby"] =>
            C("lobbies_unplug", p) \in Pending \/ C("lobby_unplug", p) \in Pending
       /\ ~inLobby /\ p \in plugged["session"] => C("session_unplug", p) \in Pending
Joining ==
  /\ Drained
  /\ \E t \in Thread :
       \/ ~inLobby /\ Only(t, <<Move("enter"), Move("move_in")>>)
       \/ inLobby /\ Only(t, <<Move("move_in")>>) /\ plugged["session"] \subseteq joypads
Leaving ==
  /\ Drained
  /\ \E t \in Thread :
       \/ inLobby /\ Only(t, <<Move("exit"), Move("move_out")>>)
       \/ ~inLobby /\ Only(t, <<Move("move_out")>>) /\ plugged["lobby"] \subseteq joypads
MovingIn ==
  inLobby /\ OnlyCalls({"moonlight_plug", "lobbies_plug", "session_unplug",
                        "lobbies_unplug", "lobby_unplug", "push", "add"}, joypads)
MovingOut ==
  ~inLobby /\ OnlyCalls({"moonlight_plug", "lobbies_plug", "lobby_unplug", "add"}, joypads)

Modes == Arriving \/ Going \/ Joining \/ Leaving \/ MovingIn \/ MovingOut

PadsInv == RunnerUp /\ OtherDrained /\ InLobbyOK /\ AloneOK /\ Modes

-----------------------------------------------------------------------------
\* Nothing waits while no thread has an event.
LEMMA QuietIs ==
  ASSUME Quiet
  PROVE  Pending = {}
BY DEF Quiet, Pending, Waiting, CallsOf, ToSet

LEMMA PadsInit == HotplugInit => PadsInv
<1> SUFFICES ASSUME HotplugInit PROVE PadsInv
  OBVIOUS
<1>1. Pending = {}
  BY QuietIs DEF HotplugInit, Quiet
<1>2. /\ \A w \in Place : plugged[w] = {} /\ held[w] = NoPad /\ queue[w] = <<>>
      /\ ~inLobby /\ joypads = {}
  BY DEF HotplugInit
<1>3. "session" \in Place /\ "lobby" \in Place
  BY DEF Place
<1>4. At("session") = {}
  BY <1>2, <1>3 DEF At, ToSet
<1>5. MovingOut
  BY <1>1, <1>2 DEF MovingOut, OnlyCalls
<1>6. QED
  BY <1>1, <1>2, <1>3, <1>4, <1>5
     DEF PadsInv, RunnerUp, OtherDrained, Other, InLobbyOK, AloneOK, Modes

\* What the event of the last begun move or controller leaves in each container, when
\* nothing is on its way.
LEMMA AtRest ==
  ASSUME HotplugTypeOK, PadsInv, Quiet, Drained
  PROVE  /\ Pending = {} /\ \A w \in Place : At(w) = plugged[w]
         /\ inLobby => plugged["session"] = {} /\ plugged["lobby"] \subseteq joypads
         /\ ~inLobby => plugged["lobby"] = {} /\ plugged["session"] = joypads
<1>1. Pending = {}
  BY QuietIs
<1>2. ASSUME NEW w \in Place PROVE At(w) = plugged[w]
  BY DEF Drained, At, ToSet
<1>3. "session" \in Place /\ "lobby" \in Place
  BY DEF Place
<1>4. QED
  BY <1>1, <1>2, <1>3 DEF PadsInv, InLobbyOK, AloneOK

\* A thread in a handler of a joypad's event has not begun a move.
LEMMA NotMoving ==
  ASSUME HotplugTypeOK, NEW t \in Thread,
         NEW what \in Whats \ {"enter", "exit", "move_in", "move_out"},
         NEW p \in Pad, C(what, p) \in Calls(t)
  PROVE  ~Joining /\ ~Leaving
<1>1. todo[t] # <<>> /\ C(what, p) \in Head(todo[t])
  BY DEF Calls
<1>2. \A step \in {"enter", "exit", "move_in", "move_out"} : C(what, p) \notin Move(step)
  BY MovesAre DEF C
<1>3. \A a, b : Head(<<a, b>>) = a /\ Head(<<a>>) = a
  OBVIOUS
<1>4. ASSUME NEW u \in Thread,
             \/ Only(u, <<Move("enter"), Move("move_in")>>) \/ Only(u, <<Move("move_in")>>)
             \/ Only(u, <<Move("exit"), Move("move_out")>>) \/ Only(u, <<Move("move_out")>>)
      PROVE  FALSE
  <2>1. t = u
    BY <1>1, <1>4 DEF Only
  <2>2. \E step \in {"enter", "exit", "move_in", "move_out"} : Head(todo[t]) = Move(step)
    BY <1>3, <1>4, <2>1 DEF Only
  <2>3. QED
    BY <1>1, <1>2, <2>2
<1>5. QED
  BY <1>4 DEF Joining, Leaving

-----------------------------------------------------------------------------
(* What begins. *)

\* A thread that begins when nobody has an event is the only one that has any.
LEMMA BeginIs ==
  ASSUME HotplugTypeOK, NEW t \in Thread, NEW events \in Seq(Events),
         Quiet, Begin(t, events)
  PROVE  /\ Only(t, events)' /\ Pending' = CallsOf(events)
         /\ UNCHANGED <<inLobby, joypads, queue, up, held, plugged>>
<1>1. todo'[t] = events /\ \A u \in Thread \ {t} : todo'[u] = <<>>
  BY DEF Begin, Quiet, HotplugTypeOK
<1>2. Only(t, events)'
  BY <1>1 DEF Only
<1>3. CallsOf(<<>>) = {}
  BY DEF CallsOf, ToSet
<1>4. Pending' = CallsOf(events)
  BY <1>1, <1>3 DEF Pending, Waiting
<1>5. QED
  BY <1>2, <1>4 DEF Begin

LEMMA SameAt ==
  ASSUME NEW w, UNCHANGED <<queue, held, plugged>>
  PROVE  At(w)' = At(w)
BY DEF At

\* Two events have the calls of both.
LEMMA TwoEvents ==
  ASSUME NEW a \in Events, NEW b \in Events
  PROVE  CallsOf(<<a, b>>) = a \cup b
<1>1. ToSet(<<a, b>>) = {a, b}
  BY DEF ToSet
<1>2. QED
  BY <1>1 DEF CallsOf

LEMMA ArrivalStep ==
  ASSUME HotplugTypeOK, PadsInv, Spaced, NEW p \in Pad, ControllerArrival(p)
  PROVE  PadsInv'
<1> DEFINE events == <<PlugEvent(p), Do("add", p)>>
<1>1. Control \in Thread /\ events \in Seq(Events) /\ Begin(Control, events) /\ p \notin joypads
  BY FiresType DEF Thread, ControllerArrival
<1>2. Quiet /\ Drained
  BY <1>1 DEF Begin
<1>3. /\ Pending' = CallsOf(events)
      /\ UNCHANGED <<inLobby, joypads, queue, up, held, plugged>>
  BY <1>1, <1>2, BeginIs
<1>4. CallsOf(events) = {C("moonlight_plug", p), C("lobbies_plug", p), C("add", p)}
  <2>1. PlugEvent(p) \in Events /\ Do("add", p) \in Events /\ Do("add", p) = {C("add", p)}
        /\ PlugEvent(p) = {C("moonlight_plug", p), C("lobbies_plug", p)}
    BY EventsAre, DoIs DEF Whats
  <2>2. CallsOf(<<PlugEvent(p), Do("add", p)>>) = PlugEvent(p) \cup Do("add", p)
    BY <2>1, TwoEvents
  <2>3. QED
    BY <2>1, <2>2
<1>5. /\ \A w \in Place : At(w)' = plugged[w]
      /\ inLobby => plugged["session"] = {} /\ plugged["lobby"] \subseteq joypads
      /\ ~inLobby => plugged["lobby"] = {} /\ plugged["session"] = joypads
  BY <1>2, <1>3, AtRest, SameAt
<1>6. "session" \in Place /\ "lobby" \in Place
  BY DEF Place
<1>7. Arriving'
  BY <1>1, <1>3, <1>4 DEF Arriving, OnlyCalls, C
<1> HIDE DEF events
<1>8. InLobbyOK' /\ AloneOK'
  <2>1. \A q \in Pad : C("add", q) \in Pending' => C("moonlight_plug", q) \in Pending'
    BY <1>3, <1>4 DEF C
  <2>2. QED
    BY <1>3, <1>5, <1>6, <2>1 DEF InLobbyOK, AloneOK
<1>9. RunnerUp' /\ OtherDrained'
  BY <1>3 DEF PadsInv, RunnerUp, OtherDrained, Other
<1>10. QED
  BY <1>7, <1>8, <1>9 DEF PadsInv, Modes

LEMMA GoneStep ==
  ASSUME HotplugTypeOK, PadsInv, Spaced, NEW p \in Pad, ControllerGone(p)
  PROVE  PadsInv'
<1> DEFINE events == <<UnplugEvent(p), Do("drop", p)>>
<1>1. Control \in Thread /\ events \in Seq(Events) /\ Begin(Control, events)
  BY FiresType DEF Thread, ControllerGone
<1>2. Quiet /\ Drained
  BY <1>1 DEF Begin
<1>3. /\ Pending' = CallsOf(events)
      /\ UNCHANGED <<inLobby, joypads, queue, up, held, plugged>>
  BY <1>1, <1>2, BeginIs
<1>4. CallsOf(events) = {C("session_unplug", p), C("lobbies_unplug", p), C("drop", p)}
  <2>1. UnplugEvent(p) \in Events /\ Do("drop", p) \in Events /\ Do("drop", p) = {C("drop", p)}
        /\ UnplugEvent(p) = {C("session_unplug", p), C("lobbies_unplug", p)}
    BY EventsAre, DoIs DEF Whats
  <2>2. CallsOf(<<UnplugEvent(p), Do("drop", p)>>) = UnplugEvent(p) \cup Do("drop", p)
    BY <2>1, TwoEvents
  <2>3. QED
    BY <2>1, <2>2
<1>5. /\ \A w \in Place : At(w)' = plugged[w]
      /\ inLobby => plugged["session"] = {} /\ plugged["lobby"] \subseteq joypads
      /\ ~inLobby => plugged["lobby"] = {} /\ plugged["session"] = joypads
  BY <1>2, <1>3, AtRest, SameAt
<1>6. "session" \in Place /\ "lobby" \in Place
  BY DEF Place
<1>7. Drained'
  BY <1>2, <1>3 DEF Drained
<1>8. Going'
  BY <1>3, <1>4, <1>7 DEF Going, OnlyCalls, C
<1> HIDE DEF events
<1>9. InLobbyOK' /\ AloneOK'
  <2>1. \A q \in Pad : C("add", q) \notin Pending'
    BY <1>3, <1>4 DEF C
  <2>2. QED
    BY <1>3, <1>5, <1>6, <2>1 DEF InLobbyOK, AloneOK
<1>10. RunnerUp' /\ OtherDrained'
  BY <1>3 DEF PadsInv, RunnerUp, OtherDrained, Other
<1>11. QED
  BY <1>8, <1>9, <1>10 DEF PadsInv, Modes

LEMMA JoinStep ==
  ASSUME HotplugTypeOK, PadsInv, Spaced, NEW t \in Thread, JoinLobby(t)
  PROVE  PadsInv'
<1> DEFINE events == <<Move("enter"), Move("move_in")>>
<1>1. events \in Seq(Events) /\ Begin(t, events) /\ ~inLobby
  BY MoveLists DEF JoinLobby
<1>2. Quiet /\ Drained
  BY <1>1 DEF Begin
<1>3. /\ Only(t, events)' /\ Pending' = CallsOf(events)
      /\ UNCHANGED <<inLobby, joypads, queue, up, held, plugged>>
  BY <1>1, <1>2, BeginIs
<1>4. /\ \A w \in Place : At(w)' = plugged[w]
      /\ inLobby => plugged["session"] = {} /\ plugged["lobby"] \subseteq joypads
      /\ ~inLobby => plugged["lobby"] = {} /\ plugged["session"] = joypads
  BY <1>2, <1>3, AtRest, SameAt
<1>5. "session" \in Place /\ "lobby" \in Place
  BY DEF Place
<1>6. Drained'
  BY <1>2, <1>3 DEF Drained
<1>7. Joining'
  BY <1>1, <1>3, <1>6 DEF Joining
<1> HIDE DEF events
<1>8. InLobbyOK' /\ AloneOK'
  <2>1. CallsOf(events) = {C("enter", NoPad), C("move_in", NoPad)}
    BY MovesAre, TwoEvents DEF events
  <2>2. \A q \in Pad : C("add", q) \notin Pending'
    BY <1>3, <2>1 DEF C
  <2>3. QED
    BY <1>3, <1>4, <1>5, <2>2 DEF InLobbyOK, AloneOK
<1>9. RunnerUp' /\ OtherDrained'
  BY <1>3 DEF PadsInv, RunnerUp, OtherDrained, Other
<1>10. QED
  BY <1>7, <1>8, <1>9 DEF PadsInv, Modes

LEMMA LeaveStep ==
  ASSUME HotplugTypeOK, PadsInv, Spaced, NEW t \in Thread, LeaveLobby(t)
  PROVE  PadsInv'
<1> DEFINE events == <<Move("exit"), Move("move_out")>>
<1>1. events \in Seq(Events) /\ Begin(t, events) /\ inLobby
  BY MoveLists DEF LeaveLobby
<1>2. Quiet /\ Drained
  BY <1>1 DEF Begin
<1>3. /\ Only(t, events)' /\ Pending' = CallsOf(events)
      /\ UNCHANGED <<inLobby, joypads, queue, up, held, plugged>>
  BY <1>1, <1>2, BeginIs
<1>4. /\ \A w \in Place : At(w)' = plugged[w]
      /\ inLobby => plugged["session"] = {} /\ plugged["lobby"] \subseteq joypads
      /\ ~inLobby => plugged["lobby"] = {} /\ plugged["session"] = joypads
  BY <1>2, <1>3, AtRest, SameAt
<1>5. "session" \in Place /\ "lobby" \in Place
  BY DEF Place
<1>6. Drained'
  BY <1>2, <1>3 DEF Drained
<1>7. Leaving'
  BY <1>1, <1>3, <1>6 DEF Leaving
<1> HIDE DEF events
<1>8. InLobbyOK' /\ AloneOK'
  <2>1. CallsOf(events) = {C("exit", NoPad), C("move_out", NoPad)}
    BY MovesAre, TwoEvents DEF events
  <2>2. \A q \in Pad : C("add", q) \notin Pending'
    BY <1>3, <2>1 DEF C
  <2>3. QED
    BY <1>3, <1>4, <1>5, <2>2 DEF InLobbyOK, AloneOK
<1>9. RunnerUp' /\ OtherDrained'
  BY <1>3 DEF PadsInv, RunnerUp, OtherDrained, Other
<1>10. QED
  BY <1>7, <1>8, <1>9 DEF PadsInv, Modes

-----------------------------------------------------------------------------
(* The moves. *)

\* While one thread has events, what waits is what they have.
LEMMA OnlyIs ==
  ASSUME NEW t \in Thread, NEW events, Only(t, events)
  PROVE  Pending = CallsOf(events)
<1>1. \A u \in Thread : Waiting(u) = IF u = t THEN CallsOf(events) ELSE {}
  BY DEF Only, Waiting, CallsOf, ToSet
<1> HIDE DEF Waiting, CallsOf
<1>2. QED
  BY <1>1 DEF Pending

LEMMA OneEvent ==
  ASSUME NEW a \in Events
  PROVE  CallsOf(<<a>>) = a
<1>1. ToSet(<<a>>) = {a}
  BY DEF ToSet
<1>2. QED
  BY <1>1 DEF CallsOf

\* A step of a move is taken by the one thread that moves, when all is drained.
LEMMA MoveMode ==
  ASSUME HotplugTypeOK, Modes, NEW t \in Thread,
         NEW what \in {"enter", "exit", "move_in", "move_out"}, Doing(t, what)
  PROVE  /\ Drained /\ todo[t] # <<>>
         /\ what = "enter" => ~inLobby /\ Only(t, <<Move("enter"), Move("move_in")>>)
         /\ what = "exit" => inLobby /\ Only(t, <<Move("exit"), Move("move_out")>>)
         /\ what = "move_in" =>
              inLobby /\ Only(t, <<Move("move_in")>>) /\ plugged["session"] \subseteq joypads
         /\ what = "move_out" =>
              ~inLobby /\ Only(t, <<Move("move_out")>>) /\ plugged["lobby"] \subseteq joypads
<1>1. todo[t] # <<>> /\ Head(todo[t]) = Move(what) /\ Move(what) = {C(what, NoPad)}
  BY MovesAre DEF Doing
<1>2. C(what, NoPad) \in Pending
  <2>1. todo[t] \in Seq(Events)
    BY DEF HotplugTypeOK, Events
  <2>2. Head(todo[t]) \in ToSet(todo[t])
    BY <1>1, <2>1, HeadTail
  <2>3. C(what, NoPad) \in Waiting(t)
    BY <1>1, <2>2 DEF Waiting, CallsOf
  <2>4. QED
    BY <2>3 DEF Pending
<1>3. Joining \/ Leaving
  BY <1>2 DEF Modes, Arriving, Going, MovingIn, MovingOut, OnlyCalls, C
<1>4. \A a, b : Head(<<a, b>>) = a /\ Head(<<a>>) = a
  OBVIOUS
<1>5. \A a, b \in {"enter", "exit", "move_in", "move_out"} : a # b => Move(a) # Move(b)
  <2> SUFFICES ASSUME NEW a \in {"enter", "exit", "move_in", "move_out"},
                      NEW b \in {"enter", "exit", "move_in", "move_out"}, a # b
               PROVE  Move(a) # Move(b)
    OBVIOUS
  <2>1. Move(a) = {C(a, NoPad)} /\ Move(b) = {C(b, NoPad)}
    BY MovesAre
  <2>2. C(a, NoPad).do = a /\ C(b, NoPad).do = b
    BY DEF C
  <2>3. C(a, NoPad) # C(b, NoPad)
    BY <2>2
  <2>4. QED
    BY <2>1, <2>3
<1>6. \A u \in Thread : \A events : Only(u, events) => u = t /\ Head(events) = Move(what)
  BY <1>1 DEF Only
<1> HIDE DEF Only
<1>7. Move("enter") # Move("exit") /\ Move("enter") # Move("move_in")
      /\ Move("enter") # Move("move_out") /\ Move("exit") # Move("move_in")
      /\ Move("exit") # Move("move_out") /\ Move("move_in") # Move("move_out")
  BY <1>5
<1>8. QED
  BY <1>1, <1>3, <1>4, <1>6, <1>7 DEF Joining, Leaving

\* The first step of a move leaves the second.
LEMMA FirstStep ==
  ASSUME HotplugTypeOK, NEW t \in Thread, NEW a \in Events, NEW b \in Events,
         Only(t, <<a, b>>),
         GoOn(t, <<>>)
  PROVE  Only(t, <<b>>)' /\ Pending = a \cup b /\ Pending' = b
<1>1. Tail(<<a, b>>) = <<b>> /\ <<>> \o <<b>> = <<b>>
  OBVIOUS
<1>2. todo'[t] = <<b>> /\ \A u \in Thread \ {t} : todo'[u] = <<>>
  BY <1>1 DEF GoOn, Only, HotplugTypeOK
<1>3. Only(t, <<b>>)'
  BY <1>2 DEF Only
<1>4. Pending' = b
  <2>1. CallsOf(<<b>>) = b /\ CallsOf(<<>>) = {}
    BY OneEvent DEF CallsOf, ToSet
  <2>2. \A u \in Thread : Waiting(u)' = IF u = t THEN b ELSE {}
    BY <1>2, <2>1 DEF Waiting
  <2> HIDE DEF Waiting
  <2>3. QED
    BY <2>2 DEF Pending
<1>5. Pending = a \cup b
  BY OnlyIs, TwoEvents
<1>6. QED
  BY <1>3, <1>4, <1>5

\* What is on its way when all is drained.
LEMMA AtDrained ==
  ASSUME Drained, NEW w \in Place
  PROVE  At(w) = plugged[w]
BY DEF Drained, At, ToSet

LEMMA EnterStep ==
  ASSUME HotplugTypeOK, PadsInv, NEW t \in Thread, Enter(t)
  PROVE  PadsInv'
<1>1. /\ Drained /\ ~inLobby /\ Only(t, <<Move("enter"), Move("move_in")>>)
      /\ inLobby' /\ GoOn(t, <<>>) /\ UNCHANGED <<joypads, queue, up, held, plugged>>
  BY MoveMode DEF Enter, PadsInv
<1>2. /\ Move("enter") \in Events /\ Move("enter") = {C("enter", NoPad)}
      /\ Move("move_in") \in Events /\ Move("move_in") = {C("move_in", NoPad)}
  BY MovesAre
<1>3. /\ Only(t, <<Move("move_in")>>)'
      /\ Pending = {C("enter", NoPad), C("move_in", NoPad)} /\ Pending' = {C("move_in", NoPad)}
  BY <1>1, <1>2, FirstStep
<1>4. "session" \in Place /\ "lobby" \in Place
  BY DEF Place
<1>5. At("lobby")' = plugged["lobby"] /\ At("session") = plugged["session"]
  BY <1>1, <1>4, AtDrained, SameAt
<1>6. plugged["lobby"] = {} /\ plugged["session"] \subseteq joypads
  BY <1>1, <1>3, <1>5 DEF PadsInv, AloneOK, C
<1>7. Drained'
  BY <1>1 DEF Drained
<1>8. Joining'
  BY <1>1, <1>3, <1>6, <1>7 DEF Joining, Only
<1>9. InLobbyOK' /\ AloneOK'
  BY <1>1, <1>3, <1>5, <1>6 DEF InLobbyOK, AloneOK
<1>10. RunnerUp' /\ OtherDrained'
  BY <1>1, <1>4 DEF PadsInv, RunnerUp, OtherDrained, Other, Drained
<1>11. QED
  BY <1>8, <1>9, <1>10 DEF PadsInv, Modes

LEMMA ExitStep ==
  ASSUME HotplugTypeOK, PadsInv, NEW t \in Thread, Exit(t)
  PROVE  PadsInv'
<1>1. /\ Drained /\ inLobby /\ Only(t, <<Move("exit"), Move("move_out")>>)
      /\ ~inLobby' /\ GoOn(t, <<>>) /\ UNCHANGED <<joypads, queue, up, held, plugged>>
  BY MoveMode DEF Exit, PadsInv
<1>2. /\ Move("exit") \in Events /\ Move("exit") = {C("exit", NoPad)}
      /\ Move("move_out") \in Events /\ Move("move_out") = {C("move_out", NoPad)}
  BY MovesAre
<1>3. /\ Only(t, <<Move("move_out")>>)'
      /\ Pending = {C("exit", NoPad), C("move_out", NoPad)} /\ Pending' = {C("move_out", NoPad)}
  BY <1>1, <1>2, FirstStep
<1>4. "session" \in Place /\ "lobby" \in Place
  BY DEF Place
<1>5. At("session")' = plugged["session"] /\ At("lobby") = plugged["lobby"]
  BY <1>1, <1>4, AtDrained, SameAt
<1>6. plugged["session"] = {} /\ plugged["lobby"] \subseteq joypads
  BY <1>1, <1>3, <1>5 DEF PadsInv, InLobbyOK, C
<1>7. Drained'
  BY <1>1 DEF Drained
<1>8. Leaving'
  BY <1>1, <1>3, <1>6, <1>7 DEF Leaving, Only
<1>9. InLobbyOK' /\ AloneOK'
  <2>1. \A q \in Pad : C("add", q) \notin Pending'
    BY <1>3 DEF C
  <2>2. QED
    BY <1>1, <1>3, <1>5, <1>6, <2>1 DEF InLobbyOK, AloneOK
<1>10. RunnerUp' /\ OtherDrained'
  BY <1>1, <1>4 DEF PadsInv, RunnerUp, OtherDrained, Other, Drained
<1>11. QED
  BY <1>8, <1>9, <1>10 DEF PadsInv, Modes

\* The second step of a move fires its events, and nothing else waits.
LEMMA SecondStep ==
  ASSUME HotplugTypeOK, NEW t \in Thread, NEW a \in Events, Only(t, <<a>>),
         NEW events \in Seq(Events), GoOn(t, events)
  PROVE  Pending = a /\ Pending' = CallsOf(events)
<1>1. Pending = a
  BY OnlyIs, OneEvent
<1>2. Tail(<<a>>) = <<>> /\ <<a>> # <<>> /\ CallsOf(<<>>) = {}
  BY DEF CallsOf, ToSet
<1>3. todo[t] = <<a>> /\ \A u \in Thread \ {t} : todo[u] = <<>>
  BY DEF Only
<1>4. \A u \in Thread \ {t} : Waiting(u) = {}
  BY <1>2, <1>3 DEF Waiting
<1>5. /\ Waiting(t)' = CallsOf(events) \cup {}
      /\ \A u \in Thread \ {t} : Waiting(u)' = {}
  BY <1>2, <1>3, <1>4, GoOnIs
<1>6. Pending' = UNION {Waiting(u)' : u \in Thread}
  BY DEF Pending
<1> HIDE DEF Waiting, CallsOf
<1>7. QED
  BY <1>1, <1>5, <1>6

LEMMA MoveInStep ==
  ASSUME HotplugTypeOK, PadsInv, NEW t \in Thread,
         MoveIn(t)
  PROVE  PadsInv'
<1>1. /\ Drained /\ inLobby /\ Only(t, <<Move("move_in")>>)
      /\ plugged["session"] \subseteq joypads
      /\ GoOn(t, ForEachJoypad([p \in joypads |-> InEvents(p)]))
      /\ UNCHANGED <<inLobby, joypads, queue, up, held, plugged>>
  <2>1. GoOn(t, ForEachJoypad([p \in joypads |-> InEvents(p)])) /\ Doing(t, "move_in")
        /\ UNCHANGED <<inLobby, joypads, queue, up, held, plugged>>
    BY DEF MoveIn, InEvents, ForEachJoypad
  <2>2. QED
    BY <2>1, MoveMode DEF PadsInv
<1>2. PICK events : events = ForEachJoypad([p \in joypads |-> InEvents(p)])
  OBVIOUS
<1>3. /\ events \in Seq(Events)
      /\ \A c \in CallsOf(events) :
           /\ c.do \in {"moonlight_plug", "lobbies_plug", "session_unplug",
                        "lobbies_unplug", "push"}
           /\ c.pad \in joypads
      /\ \A p \in joypads : C("session_unplug", p) \in CallsOf(events)
  BY <1>2, MovesIn
<1>4. Move("move_in") \in Events /\ Move("move_in") = {C("move_in", NoPad)}
  BY MovesAre
<1>5. Pending = {C("move_in", NoPad)} /\ Pending' = CallsOf(events)
  BY <1>1, <1>2, <1>3, <1>4, SecondStep
<1>6. "session" \in Place /\ "lobby" \in Place
  BY DEF Place
<1>7. At("lobby")' = At("lobby")
  BY <1>1, SameAt
<1>8. At("lobby") \subseteq joypads
  BY <1>1, <1>5 DEF PadsInv, InLobbyOK, C
<1>9. InLobbyOK' /\ AloneOK'
  BY <1>1, <1>3, <1>5, <1>7, <1>8 DEF InLobbyOK, AloneOK
<1>10. MovingIn'
  BY <1>1, <1>3, <1>5 DEF MovingIn, OnlyCalls
<1>11. RunnerUp' /\ OtherDrained'
  BY <1>1 DEF PadsInv, RunnerUp, OtherDrained, Other
<1>12. QED
  BY <1>9, <1>10, <1>11 DEF PadsInv, Modes

LEMMA MoveOutStep ==
  ASSUME HotplugTypeOK, PadsInv, NEW t \in Thread,
         MoveOut(t)
  PROVE  PadsInv'
<1>1. /\ Drained /\ ~inLobby /\ Only(t, <<Move("move_out")>>)
      /\ plugged["lobby"] \subseteq joypads
      /\ GoOn(t, ForEachJoypad([p \in joypads |-> OutEvents(p)]))
      /\ UNCHANGED <<inLobby, joypads, queue, up, held, plugged>>
  <2>1. GoOn(t, ForEachJoypad([p \in joypads |-> OutEvents(p)])) /\ Doing(t, "move_out")
        /\ UNCHANGED <<inLobby, joypads, queue, up, held, plugged>>
    BY DEF MoveOut, OutEvents, ForEachJoypad
  <2>2. QED
    BY <2>1, MoveMode DEF PadsInv
<1>2. PICK events : events = ForEachJoypad([p \in joypads |-> OutEvents(p)])
  OBVIOUS
<1>3. /\ events \in Seq(Events)
      /\ \A c \in CallsOf(events) :
           /\ c.do \in {"moonlight_plug", "lobbies_plug", "lobby_unplug"}
           /\ c.pad \in joypads
      /\ \A p \in joypads : /\ C("moonlight_plug", p) \in CallsOf(events)
                            /\ C("lobby_unplug", p) \in CallsOf(events)
  BY <1>2, MovesOut
<1>4. Move("move_out") \in Events /\ Move("move_out") = {C("move_out", NoPad)}
  BY MovesAre
<1>5. Pending = {C("move_out", NoPad)} /\ Pending' = CallsOf(events)
  BY <1>1, <1>2, <1>3, <1>4, SecondStep
<1>6. At("session")' = At("session")
  BY <1>1, SameAt
<1>7. At("session") \subseteq joypads
  BY <1>1, <1>5 DEF PadsInv, AloneOK, C
<1>8. InLobbyOK' /\ AloneOK'
  <2>1. \A q \in Pad : C("add", q) \notin Pending'
    BY <1>3, <1>5 DEF C
  <2>2. QED
    BY <1>1, <1>3, <1>5, <1>6, <1>7, <2>1 DEF InLobbyOK, AloneOK
<1>9. MovingOut'
  BY <1>1, <1>3, <1>5 DEF MovingOut, OnlyCalls
<1>10. RunnerUp' /\ OtherDrained'
  BY <1>1 DEF PadsInv, RunnerUp, OtherDrained, Other
<1>11. QED
  BY <1>8, <1>9, <1>10 DEF PadsInv, Modes

-----------------------------------------------------------------------------
(* The handlers. *)

\* What a handler that fires nothing leaves of the calls that wait.
LEMMA CallIs ==
  ASSUME HotplugTypeOK, Modes, NEW t \in Thread, NEW p \in Pad,
         NEW what \in Whats \ {"enter", "exit", "move_in", "move_out"},
         C(what, p) \in Calls(t), Over(t, C(what, p), <<>>)
  PROVE  /\ C(what, p) \in Pending /\ Pending' \subseteq Pending
         /\ Pending \ {C(what, p)} \subseteq Pending'
         /\ Arriving \/ Going \/ MovingIn \/ MovingOut
<1>1. <<>> \in Seq(Events) /\ CallsOf(<<>>) = {}
  BY DEF CallsOf, ToSet
<1>2. QED
  BY <1>1, OverIs, NotMoving DEF Modes

\* A mode goes on while the session and its joypads stay where they are.
LEMMA ModeKept ==
  ASSUME Arriving \/ MovingIn \/ MovingOut, UNCHANGED <<inLobby, joypads>>,
         NEW call, Pending' \subseteq Pending, Pending \ {call} \subseteq Pending',
         call.do # "add"
  PROVE  Arriving' \/ MovingIn' \/ MovingOut'
<1>1. CASE Arriving
  <2>1. PICK p \in Pad \ joypads :
          /\ OnlyCalls({"moonlight_plug", "lobbies_plug", "add"}, {p})
          /\ C("add", p) \in Pending
    BY <1>1 DEF Arriving
  <2>2. C("add", p) # call
    BY DEF C
  <2>3. QED
    BY <2>1, <2>2 DEF Arriving, OnlyCalls
<1>2. CASE MovingIn
  BY <1>2 DEF MovingIn, OnlyCalls
<1>3. CASE MovingOut
  BY <1>3 DEF MovingOut, OnlyCalls
<1>4. QED
  BY <1>1, <1>2, <1>3

\* A device that is pushed is on its way to the place it names.
LEMMA PushAt ==
  ASSUME HotplugTypeOK, NEW w \in Place, NEW for \in Place, NEW p \in Pad,
         Push(w, for, p),
         UNCHANGED <<held, plugged>>
  PROVE  /\ At(w)' = IF for = w THEN At(w) \cup {p} ELSE At(w)
         /\ \A v \in Place \ {w} : At(v)' = At(v) /\ queue'[v] = queue[v]
<1> DEFINE device == [for |-> for, pad |-> p]
<1>1. device \in Device
  BY DEF Device
<1>2. queue[w] \in Seq(Device) /\ queue'[w] = Append(queue[w], device)
      /\ \A v \in Place \ {w} : queue'[v] = queue[v]
  BY DEF HotplugTypeOK, Push
<1>3. ToSet(Append(queue[w], device)) = ToSet(queue[w]) \cup {device}
  BY <1>1, <1>2, AppendIs
<1>4. \A q \in Pad : [for |-> w, pad |-> q] = device <=> (for = w /\ q = p)
  OBVIOUS
<1> HIDE DEF device
<1>5. QED
  BY <1>2, <1>3, <1>4 DEF At

LEMMA MoonlightPlugStep ==
  ASSUME HotplugTypeOK, PadsInv, NEW t \in Thread, NEW p \in Pad,
         MoonlightPlug(t, p)
  PROVE  PadsInv'
<1> DEFINE call == C("moonlight_plug", p)
<1>1. /\ call \in Calls(t) /\ Over(t, call, <<>>)
      /\ IF inLobby THEN UNCHANGED queue ELSE Push("session", "session", p)
      /\ UNCHANGED <<inLobby, joypads, up, held, plugged>>
  BY DEF MoonlightPlug, C
<1>2. /\ call \in Pending /\ Pending' \subseteq Pending
      /\ Pending \ {call} \subseteq Pending'
      /\ Arriving \/ Going \/ MovingIn \/ MovingOut
  BY <1>1, CallIs DEF Whats, PadsInv
<1>3. call.do = "moonlight_plug" /\ call.pad = p
  BY DEF C
<1>4. ~Going
  BY <1>2, <1>3 DEF Going, OnlyCalls
<1>5. Arriving' \/ MovingIn' \/ MovingOut'
  BY <1>1, <1>2, <1>3, <1>4, ModeKept
<1>6. "session" \in Place /\ "lobby" \in Place /\ "session" # "lobby"
  BY DEF Place
<1>7. p \in joypads \/ C("add", p) \in Pending
  BY <1>2, <1>3, <1>4 DEF Arriving, MovingIn, MovingOut, OnlyCalls
<1>8. \A c \in Pending : c.do # "moonlight_plug" \/ c.pad # p => c \in Pending'
  BY <1>2, <1>3
<1> HIDE DEF call
<1>9. CASE inLobby
  <2>1. At("lobby")' = At("lobby")
    BY <1>1, <1>9, SameAt
  <2>2. InLobbyOK' /\ AloneOK'
    BY <1>1, <1>8, <1>9, <2>1 DEF PadsInv, InLobbyOK, AloneOK, C
  <2>3. RunnerUp' /\ OtherDrained'
    BY <1>1, <1>9 DEF PadsInv, RunnerUp, OtherDrained, Other
  <2>4. QED
    BY <1>5, <2>2, <2>3 DEF PadsInv, Modes
<1>10. CASE ~inLobby
  <2>1. At("session")' = At("session") \cup {p} /\ queue'["lobby"] = queue["lobby"]
    BY <1>1, <1>6, <1>10, PushAt
  <2>2. /\ C("add", p) \in Pending => C("add", p) \in Pending'
        /\ \A q : q # p /\ C("moonlight_plug", q) \in Pending => C("moonlight_plug", q) \in Pending'
        /\ \A q, what : what # "moonlight_plug" /\ C(what, q) \in Pending => C(what, q) \in Pending'
    BY <1>8 DEF C
  <2>3. InLobbyOK' /\ AloneOK'
    <3>1. ASSUME NEW q \in At("session")'
          PROVE  \/ q \in joypads' \/ C("add", q) \in Pending'
                 \/ C("session_unplug", q) \in Pending'
      BY <1>1, <1>7, <1>10, <2>1, <2>2, <3>1 DEF PadsInv, AloneOK
    <3>2. ASSUME NEW q \in joypads'
          PROVE  \/ q \in At("session")' \/ C("moonlight_plug", q) \in Pending'
                 \/ C("move_out", NoPad) \in Pending' \/ C("drop", q) \in Pending'
      BY <1>1, <1>10, <2>1, <2>2, <3>2 DEF PadsInv, AloneOK
    <3>3. ASSUME NEW q \in Pad, C("add", q) \in Pending'
          PROVE  q \in At("session")' \/ C("moonlight_plug", q) \in Pending'
      BY <1>1, <1>2, <1>10, <2>1, <2>2, <3>3 DEF PadsInv, AloneOK
    <3>4. \A q \in plugged["lobby"] :
            C("move_out", NoPad) \in Pending' \/ C("lobby_unplug", q) \in Pending'
      BY <1>10, <2>2 DEF PadsInv, AloneOK
    <3>5. QED
      BY <1>1, <1>10, <3>1, <3>2, <3>3, <3>4 DEF InLobbyOK, AloneOK
  <2>4. RunnerUp' /\ OtherDrained'
    BY <1>1, <1>10, <2>1 DEF PadsInv, RunnerUp, OtherDrained, Other
  <2>5. QED
    BY <1>5, <2>3, <2>4 DEF PadsInv, Modes
<1>11. QED
  BY <1>9, <1>10

LEMMA LobbiesPlugStep ==
  ASSUME HotplugTypeOK, PadsInv, NEW t \in Thread, NEW p \in Pad,
         LobbiesPlug(t, p)
  PROVE  PadsInv'
<1> DEFINE call == C("lobbies_plug", p)
<1>1. /\ call \in Calls(t) /\ Over(t, call, <<>>)
      /\ IF inLobby THEN Push("lobby", "lobby", p) ELSE UNCHANGED queue
      /\ UNCHANGED <<inLobby, joypads, up, held, plugged>>
  BY DEF LobbiesPlug, C
<1>2. /\ call \in Pending /\ Pending' \subseteq Pending
      /\ Pending \ {call} \subseteq Pending'
      /\ Arriving \/ Going \/ MovingIn \/ MovingOut
  BY <1>1, CallIs DEF Whats, PadsInv
<1>3. call.do = "lobbies_plug" /\ call.pad = p
  BY DEF C
<1>4. ~Going
  BY <1>2, <1>3 DEF Going, OnlyCalls
<1>5. Arriving' \/ MovingIn' \/ MovingOut'
  BY <1>1, <1>2, <1>3, <1>4, ModeKept
<1>6. "session" \in Place /\ "lobby" \in Place /\ "session" # "lobby"
  BY DEF Place
<1>7. p \in joypads \/ C("add", p) \in Pending
  BY <1>2, <1>3, <1>4 DEF Arriving, MovingIn, MovingOut, OnlyCalls
<1>8. \A c \in Pending : c.do # "lobbies_plug" \/ c.pad # p => c \in Pending'
  BY <1>2, <1>3
<1> HIDE DEF call
<1>9. CASE ~inLobby
  <2>1. At("session")' = At("session")
    BY <1>1, <1>9, SameAt
  <2>2. \A q, what : what # "lobbies_plug" /\ C(what, q) \in Pending => C(what, q) \in Pending'
    BY <1>8 DEF C
  <2>3. InLobbyOK' /\ AloneOK'
    BY <1>1, <1>2, <1>9, <2>1, <2>2 DEF PadsInv, InLobbyOK, AloneOK
  <2>4. RunnerUp' /\ OtherDrained'
    BY <1>1, <1>9 DEF PadsInv, RunnerUp, OtherDrained, Other
  <2>5. QED
    BY <1>5, <2>3, <2>4 DEF PadsInv, Modes
<1>10. CASE inLobby
  <2>1. At("lobby")' = At("lobby") \cup {p} /\ queue'["session"] = queue["session"]
    BY <1>1, <1>6, <1>10, PushAt
  <2>2. InLobbyOK' /\ AloneOK'
    BY <1>1, <1>7, <1>8, <1>10, <2>1 DEF PadsInv, InLobbyOK, AloneOK, C
  <2>3. RunnerUp' /\ OtherDrained'
    BY <1>1, <1>10, <2>1 DEF PadsInv, RunnerUp, OtherDrained, Other
  <2>4. QED
    BY <1>5, <2>2, <2>3 DEF PadsInv, Modes
<1>11. QED
  BY <1>9, <1>10

LEMMA JoinPushStep ==
  ASSUME HotplugTypeOK, PadsInv, NEW t \in Thread, NEW p \in Pad,
         JoinPush(t, p)
  PROVE  PadsInv'
<1> DEFINE call == C("push", p)
<1>1. /\ call \in Calls(t) /\ Over(t, call, <<>>) /\ Push("lobby", "session", p)
      /\ UNCHANGED <<inLobby, joypads, up, held, plugged>>
  BY DEF JoinPush, C
<1>2. /\ call \in Pending /\ Pending' \subseteq Pending
      /\ Pending \ {call} \subseteq Pending'
      /\ Arriving \/ Going \/ MovingIn \/ MovingOut
  BY <1>1, CallIs DEF Whats, PadsInv
<1>3. call.do = "push" /\ call.pad = p
  BY DEF C
<1>4. MovingIn
  BY <1>2, <1>3 DEF Arriving, Going, MovingOut, OnlyCalls
<1>5. inLobby
  BY <1>4 DEF MovingIn
<1>6. MovingIn'
  BY <1>1, <1>2, <1>4 DEF MovingIn, OnlyCalls
<1>7. "session" \in Place /\ "lobby" \in Place /\ "session" # "lobby"
  BY DEF Place
<1>8. At("lobby")' = At("lobby") /\ queue'["session"] = queue["session"]
  BY <1>1, <1>7, PushAt
<1>9. \A c \in Pending : c.do # "push" => c \in Pending'
  BY <1>2, <1>3
<1> HIDE DEF call
<1>10. InLobbyOK' /\ AloneOK'
  BY <1>1, <1>5, <1>8, <1>9 DEF PadsInv, InLobbyOK, AloneOK, C
<1>11. RunnerUp' /\ OtherDrained'
  BY <1>1, <1>5, <1>8 DEF PadsInv, RunnerUp, OtherDrained, Other
<1>12. QED
  BY <1>6, <1>10, <1>11 DEF PadsInv, Modes

LEMMA LobbiesUnplugStep ==
  ASSUME HotplugTypeOK, PadsInv, NEW t \in Thread, NEW p \in Pad,
         LobbiesUnplug(t, p)
  PROVE  PadsInv'
<1> DEFINE call == C("lobbies_unplug", p)
<1>1. /\ call \in Calls(t)
      /\ Over(t, call, IF inLobby THEN <<UnplugLobbyEvent(p)>> ELSE <<>>)
      /\ UNCHANGED <<inLobby, joypads, queue, up, held, plugged>>
  BY DEF LobbiesUnplug, C
<1>2. /\ call \in Pending /\ Pending \ {call} \subseteq Pending'
      /\ inLobby => C("lobby_unplug", p) \in Pending'
      /\ Pending' \subseteq Pending \cup (IF inLobby THEN {C("lobby_unplug", p)} ELSE {})
  <2>1. <<UnplugLobbyEvent(p)>> \in Seq(Events) /\ <<>> \in Seq(Events)
    BY FiresType
  <2>2. CallsOf(<<UnplugLobbyEvent(p)>>) = {C("lobby_unplug", p)} /\ CallsOf(<<>>) = {}
    BY EventsAre, OneEvent DEF CallsOf, ToSet
  <2>3. CASE inLobby
    <3>1. Over(t, call, <<UnplugLobbyEvent(p)>>)
      BY <1>1, <2>3
    <3>2. QED
      BY <1>1, <2>1, <2>2, <2>3, <3>1, OverIs
  <2>4. CASE ~inLobby
    <3>1. Over(t, call, <<>>)
      BY <1>1, <2>4
    <3>2. QED
      BY <1>1, <2>1, <2>2, <2>4, <3>1, OverIs
  <2>5. QED
    BY <2>3, <2>4
<1>3. Going \/ MovingIn
  <2>1. ~Joining /\ ~Leaving
    BY <1>1, NotMoving DEF Whats
  <2>2. call.do = "lobbies_unplug"
    BY DEF C
  <2>3. QED
    BY <1>2, <2>1, <2>2 DEF PadsInv, Modes, Arriving, MovingOut, OnlyCalls
<1>4. /\ \A q, what : what # "lobbies_unplug" /\ C(what, q) \in Pending => C(what, q) \in Pending'
      /\ \A q : q # p /\ C("lobbies_unplug", q) \in Pending => C("lobbies_unplug", q) \in Pending'
  BY <1>2 DEF C
<1>5. /\ \A q, what : what # "lobby_unplug" /\ C(what, q) \in Pending' => C(what, q) \in Pending
      /\ C("lobby_unplug", p).do = "lobby_unplug" /\ C("lobby_unplug", p).pad = p
      /\ call.pad = p
  BY <1>2 DEF C
<1>6. ASSUME Going PROVE Going'
  <2>1. PICK q \in Pad :
       /\ OnlyCalls({"session_unplug", "lobbies_unplug", "lobby_unplug", "drop"}, {q})
       /\ q \in joypads => C("drop", q) \in Pending
       /\ inLobby /\ q \in plugged["lobby"] =>
            C("lobbies_unplug", q) \in Pending \/ C("lobby_unplug", q) \in Pending
       /\ ~inLobby /\ q \in plugged["session"] => C("session_unplug", q) \in Pending
    BY <1>6 DEF Going
  <2>2. q = p
    BY <1>2, <1>5, <2>1 DEF OnlyCalls
  <2>3. OnlyCalls({"session_unplug", "lobbies_unplug", "lobby_unplug", "drop"}, {q})'
    BY <1>2, <1>5, <2>1, <2>2 DEF OnlyCalls
  <2>4. Drained'
    BY <1>1, <1>6 DEF Going, Drained
  <2>5. QED
    BY <1>1, <1>2, <1>4, <2>1, <2>2, <2>3, <2>4 DEF Going
<1>7. ASSUME MovingIn PROVE MovingIn'
  <2>1. p \in joypads
    BY <1>2, <1>5, <1>7 DEF MovingIn, OnlyCalls
  <2>2. QED
    BY <1>1, <1>2, <1>5, <1>7, <2>1 DEF MovingIn, OnlyCalls
<1>8. At("session")' = At("session") /\ At("lobby")' = At("lobby")
  BY <1>1, SameAt
<1> HIDE DEF call
<1>9. InLobbyOK'
  BY <1>1, <1>2, <1>4, <1>8 DEF PadsInv, InLobbyOK
<1>10. AloneOK'
  BY <1>1, <1>2, <1>4, <1>5, <1>8 DEF PadsInv, AloneOK
<1>11. RunnerUp' /\ OtherDrained'
  BY <1>1 DEF PadsInv, RunnerUp, OtherDrained, Other
<1>12. QED
  BY <1>3, <1>6, <1>7, <1>9, <1>10, <1>11 DEF PadsInv, Modes

LEMMA SessionUnplugStep ==
  ASSUME HotplugTypeOK, PadsInv, NEW t \in Thread, NEW p \in Pad,
         RunnerUnplug(t, "session", p)
  PROVE  PadsInv'
<1> DEFINE call == C("session_unplug", p)
<1>0. "session" \in Place /\ "lobby" \in Place /\ "session" # "lobby"
  BY DEF Place
<1>1. /\ call \in Calls(t) /\ Over(t, call, <<>>)
      /\ UNCHANGED <<inLobby, joypads, queue, up, held>>
      /\ plugged'["session"] = plugged["session"] \ {p}
      /\ plugged'["lobby"] = plugged["lobby"]
  <2>1. /\ call \in Calls(t) /\ Over(t, call, <<>>)
        /\ UNCHANGED <<inLobby, joypads, queue, up, held>>
        /\ plugged' = IF "session" \in up THEN [plugged EXCEPT !["session"] = @ \ {p}] ELSE plugged
    BY DEF RunnerUnplug, C
  <2>2. CASE "session" \in up
    BY <1>0, <2>1, <2>2 DEF HotplugTypeOK
  <2>3. CASE "session" \notin up
    <3>1. plugged["session"] = {}
      BY <1>0, <2>3 DEF PadsInv, RunnerUp
    <3>2. QED
      BY <2>1, <2>3, <3>1
  <2>4. QED
    BY <2>2, <2>3
<1>2. /\ call \in Pending /\ Pending' \subseteq Pending
      /\ Pending \ {call} \subseteq Pending'
      /\ Arriving \/ Going \/ MovingIn \/ MovingOut
  BY <1>1, CallIs DEF Whats, PadsInv
<1>3. call.do = "session_unplug" /\ call.pad = p
  BY DEF C
<1>4. Going \/ MovingIn
  BY <1>2, <1>3 DEF Arriving, MovingOut, OnlyCalls
<1>5. /\ \A q, what : what # "session_unplug" /\ C(what, q) \in Pending => C(what, q) \in Pending'
      /\ \A q : q # p /\ C("session_unplug", q) \in Pending => C("session_unplug", q) \in Pending'
  BY <1>2 DEF C
<1>6. ASSUME Going
      PROVE  /\ Going' /\ Drained
             /\ p \in joypads => C("drop", p) \in Pending
  <2>1. PICK q \in Pad :
       /\ OnlyCalls({"session_unplug", "lobbies_unplug", "lobby_unplug", "drop"}, {q})
       /\ q \in joypads => C("drop", q) \in Pending
       /\ inLobby /\ q \in plugged["lobby"] =>
            C("lobbies_unplug", q) \in Pending \/ C("lobby_unplug", q) \in Pending
       /\ ~inLobby /\ q \in plugged["session"] => C("session_unplug", q) \in Pending
    BY <1>6 DEF Going
  <2>2. q = p
    BY <1>2, <1>3, <2>1 DEF OnlyCalls
  <2>3. OnlyCalls({"session_unplug", "lobbies_unplug", "lobby_unplug", "drop"}, {q})'
    BY <1>2, <2>1 DEF OnlyCalls
  <2>4. Drained /\ Drained'
    BY <1>1, <1>6 DEF Going, Drained
  <2> HIDE DEF call
  <2>5. /\ q \in joypads' => C("drop", q) \in Pending'
        /\ inLobby' /\ q \in plugged'["lobby"] =>
             C("lobbies_unplug", q) \in Pending' \/ C("lobby_unplug", q) \in Pending'
        /\ ~inLobby' /\ q \in plugged'["session"] => C("session_unplug", q) \in Pending'
    BY <1>1, <1>5, <2>1, <2>2
  <2>6. QED
    BY <2>1, <2>2, <2>3, <2>4, <2>5 DEF Going
<1>7. ASSUME MovingIn PROVE MovingIn' /\ inLobby
  BY <1>1, <1>2, <1>7 DEF MovingIn, OnlyCalls
<1>8. At("lobby")' = At("lobby")
  BY <1>1 DEF At
<1> HIDE DEF call
<1>9. InLobbyOK'
  BY <1>1, <1>5, <1>8 DEF PadsInv, InLobbyOK
<1>10. AloneOK'
  <2>1. CASE inLobby
    BY <1>1, <2>1 DEF AloneOK
  <2>2. CASE ~inLobby
    <3>1. Going
      BY <1>4, <1>7, <2>2
    <3>2. /\ At("session")' = plugged["session"] \ {p} /\ At("session") = plugged["session"]
          /\ p \in joypads => C("drop", p) \in Pending
      <4>1. Drained /\ Drained' /\ (p \in joypads => C("drop", p) \in Pending)
        BY <1>6, <3>1 DEF Going
      <4>2. At("session") = plugged["session"] /\ At("session")' = plugged'["session"]
        BY <1>0, <4>1 DEF Drained, At, ToSet
      <4>3. QED
        BY <1>1, <4>1, <4>2
    <3>3. \A q \in Pad : C("add", q) \notin Pending
      BY <3>1 DEF Going, OnlyCalls, C
    <3>4. QED
      BY <1>1, <1>2, <1>5, <3>2, <3>3, <2>2 DEF PadsInv, AloneOK
  <2>3. QED
    BY <2>1, <2>2
<1>11. RunnerUp' /\ OtherDrained'
  BY <1>0, <1>1 DEF PadsInv, RunnerUp, OtherDrained, Other, Place
<1>12. QED
  BY <1>4, <1>6, <1>7, <1>9, <1>10, <1>11 DEF PadsInv, Modes

LEMMA LobbyUnplugStep ==
  ASSUME HotplugTypeOK, PadsInv, NEW t \in Thread, NEW p \in Pad,
         RunnerUnplug(t, "lobby", p)
  PROVE  PadsInv'
<1> DEFINE call == C("lobby_unplug", p)
<1>0. "session" \in Place /\ "lobby" \in Place /\ "session" # "lobby"
  BY DEF Place
<1>1. /\ call \in Calls(t) /\ Over(t, call, <<>>)
      /\ UNCHANGED <<inLobby, joypads, queue, up, held>>
      /\ plugged'["lobby"] = plugged["lobby"] \ {p}
      /\ plugged'["session"] = plugged["session"]
  <2>1. /\ call \in Calls(t) /\ Over(t, call, <<>>)
        /\ UNCHANGED <<inLobby, joypads, queue, up, held>>
        /\ plugged' = IF "lobby" \in up THEN [plugged EXCEPT !["lobby"] = @ \ {p}] ELSE plugged
    BY <1>0 DEF RunnerUnplug, C
  <2>2. CASE "lobby" \in up
    BY <1>0, <2>1, <2>2 DEF HotplugTypeOK
  <2>3. CASE "lobby" \notin up
    <3>1. plugged["lobby"] = {}
      BY <1>0, <2>3 DEF PadsInv, RunnerUp
    <3>2. QED
      BY <2>1, <2>3, <3>1
  <2>4. QED
    BY <2>2, <2>3
<1>2. /\ call \in Pending /\ Pending' \subseteq Pending
      /\ Pending \ {call} \subseteq Pending'
      /\ Arriving \/ Going \/ MovingIn \/ MovingOut
  BY <1>1, CallIs DEF Whats, PadsInv
<1>3. call.do = "lobby_unplug" /\ call.pad = p
  BY DEF C
<1>4. Going \/ MovingIn \/ MovingOut
  BY <1>2, <1>3 DEF Arriving, OnlyCalls
<1>5. /\ \A q, what : what # "lobby_unplug" /\ C(what, q) \in Pending => C(what, q) \in Pending'
      /\ \A q : q # p /\ C("lobby_unplug", q) \in Pending => C("lobby_unplug", q) \in Pending'
  BY <1>2 DEF C
<1>6. ASSUME Going
      PROVE  Going' /\ Drained
  <2>1. PICK q \in Pad :
       /\ OnlyCalls({"session_unplug", "lobbies_unplug", "lobby_unplug", "drop"}, {q})
       /\ q \in joypads => C("drop", q) \in Pending
       /\ inLobby /\ q \in plugged["lobby"] =>
            C("lobbies_unplug", q) \in Pending \/ C("lobby_unplug", q) \in Pending
       /\ ~inLobby /\ q \in plugged["session"] => C("session_unplug", q) \in Pending
    BY <1>6 DEF Going
  <2>2. q = p
    BY <1>2, <1>3, <2>1 DEF OnlyCalls
  <2>3. OnlyCalls({"session_unplug", "lobbies_unplug", "lobby_unplug", "drop"}, {q})'
    BY <1>2, <2>1 DEF OnlyCalls
  <2>4. Drained /\ Drained'
    BY <1>1, <1>6 DEF Going, Drained
  <2> HIDE DEF call
  <2>5. /\ q \in joypads' => C("drop", q) \in Pending'
        /\ inLobby' /\ q \in plugged'["lobby"] =>
             C("lobbies_unplug", q) \in Pending' \/ C("lobby_unplug", q) \in Pending'
        /\ ~inLobby' /\ q \in plugged'["session"] => C("session_unplug", q) \in Pending'
    BY <1>1, <1>5, <2>1, <2>2
  <2>6. QED
    BY <2>3, <2>4, <2>5 DEF Going
<1>7. ASSUME MovingIn \/ MovingOut PROVE (MovingIn' \/ MovingOut') /\ p \in joypads
  BY <1>1, <1>2, <1>3, <1>7 DEF MovingIn, MovingOut, OnlyCalls
<1>8. At("session")' = At("session") /\ At("lobby")' \subseteq At("lobby")
  BY <1>1 DEF At
<1>9. p \in At("lobby")' => p \in joypads
  <2>1. CASE Going
    <3>1. Drained'
      BY <1>6, <2>1 DEF Going
    <3>2. At("lobby")' = plugged'["lobby"]
      BY <1>0, <3>1 DEF Drained, At, ToSet
    <3>3. QED
      BY <1>1, <3>2
  <2>2. QED
    BY <1>4, <1>7, <2>1
<1> HIDE DEF call
<1>10. InLobbyOK'
  BY <1>1, <1>5, <1>8, <1>9 DEF PadsInv, InLobbyOK
<1>11. AloneOK'
  BY <1>1, <1>2, <1>5, <1>8 DEF PadsInv, AloneOK
<1>12. RunnerUp' /\ OtherDrained'
  BY <1>0, <1>1 DEF PadsInv, RunnerUp, OtherDrained, Other, Place
<1>13. QED
  BY <1>4, <1>6, <1>7, <1>10, <1>11, <1>12 DEF PadsInv, Modes

LEMMA AddStep ==
  ASSUME HotplugTypeOK, PadsInv, NEW p \in Pad, AddJoypad(p)
  PROVE  PadsInv'
<1> DEFINE call == C("add", p)
<1>1. /\ Control \in Thread /\ call \in Calls(Control) /\ Over(Control, call, <<>>)
      /\ joypads' = joypads \cup {p}
      /\ UNCHANGED <<inLobby, queue, up, held, plugged>>
  BY DEF AddJoypad, C, Thread
<1>2. /\ call \in Pending /\ Pending' \subseteq Pending
      /\ Pending \ {call} \subseteq Pending'
      /\ Arriving \/ Going \/ MovingIn \/ MovingOut
  BY <1>1, CallIs DEF Whats, PadsInv
<1>3. call.do = "add" /\ call.pad = p
  BY DEF C
<1>4. Arriving \/ MovingIn \/ MovingOut
  BY <1>2, <1>3 DEF Going, OnlyCalls
<1>5. /\ \A q, what : what # "add" /\ C(what, q) \in Pending => C(what, q) \in Pending'
      /\ \A q : q # p /\ C("add", q) \in Pending => C("add", q) \in Pending'
  BY <1>2 DEF C
<1>6. MovingIn' \/ MovingOut'
  <2>1. CASE Arriving
    <3>1. OnlyCalls({"moonlight_plug", "lobbies_plug", "add"}, {p})
      BY <1>2, <1>3, <2>1 DEF Arriving, OnlyCalls
    <3>2. QED
      BY <1>1, <1>2, <3>1 DEF MovingIn, MovingOut, OnlyCalls
  <2>2. CASE MovingIn
    BY <1>1, <1>2, <2>2 DEF MovingIn, OnlyCalls
  <2>3. CASE MovingOut
    BY <1>1, <1>2, <2>3 DEF MovingOut, OnlyCalls
  <2>4. QED
    BY <1>4, <2>1, <2>2, <2>3
<1>7. At("session")' = At("session") /\ At("lobby")' = At("lobby")
  BY <1>1, SameAt
<1>8. C("add", p) \in Pending
  BY <1>2
<1> HIDE DEF call
<1>9. InLobbyOK'
  BY <1>1, <1>5, <1>7 DEF PadsInv, InLobbyOK
<1>10. AloneOK'
  BY <1>1, <1>2, <1>5, <1>7, <1>8 DEF PadsInv, AloneOK
<1>11. RunnerUp' /\ OtherDrained'
  BY <1>1 DEF PadsInv, RunnerUp, OtherDrained, Other
<1>12. QED
  BY <1>6, <1>9, <1>10, <1>11 DEF PadsInv, Modes

LEMMA DropStep ==
  ASSUME HotplugTypeOK, PadsInv, NEW p \in Pad, DropJoypad(p)
  PROVE  PadsInv'
<1> DEFINE call == C("drop", p)
<1>0. "session" \in Place /\ "lobby" \in Place
  BY DEF Place
<1>1. /\ Control \in Thread /\ call \in Calls(Control) /\ Over(Control, call, <<>>)
      /\ joypads' = joypads \ {p}
      /\ UNCHANGED <<inLobby, queue, up, held, plugged>>
  BY DEF DropJoypad, C, Thread
<1>2. /\ call \in Pending /\ Pending' \subseteq Pending
      /\ Pending \ {call} \subseteq Pending'
      /\ Arriving \/ Going \/ MovingIn \/ MovingOut
  BY <1>1, CallIs DEF Whats, PadsInv
<1>3. call.do = "drop" /\ call.pad = p
  BY DEF C
<1>4. Going
  BY <1>2, <1>3 DEF Arriving, MovingIn, MovingOut, OnlyCalls
<1>5. \A q, what : what # "drop" /\ C(what, q) \in Pending => C(what, q) \in Pending'
  BY <1>2 DEF C
<1>6. PICK q \in Pad :
       /\ OnlyCalls({"session_unplug", "lobbies_unplug", "lobby_unplug", "drop"}, {q})
       /\ q \in joypads => C("drop", q) \in Pending
       /\ inLobby /\ q \in plugged["lobby"] =>
            C("lobbies_unplug", q) \in Pending \/ C("lobby_unplug", q) \in Pending
       /\ ~inLobby /\ q \in plugged["session"] => C("session_unplug", q) \in Pending
  BY <1>4 DEF Going
<1>7. q = p
  BY <1>2, <1>3, <1>6 DEF OnlyCalls
<1>8. Drained /\ Drained'
  BY <1>1, <1>4 DEF Going, Drained
<1>9. /\ At("session")' = plugged["session"] /\ At("lobby")' = plugged["lobby"]
      /\ At("session") = plugged["session"] /\ At("lobby") = plugged["lobby"]
  BY <1>0, <1>1, <1>8, AtDrained, SameAt
<1> HIDE DEF call
<1>10. Going'
  BY <1>1, <1>2, <1>5, <1>6, <1>7, <1>8 DEF Going, OnlyCalls
<1>11. \A r \in Pad : C("add", r) \notin Pending
  BY <1>6 DEF OnlyCalls, C
<1>12. ASSUME NEW r, C("drop", r) \in Pending PROVE r = p
  BY <1>6, <1>7, <1>12 DEF OnlyCalls, C
<1>13. InLobbyOK'
  BY <1>1, <1>5, <1>6, <1>7, <1>9, <1>11 DEF PadsInv, InLobbyOK
<1>14. AloneOK'
  BY <1>1, <1>2, <1>5, <1>6, <1>7, <1>9, <1>11, <1>12 DEF PadsInv, AloneOK
<1>15. RunnerUp' /\ OtherDrained'
  BY <1>1 DEF PadsInv, RunnerUp, OtherDrained, Other
<1>16. QED
  BY <1>10, <1>13, <1>14, <1>15 DEF PadsInv, Modes

-----------------------------------------------------------------------------
(* The runners. *)

LEMMA StartsStep ==
  ASSUME HotplugTypeOK, PadsInv, NEW w \in Place, RunnerStarts(w)
  PROVE  PadsInv'
<1>1. up \subseteq up' /\ UNCHANGED <<inLobby, joypads, queue, held, plugged, todo>>
  BY DEF RunnerStarts
<1>2. Pending' = Pending /\ \A v : At(v)' = At(v)
  BY <1>1 DEF Pending, Waiting, CallsOf, At
<1>3. Modes'
  BY <1>1, <1>2 DEF PadsInv, Modes, Arriving, Going, Joining, Leaving, MovingIn, MovingOut,
     OnlyCalls, Only, Drained
<1>4. InLobbyOK' /\ AloneOK'
  BY <1>1, <1>2 DEF PadsInv, InLobbyOK, AloneOK
<1>5. RunnerUp' /\ OtherDrained'
  BY <1>1 DEF PadsInv, RunnerUp, OtherDrained, Other
<1>6. QED
  BY <1>3, <1>4, <1>5 DEF PadsInv

\* While a device is on its way the mode is one that does not wait for drained queues.
LEMMA RunnerMode ==
  ASSUME PadsInv, ~Drained, UNCHANGED <<inLobby, joypads, todo>>
  PROVE  Modes' /\ Pending' = Pending
<1>1. Pending' = Pending
  BY DEF Pending, Waiting, CallsOf
<1>2. Arriving \/ MovingIn \/ MovingOut
  BY DEF PadsInv, Modes, Going, Joining, Leaving
<1>3. Arriving' \/ MovingIn' \/ MovingOut'
  BY <1>1, <1>2 DEF Arriving, MovingIn, MovingOut, OnlyCalls
<1>4. QED
  BY <1>1, <1>3 DEF Modes

LEMMA PopStep ==
  ASSUME HotplugTypeOK, PadsInv, NEW w \in Place,
         Pop(w)
  PROVE  PadsInv'
<1> DEFINE device == Head(queue[w])
<1>1. /\ w \in up /\ held[w] = NoPad /\ queue[w] # <<>>
      /\ held' = [held EXCEPT ![w] = IF device.for = w THEN device ELSE NoPad]
      /\ queue' = [queue EXCEPT ![w] = Tail(@)]
      /\ UNCHANGED <<inLobby, joypads, up, plugged, todo>>
  BY DEF Pop
<1>2. /\ queue[w] \in Seq(Device) /\ device \in Device
      /\ ToSet(queue[w]) = {device} \cup ToSet(Tail(queue[w]))
  BY <1>1, HeadTail DEF HotplugTypeOK
<1> HIDE DEF device
<1>3. /\ held'[w] = IF device.for = w THEN device ELSE NoPad
      /\ queue'[w] = Tail(queue[w])
      /\ \A v \in Place \ {w} : held'[v] = held[v] /\ queue'[v] = queue[v]
  BY <1>1 DEF HotplugTypeOK
<1>4. Modes' /\ Pending' = Pending
  BY <1>1, RunnerMode DEF Drained
<1>5. ASSUME NEW v \in Place PROVE At(v)' = At(v)
  <2>1. CASE v # w
    BY <1>1, <1>3, <2>1 DEF At
  <2>2. CASE v = w
    <3>1. device # NoPad
      BY <1>2, HotplugAssumption DEF Device
    <3>2. \A p \in Pad : [for |-> w, pad |-> p] = device <=> (device.for = w /\ device.pad = p)
      BY <1>2 DEF Device
    <3>3. ASSUME NEW p \in Pad
          PROVE  [for |-> w, pad |-> p] \in ToSet(queue[w]) <=>
                   \/ [for |-> w, pad |-> p] \in ToSet(queue'[w])
                   \/ held'[w] # NoPad /\ held'[w].pad = p
      <4>1. CASE device.for = w
        BY <1>2, <1>3, <3>1, <3>2, <4>1
      <4>2. CASE device.for # w
        BY <1>2, <1>3, <3>2, <4>2
      <4>3. QED
        BY <4>1, <4>2
    <3>4. QED
      BY <1>1, <2>2, <3>3 DEF At
  <2>3. QED
    BY <2>1, <2>2
<1>6. "session" \in Place /\ "lobby" \in Place
  BY DEF Place
<1>7. InLobbyOK' /\ AloneOK'
  BY <1>1, <1>4, <1>5, <1>6 DEF PadsInv, InLobbyOK, AloneOK
<1>8. RunnerUp'
  BY <1>1, <1>3 DEF PadsInv, RunnerUp
<1>9. OtherDrained'
  <2>1. Other \in Place /\ Other' = Other /\ Other # w
    BY <1>1, <1>6 DEF PadsInv, OtherDrained, Other
  <2>2. QED
    BY <1>3, <2>1 DEF PadsInv, OtherDrained
<1>10. QED
  BY <1>4, <1>7, <1>8, <1>9 DEF PadsInv

LEMMA PlugDeviceStep ==
  ASSUME HotplugTypeOK, PadsInv, NEW w \in Place, PlugDevice(w)
  PROVE  PadsInv'
<1>1. /\ held[w] # NoPad
      /\ plugged' = [plugged EXCEPT ![w] = @ \cup {held[w].pad}]
      /\ held' = [held EXCEPT ![w] = NoPad]
      /\ UNCHANGED <<inLobby, joypads, queue, up, todo>>
  BY DEF PlugDevice
<1>2. held[w].pad \in Pad
  BY <1>1 DEF HotplugTypeOK, Device
<1>3. /\ plugged'[w] = plugged[w] \cup {held[w].pad} /\ held'[w] = NoPad
      /\ \A v \in Place \ {w} : plugged'[v] = plugged[v] /\ held'[v] = held[v]
  BY <1>1 DEF HotplugTypeOK
<1>4. Modes' /\ Pending' = Pending
  BY <1>1, RunnerMode DEF Drained
<1>5. ASSUME NEW v \in Place PROVE At(v)' = At(v)
  <2>1. CASE v # w
    BY <1>1, <1>3, <2>1 DEF At
  <2>2. CASE v = w
    BY <1>1, <1>2, <1>3, <2>2 DEF At
  <2>3. QED
    BY <2>1, <2>2
<1>6. "session" \in Place /\ "lobby" \in Place /\ "session" # "lobby"
  BY DEF Place
<1>7. Other \in Place /\ Other' = Other /\ Other # w
  BY <1>1, <1>6 DEF PadsInv, OtherDrained, Other
<1>8. plugged'[Other] = plugged[Other]
  BY <1>3, <1>7
<1>9. InLobbyOK'
  BY <1>1, <1>4, <1>5, <1>6, <1>8 DEF PadsInv, InLobbyOK, Other
<1>10. AloneOK'
  BY <1>1, <1>4, <1>5, <1>6, <1>8 DEF PadsInv, AloneOK, Other
<1>11. RunnerUp'
  BY <1>1, <1>3 DEF PadsInv, RunnerUp
<1>12. OtherDrained'
  BY <1>1, <1>3, <1>7 DEF PadsInv, OtherDrained
<1>13. QED
  BY <1>4, <1>9, <1>10, <1>11, <1>12 DEF PadsInv

-----------------------------------------------------------------------------
\* Every step keeps what the joypads wait for, if events are spaced.
LEMMA PadsStep ==
  ASSUME Spaced
  PROVE  HotplugTypeOK /\ PadsInv /\ [HotplugNext]_hotplugVars => PadsInv'
<1> SUFFICES ASSUME HotplugTypeOK, PadsInv, [HotplugNext]_hotplugVars PROVE PadsInv'
  OBVIOUS
<1>1. ASSUME NEW p \in Pad, ControllerArrival(p) \/ ControllerGone(p)
      PROVE PadsInv'
  BY <1>1, ArrivalStep, GoneStep
<1>2. ASSUME NEW t \in ApiThread, JoinLobby(t) PROVE PadsInv'
  BY <1>2, JoinStep DEF Thread
<1>3. ASSUME NEW t \in Thread, LeaveLobby(t) PROVE PadsInv'
  BY <1>3, LeaveStep
<1>4. ASSUME NEW t \in Thread,
             Enter(t) \/ Exit(t) \/ MoveIn(t) \/ MoveOut(t) PROVE PadsInv'
  BY <1>4, EnterStep, ExitStep, MoveInStep, MoveOutStep
<1>5. ASSUME NEW t \in Thread, NEW p \in Pad,
             \/ MoonlightPlug(t, p) \/ LobbiesPlug(t, p) \/ LobbiesUnplug(t, p)
             \/ JoinPush(t, p)
      PROVE  PadsInv'
  BY <1>5, MoonlightPlugStep, LobbiesPlugStep, LobbiesUnplugStep, JoinPushStep
<1>6. ASSUME NEW t \in Thread, NEW p \in Pad, NEW w \in Place,
             RunnerUnplug(t, w, p)
      PROVE  PadsInv'
  <2>1. w = "session" \/ w = "lobby"
    BY DEF Place
  <2>2. QED
    BY <1>6, <2>1, SessionUnplugStep, LobbyUnplugStep
<1>7. ASSUME NEW p \in Pad, AddJoypad(p) \/ DropJoypad(p) PROVE PadsInv'
  BY <1>7, AddStep, DropStep
<1>8. ASSUME NEW w \in Place, RunnerStarts(w) \/ RunnerStep(w)
      PROVE PadsInv'
  BY <1>8, StartsStep, PopStep, PlugDeviceStep DEF RunnerStep
<1>9. CASE UNCHANGED hotplugVars
  <2>1. UNCHANGED <<inLobby, joypads, queue, up, held, plugged, todo>>
    BY <1>9 DEF hotplugVars
  <2>2. Pending' = Pending /\ \A w : At(w)' = At(w)
    BY <2>1 DEF Pending, Waiting, CallsOf, At
  <2>3. QED
    BY <2>1, <2>2
       DEF PadsInv, RunnerUp, OtherDrained, Other, InLobbyOK, AloneOK, Modes, Arriving,
       Going, Joining, Leaving, MovingIn, MovingOut, OnlyCalls, Only, Drained
<1>10. QED
  BY <1>1, <1>2, <1>3, <1>4, <1>5, <1>6, <1>7, <1>8, <1>9
     DEF HotplugNext, ThreadStep

\* When events are spaced and nothing is on its way, a session in no lobby has all
\* of its joypads in its own container, and no container has a joypad that is gone or
\* that plays elsewhere: for any joypads and any number of API threads.
THEOREM PadsCorrect ==
  ASSUME Spaced
  PROVE  HotplugSpec => []PadsInOnePlace
<1>1. HotplugTypeOK /\ PadsInv => PadsInOnePlace
  <2> SUFFICES ASSUME HotplugTypeOK, PadsInv, Quiet, Drained
               PROVE  IF inLobby
                      THEN plugged["session"] = {} /\ plugged["lobby"] \subseteq joypads
                      ELSE plugged["session"] = joypads /\ plugged["lobby"] = {}
    BY DEF PadsInOnePlace
  <2>1. QED
    BY AtRest
<1>2. HotplugTypeOK /\ PadsInv /\ [HotplugNext]_hotplugVars => PadsInv'
  BY PadsStep
<1>3. HotplugTypeOK /\ [HotplugNext]_hotplugVars => HotplugTypeOK'
  BY PadTypeStep
<1>4. QED
  BY <1>1, <1>2, <1>3, PadTypeInit, PadsInit, PTL DEF HotplugSpec
=============================================================================
