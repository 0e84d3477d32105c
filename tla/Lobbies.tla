------------------------------ MODULE Lobbies ------------------------------
(***************************************************************************)
(* Lobbies: several Moonlight sessions share one app. Every handler runs   *)
(* on the thread that fires its event, and the events a handler fires run  *)
(* to their end before it goes on, so a thread is a stack of the handler   *)
(* calls it is in, the current one first. Between two steps of a handler   *)
(* the other threads (API pool, HTTPS, control, runners) take theirs.      *)
(***************************************************************************)
EXTENDS Naturals, Sequences, SequencesExt, FiniteSetsExt

CONSTANTS Session,       \* sessions of the paired clients
          Thread,        \* threads that fire events
          MaxLobbies,    \* bound: lobbies created in a behaviour
          MaxDepth,      \* bound: no join while a thread is nested deeper
          LobbiesFirst,  \* StopStream reaches the lobbies' handler first
          None           \* no session

\* Threads and sessions are different things; the bounds allow a behaviour.
ASSUME LobbiesAssumption ==
  /\ MaxLobbies \in Nat
  /\ MaxDepth \in Nat \ {0}
  /\ LobbiesFirst \in BOOLEAN
  /\ None \notin Session

Lobby == 1..MaxLobbies
Own == 0   \* the session's own app, in place of a lobby

VARIABLES
  lobbies,     \* ids on the list of lobbies, oldest first
  created,     \* lobbies created so far (a uuid each)
  settings,    \* what a lobby was created with
  connected,   \* connected_sessions of each lobby
  registered,  \* running_sessions
  input,       \* where the mouse and keyboard of a session go
  source,      \* what the stream of a session shows
  stack        \* the handler calls each thread is in

vars == <<lobbies, created, settings, connected, registered, input, source, stack>>

Settings == [multi_user : BOOLEAN, stop_when_everyone_leaves : BOOLEAN]

Step == {"check_join", "push", "join_input", "join_source",
         "check_leave", "filter", "leave_input", "leave_source", "last",
         "check_stop", "each", "remove", "over", "forget"}
Frame == [at : Step, lobby : Lobby \cup {Own}, session : Session \cup {None},
          todo : Seq(Session)]

At(step, l, s) == [at |-> step, lobby |-> l, session |-> s, todo |-> <<>>]

TypeOK ==
  /\ lobbies \in Seq(Lobby) /\ IsInjective(lobbies)
  /\ created \in 0..MaxLobbies
  /\ settings \in [Lobby -> Settings]
  /\ connected \in [Lobby -> Seq(Session)]
  /\ registered \subseteq Session
  /\ input \in [Session -> Lobby \cup {Own}]
  /\ source \in [Session -> Lobby \cup {Own}]
  /\ stack \in [Thread -> Seq(Frame)]

Init ==
  /\ lobbies = <<>>
  /\ created = 0
  /\ settings = [l \in Lobby |-> [multi_user |-> TRUE,
                                  stop_when_everyone_leaves |-> TRUE]]
  /\ connected = [l \in Lobby |-> <<>>]
  /\ registered = {}
  /\ input = [s \in Session |-> Own]
  /\ source = [s \in Session |-> Own]
  /\ stack = [t \in Thread |-> <<>>]

Found(l) == l \in ToSet(lobbies)          \* get_lobby_by_id
Members(l) == ToSet(connected[l])

\* filter on an immer vector: every entry but e, in the order they were in.
Without(list, e) ==
  LET kept[n \in 0..Len(list)] ==
        IF n = 0 THEN <<>>
        ELSE IF list[n] = e THEN kept[n - 1] ELSE Append(kept[n - 1], list[n])
  IN  kept[Len(list)]

-----------------------------------------------------------------------------
(* Moving through the handlers of thread t. *)

Running(t, step) == stack[t] # <<>> /\ Head(stack[t]).at = step
Goto(t, step) == stack' = [stack EXCEPT ![t][1].at = step]
Return(t) == stack' = [stack EXCEPT ![t] = Tail(@)]

\* Fire an event whose handlers run as frames, as the last thing of a handler.
FireLast(t, frames) == stack' = [stack EXCEPT ![t] = frames \o Tail(@)]

-----------------------------------------------------------------------------
(* Events from outside. *)

Fire(t, frames) ==
  /\ stack[t] = <<>>
  /\ stack' = [stack EXCEPT ![t] = frames]
  /\ UNCHANGED <<lobbies, created, settings, connected, registered, input, source>>

\* launch() registers a session, with producers and devices of its own.
StartSession(s) ==
  /\ s \notin registered
  /\ registered' = registered \cup {s}
  /\ input' = [input EXCEPT ![s] = Own]
  /\ source' = [source EXCEPT ![s] = Own]
  /\ UNCHANGED <<lobbies, created, settings, connected, stack>>

\* Variant of CreateLobby for mutation: the next lobby gets the same id.
CreateLobbyAgain(with) ==
  /\ created < MaxLobbies
  /\ settings' = [settings EXCEPT ![created + 1] = with]
  /\ lobbies' = Append(lobbies, created + 1)
  /\ UNCHANGED <<created, connected, registered, input, source, stack>>

\* The lobby joins the list with a new uuid; producers and runner follow.
CreateLobby(with) ==
  /\ created < MaxLobbies
  /\ created' = created + 1
  /\ settings' = [settings EXCEPT ![created + 1] = with]
  /\ lobbies' = Append(lobbies, created + 1)
  /\ UNCHANGED <<connected, registered, input, source, stack>>

\* Wolf UI shows the lobbies to a session that is in none of them.
JoinLobby(t, l, s) ==
  /\ Found(l) /\ s \in registered
  /\ \A k \in ToSet(lobbies) : s \notin Members(k)
  /\ \A u \in Thread : Len(stack[u]) < MaxDepth
  /\ Fire(t, <<At("check_join", l, s)>>)

LeaveLobby(t, l, s) ==
  /\ Found(l) /\ s \in Members(l)
  /\ Fire(t, <<At("check_leave", l, s)>>)

\* Over the API, or by the lobby's runner when it ends or cannot start.
StopLobby(t, l) ==
  /\ l <= created
  /\ Fire(t, <<At("check_stop", l, None)>>)

\* A disconnect, a pause over the API, or the Wolf UI combo.
PauseStream(t, s) ==
  /\ s \in registered
  /\ Fire(t, <<At("over", Own, s)>>)

StopStream(t, s) ==
  /\ s \in registered
  /\ Fire(t, IF LobbiesFirst
             THEN <<At("over", Own, s), At("forget", Own, s)>>
             ELSE <<At("forget", Own, s), At("over", Own, s)>>)

-----------------------------------------------------------------------------
(* The handler of JoinLobbyEvent. *)

\* Variant of Full for mutation: off by one.
FullAfterTwo(l) == ~settings[l].multi_user /\ Len(connected[l]) > 1

Full(l) == ~settings[l].multi_user /\ Len(connected[l]) >= 1

CheckJoin(t) ==
  /\ Running(t, "check_join")
  /\ LET f == Head(stack[t])
     IN  IF Found(f.lobby) /\ f.session \in registered /\ ~Full(f.lobby)
         THEN Goto(t, "push") ELSE Return(t)
  /\ UNCHANGED <<lobbies, created, settings, connected, registered, input, source>>

JoinPush(t) ==
  /\ Running(t, "push")
  /\ LET f == Head(stack[t])
     IN  connected' = [connected EXCEPT ![f.lobby] = Append(@, f.session)]
  /\ Goto(t, "join_input")
  /\ UNCHANGED <<lobbies, created, settings, registered, input, source>>

JoinInput(t) ==
  /\ Running(t, "join_input")
  /\ LET f == Head(stack[t])
     IN  input' = [input EXCEPT ![f.session] = f.lobby]
  /\ Goto(t, "join_source")
  /\ UNCHANGED <<lobbies, created, settings, connected, registered, source>>

JoinSource(t) ==
  /\ Running(t, "join_source")
  /\ LET f == Head(stack[t])
     IN  source' = [source EXCEPT ![f.session] = f.lobby]
  /\ Return(t)
  /\ UNCHANGED <<lobbies, created, settings, connected, registered, input>>

-----------------------------------------------------------------------------
(* The handler of LeaveLobbyEvent, and leave_lobby(). *)

CheckLeave(t) ==
  /\ Running(t, "check_leave")
  /\ LET f == Head(stack[t])
     IN  IF Found(f.lobby) /\ f.session \in registered
         THEN Goto(t, "filter") ELSE Return(t)
  /\ UNCHANGED <<lobbies, created, settings, connected, registered, input, source>>

LeaveFilter(t) ==
  /\ Running(t, "filter")
  /\ LET f == Head(stack[t])
     IN  connected' = [connected EXCEPT ![f.lobby] = Without(@, f.session)]
  /\ Goto(t, "leave_input")
  /\ UNCHANGED <<lobbies, created, settings, registered, input, source>>

LeaveInput(t) ==
  /\ Running(t, "leave_input")
  /\ input' = [input EXCEPT ![Head(stack[t]).session] = Own]
  /\ Goto(t, "leave_source")
  /\ UNCHANGED <<lobbies, created, settings, connected, registered, source>>

\* Variant of LeaveSource for mutation: the stream goes on showing the lobby.
LeaveSourceShown(t) ==
  /\ Running(t, "leave_source")
  /\ Goto(t, "last")
  /\ UNCHANGED <<lobbies, created, settings, connected, registered, input, source>>

LeaveSource(t) ==
  /\ Running(t, "leave_source")
  /\ source' = [source EXCEPT ![Head(stack[t]).session] = Own]
  /\ Goto(t, "last")
  /\ UNCHANGED <<lobbies, created, settings, connected, registered, input>>

\* Variant of LeaveLast for mutation: nobody stops the lobby.
LeaveLastOnly(t) ==
  /\ Running(t, "last")
  /\ Return(t)
  /\ UNCHANGED <<lobbies, created, settings, connected, registered, input, source>>

\* The last to leave stops the lobby, when it was created to stop then.
LeaveLast(t) ==
  /\ Running(t, "last")
  /\ LET l == Head(stack[t]).lobby
     IN  IF settings[l].stop_when_everyone_leaves /\ connected[l] = <<>>
         THEN FireLast(t, <<At("check_stop", l, None)>>) ELSE Return(t)
  /\ UNCHANGED <<lobbies, created, settings, connected, registered, input, source>>

-----------------------------------------------------------------------------
(* The handler of StopLobbyEvent: everyone who is connected now leaves, one *)
(* event each, and then the lobby leaves the list.                          *)

CheckStop(t) ==
  /\ Running(t, "check_stop")
  /\ LET l == Head(stack[t]).lobby
     IN  IF Found(l)
         THEN stack' = [stack EXCEPT ![t][1] =
                         [@ EXCEPT !.at = "each", !.todo = connected[l]]]
         ELSE Return(t)
  /\ UNCHANGED <<lobbies, created, settings, connected, registered, input, source>>

StopEach(t) ==
  /\ Running(t, "each")
  /\ LET f == Head(stack[t])
     IN  IF f.todo = <<>> THEN Goto(t, "remove")
         ELSE stack' = [stack EXCEPT ![t] =
                <<At("check_leave", f.lobby, Head(f.todo)),
                  [f EXCEPT !.todo = Tail(@)]>> \o Tail(@)]
  /\ UNCHANGED <<lobbies, created, settings, connected, registered, input, source>>

StopRemove(t) ==
  /\ Running(t, "remove")
  /\ lobbies' = Without(lobbies, Head(stack[t]).lobby)
  /\ Return(t)
  /\ UNCHANGED <<created, settings, connected, registered, input, source>>

-----------------------------------------------------------------------------
(* Pause, stop and combo: the session leaves the first lobby it is in; a    *)
(* stop also takes it out of running_sessions (the moonlight handler).      *)

SessionOver(t) ==
  /\ Running(t, "over")
  /\ LET s == Head(stack[t]).session
         in == {l \in ToSet(lobbies) : s \in Members(l)}
     IN  IF in = {} THEN Return(t)
         ELSE FireLast(t, <<At("check_leave", Min(in), s)>>)
  /\ UNCHANGED <<lobbies, created, settings, connected, registered, input, source>>

ForgetSession(t) ==
  /\ Running(t, "forget")
  /\ registered' = registered \ {Head(stack[t]).session}
  /\ Return(t)
  /\ UNCHANGED <<lobbies, created, settings, connected, input, source>>

HandlerStep(t) ==
  \/ CheckJoin(t) \/ JoinPush(t) \/ JoinInput(t) \/ JoinSource(t)
  \/ CheckLeave(t) \/ LeaveFilter(t) \/ LeaveInput(t) \/ LeaveSource(t)
  \/ LeaveLast(t)
  \/ CheckStop(t) \/ StopEach(t) \/ StopRemove(t)
  \/ SessionOver(t) \/ ForgetSession(t)

Next ==
  \/ \E s \in Session : StartSession(s)
  \/ \E with \in Settings : CreateLobby(with)
  \/ \E t \in Thread, s \in Session :
       \/ PauseStream(t, s) \/ StopStream(t, s)
       \/ \E l \in Lobby : JoinLobby(t, l, s) \/ LeaveLobby(t, l, s)
  \/ \E t \in Thread, l \in Lobby : StopLobby(t, l)
  \/ \E t \in Thread : HandlerStep(t)

\* A thread inside a handler goes on; nobody has to join, leave or stop.
Spec == Init /\ [][Next]_vars
FairSpec == Spec /\ \A t \in Thread : WF_vars(HandlerStep(t))

-----------------------------------------------------------------------------
\* While no handler is running, what a session shows and where its input goes
\* is the lobby that lists it, or its own app when none does: the three are
\* changed one after the other by join and leave, and read by other handlers.
PlaysWhereConnected ==
  (\A t \in Thread : stack[t] = <<>>) =>
    \A s \in registered :
      /\ input[s] = source[s]
      /\ \A l \in Lobby : s \in Members(l) <=> source[s] = l

\* A lobby with stop_when_everyone_leaves that is being left by its last
\* member is stopped, or somebody has joined it in the meantime.
EmptyLobbyStops ==
  \A l \in Lobby :
    /\ settings[l].stop_when_everyone_leaves /\ Found(l)
    /\ connected[l] = <<>>
    /\ \E t \in Thread : Running(t, "leave_input") /\ Head(stack[t]).lobby = l
    ~> ~Found(l) \/ connected[l] # <<>>

\* With one thread the lobbies implement LobbyMembership: a session is where
\* a list says it is.
Where(s) ==
  LET in == {l \in Lobby : s \in Members(l)}
  IN  IF in = {} THEN Own ELSE Min(in)

Membership == INSTANCE LobbyMembership WITH
  open   <- ToSet(lobbies),
  closed <- (1..created) \ ToSet(lobbies),
  shared <- {l \in 1..created : settings[l].multi_user},
  where  <- [s \in Session |-> Where(s)]

ImplementsMembership == Membership!Spec
=============================================================================
