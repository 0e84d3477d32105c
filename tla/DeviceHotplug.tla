--------------------------- MODULE DeviceHotplug ---------------------------
(***************************************************************************)
(* The joypads of one session and one lobby. A joypad reaches a container  *)
(* through a queue that the container's runner drains, and leaves it by an *)
(* event the runner hears at once. Joining and leaving the lobby moves the *)
(* session's joypads from one container to the other, on an API thread,    *)
(* while the control thread adds and removes joypads and both runners      *)
(* drain.                                                                  *)
(***************************************************************************)
EXTENDS Naturals, Sequences, FiniteSets, SequencesExt

CONSTANTS Pad,        \* controller numbers
          Control,    \* the thread of the control stream
          ApiThread,  \* threads that fire joins and leaves
          Spaced,     \* events come when the queues of earlier ones are drained
          NoPad        \* no joypad, no device

Thread == {Control} \cup ApiThread
Place == {"session", "lobby"}   \* whose container, queue and device events

ASSUME HotplugAssumption ==
  /\ IsFiniteSet(Pad)
  /\ Control \notin ApiThread
  /\ Spaced \in BOOLEAN
  /\ NoPad \notin Pad \cup [for : Place, pad : Pad]

VARIABLES
  inLobby,   \* is the session on the lobby's connected_sessions
  joypads,   \* session.joypads
  queue,     \* plugged_devices_queue of the session and of the lobby
  up,        \* runners in their loop, with the unplug handler registered
  held,      \* the device a runner has popped and not yet plugged
  plugged,   \* devices in each container
  todo       \* events each thread has to fire: sets of handler calls

hotplugVars == <<inLobby, joypads, queue, up, held, plugged, todo>>

Device == [for : Place, pad : Pad]
Call == [do : {"moonlight_plug", "lobbies_plug", "lobbies_unplug",
               "session_unplug", "lobby_unplug", "add", "drop", "push",
               "enter", "exit", "move_in", "move_out"},
         pad : Pad \cup {NoPad}]

HotplugTypeOK ==
  /\ inLobby \in BOOLEAN
  /\ joypads \subseteq Pad
  /\ queue \in [Place -> Seq(Device)]
  /\ up \subseteq Place
  /\ held \in [Place -> Device \cup {NoPad}]
  /\ \A w \in Place : held[w] # NoPad => held[w].for = w
  /\ plugged \in [Place -> SUBSET Pad]
  /\ todo \in [Thread -> Seq((SUBSET Call) \ {{}})]

HotplugInit ==
  /\ inLobby = FALSE
  /\ joypads = {}
  /\ queue = [w \in Place |-> <<>>]
  /\ up = {}
  /\ held = [w \in Place |-> NoPad]
  /\ plugged = [w \in Place |-> {}]
  /\ todo = [t \in Thread |-> <<>>]

-----------------------------------------------------------------------------
(* Events: the handlers of one event run in any order, on the thread that   *)
(* fires it.                                                                *)

Do(what, p) == {[do |-> what, pad |-> p]}
PlugEvent(p) == Do("moonlight_plug", p) \cup Do("lobbies_plug", p)
UnplugEvent(p) == Do("session_unplug", p) \cup Do("lobbies_unplug", p)
UnplugLobbyEvent(p) == Do("lobby_unplug", p)
Move(what) == Do(what, NoPad)

Quiet == \A t \in Thread : todo[t] = <<>>
Drained == \A w \in Place : queue[w] = <<>> /\ held[w] = NoPad

Begin(t, events) ==
  /\ todo[t] = <<>>
  /\ Spaced => Quiet /\ Drained
  /\ todo' = [todo EXCEPT ![t] = events]
  /\ UNCHANGED <<inLobby, joypads, queue, up, held, plugged>>

\* create_new_joypad() fires the plug inside the update of session.joypads.
ControllerArrival(p) ==
  /\ p \notin joypads
  /\ Begin(Control, <<PlugEvent(p), Do("add", p)>>)

\* controller_multi() without the bit of this controller in the mask.
ControllerGone(p) ==
  /\ p \in joypads
  /\ Begin(Control, <<UnplugEvent(p), Do("drop", p)>>)

\* The session enters the lobby's list, and then its joypads are moved.
JoinLobby(t) == ~inLobby /\ Begin(t, <<Move("enter"), Move("move_in")>>)

\* Over the API, or by the control thread when the stream is paused.
LeaveLobby(t) == inLobby /\ Begin(t, <<Move("exit"), Move("move_out")>>)

-----------------------------------------------------------------------------
(* The moves of a join and a leave. *)

Doing(t, what) == todo[t] # <<>> /\ Head(todo[t]) = Move(what)
GoOn(t, events) == todo' = [todo EXCEPT ![t] = events \o Tail(@)]

Enter(t) ==
  /\ Doing(t, "enter")
  /\ inLobby' = TRUE
  /\ GoOn(t, <<>>)
  /\ UNCHANGED <<joypads, queue, up, held, plugged>>

Exit(t) ==
  /\ Doing(t, "exit")
  /\ inLobby' = FALSE
  /\ GoOn(t, <<>>)
  /\ UNCHANGED <<joypads, queue, up, held, plugged>>

ForEachJoypad(events) ==
  LET pads == SetToSeq(joypads)
  IN  FlattenSeq([i \in DOMAIN pads |-> events[pads[i]]])

\* Plug it as the session's, unplug it as the session's, and push the event of
\* the session on the lobby's queue.
MoveIn(t) ==
  /\ Doing(t, "move_in")
  /\ GoOn(t, ForEachJoypad([p \in joypads |->
                         <<PlugEvent(p), UnplugEvent(p), Do("push", p)>>]))
  /\ UNCHANGED <<inLobby, joypads, queue, up, held, plugged>>

\* Variant of MoveOut for mutation: the devices are only taken away.
MoveOutUnplugOnly(t) ==
  /\ Doing(t, "move_out")
  /\ GoOn(t, ForEachJoypad([p \in joypads |-> <<UnplugLobbyEvent(p)>>]))
  /\ UNCHANGED <<inLobby, joypads, queue, up, held, plugged>>

\* Plug it as the session's, which is in no lobby by now, and unplug it as the
\* lobby's.
MoveOut(t) ==
  /\ Doing(t, "move_out")
  /\ GoOn(t, ForEachJoypad([p \in joypads |-> <<PlugEvent(p), UnplugLobbyEvent(p)>>]))
  /\ UNCHANGED <<inLobby, joypads, queue, up, held, plugged>>

-----------------------------------------------------------------------------
(* The handlers. *)

Calls(t) == IF todo[t] = <<>> THEN {} ELSE Head(todo[t])

\* The call is over; an event it fires comes before the rest.
Over(t, call, fires) ==
  LET rest == Head(todo[t]) \ {call}
  IN  GoOn(t, fires \o (IF rest = {} THEN <<>> ELSE <<rest>>))

Push(w, for, p) == queue' = [queue EXCEPT ![w] = Append(@, [for |-> for, pad |-> p])]

\* Variant of MoonlightPlug for mutation: it does not look for a lobby.
MoonlightPlugAlways(t, p) ==
  LET call == [do |-> "moonlight_plug", pad |-> p]
  IN  /\ call \in Calls(t)
      /\ Push("session", "session", p)
      /\ Over(t, call, <<>>)
      /\ UNCHANGED <<inLobby, joypads, up, held, plugged>>

\* The moonlight handler: the session's own queue, unless it is in a lobby.
MoonlightPlug(t, p) ==
  LET call == [do |-> "moonlight_plug", pad |-> p]
  IN  /\ call \in Calls(t)
      /\ IF inLobby THEN UNCHANGED queue ELSE Push("session", "session", p)
      /\ Over(t, call, <<>>)
      /\ UNCHANGED <<inLobby, joypads, up, held, plugged>>

\* The lobbies' handler: the queue of the lobby the session is in.
LobbiesPlug(t, p) ==
  LET call == [do |-> "lobbies_plug", pad |-> p]
  IN  /\ call \in Calls(t)
      /\ IF inLobby THEN Push("lobby", "lobby", p) ELSE UNCHANGED queue
      /\ Over(t, call, <<>>)
      /\ UNCHANGED <<inLobby, joypads, up, held, plugged>>

\* The lobbies' handler fires the unplug again for the lobby.
LobbiesUnplug(t, p) ==
  LET call == [do |-> "lobbies_unplug", pad |-> p]
  IN  /\ call \in Calls(t)
      /\ Over(t, call, IF inLobby THEN <<UnplugLobbyEvent(p)>> ELSE <<>>)
      /\ UNCHANGED <<inLobby, joypads, queue, up, held, plugged>>

\* A runner that has registered its handler removes the device.
RunnerUnplug(t, w, p) ==
  LET call == [do |-> IF w = "session" THEN "session_unplug" ELSE "lobby_unplug",
               pad |-> p]
  IN  /\ call \in Calls(t)
      /\ plugged' = IF w \in up THEN [plugged EXCEPT ![w] = @ \ {p}] ELSE plugged
      /\ Over(t, call, <<>>)
      /\ UNCHANGED <<inLobby, joypads, queue, up, held>>

\* What a join pushes itself carries the session's id.
JoinPush(t, p) ==
  LET call == [do |-> "push", pad |-> p]
  IN  /\ call \in Calls(t)
      /\ Push("lobby", "session", p)
      /\ Over(t, call, <<>>)
      /\ UNCHANGED <<inLobby, joypads, up, held, plugged>>

AddJoypad(p) ==
  LET call == [do |-> "add", pad |-> p]
  IN  /\ call \in Calls(Control)
      /\ joypads' = joypads \cup {p}
      /\ Over(Control, call, <<>>)
      /\ UNCHANGED <<inLobby, queue, up, held, plugged>>

DropJoypad(p) ==
  LET call == [do |-> "drop", pad |-> p]
  IN  /\ call \in Calls(Control)
      /\ joypads' = joypads \ {p}
      /\ Over(Control, call, <<>>)
      /\ UNCHANGED <<inLobby, queue, up, held, plugged>>

ThreadStep(t) ==
  \/ Enter(t) \/ Exit(t) \/ MoveIn(t) \/ MoveOut(t)
  \/ \E p \in Pad :
       \/ MoonlightPlug(t, p) \/ LobbiesPlug(t, p) \/ LobbiesUnplug(t, p)
       \/ JoinPush(t, p)
       \/ \E w \in Place : RunnerUnplug(t, w, p)
       \/ t = Control /\ (AddJoypad(p) \/ DropJoypad(p))

-----------------------------------------------------------------------------
(* The runners: pop a device, plug it if it carries the runner's own id. *)

RunnerStarts(w) ==
  /\ w \notin up
  /\ up' = up \cup {w}
  /\ UNCHANGED <<inLobby, joypads, queue, held, plugged, todo>>

\* Variant of Pop for mutation: any device is plugged.
PopAny(w) ==
  /\ w \in up /\ held[w] = NoPad /\ queue[w] # <<>>
  /\ held' = [held EXCEPT ![w] = Head(queue[w])]
  /\ queue' = [queue EXCEPT ![w] = Tail(@)]
  /\ UNCHANGED <<inLobby, joypads, up, plugged, todo>>

Pop(w) ==
  /\ w \in up /\ held[w] = NoPad /\ queue[w] # <<>>
  /\ LET device == Head(queue[w])
     IN  held' = [held EXCEPT ![w] = IF device.for = w THEN device ELSE NoPad]
  /\ queue' = [queue EXCEPT ![w] = Tail(@)]
  /\ UNCHANGED <<inLobby, joypads, up, plugged, todo>>

PlugDevice(w) ==
  /\ held[w] # NoPad
  /\ plugged' = [plugged EXCEPT ![w] = @ \cup {held[w].pad}]
  /\ held' = [held EXCEPT ![w] = NoPad]
  /\ UNCHANGED <<inLobby, joypads, queue, up, todo>>

RunnerStep(w) == Pop(w) \/ PlugDevice(w)

-----------------------------------------------------------------------------
HotplugNext ==
  \/ \E p \in Pad : ControllerArrival(p) \/ ControllerGone(p)
  \/ \E t \in ApiThread : JoinLobby(t)
  \/ \E t \in Thread : LeaveLobby(t) \/ ThreadStep(t)
  \/ \E w \in Place : RunnerStarts(w) \/ RunnerStep(w)

\* Threads go on firing what they have begun, runners go on draining.
HotplugSpec == HotplugInit /\ [][HotplugNext]_hotplugVars
HotplugFairSpec ==
  /\ HotplugSpec
  /\ \A t \in Thread : WF_hotplugVars(ThreadStep(t))
  /\ \A w \in Place : WF_hotplugVars(RunnerStep(w))

-----------------------------------------------------------------------------
\* When nothing is on its way, a session that is in no lobby has all of its
\* joypads in its own container, and no joypad is left in the container of the
\* place it does not play in, nor one that has gone in the other: the handlers
\* decide by the lobby's list, which a join and a leave change before they fire.
PadsInOnePlace ==
  Quiet /\ Drained =>
    IF inLobby
    THEN plugged["session"] = {} /\ plugged["lobby"] \subseteq joypads
    ELSE plugged["session"] = joypads /\ plugged["lobby"] = {}

\* A joypad of a session that has left its lobby, or was in none, gets into the
\* session's container, unless the session joins again or the joypad goes.
PadComesBack ==
  \A p \in Pad :
    ~inLobby /\ p \in joypads /\ "session" \in up
      ~> p \in plugged["session"] \/ inLobby \/ p \notin joypads
=============================================================================
