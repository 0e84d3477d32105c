-------------------------------- MODULE Input --------------------------------
(***************************************************************************)
(* The input packets of Moonlight clients: keys, buttons and fingers that  *)
(* go down in a compositor, and joypads that come and go.                  *)
(*                                                                         *)
(* Every session has a compositor of its own and may move to that of a     *)
(* lobby and back, which replaces its mouse, keyboard and touch screen. A  *)
(* compositor has one WaylandState, shared by the devices of all who play  *)
(* in it. Codes are Moonlight's: several may stand for one key.            *)
(***************************************************************************)
EXTENDS Integers, FiniteSets

CONSTANTS Session,      \* sessions of connected clients
          Lobby,        \* a lobby, that is not a session
          Key,          \* key and button codes of Moonlight
          Finger,       \* touch ids
          Linux(_),     \* the Linux key or button of a code
          Modifier,     \* the codes pressed on behalf of a modifier
          ComboModifier,\* those of the combo: SHIFT, CTRL and ALT
          ComboKey,     \* W
          Paste,        \* the codes that type a character as CTRL+SHIFT+U+hex
          Pad(_),       \* the controller numbers of a session's client
          MaxHeld       \* bound: codes that a client holds at a time

ASSUME InputAssumption ==
  /\ Lobby \notin Session
  /\ Key \cap Finger = {}
  /\ Modifier \subseteq Key /\ ComboModifier \subseteq Modifier
  /\ ComboKey \in Key \ Modifier
  /\ Paste \subseteq Key
  /\ \A k \in Key : Linux(k) \notin Finger
  /\ \A f \in Finger : Linux(f) = f
  /\ MaxHeld \in Nat

VARIABLES
  linked,   \* sessions whose client has a control connection
  at,       \* the compositor that a session's devices send to
  pressed,  \* per compositor, pressed_keys and pressed_buttons
  down,     \* per compositor, the keys and fingers it believes are down
  held,     \* per session, what its client holds down
  lost,     \* per compositor, keys that were down when a connection ended
  pads,     \* per session, its joypads
  active,   \* per session, the controllers its client has
  zombie    \* per session, joypads left behind by a connection or a failure

keys == <<pressed, down, lost>>
joypads == <<pads, active, zombie>>
vars == <<linked, at, keys, held, joypads>>

Place == Session \cup {Lobby}
Code == Key \cup Finger
Pads == UNION {Pad(s) : s \in Session}
KeysOf(codes) == {Linux(k) : k \in codes}

TypeOK ==
  /\ linked \in SUBSET Session
  /\ at \in [Session -> Place]
  /\ pressed \in [Place -> SUBSET Key]
  /\ down \in [Place -> SUBSET KeysOf(Code)]
  /\ held \in [Session -> SUBSET Code]
  /\ lost \in [Place -> SUBSET KeysOf(Code)]
  /\ pads \in [Session -> SUBSET Pads]
  /\ active \in [Session -> SUBSET Pads]
  /\ zombie \in [Session -> SUBSET Pads]

Init ==
  /\ linked = {}
  /\ at = [s \in Session |-> s]
  /\ pressed = [w \in Place |-> {}]
  /\ down = [w \in Place |-> {}]
  /\ held = [s \in Session |-> {}]
  /\ lost = [w \in Place |-> {}]
  /\ pads = [s \in Session |-> {}]
  /\ active = [s \in Session |-> {}]
  /\ zombie = [s \in Session |-> {}]

-----------------------------------------------------------------------------
(* WaylandKeyboard, WaylandMouse and WaylandTouchScreen. *)

\* Variant of Strike for mutation: what was pressed for a modifier stays down.
StrikeNoRelease(w, code, mods) ==
  /\ pressed' = [pressed EXCEPT ![w] = @ \cup {code} \cup mods]
  /\ down' = [down EXCEPT ![w] = @ \cup KeysOf({code} \cup mods)]
  /\ UNCHANGED lost

\* Press mods, press the code, release mods.
Strike(w, code, mods) ==
  /\ pressed' = [pressed EXCEPT ![w] = (@ \cup {code}) \ mods]
  /\ down' = [down EXCEPT ![w] = (@ \cup {Linux(code)}) \ KeysOf(mods)]
  /\ lost' = [lost EXCEPT ![w] = @ \ KeysOf(mods)]

\* Release codes; the keys of those codes go up, whoever holds them.
Lift(w, codes) ==
  /\ pressed' = [pressed EXCEPT ![w] = @ \ codes]
  /\ down' = [down EXCEPT ![w] = @ \ KeysOf(codes)]
  /\ lost' = [lost EXCEPT ![w] = @ \ KeysOf(codes)]

\* Variant of Unplug for mutation: the keyboard is replaced, not the mouse and
\* the touch screen.
UnplugKeyboardOnly(w) == Lift(w, pressed[w])

\* The destructors of a session's three devices: every code pressed in their
\* compositor is released, and every finger cancelled.
Unplug(w) == Lift(w, pressed[w] \cup Finger)

\* mouse, keyboard and touch_screen are emplaced for another compositor.
Switch(s, to) ==
  /\ Unplug(at[s])
  /\ at' = [at EXCEPT ![s] = to]

-----------------------------------------------------------------------------
(* Lobbies, as far as devices go: see Lobbies for the membership. *)

JoinLobby(s) ==
  /\ at[s] = s
  /\ Switch(s, Lobby)
  /\ UNCHANGED <<linked, held, joypads>>

\* on_moonlight_session_over: back to the session's own compositor.
LeaveLobby(s) ==
  /\ at[s] = Lobby
  /\ Switch(s, s)
  /\ UNCHANGED <<linked, held, joypads>>

\* The WolfUI combo leaves the lobby if the session is in one.
Combo(s, codes) ==
  \/ at[s] = Lobby /\ Switch(s, s)
  \/ at[s] = s /\ Lift(s, codes) /\ UNCHANGED at

-----------------------------------------------------------------------------
(* The control thread: one packet after the other. *)

\* The client (re)connects; it may hold nothing and have controllers already.
Connect(s) ==
  /\ s \notin linked
  /\ linked' = linked \cup {s}
  /\ UNCHANGED <<at, keys, held, joypads>>

\* The connection ends: PauseStream takes the session out of its lobby. Its
\* joypads stay, and so do keys in its own compositor.
Disconnect(s) ==
  /\ s \in linked
  /\ linked' = linked \ {s}
  /\ held' = [held EXCEPT ![s] = {}]
  /\ active' = [active EXCEPT ![s] = {}]
  /\ zombie' = [zombie EXCEPT ![s] = pads[s]]
  /\ UNCHANGED pads
  /\ \/ at[s] = Lobby /\ Switch(s, s)
     \/ /\ at[s] = s
        /\ lost' = [lost EXCEPT ![s] = @ \cup (down[s] \cap KeysOf(held[s]))]
        /\ UNCHANGED <<at, pressed, down>>

Holds(s, code) ==
  /\ s \in linked
  /\ Cardinality(held[s] \cup {code}) <= MaxHeld
  /\ held' = [held EXCEPT ![s] = @ \cup {code}]
  /\ UNCHANGED <<linked, joypads>>

Drops(s, codes) ==
  /\ s \in linked
  /\ codes \cap held[s] # {}
  /\ held' = [held EXCEPT ![s] = @ \ codes]
  /\ UNCHANGED <<linked, joypads>>

\* KEY_PRESS with modifiers, or a press of a button, which has none. The combo
\* releases its modifiers and is not pressed itself.
KeyPress(s, code, mods) ==
  /\ Holds(s, code)
  /\ IF code = ComboKey /\ ComboModifier \subseteq mods
     THEN Combo(s, ComboModifier)
     ELSE Strike(at[s], code, mods \ {code}) /\ UNCHANGED at

KeyRelease(s, code) ==
  /\ Drops(s, {code})
  /\ Lift(at[s], {code})
  /\ UNCHANGED at

\* UTF8_TEXT: paste_utf presses and releases its codes in turn.
Utf8Text(s) ==
  /\ s \in linked
  /\ Lift(at[s], Paste)
  /\ UNCHANGED <<linked, at, held, joypads>>

TouchDown(s, f) ==
  /\ Holds(s, f)
  /\ down' = [down EXCEPT ![at[s]] = @ \cup {f}]
  /\ UNCHANGED <<at, pressed, lost>>

TouchUp(s, f) ==
  /\ Drops(s, {f})
  /\ Lift(at[s], {f})
  /\ UNCHANGED at

\* CANCEL and HOVER_LEAVE cancel every touch of the compositor.
TouchCancel(s) ==
  /\ Drops(s, Finger)
  /\ Lift(at[s], Finger)
  /\ UNCHANGED at

-----------------------------------------------------------------------------
(* Joypads. The kernel may refuse to create one (ok = FALSE). *)

\* Adds a joypad if it can be created; create_new_joypad fires PlugDeviceEvent.
Create(s, p, ok) ==
  pads' = [pads EXCEPT ![s] = IF ok THEN @ \cup {p} ELSE @]

\* The client has a new controller, and says so if it is not too old.
Plug(s, p) ==
  /\ s \in linked /\ p \notin active[s]
  /\ active' = [active EXCEPT ![s] = @ \cup {p}]
  /\ zombie' = [zombie EXCEPT ![s] = @ \ {p}]

PlugSilently(s, p) ==
  /\ Plug(s, p)
  /\ UNCHANGED <<linked, at, keys, held, pads>>

\* controller_arrival skips a joypad that is already there.
ControllerArrival(s, p, ok) ==
  /\ Plug(s, p)
  /\ Create(s, p, ok)
  /\ UNCHANGED <<linked, at, keys, held>>

\* controller_multi of a controller that stays: created when it is first
\* mentioned. START + UP + RB is the combo.
ControllerMulti(s, p, ok, combo) ==
  /\ s \in linked /\ p \in active[s]
  /\ p \notin pads[s] \/ combo
  /\ IF p \in pads[s] THEN UNCHANGED pads ELSE Create(s, p, ok)
  /\ IF combo /\ p \in pads'[s] THEN Combo(s, {}) ELSE UNCHANGED <<at, keys>>
  /\ UNCHANGED <<linked, held, active, zombie>>

\* Variant of Gone for mutation: the unplug is fired and the joypad kept.
GoneUnplugOnly(s, p, ok) ==
  /\ pads' = pads
  /\ zombie' = [zombie EXCEPT ![s] = @ \ {p}]

\* The final packet of a controller, whose bit is not in the mask: the joypad is
\* removed, or created if it was not there.
Gone(s, p, ok) ==
  IF p \in pads[s]
  THEN /\ pads' = [pads EXCEPT ![s] = @ \ {p}]
       /\ zombie' = [zombie EXCEPT ![s] = @ \ {p}]
  ELSE /\ Create(s, p, ok)
       /\ zombie' = [zombie EXCEPT ![s] = IF ok THEN @ \cup {p} ELSE @]

ControllerGone(s, p, ok) ==
  /\ s \in linked /\ p \in active[s]
  /\ active' = [active EXCEPT ![s] = @ \ {p}]
  /\ Gone(s, p, ok)
  /\ UNCHANGED <<linked, at, keys, held>>

-----------------------------------------------------------------------------
Packet(s) ==
  \/ \E code \in Key, mods \in SUBSET Modifier : KeyPress(s, code, mods)
  \/ \E code \in Key : KeyRelease(s, code)
  \/ Utf8Text(s)
  \/ \E f \in Finger : TouchDown(s, f) \/ TouchUp(s, f)
  \/ TouchCancel(s)
  \/ \E p \in Pad(s) : PlugSilently(s, p)
  \/ \E p \in Pad(s), ok \in BOOLEAN :
       \/ ControllerArrival(s, p, ok)
       \/ ControllerGone(s, p, ok)
       \/ \E combo \in BOOLEAN : ControllerMulti(s, p, ok, combo)

Next ==
  \E s \in Session :
    Connect(s) \/ Disconnect(s) \/ JoinLobby(s) \/ LeaveLobby(s) \/ Packet(s)

Spec == Init /\ [][Next]_vars

-----------------------------------------------------------------------------
(* Conversions of a packet's data. *)

\* The type of a new joypad: of the game, else of the slot, else what motion
\* asks for, else what the client asked for.
ControllerType(game, slot, motionSetting, requested, motion) ==
  IF game # "AUTO" THEN game
  ELSE IF slot # "AUTO" THEN slot
  ELSE IF motion /\ motionSetting # "AUTO" THEN motionSetting
  ELSE IF requested # "UNKNOWN" THEN requested
  ELSE IF motion THEN "PS" ELSE "AUTO"

\* The angle of a finger, 0..360 from the Y axis, as -90..90.
TouchAngle(rotation) ==
  LET mirrored == IF rotation > 90 /\ rotation < 270 THEN 180 - rotation ELSE rotation
  IN  IF mirrored > 90 THEN mirrored - 360
      ELSE IF mirrored < -90 THEN mirrored + 360 ELSE mirrored

-----------------------------------------------------------------------------
Held(w) == UNION {held[s] : s \in {t \in Session : at[t] = w}}

\* What is down in a compositor is held by somebody who plays in it, whichever
\* ways its players came, left, typed and pressed the combo; but for keys that
\* were down when the connection of a client ended.
KeysDownAreHeld ==
  \A w \in Place : down[w] \subseteq KeysOf(Held(w)) \cup lost[w]

\* The destructors release what has been recorded as pressed: nothing else may
\* be down but fingers, or it would stay down for good.
DownIsRecorded ==
  \A w \in Place : down[w] \subseteq KeysOf(pressed[w]) \cup Finger

\* Who leaves a compositor leaves nothing down in it.
LeavesNothingDown ==
  [][\A s \in Session : at'[s] # at[s] => down'[at[s]] = {}]_vars

\* A session has the joypads of its client's controllers and no other, but for
\* those that the end of a connection or a failed creation has left behind.
PadsAreActive == \A s \in Session : pads[s] \subseteq active[s] \cup zombie[s]
=============================================================================
