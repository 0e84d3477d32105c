----------------------------- MODULE InputProofs -----------------------------
(***************************************************************************)
(* What Input keeps for all sessions, codes and controllers: no key stays  *)
(* down that nobody holds, and every device can be accounted for.          *)
(***************************************************************************)
EXTENDS Input, TLAPS

\* A session plays in its own compositor or in the lobby's.
AtHome == \A s \in Session : at[s] \in {s, Lobby}

\* A key k that is down in w is held by somebody there, or lost.
KeyOK(w, k) ==
  k \in down[w] =>
    \/ k \in lost[w]
    \/ \E s \in Session : at[s] = w /\ \E c \in held[s] : Linux(c) = k

\* A key k that is down in w is recorded, or a finger.
RecordOK(w, k) ==
  k \in down[w] => k \in Finger \/ \E c \in pressed[w] : Linux(c) = k

KeysInv == \A w \in Place : \A k : KeyOK(w, k) /\ RecordOK(w, k)

InputInv == TypeOK /\ AtHome /\ KeysInv /\ PadsAreActive

-----------------------------------------------------------------------------
\* Nothing is down and nobody is connected at first.
LEMMA InitInv == Init => InputInv
BY DEF Init, InputInv, TypeOK, AtHome, KeysInv, KeyOK, RecordOK, PadsAreActive, Place

\* Places are the sessions' own and the lobby.
LEMMA AtPlace ==
  ASSUME TypeOK, NEW s \in Session
  PROVE  at[s] \in Place /\ s \in Place /\ Lobby \in Place
BY DEF TypeOK, Place

\* Lift keeps the types of the three variables of keys, and what it does to
\* each of them.
LEMMA LiftDoes ==
  ASSUME TypeOK, NEW w \in Place, NEW codes, Lift(w, codes)
  PROVE  /\ pressed' \in [Place -> SUBSET Key]
         /\ down' \in [Place -> SUBSET KeysOf(Code)]
         /\ lost' \in [Place -> SUBSET KeysOf(Code)]
         /\ \A v \in Place : v # w =>
              pressed'[v] = pressed[v] /\ down'[v] = down[v] /\ lost'[v] = lost[v]
         /\ pressed'[w] = pressed[w] \ codes
         /\ down'[w] = down[w] \ KeysOf(codes)
         /\ lost'[w] = lost[w] \ KeysOf(codes)
<1>1. pressed' \in [Place -> SUBSET Key]
  BY DEF TypeOK, Lift
<1>2. down' \in [Place -> SUBSET KeysOf(Code)]
  BY DEF TypeOK, Lift
<1>3. lost' \in [Place -> SUBSET KeysOf(Code)]
  BY DEF TypeOK, Lift
<1>4. QED
  BY <1>1, <1>2, <1>3 DEF TypeOK, Lift

\* The same of Strike.
LEMMA StrikeDoes ==
  ASSUME TypeOK, NEW w \in Place, NEW code \in Key, NEW mods, Strike(w, code, mods)
  PROVE  /\ pressed' \in [Place -> SUBSET Key]
         /\ down' \in [Place -> SUBSET KeysOf(Code)]
         /\ lost' \in [Place -> SUBSET KeysOf(Code)]
         /\ \A v \in Place : v # w =>
              pressed'[v] = pressed[v] /\ down'[v] = down[v] /\ lost'[v] = lost[v]
         /\ pressed'[w] = (pressed[w] \cup {code}) \ mods
         /\ down'[w] = (down[w] \cup {Linux(code)}) \ KeysOf(mods)
         /\ lost'[w] = lost[w] \ KeysOf(mods)
<1>1. Linux(code) \in KeysOf(Code)
  BY DEF KeysOf, Code
<1>2. pressed' \in [Place -> SUBSET Key]
  BY DEF TypeOK, Strike
<1>3. down' \in [Place -> SUBSET KeysOf(Code)]
  BY <1>1 DEF TypeOK, Strike
<1>4. lost' \in [Place -> SUBSET KeysOf(Code)]
  BY DEF TypeOK, Strike
<1>5. QED
  BY <1>2, <1>3, <1>4 DEF TypeOK, Strike

\* Releasing codes that nobody keeps holding there leaves the rest accounted for.
LEMMA LiftKeys ==
  ASSUME TypeOK, KeysInv, NEW w \in Place, NEW codes, Lift(w, codes), at' = at,
         \A t \in Session : held[t] \ (IF at[t] = w THEN codes ELSE {}) \subseteq held'[t]
  PROVE  KeysInv'
<1> SUFFICES ASSUME NEW v \in Place, NEW k PROVE KeyOK(v, k)' /\ RecordOK(v, k)'
  BY DEF KeysInv, Place
<1>1. KeyOK(v, k) /\ RecordOK(v, k)
  BY DEF KeysInv
<1>2. CASE v # w
  BY <1>1, <1>2, LiftDoes DEF KeyOK, RecordOK
<1>3. CASE v = w /\ k \in down'[w]
  <2>1. k \in down[w] /\ k \notin KeysOf(codes)
    BY <1>3, LiftDoes
  <2>2. \A c : Linux(c) = k => c \notin codes
    BY <2>1 DEF KeysOf
  <2>3. RecordOK(v, k)'
    BY <1>1, <1>3, <2>1, <2>2, LiftDoes DEF RecordOK
  <2>4. CASE k \in lost[w]
    BY <1>3, <2>1, <2>3, <2>4, LiftDoes DEF KeyOK
  <2>5. CASE \E s \in Session : at[s] = w /\ \E c \in held[s] : Linux(c) = k
    BY <1>3, <2>2, <2>3, <2>5 DEF KeyOK
  <2>6. QED
    BY <1>1, <1>3, <2>1, <2>4, <2>5 DEF KeyOK
<1>4. QED
  BY <1>2, <1>3 DEF KeyOK, RecordOK

\* A key struck by who holds it is accounted for.
LEMMA StrikeKeys ==
  ASSUME TypeOK, KeysInv, NEW s \in Session, NEW code \in Key, NEW mods,
         Strike(at[s], code, mods), code \notin mods, at' = at, code \in held'[s],
         \A t \in Session : held[t] \subseteq held'[t]
  PROVE  KeysInv'
<1> SUFFICES ASSUME NEW v \in Place, NEW k PROVE KeyOK(v, k)' /\ RecordOK(v, k)'
  BY DEF KeysInv, Place
<1>1. KeyOK(v, k) /\ RecordOK(v, k)
  BY DEF KeysInv
<1>2. at[s] \in Place
  BY AtPlace
<1>3. CASE v # at[s]
  BY <1>1, <1>2, <1>3, StrikeDoes DEF KeyOK, RecordOK
<1>4. CASE v = at[s] /\ k = Linux(code)
  <2>1. KeyOK(v, k)'
    BY <1>4 DEF KeyOK
  <2>2. code \in pressed'[v]
    BY <1>2, <1>4, StrikeDoes
  <2>3. QED
    BY <1>4, <2>1, <2>2 DEF RecordOK
<1>5. CASE v = at[s] /\ k # Linux(code) /\ k \in down'[v]
  <2>1. k \in down[v] /\ k \notin KeysOf(mods)
    BY <1>2, <1>5, StrikeDoes
  <2>2. \A c : Linux(c) = k => c \notin mods
    BY <2>1 DEF KeysOf
  <2>3. RecordOK(v, k)'
    BY <1>1, <1>2, <1>5, <2>1, <2>2, StrikeDoes DEF RecordOK
  <2>4. CASE k \in lost[v]
    BY <1>2, <1>5, <2>1, <2>3, <2>4, StrikeDoes DEF KeyOK
  <2>5. CASE \E t \in Session : at[t] = v /\ \E c \in held[t] : Linux(c) = k
    BY <1>5, <2>3, <2>5 DEF KeyOK
  <2>6. QED
    BY <1>1, <2>1, <2>4, <2>5 DEF KeyOK
<1>6. QED
  BY <1>3, <1>4, <1>5 DEF KeyOK, RecordOK

\* Who leaves a compositor leaves nothing down there.
LEMMA SwitchFrees ==
  ASSUME TypeOK, InputAssumption, KeysInv, NEW s \in Session, NEW to, Switch(s, to)
  PROVE  down'[at[s]] = {}
<1> DEFINE w == at[s]
<1>1. w \in Place
  BY AtPlace
<1>2. Lift(w, pressed[w] \cup Finger)
  BY DEF Switch, Unplug
<1>3. \A k \in down[w] : k \in KeysOf(pressed[w] \cup Finger)
  <2>1. TAKE k \in down[w]
  <2>2. CASE k \in Finger
    BY <2>2 DEF InputAssumption, KeysOf
  <2>3. CASE \E c \in pressed[w] : Linux(c) = k
    BY <2>3 DEF KeysOf
  <2>4. QED
    BY <1>1, <2>1, <2>2, <2>3 DEF KeysInv, RecordOK
<1>4. down'[w] = down[w] \ KeysOf(pressed[w] \cup Finger)
  BY <1>1, <1>2, LiftDoes
<1>5. QED
  BY <1>3, <1>4

\* Moving a session's devices leaves everything accounted for, whatever its own
\* client does with its keys at the same time.
LEMMA SwitchKeys ==
  ASSUME TypeOK, InputAssumption, KeysInv, NEW s \in Session, NEW to \in Place,
         Switch(s, to), \A t \in Session \ {s} : held'[t] = held[t]
  PROVE  KeysInv'
<1> SUFFICES ASSUME NEW v \in Place, NEW k PROVE KeyOK(v, k)' /\ RecordOK(v, k)'
  BY DEF KeysInv, Place
<1>1. KeyOK(v, k) /\ RecordOK(v, k)
  BY DEF KeysInv
<1>2. at[s] \in Place
  BY AtPlace
<1>3. CASE v = at[s]
  BY <1>3, SwitchFrees DEF KeyOK, RecordOK
<1>4. CASE v # at[s]
  <2>1. down'[v] = down[v] /\ pressed'[v] = pressed[v] /\ lost'[v] = lost[v]
    BY <1>2, <1>4, LiftDoes DEF Switch, Unplug
  <2>2. \A t \in Session : at[t] = v => t # s /\ at'[t] = v /\ held'[t] = held[t]
    BY <1>4 DEF Switch, TypeOK
  <2>3. QED
    BY <1>1, <2>1, <2>2 DEF KeyOK, RecordOK
<1>5. QED
  BY <1>3, <1>4

\* Moving keeps the types.
LEMMA SwitchTypes ==
  ASSUME TypeOK, NEW s \in Session, NEW to \in Place, Switch(s, to)
  PROVE  /\ pressed' \in [Place -> SUBSET Key]
         /\ down' \in [Place -> SUBSET KeysOf(Code)]
         /\ lost' \in [Place -> SUBSET KeysOf(Code)]
         /\ at' \in [Session -> Place]
BY AtPlace, LiftDoes DEF Switch, Unplug, TypeOK

-----------------------------------------------------------------------------
\* What the parts of an action do to keys and places, whatever else it does.
KeysTyped ==
  /\ pressed' \in [Place -> SUBSET Key]
  /\ down' \in [Place -> SUBSET KeysOf(Code)]
  /\ lost' \in [Place -> SUBSET KeysOf(Code)]
  /\ at' \in [Session -> Place]

KeysKept == KeysTyped /\ KeysInv' /\ AtHome'

\* A session moves between its own compositor and the lobby's.
LEMMA MoveKept ==
  ASSUME InputInv, InputAssumption, NEW s \in Session, NEW to \in {s, Lobby},
         Switch(s, to), \A t \in Session \ {s} : held'[t] = held[t]
  PROVE  KeysKept
<1>1. TypeOK /\ AtHome /\ KeysInv /\ to \in Place
  BY AtPlace DEF InputInv
<1>2. at' = [at EXCEPT ![s] = to]
  BY DEF Switch
<1>3. AtHome'
  BY <1>1, <1>2 DEF AtHome, TypeOK
<1>4. KeysTyped
  BY <1>1, SwitchTypes DEF KeysTyped
<1>5. KeysInv'
  BY <1>1, SwitchKeys
<1>6. QED
  BY <1>3, <1>4, <1>5 DEF KeysKept

\* Codes are released in the compositor of a session that may hold them.
LEMMA LiftKept ==
  ASSUME InputInv, NEW s \in Session, NEW codes, Lift(at[s], codes), at' = at,
         \A t \in Session : held[t] \ (IF t = s THEN codes ELSE {}) \subseteq held'[t]
  PROVE  KeysKept
<1>1. TypeOK /\ AtHome /\ KeysInv /\ at[s] \in Place
  BY AtPlace DEF InputInv
<1>2. KeysTyped /\ AtHome'
  BY <1>1, LiftDoes DEF KeysTyped, AtHome, TypeOK
<1>3. KeysInv'
  BY <1>1, LiftKeys
<1>4. QED
  BY <1>2, <1>3 DEF KeysKept

\* The combo, pressed by a client that may hold one more key than before.
LEMMA ComboKept ==
  ASSUME InputInv, InputAssumption, NEW s \in Session, NEW codes, Combo(s, codes),
         \A t \in Session \ {s} : held'[t] = held[t], held[s] \subseteq held'[s]
  PROVE  KeysKept
<1>1. CASE at[s] = Lobby /\ Switch(s, s)
  BY <1>1, MoveKept
<1>2. CASE at[s] = s /\ Lift(s, codes) /\ UNCHANGED at
  <2>1. \A t \in Session : held[t] \ (IF t = s THEN codes ELSE {}) \subseteq held'[t]
    OBVIOUS
  <2>2. Lift(at[s], codes) /\ at' = at
    BY <1>2
  <2>3. QED
    BY <2>1, <2>2, LiftKept
<1>3. QED
  BY <1>1, <1>2 DEF Combo

\* Keys that nothing touches stay accounted for.
LEMMA SameKeys ==
  ASSUME InputInv, UNCHANGED <<at, keys, held>>
  PROVE  KeysKept
BY DEF InputInv, KeysKept, KeysTyped, KeysInv, KeyOK, RecordOK, AtHome, TypeOK, keys

\* What a client holds more or less keeps its type.
LEMMA HeldTypes ==
  ASSUME TypeOK, NEW s \in Session, NEW code \in Code, NEW codes
  PROVE  /\ Holds(s, code) => held' \in [Session -> SUBSET Code]
         /\ Drops(s, codes) => held' \in [Session -> SUBSET Code]
BY DEF TypeOK, Holds, Drops

\* An action that leaves connections and joypads alone.
LEMMA KeyAction ==
  ASSUME InputInv, KeysKept, UNCHANGED <<linked, joypads>>,
         held' \in [Session -> SUBSET Code]
  PROVE  InputInv'
BY DEF InputInv, KeysKept, KeysTyped, TypeOK, PadsAreActive, joypads

\* An action that leaves keys alone.
LEMMA PadAction ==
  ASSUME InputInv, UNCHANGED <<at, keys, held, linked>>,
         pads' \in [Session -> SUBSET Pads], active' \in [Session -> SUBSET Pads],
         zombie' \in [Session -> SUBSET Pads], PadsAreActive'
  PROVE  InputInv'
<1>1. KeysKept
  BY SameKeys
<1>2. QED
  BY <1>1 DEF InputInv, KeysKept, KeysTyped, TypeOK

-----------------------------------------------------------------------------
\* Every packet keeps the invariant.
LEMMA PacketStep ==
  ASSUME InputInv, InputAssumption, NEW s \in Session, Packet(s)
  PROVE  InputInv'
<1>0. TypeOK /\ PadsAreActive /\ at[s] \in Place
  BY AtPlace DEF InputInv
<1>1. ASSUME NEW code \in Key, NEW mods \in SUBSET Modifier, KeyPress(s, code, mods)
      PROVE  InputInv'
  <2>1. held' = [held EXCEPT ![s] = @ \cup {code}] /\ UNCHANGED <<linked, joypads>>
    BY <1>1 DEF KeyPress, Holds
  <2>2. held' \in [Session -> SUBSET Code]
    BY <1>0, <2>1 DEF TypeOK, Code
  <2>3. /\ \A t \in Session \ {s} : held'[t] = held[t]
        /\ \A t \in Session : held[t] \subseteq held'[t]
        /\ code \in held'[s]
    BY <1>0, <2>1 DEF TypeOK
  <2>4. CASE Combo(s, ComboModifier)
    BY <2>1, <2>2, <2>3, <2>4, ComboKept, KeyAction
  <2>5. CASE Strike(at[s], code, mods \ {code}) /\ UNCHANGED at
    <3>1. KeysInv'
      BY <1>0, <2>3, <2>5, StrikeKeys DEF InputInv
    <3>2. KeysTyped /\ AtHome'
      BY <1>0, <2>5, StrikeDoes DEF InputInv, KeysTyped, AtHome, TypeOK
    <3>3. QED
      BY <2>1, <2>2, <3>1, <3>2, KeyAction DEF KeysKept
  <2>6. QED
    BY <1>1, <2>4, <2>5 DEF KeyPress
<1>2. ASSUME NEW codes \in SUBSET Code, Drops(s, codes), Lift(at[s], codes), UNCHANGED at
      PROVE  InputInv'
  <2>1. held' \in [Session -> SUBSET Code] /\ UNCHANGED <<linked, joypads>>
    BY <1>0, <1>2 DEF Drops, TypeOK
  <2>2. \A t \in Session : held[t] \ (IF t = s THEN codes ELSE {}) \subseteq held'[t]
    BY <1>0, <1>2 DEF Drops, TypeOK
  <2>3. QED
    BY <1>2, <2>1, <2>2, LiftKept, KeyAction
<1>3. ASSUME NEW code \in Key, KeyRelease(s, code) PROVE InputInv'
  BY <1>2, <1>3 DEF KeyRelease, Code
<1>4. CASE Utf8Text(s)
  <2>1. Lift(at[s], Paste) /\ UNCHANGED <<linked, at, held, joypads>>
    BY <1>4 DEF Utf8Text
  <2>2. held' \in [Session -> SUBSET Code]
    BY <1>0, <2>1 DEF TypeOK
  <2>3. KeysKept
    BY <2>1, LiftKept
  <2>4. QED
    BY <2>1, <2>2, <2>3, KeyAction
<1>5. ASSUME NEW f \in Finger, TouchDown(s, f) PROVE InputInv'
  <2>1. /\ down' = [down EXCEPT ![at[s]] = @ \cup {f}]
        /\ held' = [held EXCEPT ![s] = @ \cup {f}]
        /\ UNCHANGED <<at, pressed, lost, linked, joypads>>
    BY <1>5 DEF TouchDown, Holds
  <2>2. f \in Code /\ Linux(f) = f /\ f \in KeysOf(Code)
    BY DEF InputAssumption, Code, KeysOf
  <2>3. held' \in [Session -> SUBSET Code] /\ KeysTyped /\ AtHome'
    BY <1>0, <2>1, <2>2 DEF TypeOK, KeysTyped, InputInv, AtHome
  <2>4. ASSUME NEW v \in Place, NEW k PROVE KeyOK(v, k)' /\ RecordOK(v, k)'
    <3>1. KeyOK(v, k) /\ RecordOK(v, k)
      BY DEF InputInv, KeysInv
    <3>2. k \in down'[v] => k \in down[v] \/ (v = at[s] /\ k = f)
      BY <1>0, <2>1 DEF TypeOK
    <3>3. \A t \in Session : held[t] \subseteq held'[t] /\ f \in held'[s]
      BY <1>0, <2>1 DEF TypeOK
    <3>4. QED
      BY <2>1, <2>2, <3>1, <3>2, <3>3 DEF KeyOK, RecordOK
  <2>5. KeysKept
    BY <2>3, <2>4 DEF KeysKept, KeysInv, Place
  <2>6. QED
    BY <2>1, <2>3, <2>5, KeyAction
<1>6. ASSUME NEW f \in Finger, TouchUp(s, f) PROVE InputInv'
  BY <1>2, <1>6 DEF TouchUp, Code
<1>7. CASE TouchCancel(s)
  BY <1>2, <1>7 DEF TouchCancel, Code
<1>8. ASSUME NEW p \in Pad(s), NEW ok \in BOOLEAN,
             PlugSilently(s, p) \/ ControllerArrival(s, p, ok)
      PROVE  InputInv'
  <2>1. p \in Pads
    BY DEF Pads
  <2>2. /\ active' = [active EXCEPT ![s] = @ \cup {p}]
        /\ zombie' = [zombie EXCEPT ![s] = @ \ {p}]
        /\ pads' = pads \/ pads' = [pads EXCEPT ![s] = IF ok THEN @ \cup {p} ELSE @]
        /\ UNCHANGED <<linked, at, keys, held>>
    BY <1>8 DEF PlugSilently, ControllerArrival, Plug, Create
  <2>3. pads' \in [Session -> SUBSET Pads] /\ active' \in [Session -> SUBSET Pads]
        /\ zombie' \in [Session -> SUBSET Pads]
    BY <1>0, <2>1, <2>2 DEF TypeOK
  <2>4. PadsAreActive'
    BY <1>0, <2>2 DEF TypeOK, PadsAreActive
  <2>5. QED
    BY <2>2, <2>3, <2>4, PadAction
<1>9. ASSUME NEW p \in Pad(s), NEW ok \in BOOLEAN, ControllerGone(s, p, ok)
      PROVE  InputInv'
  <2>1. p \in Pads
    BY DEF Pads
  <2>2. active' = [active EXCEPT ![s] = @ \ {p}] /\ UNCHANGED <<linked, at, keys, held>>
    BY <1>9 DEF ControllerGone
  <2>3. \/ /\ pads' = [pads EXCEPT ![s] = @ \ {p}]
           /\ zombie' = [zombie EXCEPT ![s] = @ \ {p}]
        \/ /\ pads' = [pads EXCEPT ![s] = IF ok THEN @ \cup {p} ELSE @]
           /\ zombie' = [zombie EXCEPT ![s] = IF ok THEN @ \cup {p} ELSE @]
           /\ p \notin pads[s]
    BY <1>9 DEF ControllerGone, Gone, Create
  <2>4. pads' \in [Session -> SUBSET Pads] /\ active' \in [Session -> SUBSET Pads]
        /\ zombie' \in [Session -> SUBSET Pads]
    BY <1>0, <2>1, <2>2, <2>3 DEF TypeOK
  <2>5. PadsAreActive'
    BY <1>0, <2>2, <2>3 DEF TypeOK, PadsAreActive
  <2>6. QED
    BY <2>2, <2>4, <2>5, PadAction
<1>10. ASSUME NEW p \in Pad(s), NEW ok \in BOOLEAN, NEW combo \in BOOLEAN,
              ControllerMulti(s, p, ok, combo)
       PROVE  InputInv'
  <2>1. p \in Pads /\ p \in active[s] /\ UNCHANGED <<linked, held, active, zombie>>
    BY <1>10 DEF ControllerMulti, Pads
  <2>2. pads' = pads \/ pads' = [pads EXCEPT ![s] = IF ok THEN @ \cup {p} ELSE @]
    BY <1>10 DEF ControllerMulti, Create
  <2>3. pads' \in [Session -> SUBSET Pads] /\ PadsAreActive'
    BY <1>0, <2>1, <2>2 DEF TypeOK, PadsAreActive
  <2>4. Combo(s, {}) \/ UNCHANGED <<at, keys>>
    BY <1>10 DEF ControllerMulti
  <2>5. KeysKept
    BY <2>1, <2>4, ComboKept, SameKeys
  <2>6. QED
    BY <1>0, <2>1, <2>3, <2>5 DEF InputInv, KeysKept, KeysTyped, TypeOK
<1>11. QED
  BY <1>1, <1>3, <1>4, <1>5, <1>6, <1>7, <1>8, <1>9, <1>10 DEF Packet

\* Connections that come and go, and moves between compositors, keep it too.
LEMMA SessionStep ==
  ASSUME InputInv, InputAssumption, NEW s \in Session,
         Connect(s) \/ Disconnect(s) \/ JoinLobby(s) \/ LeaveLobby(s)
  PROVE  InputInv'
<1>0. TypeOK /\ PadsAreActive /\ at[s] \in Place
  BY AtPlace DEF InputInv
<1>1. CASE Connect(s)
  <2>1. KeysKept
    BY <1>1, SameKeys DEF Connect
  <2>2. QED
    BY <1>0, <1>1, <2>1
       DEF Connect, InputInv, KeysKept, KeysTyped, TypeOK, PadsAreActive, joypads
<1>2. CASE Disconnect(s)
  <2>1. /\ linked' \in SUBSET Session /\ held' \in [Session -> SUBSET Code]
        /\ pads' \in [Session -> SUBSET Pads] /\ active' \in [Session -> SUBSET Pads]
        /\ zombie' \in [Session -> SUBSET Pads]
    BY <1>0, <1>2 DEF Disconnect, TypeOK
  <2>2. PadsAreActive'
    BY <1>0, <1>2 DEF Disconnect, TypeOK, PadsAreActive
  <2>3. \A t \in Session \ {s} : held'[t] = held[t]
    BY <1>0, <1>2 DEF Disconnect, TypeOK
  <2>4. CASE at[s] = Lobby /\ Switch(s, s)
    <3>1. KeysKept
      BY <2>3, <2>4, MoveKept
    <3>2. QED
      BY <2>1, <2>2, <3>1 DEF InputInv, KeysKept, KeysTyped, TypeOK
  <2>5. CASE /\ at[s] = s
             /\ lost' = [lost EXCEPT ![s] = @ \cup (down[s] \cap KeysOf(held[s]))]
             /\ UNCHANGED <<at, pressed, down>>
    <3>1. KeysTyped /\ AtHome'
      BY <1>0, <2>5 DEF KeysTyped, TypeOK, InputInv, AtHome
    <3>2. ASSUME NEW v \in Place, NEW k PROVE KeyOK(v, k)' /\ RecordOK(v, k)'
      <4>1. KeyOK(v, k) /\ RecordOK(v, k)
        BY DEF InputInv, KeysInv
      <4>2. lost[v] \subseteq lost'[v]
            /\ (v = s => down[s] \cap KeysOf(held[s]) \subseteq lost'[v])
        BY <1>0, <2>5 DEF TypeOK
      <4>3. \A c \in held[s] : Linux(c) \in KeysOf(held[s])
        BY DEF KeysOf
      <4>4. QED
        BY <2>3, <2>5, <4>1, <4>2, <4>3 DEF KeyOK, RecordOK
    <3>3. KeysInv'
      BY <3>2 DEF KeysInv, Place
    <3>4. QED
      BY <2>1, <2>2, <3>1, <3>3 DEF InputInv, KeysTyped, TypeOK
  <2>6. QED
    BY <1>2, <2>4, <2>5 DEF Disconnect
<1>3. CASE JoinLobby(s) \/ LeaveLobby(s)
  <2>1. UNCHANGED <<linked, held, joypads>> /\ \E to \in {s, Lobby} : Switch(s, to)
    BY <1>3 DEF JoinLobby, LeaveLobby
  <2>2. KeysKept
    BY <2>1, MoveKept
  <2>3. held' \in [Session -> SUBSET Code]
    BY <1>0, <2>1 DEF TypeOK
  <2>4. QED
    BY <2>1, <2>2, <2>3, KeyAction
<1>4. QED
  BY <1>1, <1>2, <1>3

\* Only leaving and joining move a session's devices, and only its own: what it
\* leaves behind has nothing down.
LEMMA MoveFrees ==
  ASSUME InputInv, InputAssumption, [Next]_vars, NEW s \in Session, at'[s] # at[s]
  PROVE  down'[at[s]] = {}
<1>1. ASSUME NEW t \in Session, NEW to, Switch(t, to)
      PROVE  down'[at[s]] = {}
  <2>1. t = s
    BY <1>1 DEF Switch, InputInv, TypeOK
  <2>2. QED
    BY <1>1, <2>1, SwitchFrees DEF InputInv
<1>2. ASSUME NEW t \in Session,
             Connect(t) \/ Disconnect(t) \/ JoinLobby(t) \/ LeaveLobby(t)
      PROVE  \E to : Switch(t, to)
  BY <1>2 DEF Connect, Disconnect, JoinLobby, LeaveLobby
<1>3. ASSUME NEW t \in Session, NEW codes, Combo(t, codes)
      PROVE  \E to : Switch(t, to)
  BY <1>3 DEF Combo
<1>4. ASSUME NEW t \in Session, Packet(t)
      PROVE  \E to : Switch(t, to)
  <2>1. CASE \E code \in Key, mods \in SUBSET Modifier : KeyPress(t, code, mods)
    BY <1>3, <2>1 DEF KeyPress
  <2>2. CASE \E p \in Pad(t), ok \in BOOLEAN, combo \in BOOLEAN :
               ControllerMulti(t, p, ok, combo)
    BY <1>3, <2>2 DEF ControllerMulti
  <2>3. CASE UNCHANGED at
    BY <2>3
  <2>4. QED
    BY <1>4, <2>1, <2>2, <2>3
       DEF Packet, KeyRelease, Utf8Text, TouchDown, TouchUp, TouchCancel, PlugSilently,
           ControllerArrival, ControllerGone
<1>5. at' # at
  OBVIOUS
<1>6. QED
  BY <1>1, <1>2, <1>4, <1>5 DEF Next, vars

-----------------------------------------------------------------------------
\* The invariant is inductive.
THEOREM Invariant == Spec => []InputInv
<1>1. InputInv /\ [Next]_vars => InputInv'
  <2>1. InputInv /\ UNCHANGED vars => InputInv'
    <3> SUFFICES ASSUME InputInv, UNCHANGED vars PROVE InputInv'
      OBVIOUS
    <3>1. UNCHANGED <<at, keys, held, linked, joypads>>
      BY DEF vars
    <3>2. KeysKept
      BY <3>1, SameKeys
    <3>3. QED
      BY <3>1, <3>2 DEF InputInv, KeysKept, TypeOK, PadsAreActive, joypads, keys
  <2>2. InputInv /\ Next => InputInv'
    BY PacketStep, SessionStep, InputAssumption DEF Next
  <2>3. QED
    BY <2>1, <2>2
<1>2. QED
  BY InitInv, <1>1, PTL DEF Spec

\* Every variable stays in its type.
THEOREM TypeCorrect == Spec => []TypeOK
<1>1. InputInv => TypeOK
  BY DEF InputInv
<1>2. QED
  BY Invariant, <1>1, PTL

\* No key stays down in a compositor that nobody in it holds or has lost.
THEOREM KeysCorrect == Spec => []KeysDownAreHeld
<1>1. InputInv => KeysDownAreHeld
  <2> SUFFICES ASSUME InputInv, NEW w \in Place, NEW k \in down[w]
               PROVE  k \in KeysOf(Held(w)) \cup lost[w]
    BY DEF KeysDownAreHeld
  <2>1. KeyOK(w, k)
    BY DEF InputInv, KeysInv
  <2>2. CASE \E s \in Session : at[s] = w /\ \E c \in held[s] : Linux(c) = k
    <3>1. PICK s \in Session : at[s] = w /\ \E c \in held[s] : Linux(c) = k
      BY <2>2
    <3>2. held[s] \subseteq Held(w)
      BY <3>1 DEF Held
    <3>3. QED
      BY <3>1, <3>2 DEF KeysOf
  <2>3. QED
    BY <2>1, <2>2 DEF KeyOK
<1>2. QED
  BY Invariant, <1>1, PTL

\* The destructors know of everything that is down.
THEOREM RecordCorrect == Spec => []DownIsRecorded
<1>1. InputInv => DownIsRecorded
  BY DEF InputInv, KeysInv, RecordOK, DownIsRecorded, KeysOf
<1>2. QED
  BY Invariant, <1>1, PTL

\* Joypads belong to controllers, but for those that were left behind.
THEOREM PadsCorrect == Spec => []PadsAreActive
<1>1. InputInv => PadsAreActive
  BY DEF InputInv
<1>2. QED
  BY Invariant, <1>1, PTL

\* Nothing stays down in a compositor for a session that has left it.
THEOREM LeaversFree == Spec => LeavesNothingDown
<1>1. InputInv /\ [Next]_vars => [\A s \in Session : at'[s] # at[s] => down'[at[s]] = {}]_vars
  BY MoveFrees, InputAssumption
<1>2. QED
  BY Invariant, <1>1, PTL DEF Spec, LeavesNothingDown

\* A finger's angle is in the range that the touch screen takes, for every angle
\* of a client that knows it.
THEOREM AngleInRange ==
  ASSUME NEW r \in 0..360
  PROVE  TouchAngle(r) \in -90..90
BY DEF TouchAngle

\* A game's override wins; without overrides, a controller that has motion
\* sensors and no type becomes one that reports motion.
THEOREM OverridesCorrect ==
  ASSUME NEW game, NEW slot, NEW setting, NEW requested, NEW motion \in BOOLEAN
  PROVE  /\ game # "AUTO" => ControllerType(game, slot, setting, requested, motion) = game
         /\ ControllerType("AUTO", "AUTO", "AUTO", "UNKNOWN", TRUE) = "PS"
         /\ ControllerType(game, slot, setting, requested, motion) = "AUTO" =>
              (~motion /\ requested \in {"UNKNOWN", "AUTO"}) \/ requested = "AUTO"
BY DEF ControllerType
=============================================================================
