-------------------------- MODULE LobbyMembership --------------------------
(***************************************************************************)
(* What the lobbies promise, seen from outside: sessions join and leave    *)
(* open lobbies one at a time, each plays what it sees in the lobby it is  *)
(* in, a lobby that is not for many users takes one, and a lobby closes    *)
(* only after everybody has left it. A lobby never opens twice.            *)
(***************************************************************************)
EXTENDS Naturals, FiniteSets

CONSTANTS Session,   \* Moonlight sessions
          Lobby,     \* lobby ids
          Own        \* no lobby: a session plays its own app

VARIABLES
  open,      \* lobbies on the list
  closed,    \* lobbies that have been on it
  shared,    \* lobbies created for many users
  where      \* the lobby each session is in, or Own

vars == <<open, closed, shared, where>>

Members(l) == {s \in Session : where[s] = l}

MembershipTypeOK ==
  /\ open \in SUBSET Lobby
  /\ closed \in SUBSET Lobby
  /\ shared \in SUBSET Lobby
  /\ where \in [Session -> Lobby \cup {Own}]

Init ==
  /\ open = {}
  /\ closed = {}
  /\ shared = {}
  /\ where = [s \in Session |-> Own]

Open(l) ==
  /\ l \notin open \cup closed
  /\ open' = open \cup {l}
  /\ shared' \in {shared, shared \cup {l}}
  /\ UNCHANGED <<closed, where>>

Join(s, l) ==
  /\ l \in open
  /\ where[s] = Own
  /\ l \in shared \/ Members(l) = {}
  /\ where' = [where EXCEPT ![s] = l]
  /\ UNCHANGED <<open, closed, shared>>

Leave(s) ==
  /\ where[s] # Own
  /\ where' = [where EXCEPT ![s] = Own]
  /\ UNCHANGED <<open, closed, shared>>

Close(l) ==
  /\ l \in open
  /\ Members(l) = {}
  /\ open' = open \ {l}
  /\ closed' = closed \cup {l}
  /\ UNCHANGED <<shared, where>>

Next ==
  \/ \E l \in Lobby : Open(l) \/ Close(l)
  \/ \E s \in Session, l \in Lobby : Join(s, l)
  \/ \E s \in Session : Leave(s)

Spec == Init /\ [][Next]_vars

-----------------------------------------------------------------------------
\* Nobody is in a lobby that is not open: a stop has moved everyone back.
MembersOfOpenLobbies == \A s \in Session : where[s] \in open \cup {Own}

\* A lobby that is not for many users has at most one member.
OneUserUnlessShared ==
  \A l \in Lobby \ shared :
    \A s1, s2 \in Members(l) : s1 = s2
=============================================================================
