--------------------------- MODULE ClientRegistry ---------------------------
(***************************************************************************)
(* What the store of paired clients promises, seen from outside: clients   *)
(* are paired and unpaired one at a time, each change is either stored as  *)
(* a whole or reported as failed and not stored at all, whatever was       *)
(* stored or lost before it, and a restart knows what is stored.           *)
(***************************************************************************)
CONSTANTS Cert   \* client certificates

VARIABLES
  known,    \* the clients that Wolf lets in
  stored,   \* those it lets in after a restart
  saving,   \* the change that is known and not yet stored, at most one
  failed    \* a change since the last restart could not be stored

vars == <<known, stored, saving, failed>>

Change == [kind : {"pair", "unpair"}, cert : Cert]

Changed(certs, change) ==
  IF change.kind = "pair" THEN certs \cup {change.cert} ELSE certs \ {change.cert}

Init ==
  /\ known = {}
  /\ stored = {}
  /\ saving = {}
  /\ failed = FALSE

\* Only a client that is known is unpaired.
Begin(change) ==
  /\ saving = {}
  /\ change.kind = "unpair" => change.cert \in known
  /\ known' = Changed(known, change)
  /\ saving' = {change}
  /\ UNCHANGED <<stored, failed>>

Store(change) ==
  /\ change \in saving
  /\ stored' = Changed(stored, change)
  /\ saving' = {}
  /\ UNCHANGED <<known, failed>>

\* Saves that change no list of certificates can fail as well.
Fail ==
  /\ saving' = {}
  /\ failed' = TRUE
  /\ UNCHANGED <<known, stored>>

Restart ==
  /\ known' = stored
  /\ saving' = {}
  /\ failed' = FALSE
  /\ UNCHANGED stored

Next ==
  \/ \E change \in Change : Begin(change) \/ Store(change)
  \/ Fail
  \/ Restart

Spec == Init /\ [][Next]_vars

-----------------------------------------------------------------------------
\* A restart knows the clients that were known before it, unless a save failed.
StoredIsKnown ==
  ~failed => \/ saving = {} /\ stored = known
             \/ \E change \in Change : saving = {change} /\ known = Changed(stored, change)
=============================================================================
