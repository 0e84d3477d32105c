---------------------------- MODULE ClientStore ----------------------------
(***************************************************************************)
(* The paired clients: a list in memory and the list in config.toml.       *)
(* pair(), unpair() and update_client_settings() change the list in memory *)
(* at once, then read the file, change what they read and save it: write   *)
(* config.toml.tmp, rename it over config.toml. update_profiles() rewrites *)
(* the same file. The process may stop between any two of these steps and  *)
(* starts from the file.                                                   *)
(***************************************************************************)
EXTENDS Naturals, Sequences, FiniteSetsExt

CONSTANTS Cert,      \* client certificates
          Setting,   \* values of a client's settings and state folder
          Default,   \* those of a newly paired client
          Thread,    \* threads that serve pair, unpair and update requests
          MaxFile    \* bound: entries of the list in the file

ASSUME ClientStoreAssumption ==
  /\ Cert # {}
  /\ Default \in Setting
  /\ MaxFile \in Nat

VARIABLES
  memory,   \* config->paired_clients
  file,     \* config.toml: is it whole, and its paired_clients
  tmp,      \* config.toml.tmp
  op,       \* what each thread is doing, and the client it does it for
  tml,      \* the list a thread has read from the file and changed
  unsaved   \* a save has failed since the process started

vars == <<memory, file, tmp, op, tml, unsaved>>

Client == [cert : Cert, settings : Setting]
Clients == Seq(Client)
File == [state : {"none", "torn", "whole"}, clients : Clients]
NoFile == [state |-> "none", clients |-> <<>>]
Torn == [state |-> "torn", clients |-> <<>>]
Whole(clients) == [state |-> "whole", clients |-> clients]
NoClient == [cert |-> CHOOSE c \in Cert : TRUE, settings |-> Default]
Step == {"done", "memory", "load", "write", "flush", "flush_moved", "flush_lost", "rename"}
Idle == [kind |-> "idle", at |-> "done", client |-> NoClient]

TypeOK ==
  /\ memory \in Clients
  /\ file \in File
  /\ tmp \in File
  /\ op \in [Thread -> [kind : {"idle", "pair", "unpair", "settings", "profiles"},
                        at : Step,
                        client : Client]]
  /\ \A t \in Thread : op[t].kind = "profiles" => op[t].at # "memory"
  /\ tml \in [Thread -> Clients]
  /\ unsaved \in BOOLEAN

Init ==
  /\ memory = <<>>
  /\ file = Whole(<<>>)
  /\ tmp = NoFile
  /\ op = [t \in Thread |-> Idle]
  /\ tml = [t \in Thread |-> <<>>]
  /\ unsaved = FALSE

Certs(clients) == {clients[i].cert : i \in DOMAIN clients}

Matching(clients, c) == {i \in DOMAIN clients : clients[i].cert = c}

\* get_client_via_ssl, get_client_by_id: the first entry of a certificate.
Lookup(clients, c) == clients[Min(Matching(clients, c))]

\* Every entry but those of a certificate, in the order they were in.
Without(clients, c) ==
  LET kept[n \in 0..Len(clients)] ==
        IF n = 0 THEN <<>>
        ELSE IF clients[n].cert = c THEN kept[n - 1]
        ELSE Append(kept[n - 1], clients[n])
  IN  kept[Len(clients)]

Replaced(clients, new) ==
  [i \in DOMAIN clients |-> IF clients[i].cert = new.cert THEN new ELSE clients[i]]

-----------------------------------------------------------------------------
\* What pair, unpair and update_client_settings make of the list in memory.
InMemory(kind, client) ==
  CASE kind = "pair"     -> Append(Without(memory, client.cert), client)
    [] kind = "unpair"   -> Without(memory, client.cert)
    [] kind = "settings" -> Replaced(memory, client)

\* Variant of InFile for mutation: unpair() writes back what it has read.
InFileKeeping(kind, client) ==
  CASE kind = "pair"     -> Append(file.clients, client)
    [] kind = "settings" -> Replaced(file.clients, client)
    [] OTHER             -> file.clients

\* What they make of the list in the file: pair() looks for no old entry there.
InFile(kind, client) ==
  CASE kind = "pair"     -> Append(file.clients, client)
    [] kind = "unpair"   -> Without(file.clients, client.cert)
    [] kind = "settings" -> Replaced(file.clients, client)
    [] kind = "profiles" -> file.clients

Goto(t, at) == op' = [op EXCEPT ![t].at = at]

Request(t, kind, client) ==
  /\ op[t] = Idle
  /\ op' = [op EXCEPT ![t] = [kind |-> kind, client |-> client,
                              at |-> IF kind = "profiles" THEN "load" ELSE "memory"]]
  /\ UNCHANGED <<memory, file, tmp, tml, unsaved>>

\* The last phase of pairing, for a new client or one that pairs again.
Pair(t, c) ==
  /\ Len(file.clients) < MaxFile
  /\ Request(t, "pair", [cert |-> c, settings |-> Default])

Unpair(t, c) ==
  /\ c \in Certs(memory)
  /\ Request(t, "unpair", [cert |-> c, settings |-> Default])

UpdateSettings(t, c, new) ==
  /\ c \in Certs(memory)
  /\ Request(t, "settings", [cert |-> c, settings |-> new])

UpdateProfiles(t) == Request(t, "profiles", NoClient)

\* Variant of UpdateMemory for mutation: unpair() leaves the file alone.
UpdateMemoryOnly(t) ==
  /\ op[t].at = "memory"
  /\ memory' = InMemory(op[t].kind, op[t].client)
  /\ IF op[t].kind = "unpair" THEN op' = [op EXCEPT ![t] = Idle] ELSE Goto(t, "load")
  /\ UNCHANGED <<file, tmp, tml, unsaved>>

UpdateMemory(t) ==
  /\ op[t].at = "memory"
  /\ memory' = InMemory(op[t].kind, op[t].client)
  /\ Goto(t, "load")
  /\ UNCHANGED <<file, tmp, tml, unsaved>>

\* A file that cannot be parsed makes the request end in an exception.
LoadFile(t) ==
  /\ op[t].at = "load"
  /\ IF file.state # "whole"
       THEN /\ op' = [op EXCEPT ![t] = Idle]
            /\ unsaved' = TRUE
            /\ UNCHANGED tml
       ELSE /\ tml' = [tml EXCEPT ![t] = InFile(op[t].kind, op[t].client)]
            /\ Goto(t, "write")
            /\ UNCHANGED unsaved
  /\ UNCHANGED <<memory, file, tmp>>

-----------------------------------------------------------------------------
(* save_verified() *)

\* Variant of OpenTemp for mutation: it writes config.toml itself.
OpenFile(t) ==
  /\ op[t].at = "write"
  /\ file' = Torn
  /\ tmp' = Torn
  /\ Goto(t, "flush")
  /\ UNCHANGED <<memory, tml, unsaved>>

OpenTemp(t) ==
  /\ op[t].at = "write"
  /\ tmp' = Torn
  /\ Goto(t, "flush")
  /\ UNCHANGED <<memory, file, tml, unsaved>>

\* The list is written over what the file holds: another thread's, if one has
\* written it since this thread opened it, whose end may stay.
Written(t, old) ==
  {Whole(tml[t])} \cup (IF old.state = "whole" THEN {Torn} ELSE {})

\* A thread goes on writing the file it has opened, under its new name when
\* another thread has renamed it, and to nobody's use after the next rename.
WriteTemp(t) ==
  /\ op[t].at \in {"flush", "flush_moved", "flush_lost"}
  /\ tmp' \in (IF op[t].at = "flush" THEN Written(t, tmp) ELSE {tmp})
  /\ file' \in (IF op[t].at = "flush_moved" THEN Written(t, file) ELSE {file})
  /\ Goto(t, "rename")
  /\ UNCHANGED <<memory, tml, unsaved>>

Finish(t) ==
  /\ op' = [op EXCEPT ![t] = Idle]
  /\ tml' = [tml EXCEPT ![t] = <<>>]

Moved(at) ==
  CASE at = "flush" -> "flush_moved"
    [] at = "flush_moved" -> "flush_lost"
    [] OTHER -> at

\* There is nothing to rename when another thread has done so.
RenameTemp(t) ==
  /\ op[t].at = "rename"
  /\ IF tmp.state = "none"
       THEN /\ Finish(t)
            /\ unsaved' = TRUE
            /\ UNCHANGED <<file, tmp>>
       ELSE /\ file' = tmp
            /\ tmp' = NoFile
            /\ op' = [u \in Thread |-> IF u = t THEN Idle
                                       ELSE [op[u] EXCEPT !.at = Moved(@)]]
            /\ tml' = [tml EXCEPT ![t] = <<>>]
            /\ UNCHANGED unsaved
  /\ UNCHANGED memory

\* The output does not parse back to itself, the disk is full, or the rename
\* is refused: the error is logged, and the list in memory stays changed.
SaveFails(t) ==
  /\ op[t].at \in {"write", "flush", "flush_moved", "flush_lost", "rename"}
  /\ unsaved' = TRUE
  /\ Finish(t)
  /\ UNCHANGED <<memory, file, tmp>>

SaveStep(t) == OpenTemp(t) \/ WriteTemp(t) \/ RenameTemp(t) \/ SaveFails(t)

\* The process is killed at any point, and started again: load_or_default()
\* throws when it cannot parse the file.
Restart ==
  /\ file.state = "whole"
  /\ memory' = file.clients
  /\ op' = [t \in Thread |-> Idle]
  /\ tml' = [t \in Thread |-> <<>>]
  /\ unsaved' = FALSE
  /\ UNCHANGED <<file, tmp>>

-----------------------------------------------------------------------------
Next ==
  \/ \E t \in Thread, c \in Cert :
       \/ Pair(t, c)
       \/ Unpair(t, c)
       \/ \E new \in Setting : UpdateSettings(t, c, new)
  \/ \E t \in Thread :
       \/ UpdateProfiles(t)
       \/ UpdateMemory(t) \/ LoadFile(t) \/ SaveStep(t)
  \/ Restart

Spec == Init /\ [][Next]_vars

-----------------------------------------------------------------------------
AllIdle == \A t \in Thread : op[t] = Idle

\* Whenever the process stops, config.toml is a list it can start from.
FileLoads == file.state = "whole"

\* Pairing again appends to the file and leaves the old entry in it.
PairedAgain(c) == \E i, j \in Matching(file.clients, c) : i # j

\* While nothing is being saved and no save has failed, a restart knows the
\* same clients, with the same settings unless they have paired again:
\* "persist the new state to disk" (state/config.hpp:28).
SameClientsAfterRestart ==
  AllIdle /\ ~unsaved =>
    /\ Certs(file.clients) = Certs(memory)
    /\ \A c \in Certs(memory) :
         ~PairedAgain(c) => Lookup(file.clients, c) = Lookup(memory, c)

\* With one thread the store implements ClientRegistry: a rename stores the
\* change of one request, and nothing else ever changes what is stored.
Unstored ==
  {[kind |-> op[t].kind, cert |-> op[t].client.cert] :
     t \in {t \in Thread : /\ op[t].kind \in {"pair", "unpair"}
                          /\ op[t].at \notin {"done", "memory"}}}

Registry == INSTANCE ClientRegistry WITH
  known  <- Certs(memory),
  stored <- Certs(file.clients),
  saving <- Unstored,
  failed <- unsaved

ImplementsRegistry == Registry!Spec
=============================================================================
