------------------------------ MODULE Pairing ------------------------------
(***************************************************************************)
(* Pairing a Moonlight client: four HTTP requests handled by the one       *)
(* thread of the HTTP server, with the results of each phase kept in       *)
(* pairing_cache under a key per client. The first is answered by a        *)
(* continuation, on a thread of its own, once a user has typed the PIN the *)
(* client shows, in the HTTP page or through the API. A client may give up *)
(* and start over at any time: each start is an attempt.                   *)
(***************************************************************************)
EXTENDS Integers, Sequences, SequencesExt

CONSTANTS Client,        \* clients: a unique id and an address of its own each
          ApiThread,     \* API pool threads that post PINs
          MaxAttempts,   \* bound: first phases begun in a behaviour
          None           \* no client

Attempt == 1..MaxAttempts

ASSUME PairingAssumption == MaxAttempts \in Nat /\ None \notin Client

VARIABLES
  begun,     \* attempts begun so far
  owner,     \* the client of each attempt
  pending,   \* pairing_atom: attempts that wait for a PIN
  pin,       \* the promise of each attempt: what it was fulfilled with
  cache,     \* pairing_cache: phase and attempt by client
  http,      \* the request the HTTP thread is handling, and its cache copy
  api,       \* the attempt each API thread has found and posts a PIN for
  paired,    \* paired clients
  phases,    \* the phases each attempt has been through (history)
  up         \* the server is running

vars == <<begun, owner, pending, pin, cache, http, api, paired, phases, up>>

\* last_phase, whose results they are, and whose answer client_hash holds.
Entry == [phase : 0..3, attempt : 0..MaxAttempts, hash : 0..MaxAttempts]
NoEntry == [phase |-> 0, attempt |-> 0, hash |-> 0]
NoRequest == [at |-> "idle", from |-> 0, client |-> None, copy |-> NoEntry]
NoPost == [at |-> "idle", attempt |-> 0]

TypeOK ==
  /\ begun \in 0..MaxAttempts
  /\ owner \in [Attempt -> Client \cup {None}]
  /\ pending \in SUBSET (1..begun)
  /\ pin \in [Attempt -> {"none", "right", "wrong", "broken"}]
  /\ cache \in [Client -> Entry]
  /\ http \in [at : {"idle", "phase2", "phase3", "phase4", "finish"},
               from : 0..MaxAttempts, client : Client \cup {None}, copy : Entry]
  /\ api \in [ApiThread -> [at : {"idle", "set", "erase"}, attempt : 0..MaxAttempts]]
  /\ paired \in SUBSET Client
  /\ phases \in [Attempt -> Seq(1..4)]
  /\ up \in BOOLEAN

Init ==
  /\ begun = 0
  /\ owner = [a \in Attempt |-> None]
  /\ pending = {}
  /\ pin = [a \in Attempt |-> "none"]
  /\ cache = [c \in Client |-> NoEntry]
  /\ http = NoRequest
  /\ api = [t \in ApiThread |-> NoPost]
  /\ paired = {}
  /\ phases = [a \in Attempt |-> <<>>]
  /\ up = TRUE

Erase(c) == cache' = [cache EXCEPT ![c] = NoEntry]
Store(c, entry) == cache' = [cache EXCEPT ![c] = entry]
Through(a, n) == phases' = [phases EXCEPT ![a] = Append(@, n)]

-----------------------------------------------------------------------------
(* Phase 1, the PIN and the continuation. *)

\* Variant of Dangling for mutation: every attempt has a key of its own.
DanglingNone(c) == {}

\* The attempts of c that are dropped when it starts over: their promises are
\* destroyed, unless an API thread still holds them.
Dangling(c) == {a \in pending : owner[a] = c}

\* Variant of BeginPairing for mutation: attempts share a number.
BeginPairingUncounted(c) ==
  /\ up /\ http = NoRequest
  /\ cache[c] = NoEntry /\ begun < MaxAttempts
  /\ owner' = [owner EXCEPT ![begun + 1] = c]
  /\ pending' = (pending \ Dangling(c)) \cup {begun + 1}
  /\ UNCHANGED <<begun, pin, cache, http, api, paired, phases, up>>

\* pair_phase1() and the handler of PairSignal. A request that finds an entry
\* of the client fails and removes it.
BeginPairing(c) ==
  /\ up /\ http = NoRequest
  /\ IF cache[c] # NoEntry
       THEN /\ Erase(c)
            /\ UNCHANGED <<begun, owner, pending, pin>>
       ELSE /\ begun < MaxAttempts
            /\ begun' = begun + 1
            /\ owner' = [owner EXCEPT ![begun + 1] = c]
            /\ pending' = (pending \ Dangling(c)) \cup {begun + 1}
            /\ pin' = [a \in Attempt |->
                         IF a \in Dangling(c) /\ pin[a] = "none"
                            /\ \A t \in ApiThread : api[t].attempt # a
                         THEN "broken" ELSE pin[a]]
            /\ UNCHANGED cache
  /\ UNCHANGED <<http, api, paired, phases, up>>

\* POST /pin/ on the HTTP thread: find, fulfil, erase. An exception of the
\* second PIN of an attempt is caught there.
HttpPin(a, typed) ==
  /\ up /\ http = NoRequest
  /\ a \in pending /\ pin[a] = "none"
  /\ pin' = [pin EXCEPT ![a] = typed]
  /\ pending' = pending \ {a}
  /\ UNCHANGED <<begun, owner, cache, http, api, paired, phases, up>>

\* The API handler does the same three steps on a pool thread.
ApiFind(t, a) ==
  /\ up /\ api[t] = NoPost
  /\ a \in pending
  /\ api' = [api EXCEPT ![t] = [at |-> "set", attempt |-> a]]
  /\ UNCHANGED <<begun, owner, pending, pin, cache, http, paired, phases, up>>

\* Variant of ApiSet for mutation: the promise takes a second PIN.
ApiSetAgain(t, typed) ==
  /\ up /\ api[t].at = "set"
  /\ pin' = [pin EXCEPT ![api[t].attempt] = typed]
  /\ api' = [api EXCEPT ![t].at = "erase"]
  /\ UNCHANGED <<begun, owner, pending, cache, http, paired, phases, up>>

\* Nobody catches the exception of a promise that already has a value.
ApiSet(t, typed) ==
  /\ up /\ api[t].at = "set"
  /\ IF pin[api[t].attempt] = "none"
       THEN /\ pin' = [pin EXCEPT ![api[t].attempt] = typed]
            /\ api' = [api EXCEPT ![t].at = "erase"]
            /\ UNCHANGED up
       ELSE /\ up' = FALSE
            /\ UNCHANGED <<pin, api>>
  /\ UNCHANGED <<begun, owner, pending, cache, http, paired, phases>>

ApiErase(t) ==
  /\ up /\ api[t].at = "erase"
  /\ pending' = pending \ {api[t].attempt}
  /\ api' = [api EXCEPT ![t] = NoPost]
  /\ UNCHANGED <<begun, owner, pin, cache, http, paired, phases, up>>

\* Variant of Continue for mutation: it also runs for a broken promise.
ContinueAlways(a) ==
  /\ up /\ pin[a] # "none" /\ phases[a] = <<>>
  /\ Store(owner[a], [phase |-> 1, attempt |-> a, hash |-> 0])
  /\ Through(a, 1)
  /\ UNCHANGED <<begun, owner, pending, pin, http, api, paired, up>>

\* The continuation of phase 1 derives the key and stores a fresh entry,
\* whatever is there by now. It answers the client.
Continue(a) ==
  /\ up /\ pin[a] \in {"right", "wrong"} /\ phases[a] = <<>>
  /\ Store(owner[a], [phase |-> 1, attempt |-> a, hash |-> 0])
  /\ Through(a, 1)
  /\ UNCHANGED <<begun, owner, pending, pin, http, api, paired, up>>

-----------------------------------------------------------------------------
(* Phases 2 to 4: the handler copies the entry, works on the copy, and       *)
(* stores it back or removes the entry of that key.                          *)

\* The client of attempt a sends the request of a phase.
Load(at, a) ==
  /\ up /\ http = NoRequest
  /\ a <= begun /\ cache[owner[a]] # NoEntry
  /\ http' = [at |-> at, from |-> a, client |-> owner[a], copy |-> cache[owner[a]]]
  /\ UNCHANGED <<begun, owner, pending, pin, cache, api, paired, phases, up>>

Advance(n, entry) ==
  /\ Store(http.client, entry)
  /\ Through(entry.attempt, n)

Phase2 ==
  /\ up /\ http.at = "phase2"
  /\ IF http.copy.phase = 1
       THEN Advance(2, [http.copy EXCEPT !.phase = 2])
       ELSE Erase(http.client) /\ UNCHANGED phases
  /\ http' = NoRequest
  /\ UNCHANGED <<begun, owner, pending, pin, api, paired, up>>

\* Without a server_secret the request matches no phase and nothing happens.
Phase3 ==
  /\ up /\ http.at = "phase3"
  /\ \/ http.copy.phase = 1 /\ UNCHANGED <<cache, phases>>
     \/ /\ http.copy.phase = 2
        /\ Advance(3, [phase |-> 3, attempt |-> http.copy.attempt, hash |-> http.from])
     \/ http.copy.phase = 3 /\ Erase(http.client) /\ UNCHANGED phases
  /\ http' = NoRequest
  /\ UNCHANGED <<begun, owner, pending, pin, api, paired, up>>

\* Variant of Verified for mutation: the hash is not compared.
VerifiedAnyHash(r) == r.from = r.copy.attempt

\* client_pair(): the hash decrypts to what this attempt's secret gives only
\* if the client used the key of the entry, which takes the right PIN.
Verified(r) == r.copy.hash = r.copy.attempt /\ r.from = r.copy.attempt /\ pin[r.from] = "right"

Phase4 ==
  /\ up /\ http.at = "phase4"
  /\ IF http.copy.phase < 3
       THEN /\ http' = NoRequest
            /\ UNCHANGED <<paired, phases>>
       ELSE /\ http' = [http EXCEPT !.at = "finish"]
            /\ IF Verified(http)
                 THEN /\ paired' = paired \cup {http.client}
                      /\ Through(http.from, 4)
                 ELSE UNCHANGED <<paired, phases>>
  /\ UNCHANGED <<begun, owner, pending, pin, cache, api, up>>

\* "Either case, this session is done".
Finish ==
  /\ up /\ http.at = "finish"
  /\ Erase(http.client)
  /\ http' = NoRequest
  /\ UNCHANGED <<begun, owner, pending, pin, api, paired, phases, up>>

\* /unpair finds the certificate of the client in the pairing cache.
Unpair(c) ==
  /\ up /\ http = NoRequest
  /\ cache[c] # NoEntry
  /\ paired' = paired \ {c}
  /\ UNCHANGED <<begun, owner, pending, pin, cache, http, api, phases, up>>

-----------------------------------------------------------------------------
Next ==
  \/ \E c \in Client : BeginPairing(c) \/ Unpair(c)
  \/ \E a \in Attempt, typed \in {"right", "wrong"} : HttpPin(a, typed)
  \/ \E t \in ApiThread :
       \/ \E a \in Attempt : ApiFind(t, a)
       \/ \E typed \in {"right", "wrong"} : ApiSet(t, typed)
       \/ ApiErase(t)
  \/ \E a \in Attempt : Continue(a)
  \/ \E at \in {"phase2", "phase3", "phase4"}, a \in Attempt : Load(at, a)
  \/ Phase2 \/ Phase3 \/ Phase4 \/ Finish

Spec == Init /\ [][Next]_vars

-----------------------------------------------------------------------------
\* A client gets paired only by an attempt of its own whose PIN was right and
\* which has been through the four phases in order, once each, although
\* attempts overwrite and remove each other's entry of the cache.
PairedInOrder ==
  /\ \A a \in Attempt : IsPrefix(phases[a], <<1, 2, 3, 4>>)
  /\ \A c \in paired : \E a \in Attempt :
       owner[a] = c /\ pin[a] = "right" /\ phases[a] = <<1, 2, 3, 4>>

\* An entry of the cache belongs to an attempt of that client and is never
\* ahead of what the attempt has been through.
EntryMatchesAttempt ==
  \A c \in Client : cache[c] # NoEntry =>
    LET a == cache[c].attempt
    IN  /\ a \in 1..begun /\ owner[a] = c
        /\ cache[c].phase <= Len(phases[a])
        /\ pin[a] \in {"right", "wrong"}

\* A client that starts over leaves one PIN to type, and a PIN that was typed
\* stands, whoever types another.
OnePinPerClient ==
  \A a, b \in pending : owner[a] = owner[b] => a = b

PinStands ==
  [][\A a \in Attempt : pin[a] \in {"right", "wrong"} => pin'[a] = pin[a]]_vars
=============================================================================
