--------------------------- MODULE PairingProofs ---------------------------
(***************************************************************************)
(* Who gets paired, for any clients, API threads and number of attempts.   *)
(***************************************************************************)
EXTENDS Pairing, SequenceTheorems, TLAPS

\* The first phases in order: what an attempt may have been through.
InOrder(s) == s \in Seq(1..4) /\ Len(s) <= 4 /\ \A i \in 1..Len(s) : s[i] = i

\* Attempts that have begun belong to a client; the others have no PIN; an
\* attempt goes through a phase only with a PIN typed.
AttemptsInv ==
  /\ \A a \in Attempt :
       /\ InOrder(phases[a])
       /\ a <= begun => owner[a] \in Client
       /\ a > begun => pin[a] = "none"
       /\ phases[a] # <<>> => pin[a] \in {"right", "wrong"}
  /\ \A t \in ApiThread : api[t].at # "idle" => api[t].attempt \in 1..begun

\* The entry e is that of an attempt of client c which has been through as many
\* phases as it says.
EntryOf(e, c) ==
  /\ e.attempt \in 1..begun /\ owner[e.attempt] = c
  /\ e.phase \in 1..3
  /\ Len(phases[e.attempt]) = e.phase

\* The request in the HTTP thread works on an entry that is still as far as its
\* attempt, since only this thread takes an attempt further.
HttpInv ==
  http.at # "idle" =>
    /\ http.client \in Client
    /\ http.from \in 1..begun /\ owner[http.from] = http.client
    /\ http.copy.attempt \in 1..begun /\ owner[http.copy.attempt] = http.client
    /\ http.at # "finish" => EntryOf(http.copy, http.client)

\* An entry of the cache is as far as its attempt, but for the entry of an
\* attempt that has just paired, until the thread that paired it removes it.
CacheInv ==
  \A c \in Client : cache[c] # NoEntry =>
    \/ EntryOf(cache[c], c)
    \/ /\ http.at = "finish" /\ http.client = c
       /\ cache[c].phase \in 1..3
       /\ cache[c].attempt \in 1..begun /\ owner[cache[c].attempt] = c
       /\ Len(phases[cache[c].attempt]) = 4

PairedInv ==
  \A c \in paired : \E a \in Attempt :
    a <= begun /\ owner[a] = c /\ pin[a] = "right" /\ phases[a] = <<1, 2, 3, 4>>

PairingInv ==
  TypeOK /\ AttemptsInv /\ HttpInv /\ CacheInv /\ PairedInv /\ OnePinPerClient

-----------------------------------------------------------------------------
\* The next phase keeps them in order.
LEMMA NextPhase ==
  ASSUME NEW s, InOrder(s), NEW n \in 1..4, Len(s) = n - 1
  PROVE  InOrder(Append(s, n)) /\ Len(Append(s, n)) = n
<1>1. Append(s, n) \in Seq(1..4) /\ Len(Append(s, n)) = n
  BY DEF InOrder
<1>2. \A i \in 1..n : Append(s, n)[i] = i
  BY DEF InOrder
<1>3. QED
  BY <1>1, <1>2 DEF InOrder

\* Phases in order are a prefix of the four, and all of them when they are four.
LEMMA PrefixOfFour ==
  ASSUME NEW s, InOrder(s)
  PROVE  IsPrefix(s, <<1, 2, 3, 4>>) /\ (Len(s) = 4 => s = <<1, 2, 3, 4>>)
<1> DEFINE four == <<1, 2, 3, 4>>
<1>1. four \in Seq(1..4) /\ Len(four) = 4 /\ \A i \in 1..4 : four[i] = i
  OBVIOUS
<1> HIDE DEF four
<1>2. Len(s) \in Nat /\ Len(s) <= 4
  BY LenProperties DEF InOrder
<1>3. IsPrefix(s, four)
  <2> DEFINE n == Len(s)
  <2>1. n \in Int /\ n <= 4 /\ \A i \in 1..n : s[i] = i /\ four[i] = i /\ i \in 1..4
    <3>1. n \in Int /\ n <= 4
      BY <1>2
    <3>2. \A i \in 1..n : s[i] = i
      BY DEF InOrder
    <3> HIDE DEF n
    <3>3. \A i \in 1..n : i \in 1..4
      BY <3>1
    <3>4. QED
      BY <1>1, <3>1, <3>2, <3>3
  <2> HIDE DEF n
  <2>2. /\ SubSeq(s, 1, n) \in Seq(1..4)
        /\ Len(SubSeq(s, 1, n)) = IF 1 <= n THEN n - 1 + 1 ELSE 0
        /\ \A i \in 1..(n - 1 + 1) : SubSeq(s, 1, n)[i] = s[1 + i - 1]
    BY <2>1, SubSeqProperties
  <2>3. /\ SubSeq(four, 1, n) \in Seq(1..4)
        /\ Len(SubSeq(four, 1, n)) = IF 1 <= n THEN n - 1 + 1 ELSE 0
        /\ \A i \in 1..(n - 1 + 1) : SubSeq(four, 1, n)[i] = four[1 + i - 1]
    BY <2>1, SubSeqProperties
  <2>4. SubSeq(s, 1, n) = SubSeq(four, 1, n)
    <3>1. \A i \in 1..Len(SubSeq(s, 1, n)) : SubSeq(s, 1, n)[i] = SubSeq(four, 1, n)[i]
      BY <2>1, <2>2, <2>3
    <3>2. QED
      BY <2>2, <2>3, <3>1, SeqEqual
  <2>5. QED
    BY <1>1, <1>2, <2>4 DEF IsPrefix, n
<1>4. Len(s) = 4 => s = four
  BY <1>1, SeqEqual DEF InOrder
<1>5. QED
  BY <1>3, <1>4 DEF four

-----------------------------------------------------------------------------
\* What TypeOK says of the counters, without the records.
LEMMA Shapes ==
  ASSUME TypeOK
  PROVE  /\ begun \in Nat /\ begun <= MaxAttempts /\ MaxAttempts \in Nat
         /\ \A a \in Attempt : a \in Nat /\ 1 <= a /\ a <= MaxAttempts
         /\ \A a \in Nat : 1 <= a /\ a <= MaxAttempts => a \in Attempt
         /\ \A a \in pending : a \in Attempt /\ a <= begun
<1>1. begun \in 0..MaxAttempts /\ pending \in SUBSET (1..begun) /\ MaxAttempts \in Nat
  BY PairingAssumption DEF TypeOK
<1>2. \A a : a \in Attempt <=> a \in Nat /\ 1 <= a /\ a <= MaxAttempts
  BY PairingAssumption DEF Attempt
<1>3. begun \in Nat /\ begun <= MaxAttempts
  BY <1>1
<1>4. \A a \in pending : a \in Nat /\ 1 <= a /\ a <= begun
  BY <1>1, <1>3
<1>5. \A a \in pending : a \in Attempt
  BY <1>1, <1>2, <1>3, <1>4
<1>6. QED
  BY <1>1, <1>2, <1>3, <1>4, <1>5

\* There are entries: none at all, and those of attempts.
LEMMA EntryTypes ==
  /\ NoEntry \in Entry
  /\ \A p \in 0..3, a, h \in 0..MaxAttempts :
       [phase |-> p, attempt |-> a, hash |-> h] \in Entry
BY PairingAssumption DEF NoEntry, Entry

\* Nothing has begun, nothing is paired.
LEMMA InitInv == Init => PairingInv
<1> SUFFICES ASSUME Init PROVE PairingInv
  OBVIOUS
<1>1. TypeOK
  BY PairingAssumption DEF Init, TypeOK, Attempt, NoEntry, Entry, NoRequest, NoPost
<1>2. AttemptsInv
  <2>1. InOrder(<<>>)
    BY DEF InOrder
  <2>2. QED
    BY <2>1, PairingAssumption DEF Init, AttemptsInv, Attempt, NoPost
<1>3. HttpInv /\ CacheInv /\ PairedInv /\ OnePinPerClient
  BY DEF Init, HttpInv, CacheInv, PairedInv, OnePinPerClient, NoRequest
<1>4. QED
  BY <1>1, <1>2, <1>3 DEF PairingInv

\* An entry stays that of its client while attempts begin and other attempts go
\* through phases.
LEMMA EntryStays ==
  ASSUME NEW e, NEW c, EntryOf(e, c), begun \in Nat, begun' \in Nat, begun <= begun',
         owner'[e.attempt] = owner[e.attempt], phases'[e.attempt] = phases[e.attempt]
  PROVE  EntryOf(e, c)'
BY DEF EntryOf

\* A first phase either drops the entry it finds or begins an attempt, whose
\* PIN takes the place of the client's earlier ones.
LEMMA BeginPairingInv ==
  ASSUME PairingInv, NEW c \in Client, BeginPairing(c)
  PROVE  PairingInv'
<1>0. /\ TypeOK /\ AttemptsInv /\ HttpInv /\ CacheInv /\ PairedInv /\ OnePinPerClient
      /\ UNCHANGED <<http, api, paired, phases, up>> /\ http = NoRequest
  BY DEF PairingInv, BeginPairing
<1>1. CASE cache[c] # NoEntry
  <2>1. cache' = [cache EXCEPT ![c] = NoEntry] /\ UNCHANGED <<begun, owner, pending, pin>>
    BY <1>1 DEF BeginPairing, Erase
  <2>2. TypeOK'
    <3>1. cache' \in [Client -> Entry]
      BY <1>0, <2>1, EntryTypes DEF TypeOK
    <3>2. QED
      BY <1>0, <2>1, <3>1 DEF TypeOK
  <2>3. CacheInv'
    BY <1>0, <2>1 DEF CacheInv, EntryOf, TypeOK
  <2>4. AttemptsInv' /\ HttpInv' /\ PairedInv' /\ OnePinPerClient'
    BY <1>0, <2>1 DEF AttemptsInv, HttpInv, EntryOf, PairedInv, OnePinPerClient
  <2>5. QED
    BY <2>2, <2>3, <2>4 DEF PairingInv
<1>2. CASE cache[c] = NoEntry
  <2>1. /\ begun < MaxAttempts /\ begun' = begun + 1
        /\ owner' = [owner EXCEPT ![begun + 1] = c]
        /\ pending' = (pending \ Dangling(c)) \cup {begun + 1}
        /\ pin' = [a \in Attempt |->
                     IF a \in Dangling(c) /\ pin[a] = "none"
                        /\ \A t \in ApiThread : api[t].attempt # a
                     THEN "broken" ELSE pin[a]]
        /\ UNCHANGED cache
    BY <1>2 DEF BeginPairing
  <2>2. /\ begun \in Nat /\ MaxAttempts \in Nat /\ begun + 1 <= MaxAttempts
        /\ begun + 1 \in Attempt
        /\ \A a \in Attempt : a \in Nat /\ 1 <= a /\ a <= MaxAttempts
        /\ \A a \in pending : a \in Attempt /\ a <= begun
    BY <1>0, <2>1, Shapes
  <2>3. TypeOK'
    <3>1. owner' \in [Attempt -> Client \cup {None}]
      <4>1. owner \in [Attempt -> Client \cup {None}]
        BY <1>0 DEF TypeOK
      <4>2. QED
        BY <2>1, <4>1
    <3>2. begun' \in 0..MaxAttempts
      BY <2>1, <2>2
    <3>3. pending' \in SUBSET (1..begun')
      <4>1. \A a \in pending' : a \in Nat /\ 1 <= a /\ a <= begun + 1
        BY <2>1, <2>2
      <4>2. QED
        BY <2>1, <2>2, <4>1
    <3>4. pin' \in [Attempt -> {"none", "right", "wrong", "broken"}]
      <4>1. pin \in [Attempt -> {"none", "right", "wrong", "broken"}]
        BY <1>0 DEF TypeOK
      <4>2. QED
        BY <2>1, <4>1
    <3>5. QED
      BY <1>0, <2>1, <3>1, <3>2, <3>3, <3>4 DEF TypeOK
  <2>4. \A a \in Attempt : owner'[a] = IF a = begun + 1 THEN c ELSE owner[a]
    BY <1>0, <2>1 DEF TypeOK
  <2>5. \A a \in Attempt : pin[a] # "none" => pin'[a] = pin[a]
    BY <2>1
  <2>6. AttemptsInv'
    <3>1. \A a \in Attempt : a <= begun' => owner'[a] \in Client
      BY <1>0, <2>1, <2>2, <2>4 DEF AttemptsInv
    <3>2. \A a \in Attempt : a > begun' => pin'[a] = "none"
      BY <1>0, <2>1, <2>2 DEF AttemptsInv, Dangling
    <3>3. \A a \in Attempt : phases'[a] # <<>> => pin'[a] \in {"right", "wrong"}
      BY <1>0, <2>5 DEF AttemptsInv
    <3>4. \A t \in ApiThread : api'[t].at # "idle" => api'[t].attempt \in 1..begun'
      BY <1>0, <2>1, <2>2 DEF AttemptsInv
    <3>5. QED
      BY <1>0, <3>1, <3>2, <3>3, <3>4 DEF AttemptsInv
  <2>7. HttpInv'
    BY <1>0 DEF HttpInv, NoRequest
  <2>8. CacheInv'
    BY <1>0, <2>1, <2>2, <2>4 DEF CacheInv, EntryOf, NoRequest
  <2>9. PairedInv'
    BY <1>0, <2>1, <2>2, <2>4, <2>5 DEF PairedInv
  <2>10. OnePinPerClient'
    <3>1. \A a \in pending \ Dangling(c) : owner'[a] = owner[a] /\ owner[a] # c
      BY <2>2, <2>4 DEF Dangling
    <3>2. owner'[begun + 1] = c
      BY <1>0, <2>1, <2>2 DEF TypeOK
    <3>3. QED
      BY <1>0, <2>1, <3>1, <3>2 DEF OnePinPerClient
  <2>11. QED
    BY <2>3, <2>6, <2>7, <2>8, <2>9, <2>10 DEF PairingInv
<1>3. QED
  BY <1>1, <1>2

-----------------------------------------------------------------------------
\* PINs are typed for attempts that have begun, and only for those without one;
\* nothing else of the invariant depends on pins, pending attempts and posts.
LEMMA PinsInv ==
  ASSUME PairingInv, TypeOK',
         UNCHANGED <<begun, owner, cache, http, phases>>,
         pending' \subseteq pending, paired' \subseteq paired,
         \A a \in Attempt : \/ pin'[a] = pin[a]
                            \/ pin[a] = "none" /\ a <= begun /\ pin'[a] \in {"right", "wrong"},
         \A t \in ApiThread : api'[t].at # "idle" => api'[t].attempt \in 1..begun
  PROVE  PairingInv'
<1>0. AttemptsInv /\ HttpInv /\ CacheInv /\ PairedInv /\ OnePinPerClient
  BY DEF PairingInv
<1>1. AttemptsInv'
  <2>1. \A a \in Attempt : InOrder(phases'[a]) /\ (a <= begun' => owner'[a] \in Client)
    BY <1>0 DEF AttemptsInv
  <2>2. \A a \in Attempt : a \in Nat /\ begun \in Nat
    BY Shapes DEF PairingInv
  <2>3. \A a \in Attempt : a > begun' => pin'[a] = "none"
    BY <1>0, <2>2 DEF AttemptsInv
  <2>4. \A a \in Attempt : phases'[a] # <<>> => pin'[a] \in {"right", "wrong"}
    BY <1>0 DEF AttemptsInv
  <2>5. QED
    BY <2>1, <2>3, <2>4 DEF AttemptsInv
<1>2. HttpInv' /\ CacheInv'
  BY <1>0 DEF HttpInv, CacheInv, EntryOf
<1>3. PairedInv'
  BY <1>0 DEF PairedInv
<1>4. OnePinPerClient'
  BY <1>0 DEF OnePinPerClient
<1>5. QED
  BY <1>1, <1>2, <1>3, <1>4 DEF PairingInv

LEMMA UnpairInv ==
  ASSUME PairingInv, NEW c \in Client, Unpair(c)
  PROVE  PairingInv'
<1>1. UNCHANGED <<begun, owner, pending, pin, cache, http, api, phases, up>> /\ paired' = paired \ {c}
  BY DEF Unpair
<1>2. TypeOK'
  BY <1>1 DEF PairingInv, TypeOK
<1>3. \A t \in ApiThread : api'[t].at # "idle" => api'[t].attempt \in 1..begun
  BY <1>1 DEF PairingInv, AttemptsInv
<1>4. QED
  BY <1>1, <1>2, <1>3, PinsInv

LEMMA HttpPinInv ==
  ASSUME PairingInv, NEW a \in Attempt, NEW typed \in {"right", "wrong"}, HttpPin(a, typed)
  PROVE  PairingInv'
<1>1. /\ UNCHANGED <<begun, owner, cache, http, api, paired, phases, up>>
      /\ a \in pending /\ pin[a] = "none"
      /\ pin' = [pin EXCEPT ![a] = typed] /\ pending' = pending \ {a}
  BY DEF HttpPin
<1>2. pin \in [Attempt -> {"none", "right", "wrong", "broken"}] /\ a <= begun
  BY <1>1, Shapes DEF PairingInv, TypeOK
<1>3. pin' \in [Attempt -> {"none", "right", "wrong", "broken"}]
  BY <1>1, <1>2
<1>4. TypeOK'
  BY <1>1, <1>3 DEF PairingInv, TypeOK
<1>5. \A t \in ApiThread : api'[t].at # "idle" => api'[t].attempt \in 1..begun
  BY <1>1 DEF PairingInv, AttemptsInv
<1>6. QED
  BY <1>1, <1>2, <1>4, <1>5, PinsInv

LEMMA ApiFindInv ==
  ASSUME PairingInv, NEW t \in ApiThread, NEW a \in Attempt, ApiFind(t, a)
  PROVE  PairingInv'
<1>1. /\ UNCHANGED <<begun, owner, pending, pin, cache, http, paired, phases, up>>
      /\ a \in pending /\ api' = [api EXCEPT ![t] = [at |-> "set", attempt |-> a]]
  BY DEF ApiFind
<1>2. a \in 1..begun /\ a \in 0..MaxAttempts
  BY <1>1, Shapes DEF PairingInv
<1>3. api' \in [ApiThread -> [at : {"idle", "set", "erase"}, attempt : 0..MaxAttempts]]
  BY <1>1, <1>2 DEF PairingInv, TypeOK
<1>4. TypeOK'
  BY <1>1, <1>3 DEF PairingInv, TypeOK
<1>5. \A u \in ApiThread : api'[u].at # "idle" => api'[u].attempt \in 1..begun
  BY <1>1, <1>2 DEF PairingInv, AttemptsInv, TypeOK
<1>6. QED
  BY <1>1, <1>4, <1>5, PinsInv

LEMMA ApiSetInv ==
  ASSUME PairingInv, NEW t \in ApiThread, NEW typed \in {"right", "wrong"}, ApiSet(t, typed)
  PROVE  PairingInv'
<1> DEFINE a == api[t].attempt
<1>1. UNCHANGED <<begun, owner, pending, cache, http, paired, phases>> /\ api[t].at = "set"
  BY DEF ApiSet
<1>2. a \in 1..begun /\ a \in Attempt
  BY <1>1, Shapes DEF PairingInv, AttemptsInv
<1>3. CASE pin[a] = "none"
  <2>1. pin' = [pin EXCEPT ![a] = typed] /\ api' = [api EXCEPT ![t].at = "erase"] /\ UNCHANGED up
    BY <1>3 DEF ApiSet
  <2>2. pin \in [Attempt -> {"none", "right", "wrong", "broken"}] /\ a <= begun
    <3>1. begun \in Nat
      BY Shapes DEF PairingInv
    <3>2. a <= begun
      BY <1>2, <3>1
    <3>3. QED
      BY <3>2 DEF PairingInv, TypeOK
  <2>3. pin' \in [Attempt -> {"none", "right", "wrong", "broken"}]
    BY <2>1, <2>2
  <2>4. api' \in [ApiThread -> [at : {"idle", "set", "erase"}, attempt : 0..MaxAttempts]]
    BY <2>1 DEF PairingInv, TypeOK
  <2>5. TypeOK'
    BY <1>1, <2>1, <2>3, <2>4 DEF PairingInv, TypeOK
  <2>6. \A u \in ApiThread : api'[u].at # "idle" => api'[u].attempt \in 1..begun
    BY <1>1, <1>2, <2>1 DEF PairingInv, AttemptsInv, TypeOK
  <2>7. QED
    BY <1>1, <1>2, <1>3, <2>1, <2>2, <2>5, <2>6, PinsInv
<1>4. CASE pin[a] # "none"
  <2>1. up' = FALSE /\ UNCHANGED <<pin, api>>
    BY <1>4 DEF ApiSet
  <2>2. TypeOK'
    BY <1>1, <2>1 DEF PairingInv, TypeOK
  <2>3. \A u \in ApiThread : api'[u].at # "idle" => api'[u].attempt \in 1..begun
    BY <2>1 DEF PairingInv, AttemptsInv
  <2>4. QED
    BY <1>1, <2>1, <2>2, <2>3, PinsInv
<1>5. QED
  BY <1>3, <1>4

LEMMA ApiEraseInv ==
  ASSUME PairingInv, NEW t \in ApiThread, ApiErase(t)
  PROVE  PairingInv'
<1>1. /\ UNCHANGED <<begun, owner, pin, cache, http, paired, phases, up>>
      /\ pending' = pending \ {api[t].attempt} /\ api' = [api EXCEPT ![t] = NoPost]
  BY DEF ApiErase
<1>2. NoPost \in [at : {"idle", "set", "erase"}, attempt : 0..MaxAttempts] /\ NoPost.at = "idle"
  BY PairingAssumption DEF NoPost
<1>3. api' \in [ApiThread -> [at : {"idle", "set", "erase"}, attempt : 0..MaxAttempts]]
  BY <1>1, <1>2 DEF PairingInv, TypeOK
<1>4. TypeOK'
  BY <1>1, <1>3 DEF PairingInv, TypeOK
<1>5. \A u \in ApiThread : api'[u].at # "idle" => api'[u].attempt \in 1..begun
  BY <1>1, <1>2 DEF PairingInv, AttemptsInv, TypeOK
<1>6. QED
  BY <1>1, <1>4, <1>5, PinsInv

-----------------------------------------------------------------------------
\* Removing an entry, at the end of a request or for a first phase that finds it.
LEMMA EraseInv ==
  ASSUME PairingInv, NEW c \in Client, Erase(c), http' = NoRequest,
         http.at = "finish" => http.client = c,
         UNCHANGED <<begun, owner, pending, pin, api, paired, phases, up>>
  PROVE  PairingInv'
<1>0. AttemptsInv /\ CacheInv /\ PairedInv /\ OnePinPerClient
  BY DEF PairingInv
<1>1. cache \in [Client -> Entry] /\ cache' = [cache EXCEPT ![c] = NoEntry]
  BY DEF PairingInv, TypeOK, Erase
<1>2. TypeOK'
  <2>1. cache' \in [Client -> Entry]
    BY <1>1, EntryTypes
  <2>2. NoRequest \in [at : {"idle", "phase2", "phase3", "phase4", "finish"},
                       from : 0..MaxAttempts, client : Client \cup {None}, copy : Entry]
    BY EntryTypes, PairingAssumption DEF NoRequest
  <2>3. QED
    BY <2>1, <2>2 DEF PairingInv, TypeOK
<1>3. HttpInv'
  BY DEF HttpInv, NoRequest
<1>4. CacheInv'
  BY <1>0, <1>1 DEF CacheInv, EntryOf
<1>5. AttemptsInv' /\ PairedInv' /\ OnePinPerClient'
  BY <1>0 DEF AttemptsInv, PairedInv, OnePinPerClient
<1>6. QED
  BY <1>2, <1>3, <1>4, <1>5 DEF PairingInv

\* Taking an attempt further and storing its entry, by the HTTP thread with
\* what it copied or by the continuation with a fresh entry.
LEMMA ForwardInv ==
  ASSUME PairingInv, NEW a \in Attempt, a <= begun, NEW n \in 1..3, NEW e \in Entry,
         e.phase = n, e.attempt = a, Len(phases[a]) = n - 1, pin[a] \in {"right", "wrong"},
         Store(owner[a], e), Through(a, n),
         \/ http' = NoRequest /\ http.at # "finish"
         \/ http' = http /\ n = 1,
         UNCHANGED <<begun, owner, pending, pin, api, paired, up>>
  PROVE  PairingInv'
<1>0. TypeOK /\ AttemptsInv /\ HttpInv /\ CacheInv /\ PairedInv /\ OnePinPerClient
  BY DEF PairingInv
<1>1. /\ owner[a] \in Client /\ InOrder(phases[a])
      /\ cache' = [cache EXCEPT ![owner[a]] = e]
      /\ phases' = [phases EXCEPT ![a] = Append(@, n)]
      /\ cache \in [Client -> Entry] /\ phases \in [Attempt -> Seq(1..4)]
  BY <1>0 DEF AttemptsInv, TypeOK, Store, Through
<1>2. begun \in Nat /\ \A b \in Attempt : b \in Nat /\ 1 <= b
  BY <1>0, Shapes
<1>3. phases'[a] = Append(phases[a], n) /\ InOrder(phases'[a]) /\ Len(phases'[a]) = n
  BY <1>1, NextPhase
<1>4. \A b \in Attempt : b # a => phases'[b] = phases[b]
  BY <1>1
<1>5. \A b : b \in 1..begun => b \in Attempt
  BY <1>0, <1>2, Shapes
<1>6. TypeOK'
  <2>1. cache' \in [Client -> Entry]
    BY <1>1
  <2>2. phases' \in [Attempt -> Seq(1..4)]
    BY <1>1, <1>3 DEF InOrder
  <2>3. http' \in [at : {"idle", "phase2", "phase3", "phase4", "finish"},
                   from : 0..MaxAttempts, client : Client \cup {None}, copy : Entry]
    <3>1. NoRequest \in [at : {"idle", "phase2", "phase3", "phase4", "finish"},
                         from : 0..MaxAttempts, client : Client \cup {None}, copy : Entry]
      BY EntryTypes, PairingAssumption DEF NoRequest
    <3>2. QED
      BY <1>0, <3>1 DEF TypeOK
  <2>4. QED
    BY <1>0, <2>1, <2>2, <2>3 DEF TypeOK
<1>7. AttemptsInv'
  <2>1. \A b \in Attempt : InOrder(phases'[b])
    BY <1>0, <1>3, <1>4 DEF AttemptsInv
  <2>2. \A b \in Attempt : phases'[b] # <<>> => pin'[b] \in {"right", "wrong"}
    BY <1>0, <1>4 DEF AttemptsInv
  <2>3. QED
    BY <1>0, <2>1, <2>2 DEF AttemptsInv
<1>8. EntryOf(e, owner[a])'
  BY <1>2, <1>3 DEF EntryOf
<1>9. \A f, c : EntryOf(f, c) /\ f.attempt # a => EntryOf(f, c)'
  BY <1>4, <1>5 DEF EntryOf
<1>10. HttpInv'
  <2>1. CASE http' = NoRequest
    BY <2>1 DEF HttpInv, NoRequest
  <2>2. CASE http' = http /\ n = 1
    <3>1. \A f, c : EntryOf(f, c) => f.attempt # a
      BY <2>2 DEF EntryOf
    <3>2. QED
      BY <1>0, <1>9, <2>2, <3>1 DEF HttpInv
  <2>3. QED
    BY <2>1, <2>2
<1>11. CacheInv'
  <2> SUFFICES ASSUME NEW c \in Client, cache'[c] # NoEntry
               PROVE  \/ EntryOf(cache[c], c)'
                      \/ /\ http'.at = "finish" /\ http'.client = c
                         /\ cache'[c].phase \in 1..3
                         /\ cache'[c].attempt \in 1..begun'
                         /\ owner'[cache'[c].attempt] = c
                         /\ Len(phases'[cache'[c].attempt]) = 4
    BY DEF CacheInv
  <2>1. CASE c = owner[a]
    BY <1>1, <1>8, <2>1
  <2>2. CASE c # owner[a]
    <3>1. cache'[c] = cache[c] /\ cache[c] # NoEntry
      BY <1>1, <2>2
    <3>2. CASE EntryOf(cache[c], c)
      <4>1. cache[c].attempt # a
        BY <2>2, <3>2 DEF EntryOf
      <4>2. QED
        BY <1>9, <3>1, <3>2, <4>1
    <3>3. CASE ~EntryOf(cache[c], c)
      <4>1. /\ http.at = "finish" /\ http.client = c
            /\ cache[c].phase \in 1..3
            /\ cache[c].attempt \in 1..begun /\ owner[cache[c].attempt] = c
            /\ Len(phases[cache[c].attempt]) = 4
        BY <1>0, <3>1, <3>3 DEF CacheInv
      <4>2. cache[c].attempt # a /\ http' = http
        BY <2>2, <4>1
      <4>3. QED
        BY <1>4, <1>5, <3>1, <4>1, <4>2
    <3>4. QED
      BY <3>2, <3>3
  <2>3. QED
    BY <2>1, <2>2
<1>12. PairedInv'
  <2> SUFFICES ASSUME NEW c \in paired'
               PROVE  \E b \in Attempt : /\ b <= begun' /\ owner'[b] = c
                                         /\ pin'[b] = "right" /\ phases'[b] = <<1, 2, 3, 4>>
    BY DEF PairedInv
  <2>1. PICK b \in Attempt : /\ b <= begun /\ owner[b] = c
                             /\ pin[b] = "right" /\ phases[b] = <<1, 2, 3, 4>>
    BY <1>0 DEF PairedInv
  <2>2. Len(phases[b]) = 4
    BY <2>1
  <2>3. b # a
    <3>1. n - 1 # 4
      OBVIOUS
    <3>2. QED
      BY <2>2, <3>1
  <2>4. QED
    BY <1>4, <2>1, <2>3
<1>13. OnePinPerClient'
  BY <1>0 DEF OnePinPerClient
<1>14. QED
  BY <1>6, <1>7, <1>10, <1>11, <1>12, <1>13 DEF PairingInv

LEMMA ContinueInv ==
  ASSUME PairingInv, NEW a \in Attempt, Continue(a)
  PROVE  PairingInv'
<1> DEFINE e == [phase |-> 1, attempt |-> a, hash |-> 0]
<1>1. /\ pin[a] \in {"right", "wrong"} /\ phases[a] = <<>>
      /\ Store(owner[a], e) /\ Through(a, 1)
      /\ UNCHANGED <<begun, owner, pending, pin, http, api, paired, up>>
  BY DEF Continue
<1>2. begun \in Nat /\ a \in Nat /\ a <= MaxAttempts /\ MaxAttempts \in Nat
  BY Shapes DEF PairingInv
<1>3. a <= begun
  <2>1. ~(a > begun)
    BY <1>1 DEF PairingInv, AttemptsInv
  <2>2. QED
    BY <1>2, <2>1
<1>4. e \in Entry
  BY <1>2, EntryTypes
<1>5. e.phase = 1 /\ e.attempt = a /\ Len(phases[a]) = 1 - 1
  BY <1>1
<1> HIDE DEF e
<1>6. QED
  BY <1>1, <1>3, <1>4, <1>5, ForwardInv

\* A request works on a copy of the entry it finds.
LEMMA LoadInv ==
  ASSUME PairingInv, NEW at \in {"phase2", "phase3", "phase4"}, NEW a \in Attempt, Load(at, a)
  PROVE  PairingInv'
<1>0. TypeOK /\ AttemptsInv /\ CacheInv /\ PairedInv /\ OnePinPerClient
  BY DEF PairingInv
<1>1. /\ http = NoRequest /\ a <= begun /\ cache[owner[a]] # NoEntry
      /\ http' = [at |-> at, from |-> a, client |-> owner[a], copy |-> cache[owner[a]]]
      /\ UNCHANGED <<begun, owner, pending, pin, cache, api, paired, phases, up>>
  BY DEF Load
<1>2. owner[a] \in Client /\ cache[owner[a]] \in Entry
  BY <1>0, <1>1 DEF AttemptsInv, TypeOK
<1>3. a \in 0..MaxAttempts /\ a \in 1..begun
  <2>1. a \in Nat /\ 1 <= a /\ a <= MaxAttempts /\ begun \in Nat /\ MaxAttempts \in Nat
    BY <1>0, Shapes
  <2>2. a <= begun
    BY <1>1
  <2>3. QED
    BY <2>1, <2>2
<1>4. TypeOK'
  <2>1. http' \in [at : {"idle", "phase2", "phase3", "phase4", "finish"},
                   from : 0..MaxAttempts, client : Client \cup {None}, copy : Entry]
    BY <1>1, <1>2, <1>3
  <2>2. QED
    BY <1>0, <1>1, <2>1 DEF TypeOK
<1>5. EntryOf(cache[owner[a]], owner[a])
  BY <1>0, <1>1, <1>2 DEF CacheInv, NoRequest
<1>6. HttpInv'
  BY <1>1, <1>2, <1>3, <1>5 DEF HttpInv, EntryOf
<1>7. CacheInv'
  BY <1>0, <1>1 DEF CacheInv, EntryOf, NoRequest
<1>8. AttemptsInv' /\ PairedInv' /\ OnePinPerClient'
  <2>1. UNCHANGED <<begun, owner, pin, api, phases>> /\ UNCHANGED <<pending, paired>>
    BY <1>1
  <2>2. AttemptsInv'
    BY <1>0, <2>1 DEF AttemptsInv
  <2>3. PairedInv'
    BY <1>0, <2>1 DEF PairedInv
  <2>4. OnePinPerClient'
    BY <1>0, <2>1 DEF OnePinPerClient
  <2>5. QED
    BY <2>2, <2>3, <2>4
<1>9. QED
  BY <1>4, <1>6, <1>7, <1>8 DEF PairingInv

\* What the handler of a phase knows of its copy.
LEMMA CopyIs ==
  ASSUME PairingInv, http.at \in {"phase2", "phase3", "phase4"}
  PROVE  /\ http.client \in Client
         /\ http.from \in Attempt /\ owner[http.from] = http.client
         /\ http.copy \in Entry /\ EntryOf(http.copy, http.client)
         /\ http.copy.attempt \in Attempt /\ http.copy.attempt <= begun
         /\ owner[http.copy.attempt] = http.client
         /\ pin[http.copy.attempt] \in {"right", "wrong"}
<1>1. /\ http.client \in Client
      /\ http.from \in 1..begun /\ owner[http.from] = http.client
      /\ http.copy.attempt \in 1..begun /\ owner[http.copy.attempt] = http.client
      /\ EntryOf(http.copy, http.client)
  BY DEF PairingInv, HttpInv
<1>2. \A b : b \in 1..begun => b \in Attempt /\ b <= begun
  <2>1. begun \in Nat /\ begun <= MaxAttempts /\ MaxAttempts \in Nat
    BY Shapes DEF PairingInv
  <2>2. \A b \in Nat : 1 <= b /\ b <= MaxAttempts => b \in Attempt
    BY Shapes DEF PairingInv
  <2>3. \A b \in 1..begun : b \in Nat /\ 1 <= b /\ b <= MaxAttempts /\ b <= begun
    BY <2>1
  <2>4. QED
    BY <2>2, <2>3
<1>3. http.copy \in Entry
  BY DEF PairingInv, TypeOK
<1>4. pin[http.copy.attempt] \in {"right", "wrong"}
  <2>1. Len(phases[http.copy.attempt]) \in 1..3
    BY <1>1 DEF EntryOf
  <2>2. phases[http.copy.attempt] # <<>>
    <3>1. 0 \notin 1..3
      OBVIOUS
    <3>2. Len(<<>>) = 0
      BY EmptySeq
    <3>3. QED
      BY <2>1, <3>1, <3>2
  <2>3. QED
    BY <1>1, <1>2, <2>2 DEF PairingInv, AttemptsInv
<1>5. QED
  BY <1>1, <1>2, <1>3, <1>4

\* A request that changes nothing.
LEMMA DropInv ==
  ASSUME PairingInv, http.at # "finish", http' = NoRequest,
         UNCHANGED <<begun, owner, pending, pin, cache, api, paired, phases, up>>
  PROVE  PairingInv'
<1>1. NoRequest \in [at : {"idle", "phase2", "phase3", "phase4", "finish"},
                     from : 0..MaxAttempts, client : Client \cup {None}, copy : Entry]
  BY EntryTypes, PairingAssumption DEF NoRequest
<1>2. TypeOK'
  BY <1>1 DEF PairingInv, TypeOK
<1>3. HttpInv'
  BY DEF HttpInv, NoRequest
<1>4. CacheInv'
  BY DEF PairingInv, CacheInv, EntryOf
<1>5. AttemptsInv' /\ PairedInv' /\ OnePinPerClient'
  BY DEF PairingInv, AttemptsInv, PairedInv, OnePinPerClient
<1>6. QED
  BY <1>2, <1>3, <1>4, <1>5 DEF PairingInv

LEMMA Phase2Inv ==
  ASSUME PairingInv, Phase2
  PROVE  PairingInv'
<1>1. /\ http.at = "phase2" /\ http' = NoRequest
      /\ UNCHANGED <<begun, owner, pending, pin, api, paired, up>>
  BY DEF Phase2
<1> DEFINE a == http.copy.attempt
<1>0. /\ http.client \in Client /\ http.copy \in Entry /\ EntryOf(http.copy, http.client)
      /\ a \in Attempt /\ a <= begun /\ owner[a] = http.client
      /\ pin[a] \in {"right", "wrong"} /\ http.at # "finish"
  BY <1>1, CopyIs
<1>2. CASE http.copy.phase = 1
  <2> DEFINE e == [http.copy EXCEPT !.phase = 2]
  <2>1. e \in Entry /\ e.phase = 2 /\ e.attempt = a /\ 2 \in 1..3
    BY <1>0 DEF Entry
  <2>2. Store(owner[a], e) /\ Through(a, 2)
    BY <1>0, <1>2, <2>1 DEF Phase2, Advance
  <2>3. Len(phases[a]) = 2 - 1
    BY <1>0, <1>2 DEF EntryOf
  <2> HIDE DEF e, a
  <2>4. QED
    BY <1>0, <1>1, <2>1, <2>2, <2>3, ForwardInv DEF a
<1>3. CASE http.copy.phase # 1
  <2>1. Erase(http.client) /\ UNCHANGED phases
    BY <1>3 DEF Phase2
  <2>2. QED
    BY <1>0, <1>1, <2>1, EraseInv
<1>4. QED
  BY <1>2, <1>3

LEMMA Phase3Inv ==
  ASSUME PairingInv, Phase3
  PROVE  PairingInv'
<1>1. /\ http.at = "phase3" /\ http' = NoRequest
      /\ UNCHANGED <<begun, owner, pending, pin, api, paired, up>>
  BY DEF Phase3
<1> DEFINE a == http.copy.attempt
<1>0. /\ http.client \in Client /\ http.copy \in Entry /\ EntryOf(http.copy, http.client)
      /\ a \in Attempt /\ a <= begun /\ owner[a] = http.client
      /\ pin[a] \in {"right", "wrong"} /\ http.at # "finish"
  BY <1>1, CopyIs
<1>2. http.copy.phase \in 1..3
  BY <1>0 DEF EntryOf
<1>3. CASE http.copy.phase = 1
  <2>1. UNCHANGED <<cache, phases>>
    BY <1>3 DEF Phase3
  <2>2. QED
    BY <1>1, <2>1, DropInv
<1>4. CASE http.copy.phase = 2
  <2> DEFINE e == [phase |-> 3, attempt |-> a, hash |-> http.from]
  <2>1. e \in Entry /\ e.phase = 3 /\ e.attempt = a /\ 3 \in 1..3
    <3>1. http.from \in 0..MaxAttempts
      BY DEF PairingInv, TypeOK
    <3>2. QED
      BY <1>0, <3>1 DEF Entry
  <2>2. Store(owner[a], e) /\ Through(a, 3)
    BY <1>0, <1>4, <2>1 DEF Phase3, Advance
  <2>3. Len(phases[a]) = 3 - 1
    BY <1>0, <1>4 DEF EntryOf
  <2> HIDE DEF e, a
  <2>4. QED
    BY <1>0, <1>1, <2>1, <2>2, <2>3, ForwardInv DEF a
<1>5. CASE http.copy.phase = 3
  <2>1. Erase(http.client) /\ UNCHANGED phases
    BY <1>5 DEF Phase3
  <2>2. QED
    BY <1>0, <1>1, <2>1, EraseInv
<1>6. QED
  BY <1>2, <1>3, <1>4, <1>5

LEMMA FinishInv ==
  ASSUME PairingInv, Finish
  PROVE  PairingInv'
<1>1. http.at = "finish" /\ http.client \in Client
  BY DEF Finish, PairingInv, HttpInv
<1>2. QED
  BY <1>1, EraseInv DEF Finish

\* The client is paired with the attempt that its copy is of, which leaves the
\* entry behind by one phase until the thread removes it.
LEMMA Phase4Inv ==
  ASSUME PairingInv, Phase4
  PROVE  PairingInv'
<1> DEFINE a == http.from
<1> DEFINE c == http.client
<1>0. TypeOK /\ AttemptsInv /\ HttpInv /\ CacheInv /\ PairedInv /\ OnePinPerClient
  BY DEF PairingInv
<1>1. http.at = "phase4" /\ UNCHANGED <<begun, owner, pending, pin, cache, api, up>>
  BY DEF Phase4
<1>2. /\ c \in Client /\ a \in Attempt /\ owner[a] = c
      /\ EntryOf(http.copy, c) /\ http.copy.attempt \in Attempt
      /\ http.copy.attempt <= begun
  BY <1>1, CopyIs
<1>3. CASE http.copy.phase < 3
  BY <1>1, <1>3, DropInv DEF Phase4
<1>4. CASE ~(http.copy.phase < 3)
  <2>1. http' = [http EXCEPT !.at = "finish"]
    BY <1>4 DEF Phase4
  <2>2. /\ http' \in [at : {"idle", "phase2", "phase3", "phase4", "finish"},
                      from : 0..MaxAttempts, client : Client \cup {None}, copy : Entry]
        /\ http'.at = "finish" /\ http'.client = c /\ http'.from = a /\ http'.copy = http.copy
    BY <1>0, <2>1 DEF TypeOK
  <2>3. HttpInv'
    BY <1>0, <1>1, <2>2 DEF HttpInv
  <2>4. OnePinPerClient'
    BY <1>0, <1>1 DEF OnePinPerClient
  <2>5. CASE Verified(http)
    <3>1. /\ paired' = paired \cup {c} /\ phases' = [phases EXCEPT ![a] = Append(@, 4)]
          /\ http.copy.attempt = a /\ pin[a] = "right"
      BY <1>4, <2>5 DEF Phase4, Through, Verified
    <3>2. Len(phases[a]) = 4 - 1 /\ 4 \in 1..4
      <4>1. http.copy.phase \in 1..3 /\ Len(phases[a]) = http.copy.phase
        BY <1>2, <3>1 DEF EntryOf
      <4>2. http.copy.phase = 3
        BY <1>4, <4>1
      <4>3. QED
        BY <4>1, <4>2
    <3>3. phases \in [Attempt -> Seq(1..4)] /\ InOrder(phases[a])
      BY <1>0, <1>2 DEF TypeOK, AttemptsInv
    <3>4. InOrder(phases'[a]) /\ Len(phases'[a]) = 4
      BY <1>2, <3>1, <3>2, <3>3, NextPhase
    <3>5. \A b \in Attempt : b # a => phases'[b] = phases[b]
      BY <3>1, <3>3
    <3>6. TypeOK'
      <4>1. phases' \in [Attempt -> Seq(1..4)]
        BY <3>1, <3>3, <3>4 DEF InOrder
      <4>2. paired' \in SUBSET Client
        BY <1>0, <1>2, <3>1 DEF TypeOK
      <4>3. QED
        BY <1>0, <1>1, <2>2, <4>1, <4>2 DEF TypeOK
    <3>7. AttemptsInv'
      <4>1. \A b \in Attempt : InOrder(phases'[b])
        BY <1>0, <3>4, <3>5 DEF AttemptsInv
      <4>2. \A b \in Attempt : phases'[b] # <<>> => pin'[b] \in {"right", "wrong"}
        BY <1>0, <1>1, <3>1, <3>5 DEF AttemptsInv
      <4>3. QED
        BY <1>0, <1>1, <4>1, <4>2 DEF AttemptsInv
    <3>8. CacheInv'
      <4>1. \A b : b \in 1..begun => b \in Attempt
        BY <1>0, Shapes
      <4> SUFFICES ASSUME NEW d \in Client, cache'[d] # NoEntry
                   PROVE  \/ EntryOf(cache[d], d)'
                          \/ /\ http'.at = "finish" /\ http'.client = d
                             /\ cache'[d].phase \in 1..3
                             /\ cache'[d].attempt \in 1..begun'
                             /\ owner'[cache'[d].attempt] = d
                             /\ Len(phases'[cache'[d].attempt]) = 4
        BY DEF CacheInv
      <4>2. EntryOf(cache[d], d)
        BY <1>0, <1>1 DEF CacheInv
      <4>3. CASE cache[d].attempt = a
        <5>1. d = c
          BY <1>2, <4>2, <4>3 DEF EntryOf
        <5>2. QED
          BY <1>1, <2>2, <3>4, <4>2, <4>3, <5>1 DEF EntryOf
      <4>4. CASE cache[d].attempt # a
        BY <1>1, <3>5, <4>1, <4>2, <4>4 DEF EntryOf
      <4>5. QED
        BY <4>3, <4>4
    <3>9. PairedInv'
      <4>1. phases'[a] = <<1, 2, 3, 4>>
        BY <3>4, PrefixOfFour
      <4>2. a <= begun
        BY <1>2, <3>1
      <4> SUFFICES ASSUME NEW d \in paired'
                   PROVE  \E b \in Attempt : /\ b <= begun' /\ owner'[b] = d
                                             /\ pin'[b] = "right"
                                             /\ phases'[b] = <<1, 2, 3, 4>>
        BY DEF PairedInv
      <4>3. CASE d = c
        BY <1>1, <1>2, <3>1, <4>1, <4>2, <4>3
      <4>4. CASE d # c
        <5>1. d \in paired
          BY <3>1, <4>4
        <5>2. PICK b \in Attempt : /\ b <= begun /\ owner[b] = d
                                   /\ pin[b] = "right" /\ phases[b] = <<1, 2, 3, 4>>
          BY <1>0, <5>1 DEF PairedInv
        <5>3. b # a
          BY <1>2, <4>4, <5>2
        <5>4. QED
          BY <1>1, <3>5, <5>2, <5>3
      <4>5. QED
        BY <4>3, <4>4
    <3>10. QED
      BY <2>3, <2>4, <3>6, <3>7, <3>8, <3>9 DEF PairingInv
  <2>6. CASE ~Verified(http)
    <3>1. UNCHANGED <<paired, phases>>
      BY <1>4, <2>6 DEF Phase4
    <3>2. TypeOK'
      BY <1>0, <1>1, <2>2, <3>1 DEF TypeOK
    <3>3. CacheInv'
      BY <1>0, <1>1, <3>1 DEF CacheInv, EntryOf
    <3>4. AttemptsInv' /\ PairedInv'
      BY <1>0, <1>1, <3>1 DEF AttemptsInv, PairedInv
    <3>5. QED
      BY <2>3, <2>4, <3>2, <3>3, <3>4 DEF PairingInv
  <2>7. QED
    BY <2>5, <2>6
<1>5. QED
  BY <1>3, <1>4

-----------------------------------------------------------------------------
LEMMA StepInv ==
  ASSUME PairingInv, [Next]_vars
  PROVE  PairingInv'
<1>1. CASE UNCHANGED vars
  <2> USE <1>1 DEF vars
  <2>1. TypeOK'
    BY DEF PairingInv, TypeOK
  <2>2. AttemptsInv'
    BY DEF PairingInv, AttemptsInv
  <2>3. HttpInv' /\ CacheInv'
    BY DEF PairingInv, HttpInv, CacheInv, EntryOf
  <2>4. PairedInv' /\ OnePinPerClient'
    BY DEF PairingInv, PairedInv, OnePinPerClient
  <2>5. QED
    BY <2>1, <2>2, <2>3, <2>4 DEF PairingInv
<1>2. CASE Next
  <2>1. CASE \E c \in Client : BeginPairing(c) \/ Unpair(c)
    BY <2>1, BeginPairingInv, UnpairInv
  <2>2. CASE \E a \in Attempt, typed \in {"right", "wrong"} : HttpPin(a, typed)
    BY <2>2, HttpPinInv
  <2>3. CASE \E t \in ApiThread :
               \/ \E a \in Attempt : ApiFind(t, a)
               \/ \E typed \in {"right", "wrong"} : ApiSet(t, typed)
               \/ ApiErase(t)
    BY <2>3, ApiFindInv, ApiSetInv, ApiEraseInv
  <2>4. CASE \E a \in Attempt : Continue(a)
    BY <2>4, ContinueInv
  <2>5. CASE \E at \in {"phase2", "phase3", "phase4"}, a \in Attempt : Load(at, a)
    BY <2>5, LoadInv
  <2>6. CASE Phase2 \/ Phase3 \/ Phase4 \/ Finish
    BY <2>6, Phase2Inv, Phase3Inv, Phase4Inv, FinishInv
  <2>7. QED
    BY <1>2, <2>1, <2>2, <2>3, <2>4, <2>5, <2>6 DEF Next
<1>3. QED
  BY <1>1, <1>2

\* The invariant of pairing holds for any clients, API threads and attempts.
THEOREM PairingInvariant == Spec => []PairingInv
<1>1. Init => PairingInv
  BY InitInv
<1>2. PairingInv /\ [Next]_vars => PairingInv'
  BY StepInv
<1>3. QED
  BY <1>1, <1>2, PTL DEF Spec

\* Every variable of pairing stays in its type: the cache holds entries of
\* attempts that exist, and promises the values they can take.
THEOREM TypeCorrect == Spec => []TypeOK
<1>1. PairingInv => TypeOK
  BY DEF PairingInv
<1>2. QED
  BY <1>1, PairingInvariant, PTL

\* A client gets paired only by an attempt of its own, with the right PIN typed
\* and the four phases in order, whatever attempts and requests interleave
\* (endpoints::pair, pairing_cache).
THEOREM PairedByItsOwnAttempt == Spec => []PairedInOrder
<1>1. PairingInv => PairedInOrder
  <2> SUFFICES ASSUME PairingInv PROVE PairedInOrder
    OBVIOUS
  <2>1. \A a \in Attempt : IsPrefix(phases[a], <<1, 2, 3, 4>>)
    BY PrefixOfFour DEF PairingInv, AttemptsInv
  <2>2. \A c \in paired : \E a \in Attempt :
          owner[a] = c /\ pin[a] = "right" /\ phases[a] = <<1, 2, 3, 4>>
    BY DEF PairingInv, PairedInv
  <2>3. QED
    BY <2>1, <2>2 DEF PairedInOrder
<1>2. QED
  BY <1>1, PairingInvariant, PTL

\* An entry of pairing_cache is that of an attempt of its client, never ahead
\* of it, with a PIN typed (endpoints::pair stores copies back unchecked).
THEOREM EntriesMatchAttempts == Spec => []EntryMatchesAttempt
<1>1. PairingInv => EntryMatchesAttempt
  <2> SUFFICES ASSUME PairingInv, NEW c \in Client, cache[c] # NoEntry
               PROVE  /\ cache[c].attempt \in 1..begun /\ owner[cache[c].attempt] = c
                      /\ cache[c].phase <= Len(phases[cache[c].attempt])
                      /\ pin[cache[c].attempt] \in {"right", "wrong"}
    BY DEF EntryMatchesAttempt
  <2> DEFINE a == cache[c].attempt
  <2>1. /\ cache[c].phase \in 1..3 /\ a \in 1..begun /\ owner[a] = c
        /\ Len(phases[a]) = cache[c].phase \/ Len(phases[a]) = 4
    BY DEF PairingInv, CacheInv, EntryOf
  <2>2. cache[c].phase <= Len(phases[a]) /\ Len(phases[a]) # 0
    <3>1. CASE Len(phases[a]) = cache[c].phase
      BY <2>1, <3>1
    <3>2. CASE Len(phases[a]) = 4
      <4>1. \A p \in 1..3 : p <= 4
        OBVIOUS
      <4>2. QED
        BY <2>1, <3>2, <4>1
    <3>3. QED
      BY <2>1, <3>1, <3>2
  <2>3. a \in Attempt
    BY <2>1, Shapes DEF PairingInv
  <2>4. phases[a] # <<>>
    BY <2>2, EmptySeq
  <2>5. pin[a] \in {"right", "wrong"}
    BY <2>3, <2>4 DEF PairingInv, AttemptsInv
  <2>6. QED
    BY <2>1, <2>2, <2>5
<1>2. QED
  BY <1>1, PairingInvariant, PTL

\* A client that starts over leaves one PIN to type (the handler of PairSignal
\* drops the earlier atoms of that client).
THEOREM OnePin == Spec => []OnePinPerClient
<1>1. PairingInv => OnePinPerClient
  BY DEF PairingInv
<1>2. QED
  BY <1>1, PairingInvariant, PTL

\* A PIN that was typed stands, whoever types another (a promise takes one
\* value; the second set_value throws).
THEOREM TypedPinStands == Spec => PinStands
<1>1. PairingInv /\ [Next]_vars =>
        [\A a \in Attempt : pin[a] \in {"right", "wrong"} => pin'[a] = pin[a]]_vars
  <2> DEFINE Stands == \A a \in Attempt : pin[a] \in {"right", "wrong"} => pin'[a] = pin[a]
  <2> SUFFICES ASSUME PairingInv, Next PROVE Stands
    OBVIOUS
  <2>0. pin \in [Attempt -> {"none", "right", "wrong", "broken"}]
    BY DEF PairingInv, TypeOK
  <2>1. ASSUME NEW c \in Client, BeginPairing(c) PROVE Stands
    BY <2>1 DEF BeginPairing
  <2>2. ASSUME NEW a \in Attempt, NEW typed \in {"right", "wrong"}, HttpPin(a, typed) PROVE Stands
    BY <2>0, <2>2 DEF HttpPin
  <2>3. ASSUME NEW t \in ApiThread, NEW typed \in {"right", "wrong"}, ApiSet(t, typed) PROVE Stands
    BY <2>0, <2>3 DEF ApiSet
  <2>4. CASE UNCHANGED pin
    BY <2>4
  <2>5. \/ UNCHANGED pin
        \/ (\E c \in Client : BeginPairing(c))
        \/ (\E a \in Attempt, typed \in {"right", "wrong"} : HttpPin(a, typed))
        \/ (\E t \in ApiThread, typed \in {"right", "wrong"} : ApiSet(t, typed))
    BY DEF Next, Unpair, ApiFind, ApiErase, Continue, Load, Phase2, Phase3, Phase4, Finish
  <2>6. QED
    BY <2>1, <2>2, <2>3, <2>4, <2>5
<1>2. QED
  BY <1>1, PairingInvariant, PTL DEF PinStands, Spec
=============================================================================
