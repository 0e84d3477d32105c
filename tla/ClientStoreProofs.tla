------------------------- MODULE ClientStoreProofs -------------------------
(***************************************************************************)
(* The list of clients in memory and the one in config.toml, for any       *)
(* clients and settings and lists of any length: types for any threads;    *)
(* the write-then-rename of save_verified() and the two lists' agreement   *)
(* while one request at a time changes them.                               *)
(***************************************************************************)
EXTENDS ClientStore, TLAPS, WellFoundedInduction

(* Induction: a property of lists is proved by looking at the least          *)
(* counterexample.                                                           *)

\* A set of naturals that is not empty has a least element.
LEMMA LeastNatural ==
  ASSUME NEW T, T \subseteq Nat, T # {}
  PROVE  \E m \in T : \A n \in T : m <= n
<1> DEFINE Less == {ss \in Nat \X Nat : ss[1] < ss[2]}
<1>1. OpToRel(<, Nat) = Less
  BY Zenon DEF OpToRel
<1>2. IsWellFoundedOn(Less, Nat)
  BY <1>1, NatLessThanWellFounded, Zenon
<1> HIDE DEF Less
<1>3. PICK m \in T : \A n \in T : ~(<<n, m>> \in Less)
  BY <1>2, WFMin
<1>4. ASSUME NEW n \in T, n < m PROVE FALSE
  <2>1. <<n, m>> \in Less
    BY <1>4 DEF Less
  <2>2. QED
    BY <1>3, <2>1
<1>5. QED
  BY <1>4

-----------------------------------------------------------------------------
(* Lists of clients. *)

In(list) == {list[i] : i \in DOMAIN list}
Entries(list, c) == {client \in In(list) : client.cert = c}
Once(list, c) == \A i, j \in Matching(list, c) : i = j

\* The entry that is found is one of the certificate.
LEMMA LookupIs ==
  ASSUME NEW list \in Clients, NEW c \in Certs(list)
  PROVE  Lookup(list, c) \in Entries(list, c)
<1> DEFINE T == Matching(list, c)
<1>1. T \subseteq Nat /\ T # {}
  BY DEF Matching, Certs, Clients
<1>2. Min(T) \in T
  <2> HIDE DEF T
  <2>1. QED
    BY <1>1, LeastNatural DEF Min
<1>3. QED
  BY <1>2 DEF Lookup, Matching, Entries, In

\* A client put at the end of a list.
LEMMA AppendIs ==
  ASSUME NEW list \in Clients, NEW new \in Client
  PROVE  /\ Append(list, new) \in Clients
         /\ In(Append(list, new)) = In(list) \cup {new}
         /\ \A d : Once(Append(list, new), d)
                     <=> Once(list, d) /\ (new.cert = d => d \notin Certs(list))
<1>1. PICK longer : longer = Append(list, new)
  OBVIOUS
<1>2. /\ longer \in Clients /\ DOMAIN longer = 1..(Len(list) + 1)
      /\ longer[Len(list) + 1] = new /\ \A i \in DOMAIN list : longer[i] = list[i]
      /\ DOMAIN list = 1..Len(list) /\ Len(list) \in Nat
  BY <1>1 DEF Clients
<1>3. In(longer) = In(list) \cup {new}
  BY <1>2 DEF In
<1>4. ASSUME NEW d
      PROVE  Once(longer, d) <=> Once(list, d) /\ (new.cert = d => d \notin Certs(list))
  <2>1. Matching(longer, d) = Matching(list, d) \cup
                                (IF new.cert = d THEN {Len(list) + 1} ELSE {})
    BY <1>2 DEF Matching
  <2>2. Len(list) + 1 \notin Matching(list, d)
    BY <1>2 DEF Matching
  <2>3. d \in Certs(list) <=> Matching(list, d) # {}
    BY DEF Certs, Matching
  <2>4. QED
    BY <2>1, <2>2, <2>3 DEF Once
<1>5. QED
  BY <1>1, <1>2, <1>3, <1>4

\* A client whose settings replace those of every entry of its certificate.
LEMMA ReplacedIs ==
  ASSUME NEW list \in Clients, NEW new \in Client
  PROVE  /\ Replaced(list, new) \in Clients
         /\ Certs(Replaced(list, new)) = Certs(list)
         /\ \A d : Once(Replaced(list, new), d) <=> Once(list, d)
         /\ \A d : Entries(Replaced(list, new), d)
                     = IF d = new.cert /\ d \in Certs(list) THEN {new} ELSE Entries(list, d)
<1>1. PICK other : other = Replaced(list, new)
  OBVIOUS
<1>2. /\ other \in Clients /\ DOMAIN other = DOMAIN list
      /\ \A i \in DOMAIN list :
           /\ other[i] = IF list[i].cert = new.cert THEN new ELSE list[i]
           /\ other[i].cert = list[i].cert
  BY <1>1 DEF Replaced, Clients
<1>3. \A d : Matching(other, d) = Matching(list, d)
  BY <1>2 DEF Matching
<1>4. Certs(other) = Certs(list)
  BY <1>2 DEF Certs
<1>5. ASSUME NEW d
      PROVE  Entries(other, d)
               = IF d = new.cert /\ d \in Certs(list) THEN {new} ELSE Entries(list, d)
  <2>1. CASE d = new.cert /\ d \in Certs(list)
    BY <1>2, <2>1 DEF Entries, In, Certs
  <2>2. CASE d # new.cert
    BY <1>2, <2>2 DEF Entries, In
  <2>3. CASE d \notin Certs(list)
    BY <1>4, <2>3 DEF Entries, In, Certs
  <2>4. QED
    BY <2>1, <2>2, <2>3
<1>6. QED
  BY <1>1, <1>2, <1>3, <1>4, <1>5 DEF Once

\* One more entry of a list, filtered.
Kept(list, c, g, n) ==
  IF n = 0 THEN <<>>
  ELSE IF list[n].cert = c THEN g[n - 1] ELSE Append(g[n - 1], list[n])

\* The recursive function that the filter is defined by exists.
LEMMA KeptExists ==
  ASSUME NEW list \in Clients, NEW c
  PROVE  \E g : g = [n \in 0..Len(list) |-> Kept(list, c, g, n)]
<1> DEFINE Good(m, g) == g = [n \in 0..m |-> Kept(list, c, g, n)]
           T == {m \in 0..Len(list) : \A g : ~Good(m, g)}
<1>1. Len(list) \in Nat
  BY DEF Clients
<1>2. SUFFICES ASSUME T # {} PROVE FALSE
  BY <1>1
<1>3. PICK m \in T : \A n \in T : m <= n
  <2>1. T \subseteq Nat
    BY <1>1
  <2> HIDE DEF T
  <2>2. QED
    BY <1>2, <2>1, LeastNatural
<1>4. CASE m = 0
  <2> DEFINE g == [n \in 0..0 |-> <<>>]
  <2>1. Good(0, g)
    BY DEF Kept
  <2>2. QED
    BY <1>4, <2>1
<1>5. CASE m # 0
  <2>1. m - 1 \notin T /\ m - 1 \in 0..Len(list)
    BY <1>1, <1>3, <1>5
  <2>2. PICK g : Good(m - 1, g)
    BY <2>1
  <2> DEFINE h == [n \in 0..m |-> IF n = m THEN Kept(list, c, g, m) ELSE g[n]]
  <2>3. ASSUME NEW n \in 0..m PROVE h[n] = Kept(list, c, h, n)
    <3>1. Kept(list, c, h, n) = Kept(list, c, g, n)
      <4>1. CASE n = 0
        BY <4>1 DEF Kept
      <4>2. CASE n # 0
        <5>1. n - 1 \in 0..m /\ n - 1 # m
          BY <2>1, <4>2
        <5>2. h[n - 1] = g[n - 1]
          BY <5>1
        <5> HIDE DEF h
        <5>3. QED
          BY <5>2 DEF Kept
      <4>3. QED
        BY <4>1, <4>2
    <3>2. ASSUME n # m PROVE g[n] = Kept(list, c, g, n)
      <4>1. n \in 0..(m - 1)
        BY <3>2
      <4> HIDE DEF Kept
      <4>2. QED
        BY <4>1, <2>2
    <3>3. QED
      BY <3>1, <3>2
  <2>4. h = [n \in 0..m |-> h[n]]
    OBVIOUS
  <2>5. Good(m, h)
    BY <2>3, <2>4
  <2>6. QED
    BY <2>5
<1>6. QED
  BY <1>4, <1>5

\* The entries of one certificate leave the list; those of the others stay, as
\* many times as they were there.
LEMMA WithoutIs ==
  ASSUME NEW list \in Clients, NEW c
  PROVE  /\ Without(list, c) \in Clients
         /\ In(Without(list, c)) = {client \in In(list) : client.cert # c}
         /\ \A d : d # c => (Once(Without(list, c), d) <=> Once(list, d))
<1> DEFINE g == CHOOSE g : g = [n \in 0..Len(list) |-> Kept(list, c, g, n)]
<1>1. g = [n \in 0..Len(list) |-> Kept(list, c, g, n)]
  BY KeptExists
<1>2. Without(list, c) = g[Len(list)]
  BY DEF Without, Kept
<1> HIDE DEF g
<1> DEFINE First(n) == {list[i] : i \in 1..n}
           OnceBy(n, d) == \A i, j \in 1..n : list[i].cert = d /\ list[j].cert = d => i = j
           P(n) == /\ g[n] \in Clients
                   /\ In(g[n]) = {client \in First(n) : client.cert # c}
                   /\ \A d : d # c => (Once(g[n], d) <=> OnceBy(n, d))
           T == {n \in 0..Len(list) : ~P(n)}
<1>3. Len(list) \in Nat /\ DOMAIN list = 1..Len(list)
  BY DEF Clients
<1>4. SUFFICES ASSUME T # {} PROVE FALSE
  <2>1. Len(list) \notin T
    BY <1>4
  <2>2. In(list) = First(Len(list)) /\ \A d : Once(list, d) <=> OnceBy(Len(list), d)
    BY <1>3 DEF In, Once, Matching
  <2>3. P(Len(list))
    <3> HIDE DEF P
    <3>1. QED
      BY <1>3, <2>1
  <2>4. QED
    BY <1>2, <2>2, <2>3
<1>5. PICK m \in T : \A n \in T : m <= n
  <2>1. T \subseteq Nat
    BY <1>3
  <2> HIDE DEF T
  <2>2. QED
    BY <1>4, <2>1, LeastNatural
<1>6. m # 0
  <2>1. g[0] = <<>>
    BY <1>1, <1>3 DEF Kept
  <2>2. P(0)
    BY <2>1 DEF In, Once, Matching, Clients
  <2>3. QED
    BY <1>5, <2>2
<1>7. m - 1 \in 0..Len(list) /\ P(m - 1)
  <2>1. m - 1 \in 0..Len(list) /\ m - 1 \notin T
    <3> HIDE DEF P
    <3>1. QED
      BY <1>3, <1>5, <1>6
  <2>2. P(m - 1)
    <3> HIDE DEF P
    <3>1. QED
      BY <2>1
  <2>3. QED
    BY <2>1, <2>2
<1>8. m \in 1..Len(list) /\ list[m] \in Client
  BY <1>3, <1>5, <1>6 DEF Clients
<1>9. First(m) = First(m - 1) \cup {list[m]}
  BY <1>8
<1>10. g[m] = IF list[m].cert = c THEN g[m - 1] ELSE Append(g[m - 1], list[m])
  <2>1. g[m] = Kept(list, c, g, m)
    <3>1. m \in 0..Len(list)
      BY <1>3, <1>8
    <3> HIDE DEF T, P
    <3>2. QED
      BY <1>1, <3>1
  <2>2. QED
    BY <1>8, <2>1 DEF Kept
<1>11. ASSUME NEW d
       PROVE  OnceBy(m, d) <=> OnceBy(m - 1, d)
                                 /\ (list[m].cert = d => \A x \in First(m - 1) : x.cert # d)
  <2>1. \A i \in 1..m : i = m \/ i \in 1..(m - 1)
    BY <1>8
  <2>2. 1..(m - 1) \subseteq 1..m /\ m \notin 1..(m - 1) /\ m \in 1..m
    BY <1>8
  <2>3. QED
    BY <2>1, <2>2
<1>12. CASE list[m].cert = c
  <2>1. g[m] = g[m - 1]
    BY <1>10, <1>12
  <2>2. \A d : d # c => (OnceBy(m, d) <=> OnceBy(m - 1, d))
    <3> HIDE DEF OnceBy, First
    <3>1. QED
      BY <1>11, <1>12
  <2>3. {client \in First(m) : client.cert # c} = {client \in First(m - 1) : client.cert # c}
    <3> HIDE DEF First
    <3>1. QED
      BY <1>9, <1>12
  <2>4. P(m)
    <3> HIDE DEF First, OnceBy
    <3>1. QED
      BY <1>7, <2>1, <2>2, <2>3
  <2>5. QED
    BY <1>5, <2>4
<1>13. CASE list[m].cert # c
  <2>1. g[m] = Append(g[m - 1], list[m]) /\ g[m - 1] \in Clients
    BY <1>7, <1>10, <1>13
  <2>2. /\ g[m] \in Clients
        /\ In(g[m]) = In(g[m - 1]) \cup {list[m]}
        /\ \A d : Once(g[m], d)
                    <=> Once(g[m - 1], d) /\ (list[m].cert = d => d \notin Certs(g[m - 1]))
    BY <1>8, <2>1, AppendIs
  <2>3. \A d : d \in Certs(g[m - 1]) <=> \E x \in In(g[m - 1]) : x.cert = d
    BY DEF Certs, In
  <2>4. \A d : d # c => (d \in Certs(g[m - 1]) <=> \E x \in First(m - 1) : x.cert = d)
    <3> HIDE DEF First, OnceBy
    <3>1. QED
      BY <1>7, <2>3
  <2>5. \A d : d # c => (Once(g[m], d) <=> OnceBy(m, d))
    <3> HIDE DEF First, OnceBy
    <3>1. QED
      BY <1>7, <1>11, <2>2, <2>4
  <2>6. P(m)
    <3> HIDE DEF First, OnceBy
    <3>1. QED
      BY <1>7, <1>9, <1>13, <2>2, <2>5
  <2>7. QED
    BY <1>5, <2>6
<1>14. QED
  BY <1>12, <1>13

-----------------------------------------------------------------------------
(* Types, for any number of threads. *)

Kind == {"idle", "pair", "unpair", "settings", "profiles"}
OpType == [kind : Kind, at : Step, client : Client]

\* A thread is at a step that its request has.
OpOK(o) ==
  /\ o \in OpType
  /\ o.at = "memory" => o.kind \in {"pair", "unpair", "settings"}
  /\ o.kind = "idle" <=> o.at = "done"

TypeInv ==
  /\ memory \in Clients /\ file \in File /\ tmp \in File
  /\ op \in [Thread -> OpType] /\ \A t \in Thread : OpOK(op[t])
  /\ tml \in [Thread -> Clients] /\ unsaved \in BOOLEAN

\* A thread that is idle.
LEMMA IdleOK == OpOK(Idle) /\ Idle.at = "done"
<1>1. NoClient \in Client
  BY ClientStoreAssumption DEF NoClient, Client
<1>2. QED
  BY <1>1 DEF Idle, OpOK, OpType, Kind, Step

\* What the file and the list in memory become are lists of clients.
LEMMA ListsTyped ==
  ASSUME TypeInv, NEW kind, NEW client \in Client
  PROVE  /\ kind \in {"pair", "unpair", "settings"} => InMemory(kind, client) \in Clients
         /\ kind \in {"pair", "unpair", "settings", "profiles"}
              => InFile(kind, client) \in Clients
<1>1. ASSUME NEW list \in Clients
      PROVE  /\ Append(list, client) \in Clients
             /\ Without(list, client.cert) \in Clients
             /\ Append(Without(list, client.cert), client) \in Clients
             /\ Replaced(list, client) \in Clients
  BY WithoutIs, AppendIs, ReplacedIs
<1>2. memory \in Clients /\ file.clients \in Clients
  BY DEF TypeInv, File
<1>3. QED
  BY <1>1, <1>2 DEF InMemory, InFile

\* A thread whose operation is at another step.
LEMMA GotoTyped ==
  ASSUME TypeInv, NEW t \in Thread, op[t].kind # "idle", NEW at \in Step \ {"done", "memory"},
         Goto(t, at)
  PROVE  op' \in [Thread -> OpType] /\ \A u \in Thread : OpOK(op'[u])
<1>1. op \in [Thread -> OpType] /\ \A u \in Thread : OpOK(op[u])
  BY DEF TypeInv
<1>2. op' = [op EXCEPT ![t] = [op[t] EXCEPT !.at = at]]
  BY DEF Goto
<1>3. PICK o : o = [op[t] EXCEPT !.at = at]
  OBVIOUS
<1>4. OpOK(o)
  BY <1>1, <1>3 DEF OpOK, OpType
<1>5. QED
  BY <1>1, <1>2, <1>3, <1>4 DEF OpOK

\* A thread that is given another operation.
LEMMA OpTyped ==
  ASSUME TypeInv, NEW t \in Thread, NEW o, OpOK(o), op' = [op EXCEPT ![t] = o]
  PROVE  op' \in [Thread -> OpType] /\ \A u \in Thread : OpOK(op'[u])
BY DEF TypeInv, OpOK

\* Every request starts at the step that its kind starts with.
LEMMA RequestTyped ==
  ASSUME TypeInv, NEW t \in Thread, NEW client \in Client,
         NEW kind \in {"pair", "unpair", "settings", "profiles"},
         Request(t, kind, client)
  PROVE  TypeInv'
<1>1. PICK o : o = [kind |-> kind, client |-> client,
                    at |-> IF kind = "profiles" THEN "load" ELSE "memory"]
  OBVIOUS
<1>2. OpOK(o) /\ op' = [op EXCEPT ![t] = o] /\ UNCHANGED <<memory, file, tmp, tml, unsaved>>
  BY <1>1 DEF Request, OpOK, OpType, Kind, Step
<1>3. op' \in [Thread -> OpType] /\ \A u \in Thread : OpOK(op'[u])
  BY <1>2, OpTyped
<1>4. QED
  BY <1>2, <1>3 DEF TypeInv, OpOK

\* The requests of any thread.
LEMMA RequestsTyped ==
  ASSUME TypeInv, NEW t \in Thread,
         \/ UpdateProfiles(t)
         \/ \E c \in Cert : \/ Pair(t, c) \/ Unpair(t, c)
                            \/ \E new \in Setting : UpdateSettings(t, c, new)
  PROVE  TypeInv'
<1>1. NoClient \in Client
  BY ClientStoreAssumption DEF NoClient, Client
<1>2. \A c \in Cert, new \in Setting : [cert |-> c, settings |-> new] \in Client
  BY DEF Client
<1>3. Default \in Setting
  BY ClientStoreAssumption
<1>4. QED
  BY <1>1, <1>2, <1>3, RequestTyped DEF UpdateProfiles, Pair, Unpair, UpdateSettings

\* The steps of a request and of the save that ends it.
LEMMA SavingTyped ==
  ASSUME TypeInv, NEW t \in Thread, UpdateMemory(t) \/ LoadFile(t) \/ SaveStep(t)
  PROVE  TypeInv'
<1>1. /\ memory \in Clients /\ file \in File /\ tmp \in File
      /\ op \in [Thread -> OpType] /\ \A u \in Thread : OpOK(op[u])
      /\ tml \in [Thread -> Clients] /\ unsaved \in BOOLEAN
  BY DEF TypeInv
<1>2. op[t].at # "done" => op[t].kind # "idle"
  BY <1>1 DEF OpOK
<1>3. op[t].client \in Client /\ op[t].kind \in Kind
  BY <1>1 DEF OpType
<1>4. Torn \in File /\ NoFile \in File /\ \A list \in Clients : Whole(list) \in File
  BY DEF Torn, NoFile, Whole, File, Clients
<1>5. \A old \in File : Written(t, old) \subseteq File
  BY <1>1, <1>4 DEF Written
<1>6. \/ Goto(t, "load") /\ op[t].kind # "idle"
      \/ Goto(t, "write") /\ op[t].kind # "idle"
      \/ Goto(t, "flush") /\ op[t].kind # "idle"
      \/ Goto(t, "rename") /\ op[t].kind # "idle"
      => op' \in [Thread -> OpType] /\ \A u \in Thread : OpOK(op'[u])
  BY GotoTyped DEF Step
<1>7. op' = [op EXCEPT ![t] = Idle]
        => op' \in [Thread -> OpType] /\ \A u \in Thread : OpOK(op'[u])
  BY IdleOK, OpTyped
<1>8. CASE UpdateMemory(t)
  <2>1. op[t].kind \in {"pair", "unpair", "settings"}
    BY <1>1, <1>8 DEF UpdateMemory, OpOK
  <2>2. memory' \in Clients
    BY <1>3, <1>8, <2>1, ListsTyped DEF UpdateMemory
  <2>3. op' \in [Thread -> OpType] /\ \A u \in Thread : OpOK(op'[u])
    BY <1>2, <1>6, <1>8 DEF UpdateMemory
  <2>4. QED
    BY <1>1, <1>8, <2>2, <2>3 DEF TypeInv, UpdateMemory, OpOK
<1>9. CASE LoadFile(t)
  <2>1. op[t].kind \in {"pair", "unpair", "settings", "profiles"}
    BY <1>2, <1>3, <1>9 DEF LoadFile, Kind
  <2>2. InFile(op[t].kind, op[t].client) \in Clients
    BY <1>3, <2>1, ListsTyped
  <2>3. op' \in [Thread -> OpType] /\ \A u \in Thread : OpOK(op'[u])
    BY <1>2, <1>6, <1>7, <1>9 DEF LoadFile
  <2>4. tml' \in [Thread -> Clients] /\ unsaved' \in BOOLEAN
    BY <1>1, <1>9, <2>2 DEF LoadFile
  <2>5. QED
    BY <1>1, <1>9, <2>3, <2>4 DEF TypeInv, LoadFile, OpOK
<1>10. CASE OpenTemp(t)
  <2>1. op' \in [Thread -> OpType] /\ \A u \in Thread : OpOK(op'[u])
    BY <1>2, <1>6, <1>10 DEF OpenTemp
  <2>2. QED
    BY <1>1, <1>4, <1>10, <2>1 DEF TypeInv, OpenTemp, OpOK
<1>11. CASE WriteTemp(t)
  <2>1. op' \in [Thread -> OpType] /\ \A u \in Thread : OpOK(op'[u])
    BY <1>2, <1>6, <1>11 DEF WriteTemp
  <2>2. tmp' \in File /\ file' \in File
    BY <1>1, <1>5, <1>11 DEF WriteTemp
  <2>3. QED
    BY <1>1, <1>11, <2>1, <2>2 DEF TypeInv, WriteTemp, OpOK
<1>12. ASSUME Finish(t)
       PROVE  /\ op' \in [Thread -> OpType] /\ \A u \in Thread : OpOK(op'[u])
              /\ tml' \in [Thread -> Clients]
  BY <1>1, <1>7, <1>12 DEF Finish, Clients
<1>13. CASE RenameTemp(t)
  <2>1. CASE Finish(t) /\ unsaved' = TRUE /\ UNCHANGED <<file, tmp>>
    BY <1>1, <1>12, <1>13, <2>1 DEF TypeInv, RenameTemp, OpOK
  <2>2. CASE /\ file' = tmp /\ tmp' = NoFile /\ UNCHANGED unsaved
             /\ op' = [u \in Thread |-> IF u = t THEN Idle ELSE [op[u] EXCEPT !.at = Moved(@)]]
             /\ tml' = [tml EXCEPT ![t] = <<>>]
    <3>1. \A u \in Thread : op'[u] = IF u = t THEN Idle ELSE [op[u] EXCEPT !.at = Moved(op[u].at)]
      BY <2>2
    <3>2. ASSUME NEW o, OpOK(o) PROVE OpOK([o EXCEPT !.at = Moved(o.at)])
      BY <3>2 DEF OpOK, OpType, Moved, Step
    <3>3. \A u \in Thread : OpOK(op'[u])
      BY <1>1, <3>1, <3>2, IdleOK
    <3>4. op' \in [Thread -> OpType]
      BY <2>2, <3>3 DEF OpOK
    <3>5. tml' \in [Thread -> Clients]
      BY <1>1, <2>2 DEF Clients
    <3>6. QED
      BY <1>1, <1>4, <1>13, <2>2, <3>3, <3>4, <3>5 DEF TypeInv, RenameTemp, OpOK
  <2>3. QED
    BY <1>13, <2>1, <2>2 DEF RenameTemp
<1>14. CASE SaveFails(t)
  BY <1>1, <1>12, <1>14 DEF TypeInv, SaveFails, OpOK
<1>15. QED
  BY <1>8, <1>9, <1>10, <1>11, <1>13, <1>14 DEF SaveStep

\* The process may be killed at any point.
LEMMA RestartTyped ==
  ASSUME TypeInv, Restart
  PROVE  TypeInv'
<1>1. file \in File /\ tmp \in File
  BY DEF TypeInv
<1>2. memory' \in Clients
  BY <1>1 DEF Restart, File
<1>3. op' \in [Thread -> OpType] /\ \A u \in Thread : OpOK(op'[u])
  BY IdleOK DEF Restart, OpOK
<1>4. tml' \in [Thread -> Clients]
  BY DEF Restart, Clients
<1>5. QED
  BY <1>1, <1>2, <1>3, <1>4 DEF TypeInv, Restart, OpOK

\* Every step of any thread keeps the types.
LEMMA StepTyped ==
  ASSUME TypeInv, [Next]_vars
  PROVE  TypeInv'
<1>1. CASE UNCHANGED vars
  BY <1>1 DEF vars, TypeInv
<1>2. QED
  BY <1>1, RequestsTyped, SavingTyped, RestartTyped DEF Next

\* The process starts with no client and every thread idle.
LEMMA InitTyped == Init => TypeInv
<1> SUFFICES ASSUME Init PROVE TypeInv
  OBVIOUS
<1>1. op \in [Thread -> OpType] /\ \A u \in Thread : OpOK(op[u])
  BY IdleOK DEF Init, OpOK
<1>2. tml \in [Thread -> Clients] /\ memory \in Clients
  BY DEF Init, Clients
<1>3. file \in File /\ tmp \in File
  BY DEF Init, File, Whole, NoFile, Clients
<1>4. QED
  BY <1>1, <1>2, <1>3 DEF TypeInv, Init

\* Lists, files and operations stay in their types however many threads save: the
\* list of an idle thread is never written, and update_profiles() never touches
\* the clients in memory.
THEOREM TypeCorrect == Spec => []TypeOK
<1>1. TypeInv /\ [Next]_vars => TypeInv'
  BY StepTyped
<1>2. TypeInv => TypeOK
  BY DEF TypeInv, TypeOK, OpOK, OpType, Kind
<1>3. QED
  BY InitTyped, <1>1, <1>2, PTL DEF Spec

-----------------------------------------------------------------------------
(* The save, while one thread saves. *)

OneThread == \A t, u \in Thread : t = u

\* The file is whole, the temporary file is empty while a thread has it open,
\* and whole when a thread is about to rename it.
SaveInv ==
  /\ op \in [Thread -> OpType]
  /\ FileLoads
  /\ \A t \in Thread : op[t].at \notin {"flush_moved", "flush_lost"}
  /\ \A t \in Thread : op[t].at = "flush" => tmp = Torn
  /\ \A t \in Thread : op[t].at = "rename" => tmp.state = "whole"

\* Every request starts at a step that is not the rename.
LEMMA RequestStep ==
  ASSUME SaveInv, NEW t \in Thread, NEW client \in Client,
         NEW kind \in {"pair", "unpair", "settings", "profiles"},
         Request(t, kind, client)
  PROVE  SaveInv'
<1>1. PICK at \in {"load", "memory"} :
        op' = [op EXCEPT ![t] = [kind |-> kind, client |-> client, at |-> at]]
  BY DEF Request
<1>2. UNCHANGED <<file, tmp>>
  BY DEF Request
<1>3. QED
  BY <1>1, <1>2 DEF SaveInv, OpType, Kind, Step, FileLoads

\* With a single thread that saves, every step keeps SaveInv.
LEMMA SaveStepInv ==
  ASSUME OneThread, SaveInv, [Next]_vars
  PROVE  SaveInv'
<1> USE DEF SaveInv, FileLoads, OneThread
<1>1. ASSUME NEW t \in Thread, NEW c \in Cert, Pair(t, c) PROVE SaveInv'
  <2>1. [cert |-> c, settings |-> Default] \in Client
    BY ClientStoreAssumption DEF Client
  <2>2. QED
    BY <1>1, <2>1, RequestStep DEF Pair
<1>2. ASSUME NEW t \in Thread, NEW c \in Cert, Unpair(t, c) PROVE SaveInv'
  <2>1. [cert |-> c, settings |-> Default] \in Client
    BY ClientStoreAssumption DEF Client
  <2>2. QED
    BY <1>2, <2>1, RequestStep DEF Unpair
<1>3. ASSUME NEW t \in Thread, NEW c \in Cert, NEW new \in Setting, UpdateSettings(t, c, new)
      PROVE SaveInv'
  <2>1. [cert |-> c, settings |-> new] \in Client
    BY DEF Client
  <2>2. QED
    BY <1>3, <2>1, RequestStep DEF UpdateSettings
<1>4. ASSUME NEW t \in Thread, UpdateProfiles(t) PROVE SaveInv'
  <2>1. NoClient \in Client
    BY ClientStoreAssumption DEF NoClient, Client
  <2>2. QED
    BY <1>4, <2>1, RequestStep DEF UpdateProfiles
<1>5. ASSUME NEW t \in Thread, UpdateMemory(t) PROVE SaveInv'
  <2>1. op' = [op EXCEPT ![t].at = "load"] /\ UNCHANGED <<file, tmp>>
    BY <1>5 DEF UpdateMemory, Goto
  <2>2. QED
    BY <2>1 DEF OpType, Kind, Step
<1>6. ASSUME NEW t \in Thread, LoadFile(t) PROVE SaveInv'
  <2>1. op' = [op EXCEPT ![t].at = "write"] /\ UNCHANGED <<file, tmp>>
    BY <1>6 DEF LoadFile, Goto
  <2>2. QED
    BY <2>1 DEF OpType, Kind, Step
<1>7. ASSUME NEW t \in Thread, OpenTemp(t) PROVE SaveInv'
  <2>1. op' = [op EXCEPT ![t].at = "flush"] /\ tmp' = Torn /\ UNCHANGED file
    BY <1>7 DEF OpenTemp, Goto
  <2>2. QED
    BY <2>1 DEF OpType, Kind, Step
<1>8. ASSUME NEW t \in Thread, WriteTemp(t) PROVE SaveInv'
  <2>1. op[t].at = "flush"
    BY <1>8 DEF WriteTemp
  <2>2. op' = [op EXCEPT ![t].at = "rename"] /\ UNCHANGED file
    BY <1>8, <2>1 DEF WriteTemp, Goto
  <2>3. tmp' = Whole(tml[t])
    <3>1. tmp.state = "torn"
      <4>1. Torn.state = "torn"
        BY DEF Torn
      <4>2. QED
        BY <2>1, <4>1
    <3>2. Written(t, tmp) = {Whole(tml[t])}
      BY <3>1 DEF Written
    <3>3. QED
      BY <1>8, <2>1, <3>2 DEF WriteTemp
  <2>4. QED
    BY <2>2, <2>3 DEF OpType, Kind, Step, Whole
<1>9. ASSUME NEW t \in Thread, RenameTemp(t) PROVE SaveInv'
  <2>1. op' = [u \in Thread |-> Idle]
    BY <1>9 DEF RenameTemp, Finish
  <2>2. file'.state = "whole"
    BY <1>9 DEF RenameTemp
  <2>3. QED
    BY <2>1, <2>2, IdleOK DEF OpOK
<1>10. ASSUME NEW t \in Thread, SaveFails(t) PROVE SaveInv'
  <2>1. op' = [op EXCEPT ![t] = Idle] /\ UNCHANGED <<file, tmp>>
    BY <1>10 DEF SaveFails, Finish
  <2>2. QED
    BY <2>1, IdleOK DEF OpOK
<1>11. CASE Restart
  <2>1. op' = [t \in Thread |-> Idle] /\ UNCHANGED <<file, tmp>>
    BY <1>11 DEF Restart
  <2>2. QED
    BY <2>1, IdleOK DEF OpOK
<1>12. CASE UNCHANGED vars
  BY <1>12 DEF vars
<1>13. QED
  BY <1>1, <1>2, <1>3, <1>4, <1>5, <1>6, <1>7, <1>8, <1>9, <1>10, <1>11, <1>12
     DEF Next, SaveStep

\* The process starts from a whole file.
LEMMA InitSaves == Init => SaveInv
<1>1. Idle \in OpType /\ Idle.at = "done"
  BY IdleOK DEF OpOK
<1>2. ASSUME Init PROVE op \in [Thread -> OpType] /\ \A t \in Thread : op[t].at = "done"
  BY <1>1, <1>2 DEF Init
<1>3. Init => file.state = "whole"
  BY DEF Init, Whole
<1>4. QED
  BY <1>2, <1>3 DEF SaveInv, FileLoads

\* Whenever the process stops, config.toml can be loaded, as long as a single
\* thread saves: the temporary file that is renamed is always complete.
THEOREM FileAlwaysLoads ==
  ASSUME OneThread
  PROVE  Spec => []FileLoads
<1>1. SaveInv /\ [Next]_vars => SaveInv'
  BY SaveStepInv
<1>2. SaveInv => FileLoads
  BY DEF SaveInv
<1>3. QED
  BY InitSaves, <1>1, <1>2, PTL DEF Spec

-----------------------------------------------------------------------------
(* The two lists, while one thread changes them. *)

\* List f knows the certificates of list m, and what it has once is what m has.
Agree(m, f) ==
  /\ Certs(f) = Certs(m)
  /\ \A c : Once(f, c) => Entries(m, c) = Entries(f, c)

\* What the thread has changed in memory and not yet put in the file: the list it
\* is about to read and change, the one it writes, the one it renames.
Phase(t) ==
  /\ op[t].at \in {"done", "memory"} => Agree(memory, file.clients)
  /\ op[t].at = "load" => Agree(memory, InFile(op[t].kind, op[t].client))
  /\ op[t].at \in {"write", "flush", "rename"} => Agree(memory, tml[t])
  /\ op[t].at = "rename" => tmp = Whole(tml[t])

AgreeInv == ~unsaved => \A t \in Thread : Phase(t)

\* The certificates of a list are those of its entries.
LEMMA CertsIs ==
  ASSUME NEW list
  PROVE  \A c : c \in Certs(list) <=> Entries(list, c) # {}
BY DEF Certs, Entries, In

\* A list that is filtered for one certificate.
LEMMA WithoutDoes ==
  ASSUME NEW list \in Clients, NEW c
  PROVE  /\ Without(list, c) \in Clients
         /\ \A d : Entries(Without(list, c), d) = IF d = c THEN {} ELSE Entries(list, d)
         /\ \A d : Once(Without(list, c), d) <=> d = c \/ Once(list, d)
<1>1. PICK rest : rest = Without(list, c)
  OBVIOUS
<1>2. /\ rest \in Clients /\ In(rest) = {client \in In(list) : client.cert # c}
      /\ \A d : d # c => (Once(rest, d) <=> Once(list, d))
  BY <1>1, WithoutIs
<1>3. \A d : Entries(rest, d) = IF d = c THEN {} ELSE Entries(list, d)
  BY <1>2 DEF Entries
<1>4. Once(rest, c)
  <2>1. \A i \in DOMAIN rest : rest[i] \in In(rest)
    BY DEF In
  <2>2. Matching(rest, c) = {}
    BY <1>2, <2>1 DEF Matching
  <2>3. QED
    BY <2>2 DEF Once
<1>5. QED
  BY <1>1, <1>2, <1>3, <1>4

\* Lists that agree do so after each of the changes, in memory and in the file.
LEMMA AgreeAfter ==
  ASSUME NEW m \in Clients, NEW f \in Clients, Agree(m, f), NEW new \in Client
  PROVE  /\ Agree(Append(Without(m, new.cert), new), Append(f, new))
         /\ Agree(Without(m, new.cert), Without(f, new.cert))
         /\ Agree(Replaced(m, new), Replaced(f, new))
<1> DEFINE c == new.cert
<1>1. \A d : (d \in Certs(m) <=> Entries(m, d) # {}) /\ (d \in Certs(f) <=> Entries(f, d) # {})
  BY CertsIs
<1>2. /\ \A d : d \in Certs(m) <=> d \in Certs(f)
      /\ \A d : Once(f, d) => Entries(m, d) = Entries(f, d)
  BY DEF Agree
<1>3. ASSUME NEW a, NEW b, \A d : Entries(a, d) # {} <=> Entries(b, d) # {},
             \A d : Once(b, d) => Entries(a, d) = Entries(b, d)
      PROVE  Agree(a, b)
  <2>1. \A d : d \in Certs(a) <=> d \in Certs(b)
    BY <1>3, CertsIs
  <2>2. Certs(a) = Certs(b)
    BY <2>1 DEF Certs
  <2>3. QED
    BY <1>3, <2>2 DEF Agree
<1>4. ASSUME NEW list \in Clients
      PROVE  /\ \A d : Entries(Append(list, new), d)
                         = IF d = c THEN Entries(list, d) \cup {new} ELSE Entries(list, d)
             /\ \A d : Once(Append(list, new), d)
                         <=> Once(list, d) /\ (d = c => Entries(list, d) = {})
  BY AppendIs, CertsIs DEF Entries
<1>5. Agree(Append(Without(m, c), new), Append(f, new))
  <2>1. PICK a, b, w : a = Append(w, new) /\ b = Append(f, new) /\ w = Without(m, c)
    OBVIOUS
  <2>2. w \in Clients /\ \A d : Entries(w, d) = IF d = c THEN {} ELSE Entries(m, d)
    BY <2>1, WithoutDoes
  <2>3. \A d : Entries(a, d) = IF d = c THEN {new} ELSE Entries(m, d)
    <3>1. \A d : Entries(a, d) = IF d = c THEN Entries(w, d) \cup {new} ELSE Entries(w, d)
      BY <1>4, <2>1, <2>2
    <3>2. QED
      BY <2>2, <3>1
  <2>4. /\ \A d : Entries(b, d) = IF d = c THEN Entries(f, d) \cup {new} ELSE Entries(f, d)
        /\ \A d : Once(b, d) <=> Once(f, d) /\ (d = c => Entries(f, d) = {})
    BY <1>4, <2>1
  <2>5. Agree(a, b)
    BY <1>1, <1>2, <1>3, <2>3, <2>4
  <2>6. QED
    BY <2>1, <2>5
<1>6. Agree(Without(m, c), Without(f, c))
  <2>1. PICK a, b : a = Without(m, c) /\ b = Without(f, c)
    OBVIOUS
  <2>2. /\ \A d : Entries(a, d) = IF d = c THEN {} ELSE Entries(m, d)
        /\ \A d : Entries(b, d) = IF d = c THEN {} ELSE Entries(f, d)
        /\ \A d : Once(b, d) <=> d = c \/ Once(f, d)
    BY <2>1, WithoutDoes
  <2>3. \A d : Entries(a, d) # {} <=> Entries(b, d) # {}
    BY <1>1, <1>2, <2>2
  <2>4. ASSUME NEW d, Once(b, d) PROVE Entries(a, d) = Entries(b, d)
    <3>1. CASE d = c
      BY <2>2, <3>1
    <3>2. CASE d # c
      BY <1>2, <2>2, <2>4, <3>2
    <3>3. QED
      BY <3>1, <3>2
  <2>5. Agree(a, b)
    BY <1>3, <2>3, <2>4
  <2>6. QED
    BY <2>1, <2>5
<1>7. Agree(Replaced(m, new), Replaced(f, new))
  <2>1. PICK a, b : a = Replaced(m, new) /\ b = Replaced(f, new)
    OBVIOUS
  <2>2. /\ \A d : Entries(a, d) = IF d = c /\ d \in Certs(m) THEN {new} ELSE Entries(m, d)
        /\ \A d : Entries(b, d) = IF d = c /\ d \in Certs(f) THEN {new} ELSE Entries(f, d)
        /\ \A d : Once(b, d) <=> Once(f, d)
    BY <2>1, ReplacedIs
  <2>3. Agree(a, b)
    BY <1>1, <1>2, <1>3, <2>2
  <2>4. QED
    BY <2>1, <2>3
<1>8. QED
  BY <1>5, <1>6, <1>7

\* With one thread, its own request decides.
LEMMA AgreeBy ==
  ASSUME OneThread, NEW t \in Thread, unsaved' \/ Phase(t)', unsaved' \in BOOLEAN
  PROVE  AgreeInv'
BY DEF AgreeInv, OneThread

\* A request starts from lists that agree.
LEMMA RequestAgree ==
  ASSUME OneThread, TypeInv, AgreeInv, NEW t \in Thread, NEW client \in Client,
         NEW kind \in {"pair", "unpair", "settings", "profiles"},
         Request(t, kind, client)
  PROVE  AgreeInv'
<1>1. op[t].at = "done" /\ UNCHANGED <<memory, file, unsaved>>
  BY IdleOK DEF Request
<1>2. PICK o : /\ op' = [op EXCEPT ![t] = o]
               /\ o = [kind |-> kind, client |-> client,
                       at |-> IF kind = "profiles" THEN "load" ELSE "memory"]
  BY DEF Request
<1>3. op'[t] = o /\ o.kind = kind /\ o.at = IF kind = "profiles" THEN "load" ELSE "memory"
  BY <1>2 DEF TypeInv
<1>4. ~unsaved => Agree(memory, file.clients)
  BY <1>1 DEF AgreeInv, Phase
<1>5. kind = "profiles" => InFile(kind, o.client)' = file.clients
  BY <1>1 DEF InFile
<1>6. ~unsaved => Phase(t)'
  BY <1>1, <1>3, <1>4, <1>5 DEF Phase
<1>7. QED
  BY <1>1, <1>6, AgreeBy DEF TypeInv

\* A request that has changed the list in memory is about to make the same change
\* of the list in the file.
LEMMA MemoryAgree ==
  ASSUME OneThread, TypeInv, AgreeInv, NEW t \in Thread, UpdateMemory(t)
  PROVE  AgreeInv'
<1>1. PICK kind, client : kind = op[t].kind /\ client = op[t].client
  OBVIOUS
<1>2. kind \in {"pair", "unpair", "settings"} /\ client \in Client
  BY <1>1 DEF UpdateMemory, TypeInv, OpOK, OpType
<1>3. op'[t].at = "load" /\ op'[t].kind = kind /\ op'[t].client = client
  BY <1>1 DEF UpdateMemory, Goto, TypeInv, OpType
<1>4. memory' = InMemory(kind, client) /\ UNCHANGED <<file, unsaved>>
  BY <1>1 DEF UpdateMemory
<1>5. ~unsaved => Agree(memory, file.clients)
  BY DEF AgreeInv, Phase, UpdateMemory
<1>6. memory \in Clients /\ file.clients \in Clients
  BY DEF TypeInv, File
<1>7. ~unsaved => Agree(InMemory(kind, client), InFile(kind, client))
  BY <1>2, <1>5, <1>6, AgreeAfter DEF InMemory, InFile
<1>8. InFile(kind, client)' = InFile(kind, client)
  BY <1>4 DEF InFile
<1>9. ~unsaved => Phase(t)'
  BY <1>3, <1>4, <1>7, <1>8 DEF Phase
<1>10. QED
  BY <1>4, <1>9, AgreeBy DEF TypeInv

\* What is written and renamed is what was read and changed.
LEMMA SavingAgree ==
  ASSUME OneThread, TypeInv, SaveInv, AgreeInv, NEW t \in Thread,
         LoadFile(t) \/ SaveStep(t)
  PROVE  AgreeInv'
<1>1. ASSUME NEW at, Goto(t, at) PROVE op'[t].at = at
  BY <1>1 DEF Goto, TypeInv, OpType
<1>2. ~unsaved => Phase(t)
  BY DEF AgreeInv
<1>3. CASE LoadFile(t)
  <2>1. op[t].at = "load" /\ file.state = "whole"
    BY <1>3 DEF LoadFile, SaveInv, FileLoads
  <2>2. PICK list : list = InFile(op[t].kind, op[t].client)
    OBVIOUS
  <2>3. tml' = [tml EXCEPT ![t] = list] /\ Goto(t, "write") /\ UNCHANGED <<memory, unsaved>>
    BY <1>3, <2>1, <2>2 DEF LoadFile
  <2>4. op'[t].at = "write" /\ tml'[t] = list
    BY <1>1, <2>3 DEF TypeInv
  <2>5. ~unsaved => Phase(t)'
    BY <1>2, <2>1, <2>2, <2>3, <2>4 DEF Phase
  <2>6. QED
    BY <2>3, <2>5, AgreeBy DEF TypeInv
<1>4. CASE OpenTemp(t)
  <2>1. op[t].at = "write" /\ op'[t].at = "flush" /\ UNCHANGED <<memory, tml, unsaved>>
    BY <1>1, <1>4 DEF OpenTemp
  <2>2. ~unsaved => Phase(t)'
    BY <1>2, <2>1 DEF Phase
  <2>3. QED
    BY <2>1, <2>2, AgreeBy DEF TypeInv
<1>5. CASE WriteTemp(t)
  <2>1. op[t].at = "flush" /\ op'[t].at = "rename" /\ UNCHANGED <<memory, tml, unsaved>>
    BY <1>1, <1>5 DEF WriteTemp, SaveInv
  <2>2. tmp = Torn /\ tmp' \in Written(t, tmp)
    BY <1>5, <2>1 DEF WriteTemp, SaveInv
  <2>3. tmp' = Whole(tml[t])
    BY <2>2 DEF Written, Torn
  <2>4. ~unsaved => Phase(t)'
    BY <1>2, <2>1, <2>3 DEF Phase, Whole
  <2>5. QED
    BY <2>1, <2>4, AgreeBy DEF TypeInv
<1>6. CASE RenameTemp(t)
  <2>1. op[t].at = "rename" /\ tmp.state = "whole"
    BY <1>6 DEF RenameTemp, SaveInv
  <2>2. file' = tmp /\ UNCHANGED <<memory, unsaved>> /\ op'[t] = Idle
    BY <1>6, <2>1 DEF RenameTemp
  <2>3. ~unsaved => Agree(memory, file'.clients)
    BY <1>2, <2>1, <2>2 DEF Phase, Whole
  <2>4. ~unsaved => Phase(t)'
    BY <2>2, <2>3, IdleOK DEF Phase
  <2>5. QED
    BY <2>2, <2>4, AgreeBy DEF TypeInv
<1>7. CASE SaveFails(t)
  BY <1>7, AgreeBy DEF SaveFails
<1>8. QED
  BY <1>3, <1>4, <1>5, <1>6, <1>7 DEF SaveStep

\* The process starts again from the file.
LEMMA RestartAgree ==
  ASSUME TypeInv, Restart
  PROVE  AgreeInv'
<1>1. \A t \in Thread : op'[t].at = "done"
  BY IdleOK DEF Restart
<1>2. memory' = file'.clients
  BY DEF Restart
<1>3. Agree(memory', file'.clients)
  BY <1>2 DEF Agree
<1>4. QED
  BY <1>1, <1>3 DEF AgreeInv, Phase

\* Every step of the single thread, and a restart, keep the agreement.
LEMMA AgreeStep ==
  ASSUME OneThread, TypeInv, SaveInv, AgreeInv, [Next]_vars
  PROVE  AgreeInv'
<1>1. NoClient \in Client /\ Default \in Setting
  BY ClientStoreAssumption DEF NoClient, Client
<1>2. \A c \in Cert, new \in Setting : [cert |-> c, settings |-> new] \in Client
  BY DEF Client
<1>3. ASSUME NEW t \in Thread,
             \/ UpdateProfiles(t)
             \/ \E c \in Cert : \/ Pair(t, c) \/ Unpair(t, c)
                                \/ \E new \in Setting : UpdateSettings(t, c, new)
      PROVE  AgreeInv'
  BY <1>1, <1>2, <1>3, RequestAgree DEF UpdateProfiles, Pair, Unpair, UpdateSettings
<1>4. CASE UNCHANGED vars
  <2>1. \A kind, client : InFile(kind, client)' = InFile(kind, client)
    BY <1>4 DEF vars, InFile
  <2>2. QED
    BY <1>4, <2>1 DEF vars, AgreeInv, Phase
<1>5. QED
  BY <1>3, <1>4, MemoryAgree, SavingAgree, RestartAgree DEF Next

\* Lists that agree find the same client for a certificate.
LEMMA AgreeFinds ==
  ASSUME NEW m \in Clients, NEW f \in Clients, Agree(m, f), NEW c \in Certs(m), Once(f, c)
  PROVE  Lookup(f, c) = Lookup(m, c)
<1>1. c \in Certs(f) /\ Entries(m, c) = Entries(f, c)
  BY DEF Agree
<1>2. Lookup(m, c) \in Entries(f, c) /\ Lookup(f, c) \in Entries(f, c)
  BY <1>1, LookupIs
<1>3. \A x, y \in Entries(f, c) : x = y
  BY DEF Entries, In, Once, Matching
<1>4. QED
  BY <1>2, <1>3

\* While a single thread changes the clients, the process that is started after the
\* last save knows the clients it knew before, each with its settings unless the
\* file has two entries of it: "persist the new state to disk".
THEOREM RestartKnowsClients ==
  ASSUME OneThread, Thread # {}
  PROVE  Spec => []SameClientsAfterRestart
<1>1. Init => TypeInv /\ SaveInv /\ AgreeInv
  <2>1. ASSUME Init PROVE AgreeInv
    <3>1. \A t \in Thread : op[t].at = "done"
      BY <2>1, IdleOK DEF Init
    <3>2. Agree(memory, file.clients)
      BY <2>1 DEF Init, Agree, Whole
    <3>3. QED
      BY <3>1, <3>2 DEF AgreeInv, Phase
  <2>2. QED
    BY <2>1, InitTyped, InitSaves
<1>2. TypeInv /\ SaveInv /\ AgreeInv /\ [Next]_vars => (TypeInv /\ SaveInv /\ AgreeInv)'
  BY StepTyped, SaveStepInv, AgreeStep
<1>3. TypeInv /\ AgreeInv => SameClientsAfterRestart
  <2> SUFFICES ASSUME TypeInv, AgreeInv, AllIdle, ~unsaved
               PROVE  /\ Certs(file.clients) = Certs(memory)
                      /\ \A c \in Certs(memory) :
                           ~PairedAgain(c) => Lookup(file.clients, c) = Lookup(memory, c)
    BY DEF SameClientsAfterRestart
  <2>1. Agree(memory, file.clients)
    BY IdleOK DEF AgreeInv, Phase, AllIdle
  <2>2. memory \in Clients /\ file.clients \in Clients
    BY DEF TypeInv, File
  <2>3. \A c : ~PairedAgain(c) => Once(file.clients, c)
    BY DEF PairedAgain, Once
  <2>4. QED
    BY <2>1, <2>2, <2>3, AgreeFinds DEF Agree
<1>4. QED
  BY <1>1, <1>2, <1>3, PTL DEF Spec

-----------------------------------------------------------------------------
(* With one thread the store implements ClientRegistry. *)

\* A client that is being unpaired is known, and what a thread writes and renames
\* is the file's list with its own change.
Saves(t) ==
  /\ op[t].at = "memory" /\ op[t].kind = "unpair" => op[t].client.cert \in Certs(memory)
  /\ op[t].at \in {"write", "flush", "rename"} => tml[t] = InFile(op[t].kind, op[t].client)
  /\ op[t].at = "rename" => tmp = Whole(tml[t])

ChangeInv == \A t \in Thread : Saves(t)

\* The change that a thread has made in memory and not yet put in the file.
UnstoredBy(t) ==
  IF op[t].kind \in {"pair", "unpair"} /\ op[t].at \notin {"done", "memory"}
  THEN {[kind |-> op[t].kind, cert |-> op[t].client.cert]}
  ELSE {}

\* With one thread there is at most one such change.
LEMMA OneUnstored ==
  ASSUME OneThread, NEW t \in Thread
  PROVE  Unstored = UnstoredBy(t) /\ Unstored' = UnstoredBy(t)'
<1>1. \A u \in Thread : u = t
  BY DEF OneThread
<1>2. Unstored = UnstoredBy(t)
  BY <1>1 DEF Unstored, UnstoredBy
<1>3. Unstored' = UnstoredBy(t)'
  BY <1>1 DEF Unstored, UnstoredBy
<1>4. QED
  BY <1>2, <1>3

\* ... and the thread's own request decides.
LEMMA OneSaves ==
  ASSUME OneThread, NEW t \in Thread, Saves(t)'
  PROVE  ChangeInv'
BY DEF ChangeInv, OneThread

\* The certificates of the lists that requests make.
LEMMA CertsAfter ==
  ASSUME NEW list \in Clients, NEW new \in Client
  PROVE  /\ Certs(Append(list, new)) = Certs(list) \cup {new.cert}
         /\ Certs(Without(list, new.cert)) = Certs(list) \ {new.cert}
         /\ Certs(Append(Without(list, new.cert), new)) = Certs(list) \cup {new.cert}
         /\ Certs(Replaced(list, new)) = Certs(list)
<1>1. \A l : Certs(l) = {client.cert : client \in In(l)}
  BY DEF Certs, In
<1>2. \A l \in Clients : Certs(Append(l, new)) = Certs(l) \cup {new.cert}
  <2> SUFFICES ASSUME NEW l \in Clients PROVE Certs(Append(l, new)) = Certs(l) \cup {new.cert}
    OBVIOUS
  <2>1. In(Append(l, new)) = In(l) \cup {new}
    BY AppendIs
  <2>2. QED
    BY <1>1, <2>1
<1>3. PICK rest \in Clients : /\ rest = Without(list, new.cert)
                              /\ In(rest) = {client \in In(list) : client.cert # new.cert}
  BY WithoutIs
<1>4. Certs(rest) = Certs(list) \ {new.cert}
  BY <1>1, <1>3
<1>5. Certs(Append(rest, new)) = Certs(list) \cup {new.cert}
  BY <1>2, <1>3, <1>4
<1>6. Certs(Replaced(list, new)) = Certs(list)
  BY ReplacedIs
<1>7. QED
  BY <1>2, <1>3, <1>4, <1>5, <1>6

\* A request changes nothing that is seen from outside until it changes the list.
LEMMA RequestSeen ==
  ASSUME OneThread, TypeInv, NEW t \in Thread, NEW client \in Client,
         NEW kind \in {"pair", "unpair", "settings", "profiles"},
         Request(t, kind, client), kind = "unpair" => client.cert \in Certs(memory)
  PROVE  ChangeInv' /\ UNCHANGED Registry!vars
<1>1. op[t].at = "done" /\ UNCHANGED <<memory, file, unsaved>>
  BY IdleOK DEF Request
<1>2. PICK o : /\ op' = [op EXCEPT ![t] = o]
               /\ o = [kind |-> kind, client |-> client,
                       at |-> IF kind = "profiles" THEN "load" ELSE "memory"]
  BY DEF Request
<1>3. /\ op'[t] = o /\ o.kind = kind /\ o.client = client
      /\ o.at = IF kind = "profiles" THEN "load" ELSE "memory"
  BY <1>2 DEF TypeInv
<1>4. Saves(t)'
  <2>1. op'[t].at = "memory" /\ op'[t].kind = "unpair" => op'[t].client.cert \in Certs(memory)
    BY <1>3
  <2>2. Certs(memory)' = Certs(memory)
    BY <1>1 DEF Certs
  <2>3. QED
    BY <1>3, <2>1, <2>2 DEF Saves
<1>5. UnstoredBy(t) = {} /\ UnstoredBy(t)' = {}
  BY <1>1, <1>3 DEF UnstoredBy
<1>6. UNCHANGED Registry!vars
  BY <1>1, <1>5, OneUnstored DEF Registry!vars, Certs
<1>7. QED
  BY <1>4, <1>6, OneSaves

\* The change of the list in memory is the one that is seen.
LEMMA MemorySeen ==
  ASSUME OneThread, TypeInv, ChangeInv, NEW t \in Thread, UpdateMemory(t)
  PROVE  ChangeInv' /\ [Registry!Next]_(Registry!vars)
<1>1. PICK kind, client : kind = op[t].kind /\ client = op[t].client
  OBVIOUS
<1>2. kind \in {"pair", "unpair", "settings"} /\ client \in Client /\ op[t].at = "memory"
  BY <1>1 DEF UpdateMemory, TypeInv, OpOK, OpType
<1>3. op'[t].at = "load" /\ op'[t].kind = kind /\ op'[t].client = client
  BY <1>1 DEF UpdateMemory, Goto, TypeInv, OpType
<1>4. memory' = InMemory(kind, client) /\ UNCHANGED <<file, unsaved>>
  BY <1>1 DEF UpdateMemory
<1>5. memory \in Clients
  BY DEF TypeInv
<1>6. PICK change : change = [kind |-> kind, cert |-> client.cert]
  OBVIOUS
<1>7. Unstored = {}
  <2>1. UnstoredBy(t) = {}
    BY <1>2 DEF UnstoredBy
  <2>2. QED
    BY <2>1, OneUnstored
<1>8. Unstored' = IF kind = "settings" THEN {} ELSE {change}
  <2>1. UnstoredBy(t)' = IF kind = "settings" THEN {} ELSE {change}
    BY <1>2, <1>3, <1>6 DEF UnstoredBy
  <2>2. QED
    BY <2>1, OneUnstored
<1>9. ChangeInv'
  <2>1. Saves(t)'
    BY <1>3 DEF Saves
  <2>2. QED
    BY <2>1, OneSaves
<1>10. CASE kind = "settings"
  <2>1. Certs(memory') = Certs(memory)
    BY <1>2, <1>4, <1>5, <1>10, CertsAfter DEF InMemory
  <2>2. UNCHANGED Registry!vars
    BY <1>4, <1>7, <1>8, <1>10, <2>1 DEF Registry!vars, Certs
  <2>3. QED
    BY <1>9, <2>2
<1>11. CASE kind # "settings"
  <2>1. Certs(memory') = Registry!Changed(Certs(memory), change)
    <3>1. change.kind = kind /\ change.cert = client.cert
      BY <1>6
    <3>2. CASE kind = "pair"
      <4>1. memory' = Append(Without(memory, client.cert), client)
        BY <1>4, <3>2 DEF InMemory
      <4>2. QED
        BY <1>2, <1>5, <3>1, <3>2, <4>1, CertsAfter DEF Registry!Changed
    <3>3. CASE kind = "unpair"
      <4>1. memory' = Without(memory, client.cert)
        BY <1>4, <3>3 DEF InMemory
      <4>2. QED
        BY <1>2, <1>5, <3>1, <3>3, <4>1, CertsAfter DEF Registry!Changed
    <3>4. QED
      BY <1>2, <1>11, <3>2, <3>3
  <2>2. change \in Registry!Change /\ (change.kind = "unpair" => change.cert \in Certs(memory))
    BY <1>1, <1>2, <1>6, <1>11 DEF Registry!Change, Client, ChangeInv, Saves
  <2>3. Registry!Begin(change)
    BY <1>4, <1>7, <1>8, <1>11, <2>1, <2>2 DEF Registry!Begin, Certs
  <2>4. QED
    BY <1>9, <2>2, <2>3 DEF Registry!Next
<1>12. QED
  BY <1>10, <1>11

\* The steps of a save before its rename are not seen.
LEMMA PreparingSeen ==
  ASSUME OneThread, TypeInv, SaveInv, ChangeInv, NEW t \in Thread,
         LoadFile(t) \/ OpenTemp(t) \/ WriteTemp(t)
  PROVE  ChangeInv' /\ UNCHANGED Registry!vars
<1>1. ASSUME NEW at, Goto(t, at)
      PROVE  op'[t].at = at /\ op'[t].kind = op[t].kind /\ op'[t].client = op[t].client
  BY <1>1 DEF Goto, TypeInv, OpType
<1>2. Saves(t)
  BY DEF ChangeInv
<1>3. UNCHANGED <<memory, file, unsaved>> /\ op[t].at \in {"load", "write", "flush"}
  <2>1. CASE LoadFile(t)
    BY <2>1 DEF LoadFile, SaveInv, FileLoads
  <2>2. CASE OpenTemp(t)
    BY <2>2 DEF OpenTemp
  <2>3. CASE WriteTemp(t)
    BY <2>3 DEF WriteTemp, SaveInv
  <2>4. QED
    BY <2>1, <2>2, <2>3
<1>4. PICK at \in {"write", "flush", "rename"} : Goto(t, at)
  BY DEF LoadFile, OpenTemp, WriteTemp, SaveInv, FileLoads
<1>5. op'[t].at = at /\ op'[t].kind = op[t].kind /\ op'[t].client = op[t].client
  BY <1>1, <1>4
<1>6. tml'[t] = InFile(op[t].kind, op[t].client)
  <2>1. CASE LoadFile(t)
    <3>1. PICK list : list = InFile(op[t].kind, op[t].client)
      OBVIOUS
    <3>2. tml' = [tml EXCEPT ![t] = list]
      BY <2>1, <3>1 DEF LoadFile, SaveInv, FileLoads
    <3>3. QED
      BY <3>1, <3>2 DEF TypeInv
  <2>2. CASE OpenTemp(t) \/ WriteTemp(t)
    <3>1. tml' = tml /\ op[t].at \in {"write", "flush"}
      BY <2>2 DEF OpenTemp, WriteTemp, SaveInv
    <3>2. QED
      BY <1>2, <3>1 DEF Saves
  <2>3. QED
    BY <2>1, <2>2
<1>7. at = "rename" => tmp' = Whole(tml'[t])
  <2> SUFFICES ASSUME at = "rename" PROVE tmp' = Whole(tml'[t])
    OBVIOUS
  <2>1. WriteTemp(t)
    <3>1. op'[t].at = "rename"
      BY <1>5
    <3>2. ~Goto(t, "write") /\ ~Goto(t, "flush")
      BY <1>1, <3>1
    <3>3. LoadFile(t) => Goto(t, "write")
      BY DEF LoadFile, SaveInv, FileLoads
    <3>4. OpenTemp(t) => Goto(t, "flush")
      BY DEF OpenTemp
    <3>5. QED
      BY <3>2, <3>3, <3>4
  <2>2. op[t].at = "flush" /\ tml' = tml
    BY <2>1 DEF WriteTemp, SaveInv
  <2>3. tmp = Torn /\ tmp' \in Written(t, tmp)
    BY <2>1, <2>2 DEF WriteTemp, SaveInv
  <2>4. QED
    BY <2>2, <2>3 DEF Written, Torn
<1>8. InFile(op[t].kind, op[t].client) = InFile(op[t].kind, op[t].client)'
  <2>1. PICK kind, client : /\ kind = op[t].kind /\ client = op[t].client
                           /\ kind = op'[t].kind /\ client = op'[t].client
    BY <1>5
  <2>2. InFile(kind, client)' = InFile(kind, client)
    BY <1>3 DEF InFile
  <2>3. QED
    BY <2>1, <2>2
<1>9. Saves(t)'
  BY <1>5, <1>6, <1>7, <1>8 DEF Saves
<1>10. UnstoredBy(t)' = UnstoredBy(t)
  BY <1>3, <1>5 DEF UnstoredBy
<1>11. UNCHANGED Registry!vars
  BY <1>3, <1>10, OneUnstored DEF Registry!vars, Certs
<1>12. QED
  BY <1>9, <1>11, OneSaves

\* The rename stores the change, if it is one of the clients.
LEMMA RenameSeen ==
  ASSUME OneThread, TypeInv, SaveInv, ChangeInv, NEW t \in Thread, RenameTemp(t)
  PROVE  ChangeInv' /\ [Registry!Next]_(Registry!vars)
<1>1. op[t].at = "rename" /\ tmp.state = "whole"
  BY DEF RenameTemp, SaveInv
<1>2. file' = tmp /\ UNCHANGED <<memory, unsaved>> /\ op'[t] = Idle
  BY <1>1 DEF RenameTemp
<1>3. PICK kind, client, list :
        /\ kind = op[t].kind /\ client = op[t].client
        /\ list = InFile(kind, client)
  OBVIOUS
<1>4. kind \in {"pair", "unpair", "settings", "profiles"} /\ client \in Client
      /\ file.clients \in Clients
  BY <1>1, <1>3 DEF TypeInv, OpOK, OpType, Kind, File
<1>5. file'.clients = list
  BY <1>1, <1>2, <1>3 DEF ChangeInv, Saves, Whole
<1>6. op'[t].at = "done"
  BY <1>2, IdleOK
<1>7. ChangeInv'
  <2>1. Saves(t)'
    BY <1>6 DEF Saves
  <2>2. QED
    BY <2>1, OneSaves
<1>8. PICK change : change = [kind |-> kind, cert |-> client.cert]
  OBVIOUS
<1>9. change.kind = kind /\ change.cert = client.cert
  BY <1>8
<1>10. Unstored = IF kind \in {"pair", "unpair"} THEN {change} ELSE {}
  <2>1. UnstoredBy(t) = IF kind \in {"pair", "unpair"} THEN {change} ELSE {}
    BY <1>1, <1>3, <1>8 DEF UnstoredBy
  <2>2. QED
    BY <2>1, OneUnstored
<1>11. Unstored' = {}
  <2>1. UnstoredBy(t)' = {}
    BY <1>6 DEF UnstoredBy
  <2>2. QED
    BY <2>1, OneUnstored
<1>12. CASE kind \in {"settings", "profiles"}
  <2>1. Certs(list) = Certs(file.clients)
    BY <1>3, <1>4, <1>12, CertsAfter DEF InFile
  <2>2. UNCHANGED Registry!vars
    BY <1>2, <1>5, <1>10, <1>11, <1>12, <2>1 DEF Registry!vars, Certs
  <2>3. QED
    BY <1>7, <2>2
<1>13. CASE kind \in {"pair", "unpair"}
  <2>1. Certs(list) = Registry!Changed(Certs(file.clients), change)
    <3>1. CASE kind = "pair"
      <4>1. list = Append(file.clients, client)
        BY <1>3, <3>1 DEF InFile
      <4>2. QED
        BY <1>4, <1>9, <3>1, <4>1, CertsAfter DEF Registry!Changed
    <3>2. CASE kind = "unpair"
      <4>1. list = Without(file.clients, client.cert)
        BY <1>3, <3>2 DEF InFile
      <4>2. QED
        BY <1>4, <1>9, <3>2, <4>1, CertsAfter DEF Registry!Changed
    <3>3. QED
      BY <1>13, <3>1, <3>2
  <2>2. Registry!Store(change)
    BY <1>2, <1>5, <1>10, <1>11, <1>13, <2>1 DEF Registry!Store, Certs
  <2>3. change \in Registry!Change
    BY <1>4, <1>8, <1>13 DEF Registry!Change, Client
  <2>4. QED
    BY <1>7, <2>2, <2>3 DEF Registry!Next
<1>14. QED
  BY <1>4, <1>12, <1>13

\* A save that fails loses its own change only.
LEMMA FailSeen ==
  ASSUME OneThread, TypeInv, NEW t \in Thread, SaveFails(t)
  PROVE  ChangeInv' /\ Registry!Fail
<1>1. op' = [op EXCEPT ![t] = Idle] /\ unsaved' = TRUE /\ UNCHANGED <<memory, file>>
  BY DEF SaveFails, Finish
<1>2. op'[t].at = "done"
  BY <1>1, IdleOK DEF TypeInv
<1>3. Saves(t)' /\ UnstoredBy(t)' = {}
  BY <1>2 DEF Saves, UnstoredBy
<1>4. Registry!Fail
  BY <1>1, <1>3, OneUnstored DEF Registry!Fail, Certs
<1>5. QED
  BY <1>3, <1>4, OneSaves

\* A restart knows what is stored.
LEMMA RestartSeen ==
  ASSUME OneThread, NEW t \in Thread, Restart
  PROVE  ChangeInv' /\ Registry!Restart
<1>1. memory' = file.clients /\ unsaved' = FALSE /\ UNCHANGED file
  BY DEF Restart
<1>2. op'[t].at = "done"
  BY IdleOK DEF Restart
<1>3. Saves(t)' /\ UnstoredBy(t)' = {}
  BY <1>2 DEF Saves, UnstoredBy
<1>4. Registry!Restart
  BY <1>1, <1>3, OneUnstored DEF Registry!Restart, Certs
<1>5. QED
  BY <1>3, <1>4, OneSaves

\* Every step of the single thread, and a restart, is one of ClientRegistry or is
\* not seen there.
LEMMA RegistryStep ==
  ASSUME OneThread, Thread # {}, TypeInv, SaveInv, ChangeInv, [Next]_vars
  PROVE  ChangeInv' /\ [Registry!Next]_(Registry!vars)
<1>1. NoClient \in Client /\ Default \in Setting
  BY ClientStoreAssumption DEF NoClient, Client
<1>2. \A c \in Cert, new \in Setting :
        LET client == [cert |-> c, settings |-> new]
        IN  client \in Client /\ client.cert = c
  BY DEF Client
<1>3. ASSUME NEW t \in Thread, UpdateProfiles(t)
      PROVE  ChangeInv' /\ UNCHANGED Registry!vars
  BY <1>1, <1>3, RequestSeen DEF UpdateProfiles
<1>4. ASSUME NEW t \in Thread, NEW c \in Cert, Pair(t, c)
      PROVE  ChangeInv' /\ UNCHANGED Registry!vars
  BY <1>1, <1>2, <1>4, RequestSeen DEF Pair
<1>5. ASSUME NEW t \in Thread, NEW c \in Cert, Unpair(t, c)
      PROVE  ChangeInv' /\ UNCHANGED Registry!vars
  BY <1>1, <1>2, <1>5, RequestSeen DEF Unpair
<1>6. ASSUME NEW t \in Thread, NEW c \in Cert, NEW new \in Setting, UpdateSettings(t, c, new)
      PROVE  ChangeInv' /\ UNCHANGED Registry!vars
  BY <1>2, <1>6, RequestSeen DEF UpdateSettings
<1>7. ASSUME NEW t \in Thread, SaveFails(t)
      PROVE  ChangeInv' /\ Registry!Next
  BY <1>7, FailSeen DEF Registry!Next
<1>8. ASSUME Restart
      PROVE  ChangeInv' /\ Registry!Next
  BY <1>8, RestartSeen DEF Registry!Next
<1>9. CASE UNCHANGED vars
  <2>1. \A kind, client : InFile(kind, client)' = InFile(kind, client)
    BY <1>9 DEF vars, InFile
  <2>2. ChangeInv'
    BY <1>9, <2>1 DEF vars, ChangeInv, Saves, Certs
  <2>3. UNCHANGED Registry!vars
    BY <1>9 DEF vars, Registry!vars, Certs, Unstored
  <2>4. QED
    BY <2>2, <2>3
<1>10. ASSUME NEW t \in Thread, LoadFile(t) \/ SaveStep(t)
       PROVE  ChangeInv' /\ [Registry!Next]_(Registry!vars)
  BY <1>7, <1>10, PreparingSeen, RenameSeen DEF SaveStep
<1>11. ASSUME Next PROVE ChangeInv' /\ [Registry!Next]_(Registry!vars)
  <2>1. CASE Restart
    BY <1>8, <2>1
  <2>2. CASE \E t \in Thread : UpdateProfiles(t) \/ UpdateMemory(t) \/ LoadFile(t) \/ SaveStep(t)
    BY <1>3, <1>10, <2>2, MemorySeen
  <2>3. CASE \E t \in Thread, c \in Cert :
               \/ Pair(t, c)
               \/ Unpair(t, c)
               \/ \E new \in Setting : UpdateSettings(t, c, new)
    BY <1>4, <1>5, <1>6, <2>3
  <2>4. QED
    BY <1>11, <2>1, <2>2, <2>3 DEF Next
<1>12. QED
  BY <1>9, <1>11

\* Nothing is paired and nothing is being stored at first.
LEMMA RegistryStart == Init => ChangeInv /\ Registry!Init
<1> SUFFICES ASSUME Init PROVE ChangeInv /\ Registry!Init
  OBVIOUS
<1>1. \A t \in Thread : op[t].at = "done"
  BY IdleOK DEF Init
<1>2. ChangeInv
  BY <1>1 DEF ChangeInv, Saves
<1>3. Unstored = {}
  BY <1>1 DEF Unstored
<1>4. Certs(memory) = {} /\ Certs(file.clients) = {} /\ unsaved = FALSE
  BY DEF Init, Certs, Whole
<1>5. Registry!Init
  BY <1>3, <1>4 DEF Registry!Init
<1>6. QED
  BY <1>2, <1>5

\* While a single thread changes the clients, each change of who is let in is stored
\* as a whole by the rename of its own save, or reported as failed, and nothing else
\* changes what a restart would know: pair() and unpair() keep the promise of
\* ClientRegistry, wherever the process is killed.
THEOREM StoreImplementsRegistry ==
  ASSUME OneThread, Thread # {}
  PROVE  Spec => ImplementsRegistry
<1>1. Init => TypeInv /\ SaveInv /\ ChangeInv /\ Registry!Init
  BY InitTyped, InitSaves, RegistryStart
<1>2. TypeInv /\ SaveInv /\ ChangeInv /\ [Next]_vars
        => (TypeInv /\ SaveInv /\ ChangeInv)' /\ [Registry!Next]_(Registry!vars)
  BY StepTyped, SaveStepInv, RegistryStep
<1>3. QED
  BY <1>1, <1>2, PTL DEF Spec, ImplementsRegistry, Registry!Spec

\* What ClientRegistry promises is kept by each of its steps.
LEMMA RegistryKnows ==
  ASSUME Registry!StoredIsKnown, [Registry!Next]_(Registry!vars)
  PROVE  Registry!StoredIsKnown'
<1> DEFINE Known == Certs(memory)
           Stored == Certs(file.clients)
<1>1. ASSUME NEW change \in Registry!Change, Registry!Begin(change)
      PROVE  Registry!StoredIsKnown'
  <2>1. Unstored = {} /\ unsaved' = unsaved /\ Stored' = Stored
    BY <1>1 DEF Registry!Begin
  <2>2. Unstored' = {change} /\ Known' = Registry!Changed(Known, change)
    BY <1>1 DEF Registry!Begin
  <2>3. ~unsaved => Known = Stored
    BY <2>1 DEF Registry!StoredIsKnown
  <2>4. QED
    BY <2>1, <2>2, <2>3 DEF Registry!StoredIsKnown
<1>2. ASSUME NEW change \in Registry!Change, Registry!Store(change)
      PROVE  Registry!StoredIsKnown'
  <2>1. change \in Unstored /\ unsaved' = unsaved /\ Known' = Known
    BY <1>2 DEF Registry!Store
  <2>2. Unstored' = {} /\ Stored' = Registry!Changed(Stored, change)
    BY <1>2 DEF Registry!Store
  <2>3. ~unsaved => Known = Registry!Changed(Stored, change)
    BY <2>1 DEF Registry!StoredIsKnown
  <2>4. QED
    BY <2>1, <2>2, <2>3 DEF Registry!StoredIsKnown
<1>3. CASE Registry!Fail
  BY <1>3 DEF Registry!Fail, Registry!StoredIsKnown
<1>4. CASE Registry!Restart
  BY <1>4 DEF Registry!Restart, Registry!StoredIsKnown
<1>5. CASE UNCHANGED Registry!vars
  BY <1>5 DEF Registry!vars, Registry!StoredIsKnown
<1>6. QED
  BY <1>1, <1>2, <1>3, <1>4, <1>5 DEF Registry!Next

\* At any moment, not only when nothing is being saved, a restart would know the
\* clients that are let in now, but for the one change that is being saved, unless a
\* save has failed: what the abstract promise says of the lists of the program.
THEOREM RestartKnowsAllButOne ==
  ASSUME OneThread, Thread # {}
  PROVE  Spec => []Registry!StoredIsKnown
<1>1. Init => TypeInv /\ SaveInv /\ ChangeInv /\ Registry!StoredIsKnown
  <2>1. Registry!Init => Registry!StoredIsKnown
    BY DEF Registry!Init, Registry!StoredIsKnown
  <2>2. QED
    BY <2>1, InitTyped, InitSaves, RegistryStart
<1>2. TypeInv /\ SaveInv /\ ChangeInv /\ Registry!StoredIsKnown /\ [Next]_vars
        => (TypeInv /\ SaveInv /\ ChangeInv /\ Registry!StoredIsKnown)'
  BY StepTyped, SaveStepInv, RegistryStep, RegistryKnows
<1>3. QED
  BY <1>1, <1>2, PTL DEF Spec
=============================================================================
