---------------------------- MODULE WolfApiProofs ----------------------------
(***************************************************************************)
(* Wolf's API from both of its ends.  First altc's, for any games, tasks   *)
(* and lists of GameLibrary: the types, that a push leaves Wolf with the   *)
(* table's games, and whose shares there are.  Then Wolf's own, for any    *)
(* number of connections and threads of ApiServer: the types of its        *)
(* variables, and one answer for a request.                                *)
(***************************************************************************)
EXTENDS GameLibrary, ApiServer, FiniteSetTheorems, TLAPS

-----------------------------------------------------------------------------
(* Lists, of any length. *)

\* A set of naturals that is not empty has a least member.
LEMMA Least ==
  ASSUME NEW T, T \subseteq Nat, T # {}
  PROVE  \E m \in T : \A n \in T : m <= n
<1> DEFINE Less == {ss \in Nat \X Nat : ss[1] < ss[2]}
<1>0. OpToRel(<, Nat) = Less
  BY Zenon DEF OpToRel
<1>1. IsWellFoundedOn(Less, Nat)
  BY <1>0, NatLessThanWellFounded, Zenon
<1> HIDE DEF Less
<1>2. PICK m \in T : \A n \in T : ~(<<n, m>> \in Less)
  BY <1>1, WFMin
<1>3. ASSUME NEW n \in T, n < m PROVE FALSE
  <2>1. <<n, m>> \in Less
    BY <1>3 DEF Less
  <2>2. QED
    BY <1>2, <2>1
<1>4. QED
  BY <1>3

\* The last of some positions in a list is one of them.
LEMMA MaxIs ==
  ASSUME NEW n \in Nat, NEW T, T \subseteq 1..n, T # {}
  PROVE  Max(T) \in T
<1> DEFINE Bounds == {b \in Nat : \A i \in T : i <= b}
<1>1. n \in Bounds /\ Bounds \subseteq Nat
  OBVIOUS
<1> HIDE DEF Bounds
<1>2. PICK b \in Bounds : \A c \in Bounds : b <= c
  BY <1>1, Least
<1>3. b \in Nat /\ \A i \in T : i <= b
  BY <1>2 DEF Bounds
<1>4. ASSUME b \notin T PROVE FALSE
  <2> PICK j \in T : TRUE
    OBVIOUS
  <2>0. \A i \in T : i \in 1..n /\ i # b
    BY <1>4
  <2>1. b - 1 \in Nat /\ \A i \in T : i <= b - 1
    BY <1>3, <2>0
  <2>2. b - 1 \in Bounds
    BY <2>1 DEF Bounds
  <2>3. QED
    BY <1>2, <1>3, <2>2
<1>5. b \in T /\ \A y \in T : b >= y
  BY <1>3, <1>4
<1>6. QED
  BY <1>5 DEF Max

\* The rows of a query in some order: all of them, each once.
LEMMA SetToSeqIs ==
  ASSUME NEW K, NEW S, S \subseteq K, IsFiniteSet(S)
  PROVE  /\ SetToSeq(S) \in Seq(K)
         /\ ToSet(SetToSeq(S)) = S
         /\ Len(SetToSeq(S)) = Cardinality(S)
         /\ S # {} => SetToSeq(S) # <<>>
<1> DEFINE n == Cardinality(S)
           f == SetToSeq(S)
<1>1. n \in Nat /\ ExistsBijection(1..n, S)
  BY FS_CardinalityType
<1>2. PICK g \in [1..n -> S] : IsInjective(g)
  BY <1>1 DEF ExistsBijection, Bijection, Injection
<1>3. f \in [1..n -> S] /\ IsInjective(f)
  BY <1>2 DEF SetToSeq
<1>4. f \in Injection(1..n, S)
  BY <1>3 DEF Injection
<1>5. Cardinality(1..n) = n
  BY <1>1, FS_Interval
<1> HIDE DEF f
<1>6. f \in Surjection(1..n, S)
  BY <1>4, <1>5, FS_Injection
<1> HIDE DEF n
<1>7. f \in Seq(S) /\ Len(f) = n
  BY <1>1, <1>3
<1>8. ToSet(f) = S
  BY <1>3, <1>6 DEF Surjection, ToSet
<1>9. S # {} => f # <<>>
  BY <1>8 DEF ToSet
<1>10. QED
  BY <1>7, <1>8, <1>9 DEF f, n

\* One more app at the end of a list.
LEMMA AppendIs ==
  ASSUME NEW K, NEW list \in Seq(K), NEW a \in K
  PROVE  /\ Append(list, a) \in Seq(K)
         /\ ToSet(Append(list, a)) = ToSet(list) \cup {a}
         /\ Len(Append(list, a)) = Len(list) + 1
<1> DEFINE new == Append(list, a)
<1>1. /\ new \in Seq(K) /\ Len(new) = Len(list) + 1 /\ new[Len(new)] = a
      /\ \A i \in 1..Len(list) : new[i] = list[i]
  OBVIOUS
<1> HIDE DEF new
<1>2. ToSet(new) = ToSet(list) \cup {a}
  BY <1>1 DEF ToSet
<1>3. QED
  BY <1>1, <1>2 DEF new

\* A list of no members is empty.
LEMMA NoneListed ==
  ASSUME NEW K, NEW list \in Seq(K), ToSet(list) = {}
  PROVE  Len(list) = 0
<1>1. Len(list) # 0 => list[1] \in ToSet(list)
  BY DEF ToSet
<1>2. QED
  BY <1>1

\* The first of a list, and the others.
LEMMA HeadTail ==
  ASSUME NEW K, NEW list \in Seq(K), list # <<>>
  PROVE  /\ Head(list) \in K /\ Tail(list) \in Seq(K)
         /\ Len(list) \in Nat \ {0} /\ Len(Tail(list)) = Len(list) - 1
         /\ ToSet(list) = {Head(list)} \cup ToSet(Tail(list))
         /\ Tail(list) = <<>> <=> Len(list) = 1
<1> DEFINE rest == Tail(list)
<1>1. Len(list) \in Nat \ {0} /\ Head(list) = list[1] /\ list[1] \in K
  OBVIOUS
<1>2. /\ rest \in Seq(K) /\ Len(rest) = Len(list) - 1
      /\ \A i \in 1..Len(rest) : rest[i] = list[i + 1]
  OBVIOUS
<1> HIDE DEF rest
<1>3. ToSet(list) = {Head(list)} \cup ToSet(rest)
  <2>1. ToSet(list) = {list[i] : i \in 1..Len(list)} /\ ToSet(rest) = {rest[i] : i \in 1..Len(rest)}
    BY <1>1, <1>2 DEF ToSet
  <2>2. \A i \in 1..Len(list) : i = 1 \/ (i - 1 \in 1..Len(rest) /\ rest[i - 1] = list[i])
    BY <1>1, <1>2
  <2>3. \A i \in 1..Len(rest) : i + 1 \in 1..Len(list) /\ rest[i] = list[i + 1]
    BY <1>1, <1>2
  <2>4. ASSUME NEW x \in ToSet(list) PROVE x = Head(list) \/ x \in ToSet(rest)
    BY <1>1, <2>1, <2>2
  <2>5. ASSUME NEW x \in ToSet(rest) PROVE x \in ToSet(list)
    BY <2>1, <2>3
  <2>6. Head(list) \in ToSet(list)
    BY <1>1, <2>1
  <2>7. QED
    BY <2>4, <2>5, <2>6
<1>4. rest = <<>> <=> Len(list) = 1
  BY <1>1, <1>2
<1>5. QED
  BY <1>1, <1>2, <1>3, <1>4 DEF rest

\* What Without keeps of a list's first n apps, of what it keeps of fewer.
Kept(list, g, kept, n) ==
  IF n = 0 THEN <<>>
  ELSE IF list[n].game = g THEN kept[n - 1]
  ELSE Append(kept[n - 1], list[n])

\* The recursive function that the filter is defined by exists.
LEMMA KeptExists ==
  ASSUME NEW list \in Seq(App), NEW g
  PROVE  \E kept : kept = [n \in 0..Len(list) |-> Kept(list, g, kept, n)]
<1> DEFINE Good(m, kept) == kept = [n \in 0..m |-> Kept(list, g, kept, n)]
           T == {m \in 0..Len(list) : \A kept : ~Good(m, kept)}
<1>1. SUFFICES ASSUME T # {} PROVE FALSE
  OBVIOUS
<1>2. PICK m \in T : \A n \in T : m <= n
  <2>1. T \subseteq Nat
    OBVIOUS
  <2> HIDE DEF T
  <2>2. QED
    BY <1>1, <2>1, Least
<1>3. CASE m = 0
  <2> DEFINE kept == [n \in 0..0 |-> <<>>]
  <2>1. Good(0, kept)
    BY DEF Kept
  <2>2. QED
    BY <1>3, <2>1
<1>4. CASE m # 0
  <2>1. m - 1 \notin T /\ m - 1 \in 0..Len(list)
    BY <1>2, <1>4
  <2>2. PICK kept : Good(m - 1, kept)
    BY <2>1
  <2> DEFINE h == [n \in 0..m |-> IF n = m THEN Kept(list, g, kept, m) ELSE kept[n]]
  <2>3. ASSUME NEW n \in 0..m PROVE h[n] = Kept(list, g, h, n)
    <3>1. Kept(list, g, h, n) = Kept(list, g, kept, n)
      <4>1. CASE n = 0
        BY <4>1 DEF Kept
      <4>2. CASE n # 0
        <5>1. n - 1 \in 0..m /\ n - 1 # m
          BY <2>1, <4>2
        <5>2. h[n - 1] = kept[n - 1]
          BY <5>1
        <5> HIDE DEF h
        <5>3. QED
          BY <5>2 DEF Kept
      <4>3. QED
        BY <4>1, <4>2
    <3>2. ASSUME n # m PROVE kept[n] = Kept(list, g, kept, n)
      <4>1. n \in 0..(m - 1)
        BY <3>2
      <4> HIDE DEF Kept
      <4>2. QED
        BY <4>1, <2>2
    <3>3. QED
      BY <3>1, <3>2
  <2>4. h = [n \in 0..m |-> h[n]]
    OBVIOUS
  <2>5. Good(m, h)
    BY <2>3, <2>4
  <2>6. QED
    BY <2>5
<1>5. QED
  BY <1>3, <1>4

\* RemoveApp takes every copy of a game out and nothing else.
LEMMA WithoutIs ==
  ASSUME NEW list \in Seq(App), NEW g
  PROVE  /\ Without(list, g) \in Seq(App)
         /\ ToSet(Without(list, g)) = {a \in ToSet(list) : a.game # g}
<1> DEFINE kept == CHOOSE kept : kept = [n \in 0..Len(list) |-> Kept(list, g, kept, n)]
<1>1. kept = [n \in 0..Len(list) |-> Kept(list, g, kept, n)]
  BY KeptExists
<1>2. Without(list, g) = kept[Len(list)]
  BY DEF Without, Kept
<1> HIDE DEF kept
<1> DEFINE First(n) == {list[i] : i \in 1..n}
           P(n) == /\ kept[n] \in Seq(App)
                   /\ ToSet(kept[n]) = {a \in First(n) : a.game # g}
           T == {n \in 0..Len(list) : ~P(n)}
<1>3. SUFFICES ASSUME T # {} PROVE FALSE
  <2>1. Len(list) \notin T
    BY <1>3
  <2>2. ToSet(list) = First(Len(list))
    BY DEF ToSet
  <2>3. P(Len(list))
    <3> HIDE DEF P
    <3>1. QED
      BY <2>1
  <2>4. QED
    BY <1>2, <2>2, <2>3
<1>4. PICK m \in T : \A n \in T : m <= n
  <2>1. T \subseteq Nat
    OBVIOUS
  <2> HIDE DEF T
  <2>2. QED
    BY <1>3, <2>1, Least
<1>5. m # 0
  <2>1. kept[0] = <<>>
    BY <1>1 DEF Kept
  <2>2. P(0)
    BY <2>1 DEF ToSet
  <2>3. QED
    BY <2>2
<1>6. m - 1 \in 0..Len(list) /\ P(m - 1)
  <2>1. m - 1 \in 0..Len(list) /\ m - 1 \notin T
    <3> HIDE DEF P
    <3>1. QED
      BY <1>4, <1>5
  <2>2. P(m - 1)
    <3> HIDE DEF P
    <3>1. QED
      BY <2>1
  <2>3. QED
    BY <2>1, <2>2
<1>7. First(m) = First(m - 1) \cup {list[m]} /\ list[m] \in App
  BY <1>5
<1>8. kept[m] = IF list[m].game = g THEN kept[m - 1] ELSE Append(kept[m - 1], list[m])
  BY <1>1, <1>5 DEF Kept
<1>9. CASE list[m].game = g
  BY <1>6, <1>7, <1>8, <1>9
<1>10. CASE list[m].game # g
  <2>1. /\ kept[m] \in Seq(App)
        /\ ToSet(kept[m]) = ToSet(kept[m - 1]) \cup {list[m]}
    <3> HIDE DEF First
    <3>1. QED
      BY <1>6, <1>7, <1>8, <1>10, AppendIs
  <2>2. P(m)
    <3> HIDE DEF First
    <3>1. QED
      BY <1>6, <1>7, <1>10, <2>1
  <2>3. QED
    BY <2>2
<1>11. QED
  BY <1>9, <1>10

-----------------------------------------------------------------------------
(* Types, and what a task holds where it is. *)

\* What the await of a task needs: a title, a game, apps left to go through.
Holds(k) ==
  /\ k.at \in {"insert", "rename", "save"} => k.title \in Title
  /\ k.at \in {"rename", "reread", "find", "save", "share"} \/ k.then = "find" => k.game \in Game
  /\ k.then = "reread" => k.at = "rename"
  /\ k.at \in {"import", "heal", "apps", "delete", "add"} => k.todo # <<>>
  /\ k.at = "delete" => k.del # <<>>

TasksOK == task \in [Task -> Await] /\ \A t \in Task : Holds(task[t])

TypeInv == TypeOK /\ TasksOK

\* One task goes on to hold k.
LEMMA TaskTyped ==
  ASSUME TasksOK, NEW t \in Task, NEW k \in Await, Holds(k), task' = [task EXCEPT ![t] = k]
  PROVE  TasksOK'
<1>1. task' \in [Task -> Await] /\ \A u \in Task : task'[u] = IF u = t THEN k ELSE task[u]
  BY DEF TasksOK
<1>2. ASSUME NEW u \in Task PROVE Holds(task'[u])
  <2>1. CASE u = t
    BY <1>1, <2>1
  <2>2. CASE u # t
    BY <1>1, <2>2 DEF TasksOK
  <2>3. QED
    BY <2>1, <2>2
<1>3. QED
  BY <1>1, <1>2 DEF TasksOK, Holds

LEMMA IdleTyped == Idle \in Await /\ Holds(Idle)
<1>1. <<>> \in Seq(App) /\ <<>> \in Seq(Game)
  OBVIOUS
<1>2. QED
  BY <1>1 DEF Idle, Await, Holds, Engine

\* A task ends.
LEMMA EndTyped ==
  ASSUME TasksOK, NEW t \in Task, End(t)
  PROVE  TasksOK'
BY IdleTyped, TaskTyped DEF End

\* A task goes to an await where it need not hold more than before.
LEMMA GotoTyped ==
  ASSUME TasksOK, NEW t \in Task, task[t].at # "rename",
         NEW at \in {"idle", "count", "fetch", "stale", "read"}, Goto(t, at)
  PROVE  TasksOK'
<1> DEFINE k == [task[t] EXCEPT !.at = at]
<1>1. task[t] \in Await /\ Holds(task[t])
  BY DEF TasksOK
<1>2. k \in Await /\ Holds(k)
  BY <1>1 DEF Await, Holds
<1>3. task' = [task EXCEPT ![t] = k]
  BY DEF Goto
<1> HIDE DEF k
<1>4. QED
  BY <1>2, <1>3, TaskTyped

\* push() returns.
LEMMA FinishTyped ==
  ASSUME TasksOK, NEW t \in Task, task[t].at # "rename", Finish(t)
  PROVE  TasksOK'
<1> DEFINE k == [Idle EXCEPT !.at = task[t].then,
                             !.game = IF task[t].then = "find" THEN task[t].game ELSE None]
<1>1. task[t] \in Await /\ Holds(task[t])
  BY DEF TasksOK
<1>2. task[t].then \in {"idle", "find"} /\ (task[t].then = "find" => task[t].game \in Game)
  BY <1>1 DEF Await, Holds
<1>3. k \in Await /\ Holds(k)
  BY <1>2, IdleTyped DEF Await, Holds, Idle
<1>4. task' = [task EXCEPT ![t] = k]
  BY DEF Finish
<1> HIDE DEF k
<1>5. QED
  BY <1>3, <1>4, TaskTyped

HistoryOK ==
  /\ push \in [Task -> [alone : BOOLEAN, current : BOOLEAN, whole : BOOLEAN]]
  /\ mirror \in {"no", "listed", "exact"}
  /\ pushed \in BOOLEAN

\* A push runs into something.
LEMMA DisturbTyped ==
  ASSUME HistoryOK, NEW t \in Task, Disturb(t)
  PROVE  push' \in [Task -> [alone : BOOLEAN, current : BOOLEAN, whole : BOOLEAN]]
<1>1. Apart \in [alone : BOOLEAN, current : BOOLEAN, whole : BOOLEAN]
  BY DEF Apart
<1>2. \A u \in Task : [push[u] EXCEPT !.current = FALSE]
                        \in [alone : BOOLEAN, current : BOOLEAN, whole : BOOLEAN]
  BY DEF HistoryOK
<1>3. QED
  BY <1>1, <1>2 DEF Disturb

\* The rows of the table, as apps.
LEMMA AppsOf ==
  ASSUME TypeOK, LibraryAssumption, NEW S \in SUBSET Owned
  PROVE  /\ \A g \in S : AppOf(g) \in App /\ AppOf(g).game = g
         /\ {AppOf(g) : g \in S} \subseteq App
         /\ IsFiniteSet({AppOf(g) : g \in S})
         /\ Cardinality({AppOf(g) : g \in S}) = Cardinality(S)
         /\ IsFiniteSet(S)
<1>1. \A g \in Owned : g \in Game /\ table[g] \in Row
  BY DEF TypeOK, Owned
<1>2. \A g \in S : AppOf(g) \in App /\ AppOf(g).game = g
  BY <1>1 DEF AppOf, App, Row
<1>3. IsFiniteSet(S)
  <2>1. S \in SUBSET Game
    BY <1>1
  <2>2. QED
    BY <2>1, FS_Subset, LibraryAssumption
<1> DEFINE T == {AppOf(g) : g \in S}
           f == [g \in S |-> AppOf(g)]
<1>4. f \in [S -> T] /\ \A a \in T : \E g \in S : f[g] = a
  OBVIOUS
<1>5. \A g, h \in S : f[g] = f[h] => g = h
  BY <1>2
<1>6. f \in Injection(S, T) /\ f \in Surjection(S, T)
  <2> HIDE DEF f, T
  <2>1. QED
    BY <1>4, <1>5 DEF Injection, Surjection, IsInjective
<1>7. IsFiniteSet(T) /\ Cardinality(T) = Cardinality(S)
  <2> HIDE DEF f, T
  <2>1. QED
    BY <1>3, <1>6, FS_Surjection
<1>8. QED
  BY <1>2, <1>3, <1>7

\* A row is written: what was read of the table is old.
LEMMA UpsertTyped ==
  ASSUME TypeOK, NEW t \in Task, NEW g \in Game, NEW row \in Row \cup {None}, Upsert(t, g, row)
  PROVE  table' \in [Game -> Row \cup {None}] /\ HistoryOK'
<1>1. HistoryOK
  BY DEF TypeOK, HistoryOK
<1>2. push' \in [Task -> [alone : BOOLEAN, current : BOOLEAN, whole : BOOLEAN]]
  BY <1>1, DisturbTyped DEF Upsert, Outdate
<1>3. QED
  BY <1>1, <1>2 DEF Upsert, Outdate, HistoryOK, TypeOK

\* A task ends where it is.
LEMMA AbandonTyped ==
  ASSUME TypeInv, NEW t \in Task, Abandon(t)
  PROVE  HistoryOK' /\ TasksOK'
<1>1. HistoryOK
  BY DEF TypeInv, TypeOK, HistoryOK
<1>2. TasksOK'
  BY EndTyped DEF TypeInv, Abandon
<1>3. CASE InPush(t)
  <2>1. Disturb(t) /\ mirror' = "no" /\ UNCHANGED pushed
    BY <1>3 DEF Abandon
  <2>2. QED
    BY <1>1, <1>2, <2>1, DisturbTyped DEF HistoryOK
<1>4. CASE ~InPush(t)
  <2>1. UNCHANGED history
    BY <1>4 DEF Abandon
  <2>2. QED
    BY <1>1, <1>2, <2>1 DEF history, HistoryOK
<1>5. QED
  BY <1>3, <1>4

\* Types, put together.
LEMMA TypedBy ==
  ASSUME TypeInv, TasksOK', HistoryOK',
         table' \in [Game -> Row \cup {None}], template' \in Engine, shares' \in SUBSET Game,
         UNCHANGED <<server, altc, stream, count>>
  PROVE  TypeInv'
BY DEF TypeInv, TypeOK, TasksOK, HistoryOK, server

-----------------------------------------------------------------------------
(* Every step keeps the types: pushes. *)

LEMMA PushReadTyped ==
  ASSUME LibraryAssumption, TypeInv, NEW t \in Task, PushRead(t)
  PROVE  TypeInv'
<1>1. task[t] \in Await /\ Holds(task[t]) /\ task[t].at = "read"
  BY DEF TypeInv, TasksOK, PushRead
<1>2. UNCHANGED <<db, server, altc, stream, count>>
  BY DEF PushRead
<1>3. CASE (Finish(t) \/ End(t)) /\ UNCHANGED history
  <2>1. TasksOK'
    BY <1>1, <1>3, FinishTyped, EndTyped DEF TypeInv
  <2>2. QED
    BY <1>2, <1>3, <2>1 DEF TypeInv, TypeOK, TasksOK, db, server, history
<1>4. CASE Owned # {} /\ ~((Finish(t) \/ End(t)) /\ UNCHANGED history)
  <2> DEFINE all == SetToSeq({AppOf(g) : g \in Owned})
             others == {u \in Task : InPush(u)}
             k == [task[t] EXCEPT !.at = "apps", !.todo = all]
  <2>1. /\ task' = [task EXCEPT ![t].at = "apps", ![t].todo = all]
        /\ push' = [u \in Task |->
                 IF u = t
                 THEN [alone |-> others = {},
                       current |-> \A o \in others : push[o].current,
                       whole |-> TRUE]
                 ELSE IF u \in others THEN [push[u] EXCEPT !.alone = FALSE]
                 ELSE push[u]]
        /\ UNCHANGED <<mirror, pushed>>
    BY <1>4 DEF PushRead
  <2>2. all \in Seq(App) /\ all # <<>>
    <3>1. {AppOf(g) : g \in Owned} \subseteq App /\ IsFiniteSet({AppOf(g) : g \in Owned})
      BY AppsOf DEF TypeInv
    <3>2. {AppOf(g) : g \in Owned} # {}
      BY <1>4
    <3>3. QED
      BY <3>1, <3>2, SetToSeqIs
  <2> HIDE DEF all
  <2>3. k \in Await /\ Holds(k)
    BY <1>1, <2>2 DEF Await, Holds
  <2>4. task' = [task EXCEPT ![t] = k]
    BY <2>1
  <2> HIDE DEF k
  <2>5. TasksOK'
    BY <2>3, <2>4, TaskTyped DEF TypeInv
  <2>6. push' \in [Task -> [alone : BOOLEAN, current : BOOLEAN, whole : BOOLEAN]]
    <3>1. push \in [Task -> [alone : BOOLEAN, current : BOOLEAN, whole : BOOLEAN]]
      BY DEF TypeInv, TypeOK
    <3> HIDE DEF others
    <3>2. [alone |-> others = {}, current |-> \A o \in others : push[o].current, whole |-> TRUE]
            \in [alone : BOOLEAN, current : BOOLEAN, whole : BOOLEAN]
      OBVIOUS
    <3>3. \A u \in Task : [push[u] EXCEPT !.alone = FALSE]
                            \in [alone : BOOLEAN, current : BOOLEAN, whole : BOOLEAN]
      BY <3>1
    <3>4. QED
      BY <2>1, <3>1, <3>2, <3>3
  <2>7. QED
    BY <1>2, <2>1, <2>5, <2>6 DEF TypeInv, TypeOK, TasksOK, db, server
<1>5. QED
  BY <1>3, <1>4 DEF PushRead

\* The ids of the apps that Wolf lists.
LEMMA ListedIs ==
  ASSUME apps \in Seq(App)
  PROVE  /\ ListedIds \in Seq(Game)
         /\ ToSet(ListedIds) = {a.game : a \in ToSet(apps)}
         /\ ListedIds = <<>> => ToSet(apps) = {} /\ Len(apps) = 0
<1> DEFINE n == Len(apps)
<1>1. n \in Nat /\ DOMAIN apps = 1..n
  OBVIOUS
<1>2. \A i \in 1..n : apps[i] \in App
  OBVIOUS
<1>3. \A i \in 1..n : apps[i].game \in Game
  BY <1>2 DEF App
<1>4. ListedIds = [i \in 1..n |-> apps[i].game]
  BY <1>1 DEF ListedIds
<1> HIDE DEF n
<1>5. ListedIds \in Seq(Game)
  BY <1>1, <1>3, <1>4
<1>6. ToSet(ListedIds) = {a.game : a \in ToSet(apps)}
  BY <1>1, <1>4 DEF ToSet
<1>7. ListedIds = <<>> => n = 0
  BY <1>1, <1>4
<1>8. n = 0 => ToSet(apps) = {}
  BY <1>1 DEF ToSet
<1>9. QED
  BY <1>5, <1>6, <1>7, <1>8 DEF n

LEMMA PushAppsTyped ==
  ASSUME TypeInv, NEW t \in Task, PushApps(t)
  PROVE  TypeInv'
<1> DEFINE k == [task[t] EXCEPT !.at = IF ListedIds = <<>> THEN "add" ELSE "delete",
                                !.del = ListedIds]
<1>1. task[t] \in Await /\ Holds(task[t]) /\ task[t].at = "apps"
  BY DEF TypeInv, TasksOK, PushApps
<1>2. ListedIds \in Seq(Game)
  BY ListedIs DEF TypeInv, TypeOK
<1>3. k \in Await /\ Holds(k)
  BY <1>1, <1>2 DEF Await, Holds
<1>4. task' = [task EXCEPT ![t] = k]
  BY DEF PushApps
<1> HIDE DEF k
<1>5. TasksOK'
  BY <1>3, <1>4, TaskTyped DEF TypeInv
<1>6. QED
  BY <1>5 DEF PushApps, TypeInv, TypeOK, TasksOK, db, server, history

LEMMA PushDeleteTyped ==
  ASSUME TypeInv, NEW t \in Task, PushDelete(t)
  PROVE  TypeInv'
<1> DEFINE k == [task[t] EXCEPT !.at = IF Len(task[t].del) = 1 THEN "add" ELSE @,
                                !.del = Tail(@)]
<1>1. task[t] \in Await /\ Holds(task[t]) /\ task[t].at = "delete"
  BY DEF TypeInv, TasksOK, PushDelete
<1>2. task[t].del \in Seq(Game) /\ task[t].del # <<>>
  BY <1>1 DEF Await, Holds
<1>3. /\ Tail(task[t].del) \in Seq(Game)
      /\ Tail(task[t].del) = <<>> <=> Len(task[t].del) = 1
  BY <1>2, HeadTail
<1>4. k \in Await /\ Holds(k)
  BY <1>1, <1>3 DEF Await, Holds
<1>5. task' = [task EXCEPT ![t] = k]
  BY DEF PushDelete
<1> HIDE DEF k
<1>6. TasksOK'
  BY <1>4, <1>5, TaskTyped DEF TypeInv
<1>7. apps' \in Seq(App)
  BY WithoutIs DEF PushDelete, RemoveApp, TypeInv, TypeOK
<1>8. QED
  BY <1>6, <1>7 DEF PushDelete, TypeInv, TypeOK, TasksOK, db, history

\* AddApp appends the app, which may get another engine config.
LEMMA AddAppIs ==
  ASSUME apps \in Seq(App), NEW a \in App, AddApp(a)
  PROVE  \E b \in App : /\ b.game = a.game /\ b.title = a.title
                        /\ apps' = Append(apps, b)
<1> DEFINE b == IF a.engine = "nocaps" /\ apps # <<>>
                THEN [a EXCEPT !.engine = apps[1].engine] ELSE a
<1>1. apps # <<>> => apps[1] \in App
  OBVIOUS
<1>2. b \in App /\ b.game = a.game /\ b.title = a.title
  BY <1>1 DEF App
<1>3. apps' = Append(apps, b)
  BY DEF AddApp
<1> HIDE DEF b
<1>4. QED
  BY <1>2, <1>3

LEMMA PushAddTyped ==
  ASSUME TypeInv, NEW t \in Task, PushAdd(t)
  PROVE  TypeInv'
<1>1. task[t] \in Await /\ Holds(task[t]) /\ task[t].at = "add"
  BY DEF TypeInv, TasksOK, PushAdd
<1>2. task[t].todo \in Seq(App) /\ task[t].todo # <<>>
  BY <1>1 DEF Await, Holds
<1>3. /\ Head(task[t].todo) \in App /\ Tail(task[t].todo) \in Seq(App)
      /\ Len(task[t].todo) \in Nat \ {0}
      /\ Tail(task[t].todo) = <<>> <=> Len(task[t].todo) = 1
  BY <1>2, HeadTail
<1>4. apps' \in Seq(App)
  <2>1. AddApp(Head(task[t].todo)) /\ apps \in Seq(App)
    BY DEF PushAdd, TypeInv, TypeOK
  <2>2. PICK b \in App : apps' = Append(apps, b)
    BY <1>3, <2>1, AddAppIs
  <2>3. QED
    BY <2>1, <2>2, AppendIs
<1>5. HistoryOK /\ UNCHANGED <<db, wolf, altc, stream, count>>
  BY DEF PushAdd, TypeInv, TypeOK, HistoryOK
<1>6. CASE Len(task[t].todo) > 1
  <2> DEFINE k == [task[t] EXCEPT !.todo = Tail(@)]
  <2>1. task' = [task EXCEPT ![t] = k] /\ UNCHANGED history
    BY <1>6 DEF PushAdd
  <2>2. k \in Await /\ Holds(k)
    <3>1. Len(task[t].todo) # 1
      <4> DEFINE n == Len(task[t].todo)
      <4>1. n \in Nat /\ n > 1
        BY <1>3, <1>6
      <4> HIDE DEF n
      <4>2. n # 1
        BY <4>1
      <4>3. QED
        BY <4>2 DEF n
    <3>2. Tail(task[t].todo) # <<>>
      BY <1>3, <3>1, Zenon
    <3>3. QED
      BY <1>1, <1>3, <3>2 DEF Await, Holds
  <2> HIDE DEF k
  <2>3. TasksOK'
    BY <2>1, <2>2, TaskTyped DEF TypeInv
  <2>4. QED
    BY <1>4, <1>5, <2>1, <2>3 DEF TypeInv, TypeOK, TasksOK, HistoryOK, db, history
<1>7. CASE ~(Len(task[t].todo) > 1)
  <2>1. /\ Finish(t)
        /\ mirror' = IF ~push[t].current THEN "no"
                     ELSE IF push[t].alone THEN "exact" ELSE "listed"
        /\ pushed' = (pushed \/ push[t].whole)
        /\ push' = [push EXCEPT ![t] = Apart]
    BY <1>7 DEF PushAdd
  <2>2. TasksOK'
    BY <1>1, <2>1, FinishTyped DEF TypeInv
  <2>3. mirror' \in {"no", "listed", "exact"} /\ pushed' \in BOOLEAN
    <3>1. push[t] \in [alone : BOOLEAN, current : BOOLEAN, whole : BOOLEAN]
      BY <1>5 DEF HistoryOK
    <3>2. QED
      BY <1>5, <2>1, <3>1 DEF HistoryOK
  <2>4. push' \in [Task -> [alone : BOOLEAN, current : BOOLEAN, whole : BOOLEAN]]
    BY <1>5, <2>1 DEF HistoryOK, Apart
  <2>5. QED
    BY <1>4, <1>5, <2>2, <2>3, <2>4 DEF TypeInv, TypeOK, TasksOK, db
<1>8. QED
  BY <1>6, <1>7

LEMMA PushFailsTyped ==
  ASSUME TypeInv, NEW t \in Task, PushFails(t)
  PROVE  TypeInv'
<1>1. TasksOK' /\ HistoryOK'
  BY AbandonTyped DEF PushFails
<1>2. QED
  BY <1>1 DEF PushFails, TypeInv, TypeOK, TasksOK, HistoryOK, db, server

LEMMA PushTyped ==
  ASSUME LibraryAssumption, TypeInv, NEW t \in Task, Push(t)
  PROVE  TypeInv'
BY PushReadTyped, PushAppsTyped, PushDeleteTyped, PushAddTyped, PushFailsTyped DEF Push

-----------------------------------------------------------------------------
(* Requests. *)

LEMMA NewTaskTyped ==
  ASSUME LibraryAssumption, TypeInv, NEW r \in Request, NewTask(r)
  PROVE  TypeInv'
<1>1. r \in Task /\ TasksOK /\ HistoryOK
  BY DEF Task, TypeInv, TypeOK, HistoryOK
<1>2. ASSUME NewRequest(r) PROVE count' \in [requests : 0..MaxRequests, stops : 0..MaxStops]
  <2>1. MaxRequests \in Nat /\ count \in [requests : 0..MaxRequests, stops : 0..MaxStops]
    BY DEF LibraryAssumption, TypeInv, TypeOK
  <2>2. count' = [count EXCEPT !.requests = @ + 1] /\ count.requests < MaxRequests
    BY <1>2 DEF NewRequest
  <2>3. QED
    BY <2>1, <2>2
<1>3. ASSUME NewRequest(r), NEW k \in Await, Holds(k), task' = [task EXCEPT ![r] = k],
             UNCHANGED <<db, server, altc, stream, history>>
      PROVE  TypeInv'
  <2>1. TasksOK'
    BY <1>1, <1>3, TaskTyped
  <2>2. QED
    BY <1>2, <1>3, <2>1 DEF TypeInv, TypeOK, TasksOK, db, server, history
<1>4. ASSUME NEW title \in Title, Create(r, title) PROVE TypeInv'
  <2> DEFINE k == [Idle EXCEPT !.at = "insert", !.title = title, !.engine = template]
  <2>1. k \in Await /\ Holds(k)
    BY IdleTyped DEF Await, Holds, Idle, TypeInv, TypeOK
  <2>2. task' = [task EXCEPT ![r] = k]
    BY <1>4 DEF Create
  <2> HIDE DEF k
  <2>3. QED
    BY <1>3, <1>4, <2>1, <2>2 DEF Create
<1>5. ASSUME NEW g \in Game, NEW title \in Title \cup {None}, NEW configure \in BOOLEAN,
             Update(r, g, title, configure)
      PROVE  TypeInv'
  <2> DEFINE k == [Idle EXCEPT !.at = "rename", !.game = g,
                               !.title = IF title = None THEN table[g].title ELSE title,
                               !.then = IF configure THEN "reread" ELSE "idle"]
  <2>1. table[g] \in Row
    BY <1>5 DEF Update, TypeInv, TypeOK
  <2>2. k \in Await /\ Holds(k)
    BY <2>1, IdleTyped DEF Await, Holds, Idle, Row
  <2>3. task' = [task EXCEPT ![r] = k]
    BY <1>5 DEF Update
  <2> HIDE DEF k
  <2>4. QED
    BY <1>3, <1>5, <2>2, <2>3 DEF Update
<1>6. ASSUME NEW g \in Game, NEW at \in {"find", "share"}, NewRequest(r),
             task' = [task EXCEPT ![r] = [Idle EXCEPT !.at = at, !.game = g]],
             UNCHANGED <<db, server, altc, stream, history>>
      PROVE  TypeInv'
  <2> DEFINE k == [Idle EXCEPT !.at = at, !.game = g]
  <2>1. k \in Await /\ Holds(k)
    BY IdleTyped DEF Await, Holds, Idle
  <2>2. task' = [task EXCEPT ![r] = k]
    BY <1>6
  <2> HIDE DEF k
  <2>3. QED
    BY <1>3, <1>6, <2>1, <2>2
<1>7. ASSUME NEW g \in Game, Refresh(r, g) \/ CheckShares(r, g) PROVE TypeInv'
  BY <1>6, <1>7 DEF Refresh, CheckShares
<1>8. ASSUME NEW g \in Game, Delete(r, g) PROVE TypeInv'
  <2> DEFINE k == [Idle EXCEPT !.at = "read"]
  <2>1. k \in Await /\ Holds(k)
    BY IdleTyped DEF Await, Holds, Idle
  <2>2. task' = [task EXCEPT ![r] = k]
    BY <1>8 DEF Delete
  <2> HIDE DEF k
  <2>3. TasksOK'
    BY <1>1, <2>1, <2>2, TaskTyped
  <2>4. table' \in [Game -> Row \cup {None}] /\ HistoryOK'
    BY <1>1, <1>8, UpsertTyped DEF Delete, TypeInv
  <2>5. shares' \in SUBSET Game
    BY <1>8 DEF Delete, ForgetShares, TypeInv, TypeOK
  <2>6. QED
    BY <1>2, <1>8, <2>3, <2>4, <2>5 DEF Delete, TypeInv, TypeOK, TasksOK, HistoryOK, server
<1>9. QED
  BY <1>4, <1>5, <1>7, <1>8 DEF NewTask

LEMMA RequestStepTyped ==
  ASSUME LibraryAssumption, TypeInv, NEW r \in Request, RequestStep(r)
  PROVE  TypeInv'
<1>1. r \in Task /\ TasksOK /\ HistoryOK /\ task[r] \in Await /\ Holds(task[r])
  BY DEF Task, TypeInv, TypeOK, TasksOK, HistoryOK
<1>2. ASSUME NEW k \in Await, Holds(k), task' = [task EXCEPT ![r] = k],
             UNCHANGED <<template, shares, server, altc, stream, count>>,
             \/ UNCHANGED <<table, history>>
             \/ \E g \in Game : \E row \in Row \cup {None} : Upsert(r, g, row)
      PROVE  TypeInv'
  <2>1. TasksOK'
    BY <1>1, <1>2, TaskTyped
  <2>2. table' \in [Game -> Row \cup {None}] /\ HistoryOK'
    <3>1. CASE UNCHANGED <<table, history>>
      BY <1>1, <3>1 DEF TypeInv, TypeOK, HistoryOK, history
    <3>2. CASE \E g \in Game : \E row \in Row \cup {None} : Upsert(r, g, row)
      BY <1>1, <3>2, UpsertTyped DEF TypeInv
    <3>3. QED
      BY <1>2, <3>1, <3>2
  <2>3. QED
    BY <1>2, <2>1, <2>2, TypedBy DEF TypeInv, TypeOK
<1>3. Idle \in Await /\ Holds(Idle)
  BY IdleTyped
<1>4. ASSUME NEW g \in Game, Insert(r, g) PROVE TypeInv'
  <2> DEFINE k == [Idle EXCEPT !.at = "read", !.then = "find", !.game = g]
             row == [title |-> task[r].title, engine |-> task[r].engine]
  <2>1. k \in Await /\ Holds(k)
    BY <1>3 DEF Await, Holds, Idle
  <2>2. task[r].title \in Title
    BY <1>1, <1>4 DEF Insert, Holds
  <2>3. row \in Row
    BY <1>1, <2>2 DEF Await, Row
  <2>4. /\ task' = [task EXCEPT ![r] = k] /\ Upsert(r, g, row)
        /\ UNCHANGED <<template, shares, server, altc, stream, count>>
    BY <1>4 DEF Insert
  <2> HIDE DEF k, row
  <2>5. QED
    BY <1>2, <2>1, <2>3, <2>4
<1>5. ASSUME Rename(r) PROVE TypeInv'
  <2> DEFINE g == task[r].game
             k == IF task[r].then = "reread" THEN [Idle EXCEPT !.at = "reread", !.game = g]
                  ELSE [Idle EXCEPT !.at = "read"]
             row == [table[g] EXCEPT !.title = task[r].title]
  <2>1. g \in Game /\ task[r].title \in Title
    BY <1>1, <1>5 DEF Rename, Holds
  <2>2. k \in Await /\ Holds(k)
    BY <1>3, <2>1 DEF Await, Holds, Idle
  <2>3. UNCHANGED <<template, shares, server, altc, stream, count>>
    BY <1>5 DEF Rename
  <2>4. CASE table[g] = None
    <3>1. task' = [task EXCEPT ![r] = Idle] /\ UNCHANGED <<table, history>>
      BY <1>5, <2>4 DEF Rename, End
    <3>2. QED
      BY <1>2, <1>3, <2>3, <3>1
  <2>5. CASE table[g] # None
    <3>1. task' = [task EXCEPT ![r] = k] /\ Upsert(r, g, row)
      BY <1>5, <2>5 DEF Rename
    <3>2. row \in Row
      BY <2>1, <2>5 DEF TypeInv, TypeOK, Row
    <3> HIDE DEF k, row, g
    <3>3. QED
      BY <1>2, <2>1, <2>2, <2>3, <3>1, <3>2
  <2>6. QED
    BY <2>4, <2>5
<1>6. ASSUME Reread(r) PROVE TypeInv'
  <2> DEFINE g == task[r].game
  <2>1. g \in Game
    BY <1>1, <1>6 DEF Reread, Holds
  <2>2. UNCHANGED <<db, server, altc, stream, history, count>>
    BY <1>6 DEF Reread
  <2>3. CASE End(r)
    BY <1>2, <1>3, <2>2, <2>3 DEF End, db
  <2>4. ASSUME table[g] # None, NEW title \in IF task[r].at = "find" THEN Title ELSE {table[g].title},
               task' = [task EXCEPT ![r].at = "save", ![r].title = title,
                                    ![r].engine = table[g].engine]
        PROVE  TypeInv'
    <3> DEFINE k == [task[r] EXCEPT !.at = "save", !.title = title, !.engine = table[g].engine]
    <3>1. table[g] \in Row
      BY <2>1, <2>4 DEF TypeInv, TypeOK
    <3>2. title \in Title /\ table[g].engine \in Engine
      BY <2>4, <3>1 DEF Row
    <3>3. task[r].then # "reread"
      BY <1>1, <1>6 DEF Reread, Holds
    <3>4. k \in Await
      BY <1>1, <3>2 DEF Await
    <3>5. Holds(k)
      BY <1>1, <2>1, <3>2, <3>3 DEF Await, Holds
    <3>6. task' = [task EXCEPT ![r] = k]
      BY <1>1, <2>4 DEF TasksOK, Await
    <3> HIDE DEF k
    <3>7. QED
      BY <1>2, <2>2, <3>4, <3>5, <3>6 DEF db
  <2>5. QED
    BY <1>6, <2>3, <2>4 DEF Reread
<1>7. ASSUME Save(r) PROVE TypeInv'
  <2> DEFINE k == [Idle EXCEPT !.at = "read"]
             row == [title |-> task[r].title, engine |-> task[r].engine]
  <2>1. k \in Await /\ Holds(k)
    BY <1>3 DEF Await, Holds, Idle
  <2>2. task[r].title \in Title /\ task[r].game \in Game
    BY <1>1, <1>7 DEF Save, Holds
  <2>3. row \in Row
    BY <1>1, <2>2 DEF Await, Row
  <2>4. /\ task' = [task EXCEPT ![r] = k] /\ Upsert(r, task[r].game, row)
        /\ UNCHANGED <<template, shares, server, altc, stream, count>>
    BY <1>7 DEF Save
  <2> HIDE DEF k, row
  <2>5. QED
    BY <1>2, <2>1, <2>2, <2>3, <2>4
<1>8. ASSUME SetShares(r) PROVE TypeInv'
  <2>1. TasksOK'
    BY <1>1, <1>8, EndTyped DEF SetShares
  <2>2. task[r].game \in Game
    BY <1>1, <1>8 DEF SetShares, Holds
  <2>3. shares' \in SUBSET Game
    BY <1>8, <2>2 DEF SetShares, TypeInv, TypeOK
  <2>4. QED
    BY <1>8, <2>1, <2>3 DEF SetShares, TypeInv, TypeOK, TasksOK, server, history
<1>9. QED
  BY <1>1, <1>4, <1>5, <1>6, <1>7, <1>8, PushTyped DEF RequestStep

-----------------------------------------------------------------------------
(* Syncs. *)

\* A task goes on to hold k, and little else changes.
LEMMA StepTyped ==
  ASSUME TypeInv, NEW t \in Task, NEW k \in Await, Holds(k), task' = [task EXCEPT ![t] = k],
         template' \in Engine,
         UNCHANGED <<shares, server, altc, stream, count>>,
         \/ UNCHANGED <<table, history>>
         \/ \E g \in Game : \E row \in Row \cup {None} : Upsert(t, g, row)
  PROVE  TypeInv'
<1>1. TasksOK'
  BY TaskTyped DEF TypeInv
<1>2. table' \in [Game -> Row \cup {None}] /\ HistoryOK'
  <2>1. CASE UNCHANGED <<table, history>>
    BY <2>1 DEF TypeInv, TypeOK, HistoryOK, history
  <2>2. CASE \E g \in Game : \E row \in Row \cup {None} : Upsert(t, g, row)
    BY <2>2, UpsertTyped DEF TypeInv
  <2>3. QED
    BY <2>1, <2>2
<1>3. shares' \in SUBSET Game
  BY DEF TypeInv, TypeOK
<1>4. QED
  BY <1>1, <1>2, <1>3, TypedBy

LEMMA ConnectTyped ==
  ASSUME TypeInv, NEW s \in Syncs, Connect(s)
  PROVE  TypeInv'
<1>1. s \in Task /\ TasksOK
  BY DEF Task, TypeInv
<1>2. TasksOK'
  BY <1>1, GotoTyped DEF Connect, SpawnSync
<1>3. stream' = TRUE /\ wolf /\ altc /\ UNCHANGED <<db, server, altc, history, count>>
  BY DEF Connect
<1>4. QED
  BY <1>2, <1>3 DEF TypeInv, TypeOK, TasksOK, db, server, history

\* The app that a sync writes to the table, and those that are left.
LEMMA NextApp ==
  ASSUME NEW k \in Await, Holds(k), k.at \in {"import", "heal"},
         NEW after \in {"stale", "read"}
  PROVE  /\ Head(k.todo) \in App
         /\ [title |-> Head(k.todo).title, engine |-> Head(k.todo).engine] \in Row
         /\ Head(k.todo).game \in Game
         /\ [k EXCEPT !.at = IF Len(k.todo) = 1 THEN after ELSE @, !.todo = Tail(@)] \in Await
         /\ Holds([k EXCEPT !.at = IF Len(k.todo) = 1 THEN after ELSE @, !.todo = Tail(@)])
<1>1. k.todo \in Seq(App) /\ k.todo # <<>>
  BY DEF Await, Holds
<1>2. /\ Head(k.todo) \in App /\ Tail(k.todo) \in Seq(App)
      /\ Tail(k.todo) = <<>> <=> Len(k.todo) = 1
  BY <1>1, HeadTail
<1>3. /\ [title |-> Head(k.todo).title, engine |-> Head(k.todo).engine] \in Row
      /\ Head(k.todo).game \in Game
  BY <1>2 DEF App, Row
<1>4. [k EXCEPT !.at = IF Len(k.todo) = 1 THEN after ELSE @, !.todo = Tail(@)] \in Await
  BY <1>2 DEF Await
<1>5. Holds([k EXCEPT !.at = IF Len(k.todo) = 1 THEN after ELSE @, !.todo = Tail(@)])
  BY <1>2 DEF Await, Holds
<1>6. QED
  BY <1>2, <1>3, <1>4, <1>5

\* The engine config of Wolf's last copy of a game.
LEMMA WolfEngineIs ==
  ASSUME apps \in Seq(App), NEW g \in Game, \E i \in DOMAIN apps : apps[i].game = g
  PROVE  WolfEngine(g) \in Engine
<1> DEFINE n == Len(apps)
           T == {i \in DOMAIN apps : apps[i].game = g}
<1>1. n \in Nat /\ T \subseteq 1..n /\ T # {}
  OBVIOUS
<1>2. \A i \in T : apps[i] \in App
  OBVIOUS
<1> HIDE DEF n, T
<1>3. Max(T) \in T
  BY <1>1, MaxIs
<1>4. apps[Max(T)].engine \in Engine
  BY <1>2, <1>3 DEF App
<1>5. QED
  BY <1>4 DEF WolfEngine, T

\* What a backfill heals is a list of apps again.
LEMMA HealedIs ==
  ASSUME apps \in Seq(App), NEW todo \in Seq(App), NEW K,
         K = {a \in ToSet(todo) : \E i \in DOMAIN apps : apps[i].game = a.game}
  PROVE  /\ {[a EXCEPT !.engine = WolfEngine(a.game)] : a \in K} \subseteq App
         /\ IsFiniteSet({[a EXCEPT !.engine = WolfEngine(a.game)] : a \in K})
<1>1. ToSet(todo) \subseteq App /\ IsFiniteSet(ToSet(todo))
  <2> DEFINE n == Len(todo)
  <2>1. n \in Nat /\ todo \in [1..n -> App] /\ DOMAIN todo = 1..n
    OBVIOUS
  <2> HIDE DEF n
  <2>2. ToSet(todo) = {todo[i] : i \in 1..n}
    BY <2>1 DEF ToSet
  <2>3. IsFiniteSet(1..n)
    <3>1. 1 \in Int /\ n \in Int
      BY <2>1
    <3>2. QED
      BY <3>1, FS_Interval, Zenon
  <2> DEFINE T == ToSet(todo)
             f == [i \in 1..n |-> todo[i]]
  <2>4. f \in [1..n -> T] /\ \A x \in T : \E i \in 1..n : f[i] = x
    BY <2>2
  <2>5. f \in Surjection(1..n, T)
    <3> HIDE DEF f, T
    <3>1. QED
      BY <2>4 DEF Surjection
  <2>6. IsFiniteSet(T)
    <3> HIDE DEF f, T
    <3>1. QED
      BY <2>3, <2>5, FS_Surjection
  <2>7. QED
    BY <2>1, <2>2, <2>6
<1>2. K \subseteq App /\ IsFiniteSet(K)
  <2>1. K \subseteq ToSet(todo)
    OBVIOUS
  <2>2. QED
    BY <1>1, <2>1, FS_Subset
<1>3. \A a \in K : WolfEngine(a.game) \in Engine
  BY <1>2, WolfEngineIs DEF App
<1> DEFINE H == {[a EXCEPT !.engine = WolfEngine(a.game)] : a \in K}
           h == [a \in K |-> [a EXCEPT !.engine = WolfEngine(a.game)]]
<1>4. H \subseteq App
  <2>1. \A a \in App : \A e \in Engine : [a EXCEPT !.engine = e] \in App
    BY DEF App
  <2>2. QED
    BY <1>2, <1>3, <2>1
<1>5. h \in [K -> H] /\ \A x \in H : \E a \in K : h[a] = x
  OBVIOUS
<1>6. IsFiniteSet(H)
  <2> HIDE DEF H, h
  <2>1. h \in Surjection(K, H)
    BY <1>5 DEF Surjection
  <2>2. QED
    BY <1>2, <2>1, FS_Surjection
<1>7. QED
  BY <1>4, <1>6

LEMMA SyncStepTyped ==
  ASSUME LibraryAssumption, TypeInv, NEW s \in Syncs, SyncStep(s)
  PROVE  TypeInv'
<1>1. s \in Task /\ TasksOK /\ task[s] \in Await /\ Holds(task[s])
  BY DEF Task, TypeInv, TasksOK
<1>2. TypeOK /\ apps \in Seq(App) /\ template \in Engine
  BY DEF TypeInv, TypeOK
<1>3. ASSUME SyncCount(s) PROVE TypeInv'
  <2>1. TasksOK'
    <3>1. PICK at \in {"fetch", "stale"} : Goto(s, at)
      BY <1>3 DEF SyncCount
    <3>2. task[s].at # "rename"
      BY <1>3 DEF SyncCount
    <3>3. QED
      BY <1>1, <3>1, <3>2, GotoTyped
  <2>2. QED
    BY <1>3, <2>1 DEF SyncCount, TypeInv, TypeOK, TasksOK, db, server, history
<1>4. ASSUME ImportFetch(s) PROVE TypeInv'
  <2>1. UNCHANGED <<db, server, altc, stream, history, count>> /\ task[s].at = "fetch"
    BY <1>4 DEF ImportFetch
  <2>2. CASE wolf
    <3> DEFINE k == [task[s] EXCEPT !.at = IF apps = <<>> THEN "stale" ELSE "import", !.todo = apps]
    <3>1. task' = [task EXCEPT ![s] = k]
      BY <1>4, <2>2 DEF ImportFetch
    <3>2. k \in Await /\ Holds(k)
      BY <1>1, <1>2, <2>1 DEF Await, Holds
    <3> HIDE DEF k
    <3>3. QED
      BY <1>1, <1>2, <2>1, <3>1, <3>2, StepTyped DEF db
  <2>3. CASE ~wolf
    <3>1. task' = [task EXCEPT ![s] = Idle]
      BY <1>4, <2>3 DEF ImportFetch, End
    <3>2. QED
      BY <1>1, <1>2, <2>1, <3>1, IdleTyped, StepTyped DEF db
  <2>4. QED
    BY <2>2, <2>3
<1>5. ASSUME ImportApp(s) PROVE TypeInv'
  <2> DEFINE a == Head(task[s].todo)
             row == [title |-> a.title, engine |-> a.engine]
             k == [task[s] EXCEPT !.at = IF Len(task[s].todo) = 1 THEN "stale" ELSE @, !.todo = Tail(@)]
  <2>1. task[s].at = "import"
    BY <1>5 DEF ImportApp
  <2>2. a \in App /\ row \in Row /\ a.game \in Game /\ k \in Await /\ Holds(k)
    BY <1>1, <2>1, NextApp
  <2>3. template' \in Engine
    <3>1. a.engine \in Engine
      BY <2>2 DEF App
    <3>2. QED
      BY <1>2, <1>5, <3>1 DEF ImportApp
  <2>4. /\ task' = [task EXCEPT ![s] = k] /\ Upsert(s, a.game, row)
        /\ UNCHANGED <<shares, server, altc, stream, count>>
    BY <1>5 DEF ImportApp
  <2> HIDE DEF k, row, a
  <2>5. QED
    BY <1>1, <2>2, <2>3, <2>4, StepTyped
<1>6. ASSUME BackfillList(s) PROVE TypeInv'
  <2> DEFINE stale == {g \in Owned : table[g].engine # "full"}
             all == SetToSeq({AppOf(g) : g \in stale})
             k == [task[s] EXCEPT !.at = IF stale = {} /\ template = "full" THEN "read" ELSE "ask",
                                  !.todo = all]
  <2>1. task[s].at = "stale" /\ UNCHANGED <<db, server, altc, stream, history, count>>
    BY <1>6 DEF BackfillList
  <2>2. task' = [task EXCEPT ![s] = k]
    BY <1>6 DEF BackfillList
  <2>3. all \in Seq(App)
    <3>1. stale \in SUBSET Owned
      OBVIOUS
    <3> HIDE DEF stale
    <3>2. {AppOf(g) : g \in stale} \subseteq App /\ IsFiniteSet({AppOf(g) : g \in stale})
      BY <1>2, <3>1, AppsOf
    <3>3. QED
      BY <3>2, SetToSeqIs
  <2> HIDE DEF all, stale
  <2>4. k \in Await /\ Holds(k)
    BY <1>1, <2>1, <2>3 DEF Await, Holds
  <2> HIDE DEF k
  <2>5. QED
    BY <1>1, <1>2, <2>1, <2>2, <2>4, StepTyped DEF db
<1>7. ASSUME BackfillAsk(s) PROVE TypeInv'
  <2> DEFINE known == {a \in ToSet(task[s].todo) : \E i \in DOMAIN apps : apps[i].game = a.game}
             healed == {[a EXCEPT !.engine = WolfEngine(a.game)] : a \in known}
             all == SetToSeq(healed)
             k == [task[s] EXCEPT !.at = IF healed # {} THEN "heal" ELSE "read", !.todo = all]
  <2>1. /\ task[s].at = "ask" /\ UNCHANGED <<table, shares, server, altc, stream, history, count>>
        /\ template' = IF \E i \in DOMAIN apps : apps[i].engine = "full" THEN "full" ELSE template
    BY <1>7 DEF BackfillAsk
  <2>2. task' = [task EXCEPT ![s] = k]
    BY <1>7 DEF BackfillAsk
  <2>3. healed \subseteq App /\ IsFiniteSet(healed)
    <3>1. task[s].todo \in Seq(App)
      BY <1>1 DEF Await
    <3>2. QED
      BY <1>2, <3>1, HealedIs
  <2> HIDE DEF healed, known
  <2>4. all \in Seq(App) /\ (healed # {} => all # <<>>)
    BY <2>3, SetToSeqIs
  <2> HIDE DEF all
  <2>5. k \in Await /\ Holds(k)
    BY <1>1, <2>1, <2>4 DEF Await, Holds
  <2> HIDE DEF k
  <2>6. template' \in Engine
    BY <1>2, <2>1 DEF Engine
  <2>7. QED
    BY <1>1, <2>1, <2>2, <2>5, <2>6, StepTyped
<1>8. ASSUME BackfillRow(s) PROVE TypeInv'
  <2> DEFINE a == Head(task[s].todo)
             row == [title |-> a.title, engine |-> a.engine]
             k == [task[s] EXCEPT !.at = IF Len(task[s].todo) = 1 THEN "read" ELSE @, !.todo = Tail(@)]
  <2>1. task[s].at = "heal"
    BY <1>8 DEF BackfillRow
  <2>2. a \in App /\ row \in Row /\ a.game \in Game /\ k \in Await /\ Holds(k)
    BY <1>1, <2>1, NextApp
  <2>3. /\ task' = [task EXCEPT ![s] = k] /\ Upsert(s, a.game, row)
        /\ UNCHANGED <<template, shares, server, altc, stream, count>>
    BY <1>8 DEF BackfillRow
  <2> HIDE DEF k, row, a
  <2>4. QED
    BY <1>1, <1>2, <2>2, <2>3, StepTyped
<1>9. QED
  BY <1>1, <1>3, <1>4, <1>5, <1>6, <1>7, <1>8, PushTyped DEF SyncStep

-----------------------------------------------------------------------------
(* What stops and starts. *)

LEMMA StopTyped ==
  ASSUME LibraryAssumption, TypeInv, Stop
  PROVE  count' \in [requests : 0..MaxRequests, stops : 0..MaxStops]
<1>1. MaxStops \in Nat /\ count \in [requests : 0..MaxRequests, stops : 0..MaxStops]
  BY DEF LibraryAssumption, TypeInv, TypeOK
<1>2. count' = [count EXCEPT !.stops = @ + 1] /\ count.stops < MaxStops
  BY DEF Stop
<1>3. QED
  BY <1>1, <1>2

LEMMA OutageTyped ==
  ASSUME LibraryAssumption, TypeInv,
         \/ WolfStops \/ WolfStarts \/ StreamBreaks \/ AltcStops \/ AltcStarts
         \/ \E r \in Request : HangUp(r)
  PROVE  TypeInv'
<1>1. TypeOK /\ TasksOK /\ <<>> \in Seq(App) /\ Config \in Seq(App)
  BY DEF TypeInv, LibraryAssumption
<1>2. ASSUME WolfStops PROVE TypeInv'
  <2>1. count' \in [requests : 0..MaxRequests, stops : 0..MaxStops]
    BY <1>2, StopTyped DEF WolfStops
  <2>2. push' \in [Task -> [alone : BOOLEAN, current : BOOLEAN, whole : BOOLEAN]]
    <3>1. \A t \in Task : [push[t] EXCEPT !.current = FALSE, !.whole = FALSE]
                            \in [alone : BOOLEAN, current : BOOLEAN, whole : BOOLEAN]
      BY <1>1 DEF TypeOK
    <3>2. push' = [t \in Task |->
                IF InPush(t) THEN [push[t] EXCEPT !.current = FALSE, !.whole = FALSE]
                ELSE push[t]]
      BY <1>2 DEF WolfStops
    <3>3. \A t \in Task : push[t] \in [alone : BOOLEAN, current : BOOLEAN, whole : BOOLEAN]
      BY <1>1 DEF TypeOK
    <3>4. QED
      BY <3>1, <3>2, <3>3
  <2>3. /\ wolf' = FALSE /\ apps' = <<>> /\ stream' = FALSE /\ mirror' = "no" /\ pushed' = FALSE
        /\ UNCHANGED <<db, altc, task>>
    BY <1>2 DEF WolfStops, StreamLost
  <2>4. QED
    BY <1>1, <2>1, <2>2, <2>3 DEF TypeInv, TypeOK, TasksOK, db
<1>3. ASSUME WolfStarts PROVE TypeInv'
  BY <1>1, <1>3 DEF WolfStarts, TypeInv, TypeOK, TasksOK, db, history
<1>4. ASSUME StreamBreaks PROVE TypeInv'
  <2>1. count' \in [requests : 0..MaxRequests, stops : 0..MaxStops]
    BY <1>4, StopTyped DEF StreamBreaks
  <2>2. stream' = FALSE /\ UNCHANGED <<db, server, altc, task, history>>
    BY <1>4 DEF StreamBreaks, StreamLost
  <2>3. QED
    BY <1>1, <2>1, <2>2 DEF TypeInv, TypeOK, TasksOK, db, server, history
<1>5. ASSUME AltcStops PROVE TypeInv'
  <2>1. count' \in [requests : 0..MaxRequests, stops : 0..MaxStops]
    BY <1>5, StopTyped DEF AltcStops
  <2>2. TasksOK'
    BY <1>5, IdleTyped DEF AltcStops, TasksOK, Holds
  <2>3. push' \in [Task -> [alone : BOOLEAN, current : BOOLEAN, whole : BOOLEAN]]
    BY <1>5 DEF AltcStops, Apart
  <2>4. altc' = FALSE /\ stream' = FALSE /\ UNCHANGED <<db, server, pushed>>
        /\ mirror' \in {"no", mirror}
    BY <1>5 DEF AltcStops, StreamLost
  <2>5. QED
    BY <1>1, <2>1, <2>2, <2>3, <2>4 DEF TypeInv, TypeOK, TasksOK, db, server
<1>6. ASSUME AltcStarts PROVE TypeInv'
  BY <1>1, <1>6 DEF AltcStarts, TypeInv, TypeOK, TasksOK, db, server, history
<1>7. ASSUME NEW r \in Request, HangUp(r) PROVE TypeInv'
  <2>1. count' \in [requests : 0..MaxRequests, stops : 0..MaxStops]
    BY <1>7, StopTyped DEF HangUp
  <2>2. HistoryOK' /\ TasksOK'
    BY <1>7, AbandonTyped DEF HangUp, Task
  <2>3. UNCHANGED <<db, server, altc, stream>>
    BY <1>7 DEF HangUp
  <2>4. QED
    BY <1>1, <2>1, <2>2, <2>3 DEF TypeInv, TypeOK, TasksOK, HistoryOK, db, server
<1>8. QED
  BY <1>2, <1>3, <1>4, <1>5, <1>6, <1>7

LEMMA InitTyped == ASSUME LibraryAssumption, Init PROVE TypeInv
<1>1. /\ wolf = TRUE /\ apps = Config /\ altc = TRUE /\ stream = FALSE
      /\ task = [t \in Task |-> Idle] /\ push = [t \in Task |-> Apart]
      /\ mirror = "no" /\ pushed = FALSE /\ count = [requests |-> 0, stops |-> 0]
  BY DEF Init
<1>2. table \in [Game -> Row \cup {None}] /\ template \in Engine /\ shares \in SUBSET Game
  <2>1. PICK p \in Past \cup {Fresh} : table = p.table /\ template = p.template /\ shares = p.shares
    BY DEF Init
  <2>2. Fresh \in [table : [Game -> Row \cup {None}], template : Engine, shares : SUBSET Game]
    BY DEF Fresh, Engine
  <2>3. p \in [table : [Game -> Row \cup {None}], template : Engine, shares : SUBSET Game]
    BY <2>2 DEF LibraryAssumption
  <2>4. QED
    BY <2>1, <2>3
<1>3. TasksOK
  BY <1>1, IdleTyped DEF TasksOK
<1>4. push \in [Task -> [alone : BOOLEAN, current : BOOLEAN, whole : BOOLEAN]]
  BY <1>1 DEF Apart
<1>5. count \in [requests : 0..MaxRequests, stops : 0..MaxStops] /\ Config \in Seq(App)
  BY <1>1 DEF LibraryAssumption
<1>6. QED
  BY <1>1, <1>2, <1>3, <1>4, <1>5 DEF TypeInv, TypeOK, TasksOK

\* A step of Next keeps the types.
LEMMA NextTyped ==
  ASSUME LibraryAssumption, TypeInv, [Next]_vars
  PROVE  TypeInv'
<1>1. CASE UNCHANGED vars
  BY <1>1 DEF vars, TypeInv, TypeOK, TasksOK, db, server, history
<1>2. ASSUME NEW r \in Request, NewTask(r) PROVE TypeInv'
  BY <1>2, NewTaskTyped
<1>3. ASSUME NEW r \in Request, RequestStep(r) PROVE TypeInv'
  BY <1>3, RequestStepTyped
<1>4. ASSUME NEW s \in Syncs, Connect(s) PROVE TypeInv'
  BY <1>4, ConnectTyped
<1>5. ASSUME NEW s \in Syncs, SyncStep(s) PROVE TypeInv'
  BY <1>5, SyncStepTyped
<1>6. ASSUME \/ WolfStops \/ WolfStarts \/ StreamBreaks \/ AltcStops \/ AltcStarts
             \/ \E r \in Request : HangUp(r)
      PROVE  TypeInv'
  BY <1>6, OutageTyped
<1>7. QED
  BY <1>1, <1>2, <1>3, <1>4, <1>5, <1>6 DEF Next

\* Every variable keeps its type, whatever the tasks do and whatever stops: a
\* task at an await holds what the code after it takes for granted, and no list
\* it goes through is empty (library.rs, routes/apps.rs).
THEOREM TypeCorrect == Spec => []TypeOK
<1>1. Init => TypeInv
  BY InitTyped, LibraryAssumption
<1>2. TypeInv /\ [Next]_vars => TypeInv'
  BY NextTyped, LibraryAssumption
<1>3. TypeInv => TypeOK
  BY DEF TypeInv
<1>4. QED
  BY <1>1, <1>2, <1>3, PTL DEF Spec

-----------------------------------------------------------------------------
(* Which steps a push that is under way has to do with. *)

\* A task steps outside of a push: it leaves the table and what others know of
\* it as they are, or the pushes that are under way are of an older table.
Elsewhere(t) ==
  /\ \A u \in Task \ {t} : task'[u] = task[u]
  /\ task'[t].at \notin {"apps", "delete", "add"}
  /\ UNCHANGED <<wolf, apps>>
  /\ \/ ~InPush(t) /\ UNCHANGED <<table, push, mirror>>
     \/ Disturb(t) /\ mirror' = "no"

\* What a task holds next says whether it steps outside of a push.
LEMMA ElsewhereIf ==
  ASSUME TypeInv, NEW t \in Task, NEW k, task' = [task EXCEPT ![t] = k],
         k.at \notin {"apps", "delete", "add"}, UNCHANGED <<wolf, apps>>,
         \/ ~InPush(t) /\ UNCHANGED <<table, push, mirror>>
         \/ Disturb(t) /\ mirror' = "no"
  PROVE  Elsewhere(t)
<1>1. task'[t] = k /\ \A u \in Task \ {t} : task'[u] = task[u]
  BY DEF TypeInv, TasksOK
<1>2. QED
  BY <1>1 DEF Elsewhere

\* So does everything that is not a push.
LEMMA NewTaskElsewhere ==
  ASSUME TypeInv, NEW r \in Request, NewTask(r)
  PROVE  Elsewhere(r)
<1>1. r \in Task
  BY DEF Task
<1>2. ASSUME NewRequest(r) PROVE ~InPush(r)
  BY <1>2 DEF NewRequest, InPush
<1>3. ASSUME NEW title \in Title, Create(r, title) PROVE Elsewhere(r)
  <2> DEFINE k == [Idle EXCEPT !.at = "insert", !.title = title, !.engine = template]
  <2>1. task' = [task EXCEPT ![r] = k] /\ k.at = "insert"
    BY <1>3 DEF Create, Idle
  <2> HIDE DEF k
  <2>2. QED
    BY <1>1, <1>2, <1>3, <2>1, ElsewhereIf DEF Create, db, server, history
<1>4. ASSUME NEW g \in Game, NEW title \in Title \cup {None}, NEW configure \in BOOLEAN,
             Update(r, g, title, configure)
      PROVE  Elsewhere(r)
  <2> DEFINE k == [Idle EXCEPT !.at = "rename", !.game = g,
                               !.title = IF title = None THEN table[g].title ELSE title,
                               !.then = IF configure THEN "reread" ELSE "idle"]
  <2>1. task' = [task EXCEPT ![r] = k] /\ k.at = "rename"
    BY <1>4 DEF Update, Idle
  <2> HIDE DEF k
  <2>2. QED
    BY <1>1, <1>2, <1>4, <2>1, ElsewhereIf DEF Update, db, server, history
<1>5. ASSUME NEW g \in Game, Refresh(r, g) \/ CheckShares(r, g) PROVE Elsewhere(r)
  <2>1. /\ NewRequest(r) /\ UNCHANGED <<db, server, altc, stream, history>>
        /\ \E at \in {"find", "share"} : task' = [task EXCEPT ![r] = [Idle EXCEPT !.at = at, !.game = g]]
    BY <1>5 DEF Refresh, CheckShares
  <2>2. PICK at \in {"find", "share"} : task' = [task EXCEPT ![r] = [Idle EXCEPT !.at = at, !.game = g]]
    BY <2>1
  <2> DEFINE k == [Idle EXCEPT !.at = at, !.game = g]
  <2>3. task' = [task EXCEPT ![r] = k] /\ k.at = at
    BY <2>2 DEF Idle
  <2> HIDE DEF k
  <2>4. QED
    BY <1>1, <1>2, <2>1, <2>3, ElsewhereIf DEF db, server, history
<1>6. ASSUME NEW g \in Game, Delete(r, g) PROVE Elsewhere(r)
  <2> DEFINE k == [Idle EXCEPT !.at = "read"]
  <2>1. task' = [task EXCEPT ![r] = k] /\ k.at = "read"
    BY <1>6 DEF Delete, Idle
  <2> HIDE DEF k
  <2>2. QED
    BY <1>1, <1>6, <2>1, ElsewhereIf DEF Delete, Upsert, Outdate, server
<1>7. QED
  BY <1>3, <1>4, <1>5, <1>6 DEF NewTask

LEMMA RequestElsewhere ==
  ASSUME TypeInv, NEW r \in Request,
         (\E g \in Game : Insert(r, g)) \/ Rename(r) \/ Reread(r) \/ Save(r) \/ SetShares(r)
  PROVE  Elsewhere(r)
<1>1. r \in Task /\ task[r] \in Await
  BY DEF Task, TypeInv, TasksOK
<1>2. ASSUME NEW g \in Game, Insert(r, g) PROVE Elsewhere(r)
  <2> DEFINE k == [Idle EXCEPT !.at = "read", !.then = "find", !.game = g]
  <2>1. task' = [task EXCEPT ![r] = k] /\ k.at = "read"
    BY <1>2 DEF Insert, Idle
  <2> HIDE DEF k
  <2>2. QED
    BY <1>1, <1>2, <2>1, ElsewhereIf DEF Insert, Upsert, Outdate, server
<1>3. ASSUME Rename(r) PROVE Elsewhere(r)
  <2> DEFINE g == task[r].game
             k == IF task[r].then = "reread" THEN [Idle EXCEPT !.at = "reread", !.game = g]
                  ELSE [Idle EXCEPT !.at = "read"]
  <2>1. CASE table[g] = None
    <3>1. task' = [task EXCEPT ![r] = Idle] /\ Idle.at = "idle" /\ ~InPush(r)
      BY <1>3, <2>1 DEF Rename, End, Idle, InPush
    <3>2. UNCHANGED <<table, history, server>>
      BY <1>3, <2>1 DEF Rename
    <3>3. QED
      BY <1>1, <3>1, <3>2, ElsewhereIf DEF server, history
  <2>2. CASE table[g] # None
    <3>1. task' = [task EXCEPT ![r] = k] /\ k.at \in {"reread", "read"}
      BY <1>3, <2>2 DEF Rename, Idle
    <3>2. Disturb(r) /\ mirror' = "no" /\ UNCHANGED server
      BY <1>3, <2>2 DEF Rename, Upsert, Outdate
    <3> HIDE DEF k
    <3>3. QED
      BY <1>1, <3>1, <3>2, ElsewhereIf DEF server
  <2>3. QED
    BY <2>1, <2>2
<1>4. ASSUME Reread(r) PROVE Elsewhere(r)
  <2>1. ~InPush(r) /\ UNCHANGED <<db, server, history>>
    BY <1>4 DEF Reread, InPush
  <2>2. CASE End(r)
    <3>1. task' = [task EXCEPT ![r] = Idle] /\ Idle.at = "idle"
      BY <2>2 DEF End, Idle
    <3>2. QED
      BY <1>1, <2>1, <3>1, ElsewhereIf DEF db, server, history
  <2>3. ASSUME NEW title, NEW engine,
               task' = [task EXCEPT ![r].at = "save", ![r].title = title, ![r].engine = engine]
        PROVE  Elsewhere(r)
    <3> DEFINE k == [task[r] EXCEPT !.at = "save", !.title = title, !.engine = engine]
    <3>1. task' = [task EXCEPT ![r] = k]
      BY <1>1, <2>3 DEF TypeInv, TasksOK, Await
    <3>2. k.at = "save"
      BY <1>1 DEF Await
    <3> HIDE DEF k
    <3>3. QED
      BY <1>1, <2>1, <3>1, <3>2, ElsewhereIf DEF db, server, history
  <2>4. QED
    BY <1>4, <2>2, <2>3 DEF Reread
<1>5. ASSUME Save(r) PROVE Elsewhere(r)
  <2> DEFINE k == [Idle EXCEPT !.at = "read"]
  <2>1. task' = [task EXCEPT ![r] = k] /\ k.at = "read"
    BY <1>5 DEF Save, Idle
  <2> HIDE DEF k
  <2>2. QED
    BY <1>1, <1>5, <2>1, ElsewhereIf DEF Save, Upsert, Outdate, server
<1>6. ASSUME SetShares(r) PROVE Elsewhere(r)
  <2>1. task' = [task EXCEPT ![r] = Idle] /\ Idle.at = "idle" /\ ~InPush(r)
    BY <1>6 DEF SetShares, End, Idle, InPush
  <2>2. QED
    BY <1>1, <1>6, <2>1, ElsewhereIf DEF SetShares, server, history
<1>7. QED
  BY <1>2, <1>3, <1>4, <1>5, <1>6

LEMMA SyncElsewhere ==
  ASSUME TypeInv, NEW s \in Syncs,
         \/ Connect(s) \/ SyncCount(s) \/ ImportFetch(s) \/ ImportApp(s)
         \/ BackfillList(s) \/ BackfillAsk(s) \/ BackfillRow(s)
  PROVE  Elsewhere(s)
<1>1. s \in Task /\ task[s] \in Await /\ task \in [Task -> Await]
  BY DEF Task, TypeInv, TasksOK
<1>2. ASSUME NEW at \in {"count", "fetch", "stale"}, Goto(s, at), ~InPush(s),
             UNCHANGED <<db, server, history>>
      PROVE  Elsewhere(s)
  <2> DEFINE k == [task[s] EXCEPT !.at = at]
  <2>1. task' = [task EXCEPT ![s] = k] /\ k.at = at
    BY <1>1, <1>2 DEF Goto, Await
  <2> HIDE DEF k
  <2>2. QED
    BY <1>1, <1>2, <2>1, ElsewhereIf DEF db, server, history
<1>3. ASSUME Connect(s) PROVE Elsewhere(s)
  BY <1>2, <1>3 DEF Connect, SpawnSync, InPush
<1>4. ASSUME SyncCount(s) PROVE Elsewhere(s)
  BY <1>2, <1>4 DEF SyncCount, InPush
<1>5. ASSUME ~InPush(s),
             \E at \in {"stale", "import", "read", "ask", "heal"} : \E todo :
                task' = [task EXCEPT ![s].at = at, ![s].todo = todo],
             UNCHANGED <<wolf, apps>>,
             \/ UNCHANGED <<table, push, mirror>>
             \/ Disturb(s) /\ mirror' = "no"
      PROVE  Elsewhere(s)
  <2>1. PICK at \in {"stale", "import", "read", "ask", "heal"} : \E todo :
                task' = [task EXCEPT ![s].at = at, ![s].todo = todo]
    BY <1>5
  <2>2. PICK todo : task' = [task EXCEPT ![s].at = at, ![s].todo = todo]
    BY <2>1
  <2> DEFINE k == [task[s] EXCEPT !.at = at, !.todo = todo]
  <2>3. task' = [task EXCEPT ![s] = k]
    BY <1>1, <2>2
  <2>4. k.at = at
    BY <1>1 DEF Await
  <2> HIDE DEF k
  <2>5. QED
    BY <1>1, <1>5, <2>3, <2>4, ElsewhereIf
<1>6. ASSUME ImportFetch(s) PROVE Elsewhere(s)
  <2>1. ~InPush(s) /\ UNCHANGED <<db, server, history>>
    BY <1>6 DEF ImportFetch, InPush
  <2>2. CASE wolf
    <3>1. \E at \in {"stale", "import", "read", "ask", "heal"} : \E todo :
             task' = [task EXCEPT ![s].at = at, ![s].todo = todo]
      BY <1>6, <2>2 DEF ImportFetch
    <3>2. UNCHANGED <<wolf, apps>> /\ UNCHANGED <<table, push, mirror>>
      BY <2>1 DEF db, server, history
    <3>3. QED
      BY <1>5, <2>1, <3>1, <3>2
  <2>3. CASE ~wolf
    <3>1. task' = [task EXCEPT ![s] = Idle] /\ Idle.at = "idle"
      BY <1>6, <2>3 DEF ImportFetch, End, Idle
    <3>2. QED
      BY <1>1, <2>1, <3>1, ElsewhereIf DEF db, server, history
  <2>4. QED
    BY <2>2, <2>3
<1>7. ASSUME ImportApp(s) PROVE Elsewhere(s)
  BY <1>5, <1>7 DEF ImportApp, Upsert, Outdate, InPush, server
<1>8. ASSUME BackfillList(s) PROVE Elsewhere(s)
  <2>1. \E at \in {"stale", "import", "read", "ask", "heal"} : \E todo :
           task' = [task EXCEPT ![s].at = at, ![s].todo = todo]
    BY <1>8 DEF BackfillList
  <2>2. ~InPush(s) /\ UNCHANGED <<wolf, apps>> /\ UNCHANGED <<table, push, mirror>>
    BY <1>8 DEF BackfillList, InPush, db, server, history
  <2>3. QED
    BY <1>5, <2>1, <2>2
<1>9. ASSUME BackfillAsk(s) PROVE Elsewhere(s)
  <2>1. \E at \in {"stale", "import", "read", "ask", "heal"} : \E todo :
           task' = [task EXCEPT ![s].at = at, ![s].todo = todo]
    BY <1>9 DEF BackfillAsk
  <2>2. ~InPush(s) /\ UNCHANGED <<wolf, apps>> /\ UNCHANGED <<table, push, mirror>>
    BY <1>9 DEF BackfillAsk, InPush, server, history
  <2>3. QED
    BY <1>5, <2>1, <2>2
<1>10. ASSUME BackfillRow(s) PROVE Elsewhere(s)
  BY <1>5, <1>10 DEF BackfillRow, Upsert, Outdate, InPush, server
<1>11. QED
  BY <1>3, <1>4, <1>6, <1>7, <1>8, <1>9, <1>10

LEMMA EndElsewhere ==
  ASSUME TypeInv, NEW t \in Task,
         Abandon(t) /\ UNCHANGED <<db, server>>
  PROVE  Elsewhere(t)
<1>1. task' = [task EXCEPT ![t] = Idle] /\ Idle.at = "idle"
  BY DEF Abandon, End, Idle
<1>2. QED
  BY <1>1, ElsewhereIf DEF Abandon, db, server, history

\* push() has nothing to push, or refuses to.
LEMMA NoPushElsewhere ==
  ASSUME TypeInv, NEW t \in Task, PushRead(t), UNCHANGED history,
         Finish(t) \/ End(t)
  PROVE  Elsewhere(t)
<1>1. ~InPush(t) /\ UNCHANGED <<db, server>>
  BY DEF PushRead, InPush
<1>2. CASE End(t)
  <2>1. task' = [task EXCEPT ![t] = Idle] /\ Idle.at = "idle"
    BY <1>2 DEF End, Idle
  <2>2. QED
    BY <1>1, <2>1, ElsewhereIf DEF db, server, history
<1>3. CASE Finish(t)
  <2> DEFINE k == [Idle EXCEPT !.at = task[t].then,
                               !.game = IF task[t].then = "find" THEN task[t].game ELSE None]
  <2>1. task' = [task EXCEPT ![t] = k]
    BY <1>3 DEF Finish
  <2>2. k.at = task[t].then /\ task[t].then \in {"idle", "find", "reread"}
    BY DEF Idle, TypeInv, TasksOK, Await
  <2> HIDE DEF k
  <2>3. QED
    BY <1>1, <2>1, <2>2, ElsewhereIf DEF db, server, history
<1>4. QED
  BY <1>2, <1>3

-----------------------------------------------------------------------------
(* What a push does, of any table and any list. *)

\* The app is what a row would be pushed as, but for the engine config.
Titled(a) == a.game \in Owned /\ Same(a, a.game)

\* A push that is under way, of the table as it is.
Current(t) == InPush(t) /\ push[t].current

\* A push that nothing overlaps counts what it deletes and adds.
Exact(t) ==
  /\ task[t].at \in {"apps", "delete"} => Len(task[t].todo) = Cardinality(Owned)
  /\ task[t].at = "delete" => \A a \in ToSet(apps) : a.game \in ToSet(task[t].del)
  /\ task[t].at = "add" => Len(apps) + Len(task[t].todo) = Cardinality(Owned)

\* What it is still to add: until it adds, all of the table.
Coming(t) ==
  /\ \A a \in ToSet(task[t].todo) : Titled(a)
  /\ task[t].at \in {"apps", "delete"} => \A g \in Owned : AppOf(g) \in ToSet(task[t].todo)
  /\ task[t].at # "apps" => wolf
  /\ push[t].alone => Exact(t) /\ \A u \in Task : InPush(u) => u = t

\* No game is lost: what is not listed is still to be added.
Complete ==
  \A g \in Owned : \/ \E a \in ToSet(apps) : Same(a, g)
                   \/ \E t \in Task : InPush(t) /\ \E a \in ToSet(task[t].todo) : Same(a, g)

\* What is listed and is not the table's is still to be deleted.
Sound ==
  \A a \in ToSet(apps) :
    \/ Titled(a)
    \/ \E t \in Task : \/ task[t].at = "apps"
                       \/ task[t].at = "delete" /\ a.game \in ToSet(task[t].del)

\* Pushes that are under way are all of the table as it is, or none is.
Uniform == \A t, u \in Task : InPush(t) /\ InPush(u) => push[t].current = push[u].current

\* MirrorsTable of the list's apps in no order.
Mirrored ==
  (mirror # "no" /\ \A t \in Task : ~InPush(t)) =>
    /\ \A g \in Owned : \E a \in ToSet(apps) : Same(a, g)
    /\ \A a \in ToSet(apps) : Titled(a)
    /\ mirror = "exact" => Len(apps) = Cardinality(Owned)

\* The inductive invariant.
MirrorInv ==
  /\ Uniform
  /\ ~wolf => mirror = "no"
  /\ \A t \in Task : Current(t) => Coming(t)
  /\ (\E t \in Task : Current(t)) => Complete /\ Sound
  /\ Mirrored

LEMMA MirrorGives == ASSUME TypeOK, MirrorInv PROVE MirrorsTable
<1>1. apps \in Seq(App) /\ ToSet(apps) = {apps[i] : i \in DOMAIN apps}
  BY DEF TypeOK, ToSet
<1>2. Mirrored
  BY DEF MirrorInv
<1>3. QED
  BY <1>1, <1>2 DEF Mirrored, MirrorsTable, Titled

\* The table is the same: so are its rows as apps.
LEMMA SameTable ==
  ASSUME UNCHANGED table
  PROVE  /\ Owned' = Owned
         /\ \A a : Titled(a)' <=> Titled(a)
         /\ \A a, g : Same(a, g)' <=> Same(a, g)
         /\ \A g : AppOf(g)' = AppOf(g)
<1>1. Owned' = Owned /\ \A a, g : Same(a, g)' <=> Same(a, g)
  BY DEF Owned, Same
<1>2. \A a : Titled(a)' <=> Titled(a)
  BY <1>1 DEF Titled
<1>3. \A g : AppOf(g)' = AppOf(g)
  BY DEF AppOf
<1>4. QED
  BY <1>1, <1>2, <1>3

\* The pushes that are under way are of an older table: nothing is promised.
LEMMA Outdated ==
  ASSUME TypeInv', mirror' = "no", \A t \in Task : ~Current(t)'
  PROVE  MirrorInv'
<1>1. Uniform'
  <2>1. \A t \in Task : InPush(t)' => ~push'[t].current
    BY DEF Current
  <2>2. ASSUME NEW t \in Task, NEW u \in Task, InPush(t)', InPush(u)'
        PROVE  push'[t].current = push'[u].current
    <3>1. push'[t].current \in BOOLEAN /\ push'[u].current \in BOOLEAN
      BY DEF TypeInv, TypeOK
    <3>2. ~push'[t].current /\ ~push'[u].current
      BY <2>1, <2>2
    <3>3. QED
      BY <3>1, <3>2
  <2>3. QED
    BY <2>2 DEF Uniform
<1>2. Mirrored'
  BY DEF Mirrored
<1>3. QED
  BY <1>1, <1>2 DEF MirrorInv

\* Nothing that a push has to do with changes.
LEMMA Still ==
  ASSUME MirrorInv, UNCHANGED <<table, server, push, mirror>>,
         \A t \in Task : InPush(t) => task'[t] = task[t],
         \A t \in Task : InPush(t)' => InPush(t)
  PROVE  MirrorInv'
<1>1. \A t \in Task : InPush(t)' <=> InPush(t)
  BY DEF InPush
<1>2. UNCHANGED <<table, wolf, apps, push, mirror>>
  BY DEF server
<1>3. /\ Owned' = Owned /\ \A a : Titled(a)' <=> Titled(a)
      /\ \A a, g : Same(a, g)' <=> Same(a, g)
      /\ \A g : AppOf(g)' = AppOf(g)
  BY <1>2, SameTable
<1>4. \A t \in Task : Current(t)' <=> Current(t)
  BY <1>1, <1>2 DEF Current
<1>5. Uniform'
  BY <1>1, <1>2 DEF MirrorInv, Uniform
<1>6. ASSUME NEW t \in Task, Current(t)' PROVE Coming(t)'
  <2>1. Current(t) /\ Coming(t) /\ task'[t] = task[t]
    BY <1>4, <1>6 DEF MirrorInv, Current
  <2>2. push[t].alone => Exact(t)'
    BY <1>2, <1>3, <2>1 DEF Coming, Exact
  <2>3. QED
    BY <1>1, <1>2, <1>3, <2>1, <2>2 DEF Coming
<1>7. ASSUME NEW t \in Task, Current(t)' PROVE Complete' /\ Sound'
  <2>1. Complete /\ Sound
    BY <1>4, <1>7 DEF MirrorInv
  <2>2. Complete'
    BY <1>1, <1>2, <1>3, <2>1 DEF Complete
  <2>3. Sound'
    <3>1. \A u \in Task : task[u].at \in {"apps", "delete"} => task'[u] = task[u]
      BY DEF InPush
    <3>2. QED
      BY <1>2, <1>3, <2>1, <3>1 DEF Sound
  <2>4. QED
    BY <2>2, <2>3
<1>8. Mirrored'
  <2>1. Mirrored
    BY DEF MirrorInv
  <2>2. QED
    BY <1>1, <1>2, <1>3, <2>1 DEF Mirrored
<1>9. QED
  BY <1>2, <1>5, <1>6, <1>7, <1>8 DEF MirrorInv

\* A step outside of a push keeps the invariant, or makes the pushes old.
LEMMA ElsewhereMirrors ==
  ASSUME TypeInv, TypeInv', MirrorInv, NEW t \in Task, Elsewhere(t)
  PROVE  MirrorInv'
<1>1. ~InPush(t)' /\ UNCHANGED <<wolf, apps>> /\ \A u \in Task \ {t} : task'[u] = task[u]
  BY DEF Elsewhere, InPush
<1>2. \A u \in Task : InPush(u)' => InPush(u) /\ u # t
  BY <1>1 DEF InPush
<1>3. CASE ~InPush(t) /\ UNCHANGED <<table, push, mirror>>
  <2>1. \A u \in Task : InPush(u) => task'[u] = task[u]
    BY <1>1, <1>3
  <2>2. UNCHANGED <<table, server, push, mirror>>
    BY <1>1, <1>3 DEF server
  <2>3. QED
    BY <1>2, <2>1, <2>2, Still
<1>4. CASE Disturb(t) /\ mirror' = "no"
  <2>1. ASSUME NEW u \in Task, InPush(u)' PROVE ~push'[u].current
    <3>1. push'[u] = [push[u] EXCEPT !.current = FALSE]
      BY <1>2, <1>4, <2>1 DEF Disturb
    <3>2. push[u] \in [alone : BOOLEAN, current : BOOLEAN, whole : BOOLEAN]
      BY DEF TypeInv, TypeOK
    <3>3. QED
      BY <3>1, <3>2
  <2>2. \A u \in Task : ~Current(u)'
    BY <2>1 DEF Current
  <2>3. QED
    BY <1>4, <2>2, Outdated
<1>5. QED
  BY <1>3, <1>4 DEF Elsewhere

-----------------------------------------------------------------------------
(* Every step keeps it. *)

\* A push reads the table.
LEMMA PushReadMirrors ==
  ASSUME LibraryAssumption, TypeInv, TypeInv', MirrorInv, NEW t \in Task, PushRead(t)
  PROVE  MirrorInv'
<1>1. CASE (Finish(t) \/ End(t)) /\ UNCHANGED history
  BY <1>1, NoPushElsewhere, ElsewhereMirrors
<1>2. CASE ~((Finish(t) \/ End(t)) /\ UNCHANGED history)
  <2> DEFINE all == SetToSeq({AppOf(g) : g \in Owned})
             others == {u \in Task : InPush(u)}
             first == others = {}
             fresh == \A o \in others : push[o].current
             mine == [alone |-> first, current |-> fresh, whole |-> TRUE]
  <2>1. /\ task' = [task EXCEPT ![t].at = "apps", ![t].todo = all]
        /\ push' = [u \in Task |->
                 IF u = t THEN mine
                 ELSE IF u \in others THEN [push[u] EXCEPT !.alone = FALSE]
                 ELSE push[u]]
        /\ UNCHANGED <<mirror, pushed>> /\ UNCHANGED <<db, server, altc, stream, count>>
        /\ task[t].at = "read"
    BY <1>2 DEF PushRead
  <2>2. /\ ToSet(all) = {AppOf(g) : g \in Owned}
        /\ Len(all) = Cardinality(Owned)
        /\ \A g \in Owned : AppOf(g).game = g
    <3>1. /\ {AppOf(g) : g \in Owned} \subseteq App /\ IsFiniteSet({AppOf(g) : g \in Owned})
          /\ Cardinality({AppOf(g) : g \in Owned}) = Cardinality(Owned)
          /\ \A g \in Owned : AppOf(g).game = g
      BY AppsOf DEF TypeInv
    <3>2. QED
      BY <3>1, SetToSeqIs
  <2> HIDE DEF all, first, fresh
  <2>3. /\ task'[t].at = "apps" /\ task'[t].todo = all
        /\ \A u \in Task \ {t} : task'[u] = task[u]
    BY <2>1 DEF TypeInv, TasksOK, Await
  <2>4. UNCHANGED <<table, wolf, apps, mirror>>
    BY <2>1 DEF db, server
  <2>5. /\ Owned' = Owned /\ \A a : Titled(a)' <=> Titled(a)
        /\ \A a, g : Same(a, g)' <=> Same(a, g)
        /\ \A g : AppOf(g)' = AppOf(g)
    BY <2>4, SameTable
  <2>6. /\ InPush(t)' /\ ~InPush(t) /\ t \notin others
        /\ \A u \in Task \ {t} : InPush(u)' <=> InPush(u)
    BY <2>1, <2>3 DEF InPush
  <2>7. /\ push'[t].current = fresh /\ push'[t].alone = first
        /\ \A u \in others : push'[u].current = push[u].current /\ push'[u].alone = FALSE
    <3>1. push'[t] = mine /\ \A u \in others : push'[u] = [push[u] EXCEPT !.alone = FALSE]
      BY <2>1, <2>6
    <3>2. \A u \in Task : push[u] \in [alone : BOOLEAN, current : BOOLEAN, whole : BOOLEAN]
      BY DEF TypeInv, TypeOK
    <3>3. mine.current = fresh /\ mine.alone = first
      OBVIOUS
    <3> HIDE DEF mine
    <3>4. \A u \in others : push'[u].current = push[u].current /\ push'[u].alone = FALSE
      BY <3>1, <3>2 DEF others
    <3>5. QED
      BY <3>1, <3>3, <3>4
  <2>8. \A u \in Task : u \in others <=> InPush(u)
    OBVIOUS
  <2> HIDE DEF others, mine
  <2>9. Uniform'
    <3>1. \A u, v \in others : push[u].current = push[v].current
      BY DEF MirrorInv, Uniform, others
    <3>2. \A u \in others : push[u].current \in BOOLEAN
      BY <2>8 DEF TypeInv, TypeOK, others
    <3>3. \A u \in others : push'[t].current = push'[u].current
      <4>1. ASSUME NEW u \in others PROVE fresh <=> push[u].current
        BY <3>1, <3>2 DEF fresh
      <4>2. \A u \in others : fresh = push[u].current
        BY <3>2, <4>1 DEF fresh
      <4>3. QED
        BY <2>7, <4>2
    <3>4. \A u \in Task : InPush(u)' => u = t \/ u \in others
      BY <2>6, <2>8
    <3>5. \A u, v \in Task : InPush(u)' /\ InPush(v)' => push'[u].current = push'[v].current
      BY <2>7, <3>1, <3>3, <3>4
    <3>6. QED
      BY <3>5 DEF Uniform
  <2>10. Coming(t)'
    <3>1. \A a \in ToSet(all) : Titled(a)
      BY <2>2 DEF Titled, Same, AppOf
    <3>2. \A g \in Owned : AppOf(g) \in ToSet(all)
      BY <2>2
    <3>3. Exact(t)'
      BY <2>2, <2>3, <2>5 DEF Exact
    <3>4. push'[t].alone => \A u \in Task : InPush(u)' => u = t
      BY <2>6, <2>7, <2>8 DEF first
    <3>5. QED
      BY <2>3, <2>5, <3>1, <3>2, <3>3, <3>4 DEF Coming
  <2>11. ASSUME NEW u \in Task, u # t, Current(u)' PROVE Coming(u)'
    <3>1. u \in others /\ push[u].current /\ InPush(u) /\ push'[u].alone = FALSE
      BY <2>6, <2>7, <2>8, <2>11 DEF Current
    <3>2. Coming(u)
      BY <3>1 DEF MirrorInv, Current
    <3>3. task'[u] = task[u]
      BY <2>3, <2>11
    <3>4. QED
      BY <2>4, <2>5, <3>1, <3>2, <3>3 DEF Coming
  <2>12. Complete'
    <3>1. ASSUME NEW g \in Owned PROVE \E a \in ToSet(task'[t].todo) : Same(a, g)
      <4>1. AppOf(g) \in ToSet(task'[t].todo)
        BY <2>2, <2>3
      <4>2. Same(AppOf(g), g)
        BY DEF Same, AppOf
      <4>3. QED
        BY <4>1, <4>2
    <3>2. QED
      BY <2>5, <2>6, <3>1 DEF Complete
  <2>13. Sound' /\ Mirrored'
    BY <2>3, <2>6 DEF Sound, Mirrored
  <2>14. QED
    BY <2>4, <2>9, <2>10, <2>11, <2>12, <2>13 DEF MirrorInv
<1>3. QED
  BY <1>1, <1>2

\* It asks for the list.
LEMMA PushAppsMirrors ==
  ASSUME TypeInv, MirrorInv, NEW t \in Task, PushApps(t)
  PROVE  MirrorInv'
<1>1. /\ task[t].at = "apps" /\ wolf /\ UNCHANGED <<table, wolf, apps, push, mirror>>
      /\ task' = [task EXCEPT ![t].at = IF ListedIds = <<>> THEN "add" ELSE "delete",
                              ![t].del = ListedIds]
  BY DEF PushApps, db, server, history
<1>2. /\ ToSet(ListedIds) = {a.game : a \in ToSet(apps)}
      /\ ListedIds = <<>> => ToSet(apps) = {} /\ Len(apps) = 0
  BY ListedIs DEF TypeInv, TypeOK
<1>3. /\ task'[t].at = IF ListedIds = <<>> THEN "add" ELSE "delete"
      /\ task'[t].del = ListedIds /\ task'[t].todo = task[t].todo
      /\ \A u \in Task \ {t} : task'[u] = task[u]
  BY <1>1 DEF TypeInv, TasksOK, Await
<1>4. /\ Owned' = Owned /\ \A a : Titled(a)' <=> Titled(a)
      /\ \A a, g : Same(a, g)' <=> Same(a, g)
      /\ \A g : AppOf(g)' = AppOf(g)
  BY <1>1, SameTable
<1>5. InPush(t)' /\ InPush(t) /\ \A u \in Task : InPush(u)' <=> InPush(u)
  BY <1>1, <1>3 DEF InPush
<1>6. Uniform'
  BY <1>1, <1>5 DEF MirrorInv, Uniform
<1>7. \A u \in Task : task'[u].todo = task[u].todo
  BY <1>3
<1>8. \A u \in Task : Current(u)' <=> Current(u)
  BY <1>1, <1>5 DEF Current
<1>9. ASSUME Current(t) PROVE Coming(t)'
  <2>1. Coming(t)
    BY <1>9 DEF MirrorInv
  <2>2. push[t].alone => Exact(t)'
    <3>1. push[t].alone => Len(task[t].todo) = Cardinality(Owned)
      BY <1>1, <2>1 DEF Coming, Exact
    <3>2. Cardinality(Owned) \in Nat \/ ~push[t].alone
      BY <3>1 DEF TypeInv, TasksOK, Await
    <3>3. CASE ListedIds = <<>>
      BY <1>1, <1>2, <1>3, <1>4, <3>1, <3>2, <3>3 DEF Exact
    <3>4. CASE ListedIds # <<>>
      <4>1. task'[t].at = "delete" /\ \A a \in ToSet(apps') : a.game \in ToSet(task'[t].del)
        BY <1>1, <1>2, <1>3, <3>4
      <4>2. push[t].alone => Len(task'[t].todo) = Cardinality(Owned')
        BY <1>3, <1>4, <3>1
      <4>3. QED
        BY <4>1, <4>2 DEF Exact
    <3>5. QED
      BY <3>3, <3>4
  <2>3. QED
    BY <1>1, <1>3, <1>4, <1>5, <2>1, <2>2 DEF Coming
<1>10. ASSUME NEW u \in Task, u # t, Current(u) PROVE Coming(u)'
  <2>1. Coming(u) /\ ~push[u].alone /\ task'[u] = task[u]
    BY <1>3, <1>5, <1>10 DEF MirrorInv, Coming
  <2>2. QED
    BY <1>1, <1>4, <2>1 DEF Coming
<1>11. ASSUME NEW u \in Task, Current(u) PROVE Complete' /\ Sound'
  <2>1. Complete /\ Sound
    BY <1>11 DEF MirrorInv
  <2>2. Complete'
    BY <1>1, <1>4, <1>5, <1>7, <2>1 DEF Complete
  <2>3. \A a \in ToSet(apps) : task'[t].at = "delete" /\ a.game \in ToSet(task'[t].del)
    BY <1>2, <1>3
  <2>4. Sound'
    BY <1>1, <2>3 DEF Sound
  <2>5. QED
    BY <2>2, <2>4
<1>12. Mirrored'
  BY <1>5 DEF Mirrored
<1>13. \A u \in Task : Current(u)' => Coming(u)'
  BY <1>8, <1>9, <1>10
<1>14. (\E u \in Task : Current(u)') => Complete' /\ Sound'
  BY <1>8, <1>11
<1>15. QED
  BY <1>1, <1>6, <1>12, <1>13, <1>14 DEF MirrorInv

\* It deletes a game from the list.
LEMMA PushDeleteMirrors ==
  ASSUME TypeInv, TypeInv', MirrorInv, NEW t \in Task, PushDelete(t)
  PROVE  MirrorInv'
<1> DEFINE del == task[t].del
<1>1. /\ task[t].at = "delete" /\ wolf /\ UNCHANGED <<table, wolf, push, mirror>>
      /\ task' = [task EXCEPT ![t].at = IF Len(del) = 1 THEN "add" ELSE @, ![t].del = Tail(del)]
      /\ apps' = Without(apps, Head(del))
  BY DEF PushDelete, RemoveApp, db, history
<1>2. del \in Seq(Game) /\ del # <<>>
  BY <1>1 DEF TypeInv, TasksOK, Await, Holds
<1>3. /\ ToSet(del) = {Head(del)} \cup ToSet(Tail(del))
      /\ Tail(del) = <<>> <=> Len(del) = 1
  BY <1>2, HeadTail
<1>4. ToSet(apps') = {a \in ToSet(apps) : a.game # Head(del)}
  BY <1>1, WithoutIs DEF TypeInv, TypeOK
<1>5. /\ task'[t].at = IF Len(del) = 1 THEN "add" ELSE "delete"
      /\ task'[t].del = Tail(del) /\ task'[t].todo = task[t].todo
      /\ \A u \in Task \ {t} : task'[u] = task[u]
  BY <1>1 DEF TypeInv, TasksOK, Await
<1>6. Tail(del) = <<>> => ToSet(Tail(del)) = {}
  BY DEF ToSet
<1> HIDE DEF del
<1>7. /\ Owned' = Owned /\ \A a : Titled(a)' <=> Titled(a)
      /\ \A a, g : Same(a, g)' <=> Same(a, g)
      /\ \A g : AppOf(g)' = AppOf(g)
  BY <1>1, SameTable
<1>8. InPush(t)' /\ InPush(t) /\ \A u \in Task : InPush(u)' <=> InPush(u)
  BY <1>1, <1>5 DEF InPush
<1>9. Uniform'
  BY <1>1, <1>8 DEF MirrorInv, Uniform
<1>10. \A u \in Task : Current(u)' <=> Current(u)
  BY <1>1, <1>8 DEF Current
<1>11. ASSUME Current(t) PROVE Coming(t)'
  <2>1. Coming(t)
    BY <1>11 DEF MirrorInv
  <2>2. ASSUME push[t].alone PROVE Exact(t)'
    <3>1. /\ Len(task[t].todo) = Cardinality(Owned)
          /\ \A a \in ToSet(apps) : a.game \in ToSet(del)
      BY <1>1, <2>1, <2>2 DEF Coming, Exact, del
    <3>2. \A a \in ToSet(apps') : a.game \in ToSet(Tail(del))
      BY <1>3, <1>4, <3>1
    <3>3. CASE Len(del) = 1
      <4>1. ToSet(apps') = {}
        BY <1>3, <1>6, <3>2, <3>3
      <4>2. Len(apps') = 0
        BY <4>1, NoneListed DEF TypeInv, TypeOK
      <4>3. Cardinality(Owned) \in Nat
        BY <3>1 DEF TypeInv, TasksOK, Await
      <4>4. QED
        BY <1>5, <1>7, <3>1, <3>3, <4>2, <4>3 DEF Exact
    <3>4. CASE Len(del) # 1
      BY <1>5, <1>7, <3>1, <3>2, <3>4 DEF Exact
    <3>5. QED
      BY <3>3, <3>4
  <2>3. QED
    BY <1>1, <1>5, <1>7, <1>8, <2>1, <2>2 DEF Coming
<1>12. ASSUME NEW u \in Task, u # t, Current(u) PROVE Coming(u)'
  <2>1. Coming(u) /\ ~push[u].alone /\ task'[u] = task[u]
    BY <1>5, <1>8, <1>12 DEF MirrorInv, Coming
  <2>2. QED
    BY <1>1, <1>7, <2>1 DEF Coming
<1>13. ASSUME NEW u \in Task, Current(u) PROVE Complete' /\ Sound'
  <2>1. Sound /\ Coming(t)
    BY <1>8, <1>13 DEF MirrorInv, Uniform, Current
  <2>2. \A g \in Owned : AppOf(g) \in ToSet(task[t].todo) /\ Same(AppOf(g), g)
    BY <1>1, <2>1 DEF Coming, AppOf, Same
  <2>3. Complete'
    BY <1>5, <1>7, <1>8, <2>2 DEF Complete
  <2>4. ASSUME NEW a \in ToSet(apps'), ~Titled(a)
        PROVE  \E v \in Task : \/ task'[v].at = "apps"
                               \/ task'[v].at = "delete" /\ a.game \in ToSet(task'[v].del)
    <3>1. a \in ToSet(apps) /\ a.game # Head(del)
      BY <1>4
    <3>2. PICK v \in Task : \/ task[v].at = "apps"
                            \/ task[v].at = "delete" /\ a.game \in ToSet(task[v].del)
      BY <2>1, <2>4, <3>1 DEF Sound
    <3>3. CASE v # t
      BY <1>5, <3>2, <3>3
    <3>4. CASE v = t
      <4>1. a.game \in ToSet(Tail(del))
        BY <1>1, <1>3, <3>1, <3>2, <3>4 DEF del
      <4>2. Len(del) # 1
        BY <1>3, <1>6, <4>1
      <4>3. QED
        BY <1>5, <4>1, <4>2
    <3>5. QED
      BY <3>3, <3>4
  <2>5. Sound'
    BY <1>7, <2>4 DEF Sound
  <2>6. QED
    BY <2>3, <2>5
<1>14. Mirrored'
  BY <1>8 DEF Mirrored
<1>15. \A u \in Task : Current(u)' => Coming(u)'
  BY <1>10, <1>11, <1>12
<1>16. (\E u \in Task : Current(u)') => Complete' /\ Sound'
  BY <1>10, <1>13
<1>17. QED
  BY <1>1, <1>9, <1>14, <1>15, <1>16 DEF MirrorInv

\* It adds a game to the list, which may be its last.
LEMMA PushAddMirrors ==
  ASSUME TypeInv, TypeInv', MirrorInv, NEW t \in Task, PushAdd(t)
  PROVE  MirrorInv'
<1> DEFINE todo == task[t].todo
           a == Head(todo)
<1>1. /\ task[t].at = "add" /\ wolf /\ AddApp(a) /\ UNCHANGED <<table, wolf>>
      /\ InPush(t)
  BY DEF PushAdd, db, InPush
<1>2. todo \in Seq(App) /\ todo # <<>>
  BY <1>1 DEF TypeInv, TasksOK, Await, Holds
<1>3. /\ a \in App /\ Len(todo) \in Nat \ {0} /\ Len(Tail(todo)) = Len(todo) - 1
      /\ ToSet(todo) = {a} \cup ToSet(Tail(todo))
      /\ Tail(todo) = <<>> <=> Len(todo) = 1
  BY <1>2, HeadTail
<1>4. PICK b \in App : b.game = a.game /\ b.title = a.title /\ apps' = Append(apps, b)
  BY <1>1, <1>3, AddAppIs DEF TypeInv, TypeOK
<1>5. ToSet(apps') = ToSet(apps) \cup {b} /\ Len(apps') = Len(apps) + 1 /\ Len(apps) \in Nat
  BY <1>4, AppendIs DEF TypeInv, TypeOK
<1>6. /\ Owned' = Owned /\ \A c : Titled(c)' <=> Titled(c)
      /\ \A c, g : Same(c, g)' <=> Same(c, g)
      /\ \A g : AppOf(g)' = AppOf(g)
  BY <1>1, SameTable
<1>7. \A g : Same(a, g) <=> Same(b, g)
  BY <1>4 DEF Same
<1>8. Titled(a) <=> Titled(b)
  BY <1>4 DEF Same, Titled
<1>9. ASSUME NEW u \in Task, u # t, Current(u) PROVE ~push[u].alone
  BY <1>1, <1>9 DEF MirrorInv, Coming
<1>10. ASSUME NEW u \in Task, Current(u) PROVE Current(t) /\ Complete /\ Sound /\ Coming(t) /\ Titled(b)
  <2>1. Current(t) /\ Complete /\ Sound /\ Coming(t)
    BY <1>1, <1>10 DEF MirrorInv, Uniform, Current
  <2>2. Titled(a)
    BY <1>3, <2>1 DEF Coming
  <2>3. QED
    BY <1>8, <2>1, <2>2
<1>11. ASSUME NEW u \in Task, Current(u)
       PROVE  /\ \A c \in ToSet(apps') :
                    \/ Titled(c)
                    \/ \E v \in Task \ {t} : \/ task[v].at = "apps"
                                             \/ task[v].at = "delete" /\ c.game \in ToSet(task[v].del)
              /\ \A g \in Owned :
                    \/ \E c \in ToSet(apps') \cup ToSet(Tail(todo)) : Same(c, g)
                    \/ \E v \in Task \ {t} : InPush(v) /\ \E c \in ToSet(task[v].todo) : Same(c, g)
  <2>1. Sound /\ Complete /\ Titled(b)
    BY <1>10, <1>11
  <2>2. \A c \in ToSet(apps') :
          \/ Titled(c)
          \/ \E v \in Task \ {t} : \/ task[v].at = "apps"
                                   \/ task[v].at = "delete" /\ c.game \in ToSet(task[v].del)
    BY <1>1, <1>5, <2>1 DEF Sound
  <2>3. ASSUME NEW g \in Owned
        PROVE  \/ \E c \in ToSet(apps') \cup ToSet(Tail(todo)) : Same(c, g)
               \/ \E v \in Task \ {t} : InPush(v) /\ \E c \in ToSet(task[v].todo) : Same(c, g)
    <3>1. CASE \E c \in ToSet(apps) : Same(c, g)
      BY <1>5, <3>1
    <3>2. CASE \E c \in ToSet(todo) : Same(c, g)
      BY <1>3, <1>5, <1>7, <3>2
    <3>3. CASE \E v \in Task \ {t} : InPush(v) /\ \E c \in ToSet(task[v].todo) : Same(c, g)
      BY <3>3
    <3>4. QED
      BY <2>1, <3>1, <3>2, <3>3 DEF Complete
  <2>4. QED
    BY <2>2, <2>3
<1> HIDE DEF a
<1>12. CASE Len(todo) > 1
  <2>1. task' = [task EXCEPT ![t].todo = Tail(@)] /\ UNCHANGED <<push, mirror>>
    BY <1>12 DEF PushAdd, history
  <2>2. /\ task'[t].at = "add" /\ task'[t].todo = Tail(todo)
        /\ \A u \in Task \ {t} : task'[u] = task[u]
    BY <1>1, <2>1 DEF TypeInv, TasksOK, Await
  <2> HIDE DEF todo
  <2>3. InPush(t)' /\ \A u \in Task : InPush(u)' <=> InPush(u)
    BY <1>1, <2>2 DEF InPush
  <2>4. \A u \in Task : Current(u)' <=> Current(u)
    BY <2>1, <2>3 DEF Current
  <2>5. Uniform'
    BY <2>1, <2>3 DEF MirrorInv, Uniform
  <2>6. ASSUME Current(t) PROVE Coming(t)'
    <3>1. Coming(t) /\ (push[t].alone => Exact(t))
      BY <2>6 DEF MirrorInv, Coming
    <3>2. push[t].alone => Len(apps) + Len(todo) = Cardinality(Owned)
      BY <1>1, <3>1 DEF Exact, todo
    <3>3. push[t].alone => Len(apps') + Len(Tail(todo)) = Cardinality(Owned)
      BY <1>3, <1>5, <3>2
    <3>4. push[t].alone => Exact(t)'
      BY <1>6, <2>2, <3>3 DEF Exact
    <3>5. \A c \in ToSet(Tail(todo)) : Titled(c)
      BY <1>3, <3>1 DEF Coming, todo
    <3>6. QED
      BY <1>1, <1>6, <2>1, <2>2, <2>3, <3>1, <3>4, <3>5 DEF Coming
  <2>7. ASSUME NEW u \in Task, u # t, Current(u) PROVE Coming(u)'
    <3>1. Coming(u) /\ ~push[u].alone /\ task'[u] = task[u]
      BY <1>9, <2>2, <2>7 DEF MirrorInv
    <3>2. QED
      BY <1>1, <1>6, <2>1, <3>1 DEF Coming
  <2>8. ASSUME NEW u \in Task, Current(u) PROVE Complete' /\ Sound'
    <3>1. Complete'
      BY <1>6, <1>11, <2>2, <2>3, <2>8 DEF Complete
    <3>2. Sound'
      BY <1>6, <1>11, <2>2, <2>8 DEF Sound
    <3>3. QED
      BY <3>1, <3>2
  <2>9. Mirrored'
    BY <2>3 DEF Mirrored
  <2>10. \A u \in Task : Current(u)' => Coming(u)'
    BY <2>4, <2>6, <2>7
  <2>11. (\E u \in Task : Current(u)') => Complete' /\ Sound'
    BY <2>4, <2>8
  <2>12. QED
    BY <1>1, <2>5, <2>9, <2>10, <2>11 DEF MirrorInv
<1>13. CASE ~(Len(todo) > 1)
  <2>1. /\ Finish(t)
        /\ mirror' = IF ~push[t].current THEN "no" ELSE IF push[t].alone THEN "exact" ELSE "listed"
        /\ push' = [push EXCEPT ![t] = Apart]
    BY <1>13 DEF PushAdd
  <2>2. Len(todo) = 1 /\ ToSet(Tail(todo)) = {}
    <3>1. Len(todo) = 1
      BY <1>3, <1>13
    <3>2. QED
      BY <1>3, <3>1 DEF ToSet
  <2>3. /\ task'[t].at \in {"idle", "find", "reread"}
        /\ \A u \in Task \ {t} : task'[u] = task[u] /\ push'[u] = push[u]
    <3>1. task[t] \in Await /\ task \in [Task -> Await]
      BY DEF TypeInv, TasksOK
    <3>2. task'[t].at = task[t].then
      BY <2>1, <3>1 DEF Finish, Idle
    <3>3. QED
      BY <2>1, <3>1, <3>2 DEF Finish, Await, TypeInv, TypeOK
  <2> HIDE DEF todo
  <2>4. ~InPush(t)' /\ \A u \in Task \ {t} : InPush(u)' <=> InPush(u)
    BY <2>3 DEF InPush
  <2>5. \A u \in Task : Current(u)' => u # t /\ Current(u)
    BY <2>3, <2>4 DEF Current
  <2>6. Uniform'
    BY <2>3, <2>4 DEF MirrorInv, Uniform
  <2>7. ASSUME NEW u \in Task, u # t, Current(u) PROVE Coming(u)'
    <3>1. Coming(u) /\ ~push[u].alone /\ task'[u] = task[u] /\ push'[u] = push[u]
      BY <1>9, <2>3, <2>7 DEF MirrorInv
    <3>2. QED
      BY <1>1, <1>6, <3>1 DEF Coming
  <2>8. ASSUME NEW u \in Task, Current(u) PROVE Complete' /\ Sound'
    <3>1. Complete'
      BY <1>6, <1>11, <2>2, <2>3, <2>4, <2>8 DEF Complete
    <3>2. Sound'
      BY <1>6, <1>11, <2>3, <2>8 DEF Sound
    <3>3. QED
      BY <3>1, <3>2
  <2>9. Mirrored'
    <3>1. SUFFICES ASSUME mirror' # "no", \A u \in Task : ~InPush(u)'
                   PROVE  /\ \A g \in Owned : \E c \in ToSet(apps') : Same(c, g)
                          /\ \A c \in ToSet(apps') : Titled(c)
                          /\ mirror' = "exact" => Len(apps') = Cardinality(Owned)
      BY <1>6 DEF Mirrored
    <3>2. push[t].current /\ Current(t)
      BY <1>1, <2>1, <3>1 DEF Current
    <3>3. \A u \in Task \ {t} : ~InPush(u) /\ task[u].at \notin {"apps", "delete"}
      BY <2>4, <3>1 DEF InPush
    <3>4. \A g \in Owned : \E c \in ToSet(apps') : Same(c, g)
      BY <1>11, <2>2, <3>2, <3>3
    <3>5. \A c \in ToSet(apps') : Titled(c)
      BY <1>11, <3>2, <3>3
    <3>6. ASSUME mirror' = "exact" PROVE Len(apps') = Cardinality(Owned)
      <4>1. push[t].alone /\ Coming(t)
        BY <2>1, <3>2, <3>6 DEF MirrorInv
      <4>2. Len(apps) + Len(todo) = Cardinality(Owned)
        BY <1>1, <4>1 DEF Coming, Exact, todo
      <4>3. QED
        BY <1>5, <2>2, <4>2
    <3>7. QED
      BY <3>4, <3>5, <3>6
  <2>10. \A u \in Task : Current(u)' => Coming(u)'
    BY <2>5, <2>7
  <2>11. (\E u \in Task : Current(u)') => Complete' /\ Sound'
    BY <2>5, <2>8
  <2>12. QED
    BY <1>1, <2>6, <2>9, <2>10, <2>11 DEF MirrorInv
<1>14. QED
  BY <1>12, <1>13

LEMMA PushMirrors ==
  ASSUME LibraryAssumption, TypeInv, TypeInv', MirrorInv, NEW t \in Task, Push(t)
  PROVE  MirrorInv'
<1>1. ASSUME PushFails(t) PROVE MirrorInv'
  BY <1>1, EndElsewhere, ElsewhereMirrors DEF PushFails
<1>2. QED
  BY <1>1, PushReadMirrors, PushAppsMirrors, PushDeleteMirrors, PushAddMirrors DEF Push

LEMMA OutageMirrors ==
  ASSUME TypeInv, TypeInv', MirrorInv,
         \/ WolfStops \/ WolfStarts \/ StreamBreaks \/ AltcStops \/ AltcStarts
         \/ \E r \in Request : HangUp(r)
  PROVE  MirrorInv'
<1>1. ASSUME WolfStops PROVE MirrorInv'
  <2>1. mirror' = "no" /\ task' = task
    BY <1>1 DEF WolfStops
  <2>2. ASSUME NEW t \in Task, InPush(t)' PROVE ~push'[t].current
    <3>1. InPush(t)
      BY <2>1, <2>2 DEF InPush
    <3>2. push'[t] = [push[t] EXCEPT !.current = FALSE, !.whole = FALSE]
      BY <1>1, <3>1 DEF WolfStops
    <3>3. push[t] \in [alone : BOOLEAN, current : BOOLEAN, whole : BOOLEAN]
      BY DEF TypeInv, TypeOK
    <3>4. QED
      BY <3>2, <3>3
  <2>3. \A t \in Task : ~Current(t)'
    BY <2>2 DEF Current
  <2>4. QED
    BY <2>1, <2>3, Outdated
<1>2. ASSUME WolfStarts PROVE MirrorInv'
  <2>1. ~wolf /\ wolf' = TRUE /\ UNCHANGED <<table, task, push, mirror>> /\ mirror = "no"
    BY <1>2 DEF WolfStarts, db, history, MirrorInv
  <2>2. /\ Owned' = Owned /\ \A a : Titled(a)' <=> Titled(a)
        /\ \A a, g : Same(a, g)' <=> Same(a, g)
        /\ \A g : AppOf(g)' = AppOf(g)
    BY <2>1, SameTable
  <2>3. \A t \in Task : (InPush(t)' <=> InPush(t)) /\ (Current(t)' <=> Current(t))
    BY <2>1 DEF InPush, Current
  <2>4. ASSUME NEW t \in Task, Current(t)
        PROVE  /\ task[t].at = "apps" /\ Coming(t) /\ Coming(t)' /\ InPush(t)
               /\ \A g \in Owned : AppOf(g) \in ToSet(task[t].todo) /\ Same(AppOf(g), g)
    <3>1. task[t].at = "apps" /\ Coming(t) /\ InPush(t)
      BY <2>1, <2>4 DEF MirrorInv, Coming, Current
    <3>2. push[t].alone => Exact(t)'
      BY <2>1, <2>2, <3>1 DEF Coming, Exact
    <3>3. Coming(t)'
      BY <2>1, <2>2, <2>3, <3>1, <3>2 DEF Coming
    <3>4. \A g \in Owned : AppOf(g) \in ToSet(task[t].todo)
      BY <3>1 DEF Coming
    <3>5. \A g : Same(AppOf(g), g)
      BY DEF Same, AppOf
    <3>6. QED
      BY <3>1, <3>3, <3>4, <3>5
  <2>5. ASSUME NEW t \in Task, Current(t) PROVE Complete' /\ Sound'
    <3>1. Complete'
      BY <2>1, <2>2, <2>3, <2>4, <2>5 DEF Complete
    <3>2. Sound'
      BY <2>1, <2>4, <2>5 DEF Sound
    <3>3. QED
      BY <3>1, <3>2
  <2>6. Uniform' /\ Mirrored'
    BY <2>1, <2>3 DEF MirrorInv, Uniform, Mirrored
  <2>7. \A t \in Task : Current(t)' => Coming(t)'
    BY <2>3, <2>4
  <2>8. (\E t \in Task : Current(t)') => Complete' /\ Sound'
    BY <2>3, <2>5
  <2>9. QED
    BY <2>1, <2>6, <2>7, <2>8 DEF MirrorInv
<1>3. ASSUME StreamBreaks \/ AltcStarts PROVE MirrorInv'
  <2>1. UNCHANGED <<table, server, push, mirror>> /\ task' = task
    BY <1>3 DEF StreamBreaks, AltcStarts, db, history
  <2>2. (\A t \in Task : InPush(t) => task'[t] = task[t]) /\ \A t \in Task : InPush(t)' => InPush(t)
    BY <2>1 DEF InPush
  <2>3. QED
    BY <2>1, <2>2, Still
<1>4. ASSUME AltcStops PROVE MirrorInv'
  <2>1. /\ task' = [t \in Task |-> Idle] /\ UNCHANGED <<table, wolf, apps>>
        /\ mirror' = IF \E t \in Task : InPush(t) THEN "no" ELSE mirror
    BY <1>4 DEF AltcStops, db, server
  <2>2. \A t \in Task : ~InPush(t)' /\ ~Current(t)'
    BY <2>1 DEF InPush, Current, Idle
  <2>3. CASE mirror' = "no"
    BY <2>2, <2>3, Outdated
  <2>4. CASE mirror' # "no"
    <3>1. mirror' = mirror /\ \A t \in Task : ~InPush(t)
      BY <2>1, <2>4
    <3>2. Mirrored /\ (~wolf => mirror = "no")
      BY DEF MirrorInv
    <3>3. Owned' = Owned /\ (\A a : Titled(a)' <=> Titled(a)) /\ \A a, g : Same(a, g)' <=> Same(a, g)
      BY <2>1, SameTable
    <3>4. Mirrored'
      BY <2>1, <3>1, <3>2, <3>3 DEF Mirrored
    <3>5. Uniform'
      BY <2>2 DEF Uniform
    <3>6. QED
      BY <2>1, <2>2, <3>1, <3>2, <3>4, <3>5 DEF MirrorInv
  <2>5. QED
    BY <2>3, <2>4
<1>5. ASSUME NEW r \in Request, HangUp(r) PROVE MirrorInv'
  <2>1. r \in Task /\ Elsewhere(r)
    BY <1>5, EndElsewhere DEF HangUp, Task
  <2>2. QED
    BY <2>1, ElsewhereMirrors
<1>6. QED
  BY <1>1, <1>2, <1>3, <1>4, <1>5

LEMMA NextMirrors ==
  ASSUME LibraryAssumption, TypeInv, TypeInv', MirrorInv, [Next]_vars
  PROVE  MirrorInv'
<1>1. CASE UNCHANGED vars
  <2>1. UNCHANGED <<table, server, push, mirror>> /\ task' = task
    BY <1>1 DEF vars, db, history
  <2>2. (\A t \in Task : InPush(t) => task'[t] = task[t]) /\ \A t \in Task : InPush(t)' => InPush(t)
    BY <2>1 DEF InPush
  <2>3. QED
    BY <2>1, <2>2, Still
<1>2. ASSUME NEW r \in Request, NewTask(r) \/ RequestStep(r) PROVE MirrorInv'
  <2>1. r \in Task
    BY DEF Task
  <2>2. CASE NewTask(r)
    BY <2>1, <2>2, NewTaskElsewhere, ElsewhereMirrors
  <2>3. CASE Push(r)
    BY <2>1, <2>3, PushMirrors
  <2>4. CASE (\E g \in Game : Insert(r, g)) \/ Rename(r) \/ Reread(r) \/ Save(r) \/ SetShares(r)
    BY <2>1, <2>4, RequestElsewhere, ElsewhereMirrors
  <2>5. QED
    BY <1>2, <2>2, <2>3, <2>4 DEF RequestStep
<1>3. ASSUME NEW s \in Syncs, Connect(s) \/ SyncStep(s) PROVE MirrorInv'
  <2>1. s \in Task
    BY DEF Task
  <2>2. CASE Push(s)
    BY <2>1, <2>2, PushMirrors
  <2>3. CASE \/ Connect(s) \/ SyncCount(s) \/ ImportFetch(s) \/ ImportApp(s)
             \/ BackfillList(s) \/ BackfillAsk(s) \/ BackfillRow(s)
    BY <2>1, <2>3, SyncElsewhere, ElsewhereMirrors
  <2>4. QED
    BY <1>3, <2>2, <2>3 DEF SyncStep
<1>4. ASSUME \/ WolfStops \/ WolfStarts \/ StreamBreaks \/ AltcStops \/ AltcStarts
             \/ \E r \in Request : HangUp(r)
      PROVE  MirrorInv'
  BY <1>4, OutageMirrors
<1>5. QED
  BY <1>1, <1>2, <1>3, <1>4 DEF Next

LEMMA InitMirrors == ASSUME Init PROVE MirrorInv
<1>1. mirror = "no" /\ wolf = TRUE /\ task = [t \in Task |-> Idle]
  BY DEF Init
<1>2. \A t \in Task : ~InPush(t) /\ ~Current(t)
  BY <1>1 DEF InPush, Current, Idle
<1>3. Uniform /\ Mirrored
  BY <1>1, <1>2 DEF Uniform, Mirrored
<1>4. QED
  BY <1>1, <1>2, <1>3 DEF MirrorInv

\* A push that nothing ran into leaves Wolf with the table's games, each under
\* its title, and none twice if no other push overlapped it (library.rs
\* push()). For any games, requests, syncs and apps of config.toml. What makes
\* it inductive: no game is lost (Complete), what is listed and should not be is
\* still to be deleted (Sound), and a push that is alone counts what it adds.
THEOREM PushMirrorsTable == Spec => []MirrorsTable
<1>1. Init => TypeInv /\ MirrorInv
  BY InitTyped, InitMirrors, LibraryAssumption
<1>2. TypeInv /\ MirrorInv /\ [Next]_vars => (TypeInv /\ MirrorInv)'
  <2>1. SUFFICES ASSUME TypeInv, MirrorInv, [Next]_vars PROVE TypeInv' /\ MirrorInv'
    OBVIOUS
  <2>2. TypeInv'
    BY <2>1, NextTyped, LibraryAssumption
  <2>3. QED
    BY <2>1, <2>2, NextMirrors, LibraryAssumption
<1>3. TypeInv /\ MirrorInv => MirrorsTable
  BY MirrorGives DEF TypeInv
<1>4. QED
  BY <1>1, <1>2, <1>3, PTL DEF Spec

-----------------------------------------------------------------------------
(* Shares are of games that there are. *)

\* Of one admin at a time, what an earlier run has left is in order.
OneAdmin == \A r, q \in Request : r = q
SavedInOrder == \A p \in Past : \A g \in p.shares : p.table[g] # None

\* A request that is about to set shares has looked for the game.
ShareInv ==
  /\ SharesHaveGame
  /\ \A r \in Request : task[r].at = "share" => table[task[r].game] # None

\* Games stay, no share is added, and no request comes to set any.
LEMMA SharesKept ==
  ASSUME TypeInv, ShareInv, shares' \subseteq shares,
         \A g \in Game : table[g] # None => table'[g] # None,
         \A r \in Request : task'[r].at = "share" => task'[r] = task[r]
  PROVE  ShareInv'
<1>1. \A g \in shares : g \in Game
  BY DEF TypeInv, TypeOK
<1>2. SharesHaveGame'
  BY <1>1 DEF ShareInv, SharesHaveGame
<1>3. ASSUME NEW r \in Request, task'[r].at = "share" PROVE table'[task'[r].game] # None
  <2>1. task'[r] = task[r] /\ task[r].at = "share" /\ task[r].game \in Game
    BY <1>3 DEF TypeInv, TasksOK, Holds, Task
  <2>2. QED
    BY <2>1 DEF ShareInv
<1>4. QED
  BY <1>2, <1>3 DEF ShareInv

\* One task goes on, and not to set shares.
LEMMA ShareStep ==
  ASSUME TypeInv, ShareInv, NEW t \in Task, NEW k, k.at # "share",
         task' = [task EXCEPT ![t] = k], shares' \subseteq shares,
         \A g \in Game : table[g] # None => table'[g] # None
  PROVE  ShareInv'
<1>1. \A r \in Request : task'[r].at = "share" => task'[r] = task[r]
  BY DEF TypeInv, TasksOK, Task
<1>2. QED
  BY <1>1, SharesKept

\* A row that is written is of a game that stays, and no other goes.
LEMMA KeepsGames ==
  ASSUME LibraryAssumption, TypeInv, NEW t \in Task, NEW g \in Game, NEW row \in Row,
         Upsert(t, g, row)
  PROVE  \A h \in Game : table[h] # None => table'[h] # None
<1>1. row # None /\ table' = [table EXCEPT ![g] = row]
  BY DEF LibraryAssumption, Upsert
<1>2. QED
  BY <1>1 DEF TypeInv, TypeOK

LEMMA NewTaskShares ==
  ASSUME OneAdmin, TypeInv, ShareInv, NEW r \in Request, NewTask(r)
  PROVE  ShareInv'
<1>1. r \in Task /\ task \in [Task -> Await]
  BY DEF Task, TypeInv, TasksOK
<1>2. ASSUME NEW title \in Title, Create(r, title) PROVE ShareInv'
  <2> DEFINE k == [Idle EXCEPT !.at = "insert", !.title = title, !.engine = template]
  <2>1. task' = [task EXCEPT ![r] = k] /\ k.at # "share" /\ UNCHANGED <<table, shares>>
    BY <1>2 DEF Create, Idle, db
  <2> HIDE DEF k
  <2>2. QED
    BY <1>1, <2>1, ShareStep
<1>3. ASSUME NEW g \in Game, NEW title \in Title \cup {None}, NEW configure \in BOOLEAN,
             Update(r, g, title, configure)
      PROVE  ShareInv'
  <2> DEFINE k == [Idle EXCEPT !.at = "rename", !.game = g,
                               !.title = IF title = None THEN table[g].title ELSE title,
                               !.then = IF configure THEN "reread" ELSE "idle"]
  <2>1. task' = [task EXCEPT ![r] = k] /\ k.at # "share" /\ UNCHANGED <<table, shares>>
    BY <1>3 DEF Update, Idle, db
  <2> HIDE DEF k
  <2>2. QED
    BY <1>1, <2>1, ShareStep
<1>4. ASSUME NEW g \in Game, Refresh(r, g) PROVE ShareInv'
  <2> DEFINE k == [Idle EXCEPT !.at = "find", !.game = g]
  <2>1. task' = [task EXCEPT ![r] = k] /\ k.at # "share" /\ UNCHANGED <<table, shares>>
    BY <1>4 DEF Refresh, Idle, db
  <2> HIDE DEF k
  <2>2. QED
    BY <1>1, <2>1, ShareStep
<1>5. ASSUME NEW g \in Game, Delete(r, g) PROVE ShareInv'
  <2>1. /\ task' = [task EXCEPT ![r] = [Idle EXCEPT !.at = "read"]]
        /\ table' = [table EXCEPT ![g] = None] /\ shares' = shares \ {g}
    BY <1>5 DEF Delete, Upsert, ForgetShares
  <2>2. SharesHaveGame'
    BY <2>1 DEF TypeInv, TypeOK, ShareInv, SharesHaveGame
  <2>3. \A q \in Request : task'[q].at # "share"
    BY <1>1, <2>1 DEF OneAdmin, Idle
  <2>4. QED
    BY <2>2, <2>3 DEF ShareInv
<1>6. ASSUME NEW g \in Game, CheckShares(r, g) PROVE ShareInv'
  <2>1. /\ task' = [task EXCEPT ![r] = [Idle EXCEPT !.at = "share", !.game = g]]
        /\ UNCHANGED <<table, shares>> /\ table[g] # None
    BY <1>6 DEF CheckShares, db
  <2>2. task'[r].game = g
    BY <1>1, <2>1 DEF Idle
  <2>3. \A q \in Request : task'[q].at = "share" => table'[task'[q].game] # None
    BY <2>1, <2>2 DEF OneAdmin
  <2>4. SharesHaveGame'
    BY <2>1 DEF ShareInv, SharesHaveGame
  <2>5. QED
    BY <2>3, <2>4 DEF ShareInv
<1>7. QED
  BY <1>2, <1>3, <1>4, <1>5, <1>6 DEF NewTask

LEMMA RequestShares ==
  ASSUME LibraryAssumption, TypeInv, ShareInv, NEW r \in Request,
         (\E g \in Game : Insert(r, g)) \/ Rename(r) \/ Reread(r) \/ Save(r) \/ SetShares(r)
  PROVE  ShareInv'
<1>1. r \in Task /\ task[r] \in Await /\ Holds(task[r]) /\ task \in [Task -> Await]
  BY DEF Task, TypeInv, TasksOK
<1>2. ASSUME NEW g \in Game, Insert(r, g) PROVE ShareInv'
  <2> DEFINE k == [Idle EXCEPT !.at = "read", !.then = "find", !.game = g]
             row == [title |-> task[r].title, engine |-> task[r].engine]
  <2>1. /\ task' = [task EXCEPT ![r] = k] /\ k.at # "share" /\ Upsert(r, g, row)
        /\ UNCHANGED shares
    BY <1>2 DEF Insert, Idle
  <2>2. row \in Row
    BY <1>1, <1>2 DEF Insert, Holds, Await, Row
  <2> HIDE DEF k, row
  <2>3. QED
    BY <1>1, <2>1, <2>2, KeepsGames, ShareStep
<1>3. ASSUME Rename(r) PROVE ShareInv'
  <2> DEFINE g == task[r].game
             k == IF task[r].then = "reread" THEN [Idle EXCEPT !.at = "reread", !.game = g]
                  ELSE [Idle EXCEPT !.at = "read"]
             row == [table[g] EXCEPT !.title = task[r].title]
  <2>1. g \in Game /\ task[r].title \in Title /\ UNCHANGED shares
    BY <1>1, <1>3 DEF Rename, Holds
  <2>2. CASE table[g] = None
    <3>1. task' = [task EXCEPT ![r] = Idle] /\ Idle.at # "share" /\ UNCHANGED table
      BY <1>3, <2>2 DEF Rename, End, Idle
    <3>2. QED
      BY <1>1, <2>1, <3>1, ShareStep
  <2>3. CASE table[g] # None
    <3>1. task' = [task EXCEPT ![r] = k] /\ k.at # "share" /\ Upsert(r, g, row)
      BY <1>3, <2>3 DEF Rename, Idle
    <3>2. row \in Row
      BY <2>1, <2>3 DEF TypeInv, TypeOK, Row
    <3> HIDE DEF k, row, g
    <3>3. QED
      BY <1>1, <2>1, <3>1, <3>2, KeepsGames, ShareStep
  <2>4. QED
    BY <2>2, <2>3
<1>4. ASSUME Reread(r) PROVE ShareInv'
  <2>1. UNCHANGED <<table, shares>>
    BY <1>4 DEF Reread, db
  <2>2. CASE End(r)
    <3>1. task' = [task EXCEPT ![r] = Idle] /\ Idle.at # "share"
      BY <2>2 DEF End, Idle
    <3>2. QED
      BY <1>1, <2>1, <3>1, ShareStep
  <2>3. ASSUME NEW title, NEW engine,
               task' = [task EXCEPT ![r].at = "save", ![r].title = title, ![r].engine = engine]
        PROVE  ShareInv'
    <3> DEFINE k == [task[r] EXCEPT !.at = "save", !.title = title, !.engine = engine]
    <3>1. task' = [task EXCEPT ![r] = k] /\ k.at # "share"
      BY <1>1, <2>3 DEF Await
    <3> HIDE DEF k
    <3>2. QED
      BY <1>1, <2>1, <3>1, ShareStep
  <2>4. QED
    BY <1>4, <2>2, <2>3 DEF Reread
<1>5. ASSUME Save(r) PROVE ShareInv'
  <2> DEFINE k == [Idle EXCEPT !.at = "read"]
             row == [title |-> task[r].title, engine |-> task[r].engine]
  <2>1. /\ task' = [task EXCEPT ![r] = k] /\ k.at # "share" /\ Upsert(r, task[r].game, row)
        /\ UNCHANGED shares
    BY <1>5 DEF Save, Idle
  <2>2. row \in Row /\ task[r].game \in Game
    BY <1>1, <1>5 DEF Save, Holds, Await, Row
  <2> HIDE DEF k, row
  <2>3. QED
    BY <1>1, <2>1, <2>2, KeepsGames, ShareStep
<1>6. ASSUME SetShares(r) PROVE ShareInv'
  <2>1. /\ task[r].at = "share" /\ task' = [task EXCEPT ![r] = Idle] /\ UNCHANGED table
        /\ shares' \subseteq shares \cup {task[r].game}
    BY <1>6 DEF SetShares, End
  <2>2. SharesHaveGame'
    BY <2>1 DEF ShareInv, SharesHaveGame
  <2>3. \A q \in Request : task'[q].at = "share" => task'[q] = task[q]
    BY <1>1, <2>1 DEF Idle, Task
  <2>4. QED
    BY <2>1, <2>2, <2>3 DEF ShareInv
<1>7. QED
  BY <1>2, <1>3, <1>4, <1>5, <1>6

\* No step of a push touches the table, or goes on to set shares.
LEMMA PushShares ==
  ASSUME TypeInv, ShareInv, NEW t \in Task, Push(t)
  PROVE  ShareInv'
<1>1. task[t] \in Await /\ task \in [Task -> Await]
  BY DEF TypeInv, TasksOK
<1>2. UNCHANGED <<table, shares>>
  BY DEF Push, PushRead, PushApps, PushDelete, PushAdd, PushFails, db
<1>3. task'[t].at # "share" /\ \A u \in Task \ {t} : task'[u] = task[u]
  <2>1. CASE End(t)
    BY <1>1, <2>1 DEF End, Idle
  <2>2. CASE Finish(t)
    BY <1>1, <2>2 DEF Finish, Idle, Await
  <2>3. CASE PushRead(t)
    BY <1>1, <2>1, <2>2, <2>3 DEF PushRead, Await
  <2>4. CASE PushApps(t)
    BY <1>1, <2>4 DEF PushApps, Await
  <2>5. CASE PushDelete(t)
    BY <1>1, <2>5 DEF PushDelete, Await
  <2>6. CASE PushAdd(t)
    BY <1>1, <2>2, <2>6 DEF PushAdd, Await
  <2>7. CASE PushFails(t)
    BY <2>1, <2>7 DEF PushFails, Abandon
  <2>8. QED
    BY <2>3, <2>4, <2>5, <2>6, <2>7 DEF Push
<1>4. \A r \in Request : task'[r].at = "share" => task'[r] = task[r]
  BY <1>3 DEF Task
<1>5. QED
  BY <1>2, <1>4, SharesKept

\* Syncs add rows and change some.
LEMMA SyncShares ==
  ASSUME LibraryAssumption, TypeInv, ShareInv, NEW s \in Syncs,
         \/ Connect(s) \/ SyncCount(s) \/ ImportFetch(s) \/ ImportApp(s)
         \/ BackfillList(s) \/ BackfillAsk(s) \/ BackfillRow(s)
  PROVE  ShareInv'
<1>1. s \in Task /\ task[s] \in Await /\ Holds(task[s])
  BY DEF Task, TypeInv, TasksOK
<1>2. \A r \in Request : task'[r] = task[r]
  <2>1. \A u \in Task \ {s} : task'[u] = task[u]
    BY SyncElsewhere DEF Elsewhere
  <2>2. \A r \in Request : r \in Task \ {s}
    BY DEF Task, LibraryAssumption
  <2>3. QED
    BY <2>1, <2>2
<1>3. UNCHANGED shares
  BY DEF Connect, SyncCount, ImportFetch, ImportApp, BackfillList, BackfillAsk, BackfillRow, db
<1>4. \A g \in Game : table[g] # None => table'[g] # None
  <2>1. CASE UNCHANGED table
    BY <2>1
  <2>2. CASE ImportApp(s) \/ BackfillRow(s)
    <3> DEFINE a == Head(task[s].todo)
               row == [title |-> a.title, engine |-> a.engine]
    <3>1. Upsert(s, a.game, row) /\ task[s].at \in {"import", "heal"}
      BY <2>2 DEF ImportApp, BackfillRow
    <3>2. row \in Row /\ a.game \in Game
      BY <1>1, <3>1, NextApp
    <3> HIDE DEF a, row
    <3>3. QED
      BY <1>1, <3>1, <3>2, KeepsGames
  <2>3. QED
    BY <2>1, <2>2 DEF Connect, SyncCount, ImportFetch, BackfillList, BackfillAsk, db
<1>5. QED
  BY <1>2, <1>3, <1>4, SharesKept

LEMMA OutageShares ==
  ASSUME TypeInv, ShareInv,
         \/ WolfStops \/ WolfStarts \/ StreamBreaks \/ AltcStops \/ AltcStarts
         \/ \E r \in Request : HangUp(r)
  PROVE  ShareInv'
<1>1. UNCHANGED <<table, shares>>
  BY DEF WolfStops, WolfStarts, StreamBreaks, AltcStops, AltcStarts, HangUp, db
<1>2. CASE UNCHANGED task
  BY <1>1, <1>2, SharesKept
<1>3. CASE AltcStops
  <2>1. \A r \in Request : task'[r].at # "share"
    BY <1>3 DEF AltcStops, Task, Idle
  <2>2. QED
    BY <1>1, <2>1, SharesKept
<1>4. ASSUME NEW r \in Request, HangUp(r) PROVE ShareInv'
  <2>1. r \in Task /\ task' = [task EXCEPT ![r] = Idle] /\ Idle.at # "share"
    BY <1>4 DEF HangUp, Abandon, End, Idle, Task
  <2>2. QED
    BY <1>1, <2>1, ShareStep
<1>5. QED
  BY <1>2, <1>3, <1>4 DEF WolfStops, WolfStarts, StreamBreaks, AltcStarts

LEMMA NextShares ==
  ASSUME LibraryAssumption, OneAdmin, TypeInv, ShareInv, [Next]_vars
  PROVE  ShareInv'
<1>1. CASE UNCHANGED vars
  BY <1>1, SharesKept DEF vars, db
<1>2. ASSUME NEW r \in Request, NewTask(r) \/ RequestStep(r) PROVE ShareInv'
  BY <1>2, NewTaskShares, RequestShares, PushShares DEF RequestStep, Task
<1>3. ASSUME NEW s \in Syncs, Connect(s) \/ SyncStep(s) PROVE ShareInv'
  BY <1>3, SyncShares, PushShares DEF SyncStep, Task
<1>4. ASSUME \/ WolfStops \/ WolfStarts \/ StreamBreaks \/ AltcStops \/ AltcStarts
             \/ \E r \in Request : HangUp(r)
      PROVE  ShareInv'
  BY <1>4, OutageShares
<1>5. QED
  BY <1>1, <1>2, <1>3, <1>4 DEF Next

LEMMA InitShares == ASSUME SavedInOrder, Init PROVE ShareInv
<1>1. PICK p \in Past \cup {Fresh} : table = p.table /\ shares = p.shares
  BY DEF Init
<1>2. SharesHaveGame
  <2>1. CASE p \in Past
    BY <1>1, <2>1 DEF SavedInOrder, SharesHaveGame
  <2>2. CASE p = Fresh
    BY <1>1, <2>2 DEF Fresh, SharesHaveGame
  <2>3. QED
    BY <2>1, <2>2
<1>3. \A r \in Request : task[r].at # "share"
  BY DEF Init, Idle, Task
<1>4. QED
  BY <1>2, <1>3 DEF ShareInv

\* No game that has gone has shares (db/games.rs delete()), if admins' requests
\* come one at a time and an earlier run of altc has left none: between the
\* look for the game and the write of its shares another request may delete it.
THEOREM SharesOfGames ==
  ASSUME OneAdmin, SavedInOrder
  PROVE  Spec => []SharesHaveGame
<1>1. Init => TypeInv /\ ShareInv
  BY InitTyped, InitShares, LibraryAssumption
<1>2. TypeInv /\ ShareInv /\ [Next]_vars => (TypeInv /\ ShareInv)'
  <2>1. SUFFICES ASSUME TypeInv, ShareInv, [Next]_vars PROVE TypeInv' /\ ShareInv'
    OBVIOUS
  <2>2. TypeInv'
    BY <2>1, NextTyped, LibraryAssumption
  <2>3. QED
    BY <2>1, <2>2, NextShares, LibraryAssumption
<1>3. TypeInv /\ ShareInv => SharesHaveGame
  BY DEF ShareInv
<1>4. QED
  BY <1>1, <1>2, <1>3, PTL DEF Spec

-----------------------------------------------------------------------------
(* Wolf's end: the API server. *)

(* The ways of handlers that end in one answer or in an exception, with what *)
(* is left of them before their last step.                                   *)
Ending ==
  {<<"200">>, <<"400">>, <<"404">>, <<"500">>, <<"throw">>, <<"wait">>,
   <<"subscribe", "200">>, <<"fire", "200">>, <<"fire", "fire", "200">>,
   <<"fire", "wait">>, <<"detach", "200">>, <<"detach", "404">>}

LastStep == Code \cup {"wait", "throw"}

\* Every way of these is a sequence of steps whose head is its last step, or
\* leaves another of them.
LEMMA EndingStep ==
  ASSUME NEW w \in Ending
  PROVE  /\ w \in Seq(Step) /\ w # <<>> /\ w # <<"fire">>
         /\ Head(w) \in LastStep => Tail(w) = <<>>
         /\ Head(w) \notin LastStep => Tail(w) \in Ending
<1>1. \A s \in Step : /\ <<s>> \in Seq(Step) /\ <<s>> # <<>>
                      /\ Head(<<s>>) = s /\ Tail(<<s>>) = <<>>
  OBVIOUS
<1>2. \A s, t \in Step : /\ <<s, t>> \in Seq(Step) /\ <<s, t>> # <<>>
                         /\ <<s, t>> # <<"fire">>
                         /\ Head(<<s, t>>) = s /\ Tail(<<s, t>>) = <<t>>
  OBVIOUS
<1>3. CASE w \in {<<s>> : s \in LastStep}
  BY <1>1, <1>3 DEF LastStep, Step, Code
<1>4. CASE w \in {<<"subscribe", "200">>, <<"fire", "200">>, <<"fire", "wait">>,
                  <<"detach", "200">>, <<"detach", "404">>}
  <2>1. PICK s \in {"subscribe", "fire", "detach"}, t \in LastStep : w = <<s, t>>
    BY <1>4 DEF LastStep, Code
  <2>2. s \in Step /\ s \notin LastStep /\ t \in Step
    BY DEF Step, LastStep, Code
  <2>3. w \in Seq(Step) /\ w # <<>> /\ w # <<"fire">> /\ Head(w) = s /\ Tail(w) = <<t>>
    BY <1>2, <2>1, <2>2
  <2>4. <<t>> \in Ending
    BY DEF Ending, LastStep, Code
  <2> QED
    BY <2>2, <2>3, <2>4
<1>5. CASE w = <<"fire", "fire", "200">>
  <2>1. \A s, t, u \in Step : /\ <<s, t, u>> \in Seq(Step)
                             /\ Head(<<s, t, u>>) = s /\ Tail(<<s, t, u>>) = <<t, u>>
    OBVIOUS
  <2>2. w \in Seq(Step) /\ Head(w) = "fire" /\ Tail(w) = <<"fire", "200">>
    BY <1>5, <2>1 DEF Step, Code
  <2>3. w # <<>> /\ w # <<"fire">>
    BY <1>5
  <2> QED
    BY <2>2, <2>3 DEF LastStep, Code, Ending
<1>6. w \in {<<s>> : s \in LastStep}
      \/ w \in {<<"subscribe", "200">>, <<"fire", "200">>, <<"fire", "wait">>,
                <<"detach", "200">>, <<"detach", "404">>}
      \/ w = <<"fire", "fire", "200">>
  BY DEF Ending, LastStep, Code
<1> QED
  BY <1>3, <1>4, <1>5, <1>6

\* What the handlers of an endpoint can be.
Fits(e, ways) ==
  /\ e \notin Silent => ways \subseteq Ending
  /\ e # "DockerPullImage" => ways \subseteq Ending \cup {<<"fire">>}
  /\ ways \subseteq Seq(Step)

LEMMA AllSteps == Ending \cup {<<"fire">>} \subseteq Seq(Step)
<1>1. <<"fire">> \in Seq(Step)
  BY DEF Step
<1> QED
  BY <1>1, EndingStep

LEMMA EndingFits == ASSUME NEW e, NEW ways, ways \subseteq Ending PROVE Fits(e, ways)
  BY AllSteps DEF Fits

LEMMA ClientRoutesFit ==
  \A e \in DOMAIN ClientRoutes : Fits(e, ClientRoutes[e].handler)
<1> SUFFICES \A e \in DOMAIN ClientRoutes : ClientRoutes[e].handler \subseteq Ending
  BY EndingFits
<1> QED
  BY DEF ClientRoutes, Route, Events, PendingPairRequest, PairHandler, UnpairClient,
     PairedClients, UpdateClientSettings, Done, Refused, Ending

LEMMA AppRoutesFit == \A e \in DOMAIN AppRoutes : Fits(e, AppRoutes[e].handler)
<1> SUFFICES \A e \in DOMAIN AppRoutes : AppRoutes[e].handler \subseteq Ending
  BY EndingFits
<1> QED
  BY DEF AppRoutes, Route, Apps, AddAppHandler, RemoveAppHandler, Profiles, AddProfile,
     RemoveProfile, Done, Refused, Ending

LEMMA SessionRoutesFit ==
  \A e \in DOMAIN SessionRoutes : Fits(e, SessionRoutes[e].handler)
<1>1. \A e \in DOMAIN SessionRoutes \ {"RunnerStart"} :
        SessionRoutes[e].handler \subseteq Ending
  BY DEF SessionRoutes, Route, StreamSessions, StreamSessionAdd,
     StreamSessionStart, StreamSessionPause, StreamSessionStop,
     StreamSessionHandleInput, Done, Refused, Ending
<1>2. SessionRoutes["RunnerStart"].handler \subseteq Ending \cup {<<"fire">>}
  BY DEF SessionRoutes, Route, RunnerStart, Refused, Ending
<1>3. Fits("RunnerStart", SessionRoutes["RunnerStart"].handler)
  BY <1>2, AllSteps DEF Fits, Silent
<1> QED
  BY <1>1, <1>3, EndingFits

LEMMA LobbyRoutesFit == \A e \in DOMAIN LobbyRoutes : Fits(e, LobbyRoutes[e].handler)
<1> SUFFICES \A e \in DOMAIN LobbyRoutes : LobbyRoutes[e].handler \subseteq Ending
  BY EndingFits
<1> QED
  BY DEF LobbyRoutes, Route, LobbyList, LobbyCreate, LobbyJoin, LobbyLeave,
     LobbyStop, Done, Refused, Ending

LEMMA UtilityRoutesFit ==
  \A e \in DOMAIN UtilityRoutes : Fits(e, UtilityRoutes[e].handler)
<1>1. \A e \in DOMAIN UtilityRoutes \ {"DockerPullImage"} :
        UtilityRoutes[e].handler \subseteq Ending
  BY DEF UtilityRoutes, Route, GetIcon, DockerInspectImage, OpenApiSchema, Done, Ending
<1>2. UtilityRoutes["DockerPullImage"].handler = DockerPullImage
  BY DEF UtilityRoutes, Route
<1>3. <<"detach", "fire", "200", "line", "fire">> \in Seq(Step)
  BY DEF Step, Code
<1>4. <<"detach", "fire", "500", "fire">> \in Seq(Step)
  BY DEF Step, Code
<1>5. <<"detach", "fire", "200", "line", "500", "fire">> \in Seq(Step)
  BY DEF Step, Code
<1>6. DockerPullImage \subseteq Seq(Step)
  BY <1>3, <1>4, <1>5 DEF DockerPullImage
<1>7. Fits("DockerPullImage", UtilityRoutes["DockerPullImage"].handler)
  BY <1>2, <1>6 DEF Fits, Silent
<1> QED
  BY <1>1, <1>7, EndingFits

\* Whatever the endpoint, its handler fits.
LEMMA HandlerFits == \A e \in Registered : Fits(e, Handler(e))
  BY ClientRoutesFit, AppRoutesFit, SessionRoutesFit, LobbyRoutesFit,
     UtilityRoutesFit DEF Registered, Handler, Routes

-----------------------------------------------------------------------------
(* The invariant. *)

Queued(c) == \E i \in DOMAIN posted : posted[i] = c
QueuedOnce ==
  \A i, j \in DOMAIN posted : posted[i] = posted[j] => i = j

Working(c) == where[c] \in {"worker", "thread"}

\* What has been sent before the handler is over, and when it is.
ScriptOK(c) ==
  Working(c) /\ endpoint[c] # "DockerPullImage" =>
    /\ script[c] \in Ending \cup {<<"fire">>, <<>>}
    /\ script[c] \in Ending => said[c] = <<>>
    /\ endpoint[c] \notin Silent /\ script[c] \notin Ending /\ client[c] = "there"
       => said[c] # <<>>

\* A socket whose client is there fails and is closed in one case only: when
\* it has been told that there is no such endpoint.
SocketOK(c) ==
  client[c] = "there" =>
    /\ alive[c] => \A w \in writes[c] : w[2] # "failed"
    /\ ~alive[c] => read[c] = "done" /\ where[c] = "none"

RequestOK(c) ==
  /\ where[c] # "none" => read[c] = "done" /\ endpoint[c] \in Registered
  /\ where[c] = "posted" \/ read[c] \in {"backlog", "headers", "body"} => said[c] = <<>>
  /\ endpoint[c] # "DockerPullImage" => Len(said[c]) <= 1
  /\ /\ read[c] = "done" /\ where[c] = "none"
     /\ client[c] = "there" /\ endpoint[c] \notin Silent
     => said[c] # <<>>

ConnOK == \A c \in Conn : ScriptOK(c) /\ SocketOK(c) /\ RequestOK(c)
ServerInv == ServerTypeOK /\ QueuedOnce /\ ConnOK

\* Nobody is connected when the server starts.
LEMMA InitInv == ServerInit => ServerInv
<1> SUFFICES ASSUME ServerInit PROVE ServerInv
  OBVIOUS
<1>1. \A t \in Thread : walk[t] = [left |-> {}, raced |-> FALSE]
  BY DEF ServerInit, NotWalking
<1>2. script \in [Conn -> Seq(Step)] /\ said \in [Conn -> Seq(Code)] /\ posted \in Seq(Conn)
  BY DEF ServerInit
<1>3. ServerTypeOK
  BY <1>1, <1>2 DEF ServerInit, ServerTypeOK, NotWalking
<1>4. QueuedOnce /\ ConnOK
  BY DEF ServerInit, QueuedOnce, ConnOK, ScriptOK, SocketOK, RequestOK, Working
<1> QED
  BY <1>3, <1>4 DEF ServerInv

-----------------------------------------------------------------------------
(* Types. *)

\* What a loop over the subscribers becomes keeps its type.
LEMMA DisturbedType ==
  ASSUME ServerTypeOK, NEW t
  PROVE  Disturbed(t) \in [Thread -> [left : SUBSET Conn, raced : BOOLEAN]]
<1> SUFFICES ASSUME NEW u \in Thread
             PROVE  Disturbed(t)[u] \in [left : SUBSET Conn, raced : BOOLEAN]
  BY DEF Disturbed
<1>1. walk[u] \in [left : SUBSET Conn, raced : BOOLEAN]
  BY DEF ServerTypeOK
<1>2. [left |-> walk[u].left, raced |-> TRUE] \in [left : SUBSET Conn, raced : BOOLEAN]
  BY <1>1
<1> QED
  BY <1>1, <1>2 DEF Disturbed

\* A write leaves the set of writes of every connection in its type.
LEMMA WrittenType ==
  ASSUME ServerTypeOK, NEW c \in Conn, NEW k \in {"data", "event"}, Written(c, k)
  PROVE  writes' \in [Conn -> SUBSET Write]
<1>1. \A w \in Write : [writes EXCEPT ![c] = @ \cup {w}] \in [Conn -> SUBSET Write]
  BY DEF ServerTypeOK
<1>2. <<k, "stuck">> \in Write /\ <<k, "failed">> \in Write
  BY DEF Write
<1>3. writes \in [Conn -> SUBSET Write]
  BY DEF ServerTypeOK
<1> QED
  BY <1>1, <1>2, <1>3 DEF Written

LEMMA SayType ==
  ASSUME ServerTypeOK, NEW c \in Conn, NEW code \in Code, Say(c, code)
  PROVE  writes' \in [Conn -> SUBSET Write] /\ said' \in [Conn -> Seq(Code)]
<1>1. writes' \in [Conn -> SUBSET Write]
  BY WrittenType DEF Say
<1>2. said \in [Conn -> Seq(Code)]
  BY DEF ServerTypeOK
<1>3. Append(said[c], code) \in Seq(Code)
  BY <1>2
<1>4. [said EXCEPT ![c] = Append(@, code)] \in [Conn -> Seq(Code)]
  BY <1>2, <1>3
<1> QED
  BY <1>1, <1>2, <1>4 DEF Say

\* A new set of subscribers to write to keeps the loops in their type.
LEMMA LoopType ==
  ASSUME NEW f \in [Thread -> [left : SUBSET Conn, raced : BOOLEAN]],
         NEW t \in Thread, NEW S \in SUBSET Conn
  PROVE  [f EXCEPT ![t].left = S] \in [Thread -> [left : SUBSET Conn, raced : BOOLEAN]]
<1>1. f[t] \in [left : SUBSET Conn, raced : BOOLEAN]
  OBVIOUS
<1>2. [f[t] EXCEPT !.left = S] = [left |-> S, raced |-> f[t].raced]
  BY <1>1
<1>3. [left |-> S, raced |-> f[t].raced] \in [left : SUBSET Conn, raced : BOOLEAN]
  BY <1>1
<1> QED
  BY <1>2, <1>3

\* Steps of clients.
LEMMA ClientTypes ==
  ASSUME ServerTypeOK, NEW c \in Conn, ClientStep(c)
  PROVE  ServerTypeOK'
<1>1. CASE Leave(c)
  <2>1. \A w \in Write : <<w[1], "failed">> \in Write
    BY DEF Write
  <2>2. {<<w[1], "failed">> : w \in writes[c]} \in SUBSET Write
    BY <2>1 DEF ServerTypeOK
  <2>3. writes' \in [Conn -> SUBSET Write]
    BY <1>1, <2>2 DEF Leave, ServerTypeOK
  <2> QED
    BY <1>1, <2>3 DEF Leave, ServerTypeOK, request, handling, listing
<1>2. CASE Drain(c)
  <2>1. writes' \in [Conn -> SUBSET Write]
    BY <1>2 DEF Drain, ServerTypeOK
  <2> QED
    BY <1>2, <2>1 DEF Drain, ServerTypeOK, request, handling, listing
<1>3. ASSUME NEW e \in Endpoint, ClientConnects(c, e) PROVE ServerTypeOK'
  <2>1. said' \in [Conn -> Seq(Code)]
    BY <1>3 DEF ClientConnects, ServerTypeOK
  <2> QED
    BY <1>3, <2>1 DEF ClientConnects, ServerTypeOK, handling, listing
<1> QED
  BY <1>1, <1>2, <1>3 DEF ClientStep

\* Writes to subscribers and what becomes of them.
LEMMA BroadcastTypes ==
  ASSUME ServerTypeOK,
         \/ \E t \in Thread : BroadcastStep(t)
         \/ Keepalive \/ BusEvent
         \/ \E c \in Conn, k \in {"data", "event"} : WriteFailed(c, k)
  PROVE  ServerTypeOK'
<1> DEFINE Loops == [Thread -> [left : SUBSET Conn, raced : BOOLEAN]]
<1>1. ASSUME NEW t \in Thread, Broadcast(t) PROVE ServerTypeOK'
  <2>1. PICK c \in walk[t].left : Written(c, "event")
                                /\ walk' = [walk EXCEPT ![t].left = @ \ {c}]
    BY <1>1 DEF Broadcast
  <2>2. c \in Conn /\ walk[t].left \ {c} \in SUBSET Conn /\ walk \in Loops
    BY DEF ServerTypeOK
  <2>3. walk' \in Loops
    BY <2>1, <2>2, LoopType
  <2>4. writes' \in [Conn -> SUBSET Write]
    BY <2>1, <2>2, WrittenType
  <2> QED
    BY <1>1, <2>3, <2>4 DEF Broadcast, ServerTypeOK, request, handling, listing
<1>2. ASSUME NEW t \in Thread, BroadcastRaced(t) PROVE ServerTypeOK'
  <2>1. NotWalking \in [left : SUBSET Conn, raced : BOOLEAN]
    BY DEF NotWalking
  <2>2. walk' \in Loops
    BY <1>2, <2>1 DEF BroadcastRaced, ServerTypeOK
  <2> QED
    BY <1>2, <2>2 DEF BroadcastRaced, ServerTypeOK, request, handling, wire, listing
<1>3. ASSUME BusEvent PROVE ServerTypeOK'
  <2>1. walk' \in Loops
    BY <1>3, LoopType DEF BusEvent, ServerTypeOK, Thread
  <2> QED
    BY <1>3, <2>1 DEF BusEvent, ServerTypeOK, request, handling, wire, listing
<1>4. ASSUME Keepalive PROVE ServerTypeOK'
  <2>1. Living \in SUBSET Conn
    BY DEF Living, ServerTypeOK
  <2>2. (IF Living = sockets THEN walk ELSE Disturbed("io")) \in Loops
    BY DisturbedType DEF ServerTypeOK
  <2>3. walk' \in Loops
    BY <1>4, <2>1, <2>2, LoopType DEF Keepalive, Thread
  <2> QED
    BY <1>4, <2>1, <2>3 DEF Keepalive, ServerTypeOK, request, handling
<1>5. ASSUME NEW c \in Conn, NEW k \in {"data", "event"}, WriteFailed(c, k) PROVE ServerTypeOK'
  <2>1. writes' \in [Conn -> SUBSET Write] /\ alive' \in [Conn -> BOOLEAN]
    BY <1>5 DEF WriteFailed, Close, ServerTypeOK
  <2>2. sockets' \in SUBSET Conn /\ walk' \in Loops
    BY <1>5, DisturbedType DEF WriteFailed, CleanupSockets, Living, ServerTypeOK
  <2> QED
    BY <1>5, <2>1, <2>2 DEF WriteFailed, ServerTypeOK, request, handling
<1> QED
  BY <1>1, <1>2, <1>3, <1>4, <1>5 DEF BroadcastStep

\* Steps of the io thread with a connection.
LEMMA ConnectionTypes ==
  ASSUME ServerInv, NEW c \in Conn,
         \/ Accept(c) \/ ReadFails(c) \/ AcceptFails
         \/ HeadersStep(c) \/ DispatchStep(c)
  PROVE  ServerTypeOK'
<1> USE DEF ServerInv
<1>1. CASE Accept(c)
  BY <1>1 DEF Accept, ServerTypeOK, handling, wire, listing
<1>2. CASE ReadFails(c)
  BY <1>2 DEF ReadFails, Close, ServerTypeOK, handling, listing
<1>3. CASE AcceptFails
  BY <1>3 DEF AcceptFails, ServerTypeOK, request, handling, wire, listing
<1>4. CASE RefuseChunked(c)
  <2>1. writes' \in [Conn -> SUBSET Write] /\ said' \in [Conn -> Seq(Code)]
    BY <1>4, SayType DEF RefuseChunked, Code
  <2> QED
    BY <1>4, <2>1 DEF RefuseChunked, ServerTypeOK, handling, listing
<1>5. CASE BadLength(c)
  BY <1>5 DEF BadLength, ServerTypeOK, request, handling, wire, listing
<1>6. CASE ReadHeaders(c)
  BY <1>6 DEF ReadHeaders, ServerTypeOK, handling, wire, listing
<1>7. CASE NotFound(c)
  <2>1. said \in [Conn -> Seq(Code)] /\ "404" \in Code
    BY DEF ServerTypeOK, Code
  <2>2. Append(said[c], "404") \in Seq(Code)
    BY <2>1
  <2>3. said' \in [Conn -> Seq(Code)]
    BY <1>7, <2>1, <2>2 DEF NotFound
  <2>4. writes' \in [Conn -> SUBSET Write] /\ alive' \in [Conn -> BOOLEAN]
    BY <1>7 DEF NotFound, Close, ServerTypeOK, Write
  <2> QED
    BY <1>7, <2>3, <2>4 DEF NotFound, ServerTypeOK, handling, listing
<1>8. CASE PostRequest(c)
  <2>1. posted \in Seq(Conn)
    BY DEF ServerTypeOK
  <2>2. /\ Append(posted, c) \in Seq(Conn)
        /\ DOMAIN Append(posted, c) = 1..Len(posted) + 1
        /\ \A i \in 1..Len(posted) : Append(posted, c)[i] = posted[i]
        /\ Append(posted, c)[Len(posted) + 1] = c
    BY <2>1
  <2>3. Queued(c)' /\ \A d \in Conn \ {c} : Queued(d)' <=> Queued(d)
    BY <1>8, <2>1, <2>2 DEF PostRequest, Queued
  <2>4. where' \in [Conn -> {"none", "posted", "worker", "thread"}]
        /\ \A d \in Conn : where'[d] = IF d = c THEN "posted" ELSE where[d]
    BY <1>8 DEF PostRequest, ServerTypeOK
  <2>5. \A d \in Conn : where'[d] = "posted" <=> Queued(d)'
    BY <2>3, <2>4 DEF ServerTypeOK, Queued
  <2>6. read' \in [Conn -> {"none", "backlog", "headers", "body", "done", "failed"}]
    BY <1>8 DEF PostRequest, ServerTypeOK
  <2> QED
    BY <1>8, <2>2, <2>4, <2>5, <2>6 DEF PostRequest, ServerTypeOK, Queued, wire, listing
<1> QED
  BY <1>1, <1>2, <1>3, <1>4, <1>5, <1>6, <1>7, <1>8 DEF HeadersStep, DispatchStep

\* A request leaves the queue when a thread takes it.
LEMMA TakenTypes ==
  ASSUME ServerInv, TakeRequest
  PROVE  ServerTypeOK' /\ QueuedOnce'
<1> USE DEF ServerInv
<1>1. posted \in Seq(Conn) /\ posted # <<>>
  BY DEF ServerTypeOK, TakeRequest
<1>2. PICK c \in Conn : c = Head(posted)
  BY <1>1
<1>3. /\ posted' = Tail(posted) /\ posted' \in Seq(Conn) /\ Len(posted) > 0
      /\ DOMAIN posted' = 1..Len(posted) - 1 /\ DOMAIN posted = 1..Len(posted)
      /\ \A i \in 1..Len(posted) - 1 : posted'[i] = posted[i + 1]
      /\ c = posted[1] /\ c \in Conn
  BY <1>1, <1>2 DEF TakeRequest
<1>4. QueuedOnce'
  BY <1>3 DEF QueuedOnce
<1>5. ~Queued(c)'
  <2>1. SUFFICES ASSUME NEW i \in 1..Len(posted) - 1, posted'[i] = c PROVE FALSE
    BY <1>3 DEF Queued
  <2>2. posted[i + 1] = posted[1] /\ i + 1 \in 1..Len(posted) /\ 1 \in 1..Len(posted)
    BY <1>3, <2>1
  <2>3. i + 1 = 1
    BY <1>3, <2>2 DEF QueuedOnce
  <2> QED
    BY <2>3
<1>6. ASSUME NEW d \in Conn, d # c PROVE Queued(d)' <=> Queued(d)
  <2>1. ASSUME Queued(d) PROVE Queued(d)'
    <3>1. PICK i \in 1..Len(posted) : posted[i] = d
      BY <1>3, <2>1 DEF Queued
    <3>2. i - 1 \in 1..Len(posted) - 1 /\ posted'[i - 1] = d
      BY <1>3, <1>6, <3>1
    <3> QED
      BY <1>3, <3>2 DEF Queued
  <2>2. ASSUME Queued(d)' PROVE Queued(d)
    <3>1. PICK i \in 1..Len(posted) - 1 : posted'[i] = d
      BY <1>3, <2>2 DEF Queued
    <3>2. i + 1 \in 1..Len(posted) /\ posted[i + 1] = d
      BY <1>3, <3>1
    <3> QED
      BY <1>3, <3>2 DEF Queued
  <2> QED
    BY <2>1, <2>2
<1>7. where' \in [Conn -> {"none", "posted", "worker", "thread"}]
      /\ \A d \in Conn : where'[d] = IF d = c THEN "worker" ELSE where[d]
  BY <1>2 DEF TakeRequest, ServerTypeOK
<1>8. \A d \in Conn : where'[d] = "posted" <=> Queued(d)'
  <2>1. \A d \in Conn : where[d] = "posted" <=> Queued(d)
    BY DEF ServerTypeOK, Queued
  <2>2. ASSUME NEW d \in Conn PROVE where'[d] = "posted" <=> Queued(d)'
    <3>1. CASE d = c
      BY <1>5, <1>7, <3>1
    <3>2. CASE d # c
      BY <1>6, <1>7, <2>1, <3>2
    <3> QED
      BY <3>1, <3>2
  <2> QED
    BY <2>2
<1>9. endpoint[c] \in Registered
  <2>1. Queued(c)
    BY <1>3 DEF Queued
  <2>2. where[c] = "posted"
    BY <1>3, <2>1 DEF ServerTypeOK, Queued
  <2> QED
    BY <1>3, <2>2 DEF ConnOK, RequestOK
<1>10. PICK s \in Handler(endpoint[c]) : script' = [script EXCEPT ![c] = s]
  BY <1>2 DEF TakeRequest
<1>11. s \in Seq(Step)
  BY <1>9, <1>10, HandlerFits DEF Fits
<1>12. script' \in [Conn -> Seq(Step)]
  BY <1>10, <1>11 DEF ServerTypeOK
<1> QED
  BY <1>3, <1>4, <1>7, <1>8, <1>12 DEF TakeRequest, ServerTypeOK, Queued, request, wire, listing

\* Steps of handlers.
LEMMA HandlerTypes ==
  ASSUME ServerInv, NEW c \in Conn,
         HandlerStep(c) \/ \E how \in {"kept", "refused"} : Settle(c, how)
  PROVE  ServerTypeOK'
<1> USE DEF ServerInv
<1>1. ASSUME script[c] # <<>> PROVE /\ [script EXCEPT ![c] = Tail(@)] \in [Conn -> Seq(Step)]
  <2>1. script \in [Conn -> Seq(Step)]
    BY DEF ServerTypeOK
  <2>2. Tail(script[c]) \in Seq(Step)
    BY <1>1, <2>1
  <2> QED
    BY <2>1, <2>2
<1>2. ASSUME NEW steps, At(c, steps), Advance(c) PROVE script' \in [Conn -> Seq(Step)]
  BY <1>1, <1>2 DEF At, Advance
<1>3. CASE Subscribe(c)
  <2>1. script' \in [Conn -> Seq(Step)]
    BY <1>2, <1>3 DEF Subscribe
  <2>2. walk' \in [Thread -> [left : SUBSET Conn, raced : BOOLEAN]]
    BY <1>3, DisturbedType DEF Subscribe, ServerTypeOK
  <2>3. sockets' \in SUBSET Conn /\ capacity' \in Nat
    BY <1>3 DEF Subscribe, ServerTypeOK
  <2> QED
    BY <1>3, <2>1, <2>2, <2>3 DEF Subscribe, ServerTypeOK, request, wire
<1>4. CASE Fire(c)
  <2>1. script' \in [Conn -> Seq(Step)]
    BY <1>2, <1>4 DEF Fire
  <2>2. walk' \in [Thread -> [left : SUBSET Conn, raced : BOOLEAN]]
    BY <1>4, LoopType DEF Fire, ServerTypeOK, Thread
  <2> QED
    BY <1>4, <2>1, <2>2 DEF Fire, ServerTypeOK, request, wire, listing
<1>5. CASE Answer(c)
  <2>1. script' \in [Conn -> Seq(Step)]
    BY <1>2, <1>5 DEF Answer
  <2>2. writes' \in [Conn -> SUBSET Write] /\ said' \in [Conn -> Seq(Code)]
    BY <1>5, SayType DEF Answer, At
  <2> QED
    BY <1>5, <2>1, <2>2 DEF Answer, ServerTypeOK, request, listing
<1>6. CASE SendLine(c)
  <2>1. script' \in [Conn -> Seq(Step)]
    BY <1>2, <1>6 DEF SendLine
  <2>2. writes' \in [Conn -> SUBSET Write]
    BY <1>6, WrittenType DEF SendLine
  <2> QED
    BY <1>6, <2>1, <2>2 DEF SendLine, ServerTypeOK, request, listing
<1>7. CASE Detach(c)
  <2>1. script' \in [Conn -> Seq(Step)]
    BY <1>2, <1>7 DEF Detach
  <2>2. where[c] # "posted"
    BY <1>7 DEF Detach, At, Running
  <2>3. where' \in [Conn -> {"none", "posted", "worker", "thread"}]
        /\ \A d \in Conn : where'[d] = IF d = c THEN "thread" ELSE where[d]
    BY <1>7 DEF Detach, ServerTypeOK
  <2>4. \A d \in Conn : where'[d] = "posted" <=> where[d] = "posted"
    BY <2>2, <2>3
  <2> QED
    BY <1>7, <2>1, <2>3, <2>4 DEF Detach, ServerTypeOK, request, wire, listing
<1>8. CASE WaitOver(c)
  <2>1. Done \in Seq(Step) /\ Refused \in Seq(Step)
    BY DEF Done, Refused, Step, Code
  <2>2. script' \in [Conn -> Seq(Step)]
    BY <1>8, <2>1 DEF WaitOver, ServerTypeOK
  <2> QED
    BY <1>8, <2>2 DEF WaitOver, ServerTypeOK, request, wire, listing
<1>9. CASE Throw(c)
  BY <1>9 DEF Throw, ServerTypeOK, request, handling, wire, listing
<1>10. CASE Return(c)
  <2>1. where[c] # "posted"
    BY <1>10 DEF Return, Running
  <2>2. where' \in [Conn -> {"none", "posted", "worker", "thread"}]
        /\ \A d \in Conn : where'[d] = IF d = c THEN "none" ELSE where[d]
    BY <1>10 DEF Return, ServerTypeOK
  <2>3. \A d \in Conn : where'[d] = "posted" <=> where[d] = "posted"
    BY <2>1, <2>2
  <2> QED
    BY <1>10, <2>2, <2>3 DEF Return, ServerTypeOK, request, wire, listing
<1>11. ASSUME NEW how \in {"kept", "refused"}, Settle(c, how) PROVE ServerTypeOK'
  BY <1>11 DEF Settle, ServerTypeOK, request, wire, listing
<1> QED
  BY <1>3, <1>4, <1>5, <1>6, <1>7, <1>8, <1>9, <1>10, <1>11 DEF HandlerStep

-----------------------------------------------------------------------------
(* Answers. *)

\* A write adds what is stuck, or what has failed to a socket that is closed.
LEMMA WrittenSocket ==
  ASSUME ServerTypeOK, ConnOK, NEW c \in Conn, NEW k \in {"data", "event"}, Written(c, k),
         UNCHANGED <<client, alive, read, where>>
  PROVE  \A d \in Conn : SocketOK(d)'
<1> SUFFICES ASSUME NEW d \in Conn PROVE SocketOK(d)'
  OBVIOUS
<1>1. writes \in [Conn -> SUBSET Write] /\ SocketOK(d)
  BY DEF ServerTypeOK, ConnOK
<1>2. CASE writes'[d] = writes[d]
  BY <1>1, <1>2 DEF SocketOK
<1>3. CASE d = c /\ Reachable(c) /\ writes'[c] = writes[c] \cup {<<k, "stuck">>}
  <2>1. \A w \in writes'[c] : w \in writes[c] \/ w[2] = "stuck"
    BY <1>3
  <2> QED
    BY <1>1, <1>3, <2>1 DEF SocketOK, Reachable
<1>4. CASE d = c /\ ~Reachable(c)
  BY <1>1, <1>4 DEF SocketOK, Reachable
<1> QED
  BY <1>1, <1>2, <1>3, <1>4 DEF Written

\* Clients that come and go.
LEMMA ClientAnswers ==
  ASSUME ServerInv, NEW c \in Conn, ClientStep(c)
  PROVE  ConnOK'
<1> SUFFICES ASSUME NEW d \in Conn
             PROVE  ScriptOK(d)' /\ SocketOK(d)' /\ RequestOK(d)'
  BY DEF ConnOK
<1>1. ScriptOK(d) /\ SocketOK(d) /\ RequestOK(d) /\ ServerTypeOK
  BY DEF ServerInv, ConnOK
<1>2. CASE Leave(c)
  <2>1. CASE d = c
    <3>1. client'[d] # "there"
      BY <1>1, <1>2, <2>1 DEF Leave, ServerTypeOK
    <3>2. ScriptOK(d)' /\ RequestOK(d)'
      BY <1>1, <1>2, <3>1 DEF Leave, handling, ScriptOK, RequestOK, Working
    <3> QED
      BY <3>1, <3>2 DEF SocketOK
  <2>2. CASE d # c
    <3>1. client'[d] = client[d] /\ writes'[d] = writes[d]
      BY <1>1, <1>2, <2>2 DEF Leave, ServerTypeOK
    <3> QED
      BY <1>1, <1>2, <3>1 DEF Leave, handling, ScriptOK, SocketOK, RequestOK, Working
  <2> QED
    BY <2>1, <2>2
<1>3. CASE Drain(c)
  <2>1. writes'[d] \subseteq writes[d]
    BY <1>1, <1>3 DEF Drain, ServerTypeOK
  <2> QED
    BY <1>1, <1>3, <2>1
    DEF Drain, request, handling, ScriptOK, SocketOK, RequestOK, Working
<1>4. ASSUME NEW e \in Endpoint, ClientConnects(c, e)
      PROVE  ScriptOK(d)' /\ SocketOK(d)' /\ RequestOK(d)'
  <2>1. CASE d = c
    <3>1. /\ read'[d] = "backlog" /\ said'[d] = <<>> /\ alive'[d] = TRUE
          /\ where'[d] = "none" /\ writes'[d] = {}
      BY <1>1, <1>4, <2>1 DEF ClientConnects, Held, ServerTypeOK, handling
    <3> QED
      BY <3>1 DEF ScriptOK, SocketOK, RequestOK, Working
  <2>2. CASE d # c
    <3>1. /\ client'[d] = client[d] /\ read'[d] = read[d] /\ endpoint'[d] = endpoint[d]
          /\ said'[d] = said[d] /\ alive'[d] = alive[d]
      BY <1>1, <1>4, <2>2 DEF ClientConnects, ServerTypeOK
    <3> QED
      BY <1>1, <1>4, <3>1
      DEF ClientConnects, handling, ScriptOK, SocketOK, RequestOK, Working
  <2> QED
    BY <2>1, <2>2
<1> QED
  BY <1>2, <1>3, <1>4 DEF ClientStep

\* Events written to subscribers tell no client anything about its request.
LEMMA BroadcastAnswers ==
  ASSUME ServerInv,
         \/ \E t \in Thread : BroadcastStep(t)
         \/ Keepalive \/ BusEvent
         \/ \E c \in Conn, k \in {"data", "event"} : WriteFailed(c, k)
  PROVE  ConnOK'
<1>1. ServerTypeOK /\ ConnOK
  BY DEF ServerInv
<1>2. ASSUME UNCHANGED <<request, handling, said>>
      PROVE  \A d \in Conn : ScriptOK(d)' /\ RequestOK(d)'
  BY <1>1, <1>2 DEF ConnOK, ScriptOK, RequestOK, Working, request, handling
<1>3. ASSUME UNCHANGED <<request, handling, wire>> PROVE ConnOK'
  <2>1. \A d \in Conn : SocketOK(d)'
    BY <1>1, <1>3 DEF ConnOK, SocketOK, request, handling, wire
  <2> QED
    BY <1>2, <1>3, <2>1 DEF ConnOK, wire
<1>4. ASSUME NEW t \in Thread, Broadcast(t) PROVE ConnOK'
  <2>1. PICK c \in walk[t].left : Written(c, "event")
    BY <1>4 DEF Broadcast
  <2>2. c \in Conn
    BY <1>1 DEF ServerTypeOK
  <2>3. \A d \in Conn : SocketOK(d)'
    BY <1>1, <1>4, <2>1, <2>2, WrittenSocket DEF Broadcast, request, handling
  <2> QED
    BY <1>2, <1>4, <2>3 DEF Broadcast, ConnOK
<1>5. ASSUME NEW t \in Thread, BroadcastRaced(t) PROVE ConnOK'
  BY <1>3, <1>5 DEF BroadcastRaced
<1>6. ASSUME BusEvent PROVE ConnOK'
  BY <1>3, <1>6 DEF BusEvent
<1>7. ASSUME Keepalive PROVE ConnOK'
  BY <1>3, <1>7 DEF Keepalive, wire
<1>8. ASSUME NEW c \in Conn, NEW k \in {"data", "event"}, WriteFailed(c, k) PROVE ConnOK'
  <2>1. ASSUME NEW d \in Conn PROVE SocketOK(d)'
    <3>1. SocketOK(d) /\ writes'[d] \subseteq writes[d]
      BY <1>1, <1>8 DEF WriteFailed, ServerTypeOK, ConnOK
    <3>2. CASE d # c
      <4>1. alive'[d] <=> alive[d]
        BY <1>1, <1>8, <3>2 DEF WriteFailed, Close, ServerTypeOK
      <4> QED
        BY <1>8, <3>1, <4>1 DEF WriteFailed, SocketOK, request, handling
    <3>3. CASE d = c
      <4>1. ~alive'[d]
        BY <1>1, <1>8, <3>3 DEF WriteFailed, Close, ServerTypeOK
      <4>2. client[d] = "there" => ~alive[d]
        BY <1>1, <1>8, <3>3 DEF WriteFailed, ConnOK, SocketOK
      <4> QED
        BY <1>8, <3>1, <4>1, <4>2 DEF WriteFailed, SocketOK, request, handling
    <3> QED
      BY <3>2, <3>3
  <2> QED
    BY <1>2, <1>8, <2>1 DEF WriteFailed, ConnOK
<1> QED
  BY <1>4, <1>5, <1>6, <1>7, <1>8 DEF BroadcastStep

\* What the io thread does with a connection whose request it reads: until the
\* request is whole its client has been told nothing.
LEMMA ConnectionAnswers ==
  ASSUME ServerInv, NEW c \in Conn,
         \/ Accept(c) \/ ReadFails(c) \/ AcceptFails
         \/ HeadersStep(c) \/ DispatchStep(c)
  PROVE  ConnOK'
<1> SUFFICES ASSUME NEW d \in Conn
             PROVE  ScriptOK(d)' /\ SocketOK(d)' /\ RequestOK(d)'
  BY DEF ConnOK
<1>1. ScriptOK(d) /\ SocketOK(d) /\ RequestOK(d) /\ ServerTypeOK
  BY DEF ServerInv, ConnOK
<1>2. CASE AcceptFails
  BY <1>1, <1>2
  DEF AcceptFails, request, handling, wire, ScriptOK, SocketOK, RequestOK, Working
<1>3. CASE BadLength(c)
  BY <1>1, <1>3
  DEF BadLength, request, handling, wire, ScriptOK, SocketOK, RequestOK, Working
<1>4. CASE Accept(c)
  <2>1. /\ read[c] = "backlog" /\ read'[c] = "headers"
        /\ d # c => read'[d] = read[d]
    BY <1>1, <1>4 DEF Accept, ServerTypeOK
  <2> QED
    BY <1>1, <1>4, <2>1
    DEF Accept, handling, wire, ScriptOK, SocketOK, RequestOK, Working
<1>5. CASE ReadHeaders(c)
  <2>1. /\ read[c] = "headers" /\ read'[c] = "body"
        /\ d # c => read'[d] = read[d]
    BY <1>1, <1>5 DEF ReadHeaders, ServerTypeOK
  <2> QED
    BY <1>1, <1>5, <2>1
    DEF ReadHeaders, handling, wire, ScriptOK, SocketOK, RequestOK, Working
<1>6. CASE ReadFails(c)
  <2>1. CASE d # c
    <3>1. read'[d] = read[d] /\ (alive'[d] <=> alive[d])
      BY <1>1, <1>6, <2>1 DEF ReadFails, Close, ServerTypeOK
    <3> QED
      BY <1>1, <1>6, <3>1
      DEF ReadFails, handling, ScriptOK, SocketOK, RequestOK, Working
  <2>2. CASE d = c
    <3>1. read'[d] = "failed" /\ Reading(d) /\ client[d] = "gone"
      BY <1>1, <1>6, <2>2 DEF ReadFails, ServerTypeOK
    <3> QED
      BY <1>1, <1>6, <3>1
      DEF ReadFails, handling, Reading, ScriptOK, SocketOK, RequestOK, Working
  <2> QED
    BY <2>1, <2>2
<1>7. CASE RefuseChunked(c)
  <2>1. CASE d # c
    <3>1. read'[d] = read[d] /\ said'[d] = said[d] /\ writes'[d] = writes[d]
      BY <1>1, <1>7, <2>1 DEF RefuseChunked, Say, Written, ServerTypeOK
    <3> QED
      BY <1>1, <1>7, <3>1
      DEF RefuseChunked, handling, ScriptOK, SocketOK, RequestOK, Working
  <2>2. CASE d = c
    <3>1. read'[d] = "done" /\ said[d] = <<>> /\ where[d] = "none"
      BY <1>1, <1>7, <2>2 DEF RefuseChunked, ServerTypeOK, RequestOK
    <3>2. said'[d] = IF Reachable(d) THEN <<"500">> ELSE <<>>
      BY <1>1, <1>7, <2>2, <3>1 DEF RefuseChunked, Say, ServerTypeOK
    <3>3. client[d] = "there" => alive[d]
      BY <1>1, <1>7, <2>2 DEF RefuseChunked, SocketOK
    <3>4. Reachable(d) => \A w \in writes'[d] : w \in writes[d] \/ w[2] = "stuck"
      BY <1>1, <1>7, <2>2 DEF RefuseChunked, Say, Written, ServerTypeOK
    <3>5. Len(said'[d]) <= 1 /\ (client[d] = "there" => said'[d] # <<>>)
      BY <3>2, <3>3 DEF Reachable
    <3> QED
      BY <1>1, <1>7, <3>1, <3>3, <3>4, <3>5
      DEF RefuseChunked, handling, Reachable, ScriptOK, SocketOK, RequestOK, Working
  <2> QED
    BY <2>1, <2>2
<1>8. CASE NotFound(c)
  <2>1. CASE d # c
    <3>1. /\ read'[d] = read[d] /\ said'[d] = said[d] /\ writes'[d] = writes[d]
          /\ alive'[d] <=> alive[d]
      BY <1>1, <1>8, <2>1 DEF NotFound, Close, ServerTypeOK
    <3> QED
      BY <1>1, <1>8, <3>1
      DEF NotFound, handling, ScriptOK, SocketOK, RequestOK, Working
  <2>2. CASE d = c
    <3>1. Reading(d) /\ read'[d] = "done" /\ ~alive'[d]
      BY <1>1, <1>8, <2>2 DEF NotFound, Close, ServerTypeOK
    <3>2. said[d] = <<>> /\ where[d] = "none" /\ (client[d] = "there" => alive[d])
      BY <1>1, <3>1 DEF Reading, RequestOK, SocketOK
    <3>3. said'[d] = IF Reachable(d) THEN <<"404">> ELSE <<>>
      BY <1>1, <1>8, <2>2, <3>2 DEF NotFound, ServerTypeOK
    <3>4. Len(said'[d]) <= 1 /\ (client[d] = "there" => said'[d] # <<>>)
      BY <3>2, <3>3 DEF Reachable
    <3> QED
      BY <1>8, <3>1, <3>2, <3>4
      DEF NotFound, handling, ScriptOK, SocketOK, RequestOK, Working
  <2> QED
    BY <2>1, <2>2
<1>9. CASE PostRequest(c)
  <2>1. CASE d # c
    <3>1. read'[d] = read[d] /\ where'[d] = where[d]
      BY <1>1, <1>9, <2>1 DEF PostRequest, ServerTypeOK
    <3> QED
      BY <1>1, <1>9, <3>1
      DEF PostRequest, wire, ScriptOK, SocketOK, RequestOK, Working
  <2>2. CASE d = c
    <3>1. Reading(d) /\ read'[d] = "done" /\ where'[d] = "posted"
      BY <1>1, <1>9, <2>2 DEF PostRequest, ServerTypeOK
    <3>2. /\ said[d] = <<>> /\ endpoint[d] \in Registered
          /\ client[d] = "there" => alive[d]
      BY <1>1, <1>9, <2>2, <3>1 DEF PostRequest, Reading, RequestOK, SocketOK
    <3> QED
      BY <1>1, <1>9, <3>1, <3>2
      DEF PostRequest, wire, ScriptOK, SocketOK, RequestOK, Working
  <2> QED
    BY <2>1, <2>2
<1> QED
  BY <1>2, <1>3, <1>4, <1>5, <1>6, <1>7, <1>8, <1>9 DEF HeadersStep, DispatchStep

\* A thread that takes a request has all of its handler before it.
LEMMA TakeAnswers == ASSUME ServerInv, TakeRequest PROVE ConnOK'
<1> SUFFICES ASSUME NEW d \in Conn
             PROVE  ScriptOK(d)' /\ SocketOK(d)' /\ RequestOK(d)'
  BY DEF ConnOK
<1>1. ScriptOK(d) /\ SocketOK(d) /\ RequestOK(d) /\ ServerTypeOK
  BY DEF ServerInv, ConnOK
<1>2. PICK c \in Conn : c = Head(posted) /\ Queued(c)
  <2>1. posted \in Seq(Conn) /\ posted # <<>>
    BY <1>1 DEF TakeRequest, ServerTypeOK
  <2>2. Head(posted) \in Conn /\ 1 \in DOMAIN posted /\ posted[1] = Head(posted)
    BY <2>1
  <2> QED
    BY <2>2 DEF Queued
<1>3. PICK s \in Handler(endpoint[c]) :
        where' = [where EXCEPT ![c] = "worker"] /\ script' = [script EXCEPT ![c] = s]
  BY <1>2 DEF TakeRequest
<1>4. CASE d # c
  <2>1. where'[d] = where[d] /\ script'[d] = script[d]
    BY <1>1, <1>3, <1>4 DEF ServerTypeOK
  <2> QED
    BY <1>1, <2>1
    DEF TakeRequest, request, wire, ScriptOK, SocketOK, RequestOK, Working
<1>5. CASE d = c
  <2>1. where[d] = "posted"
    BY <1>1, <1>2, <1>5 DEF ServerTypeOK, Queued
  <2>2. read[d] = "done" /\ endpoint[d] \in Registered /\ said[d] = <<>>
    BY <1>1, <2>1 DEF RequestOK
  <2>3. client[d] = "there" => alive[d]
    BY <1>1, <2>1 DEF SocketOK
  <2>4. where'[d] = "worker" /\ script'[d] = s
    BY <1>1, <1>3, <1>5 DEF ServerTypeOK
  <2>5. Fits(endpoint[d], Handler(endpoint[d]))
    BY <2>2, HandlerFits
  <2>6. ScriptOK(d)'
    BY <1>3, <1>5, <2>2, <2>4, <2>5 DEF TakeRequest, request, wire, Fits, ScriptOK
  <2>7. SocketOK(d)' /\ RequestOK(d)'
    BY <1>1, <2>2, <2>3, <2>4 DEF TakeRequest, request, wire, SocketOK, RequestOK
  <2> QED
    BY <2>6, <2>7
<1> QED
  BY <1>4, <1>5

\* A step of a handler, or what it waits for: the client is told once, with
\* the last step.
LEMMA HandlerAnswers ==
  ASSUME ServerInv, NEW c \in Conn,
         HandlerStep(c) \/ \E how \in {"kept", "refused"} : Settle(c, how)
  PROVE  ConnOK'
<1> SUFFICES ASSUME NEW d \in Conn
             PROVE  ScriptOK(d)' /\ SocketOK(d)' /\ RequestOK(d)'
  BY DEF ConnOK
<1>1. ScriptOK(d) /\ SocketOK(d) /\ RequestOK(d) /\ ServerTypeOK /\ ConnOK
  BY DEF ServerInv, ConnOK
<1>2. CASE d # c
  <2>1. UNCHANGED request /\ UNCHANGED alive
    BY DEF HandlerStep, Subscribe, Fire, Answer, SendLine, Detach, WaitOver, Throw,
       Return, Settle, wire
  <2>2. script'[d] = script[d]
    BY <1>1, <1>2 DEF HandlerStep, Subscribe, Fire, Answer, SendLine, Detach,
       WaitOver, Throw, Return, Settle, Advance, handling, ServerTypeOK
  <2>3. where'[d] = where[d]
    BY <1>1, <1>2 DEF HandlerStep, Subscribe, Fire, Answer, SendLine, Detach,
       WaitOver, Throw, Return, Settle, handling, ServerTypeOK
  <2>4. said'[d] = said[d] /\ writes'[d] = writes[d]
    BY <1>1, <1>2 DEF HandlerStep, Subscribe, Fire, Answer, SendLine, Detach,
       WaitOver, Throw, Return, Settle, Say, Written, wire, ServerTypeOK
  <2> QED
    BY <1>1, <2>1, <2>2, <2>3, <2>4 DEF request, ScriptOK, SocketOK, RequestOK, Working
<1>3. CASE UNCHANGED <<request, where, script, wire>>
  BY <1>1, <1>3 DEF request, wire, ScriptOK, SocketOK, RequestOK, Working
<1>4. ASSUME d = c, NEW steps, At(c, steps), Advance(c)
      PROVE  /\ Working(d) /\ read[d] = "done" /\ endpoint[d] \in Registered
             /\ client[d] = "there" => alive[d]
             /\ script'[d] = Tail(script[d])
             /\ Head(script[d]) \in steps
  BY <1>1, <1>4 DEF At, Running, Advance, Working, RequestOK, SocketOK, ServerTypeOK
<1>5. ASSUME d = c, NEW steps, At(c, steps), Advance(c),
             endpoint[d] # "DockerPullImage"
      PROVE  \/ /\ script[d] \in Ending /\ said[d] = <<>>
                /\ Head(script[d]) \in LastStep => script'[d] = <<>>
                /\ Head(script[d]) \notin LastStep => script'[d] \in Ending
             \/ /\ script[d] = <<"fire">> /\ script'[d] = <<>>
                /\ Head(script[d]) = "fire"
                /\ endpoint[d] \notin Silent /\ client[d] = "there" => said[d] # <<>>
  <2>1. script[d] \in Ending \cup {<<"fire">>}
    BY <1>1, <1>4, <1>5 DEF ScriptOK, At
  <2>2. CASE script[d] \in Ending
    BY <1>1, <1>4, <1>5, <2>2, EndingStep DEF ScriptOK
  <2>3. CASE script[d] = <<"fire">> /\ script[d] \notin Ending
    BY <1>1, <1>4, <1>5, <2>3 DEF ScriptOK
  <2> QED
    BY <2>1, <2>2, <2>3
<1>6. <<>> \notin Ending
  BY EndingStep
<1>7. ASSUME d = c, NEW steps, steps \cap LastStep = {}, At(c, steps), Advance(c),
             UNCHANGED <<request, said, alive>>, UNCHANGED writes \/ Written(c, "data"),
             where'[d] \in {"worker", "thread"}
      PROVE  ScriptOK(d)' /\ SocketOK(d)' /\ RequestOK(d)'
  <2>1. /\ Working(d) /\ read[d] = "done" /\ endpoint[d] \in Registered
        /\ client[d] = "there" => alive[d]
        /\ Head(script[d]) \notin LastStep
    BY <1>4, <1>7
  <2>2. ScriptOK(d)'
    BY <1>5, <1>6, <1>7, <2>1 DEF request, ScriptOK
  <2>3. RequestOK(d)'
    BY <1>1, <1>7, <2>1 DEF request, RequestOK, Working
  <2>4. client[d] = "there" =>
          \A w \in writes'[d] : w \in writes[d] \/ w[2] = "stuck"
    BY <1>1, <1>7, <2>1 DEF Written, Reachable, ServerTypeOK
  <2>5. SocketOK(d)'
    BY <1>1, <1>7, <2>1, <2>4 DEF request, SocketOK
  <2> QED
    BY <2>2, <2>3, <2>5
<1>8. CASE d = c /\ (Subscribe(c) \/ Fire(c) \/ SendLine(c) \/ Detach(c))
  <2>1. PICK steps \in {{"subscribe"}, {"fire"}, {"line"}, {"detach"}} :
          At(c, steps) /\ Advance(c)
    BY <1>8 DEF Subscribe, Fire, SendLine, Detach
  <2>2. steps \cap LastStep = {}
    BY <2>1 DEF LastStep, Code
  <2>3. where[d] \in {"worker", "thread"}
    BY <1>8, <2>1 DEF At, Running
  <2>4. where'[d] \in {"worker", "thread"}
    BY <1>1, <1>8, <2>3 DEF Subscribe, Fire, SendLine, Detach, ServerTypeOK
  <2>5. UNCHANGED <<request, said, alive>> /\ (UNCHANGED writes \/ Written(c, "data"))
    BY <1>8 DEF Subscribe, Fire, SendLine, Detach, wire
  <2> QED
    BY <1>7, <1>8, <2>1, <2>2, <2>4, <2>5
<1>9. CASE d = c /\ Answer(c)
  <2>1. At(c, Code) /\ Advance(c) /\ UNCHANGED <<request, where, alive>>
    BY <1>9 DEF Answer
  <2>2. /\ Working(d) /\ read[d] = "done" /\ endpoint[d] \in Registered
        /\ client[d] = "there" => alive[d]
        /\ Head(script[d]) \in Code
    BY <1>4, <1>9, <2>1
  <2>3. SocketOK(d)'
    <3>1. Written(c, "data")
      BY <1>9 DEF Answer, Say
    <3>2. client[d] = "there" =>
            \A w \in writes'[d] : w \in writes[d] \/ w[2] = "stuck"
      BY <1>1, <1>9, <2>2, <3>1 DEF Written, Reachable, ServerTypeOK
    <3> QED
      BY <1>1, <2>1, <2>2, <3>2 DEF request, SocketOK
  <2>4. CASE endpoint[d] = "DockerPullImage"
    BY <1>1, <2>1, <2>2, <2>3, <2>4 DEF request, ScriptOK, RequestOK, Working
  <2>5. CASE endpoint[d] # "DockerPullImage"
    <3>1. Head(script[d]) \in LastStep /\ Head(script[d]) # "fire"
      BY <2>2 DEF LastStep, Code
    <3>2. said[d] = <<>> /\ script'[d] = <<>>
      BY <1>5, <1>9, <2>1, <2>5, <3>1
    <3>3. said'[d] = IF Reachable(d) THEN <<Head(script[d])>> ELSE <<>>
      BY <1>1, <1>9, <3>2 DEF Answer, Say, ServerTypeOK
    <3>4. Len(said'[d]) <= 1 /\ (client[d] = "there" => said'[d] # <<>>)
      BY <2>2, <3>3 DEF Reachable
    <3> QED
      BY <1>6, <2>1, <2>2, <2>3, <3>2, <3>4 DEF request, ScriptOK, RequestOK, Working
  <2> QED
    BY <2>3, <2>4, <2>5
<1>10. CASE d = c /\ WaitOver(c)
  <2>1. At(c, {"wait"}) /\ UNCHANGED <<request, where, wire>>
    BY <1>10 DEF WaitOver
  <2>2. script'[d] \in Ending
    BY <1>1, <1>10 DEF WaitOver, Done, Refused, Ending, ServerTypeOK
  <2>3. Working(d)
    BY <1>10, <2>1 DEF At, Running, Working
  <2>4. endpoint[d] # "DockerPullImage" => said[d] = <<>>
    <3>1. Head(script[d]) = "wait" /\ script[d] # <<>>
      BY <1>10, <2>1 DEF At
    <3>2. script[d] # <<"fire">>
      BY <3>1
    <3> QED
      BY <1>1, <2>3, <3>1, <3>2 DEF ScriptOK
  <2> QED
    BY <1>1, <2>1, <2>2, <2>3, <2>4
    DEF request, wire, ScriptOK, SocketOK, RequestOK, Working
<1>11. CASE d = c /\ Return(c)
  <2>1. /\ Working(d) /\ script[d] = <<>> /\ where'[d] = "none"
        /\ UNCHANGED <<request, wire>>
    BY <1>1, <1>11 DEF Return, Running, Working, ServerTypeOK
  <2>2. endpoint[d] \notin Silent /\ client[d] = "there" => said[d] # <<>>
    BY <1>1, <1>6, <2>1 DEF ScriptOK, Silent
  <2> QED
    BY <1>1, <2>1, <2>2 DEF request, wire, ScriptOK, SocketOK, RequestOK, Working
<1>12. CASE Throw(c)
  BY <1>3, <1>12 DEF Throw, handling
<1>13. ASSUME NEW how \in {"kept", "refused"}, Settle(c, how)
       PROVE  ScriptOK(d)' /\ SocketOK(d)' /\ RequestOK(d)'
  BY <1>3, <1>13 DEF Settle
<1> QED
  BY <1>2, <1>8, <1>9, <1>10, <1>11, <1>12, <1>13 DEF HandlerStep

-----------------------------------------------------------------------------
(* The theorems. *)

\* Only a request that is posted or taken changes the queue.
LEMMA QueueStep == ServerInv /\ [ServerNext]_serverVars => QueuedOnce'
<1> SUFFICES ASSUME ServerInv, [ServerNext]_serverVars PROVE QueuedOnce'
  OBVIOUS
<1>1. CASE UNCHANGED posted
  BY <1>1 DEF ServerInv, QueuedOnce
<1>2. CASE TakeRequest
  BY <1>2, TakenTypes
<1>3. ASSUME NEW c \in Conn, PostRequest(c) PROVE QueuedOnce'
  <2>1. posted \in Seq(Conn) /\ posted' = Append(posted, c)
    BY <1>3 DEF PostRequest, ServerInv, ServerTypeOK
  <2>2. ~Queued(c)
    BY <1>3 DEF PostRequest, Reading, ServerInv, ConnOK, RequestOK, ServerTypeOK, Queued
  <2>3. /\ DOMAIN posted' = 1..Len(posted) + 1 /\ DOMAIN posted = 1..Len(posted)
        /\ \A i \in 1..Len(posted) : posted'[i] = posted[i] /\ posted[i] # c
        /\ posted'[Len(posted) + 1] = c
    BY <2>1, <2>2 DEF Queued
  <2> QED
    BY <2>1, <2>3 DEF ServerInv, QueuedOnce
<1>4. UNCHANGED posted \/ TakeRequest \/ \E c \in Conn : PostRequest(c)
  BY DEF ServerNext, serverVars, handling, AcceptFails, Keepalive, BusEvent, BroadcastStep, Broadcast,
     BroadcastRaced, ClientStep, ClientConnects, Leave, Drain, Accept, ReadFails,
     HeadersStep, RefuseChunked, BadLength, ReadHeaders, DispatchStep, NotFound,
     WriteFailed, Settle, HandlerStep, Subscribe, Fire, Answer, SendLine, Detach,
     WaitOver, Throw, Return
<1> QED
  BY <1>1, <1>2, <1>3, <1>4

\* Every step keeps the invariant.
LEMMA StepInv == ServerInv /\ [ServerNext]_serverVars => ServerInv'
<1> SUFFICES ASSUME ServerInv, [ServerNext]_serverVars PROVE ServerInv'
  OBVIOUS
<1>1. QueuedOnce'
  BY QueueStep
<1>2. CASE UNCHANGED serverVars
  <2>1. ServerTypeOK'
    BY <1>2 DEF ServerInv, ServerTypeOK, serverVars, request, handling, wire, listing
  <2>2. ConnOK'
    BY <1>2 DEF ServerInv, ConnOK, ScriptOK, SocketOK, RequestOK, Working,
       serverVars, request, handling, wire
  <2> QED
    BY <1>1, <2>1, <2>2 DEF ServerInv
<1>3. CASE \/ \E t \in Thread : BroadcastStep(t)
           \/ Keepalive \/ BusEvent
           \/ \E c \in Conn, k \in {"data", "event"} : WriteFailed(c, k)
  BY <1>1, <1>3, BroadcastTypes, BroadcastAnswers DEF ServerInv
<1>4. CASE TakeRequest
  BY <1>1, <1>4, TakenTypes, TakeAnswers DEF ServerInv
<1>5. ASSUME NEW c \in Conn, ClientStep(c) PROVE ServerInv'
  BY <1>1, <1>5, ClientTypes, ClientAnswers DEF ServerInv
<1>6. ASSUME NEW c \in Conn,
             HandlerStep(c) \/ \E how \in {"kept", "refused"} : Settle(c, how)
      PROVE  ServerInv'
  BY <1>1, <1>6, HandlerTypes, HandlerAnswers DEF ServerInv
<1>7. ASSUME NEW c \in Conn,
             \/ Accept(c) \/ ReadFails(c)
             \/ HeadersStep(c) \/ DispatchStep(c)
      PROVE  ServerInv'
  BY <1>1, <1>7, ConnectionTypes, ConnectionAnswers DEF ServerInv
<1>8. CASE AcceptFails
  <2>1. ServerTypeOK'
    BY <1>8 DEF AcceptFails, ServerInv, ServerTypeOK, request, handling, wire, listing
  <2>2. ConnOK'
    BY <1>8 DEF AcceptFails, ServerInv, ConnOK, ScriptOK, SocketOK, RequestOK,
       Working, request, handling, wire
  <2> QED
    BY <1>1, <2>1, <2>2 DEF ServerInv
<1> QED
  BY <1>2, <1>3, <1>4, <1>5, <1>6, <1>7, <1>8 DEF ServerNext, BroadcastStep

\* The types hold in every state: a request that is queued is in the queue,
\* however many connections and threads there are.
THEOREM ServerTypeCorrect == ServerSpec => []ServerTypeOK
<1>1. ServerInv => ServerTypeOK
  BY DEF ServerInv
<1> QED
  BY <1>1, InitInv, StepInv, PTL DEF ServerSpec

\* A client that stays gets one status line before the server lets go of its
\* connection, for every endpoint but the two that are silent
\* (unix_socket_server.cpp:383-403).
THEOREM OneAnswer == ServerSpec => []AnsweredOnce
<1>1. ServerInv => AnsweredOnce
  <2> SUFFICES ASSUME ServerInv, NEW c \in Conn
               PROVE  /\ endpoint[c] # "DockerPullImage" => Len(said[c]) <= 1
                      /\ /\ read[c] = "done" /\ client[c] = "there"
                         /\ ~Held(c) \/ ~alive[c]
                         /\ endpoint[c] \notin Silent
                         => said[c] # <<>>
    BY DEF AnsweredOnce
  <2>1. SocketOK(c) /\ RequestOK(c)
    BY DEF ServerInv, ConnOK
  <2> QED
    BY <2>1 DEF SocketOK, RequestOK, Held
<1> QED
  BY <1>1, InitInv, StepInv, PTL DEF ServerSpec
=============================================================================
