--------------------------- MODULE LobbiesProofs ---------------------------
(***************************************************************************)
(* What Lobbies keeps for any number of sessions, lobbies and threads, and *)
(* what it keeps when one thread fires all the events: everybody plays     *)
(* where a list says, and the handlers implement LobbyMembership.          *)
(***************************************************************************)
EXTENDS Lobbies, TLAPS, WellFoundedInduction

(* Induction: a set of naturals has a least element. A property of data is   *)
(* proved by looking at the least counterexample.                           *)

\* A set of naturals that is not empty has a least element.
LEMMA Least ==
  ASSUME NEW T, T \subseteq Nat, T # {}
  PROVE  \E m \in T : \A n \in T : m <= n
<1> DEFINE Less == {ss \in Nat \X Nat : ss[1] < ss[2]}
<1>0. OpToRel(<, Nat) = Less
  BY Zenon DEF OpToRel
<1>1. IsWellFoundedOn(Less, Nat)
  BY <1>0, NatLessThanWellFounded, Zenon
<1> HIDE DEF Less
<1>2. PICK m \in T : \A n \in T : ~(<<n, m>> \in Less)
  BY <1>1, WFMin
<1>3. ASSUME NEW n \in T, n < m PROVE FALSE
  <2>1. <<n, m>> \in Less
    BY <1>3 DEF Less
  <2>2. QED
    BY <1>2, <2>1
<1>4. QED
  BY <1>3

\* Min of a set of naturals is in it.
LEMMA MinIs ==
  ASSUME NEW T, T \subseteq Nat, T # {}
  PROVE  Min(T) \in T
BY Least DEF Min

Kept(list, e, g, n) ==
  IF n = 0 THEN <<>>
  ELSE IF list[n] = e THEN g[n - 1] ELSE Append(g[n - 1], list[n])

\* The recursive function that filter is defined by exists.
LEMMA KeptExists ==
  ASSUME NEW K, NEW list \in Seq(K), NEW e
  PROVE  \E g : g = [n \in 0..Len(list) |-> Kept(list, e, g, n)]
<1> DEFINE Good(m, g) == g = [n \in 0..m |-> Kept(list, e, g, n)]
           T == {m \in 0..Len(list) : \A g : ~Good(m, g)}
<1>1. SUFFICES ASSUME T # {} PROVE FALSE
  OBVIOUS
<1>2. PICK m \in T : \A n \in T : m <= n
  <2>1. T \subseteq Nat
    OBVIOUS
  <2> HIDE DEF T
  <2>2. QED
    BY <1>1, <2>1, Least
<1>3. CASE m = 0
  <2> DEFINE g == [n \in 0..0 |-> <<>>]
  <2>1. Good(0, g)
    BY DEF Kept
  <2>2. QED
    BY <1>3, <2>1
<1>4. CASE m # 0
  <2>1. m - 1 \notin T /\ m - 1 \in 0..Len(list)
    BY <1>2, <1>4
  <2>2. PICK g : Good(m - 1, g)
    BY <2>1
  <2> DEFINE h == [n \in 0..m |-> IF n = m THEN Kept(list, e, g, m) ELSE g[n]]
  <2>3. ASSUME NEW n \in 0..m PROVE h[n] = Kept(list, e, h, n)
    <3>1. Kept(list, e, h, n) = Kept(list, e, g, n)
      <4>1. CASE n = 0
        BY <4>1 DEF Kept
      <4>2. CASE n # 0
        <5>1. n - 1 \in 0..m /\ n - 1 # m
          BY <2>1, <4>2
        <5>2. h[n - 1] = g[n - 1]
          BY <5>1
        <5> HIDE DEF h
        <5>3. QED
          BY <5>2 DEF Kept
      <4>3. QED
        BY <4>1, <4>2
    <3>2. ASSUME n # m PROVE g[n] = Kept(list, e, g, n)
      <4>1. n \in 0..(m - 1)
        BY <3>2
      <4> HIDE DEF Kept
      <4>2. QED
        BY <4>1, <2>2
    <3>3. QED
      BY <3>1, <3>2
  <2>4. h = [n \in 0..m |-> h[n]]
    OBVIOUS
  <2>5. Good(m, h)
    BY <2>3, <2>4
  <2>6. QED
    BY <2>5
<1>5. QED
  BY <1>3, <1>4

\* filter computed entry by entry
LEMMA WithoutSteps ==
  ASSUME NEW K, NEW list \in Seq(K), NEW e
  PROVE  \E g : /\ g = [n \in 0..Len(list) |-> Kept(list, e, g, n)]
                /\ Without(list, e) = g[Len(list)]
<1> DEFINE g == CHOOSE g : g = [n \in 0..Len(list) |-> Kept(list, e, g, n)]
<1>1. g = [n \in 0..Len(list) |-> Kept(list, e, g, n)]
  BY KeptExists
<1>2. Without(list, e) = g[Len(list)]
  BY DEF Without, Kept
<1>3. QED
  BY <1>1, <1>2

\* push_back on an immer vector: the entries it had and the new one.
LEMMA AppendIs ==
  ASSUME NEW K, NEW list \in Seq(K), NEW e \in K
  PROVE  /\ Append(list, e) \in Seq(K)
         /\ ToSet(Append(list, e)) = ToSet(list) \cup {e}
         /\ IsInjective(list) /\ e \notin ToSet(list) => IsInjective(Append(list, e))
<1> DEFINE new == Append(list, e)
<1>1. /\ new \in Seq(K) /\ Len(new) = Len(list) + 1 /\ new[Len(new)] = e
      /\ \A i \in 1..Len(list) : new[i] = list[i]
  OBVIOUS
<1> HIDE DEF new
<1>2. ToSet(new) = ToSet(list) \cup {e}
  BY <1>1 DEF ToSet
<1>3. ASSUME IsInjective(list), e \notin ToSet(list), NEW i \in DOMAIN new,
             NEW j \in DOMAIN new, new[i] = new[j], i # j
      PROVE  FALSE
  <2>1. \A k \in DOMAIN new : k \in 1..Len(list) \/ k = Len(new)
    BY <1>1
  <2>2. \A k \in 1..Len(list) : new[k] # e
    BY <1>1, <1>3 DEF ToSet
  <2>3. i \in 1..Len(list) /\ j \in 1..Len(list)
    BY <1>1, <1>3, <2>1, <2>2
  <2>4. QED
    BY <1>1, <1>3, <2>3 DEF IsInjective
<1>4. QED
  BY <1>1, <1>2, <1>3 DEF IsInjective, new

\* filter on an immer vector takes out every entry e and nothing else.
LEMMA WithoutIs ==
  ASSUME NEW K, NEW list \in Seq(K), NEW e
  PROVE  /\ Without(list, e) \in Seq(K)
         /\ ToSet(Without(list, e)) = ToSet(list) \ {e}
         /\ IsInjective(list) => IsInjective(Without(list, e))
<1>1. PICK g : /\ g = [n \in 0..Len(list) |-> Kept(list, e, g, n)]
               /\ Without(list, e) = g[Len(list)]
  BY WithoutSteps
<1> DEFINE First(n) == {list[i] : i \in 1..n}
           P(n) == /\ g[n] \in Seq(K)
                   /\ ToSet(g[n]) = First(n) \ {e}
                   /\ IsInjective(list) => IsInjective(g[n])
           T == {n \in 0..Len(list) : ~P(n)}
<1>2. SUFFICES ASSUME T # {} PROVE FALSE
  <2>1. Len(list) \notin T
    BY <1>2
  <2>2. ToSet(list) = First(Len(list))
    BY DEF ToSet
  <2>3. P(Len(list))
    <3> HIDE DEF P
    <3>1. QED
      BY <2>1
  <2>4. QED
    BY <1>1, <2>2, <2>3
<1>3. PICK m \in T : \A n \in T : m <= n
  <2>1. T \subseteq Nat
    OBVIOUS
  <2> HIDE DEF T
  <2>2. QED
    BY <1>2, <2>1, Least
<1>4. m # 0
  <2>1. g[0] = <<>>
    BY <1>1 DEF Kept
  <2>2. P(0)
    BY <2>1 DEF ToSet, IsInjective
  <2>3. QED
    BY <2>2
<1>5. m - 1 \in 0..Len(list) /\ P(m - 1)
  <2>1. m - 1 \in 0..Len(list) /\ m - 1 \notin T
    <3> HIDE DEF P
    <3>1. QED
      BY <1>3, <1>4
  <2>2. P(m - 1)
    <3> HIDE DEF P
    <3>1. QED
      BY <2>1
  <2>3. QED
    BY <2>1, <2>2
<1>6. First(m) = First(m - 1) \cup {list[m]} /\ list[m] \in K
  BY <1>4
<1>7. g[m] = IF list[m] = e THEN g[m - 1] ELSE Append(g[m - 1], list[m])
  BY <1>1, <1>4 DEF Kept
<1>8. CASE list[m] = e
  BY <1>5, <1>6, <1>7, <1>8
<1>9. CASE list[m] # e
  <2>1. IsInjective(list) => list[m] \notin First(m - 1)
    BY <1>4 DEF IsInjective
  <2>2. /\ g[m] \in Seq(K)
        /\ ToSet(g[m]) = ToSet(g[m - 1]) \cup {list[m]}
        /\ IsInjective(g[m - 1]) /\ list[m] \notin ToSet(g[m - 1]) => IsInjective(g[m])
    <3> HIDE DEF First
    <3>1. QED
      BY <1>5, <1>6, <1>7, <1>9, AppendIs
  <2>3. P(m)
    <3> HIDE DEF First
    <3>1. QED
      BY <1>5, <1>6, <1>9, <2>1, <2>2
  <2>4. QED
    BY <2>3
<1>10. QED
  BY <1>8, <1>9
-----------------------------------------------------------------------------
(* Types, for any number of threads. *)

JoinSteps == {"check_join", "push", "join_input", "join_source"}
LeaveSteps == {"check_leave", "filter", "leave_input", "leave_source", "last"}
StopSteps == {"check_stop", "each", "remove"}

\* A handler call has the lobby and the session that its event names.
FrameOK(f) ==
  /\ f \in Frame
  /\ f.at \in JoinSteps \cup LeaveSteps => f.lobby \in Lobby /\ f.session \in Session
  /\ f.at \in StopSteps => f.lobby \in Lobby
  /\ f.at \in {"over", "forget"} => f.session \in Session

FramesOK(k) == k \in Seq(Frame) /\ \A i \in DOMAIN k : FrameOK(k[i])

TypeInv ==
  /\ TypeOK
  /\ ToSet(lobbies) \subseteq 1..created
  /\ \A t \in Thread : FramesOK(stack[t])

\* The stack of a thread that is in a handler.
LEMMA TopIs ==
  ASSUME NEW k, FramesOK(k), k # <<>>
  PROVE  /\ FrameOK(Head(k)) /\ Head(k) = k[1]
         /\ FramesOK(Tail(k))
         /\ k = <<Head(k)>> \o Tail(k)
<1>1. k \in Seq(Frame) /\ 1 \in DOMAIN k
  BY DEF FramesOK
<1>2. \A i \in DOMAIN Tail(k) : i + 1 \in DOMAIN k /\ Tail(k)[i] = k[i + 1]
  BY <1>1
<1>3. FramesOK(Tail(k))
  BY <1>1, <1>2 DEF FramesOK
<1>4. QED
  BY <1>1, <1>3 DEF FramesOK

\* Calls put on a stack.
LEMMA OnTop ==
  ASSUME NEW k, FramesOK(k), NEW f, FrameOK(f)
  PROVE  FramesOK(<<f>> \o k)
<1>1. k \in Seq(Frame) /\ f \in Frame
  BY DEF FramesOK, FrameOK
<1> DEFINE new == <<f>> \o k
<1>2. new \in Seq(Frame)
  BY <1>1
<1>3. \A i \in DOMAIN new : new[i] = f \/ \E j \in DOMAIN k : new[i] = k[j]
  <2>1. ASSUME NEW i \in DOMAIN new, i # 1 PROVE new[i] = k[i - 1] /\ i - 1 \in DOMAIN k
    BY <1>1, <2>1
  <2>2. new[1] = f
    BY <1>1
  <2>3. QED
    BY <2>1, <2>2
<1> HIDE DEF new
<1>4. FramesOK(new)
  BY <1>2, <1>3 DEF FramesOK
<1>5. QED
  BY <1>4 DEF new

\* Two calls put on a stack at once.
LEMMA TwoOnTop ==
  ASSUME NEW k, FramesOK(k), NEW f, FrameOK(f), NEW g, FrameOK(g)
  PROVE  FramesOK(<<f, g>> \o k)
<1>1. k \in Seq(Frame) /\ f \in Frame /\ g \in Frame
  BY DEF FramesOK, FrameOK
<1> DEFINE new == <<f, g>> \o k
<1>2. new \in Seq(Frame)
  BY <1>1
<1>3. ASSUME NEW i \in DOMAIN new, i # 1, i # 2
      PROVE  new[i] = k[i - 2] /\ i - 2 \in DOMAIN k
  BY <1>1, <1>3
<1>4. new[1] = f /\ new[2] = g
  BY <1>1
<1> HIDE DEF new
<1>5. FramesOK(new)
  BY <1>2, <1>3, <1>4 DEF FramesOK
<1>6. QED
  BY <1>5 DEF new

\* Replacing the top of a stack.
LEMMA TopReplaced ==
  ASSUME NEW k \in Seq(Frame), k # <<>>, NEW f
  PROVE  [k EXCEPT ![1] = f] = <<f>> \o Tail(k)
<1> DEFINE a == [k EXCEPT ![1] = f]
           b == <<f>> \o Tail(k)
<1>1. k = [i \in 1..Len(k) |-> k[i]] /\ DOMAIN k = 1..Len(k)
  OBVIOUS
<1>2. a = [i \in 1..Len(k) |-> IF i = 1 THEN f ELSE k[i]]
  BY <1>1
<1>3. b \in Seq(Frame \cup {f}) /\ Len(b) = Len(k)
  OBVIOUS
<1>4. b = [i \in 1..Len(k) |-> b[i]]
  BY <1>3
<1>5. \A i \in 1..Len(k) : b[i] = IF i = 1 THEN f ELSE k[i]
  OBVIOUS
<1> HIDE DEF b
<1>6. a = b
  BY <1>2, <1>4, <1>5
<1>7. QED
  BY <1>6 DEF b

\* Going on in a handler replaces the top of the stack.
LEMMA GotoDoes ==
  ASSUME TypeInv, NEW t \in Thread, stack[t] # <<>>, NEW step, Goto(t, step)
  PROVE  stack' = [stack EXCEPT ![t] =
                     <<[Head(stack[t]) EXCEPT !.at = step]>> \o Tail(stack[t])]
<1>1. stack[t] \in Seq(Frame) /\ stack \in [Thread -> Seq(Frame)] /\ Head(stack[t]) = stack[t][1]
  BY DEF TypeInv, TypeOK
<1>2. stack' = [stack EXCEPT ![t] = [stack[t] EXCEPT ![1] = [Head(stack[t]) EXCEPT !.at = step]]]
  BY <1>1 DEF Goto
<1>3. QED
  BY <1>1, <1>2, TopReplaced

\* A thread whose stack is replaced by well-formed calls.
LEMMA StackTyped ==
  ASSUME TypeInv, NEW t \in Thread, NEW k, FramesOK(k), stack' = [stack EXCEPT ![t] = k]
  PROVE  /\ stack' \in [Thread -> Seq(Frame)]
         /\ \A u \in Thread : FramesOK(stack'[u])
BY DEF TypeInv, TypeOK, FramesOK

StackTypedNext ==
  /\ stack' \in [Thread -> Seq(Frame)]
  /\ \A u \in Thread : FramesOK(stack'[u])

\* Going on, returning and firing last keep stacks well formed.
LEMMA MovesTyped ==
  ASSUME TypeInv, NEW t \in Thread, stack[t] # <<>>
  PROVE  /\ Return(t) => StackTypedNext
         /\ \A step : Goto(t, step) /\ FrameOK([Head(stack[t]) EXCEPT !.at = step])
                        => StackTypedNext
         /\ \A f : FireLast(t, <<f>>) /\ FrameOK(f) => StackTypedNext
<1>1. FramesOK(stack[t])
  BY DEF TypeInv
<1>2. FramesOK(Tail(stack[t]))
  BY <1>1, TopIs
<1>3. Return(t) => StackTypedNext
  <2> SUFFICES ASSUME Return(t) PROVE StackTypedNext
    OBVIOUS
  <2>1. stack' = [stack EXCEPT ![t] = Tail(stack[t])]
    BY DEF Return
  <2>2. QED
    BY <1>2, <2>1, StackTyped DEF StackTypedNext
<1>4. ASSUME NEW step, Goto(t, step), FrameOK([Head(stack[t]) EXCEPT !.at = step])
      PROVE  StackTypedNext
  <2> DEFINE k == <<[Head(stack[t]) EXCEPT !.at = step]>> \o Tail(stack[t])
  <2>1. FramesOK(k)
    BY <1>2, <1>4, OnTop
  <2>2. stack' = [stack EXCEPT ![t] = k]
    BY <1>4, GotoDoes
  <2> HIDE DEF k
  <2>3. QED
    BY <2>1, <2>2, StackTyped DEF StackTypedNext
<1>5. ASSUME NEW f, FireLast(t, <<f>>), FrameOK(f)
      PROVE  StackTypedNext
  <2> DEFINE k == <<f>> \o Tail(stack[t])
  <2>1. FramesOK(k)
    BY <1>2, <1>5, OnTop
  <2>2. stack' = [stack EXCEPT ![t] = k]
    BY <1>5 DEF FireLast
  <2> HIDE DEF k
  <2>3. QED
    BY <2>1, <2>2, StackTyped DEF StackTypedNext
<1>6. QED
  BY <1>3, <1>4, <1>5

\* A step that leaves the list of lobbies and what they were created with alone.
LEMMA SameLobbies ==
  ASSUME TypeInv, StackTypedNext, UNCHANGED <<lobbies, created, settings>>,
         connected' \in [Lobby -> Seq(Session)], registered' \subseteq Session,
         input' \in [Session -> Lobby \cup {Own}], source' \in [Session -> Lobby \cup {Own}]
  PROVE  TypeInv'
BY DEF TypeInv, TypeOK, StackTypedNext

\* The steps of JoinLobbyEvent, LeaveLobbyEvent and StopLobbyEvent, and what
\* follows a disconnect, keep every variable in its type.
LEMMA HandlerTyped ==
  ASSUME TypeInv, LobbiesAssumption, NEW t \in Thread, HandlerStep(t)
  PROVE  TypeInv'
<1> DEFINE f == Head(stack[t])
<1>1. stack[t] # <<>>
  BY DEF HandlerStep, Running, CheckJoin, JoinPush, JoinInput, JoinSource, CheckLeave,
         LeaveFilter, LeaveInput, LeaveSource, LeaveLast, CheckStop, StopEach, StopRemove,
         SessionOver, ForgetSession
<1>2. FrameOK(f) /\ FramesOK(stack[t]) /\ FramesOK(Tail(stack[t])) /\ f \in Frame
  BY <1>1, TopIs DEF TypeInv, FrameOK
<1>3. TypeOK
  BY DEF TypeInv
<1>4. ASSUME NEW step \in JoinSteps \cup LeaveSteps, f.at \in JoinSteps \cup LeaveSteps
      PROVE  FrameOK([f EXCEPT !.at = step])
  BY <1>2, <1>4 DEF FrameOK, Frame, Step, JoinSteps, LeaveSteps, StopSteps
<1>5. ASSUME NEW step \in StopSteps, NEW todo \in Seq(Session), f.at \in StopSteps
      PROVE  FrameOK([f EXCEPT !.at = step]) /\ FrameOK([f EXCEPT !.at = step, !.todo = todo])
  BY <1>2, <1>5 DEF FrameOK, Frame, Step, JoinSteps, LeaveSteps, StopSteps
<1>6. ASSUME NEW step \in JoinSteps \cup LeaveSteps, Goto(t, step),
             f.at \in JoinSteps \cup LeaveSteps
      PROVE  StackTypedNext
  BY <1>1, <1>4, <1>6, MovesTyped
<1>7. Return(t) => StackTypedNext
  BY <1>1, MovesTyped
<1> HIDE DEF f
<1>8. f.at \in JoinSteps \cup LeaveSteps => f.lobby \in Lobby /\ f.session \in Session
  BY <1>2 DEF FrameOK
<1>10. CASE CheckJoin(t) \/ CheckLeave(t)
  <2>1. StackTypedNext
    BY <1>6, <1>7, <1>10 DEF CheckJoin, CheckLeave, Running, JoinSteps, LeaveSteps, f
  <2>2. QED
    BY <1>3, <1>10, <2>1, SameLobbies DEF CheckJoin, CheckLeave, TypeOK
<1>11. CASE JoinPush(t) \/ LeaveFilter(t)
  <2>1. StackTypedNext /\ f.at \in {"push", "filter"}
    BY <1>6, <1>11 DEF JoinPush, LeaveFilter, Running, JoinSteps, LeaveSteps, f
  <2>2. f.lobby \in Lobby /\ f.session \in Session /\ connected[f.lobby] \in Seq(Session)
    BY <1>3, <1>8, <2>1 DEF JoinSteps, LeaveSteps, TypeOK
  <2>3. /\ Append(connected[f.lobby], f.session) \in Seq(Session)
        /\ Without(connected[f.lobby], f.session) \in Seq(Session)
    BY <2>2, AppendIs, WithoutIs
  <2>4. connected' \in [Lobby -> Seq(Session)]
    BY <1>3, <1>11, <2>2, <2>3 DEF JoinPush, LeaveFilter, TypeOK, f
  <2>5. QED
    BY <1>3, <1>11, <2>1, <2>4, SameLobbies DEF JoinPush, LeaveFilter, TypeOK
<1>12. CASE JoinInput(t) \/ LeaveInput(t) \/ JoinSource(t) \/ LeaveSource(t)
  <2>1. StackTypedNext /\ f.at \in JoinSteps \cup LeaveSteps
    BY <1>6, <1>7, <1>12
       DEF JoinInput, LeaveInput, JoinSource, LeaveSource, Running, JoinSteps, LeaveSteps, f
  <2>2. f.lobby \in Lobby /\ f.session \in Session
    BY <1>8, <2>1
  <2>3. /\ input' \in [Session -> Lobby \cup {Own}]
        /\ source' \in [Session -> Lobby \cup {Own}]
    BY <1>3, <1>12, <2>2 DEF JoinInput, LeaveInput, JoinSource, LeaveSource, TypeOK, f
  <2>4. QED
    BY <1>3, <1>12, <2>1, <2>3, SameLobbies
       DEF JoinInput, LeaveInput, JoinSource, LeaveSource, TypeOK
<1>13. CASE LeaveLast(t)
  <2>1. f.at = "last" /\ f.lobby \in Lobby
    BY <1>8, <1>13 DEF LeaveLast, Running, LeaveSteps, f
  <2>2. FrameOK(At("check_stop", f.lobby, None))
    BY <2>1 DEF FrameOK, At, Frame, Step, JoinSteps, LeaveSteps, StopSteps
  <2>3. StackTypedNext
    BY <1>1, <1>7, <1>13, <2>2, MovesTyped DEF LeaveLast, f
  <2>4. QED
    BY <1>3, <1>13, <2>3, SameLobbies DEF LeaveLast, TypeOK
<1>14. CASE CheckStop(t)
  <2>1. f.at = "check_stop" /\ f.lobby \in Lobby /\ connected[f.lobby] \in Seq(Session)
    BY <1>2, <1>3, <1>14 DEF CheckStop, Running, FrameOK, StopSteps, TypeOK, f
  <2>2. FrameOK([f EXCEPT !.at = "each", !.todo = connected[f.lobby]])
    BY <1>5, <2>1 DEF StopSteps, f
  <2>3. CASE Return(t)
    BY <1>3, <1>7, <1>14, <2>3, SameLobbies DEF CheckStop, TypeOK
  <2>4. CASE ~Return(t)
    <3> DEFINE g == [f EXCEPT !.at = "each", !.todo = connected[f.lobby]]
    <3>1. stack[t] \in Seq(Frame) /\ stack[t][1] = f
      BY <1>1, <1>2, TopIs DEF FramesOK, f
    <3>2. stack' = [stack EXCEPT ![t] = [stack[t] EXCEPT ![1] = g]]
      BY <1>3, <1>14, <2>4, <3>1 DEF CheckStop, f, TypeOK
    <3>3. FrameOK(g)
      BY <2>2
    <3> HIDE DEF g
    <3>4. stack' = [stack EXCEPT ![t] = <<g>> \o Tail(stack[t])]
      BY <1>1, <3>1, <3>2, TopReplaced
    <3>5. FramesOK(<<g>> \o Tail(stack[t]))
      BY <1>2, <3>3, OnTop
    <3>6. StackTypedNext
      BY <3>4, <3>5, StackTyped DEF StackTypedNext
    <3>7. QED
      BY <1>3, <1>14, <3>6, SameLobbies DEF CheckStop, TypeOK
  <2>5. QED
    BY <2>3, <2>4
<1>15. CASE StopEach(t)
  <2>1. f.at = "each" /\ f.lobby \in Lobby
    BY <1>2, <1>15 DEF StopEach, Running, FrameOK, StopSteps, f
  <2>2. CASE f.todo = <<>>
    BY <1>1, <1>3, <1>5, <1>15, <2>1, <2>2, MovesTyped, SameLobbies
       DEF StopEach, TypeOK, StopSteps, f
  <2>3. CASE f.todo # <<>>
    <3>1. f.todo \in Seq(Session) /\ Head(f.todo) \in Session /\ Tail(f.todo) \in Seq(Session)
      BY <1>2, <2>3 DEF Frame
    <3> DEFINE g == At("check_leave", f.lobby, Head(f.todo))
               h == [f EXCEPT !.todo = Tail(@)]
    <3>2. FrameOK(g)
      BY <2>1, <3>1 DEF FrameOK, At, Frame, Step, JoinSteps, LeaveSteps, StopSteps
    <3>3. FrameOK(h)
      BY <1>2, <2>1, <3>1 DEF FrameOK, Frame, JoinSteps, LeaveSteps, StopSteps
    <3>4. stack' = [stack EXCEPT ![t] = <<g, h>> \o Tail(@)]
      BY <1>15, <2>3 DEF StopEach, f
    <3> HIDE DEF g, h
    <3>5. FramesOK(<<g, h>> \o Tail(stack[t]))
      BY <1>2, <3>2, <3>3, TwoOnTop
    <3>6. StackTypedNext
      BY <3>4, <3>5, StackTyped DEF StackTypedNext
    <3>7. QED
      BY <1>3, <1>15, <3>6, SameLobbies DEF StopEach, TypeOK
  <2>4. QED
    BY <2>2, <2>3
<1>16. CASE StopRemove(t)
  <2>1. /\ lobbies' \in Seq(Lobby) /\ IsInjective(lobbies')
        /\ ToSet(lobbies') \subseteq ToSet(lobbies)
    BY <1>3, <1>16, WithoutIs DEF StopRemove, TypeOK
  <2>2. StackTypedNext
    BY <1>7, <1>16 DEF StopRemove
  <2>3. QED
    BY <1>3, <1>16, <2>1, <2>2 DEF StopRemove, TypeInv, TypeOK, StackTypedNext
<1>17. CASE SessionOver(t)
  <2> DEFINE in == {l \in ToSet(lobbies) : f.session \in Members(l)}
  <2>1. f.at = "over" /\ f.session \in Session
    BY <1>2, <1>17 DEF SessionOver, Running, FrameOK, f
  <2>2. in \subseteq Lobby /\ Lobby \subseteq Nat
    BY <1>3 DEF TypeOK, ToSet, Lobby
  <2>3. in # {} => Min(in) \in Lobby
    <3> HIDE DEF in
    <3>1. QED
      BY <2>2, MinIs
  <2>4. in # {} => FrameOK(At("check_leave", Min(in), f.session))
    BY <2>1, <2>3 DEF FrameOK, At, Frame, Step, JoinSteps, LeaveSteps, StopSteps
  <2>5. StackTypedNext
    BY <1>1, <1>7, <1>17, <2>4, MovesTyped DEF SessionOver, f
  <2>6. QED
    BY <1>3, <1>17, <2>5, SameLobbies DEF SessionOver, TypeOK
<1>18. CASE ForgetSession(t)
  BY <1>3, <1>7, <1>18, SameLobbies DEF ForgetSession, TypeOK
<1>19. QED
  BY <1>10, <1>11, <1>12, <1>13, <1>14, <1>15, <1>16, <1>17, <1>18 DEF HandlerStep

\* Events from outside put well-formed calls on an empty stack.
LEMMA EventTyped ==
  ASSUME TypeInv, LobbiesAssumption, NEW t \in Thread,
         \/ \E s \in Session : PauseStream(t, s) \/ StopStream(t, s)
         \/ \E s \in Session, l \in Lobby : JoinLobby(t, l, s) \/ LeaveLobby(t, l, s)
         \/ \E l \in Lobby : StopLobby(t, l)
  PROVE  TypeInv'
<1>1. ASSUME NEW k, FramesOK(k), Fire(t, k) PROVE TypeInv'
  <2>1. StackTypedNext
    BY <1>1, StackTyped DEF Fire, StackTypedNext
  <2>2. QED
    BY <1>1, <2>1, SameLobbies DEF Fire, TypeInv, TypeOK
<1>2. ASSUME NEW s \in Session
      PROVE  /\ FrameOK(At("over", Own, s)) /\ FrameOK(At("forget", Own, s))
             /\ \A l \in Lobby : /\ FrameOK(At("check_join", l, s))
                                /\ FrameOK(At("check_leave", l, s))
  BY DEF FrameOK, At, Frame, Step, JoinSteps, LeaveSteps, StopSteps
<1>3. ASSUME NEW l \in Lobby
      PROVE  FrameOK(At("check_stop", l, None))
  BY DEF FrameOK, At, Frame, Step, JoinSteps, LeaveSteps, StopSteps
<1>4. ASSUME NEW f, FrameOK(f) PROVE FramesOK(<<f>>)
  BY <1>4 DEF FramesOK, FrameOK
<1>5. ASSUME NEW f, FrameOK(f), NEW g, FrameOK(g) PROVE FramesOK(<<f, g>>)
  BY <1>5 DEF FramesOK, FrameOK
<1> HIDE DEF At
<1>6. ASSUME NEW s \in Session, StopStream(t, s) PROVE TypeInv'
  BY <1>1, <1>2, <1>5, <1>6 DEF StopStream
<1>7. ASSUME NEW s \in Session, PauseStream(t, s) PROVE TypeInv'
  BY <1>1, <1>2, <1>4, <1>7 DEF PauseStream
<1>8. ASSUME NEW s \in Session, NEW l \in Lobby, JoinLobby(t, l, s) \/ LeaveLobby(t, l, s)
      PROVE  TypeInv'
  BY <1>1, <1>2, <1>4, <1>8 DEF JoinLobby, LeaveLobby
<1>9. ASSUME NEW l \in Lobby, StopLobby(t, l) PROVE TypeInv'
  BY <1>1, <1>3, <1>4, <1>9 DEF StopLobby
<1>10. QED
  BY <1>6, <1>7, <1>8, <1>9

\* A new lobby has an id that no lobby had.
LEMMA LobbyTyped ==
  ASSUME TypeInv, LobbiesAssumption, NEW with \in Settings, CreateLobby(with)
  PROVE  TypeInv'
<1>1. created + 1 \in Lobby /\ created + 1 \notin ToSet(lobbies) /\ lobbies \in Seq(Lobby)
  BY DEF CreateLobby, TypeInv, TypeOK, LobbiesAssumption, Lobby
<1>2. /\ lobbies' \in Seq(Lobby) /\ IsInjective(lobbies')
      /\ ToSet(lobbies') = ToSet(lobbies) \cup {created + 1}
  BY <1>1, AppendIs DEF CreateLobby, TypeInv, TypeOK
<1>3. QED
  BY <1>1, <1>2 DEF CreateLobby, TypeInv, TypeOK, LobbiesAssumption, Lobby

\* Every step of any thread keeps the types.
LEMMA StepTyped ==
  ASSUME TypeInv, LobbiesAssumption, [Next]_vars
  PROVE  TypeInv'
<1>1. ASSUME NEW s \in Session, StartSession(s) PROVE TypeInv'
  BY <1>1 DEF StartSession, TypeInv, TypeOK
<1>2. CASE UNCHANGED vars
  BY <1>2 DEF vars, TypeInv, TypeOK
<1>3. ASSUME NEW with \in Settings, CreateLobby(with) PROVE TypeInv'
  BY <1>3, LobbyTyped
<1>4. ASSUME NEW t \in Thread, HandlerStep(t) PROVE TypeInv'
  BY <1>4, HandlerTyped
<1>5. CASE \E t \in Thread, s \in Session :
             \/ PauseStream(t, s) \/ StopStream(t, s)
             \/ \E l \in Lobby : JoinLobby(t, l, s) \/ LeaveLobby(t, l, s)
  BY <1>5, EventTyped
<1>6. CASE \E t \in Thread, l \in Lobby : StopLobby(t, l)
  BY <1>6, EventTyped
<1>7. QED
  BY <1>1, <1>2, <1>3, <1>4, <1>5, <1>6 DEF Next

\* The server starts with no lobby and every thread idle.
LEMMA InitTyped ==
  ASSUME LobbiesAssumption, Init
  PROVE  TypeInv
<1>1. lobbies = <<>> /\ ToSet(lobbies) = {} /\ IsInjective(lobbies)
  BY DEF Init, ToSet, IsInjective
<1>2. FramesOK(<<>>)
  BY DEF FramesOK
<1>3. TypeOK
  BY <1>1 DEF Init, TypeOK, LobbiesAssumption, Settings
<1>4. QED
  BY <1>1, <1>2, <1>3 DEF TypeInv, Init

\* Every handler call in progress names a lobby and a session when its step needs
\* one, and only lobbies that were created are on the list.
THEOREM TypingHolds == Spec => []TypeInv
<1>1. TypeInv /\ [Next]_vars => TypeInv'
  BY StepTyped, LobbiesAssumption
<1>2. QED
  BY InitTyped, <1>1, LobbiesAssumption, PTL DEF Spec

\* Every variable stays in its type, and no lobby is on the list twice, however
\* many threads there are.
THEOREM TypeCorrect == Spec => []TypeOK
<1>1. TypeInv => TypeOK
  BY DEF TypeInv
<1>2. QED
  BY TypingHolds, <1>1, PTL
-----------------------------------------------------------------------------
(* One thread fires all the events. *)

OneThread == \A t, u \in Thread : t = u

InNone(s) == \A l \in Lobby : s \notin Members(l)
PlaysIn(s) == input[s] = source[s] /\ \A l \in Lobby : s \in Members(l) <=> source[s] = l

\* A join: the session is in no lobby until push, and then in this one.
Joining(f) ==
  /\ f.at \in JoinSteps
  /\ f.session \in registered
  /\ f.at \in {"check_join", "push"} => InNone(f.session)
  /\ f.at = "push" => Found(f.lobby) /\ ~Full(f.lobby)
  /\ f.at \in {"join_input", "join_source"} => f.session \in Members(f.lobby)
  /\ f.at = "join_source" => input[f.session] = f.lobby

Entering(f) == f.at \in {"check_leave", "filter"}

\* A leave: the session is in the lobby until filter, and then in none.
Leaving(f) ==
  /\ f.at \in LeaveSteps
  /\ f.session \in registered
  /\ IF Entering(f) THEN f.session \in Members(f.lobby) ELSE InNone(f.session)
  /\ f.at = "leave_source" => input[f.session] = Own

\* A stop: everyone who is still in the lobby is still to be sent away.
Stopping(f) ==
  /\ f.at \in StopSteps
  /\ f.at = "each" => IsInjective(f.todo) /\ ToSet(f.todo) = Members(f.lobby)
  /\ f.at = "remove" => Members(f.lobby) = {}

\* The stop of a lobby that its last member has left.
StoppingEmpty(f) == Stopping(f) /\ Members(f.lobby) = {}

Over(f) == f.at = "over" /\ f.session \in registered

\* Call f is what StopStream still does before it forgets the session of g.
ForgetAfter(f, g) ==
  /\ g.at = "forget"
  /\ \/ Over(f) /\ f.session = g.session
     \/ Leaving(f) /\ f.session = g.session
     \/ StoppingEmpty(f) /\ InNone(g.session)

\* Call f was fired by call g of a stop that sends everyone away.
SentAway(f, g) ==
  /\ g.at = "each" /\ g.lobby = f.lobby /\ IsInjective(g.todo)
  /\ \/ /\ Leaving(f)
        /\ f.session \notin ToSet(g.todo)
        /\ Members(f.lobby) = ToSet(g.todo) \cup (IF Entering(f) THEN {f.session} ELSE {})
     \/ StoppingEmpty(f) /\ g.todo = <<>>

Alone(f) ==
  \/ Joining(f) \/ Leaving(f) \/ Stopping(f) \/ Over(f)
  \/ f.at = "forget" /\ InNone(f.session)

\* The stacks that a single thread can have.
StackShape(k) ==
  \/ k = <<>>
  \/ Len(k) = 1 /\ Alone(k[1])
  \/ Len(k) = 2 /\ (ForgetAfter(k[1], k[2]) \/ SentAway(k[1], k[2]))

Shaped == \A t \in Thread : \A k \in {stack[t]} : StackShape(k)

\* The session that the current call is moving to a lobby or from it.
MovingSteps == {"join_input", "join_source", "leave_input", "leave_source"}
Moved(s) ==
  \E t \in Thread :
    stack[t] # <<>> /\ Head(stack[t]).at \in MovingSteps /\ Head(stack[t]).session = s

ListsOK ==
  /\ \A l \in Lobby : Members(l) \subseteq registered /\ IsInjective(connected[l])
  /\ \A l \in Lobby : ~Found(l) => Members(l) = {}
  /\ \A l \in Lobby : ~settings[l].multi_user => \A s1, s2 \in Members(l) : s1 = s2
  /\ \A k, l \in Lobby : k # l => Members(k) \cap Members(l) = {}

PlacesOK == \A s \in registered : Moved(s) \/ PlaysIn(s)

SerialInv == ListsOK /\ PlacesOK /\ Shaped

-----------------------------------------------------------------------------
\* Stack k of a thread that is in a handler: its current call is f, which h fired
\* if there are two.
Stack(k, f, h) ==
  /\ k \in Seq(Frame) /\ k # <<>> /\ StackShape(k)
  /\ f = k[1] /\ h = k[2] /\ f = Head(k)
  /\ FrameOK(f) /\ (Len(k) = 2 => FrameOK(h))

Replaced(k, g, n) == n = <<g>> \o Tail(k)
Returned(k, n) == n = Tail(k)

\* The stack keeps its shape with g in place of f, or without f.
ReplaceFits(k, f, h, g) ==
  /\ Len(k) = 1 => Alone(g)'
  /\ Len(k) = 2 /\ ForgetAfter(f, h) => ForgetAfter(g, h)'
  /\ Len(k) = 2 /\ SentAway(f, h) => SentAway(g, h)'

ReturnFits(k, f, h) ==
  /\ Len(k) = 2 /\ ForgetAfter(f, h) => Alone(h)'
  /\ Len(k) = 2 /\ SentAway(f, h) => Alone(h)'

\* What the current call is, by its step.
LEMMA TopShape ==
  ASSUME NEW k, NEW f, NEW h, Stack(k, f, h)
  PROVE  /\ Len(k) \in {1, 2}
         /\ f.at \in JoinSteps => Joining(f) /\ Len(k) = 1
         /\ f.at \in LeaveSteps => Leaving(f)
         /\ f.at \in StopSteps => Stopping(f)
         /\ f.at = "over" => Over(f)
         /\ f.at = "forget" => InNone(f.session) /\ Len(k) = 1
<1>1. Len(k) # 0 /\ f = k[1] /\ StackShape(k)
  BY DEF Stack
<1>2. CASE Len(k) = 1 /\ Alone(f)
  BY <1>2 DEF Alone, Joining, Leaving, Stopping, Over, JoinSteps, LeaveSteps, StopSteps
<1>3. CASE Len(k) = 2 /\ ForgetAfter(f, k[2])
  BY <1>3 DEF ForgetAfter, StoppingEmpty, Leaving, Stopping, Over, JoinSteps, LeaveSteps,
              StopSteps
<1>4. CASE Len(k) = 2 /\ SentAway(f, k[2])
  BY <1>4 DEF SentAway, StoppingEmpty, Leaving, Stopping, JoinSteps, LeaveSteps, StopSteps
<1>5. QED
  BY <1>1, <1>2, <1>3, <1>4 DEF StackShape

\* A stack whose top is replaced.
LEMMA ReplacedShape ==
  ASSUME NEW k, NEW f, NEW h, Stack(k, f, h), NEW g, NEW n, Replaced(k, g, n),
         ReplaceFits(k, f, h, g)
  PROVE  StackShape(n)'
<1>1. Len(n) = Len(k) /\ n[1] = g /\ (Len(k) = 2 => n[2] = h)
  BY DEF Stack, Replaced
<1>2. CASE Len(k) = 1
  BY <1>1, <1>2 DEF StackShape, ReplaceFits, ReturnFits
<1>3. CASE Len(k) = 2
  BY <1>1, <1>3 DEF StackShape, ReplaceFits, ReturnFits, Stack
<1>4. QED
  BY <1>2, <1>3 DEF StackShape, ReplaceFits, ReturnFits, Stack

\* A stack whose top is taken away.
LEMMA ReturnedShape ==
  ASSUME NEW k, NEW f, NEW h, Stack(k, f, h), NEW n, Returned(k, n),
         ReturnFits(k, f, h)
  PROVE  StackShape(n)'
<1>1. Len(n) = Len(k) - 1 /\ (Len(k) = 2 => n[1] = h) /\ (Len(k) = 1 => n = <<>>)
  BY DEF Stack, Returned
<1>2. QED
  BY <1>1 DEF StackShape, ReplaceFits, ReturnFits, Stack

Becomes(t, n) == stack' = [stack EXCEPT ![t] = n]

\* A thread has the shape that its new stack has.
LEMMA ShapedBy ==
  ASSUME OneThread, TypeInv, NEW t \in Thread, NEW n, Becomes(t, n),
         StackShape(n)'
  PROVE  Shaped'
<1> SUFFICES ASSUME NEW u \in Thread, NEW m, m = stack'[u] PROVE StackShape(m)'
  BY DEF Shaped
<1>1. m = n
  BY DEF OneThread, Becomes, TypeInv, TypeOK
<1>2. QED
  BY <1>1

\* Nobody but the session of the current call is on the move.
LEMMA MovedIs ==
  ASSUME OneThread, NEW t \in Thread, NEW k, k = stack[t], NEW s
  PROVE  Moved(s) <=> k # <<>> /\ Head(k).at \in MovingSteps /\ Head(k).session = s
BY DEF Moved, OneThread

\* The same after a step of the thread.
LEMMA MovedNext ==
  ASSUME OneThread, TypeInv, NEW t \in Thread, NEW n, Becomes(t, n), NEW s
  PROVE  Moved(s)' <=> n # <<>> /\ Head(n).at \in MovingSteps /\ Head(n).session = s
<1>1. stack'[t] = n
  BY DEF Becomes, TypeInv, TypeOK
<1>2. QED
  BY <1>1 DEF Moved, OneThread

\* Calls are what they were as long as the lists and the devices are.
LEMMA SameFrames ==
  ASSUME UNCHANGED <<lobbies, settings, connected, registered, input>>
  PROVE  /\ \A s : InNone(s)' <=> InNone(s)
         /\ \A f : /\ Joining(f)' <=> Joining(f)
                   /\ Leaving(f)' <=> Leaving(f)
                   /\ Stopping(f)' <=> Stopping(f)
                   /\ StoppingEmpty(f)' <=> StoppingEmpty(f)
                   /\ Over(f)' <=> Over(f)
<1>1. \A l : (Members(l)' = Members(l)) /\ (Found(l)' <=> Found(l)) /\ (Full(l)' <=> Full(l))
  BY DEF Members, Found, Full
<1>2. \A s : InNone(s)' <=> InNone(s)
  BY <1>1 DEF InNone
<1>3. \A f : Joining(f)' <=> Joining(f)
  BY <1>1, <1>2 DEF Joining
<1>4. \A f : Leaving(f)' <=> Leaving(f)
  BY <1>1, <1>2 DEF Leaving
<1>5. \A f : Stopping(f)' <=> Stopping(f)
  BY <1>1 DEF Stopping
<1>6. \A f : (StoppingEmpty(f)' <=> StoppingEmpty(f)) /\ (Over(f)' <=> Over(f))
  BY <1>1, <1>5 DEF StoppingEmpty, Over
<1>7. QED
  BY <1>2, <1>3, <1>4, <1>5, <1>6

\* A step of a thread that moves nobody at the time and changes its stack only.
LEMMA QuietStep ==
  ASSUME OneThread, SerialInv, NEW t \in Thread, NEW k, k = stack[t],
         k = <<>> \/ Head(k).at \notin MovingSteps,
         UNCHANGED <<lobbies, settings, connected, registered, input, source>>
  PROVE  ListsOK' /\ PlacesOK'
<1>1. ListsOK'
  BY DEF SerialInv, ListsOK, Members, Found
<1>2. \A s \in registered : PlaysIn(s)
  BY MovedIs DEF SerialInv, PlacesOK
<1>3. PlacesOK'
  BY <1>2 DEF PlacesOK, PlaysIn, Members
<1>4. QED
  BY <1>1, <1>3

\* The facts that every step of a handler starts from.
LEMMA Current ==
  ASSUME TypeInv, SerialInv, NEW t \in Thread, stack[t] # <<>>
  PROVE  \E k, f, h : /\ k = stack[t] /\ f = Head(stack[t]) /\ Stack(k, f, h)
                      /\ f.todo \in Seq(Session)
<1>1. PICK k, f, h : k = stack[t] /\ f = Head(stack[t]) /\ h = k[2]
  OBVIOUS
<1>2. FramesOK(k)
  BY <1>1 DEF TypeInv
<1>3. FrameOK(f) /\ k[1] = f /\ k \in Seq(Frame) /\ (Len(k) = 2 => FrameOK(h))
  BY <1>1, <1>2, TopIs DEF FramesOK
<1>4. f.todo \in Seq(Session)
  BY <1>3 DEF FrameOK, Frame
<1>5. QED
  BY <1>1, <1>3, <1>4 DEF SerialInv, Shaped, Stack

GoesOn(f, step, g) == g = [f EXCEPT !.at = step]

\* The ways on of a handler, as steps of a stack.
LEMMA ReturnStack ==
  ASSUME NEW t \in Thread, NEW k, k = stack[t], Return(t)
  PROVE  \E n : Returned(k, n) /\ Becomes(t, n)
BY DEF Return, Returned, Becomes

\* Firing an event last puts its call in place of the current one.
LEMMA FireStack ==
  ASSUME NEW t \in Thread, NEW k, k = stack[t], NEW g, FireLast(t, <<g>>)
  PROVE  \E n : Replaced(k, g, n) /\ Becomes(t, n)
BY DEF FireLast, Replaced, Becomes

\* Going on puts the same call at its next step.
LEMMA GotoStack ==
  ASSUME TypeInv, NEW t \in Thread, stack[t] # <<>>, NEW k, k = stack[t],
         NEW f, f = Head(stack[t]), NEW step, Goto(t, step)
  PROVE  \E g, n : GoesOn(f, step, g) /\ Replaced(k, g, n) /\ Becomes(t, n)
<1>1. PICK g : g = [Head(stack[t]) EXCEPT !.at = step]
  OBVIOUS
<1>2. stack' = [stack EXCEPT ![t] = <<g>> \o Tail(stack[t])]
  BY <1>1, GotoDoes
<1>3. QED
  BY <1>1, <1>2 DEF GoesOn, Replaced, Becomes

\* What going on changes of a call.
LEMMA SameCall ==
  ASSUME NEW f, FrameOK(f), NEW step, NEW g, GoesOn(f, step, g)
  PROVE  g.at = step /\ g.lobby = f.lobby /\ g.session = f.session /\ g.todo = f.todo
BY DEF FrameOK, Frame, GoesOn

\* Who is in a lobby is in a lobby of the list, and in no other.
LEMMA MemberOf ==
  ASSUME TypeInv, ListsOK, NEW s, NEW l \in Lobby, s \in Members(l)
  PROVE  Found(l) /\ s \in registered /\ \A m \in Lobby : s \in Members(m) => m = l
BY DEF ListsOK

\* A list is empty when nobody is on it.
LEMMA EmptyIs ==
  ASSUME NEW K, NEW list \in Seq(K)
  PROVE  ToSet(list) = {} <=> list = <<>>
<1>1. ASSUME list # <<>> PROVE list[1] \in ToSet(list)
  BY <1>1 DEF ToSet
<1>2. QED
  BY <1>1 DEF ToSet

\* A handler that returns to the call that fired it.
LEMMA ReturnKeeps ==
  ASSUME OneThread, TypeInv, NEW t \in Thread, NEW k, k = stack[t], NEW f, NEW h,
         Stack(k, f, h), Return(t), ReturnFits(k, f, h)
  PROVE  Shaped' /\ (Len(k) = 1 => \A s : ~Moved(s)')
<1>1. PICK n : Returned(k, n) /\ Becomes(t, n)
  BY ReturnStack
<1>2. StackShape(n)'
  BY <1>1, ReturnedShape
<1>3. Len(k) = 1 => n = <<>>
  BY <1>1 DEF Returned, Stack
<1>4. Len(k) = 1 => \A s : ~Moved(s)'
  BY <1>1, <1>3, MovedNext
<1>5. QED
  BY <1>1, <1>2, <1>4, ShapedBy

\* A handler that goes on to its next step.
LEMMA GotoKeeps ==
  ASSUME OneThread, TypeInv, NEW t \in Thread, NEW k, k = stack[t], NEW f, NEW h,
         Stack(k, f, h), NEW step, Goto(t, step),
         \A g : GoesOn(f, step, g) => ReplaceFits(k, f, h, g)
  PROVE  /\ Shaped'
         /\ \A s : Moved(s)' <=> step \in MovingSteps /\ s = f.session
<1>1. k # <<>> /\ f = Head(stack[t]) /\ FrameOK(f)
  BY DEF Stack
<1>2. PICK g, n : GoesOn(f, step, g) /\ Replaced(k, g, n) /\ Becomes(t, n)
  BY <1>1, GotoStack
<1>3. StackShape(n)'
  BY <1>2, ReplacedShape
<1>4. n # <<>> /\ Head(n) = g
  BY <1>2 DEF Replaced, Stack
<1>5. g.at = step /\ g.session = f.session
  BY <1>1, <1>2, SameCall
<1>6. \A s : Moved(s)' <=> step \in MovingSteps /\ s = f.session
  BY <1>2, <1>4, <1>5, MovedNext
<1>7. QED
  BY <1>2, <1>3, <1>6, ShapedBy

\* A handler whose last act is to fire another event.
LEMMA FireKeeps ==
  ASSUME OneThread, TypeInv, NEW t \in Thread, NEW k, k = stack[t], NEW f, NEW h,
         Stack(k, f, h), NEW g, FireLast(t, <<g>>),
         ReplaceFits(k, f, h, g)
  PROVE  Shaped'
<1>1. PICK n : Replaced(k, g, n) /\ Becomes(t, n)
  BY FireStack
<1>2. StackShape(n)'
  BY <1>1, ReplacedShape
<1>3. QED
  BY <1>1, <1>2, ShapedBy

-----------------------------------------------------------------------------
\* The steps that decide what a handler does next, and change nothing else.
LEMMA CheckJoinSerial ==
  ASSUME OneThread, TypeInv, SerialInv, NEW t \in Thread, CheckJoin(t)
  PROVE  SerialInv'
<1>1. stack[t] # <<>> /\ Head(stack[t]).at = "check_join"
  BY DEF CheckJoin, Running
<1>2. PICK k, f, h : k = stack[t] /\ f = Head(stack[t]) /\ Stack(k, f, h)
  BY <1>1, Current
<1>3. Joining(f) /\ Len(k) = 1
  BY <1>1, <1>2, TopShape DEF JoinSteps
<1>4. ListsOK' /\ PlacesOK'
  BY <1>1, <1>2, QuietStep DEF CheckJoin, MovingSteps
<1>5. CASE Return(t)
  BY <1>2, <1>3, <1>4, <1>5, ReturnKeeps DEF SerialInv, ReturnFits
<1>6. CASE Found(f.lobby) /\ f.session \in registered /\ ~Full(f.lobby) /\ Goto(t, "push")
  <2>1. ASSUME NEW g, GoesOn(f, "push", g) PROVE ReplaceFits(k, f, h, g)
    <3>1. g.at = "push" /\ g.lobby = f.lobby /\ g.session = f.session
      BY <1>2, <2>1, SameCall DEF Stack
    <3>2. Joining(g)
      BY <1>1, <1>2, <1>3, <1>6, <3>1 DEF Joining, JoinSteps
    <3>3. QED
      BY <1>3, <3>2, SameFrames DEF Alone, CheckJoin, ReplaceFits
  <2>2. QED
    BY <1>2, <1>3, <1>4, <1>6, <2>1, GotoKeeps DEF SerialInv
<1>7. QED
  BY <1>2, <1>5, <1>6 DEF CheckJoin

-----------------------------------------------------------------------------
\* What the two changes of a list of sessions do to who is on the lists.
LEMMA Pushed ==
  ASSUME TypeInv, NEW l \in Lobby, NEW s \in Session,
         connected' = [connected EXCEPT ![l] = Append(@, s)]
  PROVE  \A m \in Lobby :
           /\ Members(m)' = IF m = l THEN Members(l) \cup {s} ELSE Members(m)
           /\ IsInjective(connected[m]) /\ s \notin Members(m) => IsInjective(connected'[m])
           /\ m # l => connected'[m] = connected[m]
<1>1. connected[l] \in Seq(Session) /\ connected'[l] = Append(connected[l], s)
      /\ \A m \in Lobby \ {l} : connected'[m] = connected[m]
  BY DEF TypeInv, TypeOK
<1>2. /\ ToSet(connected'[l]) = ToSet(connected[l]) \cup {s}
      /\ IsInjective(connected[l]) /\ s \notin ToSet(connected[l]) => IsInjective(connected'[l])
  BY <1>1, AppendIs
<1>3. TAKE m \in Lobby
<1>4. CASE m = l
  BY <1>2, <1>4 DEF Members
<1>5. CASE m # l
  BY <1>1, <1>5 DEF Members
<1>6. QED
  BY <1>4, <1>5

\* filter takes the session out of one lobby and leaves the others alone.
LEMMA Filtered ==
  ASSUME TypeInv, NEW l \in Lobby, NEW s \in Session,
         connected' = [connected EXCEPT ![l] = Without(@, s)]
  PROVE  \A m \in Lobby :
           /\ Members(m)' = IF m = l THEN Members(l) \ {s} ELSE Members(m)
           /\ IsInjective(connected[m]) => IsInjective(connected'[m])
<1>1. connected[l] \in Seq(Session) /\ connected'[l] = Without(connected[l], s)
      /\ \A m \in Lobby \ {l} : connected'[m] = connected[m]
  BY DEF TypeInv, TypeOK
<1>2. /\ ToSet(connected'[l]) = ToSet(connected[l]) \ {s}
      /\ IsInjective(connected[l]) => IsInjective(connected'[l])
  BY <1>1, WithoutIs
<1>3. TAKE m \in Lobby
<1>4. CASE m = l
  BY <1>2, <1>4 DEF Members
<1>5. CASE m # l
  BY <1>1, <1>5 DEF Members
<1>6. QED
  BY <1>4, <1>5

-----------------------------------------------------------------------------
(* Joining. *)

\* push_back: the session is in this lobby and in no other, and it is on the move.
LEMMA JoinPushSerial ==
  ASSUME OneThread, TypeInv, SerialInv, NEW t \in Thread, JoinPush(t)
  PROVE  SerialInv'
<1>1. stack[t] # <<>> /\ Head(stack[t]).at = "push"
  BY DEF JoinPush, Running
<1>2. PICK k, f, h : k = stack[t] /\ f = Head(stack[t]) /\ Stack(k, f, h)
  BY <1>1, Current
<1> DEFINE l == f.lobby
           s == f.session
<1>3. Joining(f) /\ Len(k) = 1
  BY <1>1, <1>2, TopShape DEF JoinSteps
<1>4. l \in Lobby /\ s \in Session /\ s \in registered /\ InNone(s) /\ Found(l) /\ ~Full(l)
  BY <1>1, <1>2, <1>3 DEF Stack, FrameOK, Joining, JoinSteps
<1>5. ListsOK /\ PlacesOK
  BY DEF SerialInv
<1>6. \A m \in Lobby :
        /\ Members(m)' = IF m = l THEN Members(l) \cup {s} ELSE Members(m)
        /\ IsInjective(connected[m]) /\ s \notin Members(m) => IsInjective(connected'[m])
  BY <1>2, <1>4, Pushed DEF JoinPush
<1>7. ~settings[l].multi_user => Members(l) = {}
  <2>1. connected[l] \in Seq(Session)
    BY <1>4 DEF TypeInv, TypeOK
  <2>2. ~settings[l].multi_user => connected[l] = <<>>
    BY <1>4, <2>1 DEF Full
  <2>3. QED
    BY <2>1, <2>2, EmptyIs DEF Members
<1> HIDE DEF l, s
<1>8. UNCHANGED <<lobbies, settings, registered, input, source>>
  BY DEF JoinPush
<1>9. ListsOK'
  BY <1>4, <1>5, <1>6, <1>7, <1>8 DEF ListsOK, Found, InNone
<1>10. ASSUME NEW g, GoesOn(f, "join_input", g) PROVE ReplaceFits(k, f, h, g)
  <2>1. g.at = "join_input" /\ g.lobby = l /\ g.session = s
    BY <1>2, <1>10, SameCall DEF Stack, l, s
  <2>2. Joining(g)'
    BY <1>4, <1>6, <1>8, <2>1 DEF Joining, JoinSteps
  <2>3. QED
    BY <1>3, <2>2 DEF ReplaceFits, Alone
<1>11. Shaped' /\ \A u : Moved(u)' <=> u = s
  BY <1>2, <1>10, GotoKeeps DEF JoinPush, MovingSteps, s
<1>12. \A u \in registered : PlaysIn(u)
  BY <1>1, <1>2, <1>5, MovedIs DEF PlacesOK, MovingSteps
<1>13. PlacesOK'
  BY <1>6, <1>8, <1>11, <1>12 DEF PlacesOK, PlaysIn
<1>14. QED
  BY <1>9, <1>11, <1>13 DEF SerialInv

\* The two switch events of a join: input, then the source of the stream.
LEMMA JoinMoveSerial ==
  ASSUME OneThread, TypeInv, SerialInv, NEW t \in Thread, JoinInput(t) \/ JoinSource(t)
  PROVE  SerialInv'
<1>1. stack[t] # <<>> /\ Head(stack[t]).at \in {"join_input", "join_source"}
  BY DEF JoinInput, JoinSource, Running
<1>2. PICK k, f, h : k = stack[t] /\ f = Head(stack[t]) /\ Stack(k, f, h)
  BY <1>1, Current
<1> DEFINE l == f.lobby
           s == f.session
<1>3. Joining(f) /\ Len(k) = 1
  BY <1>1, <1>2, TopShape DEF JoinSteps
<1>4. l \in Lobby /\ s \in Session /\ s \in registered /\ s \in Members(l)
  BY <1>1, <1>2, <1>3 DEF Stack, FrameOK, Joining, JoinSteps
<1>5. ListsOK /\ PlacesOK /\ TypeOK
  BY DEF SerialInv, TypeInv
<1> HIDE DEF l, s
<1>6. \A u \in registered : u # s => PlaysIn(u)
  BY <1>2, <1>5, MovedIs DEF PlacesOK, s
<1>7. UNCHANGED <<lobbies, settings, connected, registered>>
  BY DEF JoinInput, JoinSource
<1>8. ListsOK'
  BY <1>5, <1>7 DEF ListsOK, Found, Members
<1>9. CASE JoinInput(t)
  <2>1. input' = [input EXCEPT ![s] = l] /\ source' = source
    BY <1>2, <1>9 DEF JoinInput, l, s
  <2>2. ASSUME NEW g, GoesOn(f, "join_source", g) PROVE ReplaceFits(k, f, h, g)
    <3>1. g.at = "join_source" /\ g.lobby = l /\ g.session = s
      BY <1>2, <2>2, SameCall DEF Stack, l, s
    <3>2. Joining(g)'
      BY <1>4, <1>5, <1>7, <2>1, <3>1 DEF Joining, JoinSteps, Members, TypeOK
    <3>3. QED
      BY <1>3, <3>2 DEF ReplaceFits, Alone
  <2>3. Shaped' /\ \A u : Moved(u)' <=> u = s
    BY <1>2, <1>9, <2>2, GotoKeeps DEF JoinInput, MovingSteps, s
  <2>4. PlacesOK'
    BY <1>5, <1>6, <1>7, <2>1, <2>3 DEF PlacesOK, PlaysIn, Members, TypeOK
  <2>5. QED
    BY <1>8, <2>3, <2>4 DEF SerialInv
<1>10. CASE JoinSource(t)
  <2>1. input' = input /\ source' = [source EXCEPT ![s] = l] /\ input[s] = l
    BY <1>2, <1>3, <1>10 DEF JoinSource, Running, Joining, l, s
  <2>2. \A m \in Lobby : s \in Members(m) <=> m = l
    BY <1>4, <1>5, MemberOf
  <2>3. Shaped'
    BY <1>2, <1>3, <1>10, ReturnKeeps DEF JoinSource, ReturnFits
  <2>4. ASSUME NEW u \in registered PROVE PlaysIn(u)'
    <3>1. u \in Session
      BY <1>5 DEF TypeOK
    <3>2. CASE u = s
      BY <1>4, <1>5, <1>7, <2>1, <2>2, <3>2 DEF PlaysIn, Members, TypeOK
    <3>3. CASE u # s
      BY <1>5, <1>6, <1>7, <2>1, <3>1, <3>3 DEF PlaysIn, Members, TypeOK
    <3>4. QED
      BY <3>2, <3>3
  <2>5. PlacesOK'
    BY <1>7, <2>4 DEF PlacesOK
  <2>6. QED
    BY <1>8, <2>3, <2>5 DEF SerialInv
<1>11. QED
  BY <1>9, <1>10

-----------------------------------------------------------------------------
(* Leaving. *)

\* A leave that goes on: the session leaves the list at filter, and only then.
LEMMA LeaveFits ==
  ASSUME NEW k, NEW f, NEW h, Stack(k, f, h), f.at \in LeaveSteps,
         NEW g, g.lobby = f.lobby, g.session = f.session, Leaving(g)',
         Entering(g) => Entering(f),
         Members(f.lobby)' = IF Entering(f) /\ ~Entering(g)
                             THEN Members(f.lobby) \ {f.session} ELSE Members(f.lobby)
  PROVE  ReplaceFits(k, f, h, g)
<1>1. f.at \notin StopSteps /\ f.at # "over"
  BY DEF LeaveSteps, StopSteps
<1>2. Alone(g)'
  BY DEF Alone
<1>3. ForgetAfter(f, h) => ForgetAfter(g, h)'
  BY <1>1 DEF ForgetAfter, Over, StoppingEmpty, Stopping
<1>4. SentAway(f, h) => SentAway(g, h)'
  <2> SUFFICES ASSUME SentAway(f, h) PROVE SentAway(g, h)'
    OBVIOUS
  <2>1. /\ h.at = "each" /\ h.lobby = f.lobby /\ IsInjective(h.todo)
        /\ f.session \notin ToSet(h.todo)
        /\ Members(f.lobby) = ToSet(h.todo) \cup (IF Entering(f) THEN {f.session} ELSE {})
    BY <1>1 DEF SentAway, StoppingEmpty, Stopping
  <2> DEFINE s == f.session
             A == Members(f.lobby)
  <2>2. Members(f.lobby)' = ToSet(h.todo) \cup (IF Entering(g) THEN {f.session} ELSE {})
    BY <2>1
  <2>3. Members(g.lobby)' = Members(f.lobby)'
    BY DEF Members
  <2>4. Entering(g)' <=> Entering(g)
    BY DEF Entering
  <2>5. QED
    BY <2>1, <2>2, <2>3, <2>4 DEF SentAway
<1>5. QED
  BY <1>2, <1>3, <1>4 DEF ReplaceFits

\* A leave that is done.
LEMMA LeaveReturns ==
  ASSUME NEW k, NEW f, NEW h, Stack(k, f, h), f.at = "last",
         UNCHANGED <<lobbies, settings, connected, registered, input>>
  PROVE  ReturnFits(k, f, h)
<1>1. f.at \notin StopSteps /\ ~Over(f) /\ ~Entering(f)
  BY DEF StopSteps, Over, Entering
<1>2. ASSUME ForgetAfter(f, h) PROVE Alone(h)'
  <2>1. h.at = "forget" /\ InNone(h.session)
    BY <1>1, <1>2 DEF ForgetAfter, Leaving, StoppingEmpty, Stopping
  <2>2. QED
    BY <2>1, SameFrames DEF Alone
<1>3. ASSUME SentAway(f, h) PROVE Alone(h)'
  <2>1. h.at = "each" /\ IsInjective(h.todo) /\ ToSet(h.todo) = Members(h.lobby)
    BY <1>1, <1>3 DEF SentAway, StoppingEmpty, Stopping
  <2>2. Stopping(h)
    BY <2>1 DEF Stopping, StopSteps
  <2>3. QED
    BY <2>2, SameFrames DEF Alone
<1>4. QED
  BY <1>2, <1>3 DEF ReturnFits

\* A leave finds the lobby on the list and the session registered.
LEMMA CheckLeaveSerial ==
  ASSUME OneThread, TypeInv, SerialInv, NEW t \in Thread, CheckLeave(t)
  PROVE  SerialInv'
<1>1. stack[t] # <<>> /\ Head(stack[t]).at = "check_leave"
  BY DEF CheckLeave, Running
<1>2. PICK k, f, h : k = stack[t] /\ f = Head(stack[t]) /\ Stack(k, f, h)
  BY <1>1, Current
<1>3. Leaving(f) /\ Entering(f) /\ f.at \in LeaveSteps
  BY <1>1, <1>2, TopShape DEF LeaveSteps, Entering
<1>4. f.lobby \in Lobby /\ f.session \in Members(f.lobby) /\ f.session \in registered
  BY <1>2, <1>3 DEF Stack, FrameOK, Leaving
<1>5. ListsOK' /\ PlacesOK'
  BY <1>1, <1>2, QuietStep DEF CheckLeave, MovingSteps
<1>6. Goto(t, "filter")
  BY <1>2, <1>4, MemberOf DEF CheckLeave, SerialInv
<1>7. ASSUME NEW g, GoesOn(f, "filter", g) PROVE ReplaceFits(k, f, h, g)
  <2>1. g.at = "filter" /\ g.lobby = f.lobby /\ g.session = f.session
    BY <1>2, <1>7, SameCall DEF Stack
  <2>2. Leaving(g) /\ Entering(g)
    BY <1>3, <1>4, <2>1 DEF Leaving, LeaveSteps, Entering
  <2>3. Leaving(g)'
    BY <2>2, SameFrames DEF CheckLeave
  <2>4. Members(f.lobby)' = Members(f.lobby)
    BY DEF CheckLeave, Members
  <2>5. QED
    BY <1>2, <1>3, <2>1, <2>2, <2>3, <2>4, LeaveFits
<1>8. QED
  BY <1>2, <1>5, <1>6, <1>7, GotoKeeps DEF SerialInv

\* filter: the session is in no lobby, and it is on the move.
LEMMA LeaveFilterSerial ==
  ASSUME OneThread, TypeInv, SerialInv, NEW t \in Thread, LeaveFilter(t)
  PROVE  SerialInv'
<1>1. stack[t] # <<>> /\ Head(stack[t]).at = "filter"
  BY DEF LeaveFilter, Running
<1>2. PICK k, f, h : k = stack[t] /\ f = Head(stack[t]) /\ Stack(k, f, h)
  BY <1>1, Current
<1> DEFINE l == f.lobby
           s == f.session
<1>3. Leaving(f) /\ Entering(f) /\ f.at \in LeaveSteps
  BY <1>1, <1>2, TopShape DEF LeaveSteps, Entering
<1>4. l \in Lobby /\ s \in Session /\ s \in Members(l) /\ s \in registered
  BY <1>2, <1>3 DEF Stack, FrameOK, Leaving
<1>5. ListsOK /\ PlacesOK
  BY DEF SerialInv
<1>6. \A m \in Lobby : /\ Members(m)' = IF m = l THEN Members(l) \ {s} ELSE Members(m)
                       /\ IsInjective(connected[m]) => IsInjective(connected'[m])
  BY <1>2, <1>4, Filtered DEF LeaveFilter
<1>7. \A m \in Lobby : s \in Members(m) => m = l
  BY <1>4, <1>5, MemberOf
<1> HIDE DEF l, s
<1>8. UNCHANGED <<lobbies, settings, registered, input, source>>
  BY DEF LeaveFilter
<1>9. ListsOK'
  BY <1>5, <1>6, <1>8 DEF ListsOK, Found
<1>10. InNone(s)'
  BY <1>4, <1>6, <1>7 DEF InNone
<1>11. ASSUME NEW g, GoesOn(f, "leave_input", g) PROVE ReplaceFits(k, f, h, g)
  <2>1. g.at = "leave_input" /\ g.lobby = f.lobby /\ g.session = f.session
    BY <1>2, <1>11, SameCall DEF Stack
  <2>2. Leaving(g)' /\ ~Entering(g)
    BY <1>4, <1>8, <1>10, <2>1 DEF Leaving, LeaveSteps, Entering, InNone, s
  <2>3. Members(f.lobby)' = Members(f.lobby) \ {f.session}
    BY <1>4, <1>6 DEF l, s
  <2>4. QED
    BY <1>2, <1>3, <2>1, <2>2, <2>3, LeaveFits
<1>12. Shaped' /\ \A u : Moved(u)' <=> u = s
  BY <1>2, <1>11, GotoKeeps DEF LeaveFilter, MovingSteps, s
<1>13. \A u \in registered : PlaysIn(u)
  BY <1>1, <1>2, <1>5, MovedIs DEF PlacesOK, MovingSteps
<1>14. PlacesOK'
  BY <1>6, <1>8, <1>12, <1>13 DEF PlacesOK, PlaysIn
<1>15. QED
  BY <1>9, <1>12, <1>14 DEF SerialInv

\* The two switch events of a leave.
LEMMA LeaveMoveSerial ==
  ASSUME OneThread, TypeInv, SerialInv, NEW t \in Thread, LeaveInput(t) \/ LeaveSource(t)
  PROVE  SerialInv'
<1>1. stack[t] # <<>> /\ Head(stack[t]).at \in {"leave_input", "leave_source"}
  BY DEF LeaveInput, LeaveSource, Running
<1>2. PICK k, f, h : k = stack[t] /\ f = Head(stack[t]) /\ Stack(k, f, h)
  BY <1>1, Current
<1> DEFINE s == f.session
<1>3. Leaving(f) /\ ~Entering(f) /\ f.at \in LeaveSteps
  BY <1>1, <1>2, TopShape DEF LeaveSteps, Entering
<1>4. s \in Session /\ s \in registered /\ InNone(s)
  BY <1>2, <1>3 DEF Stack, FrameOK, Leaving
<1>5. ListsOK /\ PlacesOK /\ TypeOK
  BY DEF SerialInv, TypeInv
<1> HIDE DEF s
<1>6. \A u \in registered : u # s => PlaysIn(u)
  BY <1>2, <1>5, MovedIs DEF PlacesOK, s
<1>7. UNCHANGED <<lobbies, settings, connected, registered>>
  BY DEF LeaveInput, LeaveSource
<1>8. ListsOK' /\ (InNone(s)' <=> InNone(s)) /\ \A m : Members(m)' = Members(m)
  BY <1>5, <1>7 DEF ListsOK, Found, Members, InNone
<1>9. CASE LeaveInput(t)
  <2>1. input' = [input EXCEPT ![s] = Own] /\ source' = source
    BY <1>2, <1>9 DEF LeaveInput, s
  <2>2. ASSUME NEW g, GoesOn(f, "leave_source", g) PROVE ReplaceFits(k, f, h, g)
    <3>1. g.at = "leave_source" /\ g.lobby = f.lobby /\ g.session = s
      BY <1>2, <2>2, SameCall DEF Stack, s
    <3>2. input'[s] = Own
      BY <1>4, <1>5, <2>1 DEF TypeOK
    <3>3. Leaving(g)' /\ ~Entering(g)
      BY <1>4, <1>7, <1>8, <3>1, <3>2 DEF Leaving, LeaveSteps, Entering, InNone
    <3>4. QED
      BY <1>2, <1>3, <1>8, <3>1, <3>3, LeaveFits DEF s
  <2>3. Shaped' /\ \A u : Moved(u)' <=> u = s
    BY <1>2, <1>9, <2>2, GotoKeeps DEF LeaveInput, MovingSteps, s
  <2>4. PlacesOK'
    BY <1>5, <1>6, <1>7, <1>8, <2>1, <2>3 DEF PlacesOK, PlaysIn, TypeOK
  <2>5. QED
    BY <1>8, <2>3, <2>4 DEF SerialInv
<1>10. CASE LeaveSource(t)
  <2>1. input' = input /\ source' = [source EXCEPT ![s] = Own] /\ input[s] = Own
    BY <1>2, <1>3, <1>10 DEF LeaveSource, Running, Leaving, s
  <2>2. ASSUME NEW g, GoesOn(f, "last", g) PROVE ReplaceFits(k, f, h, g)
    <3>1. g.at = "last" /\ g.lobby = f.lobby /\ g.session = s
      BY <1>2, <2>2, SameCall DEF Stack, s
    <3>2. Leaving(g)' /\ ~Entering(g)
      BY <1>4, <1>7, <1>8, <3>1 DEF Leaving, LeaveSteps, Entering, InNone
    <3>3. QED
      BY <1>2, <1>3, <1>8, <3>1, <3>2, LeaveFits DEF s
  <2>3. Shaped'
    BY <1>2, <1>10, <2>2, GotoKeeps DEF LeaveSource
  <2>4. ASSUME NEW u \in registered PROVE PlaysIn(u)'
    <3>1. u \in Session
      BY <1>5 DEF TypeOK
    <3>2. CASE u = s
      BY <1>4, <1>5, <1>8, <2>1, <3>2 DEF PlaysIn, InNone, TypeOK, Lobby, Own
    <3>3. CASE u # s
      BY <1>5, <1>6, <1>8, <2>1, <3>1, <3>3 DEF PlaysIn, TypeOK
    <3>4. QED
      BY <3>2, <3>3
  <2>5. PlacesOK'
    BY <1>7, <2>4 DEF PlacesOK
  <2>6. QED
    BY <1>8, <2>3, <2>5 DEF SerialInv
<1>11. QED
  BY <1>9, <1>10

\* A leave that is done returns, or stops the lobby that is now empty.
LEMMA LeaveLastSerial ==
  ASSUME OneThread, TypeInv, SerialInv, NEW t \in Thread, LeaveLast(t)
  PROVE  SerialInv'
<1>1. stack[t] # <<>> /\ Head(stack[t]).at = "last"
  BY DEF LeaveLast, Running
<1>2. PICK k, f, h : k = stack[t] /\ f = Head(stack[t]) /\ Stack(k, f, h)
  BY <1>1, Current
<1>3. Leaving(f) /\ ~Entering(f) /\ f.at \in LeaveSteps
  BY <1>1, <1>2, TopShape DEF LeaveSteps, Entering
<1>4. ListsOK' /\ PlacesOK'
  BY <1>1, <1>2, QuietStep DEF LeaveLast, MovingSteps
<1>5. UNCHANGED <<lobbies, settings, connected, registered, input>>
  BY DEF LeaveLast
<1>6. CASE Return(t)
  <2>1. ReturnFits(k, f, h)
    BY <1>1, <1>2, <1>5, LeaveReturns
  <2>2. QED
    BY <1>2, <1>4, <1>6, <2>1, ReturnKeeps DEF SerialInv
<1>7. CASE connected[f.lobby] = <<>> /\ FireLast(t, <<At("check_stop", f.lobby, None)>>)
  <2>1. PICK g : g = At("check_stop", f.lobby, None)
    OBVIOUS
  <2>2. g.at = "check_stop" /\ g.lobby = f.lobby
    BY <2>1 DEF At
  <2>3. Members(f.lobby) = {}
    BY <1>7 DEF Members, ToSet
  <2>4. StoppingEmpty(g)
    BY <2>2, <2>3 DEF StoppingEmpty, Stopping, StopSteps
  <2>5. Alone(g)' /\ StoppingEmpty(g)'
    BY <1>5, <2>4, SameFrames DEF Alone, StoppingEmpty
  <2>6. f.at \notin StopSteps /\ ~Over(f)
    BY <1>1, <1>2 DEF StopSteps, Over
  <2>7. ForgetAfter(f, h) => ForgetAfter(g, h)'
    <3>1. ForgetAfter(f, h) => h.at = "forget" /\ InNone(h.session)
      BY <1>3, <2>6 DEF ForgetAfter, Leaving, StoppingEmpty, Stopping
    <3>2. InNone(h.session)' <=> InNone(h.session)
      BY <1>5, SameFrames
    <3>3. QED
      BY <2>5, <3>1, <3>2 DEF ForgetAfter
  <2>8. Len(k) = 2 /\ SentAway(f, h) => SentAway(g, h)'
    <3> SUFFICES ASSUME Len(k) = 2, SentAway(f, h) PROVE SentAway(g, h)'
      OBVIOUS
    <3>1. /\ h.at = "each" /\ h.lobby = f.lobby /\ IsInjective(h.todo)
          /\ ToSet(h.todo) = Members(f.lobby)
      BY <1>3, <2>6 DEF SentAway, StoppingEmpty, Stopping
    <3>2. h.todo \in Seq(Session)
      BY <1>2 DEF Stack, FrameOK, Frame
    <3>3. h.todo = <<>>
      BY <2>3, <3>1, <3>2, EmptyIs
    <3>4. QED
      BY <2>2, <2>5, <3>1, <3>3 DEF SentAway
  <2>9. ReplaceFits(k, f, h, g)
    BY <2>5, <2>7, <2>8 DEF ReplaceFits
  <2>10. QED
    BY <1>2, <1>4, <1>7, <2>1, <2>9, FireKeeps DEF SerialInv
<1>8. QED
  BY <1>2, <1>6, <1>7 DEF LeaveLast

\* The first entry of a list that has no entry twice, and the others.
LEMMA HeadAndTail ==
  ASSUME NEW K, NEW list \in Seq(K), list # <<>>, IsInjective(list)
  PROVE  /\ Head(list) \in ToSet(list) /\ Head(list) \notin ToSet(Tail(list))
         /\ ToSet(list) = ToSet(Tail(list)) \cup {Head(list)}
         /\ IsInjective(Tail(list))
<1> DEFINE rest == Tail(list)
<1>1. /\ Len(rest) = Len(list) - 1 /\ rest \in Seq(K)
      /\ \A i \in 1..Len(rest) : rest[i] = list[i + 1] /\ i + 1 \in 1..Len(list)
      /\ 1 \in 1..Len(list) /\ Head(list) = list[1]
  OBVIOUS
<1> HIDE DEF rest
<1>2. \A i \in 1..Len(list) : i = 1 \/ (i - 1 \in 1..Len(rest) /\ rest[i - 1] = list[i])
  BY <1>1
<1>3. ToSet(list) = {list[i] : i \in 1..Len(list)} /\ ToSet(rest) = {rest[i] : i \in 1..Len(rest)}
  BY <1>1 DEF ToSet
<1>4. \A i, j \in 1..Len(list) : list[i] = list[j] => i = j
  BY DEF IsInjective
<1>5. ASSUME Head(list) \in ToSet(rest) PROVE FALSE
  <2>1. PICK i \in 1..Len(rest) : rest[i] = list[1]
    BY <1>1, <1>3, <1>5
  <2>2. QED
    BY <1>1, <1>4, <2>1
<1>6. ToSet(list) = ToSet(rest) \cup {Head(list)}
  BY <1>1, <1>2, <1>3
<1>7. IsInjective(rest)
  <2>1. ASSUME NEW i \in 1..Len(rest), NEW j \in 1..Len(rest), rest[i] = rest[j]
        PROVE  i = j
    BY <1>1, <1>4, <2>1
  <2>2. QED
    BY <1>1, <2>1 DEF IsInjective
<1>8. QED
  BY <1>1, <1>3, <1>5, <1>6, <1>7 DEF rest

-----------------------------------------------------------------------------
(* Stopping, and what follows a disconnect. *)

\* A stop that goes on.
LEMMA StopFits ==
  ASSUME NEW k, NEW f, NEW h, Stack(k, f, h), f.at \in StopSteps,
         NEW g, g.lobby = f.lobby, Stopping(g)', UNCHANGED connected
  PROVE  ReplaceFits(k, f, h, g)
<1>1. f.at \notin LeaveSteps /\ f.at # "over"
  BY DEF LeaveSteps, StopSteps
<1>2. \A m : Members(m)' = Members(m)
  BY DEF Members
<1>3. \A s : InNone(s)' <=> InNone(s)
  BY <1>2 DEF InNone
<1>4. StoppingEmpty(f) => StoppingEmpty(g)'
  BY <1>2 DEF StoppingEmpty
<1>5. ForgetAfter(f, h) => ForgetAfter(g, h)'
  BY <1>1, <1>3, <1>4 DEF ForgetAfter, Over, Leaving
<1>6. SentAway(f, h) => SentAway(g, h)'
  BY <1>1, <1>4 DEF SentAway, Leaving
<1>7. QED
  BY <1>5, <1>6 DEF ReplaceFits, Alone

\* A stop that is done, or finds no lobby.
LEMMA StopReturns ==
  ASSUME NEW k, NEW f, NEW h, Stack(k, f, h), f.at \in StopSteps, UNCHANGED connected
  PROVE  ReturnFits(k, f, h)
<1>1. f.at \notin LeaveSteps /\ ~Over(f)
  BY DEF LeaveSteps, StopSteps, Over
<1>2. \A m : Members(m)' = Members(m)
  BY DEF Members
<1>3. ASSUME ForgetAfter(f, h) PROVE Alone(h)'
  <2>1. h.at = "forget" /\ InNone(h.session)
    BY <1>1, <1>3 DEF ForgetAfter, Leaving
  <2>2. QED
    BY <1>2, <2>1 DEF Alone, InNone
<1>4. ASSUME SentAway(f, h) PROVE Alone(h)'
  <2>1. /\ h.at = "each" /\ h.todo = <<>> /\ IsInjective(h.todo)
        /\ Members(h.lobby) = {}
    BY <1>1, <1>4 DEF SentAway, Leaving, StoppingEmpty
  <2>2. ToSet(h.todo) = {}
    BY <2>1 DEF ToSet
  <2>3. Stopping(h)'
    BY <1>2, <2>1, <2>2 DEF Stopping, StopSteps
  <2>4. QED
    BY <2>3 DEF Alone
<1>5. QED
  BY <1>3, <1>4 DEF ReturnFits

\* A stop reads who is connected.
LEMMA CheckStopSerial ==
  ASSUME OneThread, TypeInv, SerialInv, NEW t \in Thread, CheckStop(t)
  PROVE  SerialInv'
<1>1. stack[t] # <<>> /\ Head(stack[t]).at = "check_stop"
  BY DEF CheckStop, Running
<1>2. PICK k, f, h : k = stack[t] /\ f = Head(stack[t]) /\ Stack(k, f, h)
  BY <1>1, Current
<1>3. f.at \in StopSteps /\ f.lobby \in Lobby
  BY <1>1, <1>2 DEF StopSteps, Stack, FrameOK
<1>4. ListsOK' /\ PlacesOK'
  BY <1>1, <1>2, QuietStep DEF CheckStop, MovingSteps
<1>5. UNCHANGED connected
  BY DEF CheckStop
<1>6. CASE Return(t)
  BY <1>2, <1>3, <1>4, <1>5, <1>6, StopReturns, ReturnKeeps DEF SerialInv
<1>7. CASE ~Return(t)
  <2>1. PICK g : g = [f EXCEPT !.at = "each", !.todo = connected[f.lobby]]
    OBVIOUS
  <2>2. g.at = "each" /\ g.lobby = f.lobby /\ g.todo = connected[f.lobby]
    BY <1>2, <2>1 DEF Stack, FrameOK, Frame
  <2>3. /\ stack' = [stack EXCEPT ![t] = [stack[t] EXCEPT ![1] = g]]
        /\ stack[t] \in Seq(Frame)
    <3>1. stack[t] \in Seq(Frame) /\ stack[t][1] = f /\ stack \in [Thread -> Seq(Frame)]
      BY <1>2 DEF Stack, TypeInv, TypeOK
    <3>2. QED
      BY <1>2, <1>7, <2>1, <3>1 DEF CheckStop
  <2>4. PICK n : n = <<g>> \o Tail(k)
    OBVIOUS
  <2>5. Replaced(k, g, n) /\ Becomes(t, n)
    BY <1>1, <1>2, <2>3, <2>4, TopReplaced DEF Replaced, Becomes
  <2>6. Stopping(g)'
    <3>1. IsInjective(connected[f.lobby])
      BY <1>3 DEF SerialInv, ListsOK
    <3>2. QED
      BY <1>5, <2>2, <3>1 DEF Stopping, StopSteps, Members
  <2>7. ReplaceFits(k, f, h, g)
    BY <1>2, <1>3, <1>5, <2>2, <2>6, StopFits
  <2>8. StackShape(n)'
    BY <1>2, <2>5, <2>7, ReplacedShape
  <2>9. QED
    BY <1>4, <2>5, <2>8, ShapedBy DEF SerialInv
<1>8. QED
  BY <1>6, <1>7

\* A stop sends away the next of those it read, or goes on to remove the lobby.
LEMMA StopEachSerial ==
  ASSUME OneThread, TypeInv, SerialInv, NEW t \in Thread, StopEach(t)
  PROVE  SerialInv'
<1>1. stack[t] # <<>> /\ Head(stack[t]).at = "each"
  BY DEF StopEach, Running
<1>2. PICK k, f, h : /\ k = stack[t] /\ f = Head(stack[t]) /\ Stack(k, f, h)
                     /\ f.todo \in Seq(Session)
  BY <1>1, Current
<1>3. f.at \in StopSteps /\ f.lobby \in Lobby
  BY <1>1, <1>2 DEF StopSteps, Stack, FrameOK
<1>4. Stopping(f) /\ IsInjective(f.todo) /\ ToSet(f.todo) = Members(f.lobby)
  BY <1>1, <1>2, <1>3, TopShape DEF Stopping
<1>5. ListsOK' /\ PlacesOK'
  BY <1>1, <1>2, QuietStep DEF StopEach, MovingSteps
<1>6. UNCHANGED <<lobbies, settings, connected, registered, input>>
  BY DEF StopEach
<1>7. CASE f.todo = <<>>
  <2>1. Members(f.lobby) = {}
    BY <1>4, <1>7 DEF ToSet
  <2>2. ASSUME NEW g, GoesOn(f, "remove", g) PROVE ReplaceFits(k, f, h, g)
    <3>1. g.at = "remove" /\ g.lobby = f.lobby
      BY <1>2, <2>2, SameCall DEF Stack
    <3>2. Stopping(g)
      BY <2>1, <3>1 DEF Stopping, StopSteps
    <3>3. Stopping(g)'
      BY <1>6, <3>2, SameFrames
    <3>4. QED
      BY <1>2, <1>3, <1>6, <3>1, <3>3, StopFits
  <2>3. Goto(t, "remove")
    BY <1>2, <1>7 DEF StopEach
  <2>4. QED
    BY <1>2, <1>5, <2>2, <2>3, GotoKeeps DEF SerialInv
<1>8. CASE f.todo # <<>>
  <2>1. PICK g, j : g = At("check_leave", f.lobby, Head(f.todo))
                    /\ j = [f EXCEPT !.todo = Tail(f.todo)]
    OBVIOUS
  <2>2. /\ g.at = "check_leave" /\ g.lobby = f.lobby /\ g.session = Head(f.todo)
        /\ j.at = "each" /\ j.lobby = f.lobby /\ j.todo = Tail(f.todo)
    BY <1>1, <1>2, <2>1 DEF At, Stack, FrameOK, Frame
  <2>3. /\ Head(f.todo) \in ToSet(f.todo) /\ Head(f.todo) \notin ToSet(Tail(f.todo))
        /\ ToSet(f.todo) = ToSet(Tail(f.todo)) \cup {Head(f.todo)}
        /\ IsInjective(Tail(f.todo))
    BY <1>2, <1>4, <1>8, HeadAndTail
  <2>4. Len(k) = 1
    <3>1. ~StoppingEmpty(f) /\ ~Over(f) /\ ~Leaving(f)
      BY <1>1, <1>2, <1>4, <2>3 DEF StoppingEmpty, Over, Leaving, LeaveSteps
    <3>2. QED
      BY <1>2, <3>1 DEF Stack, StackShape, ForgetAfter, SentAway
  <2>5. stack' = [stack EXCEPT ![t] = <<g, j>> \o Tail(stack[t])]
    BY <1>2, <1>8, <2>1 DEF StopEach
  <2>6. PICK n : n = <<g, j>>
    OBVIOUS
  <2>7. Becomes(t, n)
    <3>1. Tail(stack[t]) = <<>>
      BY <1>2, <2>4 DEF Stack
    <3>2. <<g, j>> \o <<>> = <<g, j>>
      OBVIOUS
    <3>3. QED
      BY <2>5, <2>6, <3>1, <3>2 DEF Becomes
  <2>8. Leaving(g) /\ Entering(g)
    <3>1. Members(f.lobby) \subseteq registered
      BY <1>3 DEF SerialInv, ListsOK
    <3>2. ToSet(f.todo) = Members(f.lobby)
      BY <1>4
    <3>3. Head(f.todo) \in Members(f.lobby) /\ Head(f.todo) \in registered
      BY <2>3, <3>1, <3>2
    <3>4. g.session \in Members(g.lobby) /\ g.session \in registered
      BY <2>2, <3>3
    <3>5. QED
      BY <2>2, <3>4 DEF Leaving, LeaveSteps, Entering
  <2>9. SentAway(g, j)
    BY <1>4, <2>2, <2>3, <2>8 DEF SentAway
  <2>10. SentAway(g, j)'
    <3>1. Leaving(g)' /\ Members(g.lobby)' = Members(g.lobby)
      BY <1>6, <2>8, SameFrames DEF Members
    <3>2. QED
      BY <1>4, <2>2, <2>3, <2>8, <3>1 DEF SentAway, Entering
  <2>11. StackShape(n)'
    BY <2>6, <2>10 DEF StackShape
  <2>12. QED
    BY <1>5, <2>7, <2>11, ShapedBy DEF SerialInv
<1>9. QED
  BY <1>7, <1>8

\* A stop takes the lobby off the list when nobody is in it any more.
LEMMA StopRemoveSerial ==
  ASSUME OneThread, TypeInv, SerialInv, NEW t \in Thread, StopRemove(t)
  PROVE  SerialInv'
<1>1. stack[t] # <<>> /\ Head(stack[t]).at = "remove"
  BY DEF StopRemove, Running
<1>2. PICK k, f, h : k = stack[t] /\ f = Head(stack[t]) /\ Stack(k, f, h)
  BY <1>1, Current
<1>3. f.at \in StopSteps /\ f.lobby \in Lobby
  BY <1>1, <1>2 DEF StopSteps, Stack, FrameOK
<1>4. Members(f.lobby) = {}
  BY <1>1, <1>2, <1>3, TopShape DEF Stopping
<1>5. UNCHANGED <<settings, connected, registered, input, source>>
  BY DEF StopRemove
<1>6. ToSet(lobbies') = ToSet(lobbies) \ {f.lobby}
  BY <1>2, WithoutIs DEF StopRemove, TypeInv, TypeOK
<1>7. ListsOK'
  BY <1>4, <1>5, <1>6 DEF SerialInv, ListsOK, Found, Members
<1>8. PlacesOK'
  <2>1. \A u \in registered : PlaysIn(u)
    BY <1>1, <1>2, MovedIs DEF SerialInv, PlacesOK, MovingSteps
  <2>2. QED
    BY <1>5, <2>1 DEF PlacesOK, PlaysIn, Members
<1>9. ReturnFits(k, f, h)
  BY <1>2, <1>3, <1>5, StopReturns
<1>10. Shaped'
  BY <1>2, <1>9, ReturnKeeps DEF StopRemove
<1>11. QED
  BY <1>7, <1>8, <1>10 DEF SerialInv

\* A pause or stop of a session makes it leave the lobby that it is in.
LEMMA SessionOverSerial ==
  ASSUME OneThread, TypeInv, SerialInv, NEW t \in Thread, SessionOver(t)
  PROVE  SerialInv'
<1>1. stack[t] # <<>> /\ Head(stack[t]).at = "over"
  BY DEF SessionOver, Running
<1>2. PICK k, f, h : k = stack[t] /\ f = Head(stack[t]) /\ Stack(k, f, h)
  BY <1>1, Current
<1>3. Over(f) /\ f.session \in registered /\ f.at \notin LeaveSteps \cup StopSteps
  BY <1>1, <1>2, TopShape DEF Over, LeaveSteps, StopSteps
<1>4. ListsOK' /\ PlacesOK'
  BY <1>1, <1>2, QuietStep DEF SessionOver, MovingSteps
<1>5. UNCHANGED <<lobbies, settings, connected, registered, input>>
  BY DEF SessionOver
<1> DEFINE in == {l \in ToSet(lobbies) : f.session \in Members(l)}
<1>6. ~SentAway(f, h)
  BY <1>3 DEF SentAway, Leaving, StoppingEmpty, Stopping
<1>7. ForgetAfter(f, h) => h.at = "forget" /\ h.session = f.session
  BY <1>3 DEF ForgetAfter, Leaving, StoppingEmpty, Stopping
<1>8. CASE in = {} /\ Return(t)
  <2>1. InNone(f.session)
    BY <1>8 DEF InNone, SerialInv, ListsOK, Found
  <2>2. InNone(f.session)'
    BY <1>5, <2>1, SameFrames
  <2>3. ReturnFits(k, f, h)
    BY <1>6, <1>7, <2>2 DEF ReturnFits, Alone
  <2>4. QED
    BY <1>2, <1>4, <1>8, <2>3, ReturnKeeps DEF SerialInv
<1>9. CASE in # {} /\ FireLast(t, <<At("check_leave", Min(in), f.session)>>)
  <2>1. Min(in) \in in
    <3>1. in \subseteq Nat
      <4>1. lobbies \in Seq(Lobby) /\ Lobby \subseteq Nat
        BY DEF TypeInv, TypeOK, Lobby
      <4>2. ToSet(lobbies) \subseteq Lobby
        BY <4>1 DEF ToSet
      <4>3. QED
        BY <4>1, <4>2
    <3> HIDE DEF in
    <3>2. QED
      BY <1>9, <3>1, MinIs
  <2>2. PICK g : g = At("check_leave", Min(in), f.session)
    OBVIOUS
  <2>3. g.at = "check_leave" /\ g.session = f.session /\ f.session \in Members(g.lobby)
    BY <2>1, <2>2 DEF At
  <2>4. Leaving(g)
    BY <1>3, <2>3 DEF Leaving, LeaveSteps, Entering
  <2>5. Leaving(g)'
    BY <1>5, <2>4, SameFrames
  <2>6. ReplaceFits(k, f, h, g)
    BY <1>6, <1>7, <2>3, <2>5 DEF ReplaceFits, Alone, ForgetAfter
  <2> HIDE DEF in
  <2>7. QED
    BY <1>2, <1>4, <1>9, <2>2, <2>6, FireKeeps DEF SerialInv
<1>10. QED
  BY <1>2, <1>8, <1>9 DEF SessionOver

\* A stop forgets a session that is in no lobby.
LEMMA ForgetSerial ==
  ASSUME OneThread, TypeInv, SerialInv, NEW t \in Thread, ForgetSession(t)
  PROVE  SerialInv'
<1>1. stack[t] # <<>> /\ Head(stack[t]).at = "forget"
  BY DEF ForgetSession, Running
<1>2. PICK k, f, h : k = stack[t] /\ f = Head(stack[t]) /\ Stack(k, f, h)
  BY <1>1, Current
<1>3. InNone(f.session) /\ Len(k) = 1
  BY <1>1, <1>2, TopShape
<1>4. /\ registered' = registered \ {f.session}
      /\ UNCHANGED <<lobbies, settings, connected, input, source>>
  BY <1>2 DEF ForgetSession
<1>5. ListsOK'
  BY <1>3, <1>4 DEF SerialInv, ListsOK, Found, Members, InNone
<1>6. PlacesOK'
  <2>1. \A u \in registered : PlaysIn(u)
    BY <1>1, <1>2, MovedIs DEF SerialInv, PlacesOK, MovingSteps
  <2>2. QED
    BY <1>4, <2>1 DEF PlacesOK, PlaysIn, Members
<1>7. Shaped'
  BY <1>2, <1>3, ReturnKeeps DEF ForgetSession, ReturnFits
<1>8. QED
  BY <1>5, <1>6, <1>7 DEF SerialInv

-----------------------------------------------------------------------------
(* Events from outside. *)

\* An event finds the thread idle, and nobody on the move.
LEMMA FireSerial ==
  ASSUME OneThread, TypeInv, SerialInv, NEW t \in Thread, NEW n, Fire(t, n), StackShape(n)'
  PROVE  SerialInv'
<1>1. stack[t] = <<>> /\ Becomes(t, n)
  BY DEF Fire, Becomes
<1>2. UNCHANGED <<lobbies, settings, connected, registered, input, source>>
  BY DEF Fire
<1>3. ListsOK' /\ PlacesOK'
  BY <1>1, <1>2, QuietStep
<1>4. QED
  BY <1>1, <1>3, ShapedBy DEF SerialInv

\* Every event that may be fired finds the invariant that its handler needs.
LEMMA EventSerial ==
  ASSUME OneThread, LobbiesFirst, TypeInv, SerialInv, NEW t \in Thread,
         \/ \E s \in Session : PauseStream(t, s) \/ StopStream(t, s)
         \/ \E s \in Session, l \in Lobby : JoinLobby(t, l, s) \/ LeaveLobby(t, l, s)
         \/ \E l \in Lobby : StopLobby(t, l)
  PROVE  SerialInv'
<1>1. ASSUME NEW f, NEW n, n = <<f>>, Alone(f)' PROVE StackShape(n)'
  BY <1>1 DEF StackShape
<1>2. ASSUME NEW s \in Session, PauseStream(t, s) PROVE SerialInv'
  <2>1. PICK f, n : f = At("over", Own, s) /\ n = <<f>>
    OBVIOUS
  <2>2. f.at = "over" /\ f.session = s
    BY <2>1 DEF At
  <2>3. s \in registered' /\ Fire(t, n)
    BY <1>2, <2>1 DEF PauseStream, Fire
  <2>4. Alone(f)'
    BY <2>2, <2>3 DEF Alone, Over
  <2>5. QED
    BY <1>1, <2>1, <2>3, <2>4, FireSerial
<1>3. ASSUME NEW s \in Session, StopStream(t, s) PROVE SerialInv'
  <2>1. PICK f, g, n : f = At("over", Own, s) /\ g = At("forget", Own, s) /\ n = <<f, g>>
    OBVIOUS
  <2>2. f.at = "over" /\ g.at = "forget" /\ f.session = s /\ g.session = s
    BY <2>1 DEF At
  <2>3. s \in registered' /\ Fire(t, n)
    BY <1>3, <2>1 DEF StopStream, Fire
  <2>4. ForgetAfter(f, g)'
    BY <2>2, <2>3 DEF ForgetAfter, Over
  <2>5. StackShape(n)'
    BY <2>1, <2>4 DEF StackShape
  <2>6. QED
    BY <2>3, <2>5, FireSerial
<1>4. ASSUME NEW s \in Session, NEW l \in Lobby, JoinLobby(t, l, s) PROVE SerialInv'
  <2>1. PICK f, n : f = At("check_join", l, s) /\ n = <<f>>
    OBVIOUS
  <2>2. f.at = "check_join" /\ f.session = s
    BY <2>1 DEF At
  <2>3. Fire(t, n) /\ UNCHANGED <<connected, registered>>
    BY <1>4, <2>1 DEF JoinLobby, Fire
  <2>4. InNone(s) /\ s \in registered
    BY <1>4 DEF JoinLobby, InNone, SerialInv, ListsOK, Found
  <2>5. Alone(f)'
    BY <2>2, <2>3, <2>4 DEF Alone, Joining, JoinSteps, InNone, Members
  <2>6. QED
    BY <1>1, <2>1, <2>3, <2>5, FireSerial
<1>5. ASSUME NEW s \in Session, NEW l \in Lobby, LeaveLobby(t, l, s) PROVE SerialInv'
  <2>1. PICK f, n : f = At("check_leave", l, s) /\ n = <<f>>
    OBVIOUS
  <2>2. f.at = "check_leave" /\ f.session = s /\ f.lobby = l
    BY <2>1 DEF At
  <2>3. Fire(t, n) /\ UNCHANGED <<connected, registered>>
    BY <1>5, <2>1 DEF LeaveLobby, Fire
  <2>4. s \in Members(l) /\ s \in registered
    BY <1>5 DEF LeaveLobby, SerialInv, ListsOK
  <2>5. Alone(f)'
    BY <2>2, <2>3, <2>4 DEF Alone, Leaving, Entering, LeaveSteps, Members
  <2>6. QED
    BY <1>1, <2>1, <2>3, <2>5, FireSerial
<1>6. ASSUME NEW l \in Lobby, StopLobby(t, l) PROVE SerialInv'
  <2>1. PICK f, n : f = At("check_stop", l, None) /\ n = <<f>>
    OBVIOUS
  <2>2. f.at = "check_stop"
    BY <2>1 DEF At
  <2>3. Alone(f)'
    BY <2>2 DEF Alone, Stopping, StopSteps
  <2>4. QED
    BY <1>1, <1>6, <2>1, <2>3, FireSerial DEF StopLobby
<1>7. QED
  BY <1>2, <1>3, <1>4, <1>5, <1>6

\* A session may be registered and a lobby be created in the middle of a handler:
\* the calls in progress are about other sessions and older lobbies.
LEMMA OutsideSerial ==
  ASSUME OneThread, LobbiesAssumption, TypeInv, SerialInv,
         \/ \E s \in Session : StartSession(s)
         \/ \E with \in Settings : CreateLobby(with)
  PROVE  SerialInv'
<1>1. UNCHANGED <<connected, stack>> /\ registered \subseteq registered'
  BY DEF StartSession, CreateLobby
<1>2. \A u \in registered : input'[u] = input[u] /\ source'[u] = source[u]
  BY DEF StartSession, CreateLobby, TypeInv, TypeOK
<1>3. ToSet(lobbies) \subseteq ToSet(lobbies')
  <2>1. ASSUME NEW with \in Settings, CreateLobby(with)
        PROVE  ToSet(lobbies) \subseteq ToSet(lobbies')
    <3>1. created + 1 \in Lobby /\ lobbies \in Seq(Lobby)
      BY <2>1 DEF CreateLobby, TypeInv, TypeOK, LobbiesAssumption, Lobby
    <3>2. QED
      BY <2>1, <3>1, AppendIs DEF CreateLobby
  <2>2. QED
    BY <2>1 DEF StartSession
<1>4. \A l \in ToSet(lobbies) : settings'[l] = settings[l]
  <2>1. ASSUME NEW with \in Settings, CreateLobby(with), NEW l \in ToSet(lobbies)
        PROVE  settings'[l] = settings[l]
    <3>1. l # created + 1
      BY DEF TypeInv, TypeOK
    <3>2. QED
      BY <2>1, <3>1 DEF CreateLobby, TypeInv, TypeOK
  <2>2. QED
    BY <2>1 DEF StartSession
<1>5. \A m : Members(m)' = Members(m)
  BY <1>1 DEF Members
<1>6. \A s : InNone(s)' <=> InNone(s)
  BY <1>5 DEF InNone
<1>7. \A f : Joining(f) => Joining(f)'
  <2>1. TAKE f
  <2>2. f.at = "push" /\ Found(f.lobby) /\ ~Full(f.lobby) => Found(f.lobby)' /\ ~Full(f.lobby)'
    BY <1>1, <1>3, <1>4 DEF Found, Full
  <2>3. QED
    BY <1>1, <1>2, <1>5, <1>6, <2>2 DEF Joining
<1>8. \A f : Leaving(f) => Leaving(f)'
  BY <1>1, <1>2, <1>5, <1>6 DEF Leaving, Entering
<1>9. \A f : (Stopping(f) => Stopping(f)') /\ (Over(f) => Over(f)')
             /\ (StoppingEmpty(f) => StoppingEmpty(f)')
  BY <1>1, <1>5 DEF Stopping, Over, StoppingEmpty
<1>10. \A f : Alone(f) => Alone(f)'
  BY <1>6, <1>7, <1>8, <1>9 DEF Alone
<1>11. \A f, g : ForgetAfter(f, g) => ForgetAfter(f, g)'
  BY <1>6, <1>8, <1>9 DEF ForgetAfter
<1>12. \A f, g : SentAway(f, g) => SentAway(f, g)'
  BY <1>5, <1>8, <1>9 DEF SentAway, Entering
<1>13. Shaped'
  <2>1. ASSUME NEW k, StackShape(k) PROVE StackShape(k)'
    <3>1. PICK f, g : f = k[1] /\ g = k[2]
      OBVIOUS
    <3>2. (Alone(f) => Alone(f)') /\ (ForgetAfter(f, g) => ForgetAfter(f, g)')
          /\ (SentAway(f, g) => SentAway(f, g)')
      BY <1>10, <1>11, <1>12
    <3>3. QED
      BY <2>1, <3>1, <3>2 DEF StackShape
  <2>2. QED
    BY <1>1, <2>1 DEF SerialInv, Shaped
<1>14. ListsOK'
  <2>1. \A l \in Lobby : settings'[l] = settings[l] \/ ~Found(l)
    BY DEF StartSession, CreateLobby, TypeInv, TypeOK, Found
  <2>2. QED
    BY <1>1, <1>3, <1>5, <2>1 DEF SerialInv, ListsOK, Found
<1>15. PlacesOK'
  <2>1. ASSUME NEW u \in registered PROVE Moved(u)' \/ PlaysIn(u)'
    <3>1. Moved(u)' <=> Moved(u)
      BY <1>1 DEF Moved
    <3>2. QED
      BY <1>2, <1>5, <3>1 DEF SerialInv, PlacesOK, PlaysIn
  <2>2. ASSUME NEW u \in registered' \ registered PROVE PlaysIn(u)'
    <3>1. input'[u] = Own /\ source'[u] = Own
      BY <2>2 DEF StartSession, CreateLobby, TypeInv, TypeOK
    <3>2. \A l \in Lobby : u \notin Members(l)
      BY <2>2 DEF SerialInv, ListsOK
    <3>3. QED
      BY <1>5, <3>1, <3>2 DEF PlaysIn, Own, Lobby
  <2>3. QED
    BY <2>1, <2>2 DEF PlacesOK
<1>16. QED
  BY <1>13, <1>14, <1>15 DEF SerialInv

\* Every step of the single thread keeps the invariant.
LEMMA SerialStep ==
  ASSUME OneThread, LobbiesFirst, LobbiesAssumption, TypeInv, SerialInv, [Next]_vars
  PROVE  SerialInv'
<1>1. ASSUME NEW t \in Thread, HandlerStep(t) PROVE SerialInv'
  BY <1>1, CheckJoinSerial, JoinPushSerial, JoinMoveSerial, CheckLeaveSerial,
     LeaveFilterSerial, LeaveMoveSerial, LeaveLastSerial, CheckStopSerial, StopEachSerial,
     StopRemoveSerial, SessionOverSerial, ForgetSerial DEF HandlerStep
<1>2. CASE UNCHANGED vars
  <2>1. ListsOK' /\ PlacesOK'
    BY <1>2 DEF vars, SerialInv, ListsOK, PlacesOK, Moved, PlaysIn, Members, Found
  <2>2. UNCHANGED <<lobbies, settings, connected, registered, input>>
    BY <1>2 DEF vars
  <2>3. \A k : StackShape(k)' <=> StackShape(k)
    <3>1. \A f : Alone(f)' <=> Alone(f)
      BY <2>2, SameFrames DEF Alone
    <3>2. \A f, g : ForgetAfter(f, g)' <=> ForgetAfter(f, g)
      BY <2>2, SameFrames DEF ForgetAfter
    <3>3. \A f, g : SentAway(f, g)' <=> SentAway(f, g)
      BY <2>2, SameFrames DEF SentAway, Members, Entering
    <3>4. QED
      BY <3>1, <3>2, <3>3 DEF StackShape
  <2>4. Shaped'
    BY <1>2, <2>3 DEF vars, SerialInv, Shaped
  <2>5. QED
    BY <2>1, <2>4 DEF SerialInv
<1>3. CASE \E t \in Thread, s \in Session :
             \/ PauseStream(t, s) \/ StopStream(t, s)
             \/ \E l \in Lobby : JoinLobby(t, l, s) \/ LeaveLobby(t, l, s)
  BY <1>3, EventSerial
<1>4. CASE \E t \in Thread, l \in Lobby : StopLobby(t, l)
  BY <1>4, EventSerial
<1>5. QED
  BY <1>1, <1>2, <1>3, <1>4, OutsideSerial DEF Next

\* The invariant holds of the empty server.
LEMMA InitSerial ==
  ASSUME Init
  PROVE  SerialInv
<1>1. \A l \in Lobby : connected[l] = <<>> /\ Members(l) = {}
  BY DEF Init, Members, ToSet
<1>2. ListsOK
  BY <1>1 DEF Init, ListsOK, IsInjective
<1>3. PlacesOK
  BY DEF Init, PlacesOK
<1>4. Shaped
  BY DEF Init, Shaped, StackShape
<1>5. QED
  BY <1>2, <1>3, <1>4 DEF SerialInv

\* The invariant of a single thread is inductive.
THEOREM SerialHolds ==
  ASSUME OneThread, LobbiesFirst
  PROVE  Spec => [](TypeInv /\ SerialInv)
<1>1. Init => TypeInv /\ SerialInv
  BY InitTyped, InitSerial, LobbiesAssumption
<1>2. TypeInv /\ SerialInv /\ [Next]_vars => (TypeInv /\ SerialInv)'
  BY StepTyped, SerialStep, LobbiesAssumption
<1>3. QED
  BY <1>1, <1>2, PTL DEF Spec

\* With one thread, what a session shows and where its input goes is the lobby
\* that lists it whenever no handler is running.
THEOREM PlacesCorrect ==
  ASSUME OneThread, LobbiesFirst
  PROVE  Spec => []PlaysWhereConnected
<1>1. SerialInv => PlaysWhereConnected
  BY DEF SerialInv, PlacesOK, Moved, PlaysIn, PlaysWhereConnected
<1>2. QED
  BY <1>1, SerialHolds, PTL

-----------------------------------------------------------------------------
(* With one thread the handlers implement LobbyMembership. *)

\* A session is where a list says it is.
WhereOK ==
  \A s : /\ \A l \in Lobby : Where(s) = l <=> s \in Members(l)
         /\ Where(s) = Own <=> InNone(s)
         /\ Where(s) \in Lobby \cup {Own}

\* The lists say of every session which one lobby it is in, if any.
LEMMA WhereIs == ListsOK => WhereOK
<1> SUFFICES ASSUME ListsOK, NEW s
             PROVE  /\ \A l \in Lobby : Where(s) = l <=> s \in Members(l)
                    /\ Where(s) = Own <=> InNone(s)
                    /\ Where(s) \in Lobby \cup {Own}
  BY DEF WhereOK
<1> DEFINE in == {l \in Lobby : s \in Members(l)}
<1>1. Where(s) = IF in = {} THEN Own ELSE Min(in)
  BY DEF Where
<1>2. in \subseteq Nat /\ Own \notin Lobby
  BY DEF Lobby, Own
<1>3. \A k, l \in in : k = l
  BY DEF ListsOK
<1>4. CASE in = {}
  BY <1>1, <1>2, <1>4 DEF InNone
<1>5. CASE in # {}
  <2>1. Min(in) \in in
    <3> HIDE DEF in
    <3>1. QED
      BY <1>2, <1>5, MinIs
  <2>2. Where(s) \in in
    <3> HIDE DEF in
    <3>1. QED
      BY <1>1, <1>5, <2>1
  <2>3. QED
    BY <1>2, <1>3, <2>2 DEF InNone
<1>6. QED
  BY <1>4, <1>5

\* The same after a step.
LEMMA WhereNext == ListsOK' => WhereOK'
BY WhereIs, PTL

\* What the abstract specification sees.
LEMMA SameToAll ==
  ASSUME UNCHANGED <<lobbies, created, settings, connected>>
  PROVE  UNCHANGED Membership!vars
<1>1. \A s : Where(s)' = Where(s)
  BY DEF Where, Members
<1>2. [s \in Session |-> Where(s)]' = [s \in Session |-> Where(s)]
  BY <1>1
<1>3. {l \in 1..created : settings[l].multi_user}' = {l \in 1..created : settings[l].multi_user}
  OBVIOUS
<1>4. ToSet(lobbies)' = ToSet(lobbies)
  OBVIOUS
<1>5. QED
  BY <1>2, <1>3, <1>4 DEF Membership!vars

\* A push is a join.
LEMMA PushJoins ==
  ASSUME OneThread, TypeInv, SerialInv, SerialInv', NEW t \in Thread, JoinPush(t)
  PROVE  Membership!Next
<1>1. stack[t] # <<>> /\ Head(stack[t]).at = "push"
  BY DEF JoinPush, Running
<1>2. PICK k, f, h : k = stack[t] /\ f = Head(stack[t]) /\ Stack(k, f, h)
  BY <1>1, Current
<1>3. Joining(f)
  BY <1>1, <1>2, TopShape DEF JoinSteps
<1>4. PICK l, s : l = f.lobby /\ s = f.session
  OBVIOUS
<1>5. l \in Lobby /\ s \in Session /\ InNone(s) /\ Found(l) /\ ~Full(l)
  BY <1>1, <1>2, <1>3, <1>4 DEF Stack, FrameOK, Joining, JoinSteps
<1>6. \A m \in Lobby : Members(m)' = IF m = l THEN Members(l) \cup {s} ELSE Members(m)
  BY <1>2, <1>4, <1>5, Pushed DEF JoinPush
<1>7. settings[l].multi_user \/ Members(l) = {}
  <2>1. connected[l] \in Seq(Session)
    BY <1>5 DEF TypeInv, TypeOK
  <2>2. ~settings[l].multi_user => connected[l] = <<>>
    BY <1>5, <2>1 DEF Full
  <2>3. QED
    BY <2>1, <2>2, EmptyIs DEF Members
<1>8. WhereOK /\ WhereOK'
  BY WhereIs, WhereNext DEF SerialInv
<1>9. Where(s) = Own /\ Where(s)' = l /\ \A u : u # s => Where(u)' = Where(u)
  <2>1. Where(s) = Own /\ Where(s)' = l
    BY <1>5, <1>6, <1>8 DEF WhereOK
  <2>2. ASSUME NEW u, u # s PROVE Where(u)' = Where(u)
    <3>1. \A m \in Lobby : u \in Members(m)' <=> u \in Members(m)
      BY <1>6, <2>2
    <3>2. QED
      BY <1>8, <3>1 DEF WhereOK
  <2>3. QED
    BY <2>1, <2>2
<1>10. UNCHANGED <<lobbies, created, settings>>
  BY DEF JoinPush
<1>11. l \in ToSet(lobbies) /\ l \in 1..created
  BY <1>5 DEF Found, TypeInv
<1>12. \A u \in Session : Where(u) = l => u \in Members(l)
  BY <1>5, <1>8 DEF WhereOK
<1>13. Membership!Join(s, l)
  BY <1>5, <1>7, <1>9, <1>10, <1>11, <1>12 DEF Membership!Join, Membership!Members
<1>14. QED
  BY <1>5, <1>13 DEF Membership!Next

\* Leaving the list is a leave.
LEMMA FilterLeaves ==
  ASSUME OneThread, TypeInv, SerialInv, SerialInv', NEW t \in Thread, LeaveFilter(t)
  PROVE  Membership!Next
<1>1. stack[t] # <<>> /\ Head(stack[t]).at = "filter"
  BY DEF LeaveFilter, Running
<1>2. PICK k, f, h : k = stack[t] /\ f = Head(stack[t]) /\ Stack(k, f, h)
  BY <1>1, Current
<1>3. Leaving(f) /\ Entering(f)
  BY <1>1, <1>2, TopShape DEF LeaveSteps, Entering
<1>4. PICK l, s : l = f.lobby /\ s = f.session
  OBVIOUS
<1>5. l \in Lobby /\ s \in Session /\ s \in Members(l)
  BY <1>2, <1>3, <1>4 DEF Stack, FrameOK, Leaving
<1>6. \A m \in Lobby : Members(m)' = IF m = l THEN Members(l) \ {s} ELSE Members(m)
  BY <1>2, <1>4, <1>5, Filtered DEF LeaveFilter
<1>7. WhereOK /\ WhereOK'
  BY WhereIs, WhereNext DEF SerialInv
<1>8. \A m \in Lobby : s \in Members(m) => m = l
  BY <1>5, MemberOf DEF SerialInv
<1>9. Where(s) = l /\ Where(s)' = Own
  <2>1. \A m \in Lobby : s \notin Members(m)'
    BY <1>6, <1>8
  <2>2. InNone(s)'
    BY <2>1 DEF InNone
  <2>3. QED
    BY <1>5, <1>7, <2>2 DEF WhereOK
<1>10. ASSUME NEW u, u # s PROVE Where(u)' = Where(u)
  <2>1. \A m \in Lobby : u \in Members(m)' <=> u \in Members(m)
    BY <1>6, <1>10
  <2>2. QED
    BY <1>7, <2>1 DEF WhereOK
<1>11. UNCHANGED <<lobbies, created, settings>>
  BY DEF LeaveFilter
<1>12. Membership!Leave(s)
  <2>1. Where(s) # Own
    BY <1>5, <1>9 DEF Lobby, Own
  <2>2. [u \in Session |-> Where(u)]' = [[u \in Session |-> Where(u)] EXCEPT ![s] = Own]
    BY <1>5, <1>9, <1>10
  <2>3. UNCHANGED <<ToSet(lobbies), (1..created) \ ToSet(lobbies),
                    {m \in 1..created : settings[m].multi_user}>>
    BY <1>11
  <2>4. QED
    BY <1>5, <2>1, <2>2, <2>3 DEF Membership!Leave
<1>13. QED
  BY <1>5, <1>12 DEF Membership!Next

\* The end of a stop is a close, or nothing when the lobby is closed already.
LEMMA RemoveCloses ==
  ASSUME OneThread, TypeInv, SerialInv, SerialInv', NEW t \in Thread, StopRemove(t)
  PROVE  [Membership!Next]_(Membership!vars)
<1>1. stack[t] # <<>> /\ Head(stack[t]).at = "remove"
  BY DEF StopRemove, Running
<1>2. PICK k, f, h : k = stack[t] /\ f = Head(stack[t]) /\ Stack(k, f, h)
  BY <1>1, Current
<1>3. PICK l : l = f.lobby
  OBVIOUS
<1>4. l \in Lobby /\ Members(l) = {}
  BY <1>1, <1>2, <1>3, TopShape DEF Stopping, StopSteps, Stack, FrameOK
<1>5. ToSet(lobbies)' = ToSet(lobbies) \ {l}
  BY <1>2, <1>3, WithoutIs DEF StopRemove, TypeInv, TypeOK
<1>6. UNCHANGED <<created, settings, connected>>
  BY DEF StopRemove
<1>7. \A s : Where(s)' = Where(s)
  BY <1>6 DEF Where, Members
<1>8. {m \in 1..created : settings[m].multi_user}' = {m \in 1..created : settings[m].multi_user}
  BY <1>6
<1>9. WhereOK
  BY WhereIs DEF SerialInv
<1>10. CASE l \in ToSet(lobbies)
  <2>1. l \in 1..created
    BY <1>10 DEF TypeInv
  <2>2. ((1..created) \ ToSet(lobbies))' = ((1..created) \ ToSet(lobbies)) \cup {l}
    BY <1>5, <1>6, <1>10, <2>1
  <2>3. \A u \in Session : Where(u) # l
    BY <1>4, <1>9 DEF WhereOK
  <2>4. Membership!Close(l)
    BY <1>5, <1>7, <1>8, <1>10, <2>2, <2>3 DEF Membership!Close, Membership!Members
  <2>5. QED
    BY <1>4, <2>4 DEF Membership!Next
<1>11. CASE l \notin ToSet(lobbies)
  <2>1. ToSet(lobbies)' = ToSet(lobbies)
    BY <1>5, <1>11
  <2>2. ((1..created) \ ToSet(lobbies))' = (1..created) \ ToSet(lobbies)
    BY <1>6, <2>1
  <2>3. QED
    BY <1>7, <1>8, <2>1, <2>2 DEF Membership!vars
<1>12. QED
  BY <1>10, <1>11

\* A new lobby opens.
LEMMA CreateOpens ==
  ASSUME LobbiesAssumption, TypeInv, NEW with \in Settings, CreateLobby(with)
  PROVE  Membership!Next
<1>1. PICK l : l = created + 1
  OBVIOUS
<1>2. l \in Lobby /\ lobbies \in Seq(Lobby) /\ created \in Nat
  BY <1>1 DEF CreateLobby, TypeInv, TypeOK, LobbiesAssumption, Lobby
<1>3. ToSet(lobbies)' = ToSet(lobbies) \cup {l}
  BY <1>1, <1>2, AppendIs DEF CreateLobby
<1>4. 1..created' = (1..created) \cup {l} /\ l \notin 1..created
  BY <1>1, <1>2 DEF CreateLobby
<1>5. l \notin ToSet(lobbies)
  BY <1>4 DEF TypeInv
<1>6. ((1..created) \ ToSet(lobbies))' = (1..created) \ ToSet(lobbies)
  BY <1>3, <1>4, <1>5
<1>7. \A m \in 1..created : settings'[m] = settings[m]
  BY <1>1, <1>4 DEF CreateLobby, TypeInv, TypeOK
<1> DEFINE many == {m \in 1..created : settings[m].multi_user}
<1>8. many' \in {many, many \cup {l}}
  <2>1. many' = {m \in (1..created) \cup {l} : settings'[m].multi_user}
    BY <1>4
  <2>2. many' = many \cup {m \in {l} : settings'[m].multi_user}
    BY <1>7, <2>1
  <2>3. QED
    BY <2>2
<1>9. \A s : Where(s)' = Where(s)
  BY DEF CreateLobby, Where, Members
<1>10. Membership!Open(l)
  BY <1>3, <1>4, <1>5, <1>6, <1>8, <1>9 DEF Membership!Open
<1>11. QED
  BY <1>2, <1>10 DEF Membership!Next

\* Every step of the single thread is a step of LobbyMembership or changes
\* nothing that it sees.
LEMMA MembershipStep ==
  ASSUME OneThread, LobbiesAssumption, TypeInv, SerialInv, SerialInv', [Next]_vars
  PROVE  [Membership!Next]_(Membership!vars)
<1>1. CASE UNCHANGED <<lobbies, created, settings, connected>>
  BY <1>1, SameToAll
<1>2. ASSUME NEW with \in Settings, CreateLobby(with)
      PROVE  [Membership!Next]_(Membership!vars)
  BY <1>2, CreateOpens
<1>3. ASSUME NEW t \in Thread, HandlerStep(t)
      PROVE  [Membership!Next]_(Membership!vars)
  <2>1. CASE JoinPush(t)
    BY <2>1, PushJoins
  <2>2. CASE LeaveFilter(t)
    BY <2>2, FilterLeaves
  <2>3. CASE StopRemove(t)
    BY <2>3, RemoveCloses
  <2>4. CASE CheckJoin(t) \/ JoinInput(t) \/ JoinSource(t) \/ CheckLeave(t) \/ LeaveInput(t)
    BY <1>1, <2>4 DEF CheckJoin, JoinInput, JoinSource, CheckLeave, LeaveInput
  <2>5. CASE \/ LeaveSource(t) \/ LeaveLast(t) \/ CheckStop(t) \/ StopEach(t)
             \/ SessionOver(t) \/ ForgetSession(t)
    BY <1>1, <2>5 DEF LeaveSource, LeaveLast, CheckStop, StopEach, SessionOver, ForgetSession
  <2>6. QED
    BY <1>3, <2>1, <2>2, <2>3, <2>4, <2>5 DEF HandlerStep
<1>4. CASE \/ \E s \in Session : StartSession(s)
           \/ \E t \in Thread, s \in Session :
                \/ PauseStream(t, s) \/ StopStream(t, s)
                \/ \E l \in Lobby : JoinLobby(t, l, s) \/ LeaveLobby(t, l, s)
           \/ \E t \in Thread, l \in Lobby : StopLobby(t, l)
  BY <1>1, <1>4 DEF StartSession, PauseStream, StopStream, JoinLobby, LeaveLobby, StopLobby, Fire
<1>5. CASE UNCHANGED vars
  BY <1>1, <1>5 DEF vars
<1>6. QED
  BY <1>2, <1>3, <1>4, <1>5 DEF Next

\* No lobby is open at the start, and everybody plays their own app.
LEMMA MembershipStart == Init => Membership!Init
<1> SUFFICES ASSUME Init PROVE Membership!Init
  OBVIOUS
<1>1. \A l \in Lobby : Members(l) = {}
  BY DEF Init, Members, ToSet
<1>2. \A s : Where(s) = Own
  BY <1>1 DEF Where
<1>3. ToSet(lobbies) = {} /\ 1..created = {}
  BY DEF Init, ToSet
<1>4. QED
  BY <1>2, <1>3 DEF Membership!Init

\* With one thread that fires all the events, for any number of sessions and
\* lobbies, joins, leaves and stops are what LobbyMembership says: a session is in
\* one lobby at a time, a lobby for one user takes one, and a lobby closes only
\* once everybody has left it.
THEOREM Implements ==
  ASSUME OneThread, LobbiesFirst
  PROVE  Spec => ImplementsMembership
<1>1. TypeInv /\ SerialInv /\ (TypeInv /\ SerialInv)' /\ [Next]_vars
        => [Membership!Next]_(Membership!vars)
  BY MembershipStep, LobbiesAssumption
<1>2. QED
  BY <1>1, MembershipStart, SerialHolds, PTL DEF Spec, ImplementsMembership, Membership!Spec

\* With one thread nobody is left behind in a lobby that is off the list, and a
\* lobby created for one user never has two.
THEOREM MembershipCorrect ==
  ASSUME OneThread, LobbiesFirst
  PROVE  Spec => [](Membership!MembersOfOpenLobbies /\ Membership!OneUserUnlessShared)
<1>1. TypeInv /\ SerialInv => Membership!MembersOfOpenLobbies /\ Membership!OneUserUnlessShared
  <2> SUFFICES ASSUME TypeInv, SerialInv
               PROVE  Membership!MembersOfOpenLobbies /\ Membership!OneUserUnlessShared
    OBVIOUS
  <2>1. ListsOK /\ WhereOK
    BY WhereIs DEF SerialInv
  <2>2. Membership!MembersOfOpenLobbies
    BY <2>1 DEF Membership!MembersOfOpenLobbies, ListsOK, WhereOK, Found
  <2>3. Membership!OneUserUnlessShared
    <3> SUFFICES ASSUME NEW l \in Lobby, l \notin {m \in 1..created : settings[m].multi_user},
                        NEW s1 \in Session, NEW s2 \in Session,
                        Where(s1) = l, Where(s2) = l
                 PROVE  s1 = s2
      BY DEF Membership!OneUserUnlessShared, Membership!Members
    <3>1. s1 \in Members(l) /\ s2 \in Members(l)
      BY <2>1 DEF WhereOK
    <3>2. l \in 1..created
      BY <2>1, <3>1 DEF ListsOK, Found, TypeInv
    <3>3. QED
      BY <2>1, <3>1, <3>2 DEF ListsOK
  <2>4. QED
    BY <2>2, <2>3
<1>2. QED
  BY <1>1, SerialHolds, PTL
=============================================================================
