-------------------------- MODULE CycleCheckProofs --------------------------
(***************************************************************************)
(* hasCycle is correct for every number of tasks and every graph.          *)
(*                                                                         *)
(* The invariant: the calls on the stack form a path through the nodes     *)
(* being visited (ColoursMatchStack), so a dependent that is being visited *)
(* closes a cycle; a call that is left has only visited dependents         *)
(* (CallsProgress), while no visited task waits for it, so it can go first *)
(* in any set of visited tasks it joins (VisitedAcyclic).                  *)
(***************************************************************************)
EXTENDS CycleCheck, SequenceTheorems, TLAPS

CycleInv ==
    /\ CycleTypeOK
    /\ ColoursMatchStack
    /\ CallsProgress
    /\ CallsWithin
    /\ VisitedAcyclic
    /\ VerdictCorrect

(* The parts of a nonempty stack. *)
LEMMA StackParts ==
    ASSUME CycleTypeOK, stack # <<>>
    PROVE  /\ Len(stack) \in Nat \ {0}
           /\ Top = stack[Len(stack)]
           /\ Top \in Frame
           /\ Caller \in Seq(Frame)
           /\ Len(Caller) = Len(stack) - 1
           /\ \A i \in 1..(Len(stack) - 1) : Caller[i] = stack[i]
<1>. DEFINE n == Len(stack)
<1>1. stack \in Seq(Frame) /\ n \in Nat \ {0} /\ stack[n] \in Frame
  BY DEF CycleTypeOK
<1>2. \A i \in 1..(n - 1) : stack[i] \in Frame BY <1>1
<1>3. /\ SubSeq(stack, 1, n - 1) \in Seq(Frame)
      /\ Len(SubSeq(stack, 1, n - 1)) = IF 1 <= n - 1 THEN (n - 1) - 1 + 1 ELSE 0
      /\ \A i \in 1..((n - 1) - 1 + 1) : SubSeq(stack, 1, n - 1)[i] = stack[1 + i - 1]
  BY <1>1, <1>2, SubSeqProperties
<1>. DEFINE c == SubSeq(stack, 1, n - 1)
<1>4. Len(c) = n - 1 /\ \A i \in 1..(n - 1) : c[i] = stack[i]
  <2>. HIDE DEF c
  <2>1. /\ Len(c) = IF 1 <= n - 1 THEN (n - 1) - 1 + 1 ELSE 0
        /\ \A i \in 1..((n - 1) - 1 + 1) : c[i] = stack[1 + i - 1]
    BY <1>3 DEF c
  <2>2. n \in Nat \ {0} BY <1>1
  <2>. HIDE DEF n
  <2>3. (n - 1) - 1 + 1 = n - 1 BY <2>2
  <2>4. Len(c) = n - 1 BY <2>1, <2>2
  <2>5. \A i \in 1..(n - 1) : 1 + i - 1 = i BY <2>2
  <2>. QED BY <2>1, <2>3, <2>4, <2>5
<1>. QED BY <1>1, <1>3, <1>4 DEF Top, Caller

(* The stack after Top has looked at n. *)
LEMMA LookedParts ==
    ASSUME CycleTypeOK, stack # <<>>, NEW n \in Top.rest,
           NEW looked, looked = Append(Caller, Looked(n))
    PROVE  /\ looked \in Seq(Frame)
           /\ Len(looked) = Len(stack)
           /\ \A i \in 1..Len(stack) : looked[i].node = stack[i].node
           /\ \A i \in 1..(Len(stack) - 1) : looked[i] = stack[i]
           /\ looked[Len(stack)].rest = Top.rest \ {n}
<1>1. DEFINE top == Looked(n)
<1>2. top \in Frame /\ top.node = Top.node /\ top.rest = Top.rest \ {n}
  BY StackParts DEF Frame, Looked
<1>3. /\ looked \in Seq(Frame)
      /\ Len(looked) = Len(stack)
      /\ \A i \in 1..(Len(stack) - 1) : looked[i] = stack[i]
      /\ looked[Len(stack)] = top
  <2>. HIDE DEF top
  <2>1. looked = Append(Caller, top) BY DEF top
  <2>. QED BY <1>2, <2>1, StackParts
<1>. QED BY <1>2, <1>3, StackParts

(* Pushing a call on n after a stack that agrees with the old one. *)
LEMMA PushParts ==
    ASSUME CycleTypeOK, NEW base \in Seq(Frame), NEW n \in Tasks
    PROVE  /\ Append(base, Call(n)) \in Seq(Frame)
           /\ Len(Append(base, Call(n))) = Len(base) + 1
           /\ \A i \in 1..Len(base) : Append(base, Call(n))[i] = base[i]
           /\ Append(base, Call(n))[Len(base) + 1].node = n
           /\ Append(base, Call(n))[Len(base) + 1].rest = adj(n)
<1>1. Call(n) \in Frame /\ Call(n).node = n /\ Call(n).rest = adj(n)
  BY DEF Call, Frame, adj, DependentsIn, CycleTypeOK
<1>2. DEFINE c == Call(n)
<1>. HIDE DEF c
<1>3. c \in Frame /\ c.node = n /\ c.rest = adj(n) BY <1>1 DEF c
<1>4. /\ Append(base, c) \in Seq(Frame)
      /\ Len(Append(base, c)) = Len(base) + 1
      /\ \A i \in 1..Len(base) : Append(base, c)[i] = base[i]
      /\ Append(base, c)[Len(base) + 1] = c
  BY <1>3
<1>. QED BY <1>3, <1>4 DEF c

(* A dependent of the top of the stack that is itself on the stack closes   *)
(* a cycle: the calls from it to the top are a set in which nobody can go   *)
(* first.                                                                   *)
LEMMA BackEdgeIsCycle ==
    ASSUME CycleInv, stack # <<>>, NEW n \in adj(Top.node), colour[n] = "visiting"
    PROVE  ~Acyclic(deps)
<1>1. PICK k \in 1..Len(stack) : stack[k].node = n
  <2>1. n \in Tasks BY DEF adj, DependentsIn
  <2>2. n \in {stack[i].node : i \in DOMAIN stack} BY <2>1 DEF CycleInv, ColoursMatchStack
  <2>3. DOMAIN stack = 1..Len(stack) BY DEF CycleInv, CycleTypeOK
  <2>. QED BY <2>2, <2>3
<1>2. DEFINE S == {stack[i].node : i \in k..Len(stack)}
<1>3. Len(stack) \in Nat /\ \A i \in 1..Len(stack) : stack[i].node \in Tasks
  <2>1. stack \in Seq(Frame) BY DEF CycleInv, CycleTypeOK
  <2>2. \A i \in 1..Len(stack) : stack[i] \in Frame BY <2>1
  <2>3. \A f \in Frame : f.node \in Tasks BY DEF Frame
  <2>. QED BY <2>1, <2>2, <2>3
<1>4. S \in SUBSET Tasks /\ S # {}
  BY <1>1, <1>3
<1>5. ASSUME NEW t \in S PROVE deps[t] \cap S # {}
  <2>1. PICK i \in k..Len(stack) : stack[i].node = t BY <1>5
  <2>2. CASE i = k
    <3>0. Len(stack) \in k..Len(stack) BY <1>1, <1>3
    <3>1. Top.node \in S BY <3>0 DEF Top
    <3>2. t \in adj(Top.node) BY <1>1, <2>1, <2>2
    <3>. QED BY <3>1, <3>2 DEF adj, DependentsIn
  <2>3. CASE i # k
    <3>1. i > 1 /\ i - 1 \in k..Len(stack) /\ i \in 1..Len(stack) BY <1>1, <1>3, <2>1, <2>3
    <3>2. i \in DOMAIN stack BY <3>1 DEF CycleInv, CycleTypeOK
    <3>4. t \in adj(stack[i - 1].node)
      BY <2>1, <3>1, <3>2 DEF CycleInv, ColoursMatchStack
    <3>3. stack[i - 1].node \in S BY <3>1
    <3>. QED BY <3>3, <3>4 DEF adj, DependentsIn
  <2>. QED BY <2>2, <2>3
<1>6. \A t \in S : deps[t] \cap S # {} BY <1>5
<1>. HIDE DEF S
<1>7. S \in (SUBSET Tasks) \ {{}} BY <1>4
<1>. QED BY <1>6, <1>7 DEF Acyclic

(* A visited task stays the witness of every set of visited tasks, and the  *)
(* task that is left can go first in the sets it joins.                     *)
LEMMA LeaveKeepsVisitedAcyclic ==
    ASSUME CycleInv, Leave
    PROVE  VisitedAcyclic'
<1>. DEFINE n == Top.node
<1>1. /\ n \in Tasks /\ colour[n] = "visiting"
      /\ \A c \in adj(n) : colour[c] = "visited"
  <2>0. stack # <<>> /\ Top.rest = {} BY DEF Leave
  <2>1. /\ Len(stack) \in Nat \ {0} /\ Top = stack[Len(stack)] /\ Top \in Frame
        /\ Len(stack) \in DOMAIN stack
    BY <2>0, StackParts DEF CycleInv, CycleTypeOK
  <2>2. n \in Tasks BY <2>1 DEF Frame
  <2>3. n \in {stack[i].node : i \in DOMAIN stack} BY <2>1
  <2>4. colour[n] = "visiting" BY <2>2, <2>3 DEF CycleInv, ColoursMatchStack
  <2>5. \A c \in adj(n) : c \notin Top.rest BY <2>0
  <2>6. \A c \in adj(n) \ stack[Len(stack)].rest : colour[c] = "visited"
    BY <2>1 DEF CycleInv, CallsProgress
  <2>. QED BY <2>1, <2>2, <2>4, <2>5, <2>6
<1>2. SUFFICES ASSUME NEW S \in SUBSET Tasks, S # {}, \A t \in S : colour'[t] = "visited"
               PROVE  \E t \in S : deps[t] \cap S = {}
  BY DEF VisitedAcyclic, Leave
<1>3. \A t \in S : t # n => colour[t] = "visited"
  BY <1>1, <1>2 DEF Leave, CycleInv, CycleTypeOK
<1>4. CASE n \in S
  <2>1. ASSUME NEW d \in deps[n] \cap S PROVE FALSE
    <3>1. d \in Tasks /\ n \in adj(d) BY <1>1, <2>1 DEF adj, DependentsIn
    <3>2. CASE d = n BY <1>1, <3>1, <3>2
    <3>3. CASE d # n
      <4>1. colour[d] = "visited" BY <1>3, <2>1, <3>3
      <4>2. colour[n] = "visited" BY <3>1, <4>1 DEF CycleInv, ColoursMatchStack
      <4>. QED BY <1>1, <4>2
    <3>. QED BY <3>2, <3>3
  <2>. QED BY <1>4, <2>1
<1>5. CASE n \notin S
  <2>1. \A t \in S : colour[t] = "visited" BY <1>3, <1>5
  <2>. QED BY <1>2, <2>1 DEF CycleInv, VisitedAcyclic
<1>. QED BY <1>4, <1>5

(* A call on the unvisited node n is pushed on base, which has the calls of *)
(* the stack: Enter and the last case of Descend.                           *)
LEMMA PushKeepsInv ==
    ASSUME CycleInv, NEW base \in Seq(Frame), NEW n \in Tasks,
           colour[n] = "unvisited", verdict = "none",
           Len(base) = Len(stack),
           \A i \in 1..Len(base) : base[i].node = stack[i].node,
           Len(base) > 0 => n \in adj(base[Len(base)].node),
           \A i \in 1..Len(base) : \A c \in adj(base[i].node) \ base[i].rest :
               \/ colour[c] = "visited"
               \/ i < Len(base) /\ c = base[i + 1].node
               \/ i = Len(base) /\ c = n,
           \A i \in 1..Len(base) : base[i].rest \subseteq adj(base[i].node),
           stack' = Append(base, Call(n)),
           colour' = [colour EXCEPT ![n] = "visiting"],
           UNCHANGED <<deps, verdict>>
    PROVE  CycleInv'
<1>. DEFINE m == Len(base)
<1>1. /\ m \in Nat
      /\ stack' \in Seq(Frame)
      /\ Len(stack') = m + 1
      /\ DOMAIN stack' = 1..(m + 1)
      /\ \A i \in 1..m : stack'[i] = base[i]
      /\ stack'[m + 1].node = n
      /\ stack'[m + 1].rest = adj(n)
  BY PushParts DEF CycleInv
<1>2. DOMAIN stack = 1..m BY DEF CycleInv, CycleTypeOK
<1>3. \A c \in Tasks : colour'[c] = IF c = n THEN "visiting" ELSE colour[c]
  BY DEF CycleInv, CycleTypeOK
<1>4. \A t : adj(t)' = adj(t) BY DEF adj, DependentsIn
<1>5. \A i \in 1..m : stack'[i].node = stack[i].node BY <1>1
<1>6. n \notin {stack[i].node : i \in 1..m}
  BY <1>2 DEF CycleInv, ColoursMatchStack
<1>7. CycleTypeOK' BY <1>1 DEF CycleInv, CycleTypeOK
<1>. HIDE DEF m
<1>8. ColoursMatchStack'
  <2>1. {c \in Tasks : colour'[c] = "visiting"} = {c \in Tasks : colour[c] = "visiting"} \cup {n}
    BY <1>3
  <2>2. {stack'[i].node : i \in 1..(m + 1)} = {stack[i].node : i \in 1..m} \cup {n}
    <3>1. 1..(m + 1) = (1..m) \cup {m + 1} BY <1>1
    <3>. QED BY <1>1, <1>5, <3>1
  <2>3. {c \in Tasks : colour'[c] = "visiting"} = {stack'[i].node : i \in DOMAIN stack'}
    BY <1>1, <1>2, <2>1, <2>2 DEF CycleInv, ColoursMatchStack
  <2>4. ASSUME NEW i \in DOMAIN stack', NEW k \in DOMAIN stack', stack'[i].node = stack'[k].node
        PROVE  i = k
    <3>1. CASE i \in 1..m /\ k \in 1..m
      BY <1>2, <1>5, <2>4, <3>1 DEF CycleInv, ColoursMatchStack
    <3>2. CASE i \in 1..m /\ k = m + 1 BY <1>1, <1>5, <1>6, <2>4, <3>2
    <3>3. CASE i = m + 1 /\ k \in 1..m BY <1>1, <1>5, <1>6, <2>4, <3>3
    <3>. QED BY <1>1, <3>1, <3>2, <3>3
  <2>5. ASSUME NEW i \in DOMAIN stack', i > 1 PROVE stack'[i].node \in adj(stack'[i - 1].node)
    <3>1. CASE i \in 1..m
      <4>1. i - 1 \in 1..m /\ i \in DOMAIN stack BY <1>1, <1>2, <2>5, <3>1
      <4>2. stack[i].node \in adj(stack[i - 1].node)
        BY <2>5, <4>1 DEF CycleInv, ColoursMatchStack
      <4>. QED BY <1>5, <3>1, <4>1, <4>2
    <3>2. CASE i = m + 1
      <4>1. m > 0 /\ i - 1 = m /\ m \in 1..m BY <1>1, <2>5, <3>2
      <4>2. n \in adj(base[m].node) BY <4>1 DEF m
      <4>3. stack'[i].node = n BY <1>1, <3>2
      <4>4. stack'[i - 1].node = base[m].node BY <1>1, <4>1
      <4>. QED BY <4>2, <4>3, <4>4
    <3>3. i \in 1..m \/ i = m + 1 BY <1>1
    <3>. QED BY <3>1, <3>2, <3>3
  <2>6. ASSUME NEW t \in Tasks, colour'[t] = "visited", NEW c \in adj(t)
        PROVE  colour'[c] = "visited"
    <3>1. t # n /\ colour[t] = "visited" BY <1>3, <2>6
    <3>2. colour[c] = "visited" BY <2>6, <3>1 DEF CycleInv, ColoursMatchStack
    <3>. QED BY <1>3, <2>6, <3>2 DEF adj, DependentsIn
  <2>. QED BY <1>4, <2>3, <2>4, <2>5, <2>6 DEF ColoursMatchStack
<1>9. CallsProgress'
  <2>1. SUFFICES ASSUME NEW i \in 1..(m + 1), NEW c \in adj(stack'[i].node) \ stack'[i].rest
                 PROVE  \/ colour'[c] = "visited"
                        \/ i < Len(stack') /\ c = stack'[i + 1].node
    BY <1>1, <1>4 DEF CallsProgress
  <2>2. CASE i \in 1..m
    <3>1. \/ colour[c] = "visited"
          \/ i < m /\ c = base[i + 1].node
          \/ i = m /\ c = n
      BY <1>1, <2>1, <2>2 DEF m
    <3>2. CASE colour[c] = "visited" BY <1>3, <2>1, <3>2 DEF adj, DependentsIn
    <3>3. CASE i < m /\ c = base[i + 1].node
      <4>1. i + 1 \in 1..m /\ i < m + 1 BY <1>1, <2>2, <3>3
      <4>. QED BY <1>1, <3>3, <4>1
    <3>4. CASE i = m /\ c = n BY <1>1, <3>4
    <3>. QED BY <3>1, <3>2, <3>3, <3>4
  <2>3. CASE i = m + 1 BY <1>1, <2>1, <2>3
  <2>. QED BY <1>1, <2>2, <2>3
<1>10. VisitedAcyclic'
  <2>1. \A t \in Tasks : colour'[t] = "visited" => colour[t] = "visited" BY <1>3
  <2>. QED BY <2>1 DEF CycleInv, VisitedAcyclic
<1>11. VerdictCorrect' BY DEF VerdictCorrect
<1>12. CallsWithin'
  <2>1. \A i \in 1..m : base[i].rest \subseteq adj(base[i].node) BY DEF m
  <2>2. \A i \in 1..(m + 1) : i \in 1..m \/ i = m + 1 BY <1>1
  <2>. QED BY <1>1, <1>4, <2>1, <2>2 DEF CallsWithin
<1>. QED BY <1>7, <1>8, <1>9, <1>10, <1>11, <1>12 DEF CycleInv

LEMMA EnterKeepsInv ==
    ASSUME CycleInv, NEW n \in Tasks, Enter(n)
    PROVE  CycleInv'
<1>1. stack = <<>> /\ colour[n] = "unvisited" /\ verdict = "none" BY DEF Enter
<1>2. stack' = Append(<<>>, Call(n)) /\ colour' = [colour EXCEPT ![n] = "visiting"]
  BY DEF Enter
<1>3. <<>> \in Seq(Frame) /\ Len(<<>>) = 0 /\ Len(stack) = 0 BY <1>1
<1>4. UNCHANGED <<deps, verdict>> BY DEF Enter
<1>. DEFINE base == <<>>
<1>5. base \in Seq(Frame) /\ Len(base) = Len(stack) /\ ~(Len(base) > 0) BY <1>3
<1>6. \A i \in 1..Len(base) : FALSE BY <1>3
<1>7. stack' = Append(base, Call(n)) BY <1>2
<1>. HIDE DEF base
<1>. QED BY <1>1, <1>2, <1>4, <1>5, <1>6, <1>7, PushKeepsInv

LEMMA DescendKeepsInv ==
    ASSUME CycleInv, NEW n \in Tasks, Descend(n)
    PROVE  CycleInv'
<1>. DEFINE looked == Append(Caller, Looked(n))
             m == Len(stack)
<1>1. verdict = "none" /\ stack # <<>> /\ n \in Top.rest /\ deps' = deps BY DEF Descend
<1>2. /\ looked \in Seq(Frame)
      /\ Len(looked) = m
      /\ \A i \in 1..m : looked[i].node = stack[i].node
      /\ \A i \in 1..(m - 1) : looked[i] = stack[i]
      /\ looked[m].rest = Top.rest \ {n}
  BY <1>1, LookedParts DEF CycleInv
<1>3. m \in Nat \ {0} /\ Top = stack[m] /\ DOMAIN stack = 1..m /\ DOMAIN looked = 1..m
  BY <1>1, <1>2, StackParts DEF CycleInv, CycleTypeOK
<1>4. \A t : adj(t)' = adj(t) BY <1>1 DEF adj, DependentsIn
<1>10. m \in DOMAIN stack /\ ~(m < m) /\ m \in 1..m
  <2>. HIDE DEF m
  <2>. QED BY <1>3
<1>5. n \in adj(Top.node)
  <2>1. stack[m].rest \subseteq adj(stack[m].node) BY <1>10 DEF CycleInv, CallsWithin
  <2>. QED BY <1>1, <1>3, <2>1
<1>. HIDE DEF m
<1>6. ASSUME NEW i \in 1..m, NEW c \in adj(looked[i].node) \ looked[i].rest
      PROVE  \/ colour[c] = "visited"
             \/ i < m /\ c = looked[i + 1].node
             \/ i = m /\ c = n
  <2>1. CASE i = m
    <3>1. c \in adj(stack[m].node) /\ (c = n \/ c \notin stack[m].rest)
      BY <1>2, <1>3, <1>6, <2>1
    <3>2. c = n \/ colour[c] = "visited"
      BY <1>10, <3>1 DEF CycleInv, CallsProgress, m
    <3>. QED BY <2>1, <3>2
  <2>2. CASE i # m
    <3>1. i \in 1..(m - 1) /\ i + 1 \in 1..m /\ i < m BY <1>3, <2>2
    <3>4. i \in DOMAIN stack BY <1>3
    <3>2. c \in adj(stack[i].node) \ stack[i].rest BY <1>2, <1>6, <3>1
    <3>3. colour[c] = "visited" \/ c = stack[i + 1].node
      BY <3>1, <3>2, <3>4 DEF CycleInv, CallsProgress
    <3>. QED BY <1>2, <3>1, <3>3
  <2>. QED BY <2>1, <2>2
<1>. HIDE DEF looked
<1>7. CASE colour[n] = "visiting"
  <2>1. verdict' = "cyclic" /\ UNCHANGED <<deps, colour, stack>> BY <1>7 DEF Descend
  <2>2. ~Acyclic(deps) BY <1>1, <1>5, <1>7, BackEdgeIsCycle
  <2>3. VerdictCorrect' BY <2>1, <2>2 DEF VerdictCorrect
  <2>4. CycleTypeOK' BY <2>1 DEF CycleInv, CycleTypeOK
  <2>5. ColoursMatchStack' /\ CallsProgress' /\ CallsWithin' /\ VisitedAcyclic'
    BY <1>4, <2>1 DEF CycleInv, ColoursMatchStack, CallsProgress, CallsWithin, VisitedAcyclic
  <2>. QED BY <2>3, <2>4, <2>5 DEF CycleInv
<1>8. CASE colour[n] = "visited"
  <2>1. stack' = looked /\ UNCHANGED <<deps, colour, verdict>> BY <1>8 DEF Descend, looked
  <2>2. CycleTypeOK' BY <1>2, <2>1 DEF CycleInv, CycleTypeOK
  <2>3. {looked[i].node : i \in 1..m} = {stack[i].node : i \in 1..m} BY <1>2
  <2>4. \A i, k \in 1..m : looked[i].node = looked[k].node => i = k
    BY <1>2, <1>3 DEF CycleInv, ColoursMatchStack
  <2>5. \A i \in 1..m : i > 1 => looked[i].node \in adj(looked[i - 1].node)
    <3>1. \A i \in 1..m : i > 1 => i - 1 \in 1..m BY <1>3
    <3>. QED BY <1>2, <1>3, <3>1 DEF CycleInv, ColoursMatchStack
  <2>6. ColoursMatchStack'
    <3>1. DOMAIN stack' = 1..m /\ stack' = looked /\ colour' = colour BY <1>3, <2>1
    <3>2. {t \in Tasks : colour'[t] = "visiting"} = {stack'[i].node : i \in DOMAIN stack'}
      <4>1. {t \in Tasks : colour[t] = "visiting"} = {stack[i].node : i \in 1..m}
        BY <1>3, Zenon DEF CycleInv, ColoursMatchStack
      <4>2. {stack'[i].node : i \in DOMAIN stack'} = {looked[i].node : i \in 1..m}
        BY <3>1
      <4>. QED BY <2>3, <3>1, <4>1, <4>2
    <3>3. \A t \in Tasks : colour'[t] = "visited" => \A c \in adj(t) : colour'[c] = "visited"
      BY <3>1 DEF CycleInv, ColoursMatchStack
    <3>4. \A i, k \in DOMAIN stack' : stack'[i].node = stack'[k].node => i = k
      BY <2>4, <3>1
    <3>5. \A i \in DOMAIN stack' : i > 1 => stack'[i].node \in adj(stack'[i - 1].node)
      BY <2>5, <3>1
    <3>. QED BY <1>4, <3>2, <3>3, <3>4, <3>5 DEF ColoursMatchStack
  <2>7. CallsProgress'
    BY <1>2, <1>3, <1>4, <1>6, <1>8, <2>1 DEF CallsProgress
  <2>8. CallsWithin'
    <3>1. \A i \in 1..m : looked[i].rest \subseteq stack[i].rest BY <1>2, <1>3
    <3>. QED BY <1>2, <1>3, <1>4, <2>1, <3>1 DEF CycleInv, CallsWithin
  <2>9. VisitedAcyclic' /\ VerdictCorrect'
    BY <2>1 DEF CycleInv, VisitedAcyclic, VerdictCorrect
  <2>. QED BY <2>2, <2>6, <2>7, <2>8, <2>9 DEF CycleInv
<1>9. CASE colour[n] = "unvisited"
  <2>1. stack' = Append(looked, Call(n)) /\ colour' = [colour EXCEPT ![n] = "visiting"]
        /\ UNCHANGED <<deps, verdict>>
    BY <1>9 DEF Descend, looked
  <2>2. n \in adj(looked[m].node) BY <1>2, <1>3, <1>5
  <2>3. \A i \in 1..m : looked[i].rest \subseteq adj(looked[i].node)
    <3>1. \A i \in 1..m : looked[i].rest \subseteq stack[i].rest BY <1>2, <1>3
    <3>. QED BY <1>2, <1>3, <3>1 DEF CycleInv, CallsWithin
  <2>4. looked \in Seq(Frame) /\ Len(looked) = m /\ Len(stack) = m BY <1>2 DEF m
  <2>. QED BY <1>1, <1>2, <1>6, <1>9, <2>1, <2>2, <2>3, <2>4, PushKeepsInv
<1>. QED BY <1>7, <1>8, <1>9 DEF CycleInv, CycleTypeOK

LEMMA LeaveKeepsInv ==
    ASSUME CycleInv, Leave
    PROVE  CycleInv'
<1>. DEFINE m == Len(stack)
             n == Top.node
<1>1. stack # <<>> /\ Top.rest = {} /\ stack' = Caller /\ deps' = deps /\ verdict' = verdict
      /\ verdict = "none" /\ colour' = [colour EXCEPT ![n] = "visited"]
  BY DEF Leave
<1>2. /\ m \in Nat \ {0} /\ Top = stack[m] /\ n \in Tasks
      /\ stack' \in Seq(Frame) /\ Len(stack') = m - 1 /\ DOMAIN stack' = 1..(m - 1)
      /\ DOMAIN stack = 1..m
      /\ \A i \in 1..(m - 1) : stack'[i] = stack[i]
  BY <1>1, StackParts DEF CycleInv, CycleTypeOK, Frame
<1>3. \A t : adj(t)' = adj(t) BY <1>1 DEF adj, DependentsIn
<1>4. \A c \in Tasks : colour'[c] = IF c = n THEN "visited" ELSE colour[c]
  BY <1>1 DEF CycleInv, CycleTypeOK
<1>5. \A c \in adj(n) : colour[c] = "visited"
  <2>1. \A c \in adj(stack[m].node) \ stack[m].rest : colour[c] = "visited"
    BY <1>2 DEF CycleInv, CallsProgress
  <2>. QED BY <1>1, <1>2, <2>1
<1>6. CycleTypeOK' BY <1>1, <1>2 DEF CycleInv, CycleTypeOK
<1>7. \A i \in 1..(m - 1) : i \in 1..m /\ i < m BY <1>2
<1>. HIDE DEF m, n
<1>8. ColoursMatchStack'
  <2>1. {stack[i].node : i \in 1..(m - 1)} = {stack[i].node : i \in 1..m} \ {n}
    <3>1. 1..m = (1..(m - 1)) \cup {m} BY <1>2
    <3>2. \A i \in 1..(m - 1) : stack[i].node # n
      <4>1. m \in 1..m BY <1>2
      <4>2. \A i \in 1..(m - 1) : i # m /\ i \in DOMAIN stack /\ m \in DOMAIN stack
        BY <1>2, <1>7, <4>1
      <4>3. stack[m].node = n BY <1>2 DEF n
      <4>. QED BY <4>2, <4>3 DEF CycleInv, ColoursMatchStack
    <3>3. stack[m].node = n BY <1>2 DEF n
    <3>. QED BY <3>1, <3>2, <3>3
  <2>2. {c \in Tasks : colour'[c] = "visiting"} = {c \in Tasks : colour[c] = "visiting"} \ {n}
    BY <1>4
  <2>3. {c \in Tasks : colour'[c] = "visiting"} = {stack'[i].node : i \in DOMAIN stack'}
    <3>1. {stack'[i].node : i \in 1..(m - 1)} = {stack[i].node : i \in 1..(m - 1)} BY <1>2
    <3>. QED BY <1>2, <2>1, <2>2, <3>1 DEF CycleInv, ColoursMatchStack
  <2>4. \A i, k \in DOMAIN stack' : stack'[i].node = stack'[k].node => i = k
    BY <1>2, <1>7 DEF CycleInv, ColoursMatchStack
  <2>5. \A i \in DOMAIN stack' : i > 1 => stack'[i].node \in adj(stack'[i - 1].node)
    <3>1. \A i \in 1..(m - 1) : i > 1 => i - 1 \in 1..(m - 1) BY <1>2
    <3>. QED BY <1>2, <1>7, <3>1 DEF CycleInv, ColoursMatchStack
  <2>6. ASSUME NEW t \in Tasks, colour'[t] = "visited", NEW c \in adj(t)
        PROVE  colour'[c] = "visited"
    <3>1. colour[c] = "visited" BY <1>4, <1>5, <2>6 DEF CycleInv, ColoursMatchStack
    <3>. QED BY <1>4, <2>6, <3>1 DEF adj, DependentsIn
  <2>. QED BY <1>3, <2>3, <2>4, <2>5, <2>6 DEF ColoursMatchStack
<1>9. CallsProgress'
  <2>1. SUFFICES ASSUME NEW i \in 1..(m - 1), NEW c \in adj(stack[i].node) \ stack[i].rest
                 PROVE  \/ colour'[c] = "visited"
                        \/ i < m - 1 /\ c = stack'[i + 1].node
    BY <1>2, <1>3 DEF CallsProgress
  <2>2. colour[c] = "visited" \/ c = stack[i + 1].node
    BY <1>2, <1>7, <2>1 DEF CycleInv, CallsProgress, m
  <2>3. c \in Tasks BY DEF adj, DependentsIn
  <2>4. CASE colour[c] = "visited" BY <1>4, <2>3, <2>4
  <2>5. CASE c = stack[i + 1].node /\ i + 1 = m
    <3>1. c = n BY <1>2, <2>5 DEF n
    <3>. QED BY <1>4, <2>3, <3>1
  <2>6. CASE c = stack[i + 1].node /\ i + 1 # m
    <3>1. i + 1 \in 1..(m - 1) /\ i < m - 1 BY <1>2, <2>6
    <3>. QED BY <1>2, <2>6, <3>1
  <2>. QED BY <2>2, <2>4, <2>5, <2>6
<1>10. CallsWithin' BY <1>2, <1>3, <1>7 DEF CycleInv, CallsWithin
<1>11. VisitedAcyclic' BY LeaveKeepsVisitedAcyclic
<1>12. VerdictCorrect' BY <1>1 DEF VerdictCorrect
<1>. QED BY <1>6, <1>8, <1>9, <1>10, <1>11, <1>12 DEF CycleInv

(* When every task is visited, VisitedAcyclic speaks of the whole graph. *)
LEMMA AcceptKeepsInv ==
    ASSUME CycleInv, Accept
    PROVE  CycleInv'
<1>1. stack = <<>> /\ verdict' = "acyclic" /\ UNCHANGED <<deps, colour, stack>>
      /\ \A t \in Tasks : colour[t] # "unvisited"
  BY DEF Accept
<1>2. DOMAIN stack = {} BY <1>1
<1>3. \A t \in Tasks : colour[t] # "visiting" BY <1>2 DEF CycleInv, ColoursMatchStack
<1>4. \A t \in Tasks : colour[t] = "visited" BY <1>1, <1>3 DEF CycleInv, CycleTypeOK
<1>5. Acyclic(deps)
  <2>1. SUFFICES ASSUME NEW S \in SUBSET Tasks, S # {}
                 PROVE  \E t \in S : deps[t] \cap S = {}
    BY DEF Acyclic
  <2>2. \A t \in S : colour[t] = "visited" BY <1>4
  <2>. QED BY <2>1, <2>2 DEF CycleInv, VisitedAcyclic
<1>6. VerdictCorrect' BY <1>1, <1>5 DEF VerdictCorrect
<1>7. CycleTypeOK' BY <1>1 DEF CycleInv, CycleTypeOK
<1>8. ColoursMatchStack' /\ CallsProgress' /\ CallsWithin' /\ VisitedAcyclic'
  BY <1>1 DEF CycleInv, ColoursMatchStack, CallsProgress, CallsWithin, VisitedAcyclic, adj
<1>. QED BY <1>6, <1>7, <1>8 DEF CycleInv

(* The whole invariant of the search, of which the two theorems below are   *)
(* parts.                                                                   *)
LEMMA SearchInvariant == CycleSpec => []CycleInv
<1>1. CycleInit => CycleInv
  <2>. SUFFICES ASSUME CycleInit PROVE CycleInv OBVIOUS
  <2>1. DOMAIN stack = {} BY DEF CycleInit
  <2>2. CycleTypeOK BY DEF CycleInit, CycleTypeOK
  <2>3. ColoursMatchStack BY <2>1 DEF CycleInit, ColoursMatchStack
  <2>4. CallsProgress /\ CallsWithin BY <2>1 DEF CallsProgress, CallsWithin
  <2>5. VisitedAcyclic BY DEF CycleInit, VisitedAcyclic
  <2>6. VerdictCorrect BY DEF CycleInit, VerdictCorrect
  <2>. QED BY <2>2, <2>3, <2>4, <2>5, <2>6 DEF CycleInv
<1>2. CycleInv /\ [CycleNext]_cycleVars => CycleInv'
  <2>. SUFFICES ASSUME CycleInv, [CycleNext]_cycleVars PROVE CycleInv' OBVIOUS
  <2>1. CASE UNCHANGED cycleVars
    BY <2>1 DEF cycleVars, CycleInv, CycleTypeOK, ColoursMatchStack, CallsProgress, CallsWithin,
                VisitedAcyclic, VerdictCorrect, adj
  <2>. QED
    BY <2>1, EnterKeepsInv, DescendKeepsInv, LeaveKeepsInv, AcceptKeepsInv DEF CycleNext
<1>. QED BY <1>1, <1>2, PTL DEF CycleSpec

(* hasCycle answers correctly: it reports a cycle only in a graph that has  *)
(* one, and none only in a graph in which every set of tasks has one that   *)
(* can go first, for every number of tasks and every graph over them.       *)
THEOREM HasCycleCorrect == CycleSpec => []VerdictCorrect
<1>1. CycleInv => VerdictCorrect BY DEF CycleInv
<1>. QED BY <1>1, SearchInvariant, PTL

(* The nodes marked visiting are the calls on the stack, each a             *)
(* dependent of its caller, and what is marked visited leads to visited     *)
(* nodes only, in every graph and every order of traversal.                 *)
THEOREM ColoursMeanStack == CycleSpec => []ColoursMatchStack
<1>1. CycleInv => ColoursMatchStack BY DEF CycleInv
<1>. QED BY <1>1, SearchInvariant, PTL

=============================================================================
