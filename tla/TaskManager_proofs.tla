------------------------ MODULE TaskManager_proofs -------------------------
(***************************************************************************)
(* The stride bounds of TaskManager, for any number of tasks, any          *)
(* BIG_STRIDE and any priorities.                                          *)
(***************************************************************************)
EXTENDS TaskManager, SeqLemmas

\* What integer division is, in multiplications.
LEMMA DivFacts ==
    ASSUME NEW b \in Nat, NEW p \in Nat \ {0}
    PROVE  /\ b \div p \in Nat
           /\ (b \div p) * p <= b
           /\ b < (b \div p + 1) * p
BY Z3

\* A larger priority gives a smaller pass.
LEMMA DivMonotone ==
    ASSUME NEW b \in Nat, NEW p \in Nat \ {0}, NEW q \in Nat, p <= q
    PROVE  b \div q <= b \div p
<1> DEFINE x == b \div p
           y == b \div q
<1>1. x \in Nat /\ y \in Nat /\ b < (x + 1) * p /\ y * q <= b
  BY DivFacts
<1> HIDE DEF x, y
<1>2. SUFFICES ASSUME y >= x + 1 PROVE FALSE
  BY <1>1 DEF x, y
<1>3. (x + 1) * p <= y * p
  BY <1>1, <1>2
<1>4. y * p <= y * q
  BY <1>1
<1> QED BY <1>1, <1>3, <1>4

\* The passes of update_stride are at most MaxPass, and at least FairPass, which is
\* positive, for a fair priority.
LEMMA PassBounds ==
    ASSUME TypeOK, NEW t \in Task
    PROVE  /\ Pass(t) \in Nat /\ FairPass \in Nat \ {0} /\ MaxPass \in Nat
           /\ priority[t] <= FairPriority => FairPass <= Pass(t)
           /\ Pass(t) <= MaxPass /\ MaxPass <= BigStride
<1>0. /\ BigStride \in Nat /\ FairPriority \in 2..BigStride
      /\ priority \in [Task -> 2..MaxPriority] /\ MaxPriority \in Nat
  BY TaskManagerAssumption, Zenon DEF TypeOK
<1>1. /\ BigStride \in Nat \ {0} /\ FairPriority \in Nat \ {0} /\ FairPriority <= BigStride
      /\ priority[t] \in Nat \ {0} /\ 2 <= priority[t]
  BY <1>0
<1>2. /\ BigStride \div priority[t] \in Nat /\ BigStride \div FairPriority \in Nat
      /\ BigStride \div 2 \in Nat
  BY <1>1, DivFacts
<1>3. /\ priority[t] <= FairPriority => BigStride \div FairPriority <= BigStride \div priority[t]
      /\ BigStride \div priority[t] <= BigStride \div 2
      /\ BigStride \div BigStride <= BigStride \div FairPriority
  <2>1. 2 \in Nat \ {0} /\ priority[t] \in Nat /\ FairPriority \in Nat
    BY <1>1
  <2> QED BY <1>1, <2>1, DivMonotone
<1>4. BigStride \div 2 <= BigStride /\ BigStride \div BigStride = 1
  BY <1>1
<1> QED BY <1>2, <1>3, <1>4 DEF Pass, FairPass, MaxPass

-----------------------------------------------------------------------------

\* Rivals are other live tasks, and only a live task has rivals.
RivalsLive ==
    \A t \in Task : /\ rivals[t] \subseteq Live \ {t}
                    /\ rivals[t] # {} => t \in Live

\* Until a wrap-around: BoundedLead; each dispatch of a rival that passed counts has moved
\* it on by at least FairPass; a rival that was dispatched is at most a pass ahead.
Balance ==
    ~wrapped => \A t \in Task : \A u \in rivals[t] :
        /\ stride[t] - stride[u] <= MaxPass
        /\ passed[t][u] * FairPass <= stride[u] - stride[t] + MaxPass
        /\ passed[t][u] > 0 => stride[u] - stride[t] <= MaxPass

\* The inductive invariant.
IInv == TypeOK /\ RivalsLive /\ Balance

\* The queue holds the initial process alone: nobody has a rival.
LEMMA InitIInv == Init => IInv
<1> SUFFICES ASSUME Init PROVE IInv
  OBVIOUS
<1> USE TaskManagerAssumption DEF Init
<1>1. ready_queue \in Seq(Task) /\ ToSet(ready_queue) = {First} /\ IsInjective(ready_queue)
  BY ToSetFacts DEF ToSet, IsInjective
<1>2. /\ stride \in [Task -> 0..(Modulus - 1)] /\ priority \in [Task -> 2..MaxPriority]
      /\ passed \in [Task -> [Task -> Nat]]
  OBVIOUS
<1>3. rivals \in [Task -> SUBSET Task] /\ wrapped \in BOOLEAN
  BY Zenon
<1>4. current \in (Task \cup {None}) \ ToSet(ready_queue)
  BY <1>1
<1>5. TypeOK
  BY <1>1, <1>2, <1>3, <1>4, Zenon DEF TypeOK
<1> QED BY <1>5 DEF IInv, RivalsLive, Balance

\* fetch takes a task of minimal stride, so it is at most one pass ahead of each
\* task it leaves in the queue, and a rival it was chosen before was not behind it.
LEMMA FetchIInv == IInv /\ Fetch => IInv'
<1> SUFFICES ASSUME IInv, Fetch PROVE IInv'
  OBVIOUS
<1> USE TaskManagerAssumption
<1>0. TypeOK /\ RivalsLive /\ Balance /\ current = None
  BY DEF IInv, Fetch
<1>1. PICK i \in DOMAIN ready_queue :
        /\ IsNext(i)
        /\ UpdateStride(ready_queue[i])
        /\ Meet(ready_queue[i])
        /\ ready_queue' = RemoveAt(ready_queue, i)
        /\ current' = ready_queue[i]
        /\ priority' = priority
  BY DEF Fetch
<1> DEFINE t == ready_queue[i]
           s == stride[t] + Pass(t)
<1>2. /\ ready_queue \in Seq(Task) /\ IsInjective(ready_queue)
      /\ i \in 1..Len(ready_queue) /\ t \in Task /\ t \in ToSet(ready_queue)
      /\ ToSet(ready_queue) \subseteq Task
  <2>1. ready_queue \in Seq(Task) /\ IsInjective(ready_queue)
    BY <1>0, Zenon DEF TypeOK
  <2>2. /\ DOMAIN ready_queue = 1..Len(ready_queue)
        /\ ToSet(ready_queue) \subseteq Task
        /\ \A x : x \in ToSet(ready_queue)
                   <=> \E j \in 1..Len(ready_queue) : ready_queue[j] = x
    BY <2>1, ToSetFacts, Zenon
  <2>3. i \in 1..Len(ready_queue)
    BY <2>2, Zenon
  <2>4. t \in ToSet(ready_queue)
    BY <2>2, <2>3, Zenon
  <2> QED BY <2>1, <2>2, <2>3, <2>4, Zenon
<1>3. \A u \in ToSet(ready_queue) : stride[t] <= stride[u]
  BY <1>1, <1>2, ToSetFacts DEF IsNext
<1>4. /\ ready_queue' \in Seq(Task) /\ IsInjective(ready_queue')
      /\ ToSet(ready_queue') = ToSet(ready_queue) \ {t}
  BY <1>1, <1>2, RemoveAtSet
<1>5. /\ current' = t
      /\ stride' = [stride EXCEPT ![t] = IF s < Modulus THEN s ELSE s - Modulus]
      /\ wrapped' = (wrapped \/ s >= Modulus)
  BY <1>1 DEF UpdateStride
<1>6. Meet(t)
  BY <1>1
<1>7. /\ Pass(t) \in Nat /\ FairPass \in Nat /\ MaxPass \in Nat
      /\ priority[t] <= FairPriority => FairPass <= Pass(t)
      /\ Pass(t) <= MaxPass /\ MaxPass <= BigStride
  BY <1>0, <1>2, PassBounds
<1>8. Live' = Live /\ Live = ToSet(ready_queue)
  BY <1>0, <1>2, <1>4, <1>5 DEF Live
<1> HIDE DEF t, s
<1>9. /\ stride \in [Task -> 0..(Modulus - 1)] /\ rivals \in [Task -> SUBSET Task]
      /\ passed \in [Task -> [Task -> Nat]] /\ wrapped \in BOOLEAN
      /\ priority' \in [Task -> 2..MaxPriority]
  BY <1>0, <1>1 DEF TypeOK
<1>10. s \in Nat /\ s = stride[t] + Pass(t) /\ s < 2 * Modulus
  <2>1. stride[t] \in 0..(Modulus - 1)
    BY <1>2, <1>9, Zenon
  <2> QED BY <2>1, <1>7 DEF s
<1>11. stride' \in [Task -> 0..(Modulus - 1)] /\ wrapped' \in BOOLEAN
  <2>1. (IF s < Modulus THEN s ELSE s - Modulus) \in 0..(Modulus - 1)
    BY <1>10
  <2>2. stride \in [Task -> 0..(Modulus - 1)] /\ wrapped' \in BOOLEAN
    BY <1>5, <1>9, Zenon
  <2> QED BY <1>5, <2>1, <2>2
<1>12. rivals' \in [Task -> SUBSET Task] /\ passed' \in [Task -> [Task -> Nat]]
  <2>1. /\ rivals \in [Task -> SUBSET Task] /\ passed \in [Task -> [Task -> Nat]]
        /\ ToSet(ready_queue) \subseteq Task
    BY <1>2, <1>9, Zenon
  <2>2. CASE wrapped'
    BY <1>6, <2>2 DEF Meet
  <2>3. CASE ~wrapped'
    <3>1. rivals' = [rivals EXCEPT ![t] = ToSet(ready_queue) \ {t}]
      BY <1>6, <2>3 DEF Meet
    <3>2. \A v, u \in Task : passed[v][u] \in Nat /\ passed[v][u] + 1 \in Nat
      BY <2>1
    <3>3. passed' \in [Task -> [Task -> Nat]]
      BY <1>6, <2>3, <3>2 DEF Meet
    <3> QED BY <2>1, <3>1, <3>3
  <2> QED BY <2>2, <2>3
<1>13. TypeOK'
  BY <1>2, <1>4, <1>5, <1>9, <1>11, <1>12 DEF TypeOK
<1>14. RivalsLive'
  BY <1>0, <1>2, <1>6, <1>8, <1>9 DEF RivalsLive, Meet
<1>15. ASSUME ~wrapped', NEW v \in Task, NEW u \in rivals'[v]
       PROVE  /\ stride'[v] - stride'[u] <= MaxPass
              /\ passed'[v][u] * FairPass <= stride'[u] - stride'[v] + MaxPass
              /\ passed'[v][u] > 0 => stride'[u] - stride'[v] <= MaxPass
  <2>0. ~wrapped /\ ~(s >= Modulus)
    BY <1>5, <1>15, Zenon
  <2>1. ~wrapped /\ s < Modulus /\ stride' = [stride EXCEPT ![t] = s]
    <3>1. s < Modulus
      BY <1>10, <2>0
    <3> QED BY <1>5, <2>0, <3>1, Zenon
  <2>2. /\ rivals' = [rivals EXCEPT ![t] = ToSet(ready_queue) \ {t}]
        /\ passed' = [w \in Task |-> [x \in Task |->
                         IF w = t THEN 0
                         ELSE IF x = t /\ t \in rivals[w] /\ priority[t] <= FairPriority
                         THEN passed[w][x] + 1
                         ELSE passed[w][x]]]
    BY <1>6, <1>15 DEF Meet
  <2>3. u \in Task /\ u # v
    BY <1>2, <1>9, <1>12, <2>2, <1>14 DEF RivalsLive
  <2>4. CASE v = t
    <3>1. stride'[v] = s /\ stride'[u] = stride[u] /\ stride[t] <= stride[u] /\ passed'[v][u] = 0
      BY <1>2, <1>3, <1>9, <2>1, <2>2, <2>3, <2>4
    <3>2. 0 * FairPass = 0 /\ stride[u] \in Nat /\ stride[t] \in Nat
      BY <1>2, <1>7, <1>9, <2>3
    <3> QED BY <3>1, <3>2, <1>7, <1>10
  <2>5. CASE v # t
    <3>1. /\ u \in rivals[v] /\ stride'[v] = stride[v]
          /\ stride[v] \in Nat /\ stride[u] \in Nat /\ passed[v][u] \in Nat
      BY <1>2, <1>9, <2>1, <2>2, <2>3, <2>5
    <3>2. /\ stride[v] - stride[u] <= MaxPass
          /\ passed[v][u] * FairPass <= stride[u] - stride[v] + MaxPass
          /\ passed[v][u] > 0 => stride[u] - stride[v] <= MaxPass
      BY <1>0, <2>1, <3>1 DEF Balance
    <3>3. CASE u # t
      <4>1. stride'[u] = stride[u] /\ passed'[v][u] = passed[v][u]
        BY <1>2, <1>9, <2>1, <2>2, <2>3, <2>5, <3>3
      <4> QED BY <3>1, <3>2, <4>1
    <3>4. CASE u = t
      <4>1. stride'[u] = s
        BY <1>2, <1>9, <2>1, <3>4
      <4>2. v \in Live
        BY <1>0, <3>1 DEF RivalsLive
      <4>3. stride[u] <= stride[v]
        BY <1>3, <1>8, <4>2, <3>4
      <4>4. (passed[v][u] + 1) * FairPass = passed[v][u] * FairPass + FairPass
            /\ passed[v][u] * FairPass \in Int
        BY <3>1, <1>7
      <4>5. CASE priority[t] <= FairPriority
        <5>1. passed'[v][u] = passed[v][u] + 1
          BY <1>2, <2>2, <2>3, <2>5, <3>1, <3>4, <4>5
        <5> QED BY <3>1, <3>2, <3>4, <4>1, <4>3, <4>4, <4>5, <5>1, <1>7, <1>10
      <4>6. CASE ~(priority[t] <= FairPriority)
        <5>1. passed'[v][u] = passed[v][u]
          BY <1>2, <2>2, <2>3, <2>5, <3>1, <3>4, <4>6
        <5> QED BY <3>1, <3>2, <3>4, <4>1, <4>3, <4>4, <5>1, <1>7, <1>10
      <4> QED BY <4>5, <4>6
    <3> QED BY <3>3, <3>4
  <2> QED BY <2>4, <2>5
<1>16. MaxPass' = MaxPass /\ FairPass' = FairPass
  BY DEF MaxPass, FairPass
<1>17. Balance'
  BY <1>15, <1>16 DEF Balance
<1> QED BY <1>13, <1>14, <1>17 DEF IInv

\* Going back to the queue changes no stride.
LEMMA SuspendIInv == IInv /\ Suspend => IInv'
<1> SUFFICES ASSUME IInv, Suspend PROVE IInv'
  OBVIOUS
<1>0. TypeOK /\ RivalsLive /\ Balance
  BY DEF IInv
<1>1. /\ current \in Task /\ current \notin ToSet(ready_queue) /\ current # None
      /\ ready_queue \in Seq(Task) /\ IsInjective(ready_queue)
      /\ ready_queue' = Append(ready_queue, current) /\ current' = None
  BY <1>0, Zenon DEF TypeOK, Suspend
<1>2. /\ ready_queue' \in Seq(Task) /\ IsInjective(ready_queue')
      /\ ToSet(ready_queue') = ToSet(ready_queue) \cup {current}
  BY <1>1, AppendSet
<1>3. Live' = Live /\ None \notin ToSet(ready_queue')
  BY <1>1, <1>2, TaskManagerAssumption, ToSetFacts DEF Live
<1>4. TypeOK'
  BY <1>0, <1>1, <1>2, <1>3, Zenon DEF TypeOK, Suspend, history
<1>5. RivalsLive' /\ Balance'
  BY <1>0, <1>3, Zenon DEF RivalsLive, Balance, Suspend, history, MaxPass, FairPass
<1> QED BY <1>4, <1>5 DEF IInv

\* A task that fork or spawn creates is nobody's rival yet.
LEMMA NewTaskIInv ==
    ASSUME IInv, NEW c \in Task, NewTask(c)
    PROVE  IInv'
<1>0. TypeOK /\ RivalsLive /\ Balance
  BY DEF IInv
<1>1. /\ c \notin Live /\ c \notin ToSet(ready_queue) /\ c # current
      /\ ready_queue \in Seq(Task) /\ IsInjective(ready_queue)
      /\ ready_queue' = Append(ready_queue, c)
      /\ UNCHANGED <<current, rivals, passed, wrapped>>
  BY TaskManagerAssumption DEF TypeOK, IInv, NewTask, Live, history
<1>2. /\ ready_queue' \in Seq(Task) /\ IsInjective(ready_queue')
      /\ ToSet(ready_queue') = ToSet(ready_queue) \cup {c}
  BY <1>1, AppendSet
<1>3. Live' = Live \cup {c}
  BY <1>1, <1>2 DEF Live
<1>4. stride' \in [Task -> 0..(Modulus - 1)] /\ priority' \in [Task -> 2..MaxPriority]
  <2>1. 0 \in 0..(Modulus - 1) /\ InitPriority \in 2..MaxPriority
    BY TaskManagerAssumption
  <2>2. stride \in [Task -> 0..(Modulus - 1)] /\ priority \in [Task -> 2..MaxPriority]
    BY <1>0, Zenon DEF TypeOK
  <2> QED BY <2>1, <2>2 DEF NewTask
<1>5. current' \in (Task \cup {None}) \ ToSet(ready_queue')
  BY <1>0, <1>1, <1>2 DEF TypeOK
<1>6. TypeOK'
  BY <1>0, <1>1, <1>2, <1>4, <1>5, Zenon DEF TypeOK
<1>7. RivalsLive'
  BY <1>0, <1>1, <1>3 DEF RivalsLive
<1>8. \A t \in Task : \A u \in rivals[t] : stride'[t] = stride[t] /\ stride'[u] = stride[u]
  <2>1. \A t \in Task : \A u \in rivals[t] : t # c /\ u # c /\ u \in Task
    BY <1>0, <1>1 DEF RivalsLive, TypeOK
  <2>2. stride \in [Task -> 0..(Modulus - 1)] /\ stride' = [stride EXCEPT ![c] = 0]
    BY <1>0, Zenon DEF TypeOK, NewTask
  <2> QED BY <2>1, <2>2
<1>9. Balance'
  BY <1>0, <1>1, <1>8, Zenon DEF Balance, MaxPass, FairPass
<1> QED BY <1>6, <1>7, <1>9 DEF IInv

\* sys_set_priority changes later passes, never a stride.
LEMMA SetPriorityIInv ==
    ASSUME IInv, NEW p \in Asked, SetPriority(p)
    PROVE  IInv'
<1>0. TypeOK /\ RivalsLive /\ Balance
  BY DEF IInv
<1>1. p \in 2..MaxPriority
  BY TaskManagerAssumption DEF SetPriority
<1>2. /\ UNCHANGED <<ready_queue, current, stride, rivals, passed, wrapped>>
      /\ priority' = [priority EXCEPT ![current] = p]
      /\ priority \in [Task -> 2..MaxPriority]
  BY <1>0, Zenon DEF SetPriority, history, TypeOK
<1>3. priority' \in [Task -> 2..MaxPriority]
  BY <1>1, <1>2
<1>4. TypeOK'
  BY <1>0, <1>2, <1>3, Zenon DEF TypeOK
<1>5. RivalsLive' /\ Balance'
  BY <1>0, <1>2, Zenon DEF RivalsLive, Balance, MaxPass, FairPass, Live
<1> QED BY <1>4, <1>5 DEF IInv

\* A task that exits is no longer a rival.
LEMMA ExitIInv == IInv /\ Exit => IInv'
<1> SUFFICES ASSUME IInv, Exit PROVE IInv'
  OBVIOUS
<1>0. TypeOK /\ RivalsLive /\ Balance
  BY DEF IInv
<1>1. /\ current \in Task /\ current \notin ToSet(ready_queue) /\ current # None
      /\ current' = None
      /\ UNCHANGED <<ready_queue, stride, priority, wrapped>>
      /\ rivals \in [Task -> SUBSET Task]
      /\ rivals' = [t \in Task |-> IF t = current THEN {} ELSE rivals[t] \ {current}]
      /\ passed' = [t \in Task |-> [u \in Task |->
                      IF current \in {t, u} THEN 0 ELSE passed[t][u]]]
  BY <1>0, Zenon DEF TypeOK, Exit
<1>2. Live' = Live \ {current} /\ None \notin ToSet(ready_queue)
  BY <1>0, <1>1, TaskManagerAssumption, ToSetFacts DEF Live, TypeOK
<1>3. /\ rivals' \in [Task -> SUBSET Task]
      /\ \A t \in Task : \A u \in rivals'[t] :
            t # current /\ u # current /\ u \in Task /\ u \in rivals[t]
            /\ passed'[t][u] = passed[t][u]
  BY <1>1
<1>4. passed' \in [Task -> [Task -> Nat]]
  <2>1. \A t, u \in Task : passed[t][u] \in Nat /\ 0 \in Nat
    BY <1>0 DEF TypeOK
  <2> QED BY <1>1, <2>1
<1>5. TypeOK'
  BY <1>0, <1>1, <1>2, <1>3, <1>4, Zenon DEF TypeOK
<1>6. RivalsLive'
  BY <1>0, <1>1, <1>2 DEF RivalsLive
<1>7. Balance'
  BY <1>0, <1>1, <1>3, Zenon DEF Balance, MaxPass, FairPass
<1> QED BY <1>5, <1>6, <1>7 DEF IInv

-----------------------------------------------------------------------------

\* Every behaviour of the scheduler keeps the inductive invariant.
THEOREM Invariance == Spec => []IInv
<1>1. ASSUME IInv, [Next]_vars PROVE IInv'
  <2>1. CASE UNCHANGED vars
    BY <1>1, <2>1, Zenon DEF vars, IInv, TypeOK, RivalsLive, Balance, Live, MaxPass, FairPass
  <2>2. CASE Next
    BY <1>1, <2>2, FetchIInv, SuspendIInv, ExitIInv, NewTaskIInv, SetPriorityIInv, Zenon
       DEF Next
  <2> QED BY <1>1, <2>1, <2>2
<1> QED BY InitIInv, <1>1, PTL DEF Spec

\* The fields of the scheduler keep their types: in particular set_priority
\* and fetch never let a priority below 2 or a stride beyond usize in.
THEOREM TypeCorrect == Spec => []TypeOK
<1>1. IInv => TypeOK
  BY DEF IInv
<1> QED BY Invariance, <1>1, PTL

\* The lead of a task over those it was preferred to by fetch is at most
\* BIG_STRIDE / 2, for any number of tasks and any history of forks, exits and
\* set_priority calls, as long as no stride has wrapped.
THEOREM LeadBounded == Spec => []BoundedLead
<1>1. IInv => BoundedLead
  BY Zenon DEF IInv, Balance, BoundedLead
<1> QED BY Invariance, <1>1, PTL

\* Under fetch a waiting task is overtaken a bounded number of times by each task that was
\* there when it last ran and has a priority up to FairPriority, for every FairPriority up
\* to BIG_STRIDE.  FairPass is then at least 1 (PassBounds), so the number is bounded.
THEOREM BypassBounded == Spec => []BoundedBypass
<1>1. ASSUME IInv, ~wrapped, NEW t \in Task, NEW u \in rivals[t]
      PROVE  passed[t][u] * FairPass <= 2 * MaxPass
  <2>1. /\ passed[t][u] * FairPass <= stride[u] - stride[t] + MaxPass
        /\ passed[t][u] > 0 => stride[u] - stride[t] <= MaxPass
    BY <1>1, Zenon DEF IInv, Balance
  <2>2. TypeOK /\ u \in Task
    BY <1>1 DEF IInv, TypeOK
  <2>3. FairPass \in Nat /\ MaxPass \in Nat
    BY <2>2, PassBounds
  <2>4. stride[u] \in Int /\ stride[t] \in Int /\ passed[t][u] \in Nat
    BY <2>2 DEF TypeOK
  <2>5. CASE passed[t][u] = 0
    BY <2>3, <2>5
  <2>6. CASE passed[t][u] > 0
    <3>1. passed[t][u] * FairPass \in Int
      BY <2>3, <2>4
    <3> QED BY <2>1, <2>3, <2>4, <2>6, <3>1
  <2> QED BY <2>4, <2>5, <2>6
<1>2. IInv => BoundedBypass
  BY <1>1, Zenon DEF BoundedBypass
<1> QED BY Invariance, <1>2, PTL
=============================================================================
