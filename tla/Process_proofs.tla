--------------------------- MODULE Process_proofs ---------------------------
(***************************************************************************)
(* Proofs about Process for every number of process blocks.                *)
(***************************************************************************)
EXTENDS Process, SeqLemmas, FiniteSetTheorems

\* The children lists and the parent references describe one another, and
\* only processes that have not exited have children.
Family ==
    panic = "no" =>
        /\ INITPROC \in Live /\ status[INITPROC] # "Zombie"
        /\ \A p \in Task : IsInjective(children[p])
        /\ \A p \in Task : \A c \in ToSet(children[p]) :
                /\ c # INITPROC /\ c \in Live /\ parent[c] = p
                /\ p \in Live /\ status[p] # "Zombie"
        /\ \A c \in Live \ {INITPROC} :
                parent[c] \in Task /\ c \in ToSet(children[parent[c]])

\* The hart runs on the stack of the current task, and only a task that can
\* still run is suspended inside a read.
Control ==
    panic = "no" =>
        /\ current # None => cpu = current
        /\ \A t \in in_stdin : status[t] \in {"Ready", "Running"}

IInv ==
    /\ TypeOK
    /\ NoBookkeepingPanic
    /\ StatusMatchesPlace
    /\ Family
    /\ Control
    /\ PidsPartition
    /\ StackUnderfoot

-----------------------------------------------------------------------------

\* The state rust_main leaves satisfies the invariant.
LEMMA InitIInv == Init => IInv
<1> SUFFICES ASSUME Init PROVE IInv
  OBVIOUS
<1> USE ProcessAssumption
<1>1. ready_queue \in Seq(Task) /\ pid_recycled \in Seq(Nat)
      /\ \A p \in Task : children[p] \in Seq(Task)
  BY DEF Init
<1>2. TypeOK
  BY <1>1 DEF Init, TypeOK
<1>3. Live = {INITPROC}
  BY DEF Init, Live
<1>4. /\ ToSet(ready_queue) = {INITPROC} /\ IsInjective(ready_queue)
      /\ ToSet(pid_recycled) = {} /\ IsInjective(pid_recycled)
      /\ \A p \in Task : ToSet(children[p]) = {} /\ IsInjective(children[p])
  BY DEF Init, ToSet, IsInjective
<1>5. StatusMatchesPlace
  BY <1>4 DEF Init, StatusMatchesPlace
<1>6. Family
  BY <1>3, <1>4 DEF Init, Family
<1>7. PidsPartition
  BY <1>3, <1>4 DEF Init, PidsPartition
<1>8. StackUnderfoot /\ Control /\ NoBookkeepingPanic
  BY <1>3 DEF Init, StackUnderfoot, Control, NoBookkeepingPanic
<1> QED
  BY <1>2, <1>5, <1>6, <1>7, <1>8 DEF IInv

\* Nothing changes on a stutter or after a panic.
LEMMA UnchangedIInv == IInv /\ UNCHANGED vars => IInv'
BY DEF IInv, vars, TypeOK, NoBookkeepingPanic, StatusMatchesPlace, Family,
       Control, PidsPartition, StackUnderfoot, Live

\* schedule leaves everything but the stack the hart runs on.
LEMMA ScheduleIInv == IInv /\ Schedule => IInv'
BY DEF IInv, Schedule, pidVars, TypeOK, NoBookkeepingPanic,
       StatusMatchesPlace, Family, Control, PidsPartition, StackUnderfoot, Live

\* The running task goes back to the queue it is not in.
LEMMA SuspendIInv ==
    ASSUME IInv, NEW t \in Task, panic = "no", current = t, cpu = t, Suspend(t),
           in_stdin' \in {in_stdin, in_stdin \cup {t}}
    PROVE  IInv'
<1> USE ProcessAssumption
<1>1. t \notin ToSet(ready_queue) /\ status[t] = "Running"
  BY DEF IInv, StatusMatchesPlace, TypeOK
<1>2. /\ ready_queue' \in Seq(Task)
      /\ ToSet(ready_queue') = ToSet(ready_queue) \cup {t}
      /\ IsInjective(ready_queue')
  BY <1>1, AppendSet DEF IInv, TypeOK, StatusMatchesPlace, Suspend
<1>3. TypeOK'
  BY <1>2 DEF IInv, TypeOK, Suspend, pidVars
<1>4. Live' = Live
  BY <1>1 DEF Suspend, Live, IInv, TypeOK
<1>5. StatusMatchesPlace'
  BY <1>1, <1>2 DEF IInv, TypeOK, StatusMatchesPlace, Suspend
<1>6. Family'
  BY <1>1, <1>4 DEF IInv, TypeOK, Family, Suspend
<1>7. Control'
  BY <1>1 DEF IInv, TypeOK, Control, Suspend
<1>8. PidsPartition' /\ StackUnderfoot' /\ NoBookkeepingPanic'
  BY <1>4 DEF IInv, PidsPartition, StackUnderfoot, NoBookkeepingPanic,
              Suspend, pidVars
<1> QED
  BY <1>3, <1>5, <1>6, <1>7, <1>8 DEF IInv

\* A read that gets its character only drops sys_read's reference.
LEMMA StdinDoneIInv == ASSUME IInv, NEW t \in Task, StdinDone(t) PROVE IInv'
BY DEF IInv, StdinDone, pidVars, TypeOK, NoBookkeepingPanic,
       StatusMatchesPlace, Family, Control, PidsPartition, StackUnderfoot, Live

\* In the idle loop INITPROC is in the queue, so fetch finds a task.
LEMMA RunTasksIInv == IInv /\ RunTasks => IInv'
<1> SUFFICES ASSUME IInv, RunTasks PROVE IInv'
  OBVIOUS
<1> USE ProcessAssumption
<1>1. panic = "no" /\ cpu = None /\ current = None
  BY DEF RunTasks, IInv, Control, TypeOK
<1>2. INITPROC \in ToSet(ready_queue)
  BY <1>1 DEF IInv, Family, StatusMatchesPlace, TypeOK, Live
<1>3. ready_queue # <<>>
  BY <1>2 DEF ToSet
<1>4. PICK i \in DOMAIN ready_queue : Dispatch(i)
  BY <1>3 DEF RunTasks
<1> DEFINE t == ready_queue[i]
<1>5. i \in 1..Len(ready_queue) /\ t \in Task /\ t \in ToSet(ready_queue)
  <2>1. ready_queue \in Seq(Task)
    BY DEF IInv, TypeOK
  <2>2. /\ DOMAIN ready_queue = 1..Len(ready_queue) /\ ToSet(ready_queue) \subseteq Task
        /\ \A x : x \in ToSet(ready_queue)
                   <=> \E j \in 1..Len(ready_queue) : ready_queue[j] = x
    BY <2>1, ToSetFacts, Zenon
  <2>3. i \in 1..Len(ready_queue)
    BY <2>2, Zenon
  <2> QED BY <2>2, <2>3, Zenon
<1>6. status[t] = "Ready"
  BY <1>1, <1>5 DEF IInv, StatusMatchesPlace
<1>7. /\ ready_queue' \in Seq(Task)
      /\ ToSet(ready_queue') = ToSet(ready_queue) \ {t}
      /\ IsInjective(ready_queue')
  BY <1>1, <1>4, <1>5, RemoveAtSet DEF IInv, TypeOK, StatusMatchesPlace, Dispatch
<1>8. /\ status' = [status EXCEPT ![t] = "Running"]
      /\ current' = t /\ cpu' = t
      /\ UNCHANGED <<parent, children, in_stdin, panic, pidVars>>
  BY <1>4 DEF Dispatch
<1> HIDE DEF t
<1>9. TypeOK'
  BY <1>5, <1>7, <1>8 DEF IInv, TypeOK, pidVars
<1>10. Live' = Live
  BY <1>5, <1>6, <1>8 DEF Live, IInv, TypeOK
<1>11. StatusMatchesPlace'
  BY <1>1, <1>5, <1>6, <1>7, <1>8 DEF IInv, TypeOK, StatusMatchesPlace
<1>12. Family'
  BY <1>5, <1>6, <1>8, <1>10 DEF IInv, TypeOK, Family
<1>13. Control'
  BY <1>5, <1>8 DEF IInv, TypeOK, Control
<1>14. PidsPartition' /\ StackUnderfoot' /\ NoBookkeepingPanic'
  BY <1>5, <1>6, <1>8, <1>10
     DEF IInv, PidsPartition, StackUnderfoot, NoBookkeepingPanic, pidVars, Live
<1> QED
  BY <1>9, <1>11, <1>12, <1>13, <1>14 DEF IInv

\* A new pid is neither in use nor recycled, whichever way it is obtained.
LEMMA PidAllocFacts ==
    ASSUME IInv, panic = "no", PidAlloc
    PROVE  /\ NextPid \in Nat
           /\ \A t \in Live : pid[t] # NextPid
           /\ pid_current' \in Nat /\ pid_recycled' \in Seq(Nat)
           /\ IsInjective(pid_recycled')
           /\ NextPid \notin ToSet(pid_recycled')
           /\ ToSet(pid_recycled') \subseteq ToSet(pid_recycled)
           /\ ToSet(pid_recycled') \cup {NextPid} \cup {pid[t] : t \in Live}
                = 0..(pid_current' - 1)
<1>1. /\ pid_recycled \in Seq(Nat) /\ pid_current \in Nat /\ pid \in [Task -> Nat]
      /\ IsInjective(pid_recycled)
      /\ {pid[t] : t \in Live} \cap ToSet(pid_recycled) = {}
      /\ {pid[t] : t \in Live} \cup ToSet(pid_recycled) = 0..(pid_current - 1)
  BY DEF IInv, TypeOK, PidsPartition
<1>2. CASE pid_recycled = <<>>
  <2>1. /\ NextPid = pid_current /\ pid_current' = pid_current + 1
        /\ pid_recycled' = pid_recycled
    BY <1>2 DEF PidAlloc, NextPid
  <2>2. 0..(pid_current' - 1) = 0..(pid_current - 1) \cup {pid_current}
    BY <1>1, <2>1
  <2>3. pid_current \notin 0..(pid_current - 1)
    BY <1>1
  <2> QED BY <1>1, <2>1, <2>2, <2>3
<1>3. CASE pid_recycled # <<>>
  <2>1. /\ NextPid = Last(pid_recycled) /\ pid_recycled' = Front(pid_recycled)
        /\ pid_current' = pid_current
    BY <1>3 DEF PidAlloc, NextPid
  <2>2. /\ pid_recycled' \in Seq(Nat)
        /\ NextPid \in ToSet(pid_recycled)
        /\ ToSet(pid_recycled') = ToSet(pid_recycled) \ {NextPid}
        /\ IsInjective(pid_recycled')
    BY <1>1, <1>3, <2>1, FrontSet
  <2>3. NextPid \in Nat
    BY <1>1, <1>3, <2>1, FrontLastFacts
  <2> QED BY <1>1, <2>1, <2>2, <2>3
<1> QED
  BY <1>2, <1>3

\* fork and spawn add one process, at one place of one list.
LEMMA NewChildIInv ==
    ASSUME IInv, NEW t \in Task, NEW c \in Task, NewChild(t, c)
    PROVE  IInv'
<1> USE ProcessAssumption
<1>1. /\ panic = "no" /\ current = t /\ cpu = t /\ PidAlloc
      /\ c \notin Live /\ status[c] = "UnInit"
  BY DEF NewChild, InUser, Live
<1>2. /\ pid' = [pid EXCEPT ![c] = NextPid]
      /\ kstacks' = kstacks \cup {NextPid}
      /\ status' = [status EXCEPT ![c] = "Ready"]
      /\ parent' = [parent EXCEPT ![c] = t]
      /\ children' = [children EXCEPT ![t] = Append(@, c)]
      /\ ready_queue' = Append(ready_queue, c)
      /\ UNCHANGED <<current, cpu, in_stdin, panic>>
  BY DEF NewChild
<1>3. TypeOK
  BY DEF IInv
<1>4. status[t] = "Running" /\ t \in Live /\ t # c
  BY <1>1 DEF IInv, StatusMatchesPlace, Live
<1>5. Live' = Live \cup {c}
  BY <1>2, <1>3 DEF Live, TypeOK
<1>6. c \notin ToSet(ready_queue) /\ \A p \in Task : c \notin ToSet(children[p])
  BY <1>1 DEF IInv, StatusMatchesPlace, Family
<1>7. /\ ready_queue' \in Seq(Task)
      /\ ToSet(ready_queue') = ToSet(ready_queue) \cup {c}
      /\ IsInjective(ready_queue')
  BY <1>1, <1>2, <1>6, AppendSet DEF IInv, TypeOK, StatusMatchesPlace
<1>8. /\ children'[t] \in Seq(Task)
      /\ ToSet(children'[t]) = ToSet(children[t]) \cup {c}
      /\ IsInjective(children'[t])
      /\ \A p \in Task \ {t} : children'[p] = children[p]
  BY <1>1, <1>2, <1>6, AppendSet DEF IInv, TypeOK, Family
<1>9. /\ NextPid \in Nat
      /\ \A u \in Live : pid[u] # NextPid
      /\ pid_current' \in Nat /\ pid_recycled' \in Seq(Nat)
      /\ IsInjective(pid_recycled')
      /\ NextPid \notin ToSet(pid_recycled')
      /\ ToSet(pid_recycled') \subseteq ToSet(pid_recycled)
      /\ ToSet(pid_recycled') \cup {NextPid} \cup {pid[u] : u \in Live}
            = 0..(pid_current' - 1)
  BY <1>1, PidAllocFacts
<1>10. TypeOK'
  <2>1. children' \in [Task -> Seq(Task)]
    BY <1>2, <1>3, <1>8 DEF TypeOK
  <2> QED BY <1>2, <1>3, <1>7, <1>9, <2>1 DEF TypeOK
<1>11. StatusMatchesPlace'
  BY <1>1, <1>2, <1>4, <1>7 DEF IInv, TypeOK, StatusMatchesPlace
<1>12. Family'
  <2>1. INITPROC \in Live' /\ status'[INITPROC] # "Zombie"
    BY <1>1, <1>2, <1>3, <1>5 DEF IInv, Family, TypeOK
  <2>2. \A p \in Task : IsInjective(children'[p])
    BY <1>1, <1>8 DEF IInv, Family
  <2>3. ASSUME NEW p \in Task, NEW d \in ToSet(children'[p])
        PROVE  /\ d # INITPROC /\ d \in Live' /\ parent'[d] = p
               /\ p \in Live' /\ status'[p] # "Zombie"
    <3>1. CASE p = t /\ d = c
      BY <3>1, <1>1, <1>2, <1>3, <1>4, <1>5 DEF IInv, Family, TypeOK
    <3>2. CASE d \in ToSet(children[p])
      <4>1. /\ d # INITPROC /\ d \in Live /\ parent[d] = p
            /\ p \in Live /\ status[p] # "Zombie"
        BY <3>2, <1>1 DEF IInv, Family
      <4>2. d # c /\ p # c
        BY <4>1, <1>1
      <4> QED BY <4>1, <4>2, <1>2, <1>3, <1>5 DEF TypeOK, Live
    <3> QED BY <3>1, <3>2, <1>8
  <2>4. ASSUME NEW d \in Live' \ {INITPROC}
        PROVE  parent'[d] \in Task /\ d \in ToSet(children'[parent'[d]])
    <3>1. CASE d = c
      BY <3>1, <1>2, <1>3, <1>8 DEF TypeOK
    <3>2. CASE d # c
      <4>1. parent'[d] = parent[d] /\ parent[d] \in Task
            /\ d \in ToSet(children[parent[d]])
        BY <3>2, <1>1, <1>2, <1>3, <1>5 DEF IInv, Family, TypeOK, Live
      <4> QED BY <4>1, <1>8
    <3> QED BY <3>1, <3>2
  <2> QED BY <2>1, <2>2, <2>3, <2>4 DEF Family
<1>13. Control'
  BY <1>1, <1>2 DEF IInv, TypeOK, Control
<1>14. {pid'[u] : u \in Live'} = {pid[u] : u \in Live} \cup {NextPid}
  BY <1>1, <1>2, <1>3, <1>5 DEF TypeOK, Live
<1>15. PidsPartition'
  <2>1. \A u, v \in Live' : pid'[u] = pid'[v] => u = v
    BY <1>1, <1>2, <1>3, <1>5, <1>9 DEF IInv, PidsPartition, TypeOK, Live
  <2>2. {pid'[u] : u \in Live'} \cap ToSet(pid_recycled') = {}
    BY <1>1, <1>9, <1>14 DEF IInv, PidsPartition
  <2>3. {pid'[u] : u \in Live'} \cup ToSet(pid_recycled') = 0..(pid_current' - 1)
    BY <1>9, <1>14
  <2> QED BY <1>9, <2>1, <2>2, <2>3 DEF PidsPartition
<1>16. StackUnderfoot'
  BY <1>1, <1>2, <1>5, <1>14 DEF IInv, StackUnderfoot
<1>17. NoBookkeepingPanic'
  BY <1>2 DEF IInv, NoBookkeepingPanic
<1> QED
  BY <1>10, <1>11, <1>12, <1>13, <1>15, <1>16, <1>17 DEF IInv

\* The parent's list keeps an exiting process alive: dropping the processor's
\* reference does not free the stack the hart is running on.
LEMMA ExitKeepsTcb ==
    ASSUME IInv, NEW t \in Task, InUser(t), t # INITPROC
    PROVE  Holders(t) # {<<"current">>}
<1>1. status[t] = "Running" /\ t \in Live
  BY DEF IInv, StatusMatchesPlace, InUser, Live
<1>2. parent[t] \in Task /\ t \in ToSet(children[parent[t]])
  BY <1>1 DEF IInv, Family, InUser
<1>3. PICK i \in DOMAIN children[parent[t]] : children[parent[t]][i] = t
  BY <1>2 DEF ToSet
<1>4. <<"child", parent[t], i>> \in Holders(t)
  BY <1>2, <1>3 DEF Holders, Places
<1>5. <<"child", parent[t], i>> # <<"current">>
  OBVIOUS
<1> QED
  BY <1>4, <1>5

\* exit moves the children to INITPROC and leaves a zombie.
LEMMA SysExitIInv ==
    ASSUME IInv, NEW t \in Task, SysExit(t)
    PROVE  IInv'
<1> USE ProcessAssumption
<1>1. panic = "no" /\ current = t /\ cpu = t /\ t # INITPROC /\ t \notin in_stdin
  BY DEF SysExit, InUser
<1>2. Holders(t) # {<<"current">>}
  BY ExitKeepsTcb DEF SysExit
<1>3. /\ status' = [status EXCEPT ![t] = "Zombie"]
      /\ parent' = [c \in Task |-> IF c \in ToSet(children[t]) THEN INITPROC
                                   ELSE parent[c]]
      /\ children' = [children EXCEPT ![t] = <<>>,
                                      ![INITPROC] = @ \o children[t]]
      /\ current' = None
      /\ UNCHANGED <<ready_queue, cpu, in_stdin, panic, pid, pid_current,
                     pid_recycled, kstacks>>
  BY <1>2 DEF SysExit, Adopt, pidVars
<1>4. TypeOK
  BY DEF IInv
<1>5. status[t] = "Running" /\ t \in Live /\ t \notin ToSet(ready_queue)
  BY <1>1 DEF IInv, StatusMatchesPlace, Live
<1>6. Live' = Live
  BY <1>3, <1>4, <1>5 DEF Live, TypeOK
<1>7. ToSet(children[INITPROC]) \cap ToSet(children[t]) = {}
  BY <1>1 DEF IInv, Family
<1>8. /\ children'[t] = <<>>
      /\ children'[INITPROC] = children[INITPROC] \o children[t]
      /\ \A p \in Task \ {t, INITPROC} : children'[p] = children[p]
  BY <1>1, <1>3, <1>4 DEF TypeOK
<1>9. /\ children'[INITPROC] \in Seq(Task)
      /\ ToSet(children'[INITPROC])
            = ToSet(children[INITPROC]) \cup ToSet(children[t])
      /\ IsInjective(children'[INITPROC])
  <2>1. children[INITPROC] \in Seq(Task) /\ children[t] \in Seq(Task)
        /\ IsInjective(children[INITPROC]) /\ IsInjective(children[t])
    BY <1>1, <1>4 DEF IInv, Family, TypeOK
  <2> QED BY <1>7, <1>8, <2>1, ConcatSet
<1>10. children'[t] \in Seq(Task) /\ ToSet(children'[t]) = {}
       /\ IsInjective(children'[t])
  BY <1>8 DEF ToSet, IsInjective
<1>11. TypeOK'
  <2>1. children' \in [Task -> Seq(Task)]
    <3>1. children' = [p \in Task |-> children'[p]]
      BY <1>3, <1>4 DEF TypeOK
    <3>2. \A p \in Task : children'[p] \in Seq(Task)
      BY <1>4, <1>8, <1>9, <1>10 DEF TypeOK
    <3> QED BY <3>1, <3>2
  <2>2. parent' \in [Task -> Task \cup {None}]
    BY <1>3, <1>4 DEF TypeOK
  <2> QED BY <1>3, <1>4, <2>1, <2>2 DEF TypeOK
<1>12. StatusMatchesPlace'
  BY <1>1, <1>3, <1>4, <1>5 DEF IInv, TypeOK, StatusMatchesPlace
<1>13. Family'
  <2>1. INITPROC \in Live' /\ status'[INITPROC] # "Zombie"
    BY <1>1, <1>3, <1>4, <1>6 DEF IInv, Family, TypeOK
  <2>2. \A p \in Task : IsInjective(children'[p])
    BY <1>1, <1>8, <1>9, <1>10 DEF IInv, Family
  <2>3. ASSUME NEW p \in Task, NEW d \in ToSet(children'[p])
        PROVE  /\ d # INITPROC /\ d \in Live' /\ parent'[d] = p
               /\ p \in Live' /\ status'[p] # "Zombie"
    <3>1. CASE p = t
      BY <3>1, <1>10
    <3>2. CASE p = INITPROC
      <4>1. d \in ToSet(children[INITPROC]) \/ d \in ToSet(children[t])
        BY <3>2, <1>9
      <4>2. d # INITPROC /\ d \in Live
        BY <4>1, <1>1 DEF IInv, Family
      <4>3. parent'[d] = INITPROC
        BY <4>1, <4>2, <1>1, <1>3 DEF IInv, Family, Live
      <4> QED BY <3>2, <4>2, <4>3, <2>1, <1>6
    <3>3. CASE p # t /\ p # INITPROC
      <4>1. /\ d \in ToSet(children[p])
            /\ d # INITPROC /\ d \in Live /\ parent[d] = p
            /\ p \in Live /\ status[p] # "Zombie"
        BY <3>3, <1>1, <1>8 DEF IInv, Family
      <4>2. d \notin ToSet(children[t])
        BY <3>3, <4>1, <1>1 DEF IInv, Family
      <4> QED BY <3>3, <4>1, <4>2, <1>3, <1>4, <1>6 DEF TypeOK, Live
    <3> QED BY <3>1, <3>2, <3>3
  <2>4. ASSUME NEW d \in Live' \ {INITPROC}
        PROVE  parent'[d] \in Task /\ d \in ToSet(children'[parent'[d]])
    <3>1. d \in Live /\ d \in Task /\ parent[d] \in Task
          /\ d \in ToSet(children[parent[d]])
      BY <1>1, <1>6 DEF IInv, Family, Live
    <3>2. CASE d \in ToSet(children[t])
      BY <3>1, <3>2, <1>3, <1>9
    <3>3. CASE d \notin ToSet(children[t])
      <4>1. parent'[d] = parent[d] /\ parent[d] # t
        BY <3>1, <3>3, <1>3
      <4> QED BY <3>1, <4>1, <1>8, <1>9
    <3> QED BY <3>2, <3>3
  <2> QED BY <2>1, <2>2, <2>3, <2>4 DEF Family
<1>14. Control'
  BY <1>1, <1>3, <1>4 DEF IInv, TypeOK, Control
<1>15. PidsPartition' /\ StackUnderfoot' /\ NoBookkeepingPanic'
  BY <1>1, <1>3, <1>6 DEF IInv, PidsPartition, StackUnderfoot, NoBookkeepingPanic
<1> QED
  BY <1>11, <1>12, <1>13, <1>14, <1>15 DEF IInv

\* When INITPROC exits the kernel panics, and the invariant has nothing more to say.
LEMMA InitprocExitIInv == IInv /\ InitprocExit => IInv'
BY ProcessAssumption
   DEF IInv, InitprocExit, InUser, pidVars, TypeOK, NoBookkeepingPanic,
       StatusMatchesPlace, Family, Control, PidsPartition, StackUnderfoot

\* A zombie child is held by nothing but the list it is reaped from.
LEMMA ZombieHeldOnce ==
    ASSUME IInv, panic = "no", NEW t \in Task, NEW i \in DOMAIN children[t],
           status[children[t][i]] = "Zombie"
    PROVE  Holders(children[t][i]) = {<<"child", t, i>>}
<1> DEFINE c == children[t][i]
<1> USE ProcessAssumption
<1>1. c \in Task /\ c \in ToSet(children[t])
  BY DEF IInv, TypeOK, ToSet
<1>2. c # INITPROC /\ parent[c] = t
  BY <1>1 DEF IInv, Family
<1>3. c \notin ToSet(ready_queue) /\ current # c /\ c \notin in_stdin
  BY <1>1 DEF IInv, StatusMatchesPlace, Control
<1>4. Places(ready_queue, c) = {}
  BY <1>3 DEF Places, ToSet
<1>5. Places(children[t], c) = {i}
  BY DEF Places, IInv, Family, IsInjective
<1>6. \A p \in Task \ {t} : Places(children[p], c) = {}
  BY <1>2 DEF Places, IInv, Family, ToSet
<1> HIDE DEF c
<1>7. UNION {{<<"child", p, j>> : j \in Places(children[p], c)} : p \in Task}
        = {<<"child", t, i>>}
  BY <1>5, <1>6
<1>8. {<<"queue", j>> : j \in Places(ready_queue, c)} = {}
  BY <1>4
<1>9. Holders(c) = {<<"child", t, i>>}
  BY <1>2, <1>3, <1>7, <1>8 DEF Holders
<1> QED
  BY <1>9 DEF c

\* A panic that a program asked for leaves the invariant, which speaks of a running kernel.
LEMMA StopIInv ==
    ASSUME IInv, NEW why \in AskedFor, Stop(why)
    PROVE  IInv'
BY DEF IInv, Stop, AskedFor, pidVars, TypeOK, NoBookkeepingPanic, StatusMatchesPlace, Family,
       Control, PidsPartition, StackUnderfoot

\* waitpid frees one zombie and gives its pid and its stack back.
LEMMA ReapIInv ==
    ASSUME IInv, NEW t \in Task, NEW i \in DOMAIN children[t], InUser(t),
           status[children[t][i]] = "Zombie", Reap(t, i)
    PROVE  IInv'
<1> USE ProcessAssumption
<1> DEFINE c == children[t][i]
<1>2. panic = "no" /\ current = t /\ cpu = t /\ t \notin in_stdin
  BY DEF InUser
<1>3. TypeOK
  BY DEF IInv
<1>4. /\ c \in Task /\ c \in ToSet(children[t]) /\ i \in 1..Len(children[t])
      /\ children[t] \in Seq(Task) /\ IsInjective(children[t])
  BY <1>2, <1>3 DEF IInv, Family, TypeOK, ToSet
<1>5. /\ status[t] = "Running" /\ t \in Live /\ t # c
      /\ c # INITPROC /\ c \in Live /\ parent[c] = t
  BY <1>2, <1>4 DEF IInv, Family, StatusMatchesPlace, Live
<1>7. CanDealloc(pid[c])
  <2>1. pid[c] \in 0..(pid_current - 1) /\ pid[c] \notin ToSet(pid_recycled)
    BY <1>2, <1>5 DEF IInv, PidsPartition
  <2> QED BY <2>1, <1>3 DEF CanDealloc, TypeOK
<1>8. /\ children' = [children EXCEPT ![t] = RemoveAt(children[t], i), ![c] = <<>>]
      /\ status' = [status EXCEPT ![c] = "UnInit"]
      /\ parent' = [parent EXCEPT ![c] = None]
      /\ panic' = "no"
      /\ pid_recycled' = Append(pid_recycled, pid[c])
      /\ kstacks' = kstacks \ {pid[c]}
      /\ pid' = [pid EXCEPT ![c] = 0]
      /\ UNCHANGED <<pid_current, ready_queue, current, cpu, in_stdin>>
  BY <1>7 DEF Reap, DropTcb
<1>9. status[c] = "Zombie"
  OBVIOUS
<1> HIDE DEF c
<1>10. Live' = Live \ {c}
  BY <1>3, <1>4, <1>8 DEF Live, TypeOK
<1>11. /\ children'[t] = RemoveAt(children[t], i) /\ children'[c] = <<>>
       /\ \A q \in Task \ {t, c} : children'[q] = children[q]
  BY <1>3, <1>4, <1>5, <1>8 DEF TypeOK
<1>12. /\ children'[t] \in Seq(Task)
       /\ ToSet(children'[t]) = ToSet(children[t]) \ {c}
       /\ IsInjective(children'[t])
  BY <1>4, <1>11, RemoveAtSet DEF c
<1>13. children'[c] \in Seq(Task) /\ ToSet(children'[c]) = {}
       /\ IsInjective(children'[c])
  BY <1>11 DEF ToSet, IsInjective
<1>14. /\ pid_recycled' \in Seq(Nat)
       /\ ToSet(pid_recycled') = ToSet(pid_recycled) \cup {pid[c]}
       /\ IsInjective(pid_recycled')
  <2>1. pid[c] \in Nat /\ pid_recycled \in Seq(Nat) /\ IsInjective(pid_recycled)
        /\ pid[c] \notin ToSet(pid_recycled)
    BY <1>2, <1>3, <1>4, <1>7 DEF TypeOK, CanDealloc, IInv, PidsPartition
  <2> QED BY <2>1, <1>8, AppendSet
<1>15. TypeOK'
  <2>1. children' \in [Task -> Seq(Task)]
    <3>1. children' = [q \in Task |-> children'[q]]
      BY <1>3, <1>8 DEF TypeOK
    <3>2. \A q \in Task : children'[q] \in Seq(Task)
      BY <1>3, <1>11, <1>12, <1>13 DEF TypeOK
    <3> QED BY <3>1, <3>2
  <2> QED BY <1>3, <1>8, <1>14, <2>1 DEF TypeOK
<1>16. StatusMatchesPlace'
  BY <1>2, <1>3, <1>4, <1>5, <1>8, <1>9 DEF IInv, TypeOK, StatusMatchesPlace
<1>17. Family'
  <2>1. INITPROC \in Live' /\ status'[INITPROC] # "Zombie"
    BY <1>2, <1>3, <1>5, <1>8, <1>10 DEF IInv, Family, TypeOK
  <2>2. \A q \in Task : IsInjective(children'[q])
    BY <1>2, <1>11, <1>12, <1>13 DEF IInv, Family
  <2>3. ASSUME NEW q \in Task, NEW d \in ToSet(children'[q])
        PROVE  /\ d # INITPROC /\ d \in Live' /\ parent'[d] = q
               /\ q \in Live' /\ status'[q] # "Zombie"
    <3>1. q # c /\ d \in ToSet(children[q])
      BY <1>11, <1>12, <1>13
    <3>2. /\ d # INITPROC /\ d \in Live /\ parent[d] = q
          /\ q \in Live /\ status[q] # "Zombie"
      BY <3>1, <1>2 DEF IInv, Family
    <3>3. d # c
      BY <3>1, <3>2, <1>5, <1>12
    <3> QED BY <3>1, <3>2, <3>3, <1>3, <1>8, <1>10 DEF TypeOK, Live
  <2>4. ASSUME NEW d \in Live' \ {INITPROC}
        PROVE  parent'[d] \in Task /\ d \in ToSet(children'[parent'[d]])
    <3>1. d # c /\ parent[d] \in Task /\ d \in ToSet(children[parent[d]])
      BY <1>2, <1>10 DEF IInv, Family
    <3>2. parent[d] # c
      BY <3>1, <1>2, <1>9 DEF IInv, Family
    <3>3. parent'[d] = parent[d]
      BY <3>1, <1>3, <1>8, <1>10 DEF TypeOK, Live
    <3> QED BY <3>1, <3>2, <3>3, <1>11, <1>12
  <2> QED BY <2>1, <2>2, <2>3, <2>4 DEF Family
<1>18. Control'
  BY <1>2, <1>3, <1>8, <1>9 DEF IInv, TypeOK, Control
<1>19. \A u \in Live' : u # c /\ u \in Live /\ pid'[u] = pid[u]
  BY <1>3, <1>8, <1>10 DEF TypeOK, Live
<1>20. {pid'[u] : u \in Live'} = {pid[u] : u \in Live} \ {pid[c]}
  <2>1. \A u \in Live \ {c} : pid[u] # pid[c]
    BY <1>2, <1>5 DEF IInv, PidsPartition
  <2> QED BY <2>1, <1>10, <1>19
<1>21. PidsPartition'
  <2>1. \A u, v \in Live' : pid'[u] = pid'[v] => u = v
    BY <1>2, <1>19 DEF IInv, PidsPartition
  <2>2. {pid'[u] : u \in Live'} \cap ToSet(pid_recycled') = {}
    BY <1>2, <1>14, <1>20 DEF IInv, PidsPartition
  <2>3. {pid'[u] : u \in Live'} \cup ToSet(pid_recycled') = 0..(pid_current' - 1)
    BY <1>2, <1>5, <1>8, <1>14, <1>20 DEF IInv, PidsPartition
  <2> QED BY <1>14, <2>1, <2>2, <2>3 DEF PidsPartition
<1>22. StackUnderfoot'
  BY <1>2, <1>5, <1>8, <1>10, <1>20 DEF IInv, StackUnderfoot
<1>23. NoBookkeepingPanic'
  BY <1>8 DEF NoBookkeepingPanic
<1> QED
  BY <1>15, <1>16, <1>17, <1>18, <1>21, <1>22, <1>23 DEF IInv

\* waitpid reaps, or stops because of its pointer; its assert holds.
LEMMA SysWaitpidIInv ==
    ASSUME IInv, NEW t \in Task, NEW p, SysWaitpid(t, p)
    PROVE  IInv'
<1>1. PICK i \in DOMAIN children[t] :
        LET count == Cardinality(Holders(children[t][i])) IN
        /\ InUser(t) /\ status[children[t][i]] = "Zombie"
        /\ \/ count # 1 /\ Stop("strong_count")
           \/ count = 1 /\ Stop("bad_pointer")
           \/ count = 1 /\ Reap(t, i)
  BY DEF SysWaitpid, FirstZombie
<1>2. Cardinality(Holders(children[t][i])) = 1
  <2>1. Holders(children[t][i]) = {<<"child", t, i>>}
    BY <1>1, ZombieHeldOnce DEF InUser
  <2>2. Cardinality({<<"child", t, i>>}) = 1
    BY FS_Singleton
  <2> QED BY <2>1, <2>2
<1>3. CASE Stop("bad_pointer")
  BY <1>3, StopIInv DEF AskedFor
<1>4. CASE Reap(t, i)
  BY <1>1, <1>4, ReapIInv
<1> QED BY <1>1, <1>2, <1>3, <1>4

-----------------------------------------------------------------------------

\* Every step of the kernel keeps the invariant.
LEMMA NextIInv == IInv /\ [Next]_vars => IInv'
<1> SUFFICES ASSUME IInv, [Next]_vars PROVE IInv'
  OBVIOUS
<1>1. CASE Schedule
  BY <1>1, ScheduleIInv
<1>2. CASE RunTasks
  BY <1>2, RunTasksIInv
<1>3. CASE InitprocExit
  BY <1>3, InitprocExitIInv
<1>4. CASE Halted \/ UNCHANGED vars
  BY <1>4, UnchangedIInv DEF Halted
<1>5. ASSUME NEW t \in Task, SysYield(t) \/ SysReadStdin(t) \/ StdinRetry(t)
      PROVE  IInv'
  BY <1>5, SuspendIInv DEF SysYield, SysReadStdin, StdinRetry, InUser
<1>6. ASSUME NEW t \in Task, StdinDone(t)
      PROVE  IInv'
  BY <1>6, StdinDoneIInv
<1>7. ASSUME NEW t \in Task, SysExit(t)
      PROVE  IInv'
  BY <1>7, SysExitIInv
<1>8. ASSUME NEW t \in Task, NEW c \in Task, SysFork(t, c) \/ SysSpawn(t, c)
      PROVE  IInv'
  BY <1>8, NewChildIInv DEF SysFork, SysSpawn
<1>9. ASSUME NEW t \in Task, NEW p, SysWaitpid(t, p)
      PROVE  IInv'
  BY <1>9, SysWaitpidIInv
<1>10. ASSUME NEW t \in Task, ProgramStops(t)
       PROVE  IInv'
  BY <1>10, StopIInv DEF ProgramStops
<1> QED
  BY <1>1, <1>2, <1>3, <1>4, <1>5, <1>6, <1>7, <1>8, <1>9, <1>10 DEF Next

\* The inductive invariant holds in every reachable state.
THEOREM Invariance == Spec => []IInv
BY InitIInv, NextIInv, PTL DEF Spec

\* The kernel's variables keep their types, for any number of processes.
THEOREM TypeCorrect == Spec => []TypeOK
<1>1. IInv => TypeOK
  BY DEF IInv
<1> QED
  BY <1>1, Invariance, PTL

\* No assert of waitpid or of the pid allocator fails and fetch never meets an
\* empty queue, for any number of processes; what can still stop the kernel here is
\* INITPROC's exit or what a program asks for.
THEOREM BookkeepingSound == Spec => []NoBookkeepingPanic
<1>1. IInv => NoBookkeepingPanic
  BY DEF IInv
<1> QED
  BY <1>1, Invariance, PTL

\* The status of a task says whether it is queued, running or neither.
THEOREM PlacesCorrect == Spec => []StatusMatchesPlace
<1>1. IInv => StatusMatchesPlace
  BY DEF IInv
<1> QED
  BY <1>1, Invariance, PTL

\* Pids are never shared or lost, over any history of forks and reaps.
THEOREM PidsCorrect == Spec => []PidsPartition
<1>1. IInv => PidsPartition
  BY DEF IInv
<1> QED
  BY <1>1, Invariance, PTL

\* The hart never stands on an unmapped kernel stack.
THEOREM StacksCorrect == Spec => []StackUnderfoot
<1>1. IInv => StackUnderfoot
  BY DEF IInv
<1> QED
  BY <1>1, Invariance, PTL

\* Every process has exactly one owner, which can still wait for it.
THEOREM OwnershipCorrect == Spec => []OwnedByParent
<1>1. IInv => OwnedByParent
  <2> SUFFICES ASSUME IInv, panic = "no", NEW c \in Live \ {INITPROC}
               PROVE  /\ parent[c] \in Live /\ status[parent[c]] # "Zombie"
                      /\ \A p \in Task : Cardinality(Places(children[p], c))
                                          = IF p = parent[c] THEN 1 ELSE 0
    BY DEF OwnedByParent
  <2>1. parent[c] \in Task /\ c \in ToSet(children[parent[c]])
    BY DEF IInv, Family
  <2>2. parent[c] \in Live /\ status[parent[c]] # "Zombie"
    BY <2>1 DEF IInv, Family
  <2>3. PICK i \in DOMAIN children[parent[c]] : children[parent[c]][i] = c
    BY <2>1 DEF ToSet
  <2>4. Places(children[parent[c]], c) = {i}
    BY <2>1, <2>3 DEF Places, IInv, Family, IsInjective
  <2>5. Cardinality(Places(children[parent[c]], c)) = 1
    BY <2>4, FS_Singleton
  <2>6. ASSUME NEW p \in Task, p # parent[c]
        PROVE  Cardinality(Places(children[p], c)) = 0
    <3>1. Places(children[p], c) = {}
      BY <2>6 DEF Places, IInv, Family, ToSet
    <3> QED BY <3>1, FS_EmptySet
  <2> QED BY <2>2, <2>5, <2>6
<1> QED
  BY <1>1, Invariance, PTL

\* A process keeps its parent, or is adopted by INITPROC, or is new and has a parent that
\* was there before.
LEMMA TreeStep ==
    ASSUME IInv, [Next]_vars, panic' = "no", NEW c \in Live' \ {INITPROC}
    PROVE  /\ panic = "no"
           /\ \/ c \in Live /\ parent'[c] = parent[c]
              \/ parent'[c] = INITPROC
              \/ c \notin Live /\ parent'[c] \in Live
<1> USE ProcessAssumption
<1>1. c \in Task /\ status'[c] # "UnInit" /\ TypeOK
  BY DEF Live, IInv
<1>2. CASE Schedule \/ UNCHANGED vars
  BY <1>1, <1>2 DEF Schedule, vars, Live
<1>3. CASE RunTasks
  <2>1. PICK i \in DOMAIN ready_queue : panic = "no" /\ Dispatch(i)
    BY <1>3 DEF RunTasks, FetchFromEmpty, Stop
  <2>2. status[ready_queue[i]] = "Ready"
    <3>1. ready_queue[i] \in Task /\ ready_queue[i] \in ToSet(ready_queue)
      BY <1>1 DEF TypeOK, ToSet
    <3> QED BY <2>1, <3>1 DEF IInv, StatusMatchesPlace
  <2>3. c \in Live
    BY <1>1, <2>1, <2>2 DEF Dispatch, TypeOK, Live
  <2> QED BY <2>1, <2>3 DEF Dispatch
<1>4. CASE InitprocExit \/ Halted
  BY <1>4, <1>1 DEF InitprocExit, Halted, vars, Live
<1>5. ASSUME NEW t \in Task, SysYield(t) \/ SysReadStdin(t) \/ StdinRetry(t)
      PROVE  panic = "no" /\ c \in Live /\ parent'[c] = parent[c]
  <2>1. panic = "no" /\ status[t] = "Running" /\ parent' = parent
        /\ status' = [status EXCEPT ![t] = "Ready"]
    BY <1>5 DEF SysYield, SysReadStdin, StdinRetry, InUser, Suspend, IInv, StatusMatchesPlace
  <2> QED BY <1>1, <2>1 DEF Live, TypeOK
<1>6. ASSUME NEW t \in Task, StdinDone(t)
      PROVE  panic = "no" /\ c \in Live /\ parent'[c] = parent[c]
  BY <1>1, <1>6 DEF StdinDone, Live
<1>7. ASSUME NEW t \in Task, SysExit(t)
      PROVE  panic = "no" /\ c \in Live /\ parent'[c] \in {parent[c], INITPROC}
  <2>1. panic = "no" /\ status[t] = "Running"
    BY <1>7 DEF SysExit, InUser, IInv, StatusMatchesPlace
  <2>2. \E x : status' = [status EXCEPT ![t] = x]
    BY <1>7, Zenon DEF SysExit
  <2>3. c \in Live
    BY <1>1, <2>1, <2>2 DEF Live, TypeOK
  <2> QED BY <1>1, <1>7, <2>1, <2>3 DEF SysExit, Adopt
<1>8. ASSUME NEW t \in Task, NEW d \in Task, SysFork(t, d) \/ SysSpawn(t, d)
      PROVE  /\ panic = "no"
             /\ \/ c \in Live /\ parent'[c] = parent[c]
                \/ c \notin Live /\ parent'[c] \in Live
  <2>1. /\ panic = "no" /\ status[t] = "Running" /\ d \notin Live
        /\ status' = [status EXCEPT ![d] = "Ready"] /\ parent' = [parent EXCEPT ![d] = t]
    BY <1>8 DEF SysFork, SysSpawn, NewChild, InUser, IInv, StatusMatchesPlace
  <2>2. CASE c = d
    BY <1>1, <2>1, <2>2 DEF Live, TypeOK
  <2>3. CASE c # d
    BY <1>1, <2>1, <2>3 DEF Live, TypeOK
  <2> QED BY <2>2, <2>3
<1>9. ASSUME NEW t \in Task, NEW p, SysWaitpid(t, p)
      PROVE  panic = "no" /\ c \in Live /\ parent'[c] = parent[c]
  <2>1. PICK i \in DOMAIN children[t] :
          /\ panic = "no" /\ status[children[t][i]] = "Zombie"
          /\ \/ UNCHANGED <<status, parent>>
             \/ /\ status' = [status EXCEPT ![children[t][i]] = "UnInit"]
                /\ parent' = [parent EXCEPT ![children[t][i]] = None]
    BY <1>9 DEF SysWaitpid, FirstZombie, InUser, Stop, Reap
  <2> QED BY <1>1, <2>1 DEF Live, TypeOK
<1>10. ASSUME NEW t \in Task, ProgramStops(t)
       PROVE  FALSE
  BY <1>10 DEF ProgramStops, Stop, AskedFor
<1> QED
  BY <1>2, <1>3, <1>4, <1>5, <1>6, <1>7, <1>8, <1>9, <1>10 DEF Next

\* Forks add leaves to the tree of processes and exits hang subtrees below INITPROC: no
\* order of them makes a cycle, for any number of processes.
THEOREM TreeRooted == Spec => []RootedAtInitproc
<1>1. ASSUME Init PROVE RootedAtInitproc
  <2>1. Live \subseteq {INITPROC}
    BY <1>1 DEF Init, Live
  <2> QED BY <2>1 DEF RootedAtInitproc
<1>2. ASSUME IInv, IInv', RootedAtInitproc, [Next]_vars PROVE RootedAtInitproc'
  <2> SUFFICES ASSUME panic' = "no", NEW S \in SUBSET (Live' \ {INITPROC}), S # {}
               PROVE  \E c \in S : parent'[c] \in Live' \ S
    BY DEF RootedAtInitproc
  <2>1. /\ INITPROC \in Live' \ S
        /\ \A c \in S : c \in Live' \ {INITPROC} /\ parent'[c] \in Live'
    BY <1>2 DEF IInv, Family
  <2>2. /\ panic = "no"
        /\ \A c \in S : \/ c \in Live /\ parent'[c] = parent[c]
                        \/ parent'[c] = INITPROC
                        \/ c \notin Live /\ parent'[c] \in Live
    BY <1>2, <2>1, TreeStep
  <2>3. CASE S \cap Live = {}
    BY <2>1, <2>2, <2>3
  <2>4. CASE S \cap Live # {}
    <3>1. PICK c \in S \cap Live : parent[c] \in Live \ (S \cap Live)
      <4>1. S \cap Live \in SUBSET (Live \ {INITPROC})
        OBVIOUS
      <4> QED BY <1>2, <2>2, <2>4, <4>1, Zenon DEF RootedAtInitproc
    <3> QED BY <2>1, <2>2, <3>1
  <2> QED BY <2>3, <2>4
<1> QED BY <1>1, <1>2, Invariance, PTL DEF Spec

\* Only waitpid of the parent ends a process, and only after its exit.
THEOREM FreedOnlyByParent == Spec => FreedByParent
<1> DEFINE Step == \A c \in Task : c \in Live /\ c \notin Live' =>
                        status[c] = "Zombie" /\ parent[c] = current
<1>1. IInv /\ [Next]_vars => [Step]_vars
  <2> SUFFICES ASSUME IInv, Next, NEW c \in Task, c \in Live, c \notin Live'
               PROVE  status[c] = "Zombie" /\ parent[c] = current
    OBVIOUS
  <2>1. status[c] # "UnInit" /\ status'[c] = "UnInit" /\ TypeOK
    BY DEF Live, IInv
  <2>2. CASE Schedule \/ InitprocExit \/ Halted
    BY <2>1, <2>2, ProcessAssumption
       DEF Schedule, InitprocExit, Halted, vars, TypeOK
  <2>3. CASE RunTasks
    BY <2>1, <2>3 DEF RunTasks, Dispatch, FetchFromEmpty, Stop, TypeOK
  <2>4. ASSUME NEW t \in Task, SysYield(t) \/ SysReadStdin(t) \/ StdinRetry(t)
        PROVE  FALSE
    BY <2>1, <2>4 DEF SysYield, SysReadStdin, StdinRetry, Suspend, TypeOK
  <2>5. ASSUME NEW t \in Task, StdinDone(t)
        PROVE  FALSE
    BY <2>1, <2>5 DEF StdinDone
  <2>6. ASSUME NEW t \in Task, SysExit(t)
        PROVE  FALSE
    <3>1. Holders(t) # {<<"current">>}
      BY <2>6, ExitKeepsTcb DEF SysExit
    <3> QED BY <2>1, <2>6, <3>1 DEF SysExit, TypeOK
  <2>7. ASSUME NEW t \in Task, NEW d \in Task, SysFork(t, d) \/ SysSpawn(t, d)
        PROVE  FALSE
    BY <2>1, <2>7 DEF SysFork, SysSpawn, NewChild, TypeOK
  <2>8. ASSUME NEW t \in Task, NEW p, SysWaitpid(t, p)
        PROVE  status[c] = "Zombie" /\ parent[c] = current
    <3>1. PICK i \in DOMAIN children[t] :
            /\ InUser(t) /\ status[children[t][i]] = "Zombie"
            /\ \/ UNCHANGED status
               \/ status' = [status EXCEPT ![children[t][i]] = "UnInit"]
      BY <2>8 DEF SysWaitpid, FirstZombie, Stop, Reap
    <3>2. c = children[t][i]
      BY <2>1, <3>1 DEF TypeOK
    <3>3. c \in ToSet(children[t]) /\ panic = "no" /\ current = t
      BY <3>1, <3>2 DEF ToSet, InUser
    <3> QED BY <3>1, <3>2, <3>3 DEF IInv, Family
  <2>9. ASSUME NEW t \in Task, ProgramStops(t)
        PROVE  FALSE
    BY <2>1, <2>9 DEF ProgramStops, Stop
  <2> QED BY <2>2, <2>3, <2>4, <2>5, <2>6, <2>7, <2>8, <2>9 DEF Next
<1> QED
  BY <1>1, Invariance, PTL DEF Spec, FreedByParent
=============================================================================
