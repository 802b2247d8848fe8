---------------------------- MODULE TaskManager ----------------------------
(***************************************************************************)
(* Stride scheduling (os/src/task/manager.rs, update_stride in task.rs,    *)
(* sys_set_priority).  fetch scans the ready queue for the first task of   *)
(* minimal stride, advances it by BIG_STRIDE / priority and dispatches it. *)
(* The addition wraps at the width of usize, as in a release build.        *)
(*                                                                         *)
(* A task that is not current is always queued (Process shows it), so the  *)
(* state is the queue, the current task and the scheduling fields.  The    *)
(* last three variables are history, used only to state the properties.    *)
(***************************************************************************)
EXTENDS Integers, SequencesExt

CONSTANTS
    Task,          \* the tasks that can exist at one time
    First,         \* the initial process
    None,          \* no current task
    BigStride,     \* BIG_STRIDE
    InitPriority,  \* the priority of a new task
    Asked,         \* the arguments sys_set_priority is called with
    MaxPriority,   \* the largest of them; the code sets no limit
    FairPriority,  \* priorities up to this one are counted in passed
    Modulus        \* 2^64: strides are computed modulo this

ASSUME TaskManagerAssumption ==
    /\ First \in Task /\ None \notin Task
    /\ BigStride \in Nat /\ MaxPriority \in Nat /\ Modulus \in Nat
    /\ InitPriority \in 2..MaxPriority
    /\ Asked \subseteq Int /\ \A p \in Asked : p <= MaxPriority
    /\ FairPriority \in 2..BigStride
    /\ BigStride < Modulus

VARIABLES
    ready_queue,  \* TaskManager::ready_queue
    current,      \* Processor::current
    stride,       \* task_stride
    priority,     \* task_priority
    rivals,       \* the tasks t was preferred to at its last dispatch
    passed,       \* how often each rival was dispatched since, its priority fair
    wrapped       \* some stride has wrapped around

vars == <<ready_queue, current, stride, priority, rivals, passed, wrapped>>
history == <<rivals, passed, wrapped>>

Init ==
    /\ ready_queue = <<First>>
    /\ current = None
    /\ stride = [t \in Task |-> 0]
    /\ priority = [t \in Task |-> InitPriority]
    /\ rivals = [t \in Task |-> {}]
    /\ passed = [t \in Task |-> [u \in Task |-> 0]]
    /\ wrapped = FALSE

Live == ToSet(ready_queue) \cup ({current} \ {None})

Pass(t) == BigStride \div priority[t]

\* The largest pass of a task, and the smallest of one with a fair priority.  Above
\* BIG_STRIDE a priority makes the pass 0.
MaxPass == BigStride \div 2
FairPass == BigStride \div FairPriority

-----------------------------------------------------------------------------

IsNext_largest(i) ==
    \A j \in DOMAIN ready_queue : stride[ready_queue[j]] <= stride[ready_queue[i]]

\* The scan of fetch stops at the first entry of minimal stride.
IsNext(i) ==
    LET s(j) == stride[ready_queue[j]] IN
    /\ \A j \in DOMAIN ready_queue : s(i) <= s(j)
    /\ \A j \in 1..(i - 1) : s(i) < s(j)

UpdateStride_keeps_carry(t) ==
    /\ stride' = [stride EXCEPT ![t] = @ + Pass(t)]
    /\ wrapped' = (wrapped \/ stride[t] + Pass(t) >= Modulus)

UpdateStride_scaled_down(t) ==
    LET s == stride[t] + Pass(t) \div FairPriority IN
    /\ stride' = [stride EXCEPT ![t] = IF s < Modulus THEN s ELSE s - Modulus]
    /\ wrapped' = (wrapped \/ s >= Modulus)

\* update_stride, in wrapping arithmetic.
UpdateStride(t) ==
    LET s == stride[t] + Pass(t) IN
    /\ stride' = [stride EXCEPT ![t] = IF s < Modulus THEN s ELSE s - Modulus]
    /\ wrapped' = (wrapped \/ s >= Modulus)

\* t leaves its rivals of before behind and meets the tasks now queued.  After
\* a wrap-around strides are no longer compared, and the history ends.
Meet(t) ==
    IF wrapped' THEN /\ rivals' = [v \in Task |-> {}]
                     /\ passed' = [v \in Task |-> [u \in Task |-> 0]]
    ELSE /\ rivals' = [rivals EXCEPT ![t] = ToSet(ready_queue) \ {t}]
         /\ passed' = [v \in Task |-> [u \in Task |->
                         IF v = t THEN 0
                         ELSE IF u = t /\ t \in rivals[v] /\ priority[t] <= FairPriority
                         THEN passed[v][u] + 1
                         ELSE passed[v][u]]]

\* fetch, and run_tasks making the task current.
Fetch ==
    /\ current = None
    /\ \E i \in DOMAIN ready_queue :
        LET t == ready_queue[i] IN
        /\ IsNext(i)
        /\ UpdateStride(t)
        /\ Meet(t)
        /\ ready_queue' = RemoveAt(ready_queue, i)
        /\ current' = t
    /\ UNCHANGED priority

\* suspend_current_and_run_next.
Suspend ==
    /\ current # None
    /\ ready_queue' = Append(ready_queue, current)
    /\ current' = None
    /\ UNCHANGED <<stride, priority, history>>

\* fork and spawn: a new task starts at stride 0 with the default priority.
NewTask(c) ==
    /\ current # None
    /\ c \notin Live
    /\ stride' = [stride EXCEPT ![c] = 0]
    /\ priority' = [priority EXCEPT ![c] = InitPriority]
    /\ ready_queue' = Append(ready_queue, c)
    /\ UNCHANGED <<current, history>>

\* sys_set_priority: a priority below 2 is refused.
SetPriority(p) ==
    /\ current # None
    /\ p >= 2
    /\ priority' = [priority EXCEPT ![current] = p]
    /\ UNCHANGED <<ready_queue, current, stride, history>>

\* exit_current_and_run_next; the initial process does not exit.
Exit ==
    /\ current \notin {None, First}
    /\ current' = None
    /\ rivals' = [t \in Task |-> IF t = current THEN {} ELSE rivals[t] \ {current}]
    /\ passed' = [t \in Task |-> [u \in Task |->
                    IF current \in {t, u} THEN 0 ELSE passed[t][u]]]
    /\ UNCHANGED <<ready_queue, stride, priority, wrapped>>

Next ==
    \/ Fetch
    \/ Suspend
    \/ Exit
    \/ \E c \in Task : NewTask(c)
    \/ \E p \in Asked : SetPriority(p)

Spec == Init /\ [][Next]_vars

-----------------------------------------------------------------------------

\* No task is queued twice or queued while it runs, update_stride stays within
\* the width of usize, and sys_set_priority lets no priority below 2 in.
TypeOK ==
    /\ ready_queue \in Seq(Task) /\ IsInjective(ready_queue)
    /\ current \in (Task \cup {None}) \ ToSet(ready_queue)
    /\ stride \in [Task -> 0..(Modulus - 1)]
    /\ priority \in [Task -> 2..MaxPriority]
    /\ rivals \in [Task -> SUBSET Task]
    /\ passed \in [Task -> [Task -> Nat]]
    /\ wrapped \in BOOLEAN

\* The algorithm's key bound (fetch with update_stride): a task is never ahead
\* of one it was preferred to by more than the largest pass, BIG_STRIDE / 2,
\* whatever tasks were created, ended or changed their priority since.
BoundedLead ==
    ~wrapped => \A t \in Task : \A u \in rivals[t] : stride[t] - stride[u] <= MaxPass

\* How long fetch can pass t over in favour of a task that existed when t was last
\* dispatched: each dispatch of that task with a priority up to FairPriority counts at
\* least FairPass, and together they count at most two of the largest passes.  Nothing
\* bounds a task whose priority exceeds BIG_STRIDE: its stride stands still, and the
\* code lets it run for ever.
BoundedBypass ==
    ~wrapped => \A t \in Task : \A u \in rivals[t] : passed[t][u] * FairPass <= 2 * MaxPass

\* What reports/lab3.pdf says of the strides of fetch and update_stride: with
\* priorities >= 2 all strides lie within BIG_STRIDE / 2 of each other.
StrideSpread ==
    ~wrapped => \A t, u \in Live : stride[t] - stride[u] <= MaxPass
=============================================================================
