------------------------------ MODULE Process ------------------------------
(***************************************************************************)
(* The life of a process in the kernel (os/src/task, os/src/syscall/       *)
(* process.rs, os/src/trap): creation by fork and spawn, dispatch,         *)
(* suspension, exit, adoption by INITPROC, and reaping by waitpid.         *)
(*                                                                         *)
(* A TaskControlBlock is shared by reference counting.  The module keeps   *)
(* every strong reference the kernel holds: the ready queue, the           *)
(* processor's current slot, the children lists, the static INITPROC and   *)
(* the local variable that sys_read keeps on a suspended kernel stack.     *)
(* Freeing a block returns its pid and unmaps its kernel stack.            *)
(*                                                                         *)
(* The kernel runs with interrupts off on one hart, so a system call is    *)
(* one step, up to the point where it switches to another kernel stack.    *)
(* Which ready task runs next is left open here; TaskManager models it.    *)
(***************************************************************************)
EXTENDS Integers, FiniteSets, SequencesExt

CONSTANTS
    Task,      \* the TaskControlBlock objects that can exist at one time
    INITPROC,  \* the block of the initial process
    None       \* Option::None

ASSUME ProcessAssumption == INITPROC \in Task /\ None \notin Task

VARIABLES
    ready_queue,   \* TaskManager::ready_queue
    current,       \* Processor::current
    cpu,           \* whose kernel stack the hart runs on; None: the idle loop
    status,        \* task_status; "UnInit" also marks a free block
    pid,           \* TaskControlBlock::pid
    parent,        \* the weak reference to the parent
    children,      \* the strong references to the children
    in_stdin,      \* tasks suspended inside Stdin::read, called by sys_read
    pid_current,   \* PidAllocator::current
    pid_recycled,  \* PidAllocator::recycled, a stack
    kstacks,       \* pids whose kernel stack is mapped in KERNEL_SPACE
    panic          \* why the kernel panicked, or "no"

vars == <<ready_queue, current, cpu, status, pid, parent, children, in_stdin,
          pid_current, pid_recycled, kstacks, panic>>

pidVars == <<pid, pid_current, pid_recycled, kstacks>>

Live == {t \in Task : status[t] # "UnInit"}

Places(s, t) == {i \in DOMAIN s : s[i] = t}

\* The strong references to t, each named by the place that holds it.
Holders(t) ==
    LET listed == UNION {{<<"child", p, i>> : i \in Places(children[p], t)} : p \in Task}
    IN  {<<"queue", i>> : i \in Places(ready_queue, t)}
        \cup listed
        \cup (IF current = t THEN {<<"current">>} ELSE {})
        \cup (IF t \in in_stdin THEN {<<"sys_read">>} ELSE {})
        \cup (IF t = INITPROC THEN {<<"static">>} ELSE {})

\* A panic stops the kernel where it is; what it leaves in memory is not used again.
Stop(why) ==
    /\ panic' = why
    /\ UNCHANGED <<ready_queue, current, cpu, status, parent, children, in_stdin, pidVars>>

\* The task t runs user code; its next system call or trap is the next step.
InUser(t) == panic = "no" /\ cpu = t /\ current = t /\ t \notin in_stdin

\* The state in which rust_main enters run_tasks: TaskControlBlock::new gave
\* INITPROC pid 0 and add_initproc queued it.
Init ==
    /\ ready_queue = <<INITPROC>>
    /\ current = None
    /\ cpu = None
    /\ status = [t \in Task |-> IF t = INITPROC THEN "Ready" ELSE "UnInit"]
    /\ pid = [t \in Task |-> 0]
    /\ parent = [t \in Task |-> None]
    /\ children = [t \in Task |-> <<>>]
    /\ in_stdin = {}
    /\ pid_current = 1
    /\ pid_recycled = <<>>
    /\ kstacks = {0}
    /\ panic = "no"

-----------------------------------------------------------------------------
(* Pids and kernel stacks *)

NextPid_error_code == IF pid_recycled = <<>> THEN -1 ELSE Last(pid_recycled)

NextPid == IF pid_recycled = <<>> THEN pid_current ELSE Last(pid_recycled)

PidAlloc_peeks ==
    /\ pid_current' = IF pid_recycled = <<>> THEN pid_current + 1 ELSE pid_current
    /\ UNCHANGED pid_recycled

PidAlloc ==
    IF pid_recycled = <<>>
    THEN pid_current' = pid_current + 1 /\ UNCHANGED pid_recycled
    ELSE pid_recycled' = Front(pid_recycled) /\ UNCHANGED pid_current

\* The two asserts of PidAllocator::dealloc.
CanDealloc(p) == p < pid_current /\ p \notin ToSet(pid_recycled)

DropTcb_keeps_stack(t) ==
    /\ panic' = IF CanDealloc(pid[t]) THEN "no" ELSE "pid"
    /\ pid_recycled' = Append(pid_recycled, pid[t])
    /\ pid' = [pid EXCEPT ![t] = 0]
    /\ UNCHANGED <<pid_current, kstacks>>

\* The last strong reference to t goes: PidHandle, then KernelStack is dropped.
DropTcb(t) ==
    /\ panic' = IF CanDealloc(pid[t]) THEN "no" ELSE "pid"
    /\ pid_recycled' = Append(pid_recycled, pid[t])
    /\ kstacks' = kstacks \ {pid[t]}
    /\ pid' = [pid EXCEPT ![t] = 0]
    /\ UNCHANGED pid_current

-----------------------------------------------------------------------------
(* Scheduling *)

Suspend_not_ready(t) ==
    /\ ready_queue' = Append(ready_queue, t)
    /\ current' = None
    /\ UNCHANGED <<status, cpu, parent, children, panic, pidVars>>

\* suspend_current_and_run_next, up to the switch in schedule.
Suspend(t) ==
    /\ status' = [status EXCEPT ![t] = "Ready"]
    /\ ready_queue' = Append(ready_queue, t)
    /\ current' = None
    /\ UNCHANGED <<cpu, parent, children, panic, pidVars>>

\* schedule switches from the stack of a suspended or exited task to idle.
Schedule ==
    /\ panic = "no"
    /\ cpu # None /\ current = None
    /\ cpu' = None
    /\ UNCHANGED <<ready_queue, current, status, parent, children, in_stdin,
                   panic, pidVars>>

\* run_tasks dispatches entry i of the ready queue.
Dispatch(i) ==
    LET t == ready_queue[i] IN
    /\ ready_queue' = RemoveAt(ready_queue, i)
    /\ status' = [status EXCEPT ![t] = "Running"]
    /\ current' = t
    /\ cpu' = t
    /\ UNCHANGED <<parent, children, in_stdin, panic, pidVars>>

\* fetch indexes ready_queue[0] when the queue is empty.
FetchFromEmpty == Stop("no_ready_task")

RunTasks ==
    /\ panic = "no" /\ cpu = None
    /\ IF ready_queue = <<>> THEN FetchFromEmpty
       ELSE \E i \in DOMAIN ready_queue : Dispatch(i)

\* sys_yield, and the timer interrupt of user code.
SysYield(t) == InUser(t) /\ Suspend(t) /\ UNCHANGED in_stdin

\* The panics that a program's request makes: a trap or a call number without a
\* handler, a pointer that the page table does not translate, an exec or spawn of a
\* file that is no program, and a read of standard input of a length other than 1.
AskedFor == {"unsupported", "bad_pointer", "bad_program", "stdin_length"}

ProgramStops(t) == InUser(t) /\ \E why \in AskedFor : Stop(why)

\* sys_read on Stdin, with length 1, finds no character: it suspends holding an Arc
\* of t.  Stdin::read checks the length before its loop (ProgramStops).
SysReadStdin(t) == InUser(t) /\ Suspend(t) /\ in_stdin' = in_stdin \cup {t}

\* The loop of Stdin::read, dispatched again: still no character.
StdinRetry(t) ==
    /\ panic = "no" /\ current = t /\ cpu = t /\ t \in in_stdin
    /\ Suspend(t) /\ UNCHANGED in_stdin

\* The loop of Stdin::read gets its character and sys_read returns.
StdinDone(t) ==
    /\ panic = "no" /\ current = t /\ cpu = t /\ t \in in_stdin
    /\ in_stdin' = in_stdin \ {t}
    /\ UNCHANGED <<ready_queue, current, cpu, status, parent, children, panic,
                   pidVars>>

-----------------------------------------------------------------------------
(* Creation, exit and reaping *)

\* TaskControlBlock::fork and ::spawn allocate a block c, give it a pid and a
\* kernel stack and list it as a child; the caller then queues it.  The -1 that
\* insert_framed_area can return for the stack is ignored.
NewChild(t, c) ==
    /\ InUser(t)
    /\ c \notin Live
    /\ PidAlloc
    /\ pid' = [pid EXCEPT ![c] = NextPid]
    /\ kstacks' = kstacks \cup {NextPid}
    /\ status' = [status EXCEPT ![c] = "Ready"]
    /\ parent' = [parent EXCEPT ![c] = t]
    /\ children' = [children EXCEPT ![t] = Append(@, c)]
    /\ ready_queue' = Append(ready_queue, c)
    /\ UNCHANGED <<current, cpu, in_stdin, panic>>

SysFork(t, c) == NewChild(t, c)

SysSpawn(t, c) == NewChild(t, c)

Adopt_forgets_orphans(t) ==
    /\ children' = [children EXCEPT ![t] = <<>>]
    /\ UNCHANGED parent

Adopt_keeps_parent(t) ==
    /\ children' = [children EXCEPT ![t] = <<>>, ![INITPROC] = @ \o children[t]]
    /\ UNCHANGED parent

\* The children of t become children of INITPROC, in order.
Adopt(t) ==
    /\ parent' = [c \in Task |-> IF c \in ToSet(children[t]) THEN INITPROC
                                 ELSE parent[c]]
    /\ children' = [children EXCEPT ![t] = <<>>,
                                    ![INITPROC] = @ \o children[t]]

\* exit_current_and_run_next, from sys_exit or a fault in user code, up to the
\* switch in schedule.  Dropping the last reference would free the block.
SysExit(t) ==
    LET freed == Holders(t) = {<<"current">>} IN
    /\ InUser(t) /\ t # INITPROC
    /\ status' = [status EXCEPT ![t] = IF freed THEN "UnInit" ELSE "Zombie"]
    /\ Adopt(t)
    /\ current' = None
    /\ IF freed THEN DropTcb(t) ELSE UNCHANGED <<pidVars, panic>>
    /\ UNCHANGED <<ready_queue, cpu, in_stdin>>

\* INITPROC exits: its inner cell is borrowed when the adoption borrows it.
InitprocExit ==
    /\ InUser(INITPROC)
    /\ panic' = "initproc_exit"
    /\ status' = [status EXCEPT ![INITPROC] = "Zombie"]
    /\ current' = None
    /\ UNCHANGED <<ready_queue, cpu, parent, children, in_stdin, pidVars>>

Matches(c, p) == p = -1 \/ p = pid[c]

FirstZombie_newest(t, p, i) ==
    LET ok(j) == status[children[t][j]] = "Zombie" /\ Matches(children[t][j], p)
    IN  ok(i) /\ \A j \in (i + 1)..Len(children[t]) : ~ok(j)

FirstZombie_any_status(t, p, i) ==
    /\ Matches(children[t][i], p)
    /\ \A j \in 1..(i - 1) : ~Matches(children[t][j], p)

\* The first zombie child of t that waitpid(p) accepts is at index i.
FirstZombie(t, p, i) ==
    LET ok(j) == status[children[t][j]] = "Zombie" /\ Matches(children[t][j], p)
    IN  ok(i) /\ \A j \in 1..(i - 1) : ~ok(j)

\* The zombie at index i of t's list leaves it, and with the last reference its block,
\* its own list and its pid go.
Reap(t, i) ==
    LET c == children[t][i] IN
    /\ children' = [children EXCEPT ![t] = RemoveAt(@, i), ![c] = <<>>]
    /\ status' = [status EXCEPT ![c] = "UnInit"]
    /\ parent' = [parent EXCEPT ![c] = None]
    /\ DropTcb(c)
    /\ UNCHANGED <<ready_queue, current, cpu, in_stdin>>

\* sys_waitpid(p) that finds a zombie: the assert demands that no other reference
\* exists, and translated_refmut has to translate the pointer for the exit code.  The
\* -1 and -2 returns change nothing.
SysWaitpid(t, p) ==
    \E i \in DOMAIN children[t] :
        LET count == Cardinality(Holders(children[t][i])) IN
        /\ InUser(t)
        /\ FirstZombie(t, p, i)
        /\ \/ count # 1 /\ Stop("strong_count")
           \/ count = 1 /\ Stop("bad_pointer")
           \/ count = 1 /\ Reap(t, i)

\* The panic handler shuts the machine down.
Halted == panic # "no" /\ UNCHANGED vars

Next ==
    \/ Schedule
    \/ RunTasks
    \/ InitprocExit
    \/ Halted
    \/ \E t \in Task :
        \/ ProgramStops(t)
        \/ SysYield(t)
        \/ SysReadStdin(t)
        \/ StdinRetry(t)
        \/ StdinDone(t)
        \/ SysExit(t)
        \/ \E c \in Task : SysFork(t, c) \/ SysSpawn(t, c)
        \/ \E p \in {-1} \cup 0..(pid_current - 1) : SysWaitpid(t, p)

Spec == Init /\ [][Next]_vars

-----------------------------------------------------------------------------
(* Properties *)

\* Every variable has its type, and the kernel panics only in the ways modelled;
\* pid_alloc gives natural numbers.
TypeOK ==
    /\ ready_queue \in Seq(Task)
    /\ current \in Task \cup {None}
    /\ cpu \in Task \cup {None}
    /\ status \in [Task -> {"UnInit", "Ready", "Running", "Zombie"}]
    /\ pid \in [Task -> Nat]
    /\ parent \in [Task -> Task \cup {None}]
    /\ children \in [Task -> Seq(Task)]
    /\ in_stdin \in SUBSET Task
    /\ pid_current \in Nat
    /\ pid_recycled \in Seq(Nat)
    /\ kstacks \in SUBSET Nat
    /\ panic \in {"no", "initproc_exit", "no_ready_task", "strong_count", "pid"} \cup AskedFor

\* The kernel's own bookkeeping of processes never makes it panic: fetch never finds
\* the ready queue empty, waitpid's assert_eq!(Arc::strong_count(&child), 1) holds for
\* every interleaving of fork, exit, adoption and suspended reads, and no pid is
\* given back twice.  What is left are INITPROC's exit and what programs ask for.
NoBookkeepingPanic == panic \in {"no", "initproc_exit"} \cup AskedFor

\* A task's status says where it is: a Ready task is in the ready queue exactly
\* once, the Running task is the processor's current one, and a Zombie or a free
\* block is in neither, so no exited task is dispatched again.
StatusMatchesPlace ==
    panic = "no" =>
        /\ IsInjective(ready_queue)
        /\ \A t \in Task : /\ status[t] = "Ready" <=> t \in ToSet(ready_queue)
                           /\ status[t] = "Running" <=> t = current

\* Every process but INITPROC is a child of exactly one other process, at one
\* place of its list, and its weak parent reference names that process, which
\* is alive and has not exited.  So each process can be reaped, and only once.
OwnedByParent ==
    panic = "no" =>
        \A c \in Live \ {INITPROC} :
            /\ parent[c] \in Live /\ status[parent[c]] # "Zombie"
            /\ \A p \in Task : Cardinality(Places(children[p], c))
                                = IF p = parent[c] THEN 1 ELSE 0

\* Following parent references from any process reaches INITPROC: every set of other
\* processes has a member whose parent is alive and outside the set, so adoption
\* leaves no cycle and no process outside the tree.
RootedAtInitproc ==
    panic = "no" =>
        \A S \in SUBSET (Live \ {INITPROC}) :
            S # {} => \E c \in S : parent[c] \in Live \ S

\* The pids of live processes and the recycled pids are distinct and make up
\* exactly the pids handed out so far: none is lost and none is shared.
PidsPartition ==
    panic = "no" =>
        /\ IsInjective(pid_recycled)
        /\ \A t, u \in Live : pid[t] = pid[u] => t = u
        /\ {pid[t] : t \in Live} \cap ToSet(pid_recycled) = {}
        /\ {pid[t] : t \in Live} \cup ToSet(pid_recycled) = 0..(pid_current - 1)

\* Exactly the live processes have a mapped kernel stack, and the stack the hart
\* runs on, also between exit and the switch to idle, belongs to one of them.
StackUnderfoot ==
    panic = "no" =>
        /\ kstacks = {pid[t] : t \in Live}
        /\ cpu # None => cpu \in Live

\* A process is freed only after it exited, in a step of the process that its
\* parent reference names: waitpid, and never exit, ends a process.
FreedByParent ==
    [][\A c \in Task : c \in Live /\ c \notin Live' =>
            status[c] = "Zombie" /\ parent[c] = current]_vars

\* waitpid passes no zombie over for ever: a parent that goes on reaping with
\* waitpid(-1) reaps each of its zombies, or exits and leaves them to INITPROC.  Others
\* may exit, be adopted and be reaped meanwhile: waitpid takes the first zombie of a
\* list at whose end fork and adoption append.  No scheduler is assumed.
ReapedInTurn ==
    \A p \in Task, c \in Task \ {INITPROC} :
        []<><<SysWaitpid(p, -1)>>_vars =>
            ((status[c] = "Zombie" /\ parent[c] = p)
                ~> (status[c] = "UnInit" \/ parent[c] # p))
=============================================================================
