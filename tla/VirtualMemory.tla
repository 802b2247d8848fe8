--------------------------- MODULE VirtualMemory ---------------------------
(***************************************************************************)
(* What an address space promises a program: a private map from pages to   *)
(* contents, in which only the program's own stores and mappings show.     *)
(* There are no frames and no page tables here; MemorySet implements it.   *)
(***************************************************************************)
EXTENDS Integers

CONSTANTS Space, Page, Value, Zero, Image, TrapContext, Program

VARIABLES
    alive,  \* the spaces of running tasks
    data    \* data[s]: the pages of s and what they hold

vars == <<alive, data>>

Empty == [v \in {} |-> Zero]

Init == alive = {} /\ data = [s \in Space |-> Empty]

\* A program image: its pages hold the file, the rest is zero, and the trap
\* context belongs to s.
Start(s, im) ==
    [v \in im.pages |-> IF v = TrapContext THEN s
                        ELSE IF v \in im.text THEN Image ELSE Zero]

\* exec, or a new task.
Load(s, im) ==
    /\ alive' = alive \cup {s}
    /\ data' = [data EXCEPT ![s] = Start(s, im)]

\* fork: the child sees what the parent sees, but for its own trap context.
Clone(p, c) ==
    /\ p \in alive /\ c \notin alive
    /\ alive' = alive \cup {c}
    /\ data' = [data EXCEPT ![c] = [data[p] EXCEPT ![TrapContext] = c]]

\* mmap: new pages are zero, the pages there were keep their contents.
Map(s, new) ==
    /\ s \in alive /\ new \cap DOMAIN data[s] = {}
    /\ data' = [data EXCEPT ![s] = [v \in DOMAIN @ \cup new |->
                    IF v \in new THEN Zero ELSE @[v]]]
    /\ UNCHANGED alive

Unmap(s, old) ==
    /\ s \in alive /\ old \subseteq DOMAIN data[s] \ {TrapContext}
    /\ data' = [data EXCEPT ![s] = [v \in DOMAIN @ \ old |-> @[v]]]
    /\ UNCHANGED alive

Store(s, v, x) ==
    /\ s \in alive /\ v \in DOMAIN data[s] \ {TrapContext}
    /\ data' = [data EXCEPT ![s][v] = x]
    /\ UNCHANGED alive

Exit(s) ==
    /\ s \in alive
    /\ alive' = alive \ {s}
    /\ data' = [data EXCEPT ![s] = Empty]

Next ==
    \E s \in Space :
        \/ \E im \in Program : Load(s, im)
        \/ \E c \in Space : Clone(s, c)
        \/ \E a, b \in Page : Map(s, a..b) \/ Unmap(s, a..b)
        \/ \E v \in Page, x \in Value : Store(s, v, x)
        \/ Exit(s)

Spec == Init /\ [][Next]_vars
=============================================================================
