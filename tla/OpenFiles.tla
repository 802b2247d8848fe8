----------------------------- MODULE OpenFiles -----------------------------
(***************************************************************************)
(* What the file calls of the kernel promise: a file is a sequence of      *)
(* bytes; an open file is a file and an offset, and lives while a          *)
(* descriptor names it; descriptors are numbers a task has.  A call        *)
(* transfers its whole buffer in one step, as if neither pages nor blocks  *)
(* existed.                                                                *)
(***************************************************************************)
EXTENDS Integers, Sequences, Functions

CONSTANTS
    Task, File, Object,
    Std,                 \* the descriptors of a new program
    Byte, Zero,
    MaxLen               \* bound: bytes of a buffer

VARIABLES
    bytes,   \* bytes[f]: the contents of file f
    open,    \* open[o]: the file and the offset of the open file o
    fd       \* fd[t][k]: the open file, or the standard stream, of descriptor k

vars == <<bytes, open, fd>>

Init ==
    /\ bytes = [f \in File |-> <<>>]
    /\ open = <<>>
    /\ \E t \in Task : fd = [u \in {t} |-> Std]

Named(tables) == Object \cap UNION {Range(tables[t]) : t \in DOMAIN tables}
With(g, k, v) == [j \in DOMAIN g \cup {k} |-> IF j = k THEN v ELSE g[j]]

\* The tables change, and the open files that are no longer named are dropped.
Tables(tables) == fd' = tables /\ open' = Restrict(open, Named(tables))

\* Opening makes an open file at offset 0 under the lowest free descriptor, and may
\* empty the file.
Open(t, f) ==
    \E o \in Object \ DOMAIN open, k \in {0} \cup {j + 1 : j \in DOMAIN fd[t]} :
        /\ k \notin DOMAIN fd[t] /\ 0..(k - 1) \subseteq DOMAIN fd[t]
        /\ fd' = [fd EXCEPT ![t] = With(@, k, o)]
        /\ open' = With(open, o, [file |-> f, offset |-> 0])
        /\ bytes' \in {bytes, [bytes EXCEPT ![f] = <<>>]}

Close(t) ==
    /\ \E k \in DOMAIN fd[t] : Tables([fd EXCEPT ![t] = Restrict(@, DOMAIN @ \ {k})])
    /\ UNCHANGED bytes

\* Reading moves the offset over bytes that are there.
Read(o) ==
    /\ \E n \in 1..MaxLen :
        /\ open[o].offset + n <= Len(bytes[open[o].file])
        /\ open' = [open EXCEPT ![o].offset = @ + n]
    /\ UNCHANGED <<bytes, fd>>

\* Writing n bytes replaces what is at the offset; a gap before it is filled with zeros.
Write(o, n) ==
    LET f == open[o].file
        at == open[o].offset
        size == IF at + n <= Len(bytes[f]) THEN Len(bytes[f]) ELSE at + n
    IN
    /\ Len(bytes'[f]) = size
    /\ \A k \in 1..size :
        \/ k \in (at + 1)..(at + n) /\ bytes'[f][k] \in Byte
        \/ k \notin (at + 1)..(at + n) /\ k <= Len(bytes[f]) /\ bytes'[f][k] = bytes[f][k]
        \/ k \notin (at + 1)..(at + n) /\ k > Len(bytes[f]) /\ bytes'[f][k] = Zero
    /\ \A g \in File \ {f} : bytes'[g] = bytes[g]
    /\ open' = [open EXCEPT ![o].offset = @ + n]
    /\ UNCHANGED fd

\* A new task shares the open files of another (fork) or starts afresh (spawn).
NewTask(t) ==
    /\ \E g \in Range(fd) \cup {Std} : fd' = With(fd, t, g)
    /\ UNCHANGED <<bytes, open>>

EndTask(t) == Tables(Restrict(fd, DOMAIN fd \ {t})) /\ UNCHANGED bytes

Shutdown == fd' = <<>> /\ open' = <<>> /\ UNCHANGED bytes

\* A call that fails or has nothing to transfer changes nothing.
NoEffect == UNCHANGED vars

Next ==
    \/ NoEffect
    \/ Shutdown
    \/ \E t \in DOMAIN fd : Close(t) \/ EndTask(t) \/ \E f \in File : Open(t, f)
    \/ \E t \in Task \ DOMAIN fd : NewTask(t)
    \/ \E o \in DOMAIN open :
        Read(o) \/ \E n \in 1..MaxLen : Write(o, n)

Spec == Init /\ [][Next]_vars
=============================================================================
