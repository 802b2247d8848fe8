----------------------------- MODULE BlockStore -----------------------------
(***************************************************************************)
(* What the block cache promises easy-fs: an array of blocks.  Closures    *)
(* over blocks nest, and only the innermost one writes, its own block; a   *)
(* write is seen by every later closure.  It reaches the device at some    *)
(* later time, in any order; a crash takes the blocks back to what has     *)
(* reached it.                                                             *)
(***************************************************************************)
EXTENDS Naturals, Sequences

CONSTANTS Block, Value

VARIABLES
    logical,  \* what closures read and write
    durable,  \* what a crash leaves
    open      \* the blocks of the closures that run, innermost last

vars == <<logical, durable, open>>

Init ==
    /\ logical \in [Block -> Value] /\ durable = logical
    /\ open = <<>>

Flush(b) == durable' = [durable EXCEPT ![b] = logical[b]]

\* Making room for a block may write another one to the device.
Open(b) ==
    /\ open' = Append(open, b)
    /\ UNCHANGED durable \/ \E c \in Block : Flush(c)
    /\ UNCHANGED logical

Write(v) ==
    /\ open # <<>>
    /\ logical' = [logical EXCEPT ![open[Len(open)]] = v]
    /\ UNCHANGED <<durable, open>>

Close ==
    /\ open # <<>>
    /\ open' = SubSeq(open, 1, Len(open) - 1)
    /\ UNCHANGED <<logical, durable>>

Sync(b) == open = <<>> /\ Flush(b) /\ UNCHANGED <<logical, open>>

Crash == logical' = durable /\ open' = <<>> /\ UNCHANGED durable

Next ==
    \/ \E b \in Block : Open(b) \/ Sync(b)
    \/ \E v \in Value : Write(v)
    \/ Close
    \/ Crash

Spec == Init /\ [][Next]_vars
=============================================================================
