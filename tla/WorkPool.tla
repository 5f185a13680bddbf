------------------------------- MODULE WorkPool -----------------------------
(***************************************************************************)
(* What the producer and the consumers of module3/04 and module3/05        *)
(* promise together, without processes, memory or a semaphore: blocks are  *)
(* handed out in the order they were produced, each to one worker, who     *)
(* reports it once; and a worker leaves by itself only when the pool is    *)
(* closed and empty.  ProducerConsumer has the mapping.                    *)
(***************************************************************************)
EXTENDS Naturals, Sequences

CONSTANT Workers

VARIABLES
    produced,  \* blocks put into the pool, numbered from 1
    taken,     \* blocks handed out: 1 to taken
    hand,      \* the block each worker works on (0: none)
    log,       \* the blocks each worker has reported
    closed,    \* no further block will come
    left       \* the workers that left by themselves

vars == <<produced, taken, hand, log, closed, left>>

Init == /\ produced = 0 /\ taken = 0
        /\ hand = [w \in Workers |-> 0]
        /\ log = [w \in Workers |-> <<>>]
        /\ closed = FALSE /\ left = {}

Produce == /\ ~closed
           /\ produced' = produced + 1
           /\ UNCHANGED <<taken, hand, log, closed, left>>

Close == /\ ~closed
         /\ closed' = TRUE
         /\ UNCHANGED <<produced, taken, hand, log, left>>

Take(w) == /\ hand[w] = 0 /\ taken < produced
           /\ taken' = taken + 1
           /\ hand' = [hand EXCEPT ![w] = taken + 1]
           /\ UNCHANGED <<produced, log, closed, left>>

Report(w) == /\ hand[w] # 0
             /\ log' = [log EXCEPT ![w] = Append(@, hand[w])]
             /\ hand' = [hand EXCEPT ![w] = 0]
             /\ UNCHANGED <<produced, taken, closed, left>>

Leave(w) == /\ hand[w] = 0 /\ closed /\ taken = produced
            /\ left' = left \cup {w}
            /\ UNCHANGED <<produced, taken, hand, log, closed>>

Next == \/ Produce \/ Close
        \/ \E w \in Workers : Take(w) \/ Report(w) \/ Leave(w)

Spec == Init /\ [][Next]_vars
=============================================================================
