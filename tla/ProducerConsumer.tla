-------------------------- MODULE ProducerConsumer --------------------------
(***************************************************************************)
(* The producer and the consumers of module3/04 (producer.c, consumer.c),  *)
(* which module3/05 repeats line for line over POSIX semaphores: a singly  *)
(* linked list of blocks in shared memory, guarded by one semaphore.       *)
(*                                                                         *)
(* This module has the state and the steps of the child processes.  Who    *)
(* creates, signals and reaps them, and what becomes of the semaphore, is  *)
(* in SysVProdCons (module3/04) and PosixProdCons (module3/05).            *)
(*                                                                         *)
(* A semaphore operation is a step of its own, and so is every access to   *)
(* the list made between two of them: the semaphore is what keeps them     *)
(* apart, the model does not.                                              *)
(***************************************************************************)
EXTENDS Integers, Sequences, FiniteSets

CONSTANTS
    Producer,    \* the producer process
    Consumers,   \* the consumer processes
    Counts,      \* the lengths rand() % 50 + 20 can give a block
    TotalSize,   \* shm->total_size: 2048 in main.c
    MappedSize,  \* bytes that really are mapped: TotalSize rounded up to a page
    SizeMod,     \* size_t arithmetic is modulo SizeMod (2^64 in the program)
    BatchSize    \* BATCH_SIZE: 5 in producer.c

ASSUME PCAssumption ==
    /\ Producer \notin Consumers /\ Consumers # {}  \* main.c refuses fewer than one
    /\ Counts \subseteq Nat \ {0}
    /\ TotalSize \in Nat /\ MappedSize \in Nat /\ BatchSize \in Nat
    /\ SizeMod \in Nat /\ SizeMod > TotalSize

VARIABLES
    sem,       \* value of the semaphore
    semLive,   \* the semaphore can be operated on
    nodes,     \* the list from shm->head to shm->tail
    finished,  \* shm->producer_finished
    pc,        \* where each process is
    used,      \* producer: used_memory
    draft,     \* producer: count of new_node, not yet linked
    since,     \* producer: blocks_since_check
    allDone,   \* producer: all_processed
    view,      \* consumer: producer_done and has_unprocessed
    cur,       \* consumer: current (0 is NULL)
    mine,      \* consumer: the block whose count and data it took (0: none)
    report     \* consumer: the blocks it reported, processed_blocks many

listVars == <<nodes, finished>>
prodVars == <<used, draft, since, allDone>>
consVars == <<view, cur, mine, report>>
pcVars   == <<sem, semLive, pc, listVars, prodVars, consVars>>

Procs == {Producer} \cup Consumers

\* sizeof on the LP64 build: SharedMemory, Node, a pointer, an int.
SizeofShared == 48
SizeofNode   == 24
SizeofPtr    == 8
SizeofInt    == 4

Block == [off : Nat, n : Nat \ {0}, count : Nat]

Bytes(n)  == SizeofNode + n * SizeofInt
EndOf(b)  == b.off + Bytes(b.n)
IsFull(b) == b.count > 0

\* The scans of the list that producer and consumers make under the semaphore.
HasUnprocessed   == \E i \in DOMAIN nodes : IsFull(nodes[i])
FirstUnprocessed == IF HasUnprocessed
                      THEN CHOOSE i \in DOMAIN nodes :
                             /\ IsFull(nodes[i])
                             /\ \A j \in 1..(i-1) : ~IsFull(nodes[j])
                      ELSE 0

-----------------------------------------------------------------------------
(***************************************************************************)
(* Program counters.  A process at a label of LockAt is about to call      *)
(* semaphore_lock, one at a label of UnlockAt semaphore_unlock; at a label *)
(* of Inside it holds the semaphore.                                       *)
(***************************************************************************)
ProdLock   == {"p_lock_link", "p_lock_check", "p_lock_fin"}
ProdUnlock == {"p_unlock_link", "p_unlock_check", "p_unlock_fin"}
ConsLock   == {"c_lock", "c_lock_take"}
ConsUnlock == {"c_unlock", "c_unlock_none", "c_unlock_took"}

LockAt   == ProdLock \cup ConsLock
UnlockAt == ProdUnlock \cup ConsUnlock
Inside   == UnlockAt \cup {"p_link", "p_scan", "p_fin", "c_scan", "c_find", "c_take"}

\* "exited": exit(0) at the end of the function; "dead": exit(1) after a failed
\* semaphore call, or exit(0) from the signal handler; "faulted": SIGSEGV.
Gone == {"exited", "dead", "faulted"}

ProdPC == {"none", "p_top", "p_write", "p_link", "p_scan", "p_fin"}
            \cup ProdLock \cup ProdUnlock \cup Gone
ConsPC == {"none", "c_scan", "c_find", "c_take", "c_process"}
            \cup ConsLock \cup ConsUnlock \cup {"exited", "dead"}

Goto(p, l) == pc' = [pc EXCEPT ![p] = l]

\* semaphore_lock and semaphore_unlock; either exits the process when the
\* semaphore was removed (EIDRM, EINVAL).
Lock(p, from, to)   == /\ pc[p] = from
                       /\ semLive /\ sem > 0
                       /\ sem' = sem - 1
                       /\ Goto(p, to)
                       /\ UNCHANGED semLive
Unlock(p, from, to) == /\ pc[p] = from
                       /\ semLive
                       /\ sem' = sem + 1
                       /\ Goto(p, to)
                       /\ UNCHANGED semLive
SemFails(p) == /\ pc[p] \in LockAt \cup UnlockAt
               /\ ~semLive
               /\ Goto(p, "dead")
               /\ UNCHANGED <<sem, semLive, listVars, prodVars, consVars>>

PCInit == /\ pc = [p \in Procs |-> "none"]
          /\ nodes = <<>>
          /\ used = SizeofShared /\ draft = 0 /\ since = 0 /\ allDone = FALSE
          /\ view = [c \in Consumers |-> [done |-> FALSE, has |-> FALSE]]
          /\ cur = [c \in Consumers |-> 0]
          /\ mine = [c \in Consumers |-> 0]
          /\ report = [c \in Consumers |-> <<>>]

-----------------------------------------------------------------------------
(* producer_function *)

\* size_t remaining: wraps around once used_memory has passed total_size.
Remaining == (TotalSize - used) % SizeMod

\* new_node starts at memory_start + used_memory, and memory_start is already
\* one header past the start of the segment.
NewNode == [off |-> SizeofShared + used, n |-> draft, count |-> draft]
\* Mutant of PTop: the producer leaves its loop without setting producer_finished.
PTopForgetsFinished ==
    /\ pc[Producer] = "p_top"
    /\ \E n \in Counts :
         IF Remaining < SizeofInt + SizeofPtr + n * SizeofInt
           THEN Goto(Producer, "exited") /\ UNCHANGED draft
           ELSE Goto(Producer, "p_write") /\ draft' = n
    /\ UNCHANGED <<sem, semLive, listVars, used, since, allDone, consVars>>


PTop == /\ pc[Producer] = "p_top"
        /\ \/ /\ Remaining < SizeofInt + SizeofPtr + SizeofInt
              /\ Goto(Producer, "p_lock_fin")
              /\ UNCHANGED draft
           \/ /\ Remaining >= SizeofInt + SizeofPtr + SizeofInt
              /\ \E n \in Counts :
                   IF Remaining < SizeofInt + SizeofPtr + n * SizeofInt
                     THEN Goto(Producer, "p_lock_fin") /\ UNCHANGED draft
                     ELSE Goto(Producer, "p_write") /\ draft' = n
        /\ UNCHANGED <<sem, semLive, listVars, used, since, allDone, consVars>>

\* The node and its data are written before the semaphore is taken; a write
\* past the mapping kills the producer.
PWrite == /\ pc[Producer] = "p_write"
          /\ Goto(Producer, IF EndOf(NewNode) > MappedSize THEN "faulted"
                                                           ELSE "p_lock_link")
          /\ UNCHANGED <<sem, semLive, listVars, prodVars, consVars>>

PLockLink == /\ Lock(Producer, "p_lock_link", "p_link")
             /\ UNCHANGED <<listVars, prodVars, consVars>>

\* Mutant of PLink: used_memory grows by the data alone, not by the Node.
PLinkDataOnly ==
    /\ pc[Producer] = "p_link"
    /\ nodes' = Append(nodes, NewNode)
    /\ used' = used + draft * SizeofInt
    /\ Goto(Producer, "p_unlock_link")
    /\ UNCHANGED <<sem, semLive, finished, draft, since, allDone, consVars>>

PLink == /\ pc[Producer] = "p_link"
         /\ nodes' = Append(nodes, NewNode)
         /\ used' = used + Bytes(draft)
         /\ Goto(Producer, "p_unlock_link")
         /\ UNCHANGED <<sem, semLive, finished, draft, since, allDone, consVars>>

PUnlockLink == /\ Unlock(Producer, "p_unlock_link",
                         IF since + 1 >= BatchSize THEN "p_lock_check" ELSE "p_top")
               /\ since' = since + 1
               /\ UNCHANGED <<listVars, used, draft, allDone, consVars>>

PLockCheck == /\ Lock(Producer, "p_lock_check", "p_scan")
              /\ UNCHANGED <<listVars, prodVars, consVars>>

PScan == /\ pc[Producer] = "p_scan"
         /\ allDone' = ~HasUnprocessed
         /\ Goto(Producer, "p_unlock_check")
         /\ UNCHANGED <<sem, semLive, listVars, used, draft, since, consVars>>

PUnlockCheck == /\ Unlock(Producer, "p_unlock_check",
                          IF allDone /\ Len(nodes) > 0 THEN "p_lock_fin" ELSE "p_top")
                /\ since' = IF allDone /\ Len(nodes) > 0 THEN since ELSE 0
                /\ UNCHANGED <<listVars, used, draft, allDone, consVars>>

PLockFin == /\ Lock(Producer, "p_lock_fin", "p_fin")
            /\ UNCHANGED <<listVars, prodVars, consVars>>

PFin == /\ pc[Producer] = "p_fin"
        /\ finished' = TRUE
        /\ Goto(Producer, "p_unlock_fin")
        /\ UNCHANGED <<sem, semLive, nodes, prodVars, consVars>>

PUnlockFin == /\ Unlock(Producer, "p_unlock_fin", "exited")
              /\ UNCHANGED <<listVars, prodVars, consVars>>

ProducerStep == \/ PTop \/ PWrite
                \/ PLockLink \/ PLink \/ PUnlockLink
                \/ PLockCheck \/ PScan \/ PUnlockCheck
                \/ PLockFin \/ PFin \/ PUnlockFin
                \/ SemFails(Producer)

-----------------------------------------------------------------------------
(* consumer_function *)

CLock(c) == /\ Lock(c, "c_lock", "c_scan")
            /\ UNCHANGED <<listVars, prodVars, consVars>>

CScan(c) == /\ pc[c] = "c_scan"
            /\ view' = [view EXCEPT ![c] = [done |-> finished, has |-> HasUnprocessed]]
            /\ Goto(c, "c_unlock")
            /\ UNCHANGED <<sem, semLive, listVars, prodVars, cur, mine, report>>

\* Mutant of CUnlock: producer_done alone ends the consumer.
CUnlockDoneFirst(c) ==
    /\ Unlock(c, "c_unlock", IF view[c].done THEN "exited"
                             ELSE IF view[c].has THEN "c_lock_take" ELSE "c_lock")
    /\ UNCHANGED <<listVars, prodVars, consVars>>

CUnlock(c) == /\ Unlock(c, "c_unlock",
                        IF view[c].has THEN "c_lock_take"
                        ELSE IF view[c].done THEN "exited" ELSE "c_lock")
              /\ UNCHANGED <<listVars, prodVars, consVars>>

\* Mutant of CLockTake: the second lock is missing, the take follows the check.
CLockTakeNoLock(c) ==
    /\ pc[c] = "c_lock_take"
    /\ Goto(c, "c_find")
    /\ UNCHANGED <<sem, semLive, listVars, prodVars, consVars>>

CLockTake(c) == /\ Lock(c, "c_lock_take", "c_find")
                /\ UNCHANGED <<listVars, prodVars, consVars>>

CFind(c) == /\ pc[c] = "c_find"
            /\ cur' = [cur EXCEPT ![c] = FirstUnprocessed]
            /\ Goto(c, IF HasUnprocessed THEN "c_take" ELSE "c_unlock_none")
            /\ UNCHANGED <<sem, semLive, listVars, prodVars, view, mine, report>>

\* Mutant of CTake: current->count is not set to 0.
CTakeNoMark(c) ==
    /\ pc[c] = "c_take"
    /\ mine' = [mine EXCEPT ![c] = cur[c]]
    /\ Goto(c, "c_unlock_took")
    /\ UNCHANGED <<sem, semLive, listVars, prodVars, view, cur, report>>

CTake(c) == /\ pc[c] = "c_take"
            /\ mine' = [mine EXCEPT ![c] = cur[c]]
            /\ nodes' = [nodes EXCEPT ![cur[c]].count = 0]
            /\ Goto(c, "c_unlock_took")
            /\ UNCHANGED <<sem, semLive, finished, prodVars, view, cur, report>>

\* Mutant of CUnlockNone: continue without semaphore_unlock.
CUnlockNoneForgotten(c) ==
    /\ pc[c] = "c_unlock_none"
    /\ Goto(c, "c_lock")
    /\ UNCHANGED <<sem, semLive, listVars, prodVars, consVars>>

CUnlockNone(c) == /\ Unlock(c, "c_unlock_none", "c_lock")
                  /\ UNCHANGED <<listVars, prodVars, consVars>>

CUnlockTook(c) == /\ Unlock(c, "c_unlock_took", "c_process")
                  /\ UNCHANGED <<listVars, prodVars, consVars>>

\* The data are read here, after the semaphore was released.
CProcess(c) == /\ pc[c] = "c_process"
               /\ report' = [report EXCEPT ![c] = Append(@, mine[c])]
               /\ mine' = [mine EXCEPT ![c] = 0]
               /\ Goto(c, "c_lock")
               /\ UNCHANGED <<sem, semLive, listVars, prodVars, view, cur>>

ConsumerStep(c) == \/ CLock(c) \/ CScan(c) \/ CUnlock(c)
                   \/ CLockTake(c) \/ CFind(c) \/ CTake(c)
                   \/ CUnlockNone(c) \/ CUnlockTook(c) \/ CProcess(c)
                   \/ SemFails(c)

ProcStep(p) == \/ p = Producer /\ ProducerStep
               \/ p \in Consumers /\ ConsumerStep(p)

\* exit(0) from the signal handler: the process is gone, the semaphore keeps
\* the value it had.
Die(p) == /\ pc[p] \notin Gone \cup {"none"}
          /\ Goto(p, "dead")
          /\ UNCHANGED <<listVars, prodVars, consVars>>
-----------------------------------------------------------------------------
(* What the list and the semaphore promise, whoever runs the processes. *)

PCTypeOK ==
    /\ sem \in {0, 1} /\ semLive \in BOOLEAN
    /\ nodes \in Seq(Block) /\ finished \in BOOLEAN
    /\ pc \in [Procs -> ProdPC \cup ConsPC]
    /\ pc[Producer] \in ProdPC
    /\ \A c \in Consumers : pc[c] \in ConsPC
    /\ used \in Nat /\ draft \in Counts \cup {0} /\ since \in Nat
    /\ allDone \in BOOLEAN
    /\ view \in [Consumers -> [done : BOOLEAN, has : BOOLEAN]]
    /\ cur \in [Consumers -> Nat]
    /\ mine \in [Consumers -> Nat]
    /\ report \in [Consumers -> Seq(Nat)]

InCS(p) == pc[p] \in Inside

\* At most one process is between semaphore_lock and semaphore_unlock, and the
\* semaphore is down while one is: the list is never read while it changes.
MutualExclusion ==
    /\ \A p, q \in Procs : InCS(p) /\ InCS(q) => p = q
    /\ \A p \in Procs : InCS(p) => sem = 0

\* Block i was taken by consumer c and its line was printed, or it still is to be.
Reported(c, i) == \E k \in DOMAIN report[c] : report[c][k] = i
Has(c, i)      == mine[c] = i \/ Reported(c, i)

\* A block is marked processed (count = 0) exactly when one consumer has it, and
\* no consumer ever has or reports it a second time: the check and the take in
\* two critical sections (consumer.c:19 and consumer.c:48) lose and duplicate nothing.
ClaimedOnce ==
    /\ \A i \in DOMAIN nodes :
         (nodes[i].count = 0) <=> (\E c \in Consumers : Has(c, i))
    /\ \A c, d \in Consumers : \A i \in DOMAIN nodes :
         Has(c, i) /\ Has(d, i) => c = d
    /\ \A c \in Consumers :
         /\ \A k \in DOMAIN report[c] : report[c][k] \in DOMAIN nodes /\ report[c][k] # mine[c]
         /\ \A k, l \in DOMAIN report[c] : report[c][k] = report[c][l] => k = l

\* A consumer that left through consumer.c:32 left nothing behind: the producer
\* had finished, every block was taken, and no block is ever linked afterwards.
ExitMeansDrained ==
    \A c \in Consumers : pc[c] = "exited" => finished /\ ~HasUnprocessed

\* The extents of the blocks are disjoint, and so is the one being written
\* outside the semaphore (producer.c:37): a consumer reading data after
\* its unlock (consumer.c:70) never reads bytes the producer is writing.
NoOverlap ==
    /\ \A i, j \in DOMAIN nodes : i < j => EndOf(nodes[i]) <= nodes[j].off
    /\ pc[Producer] \in {"p_write", "p_lock_link", "p_link"} =>
         \A i \in DOMAIN nodes : EndOf(nodes[i]) <= NewNode.off

\* Until used_memory passes total_size, a block overruns memory_end by at most
\* the header counted twice (producer.c:12 and :37) plus the part of the Node that
\* the guard of producer.c:29 leaves out: 60 bytes, inside the page that is mapped.
OverrunBounded ==
    (pc[Producer] \in {"p_write", "p_lock_link", "p_link"} /\ used <= TotalSize) =>
        EndOf(NewNode) <= TotalSize + SizeofShared + SizeofNode - SizeofInt - SizeofPtr

\* The blocks handed out: those before the first full one.
Taken == IF HasUnprocessed THEN FirstUnprocessed - 1 ELSE Len(nodes)

\* The list as a pool of work.  A flag that an earlier instance left set means
\* nothing before the producer runs.
Pool == INSTANCE WorkPool WITH
            Workers <- Consumers, produced <- Len(nodes), taken <- Taken,
            hand <- mine, log <- report,
            closed <- finished /\ pc[Producer] # "none",
            left <- {c \in Consumers : pc[c] = "exited"}

\* The linked list under its semaphore is a pool of work: every step of a process, in
\* whatever order they come, whoever is killed on the way, hands out the
\* next block to one consumer, reports it once, closes the pool or changes nothing.
RefinesPool == Pool!Spec

\* Once used_memory has reached total_size no further block is written: the
\* producer then says "no more memory, finished" (producer.c:23).
ProducerStopsWhenFull ==
    pc[Producer] = "p_write" => used < TotalSize
=============================================================================
