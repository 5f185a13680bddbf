---------------------------- MODULE SysVProdCons ----------------------------
(***************************************************************************)
(* module3/04: main.c and ipc_utils.c around the producer and consumers.   *)
(* main creates a System V segment and a semaphore set, forks the producer *)
(* and the consumers, reaps them and removes both objects.  SIGINT and     *)
(* SIGTERM may end any of the processes at any step; their handler, which  *)
(* the children inherit, removes the objects under everyone else's feet.   *)
(***************************************************************************)
EXTENDS ProducerConsumer

CONSTANTS
    ShmId, SemId,  \* the identifiers shmget and semget return
    MaxSignals     \* bound on the signals delivered in one behaviour

ASSUME SysVAssumption == ShmId \in Nat /\ SemId \in Nat /\ MaxSignals \in Nat

VARIABLES
    main,     \* where main() is
    shmLive,  \* the segment exists
    signals   \* signals delivered so far

vars == <<main, shmLive, signals, pcVars>>

MainRuns == {"init_shm", "init_sem", "fork_producer", "fork_consumers",
             "wait_consumers", "wait_producer"}
MainEnds == {"done", "failed", "killed"}

\* An earlier instance that was killed may have left both objects behind, the
\* semaphore up or down and producer_finished set.
Init == /\ main = "init_shm"
        /\ signals = 0
        /\ shmLive \in BOOLEAN /\ semLive \in BOOLEAN
        /\ sem \in {0, 1} /\ finished \in BOOLEAN
        /\ PCInit

\* cleanup_all_ipc: an identifier of 0 is taken for "not created".
cleanup_all_ipc == /\ shmLive' = (shmLive /\ ShmId = 0)
                   /\ semLive' = (semLive /\ SemId = 0)
                   /\ UNCHANGED sem

-----------------------------------------------------------------------------
InitShm == /\ main = "init_shm"
           /\ \/ /\ main' = "init_sem" /\ shmLive' = TRUE  \* memset clears the header
                 /\ nodes' = <<>> /\ finished' = FALSE
              \/ /\ main' = "failed"                       \* shmget or shmat fails
                 /\ shmLive' \in {shmLive, FALSE}
                 /\ UNCHANGED listVars
           /\ UNCHANGED <<signals, sem, semLive, pc, prodVars, consVars>>

InitSem == /\ main = "init_sem"
           /\ \/ /\ main' = "fork_producer"
                 /\ semLive' = TRUE /\ sem' = 1            \* SETVAL, also on an old set
                 /\ UNCHANGED shmLive
              \/ /\ main' = "failed"                       \* semget or SETVAL fails
                 /\ semLive' \in {semLive, TRUE} /\ UNCHANGED sem
                 /\ shmLive' = (ShmId = 0)                 \* cleanup_shared_memory
           /\ UNCHANGED <<signals, pc, listVars, prodVars, consVars>>

ForkProducer == /\ main = "fork_producer"
                /\ main' = "fork_consumers"
                /\ Goto(Producer, "p_top")
                /\ UNCHANGED <<shmLive, signals, sem, semLive, listVars, prodVars, consVars>>

ForkConsumer(c) == /\ main = "fork_consumers"
                   /\ pc[c] = "none"
                   /\ Goto(c, "c_lock")
                   /\ main' = IF \E d \in Consumers \ {c} : pc[d] = "none"
                                THEN main ELSE "wait_consumers"
                   /\ UNCHANGED <<shmLive, signals, sem, semLive, listVars, prodVars, consVars>>

\* A failing fork or malloc removes the objects, whatever children already run.
MainAborts == /\ main \in {"fork_producer", "fork_consumers"}
              /\ main' = "failed"
              /\ cleanup_all_ipc
              /\ UNCHANGED <<signals, pc, listVars, prodVars, consVars>>

\* Mutant of WaitConsumers: waitpid is called for one consumer only.
WaitOneConsumer == /\ main = "wait_consumers"
                   /\ \E c \in Consumers : pc[c] \in Gone
                   /\ main' = "wait_producer"
                   /\ UNCHANGED <<shmLive, signals, pcVars>>

WaitConsumers == /\ main = "wait_consumers"
                 /\ \A c \in Consumers : pc[c] \in Gone
                 /\ main' = "wait_producer"
                 /\ UNCHANGED <<shmLive, signals, pcVars>>

WaitProducer == /\ main = "wait_producer"
                /\ pc[Producer] \in Gone
                /\ main' = "done"
                /\ cleanup_all_ipc
                /\ UNCHANGED <<signals, pc, listVars, prodVars, consVars>>

\* Mutant of SignalChild: the handler removes the segment and keeps the semaphore.
SignalChildKeepsSem(p) == /\ signals < MaxSignals
                          /\ signals' = signals + 1
                          /\ Die(p)
                          /\ shmLive' = (shmLive /\ ShmId = 0)
                          /\ UNCHANGED <<main, sem, semLive>>

\* signal_handler in a child and in main.
SignalChild(p) == /\ signals < MaxSignals
                  /\ signals' = signals + 1
                  /\ Die(p)
                  /\ cleanup_all_ipc
                  /\ UNCHANGED main

SignalMain == /\ signals < MaxSignals
              /\ signals' = signals + 1
              /\ main \in MainRuns
              /\ main' = "killed"
              /\ CASE main = "init_shm" -> UNCHANGED <<shmLive, sem, semLive>>
                   [] main = "init_sem" -> /\ shmLive' = (ShmId = 0)
                                           /\ UNCHANGED <<sem, semLive>>
                   [] OTHER -> cleanup_all_ipc
              /\ UNCHANGED <<pc, listVars, prodVars, consVars>>

MainStep == \/ InitShm \/ InitSem \/ ForkProducer
            \/ \E c \in Consumers : ForkConsumer(c)
            \/ WaitConsumers \/ WaitProducer

ChildStep(p) == ProcStep(p) /\ UNCHANGED <<main, shmLive, signals>>

AllGone == /\ main \in MainEnds
           /\ \A p \in Procs : pc[p] \in Gone \cup {"none"}

\* Everything has ended: not a deadlock.
Ended == AllGone /\ UNCHANGED vars

Next == \/ MainStep \/ MainAborts \/ SignalMain
        \/ \E p \in Procs : ChildStep(p) \/ SignalChild(p)
        \/ Ended

Spec == Init /\ [][Next]_vars

\* The scheduler runs every process, and semop serves blocked callers in the
\* order they came: a process that can take the semaphore again and again gets it.
FairSpec == /\ Spec
            /\ WF_vars(MainStep)
            /\ \A p \in Procs : SF_vars(ChildStep(p))

-----------------------------------------------------------------------------
TypeOK == /\ PCTypeOK
          /\ main \in MainRuns \cup MainEnds
          /\ shmLive \in BOOLEAN
          /\ signals \in 0..MaxSignals

\* While the semaphore can be operated on, a value of 0 means that some process
\* holds it and will post it: the handler that ends a holder also removes the
\* set (main.c:12), and SETVAL repairs what an earlier instance left (ipc_utils.c:60).
HolderIsAlive ==
    (main \notin {"init_shm", "init_sem"} /\ SemId > 0 /\ semLive /\ sem = 0) =>
        \/ \E p \in Procs : InCS(p)
        \/ main \in MainEnds /\ \A p \in Procs : pc[p] = "none"

\* When main returned through its last line with no signal, each block the
\* producer linked was reported by one consumer, and no object is left behind.
CompleteRun ==
    (main = "done" /\ signals = 0) =>
        /\ \A c \in Consumers : pc[c] = "exited" /\ mine[c] = 0
        /\ \A i \in DOMAIN nodes : \E c \in Consumers : Reported(c, i)
        /\ (ShmId > 0 => ~shmLive) /\ (SemId > 0 => ~semLive)

\* Every process ends, signals and failures of fork included; the exception is
\* a producer that faulted, for then producer_finished stays false and the
\* consumers poll for ever.
Termination == <>(AllGone \/ pc[Producer] = "faulted")
=============================================================================
