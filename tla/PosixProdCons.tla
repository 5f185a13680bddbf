---------------------------- MODULE PosixProdCons ---------------------------
(***************************************************************************)
(* module3/05: main.c and ipc_utils.c of the POSIX variant around the same *)
(* producer and consumers.  It differs from module3/04 in two ways that    *)
(* matter.  sem_open(O_CREAT) takes a semaphore that already exists with   *)
(* the value it has; and unlinking a name takes nothing away from the      *)
(* processes that have the object open, so a handler that ends a process   *)
(* inside its critical section leaves the others waiting for a post.       *)
(***************************************************************************)
EXTENDS ProducerConsumer

CONSTANT MaxSignals  \* bound on the signals delivered in one behaviour

ASSUME PosixAssumption == MaxSignals \in Nat

VARIABLES
    main,     \* where main() is
    shmName,  \* /producer_consumer_shm exists
    semName,  \* /producer_consumer_sem exists
    left,     \* what an earlier instance left under that name: none, up or down
    signals   \* signals delivered so far

vars == <<main, shmName, semName, left, signals, pcVars>>

MainRuns == {"init_shm", "init_sem", "fork_producer", "fork_consumers",
             "wait_consumers", "wait_producer"}
MainEnds == {"done", "failed", "killed"}

Init == /\ main = "init_shm"
        /\ signals = 0
        /\ left \in {"none", "up", "down"}
        /\ shmName \in BOOLEAN /\ semName = (left # "none")
        /\ sem = IF left = "down" THEN 0 ELSE 1
        /\ semLive = TRUE  \* unlinking never invalidates an open semaphore
        /\ finished \in BOOLEAN
        /\ PCInit

cleanup_all_ipc == shmName' = FALSE /\ semName' = FALSE

producer_function    == ProducerStep
consumer_function(c) == ConsumerStep(c)

-----------------------------------------------------------------------------
InitShm == /\ main = "init_shm"
           /\ \/ /\ main' = "init_sem" /\ shmName' = TRUE
                 /\ nodes' = <<>> /\ finished' = FALSE
              \/ /\ main' = "failed"              \* shm_open fails, or a later call
                 /\ shmName' \in {shmName, FALSE} \* does and the name is unlinked
                 /\ UNCHANGED listVars
           /\ UNCHANGED <<semName, left, signals, sem, semLive, pc, prodVars, consVars>>

InitSem == /\ main = "init_sem"
           /\ \/ /\ main' = "fork_producer"
                 /\ semName' = TRUE
                 /\ sem' = IF semName THEN sem ELSE 1
                 /\ UNCHANGED shmName
              \/ /\ main' = "failed"
                 /\ shmName' = FALSE              \* cleanup_shared_memory
                 /\ UNCHANGED <<semName, sem>>
           /\ UNCHANGED <<left, signals, semLive, pc, listVars, prodVars, consVars>>

ForkProducer == /\ main = "fork_producer"
                /\ main' = "fork_consumers"
                /\ Goto(Producer, "p_top")
                /\ UNCHANGED <<shmName, semName, left, signals, sem, semLive,
                               listVars, prodVars, consVars>>

ForkConsumer(c) == /\ main = "fork_consumers"
                   /\ pc[c] = "none"
                   /\ Goto(c, "c_lock")
                   /\ main' = IF \E d \in Consumers \ {c} : pc[d] = "none"
                                THEN main ELSE "wait_consumers"
                   /\ UNCHANGED <<shmName, semName, left, signals, sem, semLive,
                                  listVars, prodVars, consVars>>

\* fork or malloc fails
MainAborts == /\ main \in {"fork_producer", "fork_consumers"}
              /\ main' = "failed"
              /\ cleanup_all_ipc
              /\ UNCHANGED <<left, signals, pcVars>>

WaitConsumers == /\ main = "wait_consumers"
                 /\ \A c \in Consumers : pc[c] \in Gone
                 /\ main' = "wait_producer"
                 /\ UNCHANGED <<shmName, semName, left, signals, pcVars>>

WaitProducer == /\ main = "wait_producer"
                /\ pc[Producer] \in Gone
                /\ main' = "done"
                /\ cleanup_all_ipc
                /\ UNCHANGED <<left, signals, pcVars>>

\* signal_handler in a child and in main; before init_shared_memory and
\* init_semaphore have run, their names are still NULL and are not unlinked.
SignalChild(p) == /\ signals < MaxSignals
                  /\ signals' = signals + 1
                  /\ Die(p)
                  /\ cleanup_all_ipc
                  /\ UNCHANGED <<main, left, sem, semLive>>

SignalMain == /\ signals < MaxSignals
              /\ signals' = signals + 1
              /\ main \in MainRuns
              /\ main' = "killed"
              /\ shmName' = (shmName /\ main = "init_shm")
              /\ semName' = (semName /\ main \in {"init_shm", "init_sem"})
              /\ UNCHANGED <<left, pcVars>>

MainStep == \/ InitShm \/ InitSem \/ ForkProducer
            \/ \E c \in Consumers : ForkConsumer(c)
            \/ WaitConsumers \/ WaitProducer

ChildStep(p) == /\ \/ p = Producer /\ producer_function
                   \/ p \in Consumers /\ consumer_function(p)
                /\ UNCHANGED <<main, shmName, semName, left, signals>>

Next == \/ MainStep \/ MainAborts \/ SignalMain
        \/ \E p \in Procs : ChildStep(p) \/ SignalChild(p)

Spec == Init /\ [][Next]_vars

\* The scheduler runs every process, and the sleeps between two rounds let a
\* waiter that can take the semaphore again and again have it.
FairSpec == /\ Spec
            /\ WF_vars(MainStep)
            /\ \A p \in Procs : SF_vars(ChildStep(p))

-----------------------------------------------------------------------------
AllGone == /\ main \in MainEnds
           /\ \A p \in Procs : pc[p] \in Gone \cup {"none"}

TypeOK == /\ PCTypeOK
          /\ main \in MainRuns \cup MainEnds
          /\ shmName \in BOOLEAN /\ semName \in BOOLEAN
          /\ left \in {"none", "up", "down"}
          /\ signals \in 0..MaxSignals

\* The semaphore is down and nobody will post it.
SemaphoreLost == /\ main \notin {"init_shm", "init_sem"}
                 /\ sem = 0
                 /\ \A p \in Procs : ~InCS(p)

\* The semaphore is lost only when a handler ended its holder (main.c:12) or an
\* earlier instance left it down (ipc_utils.c:87); no interleaving of locks
\* and unlocks alone loses it.
LostOnlyByKillOrLeftover == SemaphoreLost => signals > 0 \/ left = "down"

\* When main returned through its last line with no signal, each block was
\* reported by one consumer and both names are gone.
CompleteRun ==
    (main = "done" /\ signals = 0) =>
        /\ \A c \in Consumers : pc[c] = "exited" /\ mine[c] = 0
        /\ \A i \in DOMAIN nodes : \E c \in Consumers : Reported(c, i)
        /\ ~shmName /\ ~semName

\* The producer ended without setting producer_finished.
ProducerLost == pc[Producer] \in {"dead", "faulted"} /\ ~finished

\* Every process ends unless the semaphore was lost, or the producer was before it
\* set producer_finished (then the consumers poll for ever): the program has
\* no third way to hang.
TerminatesUnlessLost == <>(AllGone \/ SemaphoreLost \/ ProducerLost)
=============================================================================
