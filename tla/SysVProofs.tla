----------------------------- MODULE SysVProofs -----------------------------
(***************************************************************************)
(* The safety properties of the System V program (module3/04), for every   *)
(* number of consumers, every set of block lengths, every segment size and *)
(* every number of signals.                                                *)
(***************************************************************************)
EXTENDS SysVProdCons, ProducerConsumerProofs

BeforeFork == {"init_shm", "init_sem", "fork_producer"}

\* Until the first fork there are no children and no blocks; the header is clean
\* once init_shared_memory ran, the semaphore is up once init_semaphore did.
NothingForked ==
    /\ main \in BeforeFork => PCInit
    /\ main \in {"init_sem", "fork_producer"} => ~finished
    /\ main = "fork_producer" => semLive /\ sem = 1

\* While main waits and no signal came, the semaphore is there and every
\* child that ended did so on its own.
NoAccident ==
    signals = 0 =>
        /\ main # "killed"
        /\ main \in {"fork_producer", "fork_consumers", "wait_consumers", "wait_producer"}
             => semLive
        /\ main # "failed" => \A c \in Consumers : pc[c] # "dead"

\* What main knows when waitpid returned, and leaves behind when it returns.
Reaped ==
    /\ main \in {"wait_producer", "done"} => \A c \in Consumers : pc[c] \in Gone
    /\ main = "done" => (ShmId > 0 => ~shmLive) /\ (SemId > 0 => ~semLive)

\* The inductive invariant of the whole program.
SysVInv == /\ PCInv
           /\ TypeOK
           /\ NothingForked
           /\ HolderIsAlive
           /\ NoAccident
           /\ Reaped

-----------------------------------------------------------------------------
\* The inductive invariant holds before main creates anything.
LEMMA SysVInit == Init => SysVInv
<1> SUFFICES ASSUME Init PROVE SysVInv
  OBVIOUS
<1>1. PCInv
  BY NoChildrenPCInv DEF Init
<1>2. TypeOK
  BY <1>1, SysVAssumption DEF PCInv, TypeOK, Init, MainRuns
<1>3. NothingForked /\ HolderIsAlive /\ Reaped
  BY DEF Init, NothingForked, BeforeFork, HolderIsAlive, Reaped
<1>4. NoAccident
  BY DEF Init, PCInit, NoAccident, Procs
<1> QED
  BY <1>1, <1>2, <1>3, <1>4 DEF SysVInv

\* The steps of the children.
LEMMA SysVChild ==
    ASSUME SysVInv, NEW p \in Procs, ChildStep(p)
    PROVE  SysVInv'
<1>0. ProcStep(p) /\ UNCHANGED <<main, shmLive, signals>> /\ PCInv /\ PCTypeOK /\ pc[p] # "none"
      /\ pc[p] \notin Gone
  BY ChildNotNone DEF ChildStep, SysVInv, PCInv
<1>1. PCInv'
  BY <1>0, ProcStepKeepsPCInv
<1>2. TypeOK'
  BY <1>0, <1>1 DEF SysVInv, TypeOK, PCInv
<1>3. main \notin BeforeFork
  BY <1>0 DEF SysVInv, NothingForked, PCInit
<1>4. NothingForked'
  BY <1>0, <1>3 DEF NothingForked, BeforeFork
<1>5. HolderIsAlive'
  <2>1. SUFFICES ASSUME SemId > 0, semLive', sem' = 0
                 PROVE  \E q \in Procs : InCS(q)'
    BY DEF HolderIsAlive
  <2>2. CASE InCS(p)'
    BY <2>2
  <2>3. CASE sem = 0 /\ ~InCS(p)
    <3>1. PICK q \in Procs : InCS(q)
      BY <1>0, <1>3, <2>1, <2>3, ChildMoves DEF SysVInv, HolderIsAlive, BeforeFork
    <3> QED
      BY <1>0, <2>3, <3>1, ChildMoves DEF InCS
  <2> QED
    BY <1>0, <2>1, <2>2, <2>3, ChildHolds, ChildMoves
<1>6. NoAccident'
  BY <1>0, <1>3, ChildMoves DEF SysVInv, NoAccident, Procs, Reaped, TypeOK, MainRuns, MainEnds, BeforeFork
<1>7. Reaped'
  BY <1>0, ChildMoves DEF SysVInv, Reaped, Procs
<1> QED
  BY <1>1, <1>2, <1>4, <1>5, <1>6, <1>7 DEF SysVInv

-----------------------------------------------------------------------------
\* cleanup_all_ipc removes what has a positive identifier.
LEMMA CleanupRemoves ==
    ASSUME cleanup_all_ipc, shmLive \in BOOLEAN, semLive \in BOOLEAN
    PROVE  /\ shmLive' \in BOOLEAN /\ semLive' \in BOOLEAN /\ sem' = sem
           /\ ShmId > 0 => shmLive' = FALSE
           /\ SemId > 0 => semLive' = FALSE
<1>1. (ShmId > 0 => ShmId # 0) /\ (SemId > 0 => SemId # 0)
  BY SysVAssumption
<1> QED
  BY <1>1, Zenon DEF cleanup_all_ipc

\* The steps of main, one per line of its life.
LEMMA SysVMain ==
    ASSUME SysVInv, MainStep \/ MainAborts
    PROVE  SysVInv'
<1> USE SysVAssumption
<1>0. PCInv /\ TypeOK /\ NothingForked /\ HolderIsAlive /\ NoAccident /\ Reaped /\ PCTypeOK
  BY DEF SysVInv, PCInv
<1>1. CASE InitShm
  <2>1. (PCInit /\ sem \in {0, 1} /\ semLive \in BOOLEAN /\ finished \in BOOLEAN)'
    BY <1>0, <1>1 DEF InitShm, NothingForked, BeforeFork, PCInit, PCTypeOK, listVars, prodVars, consVars
  <2>2. PCInv'
    BY <2>1, NoChildrenPCInv, PTL
  <2>3. TypeOK'
    BY <1>0, <1>1, <2>2 DEF InitShm, TypeOK, PCInv, MainRuns, MainEnds
  <2>4. NothingForked' /\ Reaped'
    BY <1>0, <1>1, <2>1 DEF InitShm, NothingForked, Reaped, BeforeFork
  <2>5. \A p \in Procs : pc'[p] = "none"
    BY <2>1 DEF PCInit
  <2>6. HolderIsAlive' /\ NoAccident'
    BY <1>1, <2>5 DEF InitShm, HolderIsAlive, NoAccident, MainEnds, Procs
  <2> QED
    BY <2>2, <2>3, <2>4, <2>6 DEF SysVInv
<1>2. CASE InitSem
  <2>1. (PCInit /\ sem \in {0, 1} /\ semLive \in BOOLEAN /\ finished \in BOOLEAN)'
    BY <1>0, <1>2 DEF InitSem, NothingForked, BeforeFork, PCInit, PCTypeOK, listVars, prodVars, consVars
  <2>2. PCInv'
    BY <2>1, NoChildrenPCInv, PTL
  <2>3. TypeOK'
    BY <1>0, <1>2, <2>2 DEF InitSem, TypeOK, PCInv, MainRuns, MainEnds
  <2>4. NothingForked' /\ Reaped'
    BY <1>0, <1>2, <2>1 DEF InitSem, NothingForked, Reaped, BeforeFork, listVars
  <2>5. \A p \in Procs : pc'[p] = "none"
    BY <2>1 DEF PCInit
  <2>6. HolderIsAlive' /\ NoAccident'
    <3>1. HolderIsAlive'
      BY <1>2, <2>5 DEF InitSem, HolderIsAlive, MainEnds
    <3>2. NoAccident'
      BY <1>2, <2>5 DEF InitSem, NoAccident, Procs
    <3> QED
      BY <3>1, <3>2
  <2> QED
    BY <2>2, <2>3, <2>4, <2>6 DEF SysVInv
<1>3. CASE ForkProducer
  <2>1. PCInv'
    BY <1>0, <1>3, ForkKeepsPCInv DEF ForkProducer, NothingForked, BeforeFork, PCInit, Procs
  <2>2. TypeOK'
    BY <1>0, <1>3, <2>1 DEF ForkProducer, TypeOK, PCInv, MainRuns, MainEnds
  <2>3. NothingForked' /\ HolderIsAlive' /\ Reaped'
    BY <1>0, <1>3 DEF ForkProducer, NothingForked, HolderIsAlive, Reaped, BeforeFork
  <2>4. NoAccident'
    BY <1>0, <1>3, PCAssumption DEF ForkProducer, NoAccident, NothingForked, PCTypeOK, Goto, Procs
  <2> QED
    BY <2>1, <2>2, <2>3, <2>4 DEF SysVInv
<1>4. ASSUME NEW c \in Consumers, ForkConsumer(c) PROVE SysVInv'
  <2>0. c \in Procs /\ c # Producer
    BY PCAssumption DEF Procs
  <2>1. PCInv'
    BY <1>0, <1>4, <2>0, ForkKeepsPCInv DEF ForkConsumer
  <2>2. TypeOK'
    BY <1>0, <1>4, <2>1 DEF ForkConsumer, TypeOK, PCInv, MainRuns, MainEnds
  <2>3. NothingForked' /\ Reaped'
    BY <1>0, <1>4 DEF ForkConsumer, NothingForked, Reaped, BeforeFork
  <2>4. HolderIsAlive'
    <3>1. \A q \in Procs : InCS(q) => InCS(q)'
      BY <1>0, <1>4, <2>0 DEF ForkConsumer, Goto, InCS, Inside, UnlockAt, ProdUnlock, ConsUnlock, PCTypeOK
    <3> QED
      BY <1>0, <1>4, <3>1 DEF ForkConsumer, HolderIsAlive, MainEnds
  <2>5. NoAccident'
    BY <1>0, <1>4, <2>0 DEF ForkConsumer, NoAccident, PCTypeOK, Goto, Procs
  <2> QED
    BY <2>1, <2>2, <2>3, <2>4, <2>5 DEF SysVInv
<1>5. CASE MainAborts
  <2>0. /\ shmLive' \in BOOLEAN /\ semLive' \in BOOLEAN /\ sem' = sem
        /\ ShmId > 0 => shmLive' = FALSE
        /\ SemId > 0 => semLive' = FALSE
    BY <1>0, <1>5, CleanupRemoves DEF MainAborts, TypeOK, PCTypeOK
  <2>1. PCInv'
    BY <1>0, <1>5, <2>0, StutterKeepsPCInv DEF MainAborts
  <2>2. TypeOK'
    BY <1>0, <1>5, <2>0, <2>1 DEF MainAborts, TypeOK, PCInv, MainRuns, MainEnds
  <2>3. NothingForked' /\ HolderIsAlive'
    BY <1>5, <2>0 DEF MainAborts, NothingForked, HolderIsAlive, BeforeFork
  <2>4. NoAccident' /\ Reaped'
    BY <1>0, <1>5, <2>0 DEF MainAborts, NoAccident, Reaped
  <2> QED
    BY <2>1, <2>2, <2>3, <2>4 DEF SysVInv
<1>6. CASE WaitConsumers
  <2>1. UNCHANGED <<sem, semLive, pc, nodes, finished, used, draft, since, allDone, view, cur, mine, report>>
    BY <1>6 DEF WaitConsumers, pcVars, listVars, prodVars, consVars
  <2>2. PCInv'
    BY <1>0, <2>1, StutterKeepsPCInv DEF listVars, prodVars, consVars, PCTypeOK
  <2>3. TypeOK' /\ NothingForked' /\ HolderIsAlive' /\ NoAccident' /\ Reaped'
    BY <1>0, <1>6, <2>1, <2>2 DEF WaitConsumers, TypeOK, PCInv, NothingForked, HolderIsAlive,
         NoAccident, Reaped, BeforeFork, MainRuns, MainEnds, InCS
  <2> QED
    BY <2>2, <2>3 DEF SysVInv
<1>7. CASE WaitProducer
  <2>0. /\ shmLive' \in BOOLEAN /\ semLive' \in BOOLEAN /\ sem' = sem
        /\ ShmId > 0 => shmLive' = FALSE
        /\ SemId > 0 => semLive' = FALSE
    BY <1>0, <1>7, CleanupRemoves DEF WaitProducer, TypeOK, PCTypeOK
  <2>1. PCInv'
    BY <1>0, <1>7, <2>0, StutterKeepsPCInv DEF WaitProducer
  <2>2. TypeOK'
    BY <1>0, <1>7, <2>0, <2>1 DEF WaitProducer, TypeOK, PCInv, MainRuns, MainEnds
  <2>3. NothingForked' /\ HolderIsAlive'
    BY <1>7, <2>0 DEF WaitProducer, NothingForked, HolderIsAlive, BeforeFork
  <2>4. NoAccident' /\ Reaped'
    BY <1>0, <1>7, <2>0 DEF WaitProducer, NoAccident, Reaped
  <2> QED
    BY <2>1, <2>2, <2>3, <2>4 DEF SysVInv
<1> QED
  BY <1>1, <1>2, <1>3, <1>4, <1>5, <1>6, <1>7 DEF MainStep

\* The signal handler, in a child and in main.
LEMMA SysVSignals ==
    ASSUME SysVInv, SignalMain \/ \E p \in Procs : SignalChild(p)
    PROVE  SysVInv'
<1> USE SysVAssumption
<1>0. PCInv /\ TypeOK /\ NothingForked /\ HolderIsAlive /\ NoAccident /\ Reaped /\ PCTypeOK
      /\ shmLive \in BOOLEAN /\ semLive \in BOOLEAN /\ signals \in 0..MaxSignals
  BY DEF SysVInv, PCInv, TypeOK, PCTypeOK
<1>1. ASSUME NEW p \in Procs, SignalChild(p) PROVE SysVInv'
  <2>0. /\ shmLive' \in BOOLEAN /\ semLive' \in BOOLEAN /\ sem' = sem
        /\ ShmId > 0 => shmLive' = FALSE
        /\ SemId > 0 => semLive' = FALSE
    BY <1>0, <1>1, CleanupRemoves DEF SignalChild
  <2>1. PCInv'
    BY <1>0, <1>1, <2>0, DieKeepsPCInv DEF SignalChild
  <2>2. TypeOK'
    BY <1>0, <1>1, <2>0, <2>1 DEF SignalChild, TypeOK, PCInv
  <2>3. main \notin BeforeFork /\ main' = main
    BY <1>0, <1>1 DEF SignalChild, NothingForked, PCInit, Die
  <2>4. NothingForked' /\ HolderIsAlive'
    BY <2>0, <2>3 DEF NothingForked, HolderIsAlive, BeforeFork
  <2>5. NoAccident'
    BY <1>0, <1>1 DEF SignalChild, NoAccident
  <2>6. \A c \in Consumers : pc[c] \in Gone => pc'[c] \in Gone
    BY <1>0, <1>1 DEF SignalChild, Die, Goto, Gone, PCTypeOK, Procs
  <2>7. Reaped'
    BY <1>0, <2>0, <2>3, <2>6 DEF Reaped
  <2> QED
    BY <2>1, <2>2, <2>4, <2>5, <2>7 DEF SysVInv
<1>2. CASE SignalMain
  <2>0. /\ shmLive' \in BOOLEAN /\ semLive' \in BOOLEAN /\ sem' = sem
        /\ main \notin {"init_shm", "init_sem"} /\ SemId > 0 => semLive' = FALSE
    <3>1. CASE main = "init_shm"
      BY <1>0, <1>2, <3>1 DEF SignalMain
    <3>2. CASE main = "init_sem"
      BY <1>0, <1>2, <3>2 DEF SignalMain
    <3>3. CASE main \notin {"init_shm", "init_sem"}
      <4>1. cleanup_all_ipc
        BY <1>2, <3>3 DEF SignalMain
      <4> QED
        BY <1>0, <4>1, CleanupRemoves
    <3> QED
      BY <3>1, <3>2, <3>3
  <2>1. PCInv'
    BY <1>0, <1>2, <2>0, StutterKeepsPCInv DEF SignalMain
  <2>2. TypeOK'
    BY <1>0, <1>2, <2>0, <2>1 DEF SignalMain, TypeOK, PCInv, MainEnds
  <2>3. main \in {"init_shm", "init_sem"} => \A p \in Procs : pc'[p] = "none"
    BY <1>0, <1>2 DEF SignalMain, NothingForked, BeforeFork, PCInit
  <2>4. HolderIsAlive'
    BY <1>2, <2>0, <2>3 DEF SignalMain, HolderIsAlive, MainEnds
  <2>5. NothingForked' /\ NoAccident' /\ Reaped'
    BY <1>0, <1>2 DEF SignalMain, NothingForked, NoAccident, Reaped, BeforeFork
  <2> QED
    BY <2>1, <2>2, <2>4, <2>5 DEF SysVInv
<1> QED
  BY <1>1, <1>2

\* Every step of the program keeps the invariant.
LEMMA SysVNext == SysVInv /\ [Next]_vars => SysVInv'
<1> SUFFICES ASSUME SysVInv, [Next]_vars PROVE SysVInv'
  OBVIOUS
<1>1. ASSUME UNCHANGED vars PROVE SysVInv'
  <2>1. UNCHANGED <<main, shmLive, signals, sem, semLive, pc, listVars, prodVars, consVars>>
    BY <1>1 DEF vars, pcVars
  <2>2. PCInv /\ semLive' \in BOOLEAN /\ PCTypeOK
    BY <2>1 DEF SysVInv, PCInv, PCTypeOK
  <2>3. PCInv'
    BY <2>1, <2>2, StutterKeepsPCInv
  <2>4. UNCHANGED <<nodes, finished, used, draft, since, allDone, view, cur, mine, report>>
    BY <2>1 DEF listVars, prodVars, consVars
  <2>5. TypeOK' /\ HolderIsAlive' /\ NoAccident' /\ Reaped'
    BY <2>1, <2>3 DEF SysVInv, PCInv, TypeOK, HolderIsAlive, NoAccident, Reaped, InCS
  <2>6. NothingForked'
    BY <2>1, <2>4 DEF SysVInv, NothingForked, PCInit
  <2> QED
    BY <2>3, <2>5, <2>6 DEF SysVInv
<1> QED
  BY <1>1, SysVChild, SysVMain, SysVSignals DEF Next, Ended

-----------------------------------------------------------------------------
(* The theorems. *)

\* The inductive invariant holds in every state of the program.
THEOREM SysVInvariant == Spec => []SysVInv
BY SysVInit, SysVNext, PTL DEF Spec

\* Every variable of the program keeps its type, the semaphore never passes 1.
THEOREM SysVTypeCorrect == Spec => []TypeOK
<1>1. SysVInv => TypeOK
  BY DEF SysVInv
<1> QED
  BY <1>1, SysVInvariant, PTL

\* One process at a time between semaphore_lock and semaphore_unlock.
THEOREM SysVMutualExclusion == Spec => []MutualExclusion
<1>1. SysVInv => MutualExclusion
  BY DEF SysVInv, PCInv
<1> QED
  BY <1>1, SysVInvariant, PTL

\* No block is lost, taken twice or reported twice, for any number of consumers.
THEOREM SysVClaimedOnce == Spec => []ClaimedOnce
<1>1. SysVInv => ClaimedOnce
  BY DEF SysVInv, PCInv
<1> QED
  BY <1>1, SysVInvariant, PTL

\* A consumer that exits normally leaves no block behind, then or later.
THEOREM SysVExitMeansDrained == Spec => []ExitMeansDrained
<1>1. SysVInv => ExitMeansDrained
  BY DEF SysVInv, PCInv
<1> QED
  BY <1>1, SysVInvariant, PTL

\* Blocks never overlap, and until used_memory passes total_size they overrun
\* the segment by at most 60 bytes.
THEOREM SysVMemory == Spec => [](NoOverlap /\ OverrunBounded)
<1>1. SysVInv => NoOverlap /\ OverrunBounded
  BY PCInvGivesMemory DEF SysVInv
<1> QED
  BY <1>1, SysVInvariant, PTL

\* Signals included, a semaphore that is down has a living holder or is removed.
THEOREM SysVHolderIsAlive == Spec => []HolderIsAlive
<1>1. SysVInv => HolderIsAlive
  BY DEF SysVInv
<1> QED
  BY <1>1, SysVInvariant, PTL

\* A run that main ends on its last line processed every block and cleaned up.
THEOREM SysVCompleteRun == Spec => []CompleteRun
<1>1. SysVInv => CompleteRun
  <2> SUFFICES ASSUME SysVInv, main = "done", signals = 0
               PROVE  /\ \A c \in Consumers : pc[c] = "exited" /\ mine[c] = 0
                      /\ \A i \in DOMAIN nodes : \E c \in Consumers : Reported(c, i)
                      /\ (ShmId > 0 => ~shmLive) /\ (SemId > 0 => ~semLive)
    BY DEF CompleteRun
  <2>0. PCInv /\ PCTypeOK /\ Reaped /\ NoAccident /\ TypeOK
    BY DEF SysVInv, PCInv
  <2>1. \A c \in Consumers : pc[c] = "exited"
    BY <2>0 DEF Reaped, NoAccident, Gone, PCTypeOK, ConsPC, ConsLock, ConsUnlock
  <2> QED
    BY <2>0, <2>1, AllExitedAllReported DEF Reaped
<1> QED
  BY <1>1, SysVInvariant, PTL

-----------------------------------------------------------------------------
(* The program implements the pool. *)

\* What the refinement needs of main: no consumer without a producer.
SysVPoolInv == /\ SysVInv
               /\ PoolInv
               /\ main = "fork_consumers" => pc[Producer] # "none"

\* Every step keeps the order of the pool and is one of its steps, or none.
LEMMA SysVPoolNext ==
    SysVPoolInv /\ [Next]_vars => SysVPoolInv' /\ [Pool!Next]_(Pool!vars)
<1> SUFFICES ASSUME SysVPoolInv, [Next]_vars
             PROVE  SysVPoolInv' /\ [Pool!Next]_(Pool!vars)
  OBVIOUS
<1>0. /\ SysVInv /\ PCInv /\ PoolInv /\ PCTypeOK /\ NothingForked
      /\ main = "fork_consumers" => pc[Producer] # "none"
      /\ pc \in [Procs -> ProdPC \cup ConsPC]
  BY DEF SysVPoolInv, SysVInv, PCInv, PCTypeOK
<1>1. SysVInv'
  BY <1>0, SysVNext
<1>2. ASSUME NEW p \in Procs, ChildStep(p)
      PROVE  SysVPoolInv' /\ [Pool!Next]_(Pool!vars)
  <2>1. ProcStep(p) /\ main' = main
    BY <1>2 DEF ChildStep
  <2>2. main = "fork_consumers" => pc'[Producer] # "none"
    BY <1>0, <2>1, FlagAndExits
  <2> QED
    BY <1>0, <1>1, <2>1, <2>2, PoolInvStep, ProcStepIsPoolStep DEF SysVPoolInv
<1>3. ASSUME InitShm \/ InitSem \/ ForkProducer \/ (\E c \in Consumers : ForkConsumer(c))
             \/ WaitConsumers \/ WaitProducer \/ MainAborts \/ SignalMain
             \/ (\E p \in Procs : SignalChild(p)) \/ UNCHANGED vars
      PROVE  SysVPoolInv' /\ [Pool!Next]_(Pool!vars)
  <2>1. UNCHANGED <<nodes, mine, report, cur>>
    BY <1>0, <1>3 DEF InitShm, InitSem, ForkProducer, ForkConsumer, WaitConsumers, WaitProducer,
       MainAborts, SignalMain, SignalChild, Die, vars, pcVars, listVars, consVars,
       NothingForked, BeforeFork, PCInit
  <2>2. /\ (finished' /\ pc'[Producer] # "none") <=> (finished /\ pc[Producer] # "none")
        /\ \A c \in Consumers : (pc'[c] = "exited") <=> (pc[c] = "exited")
        /\ \A c \in Consumers : pc'[c] = "c_take" => pc[c] = "c_take"
        /\ pc'[Producer] = "none" => /\ pc[Producer] = "none"
                                     /\ \A c \in Consumers : pc[c] = "none" => pc'[c] = "none"
        /\ main' = "fork_consumers" => pc'[Producer] # "none"
    <3>1. CASE InitShm
      BY <1>0, <3>1, PCAssumption DEF InitShm, NothingForked, BeforeFork, PCInit, Procs
    <3>2. CASE InitSem \/ WaitConsumers \/ WaitProducer \/ MainAborts \/ SignalMain \/ UNCHANGED vars
      <4>1. pc' = pc /\ finished' = finished
        BY <3>2 DEF InitSem, WaitConsumers, WaitProducer, MainAborts, SignalMain,
           vars, pcVars, listVars
      <4>2. main' = "fork_consumers" => main = "fork_consumers"
        BY <3>2 DEF InitSem, WaitConsumers, WaitProducer, MainAborts, SignalMain, vars
      <4> QED
        BY <1>0, <4>1, <4>2
    <3>3. CASE ForkProducer
      BY <1>0, <3>3, PCAssumption DEF ForkProducer, NothingForked, BeforeFork, PCInit, Goto, Procs, listVars
    <3>4. ASSUME NEW c \in Consumers, ForkConsumer(c)
          PROVE  /\ finished' = finished /\ pc'[Producer] = pc[Producer] /\ pc[Producer] # "none"
                 /\ \A d \in Consumers : (pc'[d] = "exited") <=> (pc[d] = "exited")
                 /\ \A d \in Consumers : pc'[d] = "c_take" => pc[d] = "c_take"
      BY <1>0, <3>4, PCAssumption DEF ForkConsumer, Goto, Procs, listVars
    <3>5. ASSUME NEW p \in Procs, SignalChild(p)
          PROVE  /\ finished' = finished /\ (pc'[Producer] # "none" <=> pc[Producer] # "none")
                 /\ \A d \in Consumers : (pc'[d] = "exited") <=> (pc[d] = "exited")
                 /\ \A d \in Consumers : pc'[d] = "c_take" => pc[d] = "c_take"
                 /\ \A d \in Consumers : pc[d] = "none" => pc'[d] = "none"
                 /\ main' = main
      BY <1>0, <3>5, PCAssumption DEF SignalChild, Die, Gone, Goto, Procs, listVars
    <3>6. CASE \E c \in Consumers : ForkConsumer(c)
      BY <3>4, <3>6
    <3>7. CASE \E p \in Procs : SignalChild(p)
      BY <1>0, <3>5, <3>7
    <3> QED
      BY <1>3, <3>1, <3>2, <3>3, <3>6, <3>7
  <2>3. UNCHANGED Pool!vars
    BY <2>1, <2>2, OtherStepIsPoolStutter
  <2>4. PoolInv'
    BY <1>0, <2>1, <2>2, OtherStepKeepsPoolInv
  <2> QED
    BY <1>1, <2>2, <2>3, <2>4 DEF SysVPoolInv
<1> QED
  BY <1>2, <1>3 DEF Next, MainStep, Ended

\* For every number of consumers and signals, the program of module3/04 hands out
\* its blocks in order, each to one consumer who reports it once.
THEOREM SysVRefinesPool == Spec => RefinesPool
<1>1. Init => SysVPoolInv /\ Pool!Init
  BY SysVInit, PoolStart DEF SysVPoolInv, Init
<1> QED
  BY <1>1, SysVPoolNext, PTL DEF Spec, RefinesPool, Pool!Spec
=============================================================================
