----------------------------- MODULE PosixProofs ----------------------------
(***************************************************************************)
(* The POSIX program (module3/05): what can lose its semaphore, what a     *)
(* complete run has done, and that it implements the pool of work as the   *)
(* System V program does, for every value of the constants.                *)
(***************************************************************************)
EXTENDS PosixProdCons, ProducerConsumerProofs

BeforeFork == {"init_shm", "init_sem", "fork_producer"}

\* Until the first fork there are no children and no blocks.
NothingForked ==
    /\ main \in BeforeFork => PCInit
    /\ main \in {"init_sem", "fork_producer"} => ~finished
    /\ main = "fork_consumers" => pc[Producer] # "none"

\* Without a signal, a semaphore that was not found down is down only while somebody
\* is inside, also before main opened it.
DownMeansHeld ==
    signals = 0 /\ left # "down" /\ sem = 0 => \E p \in Procs : InCS(p)

\* Nobody's semaphore ever becomes invalid, so only a signal ends a child early.
NoAccident == semLive /\ (signals = 0 => \A p \in Procs : pc[p] # "dead")

\* What main knows when waitpid returned, and leaves behind when it returns.
Reaped ==
    /\ main \in {"wait_producer", "done"} => \A c \in Consumers : pc[c] \in Gone
    /\ main = "done" => ~shmName /\ ~semName

PosixInv == /\ PCInv
            /\ PoolInv
            /\ TypeOK
            /\ NothingForked
            /\ DownMeansHeld
            /\ NoAccident
            /\ Reaped

-----------------------------------------------------------------------------
\* The invariant holds before main runs, whatever an earlier instance left.
LEMMA PosixInit == Init => PosixInv /\ Pool!Init
<1> SUFFICES ASSUME Init PROVE PosixInv /\ Pool!Init
  OBVIOUS
<1>1. PCInv /\ PoolInv /\ Pool!Init
  BY NoChildrenPCInv, PoolStart DEF Init
<1>2. TypeOK
  <2>1. PCTypeOK /\ semName \in BOOLEAN
    BY <1>1 DEF PCInv, Init
  <2> QED
    BY <2>1, PosixAssumption DEF TypeOK, Init, MainRuns
<1>3. NothingForked /\ DownMeansHeld /\ Reaped
  BY DEF Init, NothingForked, BeforeFork, DownMeansHeld, Reaped
<1>4. NoAccident
  BY DEF Init, PCInit, NoAccident, Procs
<1> QED
  BY <1>1, <1>2, <1>3, <1>4 DEF PosixInv

\* The steps of the children.
LEMMA PosixChild ==
    ASSUME PosixInv, NEW p \in Procs, ChildStep(p)
    PROVE  PosixInv' /\ [Pool!Next]_(Pool!vars)
<1>0. /\ ProcStep(p) /\ UNCHANGED <<main, shmName, semName, left, signals>>
      /\ PCInv /\ PoolInv /\ PCTypeOK /\ pc[p] # "none" /\ pc[p] \notin Gone /\ semLive
  BY ChildNotNone DEF ChildStep, ProcStep, producer_function, consumer_function, PosixInv, PCInv, NoAccident
<1>1. PCInv' /\ PoolInv' /\ [Pool!Next]_(Pool!vars)
  BY <1>0, ProcStepKeepsPCInv, PoolInvStep, ProcStepIsPoolStep
<1>2. TypeOK'
  BY <1>0, <1>1 DEF PosixInv, TypeOK, PCInv
<1>3. main \notin BeforeFork
  BY <1>0 DEF PosixInv, NothingForked, PCInit
<1>4. NothingForked'
  BY <1>0, <1>3, FlagAndExits DEF NothingForked, BeforeFork, PosixInv
<1>5. DownMeansHeld'
  <2>1. SUFFICES ASSUME signals = 0, left # "down", sem' = 0
                 PROVE  \E q \in Procs : InCS(q)'
    BY <1>0 DEF DownMeansHeld
  <2>2. CASE InCS(p)'
    BY <2>2
  <2>3. CASE sem = 0 /\ ~InCS(p)
    <3>1. PICK q \in Procs : InCS(q)
      BY <2>1, <2>3 DEF PosixInv, DownMeansHeld
    <3> QED
      BY <1>0, <2>3, <3>1, ChildMoves DEF InCS
  <2> QED
    BY <1>0, <2>1, <2>2, <2>3, ChildHolds
<1>6. NoAccident'
  BY <1>0, ChildMoves DEF PosixInv, NoAccident
<1>7. Reaped'
  BY <1>0, ChildMoves DEF PosixInv, Reaped, Procs
<1> QED
  BY <1>1, <1>2, <1>4, <1>5, <1>6, <1>7 DEF PosixInv

-----------------------------------------------------------------------------
\* A step of main that forks nobody and leaves the list alone.
LEMMA PosixQuiet ==
    ASSUME PosixInv, UNCHANGED pcVars, TypeOK' , NothingForked',
           signals' \in {signals, signals + 1}, left' = left,
           Reaped'
    PROVE  PosixInv' /\ UNCHANGED Pool!vars
<1>0. UNCHANGED <<sem, semLive, pc, listVars, prodVars, consVars>>
  BY DEF pcVars
<1>1. UNCHANGED <<nodes, finished, mine, report, cur>>
  BY <1>0 DEF listVars, consVars
<1>2. PCInv'
  <2>1. PCInv /\ semLive' \in BOOLEAN
    BY <1>0 DEF PosixInv, PCInv, PCTypeOK
  <2> QED
    BY <1>0, <2>1, StutterKeepsPCInv
<1>3. PoolInv'
  BY <1>0, <1>1, OtherStepKeepsPoolInv DEF PosixInv
<1>4. UNCHANGED Pool!vars
  BY <1>0, <1>1, OtherStepIsPoolStutter
<1>5. signals' = 0 => signals = 0
  BY PosixAssumption DEF PosixInv, TypeOK
<1>6. DownMeansHeld' /\ NoAccident'
  BY <1>0, <1>5 DEF PosixInv, DownMeansHeld, NoAccident, InCS
<1> QED
  BY <1>2, <1>3, <1>4, <1>6 DEF PosixInv

\* The steps of main.
LEMMA PosixMain ==
    ASSUME PosixInv, MainStep \/ MainAborts \/ SignalMain
    PROVE  PosixInv' /\ [Pool!Next]_(Pool!vars)
<1>0. /\ PCInv /\ PoolInv /\ TypeOK /\ NothingForked /\ DownMeansHeld /\ NoAccident /\ Reaped
      /\ PCTypeOK /\ sem \in {0, 1} /\ semLive \in BOOLEAN /\ finished \in BOOLEAN
      /\ pc \in [Procs -> ProdPC \cup ConsPC]
  BY DEF PosixInv, PCInv, PCTypeOK
<1>1. CASE InitShm \/ InitSem
  <2>1. PCInit /\ pc' = pc /\ UNCHANGED <<left, signals, semLive, prodVars, consVars>>
    BY <1>0, <1>1 DEF InitShm, InitSem, NothingForked, BeforeFork
  <2>2. nodes' = nodes /\ finished' \in BOOLEAN /\ sem' \in {0, 1} /\ (sem' = 0 => sem = 0)
    BY <1>0, <1>1, <2>1 DEF InitShm, InitSem, PCInit, listVars
  <2>3. PCInit'
    BY <2>1, <2>2 DEF PCInit, prodVars, consVars
  <2>4. PCInv' /\ PoolInv'
    <3>1. PCInit' /\ sem' \in {0, 1} /\ semLive' \in BOOLEAN /\ finished' \in BOOLEAN
      BY <1>0, <2>1, <2>2, <2>3
    <3>2. (PCInit /\ sem \in {0, 1} /\ semLive \in BOOLEAN /\ finished \in BOOLEAN => PCInv)'
      BY NoChildrenPCInv, PTL
    <3>3. (PCInit => PoolInv /\ Pool!Init)'
      BY PoolStart, PTL
    <3> QED
      BY <3>1, <3>2, <3>3
  <2>5. UNCHANGED Pool!vars
    BY <2>1, <2>2, OtherStepIsPoolStutter, PCAssumption DEF PCInit, consVars, Procs
  <2>6. TypeOK'
    BY <1>0, <1>1, <2>1, <2>4 DEF InitShm, InitSem, TypeOK, PCInv, MainRuns, MainEnds
  <2>7. NothingForked'
    BY <1>0, <1>1, <2>1, <2>2, <2>3 DEF InitShm, InitSem, NothingForked, BeforeFork, listVars
  <2>8. DownMeansHeld' /\ NoAccident'
    BY <1>0, <2>1, <2>2 DEF DownMeansHeld, NoAccident, InCS
  <2>9. Reaped'
    BY <1>1 DEF InitShm, InitSem, Reaped
  <2> QED
    BY <2>4, <2>5, <2>6, <2>7, <2>8, <2>9 DEF PosixInv
<1>2. ASSUME NEW p \in Procs, pc[p] = "none",
             (p = Producer /\ ForkProducer) \/ (p \in Consumers /\ ForkConsumer(p))
      PROVE  PosixInv' /\ UNCHANGED Pool!vars
  <2>0. /\ Goto(p, IF p = Producer THEN "p_top" ELSE "c_lock")
        /\ p = Producer => ~finished
        /\ UNCHANGED <<shmName, semName, left, signals, sem, semLive, listVars, prodVars, consVars>>
        /\ main' \in {"fork_consumers", "wait_consumers"} /\ main # "wait_producer"
        /\ p # Producer => pc[Producer] # "none"
    BY <1>0, <1>2, PCAssumption DEF ForkProducer, ForkConsumer, NothingForked, BeforeFork
  <2>1. PCInv'
    BY <1>0, <1>2, <2>0, ForkKeepsPCInv
  <2>2. /\ \A q \in Procs : q # p => pc'[q] = pc[q]
        /\ pc'[p] \in {"p_top", "c_lock"} /\ pc'[Producer] # "none"
    BY <1>0, <1>2, <2>0, PCAssumption DEF Goto, Procs
  <2>3. UNCHANGED <<nodes, finished, mine, report, cur>>
    BY <2>0 DEF listVars, consVars
  <2>4. PoolInv'
    BY <1>0, <1>2, <2>2, <2>3, OtherStepKeepsPoolInv DEF Procs
  <2>5. UNCHANGED Pool!vars
    BY <1>2, <2>0, <2>2, <2>3, OtherStepIsPoolStutter DEF Procs
  <2>6. TypeOK'
    BY <1>0, <2>0, <2>1 DEF TypeOK, PCInv, MainRuns
  <2>7. NothingForked' /\ Reaped'
    BY <2>0, <2>2 DEF NothingForked, Reaped, BeforeFork
  <2>8. DownMeansHeld'
    <3>1. ~InCS(p)
      BY <1>2 DEF InCS, Inside, UnlockAt, ProdUnlock, ConsUnlock
    <3> QED
      BY <1>0, <2>0, <2>2, <3>1 DEF DownMeansHeld, InCS
  <2>9. NoAccident'
    BY <1>0, <2>0, <2>2 DEF NoAccident
  <2> QED
    BY <2>1, <2>4, <2>5, <2>6, <2>7, <2>8, <2>9 DEF PosixInv
<1>3. CASE WaitConsumers \/ WaitProducer \/ MainAborts \/ SignalMain
  <2>1. /\ UNCHANGED pcVars /\ left' = left /\ signals' \in {signals, signals + 1}
        /\ main' \notin BeforeFork /\ main' # "fork_consumers"
    BY <1>3 DEF WaitConsumers, WaitProducer, MainAborts, SignalMain, BeforeFork
  <2>2. UNCHANGED <<sem, semLive, pc, listVars, prodVars, consVars>>
    BY <2>1 DEF pcVars
  <2>3. TypeOK'
    <3>1. PCTypeOK'
      BY <1>0, <2>2 DEF PCTypeOK, listVars, prodVars, consVars
    <3>2. shmName' \in BOOLEAN /\ semName' \in BOOLEAN
      BY <1>0, <1>3 DEF TypeOK, WaitConsumers, WaitProducer, MainAborts, SignalMain, cleanup_all_ipc
    <3>3. signals' \in 0..MaxSignals
      BY <1>0, <1>3, PosixAssumption DEF TypeOK, WaitConsumers, WaitProducer, MainAborts, SignalMain
    <3>4. main' \in MainRuns \cup MainEnds
      BY <1>3 DEF WaitConsumers, WaitProducer, MainAborts, SignalMain, MainRuns, MainEnds
    <3> QED
      BY <1>0, <2>1, <3>1, <3>2, <3>3, <3>4 DEF TypeOK
  <2>4. NothingForked'
    BY <2>1 DEF NothingForked, BeforeFork
  <2>5. Reaped'
    BY <1>0, <1>3, <2>2 DEF Reaped, WaitConsumers, WaitProducer, MainAborts, SignalMain, cleanup_all_ipc
  <2> QED
    BY <2>1, <2>3, <2>4, <2>5, PosixQuiet
<1> QED
  <2>1. CASE ForkProducer
    BY <1>0, <1>2, <2>1 DEF ForkProducer, NothingForked, BeforeFork, PCInit, Procs
  <2>2. ASSUME NEW c \in Consumers, ForkConsumer(c) PROVE PosixInv' /\ UNCHANGED Pool!vars
    BY <1>2, <2>2 DEF ForkConsumer, Procs
  <2> QED
    BY <1>1, <1>3, <2>1, <2>2 DEF MainStep

\* The handler in a child.
LEMMA PosixSignal ==
    ASSUME PosixInv, NEW p \in Procs, SignalChild(p)
    PROVE  PosixInv' /\ UNCHANGED Pool!vars
<1>0. /\ PCInv /\ PoolInv /\ TypeOK /\ NothingForked /\ DownMeansHeld /\ NoAccident /\ Reaped
      /\ PCTypeOK /\ semLive \in BOOLEAN /\ pc \in [Procs -> ProdPC \cup ConsPC]
  BY DEF PosixInv, PCInv, PCTypeOK
<1>1. /\ Die(p) /\ UNCHANGED <<main, left, sem, semLive>> /\ ~shmName' /\ ~semName'
      /\ signals' = signals + 1 /\ signals' # 0 /\ signals' \in 0..MaxSignals
  BY <1>0, PosixAssumption DEF SignalChild, cleanup_all_ipc, TypeOK
<1>2. /\ pc[p] \notin Gone \cup {"none"} /\ pc'[p] = "dead"
      /\ \A q \in Procs : q # p => pc'[q] = pc[q]
      /\ UNCHANGED <<nodes, finished, mine, report, cur>>
  BY <1>0, <1>1 DEF Die, Goto, listVars, consVars
<1>3. PCInv'
  BY <1>0, <1>1, DieKeepsPCInv
<1>4. PoolInv'
  BY <1>0, <1>2, PCAssumption, OtherStepKeepsPoolInv DEF Procs
<1>5. UNCHANGED Pool!vars
  BY <1>2, PCAssumption, OtherStepIsPoolStutter DEF Procs, Gone
<1>6. TypeOK'
  <2>1. shmName' \in BOOLEAN /\ semName' \in BOOLEAN
    BY DEF SignalChild, cleanup_all_ipc
  <2> QED
    BY <1>0, <1>1, <1>3, <2>1 DEF TypeOK, PCInv
<1>7. main \notin BeforeFork
  BY <1>0, <1>2 DEF NothingForked, PCInit
<1>8. NothingForked' /\ Reaped'
  BY <1>0, <1>1, <1>2, <1>7 DEF NothingForked, Reaped, BeforeFork, Procs, Gone
<1>9. DownMeansHeld' /\ NoAccident'
  BY <1>0, <1>1 DEF DownMeansHeld, NoAccident
<1> QED
  BY <1>3, <1>4, <1>5, <1>6, <1>8, <1>9 DEF PosixInv

\* Every step of the program.
LEMMA PosixNext == PosixInv /\ [Next]_vars => PosixInv' /\ [Pool!Next]_(Pool!vars)
<1> SUFFICES ASSUME PosixInv, [Next]_vars PROVE PosixInv' /\ [Pool!Next]_(Pool!vars)
  OBVIOUS
<1>1. CASE UNCHANGED vars
  <2>1. UNCHANGED pcVars /\ UNCHANGED <<main, shmName, semName, left, signals>>
    BY <1>1 DEF vars
  <2>2. UNCHANGED <<sem, semLive, pc, nodes, finished, used, draft, since, allDone, view, cur, mine, report>>
    BY <2>1 DEF pcVars, listVars, prodVars, consVars
  <2>3. TypeOK' /\ NothingForked' /\ Reaped'
    BY <2>1, <2>2 DEF PosixInv, TypeOK, PCTypeOK, NothingForked, PCInit, Reaped
  <2> QED
    BY <2>1, <2>3, PosixQuiet
<1> QED
  BY <1>1, PosixChild, PosixMain, PosixSignal DEF Next

-----------------------------------------------------------------------------
(* The theorems. *)

\* The inductive invariant holds in every state of the program.
THEOREM PosixInvariant == Spec => []PosixInv
BY PosixInit, PosixNext, PTL DEF Spec

\* The semaphore of module3/05 is lost only by a signal or because it was found down.
THEOREM PosixLostOnlyByKillOrLeftover == Spec => []LostOnlyByKillOrLeftover
<1>1. PosixInv => LostOnlyByKillOrLeftover
  BY PosixAssumption DEF PosixInv, DownMeansHeld, LostOnlyByKillOrLeftover, SemaphoreLost, TypeOK
<1> QED
  BY <1>1, PosixInvariant, PTL

\* A run that main ends on its last line processed every block and removed both names.
THEOREM PosixCompleteRun == Spec => []CompleteRun
<1>1. PosixInv => CompleteRun
  <2> SUFFICES ASSUME PosixInv, main = "done", signals = 0
               PROVE  /\ \A c \in Consumers : pc[c] = "exited" /\ mine[c] = 0
                      /\ \A i \in DOMAIN nodes : \E c \in Consumers : Reported(c, i)
                      /\ ~shmName /\ ~semName
    BY DEF CompleteRun
  <2>0. PCInv /\ PCTypeOK /\ Reaped /\ NoAccident
    BY DEF PosixInv, PCInv
  <2>1. \A c \in Consumers : pc[c] = "exited"
    BY <2>0 DEF Reaped, NoAccident, Gone, PCTypeOK, ConsPC, ConsLock, ConsUnlock, Procs
  <2> QED
    BY <2>0, <2>1, AllExitedAllReported DEF Reaped
<1> QED
  BY <1>1, PosixInvariant, PTL

\* The program of module3/05 hands out its blocks in order, each to one consumer who
\* reports it once, also when it hangs.
THEOREM PosixRefinesPool == Spec => RefinesPool
BY PosixInit, PosixNext, PTL DEF Spec, RefinesPool, Pool!Spec
=============================================================================
