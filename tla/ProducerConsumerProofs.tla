----------------------- MODULE ProducerConsumerProofs -----------------------
(***************************************************************************)
(* The inductive invariant of the shared list, and the proof that no step  *)
(* of a producer or a consumer breaks it; then the same for the pool of    *)
(* WorkPool it implements.  SysVProofs and PosixProofs add the steps of    *)
(* the two main programs.                                                  *)
(***************************************************************************)
EXTENDS ProducerConsumer, WellFoundedInduction, SequenceTheorems, TLAPS

Drafting == {"p_write", "p_lock_link", "p_link"}

\* The block a consumer is about to take is there and not taken.
CurIsFull ==
    \A c \in Consumers :
        pc[c] = "c_take" => cur[c] \in DOMAIN nodes /\ IsFull(nodes[cur[c]])

\* A consumer has a block in hand only between the take and the report, unless
\* it was killed there.
HandMatchesPC ==
    \A c \in Consumers :
        /\ mine[c] # 0 => /\ mine[c] \in DOMAIN nodes
                          /\ pc[c] \in {"c_unlock_took", "c_process", "dead"}
        /\ pc[c] \in {"c_unlock_took", "c_process"} => mine[c] # 0

\* What a consumer saw and is still holding the semaphore for is still so.
ScanIsCurrent ==
    \A c \in Consumers :
        pc[c] = "c_unlock" => /\ view[c].done => finished
                              /\ view[c].done /\ ~view[c].has => ~HasUnprocessed

\* Setting producer_finished is the last thing the producer does to the list.
FinishedIsLast ==
    finished => pc[Producer] \in {"none", "p_unlock_fin", "exited", "dead"}

\* Every linked block ends where used_memory says the next one starts.
BlocksBelowUsed == \A i \in DOMAIN nodes : EndOf(nodes[i]) <= SizeofShared + used

BlocksDisjoint == \A i, j \in DOMAIN nodes : i < j => EndOf(nodes[i]) <= nodes[j].off

\* The guard of producer.c:29 still holds for the block being written.
DraftFits ==
    pc[Producer] \in Drafting =>
        /\ draft \in Counts
        /\ used <= TotalSize => SizeofInt + SizeofPtr + draft * SizeofInt <= TotalSize - used

PCInv == /\ PCTypeOK
         /\ MutualExclusion
         /\ ClaimedOnce
         /\ ExitMeansDrained
         /\ CurIsFull
         /\ HandMatchesPC
         /\ ScanIsCurrent
         /\ FinishedIsLast
         /\ BlocksBelowUsed
         /\ BlocksDisjoint
         /\ DraftFits

-----------------------------------------------------------------------------
(* The scan for the first block to process finds one when there is one. *)

\* The while loop of consumer.c:51 stops at a block with count > 0, if any.
LEMMA FirstUnprocessedIsFull ==
    ASSUME nodes \in Seq(Block), HasUnprocessed
    PROVE  /\ FirstUnprocessed \in DOMAIN nodes /\ IsFull(nodes[FirstUnprocessed])
           /\ \A j \in 1..(FirstUnprocessed - 1) : ~IsFull(nodes[j])
<1> DEFINE T == {i \in DOMAIN nodes : IsFull(nodes[i])}
           Good(i) == IsFull(nodes[i]) /\ \A j \in 1..(i-1) : ~IsFull(nodes[j])
<1>0. DOMAIN nodes = 1..Len(nodes) /\ Len(nodes) \in Nat
  BY LenProperties
<1>1. T \subseteq Nat /\ T # {}
  BY <1>0 DEF HasUnprocessed
<1>2. PICK m \in T : \A y \in T : ~(<<y, m>> \in OpToRel(<, Nat))
  <2> HIDE DEF T
  <2> QED BY <1>1, NatLessThanWellFounded, WFMin
<1>3. \A y \in T : ~(y < m)
  BY <1>1, <1>2 DEF OpToRel
<1>4. Good(m)
  BY <1>0, <1>3
<1>5. \E i \in DOMAIN nodes : Good(i)
  BY <1>4
<1>6. FirstUnprocessed = CHOOSE i \in DOMAIN nodes : Good(i)
  BY DEF FirstUnprocessed
<1> HIDE DEF Good
<1>7. FirstUnprocessed \in DOMAIN nodes /\ Good(FirstUnprocessed)
  BY <1>5, <1>6
<1> QED
  BY <1>7 DEF Good

-----------------------------------------------------------------------------
(* The conjuncts of the invariant, one lemma each, over the steps of a process. *)

\* Each step keeps every variable of the list and of the processes in its type.
LEMMA TypeStep ==
    ASSUME PCTypeOK, MutualExclusion, CurIsFull, HandMatchesPC, DraftFits,
           NEW p \in Procs, ProcStep(p)
    PROVE  PCTypeOK'
<1> USE PCAssumption
<1> USE DEF PCTypeOK, ProdPC, ConsPC, ProdLock, ProdUnlock, ConsLock, ConsUnlock,
            Gone, Goto, Lock, Unlock, listVars, prodVars, consVars, Procs
<1>0. \A q \in Procs : pc[q] \in UnlockAt => sem = 0
  BY DEF MutualExclusion, InCS, Inside
<1> USE <1>0
<1>a. CASE p = Producer /\ PTop
  <2>1. /\ UNCHANGED <<sem, semLive, nodes, finished, used, since, allDone, view, cur, mine, report>>
        /\ draft' \in Counts \cup {0}
    BY <1>a DEF PTop
  <2>2. \E l \in {"p_lock_fin", "p_write"} : pc' = [pc EXCEPT ![Producer] = l]
    BY <1>a DEF PTop
  <2>3. pc' \in [Procs -> ProdPC \cup ConsPC] /\ pc'[Producer] \in ProdPC
        /\ \A c \in Consumers : pc'[c] \in ConsPC
    BY <2>2
  <2> QED
    BY <2>1, <2>3
<1>b. CASE p = Producer /\ PWrite
  BY <1>b DEF PWrite
<1>c. CASE p = Producer /\ PLockLink
  BY <1>c DEF PLockLink
<1>d. CASE p = Producer /\ PLink
  <2>1. NewNode \in Block /\ Bytes(draft) \in Nat
    BY <1>d DEF PLink, NewNode, Block, Bytes, DraftFits, Drafting, SizeofShared,
                SizeofNode, SizeofInt
  <2>2. nodes' \in Seq(Block)
    BY <1>d, <2>1, AppendProperties DEF PLink
  <2>3. used' \in Nat
    BY <1>d, <2>1 DEF PLink
  <2>4. pc' = [pc EXCEPT ![Producer] = "p_unlock_link"]
        /\ UNCHANGED <<sem, semLive, finished, draft, since, allDone, view, cur, mine, report>>
    BY <1>d DEF PLink
  <2>5. pc' \in [Procs -> ProdPC \cup ConsPC] /\ pc'[Producer] \in ProdPC
        /\ \A c \in Consumers : pc'[c] \in ConsPC
    BY <2>4
  <2> QED
    BY <2>2, <2>3, <2>4, <2>5
<1>e. CASE p = Producer /\ PUnlockLink
  BY <1>e DEF PUnlockLink, UnlockAt
<1>f. CASE p = Producer /\ PLockCheck
  BY <1>f DEF PLockCheck
<1>g. CASE p = Producer /\ PScan
  BY <1>g DEF PScan
<1>h. CASE p = Producer /\ PUnlockCheck
  BY <1>h DEF PUnlockCheck, UnlockAt
<1>i. CASE p = Producer /\ PLockFin
  BY <1>i DEF PLockFin
<1>j. CASE p = Producer /\ PFin
  BY <1>j DEF PFin
<1>k. CASE p = Producer /\ PUnlockFin
  BY <1>k DEF PUnlockFin, UnlockAt
<1>l. CASE SemFails(p)
  BY <1>l DEF SemFails
<1>m. CASE p \in Consumers /\ CLock(p)
  BY <1>m DEF CLock
<1>n. CASE p \in Consumers /\ CScan(p)
  BY <1>n DEF CScan, HasUnprocessed
<1>o. CASE p \in Consumers /\ CUnlock(p)
  BY <1>o DEF CUnlock, UnlockAt
<1>p. CASE p \in Consumers /\ CLockTake(p)
  BY <1>p DEF CLockTake
<1>q. CASE p \in Consumers /\ CFind(p)
  <2>1. FirstUnprocessed \in Nat
    BY FirstUnprocessedIsFull, LenProperties DEF FirstUnprocessed
  <2> QED
    BY <1>q, <2>1 DEF CFind
<1>r. CASE p \in Consumers /\ CTake(p)
  <2>1. nodes' \in Seq(Block)
    <3>1. cur[p] \in 1..Len(nodes) /\ nodes[cur[p]] \in Block
      BY <1>r, LenProperties, ElementOfSeq DEF CTake, CurIsFull
    <3>2. [nodes[cur[p]] EXCEPT !.count = 0] \in Block
      BY <3>1 DEF Block
    <3> QED
      BY <1>r, <3>1, <3>2, ExceptSeq DEF CTake
  <2> QED
    BY <1>r, <2>1 DEF CTake
<1>s. CASE p \in Consumers /\ CUnlockNone(p)
  BY <1>s DEF CUnlockNone, UnlockAt
<1>t. CASE p \in Consumers /\ CUnlockTook(p)
  BY <1>t DEF CUnlockTook, UnlockAt
<1>u. CASE p \in Consumers /\ CProcess(p)
  <2>1. Append(report[p], mine[p]) \in Seq(Nat)
    BY <1>u, AppendProperties
  <2> QED
    BY <1>u, <2>1 DEF CProcess
<1> QED
  BY <1>a, <1>b, <1>c, <1>d, <1>e, <1>f, <1>g, <1>h, <1>i, <1>j, <1>k, <1>l,
     <1>m, <1>n, <1>o, <1>p, <1>q, <1>r, <1>s, <1>t, <1>u
     DEF ProcStep, ProducerStep, ConsumerStep

\* semaphore_lock lets one process in, semaphore_unlock lets it out.
LEMMA MutexStep ==
    ASSUME PCTypeOK, MutualExclusion, NEW p \in Procs, ProcStep(p)
    PROVE  MutualExclusion'
<1> USE DEF MutualExclusion, InCS, Procs
<1>1. pc \in [Procs -> ProdPC \cup ConsPC] /\ sem \in {0, 1}
  BY DEF PCTypeOK
<1>2. ASSUME NEW from, NEW to, Lock(p, from, to), from \notin Inside PROVE MutualExclusion'
  BY <1>1, <1>2 DEF Lock, Goto
<1>3. ASSUME NEW from, NEW to, Unlock(p, from, to), from \in Inside, to \notin Inside
      PROVE  MutualExclusion'
  BY <1>1, <1>3 DEF Unlock, Goto
<1>4. ASSUME NEW l, Goto(p, l), sem' = sem, l \in Inside => pc[p] \in Inside
      PROVE  MutualExclusion'
  BY <1>1, <1>4 DEF Goto
<1> USE DEF Inside, UnlockAt, ProdUnlock, ConsUnlock
<1>5. CASE p = Producer /\ (PLockLink \/ PLockCheck \/ PLockFin)
  BY <1>2, <1>5 DEF PLockLink, PLockCheck, PLockFin
<1>6. CASE p = Producer /\ (PUnlockLink \/ PUnlockCheck \/ PUnlockFin)
  BY <1>3, <1>6 DEF PUnlockLink, PUnlockCheck, PUnlockFin
<1>7. CASE p = Producer /\ (PTop \/ PWrite \/ PLink \/ PScan \/ PFin)
  BY <1>4, <1>7 DEF PTop, PWrite, PLink, PScan, PFin
<1>8. CASE SemFails(p)
  BY <1>4, <1>8 DEF SemFails
<1>9. CASE p \in Consumers /\ (CLock(p) \/ CLockTake(p))
  BY <1>2, <1>9 DEF CLock, CLockTake
<1>10. CASE p \in Consumers /\ (CUnlock(p) \/ CUnlockNone(p) \/ CUnlockTook(p))
  BY <1>3, <1>10 DEF CUnlock, CUnlockNone, CUnlockTook
<1>11. CASE p \in Consumers /\ (CScan(p) \/ CFind(p) \/ CTake(p) \/ CProcess(p))
  BY <1>4, <1>11 DEF CScan, CFind, CTake, CProcess
<1> QED
  BY <1>5, <1>6, <1>7, <1>8, <1>9, <1>10, <1>11 DEF ProcStep, ProducerStep, ConsumerStep

-----------------------------------------------------------------------------
(* What a step does to the list: nothing, one block more, or one block taken. *)

\* producer.c:48-54 adds one block after all the others.
LEMMA LinkEffect ==
    ASSUME PCTypeOK, DraftFits, PLink
    PROVE  /\ DOMAIN nodes = 1..Len(nodes) /\ Len(nodes) \in Nat
           /\ DOMAIN nodes' = 1..(Len(nodes) + 1)
           /\ \A i \in DOMAIN nodes : nodes'[i] = nodes[i]
           /\ nodes'[Len(nodes) + 1] = NewNode
           /\ NewNode \in Block /\ IsFull(NewNode)
<1>1. NewNode \in Block /\ IsFull(NewNode)
  BY PCAssumption DEF PLink, NewNode, Block, IsFull, DraftFits, Drafting, SizeofShared, PCTypeOK
<1>2. nodes \in Seq(Block) /\ nodes' = Append(nodes, NewNode)
  BY DEF PLink, PCTypeOK
<1> QED
  BY <1>1, <1>2, AppendProperties, LenProperties

\* consumer.c:64-66 empties one block that was full and touches no other.
LEMMA TakeEffect ==
    ASSUME PCTypeOK, CurIsFull, NEW c \in Consumers, CTake(c)
    PROVE  /\ cur[c] \in DOMAIN nodes /\ cur[c] # 0
           /\ IsFull(nodes[cur[c]]) /\ nodes[cur[c]].count # 0
           /\ DOMAIN nodes' = DOMAIN nodes
           /\ \A i \in DOMAIN nodes :
                /\ nodes'[i].off = nodes[i].off /\ nodes'[i].n = nodes[i].n
                /\ nodes'[i].count = IF i = cur[c] THEN 0 ELSE nodes[i].count
                /\ ~IsFull(nodes[i]) => ~IsFull(nodes'[i])
<1>1. nodes \in Seq(Block) /\ cur[c] \in DOMAIN nodes /\ IsFull(nodes[cur[c]])
  BY DEF PCTypeOK, CurIsFull, CTake
<1>2. DOMAIN nodes = 1..Len(nodes) /\ Len(nodes) \in Nat /\ \A i \in DOMAIN nodes : nodes[i] \in Block
  BY <1>1, LenProperties, ElementOfSeq
<1>3. cur[c] # 0 /\ nodes[cur[c]].count # 0
  BY <1>1, <1>2 DEF IsFull
<1>4. nodes' = [nodes EXCEPT ![cur[c]] = [nodes[cur[c]] EXCEPT !.count = 0]]
  BY DEF CTake
<1>5. DOMAIN nodes' = DOMAIN nodes
  BY <1>4
<1>6. nodes'[cur[c]] = [nodes[cur[c]] EXCEPT !.count = 0]
  BY <1>1, <1>4
<1>7. \A i \in DOMAIN nodes : i # cur[c] => nodes'[i] = nodes[i]
  BY <1>4
<1>8. /\ nodes'[cur[c]].off = nodes[cur[c]].off /\ nodes'[cur[c]].n = nodes[cur[c]].n
      /\ nodes'[cur[c]].count = 0
  BY <1>1, <1>2, <1>6 DEF Block
<1> QED
  BY <1>1, <1>3, <1>5, <1>7, <1>8 DEF IsFull

\* Every other step leaves the blocks, and who has them, alone.
LEMMA QuietStep ==
    ASSUME NEW p \in Procs, ProcStep(p)
    PROVE  \/ p = Producer /\ PLink
           \/ p \in Consumers /\ (CTake(p) \/ CProcess(p))
           \/ UNCHANGED <<nodes, mine, report>>
BY DEF ProcStep, ProducerStep, ConsumerStep, SemFails, PTop, PWrite, PLockLink, PUnlockLink,
       PLockCheck, PScan, PUnlockCheck, PLockFin, PFin, PUnlockFin, CLock, CScan, CUnlock,
       CLockTake, CFind, CUnlockNone, CUnlockTook, listVars, consVars

-----------------------------------------------------------------------------
\* Taking is a step inside the semaphore and the block taken is full, hence had
\* by nobody; reporting moves it from the hand to the report.
LEMMA ClaimStep ==
    ASSUME PCTypeOK, CurIsFull, HandMatchesPC, DraftFits, ClaimedOnce,
           NEW p \in Procs, ProcStep(p)
    PROVE  ClaimedOnce'
<1>0. /\ DOMAIN nodes = 1..Len(nodes) /\ Len(nodes) \in Nat
      /\ \A c \in Consumers : /\ report[c] \in Seq(Nat) /\ DOMAIN report[c] = 1..Len(report[c])
                              /\ Len(report[c]) \in Nat
      /\ mine \in [Consumers -> Nat] /\ report \in [Consumers -> Seq(Nat)]
  BY LenProperties DEF PCTypeOK
<1>1. CASE UNCHANGED <<nodes, mine, report>>
  BY <1>1 DEF ClaimedOnce, Has, Reported
<1>2. CASE p = Producer /\ PLink
  <2>1. mine' = mine /\ report' = report
    BY <1>2 DEF PLink, consVars
  <2>2. \A c \in Consumers : ~Has(c, Len(nodes) + 1)
    BY <1>0 DEF Has, Reported, HandMatchesPC, ClaimedOnce
  <2>3. \A c \in Consumers : \A i : Has(c, i)' <=> Has(c, i)
    BY <2>1 DEF Has, Reported
  <2>4. nodes'[Len(nodes) + 1].count # 0
    BY <1>2, LinkEffect DEF Block, IsFull
  <2>5. DOMAIN nodes' = DOMAIN nodes \cup {Len(nodes) + 1}
    BY <1>0, <1>2, LinkEffect
  <2>6. \A i \in DOMAIN nodes' : (nodes'[i].count = 0) <=> (\E c \in Consumers : Has(c, i)')
    BY <1>2, <2>2, <2>3, <2>4, <2>5, LinkEffect DEF ClaimedOnce
  <2>7. \A c, d \in Consumers : \A i \in DOMAIN nodes' : Has(c, i)' /\ Has(d, i)' => c = d
    BY <2>2, <2>3, <2>5 DEF ClaimedOnce
  <2>8. \A c \in Consumers : \A k \in DOMAIN report'[c] :
           report'[c][k] \in DOMAIN nodes' /\ report'[c][k] # mine'[c]
    BY <2>1, <2>5 DEF ClaimedOnce
  <2> QED
    BY <2>1, <2>6, <2>7, <2>8 DEF ClaimedOnce
<1>3. CASE p \in Consumers /\ CTake(p)
  <2>1. report' = report /\ mine' = [mine EXCEPT ![p] = cur[p]] /\ mine[p] = 0
    BY <1>3 DEF CTake, HandMatchesPC
  <2>2. \A c \in Consumers : ~Has(c, cur[p])
    BY <1>3, TakeEffect DEF ClaimedOnce
  <2>3. \A c \in Consumers : \A i \in DOMAIN nodes :
           Has(c, i)' <=> Has(c, i) \/ (c = p /\ i = cur[p])
    BY <1>0, <1>3, <2>1 DEF Has, Reported
  <2>4. \A c \in Consumers : \A k \in DOMAIN report'[c] :
           report'[c][k] \in DOMAIN nodes' /\ report'[c][k] # mine'[c]
    BY <1>0, <1>3, <2>1, <2>2, TakeEffect DEF ClaimedOnce, Has, Reported
  <2>5. \A i \in DOMAIN nodes' : (nodes'[i].count = 0) <=> (\E c \in Consumers : Has(c, i)')
    BY <1>3, <2>3, TakeEffect DEF ClaimedOnce
  <2>6. \A c, d \in Consumers : \A i \in DOMAIN nodes' : Has(c, i)' /\ Has(d, i)' => c = d
    BY <1>3, <2>2, <2>3, TakeEffect DEF ClaimedOnce
  <2> QED
    BY <2>1, <2>4, <2>5, <2>6 DEF ClaimedOnce
<1>4. CASE p \in Consumers /\ CProcess(p)
  <2>1. nodes' = nodes /\ mine' = [mine EXCEPT ![p] = 0]
        /\ report' = [report EXCEPT ![p] = Append(report[p], mine[p])]
        /\ mine[p] \in DOMAIN nodes
    BY <1>4 DEF CProcess, listVars, HandMatchesPC
  <2> DEFINE L == Len(report[p])
  <2>0. L \in Nat /\ DOMAIN report[p] = 1..L
    BY <1>0, <1>4
  <2>2. /\ DOMAIN report'[p] = DOMAIN report[p] \cup {L + 1} /\ L + 1 \notin DOMAIN report[p]
        /\ \A k \in DOMAIN report[p] : report'[p][k] = report[p][k]
        /\ report'[p][L + 1] = mine[p]
        /\ \A c \in Consumers : c # p => report'[c] = report[c] /\ mine'[c] = mine[c]
        /\ mine'[p] = 0
    BY <1>0, <1>4, <2>0, <2>1, AppendProperties
  <2> HIDE DEF L
  <2>3. \A c \in Consumers : \A i \in DOMAIN nodes : Has(c, i)' <=> Has(c, i)
    <3>1. ASSUME NEW c \in Consumers, c # p, NEW i PROVE Has(c, i)' <=> Has(c, i)
      BY <2>2, <3>1 DEF Has, Reported
    <3>2. ASSUME NEW i \in DOMAIN nodes, Has(p, i) PROVE Reported(p, i)'
      <4>1. CASE mine[p] = i
        BY <2>2, <4>1 DEF Reported
      <4>2. CASE Reported(p, i)
        BY <2>2, <4>2 DEF Reported
      <4> QED
        BY <3>2, <4>1, <4>2 DEF Has
    <3>3. ASSUME NEW i \in DOMAIN nodes, Has(p, i)' PROVE Has(p, i)
      <4>1. i # mine'[p]
        BY <1>0, <2>2
      <4>2. PICK k \in DOMAIN report'[p] : report'[p][k] = i
        BY <3>3, <4>1 DEF Has, Reported
      <4> QED
        BY <2>2, <4>2 DEF Has, Reported
    <3> QED
      BY <3>1, <3>2, <3>3 DEF Has
  <2>4. \A k, l \in DOMAIN report'[p] : report'[p][k] = report'[p][l] => k = l
    BY <1>4, <2>2 DEF ClaimedOnce
  <2>5. \A k \in DOMAIN report'[p] : report'[p][k] \in DOMAIN nodes' /\ report'[p][k] # mine'[p]
    BY <1>0, <1>4, <2>1, <2>2 DEF ClaimedOnce
  <2> QED
    BY <2>1, <2>2, <2>3, <2>4, <2>5 DEF ClaimedOnce
<1> QED
  BY <1>1, <1>2, <1>3, <1>4, QuietStep

\* A consumer's candidate and its hand change only with its own program counter.
LEMMA HandStep ==
    ASSUME PCTypeOK, MutualExclusion, CurIsFull, HandMatchesPC, DraftFits,
           NEW p \in Procs, ProcStep(p)
    PROVE  CurIsFull' /\ HandMatchesPC'
<1>0. /\ pc \in [Procs -> ProdPC \cup ConsPC] /\ mine \in [Consumers -> Nat]
      /\ cur \in [Consumers -> Nat] /\ nodes \in Seq(Block)
  BY DEF PCTypeOK
<1> USE PCAssumption, <1>0 DEF Procs, Goto, Lock, Unlock, listVars, consVars
<1>1. CASE p = Producer /\ PLink
  <2>1. \A c \in Consumers : pc'[c] = pc[c] /\ cur'[c] = cur[c] /\ mine'[c] = mine[c]
    BY <1>1 DEF PLink
  <2>2. \A i \in DOMAIN nodes : i \in DOMAIN nodes' /\ nodes'[i] = nodes[i]
    BY <1>1, LinkEffect
  <2> QED
    BY <2>1, <2>2 DEF CurIsFull, HandMatchesPC
<1>2. CASE p = Producer /\ ProducerStep /\ ~PLink
  <2>1. UNCHANGED <<nodes, cur, mine>> /\ \A c \in Consumers : pc'[c] = pc[c]
    BY <1>2 DEF ProducerStep, SemFails, PTop, PWrite, PLockLink, PUnlockLink, PLockCheck,
                PScan, PUnlockCheck, PLockFin, PFin, PUnlockFin
  <2> QED
    BY <2>1 DEF CurIsFull, HandMatchesPC
<1>3. CASE p \in Consumers /\ CFind(p)
  <2>1. HasUnprocessed => FirstUnprocessed \in DOMAIN nodes /\ IsFull(nodes[FirstUnprocessed])
    BY FirstUnprocessedIsFull
  <2>2. UNCHANGED <<nodes, mine>> /\ cur' = [cur EXCEPT ![p] = FirstUnprocessed]
        /\ pc' = [pc EXCEPT ![p] = IF HasUnprocessed THEN "c_take" ELSE "c_unlock_none"]
        /\ pc[p] = "c_find"
    BY <1>3 DEF CFind
  <2> QED
    BY <1>3, <2>1, <2>2 DEF CurIsFull, HandMatchesPC
<1>4. CASE p \in Consumers /\ CTake(p)
  <2>1. \A q \in Consumers : pc[q] = "c_take" => q = p
    BY <1>4 DEF MutualExclusion, InCS, Inside, CTake
  <2>2. /\ pc' = [pc EXCEPT ![p] = "c_unlock_took"] /\ cur' = cur
        /\ mine' = [mine EXCEPT ![p] = cur[p]]
    BY <1>4 DEF CTake
  <2>3. cur[p] \in DOMAIN nodes' /\ cur[p] # 0 /\ DOMAIN nodes' = DOMAIN nodes
    BY <1>4, TakeEffect
  <2> QED
    BY <1>4, <2>1, <2>2, <2>3 DEF CurIsFull, HandMatchesPC
<1>5. CASE p \in Consumers /\ CProcess(p)
  BY <1>5 DEF CProcess, CurIsFull, HandMatchesPC
<1>6. CASE p \in Consumers /\ SemFails(p)
  BY <1>6 DEF SemFails, CurIsFull, HandMatchesPC
<1>7. CASE p \in Consumers /\ (CLock(p) \/ CScan(p) \/ CUnlock(p) \/ CLockTake(p)
                               \/ CUnlockNone(p) \/ CUnlockTook(p))
  BY <1>7 DEF CLock, CScan, CUnlock, CLockTake, CUnlockNone, CUnlockTook,
              CurIsFull, HandMatchesPC
<1> QED
  BY <1>1, <1>2, <1>3, <1>4, <1>5, <1>6, <1>7 DEF ProcStep, ConsumerStep

\* Once producer_finished is set no block is linked, so a scan that found
\* nothing stays true, and so does the reason a consumer left.
LEMMA FinishStep ==
    ASSUME PCTypeOK, CurIsFull, DraftFits, ScanIsCurrent, FinishedIsLast, ExitMeansDrained,
           NEW p \in Procs, ProcStep(p)
    PROVE  ScanIsCurrent' /\ FinishedIsLast' /\ ExitMeansDrained'
<1>0. /\ pc \in [Procs -> ProdPC \cup ConsPC]
      /\ view \in [Consumers -> [done : BOOLEAN, has : BOOLEAN]]
      /\ finished \in BOOLEAN
  BY DEF PCTypeOK
<1> USE PCAssumption, <1>0 DEF Procs, Goto, Lock, Unlock, listVars, consVars
<1>1. finished => finished'
  BY DEF ProcStep, ProducerStep, ConsumerStep, SemFails, PTop, PWrite, PLockLink, PLink,
         PUnlockLink, PLockCheck, PScan, PUnlockCheck, PLockFin, PFin, PUnlockFin, CLock,
         CScan, CUnlock, CLockTake, CFind, CTake, CUnlockNone, CUnlockTook, CProcess
<1>2. finished /\ ~HasUnprocessed => ~HasUnprocessed'
  <2>1. CASE p = Producer /\ PLink
    BY <2>1 DEF PLink, FinishedIsLast
  <2>2. CASE p \in Consumers /\ CTake(p)
    BY <2>2, TakeEffect DEF HasUnprocessed
  <2>3. CASE nodes' = nodes
    BY <2>3 DEF HasUnprocessed
  <2> QED
    BY <2>1, <2>2, <2>3, QuietStep DEF CProcess
<1>3. FinishedIsLast'
  <2>1. CASE p = Producer
    BY <2>1 DEF FinishedIsLast, ProcStep, ProducerStep, SemFails, PTop, PWrite, PLockLink,
         PLink, PUnlockLink, PLockCheck, PScan, PUnlockCheck, PLockFin, PFin, PUnlockFin
  <2>2. CASE p \in Consumers
    BY <2>2 DEF FinishedIsLast, ProcStep, ConsumerStep, SemFails, CLock, CScan, CUnlock,
         CLockTake, CFind, CTake, CUnlockNone, CUnlockTook, CProcess
  <2> QED
    BY <2>1, <2>2
<1>4. ScanIsCurrent'
  <2>1. CASE p \in Consumers /\ CScan(p)
    <3>1. \A c \in Consumers : c # p => pc'[c] = pc[c] /\ view'[c] = view[c]
      BY <2>1 DEF CScan
    <3>2. view'[p] = [done |-> finished, has |-> HasUnprocessed] /\ UNCHANGED <<nodes, finished>>
      BY <2>1 DEF CScan
    <3>3. HasUnprocessed' <=> HasUnprocessed
      BY <3>2 DEF HasUnprocessed
    <3> QED
      BY <1>1, <1>2, <3>1, <3>2, <3>3 DEF ScanIsCurrent
  <2>2. CASE ~(p \in Consumers /\ CScan(p))
    <3>1. view' = view /\ \A c \in Consumers : pc'[c] = "c_unlock" => pc[c] = "c_unlock"
      BY <2>2 DEF ProcStep, ProducerStep, ConsumerStep, SemFails, PTop, PWrite, PLockLink,
         PLink, PUnlockLink, PLockCheck, PScan, PUnlockCheck, PLockFin, PFin, PUnlockFin,
         CLock, CUnlock, CLockTake, CFind, CTake, CUnlockNone, CUnlockTook, CProcess
    <3> QED
      BY <1>1, <1>2, <3>1 DEF ScanIsCurrent
  <2> QED
    BY <2>1, <2>2
<1>5. ExitMeansDrained'
  <2>1. \A c \in Consumers : pc'[c] = "exited" =>
           \/ pc[c] = "exited"
           \/ pc[c] = "c_unlock" /\ view[c].done /\ ~view[c].has
    BY DEF ProcStep, ProducerStep, ConsumerStep, SemFails, PTop, PWrite, PLockLink,
         PLink, PUnlockLink, PLockCheck, PScan, PUnlockCheck, PLockFin, PFin, PUnlockFin,
         CLock, CScan, CUnlock, CLockTake, CFind, CTake, CUnlockNone, CUnlockTook, CProcess
  <2> QED
    BY <1>1, <1>2, <2>1 DEF ExitMeansDrained, ScanIsCurrent
<1> QED
  BY <1>3, <1>4, <1>5

-----------------------------------------------------------------------------
(* Memory: where the producer puts its blocks. *)

\* While used_memory has not passed total_size the size_t subtraction is exact.
LEMMA RemainingExact ==
    ASSUME used \in Nat, used <= TotalSize
    PROVE  Remaining = TotalSize - used
<1>1. TotalSize \in Nat /\ SizeMod \in Nat /\ SizeMod > TotalSize
  BY PCAssumption
<1>2. \A a, b \in Nat : a < b => a % b = a
  OBVIOUS
<1> QED
  BY <1>1, <1>2 DEF Remaining

\* The bytes of a block, header included, are a natural number.
LEMMA BytesNat ==
    ASSUME NEW n \in Nat
    PROVE  Bytes(n) \in Nat
BY DEF Bytes, SizeofNode, SizeofInt

\* So is the offset a block ends at.
LEMMA EndOfNat ==
    ASSUME NEW b \in Block
    PROVE  EndOf(b) \in Nat
<1>1. b.off \in Nat /\ b.n \in Nat
  BY DEF Block
<1>2. Bytes(b.n) \in Nat
  BY <1>1, BytesNat
<1> QED
  BY <1>1, <1>2 DEF EndOf

\* Only producer.c:56 moves used_memory, by exactly the bytes of the block linked.
LEMMA MemoryStep ==
    ASSUME PCTypeOK, CurIsFull, DraftFits, BlocksBelowUsed, BlocksDisjoint,
           NEW p \in Procs, ProcStep(p)
    PROVE  BlocksBelowUsed' /\ BlocksDisjoint' /\ DraftFits'
<1>0. /\ pc \in [Procs -> ProdPC \cup ConsPC] /\ used \in Nat /\ draft \in Nat
      /\ nodes \in Seq(Block) /\ DOMAIN nodes = 1..Len(nodes) /\ Len(nodes) \in Nat
      /\ \A i \in DOMAIN nodes : nodes[i] \in Block
  BY PCAssumption, LenProperties, ElementOfSeq DEF PCTypeOK
<1> USE PCAssumption, <1>0 DEF Procs, Goto, Lock, Unlock, listVars, prodVars
<1>1. CASE p = Producer /\ PLink
  <2>3. /\ DOMAIN nodes' = 1..(Len(nodes) + 1) /\ \A i \in DOMAIN nodes : nodes'[i] = nodes[i]
        /\ nodes'[Len(nodes) + 1] = NewNode
    BY <1>1, LinkEffect
  <2>1. \A i \in DOMAIN nodes : EndOf(nodes[i]) \in Nat
    BY <1>0, EndOfNat
  <2>2. /\ NewNode.off = SizeofShared + used
        /\ EndOf(NewNode) = SizeofShared + used' /\ used' >= used /\ used' \in Nat
    <3>1. NewNode.off = SizeofShared + used /\ NewNode.n = draft
      BY DEF NewNode
    <3>2. used' = used + Bytes(draft) /\ Bytes(draft) \in Nat
      BY <1>1, BytesNat DEF PLink
    <3> QED
      BY <3>1, <3>2 DEF EndOf, SizeofShared
  <2>4. BlocksBelowUsed'
    BY <2>1, <2>2, <2>3 DEF BlocksBelowUsed, SizeofShared
  <2>5. BlocksDisjoint'
    BY <2>1, <2>2, <2>3 DEF BlocksDisjoint, BlocksBelowUsed, SizeofShared
  <2>6. DraftFits'
    BY <1>1 DEF PLink, DraftFits, Drafting
  <2> QED
    BY <2>4, <2>5, <2>6
<1>2. CASE p \in Consumers /\ CTake(p)
  <2>1. \A i \in DOMAIN nodes : EndOf(nodes'[i]) = EndOf(nodes[i]) /\ nodes'[i].off = nodes[i].off
    BY <1>2, TakeEffect DEF EndOf
  <2>2. UNCHANGED prodVars /\ pc'[Producer] = pc[Producer]
    BY <1>2 DEF CTake
  <2> QED
    BY <1>2, <2>1, <2>2, TakeEffect DEF BlocksBelowUsed, BlocksDisjoint, DraftFits
<1>3. CASE p = Producer /\ PTop
  <2>1. ASSUME NEW n \in Counts, ~(Remaining < SizeofInt + SizeofPtr + n * SizeofInt),
               used <= TotalSize
        PROVE  SizeofInt + SizeofPtr + n * SizeofInt <= TotalSize - used
    BY <2>1, RemainingExact DEF SizeofInt, SizeofPtr
  <2>2. DraftFits'
    BY <1>3, <2>1 DEF PTop, DraftFits, Drafting
  <2> QED
    BY <1>3, <2>2 DEF PTop, BlocksBelowUsed, BlocksDisjoint
<1>4. CASE ~(p = Producer /\ (PLink \/ PTop)) /\ ~(p \in Consumers /\ CTake(p))
  <2>1. UNCHANGED <<nodes, used, draft>>
    BY <1>4 DEF ProcStep, ProducerStep, ConsumerStep, SemFails, PWrite, PLockLink,
         PUnlockLink, PLockCheck, PScan, PUnlockCheck, PLockFin, PFin, PUnlockFin,
         CLock, CScan, CUnlock, CLockTake, CFind, CUnlockNone, CUnlockTook, CProcess
  <2>2. pc'[Producer] \in Drafting => pc[Producer] \in Drafting
    BY <1>4 DEF Drafting, ProcStep, ProducerStep, ConsumerStep, SemFails, PWrite, PLockLink,
         PUnlockLink, PLockCheck, PScan, PUnlockCheck, PLockFin, PFin, PUnlockFin,
         CLock, CScan, CUnlock, CLockTake, CFind, CUnlockNone, CUnlockTook, CProcess
  <2> QED
    BY <2>1, <2>2 DEF BlocksBelowUsed, BlocksDisjoint, DraftFits
<1> QED
  BY <1>1, <1>2, <1>3, <1>4

-----------------------------------------------------------------------------
\* Every step of a producer or a consumer keeps the whole invariant.
LEMMA ProcStepKeepsPCInv ==
    ASSUME PCInv, NEW p \in Procs, ProcStep(p)
    PROVE  PCInv'
BY TypeStep, MutexStep, ClaimStep, HandStep, FinishStep, MemoryStep DEF PCInv

\* A child is never started by anything but main, and never restarted.
LEMMA ChildNotNone ==
    ASSUME NEW p \in Procs, ProcStep(p)
    PROVE  pc[p] \notin Gone \cup {"none"}
BY PCAssumption DEF ProcStep, ProducerStep, ConsumerStep, SemFails, PTop, PWrite, PLockLink, PLink,
   PUnlockLink, PLockCheck, PScan, PUnlockCheck, PLockFin, PFin, PUnlockFin, CLock, CScan,
   CUnlock, CLockTake, CFind, CTake, CUnlockNone, CUnlockTook, CProcess, Lock, Unlock,
   LockAt, UnlockAt, ProdLock, ProdUnlock, ConsLock, ConsUnlock, Gone

\* A child's step moves only its own program counter; it reaches "dead" by itself
\* only when the semaphore is gone.
LEMMA ChildMoves ==
    ASSUME PCTypeOK, NEW p \in Procs, ProcStep(p)
    PROVE  /\ \A q \in Procs : q # p => pc'[q] = pc[q]
           /\ pc'[p] = "dead" => ~semLive
           /\ semLive' = semLive
BY DEF PCTypeOK, ProcStep, ProducerStep, ConsumerStep, SemFails, PTop, PWrite, PLockLink, PLink,
   PUnlockLink, PLockCheck, PScan, PUnlockCheck, PLockFin, PFin, PUnlockFin, CLock, CScan,
   CUnlock, CLockTake, CFind, CTake, CUnlockNone, CUnlockTook, CProcess, Lock, Unlock, Goto, Procs

\* A child that brings the semaphore down is inside afterwards, and one that is
\* inside leaves only by bringing it up.
LEMMA ChildHolds ==
    ASSUME PCTypeOK, NEW p \in Procs, ProcStep(p), semLive, sem' = 0
    PROVE  InCS(p)' \/ (sem = 0 /\ ~InCS(p))
<1>0. pc \in [Procs -> ProdPC \cup ConsPC] /\ sem \in {0, 1}
  BY DEF PCTypeOK
<1> USE <1>0 DEF InCS
<1>1. ASSUME NEW from, NEW to, Lock(p, from, to), to \in Inside PROVE InCS(p)'
  BY <1>1 DEF Lock, Goto
<1>2. ASSUME NEW from, NEW to, Unlock(p, from, to) PROVE FALSE
  BY <1>2 DEF Unlock
<1>3. ASSUME NEW l, Goto(p, l), sem' = sem, pc[p] \in Inside => l \in Inside
      PROVE  InCS(p)' \/ (sem = 0 /\ ~InCS(p))
  BY <1>3 DEF Goto
<1> USE DEF Inside, UnlockAt, ProdUnlock, ConsUnlock
<1>4. CASE p = Producer /\ (PLockLink \/ PLockCheck \/ PLockFin)
  BY <1>1, <1>4 DEF PLockLink, PLockCheck, PLockFin
<1>5. CASE p = Producer /\ (PUnlockLink \/ PUnlockCheck \/ PUnlockFin)
  BY <1>2, <1>5 DEF PUnlockLink, PUnlockCheck, PUnlockFin
<1>6. CASE p = Producer /\ (PTop \/ PWrite \/ PLink \/ PScan \/ PFin)
  BY <1>3, <1>6 DEF PTop, PWrite, PLink, PScan, PFin
<1>7. CASE SemFails(p)
  BY <1>7 DEF SemFails
<1>8. CASE p \in Consumers /\ (CLock(p) \/ CLockTake(p))
  BY <1>1, <1>8 DEF CLock, CLockTake
<1>9. CASE p \in Consumers /\ (CUnlock(p) \/ CUnlockNone(p) \/ CUnlockTook(p))
  BY <1>2, <1>9 DEF CUnlock, CUnlockNone, CUnlockTook
<1>10. CASE p \in Consumers /\ (CScan(p) \/ CFind(p) \/ CTake(p) \/ CProcess(p))
  BY <1>3, <1>10 DEF CScan, CFind, CTake, CProcess
<1> QED
  BY <1>4, <1>5, <1>6, <1>7, <1>8, <1>9, <1>10 DEF ProcStep, ProducerStep, ConsumerStep

\* A handler that ends a child changes its program counter and nothing of the list.
LEMMA DieKeepsPCInv ==
    ASSUME PCInv, NEW p \in Procs, Die(p), sem' = sem, semLive' \in BOOLEAN
    PROVE  PCInv'
<1>1. /\ pc \in [Procs -> ProdPC \cup ConsPC] /\ pc' = [pc EXCEPT ![p] = "dead"]
      /\ pc'[p] = "dead" /\ \A q \in Procs : q # p => pc'[q] = pc[q]
      /\ UNCHANGED <<nodes, finished, used, draft, since, allDone, view, cur, mine, report>>
  BY DEF PCInv, PCTypeOK, Die, Goto, listVars, prodVars, consVars
<1> USE <1>1 DEF PCInv, Procs
<1>2. PCTypeOK'
  BY DEF PCTypeOK, ProdPC, ConsPC, Gone
<1>3. MutualExclusion'
  BY DEF MutualExclusion, InCS, Inside, UnlockAt, ProdUnlock, ConsUnlock
<1>4. ClaimedOnce'
  BY DEF ClaimedOnce, Has, Reported
<1>5. ExitMeansDrained' /\ CurIsFull' /\ HandMatchesPC' /\ ScanIsCurrent'
  BY DEF ExitMeansDrained, HasUnprocessed, CurIsFull, HandMatchesPC, ScanIsCurrent
<1>6. FinishedIsLast' /\ BlocksBelowUsed' /\ BlocksDisjoint' /\ DraftFits'
  BY DEF FinishedIsLast, BlocksBelowUsed, BlocksDisjoint, DraftFits, Drafting
<1> QED
  BY <1>2, <1>3, <1>4, <1>5, <1>6

\* Forking a child starts it outside the semaphore with nothing in hand.
LEMMA ForkKeepsPCInv ==
    ASSUME PCInv, NEW p \in Procs, pc[p] = "none",
           Goto(p, IF p = Producer THEN "p_top" ELSE "c_lock"),
           p = Producer => ~finished,
           UNCHANGED <<sem, semLive, listVars, prodVars, consVars>>
    PROVE  PCInv'
<1> DEFINE l == IF p = Producer THEN "p_top" ELSE "c_lock"
<1>1. /\ pc \in [Procs -> ProdPC \cup ConsPC] /\ pc' = [pc EXCEPT ![p] = l]
      /\ pc'[p] = l /\ \A q \in Procs : q # p => pc'[q] = pc[q]
      /\ UNCHANGED <<sem, semLive, nodes, finished, used, draft, since, allDone, view, cur, mine, report>>
  BY DEF PCInv, PCTypeOK, Goto, listVars, prodVars, consVars
<1> USE PCAssumption, <1>1 DEF PCInv, Procs
<1>2. PCTypeOK'
  BY DEF PCTypeOK, ProdPC, ConsPC, ConsLock
<1>3. MutualExclusion'
  BY DEF MutualExclusion, InCS, Inside, UnlockAt, ProdUnlock, ConsUnlock
<1>4. ClaimedOnce'
  BY DEF ClaimedOnce, Has, Reported
<1>5. ExitMeansDrained' /\ CurIsFull' /\ HandMatchesPC' /\ ScanIsCurrent'
  BY DEF ExitMeansDrained, HasUnprocessed, CurIsFull, HandMatchesPC, ScanIsCurrent
<1>6. FinishedIsLast' /\ BlocksBelowUsed' /\ BlocksDisjoint' /\ DraftFits'
  BY DEF FinishedIsLast, BlocksBelowUsed, BlocksDisjoint, DraftFits, Drafting
<1> QED
  BY <1>2, <1>3, <1>4, <1>5, <1>6

\* Before main has forked anything the invariant holds, whatever the semaphore.
LEMMA NoChildrenPCInv ==
    PCInit /\ sem \in {0, 1} /\ semLive \in BOOLEAN /\ finished \in BOOLEAN => PCInv
<1> SUFFICES ASSUME PCInit, sem \in {0, 1}, semLive \in BOOLEAN, finished \in BOOLEAN
             PROVE  PCInv
  OBVIOUS
<1>1. nodes = <<>> /\ nodes \in Seq(Block) /\ DOMAIN nodes = {}
  BY EmptySeq DEF PCInit
<1>2. \A c \in Consumers : report[c] = <<>> /\ DOMAIN report[c] = {} /\ report[c] \in Seq(Nat)
  BY EmptySeq DEF PCInit
<1> USE PCAssumption, <1>1, <1>2 DEF PCInit, Procs
<1>3. PCTypeOK
  BY DEF PCTypeOK, ProdPC, ConsPC, SizeofShared
<1>4. MutualExclusion
  BY DEF MutualExclusion, InCS, Inside, UnlockAt, ProdUnlock, ConsUnlock
<1>5. ClaimedOnce
  BY DEF ClaimedOnce
<1>6. ExitMeansDrained /\ CurIsFull /\ HandMatchesPC /\ ScanIsCurrent
  BY DEF ExitMeansDrained, CurIsFull, HandMatchesPC, ScanIsCurrent
<1>7. FinishedIsLast /\ BlocksBelowUsed /\ BlocksDisjoint /\ DraftFits
  BY DEF FinishedIsLast, BlocksBelowUsed, BlocksDisjoint, DraftFits, Drafting
<1> QED
  BY <1>3, <1>4, <1>5, <1>6, <1>7 DEF PCInv

\* Only whether the semaphore still exists changes.
LEMMA StutterKeepsPCInv ==
    ASSUME PCInv, semLive' \in BOOLEAN,
           UNCHANGED <<sem, pc, listVars, prodVars, consVars>>
    PROVE  PCInv'
BY DEF PCInv, PCTypeOK, MutualExclusion, ClaimedOnce, Has, Reported, InCS,
       ExitMeansDrained, HasUnprocessed, CurIsFull, HandMatchesPC, ScanIsCurrent,
       FinishedIsLast, BlocksBelowUsed, BlocksDisjoint, DraftFits, listVars, prodVars, consVars

\* When every consumer left by itself, each block was reported.
LEMMA AllExitedAllReported ==
    ASSUME PCInv, \A c \in Consumers : pc[c] = "exited"
    PROVE  /\ \A c \in Consumers : mine[c] = 0
           /\ \A i \in DOMAIN nodes : \E c \in Consumers : Reported(c, i)
<1>1. \A c \in Consumers : mine[c] = 0
  BY DEF PCInv, HandMatchesPC
<1>2. ~HasUnprocessed
  BY PCAssumption DEF PCInv, ExitMeansDrained
<1>3. ASSUME NEW i \in DOMAIN nodes PROVE \E c \in Consumers : Reported(c, i)
  <2>1. i \in 1..Len(nodes) /\ nodes[i] \in Block
    BY LenProperties, ElementOfSeq DEF PCInv, PCTypeOK
  <2>2. nodes[i].count = 0 /\ i # 0
    BY <1>2, <2>1 DEF HasUnprocessed, IsFull, Block
  <2>3. PICK c \in Consumers : Has(c, i)
    BY <2>2 DEF PCInv, ClaimedOnce
  <2> QED
    BY <1>1, <2>2, <2>3 DEF Has
<1> QED
  BY <1>1, <1>3

\* The invariant gives the two memory properties the runs check.
LEMMA PCInvGivesMemory ==
    ASSUME PCInv
    PROVE  NoOverlap /\ OverrunBounded
<1>1. used \in Nat /\ TotalSize \in Nat /\ (pc[Producer] \in Drafting => draft \in Nat)
  BY PCAssumption DEF PCInv, PCTypeOK, DraftFits
<1>2. NoOverlap
  BY DEF PCInv, NoOverlap, BlocksDisjoint, BlocksBelowUsed, NewNode
<1>3. OverrunBounded
  BY <1>1 DEF PCInv, OverrunBounded, DraftFits, Drafting, NewNode, EndOf, Bytes, SizeofShared,
              SizeofNode, SizeofInt, SizeofPtr
<1> QED
  BY <1>2, <1>3

-----------------------------------------------------------------------------
(***************************************************************************)
(* The shared list implements WorkPool: every step of a producer or a      *)
(* consumer is a step of the pool or leaves the pool as it is.             *)
(***************************************************************************)

\* The full blocks are the last ones: blocks are taken from the front.
Fifo == \A i, j \in DOMAIN nodes : i < j /\ IsFull(nodes[i]) => IsFull(nodes[j])

\* The block a consumer is about to take is the first full one.
CurIsFirst ==
    \A c \in Consumers :
        pc[c] = "c_take" => \A j \in 1..(cur[c] - 1) : ~IsFull(nodes[j])

\* The producer is forked before any consumer.
ProducerFirst == pc[Producer] = "none" => \A c \in Consumers : pc[c] = "none"

PoolInv == Fifo /\ CurIsFirst /\ ProducerFirst

\* Taken as a function of the list.
TakenOf(s) == IF \E i \in DOMAIN s : IsFull(s[i])
                THEN (CHOOSE i \in DOMAIN s : /\ IsFull(s[i])
                                              /\ \A j \in 1..(i-1) : ~IsFull(s[j])) - 1
                ELSE Len(s)

\* A list whose first k blocks are taken and whose others are full has k taken blocks.
LEMMA TakenIs ==
    ASSUME NEW s \in Seq(Block), NEW k \in 0..Len(s),
           \A i \in 1..Len(s) : IsFull(s[i]) <=> i > k
    PROVE  TakenOf(s) = k
<1> DEFINE Good(i) == IsFull(s[i]) /\ \A j \in 1..(i-1) : ~IsFull(s[j])
<1>0. DOMAIN s = 1..Len(s) /\ Len(s) \in Nat
  BY LenProperties
<1>1. CASE k = Len(s)
  BY <1>0, <1>1 DEF TakenOf
<1>2. CASE k # Len(s)
  <2> DEFINE first == CHOOSE i \in DOMAIN s : Good(i)
  <2>0. k \in Nat /\ k + 1 \in 1..Len(s) /\ \A j \in 1..k : j \in 1..Len(s) /\ ~(j > k)
    <3>1. \A n \in Nat : \A m \in 0..n : m # n =>
             m \in Nat /\ m + 1 \in 1..n /\ \A j \in 1..m : j \in 1..n /\ ~(j > m)
      OBVIOUS
    <3> QED
      BY <1>0, <1>2, <3>1, Zenon
  <2>1. k + 1 \in DOMAIN s /\ Good(k + 1)
    <3>1. IsFull(s[k + 1])
      BY <2>0
    <3>2. (k + 1) - 1 = k
      BY <2>0
    <3> QED
      BY <1>0, <2>0, <3>1, <3>2
  <2>2. ASSUME NEW i \in DOMAIN s, Good(i) PROVE i = k + 1
    <3>1. i \in Nat /\ i > k
      BY <1>0, <2>0, <2>2 DEF IsFull
    <3>2. ~(i > k + 1)
      BY <1>0, <2>0, <2>1, <2>2, <3>1 DEF IsFull
    <3> QED
      BY <2>0, <3>1, <3>2
  <2>3. TakenOf(s) = first - 1
    BY <2>1 DEF TakenOf
  <2>4. first = k + 1
    <3> HIDE DEF Good
    <3> QED BY <2>1, <2>2
  <2> HIDE DEF first
  <2> QED
    BY <2>0, <2>3, <2>4
<1> QED
  BY <1>1, <1>2

\* The blocks up to Taken are taken, those after it are full.
LEMMA TakenSplits ==
    ASSUME nodes \in Seq(Block), Fifo
    PROVE  /\ Taken \in 0..Len(nodes) /\ Len(nodes) \in Nat
           /\ \A i \in 1..Len(nodes) : IsFull(nodes[i]) <=> i > Taken
<1>0. DOMAIN nodes = 1..Len(nodes) /\ Len(nodes) \in Nat
  BY LenProperties
<1>1. CASE HasUnprocessed
  <2>1. /\ FirstUnprocessed \in 1..Len(nodes) /\ IsFull(nodes[FirstUnprocessed])
        /\ \A j \in 1..(FirstUnprocessed - 1) : ~IsFull(nodes[j])
    BY <1>0, <1>1, FirstUnprocessedIsFull
  <2>2. Taken = FirstUnprocessed - 1
    BY <1>1 DEF Taken
  <2> QED
    BY <1>0, <2>1, <2>2 DEF Fifo
<1>2. CASE ~HasUnprocessed
  <2>1. Taken = Len(nodes)
    BY <1>2 DEF Taken
  <2> QED
    BY <1>0, <1>2, <2>1 DEF HasUnprocessed
<1> QED
  BY <1>1, <1>2

-----------------------------------------------------------------------------
\* Linking adds a full block behind the others, taking empties the first full one.
LEMMA PoolInvStep ==
    ASSUME PCInv, PoolInv, NEW p \in Procs, ProcStep(p)
    PROVE  PoolInv'
<1>0. /\ PCTypeOK /\ CurIsFull /\ DraftFits /\ MutualExclusion
      /\ pc \in [Procs -> ProdPC \cup ConsPC] /\ cur \in [Consumers -> Nat]
      /\ nodes \in Seq(Block) /\ DOMAIN nodes = 1..Len(nodes) /\ Len(nodes) \in Nat
  BY LenProperties DEF PCInv, PCTypeOK
<1>1. Fifo'
  <2>1. CASE p = Producer /\ PLink
    BY <1>0, <2>1, LinkEffect DEF PoolInv, Fifo
  <2>2. CASE p \in Consumers /\ CTake(p)
    <3>1. \A j \in 1..(cur[p] - 1) : ~IsFull(nodes[j])
      BY <2>2 DEF PoolInv, CurIsFirst, CTake
    <3>2. \A i \in DOMAIN nodes : IsFull(nodes'[i]) <=> IsFull(nodes[i]) /\ i # cur[p]
      BY <1>0, <2>2, TakeEffect DEF IsFull
    <3>3. DOMAIN nodes' = DOMAIN nodes /\ cur[p] \in DOMAIN nodes
      BY <1>0, <2>2, TakeEffect
    <3> SUFFICES ASSUME NEW i \in DOMAIN nodes, NEW j \in DOMAIN nodes, i < j, IsFull(nodes[i]), i # cur[p]
                 PROVE  IsFull(nodes[j]) /\ j # cur[p]
      BY <3>2, <3>3 DEF Fifo
    <3> QED
      BY <1>0, <3>1, <3>3 DEF PoolInv, Fifo
  <2>3. CASE nodes' = nodes
    BY <2>3 DEF PoolInv, Fifo
  <2> QED
    BY <2>1, <2>2, <2>3, QuietStep DEF CProcess, listVars
<1>2. CurIsFirst'
  <2>1. SUFFICES ASSUME NEW c \in Consumers, pc'[c] = "c_take"
                 PROVE  \A j \in 1..(cur'[c] - 1) : ~IsFull(nodes'[j])
    BY DEF CurIsFirst
  <2>2. CASE p = c
    <3>1. CFind(c)
      BY <1>0, <2>1, <2>2, PCAssumption DEF ProcStep, ConsumerStep, SemFails, CLock, CScan, CUnlock, CLockTake,
         CTake, CUnlockNone, CUnlockTook, CProcess, Lock, Unlock, Goto, Procs
    <3>2. HasUnprocessed /\ nodes' = nodes /\ cur'[c] = FirstUnprocessed
      BY <1>0, <2>1, <3>1 DEF CFind, Goto, Procs, listVars
    <3> QED
      BY <1>0, <3>2, FirstUnprocessedIsFull
  <2>3. CASE p # c
    <3>1. pc[c] = "c_take" /\ cur'[c] = cur[c]
      BY <1>0, <2>1, <2>3, PCAssumption DEF ProcStep, ProducerStep, ConsumerStep, SemFails, PTop, PWrite, PLockLink,
         PLink, PUnlockLink, PLockCheck, PScan, PUnlockCheck, PLockFin, PFin, PUnlockFin,
         CLock, CScan, CUnlock, CLockTake, CFind, CTake, CUnlockNone, CUnlockTook, CProcess,
         Lock, Unlock, Goto, Procs, consVars
    <3>2. nodes' = nodes
      <4>1. ~InCS(p)
        BY <1>0, <2>3, <3>1 DEF MutualExclusion, InCS, Inside, Procs
      <4> QED
        BY <4>1, QuietStep DEF PLink, CTake, CProcess, InCS, Inside, listVars
    <3> QED
      BY <2>1, <3>1, <3>2 DEF PoolInv, CurIsFirst
  <2> QED
    BY <2>2, <2>3
<1>3. ProducerFirst'
  <2>1. pc[p] # "none" /\ pc'[p] # "none" /\ \A q \in Procs : q # p => pc'[q] = pc[q]
    BY <1>0, PCAssumption DEF ProcStep, ProducerStep, ConsumerStep, SemFails, PTop, PWrite, PLockLink,
         PLink, PUnlockLink, PLockCheck, PScan, PUnlockCheck, PLockFin, PFin, PUnlockFin,
         CLock, CScan, CUnlock, CLockTake, CFind, CTake, CUnlockNone, CUnlockTook, CProcess,
         Lock, Unlock, Goto, Procs, LockAt, UnlockAt, ProdLock, ProdUnlock, ConsLock, ConsUnlock
  <2> QED
    BY <2>1 DEF PoolInv, ProducerFirst, Procs
<1> QED
  BY <1>1, <1>2, <1>3 DEF PoolInv

-----------------------------------------------------------------------------
\* A step changes the flag only at producer.c:82, and lets a consumer leave only at
\* consumer.c:32.
LEMMA FlagAndExits ==
    ASSUME PCTypeOK, NEW p \in Procs, ProcStep(p)
    PROVE  /\ (p = Producer /\ PFin) \/ finished' = finished
           /\ (pc'[Producer] = "none") <=> (pc[Producer] = "none")
           /\ \A c \in Consumers : (c = p /\ CUnlock(p)) \/ ((pc'[c] = "exited") <=> (pc[c] = "exited"))
<1>0. pc \in [Procs -> ProdPC \cup ConsPC]
  BY DEF PCTypeOK
<1> USE <1>0, PCAssumption DEF Procs, Goto, Lock, Unlock
<1>1. CASE p = Producer
  BY <1>1 DEF ProcStep, ProducerStep, SemFails, PTop, PWrite, PLockLink, PLink, PUnlockLink,
     PLockCheck, PScan, PUnlockCheck, PLockFin, PFin, PUnlockFin, listVars,
     LockAt, UnlockAt, ProdLock, ProdUnlock, ConsLock, ConsUnlock
<1>2. CASE p \in Consumers
  BY <1>2 DEF ProcStep, ConsumerStep, SemFails, CLock, CScan, CUnlock, CLockTake, CFind,
     CTake, CUnlockNone, CUnlockTook, CProcess, listVars, LockAt, UnlockAt, ProdLock,
     ProdUnlock, ConsLock, ConsUnlock
<1> QED
  BY <1>1, <1>2

\* Every step of a child is a step of the pool or does not show in it.
LEMMA ProcStepIsPoolStep ==
    ASSUME PCInv, PoolInv, NEW p \in Procs, ProcStep(p)
    PROVE  [Pool!Next]_(Pool!vars)
<1>0. /\ PCTypeOK /\ nodes \in Seq(Block) /\ finished \in BOOLEAN
      /\ pc \in [Procs -> ProdPC \cup ConsPC]
      /\ mine \in [Consumers -> Nat] /\ cur \in [Consumers -> Nat]
      /\ Taken \in 0..Len(nodes) /\ Len(nodes) \in Nat
      /\ \A i \in 1..Len(nodes) : IsFull(nodes[i]) <=> i > Taken
      /\ CurIsFull /\ DraftFits /\ HandMatchesPC /\ FinishedIsLast /\ ScanIsCurrent
      /\ CurIsFirst /\ DOMAIN nodes = 1..Len(nodes)
  BY TakenSplits, LenProperties DEF PCInv, PCTypeOK, PoolInv
<1>1. Taken' = TakenOf(nodes') /\ Taken = TakenOf(nodes)
  BY DEF Taken, TakenOf, HasUnprocessed, FirstUnprocessed
<1>2. nodes' \in Seq(Block)
  BY TypeStep, <1>0 DEF PCTypeOK, PCInv
<1>3. CASE p = Producer /\ PLink
  <2>1. /\ Len(nodes') = Len(nodes) + 1 /\ ~finished /\ finished' = finished
        /\ mine' = mine /\ report' = report
        /\ \A c \in Consumers : pc'[c] = pc[c]
    BY <1>0, <1>3, PCAssumption, AppendProperties, LinkEffect
       DEF PLink, consVars, FinishedIsLast, Goto, Procs
  <2>2. \A i \in 1..Len(nodes') : IsFull(nodes'[i]) <=> i > Taken
    <3> SUFFICES ASSUME NEW i \in 1..Len(nodes') PROVE IsFull(nodes'[i]) <=> i > Taken
      OBVIOUS
    <3>1. CASE i = Len(nodes) + 1
      <4>1. i > Taken
        BY <1>0, <3>1
      <4>2. IsFull(nodes'[i])
        BY <1>0, <1>3, <3>1, LinkEffect
      <4> QED
        BY <4>1, <4>2
    <3>2. CASE i # Len(nodes) + 1
      <4>1. i \in 1..Len(nodes) /\ i \in DOMAIN nodes
        BY <1>0, <2>1, <3>2
      <4>2. nodes'[i] = nodes[i]
        BY <1>0, <1>3, <4>1, LinkEffect
      <4> QED
        BY <1>0, <4>1, <4>2
    <3> QED
      BY <3>1, <3>2
  <2>3. Taken' = Taken
    <3>1. Taken \in 0..Len(nodes')
      BY <1>0, <2>1
    <3> QED
      BY <1>1, <1>2, <2>2, <3>1, TakenIs
  <2>4. Pool!Produce
    BY <2>1, <2>3 DEF Pool!Produce
  <2> QED
    BY <2>4 DEF Pool!Next
<1>4. CASE p \in Consumers /\ CTake(p)
  <2>1. /\ cur[p] \in 1..Len(nodes) /\ IsFull(nodes[cur[p]])
        /\ \A j \in 1..(cur[p] - 1) : ~IsFull(nodes[j])
    BY <1>0, <1>4 DEF CurIsFull, CurIsFirst, CTake
  <2>2. cur[p] = Taken + 1
    <3>1. cur[p] > Taken
      BY <1>0, <2>1
    <3>2. ~(cur[p] > Taken + 1)
      <4>1. SUFFICES ASSUME cur[p] > Taken + 1 PROVE FALSE
        OBVIOUS
      <4>2. Taken + 1 \in 1..(cur[p] - 1) /\ Taken + 1 \in 1..Len(nodes) /\ Taken + 1 > Taken
        BY <1>0, <2>1, <4>1
      <4> QED
        BY <1>0, <2>1, <4>2
    <3> QED
      BY <1>0, <2>1, <3>1, <3>2
  <2>3. /\ Len(nodes') = Len(nodes) /\ finished' = finished /\ report' = report
        /\ mine[p] = 0 /\ mine' = [mine EXCEPT ![p] = cur[p]]
        /\ pc'[Producer] # "none" <=> pc[Producer] # "none"
        /\ \A c \in Consumers : (pc'[c] = "exited") <=> (pc[c] = "exited")
    <3>1. DOMAIN nodes' = DOMAIN nodes
      BY <1>0, <1>4, TakeEffect
    <3>2. Len(nodes') = Len(nodes)
      BY <1>0, <1>2, <3>1, LenProperties
    <3> QED
      BY <1>0, <1>4, <3>2, PCAssumption DEF CTake, HandMatchesPC, Goto, Procs
  <2>4. Taken' = Taken + 1
    <3>1. Taken + 1 \in 0..Len(nodes')
      BY <1>0, <2>1, <2>2, <2>3
    <3>2. \A i \in 1..Len(nodes') : IsFull(nodes'[i]) <=> i > Taken + 1
      <4>1. \A i \in 1..Len(nodes) : IsFull(nodes'[i]) <=> IsFull(nodes[i]) /\ i # cur[p]
        BY <1>0, <1>4, TakeEffect DEF IsFull
      <4> QED
        BY <1>0, <2>2, <2>3, <4>1
    <3> QED
      BY <1>1, <1>2, <3>1, <3>2, TakenIs
  <2>5. Taken < Len(nodes)
    BY <1>0, <2>1, <2>2
  <2>6. Pool!Take(p)
    BY <2>2, <2>3, <2>4, <2>5 DEF Pool!Take
  <2> QED
    BY <1>4, <2>6 DEF Pool!Next
<1>5. CASE p \in Consumers /\ CProcess(p)
  <2>1. /\ nodes' = nodes /\ finished' = finished /\ mine[p] # 0
        /\ report' = [report EXCEPT ![p] = Append(@, mine[p])]
        /\ mine' = [mine EXCEPT ![p] = 0]
        /\ pc'[Producer] # "none" <=> pc[Producer] # "none"
        /\ \A c \in Consumers : (pc'[c] = "exited") <=> (pc[c] = "exited")
    BY <1>0, <1>5, PCAssumption DEF CProcess, HandMatchesPC, Goto, Procs, listVars
  <2>2. Taken' = Taken
    BY <1>1, <2>1
  <2>3. Pool!Report(p)
    BY <2>1, <2>2 DEF Pool!Report
  <2> QED
    BY <1>5, <2>3 DEF Pool!Next
<1>6. CASE UNCHANGED <<nodes, mine, report>>
  <2>0. Taken' = Taken
    BY <1>1, <1>6
  <2>1. CASE p = Producer /\ PFin
    <3>1. /\ ~finished /\ finished' = TRUE /\ pc'[Producer] # "none"
          /\ \A c \in Consumers : pc'[c] = pc[c]
      BY <1>0, <2>1, PCAssumption DEF PFin, FinishedIsLast, Goto, Procs
    <3>2. Pool!Close
      BY <1>6, <2>0, <3>1 DEF Pool!Close
    <3> QED
      BY <3>2 DEF Pool!Next
  <2>2. CASE p \in Consumers /\ CUnlock(p) /\ pc'[p] = "exited"
    <3>1. /\ pc[p] = "c_unlock" /\ view[p].done /\ ~view[p].has /\ finished' = finished
          /\ pc'[Producer] = pc[Producer] /\ \A c \in Consumers : c # p => pc'[c] = pc[c]
      BY <1>0, <2>2, PCAssumption DEF CUnlock, Unlock, Goto, Procs, listVars
    <3>2. finished /\ ~HasUnprocessed /\ pc[Producer] # "none" /\ mine[p] = 0
      BY <1>0, <2>2, <3>1 DEF ScanIsCurrent, PoolInv, ProducerFirst, HandMatchesPC
    <3>3. Taken = Len(nodes)
      BY <3>2 DEF Taken
    <3>4. Pool!Leave(p)
      BY <1>6, <2>0, <2>2, <3>1, <3>2, <3>3 DEF Pool!Leave
    <3> QED
      BY <2>2, <3>4 DEF Pool!Next
  <2>3. CASE ~(p = Producer /\ PFin) /\ ~(p \in Consumers /\ CUnlock(p) /\ pc'[p] = "exited")
    <3>1. /\ finished' = finished
          /\ (pc'[Producer] = "none") <=> (pc[Producer] = "none")
          /\ \A c \in Consumers : (pc'[c] = "exited") <=> (pc[c] = "exited")
      BY <1>0, <2>3, FlagAndExits DEF CUnlock, Unlock
    <3> QED
      BY <1>6, <2>0, <3>1 DEF Pool!vars
  <2> QED
    BY <2>1, <2>2, <2>3
<1> QED
  BY <1>3, <1>4, <1>5, <1>6, QuietStep

\* What main and the handlers do does not show in the pool.
LEMMA OtherStepIsPoolStutter ==
    ASSUME UNCHANGED <<nodes, mine, report>>,
           (finished' /\ pc'[Producer] # "none") <=> (finished /\ pc[Producer] # "none"),
           \A c \in Consumers : (pc'[c] = "exited") <=> (pc[c] = "exited")
    PROVE  UNCHANGED Pool!vars
BY DEF Pool!vars, Taken, HasUnprocessed, FirstUnprocessed

\* Before anything is forked the pool is empty.
LEMMA PoolStart == PCInit => PoolInv /\ Pool!Init
<1> SUFFICES ASSUME PCInit PROVE PoolInv /\ Pool!Init
  OBVIOUS
<1>1. nodes = <<>> /\ Len(nodes) = 0 /\ DOMAIN nodes = {} /\ ~HasUnprocessed
  BY EmptySeq DEF PCInit, HasUnprocessed
<1>2. \A p \in Procs : pc[p] = "none"
  BY DEF PCInit
<1>3. PoolInv
  BY <1>1, <1>2 DEF PoolInv, Fifo, CurIsFirst, ProducerFirst, Procs
<1>4. Taken = 0
  BY <1>1 DEF Taken
<1>5. Pool!Init
  BY <1>1, <1>2, <1>4 DEF PCInit, Pool!Init, Procs
<1> QED
  BY <1>3, <1>5

\* A step that leaves the list alone and at most ends a child, or forks one after the
\* producer, keeps the order of the pool.
LEMMA OtherStepKeepsPoolInv ==
    ASSUME PoolInv, UNCHANGED <<nodes, cur>>,
           \A c \in Consumers : pc'[c] = "c_take" => pc[c] = "c_take",
           pc'[Producer] = "none" => /\ pc[Producer] = "none"
                                     /\ \A c \in Consumers : pc[c] = "none" => pc'[c] = "none"
    PROVE  PoolInv'
BY DEF PoolInv, Fifo, CurIsFirst, ProducerFirst
=============================================================================
