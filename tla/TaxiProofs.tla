----------------------------- MODULE TaxiProofs -----------------------------
(***************************************************************************)
(* What the dispatcher learns from an answer is true, for every number of  *)
(* drivers, requests and signals, although a driver also serves the        *)
(* requests that were given up: the open connection is the last one made,  *)
(* and a driver serves its connections in the order they were made.        *)
(***************************************************************************)
EXTENDS Taxi, SequenceTheorems, TLAPS

Kinds   == {"none", "create", "task", "status", "scan", "quit"}
Replies == {"OK", "BUSY", "AVAILABLE"}
Request == [id : Nat, kind : Kinds, seconds : Nat]
Asking  == {"probe", "connect", "wait", "waitpid"}
Places  == Asking \cup {"prompt", "pause", "slot", "shutdown", "ended", "killed"}
Lives   == {"unborn", "starting", "poll", "zombie", "reaped"}

\* Every variable keeps its type.
TypeOK ==
    /\ mpc \in Places /\ kind \in Kinds /\ driver \in Drivers \cup {None}
    /\ seconds \in Nat /\ slot \in Nat /\ table \in [Slots -> Drivers \cup {None}]
    /\ conn \in Nat /\ last \in Nat /\ inbox \in Replies \cup {None}
    /\ running \in BOOLEAN /\ signals \in Nat /\ missed \in BOOLEAN /\ reported \subseteq Nat
    /\ dpc \in [Drivers -> Lives] /\ backlog \in [Drivers -> Seq(Request)]
    /\ left \in [Drivers -> Nat] /\ accepted \in [Drivers -> SUBSET Nat]

\* Where the dispatcher is in its loops over the table.
Placed ==
    /\ mpc \in Asking => driver \in Drivers
    /\ mpc = "pause" => kind = "create"
    /\ mpc = "slot" => kind \in {"scan", "quit"}
    /\ mpc = "waitpid" => kind = "quit"
    /\ mpc \in Asking \cup {"slot"} /\ kind \in {"scan", "quit"} => slot \in 0 .. MaxDrivers

\* A driver's connections are in the order they were made.
Numbered ==
    \A d \in Drivers :
        /\ \A i \in 1 .. Len(backlog[d]) : backlog[d][i].id \in 1 .. last
        /\ \A i, j \in 1 .. Len(backlog[d]) : i < j => backlog[d][i].id < backlog[d][j].id

\* A connection is open only while the dispatcher waits for its answer; it is
\* the last one made, and only the driver it was made to has it.
OneConnection ==
    /\ conn # 0 <=> mpc = "wait"
    /\ conn # 0 => conn = last
    /\ \A d \in Drivers : \A i \in 1 .. Len(backlog[d]) :
          backlog[d][i].id = conn => d = driver /\ backlog[d][i].kind = kind

\* What an answer that has arrived tells.
Answered ==
    /\ inbox # None => mpc = "wait"
    /\ inbox = "OK" /\ kind = "task" => conn \in accepted[driver]

TaxiInv == /\ TypeOK /\ Placed /\ Numbered /\ OneConnection
           /\ Answered /\ ReportedIsTaken /\ AvailableIsFinal

-----------------------------------------------------------------------------
\* A driver that serves its first connection keeps the others, in their order.
LEMMA DropFirst ==
    ASSUME NEW R, NEW s \in Seq(R), s # <<>>
    PROVE  /\ Drop(s, 1) \in Seq(R) /\ Len(Drop(s, 1)) = Len(s) - 1
           /\ \A i \in 1 .. Len(s) - 1 : Drop(s, 1)[i] = s[i + 1]
<1>0. Len(s) \in Nat /\ Len(s) >= 1
  BY EmptySeq, LenProperties
<1>1. SubSeq(s, 1, 0) \in Seq(R) /\ Len(SubSeq(s, 1, 0)) = 0
  BY <1>0, SubSeqProperties
<1>2. /\ SubSeq(s, 2, Len(s)) \in Seq(R) /\ Len(SubSeq(s, 2, Len(s))) = Len(s) - 1
      /\ \A i \in 1 .. Len(s) - 1 : SubSeq(s, 2, Len(s))[i] = s[i + 1]
  <2>1. 2 \in 1 .. Len(s) + 1 /\ Len(s) \in 2 - 1 .. Len(s) /\ Len(s) - 2 + 1 = Len(s) - 1
    BY <1>0
  <2>2. /\ SubSeq(s, 2, Len(s)) \in Seq(R) /\ Len(SubSeq(s, 2, Len(s))) = Len(s) - 2 + 1
        /\ \A i \in 1 .. Len(s) - 2 + 1 : SubSeq(s, 2, Len(s))[i] = s[2 + i - 1]
    BY <1>0, <2>1, SubSeqProperties
  <2>3. \A i \in 1 .. Len(s) - 1 : 2 + i - 1 = i + 1
    BY <1>0
  <2> QED
    BY <2>1, <2>2, <2>3
<1>3. Drop(s, 1) = SubSeq(s, 1, 0) \o SubSeq(s, 2, Len(s))
  BY DEF Drop
<1> QED
  BY <1>0, <1>1, <1>2, <1>3, ConcatProperties

\* What the constants are.
LEMMA Distinguished ==
    /\ None \notin Drivers /\ None \notin Replies
    /\ MaxDrivers \in Nat /\ MaxDrivers # 0 /\ MaxSeconds \in Nat /\ MaxSignals \in Nat
BY TaxiAssumption DEF Replies

\* After a request the dispatcher is in one of its loops and waits for nothing.
LEMMA BackIsIdle ==
    ASSUME NEW on \in BOOLEAN
    PROVE  /\ Back(on) \in {"slot", "prompt", "shutdown"}
           /\ Back(on) = "slot" => kind \in {"scan", "quit"}
BY DEF Back, MainLoop

-----------------------------------------------------------------------------
(* The steps, by what they do to the open connection.                       *)

\* Steps of the dispatcher that make no connection: afterwards none is open.
IdleStep == \/ Fork \/ Enter \/ Ask \/ GetDrivers \/ Exit \/ Shutdown \/ NextSlot \/ Probe
            \/ Unavailable \/ Reply \/ Timeout \/ Reap \/ Killed
            \/ (Interrupt /\ ~ (mpc = "wait" /\ inbox # None))

\* Steps beside an open connection.
BesideStep == \/ Tick
              \/ (Interrupt /\ mpc = "wait" /\ inbox # None)
              \/ \E d \in Drivers : Listen(d) \/ Die(d)

\* Every step is of one of four kinds.
LEMMA StepKinds ==
    Next => IdleStep \/ BesideStep \/ Connect \/ \E d \in Drivers : Serve(d)
BY DEF Next, DispatcherStep, IdleStep, BesideStep

\* Afterwards no connection is open, and the drivers' connections are as before.
LEMMA IdleEffect ==
    ASSUME TaxiInv, IdleStep
    PROVE  /\ mpc' # "wait" /\ conn' = 0 /\ inbox' = None /\ last' = last
           /\ backlog' = backlog /\ accepted' = accepted /\ left' = left
           /\ \/ reported' = reported
              \/ Reply /\ kind = "task" /\ inbox = "OK" /\ reported' = reported \cup {conn}
<1>0. /\ mpc # "wait" => conn = 0 /\ inbox = None
      /\ running \in BOOLEAN
  BY DEF TaxiInv, OneConnection, Answered, TypeOK
<1>1. \A on \in BOOLEAN : Back(on) # "wait" /\ MainLoop(on) # "wait"
  BY BackIsIdle DEF MainLoop
<1>2. CASE \/ Fork \/ Enter \/ Ask \/ GetDrivers \/ Exit \/ Shutdown
  <2>1. mpc # "wait" /\ mpc' # "wait"
    BY <1>0, <1>1, <1>2 DEF Fork, Enter, Ask, GetDrivers, Exit, Shutdown
  <2> QED
    BY <1>0, <1>2, <2>1 DEF Fork, Enter, Ask, GetDrivers, Exit, Shutdown, drivers
<1>3. CASE NextSlot
  <2>1. mpc # "wait" /\ mpc' # "wait"
    BY <1>0, <1>1, <1>3 DEF NextSlot
  <2> QED
    BY <1>0, <1>3, <2>1 DEF NextSlot, drivers
<1>4. CASE Probe \/ Unavailable \/ Reap
  <2>1. mpc # "wait" /\ mpc' # "wait"
    BY <1>0, <1>1, <1>4 DEF Probe, Unavailable, Reap
  <2> QED
    BY <1>0, <1>4, <2>1 DEF Probe, Unavailable, Reap, drivers
<1>5. CASE Reply
  BY <1>0, <1>1, <1>5 DEF Reply, drivers
<1>6. CASE Timeout \/ Killed
  BY <1>0, <1>1, <1>6 DEF Timeout, Killed, drivers
<1>7. CASE Interrupt /\ ~ (mpc = "wait" /\ inbox # None)
  <2>1. last' = last /\ inbox' = inbox /\ reported' = reported
        /\ backlog' = backlog /\ accepted' = accepted /\ left' = left
    BY <1>7 DEF Interrupt, drivers
  <2>2. CASE mpc = "wait"
    <3>1. mpc' = Back(FALSE) /\ conn' = 0
      BY <1>7, <2>2 DEF Interrupt
    <3> QED
      BY <1>1, <1>7, <2>1, <2>2, <3>1
  <2>3. CASE mpc # "wait"
    <3>1. mpc' \in {"shutdown", "slot", mpc} /\ conn' = conn
      BY <1>7, <2>3 DEF Interrupt
    <3> QED
      BY <1>0, <2>1, <2>3, <3>1
  <2> QED
    BY <2>2, <2>3
<1> QED
  BY <1>2, <1>3, <1>4, <1>5, <1>6, <1>7 DEF IdleStep

\* A step beside an open connection leaves it alone.
LEMMA BesideEffect ==
    ASSUME TaxiInv, BesideStep
    PROVE  /\ mpc' = mpc /\ kind' = kind /\ driver' = driver /\ conn' = conn /\ last' = last
           /\ inbox' = inbox /\ reported' = reported /\ accepted' = accepted
           /\ seconds' = seconds /\ slot' = slot /\ table' = table /\ missed' = missed
           /\ \A d \in Drivers : backlog'[d] = backlog[d] \/ backlog'[d] = <<>>
           /\ \A d \in Drivers : left[d] = 0 => left'[d] = 0
<1>0. backlog \in [Drivers -> Seq(Request)] /\ left \in [Drivers -> Nat]
  BY DEF TaxiInv, TypeOK
<1>1. CASE Tick
  BY <1>0, <1>1 DEF Tick, dispatcher
<1>2. CASE Interrupt /\ mpc = "wait" /\ inbox # None
  BY <1>2 DEF Interrupt, drivers
<1>3. ASSUME NEW x \in Drivers, Listen(x) PROVE
           /\ mpc' = mpc /\ kind' = kind /\ driver' = driver /\ conn' = conn /\ last' = last
           /\ inbox' = inbox /\ reported' = reported /\ accepted' = accepted
           /\ seconds' = seconds /\ slot' = slot /\ table' = table /\ missed' = missed
           /\ backlog' = backlog /\ left' = left
  BY <1>3 DEF Listen, dispatcher
<1>4. ASSUME NEW x \in Drivers, Die(x) PROVE
           /\ mpc' = mpc /\ kind' = kind /\ driver' = driver /\ conn' = conn /\ last' = last
           /\ inbox' = inbox /\ reported' = reported /\ accepted' = accepted
           /\ seconds' = seconds /\ slot' = slot /\ table' = table /\ missed' = missed
           /\ backlog' = [backlog EXCEPT ![x] = <<>>] /\ left' = [left EXCEPT ![x] = 0]
  BY <1>4 DEF Die, dispatcher
<1>5. CASE \E d \in Drivers : Listen(d)
  BY <1>3, <1>5
<1>6. CASE \E d \in Drivers : Die(d)
  BY <1>0, <1>4, <1>6
<1> QED
  BY <1>1, <1>2, <1>5, <1>6 DEF BesideStep

\* A connection is made to the end of the driver's queue.
LEMMA ConnectEffect ==
    ASSUME TaxiInv, Connect
    PROVE  LET r == [id |-> last + 1, kind |-> kind, seconds |-> seconds]
           IN  /\ driver \in Drivers /\ r \in Request
               /\ last' = last + 1 /\ conn = 0 /\ inbox = None
               /\ backlog' = [backlog EXCEPT ![driver] = Append(backlog[driver], r)]
               /\ \/ kind = "quit" /\ mpc' = "waitpid" /\ conn' = 0
                  \/ mpc' = "wait" /\ conn' = last + 1
               /\ kind' = kind /\ driver' = driver /\ inbox' = inbox /\ reported' = reported
               /\ left' = left /\ accepted' = accepted
               /\ slot' = slot /\ table' = table
<1>0. driver \in Drivers /\ conn = 0 /\ inbox = None
  BY DEF Connect, TaxiInv, Placed, Asking, OneConnection, Answered
<1>1. last + 1 \in Nat /\ kind \in Kinds /\ seconds \in Nat
  BY DEF TaxiInv, TypeOK
<1> QED
  BY <1>0, <1>1 DEF Connect, Request

\* What serving a connection does, the request being the oldest.
LEMMA ServeEffect ==
    ASSUME TaxiInv, NEW d \in Drivers, Serve(d)
    PROVE  LET r == backlog[d][1]
           IN  /\ backlog[d] \in Seq(Request) /\ backlog[d] # <<>> /\ r \in Request
               /\ 1 \in 1 .. Len(backlog[d])
               /\ backlog' = [backlog EXCEPT ![d] = IF r.kind = "quit" THEN <<>> ELSE Drop(backlog[d], 1)]
               /\ left' = [left EXCEPT ![d] = IF Taken(d, r) THEN r.seconds ELSE left[d]]
               /\ accepted' = [accepted EXCEPT ![d] =
                                 IF Taken(d, r) THEN accepted[d] \cup {r.id} ELSE accepted[d]]
               /\ inbox' = IF r.id = conn THEN Answer(d, r) ELSE inbox
               /\ dpc' = [dpc EXCEPT ![d] = IF r.kind = "quit" THEN "zombie" ELSE dpc[d]]
               /\ UNCHANGED <<mpc, kind, driver, seconds, slot, table, conn, last, running, signals,
                              missed, reported>>
<1>1. backlog[d] \in Seq(Request) /\ backlog[d] # <<>>
  BY DEF TaxiInv, TypeOK, Serve
<1>2. Len(backlog[d]) \in Nat /\ 1 \in 1 .. Len(backlog[d])
  BY <1>1, EmptySeq, LenProperties
<1>3. backlog[d][1] \in Request
  BY <1>1, <1>2, ElementOfSeq
<1> QED
  BY <1>1, <1>2, <1>3 DEF Serve, Accept, Stops, Reaches

-----------------------------------------------------------------------------
\* Every step keeps the types.
LEMMA TaxiTypes ==
    ASSUME TaxiInv, Next
    PROVE  TypeOK'
<1>0. /\ mpc \in Places /\ kind \in Kinds /\ driver \in Drivers \cup {None}
      /\ seconds \in Nat /\ slot \in Nat /\ table \in [Slots -> Drivers \cup {None}]
      /\ running \in BOOLEAN /\ signals \in Nat /\ missed \in BOOLEAN
  BY DEF TaxiInv, TypeOK
<1>1. /\ conn \in Nat /\ last \in Nat /\ inbox \in Replies \cup {None} /\ reported \subseteq Nat
      /\ dpc \in [Drivers -> Lives] /\ backlog \in [Drivers -> Seq(Request)]
      /\ left \in [Drivers -> Nat] /\ accepted \in [Drivers -> SUBSET Nat]
  BY DEF TaxiInv, TypeOK
<1>d. dpc' \in [Drivers -> Lives]
  <2>1. \/ dpc' = dpc
        \/ \E d \in Drivers : \E v \in Lives : dpc' = [dpc EXCEPT ![d] = v]
    <3>1. CASE \E d \in Drivers : Serve(d)
      <4>1. PICK d \in Drivers : Serve(d)
        BY <3>1
      <4>2. dpc' = [dpc EXCEPT ![d] = IF backlog[d][1].kind = "quit" THEN "zombie" ELSE dpc[d]]
        BY <4>1, ServeEffect
      <4>3. (IF backlog[d][1].kind = "quit" THEN "zombie" ELSE dpc[d]) \in Lives
        BY <1>1 DEF Lives
      <4> QED
        BY <4>2, <4>3
    <3>2. CASE Fork
      BY <3>2 DEF Fork, Lives
    <3>3. CASE Reap
      <4>1. driver \in Drivers
        BY <3>3 DEF Reap, TaxiInv, Placed, Asking
      <4> QED
        BY <3>3, <4>1 DEF Reap, Lives
    <3>4. CASE \E d \in Drivers : Listen(d) \/ Die(d)
      BY <3>4 DEF Listen, Die, Lives
    <3>5. CASE \/ Enter \/ Ask \/ GetDrivers \/ Exit \/ Shutdown \/ NextSlot \/ Probe \/ Connect
               \/ Unavailable \/ Reply \/ Timeout \/ Killed \/ Interrupt \/ Tick
      BY <3>5 DEF Enter, Ask, GetDrivers, Exit, Shutdown, NextSlot, Probe, Connect, Unavailable,
         Reply, Timeout, Killed, Interrupt, Tick, drivers
    <3> QED
      BY <3>1, <3>2, <3>3, <3>4, <3>5 DEF Next, DispatcherStep
  <2> QED
    BY <1>1, <2>1
<1>b. /\ conn' \in Nat /\ last' \in Nat /\ inbox' \in Replies \cup {None} /\ reported' \subseteq Nat
      /\ backlog' \in [Drivers -> Seq(Request)]
      /\ left' \in [Drivers -> Nat] /\ accepted' \in [Drivers -> SUBSET Nat]
  <2>1. CASE IdleStep
    <3>1. /\ conn' = 0 /\ last' = last /\ inbox' = None /\ backlog' = backlog /\ left' = left
          /\ accepted' = accepted /\ (reported' = reported \/ reported' = reported \cup {conn})
      BY <2>1, IdleEffect
    <3> QED
      BY <1>1, <3>1
  <2>2. CASE BesideStep
    <3>1. backlog' \in [Drivers -> Seq(Request)] /\ left' \in [Drivers -> Nat]
      <4>1. CASE Tick
        BY <1>1, <4>1 DEF Tick
      <4>2. CASE Interrupt \/ \E d \in Drivers : Listen(d)
        BY <1>1, <4>2 DEF Interrupt, Listen, drivers
      <4>3. CASE \E d \in Drivers : Die(d)
        <5>1. PICK d \in Drivers : /\ backlog' = [backlog EXCEPT ![d] = <<>>]
                                   /\ left' = [left EXCEPT ![d] = 0]
          BY <4>3 DEF Die
        <5> QED
          BY <1>1, <5>1, EmptySeq
      <4> QED
        BY <2>2, <4>1, <4>2, <4>3 DEF BesideStep
    <3> QED
      BY <1>1, <2>2, <3>1, BesideEffect
  <2>3. CASE Connect
    <3> DEFINE r == [id |-> last + 1, kind |-> kind, seconds |-> seconds]
    <3>1. /\ driver \in Drivers /\ r \in Request /\ last' = last + 1 /\ conn' \in {0, last + 1}
          /\ backlog' = [backlog EXCEPT ![driver] = Append(backlog[driver], r)]
          /\ inbox' = inbox /\ reported' = reported /\ left' = left /\ accepted' = accepted
      BY <2>3, ConnectEffect
    <3> HIDE DEF r
    <3>2. Append(backlog[driver], r) \in Seq(Request)
      BY <1>1, <3>1, AppendProperties
    <3>3. backlog' \in [Drivers -> Seq(Request)]
      BY <1>1, <3>1, <3>2
    <3>4. last + 1 \in Nat /\ 0 \in Nat
      BY <1>1
    <3> QED
      BY <1>1, <3>1, <3>3, <3>4
  <2>4. CASE \E d \in Drivers : Serve(d)
    <3>0. PICK d \in Drivers : Serve(d)
      BY <2>4
    <3> DEFINE r == backlog[d][1]
    <3>1. /\ backlog[d] \in Seq(Request) /\ backlog[d] # <<>> /\ r \in Request
          /\ backlog' = [backlog EXCEPT ![d] = IF r.kind = "quit" THEN <<>> ELSE Drop(backlog[d], 1)]
          /\ left' = [left EXCEPT ![d] = IF Taken(d, r) THEN r.seconds ELSE left[d]]
          /\ accepted' = [accepted EXCEPT ![d] =
                            IF Taken(d, r) THEN accepted[d] \cup {r.id} ELSE accepted[d]]
          /\ inbox' = IF r.id = conn THEN Answer(d, r) ELSE inbox
          /\ conn' = conn /\ last' = last /\ reported' = reported
      BY <3>0, ServeEffect
    <3>2. Drop(backlog[d], 1) \in Seq(Request) /\ <<>> \in Seq(Request)
      BY <3>1, DropFirst, EmptySeq
    <3>3. r.id \in Nat /\ r.seconds \in Nat
      BY <3>1 DEF Request
    <3>4. Answer(d, r) \in Replies
      BY DEF Answer, Replies
    <3> HIDE DEF r
    <3>5. backlog' \in [Drivers -> Seq(Request)]
      BY <1>1, <3>1, <3>2
    <3>6. left' \in [Drivers -> Nat] /\ accepted' \in [Drivers -> SUBSET Nat]
      BY <1>1, <3>1, <3>3
    <3> QED
      BY <1>1, <3>1, <3>4, <3>5, <3>6
  <2> QED
    BY <2>1, <2>2, <2>3, <2>4, StepKinds
<1>a. /\ mpc' \in Places /\ kind' \in Kinds /\ driver' \in Drivers \cup {None}
      /\ seconds' \in Nat /\ slot' \in Nat /\ table' \in [Slots -> Drivers \cup {None}]
      /\ running' \in BOOLEAN /\ signals' \in Nat /\ missed' \in BOOLEAN
  <2>0. \A on \in BOOLEAN : Back(on) \in Places /\ MainLoop(on) \in Places
    BY BackIsIdle DEF MainLoop, Places
  <2>1. CASE Fork \/ GetDrivers \/ Exit \/ Shutdown
    <3>1. /\ mpc' \in {"pause", "slot", "shutdown"} /\ kind' \in {kind, "create", "scan", "quit"}
          /\ driver' \in Drivers \cup {None} /\ slot' \in {slot, 0}
      BY <1>0, <2>1 DEF Fork, GetDrivers, Exit, Shutdown
    <3>2. /\ seconds' = seconds /\ table' = table /\ running' \in BOOLEAN
          /\ signals' = signals /\ missed' = missed
      BY <1>0, <2>1 DEF Fork, GetDrivers, Exit, Shutdown
    <3>3. mpc' \in Places /\ kind' \in Kinds
      BY <1>0, <3>1 DEF Places, Kinds
    <3>4. slot' \in Nat
      BY <1>0, <3>1
    <3> QED
      BY <1>0, <3>1, <3>2, <3>3, <3>4
  <2>2. CASE Enter
    <3>1. table' \in [Slots -> Drivers \cup {None}]
      <4>1. \/ table' = table
            \/ \E i : table' = [table EXCEPT ![i] = driver]
        BY <2>2 DEF Enter
      <4> QED
        BY <1>0, <4>1
    <3> QED
      BY <1>0, <2>0, <2>2, <3>1 DEF Enter
  <2>3. CASE Ask
    <3>1. seconds' \in Nat /\ kind' \in Kinds /\ driver' \in Drivers /\ mpc' = "probe"
      BY <1>0, <2>3, Distinguished DEF Ask, Kinds
    <3> QED
      BY <1>0, <2>3, <3>1 DEF Ask, Places, Asking
  <2>4. CASE NextSlot
    <3>1. slot' = slot + 1 /\ slot + 1 \in Nat
      BY <1>0, <2>4 DEF NextSlot
    <3>2. mpc' \in {mpc, "ended", "connect", "probe", MainLoop(running)}
      BY <2>4 DEF NextSlot
    <3>3. driver' \in Drivers \cup {None}
      <4>1. driver' = driver \/ (slot # MaxDrivers /\ driver' = table[slot + 1])
        BY <2>4 DEF NextSlot
      <4>2. slot # MaxDrivers => slot + 1 \in Slots
        <5>1. slot \in 0 .. MaxDrivers
          BY <2>4 DEF NextSlot, TaxiInv, Placed
        <5> QED
          BY <5>1, Distinguished DEF Slots
      <4> QED
        BY <1>0, <4>1, <4>2
    <3> QED
      BY <1>0, <2>0, <2>4, <3>1, <3>2, <3>3 DEF NextSlot, Places, Asking
  <2>5. CASE Probe
    <3>1. table' \in [Slots -> Drivers \cup {None}]
      BY <1>0, <2>5 DEF Probe, Without
    <3> QED
      BY <1>0, <2>0, <2>5, <3>1 DEF Probe, Places, Asking
  <2>6. CASE Connect \/ Unavailable
    BY <1>0, <2>0, <2>6 DEF Connect, Unavailable, Places, Asking
  <2>7. CASE Reply \/ Timeout
    BY <1>0, <2>0, <2>7 DEF Reply, Timeout
  <2>8. CASE Reap
    BY <1>0, <2>8 DEF Reap, Places
  <2>9. CASE Killed
    BY <1>0, <2>9 DEF Killed, Places
  <2>10. CASE Interrupt
    <3>1. mpc' \in {mpc, "shutdown", "slot", Back(FALSE)}
      BY <2>10 DEF Interrupt
    <3>2. table' = table \/ table' = [table EXCEPT ![slot] = None]
      BY <2>10 DEF Interrupt
    <3>3. table' \in [Slots -> Drivers \cup {None}]
      BY <1>0, <3>2
    <3>4. /\ kind' = kind /\ driver' = driver /\ seconds' = seconds /\ slot' = slot
          /\ running' = FALSE /\ signals' = signals + 1 /\ missed' = missed
      BY <2>10 DEF Interrupt
    <3>5. Back(FALSE) \in Places
      BY <2>0
    <3>6. mpc' \in Places
      BY <1>0, <3>1, <3>5 DEF Places
    <3>7. signals + 1 \in Nat
      BY <1>0
    <3> QED
      BY <1>0, <3>3, <3>4, <3>6, <3>7
  <2>11. CASE Tick \/ \E d \in Drivers : Listen(d) \/ Die(d) \/ Serve(d)
    BY <1>0, <2>11 DEF Tick, Listen, Die, Serve, dispatcher
  <2> QED
    BY <2>1, <2>2, <2>3, <2>4, <2>5, <2>6, <2>7, <2>8, <2>9, <2>10, <2>11 DEF Next, DispatcherStep
<1> QED
  BY <1>a, <1>b, <1>d DEF TypeOK

\* The dispatcher stays in its loops over the table.
LEMMA PlacedStep ==
    ASSUME TaxiInv, Next
    PROVE  Placed'
<1>0. /\ driver \in Drivers \cup {None} /\ slot \in Nat /\ running \in BOOLEAN
      /\ table \in [Slots -> Drivers \cup {None}]
      /\ mpc \in Asking => driver \in Drivers
      /\ mpc = "pause" => kind = "create"
      /\ mpc = "slot" => kind \in {"scan", "quit"}
      /\ mpc = "waitpid" => kind = "quit"
      /\ mpc \in Asking \cup {"slot"} /\ kind \in {"scan", "quit"} => slot \in 0 .. MaxDrivers
  BY DEF TaxiInv, TypeOK, Placed
<1>b. \A on \in BOOLEAN : /\ Back(on) \in {"slot", "prompt", "shutdown"}
                          /\ Back(on) = "slot" => kind \in {"scan", "quit"}
                          /\ MainLoop(on) \in {"prompt", "shutdown"}
  BY BackIsIdle DEF MainLoop
<1>n. MaxDrivers \in Nat /\ 0 \in 0 .. MaxDrivers
  BY Distinguished
<1>1. ASSUME mpc' \notin Asking \cup {"slot", "pause"} PROVE Placed'
  BY <1>1 DEF Placed, Asking
<1>2. ASSUME mpc \in Asking, mpc' \in {"slot", "prompt", "shutdown"}, kind' = kind, slot' = slot,
             mpc' = "slot" => kind \in {"scan", "quit"}
      PROVE  Placed'
  BY <1>0, <1>2 DEF Placed, Asking
<1>3. ASSUME mpc' = mpc, kind' = kind, slot' = slot, driver' = driver PROVE Placed'
  BY <1>0, <1>3 DEF Placed
<1>4. CASE Fork \/ Exit \/ Killed
  BY <1>1, <1>4 DEF Fork, Exit, Killed, Asking, Placed
<1>5. CASE Enter
  <2>1. mpc' = Back(running) /\ kind' = kind /\ slot' = slot /\ driver' = driver /\ mpc = "pause"
    BY <1>5 DEF Enter
  <2>2. kind \notin {"scan", "quit"}
    BY <1>0, <2>1
  <2> QED
    BY <1>0, <1>1, <1>b, <2>1, <2>2 DEF Asking
<1>6. CASE Ask
  <2>1. mpc' = "probe" /\ kind' \in {"task", "status"} /\ driver' \in Drivers
    BY <1>6 DEF Ask
  <2> QED
    BY <2>1 DEF Placed, Asking
<1>7. CASE GetDrivers \/ Shutdown
  <2>1. mpc' = "slot" /\ kind' \in {"scan", "quit"} /\ slot' = 0
    BY <1>7 DEF GetDrivers, Shutdown
  <2> QED
    BY <1>n, <2>1 DEF Placed, Asking
<1>8. CASE NextSlot
  <2>1. mpc = "slot" /\ slot' = slot + 1 /\ kind' = kind /\ kind \in {"scan", "quit"}
    BY <1>0, <1>8 DEF NextSlot
  <2>2. slot \in 0 .. MaxDrivers
    BY <1>0, <2>1
  <2>3. CASE slot = MaxDrivers
    <3>1. mpc' \in {"ended", "prompt", "shutdown"}
      BY <1>0, <1>b, <1>8, <2>3 DEF NextSlot
    <3> QED
      BY <1>1, <3>1 DEF Asking
  <2>4. CASE slot # MaxDrivers
    <3>1. slot + 1 \in Slots /\ slot + 1 \in 0 .. MaxDrivers
      BY <1>n, <2>2, <2>4 DEF Slots
    <3>2. \/ mpc' = mpc
          \/ mpc' \in {"connect", "probe"} /\ driver' = table[slot + 1] /\ table[slot + 1] # None
      BY <1>8, <2>4 DEF NextSlot
    <3>3. mpc' \in Asking => driver' \in Drivers
      BY <1>0, <2>1, <3>1, <3>2 DEF Asking
    <3> QED
      BY <2>1, <3>1, <3>2, <3>3 DEF Placed
  <2> QED
    BY <2>3, <2>4
<1>9. CASE Probe
  <2>1. mpc = "probe" /\ kind' = kind /\ slot' = slot /\ driver' = driver
        /\ mpc' \in {"connect", Back(running)}
    BY <1>9 DEF Probe
  <2>2. CASE mpc' = "connect"
    BY <1>0, <2>1, <2>2 DEF Placed, Asking
  <2>3. CASE mpc' = Back(running)
    BY <1>0, <1>2, <1>b, <2>1, <2>3 DEF Asking
  <2> QED
    BY <2>1, <2>2, <2>3
<1>10. CASE Connect
  <2>1. mpc = "connect" /\ kind' = kind /\ slot' = slot /\ driver' = driver
        /\ (mpc' = "wait" \/ (mpc' = "waitpid" /\ kind = "quit"))
    BY <1>10 DEF Connect
  <2> QED
    BY <1>0, <2>1 DEF Placed, Asking
<1>11. CASE Unavailable
  <2>1. mpc = "connect" /\ kind' = kind /\ slot' = slot /\ driver' = driver
        /\ (mpc' = Back(running) \/ (mpc' = "waitpid" /\ kind = "quit"))
    BY <1>11 DEF Unavailable
  <2>2. CASE mpc' = "waitpid" /\ kind = "quit"
    BY <1>0, <2>1, <2>2 DEF Placed, Asking
  <2>3. CASE mpc' = Back(running)
    BY <1>0, <1>2, <1>b, <2>1, <2>3 DEF Asking
  <2> QED
    BY <2>1, <2>2, <2>3
<1>12. CASE Reply \/ Timeout
  <2>1. mpc = "wait" /\ kind' = kind /\ slot' = slot /\ mpc' = Back(running)
    BY <1>12 DEF Reply, Timeout
  <2> QED
    BY <1>0, <1>2, <1>b, <2>1 DEF Asking
<1>13. CASE Reap
  <2>1. mpc = "waitpid" /\ kind' = kind /\ slot' = slot /\ mpc' = "slot"
    BY <1>13 DEF Reap
  <2> QED
    BY <1>0, <1>2, <2>1 DEF Asking
<1>14. CASE Interrupt
  <2>1. kind' = kind /\ slot' = slot /\ driver' = driver
    BY <1>14 DEF Interrupt
  <2>2. \/ mpc' = mpc
        \/ mpc' = "shutdown"
        \/ mpc = "wait" /\ mpc' = Back(FALSE)
        \/ mpc = "waitpid" /\ mpc' = "slot"
    BY <1>14 DEF Interrupt
  <2>3. Back(FALSE) \in {"slot", "prompt", "shutdown"} /\ (Back(FALSE) = "slot" => kind \in {"scan", "quit"})
    BY <1>b
  <2>4. CASE mpc' = mpc
    BY <1>3, <2>1, <2>4
  <2>5. CASE mpc' = "shutdown"
    BY <1>1, <2>5 DEF Asking
  <2>6. CASE mpc = "wait" /\ mpc' = Back(FALSE)
    BY <1>2, <2>1, <2>3, <2>6 DEF Asking
  <2>7. CASE mpc = "waitpid" /\ mpc' = "slot"
    BY <1>0, <1>2, <2>1, <2>7 DEF Asking
  <2> QED
    BY <2>2, <2>4, <2>5, <2>6, <2>7
<1>15. CASE Tick \/ \E d \in Drivers : Listen(d) \/ Die(d) \/ Serve(d)
  <2>1. mpc' = mpc /\ kind' = kind /\ slot' = slot /\ driver' = driver
    BY <1>15 DEF Tick, Listen, Die, Serve, dispatcher
  <2> QED
    BY <1>3, <2>1
<1> QED
  BY <1>4, <1>5, <1>6, <1>7, <1>8, <1>9, <1>10, <1>11, <1>12, <1>13, <1>14, <1>15
     DEF Next, DispatcherStep

-----------------------------------------------------------------------------
(* Numbered, OneConnection, Answered and the two properties, for each kind  *)
(* of step.                                                                 *)

Sound == Numbered /\ OneConnection /\ Answered /\ ReportedIsTaken /\ AvailableIsFinal

\* With no connection open nothing is claimed of an answer; what was reported
\* before was taken.
LEMMA IdleSound ==
    ASSUME TaxiInv, IdleStep
    PROVE  Sound'
<1>0. /\ mpc' # "wait" /\ conn' = 0 /\ inbox' = None /\ last' = last
      /\ backlog' = backlog /\ accepted' = accepted
      /\ \/ reported' = reported
         \/ Reply /\ kind = "task" /\ inbox = "OK" /\ reported' = reported \cup {conn}
  BY IdleEffect
<1>1. Numbered /\ last \in Nat
  BY DEF TaxiInv, TypeOK
<1>2. Numbered'
  BY <1>0, <1>1 DEF Numbered
<1>3. OneConnection'
  <2>1. \A d \in Drivers : \A i \in 1 .. Len(backlog[d]) : backlog[d][i].id # 0
    BY <1>1 DEF Numbered
  <2> QED
    BY <1>0, <2>1 DEF OneConnection
<1>4. Answered' /\ AvailableIsFinal'
  BY <1>0, Distinguished DEF Answered, AvailableIsFinal, Replies
<1>5. ReportedIsTaken'
  <2>1. reported \subseteq UNION {accepted[d] : d \in Drivers}
    BY DEF TaxiInv, ReportedIsTaken
  <2>2. Reply /\ kind = "task" /\ inbox = "OK" => driver \in Drivers /\ conn \in accepted[driver]
    BY DEF Reply, TaxiInv, Placed, Asking, Answered
  <2>3. reported' \subseteq UNION {accepted[d] : d \in Drivers}
    BY <1>0, <2>1, <2>2
  <2> QED
    BY <1>0, <2>3 DEF ReportedIsTaken
<1> QED
  BY <1>2, <1>3, <1>4, <1>5 DEF Sound

\* A driver that starts, ends or works makes no answer untrue.
LEMMA BesideSound ==
    ASSUME TaxiInv, BesideStep
    PROVE  Sound'
<1>0. /\ mpc' = mpc /\ kind' = kind /\ driver' = driver /\ conn' = conn /\ last' = last
      /\ inbox' = inbox /\ reported' = reported /\ accepted' = accepted
      /\ \A d \in Drivers : backlog'[d] = backlog[d] \/ backlog'[d] = <<>>
      /\ \A d \in Drivers : left[d] = 0 => left'[d] = 0
  BY BesideEffect
<1>1. \A d \in Drivers : \A i \in 1 .. Len(backlog'[d]) : backlog'[d] = backlog[d]
  <2>1. Len(<<>>) = 0
    BY EmptySeq
  <2> QED
    BY <1>0, <2>1
<1>2. Numbered' /\ OneConnection'
  BY <1>0, <1>1 DEF TaxiInv, Numbered, OneConnection
<1>3. Answered' /\ ReportedIsTaken'
  BY <1>0 DEF TaxiInv, Answered, ReportedIsTaken
<1>4. AvailableIsFinal'
  <2>1. inbox = "AVAILABLE" => driver \in Drivers /\ left[driver] = 0 /\ backlog[driver] = <<>>
    BY Distinguished DEF TaxiInv, AvailableIsFinal, Answered, Placed, Asking, Replies
  <2> QED
    BY <1>0, <2>1 DEF AvailableIsFinal
<1> QED
  BY <1>2, <1>3, <1>4 DEF Sound

\* A new connection has a number of its own, greater than all before.
LEMMA ConnectSound ==
    ASSUME TaxiInv, Connect
    PROVE  Sound'
<1> DEFINE r == [id |-> last + 1, kind |-> kind, seconds |-> seconds]
           s == backlog[driver]
<1>0. /\ driver \in Drivers /\ r \in Request
      /\ last' = last + 1 /\ conn = 0 /\ inbox = None
      /\ backlog' = [backlog EXCEPT ![driver] = Append(s, r)]
      /\ \/ mpc' = "waitpid" /\ conn' = 0
         \/ mpc' = "wait" /\ conn' = last + 1
      /\ kind' = kind /\ driver' = driver /\ inbox' = inbox /\ reported' = reported
      /\ accepted' = accepted
  BY ConnectEffect
<1>1. r.id = last + 1 /\ r.kind = kind
  OBVIOUS
<1>2. last \in Nat /\ backlog \in [Drivers -> Seq(Request)]
  BY DEF TaxiInv, TypeOK
<1> HIDE DEF r
<1>3. s \in Seq(Request) /\ Len(s) \in Nat
  BY <1>0, <1>2, LenProperties
<1>4. /\ Len(Append(s, r)) = Len(s) + 1 /\ Append(s, r)[Len(s) + 1] = r
      /\ \A i \in 1 .. Len(s) : Append(s, r)[i] = s[i]
  BY <1>0, <1>3, AppendProperties
<1>5. backlog'[driver] = Append(s, r) /\ \A d \in Drivers : d # driver => backlog'[d] = backlog[d]
  BY <1>0, <1>2
<1>6. /\ \A d \in Drivers : \A i \in 1 .. Len(backlog[d]) : backlog[d][i].id \in 1 .. last
      /\ \A d \in Drivers : \A i, j \in 1 .. Len(backlog[d]) :
            i < j => backlog[d][i].id < backlog[d][j].id
  BY DEF TaxiInv, Numbered
<1>7. ASSUME NEW d \in Drivers, NEW i \in 1 .. Len(backlog'[d])
      PROVE  \/ i \in 1 .. Len(backlog[d]) /\ backlog'[d][i] = backlog[d][i]
             \/ d = driver /\ i = Len(s) + 1 /\ backlog'[d][i] = r
  <2>1. CASE d # driver
    BY <1>5, <1>7, <2>1
  <2>2. CASE d = driver
    <3>1. i \in 1 .. Len(s) + 1
      BY <1>4, <1>5, <1>7, <2>2
    <3>2. CASE i = Len(s) + 1
      BY <1>4, <1>5, <2>2, <3>2
    <3>3. CASE i \in 1 .. Len(s)
      BY <1>4, <1>5, <2>2, <3>3
    <3> QED
      BY <1>3, <3>1, <3>2, <3>3
  <2> QED
    BY <2>1, <2>2
<1>8. Numbered'
  <2> SUFFICES ASSUME NEW d \in Drivers
               PROVE  /\ \A i \in 1 .. Len(backlog'[d]) : backlog'[d][i].id \in 1 .. last'
                      /\ \A i, j \in 1 .. Len(backlog'[d]) :
                            i < j => backlog'[d][i].id < backlog'[d][j].id
    BY DEF Numbered
  <2>1. 1 .. last \subseteq 1 .. last + 1 /\ last + 1 \in 1 .. last + 1 /\ \A k \in 1 .. last : k < last + 1
    BY <1>2
  <2>2. ASSUME NEW i \in 1 .. Len(backlog'[d]) PROVE backlog'[d][i].id \in 1 .. last + 1
    BY <1>1, <1>6, <1>7, <2>1
  <2>3. ASSUME NEW i \in 1 .. Len(backlog'[d]), NEW j \in 1 .. Len(backlog'[d]), i < j
        PROVE  backlog'[d][i].id < backlog'[d][j].id
    <3>1. CASE j \in 1 .. Len(backlog[d]) /\ backlog'[d][j] = backlog[d][j]
      <4>1. Len(backlog[d]) \in Nat
        BY <1>2, LenProperties
      <4>2. i \in 1 .. Len(backlog[d])
        BY <2>3, <3>1, <4>1
      <4>3. backlog'[d][i] = backlog[d][i]
        <5>1. ~ (d = driver /\ i = Len(s) + 1)
          BY <1>3, <4>2
        <5> QED
          BY <1>7, <5>1
      <4> QED
        BY <1>6, <2>3, <3>1, <4>2, <4>3
    <3>2. CASE d = driver /\ j = Len(s) + 1 /\ backlog'[d][j] = r
      <4>1. i # Len(s) + 1
        BY <1>3, <2>3, <3>2
      <4>2. i \in 1 .. Len(backlog[d]) /\ backlog'[d][i] = backlog[d][i]
        BY <1>7, <4>1
      <4>3. backlog[d][i].id \in 1 .. last
        BY <1>6, <4>2
      <4> QED
        BY <1>1, <2>1, <3>2, <4>2, <4>3
    <3> QED
      BY <1>7, <3>1, <3>2
  <2> QED
    BY <1>0, <2>2, <2>3
<1>9. OneConnection'
  <2>1. /\ conn' # 0 <=> mpc' = "wait"
        /\ conn' # 0 => conn' = last'
    BY <1>0, <1>2
  <2>2. ASSUME NEW d \in Drivers, NEW i \in 1 .. Len(backlog'[d]), backlog'[d][i].id = conn'
        PROVE  d = driver /\ backlog'[d][i].kind = kind
    <3>1. CASE i \in 1 .. Len(backlog[d]) /\ backlog'[d][i] = backlog[d][i]
      <4>1. backlog[d][i].id \in 1 .. last
        BY <1>6, <3>1
      <4> QED
        BY <1>0, <1>2, <2>2, <3>1, <4>1
    <3>2. CASE d = driver /\ backlog'[d][i] = r
      BY <1>1, <3>2
    <3> QED
      BY <1>7, <3>1, <3>2
  <2> QED
    BY <1>0, <2>1, <2>2 DEF OneConnection
<1>10. Answered' /\ AvailableIsFinal'
  BY <1>0, Distinguished DEF Answered, AvailableIsFinal, Replies
<1>11. ReportedIsTaken'
  BY <1>0 DEF TaxiInv, ReportedIsTaken
<1> QED
  BY <1>8, <1>9, <1>10, <1>11 DEF Sound

\* The answer that reaches the dispatcher is to the last connection made, so it
\* comes when the driver has served all the others.
LEMMA ServeSound ==
    ASSUME TaxiInv, NEW d \in Drivers, Serve(d)
    PROVE  Sound'
<1> DEFINE r == backlog[d][1]
           s == backlog[d]
<1>0. /\ s \in Seq(Request) /\ s # <<>> /\ r \in Request /\ 1 \in 1 .. Len(s)
      /\ backlog' = [backlog EXCEPT ![d] = IF r.kind = "quit" THEN <<>> ELSE Drop(s, 1)]
      /\ left' = [left EXCEPT ![d] = IF Taken(d, r) THEN r.seconds ELSE left[d]]
      /\ accepted' = [accepted EXCEPT ![d] =
                        IF Taken(d, r) THEN accepted[d] \cup {r.id} ELSE accepted[d]]
      /\ inbox' = IF r.id = conn THEN Answer(d, r) ELSE inbox
      /\ mpc' = mpc /\ kind' = kind /\ driver' = driver /\ conn' = conn /\ last' = last
      /\ reported' = reported
  BY ServeEffect
<1>1. /\ last \in Nat /\ backlog \in [Drivers -> Seq(Request)] /\ left \in [Drivers -> Nat]
      /\ accepted \in [Drivers -> SUBSET Nat]
  BY DEF TaxiInv, TypeOK
<1>2. /\ \A x \in Drivers : \A i \in 1 .. Len(backlog[x]) : backlog[x][i].id \in 1 .. last
      /\ \A x \in Drivers : \A i, j \in 1 .. Len(backlog[x]) :
            i < j => backlog[x][i].id < backlog[x][j].id
      /\ \A x \in Drivers : \A i \in 1 .. Len(backlog[x]) :
            backlog[x][i].id = conn => x = driver /\ backlog[x][i].kind = kind
      /\ conn # 0 <=> mpc = "wait"
      /\ conn # 0 => conn = last
  BY DEF TaxiInv, Numbered, OneConnection
<1>3. Len(s) \in Nat /\ Len(Drop(s, 1)) = Len(s) - 1 /\ Drop(s, 1) \in Seq(Request)
      /\ \A i \in 1 .. Len(s) - 1 : Drop(s, 1)[i] = s[i + 1]
  BY <1>0, DropFirst, LenProperties
<1>4. /\ backlog'[d] \in {<<>>, Drop(s, 1)}
      /\ \A x \in Drivers : x # d => /\ backlog'[x] = backlog[x] /\ left'[x] = left[x]
                                     /\ accepted'[x] = accepted[x]
      /\ \A x \in Drivers : accepted[x] \subseteq accepted'[x]
  <2>1. backlog'[d] \in {<<>>, Drop(s, 1)} /\ \A x \in Drivers : x # d => backlog'[x] = backlog[x]
    BY <1>0, <1>1
  <2>2. \A x \in Drivers : x # d => left'[x] = left[x] /\ accepted'[x] = accepted[x]
    BY <1>0, <1>1
  <2>3. accepted[d] \subseteq accepted'[d]
    BY <1>0, <1>1
  <2> QED
    BY <2>1, <2>2, <2>3
<1> HIDE DEF r
<1>5. ASSUME NEW x \in Drivers, NEW i \in 1 .. Len(backlog'[x])
      PROVE  \/ x # d /\ backlog'[x] = backlog[x]
             \/ /\ x = d /\ i + 1 \in 1 .. Len(s) /\ backlog'[d] = Drop(s, 1)
                /\ backlog'[d][i] = s[i + 1]
  <2>1. CASE x # d
    BY <1>4, <2>1
  <2>2. CASE x = d
    <3>1. backlog'[d] = Drop(s, 1)
      <4>1. Len(<<>>) = 0
        BY EmptySeq
      <4> QED
        BY <1>4, <1>5, <2>2, <4>1
    <3>2. i \in 1 .. Len(s) - 1
      BY <1>3, <1>5, <2>2, <3>1
    <3>3. i + 1 \in 1 .. Len(s)
      BY <1>3, <3>2
    <3> QED
      BY <1>3, <2>2, <3>1, <3>2, <3>3
  <2> QED
    BY <2>1, <2>2
<1>6. Numbered'
  <2> SUFFICES ASSUME NEW x \in Drivers
               PROVE  /\ \A i \in 1 .. Len(backlog'[x]) : backlog'[x][i].id \in 1 .. last
                      /\ \A i, j \in 1 .. Len(backlog'[x]) :
                            i < j => backlog'[x][i].id < backlog'[x][j].id
    BY <1>0 DEF Numbered
  <2>1. CASE x # d
    BY <1>2, <1>4, <2>1
  <2>2. CASE x = d
    <3>1. ASSUME NEW i \in 1 .. Len(backlog'[d]) PROVE backlog'[d][i].id \in 1 .. last
      BY <1>2, <1>5
    <3>2. ASSUME NEW i \in 1 .. Len(backlog'[d]), NEW j \in 1 .. Len(backlog'[d]), i < j
          PROVE  backlog'[d][i].id < backlog'[d][j].id
      <4>1. /\ i + 1 \in 1 .. Len(s) /\ backlog'[d][i] = s[i + 1]
            /\ j + 1 \in 1 .. Len(s) /\ backlog'[d][j] = s[j + 1]
        BY <1>5
      <4>2. i + 1 < j + 1
        BY <3>2
      <4>3. s[i + 1].id < s[j + 1].id
        BY <1>2, <4>1, <4>2
      <4> QED
        BY <4>1, <4>3
    <3> QED
      BY <2>2, <3>1, <3>2
  <2> QED
    BY <2>1, <2>2
<1>7. OneConnection'
  <2>1. ASSUME NEW x \in Drivers, NEW i \in 1 .. Len(backlog'[x]), backlog'[x][i].id = conn
        PROVE  x = driver /\ backlog'[x][i].kind = kind
    <3>1. CASE x # d
      BY <1>2, <1>4, <2>1, <3>1
    <3>2. CASE x = d
      <4>1. i + 1 \in 1 .. Len(s) /\ backlog'[d][i] = s[i + 1]
        BY <1>5, <3>2
      <4>2. s[i + 1].id = conn
        BY <2>1, <3>2, <4>1
      <4> QED
        BY <1>2, <3>2, <4>1, <4>2
    <3> QED
      BY <3>1, <3>2
  <2> QED
    BY <1>0, <1>2, <2>1 DEF OneConnection
<1>8. ReportedIsTaken'
  BY <1>0, <1>4 DEF TaxiInv, ReportedIsTaken
<1>9. CASE r.id # conn
  <2>1. inbox' = inbox
    BY <1>0, <1>9
  <2>2. Answered'
    <3>1. inbox = "OK" => driver \in Drivers
      BY Distinguished DEF TaxiInv, Answered, Placed, Asking, Replies
    <3> QED
      BY <1>0, <1>4, <2>1, <3>1 DEF TaxiInv, Answered
  <2>3. AvailableIsFinal'
    <3>1. inbox = "AVAILABLE" => driver \in Drivers /\ left[driver] = 0 /\ backlog[driver] = <<>>
      BY Distinguished DEF TaxiInv, AvailableIsFinal, Answered, Placed, Asking, Replies
    <3>2. inbox = "AVAILABLE" => driver # d
      BY <1>0, <3>1
    <3> QED
      BY <1>0, <1>4, <2>1, <3>1, <3>2 DEF AvailableIsFinal
  <2> QED
    BY <1>6, <1>7, <1>8, <2>2, <2>3 DEF Sound
<1>10. CASE r.id = conn
  <2>1. /\ r.id \in 1 .. last /\ d = driver /\ r.kind = kind
        /\ mpc = "wait" /\ conn = last
    <3>1. r.id \in 1 .. last /\ d = driver /\ r.kind = kind
      BY <1>0, <1>2, <1>10 DEF r
    <3>2. conn # 0
      BY <1>1, <1>10, <3>1
    <3> QED
      BY <1>2, <3>1, <3>2
  <2>2. Len(s) = 1
    <3>1. ASSUME Len(s) # 1 PROVE FALSE
      <4>0. Len(s) \in Nat /\ 1 \in 1 .. Len(s)
        BY <1>0, <1>3
      <4>1. 2 \in 1 .. Len(s)
        <5>1. \A n \in Nat : 1 \in 1 .. n /\ n # 1 => 2 \in 1 .. n
          OBVIOUS
        <5>2. Len(s) # 1
          BY <3>1
        <5> QED
          BY <4>0, <5>1, <5>2
      <4>a. 1 < 2
        OBVIOUS
      <4>2. r.id < s[2].id /\ s[2].id \in 1 .. last
        BY <1>0, <1>2, <4>1, <4>a DEF r
      <4> QED
        BY <1>1, <1>10, <2>1, <4>2
    <3> QED
      BY <3>1
  <2>3. backlog'[d] = <<>>
    <3>1. Drop(s, 1) = <<>>
      BY <1>3, <2>2, EmptySeq
    <3> QED
      BY <1>4, <3>1
  <2>4. inbox' = Answer(d, r) /\ Answer(d, r) \in Replies
    BY <1>0, <1>10 DEF Answer, Replies
  <2>5. left[d] \in Nat
    BY <1>1
  <2>6. Answer(d, r) = "OK" /\ r.kind = "task" => Taken(d, r)
    BY <2>5 DEF Answer, Taken
  <2>7. Answer(d, r) = "AVAILABLE" => left[d] = 0 /\ ~ Taken(d, r)
    BY <2>5 DEF Answer, Taken
  <2>8. Answered'
    <3>1. Taken(d, r) => conn \in accepted'[d]
      BY <1>0, <1>1, <1>10
    <3> QED
      BY <1>0, <2>1, <2>4, <2>6, <3>1, Distinguished DEF Answered
  <2>9. AvailableIsFinal'
    <3>1. ~ Taken(d, r) => left'[d] = left[d]
      BY <1>0, <1>1
    <3> QED
      BY <1>0, <2>1, <2>3, <2>4, <2>7, <3>1 DEF AvailableIsFinal
  <2> QED
    BY <1>6, <1>7, <1>8, <2>8, <2>9 DEF Sound
<1> QED
  BY <1>9, <1>10

-----------------------------------------------------------------------------
\* Nobody is asked yet.
LEMMA TaxiInit == Init => TaxiInv
<1> SUFFICES ASSUME Init PROVE TaxiInv
  OBVIOUS
<1>0. <<>> \in Seq(Request) /\ Len(<<>>) = 0
  BY EmptySeq
<1>1. TypeOK
  BY <1>0 DEF Init, TypeOK, Places, Kinds, Lives
<1>2. Placed
  BY DEF Init, Placed, Asking
<1>3. Numbered /\ OneConnection
  BY <1>0 DEF Init, Numbered, OneConnection
<1>4. Answered /\ ReportedIsTaken /\ AvailableIsFinal
  BY Distinguished DEF Init, Answered, ReportedIsTaken, AvailableIsFinal, Replies
<1> QED
  BY <1>1, <1>2, <1>3, <1>4 DEF TaxiInv

\* Every step of the dispatcher, of a driver and of time preserves it.
LEMMA TaxiNext == TaxiInv /\ [Next]_vars => TaxiInv'
<1> SUFFICES ASSUME TaxiInv, [Next]_vars PROVE TaxiInv'
  OBVIOUS
<1>1. CASE Next
  <2>1. TypeOK' /\ Placed'
    BY <1>1, TaxiTypes, PlacedStep
  <2>2. Sound'
    BY <1>1, StepKinds, IdleSound, BesideSound, ConnectSound, ServeSound
  <2> QED
    BY <2>1, <2>2 DEF TaxiInv, Sound
<1>2. CASE UNCHANGED vars
  <2>1. TypeOK' /\ Placed'
    BY <1>2 DEF TaxiInv, TypeOK, Placed, vars, dispatcher, drivers
  <2>2. Numbered' /\ OneConnection'
    BY <1>2 DEF TaxiInv, Numbered, OneConnection, vars, dispatcher, drivers
  <2>3. Answered' /\ ReportedIsTaken' /\ AvailableIsFinal'
    BY <1>2 DEF TaxiInv, Answered, ReportedIsTaken, AvailableIsFinal, vars, dispatcher, drivers
  <2> QED
    BY <2>1, <2>2, <2>3 DEF TaxiInv
<1> QED
  BY <1>1, <1>2

\* Every variable of the dispatcher and the drivers keeps its type.
THEOREM TaxiTypeCorrect == Spec => []TypeOK
<1>1. TaxiInv => TypeOK
  BY DEF TaxiInv
<1> QED
  BY <1>1, TaxiInit, TaxiNext, PTL DEF Spec

\* A task the dispatcher reports as sent (taxi.c:160) was taken by its driver,
\* however many requests were given up before (taxi.c:152, driver.c:84).
THEOREM TaxiReportedIsTaken == Spec => []ReportedIsTaken
<1>1. TaxiInv => ReportedIsTaken
  BY DEF TaxiInv
<1> QED
  BY <1>1, TaxiInit, TaxiNext, PTL DEF Spec

\* When an "AVAILABLE" arrives (driver.c:112) no request given up earlier can
\* still make the driver busy.
THEOREM TaxiAvailableIsFinal == Spec => []AvailableIsFinal
<1>1. TaxiInv => AvailableIsFinal
  BY DEF TaxiInv
<1> QED
  BY <1>1, TaxiInit, TaxiNext, PTL DEF Spec
=============================================================================
