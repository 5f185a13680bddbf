---------------------------- MODULE MqChatProofs ----------------------------
(***************************************************************************)
(* Two chatting processes are connected crosswise, never wait for each     *)
(* other, print each other's lines in order and leave no queue name        *)
(* behind, for every capacity of three or more, every number of lines and  *)
(* every interleaving with SIGINT.                                         *)
(***************************************************************************)
EXTENDS MqChat, SequenceTheorems, TLAPS

\* What a process that is still opening its queues has not done yet.
OpeningIsFresh ==
    \A p \in Peers :
        /\ pc[p] \in Opening => out[p] = None /\ in[p] = None /\ burst[p] = 0
        /\ pc[p] = "join2" => found[p] = Other(p)
        /\ pc[p] = "make2" => creator[p]
        /\ creator[p] => pc[p] \notin {"start", "made1", "join1", "join2"}

\* What the ends of a connected process are: the creator reads queue 1 of its
\* own, the joiner both queues of a creator that has finished opening.
EndsMatchRole ==
    \A p \in Peers :
        /\ pc[p] \in Loop \cup {"h_send", "close"} => out[p] # None
        /\ out[p] # None => in[p] # None
        /\ out[p] # None /\ creator[p] =>
             in[p] = <<p, 1>> /\ \E x \in Peers : out[p] = <<x, 2>> /\ creator[x]
        /\ out[p] # None /\ ~creator[p] =>
             /\ out[p] = <<Other(p), 1>> /\ in[p] = <<Other(p), 2>>
             /\ creator[Other(p)] /\ pc[Other(p)] \notin Opening
        /\ creator[p] /\ pc[p] \in {"close2", "finish"} => out[p] = None

\* Who a name can lead to.
NamesMatchRole ==
    \A p \in Peers :
        /\ name[1] = p => pc[p] \notin {"start", "join1", "join2"}
        /\ name[2] = p => creator[p] /\ pc[p] \notin Opening

\* A process that made queue 1 and has not begun to clean up.
Holding(p) == \/ pc[p] = "made1"
              \/ creator[p] /\ pc[p] \in Loop \cup {"make2", "h_send", "close"}

\* There is one at a time, and its name stands unless its peer, a creator
\* before it, unlinks it late.
OneHolder ==
    \A p \in Peers :
        Holding(p) => /\ ~Holding(Other(p))
                      /\ \/ name[1] = p
                         \/ /\ creator[Other(p)]
                            /\ pc[Other(p)] \in {"close2", "finish", "h_close", "h_close2", "ended"}

\* Nobody has sent to a creator before its peer connected.
QuietBeforeJoin ==
    \A p \in Peers : pc[Other(p)] \in Opening => Size(<<p, 1>>) = 0

\* How much a process can have sent since it last saw its queue empty.
BurstSmall ==
    \A p \in Peers :
        /\ pc[p] \in Loop => burst[p] <= 1
        /\ pc[p] \in {"kbd", "send", "send_exit"} /\ ~quit[p] => burst[p] = 0
        /\ pc[p] \in Leaving \cup {"h_send"} => burst[p] <= 2

Linked == /\ out[Alice] # None /\ out[Bob] # None
          /\ in[Alice] = out[Bob] /\ in[Bob] = out[Alice]

\* The later of the two to see its queue empty has in it at most what its peer
\* sent since the peer saw its own empty.
Balanced == Linked => \/ Size(in[Bob]) <= burst[Alice]
                      \/ Size(in[Alice]) <= burst[Bob]

ChatInv == /\ TypeOK
           /\ OpeningIsFresh
           /\ EndsMatchRole
           /\ NamesMatchRole
           /\ OneHolder
           /\ QuietBeforeJoin
           /\ BurstSmall
           /\ Balanced

-----------------------------------------------------------------------------
\* There are two processes, and each is the other's other.
LEMMA TwoPeers ==
    ASSUME NEW p \in Peers
    PROVE  /\ Other(p) \in Peers /\ Other(p) # p /\ Other(Other(p)) = p
           /\ \A x \in Peers : x = p \/ x = Other(p)
           /\ p # None /\ Other(p) # None
           /\ {<<p, 1>>, <<p, 2>>} \subseteq Queues
BY ChatAssumption DEF Peers, Other, Queues

Act(p) == Step(p) \/ Interrupt(p)

\* mq_send adds one message to one queue.
LEMMA SendEffect ==
    ASSUME TypeOK, NEW p \in Peers, out[p] \in Queues, Send(p) \/ PutExit(p)
    PROVE  /\ exits' \in [Queues -> Nat] /\ lines' \in [Queues -> Seq(Nat)]
           /\ \A q \in Queues : Size(q)' = IF q = out[p] THEN Size(q) + 1 ELSE Size(q)
<1>0. /\ exits \in [Queues -> Nat] /\ lines \in [Queues -> Seq(Nat)] /\ typed[p] \in Nat
      /\ \A q \in Queues : lines[q] \in Seq(Nat) /\ Len(lines[q]) \in Nat /\ exits[q] \in Nat
  BY LenProperties DEF TypeOK
<1>1. CASE Send(p)
  <2>1. exits' = exits /\ lines' = [lines EXCEPT ![out[p]] = Append(lines[out[p]], typed[p])]
    BY <1>1 DEF Send
  <2>2. /\ Append(lines[out[p]], typed[p]) \in Seq(Nat)
        /\ Len(Append(lines[out[p]], typed[p])) = Len(lines[out[p]]) + 1
    BY <1>0, AppendProperties
  <2>3. lines'[out[p]] = Append(lines[out[p]], typed[p])
        /\ \A q \in Queues : q # out[p] => lines'[q] = lines[q]
    BY <1>0, <2>1
  <2>4. lines' \in [Queues -> Seq(Nat)]
    BY <1>0, <2>1, <2>2
  <2>5. ASSUME NEW q \in Queues
        PROVE  exits'[q] + Len(lines'[q]) =
                 IF q = out[p] THEN exits[q] + Len(lines[q]) + 1 ELSE exits[q] + Len(lines[q])
    <3>1. CASE q = out[p]
      <4>1. Len(lines'[q]) = Len(lines[q]) + 1
        BY <2>2, <2>3, <3>1
      <4>2. exits'[q] = exits[q] /\ exits[q] \in Nat /\ Len(lines[q]) \in Nat
        BY <1>0, <2>1
      <4> QED
        BY <3>1, <4>1, <4>2
    <3>2. CASE q # out[p]
      BY <2>1, <2>3, <3>2
    <3> QED
      BY <3>1, <3>2
  <2> QED
    BY <1>0, <2>1, <2>4, <2>5 DEF Size
<1>2. CASE PutExit(p)
  <2>1. lines' = lines /\ exits' = [exits EXCEPT ![out[p]] = exits[out[p]] + 1]
    BY <1>2 DEF PutExit
  <2>2. exits'[out[p]] = exits[out[p]] + 1 /\ \A q \in Queues : q # out[p] => exits'[q] = exits[q]
    BY <1>0, <2>1
  <2>3. exits' \in [Queues -> Nat]
    BY <1>0, <2>1
  <2>4. ASSUME NEW q \in Queues
        PROVE  exits'[q] + Len(lines'[q]) =
                 IF q = out[p] THEN exits[q] + Len(lines[q]) + 1 ELSE exits[q] + Len(lines[q])
    BY <1>0, <2>1, <2>2
  <2> QED
    BY <1>0, <2>1, <2>3, <2>4 DEF Size
<1> QED
  BY <1>1, <1>2

\* mq_receive removes one message from one queue.
LEMMA ReceiveEffect ==
    ASSUME TypeOK, NEW p \in Peers, in[p] \in Queues, Receive(p)
    PROVE  /\ exits' \in [Queues -> Nat] /\ lines' \in [Queues -> Seq(Nat)]
           /\ shown' \in [Peers -> Seq(Nat)] /\ quit' \in [Peers -> BOOLEAN]
           /\ \A q \in Queues : Size(q)' <= Size(q) /\ Size(q)' \in Nat /\ Size(q) \in Nat
<1>0. /\ exits \in [Queues -> Nat] /\ lines \in [Queues -> Seq(Nat)]
      /\ shown \in [Peers -> Seq(Nat)] /\ quit \in [Peers -> BOOLEAN] /\ Size(in[p]) > 0
      /\ \A q \in Queues : lines[q] \in Seq(Nat) /\ Len(lines[q]) \in Nat /\ exits[q] \in Nat
  BY LenProperties DEF TypeOK, Receive
<1>2. CASE exits[in[p]] > 0
  <2>1. lines' = lines /\ exits' = [exits EXCEPT ![in[p]] = exits[in[p]] - 1] /\ shown' = shown
        /\ quit' = [quit EXCEPT ![p] = TRUE]
    BY <1>2 DEF Receive
  <2> QED
    BY <1>0, <1>2, <2>1 DEF Size
<1>3. CASE ~(exits[in[p]] > 0)
  <2>1. /\ lines' = [lines EXCEPT ![in[p]] = Tail(lines[in[p]])] /\ exits' = exits /\ quit' = quit
        /\ shown' = [shown EXCEPT ![p] = Append(shown[p], Head(lines[in[p]]))]
    BY <1>3 DEF Receive
  <2>2. lines[in[p]] \in Seq(Nat) /\ lines[in[p]] # <<>>
    BY <1>0, <1>3, EmptySeq DEF Size
  <2>3. /\ Tail(lines[in[p]]) \in Seq(Nat) /\ Head(lines[in[p]]) \in Nat
        /\ Len(Tail(lines[in[p]])) = Len(lines[in[p]]) - 1
        /\ Len(Tail(lines[in[p]])) \in Nat
    BY <2>2, HeadTailProperties, LenProperties
  <2>4. Append(shown[p], Head(lines[in[p]])) \in Seq(Nat)
    BY <1>0, <2>3, AppendProperties
  <2>5. lines' \in [Queues -> Seq(Nat)] /\ shown' \in [Peers -> Seq(Nat)]
    BY <1>0, <2>1, <2>3, <2>4
  <2>6. ASSUME NEW q \in Queues
        PROVE  Len(lines'[q]) \in Nat /\ Len(lines'[q]) <= Len(lines[q])
    BY <1>0, <2>1, <2>3
  <2>7. ASSUME NEW q \in Queues
        PROVE  Size(q)' <= Size(q) /\ Size(q)' \in Nat /\ Size(q) \in Nat
    <3>1. exits'[q] = exits[q] /\ exits[q] \in Nat /\ Len(lines[q]) \in Nat
      BY <1>0, <2>1
    <3>2. Len(lines'[q]) \in Nat /\ Len(lines'[q]) <= Len(lines[q])
      BY <2>6
    <3> QED
      BY <3>1, <3>2 DEF Size
  <2> QED
    BY <1>0, <2>1, <2>5, <2>7
<1> QED
  BY <1>2, <1>3

-----------------------------------------------------------------------------
\* Every variable keeps its type.
LEMMA ChatTypeStep ==
    ASSUME TypeOK, OpeningIsFresh, EndsMatchRole, NEW p \in Peers, Act(p)
    PROVE  TypeOK'
<1>0. /\ p # None /\ Other(p) \in Peers
      /\ \A x \in Peers : <<x, 1>> \in Queues /\ <<x, 2>> \in Queues
      /\ pc[p] \in Loop \cup {"h_send"} => out[p] \in Queues /\ in[p] \in Queues
      /\ \A i \in {1, 2} : name[i] # None => name[i] \in Peers
      /\ pc[p] = "join2" => found[p] \in Peers
  <2>1. p # None /\ Other(p) \in Peers /\ \A x \in Peers : <<x, 1>> \in Queues /\ <<x, 2>> \in Queues
    BY TwoPeers
  <2>2. pc[p] \in Loop \cup {"h_send"} => out[p] \in Queues
    BY DEF TypeOK, EndsMatchRole
  <2>3. pc[p] \in Loop \cup {"h_send"} => in[p] \in Queues
    BY <2>1 DEF TypeOK, EndsMatchRole
  <2> QED
    BY <2>1, <2>2, <2>3 DEF TypeOK, OpeningIsFresh
<1>p. pc' \in [Peers -> Labels]
  <2>1. ASSUME NEW l \in Labels, Goto(p, l) PROVE pc' \in [Peers -> Labels]
    BY <2>1 DEF TypeOK, Goto
  <2>2. \E l \in Labels : Goto(p, l)
    BY DEF Labels, Loop, Opening, Leaving, Handler, Again, Act, Step, Open1, SetCreator, Make2, Join1, Join2, Check, Receive, NoLine,
     Line, ExitLine, Send, SendExit, PutExit, Close, Close2, Finish, HandlerSend, HandlerClose,
     HandlerClose2, Cleanup1, Cleanup2, Interrupt
  <2> QED
    BY <2>1, <2>2
<1>2. name' \in [{1, 2} -> Peers \cup {None}]
  <2>1. \/ name' = name \/ name' = [name EXCEPT ![1] = p] \/ name' = [name EXCEPT ![1] = None]
        \/ name' = [name EXCEPT ![2] = p] \/ name' = [name EXCEPT ![2] = None]
        \/ name' = [name EXCEPT ![2] = name[2]]
    BY DEF Act, Step, Goto, ends, messages, chatVars, Open1, SetCreator, Make2, Join1, Join2,
         Check, Receive, NoLine, Line, ExitLine, Send, SendExit, PutExit, Close, Close2, Finish,
         HandlerSend, HandlerClose, HandlerClose2, Cleanup1, Cleanup2, Interrupt
  <2>2. name \in [{1, 2} -> Peers \cup {None}]
    BY DEF TypeOK
  <2> QED
    BY <2>1, <2>2
<1>3. creator' \in [Peers -> BOOLEAN] /\ found' \in [Peers -> Peers \cup {None}]
  BY <1>0 DEF TypeOK, Act, Step, Goto, ends, messages, chatVars, Open1, SetCreator, Make2, Join1, Join2,
         Check, Receive, NoLine, Line, ExitLine, Send, SendExit, PutExit, Close, Close2, Finish,
         HandlerSend, HandlerClose, HandlerClose2, Cleanup1, Cleanup2, Interrupt
<1>4. out' \in [Peers -> Queues \cup {None}] /\ in' \in [Peers -> Queues \cup {None}]
  <2>1. \/ out' = out \/ out' = [out EXCEPT ![p] = None] \/ out' = [out EXCEPT ![p] = <<p, 2>>]
        \/ name[2] # None /\ out' = [out EXCEPT ![p] = <<name[2], 2>>]
        \/ pc[p] = "join2" /\ out' = [out EXCEPT ![p] = <<found[p], 1>>]
    BY DEF Act, Step, Goto, ends, messages, chatVars, Open1, SetCreator, Make2, Join1, Join2,
         Check, Receive, NoLine, Line, ExitLine, Send, SendExit, PutExit, Close, Close2, Finish,
         HandlerSend, HandlerClose, HandlerClose2, Cleanup1, Cleanup2, Interrupt
  <2>2. \/ in' = in \/ in' = [in EXCEPT ![p] = None] \/ in' = [in EXCEPT ![p] = <<p, 1>>]
        \/ name[2] # None /\ in' = [in EXCEPT ![p] = <<name[2], 2>>]
    BY DEF Act, Step, Goto, ends, messages, chatVars, Open1, SetCreator, Make2, Join1, Join2,
         Check, Receive, NoLine, Line, ExitLine, Send, SendExit, PutExit, Close, Close2, Finish,
         HandlerSend, HandlerClose, HandlerClose2, Cleanup1, Cleanup2, Interrupt
  <2>3. out \in [Peers -> Queues \cup {None}] /\ in \in [Peers -> Queues \cup {None}]
    BY DEF TypeOK
  <2>4. /\ name[2] # None => <<name[2], 2>> \in Queues
        /\ pc[p] = "join2" => <<found[p], 1>> \in Queues
    BY <1>0
  <2>5. out' \in [Peers -> Queues \cup {None}]
    BY <1>0, <2>1, <2>3, <2>4
  <2>6. in' \in [Peers -> Queues \cup {None}]
    BY <1>0, <2>2, <2>3, <2>4
  <2> QED
    BY <2>5, <2>6
<1>5. typed' \in [Peers -> Nat] /\ burst' \in [Peers -> Nat]
  <2>1. typed' = typed \/ typed' = [typed EXCEPT ![p] = typed[p] + 1]
    BY DEF Act, Step, Goto, ends, messages, chatVars, Open1, SetCreator, Make2, Join1, Join2,
         Check, Receive, NoLine, Line, ExitLine, Send, SendExit, PutExit, Close, Close2, Finish,
         HandlerSend, HandlerClose, HandlerClose2, Cleanup1, Cleanup2, Interrupt
  <2>2. \/ burst' = burst \/ burst' = [burst EXCEPT ![p] = burst[p] + 1]
        \/ burst' = [burst EXCEPT ![p] = 0] \/ burst' = [burst EXCEPT ![p] = burst[p]]
    BY DEF Act, Step, Goto, ends, messages, chatVars, Open1, SetCreator, Make2, Join1, Join2,
         Check, Receive, NoLine, Line, ExitLine, Send, SendExit, PutExit, Close, Close2, Finish,
         HandlerSend, HandlerClose, HandlerClose2, Cleanup1, Cleanup2, Interrupt
  <2>3. typed \in [Peers -> Nat] /\ burst \in [Peers -> Nat] /\ typed[p] + 1 \in Nat /\ burst[p] + 1 \in Nat
    BY DEF TypeOK
  <2>4. typed' \in [Peers -> Nat]
    BY <2>1, <2>3
  <2>5. burst' \in [Peers -> Nat]
    BY <2>2, <2>3
  <2> QED
    BY <2>4, <2>5
<1>6. /\ exits' \in [Queues -> Nat] /\ lines' \in [Queues -> Seq(Nat)]
      /\ shown' \in [Peers -> Seq(Nat)] /\ quit' \in [Peers -> BOOLEAN]
  <2>1. CASE Receive(p)
    BY <1>0, <2>1, ReceiveEffect DEF Receive, Loop
  <2>2. CASE Send(p) \/ SendExit(p) \/ HandlerSend(p)
    <3>1. out[p] \in Queues /\ (Send(p) \/ PutExit(p))
      BY <1>0, <2>2 DEF Send, SendExit, HandlerSend, Loop
    <3>2. shown' = shown /\ (quit' = quit \/ quit' = [quit EXCEPT ![p] = TRUE])
      BY <2>2 DEF Send, SendExit, HandlerSend, PutExit
    <3> QED
      BY <3>1, <3>2, SendEffect DEF TypeOK
  <2>3. CASE ~(Receive(p) \/ Send(p) \/ SendExit(p) \/ HandlerSend(p))
    <3>1. exits' = exits /\ lines' = lines /\ shown' = shown /\ quit' = quit
      BY <2>3 DEF Act, Step, ends, messages, chatVars, Open1, SetCreator, Make2, Join1, Join2,
         Check, NoLine, Line, ExitLine, Close, Close2, Finish,
         HandlerClose, HandlerClose2, Cleanup1, Cleanup2, Interrupt
    <3> QED
      BY <3>1 DEF TypeOK
  <2> QED
    BY <2>1, <2>2, <2>3
<1> QED
  BY <1>p, <1>2, <1>3, <1>4, <1>5, <1>6 DEF TypeOK

\* A step changes nothing of the other process but the names and the messages.
LEMMA OtherKeeps ==
    ASSUME TypeOK, NEW p \in Peers, Act(p), NEW q \in Peers, q # p
    PROVE  /\ pc'[q] = pc[q] /\ creator'[q] = creator[q] /\ found'[q] = found[q]
           /\ out'[q] = out[q] /\ in'[q] = in[q] /\ quit'[q] = quit[q] /\ burst'[q] = burst[q]
<1>1. pc' = [pc EXCEPT ![p] = pc'[p]] /\ creator' = [creator EXCEPT ![p] = creator'[p]]
  BY DEF TypeOK, Act, Step, Goto, ends, messages, chatVars, Open1, SetCreator, Make2, Join1, Join2, Check, Receive, NoLine,
     Line, ExitLine, Send, SendExit, PutExit, Close, Close2, Finish, HandlerSend, HandlerClose,
     HandlerClose2, Cleanup1, Cleanup2, Interrupt
<1>2. out' = [out EXCEPT ![p] = out'[p]] /\ in' = [in EXCEPT ![p] = in'[p]]
      /\ found' = [found EXCEPT ![p] = found'[p]]
  BY DEF TypeOK, Act, Step, Goto, ends, messages, chatVars, Open1, SetCreator, Make2, Join1, Join2, Check, Receive, NoLine,
     Line, ExitLine, Send, SendExit, PutExit, Close, Close2, Finish, HandlerSend, HandlerClose,
     HandlerClose2, Cleanup1, Cleanup2, Interrupt
<1>3. quit' = [quit EXCEPT ![p] = quit'[p]] /\ burst' = [burst EXCEPT ![p] = burst'[p]]
  BY DEF TypeOK, Act, Step, Goto, ends, messages, chatVars, Open1, SetCreator, Make2, Join1, Join2, Check, Receive, NoLine,
     Line, ExitLine, Send, SendExit, PutExit, Close, Close2, Finish, HandlerSend, HandlerClose,
     HandlerClose2, Cleanup1, Cleanup2, Interrupt
<1> QED
  BY <1>1, <1>2, <1>3 DEF TypeOK

-----------------------------------------------------------------------------
\* A process opens its queues once: it never comes back to an earlier call.
LEMMA OpeningStep ==
    ASSUME TypeOK, OpeningIsFresh, NamesMatchRole, NEW p \in Peers, Act(p)
    PROVE  /\ pc'[p] \in Opening =>
                /\ pc[p] \in Opening /\ (Open1(p) \/ SetCreator(p) \/ Join1(p))
                /\ out'[p] = out[p] /\ in'[p] = in[p] /\ burst'[p] = burst[p]
                /\ exits' = exits /\ lines' = lines
           /\ creator[p] => creator'[p]
           /\ pc'[p] = "join2" => found'[p] = Other(p)
           /\ pc'[p] = "make2" => creator'[p]
           /\ creator'[p] => pc'[p] \notin {"start", "made1", "join1", "join2"}
<1>0. pc \in [Peers -> Labels] /\ creator \in [Peers -> BOOLEAN]
  BY DEF TypeOK
<1>1. pc'[p] \in Opening => Open1(p) \/ SetCreator(p) \/ Join1(p)
  BY <1>0 DEF Opening, Again, Act, Step, Goto, ends, messages, chatVars, Open1, SetCreator, Make2, Join1, Join2,
         Check, Receive, NoLine, Line, ExitLine, Send, SendExit, PutExit, Close, Close2, Finish,
         HandlerSend, HandlerClose, HandlerClose2, Cleanup1, Cleanup2, Interrupt
<1>2. CASE Open1(p)
  BY <1>0, <1>2 DEF Open1, Goto, messages, chatVars, Opening, OpeningIsFresh
<1>3. CASE SetCreator(p)
  BY <1>0, <1>3 DEF SetCreator, Goto, messages, chatVars, Opening, OpeningIsFresh
<1>4. CASE Join1(p)
  <2>1. name[1] # None => name[1] = Other(p)
    BY <1>4, TwoPeers DEF Join1, NamesMatchRole, TypeOK
  <2>2. found'[p] = name[1] /\ pc'[p] = IF name[1] = None THEN "ended" ELSE "join2"
    BY <1>0, <1>4 DEF Join1, Goto, TypeOK
  <2> QED
    BY <1>0, <1>4, <2>1, <2>2 DEF Join1, messages, chatVars, Opening, OpeningIsFresh
<1>5. CASE ~(Open1(p) \/ SetCreator(p) \/ Join1(p))
  <2>1. pc'[p] \notin Opening
    BY <1>1, <1>5
  <2>2. creator' = creator
    BY <1>5 DEF Act, Step, Goto, ends, messages, chatVars, Open1, SetCreator, Make2, Join1, Join2,
         Check, Receive, NoLine, Line, ExitLine, Send, SendExit, PutExit, Close, Close2, Finish,
         HandlerSend, HandlerClose, HandlerClose2, Cleanup1, Cleanup2, Interrupt
  <2> QED
    BY <2>1, <2>2 DEF Opening
<1> QED
  BY <1>2, <1>3, <1>4, <1>5

\* A process that is still in init_queues has no ends and has sent nothing.
LEMMA OpeningIsFreshStep ==
    ASSUME TypeOK, OpeningIsFresh, NamesMatchRole, NEW p \in Peers, Act(p)
    PROVE  OpeningIsFresh'
<1> SUFFICES ASSUME NEW q \in Peers
             PROVE  /\ pc'[q] \in Opening => out'[q] = None /\ in'[q] = None /\ burst'[q] = 0
                    /\ pc'[q] = "join2" => found'[q] = Other(q)
                    /\ pc'[q] = "make2" => creator'[q]
                    /\ creator'[q] => pc'[q] \notin {"start", "made1", "join1", "join2"}
  BY DEF OpeningIsFresh
<1>1. CASE q = p
  BY <1>1, OpeningStep DEF OpeningIsFresh
<1>2. CASE q # p
  BY <1>2, OtherKeeps DEF OpeningIsFresh
<1> QED
  BY <1>1, <1>2

\* Who a name can lead to after a step.
LEMMA NamesMatchRoleStep ==
    ASSUME TypeOK, OpeningIsFresh, NamesMatchRole, NEW p \in Peers, Act(p)
    PROVE  NamesMatchRole'
<1>0. pc \in [Peers -> Labels] /\ creator \in [Peers -> BOOLEAN] /\ name \in [{1, 2} -> Peers \cup {None}]
      /\ p # None /\ Other(p) # p /\ Other(p) # None
  BY TwoPeers DEF TypeOK
<1>1. name'[1] = p => pc'[p] \notin {"start", "join1", "join2"}
  <2>1. CASE Open1(p)
    BY <1>0, <2>1 DEF Open1, Goto, NamesMatchRole
  <2>2. CASE Join1(p)
    BY <1>0, <2>2 DEF Join1, Goto, NamesMatchRole
  <2>3. CASE ~(Open1(p) \/ Join1(p))
    BY <1>0, <2>3, OpeningStep DEF Opening, SetCreator, Goto
  <2> QED
    BY <2>1, <2>2, <2>3
<1>2. name'[1] = Other(p) => name[1] = Other(p)
  BY <1>0 DEF Act, Step, Goto, ends, messages, chatVars, Open1, SetCreator, Make2, Join1, Join2,
         Check, Receive, NoLine, Line, ExitLine, Send, SendExit, PutExit, Close, Close2, Finish,
         HandlerSend, HandlerClose, HandlerClose2, Cleanup1, Cleanup2, Interrupt
<1>3. name'[2] = Other(p) => name[2] = Other(p)
  BY <1>0 DEF Act, Step, Goto, ends, messages, chatVars, Open1, SetCreator, Make2, Join1, Join2,
         Check, Receive, NoLine, Line, ExitLine, Send, SendExit, PutExit, Close, Close2, Finish,
         HandlerSend, HandlerClose, HandlerClose2, Cleanup1, Cleanup2, Interrupt
<1>4. name'[2] = p => creator'[p] /\ pc'[p] \notin Opening
  <2>1. CASE Make2(p)
    BY <1>0, <2>1, OpeningStep DEF OpeningIsFresh, Make2, Goto, Opening
  <2>2. CASE ~Make2(p)
    <3>1. name'[2] = p => name[2] = p
      BY <1>0, <2>2 DEF Act, Step, Goto, ends, messages, chatVars, Open1, SetCreator, Make2, Join1, Join2,
         Check, Receive, NoLine, Line, ExitLine, Send, SendExit, PutExit, Close, Close2, Finish,
         HandlerSend, HandlerClose, HandlerClose2, Cleanup1, Cleanup2, Interrupt
    <3> QED
      BY <3>1, OpeningStep DEF NamesMatchRole
  <2> QED
    BY <2>1, <2>2
<1>5. pc'[Other(p)] = pc[Other(p)] /\ creator'[Other(p)] = creator[Other(p)]
  <2>1. PICK o \in Peers : o = Other(p) /\ o # p
    BY TwoPeers
  <2>2. pc'[o] = pc[o] /\ creator'[o] = creator[o]
    BY <2>1, OtherKeeps
  <2> QED
    BY <2>1, <2>2
<1> QED
  BY <1>1, <1>2, <1>3, <1>4, <1>5, TwoPeers DEF NamesMatchRole

-----------------------------------------------------------------------------
\* The ends of a process after a step of its own.
LEMMA OwnEndsStep ==
    ASSUME TypeOK, OpeningIsFresh, NamesMatchRole, EndsMatchRole, NEW p \in Peers, Act(p)
    PROVE  /\ pc'[p] \in Loop \cup {"h_send", "close"} => out'[p] # None
           /\ out'[p] # None => in'[p] # None
           /\ out'[p] # None /\ creator'[p] =>
                in'[p] = <<p, 1>> /\ \E x \in Peers : out'[p] = <<x, 2>> /\ creator'[x]
           /\ out'[p] # None /\ ~creator'[p] =>
                /\ out'[p] = <<Other(p), 1>> /\ in'[p] = <<Other(p), 2>>
                /\ creator[Other(p)] /\ pc[Other(p)] \notin Opening
           /\ creator'[p] /\ pc'[p] \in {"close2", "finish"} => out'[p] = None
<1>0. /\ pc \in [Peers -> Labels] /\ creator \in [Peers -> BOOLEAN]
      /\ name \in [{1, 2} -> Peers \cup {None}]
      /\ out \in [Peers -> Queues \cup {None}] /\ in \in [Peers -> Queues \cup {None}]
      /\ p # None /\ Other(p) # p /\ Other(p) \in Peers /\ Other(p) # None
      /\ \A x \in Peers : x = p \/ x = Other(p)
      /\ \A x \in Peers : <<x, 1>> # None /\ <<x, 2>> # None
  BY TwoPeers, ChatAssumption DEF TypeOK, Queues, Peers
<1>1. CASE Make2(p)
  <2>1. creator[p] /\ creator' = creator
    BY <1>1 DEF Make2, OpeningIsFresh
  <2>2. name[2] # None => name[2] \in Peers /\ creator[name[2]]
    BY <1>0 DEF NamesMatchRole
  <2>3. \/ /\ out'[p] = <<IF name[2] = None THEN p ELSE name[2], 2>>
           /\ in'[p] = <<p, 1>> /\ pc'[p] = "check"
        \/ out'[p] = None /\ in'[p] = None /\ pc'[p] = "ended"
    BY <1>0, <1>1 DEF Make2, Goto, OpeningIsFresh, Opening
  <2> QED
    BY <1>0, <2>1, <2>2, <2>3 DEF Loop
<1>2. CASE Join2(p)
  <2>1. ~creator[p] /\ creator' = creator /\ found[p] = Other(p)
    BY <1>2 DEF Join2, OpeningIsFresh
  <2>2. name[2] # None => name[2] = Other(p) /\ creator[Other(p)] /\ pc[Other(p)] \notin Opening
    BY <1>0, <1>2 DEF NamesMatchRole, Join2, Opening
  <2>3. \/ /\ name[2] # None /\ out'[p] = <<found[p], 1>>
           /\ in'[p] = <<name[2], 2>> /\ pc'[p] = "check"
        \/ out'[p] = None /\ in'[p] = None /\ pc'[p] = "ended"
    BY <1>0, <1>2 DEF Join2, Goto, OpeningIsFresh, Opening
  <2> QED
    BY <1>0, <2>1, <2>2, <2>3 DEF Loop
<1>3. CASE Open1(p) \/ SetCreator(p) \/ Join1(p)
  <2>1. out'[p] = None /\ in'[p] = None
    BY <1>3 DEF Open1, SetCreator, Join1, OpeningIsFresh, Opening
  <2>2. pc'[p] \in {"made1", "join1", "make2", "join2", "ended"}
    BY <1>0, <1>3 DEF Open1, SetCreator, Join1, Goto
  <2> QED
    BY <2>1, <2>2 DEF Loop
<1>4. CASE Close(p) \/ HandlerClose(p)
  <2>1. creator' = creator /\ pc'[p] \in {"close2", "finish", "h_close2", "ended"}
    BY <1>0, <1>4 DEF Close, HandlerClose, Cleanup1, Goto
  <2>2. IF creator[p] THEN out'[p] = None /\ in'[p] = None ELSE out'[p] = out[p] /\ in'[p] = in[p]
    BY <1>0, <1>4 DEF Close, HandlerClose, Cleanup1
  <2> QED
    BY <1>0, <2>1, <2>2 DEF EndsMatchRole, Loop
<1>5. CASE Interrupt(p)
  <2>1. creator' = creator /\ out' = out /\ in' = in
        /\ pc'[p] = IF out[p] = None THEN "h_close" ELSE "h_send"
    BY <1>0, <1>5 DEF Interrupt, ends, Goto
  <2> QED
    BY <1>0, <2>1 DEF EndsMatchRole, Loop
<1>6. CASE ~(\/ Make2(p) \/ Join2(p) \/ Open1(p) \/ SetCreator(p) \/ Join1(p)
             \/ Close(p) \/ HandlerClose(p) \/ Interrupt(p))
  <2>1. creator' = creator /\ out' = out /\ in' = in
    BY <1>6 DEF Act, Step, ends, messages, chatVars, Check, Receive, NoLine, Line, ExitLine,
       Send, SendExit, PutExit, Close2, Finish, HandlerSend, HandlerClose2, Cleanup2
  <2>2. \/ pc[p] \in Loop /\ pc'[p] \in Loop \cup {"close"}
        \/ pc[p] = "close2" /\ pc'[p] = "finish"
        \/ pc'[p] \in {"ended", "h_close"}
    BY <1>0, <1>6 DEF Act, Step, Check, Receive, NoLine, Line, ExitLine, Again, Goto, Loop,
       Send, SendExit, PutExit, Close2, Finish, HandlerSend, HandlerClose2, Cleanup2
  <2> QED
    BY <1>0, <2>1, <2>2 DEF EndsMatchRole, Loop
<1> QED
  BY <1>1, <1>2, <1>3, <1>4, <1>5, <1>6

\* The ends of both processes match their roles after a step of either.
LEMMA EndsMatchRoleStep ==
    ASSUME TypeOK, OpeningIsFresh, NamesMatchRole, EndsMatchRole, NEW p \in Peers, Act(p)
    PROVE  EndsMatchRole'
<1>0. /\ Other(p) \in Peers /\ Other(p) # p /\ Other(Other(p)) = p
      /\ \A x \in Peers : x = p \/ x = Other(p)
  BY TwoPeers
<1>1. /\ pc'[Other(p)] = pc[Other(p)] /\ creator'[Other(p)] = creator[Other(p)]
      /\ out'[Other(p)] = out[Other(p)] /\ in'[Other(p)] = in[Other(p)]
  BY <1>0, OtherKeeps
<1>2. (creator[p] => creator'[p]) /\ (pc[p] \notin Opening => pc'[p] \notin Opening)
  BY OpeningStep
<1>3. \A x \in Peers : creator[x] => creator'[x]
  BY <1>0, <1>1, <1>2
<1> SUFFICES ASSUME NEW q \in Peers
             PROVE  /\ pc'[q] \in Loop \cup {"h_send", "close"} => out'[q] # None
                    /\ out'[q] # None => in'[q] # None
                    /\ out'[q] # None /\ creator'[q] =>
                         in'[q] = <<q, 1>> /\ \E x \in Peers : out'[q] = <<x, 2>> /\ creator'[x]
                    /\ out'[q] # None /\ ~creator'[q] =>
                         /\ out'[q] = <<Other(q), 1>> /\ in'[q] = <<Other(q), 2>>
                         /\ creator'[Other(q)] /\ pc'[Other(q)] \notin Opening
                    /\ creator'[q] /\ pc'[q] \in {"close2", "finish"} => out'[q] = None
  BY DEF EndsMatchRole
<1>4. CASE q = p
  BY <1>1, <1>4, OwnEndsStep
<1>5. CASE q = Other(p)
  BY <1>0, <1>1, <1>2, <1>3, <1>5 DEF EndsMatchRole
<1> QED
  BY <1>0, <1>4, <1>5

-----------------------------------------------------------------------------
\* A process that cleaned up as a creator, or is about to in the handler.
Late(p) == creator[p] /\ pc[p] \in {"close2", "finish", "h_close", "h_close2", "ended"}

\* A process begins to hold queue 1 by creating it, holds it until it cleans up,
\* and cleans up once.
LEMMA OwnHoldingStep ==
    ASSUME TypeOK, OpeningIsFresh, NamesMatchRole, EndsMatchRole, NEW p \in Peers, Act(p)
    PROVE  /\ Holding(p)' => Holding(p) \/ (pc[p] = "start" /\ name[1] = None /\ name'[1] = p)
           /\ Late(p) => Late(p)'
           /\ \/ name'[1] = name[1]
              \/ pc[p] = "start" /\ name[1] = None
              \/ ~Holding(p)' /\ name'[1] = None /\ (Holding(p) \/ Late(p)')
<1>0. /\ pc \in [Peers -> Labels] /\ creator \in [Peers -> BOOLEAN]
      /\ name \in [{1, 2} -> Peers \cup {None}] /\ p # None
  BY TwoPeers DEF TypeOK
<1>1. CASE Open1(p)
  <2>1. pc[p] = "start" /\ ~creator[p] /\ creator' = creator
    BY <1>0, <1>1 DEF Open1, OpeningIsFresh
  <2>2. \/ name[1] = None /\ name'[1] = p /\ pc'[p] = "made1"
        \/ name'[1] = name[1] /\ pc'[p] = "join1"
    BY <1>0, <1>1 DEF Open1, Goto
  <2> QED
    BY <2>1, <2>2 DEF Holding, Late, Loop
<1>2. CASE SetCreator(p)
  BY <1>0, <1>2 DEF SetCreator, Goto, Holding, Late
<1>3. CASE Make2(p)
  <2>1. pc[p] = "make2" /\ creator[p] /\ creator' = creator
    BY <1>3 DEF Make2, OpeningIsFresh
  <2>2. \/ name'[1] = name[1] /\ pc'[p] = "check"
        \/ name'[1] = None /\ pc'[p] = "ended"
    BY <1>0, <1>3 DEF Make2, Goto
  <2> QED
    BY <2>1, <2>2 DEF Holding, Late, Loop
<1>4. CASE Join1(p) \/ Join2(p)
  <2>1. ~creator[p] /\ creator' = creator /\ name' = name
    BY <1>0, <1>4 DEF Join1, Join2, OpeningIsFresh
  <2>2. pc'[p] \in {"join2", "check", "ended"}
    BY <1>0, <1>4 DEF Join1, Join2, Goto
  <2> QED
    BY <2>1, <2>2 DEF Holding, Late
<1>5. CASE Close(p) \/ HandlerClose(p)
  <2>1. creator' = creator /\ pc[p] \in {"close", "h_close"}
        /\ pc'[p] \in {"close2", "finish", "h_close2", "ended"}
    BY <1>0, <1>5 DEF Close, HandlerClose, Cleanup1, Goto
  <2>2. IF creator[p] THEN name'[1] = None ELSE name' = name
    BY <1>0, <1>5 DEF Close, HandlerClose, Cleanup1
  <2> QED
    BY <2>1, <2>2 DEF Holding, Late, Loop
<1>6. CASE Interrupt(p)
  <2>1. creator' = creator /\ name' = name /\ pc[p] \in Loop \cup Opening \cup Leaving
        /\ pc'[p] = IF out[p] = None THEN "h_close" ELSE "h_send"
    BY <1>0, <1>6 DEF Interrupt, ends, Goto
  <2>2. pc[p] \in Opening \/ (creator[p] /\ pc[p] \in {"close2", "finish"}) => out[p] = None
    BY DEF OpeningIsFresh, EndsMatchRole
  <2> QED
    BY <2>1, <2>2 DEF Holding, Late, Leaving, Opening, Loop
<1>7. CASE ~(\/ Make2(p) \/ Join2(p) \/ Open1(p) \/ SetCreator(p) \/ Join1(p)
             \/ Close(p) \/ HandlerClose(p) \/ Interrupt(p))
  <2>1. creator' = creator /\ name'[1] = name[1]
    BY <1>0, <1>7 DEF Act, Step, ends, messages, chatVars, Check, Receive, NoLine, Line, ExitLine,
       Send, SendExit, PutExit, Close2, Finish, HandlerSend, HandlerClose2, Cleanup2
  <2>2. \/ pc[p] \in Loop /\ pc'[p] \in Loop \cup {"close"}
        \/ pc[p] = "close2" /\ pc'[p] = "finish"
        \/ pc'[p] = "ended"
        \/ pc[p] = "h_send" /\ pc'[p] = "h_close"
    BY <1>0, <1>7 DEF Act, Step, Check, Receive, NoLine, Line, ExitLine, Again, Goto, Loop,
       Send, SendExit, PutExit, Close2, Finish, HandlerSend, HandlerClose2, Cleanup2
  <2> QED
    BY <1>0, <2>1, <2>2 DEF Holding, Late, Loop
<1> QED
  BY <1>1, <1>2, <1>3, <1>4, <1>5, <1>6, <1>7 DEF Act, Step

\* Never do both processes hold a queue 1 they created.
LEMMA OneHolderStep ==
    ASSUME TypeOK, OpeningIsFresh, NamesMatchRole, EndsMatchRole, OneHolder,
           NEW p \in Peers, Act(p)
    PROVE  OneHolder'
<1> DEFINE o == Other(p)
<1>0. o \in Peers /\ o # p /\ Other(o) = p /\ o # None /\ \A x \in Peers : x = p \/ x = o
  BY TwoPeers
<1>1. (Holding(o)' <=> Holding(o)) /\ (Late(o)' <=> Late(o))
  BY <1>0, OtherKeeps DEF Holding, Late
<1>2. \A q \in Peers : Holding(q) => ~Holding(Other(q)) /\ (name[1] = q \/ Late(Other(q)))
  BY DEF OneHolder, Late
<1>3. pc[p] = "start" => ~Late(p)
  BY DEF Late
<1>4. Holding(p)' => ~Holding(o)' /\ (name'[1] = p \/ Late(o)')
  BY <1>0, <1>1, <1>2, <1>3, OwnHoldingStep DEF Holding, Loop
<1>5. Holding(o)' => ~Holding(p)' /\ (name'[1] = o \/ Late(p)')
  BY <1>0, <1>1, <1>2, <1>3, OwnHoldingStep DEF Holding, Loop
<1> QED
  BY <1>0, <1>4, <1>5 DEF OneHolder, Late

-----------------------------------------------------------------------------
\* Only mq_send adds a message, and to the sender's own outgoing queue, which
\* is never the one it reads nor queue 1 of its own.
LEMMA Traffic ==
    ASSUME TypeOK, OpeningIsFresh, EndsMatchRole, NEW p \in Peers, Act(p)
    PROVE  /\ \A q \in Queues : Size(q) \in Nat /\ Size(q)' \in Nat
           /\ \/ \A q \in Queues : Size(q)' <= Size(q)
              \/ /\ Send(p) \/ SendExit(p) \/ HandlerSend(p)
                 /\ out[p] \in Queues /\ out[p] # in[p] /\ out[p] # <<p, 1>>
                 /\ burst' = [burst EXCEPT ![p] = burst[p] + 1]
                 /\ \A q \in Queues : Size(q)' = IF q = out[p] THEN Size(q) + 1 ELSE Size(q)
<1>0. \A q \in Queues : Size(q) \in Nat
  <2>1. \A q \in Queues : lines[q] \in Seq(Nat) /\ exits[q] \in Nat
    BY DEF TypeOK
  <2>2. \A q \in Queues : Len(lines[q]) \in Nat
    BY <2>1, LenProperties
  <2> QED
    BY <2>1, <2>2 DEF Size
<1>1. pc[p] \in Loop \cup {"h_send"} =>
        /\ out[p] \in Queues /\ in[p] \in Queues
        /\ out[p] # in[p] /\ out[p] # <<p, 1>>
  <2>1. Other(p) # p /\ <<p, 1>> # <<Other(p), 1>> /\ <<Other(p), 1>> # <<Other(p), 2>>
        /\ \A x \in Peers : <<x, 2>> # <<p, 1>>
    <3>1. Other(p) # p
      BY TwoPeers
    <3>2. <<p, 1>> # <<Other(p), 1>>
      BY <3>1
    <3>3. <<Other(p), 1>> # <<Other(p), 2>>
      OBVIOUS
    <3>4. \A x \in Peers : <<x, 2>> # <<p, 1>>
      OBVIOUS
    <3> QED
      BY <3>1, <3>2, <3>3, <3>4
  <2>2. pc[p] \in Loop \cup {"h_send"} => out[p] \in Queues /\ in[p] \in Queues
    BY DEF TypeOK, EndsMatchRole
  <2> QED
    BY <2>1, <2>2 DEF EndsMatchRole
<1>2. CASE Receive(p)
  BY <1>1, <1>2, ReceiveEffect DEF Receive, Loop
<1>3. CASE Send(p) \/ SendExit(p) \/ HandlerSend(p)
  <2>1. pc[p] \in Loop \cup {"h_send"} /\ (Send(p) \/ PutExit(p))
    BY <1>3 DEF Send, SendExit, HandlerSend, Loop
  <2>2. \A q \in Queues : Size(q)' = IF q = out[p] THEN Size(q) + 1 ELSE Size(q)
    BY <1>1, <2>1, SendEffect
  <2>3. burst' = [burst EXCEPT ![p] = burst[p] + 1]
    BY <2>1 DEF Send, PutExit
  <2> QED
    BY <1>0, <1>1, <1>3, <2>1, <2>2, <2>3
<1>4. CASE ~(Receive(p) \/ Send(p) \/ SendExit(p) \/ HandlerSend(p))
  <2>1. exits' = exits /\ lines' = lines
    BY <1>4 DEF Act, Step, ends, messages, chatVars, Open1, SetCreator, Make2, Join1, Join2,
       Check, NoLine, Line, ExitLine, Close, Close2, Finish,
       HandlerClose, HandlerClose2, Cleanup1, Cleanup2, Interrupt
  <2>2. \A q \in Queues : Size(q)' = Size(q)
    BY <2>1 DEF Size
  <2> QED
    BY <1>0, <2>2
<1> QED
  BY <1>2, <1>3, <1>4

\* Queue 1 stays empty until the peer of its creator has left init_queues.
LEMMA QuietBeforeJoinStep ==
    ASSUME TypeOK, OpeningIsFresh, NamesMatchRole, EndsMatchRole, QuietBeforeJoin,
           NEW p \in Peers, Act(p)
    PROVE  QuietBeforeJoin'
<1>0. /\ Other(p) \in Peers /\ Other(p) # p /\ Other(Other(p)) = p
      /\ \A x \in Peers : (x = p \/ x = Other(p)) /\ <<x, 1>> \in Queues
  BY TwoPeers
<1>1. pc'[Other(p)] \in Opening => Size(<<p, 1>>)' = 0
  <2>1. pc'[Other(p)] = pc[Other(p)]
    BY <1>0, OtherKeeps
  <2>2. pc[Other(p)] \in Opening => Size(<<p, 1>>) = 0
    BY DEF QuietBeforeJoin
  <2> QED
    BY <1>0, <2>1, <2>2, Traffic
<1>2. pc'[p] \in Opening => Size(<<Other(p), 1>>)' = 0
  <2>1. pc'[p] \in Opening => pc[p] \in Opening /\ exits' = exits /\ lines' = lines
    BY OpeningStep
  <2>2. pc[p] \in Opening => Size(<<Other(p), 1>>) = 0
    BY <1>0 DEF QuietBeforeJoin
  <2> QED
    BY <2>1, <2>2 DEF Size
<1> QED
  BY <1>0, <1>1, <1>2 DEF QuietBeforeJoin

\* A process sends at most one message between two looks at its queue, and one
\* more only when it leaves.
LEMMA BurstSmallStep ==
    ASSUME TypeOK, OpeningIsFresh, EndsMatchRole, BurstSmall, NEW p \in Peers, Act(p)
    PROVE  BurstSmall'
<1>0. /\ pc \in [Peers -> Labels] /\ quit \in [Peers -> BOOLEAN] /\ burst \in [Peers -> Nat]
  BY DEF TypeOK
<1> SUFFICES ASSUME NEW q \in Peers
             PROVE  /\ pc'[q] \in Loop => burst'[q] <= 1
                    /\ pc'[q] \in {"kbd", "send", "send_exit"} /\ ~quit'[q] => burst'[q] = 0
                    /\ pc'[q] \in Leaving \cup {"h_send"} => burst'[q] <= 2
  BY DEF BurstSmall
<1>1. CASE q # p
  BY <1>1, OtherKeeps DEF BurstSmall
<1>2. CASE q = p
  <2>0. /\ pc[p] \in Loop => burst[p] <= 1
        /\ pc[p] \in {"kbd", "send", "send_exit"} /\ ~quit[p] => burst[p] = 0
        /\ pc[p] \in Leaving \cup {"h_send"} => burst[p] <= 2
        /\ pc[p] \in Opening => burst[p] = 0
        /\ burst[p] \in Nat
    BY <1>0 DEF BurstSmall, OpeningIsFresh
  <2>1. CASE Open1(p) \/ SetCreator(p) \/ Make2(p) \/ Join1(p) \/ Join2(p)
    <3>1. burst' = burst /\ burst[p] = 0
      BY <2>0, <2>1 DEF Open1, SetCreator, Make2, Join1, Join2, chatVars, Opening
    <3> QED
      BY <1>2, <3>1
  <2>2. CASE Check(p)
    <3>1. in[p] \in Queues /\ Size(in[p]) \in Nat
      <4>1. in[p] \in Queues
        BY <2>2 DEF Check, EndsMatchRole, TypeOK, Loop
      <4> QED
        BY <4>1, Traffic
    <3>2. /\ quit' = quit /\ pc[p] = "check"
          /\ pc'[p] = IF Size(in[p]) > 0 /\ ~quit[p] THEN "recv" ELSE "kbd"
          /\ burst'[p] = IF Size(in[p]) = 0 THEN 0 ELSE burst[p]
      BY <1>0, <2>2 DEF Check, Goto
    <3> QED
      BY <1>2, <2>0, <3>1, <3>2 DEF Loop, Leaving
  <2>3. CASE Receive(p) \/ NoLine(p) \/ Line(p) \/ ExitLine(p)
    <3>1. burst' = burst /\ pc[p] \in Loop
      BY <2>3 DEF Receive, NoLine, Line, ExitLine, chatVars, Loop
    <3>2. \/ pc'[p] \in {"check", "close"}
          \/ pc[p] = "kbd" /\ quit' = quit
      BY <1>0, <2>3 DEF Receive, NoLine, Line, ExitLine, Goto, Again, chatVars
    <3> QED
      BY <1>2, <2>0, <3>1, <3>2 DEF Loop, Leaving
  <2>4. CASE Send(p) \/ SendExit(p)
    <3>1. burst'[p] = burst[p] + 1 /\ pc[p] \in {"send", "send_exit"}
      BY <1>0, <2>4 DEF Send, SendExit, PutExit
    <3>2. pc'[p] = "close" \/ (pc'[p] = "check" /\ ~quit[p])
      BY <1>0, <2>4 DEF Send, SendExit, Goto, Again
    <3> QED
      BY <1>2, <2>0, <3>1, <3>2 DEF Loop, Leaving
  <2>5. CASE Close(p) \/ Close2(p) \/ Finish(p) \/ Interrupt(p)
    <3>1. burst' = burst /\ pc[p] \in Loop \cup Opening \cup Leaving
      BY <2>5 DEF Close, Close2, Finish, Interrupt, Cleanup1, Cleanup2, chatVars, Leaving
    <3>2. pc'[p] \in Leaving \cup {"ended", "h_close", "h_send"}
      BY <1>0, <2>5 DEF Close, Close2, Finish, Interrupt, Cleanup1, Cleanup2, Goto, Leaving
    <3> QED
      BY <1>2, <2>0, <3>1, <3>2 DEF Loop, Leaving
  <2>6. CASE HandlerSend(p) \/ HandlerClose(p) \/ HandlerClose2(p)
    <3>1. pc'[p] \in {"h_close", "h_close2", "ended"}
      BY <1>0, <2>6 DEF HandlerSend, HandlerClose, HandlerClose2, Cleanup1, Cleanup2, Goto
    <3> QED
      BY <1>2, <3>1 DEF Loop, Leaving
  <2> QED
    BY <2>1, <2>2, <2>3, <2>4, <2>5, <2>6 DEF Act, Step
<1> QED
  BY <1>1, <1>2

-----------------------------------------------------------------------------
\* Balanced, seen from one of the two processes.
BalancedFor(p) ==
    /\ out[p] # None /\ out[Other(p)] # None
    /\ in[p] = out[Other(p)] /\ in[Other(p)] = out[p]
    => Size(out[p]) <= burst[p] \/ Size(in[p]) <= burst[Other(p)]

\* It does not matter from which.
LEMMA BalancedEitherWay ==
    ASSUME NEW p \in Peers
    PROVE  Balanced <=> BalancedFor(p)
BY DEF Balanced, BalancedFor, Linked, Peers, Other

\* Whichever process saw its queue empty last, a step keeps the account.
LEMMA BalancedStep ==
    ASSUME TypeOK, OpeningIsFresh, NamesMatchRole, EndsMatchRole, QuietBeforeJoin, Balanced,
           NEW p \in Peers, Act(p)
    PROVE  BalancedFor(p)'
<1> DEFINE o        == Other(p)
           After(q) == exits'[q] + Len(lines'[q])
<1>0. /\ o \in Peers /\ o # p /\ <<o, 1>> \in Queues
      /\ pc \in [Peers -> Labels] /\ burst \in [Peers -> Nat] /\ burst' \in [Peers -> Nat]
      /\ out \in [Peers -> Queues \cup {None}] /\ in \in [Peers -> Queues \cup {None}]
      /\ out'[o] = out[o] /\ in'[o] = in[o] /\ burst'[o] = burst[o]
      /\ \A q \in Queues : Size(q) \in Nat /\ Size(q)' \in Nat
  <2>1. o \in Peers /\ o # p /\ <<o, 1>> \in Queues
    BY TwoPeers
  <2>2. out'[o] = out[o] /\ in'[o] = in[o] /\ burst'[o] = burst[o]
    BY <2>1, OtherKeeps
  <2>3. burst' \in [Peers -> Nat]
    BY ChatTypeStep DEF TypeOK
  <2> QED
    BY <2>1, <2>2, <2>3, Traffic DEF TypeOK
<1> SUFFICES ASSUME out'[p] # None, out[o] # None, in'[p] = out[o], in[o] = out'[p]
             PROVE  After(out'[p]) <= burst'[p] \/ After(in'[p]) <= burst[o]
  BY <1>0 DEF BalancedFor, Size
<1>b. \A q \in Queues : Size(q)' = After(q)
  BY DEF Size
<1>a. out'[p] = out[p] /\ in'[p] = in[p] =>
        /\ out[p] \in Queues /\ in[p] \in Queues
        /\ Size(out[p]) <= burst[p] \/ Size(in[p]) <= burst[o]
  BY <1>0, BalancedEitherWay DEF BalancedFor
<1>1. CASE Join2(p)
  <2>1. out'[p] = <<o, 1>> /\ exits' = exits /\ lines' = lines /\ pc[p] \in Opening
    BY <1>0, <1>1 DEF Join2, OpeningIsFresh, messages, Opening
  <2>2. Size(<<o, 1>>) = 0
    BY <1>0, <2>1, TwoPeers DEF QuietBeforeJoin
  <2>3. After(out'[p]) = 0
    BY <2>1, <2>2 DEF Size
  <2> QED
    BY <1>0, <2>3
<1>2. CASE Make2(p)
  <2>1. in'[p] = <<p, 1>> /\ pc[p] \in Opening
    BY <1>0, <1>2 DEF Make2, OpeningIsFresh, Opening
  <2>2. out[o] # <<p, 1>>
    <3>1. CASE creator[o]
      <4>1. ASSUME NEW x, NEW y, NEW i, NEW j, <<x, i>> = <<y, j>> PROVE x = y /\ i = j
        BY <4>1
      <4> QED
        BY <1>0, <3>1, <4>1 DEF EndsMatchRole
    <3>2. CASE ~creator[o]
      BY <1>0, <2>1, <3>2, TwoPeers DEF EndsMatchRole
    <3> QED
      BY <3>1, <3>2
  <2> QED
    BY <2>1, <2>2
<1>3. CASE Open1(p) \/ SetCreator(p) \/ Join1(p)
  BY <1>3 DEF Open1, SetCreator, Join1, OpeningIsFresh, Opening
<1>4. CASE Close(p) \/ HandlerClose(p)
  <2>1. out'[p] = out[p] /\ in'[p] = in[p]
    BY <1>0, <1>4 DEF Close, HandlerClose, Cleanup1
  <2>2. exits' = exits /\ lines' = lines /\ burst' = burst
    BY <1>4 DEF Close, HandlerClose, Cleanup1, messages, chatVars
  <2> QED
    BY <1>a, <2>1, <2>2 DEF Size
<1>5. CASE Check(p)
  <2>1. /\ out' = out /\ in' = in /\ exits' = exits /\ lines' = lines
        /\ burst'[p] = IF Size(in[p]) = 0 THEN 0 ELSE burst[p]
    BY <1>0, <1>5 DEF Check, messages, ends
  <2>2. After(out'[p]) = Size(out[p]) /\ After(in'[p]) = Size(in[p])
    BY <2>1 DEF Size
  <2> QED
    BY <1>0, <1>a, <2>1, <2>2
<1>6. CASE ~(\/ Make2(p) \/ Join2(p) \/ Open1(p) \/ SetCreator(p) \/ Join1(p)
             \/ Close(p) \/ HandlerClose(p) \/ Check(p))
  <2>1. out' = out /\ in' = in
    BY <1>6 DEF Act, Step, ends, Receive, NoLine, Line, ExitLine, Interrupt,
       Send, SendExit, PutExit, Close2, Finish, HandlerSend, HandlerClose2, Cleanup2
  <2>2. burst' = burst \/ (Send(p) \/ SendExit(p) \/ HandlerSend(p))
    BY <1>6 DEF Act, Step, chatVars, Receive, NoLine, Line, ExitLine, Interrupt,
       Close2, Finish, HandlerClose2, Cleanup2
  <2>3. (Send(p) \/ SendExit(p) \/ HandlerSend(p)) => burst'[p] = burst[p] + 1
    BY <1>0 DEF Send, SendExit, HandlerSend, PutExit
  <2>4. /\ \/ After(out[p]) <= Size(out[p])
           \/ After(out[p]) = Size(out[p]) + 1 /\ burst'[p] = burst[p] + 1
        /\ After(in[p]) <= Size(in[p])
    BY <1>0, <1>a, <1>b, <2>1, Traffic
  <2>5. burst'[p] >= burst[p] /\ burst[p] \in Nat /\ burst'[p] \in Nat /\ burst[o] \in Nat
    BY <1>0, <2>2, <2>3
  <2>6. /\ Size(out[p]) \in Nat /\ Size(in[p]) \in Nat /\ After(out[p]) \in Nat /\ After(in[p]) \in Nat
        /\ out'[p] = out[p] /\ in'[p] = in[p]
    BY <1>0, <1>a, <1>b, <2>1
  <2> QED
    BY <1>a, <2>1, <2>4, <2>5, <2>6
<1> QED
  BY <1>1, <1>2, <1>3, <1>4, <1>5, <1>6

-----------------------------------------------------------------------------
\* The inductive invariant holds before the first mq_open.
LEMMA ChatInit == Init => ChatInv
<1> SUFFICES ASSUME Init PROVE ChatInv
  OBVIOUS
<1>0. Alice # Bob /\ None \notin Peers /\ {1, 2} # {}
  BY ChatAssumption DEF Peers
<1>1. TypeOK
  <2>1. <<>> \in Seq(Nat)
    BY EmptySeq
  <2> QED
    BY <1>0, <2>1 DEF Init, TypeOK, Labels, Opening
<1>2. OpeningIsFresh
  BY DEF Init, OpeningIsFresh
<1>3. EndsMatchRole
  BY DEF Init, EndsMatchRole, Loop
<1>4. NamesMatchRole
  BY <1>0 DEF Init, NamesMatchRole
<1>5. OneHolder
  BY DEF Init, OneHolder, Holding
<1>6. QuietBeforeJoin
  <2>1. \A q \in Queues : Size(q) = 0
    BY EmptySeq DEF Init, Size
  <2> QED
    BY <2>1, TwoPeers DEF QuietBeforeJoin
<1>7. BurstSmall
  BY DEF Init, BurstSmall
<1>8. Balanced
  BY DEF Init, Balanced, Linked, Peers
<1> QED
  BY <1>1, <1>2, <1>3, <1>4, <1>5, <1>6, <1>7, <1>8 DEF ChatInv

\* Every step of main and of the signal handler preserves it.
LEMMA ChatNext == ChatInv /\ [Next]_vars => ChatInv'
<1> SUFFICES ASSUME ChatInv, [Next]_vars PROVE ChatInv'
  OBVIOUS
<1>1. ASSUME NEW p \in Peers, Act(p) PROVE ChatInv'
  <2>1. TypeOK' /\ OpeningIsFresh' /\ NamesMatchRole' /\ EndsMatchRole'
    BY <1>1, ChatTypeStep, OpeningIsFreshStep, NamesMatchRoleStep, EndsMatchRoleStep DEF ChatInv
  <2>2. OneHolder' /\ QuietBeforeJoin' /\ BurstSmall'
    BY <1>1, OneHolderStep, QuietBeforeJoinStep, BurstSmallStep DEF ChatInv
  <2>3. Balanced'
    <3>1. BalancedFor(p)'
      BY <1>1, BalancedStep DEF ChatInv
    <3> QED
      BY <1>1, <3>1 DEF Balanced, BalancedFor, Linked, Peers, Other
  <2> QED
    BY <2>1, <2>2, <2>3 DEF ChatInv
<1>2. CASE UNCHANGED vars
  <2>1. TypeOK' /\ OpeningIsFresh' /\ NamesMatchRole' /\ EndsMatchRole'
    BY <1>2 DEF ChatInv, vars, TypeOK, OpeningIsFresh, NamesMatchRole, EndsMatchRole
  <2>2. OneHolder' /\ QuietBeforeJoin' /\ BurstSmall'
    BY <1>2 DEF ChatInv, vars, OneHolder, Holding, QuietBeforeJoin, Size, BurstSmall
  <2>3. Balanced'
    BY <1>2 DEF ChatInv, vars, Balanced, Linked, Size
  <2> QED
    BY <2>1, <2>2, <2>3 DEF ChatInv
<1> QED
  BY <1>1, <1>2 DEF Next, Act

\* Every variable of the two processes and the queues keeps its type.
THEOREM ChatTypeCorrect == Spec => []TypeOK
<1>1. ChatInv => TypeOK
  BY DEF ChatInv
<1> QED
  BY <1>1, ChatInit, ChatNext, PTL DEF Spec

\* Two processes that chat hold the two ends of the same two queues.
LEMMA InvPairs == ChatInv => Paired
<1> SUFFICES ASSUME ChatInv, Connected(Alice), Connected(Bob)
             PROVE  in[Alice] = out[Bob] /\ in[Bob] = out[Alice]
  BY DEF Paired
<1>0. Alice \in Peers /\ Bob \in Peers /\ Other(Alice) = Bob /\ Other(Bob) = Alice
  BY ChatAssumption DEF Peers, Other
<1>1. out[Alice] # None /\ out[Bob] # None
  BY <1>0 DEF ChatInv, EndsMatchRole, Connected
<1>2. creator[Alice] \in BOOLEAN /\ creator[Bob] \in BOOLEAN
  BY <1>0 DEF ChatInv, TypeOK
<1>3. ~(creator[Alice] /\ creator[Bob])
  BY <1>0 DEF ChatInv, OneHolder, Holding, Connected
<1>4. ~creator[Alice] => creator[Bob]
  BY <1>0, <1>1 DEF ChatInv, EndsMatchRole
<1>5. ASSUME NEW p \in Peers, NEW q \in Peers, q = Other(p), p = Other(q),
             creator[p], ~creator[q], out[p] # None, out[q] # None
      PROVE  in[p] = out[q] /\ in[q] = out[p]
  <2>1. in[p] = <<p, 1>> /\ \E x \in Peers : out[p] = <<x, 2>> /\ creator[x]
    BY <1>5 DEF ChatInv, EndsMatchRole
  <2>2. out[q] = <<p, 1>> /\ in[q] = <<p, 2>>
    BY <1>5 DEF ChatInv, EndsMatchRole
  <2>3. out[p] = <<p, 2>>
    BY <1>5, <2>1, TwoPeers
  <2> QED
    BY <2>1, <2>2, <2>3
<1> QED
  BY <1>0, <1>1, <1>2, <1>3, <1>4, <1>5

\* Two connected processes read what the other one sends, however their calls of
\* mq_open and mq_unlink interleave (init_queues, cleanup_queues, SIGINT).
THEOREM ChatPaired == Spec => []Paired
BY InvPairs, ChatInit, ChatNext, PTL DEF Spec

\* The two processes never wait in mq_send for each other (queue.c:88 and
\* queue.c:117), for every queue of three messages or more.
THEOREM ChatNoMutualBlock == Spec => []NoMutualBlock
<1>1. ASSUME ChatInv PROVE NoMutualBlock
  <2> SUFFICES ASSUME Blocked(Alice), Blocked(Bob) PROVE FALSE
    BY DEF NoMutualBlock
  <2>0. Alice \in Peers /\ Bob \in Peers
    BY DEF Peers
  <2>1. /\ pc[Alice] \in {"send", "send_exit", "h_send"} /\ Size(out[Alice]) >= Cap
        /\ pc[Bob] \in {"send", "send_exit", "h_send"} /\ Size(out[Bob]) >= Cap
    BY DEF Blocked
  <2>2. Connected(Alice) /\ Connected(Bob)
    BY <2>1 DEF Connected, Loop
  <2>3. Linked
    BY <1>1, <2>0, <2>2, InvPairs DEF Paired, Linked, ChatInv, EndsMatchRole, Connected
  <2>4. burst[Alice] \in Nat /\ burst[Alice] <= 2 /\ burst[Bob] \in Nat /\ burst[Bob] <= 2
    BY <1>1, <2>0, <2>1 DEF ChatInv, TypeOK, BurstSmall, Loop
  <2>5. Size(out[Alice]) \in Nat /\ Size(out[Bob]) \in Nat
    <3>1. out[Alice] \in Queues /\ out[Bob] \in Queues
      BY <1>1, <2>0, <2>3 DEF Linked, ChatInv, TypeOK
    <3>2. \A q \in Queues : lines[q] \in Seq(Nat) /\ exits[q] \in Nat
      BY <1>1 DEF ChatInv, TypeOK
    <3>3. \A q \in Queues : Len(lines[q]) \in Nat
      BY <3>2, LenProperties
    <3> QED
      BY <3>1, <3>2, <3>3 DEF Size
  <2>6. Size(out[Alice]) <= burst[Alice] \/ Size(out[Bob]) <= burst[Bob]
    BY <1>1, <2>3 DEF ChatInv, Balanced, Linked
  <2> QED
    BY <2>1, <2>4, <2>5, <2>6, ChatAssumption
<1> QED
  BY <1>1, ChatInit, ChatNext, PTL DEF Spec

-----------------------------------------------------------------------------
(* The lines of text: what a process has printed, what is still in the      *)
(* queue it reads, and what its peer has typed are one numbered sequence.   *)

\* The queue a process reads or will read, by its role.
Source(p) == IF creator[p] THEN <<p, 1>> ELSE <<Other(p), 2>>

\* The lines that have reached p or the queue it reads.
Arrived(p) == Len(shown[p]) + Len(lines[Source(p)])

\* The lines of p that mq_send has accepted.
Sent(p) == IF pc[p] = "send" THEN typed[p] - 1 ELSE typed[p]

\* The queue goes on where the printed lines stop, and holds all that was sent
\* while the sender is in its loop.
Flow(p) ==
    /\ \A i \in 1 .. Len(shown[p]) : shown[p][i] = i
    /\ \A i \in 1 .. Len(lines[Source(p)]) : lines[Source(p)][i] = Len(shown[p]) + i
    /\ Arrived(p) <= typed[Other(p)]
    /\ out[Other(p)] = Source(p) /\ pc[Other(p)] \in Loop => Arrived(p) = Sent(Other(p))

\* A process in init_queues has neither typed nor printed, and queue 1 is used
\* by nobody before its creator knows its role.
Unused(p) == /\ pc[p] \in Opening => typed[p] = 0 /\ shown[p] = <<>>
             /\ ~creator[p] => lines[<<p, 1>>] = <<>>

LineFlow == \A p \in Peers : Flow(p) /\ Unused(p)

LineInv == ChatInv /\ LineFlow

\* A process in its loop reads its source and never writes to it.
LEMMA ReadsSource ==
    ASSUME ChatInv, NEW p \in Peers
    PROVE  /\ Source(p) \in Queues /\ Source(p) # Source(Other(p))
           /\ pc[p] \in Loop => in[p] = Source(p) /\ out[p] \in Queues /\ out[p] # Source(p)
           /\ out[p] = <<Other(p), 1>> => creator[Other(p)] /\ pc[Other(p)] \notin Opening
           /\ out[p] # <<p, 1>>
<1>0. /\ Other(p) \in Peers /\ Other(p) # p /\ Other(Other(p)) = p
      /\ \A x \in Peers : x = p \/ x = Other(p)
      /\ \A x \in Peers : <<x, 1>> \in Queues /\ <<x, 2>> \in Queues
  BY TwoPeers
<1>1. \A x, y \in Peers : <<x, 1>> # <<y, 2>> /\ (x # y => <<x, 1>> # <<y, 1>>)
  OBVIOUS
<1>2. /\ <<p, 1>> # <<Other(p), 1>> /\ <<p, 2>> # <<Other(p), 2>>
      /\ <<p, 1>> # <<p, 2>> /\ <<Other(p), 2>> # <<Other(p), 1>> /\ <<p, 1>> # <<Other(p), 2>>
  BY <1>0
<1>3. Source(p) \in Queues /\ Source(p) # Source(Other(p))
  BY <1>0, <1>2 DEF Source
<1>4. /\ pc[p] \in Loop => out[p] # None /\ in[p] # None
      /\ out[p] # None /\ creator[p] =>
             in[p] = <<p, 1>> /\ \E x \in Peers : out[p] = <<x, 2>> /\ creator[x]
      /\ out[p] # None /\ ~creator[p] =>
             /\ out[p] = <<Other(p), 1>> /\ in[p] = <<Other(p), 2>>
             /\ creator[Other(p)] /\ pc[Other(p)] \notin Opening
  BY DEF ChatInv, EndsMatchRole
<1>5. out[p] = None \/ out[p] \in Queues
  BY DEF ChatInv, TypeOK
<1>6. None # <<p, 1>> /\ None # <<Other(p), 1>>
  BY <1>0, ChatAssumption DEF Queues, Peers
<1>7. pc[p] \in Loop => in[p] = Source(p) /\ out[p] \in Queues /\ out[p] # Source(p)
  BY <1>0, <1>1, <1>2, <1>4, <1>5 DEF Source
<1>8. out[p] = <<Other(p), 1>> => creator[Other(p)] /\ pc[Other(p)] \notin Opening
  BY <1>0, <1>1, <1>4, <1>6
<1>9. out[p] # <<p, 1>>
  BY <1>0, <1>1, <1>2, <1>4, <1>6
<1> QED
  BY <1>3, <1>7, <1>8, <1>9

\* A step that neither types, sends nor prints a line.
Silent(p) == /\ shown' = shown /\ lines' = lines /\ typed' = typed
             /\ pc'[p] \in Loop =>
                  /\ pc'[p] # "send"
                  /\ \/ pc[p] \in Loop \ {"send"} /\ out'[p] = out[p]
                     \/ pc[p] \in Opening

\* mq_receive of a line.
Reads(p) == /\ Receive(p) /\ lines[in[p]] # <<>>
            /\ lines' = [lines EXCEPT ![in[p]] = Tail(lines[in[p]])]
            /\ shown' = [shown EXCEPT ![p] = Append(shown[p], Head(lines[in[p]]))]

\* What a step does to the lines.
LEMMA LineMoves ==
    ASSUME ChatInv, NEW p \in Peers, Act(p)
    PROVE  Silent(p) \/ Line(p) \/ Send(p) \/ Reads(p)
<1>0. /\ pc \in [Peers -> Labels]
      /\ \A q \in Queues : lines[q] \in Seq(Nat) /\ exits[q] \in Nat
  BY DEF ChatInv, TypeOK
<1>1. CASE Receive(p)
  <2>0. in[p] \in Queues
    BY <1>1, ReadsSource DEF Receive, Loop
  <2>1. CASE exits[in[p]] > 0
    <3>1. lines' = lines /\ shown' = shown /\ typed' = typed /\ out' = out
      BY <1>1, <2>1 DEF Receive, ends
    <3>2. pc[p] = "recv" /\ pc'[p] = "check"
      BY <1>0, <1>1 DEF Receive, Goto
    <3> QED
      BY <3>1, <3>2 DEF Silent, Loop
  <2>2. CASE ~(exits[in[p]] > 0)
    <3>1. /\ lines' = [lines EXCEPT ![in[p]] = Tail(lines[in[p]])]
          /\ shown' = [shown EXCEPT ![p] = Append(shown[p], Head(lines[in[p]]))]
      BY <1>1, <2>2 DEF Receive
    <3>2. exits[in[p]] = 0 /\ exits[in[p]] + Len(lines[in[p]]) > 0
      BY <1>0, <1>1, <2>0, <2>2 DEF Receive, Size
    <3>3. lines[in[p]] # <<>>
      BY <1>0, <2>0, <3>2, EmptySeq
    <3> QED
      BY <1>1, <3>1, <3>3 DEF Reads
  <2> QED
    BY <2>1, <2>2
<1>2. CASE \/ Open1(p) \/ SetCreator(p) \/ Make2(p) \/ Join1(p) \/ Join2(p)
  <2>1. shown' = shown /\ lines' = lines /\ typed' = typed /\ pc[p] \in Opening
    BY <1>2 DEF Open1, SetCreator, Make2, Join1, Join2, messages, chatVars, Opening
  <2>2. pc'[p] # "send"
    BY <1>0, <1>2 DEF Open1, SetCreator, Make2, Join1, Join2, Goto
  <2> QED
    BY <2>1, <2>2 DEF Silent
<1>3. CASE Check(p) \/ NoLine(p) \/ ExitLine(p)
  <2>1. shown' = shown /\ lines' = lines /\ typed' = typed /\ out' = out /\ pc[p] \in Loop \ {"send"}
    BY <1>3 DEF Check, NoLine, ExitLine, messages, ends, chatVars, Loop
  <2>2. pc'[p] # "send"
    BY <1>0, <1>3 DEF Check, NoLine, ExitLine, Goto, Again
  <2> QED
    BY <2>1, <2>2 DEF Silent
<1>4. CASE ~(\/ Receive(p) \/ Send(p) \/ Line(p)
             \/ Open1(p) \/ SetCreator(p) \/ Make2(p) \/ Join1(p) \/ Join2(p)
             \/ Check(p) \/ NoLine(p) \/ ExitLine(p))
  <2>1. shown' = shown /\ lines' = lines /\ typed' = typed
    BY <1>4 DEF Act, Step, SendExit, PutExit, Close, Close2, Finish, HandlerSend, HandlerClose,
       HandlerClose2, Cleanup1, Cleanup2, Interrupt, messages, ends, chatVars
  <2>2. pc'[p] \notin Loop
    BY <1>0, <1>4 DEF Act, Step, SendExit, Close, Close2, Finish, HandlerSend, HandlerClose,
       HandlerClose2, Cleanup1, Cleanup2, Interrupt, Goto, Loop
  <2> QED
    BY <2>1, <2>2 DEF Silent
<1> QED
  BY <1>1, <1>2, <1>3, <1>4

\* The types the argument about lines uses, before and after a step.
LEMMA LineTypes ==
    ASSUME ChatInv, NEW p \in Peers, Act(p)
    PROVE  /\ \A q \in Queues : lines[q] \in Seq(Nat) /\ Len(lines[q]) \in Nat
           /\ \A x \in Peers : /\ shown[x] \in Seq(Nat) /\ Len(shown[x]) \in Nat
                               /\ typed[x] \in Nat
           /\ lines \in [Queues -> Seq(Nat)] /\ shown \in [Peers -> Seq(Nat)]
           /\ typed \in [Peers -> Nat] /\ pc \in [Peers -> Labels]
<1>1. /\ lines \in [Queues -> Seq(Nat)] /\ shown \in [Peers -> Seq(Nat)]
      /\ typed \in [Peers -> Nat] /\ pc \in [Peers -> Labels]
  BY DEF ChatInv, TypeOK
<1> QED
  BY <1>1, LenProperties

\* Whatever p does, the lines p reads stay in order.
LEMMA OwnFlowStep ==
    ASSUME LineInv, NEW p \in Peers, Act(p)
    PROVE  Flow(p)'
<1> DEFINE o == Other(p)
           q == Source(p)
           s == shown[p]
           l == lines[q]
<1>0. /\ o \in Peers /\ o # p /\ Other(o) = p /\ ChatInv
      /\ pc'[o] = pc[o] /\ out'[o] = out[o] /\ creator'[o] = creator[o]
      /\ q \in Queues
  <2>1. o \in Peers /\ o # p /\ Other(o) = p /\ ChatInv
    BY TwoPeers DEF LineInv
  <2> QED
    BY <2>1, OtherKeeps, ReadsSource DEF ChatInv
<1>t. /\ \A y \in Queues : lines[y] \in Seq(Nat) /\ Len(lines[y]) \in Nat
      /\ \A x \in Peers : shown[x] \in Seq(Nat) /\ Len(shown[x]) \in Nat /\ typed[x] \in Nat
      /\ lines \in [Queues -> Seq(Nat)] /\ shown \in [Peers -> Seq(Nat)]
      /\ typed \in [Peers -> Nat] /\ pc \in [Peers -> Labels]
  BY <1>0, LineTypes
<1>f. /\ \A i \in 1 .. Len(s) : s[i] = i
      /\ \A i \in 1 .. Len(l) : l[i] = Len(s) + i
      /\ Len(s) + Len(l) <= typed[o]
      /\ out[o] = q /\ pc[o] \in Loop => Len(s) + Len(l) = Sent(o)
      /\ Unused(p)
  BY DEF LineInv, LineFlow, Flow, Arrived
<1>1. CASE SetCreator(p)
  <2>1. /\ pc[p] = "made1" /\ creator'[p] /\ shown' = shown /\ lines' = lines /\ typed' = typed
    BY <1>0, <1>1 DEF SetCreator, messages, chatVars, ChatInv, TypeOK
  <2>2. shown[p] = <<>> /\ lines[<<p, 1>>] = <<>> /\ ~creator[p]
    <3>1. ~creator[p]
      BY <1>0, <2>1 DEF ChatInv, OpeningIsFresh
    <3> QED
      BY <1>f, <2>1, <3>1 DEF Unused, Opening
  <2>3. Source(p)' = <<p, 1>> /\ Len(shown'[p]) = 0 /\ Len(lines'[<<p, 1>>]) = 0
    BY <2>1, <2>2, EmptySeq DEF Source
  <2>4. out[o] # <<p, 1>>
    BY <1>0, <2>2, ReadsSource
  <2> QED
    BY <1>0, <1>t, <2>1, <2>3, <2>4 DEF Flow, Arrived
<1>2. CASE ~SetCreator(p)
  <2>1. creator' = creator
    BY <1>2 DEF Act, Step, ends, Open1, Make2, Join1, Join2, Check, Receive, NoLine,
       Line, ExitLine, Send, SendExit, PutExit, Close, Close2, Finish, HandlerSend, HandlerClose,
       HandlerClose2, Cleanup1, Cleanup2, Interrupt
  <2>2. Source(p)' = q
    BY <2>1 DEF Source
  <2>3. ASSUME lines'[q] = lines[q], shown' = shown, typed'[o] = typed[o] PROVE Flow(p)'
    <3>1. /\ \A i \in 1 .. Len(shown'[p]) : shown'[p][i] = i
          /\ \A i \in 1 .. Len(lines'[q]) : lines'[q][i] = Len(shown'[p]) + i
          /\ Len(shown'[p]) + Len(lines'[q]) <= typed'[o]
          /\ out'[o] = q /\ pc'[o] \in Loop => Len(shown'[p]) + Len(lines'[q]) = Sent(o)'
      BY <1>0, <1>f, <2>3 DEF Sent
    <3> QED
      BY <2>2, <3>1 DEF Flow, Arrived
  <2>4. CASE Silent(p)
    BY <2>3, <2>4 DEF Silent
  <2>5. CASE Line(p)
    <3>1. lines' = lines /\ shown' = shown /\ typed' = [typed EXCEPT ![p] = typed[p] + 1]
      BY <2>5 DEF Line, messages
    <3> QED
      BY <1>0, <1>t, <2>3, <3>1
  <2>6. CASE Send(p)
    <3>1. /\ lines' = [lines EXCEPT ![out[p]] = Append(lines[out[p]], typed[p])]
          /\ shown' = shown /\ typed' = typed /\ pc[p] = "send"
      BY <2>6 DEF Send
    <3>2. out[p] # q
      BY <1>0, <3>1, ReadsSource DEF Loop
    <3>3. lines'[q] = lines[q]
      BY <1>0, <1>t, <3>1, <3>2
    <3> QED
      BY <2>3, <3>1, <3>3
  <2>7. CASE Reads(p)
    <3>1. in[p] = q /\ l # <<>> /\ typed' = typed
      BY <1>0, <2>7, ReadsSource DEF Reads, Receive, Loop
    <3>2. lines'[q] = Tail(l) /\ shown'[p] = Append(s, Head(l))
      BY <1>0, <1>t, <2>7, <3>1 DEF Reads
    <3>3. /\ l \in Seq(Nat) /\ s \in Seq(Nat) /\ Head(l) = l[1] /\ Head(l) \in Nat
          /\ Len(l) \in Nat /\ Len(l) >= 1
          /\ Len(Tail(l)) = Len(l) - 1 /\ \A i \in 1 .. Len(l) - 1 : Tail(l)[i] = l[i + 1]
      <4>1. l \in Seq(Nat) /\ s \in Seq(Nat) /\ Len(l) \in Nat
        BY <1>0, <1>t
      <4> QED
        BY <3>1, <4>1, HeadTailProperties, EmptySeq
    <3>4. /\ Len(Append(s, Head(l))) = Len(s) + 1
          /\ \A i \in 1 .. Len(s) : Append(s, Head(l))[i] = s[i]
          /\ Append(s, Head(l))[Len(s) + 1] = Head(l)
      BY <3>3, AppendProperties
    <3>5. Head(l) = Len(s) + 1 /\ Len(s) \in Nat
      BY <1>t, <1>f, <3>3
    <3>6. \A i \in 1 .. Len(s) + 1 : Append(s, Head(l))[i] = i
      <4> SUFFICES ASSUME NEW i \in 1 .. Len(s) + 1 PROVE Append(s, Head(l))[i] = i
        OBVIOUS
      <4>1. CASE i \in 1 .. Len(s)
        BY <1>f, <3>4, <4>1
      <4>2. CASE i = Len(s) + 1
        BY <3>4, <3>5, <4>2
      <4> QED
        BY <3>5, <4>1, <4>2
    <3>7. \A i \in 1 .. Len(l) - 1 : Tail(l)[i] = Len(s) + 1 + i
      <4> SUFFICES ASSUME NEW i \in 1 .. Len(l) - 1 PROVE Tail(l)[i] = Len(s) + 1 + i
        OBVIOUS
      <4>1. i + 1 \in 1 .. Len(l) /\ Tail(l)[i] = l[i + 1]
        BY <3>3
      <4>2. l[i + 1] = Len(s) + (i + 1)
        BY <1>f, <4>1
      <4> HIDE DEF s, l
      <4> QED
        BY <3>5, <4>1, <4>2
    <3>8. Len(shown'[p]) = Len(s) + 1 /\ Len(lines'[q]) = Len(l) - 1
      BY <3>2, <3>3, <3>4
    <3>9. Len(shown'[p]) + Len(lines'[q]) = Len(s) + Len(l)
      <4> HIDE DEF s, l
      <4> QED
        BY <3>3, <3>5, <3>8
    <3>10. /\ \A i \in 1 .. Len(shown'[p]) : shown'[p][i] = i
           /\ \A i \in 1 .. Len(lines'[q]) : lines'[q][i] = Len(shown'[p]) + i
      BY <3>2, <3>6, <3>7, <3>8
    <3>11. Sent(o)' = Sent(o)
      BY <1>0, <3>1 DEF Sent
    <3> QED
      BY <1>0, <1>f, <2>2, <3>1, <3>9, <3>10, <3>11 DEF Flow, Arrived
  <2> QED
    BY <1>0, <2>4, <2>5, <2>6, <2>7, LineMoves
<1> QED
  BY <1>1, <1>2

\* Whatever p does, the lines its peer reads stay in order.
LEMMA PeerFlowStep ==
    ASSUME LineInv, NEW p \in Peers, Act(p)
    PROVE  Flow(Other(p))'
<1> DEFINE o == Other(p)
           q == Source(o)
           l == lines[q]
           n == Len(shown[o])
<1>0. /\ o \in Peers /\ o # p /\ Other(o) = p /\ ChatInv
      /\ pc'[o] = pc[o] /\ out'[o] = out[o] /\ creator'[o] = creator[o]
      /\ q \in Queues /\ q # Source(p)
  <2>1. o \in Peers /\ o # p /\ Other(o) = p /\ ChatInv
    BY TwoPeers DEF LineInv
  <2> QED
    BY <2>1, OtherKeeps, ReadsSource DEF ChatInv
<1>t. /\ \A y \in Queues : lines[y] \in Seq(Nat) /\ Len(lines[y]) \in Nat
      /\ \A x \in Peers : shown[x] \in Seq(Nat) /\ Len(shown[x]) \in Nat /\ typed[x] \in Nat
      /\ lines \in [Queues -> Seq(Nat)] /\ shown \in [Peers -> Seq(Nat)]
      /\ typed \in [Peers -> Nat] /\ pc \in [Peers -> Labels]
  BY <1>0, LineTypes
<1>f. /\ \A i \in 1 .. n : shown[o][i] = i
      /\ \A i \in 1 .. Len(l) : l[i] = n + i
      /\ n + Len(l) <= typed[p]
      /\ out[p] = q /\ pc[p] \in Loop => n + Len(l) = Sent(p)
      /\ pc[p] \in Opening => typed[p] = 0
      /\ n \in Nat /\ Len(l) \in Nat /\ typed[p] \in Nat /\ l \in Seq(Nat)
  BY <1>0, <1>t DEF LineInv, LineFlow, Flow, Arrived, Unused
<1>1. Source(o)' = q
  BY <1>0 DEF Source
<1>2. ASSUME shown'[o] = shown[o], \A i \in 1 .. Len(lines'[q]) : lines'[q][i] = n + i,
             n + Len(lines'[q]) <= typed'[p],
             out'[p] = q /\ pc'[p] \in Loop => n + Len(lines'[q]) = Sent(p)'
      PROVE  Flow(o)'
  BY <1>0, <1>f, <1>1, <1>2 DEF Flow, Arrived
<1>3. CASE Silent(p)
  <2>1. shown' = shown /\ lines' = lines /\ typed' = typed
    BY <1>3 DEF Silent
  <2>2. ASSUME out'[p] = q, pc'[p] \in Loop PROVE n + Len(l) = Sent(p)'
    <3> HIDE DEF l, n
    <3>1. Sent(p)' = typed[p]
      BY <1>3, <2>1, <2>2 DEF Silent, Sent
    <3>2. CASE pc[p] \in Loop \ {"send"} /\ out'[p] = out[p]
      BY <1>f, <2>2, <3>1, <3>2 DEF Sent
    <3>3. CASE pc[p] \in Opening
      BY <1>f, <3>1, <3>3
    <3> QED
      BY <1>3, <2>2, <3>2, <3>3 DEF Silent
  <2> QED
    BY <1>f, <1>2, <2>1, <2>2
<1>4. CASE Line(p)
  <2>1. /\ lines' = lines /\ shown' = shown /\ out' = out /\ pc[p] = "kbd"
        /\ typed'[p] = typed[p] + 1 /\ pc'[p] = "send"
    BY <1>t, <1>4 DEF Line, messages, ends, Goto
  <2>2. Sent(p)' = typed[p] /\ Sent(p) = typed[p]
    BY <1>f, <2>1 DEF Sent
  <2>3. n + Len(l) <= typed'[p]
    <3> HIDE DEF l, n
    <3> QED
      BY <1>f, <2>1
  <2> QED
    BY <1>f, <1>2, <2>1, <2>2, <2>3 DEF Loop
<1>5. CASE Send(p)
  <2>1. /\ lines' = [lines EXCEPT ![out[p]] = Append(lines[out[p]], typed[p])]
        /\ shown' = shown /\ typed' = typed /\ out' = out /\ pc[p] = "send"
        /\ pc'[p] # "send"
    BY <1>t, <1>5 DEF Send, ends, Goto, Again
  <2>2. CASE out[p] = q
    <3>1. lines'[q] = Append(l, typed[p])
      BY <1>0, <1>t, <2>1, <2>2
    <3>2. /\ Len(Append(l, typed[p])) = Len(l) + 1
          /\ \A i \in 1 .. Len(l) : Append(l, typed[p])[i] = l[i]
          /\ Append(l, typed[p])[Len(l) + 1] = typed[p]
      BY <1>f, AppendProperties
    <3>3. n + Len(l) = typed[p] - 1
      BY <1>f, <2>1, <2>2 DEF Sent, Loop
    <3>4. \A i \in 1 .. Len(l) + 1 : Append(l, typed[p])[i] = n + i
      <4> SUFFICES ASSUME NEW i \in 1 .. Len(l) + 1 PROVE Append(l, typed[p])[i] = n + i
        OBVIOUS
      <4> HIDE DEF l, n
      <4>1. CASE i \in 1 .. Len(l)
        BY <1>f, <3>2, <4>1
      <4>2. CASE i = Len(l) + 1
        BY <1>f, <3>2, <3>3, <4>2
      <4> QED
        BY <1>f, <4>1, <4>2
    <3>5. n + Len(lines'[q]) = typed[p] /\ Len(lines'[q]) = Len(l) + 1
      <4>1. Len(lines'[q]) = Len(l) + 1
        BY <3>1, <3>2
      <4> HIDE DEF l, n, q
      <4> QED
        BY <1>f, <3>3, <4>1
    <3>6. Sent(p)' = typed[p]
      BY <2>1 DEF Sent
    <3>7. \A i \in 1 .. Len(lines'[q]) : lines'[q][i] = n + i
      BY <3>1, <3>4, <3>5
    <3>8. typed[p] <= typed'[p]
      BY <1>f, <2>1
    <3> QED
      BY <1>2, <2>1, <3>5, <3>6, <3>7, <3>8
  <2>3. CASE out[p] # q
    <3>1. lines'[q] = l
      BY <1>0, <1>t, <2>1, <2>3
    <3> QED
      BY <1>f, <1>2, <2>1, <2>3, <3>1
  <2> QED
    BY <2>2, <2>3
<1>6. CASE Reads(p)
  <2>1. in[p] = Source(p) /\ typed' = typed /\ out' = out /\ pc[p] = "recv" /\ pc'[p] = "check"
    BY <1>0, <1>t, <1>6, ReadsSource DEF Reads, Receive, Loop, ends, Goto
  <2>2. lines'[q] = l /\ shown'[o] = shown[o]
    BY <1>0, <1>t, <1>6, <2>1 DEF Reads
  <2>3. Sent(p)' = Sent(p)
    BY <2>1 DEF Sent
  <2> QED
    BY <1>f, <1>2, <2>1, <2>2, <2>3 DEF Loop
<1> QED
  BY <1>0, <1>3, <1>4, <1>5, <1>6, LineMoves

\* A process types and prints only after init_queues, and only a joiner of p
\* writes to queue 1 of p.
LEMMA UnusedStep ==
    ASSUME LineInv, NEW p \in Peers, Act(p), NEW x \in Peers
    PROVE  Unused(x)'
<1>0. /\ ChatInv /\ Unused(x) /\ Other(p) \in Peers /\ Other(p) # p /\ Other(Other(p)) = p
      /\ x = p \/ x = Other(p)
      /\ <<x, 1>> \in Queues
  BY TwoPeers DEF LineInv, LineFlow
<1>t. /\ lines \in [Queues -> Seq(Nat)] /\ shown \in [Peers -> Seq(Nat)]
      /\ typed \in [Peers -> Nat] /\ pc \in [Peers -> Labels]
  BY <1>0, LineTypes
<1>1. /\ pc'[x] \in Opening => pc[x] \in Opening
      /\ creator[x] => creator'[x]
      /\ x # p => pc'[x] = pc[x] /\ creator'[x] = creator[x]
  BY <1>0, OtherKeeps, OpeningStep DEF ChatInv
<1>2. ASSUME pc'[x] \in Opening PROVE typed'[x] = typed[x] /\ shown'[x] = shown[x]
  <2>1. CASE Silent(p)
    BY <2>1 DEF Silent
  <2>2. CASE Line(p) \/ Send(p) \/ Reads(p)
    <3>1. pc'[p] \notin Opening
      BY <1>t, <2>2 DEF Line, Send, Reads, Receive, Goto, Again, Opening
    <3>2. x # p
      BY <1>2, <3>1
    <3> QED
      BY <1>0, <1>t, <2>2, <3>2 DEF Line, Send, Reads, Receive
  <2> QED
    BY <1>0, <2>1, <2>2, LineMoves
<1>3. ASSUME ~creator'[x] PROVE lines'[<<x, 1>>] = lines[<<x, 1>>]
  <2>0. ~creator[x]
    BY <1>1, <1>3
  <2>1. CASE Silent(p)
    BY <2>1 DEF Silent
  <2>2. CASE Line(p)
    BY <2>2 DEF Line, messages
  <2>3. CASE Send(p)
    <3>1. out[p] # <<x, 1>>
      BY <1>0, <2>0, ReadsSource
    <3> QED
      BY <1>0, <1>t, <2>3, <3>1 DEF Send
  <2>4. CASE Reads(p)
    <3>1. in[p] = Source(p)
      BY <1>0, <2>4, ReadsSource DEF Reads, Receive, Loop
    <3>2. Source(p) # <<x, 1>>
      BY <1>0, <2>0 DEF Source
    <3> QED
      BY <1>0, <1>t, <2>4, <3>1, <3>2 DEF Reads
  <2> QED
    BY <1>0, <2>1, <2>2, <2>3, <2>4, LineMoves
<1> QED
  BY <1>0, <1>1, <1>2, <1>3 DEF Unused

\* The lines are in order before the first mq_open.
LEMMA LineInit == Init => LineInv
<1> SUFFICES ASSUME Init PROVE LineInv
  OBVIOUS
<1>1. ChatInv
  BY ChatInit
<1>2. ASSUME NEW p \in Peers PROVE Flow(p) /\ Unused(p)
  <2>1. Other(p) \in Peers /\ Source(p) \in Queues /\ <<p, 1>> \in Queues
    BY <1>1, TwoPeers, ReadsSource
  <2>2. /\ shown[p] = <<>> /\ lines[Source(p)] = <<>> /\ lines[<<p, 1>>] = <<>>
        /\ typed[p] = 0 /\ typed[Other(p)] = 0 /\ pc[Other(p)] = "start"
    BY <2>1 DEF Init
  <2>3. Len(shown[p]) = 0 /\ Len(lines[Source(p)]) = 0
    BY <2>2, EmptySeq
  <2> QED
    BY <2>2, <2>3 DEF Flow, Unused, Arrived, Loop
<1> QED
  BY <1>1, <1>2 DEF LineInv, LineFlow

\* Every step of either process keeps them so.
LEMMA LineNext == LineInv /\ [Next]_vars => LineInv'
<1> SUFFICES ASSUME LineInv, [Next]_vars PROVE LineInv'
  OBVIOUS
<1>1. ChatInv'
  BY ChatNext DEF LineInv
<1>2. ASSUME NEW p \in Peers, Act(p) PROVE LineFlow'
  <2>1. Flow(p)' /\ Flow(Other(p))'
    BY <1>2, OwnFlowStep, PeerFlowStep
  <2>2. \A x \in Peers : Unused(x)'
    BY <1>2, UnusedStep
  <2>3. \A x \in Peers : x = p \/ x = Other(p)
    BY <1>2, TwoPeers
  <2> QED
    BY <2>1, <2>2, <2>3 DEF LineFlow
<1>3. CASE UNCHANGED vars
  <2>1. ASSUME NEW p \in Peers, Flow(p), Unused(p) PROVE Flow(p)' /\ Unused(p)'
    BY <1>3, <2>1 DEF Flow, Unused, Arrived, Sent, Source, vars
  <2>2. LineFlow'
    BY <2>1 DEF LineInv, LineFlow
  <2> QED
    BY <1>1, <2>2 DEF LineInv
<1> QED
  BY <1>1, <1>2, <1>3 DEF Next, Act, LineInv

\* A process prints the lines of its peer from the first on, none skipped, none
\* twice and none of another conversation (send_message, receive_message).
THEOREM ChatInOrder == Spec => []InOrder
<1>1. ASSUME LineInv PROVE InOrder
  <2> SUFFICES ASSUME NEW p \in Peers, NEW i \in DOMAIN shown[p] PROVE shown[p][i] = i
    BY DEF InOrder
  <2>1. shown[p] \in Seq(Nat)
    BY <1>1 DEF LineInv, ChatInv, TypeOK
  <2>2. DOMAIN shown[p] = 1 .. Len(shown[p])
    BY <2>1, LenProperties
  <2> QED
    BY <1>1, <2>2 DEF LineInv, LineFlow, Flow
<1> QED
  BY <1>1, LineInit, LineNext, PTL DEF Spec

-----------------------------------------------------------------------------
(* The names: while one stands, the creator it leads to is still on its way *)
(* to the mq_unlink that removes it.                                        *)

WillUnlink1(p) == pc[p] \in Loop \cup {"make2", "close", "h_send", "h_close"}
WillUnlink2(p) == pc[p] \in Loop \cup {"close", "close2", "h_send", "h_close", "h_close2"}

NamesAreOwned ==
    \A p \in Peers : /\ name[1] = p /\ creator[p] => WillUnlink1(p)
                     /\ name[2] = p => WillUnlink2(p)

NameInv == ChatInv /\ NamesAreOwned

\* A creator passes the mq_unlink of both names on every way out of the chat,
\* whichever step SIGINT interrupts.
LEMMA NamesAreOwnedStep ==
    ASSUME NameInv, NEW p \in Peers, Act(p)
    PROVE  NamesAreOwned'
<1>0. /\ pc \in [Peers -> Labels] /\ creator \in [Peers -> BOOLEAN]
      /\ name \in [{1, 2} -> Peers \cup {None}]
      /\ p # None /\ Other(p) # p /\ Other(p) \in Peers /\ \A x \in Peers : x = p \/ x = Other(p)
      /\ name[1] = p /\ creator[p] => WillUnlink1(p)
      /\ name[2] = p => WillUnlink2(p) /\ creator[p]
  BY TwoPeers DEF NameInv, NamesAreOwned, NamesMatchRole, ChatInv, TypeOK
<1>1. /\ name'[1] = p /\ creator'[p] => WillUnlink1(p)'
      /\ name'[2] = p => WillUnlink2(p)'
  <2>1. CASE Open1(p)
    <3>1. ~creator'[p] /\ name'[2] = name[2] /\ pc[p] = "start"
      BY <1>0, <2>1 DEF Open1, NameInv, ChatInv, OpeningIsFresh
    <3> QED
      BY <1>0, <3>1 DEF WillUnlink2, Loop
  <2>2. CASE SetCreator(p)
    BY <1>0, <2>2 DEF SetCreator, Goto, WillUnlink1, WillUnlink2, Loop
  <2>3. CASE Make2(p)
    <3>1. \/ name'[1] = name[1] /\ pc'[p] = "check"
          \/ name'[1] = None /\ name'[2] = name[2] /\ pc[p] = "make2"
      BY <1>0, <2>3 DEF Make2, Goto
    <3> QED
      BY <1>0, <3>1 DEF WillUnlink1, WillUnlink2, Loop
  <2>4. CASE Join1(p) \/ Join2(p)
    <3>1. ~creator'[p] /\ name' = name /\ pc[p] \in {"join1", "join2"}
      BY <2>4 DEF Join1, Join2, NameInv, ChatInv, OpeningIsFresh
    <3> QED
      BY <1>0, <3>1 DEF WillUnlink2, Loop
  <2>5. CASE Close(p) \/ HandlerClose(p)
    <3>1. CASE creator[p]
      <4>1. name'[1] = None /\ pc'[p] \in {"close2", "h_close2"}
        BY <1>0, <2>5, <3>1 DEF Close, HandlerClose, Cleanup1, Goto
      <4> QED
        BY <1>0, <4>1 DEF WillUnlink2
    <3>2. CASE ~creator[p]
      <4>1. name' = name /\ creator' = creator
        BY <2>5, <3>2 DEF Close, HandlerClose, Cleanup1
      <4> QED
        BY <1>0, <3>2, <4>1
    <3> QED
      BY <3>1, <3>2
  <2>6. CASE Close2(p) \/ HandlerClose2(p)
    <3>1. name'[2] = None /\ name'[1] = name[1] /\ creator' = creator /\ pc[p] \in {"close2", "h_close2"}
      BY <1>0, <2>6 DEF Close2, HandlerClose2, Cleanup2
    <3> QED
      BY <1>0, <3>1 DEF WillUnlink1, Loop
  <2>7. CASE Interrupt(p)
    <3>1. name' = name /\ creator' = creator /\ pc'[p] \in {"h_close", "h_send"}
      BY <1>0, <2>7 DEF Interrupt, ends, Goto
    <3> QED
      BY <3>1 DEF WillUnlink1, WillUnlink2
  <2>8. CASE Finish(p)
    <3>1. name' = name /\ creator' = creator /\ pc[p] = "finish"
      BY <2>8 DEF Finish, ends
    <3> QED
      BY <1>0, <3>1 DEF WillUnlink1, WillUnlink2, Loop
  <2>9. CASE \/ Check(p) \/ Receive(p) \/ NoLine(p) \/ Line(p) \/ ExitLine(p)
             \/ Send(p) \/ SendExit(p) \/ HandlerSend(p)
    <3>1. pc'[p] \in Loop \cup {"close", "h_close"}
      BY <1>0, <2>9 DEF Check, Receive, NoLine, Line, ExitLine, Send, SendExit, HandlerSend,
         Goto, Again, Loop
    <3> QED
      BY <3>1 DEF WillUnlink1, WillUnlink2
  <2> QED
    BY <2>1, <2>2, <2>3, <2>4, <2>5, <2>6, <2>7, <2>8, <2>9 DEF Act, Step
<1>2. /\ name'[1] = Other(p) => name[1] = Other(p)
      /\ name'[2] = Other(p) => name[2] = Other(p)
  <2>0. Other(p) # None /\ name \in [{1, 2} -> Peers \cup {None}]
    BY TwoPeers DEF NameInv, ChatInv, TypeOK
  <2>1. \/ name' = name \/ \E k \in {1, 2} : \E x \in {p, None} : name' = [name EXCEPT ![k] = x]
        \/ Make2(p)
    BY DEF Act, Step, ends, messages, chatVars, Open1, SetCreator, Join1,
       Join2, Check, Receive, NoLine, Line, ExitLine, Send, SendExit, PutExit, Close, Close2, Finish,
       HandlerSend, HandlerClose, HandlerClose2, Cleanup1, Cleanup2, Interrupt
  <2>2. CASE Make2(p)
    BY <1>0, <2>0, <2>2 DEF Make2
  <2>3. CASE \E k \in {1, 2} : \E x \in {p, None} : name' = [name EXCEPT ![k] = x]
    BY <1>0, <2>0, <2>3
  <2> QED
    BY <2>1, <2>2, <2>3
<1>3. pc'[Other(p)] = pc[Other(p)] /\ creator'[Other(p)] = creator[Other(p)]
  BY <1>0, OtherKeeps DEF NameInv, ChatInv
<1>4. /\ name[1] = Other(p) /\ creator[Other(p)] => WillUnlink1(Other(p))
      /\ name[2] = Other(p) => WillUnlink2(Other(p))
  BY <1>0 DEF NameInv, NamesAreOwned
<1>5. /\ name'[1] = Other(p) /\ creator'[Other(p)] => WillUnlink1(Other(p))'
      /\ name'[2] = Other(p) => WillUnlink2(Other(p))'
  BY <1>2, <1>3, <1>4 DEF WillUnlink1, WillUnlink2
<1> QED
  BY <1>0, <1>1, <1>5 DEF NamesAreOwned

\* When both processes have ended, by "exit" or by SIGINT at any step, nothing
\* is left in /dev/mqueue but what the window of queue.c:21-24 leaves.
THEOREM ChatNamesRemoved == Spec => []NamesRemoved
<1>1. Init => NameInv
  <2>1. Init => NamesAreOwned
    BY ChatAssumption DEF Init, NamesAreOwned, Peers
  <2> QED
    BY <2>1, ChatInit DEF NameInv
<1>2. NameInv /\ [Next]_vars => NameInv'
  <2>1. ASSUME NameInv, NEW p \in Peers, Act(p) PROVE NamesAreOwned'
    BY <2>1, NamesAreOwnedStep
  <2>2. ASSUME NameInv, UNCHANGED vars PROVE NamesAreOwned'
    BY <2>2 DEF NameInv, NamesAreOwned, WillUnlink1, WillUnlink2, vars
  <2>3. NameInv /\ [Next]_vars => ChatInv'
    BY ChatNext DEF NameInv
  <2> QED
    BY <2>1, <2>2, <2>3 DEF Next, Act, NameInv
<1>3. ASSUME NameInv PROVE NamesRemoved
  <2> SUFFICES ASSUME \A p \in Peers : pc[p] = "ended"
               PROVE  name[2] = None /\ (name[1] # None => ~creator[name[1]])
    BY DEF NamesRemoved
  <2>1. name \in [{1, 2} -> Peers \cup {None}]
    BY <1>3 DEF NameInv, ChatInv, TypeOK
  <2>2. \A p \in Peers : ~WillUnlink1(p) /\ ~WillUnlink2(p)
    BY DEF WillUnlink1, WillUnlink2, Loop
  <2> QED
    BY <1>3, <2>1, <2>2 DEF NameInv, NamesAreOwned
<1> QED
  BY <1>1, <1>2, <1>3, PTL DEF Spec
=============================================================================
