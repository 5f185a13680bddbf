---------------------------- MODULE PacketProofs ----------------------------
(***************************************************************************)
(* The two programs that look packets up in a table of their own: the raw  *)
(* UDP echo server of module3/cross1 and the firewall of module5/06.       *)
(*                                                                         *)
(* The slots of the echo server are a map from addresses to counters, and  *)
(* a client that is alone on a clean port sees each number at most once,   *)
(* for any number of clients, ports and slots.  The firewall's table is    *)
(* what the commands have left, and the hook that walks it beside them is  *)
(* misled by no addition, for every size of the table, every set of        *)
(* addresses and every interleaving of the stores with the walk.           *)
(***************************************************************************)
EXTENDS EchoServer, Firewall, FiniteSetTheorems, TLAPS

(***************************************************************************)
(* The echo server.                                                        *)
(***************************************************************************)
Slot == [active : BOOLEAN, addr : Nat, counter : Nat]

\* An address has one slot.
OneSlot == \A i, j \in Slots : (clients[i].active /\ clients[j].active
                                 /\ clients[i].addr = clients[j].addr) => i = j

\* A slot that is in use has the number its address has come to.
SlotCounts == \A i \in Slots : clients[i].active =>
                 clients[i].addr \in Ports /\ clients[i].counter = since[clients[i].addr] + 1

\* An address that has been answered since its last CLOSE has a slot, no other has.
CountedHasSlot == \A a \in Ports : (since[a] > 0) <=> \E i \in Slots : Holds(i, a)

EchoInv == TypeOK /\ CountsSinceClose

LEMMA Parts == CountsSinceClose <=> OneSlot /\ CountedHasSlot /\ SlotCounts
BY DEF CountsSinceClose, OneSlot, CountedHasSlot, SlotCounts

LEMMA PartsNext == CountsSinceClose' <=> OneSlot' /\ CountedHasSlot' /\ SlotCounts'
BY DEF CountsSinceClose, OneSlot, CountedHasSlot, SlotCounts

LEMMA PortsAreClients == Ports \subseteq Nat \ {PORT}
BY EchoAssumption DEF Ports

\* What can be read in a slot, and what replacing one does.
LEMMA SlotFacts ==
    ASSUME clients \in Seq(Slot)
    PROVE  /\ Slots \subseteq Nat
           /\ \A i \in Slots : clients[i] \in Slot
           /\ \A i \in Slots, s \in Slot :
                 LET new == [clients EXCEPT ![i] = s] IN
                 /\ new \in Seq(Slot) /\ DOMAIN new = Slots /\ new[i] = s
                 /\ \A j \in Slots : j # i => new[j] = clients[j]
<1>1. Slots = 1..Len(clients) /\ Len(clients) \in Nat
  BY DEF Slots
<1> QED
  BY <1>1

LEMMA InitEchoInv == Init => EchoInv
<1> SUFFICES ASSUME Init PROVE EchoInv
  OBVIOUS
<1>1. PICK m \in Sizes : clients = [i \in 1..m |-> Free]
  BY DEF Init
<1>2. m \in Nat /\ Free \in Slot /\ ~Free.active
  BY EchoAssumption DEF Free, Slot
<1>3. clients \in Seq(Slot)
  BY <1>1, <1>2
<1>4. TypeOK
  BY <1>3 DEF Init, TypeOK, Slot
<1>5. \A i \in Slots : ~clients[i].active
  BY <1>1, <1>2 DEF Slots
<1>6. CountsSinceClose
  <2>1. \A a \in Ports : since[a] = 0
    BY DEF Init
  <2> QED
    BY <1>5, <2>1 DEF CountsSinceClose, Holds
<1> QED
  BY <1>4, <1>6 DEF EchoInv

\* A step that leaves the slots and the counts alone keeps CountsSinceClose.
LEMMA SameCounts ==
    ASSUME CountsSinceClose, UNCHANGED <<clients, since>>
    PROVE  CountsSinceClose'
BY DEF CountsSinceClose, Slots, Holds

\* remove_client and the end of the count.
LEMMA CloseKeeps ==
    ASSUME EchoInv, NEW a \in Ports, RemoveClient(a), since' = [since EXCEPT ![a] = 0]
    PROVE  clients' \in Seq(Slot) /\ CountsSinceClose'
<1> USE DEF EchoInv
<1>0. clients \in Seq(Slot) /\ since \in [Ports -> Nat]
  BY DEF TypeOK, Slot
<1>1. OneSlot /\ CountedHasSlot /\ SlotCounts
  BY Parts
<1>2. since' \in [Ports -> Nat] /\ since'[a] = 0 /\ \A b \in Ports : b # a => since'[b] = since[b]
  BY <1>0
<1>3. CASE \A i \in Slots : ~Holds(i, a)
  <2>1. clients' = clients
    BY <1>3 DEF RemoveClient, FirstHolding
  <2>2. Slots' = Slots /\ \A i \in Slots : clients'[i] = clients[i]
    BY <2>1 DEF Slots
  <2>3. OneSlot'
    BY <1>1, <2>2 DEF OneSlot
  <2>4. SlotCounts'
    BY <1>1, <1>2, <1>3, <2>2 DEF SlotCounts, Holds
  <2>5. CountedHasSlot'
    BY <1>1, <1>2, <1>3, <2>2 DEF CountedHasSlot, Holds
  <2> QED
    BY <1>0, <2>1, <2>3, <2>4, <2>5, PartsNext
<1>4. ASSUME NEW i \in Slots, Holds(i, a),
             clients' = [clients EXCEPT ![i] = [active |-> FALSE, addr |-> a, counter |-> 0]]
      PROVE  clients' \in Seq(Slot) /\ CountsSinceClose'
  <2> DEFINE s == [active |-> FALSE, addr |-> a, counter |-> 0]
  <2>1. clients[i] \in Slot /\ s \in Slot
    BY <1>0, SlotFacts, PortsAreClients DEF Slot
  <2>2. clients' = [clients EXCEPT ![i] = s]
    BY <1>4
  <2>3. /\ clients' \in Seq(Slot) /\ Slots' = Slots /\ clients'[i] = s
        /\ \A j \in Slots : j # i => clients'[j] = clients[j]
    BY <1>0, <2>1, <2>2, SlotFacts DEF Slots
  <2>4. \A j \in Slots : j # i => ~Holds(j, a)
    BY <1>1, <1>4 DEF OneSlot, Holds
  <2>5. OneSlot'
    BY <1>1, <2>3 DEF OneSlot
  <2>6. SlotCounts'
    BY <1>1, <1>2, <2>3, <2>4 DEF SlotCounts, Holds
  <2>7. CountedHasSlot'
    <3> SUFFICES ASSUME NEW b \in Ports
                 PROVE  (since'[b] > 0) <=> \E j \in Slots : Holds(j, b)'
      BY <2>3 DEF CountedHasSlot
    <3>1. CASE b = a
      BY <1>2, <2>3, <2>4, <3>1 DEF Holds
    <3>2. CASE b # a
      <4>1. \A j \in Slots : Holds(j, b)' <=> Holds(j, b)
        <5> SUFFICES ASSUME NEW j \in Slots PROVE Holds(j, b)' <=> Holds(j, b)
          OBVIOUS
        <5>1. CASE j = i
          BY <1>4, <2>3, <3>2, <5>1 DEF Holds
        <5>2. CASE j # i
          BY <2>3, <5>2 DEF Holds
        <5> QED
          BY <5>1, <5>2
      <4> QED
        BY <1>1, <1>2, <3>2, <4>1 DEF CountedHasSlot
    <3> QED
      BY <3>1, <3>2
  <2> QED
    BY <2>3, <2>5, <2>6, <2>7, PartsNext
<1> QED
  BY <1>3, <1>4 DEF RemoveClient, FirstHolding

\* The number find_client gives out is one more than the answers so far.
LEMMA NextNumber ==
    ASSUME EchoInv, NEW a \in Ports, NEW i \in Slots, FindClient(a, i)
    PROVE  Counter(a, i) = since[a] + 1
<1>1. OneSlot /\ CountedHasSlot /\ SlotCounts
  BY Parts DEF EchoInv
<1>2. since[a] \in Nat
  BY DEF EchoInv, TypeOK
<1>3. CASE Holds(i, a)
  BY <1>1, <1>3 DEF SlotCounts, Holds, Counter
<1>4. CASE ~Holds(i, a)
  <2>1. \A j \in Slots : ~Holds(j, a)
    BY <1>4 DEF FindClient, FirstHolding
  <2>2. ~(since[a] > 0)
    BY <1>1, <2>1 DEF CountedHasSlot
  <2> QED
    BY <1>2, <1>4, <2>2 DEF Counter
<1> QED
  BY <1>3, <1>4

\* A message that is answered: its address has the slot i afterwards, with the
\* next number, and no other slot changes.
LEMMA AnswerKeeps ==
    ASSUME EchoInv, NEW a \in Ports, NEW i \in Slots, FindClient(a, i),
           clients' = [clients EXCEPT ![i] =
               [active |-> TRUE, addr |-> a, counter |-> Counter(a, i) + 1]],
           since' = [since EXCEPT ![a] = @ + 1]
    PROVE  clients' \in Seq(Slot) /\ CountsSinceClose'
<1> USE DEF EchoInv
<1> DEFINE s == [active |-> TRUE, addr |-> a, counter |-> Counter(a, i) + 1]
<1>0. clients \in Seq(Slot) /\ since \in [Ports -> Nat]
  BY DEF TypeOK, Slot
<1>1. OneSlot /\ CountedHasSlot /\ SlotCounts
  BY Parts
<1>2. /\ since' \in [Ports -> Nat] /\ since'[a] = since[a] + 1 /\ since[a] \in Nat
      /\ \A b \in Ports : b # a => since'[b] = since[b]
  BY <1>0
<1>3. Holds(i, a) \/ (~clients[i].active /\ \A j \in Slots : ~Holds(j, a))
  BY DEF FindClient, FirstHolding, FirstFree
<1>4. \A j \in Slots : j # i => ~Holds(j, a)
  BY <1>1, <1>3 DEF OneSlot, Holds
<1>5. Counter(a, i) = since[a] + 1
  BY NextNumber
<1>6. s \in Slot
  BY <1>2, <1>5, PortsAreClients DEF Slot
<1>7. /\ clients' \in Seq(Slot) /\ Slots' = Slots /\ clients'[i] = s
      /\ \A j \in Slots : j # i => clients'[j] = clients[j]
  BY <1>0, <1>6, SlotFacts DEF Slots
<1>8. OneSlot'
  <2> SUFFICES ASSUME NEW j \in Slots, NEW k \in Slots, clients'[j].active, clients'[k].active,
                      clients'[j].addr = clients'[k].addr
               PROVE  j = k
    BY <1>7 DEF OneSlot
  <2>1. CASE j # i /\ k # i
    BY <1>1, <1>7, <2>1 DEF OneSlot
  <2>2. CASE j = i /\ k # i
    BY <1>4, <1>7, <2>2 DEF Holds
  <2>3. CASE j # i /\ k = i
    BY <1>4, <1>7, <2>3 DEF Holds
  <2> QED
    BY <2>1, <2>2, <2>3
<1>9. SlotCounts'
  <2> SUFFICES ASSUME NEW j \in Slots, clients'[j].active
               PROVE  clients'[j].addr \in Ports /\ clients'[j].counter = since'[clients'[j].addr] + 1
    BY <1>7 DEF SlotCounts
  <2>1. CASE j = i
    BY <1>2, <1>5, <1>7, <2>1
  <2>2. CASE j # i
    BY <1>1, <1>2, <1>4, <1>7, <2>2 DEF SlotCounts, Holds
  <2> QED
    BY <2>1, <2>2
<1>10. CountedHasSlot'
  <2> SUFFICES ASSUME NEW b \in Ports
               PROVE  (since'[b] > 0) <=> \E j \in Slots : Holds(j, b)'
    BY <1>7 DEF CountedHasSlot
  <2>1. CASE b = a
    BY <1>2, <1>7, <2>1 DEF Holds
  <2>2. CASE b # a
    <3>1. ~Holds(i, b) /\ ~Holds(i, b)'
      BY <1>3, <1>7, <2>2 DEF Holds
    <3>2. \A j \in Slots : Holds(j, b)' <=> Holds(j, b)
      BY <1>7, <3>1 DEF Holds
    <3> QED
      BY <1>1, <1>2, <2>2, <3>2 DEF CountedHasSlot
  <2> QED
    BY <2>1, <2>2
<1> QED
  BY <1>7, <1>8, <1>9, <1>10, PartsNext

-----------------------------------------------------------------------------

\* Only a client sends to the server, so what is on its way to it comes from
\* the port of a client.
LEMMA AddressKept ==
    ASSUME TypeOK, NEW D, net' \subseteq net \union D,
           \A d \in D : d.dest = PORT => d.source \in Ports
    PROVE  (\A d \in net : d.dest = PORT => d.source \in Ports)'
BY DEF TypeOK, Ports

LEMMA NextKeepsEchoInv == EchoInv /\ [Next]_vars => EchoInv'
<1> SUFFICES ASSUME EchoInv, [Next]_vars PROVE EchoInv'
  OBVIOUS
<1> USE DEF EchoInv
<1>0. TypeOK /\ CountsSinceClose /\ Ports' = Ports
  BY DEF Ports
<1>1. ASSUME NEW p \in Procs, Start(p) PROVE EchoInv'
  BY <1>0, <1>1, SameCounts DEF Start, TypeOK
<1>2. ASSUME NEW p \in Procs, NEW L, NEW data, UNCHANGED <<srv, clients, since>>,
             net' = net \union {Datagram(L, AnyAddress, PortOf[p], PORT, data, 0)}
      PROVE  EchoInv'
  <2>1. Datagram(L, AnyAddress, PortOf[p], PORT, data, 0).source \in Ports
    BY DEF Datagram, Ports
  <2>2. (\A d \in net : d.dest = PORT => d.source \in Ports)'
    BY <1>0, <1>2, <2>1, AddressKept
  <2> QED
    BY <1>0, <1>2, <2>2, SameCounts DEF TypeOK
<1>3. ASSUME NEW p \in Procs, TypeLine(p) PROVE EchoInv'
  BY <1>2, <1>3 DEF TypeLine
<1>4. ASSUME NEW p \in Procs, ClientSignal(p) PROVE EchoInv'
  BY <1>2, <1>4 DEF ClientSignal
<1>5. ASSUME NEW d \in net, HandleClose(d) PROVE EchoInv'
  <2>1. d.source \in Ports
    BY <1>0, <1>5 DEF HandleClose, TypeOK
  <2>2. clients' \in Seq(Slot) /\ CountsSinceClose'
    BY <1>5, <2>1, CloseKeeps DEF HandleClose
  <2>3. since' \in [Ports -> Nat] /\ srv' \in {"running", "asked", "stopped"} /\ net' \subseteq net
    BY <1>0, <1>5 DEF HandleClose, TypeOK, LoopTurn
  <2> QED
    BY <1>0, <2>2, <2>3, AddressKept DEF TypeOK, Slot
<1>6. ASSUME NEW d \in net, HandleMessage(d) PROVE EchoInv'
  <2>0. d.source \in Ports /\ d.source # PORT /\ srv' \in {"running", "asked", "stopped"}
    BY <1>0, <1>6, PortsAreClients DEF HandleMessage, TypeOK, LoopTurn
  <2>1. ASSUME NEW i \in Slots, FindClient(d.source, i),
               clients' = [clients EXCEPT ![i] =
                   [active |-> TRUE, addr |-> d.source, counter |-> Counter(d.source, i) + 1]],
               net' = (net \ {d}) \union {Datagram(d.line, Loopback, PORT, d.source,
                          Numbered(d.data, Counter(d.source, i)), Counter(d.source, i))},
               since' = [since EXCEPT ![d.source] = @ + 1]
        PROVE  EchoInv'
    <3> DEFINE r == Datagram(d.line, Loopback, PORT, d.source,
                        Numbered(d.data, Counter(d.source, i)), Counter(d.source, i))
    <3>1. clients' \in Seq(Slot) /\ CountsSinceClose'
      BY <2>0, <2>1, AnswerKeeps
    <3>2. r.dest # PORT
      BY <2>0 DEF Datagram
    <3>3. (\A e \in net : e.dest = PORT => e.source \in Ports)'
      <4>1. net' \subseteq net \union {r}
        BY <2>1
      <4> HIDE DEF r
      <4> QED
        BY <1>0, <3>2, <4>1 DEF TypeOK
    <3>4. since' \in [Ports -> Nat]
      BY <1>0, <2>0, <2>1 DEF TypeOK
    <3> QED
      BY <1>0, <2>0, <3>1, <3>3, <3>4 DEF TypeOK, Slot
  <2>2. ASSUME net' = net \ {d}, UNCHANGED <<clients, since>> PROVE EchoInv'
    BY <1>0, <2>0, <2>2, SameCounts DEF TypeOK
  <2> QED
    BY <1>6, <2>1, <2>2 DEF HandleMessage
<1>7. ASSUME NEW d \in net, Deliver(d) PROVE EchoInv'
  BY <1>0, <1>7, SameCounts DEF Deliver, TypeOK, LoopTurn
<1>8. ASSUME NEW d \in net, Lose(d) PROVE EchoInv'
  BY <1>0, <1>8, SameCounts DEF Lose, TypeOK
<1>9. ASSUME ServerSignal PROVE EchoInv'
  BY <1>0, <1>9, SameCounts DEF ServerSignal, TypeOK
<1>10. ASSUME UNCHANGED vars PROVE EchoInv'
  BY <1>0, <1>10, SameCounts DEF vars, TypeOK
<1> QED
  BY <1>1, <1>3, <1>4, <1>5, <1>6, <1>7, <1>8, <1>9, <1>10 DEF Next

\* The numbers of the echo server: find_client and remove_client keep one slot
\* per address, and its counter is one more than the answers since the last
\* CLOSE, with any number of clients and slots, and whatever datagrams are
\* lost, late or out of order.
THEOREM EchoCounts == Spec => []CountsSinceClose
<1>1. EchoInv => CountsSinceClose
  BY DEF EchoInv
<1> QED
  BY <1>1, InitEchoInv, NextKeepsEchoInv, PTL DEF Spec

-----------------------------------------------------------------------------
(***************************************************************************)
(* What a client sees.  Requests and Answers are the datagrams on their    *)
(* way from and to a client's port.                                        *)
(***************************************************************************)

Requests(a) == {d \in net : d.source = a}
Answers(a) == {d \in net : d.dest = a}

ClientTypes ==
    /\ proc \in [Procs -> {"off", "on", "gone"}]
    /\ typed \in [Procs -> Nat] /\ clean \subseteq Procs
    /\ got \in [Procs -> Seq(Nat)]

\* A datagram goes from a client to the server or back, and there are
\* finitely many.
NetTypes ==
    /\ IsFiniteSet(net)
    /\ \A d \in net : /\ d.n \in Nat
                      /\ \/ d.source \in Ports /\ d.dest = PORT
                         \/ d.source = PORT /\ d.dest \in Ports

\* A client that has not started has left no trace.
OffIsNew == \A p \in Procs : proc[p] = "off" => typed[p] = 0 /\ got[p] = <<>> /\ p \notin clean

Alone(p) == \A q \in Procs : On(q) /\ PortOf[q] = PortOf[p] => q = p

\* What is on its way from the port are lines the client typed.
OwnLines(p) == \A d \in Requests(PortOf[p]) : d.data = TextOf[p]

\* Each line is answered at most once: it is answered, on its way or lost.
LinesCovered(p) == since[PortOf[p]] + Cardinality(Requests(PortOf[p])) <= typed[p]

\* The answers on their way carry different numbers that have been given out
\* and not been printed.
AnswersNew(p) ==
    /\ \A d \in Answers(PortOf[p]) : d.n \in 1 .. since[PortOf[p]] /\ d.n \notin ToSet(got[p])
    /\ \A d, e \in Answers(PortOf[p]) : d.n = e.n => d = e

PrintedOnce(p) == IsInjective(got[p]) /\ ToSet(got[p]) \subseteq 1 .. since[PortOf[p]]

Served(p) == Alone(p) /\ OwnLines(p) /\ LinesCovered(p) /\ AnswersNew(p) /\ PrintedOnce(p)

CleanServed == \A p \in clean : On(p) /\ ~IsClose(TextOf[p]) => Served(p)

\* What FreshClientCounts says of the clients that have ended.
GoneFresh == \A p \in clean : proc[p] = "gone" /\ ~IsClose(TextOf[p]) =>
                IsInjective(got[p]) /\ ToSet(got[p]) \subseteq 1 .. typed[p]

ClientInv == ClientTypes /\ NetTypes /\ OffIsNew /\ CleanServed /\ GoneFresh

\* The numbers a client has printed are below those it typed.
LEMMA ServedIsFresh ==
    ASSUME EchoInv, ClientTypes, NetTypes, NEW p \in Procs, Served(p)
    PROVE  IsInjective(got[p]) /\ ToSet(got[p]) \subseteq 1 .. typed[p]
<1> DEFINE a == PortOf[p]
<1>1. a \in Ports /\ since[a] \in Nat /\ typed[p] \in Nat
  BY DEF Ports, EchoInv, TypeOK, ClientTypes
<1>2. Cardinality(Requests(a)) \in Nat
  BY FS_Subset, FS_CardinalityType DEF NetTypes, Requests
<1>3. since[a] + Cardinality(Requests(a)) <= typed[p]
  BY DEF Served, LinesCovered
<1>4. since[a] <= typed[p]
  <2> HIDE DEF a
  <2> QED
    BY <1>1, <1>2, <1>3
<1> QED
  BY <1>1, <1>4 DEF Served, PrintedOnce

\* A step that changes nothing a client on a port of its own can see.
LEMMA Untouched ==
    ASSUME NEW p \in Procs, Served(p),
           Requests(PortOf[p])' = Requests(PortOf[p]), Answers(PortOf[p])' = Answers(PortOf[p]),
           since'[PortOf[p]] = since[PortOf[p]], got'[p] = got[p], typed'[p] = typed[p],
           \A q \in Procs : On(q)' /\ PortOf[q] = PortOf[p] => On(q)
    PROVE  Served(p)'
<1>1. Alone(p)'
  BY DEF Served, Alone
<1>2. OwnLines(p)'
  BY DEF Served, OwnLines
<1>3. LinesCovered(p)'
  BY DEF Served, LinesCovered
<1>4. AnswersNew(p)'
  BY DEF Served, AnswersNew
<1>5. PrintedOnce(p)'
  BY DEF Served, PrintedOnce
<1> QED
  BY <1>1, <1>2, <1>3, <1>4, <1>5 DEF Served

LEMMA AppendOnce ==
    ASSUME NEW s \in Seq(Nat), NEW n \in Nat, IsInjective(s), n \notin ToSet(s)
    PROVE  IsInjective(Append(s, n)) /\ ToSet(Append(s, n)) = ToSet(s) \union {n}
<1> DEFINE t == Append(s, n)
<1>1. /\ Len(s) \in Nat /\ DOMAIN s = 1..Len(s) /\ DOMAIN t = 1..Len(s) + 1
      /\ t[Len(s) + 1] = n /\ \A i \in 1..Len(s) : t[i] = s[i]
  OBVIOUS
<1>2. \A i \in 1..Len(s) : s[i] # n
  BY <1>1 DEF ToSet
<1> HIDE DEF t
<1>3. \A i \in 1..Len(s) + 1 : i \in 1..Len(s) \/ i = Len(s) + 1
  BY <1>1
<1>4. IsInjective(t)
  BY <1>1, <1>2, <1>3 DEF IsInjective
<1>5. ToSet(t) = ToSet(s) \union {n}
  <2>1. Len(s) + 1 \in DOMAIN t /\ DOMAIN s \subseteq DOMAIN t
    BY <1>1
  <2>2. \A x \in ToSet(t) : x \in ToSet(s) \/ x = n
    BY <1>1, <1>3 DEF ToSet
  <2>3. n \in ToSet(t) /\ \A x \in ToSet(s) : x \in ToSet(t)
    BY <1>1, <2>1 DEF ToSet
  <2> QED
    BY <2>2, <2>3
<1> QED
  BY <1>4, <1>5 DEF t

\* A new datagram, and what goes, leave the net one of datagrams.
LEMMA NetKept ==
    ASSUME NetTypes, NEW e, net' \subseteq net \union {e}, e.n \in Nat,
           \/ e.source \in Ports /\ e.dest = PORT
           \/ e.source = PORT /\ e.dest \in Ports
    PROVE  NetTypes'
<1>1. IsFiniteSet(net \union {e})
  BY FS_AddElement DEF NetTypes
<1>2. IsFiniteSet(net')
  BY <1>1, FS_Subset
<1>3. Ports' = Ports
  BY DEF Ports
<1> QED
  BY <1>2, <1>3 DEF NetTypes

LEMMA NetShrinks ==
    ASSUME NetTypes, net' \subseteq net
    PROVE  NetTypes'
<1>1. IsFiniteSet(net')
  BY FS_Subset DEF NetTypes
<1>2. Ports' = Ports
  BY DEF Ports
<1> QED
  BY <1>1, <1>2 DEF NetTypes

\* What one datagram more and one less do to the datagrams of a port.
LEMMA NetMoves ==
    ASSUME NEW a, NEW d, NEW e
    PROVE  /\ net' = net \ {d} => Requests(a)' = Requests(a) \ {d} /\ Answers(a)' = Answers(a) \ {d}
           /\ net' = net \union {e} =>
                 /\ Requests(a)' = IF e.source = a THEN Requests(a) \union {e} ELSE Requests(a)
                 /\ Answers(a)' = IF e.dest = a THEN Answers(a) \union {e} ELSE Answers(a)
BY DEF Requests, Answers

\* A datagram that is taken from the net leaves fewer of its port.
LEMMA Fewer ==
    ASSUME NetTypes, NEW D, NEW a, NEW d, D = Requests(a) \ {d}
    PROVE  /\ IsFiniteSet(D) /\ Cardinality(D) \in Nat /\ Cardinality(Requests(a)) \in Nat
           /\ Cardinality(D) <= Cardinality(Requests(a))
           /\ d \in Requests(a) => Cardinality(D) = Cardinality(Requests(a)) - 1
<1>1. IsFiniteSet(Requests(a))
  BY FS_Subset DEF NetTypes, Requests
<1>2. Cardinality(Requests(a)) \in Nat
  BY <1>1, FS_CardinalityType
<1>3. IsFiniteSet(D) /\ Cardinality(D) = IF d \in Requests(a) THEN Cardinality(Requests(a)) - 1 ELSE Cardinality(Requests(a))
  BY <1>1, FS_RemoveElement
<1>4. Cardinality(D) \in Nat
  BY <1>3, FS_CardinalityType
<1> QED
  BY <1>2, <1>3, <1>4

\* Clients that start, type and end.
LEMMA StartServed ==
    ASSUME EchoInv, ClientInv, NEW p \in Procs, Start(p)
    PROVE  ClientInv'
<1> USE DEF ClientInv
<1> DEFINE a == PortOf[p]
           others == {q \in Procs : On(q) /\ PortOf[q] = a}
<1>1. /\ UNCHANGED <<net, got, typed, since>> /\ proc[p] = "off"
      /\ proc' = [proc EXCEPT ![p] = "on"]
  BY DEF Start
<1>2. \/ /\ others = {} /\ since[a] = 0 /\ clean' = clean \union {p}
         /\ \A d \in net : a \notin {d.source, d.dest}
      \/ clean' = clean \ others
  BY DEF Start
<1>3. ClientTypes' /\ NetTypes'
  BY <1>1, <1>2, NetShrinks DEF ClientTypes
<1>4. /\ proc'[p] = "on" /\ \A q \in Procs : q # p => proc'[q] = proc[q]
      /\ p \notin clean /\ typed[p] = 0 /\ got[p] = <<>>
  BY <1>1 DEF ClientTypes, OffIsNew
<1>5. OffIsNew'
  BY <1>1, <1>2, <1>4 DEF OffIsNew
<1>6. GoneFresh'
  BY <1>1, <1>2, <1>4 DEF GoneFresh, ClientTypes
<1>7. CleanServed'
  <2> SUFFICES ASSUME NEW q \in clean', On(q)', ~IsClose(TextOf[q]) PROVE Served(q)'
    BY DEF CleanServed
  <2>1. CASE q # p
    <3>1. q \in clean /\ q \in Procs /\ On(q)
      BY <1>2, <1>4, <2>1 DEF On, ClientTypes
    <3>2. PortOf[q] # a
      BY <1>2, <2>1, <3>1
    <3>3. \A r \in Procs : On(r)' /\ PortOf[r] = PortOf[q] => On(r)
      BY <1>4, <3>2 DEF On
    <3>4. Served(q)
      BY <3>1 DEF CleanServed
    <3>5. Requests(PortOf[q])' = Requests(PortOf[q]) /\ Answers(PortOf[q])' = Answers(PortOf[q])
      BY <1>1 DEF Requests, Answers
    <3> QED
      BY <1>1, <3>1, <3>3, <3>4, <3>5, Untouched
  <2>2. CASE q = p
    <3>1. /\ others = {} /\ since[a] = 0 /\ \A d \in net : a \notin {d.source, d.dest}
      BY <1>2, <1>4, <2>2
    <3>2. Requests(a)' = {} /\ Answers(a)' = {}
      BY <1>1, <3>1 DEF Requests, Answers
    <3>3. Alone(p)'
      BY <1>4, <3>1 DEF Alone, On
    <3>4. OwnLines(p)' /\ AnswersNew(p)'
      BY <3>2 DEF OwnLines, AnswersNew
    <3>5. LinesCovered(p)'
      BY <1>1, <1>4, <3>1, <3>2, FS_EmptySet DEF LinesCovered
    <3>6. PrintedOnce(p)'
      BY <1>1, <1>4 DEF PrintedOnce, IsInjective, ToSet
    <3> QED
      BY <2>2, <3>3, <3>4, <3>5, <3>6 DEF Served
  <2> QED
    BY <2>1, <2>2
<1> QED
  BY <1>3, <1>5, <1>6, <1>7

LEMMA TypeLineServed ==
    ASSUME EchoInv, ClientInv, NEW p \in Procs, TypeLine(p)
    PROVE  ClientInv'
<1> USE DEF ClientInv
<1> DEFINE e == Datagram(<<p, typed'[p]>>, AnyAddress, PortOf[p], PORT, TextOf[p], 0)
<1>1. /\ UNCHANGED <<proc, got, since, clean>> /\ On(p)
      /\ typed' = [typed EXCEPT ![p] = @ + 1] /\ net' = net \union {e}
  BY DEF TypeLine
<1>2. /\ e.n = 0 /\ e.source = PortOf[p] /\ e.dest = PORT /\ e.data = TextOf[p]
      /\ PortOf[p] \in Ports /\ \A q \in Procs : PortOf[q] # PORT
  BY EchoAssumption DEF Datagram, Ports
<1> HIDE DEF e
<1>3. ClientTypes' /\ typed[p] \in Nat /\ typed'[p] = typed[p] + 1 /\ \A q \in Procs : q # p => typed'[q] = typed[q]
  BY <1>1 DEF ClientTypes
<1>4. NetTypes'
  BY <1>1, <1>2, NetKept
<1>5. OffIsNew'
  BY <1>1, <1>3 DEF OffIsNew, On
<1>6. GoneFresh'
  BY <1>1, <1>3 DEF GoneFresh, On, ClientTypes
<1>7. CleanServed'
  <2> SUFFICES ASSUME NEW q \in clean, On(q), ~IsClose(TextOf[q]) PROVE Served(q)'
    BY <1>1 DEF CleanServed, On
  <2>0. q \in Procs /\ Served(q)
    BY DEF CleanServed, ClientTypes
  <2>1. /\ Requests(PortOf[q])' = IF PortOf[q] = PortOf[p] THEN Requests(PortOf[q]) \union {e}
                                   ELSE Requests(PortOf[q])
        /\ Answers(PortOf[q])' = Answers(PortOf[q])
    BY <1>1, <1>2, <2>0, NetMoves
  <2>2. \A r \in Procs : On(r)' /\ PortOf[r] = PortOf[q] => On(r)
    BY <1>1 DEF On
  <2>3. CASE PortOf[q] # PortOf[p]
    BY <1>1, <1>3, <2>0, <2>1, <2>2, <2>3, Untouched
  <2>4. CASE PortOf[q] = PortOf[p]
    <3>0. q = p
      BY <1>1, <2>0, <2>4 DEF Served, Alone
    <3>1. Alone(p)' /\ AnswersNew(p)' /\ PrintedOnce(p)'
      BY <1>1, <2>0, <2>1, <3>0 DEF Served, Alone, AnswersNew, PrintedOnce, On
    <3>2. OwnLines(p)'
      BY <1>2, <2>0, <2>1, <3>0 DEF Served, OwnLines
    <3>3. LinesCovered(p)'
      <4> DEFINE R == Requests(PortOf[p])
      <4>1. IsFiniteSet(R)
        BY FS_Subset DEF NetTypes, Requests
      <4>2. Cardinality(R) \in Nat
        BY <4>1, FS_CardinalityType
      <4>3. Cardinality(R \union {e}) \in {Cardinality(R), Cardinality(R) + 1}
        BY <4>1, FS_AddElement
      <4>4. Cardinality(R \union {e}) <= Cardinality(R) + 1 /\ Cardinality(R \union {e}) \in Nat
        BY <4>2, <4>3
      <4>5. since[PortOf[p]] \in Nat /\ since[PortOf[p]] + Cardinality(R) <= typed[p]
        BY <1>2, <2>0, <3>0 DEF Served, LinesCovered, EchoInv, TypeOK
      <4>6. R' = R \union {e}
        BY <2>1, <2>4, <3>0
      <4>7. since[PortOf[p]] + Cardinality(R \union {e}) <= typed[p] + 1
        <5> HIDE DEF R
        <5> QED
          BY <1>3, <4>2, <4>4, <4>5
      <4> QED
        BY <1>1, <1>3, <4>6, <4>7 DEF LinesCovered
    <3> QED
      BY <3>0, <3>1, <3>2, <3>3 DEF Served
  <2> QED
    BY <2>3, <2>4
<1> QED
  BY <1>3, <1>4, <1>5, <1>6, <1>7

LEMMA ClientSignalServed ==
    ASSUME EchoInv, ClientInv, NEW p \in Procs, ClientSignal(p)
    PROVE  ClientInv'
<1> USE DEF ClientInv
<1> DEFINE e == Datagram(<<p, 0>>, AnyAddress, PortOf[p], PORT, CLOSE, 0)
<1>1. /\ UNCHANGED <<got, since, clean, typed>> /\ On(p)
      /\ proc' = [proc EXCEPT ![p] = "gone"] /\ net' = net \union {e}
  BY DEF ClientSignal
<1>2. /\ e.n = 0 /\ e.source = PortOf[p] /\ e.dest = PORT
      /\ PortOf[p] \in Ports /\ \A q \in Procs : PortOf[q] # PORT
  BY EchoAssumption DEF Datagram, Ports
<1> HIDE DEF e
<1>3. ClientTypes' /\ proc'[p] = "gone" /\ \A q \in Procs : q # p => proc'[q] = proc[q]
  BY <1>1 DEF ClientTypes
<1>4. NetTypes'
  BY <1>1, <1>2, NetKept
<1>5. OffIsNew'
  BY <1>1, <1>3 DEF OffIsNew
<1>6. GoneFresh'
  <2> SUFFICES ASSUME NEW q \in clean, proc'[q] = "gone", ~IsClose(TextOf[q])
               PROVE  IsInjective(got[q]) /\ ToSet(got[q]) \subseteq 1 .. typed[q]
    BY <1>1 DEF GoneFresh
  <2>1. CASE q = p
    BY <1>1, <2>1, ServedIsFresh DEF CleanServed
  <2>2. CASE q # p
    BY <1>3, <2>2 DEF GoneFresh, ClientTypes
  <2> QED
    BY <2>1, <2>2
<1>7. CleanServed'
  <2> SUFFICES ASSUME NEW q \in clean, On(q)', ~IsClose(TextOf[q]) PROVE Served(q)'
    BY <1>1 DEF CleanServed
  <2>0. q \in Procs /\ q # p /\ On(q) /\ Served(q)
    BY <1>3 DEF CleanServed, ClientTypes, On
  <2>1. PortOf[q] # PortOf[p]
    BY <1>1, <2>0 DEF Served, Alone
  <2>2. Requests(PortOf[q])' = Requests(PortOf[q]) /\ Answers(PortOf[q])' = Answers(PortOf[q])
    BY <1>1, <1>2, <2>0, <2>1, NetMoves
  <2>3. \A r \in Procs : On(r)' /\ PortOf[r] = PortOf[q] => On(r)
    BY <1>3, <2>1 DEF On
  <2> QED
    BY <1>1, <2>0, <2>2, <2>3, Untouched
<1> QED
  BY <1>3, <1>4, <1>5, <1>6, <1>7

\* A step of the net or the server that gives the clients nothing: only the
\* clients alone on their ports have to be looked at.
LEMMA ServerStep ==
    ASSUME ClientInv, NetTypes', UNCHANGED <<proc, got, typed, clean>>,
           \A q \in Procs : On(q) /\ ~IsClose(TextOf[q]) /\ Served(q) => Served(q)'
    PROVE  ClientInv'
<1>1. ClientTypes' /\ OffIsNew' /\ GoneFresh'
  BY DEF ClientInv, ClientTypes, OffIsNew, GoneFresh
<1>2. CleanServed'
  BY DEF ClientInv, CleanServed, On, ClientTypes
<1> QED
  BY <1>1, <1>2 DEF ClientInv

\* A datagram that goes without an answer does no harm.
LEMMA GoneServed ==
    ASSUME EchoInv, ClientTypes, NetTypes, NEW q \in Procs, Served(q), NEW d, net' = net \ {d},
           UNCHANGED <<proc, got, typed>>, since'[PortOf[q]] = since[PortOf[q]]
    PROVE  Served(q)'
<1> DEFINE a == PortOf[q]
<1>1. Requests(a)' = Requests(a) \ {d} /\ Answers(a)' = Answers(a) \ {d}
  BY NetMoves
<1>2. Alone(q)' /\ OwnLines(q)' /\ AnswersNew(q)' /\ PrintedOnce(q)'
  BY <1>1 DEF Served, Alone, OwnLines, AnswersNew, PrintedOnce, On
<1>3. LinesCovered(q)'
  <2>1. since[a] \in Nat /\ typed[q] \in Nat /\ since[a] + Cardinality(Requests(a)) <= typed[q]
    BY DEF Ports, EchoInv, TypeOK, ClientTypes, Served, LinesCovered
  <2>2. /\ Cardinality(Requests(a)') \in Nat /\ Cardinality(Requests(a)) \in Nat
        /\ Cardinality(Requests(a)') <= Cardinality(Requests(a))
    BY <1>1, Fewer
  <2>3. since[a] + Cardinality(Requests(a)') <= typed[q]
    <3> HIDE DEF a
    <3> QED
      BY <2>1, <2>2
  <2> QED
    BY <2>3 DEF LinesCovered
<1> QED
  BY <1>2, <1>3 DEF Served

LEMMA LoseServed ==
    ASSUME EchoInv, ClientInv, NEW d \in net, net' = net \ {d},
           UNCHANGED <<proc, got, typed, since, clean>>
    PROVE  ClientInv'
<1>1. ClientTypes /\ NetTypes
  BY DEF ClientInv
<1>2. NetTypes'
  BY <1>1, NetShrinks
<1> QED
  BY <1>1, <1>2, GoneServed, ServerStep

\* A CLOSE never comes from the port of a client that is alone on a clean one.
LEMMA HandleCloseServed ==
    ASSUME EchoInv, ClientInv, NEW d \in net, HandleClose(d)
    PROVE  ClientInv'
<1>1. ClientTypes /\ NetTypes
  BY DEF ClientInv
<1>2. NetTypes'
  BY <1>1, NetShrinks DEF HandleClose
<1>3. ASSUME NEW q \in Procs, ~IsClose(TextOf[q]), Served(q) PROVE Served(q)'
  <2>1. d.source # PortOf[q]
    BY <1>3 DEF HandleClose, Served, OwnLines, Requests
  <2>2. since'[PortOf[q]] = since[PortOf[q]]
    BY <2>1 DEF HandleClose, EchoInv, TypeOK, Ports
  <2> QED
    BY <1>1, <1>3, <2>2, GoneServed DEF HandleClose
<1> QED
  BY <1>2, <1>3, ServerStep DEF HandleClose

\* An answer takes the line's place and carries a number nobody has seen.
LEMMA AnswerServed ==
    ASSUME EchoInv, ClientInv, NEW d \in net, d.dest = PORT, NEW e, e.source = PORT, e.dest = d.source,
           e.n = since[d.source] + 1, net' = (net \ {d}) \union {e},
           since' = [since EXCEPT ![d.source] = @ + 1], UNCHANGED <<proc, got, typed, clean>>
    PROVE  ClientInv'
<1>1. ClientTypes /\ NetTypes
  BY DEF ClientInv
<1>2. /\ d.source \in Ports /\ since[d.source] \in Nat /\ d.source # PORT
      /\ since'[d.source] = since[d.source] + 1
      /\ \A b \in Ports : b # d.source => since'[b] = since[b]
  BY PortsAreClients DEF EchoInv, TypeOK
<1>3. NetTypes'
  <2>1. e.n \in Nat
    BY <1>2
  <2> QED
    BY <1>1, <1>2, <2>1, NetKept
<1>4. ASSUME NEW q \in Procs, Served(q) PROVE Served(q)'
  <2> DEFINE a == PortOf[q]
  <2>0. a \in Ports /\ a # PORT
    BY PortsAreClients DEF Ports
  <2>1. /\ Requests(a)' = Requests(a) \ {d}
        /\ Answers(a)' = IF d.source = a THEN (Answers(a) \ {d}) \union {e} ELSE Answers(a) \ {d}
    <3> HIDE DEF a
    <3> QED
      BY <2>0 DEF Requests, Answers
  <2>2. d \notin Answers(a)
    BY <2>0 DEF Answers
  <2>3. CASE d.source # a
    <3>1. d \notin Requests(a)
      BY <2>3 DEF Requests
    <3>2. Requests(a)' = Requests(a) /\ Answers(a)' = Answers(a)
      BY <2>1, <2>2, <2>3, <3>1
    <3> QED
      BY <1>2, <1>4, <2>0, <2>3, <3>2, Untouched DEF On
  <2>4. CASE d.source = a
    <3>1. Answers(a)' = Answers(a) \union {e}
      BY <2>1, <2>2, <2>4
    <3>2. /\ Alone(q) /\ OwnLines(q) /\ since[a] + Cardinality(Requests(a)) <= typed[q]
          /\ AnswersNew(q) /\ IsInjective(got[q]) /\ ToSet(got[q]) \subseteq 1..since[a]
      BY <1>4 DEF Served, LinesCovered, PrintedOnce
    <3>3. since[a] \in Nat /\ since'[a] = since[a] + 1 /\ e.n = since[a] + 1
      BY <1>2, <2>4
    <3>4. Alone(q)' /\ OwnLines(q)'
      BY <2>1, <3>2 DEF Alone, OwnLines, On
    <3>5. 1..since[a] \subseteq 1..since[a] + 1 /\ since[a] + 1 \in 1..since[a] + 1 /\ since[a] + 1 \notin 1..since[a]
      <4> HIDE DEF a
      <4> QED
        BY <3>3
    <3>6. PrintedOnce(q)'
      BY <3>2, <3>3, <3>5 DEF PrintedOnce
    <3>7. AnswersNew(q)'
      <4> DEFINE m == since[a]
      <4>1. /\ \A x \in Answers(a) : x.n \in 1..m /\ x.n \notin ToSet(got[q])
            /\ \A x, y \in Answers(a) : x.n = y.n => x = y
        BY <3>2 DEF AnswersNew
      <4>2. e.n \notin ToSet(got[q]) /\ e.n \in 1..m + 1 /\ e.n \notin 1..m
        BY <3>2, <3>3, <3>5
      <4>3. 1..m \subseteq 1..m + 1 /\ since'[a] = m + 1
        BY <3>3, <3>5
      <4> HIDE DEF m
      <4>4. \A x \in Answers(a)' : x.n \in 1..since'[a] /\ x.n \notin ToSet(got[q])
        BY <3>1, <4>1, <4>2, <4>3
      <4>5. \A x, y \in Answers(a)' : x.n = y.n => x = y
        BY <3>1, <4>1, <4>2
      <4> QED
        BY <4>4, <4>5 DEF AnswersNew
    <3>8. LinesCovered(q)'
      <4>1. d \in Requests(a) /\ typed[q] \in Nat
        BY <1>1, <2>4 DEF Requests, ClientTypes
      <4>2. /\ Cardinality(Requests(a)') = Cardinality(Requests(a)) - 1
            /\ Cardinality(Requests(a)) \in Nat
        BY <1>1, <2>1, <4>1, Fewer
      <4>3. since'[a] + Cardinality(Requests(a)') <= typed[q]
        <5> HIDE DEF a
        <5> QED
          BY <3>2, <3>3, <4>1, <4>2
      <4> QED
        BY <4>3 DEF LinesCovered
    <3> QED
      BY <3>4, <3>6, <3>7, <3>8 DEF Served
  <2> QED
    BY <2>3, <2>4
<1> QED
  BY <1>3, <1>4, ServerStep

LEMMA HandleMessageServed ==
    ASSUME EchoInv, ClientInv, NEW d \in net, HandleMessage(d)
    PROVE  ClientInv'
<1>1. d.source \in Ports /\ d.dest = PORT /\ UNCHANGED <<proc, got, typed, clean>>
  BY DEF HandleMessage, EchoInv, TypeOK
<1>2. ASSUME NEW i \in Slots, FindClient(d.source, i),
             net' = (net \ {d}) \union {Datagram(d.line, Loopback, PORT, d.source,
                        Numbered(d.data, Counter(d.source, i)), Counter(d.source, i))},
             since' = [since EXCEPT ![d.source] = @ + 1]
      PROVE  ClientInv'
  <2> DEFINE e == Datagram(d.line, Loopback, PORT, d.source,
                      Numbered(d.data, Counter(d.source, i)), Counter(d.source, i))
  <2>1. Counter(d.source, i) = since[d.source] + 1
    BY <1>1, <1>2, NextNumber
  <2>2. e.source = PORT /\ e.dest = d.source /\ e.n = since[d.source] + 1
    BY <2>1 DEF Datagram
  <2>3. net' = (net \ {d}) \union {e}
    BY <1>2
  <2> HIDE DEF e
  <2> QED
    BY <1>1, <1>2, <2>2, <2>3, AnswerServed
<1>3. ASSUME net' = net \ {d}, UNCHANGED <<clients, since>> PROVE ClientInv'
  BY <1>1, <1>3, LoseServed
<1> QED
  BY <1>2, <1>3 DEF HandleMessage

LEMMA DeliverServed ==
    ASSUME EchoInv, ClientInv, NEW d \in net, Deliver(d)
    PROVE  ClientInv'
<1>1. ClientTypes /\ NetTypes /\ d.n \in Nat /\ d.source = PORT
  BY DEF ClientInv, NetTypes, Deliver
<1>2. UNCHANGED <<proc, typed, since, clean>> /\ net' = net \ {d}
  BY DEF Deliver
<1>3. \A p \in Procs : got'[p] = IF On(p) /\ PortOf[p] = d.dest /\ p \in clean
                                 THEN Append(got[p], d.n) ELSE got[p]
  BY DEF Deliver
<1>4. ClientTypes'
  <2>1. \A p \in Procs : got[p] \in Seq(Nat) /\ Append(got[p], d.n) \in Seq(Nat)
    BY <1>1 DEF ClientTypes
  <2>2. got' \in [Procs -> Seq(Nat)]
    BY <2>1 DEF Deliver
  <2> QED
    BY <1>1, <1>2, <2>2 DEF ClientTypes
<1>5. NetTypes'
  BY <1>1, <1>2, NetShrinks
<1>6. OffIsNew' /\ GoneFresh'
  BY <1>1, <1>2, <1>3 DEF ClientInv, OffIsNew, GoneFresh, On, ClientTypes
<1>7. CleanServed'
  <2> SUFFICES ASSUME NEW q \in clean, On(q), ~IsClose(TextOf[q]) PROVE Served(q)'
    BY <1>2 DEF CleanServed, On
  <2> DEFINE a == PortOf[q]
  <2>0. q \in Procs /\ Served(q) /\ a \in Ports /\ a # PORT /\ got[q] \in Seq(Nat)
    BY PortsAreClients DEF ClientInv, CleanServed, ClientTypes, Ports
  <2>1. Requests(a)' = Requests(a) \ {d} /\ Answers(a)' = Answers(a) \ {d}
    BY <1>2, NetMoves
  <2>2. Requests(a)' = Requests(a)
    BY <1>1, <2>0, <2>1 DEF Requests
  <2>3. CASE d.dest # a
    <3>1. Answers(a)' = Answers(a)
      BY <2>1, <2>3 DEF Answers
    <3> QED
      BY <1>2, <1>3, <2>0, <2>2, <2>3, <3>1, Untouched DEF On
  <2>4. CASE d.dest = a
    <3>1. got'[q] = Append(got[q], d.n) /\ d \in Answers(a)
      BY <1>3, <2>0, <2>4 DEF Answers
    <3>2. /\ AnswersNew(q) /\ IsInjective(got[q]) /\ ToSet(got[q]) \subseteq 1..since[a]
          /\ d.n \in 1..since[a] /\ d.n \notin ToSet(got[q])
      BY <2>0, <3>1 DEF Served, PrintedOnce, AnswersNew
    <3>3. IsInjective(got'[q]) /\ ToSet(got'[q]) = ToSet(got[q]) \union {d.n}
      BY <1>1, <2>0, <3>1, <3>2, AppendOnce
    <3>4. PrintedOnce(q)'
      BY <1>2, <3>2, <3>3 DEF PrintedOnce
    <3>5. AnswersNew(q)'
      BY <1>2, <2>1, <3>1, <3>2, <3>3 DEF AnswersNew
    <3>6. Alone(q)' /\ OwnLines(q)' /\ LinesCovered(q)'
      BY <1>2, <2>0, <2>2 DEF Served, Alone, OwnLines, LinesCovered, On
    <3> QED
      BY <3>4, <3>5, <3>6 DEF Served
  <2> QED
    BY <2>3, <2>4
<1> QED
  BY <1>4, <1>5, <1>6, <1>7 DEF ClientInv

-----------------------------------------------------------------------------

LEMMA InitClientInv == Init => ClientInv
BY FS_EmptySet DEF Init, ClientInv, ClientTypes, NetTypes, OffIsNew, CleanServed, GoneFresh

LEMMA NextKeepsClientInv == EchoInv /\ ClientInv /\ [Next]_vars => ClientInv'
<1> SUFFICES ASSUME EchoInv, ClientInv, [Next]_vars PROVE ClientInv'
  OBVIOUS
<1>1. ASSUME NEW p \in Procs, Start(p) \/ TypeLine(p) \/ ClientSignal(p) PROVE ClientInv'
  BY <1>1, StartServed, TypeLineServed, ClientSignalServed
<1>2. ASSUME NEW d \in net, HandleClose(d) \/ HandleMessage(d) \/ Deliver(d) PROVE ClientInv'
  BY <1>2, HandleCloseServed, HandleMessageServed, DeliverServed
<1>3. ASSUME NEW d \in net, Lose(d) PROVE ClientInv'
  BY <1>3, LoseServed DEF Lose
<1>4. ASSUME UNCHANGED <<net, proc, got, typed, since, clean>> PROVE ClientInv'
  BY <1>4 DEF ClientInv, ClientTypes, NetTypes, OffIsNew, CleanServed, GoneFresh, Served, Alone, OwnLines,
              LinesCovered, AnswersNew, PrintedOnce, Requests, Answers, On, Ports
<1> QED
  BY <1>1, <1>2, <1>3, <1>4 DEF Next, ServerSignal, vars

LEMMA ClientInvIsFresh == EchoInv /\ ClientInv => FreshClientCounts
<1> SUFFICES ASSUME EchoInv, ClientInv, NEW p \in clean, ~IsClose(TextOf[p])
             PROVE  IsInjective(got[p]) /\ ToSet(got[p]) \subseteq 1 .. typed[p]
  BY DEF FreshClientCounts
<1>1. p \in Procs /\ ClientTypes /\ NetTypes
  BY DEF ClientInv, ClientTypes
<1>2. CASE On(p)
  BY <1>1, <1>2, ServedIsFresh DEF ClientInv, CleanServed
<1>3. CASE proc[p] = "gone"
  BY <1>3 DEF ClientInv, GoneFresh
<1>4. proc[p] # "off"
  BY <1>1 DEF ClientInv, OffIsNew
<1> QED
  BY <1>1, <1>2, <1>3, <1>4 DEF ClientTypes, On

\* What a client of the echo server may rely on: one that is alone on its
\* port, met no trace of an earlier one and types no CLOSE prints each number
\* at most once and none above its lines, with any number of other clients,
\* slots freed and taken in any order, and datagrams lost or overtaken.
THEOREM EchoFreshClient == Spec => []FreshClientCounts
<1>1. Spec => [](EchoInv /\ ClientInv)
  BY InitEchoInv, NextKeepsEchoInv, InitClientInv, NextKeepsClientInv, PTL DEF Spec
<1> QED
  BY <1>1, ClientInvIsFresh, PTL

-----------------------------------------------------------------------------
(***************************************************************************)
(* The firewall.                                                           *)
(***************************************************************************)
Opened == {"loaded", "closing", "unloaded"}
Writes == {"idle", "added", "copied", "del", "move"}
Walks  == {"idle", "test", "compare"}

\* Every variable keeps its type; ip_count never passes the table (firewall.c:78).
FirewallTypeOK ==
    /\ loaded \in Opened
    /\ blocked_ips \in [Entries -> IPs \cup {"", Torn}]
    /\ ip_count \in 0 .. MAX_IPS
    /\ w \in [at : Writes, ip : IPs \cup {""}, i : Entries]
    /\ hook \in [at : Walks, ip : IPs \cup {""}, i : Nat]
    /\ listed \subseteq IPs
    /\ wasListed \in BOOLEAN /\ shrunk \in BOOLEAN

\* The entries S of the table t hold the addresses A, each once.
TableHolds(t, S, A) ==
    /\ \A i \in S : t[i] \in A
    /\ \A i, j \in S : t[i] = t[j] => i = j
    /\ \A ip \in A : \E i \in S : t[i] = ip

Used   == 0 .. ip_count - 1
Adding == w.at \in {"added", "copied"}
Moving == w.at \in {"del", "move"}

\* Outside a del the used entries are what the commands have left; an address
\* that is being added is past them.
AtRest == loaded # "unloaded" /\ ~ Moving => TableHolds(blocked_ips, Used, listed)

AddGoesOn ==
    Adding => /\ loaded = "loaded"
              /\ w.i = ip_count /\ ip_count < MAX_IPS /\ w.ip \in IPs \ listed
              /\ w.at = "copied" => blocked_ips[w.i] = w.ip

\* During a del one used entry is to be overwritten, and the others are all
\* that will be left.
DelGoesOn ==
    Moving => /\ loaded = "loaded"
              /\ w.i \in Used /\ w.ip \in listed
              /\ TableHolds(blocked_ips, Used \ {w.i}, listed \ {w.ip})
              /\ w.at = "move" => w.i + 1 \in Used

\* The used entries are as many as the blocked addresses.
Counted == loaded # "unloaded" => IsFiniteSet(listed) /\ ip_count = Cardinality(listed)

TableInv == FirewallTypeOK /\ AtRest /\ AddGoesOn /\ DelGoesOn /\ Counted

\* A walk nothing was removed from has an address that was blocked when it began
\* still ahead of it, and compares with a used entry.
WalkIsAhead ==
    hook.at # "idle" =>
        /\ loaded # "unloaded"
        /\ ~ shrunk =>
             /\ ~ Moving
             /\ wasListed => \E j \in Used : j >= hook.i /\ blocked_ips[j] = hook.ip
             /\ hook.at = "compare" => hook.i \in Used

FirewallInv == TableInv /\ WalkIsAhead

-----------------------------------------------------------------------------
(* What the stores of a command do to the entries of a table.               *)

\* Two tables with the same entries in S hold the same there.
LEMMA HoldsAgree ==
    ASSUME NEW t, NEW u, NEW S, NEW A, TableHolds(t, S, A), \A i \in S : u[i] = t[i]
    PROVE  TableHolds(u, S, A)
BY DEF TableHolds

\* strcpy into the first unused entry, then ip_count++.
LEMMA HoldsAdd ==
    ASSUME NEW t, NEW n \in Nat, NEW A, TableHolds(t, 0 .. n - 1, A), t[n] \notin A
    PROVE  TableHolds(t, 0 .. (n + 1) - 1, A \cup {t[n]})
<1>1. 0 .. (n + 1) - 1 = (0 .. n - 1) \cup {n} /\ n \notin 0 .. n - 1
  OBVIOUS
<1> QED
  BY <1>1 DEF TableHolds

\* An entry is given up with its address.
LEMMA HoldsRemove ==
    ASSUME NEW t, NEW S, NEW A, TableHolds(t, S, A), NEW k \in S
    PROVE  TableHolds(t, S \ {k}, A \ {t[k]})
BY DEF TableHolds

\* The entry to be overwritten takes what entry m has, and m is the next one.
LEMMA HoldsShift ==
    ASSUME NEW t, NEW u, NEW S, NEW A, NEW k \in S, NEW m \in S \ {k},
           TableHolds(t, S \ {k}, A), u[k] = t[m], \A i \in S \ {k} : u[i] = t[i]
    PROVE  TableHolds(u, S \ {m}, A)
<1>1. \A i \in S \ {m} : i = k \/ (i \in S \ {k} /\ u[i] = t[i])
  OBVIOUS
<1>2. \A i \in S \ {m} : u[i] \in A
  BY <1>1 DEF TableHolds
<1>3. ASSUME NEW i \in S \ {m}, NEW j \in S \ {m}, u[i] = u[j] PROVE i = j
  BY <1>1, <1>3 DEF TableHolds
<1>4. ASSUME NEW ip \in A PROVE \E i \in S \ {m} : u[i] = ip
  <2>1. PICK i \in S \ {k} : t[i] = ip
    BY <1>4 DEF TableHolds
  <2>2. CASE i = m
    BY <2>1, <2>2
  <2>3. CASE i # m
    BY <2>1, <2>3
  <2> QED
    BY <2>2, <2>3
<1> QED
  BY <1>2, <1>3, <1>4 DEF TableHolds

-----------------------------------------------------------------------------
\* The numbers of the entries.
LEMMA Bounds ==
    ASSUME FirewallTypeOK
    PROVE  /\ ip_count \in Nat /\ MAX_IPS \in Nat /\ ip_count <= MAX_IPS /\ w.i \in Nat
           /\ \A i : i \in Used <=> i \in Nat /\ i < ip_count
           /\ \A i : i \in Entries <=> i \in Nat /\ i < MAX_IPS
<1>1. MAX_IPS \in Nat
  BY FirewallAssumption
<1>2. ip_count \in 0 .. MAX_IPS /\ w.i \in Entries
  BY DEF FirewallTypeOK
<1> QED
  BY <1>1, <1>2 DEF Used, Entries

\* The steps of firewall_write and firewall_exit.
Commands == \/ \E ip \in IPs : Add(ip) \/ Del(ip)
            \/ AddCopies \/ AddCounts \/ DelTears \/ DelMoves \/ DelCounts \/ Clear
            \/ RemoveProcEntry \/ Unregister

\* The steps of firewall_hook.
HookSteps == \/ \E ip \in IPs : HookBegins(ip)
             \/ HookTests \/ HookCompares \/ HookDrops \/ HookAccepts

table == <<loaded, blocked_ips, ip_count, w, listed>>

\* A hook changes nothing of the table.
LEMMA HookReads == HookSteps => UNCHANGED table
BY DEF HookSteps, HookBegins, HookTests, HookCompares, HookDrops, HookAccepts, table

\* A command changes nothing of a walk, and says so when it removes or moves.
LEMMA CommandKeepsWalk ==
    ASSUME FirewallTypeOK, Commands
    PROVE  hook' = hook /\ wasListed' = wasListed /\ (shrunk' = shrunk \/ shrunk' = TRUE)
BY DEF Commands, Add, Del, AddCopies, AddCounts, DelTears, DelMoves, DelCounts, Clear,
   RemoveProcEntry, Unregister

\* Every command keeps the types, the bound of the table among them.
LEMMA CommandTypes ==
    ASSUME TableInv, Commands
    PROVE  FirewallTypeOK'
<1>0. /\ loaded \in Opened /\ blocked_ips \in [Entries -> IPs \cup {"", Torn}]
      /\ ip_count \in 0 .. MAX_IPS /\ w \in [at : Writes, ip : IPs \cup {""}, i : Entries]
      /\ listed \subseteq IPs /\ shrunk \in BOOLEAN
  BY DEF TableInv, FirewallTypeOK
<1>1. hook' \in [at : Walks, ip : IPs \cup {""}, i : Nat] /\ wasListed' \in BOOLEAN /\ shrunk' \in BOOLEAN
  BY CommandKeepsWalk DEF TableInv, FirewallTypeOK
<1>b. /\ ip_count \in Nat /\ MAX_IPS \in Nat /\ ip_count <= MAX_IPS /\ w.i \in Nat
      /\ \A i : i \in Used <=> i \in Nat /\ i < ip_count
      /\ \A i : i \in Entries <=> i \in Nat /\ i < MAX_IPS
  BY Bounds DEF TableInv
<1>2. MAX_IPS > 0 /\ 0 \in Entries /\ 0 \in 0 .. MAX_IPS
  <2>1. MAX_IPS \in Nat /\ MAX_IPS # 0
    BY FirewallAssumption
  <2> QED
    BY <1>b, <2>1
<1>3. Idle \in [at : Writes, ip : IPs \cup {""}, i : Entries]
  BY <1>2 DEF Idle, Writes
<1> SUFFICES /\ loaded' \in Opened /\ blocked_ips' \in [Entries -> IPs \cup {"", Torn}]
             /\ ip_count' \in 0 .. MAX_IPS /\ w' \in [at : Writes, ip : IPs \cup {""}, i : Entries]
             /\ listed' \subseteq IPs
  BY <1>1 DEF FirewallTypeOK
<1>4. ASSUME NEW ip \in IPs, Add(ip) PROVE
             /\ loaded' \in Opened /\ blocked_ips' \in [Entries -> IPs \cup {"", Torn}]
             /\ ip_count' \in 0 .. MAX_IPS /\ w' \in [at : Writes, ip : IPs \cup {""}, i : Entries]
             /\ listed' \subseteq IPs
  <2>1. ip_count \in Entries
    BY <1>b, <1>4 DEF Add
  <2> QED
    BY <1>0, <1>4, <2>1 DEF Add, Writes
<1>5. ASSUME NEW ip \in IPs, Del(ip) PROVE
             /\ loaded' \in Opened /\ blocked_ips' \in [Entries -> IPs \cup {"", Torn}]
             /\ ip_count' \in 0 .. MAX_IPS /\ w' \in [at : Writes, ip : IPs \cup {""}, i : Entries]
             /\ listed' \subseteq IPs
  <2>1. PICK i \in Entries : w' = [at |-> "del", ip |-> ip, i |-> i]
    BY <1>5 DEF Del, Find
  <2>2. w' \in [at : Writes, ip : IPs \cup {""}, i : Entries]
    BY <2>1 DEF Writes
  <2> QED
    BY <1>0, <1>5, <2>2 DEF Del
<1>6. CASE AddCopies
  BY <1>0, <1>6 DEF AddCopies, Writes
<1>7. CASE AddCounts
  <2>1. ip_count < MAX_IPS /\ w.ip \in IPs
    BY <1>7 DEF AddCounts, TableInv, AddGoesOn, Adding
  <2>2. ip_count' \in 0 .. MAX_IPS
    BY <1>b, <1>7, <2>1 DEF AddCounts
  <2> QED
    BY <1>0, <1>3, <1>7, <2>1, <2>2 DEF AddCounts
<1>8. CASE DelTears
  BY <1>0, <1>8 DEF DelTears, Writes
<1>9. CASE DelMoves
  <2>1. w.i \in Used /\ w.i + 1 \in Used
    BY <1>9 DEF DelMoves, TableInv, DelGoesOn, Moving
  <2>2. w.i + 1 \in Entries
    BY <1>b, <2>1
  <2>3. blocked_ips[w.i + 1] \in IPs \cup {"", Torn}
    BY <1>0, <2>2
  <2> QED
    BY <1>0, <1>9, <2>2, <2>3 DEF DelMoves, Writes
<1>10. CASE DelCounts
  <2>1. w.i \in Used
    BY <1>10 DEF DelCounts, TableInv, DelGoesOn, Moving
  <2>2. ip_count - 1 \in 0 .. MAX_IPS
    BY <1>b, <2>1
  <2> QED
    BY <1>0, <1>3, <1>10, <2>2 DEF DelCounts
<1>11. CASE Clear \/ RemoveProcEntry \/ Unregister
  <2>1. /\ loaded' \in {loaded, "closing", "unloaded"} /\ blocked_ips' = blocked_ips
        /\ ip_count' \in {ip_count, 0} /\ w' = w /\ listed' \in {listed, {}}
    BY <1>11 DEF Clear, RemoveProcEntry, Unregister
  <2> QED
    BY <1>0, <1>2, <2>1 DEF Opened
<1> QED
  BY <1>4, <1>5, <1>6, <1>7, <1>8, <1>9, <1>10, <1>11 DEF Commands

\* Every command leaves the table whole, or a del in progress with one entry to
\* overwrite.
LEMMA CommandKeepsTable ==
    ASSUME TableInv, Commands
    PROVE  AtRest' /\ AddGoesOn' /\ DelGoesOn' /\ Counted'
<1>0. /\ loaded \in Opened /\ blocked_ips \in [Entries -> IPs \cup {"", Torn}]
      /\ ip_count \in 0 .. MAX_IPS /\ w \in [at : Writes, ip : IPs \cup {""}, i : Entries]
      /\ listed \subseteq IPs
  BY DEF TableInv, FirewallTypeOK
<1>b. /\ ip_count \in Nat /\ MAX_IPS \in Nat /\ ip_count <= MAX_IPS /\ w.i \in Nat
      /\ \A i : i \in Used <=> i \in Nat /\ i < ip_count
      /\ \A i : i \in Entries <=> i \in Nat /\ i < MAX_IPS
  BY Bounds DEF TableInv
<1>u. Used \subseteq Entries
  BY <1>b
<1>1. ASSUME NEW ip \in IPs, Add(ip) PROVE AtRest' /\ AddGoesOn' /\ DelGoesOn' /\ Counted'
  <2>1. /\ loaded = "loaded" /\ w.at = "idle" /\ ip_count < MAX_IPS
        /\ blocked_ips' = [blocked_ips EXCEPT ![ip_count] = Torn] /\ Find(ip) = {}
        /\ w'.at = "added" /\ w'.ip = ip /\ w'.i = ip_count
        /\ loaded' = loaded /\ ip_count' = ip_count /\ listed' = listed
    BY <1>1 DEF Add, Writing
  <2>2. TableHolds(blocked_ips, Used, listed)
    BY <2>1 DEF TableInv, AtRest, Moving
  <2>a. ip_count \notin Used /\ \A i \in Used : blocked_ips[i] # ip
    BY <1>b, <2>1 DEF Find
  <2>3. TableHolds(blocked_ips', Used, listed)
    <3>1. \A i \in Used : blocked_ips'[i] = blocked_ips[i]
      BY <1>0, <1>u, <2>1, <2>a
    <3> QED
      BY <2>2, <3>1, HoldsAgree
  <2>4. ip \notin listed
    BY <2>a, <2>2 DEF TableHolds
  <2>5. Used' = Used /\ ~Moving'
    BY <2>1 DEF Used, Moving
  <2>6. AtRest'
    BY <2>1, <2>3, <2>5 DEF AtRest
  <2>7. Counted' /\ DelGoesOn'
    BY <2>1, <2>5 DEF TableInv, Counted, DelGoesOn
  <2>8. AddGoesOn'
    BY <2>1, <2>4 DEF AddGoesOn
  <2> QED
    BY <2>6, <2>7, <2>8
<1>2. ASSUME NEW ip \in IPs, Del(ip) PROVE AtRest' /\ AddGoesOn' /\ DelGoesOn' /\ Counted'
  <2>1. PICK i \in Find(ip) : w' = [at |-> "del", ip |-> ip, i |-> i]
    BY <1>2 DEF Del
  <2>2. /\ loaded = "loaded" /\ w.at = "idle" /\ i \in Used /\ blocked_ips[i] = ip
        /\ w'.at = "del" /\ w'.ip = ip /\ w'.i = i
        /\ loaded' = loaded /\ ip_count' = ip_count /\ listed' = listed /\ blocked_ips' = blocked_ips
    <3>1. i \in Used /\ blocked_ips[i] = ip
      BY <1>b, <2>1 DEF Find
    <3> QED
      BY <1>2, <2>1, <3>1 DEF Del, Writing
  <2>3. TableHolds(blocked_ips, Used, listed)
    BY <2>2 DEF TableInv, AtRest, Moving
  <2>4. TableHolds(blocked_ips, Used \ {i}, listed \ {ip}) /\ ip \in listed
    BY <2>2, <2>3, HoldsRemove DEF TableHolds
  <2>5. Used' = Used /\ Moving' /\ ~Adding'
    BY <2>2 DEF Used, Moving, Adding
  <2>6. DelGoesOn'
    BY <2>2, <2>4, <2>5 DEF DelGoesOn
  <2>7. AtRest' /\ AddGoesOn' /\ Counted'
    BY <2>2, <2>5 DEF TableInv, AtRest, AddGoesOn, Counted
  <2> QED
    BY <2>6, <2>7
<1>3. CASE AddCopies
  <2>1. /\ w.at = "added" /\ blocked_ips' = [blocked_ips EXCEPT ![w.i] = w.ip]
        /\ w'.at = "copied" /\ w'.ip = w.ip /\ w'.i = w.i
        /\ loaded' = loaded /\ ip_count' = ip_count /\ listed' = listed
    BY <1>0, <1>3 DEF AddCopies
  <2>2. /\ loaded = "loaded" /\ w.i = ip_count /\ ip_count < MAX_IPS /\ w.ip \in IPs \ listed
        /\ TableHolds(blocked_ips, Used, listed)
    BY <2>1 DEF TableInv, AtRest, AddGoesOn, Adding, Moving
  <2>a. ip_count \notin Used /\ ip_count \in Entries
    BY <1>b, <2>2
  <2>3. TableHolds(blocked_ips', Used, listed)
    <3>1. \A i \in Used : blocked_ips'[i] = blocked_ips[i]
      BY <1>0, <1>u, <2>1, <2>2, <2>a
    <3> QED
      BY <2>2, <3>1, HoldsAgree
  <2>4. blocked_ips'[w.i] = w.ip
    BY <1>0, <2>1, <2>2, <2>a
  <2>5. Used' = Used /\ ~Moving'
    BY <2>1 DEF Used, Moving
  <2>6. AtRest' /\ DelGoesOn'
    BY <2>1, <2>3, <2>5 DEF AtRest, DelGoesOn
  <2>7. AddGoesOn' /\ Counted'
    BY <2>1, <2>2, <2>4 DEF TableInv, AddGoesOn, Counted
  <2> QED
    BY <2>6, <2>7
<1>4. CASE AddCounts
  <2>1. /\ w.at = "copied" /\ blocked_ips' = blocked_ips /\ w'.at = "idle"
        /\ loaded' = loaded /\ ip_count' = ip_count + 1 /\ listed' = listed \cup {w.ip}
    BY <1>4 DEF AddCounts, Idle
  <2>2. /\ loaded = "loaded" /\ w.i = ip_count /\ w.ip \notin listed /\ blocked_ips[ip_count] = w.ip
        /\ TableHolds(blocked_ips, Used, listed)
    BY <2>1 DEF TableInv, AtRest, AddGoesOn, Adding, Moving
  <2>3. TableHolds(blocked_ips, 0 .. (ip_count + 1) - 1, listed \cup {w.ip})
    BY <1>b, <2>2, HoldsAdd DEF Used
  <2>4. AtRest'
    BY <2>1, <2>3 DEF AtRest, Used
  <2>5. AddGoesOn' /\ DelGoesOn'
    BY <2>1 DEF AddGoesOn, DelGoesOn, Adding, Moving
  <2>6. IsFiniteSet(listed) /\ ip_count = Cardinality(listed)
    BY <2>2 DEF TableInv, Counted
  <2>7. /\ IsFiniteSet(listed \cup {w.ip})
        /\ Cardinality(listed \cup {w.ip}) = Cardinality(listed) + 1
    BY <2>2, <2>6, FS_AddElement
  <2>8. Counted'
    BY <2>1, <2>6, <2>7 DEF Counted
  <2> QED
    BY <2>4, <2>5, <2>8
<1>5. CASE DelTears
  <2>1. /\ w.at = "del" /\ w.i < ip_count - 1 /\ blocked_ips' = [blocked_ips EXCEPT ![w.i] = Torn]
        /\ w'.at = "move" /\ w'.ip = w.ip /\ w'.i = w.i
        /\ loaded' = loaded /\ ip_count' = ip_count /\ listed' = listed
    BY <1>0, <1>5 DEF DelTears
  <2>2. /\ loaded = "loaded" /\ w.i \in Used /\ w.ip \in listed
        /\ TableHolds(blocked_ips, Used \ {w.i}, listed \ {w.ip})
    BY <2>1 DEF TableInv, DelGoesOn, Moving
  <2>3. w.i + 1 \in Used
    BY <1>b, <2>1
  <2>4. TableHolds(blocked_ips', Used \ {w.i}, listed \ {w.ip})
    <3>1. \A i \in Used \ {w.i} : blocked_ips'[i] = blocked_ips[i]
      BY <1>0, <1>u, <2>1
    <3> QED
      BY <2>2, <3>1, HoldsAgree
  <2>5. Used' = Used /\ Moving' /\ ~Adding'
    BY <2>1 DEF Used, Moving, Adding
  <2>6. DelGoesOn'
    BY <2>1, <2>2, <2>3, <2>4, <2>5 DEF DelGoesOn
  <2>7. AtRest' /\ AddGoesOn' /\ Counted'
    BY <2>1, <2>5 DEF TableInv, AtRest, AddGoesOn, Counted
  <2> QED
    BY <2>6, <2>7
<1>6. CASE DelMoves
  <2>1. /\ w.at = "move" /\ blocked_ips' = [blocked_ips EXCEPT ![w.i] = blocked_ips[w.i + 1]]
        /\ w'.at = "del" /\ w'.ip = w.ip /\ w'.i = w.i + 1
        /\ loaded' = loaded /\ ip_count' = ip_count /\ listed' = listed
    BY <1>0, <1>6 DEF DelMoves
  <2>2. /\ loaded = "loaded" /\ w.i \in Used /\ w.i + 1 \in Used /\ w.ip \in listed
        /\ TableHolds(blocked_ips, Used \ {w.i}, listed \ {w.ip})
    BY <2>1 DEF TableInv, DelGoesOn, Moving
  <2>3. w.i + 1 \in Used \ {w.i} /\ w.i \in Entries
    BY <1>b, <2>2
  <2>4. /\ blocked_ips'[w.i] = blocked_ips[w.i + 1]
        /\ \A i \in Used \ {w.i} : blocked_ips'[i] = blocked_ips[i]
    BY <1>0, <1>u, <2>1, <2>3
  <2>5. TableHolds(blocked_ips', Used \ {w.i + 1}, listed \ {w.ip})
    <3> DEFINE k == w.i
               m == w.i + 1
               A == listed \ {w.ip}
    <3>1. /\ k \in Used /\ m \in Used \ {k} /\ TableHolds(blocked_ips, Used \ {k}, A)
          /\ blocked_ips'[k] = blocked_ips[m]
          /\ \A i \in Used \ {k} : blocked_ips'[i] = blocked_ips[i]
      BY <2>2, <2>3, <2>4
    <3> HIDE DEF k, m, A
    <3>2. TableHolds(blocked_ips', Used \ {m}, A)
      BY <3>1, HoldsShift
    <3> QED
      BY <3>2 DEF m, A
  <2>6. Used' = Used /\ Moving' /\ ~Adding'
    BY <2>1 DEF Used, Moving, Adding
  <2>7. DelGoesOn'
    BY <2>1, <2>2, <2>5, <2>6 DEF DelGoesOn
  <2>8. AtRest' /\ AddGoesOn' /\ Counted'
    BY <2>1, <2>6 DEF TableInv, AtRest, AddGoesOn, Counted
  <2> QED
    BY <2>7, <2>8
<1>7. CASE DelCounts
  <2>1. /\ w.at = "del" /\ w.i >= ip_count - 1 /\ blocked_ips' = blocked_ips /\ w'.at = "idle"
        /\ loaded' = loaded /\ ip_count' = ip_count - 1 /\ listed' = listed \ {w.ip}
    BY <1>7 DEF DelCounts, Idle
  <2>2. /\ loaded = "loaded" /\ w.i \in Used /\ w.ip \in listed
        /\ TableHolds(blocked_ips, Used \ {w.i}, listed \ {w.ip})
    BY <2>1 DEF TableInv, DelGoesOn, Moving
  <2>3. Used \ {w.i} = 0 .. (ip_count - 1) - 1
    <3>1. w.i = ip_count - 1
      BY <1>b, <2>1, <2>2
    <3>2. (0 .. ip_count - 1) \ {ip_count - 1} = 0 .. (ip_count - 1) - 1
      BY <1>b
    <3> QED
      BY <3>1, <3>2 DEF Used
  <2>4. AtRest'
    BY <2>1, <2>2, <2>3 DEF AtRest, Used
  <2>5. AddGoesOn' /\ DelGoesOn'
    BY <2>1 DEF AddGoesOn, DelGoesOn, Adding, Moving
  <2>6. IsFiniteSet(listed) /\ ip_count = Cardinality(listed)
    BY <2>2 DEF TableInv, Counted
  <2>7. IsFiniteSet(listed \ {w.ip}) /\ Cardinality(listed \ {w.ip}) = Cardinality(listed) - 1
    BY <2>2, <2>6, FS_RemoveElement
  <2>8. Counted'
    BY <2>1, <2>6, <2>7 DEF Counted
  <2> QED
    BY <2>4, <2>5, <2>8
<1>8. CASE Clear
  <2>1. w.at = "idle" /\ w' = w /\ ip_count' = 0 /\ listed' = {} /\ loaded' = loaded
    BY <1>8 DEF Clear, Writing
  <2>2. Used' = {} /\ ~Moving' /\ ~Adding'
    BY <2>1 DEF Used, Moving, Adding
  <2>3. AtRest'
    BY <2>1, <2>2 DEF AtRest, TableHolds
  <2>4. Counted'
    BY <2>1, FS_EmptySet DEF Counted
  <2> QED
    BY <2>2, <2>3, <2>4 DEF AddGoesOn, DelGoesOn
<1>9. CASE RemoveProcEntry
  <2>1. /\ w.at = "idle" /\ w' = w /\ ip_count' = ip_count /\ listed' = listed
        /\ blocked_ips' = blocked_ips /\ loaded = "loaded"
    BY <1>9 DEF RemoveProcEntry, Writing
  <2>2. ~Moving /\ ~Adding /\ ~Moving' /\ ~Adding' /\ Used' = Used
    BY <2>1 DEF Moving, Adding, Used
  <2> QED
    BY <2>1, <2>2 DEF TableInv, AtRest, AddGoesOn, DelGoesOn, Counted
<1>10. CASE Unregister
  <2>1. loaded = "closing" /\ w' = w /\ loaded' = "unloaded"
    BY <1>10 DEF Unregister
  <2>2. ~Moving' /\ ~Adding'
    BY <2>1 DEF TableInv, AddGoesOn, DelGoesOn, Moving, Adding
  <2> QED
    BY <2>1, <2>2 DEF AtRest, AddGoesOn, DelGoesOn, Counted
<1> QED
  BY <1>1, <1>2, <1>3, <1>4, <1>5, <1>6, <1>7, <1>8, <1>9, <1>10 DEF Commands

\* The table stays what the commands have left, whatever runs.
LEMMA TableNext == TableInv /\ [FirewallNext]_firewallVars => TableInv'
<1> SUFFICES ASSUME TableInv, [FirewallNext]_firewallVars PROVE TableInv'
  OBVIOUS
<1>1. CASE Commands
  BY <1>1, CommandTypes, CommandKeepsTable DEF TableInv
<1>2. CASE HookSteps \/ UNCHANGED firewallVars
  <2>1. UNCHANGED table
    BY <1>2, HookReads DEF firewallVars, table
  <2>2. /\ hook' \in [at : Walks, ip : IPs \cup {""}, i : Nat]
        /\ wasListed' \in BOOLEAN /\ shrunk' \in BOOLEAN
    <3>0. /\ hook \in [at : Walks, ip : IPs \cup {""}, i : Nat]
          /\ wasListed \in BOOLEAN /\ shrunk \in BOOLEAN
      BY DEF TableInv, FirewallTypeOK
    <3>1. Idle \in [at : Walks, ip : IPs \cup {""}, i : Nat]
      BY DEF Idle, Walks
    <3>2. ASSUME NEW ip \in IPs, HookBegins(ip)
          PROVE  hook' \in [at : Walks, ip : IPs \cup {""}, i : Nat] /\ wasListed' \in BOOLEAN
                 /\ shrunk' \in BOOLEAN
      <4>1. hook' = [at |-> "test", ip |-> ip, i |-> 0]
        BY <3>2 DEF HookBegins
      <4>2. wasListed' = (ip \in listed) /\ shrunk' = (w.at \in {"del", "move"})
        BY <3>2 DEF HookBegins
      <4>3. wasListed' \in BOOLEAN /\ shrunk' \in BOOLEAN
        BY <4>2
      <4> QED
        BY <3>2, <4>1, <4>3 DEF Walks
    <3>3. CASE HookTests \/ HookDrops \/ HookAccepts \/ UNCHANGED firewallVars
      <4>1. hook' \in {hook, Idle, [hook EXCEPT !.at = "compare"]}
        BY <3>3 DEF HookTests, HookDrops, HookAccepts, firewallVars
      <4>2. wasListed' = wasListed /\ shrunk' = shrunk
        BY <3>3 DEF HookTests, HookDrops, HookAccepts, firewallVars
      <4>3. [hook EXCEPT !.at = "compare"] \in [at : Walks, ip : IPs \cup {""}, i : Nat]
        BY <3>0 DEF Walks
      <4> QED
        BY <3>0, <3>1, <4>1, <4>2, <4>3
    <3>4. CASE HookCompares
      <4>1. hook' = [hook EXCEPT !.at = "test", !.i = hook.i + 1]
        BY <3>4 DEF HookCompares
      <4>2. hook.i \in Nat
        BY <3>0
      <4>3. hook.i + 1 \in Nat
        BY <4>2
      <4>4. wasListed' = wasListed /\ shrunk' = shrunk
        BY <3>4 DEF HookCompares
      <4> QED
        BY <3>0, <4>1, <4>3, <4>4 DEF Walks
    <3> QED
      BY <1>2, <3>2, <3>3, <3>4 DEF HookSteps
  <2>3. FirewallTypeOK'
    BY <2>1, <2>2 DEF FirewallTypeOK, TableInv, table
  <2>4. AtRest' /\ AddGoesOn' /\ DelGoesOn' /\ Counted'
    BY <2>1 DEF TableInv, table, AtRest, AddGoesOn, DelGoesOn, Counted, Adding, Moving, Used
  <2> QED
    BY <2>3, <2>4 DEF TableInv
<1> QED
  BY <1>1, <1>2 DEF FirewallNext, Commands, HookSteps

\* The empty table of firewall_init.
LEMMA TableInit == FirewallInit => TableInv
<1> SUFFICES ASSUME FirewallInit PROVE TableInv
  OBVIOUS
<1>0. MAX_IPS \in Nat /\ MAX_IPS # 0
  BY FirewallAssumption
<1>1. 0 \in Entries /\ 0 \in 0 .. MAX_IPS /\ 0 .. 0 - 1 = {}
  BY <1>0 DEF Entries
<1>2. FirewallTypeOK
  BY <1>1 DEF FirewallInit, FirewallTypeOK, Opened, Idle, Writes, Walks
<1>3. w.at = "idle" /\ ip_count = 0 /\ listed = {}
  BY DEF FirewallInit, Idle
<1>4. AtRest /\ AddGoesOn /\ DelGoesOn
  BY <1>1, <1>3 DEF AtRest, AddGoesOn, DelGoesOn, Adding, Moving, Used, TableHolds
<1>5. Counted
  BY <1>3, FS_EmptySet DEF Counted
<1> QED
  BY <1>2, <1>4, <1>5 DEF TableInv

\* ip_count stays within the table and every index within its range, for every
\* table size and every sequence of commands (firewall.c:78, 101).
THEOREM FirewallTypeCorrect == FirewallSpec => []FirewallTypeOK
<1>1. TableInv => FirewallTypeOK
  BY DEF TableInv
<1> QED
  BY <1>1, TableInit, TableNext, PTL DEF FirewallSpec

\* Between two commands the first ip_count entries are the addresses the
\* commands have left blocked, each once (firewall_write).
THEOREM TableIsCommanded == FirewallSpec => []TableIsWhatWasCommanded
<1>1. ASSUME TableInv PROVE TableIsWhatWasCommanded
  <2> SUFFICES ASSUME w.at = "idle", loaded = "loaded"
               PROVE  /\ ip_count = Cardinality(listed)
                      /\ {blocked_ips[i] : i \in 0 .. ip_count - 1} = listed
    BY DEF TableIsWhatWasCommanded
  <2>1. ip_count = Cardinality(listed)
    BY <1>1 DEF TableInv, Counted
  <2>2. TableHolds(blocked_ips, 0 .. ip_count - 1, listed)
    BY <1>1 DEF TableInv, AtRest, Moving, Used
  <2> QED
    BY <2>1, <2>2 DEF TableHolds
<1> QED
  BY <1>1, TableInit, TableNext, PTL DEF FirewallSpec

-----------------------------------------------------------------------------
\* An addition leaves the used entries alone and gives a walk more to see; all
\* other commands mark the walk.
LEMMA CommandBesideWalk ==
    ASSUME FirewallInv, Commands
    PROVE  WalkIsAhead'
<1>0. FirewallTypeOK /\ hook' = hook /\ wasListed' = wasListed /\ (shrunk' = shrunk \/ shrunk' = TRUE)
  BY CommandKeepsWalk DEF FirewallInv, TableInv
<1>1. CASE loaded' = "unloaded"
  <2>1. hook.at = "idle"
    BY <1>1 DEF Commands, Add, Del, AddCopies, AddCounts, DelTears, DelMoves, DelCounts, Clear,
       RemoveProcEntry, Unregister, Writing, FirewallInv, WalkIsAhead
  <2> QED
    BY <1>0, <2>1 DEF WalkIsAhead
<1>2. CASE loaded' # "unloaded"
  <2> SUFFICES ASSUME hook.at # "idle", ~ shrunk'
               PROVE  /\ ~ Moving'
                      /\ wasListed => \E j \in Used' : j >= hook.i /\ blocked_ips'[j] = hook.ip
                      /\ hook.at = "compare" => hook.i \in Used'
    BY <1>0, <1>2 DEF WalkIsAhead
  <2>1. /\ ~ shrunk /\ ~ Moving
        /\ wasListed => \E j \in Used : j >= hook.i /\ blocked_ips[j] = hook.ip
        /\ hook.at = "compare" => hook.i \in Used
    BY <1>0 DEF FirewallInv, WalkIsAhead
  <2>2. /\ blocked_ips \in [Entries -> IPs \cup {"", Torn}] /\ Used \subseteq Entries
        /\ ip_count \notin Used /\ Used \subseteq 0 .. (ip_count + 1) - 1
    <3>1. /\ ip_count \in Nat /\ w.i \in Nat /\ MAX_IPS \in Nat /\ ip_count <= MAX_IPS
          /\ \A i : i \in Used <=> i \in Nat /\ i < ip_count
          /\ \A i : i \in Entries <=> i \in Nat /\ i < MAX_IPS
      BY <1>0, Bounds
    <3>2. /\ Used \subseteq Entries /\ ip_count \notin Used
          /\ Used \subseteq 0 .. (ip_count + 1) - 1
      BY <3>1
    <3> QED
      BY <1>0, <3>2 DEF FirewallTypeOK
  <2>3. ASSUME Used \subseteq Used', \A j \in Used : blocked_ips'[j] = blocked_ips[j], ~ Moving'
        PROVE  /\ ~ Moving'
               /\ wasListed => \E j \in Used' : j >= hook.i /\ blocked_ips'[j] = hook.ip
               /\ hook.at = "compare" => hook.i \in Used'
    BY <2>1, <2>3
  <2>4. ASSUME NEW ip \in IPs, Add(ip)
        PROVE  Used \subseteq Used' /\ (\A j \in Used : blocked_ips'[j] = blocked_ips[j]) /\ ~ Moving'
    <3>1. /\ blocked_ips' = [blocked_ips EXCEPT ![ip_count] = Torn]
          /\ w'.at = "added" /\ ip_count' = ip_count
      BY <2>4 DEF Add
    <3>3. \A j \in Used : blocked_ips'[j] = blocked_ips[j]
      BY <2>2, <3>1
    <3> QED
      BY <3>1, <3>3 DEF Used, Moving
  <2>5. CASE AddCopies
    <3>1. /\ blocked_ips' = [blocked_ips EXCEPT ![w.i] = w.ip]
          /\ w'.at = "copied" /\ ip_count' = ip_count /\ w.i = ip_count
      BY <1>0, <2>5 DEF AddCopies, FirewallTypeOK, FirewallInv, TableInv, AddGoesOn, Adding
    <3>3. \A j \in Used : blocked_ips'[j] = blocked_ips[j]
      BY <2>2, <3>1
    <3>4. Used' = Used /\ ~ Moving'
      BY <3>1 DEF Used, Moving
    <3> QED
      BY <2>3, <3>3, <3>4
  <2>6. CASE AddCounts
    <3>1. blocked_ips' = blocked_ips /\ ip_count' = ip_count + 1 /\ w'.at = "idle"
      BY <2>6 DEF AddCounts, Idle
    <3>3. Used \subseteq Used' /\ ~ Moving'
      BY <2>2, <3>1 DEF Used, Moving
    <3> QED
      BY <2>3, <3>1, <3>3
  <2>7. CASE RemoveProcEntry \/ Unregister
    <3>1. RemoveProcEntry
      BY <1>2, <2>7 DEF Unregister
    <3>2. blocked_ips' = blocked_ips /\ ip_count' = ip_count /\ w' = w
      BY <3>1 DEF RemoveProcEntry
    <3>3. Used' = Used /\ ~ Moving'
      BY <2>1, <3>2 DEF Used, Moving
    <3> QED
      BY <2>3, <3>2, <3>3
  <2>8. CASE (\E ip \in IPs : Del(ip)) \/ DelTears \/ DelMoves \/ DelCounts \/ Clear
    BY <2>8 DEF Del, DelTears, DelMoves, DelCounts, Clear
  <2> QED
    BY <2>3, <2>4, <2>5, <2>6, <2>7, <2>8 DEF Commands
<1> QED
  BY <1>1, <1>2

\* The hook passes only entries that differ from its address.
LEMMA WalkGoesOn ==
    ASSUME FirewallInv, HookSteps
    PROVE  WalkIsAhead'
<1>0. UNCHANGED table /\ hook \in [at : Walks, ip : IPs \cup {""}, i : Nat]
  BY HookReads DEF FirewallInv, TableInv, FirewallTypeOK
<1>1. Used' = Used /\ Moving' = Moving /\ blocked_ips' = blocked_ips /\ loaded' = loaded
  BY <1>0 DEF table, Used, Moving
<1>2. /\ ip_count \in Nat
      /\ \A i : i \in Used <=> i \in Nat /\ i < ip_count
  BY Bounds DEF FirewallInv, TableInv
<1>3. ASSUME NEW ip \in IPs, HookBegins(ip) PROVE WalkIsAhead'
  <2>1. /\ loaded # "unloaded" /\ hook'.at = "test" /\ hook'.ip = ip /\ hook'.i = 0
        /\ wasListed' = (ip \in listed) /\ shrunk' = Moving
    BY <1>3 DEF HookBegins, Moving
  <2>2. ~ Moving /\ ip \in listed => \E j \in Used : blocked_ips[j] = ip
    BY <2>1 DEF FirewallInv, TableInv, AtRest, TableHolds
  <2>3. \A j \in Used : j >= 0
    BY <1>2
  <2> QED
    BY <1>1, <2>1, <2>2, <2>3 DEF WalkIsAhead
<1>4. CASE HookTests
  <2>1. /\ hook.at = "test" /\ hook'.at = "compare" /\ hook'.i = hook.i /\ hook'.ip = hook.ip
        /\ wasListed' = wasListed /\ shrunk' = shrunk /\ hook.i < ip_count /\ hook.i \in Nat
    BY <1>0, <1>4 DEF HookTests, More
  <2>2. hook.i \in Used
    BY <1>2, <2>1
  <2> QED
    BY <1>1, <2>1, <2>2 DEF WalkIsAhead, FirewallInv
<1>5. CASE HookCompares
  <2>1. /\ hook.at = "compare" /\ hook'.at = "test" /\ hook'.i = hook.i + 1 /\ hook'.ip = hook.ip
        /\ wasListed' = wasListed /\ shrunk' = shrunk /\ hook.i \in Nat
        /\ blocked_ips[hook.i] # hook.ip
    BY <1>0, <1>5 DEF HookCompares, Differs
  <2>2. ASSUME ~ shrunk, wasListed
        PROVE  \E j \in Used : j >= hook.i + 1 /\ blocked_ips[j] = hook.ip
    <3>1. PICK j \in Used : j >= hook.i /\ blocked_ips[j] = hook.ip
      BY <2>1, <2>2 DEF FirewallInv, WalkIsAhead
    <3>2. j # hook.i /\ j \in Nat
      BY <1>2, <2>1, <3>1
    <3>3. j >= hook.i + 1
      BY <2>1, <3>1, <3>2
    <3> QED
      BY <3>1, <3>3
  <2> QED
    BY <1>1, <2>1, <2>2 DEF WalkIsAhead, FirewallInv
<1>6. CASE HookDrops \/ HookAccepts
  <2>1. hook'.at = "idle"
    <3>1. hook' = Idle
      BY <1>6 DEF HookDrops, HookAccepts
    <3> QED
      BY <3>1 DEF Idle
  <2> QED
    BY <2>1 DEF WalkIsAhead
<1> QED
  BY <1>3, <1>4, <1>5, <1>6 DEF HookSteps

\* The inductive invariant of the table and the walk.
LEMMA FirewallInductive == FirewallInv /\ [FirewallNext]_firewallVars => FirewallInv'
<1> SUFFICES ASSUME FirewallInv, [FirewallNext]_firewallVars PROVE FirewallInv'
  OBVIOUS
<1>1. TableInv'
  BY TableNext DEF FirewallInv
<1>2. CASE UNCHANGED firewallVars
  BY <1>1, <1>2 DEF FirewallInv, WalkIsAhead, Moving, Used, firewallVars
<1> QED
  BY <1>1, <1>2, CommandBesideWalk, WalkGoesOn DEF FirewallNext, Commands, HookSteps, FirewallInv

\* A packet is accepted only if its address was not blocked when the walk of
\* firewall_hook began, and dropped only if it is blocked, unless a del or a
\* clear was at work meanwhile.
THEOREM HookVerdict == FirewallSpec => HookIsRight
<1>1. FirewallInit => FirewallInv
  <2>1. FirewallInit => hook.at = "idle"
    <3>1. FirewallInit => hook = Idle
      BY DEF FirewallInit
    <3>2. Idle.at = "idle"
      BY DEF Idle
    <3> QED
      BY <3>1, <3>2
  <2> QED
    BY <2>1, TableInit DEF FirewallInv, WalkIsAhead
<1>2. ASSUME FirewallInv, [FirewallNext]_firewallVars
      PROVE  [(hook.at # "idle" /\ hook'.at = "idle" /\ ~ shrunk) =>
                IF hook.at = "test" THEN ~ wasListed ELSE hook.ip \in listed]_firewallVars
  <2> SUFFICES ASSUME hook.at # "idle", hook'.at = "idle", ~ shrunk
               PROVE  IF hook.at = "test" THEN ~ wasListed ELSE hook.ip \in listed
    OBVIOUS
  <2>0. /\ hook \in [at : Walks, ip : IPs \cup {""}, i : Nat] /\ listed \subseteq IPs
    BY <1>2 DEF FirewallInv, TableInv, FirewallTypeOK
  <2>b. ip_count \in Nat /\ \A i : i \in Used <=> i \in Nat /\ i < ip_count
    BY <1>2, Bounds DEF FirewallInv, TableInv
  <2>1. /\ loaded # "unloaded" /\ ~ Moving
        /\ wasListed => \E j \in Used : j >= hook.i /\ blocked_ips[j] = hook.ip
        /\ hook.at = "compare" => hook.i \in Used
    BY <1>2 DEF FirewallInv, WalkIsAhead
  <2>2. HookDrops \/ HookAccepts
    <3>1. CASE Commands \/ UNCHANGED firewallVars
      BY <1>2, <3>1, CommandKeepsWalk DEF firewallVars, FirewallInv, TableInv
    <3>2. CASE HookSteps
      BY <2>0, <3>2 DEF HookSteps, HookBegins, HookTests, HookCompares
    <3> QED
      BY <1>2, <3>1, <3>2 DEF FirewallNext, Commands, HookSteps
  <2>3. CASE HookDrops
    <3>1. hook.at = "compare" /\ blocked_ips[hook.i] \in {hook.ip, Torn}
      BY <2>3 DEF HookDrops, Matches
    <3>2. blocked_ips[hook.i] \in listed
      BY <1>2, <2>1, <3>1 DEF FirewallInv, TableInv, AtRest, TableHolds
    <3>3. Torn \notin IPs
      BY FirewallAssumption
    <3> QED
      BY <2>0, <3>1, <3>2, <3>3
  <2>4. CASE HookAccepts
    <3>1. hook.at = "test" /\ ~ (hook.i < ip_count) /\ hook.i \in Nat
      BY <2>0, <2>4 DEF HookAccepts, More
    <3>2. \A j \in Used : ~ (j >= hook.i)
      BY <2>b, <3>1
    <3> QED
      BY <2>1, <3>1, <3>2
  <2> QED
    BY <2>2, <2>3, <2>4
<1> QED
  BY <1>1, <1>2, FirewallInductive, PTL DEF FirewallSpec, HookIsRight

=============================================================================
