------------------------------ MODULE EchoServer -----------------------------
(***************************************************************************)
(* The raw-socket UDP echo server of module3/cross1 and its clients.  The  *)
(* server numbers the messages of each client address and starts again at  *)
(* 1 after the address has sent CLOSE.  Raw sockets see every datagram of  *)
(* the host, several clients may use one port, and the network loses and   *)
(* reorders datagrams.  An address is its port; the host is the loopback.  *)
(***************************************************************************)
EXTENDS UdpChecksum, FiniteSets

CONSTANTS Procs,        \* client processes, each run once
          PortOf,       \* the port each is given, never the server's
          TextOf,       \* the line its user types, as bytes
          PORT,         \* the server's port
          Sizes,        \* the values of MAX_CLIENTS considered
          MaxMsgs       \* bound: lines typed

ASSUME EchoAssumption == /\ PORT \in Nat /\ PortOf \in [Procs -> Nat \ {PORT}]
                         /\ Sizes \subseteq Nat /\ MaxMsgs \in Nat

VARIABLES srv,      \* "running", "asked" to stop by a signal, or "stopped"
          clients,  \* the server's slots, MAX_CLIENTS of them
          net,      \* datagrams on their way
          proc,     \* the state of each client: "off", "on" or "gone"
          got,      \* the numbers each clean client has printed
          typed,    \* lines each client has sent
          since,    \* per port, messages answered since its last CLOSE
          clean     \* clients that met no trace of an earlier one on their port

vars == <<srv, clients, net, proc, got, typed, since, clean>>

Slots == DOMAIN clients
Ports == {PortOf[p] : p \in Procs}
Free == [active |-> FALSE, addr |-> PORT, counter |-> 0]
Loopback == <<Word(127, 0), Word(0, 1)>>
AnyAddress == <<0, 0>>
CLOSE == <<67, 76, 79, 83, 69>>
IsClose(data) == Len(data) >= 5 /\ SubSeq(data, 1, 5) = CLOSE
Numbered(data, n) == data \o <<32, 48 + n>>     \* "%s %d", n below 10

\* build_udp_packet, and the same lines of client.c, where saddr is
\* INADDR_ANY; the kernel puts the host's address in its place after the
\* checksum has been computed.  The line of a client it is or answers, and the
\* number n in an answer, identify a datagram.
Datagram(line, saddr, source, dest, data, n) ==
    [line |-> line, source |-> source, dest |-> dest, data |-> data, n |-> n,
     check |-> udp_checksum(HeaderWords(saddr, Loopback, source, dest, Len(data)), data)]

Init ==
    /\ srv = "running" /\ \E m \in Sizes : clients = [i \in 1 .. m |-> Free]
    /\ net = {}
    /\ proc = [p \in Procs |-> "off"]
    /\ got = [p \in Procs |-> <<>>] /\ typed = [p \in Procs |-> 0]
    /\ since = [a \in Ports |-> 0] /\ clean = {}

-----------------------------------------------------------------------------
(***************************************************************************)
(* The clients.                                                            *)
(***************************************************************************)

On(p) == proc[p] = "on"

Start(p) ==
    /\ proc[p] = "off"
    /\ proc' = [proc EXCEPT ![p] = "on"]
    /\ LET a == PortOf[p]
           others == {q \in Procs : On(q) /\ PortOf[q] = a}
       IN clean' = IF /\ others = {} /\ since[a] = 0
                      /\ \A d \in net : a \notin {d.source, d.dest}
                   THEN clean \union {p} ELSE clean \ others
    /\ UNCHANGED <<srv, clients, net, got, typed, since>>

TypeLine(p) ==
    /\ On(p) /\ FoldFunctionOnSet(LAMBDA x, y : x + y, 0, typed, Procs) < MaxMsgs
    /\ typed' = [typed EXCEPT ![p] = @ + 1]
    /\ net' = net \union {Datagram(<<p, typed'[p]>>, AnyAddress, PortOf[p], PORT, TextOf[p], 0)}
    /\ UNCHANGED <<srv, clients, proc, got, since, clean>>

\* The client's signal_handler: send CLOSE and exit.  A client that ends
\* without it leaves what one whose CLOSE is lost leaves.
ClientSignal(p) ==
    /\ On(p)
    /\ net' = net \union {Datagram(<<p, 0>>, AnyAddress, PortOf[p], PORT, CLOSE, 0)}
    /\ proc' = [proc EXCEPT ![p] = "gone"]
    /\ UNCHANGED <<srv, clients, got, typed, since, clean>>

-----------------------------------------------------------------------------
(***************************************************************************)
(* The server.  After a signal it finds running cleared only when the      *)
(* next datagram, of whatever port, lets recvfrom return.                  *)
(***************************************************************************)

ServerSignal ==
    /\ srv = "running"
    /\ srv' = "asked"
    /\ UNCHANGED <<clients, net, proc, got, typed, since, clean>>

LoopTurn == srv' = IF srv = "asked" THEN "stopped" ELSE srv

Holds(i, a) == clients[i].active /\ clients[i].addr = a
FirstHolding(i, a) == Holds(i, a) /\ \A j \in Slots : Holds(j, a) => i <= j
FirstFree(i) == ~ clients[i].active /\ \A j \in Slots : ~ clients[j].active => i <= j

\* Mutant of RemoveClient: active is not cleared.
RemoveClientStaysActive(a) ==
    \/ \E i \in Slots : /\ FirstHolding(i, a)
                        /\ clients' = [clients EXCEPT ![i].counter = 0]
    \/ /\ \A i \in Slots : ~ Holds(i, a)
       /\ UNCHANGED clients

\* remove_client
RemoveClient(a) ==
    \/ \E i \in Slots : /\ FirstHolding(i, a)
                        /\ clients' = [clients EXCEPT ![i] =
                               [active |-> FALSE, addr |-> a, counter |-> 0]]
    \/ /\ \A i \in Slots : ~ Holds(i, a)
       /\ UNCHANGED clients

\* Mutant of FindClient: one loop looks for the address and for a free slot.
FindInOnePass(a, i) ==
    (Holds(i, a) \/ ~ clients[i].active) /\
    \A j \in Slots : (Holds(j, a) \/ ~ clients[j].active) => i <= j

\* find_client: the address's own slot, or else the first free one, whose
\* counter starts at 1.
FindClient(a, i) ==
    \/ FirstHolding(i, a)
    \/ (\A j \in Slots : ~ Holds(j, a)) /\ FirstFree(i)
Counter(a, i) == IF Holds(i, a) THEN clients[i].counter ELSE 1

HandleClose(d) ==
    /\ d.dest = PORT /\ IsClose(d.data)
    /\ RemoveClient(d.source)
    /\ LoopTurn
    /\ net' = net \ {d}
    /\ since' = [since EXCEPT ![d.source] = 0]
    /\ UNCHANGED <<proc, got, typed, clean>>

HandleMessage(d) ==
    /\ d.dest = PORT /\ ~ IsClose(d.data)
    /\ LoopTurn
    /\ \/ \E i \in Slots :
             /\ FindClient(d.source, i)
             /\ LET n == Counter(d.source, i) IN
                /\ clients' = [clients EXCEPT ![i] =
                       [active |-> TRUE, addr |-> d.source, counter |-> n + 1]]
                /\ net' = (net \ {d}) \union
                       {Datagram(d.line, Loopback, PORT, d.source, Numbered(d.data, n), n)}
             /\ since' = [since EXCEPT ![d.source] = @ + 1]
       \/ /\ \A i \in Slots : clients[i].active /\ clients[i].addr # d.source
          /\ net' = net \ {d}
          /\ UNCHANGED <<clients, since>>
    /\ UNCHANGED <<proc, got, typed, clean>>

\* A reply reaches every raw socket: the clients on its port print it, the
\* others and the server's own filter drop it.
Deliver(d) ==
    /\ d.source = PORT
    /\ net' = net \ {d}
    /\ got' = [p \in Procs |-> IF On(p) /\ PortOf[p] = d.dest /\ p \in clean
                               THEN Append(got[p], d.n)
                               ELSE got[p]]
    /\ LoopTurn
    /\ UNCHANGED <<clients, proc, typed, since, clean>>

Lose(d) ==
    /\ net' = net \ {d}
    /\ UNCHANGED <<srv, clients, proc, got, typed, since, clean>>

\* Once the server has stopped nothing is numbered any more.
Next ==
    /\ srv # "stopped"
    /\ \/ \E p \in Procs : Start(p) \/ TypeLine(p) \/ ClientSignal(p)
       \/ \E d \in net : HandleClose(d) \/ HandleMessage(d) \/ Deliver(d) \/ Lose(d)
       \/ ServerSignal

Spec == Init /\ [][Next]_vars

-----------------------------------------------------------------------------
(***************************************************************************)
(* Properties.                                                             *)
(***************************************************************************)

TypeOK ==
    /\ srv \in {"running", "asked", "stopped"}
    /\ clients \in Seq([active : BOOLEAN, addr : Nat, counter : Nat])
    /\ since \in [Ports -> Nat]
    /\ \A d \in net : d.dest = PORT => d.source \in Ports

\* The slots are a map from addresses to counters, whatever slots are freed
\* and taken in between: an address has at most one slot, it has one exactly
\* when it has been answered since its last CLOSE, and its next number is one
\* more than the answers since then.
CountsSinceClose ==
    /\ \A i, j \in Slots : (clients[i].active /\ clients[j].active
                             /\ clients[i].addr = clients[j].addr) => i = j
    /\ \A a \in Ports : (since[a] > 0) <=> \E i \in Slots : Holds(i, a)
    /\ \A i \in Slots : clients[i].active =>
          clients[i].addr \in Ports /\ clients[i].counter = since[clients[i].addr] + 1

\* A client that is alone on its port, met no trace of an earlier one (a slot
\* whose CLOSE was lost, a CLOSE still on its way) and types no line that
\* begins with CLOSE sees each number at most once, and none above the number
\* of lines it has typed.
FreshClientCounts ==
    \A p \in clean : ~ IsClose(TextOf[p]) =>
        IsInjective(got[p]) /\ ToSet(got[p]) \subseteq 1 .. typed[p]

\* A receiver that checked the datagrams as they arrive would accept exactly
\* the server's answers of even length, or whose last byte is zero.  The
\* end-around carries are right; but an odd payload's last byte is not summed
\* (checksum.c:49), and a client sums a source address of zero (client.c:85).
OnlyEvenAnswersVerify ==
    \A d \in net :
        Verifies(HeaderWords(Loopback, Loopback, d.source, d.dest, Len(d.data)), d.data, d.check)
          <=> d.source = PORT /\ (Len(d.data) % 2 = 0 \/ d.data[Len(d.data)] = 0)
=============================================================================
