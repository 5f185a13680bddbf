------------------------------- MODULE Broker -------------------------------
(***************************************************************************)
(* module3/02: a publish/subscribe broker over one System V message queue. *)
(* Publishers and subscribers send their commands to the queue with type   *)
(* 1; the broker takes them in order and sends each line to the            *)
(* subscribers of its topic, in the same queue, with the type of the       *)
(* subscriber's process id.  The queue is limited: msgsnd waits for room.  *)
(*                                                                         *)
(* The queue is a sequence of messages of one size; a line is the number   *)
(* of the line its publisher typed.                                        *)
(***************************************************************************)
EXTENDS Integers, Sequences

CONSTANTS
    Publishers, Subscribers,  \* the client processes
    TheBroker,                \* message type 1
    TopicOf,                  \* TopicOf[p]: argv[2] of a publisher
    TopicsOf,                 \* TopicsOf[s]: the topics of a subscriber, in order
    QueueRoom,                \* messages the queue has room for
    MaxSubs,                  \* MAX_SUBSCRIPTIONS: 200 in broker.h
    MaxPubs,                  \* MAX_PID_LIST: 100 in broker.h
    MaxLines                  \* bound on the lines typed into one publisher

Clients == Publishers \cup Subscribers

ASSUME BrokerAssumption ==
    /\ Publishers \cap Subscribers = {} /\ TheBroker \notin Clients
    /\ DOMAIN TopicOf = Publishers
    /\ \A s \in Subscribers : Len(TopicsOf[s]) \in 0..10
    /\ {QueueRoom, MaxSubs, MaxPubs} \subseteq Nat \ {0} /\ MaxLines \in Nat

VARIABLES
    exists,    \* the queue: "none", "live" or "removed"
    queue,     \* its messages, oldest first
    bpc,       \* where the broker is
    msg,       \* the command it took last
    found,     \* the entries of subs it has still to send msg to
    subs,      \* subscriptions[0..sub_count - 1]
    pubs,      \* publishers[0..pub_count - 1]
    killed,    \* how many clients its signal handler has signalled
    pc,        \* where each client is
    signalled, \* clients with a SIGINT of the broker on its way
    typed,     \* lines typed into each publisher
    topic,     \* how many of its topics a subscriber has gone through
    got        \* what each subscriber has received

pubSubVars == <<exists, queue, bpc, msg, found, subs, pubs, killed, pc, signalled, typed, topic, got>>

\* What parse_message finds in the text of a command.
Command(c, pid, t, n) == [to |-> TheBroker, command |-> c, pid |-> pid, topic |-> t, payload |-> n]

\* The broker's text for a subscriber; the publisher is not part of it and is
\* kept to state the properties.
Copy(s, m) == [to |-> s, command |-> "line", pid |-> m.pid, topic |-> m.topic, payload |-> m.payload]

NoMsg == Command("none", TheBroker, "none", 0)

Goto(c, l) == pc' = [pc EXCEPT ![c] = l]

PubSubInit == /\ exists = "none" /\ queue = <<>>
              /\ bpc = "start" /\ msg = NoMsg /\ found = {}
              /\ subs = <<>> /\ pubs = <<>> /\ killed = 0
              /\ pc = [c \in Clients |-> "start"]
              /\ signalled = {}
              /\ typed = [p \in Publishers |-> 0]
              /\ topic = [s \in Subscribers |-> 0]
              /\ got = [s \in Subscribers |-> <<>>]

-----------------------------------------------------------------------------
(* The queue. *)

\* msgsnd
Put(m) == /\ exists = "live" /\ Len(queue) < QueueRoom
          /\ queue' = Append(queue, m)

\* msgrcv of the oldest message of a type, here the one at index k
Oldest(k, to) == /\ exists = "live"
                 /\ k \in DOMAIN queue /\ queue[k].to = to
                 /\ \A j \in 1..(k - 1) : queue[j].to # to

Without(s, k) == SubSeq(s, 1, k - 1) \o SubSeq(s, k + 1, Len(s))

Take(k) == queue' = Without(queue, k)

-----------------------------------------------------------------------------
(* run_broker *)

tables     == <<subs, pubs>>
clientVars == <<pc, signalled, typed, topic, got>>

\* msgget(IPC_CREAT | IPC_EXCL)
Create == /\ bpc = "start"
          /\ \/ exists' = "live" /\ bpc' = "created"
             \/ bpc' = "ended" /\ UNCHANGED exists
          /\ UNCHANGED <<queue, msg, found, tables, killed, clientVars>>

\* signal(SIGINT, ...) and signal(SIGTERM, ...)
Install == /\ bpc = "created"
           /\ bpc' = "rcv"
           /\ UNCHANGED <<exists, queue, msg, found, tables, killed, clientVars>>

\* Mutant of BrokerReceive: the newest command first.
BrokerReceiveNewest ==
    /\ bpc = "rcv"
    /\ \E k \in DOMAIN queue : /\ exists = "live" /\ queue[k].to = TheBroker
                               /\ \A j \in (k + 1)..Len(queue) : queue[j].to # TheBroker
                               /\ msg' = queue[k] /\ Take(k)
    /\ bpc' = "handle"
    /\ UNCHANGED <<exists, found, tables, killed, clientVars>>

BrokerReceive == /\ bpc = "rcv"
                 /\ \E k \in DOMAIN queue : Oldest(k, TheBroker) /\ msg' = queue[k] /\ Take(k)
                 /\ bpc' = "handle"
                 /\ UNCHANGED <<exists, found, tables, killed, clientVars>>

\* A process is entered once for a topic, or as a publisher, while there is room.
AddOnce(table, entry, limit) ==
    IF (\A k \in DOMAIN table : table[k] # entry) /\ Len(table) < limit
      THEN Append(table, entry) ELSE table

remove_subscription(entry) ==
    IF \E k \in DOMAIN subs : subs[k] = entry
      THEN Without(subs, CHOOSE k \in DOMAIN subs :
                             subs[k] = entry /\ \A j \in 1..(k - 1) : subs[j] # entry)
      ELSE subs

\* The code copies the process ids of these entries; subs stays as it is while
\* they are served.
find_subscribers(t) == {k \in DOMAIN subs : subs[k][2] = t}

Handle ==
    /\ bpc = "handle"
    /\ subs' = CASE msg.command = "subscribe"   -> AddOnce(subs, <<msg.pid, msg.topic>>, MaxSubs)
                 [] msg.command = "unsubscribe" -> remove_subscription(<<msg.pid, msg.topic>>)
                 [] OTHER                       -> subs
    /\ pubs' = IF msg.command = "register" THEN AddOnce(pubs, msg.pid, MaxPubs) ELSE pubs
    /\ found' = IF msg.command = "send" THEN find_subscribers(msg.topic) ELSE {}
    /\ bpc' = IF found' = {} THEN "rcv" ELSE "send"
    /\ UNCHANGED <<exists, queue, msg, killed, clientVars>>

\* One msgsnd of the loop over subscribers: it waits for room in the queue
\* that only the broker and the subscribers empty.
BrokerSend == /\ bpc = "send"
              /\ \E k \in found : /\ \A j \in found : k <= j
                                  /\ Put(Copy(subs[k][1], msg))
                                  /\ found' = found \ {k}
              /\ bpc' = IF found' = {} THEN "rcv" ELSE "send"
              /\ UNCHANGED <<exists, msg, tables, killed, clientVars>>

\* SIGINT or SIGTERM.  Before the handler is installed it ends the process.
BrokerInterrupt == /\ bpc \in {"start", "created", "rcv", "handle", "send"}
                   /\ bpc' = IF bpc \in {"start", "created"} THEN "ended" ELSE "h_kill"
                   /\ UNCHANGED <<exists, queue, msg, found, tables, killed, clientVars>>

\* broker_signal_handler: first the publishers, then the subscribers
Known == pubs \o [k \in DOMAIN subs |-> subs[k][1]]

\* Mutant of HandlerKill: the loop stops one entry early.
HandlerKillShort == /\ bpc = "h_kill"
                    /\ IF killed + 1 < Len(Known)
                         THEN /\ signalled' = signalled \cup {Known[killed + 1]}
                              /\ killed' = killed + 1 /\ UNCHANGED bpc
                         ELSE bpc' = "h_remove" /\ UNCHANGED <<signalled, killed>>
                    /\ UNCHANGED <<exists, queue, msg, found, tables, pc, typed, topic, got>>

HandlerKill == /\ bpc = "h_kill"
               /\ IF killed < Len(Known)
                    THEN /\ signalled' = signalled \cup {Known[killed + 1]}
                         /\ killed' = killed + 1 /\ UNCHANGED bpc
                    ELSE bpc' = "h_remove" /\ UNCHANGED <<signalled, killed>>
               /\ UNCHANGED <<exists, queue, msg, found, tables, pc, typed, topic, got>>

HandlerRemove == /\ bpc = "h_remove"
                 /\ exists' = "removed" /\ queue' = <<>>
                 /\ bpc' = "ended"
                 /\ UNCHANGED <<msg, found, tables, killed, clientVars>>

brokerVars == <<exists, bpc, msg, found, tables, killed>>

-----------------------------------------------------------------------------
(* run_publisher *)

\* Both kinds of clients end when msgget finds no queue.
StartClient(c) == /\ pc[c] = "start"
                  /\ Goto(c, IF exists = "live" THEN "announce" ELSE "ended")
                  /\ UNCHANGED <<brokerVars, queue, signalled, typed, topic, got>>

\* A msgsnd of a command: the client goes on when it is in the queue and ends
\* when the queue is removed.
PutOrEnd(c, m, l) == \/ Put(m) /\ Goto(c, l)
                     \/ exists = "removed" /\ Goto(c, "ended") /\ UNCHANGED queue

Announce(p) == /\ pc[p] = "announce"
               /\ PutOrEnd(p, Command("register", p, TopicOf[p], 0), "type")
               /\ UNCHANGED <<brokerVars, signalled, typed, topic, got>>

TypeLine(p) == /\ pc[p] = "type"
               /\ typed[p] < MaxLines
               /\ typed' = [typed EXCEPT ![p] = @ + 1]
               /\ Goto(p, "send")
               /\ UNCHANGED <<brokerVars, queue, signalled, topic, got>>

\* "quit", or the end of the input
Quit(p) == /\ pc[p] = "type"
           /\ Goto(p, "ended")
           /\ UNCHANGED <<brokerVars, queue, signalled, typed, topic, got>>

PublisherSend(p) == /\ pc[p] = "send"
                    /\ PutOrEnd(p, Command("send", p, TopicOf[p], typed[p]), "type")
                    /\ UNCHANGED <<brokerVars, signalled, typed, topic, got>>

-----------------------------------------------------------------------------
(* run_subscriber *)

\* One round of the loop that subscribes, or its end.
SubscribeTo(s) ==
    /\ pc[s] = "announce"
    /\ IF topic[s] < Len(TopicsOf[s])
         THEN /\ PutOrEnd(s, Command("subscribe", s, TopicsOf[s][topic[s] + 1], 0), "announce")
              /\ topic' = [topic EXCEPT ![s] = @ + 1]
         ELSE Goto(s, "rcv") /\ UNCHANGED <<queue, topic>>
    /\ UNCHANGED <<brokerVars, signalled, typed, got>>

\* Mutant of SubscriberReceive: only the oldest message of the queue is looked at.
SubscriberReceiveHead(s) ==
    /\ pc[s] = "rcv" /\ Oldest(1, s)
    /\ got' = [got EXCEPT ![s] = Append(@, queue[1])] /\ Take(1)
    /\ UNCHANGED <<brokerVars, pc, signalled, typed, topic>>

SubscriberReceive(s) ==
    /\ pc[s] = "rcv"
    /\ \E k \in DOMAIN queue : /\ Oldest(k, s)
                               /\ got' = [got EXCEPT ![s] = Append(@, queue[k])] /\ Take(k)
    /\ UNCHANGED <<brokerVars, pc, signalled, typed, topic>>

\* EIDRM, or EINVAL when the queue was gone before the call: the loop ends.
BrokerExited(s) == /\ pc[s] = "rcv" /\ exists = "removed"
                   /\ Goto(s, "unsub")
                   /\ topic' = [topic EXCEPT ![s] = 0]
                   /\ UNCHANGED <<brokerVars, queue, signalled, typed, got>>

\* One round of the loop that unsubscribes, whose msgsnd is not checked.
UnsubscribeFrom(s) ==
    /\ pc[s] = "unsub"
    /\ IF topic[s] < Len(TopicsOf[s])
         THEN /\ IF exists = "live"
                   THEN Put(Command("unsubscribe", s, TopicsOf[s][topic[s] + 1], 0))
                   ELSE UNCHANGED queue
              /\ topic' = [topic EXCEPT ![s] = @ + 1] /\ UNCHANGED pc
         ELSE Goto(s, "ended") /\ UNCHANGED <<queue, topic>>
    /\ UNCHANGED <<brokerVars, signalled, typed, got>>

-----------------------------------------------------------------------------
(* publisher_signal_handler and subscriber_signal_handler *)

\* The broker's SIGINT arrives.
Signalled(c) == /\ c \in signalled /\ pc[c] # "ended"
                /\ Goto(c, "ended")
                /\ UNCHANGED <<brokerVars, queue, signalled, typed, topic, got>>

\* SIGINT or SIGTERM from anybody else.
Interrupted(c) == /\ pc[c] # "ended"
                  /\ Goto(c, "ended")
                  /\ UNCHANGED <<brokerVars, queue, signalled, typed, topic, got>>

-----------------------------------------------------------------------------
BrokerStep == \/ Create \/ Install \/ BrokerReceive \/ Handle \/ BrokerSend
              \/ HandlerKill \/ HandlerRemove

PublisherStep(p)  == StartClient(p) \/ Announce(p) \/ PublisherSend(p)
SubscriberStep(s) == \/ StartClient(s) \/ SubscribeTo(s) \/ SubscriberReceive(s)
                     \/ BrokerExited(s) \/ UnsubscribeFrom(s)

PubSubNext == \/ BrokerStep \/ BrokerInterrupt
              \/ \E p \in Publishers : PublisherStep(p) \/ TypeLine(p) \/ Quit(p)
              \/ \E s \in Subscribers : SubscriberStep(s)
              \/ \E c \in Clients : Signalled(c) \/ Interrupted(c)

PubSubSpec == PubSubInit /\ [][PubSubNext]_pubSubVars

\* The scheduler runs every process and delivers signals; nobody has to type,
\* and nobody has to press Ctrl-C.
FairPubSub == /\ PubSubSpec
              /\ WF_pubSubVars(BrokerStep)
              /\ \A p \in Publishers : WF_pubSubVars(PublisherStep(p))
              /\ \A s \in Subscribers : WF_pubSubVars(SubscriberStep(s))
              /\ \A c \in Clients : WF_pubSubVars(Signalled(c))

-----------------------------------------------------------------------------
(* Properties. *)

\* Everything on its way to s or there: received, in the queue, or being sent.
Coming(s) == IF bpc = "send" /\ \E k \in found : subs[k][1] = s THEN <<Copy(s, msg)>> ELSE <<>>
Stream(s) == got[s] \o queue \o Coming(s)

\* m is a line of the publisher p for s.
IsLine(m, s, p) == m.to = s /\ m.pid = p

\* From its first line on, a subscriber gets the lines of each publisher one after the
\* other: none twice, none overtaken and none lost, whichever processes the
\* queue makes wait (broker.c:88-160, subscriber.c:57), and nothing else.
LinesInOrder ==
    \A s \in Subscribers :
        LET q == Stream(s) IN
        /\ \A k \in DOMAIN q : q[k].to = s => q[k] = Copy(s, q[k]) /\ q[k].pid \in Publishers
        /\ \A p \in Publishers : \A j, k \in DOMAIN q :
              (j < k /\ IsLine(q[j], s, p) /\ IsLine(q[k], s, p)) =>
                 /\ q[j].payload < q[k].payload
                 /\ \E l \in DOMAIN q : IsLine(q[l], s, p) /\ q[l].payload = q[j].payload + 1

\* s reads nothing: it has ended, or it waits for room for its own command.
Deaf(s) == pc[s] = "ended" \/ (pc[s] = "announce" /\ topic[s] < Len(TopicsOf[s]))

\* Nobody will ever make room.
Stuck == /\ Len(queue) = QueueRoom
         /\ \A k \in DOMAIN queue : queue[k].to = TheBroker \/ Deaf(queue[k].to)

\* The broker waits in msgsnd (broker.c:150) for ever only when the queue is
\* full of commands to the broker itself and of lines to subscribers that are
\* gone or wait like the broker.
BrokerGoesOn == bpc = "send" ~> (bpc # "send" \/ Stuck)

\* Once the broker has removed the queue, every subscriber and every publisher
\* that it knew ends, also one that waits for the keyboard (broker.c:43-61).
Shutdown == \A c \in Clients :
    (exists = "removed" /\ (c \in Subscribers \/ \E k \in DOMAIN pubs : pubs[k] = c))
        ~> pc[c] = "ended"
=============================================================================
