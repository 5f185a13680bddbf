------------------------------- MODULE TcpChat -------------------------------
(***************************************************************************)
(* The TCP chat of module3/07: one server thread on an edge-triggered      *)
(* epoll (server.c) and its clients (client.c).                            *)
(*                                                                         *)
(* A Message is two halves of the byte stream, so that recv may return     *)
(* less than one Message.  The three file messages of an upload are        *)
(* broadcast exactly as MSG_CHAT is and are "chat" here; what they do to   *)
(* the stored files is the subject of TcpFiles.  MSG_FILE_LIST and         *)
(* MSG_FILE_GET are "ask": they are answered by one Message, or by those   *)
(* of a file, or by none if there is no such file.  The kernel's side of a *)
(* connection is external: "ok" while both ends are open; "fin" when the   *)
(* client closed and "sent" when the server has sent to it since, which    *)
(* provokes an RST; "rst" when the client's exit reset the connection,     *)
(* and "broken" when any further send raises SIGPIPE.                      *)
(*                                                                         *)
(* epoll_wait moves the sockets on its ready list into events[], and what  *)
(* arrives at one of them from then on puts it on the list again, whether  *)
(* its event has been handled or not.                                      *)
(***************************************************************************)
EXTENDS Naturals, Sequences, SequencesExt

CONSTANTS N,            \* the client processes, numbered as they connect
          Sizes,        \* the table sizes considered
          InCap,        \* Messages the server's socket of a client holds
          OutCap,       \* Messages the client's socket holds
          FileMsgs,     \* Messages of one upload, or of one MSG_FILE_GET answer
          MaxOps,       \* bound: commands typed at the clients
          MaxEvents     \* bound: commands typed and clients ended by their users; a
                        \* Message the network delivers in two segments is the last

ASSUME TcpAssumption ==
    /\ N \in Nat /\ Sizes \subseteq Nat \ {0} /\ {InCap, OutCap} \subseteq Nat \ {0}
    /\ \A n \in {FileMsgs, MaxOps, MaxEvents} : n \in Nat

Clients == 1 .. N
None == 0     \* the -1 of broadcast_message's sender_fd
Listener == 0 \* server_fd_global among the sockets in events[]

VARIABLES MAX_CLIENTS, \* size of the server's table, fixed when it is compiled
          srv,       \* "up", or "down" after SIGPIPE or signal_handler
          backlog,   \* connections not yet accepted
          lis,       \* the listening socket: edge and late
          conn,      \* the server's end of each connection: its state, the halves
                     \* waiting in it, whether it is on epoll's ready list (edge),
                     \* whether it was when some of that arrived (late), and
                     \* whether an event may find nothing in it (spare)
          batch,     \* the sockets in events[] that are still to be handled
          table,     \* clients[0 .. client_count - 1]
          stack,     \* broadcasts and replies in progress, the innermost first
          todo,      \* halves its present command has still to send
          unread,    \* Messages waiting in the client's socket
          used       \* commands and events so far

clientVars == <<todo, unread, used, MAX_CLIENTS>>
vars == <<srv, backlog, lis, conn, batch, table, stack, clientVars>>

Halves(m) == <<[kind |-> m, part |-> 1], [kind |-> m, part |-> 2]>>
Repeated(m, n) == [j \in 1 .. 2 * n |-> [kind |-> m, part |-> IF j % 2 = 1 THEN 1 ELSE 2]]
Quiet == [edge |-> FALSE, late |-> FALSE]
Fresh(st) == [st |-> st, inq |-> <<>>, edge |-> FALSE, late |-> FALSE, spare |-> FALSE]
Is(c, st) == conn[c].st = st
Accepted(c) == ~ Is(c, "none") /\ ~ Is(c, "closed") /\ ~ Contains(backlog, c)

Init ==
    /\ MAX_CLIENTS \in Sizes
    /\ srv = "up" /\ backlog = <<>> /\ lis = Quiet
    /\ conn = [c \in Clients |-> Fresh("none")]
    /\ batch = {} /\ table = <<>> /\ stack = <<>>
    /\ todo = [c \in Clients |-> <<>>] /\ unread = [c \in Clients |-> 0]
    /\ used = [ops |-> 0, events |-> 0]

-----------------------------------------------------------------------------
(***************************************************************************)
(* The clients and the network.                                            *)
(***************************************************************************)

\* Data, FIN or RST reaches c's socket, which epoll puts on its ready list,
\* where it may be already.  A part of a Message has an event of its own.
Arrive(c, st, data) ==
    conn' = [conn EXCEPT ![c] = [st |-> st, inq |-> @.inq \o data,
                                 edge |-> TRUE, late |-> @.late \/ @.edge,
                                 spare |-> @.spare \/ Len(data) = 1]]

\* main, connect_to_server: connect, then send MSG_JOIN.
Connect(c) ==
    /\ srv = "up" /\ Is(c, "none") /\ \A d \in 1 .. (c - 1) : ~ Is(d, "none")
    /\ conn' = [conn EXCEPT ![c] = Fresh("ok")]
    /\ backlog' = Append(backlog, c)
    /\ lis' = [edge |-> TRUE, late |-> lis.late \/ lis.edge]
    /\ todo' = [todo EXCEPT ![c] = Halves("join")]
    /\ UNCHANGED <<srv, batch, table, stack, unread, used, MAX_CLIENTS>>

\* handle_user_input: a line of text, /file, /list or /get.
Commands == {Repeated("chat", 1), Repeated("ask", 1), Repeated("chat", FileMsgs)}
HandleUserInput(c) ==
    /\ Is(c, "ok") /\ todo[c] = <<>> /\ used.ops < MaxOps /\ used.events < MaxEvents
    /\ \E cmd \in Commands : todo' = [todo EXCEPT ![c] = cmd]
    /\ used' = [ops |-> used.ops + 1, events |-> used.events + 1]
    /\ UNCHANGED <<srv, backlog, lis, conn, batch, table, stack, unread, MAX_CLIENTS>>

\* The first k halves of what is to be sent arrive together.
Segment(c, k) ==
    /\ Len(conn[c].inq) + k <= 2 * InCap
    /\ todo' = [todo EXCEPT ![c] = SubSeq(@, k + 1, Len(@))]
    /\ Arrive(c, "ok", SubSeq(todo[c], 1, k))

\* What is left of the Message being sent.
Left(c) == IF Head(todo[c]).part = 1 THEN 2 ELSE 1

\* The client's blocking send_all: a Message arrives whole, or in two segments.
ClientSend(c) ==
    /\ Is(c, "ok") /\ todo[c] # <<>>
    /\ \/ Segment(c, Left(c)) /\ UNCHANGED used
       \/ /\ Left(c) = 2 /\ used.events < MaxEvents
          /\ Segment(c, 1)
          /\ used' = [used EXCEPT !.events = MaxEvents]
    /\ UNCHANGED <<srv, backlog, lis, batch, table, stack, unread, MAX_CLIENTS>>

\* handle_server_message: only between two commands, since send_file and
\* send_all do not look at the socket's input.
HandleServerMessage(c) ==
    /\ Is(c, "ok") /\ todo[c] = <<>> /\ unread[c] > 0
    /\ unread' = [unread EXCEPT ![c] = @ - 1]
    /\ UNCHANGED <<srv, backlog, lis, conn, batch, table, stack, todo, used, MAX_CLIENTS>>

\* The client is over: ended by its user, or, in handle_server_message, by
\* the end of the connection.
Exits(C) ==
    /\ todo' = [c \in Clients |-> IF c \in C THEN <<>> ELSE todo[c]]
    /\ unread' = [c \in Clients |-> IF c \in C THEN 0 ELSE unread[c]]

\* Ended by its user: the kernel sends FIN, or RST if there was unread input.
ClientKilled(c) ==
    /\ Is(c, "ok") /\ used.events < MaxEvents
    /\ used' = [used EXCEPT !.events = @ + 1]
    /\ Arrive(c, IF unread[c] = 0 THEN "fin" ELSE "rst", <<>>)
    /\ Exits({c})
    /\ UNCHANGED <<srv, backlog, lis, batch, table, stack, MAX_CLIENTS>>

\* The RST a send to a closed peer provoked.
RstArrives(c) ==
    /\ Is(c, "sent")
    /\ Arrive(c, "broken", <<>>)
    /\ UNCHANGED <<srv, backlog, lis, batch, table, stack, clientVars>>

-----------------------------------------------------------------------------
(***************************************************************************)
(* The server.  Between two epoll events the stack is empty.               *)
(***************************************************************************)

Broadcast(from) == [do |-> "broadcast", from |-> from, i |-> 1, sentTo |-> <<>>]
Shutdown == [do |-> "shutdown", from |-> None, i |-> 1, sentTo |-> <<>>]
Reply(c, n) == [do |-> "reply", to |-> c, left |-> n]
Looping == srv = "up" /\ stack = <<>>

\* The sockets on the ready list, and those an accept or a recv would find something at.
Listed == {c \in Clients : conn[c].edge /\ Accepted(c)} \union {s \in {Listener} : lis.edge}
Readable(s) == IF s = Listener THEN backlog # <<>>
               ELSE conn[s].inq # <<>> \/ ~ Is(s, "ok")

\* epoll_wait.  Linux polls a socket on the list again before it reports it; that
\* one with nothing to read is then left out is not promised, so both may happen.
EpollWait ==
    /\ Looping /\ batch = {} /\ Listed # {}
    /\ \E stale \in SUBSET {s \in Listed : ~ Readable(s)} :
          batch' = stale \union {s \in Listed : Readable(s)}
    /\ conn' = [c \in Clients |-> IF c \in Listed THEN [conn[c] EXCEPT !.edge = FALSE] ELSE conn[c]]
    /\ lis' = [lis EXCEPT !.edge = FALSE]
    /\ UNCHANGED <<srv, backlog, table, stack, clientVars>>

\* Mutant of HandleNewConnection: nothing is accepted while the table is full.
HandleNewConnectionUnlessFull ==
    /\ Looping /\ Listener \in batch
    /\ batch' = batch \ {Listener}
    /\ backlog' = IF backlog = <<>> \/ Len(table) >= MAX_CLIENTS THEN backlog ELSE Tail(backlog)
    /\ lis' = [lis EXCEPT !.late = @ /\ backlog' # <<>>]
    /\ UNCHANGED <<srv, conn, table, stack, clientVars>>

\* handle_new_connection: one accept for each event.  EPOLL_CTL_ADD reports
\* what the new socket holds already.  events[] holds descriptors, and accept may
\* return that of a socket closed since epoll_wait, whose event is then the new one's.
HandleNewConnection ==
    /\ Looping /\ Listener \in batch
    /\ backlog' = IF backlog = <<>> THEN backlog ELSE Tail(backlog)
    /\ lis' = [lis EXCEPT !.late = @ /\ backlog' # <<>>]
    /\ \/ batch' = batch \ {Listener} /\ UNCHANGED conn
       \/ /\ backlog # <<>>
          /\ \E c \in {d \in Clients : d \in batch /\ Is(d, "closed")} :
                batch' = (batch \ {Listener, c}) \union {Head(backlog)}
          /\ conn' = [conn EXCEPT ![Head(backlog)].spare = TRUE]
    /\ UNCHANGED <<srv, table, stack, clientVars>>

\* remove_client of a socket in the table, in the connections cs.
RemoveClient(c, cs, outer) ==
    /\ table' = RemoveFirst(table, c)
    /\ conn' = [cs EXCEPT ![c] = Fresh("closed")]
    /\ Exits({c})
    /\ stack' = <<Broadcast(None)>> \o outer

\* add_client
AddClient(c, cs) ==
    IF Len(table) >= MAX_CLIENTS
    THEN /\ conn' = [cs EXCEPT ![c] = Fresh("closed")]
         /\ Exits({c})
         /\ UNCHANGED <<table, stack>>
    ELSE /\ table' = Append(table, c)
         /\ conn' = cs
         /\ stack' = <<Broadcast(c)>>
         /\ UNCHANGED <<todo, unread>>

\* handle_client_message once recv has returned the halves got, which cs has
\* no longer.  remove_client does nothing, and closes nothing, if the socket is
\* not in the table.  One half is "incomplete" and ignored; two halves that
\* are not one Message have no known type.
Handle(c, got, cs) ==
    \/ got = <<>> /\ Contains(table, c) /\ RemoveClient(c, cs, <<>>)
    \/ got = Halves("join") /\ AddClient(c, cs)
    \/ /\ \/ got = Halves("chat") /\ stack' = <<Broadcast(c)>>
          \/ got = Halves("ask") /\ \E n \in {0, 1, FileMsgs} : stack' = <<Reply(c, n)>>
          \/ got = <<>> /\ ~ Contains(table, c) /\ UNCHANGED stack
          \/ /\ got # <<>> /\ \A m \in {"join", "chat", "ask"} : got # Halves(m)
             /\ UNCHANGED stack
       /\ conn' = cs
       /\ UNCHANGED <<table, todo, unread>>

\* Mutant of Recv: it takes all that has arrived.
RecvAll(q) == Len(q)

\* recv takes as much as there is of one Message.
Recv(q) == IF Len(q) < 2 THEN Len(q) ELSE 2

\* One recv for each event.  It takes nothing at the end of the connection, after
\* a reset (ECONNRESET), if there is nothing to read (EAGAIN), and if the socket
\* was closed since epoll_wait (EBADF): handle_client_message makes no difference.
HandleClientMessage(c) ==
    /\ Looping /\ c \in batch
    /\ batch' = batch \ {c}
    /\ LET all == conn[c].inq
           k == Recv(all)
       IN Handle(c, SubSeq(all, 1, k),
                 [conn EXCEPT ![c].inq = SubSeq(all, k + 1, Len(all)),
                              ![c].late = @ /\ (k < Len(all) \/ ~ Is(c, "ok"))])
    /\ UNCHANGED <<srv, lis, backlog, used, MAX_CLIENTS>>

\* send_all succeeds: at once, or after spinning on EAGAIN until there is room.
SendSucceeds(c) ==
    \/ /\ Is(c, "ok") /\ unread[c] < OutCap
       /\ unread' = [unread EXCEPT ![c] = @ + 1]
       /\ UNCHANGED <<conn, todo>>
    \/ /\ Is(c, "fin") \/ Is(c, "sent")
       /\ conn' = [conn EXCEPT ![c].st = "sent"]
       /\ UNCHANGED <<unread, todo>>

\* Mutant of SendFails: every error is tried again, as EAGAIN is.
SendAlwaysRetries(c) == FALSE

\* send_all returns -1.
SendFails(c) == Is(c, "rst")

\* The server's process is over: the kernel closes every socket.
ServerEnds ==
    /\ srv' = "down"
    /\ conn' = [c \in Clients |-> Fresh("closed")]
    /\ Exits(Clients)
    /\ backlog' = <<>> /\ lis' = Quiet /\ batch' = {} /\ table' = <<>> /\ stack' = <<>>

\* Mutant of StepBack: i-- is missing.
NoStepBack(f) == [f EXCEPT !.i = @ + 1]

\* i-- after the removal, i++ at the end of the turn.
StepBack(f) == f

\* One turn of broadcast_message's loop.
BroadcastTurn(f, outer) ==
    LET c == table[f.i] IN
    /\ f.do # "reply" /\ f.i <= Len(table)
    /\ \/ /\ c = f.from
          /\ stack' = <<[f EXCEPT !.i = @ + 1]>> \o outer
          /\ UNCHANGED <<srv, backlog, lis, conn, batch, table, todo, unread>>
       \/ /\ c # f.from /\ SendSucceeds(c)
          /\ stack' = <<[f EXCEPT !.i = @ + 1, !.sentTo = Append(@, c)]>> \o outer
          /\ UNCHANGED <<srv, backlog, lis, batch, table>>
       \/ /\ c # f.from /\ SendFails(c)
          /\ RemoveClient(c, conn, <<StepBack(f)>> \o outer)
          /\ UNCHANGED <<srv, backlog, lis, batch>>
       \/ /\ c # f.from /\ Is(c, "broken")
          /\ ServerEnds
    /\ UNCHANGED <<used, MAX_CLIENTS>>

\* The loop ends; after signal_handler's broadcast the server exits.
BroadcastEnds(f, outer) ==
    /\ f.do # "reply" /\ f.i > Len(table)
    /\ IF f.do = "shutdown"
       THEN ServerEnds
       ELSE stack' = outer /\ UNCHANGED <<srv, backlog, lis, conn, batch, table, todo, unread>>
    /\ UNCHANGED <<used, MAX_CLIENTS>>

\* The answer to MSG_FILE_LIST, or send_file_to_client: send_all's result is
\* ignored, so a failed send is followed by one that raises SIGPIPE.
ReplyTurn(f, outer) ==
    /\ f.do = "reply"
    /\ \/ /\ f.left = 0
          /\ stack' = outer
          /\ UNCHANGED <<srv, backlog, lis, conn, batch, table, todo, unread>>
       \/ /\ f.left > 0
          /\ \/ SendSucceeds(f.to)
             \/ SendFails(f.to) /\ conn' = [conn EXCEPT ![f.to].st = "broken"]
                                 /\ UNCHANGED <<todo, unread>>
          /\ stack' = <<[f EXCEPT !.left = @ - 1]>> \o outer
          /\ UNCHANGED <<srv, backlog, lis, batch, table>>
       \/ /\ f.left > 0 /\ Is(f.to, "broken")
          /\ ServerEnds
    /\ UNCHANGED <<used, MAX_CLIENTS>>

\* signal_handler interrupts whatever the server is doing and never returns
\* to it.  (Not in the middle of one of these steps, and not a second time: a
\* SIGTERM inside SIGINT's handler is left out.)
SignalHandler ==
    /\ srv = "up" /\ \A k \in DOMAIN stack : stack[k].do # "shutdown"
    /\ stack' = <<Shutdown>>
    /\ UNCHANGED <<srv, backlog, lis, conn, batch, table, clientVars>>

InCall ==
    /\ stack # <<>>
    /\ \/ BroadcastTurn(Head(stack), Tail(stack))
       \/ BroadcastEnds(Head(stack), Tail(stack))
       \/ ReplyTurn(Head(stack), Tail(stack))

\* The one thread of the server; a client in its select loop.
ServerStep == EpollWait \/ HandleNewConnection \/ InCall \/ \E c \in Clients : HandleClientMessage(c)
ClientStep(c) == ClientSend(c) \/ HandleServerMessage(c)

Next ==
    \/ ServerStep \/ SignalHandler
    \/ \E c \in Clients :
          \/ ClientStep(c) \/ Connect(c) \/ HandleUserInput(c)
          \/ ClientKilled(c) \/ RstArrives(c)

\* The server and the clients keep going; nobody has to type, to connect or to
\* be killed.
Fairness == WF_vars(ServerStep) /\ \A c \in Clients : WF_vars(ClientStep(c))

Spec == Init /\ [][Next]_vars /\ Fairness

-----------------------------------------------------------------------------
(***************************************************************************)
(* Properties.                                                             *)
(***************************************************************************)

\* broadcast_message steps back after a removal, and remove_client broadcasts
\* in turn.  Whatever is removed on the way, nobody is sent a message twice;
\* and when the loop ends everybody still in the table but the sender has
\* been sent it, unless the nested broadcast removed a client the loop had
\* passed already: only then does the shifted table make it skip one.
BroadcastReachesAll ==
    \A k \in DOMAIN stack :
        LET f == stack[k] IN
        f.do # "reply" =>
            /\ IsInjective(f.sentTo)
            /\ (k = 1 /\ f.i > Len(table)) =>
                  \/ ToSet(table) \ {f.from} \subseteq ToSet(f.sentTo)
                  \/ \E c \in Clients : /\ Is(c, "closed")
                                        /\ c \in ToSet(f.sentTo) \union {f.from}

\* The client the server waits for in send_all is itself blocked in send_all:
\* both buffers are full and neither side reads.
Jam ==
    /\ stack # <<>>
    /\ LET f == Head(stack)
           c == IF f.do = "reply" THEN f.to ELSE table[f.i]
       IN /\ f.do = "reply" \/ f.i <= Len(table)
          /\ Is(c, "ok") /\ unread[c] >= OutCap
          /\ todo[c] # <<>> /\ Len(conn[c].inq) + Left(c) > 2 * InCap

\* send_all spins on EAGAIN.  The server gets back to its loop, or dies,
\* unless it faces a client that is sending and therefore not reading, with
\* both sockets full: then only the client's end helps.
ServerComesBack == (stack # <<>>) ~> (stack = <<>> \/ Jam)

\* Edge-triggered epoll with one accept and one recv for each event.  Data,
\* the end of a client in the table, or a connection that waits is announced
\* by an event, on the ready list or in events[], and so is served once the
\* server comes back to its loop, unless an arrival met its socket on the
\* list: then it stays unnoticed until something else arrives.
Waiting(c) == Accepted(c) /\ (conn[c].inq # <<>> \/ (~ Is(c, "ok") /\ Contains(table, c)))
WaitingIsAnnounced ==
    /\ \A c \in Clients : Waiting(c) => (conn[c].edge \/ c \in batch \/ conn[c].late)
    /\ (backlog # <<>>) => (lis.edge \/ Listener \in batch \/ lis.late)

\* handle_client_message removes a client whenever recv returns nothing, EAGAIN
\* included.  A client that is in the table and connected is in it until the server
\* ends, unless one of its Messages came in two segments or it was given a descriptor
\* that stood in events[]: only then may an event find nothing.
LiveClientStays ==
    [][\A c \in Clients : Contains(table, c) /\ Is(c, "ok") /\ ~ Contains(table, c)'
           => srv' = "down" \/ conn[c].spare]_vars
=============================================================================
