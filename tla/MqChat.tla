------------------------------- MODULE MqChat -------------------------------
(***************************************************************************)
(* module3/03: a chat between two processes over two POSIX message queues. *)
(* The first process to start creates both queues, receives on the first   *)
(* and sends on the second; the other opens them the other way round.      *)
(* Each process then repeats one loop: read every message there is, and    *)
(* then, if the keyboard has a line, send it.  mq_send blocks on a full    *)
(* queue.  SIGINT may arrive at any step, also while a process is blocked. *)
(*                                                                         *)
(* A queue keeps its messages in order of priority: the EXIT messages      *)
(* (EXIT_PRIORITY) come before the lines of text (NORMAL_PRIORITY), which  *)
(* stay in the order they were sent.  A line is modelled by its number.    *)
(***************************************************************************)
EXTENDS Integers, Sequences

CONSTANTS
    Alice, Bob,  \* the two processes
    None,        \* no queue, no owner
    Cap,         \* MAX_MSG_COUNT: 10 in chat.h
    MaxLines     \* bound on the lines typed into one process

ASSUME ChatAssumption ==
    /\ Alice # Bob /\ None \notin {Alice, Bob} /\ None \notin {Alice, Bob} \X {1, 2}
    /\ Cap \in Nat /\ Cap >= 3
    /\ MaxLines \in Nat

Peers    == {Alice, Bob}
Other(p) == IF p = Alice THEN Bob ELSE Alice

\* Every process runs once, so a queue is named by who created it and its number.
Queues == Peers \X {1, 2}

VARIABLES
    pc,       \* where each process is
    name,     \* name[i]: who created the queue found under name i, or None
    exits,    \* exits[q]: how many EXIT messages are in queue q
    lines,    \* lines[q]: the lines of text in queue q
    creator,  \* is_creator
    found,    \* joiner: owner of the first queue it opened
    out, in,  \* queue_send and queue_recv
    quit,     \* should_exit
    typed,    \* lines typed so far
    shown,    \* lines printed so far
    burst     \* history: messages sent since the process last saw its queue empty

vars == <<pc, name, exits, lines, creator, found, out, in, quit, typed, shown, burst>>

Loop    == {"check", "recv", "kbd", "send", "send_exit"}
Opening == {"start", "made1", "make2", "join1", "join2"}
Leaving == {"close", "close2", "finish"}
Handler == {"h_send", "h_close", "h_close2"}
Labels  == Loop \cup Opening \cup Leaving \cup Handler \cup {"ended"}

Size(q)    == exits[q] + Len(lines[q])
Goto(p, l) == pc' = [pc EXCEPT ![p] = l]

Init == /\ pc = [p \in Peers |-> "start"]
        /\ name = [i \in {1, 2} |-> None]
        /\ exits = [q \in Queues |-> 0]
        /\ lines = [q \in Queues |-> <<>>]
        /\ creator = [p \in Peers |-> FALSE]
        /\ found = [p \in Peers |-> None]
        /\ out = [p \in Peers |-> None]
        /\ in = [p \in Peers |-> None]
        /\ quit = [p \in Peers |-> FALSE]
        /\ typed = [p \in Peers |-> 0]
        /\ shown = [p \in Peers |-> <<>>]
        /\ burst = [p \in Peers |-> 0]

-----------------------------------------------------------------------------
(* init_queues: each mq_open is a step, and another process may run between. *)

messages == <<exits, lines>>
chatVars == <<quit, typed, shown, burst>>

\* mq_open(queue_name_1, O_CREAT | O_EXCL)
Open1(p) == /\ pc[p] = "start"
            /\ IF name[1] = None
                 THEN Goto(p, "made1") /\ name' = [name EXCEPT ![1] = p]
                 ELSE Goto(p, "join1") /\ UNCHANGED name
            /\ UNCHANGED <<messages, creator, found, out, in, chatVars>>

SetCreator(p) == /\ pc[p] = "made1"
                 /\ creator' = [creator EXCEPT ![p] = TRUE]
                 /\ Goto(p, "make2")
                 /\ UNCHANGED <<name, messages, found, out, in, chatVars>>

\* mq_open(queue_name_2, O_CREAT): without O_EXCL, so an existing queue will do.
Make2(p) == /\ pc[p] = "make2"
            /\ \/ LET owner == IF name[2] = None THEN p ELSE name[2]
                  IN  /\ name' = [name EXCEPT ![2] = owner]
                      /\ out' = [out EXCEPT ![p] = <<owner, 2>>]
                      /\ in' = [in EXCEPT ![p] = <<p, 1>>]
                      /\ Goto(p, "check")
               \/ /\ name' = [name EXCEPT ![1] = None]  \* it failed: mq_unlink, return 1
                  /\ Goto(p, "ended")
                  /\ UNCHANGED <<out, in>>
            /\ UNCHANGED <<messages, creator, found, chatVars>>

Join1(p) == /\ pc[p] = "join1"
            /\ found' = [found EXCEPT ![p] = name[1]]
            /\ Goto(p, IF name[1] = None THEN "ended" ELSE "join2")
            /\ UNCHANGED <<name, messages, creator, out, in, chatVars>>

\* Mutant of Join2: the joiner uses the queues the way the creator does.
Join2Swapped(p) == /\ pc[p] = "join2"
                   /\ IF name[2] = None
                        THEN Goto(p, "ended") /\ UNCHANGED <<out, in>>
                        ELSE /\ out' = [out EXCEPT ![p] = <<name[2], 2>>]
                             /\ in' = [in EXCEPT ![p] = <<found[p], 1>>]
                             /\ Goto(p, "check")
                   /\ UNCHANGED <<name, messages, creator, found, chatVars>>

Join2(p) == /\ pc[p] = "join2"
            /\ IF name[2] = None
                 THEN Goto(p, "ended") /\ UNCHANGED <<out, in>>
                 ELSE /\ out' = [out EXCEPT ![p] = <<found[p], 1>>]
                      /\ in' = [in EXCEPT ![p] = <<name[2], 2>>]
                      /\ Goto(p, "check")
            /\ UNCHANGED <<name, messages, creator, found, chatVars>>

-----------------------------------------------------------------------------
(* The loop of main. *)

ends == <<name, creator, found, out, in>>

\* check_messages_available
Check(p) == /\ pc[p] = "check"
            /\ Goto(p, IF Size(in[p]) > 0 /\ ~quit[p] THEN "recv" ELSE "kbd")
            /\ burst' = [burst EXCEPT ![p] = IF Size(in[p]) = 0 THEN 0 ELSE @]
            /\ UNCHANGED <<messages, ends, quit, typed, shown>>

\* Mutant of Receive: an EXIT message is taken like a line and does not end the loop.
ReceiveIgnoresExit(p) == /\ pc[p] = "recv"
                         /\ Size(in[p]) > 0
                         /\ IF exits[in[p]] > 0
                              THEN /\ exits' = [exits EXCEPT ![in[p]] = @ - 1]
                                   /\ UNCHANGED <<lines, shown>>
                              ELSE /\ lines' = [lines EXCEPT ![in[p]] = Tail(@)]
                                   /\ shown' = [shown EXCEPT ![p] = Append(@, Head(lines[in[p]]))]
                                   /\ UNCHANGED exits
                         /\ Goto(p, "check")
                         /\ UNCHANGED <<ends, quit, typed, burst>>

\* receive_message and handle_received_message: the highest priority first.
Receive(p) == /\ pc[p] = "recv"
              /\ Size(in[p]) > 0
              /\ IF exits[in[p]] > 0
                   THEN /\ exits' = [exits EXCEPT ![in[p]] = @ - 1]
                        /\ quit' = [quit EXCEPT ![p] = TRUE]
                        /\ UNCHANGED <<lines, shown>>
                   ELSE /\ lines' = [lines EXCEPT ![in[p]] = Tail(@)]
                        /\ shown' = [shown EXCEPT ![p] = Append(@, Head(lines[in[p]]))]
                        /\ UNCHANGED <<exits, quit>>
              /\ Goto(p, "check")
              /\ UNCHANGED <<ends, typed, burst>>

\* Mutant of Again: the messages are looked at once, before the loop.
AgainKeyboard(p) == IF quit[p] THEN "close" ELSE "kbd"

\* After an EXIT message the keyboard is still looked at once before the loop ends.
Again(p) == IF quit[p] THEN "close" ELSE "check"

\* check_keyboard_input and read_user_input: nothing, or an empty line.
NoLine(p) == /\ pc[p] = "kbd"
             /\ Goto(p, Again(p))
             /\ UNCHANGED <<messages, ends, chatVars>>

Line(p) == /\ pc[p] = "kbd"
           /\ typed[p] < MaxLines
           /\ typed' = [typed EXCEPT ![p] = @ + 1]
           /\ Goto(p, "send")
           /\ UNCHANGED <<messages, ends, quit, shown, burst>>

ExitLine(p) == /\ pc[p] = "kbd"
               /\ Goto(p, "send_exit")
               /\ UNCHANGED <<messages, ends, chatVars>>

\* Mutant of Send: mq_send is repeated after a failure that was none.
SendTwice(p) == /\ pc[p] = "send"
                /\ Size(out[p]) + 1 < Cap
                /\ lines' = [lines EXCEPT ![out[p]] = Append(Append(@, typed[p]), typed[p])]
                /\ burst' = [burst EXCEPT ![p] = @ + 2]
                /\ Goto(p, Again(p))
                /\ UNCHANGED <<exits, ends, quit, typed, shown>>

\* send_message: mq_send waits for room.
Send(p) == /\ pc[p] = "send"
           /\ Size(out[p]) < Cap
           /\ lines' = [lines EXCEPT ![out[p]] = Append(@, typed[p])]
           /\ burst' = [burst EXCEPT ![p] = @ + 1]
           /\ Goto(p, Again(p))
           /\ UNCHANGED <<exits, ends, quit, typed, shown>>

\* send_exit_message, from the loop and from the signal handler.
PutExit(p) == /\ Size(out[p]) < Cap
              /\ exits' = [exits EXCEPT ![out[p]] = @ + 1]
              /\ burst' = [burst EXCEPT ![p] = @ + 1]
              /\ UNCHANGED <<lines, ends, typed, shown>>

SendExit(p) == /\ pc[p] = "send_exit"
               /\ PutExit(p)
               /\ quit' = [quit EXCEPT ![p] = TRUE]
               /\ Goto(p, "close")

-----------------------------------------------------------------------------
(* cleanup_queues, at the end of main and in the handler: only the creator  *)
(* closes and unlinks, one name after the other.                            *)

Cleanup1(p, here, there, last) ==
    /\ pc[p] = here
    /\ IF creator[p]
         THEN /\ name' = [name EXCEPT ![1] = None]
              /\ out' = [out EXCEPT ![p] = None]
              /\ in' = [in EXCEPT ![p] = None]
              /\ Goto(p, there)
         ELSE Goto(p, last) /\ UNCHANGED <<name, out, in>>
    /\ UNCHANGED <<messages, creator, found, chatVars>>

\* Mutant of Cleanup2: the second mq_unlink is missing.
Cleanup2Forgotten(p, here, last) ==
    /\ pc[p] = here
    /\ Goto(p, last)
    /\ UNCHANGED <<name, messages, creator, found, out, in, chatVars>>

Cleanup2(p, here, last) ==
    /\ pc[p] = here
    /\ name' = [name EXCEPT ![2] = None]
    /\ Goto(p, last)
    /\ UNCHANGED <<messages, creator, found, out, in, chatVars>>

Close(p)  == Cleanup1(p, "close", "close2", "finish")
Close2(p) == Cleanup2(p, "close2", "finish")

\* "Chat finished", return
Finish(p) == /\ pc[p] = "finish"
             /\ Goto(p, "ended")
             /\ UNCHANGED <<messages, ends, chatVars>>

\* SIGINT; the handler itself is not interrupted by another one.  A queue that
\* was not opened yet, or is closed already, is not sent to.
Interrupt(p) == /\ pc[p] \in Loop \cup Opening \cup Leaving
                /\ Goto(p, IF out[p] = None THEN "h_close" ELSE "h_send")
                /\ UNCHANGED <<messages, ends, chatVars>>

HandlerSend(p) == /\ pc[p] = "h_send"
                  /\ PutExit(p)
                  /\ Goto(p, "h_close")
                  /\ UNCHANGED quit

HandlerClose(p)  == Cleanup1(p, "h_close", "h_close2", "ended")
HandlerClose2(p) == Cleanup2(p, "h_close2", "ended")

-----------------------------------------------------------------------------
Step(p) == \/ Open1(p) \/ SetCreator(p) \/ Make2(p) \/ Join1(p) \/ Join2(p)
           \/ Check(p) \/ Receive(p) \/ NoLine(p) \/ Line(p) \/ ExitLine(p)
           \/ Send(p) \/ SendExit(p) \/ Close(p) \/ Close2(p) \/ Finish(p)
           \/ HandlerSend(p) \/ HandlerClose(p) \/ HandlerClose2(p)

Next == \E p \in Peers : Step(p) \/ Interrupt(p)

Spec == Init /\ [][Next]_vars

\* The scheduler runs both processes; nobody has to type or to press Ctrl-C.
FairSpec == Spec /\ \A p \in Peers : WF_vars(Step(p))

-----------------------------------------------------------------------------
TypeOK ==
    /\ pc \in [Peers -> Labels]
    /\ name \in [{1, 2} -> Peers \cup {None}]
    /\ exits \in [Queues -> Nat] /\ lines \in [Queues -> Seq(Nat)]
    /\ creator \in [Peers -> BOOLEAN]
    /\ found \in [Peers -> Peers \cup {None}]
    /\ out \in [Peers -> Queues \cup {None}] /\ in \in [Peers -> Queues \cup {None}]
    /\ quit \in [Peers -> BOOLEAN]
    /\ typed \in [Peers -> Nat] /\ shown \in [Peers -> Seq(Nat)]
    /\ burst \in [Peers -> Nat]

\* p waits in mq_send for room in its peer's queue.
Blocked(p) == pc[p] \in {"send", "send_exit", "h_send"} /\ Size(out[p]) >= Cap

\* The two processes never wait for each other's queue at once, although
\* neither reads while it waits (queue.c:88 and queue.c:117): each sends at most
\* two messages between two looks at an empty queue of its own, which a
\* queue of three or more never makes full on both sides.
NoMutualBlock == ~(Blocked(Alice) /\ Blocked(Bob))

Connected(p) == pc[p] \in Loop \cup {"h_send"}

\* Two processes that both chat are connected crosswise, however their calls of
\* mq_open in init_queues (queue.c:21-47) interleave with each other and with
\* the unlinking of cleanup_queues.
Paired == Connected(Alice) /\ Connected(Bob) =>
              in[Alice] = out[Bob] /\ in[Bob] = out[Alice]

\* A process prints the lines of its peer in the order they were typed, from
\* the first on, none skipped and none twice.
InOrder == \A p \in Peers : \A i \in DOMAIN shown[p] : shown[p][i] = i

\* When both processes ended no queue name is left, except queue 1 of a process
\* that SIGINT hit after mq_open and before is_creator was set (queue.c:21-24).
NamesRemoved ==
    (\A p \in Peers : pc[p] = "ended") =>
        name[2] = None /\ (name[1] # None => ~creator[name[1]])

\* A process that waits for room gets it as long as its peer stays in the
\* loop: the peer is not waiting itself, and empties its queue in the next round.
SenderResumes ==
    \A p \in Peers :
        Blocked(p) /\ Connected(Other(p)) ~> ~Blocked(p) \/ ~Connected(Other(p))

\* An EXIT message ends the process it is sent to, unless that one is stuck
\* sending to the queue its peer has left.
ExitIsSeen ==
    \A p \in Peers :
        (pc[p] \in Loop /\ exits[in[p]] > 0) ~> (pc[p] \notin Loop \/ Blocked(p))
=============================================================================
