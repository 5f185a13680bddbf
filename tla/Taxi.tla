-------------------------------- MODULE Taxi --------------------------------
(***************************************************************************)
(* module3/cross2: a dispatcher that forks drivers and asks them, one      *)
(* request at a time, over a Unix socket for each driver.  Every request   *)
(* has a connection of its own; the dispatcher gives up after a time-out   *)
(* and closes it, the driver serves its connections in order, also the     *)
(* ones that were given up.                                                *)
(*                                                                         *)
(* A request is the number of its connection, what it asks and, for a      *)
(* task, the seconds.  Time is the seconds a driver has left to work.      *)
(***************************************************************************)
EXTENDS Integers, Sequences

CONSTANTS
    Drivers,      \* the process ids fork may return
    None,         \* no driver, no reply
    MaxDrivers,   \* MAX_DRIVERS: 100 in common.h
    MaxSeconds,   \* bound on the length of a task
    MaxRequests,  \* bound on the requests the user makes
    MaxSignals    \* bound on the signals to the dispatcher

ASSUME TaxiAssumption ==
    /\ None \notin Drivers \cup {"OK", "BUSY", "AVAILABLE"}
    /\ MaxDrivers \in Nat \ {0}
    /\ {MaxSeconds, MaxRequests, MaxSignals} \subseteq Nat

Slots == 1..MaxDrivers

VARIABLES
    mpc,       \* where the dispatcher is
    kind,      \* the request it is about: "task", "status", "scan" or "quit"
    driver,    \* the driver it is about
    seconds,   \* the length of the task
    slot,      \* the slot get_drivers and shutdown_all have come to
    table,     \* table[i]: the driver in an active slot, or None
    conn,      \* the number of its open connection, or 0
    last,      \* the number of the last connection made
    inbox,     \* the reply that waits at its end of the connection
    running,   \* running
    signals,   \* signals that arrived
    missed,    \* history: a running driver did not get its QUIT
    reported,  \* connections whose task it reported as sent
    dpc,       \* where each driver is
    backlog,   \* connections each driver has not served
    left,      \* busy_until - time(NULL), or 0 when that is past
    accepted   \* connections whose task each driver took

dispatcher == <<kind, driver, seconds, slot, table, conn, last, inbox, running, signals, missed, reported>>
drivers    == <<dpc, backlog, left, accepted>>
vars       == <<mpc, dispatcher, drivers>>

Init == /\ mpc = "prompt" /\ kind = "none" /\ driver = None /\ seconds = 0 /\ slot = 0
        /\ table = [i \in Slots |-> None]
        /\ conn = 0 /\ last = 0 /\ inbox = None
        /\ running = TRUE /\ signals = 0 /\ missed = FALSE /\ reported = {}
        /\ dpc = [d \in Drivers |-> "unborn"]
        /\ backlog = [d \in Drivers |-> <<>>]
        /\ left = [d \in Drivers |-> 0]
        /\ accepted = [d \in Drivers |-> {}]

-----------------------------------------------------------------------------
(* The commands of main. *)

Active(d) == \E i \in Slots : table[i] = d

\* The loop of main: while (running).
MainLoop(on) == IF on THEN "prompt" ELSE "shutdown"

\* After a request: the next slot of a loop over the table, or the loop of main.
Back(on) == IF kind \in {"scan", "quit"} THEN "slot" ELSE MainLoop(on)

\* create_driver: fork, and a pause before the child is entered
Fork == /\ mpc = "prompt"
        /\ \E d \in Drivers : /\ dpc[d] = "unborn"
                              /\ dpc' = [dpc EXCEPT ![d] = "starting"]
                              /\ driver' = d
        /\ mpc' = "pause" /\ kind' = "create"
        /\ UNCHANGED <<seconds, slot, table, conn, last, inbox, running, signals, missed, reported,
                       backlog, left, accepted>>

Enter == /\ mpc = "pause"
         /\ table' = IF \E i \in Slots : table[i] = None
                       THEN [table EXCEPT ![CHOOSE i \in Slots :
                               table[i] = None /\ \A j \in 1..(i - 1) : table[j] # None] = driver]
                       ELSE table
         /\ mpc' = Back(running)
         /\ UNCHANGED <<kind, driver, seconds, slot, conn, last, inbox, running, signals, missed, reported,
                        drivers>>

\* send_task and get_status; an unknown process id changes nothing
Ask == /\ mpc = "prompt" /\ last < MaxRequests
       /\ \E d \in Drivers : Active(d) /\ driver' = d
       /\ \/ kind' = "task" /\ seconds' \in 0..MaxSeconds
          \/ kind' = "status" /\ UNCHANGED seconds
       /\ mpc' = "probe"
       /\ UNCHANGED <<slot, table, conn, last, inbox, running, signals, missed, reported, drivers>>

\* get_drivers
GetDrivers == /\ mpc = "prompt" /\ last < MaxRequests
              /\ mpc' = "slot" /\ kind' = "scan" /\ slot' = 0
              /\ UNCHANGED <<driver, seconds, table, conn, last, inbox, running, signals, missed, reported,
                             drivers>>

\* exit, quit or the end of the input
Exit == /\ mpc = "prompt"
        /\ mpc' = "shutdown" /\ running' = FALSE
        /\ UNCHANGED <<kind, driver, seconds, slot, table, conn, last, inbox, signals, missed, reported,
                       drivers>>

Shutdown == /\ mpc = "shutdown"
            /\ mpc' = "slot" /\ kind' = "quit" /\ slot' = 0
            /\ UNCHANGED <<driver, seconds, table, conn, last, inbox, running, signals, missed, reported,
                           drivers>>

\* The loops of do_get_drivers and shutdown_all over the active slots.
NextSlot ==
    /\ mpc = "slot"
    /\ slot' = slot + 1
    /\ IF slot = MaxDrivers
         THEN /\ mpc' = IF kind = "quit" THEN "ended" ELSE MainLoop(running)
              /\ UNCHANGED driver
         ELSE IF table[slot + 1] = None
         THEN UNCHANGED <<mpc, driver>>
         ELSE /\ mpc' = IF kind = "quit" THEN "connect" ELSE "probe"
              /\ driver' = table[slot + 1]
    /\ UNCHANGED <<kind, seconds, table, conn, last, inbox, running, signals, missed, reported, drivers>>

-----------------------------------------------------------------------------
(* A request. *)

\* kill(pid, 0) fails only when there is no such process; a child that ended
\* and was not waited for is one.
Exists(d) == dpc[d] \notin {"unborn", "reaped"}

Without(d) == [i \in Slots |-> IF table[i] = d THEN None ELSE table[i]]

Probe == /\ mpc = "probe"
         /\ IF Exists(driver) THEN mpc' = "connect" /\ UNCHANGED table
                              ELSE mpc' = Back(running) /\ table' = Without(driver)
         /\ UNCHANGED <<kind, driver, seconds, slot, conn, last, inbox, running, signals, missed, reported,
                        drivers>>

Listening(d) == dpc[d] = "poll"
Alive(d)     == dpc[d] \in {"starting", "poll"}

\* connect_to_driver and send_msg.  listen(fd, 1) lets two connections wait and
\* makes a third one block.  shutdown_all closes its end at once.
Connect ==
    /\ mpc = "connect"
    /\ Listening(driver) /\ Len(backlog[driver]) < 2
    /\ last' = last + 1
    /\ backlog' = [backlog EXCEPT ![driver] = Append(@, [id |-> last + 1, kind |-> kind,
                                                        seconds |-> seconds])]
    /\ IF kind = "quit" THEN mpc' = "waitpid" /\ UNCHANGED conn
                        ELSE mpc' = "wait" /\ conn' = last + 1
    /\ UNCHANGED <<kind, driver, seconds, slot, table, inbox, running, signals, missed, reported,
                   dpc, left, accepted>>

\* Twenty attempts failed: nobody listens.
Unavailable == /\ mpc = "connect" /\ ~Listening(driver)
               /\ mpc' = IF kind = "quit" THEN "waitpid" ELSE Back(running)
               /\ missed' = (missed \/ (kind = "quit" /\ Alive(driver)))
               /\ UNCHANGED <<kind, driver, seconds, slot, table, conn, last, inbox, running,
                              signals, reported, drivers>>

\* recv_with_timeout finds a reply, or nothing for REQUEST_TIMEOUT_MS, or an end
\* of file because the driver ended; then close.
Reply == /\ mpc = "wait" /\ inbox # None
         /\ reported' = IF kind = "task" /\ inbox = "OK" THEN reported \cup {conn} ELSE reported
         /\ conn' = 0 /\ inbox' = None
         /\ mpc' = Back(running)
         /\ UNCHANGED <<kind, driver, seconds, slot, table, last, running, signals, missed, drivers>>

Timeout == /\ mpc = "wait" /\ inbox = None
           /\ conn' = 0
           /\ mpc' = Back(running)
           /\ UNCHANGED <<kind, driver, seconds, slot, table, last, inbox, running, signals, missed, reported,
                          drivers>>

\* waitpid in shutdown_all
Reap == /\ mpc = "waitpid" /\ dpc[driver] = "zombie"
        /\ dpc' = [dpc EXCEPT ![driver] = "reaped"]
        /\ table' = [table EXCEPT ![slot] = None]
        /\ mpc' = "slot"
        /\ UNCHANGED <<kind, driver, seconds, slot, conn, last, inbox, running, signals, missed, reported,
                       backlog, left, accepted>>

\* SIGINT or SIGTERM, the first of its kind: the handler sets running, and the
\* call in which the dispatcher waits is cut short: fgets at the prompt, poll,
\* and waitpid, which counts as having waited.
Interrupt ==
    /\ mpc \notin {"ended", "killed"} /\ signals < MaxSignals
    /\ signals' = signals + 1 /\ running' = FALSE
    /\ CASE mpc = "prompt" -> mpc' = "shutdown" /\ UNCHANGED <<conn, table>>
         [] mpc = "wait" /\ inbox = None -> mpc' = Back(FALSE) /\ conn' = 0 /\ UNCHANGED table
         [] mpc = "waitpid" -> /\ mpc' = "slot" /\ table' = [table EXCEPT ![slot] = None]
                               /\ UNCHANGED conn
         [] OTHER -> UNCHANGED <<mpc, conn, table>>
    /\ UNCHANGED <<kind, driver, seconds, slot, last, inbox, missed, reported, drivers>>

\* A second one of the same kind: signal() of a program that asks for POSIX only
\* installs a handler for one delivery.
Killed == /\ mpc \notin {"ended", "killed"} /\ signals \in 1..(MaxSignals - 1)
          /\ signals' = signals + 1
          /\ mpc' = "killed" /\ conn' = 0 /\ inbox' = None
          /\ UNCHANGED <<kind, driver, seconds, slot, table, last, running, missed, reported, drivers>>

-----------------------------------------------------------------------------
(* driver.c *)

Listen(d) == /\ dpc[d] = "starting"
             /\ dpc' = [dpc EXCEPT ![d] = "poll"]
             /\ UNCHANGED <<mpc, dispatcher, backlog, left, accepted>>

\* What a driver answers, and the seconds it has left afterwards.
Answer(d, r) == CASE r.kind \in {"status", "scan"} -> IF left[d] > 0 THEN "BUSY" ELSE "AVAILABLE"
                  [] r.kind = "task" /\ left[d] > 0 -> "BUSY"
                  [] OTHER -> "OK"

Taken(d, r) == r.kind = "task" /\ left[d] = 0

\* Mutant of Accept: the newest connection first.
AcceptNewest(d) == Len(backlog[d])

\* accept takes the connection that has waited longest.
Accept(d) == 1

\* Mutant of Reaches: one socket for all requests to a driver.
ReachesAny(r) == conn # 0

\* An answer to a connection that is closed is lost; the driver inherits the
\* ignored SIGPIPE of the dispatcher and survives it.
Reaches(r) == r.id = conn

\* Mutant of Stops: QUIT is not recognised.
StopsNever(r) == FALSE

Stops(r) == r.kind = "quit"

Drop(s, i) == SubSeq(s, 1, i - 1) \o SubSeq(s, i + 1, Len(s))

\* accept, recv, the answer
Serve(d) ==
    /\ dpc[d] = "poll" /\ backlog[d] # <<>>
    /\ LET r == backlog[d][Accept(d)]
       IN  /\ backlog' = [backlog EXCEPT ![d] = IF Stops(r) THEN <<>> ELSE Drop(@, Accept(d))]
           /\ left' = [left EXCEPT ![d] = IF Taken(d, r) THEN r.seconds ELSE @]
           /\ accepted' = [accepted EXCEPT ![d] = IF Taken(d, r) THEN @ \cup {r.id} ELSE @]
           /\ inbox' = IF Reaches(r) THEN Answer(d, r) ELSE inbox
           /\ dpc' = [dpc EXCEPT ![d] = IF Stops(r) THEN "zombie" ELSE @]
    /\ UNCHANGED <<mpc, kind, driver, seconds, slot, table, conn, last, running, signals, missed,
                   reported>>

\* execl or the setup of the socket fails, or SIGINT or SIGTERM arrives.
Die(d) == /\ dpc[d] \in {"starting", "poll"}
          /\ dpc' = [dpc EXCEPT ![d] = "zombie"]
          /\ backlog' = [backlog EXCEPT ![d] = <<>>]
          /\ left' = [left EXCEPT ![d] = 0]
          /\ UNCHANGED <<mpc, dispatcher, accepted>>

\* A second passes.
Tick == /\ \E d \in Drivers : left[d] > 0
        /\ left' = [d \in Drivers |-> IF left[d] > 0 THEN left[d] - 1 ELSE 0]
        /\ UNCHANGED <<mpc, dispatcher, dpc, backlog, accepted>>

-----------------------------------------------------------------------------
DispatcherStep == \/ Enter \/ Shutdown \/ NextSlot \/ Probe \/ Connect \/ Unavailable
                  \/ Reply \/ Timeout \/ Reap

Next == \/ DispatcherStep \/ Fork \/ Ask \/ GetDrivers \/ Exit \/ Interrupt \/ Killed \/ Tick
        \/ \E d \in Drivers : Listen(d) \/ Serve(d) \/ Die(d)

Spec == Init /\ [][Next]_vars

\* The scheduler runs the dispatcher and every driver, and time passes.
FairSpec == /\ Spec /\ WF_vars(DispatcherStep) /\ WF_vars(Tick)
            /\ \A d \in Drivers : WF_vars(Listen(d)) /\ WF_vars(Serve(d))

-----------------------------------------------------------------------------
(* Properties. *)

\* A task the dispatcher reports as sent (taxi.c:160) is one that its driver
\* took, although drivers also answer requests that were given up.
ReportedIsTaken == reported \subseteq UNION {accepted[d] : d \in Drivers}

\* An "AVAILABLE" (driver.c:112) is true and final: when the dispatcher has it,
\* no request given up earlier can still make the driver busy.
AvailableIsFinal == inbox = "AVAILABLE" => left[driver] = 0 /\ backlog[driver] = <<>>

\* shutdown_all ends, unless it came to a driver that did not listen yet
\* (taxi.c:255): that one gets no QUIT and waitpid has no time-out (taxi.c:260).
ShutdownEnds == mpc = "shutdown" ~> (mpc \in {"ended", "killed"} \/ missed)

=============================================================================
