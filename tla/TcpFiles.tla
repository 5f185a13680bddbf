------------------------------- MODULE TcpFiles ------------------------------
(***************************************************************************)
(* The file transfers of the TCP chat of module3/07: the one FileReceiver  *)
(* of the server, which the uploads of all clients share, and receive_file *)
(* of each client, which the broadcasts of all uploads and the answers to  *)
(* MSG_FILE_GET share.                                                     *)
(*                                                                         *)
(* A file is a sequence of chunks, each filling one MSG_FILE_DATA, and its *)
(* size is their number.  The connections are the FIFO streams of TcpChat, *)
(* without its faults but for clients that die.  Every Message carries, as *)
(* a history the code does not have, its transfer t, an identity and the   *)
(* file the sender read, and its place in the transfer.                    *)
(***************************************************************************)
EXTENDS Naturals, Sequences, SequencesExt

CONSTANTS Peers,         \* connected clients
          Names,         \* file names
          BadNames,      \* those that cannot be created (a missing directory)
          MaxChunks,     \* bound: chunks of a file
          MaxTransfers   \* bound: uploads and answers to MSG_FILE_GET

ASSUME FilesAssumption == /\ BadNames \subseteq Names
                          /\ MaxChunks \in Nat /\ MaxTransfers \in Nat

VARIABLES up,        \* the server runs
          alive,     \* the clients that run
          toServer,  \* Messages on their way from each client
          toClient,  \* Messages on their way to each client
          receiver,  \* file_receiver
          stored,    \* server_files: the contents of each name
          static,    \* receive_file's static variables, for each client
          copies,    \* received_files of each client
          count,     \* transfers begun so far
          alone,     \* the upload the server has followed without a break
          aloneAt    \* the transfer each client has followed without a break

filesVars == <<up, alive, toServer, toClient, receiver, stored, static, copies, count,
               alone, aloneAt>>

NoFile == <<"no file">>
NoTransfer == 0
Closed == [open |-> FALSE, name |-> "", bytes |-> 0, total |-> 0]

Msg(type, name, t, at) == [type |-> type, name |-> name, t |-> t, at |-> at]
Chunk(m) == m.t.file[m.at]

\* The Messages of one file, as send_file and send_file_to_client send them:
\* MSG_FILE, a MSG_FILE_DATA for each chunk, MSG_FILE_END.
Kind(t, at) == CASE at = 0 -> "FILE" [] at \in 1 .. Len(t.file) -> "DATA" [] OTHER -> "END"
Transfer(name, t) ==
    [k \in 1 .. Len(t.file) + 2 |-> Msg(Kind(t, k - 1), name, t, k - 1)]

FilesInit ==
    /\ up = TRUE /\ alive = Peers
    /\ toServer = [c \in Peers |-> <<>>] /\ toClient = [c \in Peers |-> <<>>]
    /\ receiver = Closed /\ stored = [n \in Names |-> NoFile]
    /\ static = [c \in Peers |-> Closed]
    /\ copies = [c \in Peers |-> [n \in Names |-> NoFile]]
    /\ count = 0 /\ alone = NoTransfer /\ aloneAt = [c \in Peers |-> NoTransfer]

-----------------------------------------------------------------------------
(***************************************************************************)
(* A receiver r writes into the directory dir.  Both programs open with    *)
(* "wb", which empties the file.                                           *)
(***************************************************************************)

Opened(name, total) ==
    IF name \in BadNames THEN Closed
    ELSE [open |-> TRUE, name |-> name, bytes |-> 0, total |-> total]
Emptied(dir, name) == IF name \in BadNames THEN dir ELSE [dir EXCEPT ![name] = <<>>]

\* Mutant of StartsAnew: a busy receiver is left alone.
StartsUnlessBusy(r, name) == ~ r.open

\* start_file_receive: the first test resets a receiver that is busy with
\* another name, the second opens the file unless it is the one being received.
StartsAnew(r, name) == ~ r.open \/ r.name # name

\* append_file_data on an open receiver: the file is closed once it has its
\* total size.
Appended(r) ==
    [r EXCEPT !.bytes = @ + 1, !.open = ~ (r.total > 0 /\ r.bytes + 1 >= r.total)]

\* Mutant of Finished: only a complete file is closed.
FinishedIfComplete(r) == [r EXCEPT !.open = @ /\ r.bytes < r.total]

\* finish_file_receive: whatever is open is closed, under any name.
Finished(r) == [r EXCEPT !.open = FALSE]

\* handle_client_message's part for MSG_FILE, MSG_FILE_DATA and MSG_FILE_END.
Receive(m) ==
    LET anew == m.type # "END" /\ StartsAnew(receiver, m.name)
        r == IF anew THEN Opened(m.name, Len(m.t.file)) ELSE receiver
        dir == IF anew THEN Emptied(stored, m.name) ELSE stored
    IN CASE m.type = "FILE" -> receiver' = r /\ stored' = dir
         [] m.type = "DATA" /\ r.open ->
                receiver' = Appended(r) /\ stored' = [dir EXCEPT ![r.name] = Append(@, Chunk(m))]
         [] m.type = "DATA" /\ ~ r.open -> receiver' = r /\ stored' = dir
         [] m.type = "END" -> receiver' = Finished(r) /\ stored' = dir

\* The server handles one Message: it receives the file and broadcasts the
\* Message to the others, or answers MSG_FILE_GET with what the file holds; of
\* a file it is still writing, stdio has written out a part only.
HandleUpload(c) ==
    LET m == Head(toServer[c]) IN
    /\ toServer[c] # <<>> /\ m.type # "GET"
    /\ Receive(m)
    /\ toServer' = [toServer EXCEPT ![c] = Tail(@)]
    /\ toClient' = [d \in Peers |-> IF d \in alive \ {c} THEN Append(toClient[d], m)
                                      ELSE toClient[d]]
    /\ alone' = IF m.type = "FILE" /\ ~ (receiver.open /\ receiver.name = m.name) THEN m.t.id
                ELSE IF alone = m.t.id THEN alone ELSE NoTransfer
    /\ UNCHANGED <<up, alive, static, copies, count, aloneAt>>

HandleGet(c) ==
    LET m == Head(toServer[c])
        now == stored[m.name]
    IN
    /\ toServer[c] # <<>> /\ m.type = "GET"
    /\ toServer' = [toServer EXCEPT ![c] = Tail(@)]
    /\ \/ /\ now = NoFile
          /\ UNCHANGED toClient
       \/ /\ now # NoFile
          /\ \E k \in 0 .. Len(now) :
                /\ ~ (receiver.open /\ receiver.name = m.name) => k = Len(now)
                /\ toClient' = [toClient EXCEPT ![c] =
                       @ \o Transfer(m.name, [m.t EXCEPT !.file = SubSeq(now, 1, k)])]
    /\ UNCHANGED <<up, alive, receiver, stored, static, copies, count, alone, aloneAt>>

\* signal_handler, cleanup_files: whatever was stored, and the file being
\* received, is removed, and what is still on its way is never handled.
RemoveFiles ==
    /\ up /\ up' = FALSE
    /\ stored' = [n \in Names |-> NoFile] /\ receiver' = Closed
    /\ toServer' = [c \in Peers |-> <<>>]
    /\ UNCHANGED <<alive, toClient, static, copies, count, alone, aloneAt>>

-----------------------------------------------------------------------------
(***************************************************************************)
(* The clients.                                                            *)
(***************************************************************************)

\* Mutant of Reopen: bytes_received is not reset.
ReopenKeepsBytes(r, m) == [Opened(m.name, Len(m.t.file)) EXCEPT !.bytes = r.bytes]

\* receive_file: MSG_FILE closes what is open and opens the new file;
\* MSG_FILE_DATA opens a file if none is open, or if another name's is;
\* MSG_FILE_END closes what is open.
Reopen(r, m) == Opened(m.name, Len(m.t.file))
ReceiveFile(d, m) ==
    LET anew == m.type = "FILE" \/ (m.type = "DATA" /\ StartsAnew(static[d], m.name))
        r == IF anew THEN Reopen(static[d], m) ELSE static[d]
        dir == IF anew THEN Emptied(copies[d], m.name) ELSE copies[d]
        write == m.type = "DATA" /\ r.open
    IN /\ static' = [static EXCEPT ![d] =
              IF write THEN [r EXCEPT !.bytes = @ + 1, !.open = r.bytes + 1 < r.total]
              ELSE [r EXCEPT !.open = @ /\ m.type # "END"]]
       /\ copies' = [copies EXCEPT ![d] =
              IF write THEN [dir EXCEPT ![r.name] = Append(@, Chunk(m))] ELSE dir]

HandleServerFile(d) ==
    LET m == Head(toClient[d]) IN
    /\ d \in alive /\ toClient[d] # <<>>
    /\ ReceiveFile(d, m)
    /\ toClient' = [toClient EXCEPT ![d] = Tail(@)]
    /\ aloneAt' = [aloneAt EXCEPT ![d] = IF m.type = "FILE" \/ @ = m.t.id THEN m.t.id
                                          ELSE NoTransfer]
    /\ UNCHANGED <<up, alive, toServer, receiver, stored, count, alone>>

\* send_file ("/file"): the whole file enters the stream.
SendFile(c) ==
    /\ up /\ c \in alive /\ count < MaxTransfers
    /\ \E name \in Names, k \in 0 .. MaxChunks :
          toServer' = [toServer EXCEPT ![c] =
              @ \o Transfer(name, [id |-> count + 1, file |-> [i \in 1 .. k |-> <<count + 1, i>>]])]
    /\ count' = count + 1
    /\ UNCHANGED <<up, alive, toClient, receiver, stored, static, copies, alone, aloneAt>>

\* "/get"
Get(c) ==
    /\ up /\ c \in alive /\ count < MaxTransfers
    /\ \E name \in Names : toServer' = [toServer EXCEPT ![c] =
           Append(@, Msg("GET", name, [id |-> count + 1, file |-> <<>>], 0))]
    /\ count' = count + 1
    /\ UNCHANGED <<up, alive, toClient, receiver, stored, static, copies, alone, aloneAt>>

\* The client dies: what it had not sent yet never comes.
Die(c) ==
    /\ c \in alive
    /\ alive' = alive \ {c}
    /\ \E k \in 0 .. Len(toServer[c]) :
          toServer' = [toServer EXCEPT ![c] = SubSeq(@, 1, k)]
    /\ UNCHANGED <<up, toClient, receiver, stored, static, copies, count, alone, aloneAt>>

FilesNext ==
    \/ RemoveFiles
    \/ \E c \in Peers : \/ HandleUpload(c) \/ HandleGet(c) \/ HandleServerFile(c)
                        \/ SendFile(c) \/ Get(c) \/ Die(c)

FilesSpec == FilesInit /\ [][FilesNext]_filesVars

-----------------------------------------------------------------------------
(***************************************************************************)
(* Properties.                                                             *)
(***************************************************************************)

Ended(q, qNext) == q # <<>> /\ Head(q).type = "END" /\ qNext = Tail(q)

\* One FileReceiver serves every client.  When MSG_FILE_END of an upload is
\* handled the server's file is exactly what was uploaded, provided no Message
\* of another upload came in between and no upload of the same name, perhaps
\* one its client abandoned, was open when it began.
UploadStoredWhole ==
    [][\A c \in Peers :
          LET m == Head(toServer[c]) IN
          (/\ Ended(toServer[c], toServer'[c]) /\ alive' = alive /\ up'
           /\ alone = m.t.id /\ m.name \notin BadNames)
             => (stored'[m.name] = m.t.file /\ ~ receiver'.open)]_filesVars

\* A client's received_files: the file of a transfer whose Messages arrived
\* without another transfer's among them is exactly what was sent, also when
\* an earlier transfer was cut off, had the same name, or left a file open.
CopyIsWhole ==
    [][\A d \in Peers :
          LET m == Head(toClient[d]) IN
          (/\ Ended(toClient[d], toClient'[d]) /\ aloneAt[d] = m.t.id
           /\ m.name \notin BadNames)
             => (copies'[d][m.name] = m.t.file /\ ~ static'[d].open)]_filesVars

\* However the uploads of several clients are interleaved, and though each
\* resets the other's file, once everything sent has been handled and nobody
\* died the server holds no file open.
NothingLeftOpen ==
    (alive = Peers /\ \A c \in Peers : toServer[c] = <<>>) => ~ receiver.open
=============================================================================
