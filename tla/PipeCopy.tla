------------------------------ MODULE PipeCopy ------------------------------
(***************************************************************************)
(* module3/01: a parent sends files to a child over a pipe, anonymous or   *)
(* named; the child writes the copies and acknowledges each one over a     *)
(* second pipe.  A pipe is a stream: a read takes what is there, up to its *)
(* buffer, whatever writes that came from, and only pauses of the parent   *)
(* keep a header apart from the data that follow it.                       *)
(*                                                                         *)
(* The stream is a sequence of units: a header, an END, or a part of a     *)
(* file, which is text of no meaning or starts with "END" or with "FILE:", *)
(* which matters where a read starts with it.  No unit is split by a read. *)
(* Files do not change while they are copied; one that cannot be opened is *)
(* skipped as one that does not exist.  Reading a file may fail at any     *)
(* place (a directory at the first), and a write to a copy may fail or     *)
(* store less than it was given.                                           *)
(***************************************************************************)
EXTENDS Integers, Sequences, FiniteSets

CONSTANTS
    Contents,    \* what a file may hold: sequences of "text", "END" and "FILE"
    FileCount,   \* file_count, a bound
    Chunk,       \* what the parent writes at once: BUFFER_SIZE, 4096
    Read,        \* what the child reads at once: BUFFER_SIZE - 1
    Room         \* what a pipe holds: 65536, a bound

ASSUME PipeAssumption ==
    /\ Contents \subseteq Seq({"text", "END", "FILE"}) /\ FileCount \in Nat \ {0}
    /\ Read \in Nat \ {0} /\ Chunk \in Nat \ {0} /\ Chunk <= Room

Files   == 1..FileCount
Missing == <<"missing">>   \* the file does not exist or cannot be opened
Header(i)  == [kind |-> "header", file |-> i, at |-> 0]
End        == [kind |-> "end", file |-> 0, at |-> 0]
Part(i, k) == [kind |-> "part", file |-> i, at |-> k]

VARIABLES
    content,   \* content[i]: what the i-th file holds, or Missing
    named,     \* use_named_pipe
    fifos,     \* the named pipes that exist
    ppc, cpc,  \* where the parent and the child are
    i,         \* the parent's file
    sent,      \* units of it that are written
    cut,       \* the last file a read of which failed, or 0
    data,      \* the data pipe
    acks,      \* the messages in the ack pipe
    fd,        \* the file whose copy the child has open, or 0
    total,     \* total_bytes, in units
    copy,      \* copy[i]: the parts written to the copy of i
    acked,     \* files whose acknowledgement the parent has reported
    merged,    \* history: a header was read together with data
    mistaken,  \* history: data were taken for a header or for END
    failed,    \* history: a copy could not be created or written
    short      \* history: the files of which a write stored less than it was given

parent  == <<i, sent, cut, acked>>
child   == <<fd, total, copy, merged, mistaken, failed, short>>
setup   == <<content, named>>
vars    == <<setup, fifos, ppc, cpc, parent, data, acks, child>>

Init == /\ content \in [Files -> Contents \cup {Missing}]
        /\ named \in BOOLEAN
        /\ fifos \in {{}, IF named THEN {"data", "ack"} ELSE {}}
        /\ ppc = IF named THEN "mkfifo" ELSE "fork"
        /\ cpc = "unborn"
        /\ i = 1 /\ sent = 0 /\ cut = 0 /\ data = <<>> /\ acks = <<>> /\ fd = 0 /\ total = 0
        /\ copy = [f \in Files |-> <<>>] /\ acked = {}
        /\ merged = FALSE /\ mistaken = FALSE /\ failed = FALSE /\ short = {}

-----------------------------------------------------------------------------
(* main: the pipes, the fork, and the opening of named pipes, where each   *)
(* open waits for the other side.                                          *)

Make(pipe, next) ==
    \/ /\ fifos' = fifos \cup {pipe}
       /\ ppc' = next
    \/ /\ pipe \notin fifos
       /\ fifos' = fifos \ {"data"}
       /\ ppc' = "failed"

Mkfifo == /\ \/ ppc = "mkfifo" /\ Make("data", "mkfifo2")
             \/ ppc = "mkfifo2" /\ Make("ack", "fork")
          /\ UNCHANGED <<setup, cpc, parent, data, acks, child>>

Fork == /\ ppc = "fork"
        /\ \/ /\ ppc' = IF named THEN "open_data" ELSE "ready"
              /\ cpc' = IF named THEN "open_data" ELSE "start"
              /\ UNCHANGED fifos
           \/ /\ ppc' = "failed"
              /\ fifos' = {}
              /\ UNCHANGED cpc
        /\ UNCHANGED <<setup, parent, data, acks, child>>

\* Both sides pass an open once both have come to it.
Open(here, pnext, cnext) ==
    /\ ppc = here /\ cpc = here
    /\ ppc' = pnext /\ cpc' = cnext
    /\ UNCHANGED <<setup, fifos, parent, data, acks, child>>

OpenData == Open("open_data", "open_ack", "open_ack")
OpenAck  == Open("open_ack", "ready", "start")

-----------------------------------------------------------------------------
(* parent_process *)

\* A write waits for room; without a reader it is the end of the parent by SIGPIPE.
Write(units, next) ==
    \/ /\ cpc # "exited"
       /\ Len(data) + Len(units) <= Room
       /\ data' = data \o units
       /\ ppc' = next
    \/ /\ cpc = "exited"
       /\ ppc' = "killed"
       /\ UNCHANGED data

Parent == UNCHANGED <<setup, cpc, child>>

\* Ten bytes hold two messages of the child; a closed pipe gives none.
TakeAcks == /\ acks # <<>> \/ cpc = "exited"
            /\ acks' = IF Len(acks) <= 2 THEN <<>> ELSE SubSeq(acks, 3, Len(acks))

Ready == /\ ppc = "ready"
         /\ TakeAcks
         /\ ppc' = "file"
         /\ Parent /\ UNCHANGED <<fifos, data, parent>>

Skip == /\ ppc = "file" /\ i <= FileCount /\ content[i] = Missing
        /\ i' = i + 1
        /\ Parent /\ UNCHANGED <<fifos, ppc, data, acks, sent, cut, acked>>

SendHeader == /\ ppc = "file" /\ i <= FileCount /\ content[i] # Missing
              /\ Write(<<Header(i)>>, "send")
              /\ sent' = 0
              /\ Parent /\ UNCHANGED <<fifos, acks, i, cut, acked>>

SendChunk == /\ ppc = "send" /\ cut # i /\ sent < Len(content[i])
             /\ LET n == IF Len(content[i]) - sent < Chunk THEN Len(content[i]) - sent ELSE Chunk
                IN  /\ Write([k \in 1..n |-> Part(i, sent + k)], "send")
                    /\ sent' = sent + n
             /\ Parent /\ UNCHANGED <<fifos, acks, i, cut, acked>>

\* The loop takes a read that fails for the end of the file.
ReadFails == /\ ppc = "send" /\ cut # i /\ sent < Len(content[i])
             /\ cut' = i
             /\ Parent /\ UNCHANGED <<fifos, ppc, data, acks, i, sent, acked>>

AllRead == sent = Len(content[i]) \/ cut = i

\* Mutant of WaitAck: the acknowledgement is not waited for.
WaitAckNot ==
    /\ ppc = "send" /\ AllRead
    /\ acked' = acked \cup {i}
    /\ i' = i + 1
    /\ ppc' = "file"
    /\ Parent /\ UNCHANGED <<fifos, data, acks, sent, cut>>

WaitAck == /\ ppc = "send" /\ AllRead
           /\ TakeAcks
           /\ acked' = acked \cup {i}
           /\ i' = i + 1
           /\ ppc' = "file"
           /\ Parent /\ UNCHANGED <<fifos, data, sent, cut>>

SendEnd == /\ ppc = "file" /\ i > FileCount
           /\ Write(<<End>>, "wait")
           /\ Parent /\ UNCHANGED <<fifos, acks, parent>>

\* main after parent_process: both ends closed, the child waited for, the names removed.
Finish == /\ ppc = "wait" /\ cpc = "exited"
          /\ fifos' = {}
          /\ ppc' = "done"
          /\ Parent /\ UNCHANGED <<data, acks, parent>>

-----------------------------------------------------------------------------
(* child_process *)

Child == UNCHANGED <<setup, fifos, ppc, parent>>

Start == /\ cpc = "start"
         /\ acks' = Append(acks, "READY")
         /\ cpc' = "loop"
         /\ Child /\ UNCHANGED <<data, child>>

buffer == SubSeq(data, 1, IF Len(data) < Read THEN Len(data) ELSE Read)
rest   == SubSeq(data, Len(buffer) + 1, Len(data))

\* What strncmp finds at the start of the buffer.
Looks == LET u == buffer[1]
         IN  IF u.kind # "part" THEN u.kind
             ELSE CASE content[u.file][u.at] = "END"  -> "end"
                    [] content[u.file][u.at] = "FILE" -> "header"
                    [] OTHER -> "part"

Fooled == mistaken \/ (buffer[1].kind = "part" /\ Looks # "part")

\* Mutant of CloseCopy: the copy is closed and not acknowledged.
CloseCopySilent(more) == acks' = acks \o more

\* The copy that is open is closed and acknowledged.
CloseCopy(more) == acks' = acks \o (IF fd # 0 THEN <<"ACK">> ELSE <<>>) \o more

\* A header; what follows it in the buffer is dropped.
NewFile ==
    LET f == buffer[1].file
    IN  /\ buffer[1].kind = "header"
        /\ merged' = (merged \/ Len(buffer) > 1)
        /\ \/ fd' = 0 /\ failed' = TRUE /\ CloseCopy(<<>>) /\ UNCHANGED <<copy, total>>
           \/ /\ copy' = [copy EXCEPT ![f] = <<>>]
              /\ IF content[f] = <<>>
                   THEN fd' = 0 /\ CloseCopy(<<"ACK">>) /\ UNCHANGED total
                   ELSE fd' = f /\ CloseCopy(<<>>) /\ total' = 0
              /\ UNCHANGED failed

\* Text that starts with "FILE:" and names no size.
NoFile == /\ buffer[1].kind = "part"
          /\ CloseCopy(<<>>)
          /\ fd' = 0
          /\ UNCHANGED <<copy, total, merged, failed>>

ReadHeader == /\ cpc = "loop" /\ data # <<>> /\ Looks = "header"
              /\ data' = rest
              /\ NewFile \/ NoFile
              /\ mistaken' = Fooled
              /\ Child /\ UNCHANGED <<cpc, short>>

ReadEnd == /\ cpc = "loop" /\ data # <<>> /\ Looks = "end"
           /\ data' = rest
           /\ CloseCopy(<<>>)
           /\ fd' = 0
           /\ cpc' = "exited"
           /\ mistaken' = Fooled
           /\ Child /\ UNCHANGED <<copy, total, merged, failed, short>>

\* Mutant of Enough: a copy is complete one unit early.
EnoughEarly(n) == n + 1 >= Len(content[fd])

\* total_bytes >= file_size
Enough(n) == n >= Len(content[fd])

\* Data without an open copy are dropped; no more than file_size is written.  Only -1
\* is an error of write: total_bytes grows by what it was given, whatever it stored.
ReadData ==
    /\ cpc = "loop" /\ data # <<>> /\ Looks = "part"
    /\ data' = rest
    /\ \/ /\ fd = 0
          /\ UNCHANGED <<fd, total, copy, failed, short, acks>>
       \/ LET missing == Len(content[fd]) - total
              new     == SubSeq(buffer, 1, IF Len(buffer) < missing THEN Len(buffer) ELSE missing)
          IN  /\ fd # 0
              /\ \E k \in 0 .. Len(new) :
                    /\ copy' = [copy EXCEPT ![fd] = @ \o SubSeq(new, 1, k)]
                    /\ short' = IF k < Len(new) THEN short \cup {fd} ELSE short
              /\ total' = total + Len(new)
              /\ IF Enough(total + Len(new))
                   THEN fd' = 0 /\ CloseCopy(<<>>)
                   ELSE UNCHANGED <<fd, acks>>
              /\ UNCHANGED failed
       \/ /\ fd # 0
          /\ fd' = 0
          /\ failed' = TRUE
          /\ UNCHANGED <<total, copy, short, acks>>
    /\ Child /\ UNCHANGED <<cpc, merged, mistaken>>

\* The pipe has no writer any more: read returns 0.
ReadEof == /\ cpc = "loop" /\ data = <<>> /\ ppc \in {"wait", "killed"}
           /\ cpc' = "exited"
           /\ fd' = 0
           /\ Child /\ UNCHANGED <<data, acks, total, copy, merged, mistaken, failed, short>>

-----------------------------------------------------------------------------
ParentStep == \/ Mkfifo \/ Fork \/ Ready \/ Skip \/ SendHeader \/ SendChunk
              \/ ReadFails \/ WaitAck \/ SendEnd \/ Finish
ChildStep  == Start \/ ReadHeader \/ ReadEnd \/ ReadData \/ ReadEof

Next == ParentStep \/ ChildStep \/ OpenData \/ OpenAck

Spec == Init /\ [][Next]_vars

\* The kernel runs both processes, and wakes one whose read, write or open can go on.
FairSpec == Spec /\ WF_vars(ParentStep) /\ WF_vars(ChildStep) /\ WF_vars(OpenData \/ OpenAck)

-----------------------------------------------------------------------------
(* Properties. *)

Whole(f) == [k \in 1..Len(content[f]) |-> Part(f, k)]

\* Whatever the reads take together, whatever file cannot be read to its end and whatever
\* copy cannot be written, an acknowledgement the parent reports is for a complete copy in
\* the right order, unless data looked like a header or like END.  The one other
\* exception is a write that stored less than it was given, which nothing notices.
AckedIsCopied == ~mistaken => \A f \in acked : copy[f] = Whole(f) \/ f \in short

\* When an acknowledgement is under way nothing is left in the data pipe: the next header
\* starts a read of its own.
EmptyAtAck == ~mistaken /\ (\E k \in DOMAIN acks : acks[k] = "ACK") => data = <<>>

Ended == ppc = "failed" \/ (ppc = "done" /\ cpc = "exited")

\* The program and its child end by themselves, unless a header was read together with
\* data, data were mistaken, a copy could not be written, or a file not be read to its end.
EndsUnlessSpoiled == <>(merged \/ mistaken \/ failed \/ cut # 0 \/ Ended)

=============================================================================
