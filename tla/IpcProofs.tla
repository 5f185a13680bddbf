----------------------------- MODULE IpcProofs ------------------------------
(***************************************************************************)
(* module3/01 and module3/02, the two programs whose processes talk over   *)
(* one ordered channel of the kernel.                                      *)
(*                                                                         *)
(* The copy over pipes: an acknowledged copy is complete, and the data     *)
(* pipe is empty when an acknowledgement is under way, for any number of   *)
(* files and any sizes of the chunks, reads and pipes.                     *)
(*                                                                         *)
(* The broker: every subscriber gets the lines of each publisher in order, *)
(* none twice and none left out, for any clients, topics and limits.       *)
(***************************************************************************)
EXTENDS PipeCopy, Broker, SequenceTheorems, TLAPS

-----------------------------------------------------------------------------
(* The copy over pipes. *)

Unit == {Header(f) : f \in Files} \cup {End} \cup {Part(f, k) : f \in Files, k \in Nat}
BeforeFork == {"mkfifo", "mkfifo2", "fork", "failed"}
Opening    == {"open_data", "open_ack"}
ParentAt   == BeforeFork \cup Opening \cup {"ready", "file", "send", "wait", "done", "killed"}
ChildAt    == Opening \cup {"unborn", "start", "loop", "exited"}

\* Every variable keeps its type, also after data were taken for a header.
TypeOK ==
    /\ content \in [Files -> Contents \cup {Missing}]
    /\ named \in BOOLEAN /\ fifos \subseteq {"data", "ack"}
    /\ ppc \in ParentAt /\ cpc \in ChildAt
    /\ i \in 1 .. FileCount + 1 /\ sent \in Nat /\ cut \in Files \cup {0}
    /\ ppc = "send" => i \in Files /\ content[i] # Missing /\ sent <= Len(content[i])
    /\ data \in Seq(Unit) /\ acks \in Seq({"READY", "ACK"})
    /\ fd \in Files \cup {0} /\ total \in Nat /\ short \subseteq Files
    /\ copy \in [Files -> Seq(Unit)] /\ acked \subseteq Files
    /\ merged \in BOOLEAN /\ mistaken \in BOOLEAN /\ failed \in BOOLEAN

\* Nothing is under way and no copy is open.
Idle == data = <<>> /\ acks = <<>> /\ fd = 0

\* Before the first file: the pipes are empty but for the child's READY.
NotBegun ==
    /\ ppc \in BeforeFork => cpc = "unborn" /\ Idle
    /\ ppc \in Opening => cpc = ppc /\ Idle
    /\ ppc = "ready" => \/ cpc = "start" /\ Idle
                        \/ cpc = "loop" /\ data = <<>> /\ acks = <<"READY">> /\ fd = 0

\* Between two files, and after the last one.
Between ==
    /\ ppc = "file" => cpc = "loop" /\ Idle
    /\ ppc = "wait" => /\ acks = <<>> /\ fd = 0
                       /\ \/ cpc = "loop" /\ data = <<End>>
                          \/ cpc = "exited" /\ data = <<>>
    /\ ppc = "done" => cpc = "exited" /\ Idle
    /\ ppc # "killed"

\* The header of the file being sent is still in the pipe, with all that follows it.
HeaderWaits == /\ acks = <<>> /\ fd = 0
               /\ Len(data) = sent + 1 /\ data[1] = Header(i)
               /\ \A k \in 1 .. sent : data[k + 1] = Part(i, k)

\* The header was read: the pipe holds the last parts that were sent.
Taken == sent - Len(data)
PartsWait == /\ acks = <<>>
             /\ Len(data) <= sent
             /\ \A k \in 1 .. Len(data) : data[k] = Part(i, Taken + k)

\* As much is counted as was taken, or less if a read dropped data, and if it is as much
\* the copy has it all but for a short write.
Exact     == Len(copy[i]) = total /\ \A k \in 1 .. total : copy[i][k] = Part(i, k)
CopyGrows == \/ fd = 0
             \/ /\ fd = i
                /\ total <= Taken /\ total < Len(content[i])
                /\ total = Taken => Exact \/ i \in short

\* The copy is complete and its acknowledgement on the way.
CopyIsDone == /\ data = <<>> /\ acks = <<"ACK">> /\ fd = 0
              /\ sent = Len(content[i]) /\ (copy[i] = Whole(i) \/ i \in short)

Sending == ppc = "send" =>
    cpc = "loop" /\ (HeaderWaits \/ (PartsWait /\ CopyGrows) \/ CopyIsDone)

AckedEarlier == \A f \in acked : f < i /\ (copy[f] = Whole(f) \/ f \in short)

Good == NotBegun /\ Between /\ Sending /\ AckedEarlier

PipeInv == TypeOK /\ (~mistaken => Good)

-----------------------------------------------------------------------------
(***************************************************************************)
(* Sequences and units.                                                    *)
(***************************************************************************)

\* The first n elements of a sequence.
LEMMA FirstOf ==
    ASSUME NEW S, NEW s \in Seq(S), NEW n \in 0 .. Len(s)
    PROVE  /\ SubSeq(s, 1, n) \in Seq(S) /\ Len(SubSeq(s, 1, n)) = n
           /\ \A k \in 1 .. n : SubSeq(s, 1, n)[k] = s[k]
<1>1. 1 \in Int /\ n \in Int /\ Len(s) \in Nat /\ \A k \in 1 .. n : s[k] \in S
  OBVIOUS
<1>2. /\ SubSeq(s, 1, n) \in Seq(S)
      /\ Len(SubSeq(s, 1, n)) = IF 1 <= n THEN n - 1 + 1 ELSE 0
      /\ \A k \in 1 .. n - 1 + 1 : SubSeq(s, 1, n)[k] = s[1 + k - 1]
  BY <1>1, SubSeqProperties
<1>3. n - 1 + 1 = n /\ (1 <= n \/ n = 0) /\ \A k \in 1 .. n : 1 + k - 1 = k
  BY <1>1
<1> QED
  BY <1>2, <1>3

\* What is left of a sequence without its first n elements.
LEMMA LastOf ==
    ASSUME NEW S, NEW s \in Seq(S), NEW n \in 0 .. Len(s)
    PROVE  /\ SubSeq(s, n + 1, Len(s)) \in Seq(S) /\ Len(SubSeq(s, n + 1, Len(s))) = Len(s) - n
           /\ \A k \in 1 .. Len(s) - n : SubSeq(s, n + 1, Len(s))[k] = s[n + k]
<1>1. n + 1 \in Int /\ Len(s) \in Nat /\ \A k \in n + 1 .. Len(s) : s[k] \in S
  OBVIOUS
<1>2. /\ SubSeq(s, n + 1, Len(s)) \in Seq(S)
      /\ Len(SubSeq(s, n + 1, Len(s))) = IF n + 1 <= Len(s) THEN Len(s) - (n + 1) + 1 ELSE 0
      /\ \A k \in 1 .. Len(s) - (n + 1) + 1 : SubSeq(s, n + 1, Len(s))[k] = s[n + 1 + k - 1]
  BY <1>1, SubSeqProperties
<1>3. \A l \in Nat : n \in 0 .. l => /\ l - (n + 1) + 1 = l - n /\ (n + 1 <= l \/ l - n = 0)
                                     /\ \A k \in 1 .. l - n : n + 1 + k - 1 = n + k
  OBVIOUS
<1>4. Len(s) - (n + 1) + 1 = Len(s) - n /\ (n + 1 <= Len(s) \/ Len(s) - n = 0)
      /\ \A k \in 1 .. Len(s) - n : n + 1 + k - 1 = n + k
  BY <1>1, <1>3
<1> QED
  BY <1>2, <1>4

\* The parts m + 1 to m + n of a file, as a write puts them into the pipe.
LEMMA PartsAreUnits ==
    ASSUME NEW f \in Files, NEW m \in Nat, NEW n \in Nat
    PROVE  /\ [k \in 1 .. n |-> Part(f, m + k)] \in Seq(Unit)
           /\ Len([k \in 1 .. n |-> Part(f, m + k)]) = n
<1>1. \A k \in 1 .. n : Part(f, m + k) \in Unit
  BY DEF Unit
<1>2. [k \in 1 .. n |-> Part(f, m + k)] \in [1 .. n -> Unit]
  BY <1>1
<1>3. [k \in 1 .. n |-> Part(f, m + k)] \in Seq(Unit)
  BY <1>2, SeqDef
<1> QED
  BY <1>3

\* What is in the pipe: a header, END, or a part of a file.
LEMMA UnitKinds ==
    /\ \A f : Header(f).kind = "header" /\ Header(f).file = f
    /\ End.kind = "end"
    /\ \A f, k : Part(f, k).kind = "part" /\ Part(f, k).file = f
    /\ \A u \in Unit : /\ u.kind \in {"header", "end", "part"}
                       /\ u.kind = "header" => u.file \in Files
    /\ \A f \in Files : Header(f) \in Unit
    /\ End \in Unit
BY DEF Header, End, Part, Unit

\* What a read takes and what it leaves.
LEMMA BufferAndRest ==
    ASSUME TypeOK, data # <<>>
    PROVE  /\ buffer \in Seq(Unit) /\ Len(buffer) \in 1 .. Len(data)
           /\ \A k \in 1 .. Len(buffer) : buffer[k] = data[k]
           /\ rest \in Seq(Unit) /\ Len(rest) = Len(data) - Len(buffer)
           /\ \A k \in 1 .. Len(data) - Len(buffer) : rest[k] = data[Len(buffer) + k]
           /\ buffer[1] = data[1] /\ data[1] \in Unit
<1> DEFINE n == IF Len(data) < Read THEN Len(data) ELSE Read
<1>1. data \in Seq(Unit) /\ Len(data) \in Nat /\ Len(data) # 0
  BY EmptySeq DEF TypeOK
<1>2. Read \in Nat \ {0}
  BY PipeAssumption
<1>3. n \in 1 .. Len(data) /\ n \in 0 .. Len(data)
  <2>1. \A l, r \in Nat \ {0} : (IF l < r THEN l ELSE r) \in 1 .. l /\ (IF l < r THEN l ELSE r) \in 0 .. l
    OBVIOUS
  <2>2. Len(data) \in Nat \ {0}
    BY <1>1
  <2> QED
    BY <1>2, <2>1, <2>2
<1>4. buffer = SubSeq(data, 1, n)
  BY DEF buffer
<1> HIDE DEF n
<1>5. buffer \in Seq(Unit) /\ Len(buffer) = n /\ \A k \in 1 .. n : buffer[k] = data[k]
  BY <1>1, <1>3, <1>4, FirstOf
<1>6. rest = SubSeq(data, n + 1, Len(data))
  BY <1>5 DEF rest
<1>7. /\ rest \in Seq(Unit) /\ Len(rest) = Len(data) - n
      /\ \A k \in 1 .. Len(data) - n : rest[k] = data[n + k]
  BY <1>1, <1>3, <1>6, LastOf
<1>8. 1 \in 1 .. n /\ 1 \in 1 .. Len(data)
  BY <1>1, <1>3
<1>9. buffer[1] = data[1] /\ data[1] \in Unit
  BY <1>1, <1>5, <1>8
<1> QED
  BY <1>3, <1>5, <1>7, <1>9

-----------------------------------------------------------------------------
(***************************************************************************)
(* The parent.                                                             *)
(***************************************************************************)

\* Before the processes start the pipes are empty.
LEMMA PipeInit == Init => PipeInv
<1> SUFFICES ASSUME Init PROVE PipeInv
  OBVIOUS
<1>1. 1 \in 1 .. FileCount + 1 /\ ppc \in {"mkfifo", "fork"}
  BY PipeAssumption DEF Init
<1>2. TypeOK
  <2>1. <<>> \in Seq(Unit) /\ <<>> \in Seq({"READY", "ACK"})
    BY EmptySeq
  <2>2. fifos \subseteq {"data", "ack"} /\ copy \in [Files -> Seq(Unit)]
    BY <2>1 DEF Init
  <2> QED
    BY <1>1, <2>1, <2>2 DEF Init, TypeOK, ParentAt, ChildAt, BeforeFork
<1>3. Good
  BY <1>1 DEF Init, Good, NotBegun, Between, Sending, AckedEarlier, Idle, BeforeFork, Opening
<1> QED
  BY <1>2, <1>3 DEF PipeInv

\* Making, forking and opening; nothing has been sent.
LEMMA SetupKeeps ==
    ASSUME PipeInv, Mkfifo \/ Fork \/ OpenData \/ OpenAck
    PROVE  PipeInv'
<1>1. /\ UNCHANGED <<content, named, i, sent, cut, acked, data, acks, fd, total, copy, merged, mistaken, failed, short>>
      /\ ppc \in BeforeFork \cup Opening
      /\ \/ ppc' \in BeforeFork /\ cpc' = cpc /\ ppc \in BeforeFork
         \/ ppc = "fork" /\ ppc' \in Opening /\ cpc' = ppc'
         \/ ppc = "fork" /\ ppc' = "ready" /\ cpc' = "start"
         \/ ppc = "open_data" /\ ppc' = "open_ack" /\ cpc' = "open_ack"
         \/ ppc = "open_ack" /\ ppc' = "ready" /\ cpc' = "start"
  BY DEF Mkfifo, Make, Fork, OpenData, OpenAck, Open, setup, parent, child, BeforeFork, Opening
<1>2. fifos' \subseteq {"data", "ack"}
  BY DEF Mkfifo, Make, Fork, OpenData, OpenAck, Open, PipeInv, TypeOK
<1>3. TypeOK'
  BY <1>1, <1>2 DEF PipeInv, TypeOK, ParentAt, ChildAt, BeforeFork, Opening
<1>4. ASSUME ~mistaken' PROVE Good'
  <2>1. NotBegun /\ Between /\ Sending /\ AckedEarlier
    BY <1>1, <1>4 DEF PipeInv, Good
  <2>2. Idle'
    BY <1>1, <2>1 DEF NotBegun, Idle
  <2>3. NotBegun' /\ Between' /\ Sending'
    BY <1>1, <2>1, <2>2 DEF NotBegun, Between, Sending, BeforeFork, Opening
  <2>4. AckedEarlier'
    BY <1>1, <2>1 DEF AckedEarlier, Whole
  <2> QED
    BY <2>3, <2>4 DEF Good
<1> QED
  BY <1>3, <1>4 DEF PipeInv

\* A read of the ack pipe takes one or two messages.
LEMMA AcksTaken ==
    ASSUME TypeOK, TakeAcks
    PROVE  acks' \in Seq({"READY", "ACK"}) /\ \A x : acks = <<x>> => acks' = <<>>
<1>1. acks \in Seq({"READY", "ACK"}) /\ Len(acks) \in Nat
  BY DEF TypeOK
<1>2. CASE Len(acks) <= 2
  <2>1. acks' = <<>>
    BY <1>2 DEF TakeAcks
  <2> QED
    BY <2>1, EmptySeq
<1>3. CASE ~(Len(acks) <= 2)
  <2>1. 2 \in 0 .. Len(acks) /\ 2 + 1 = 3
    BY <1>1, <1>3
  <2>2. acks' = SubSeq(acks, 2 + 1, Len(acks))
    BY <1>3, <2>1 DEF TakeAcks
  <2>3. acks' \in Seq({"READY", "ACK"})
    BY <1>1, <2>1, <2>2, LastOf
  <2>4. ASSUME NEW x, acks = <<x>> PROVE FALSE
    <3>1. Len(acks) = 1
      BY <2>4
    <3> QED
      BY <1>3, <3>1
  <2> QED
    BY <2>3, <2>4
<1> QED
  BY <1>2, <1>3

\* The parent takes READY and comes to its first file.
LEMMA ReadyKeeps ==
    ASSUME PipeInv, Ready
    PROVE  PipeInv'
<1>1. /\ UNCHANGED <<content, named, fifos, cpc, i, sent, cut, acked, data, fd, total, copy, merged, mistaken, failed, short>>
      /\ ppc = "ready" /\ ppc' = "file" /\ TakeAcks
  BY DEF Ready, Parent, setup, parent, child
<1>2. acks' \in Seq({"READY", "ACK"}) /\ \A x : acks = <<x>> => acks' = <<>>
  BY <1>1, AcksTaken DEF PipeInv
<1>3. TypeOK'
  BY <1>1, <1>2 DEF PipeInv, TypeOK, ParentAt
<1>4. ASSUME ~mistaken' PROVE Good'
  <2>1. NotBegun /\ AckedEarlier
    BY <1>1, <1>4 DEF PipeInv, Good
  <2>2. cpc = "loop" /\ data = <<>> /\ acks = <<"READY">> /\ fd = 0
    BY <1>1, <2>1 DEF NotBegun, TakeAcks, Idle
  <2>3. Idle' /\ cpc' = "loop"
    BY <1>1, <1>2, <2>2 DEF Idle
  <2>4. NotBegun' /\ Between' /\ Sending'
    BY <1>1, <2>3 DEF NotBegun, Between, Sending, BeforeFork, Opening
  <2>5. AckedEarlier'
    BY <1>1, <2>1 DEF AckedEarlier, Whole
  <2> QED
    BY <2>4, <2>5 DEF Good
<1> QED
  BY <1>3, <1>4 DEF PipeInv

\* The parent passes over a file it cannot open.
LEMMA SkipKeeps ==
    ASSUME PipeInv, Skip
    PROVE  PipeInv'
<1>1. /\ UNCHANGED <<content, named, fifos, ppc, cpc, sent, cut, acked, data, acks, fd, total, copy, merged, mistaken, failed, short>>
      /\ ppc = "file" /\ i <= FileCount /\ i' = i + 1
  BY DEF Skip, Parent, setup, child
<1>2. i \in Nat /\ i' \in 1 .. FileCount + 1
  BY <1>1, PipeAssumption DEF PipeInv, TypeOK
<1>3. TypeOK'
  BY <1>1, <1>2 DEF PipeInv, TypeOK
<1>4. ASSUME ~mistaken' PROVE Good'
  <2>1. NotBegun /\ Between /\ AckedEarlier
    BY <1>1, <1>4 DEF PipeInv, Good
  <2>2. NotBegun' /\ Between' /\ Sending'
    BY <1>1, <2>1 DEF NotBegun, Between, Sending, Idle, BeforeFork, Opening
  <2>3. \A f \in acked : f < i => f < i'
    BY <1>1, <1>2 DEF PipeInv, TypeOK, Files
  <2>4. AckedEarlier'
    BY <1>1, <2>1, <2>3 DEF AckedEarlier, Whole
  <2> QED
    BY <2>2, <2>4 DEF Good
<1> QED
  BY <1>3, <1>4 DEF PipeInv

\* The parent sends the header of a file.
LEMMA SendHeaderKeeps ==
    ASSUME PipeInv, SendHeader
    PROVE  PipeInv'
<1>1. /\ UNCHANGED <<content, named, fifos, cpc, i, cut, acked, acks, fd, total, copy, merged, mistaken, failed, short>>
      /\ ppc = "file" /\ i <= FileCount /\ content[i] # Missing /\ sent' = 0
      /\ \/ cpc # "exited" /\ data' = data \o <<Header(i)>> /\ ppc' = "send"
         \/ cpc = "exited" /\ ppc' = "killed" /\ data' = data
  BY DEF SendHeader, Write, Parent, setup, child
<1>2. i \in Files /\ content[i] \in Contents /\ <<Header(i)>> \in Seq(Unit) /\ Len(content[i]) \in Nat
  <2>1. i \in Files
    BY <1>1, PipeAssumption DEF PipeInv, TypeOK, Files
  <2>2. Header(i) \in Unit
    BY <2>1, UnitKinds
  <2>3. content[i] \in Contents
    BY <1>1, <2>1 DEF PipeInv, TypeOK
  <2> QED
    BY <2>1, <2>2, <2>3, PipeAssumption
<1>3. data' \in Seq(Unit)
  <2>1. data \in Seq(Unit)
    BY DEF PipeInv, TypeOK
  <2>2. data \o <<Header(i)>> \in Seq(Unit)
    BY <1>2, <2>1, ConcatProperties
  <2> QED
    BY <1>1, <2>1, <2>2
<1>4. TypeOK'
  BY <1>1, <1>2, <1>3 DEF PipeInv, TypeOK, ParentAt
<1>5. ASSUME ~mistaken' PROVE Good'
  <2>1. Between /\ AckedEarlier
    BY <1>1, <1>5 DEF PipeInv, Good
  <2>2. cpc = "loop" /\ data = <<>> /\ acks = <<>> /\ fd = 0
    BY <1>1, <2>1 DEF Between, Idle
  <2>3. ppc' = "send" /\ data' = <<Header(i)>>
    BY <1>1, <1>2, <2>2, ConcatEmptySeq
  <2>4. HeaderWaits'
    BY <1>1, <2>2, <2>3 DEF HeaderWaits
  <2>5. NotBegun' /\ Between' /\ Sending'
    BY <1>1, <2>2, <2>3, <2>4 DEF NotBegun, Between, Sending, BeforeFork, Opening
  <2>6. AckedEarlier'
    BY <1>1, <2>1 DEF AckedEarlier, Whole
  <2> QED
    BY <2>5, <2>6 DEF Good
<1> QED
  BY <1>4, <1>5 DEF PipeInv

\* The parent sends a chunk of it.
LEMMA SendChunkKeeps ==
    ASSUME PipeInv, SendChunk
    PROVE  PipeInv'
<1> DEFINE left == Len(content[i]) - sent
           n == IF left < Chunk THEN left ELSE Chunk
           new == [k \in 1 .. n |-> Part(i, sent + k)]
<1>1. /\ UNCHANGED <<content, named, fifos, cpc, i, cut, acked, acks, fd, total, copy, merged, mistaken, failed, short>>
      /\ ppc = "send" /\ sent < Len(content[i]) /\ sent' = sent + n
      /\ \/ cpc # "exited" /\ data' = data \o new /\ ppc' = "send"
         \/ cpc = "exited" /\ ppc' = "killed" /\ data' = data
  BY DEF SendChunk, Write, Parent, setup, child
<1>2. i \in Files /\ content[i] # Missing /\ content[i] \in Contents /\ Len(content[i]) \in Nat
      /\ sent \in Nat /\ data \in Seq(Unit) /\ Len(data) \in Nat
  BY <1>1, PipeAssumption DEF PipeInv, TypeOK
<1>3. n \in Nat /\ sent + n \in Nat /\ sent + n <= Len(content[i])
  <2>1. \A l, t \in Nat, c \in Nat \ {0} : t < l =>
            LET m == IF l - t < c THEN l - t ELSE c IN m \in Nat /\ t + m \in Nat /\ t + m <= l
    OBVIOUS
  <2> QED
    BY <1>1, <1>2, <2>1, PipeAssumption
<1> HIDE DEF n
<1>4. new \in Seq(Unit) /\ Len(new) = n /\ \A k \in 1 .. n : new[k] = Part(i, sent + k)
  BY <1>2, <1>3, PartsAreUnits
<1> HIDE DEF new
<1>5. /\ data \o new \in Seq(Unit) /\ Len(data \o new) = Len(data) + n
      /\ \A k \in 1 .. Len(data) + n : (data \o new)[k] = IF k <= Len(data) THEN data[k] ELSE new[k - Len(data)]
  BY <1>2, <1>4, ConcatProperties
<1>6. TypeOK'
  BY <1>1, <1>2, <1>3, <1>5 DEF PipeInv, TypeOK, ParentAt
<1>7. ASSUME ~mistaken' PROVE Good'
  <2>1. Sending /\ AckedEarlier
    BY <1>1, <1>7 DEF PipeInv, Good
  <2>2. cpc = "loop" /\ ppc' = "send" /\ data' = data \o new
        /\ (HeaderWaits \/ (PartsWait /\ CopyGrows))
    BY <1>1, <1>2, <2>1 DEF Sending, CopyIsDone
  <2>3. ASSUME HeaderWaits PROVE Sending'
    <3>1. Len(data) = sent + 1 /\ data[1] = Header(i) /\ \A k \in 1 .. sent : data[k + 1] = Part(i, k)
      BY <2>3 DEF HeaderWaits
    <3>2. Len(data') = sent' + 1 /\ data'[1] = Header(i)
      BY <1>1, <1>2, <1>3, <1>5, <2>2, <3>1
    <3>3. ASSUME NEW k \in 1 .. sent + n PROVE data'[k + 1] = Part(i, k)
      <4>1. /\ k + 1 \in 1 .. Len(data) + n
            /\ k \in 1 .. sent \/ (~(k + 1 <= Len(data)) /\ k + 1 - Len(data) = k - sent
                                    /\ k - sent \in 1 .. n /\ sent + (k - sent) = k)
            /\ k \in 1 .. sent => k + 1 <= Len(data)
        BY <1>2, <1>3, <3>1
      <4> QED
        BY <1>4, <1>5, <2>2, <3>1, <4>1
    <3>4. HeaderWaits'
      BY <1>1, <2>3, <3>2, <3>3 DEF HeaderWaits
    <3> QED
      BY <2>2, <1>1, <3>4 DEF Sending
  <2>4. ASSUME PartsWait, CopyGrows PROVE Sending'
    <3>1. Len(data) <= sent /\ \A k \in 1 .. Len(data) : data[k] = Part(i, Taken + k)
      BY <2>4 DEF PartsWait
    <3>2. Len(data') = Len(data) + n /\ Taken' = Taken /\ Len(data') <= sent' /\ Taken = sent - Len(data)
      <4>1. Len(data') = Len(data) + n /\ sent' = sent + n
        BY <1>1, <1>5, <2>2
      <4>2. \A l \in Nat : l <= sent => sent + n - (l + n) = sent - l /\ l + n <= sent + n
        BY <1>2, <1>3
      <4>3. sent + n - (Len(data) + n) = sent - Len(data) /\ Len(data) + n <= sent + n
        BY <1>2, <3>1, <4>2
      <4>4. Taken = sent - Len(data) /\ Taken' = sent + n - (Len(data) + n)
        <5>1. sent' \in Int /\ Len(data') \in Int
          BY <1>2, <1>3, <4>1
        <5>2. Taken' = sent' - Len(data')
          BY DEF Taken
        <5>3. sent' - Len(data') = sent + n - (Len(data) + n)
          BY <1>2, <1>3, <4>1, <5>1
        <5> QED
          BY <5>2, <5>3 DEF Taken
      <4> QED
        BY <4>1, <4>3, <4>4
    <3>3. ASSUME NEW k \in 1 .. Len(data) + n PROVE data'[k] = Part(i, Taken + k)
      <4>1. k \in 1 .. Len(data) \/ (~(k <= Len(data)) /\ k - Len(data) \in 1 .. n
                                      /\ sent + (k - Len(data)) = sent - Len(data) + k)
        BY <1>2, <1>3
      <4>2. k \in 1 .. Len(data) => k <= Len(data)
        BY <1>2
      <4> QED
        BY <1>4, <1>5, <2>2, <3>1, <3>2, <4>1, <4>2
    <3>4. PartsWait'
      BY <1>1, <2>4, <3>2, <3>3 DEF PartsWait
    <3>5. CopyGrows'
      BY <1>1, <2>4, <3>2 DEF CopyGrows, Exact
    <3> QED
      BY <2>2, <1>1, <3>4, <3>5 DEF Sending
  <2>5. NotBegun' /\ Between'
    BY <2>2 DEF NotBegun, Between, BeforeFork, Opening
  <2>6. AckedEarlier'
    BY <1>1, <2>1 DEF AckedEarlier, Whole
  <2> QED
    BY <2>2, <2>3, <2>4, <2>5, <2>6 DEF Good
<1> QED
  BY <1>6, <1>7 DEF PipeInv

\* A read of the file fails: what was sent of it stays as it is.
LEMMA ReadFailsKeeps ==
    ASSUME PipeInv, ReadFails
    PROVE  PipeInv'
<1>1. /\ UNCHANGED <<content, named, fifos, ppc, cpc, i, sent, acked, data, acks, fd, total, copy, merged, mistaken, failed, short>>
      /\ ppc = "send" /\ cut' = i
  BY DEF ReadFails, Parent, setup, child
<1>2. TypeOK'
  BY <1>1 DEF PipeInv, TypeOK
<1>3. Good => Good'
  BY <1>1 DEF Good, NotBegun, Between, Sending, AckedEarlier, Idle, HeaderWaits, PartsWait, CopyGrows,
              Exact, CopyIsDone, Taken, Whole
<1> QED
  BY <1>1, <1>2, <1>3 DEF PipeInv

\* The parent takes the ACK: the child has the whole file.
LEMMA WaitAckKeeps ==
    ASSUME PipeInv, WaitAck
    PROVE  PipeInv'
<1>1. /\ UNCHANGED <<content, named, fifos, cpc, sent, cut, data, fd, total, copy, merged, mistaken, failed, short>>
      /\ ppc = "send" /\ ppc' = "file" /\ TakeAcks /\ acked' = acked \cup {i} /\ i' = i + 1
  BY DEF WaitAck, Parent, setup, child
<1>2. i \in Files /\ i' \in 1 .. FileCount + 1 /\ i \in Nat
  BY <1>1, PipeAssumption DEF PipeInv, TypeOK, Files
<1>3. acks' \in Seq({"READY", "ACK"}) /\ \A x : acks = <<x>> => acks' = <<>>
  BY <1>1, AcksTaken DEF PipeInv
<1>4. TypeOK'
  BY <1>1, <1>2, <1>3 DEF PipeInv, TypeOK, ParentAt
<1>5. ASSUME ~mistaken' PROVE Good'
  <2>1. Sending /\ AckedEarlier
    BY <1>1, <1>5 DEF PipeInv, Good
  <2>2. cpc = "loop" /\ CopyIsDone
    BY <1>1, <2>1 DEF Sending, TakeAcks, HeaderWaits, PartsWait
  <2>3. Idle' /\ cpc' = "loop"
    BY <1>1, <1>3, <2>2 DEF Idle, CopyIsDone
  <2>4. NotBegun' /\ Between' /\ Sending'
    BY <1>1, <2>3 DEF NotBegun, Between, Sending, BeforeFork, Opening
  <2>5. ASSUME NEW f \in acked' PROVE f < i' /\ (copy'[f] = Whole(f)' \/ f \in short')
    <3>1. \A g \in Nat : g < i => g < i + 1
      BY <1>2
    <3>2. f \in acked \/ f = i
      BY <1>1
    <3>3. f \in Nat
      BY <1>4 DEF TypeOK, Files
    <3>4. Whole(f)' = Whole(f) /\ copy'[f] = copy[f] /\ short' = short
      BY <1>1 DEF Whole
    <3>5. CASE f \in acked
      <4>1. f < i /\ (copy[f] = Whole(f) \/ f \in short)
        BY <2>1, <3>5 DEF AckedEarlier
      <4> QED
        BY <1>1, <3>1, <3>3, <3>4, <4>1
    <3>6. CASE f = i
      <4>1. copy[f] = Whole(f) \/ f \in short
        BY <2>2, <3>6 DEF CopyIsDone
      <4>2. f < i'
        BY <1>1, <1>2, <3>6
      <4> QED
        BY <3>4, <4>1, <4>2
    <3> QED
      BY <3>2, <3>5, <3>6
  <2> QED
    BY <2>4, <2>5 DEF Good, AckedEarlier
<1> QED
  BY <1>4, <1>5 DEF PipeInv

\* The parent sends END, and ends after the child.
LEMMA SendEndKeeps ==
    ASSUME PipeInv, SendEnd \/ Finish
    PROVE  PipeInv'
<1>1. UNCHANGED <<content, named, cpc, i, sent, cut, acked, acks, fd, total, copy, merged, mistaken, failed, short>>
  BY DEF SendEnd, Finish, Parent, setup, child, parent
<1>2. \/ ppc = "file" /\ ppc' = "wait" /\ data' = data \o <<End>> /\ fifos' = fifos /\ cpc # "exited"
      \/ ppc = "file" /\ ppc' = "killed" /\ data' = data /\ fifos' = fifos /\ cpc = "exited"
      \/ ppc = "wait" /\ ppc' = "done" /\ data' = data /\ fifos' = {} /\ cpc = "exited"
  BY DEF SendEnd, Finish, Write
<1>3. data \o <<End>> \in Seq(Unit) /\ data \in Seq(Unit)
  <2>1. data \in Seq(Unit) /\ <<End>> \in Seq(Unit)
    BY UnitKinds DEF PipeInv, TypeOK
  <2> QED
    BY <2>1, ConcatProperties
<1>4. TypeOK'
  BY <1>1, <1>2, <1>3 DEF PipeInv, TypeOK, ParentAt
<1>5. ASSUME ~mistaken' PROVE Good'
  <2>1. Between /\ AckedEarlier
    BY <1>1, <1>5 DEF PipeInv, Good
  <2>2. ppc = "file" => cpc = "loop" /\ data = <<>> /\ acks = <<>> /\ fd = 0
    BY <2>1 DEF Between, Idle
  <2>3. <<>> \o <<End>> = <<End>>
    BY UnitKinds, ConcatEmptySeq
  <2>4. NotBegun' /\ Between' /\ Sending'
    BY <1>1, <1>2, <2>1, <2>2, <2>3 DEF NotBegun, Between, Sending, Idle, BeforeFork, Opening
  <2>5. AckedEarlier'
    BY <1>1, <2>1 DEF AckedEarlier, Whole
  <2> QED
    BY <2>4, <2>5 DEF Good
<1> QED
  BY <1>4, <1>5 DEF PipeInv

-----------------------------------------------------------------------------
(***************************************************************************)
(* The child.                                                              *)
(***************************************************************************)

\* The child starts and sends READY.
LEMMA StartKeeps ==
    ASSUME PipeInv, Start
    PROVE  PipeInv'
<1>1. /\ UNCHANGED <<content, named, fifos, ppc, i, sent, cut, acked, data, fd, total, copy, merged, mistaken, failed, short>>
      /\ cpc = "start" /\ cpc' = "loop" /\ acks' = Append(acks, "READY")
  BY DEF Start, Child, setup, parent, child
<1>2. acks' \in Seq({"READY", "ACK"}) /\ Append(<<>>, "READY") = <<"READY">>
  BY <1>1 DEF PipeInv, TypeOK
<1>3. TypeOK'
  BY <1>1, <1>2 DEF PipeInv, TypeOK, ChildAt
<1>4. ASSUME ~mistaken' PROVE Good'
  <2>1. NotBegun /\ Between /\ Sending /\ AckedEarlier
    BY <1>1, <1>4 DEF PipeInv, Good
  <2>2. TypeOK
    BY DEF PipeInv
  <2>3. ppc = "ready"
    BY <1>1, <2>1, <2>2 DEF NotBegun, Between, Sending, TypeOK, ParentAt, BeforeFork, Opening
  <2> QED
    BY <1>1, <1>2, <2>1, <2>3 DEF NotBegun, Between, Sending, Good, AckedEarlier, Whole, Idle, BeforeFork, Opening
<1> QED
  BY <1>3, <1>4 DEF PipeInv

\* What strncmp finds, when data are not taken for something else, is what it is.
LEMMA NotFooled ==
    ASSUME data # <<>>, TypeOK, ~Fooled
    PROVE  ~mistaken /\ data[1].kind = Looks
<1>1. buffer[1] = data[1]
  BY BufferAndRest
<1> QED
  BY <1>1 DEF Fooled, Looks

\* Which unit can be the first in the pipe.
LEMMA FirstUnit ==
    ASSUME TypeOK, Good, data # <<>>
    PROVE  \/ ppc = "send" /\ cpc = "loop" /\ HeaderWaits /\ data[1].kind = "header"
           \/ ppc = "send" /\ cpc = "loop" /\ PartsWait /\ CopyGrows /\ data[1].kind = "part"
           \/ ppc = "wait" /\ cpc = "loop" /\ data = <<End>> /\ acks = <<>> /\ fd = 0 /\ data[1].kind = "end"
<1>1. Len(data) \in Nat /\ Len(data) # 0
  BY EmptySeq DEF TypeOK
<1>2. ppc \in {"send", "wait"}
  BY DEF Good, NotBegun, Between, Idle, TypeOK, ParentAt, BeforeFork, Opening
<1>3. CASE ppc = "wait"
  BY <1>3, UnitKinds DEF Good, Between
<1>4. CASE ppc = "send"
  <2>1. cpc = "loop" /\ (HeaderWaits \/ (PartsWait /\ CopyGrows))
    BY <1>4 DEF Good, Sending, CopyIsDone
  <2>2. HeaderWaits => data[1].kind = "header"
    BY UnitKinds DEF HeaderWaits
  <2>3. 1 \in 1 .. Len(data)
    BY <1>1
  <2>4. PartsWait => data[1].kind = "part"
    BY <2>3, UnitKinds DEF PartsWait
  <2> QED
    BY <1>4, <2>1, <2>2, <2>4
<1> QED
  BY <1>2, <1>3, <1>4

\* CloseCopy adds at most two messages.
LEMMA Acknowledged ==
    ASSUME TypeOK, NEW more \in Seq({"READY", "ACK"}), CloseCopy(more)
    PROVE  acks' \in Seq({"READY", "ACK"}) /\ (acks = <<>> /\ fd = 0 => acks' = more)
           /\ (acks = <<>> /\ fd # 0 /\ more = <<>> => acks' = <<"ACK">>)
<1> DEFINE A == {"READY", "ACK"}
           own == IF fd # 0 THEN <<"ACK">> ELSE <<>>
<1>1. acks \in Seq(A) /\ own \in Seq(A)
  <2>1. <<"ACK">> \in Seq(A) /\ <<>> \in Seq(A)
    OBVIOUS
  <2> QED
    BY <2>1 DEF TypeOK
<1>2. acks' = acks \o own \o more
  BY DEF CloseCopy
<1>3. acks \o own \in Seq(A)
  BY <1>1, ConcatProperties
<1>4. acks' \in Seq(A)
  BY <1>2, <1>3, ConcatProperties
<1>5. ASSUME acks = <<>>, fd = 0 PROVE acks' = more
  <2>1. acks \o own = <<>>
    BY <1>5
  <2> QED
    BY <1>2, <2>1
<1>6. ASSUME acks = <<>>, fd # 0, more = <<>> PROVE acks' = <<"ACK">>
  <2>1. acks \o own = <<"ACK">>
    BY <1>6
  <2> QED
    BY <1>2, <1>6, <2>1
<1> QED
  BY <1>4, <1>5, <1>6

\* The pipe after a read from which the header or parts were taken.
LEMMA PartsLeft ==
    ASSUME TypeOK, data # <<>>, data' = rest, UNCHANGED <<i, sent>>, acks' = <<>>,
           HeaderWaits \/ PartsWait
    PROVE  /\ PartsWait'
           /\ HeaderWaits => Taken' = Len(buffer) - 1
           /\ PartsWait => Taken' = Taken + Len(buffer)
<1> DEFINE b == Len(buffer)
           l == Len(data)
<1>1. b \in 1 .. l /\ Len(rest) = l - b /\ \A k \in 1 .. l - b : rest[k] = data[b + k]
  BY BufferAndRest
<1>2. l \in Nat /\ sent \in Nat
  BY DEF TypeOK
<1>3. Taken' = sent - (l - b) /\ Taken = sent - l
  <2>1. Taken' = sent' - Len(data') /\ Taken = sent - l
    BY DEF Taken
  <2> QED
    BY <1>1, <2>1
<1> HIDE DEF b, l
<1>4. CASE HeaderWaits
  <2>1. l = sent + 1 /\ \A k \in 1 .. sent : data[k + 1] = Part(i, k)
    BY <1>4 DEF HeaderWaits, l
  <2>2. sent - (l - b) = b - 1 /\ l - b <= sent
    BY <1>1, <1>2, <2>1
  <2>3. ASSUME NEW k \in 1 .. l - b PROVE rest[k] = Part(i, b - 1 + k)
    <3>1. b + k = (b - 1 + k) + 1 /\ b - 1 + k \in 1 .. sent
      BY <1>1, <1>2, <2>1
    <3> QED
      BY <1>1, <2>1, <3>1
  <2>4. ~PartsWait
    <3>1. PartsWait => l <= sent
      BY DEF PartsWait, l
    <3> QED
      BY <1>2, <2>1, <3>1
  <2> QED
    BY <1>1, <1>3, <2>2, <2>3, <2>4 DEF PartsWait, b
<1>5. CASE PartsWait
  <2>1. l <= sent /\ \A k \in 1 .. l : data[k] = Part(i, Taken + k)
    BY <1>5 DEF PartsWait, l
  <2>2. sent - (l - b) = Taken + b /\ l - b <= sent /\ Taken \in Nat
    BY <1>1, <1>2, <1>3, <2>1
  <2>3. ASSUME NEW k \in 1 .. l - b PROVE rest[k] = Part(i, Taken + b + k)
    <3>1. b + k \in 1 .. l /\ Taken + (b + k) = Taken + b + k
      BY <1>1, <1>2, <2>2
    <3> QED
      BY <1>1, <2>1, <3>1
  <2>4. ~HeaderWaits
    <3>1. HeaderWaits => l = sent + 1
      BY DEF HeaderWaits, l
    <3> QED
      BY <1>2, <2>1, <3>1
  <2> QED
    BY <1>1, <1>3, <2>2, <2>3, <2>4 DEF PartsWait, b
<1> QED
  BY <1>4, <1>5

\* A step of the child while a file is being sent leaves the rest alone.
LEMMA SendingIsGood ==
    ASSUME PipeInv, ~mistaken, ppc = "send", cpc = "loop", UNCHANGED <<content, ppc, cpc, i, acked>>,
           \A f \in Files : f # i => copy'[f] = copy[f], short \subseteq short',
           HeaderWaits' \/ (PartsWait' /\ CopyGrows') \/ CopyIsDone'
    PROVE  Good'
<1>1. AckedEarlier /\ i \in Nat /\ acked \subseteq Files
  BY DEF PipeInv, Good, TypeOK
<1>2. ASSUME NEW f \in acked PROVE f < i /\ (copy'[f] = Whole(f)' \/ f \in short')
  <2>1. f < i /\ f \in Files /\ f # i /\ (copy[f] = Whole(f) \/ f \in short)
    BY <1>1, <1>2 DEF AckedEarlier, Files
  <2> QED
    BY <2>1 DEF Whole
<1> QED
  BY <1>2 DEF Good, NotBegun, Between, Sending, AckedEarlier, BeforeFork, Opening

\* The child reads what looks like a header.
LEMMA ReadHeaderKeeps ==
    ASSUME PipeInv, ReadHeader
    PROVE  PipeInv'
<1> DEFINE f == buffer[1].file
<1>1. /\ UNCHANGED <<content, named, fifos, ppc, cpc, i, sent, cut, acked, short>>
      /\ cpc = "loop" /\ data # <<>> /\ Looks = "header" /\ data' = rest /\ mistaken' = Fooled
      /\ NewFile \/ NoFile
  BY DEF ReadHeader, Child, setup, parent
<1>2. TypeOK /\ rest \in Seq(Unit) /\ buffer[1] = data[1] /\ data[1] \in Unit /\ Len(buffer) \in 1 .. Len(data)
      /\ Len(data) \in Nat
  BY <1>1, BufferAndRest DEF PipeInv, TypeOK
<1>3. \/ NoFile
      \/ /\ buffer[1].kind = "header" /\ merged' = (merged \/ Len(buffer) > 1)
         /\ fd' = 0 /\ failed' = TRUE /\ CloseCopy(<<>>) /\ copy' = copy /\ total' = total
      \/ /\ buffer[1].kind = "header" /\ merged' = (merged \/ Len(buffer) > 1) /\ failed' = failed
         /\ copy' = [copy EXCEPT ![f] = <<>>]
         /\ content[f] = <<>> /\ fd' = 0 /\ CloseCopy(<<"ACK">>) /\ total' = total
      \/ /\ buffer[1].kind = "header" /\ merged' = (merged \/ Len(buffer) > 1) /\ failed' = failed
         /\ copy' = [copy EXCEPT ![f] = <<>>]
         /\ content[f] # <<>> /\ fd' = f /\ CloseCopy(<<>>) /\ total' = 0
  BY <1>1 DEF NewFile
<1>4. <<>> \in Seq({"READY", "ACK"}) /\ <<"ACK">> \in Seq({"READY", "ACK"}) /\ <<>> \in Seq(Unit)
  OBVIOUS
<1>5. acks' \in Seq({"READY", "ACK"})
  BY <1>2, <1>3, <1>4, Acknowledged DEF NoFile
<1>6. buffer[1].kind = "header" => f \in Files
  BY <1>2, UnitKinds
<1>7. copy' \in [Files -> Seq(Unit)] /\ fd' \in Files \cup {0} /\ merged' \in BOOLEAN /\ failed' \in BOOLEAN
      /\ total' \in Nat
  <2>1. copy \in [Files -> Seq(Unit)] /\ (copy' = copy \/ (f \in Files /\ copy' = [copy EXCEPT ![f] = <<>>]))
    BY <1>2, <1>3, <1>6 DEF NoFile, TypeOK
  <2>2. copy' \in [Files -> Seq(Unit)]
    BY <1>4, <2>1
  <2>3. fd' \in Files \cup {0} /\ merged' \in BOOLEAN /\ failed' \in BOOLEAN
    BY <1>2, <1>3, <1>6 DEF NoFile, TypeOK
  <2>4. total' \in Nat
    BY <1>2, <1>3 DEF NoFile, TypeOK
  <2> QED
    BY <2>2, <2>3, <2>4
<1>8. mistaken' \in BOOLEAN
  BY <1>1, <1>2 DEF Fooled, TypeOK
<1>9. TypeOK'
  BY <1>1, <1>2, <1>5, <1>7, <1>8 DEF TypeOK
<1>10. ASSUME ~mistaken' PROVE Good'
  <2>1. ~mistaken /\ data[1].kind = "header" /\ Good
    BY <1>1, <1>2, <1>10, NotFooled DEF PipeInv
  <2>2. ppc = "send" /\ HeaderWaits
    BY <1>1, <1>2, <2>1, FirstUnit
  <2>3. acks = <<>> /\ fd = 0 /\ data[1] = Header(i) /\ Len(data) = sent + 1
    BY <2>2 DEF HeaderWaits
  <2>4. f = i /\ i \in Files /\ content[i] # Missing /\ content[i] \in Contents /\ sent <= Len(content[i])
        /\ Len(content[i]) \in Nat /\ sent \in Nat /\ i # 0
    <3>1. i \in Files /\ content[i] # Missing /\ content[i] \in Contents /\ sent <= Len(content[i]) /\ sent \in Nat
      BY <1>2, <2>2 DEF TypeOK
    <3>2. f = i
      BY <1>2, <2>3, UnitKinds
    <3> QED
      BY <3>1, <3>2, PipeAssumption DEF Files
  <2>5. ~NoFile
    BY <1>2, <2>1 DEF NoFile
  <2>6. ASSUME acks' = <<>> PROVE PartsWait' /\ Taken' = Len(buffer) - 1
    BY <1>1, <1>2, <2>2, <2>6, PartsLeft
  <2>7. \A g \in Files : g # i => copy'[g] = copy[g]
    BY <1>2, <1>3, <2>4, <2>5 DEF TypeOK
  <2>8. ASSUME fd' = 0, CloseCopy(<<>>) PROVE Good'
    <3>1. acks' = <<>>
      BY <1>2, <1>4, <2>3, <2>8, Acknowledged
    <3>2. PartsWait' /\ CopyGrows'
      BY <2>6, <2>8, <3>1 DEF CopyGrows
    <3> QED
      BY <1>1, <2>1, <2>2, <2>7, <3>2, SendingIsGood
  <2>9. ASSUME copy' = [copy EXCEPT ![i] = <<>>], content[i] = <<>>, fd' = 0, CloseCopy(<<"ACK">>) PROVE Good'
    <3>1. acks' = <<"ACK">>
      BY <1>2, <1>4, <2>3, <2>9, Acknowledged
    <3>2. Len(content[i]) = 0 /\ sent = 0 /\ Len(data) = 1 /\ Len(buffer) = 1
      <4>1. Len(content[i]) = 0
        BY <2>9
      <4>2. sent = 0
        BY <2>4, <4>1
      <4>3. Len(data) = 1
        BY <2>3, <4>2
      <4>4. \A m : m \in 1 .. 1 => m = 1
        OBVIOUS
      <4>5. Len(buffer) \in 1 .. 1
        BY <1>2, <4>3
      <4> QED
        BY <4>1, <4>2, <4>3, <4>4, <4>5
    <3>3. data' = <<>>
      BY <1>1, <1>2, <3>2, BufferAndRest, EmptySeq
    <3>4. copy'[i] = Whole(i)'
      <4>1. copy'[i] = <<>>
        BY <1>2, <2>4, <2>9 DEF TypeOK
      <4>2. Whole(i)' = [k \in 1 .. 0 |-> Part(i, k)]
        BY <1>1, <3>2 DEF Whole
      <4> QED
        BY <4>1, <4>2
    <3>5. CopyIsDone'
      BY <1>1, <2>9, <3>1, <3>2, <3>3, <3>4 DEF CopyIsDone
    <3> QED
      BY <1>1, <2>1, <2>2, <2>7, <3>5, SendingIsGood
  <2>10. ASSUME copy' = [copy EXCEPT ![i] = <<>>], content[i] # <<>>, fd' = i, CloseCopy(<<>>), total' = 0 PROVE Good'
    <3>1. acks' = <<>> /\ PartsWait' /\ Taken' = Len(buffer) - 1
      BY <1>2, <1>4, <2>3, <2>6, <2>10, Acknowledged
    <3>2. copy'[i] = <<>> /\ Len(copy'[i]) = 0
      BY <1>2, <2>4, <2>10 DEF TypeOK
    <3>3. 0 <= Taken' /\ (0 = Taken' => 1 .. Taken' = {})
      <4>1. \A b \in Nat \ {0} : 0 <= b - 1 /\ (0 = b - 1 => 1 .. b - 1 = {})
        OBVIOUS
      <4>2. \A l \in Nat : \A b \in 1 .. l : b \in Nat \ {0}
        OBVIOUS
      <4>3. Len(buffer) \in Nat \ {0}
        BY <1>2, <4>2
      <4> QED
        BY <3>1, <4>1, <4>3
    <3>4. 0 < Len(content[i])
      BY <2>4, <2>10, PipeAssumption, EmptySeq
    <3>5. CopyGrows'
      BY <1>1, <2>10, <3>2, <3>3, <3>4 DEF CopyGrows, Exact
    <3> QED
      BY <1>1, <2>1, <2>2, <2>7, <3>1, <3>5, SendingIsGood
  <2> QED
    BY <1>3, <2>4, <2>5, <2>8, <2>9, <2>10
<1> QED
  BY <1>9, <1>10 DEF PipeInv

\* The child reads what looks like END.
LEMMA ReadEndKeeps ==
    ASSUME PipeInv, ReadEnd
    PROVE  PipeInv'
<1>1. /\ UNCHANGED <<content, named, fifos, ppc, i, sent, cut, acked, total, copy, merged, failed, short>>
      /\ cpc = "loop" /\ data # <<>> /\ Looks = "end" /\ data' = rest /\ mistaken' = Fooled
      /\ CloseCopy(<<>>) /\ fd' = 0 /\ cpc' = "exited"
  BY DEF ReadEnd, Child, setup, parent
<1>2. TypeOK /\ rest \in Seq(Unit) /\ Len(rest) = Len(data) - Len(buffer) /\ Len(buffer) \in 1 .. Len(data)
  BY <1>1, BufferAndRest DEF PipeInv
<1>3. <<>> \in Seq({"READY", "ACK"})
  OBVIOUS
<1>4. acks' \in Seq({"READY", "ACK"}) /\ (acks = <<>> /\ fd = 0 => acks' = <<>>)
  BY <1>1, <1>2, <1>3, Acknowledged
<1>5. mistaken' \in BOOLEAN
  BY <1>1, <1>2 DEF Fooled, TypeOK
<1>6. TypeOK'
  BY <1>1, <1>2, <1>4, <1>5 DEF TypeOK, ChildAt
<1>7. ASSUME ~mistaken' PROVE Good'
  <2>1. ~mistaken /\ data[1].kind = "end" /\ Good
    BY <1>1, <1>2, <1>7, NotFooled DEF PipeInv
  <2>2. ppc = "wait" /\ data = <<End>> /\ acks = <<>> /\ fd = 0
    BY <1>1, <1>2, <2>1, FirstUnit
  <2>3. data' = <<>>
    <3>1. Len(data) = 1
      BY <2>2
    <3>2. \A m : m \in 1 .. 1 => 1 - m = 0
      OBVIOUS
    <3>3. Len(buffer) \in 1 .. 1 /\ Len(rest) = 1 - Len(buffer)
      BY <1>2, <3>1
    <3>4. Len(rest) = 0
      BY <3>2, <3>3
    <3> QED
      BY <1>1, <1>2, <3>4, EmptySeq
  <2>4. NotBegun' /\ Between' /\ Sending'
    BY <1>1, <1>4, <2>2, <2>3 DEF NotBegun, Between, Sending, BeforeFork, Opening
  <2>5. AckedEarlier'
    BY <1>1, <2>1 DEF Good, AckedEarlier, Whole
  <2> QED
    BY <2>4, <2>5 DEF Good
<1> QED
  BY <1>6, <1>7 DEF PipeInv

\* Under Good the pipe is never without a writer before the child has read END.
LEMMA ReadEofKeeps ==
    ASSUME PipeInv, ReadEof
    PROVE  PipeInv'
<1>1. /\ UNCHANGED <<content, named, fifos, ppc, i, sent, cut, acked, data, acks, total, copy, merged, mistaken, failed, short>>
      /\ cpc = "loop" /\ data = <<>> /\ ppc \in {"wait", "killed"} /\ cpc' = "exited" /\ fd' = 0
  BY DEF ReadEof, Child, setup, parent
<1>2. TypeOK'
  BY <1>1 DEF PipeInv, TypeOK, ChildAt
<1>3. <<>> # <<End>>
  OBVIOUS
<1>4. mistaken
  BY <1>1, <1>3 DEF PipeInv, Good, Between
<1> QED
  BY <1>1, <1>2, <1>4 DEF PipeInv

-----------------------------------------------------------------------------
(***************************************************************************)
(* Data are read.  The copy gets what is missing of the file, at most.     *)
(***************************************************************************)

Lacking == Len(content[fd]) - total
Added   == SubSeq(buffer, 1, IF Len(buffer) < Lacking THEN Len(buffer) ELSE Lacking)

\* A write stored the first k units it was given.
Stored(k) == /\ copy' = [copy EXCEPT ![fd] = @ \o SubSeq(Added, 1, k)]
             /\ short' = IF k < Len(Added) THEN short \cup {fd} ELSE short

\* What a read counts is what came out of the pipe, up to the size of the file.
LEMMA NewIsUnits ==
    ASSUME TypeOK, data # <<>>, fd # 0
    PROVE  /\ Added \in Seq(Unit) /\ copy[fd] \in Seq(Unit)
           /\ \A k \in 0 .. Len(Added) : copy[fd] \o SubSeq(Added, 1, k) \in Seq(Unit)
           /\ Lacking \in Int /\ fd \in Files
           /\ Len(buffer) <= Lacking => Len(Added) = Len(buffer) /\ \A k \in 1 .. Len(buffer) : Added[k] = buffer[k]
<1> DEFINE n == IF Len(buffer) < Lacking THEN Len(buffer) ELSE Lacking
<1>1. buffer \in Seq(Unit) /\ Len(buffer) \in Nat /\ fd \in Files /\ copy[fd] \in Seq(Unit)
  BY BufferAndRest DEF TypeOK
<1>2. Lacking \in Int
  <2>1. content[fd] \in Contents \/ content[fd] = <<"missing">>
    BY <1>1 DEF TypeOK, Missing
  <2>2. Len(content[fd]) \in Int /\ total \in Int
    BY <1>1, <2>1, PipeAssumption DEF TypeOK
  <2> QED
    BY <2>2 DEF Lacking
<1>3. n \in Int /\ n <= Len(buffer) /\ (Len(buffer) <= Lacking => n = Len(buffer))
  BY <1>1, <1>2
<1>4. Added = SubSeq(buffer, 1, n)
  BY DEF Added
<1> HIDE DEF n
<1>5. \A k \in 1 .. n : buffer[k] \in Unit
  <2>1. \A k \in 1 .. n : k \in 1 .. Len(buffer)
    BY <1>1, <1>3
  <2> QED
    BY <1>1, <2>1
<1>6. Added \in Seq(Unit)
  BY <1>1, <1>3, <1>4, <1>5, SubSeqProperties
<1>7. ASSUME Len(buffer) <= Lacking
      PROVE  Len(Added) = Len(buffer) /\ \A k \in 1 .. Len(buffer) : Added[k] = buffer[k]
  <2>1. Added = SubSeq(buffer, 1, Len(buffer)) /\ Len(buffer) \in 0 .. Len(buffer)
    BY <1>1, <1>3, <1>4, <1>7
  <2> QED
    BY <1>1, <2>1, FirstOf
<1>8. ASSUME NEW k \in 0 .. Len(Added) PROVE copy[fd] \o SubSeq(Added, 1, k) \in Seq(Unit)
  <2>1. SubSeq(Added, 1, k) \in Seq(Unit)
    BY <1>6, FirstOf
  <2> QED
    BY <1>1, <2>1, ConcatProperties
<1> QED
  BY <1>1, <1>2, <1>6, <1>7, <1>8

\* The three ways of ReadData, and what all of them leave alone.
LEMMA ReadDataCases ==
    ASSUME ReadData
    PROVE  /\ UNCHANGED <<content, named, fifos, ppc, cpc, i, sent, cut, acked, merged, mistaken>>
           /\ cpc = "loop" /\ data # <<>> /\ Looks = "part" /\ data' = rest
           /\ \/ fd = 0 /\ UNCHANGED <<fd, total, copy, failed, short, acks>>
              \/ /\ fd # 0 /\ failed' = failed /\ total' = total + Len(Added)
                 /\ \E k \in 0 .. Len(Added) : Stored(k)
                 /\ \/ Enough(total + Len(Added)) /\ fd' = 0 /\ CloseCopy(<<>>)
                    \/ ~Enough(total + Len(Added)) /\ UNCHANGED <<fd, acks>>
              \/ fd # 0 /\ fd' = 0 /\ failed' = TRUE /\ UNCHANGED <<total, copy, short, acks>>
BY DEF ReadData, Child, setup, parent, Lacking, Added, Stored

\* Reading data keeps the types, also after data were taken for a header.
LEMMA ReadDataType ==
    ASSUME TypeOK, ReadData
    PROVE  TypeOK'
<1>1. rest \in Seq(Unit)
  BY ReadDataCases, BufferAndRest
<1>2. <<>> \in Seq({"READY", "ACK"})
  OBVIOUS
<1>3. acks' \in Seq({"READY", "ACK"})
  <2>1. CloseCopy(<<>>) => acks' \in Seq({"READY", "ACK"})
    BY <1>2, Acknowledged
  <2> QED
    BY <2>1, ReadDataCases DEF TypeOK
<1>4. copy' \in [Files -> Seq(Unit)]
  <2>1. data # <<>>
    BY ReadDataCases
  <2>2. copy \in [Files -> Seq(Unit)]
    BY DEF TypeOK
  <2>3. copy' = copy \/ (fd # 0 /\ \E k \in 0 .. Len(Added) : Stored(k))
    BY ReadDataCases
  <2>4. ASSUME fd # 0, NEW k \in 0 .. Len(Added), Stored(k) PROVE copy' \in [Files -> Seq(Unit)]
    <3>1. copy[fd] \o SubSeq(Added, 1, k) \in Seq(Unit)
      BY <2>1, <2>4, NewIsUnits
    <3>2. copy' = [copy EXCEPT ![fd] = copy[fd] \o SubSeq(Added, 1, k)]
      BY <2>4 DEF Stored
    <3> QED
      BY <2>2, <3>1, <3>2
  <2> QED
    BY <2>2, <2>3, <2>4
<1>5. fd' \in Files \cup {0} /\ failed' \in BOOLEAN
  BY ReadDataCases DEF TypeOK
<1>6. short' \subseteq Files
  BY ReadDataCases DEF TypeOK, Stored
<1>7. total' \in Nat
  <2>1. total \in Nat /\ data # <<>>
    BY ReadDataCases DEF TypeOK
  <2>2. fd # 0 => Len(Added) \in Nat
    BY <2>1, NewIsUnits, LenProperties
  <2>3. total' = total \/ (fd # 0 /\ total' = total + Len(Added))
    BY ReadDataCases
  <2> QED
    BY <2>1, <2>2, <2>3
<1> QED
  BY <1>1, <1>3, <1>4, <1>5, <1>6, <1>7, ReadDataCases DEF TypeOK

\* All that was read is counted, and the count is complete exactly when the last part
\* was read; the copy has what is counted unless a write was short.
LEMMA CopyTakesAll ==
    ASSUME TypeOK, Good, ~mistaken, ReadData, fd # 0, ppc = "send", PartsWait, CopyGrows,
           NEW n \in 0 .. Len(Added), Stored(n), total' = total + Len(Added)
    PROVE  /\ fd = i /\ i \in Files /\ Len(Added) = Len(buffer)
           /\ total \in Nat /\ Taken \in Nat /\ Len(content[i]) \in Nat /\ Len(buffer) \in Nat
           /\ total <= Taken /\ Taken + Len(buffer) <= sent /\ sent <= Len(content[i])
           /\ total' = total + Len(buffer) /\ short \subseteq short' /\ copy'[i] \in Seq(Unit)
           /\ total = Taken => Exact' \/ i \in short'
<1> DEFINE b == Len(buffer)
           c == Len(copy[i])
           l == Len(content[i])
           d == Len(data)
<1>1. fd = i /\ total <= Taken /\ total < l /\ (total = Taken => Exact \/ i \in short)
  BY DEF CopyGrows
<1>2. data # <<>> /\ i' = i
  BY ReadDataCases
<1>3. i \in Files /\ sent <= l /\ sent \in Nat /\ content[i] \in Contents /\ copy \in [Files -> Seq(Unit)]
      /\ d \in Nat /\ total \in Nat
  BY DEF TypeOK
<1>4. l \in Nat /\ c \in Nat
  BY <1>3, PipeAssumption
<1>5. b \in 1 .. d /\ \A k \in 1 .. b : buffer[k] = data[k]
  BY <1>2, BufferAndRest
<1>6. d <= sent /\ (\A k \in 1 .. d : data[k] = Part(i, Taken + k)) /\ Taken = sent - d
  BY DEF PartsWait, Taken
<1>7. Lacking = l - total
  BY <1>1 DEF Lacking
<1> HIDE DEF b, c, l, d
<1>8. Taken \in Nat /\ b \in Nat /\ b <= Lacking /\ Taken + b <= sent
  BY <1>1, <1>3, <1>4, <1>5, <1>6, <1>7
<1>9. Added \in Seq(Unit) /\ copy[i] \in Seq(Unit) /\ Len(Added) = b /\ \A k \in 1 .. b : Added[k] = buffer[k]
  <2>1. Len(buffer) <= Lacking
    BY <1>8 DEF b
  <2> QED
    BY <1>1, <1>2, <2>1, NewIsUnits DEF b
<1>10. copy'[i] = copy[i] \o SubSeq(Added, 1, n) /\ copy'[i] \in Seq(Unit)
  <2>1. copy' = [copy EXCEPT ![fd] = copy[fd] \o SubSeq(Added, 1, n)]
    BY DEF Stored
  <2>2. copy[fd] \o SubSeq(Added, 1, n) \in Seq(Unit)
    BY <1>2, NewIsUnits
  <2> QED
    BY <1>1, <1>3, <2>1, <2>2
<1>11. short \subseteq short' /\ (n < Len(Added) => i \in short')
  BY <1>1 DEF Stored
<1>12. ASSUME total = Taken, i \notin short' PROVE Exact'
  <2>1. n = b /\ Exact
    <3>1. ~(n < b) /\ i \notin short
      BY <1>9, <1>11, <1>12
    <3>2. n \in 0 .. b
      BY <1>9
    <3> QED
      BY <1>1, <1>8, <1>12, <3>1, <3>2
  <2>2. c = total /\ \A k \in 1 .. total : copy[i][k] = Part(i, k)
    BY <2>1 DEF Exact, c
  <2>3. copy'[i] = copy[i] \o Added
    <3>1. SubSeq(Added, 1, b) = Added
      BY <1>9, SubSeqFull
    <3> QED
      BY <1>10, <2>1, <3>1
  <2>4. /\ Len(copy'[i]) = c + b
        /\ \A k \in 1 .. c + b : copy'[i][k] = IF k <= c THEN copy[i][k] ELSE Added[k - c]
    <3>1. /\ Len(copy[i] \o Added) = Len(copy[i]) + Len(Added)
          /\ \A k \in 1 .. Len(copy[i]) + Len(Added) :
                (copy[i] \o Added)[k] = IF k <= Len(copy[i]) THEN copy[i][k] ELSE Added[k - Len(copy[i])]
      BY <1>9, ConcatProperties
    <3> QED
      BY <1>9, <2>3, <3>1 DEF c
  <2>5. ASSUME NEW k \in 1 .. c + b PROVE copy'[i][k] = Part(i, k)
    <3>1. CASE k <= c
      <4>1. k \in 1 .. total
        BY <1>3, <1>4, <1>8, <2>2, <3>1
      <4> QED
        BY <2>2, <2>4, <3>1, <4>1
    <3>2. CASE ~(k <= c)
      <4>1. k - c \in 1 .. b /\ k - c \in 1 .. d /\ Taken + (k - c) = k
        BY <1>3, <1>4, <1>5, <1>8, <1>12, <2>2, <3>2
      <4>2. copy'[i][k] = Added[k - c]
        BY <2>4, <3>2
      <4>3. Added[k - c] = buffer[k - c] /\ buffer[k - c] = data[k - c]
        BY <1>5, <1>9, <4>1
      <4>4. data[k - c] = Part(i, Taken + (k - c))
        BY <1>6, <4>1
      <4> QED
        BY <4>1, <4>2, <4>3, <4>4
    <3> QED
      BY <3>1, <3>2
  <2>6. total' = c + b
    BY <1>9, <2>2
  <2> QED
    BY <1>2, <2>4, <2>5, <2>6 DEF Exact
<1> QED
  BY <1>1, <1>3, <1>4, <1>8, <1>9, <1>10, <1>11, <1>12 DEF b, l

\* The child reads data, and sends ACK when the count is complete.
LEMMA ReadDataKeeps ==
    ASSUME PipeInv, ReadData
    PROVE  PipeInv'
<1>1. TypeOK /\ TypeOK' /\ mistaken' = mistaken /\ data # <<>> /\ data' = rest
  BY ReadDataType, ReadDataCases DEF PipeInv
<1>2. ASSUME ~mistaken' PROVE Good'
  <2>1. ~mistaken /\ Good /\ data[1].kind = "part"
    <3>1. ~mistaken /\ Looks = "part"
      BY <1>1, <1>2, ReadDataCases
    <3>2. ~Fooled
      BY <3>1 DEF Fooled
    <3> QED
      BY <1>1, <3>1, <3>2, NotFooled DEF PipeInv
  <2>2. ppc = "send" /\ cpc = "loop" /\ PartsWait /\ CopyGrows /\ acks = <<>>
    BY <1>1, <2>1, FirstUnit DEF PartsWait
  <2>3. ASSUME acks' = <<>> PROVE PartsWait' /\ Taken' = Taken + Len(buffer)
    BY <1>1, <2>2, <2>3, PartsLeft, ReadDataCases
  <2>4. ASSUME fd' = 0, UNCHANGED <<acks, copy, short>> PROVE Good'
    <3>1. PartsWait' /\ CopyGrows'
      BY <2>2, <2>3, <2>4 DEF CopyGrows
    <3> QED
      BY <2>1, <2>2, <2>4, <3>1, SendingIsGood, ReadDataCases
  <2>5. ASSUME fd # 0, total' = total + Len(Added), NEW n \in 0 .. Len(Added), Stored(n),
               \/ Enough(total + Len(Added)) /\ fd' = 0 /\ CloseCopy(<<>>)
               \/ ~Enough(total + Len(Added)) /\ UNCHANGED <<fd, acks>>
        PROVE  Good'
    <3> DEFINE b == Len(buffer)
               l == Len(content[i])
    <3>1. /\ fd = i /\ i \in Files /\ Len(Added) = b
          /\ total \in Nat /\ Taken \in Nat /\ l \in Nat /\ b \in Nat
          /\ total <= Taken /\ Taken + b <= sent /\ sent <= l
          /\ total' = total + b /\ short \subseteq short' /\ copy'[i] \in Seq(Unit)
          /\ total = Taken => Exact' \/ i \in short'
      BY <1>1, <2>1, <2>2, <2>5, CopyTakesAll
    <3>2. \A g \in Files : g # i => copy'[g] = copy[g]
      BY <1>1, <2>5, <3>1 DEF TypeOK, Stored
    <3>3. sent \in Nat /\ content' = content /\ i' = i /\ sent' = sent
      BY <1>1, ReadDataCases DEF TypeOK
    <3>4. CASE ~Enough(total + Len(Added)) /\ UNCHANGED <<fd, acks>>
      <4>1. PartsWait' /\ Taken' = Taken + b
        BY <2>2, <2>3, <3>4
      <4>2. total' < l /\ total' <= Taken' /\ (total' = Taken' => total = Taken)
        <5>1. ~(total + b >= l)
          BY <3>1, <3>4 DEF Enough
        <5> HIDE DEF b, l
        <5> QED
          BY <3>1, <4>1, <5>1
      <4>3. CopyGrows'
        BY <3>1, <3>3, <3>4, <4>2 DEF CopyGrows
      <4> QED
        BY <2>1, <2>2, <3>1, <3>2, <4>1, <4>3, SendingIsGood, ReadDataCases
    <3>5. CASE Enough(total + Len(Added)) /\ fd' = 0 /\ CloseCopy(<<>>)
      <4>1. acks' = <<"ACK">>
        <5>1. <<>> \in Seq({"READY", "ACK"})
          OBVIOUS
        <5> QED
          BY <1>1, <2>2, <2>5, <3>5, <5>1, Acknowledged
      <4>2. total = Taken /\ Taken + b = sent /\ sent = l /\ total' = l
        <5>1. total + b >= l
          BY <3>1, <3>5 DEF Enough
        <5> HIDE DEF b, l
        <5> QED
          BY <3>1, <3>3, <5>1
      <4>3. data' = <<>>
        <5>1. Len(rest) = Len(data) - b /\ rest \in Seq(Unit) /\ Len(data) \in Nat
          BY <1>1, BufferAndRest DEF TypeOK
        <5>2. sent - Len(data) + b = sent
          BY <4>2 DEF Taken
        <5>3. Len(rest) = 0
          <6> HIDE DEF b
          <6> QED
            BY <3>1, <3>3, <5>1, <5>2
        <5> QED
          BY <1>1, <5>1, <5>3, EmptySeq
      <4>4. ASSUME i \notin short' PROVE copy'[i] = Whole(i)'
        <5>1. Whole(i)' = [k \in 1 .. l |-> Part(i, k)]
          BY <3>3 DEF Whole
        <5>2. Len(copy'[i]) = l /\ \A k \in 1 .. l : copy'[i][k] = Part(i, k)
          <6>1. Exact'
            BY <3>1, <4>2, <4>4
          <6> QED
            BY <3>3, <4>2, <6>1 DEF Exact
        <5>3. copy'[i] = [k \in 1 .. Len(copy'[i]) |-> copy'[i][k]]
          BY <3>1
        <5> HIDE DEF l
        <5> QED
          BY <5>1, <5>2, <5>3
      <4>5. CopyIsDone'
        BY <3>3, <3>5, <4>1, <4>2, <4>3, <4>4 DEF CopyIsDone
      <4> QED
        BY <2>1, <2>2, <3>1, <3>2, <4>5, SendingIsGood, ReadDataCases
    <3> QED
      BY <2>5, <3>4, <3>5
  <2> QED
    BY <2>4, <2>5, ReadDataCases
<1> QED
  BY <1>1, <1>2 DEF PipeInv

-----------------------------------------------------------------------------
(***************************************************************************)
(* The theorems.                                                           *)
(***************************************************************************)

\* Every step of parent and child keeps the invariant.
LEMMA PipeInductive == PipeInv /\ [Next]_vars => PipeInv'
<1> SUFFICES ASSUME PipeInv, [Next]_vars PROVE PipeInv'
  OBVIOUS
<1>1. CASE ParentStep
  BY <1>1, SetupKeeps, ReadyKeeps, SkipKeeps, SendHeaderKeeps, SendChunkKeeps, ReadFailsKeeps,
     WaitAckKeeps, SendEndKeeps
     DEF ParentStep
<1>2. CASE ChildStep
  BY <1>2, StartKeeps, ReadHeaderKeeps, ReadEndKeeps, ReadDataKeeps, ReadEofKeeps DEF ChildStep
<1>3. CASE OpenData \/ OpenAck
  BY <1>3, SetupKeeps
<1>4. CASE UNCHANGED vars
  <2>1. UNCHANGED <<content, named, fifos, ppc, cpc, i, sent, cut, data, acks, fd, total, copy, acked, merged,
                  mistaken, failed, short>>
    BY <1>4 DEF vars, setup, parent, child
  <2>2. TypeOK'
    BY <2>1 DEF PipeInv, TypeOK
  <2>3. Good => Good'
    BY <2>1 DEF Good, NotBegun, Between, Sending, AckedEarlier, Idle, HeaderWaits, PartsWait, CopyGrows,
                Exact, CopyIsDone, Taken, Whole
  <2> QED
    BY <2>1, <2>2, <2>3 DEF PipeInv
<1> QED
  BY <1>1, <1>2, <1>3, <1>4 DEF Next

\* Every variable of the two processes and of the pipes keeps its type, also after data
\* were mistaken for a header: the parent's file while it sends is one it could open,
\* and it never has written more than the file holds.
THEOREM PipeTypeCorrect == Spec => []TypeOK
<1>1. PipeInv => TypeOK
  BY DEF PipeInv
<1> QED
  BY <1>1, PipeInit, PipeInductive, PTL DEF Spec

\* For any files, chunks, reads and pipes: what the parent reports as acknowledged was
\* copied whole and in order, unless data looked like a header or END, or a write of the
\* copy was short (child_process); also if some file could not be read to its end.
THEOREM PipeAckedIsCopied == Spec => []AckedIsCopied
<1>1. PipeInv => AckedIsCopied
  BY DEF PipeInv, Good, AckedEarlier, AckedIsCopied
<1> QED
  BY <1>1, PipeInit, PipeInductive, PTL DEF Spec

\* An acknowledgement under way means an empty data pipe: the next header cannot be
\* read together with what is left of the file before it.
THEOREM PipeEmptyAtAck == Spec => []EmptyAtAck
<1>1. ASSUME PipeInv, ~mistaken, NEW k \in DOMAIN acks, acks[k] = "ACK" PROVE data = <<>>
  <2>1. TypeOK /\ Good
    BY <1>1 DEF PipeInv
  <2>2. CASE acks = <<>>
    BY <1>1, <2>2
  <2>3. CASE ppc = "send"
    BY <1>1, <2>1, <2>2, <2>3 DEF Good, Sending, HeaderWaits, PartsWait, CopyIsDone
  <2>4. CASE ppc # "send"
    BY <1>1, <2>1, <2>2, <2>4 DEF Good, NotBegun, Between, Idle, TypeOK, ParentAt, BeforeFork, Opening
  <2> QED
    BY <2>3, <2>4
<1>2. PipeInv => EmptyAtAck
  BY <1>1 DEF EmptyAtAck
<1> QED
  BY <1>2, PipeInit, PipeInductive, PTL DEF Spec

-----------------------------------------------------------------------------
(* The broker. *)

Topics == {TopicOf[p] : p \in Publishers}
              \cup UNION {{TopicsOf[s][k] : k \in 1 .. Len(TopicsOf[s])} : s \in Subscribers}

\* A message that carries a line: a publisher's command or the broker's copy.
Carries(m) == m.command \in {"send", "line"}

\* What is ever put into the queue.  An unsubscribe command is not: a subscriber gets to
\* that loop only when the queue is gone.
Posted ==
    {m \in [to : Subscribers \cup {TheBroker}, command : {"register", "subscribe", "send", "line"},
            pid : Clients, topic : Topics, payload : Nat] :
        /\ m.to = TheBroker <=> m.command # "line"
        /\ m.command = "subscribe" => m.pid \in Subscribers
        /\ m.command # "subscribe" => m.pid \in Publishers
        /\ Carries(m) => m.payload # 0 /\ m.topic = TopicOf[m.pid]}

Working == {"start", "created", "rcv", "handle", "send"}

PubSubTypeOK ==
    /\ exists \in {"none", "live", "removed"} /\ queue \in Seq(Posted)
    /\ bpc \in Working \cup {"h_kill", "h_remove", "ended"}
    /\ bpc \in {"handle", "send"} => msg \in Posted /\ msg.to = TheBroker
    /\ bpc = "send" => msg.command = "send"
    /\ subs \in Seq(Subscribers \X Topics) /\ pubs \in Seq(Publishers)
    /\ found \subseteq 1 .. Len(subs) /\ killed \in Nat
    /\ pc \in [Clients -> {"start", "announce", "type", "send", "rcv", "unsub", "ended"}]
    /\ signalled \subseteq Clients
    /\ typed \in [Publishers -> Nat] /\ topic \in [Subscribers -> Nat]
    /\ got \in [Subscribers -> Seq(Posted)]
    /\ \A s \in Subscribers : \A k \in 1 .. Len(got[s]) : got[s][k].to = s

\* Where the processes are, and what has happened to the queue.
Places ==
    /\ bpc = "start" => exists = "none"
    /\ exists = "removed" => bpc = "ended"
    /\ \A s \in Subscribers : pc[s] = "unsub" => exists = "removed"
    /\ \A p \in Publishers : /\ pc[p] \in {"start", "announce"} => typed[p] = 0
                             /\ pc[p] = "send" => typed[p] # 0
                             /\ pc[p] \notin {"rcv", "unsub"}

\* A subscriber is entered once for a topic.
EnteredOnce ==
    /\ \A j, k \in 1 .. Len(subs) : subs[j] = subs[k] => j = k
    /\ bpc = "send" => \A k \in found : subs[k][2] = msg.topic

\* The numbers of the lines of p that the messages of q carry to c.
Numbers(q, c, p) == {n \in Nat : \E k \in 1 .. Len(q) :
                        IsLine(q[k], c, p) /\ Carries(q[k]) /\ q[k].payload = n}
BeingSent(s, p)  == {n \in Nat : bpc = "send" /\ msg.pid = p /\ msg.payload = n
                                 /\ \E k \in found : subs[k][1] = s}
InHand(p)        == {n \in Nat : bpc = "handle" /\ msg.command = "send" /\ msg.pid = p
                                 /\ msg.payload = n}

\* In a queue the lines of a publisher to the same reader are in order.
Ascending(q) ==
    \A j, k \in 1 .. Len(q) :
        (j < k /\ IsLine(q[j], q[k].to, q[k].pid) /\ Carries(q[j]) /\ Carries(q[k]))
            => q[j].payload < q[k].payload

\* The stages of the lines of a publisher on their way to a subscriber: received (a),
\* in the queue (b), being sent (c), being handled (d) and in the queue to the broker
\* (e).  Every line of a stage was typed before those of the later stages, and none is
\* missing up to the last one typed.  When the broker no longer works, what it has
\* not handled may be missing.
Below(x, y) == \A m \in x, n \in y : m < n
NoGap(x)    == \A n \in x : n + 1 \in x \/ \A k \in x : k <= n
FlowOK(a, b, c, d, e, works, at, t) ==
    /\ Below(a, b) /\ Below(a, c) /\ Below(a, d) /\ Below(a, e) /\ Below(b, c)
    /\ Below(b, d) /\ Below(b, e) /\ Below(c, d) /\ Below(c, e) /\ Below(d, e)
    /\ \A n \in a \cup b \cup c \cup d \cup e : n # 0 /\ n <= t /\ (at = "send" => n < t)
    /\ NoGap(a \cup b \cup c)
    /\ works => NoGap(a \cup b \cup c \cup d \cup e)
    /\ (works /\ at \in {"type", "send"} /\ a \cup b \cup c \cup d \cup e # {}) =>
          (IF at = "send" THEN t - 1 ELSE t) \in a \cup b \cup c \cup d \cup e

Flows(s, p) == FlowOK(Numbers(got[s], s, p), Numbers(queue, s, p), BeingSent(s, p), InHand(p),
                      Numbers(queue, TheBroker, p), bpc \in Working, pc[p], typed[p])

\* Who has a line of a publisher on its way, or has one, is entered for its topic.
Entered(s, p) == Numbers(got[s], s, p) \cup Numbers(queue, s, p) \cup BeingSent(s, p) # {} =>
                     \E k \in 1 .. Len(subs) : subs[k] = <<s, TopicOf[p]>>

FlowTo(s) == /\ Ascending(queue) /\ Ascending(got[s])
             /\ \A p \in Publishers : Flows(s, p) /\ Entered(s, p)
FlowInv   == \A s \in Subscribers : FlowTo(s)

-----------------------------------------------------------------------------
(***************************************************************************)
(* The stages of a flow: how a line goes from one to the next.             *)
(***************************************************************************)

\* While the broker works nothing is missing, so nothing is missing of what it has handled.
LEMMA HandledNoGap ==
    ASSUME NEW a \in SUBSET Nat, NEW b \in SUBSET Nat, Below(a, b), NoGap(a \cup b)
    PROVE  NoGap(a)
BY DEF Below, NoGap

\* s receives the first line that waits for it.
LEMMA FlowReceives ==
    ASSUME NEW a \in SUBSET Nat, NEW b \in SUBSET Nat, NEW c \in SUBSET Nat, NEW d \in SUBSET Nat,
           NEW e \in SUBSET Nat, NEW works, NEW at, NEW t \in Nat, FlowOK(a, b, c, d, e, works, at, t),
           NEW n \in b, \A k \in b : k # n => n < k
    PROVE  FlowOK(a \cup {n}, b \ {n}, c, d, e, works, at, t)
<1>1. /\ (a \cup {n}) \cup (b \ {n}) \cup c = a \cup b \cup c
      /\ (a \cup {n}) \cup (b \ {n}) \cup c \cup d \cup e = a \cup b \cup c \cup d \cup e
  OBVIOUS
<1>2. /\ Below(a \cup {n}, b \ {n}) /\ Below(a \cup {n}, c) /\ Below(a \cup {n}, d) /\ Below(a \cup {n}, e)
      /\ Below(b \ {n}, c) /\ Below(b \ {n}, d) /\ Below(b \ {n}, e) /\ Below(c, d) /\ Below(c, e) /\ Below(d, e)
  BY DEF FlowOK, Below
<1> QED
  BY <1>1, <1>2 DEF FlowOK

\* The broker puts the line into the queue.
LEMMA FlowIsSent ==
    ASSUME NEW a \in SUBSET Nat, NEW b \in SUBSET Nat, NEW d \in SUBSET Nat,
           NEW e \in SUBSET Nat, NEW works, NEW at, NEW t \in Nat, NEW n \in Nat,
           FlowOK(a, b, {n}, d, e, works, at, t)
    PROVE  FlowOK(a, b \cup {n}, {}, d, e, works, at, t)
<1>1. /\ a \cup (b \cup {n}) \cup {} = a \cup b \cup {n}
      /\ a \cup (b \cup {n}) \cup {} \cup d \cup e = a \cup b \cup {n} \cup d \cup e
  OBVIOUS
<1>2. /\ Below(a, b \cup {n}) /\ Below(a, {}) /\ Below(a, d) /\ Below(a, e)
      /\ Below(b \cup {n}, {}) /\ Below(b \cup {n}, d) /\ Below(b \cup {n}, e)
      /\ Below({}, d) /\ Below({}, e) /\ Below(d, e)
  BY DEF FlowOK, Below
<1> QED
  BY <1>1, <1>2 DEF FlowOK

\* The broker has found s among the subscribers.
LEMMA FlowIsFound ==
    ASSUME NEW a \in SUBSET Nat, NEW b \in SUBSET Nat,
           NEW e \in SUBSET Nat, NEW at, NEW t \in Nat, NEW n \in Nat,
           FlowOK(a, b, {}, {n}, e, TRUE, at, t)
    PROVE  FlowOK(a, b, {n}, {}, e, TRUE, at, t)
<1>1. a \cup b \cup {n} \cup {} \cup e = a \cup b \cup {} \cup {n} \cup e
  OBVIOUS
<1>2. /\ Below(a, b) /\ Below(a, {n}) /\ Below(a, {}) /\ Below(a, e) /\ Below(b, {n})
      /\ Below(b, {}) /\ Below(b, e) /\ Below({n}, {}) /\ Below({n}, e) /\ Below({}, e)
  BY DEF FlowOK, Below
<1>3. Below(a \cup b \cup {n}, e) /\ NoGap((a \cup b \cup {n}) \cup e)
  <2>1. (a \cup b \cup {n}) \cup e = a \cup b \cup {} \cup {n} \cup e
    OBVIOUS
  <2>2. NoGap(a \cup b \cup {} \cup {n} \cup e)
    BY DEF FlowOK
  <2> QED
    BY <1>2, <2>1, <2>2 DEF Below
<1>4. NoGap(a \cup b \cup {n})
  <2>1. a \cup b \cup {n} \in SUBSET Nat
    OBVIOUS
  <2> QED
    BY <1>3, <2>1, HandledNoGap
<1> QED
  BY <1>1, <1>2, <1>4 DEF FlowOK

\* s was not among them, and had nothing.
LEMMA FlowPasses ==
    ASSUME NEW e \in SUBSET Nat, NEW at, NEW t \in Nat, NEW n \in Nat,
           FlowOK({}, {}, {}, {n}, e, TRUE, at, t)
    PROVE  FlowOK({}, {}, {}, {}, e, TRUE, at, t)
<1>1. {} \cup {} \cup {} \cup {n} \cup e = {n} \cup e /\ {} \cup {} \cup {} \cup {} \cup e = e
      /\ {} \cup {} \cup {} = {}
  OBVIOUS
<1>2. Below({n}, e) /\ NoGap({n} \cup e)
      /\ (\A k \in {n} \cup e : k # 0 /\ k <= t /\ (at = "send" => k < t))
      /\ (at \in {"type", "send"} => (IF at = "send" THEN t - 1 ELSE t) \in {n} \cup e)
  BY <1>1 DEF FlowOK
<1>3. NoGap(e) /\ NoGap({})
  BY <1>2 DEF Below, NoGap
<1>4. (at \in {"type", "send"} /\ e # {}) => (IF at = "send" THEN t - 1 ELSE t) \in e
  <2>1. ASSUME NEW k \in e, n = IF at = "send" THEN t - 1 ELSE t PROVE FALSE
    BY <1>2, <2>1 DEF Below
  <2> QED
    BY <1>2, <2>1
<1> QED
  BY <1>1, <1>2, <1>3, <1>4 DEF FlowOK, Below

\* The broker takes the first command of p.
LEMMA FlowIsTaken ==
    ASSUME NEW a \in SUBSET Nat, NEW b \in SUBSET Nat, NEW e \in SUBSET Nat, NEW works, NEW at,
           NEW t \in Nat, FlowOK(a, b, {}, {}, e, works, at, t),
           NEW n \in e, \A k \in e : k # n => n < k
    PROVE  FlowOK(a, b, {}, {n}, e \ {n}, works, at, t)
<1>1. a \cup b \cup {} \cup {n} \cup (e \ {n}) = a \cup b \cup {} \cup {} \cup e
  OBVIOUS
<1>2. /\ Below(a, b) /\ Below(a, {}) /\ Below(a, {n}) /\ Below(a, e \ {n}) /\ Below(b, {})
      /\ Below(b, {n}) /\ Below(b, e \ {n}) /\ Below({}, {n}) /\ Below({}, e \ {n}) /\ Below({n}, e \ {n})
  BY DEF FlowOK, Below
<1> QED
  BY <1>1, <1>2 DEF FlowOK

\* p sends the line it has read.
LEMMA FlowBegins ==
    ASSUME NEW a \in SUBSET Nat, NEW b \in SUBSET Nat, NEW c \in SUBSET Nat, NEW d \in SUBSET Nat,
           NEW e \in SUBSET Nat, NEW works, NEW t \in Nat \ {0}, FlowOK(a, b, c, d, e, works, "send", t)
    PROVE  FlowOK(a, b, c, d, e \cup {t}, works, "type", t)
<1> DEFINE u == a \cup b \cup c \cup d \cup e
<1>1. a \cup b \cup c \cup d \cup (e \cup {t}) = u \cup {t}
  OBVIOUS
<1>2. u \in SUBSET Nat /\ (\A n \in u : n # 0 /\ n < t) /\ (works => NoGap(u)) /\ (works /\ u # {} => t - 1 \in u)
  BY DEF FlowOK
<1>3. /\ Below(a, b) /\ Below(a, c) /\ Below(a, d) /\ Below(b, c) /\ Below(b, d) /\ Below(c, d)
      /\ Below(a, e) /\ Below(b, e) /\ Below(c, e) /\ Below(d, e)
  BY DEF FlowOK
<1>4. Below(a, e \cup {t}) /\ Below(b, e \cup {t}) /\ Below(c, e \cup {t}) /\ Below(d, e \cup {t})
  BY <1>2, <1>3 DEF Below
<1>5. NoGap(a \cup b \cup c)
  BY DEF FlowOK
<1> HIDE DEF u
<1>6. \A n \in u \cup {t} : n # 0 /\ n <= t
  BY <1>2
<1>7. works => NoGap(u \cup {t})
  BY <1>2 DEF NoGap
<1> QED
  BY <1>1, <1>3, <1>4, <1>5, <1>6, <1>7 DEF FlowOK

\* The broker is interrupted: what it has not put into the queue never comes.
LEMMA FlowIsCut ==
    ASSUME NEW a \in SUBSET Nat, NEW b \in SUBSET Nat, NEW c \in SUBSET Nat, NEW d \in SUBSET Nat,
           NEW e \in SUBSET Nat, NEW works, NEW at, NEW t \in Nat, FlowOK(a, b, c, d, e, works, at, t)
    PROVE  FlowOK(a, b, {}, {}, e, FALSE, at, t)
<1>1. Below(a \cup b, c) /\ NoGap((a \cup b) \cup c)
  BY DEF FlowOK, Below
<1>2. a \cup b \in SUBSET Nat /\ a \cup b \cup {} = a \cup b
  OBVIOUS
<1>3. NoGap(a \cup b \cup {})
  BY <1>1, <1>2, HandledNoGap
<1>4. Below(a, b) /\ Below(a, e) /\ Below(b, e)
      /\ \A n \in a \cup b \cup {} \cup {} \cup e : n # 0 /\ n <= t /\ (at = "send" => n < t)
  BY DEF FlowOK
<1> QED
  BY <1>3, <1>4 DEF FlowOK, Below

\* The queue is removed, with what is in it.
LEMMA FlowIsRemoved ==
    ASSUME NEW a \in SUBSET Nat, NEW b \in SUBSET Nat, NEW e \in SUBSET Nat, NEW works, NEW at,
           NEW t \in Nat, FlowOK(a, b, {}, {}, e, works, at, t)
    PROVE  FlowOK(a, {}, {}, {}, {}, FALSE, at, t)
<1>1. Below(a, b) /\ NoGap(a \cup b)
  <2>1. a \cup b \cup {} = a \cup b
    OBVIOUS
  <2> QED
    BY <2>1 DEF FlowOK
<1>2. NoGap(a \cup {} \cup {})
  <2>1. a \cup {} \cup {} = a
    OBVIOUS
  <2> QED
    BY <1>1, <2>1, HandledNoGap
<1>3. \A n \in a \cup {} \cup {} \cup {} \cup {} : n # 0 /\ n <= t /\ (at = "send" => n < t)
  BY DEF FlowOK
<1> QED
  BY <1>2, <1>3 DEF FlowOK, Below

\* p goes on to its next line, or ends.
LEMMA FlowAwaits ==
    ASSUME NEW a \in SUBSET Nat, NEW b \in SUBSET Nat, NEW c \in SUBSET Nat, NEW d \in SUBSET Nat,
           NEW e \in SUBSET Nat, NEW works, NEW at, NEW t \in Nat, FlowOK(a, b, c, d, e, works, at, t)
    PROVE  /\ at = "type" => FlowOK(a, b, c, d, e, works, "send", t + 1)
           /\ FlowOK(a, b, c, d, e, works, "ended", t)
           /\ t = 0 => /\ FlowOK(a, b, c, d, e, works, "announce", t)
                       /\ FlowOK(a, b, c, d, e, works, "type", t)
<1> DEFINE u == a \cup b \cup c \cup d \cup e
<1>1. (\A n \in u : n # 0 /\ n <= t /\ (at = "send" => n < t)) /\ u \in SUBSET Nat
  BY DEF FlowOK
<1>2. at = "type" => (\A n \in u : n # 0 /\ n <= t + 1 /\ n < t + 1) /\ (t + 1) - 1 = t
  BY <1>1
<1>3. t = 0 => u = {}
  BY <1>1
<1> HIDE DEF u
<1>4. at = "type" => FlowOK(a, b, c, d, e, works, "send", t + 1)
  BY <1>2 DEF FlowOK, u
<1>5. FlowOK(a, b, c, d, e, works, "ended", t)
  BY DEF FlowOK
<1>6. t = 0 => /\ FlowOK(a, b, c, d, e, works, "announce", t)
               /\ FlowOK(a, b, c, d, e, works, "type", t)
  BY <1>3 DEF FlowOK, u
<1> QED
  BY <1>4, <1>5, <1>6

-----------------------------------------------------------------------------
(***************************************************************************)
(* The queue: what msgsnd and msgrcv do to the lines in it.                *)
(***************************************************************************)

\* What is left of a sequence without one element.
LEMMA WithoutOne ==
    ASSUME NEW S, NEW q \in Seq(S), NEW k \in 1 .. Len(q)
    PROVE  /\ Without(q, k) \in Seq(S) /\ Len(Without(q, k)) = Len(q) - 1
           /\ \A j \in 1 .. Len(q) - 1 : Without(q, k)[j] = IF j < k THEN q[j] ELSE q[j + 1]
<1>1. k \in Nat /\ Len(q) \in Nat /\ k <= Len(q) /\ 1 <= k
  OBVIOUS
<1> DEFINE x == SubSeq(q, 1, k - 1)
           y == SubSeq(q, k + 1, Len(q))
<1>2. x \in Seq(S) /\ Len(x) = k - 1 /\ \A j \in 1 .. k - 1 : x[j] = q[j]
  <2>1. \A j \in 1 .. k - 1 : j \in 1 .. Len(q)
    BY <1>1
  <2>2. x = [j \in 1 .. k - 1 |-> q[j]]
    BY <1>1 DEF x
  <2>3. \A j \in 1 .. k - 1 : q[j] \in S
    BY <2>1
  <2> QED
    BY <1>1, <2>2, <2>3
<1>3. y \in Seq(S) /\ Len(y) = Len(q) - k /\ \A j \in 1 .. Len(q) - k : y[j] = q[k + j]
  <2>1. y = [j \in 1 .. Len(q) - k |-> q[k + j]]
    BY <1>1 DEF y
  <2>2. \A j \in 1 .. Len(q) - k : k + j \in 1 .. Len(q)
    BY <1>1
  <2>3. \A j \in 1 .. Len(q) - k : q[k + j] \in S
    BY <2>2
  <2>4. Len(q) - k \in Nat
    BY <1>1
  <2> QED
    BY <2>1, <2>3, <2>4
<1>4. Without(q, k) = x \o y
  BY DEF Without
<1> HIDE DEF x, y
<1>5. x \o y \in Seq(S) /\ Len(x \o y) = Len(x) + Len(y)
      /\ \A j \in 1 .. Len(x) + Len(y) : (x \o y)[j] = IF j <= Len(x) THEN x[j] ELSE y[j - Len(x)]
  BY <1>2, <1>3, ConcatProperties
<1>6. ASSUME NEW j \in 1 .. Len(q) - 1
      PROVE  (x \o y)[j] = IF j < k THEN q[j] ELSE q[j + 1]
  <2>1. CASE j < k
    BY <1>1, <1>2, <1>3, <1>5, <2>1
  <2>2. CASE ~ (j < k)
    <3>1. j - Len(x) \in 1 .. Len(q) - k /\ k + (j - Len(x)) = j + 1 /\ ~ (j <= Len(x))
          /\ j \in 1 .. Len(x) + Len(y)
      BY <1>1, <1>2, <1>3, <2>2
    <3>2. y[j - Len(x)] = q[k + (j - Len(x))]
      BY <1>3, <3>1
    <3> QED
      BY <1>5, <2>2, <3>1, <3>2
  <2> QED
    BY <2>1, <2>2
<1> QED
  BY <1>1, <1>2, <1>3, <1>4, <1>5, <1>6

\* A message is taken out: its line is no longer there, the others are.
LEMMA LinesWithout ==
    ASSUME NEW q \in Seq(Posted), NEW k \in 1 .. Len(q), Ascending(q), NEW c, NEW p
    PROVE  /\ Without(q, k) \in Seq(Posted) /\ Ascending(Without(q, k))
           /\ (IsLine(q[k], c, p) /\ Carries(q[k])) =>
                 Numbers(Without(q, k), c, p) = Numbers(q, c, p) \ {q[k].payload}
           /\ ~ (IsLine(q[k], c, p) /\ Carries(q[k])) =>
                 Numbers(Without(q, k), c, p) = Numbers(q, c, p)
<1> PICK w : w = Without(q, k)
  OBVIOUS
<1>1. w \in Seq(Posted) /\ Len(w) = Len(q) - 1
      /\ \A j \in 1 .. Len(q) - 1 : w[j] = IF j < k THEN q[j] ELSE q[j + 1]
  BY WithoutOne
<1>2. Len(q) \in Nat /\ k \in Nat /\ 1 <= k /\ k <= Len(q)
  OBVIOUS
<1>3. ASSUME NEW j \in 1 .. Len(w)
      PROVE  \E l \in 1 .. Len(q) : l # k /\ w[j] = q[l] /\ l = IF j < k THEN j ELSE j + 1
  <2>1. PICK l : l = IF j < k THEN j ELSE j + 1
    OBVIOUS
  <2>2. l \in 1 .. Len(q) /\ l # k /\ w[j] = q[l]
    BY <1>1, <1>2, <2>1
  <2> QED
    BY <2>1, <2>2
<1>4. ASSUME NEW l \in 1 .. Len(q), l # k
      PROVE  \E j \in 1 .. Len(w) : w[j] = q[l]
  <2>1. PICK j : j = IF l < k THEN l ELSE l - 1
    OBVIOUS
  <2>2. j \in 1 .. Len(w) /\ w[j] = q[l]
    BY <1>1, <1>2, <1>4, <2>1
  <2> QED
    BY <2>2
<1>5. Ascending(w)
  <2>1. SUFFICES ASSUME NEW j1 \in 1 .. Len(w), NEW j2 \in 1 .. Len(w), j1 < j2,
                        IsLine(w[j1], w[j2].to, w[j2].pid), Carries(w[j1]), Carries(w[j2])
                 PROVE  w[j1].payload < w[j2].payload
    BY DEF Ascending
  <2>2. PICK l1 \in 1 .. Len(q) : w[j1] = q[l1] /\ l1 = IF j1 < k THEN j1 ELSE j1 + 1
    BY <1>3
  <2>3. PICK l2 \in 1 .. Len(q) : w[j2] = q[l2] /\ l2 = IF j2 < k THEN j2 ELSE j2 + 1
    BY <1>3
  <2>4. l1 < l2
    BY <1>1, <1>2, <2>1, <2>2, <2>3
  <2> QED
    BY <2>1, <2>2, <2>3, <2>4 DEF Ascending
<1>6. ASSUME NEW n \in Nat
      PROVE  n \in Numbers(w, c, p) <=>
                \E l \in 1 .. Len(q) : l # k /\ IsLine(q[l], c, p) /\ Carries(q[l]) /\ q[l].payload = n
  <2>1. n \in Numbers(w, c, p) => \E l \in 1 .. Len(q) : l # k /\ IsLine(q[l], c, p) /\ Carries(q[l]) /\ q[l].payload = n
    BY <1>3 DEF Numbers
  <2>2. (\E l \in 1 .. Len(q) : l # k /\ IsLine(q[l], c, p) /\ Carries(q[l]) /\ q[l].payload = n) => n \in Numbers(w, c, p)
    BY <1>4 DEF Numbers
  <2> QED
    BY <2>1, <2>2
<1>7. Numbers(w, c, p) \subseteq Nat /\ Numbers(q, c, p) \subseteq Nat
  BY DEF Numbers
<1>8. ASSUME IsLine(q[k], c, p), Carries(q[k])
      PROVE  Numbers(w, c, p) = Numbers(q, c, p) \ {q[k].payload}
  <2>1. ASSUME NEW l \in 1 .. Len(q), l # k, IsLine(q[l], c, p), Carries(q[l])
        PROVE  q[l].payload # q[k].payload
    <3>1. q[l].payload \in Nat /\ q[k].payload \in Nat
      BY DEF Posted
    <3>2. q[l].to = q[k].to /\ q[l].pid = q[k].pid
      BY <1>8, <2>1 DEF IsLine
    <3>3. l < k \/ k < l
      BY <2>1
    <3>4. q[l].payload < q[k].payload \/ q[k].payload < q[l].payload
      BY <1>8, <2>1, <3>2, <3>3 DEF Ascending, IsLine
    <3> QED
      BY <3>1, <3>4
  <2>2. ASSUME NEW n \in Nat
        PROVE  n \in Numbers(w, c, p) <=> n \in Numbers(q, c, p) /\ n # q[k].payload
    <3>1. n \in Numbers(q, c, p) <=> \E l \in 1 .. Len(q) : IsLine(q[l], c, p) /\ Carries(q[l]) /\ q[l].payload = n
      BY DEF Numbers
    <3> QED
      BY <1>6, <2>1, <3>1
  <2> QED
    BY <1>7, <2>2
<1>9. ASSUME ~ (IsLine(q[k], c, p) /\ Carries(q[k]))
      PROVE  Numbers(w, c, p) = Numbers(q, c, p)
  <2>2. ASSUME NEW n \in Nat
        PROVE  n \in Numbers(w, c, p) <=> n \in Numbers(q, c, p)
    <3>1. n \in Numbers(q, c, p) <=> \E l \in 1 .. Len(q) : IsLine(q[l], c, p) /\ Carries(q[l]) /\ q[l].payload = n
      BY DEF Numbers
    <3> QED
      BY <1>6, <1>9, <3>1
  <2> QED
    BY <1>7, <2>2
<1> QED
  BY <1>1, <1>5, <1>8, <1>9

\* The oldest message of a reader that is a line of p is the first line of p.
LEMMA OldestIsFirst ==
    ASSUME NEW q \in Seq(Posted), NEW k \in 1 .. Len(q), Ascending(q), NEW c, NEW p,
           \A j \in 1 .. k - 1 : q[j].to # c, IsLine(q[k], c, p), Carries(q[k])
    PROVE  /\ q[k].payload \in Numbers(q, c, p)
           /\ \A n \in Numbers(q, c, p) : n # q[k].payload => q[k].payload < n
<1>1. q[k].payload \in Nat
  BY DEF Posted
<1>2. q[k].payload \in Numbers(q, c, p)
  BY <1>1 DEF Numbers
<1>3. ASSUME NEW n \in Numbers(q, c, p), n # q[k].payload
      PROVE  q[k].payload < n
  <2>1. PICK l \in 1 .. Len(q) : IsLine(q[l], c, p) /\ Carries(q[l]) /\ q[l].payload = n
    BY DEF Numbers
  <2>2. l \notin 1 .. k - 1 /\ l # k
    BY <1>3, <2>1 DEF IsLine
  <2>3. k < l
    BY <2>2
  <2>4. q[k].to = q[l].to /\ q[k].pid = q[l].pid
    BY <2>1 DEF IsLine
  <2> QED
    BY <2>1, <2>3, <2>4 DEF Ascending, IsLine
<1> QED
  BY <1>2, <1>3

\* A message is put at the end.
LEMMA LinesAppended ==
    ASSUME NEW q \in Seq(Posted), NEW m \in Posted, Ascending(q),
           Carries(m) => \A n \in Numbers(q, m.to, m.pid) : n < m.payload
    PROVE  /\ Append(q, m) \in Seq(Posted) /\ Ascending(Append(q, m))
           /\ \A c, p : /\ (IsLine(m, c, p) /\ Carries(m)) =>
                              Numbers(Append(q, m), c, p) = Numbers(q, c, p) \cup {m.payload}
                        /\ ~ (IsLine(m, c, p) /\ Carries(m)) =>
                              Numbers(Append(q, m), c, p) = Numbers(q, c, p)
<1> PICK w : w = Append(q, m)
  OBVIOUS
<1>1. w \in Seq(Posted) /\ Len(w) = Len(q) + 1 /\ Len(q) \in Nat /\ w[Len(q) + 1] = m
      /\ \A j \in 1 .. Len(q) : w[j] = q[j]
  OBVIOUS
<1>2. Ascending(w)
  <2>1. SUFFICES ASSUME NEW j1 \in 1 .. Len(w), NEW j2 \in 1 .. Len(w), j1 < j2,
                        IsLine(w[j1], w[j2].to, w[j2].pid), Carries(w[j1]), Carries(w[j2])
                 PROVE  w[j1].payload < w[j2].payload
    BY DEF Ascending
  <2>2. j1 \in 1 .. Len(q) /\ w[j1] = q[j1]
    BY <1>1, <2>1
  <2>3. CASE j2 \in 1 .. Len(q)
    BY <1>1, <2>1, <2>2, <2>3 DEF Ascending
  <2>4. CASE j2 = Len(q) + 1
    <3>1. q[j1].payload \in Nat
      BY <2>2 DEF Posted
    <3>2. q[j1].payload \in Numbers(q, m.to, m.pid)
      BY <1>1, <2>1, <2>2, <2>4, <3>1 DEF Numbers
    <3> QED
      BY <1>1, <2>1, <2>2, <2>4, <3>2
  <2> QED
    BY <1>1, <2>3, <2>4
<1>3. ASSUME NEW c, NEW p, NEW n \in Nat
      PROVE  n \in Numbers(w, c, p) <=>
                n \in Numbers(q, c, p) \/ (IsLine(m, c, p) /\ Carries(m) /\ m.payload = n)
  <2>1. \A j \in 1 .. Len(w) : j \in 1 .. Len(q) \/ j = Len(q) + 1
    BY <1>1
  <2>2. Len(q) + 1 \in 1 .. Len(w) /\ \A j \in 1 .. Len(q) : j \in 1 .. Len(w)
    BY <1>1
  <2> QED
    BY <1>1, <2>1, <2>2 DEF Numbers
<1>4. \A c, p : Numbers(w, c, p) \subseteq Nat /\ Numbers(q, c, p) \subseteq Nat
  BY DEF Numbers
<1>5. m.payload \in Nat
  BY DEF Posted
<1>6. ASSUME NEW c, NEW p
      PROVE  /\ (IsLine(m, c, p) /\ Carries(m)) => Numbers(w, c, p) = Numbers(q, c, p) \cup {m.payload}
             /\ ~ (IsLine(m, c, p) /\ Carries(m)) => Numbers(w, c, p) = Numbers(q, c, p)
  <2>1. \A n \in Nat : n \in Numbers(w, c, p) <=>
                n \in Numbers(q, c, p) \/ (IsLine(m, c, p) /\ Carries(m) /\ m.payload = n)
    BY <1>3
  <2>2. Numbers(w, c, p) \subseteq Nat /\ Numbers(q, c, p) \subseteq Nat
    BY <1>4
  <2>3. CASE IsLine(m, c, p) /\ Carries(m)
    BY <1>5, <2>1, <2>2, <2>3
  <2>4. CASE ~ (IsLine(m, c, p) /\ Carries(m))
    BY <2>1, <2>2, <2>4
  <2> QED
    BY <2>3, <2>4
<1> QED
  BY <1>1, <1>2, <1>6

-----------------------------------------------------------------------------
(***************************************************************************)
(* Types, places and the table of subscriptions.                           *)
(***************************************************************************)
TableInv == PubSubTypeOK /\ Places /\ EnteredOnce

\* The commands and the copies are messages of the queue.
LEMMA CommandsArePosted ==
    /\ \A p \in Publishers : Command("register", p, TopicOf[p], 0) \in Posted
    /\ \A p \in Publishers, n \in Nat \ {0} : Command("send", p, TopicOf[p], n) \in Posted
    /\ \A s \in Subscribers : \A k \in 1 .. Len(TopicsOf[s]) :
          Command("subscribe", s, TopicsOf[s][k], 0) \in Posted
    /\ \A s \in Subscribers, m \in Posted : m.command = "send" => Copy(s, m) \in Posted
<1>1. Publishers \subseteq Clients /\ Subscribers \subseteq Clients /\ TheBroker \notin Clients
  BY BrokerAssumption DEF Clients
<1>2. ASSUME NEW p \in Publishers PROVE TopicOf[p] \in Topics
  BY DEF Topics
<1>3. ASSUME NEW s \in Subscribers, NEW k \in 1 .. Len(TopicsOf[s]) PROVE TopicsOf[s][k] \in Topics
  BY DEF Topics
<1>4. ASSUME NEW p \in Publishers PROVE Command("register", p, TopicOf[p], 0) \in Posted
  BY <1>1, <1>2 DEF Command, Posted, Carries
<1>5. ASSUME NEW p \in Publishers, NEW n \in Nat \ {0} PROVE Command("send", p, TopicOf[p], n) \in Posted
  BY <1>1, <1>2 DEF Command, Posted, Carries
<1>6. ASSUME NEW s \in Subscribers, NEW k \in 1 .. Len(TopicsOf[s])
      PROVE  Command("subscribe", s, TopicsOf[s][k], 0) \in Posted
  BY <1>1, <1>3 DEF Command, Posted, Carries
<1>7. ASSUME NEW s \in Subscribers, NEW m \in Posted, m.command = "send" PROVE Copy(s, m) \in Posted
  BY <1>1, <1>7 DEF Copy, Posted, Carries
<1> QED
  BY <1>4, <1>5, <1>6, <1>7

\* Putting a message keeps the type of the queue.
LEMMA PutTyped ==
    ASSUME queue \in Seq(Posted), NEW m \in Posted, Put(m)
    PROVE  queue' \in Seq(Posted)
BY DEF Put

\* Taking a message out keeps the type of the queue.
LEMMA TakeTyped ==
    ASSUME queue \in Seq(Posted), NEW k \in DOMAIN queue, Take(k)
    PROVE  queue' \in Seq(Posted) /\ queue[k] \in Posted
<1>1. k \in 1 .. Len(queue)
  OBVIOUS
<1> QED
  BY <1>1, WithoutOne DEF Take

\* At the start nothing is entered and nothing has been sent.
LEMMA TableInit == PubSubInit => TableInv
<1> SUFFICES ASSUME PubSubInit PROVE TableInv
  OBVIOUS
<1>1. PubSubTypeOK
  BY DEF PubSubInit, PubSubTypeOK, Working
<1>2. Places
  BY DEF PubSubInit, Places, Clients
<1>3. EnteredOnce
  BY DEF PubSubInit, EnteredOnce
<1> QED
  BY <1>1, <1>2, <1>3 DEF TableInv

\* The broker's steps on the table and in its handler.
LEMMA TableBroker ==
    ASSUME TableInv, Create \/ Install \/ BrokerInterrupt \/ HandlerRemove
    PROVE  TableInv'
<1> USE DEF TableInv
<1>1. PubSubTypeOK'
  <2>1. CASE Create
    BY <2>1 DEF PubSubTypeOK, Create, tables, clientVars, Working
  <2>2. CASE Install
    BY <2>2 DEF PubSubTypeOK, Install, tables, clientVars, Working
  <2>3. CASE BrokerInterrupt
    BY <2>3 DEF PubSubTypeOK, BrokerInterrupt, tables, clientVars, Working
  <2>4. CASE HandlerRemove
    BY <2>4 DEF PubSubTypeOK, HandlerRemove, tables, clientVars, Working
  <2> QED
    BY <2>1, <2>2, <2>3, <2>4
<1>2. Places'
  BY DEF PubSubTypeOK, Places, Create, Install, BrokerInterrupt, HandlerRemove, tables, clientVars, Working
<1>3. EnteredOnce'
  BY DEF PubSubTypeOK, EnteredOnce, Create, Install, BrokerInterrupt, HandlerRemove, tables, clientVars
<1> QED
  BY <1>1, <1>2, <1>3

\* The handler signals clients of its tables only.
LEMMA TableKill ==
    ASSUME TableInv, HandlerKill
    PROVE  TableInv'
<1> USE DEF TableInv
<1>1. signalled' \subseteq Clients /\ killed' \in Nat
  <2>1. CASE killed < Len(Known)
    <3>1. [k \in DOMAIN subs |-> subs[k][1]] \in Seq(Clients) /\ pubs \in Seq(Clients)
      <4>1. subs \in Seq(Subscribers \X Topics) /\ pubs \in Seq(Publishers)
        BY DEF PubSubTypeOK
      <4>2. DOMAIN subs = 1 .. Len(subs) /\ Len(subs) \in Nat
        BY <4>1
      <4>3. \A k \in 1 .. Len(subs) : subs[k] \in Subscribers \X Topics
        BY <4>1
      <4>4. \A k \in 1 .. Len(subs) : subs[k][1] \in Clients
        BY <4>3 DEF Clients
      <4> QED
        BY <4>1, <4>2, <4>4 DEF Clients
    <3>2. Known \in Seq(Clients)
      BY <3>1 DEF Known
    <3>3. Known[killed + 1] \in Clients
      BY <2>1, <3>2 DEF PubSubTypeOK
    <3> QED
      BY <2>1, <3>3 DEF HandlerKill, PubSubTypeOK
  <2>2. CASE ~ (killed < Len(Known))
    BY <2>2 DEF HandlerKill, PubSubTypeOK
  <2> QED
    BY <2>1, <2>2
<1>2. bpc' \in {"h_kill", "h_remove"} /\ bpc = "h_kill"
  BY DEF HandlerKill
<1>3. PubSubTypeOK'
  BY <1>1, <1>2 DEF PubSubTypeOK, HandlerKill, tables, Working
<1>4. Places'
  BY <1>2 DEF Places, HandlerKill
<1>5. EnteredOnce'
  BY <1>2 DEF EnteredOnce, HandlerKill, tables
<1> QED
  BY <1>3, <1>4, <1>5

\* The broker takes a command that is addressed to it.
LEMMA TableReceive ==
    ASSUME TableInv, BrokerReceive
    PROVE  TableInv'
<1> USE DEF TableInv
<1>1. PICK k \in DOMAIN queue : Oldest(k, TheBroker) /\ msg' = queue[k] /\ Take(k)
  BY DEF BrokerReceive
<1>2. queue' \in Seq(Posted) /\ queue[k] \in Posted
  BY <1>1, TakeTyped DEF PubSubTypeOK
<1>3. PubSubTypeOK'
  BY <1>1, <1>2 DEF PubSubTypeOK, BrokerReceive, Oldest, tables, clientVars, Working
<1>4. Places'
  BY <1>1 DEF Places, BrokerReceive, Oldest, tables, clientVars
<1>5. EnteredOnce'
  BY DEF EnteredOnce, BrokerReceive, tables, clientVars
<1> QED
  BY <1>3, <1>4, <1>5

\* Nobody is entered twice in a table.
LEMMA AddedOnce ==
    ASSUME NEW S, NEW table \in Seq(S), NEW entry \in S, NEW limit
    PROVE  /\ AddOnce(table, entry, limit) \in Seq(S)
           /\ (\A j, k \in 1 .. Len(table) : table[j] = table[k] => j = k) =>
                 \A j, k \in 1 .. Len(AddOnce(table, entry, limit)) :
                     AddOnce(table, entry, limit)[j] = AddOnce(table, entry, limit)[k] => j = k
           /\ \A k \in 1 .. Len(table) : /\ k \in 1 .. Len(AddOnce(table, entry, limit))
                                         /\ AddOnce(table, entry, limit)[k] = table[k]
<1>1. CASE (\A k \in DOMAIN table : table[k] # entry) /\ Len(table) < limit
  <2>1. AddOnce(table, entry, limit) = Append(table, entry)
    BY <1>1 DEF AddOnce
  <2> QED
    BY <1>1, <2>1
<1>2. CASE ~ ((\A k \in DOMAIN table : table[k] # entry) /\ Len(table) < limit)
  <2>1. AddOnce(table, entry, limit) = table
    BY <1>2 DEF AddOnce
  <2> QED
    BY <2>1
<1> QED
  BY <1>1, <1>2

\* The broker acts on a command: entries are added and none is removed, and a line leaves the table as it is.
LEMMA TableHandle ==
    ASSUME TableInv, Handle
    PROVE  /\ TableInv' /\ bpc = "handle"
           /\ \A k \in 1 .. Len(subs) : k \in 1 .. Len(subs') /\ subs'[k] = subs[k]
           /\ msg.command = "send" => subs' = subs
<1> USE DEF TableInv
<1>1. /\ msg \in Posted /\ msg.to = TheBroker /\ bpc = "handle"
      /\ msg.command \in {"register", "subscribe", "send"}
      /\ msg.command = "subscribe" => msg.pid \in Subscribers
      /\ msg.command # "subscribe" => msg.pid \in Publishers
      /\ msg.topic \in Topics
  BY DEF Handle, PubSubTypeOK, Posted
<1>2. /\ subs' = IF msg.command = "subscribe" THEN AddOnce(subs, <<msg.pid, msg.topic>>, MaxSubs) ELSE subs
      /\ pubs' = IF msg.command = "register" THEN AddOnce(pubs, msg.pid, MaxPubs) ELSE pubs
      /\ found' = IF msg.command = "send" THEN find_subscribers(msg.topic) ELSE {}
      /\ bpc' = IF found' = {} THEN "rcv" ELSE "send"
      /\ UNCHANGED <<exists, queue, msg, killed, pc, signalled, typed, topic, got>>
  BY <1>1 DEF Handle, clientVars
<1>3. subs \in Seq(Subscribers \X Topics) /\ pubs \in Seq(Publishers)
      /\ \A j, k \in 1 .. Len(subs) : subs[j] = subs[k] => j = k
  BY DEF PubSubTypeOK, EnteredOnce
<1>4. /\ subs' \in Seq(Subscribers \X Topics)
      /\ \A j, k \in 1 .. Len(subs') : subs'[j] = subs'[k] => j = k
      /\ \A k \in 1 .. Len(subs) : k \in 1 .. Len(subs') /\ subs'[k] = subs[k]
  <2>1. CASE msg.command = "subscribe"
    <3>1. <<msg.pid, msg.topic>> \in Subscribers \X Topics
      BY <1>1, <2>1
    <3>2. PICK S : S = Subscribers \X Topics
      OBVIOUS
    <3>3. PICK entry \in S : entry = <<msg.pid, msg.topic>>
      BY <3>1, <3>2
    <3>4. subs \in Seq(S) /\ subs' = AddOnce(subs, entry, MaxSubs)
      BY <1>2, <1>3, <2>1, <3>2, <3>3
    <3>5. AddOnce(subs, entry, MaxSubs) \in Seq(S)
      BY <3>4, AddedOnce
    <3>6. \A j, k \in 1 .. Len(AddOnce(subs, entry, MaxSubs)) :
             AddOnce(subs, entry, MaxSubs)[j] = AddOnce(subs, entry, MaxSubs)[k] => j = k
      BY <1>3, <3>4, AddedOnce
    <3>7. \A k \in 1 .. Len(subs) : /\ k \in 1 .. Len(AddOnce(subs, entry, MaxSubs))
                                    /\ AddOnce(subs, entry, MaxSubs)[k] = subs[k]
      BY <3>4, AddedOnce
    <3> QED
      BY <3>2, <3>4, <3>5, <3>6, <3>7
  <2>2. CASE msg.command # "subscribe"
    BY <1>2, <1>3, <2>2
  <2> QED
    BY <2>1, <2>2
<1>5. pubs' \in Seq(Publishers)
  <2>1. CASE msg.command = "register"
    <3>1. msg.pid \in Publishers
      BY <1>1, <2>1
    <3> QED
      BY <1>2, <1>3, <2>1, <3>1, AddedOnce
  <2>2. CASE msg.command # "register"
    BY <1>2, <1>3, <2>2
  <2> QED
    BY <2>1, <2>2
<1>6. /\ found' \subseteq 1 .. Len(subs')
      /\ found' # {} => msg.command = "send" /\ subs' = subs /\ \A k \in found' : subs'[k][2] = msg.topic
  <2>1. CASE msg.command = "send"
    <3>1. subs' = subs /\ found' = {k \in 1 .. Len(subs) : subs[k][2] = msg.topic}
      BY <1>2, <1>3, <2>1 DEF find_subscribers
    <3> QED
      BY <2>1, <3>1
  <2>2. CASE msg.command # "send"
    BY <1>2, <2>2
  <2> QED
    BY <2>1, <2>2
<1>7. PubSubTypeOK'
  BY <1>1, <1>2, <1>4, <1>5, <1>6 DEF PubSubTypeOK, Working
<1>8. Places'
  BY <1>1, <1>2 DEF Places
<1>9. EnteredOnce'
  BY <1>2, <1>4, <1>6 DEF EnteredOnce
<1> QED
  BY <1>1, <1>2, <1>4, <1>7, <1>8, <1>9

\* The broker sends one copy.
LEMMA TableSend ==
    ASSUME TableInv, BrokerSend
    PROVE  TableInv'
<1> USE DEF TableInv
<1>1. PICK k \in found : Put(Copy(subs[k][1], msg)) /\ found' = found \ {k}
  BY DEF BrokerSend
<1>2. bpc = "send" /\ msg \in Posted /\ msg.command = "send" /\ subs[k][1] \in Subscribers
  BY <1>1 DEF BrokerSend, PubSubTypeOK
<1>3. queue' \in Seq(Posted)
  BY <1>1, <1>2, CommandsArePosted, PutTyped DEF PubSubTypeOK
<1>4. PubSubTypeOK'
  BY <1>1, <1>2, <1>3 DEF PubSubTypeOK, BrokerSend, tables, clientVars, Working
<1>5. Places'
  BY <1>2 DEF Places, BrokerSend, tables, clientVars
<1>6. EnteredOnce'
  BY <1>1, <1>2 DEF EnteredOnce, BrokerSend, tables, clientVars
<1> QED
  BY <1>4, <1>5, <1>6

\* The steps of a client that leave the queue alone.
LEMMA TableClient ==
    ASSUME TableInv, NEW c \in Clients,
           StartClient(c) \/ Signalled(c) \/ Interrupted(c)
           \/ (c \in Publishers /\ (TypeLine(c) \/ Quit(c))) \/ (c \in Subscribers /\ BrokerExited(c))
    PROVE  TableInv'
<1> USE DEF TableInv
<1>1. UNCHANGED <<exists, queue, bpc, msg, found, subs, pubs, killed, signalled, got>>
  BY DEF StartClient, Signalled, Interrupted, TypeLine, Quit, BrokerExited, brokerVars, tables
<1>2. Publishers \cap Subscribers = {} /\ Clients = Publishers \cup Subscribers
  BY BrokerAssumption DEF Clients
<1>3. /\ pc' \in [Clients -> {"start", "announce", "type", "send", "rcv", "unsub", "ended"}]
      /\ typed' \in [Publishers -> Nat] /\ topic' \in [Subscribers -> Nat]
  <2>1. \E l \in {"announce", "send", "unsub", "ended"} : pc' = [pc EXCEPT ![c] = l]
    BY DEF StartClient, Signalled, Interrupted, TypeLine, Quit, BrokerExited, Goto
  <2>2. typed' = typed \/ (c \in Publishers /\ typed' = [typed EXCEPT ![c] = @ + 1])
    BY DEF StartClient, Signalled, Interrupted, TypeLine, Quit, BrokerExited
  <2>3. topic' = topic \/ (c \in Subscribers /\ topic' = [topic EXCEPT ![c] = 0])
    BY DEF StartClient, Signalled, Interrupted, TypeLine, Quit, BrokerExited
  <2>4. pc' \in [Clients -> {"start", "announce", "type", "send", "rcv", "unsub", "ended"}]
    BY <2>1 DEF PubSubTypeOK
  <2>0. typed \in [Publishers -> Nat] /\ topic \in [Subscribers -> Nat]
    BY DEF PubSubTypeOK
  <2>5. typed' \in [Publishers -> Nat]
    BY <2>0, <2>2
  <2>6. topic' \in [Subscribers -> Nat]
    BY <2>0, <2>3
  <2> QED
    BY <2>4, <2>5, <2>6
<1>4. PubSubTypeOK'
  BY <1>1, <1>3 DEF PubSubTypeOK
<1>5. Places'
  <2>1. \A s \in Subscribers : pc'[s] = "unsub" => exists' = "removed"
    BY <1>1, <1>2 DEF Places, PubSubTypeOK, StartClient, Signalled, Interrupted, TypeLine, Quit, BrokerExited, Goto
  <2>2. ASSUME NEW p \in Publishers
        PROVE  /\ pc'[p] \in {"start", "announce"} => typed'[p] = 0
               /\ pc'[p] = "send" => typed'[p] # 0
               /\ pc'[p] \notin {"rcv", "unsub"}
    <3>1. CASE StartClient(c) \/ Signalled(c) \/ Interrupted(c) \/ (c \in Publishers /\ Quit(c))
      BY <1>2, <3>1 DEF Places, PubSubTypeOK, StartClient, Signalled, Interrupted, Quit, Goto
    <3>2. CASE c \in Publishers /\ TypeLine(c)
      BY <1>2, <3>2 DEF Places, PubSubTypeOK, TypeLine, Goto
    <3>3. CASE c \in Subscribers /\ BrokerExited(c)
      BY <1>2, <3>3 DEF Places, PubSubTypeOK, BrokerExited, Goto
    <3> QED
      BY <3>1, <3>2, <3>3
  <2> QED
    BY <1>1, <2>1, <2>2 DEF Places
<1>6. EnteredOnce'
  BY <1>1 DEF EnteredOnce
<1> QED
  BY <1>4, <1>5, <1>6

\* The commands of the clients.
LEMMA TableAnnounce ==
    ASSUME TableInv, NEW p \in Publishers, Announce(p) \/ PublisherSend(p)
    PROVE  TableInv'
<1> USE DEF TableInv
<1>1. UNCHANGED <<exists, bpc, msg, found, subs, pubs, killed, signalled, typed, topic, got>>
  BY DEF Announce, PublisherSend, brokerVars, tables
<1>2. Publishers \cap Subscribers = {} /\ Clients = Publishers \cup Subscribers
  BY BrokerAssumption DEF Clients
<1>3. PICK m \in Posted : PutOrEnd(p, m, "type")
  <2>1. CASE Announce(p)
    BY <2>1, CommandsArePosted DEF Announce
  <2>2. CASE PublisherSend(p)
    <3>1. typed[p] \in Nat \ {0}
      BY <2>2 DEF PublisherSend, Places, PubSubTypeOK
    <3> QED
      BY <2>2, <3>1, CommandsArePosted DEF PublisherSend
  <2> QED
    BY <2>1, <2>2
<1>4. queue' \in Seq(Posted) /\ \E l \in {"type", "ended"} : pc' = [pc EXCEPT ![p] = l]
  BY <1>3, PutTyped DEF PutOrEnd, Goto, PubSubTypeOK
<1>5. PubSubTypeOK'
  BY <1>1, <1>2, <1>4 DEF PubSubTypeOK
<1>6. Places'
  <2>1. PICK l \in {"type", "ended"} : pc' = [pc EXCEPT ![p] = l]
    BY <1>4
  <2> QED
    BY <1>1, <1>2, <2>1 DEF Places, PubSubTypeOK
<1>7. EnteredOnce'
  BY <1>1 DEF EnteredOnce
<1> QED
  BY <1>5, <1>6, <1>7

\* A subscriber's commands; the unsubscribe loop puts nothing into the queue.
LEMMA TableSubscribe ==
    ASSUME TableInv, NEW s \in Subscribers, SubscribeTo(s) \/ UnsubscribeFrom(s)
    PROVE  TableInv' /\ (UnsubscribeFrom(s) => queue' = queue)
<1> USE DEF TableInv
<1>1. UNCHANGED <<exists, bpc, msg, found, subs, pubs, killed, signalled, typed, got>>
  BY DEF SubscribeTo, UnsubscribeFrom, brokerVars, tables
<1>2. Publishers \cap Subscribers = {} /\ Clients = Publishers \cup Subscribers
  BY BrokerAssumption DEF Clients
<1>3. UnsubscribeFrom(s) => exists = "removed" /\ pc[s] = "unsub" /\ queue' = queue
                            /\ (pc' = pc \/ pc' = [pc EXCEPT ![s] = "ended"])
  BY DEF UnsubscribeFrom, Places, Goto
<1>4. SubscribeTo(s) => /\ queue' \in Seq(Posted)
                        /\ \E l \in {"announce", "ended", "rcv"} : pc' = [pc EXCEPT ![s] = l]
  <2> SUFFICES ASSUME SubscribeTo(s)
               PROVE  /\ queue' \in Seq(Posted)
                      /\ \E l \in {"announce", "ended", "rcv"} : pc' = [pc EXCEPT ![s] = l]
    OBVIOUS
  <2>1. CASE topic[s] < Len(TopicsOf[s])
    <3>1. Len(TopicsOf[s]) \in Nat /\ topic[s] \in Nat
      BY BrokerAssumption DEF PubSubTypeOK
    <3>2. topic[s] + 1 \in 1 .. Len(TopicsOf[s])
      BY <2>1, <3>1
    <3>3. PICK m \in Posted : PutOrEnd(s, m, "announce")
      BY <2>1, <3>2, CommandsArePosted DEF SubscribeTo
    <3> QED
      BY <3>3, PutTyped DEF PutOrEnd, Goto, PubSubTypeOK
  <2>2. CASE ~ (topic[s] < Len(TopicsOf[s]))
    BY <2>2 DEF SubscribeTo, Goto, PubSubTypeOK
  <2> QED
    BY <2>1, <2>2
<1>5. topic' \in [Subscribers -> Nat]
  <2>1. topic' = topic \/ topic' = [topic EXCEPT ![s] = @ + 1]
    BY DEF SubscribeTo, UnsubscribeFrom
  <2>2. topic \in [Subscribers -> Nat]
    BY DEF PubSubTypeOK
  <2> QED
    BY <2>1, <2>2
<1>6. PICK l \in {"announce", "ended", "rcv", "unsub"} :
         pc' = [pc EXCEPT ![s] = l] /\ (l = "unsub" => exists = "removed")
  <2>1. pc = [pc EXCEPT ![s] = pc[s]]
    BY <1>2 DEF PubSubTypeOK
  <2> QED
    BY <1>3, <1>4, <2>1
<1>7. queue' \in Seq(Posted)
  BY <1>3, <1>4 DEF PubSubTypeOK
<1>8. PubSubTypeOK'
  BY <1>1, <1>2, <1>5, <1>6, <1>7 DEF PubSubTypeOK
<1>9. Places'
  BY <1>1, <1>2, <1>6 DEF Places, PubSubTypeOK
<1>10. EnteredOnce'
  BY <1>1 DEF EnteredOnce
<1> QED
  BY <1>3, <1>8, <1>9, <1>10

\* A subscriber receives what is addressed to it.
LEMMA TableDelivery ==
    ASSUME TableInv, NEW s \in Subscribers, SubscriberReceive(s)
    PROVE  TableInv'
<1> USE DEF TableInv
<1>1. PICK k \in DOMAIN queue : /\ Oldest(k, s)
                                /\ got' = [got EXCEPT ![s] = Append(@, queue[k])] /\ Take(k)
  BY DEF SubscriberReceive
<1>2. queue' \in Seq(Posted) /\ queue[k] \in Posted /\ queue[k].to = s
  BY <1>1, TakeTyped DEF PubSubTypeOK, Oldest
<1>3. got' \in [Subscribers -> Seq(Posted)]
  BY <1>1, <1>2 DEF PubSubTypeOK
<1>4. ASSUME NEW r \in Subscribers, NEW j \in 1 .. Len(got'[r]) PROVE got'[r][j].to = r
  <2>1. CASE r = s
    <3>1. got'[s] = Append(got[s], queue[k]) /\ got[s] \in Seq(Posted)
      BY <1>1 DEF PubSubTypeOK
    <3>2. j \in 1 .. Len(got[s]) \/ j = Len(got[s]) + 1
      BY <2>1, <3>1
    <3>3. \A l \in 1 .. Len(got[s]) : got[s][l].to = s
      BY DEF PubSubTypeOK
    <3> QED
      BY <1>2, <2>1, <3>1, <3>2, <3>3
  <2>2. CASE r # s
    BY <1>1, <2>2 DEF PubSubTypeOK
  <2> QED
    BY <2>1, <2>2
<1>5. UNCHANGED <<exists, bpc, msg, found, subs, pubs, killed, pc, signalled, typed, topic>>
  BY DEF SubscriberReceive, brokerVars, tables
<1>6. PubSubTypeOK'
  BY <1>2, <1>3, <1>4, <1>5 DEF PubSubTypeOK
<1>7. Places'
  BY <1>5 DEF Places
<1>8. EnteredOnce'
  BY <1>5 DEF EnteredOnce
<1> QED
  BY <1>6, <1>7, <1>8

\* Every step keeps the types, the places and the table.
LEMMA TableNext == TableInv /\ [PubSubNext]_pubSubVars => TableInv'
<1> SUFFICES ASSUME TableInv, [PubSubNext]_pubSubVars PROVE TableInv'
  OBVIOUS
<1>1. CASE UNCHANGED pubSubVars
  BY <1>1 DEF TableInv, PubSubTypeOK, Places, EnteredOnce, pubSubVars
<1>2. CASE BrokerStep \/ BrokerInterrupt
  BY <1>2, TableBroker, TableKill, TableReceive, TableHandle, TableSend DEF BrokerStep
<1>3. ASSUME NEW p \in Publishers, PublisherStep(p) \/ TypeLine(p) \/ Quit(p) PROVE TableInv'
  <2>1. p \in Clients
    BY DEF Clients
  <2> QED
    BY <1>3, <2>1, TableClient, TableAnnounce DEF PublisherStep
<1>4. ASSUME NEW s \in Subscribers, SubscriberStep(s) PROVE TableInv'
  <2>1. s \in Clients
    BY DEF Clients
  <2> QED
    BY <1>4, <2>1, TableClient, TableSubscribe, TableDelivery DEF SubscriberStep
<1>5. ASSUME NEW c \in Clients, Signalled(c) \/ Interrupted(c) PROVE TableInv'
  BY <1>5, TableClient
<1> QED
  BY <1>1, <1>2, <1>3, <1>4, <1>5 DEF PubSubNext

-----------------------------------------------------------------------------
(***************************************************************************)
(* The flows in every step.                                                *)
(***************************************************************************)
\* The stages are sets of numbers.
LEMMA StagesTyped ==
    ASSUME NEW s, NEW p, NEW q
    PROVE  /\ Numbers(q, s, p) \in SUBSET Nat /\ BeingSent(s, p) \in SUBSET Nat
           /\ InHand(p) \in SUBSET Nat /\ Numbers(<<>>, s, p) = {}
BY DEF Numbers, BeingSent, InHand

\* At the start no line is on its way.
LEMMA FlowsInit == PubSubInit => FlowInv
<1> SUFFICES ASSUME PubSubInit, NEW s \in Subscribers PROVE FlowTo(s)
  BY DEF FlowInv
<1>1. Ascending(<<>>) /\ queue = <<>> /\ got[s] = <<>>
  BY DEF PubSubInit, Ascending
<1>2. ASSUME NEW p \in Publishers PROVE Flows(s, p) /\ Entered(s, p)
  <2>1. /\ Numbers(got[s], s, p) = {} /\ Numbers(queue, s, p) = {} /\ Numbers(queue, TheBroker, p) = {}
        /\ BeingSent(s, p) = {} /\ InHand(p) = {}
    BY <1>1 DEF Numbers, BeingSent, InHand, PubSubInit
  <2>2. {} \cup {} \cup {} = {} /\ {} \cup {} \cup {} \cup {} \cup {} = {}
    OBVIOUS
  <2>3. Flows(s, p)
    BY <2>1, <2>2 DEF Flows, FlowOK, Below, NoGap
  <2>4. Entered(s, p)
    BY <2>1, <2>2 DEF Entered
  <2> QED
    BY <2>3, <2>4
<1> QED
  BY <1>1, <1>2 DEF FlowTo

\* A step of a client: the broker stays where it is.
LEMMA FlowClients ==
    ASSUME FlowInv, NEW s \in Subscribers, Ascending(queue'), Ascending(got'[s]),
           UNCHANGED <<bpc, msg, found, subs>>,
           \A p \in Publishers :
              /\ Numbers(got'[s], s, p) \cup Numbers(queue', s, p) = Numbers(got[s], s, p) \cup Numbers(queue, s, p)
              /\ FlowOK(Numbers(got'[s], s, p), Numbers(queue', s, p), BeingSent(s, p), InHand(p),
                        Numbers(queue', TheBroker, p), bpc \in Working, pc'[p], typed'[p])
    PROVE  FlowTo(s)'
<1>1. ASSUME NEW p \in Publishers PROVE Flows(s, p)' /\ Entered(s, p)'
  <2>1. BeingSent(s, p)' = BeingSent(s, p) /\ InHand(p)' = InHand(p)
    BY DEF BeingSent, InHand
  <2>2. Flows(s, p)'
    BY <2>1 DEF Flows
  <2>3. Entered(s, p)
    BY DEF FlowInv, FlowTo
  <2>4. Entered(s, p)'
    BY <2>1, <2>3 DEF Entered
  <2> QED
    BY <2>2, <2>4
<1> QED
  BY <1>1 DEF FlowTo

\* A step of a client that moves no line.
LEMMA FlowQuiet ==
    ASSUME TableInv, FlowInv, NEW s \in Subscribers, Ascending(queue'),
           \A c, p : Numbers(queue', c, p) = Numbers(queue, c, p),
           UNCHANGED <<got, bpc, msg, found, subs>>,
           \A p \in Publishers : \/ pc'[p] = pc[p] /\ typed'[p] = typed[p]
                                 \/ pc'[p] = "ended" /\ typed'[p] = typed[p]
                                 \/ pc[p] = "type" /\ pc'[p] = "send" /\ typed'[p] = typed[p] + 1
                                 \/ typed[p] = 0 /\ typed'[p] = 0 /\ pc'[p] \in {"announce", "type"}
    PROVE  FlowTo(s)'
<1>1. ASSUME NEW p \in Publishers
      PROVE  FlowOK(Numbers(got[s], s, p), Numbers(queue, s, p), BeingSent(s, p), InHand(p),
                    Numbers(queue, TheBroker, p), bpc \in Working, pc'[p], typed'[p])
  <2>1. FlowOK(Numbers(got[s], s, p), Numbers(queue, s, p), BeingSent(s, p), InHand(p),
               Numbers(queue, TheBroker, p), bpc \in Working, pc[p], typed[p])
    BY DEF FlowInv, FlowTo, Flows
  <2>2. PICK a \in SUBSET Nat, b \in SUBSET Nat, c \in SUBSET Nat, d \in SUBSET Nat, e \in SUBSET Nat :
           a = Numbers(got[s], s, p) /\ b = Numbers(queue, s, p) /\ c = BeingSent(s, p)
           /\ d = InHand(p) /\ e = Numbers(queue, TheBroker, p)
    BY StagesTyped
  <2>3. typed[p] \in Nat
    BY DEF TableInv, PubSubTypeOK
  <2>4. FlowOK(a, b, c, d, e, bpc \in Working, pc[p], typed[p])
    BY <2>1, <2>2
  <2>5. /\ pc[p] = "type" => FlowOK(a, b, c, d, e, bpc \in Working, "send", typed[p] + 1)
        /\ FlowOK(a, b, c, d, e, bpc \in Working, "ended", typed[p])
        /\ typed[p] = 0 => /\ FlowOK(a, b, c, d, e, bpc \in Working, "announce", typed[p])
                           /\ FlowOK(a, b, c, d, e, bpc \in Working, "type", typed[p])
    BY <2>3, <2>4, FlowAwaits
  <2>6. FlowOK(a, b, c, d, e, bpc \in Working, pc'[p], typed'[p])
    BY <2>4, <2>5
  <2> QED
    BY <2>2, <2>6
<1>2. Ascending(got'[s])
  BY DEF FlowInv, FlowTo
<1>3. \A p \in Publishers :
         /\ Numbers(got'[s], s, p) \cup Numbers(queue', s, p) = Numbers(got[s], s, p) \cup Numbers(queue, s, p)
         /\ FlowOK(Numbers(got'[s], s, p), Numbers(queue', s, p), BeingSent(s, p), InHand(p),
                   Numbers(queue', TheBroker, p), bpc \in Working, pc'[p], typed'[p])
  BY <1>1
<1> QED
  BY <1>2, <1>3, FlowClients

\* The clients that leave the queue alone.
LEMMA FlowsClient ==
    ASSUME TableInv, FlowInv, NEW c \in Clients,
           StartClient(c) \/ Signalled(c) \/ Interrupted(c)
           \/ (c \in Publishers /\ (TypeLine(c) \/ Quit(c)))
           \/ (c \in Subscribers /\ (BrokerExited(c) \/ UnsubscribeFrom(c)))
    PROVE  FlowInv'
<1> SUFFICES ASSUME NEW s \in Subscribers PROVE FlowTo(s)'
  BY DEF FlowInv
<1>1. UNCHANGED <<got, bpc, msg, found, subs>>
  BY DEF StartClient, Signalled, Interrupted, TypeLine, Quit, BrokerExited, UnsubscribeFrom, brokerVars, tables
<1>2. queue' = queue
  <2>1. c \in Subscribers /\ UnsubscribeFrom(c) => queue' = queue
    BY TableSubscribe
  <2> QED
    BY <2>1 DEF StartClient, Signalled, Interrupted, TypeLine, Quit, BrokerExited
<1>3. Publishers \cap Subscribers = {} /\ Clients = Publishers \cup Subscribers
  BY BrokerAssumption DEF Clients
<1>4. ASSUME NEW p \in Publishers
      PROVE  \/ pc'[p] = pc[p] /\ typed'[p] = typed[p]
             \/ pc'[p] = "ended" /\ typed'[p] = typed[p]
             \/ pc[p] = "type" /\ pc'[p] = "send" /\ typed'[p] = typed[p] + 1
             \/ typed[p] = 0 /\ typed'[p] = 0 /\ pc'[p] \in {"announce", "type"}
  <2>1. p \in Clients /\ pc \in [Clients -> {"start", "announce", "type", "send", "rcv", "unsub", "ended"}]
        /\ typed \in [Publishers -> Nat] /\ (pc[p] = "start" => typed[p] = 0)
    BY <1>3 DEF TableInv, PubSubTypeOK, Places
  <2>2. CASE StartClient(c)
    BY <2>1, <2>2 DEF StartClient, Goto
  <2>3. CASE Signalled(c) \/ Interrupted(c) \/ (c \in Publishers /\ Quit(c))
    BY <2>1, <2>3 DEF Signalled, Interrupted, Quit, Goto
  <2>4. CASE c \in Publishers /\ TypeLine(c)
    BY <2>1, <2>4 DEF TypeLine, Goto
  <2>5. CASE c \in Subscribers /\ (BrokerExited(c) \/ UnsubscribeFrom(c))
    BY <1>3, <2>1, <2>5 DEF BrokerExited, UnsubscribeFrom, Goto
  <2> QED
    BY <2>2, <2>3, <2>4, <2>5
<1>5. Ascending(queue')
  BY <1>2 DEF FlowInv, FlowTo
<1> QED
  BY <1>1, <1>2, <1>4, <1>5, FlowQuiet

\* A command without a line is put into the queue.
LEMMA FlowsCommand ==
    ASSUME TableInv, FlowInv, NEW s \in Subscribers, NEW m \in Posted, ~ Carries(m),
           queue' = Append(queue, m) \/ queue' = queue
    PROVE  Ascending(queue') /\ \A c, p : Numbers(queue', c, p) = Numbers(queue, c, p)
<1>1. queue \in Seq(Posted) /\ Ascending(queue)
  BY DEF TableInv, PubSubTypeOK, FlowInv, FlowTo
<1>2. Ascending(Append(queue, m)) /\ \A c, p : Numbers(Append(queue, m), c, p) = Numbers(queue, c, p)
  BY <1>1, LinesAppended
<1> QED
  BY <1>1, <1>2

\* A subscribe command moves no line.
LEMMA FlowsSubscribe ==
    ASSUME TableInv, FlowInv, NEW r \in Subscribers, SubscribeTo(r)
    PROVE  FlowInv'
<1> SUFFICES ASSUME NEW s \in Subscribers PROVE FlowTo(s)'
  BY DEF FlowInv
<1>1. UNCHANGED <<got, bpc, msg, found, subs, typed>>
  BY DEF SubscribeTo, brokerVars, tables
<1>2. queue' = queue \/ \E m \in Posted : ~ Carries(m) /\ queue' = Append(queue, m)
  <2>1. CASE topic[r] < Len(TopicsOf[r])
    <3>1. Len(TopicsOf[r]) \in Nat /\ topic[r] \in Nat
      BY BrokerAssumption DEF TableInv, PubSubTypeOK
    <3>2. topic[r] + 1 \in 1 .. Len(TopicsOf[r])
      BY <2>1, <3>1
    <3>3. PICK m \in Posted : m = Command("subscribe", r, TopicsOf[r][topic[r] + 1], 0)
      BY <3>2, CommandsArePosted
    <3>4. ~ Carries(m)
      BY <3>3 DEF Command, Carries
    <3>5. PutOrEnd(r, m, "announce")
      BY <2>1, <3>3 DEF SubscribeTo
    <3> QED
      BY <3>4, <3>5 DEF PutOrEnd, Put
  <2>2. CASE ~ (topic[r] < Len(TopicsOf[r]))
    BY <2>2 DEF SubscribeTo
  <2> QED
    BY <2>1, <2>2
<1>3. Ascending(queue') /\ \A c, p : Numbers(queue', c, p) = Numbers(queue, c, p)
  BY <1>2, FlowsCommand DEF FlowInv, FlowTo
<1>4. ASSUME NEW p \in Publishers PROVE pc'[p] = pc[p]
  <2>1. p # r /\ p \in Clients
    BY BrokerAssumption DEF Clients
  <2> QED
    BY <2>1 DEF SubscribeTo, PutOrEnd, Goto, TableInv, PubSubTypeOK
<1> QED
  BY <1>1, <1>3, <1>4, FlowQuiet

\* A register command moves no line.
LEMMA FlowsAnnounce ==
    ASSUME TableInv, FlowInv, NEW p \in Publishers, Announce(p)
    PROVE  FlowInv'
<1> SUFFICES ASSUME NEW s \in Subscribers PROVE FlowTo(s)'
  BY DEF FlowInv
<1>1. UNCHANGED <<got, bpc, msg, found, subs, typed>> /\ typed[p] = 0
  BY DEF Announce, brokerVars, tables, TableInv, Places
<1>2. PICK m \in Posted : m = Command("register", p, TopicOf[p], 0)
  BY CommandsArePosted
<1>3. ~ Carries(m) /\ PutOrEnd(p, m, "type")
  BY <1>2 DEF Announce, Command, Carries
<1>4. Ascending(queue') /\ \A c, q : Numbers(queue', c, q) = Numbers(queue, c, q)
  BY <1>3, FlowsCommand DEF PutOrEnd, Put
<1>5. ASSUME NEW q \in Publishers
      PROVE  pc'[q] = pc[q] \/ pc'[q] = "ended" \/ (typed[q] = 0 /\ pc'[q] = "type")
  BY <1>1, <1>3 DEF PutOrEnd, Goto, TableInv, PubSubTypeOK, Clients
<1> QED
  BY <1>1, <1>4, <1>5, FlowQuiet

\* A publisher sends a line.
LEMMA FlowsPublish ==
    ASSUME TableInv, FlowInv, NEW p \in Publishers, PublisherSend(p)
    PROVE  FlowInv'
<1> SUFFICES ASSUME NEW s \in Subscribers PROVE FlowTo(s)'
  BY DEF FlowInv
<1>1. UNCHANGED <<got, bpc, msg, found, subs, typed>> /\ pc[p] = "send" /\ typed[p] \in Nat \ {0}
  BY DEF PublisherSend, brokerVars, tables, TableInv, Places, PubSubTypeOK
<1>2. PICK m \in Posted : m = Command("send", p, TopicOf[p], typed[p])
  BY <1>1, CommandsArePosted
<1>3. Carries(m) /\ m.to = TheBroker /\ m.pid = p /\ m.payload = typed[p] /\ PutOrEnd(p, m, "type")
  BY <1>2 DEF PublisherSend, Command, Carries
<1>4. queue \in Seq(Posted) /\ Ascending(queue) /\ TheBroker # s
  BY BrokerAssumption DEF TableInv, PubSubTypeOK, FlowInv, FlowTo, Clients
<1>5. CASE exists = "removed" /\ Goto(p, "ended") /\ UNCHANGED queue
  <2>1. ASSUME NEW q \in Publishers PROVE pc'[q] = pc[q] \/ pc'[q] = "ended"
    BY <1>5 DEF Goto, TableInv, PubSubTypeOK, Clients
  <2> QED
    BY <1>1, <1>4, <1>5, <2>1, FlowQuiet
<1>6. CASE Put(m) /\ Goto(p, "type")
  <2>1. PICK a \in SUBSET Nat, b \in SUBSET Nat, c \in SUBSET Nat, d \in SUBSET Nat, e \in SUBSET Nat :
           a = Numbers(got[s], s, p) /\ b = Numbers(queue, s, p) /\ c = BeingSent(s, p)
           /\ d = InHand(p) /\ e = Numbers(queue, TheBroker, p)
    BY StagesTyped
  <2>2. FlowOK(a, b, c, d, e, bpc \in Working, "send", typed[p])
    BY <1>1, <2>1 DEF FlowInv, FlowTo, Flows
  <2>3. \A n \in e : n < typed[p]
    BY <2>2 DEF FlowOK
  <2>4. FlowOK(a, b, c, d, e \cup {typed[p]}, bpc \in Working, "type", typed[p])
    BY <1>1, <2>2, FlowBegins
  <2>5. /\ Ascending(Append(queue, m))
        /\ \A c1, p1 : /\ (IsLine(m, c1, p1) /\ Carries(m)) =>
                              Numbers(Append(queue, m), c1, p1) = Numbers(queue, c1, p1) \cup {m.payload}
                       /\ ~ (IsLine(m, c1, p1) /\ Carries(m)) =>
                              Numbers(Append(queue, m), c1, p1) = Numbers(queue, c1, p1)
    <3>1. Carries(m) => \A n \in Numbers(queue, m.to, m.pid) : n < m.payload
      BY <1>3, <2>1, <2>3
    <3> QED
      BY <1>4, <3>1, LinesAppended
  <2>6. queue' = Append(queue, m) /\ pc' = [pc EXCEPT ![p] = "type"]
    BY <1>6 DEF Put, Goto
  <2>7. \A q : Numbers(queue', s, q) = Numbers(queue, s, q)
    BY <1>3, <1>4, <2>5, <2>6 DEF IsLine
  <2>8. ASSUME NEW q \in Publishers
        PROVE  FlowOK(Numbers(got[s], s, q), Numbers(queue, s, q), BeingSent(s, q), InHand(q),
                      Numbers(queue', TheBroker, q), bpc \in Working, pc'[q], typed[q])
    <3>1. CASE q = p
      <4>1. Numbers(queue', TheBroker, p) = e \cup {typed[p]}
        BY <1>3, <2>1, <2>5, <2>6 DEF IsLine
      <4>2. pc'[p] = "type"
        BY <2>6 DEF TableInv, PubSubTypeOK, Clients
      <4> QED
        BY <2>1, <2>4, <3>1, <4>1, <4>2
    <3>2. CASE q # p
      <4>1. Numbers(queue', TheBroker, q) = Numbers(queue, TheBroker, q)
        BY <1>3, <2>5, <2>6, <3>2 DEF IsLine
      <4>2. pc'[q] = pc[q]
        BY <2>6, <3>2 DEF TableInv, PubSubTypeOK, Clients
      <4> QED
        BY <4>1, <4>2 DEF FlowInv, FlowTo, Flows
    <3> QED
      BY <3>1, <3>2
  <2>9. \A q \in Publishers :
           /\ Numbers(got'[s], s, q) \cup Numbers(queue', s, q) = Numbers(got[s], s, q) \cup Numbers(queue, s, q)
           /\ FlowOK(Numbers(got'[s], s, q), Numbers(queue', s, q), BeingSent(s, q), InHand(q),
                     Numbers(queue', TheBroker, q), bpc \in Working, pc'[q], typed'[q])
    BY <1>1, <2>7, <2>8
  <2>10. Ascending(queue') /\ Ascending(got'[s])
    BY <1>1, <2>5, <2>6 DEF FlowInv, FlowTo
  <2> QED
    BY <1>1, <2>9, <2>10, FlowClients
<1> QED
  BY <1>3, <1>5, <1>6 DEF PutOrEnd

\* What a subscriber takes is the first line of its publisher.
LEMMA FlowsDelivery ==
    ASSUME TableInv, FlowInv, NEW r \in Subscribers, SubscriberReceive(r)
    PROVE  FlowInv'
<1> SUFFICES ASSUME NEW s \in Subscribers PROVE FlowTo(s)'
  BY DEF FlowInv
<1>1. PICK k \in DOMAIN queue : /\ Oldest(k, r)
                                /\ got' = [got EXCEPT ![r] = Append(@, queue[k])] /\ Take(k)
  BY DEF SubscriberReceive
<1>2. UNCHANGED <<bpc, msg, found, subs, pc, typed>>
  BY DEF SubscriberReceive, brokerVars, tables
<1>3. queue \in Seq(Posted) /\ Ascending(queue) /\ TheBroker # s /\ TheBroker # r
      /\ got \in [Subscribers -> Seq(Posted)]
  BY BrokerAssumption DEF TableInv, PubSubTypeOK, FlowInv, FlowTo, Clients
<1>4. k \in 1 .. Len(queue) /\ queue[k].to = r /\ queue' = Without(queue, k)
      /\ \A j \in 1 .. k - 1 : queue[j].to # r
  BY <1>1, <1>3 DEF Oldest, Take
<1>5. PICK m \in Posted : m = queue[k]
  BY <1>3, <1>4
<1>6. Carries(m) /\ m.to = r /\ m.pid \in Publishers /\ m.payload \in Nat
  BY <1>3, <1>4, <1>5 DEF Posted, Carries
<1>7. Ascending(queue')
  BY <1>3, <1>4, LinesWithout
<1>8. \A p : Numbers(queue', TheBroker, p) = Numbers(queue, TheBroker, p)
  <2>1. ASSUME NEW p PROVE Numbers(queue', TheBroker, p) = Numbers(queue, TheBroker, p)
    <3>1. ~ IsLine(queue[k], TheBroker, p)
      BY <1>3, <1>4 DEF IsLine
    <3> QED
      BY <1>3, <1>4, <3>1, LinesWithout
  <2> QED
    BY <2>1
<1>9. ASSUME NEW c, NEW p, c # r \/ p # m.pid PROVE Numbers(queue', c, p) = Numbers(queue, c, p)
  <2>1. ~ IsLine(queue[k], c, p)
    BY <1>4, <1>5, <1>9 DEF IsLine
  <2> QED
    BY <1>3, <1>4, <2>1, LinesWithout
<1>10. CASE s # r
  <2>1. got'[s] = got[s] /\ Ascending(got[s])
    BY <1>1, <1>3, <1>10 DEF FlowInv, FlowTo
  <2>2. ASSUME NEW p \in Publishers
        PROVE  /\ Numbers(got'[s], s, p) \cup Numbers(queue', s, p) = Numbers(got[s], s, p) \cup Numbers(queue, s, p)
               /\ FlowOK(Numbers(got'[s], s, p), Numbers(queue', s, p), BeingSent(s, p), InHand(p),
                         Numbers(queue', TheBroker, p), bpc \in Working, pc'[p], typed'[p])
    <3>1. Numbers(queue', s, p) = Numbers(queue, s, p)
      BY <1>9, <1>10
    <3> QED
      BY <1>2, <1>8, <2>1, <3>1 DEF FlowInv, FlowTo, Flows
  <2> QED
    BY <1>2, <1>7, <2>1, <2>2, FlowClients
<1>11. CASE s = r
  <2>1. PICK a \in SUBSET Nat, b \in SUBSET Nat, c \in SUBSET Nat, d \in SUBSET Nat, e \in SUBSET Nat :
           a = Numbers(got[s], s, m.pid) /\ b = Numbers(queue, s, m.pid) /\ c = BeingSent(s, m.pid)
           /\ d = InHand(m.pid) /\ e = Numbers(queue, TheBroker, m.pid)
    BY StagesTyped
  <2>2. FlowOK(a, b, c, d, e, bpc \in Working, pc[m.pid], typed[m.pid])
    BY <1>6, <2>1 DEF FlowInv, FlowTo, Flows
  <2>3. IsLine(queue[k], s, m.pid) /\ Carries(queue[k])
    BY <1>4, <1>5, <1>6, <1>11 DEF IsLine
  <2>4. m.payload \in b /\ \A n \in b : n # m.payload => m.payload < n
    BY <1>3, <1>4, <1>5, <1>11, <2>1, <2>3, OldestIsFirst
  <2>5. typed[m.pid] \in Nat
    BY <1>6 DEF TableInv, PubSubTypeOK
  <2>6. FlowOK(a \cup {m.payload}, b \ {m.payload}, c, d, e, bpc \in Working, pc[m.pid], typed[m.pid])
    BY <2>2, <2>4, <2>5, FlowReceives
  <2>7. Numbers(queue', s, m.pid) = b \ {m.payload}
    BY <1>3, <1>4, <1>5, <2>1, <2>3, LinesWithout
  <2>8. got'[s] = Append(got[s], m) /\ got[s] \in Seq(Posted) /\ Ascending(got[s])
    BY <1>1, <1>3, <1>5, <1>11 DEF FlowInv, FlowTo
  <2>9. \A n \in a : n < m.payload
    BY <2>2, <2>4 DEF FlowOK, Below
  <2>10. /\ Ascending(got'[s])
         /\ \A c1, p1 : /\ (IsLine(m, c1, p1) /\ Carries(m)) =>
                              Numbers(got'[s], c1, p1) = Numbers(got[s], c1, p1) \cup {m.payload}
                        /\ ~ (IsLine(m, c1, p1) /\ Carries(m)) =>
                              Numbers(got'[s], c1, p1) = Numbers(got[s], c1, p1)
    <3>1. Carries(m) => \A n \in Numbers(got[s], m.to, m.pid) : n < m.payload
      BY <1>6, <1>11, <2>1, <2>9
    <3> QED
      BY <2>8, <3>1, LinesAppended
  <2>11. Numbers(got'[s], s, m.pid) = a \cup {m.payload}
    BY <1>5, <2>1, <2>3, <2>10
  <2>12. ASSUME NEW p \in Publishers
         PROVE  /\ Numbers(got'[s], s, p) \cup Numbers(queue', s, p) = Numbers(got[s], s, p) \cup Numbers(queue, s, p)
                /\ FlowOK(Numbers(got'[s], s, p), Numbers(queue', s, p), BeingSent(s, p), InHand(p),
                          Numbers(queue', TheBroker, p), bpc \in Working, pc'[p], typed'[p])
    <3>1. CASE p = m.pid
      <4>1. (a \cup {m.payload}) \cup (b \ {m.payload}) = a \cup b
        BY <2>4
      <4>2. Numbers(queue', TheBroker, p) = e
        BY <1>8, <2>1, <3>1
      <4>3. FlowOK(Numbers(got'[s], s, p), Numbers(queue', s, p), BeingSent(s, p), InHand(p),
                   Numbers(queue', TheBroker, p), bpc \in Working, pc'[p], typed'[p])
        BY <1>2, <2>1, <2>6, <2>7, <2>11, <3>1, <4>2
      <4> QED
        BY <2>1, <2>7, <2>11, <3>1, <4>1, <4>3
    <3>2. CASE p # m.pid
      <4>1. Numbers(queue', s, p) = Numbers(queue, s, p)
        BY <1>9, <3>2
      <4>2. Numbers(got'[s], s, p) = Numbers(got[s], s, p)
        BY <2>10, <3>2 DEF IsLine
      <4> QED
        BY <1>2, <1>8, <4>1, <4>2 DEF FlowInv, FlowTo, Flows
    <3> QED
      BY <3>1, <3>2
  <2> QED
    BY <1>2, <1>7, <2>10, <2>12, FlowClients
<1> QED
  BY <1>10, <1>11

\* A step of the broker: the clients stay where they are.
LEMMA FlowBroker ==
    ASSUME FlowInv, NEW s \in Subscribers, Ascending(queue'), UNCHANGED <<got, pc, typed>>,
           \A k \in 1 .. Len(subs) : k \in 1 .. Len(subs') /\ subs'[k] = subs[k],
           \A p \in Publishers :
              /\ Numbers(queue', s, p) \cup BeingSent(s, p)' \subseteq Numbers(queue, s, p) \cup BeingSent(s, p)
                 \/ \E k \in 1 .. Len(subs) : subs[k] = <<s, TopicOf[p]>>
              /\ FlowOK(Numbers(got[s], s, p), Numbers(queue', s, p), BeingSent(s, p)', InHand(p)',
                        Numbers(queue', TheBroker, p), bpc' \in Working, pc[p], typed[p])
    PROVE  FlowTo(s)'
<1>1. ASSUME NEW p \in Publishers PROVE Flows(s, p)' /\ Entered(s, p)'
  <2>1. Flows(s, p)'
    BY DEF Flows
  <2>2. Entered(s, p)
    BY DEF FlowInv, FlowTo
  <2>3. (Numbers(got[s], s, p) \cup Numbers(queue', s, p) \cup BeingSent(s, p)' # {}) =>
           \E k \in 1 .. Len(subs) : subs[k] = <<s, TopicOf[p]>>
    BY <2>2 DEF Entered
  <2>4. (\E k \in 1 .. Len(subs) : subs[k] = <<s, TopicOf[p]>>) =>
           \E k \in 1 .. Len(subs') : subs'[k] = <<s, TopicOf[p]>>
    OBVIOUS
  <2>5. Entered(s, p)'
    BY <2>3, <2>4 DEF Entered
  <2> QED
    BY <2>1, <2>5
<1>2. Ascending(got'[s])
  BY DEF FlowInv, FlowTo
<1> QED
  BY <1>1, <1>2 DEF FlowTo

\* The steps that send nothing.
LEMMA FlowsIdle ==
    ASSUME TableInv, FlowInv, Create \/ Install \/ BrokerInterrupt \/ HandlerKill \/ HandlerRemove
    PROVE  FlowInv'
<1> SUFFICES ASSUME NEW s \in Subscribers PROVE FlowTo(s)'
  BY DEF FlowInv
<1>1. UNCHANGED <<got, pc, typed, subs>>
  BY DEF Create, Install, BrokerInterrupt, HandlerKill, HandlerRemove, tables, clientVars
<1>2. bpc' \notin {"handle", "send"}
  BY DEF Create, Install, BrokerInterrupt, HandlerKill, HandlerRemove
<1>3. \A p : BeingSent(s, p)' = {} /\ InHand(p)' = {}
  BY <1>2 DEF BeingSent, InHand
<1>4. Ascending(queue) /\ Ascending(<<>>)
  BY DEF FlowInv, FlowTo, Ascending
<1>5. ASSUME NEW p \in Publishers
      PROVE  FlowOK(Numbers(got[s], s, p), Numbers(queue', s, p), {}, {},
                    Numbers(queue', TheBroker, p), bpc' \in Working, pc[p], typed[p])
             /\ Numbers(queue', s, p) \subseteq Numbers(queue, s, p)
  <2>1. PICK a \in SUBSET Nat, b \in SUBSET Nat, c \in SUBSET Nat, d \in SUBSET Nat, e \in SUBSET Nat :
           a = Numbers(got[s], s, p) /\ b = Numbers(queue, s, p) /\ c = BeingSent(s, p)
           /\ d = InHand(p) /\ e = Numbers(queue, TheBroker, p)
    BY StagesTyped
  <2>2. FlowOK(a, b, c, d, e, bpc \in Working, pc[p], typed[p]) /\ typed[p] \in Nat
    BY <2>1 DEF FlowInv, FlowTo, Flows, TableInv, PubSubTypeOK
  <2>3. FlowOK(a, b, {}, {}, e, FALSE, pc[p], typed[p])
    BY <2>2, FlowIsCut
  <2>4. CASE HandlerRemove
    <3>1. queue' = <<>> /\ (bpc' \in Working) = FALSE
      BY <2>4 DEF HandlerRemove, Working
    <3>2. FlowOK(a, {}, {}, {}, {}, FALSE, pc[p], typed[p])
      BY <2>2, <2>3, FlowIsRemoved
    <3>3. Numbers(queue', s, p) = {} /\ Numbers(queue', TheBroker, p) = {}
      BY <3>1, StagesTyped
    <3> QED
      BY <2>1, <3>1, <3>2, <3>3
  <2>5. CASE BrokerInterrupt \/ HandlerKill \/ (Create /\ bpc' = "ended")
    <3>1. queue' = queue /\ (bpc' \in Working) = FALSE
      BY <2>5 DEF BrokerInterrupt, HandlerKill, Create, Working
    <3> QED
      BY <2>1, <2>3, <3>1
  <2>6. CASE Install \/ (Create /\ bpc' = "created")
    <3>1. queue' = queue /\ bpc' \in Working /\ bpc \in Working /\ bpc \notin {"handle", "send"}
      BY <2>6 DEF Install, Create, Working
    <3>2. c = {} /\ d = {}
      BY <2>1, <3>1 DEF BeingSent, InHand
    <3>3. (bpc' \in Working) = (bpc \in Working)
      BY <3>1
    <3> QED
      BY <2>1, <2>2, <3>1, <3>2, <3>3
  <2> QED
    BY <2>4, <2>5, <2>6 DEF Create
<1>6. Ascending(queue')
  BY <1>4 DEF Create, Install, BrokerInterrupt, HandlerKill, HandlerRemove
<1>7. \A p \in Publishers :
         /\ Numbers(queue', s, p) \cup BeingSent(s, p)' \subseteq Numbers(queue, s, p) \cup BeingSent(s, p)
            \/ \E k \in 1 .. Len(subs) : subs[k] = <<s, TopicOf[p]>>
         /\ FlowOK(Numbers(got[s], s, p), Numbers(queue', s, p), BeingSent(s, p)', InHand(p)',
                   Numbers(queue', TheBroker, p), bpc' \in Working, pc[p], typed[p])
  BY <1>3, <1>5
<1> QED
  BY <1>1, <1>6, <1>7, FlowBroker

\* What the broker takes is the first command of its client.
LEMMA FlowsReceive ==
    ASSUME TableInv, FlowInv, BrokerReceive
    PROVE  FlowInv'
<1> SUFFICES ASSUME NEW s \in Subscribers PROVE FlowTo(s)'
  BY DEF FlowInv
<1>1. PICK k \in DOMAIN queue : Oldest(k, TheBroker) /\ msg' = queue[k] /\ Take(k)
  BY DEF BrokerReceive
<1>2. UNCHANGED <<got, pc, typed, subs>> /\ bpc = "rcv" /\ bpc' = "handle"
  BY DEF BrokerReceive, tables, clientVars
<1>3. queue \in Seq(Posted) /\ Ascending(queue) /\ TheBroker # s
  BY BrokerAssumption DEF TableInv, PubSubTypeOK, FlowInv, FlowTo, Clients
<1>4. k \in 1 .. Len(queue) /\ queue[k].to = TheBroker /\ queue' = Without(queue, k)
      /\ \A j \in 1 .. k - 1 : queue[j].to # TheBroker
  BY <1>1, <1>3 DEF Oldest, Take
<1>5. PICK m \in Posted : m = queue[k]
  BY <1>3, <1>4
<1>6. m = msg' /\ m.to = TheBroker /\ m.payload \in Nat /\ (Carries(m) <=> m.command = "send")
  BY <1>1, <1>4, <1>5 DEF Posted, Carries
<1>7. Ascending(queue')
  BY <1>3, <1>4, LinesWithout
<1>8. ASSUME NEW p PROVE Numbers(queue', s, p) = Numbers(queue, s, p)
  <2>1. ~ IsLine(queue[k], s, p)
    BY <1>3, <1>4 DEF IsLine
  <2> QED
    BY <1>3, <1>4, <2>1, LinesWithout
<1>9. ASSUME NEW p
      PROVE  /\ BeingSent(s, p)' = {} /\ BeingSent(s, p) = {} /\ InHand(p) = {}
             /\ InHand(p)' = IF m.command = "send" /\ m.pid = p THEN {m.payload} ELSE {}
  BY <1>2, <1>6 DEF BeingSent, InHand
<1>10. (bpc' \in Working) = (bpc \in Working)
  BY <1>2 DEF Working
<1>11. ASSUME NEW p \in Publishers
       PROVE  FlowOK(Numbers(got[s], s, p), Numbers(queue, s, p), {}, InHand(p)',
                     Numbers(queue', TheBroker, p), bpc \in Working, pc[p], typed[p])
  <2>1. PICK a \in SUBSET Nat, b \in SUBSET Nat, e \in SUBSET Nat :
           a = Numbers(got[s], s, p) /\ b = Numbers(queue, s, p) /\ e = Numbers(queue, TheBroker, p)
    BY StagesTyped
  <2>2. FlowOK(a, b, {}, {}, e, bpc \in Working, pc[p], typed[p]) /\ typed[p] \in Nat
    <3>1. BeingSent(s, p) = {} /\ InHand(p) = {}
      BY <1>9
    <3>2. Flows(s, p) /\ typed[p] \in Nat
      BY DEF FlowInv, FlowTo, TableInv, PubSubTypeOK
    <3> QED
      BY <2>1, <3>1, <3>2 DEF Flows
  <2>3. CASE m.command = "send" /\ m.pid = p
    <3>1. IsLine(queue[k], TheBroker, p) /\ Carries(queue[k])
      BY <1>4, <1>5, <1>6, <2>3 DEF IsLine
    <3>2. m.payload \in e /\ \A n \in e : n # m.payload => m.payload < n
      BY <1>3, <1>4, <1>5, <2>1, <3>1, OldestIsFirst
    <3>3. FlowOK(a, b, {}, {m.payload}, e \ {m.payload}, bpc \in Working, pc[p], typed[p])
      BY <2>2, <3>2, FlowIsTaken
    <3>4. Numbers(queue', TheBroker, p) = e \ {m.payload}
      BY <1>3, <1>4, <1>5, <2>1, <3>1, LinesWithout
    <3>5. InHand(p)' = {m.payload}
      BY <1>9, <2>3
    <3> QED
      BY <2>1, <3>3, <3>4, <3>5
  <2>4. CASE ~ (m.command = "send" /\ m.pid = p)
    <3>1. ~ (IsLine(queue[k], TheBroker, p) /\ Carries(queue[k]))
      BY <1>5, <1>6, <2>4 DEF IsLine
    <3>2. Numbers(queue', TheBroker, p) = e
      BY <1>3, <1>4, <2>1, <3>1, LinesWithout
    <3>3. InHand(p)' = {}
      BY <1>9, <2>4
    <3> QED
      BY <2>1, <2>2, <3>2, <3>3
  <2> QED
    BY <2>3, <2>4
<1>12. \A p \in Publishers :
         /\ Numbers(queue', s, p) \cup BeingSent(s, p)' \subseteq Numbers(queue, s, p) \cup BeingSent(s, p)
            \/ \E j \in 1 .. Len(subs) : subs[j] = <<s, TopicOf[p]>>
         /\ FlowOK(Numbers(got[s], s, p), Numbers(queue', s, p), BeingSent(s, p)', InHand(p)',
                   Numbers(queue', TheBroker, p), bpc' \in Working, pc[p], typed[p])
  BY <1>8, <1>9, <1>10, <1>11
<1> QED
  BY <1>2, <1>7, <1>12, FlowBroker

\* The broker looks for the subscribers of a line: who has had an earlier one is among them.
LEMMA FlowsHandle ==
    ASSUME TableInv, FlowInv, Handle
    PROVE  FlowInv'
<1> SUFFICES ASSUME NEW s \in Subscribers PROVE FlowTo(s)'
  BY DEF FlowInv
<1>1. /\ bpc = "handle" /\ bpc' \in {"rcv", "send"} /\ UNCHANGED <<got, pc, typed, queue, msg>>
      /\ bpc' = "send" <=> found' # {}
      /\ found' = IF msg.command = "send" THEN find_subscribers(msg.topic) ELSE {}
  BY DEF Handle, clientVars
<1>2. /\ \A k \in 1 .. Len(subs) : k \in 1 .. Len(subs') /\ subs'[k] = subs[k]
      /\ msg.command = "send" => subs' = subs
  BY TableHandle
<1>3. /\ msg.payload \in Nat /\ subs \in Seq(Subscribers \X Topics)
      /\ msg.command = "send" => msg.topic = TopicOf[msg.pid]
  BY <1>1 DEF TableInv, PubSubTypeOK, Posted, Carries
<1>4. \A p : BeingSent(s, p) = {} /\ InHand(p)' = {}
  BY <1>1 DEF BeingSent, InHand
<1>5. (bpc' \in Working) = TRUE /\ (bpc \in Working) = TRUE
  BY <1>1 DEF Working
<1>6. Ascending(queue')
  BY <1>1 DEF FlowInv, FlowTo
<1>7. ASSUME NEW p \in Publishers
      PROVE  /\ BeingSent(s, p)' = {} \/ \E k \in 1 .. Len(subs) : subs[k] = <<s, TopicOf[p]>>
             /\ FlowOK(Numbers(got[s], s, p), Numbers(queue, s, p), BeingSent(s, p)', {},
                       Numbers(queue, TheBroker, p), TRUE, pc[p], typed[p])
  <2>1. PICK a \in SUBSET Nat, b \in SUBSET Nat, e \in SUBSET Nat :
           a = Numbers(got[s], s, p) /\ b = Numbers(queue, s, p) /\ e = Numbers(queue, TheBroker, p)
    BY StagesTyped
  <2>2. FlowOK(a, b, {}, InHand(p), e, TRUE, pc[p], typed[p]) /\ typed[p] \in Nat
    BY <1>4, <1>5, <2>1 DEF FlowInv, FlowTo, Flows, TableInv, PubSubTypeOK
  <2>3. CASE ~ (msg.command = "send" /\ msg.pid = p)
    <3>1. InHand(p) = {}
      BY <2>3 DEF InHand
    <3>2. BeingSent(s, p)' = {}
      <4>1. CASE msg.command # "send"
        BY <1>1, <4>1 DEF BeingSent
      <4>2. CASE msg.pid # p
        BY <1>1, <4>2 DEF BeingSent
      <4> QED
        BY <2>3, <4>1, <4>2
    <3> QED
      BY <2>1, <2>2, <3>1, <3>2
  <2>4. CASE msg.command = "send" /\ msg.pid = p
    <3>1. InHand(p) = {msg.payload}
      BY <1>1, <1>3, <2>4 DEF InHand
    <3>2. FlowOK(a, b, {}, {msg.payload}, e, TRUE, pc[p], typed[p])
      BY <2>2, <3>1
    <3>3. subs' = subs /\ found' = {k \in 1 .. Len(subs) : subs[k][2] = TopicOf[p]}
      BY <1>1, <1>2, <1>3, <2>4 DEF find_subscribers
    <3>4. CASE \E k \in found' : subs'[k][1] = s
      <4>1. BeingSent(s, p)' = {msg.payload}
        BY <1>1, <1>3, <2>4, <3>4 DEF BeingSent
      <4>2. FlowOK(a, b, {msg.payload}, {}, e, TRUE, pc[p], typed[p])
        BY <1>3, <2>2, <3>2, FlowIsFound
      <4>3. PICK k \in 1 .. Len(subs) : subs[k][1] = s /\ subs[k][2] = TopicOf[p]
        BY <3>3, <3>4
      <4>4. subs[k] = <<s, TopicOf[p]>>
        BY <1>3, <4>3
      <4> QED
        BY <2>1, <4>1, <4>2, <4>4
    <3>5. CASE ~ \E k \in found' : subs'[k][1] = s
      <4>1. BeingSent(s, p)' = {}
        BY <3>5 DEF BeingSent
      <4>2. ~ \E k \in 1 .. Len(subs) : subs[k] = <<s, TopicOf[p]>>
        BY <3>3, <3>5
      <4>3. a = {} /\ b = {}
        BY <2>1, <4>2 DEF FlowInv, FlowTo, Entered
      <4>4. FlowOK({}, {}, {}, {}, e, TRUE, pc[p], typed[p])
        BY <1>3, <2>2, <3>2, <4>3, FlowPasses
      <4> QED
        BY <2>1, <4>1, <4>3, <4>4
    <3> QED
      BY <3>4, <3>5
  <2> QED
    BY <2>3, <2>4
<1>8. \A p \in Publishers :
         /\ Numbers(queue', s, p) \cup BeingSent(s, p)' \subseteq Numbers(queue, s, p) \cup BeingSent(s, p)
            \/ \E k \in 1 .. Len(subs) : subs[k] = <<s, TopicOf[p]>>
         /\ FlowOK(Numbers(got[s], s, p), Numbers(queue', s, p), BeingSent(s, p)', InHand(p)',
                   Numbers(queue', TheBroker, p), bpc' \in Working, pc[p], typed[p])
  BY <1>1, <1>4, <1>5, <1>7
<1> QED
  BY <1>1, <1>2, <1>6, <1>8, FlowBroker

\* The broker sends the line to one of them: it comes after the earlier ones.
LEMMA FlowsSend ==
    ASSUME TableInv, FlowInv, BrokerSend
    PROVE  FlowInv'
<1> SUFFICES ASSUME NEW s \in Subscribers PROVE FlowTo(s)'
  BY DEF FlowInv
<1>1. PICK k \in found : Put(Copy(subs[k][1], msg)) /\ found' = found \ {k}
  BY DEF BrokerSend
<1>2. /\ UNCHANGED <<got, pc, typed, subs, msg>> /\ bpc = "send" /\ bpc' \in {"rcv", "send"}
      /\ bpc' = "send" <=> found' # {}
  BY DEF BrokerSend, tables, clientVars
<1>3. /\ msg \in Posted /\ msg.command = "send" /\ msg.payload \in Nat /\ msg.pid \in Publishers
      /\ subs \in Seq(Subscribers \X Topics) /\ k \in 1 .. Len(subs) /\ found \subseteq 1 .. Len(subs)
      /\ \A j \in found : subs[j][2] = msg.topic
      /\ \A i1, i2 \in 1 .. Len(subs) : subs[i1] = subs[i2] => i1 = i2
  BY <1>1, <1>2 DEF TableInv, PubSubTypeOK, EnteredOnce, Posted
<1>4. PICK r \in Subscribers : r = subs[k][1]
  BY <1>3
<1>5. PICK m \in Posted : m = Copy(r, msg)
  BY <1>3, CommandsArePosted
<1>6. Carries(m) /\ m.to = r /\ m.pid = msg.pid /\ m.payload = msg.payload
  BY <1>5 DEF Copy, Carries
<1>7. queue \in Seq(Posted) /\ Ascending(queue) /\ TheBroker # r
  BY BrokerAssumption DEF TableInv, PubSubTypeOK, FlowInv, FlowTo, Clients
<1>8. queue' = Append(queue, m)
  BY <1>1, <1>4, <1>5 DEF Put
<1>9. BeingSent(r, msg.pid) = {msg.payload}
  BY <1>1, <1>2, <1>3, <1>4 DEF BeingSent
<1>10. \A n \in Numbers(queue, r, msg.pid) : n < msg.payload
  <2>1. Flows(r, msg.pid)
    BY <1>3 DEF FlowInv, FlowTo
  <2>2. Below(Numbers(queue, r, msg.pid), {msg.payload})
    BY <1>9, <2>1 DEF Flows, FlowOK
  <2> QED
    BY <2>2 DEF Below
<1>11. /\ Ascending(queue')
       /\ \A c, p : /\ (IsLine(m, c, p) /\ Carries(m)) =>
                              Numbers(queue', c, p) = Numbers(queue, c, p) \cup {m.payload}
                    /\ ~ (IsLine(m, c, p) /\ Carries(m)) =>
                              Numbers(queue', c, p) = Numbers(queue, c, p)
  <2>1. Carries(m) => \A n \in Numbers(queue, m.to, m.pid) : n < m.payload
    BY <1>6, <1>10
  <2> QED
    BY <1>7, <1>8, <2>1, LinesAppended
<1>12. \A p : InHand(p) = {} /\ InHand(p)' = {} /\ Numbers(queue', TheBroker, p) = Numbers(queue, TheBroker, p)
  <2>1. \A p : InHand(p) = {} /\ InHand(p)' = {}
    BY <1>2 DEF InHand
  <2>2. \A p : Numbers(queue', TheBroker, p) = Numbers(queue, TheBroker, p)
    BY <1>6, <1>7, <1>11 DEF IsLine
  <2> QED
    BY <2>1, <2>2
<1>13. (bpc' \in Working) = (bpc \in Working)
  BY <1>2 DEF Working
<1>14. ASSUME NEW p \in Publishers
       PROVE  /\ Numbers(queue', s, p) \cup BeingSent(s, p)' \subseteq Numbers(queue, s, p) \cup BeingSent(s, p)
              /\ FlowOK(Numbers(got[s], s, p), Numbers(queue', s, p), BeingSent(s, p)', InHand(p)',
                        Numbers(queue', TheBroker, p), bpc' \in Working, pc[p], typed[p])
  <2>1. PICK a \in SUBSET Nat, b \in SUBSET Nat, e \in SUBSET Nat :
           a = Numbers(got[s], s, p) /\ b = Numbers(queue, s, p) /\ e = Numbers(queue, TheBroker, p)
    BY StagesTyped
  <2>2. FlowOK(a, b, BeingSent(s, p), {}, e, bpc \in Working, pc[p], typed[p]) /\ typed[p] \in Nat
    BY <1>12, <2>1 DEF FlowInv, FlowTo, Flows, TableInv, PubSubTypeOK
  <2>3. CASE s = r /\ p = msg.pid
    <3>1. FlowOK(a, b \cup {msg.payload}, {}, {}, e, bpc \in Working, pc[p], typed[p])
      <4>1. FlowOK(a, b, {msg.payload}, {}, e, bpc \in Working, pc[p], typed[p])
        BY <1>9, <2>2, <2>3
      <4>2. {} \in SUBSET Nat
        OBVIOUS
      <4> QED
        BY <1>3, <2>2, <4>1, <4>2, FlowIsSent
    <3>2. ASSUME NEW j \in found', subs[j][1] = s PROVE FALSE
      <4>1. j \in 1 .. Len(subs) /\ j # k /\ j \in found
        BY <1>1, <1>3
      <4>2. subs[j] = subs[k]
        <5>1. subs[j] \in Subscribers \X Topics /\ subs[k] \in Subscribers \X Topics
          BY <1>3, <4>1
        <5>2. subs[j][1] = subs[k][1] /\ subs[j][2] = subs[k][2]
          BY <1>1, <1>3, <1>4, <2>3, <3>2, <4>1
        <5> QED
          BY <5>1, <5>2
      <4> QED
        BY <1>3, <4>1, <4>2
    <3>3. BeingSent(s, p)' = {}
      BY <1>2, <3>2 DEF BeingSent
    <3>4. Numbers(queue', s, p) = b \cup {msg.payload}
      BY <1>6, <1>11, <2>1, <2>3 DEF IsLine
    <3>5. BeingSent(s, p) = {msg.payload}
      BY <1>9, <2>3
    <3> QED
      BY <1>12, <1>13, <2>1, <3>1, <3>3, <3>4, <3>5
  <2>4. CASE ~ (s = r /\ p = msg.pid)
    <3>1. Numbers(queue', s, p) = b
      BY <1>6, <1>11, <2>1, <2>4 DEF IsLine
    <3>2. BeingSent(s, p)' = BeingSent(s, p)
      <4>1. CASE p # msg.pid
        BY <1>2, <4>1 DEF BeingSent
      <4>2. CASE s # r
        <5>1. (\E j \in found' : subs[j][1] = s) <=> (\E j \in found : subs[j][1] = s)
          BY <1>1, <1>4, <4>2
        <5>2. (\E j \in found' : subs[j][1] = s) => bpc' = "send"
          BY <1>2
        <5> QED
          BY <1>2, <5>1, <5>2 DEF BeingSent
      <4> QED
        BY <2>4, <4>1, <4>2
    <3> QED
      BY <1>12, <1>13, <2>1, <2>2, <3>1, <3>2
  <2> QED
    BY <2>3, <2>4
<1>15. \A j \in 1 .. Len(subs) : j \in 1 .. Len(subs') /\ subs'[j] = subs[j]
  BY <1>2
<1> QED
  BY <1>2, <1>11, <1>14, <1>15, FlowBroker

\* Every step keeps the flows.
LEMMA FlowsNext == TableInv /\ FlowInv /\ [PubSubNext]_pubSubVars => FlowInv'
<1> SUFFICES ASSUME TableInv, FlowInv, [PubSubNext]_pubSubVars PROVE FlowInv'
  OBVIOUS
<1>1. CASE UNCHANGED pubSubVars
  <2>1. UNCHANGED <<got, bpc, msg, found, subs, queue, pc, typed>>
    BY <1>1 DEF pubSubVars
  <2>2. ASSUME NEW s \in Subscribers PROVE FlowTo(s)'
    <3>1. Ascending(queue')
      BY <2>1 DEF FlowInv, FlowTo
    <3> QED
      BY <2>1, <3>1, FlowQuiet
  <2> QED
    BY <2>2 DEF FlowInv
<1>2. CASE BrokerStep \/ BrokerInterrupt
  BY <1>2, FlowsIdle, FlowsReceive, FlowsHandle, FlowsSend DEF BrokerStep
<1>3. ASSUME NEW p \in Publishers, PublisherStep(p) \/ TypeLine(p) \/ Quit(p) PROVE FlowInv'
  <2>1. p \in Clients
    BY DEF Clients
  <2> QED
    BY <1>3, <2>1, FlowsClient, FlowsAnnounce, FlowsPublish DEF PublisherStep
<1>4. ASSUME NEW s \in Subscribers, SubscriberStep(s) PROVE FlowInv'
  <2>1. s \in Clients
    BY DEF Clients
  <2> QED
    BY <1>4, <2>1, FlowsClient, FlowsSubscribe, FlowsDelivery DEF SubscriberStep
<1>5. ASSUME NEW c \in Clients, Signalled(c) \/ Interrupted(c) PROVE FlowInv'
  BY <1>5, FlowsClient
<1> QED
  BY <1>1, <1>2, <1>3, <1>4, <1>5 DEF PubSubNext

-----------------------------------------------------------------------------
(***************************************************************************)
(* The lines arrive in order.                                              *)
(***************************************************************************)

\* The flows say what LinesInOrder does of the whole stream to a subscriber.
LEMMA FlowsAreInOrder == TableInv /\ FlowInv => LinesInOrder
<1> SUFFICES ASSUME TableInv, FlowInv, NEW s \in Subscribers
             PROVE  LET q == Stream(s) IN
                    /\ \A k \in DOMAIN q : q[k].to = s => q[k] = Copy(s, q[k]) /\ q[k].pid \in Publishers
                    /\ \A p \in Publishers : \A j, k \in DOMAIN q :
                          (j < k /\ IsLine(q[j], s, p) /\ IsLine(q[k], s, p)) =>
                             /\ q[j].payload < q[k].payload
                             /\ \E l \in DOMAIN q : IsLine(q[l], s, p) /\ q[l].payload = q[j].payload + 1
  BY DEF LinesInOrder
<1>1. got[s] \in Seq(Posted) /\ queue \in Seq(Posted) /\ TheBroker # s
      /\ Ascending(got[s]) /\ Ascending(queue)
  BY BrokerAssumption DEF TableInv, PubSubTypeOK, FlowInv, FlowTo, Clients
<1>2. Coming(s) \in Seq(Posted) /\ Len(Coming(s)) \in 0 .. 1
      /\ (Len(Coming(s)) = 1 => /\ bpc = "send" /\ \E k \in found : subs[k][1] = s
                                /\ Coming(s)[1] = Copy(s, msg) /\ msg.pid \in Publishers)
      /\ (bpc = "send" /\ (\E k \in found : subs[k][1] = s) => Coming(s) = <<Copy(s, msg)>> /\ Copy(s, msg) \in Posted)
  <2>1. CASE bpc = "send" /\ \E k \in found : subs[k][1] = s
    <3>1. Coming(s) = <<Copy(s, msg)>>
      BY <2>1 DEF Coming
    <3>2. msg \in Posted /\ msg.command = "send"
      BY <2>1 DEF TableInv, PubSubTypeOK
    <3>3. Copy(s, msg) \in Posted /\ msg.pid \in Publishers
      BY <3>2, CommandsArePosted DEF Posted
    <3> QED
      BY <2>1, <3>1, <3>3
  <2>2. CASE ~ (bpc = "send" /\ \E k \in found : subs[k][1] = s)
    <3>1. Coming(s) = <<>>
      BY <2>2 DEF Coming
    <3> QED
      BY <2>2, <3>1
  <2> QED
    BY <2>1, <2>2
<1>3. PICK g, u, v : g = got[s] /\ u = queue /\ v = Coming(s)
  OBVIOUS
<1>4. g \in Seq(Posted) /\ u \in Seq(Posted) /\ v \in Seq(Posted)
      /\ Len(g) \in Nat /\ Len(u) \in Nat /\ Len(v) \in 0 .. 1
  BY <1>1, <1>2, <1>3
<1>5. PICK q : q = Stream(s)
  OBVIOUS
<1>6. /\ q \in Seq(Posted) /\ Len(q) = Len(g) + Len(u) + Len(v) /\ DOMAIN q = 1 .. Len(q)
      /\ \A k \in 1 .. Len(g) : q[k] = g[k]
      /\ \A k \in 1 .. Len(u) : q[Len(g) + k] = u[k]
      /\ \A k \in 1 .. Len(v) : q[Len(g) + Len(u) + k] = v[k]
  <2>1. PICK w : w = g \o u
    OBVIOUS
  <2>2. q = w \o v
    BY <1>3, <1>5, <2>1 DEF Stream
  <2>3. w \in Seq(Posted) /\ Len(w) = Len(g) + Len(u)
        /\ \A k \in 1 .. Len(g) + Len(u) : w[k] = IF k <= Len(g) THEN g[k] ELSE u[k - Len(g)]
    BY <1>4, <2>1, ConcatProperties
  <2>4. q \in Seq(Posted) /\ Len(q) = Len(w) + Len(v)
        /\ \A k \in 1 .. Len(w) + Len(v) : q[k] = IF k <= Len(w) THEN w[k] ELSE v[k - Len(w)]
    <3>1. w \in Seq(Posted) /\ v \in Seq(Posted)
      BY <1>4, <2>3
    <3>2. w \o v \in Seq(Posted) /\ Len(w \o v) = Len(w) + Len(v)
          /\ \A k \in 1 .. Len(w) + Len(v) : (w \o v)[k] = IF k <= Len(w) THEN w[k] ELSE v[k - Len(w)]
      BY <3>1, ConcatProperties
    <3> QED
      BY <2>2, <3>2
  <2>5. ASSUME NEW k \in 1 .. Len(g) PROVE q[k] = g[k]
    BY <1>4, <2>3, <2>4
  <2>6. ASSUME NEW k \in 1 .. Len(u) PROVE q[Len(g) + k] = u[k]
    <3>1. (Len(g) + k) - Len(g) = k /\ Len(g) + k \in 1 .. Len(g) + Len(u) /\ ~ (Len(g) + k <= Len(g))
      BY <1>4
    <3>2. w[Len(g) + k] = u[k]
      BY <2>3, <3>1
    <3>3. Len(g) + k \in 1 .. Len(w) + Len(v) /\ Len(g) + k <= Len(w)
      BY <1>4, <2>3
    <3> QED
      BY <2>4, <3>2, <3>3
  <2>7. ASSUME NEW k \in 1 .. Len(v) PROVE q[Len(g) + Len(u) + k] = v[k]
    <3>1. (Len(w) + k) - Len(w) = k /\ Len(w) + k \in 1 .. Len(w) + Len(v) /\ ~ (Len(w) + k <= Len(w))
      BY <1>4, <2>3
    <3>2. q[Len(w) + k] = v[k]
      BY <2>4, <3>1
    <3> QED
      BY <2>3, <3>2
  <2>8. DOMAIN q = 1 .. Len(q)
    BY <2>4
  <2> QED
    BY <2>3, <2>4, <2>5, <2>6, <2>7, <2>8
<1>7. ASSUME NEW k \in 1 .. Len(q)
      PROVE  \/ k \in 1 .. Len(g) /\ q[k] = g[k]
             \/ k > Len(g) /\ k <= Len(g) + Len(u) /\ k - Len(g) \in 1 .. Len(u) /\ q[k] = u[k - Len(g)]
             \/ k = Len(q) /\ k > Len(g) + Len(u) /\ Len(v) = 1 /\ q[k] = v[1]
  <2>1. CASE k <= Len(g)
    BY <1>4, <1>6, <2>1
  <2>2. CASE k > Len(g) /\ k <= Len(g) + Len(u)
    <3>1. k - Len(g) \in 1 .. Len(u) /\ Len(g) + (k - Len(g)) = k
      BY <1>4, <2>2
    <3>2. q[Len(g) + (k - Len(g))] = u[k - Len(g)]
      BY <1>6, <3>1
    <3> QED
      BY <2>2, <3>1, <3>2
  <2>3. CASE k > Len(g) + Len(u)
    <3>1. Len(v) = 1 /\ k = Len(g) + Len(u) + 1 /\ k = Len(q)
      <4>1. Len(q) = Len(g) + Len(u) + Len(v)
        BY <1>6
      <4>2. k \in Nat /\ k <= Len(g) + Len(u) + Len(v)
        BY <1>4, <4>1
      <4>3. PICK x \in Nat, y \in Nat, z \in 0 .. 1 : x = Len(g) /\ y = Len(u) /\ z = Len(v)
        BY <1>4
      <4>4. z = 1 /\ k = x + y + 1
        <5>1. k \in Nat /\ k > x + y /\ k <= x + y + z
          BY <2>3, <4>2, <4>3
        <5>2. \A h, n1, n2 \in Nat, n3 \in 0 .. 1 :
                 h > n1 + n2 /\ h <= n1 + n2 + n3 => n3 = 1 /\ h = n1 + n2 + 1
          OBVIOUS
        <5> QED
          BY <5>1, <5>2
      <4> QED
        BY <4>1, <4>3, <4>4
    <3>2. q[Len(g) + Len(u) + 1] = v[1]
      BY <1>6, <3>1
    <3> QED
      BY <2>3, <3>1, <3>2
  <2> QED
    BY <1>4, <2>1, <2>2, <2>3
<1>8. ASSUME NEW k \in 1 .. Len(q), q[k].to = s
      PROVE  q[k] = Copy(s, q[k]) /\ q[k].pid \in Publishers /\ q[k].payload \in Nat /\ Carries(q[k])
  <2>1. q[k] \in Posted
    BY <1>6
  <2>2. PICK m \in Posted : m = q[k]
    BY <2>1
  <2>3. m.to = s /\ m.command = "line" /\ m.pid \in Publishers /\ m.payload \in Nat
    BY <1>1, <1>8, <2>2 DEF Posted
  <2>4. m = [to |-> m.to, command |-> m.command, pid |-> m.pid, topic |-> m.topic, payload |-> m.payload]
    BY DEF Posted
  <2>5. m = Copy(s, m)
    BY <2>3, <2>4 DEF Copy
  <2> QED
    BY <2>2, <2>3, <2>5 DEF Carries
<1>9. ASSUME NEW p \in Publishers, NEW j \in 1 .. Len(q), NEW k \in 1 .. Len(q),
             j < k, IsLine(q[j], s, p), IsLine(q[k], s, p)
      PROVE  /\ q[j].payload < q[k].payload
             /\ \E l \in 1 .. Len(q) : IsLine(q[l], s, p) /\ q[l].payload = q[j].payload + 1
  <2>1. PICK a \in SUBSET Nat, b \in SUBSET Nat, c \in SUBSET Nat :
           a = Numbers(g, s, p) /\ b = Numbers(u, s, p) /\ c = BeingSent(s, p)
    BY StagesTyped
  <2>2. Below(a, b) /\ Below(a, c) /\ Below(b, c) /\ NoGap(a \cup b \cup c)
    <3>1. Flows(s, p)
      BY DEF FlowInv, FlowTo
    <3> QED
      BY <1>3, <2>1, <3>1 DEF Flows, FlowOK
  <2>3. ASSUME NEW n \in a \cup b \cup c
        PROVE  \E l \in 1 .. Len(q) : IsLine(q[l], s, p) /\ q[l].payload = n
    <3>1. CASE n \in a
      <4>1. PICK l \in 1 .. Len(g) : IsLine(g[l], s, p) /\ g[l].payload = n
        BY <2>1, <3>1 DEF Numbers
      <4>2. l \in 1 .. Len(q) /\ q[l] = g[l]
        BY <1>4, <1>6
      <4> QED
        BY <4>1, <4>2
    <3>2. CASE n \in b
      <4>1. PICK l \in 1 .. Len(u) : IsLine(u[l], s, p) /\ u[l].payload = n
        BY <2>1, <3>2 DEF Numbers
      <4>2. Len(g) + l \in 1 .. Len(q) /\ q[Len(g) + l] = u[l]
        BY <1>4, <1>6
      <4> QED
        BY <4>1, <4>2
    <3>3. CASE n \in c
      <4>1. bpc = "send" /\ msg.pid = p /\ msg.payload = n /\ \E l \in found : subs[l][1] = s
        BY <2>1, <3>3 DEF BeingSent
      <4>2. v = <<Copy(s, msg)>>
        BY <1>2, <1>3, <4>1
      <4>3. Len(v) = 1 /\ v[1] = Copy(s, msg)
        BY <4>2
      <4>4. Len(g) + Len(u) + 1 \in 1 .. Len(q) /\ q[Len(g) + Len(u) + 1] = v[1]
        BY <1>4, <1>6, <4>3
      <4>5. IsLine(v[1], s, p) /\ v[1].payload = n
        BY <4>1, <4>3 DEF IsLine, Copy
      <4> QED
        BY <4>4, <4>5
    <3> QED
      BY <3>1, <3>2, <3>3
  <2>4. ASSUME NEW l \in 1 .. Len(q), IsLine(q[l], s, p)
        PROVE  /\ q[l].payload \in Nat
               /\ \/ l \in 1 .. Len(g) /\ q[l] = g[l] /\ Carries(g[l]) /\ q[l].payload \in a
                  \/ /\ l > Len(g) /\ l <= Len(g) + Len(u) /\ l - Len(g) \in 1 .. Len(u)
                     /\ q[l] = u[l - Len(g)] /\ Carries(u[l - Len(g)]) /\ q[l].payload \in b
                  \/ l > Len(g) + Len(u) /\ l = Len(q) /\ q[l].payload \in c
    <3>1. q[l].payload \in Nat /\ Carries(q[l])
      BY <1>8, <2>4 DEF IsLine
    <3>2. CASE l \in 1 .. Len(g) /\ q[l] = g[l]
      <4>1. q[l].payload \in a
        BY <2>1, <2>4, <3>1, <3>2 DEF Numbers
      <4> QED
        BY <3>1, <3>2, <4>1
    <3>3. CASE l > Len(g) /\ l <= Len(g) + Len(u) /\ l - Len(g) \in 1 .. Len(u) /\ q[l] = u[l - Len(g)]
      <4>1. q[l].payload \in b
        BY <2>1, <2>4, <3>1, <3>3 DEF Numbers
      <4> QED
        BY <3>1, <3>3, <4>1
    <3>4. CASE l = Len(q) /\ l > Len(g) + Len(u) /\ Len(v) = 1 /\ q[l] = v[1]
      <4>1. bpc = "send" /\ (\E x \in found : subs[x][1] = s) /\ q[l] = Copy(s, msg)
        BY <1>2, <1>3, <3>4
      <4>2. q[l].pid = msg.pid /\ q[l].payload = msg.payload /\ q[l].pid = p
        BY <2>4, <4>1 DEF Copy, IsLine
      <4>3. q[l].payload \in c
        BY <2>1, <3>1, <4>1, <4>2 DEF BeingSent
      <4> QED
        BY <3>1, <3>4, <4>3
    <3> QED
      BY <1>7, <3>2, <3>3, <3>4
  <2>5. q[j].payload < q[k].payload
    <3>1. CASE k \in 1 .. Len(g)
      <4>1. j \in 1 .. Len(g) /\ q[j] = g[j] /\ Carries(g[j]) /\ q[k] = g[k] /\ Carries(g[k])
        BY <1>4, <1>9, <2>4, <3>1
      <4> QED
        BY <1>1, <1>3, <1>9, <3>1, <4>1 DEF Ascending, IsLine
    <3>2. CASE k > Len(g) /\ k <= Len(g) + Len(u)
      <4>1. k - Len(g) \in 1 .. Len(u) /\ q[k] = u[k - Len(g)] /\ Carries(u[k - Len(g)]) /\ q[k].payload \in b
        BY <1>4, <1>9, <2>4, <3>2
      <4>2. CASE j \in 1 .. Len(g)
        <5>1. q[j].payload \in a
          BY <1>4, <1>9, <2>4, <4>2
        <5> QED
          BY <2>2, <4>1, <5>1 DEF Below
      <4>3. CASE j > Len(g)
        <5>1. j - Len(g) \in 1 .. Len(u) /\ q[j] = u[j - Len(g)] /\ Carries(u[j - Len(g)])
          <6>1. j > Len(g) /\ j <= Len(g) + Len(u)
            BY <1>4, <1>9, <3>2, <4>3
          <6> QED
            BY <1>4, <1>9, <2>4, <6>1
        <5>2. j - Len(g) < k - Len(g)
          BY <1>4, <1>9
        <5>3. IsLine(u[j - Len(g)], u[k - Len(g)].to, u[k - Len(g)].pid)
          BY <1>9, <4>1, <5>1 DEF IsLine
        <5> QED
          BY <1>1, <1>3, <4>1, <5>1, <5>2, <5>3 DEF Ascending
      <4> QED
        BY <1>4, <4>2, <4>3
    <3>3. CASE k > Len(g) + Len(u)
      <4>1. q[k].payload \in c /\ k = Len(q)
        BY <1>4, <1>9, <2>4, <3>3
      <4>2. q[j].payload \in a \/ q[j].payload \in b
        BY <1>9, <2>4, <4>1
      <4> QED
        BY <2>2, <4>1, <4>2 DEF Below
    <3> QED
      BY <1>4, <3>1, <3>2, <3>3
  <2>6. q[j].payload + 1 \in a \cup b \cup c
    <3>1. q[j].payload \in a \cup b \cup c /\ q[k].payload \in a \cup b \cup c
          /\ q[j].payload \in Nat /\ q[k].payload \in Nat
      BY <1>9, <2>4
    <3>2. ~ (q[k].payload <= q[j].payload)
      BY <2>5, <3>1
    <3> QED
      BY <2>2, <3>1, <3>2 DEF NoGap
  <2> QED
    BY <2>3, <2>5, <2>6
<1> QED
  BY <1>5, <1>6, <1>8, <1>9

\* The messages of the queue, the tables and the programs stay what the type invariant says.
\* In particular no unsubscribe command is ever in the queue.
THEOREM PubSubTypeCorrect == PubSubSpec => []PubSubTypeOK
<1>1. PubSubInit => TableInv
  BY TableInit
<1>2. TableInv /\ [PubSubNext]_pubSubVars => TableInv'
  BY TableNext
<1>3. TableInv => PubSubTypeOK
  BY DEF TableInv
<1> QED
  BY <1>1, <1>2, <1>3, PTL DEF PubSubSpec

\* The lines of a publisher reach a subscriber in the order they were typed, none twice and
\* none left out from the first one on, for any number of clients, any topics and any
\* size of the queue and of the tables.
THEOREM BrokerLinesInOrder == PubSubSpec => []LinesInOrder
<1>1. PubSubInit => TableInv /\ FlowInv
  BY TableInit, FlowsInit
<1>2. TableInv /\ FlowInv /\ [PubSubNext]_pubSubVars => TableInv' /\ FlowInv'
  BY TableNext, FlowsNext
<1>3. TableInv /\ FlowInv => LinesInOrder
  BY FlowsAreInOrder
<1> QED
  BY <1>1, <1>2, <1>3, PTL DEF PubSubSpec
==============================================================================
