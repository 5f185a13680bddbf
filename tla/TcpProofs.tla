------------------------------ MODULE TcpProofs ------------------------------
(***************************************************************************)
(* The TCP chat of module3/07: its broadcasts and events (TcpChat), for    *)
(* any number of clients, sizes of the table and of the sockets, and any   *)
(* faults; then its file transfers (TcpFiles).                             *)
(***************************************************************************)
EXTENDS TcpChat, TcpFiles, SequenceTheorems, TLAPS

Kinds == {"join", "chat", "ask"}
States == {"none", "ok", "fin", "sent", "rst", "broken", "closed"}
Half == [kind : Kinds, part : 1 .. 2]
Socket == [st : States, inq : Seq(Half), edge : BOOLEAN, late : BOOLEAN, spare : BOOLEAN]

\* The frames of the stack: broadcast_message, and a reply.
Call == [do : {"broadcast", "shutdown"}, from : 0 .. N, i : Nat \ {0}, sentTo : Seq(Clients)]
Answer == [do : {"reply"}, to : Clients, left : Nat]
Frame == Call \union Answer

TypeOK ==
    /\ srv \in {"up", "down"}
    /\ backlog \in Seq(Clients) /\ IsInjective(backlog)
    /\ lis \in [edge : BOOLEAN, late : BOOLEAN]
    /\ conn \in [Clients -> Socket]
    /\ batch \subseteq 0 .. N
    /\ table \in Seq(Clients) /\ IsInjective(table)
    /\ stack \in Seq(Frame)
    /\ todo \in [Clients -> Seq(Half)]

\* A connection that is not there, or not any more, is in no queue or table; one
\* that has not begun is not in events[] either.
GoneIsClean(c) ==
    /\ Is(c, "none") \/ Is(c, "closed") =>
          conn[c].inq = <<>> /\ ~Contains(backlog, c) /\ ~Contains(table, c)
    /\ Is(c, "none") => c \notin batch

\* A connection is reported, and joins, after it was accepted.
BacklogIsNew(c) == Contains(backlog, c) => ~Contains(table, c) /\ c \notin batch

\* The first half of MSG_JOIN is the first of a connection and comes once.
Join1 == [kind |-> "join", part |-> 1]
JoinIsFirst(c) ==
    /\ \A j \in DOMAIN conn[c].inq : conn[c].inq[j] = Join1 => j = 1 /\ ~Contains(table, c)
    /\ \A j \in DOMAIN todo[c] : todo[c][j] = Join1 =>
          j = 1 /\ conn[c].inq = <<>> /\ ~Contains(table, c)

\* What is still to be sent ends with a whole Message.
EndsWhole(t) == \A j \in DOMAIN t : t[j].part = 1 => j + 1 \in DOMAIN t

\* The events c has still to come: on the ready list, and in events[].
Pending(c) == (IF conn[c].edge THEN 1 ELSE 0) + (IF c \in batch THEN 1 ELSE 0)

\* Unless something arrived late, there is an event for each Message that waits,
\* and one more for the end of the connection.
Covered(c) == ~conn[c].late =>
    /\ Len(conn[c].inq) <= 2 * Pending(c)
    /\ ~Is(c, "ok") /\ (conn[c].inq # <<>> \/ Contains(table, c)) =>
          Len(conn[c].inq) + 2 <= 2 * Pending(c)

\* Unless an event may find nothing, there is a Message for each.
AllReadable(c) == Is(c, "ok") /\ ~conn[c].spare => Len(conn[c].inq) >= 2 * Pending(c)

ConnOK(c) == /\ GoneIsClean(c) /\ BacklogIsNew(c) /\ JoinIsFirst(c) /\ EndsWhole(todo[c])
             /\ Covered(c) /\ AllReadable(c)

\* Unless a connection arrived late, there is an event for each that waits.
ListenOK == ~lis.late =>
    Len(backlog) <= (IF lis.edge THEN 1 ELSE 0) + (IF Listener \in batch THEN 1 ELSE 0)

\* Nobody the loop has still to come to has been sent the message, and
\* everybody it has passed has, unless one of those is gone.
Ahead(f) == \A j \in 1 .. Len(table) : j >= f.i => table[j] \notin ToSet(f.sentTo)
Lost(f) == \E c \in Clients : Is(c, "closed") /\ c \in ToSet(f.sentTo) \union {f.from}
Passed(f) == \A j \in 1 .. Len(table) : j < f.i => table[j] \in ToSet(f.sentTo) \union {f.from}

CallOK(f) == f \in Call => IsInjective(f.sentTo) /\ Ahead(f) /\ (Passed(f) \/ Lost(f))
StackOK == \A k \in DOMAIN stack : CallOK(stack[k])

TcpInv == TypeOK /\ (\A c \in Clients : ConnOK(c)) /\ ListenOK /\ StackOK

-----------------------------------------------------------------------------
(***************************************************************************)
(* Sequences.                                                              *)
(***************************************************************************)

LEMMA ContainsAppend ==
    ASSUME NEW S, NEW s \in Seq(S), NEW e \in S, NEW x
    PROVE  Contains(Append(s, e), x) <=> Contains(s, x) \/ x = e
<1> DEFINE t == Append(s, e)
<1>1. /\ Len(s) \in Nat /\ Len(t) = Len(s) + 1 /\ t[Len(s) + 1] = e
      /\ \A i \in 1..Len(s) : t[i] = s[i]
  OBVIOUS
<1> HIDE DEF t
<1>2. \A i \in 1..Len(t) : i \in 1..Len(s) \/ i = Len(s) + 1
  BY <1>1
<1>3. 1..Len(s) \subseteq 1..Len(t) /\ Len(s) + 1 \in 1..Len(t)
  BY <1>1
<1>4. Contains(t, x) <=> Contains(s, x) \/ x = e
  BY <1>1, <1>2, <1>3 DEF Contains
<1> QED
  BY <1>4 DEF t

LEMMA ContainsTail ==
    ASSUME NEW S, NEW s \in Seq(S), s # <<>>, NEW x
    PROVE  /\ Contains(Tail(s), x) => Contains(s, x)
           /\ Contains(s, x) => x = s[1] \/ Contains(Tail(s), x)
<1> DEFINE t == Tail(s)
<1>1. /\ Len(s) \in Nat \ {0} /\ Len(t) = Len(s) - 1
      /\ \A i \in 1..Len(t) : t[i] = s[i + 1]
  OBVIOUS
<1> HIDE DEF t
<1>2. \A i \in 1..Len(t) : i + 1 \in 1..Len(s)
  BY <1>1
<1>3. \A i \in 1..Len(s) : i = 1 \/ (i - 1 \in 1..Len(t) /\ (i - 1) + 1 = i)
  BY <1>1
<1>4. Contains(t, x) => Contains(s, x)
  BY <1>1, <1>2 DEF Contains
<1>5. ASSUME Contains(s, x), x # s[1] PROVE Contains(t, x)
  <2>1. PICK i \in 1..Len(s) : s[i] = x
    BY <1>5 DEF Contains
  <2>2. i - 1 \in 1..Len(t) /\ (i - 1) + 1 = i
    BY <1>3, <1>5, <2>1
  <2>3. t[i - 1] = s[i]
    BY <1>1, <2>2
  <2> QED
    BY <2>1, <2>2, <2>3 DEF Contains
<1> QED
  BY <1>4, <1>5 DEF t

LEMMA TailInjective ==
    ASSUME NEW S, NEW s \in Seq(S), IsInjective(s), s # <<>>
    PROVE  IsInjective(Tail(s)) /\ ~Contains(Tail(s), Head(s)) /\ Contains(s, Head(s)) /\ Head(s) \in S
<1> DEFINE t == Tail(s)
<1>1. /\ Len(s) \in Nat \ {0} /\ Len(t) = Len(s) - 1 /\ DOMAIN s = 1..Len(s) /\ DOMAIN t = 1..Len(t)
      /\ \A i \in 1..Len(t) : t[i] = s[i + 1]
      /\ Head(s) = s[1] /\ s[1] \in S
  OBVIOUS
<1> HIDE DEF t
<1>2. \A i \in 1..Len(t) : i + 1 \in 1..Len(s) /\ i + 1 # 1
  BY <1>1
<1>3. \A i, j \in 1..Len(t) : i + 1 = j + 1 => i = j
  BY <1>1
<1>4. 1 \in 1..Len(s)
  BY <1>1
<1>5. IsInjective(t)
  BY <1>1, <1>2, <1>3 DEF IsInjective
<1>6. ~Contains(t, s[1])
  BY <1>1, <1>2, <1>4 DEF IsInjective, Contains
<1>7. Contains(s, s[1])
  BY <1>4 DEF Contains
<1> QED
  BY <1>1, <1>5, <1>6, <1>7 DEF t

\* What remove_client's shift leaves, in a table without duplicates.
LEMMA RemoveFacts ==
    ASSUME NEW S, NEW s \in Seq(S), IsInjective(s), NEW k \in 1..Len(s)
    PROVE  LET t == RemoveFirst(s, s[k]) IN
           /\ t \in Seq(S) /\ Len(t) = Len(s) - 1
           /\ \A j \in 1..Len(s) - 1 : t[j] = IF j < k THEN s[j] ELSE s[j + 1]
<1> DEFINE e == s[k]
           I == {i \in 1..Len(s) : s[i] = e}
<1>1. Len(s) \in Nat /\ DOMAIN s = 1..Len(s)
  OBVIOUS
<1>2. I = {k}
  BY <1>1 DEF IsInjective
<1>3. Min({k}) = k
  BY <1>1 DEF Min
<1>4. SelectInSeq(s, LAMBDA v : v = e) = k
  BY <1>2, <1>3 DEF SelectInSeq
<1>5. RemoveFirst(s, e) = SubSeq(s, 1, k - 1) \o SubSeq(s, k + 1, Len(s))
  BY <1>4 DEF RemoveFirst, RemoveAt
<1> DEFINE a == SubSeq(s, 1, k - 1)
           b == SubSeq(s, k + 1, Len(s))
<1>6. a \in Seq(S) /\ Len(a) = k - 1 /\ \A j \in 1..k - 1 : a[j] = s[j]
  <2>1. 1 \in Int /\ k - 1 \in Int /\ \A i \in 1..k - 1 : s[i] \in S /\ 1 + i - 1 = i
    BY <1>1
  <2>2. (k - 1) - 1 + 1 = k - 1 /\ (1 <= k - 1 \/ k - 1 = 0)
    BY <1>1
  <2>3. /\ a \in Seq(S) /\ Len(a) = IF 1 <= k - 1 THEN (k - 1) - 1 + 1 ELSE 0
        /\ \A i \in 1..(k - 1) - 1 + 1 : a[i] = s[1 + i - 1]
    BY <2>1, SubSeqProperties
  <2> QED
    BY <2>1, <2>2, <2>3
<1>7. b \in Seq(S) /\ Len(b) = Len(s) - k /\ \A j \in 1..Len(s) - k : b[j] = s[k + j]
  <2>1. /\ k + 1 \in Int /\ Len(s) \in Int /\ \A i \in k + 1..Len(s) : s[i] \in S
        /\ \A i \in 1..Len(s) - k : (k + 1) + i - 1 = k + i
    BY <1>1
  <2>2. Len(s) - (k + 1) + 1 = Len(s) - k /\ (k + 1 <= Len(s) \/ Len(s) - k = 0)
    <3>1. \A l \in Nat : \A m \in 1..l : l - (m + 1) + 1 = l - m /\ (m + 1 <= l \/ l - m = 0)
      OBVIOUS
    <3> QED
      BY <1>1, <3>1
  <2>3. /\ b \in Seq(S) /\ Len(b) = IF k + 1 <= Len(s) THEN Len(s) - (k + 1) + 1 ELSE 0
        /\ \A i \in 1..Len(s) - (k + 1) + 1 : b[i] = s[(k + 1) + i - 1]
    BY <2>1, SubSeqProperties
  <2> QED
    BY <2>1, <2>2, <2>3
<1> HIDE DEF a, b
<1>8. a \o b \in Seq(S) /\ Len(a \o b) = Len(s) - 1
  <2>1. a \o b \in Seq(S) /\ Len(a \o b) = Len(a) + Len(b)
    BY <1>6, <1>7, ConcatProperties
  <2>2. (k - 1) + (Len(s) - k) = Len(s) - 1
    BY <1>1
  <2> QED
    BY <1>6, <1>7, <2>1, <2>2
<1>9. \A j \in 1..Len(s) - 1 : (a \o b)[j] = IF j < k THEN s[j] ELSE s[j + 1]
  <2> SUFFICES ASSUME NEW j \in 1..Len(s) - 1 PROVE (a \o b)[j] = IF j < k THEN s[j] ELSE s[j + 1]
    OBVIOUS
  <2>1. (a \o b)[j] = IF j <= Len(a) THEN a[j] ELSE b[j - Len(a)]
    <3>1. j \in 1..Len(a) + Len(b)
      BY <1>1, <1>6, <1>7
    <3> QED
      BY <1>6, <1>7, <3>1, ConcatProperties
  <2>2. CASE j < k
    <3>1. j \in 1..k - 1 /\ j <= Len(a)
      BY <1>1, <1>6, <2>2
    <3> QED
      BY <1>6, <2>1, <2>2, <3>1
  <2>3. CASE j >= k
    <3>1. j - Len(a) \in 1..Len(s) - k /\ k + (j - Len(a)) = j + 1
      BY <1>1, <1>6, <2>3
    <3>2. ~(j <= Len(a)) /\ ~(j < k)
      BY <1>1, <1>6, <2>3
    <3> QED
      BY <1>7, <2>1, <3>1, <3>2
  <2>4. j < k \/ j >= k
    BY <1>1
  <2> QED
    BY <2>2, <2>3, <2>4
<1>10. RemoveFirst(s, s[k]) = a \o b
  BY <1>5 DEF a, b
<1> QED
  BY <1>8, <1>9, <1>10

LEMMA RemoveEffects ==
    ASSUME NEW S, NEW s \in Seq(S), IsInjective(s), NEW c, Contains(s, c)
    PROVE  LET t == RemoveFirst(s, c) IN
           /\ t \in Seq(S) /\ IsInjective(t) /\ ~Contains(t, c)
           /\ \A x : Contains(t, x) => Contains(s, x)
           /\ \A x : Contains(s, x) /\ x # c => Contains(t, x)
<1>1. PICK k \in 1..Len(s) : s[k] = c
  BY DEF Contains
<1> DEFINE t == RemoveFirst(s, c)
           From(j) == IF j < k THEN j ELSE j + 1
<1>2. /\ t \in Seq(S) /\ Len(t) = Len(s) - 1
      /\ \A j \in 1..Len(s) - 1 : t[j] = IF j < k THEN s[j] ELSE s[j + 1]
  BY <1>1, RemoveFacts
<1>3. Len(s) \in Nat /\ DOMAIN s = 1..Len(s) /\ DOMAIN t = 1..Len(t)
  BY <1>2
<1> HIDE DEF t
<1>4. \A j \in 1..Len(t) : From(j) \in 1..Len(s) /\ From(j) # k
  BY <1>1, <1>2, <1>3
<1>5. \A i, j \in 1..Len(t) : From(i) = From(j) => i = j
  BY <1>1, <1>2, <1>3
<1>6. \A j \in 1..Len(t) : t[j] = s[From(j)]
  BY <1>2
<1> HIDE DEF From
<1>7. IsInjective(t)
  BY <1>3, <1>4, <1>5, <1>6 DEF IsInjective
<1>8. ~Contains(t, c)
  BY <1>1, <1>3, <1>4, <1>6 DEF Contains, IsInjective
<1>9. \A x : Contains(t, x) => Contains(s, x)
  BY <1>4, <1>6 DEF Contains
<1>10. \A i \in 1..Len(s) : i # k => \E j \in 1..Len(t) : From(j) = i
  <2> SUFFICES ASSUME NEW i \in 1..Len(s), i # k PROVE \E j \in 1..Len(t) : From(j) = i
    OBVIOUS
  <2>1. i < k => i \in 1..Len(t) /\ From(i) = i
    BY <1>1, <1>2, <1>3 DEF From
  <2>2. i > k => i - 1 \in 1..Len(t) /\ From(i - 1) = i
    BY <1>1, <1>2, <1>3 DEF From
  <2> QED
    BY <2>1, <2>2
<1>11. \A x : Contains(s, x) /\ x # c => Contains(t, x)
  BY <1>1, <1>6, <1>10 DEF Contains
<1> QED
  BY <1>2, <1>7, <1>8, <1>9, <1>11 DEF t

LEMMA AppendInjectiveTable ==
    ASSUME NEW S, NEW s \in Seq(S), IsInjective(s), NEW e \in S, ~Contains(s, e)
    PROVE  IsInjective(Append(s, e))
<1> DEFINE t == Append(s, e)
<1>1. /\ Len(s) \in Nat /\ DOMAIN s = 1..Len(s) /\ DOMAIN t = 1..Len(s) + 1
      /\ t[Len(s) + 1] = e /\ \A i \in 1..Len(s) : t[i] = s[i]
  OBVIOUS
<1> HIDE DEF t
<1>2. \A i \in 1..Len(s) + 1 : i \in 1..Len(s) \/ i = Len(s) + 1
  BY <1>1
<1>3. \A i \in 1..Len(s) : s[i] # e
  BY DEF Contains
<1>4. IsInjective(t)
  BY <1>1, <1>2, <1>3 DEF IsInjective
<1> QED
  BY <1>4 DEF t

LEMMA AppendOnce ==
    ASSUME NEW S, NEW s \in Seq(S), IsInjective(s), NEW e \in S, e \notin ToSet(s)
    PROVE  IsInjective(Append(s, e)) /\ ToSet(Append(s, e)) = ToSet(s) \union {e}
<1>1. ~Contains(s, e)
  BY DEF Contains, ToSet
<1>2. IsInjective(Append(s, e))
  BY <1>1, AppendInjectiveTable
<1>3. \A r \in Seq(S) : \A x : x \in ToSet(r) <=> Contains(r, x)
  BY DEF ToSet, Contains
<1>4. Append(s, e) \in Seq(S)
  OBVIOUS
<1>5. \A x : x \in ToSet(Append(s, e)) <=> x \in ToSet(s) \/ x = e
  BY <1>3, <1>4, ContainsAppend
<1> QED
  BY <1>2, <1>5

\* A frame pushed on a stack.
LEMMA PushFacts ==
    ASSUME NEW S, NEW r \in Seq(S), NEW g \in S
    PROVE  /\ <<g>> \o r \in Seq(S)
           /\ \A k \in DOMAIN (<<g>> \o r) :
                 (<<g>> \o r)[k] = g \/ \E j \in DOMAIN r : (<<g>> \o r)[k] = r[j]
<1> DEFINE q == <<g>>
<1>1. q \in Seq(S) /\ Len(q) = 1 /\ q[1] = g
  OBVIOUS
<1>2. Len(r) \in Nat /\ DOMAIN r = 1..Len(r)
  OBVIOUS
<1> HIDE DEF q
<1>3. /\ q \o r \in Seq(S) /\ Len(q \o r) = 1 + Len(r)
      /\ \A i \in 1..1 + Len(r) : (q \o r)[i] = IF i <= 1 THEN q[i] ELSE r[i - 1]
  <2>1. /\ q \o r \in Seq(S) /\ Len(q \o r) = Len(q) + Len(r)
        /\ \A i \in 1..Len(q) + Len(r) : (q \o r)[i] = IF i <= Len(q) THEN q[i] ELSE r[i - Len(q)]
    <3>1. q \in Seq(S)
      BY <1>1
    <3> QED
      BY <3>1, ConcatProperties
  <2>2. Len(q) = 1
    BY <1>1
  <2> QED
    BY <2>1, <2>2
<1>4. DOMAIN (q \o r) = 1..1 + Len(r)
  BY <1>3
<1>5. ASSUME NEW k \in 1..1 + Len(r)
      PROVE  (q \o r)[k] = g \/ \E j \in DOMAIN r : (q \o r)[k] = r[j]
  <2>1. CASE k = 1
    BY <1>1, <1>3, <2>1
  <2>2. CASE k # 1
    <3>1. k - 1 \in 1..Len(r) /\ ~(k <= 1)
      BY <1>2, <2>2
    <3> QED
      BY <1>2, <1>3, <3>1
  <2> QED
    BY <2>1, <2>2
<1> QED
  BY <1>3, <1>4, <1>5 DEF q

LEMMA TailFacts ==
    ASSUME NEW S, NEW s \in Seq(S), s # <<>>
    PROVE  /\ Tail(s) \in Seq(S) /\ Head(s) = s[1] /\ 1 \in DOMAIN s
           /\ \A k \in DOMAIN Tail(s) : \E j \in DOMAIN s : Tail(s)[k] = s[j]
<1> DEFINE t == Tail(s)
<1>1. /\ t \in Seq(S) /\ Len(t) = Len(s) - 1 /\ Len(s) \in Nat \ {0}
      /\ \A i \in 1..Len(t) : t[i] = s[i + 1]
  BY HeadTailProperties, EmptySeq
<1>2. DOMAIN t = 1..Len(t) /\ DOMAIN s = 1..Len(s) /\ Head(s) = s[1]
  BY <1>1
<1> HIDE DEF t
<1>3. \A i \in 1..Len(t) : i + 1 \in 1..Len(s)
  BY <1>1
<1>4. 1 \in 1..Len(s)
  BY <1>1
<1> QED
  BY <1>1, <1>2, <1>3, <1>4 DEF t

-----------------------------------------------------------------------------
(***************************************************************************)
(* The connections, one at a time.                                         *)
(***************************************************************************)

\* What a client may be given to send after its MSG_JOIN.
Plain(t) == EndsWhole(t) /\ \A j \in DOMAIN t : t[j] # Join1

\* A step that leaves the socket and its events alone: it may take the client off
\* the table and give it other Messages to send.
LEMMA ConnKept ==
    ASSUME NEW c \in Clients, ConnOK(c), conn'[c] = conn[c], c \in batch' <=> c \in batch,
           Contains(backlog', c) => Contains(backlog, c), Contains(table', c) => Contains(table, c),
           todo'[c] = todo[c] \/ Plain(todo'[c])
    PROVE  ConnOK(c)'
<1>1. GoneIsClean(c)' /\ BacklogIsNew(c)'
  BY DEF ConnOK, GoneIsClean, BacklogIsNew, Is
<1>2. JoinIsFirst(c)' /\ EndsWhole(todo'[c])
  BY DEF ConnOK, JoinIsFirst, Plain
<1>3. Pending(c)' = Pending(c)
  BY DEF Pending
<1>4. Covered(c)' /\ AllReadable(c)'
  BY <1>3 DEF ConnOK, Covered, AllReadable, Is
<1> QED
  BY <1>1, <1>2, <1>4 DEF ConnOK, EndsWhole

\* A connection that is closed, or begins.
LEMMA ConnFresh ==
    ASSUME NEW c \in Clients, NEW st, conn'[c] = Fresh(st), ~Contains(table', c),
           st \in {"none", "closed"} => ~Contains(backlog', c), st # "closed" => c \notin batch',
           todo'[c] \in {<<>>, Halves("join")}
    PROVE  ConnOK(c)'
<1>1. /\ conn'[c].st = st /\ conn'[c].inq = <<>> /\ ~conn'[c].edge /\ ~conn'[c].late
      /\ Len(conn'[c].inq) = 0 /\ DOMAIN conn'[c].inq = {}
  BY DEF Fresh
<1>2. GoneIsClean(c)' /\ BacklogIsNew(c)'
  BY <1>1 DEF GoneIsClean, BacklogIsNew, Is
<1>3. Pending(c)' \in {0, 1} /\ (st # "closed" => Pending(c)' = 0)
  BY <1>1 DEF Pending
<1>4. Covered(c)' /\ AllReadable(c)'
  BY <1>1, <1>3 DEF Covered, AllReadable, Is
<1>5. JoinIsFirst(c)' /\ EndsWhole(todo'[c])
  <2>1. CASE todo'[c] = <<>>
    BY <1>1, <2>1 DEF JoinIsFirst, EndsWhole
  <2>2. CASE todo'[c] = Halves("join")
    <3>1. /\ DOMAIN todo'[c] = 1..2 /\ todo'[c][1].part = 1 /\ todo'[c][2].part = 2
      BY <2>2 DEF Halves
    <3>2. Join1.part = 1
      BY DEF Join1
    <3> QED
      BY <1>1, <3>1, <3>2 DEF JoinIsFirst, EndsWhole
  <2> QED
    BY <2>1, <2>2
<1> QED
  BY <1>2, <1>4, <1>5 DEF ConnOK, EndsWhole

LEMMA HalvesFacts ==
    ASSUME NEW m \in Kinds
    PROVE  /\ Halves(m) \in Seq(Half) /\ Len(Halves(m)) = 2 /\ Halves(m) # <<>>
           /\ DOMAIN Halves(m) = 1..2 /\ \A k \in 1..2 : Halves(m)[k].kind = m
<1>1. [kind |-> m, part |-> 1] \in Half /\ [kind |-> m, part |-> 2] \in Half
  BY DEF Half
<1> QED
  BY <1>1 DEF Halves

\* Data, FIN or RST arrives.
LEMMA ConnArrives ==
    ASSUME NEW c \in Clients, conn \in [Clients -> Socket], ConnOK(c), ~Is(c, "none"), ~Is(c, "closed"),
           NEW st \in States \ {"none", "closed"}, NEW data \in Seq(Half), Len(data) <= 2,
           data # <<>> => st = "ok" /\ Is(c, "ok"),
           \A j \in DOMAIN data : data[j] = Join1 => j = 1 /\ conn[c].inq = <<>> /\ ~Contains(table, c),
           data = <<>> => st # "ok", UNCHANGED <<backlog, batch, table>>,
           (data = <<>> /\ todo'[c] = todo[c]) \/ Plain(todo'[c]),
           Arrive(c, st, data)
    PROVE  ConnOK(c)' /\ conn'[c] \in Socket /\ ~Is(c, "closed")'
<1> DEFINE q == conn[c].inq
           new == conn'[c].inq
           P == Pending(c)
<1>1. /\ conn'[c].st = st /\ new = q \o data /\ conn'[c].edge = TRUE
      /\ conn'[c].late = (conn[c].late \/ conn[c].edge)
      /\ conn'[c].spare = (conn[c].spare \/ Len(data) = 1)
  BY DEF Arrive
<1>2. /\ conn[c] \in Socket /\ q \in Seq(Half) /\ conn[c].late \in BOOLEAN /\ conn[c].edge \in BOOLEAN
      /\ conn[c].spare \in BOOLEAN
  BY DEF Socket
<1>3. Len(data) \in {0, 1, 2} /\ (Len(data) = 0 <=> data = <<>>) /\ DOMAIN data = 1..Len(data)
  <2>1. Len(data) \in Nat /\ (Len(data) = 0 <=> data = <<>>) /\ DOMAIN data = 1..Len(data)
    BY EmptySeq, LenProperties
  <2>2. \A l \in Nat : l <= 2 => l \in {0, 1, 2}
    OBVIOUS
  <2> QED
    BY <2>1, <2>2
<1>4. /\ new \in Seq(Half) /\ Len(new) = Len(q) + Len(data) /\ DOMAIN new = 1..Len(q) + Len(data)
      /\ \A i \in 1..Len(q) + Len(data) : new[i] = IF i <= Len(q) THEN q[i] ELSE data[i - Len(q)]
  BY <1>1, <1>2, ConcatProperties, LenProperties
<1>5. Len(q) \in Nat /\ DOMAIN q = 1..Len(q) /\ (Len(q) = 0 <=> q = <<>>)
  BY <1>2, EmptySeq, LenProperties
<1>6. conn'[c] \in Socket
  BY <1>1, <1>2, <1>4 DEF Arrive, Socket
<1>7. GoneIsClean(c)' /\ BacklogIsNew(c)' /\ ~Is(c, "closed")'
  BY <1>1 DEF ConnOK, GoneIsClean, BacklogIsNew, Is
<1>8. /\ P \in Nat /\ Pending(c)' \in Nat /\ Pending(c)' <= P + 1
      /\ ~conn[c].edge => Pending(c)' = P + 1
  BY <1>1, <1>2 DEF Pending
<1>9. Covered(c) /\ AllReadable(c)
  BY DEF ConnOK
<1>10. data # <<>> \/ new = q
  BY <1>1, <1>2, ConcatEmptySeq
<1> HIDE DEF q, new, P
<1>11. Covered(c)'
  <2> SUFFICES ASSUME ~conn'[c].late
               PROVE  Len(new) <= 2 * Pending(c)' /\ (st # "ok" => Len(new) + 2 <= 2 * Pending(c)')
    BY <1>1 DEF Covered, Is, new
  <2>1. ~conn[c].late /\ ~conn[c].edge
    BY <1>1
  <2>2. Len(q) <= 2 * P /\ Pending(c)' = P + 1
    BY <1>8, <1>9, <2>1 DEF Covered, q, P
  <2>3. st # "ok" => Len(data) = 0
    BY <1>3
  <2> QED
    BY <1>3, <1>4, <1>5, <1>8, <2>2, <2>3
<1>12. AllReadable(c)'
  <2> SUFFICES ASSUME st = "ok", ~conn'[c].spare PROVE Len(new) >= 2 * Pending(c)'
    BY <1>1 DEF AllReadable, Is, new
  <2>1. Len(data) = 2 /\ ~conn[c].spare /\ Is(c, "ok")
    BY <1>1, <1>3
  <2>2. Len(q) >= 2 * P
    BY <1>9, <2>1 DEF AllReadable, q, P
  <2> QED
    BY <1>4, <1>5, <1>8, <2>1, <2>2
<1>13. JoinIsFirst(c) /\ EndsWhole(todo[c])
  BY DEF ConnOK
<1>14. ASSUME NEW j \in DOMAIN new, new[j] = Join1 PROVE j = 1 /\ ~Contains(table, c)
  <2>1. j \in 1..Len(q) + Len(data) /\ Len(data) \in Nat
    BY <1>3, <1>4, <1>14
  <2>2. CASE j <= Len(q)
    <3>1. j \in DOMAIN q /\ new[j] = q[j]
      BY <1>4, <1>5, <2>1, <2>2
    <3> QED
      BY <1>13, <1>14, <3>1 DEF JoinIsFirst, q
  <2>3. CASE ~(j <= Len(q))
    <3>1. j - Len(q) \in 1..Len(data)
      BY <1>5, <2>1, <2>3
    <3>2. new[j] = data[j - Len(q)]
      BY <1>4, <2>1, <2>3
    <3>3. j - Len(q) = 1 /\ q = <<>> /\ ~Contains(table, c)
      BY <1>3, <1>14, <3>1, <3>2 DEF q
    <3>4. j = 1
      BY <1>5, <2>1, <3>3
    <3> QED
      BY <3>3, <3>4
  <2> QED
    BY <2>2, <2>3
<1>15. JoinIsFirst(c)' /\ EndsWhole(todo'[c])
  BY <1>10, <1>13, <1>14 DEF JoinIsFirst, Plain, new, q
<1> QED
  BY <1>6, <1>7, <1>11, <1>12, <1>15 DEF ConnOK, EndsWhole

\* One recv for an event.  The client may enter the table when the two halves of its
\* MSG_JOIN were taken.
LEMMA ConnReceives ==
    ASSUME NEW c \in Clients, conn \in [Clients -> Socket], ConnOK(c), c \in batch, batch' = batch \ {c},
           NEW k \in 0..2, k <= Len(conn[c].inq), k = 2 \/ k = Len(conn[c].inq),
           conn'[c] = [conn[c] EXCEPT !.inq = SubSeq(@, k + 1, Len(@)),
                          !.late = @ /\ (k < Len(conn[c].inq) \/ ~Is(c, "ok"))],
           Contains(table', c) => Contains(table, c) \/ k = 2,
           conn[c].inq = <<>> => ~Contains(table', c),
           backlog' = backlog, todo'[c] = todo[c]
    PROVE  ConnOK(c)' /\ conn'[c] \in Socket
<1> DEFINE q == conn[c].inq
           n == Len(q)
           new == SubSeq(q, k + 1, n)
           P == Pending(c)
<1>1. conn[c] \in Socket /\ q \in Seq(Half) /\ conn[c].late \in BOOLEAN /\ conn[c].edge \in BOOLEAN
  BY DEF Socket
<1>2. n \in Nat /\ DOMAIN q = 1..n /\ (n = 0 <=> q = <<>>)
  BY <1>1, EmptySeq, LenProperties
<1>3. /\ new \in Seq(Half) /\ Len(new) = (IF k + 1 <= n THEN n - (k + 1) + 1 ELSE 0)
      /\ \A i \in 1..n - (k + 1) + 1 : new[i] = q[(k + 1) + i - 1]
  <2>1. k + 1 \in Int /\ n \in Int
    BY <1>2
  <2>2. \A i \in k + 1..n : q[i] \in Half
    BY <1>1, <1>2
  <2> HIDE DEF n
  <2> QED
    BY <2>1, <2>2, SubSeqProperties
<1>4. k <= n /\ (k = 2 \/ k = n) /\ Len(new) = n - k /\ Len(new) \in Nat /\ (Len(new) = 0 <=> new = <<>>)
  <2>1. k <= n /\ (k = 2 \/ k = n)
    OBVIOUS
  <2> HIDE DEF q, n, new
  <2>2. Len(new) = n - k /\ Len(new) \in Nat
    BY <1>2, <1>3, <2>1
  <2> QED
    BY <1>3, <2>1, <2>2, EmptySeq
<1>5. DOMAIN new = 1..n - k /\ \A i \in 1..n - k : k + i \in 1..n /\ new[i] = q[k + i]
  <2>1. DOMAIN new = 1..n - k
    BY <1>3, <1>4, LenProperties
  <2>2. \A i \in 1..n - k : k + i \in 1..n /\ (k + 1) + i - 1 = k + i
    BY <1>2
  <2>3. n - (k + 1) + 1 = n - k
    BY <1>2
  <2> QED
    BY <1>3, <2>1, <2>2, <2>3
<1>6. /\ conn'[c].st = conn[c].st /\ conn'[c].inq = new /\ conn'[c].edge = conn[c].edge
      /\ conn'[c].late = (conn[c].late /\ (k < n \/ ~Is(c, "ok"))) /\ conn'[c].spare = conn[c].spare
  BY <1>1 DEF Socket
<1>7. conn'[c] \in Socket
  BY <1>1, <1>3, <1>6 DEF Socket
<1>8. P \in Nat /\ Pending(c)' \in Nat /\ Pending(c)' = P - 1
  BY <1>1, <1>6 DEF Pending
<1>9. GoneIsClean(c) /\ BacklogIsNew(c) /\ JoinIsFirst(c) /\ EndsWhole(todo[c]) /\ Covered(c) /\ AllReadable(c)
  BY DEF ConnOK
<1>10. (q = <<>> => new = <<>> /\ ~Contains(table', c)) /\ (Contains(table', c) => Contains(table, c) \/ k = 2)
  <2>1. q = <<>> => ~Contains(table', c)
    OBVIOUS
  <2> HIDE DEF q, n, new
  <2> QED
    BY <1>2, <1>4, <2>1
<1> HIDE DEF q, n, new, P
<1>11. GoneIsClean(c)' /\ BacklogIsNew(c)'
  BY <1>6, <1>9, <1>10 DEF GoneIsClean, BacklogIsNew, Is, q
<1>12. Covered(c)'
  <2> SUFFICES ASSUME ~conn'[c].late
               PROVE  /\ Len(new) <= 2 * Pending(c)'
                      /\ ~Is(c, "ok") /\ (new # <<>> \/ Contains(table', c)) => Len(new) + 2 <= 2 * Pending(c)'
    BY <1>6 DEF Covered, Is
  <2>1. CASE ~conn[c].late
    <3>1. /\ n <= 2 * P
          /\ ~Is(c, "ok") /\ (q # <<>> \/ Contains(table, c)) => n + 2 <= 2 * P
      BY <1>9, <2>1 DEF Covered, q, n, P
    <3>2. Len(new) <= 2 * Pending(c)'
      BY <1>2, <1>4, <1>8, <3>1
    <3>3. ASSUME ~Is(c, "ok"), new # <<>> \/ Contains(table', c) PROVE Len(new) + 2 <= 2 * Pending(c)'
      <4>1. q # <<>> \/ Contains(table, c)
        BY <1>10, <3>3
      <4>2. n + 2 <= 2 * P
        BY <3>1, <3>3, <4>1
      <4>3. n > 0
        BY <1>2, <1>10, <3>3
      <4> QED
        BY <1>2, <1>4, <1>8, <4>2, <4>3
    <3> QED
      BY <3>2, <3>3
  <2>2. CASE conn[c].late
    <3>1. ~(k < n) /\ Is(c, "ok")
      BY <1>6, <2>2
    <3> QED
      BY <1>2, <1>4, <1>8, <3>1
  <2> QED
    BY <2>1, <2>2
<1>13. AllReadable(c)'
  <2> SUFFICES ASSUME Is(c, "ok"), ~conn[c].spare PROVE Len(new) >= 2 * Pending(c)'
    BY <1>6 DEF AllReadable, Is
  <2>1. n >= 2 * P
    BY <1>9 DEF AllReadable, q, n, P
  <2> QED
    BY <1>2, <1>4, <1>8, <2>1
<1>14. JoinIsFirst(c)'
  <2>1. ASSUME NEW j \in DOMAIN new, new[j] = Join1 PROVE FALSE
    <3>1. j \in 1..n - k /\ k + j \in DOMAIN q /\ q[k + j] = Join1
      BY <1>2, <1>5, <2>1
    <3>2. k + j = 1
      BY <1>9, <3>1 DEF JoinIsFirst, q
    <3>3. k = 0 /\ n # 0
      BY <1>2, <3>1, <3>2
    <3> QED
      BY <1>4, <3>3
  <2>2. ASSUME NEW j \in DOMAIN todo[c], todo[c][j] = Join1
        PROVE  j = 1 /\ new = <<>> /\ ~Contains(table', c)
    BY <1>9, <1>10, <2>2 DEF JoinIsFirst, q
  <2> QED
    BY <1>6, <2>1, <2>2 DEF JoinIsFirst
<1> QED
  BY <1>7, <1>9, <1>11, <1>12, <1>13, <1>14 DEF ConnOK, EndsWhole

-----------------------------------------------------------------------------
(***************************************************************************)
(* The calls of broadcast_message.                                         *)
(***************************************************************************)

\* close is for ever.
ClosedStays == \A c \in Clients : Is(c, "closed") => Is(c, "closed")'

LEMMA StackNext ==
    ASSUME stack' \in Seq(Frame), \A f \in Frame : (\E k \in DOMAIN stack' : stack'[k] = f) => CallOK(f)'
    PROVE  StackOK'
<1> SUFFICES ASSUME NEW k \in DOMAIN stack' PROVE CallOK(stack[k])'
  BY DEF StackOK
<1>1. stack'[k] \in Frame
  OBVIOUS
<1> QED
  BY <1>1 DEF CallOK, Ahead, Passed, Lost

LEMMA CallKept ==
    ASSUME NEW f \in Frame, CallOK(f), table' = table, ClosedStays
    PROVE  CallOK(f)'
BY DEF CallOK, Ahead, Passed, Lost, ClosedStays

\* A client is taken off the table under the loop.
LEMMA CallRemoved ==
    ASSUME TypeOK, NEW f \in Frame, CallOK(f), NEW c \in Clients, Contains(table, c),
           table' = RemoveFirst(table, c), ClosedStays, Is(c, "closed")'
    PROVE  CallOK(f)'
<1> SUFFICES ASSUME f \in Call PROVE IsInjective(f.sentTo) /\ Ahead(f)' /\ (Passed(f)' \/ Lost(f)')
  BY DEF CallOK
<1>1. IsInjective(f.sentTo) /\ Ahead(f) /\ (Passed(f) \/ Lost(f)) /\ f.i \in Nat
  BY DEF CallOK, Call
<1>2. PICK k \in 1..Len(table) : table[k] = c
  BY DEF Contains
<1>3. table \in Seq(Clients) /\ IsInjective(table) /\ Len(table) \in Nat
  BY DEF TypeOK
<1>4. /\ Len(table') = Len(table) - 1
      /\ \A j \in 1..Len(table) - 1 : table'[j] = IF j < k THEN table[j] ELSE table[j + 1]
  BY <1>2, <1>3, RemoveFacts
<1>5. Ahead(f)'
  <2> SUFFICES ASSUME NEW j \in 1..Len(table) - 1, j >= f.i PROVE table'[j] \notin ToSet(f.sentTo)
    BY <1>4 DEF Ahead
  <2>1. j \in 1..Len(table) /\ j + 1 \in 1..Len(table) /\ j + 1 >= f.i
    BY <1>1, <1>3
  <2> QED
    BY <1>1, <1>4, <2>1 DEF Ahead
<1>6. CASE Lost(f)
  BY <1>1, <1>5, <1>6 DEF Lost, ClosedStays
<1>7. CASE Passed(f) /\ k < f.i
  BY <1>1, <1>2, <1>5, <1>7 DEF Passed, Lost
<1>8. CASE Passed(f) /\ ~(k < f.i)
  <2>1. \A j \in 1..Len(table) - 1 : j < f.i => j < k /\ j \in 1..Len(table)
    BY <1>1, <1>2, <1>3, <1>8
  <2>2. Passed(f)'
    BY <1>4, <1>8, <2>1 DEF Passed
  <2> QED
    BY <1>1, <1>5, <2>2
<1> QED
  BY <1>1, <1>6, <1>7, <1>8

\* A call that begins has passed nobody.
LEMMA CallBegins ==
    ASSUME table' \in Seq(Clients), NEW c \in 0 .. N
    PROVE  /\ Broadcast(c) \in Frame /\ Shutdown \in Frame
           /\ CallOK(Broadcast(c))' /\ CallOK(Shutdown)'
<1>1. Broadcast(c) \in Call /\ Shutdown \in Call
  <2>1. None \in 0 .. N /\ 1 \in Nat \ {0} /\ <<>> \in Seq(Clients)
    BY TcpAssumption DEF None
  <2> QED
    BY <2>1 DEF Broadcast, Shutdown, Call
<1>2. ASSUME NEW f, f.sentTo = <<>>, f.i = 1 PROVE CallOK(f)'
  <2>1. IsInjective(f.sentTo) /\ ToSet(f.sentTo) = {}
    BY <1>2 DEF IsInjective, ToSet
  <2>2. \A j \in 1..Len(table') : ~(j < 1)
    OBVIOUS
  <2> QED
    BY <1>2, <2>1, <2>2 DEF CallOK, Ahead, Passed
<1>3. CallOK(Broadcast(c))'
  BY <1>2 DEF Broadcast
<1>4. CallOK(Shutdown)'
  BY <1>2 DEF Shutdown
<1> QED
  BY <1>1, <1>3, <1>4 DEF Frame

\* A turn that passes the sender, or sends.
LEMMA CallTurns ==
    ASSUME TypeOK, NEW f \in Call, CallOK(f), f.i <= Len(table), table' = table, ClosedStays, NEW g \in Call,
           \/ table[f.i] = f.from /\ g = [f EXCEPT !.i = @ + 1]
           \/ g = [f EXCEPT !.i = @ + 1, !.sentTo = Append(@, table[f.i])]
    PROVE  CallOK(g)'
<1> DEFINE c == table[f.i]
<1>1. /\ IsInjective(f.sentTo) /\ Ahead(f) /\ (Passed(f) \/ Lost(f)) /\ f.i \in Nat \ {0}
      /\ f.sentTo \in Seq(Clients)
  BY DEF CallOK, Call
<1>2. table \in Seq(Clients) /\ IsInjective(table) /\ Len(table) \in Nat /\ f.i \in 1..Len(table)
      /\ DOMAIN table = 1..Len(table) /\ c \in Clients
  BY <1>1 DEF TypeOK
<1>3. /\ g.i = f.i + 1 /\ g.from = f.from
      /\ \/ g.sentTo = f.sentTo /\ c = f.from
         \/ g.sentTo = Append(f.sentTo, c)
  BY DEF Call
<1>4. c \notin ToSet(f.sentTo)
  BY <1>1, <1>2 DEF Ahead
<1>5. /\ IsInjective(g.sentTo)
      /\ \/ ToSet(g.sentTo) = ToSet(f.sentTo) /\ c = f.from
         \/ ToSet(g.sentTo) = ToSet(f.sentTo) \union {c}
  <2>1. IsInjective(Append(f.sentTo, c)) /\ ToSet(Append(f.sentTo, c)) = ToSet(f.sentTo) \union {c}
    <3> HIDE DEF c
    <3> QED
      BY <1>1, <1>2, <1>4, AppendOnce
  <2> QED
    BY <1>1, <1>3, <2>1
<1>6. Ahead(g)'
  <2> SUFFICES ASSUME NEW j \in 1..Len(table), j >= f.i + 1 PROVE table[j] \notin ToSet(g.sentTo)
    BY <1>3 DEF Ahead
  <2>1. j >= f.i /\ j # f.i
    BY <1>1, <1>2
  <2>2. table[j] # c /\ table[j] \notin ToSet(f.sentTo)
    BY <1>1, <1>2, <2>1 DEF IsInjective, Ahead
  <2> QED
    BY <1>5, <2>2
<1>7. CASE Lost(f)
  <2>1. Lost(g)'
    BY <1>3, <1>5, <1>7 DEF Lost, ClosedStays
  <2> QED
    BY <1>5, <1>6, <2>1 DEF CallOK
<1>8. CASE Passed(f)
  <2>1. \A j \in 1..Len(table) : j < f.i + 1 => j < f.i \/ j = f.i
    BY <1>1, <1>2
  <2>2. Passed(g)'
    BY <1>3, <1>5, <1>8, <2>1 DEF Passed
  <2> QED
    BY <1>5, <1>6, <2>2 DEF CallOK
<1> QED
  BY <1>1, <1>7, <1>8

-----------------------------------------------------------------------------
(***************************************************************************)
(* The steps of the clients and of the network.                            *)
(***************************************************************************)

LEMMA FreshSocket == \A st \in States : Fresh(st) \in Socket /\ Fresh(st).st = st
<1>1. <<>> \in Seq(Half)
  OBVIOUS
<1> QED
  BY <1>1 DEF Fresh, Socket

LEMMA StackSame ==
    ASSUME TcpInv, UNCHANGED <<stack, table>>, ClosedStays
    PROVE  stack' \in Seq(Frame) /\ StackOK'
<1>1. stack \in Seq(Frame)
  BY DEF TcpInv, TypeOK
<1>2. \A f \in Frame : (\E k \in DOMAIN stack : stack[k] = f) => CallOK(f)
  BY DEF TcpInv, StackOK
<1>3. \A f \in Frame : (\E k \in DOMAIN stack' : stack'[k] = f) => CallOK(f)'
  BY <1>2, CallKept
<1> QED
  BY <1>1, <1>3, StackNext

LEMMA ListenKept ==
    ASSUME ListenOK, UNCHANGED <<backlog, lis>>, Listener \in batch' <=> Listener \in batch
    PROVE  ListenOK'
BY DEF ListenOK

LEMMA ListenerIsNoClient == Listener \notin Clients /\ 0 .. N = Clients \union {Listener}
BY TcpAssumption DEF Listener, Clients

LEMMA ConnectKeeps ==
    ASSUME TcpInv, NEW c \in Clients, Connect(c)
    PROVE  TcpInv'
<1>1. TypeOK /\ (\A d \in Clients : ConnOK(d)) /\ ListenOK
  BY DEF TcpInv
<1>2. /\ conn' = [conn EXCEPT ![c] = Fresh("ok")] /\ backlog' = Append(backlog, c)
      /\ lis' = [edge |-> TRUE, late |-> lis.late \/ lis.edge]
      /\ todo' = [todo EXCEPT ![c] = Halves("join")] /\ UNCHANGED <<srv, batch, table, stack>> /\ Is(c, "none")
  BY DEF Connect
<1>3. /\ conn \in [Clients -> Socket] /\ backlog \in Seq(Clients) /\ lis \in [edge : BOOLEAN, late : BOOLEAN]
      /\ todo \in [Clients -> Seq(Half)]
  BY <1>1 DEF TypeOK
<1>4. /\ conn' \in [Clients -> Socket] /\ conn'[c] = Fresh("ok")
      /\ \A d \in Clients : d # c => conn'[d] = conn[d]
  BY <1>2, <1>3, FreshSocket DEF States
<1>5. /\ todo' \in [Clients -> Seq(Half)] /\ todo'[c] = Halves("join")
      /\ \A d \in Clients : d # c => todo'[d] = todo[d]
  <2>1. Halves("join") \in Seq(Half)
    BY HalvesFacts DEF Kinds
  <2> QED
    BY <1>2, <1>3, <2>1
<1>6. ClosedStays
  BY <1>2, <1>4 DEF ClosedStays, Is
<1>7. stack' \in Seq(Frame) /\ StackOK'
  BY <1>2, <1>6, StackSame
<1>8. TypeOK'
  <2>1. IsInjective(backlog) /\ ~Contains(backlog, c)
    BY <1>1, <1>2 DEF TypeOK, ConnOK, GoneIsClean
  <2>2. backlog' \in Seq(Clients) /\ IsInjective(backlog')
    BY <1>2, <1>3, <2>1, AppendInjectiveTable
  <2> QED
    BY <1>1, <1>2, <1>3, <1>4, <1>5, <1>7, <2>2 DEF TypeOK
<1>9. ASSUME NEW d \in Clients PROVE ConnOK(d)'
  <2>1. CASE d = c
    <3>1. ~Contains(table', c) /\ c \notin batch'
      BY <1>1, <1>2 DEF ConnOK, GoneIsClean
    <3> QED
      BY <1>4, <1>5, <2>1, <3>1, ConnFresh
  <2>2. CASE d # c
    <3>1. Contains(backlog', d) <=> Contains(backlog, d)
      BY <1>2, <1>3, <2>2, ContainsAppend
    <3> QED
      BY <1>1, <1>2, <1>4, <1>5, <2>2, <3>1, ConnKept
  <2> QED
    BY <2>1, <2>2
<1>10. ListenOK'
  <2>1. Len(backlog) \in Nat /\ Len(backlog') = Len(backlog) + 1
    BY <1>2, <1>3, AppendProperties
  <2>2. lis'.edge /\ lis'.late = (lis.late \/ lis.edge)
    BY <1>2
  <2> SUFFICES ASSUME ~lis'.late PROVE Len(backlog') <= 1 + (IF Listener \in batch THEN 1 ELSE 0)
    BY <1>2, <2>2 DEF ListenOK
  <2>3. Len(backlog) <= 0 + (IF Listener \in batch THEN 1 ELSE 0)
    BY <1>1, <2>2 DEF ListenOK
  <2> QED
    BY <2>1, <2>3
<1> QED
  BY <1>7, <1>8, <1>9, <1>10 DEF TcpInv

LEMMA ArriveKeeps ==
    ASSUME TcpInv, NEW c \in Clients, ~Is(c, "none"), ~Is(c, "closed"),
           NEW st \in States \ {"none", "closed"}, NEW data \in Seq(Half), Len(data) <= 2,
           data # <<>> => st = "ok" /\ Is(c, "ok"),
           \A j \in DOMAIN data : data[j] = Join1 => j = 1 /\ conn[c].inq = <<>> /\ ~Contains(table, c),
           data = <<>> => st # "ok", UNCHANGED <<srv, backlog, lis, batch, table, stack>>,
           todo' \in [Clients -> Seq(Half)], \A d \in Clients : d # c => todo'[d] = todo[d],
           (data = <<>> /\ todo'[c] = todo[c]) \/ Plain(todo'[c]),
           Arrive(c, st, data)
    PROVE  TcpInv'
<1>1. TypeOK /\ (\A d \in Clients : ConnOK(d)) /\ ListenOK /\ conn \in [Clients -> Socket]
  BY DEF TcpInv, TypeOK
<1>2. ConnOK(c)' /\ conn'[c] \in Socket /\ ~Is(c, "closed")'
  BY <1>1, ConnArrives
<1>3. \A d \in Clients : d # c => conn'[d] = conn[d]
  BY <1>1 DEF Arrive
<1>4. conn' \in [Clients -> Socket]
  <2>1. conn' = [conn EXCEPT ![c] = conn'[c]]
    BY <1>1 DEF Arrive
  <2> QED
    BY <1>1, <1>2, <2>1
<1>5. ClosedStays
  BY <1>3 DEF ClosedStays, Is
<1>6. stack' \in Seq(Frame) /\ StackOK'
  BY <1>5, StackSame
<1>7. TypeOK'
  BY <1>1, <1>4, <1>6 DEF TypeOK
<1>8. \A d \in Clients : d # c => ConnOK(d)'
  BY <1>1, <1>3, ConnKept
<1>9. ListenOK'
  BY <1>1 DEF ListenOK
<1> QED
  BY <1>2, <1>6, <1>7, <1>8, <1>9 DEF TcpInv

\* A step that changes what a client has still to send and nothing else the
\* server sees.
LEMMA TodoKeeps ==
    ASSUME TcpInv, UNCHANGED <<srv, backlog, lis, conn, batch, table, stack>>, todo' \in [Clients -> Seq(Half)],
           \A c \in Clients : todo'[c] = todo[c] \/ Plain(todo'[c])
    PROVE  TcpInv'
<1>1. TypeOK /\ (\A d \in Clients : ConnOK(d)) /\ ListenOK
  BY DEF TcpInv
<1>2. ClosedStays
  BY DEF ClosedStays, Is
<1>3. stack' \in Seq(Frame) /\ StackOK'
  BY <1>2, StackSame
<1>4. TypeOK'
  BY <1>1, <1>3 DEF TypeOK
<1>5. \A d \in Clients : ConnOK(d)'
  BY <1>1, ConnKept
<1>6. ListenOK'
  BY <1>1 DEF ListenOK
<1> QED
  BY <1>3, <1>4, <1>5, <1>6 DEF TcpInv

\* Whole Messages that are not MSG_JOIN.
LEMMA RepeatedFacts ==
    ASSUME NEW m \in Kinds \ {"join"}, NEW n \in Nat
    PROVE  Repeated(m, n) \in Seq(Half) /\ Plain(Repeated(m, n))
<1> DEFINE t == Repeated(m, n)
           half(j) == [kind |-> m, part |-> IF j % 2 = 1 THEN 1 ELSE 2]
<1>1. 2 * n \in Nat /\ t = [j \in 1 .. 2 * n |-> half(j)]
  BY DEF Repeated
<1>2. \A j \in 1 .. 2 * n : half(j) \in Half
  BY DEF Half
<1>3. ASSUME NEW j \in 1 .. 2 * n PROVE t[j].kind = m /\ (t[j].part = 1 => j % 2 = 1)
  BY <1>1
<1>4. t \in Seq(Half) /\ DOMAIN t = 1 .. 2 * n
  <2> HIDE DEF half
  <2> QED
    BY <1>1, <1>2
<1> HIDE DEF t
<1>5. ASSUME NEW j \in 1 .. 2 * n, j % 2 = 1 PROVE j + 1 \in 1 .. 2 * n
  BY <1>5
<1>6. Join1.kind = "join"
  BY DEF Join1
<1>7. Plain(t)
  BY <1>3, <1>4, <1>5, <1>6 DEF Plain, EndsWhole
<1> QED
  BY <1>4, <1>7 DEF t

LEMMA HandleUserInputKeeps ==
    ASSUME TcpInv, NEW c \in Clients, HandleUserInput(c)
    PROVE  TcpInv'
<1>1. PICK cmd \in Commands : todo' = [todo EXCEPT ![c] = cmd]
  BY DEF HandleUserInput
<1>2. cmd \in Seq(Half) /\ Plain(cmd)
  <2>1. FileMsgs \in Nat /\ 1 \in Nat /\ "chat" \in Kinds \ {"join"} /\ "ask" \in Kinds \ {"join"}
    BY TcpAssumption DEF Kinds
  <2> QED
    BY <2>1, RepeatedFacts DEF Commands
<1>3. todo \in [Clients -> Seq(Half)]
  BY DEF TcpInv, TypeOK
<1>4. todo' \in [Clients -> Seq(Half)] /\ \A d \in Clients : todo'[d] = IF d = c THEN cmd ELSE todo[d]
  BY <1>1, <1>2, <1>3
<1>5. UNCHANGED <<srv, backlog, lis, conn, batch, table, stack>>
  BY DEF HandleUserInput
<1> QED
  BY <1>2, <1>4, <1>5, TodoKeeps

\* The first k halves go, as much as there is of one Message or less.
LEMMA SegmentKeeps ==
    ASSUME TcpInv, NEW c \in Clients, Is(c, "ok"), todo[c] # <<>>, NEW k \in 1..Left(c), Segment(c, k),
           UNCHANGED <<srv, backlog, lis, batch, table, stack>>
    PROVE  TcpInv'
<1> DEFINE s == todo[c]
           n == Len(s)
           data == SubSeq(s, 1, k)
           rest == SubSeq(s, k + 1, n)
<1>1. todo \in [Clients -> Seq(Half)] /\ s \in Seq(Half) /\ s # <<>> /\ JoinIsFirst(c) /\ EndsWhole(s)
  BY DEF TcpInv, TypeOK, ConnOK
<1>2. n \in Nat \ {0} /\ DOMAIN s = 1..n /\ Head(s) = s[1]
  BY <1>1, EmptySeq, LenProperties
<1>3. k \in {1, 2} /\ k <= n
  <2>1. CASE s[1].part = 1
    <3>1. Left(c) = 2 /\ 2 \in DOMAIN s
      BY <1>1, <1>2, <2>1 DEF Left, EndsWhole
    <3> QED
      BY <1>2, <3>1
  <2>2. CASE s[1].part # 1
    <3>1. Left(c) = 1
      BY <1>2, <2>2 DEF Left
    <3> QED
      BY <1>2, <3>1
  <2> QED
    BY <2>1, <2>2
<1>4. /\ data \in Seq(Half) /\ Len(data) = k /\ DOMAIN data = 1..k /\ data # <<>>
      /\ \A i \in 1..k : data[i] = s[i]
  <2>1. 1 \in Int /\ k \in Int /\ \A i \in 1..k : s[i] \in Half /\ 1 + i - 1 = i
    BY <1>1, <1>2, <1>3
  <2>2. 1 <= k /\ k - 1 + 1 = k
    BY <1>3
  <2>3. /\ data \in Seq(Half) /\ Len(data) = IF 1 <= k THEN k - 1 + 1 ELSE 0
        /\ \A i \in 1..k - 1 + 1 : data[i] = s[1 + i - 1]
    BY <2>1, SubSeqProperties
  <2>4. data \in Seq(Half) /\ Len(data) = k /\ \A i \in 1..k : data[i] = s[i]
    BY <2>1, <2>2, <2>3
  <2> HIDE DEF data
  <2>5. data # <<>> /\ DOMAIN data = 1..k
    BY <1>3, <2>4, EmptySeq, LenProperties
  <2> QED
    BY <2>4, <2>5
<1>5. rest \in Seq(Half) /\ DOMAIN rest = 1..n - k /\ \A i \in 1..n - k : k + i \in 1..n /\ rest[i] = s[k + i]
  <2>1. k + 1 \in Int /\ n \in Int /\ \A i \in k + 1..n : s[i] \in Half
    BY <1>1, <1>2, <1>3
  <2>2. \A i \in 1..n - k : k + i \in 1..n /\ (k + 1) + i - 1 = k + i
    BY <1>2, <1>3
  <2>3. n - (k + 1) + 1 = n - k /\ (k + 1 <= n \/ n - k = 0)
    BY <1>2, <1>3
  <2> HIDE DEF n
  <2>4. /\ rest \in Seq(Half) /\ Len(rest) = IF k + 1 <= n THEN n - (k + 1) + 1 ELSE 0
        /\ \A i \in 1..n - (k + 1) + 1 : rest[i] = s[(k + 1) + i - 1]
    BY <2>1, SubSeqProperties
  <2>5. rest \in Seq(Half) /\ Len(rest) = n - k /\ \A i \in 1..n - k : rest[i] = s[k + i]
    BY <2>2, <2>3, <2>4
  <2> HIDE DEF rest
  <2>6. DOMAIN rest = 1..n - k
    BY <2>5, LenProperties
  <2> QED
    BY <2>2, <2>5, <2>6
<1>6. todo' = [todo EXCEPT ![c] = rest] /\ Arrive(c, "ok", data)
  BY DEF Segment
<1> HIDE DEF s, n, data, rest
<1>7. Plain(rest)
  <2>1. ASSUME NEW j \in DOMAIN rest, rest[j].part = 1 PROVE j + 1 \in DOMAIN rest
    <3>1. j \in 1..n - k /\ k + j \in DOMAIN s /\ s[k + j].part = 1
      BY <1>2, <1>5, <2>1
    <3>2. (k + j) + 1 \in 1..n
      BY <1>1, <1>2, <3>1 DEF EndsWhole
    <3> QED
      BY <1>2, <1>3, <1>5, <3>1, <3>2
  <2>2. ASSUME NEW j \in DOMAIN rest, rest[j] = Join1 PROVE FALSE
    <3>1. j \in 1..n - k /\ k + j \in DOMAIN s /\ s[k + j] = Join1
      BY <1>2, <1>5, <2>2
    <3>2. k + j = 1
      BY <1>1, <3>1 DEF JoinIsFirst, s
    <3> QED
      BY <1>2, <1>3, <3>1, <3>2
  <2> QED
    BY <2>1, <2>2 DEF Plain, EndsWhole
<1>8. \A j \in DOMAIN data : data[j] = Join1 => j = 1 /\ conn[c].inq = <<>> /\ ~Contains(table, c)
  <2>1. \A j \in 1..k : j \in DOMAIN s
    BY <1>2, <1>3
  <2> QED
    BY <1>1, <1>4, <2>1 DEF JoinIsFirst, s
<1>9. /\ todo' \in [Clients -> Seq(Half)] /\ todo'[c] = rest
      /\ \A d \in Clients : d # c => todo'[d] = todo[d]
  BY <1>1, <1>5, <1>6
<1>10. ~Is(c, "none") /\ ~Is(c, "closed") /\ "ok" \in States \ {"none", "closed"}
  BY DEF Is, States
<1>11. Len(data) <= 2
  BY <1>3, <1>4
<1> QED
  BY <1>4, <1>6, <1>7, <1>8, <1>9, <1>10, <1>11, ArriveKeeps

LEMMA ClientSendKeeps ==
    ASSUME TcpInv, NEW c \in Clients, ClientSend(c)
    PROVE  TcpInv'
<1>1. Is(c, "ok") /\ todo[c] # <<>> /\ UNCHANGED <<srv, backlog, lis, batch, table, stack>>
  BY DEF ClientSend
<1>2. Left(c) \in 1..Left(c) /\ 1 \in 1..Left(c)
  BY DEF Left
<1>3. \E k \in 1..Left(c) : Segment(c, k)
  BY <1>2 DEF ClientSend
<1> QED
  BY <1>1, <1>3, SegmentKeeps

LEMMA ClientKilledKeeps ==
    ASSUME TcpInv, NEW c \in Clients, ClientKilled(c)
    PROVE  TcpInv'
<1> DEFINE st == IF unread[c] = 0 THEN "fin" ELSE "rst"
<1>1. UNCHANGED <<srv, backlog, lis, batch, table, stack>> /\ Arrive(c, st, <<>>)
  BY DEF ClientKilled
<1>2. st \in States \ {"none", "closed"} /\ st # "ok"
  BY DEF States
<1>3. ~Is(c, "none") /\ ~Is(c, "closed")
  BY DEF ClientKilled, Is
<1>4. todo \in [Clients -> Seq(Half)] /\ <<>> \in Seq(Half)
  BY DEF TcpInv, TypeOK
<1>5. todo' = [d \in Clients |-> IF d \in {c} THEN <<>> ELSE todo[d]]
  BY DEF ClientKilled, Exits
<1>6. todo' \in [Clients -> Seq(Half)] /\ todo'[c] = <<>> /\ \A d \in Clients : d # c => todo'[d] = todo[d]
  BY <1>4, <1>5
<1>7. Plain(todo'[c])
  BY <1>6 DEF Plain, EndsWhole
<1>8. <<>> \in Seq(Half) /\ Len(<<>>) <= 2 /\ DOMAIN <<>> = {}
  OBVIOUS
<1> HIDE DEF st
<1> QED
  BY <1>1, <1>2, <1>3, <1>6, <1>7, <1>8, ArriveKeeps

LEMMA RstArrivesKeeps ==
    ASSUME TcpInv, NEW c \in Clients, RstArrives(c)
    PROVE  TcpInv'
<1>1. UNCHANGED <<srv, backlog, lis, batch, table, stack, todo>> /\ Arrive(c, "broken", <<>>)
  BY DEF RstArrives, clientVars
<1>2. "broken" \in States \ {"none", "closed"} /\ ~Is(c, "none") /\ ~Is(c, "closed")
  BY DEF RstArrives, Is, States
<1>3. todo' \in [Clients -> Seq(Half)]
  BY <1>1 DEF TcpInv, TypeOK
<1>4. <<>> \in Seq(Half) /\ Len(<<>>) <= 2 /\ DOMAIN <<>> = {}
  OBVIOUS
<1> QED
  BY <1>1, <1>2, <1>3, <1>4, ArriveKeeps

\* An event that was a closed socket's is no more, or has become that of a new one.
LEMMA ConnRelieved ==
    ASSUME NEW c \in Clients, ConnOK(c), Is(c, "closed"), conn'[c] = conn[c],
           UNCHANGED <<table, todo>>, Contains(backlog', c) => Contains(backlog, c)
    PROVE  ConnOK(c)'
<1>1. GoneIsClean(c)' /\ BacklogIsNew(c)' /\ JoinIsFirst(c)' /\ EndsWhole(todo'[c])
  BY DEF ConnOK, GoneIsClean, BacklogIsNew, JoinIsFirst, Is
<1>2. /\ conn'[c].st = "closed" /\ conn'[c].inq = <<>> /\ Len(conn'[c].inq) = 0 /\ ~Contains(table', c)
      /\ Pending(c)' \in Nat
  BY DEF ConnOK, GoneIsClean, Pending, Is
<1>3. Covered(c)' /\ AllReadable(c)'
  BY <1>2 DEF Covered, AllReadable, Is
<1> QED
  BY <1>1, <1>3 DEF ConnOK, EndsWhole

LEMMA ConnEarly ==
    ASSUME NEW c \in Clients, conn \in [Clients -> Socket], ConnOK(c), Contains(backlog, c), ~Contains(backlog', c),
           conn'[c] = [conn[c] EXCEPT !.spare = TRUE], c \in batch', UNCHANGED <<table, todo>>
    PROVE  ConnOK(c)' /\ conn'[c] \in Socket /\ ~Is(c, "closed")
<1>1. conn[c] \in Socket /\ conn[c].inq \in Seq(Half) /\ conn[c].edge \in BOOLEAN
  BY DEF Socket
<1>2. /\ conn'[c].st = conn[c].st /\ conn'[c].inq = conn[c].inq /\ conn'[c].edge = conn[c].edge
      /\ conn'[c].late = conn[c].late /\ conn'[c].spare = TRUE /\ conn'[c] \in Socket
  BY <1>1 DEF Socket
<1>3. ~Is(c, "none") /\ ~Is(c, "closed") /\ c \notin batch
  BY DEF ConnOK, GoneIsClean, BacklogIsNew
<1>4. GoneIsClean(c)' /\ BacklogIsNew(c)' /\ JoinIsFirst(c)' /\ EndsWhole(todo'[c])
  BY <1>2, <1>3 DEF ConnOK, GoneIsClean, BacklogIsNew, JoinIsFirst, Is
<1>5. Pending(c) \in Nat /\ Pending(c)' = Pending(c) + 1 /\ Len(conn[c].inq) \in Nat
  BY <1>1, <1>2, <1>3 DEF Pending
<1>6. Covered(c)' /\ AllReadable(c)'
  <2>1. Covered(c)
    BY DEF ConnOK
  <2> QED
    BY <1>2, <1>5, <2>1 DEF Covered, AllReadable, Is
<1> QED
  BY <1>2, <1>3, <1>4, <1>6 DEF ConnOK, EndsWhole

\* What an accept does to the connections, whichever descriptor it returns.
LEMMA AcceptKeeps ==
    ASSUME TcpInv, HandleNewConnection
    PROVE  /\ conn' \in [Clients -> Socket] /\ batch' \subseteq 0 .. N /\ Listener \notin batch'
           /\ (\A d \in Clients : ConnOK(d)') /\ ClosedStays
<1>1. /\ (\A d \in Clients : ConnOK(d)) /\ conn \in [Clients -> Socket] /\ batch \subseteq 0 .. N
      /\ backlog \in Seq(Clients) /\ IsInjective(backlog)
  BY DEF TcpInv, TypeOK
<1>2. UNCHANGED <<table, todo>> /\ backlog' = IF backlog = <<>> THEN backlog ELSE Tail(backlog)
  BY DEF HandleNewConnection, clientVars
<1>3. \A d \in Clients : Contains(backlog', d) => Contains(backlog, d)
  BY <1>1, <1>2, ContainsTail
<1>4. CASE batch' = batch \ {Listener} /\ UNCHANGED conn
  <2>1. \A d \in Clients : d \in batch' <=> d \in batch
    BY <1>4, ListenerIsNoClient
  <2>2. \A d \in Clients : ConnOK(d)'
    BY <1>1, <1>2, <1>3, <1>4, <2>1, ConnKept
  <2> QED
    BY <1>1, <1>4, <2>2 DEF ClosedStays, Is
<1>5. ASSUME NEW c \in Clients, c \in batch, Is(c, "closed"), backlog # <<>>,
             batch' = (batch \ {Listener, c}) \union {Head(backlog)},
             conn' = [conn EXCEPT ![Head(backlog)].spare = TRUE]
      PROVE  /\ conn' \in [Clients -> Socket] /\ batch' \subseteq 0 .. N /\ Listener \notin batch'
             /\ (\A d \in Clients : ConnOK(d)') /\ ClosedStays
  <2>1. PICK e \in Clients : e = Head(backlog) /\ Contains(backlog, e) /\ ~Contains(backlog', e)
    BY <1>1, <1>2, <1>5, TailInjective
  <2>2. conn'[e] = [conn[e] EXCEPT !.spare = TRUE] /\ \A d \in Clients : d # e => conn'[d] = conn[d]
    BY <1>1, <1>5, <2>1
  <2>3. conn' = [conn EXCEPT ![e] = conn'[e]]
    BY <1>1, <1>5, <2>1
  <2>4. e \in batch' /\ batch' \subseteq 0 .. N /\ Listener \notin batch'
    BY <1>1, <1>5, <2>1, ListenerIsNoClient
  <2>5. \A d \in Clients : d # e /\ d # c => (d \in batch' <=> d \in batch)
    BY <1>5, <2>1, ListenerIsNoClient
  <2>6. ConnOK(e)' /\ conn'[e] \in Socket /\ ~Is(e, "closed")
    BY <1>1, <1>2, <2>1, <2>2, <2>4, ConnEarly
  <2>7. c # e
    BY <1>5, <2>6
  <2>8. ConnOK(c)'
    BY <1>1, <1>2, <1>3, <1>5, <2>2, <2>7, ConnRelieved
  <2>9. \A d \in Clients : d # e /\ d # c => ConnOK(d)'
    BY <1>1, <1>2, <1>3, <2>2, <2>5, ConnKept
  <2>10. conn' \in [Clients -> Socket]
    BY <1>1, <2>3, <2>6
  <2>11. ClosedStays
    BY <2>2, <2>6 DEF ClosedStays, Is
  <2> QED
    BY <2>4, <2>6, <2>8, <2>9, <2>10, <2>11
<1> QED
  BY <1>4, <1>5 DEF HandleNewConnection

LEMMA HandleNewConnectionKeeps ==
    ASSUME TcpInv, HandleNewConnection
    PROVE  TcpInv'
<1>1. TypeOK /\ ListenOK
  BY DEF TcpInv
<1>2. /\ UNCHANGED <<srv, table, stack, todo>> /\ Listener \in batch
      /\ backlog' = (IF backlog = <<>> THEN backlog ELSE Tail(backlog))
      /\ lis' = [lis EXCEPT !.late = @ /\ backlog' # <<>>]
  BY DEF HandleNewConnection, clientVars
<1>3. backlog \in Seq(Clients) /\ IsInjective(backlog) /\ lis \in [edge : BOOLEAN, late : BOOLEAN]
  BY <1>1 DEF TypeOK
<1>4. /\ conn' \in [Clients -> Socket] /\ batch' \subseteq 0 .. N /\ Listener \notin batch'
      /\ (\A d \in Clients : ConnOK(d)') /\ ClosedStays
  BY AcceptKeeps
<1>5. stack' \in Seq(Frame) /\ StackOK'
  BY <1>2, <1>4, StackSame
<1>6. /\ backlog' \in Seq(Clients) /\ IsInjective(backlog') /\ Len(backlog) \in Nat /\ Len(backlog') \in Nat
      /\ (Len(backlog') = 0 <=> backlog' = <<>>) /\ (Len(backlog') # 0 => Len(backlog') = Len(backlog) - 1)
  <2>1. CASE backlog = <<>>
    BY <1>2, <1>3, <2>1
  <2>2. CASE backlog # <<>>
    <3>1. backlog' = Tail(backlog)
      BY <1>2, <2>2
    <3>2. Tail(backlog) \in Seq(Clients) /\ Len(Tail(backlog)) = Len(backlog) - 1
      BY <1>3, <2>2, HeadTailProperties
    <3>3. \A r \in Seq(Clients) : Len(r) \in Nat /\ (Len(r) = 0 <=> r = <<>>)
      BY EmptySeq
    <3>4. IsInjective(Tail(backlog))
      BY <1>3, <2>2, TailInjective
    <3> QED
      BY <1>3, <3>1, <3>2, <3>3, <3>4
  <2> QED
    BY <2>1, <2>2
<1>7. lis' \in [edge : BOOLEAN, late : BOOLEAN] /\ lis'.edge = lis.edge /\ lis'.late = (lis.late /\ backlog' # <<>>)
  BY <1>2, <1>3
<1>8. TypeOK'
  BY <1>1, <1>2, <1>4, <1>5, <1>6, <1>7 DEF TypeOK
<1>9. ListenOK'
  <2>1. CASE backlog' = <<>>
    BY <1>6, <2>1 DEF ListenOK
  <2>2. CASE backlog' # <<>>
    BY <1>1, <1>2, <1>3, <1>4, <1>6, <1>7, <2>2 DEF ListenOK
  <2> QED
    BY <2>1, <2>2
<1> QED
  BY <1>4, <1>5, <1>8, <1>9 DEF TcpInv

\* epoll_wait takes a socket off the ready list and, unless it has nothing to read,
\* puts it into events[].
LEMMA ConnReported ==
    ASSUME NEW c \in Clients, conn \in [Clients -> Socket], ConnOK(c), Accepted(c), conn[c].edge,
           c \notin batch, conn'[c] = [conn[c] EXCEPT !.edge = FALSE], Readable(c) => c \in batch',
           UNCHANGED <<backlog, table, todo>>
    PROVE  ConnOK(c)' /\ conn'[c] \in Socket
<1>1. conn[c] \in Socket /\ conn[c].inq \in Seq(Half)
  BY DEF Socket
<1>2. /\ conn'[c].st = conn[c].st /\ conn'[c].inq = conn[c].inq /\ conn'[c].edge = FALSE
      /\ conn'[c].late = conn[c].late /\ conn'[c].spare = conn[c].spare /\ conn'[c] \in Socket
  BY <1>1 DEF Socket
<1>3. GoneIsClean(c)' /\ BacklogIsNew(c)'
  BY <1>2 DEF Accepted, GoneIsClean, BacklogIsNew, Is
<1>4. JoinIsFirst(c)' /\ EndsWhole(todo'[c])
  BY <1>2 DEF ConnOK, JoinIsFirst
<1>5. Pending(c) = 1 /\ Pending(c)' \in {0, 1} /\ (Readable(c) => Pending(c)' = 1)
  BY <1>2 DEF Pending
<1>6. Covered(c)' /\ AllReadable(c)'
  <2>1. Covered(c) /\ AllReadable(c) /\ Len(conn[c].inq) \in Nat
    BY <1>1 DEF ConnOK
  <2>2. CASE Pending(c)' = 1
    BY <1>2, <1>5, <2>1, <2>2 DEF Covered, AllReadable, Is
  <2>3. CASE ~Readable(c) /\ Pending(c)' = 0
    <3>1. c # Listener
      BY ListenerIsNoClient
    <3>2. conn[c].inq = <<>> /\ Len(conn[c].inq) = 0 /\ Is(c, "ok")
      BY <2>3, <3>1 DEF Readable
    <3> QED
      BY <1>2, <2>3, <3>2 DEF Covered, AllReadable, Is
  <2> QED
    BY <1>5, <2>2, <2>3
<1> QED
  BY <1>2, <1>3, <1>4, <1>6 DEF ConnOK, EndsWhole

LEMMA EpollWaitKeeps ==
    ASSUME TcpInv, EpollWait
    PROVE  TcpInv'
<1>1. /\ TypeOK /\ (\A d \in Clients : ConnOK(d)) /\ ListenOK /\ conn \in [Clients -> Socket]
      /\ backlog \in Seq(Clients) /\ lis \in [edge : BOOLEAN, late : BOOLEAN]
  BY DEF TcpInv, TypeOK
<1>2. /\ UNCHANGED <<srv, backlog, table, stack, todo>> /\ batch = {}
      /\ conn' = [c \in Clients |-> IF c \in Listed THEN [conn[c] EXCEPT !.edge = FALSE] ELSE conn[c]]
      /\ lis' = [lis EXCEPT !.edge = FALSE]
  BY DEF EpollWait, clientVars
<1>3. batch' \subseteq Listed /\ \A s \in Listed : Readable(s) => s \in batch'
  BY DEF EpollWait
<1>4. /\ \A c \in Clients : c \in Listed <=> conn[c].edge /\ Accepted(c)
      /\ Listener \in Listed <=> lis.edge
      /\ Listed \subseteq 0 .. N
  BY ListenerIsNoClient DEF Listed
<1>5. ASSUME NEW c \in Clients PROVE ConnOK(c)' /\ conn'[c] \in Socket /\ (Is(c, "closed") => Is(c, "closed")')
  <2>1. CASE c \in Listed
    <3>1. conn'[c] = [conn[c] EXCEPT !.edge = FALSE] /\ c \notin batch /\ (Readable(c) => c \in batch')
      BY <1>2, <1>3, <2>1
    <3>2. conn[c].edge /\ Accepted(c)
      BY <1>4, <2>1
    <3>3. ConnOK(c)' /\ conn'[c] \in Socket
      BY <1>1, <1>2, <3>1, <3>2, ConnReported
    <3> QED
      BY <3>2, <3>3 DEF Accepted
  <2>2. CASE c \notin Listed
    <3>1. conn'[c] = conn[c] /\ c \notin batch' /\ c \notin batch
      BY <1>2, <1>3, <2>2
    <3>2. ConnOK(c)'
      BY <1>1, <1>2, <3>1, ConnKept
    <3> QED
      BY <1>1, <3>1, <3>2 DEF Is
  <2> QED
    BY <2>1, <2>2
<1>6. conn' \in [Clients -> Socket]
  <2>1. DOMAIN conn' = Clients /\ conn' = [c \in Clients |-> conn'[c]]
    BY <1>2
  <2> QED
    BY <1>5, <2>1
<1>7. stack' \in Seq(Frame) /\ StackOK'
  BY <1>2, <1>5, StackSame DEF ClosedStays
<1>8. TypeOK'
  BY <1>1, <1>2, <1>3, <1>4, <1>6, <1>7 DEF TypeOK
<1>9. ListenOK'
  <2>1. lis'.edge = FALSE /\ lis'.late = lis.late /\ Listener \notin batch
    BY <1>1, <1>2
  <2>2. lis.edge /\ backlog # <<>> => Listener \in batch'
    BY <1>3, <1>4 DEF Readable
  <2>3. Len(backlog) \in Nat /\ (Len(backlog) = 0 <=> backlog = <<>>)
    BY <1>1, EmptySeq
  <2> QED
    BY <1>1, <1>2, <2>1, <2>2, <2>3 DEF ListenOK
<1> QED
  BY <1>5, <1>7, <1>8, <1>9 DEF TcpInv

-----------------------------------------------------------------------------
(***************************************************************************)
(* The server.                                                             *)
(***************************************************************************)

LEMMA StackPushed ==
    ASSUME NEW g \in Frame, NEW r \in Seq(Frame), stack' = <<g>> \o r, CallOK(g)',
           \A f \in Frame : (\E k \in DOMAIN r : r[k] = f) => CallOK(f)'
    PROVE  stack' \in Seq(Frame) /\ StackOK'
<1>1. /\ stack' \in Seq(Frame)
      /\ \A k \in DOMAIN stack' : stack'[k] = g \/ \E j \in DOMAIN r : stack'[k] = r[j]
  BY PushFacts
<1>2. ASSUME NEW f \in Frame, \E k \in DOMAIN stack' : stack'[k] = f PROVE CallOK(f)'
  <2>1. f = g \/ \E j \in DOMAIN r : r[j] = f
    BY <1>1, <1>2
  <2> QED
    BY <2>1
<1> QED
  BY <1>1, <1>2, StackNext

LEMMA StackOne ==
    ASSUME NEW g \in Frame, stack' = <<g>>, CallOK(g)'
    PROVE  stack' \in Seq(Frame) /\ StackOK'
<1>1. stack' \in Seq(Frame) /\ \A k \in DOMAIN stack' : stack'[k] = g
  OBVIOUS
<1>2. \A f \in Frame : (\E k \in DOMAIN stack' : stack'[k] = f) => CallOK(f)'
  BY <1>1
<1> QED
  BY <1>1, <1>2, StackNext

\* The kernel closes every socket when the server's process ends.
LEMMA ServerEndsKeeps ==
    ASSUME TcpInv, ServerEnds
    PROVE  TcpInv'
<1>1. /\ srv' = "down" /\ conn' = [c \in Clients |-> Fresh("closed")]
      /\ backlog' = <<>> /\ lis' = Quiet /\ batch' = {} /\ table' = <<>> /\ stack' = <<>>
      /\ todo' = [c \in Clients |-> IF c \in Clients THEN <<>> ELSE todo[c]]
  BY DEF ServerEnds, Exits
<1>2. todo' \in [Clients -> Seq(Half)] /\ \A c \in Clients : todo'[c] = <<>>
  BY <1>1
<1>3. conn' \in [Clients -> Socket] /\ \A c \in Clients : conn'[c] = Fresh("closed")
  BY <1>1, FreshSocket DEF States
<1>4. /\ backlog' \in Seq(Clients) /\ table' \in Seq(Clients) /\ IsInjective(table') /\ stack' \in Seq(Frame)
      /\ Len(backlog') = 0 /\ DOMAIN stack' = {}
  BY <1>1 DEF IsInjective
<1>5. lis' \in [edge : BOOLEAN, late : BOOLEAN] /\ ~lis'.edge
  BY <1>1 DEF Quiet
<1>6. TypeOK' /\ StackOK' /\ ListenOK'
  BY <1>1, <1>2, <1>3, <1>4, <1>5 DEF TypeOK, StackOK, ListenOK
<1>7. \A c : ~Contains(table', c) /\ ~Contains(backlog', c)
  BY <1>1 DEF Contains
<1>8. \A c \in Clients : ConnOK(c)'
  BY <1>2, <1>3, <1>7, ConnFresh
<1> QED
  BY <1>6, <1>8 DEF TcpInv

\* close and the end of the client, once it is off the table.
LEMMA CloseConn ==
    ASSUME TcpInv, NEW c \in Clients, conn' = [conn EXCEPT ![c] = Fresh("closed")], Exits({c}),
           UNCHANGED <<backlog, lis>>, batch' \in {batch, batch \ {c}}, ~Contains(backlog, c), ~Contains(table', c),
           \A x : Contains(table', x) => Contains(table, x)
    PROVE  /\ conn' \in [Clients -> Socket] /\ todo' \in [Clients -> Seq(Half)]
           /\ (\A d \in Clients : ConnOK(d)') /\ ListenOK' /\ ClosedStays /\ Is(c, "closed")'
<1>1. /\ conn \in [Clients -> Socket] /\ todo \in [Clients -> Seq(Half)] /\ ListenOK
      /\ \A d \in Clients : ConnOK(d)
  BY DEF TcpInv, TypeOK
<1>2. /\ conn' \in [Clients -> Socket] /\ conn'[c] = Fresh("closed")
      /\ \A d \in Clients : d # c => conn'[d] = conn[d]
  BY <1>1, FreshSocket DEF States
<1>3. todo' = [d \in Clients |-> IF d \in {c} THEN <<>> ELSE todo[d]]
  BY DEF Exits
<1>4. todo' \in [Clients -> Seq(Half)] /\ todo'[c] = <<>> /\ \A d \in Clients : d # c => todo'[d] = todo[d]
  BY <1>1, <1>3
<1>5. ConnOK(c)'
  BY <1>2, <1>4, ConnFresh
<1>6. \A d \in Clients : d # c => ConnOK(d)'
  BY <1>1, <1>2, <1>4, ConnKept
<1>7. ListenOK'
  BY <1>1, ListenKept, ListenerIsNoClient
<1>8. ClosedStays /\ Is(c, "closed")'
  BY <1>2 DEF ClosedStays, Is, Fresh
<1> QED
  BY <1>2, <1>4, <1>5, <1>6, <1>7, <1>8

\* remove_client, called from the loop or from the calls outer.
LEMMA RemoveKeeps ==
    ASSUME TcpInv, NEW c \in Clients, Contains(table, c), table' = RemoveFirst(table, c),
           conn' = [conn EXCEPT ![c] = Fresh("closed")], Exits({c}), UNCHANGED <<srv, backlog, lis>>, batch' \in {batch, batch \ {c}},
           NEW outer \in Seq(Frame), \A f \in Frame : (\E k \in DOMAIN outer : outer[k] = f) => CallOK(f),
           stack' = <<Broadcast(None)>> \o outer
    PROVE  TcpInv'
<1>1. TypeOK /\ ConnOK(c) /\ table \in Seq(Clients) /\ IsInjective(table)
  BY DEF TcpInv, TypeOK
<1>2. ~Contains(backlog, c)
  BY <1>1 DEF ConnOK, BacklogIsNew
<1>3. /\ table' \in Seq(Clients) /\ IsInjective(table') /\ ~Contains(table', c)
      /\ \A x : Contains(table', x) => Contains(table, x)
  BY <1>1, RemoveEffects
<1>4. /\ conn' \in [Clients -> Socket] /\ todo' \in [Clients -> Seq(Half)]
      /\ (\A d \in Clients : ConnOK(d)') /\ ListenOK' /\ ClosedStays /\ Is(c, "closed")'
  BY <1>2, <1>3, CloseConn
<1>5. \A f \in Frame : (\E k \in DOMAIN outer : outer[k] = f) => CallOK(f)'
  BY <1>1, <1>4, CallRemoved
<1>6. None \in 0 .. N
  BY TcpAssumption DEF None
<1>7. Broadcast(None) \in Frame /\ CallOK(Broadcast(None))'
  BY <1>3, <1>6, CallBegins
<1>8. stack' \in Seq(Frame) /\ StackOK'
  BY <1>5, <1>7, StackPushed
<1>9. TypeOK'
  BY <1>1, <1>3, <1>4, <1>8 DEF TypeOK
<1> QED
  BY <1>4, <1>8, <1>9 DEF TcpInv

\* send_all has marked the connection of a client that is gone.
LEMMA ConnMarked ==
    ASSUME NEW c \in Clients, conn \in [Clients -> Socket], ConnOK(c), conn[c].st \in {"fin", "sent", "rst"},
           NEW st \in {"sent", "broken"}, conn'[c] = [conn[c] EXCEPT !.st = st],
           UNCHANGED <<backlog, batch, table, todo>>
    PROVE  ConnOK(c)' /\ conn'[c] \in Socket
<1>1. conn[c] \in Socket
  OBVIOUS
<1>2. /\ conn'[c].st = st /\ conn'[c].inq = conn[c].inq /\ conn'[c].edge = conn[c].edge
      /\ conn'[c].late = conn[c].late /\ conn'[c] \in Socket
  BY <1>1 DEF Socket, States
<1>3. GoneIsClean(c)' /\ BacklogIsNew(c)' /\ JoinIsFirst(c)' /\ EndsWhole(todo'[c])
  BY <1>2 DEF ConnOK, GoneIsClean, BacklogIsNew, JoinIsFirst, Is
<1>4. Pending(c)' = Pending(c)
  BY <1>2 DEF Pending
<1>5. Covered(c)' /\ AllReadable(c)'
  BY <1>2, <1>4 DEF ConnOK, Covered, AllReadable, Is
<1> QED
  BY <1>2, <1>3, <1>5 DEF ConnOK, EndsWhole

LEMMA SendKeeps ==
    ASSUME TcpInv, NEW c \in Clients, UNCHANGED <<backlog, lis, batch, table>>,
           \/ SendSucceeds(c)
           \/ SendFails(c) /\ conn' = [conn EXCEPT ![c].st = "broken"] /\ UNCHANGED todo
    PROVE  /\ conn' \in [Clients -> Socket] /\ todo' = todo
           /\ (\A d \in Clients : ConnOK(d)') /\ ListenOK' /\ ClosedStays
<1>1. conn \in [Clients -> Socket] /\ ListenOK /\ \A d \in Clients : ConnOK(d)
  BY DEF TcpInv, TypeOK
<1>2. todo' = todo
  BY DEF SendSucceeds
<1>3. ListenOK'
  BY <1>1 DEF ListenOK
<1>4. CASE conn' = conn
  <2>1. \A d \in Clients : ConnOK(d)'
    BY <1>1, <1>2, <1>4, ConnKept
  <2> QED
    BY <1>1, <1>2, <1>3, <1>4, <2>1 DEF ClosedStays, Is
<1>5. ASSUME NEW st \in {"sent", "broken"}, conn' = [conn EXCEPT ![c].st = st],
             conn[c].st \in {"fin", "sent", "rst"}
      PROVE  conn' \in [Clients -> Socket] /\ (\A d \in Clients : ConnOK(d)') /\ ClosedStays
  <2>1. conn'[c] = [conn[c] EXCEPT !.st = st] /\ \A d \in Clients : d # c => conn'[d] = conn[d]
    BY <1>1, <1>5
  <2>2. ConnOK(c)' /\ conn'[c] \in Socket
    BY <1>1, <1>2, <1>5, <2>1, ConnMarked
  <2>3. \A d \in Clients : d # c => ConnOK(d)'
    BY <1>1, <1>2, <2>1, ConnKept
  <2>4. conn' \in [Clients -> Socket]
    <3>1. conn' = [conn EXCEPT ![c] = conn'[c]]
      BY <1>1, <1>5
    <3> QED
      BY <1>1, <2>2, <3>1
  <2>5. ClosedStays
    BY <1>5, <2>1 DEF ClosedStays, Is
  <2> QED
    BY <2>2, <2>3, <2>4, <2>5
<1> QED
  BY <1>2, <1>3, <1>4, <1>5 DEF SendSucceeds, SendFails, Is

-----------------------------------------------------------------------------
(***************************************************************************)
(* What runs on the stack.                                                 *)
(***************************************************************************)

\* The innermost call and those that wait for it.
LEMMA Innermost ==
    ASSUME TcpInv, stack # <<>>
    PROVE  /\ Head(stack) \in Frame /\ Tail(stack) \in Seq(Frame) /\ CallOK(Head(stack))
           /\ \A f \in Frame : (\E k \in DOMAIN Tail(stack) : Tail(stack)[k] = f) => CallOK(f)
<1>1. stack \in Seq(Frame) /\ StackOK
  BY DEF TcpInv, TypeOK
<1>2. /\ Tail(stack) \in Seq(Frame) /\ Head(stack) = stack[1] /\ 1 \in DOMAIN stack
      /\ \A k \in DOMAIN Tail(stack) : \E j \in DOMAIN stack : Tail(stack)[k] = stack[j]
  BY <1>1, TailFacts
<1>3. stack[1] \in Frame
  BY <1>1, <1>2
<1> QED
  BY <1>1, <1>2, <1>3 DEF StackOK

LEMMA BroadcastTurnKeeps ==
    ASSUME TcpInv, stack # <<>>, BroadcastTurn(Head(stack), Tail(stack))
    PROVE  TcpInv'
<1> DEFINE f == Head(stack)
           outer == Tail(stack)
           c == table[f.i]
<1>1. /\ f \in Frame /\ outer \in Seq(Frame) /\ CallOK(f)
      /\ \A g \in Frame : (\E k \in DOMAIN outer : outer[k] = g) => CallOK(g)
  BY Innermost
<1>2. f \in Call /\ f.i <= Len(table) /\ f.i \in Nat \ {0}
  BY <1>1 DEF BroadcastTurn, Frame, Answer, Call
<1>3. TypeOK /\ table \in Seq(Clients) /\ ListenOK /\ \A d \in Clients : ConnOK(d)
  BY DEF TcpInv, TypeOK
<1>4. f.i \in 1..Len(table) /\ c \in Clients /\ Contains(table, c)
  <2>1. f.i \in 1..Len(table)
    BY <1>2, <1>3
  <2> QED
    BY <1>3, <2>1 DEF Contains
<1>5. ASSUME NEW g \in Call, stack' = <<g>> \o outer, conn' \in [Clients -> Socket], todo' = todo,
             \A d \in Clients : ConnOK(d)', ListenOK', ClosedStays, UNCHANGED <<srv, backlog, lis, batch, table>>,
             \/ c = f.from /\ g = [f EXCEPT !.i = @ + 1]
             \/ g = [f EXCEPT !.i = @ + 1, !.sentTo = Append(@, c)]
      PROVE  TcpInv'
  <2>1. CallOK(g)'
    BY <1>1, <1>2, <1>3, <1>5, CallTurns
  <2>2. \A h \in Frame : (\E k \in DOMAIN outer : outer[k] = h) => CallOK(h)'
    BY <1>1, <1>5, CallKept
  <2>3. g \in Frame
    BY DEF Frame
  <2>4. stack' \in Seq(Frame) /\ StackOK'
    BY <1>1, <1>5, <2>1, <2>2, <2>3, StackPushed
  <2>5. TypeOK'
    BY <1>3, <1>5, <2>4 DEF TypeOK
  <2> QED
    BY <1>5, <2>4, <2>5 DEF TcpInv
<1>6. CASE /\ c = f.from /\ stack' = <<[f EXCEPT !.i = @ + 1]>> \o outer
           /\ UNCHANGED <<srv, backlog, lis, conn, batch, table, todo, unread>>
  <2>1. [f EXCEPT !.i = @ + 1] \in Call
    BY <1>2 DEF Call
  <2>2. conn' \in [Clients -> Socket] /\ ListenOK' /\ ClosedStays
    BY <1>3, <1>6 DEF TypeOK, ListenOK, ClosedStays, Is
  <2>3. \A d \in Clients : ConnOK(d)'
    BY <1>3, <1>6, ConnKept
  <2> QED
    BY <1>5, <1>6, <2>1, <2>2, <2>3
<1>7. CASE /\ SendSucceeds(c) /\ stack' = <<[f EXCEPT !.i = @ + 1, !.sentTo = Append(@, c)]>> \o outer
           /\ UNCHANGED <<srv, backlog, lis, batch, table>>
  <2>1. [f EXCEPT !.i = @ + 1, !.sentTo = Append(@, c)] \in Call
    <3>1. Append(f.sentTo, c) \in Seq(Clients)
      BY <1>2, <1>4 DEF Call
    <3>2. f.i + 1 \in Nat \ {0}
      BY <1>2
    <3> HIDE DEF f, c
    <3> QED
      BY <1>2, <3>1, <3>2 DEF Call
  <2>2. /\ conn' \in [Clients -> Socket] /\ todo' = todo
        /\ (\A d \in Clients : ConnOK(d)') /\ ListenOK' /\ ClosedStays
    BY <1>4, <1>7, SendKeeps
  <2> QED
    BY <1>5, <1>7, <2>1, <2>2
<1>8. CASE /\ RemoveClient(c, conn, <<f>> \o outer) /\ UNCHANGED <<srv, backlog, lis, batch>>
  <2> DEFINE calls == <<f>> \o outer
  <2>1. /\ calls \in Seq(Frame)
        /\ \A k \in DOMAIN calls : calls[k] = f \/ \E j \in DOMAIN outer : calls[k] = outer[j]
    BY <1>1, PushFacts
  <2>2. /\ table' = RemoveFirst(table, c) /\ conn' = [conn EXCEPT ![c] = Fresh("closed")] /\ Exits({c})
        /\ stack' = <<Broadcast(None)>> \o calls
    BY <1>8 DEF RemoveClient
  <2> HIDE DEF calls, f, outer, c
  <2>3. \A g \in Frame : (\E k \in DOMAIN calls : calls[k] = g) => CallOK(g)
    BY <1>1, <2>1
  <2> QED
    BY <1>4, <1>8, <2>1, <2>2, <2>3, RemoveKeeps
<1>9. CASE ServerEnds
  BY <1>9, ServerEndsKeeps
<1> QED
  BY <1>6, <1>7, <1>8, <1>9 DEF BroadcastTurn, StepBack

\* A call or a reply is over.
LEMMA ReturnKeeps ==
    ASSUME TcpInv, stack # <<>>, stack' = Tail(stack),
           UNCHANGED <<srv, backlog, lis, conn, batch, table, todo>>
    PROVE  TcpInv'
<1>1. /\ Tail(stack) \in Seq(Frame)
      /\ \A f \in Frame : (\E k \in DOMAIN Tail(stack) : Tail(stack)[k] = f) => CallOK(f)
  BY Innermost
<1>2. TypeOK /\ ListenOK /\ \A d \in Clients : ConnOK(d)
  BY DEF TcpInv
<1>3. ClosedStays
  BY DEF ClosedStays, Is
<1>4. \A f \in Frame : (\E k \in DOMAIN stack' : stack'[k] = f) => CallOK(f)'
  BY <1>1, <1>3, CallKept
<1>5. stack' \in Seq(Frame) /\ StackOK'
  BY <1>1, <1>4, StackNext
<1>6. TypeOK' /\ ListenOK'
  BY <1>2, <1>5 DEF TypeOK, ListenOK
<1>7. \A d \in Clients : ConnOK(d)'
  BY <1>2, ConnKept
<1> QED
  BY <1>5, <1>6, <1>7 DEF TcpInv

LEMMA ReplyTurnKeeps ==
    ASSUME TcpInv, stack # <<>>, ReplyTurn(Head(stack), Tail(stack))
    PROVE  TcpInv'
<1> DEFINE f == Head(stack)
           outer == Tail(stack)
<1>1. /\ f \in Frame /\ outer \in Seq(Frame)
      /\ \A g \in Frame : (\E k \in DOMAIN outer : outer[k] = g) => CallOK(g)
  BY Innermost
<1>2. f \in Answer /\ f.to \in Clients /\ f.left \in Nat
  BY <1>1 DEF ReplyTurn, Frame, Answer, Call
<1>3. CASE f.left = 0
  <2>1. stack' = Tail(stack) /\ UNCHANGED <<srv, backlog, lis, conn, batch, table, todo>>
    BY <1>2, <1>3 DEF ReplyTurn
  <2> QED
    BY <2>1, ReturnKeeps
<1>4. CASE /\ f.left > 0 /\ stack' = <<[f EXCEPT !.left = @ - 1]>> \o outer /\ UNCHANGED <<srv, backlog, lis, batch, table>>
           /\ \/ SendSucceeds(f.to)
              \/ SendFails(f.to) /\ conn' = [conn EXCEPT ![f.to].st = "broken"] /\ UNCHANGED <<todo, unread>>
  <2>1. f.left - 1 \in Nat
    BY <1>2, <1>4
  <2>2. [f EXCEPT !.left = @ - 1] \in Answer
    BY <1>2, <2>1 DEF Answer
  <2>3. PICK g \in Answer : stack' = <<g>> \o outer
    BY <1>4, <2>2
  <2>4. /\ conn' \in [Clients -> Socket] /\ todo' = todo
        /\ (\A d \in Clients : ConnOK(d)') /\ ListenOK' /\ ClosedStays
    BY <1>2, <1>4, SendKeeps
  <2>5. g \in Frame /\ CallOK(g)'
    BY DEF CallOK, Frame, Answer, Call
  <2>6. \A h \in Frame : (\E k \in DOMAIN outer : outer[k] = h) => CallOK(h)'
    BY <1>1, <1>4, <2>4, CallKept
  <2>7. stack' \in Seq(Frame) /\ StackOK'
    BY <1>1, <2>3, <2>5, <2>6, StackPushed
  <2>8. TypeOK'
    BY <1>4, <2>4, <2>7 DEF TcpInv, TypeOK
  <2> QED
    BY <2>4, <2>7, <2>8 DEF TcpInv
<1>5. CASE ServerEnds
  BY <1>5, ServerEndsKeeps
<1> QED
  BY <1>2, <1>3, <1>4, <1>5 DEF ReplyTurn

LEMMA InCallKeeps ==
    ASSUME TcpInv, InCall
    PROVE  TcpInv'
<1>1. CASE BroadcastTurn(Head(stack), Tail(stack))
  BY <1>1, BroadcastTurnKeeps DEF InCall
<1>2. CASE BroadcastEnds(Head(stack), Tail(stack))
  BY <1>2, ServerEndsKeeps, ReturnKeeps DEF InCall, BroadcastEnds
<1>3. CASE ReplyTurn(Head(stack), Tail(stack))
  BY <1>3, ReplyTurnKeeps DEF InCall
<1> QED
  BY <1>1, <1>2, <1>3 DEF InCall

LEMMA SignalHandlerKeeps ==
    ASSUME TcpInv, SignalHandler
    PROVE  TcpInv'
<1>1. UNCHANGED <<srv, backlog, lis, conn, batch, table, todo>> /\ stack' = <<Shutdown>>
  BY DEF SignalHandler, clientVars
<1>2. TypeOK /\ ListenOK /\ (\A d \in Clients : ConnOK(d)) /\ table' \in Seq(Clients) /\ 0 \in 0 .. N
  BY <1>1, TcpAssumption DEF TcpInv, TypeOK
<1>3. Shutdown \in Frame /\ CallOK(Shutdown)'
  BY <1>2, CallBegins
<1>4. stack' \in Seq(Frame) /\ StackOK'
  BY <1>1, <1>3, StackOne
<1>5. TypeOK' /\ ListenOK'
  BY <1>1, <1>2, <1>4 DEF TypeOK, ListenOK
<1>6. \A d \in Clients : ConnOK(d)'
  BY <1>1, <1>2, ConnKept
<1> QED
  BY <1>4, <1>5, <1>6 DEF TcpInv

-----------------------------------------------------------------------------
(***************************************************************************)
(* handle_client_message.                                                  *)
(***************************************************************************)

\* c's socket after recv took k halves, as HandleClientMessage writes it.
After(c, k) ==
    [conn EXCEPT ![c].inq = SubSeq(conn[c].inq, k + 1, Len(conn[c].inq)),
                 ![c].late = @ /\ (k < Len(conn[c].inq) \/ ~Is(c, "ok"))]

\* A Message that is read and neither closes the connection nor adds the
\* client twice: what it starts is a call or a reply that begins.
LEMMA ReceiveKeeps ==
    ASSUME TcpInv, NEW c \in Clients, c \in batch, batch' = batch \ {c}, stack = <<>>,
           NEW k \in 0..2, k <= Len(conn[c].inq), k = 2 \/ k = Len(conn[c].inq), conn' = After(c, k),
           UNCHANGED <<srv, backlog, lis, todo>>,
           table' = table \/ (k = 2 /\ table' = Append(table, c) /\ ~Contains(table, c)),
           conn[c].inq = <<>> => ~Contains(table', c),
           stack' = stack \/ \E g \in Frame : stack' = <<g>> /\ CallOK(g)'
    PROVE  TcpInv'
<1>1. TypeOK /\ ListenOK /\ (\A d \in Clients : ConnOK(d)) /\ conn \in [Clients -> Socket]
      /\ table \in Seq(Clients) /\ IsInjective(table)
  BY DEF TcpInv, TypeOK
<1>2. /\ conn'[c] = [conn[c] EXCEPT !.inq = SubSeq(@, k + 1, Len(@)),
                       !.late = @ /\ (k < Len(conn[c].inq) \/ ~Is(c, "ok"))]
      /\ \A d \in Clients : d # c => conn'[d] = conn[d]
      /\ conn' = [conn EXCEPT ![c] = conn'[c]]
  <2> DEFINE cs == After(c, k)
  <2>1. /\ cs[c] = [conn[c] EXCEPT !.inq = SubSeq(@, k + 1, Len(@)),
                      !.late = @ /\ (k < Len(conn[c].inq) \/ ~Is(c, "ok"))]
        /\ \A d \in Clients : d # c => cs[d] = conn[d]
        /\ cs = [conn EXCEPT ![c] = cs[c]]
    BY <1>1 DEF After, Socket
  <2>2. conn' = cs
    OBVIOUS
  <2> HIDE DEF cs
  <2> QED
    BY <2>1, <2>2
<1>3. table' \in Seq(Clients) /\ IsInjective(table') /\ \A x : Contains(table', x) => Contains(table, x) \/ (x = c /\ k = 2)
  <2>1. CASE table' = table
    BY <1>1, <2>1
  <2>2. CASE k = 2 /\ table' = Append(table, c) /\ ~Contains(table, c)
    <3>1. table' \in Seq(Clients)
      BY <1>1, <2>2
    <3>2. IsInjective(table')
      BY <1>1, <2>2, AppendInjectiveTable
    <3>3. \A x : Contains(table', x) => Contains(table, x) \/ x = c
      BY <1>1, <2>2, ContainsAppend
    <3> QED
      BY <2>2, <3>1, <3>2, <3>3
  <2> QED
    BY <2>1, <2>2
<1>4. ConnOK(c)' /\ conn'[c] \in Socket
  <2>1. todo'[c] = todo[c] /\ backlog' = backlog /\ (Contains(table', c) => Contains(table, c) \/ k = 2)
    BY <1>3
  <2> QED
    BY <1>1, <1>2, <2>1, ConnReceives
<1>5. \A d \in Clients : d # c => ConnOK(d)'
  BY <1>1, <1>2, <1>3, ConnKept
<1>6. conn' \in [Clients -> Socket]
  BY <1>1, <1>2, <1>4
<1>7. stack' \in Seq(Frame) /\ StackOK'
  <2>1. CASE stack' = stack
    <3>1. stack' \in Seq(Frame) /\ DOMAIN stack' = {}
      BY <2>1
    <3> QED
      BY <3>1 DEF StackOK
  <2>2. ASSUME NEW g \in Frame, stack' = <<g>>, CallOK(g)' PROVE stack' \in Seq(Frame) /\ StackOK'
    BY <2>2, StackOne
  <2> QED
    BY <2>1, <2>2
<1>8. TypeOK'
  BY <1>1, <1>3, <1>6, <1>7 DEF TypeOK
<1>9. ListenOK'
  BY <1>1, ListenKept, ListenerIsNoClient
<1> QED
  BY <1>4, <1>5, <1>7, <1>8, <1>9 DEF TcpInv

LEMMA HandleKeeps ==
    ASSUME TcpInv, NEW c \in Clients, c \in batch, batch' = batch \ {c}, stack = <<>>,
           UNCHANGED <<srv, backlog, lis>>,
           NEW k \in 0..2, k <= Len(conn[c].inq), k = 2 \/ k = Len(conn[c].inq),
           Handle(c, SubSeq(conn[c].inq, 1, k), After(c, k))
    PROVE  TcpInv'
<1> DEFINE q == conn[c].inq
           got == SubSeq(q, 1, k)
           cs == After(c, k)
<1>1. TypeOK /\ conn \in [Clients -> Socket] /\ q \in Seq(Half) /\ ConnOK(c) /\ ListenOK /\ table \in Seq(Clients)
  BY DEF TcpInv, TypeOK, Socket
<1>2. Len(q) \in Nat /\ DOMAIN q = 1..Len(q) /\ (Len(q) = 0 <=> q = <<>>)
  BY <1>1, EmptySeq, LenProperties
<1>3. Len(got) = k /\ (k = 0 <=> got = <<>>) /\ \A j \in 1..k : got[j] = q[j]
  <2>1. 1 \in Int /\ k \in Int /\ \A j \in 1..k : q[j] \in Half
    BY <1>1, <1>2
  <2>2. /\ got \in Seq(Half) /\ Len(got) = IF 1 <= k THEN k - 1 + 1 ELSE 0
        /\ \A j \in 1..k - 1 + 1 : got[j] = q[1 + j - 1]
    BY <2>1, SubSeqProperties
  <2>3. k - 1 + 1 = k /\ (1 <= k \/ k = 0) /\ \A j \in 1..k : 1 + j - 1 = j
    OBVIOUS
  <2>4. Len(got) = k
    BY <2>2, <2>3
  <2>5. k = 0 <=> got = <<>>
    <3> HIDE DEF got
    <3> QED
      BY <2>2, <2>4, EmptySeq
  <2> QED
    BY <2>2, <2>3, <2>4, <2>5
<1>4. got = <<>> <=> q = <<>>
  <2>1. k = 0 <=> Len(q) = 0
    <3>1. \A l \in Nat : k <= l /\ (k = 2 \/ k = l) => (k = 0 <=> l = 0)
      OBVIOUS
    <3>2. k <= Len(q) /\ (k = 2 \/ k = Len(q))
      OBVIOUS
    <3> HIDE DEF q
    <3> QED
      BY <1>2, <3>1, <3>2
  <2> QED
    BY <1>2, <1>3, <2>1
<1>5. ~Contains(backlog, c) /\ [cs EXCEPT ![c] = Fresh("closed")] = [conn EXCEPT ![c] = Fresh("closed")]
  BY <1>1 DEF ConnOK, BacklogIsNew, After, Socket
<1> HIDE DEF got, q
<1>6. CASE got = <<>> /\ Contains(table, c) /\ RemoveClient(c, cs, <<>>)
  <2>1. conn' = [conn EXCEPT ![c] = Fresh("closed")]
    <3> HIDE DEF cs
    <3> QED
      BY <1>5, <1>6 DEF RemoveClient
  <2>2. <<>> \in Seq(Frame) /\ \A f \in Frame : (\E j \in DOMAIN <<>> : <<>>[j] = f) => CallOK(f)
    OBVIOUS
  <2>3. stack' = <<Broadcast(None)>> \o <<>> /\ table' = RemoveFirst(table, c) /\ Exits({c})
    BY <1>6 DEF RemoveClient
  <2> QED
    BY <1>6, <2>1, <2>2, <2>3, RemoveKeeps
<1>7. CASE got = Halves("join") /\ AddClient(c, cs)
  <2>1. k = 2 /\ q # <<>> /\ 1 \in DOMAIN q /\ q[1] = Join1
    <3>1. Len(got) = 2 /\ got # <<>> /\ got[1] = Join1
      BY <1>7 DEF Halves, Join1
    <3>2. k = 2 /\ q # <<>> /\ got[1] = q[1]
      BY <1>3, <1>4, <3>1
    <3>3. 1 \in DOMAIN q
      BY <1>2, <3>2
    <3> QED
      BY <3>1, <3>2, <3>3
  <2>2. ~Contains(table, c)
    BY <1>1, <2>1 DEF ConnOK, JoinIsFirst, q
  <2>3. CASE Len(table) >= MAX_CLIENTS
    <3>1. conn' = [conn EXCEPT ![c] = Fresh("closed")] /\ Exits({c}) /\ UNCHANGED <<table, stack>>
      <4> HIDE DEF cs
      <4> QED
        BY <1>5, <1>7, <2>3 DEF AddClient
    <3>2. /\ conn' \in [Clients -> Socket] /\ todo' \in [Clients -> Seq(Half)]
          /\ (\A d \in Clients : ConnOK(d)') /\ ListenOK' /\ ClosedStays
      BY <1>5, <2>2, <3>1, CloseConn
    <3>3. stack' \in Seq(Frame) /\ StackOK'
      BY <3>1, <3>2, StackSame
    <3>4. TypeOK'
      BY <1>1, <3>1, <3>2, <3>3 DEF TypeOK
    <3> QED
      BY <3>2, <3>3, <3>4 DEF TcpInv
  <2>4. CASE ~(Len(table) >= MAX_CLIENTS)
    <3>1. conn' = cs /\ table' = Append(table, c) /\ stack' = <<Broadcast(c)>> /\ todo' = todo
      BY <1>7, <2>4 DEF AddClient
    <3>2. table' \in Seq(Clients) /\ c \in 0 .. N
      BY <1>1, <3>1, TcpAssumption DEF Clients
    <3>3. Broadcast(c) \in Frame /\ CallOK(Broadcast(c))'
      BY <3>2, CallBegins
    <3>4. \E g \in Frame : stack' = <<g>> /\ CallOK(g)'
      BY <3>1, <3>3
    <3> QED
      BY <2>1, <2>2, <3>1, <3>4, ReceiveKeeps DEF q
  <2> QED
    BY <2>3, <2>4
<1>8. ASSUME conn' = cs, UNCHANGED <<table, todo>>, q = <<>> => ~Contains(table, c),
             stack' = stack \/ \E g \in Frame : stack' = <<g>> /\ CallOK(g)'
      PROVE  TcpInv'
  BY <1>8, ReceiveKeeps DEF q
<1>9. ASSUME conn' = cs, UNCHANGED <<table, todo>>,
             \/ got = Halves("chat") /\ stack' = <<Broadcast(c)>>
             \/ got = Halves("ask") /\ \E n \in {0, 1, FileMsgs} : stack' = <<Reply(c, n)>>
      PROVE  TcpInv'
  <2>1. q # <<>>
    <3>1. "chat" \in Kinds /\ "ask" \in Kinds
      BY DEF Kinds
    <3> QED
      BY <1>4, <1>9, <3>1, HalvesFacts
  <2>2. table' \in Seq(Clients) /\ c \in 0 .. N
    BY <1>1, <1>9, TcpAssumption DEF Clients
  <2>3. Broadcast(c) \in Frame /\ CallOK(Broadcast(c))'
    BY <2>2, CallBegins
  <2>4. ASSUME NEW n \in {0, 1, FileMsgs} PROVE Reply(c, n) \in Frame /\ CallOK(Reply(c, n))'
    <3>1. n \in Nat
      BY TcpAssumption
    <3>2. Reply(c, n) \in Answer /\ Reply(c, n) \notin Call
      BY <3>1 DEF Reply, Answer, Call
    <3> QED
      BY <3>2 DEF Frame, CallOK
  <2>5. \E g \in Frame : stack' = <<g>> /\ CallOK(g)'
    BY <1>9, <2>3, <2>4
  <2> QED
    BY <1>8, <1>9, <2>1, <2>5
<1>10. Handle(c, got, cs)
  BY DEF got, q
<1> QED
  BY <1>4, <1>6, <1>7, <1>8, <1>9, <1>10 DEF Handle

LEMMA RecvFacts == \A q \in Seq(Half) : /\ Recv(q) \in 0..2 /\ Recv(q) <= Len(q)
                                        /\ Recv(q) = 2 \/ Recv(q) = Len(q)
<1>1. \A l \in Nat : \A k : k = (IF l < 2 THEN l ELSE 2) => k \in 0..2 /\ k <= l /\ (k = 2 \/ k = l)
  OBVIOUS
<1>2. \A q \in Seq(Half) : Len(q) \in Nat /\ Recv(q) = IF Len(q) < 2 THEN Len(q) ELSE 2
  BY DEF Recv
<1> QED
  BY <1>1, <1>2

LEMMA HandleClientMessageKeeps ==
    ASSUME TcpInv, NEW c \in Clients, HandleClientMessage(c)
    PROVE  TcpInv'
<1> DEFINE q == conn[c].inq
<1>1. stack = <<>> /\ c \in batch /\ batch' = batch \ {c} /\ UNCHANGED <<srv, backlog, lis>>
  BY DEF HandleClientMessage, Looping
<1>2. q \in Seq(Half)
  BY DEF TcpInv, TypeOK, Socket
<1>3. Recv(q) \in 0..2 /\ Recv(q) <= Len(q) /\ (Recv(q) = 2 \/ Recv(q) = Len(q))
  BY <1>2, RecvFacts
<1>4. Handle(c, SubSeq(q, 1, Recv(q)), After(c, Recv(q)))
  BY DEF HandleClientMessage, After
<1> QED
  BY <1>1, <1>3, <1>4, HandleKeeps

-----------------------------------------------------------------------------

LEMMA InitTcpInv == Init => TcpInv
<1> SUFFICES ASSUME Init PROVE TcpInv
  OBVIOUS
<1>1. /\ srv = "up" /\ backlog = <<>> /\ lis = Quiet /\ conn = [c \in Clients |-> Fresh("none")]
      /\ batch = {} /\ table = <<>> /\ stack = <<>> /\ todo = [c \in Clients |-> <<>>]
  BY DEF Init
<1>2. conn \in [Clients -> Socket] /\ \A c \in Clients : conn[c] = Fresh("none")
  BY <1>1, FreshSocket DEF States
<1>3. lis \in [edge : BOOLEAN, late : BOOLEAN] /\ ~lis.edge /\ ~lis.late
  BY <1>1 DEF Quiet
<1>4. TypeOK
  BY <1>1, <1>2, <1>3 DEF TypeOK, IsInjective
<1>5. StackOK /\ ListenOK
  BY <1>1, <1>3 DEF StackOK, ListenOK
<1>6. ASSUME NEW c \in Clients PROVE ConnOK(c)
  <2>1. /\ conn[c].st = "none" /\ conn[c].inq = <<>> /\ ~conn[c].edge /\ ~conn[c].late
        /\ Len(conn[c].inq) = 0 /\ DOMAIN conn[c].inq = {} /\ todo[c] = <<>>
    BY <1>1, <1>2 DEF Fresh
  <2>2. ~Contains(table, c) /\ ~Contains(backlog, c)
    BY <1>1 DEF Contains
  <2> QED
    BY <1>1, <2>1, <2>2 DEF ConnOK, GoneIsClean, BacklogIsNew, JoinIsFirst, EndsWhole, Covered, AllReadable,
                           Pending, Is
<1> QED
  BY <1>4, <1>5, <1>6 DEF TcpInv

LEMMA NextKeepsTcpInv == TcpInv /\ [Next]_vars => TcpInv'
<1> SUFFICES ASSUME TcpInv, [Next]_vars PROVE TcpInv'
  OBVIOUS
<1>1. ASSUME NEW c \in Clients, Connect(c) \/ HandleUserInput(c) \/ ClientSend(c) PROVE TcpInv'
  BY <1>1, ConnectKeeps, HandleUserInputKeeps, ClientSendKeeps
<1>2. ASSUME NEW c \in Clients, ClientKilled(c) \/ RstArrives(c) \/ HandleClientMessage(c) PROVE TcpInv'
  BY <1>2, ClientKilledKeeps, RstArrivesKeeps, HandleClientMessageKeeps
<1>3. ASSUME UNCHANGED <<srv, backlog, lis, conn, batch, table, stack, todo>> PROVE TcpInv'
  <2>1. todo' \in [Clients -> Seq(Half)]
    BY <1>3 DEF TcpInv, TypeOK
  <2> QED
    BY <1>3, <2>1, TodoKeeps
<1>4. ASSUME EpollWait \/ HandleNewConnection \/ InCall \/ SignalHandler PROVE TcpInv'
  BY <1>4, EpollWaitKeeps, HandleNewConnectionKeeps, InCallKeeps, SignalHandlerKeeps
<1> QED
  BY <1>1, <1>2, <1>3, <1>4 DEF Next, ServerStep, ClientStep, HandleServerMessage, vars, clientVars

LEMMA TcpInvReaches == TcpInv => BroadcastReachesAll
<1> SUFFICES ASSUME TcpInv, NEW k \in DOMAIN stack, stack[k].do # "reply"
             PROVE  /\ IsInjective(stack[k].sentTo)
                    /\ stack[k].i > Len(table) =>
                          \/ ToSet(table) \ {stack[k].from} \subseteq ToSet(stack[k].sentTo)
                          \/ \E c \in Clients : /\ Is(c, "closed")
                                                /\ c \in ToSet(stack[k].sentTo) \union {stack[k].from}
  BY DEF BroadcastReachesAll
<1> DEFINE f == stack[k]
<1>1. f \in Frame /\ CallOK(f) /\ table \in Seq(Clients)
  BY DEF TcpInv, TypeOK, StackOK
<1>2. f \in Call /\ f.i \in Nat
  BY <1>1 DEF Frame, Answer, Call
<1>3. IsInjective(f.sentTo) /\ (Passed(f) \/ Lost(f))
  BY <1>1, <1>2 DEF CallOK
<1>4. ASSUME f.i > Len(table), Passed(f) PROVE ToSet(table) \ {f.from} \subseteq ToSet(f.sentTo)
  <2>1. \A j \in 1..Len(table) : j < f.i
    <3>1. Len(table) \in Nat
      BY <1>1
    <3> HIDE DEF f
    <3> QED
      BY <1>2, <1>4, <3>1
  <2>2. DOMAIN table = 1..Len(table)
    BY <1>1
  <2> QED
    BY <1>4, <2>1, <2>2 DEF Passed, ToSet
<1> QED
  BY <1>3, <1>4 DEF Lost

\* broadcast_message with removals under it: nobody is sent a message twice,
\* and whom the loop skips it skips only because a client it had passed was
\* removed by a nested broadcast; for any number of clients and any nesting.
THEOREM TcpBroadcastReachesAll == Spec => []BroadcastReachesAll
BY InitTcpInv, NextKeepsTcpInv, TcpInvReaches, PTL DEF Spec

LEMMA TcpInvAnnounces == TcpInv => WaitingIsAnnounced
<1> SUFFICES ASSUME TcpInv PROVE WaitingIsAnnounced
  OBVIOUS
<1>1. ASSUME NEW c \in Clients, Waiting(c) PROVE conn[c].edge \/ c \in batch \/ conn[c].late
  <2> SUFFICES ASSUME ~conn[c].edge, c \notin batch, ~conn[c].late PROVE FALSE
    OBVIOUS
  <2>1. Pending(c) = 0 /\ Covered(c) /\ conn[c].inq \in Seq(Half)
    BY DEF TcpInv, TypeOK, ConnOK, Pending, Socket
  <2>2. Len(conn[c].inq) = 0 /\ conn[c].inq = <<>>
    BY <2>1, EmptySeq DEF Covered
  <2>3. Is(c, "ok") \/ ~Contains(table, c)
    BY <2>1, <2>2 DEF Covered
  <2> QED
    BY <1>1, <2>2, <2>3 DEF Waiting
<1>2. ASSUME backlog # <<>> PROVE lis.edge \/ Listener \in batch \/ lis.late
  <2>1. backlog \in Seq(Clients) /\ ListenOK
    BY DEF TcpInv, TypeOK
  <2>2. Len(backlog) \in Nat \ {0}
    BY <1>2, <2>1, EmptySeq
  <2> QED
    BY <2>1, <2>2 DEF ListenOK
<1> QED
  BY <1>1, <1>2 DEF WaitingIsAnnounced

\* Edge-triggered epoll with one recv and one accept for each event that
\* epoll_wait took off the ready list: what waits in a socket is announced by an
\* event on the list or in events[], unless it arrived while the socket was on
\* the list already; for any clients, sizes of the sockets and faults.
THEOREM TcpWaitingIsAnnounced == Spec => []WaitingIsAnnounced
BY InitTcpInv, NextKeepsTcpInv, TcpInvAnnounces, PTL DEF Spec

\* Who goes off the table, and why.
LEMMA OnlyGoneLeave ==
    ASSUME TcpInv, Next, NEW c \in Clients, Contains(table, c), Is(c, "ok"), ~Contains(table', c), srv' # "down"
    PROVE  conn[c].spare
<1>1. table \in Seq(Clients) /\ IsInjective(table) /\ conn \in [Clients -> Socket]
  BY DEF TcpInv, TypeOK
<1>2. ASSUME NEW d \in Clients, Contains(table, d), table' = RemoveFirst(table, d) PROVE d = c
  BY <1>1, <1>2, RemoveEffects
<1>3. table' # table /\ \A d \in Clients : table' # Append(table, d)
  <2>1. \A d \in Clients : Contains(Append(table, d), c)
    BY <1>1, ContainsAppend
  <2> QED
    BY <2>1
<1>4. CASE InCall
  <2>1. stack # <<>> /\ BroadcastTurn(Head(stack), Tail(stack))
    BY <1>3, <1>4 DEF InCall, BroadcastEnds, ReplyTurn, ServerEnds
  <2> DEFINE f == Head(stack)
             d == table[f.i]
  <2>2. SendFails(d) /\ table' = RemoveFirst(table, d) /\ f.i <= Len(table)
    BY <1>3, <2>1 DEF BroadcastTurn, ServerEnds, RemoveClient
  <2>3. f \in Frame
    BY <2>1, Innermost
  <2>4. f.i \in Nat \ {0}
    BY <2>1, <2>3 DEF BroadcastTurn, Frame, Answer, Call
  <2>5. f.i \in 1..Len(table) /\ d \in Clients /\ Contains(table, d)
    <3>1. f.i \in 1..Len(table)
      BY <1>1, <2>2, <2>4
    <3> QED
      BY <1>1, <3>1 DEF Contains
  <2>6. d = c
    BY <1>2, <2>2, <2>5
  <2> QED
    BY <2>2, <2>6 DEF SendFails, Is
<1>5. ASSUME NEW d \in Clients, HandleClientMessage(d) PROVE conn[c].spare
  <2> DEFINE q == conn[d].inq
             k == Recv(q)
  <2>1. d \in batch /\ Handle(d, SubSeq(q, 1, k), After(d, k))
    BY <1>5 DEF HandleClientMessage, After
  <2>2. SubSeq(q, 1, k) = <<>> /\ Contains(table, d) /\ table' = RemoveFirst(table, d)
    BY <1>3, <2>1 DEF Handle, AddClient, RemoveClient
  <2>3. d = c
    BY <1>2, <2>2
  <2>4. q \in Seq(Half) /\ k \in 0..2 /\ k <= Len(q) /\ (k = 2 \/ k = Len(q))
    BY <1>1, RecvFacts DEF Socket
  <2>5. k = 0
    <3>1. 1 \in Int /\ k \in Int /\ \A j \in 1..k : q[j] \in Half
      BY <2>4
    <3> HIDE DEF k, q
    <3>2. Len(SubSeq(q, 1, k)) = 0
      <4>1. Len(<<>>) = 0
        OBVIOUS
      <4> QED
        BY <2>2, <4>1, Zenon
    <3>3. Len(SubSeq(q, 1, k)) = IF 1 <= k THEN k - 1 + 1 ELSE 0
      BY <3>1, SubSeqProperties
    <3> QED
      BY <2>4, <3>2, <3>3
  <2>6. Len(q) = 0
    BY <2>4, <2>5
  <2>7. AllReadable(c) /\ Pending(c) >= 1 /\ Pending(c) \in Nat
    BY <2>1, <2>3 DEF TcpInv, ConnOK, Pending
  <2> QED
    BY <2>3, <2>6, <2>7 DEF AllReadable
<1> QED
  BY <1>3, <1>4, <1>5
  DEF Next, ServerStep, ClientStep, Connect, HandleUserInput, ClientSend, HandleServerMessage, ClientKilled, RstArrives,
      EpollWait, HandleNewConnection, SignalHandler

\* A client that is connected stays in the table until the server ends, unless one
\* of its Messages came in two segments or accept gave it a descriptor that stood in
\* events[]: otherwise every event epoll_wait took off the ready list finds a
\* Message, so that recv never returns EAGAIN for it; for any clients, sizes of the
\* sockets and faults.
THEOREM TcpLiveClientStays == Spec => LiveClientStays
<1>1. TcpInv /\ [Next]_vars =>
          [\A c \in Clients : Contains(table, c) /\ Is(c, "ok") /\ ~Contains(table, c)'
               => srv' = "down" \/ conn[c].spare]_vars
  BY OnlyGoneLeave
<1> QED
  BY <1>1, InitTcpInv, NextKeepsTcpInv, PTL DEF Spec, LiveClientStays

-----------------------------------------------------------------------------
(***************************************************************************)
(* The file transfers, for any number of clients, names, chunks and        *)
(* transfers.  The receivers keep no record of the upload they serve, so   *)
(* the invariant follows an upload by its identity through the queues: in  *)
(* order at its client, unseen before its first Message is handled, and    *)
(* then gapless on its way to the others.                                  *)
(***************************************************************************)

\* The chunks of files and what they are in: a file read, a Message, a receiver.
Piece    == (Nat \X Nat) \cup {"no file"}
Upload   == [id : Nat \ {0}, file : Seq(Piece)]
Message  == {m \in [type : {"FILE", "DATA", "END", "GET"}, name : Names, t : Upload, at : Nat] :
                m.type # "GET" => m.at <= Len(m.t.file) + 1 /\ m.type = Kind(m.t, m.at)}
Receiver == {r \in [open : BOOLEAN, name : Names \cup {""}, bytes : Nat, total : Nat] :
                r.open => r.name \in Names}

FilesTypeOK ==
    /\ up \in BOOLEAN /\ alive \subseteq Peers
    /\ toServer \in [Peers -> Seq(Message)] /\ toClient \in [Peers -> Seq(Message)]
    /\ receiver \in Receiver /\ static \in [Peers -> Receiver]
    /\ stored \in [Names -> Seq(Piece)] /\ copies \in [Peers -> [Names -> Seq(Piece)]]
    /\ count \in Nat /\ alone \in Nat /\ aloneAt \in [Peers -> Nat]

Starts(m)     == m.type \in {"FILE", "GET"}
Follows(a, b) == /\ a.type \in {"FILE", "DATA"} /\ b.type \in {"DATA", "END"}
                 /\ b.t = a.t /\ b.name = a.name /\ b.at = a.at + 1

\* What a client has sent: transfer after transfer, each in order and complete but for
\* the last one of a client that died, with growing identities.
Sent(q) ==
    /\ \A j, k \in 1 .. Len(q) : j < k =>
          q[j].t.id <= q[k].t.id /\ (Starts(q[k]) => q[j].t.id < q[k].t.id)
    /\ \A k \in 1 .. Len(q) : k + 1 \in 1 .. Len(q) => Starts(q[k + 1]) \/ Follows(q[k], q[k + 1])

AllSent  == \A c \in Peers : Sent(toServer[c])

\* An identity belongs to one client, and was given out.
OwnIds   == \A c, d \in Peers : c # d =>
                \A j \in 1 .. Len(toServer[c]), k \in 1 .. Len(toServer[d]) :
                    toServer[c][j].t.id # toServer[d][k].t.id
GivenOut == /\ alone <= count
            /\ \A c \in Peers : /\ aloneAt[c] <= count
                                /\ \A k \in 1 .. Len(toServer[c]) : toServer[c][k].t.id <= count
                                /\ \A k \in 1 .. Len(toClient[c]) : toClient[c][k].t.id <= count

\* Nobody has seen anything of a transfer whose first Message is still to be handled.
Unseen(id) ==
    /\ alone # id
    /\ \A d \in Peers : aloneAt[d] # id /\ \A k \in 1 .. Len(toClient[d]) : toClient[d][k].t.id # id
StartsUnseen == \A c \in Peers : \A k \in 1 .. Len(toServer[c]) :
                    Starts(toServer[c][k]) => Unseen(toServer[c][k].t.id)

\* The receiver r, writing into dir, is where the Message m of its transfer comes next.
Prefix(s, file, n) == Len(s) = n /\ \A k \in 1 .. n : s[k] = file[k]
IsAt(r, name, bytes, total) == r.open /\ r.name = name /\ r.bytes = bytes /\ r.total = total
Awaits(r, dir, m) ==
    /\ m.type \in {"DATA", "END"}
    /\ m.name \notin BadNames =>
          /\ Prefix(dir[m.name], m.t.file, m.at - 1)
          /\ m.type = "DATA" => IsAt(r, m.name, m.at - 1, Len(m.t.file))

ServerInStep == \A c \in Peers : (toServer[c] # <<>> /\ toServer[c][1].t.id = alone) =>
                    Awaits(receiver, stored, toServer[c][1])

\* What is on its way to a client: where two Messages of a transfer come one after the
\* other, nothing of it is missing between them.
Gapless      == \A d \in Peers : \A k \in 1 .. Len(toClient[d]) :
                    (k + 1 \in 1 .. Len(toClient[d]) /\ toClient[d][k].t.id = toClient[d][k + 1].t.id)
                       => Follows(toClient[d][k], toClient[d][k + 1])
ClientInStep == \A d \in Peers : (toClient[d] # <<>> /\ toClient[d][1].t.id = aloneAt[d]) =>
                    Awaits(static[d], copies[d], toClient[d][1])

\* The same of the Message m that the server may send next to a client with the queue q,
\* the receiver r and the directory dir, which has followed the transfer id.
NextFor(q, id, r, dir, m) == IF q = <<>> THEN m.t.id = id => Awaits(r, dir, m)
                             ELSE m.t.id = q[Len(q)].t.id => Follows(q[Len(q)], m)
SentInStep == \A c \in Peers, d \in alive : (c # d /\ toServer[c] # <<>>) =>
                  NextFor(toClient[d], aloneAt[d], static[d], copies[d], toServer[c][1])

\* While nobody has died, what was begun comes to its end.
Ends(q) == \A k \in 1 .. Len(q) : q[k].type \in {"FILE", "DATA"} =>
               \E j \in 1 .. Len(q) : k < j /\ q[j].type = "END"
Ending  == alive = Peers =>
              /\ \A c \in Peers : Ends(toServer[c])
              /\ receiver.open => \E c \in Peers : \E k \in 1 .. Len(toServer[c]) : toServer[c][k].type = "END"

QueueInv == AllSent /\ OwnIds /\ GivenOut /\ StartsUnseen
StepInv  == ServerInStep /\ Gapless /\ ClientInStep /\ SentInStep
FilesInv == FilesTypeOK /\ QueueInv /\ StepInv /\ Ending

-----------------------------------------------------------------------------
(***************************************************************************)
(* Messages and queues of them.                                            *)
(***************************************************************************)

LEMMA MessageFacts ==
    ASSUME NEW m \in Message
    PROVE  /\ m.type \in {"FILE", "DATA", "END", "GET"} /\ m.name \in Names
           /\ m.t \in Upload /\ m.t.id \in Nat \ {0} /\ m.t.file \in Seq(Piece) /\ Len(m.t.file) \in Nat
           /\ m.at \in Nat
           /\ m.type = "FILE" => m.at = 0
           /\ m.type = "DATA" => m.at \in 1 .. Len(m.t.file) /\ Chunk(m) \in Piece
           /\ m.type = "END" => m.at = Len(m.t.file) + 1
<1>1. /\ m.type \in {"FILE", "DATA", "END", "GET"} /\ m.name \in Names /\ m.at \in Nat
      /\ m.t \in Upload
      /\ m.type # "GET" => m.at <= Len(m.t.file) + 1 /\ m.type = Kind(m.t, m.at)
  BY DEF Message
<1>2. m.t.id \in Nat \ {0} /\ m.t.file \in Seq(Piece) /\ Len(m.t.file) \in Nat
  BY <1>1 DEF Upload
<1>3. m.type = "FILE" => m.at = 0
  BY <1>1, <1>2 DEF Kind
<1>4. m.type = "DATA" => m.at \in 1 .. Len(m.t.file)
  BY <1>1, <1>2 DEF Kind
<1>5. m.type = "END" => m.at = Len(m.t.file) + 1
  BY <1>1, <1>2 DEF Kind
<1>6. m.type = "DATA" => Chunk(m) \in Piece
  BY <1>2, <1>4 DEF Chunk
<1> QED
  BY <1>1, <1>2, <1>3, <1>4, <1>5, <1>6

LEMMA TailOf ==
    ASSUME NEW q \in Seq(Message), q # <<>>
    PROVE  /\ Len(q) \in Nat \ {0} /\ 1 \in 1 .. Len(q) /\ Head(q) = q[1] /\ q[1] \in Message
           /\ Tail(q) \in Seq(Message) /\ Len(Tail(q)) = Len(q) - 1
           /\ \A k \in 1 .. Len(Tail(q)) : k + 1 \in 1 .. Len(q) /\ Tail(q)[k] = q[k + 1]
<1>1. Len(q) \in Nat \ {0}
  BY EmptySeq
<1>2. Tail(q) \in Seq(Message) /\ Len(Tail(q)) = Len(q) - 1
      /\ \A k \in 1 .. Len(Tail(q)) : Tail(q)[k] = q[k + 1]
  BY HeadTailProperties
<1>3. 1 \in 1 .. Len(q) /\ \A k \in 1 .. Len(q) - 1 : k + 1 \in 1 .. Len(q)
  BY <1>1
<1>4. Head(q) = q[1]
  OBVIOUS
<1> QED
  BY <1>1, <1>2, <1>3, <1>4

\* What is taken from the front of a queue, or cut off at its end, leaves it in order.
LEMMA SentTail ==
    ASSUME NEW q \in Seq(Message), q # <<>>, Sent(q)
    PROVE  Sent(Tail(q))
<1> DEFINE s == Tail(q)
<1>1. /\ Len(q) \in Nat /\ Len(s) = Len(q) - 1
      /\ \A k \in 1 .. Len(s) : k + 1 \in 1 .. Len(q) /\ s[k] = q[k + 1]
  BY TailOf
<1> HIDE DEF s
<1>2. ASSUME NEW j \in 1 .. Len(s), NEW k \in 1 .. Len(s), j < k
      PROVE  s[j].t.id <= s[k].t.id /\ (Starts(s[k]) => s[j].t.id < s[k].t.id)
  <2>1. j + 1 < k + 1 /\ j + 1 \in 1 .. Len(q) /\ k + 1 \in 1 .. Len(q)
    BY <1>1, <1>2
  <2>2. q[j + 1].t.id <= q[k + 1].t.id /\ (Starts(q[k + 1]) => q[j + 1].t.id < q[k + 1].t.id)
    BY <2>1 DEF Sent
  <2>3. s[j] = q[j + 1] /\ s[k] = q[k + 1]
    BY <1>1
  <2> QED
    BY <2>2, <2>3
<1>3. ASSUME NEW k \in 1 .. Len(s), k + 1 \in 1 .. Len(s)
      PROVE  Starts(s[k + 1]) \/ Follows(s[k], s[k + 1])
  BY <1>1, <1>3 DEF Sent
<1> QED
  BY <1>2, <1>3 DEF Sent, s

LEMMA PrefixOf ==
    ASSUME NEW q \in Seq(Message), NEW n \in 0 .. Len(q)
    PROVE  /\ SubSeq(q, 1, n) \in Seq(Message) /\ Len(SubSeq(q, 1, n)) = n
           /\ \A k \in 1 .. n : k \in 1 .. Len(q) /\ SubSeq(q, 1, n)[k] = q[k]
<1>1. 1 \in Int /\ n \in Int /\ Len(q) \in Nat /\ \A k \in 1 .. n : q[k] \in Message
  OBVIOUS
<1>2. /\ SubSeq(q, 1, n) \in Seq(Message)
      /\ Len(SubSeq(q, 1, n)) = IF 1 <= n THEN n - 1 + 1 ELSE 0
      /\ \A k \in 1 .. n - 1 + 1 : SubSeq(q, 1, n)[k] = q[1 + k - 1]
  BY <1>1, SubSeqProperties
<1>3. n - 1 + 1 = n /\ (1 <= n \/ n = 0) /\ \A k \in 1 .. n : 1 + k - 1 = k /\ k \in 1 .. Len(q)
  BY <1>1
<1> QED
  BY <1>2, <1>3

LEMMA SentPrefix ==
    ASSUME NEW q \in Seq(Message), NEW n \in 0 .. Len(q), Sent(q)
    PROVE  Sent(SubSeq(q, 1, n))
<1> DEFINE s == SubSeq(q, 1, n)
<1>1. Len(s) = n /\ \A k \in 1 .. n : k \in 1 .. Len(q) /\ s[k] = q[k]
  BY PrefixOf
<1> HIDE DEF s
<1> QED
  BY <1>1 DEF Sent, s

\* What a client sends at once: the Messages of one file, or one MSG_FILE_GET.
Burst(s, id) ==
    /\ s \in Seq(Message) /\ s # <<>>
    /\ \A k \in 1 .. Len(s) : s[k].t.id = id
    /\ Starts(s[1])
    /\ \A k \in 1 .. Len(s) : k + 1 \in 1 .. Len(s) => ~ Starts(s[k + 1]) /\ Follows(s[k], s[k + 1])
    /\ \A k \in 1 .. Len(s) : k # 1 => ~ Starts(s[k])
    /\ \A k \in 1 .. Len(s) : s[k].type \in {"FILE", "DATA"} =>
           Len(s) \in 1 .. Len(s) /\ k < Len(s) /\ s[Len(s)].type = "END"

LEMMA GetIsBurst ==
    ASSUME NEW name \in Names, NEW id \in Nat \ {0}
    PROVE  Burst(<<Msg("GET", name, [id |-> id, file |-> <<>>], 0)>>, id)
           /\ Msg("GET", name, [id |-> id, file |-> <<>>], 0) \in Message
<1> DEFINE m == Msg("GET", name, [id |-> id, file |-> <<>>], 0)
<1>1. m.type = "GET" /\ m.t.id = id /\ m.t \in Upload /\ m.name = name /\ m.at = 0
  <2>1. <<>> \in Seq(Piece)
    BY EmptySeq
  <2> QED
    BY <2>1 DEF Msg, Upload
<1>2. m \in Message
  BY <1>1 DEF Message, Msg
<1> HIDE DEF m
<1>3. <<m>> \in Seq(Message) /\ <<m>> # <<>> /\ Len(<<m>>) = 1 /\ <<m>>[1] = m
  BY <1>2
<1>4. \A k \in 1 .. 1 : k = 1 /\ k + 1 \notin 1 .. 1
  OBVIOUS
<1>5. Burst(<<m>>, id)
  BY <1>1, <1>3, <1>4 DEF Burst, Starts
<1> QED
  BY <1>2, <1>5 DEF m

LEMMA TransferIsBurst ==
    ASSUME NEW name \in Names, NEW t \in Upload
    PROVE  /\ Burst(Transfer(name, t), t.id)
           /\ \A k \in 1 .. Len(Transfer(name, t)) : Transfer(name, t)[k].type # "GET"
<1> DEFINE n == Len(t.file)
           s == Transfer(name, t)
<1>1. n \in Nat
  BY DEF Upload
<1>2. s = [k \in 1 .. n + 2 |-> Msg(Kind(t, k - 1), name, t, k - 1)]
  BY DEF Transfer
<1>3. ASSUME NEW a \in Nat, a <= n + 1
      PROVE  /\ Msg(Kind(t, a), name, t, a) \in Message
             /\ Kind(t, a) = "FILE" <=> a = 0
             /\ Kind(t, a) \in {"FILE", "DATA", "END"}
             /\ Kind(t, a) = "END" <=> a = n + 1
  <2>1. Kind(t, a) = IF a = 0 THEN "FILE" ELSE IF a <= n THEN "DATA" ELSE "END"
    BY <1>1, <1>3 DEF Kind
  <2>2. /\ Kind(t, a) = "FILE" <=> a = 0
        /\ Kind(t, a) \in {"FILE", "DATA", "END"}
        /\ Kind(t, a) = "END" <=> a = n + 1
    BY <1>1, <1>3, <2>1
  <2>3. Msg(Kind(t, a), name, t, a) \in Message
    BY <1>3, <2>2 DEF Message, Msg
  <2> QED
    BY <2>2, <2>3
<1>4. \A k \in 1 .. n + 2 : k - 1 \in Nat /\ k - 1 <= n + 1 /\ (k - 1 = 0 <=> k = 1) /\ (k - 1 = n + 1 <=> k = n + 2)
  BY <1>1
<1> HIDE DEF n
<1>5. \A k \in 1 .. n + 2 : Msg(Kind(t, k - 1), name, t, k - 1) \in Message
  BY <1>3, <1>4
<1>6. s \in Seq(Message) /\ Len(s) = n + 2
  <2>1. s \in [1 .. n + 2 -> Message] /\ n + 2 \in Nat
    BY <1>1, <1>2, <1>5
  <2>2. s \in Seq(Message)
    BY <2>1, SeqDef
  <2> QED
    BY <2>1, <2>2, LenProperties
<1>7. \A k \in 1 .. n + 2 : s[k] = Msg(Kind(t, k - 1), name, t, k - 1)
  BY <1>2
<1>8. ASSUME NEW k \in 1 .. n + 2
      PROVE  /\ s[k].t = t /\ s[k].name = name /\ s[k].at = k - 1
             /\ s[k].type \in {"FILE", "DATA", "END"}
             /\ s[k].type = "FILE" <=> k = 1
             /\ s[k].type = "END" <=> k = n + 2
  <2>1. s[k] = Msg(Kind(t, k - 1), name, t, k - 1)
    BY <1>7
  <2>2. s[k].type = Kind(t, k - 1) /\ s[k].t = t /\ s[k].name = name /\ s[k].at = k - 1
    <3> HIDE DEF s
    <3> QED
      BY <2>1 DEF Msg
  <2>3. /\ Kind(t, k - 1) = "FILE" <=> k - 1 = 0
        /\ Kind(t, k - 1) \in {"FILE", "DATA", "END"}
        /\ Kind(t, k - 1) = "END" <=> k - 1 = n + 1
    BY <1>3, <1>4
  <2> HIDE DEF s
  <2> QED
    BY <1>4, <2>2, <2>3
<1> HIDE DEF s
<1>9. 1 \in 1 .. n + 2 /\ n + 2 \in 1 .. n + 2 /\ n + 2 # 0
      /\ \A k \in 1 .. n + 2 : /\ k # n + 2 => k < n + 2
                                /\ k + 1 # 1 /\ (k + 1 \in 1 .. n + 2 => k # n + 2) /\ k + 1 - 1 = k - 1 + 1
  BY <1>1
<1>10. s # <<>>
  BY <1>6, <1>9, EmptySeq
<1>11. ASSUME NEW k \in 1 .. n + 2, k + 1 \in 1 .. n + 2
       PROVE  ~ Starts(s[k + 1]) /\ Follows(s[k], s[k + 1])
  <2>1. s[k].type \in {"FILE", "DATA"} /\ s[k + 1].type \in {"DATA", "END"}
    BY <1>8, <1>9, <1>11
  <2>2. s[k + 1].at = s[k].at + 1 /\ s[k + 1].t = s[k].t /\ s[k + 1].name = s[k].name
    BY <1>8, <1>9, <1>11
  <2> QED
    BY <2>1, <2>2 DEF Starts, Follows
<1>12. Burst(s, t.id)
  BY <1>6, <1>8, <1>9, <1>10, <1>11 DEF Burst, Starts
<1> QED
  BY <1>6, <1>8, <1>12 DEF s

LEMMA JoinedQueue ==
    ASSUME NEW q \in Seq(Message), NEW s \in Seq(Message)
    PROVE  /\ q \o s \in Seq(Message) /\ Len(q \o s) = Len(q) + Len(s) /\ Len(q) \in Nat /\ Len(s) \in Nat
           /\ \A k \in 1 .. Len(q) : k \in 1 .. Len(q \o s) /\ (q \o s)[k] = q[k]
           /\ \A k \in 1 .. Len(s) : Len(q) + k \in 1 .. Len(q \o s) /\ (q \o s)[Len(q) + k] = s[k]
           /\ \A k \in 1 .. Len(q \o s) : k \in 1 .. Len(q) \/ \E j \in 1 .. Len(s) : k = Len(q) + j
<1> DEFINE a == Len(q)
           b == Len(s)
<1>1. a \in Nat /\ b \in Nat
  OBVIOUS
<1>2. /\ q \o s \in Seq(Message) /\ Len(q \o s) = a + b
      /\ \A k \in 1 .. a + b : (q \o s)[k] = IF k <= a THEN q[k] ELSE s[k - a]
  BY ConcatProperties
<1> HIDE DEF a, b
<1>3. /\ \A k \in 1 .. a : k \in 1 .. a + b /\ k <= a
      /\ \A k \in 1 .. b : a + k \in 1 .. a + b /\ ~(a + k <= a) /\ (a + k) - a = k
  BY <1>1
<1>4. ASSUME NEW k \in 1 .. a + b PROVE k \in 1 .. a \/ \E j \in 1 .. b : k = a + j
  <2>1. CASE k <= a
    BY <1>1, <2>1
  <2>2. CASE ~(k <= a)
    <3>1. k - a \in 1 .. b /\ k = a + (k - a)
      BY <1>1, <2>2
    <3> QED
      BY <3>1
  <2> QED
    BY <2>1, <2>2
<1> QED
  BY <1>1, <1>2, <1>3, <1>4 DEF a, b

LEMMA SentJoined ==
    ASSUME NEW q \in Seq(Message), Sent(q), NEW id \in Nat, NEW s, Burst(s, id),
           \A k \in 1 .. Len(q) : q[k].t.id < id
    PROVE  Sent(q \o s)
<1> DEFINE x == q \o s
           a == Len(q)
<1>1. s \in Seq(Message) /\ (\A k \in 1 .. Len(s) : s[k].t.id = id) /\ Starts(s[1])
      /\ (\A k \in 1 .. Len(s) : k + 1 \in 1 .. Len(s) => Follows(s[k], s[k + 1]))
      /\ (\A k \in 1 .. Len(s) : k # 1 => ~ Starts(s[k]))
  BY DEF Burst
<1>2. /\ a \in Nat /\ Len(s) \in Nat
      /\ \A k \in 1 .. a : x[k] = q[k]
      /\ \A k \in 1 .. Len(s) : x[a + k] = s[k]
      /\ \A k \in 1 .. Len(x) : k \in 1 .. a \/ \E j \in 1 .. Len(s) : k = a + j
  BY <1>1, JoinedQueue
<1> HIDE DEF x, a
<1>q. \A k \in 1 .. a : q[k].t.id < id
  BY DEF a
<1>3. ASSUME NEW j \in 1 .. Len(x), NEW k \in 1 .. Len(x), j < k
      PROVE  x[j].t.id <= x[k].t.id /\ (Starts(x[k]) => x[j].t.id < x[k].t.id)
  <2>1. CASE k \in 1 .. a
    <3>1. j \in 1 .. a
      BY <1>2, <1>3, <2>1
    <3>2. q[j].t.id <= q[k].t.id /\ (Starts(q[k]) => q[j].t.id < q[k].t.id)
      BY <1>3, <2>1, <3>1 DEF Sent, a
    <3> QED
      BY <1>2, <2>1, <3>1, <3>2
  <2>2. ASSUME NEW k1 \in 1 .. Len(s), k = a + k1
        PROVE  x[j].t.id <= x[k].t.id /\ (Starts(x[k]) => x[j].t.id < x[k].t.id)
    <3>1. x[k].t.id = id /\ x[k] = s[k1]
      BY <1>1, <1>2, <2>2
    <3>2. CASE j \in 1 .. a
      <4>1. x[j].t.id < id /\ x[j].t.id \in Nat
        <5>1. x[j] = q[j] /\ q[j] \in Message
          BY <1>2, <3>2 DEF a
        <5> QED
          BY <1>q, <3>2, <5>1, MessageFacts
      <4>2. \A v \in Nat : v < id => v <= id
        OBVIOUS
      <4> QED
        BY <3>1, <4>1, <4>2
    <3>3. ASSUME NEW j1 \in 1 .. Len(s), j = a + j1
          PROVE  x[j].t.id <= x[k].t.id /\ (Starts(x[k]) => x[j].t.id < x[k].t.id)
      <4>1. k1 # 1
        BY <1>2, <1>3, <2>2, <3>3
      <4>2. ~ Starts(x[k])
        BY <1>1, <3>1, <4>1
      <4>3. x[j].t.id = id
        <5>1. x[a + j1] = s[j1] /\ s[j1].t.id = id
          BY <1>1, <1>2
        <5> QED
          BY <3>3, <5>1
      <4> QED
        BY <3>1, <4>2, <4>3
    <3> QED
      BY <1>2, <3>2, <3>3
  <2> QED
    BY <1>2, <2>1, <2>2
<1>4. ASSUME NEW k \in 1 .. Len(x), k + 1 \in 1 .. Len(x)
      PROVE  Starts(x[k + 1]) \/ Follows(x[k], x[k + 1])
  <2>1. CASE k + 1 \in 1 .. a
    <3>1. k \in 1 .. a
      BY <1>2, <2>1
    <3>2. Starts(q[k + 1]) \/ Follows(q[k], q[k + 1])
      BY <2>1, <3>1 DEF Sent, a
    <3> QED
      BY <1>2, <2>1, <3>1, <3>2
  <2>2. ASSUME NEW k1 \in 1 .. Len(s), k + 1 = a + k1
        PROVE  Starts(x[k + 1]) \/ Follows(x[k], x[k + 1])
    <3>1. x[k + 1] = s[k1]
      BY <1>2, <2>2
    <3>2. CASE k1 = 1
      BY <1>1, <3>1, <3>2
    <3>3. CASE k1 # 1
      <4>1. k1 - 1 \in 1 .. Len(s) /\ k = a + (k1 - 1) /\ (k1 - 1) + 1 = k1
        BY <1>2, <2>2, <3>3
      <4>2. x[k] = s[k1 - 1]
        BY <1>2, <4>1
      <4>3. Follows(s[k1 - 1], s[k1])
        BY <1>1, <4>1
      <4> QED
        BY <3>1, <4>2, <4>3
    <3> QED
      BY <3>2, <3>3
  <2> QED
    BY <1>2, <1>4, <2>1, <2>2
<1> QED
  BY <1>3, <1>4 DEF Sent, x

\* While nobody has died every transfer in a queue has its end there.
LEMMA EndsTail ==
    ASSUME NEW q \in Seq(Message), q # <<>>, Ends(q)
    PROVE  Ends(Tail(q))
<1> DEFINE s == Tail(q)
<1>1. /\ Len(q) \in Nat /\ Len(s) = Len(q) - 1
      /\ \A k \in 1 .. Len(s) : k + 1 \in 1 .. Len(q) /\ s[k] = q[k + 1]
  BY TailOf
<1> HIDE DEF s
<1>2. ASSUME NEW k \in 1 .. Len(s), s[k].type \in {"FILE", "DATA"}
      PROVE  \E j \in 1 .. Len(s) : k < j /\ s[j].type = "END"
  <2>1. PICK j \in 1 .. Len(q) : k + 1 < j /\ q[j].type = "END"
    BY <1>1, <1>2 DEF Ends
  <2>2. j - 1 \in 1 .. Len(s) /\ k < j - 1 /\ (j - 1) + 1 = j
    BY <1>1, <2>1
  <2>3. s[j - 1] = q[j]
    BY <1>1, <2>2
  <2> QED
    BY <2>1, <2>2, <2>3
<1> QED
  BY <1>2 DEF Ends, s

LEMMA EndsJoined ==
    ASSUME NEW q \in Seq(Message), Ends(q), NEW id \in Nat, NEW s, Burst(s, id)
    PROVE  Ends(q \o s)
<1> DEFINE x == q \o s
           a == Len(q)
           b == Len(s)
<1>1. s \in Seq(Message) /\ \A k \in 1 .. b : s[k].type \in {"FILE", "DATA"} =>
           b \in 1 .. b /\ k < b /\ s[b].type = "END"
  BY DEF Burst
<1>2. /\ a \in Nat /\ b \in Nat
      /\ \A k \in 1 .. a : k \in 1 .. Len(x) /\ x[k] = q[k]
      /\ \A k \in 1 .. b : a + k \in 1 .. Len(x) /\ x[a + k] = s[k]
      /\ \A k \in 1 .. Len(x) : k \in 1 .. a \/ \E j \in 1 .. b : k = a + j
  BY <1>1, JoinedQueue
<1>q. \A k \in 1 .. a : q[k].type \in {"FILE", "DATA"} => \E j \in 1 .. a : k < j /\ q[j].type = "END"
  BY DEF Ends
<1> HIDE DEF x, a, b
<1>3. ASSUME NEW k \in 1 .. Len(x), x[k].type \in {"FILE", "DATA"}
      PROVE  \E j \in 1 .. Len(x) : k < j /\ x[j].type = "END"
  <2>1. CASE k \in 1 .. a
    BY <1>2, <1>3, <1>q, <2>1
  <2>2. ASSUME NEW k1 \in 1 .. b, k = a + k1
        PROVE  \E j \in 1 .. Len(x) : k < j /\ x[j].type = "END"
    <3>1. b \in 1 .. b /\ k1 < b /\ s[b].type = "END"
      BY <1>1, <1>2, <1>3, <2>2
    <3>2. k < a + b /\ a + b \in 1 .. Len(x) /\ x[a + b] = s[b]
      BY <1>2, <2>2, <3>1
    <3> QED
      BY <3>1, <3>2
  <2> QED
    BY <1>2, <2>1, <2>2
<1> QED
  BY <1>3 DEF Ends, x

-----------------------------------------------------------------------------
(***************************************************************************)
(* The receivers.                                                          *)
(***************************************************************************)

LEMMA OpenedIs ==
    ASSUME NEW name \in Names, NEW total \in Nat
    PROVE  /\ Opened(name, total) \in Receiver
           /\ name \notin BadNames =>
                 IsAt(Opened(name, total), name, 0, total)
BY DEF Opened, Closed, Receiver, IsAt

LEMMA ReceiverFacts ==
    ASSUME NEW r \in Receiver
    PROVE  /\ r.open \in BOOLEAN /\ r.name \in Names \cup {""} /\ r.bytes \in Nat /\ r.total \in Nat
           /\ r.open => r.name \in Names
           /\ [r EXCEPT !.open = FALSE] \in Receiver
           /\ r.open => \A o \in BOOLEAN : [r EXCEPT !.bytes = @ + 1, !.open = o] \in Receiver
<1>1. r \in [open : BOOLEAN, name : Names \cup {""}, bytes : Nat, total : Nat] /\ (r.open => r.name \in Names)
  BY DEF Receiver
<1>2. r.open \in BOOLEAN /\ r.name \in Names \cup {""} /\ r.bytes \in Nat /\ r.total \in Nat
  BY <1>1
<1>3. [r EXCEPT !.open = FALSE] \in Receiver
  <2> DEFINE x == [r EXCEPT !.open = FALSE]
  <2>1. x \in [open : BOOLEAN, name : Names \cup {""}, bytes : Nat, total : Nat] /\ x.open = FALSE
    BY <1>1
  <2> HIDE DEF x
  <2>2. x \in Receiver
    BY <2>1 DEF Receiver
  <2> QED
    BY <2>2 DEF x
<1>4. ASSUME r.open, NEW o \in BOOLEAN PROVE [r EXCEPT !.bytes = @ + 1, !.open = o] \in Receiver
  <2> DEFINE x == [r EXCEPT !.bytes = @ + 1, !.open = o]
  <2>1. x \in [open : BOOLEAN, name : Names \cup {""}, bytes : Nat, total : Nat] /\ x.name = r.name
    <3>1. r.bytes + 1 \in Nat
      <4>1. \A v \in Nat : v + 1 \in Nat
        OBVIOUS
      <4> QED
        BY <1>2, <4>1
    <3>2. [r EXCEPT !.bytes = @ + 1] \in [open : BOOLEAN, name : Names \cup {""}, bytes : Nat, total : Nat]
      BY <1>1, <3>1
    <3> QED
      BY <1>1, <3>1, <3>2
  <2>2. r.name \in Names
    BY <1>1, <1>4
  <2> HIDE DEF x
  <2>3. x \in Receiver
    BY <2>1, <2>2 DEF Receiver
  <2> QED
    BY <2>3 DEF x
<1> QED
  BY <1>1, <1>2, <1>3, <1>4

\* A chunk more, with the file open or closed after it.
LEMMA OneMore ==
    ASSUME NEW r \in Receiver, NEW o \in BOOLEAN
    PROVE  LET x == [r EXCEPT !.bytes = @ + 1, !.open = o]
           IN  x.open = o /\ x.name = r.name /\ x.bytes = r.bytes + 1 /\ x.total = r.total
<1>1. r \in [open : BOOLEAN, name : Names \cup {""}, bytes : Nat, total : Nat]
  BY DEF Receiver
<1> QED
  BY <1>1

LEMMA EmptyPrefix == \A file : Prefix(<<>>, file, 0)
BY DEF Prefix

LEMMA EmptiedIs ==
    ASSUME NEW dir \in [Names -> Seq(Piece)], NEW name \in Names
    PROVE  /\ Emptied(dir, name) \in [Names -> Seq(Piece)]
           /\ name \notin BadNames => Emptied(dir, name)[name] = <<>>
<1>1. <<>> \in Seq(Piece)
  BY EmptySeq
<1> QED
  BY <1>1 DEF Emptied

\* One more chunk in a directory.
LEMMA ChunkWritten ==
    ASSUME NEW dir \in [Names -> Seq(Piece)], NEW name \in Names, NEW chunk \in Piece
    PROVE  /\ [dir EXCEPT ![name] = Append(@, chunk)] \in [Names -> Seq(Piece)]
           /\ [dir EXCEPT ![name] = Append(@, chunk)][name] = Append(dir[name], chunk)
<1>1. dir[name] \in Seq(Piece)
  OBVIOUS
<1>2. Append(dir[name], chunk) \in Seq(Piece)
  BY <1>1, AppendProperties
<1> QED
  BY <1>2

LEMMA PrefixGrows ==
    ASSUME NEW s \in Seq(Piece), NEW file \in Seq(Piece), NEW n \in 1 .. Len(file), Prefix(s, file, n - 1)
    PROVE  Prefix(Append(s, file[n]), file, n)
<1>1. file[n] \in Piece /\ Len(s) = n - 1 /\ \A k \in 1 .. n - 1 : s[k] = file[k]
  BY DEF Prefix
<1>2. /\ Len(Append(s, file[n])) = Len(s) + 1
      /\ \A k \in 1 .. Len(s) : Append(s, file[n])[k] = s[k]
      /\ Append(s, file[n])[Len(s) + 1] = file[n]
  BY <1>1, AppendProperties
<1>3. Len(file) \in Nat
  OBVIOUS
<1>4. Len(s) + 1 = n /\ \A k \in 1 .. n : k \in 1 .. n - 1 \/ k = n
  BY <1>1, <1>3
<1> QED
  BY <1>1, <1>2, <1>4 DEF Prefix

LEMMA ReceiveType ==
    ASSUME FilesTypeOK, NEW m \in Message, m.type # "GET", Receive(m)
    PROVE  receiver' \in Receiver /\ stored' \in [Names -> Seq(Piece)]
<1> DEFINE anew == m.type # "END" /\ StartsAnew(receiver, m.name)
           r == IF anew THEN Opened(m.name, Len(m.t.file)) ELSE receiver
           dir == IF anew THEN Emptied(stored, m.name) ELSE stored
<1>1. m.name \in Names /\ Len(m.t.file) \in Nat /\ m.type \in {"FILE", "DATA", "END"}
      /\ (m.type = "DATA" => Chunk(m) \in Piece)
  BY MessageFacts
<1>2. r \in Receiver /\ dir \in [Names -> Seq(Piece)]
  BY <1>1, OpenedIs, EmptiedIs DEF FilesTypeOK
<1>3. \/ receiver' = r /\ stored' = dir
      \/ /\ m.type = "DATA" /\ r.open /\ receiver' = Appended(r)
         /\ stored' = [dir EXCEPT ![r.name] = Append(@, Chunk(m))]
      \/ receiver' = Finished(r) /\ stored' = dir
  BY <1>1 DEF Receive
<1> HIDE DEF r, dir, anew
<1>4. Finished(r) \in Receiver
  BY <1>2, ReceiverFacts DEF Finished
<1>5. r.open => Appended(r) \in Receiver /\ r.name \in Names
  <2>1. (~ (r.total > 0 /\ r.bytes + 1 >= r.total)) \in BOOLEAN
    OBVIOUS
  <2> QED
    BY <1>2, <2>1, ReceiverFacts DEF Appended
<1>6. ASSUME m.type = "DATA", r.open PROVE [dir EXCEPT ![r.name] = Append(@, Chunk(m))] \in [Names -> Seq(Piece)]
  <2>1. r.name \in Names /\ Chunk(m) \in Piece
    BY <1>1, <1>5, <1>6
  <2> QED
    BY <1>2, <2>1, ChunkWritten
<1> QED
  BY <1>2, <1>3, <1>4, <1>5, <1>6

\* The server's receiver, which nothing else has used, after a Message of an upload is
\* where the Message that follows it comes next.
LEMMA ServerTakes ==
    ASSUME FilesTypeOK, NEW m \in Message, NEW n \in Message, Receive(m), Follows(m, n),
           (m.type = "FILE" /\ ~ (receiver.open /\ receiver.name = m.name)) \/ Awaits(receiver, stored, m)
    PROVE  Awaits(receiver', stored', n)
<1>1. /\ m.name \in Names /\ m.t.file \in Seq(Piece) /\ Len(m.t.file) \in Nat
      /\ m.type \in {"FILE", "DATA"} /\ n.type \in {"DATA", "END"} /\ n.t = m.t /\ n.name = m.name /\ n.at = m.at + 1
      /\ m.type = "FILE" => m.at = 0
      /\ m.type = "DATA" => m.at \in 1 .. Len(m.t.file)
      /\ n.type = "DATA" => n.at \in 1 .. Len(m.t.file)
  BY MessageFacts DEF Follows
<1> SUFFICES ASSUME m.name \notin BadNames
             PROVE  /\ Prefix(stored'[m.name], m.t.file, n.at - 1)
                    /\ n.type = "DATA" => IsAt(receiver', m.name, n.at - 1, Len(m.t.file))
  BY <1>1 DEF Awaits
<1>2. CASE m.type = "FILE"
  <2>1. ~ (receiver.open /\ receiver.name = m.name)
    BY <1>2 DEF Awaits
  <2>2. receiver' = Opened(m.name, Len(m.t.file)) /\ stored' = Emptied(stored, m.name)
    BY <1>2, <2>1 DEF Receive, StartsAnew
  <2>3. stored'[m.name] = <<>> /\ n.at - 1 = 0
    <3>1. stored \in [Names -> Seq(Piece)]
      BY DEF FilesTypeOK
    <3> QED
      BY <1>1, <1>2, <2>2, <3>1, EmptiedIs
  <2>4. IsAt(receiver', m.name, 0, Len(m.t.file))
    BY <1>1, <2>2, OpenedIs
  <2> QED
    BY <2>3, <2>4, EmptyPrefix
<1>3. CASE m.type = "DATA"
  <2>1. /\ Prefix(stored[m.name], m.t.file, m.at - 1)
        /\ IsAt(receiver, m.name, m.at - 1, Len(m.t.file))
    BY <1>3 DEF Awaits
  <2>2. receiver' = Appended(receiver) /\ stored' = [stored EXCEPT ![m.name] = Append(@, Chunk(m))]
    BY <1>3, <2>1 DEF Receive, StartsAnew, IsAt
  <2>3. stored \in [Names -> Seq(Piece)] /\ Chunk(m) = m.t.file[m.at] /\ Chunk(m) \in Piece
    BY <1>3, MessageFacts DEF FilesTypeOK, Chunk
  <2>4. stored'[m.name] = Append(stored[m.name], m.t.file[m.at])
    BY <1>1, <2>2, <2>3
  <2>5. Prefix(stored'[m.name], m.t.file, m.at) /\ n.at - 1 = m.at
    <3>1. stored[m.name] \in Seq(Piece) /\ m.at \in 1 .. Len(m.t.file)
      BY <1>1, <1>3, <2>3
    <3>2. \A v \in Nat : v + 1 - 1 = v
      OBVIOUS
    <3>3. m.at \in Nat
      BY MessageFacts
    <3>4. Prefix(Append(stored[m.name], m.t.file[m.at]), m.t.file, m.at)
      BY <1>1, <2>1, <3>1, PrefixGrows
    <3>5. n.at - 1 = m.at
      BY <1>1, <3>2, <3>3
    <3> QED
      BY <2>4, <3>4, <3>5
  <2>6. ASSUME n.type = "DATA"
        PROVE  IsAt(receiver', m.name, m.at, Len(m.t.file))
    <3>1. receiver \in Receiver /\ receiver.name = m.name /\ receiver.bytes = m.at - 1 /\ receiver.total = Len(m.t.file)
      BY <2>1 DEF IsAt, FilesTypeOK
    <3>2. m.at + 1 \in 1 .. Len(m.t.file) /\ m.at \in Nat
      BY <1>1, <2>6, MessageFacts
    <3>3. m.at - 1 + 1 = m.at /\ ~ (m.at >= Len(m.t.file))
      BY <1>1, <3>2
    <3>4. ~ (receiver.total > 0 /\ receiver.bytes + 1 >= receiver.total)
      BY <3>1, <3>3
    <3>5. receiver' = [receiver EXCEPT !.bytes = @ + 1, !.open = TRUE]
      BY <2>2, <3>4 DEF Appended
    <3> QED
      BY <3>1, <3>3, <3>5, OneMore DEF IsAt
  <2> QED
    BY <2>5, <2>6
<1> QED
  BY <1>1, <1>2, <1>3

LEMMA ReceiveFileType ==
    ASSUME FilesTypeOK, NEW m \in Message, NEW d \in Peers, ReceiveFile(d, m)
    PROVE  static' \in [Peers -> Receiver] /\ copies' \in [Peers -> [Names -> Seq(Piece)]]
           /\ \A e \in Peers : e # d => static'[e] = static[e] /\ copies'[e] = copies[e]
<1> DEFINE anew == m.type = "FILE" \/ (m.type = "DATA" /\ StartsAnew(static[d], m.name))
           r == IF anew THEN Reopen(static[d], m) ELSE static[d]
           dir == IF anew THEN Emptied(copies[d], m.name) ELSE copies[d]
           write == m.type = "DATA" /\ r.open
           r1 == IF write THEN [r EXCEPT !.bytes = @ + 1, !.open = r.bytes + 1 < r.total]
                 ELSE [r EXCEPT !.open = @ /\ m.type # "END"]
           dir1 == IF write THEN [dir EXCEPT ![r.name] = Append(@, Chunk(m))] ELSE dir
<1>1. m.name \in Names /\ Len(m.t.file) \in Nat /\ (m.type = "DATA" => Chunk(m) \in Piece)
  BY MessageFacts
<1>2. static[d] \in Receiver /\ copies[d] \in [Names -> Seq(Piece)]
  BY DEF FilesTypeOK
<1>3. r \in Receiver /\ dir \in [Names -> Seq(Piece)]
  BY <1>1, <1>2, OpenedIs, EmptiedIs DEF Reopen
<1>4. static' = [static EXCEPT ![d] = r1] /\ copies' = [copies EXCEPT ![d] = dir1]
  BY DEF ReceiveFile
<1> HIDE DEF r, dir
<1>5. r1 \in Receiver
  <2>1. (r.bytes + 1 < r.total) \in BOOLEAN
    OBVIOUS
  <2>2. CASE write
    BY <1>3, <2>1, <2>2, ReceiverFacts
  <2>3. CASE ~ write
    <3>1. [r EXCEPT !.open = @ /\ m.type # "END"] \in Receiver
      BY <1>3 DEF Receiver
    <3> QED
      BY <2>3, <3>1
  <2> QED
    BY <2>2, <2>3
<1>6. dir1 \in [Names -> Seq(Piece)]
  BY <1>1, <1>3, ReceiverFacts, ChunkWritten
<1> HIDE DEF r1, dir1
<1> QED
  BY <1>4, <1>5, <1>6 DEF FilesTypeOK

LEMMA ClientTakes ==
    ASSUME FilesTypeOK, NEW d \in Peers, NEW m \in Message, NEW n \in Message, ReceiveFile(d, m), Follows(m, n),
           m.type = "FILE" \/ Awaits(static[d], copies[d], m)
    PROVE  Awaits(static'[d], copies'[d], n)
<1>1. /\ m.name \in Names /\ m.t.file \in Seq(Piece) /\ Len(m.t.file) \in Nat
      /\ m.type \in {"FILE", "DATA"} /\ n.type \in {"DATA", "END"} /\ n.t = m.t /\ n.name = m.name /\ n.at = m.at + 1
      /\ m.type = "FILE" => m.at = 0
      /\ m.type = "DATA" => m.at \in 1 .. Len(m.t.file)
      /\ n.type = "DATA" => n.at \in 1 .. Len(m.t.file)
  BY MessageFacts DEF Follows
<1>t. /\ static \in [Peers -> Receiver] /\ copies \in [Peers -> [Names -> Seq(Piece)]]
      /\ copies[d] \in [Names -> Seq(Piece)]
  BY DEF FilesTypeOK
<1> SUFFICES ASSUME m.name \notin BadNames
             PROVE  /\ Prefix(copies'[d][m.name], m.t.file, n.at - 1)
                    /\ n.type = "DATA" => IsAt(static'[d], m.name, n.at - 1, Len(m.t.file))
  BY <1>1 DEF Awaits
<1>2. CASE m.type = "FILE"
  <2>1. /\ static' = [static EXCEPT ![d] = [Opened(m.name, Len(m.t.file)) EXCEPT !.open = @ /\ m.type # "END"]]
        /\ copies' = [copies EXCEPT ![d] = Emptied(copies[d], m.name)]
    BY <1>2 DEF ReceiveFile, Reopen
  <2>2. copies'[d][m.name] = <<>> /\ n.at - 1 = 0
    <3>1. copies'[d] = Emptied(copies[d], m.name)
      BY <1>t, <2>1
    <3> QED
      BY <1>1, <1>2, <1>t, <3>1, EmptiedIs
  <2>3. IsAt(static'[d], m.name, 0, Len(m.t.file))
    <3>1. static'[d] = [Opened(m.name, Len(m.t.file)) EXCEPT !.open = @ /\ m.type # "END"]
      BY <1>t, <2>1
    <3>2. IsAt(Opened(m.name, Len(m.t.file)), m.name, 0, Len(m.t.file)) /\ Opened(m.name, Len(m.t.file)) \in Receiver
      BY <1>1, OpenedIs
    <3>3. \A r \in Receiver : LET x == [r EXCEPT !.open = @ /\ TRUE]
                             IN  x.open = r.open /\ x.name = r.name /\ x.bytes = r.bytes /\ x.total = r.total
      BY DEF Receiver
    <3>4. static'[d] = [Opened(m.name, Len(m.t.file)) EXCEPT !.open = @ /\ TRUE]
      BY <1>2, <3>1
    <3> QED
      BY <3>2, <3>3, <3>4 DEF IsAt
  <2> QED
    BY <2>2, <2>3, EmptyPrefix
<1>3. CASE m.type = "DATA"
  <2>1. /\ Prefix(copies[d][m.name], m.t.file, m.at - 1)
        /\ IsAt(static[d], m.name, m.at - 1, Len(m.t.file))
    BY <1>3 DEF Awaits
  <2>2. /\ static' = [static EXCEPT ![d] = [static[d] EXCEPT !.bytes = @ + 1,
                                                         !.open = static[d].bytes + 1 < static[d].total]]
        /\ copies' = [copies EXCEPT ![d] = [copies[d] EXCEPT ![m.name] = Append(@, Chunk(m))]]
    BY <1>3, <2>1 DEF ReceiveFile, StartsAnew, IsAt
  <2>3. Chunk(m) = m.t.file[m.at]
    BY DEF Chunk
  <2>4. copies'[d][m.name] = Append(copies[d][m.name], m.t.file[m.at])
    BY <1>1, <1>t, <2>2, <2>3
  <2>5. Prefix(copies'[d][m.name], m.t.file, m.at) /\ n.at - 1 = m.at
    <3>1. copies[d][m.name] \in Seq(Piece) /\ m.at \in 1 .. Len(m.t.file)
      BY <1>1, <1>3, <1>t
    <3>2. \A v \in Nat : v + 1 - 1 = v
      OBVIOUS
    <3>3. m.at \in Nat
      BY MessageFacts
    <3>4. Prefix(Append(copies[d][m.name], m.t.file[m.at]), m.t.file, m.at)
      BY <1>1, <2>1, <3>1, PrefixGrows
    <3>5. n.at - 1 = m.at
      BY <1>1, <3>2, <3>3
    <3> QED
      BY <2>4, <3>4, <3>5
  <2>6. ASSUME n.type = "DATA"
        PROVE  IsAt(static'[d], m.name, m.at, Len(m.t.file))
    <3>1. static[d] \in Receiver /\ static[d].name = m.name /\ static[d].bytes = m.at - 1
          /\ static[d].total = Len(m.t.file)
      BY <1>t, <2>1 DEF IsAt
    <3>2. m.at + 1 \in 1 .. Len(m.t.file) /\ m.at \in Nat
      BY <1>1, <2>6, MessageFacts
    <3>3. m.at - 1 + 1 = m.at /\ m.at < Len(m.t.file)
      BY <1>1, <3>2
    <3>4. static'[d] = [static[d] EXCEPT !.bytes = @ + 1, !.open = static[d].bytes + 1 < static[d].total]
      BY <1>t, <2>2
    <3>5. static[d].bytes + 1 < static[d].total
      BY <3>1, <3>3
    <3>6. static'[d] = [static[d] EXCEPT !.bytes = @ + 1, !.open = TRUE]
      BY <3>4, <3>5
    <3> QED
      BY <3>1, <3>3, <3>6, OneMore DEF IsAt
  <2> QED
    BY <2>5, <2>6
<1> QED
  BY <1>1, <1>2, <1>3

-----------------------------------------------------------------------------
(***************************************************************************)
(* The server handles a Message: it leaves the queue of its client.        *)
(***************************************************************************)

LEMMA QueueTypes ==
    ASSUME FilesTypeOK, NEW c \in Peers
    PROVE  /\ toServer[c] \in Seq(Message) /\ toClient[c] \in Seq(Message)
           /\ Len(toServer[c]) \in Nat /\ Len(toClient[c]) \in Nat
           /\ \A k \in 1 .. Len(toServer[c]) : toServer[c][k] \in Message /\ toServer[c][k].t.id \in Nat \ {0}
           /\ \A k \in 1 .. Len(toClient[c]) : toClient[c][k] \in Message /\ toClient[c][k].t.id \in Nat \ {0}
           /\ toServer[c] # <<>> => 1 \in 1 .. Len(toServer[c])
           /\ toClient[c] # <<>> => 1 \in 1 .. Len(toClient[c]) /\ Len(toClient[c]) \in 1 .. Len(toClient[c])
<1>1. toServer[c] \in Seq(Message) /\ toClient[c] \in Seq(Message)
  BY DEF FilesTypeOK
<1>2. Len(toServer[c]) \in Nat /\ Len(toClient[c]) \in Nat
  BY <1>1
<1>3. /\ \A k \in 1 .. Len(toServer[c]) : toServer[c][k] \in Message
      /\ \A k \in 1 .. Len(toClient[c]) : toClient[c][k] \in Message
  BY <1>1
<1>4. /\ toServer[c] # <<>> => Len(toServer[c]) \in Nat \ {0}
      /\ toClient[c] # <<>> => Len(toClient[c]) \in Nat \ {0}
  BY <1>1, EmptySeq
<1>5. \A n \in Nat \ {0} : 1 \in 1 .. n /\ n \in 1 .. n
  OBVIOUS
<1> QED
  BY <1>1, <1>2, <1>3, <1>4, <1>5, MessageFacts

\* The Message m, the first one of c, has left its queue.
Leaves(c, m) ==
    /\ m = Head(toServer[c]) /\ m \in Message /\ m.t.id \in Nat \ {0}
    /\ toServer' \in [Peers -> Seq(Message)] /\ AllSent' /\ OwnIds'
    /\ \A e \in Peers : e # c => toServer'[e] = toServer[e]
    /\ \A e \in Peers : \A k \in 1 .. Len(toServer'[e]) :
          /\ \E j \in 1 .. Len(toServer[e]) : toServer'[e][k] = toServer[e][j]
          /\ Starts(toServer'[e][k]) => toServer'[e][k].t.id # m.t.id
          /\ e # c => toServer'[e][k].t.id # m.t.id
    /\ toServer'[c] # <<>> =>
          /\ Starts(toServer'[c][1]) \/ Follows(m, toServer'[c][1])
          /\ toServer'[c][1].t.id = m.t.id => Follows(m, toServer'[c][1])
          /\ \E j \in 1 .. Len(toServer[c]) : toServer'[c][1] = toServer[c][j]

LEMMA HeadTaken ==
    ASSUME FilesTypeOK, AllSent, OwnIds, NEW c \in Peers, toServer[c] # <<>>,
           NEW m, m = toServer[c][1], toServer' = [toServer EXCEPT ![c] = Tail(@)]
    PROVE  Leaves(c, m)
<1> DEFINE q == toServer[c]
           s == Tail(toServer[c])
<1>1. q \in Seq(Message) /\ toServer \in [Peers -> Seq(Message)]
  BY DEF FilesTypeOK
<1>2. /\ Len(q) \in Nat \ {0} /\ 1 \in 1 .. Len(q) /\ Head(q) = m /\ m \in Message
      /\ s \in Seq(Message) /\ Len(s) = Len(q) - 1
      /\ \A k \in 1 .. Len(s) : k + 1 \in 1 .. Len(q) /\ s[k] = q[k + 1]
  BY <1>1, TailOf
<1>3. toServer'[c] = s /\ \A e \in Peers : e # c => toServer'[e] = toServer[e]
  BY <1>1
<1>4. toServer' \in [Peers -> Seq(Message)]
  BY <1>1, <1>2
<1>5. AllSent'
  <2>1. Sent(s)
    BY <1>1, SentTail DEF AllSent
  <2> QED
    BY <1>3, <2>1 DEF AllSent
<1>6. \A e \in Peers : \A k \in 1 .. Len(toServer'[e]) :
         \E j \in 1 .. Len(toServer[e]) : toServer'[e][k] = toServer[e][j]
  BY <1>2, <1>3
<1>7. OwnIds'
  BY <1>6 DEF OwnIds
<1>8. \A e \in Peers : e # c => \A k \in 1 .. Len(toServer'[e]) : toServer'[e][k].t.id # m.t.id
  BY <1>2, <1>3 DEF OwnIds
<1>9. m.t.id \in Nat \ {0}
  BY <1>2, MessageFacts
<1>10. ASSUME NEW k \in 1 .. Len(s), Starts(s[k]) PROVE s[k].t.id # m.t.id
  <2>1. k + 1 \in 1 .. Len(q) /\ 1 < k + 1 /\ s[k] = q[k + 1]
    BY <1>2
  <2>2. m.t.id < q[k + 1].t.id
    <3>1. Sent(q)
      BY DEF AllSent
    <3> HIDE DEF q
    <3>2. q[1].t.id < q[k + 1].t.id
      BY <1>2, <1>10, <2>1, <3>1 DEF Sent
    <3> QED
      BY <3>2 DEF q
  <2> QED
    BY <1>9, <2>1, <2>2
<1>11. ASSUME s # <<>> PROVE /\ 1 \in 1 .. Len(s)
                             /\ Starts(s[1]) \/ Follows(m, s[1])
                             /\ s[1].t.id = m.t.id => Follows(m, s[1])
  <2>1. 1 \in 1 .. Len(s)
    BY <1>2, <1>11, TailOf
  <2>2. 1 + 1 \in 1 .. Len(q) /\ s[1] = q[1 + 1]
    BY <1>2, <2>1
  <2>3. Starts(q[1 + 1]) \/ Follows(q[1], q[1 + 1])
    <3>1. Sent(q)
      BY DEF AllSent
    <3> HIDE DEF q
    <3> QED
      BY <1>2, <2>2, <3>1 DEF Sent
  <2> QED
    BY <1>10, <2>1, <2>2, <2>3
<1>q. \A k \in 1 .. Len(s) : Starts(s[k]) => s[k].t.id # m.t.id
  BY <1>10
<1>12. ASSUME NEW e \in Peers, NEW k \in 1 .. Len(toServer'[e]), Starts(toServer'[e][k])
       PROVE  toServer'[e][k].t.id # m.t.id
  <2>1. CASE e # c
    BY <1>8, <2>1
  <2>2. CASE e = c
    <3>1. toServer'[e] = s
      BY <1>3, <2>2
    <3> QED
      BY <1>q, <1>12, <3>1
  <2> QED
    BY <2>1, <2>2
<1>13. toServer'[c] # <<>> => \E j \in 1 .. Len(toServer[c]) : toServer'[c][1] = toServer[c][j]
  BY <1>3, <1>6, <1>11
<1> HIDE DEF q, s
<1>14. toServer'[c] # <<>> =>
                 /\ Starts(toServer'[c][1]) \/ Follows(m, toServer'[c][1])
                 /\ toServer'[c][1].t.id = m.t.id => Follows(m, toServer'[c][1])
  BY <1>3, <1>11
<1>15. \A e \in Peers : \A k \in 1 .. Len(toServer'[e]) :
                 /\ \E j \in 1 .. Len(toServer[e]) : toServer'[e][k] = toServer[e][j]
                 /\ Starts(toServer'[e][k]) => toServer'[e][k].t.id # m.t.id
                 /\ e # c => toServer'[e][k].t.id # m.t.id
  BY <1>6, <1>8, <1>12
<1>16. m = Head(toServer[c]) /\ m \in Message
  BY <1>2 DEF q
<1> QED
  BY <1>3, <1>4, <1>5, <1>7, <1>9, <1>13, <1>14, <1>15, <1>16 DEF Leaves

\* The queue x is q with m at its end.
IsQueued(x, q, m) ==
    /\ x \in Seq(Message) /\ x # <<>> /\ x[Len(x)] = m
    /\ x[1] = IF q = <<>> THEN m ELSE q[1]
    /\ \A k \in 1 .. Len(x) : x[k] = m \/ (k \in 1 .. Len(q) /\ x[k] = q[k])
    /\ \A k \in 1 .. Len(x) : k + 1 \in 1 .. Len(x) =>
          \/ k \in 1 .. Len(q) /\ k + 1 \in 1 .. Len(q) /\ x[k] = q[k] /\ x[k + 1] = q[k + 1]
          \/ q # <<>> /\ x[k] = q[Len(q)] /\ x[k + 1] = m

LEMMA Queued ==
    ASSUME NEW q \in Seq(Message), NEW m \in Message
    PROVE  IsQueued(Append(q, m), q, m)
<1>x. PICK x : x = Append(q, m)
  OBVIOUS
<1> DEFINE n == Len(q)
<1>1. /\ x \in Seq(Message) /\ x # <<>> /\ Len(x) = n + 1 /\ x[n + 1] = m
      /\ \A k \in 1 .. n : x[k] = q[k]
  BY <1>x, AppendProperties
<1>2. n \in Nat /\ (q = <<>> => n = 0) /\ (q # <<>> => n \in Nat \ {0})
  BY EmptySeq
<1> HIDE DEF n
<1>3. /\ \A k \in 1 .. n + 1 : k \in 1 .. n \/ k = n + 1
      /\ q # <<>> => 1 \in 1 .. n
      /\ \A k \in 1 .. n + 1 : k + 1 \in 1 .. n + 1 => k \in 1 .. n /\ (k + 1 \in 1 .. n \/ k = n)
      /\ 1 \in 1 .. n => n # 0
  BY <1>2
<1>4. x[1] = IF q = <<>> THEN m ELSE q[1]
  <2>1. CASE q = <<>>
    <3>1. n + 1 = 1
      BY <1>2, <2>1
    <3> QED
      BY <1>1, <2>1, <3>1
  <2>2. CASE q # <<>>
    BY <1>1, <1>3, <2>2
  <2> QED
    BY <2>1, <2>2
<1>5. \A k \in 1 .. Len(x) : k + 1 \in 1 .. Len(x) =>
                 \/ k \in 1 .. n /\ k + 1 \in 1 .. n /\ x[k] = q[k] /\ x[k + 1] = q[k + 1]
                 \/ q # <<>> /\ x[k] = q[n] /\ x[k + 1] = m
  <2>1. SUFFICES ASSUME NEW k \in 1 .. n + 1, k + 1 \in 1 .. n + 1
                 PROVE  \/ k \in 1 .. n /\ k + 1 \in 1 .. n /\ x[k] = q[k] /\ x[k + 1] = q[k + 1]
                        \/ q # <<>> /\ x[k] = q[n] /\ x[k + 1] = m
    BY <1>1
  <2>2. k \in 1 .. n /\ (k + 1 \in 1 .. n \/ k = n)
    BY <1>3, <2>1
  <2>3. q # <<>>
    BY <1>2, <2>2
  <2> QED
    BY <1>1, <2>2, <2>3
<1>6. \A k \in 1 .. Len(x) : x[k] = m \/ (k \in 1 .. n /\ x[k] = q[k])
  BY <1>1, <1>3
<1> QED
  BY <1>x, <1>1, <1>4, <1>5, <1>6 DEF n, IsQueued

\* MSG_FILE, MSG_FILE_DATA or MSG_FILE_END is received and sent to the others.
LEMMA HandleUploadKeeps ==
    ASSUME FilesInv, NEW c \in Peers, HandleUpload(c)
    PROVE  FilesInv'
<1>h. PICK m : m = toServer[c][1]
  OBVIOUS
<1>1. FilesTypeOK /\ AllSent /\ OwnIds /\ GivenOut /\ StartsUnseen /\ ServerInStep /\ Gapless /\ ClientInStep
      /\ SentInStep /\ Ending
  BY DEF FilesInv, QueueInv, StepInv
<1>2. /\ toServer[c] # <<>> /\ Head(toServer[c]).type # "GET" /\ Receive(Head(toServer[c]))
      /\ toServer' = [toServer EXCEPT ![c] = Tail(@)]
      /\ toClient' = [d \in Peers |-> IF d \in alive \ {c} THEN Append(toClient[d], Head(toServer[c]))
                                      ELSE toClient[d]]
      /\ alone' = IF Head(toServer[c]).type = "FILE" /\ ~ (receiver.open /\ receiver.name = Head(toServer[c]).name)
                  THEN Head(toServer[c]).t.id
                  ELSE IF alone = Head(toServer[c]).t.id THEN alone ELSE NoTransfer
      /\ UNCHANGED <<up, alive, static, copies, count, aloneAt>>
  BY DEF HandleUpload
<1>l. Leaves(c, m)
  BY <1>1, <1>2, <1>h, HeadTaken
<1>3. /\ m = Head(toServer[c]) /\ m \in Message /\ m.t.id \in Nat \ {0}
      /\ toServer' \in [Peers -> Seq(Message)] /\ AllSent' /\ OwnIds'
      /\ \A e \in Peers : e # c => toServer'[e] = toServer[e]
      /\ \A e \in Peers : \A k \in 1 .. Len(toServer'[e]) :
            /\ \E j \in 1 .. Len(toServer[e]) : toServer'[e][k] = toServer[e][j]
            /\ Starts(toServer'[e][k]) => toServer'[e][k].t.id # m.t.id
            /\ e # c => toServer'[e][k].t.id # m.t.id
      /\ toServer'[c] # <<>> =>
            /\ toServer'[c][1].t.id = m.t.id => Follows(m, toServer'[c][1])
            /\ \E j \in 1 .. Len(toServer[c]) : toServer'[c][1] = toServer[c][j]
  BY <1>l DEF Leaves
<1>4. /\ m.type # "GET" /\ Receive(m)
      /\ \A d \in Peers : toClient'[d] = IF d \in alive \ {c} THEN Append(toClient[d], m) ELSE toClient[d]
      /\ alone' = IF m.type = "FILE" /\ ~ (receiver.open /\ receiver.name = m.name) THEN m.t.id
                  ELSE IF alone = m.t.id THEN alone ELSE NoTransfer
  BY <1>2, <1>3
<1>a. alone' = m.t.id \/ alone' = 0
  BY <1>4 DEF NoTransfer
<1>m. toServer[c] # <<>> /\ m = toServer[c][1] /\ 1 \in 1 .. Len(toServer[c])
  BY <1>1, <1>2, <1>h, QueueTypes
<1>q. \A d \in Peers : /\ d \in alive \ {c} => toClient'[d] = Append(toClient[d], m)
                       /\ d \notin alive \ {c} => toClient'[d] = toClient[d]
                       /\ toClient[d] \in Seq(Message)
  BY <1>1, <1>4, QueueTypes
<1>x. ASSUME NEW d \in Peers, d \in alive \ {c} PROVE IsQueued(toClient'[d], toClient[d], m)
  <2>1. toClient[d] \in Seq(Message) /\ m \in Message
    BY <1>3, <1>q
  <2>2. IsQueued(Append(toClient[d], m), toClient[d], m)
    BY <2>1, Queued
  <2>3. toClient'[d] = Append(toClient[d], m)
    BY <1>q, <1>x
  <2> QED
    BY <2>2, <2>3
<1>5. FilesTypeOK'
  <2>1. receiver' \in Receiver /\ stored' \in [Names -> Seq(Piece)]
    BY <1>1, <1>3, <1>4, ReceiveType
  <2>2. \A d \in Peers : toClient'[d] \in Seq(Message)
    BY <1>q, <1>x DEF IsQueued
  <2>3. toClient' \in [Peers -> Seq(Message)]
    BY <1>2, <2>2
  <2>4. alone' \in Nat
    BY <1>3, <1>a
  <2> QED
    BY <1>1, <1>2, <1>3, <2>1, <2>3, <2>4 DEF FilesTypeOK
<1>6. \A e \in Peers : \A k \in 1 .. Len(toServer'[e]) :
         toServer'[e][k] \in Message /\ toServer'[e][k].t.id \in Nat \ {0}
  BY <1>3, MessageFacts
<1>c. \A d \in Peers : \A k \in 1 .. Len(toClient'[d]) :
         toClient'[d][k] = m \/ \E j \in 1 .. Len(toClient[d]) : toClient'[d][k] = toClient[d][j]
  BY <1>q, <1>x DEF IsQueued
<1>7. GivenOut'
  <2>1. m.t.id <= count /\ 0 <= count
    BY <1>1, <1>m DEF GivenOut, FilesTypeOK
  <2>2. alone' <= count'
    BY <1>2, <1>a, <2>1
  <2>3. ASSUME NEW e \in Peers
        PROVE  /\ aloneAt'[e] <= count'
               /\ \A k \in 1 .. Len(toServer'[e]) : toServer'[e][k].t.id <= count'
               /\ \A k \in 1 .. Len(toClient'[e]) : toClient'[e][k].t.id <= count'
    BY <1>1, <1>2, <1>3, <1>c, <2>1 DEF GivenOut
  <2> QED
    BY <2>2, <2>3 DEF GivenOut
<1>8. StartsUnseen'
  <2>1. SUFFICES ASSUME NEW e \in Peers, NEW k \in 1 .. Len(toServer'[e]), Starts(toServer'[e][k])
                 PROVE  Unseen(toServer[e][k].t.id)'
    BY DEF StartsUnseen
  <2> DEFINE id == toServer'[e][k].t.id
  <2>2. id # m.t.id /\ id # 0
    BY <1>3, <1>6, <2>1
  <2>3. alone # id /\ \A d \in Peers : aloneAt[d] # id /\ \A j \in 1 .. Len(toClient[d]) : toClient[d][j].t.id # id
    <3>1. PICK j \in 1 .. Len(toServer[e]) : toServer'[e][k] = toServer[e][j]
      BY <1>3
    <3> QED
      BY <1>1, <2>1, <3>1 DEF StartsUnseen, Unseen
  <2> HIDE DEF id
  <2>4. /\ alone' # id
        /\ \A d \in Peers : aloneAt'[d] # id /\ \A j \in 1 .. Len(toClient'[d]) : toClient'[d][j].t.id # id
    <3>1. alone' # id
      BY <1>a, <2>2
    <3>2. \A d \in Peers : aloneAt'[d] # id
      BY <1>2, <2>3
    <3>3. ASSUME NEW d \in Peers, NEW j \in 1 .. Len(toClient'[d]) PROVE toClient'[d][j].t.id # id
      <4>1. CASE toClient'[d][j] = m
        BY <2>2, <4>1
      <4>2. ASSUME NEW l \in 1 .. Len(toClient[d]), toClient'[d][j] = toClient[d][l]
            PROVE  toClient'[d][j].t.id # id
        BY <2>3, <4>2
      <4> QED
        BY <1>c, <4>1, <4>2
    <3> QED
      BY <3>1, <3>2, <3>3
  <2> QED
    BY <2>4 DEF Unseen, id
<1>9. ServerInStep'
  <2>1. SUFFICES ASSUME NEW e \in Peers, toServer'[e] # <<>>, toServer'[e][1].t.id = alone'
                 PROVE  Awaits(receiver', stored', toServer'[e][1])
    BY DEF ServerInStep
  <2>2. 1 \in 1 .. Len(toServer'[e])
    BY <1>3, <2>1, TailOf
  <2>3. toServer'[e][1].t.id = m.t.id /\ alone' = m.t.id /\ toServer'[e][1] \in Message
    BY <1>6, <1>a, <2>1, <2>2
  <2>4. e = c /\ Follows(m, toServer'[c][1])
    BY <1>3, <2>1, <2>2, <2>3
  <2>5. (m.type = "FILE" /\ ~ (receiver.open /\ receiver.name = m.name)) \/ Awaits(receiver, stored, m)
    <3>1. ASSUME alone = m.t.id PROVE Awaits(receiver, stored, m)
      BY <1>1, <1>m, <3>1 DEF ServerInStep
    <3>2. 0 # m.t.id
      BY <1>3
    <3> QED
      BY <1>4, <2>3, <3>1, <3>2 DEF NoTransfer
  <2> QED
    BY <1>1, <1>3, <1>4, <2>3, <2>4, <2>5, ServerTakes
<1>10. Gapless'
  <2>1. SUFFICES ASSUME NEW d \in Peers, NEW k \in 1 .. Len(toClient'[d]), k + 1 \in 1 .. Len(toClient'[d]),
                        toClient'[d][k].t.id = toClient'[d][k + 1].t.id
                 PROVE  Follows(toClient'[d][k], toClient'[d][k + 1])
    BY DEF Gapless
  <2>2. CASE d \in alive \ {c}
    <3>1. \/ /\ k \in 1 .. Len(toClient[d]) /\ k + 1 \in 1 .. Len(toClient[d])
             /\ toClient'[d][k] = toClient[d][k] /\ toClient'[d][k + 1] = toClient[d][k + 1]
          \/ /\ toClient[d] # <<>> /\ toClient'[d][k] = toClient[d][Len(toClient[d])]
             /\ toClient'[d][k + 1] = m
      BY <1>x, <2>1, <2>2 DEF IsQueued
    <3>2. (toClient[d] # <<>> /\ m.t.id = toClient[d][Len(toClient[d])].t.id)
             => Follows(toClient[d][Len(toClient[d])], m)
      BY <1>1, <1>m, <2>2 DEF SentInStep, NextFor
    <3> QED
      BY <1>1, <2>1, <3>1, <3>2 DEF Gapless
  <2>3. CASE d \notin alive \ {c}
    BY <1>1, <1>q, <2>1, <2>3 DEF Gapless
  <2> QED
    BY <2>2, <2>3
<1>11. ClientInStep'
  <2>1. SUFFICES ASSUME NEW d \in Peers, toClient'[d] # <<>>, toClient'[d][1].t.id = aloneAt'[d]
                 PROVE  Awaits(static'[d], copies'[d], toClient'[d][1])
    BY DEF ClientInStep
  <2>2. CASE d \in alive \ {c} /\ toClient[d] = <<>>
    <3>1. toClient'[d][1] = m
      BY <1>x, <2>2 DEF IsQueued
    <3>2. m.t.id = aloneAt[d] => Awaits(static[d], copies[d], m)
      BY <1>1, <1>m, <2>2 DEF SentInStep, NextFor
    <3> QED
      BY <1>2, <2>1, <3>1, <3>2
  <2>3. CASE ~ (d \in alive \ {c} /\ toClient[d] = <<>>)
    <3>1. toClient'[d][1] = toClient[d][1] /\ toClient[d] # <<>>
      BY <1>q, <1>x, <2>1, <2>3 DEF IsQueued
    <3> QED
      BY <1>1, <1>2, <2>1, <3>1 DEF ClientInStep
  <2> QED
    BY <2>2, <2>3
<1>12. SentInStep'
  <2>1. SUFFICES ASSUME NEW e \in Peers, NEW d \in alive', e # d, toServer'[e] # <<>>
                 PROVE  NextFor(toClient'[d], aloneAt'[d], static'[d], copies'[d], toServer'[e][1])
    BY DEF SentInStep
  <2>0. d \in alive /\ d \in Peers
    BY <1>1, <1>2 DEF FilesTypeOK
  <2>2. CASE d = c
    <3>1. toServer'[e] = toServer[e] /\ toClient'[d] = toClient[d]
      BY <1>3, <1>q, <2>0, <2>1, <2>2
    <3> QED
      BY <1>1, <1>2, <2>0, <2>1, <3>1 DEF SentInStep
  <2>3. CASE d # c
    <3>1. toClient'[d] # <<>> /\ toClient'[d][Len(toClient'[d])] = m
      BY <1>x, <2>0, <2>3 DEF IsQueued
    <3>2. 1 \in 1 .. Len(toServer'[e])
      BY <1>3, <2>1, TailOf
    <3>3. toServer'[e][1].t.id = m.t.id => Follows(m, toServer'[e][1])
      BY <1>3, <2>1, <3>2
    <3> QED
      BY <3>1, <3>3 DEF NextFor
  <2> QED
    BY <2>2, <2>3
<1>13. Ending'
  <2>1. SUFFICES ASSUME alive = Peers
                 PROVE  /\ \A e \in Peers : Ends(toServer'[e])
                        /\ receiver'.open => \E e \in Peers : \E k \in 1 .. Len(toServer'[e]) :
                                                toServer'[e][k].type = "END"
    BY <1>2 DEF Ending
  <2>2. /\ toServer[c] \in Seq(Message) /\ Ends(toServer[c]) /\ toServer'[c] = Tail(toServer[c])
        /\ \A e \in Peers : Ends(toServer[e])
    BY <1>1, <1>2, <2>1, QueueTypes DEF Ending, FilesTypeOK
  <2>3. \A e \in Peers : Ends(toServer'[e])
    BY <1>2, <1>3, <2>2, EndsTail
  <2>4. CASE m.type = "END"
    <3>1. receiver' = Finished(receiver)
      BY <1>4, <2>4 DEF Receive
    <3>2. ~ receiver'.open
      BY <1>1, <3>1 DEF Finished, FilesTypeOK, Receiver
    <3> QED
      BY <2>3, <3>2
  <2>5. CASE m.type # "END"
    <3>1. m.type \in {"FILE", "DATA"}
      BY <1>3, <1>4, <2>5, MessageFacts
    <3>2. PICK j \in 1 .. Len(toServer[c]) : 1 < j /\ toServer[c][j].type = "END"
      BY <1>m, <2>2, <3>1 DEF Ends
    <3>3. /\ Len(toServer'[c]) = Len(toServer[c]) - 1 /\ Len(toServer[c]) \in Nat
          /\ \A k \in 1 .. Len(toServer'[c]) : toServer'[c][k] = toServer[c][k + 1]
      BY <1>m, <2>2, TailOf
    <3>4. j - 1 \in 1 .. Len(toServer'[c]) /\ (j - 1) + 1 = j
      BY <3>2, <3>3
    <3>5. toServer'[c][j - 1].type = "END"
      BY <3>2, <3>3, <3>4
    <3> QED
      BY <2>3, <3>4, <3>5
  <2> QED
    BY <2>4, <2>5
<1> QED
  BY <1>3, <1>5, <1>7, <1>8, <1>9, <1>10, <1>11, <1>12, <1>13 DEF FilesInv, QueueInv, StepInv

\* The queue x is q and after it s.
IsJoined(x, q, s) ==
    /\ x \in Seq(Message) /\ x # <<>> /\ x[Len(x)] = s[Len(s)]
    /\ x[1] = IF q = <<>> THEN s[1] ELSE q[1]
    /\ \A k \in 1 .. Len(x) : \/ \E j \in 1 .. Len(q) : x[k] = q[j]
                              \/ \E j \in 1 .. Len(s) : x[k] = s[j]
    /\ \A k \in 1 .. Len(x) : k + 1 \in 1 .. Len(x) =>
          \/ k \in 1 .. Len(q) /\ k + 1 \in 1 .. Len(q) /\ x[k] = q[k] /\ x[k + 1] = q[k + 1]
          \/ q # <<>> /\ x[k] = q[Len(q)] /\ x[k + 1] = s[1]
          \/ \E j \in 1 .. Len(s) : j + 1 \in 1 .. Len(s) /\ x[k] = s[j] /\ x[k + 1] = s[j + 1]

LEMMA Joined ==
    ASSUME NEW q \in Seq(Message), NEW s \in Seq(Message), s # <<>>
    PROVE  IsJoined(q \o s, q, s)
<1>x. PICK x : x = q \o s
  OBVIOUS
<1> DEFINE a == Len(q)
           b == Len(s)
<1>1. /\ x \in Seq(Message) /\ Len(x) = a + b
      /\ \A k \in 1 .. a : k \in 1 .. Len(x) /\ x[k] = q[k]
      /\ \A k \in 1 .. b : a + k \in 1 .. Len(x) /\ x[a + k] = s[k]
      /\ \A k \in 1 .. Len(x) : k \in 1 .. a \/ \E j \in 1 .. b : k = a + j
  BY <1>x, JoinedQueue
<1>2. a \in Nat /\ b \in Nat \ {0} /\ (q = <<>> => a = 0) /\ (q # <<>> => a \in Nat \ {0})
  BY EmptySeq
<1> HIDE DEF a, b
<1>3. b \in 1 .. b /\ 1 \in 1 .. b /\ (q # <<>> => 1 \in 1 .. a /\ a \in 1 .. a) /\ (q = <<>> => a + 1 = 1)
      /\ a + b # 0
  BY <1>2
<1>4. x # <<>>
  BY <1>1, <1>3, EmptySeq
<1>5. x[Len(x)] = s[b]
  BY <1>1, <1>3
<1>6. x[1] = IF q = <<>> THEN s[1] ELSE q[1]
  BY <1>1, <1>3
<1>7. \A k \in 1 .. Len(x) : (\E j \in 1 .. a : x[k] = q[j]) \/ (\E j \in 1 .. b : x[k] = s[j])
  BY <1>1
<1>8. ASSUME NEW k \in 1 .. Len(x), k + 1 \in 1 .. Len(x)
      PROVE  \/ k \in 1 .. a /\ k + 1 \in 1 .. a /\ x[k] = q[k] /\ x[k + 1] = q[k + 1]
             \/ q # <<>> /\ x[k] = q[a] /\ x[k + 1] = s[1]
             \/ \E j \in 1 .. b : j + 1 \in 1 .. b /\ x[k] = s[j] /\ x[k + 1] = s[j + 1]
  <2>1. CASE k + 1 \in 1 .. a
    <3>1. k \in 1 .. a
      BY <1>2, <2>1
    <3> QED
      BY <1>1, <2>1, <3>1
  <2>2. ASSUME NEW j \in 1 .. b, k + 1 = a + j, j = 1
        PROVE  q # <<>> /\ x[k] = q[a] /\ x[k + 1] = s[1]
    <3>1. k = a /\ a # 0 /\ k \in 1 .. a
      BY <1>2, <2>2
    <3>2. x[a + 1] = s[1]
      BY <1>1, <1>3
    <3> QED
      BY <1>1, <1>2, <2>2, <3>1, <3>2
  <2>3. ASSUME NEW j \in 1 .. b, k + 1 = a + j, j # 1
        PROVE  \E i \in 1 .. b : i + 1 \in 1 .. b /\ x[k] = s[i] /\ x[k + 1] = s[i + 1]
    <3>1. j - 1 \in 1 .. b /\ (j - 1) + 1 = j /\ k = a + (j - 1)
      BY <1>2, <2>3
    <3>2. x[k] = s[j - 1] /\ x[k + 1] = s[j]
      BY <1>1, <2>3, <3>1
    <3> QED
      BY <3>1, <3>2
  <2> QED
    BY <1>1, <1>8, <2>1, <2>2, <2>3
<1> QED
  BY <1>x, <1>1, <1>4, <1>5, <1>6, <1>7, <1>8 DEF a, b, IsJoined

\* The answer to MSG_FILE_GET, if there is one, goes to who asked.
LEMMA Answers ==
    ASSUME FilesTypeOK, NEW c \in Peers, HandleGet(c), NEW m \in Message, m = Head(toServer[c])
    PROVE  \/ toClient' = toClient
           \/ \E s : Burst(s, m.t.id) /\ toClient' = [toClient EXCEPT ![c] = @ \o s]
<1>1. \/ toClient' = toClient
      \/ \E k \in 0 .. Len(stored[m.name]) :
            toClient' = [toClient EXCEPT ![c] =
                @ \o Transfer(m.name, [m.t EXCEPT !.file = SubSeq(stored[m.name], 1, k)])]
  BY DEF HandleGet
<1>2. ASSUME NEW k \in 0 .. Len(stored[m.name]),
             toClient' = [toClient EXCEPT ![c] =
                @ \o Transfer(m.name, [m.t EXCEPT !.file = SubSeq(stored[m.name], 1, k)])]
      PROVE  \E s : Burst(s, m.t.id) /\ toClient' = [toClient EXCEPT ![c] = @ \o s]
  <2> DEFINE t == [m.t EXCEPT !.file = SubSeq(stored[m.name], 1, k)]
  <2>1. m.name \in Names /\ m.t \in Upload /\ stored[m.name] \in Seq(Piece)
    BY MessageFacts DEF FilesTypeOK
  <2>2. SubSeq(stored[m.name], 1, k) \in Seq(Piece)
    <3>1. 1 \in Int /\ k \in Int /\ \A i \in 1 .. k : stored[m.name][i] \in Piece
      BY <2>1
    <3> QED
      BY <3>1, SubSeqProperties
  <2>3. t \in Upload /\ t.id = m.t.id
    BY <2>1, <2>2 DEF Upload
  <2> HIDE DEF t
  <2>4. Burst(Transfer(m.name, t), m.t.id)
    BY <2>1, <2>3, TransferIsBurst
  <2>5. toClient' = [toClient EXCEPT ![c] = @ \o Transfer(m.name, t)]
    BY <1>2 DEF t
  <2> QED
    BY <2>4, <2>5
<1> QED
  BY <1>1, <1>2

\* MSG_FILE_GET is answered, with the Messages of a file of the same identity.
LEMMA HandleGetKeeps ==
    ASSUME FilesInv, NEW c \in Peers, HandleGet(c)
    PROVE  FilesInv'
<1>h. PICK m : m = toServer[c][1]
  OBVIOUS
<1>1. FilesTypeOK /\ AllSent /\ OwnIds /\ GivenOut /\ StartsUnseen /\ ServerInStep /\ Gapless /\ ClientInStep
      /\ SentInStep /\ Ending
  BY DEF FilesInv, QueueInv, StepInv
<1>2. /\ toServer[c] # <<>> /\ Head(toServer[c]).type = "GET"
      /\ toServer' = [toServer EXCEPT ![c] = Tail(@)]
      /\ UNCHANGED <<up, alive, receiver, stored, static, copies, count, alone, aloneAt>>
  BY DEF HandleGet
<1>l. Leaves(c, m)
  BY <1>1, <1>2, <1>h, HeadTaken
<1>3. /\ m = Head(toServer[c]) /\ m \in Message /\ m.t.id \in Nat \ {0}
      /\ toServer' \in [Peers -> Seq(Message)] /\ AllSent' /\ OwnIds'
      /\ \A e \in Peers : e # c => toServer'[e] = toServer[e]
      /\ \A e \in Peers : \A k \in 1 .. Len(toServer'[e]) :
            /\ \E j \in 1 .. Len(toServer[e]) : toServer'[e][k] = toServer[e][j]
            /\ Starts(toServer'[e][k]) => toServer'[e][k].t.id # m.t.id
            /\ e # c => toServer'[e][k].t.id # m.t.id
      /\ toServer'[c] # <<>> => Starts(toServer'[c][1]) \/ Follows(m, toServer'[c][1])
  BY <1>l DEF Leaves
<1>m. toServer[c] # <<>> /\ m = toServer[c][1] /\ 1 \in 1 .. Len(toServer[c]) /\ m.type = "GET"
  BY <1>1, <1>2, <1>3, <1>h, QueueTypes
<1>4. \/ toClient' = toClient
      \/ \E s : Burst(s, m.t.id) /\ toClient' = [toClient EXCEPT ![c] = @ \o s]
  BY <1>1, <1>3, Answers
<1>u. Unseen(m.t.id)
  BY <1>1, <1>m DEF StartsUnseen, Starts
<1>n. \A e \in Peers : \A k \in 1 .. Len(toServer'[e]) :
         toServer'[e][k] \in Message /\ toServer'[e][k].t.id \in Nat \ {0} /\ toServer'[e][k].t.id <= count
  <2>1. \A e \in Peers : \A k \in 1 .. Len(toServer'[e]) : toServer'[e][k] \in Message
    BY <1>3
  <2>2. \A e \in Peers : \A k \in 1 .. Len(toServer'[e]) : toServer'[e][k].t.id <= count
    BY <1>1, <1>3 DEF GivenOut
  <2> QED
    BY <2>1, <2>2, MessageFacts
<1>s. \A e \in Peers : \A k \in 1 .. Len(toServer'[e]) : Starts(toServer'[e][k]) =>
         Unseen(toServer'[e][k].t.id) /\ toServer'[e][k].t.id # m.t.id
  <2>1. SUFFICES ASSUME NEW e \in Peers, NEW k \in 1 .. Len(toServer'[e]), Starts(toServer'[e][k])
                 PROVE  Unseen(toServer'[e][k].t.id) /\ toServer'[e][k].t.id # m.t.id
    OBVIOUS
  <2>2. PICK j \in 1 .. Len(toServer[e]) : toServer'[e][k] = toServer[e][j]
    BY <1>3
  <2> QED
    BY <1>1, <1>3, <2>1, <2>2 DEF StartsUnseen
<1>f. \A e \in Peers : toServer'[e] # <<>> =>
         /\ 1 \in 1 .. Len(toServer'[e])
         /\ e = c => Starts(toServer'[e][1])
         /\ e # c => toServer'[e] = toServer[e] /\ toServer'[e][1].t.id # m.t.id
  <2>1. \A e \in Peers : toServer'[e] # <<>> => 1 \in 1 .. Len(toServer'[e])
    BY <1>3, TailOf
  <2>2. toServer'[c] # <<>> => Starts(toServer'[c][1])
    BY <1>3, <1>m DEF Follows
  <2> QED
    BY <1>3, <2>1, <2>2
<1> DEFINE Answered ==
      /\ toClient' \in [Peers -> Seq(Message)]
      /\ \A d \in Peers : \A k \in 1 .. Len(toClient'[d]) :
            toClient'[d][k].t.id = m.t.id \/ \E j \in 1 .. Len(toClient[d]) : toClient'[d][k] = toClient[d][j]
      /\ Gapless'
      /\ \A d \in Peers : toClient'[d] # <<>> =>
            toClient'[d][1].t.id = m.t.id \/ (toClient[d] # <<>> /\ toClient'[d][1] = toClient[d][1])
      /\ \A d \in Peers : toClient'[d] = toClient[d] \/ (d = c /\ toClient'[d] # <<>> /\ toClient'[d][Len(toClient'[d])].t.id = m.t.id)
<1>a. Answered
  <2>1. CASE toClient' = toClient
    BY <1>1, <2>1 DEF FilesTypeOK, Gapless
  <2>2. ASSUME NEW s, Burst(s, m.t.id), toClient' = [toClient EXCEPT ![c] = @ \o s]
        PROVE  Answered
    <3>1. toClient \in [Peers -> Seq(Message)] /\ toClient[c] \in Seq(Message)
      BY <1>1 DEF FilesTypeOK
    <3>2. /\ s \in Seq(Message) /\ s # <<>> /\ (\A k \in 1 .. Len(s) : s[k].t.id = m.t.id)
          /\ \A k \in 1 .. Len(s) : k + 1 \in 1 .. Len(s) => Follows(s[k], s[k + 1])
      BY <2>2 DEF Burst
    <3>3. 1 \in 1 .. Len(s) /\ Len(s) \in 1 .. Len(s)
      BY <3>2, TailOf
    <3>4. IsJoined(toClient[c] \o s, toClient[c], s)
      BY <3>1, <3>2, Joined
    <3>5. toClient'[c] = toClient[c] \o s /\ \A d \in Peers : d # c => toClient'[d] = toClient[d]
      BY <2>2, <3>1
    <3>6. IsJoined(toClient'[c], toClient[c], s)
      BY <3>4, <3>5
    <3>7. toClient' \in [Peers -> Seq(Message)]
      BY <2>2, <3>1, <3>5, <3>6 DEF IsJoined
    <3>8. \A d \in Peers : \A k \in 1 .. Len(toClient'[d]) :
             toClient'[d][k].t.id = m.t.id \/ \E j \in 1 .. Len(toClient[d]) : toClient'[d][k] = toClient[d][j]
      <4>1. SUFFICES ASSUME NEW d \in Peers, NEW k \in 1 .. Len(toClient'[d])
                     PROVE  \/ toClient'[d][k].t.id = m.t.id
                            \/ \E j \in 1 .. Len(toClient[d]) : toClient'[d][k] = toClient[d][j]
        OBVIOUS
      <4>2. CASE d # c
        BY <3>5, <4>1, <4>2
      <4>3. CASE d = c
        <5>1. \/ \E j \in 1 .. Len(toClient[c]) : toClient'[c][k] = toClient[c][j]
              \/ \E j \in 1 .. Len(s) : toClient'[c][k] = s[j]
          BY <3>6, <4>1, <4>3 DEF IsJoined
        <5> QED
          BY <3>2, <4>3, <5>1
      <4> QED
        BY <4>2, <4>3
    <3>9. Gapless'
      <4>1. SUFFICES ASSUME NEW d \in Peers, NEW k \in 1 .. Len(toClient'[d]), k + 1 \in 1 .. Len(toClient'[d]),
                            toClient'[d][k].t.id = toClient'[d][k + 1].t.id
                     PROVE  Follows(toClient'[d][k], toClient'[d][k + 1])
        BY DEF Gapless
      <4>2. CASE d # c
        BY <1>1, <3>5, <4>1, <4>2 DEF Gapless
      <4>3. CASE d = c
        <5>1. toClient[c] # <<>> => toClient[c][Len(toClient[c])].t.id # m.t.id
          BY <1>1, <1>u, QueueTypes DEF Unseen
        <5>2. \/ /\ k \in 1 .. Len(toClient[c]) /\ k + 1 \in 1 .. Len(toClient[c])
                 /\ toClient'[c][k] = toClient[c][k] /\ toClient'[c][k + 1] = toClient[c][k + 1]
              \/ toClient[c] # <<>> /\ toClient'[c][k] = toClient[c][Len(toClient[c])] /\ toClient'[c][k + 1] = s[1]
              \/ \E j \in 1 .. Len(s) : j + 1 \in 1 .. Len(s) /\ toClient'[c][k] = s[j] /\ toClient'[c][k + 1] = s[j + 1]
          BY <3>6, <4>1, <4>3 DEF IsJoined
        <5> QED
          BY <1>1, <3>2, <3>3, <4>1, <4>3, <5>1, <5>2 DEF Gapless
      <4> QED
        BY <4>2, <4>3
    <3>10. \A d \in Peers : toClient'[d] # <<>> =>
             toClient'[d][1].t.id = m.t.id \/ (toClient[d] # <<>> /\ toClient'[d][1] = toClient[d][1])
      <4>1. s[1].t.id = m.t.id
        BY <3>2, <3>3
      <4>2. toClient'[c][1] = IF toClient[c] = <<>> THEN s[1] ELSE toClient[c][1]
        BY <3>6 DEF IsJoined
      <4> QED
        BY <3>5, <4>1, <4>2
    <3>11. \A d \in Peers : toClient'[d] = toClient[d] \/ (d = c /\ toClient'[d] # <<>> /\ toClient'[d][Len(toClient'[d])].t.id = m.t.id)
      <4>1. s[Len(s)].t.id = m.t.id
        BY <3>2, <3>3
      <4>2. toClient'[c] # <<>> /\ toClient'[c][Len(toClient'[c])] = s[Len(s)]
        BY <3>6 DEF IsJoined
      <4> QED
        BY <3>5, <4>1, <4>2
    <3> QED
      BY <3>7, <3>8, <3>9, <3>10, <3>11
  <2> QED
    BY <1>4, <2>1, <2>2
<1>5. /\ toClient' \in [Peers -> Seq(Message)]
      /\ \A d \in Peers : \A k \in 1 .. Len(toClient'[d]) :
            toClient'[d][k].t.id = m.t.id \/ \E j \in 1 .. Len(toClient[d]) : toClient'[d][k] = toClient[d][j]
      /\ Gapless'
      /\ \A d \in Peers : toClient'[d] # <<>> =>
            toClient'[d][1].t.id = m.t.id \/ (toClient[d] # <<>> /\ toClient'[d][1] = toClient[d][1])
      /\ \A d \in Peers : toClient'[d] = toClient[d] \/ (d = c /\ toClient'[d] # <<>> /\ toClient'[d][Len(toClient'[d])].t.id = m.t.id)
  BY <1>a
<1>6. FilesTypeOK'
  BY <1>1, <1>2, <1>3, <1>5 DEF FilesTypeOK
<1>7. GivenOut'
  <2>1. m.t.id <= count
    BY <1>1, <1>m DEF GivenOut
  <2>2. \A e \in Peers : \A k \in 1 .. Len(toClient'[e]) : toClient'[e][k].t.id <= count
    BY <1>1, <1>5, <2>1 DEF GivenOut
  <2>3. alone <= count /\ \A e \in Peers : aloneAt[e] <= count
    BY <1>1 DEF GivenOut
  <2>4. \A e \in Peers : \A k \in 1 .. Len(toServer'[e]) : toServer'[e][k].t.id <= count
    BY <1>n
  <2> QED
    BY <1>2, <2>2, <2>3, <2>4 DEF GivenOut
<1>8. StartsUnseen'
  <2>1. SUFFICES ASSUME NEW e \in Peers, NEW k \in 1 .. Len(toServer'[e]), Starts(toServer'[e][k])
                 PROVE  Unseen(toServer[e][k].t.id)'
    BY DEF StartsUnseen
  <2>2. Unseen(toServer'[e][k].t.id) /\ toServer'[e][k].t.id # m.t.id
    BY <1>s, <2>1
  <2>i. PICK id : id = toServer'[e][k].t.id
    OBVIOUS
  <2>3. /\ id # m.t.id /\ alone # id
        /\ \A d \in Peers : aloneAt[d] # id /\ \A j \in 1 .. Len(toClient[d]) : toClient[d][j].t.id # id
    BY <2>2, <2>i DEF Unseen
  <2>4. alone' # id /\ \A d \in Peers : aloneAt'[d] # id
    BY <1>2, <2>3
  <2>5. ASSUME NEW d \in Peers, NEW j \in 1 .. Len(toClient'[d]) PROVE toClient'[d][j].t.id # id
    <3>1. CASE toClient'[d][j].t.id = m.t.id
      BY <2>3, <3>1
    <3>2. ASSUME NEW l \in 1 .. Len(toClient[d]), toClient'[d][j] = toClient[d][l]
          PROVE  toClient'[d][j].t.id # id
      BY <2>3, <3>2
    <3> QED
      BY <1>5, <3>1, <3>2
  <2> QED
    BY <2>4, <2>5, <2>i DEF Unseen
<1>9. ServerInStep'
  <2>1. SUFFICES ASSUME NEW e \in Peers, toServer'[e] # <<>>, toServer'[e][1].t.id = alone
                 PROVE  Awaits(receiver, stored, toServer'[e][1])
    BY <1>2 DEF ServerInStep
  <2>2. ~ Starts(toServer'[e][1])
    BY <1>f, <1>s, <2>1 DEF Unseen
  <2> QED
    BY <1>1, <1>f, <2>1, <2>2 DEF ServerInStep
<1>10. ClientInStep'
  <2>1. SUFFICES ASSUME NEW d \in Peers, toClient'[d] # <<>>, toClient'[d][1].t.id = aloneAt[d]
                 PROVE  Awaits(static[d], copies[d], toClient'[d][1])
    BY <1>2 DEF ClientInStep
  <2>2. aloneAt[d] # m.t.id
    BY <1>u DEF Unseen
  <2> QED
    BY <1>1, <1>5, <2>1, <2>2 DEF ClientInStep
<1>11. SentInStep'
  <2>1. SUFFICES ASSUME NEW e \in Peers, NEW d \in alive, e # d, toServer'[e] # <<>>
                 PROVE  NextFor(toClient'[d], aloneAt[d], static[d], copies[d], toServer'[e][1])
    BY <1>2 DEF SentInStep
  <2>0. d \in Peers
    BY <1>1 DEF FilesTypeOK
  <2>2. CASE e = c
    <3>1. toClient'[d] = toClient[d] /\ Unseen(toServer'[e][1].t.id)
      BY <1>5, <1>f, <1>s, <2>0, <2>1, <2>2
    <3> QED
      BY <1>1, <2>0, <3>1, QueueTypes DEF Unseen, NextFor
  <2>3. CASE e # c
    <3>1. toServer'[e] = toServer[e] /\ toServer'[e][1].t.id # m.t.id
      BY <1>f, <2>1, <2>3
    <3>2. CASE toClient'[d] = toClient[d]
      BY <1>1, <2>1, <3>1, <3>2 DEF SentInStep
    <3>3. CASE toClient'[d] # <<>> /\ toClient'[d][Len(toClient'[d])].t.id = m.t.id
      BY <3>1, <3>3 DEF NextFor
    <3> QED
      BY <1>5, <2>0, <3>2, <3>3
  <2> QED
    BY <2>2, <2>3
<1>12. Ending'
  <2>1. SUFFICES ASSUME alive = Peers
                 PROVE  /\ \A e \in Peers : Ends(toServer'[e])
                        /\ receiver.open => \E e \in Peers : \E k \in 1 .. Len(toServer'[e]) :
                                                toServer'[e][k].type = "END"
    BY <1>2 DEF Ending
  <2>2. /\ toServer[c] \in Seq(Message) /\ Ends(toServer[c]) /\ toServer'[c] = Tail(toServer[c])
        /\ \A e \in Peers : Ends(toServer[e])
    BY <1>1, <1>2, <2>1, QueueTypes DEF Ending, FilesTypeOK
  <2>3. \A e \in Peers : Ends(toServer'[e])
    BY <1>2, <1>3, <2>2, EndsTail
  <2>4. ASSUME receiver.open PROVE \E e \in Peers : \E k \in 1 .. Len(toServer'[e]) : toServer'[e][k].type = "END"
    <3>1. PICK e \in Peers : \E k \in 1 .. Len(toServer[e]) : toServer[e][k].type = "END"
      BY <1>1, <2>1, <2>4 DEF Ending
    <3>2. CASE e # c
      BY <1>3, <3>1, <3>2
    <3>3. CASE e = c
      <4>1. PICK j \in 1 .. Len(toServer[c]) : toServer[c][j].type = "END"
        BY <3>1, <3>3
      <4>2. j # 1
        BY <1>m, <4>1
      <4>3. /\ Len(toServer'[c]) = Len(toServer[c]) - 1 /\ Len(toServer[c]) \in Nat
            /\ \A k \in 1 .. Len(toServer'[c]) : toServer'[c][k] = toServer[c][k + 1]
        BY <1>m, <2>2, TailOf
      <4>4. j - 1 \in 1 .. Len(toServer'[c]) /\ (j - 1) + 1 = j
        BY <4>1, <4>2, <4>3
      <4>5. toServer'[c][j - 1].type = "END"
        BY <4>1, <4>3, <4>4
      <4> QED
        BY <4>4, <4>5
    <3> QED
      BY <3>2, <3>3
  <2> QED
    BY <2>3, <2>4
<1> QED
  BY <1>3, <1>5, <1>6, <1>7, <1>8, <1>9, <1>10, <1>11, <1>12 DEF FilesInv, QueueInv, StepInv

\* The server ends: what was on its way to it is never handled.
LEMMA RemoveFilesKeeps ==
    ASSUME FilesInv, RemoveFiles
    PROVE  FilesInv'
<1>1. FilesTypeOK /\ GivenOut /\ Gapless /\ ClientInStep
  BY DEF FilesInv, QueueInv, StepInv
<1>2. /\ up' = FALSE /\ stored' = [n \in Names |-> NoFile] /\ receiver' = Closed
      /\ toServer' = [c \in Peers |-> <<>>]
      /\ UNCHANGED <<alive, toClient, static, copies, count, alone, aloneAt>>
  BY DEF RemoveFiles
<1>3. \A c \in Peers : toServer'[c] = <<>> /\ Len(toServer'[c]) = 0 /\ \A k \in Int : k \notin 1 .. Len(toServer'[c])
  <2>1. \A c \in Peers : toServer'[c] = <<>>
    BY <1>2
  <2>2. Len(<<>>) = 0 /\ \A k \in Int : k \notin 1 .. 0
    OBVIOUS
  <2> QED
    BY <2>1, <2>2
<1>4. FilesTypeOK'
  <2>1. NoFile \in Seq(Piece) /\ <<>> \in Seq(Message)
    BY DEF NoFile, Piece
  <2>2. Closed \in Receiver
    BY DEF Closed, Receiver
  <2> QED
    BY <1>1, <1>2, <2>1, <2>2 DEF FilesTypeOK
<1>5. \A c \in Peers : \A k \in 1 .. Len(toServer'[c]) : FALSE
  BY <1>3
<1>6. AllSent' /\ OwnIds' /\ StartsUnseen'
  BY <1>5 DEF AllSent, Sent, OwnIds, StartsUnseen
<1>7. GivenOut'
  BY <1>1, <1>2, <1>5 DEF GivenOut
<1>8. ServerInStep' /\ SentInStep'
  BY <1>3 DEF ServerInStep, SentInStep
<1>9. Gapless' /\ ClientInStep'
  BY <1>1, <1>2 DEF Gapless, ClientInStep
<1>10. Ending'
  BY <1>2, <1>5 DEF Ending, Ends, Closed
<1> QED
  BY <1>4, <1>6, <1>7, <1>8, <1>9, <1>10 DEF FilesInv, QueueInv, StepInv

\* A client dies in the middle of what it sends.
LEMMA DieKeeps ==
    ASSUME FilesInv, NEW c \in Peers, Die(c)
    PROVE  FilesInv'
<1>1. FilesTypeOK /\ AllSent /\ OwnIds /\ GivenOut /\ StartsUnseen /\ ServerInStep /\ Gapless /\ ClientInStep
      /\ SentInStep
  BY DEF FilesInv, QueueInv, StepInv
<1>2. PICK n \in 0 .. Len(toServer[c]) : toServer' = [toServer EXCEPT ![c] = SubSeq(@, 1, n)]
  BY DEF Die
<1>3. alive' = alive \ {c}
      /\ UNCHANGED <<up, toClient, receiver, stored, static, copies, count, alone, aloneAt>>
  BY DEF Die
<1>q. toServer \in [Peers -> Seq(Message)] /\ toServer[c] \in Seq(Message)
  BY <1>1 DEF FilesTypeOK
<1>4. /\ SubSeq(toServer[c], 1, n) \in Seq(Message) /\ Len(SubSeq(toServer[c], 1, n)) = n
      /\ \A k \in 1 .. n : k \in 1 .. Len(toServer[c]) /\ SubSeq(toServer[c], 1, n)[k] = toServer[c][k]
      /\ Sent(SubSeq(toServer[c], 1, n))
  BY <1>1, <1>q, PrefixOf, SentPrefix DEF AllSent
<1>5. toServer'[c] = SubSeq(toServer[c], 1, n) /\ \A e \in Peers : e # c => toServer'[e] = toServer[e]
  BY <1>2, <1>q
<1>6. toServer' \in [Peers -> Seq(Message)]
  BY <1>2, <1>4, <1>q
<1>7. AllSent'
  BY <1>1, <1>4, <1>5 DEF AllSent
<1>8. \A e \in Peers : \A k \in 1 .. Len(toServer'[e]) :
         k \in 1 .. Len(toServer[e]) /\ toServer'[e][k] = toServer[e][k]
  BY <1>4, <1>5
<1>9. \A e \in Peers : toServer'[e] # <<>> => toServer[e] # <<>> /\ toServer'[e][1] = toServer[e][1]
  <2>1. SUFFICES ASSUME NEW e \in Peers, toServer'[e] # <<>>
                 PROVE  toServer[e] # <<>> /\ toServer'[e][1] = toServer[e][1]
    OBVIOUS
  <2>2. 1 \in 1 .. Len(toServer'[e])
    BY <1>6, <2>1, TailOf
  <2>3. 1 \in 1 .. Len(toServer[e]) /\ toServer'[e][1] = toServer[e][1]
    BY <1>8, <2>2
  <2> QED
    BY <2>3
<1>10. FilesTypeOK'
  BY <1>1, <1>3, <1>6 DEF FilesTypeOK
<1>11. OwnIds' /\ GivenOut'
  <2>1. ASSUME NEW d \in Peers, NEW e \in Peers, d # e,
               NEW j \in 1 .. Len(toServer'[d]), NEW k \in 1 .. Len(toServer'[e])
        PROVE  toServer'[d][j].t.id # toServer'[e][k].t.id
    <3>1. /\ j \in 1 .. Len(toServer[d]) /\ toServer'[d][j] = toServer[d][j]
          /\ k \in 1 .. Len(toServer[e]) /\ toServer'[e][k] = toServer[e][k]
      BY <1>8
    <3> QED
      BY <1>1, <2>1, <3>1 DEF OwnIds
  <2>2. ASSUME NEW e \in Peers
        PROVE  /\ aloneAt[e] <= count
               /\ \A k \in 1 .. Len(toServer'[e]) : toServer'[e][k].t.id <= count
               /\ \A k \in 1 .. Len(toClient[e]) : toClient[e][k].t.id <= count
    BY <1>1, <1>8 DEF GivenOut
  <2>3. alone <= count
    BY <1>1 DEF GivenOut
  <2>4. GivenOut'
    BY <1>3, <2>2, <2>3 DEF GivenOut
  <2>5. OwnIds'
    BY <2>1 DEF OwnIds
  <2> QED
    BY <2>4, <2>5
<1>12. StartsUnseen'
  BY <1>1, <1>3, <1>8 DEF StartsUnseen, Unseen
<1>13. ServerInStep' /\ SentInStep'
  BY <1>1, <1>3, <1>9 DEF ServerInStep, SentInStep
<1>14. Gapless' /\ ClientInStep'
  BY <1>1, <1>3 DEF Gapless, ClientInStep
<1>15. Ending'
  BY <1>3 DEF Ending
<1> QED
  BY <1>7, <1>10, <1>11, <1>12, <1>13, <1>14, <1>15 DEF FilesInv, QueueInv, StepInv

\* A client sends a file or MSG_FILE_GET, under an identity nobody has seen.
LEMMA SendingKeeps ==
    ASSUME FilesInv, NEW c \in Peers, NEW s, Burst(s, count + 1),
           toServer' = [toServer EXCEPT ![c] = @ \o s], count' = count + 1,
           UNCHANGED <<up, alive, toClient, receiver, stored, static, copies, alone, aloneAt>>
    PROVE  FilesInv'
<1>1. FilesTypeOK /\ AllSent /\ OwnIds /\ GivenOut /\ StartsUnseen /\ ServerInStep /\ Gapless /\ ClientInStep
      /\ SentInStep /\ Ending
  BY DEF FilesInv, QueueInv, StepInv
<1>i. PICK id : id = count + 1
  OBVIOUS
<1>2. /\ id \in Nat /\ count \in Nat /\ count' = id
      /\ \A v \in Nat : v <= count => v < id /\ v # id /\ v <= id
      /\ id <= id
  <2>1. count \in Nat
    BY <1>1 DEF FilesTypeOK
  <2> QED
    BY <1>i, <2>1
<1>3. /\ Burst(s, id) /\ s \in Seq(Message) /\ s # <<>> /\ (\A k \in 1 .. Len(s) : s[k].t.id = id)
  BY <1>i DEF Burst
<1>q. toServer \in [Peers -> Seq(Message)] /\ toServer[c] \in Seq(Message)
  BY <1>1 DEF FilesTypeOK
<1>4. toServer'[c] = toServer[c] \o s /\ \A e \in Peers : e # c => toServer'[e] = toServer[e]
  BY <1>q
<1>5. IsJoined(toServer'[c], toServer[c], s)
  BY <1>3, <1>4, <1>q, Joined
<1>6. toServer' \in [Peers -> Seq(Message)]
  BY <1>5, <1>4, <1>q DEF IsJoined
<1>7. Sent(toServer'[c])
  <2>1. \A k \in 1 .. Len(toServer[c]) : toServer[c][k].t.id < id
    BY <1>1, <1>2, QueueTypes DEF GivenOut
  <2> QED
    BY <1>1, <1>2, <1>3, <1>4, <1>q, <2>1, SentJoined DEF AllSent
<1>8. AllSent'
  BY <1>1, <1>4, <1>7 DEF AllSent
<1>9. \A e \in Peers : \A k \in 1 .. Len(toServer'[e]) :
         \/ \E j \in 1 .. Len(toServer[e]) : toServer'[e][k] = toServer[e][j]
         \/ e = c /\ toServer'[e][k].t.id = id
  <2>1. SUFFICES ASSUME NEW e \in Peers, NEW k \in 1 .. Len(toServer'[e])
                 PROVE  \/ \E j \in 1 .. Len(toServer[e]) : toServer'[e][k] = toServer[e][j]
                        \/ e = c /\ toServer'[e][k].t.id = id
    OBVIOUS
  <2>2. CASE e # c
    BY <1>4, <2>1, <2>2
  <2>3. CASE e = c
    <3>1. \/ \E j \in 1 .. Len(toServer[c]) : toServer'[c][k] = toServer[c][j]
          \/ \E j \in 1 .. Len(s) : toServer'[c][k] = s[j]
      BY <1>5, <2>1, <2>3 DEF IsJoined
    <3> QED
      BY <1>3, <2>3, <3>1
  <2> QED
    BY <2>2, <2>3
<1>10. \A e \in Peers : toServer'[e] # <<>> =>
          \/ toServer[e] # <<>> /\ toServer'[e][1] = toServer[e][1]
          \/ toServer'[e][1].t.id = id
  <2>1. toServer'[c][1] = IF toServer[c] = <<>> THEN s[1] ELSE toServer[c][1]
    BY <1>5 DEF IsJoined
  <2>2. s[1].t.id = id
    BY <1>3, TailOf
  <2> QED
    BY <1>4, <2>1, <2>2
<1>11. FilesTypeOK'
  BY <1>1, <1>2, <1>6 DEF FilesTypeOK
<1>12. \A e \in Peers : \A k \in 1 .. Len(toServer[e]) : toServer[e][k].t.id # id /\ toServer[e][k].t.id <= id
  BY <1>1, <1>2, QueueTypes DEF GivenOut
<1>13. OwnIds'
  <2>1. SUFFICES ASSUME NEW d \in Peers, NEW e \in Peers, d # e,
                        NEW j \in 1 .. Len(toServer'[d]), NEW k \in 1 .. Len(toServer'[e])
                 PROVE  toServer'[d][j].t.id # toServer'[e][k].t.id
    BY DEF OwnIds
  <2>2. CASE d = c /\ toServer'[d][j].t.id = id
    <3>1. PICK i \in 1 .. Len(toServer[e]) : toServer'[e][k] = toServer[e][i]
      BY <1>9, <2>1, <2>2
    <3> QED
      BY <1>12, <2>2, <3>1
  <2>3. ASSUME NEW i \in 1 .. Len(toServer[d]), toServer'[d][j] = toServer[d][i]
        PROVE  toServer'[d][j].t.id # toServer'[e][k].t.id
    <3>1. CASE toServer'[e][k].t.id = id
      BY <1>12, <2>3, <3>1
    <3>2. ASSUME NEW l \in 1 .. Len(toServer[e]), toServer'[e][k] = toServer[e][l]
          PROVE  toServer'[d][j].t.id # toServer'[e][k].t.id
      <4>1. toServer[d][i].t.id # toServer[e][l].t.id
        BY <1>1, <2>1 DEF OwnIds
      <4> QED
        BY <2>3, <3>2, <4>1
    <3> QED
      BY <1>9, <3>1, <3>2
  <2> QED
    BY <1>9, <2>2, <2>3
<1>14. Unseen(id) /\ GivenOut'
  <2>1. alone # id /\ alone <= id
    BY <1>1, <1>2 DEF GivenOut, FilesTypeOK
  <2>2. ASSUME NEW d \in Peers PROVE aloneAt[d] # id /\ aloneAt[d] <= id
    BY <1>1, <1>2 DEF GivenOut, FilesTypeOK
  <2>3. ASSUME NEW d \in Peers, NEW k \in 1 .. Len(toClient[d])
        PROVE  toClient[d][k].t.id # id /\ toClient[d][k].t.id <= id
    BY <1>1, <1>2, QueueTypes DEF GivenOut
  <2>4. Unseen(id)
    BY <2>1, <2>2, <2>3 DEF Unseen
  <2>5. \A e \in Peers : \A k \in 1 .. Len(toServer'[e]) : toServer'[e][k].t.id <= id
    BY <1>2, <1>9, <1>12
  <2>6. GivenOut'
    BY <1>2, <2>1, <2>2, <2>3, <2>5 DEF GivenOut
  <2> QED
    BY <2>4, <2>6
<1>15. StartsUnseen'
  <2>1. SUFFICES ASSUME NEW e \in Peers, NEW k \in 1 .. Len(toServer'[e]), Starts(toServer'[e][k])
                 PROVE  Unseen(toServer[e][k].t.id)'
    BY DEF StartsUnseen
  <2>2. Unseen(toServer'[e][k].t.id)
    BY <1>1, <1>9, <1>14, <2>1 DEF StartsUnseen
  <2> QED
    BY <2>2 DEF Unseen
<1>16. ServerInStep'
  <2>1. SUFFICES ASSUME NEW e \in Peers, toServer'[e] # <<>>, toServer'[e][1].t.id = alone
                 PROVE  Awaits(receiver, stored, toServer'[e][1])
    BY DEF ServerInStep
  <2>2. toServer'[e][1].t.id # id
    BY <1>14, <2>1 DEF Unseen
  <2> QED
    BY <1>1, <1>10, <2>1, <2>2 DEF ServerInStep
<1>17. Gapless' /\ ClientInStep'
  BY <1>1 DEF Gapless, ClientInStep
<1>18. SentInStep'
  <2>1. SUFFICES ASSUME NEW e \in Peers, NEW d \in alive, e # d, toServer'[e] # <<>>
                 PROVE  NextFor(toClient[d], aloneAt[d], static[d], copies[d], toServer'[e][1])
    BY DEF SentInStep
  <2>2. d \in Peers
    BY <1>1 DEF FilesTypeOK
  <2>3. CASE toServer'[e][1].t.id = id
    BY <1>1, <1>14, <2>2, <2>3, QueueTypes DEF Unseen, NextFor
  <2>4. CASE toServer[e] # <<>> /\ toServer'[e][1] = toServer[e][1]
    BY <1>1, <2>1, <2>4 DEF SentInStep
  <2> QED
    BY <1>10, <2>1, <2>3, <2>4
<1>19. Ending'
  <2>1. SUFFICES ASSUME alive = Peers
                 PROVE  /\ \A e \in Peers : Ends(toServer'[e])
                        /\ receiver.open => \E e \in Peers : \E k \in 1 .. Len(toServer'[e]) :
                                                toServer'[e][k].type = "END"
    BY DEF Ending
  <2>2. \A e \in Peers : Ends(toServer[e])
    BY <1>1, <2>1 DEF Ending
  <2>3. Ends(toServer'[c])
    BY <1>2, <1>3, <1>4, <1>q, <2>2, EndsJoined
  <2>4. \A e \in Peers : Ends(toServer'[e])
    BY <1>4, <2>2, <2>3
  <2>5. ASSUME receiver.open PROVE \E e \in Peers : \E k \in 1 .. Len(toServer'[e]) : toServer'[e][k].type = "END"
    <3>1. PICK e \in Peers : \E k \in 1 .. Len(toServer[e]) : toServer[e][k].type = "END"
      BY <1>1, <2>1, <2>5 DEF Ending
    <3>2. PICK k \in 1 .. Len(toServer[e]) : toServer[e][k].type = "END"
      BY <3>1
    <3>3. k \in 1 .. Len(toServer'[e]) /\ toServer'[e][k] = toServer[e][k]
      <4>1. CASE e = c
        BY <1>3, <1>4, <1>q, <4>1, JoinedQueue
      <4>2. CASE e # c
        BY <1>4, <4>2
      <4> QED
        BY <4>1, <4>2
    <3> QED
      BY <3>2, <3>3
  <2> QED
    BY <2>4, <2>5
<1> QED
  BY <1>8, <1>11, <1>13, <1>14, <1>15, <1>16, <1>17, <1>18, <1>19 DEF FilesInv, QueueInv, StepInv

\* A client takes a Message from its connection.
LEMMA HandleServerFileKeeps ==
    ASSUME FilesInv, NEW d \in Peers, HandleServerFile(d)
    PROVE  FilesInv'
<1>h. PICK m : m = toClient[d][1]
  OBVIOUS
<1>1. FilesTypeOK /\ AllSent /\ OwnIds /\ GivenOut /\ StartsUnseen /\ ServerInStep /\ Gapless /\ ClientInStep
      /\ SentInStep /\ Ending
  BY DEF FilesInv, QueueInv, StepInv
<1>q. toClient \in [Peers -> Seq(Message)] /\ toClient[d] \in Seq(Message)
  BY <1>1 DEF FilesTypeOK
<1>2. /\ toClient[d] # <<>> /\ ReceiveFile(d, Head(toClient[d]))
      /\ toClient' = [toClient EXCEPT ![d] = Tail(@)]
      /\ aloneAt' = [aloneAt EXCEPT ![d] = IF Head(toClient[d]).type = "FILE" \/ @ = Head(toClient[d]).t.id
                                            THEN Head(toClient[d]).t.id ELSE NoTransfer]
      /\ UNCHANGED <<up, alive, toServer, receiver, stored, count, alone>>
  BY DEF HandleServerFile
<1>3. /\ Len(toClient[d]) \in Nat \ {0} /\ 1 \in 1 .. Len(toClient[d]) /\ Head(toClient[d]) = m /\ m \in Message
      /\ Tail(toClient[d]) \in Seq(Message) /\ Len(Tail(toClient[d])) = Len(toClient[d]) - 1
      /\ \A k \in 1 .. Len(Tail(toClient[d])) :
            k + 1 \in 1 .. Len(toClient[d]) /\ Tail(toClient[d])[k] = toClient[d][k + 1]
  BY <1>2, <1>h, <1>q, TailOf
<1>4. toClient'[d] = Tail(toClient[d]) /\ \A e \in Peers : e # d => toClient'[e] = toClient[e]
  BY <1>2, <1>q
<1>5. toClient' \in [Peers -> Seq(Message)]
  BY <1>2, <1>3, <1>q
<1>6. /\ aloneAt'[d] = IF m.type = "FILE" \/ aloneAt[d] = m.t.id THEN m.t.id ELSE NoTransfer
      /\ \A e \in Peers : e # d => aloneAt'[e] = aloneAt[e]
  BY <1>1, <1>2, <1>3 DEF FilesTypeOK
<1>7. m.t.id \in Nat \ {0} /\ m.t.id <= count
  BY <1>1, <1>3, <1>h, MessageFacts DEF GivenOut
<1>8. aloneAt'[d] = m.t.id \/ aloneAt'[d] = 0
  BY <1>6 DEF NoTransfer
<1>9. /\ static' \in [Peers -> Receiver] /\ copies' \in [Peers -> [Names -> Seq(Piece)]]
      /\ \A e \in Peers : e # d => static'[e] = static[e] /\ copies'[e] = copies[e]
  BY <1>1, <1>2, <1>3, ReceiveFileType
<1>10. FilesTypeOK'
  <2>1. aloneAt' \in [Peers -> Nat]
    <3>1. aloneAt \in [Peers -> Nat]
      BY <1>1 DEF FilesTypeOK
    <3>2. aloneAt'[d] \in Nat
      BY <1>7, <1>8
    <3> QED
      BY <1>2, <3>1, <3>2
  <2> QED
    BY <1>1, <1>2, <1>5, <1>9, <2>1 DEF FilesTypeOK
<1>11. \A e \in Peers : \A k \in 1 .. Len(toClient'[e]) :
          \E j \in 1 .. Len(toClient[e]) : toClient'[e][k] = toClient[e][j]
  BY <1>3, <1>4
<1>12. AllSent' /\ OwnIds'
  BY <1>1, <1>2 DEF AllSent, OwnIds
<1>13. GivenOut'
  <2>1. count \in Nat /\ 0 <= count
    BY <1>1 DEF FilesTypeOK
  <2>2. ASSUME NEW e \in Peers PROVE aloneAt'[e] <= count
    BY <1>1, <1>6, <1>7, <1>8, <2>1 DEF GivenOut
  <2>3. \A e \in Peers : \A k \in 1 .. Len(toClient'[e]) : toClient'[e][k].t.id <= count
    BY <1>1, <1>11 DEF GivenOut
  <2>4. alone <= count /\ \A e \in Peers : \A k \in 1 .. Len(toServer[e]) : toServer[e][k].t.id <= count
    BY <1>1 DEF GivenOut
  <2> QED
    BY <1>2, <2>2, <2>3, <2>4 DEF GivenOut
<1>14. StartsUnseen'
  <2>1. SUFFICES ASSUME NEW e \in Peers, NEW k \in 1 .. Len(toServer[e]), Starts(toServer[e][k])
                 PROVE  Unseen(toServer[e][k].t.id)'
    BY <1>2 DEF StartsUnseen
  <2>i. PICK id : id = toServer[e][k].t.id
    OBVIOUS
  <2>2. id # 0
    BY <1>1, <2>i, QueueTypes
  <2>3. alone # id /\ \A f \in Peers : aloneAt[f] # id /\ \A j \in 1 .. Len(toClient[f]) : toClient[f][j].t.id # id
    BY <1>1, <2>1, <2>i DEF StartsUnseen, Unseen
  <2>4. id # m.t.id
    BY <1>3, <1>h, <2>3
  <2>5. \A f \in Peers : aloneAt'[f] # id /\ \A j \in 1 .. Len(toClient'[f]) : toClient'[f][j].t.id # id
    <3>1. ASSUME NEW f \in Peers PROVE aloneAt'[f] # id
      BY <1>6, <1>8, <2>2, <2>3, <2>4
    <3>2. ASSUME NEW f \in Peers, NEW j \in 1 .. Len(toClient'[f]) PROVE toClient'[f][j].t.id # id
      <4>1. PICK l \in 1 .. Len(toClient[f]) : toClient'[f][j] = toClient[f][l]
        BY <1>11
      <4> QED
        BY <2>3, <4>1
    <3> QED
      BY <3>1, <3>2
  <2> QED
    BY <1>2, <2>3, <2>5, <2>i DEF Unseen
<1>15. ServerInStep' /\ Ending'
  BY <1>1, <1>2 DEF ServerInStep, Ending
<1>16. Gapless'
  <2>1. SUFFICES ASSUME NEW e \in Peers, NEW k \in 1 .. Len(toClient'[e]), k + 1 \in 1 .. Len(toClient'[e]),
                        toClient'[e][k].t.id = toClient'[e][k + 1].t.id
                 PROVE  Follows(toClient'[e][k], toClient'[e][k + 1])
    BY DEF Gapless
  <2>2. CASE e # d
    BY <1>1, <1>4, <2>1, <2>2 DEF Gapless
  <2>3. CASE e = d
    <3>1. /\ k + 1 \in 1 .. Len(toClient[d]) /\ (k + 1) + 1 \in 1 .. Len(toClient[d])
          /\ toClient'[e][k] = toClient[d][k + 1] /\ toClient'[e][k + 1] = toClient[d][(k + 1) + 1]
      BY <1>3, <1>4, <2>1, <2>3
    <3> QED
      BY <1>1, <2>1, <3>1 DEF Gapless
  <2> QED
    BY <2>2, <2>3
<1>17. ASSUME NEW n \in Message, n.t.id = aloneAt'[d], n.t.id = m.t.id => Follows(m, n)
       PROVE  Awaits(static'[d], copies'[d], n)
  <2>1. n.t.id = m.t.id
    BY <1>8, <1>17, MessageFacts
  <2>2. m.type = "FILE" \/ aloneAt[d] = m.t.id
    BY <1>6, <1>7, <1>17, <2>1 DEF NoTransfer
  <2>3. m.type = "FILE" \/ Awaits(static[d], copies[d], m)
    BY <1>1, <1>2, <1>h, <2>2 DEF ClientInStep
  <2> QED
    BY <1>1, <1>2, <1>3, <1>17, <2>1, <2>3, ClientTakes
<1>18. ClientInStep'
  <2>1. SUFFICES ASSUME NEW e \in Peers, toClient'[e] # <<>>, toClient'[e][1].t.id = aloneAt'[e]
                 PROVE  Awaits(static'[e], copies'[e], toClient'[e][1])
    BY DEF ClientInStep
  <2>2. CASE e # d
    BY <1>1, <1>4, <1>6, <1>9, <2>1, <2>2 DEF ClientInStep
  <2>3. CASE e = d
    <3>1. 1 \in 1 .. Len(toClient'[d]) /\ toClient'[d][1] \in Message
      BY <1>5, <2>1, <2>3, TailOf
    <3>2. 1 + 1 \in 1 .. Len(toClient[d]) /\ toClient'[d][1] = toClient[d][1 + 1]
      BY <1>3, <1>4, <3>1
    <3>3. toClient'[d][1].t.id = m.t.id => Follows(m, toClient'[d][1])
      BY <1>1, <1>3, <1>h, <3>2 DEF Gapless
    <3> QED
      BY <1>17, <2>1, <2>3, <3>1, <3>3
  <2> QED
    BY <2>2, <2>3
<1>19. SentInStep'
  <2>1. SUFFICES ASSUME NEW c \in Peers, NEW e \in alive, c # e, toServer[c] # <<>>
                 PROVE  NextFor(toClient'[e], aloneAt'[e], static'[e], copies'[e], toServer[c][1])
    BY <1>2 DEF SentInStep
  <2>2. NextFor(toClient[e], aloneAt[e], static[e], copies[e], toServer[c][1]) /\ e \in Peers
    BY <1>1, <2>1 DEF SentInStep, FilesTypeOK
  <2>3. CASE e # d
    BY <1>4, <1>6, <1>9, <2>2, <2>3
  <2>4. CASE e = d /\ toClient'[d] = <<>>
    <3>1. Len(toClient[d]) = 1
      <4>1. Len(toClient'[d]) = 0
        BY <2>4
      <4> QED
        BY <1>3, <1>4, <4>1
    <3>2. toServer[c][1].t.id = m.t.id => Follows(m, toServer[c][1])
      BY <1>2, <1>h, <2>2, <2>4, <3>1 DEF NextFor
    <3>3. toServer[c][1] \in Message
      BY <1>1, <2>1, QueueTypes
    <3> QED
      BY <1>17, <2>4, <3>2, <3>3 DEF NextFor
  <2>5. CASE e = d /\ toClient'[d] # <<>>
    <3>1. /\ Len(toClient'[d]) \in 1 .. Len(toClient'[d])
          /\ Len(toClient'[d]) + 1 = Len(toClient[d])
      <4>1. Len(toClient'[d]) \in Nat \ {0}
        BY <1>5, <2>5, TailOf
      <4>2. Len(toClient'[d]) = Len(toClient[d]) - 1 /\ Len(toClient[d]) \in Nat
        BY <1>3, <1>4
      <4>3. \A a \in Nat \ {0}, b \in Nat : a = b - 1 => a \in 1 .. a /\ a + 1 = b
        OBVIOUS
      <4> QED
        BY <4>1, <4>2, <4>3
    <3>2. toClient'[d][Len(toClient'[d])] = toClient[d][Len(toClient[d])]
      BY <1>3, <1>4, <3>1
    <3> QED
      BY <1>2, <2>2, <2>5, <3>2 DEF NextFor
  <2> QED
    BY <2>3, <2>4, <2>5
<1> QED
  BY <1>10, <1>12, <1>13, <1>14, <1>15, <1>16, <1>18, <1>19 DEF FilesInv, QueueInv, StepInv

LEMMA SendFileSends ==
    ASSUME FilesTypeOK, NEW c \in Peers, SendFile(c)
    PROVE  \E s : Burst(s, count + 1) /\ toServer' = [toServer EXCEPT ![c] = @ \o s]
<1>1. PICK name \in Names, k \in 0 .. MaxChunks :
         toServer' = [toServer EXCEPT ![c] =
             @ \o Transfer(name, [id |-> count + 1, file |-> [i \in 1 .. k |-> <<count + 1, i>>]])]
  BY DEF SendFile
<1>f. PICK file : file = [i \in 1 .. k |-> <<count + 1, i>>]
  OBVIOUS
<1>t. PICK t : t = [id |-> count + 1, file |-> file]
  OBVIOUS
<1>2. count + 1 \in Nat \ {0}
  BY DEF FilesTypeOK
<1>3. file \in Seq(Piece)
  <2>1. k \in Nat
    BY FilesAssumption
  <2>2. \A i \in 1 .. k : <<count + 1, i>> \in Piece
    <3>1. \A i \in 1 .. k : i \in Nat
      BY <2>1
    <3>2. \A v \in Nat, i \in Nat : <<v, i>> \in Piece
      BY DEF Piece
    <3> QED
      BY <1>2, <3>1, <3>2
  <2>3. file \in [1 .. k -> Piece]
    BY <1>f, <2>2
  <2> QED
    BY <2>1, <2>3, SeqDef
<1>4. t \in Upload /\ t.id = count + 1
  BY <1>t, <1>2, <1>3 DEF Upload
<1>5. Burst(Transfer(name, t), count + 1)
  BY <1>4, TransferIsBurst
<1>6. toServer' = [toServer EXCEPT ![c] = @ \o Transfer(name, t)]
  BY <1>1, <1>f, <1>t
<1> QED
  BY <1>5, <1>6

LEMMA GetSends ==
    ASSUME FilesTypeOK, NEW c \in Peers, Get(c)
    PROVE  \E s : Burst(s, count + 1) /\ toServer' = [toServer EXCEPT ![c] = @ \o s]
<1>1. PICK name \in Names : toServer' = [toServer EXCEPT ![c] =
         Append(@, Msg("GET", name, [id |-> count + 1, file |-> <<>>], 0))]
  BY DEF Get
<1>m. PICK m : m = Msg("GET", name, [id |-> count + 1, file |-> <<>>], 0)
  OBVIOUS
<1>2. count + 1 \in Nat \ {0} /\ toServer[c] \in Seq(Message) /\ toServer \in [Peers -> Seq(Message)]
  BY DEF FilesTypeOK
<1>3. Burst(<<m>>, count + 1) /\ m \in Message
  BY <1>2, <1>m, GetIsBurst
<1>4. Append(toServer[c], m) = toServer[c] \o <<m>>
  BY <1>2, <1>3, AppendIsConcat
<1>5. toServer' = [toServer EXCEPT ![c] = @ \o <<m>>]
  BY <1>1, <1>2, <1>4, <1>m
<1> QED
  BY <1>3, <1>5

LEMMA FilesInductive == FilesInv /\ [FilesNext]_filesVars => FilesInv'
<1> SUFFICES ASSUME FilesInv, [FilesNext]_filesVars PROVE FilesInv'
  OBVIOUS
<1>t. FilesTypeOK
  BY DEF FilesInv
<1>1. CASE RemoveFiles
  BY <1>1, RemoveFilesKeeps
<1>2. ASSUME NEW c \in Peers, HandleUpload(c) PROVE FilesInv'
  BY <1>2, HandleUploadKeeps
<1>3. ASSUME NEW c \in Peers, HandleGet(c) PROVE FilesInv'
  BY <1>3, HandleGetKeeps
<1>4. ASSUME NEW c \in Peers, HandleServerFile(c) PROVE FilesInv'
  BY <1>4, HandleServerFileKeeps
<1>5. ASSUME NEW c \in Peers, SendFile(c) PROVE FilesInv'
  <2>1. PICK s : Burst(s, count + 1) /\ toServer' = [toServer EXCEPT ![c] = @ \o s]
    BY <1>t, <1>5, SendFileSends
  <2>2. /\ count' = count + 1
        /\ UNCHANGED <<up, alive, toClient, receiver, stored, static, copies, alone, aloneAt>>
    BY <1>5 DEF SendFile
  <2> QED
    BY <2>1, <2>2, SendingKeeps
<1>6. ASSUME NEW c \in Peers, Get(c) PROVE FilesInv'
  <2>1. PICK s : Burst(s, count + 1) /\ toServer' = [toServer EXCEPT ![c] = @ \o s]
    BY <1>t, <1>6, GetSends
  <2>2. /\ count' = count + 1
        /\ UNCHANGED <<up, alive, toClient, receiver, stored, static, copies, alone, aloneAt>>
    BY <1>6 DEF Get
  <2> QED
    BY <2>1, <2>2, SendingKeeps
<1>7. ASSUME NEW c \in Peers, Die(c) PROVE FilesInv'
  BY <1>7, DieKeeps
<1>8. CASE UNCHANGED filesVars
  <2>1. FilesTypeOK'
    BY <1>8, <1>t DEF filesVars, FilesTypeOK
  <2>2. QueueInv'
    BY <1>8 DEF filesVars, FilesInv, QueueInv, AllSent, OwnIds, GivenOut, StartsUnseen, Unseen
  <2>3. StepInv'
    BY <1>8 DEF filesVars, FilesInv, StepInv, ServerInStep, Gapless, ClientInStep, SentInStep
  <2>4. Ending'
    BY <1>8 DEF filesVars, FilesInv, Ending
  <2> QED
    BY <2>1, <2>2, <2>3, <2>4 DEF FilesInv
<1> QED
  BY <1>1, <1>2, <1>3, <1>4, <1>5, <1>6, <1>7, <1>8 DEF FilesNext

LEMMA FilesInitial == FilesInit => FilesInv
<1> SUFFICES ASSUME FilesInit PROVE FilesInv
  OBVIOUS
<1>1. /\ up = TRUE /\ alive = Peers
      /\ toServer = [c \in Peers |-> <<>>] /\ toClient = [c \in Peers |-> <<>>]
      /\ receiver = Closed /\ stored = [n \in Names |-> NoFile]
      /\ static = [c \in Peers |-> Closed]
      /\ copies = [c \in Peers |-> [n \in Names |-> NoFile]]
      /\ count = 0 /\ alone = 0 /\ aloneAt = [c \in Peers |-> 0]
  BY DEF FilesInit, NoTransfer
<1>2. FilesTypeOK
  <2>1. NoFile \in Seq(Piece) /\ <<>> \in Seq(Message)
    BY DEF NoFile, Piece
  <2>2. Closed \in Receiver
    BY DEF Closed, Receiver
  <2> QED
    BY <1>1, <2>1, <2>2 DEF FilesTypeOK
<1>3. \A c \in Peers : toServer[c] = <<>> /\ toClient[c] = <<>> /\ aloneAt[c] = 0
  BY <1>1
<1>4. \A k \in 1 .. Len(<<>>) : FALSE
  OBVIOUS
<1>5. \A c \in Peers : /\ \A k \in 1 .. Len(toServer[c]) : FALSE
                       /\ \A k \in 1 .. Len(toClient[c]) : FALSE
  BY <1>3, <1>4
<1>6. AllSent /\ OwnIds /\ StartsUnseen
  BY <1>5 DEF AllSent, Sent, OwnIds, StartsUnseen
<1>7. GivenOut
  <2>1. 0 <= 0
    OBVIOUS
  <2> QED
    BY <1>1, <1>3, <1>5, <2>1 DEF GivenOut
<1>8. ServerInStep /\ SentInStep /\ ClientInStep
  BY <1>3 DEF ServerInStep, SentInStep, ClientInStep
<1>9. Gapless
  BY <1>5 DEF Gapless
<1>10. Ending
  BY <1>1, <1>5 DEF Ending, Ends, Closed
<1> QED
  BY <1>2, <1>6, <1>7, <1>8, <1>9, <1>10 DEF FilesInv, QueueInv, StepInv

LEMMA FilesInvariant == FilesSpec => []FilesInv
<1> QED
  BY FilesInitial, FilesInductive, PTL DEF FilesSpec

\* Every Message on its way, the receivers, and the contents of the files in both
\* directories have their types: in particular the place of every MSG_FILE_DATA is one
\* of its file, so that a chunk is never read past its end.
THEOREM FilesTypeCorrect == FilesSpec => []FilesTypeOK
<1>1. FilesInv => FilesTypeOK
  BY DEF FilesInv
<1> QED
  BY <1>1, FilesInvariant, PTL

\* However many clients upload at once into the one FileReceiver, once everything sent
\* has been handled and nobody died no file is left open.
THEOREM FilesNothingLeftOpen == FilesSpec => []NothingLeftOpen
<1>1. FilesInv => NothingLeftOpen
  <2> SUFFICES ASSUME FilesInv, alive = Peers, \A c \in Peers : toServer[c] = <<>>, receiver.open
               PROVE  FALSE
    BY DEF NothingLeftOpen
  <2>1. PICK c \in Peers : \E k \in 1 .. Len(toServer[c]) : toServer[c][k].type = "END"
    BY DEF FilesInv, Ending
  <2>2. toServer[c] = <<>>
    OBVIOUS
  <2>3. \A k \in 1 .. Len(<<>>) : FALSE
    OBVIOUS
  <2> QED
    BY <2>1, <2>2, <2>3
<1> QED
  BY <1>1, FilesInvariant, PTL

-----------------------------------------------------------------------------
(***************************************************************************)
(* What MSG_FILE_END finds.                                                *)
(***************************************************************************)

LEMMA WholeFile ==
    ASSUME NEW m \in Message, m.type = "END", NEW s \in Seq(Piece), Prefix(s, m.t.file, m.at - 1)
    PROVE  s = m.t.file
<1>1. m.t.file \in Seq(Piece) /\ Len(m.t.file) \in Nat /\ m.at = Len(m.t.file) + 1
  BY MessageFacts
<1>2. m.at - 1 = Len(m.t.file)
  BY <1>1
<1>3. Len(s) = Len(m.t.file) /\ \A k \in 1 .. Len(s) : s[k] = m.t.file[k]
  BY <1>2 DEF Prefix
<1> QED
  BY <1>1, <1>3, SeqEqual

\* A queue that lost its first Message was neither left alone nor added to.
LEMMA Shrinks ==
    ASSUME NEW q \in Seq(Message), q # <<>>
    PROVE  /\ Tail(q) # q
           /\ \A m \in Message : Tail(q) # Append(q, m)
           /\ \A s \in Seq(Message) : Tail(q) # q \o s
<1>1. Len(q) \in Nat /\ Len(Tail(q)) = Len(q) - 1
  BY TailOf
<1>2. \A m \in Message : Len(Append(q, m)) = Len(q) + 1
  BY AppendProperties
<1>3. \A s \in Seq(Message) : Len(q \o s) = Len(q) + Len(s) /\ Len(s) \in Nat
  BY ConcatProperties
<1>4. \A a, b \in Nat : a - 1 # a /\ a - 1 # a + 1 /\ a - 1 # a + b
  OBVIOUS
<1> QED
  BY <1>1, <1>2, <1>3, <1>4

\* Only handling its first Message takes it from the queue of a client.
LEMMA OnlyHandled ==
    ASSUME FilesTypeOK, FilesNext, up', alive' = alive, NEW c \in Peers,
           Ended(toServer[c], toServer'[c])
    PROVE  HandleUpload(c)
<1>q. toServer \in [Peers -> Seq(Message)] /\ toServer[c] \in Seq(Message) /\ toServer[c] # <<>>
      /\ Head(toServer[c]).type = "END" /\ toServer'[c] = Tail(toServer[c])
  BY DEF FilesTypeOK, Ended
<1>1. toServer'[c] # toServer[c] /\ \A s \in Seq(Message) : toServer'[c] # toServer[c] \o s
  BY <1>q, Shrinks
<1>2. ~ RemoveFiles
  BY DEF RemoveFiles
<1>3. ASSUME NEW e \in Peers, HandleUpload(e) PROVE e = c
  BY <1>1, <1>3, <1>q DEF HandleUpload
<1>4. ASSUME NEW e \in Peers, HandleGet(e) PROVE FALSE
  BY <1>1, <1>4, <1>q DEF HandleGet
<1>5. ASSUME NEW e \in Peers, HandleServerFile(e) PROVE FALSE
  BY <1>1, <1>5 DEF HandleServerFile
<1>6. ASSUME NEW e \in Peers, SendFile(e) \/ Get(e) PROVE FALSE
  <2>1. PICK s : Burst(s, count + 1) /\ toServer' = [toServer EXCEPT ![e] = @ \o s]
    BY <1>6, SendFileSends, GetSends
  <2>2. s \in Seq(Message)
    BY <2>1 DEF Burst
  <2> QED
    BY <1>1, <1>q, <2>1, <2>2
<1>7. ASSUME NEW e \in Peers, Die(e) PROVE FALSE
  BY <1>7 DEF Die
<1> QED
  BY <1>2, <1>3, <1>4, <1>5, <1>6, <1>7 DEF FilesNext

LEMMA OnlyTaken ==
    ASSUME FilesTypeOK, FilesNext, NEW d \in Peers, Ended(toClient[d], toClient'[d])
    PROVE  HandleServerFile(d)
<1>q. toClient \in [Peers -> Seq(Message)] /\ toClient[d] \in Seq(Message) /\ toClient[d] # <<>>
      /\ toClient'[d] = Tail(toClient[d])
  BY DEF FilesTypeOK, Ended
<1>1. /\ toClient'[d] # toClient[d] /\ \A s \in Seq(Message) : toClient'[d] # toClient[d] \o s
      /\ \A m \in Message : toClient'[d] # Append(toClient[d], m)
  BY <1>q, Shrinks
<1>2. ~ RemoveFiles
  BY <1>1 DEF RemoveFiles
<1>3. \A e \in Peers : toServer[e] # <<>> => Head(toServer[e]) \in Message
  BY TailOf DEF FilesTypeOK
<1>4. ASSUME NEW e \in Peers, HandleUpload(e) PROVE FALSE
  <2>1. toClient'[d] = Append(toClient[d], Head(toServer[e])) \/ toClient'[d] = toClient[d]
    BY <1>4 DEF HandleUpload
  <2>2. Head(toServer[e]) \in Message
    BY <1>3, <1>4 DEF HandleUpload
  <2> QED
    BY <1>1, <2>1, <2>2
<1>5. ASSUME NEW e \in Peers, HandleGet(e) PROVE FALSE
  <2>1. PICK m : m = Head(toServer[e])
    OBVIOUS
  <2>2. m \in Message
    BY <1>3, <1>5, <2>1 DEF HandleGet
  <2>3. toClient' = toClient \/ \E s : Burst(s, m.t.id) /\ toClient' = [toClient EXCEPT ![e] = @ \o s]
    BY <1>5, <2>1, <2>2, Answers
  <2>4. ASSUME NEW s, Burst(s, m.t.id), toClient' = [toClient EXCEPT ![e] = @ \o s] PROVE FALSE
    <3>1. s \in Seq(Message)
      BY <2>4 DEF Burst
    <3> QED
      BY <1>1, <1>q, <2>4, <3>1
  <2> QED
    BY <1>1, <2>3, <2>4
<1>6. ASSUME NEW e \in Peers, HandleServerFile(e) PROVE e = d
  BY <1>1, <1>6, <1>q DEF HandleServerFile
<1>7. ASSUME NEW e \in Peers, SendFile(e) \/ Get(e) \/ Die(e) PROVE FALSE
  BY <1>1, <1>7 DEF SendFile, Get, Die
<1> QED
  BY <1>2, <1>4, <1>5, <1>6, <1>7 DEF FilesNext

\* An upload whose Messages reached the one FileReceiver without another's among them is
\* stored whole when its MSG_FILE_END is handled, whatever was received, abandoned or
\* left open before it.
THEOREM FilesUploadStoredWhole == FilesSpec => UploadStoredWhole
<1> DEFINE Whole(c) ==
      LET m == Head(toServer[c]) IN
      (/\ Ended(toServer[c], toServer'[c]) /\ alive' = alive /\ up'
       /\ alone = m.t.id /\ m.name \notin BadNames)
         => (stored'[m.name] = m.t.file /\ ~ receiver'.open)
<1>1. ASSUME FilesInv, FilesNext, NEW c \in Peers PROVE Whole(c)
  <2>m. PICK m : m = Head(toServer[c])
    OBVIOUS
  <2>1. SUFFICES ASSUME Ended(toServer[c], toServer'[c]), alive' = alive, up',
                        alone = m.t.id, m.name \notin BadNames
                 PROVE  stored'[m.name] = m.t.file /\ ~ receiver'.open
    BY <2>m
  <2>2. FilesTypeOK /\ ServerInStep
    BY <1>1 DEF FilesInv, StepInv
  <2>3. toServer[c] # <<>> /\ m.type = "END" /\ m \in Message /\ m = toServer[c][1]
    BY <2>1, <2>2, <2>m, TailOf DEF Ended, FilesTypeOK
  <2>4. HandleUpload(c)
    BY <1>1, <2>1, <2>2, OnlyHandled
  <2>5. receiver' = Finished(receiver) /\ stored' = stored
    BY <2>3, <2>4, <2>m DEF HandleUpload, Receive
  <2>6. Prefix(stored[m.name], m.t.file, m.at - 1)
    BY <2>1, <2>2, <2>3 DEF ServerInStep, Awaits
  <2>7. stored[m.name] \in Seq(Piece)
    BY <2>2, <2>3, MessageFacts DEF FilesTypeOK
  <2>8. ~ receiver'.open
    BY <2>2, <2>5 DEF Finished, FilesTypeOK, Receiver
  <2> QED
    BY <2>3, <2>5, <2>6, <2>7, <2>8, WholeFile
<1>2. FilesInv /\ [FilesNext]_filesVars => [\A c \in Peers : Whole(c)]_filesVars
  BY <1>1
<1> QED
  BY <1>2, FilesInvariant, PTL DEF FilesSpec, UploadStoredWhole

\* The same of what a client receives, broadcast or asked for.
THEOREM FilesCopyIsWhole == FilesSpec => CopyIsWhole
<1> DEFINE Whole(d) ==
      LET m == Head(toClient[d]) IN
      (/\ Ended(toClient[d], toClient'[d]) /\ aloneAt[d] = m.t.id
       /\ m.name \notin BadNames)
         => (copies'[d][m.name] = m.t.file /\ ~ static'[d].open)
<1>1. ASSUME FilesInv, FilesNext, NEW d \in Peers PROVE Whole(d)
  <2>m. PICK m : m = Head(toClient[d])
    OBVIOUS
  <2>1. SUFFICES ASSUME Ended(toClient[d], toClient'[d]), aloneAt[d] = m.t.id, m.name \notin BadNames
                 PROVE  copies'[d][m.name] = m.t.file /\ ~ static'[d].open
    BY <2>m
  <2>2. FilesTypeOK /\ ClientInStep
    BY <1>1 DEF FilesInv, StepInv
  <2>3. toClient[d] # <<>> /\ m.type = "END" /\ m \in Message /\ m = toClient[d][1]
    BY <2>1, <2>2, <2>m, TailOf DEF Ended, FilesTypeOK
  <2>4. HandleServerFile(d)
    BY <1>1, <2>1, <2>2, OnlyTaken
  <2>5. ReceiveFile(d, m)
    BY <2>4, <2>m DEF HandleServerFile
  <2>6. /\ static' = [static EXCEPT ![d] = [static[d] EXCEPT !.open = @ /\ m.type # "END"]]
        /\ copies' = [copies EXCEPT ![d] = copies[d]]
    BY <2>3, <2>5 DEF ReceiveFile
  <2>7. static \in [Peers -> Receiver] /\ copies \in [Peers -> [Names -> Seq(Piece)]] /\ static[d] \in Receiver
    BY <2>2 DEF FilesTypeOK
  <2>8. copies'[d] = copies[d]
    BY <2>6, <2>7
  <2>9. ~ static'[d].open
    <3>1. static'[d] = [static[d] EXCEPT !.open = @ /\ m.type # "END"]
      BY <2>6, <2>7
    <3>2. \A r \in Receiver : ~ [r EXCEPT !.open = @ /\ FALSE].open
      BY DEF Receiver
    <3>3. static'[d] = [static[d] EXCEPT !.open = @ /\ FALSE]
      BY <2>3, <3>1
    <3> QED
      BY <2>7, <3>2, <3>3
  <2>10. Prefix(copies[d][m.name], m.t.file, m.at - 1)
    BY <2>1, <2>2, <2>3 DEF ClientInStep, Awaits
  <2>11. copies[d][m.name] \in Seq(Piece)
    BY <2>3, <2>7, MessageFacts
  <2> QED
    BY <2>3, <2>8, <2>9, <2>10, <2>11, WholeFile
<1>2. FilesInv /\ [FilesNext]_filesVars => [\A d \in Peers : Whole(d)]_filesVars
  BY <1>1
<1> QED
  BY <1>2, FilesInvariant, PTL DEF FilesSpec, CopyIsWhole

==============================================================================
