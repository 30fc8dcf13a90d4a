-------------------------- MODULE EventStreamProofs --------------------------
(***************************************************************************)
(* Theorems about EventStream, for any number of writers, clients, events, *)
(* connections and faults, and every page size.                            *)
(***************************************************************************)
EXTENDS EventStream, FiniteSetTheorems, WellFoundedInduction, TLAPS

Stream == Ws \cup Sse

\* The rows that are committed or may still be.
Pending == UNION {open[w] : w \in Writer}
Present == log \cup Pending

-----------------------------------------------------------------------------
(* The inductive invariant.                                                *)

\* Numbers are unique; one writer at a time has open rows, and their numbers
\* follow those of the log without a gap.
Numbers ==
  /\ IsFiniteSet(log) /\ \A w \in Writer : IsFiniteSet(open[w])
  /\ \A row \in Present : row.seq \in 1..emitted /\ row.id \in 1..emitted
  /\ \A p, q \in Present : p.seq = q.seq => p = q
  /\ \A row \in Pending, p \in log : p.seq < row.seq
  /\ \A v, w \in Writer : v = w \/ open[v] = {} \/ open[w] = {}
  /\ \A row \in Pending : \A n \in 1..row.seq : (\E p \in log : n <= p.seq) \/ n \in Seqs(Pending)

\* Numbers up to b that no present row reaches have been rolled back.
Ladder(b) == \A n \in 1..b : n \in voided \/ \E row \in Present : n <= row.seq

\* What a stream has sent and is about to send.
Chain(c) == conn[c].sent \o conn[c].queue

\* The j-th event of a chain comes after the i-th rightly, or not at all, or it
\* has come before.
Ordered(chain) ==
  \A j \in DOMAIN chain : \A i \in 1..(j - 1) :
    \/ chain[i].seq < chain[j].seq \/ chain[j].seq \in voided
    \/ \E k \in 1..i : chain[k] = chain[j]

NoTriple(chain) ==
  \A k \in DOMAIN chain : \A j \in 1..(k - 1) : \A i \in 1..(j - 1) :
    ~(chain[i] = chain[j] /\ chain[j] = chain[k])

NoDouble(chain) == \A j \in DOMAIN chain : \A i \in 1..(j - 1) : chain[i] # chain[j]

Queued(c, row) == \E j \in DOMAIN conn[c].queue : conn[c].queue[j] = row

ChainOK(chain) ==
  /\ \A j \in DOMAIN chain : chain[j].id \in 1..emitted /\ Ladder(chain[j].seq)
  /\ Ordered(chain) /\ NoTriple(chain)

QueueOK(c) ==
  /\ conn[c].pc = "off" => conn[c] = Off
  /\ \A j \in DOMAIN conn[c].sent : conn[c].sent[j].id \in got[c]
  /\ \A j \in DOMAIN conn[c].queue :
       LET row == conn[c].queue[j] IN
       /\ row \in Present \/ row.seq \in voided
       /\ Visible(c, conn[c].owned, row)
       /\ conn[c].pc = "subscribed" => row.seq > cursor[c] \/ row.seq \in voided
  /\ conn[c].pc = "subscribed" => conn[c].sent = <<>> /\ NoDouble(conn[c].queue)

\* A present row that the client has not seen is passed over, to be replayed, or
\* in the queue.
NoneSkipped(c) ==
  /\ Ladder(cursor[c])
  /\ \A row \in Present :
       row.session \in Mine[c] /\ row.id \notin got[c] =>
         \/ row.id \in missable[c]
         \/ row.seq <= cursor[c] /\ row.seq \in voided
         \/ /\ row.seq > cursor[c]
            /\ \/ conn[c].pc = "off"
               \/ Queued(c, row)
               \/ /\ conn[c].pc = "subscribed" /\ row \in log
                  /\ row.seq <= cursor[c] + MaxReplay /\ Visible(c, conn[c].owned, row)

\* A poller has seen all its events up to a number that is in the log.
PollerOK(c) ==
  /\ cursor[c] = 0 \/ \E row \in log : cursor[c] <= row.seq
  /\ \A row \in log : row.session \in Mine[c] /\ row.seq <= cursor[c] => row.id \in got[c]

StreamInv ==
  /\ TypeOK /\ Numbers
  /\ \A c \in Stream : ChainOK(Chain(c)) /\ QueueOK(c) /\ NoneSkipped(c)
  /\ \A c \in Poller : PollerOK(c)

-----------------------------------------------------------------------------
(* Maxima, pages and chains.                                               *)

\* A bounded set of numbers has a maximum: the least of its bounds.
LEMMA MaxOfBounded ==
  ASSUME NEW S \in SUBSET Nat, S # {}, NEW b \in Nat, \A n \in S : n <= b
  PROVE  Max(S) \in S /\ \A n \in S : n <= Max(S)
<1> DEFINE T == {m \in Nat : \A n \in S : n <= m}
<1>1. T \subseteq Nat /\ T # {}
  OBVIOUS
<1> HIDE DEF T
<1> DEFINE R == {x \in Nat \X Nat : x[1] < x[2]}
<1>2. IsWellFoundedOn(R, Nat)
  BY NatLessThanWellFounded DEF OpToRel
<1>3. PICK m \in T : \A n \in T : ~(n < m)
  <2>1. PICK m \in T : \A n \in T : ~(<<n, m>> \in R)
    <3> HIDE DEF R
    <3> QED BY <1>1, <1>2, WFMin
  <2>2. \A n \in T : <<n, m>> \in Nat \X Nat
    BY <1>1
  <2> QED BY <2>1, <2>2
<1>4. m \in S
  <2> SUFFICES ASSUME m \notin S PROVE FALSE
    OBVIOUS
  <2>1. m \in Nat /\ \A n \in S : n <= m
    BY DEF T
  <2>2. \A n \in S : n < m /\ n <= m - 1
    BY <2>1
  <2>3. m - 1 \in Nat
    <3>1. PICK n \in S : n \in Nat
      OBVIOUS
    <3> QED BY <2>1, <2>2, <3>1
  <2>4. m - 1 \in T
    BY <2>2, <2>3 DEF T
  <2> QED BY <1>3, <2>1, <2>4
<1>5. \A n \in S : m >= n
  BY DEF T
<1>6. Max(S) \in S /\ \A n \in S : Max(S) >= n
  BY <1>4, <1>5 DEF Max
<1> QED BY <1>6

LEMMA MaxOfTwo ==
  ASSUME NEW a \in Nat, NEW b \in Nat
  PROVE  /\ Max({a, b}) \in {a, b} /\ Max({a, b}) \in Nat
         /\ a <= Max({a, b}) /\ b <= Max({a, b})
<1>1. {a, b} \in SUBSET Nat /\ {a, b} # {} /\ a + b \in Nat /\ \A n \in {a, b} : n <= a + b
  OBVIOUS
<1>2. Max({a, b}) \in {a, b} /\ \A n \in {a, b} : n <= Max({a, b})
  BY <1>1, MaxOfBounded
<1> QED BY <1>2

\* A page has no gap ...
LEMMA PageHasNoGap ==
  ASSUME log \subseteq Row, IsFiniteSet(log), NEW after \in Nat, NEW limit \in Nat,
         NEW q \in ReplayAfter(after, limit), NEW p \in log, after < p.seq, p.seq <= q.seq
  PROVE  p \in ReplayAfter(after, limit)
<1> DEFINE later == {row \in log : row.seq > after}
           P     == {row \in later : row.seq < p.seq}
           Q     == {row \in later : row.seq < q.seq}
<1>1. q \in later /\ Cardinality(Q) < limit
  BY DEF ReplayAfter
<1>2. \A row \in log : row.seq \in Nat
  BY DEF Row
<1>3. P \subseteq Q
  BY <1>1, <1>2
<1>4. Q \subseteq log /\ IsFiniteSet(Q)
  BY FS_Subset
<1>5. Cardinality(P) <= Cardinality(Q) /\ IsFiniteSet(P)
  BY <1>3, <1>4, FS_Subset
<1>6. Cardinality(P) \in Nat /\ Cardinality(Q) \in Nat
  BY <1>4, <1>5, FS_CardinalityType
<1>7. Cardinality(P) < limit
  BY <1>1, <1>5, <1>6
<1>8. p \in later
  BY <1>2
<1> QED BY <1>7, <1>8 DEF ReplayAfter

\* ... and holds as many numbers as it may hold rows.
LEMMA PageHoldsNumbers ==
  ASSUME log \subseteq Row, IsFiniteSet(log), \A p, q \in log : p.seq = q.seq => p = q,
         NEW after \in Nat, NEW limit \in Nat, NEW row \in log,
         after < row.seq, row.seq <= after + limit
  PROVE  row \in ReplayAfter(after, limit)
<1> DEFINE later == {r \in log : r.seq > after}
           S     == {r \in later : r.seq < row.seq}
           T     == (after + 1)..(row.seq - 1)
           f     == [r \in S |-> r.seq]
<1>1. \A r \in log : r.seq \in Nat
  BY DEF Row
<1>2. IsFiniteSet(S)
  <2>1. S \subseteq log
    OBVIOUS
  <2> QED BY <2>1, FS_Subset
<1>3. IsFiniteSet(T) /\ Cardinality(T) = row.seq - 1 - after
  <2>1. after + 1 \in Int /\ row.seq - 1 \in Int
    BY <1>1
  <2>2. IsFiniteSet(T) /\ Cardinality(T) = IF after + 1 > row.seq - 1 THEN 0 ELSE row.seq - 1 - (after + 1) + 1
    BY <2>1, FS_Interval
  <2> QED BY <1>1, <2>2
<1>4. f \in [S -> T]
  BY <1>1
<1>5. \A x, y \in S : x # y => f[x] # f[y]
  OBVIOUS
<1>6. Cardinality(S) \in Nat /\ Cardinality(T) \in Nat
  BY <1>2, <1>3, FS_CardinalityType
<1> HIDE DEF f, S, T
<1>7. ~(Cardinality(T) < Cardinality(S))
  BY <1>2, <1>3, <1>4, <1>5, FS_PigeonHole
<1>8. Cardinality(S) < limit
  BY <1>1, <1>3, <1>6, <1>7
<1> QED BY <1>1, <1>8 DEF ReplayAfter, S

\* The queue is the end of a chain.
LEMMA QueueInChain ==
  ASSUME NEW s \in Seq(Row), NEW q \in Seq(Row), NEW j \in DOMAIN q
  PROVE  Len(s) + j \in DOMAIN (s \o q) /\ (s \o q)[Len(s) + j] = q[j]
OBVIOUS

\* Sending moves the head of the queue within the chain.
LEMMA SendKeepsChain ==
  ASSUME NEW s \in Seq(Row), NEW q \in Seq(Row), q # <<>>
  PROVE  Append(s, Head(q)) \o Tail(q) = s \o q
<1> DEFINE l == Append(s, Head(q)) \o Tail(q)
           r == s \o q
<1>1. Head(q) = q[1] /\ Head(q) \in Row /\ Tail(q) \in Seq(Row) /\ Len(Tail(q)) = Len(q) - 1
  OBVIOUS
<1>2. Append(s, Head(q)) \in Seq(Row) /\ Len(Append(s, Head(q))) = Len(s) + 1
  BY <1>1
<1>3. l \in Seq(Row) /\ r \in Seq(Row) /\ Len(l) = Len(r)
  BY <1>1, <1>2
<1>4. \A i \in 1..Len(r) : l[i] = r[i]
  BY <1>1, <1>2
<1> QED BY <1>3, <1>4

\* A new row comes last.
LEMMA AppendExtendsChain ==
  ASSUME NEW s \in Seq(Row), NEW q \in Seq(Row), NEW row \in Row
  PROVE  s \o Append(q, row) = Append(s \o q, row)
<1> DEFINE l == s \o Append(q, row)
           r == Append(s \o q, row)
<1>1. l \in Seq(Row) /\ r \in Seq(Row) /\ Len(l) = Len(r)
  OBVIOUS
<1>2. \A i \in 1..Len(r) : l[i] = r[i]
  OBVIOUS
<1> QED BY <1>1, <1>2

-----------------------------------------------------------------------------
(* The numbers of the rows.                                                *)

LEMMA PresentRows ==
  ASSUME TypeOK
  PROVE  Present \subseteq Row /\ Pending \subseteq Row /\ \A row \in Row : row.seq \in Nat /\ row.id \in Nat
BY DEF TypeOK, Present, Pending, Row

\* What an emission does: the new row has the next number and the next name.
Emission(w, row) ==
  /\ row \in Row /\ row.id = emitted + 1 /\ row.seq \in 1..(emitted + 1)
  /\ \A p \in Present : p.seq < row.seq
  /\ \A n \in 1..(row.seq - 1) : \E p \in Present : n <= p.seq
  /\ Pending = open[w] /\ open' = [open EXCEPT ![w] = @ \cup {row}]
  /\ log' = log /\ Pending' = Pending \cup {row} /\ Present' = Present \cup {row}
  /\ FanOut(row)
  /\ missable' = [c \in Stream |->
                    IF OwnedTooLate(c, row) THEN missable[c] \cup {row.id} ELSE missable[c]]

LEMMA EmitIsEmission ==
  ASSUME TypeOK, Numbers, NEW w \in Writer, Emit(w)
  PROVE  \E row \in Row : Emission(w, row)
<1>1. Pending = open[w] /\ \A v \in Writer \ {w} : open[v] = {}
  BY DEF Emit, Locked, Pending
<1> DEFINE seqs == Seqs(log \cup open[w])
           next == NextSequence(log \cup open[w])
<1>2. log \cup open[w] = Present
  BY <1>1 DEF Present
<1>3. \A p \in Present : p.seq \in 1..emitted
  BY DEF Numbers
<1>4. emitted \in Nat
  BY DEF TypeOK
<1>5. /\ next \in 1..(emitted + 1) /\ \A p \in Present : p.seq < next
      /\ \A n \in 1..(next - 1) : \E p \in Present : n <= p.seq
  <2>1. CASE Present = {}
    <3>1. next = 1
      BY <1>2, <2>1 DEF NextSequence
    <3> QED BY <1>4, <2>1, <3>1
  <2>2. CASE Present # {}
    <3>1. seqs \in SUBSET Nat /\ seqs # {} /\ \A n \in seqs : n <= emitted
      BY <1>2, <1>3, <1>4, <2>2 DEF Seqs
    <3>2. Max(seqs) \in seqs /\ \A n \in seqs : n <= Max(seqs)
      BY <1>4, <3>1, MaxOfBounded
    <3>3. PICK top \in Present : top.seq = Max(seqs)
      BY <1>2, <3>2 DEF Seqs
    <3>4. \A p \in Present : p.seq <= top.seq
      BY <1>2, <3>2, <3>3 DEF Seqs
    <3>5. next = top.seq + 1
      BY <1>2, <2>2, <3>3 DEF NextSequence
    <3>6. \A n \in 1..(next - 1) : n <= top.seq
      BY <1>3, <3>5
    <3>7. next \in 1..(emitted + 1) /\ \A p \in Present : p.seq < next
      BY <1>3, <1>4, <3>4, <3>5
    <3> QED BY <3>6, <3>7
  <2> QED BY <2>1, <2>2
<1>6. PICK s \in Session :
        LET row == [seq |-> next, id |-> emitted + 1, session |-> s] IN
        /\ open' = [open EXCEPT ![w] = @ \cup {row}]
        /\ FanOut(row)
        /\ missable' = [c \in Stream |->
                    IF OwnedTooLate(c, row) THEN missable[c] \cup {row.id} ELSE missable[c]]
  BY DEF Emit, Stream
<1> HIDE DEF next
<1> DEFINE row == [seq |-> next, id |-> emitted + 1, session |-> s]
<1>7. row \in Row /\ row.id = emitted + 1 /\ row.seq = next
  BY <1>4, <1>5 DEF Row
<1>8. /\ open' = [open EXCEPT ![w] = @ \cup {row}] /\ FanOut(row)
      /\ missable' = [c \in Stream |->
                    IF OwnedTooLate(c, row) THEN missable[c] \cup {row.id} ELSE missable[c]]
  BY <1>6
<1> HIDE DEF row
<1>9. Pending' = Pending \cup {row}
  <2>1. open'[w] = open[w] \cup {row} /\ \A v \in Writer \ {w} : open'[v] = open[v]
    BY <1>8 DEF TypeOK
  <2> QED BY <1>1, <2>1 DEF Pending
<1>10. log' = log /\ Present' = Present \cup {row}
  BY <1>9 DEF Emit, Present
<1>11. Emission(w, row)
  BY <1>1, <1>5, <1>7, <1>8, <1>9, <1>10 DEF Emission
<1> QED BY <1>7, <1>11

LEMMA EmitKeepsNumbers ==
  ASSUME TypeOK, Numbers, NEW w \in Writer, Emit(w)
  PROVE  Numbers'
<1>1. PICK row \in Row : Emission(w, row)
  BY EmitIsEmission
<1>2. emitted \in Nat /\ emitted' = emitted + 1
  BY DEF TypeOK, Emit
<1>3. /\ log' = log /\ Pending' = Pending \cup {row} /\ Present' = Present \cup {row}
      /\ row.id = emitted + 1 /\ row.seq \in 1..(emitted + 1)
      /\ \A p \in Present : p.seq < row.seq
  BY <1>1 DEF Emission
<1>4. open'[w] = open[w] \cup {row} /\ \A v \in Writer \ {w} : open'[v] = open[v] /\ open[v] = {}
  BY <1>1 DEF Emission, TypeOK, Emit, Locked
<1>5. (IsFiniteSet(log) /\ \A v \in Writer : IsFiniteSet(open[v]))'
  <2>1. IsFiniteSet(open[w] \cup {row})
    BY FS_AddElement DEF Numbers
  <2> QED BY <1>3, <1>4, <2>1 DEF Numbers
<1>6. (\A r \in Present : r.seq \in 1..emitted /\ r.id \in 1..emitted)'
  BY <1>2, <1>3 DEF Numbers
<1>7. (\A p, q \in Present : p.seq = q.seq => p = q)'
  BY <1>2, <1>3, PresentRows DEF Numbers
<1>8. (\A r \in Pending, p \in log : p.seq < r.seq)'
  BY <1>3 DEF Numbers, Present
<1>9. (\A v, x \in Writer : v = x \/ open[v] = {} \/ open[x] = {})'
  BY <1>4
<1>10. (\A r \in Pending : \A n \in 1..r.seq : (\E p \in log : n <= p.seq) \/ n \in Seqs(Pending))'
  <2> SUFFICES ASSUME NEW r \in Pending', NEW n \in 1..r.seq, \A p \in log : ~(n <= p.seq)
               PROVE  n \in Seqs(Pending')
    BY <1>3 DEF Seqs
  <2>1. n \in Seqs(Pending) => n \in Seqs(Pending')
    BY <1>3 DEF Seqs
  <2>2. CASE r \in Pending
    BY <2>1, <2>2 DEF Numbers
  <2>3. CASE r = row
    <3>1. CASE n = row.seq
      BY <1>3, <3>1 DEF Seqs
    <3>2. CASE n \in 1..(row.seq - 1)
      <4>1. PICK p \in Present : n <= p.seq
        BY <1>1, <3>2 DEF Emission
      <4>2. p \in Pending /\ p.seq \in Nat
        BY <4>1, PresentRows DEF Present
      <4>3. n \in 1..p.seq
        BY <3>2, <4>1, <4>2
      <4> QED BY <2>1, <4>2, <4>3 DEF Numbers
    <3> QED BY <1>2, <1>3, <2>3, <3>1, <3>2
  <2> QED BY <1>3, <2>2, <2>3
<1> QED BY <1>5, <1>6, <1>7, <1>8, <1>9, <1>10 DEF Numbers

\* A commit makes the open rows part of the log.
LEMMA CommitKeepsNumbers ==
  ASSUME TypeOK, Numbers, NEW w \in Writer, Commit(w)
  PROVE  Numbers' /\ Present' = Present /\ Pending = open[w] /\ log' = log \cup Pending
<1>1. log' = log \cup open[w] /\ open[w] # {} /\ emitted' = emitted
  BY DEF Commit
<1>2. \A v \in Writer : open'[v] = {}
  BY DEF Commit, Numbers, TypeOK
<1>3. Pending = open[w]
  BY <1>1 DEF Pending, Numbers
<1>4. Pending' = {}
  BY <1>2 DEF Pending
<1>5. Present' = Present
  BY <1>1, <1>3, <1>4 DEF Present
<1>6. IsFiniteSet(log')
  BY <1>1, FS_Union DEF Numbers
<1>7. \A v \in Writer : IsFiniteSet(open'[v])
  BY <1>2, FS_EmptySet
<1>8. Numbers'
  BY <1>1, <1>2, <1>4, <1>5, <1>6, <1>7 DEF Numbers
<1> QED BY <1>1, <1>3, <1>5, <1>8

\* A rollback and a restart drop the open rows and void their numbers.
Dropped ==
  /\ log' = log /\ emitted' = emitted
  /\ \A w \in Writer : open'[w] = {}
  /\ voided' = voided \cup Seqs(Pending)

LEMMA DroppedRows ==
  ASSUME TypeOK, Numbers, Restart \/ \E w \in Writer : Rollback(w)
  PROVE  Dropped
<1>1. CASE Restart
  BY <1>1 DEF Restart, Dropped, Pending
<1>2. ASSUME NEW w \in Writer, Rollback(w) PROVE Dropped
  <2>1. open[w] # {} /\ \A v \in Writer \ {w} : open[v] = {}
    BY <1>2 DEF Rollback, Numbers
  <2>2. Pending = open[w]
    BY <2>1 DEF Pending
  <2>3. \A v \in Writer : open'[v] = {}
    BY <1>2, <2>1 DEF Rollback, TypeOK
  <2> QED BY <1>2, <2>2, <2>3 DEF Rollback, Dropped
<1> QED BY <1>1, <1>2

LEMMA DroppedKeepsNumbers ==
  ASSUME TypeOK, Numbers, Dropped
  PROVE  /\ Numbers' /\ Present' = log
         /\ \A row \in Present : row \in Present' \/ row.seq \in voided'
         /\ \A b \in Nat : Ladder(b) => Ladder(b)'
<1>1. Pending' = {} /\ log' = log /\ emitted' = emitted
  BY DEF Dropped, Pending
<1>2. Present' = log
  BY <1>1 DEF Present
<1>3. Numbers'
  <2>1. \A w \in Writer : IsFiniteSet(open'[w])
    BY FS_EmptySet DEF Dropped
  <2> QED BY <1>1, <1>2, <2>1 DEF Numbers, Present, Dropped
<1>4. \A row \in Present : row \in Present' \/ row.seq \in voided'
  BY <1>2 DEF Dropped, Present, Seqs
<1>5. ASSUME NEW b \in Nat, Ladder(b) PROVE Ladder(b)'
  <2> SUFFICES ASSUME NEW n \in 1..b, n \notin voided' PROVE \E row \in log : n <= row.seq
    BY <1>2 DEF Ladder
  <2>1. n \notin voided /\ n \notin Seqs(Pending)
    BY DEF Dropped
  <2>2. PICK row \in Present : n <= row.seq
    BY <1>5, <2>1 DEF Ladder
  <2>3. CASE row \in Pending
    <3>1. n \in 1..row.seq
      BY <2>2, PresentRows
    <3> QED BY <2>1, <2>3, <3>1 DEF Numbers
  <2> QED BY <2>2, <2>3 DEF Present
<1> QED BY <1>2, <1>3, <1>4, <1>5

-----------------------------------------------------------------------------
(* The streams.                                                            *)

StreamOK(c) == ChainOK(Chain(c)) /\ QueueOK(c) /\ NoneSkipped(c)

Handler == [pc : {"off", "subscribed", "live"}, peer : BOOLEAN, owned : SUBSET Session,
            queue : Seq(Row), sent : Seq(Row)]

LEMMA StreamTypes ==
  ASSUME TypeOK, NEW c \in Stream
  PROVE  /\ conn[c] \in Handler /\ Chain(c) \in Seq(Row)
         /\ cursor[c] \in Nat /\ c \in Client /\ c \notin Poller
         /\ got[c] \subseteq 1..MaxEvents /\ missable[c] \subseteq 1..MaxEvents
<1>1. conn[c] \in Handler
  BY DEF TypeOK, Stream, Handler
<1>2. conn[c].sent \in Seq(Row) /\ conn[c].queue \in Seq(Row)
  BY <1>1 DEF Handler
<1>3. Chain(c) \in Seq(Row)
  BY <1>2 DEF Chain
<1>4. c \in Client /\ c \notin Poller
  BY ClientsAssumption DEF Stream, Client
<1> QED BY <1>1, <1>3, <1>4 DEF TypeOK, Stream

\* A chain stays right if numbers are only voided and rows only added.
LEMMA ChainStays ==
  ASSUME TypeOK, NEW ch \in Seq(Row), ChainOK(ch), voided \subseteq voided',
         emitted' \in Nat, emitted <= emitted', \A b \in Nat : Ladder(b) => Ladder(b)'
  PROVE  ChainOK(ch)'
<1>1. ASSUME NEW j \in DOMAIN ch PROVE ch[j].id \in 1..emitted' /\ Ladder(ch[j].seq)'
  <2>1. ch[j].seq \in Nat /\ Ladder(ch[j].seq) /\ ch[j].id \in 1..emitted
    BY <1>1, PresentRows DEF ChainOK
  <2>2. emitted \in Nat
    BY DEF TypeOK
  <2> QED BY <2>1, <2>2
<1>2. Ordered(ch)' /\ NoTriple(ch)'
  BY DEF ChainOK, Ordered, NoTriple
<1> QED BY <1>1, <1>2 DEF ChainOK

\* It becomes the chain of a stream.
LEMMA ChainFollows ==
  ASSUME NEW c, NEW ch, ChainOK(ch)', Chain(c)' = ch
  PROVE  ChainOK(Chain(c))'
BY DEF ChainOK, Ordered, NoTriple, Ladder

\* A step of somebody else: rows are committed or voided, and nothing of the
\* stream changes but that its client may leave.
Elsewhere(c) ==
  /\ conn'[c].pc = conn[c].pc /\ conn'[c].owned = conn[c].owned
  /\ conn'[c].queue = conn[c].queue /\ conn'[c].sent = conn[c].sent
  /\ conn[c].pc = "off" => conn'[c] = conn[c]
  /\ cursor'[c] = cursor[c] /\ got'[c] = got[c] /\ missable'[c] = missable[c]

Onward ==
  /\ voided \subseteq voided' /\ emitted' = emitted /\ log \subseteq log'
  /\ Present' \subseteq Present
  /\ \A row \in Present : row \in Present' \/ row.seq \in voided'
  /\ \A b \in Nat : Ladder(b) => Ladder(b)'

LEMMA OthersKeepStream ==
  ASSUME TypeOK, NEW c \in Stream, StreamOK(c), Elsewhere(c), Onward
  PROVE  StreamOK(c)'
<1>1. PICK ch \in Seq(Row) : ch = Chain(c) /\ Chain(c)' = ch
  BY StreamTypes DEF Elsewhere, Chain
<1>2. ChainOK(Chain(c))'
  <2>1. ChainOK(ch)
    BY <1>1 DEF StreamOK
  <2>2. emitted' \in Nat /\ emitted <= emitted'
    BY DEF Onward, TypeOK
  <2>3. ChainOK(ch)'
    BY <2>1, <2>2, ChainStays DEF Onward
  <2> QED BY <1>1, <2>3, ChainFollows
<1>3. \A j \in DOMAIN conn[c].queue : conn[c].queue[j] \in Row /\ conn[c].queue[j].seq \in Nat
  <2>1. conn[c].queue \in Seq(Row)
    BY StreamTypes DEF Handler
  <2> QED BY <2>1, PresentRows
<1>4. QueueOK(c)'
  BY <1>3 DEF StreamOK, QueueOK, Elsewhere, Onward, Visible, NoDouble
<1>5. NoneSkipped(c)'
  <2>1. PICK b \in Nat : b = cursor[c] /\ b = cursor'[c]
    BY StreamTypes DEF Elsewhere
  <2>2. Ladder(cursor[c])'
    <3>1. Ladder(b)
      BY <2>1 DEF StreamOK, NoneSkipped
    <3>2. Ladder(b)'
      BY <3>1 DEF Onward
    <3> QED BY <2>1, <3>2 DEF Ladder
  <2>3. \A row : Queued(c, row) => Queued(c, row)'
    BY DEF Queued, Elsewhere
  <2> QED BY <2>2, <2>3 DEF StreamOK, NoneSkipped, Elsewhere, Onward, Visible
<1> QED BY <1>2, <1>4, <1>5 DEF StreamOK

\* A stream that ends forgets its queue; what it has passed over stays.
LEMMA EndKeepsStream ==
  ASSUME TypeOK, NEW c \in Stream, StreamOK(c), conn'[c] = Off, Onward,
         cursor'[c] = cursor[c] /\ got'[c] = got[c] /\ missable'[c] = missable[c]
  PROVE  StreamOK(c)'
<1>1. Off.pc = "off" /\ Off.queue = <<>> /\ Off.sent = <<>>
  BY DEF Off
<1>2. Chain(c)' = <<>>
  BY <1>1 DEF Chain
<1>3. ChainOK(Chain(c))' /\ QueueOK(c)'
  BY <1>1, <1>2 DEF ChainOK, Ordered, NoTriple, QueueOK
<1>4. NoneSkipped(c)'
  <2>1. PICK b \in Nat : b = cursor[c] /\ b = cursor'[c]
    BY StreamTypes
  <2>2. Ladder(cursor[c])'
    <3>1. Ladder(b)
      BY <2>1 DEF StreamOK, NoneSkipped
    <3>2. Ladder(b)'
      BY <3>1 DEF Onward
    <3> QED BY <2>1, <3>2 DEF Ladder
  <2> QED BY <1>1, <2>2 DEF StreamOK, NoneSkipped, Onward
<1> QED BY <1>3, <1>4 DEF StreamOK

\* A new row lies above what a stream has seen, unless its number was voided.
LEMMA NewRowIsAbove ==
  ASSUME TypeOK, NEW w \in Writer, NEW row, Emission(w, row), NEW b \in Nat, Ladder(b),
         voided' = voided
  PROVE  Ladder(b)' /\ (b < row.seq \/ row.seq \in voided)
<1>1. Present \subseteq Present'
  BY DEF Emission
<1>2. Ladder(b)'
  BY <1>1 DEF Ladder
<1>3. ASSUME row.seq <= b, row.seq \notin voided PROVE FALSE
  <2>1. row.seq \in Nat /\ row.seq \in 1..b
    BY <1>3 DEF Emission, TypeOK
  <2>2. PICK p \in Present : row.seq <= p.seq
    BY <1>3, <2>1 DEF Ladder
  <2>3. p.seq < row.seq /\ p.seq \in Nat
    BY PresentRows DEF Emission
  <2> QED BY <2>1, <2>2, <2>3
<1>4. row.seq \in Nat
  BY PresentRows DEF Emission
<1> QED BY <1>2, <1>3, <1>4

\* So it is rightly the last of every chain.
LEMMA ChainGrows ==
  ASSUME TypeOK, NEW w \in Writer, NEW row \in Row, Emission(w, row), NEW ch \in Seq(Row),
         ChainOK(ch), voided' = voided, emitted' = emitted + 1, NEW new, new = Append(ch, row)
  PROVE  ChainOK(new)'
<1>0. PICK n \in Nat : n = Len(ch) + 1
  OBVIOUS
<1>1. \A j \in DOMAIN ch : ch[j].id \in 1..emitted /\ ch[j].seq \in Nat /\ Ladder(ch[j].seq)
  BY PresentRows DEF ChainOK
<1>2. emitted \in Nat /\ row.id = emitted + 1 /\ row.seq \in Nat /\ row \in Present'
  BY PresentRows DEF Emission, TypeOK
<1>3. /\ n \in Nat /\ DOMAIN new = 1..n /\ DOMAIN ch = 1..(n - 1)
      /\ new[n] = row /\ \A j \in 1..(n - 1) : new[j] = ch[j]
  BY <1>0
<1>4. \A b \in Nat : Ladder(b) => Ladder(b)' /\ (b < row.seq \/ row.seq \in voided)
  BY NewRowIsAbove
<1>5. ASSUME NEW j \in DOMAIN new PROVE new[j].id \in 1..emitted' /\ Ladder(new[j].seq)'
  <2>1. CASE j = n
    <3>1. Ladder(row.seq)'
      BY <1>2 DEF Ladder
    <3> QED BY <1>2, <1>3, <2>1, <3>1
  <2>2. CASE j # n
    <3>1. j \in DOMAIN ch /\ new[j] = ch[j]
      BY <1>3, <1>5, <2>2
    <3>2. Ladder(ch[j].seq)'
      BY <1>1, <1>4, <3>1
    <3> QED BY <1>1, <1>2, <3>1, <3>2
  <2> QED BY <2>1, <2>2
<1>6. Ordered(new)'
  <2> SUFFICES ASSUME NEW j \in DOMAIN new, NEW i \in 1..(j - 1)
               PROVE  \/ new[i].seq < new[j].seq \/ new[j].seq \in voided
                      \/ \E k \in 1..i : new[k] = new[j]
    BY DEF Ordered
  <2>1. i \in DOMAIN ch /\ \A k \in 1..i : k \in DOMAIN ch /\ new[k] = ch[k]
    BY <1>3
  <2>2. CASE j = n
    BY <1>1, <1>3, <1>4, <2>1, <2>2
  <2>3. CASE j # n
    <3>1. j \in DOMAIN ch /\ new[j] = ch[j]
      BY <1>3, <2>3
    <3>2. \/ ch[i].seq < ch[j].seq \/ ch[j].seq \in voided
          \/ \E k \in 1..i : ch[k] = ch[j]
      BY <3>1 DEF ChainOK, Ordered
    <3>3. i \in 1..i /\ new[i] = ch[i]
      BY <2>1
    <3> QED BY <2>1, <3>1, <3>2, <3>3
  <2> QED BY <2>2, <2>3
<1>7. NoTriple(new)
  <2> SUFFICES ASSUME NEW k \in DOMAIN new, NEW j \in 1..(k - 1), NEW i \in 1..(j - 1),
                      new[i] = new[j], new[j] = new[k]
               PROVE  FALSE
    BY DEF NoTriple
  <2>1. i \in DOMAIN ch /\ j \in DOMAIN ch /\ new[i] = ch[i] /\ new[j] = ch[j]
    BY <1>3
  <2>2. CASE k = n
    <3>1. ch[j].id = emitted + 1
      BY <1>2, <1>3, <2>1, <2>2
    <3> QED BY <1>1, <1>2, <2>1, <3>1
  <2>3. CASE k # n
    <3>1. k \in DOMAIN ch /\ new[k] = ch[k]
      BY <1>3, <2>3
    <3> QED BY <2>1, <3>1 DEF ChainOK, NoTriple
  <2> QED BY <2>2, <2>3
<1> QED BY <1>5, <1>6, <1>7 DEF ChainOK, NoTriple

\* An emission puts the new row into the queue of every stream that is shown it, or
\* marks it missable.
LEMMA EmitKeepsStream ==
  ASSUME TypeOK, Numbers, NEW w \in Writer, Emit(w), NEW c \in Stream, StreamOK(c)
  PROVE  StreamOK(c)'
<1>1. PICK row \in Row : Emission(w, row)
  BY EmitIsEmission
<1>2. /\ log' = log /\ Present' = Present \cup {row} /\ emitted' = emitted + 1
      /\ UNCHANGED <<cursor, got, voided>> /\ row.id = emitted + 1 /\ emitted \in Nat
  BY <1>1 DEF Emission, Emit, TypeOK
<1> DEFINE shown == conn[c].pc # "off" /\ Visible(c, conn[c].owned, row)
<1>3. PICK ch \in Seq(Row), q \in Seq(Row), s \in Seq(Row) :
         ch = Chain(c) /\ q = conn[c].queue /\ s = conn[c].sent /\ ch = s \o q
  BY StreamTypes DEF Handler, Chain
<1>13. conn[c] \in Handler /\ cursor[c] \in Nat /\ ChainOK(ch)
  BY <1>3, StreamTypes DEF StreamOK
<1>4. conn'[c] = IF shown THEN [conn[c] EXCEPT !.queue = Append(q, row)] ELSE conn[c]
  BY <1>1, <1>3 DEF Emission, FanOut, Stream
<1>5. missable'[c] = IF OwnedTooLate(c, row) THEN missable[c] \cup {row.id} ELSE missable[c]
  BY <1>1 DEF Emission
<1>6. \A b \in Nat : Ladder(b) => Ladder(b)' /\ (b < row.seq \/ row.seq \in voided)
  BY <1>1, <1>2, NewRowIsAbove
<1>7. \A j \in DOMAIN ch : ch[j].id \in 1..emitted
  BY <1>13 DEF ChainOK
<1>8. Ladder(cursor[c])' /\ (cursor[c] < row.seq \/ row.seq \in voided)
  <2>1. PICK b \in Nat : b = cursor[c] /\ b = cursor'[c]
    BY <1>2, <1>13
  <2>2. Ladder(b)
    BY <2>1 DEF StreamOK, NoneSkipped
  <2>3. Ladder(b)' /\ (b < row.seq \/ row.seq \in voided)
    BY <1>6, <2>2
  <2> QED BY <2>1, <2>3 DEF Ladder
<1>9. \A j \in DOMAIN q : q[j].id \in 1..emitted
  <2> SUFFICES ASSUME NEW j \in DOMAIN q PROVE q[j].id \in 1..emitted
    OBVIOUS
  <2>1. Len(s) + j \in DOMAIN (s \o q) /\ (s \o q)[Len(s) + j] = q[j]
    BY QueueInChain
  <2>2. Len(s) + j \in DOMAIN ch /\ ch[Len(s) + j] = q[j]
    BY <1>3, <2>1
  <2> QED BY <1>7, <2>2
<1>10. ASSUME NEW p \in Present, p.session \in Mine[c], p.id \notin got[c], p.id \notin missable[c]
       PROVE  \/ p.seq <= cursor[c] /\ p.seq \in voided
              \/ /\ p.seq > cursor[c]
                 /\ \/ conn[c].pc = "off"
                    \/ Queued(c, p)
                    \/ /\ conn[c].pc = "subscribed" /\ p \in log
                       /\ p.seq <= cursor[c] + MaxReplay /\ Visible(c, conn[c].owned, p)
  BY <1>10 DEF StreamOK, NoneSkipped
<1>11. CASE shown
  <2>1. /\ conn'[c].queue = Append(q, row) /\ conn'[c].sent = conn[c].sent
        /\ conn'[c].pc = conn[c].pc /\ conn'[c].owned = conn[c].owned
    BY <1>4, <1>11, <1>13 DEF Handler
  <2>2. Chain(c)' = Append(ch, row)
    <3>1. Chain(c)' = s \o Append(q, row)
      BY <1>3, <2>1 DEF Chain
    <3>2. s \o Append(q, row) = Append(s \o q, row)
      BY AppendExtendsChain
    <3> QED BY <1>3, <3>1, <3>2
  <2>3. ChainOK(Chain(c))'
    <3>1. PICK new : new = Append(ch, row)
      OBVIOUS
    <3>2. ChainOK(new)'
      BY <1>1, <1>2, <1>13, <3>1, ChainGrows
    <3> QED BY <2>2, <3>1, <3>2, ChainFollows
  <2>4. /\ DOMAIN Append(q, row) = 1..(Len(q) + 1) /\ Len(q) \in Nat /\ DOMAIN q = 1..Len(q)
        /\ Append(q, row)[Len(q) + 1] = row
        /\ \A j \in DOMAIN q : Append(q, row)[j] = q[j] /\ q[j] # row
    <3>1. \A j \in DOMAIN q : q[j] # row
      BY <1>2, <1>9
    <3> QED BY <3>1
  <2>5. QueueOK(c)'
    <3> DEFINE new == Append(q, row)
    <3>1. ASSUME NEW j \in DOMAIN new
          PROVE  /\ new[j] \in Present' \/ new[j].seq \in voided
                 /\ Visible(c, conn[c].owned, new[j])
                 /\ conn[c].pc = "subscribed" => new[j].seq > cursor[c] \/ new[j].seq \in voided
      <4>1. CASE j = Len(q) + 1
        <5>1. new[j] = row /\ row.seq \in Nat /\ cursor[c] \in Nat
          BY <1>13, <2>4, <4>1, PresentRows
        <5> QED BY <1>2, <1>8, <1>11, <5>1
      <4>2. CASE j # Len(q) + 1
        <5>1. j \in DOMAIN q /\ new[j] = q[j]
          BY <2>4, <3>1, <4>2
        <5> QED BY <1>2, <1>3, <5>1 DEF StreamOK, QueueOK
      <4> QED BY <4>1, <4>2
    <3>2. ASSUME conn[c].pc = "subscribed" PROVE conn[c].sent = <<>> /\ NoDouble(new)
      <4>1. conn[c].sent = <<>> /\ NoDouble(q)
        BY <1>3, <3>2 DEF StreamOK, QueueOK
      <4> QED BY <2>4, <4>1 DEF NoDouble
    <3> HIDE DEF new
    <3>3. \A j \in DOMAIN conn[c].sent : conn[c].sent[j].id \in got[c]
      BY DEF StreamOK, QueueOK
    <3> QED BY <1>2, <1>11, <2>1, <3>1, <3>2, <3>3 DEF QueueOK, new, Visible, NoDouble
  <2>6. NoneSkipped(c)'
    <3>1. \A p : Queued(c, p) => Queued(c, p)'
      BY <1>3, <2>1, <2>4 DEF Queued
    <3>2. Queued(c, row)'
      <4>1. Len(q) + 1 \in DOMAIN Append(q, row)
        BY <2>4
      <4> QED BY <2>1, <2>4, <4>1 DEF Queued
    <3>3. missable[c] \subseteq missable'[c]
      BY <1>5
    <3>4. row.seq \in Nat /\ cursor[c] \in Nat
      BY <1>13, PresentRows
    <3> QED BY <1>2, <1>8, <1>10, <2>1, <3>1, <3>2, <3>3, <3>4 DEF NoneSkipped, Visible
  <2> QED BY <2>3, <2>5, <2>6 DEF StreamOK
<1>12. CASE ~shown
  <2>1. conn'[c] = conn[c]
    BY <1>4, <1>12
  <2>2. Chain(c)' = ch
    BY <1>3, <2>1 DEF Chain
  <2>3. ChainOK(Chain(c))'
    <3>1. emitted' \in Nat /\ emitted <= emitted' /\ voided \subseteq voided'
      BY <1>2
    <3>2. ChainOK(ch)'
      BY <1>6, <1>13, <3>1, ChainStays
    <3> QED BY <2>2, <3>2, ChainFollows
  <2>4. QueueOK(c)'
    BY <1>2, <2>1 DEF StreamOK, QueueOK, Visible, NoDouble
  <2>5. NoneSkipped(c)'
    <3>1. \A p : Queued(c, p) => Queued(c, p)'
      BY <2>1 DEF Queued
    <3>2. row.seq \in Nat /\ cursor[c] \in Nat
      BY <1>13, PresentRows
    <3>3. row.session \in Mine[c] /\ conn[c].pc # "off" => row.id \in missable'[c]
      BY <1>5, <1>12 DEF OwnedTooLate
    <3>4. missable[c] \subseteq missable'[c]
      BY <1>5
    <3> QED BY <1>2, <1>8, <1>10, <2>1, <3>1, <3>2, <3>3, <3>4 DEF NoneSkipped, Visible
  <2> QED BY <2>3, <2>4, <2>5 DEF StreamOK
<1> QED BY <1>11, <1>12

\* Nothing moves on when the server's tables stay as they are.
LEMMA StandingStill ==
  ASSUME TypeOK, UNCHANGED <<log, open, emitted, voided>>
  PROVE  Onward /\ Present' = Present
<1>1. Present' = Present
  BY DEF Present, Pending
<1> QED BY <1>1 DEF Onward, Ladder

\* A stream that subscribes will replay what it may still miss, or it is marked.
LEMMA SubscribeKeepsStream ==
  ASSUME TypeOK, NEW c \in Stream, StreamOK(c), Subscribe(c)
  PROVE  StreamOK(c)'
<1>1. /\ UNCHANGED <<log, open, emitted, cursor, got, voided>> /\ Present' = Present
      /\ conn[c].pc = "off"
  BY StandingStill DEF Subscribe, server
<1>2. conn'[c] = [Off EXCEPT !.pc = "subscribed", !.peer = TRUE, !.owned = Owned(c)]
  BY DEF Subscribe, TypeOK, Stream
<1>3. missable'[c] = missable[c] \cup Ids(Pending)
                       \cup Ids({row \in log : row.seq > cursor[c] + MaxReplay})
  BY DEF Subscribe, TypeOK, Stream, Pending
<1>4. /\ conn'[c].pc = "subscribed" /\ conn'[c].queue = <<>> /\ conn'[c].sent = <<>>
      /\ conn'[c].owned = Owned(c)
  BY <1>2 DEF Off
<1>5. Chain(c)' = <<>>
  BY <1>4 DEF Chain
<1>6. ChainOK(Chain(c))' /\ QueueOK(c)'
  BY <1>4, <1>5 DEF ChainOK, Ordered, NoTriple, QueueOK, NoDouble
<1>7. NoneSkipped(c)'
  <2>1. Ladder(cursor[c])'
    BY <1>1 DEF StreamOK, NoneSkipped, Ladder
  <2>2. ASSUME NEW row \in Present, row.session \in Mine[c], row.id \notin got[c],
               row.id \notin missable'[c], ~(row.seq <= cursor[c])
        PROVE  row \in log /\ row.seq <= cursor[c] + MaxReplay /\ Visible(c, Owned(c), row)
    <3>1. row \in log
      BY <1>3, <2>2 DEF Present, Ids
    <3>2. row.seq \in Nat /\ cursor[c] \in Nat /\ MaxReplay \in Nat
      BY PresentRows, StreamTypes, LimitsAssumption
    <3>3. row.seq <= cursor[c] + MaxReplay
      <4>1. ASSUME row.seq > cursor[c] + MaxReplay PROVE FALSE
        BY <1>3, <2>2, <3>1, <4>1 DEF Ids
      <4> QED BY <3>2, <4>1
    <3>4. Visible(c, Owned(c), row)
      BY <2>2, <3>1 DEF Visible, Owned
    <3> QED BY <3>1, <3>3, <3>4
  <2>3. \A row \in Present : row.seq \in Nat /\ cursor[c] \in Nat
    BY PresentRows, StreamTypes
  <2> QED BY <1>1, <1>3, <1>4, <2>1, <2>2, <2>3 DEF StreamOK, NoneSkipped, Visible
<1> QED BY <1>6, <1>7 DEF StreamOK

\* A page ahead of the queue makes a chain, if what the queue repeats is in the page.
LEMMA ReplayedChain ==
  ASSUME TypeOK, NEW page \in Seq(Row), NEW q \in Seq(Row), ChainOK(q), NoDouble(q), Numbers,
         \A i \in DOMAIN page : page[i] \in log,
         \A i, j \in DOMAIN page : i < j => page[i].seq < page[j].seq,
         \A i \in DOMAIN page, j \in DOMAIN q :
           \/ page[i].seq < q[j].seq \/ q[j].seq \in voided
           \/ \E k \in 1..i : page[k] = q[j],
         NEW new, new = page \o q
  PROVE  ChainOK(new)
<1>1. PICK l \in Nat, m \in Nat : l = Len(page) /\ m = Len(q)
  OBVIOUS
<1>2. /\ DOMAIN new = 1..(l + m) /\ DOMAIN page = 1..l /\ DOMAIN q = 1..m
      /\ \A i \in 1..l : new[i] = page[i]
      /\ \A i \in 1..(l + m) : i > l => i - l \in 1..m /\ new[i] = q[i - l]
  BY <1>1
<1>3. ASSUME NEW j \in DOMAIN new PROVE new[j].id \in 1..emitted /\ Ladder(new[j].seq)
  <2>1. CASE j <= l
    <3>1. new[j] = page[j] /\ page[j] \in log
      BY <1>2, <1>3, <2>1
    <3>2. new[j] \in Present /\ new[j].seq \in Nat
      BY <3>1, PresentRows DEF Present
    <3> QED BY <3>2 DEF Numbers, Ladder
  <2>2. CASE j > l
    BY <1>2, <1>3, <2>2 DEF ChainOK
  <2> QED BY <1>1, <1>2, <1>3, <2>1, <2>2
<1>4. Ordered(new)
  <2> SUFFICES ASSUME NEW j \in DOMAIN new, NEW i \in 1..(j - 1)
               PROVE  \/ new[i].seq < new[j].seq \/ new[j].seq \in voided
                      \/ \E k \in 1..i : new[k] = new[j]
    BY DEF Ordered
  <2>1. CASE j <= l
    <3>1. i \in DOMAIN page /\ j \in DOMAIN page /\ i < j /\ new[i] = page[i] /\ new[j] = page[j]
      BY <1>2, <2>1
    <3> QED BY <3>1
  <2>2. CASE i <= l /\ j > l
    <3>1. i \in DOMAIN page /\ j - l \in DOMAIN q /\ new[i] = page[i] /\ new[j] = q[j - l]
      BY <1>2, <2>2
    <3>2. \A k \in 1..i : new[k] = page[k]
      BY <1>2, <3>1
    <3> QED BY <3>1, <3>2
  <2>3. CASE i > l
    <3>1. /\ i - l \in 1..((j - l) - 1) /\ j - l \in DOMAIN q
          /\ new[i] = q[i - l] /\ new[j] = q[j - l]
      BY <1>2, <2>3
    <3>2. \/ q[i - l].seq < q[j - l].seq \/ q[j - l].seq \in voided
          \/ \E k \in 1..(i - l) : q[k] = q[j - l]
      BY <3>1 DEF ChainOK, Ordered
    <3>3. ASSUME NEW k \in 1..(i - l), q[k] = q[j - l] PROVE \E x \in 1..i : new[x] = new[j]
      <4>1. k + l \in 1..i /\ k + l \in 1..(l + m) /\ k + l > l /\ (k + l) - l = k
        BY <1>1, <1>2, <2>3, <3>1, <3>3
      <4>2. new[k + l] = q[k]
        BY <1>2, <4>1
      <4> QED BY <3>1, <3>3, <4>1, <4>2
    <3> QED BY <3>1, <3>2, <3>3
  <2> QED BY <1>1, <1>2, <2>1, <2>2, <2>3
<1>5. NoTriple(new)
  <2> SUFFICES ASSUME NEW k \in DOMAIN new, NEW j \in 1..(k - 1), NEW i \in 1..(j - 1),
                      new[i] = new[j], new[j] = new[k]
               PROVE  FALSE
    BY DEF NoTriple
  <2>1. CASE j <= l
    <3>1. i \in DOMAIN page /\ j \in DOMAIN page /\ i < j /\ new[i] = page[i] /\ new[j] = page[j]
      BY <1>2, <2>1
    <3>2. page[i].seq < page[j].seq /\ page[j].seq \in Nat
      BY <3>1, PresentRows
    <3> QED BY <3>1, <3>2
  <2>2. CASE j > l
    <3>1. k \in 1..(l + m) /\ j \in 1..(l + m) /\ k > l /\ j < k
      BY <1>1, <1>2, <2>2
    <3>2. /\ k - l \in DOMAIN q /\ new[j] = q[j - l] /\ new[k] = q[k - l]
          /\ j - l \in 1..((k - l) - 1)
      BY <1>1, <1>2, <2>2, <3>1
    <3> QED BY <3>2 DEF NoDouble
  <2> QED BY <1>1, <1>2, <2>1, <2>2
<1> QED BY <1>3, <1>4, <1>5 DEF ChainOK

\* The rows that a stream is replayed.
Replayed(c) == {row \in ReplayAfter(cursor[c], MaxReplay) : Visible(c, conn[c].owned, row)}

LEMMA SortedPage ==
  ASSUME TypeOK, Numbers, NEW c \in Stream, NEW page \in Sorted(Replayed(c))
  PROVE  /\ page \in Seq(Row)
         /\ \A i \in DOMAIN page : page[i] \in Replayed(c)
         /\ \A row \in Replayed(c) : \E i \in DOMAIN page : page[i] = row
         /\ \A i, j \in DOMAIN page : i < j => page[i].seq < page[j].seq
<1>1. Replayed(c) \subseteq log /\ log \subseteq Row /\ IsFiniteSet(log)
  BY DEF Replayed, ReplayAfter, TypeOK, Numbers
<1>2. IsFiniteSet(Replayed(c))
  BY <1>1, FS_Subset
<1>3. PICK n \in Nat : n = Cardinality(Replayed(c))
  BY <1>2, FS_CardinalityType
<1>4. page \in [1..n -> Replayed(c)]
  BY <1>3 DEF Sorted
<1>5. page \in Seq(Row)
  BY <1>1, <1>4
<1> QED BY <1>4, <1>5 DEF Sorted

\* What the replay passes over, the queue may not bring with a good number.
LEMMA PageGoesAhead ==
  ASSUME TypeOK, Numbers, NEW c \in Stream, QueueOK(c), conn[c].pc = "subscribed",
         NEW page \in Sorted(Replayed(c)), NEW i \in DOMAIN page, NEW j \in DOMAIN conn[c].queue
  PROVE  \/ page[i].seq < conn[c].queue[j].seq \/ conn[c].queue[j].seq \in voided
         \/ \E k \in 1..i : page[k] = conn[c].queue[j]
<1>1. PICK q \in Row : q = conn[c].queue[j]
  BY StreamTypes DEF Handler
<1>2. PICK p \in Row : p = page[i] /\ p \in Replayed(c) /\ p \in log
  BY SortedPage, PresentRows DEF Replayed, ReplayAfter, Present
<1>3. p.seq \in Nat /\ q.seq \in Nat /\ cursor[c] \in Nat /\ MaxReplay \in Nat
  BY PresentRows, StreamTypes, LimitsAssumption
<1> SUFFICES ASSUME q.seq <= p.seq, q.seq \notin voided
             PROVE  \E k \in 1..i : page[k] = q
  BY <1>1, <1>2, <1>3
<1>4. q \in log
  <2>1. q \in Present
    BY <1>1 DEF QueueOK
  <2>2. CASE q \in Pending
    <3>1. p.seq < q.seq
      BY <1>2, <2>2 DEF Numbers
    <3> QED BY <1>3, <3>1
  <2> QED BY <2>1, <2>2 DEF Present
<1>5. cursor[c] < q.seq
  BY <1>1, <1>3 DEF QueueOK
<1>6. q \in ReplayAfter(cursor[c], MaxReplay)
  <2>1. p \in ReplayAfter(cursor[c], MaxReplay)
    BY <1>2 DEF Replayed
  <2> QED BY <1>3, <1>4, <1>5, <2>1, PageHasNoGap DEF TypeOK, Numbers
<1>7. q \in Replayed(c)
  BY <1>1, <1>6 DEF Replayed, QueueOK
<1>8. PICK k \in DOMAIN page : page[k] = q
  BY <1>7, SortedPage
<1>9. k \in 1..Len(page) /\ i \in 1..Len(page)
  BY SortedPage
<1>10. ~(i < k)
  BY <1>2, <1>3, <1>8, SortedPage
<1> QED BY <1>8, <1>9, <1>10

\* After the replay all that is left to see is in the queue.
LEMMA ReplayKeepsStream ==
  ASSUME TypeOK, Numbers, NEW c \in Stream, StreamOK(c), Replay(c)
  PROVE  StreamOK(c)'
<1>1. /\ UNCHANGED <<log, open, emitted, cursor, got, missable, voided>> /\ Present' = Present
      /\ conn[c].pc = "subscribed"
  BY StandingStill DEF Replay, server, history
<1>2. PICK page \in Sorted(Replayed(c)) :
         conn' = [conn EXCEPT ![c].pc = "live", ![c].queue = page \o conn[c].queue]
  BY DEF Replay, Replayed, Ahead
<1>3. PICK q \in Seq(Row) : q = conn[c].queue /\ conn[c] \in Handler
  BY StreamTypes DEF Handler
<1>4. page \in Seq(Row) /\ \A i \in DOMAIN page : page[i] \in Replayed(c) /\ page[i] \in log
  BY SortedPage DEF Replayed, ReplayAfter
<1>5. PICK new \in Seq(Row) : new = page \o q
  <2>1. page \o q \in Seq(Row)
    BY <1>4
  <2> QED BY <2>1
<1>6. conn'[c] = [conn[c] EXCEPT !.pc = "live", !.queue = new]
  BY <1>2, <1>3, <1>5 DEF TypeOK, Stream
<1>7. /\ conn'[c].pc = "live" /\ conn'[c].queue = new /\ conn'[c].sent = <<>>
      /\ conn'[c].owned = conn[c].owned
  BY <1>1, <1>3, <1>6 DEF Handler, StreamOK, QueueOK
<1>8. Chain(c)' = new /\ Chain(c) = q
  <2>1. \A s \in Seq(Row) : <<>> \o s = s
    OBVIOUS
  <2>2. Chain(c)' = <<>> \o new /\ Chain(c) = <<>> \o q
    BY <1>1, <1>3, <1>7 DEF Chain, StreamOK, QueueOK
  <2> QED BY <2>1, <2>2
<1>9. ChainOK(Chain(c))'
  <2>1. ChainOK(q) /\ NoDouble(q)
    BY <1>1, <1>3, <1>8 DEF StreamOK, QueueOK
  <2>2. \A i \in DOMAIN page, j \in DOMAIN q :
           \/ page[i].seq < q[j].seq \/ q[j].seq \in voided
           \/ \E k \in 1..i : page[k] = q[j]
    BY <1>1, <1>3, PageGoesAhead DEF StreamOK
  <2>3. \A i, j \in DOMAIN page : i < j => page[i].seq < page[j].seq
    BY SortedPage
  <2>4. ChainOK(new)
    BY <1>4, <1>5, <2>1, <2>2, <2>3, ReplayedChain
  <2>5. emitted' \in Nat /\ emitted <= emitted'
    BY <1>1 DEF TypeOK
  <2>6. ChainOK(new)'
    BY <1>1, <2>4, <2>5, ChainStays, StandingStill DEF Onward
  <2> QED BY <1>8, <2>6, ChainFollows
<1>10. /\ DOMAIN new = 1..(Len(page) + Len(q)) /\ Len(page) \in Nat /\ Len(q) \in Nat
       /\ DOMAIN page = 1..Len(page) /\ DOMAIN q = 1..Len(q)
       /\ \A j \in DOMAIN page : new[j] = page[j]
       /\ \A j \in DOMAIN q : new[Len(page) + j] = q[j]
       /\ \A j \in DOMAIN new : j > Len(page) => j - Len(page) \in DOMAIN q /\ new[j] = q[j - Len(page)]
  BY <1>4, <1>5
<1>11. QueueOK(c)'
  <2>1. ASSUME NEW j \in DOMAIN new
        PROVE  (new[j] \in Present \/ new[j].seq \in voided) /\ Visible(c, conn[c].owned, new[j])
    <3>1. CASE j \in DOMAIN page
      BY <1>4, <1>10, <3>1 DEF Replayed, Present
    <3>2. CASE j \notin DOMAIN page
      <4>1. j - Len(page) \in DOMAIN q /\ new[j] = q[j - Len(page)]
        BY <1>10, <2>1, <3>2
      <4> QED BY <1>3, <4>1 DEF StreamOK, QueueOK
    <3> QED BY <3>1, <3>2
  <2> QED BY <1>1, <1>7, <2>1 DEF QueueOK, Visible
<1>12. NoneSkipped(c)'
  <2>1. Ladder(cursor[c])'
    BY <1>1 DEF StreamOK, NoneSkipped, Ladder
  <2>2. ASSUME NEW row, Queued(c, row) PROVE Queued(c, row)'
    <3>1. PICK j \in DOMAIN q : q[j] = row
      BY <1>3, <2>2 DEF Queued
    <3>2. Len(page) + j \in DOMAIN new /\ new[Len(page) + j] = row
      BY <1>10, <3>1
    <3> QED BY <1>7, <3>2 DEF Queued
  <2>3. ASSUME NEW row \in log, row.seq > cursor[c], row.seq <= cursor[c] + MaxReplay,
               Visible(c, conn[c].owned, row)
        PROVE  Queued(c, row)'
    <3>1. row.seq \in Nat /\ cursor[c] \in Nat /\ MaxReplay \in Nat
      BY PresentRows, StreamTypes, LimitsAssumption DEF Present
    <3>2. \A p, r \in log : p.seq = r.seq => p = r
      BY DEF Numbers, Present
    <3>3. row \in ReplayAfter(cursor[c], MaxReplay)
      BY <2>3, <3>1, <3>2, PageHoldsNumbers DEF TypeOK, Numbers
    <3>4. PICK j \in DOMAIN page : page[j] = row
      BY <2>3, <3>3, SortedPage DEF Replayed
    <3>5. j \in DOMAIN new /\ new[j] = row
      BY <1>10, <3>4
    <3> QED BY <1>7, <3>5 DEF Queued
  <2> QED BY <1>1, <1>7, <2>1, <2>2, <2>3 DEF StreamOK, NoneSkipped
<1> QED BY <1>9, <1>11, <1>12 DEF StreamOK

\* Nothing unseen with a good number is passed over by what is sent.
LEMMA SendKeepsStream ==
  ASSUME TypeOK, Numbers, NEW c \in Stream, StreamOK(c), NEW ends \in BOOLEAN,
         Send(c, ends)
  PROVE  StreamOK(c)'
<1>1. /\ UNCHANGED <<log, open, emitted, missable, voided>> /\ Present' = Present
      /\ conn[c].pc = "live" /\ conn[c].queue # <<>>
  BY StandingStill DEF Send, server
<1>2. PICK q \in Seq(Row), s \in Seq(Row) : q = conn[c].queue /\ s = conn[c].sent /\ q # <<>>
  BY <1>1, StreamTypes DEF Handler
<1>3. PICK head \in Row, tail \in Seq(Row), l \in Nat, new \in Seq(Row) :
        /\ head = Head(q) /\ tail = Tail(q) /\ l = Len(s) /\ new = Append(s, head)
  <2>1. Head(q) \in Row /\ Tail(q) \in Seq(Row) /\ Len(s) \in Nat
    BY <1>2
  <2>2. Append(s, Head(q)) \in Seq(Row)
    BY <2>1
  <2> QED BY <2>1, <2>2
<1>4. PICK ch \in Seq(Row) : ch = Chain(c) /\ ch = s \o q /\ ChainOK(ch)
  BY <1>2, StreamTypes DEF Chain, StreamOK
<1>5. PICK n \in Nat :
        /\ n = Len(q) /\ DOMAIN q = 1..n /\ n >= 1 /\ q[1] = head
        /\ DOMAIN tail = 1..(n - 1) /\ \A j \in 1..(n - 1) : tail[j] = q[j + 1]
        /\ DOMAIN s = 1..l /\ \A j \in 1..l : ch[j] = s[j]
        /\ DOMAIN ch = 1..(l + n) /\ \A j \in 1..n : ch[l + j] = q[j]
        /\ \A j \in DOMAIN new : new[j] = head \/ (j \in 1..l /\ new[j] = s[j])
  <2>1. /\ DOMAIN q = 1..Len(q) /\ Len(q) \in Nat /\ Len(q) >= 1 /\ q[1] = head
        /\ DOMAIN tail = 1..(Len(q) - 1) /\ \A j \in 1..(Len(q) - 1) : tail[j] = q[j + 1]
    BY <1>2, <1>3
  <2>2. /\ DOMAIN s = 1..l /\ \A j \in 1..l : ch[j] = s[j]
        /\ DOMAIN ch = 1..(l + Len(q)) /\ \A j \in 1..Len(q) : ch[l + j] = q[j]
    BY <1>3, <1>4
  <2>3. \A j \in DOMAIN new : new[j] = head \/ (j \in 1..l /\ new[j] = s[j])
    BY <1>3
  <2> QED BY <2>1, <2>2, <2>3
<1>6. conn \in [Stream -> Handler]
  BY DEF TypeOK, Stream, Handler
<1>7. cursor[c] \in Nat /\ head.seq \in Nat /\ conn[c] \in Handler
  BY PresentRows, StreamTypes
<1>8. cursor'[c] = Max({cursor[c], head.seq}) /\ got'[c] = got[c] \cup {head.id}
  BY <1>2, <1>3, StreamTypes DEF Send, TypeOK
<1>9. /\ cursor'[c] \in {cursor[c], head.seq} /\ cursor'[c] \in Nat
      /\ cursor[c] <= cursor'[c] /\ head.seq <= cursor'[c]
  BY <1>7, <1>8, MaxOfTwo
<1>10. ASSUME ~ends
       PROVE  /\ conn'[c].pc = "live" /\ conn'[c].queue = tail /\ conn'[c].sent = new
              /\ conn'[c].owned = conn[c].owned
  <2>1. conn'[c] = Shift(conn[c])
    BY <1>6, <1>10 DEF Send
  <2> QED BY <1>1, <1>2, <1>3, <1>7, <2>1 DEF Handler, Shift
<1>11. ASSUME ends
       PROVE  conn'[c] = Off /\ conn'[c].pc = "off" /\ conn'[c].queue = <<>> /\ conn'[c].sent = <<>>
  <2>1. conn'[c] = Off
    BY <1>6, <1>11 DEF Send
  <2> QED BY <2>1 DEF Off
<1>12. ChainOK(Chain(c))'
  <2>1. CASE ends
    <3>1. Chain(c)' = <<>>
      BY <1>11, <2>1 DEF Chain
    <3> QED BY <3>1 DEF ChainOK, Ordered, NoTriple
  <2>2. CASE ~ends
    <3>1. Append(s, Head(q)) \o Tail(q) = s \o q
      BY <1>2, SendKeepsChain
    <3>2. Chain(c)' = ch
      BY <1>3, <1>4, <1>10, <2>2, <3>1 DEF Chain
    <3>3. emitted' \in Nat /\ emitted <= emitted'
      BY <1>1 DEF TypeOK
    <3>4. ChainOK(ch)'
      BY <1>1, <1>4, <3>3, ChainStays, StandingStill DEF Onward
    <3> QED BY <3>2, <3>4, ChainFollows
  <2> QED BY <2>1, <2>2
<1>13. \A j \in DOMAIN s : s[j].id \in got[c]
  BY <1>2 DEF StreamOK, QueueOK
<1>14. QueueOK(c)'
  <2>1. CASE ends
    BY <1>11, <2>1 DEF QueueOK
  <2>2. CASE ~ends
    <3>1. ASSUME NEW j \in DOMAIN tail
          PROVE  (tail[j] \in Present \/ tail[j].seq \in voided) /\ Visible(c, conn[c].owned, tail[j])
      <4>1. j + 1 \in DOMAIN q /\ tail[j] = q[j + 1]
        BY <1>5, <3>1
      <4> QED BY <1>2, <4>1 DEF StreamOK, QueueOK
    <3>2. \A j \in DOMAIN new : new[j].id \in got'[c]
      BY <1>5, <1>8, <1>13
    <3> QED BY <1>1, <1>10, <2>2, <3>1, <3>2 DEF QueueOK, Visible
  <2> QED BY <2>1, <2>2
<1>15. NoneSkipped(c)'
  <2>1. Ladder(cursor[c])'
    <3>1. Ladder(head.seq)
      <4>1. 1 \in 1..n /\ l + 1 \in 1..(l + n)
        BY <1>5
      <4>2. l + 1 \in DOMAIN ch /\ ch[l + 1] = head
        BY <1>5, <4>1
      <4> QED BY <1>4, <4>2 DEF ChainOK
    <3>2. Ladder(cursor[c])
      BY DEF StreamOK, NoneSkipped
    <3> QED BY <1>1, <1>9, <3>1, <3>2 DEF Ladder
  <2>2. ASSUME NEW row \in Present, row.session \in Mine[c], row.id \notin got'[c],
               row.id \notin missable[c], row.seq > cursor[c]
        PROVE  \/ row.seq <= cursor'[c] /\ row.seq \in voided
               \/ row.seq > cursor'[c] /\ (ends \/ \E j \in DOMAIN tail : tail[j] = row)
    <3>1. row.id \notin got[c] /\ row # head /\ row.seq \in Nat
      BY <1>8, <2>2, PresentRows
    <3>2. ~(row.seq <= cursor[c])
      BY <1>7, <2>2, <3>1
    <3>3. PICK j \in DOMAIN q : q[j] = row
      BY <1>1, <1>2, <2>2, <3>1, <3>2 DEF StreamOK, NoneSkipped, Queued
    <3>4. j \in 1..n /\ j # 1 /\ j - 1 \in DOMAIN tail /\ tail[j - 1] = row
      <4>1. j \in 1..n /\ j # 1
        BY <1>5, <3>1, <3>3
      <4>2. j - 1 \in 1..(n - 1) /\ (j - 1) + 1 = j
        BY <4>1
      <4> QED BY <1>5, <3>3, <4>1, <4>2
    <3>5. CASE row.seq <= cursor'[c]
      <4>1. row.seq <= head.seq
        BY <1>7, <1>9, <3>1, <3>2, <3>5
      <4>2. /\ l + j \in DOMAIN ch /\ ch[l + j] = row /\ l + 1 \in 1..((l + j) - 1)
            /\ ch[l + 1] = head
        <5>1. l + j \in 1..(l + n) /\ l + 1 \in 1..((l + j) - 1) /\ 1 \in 1..n
          BY <1>5, <3>4
        <5> QED BY <1>5, <3>3, <3>4, <5>1
      <4>3. \/ head.seq < row.seq \/ row.seq \in voided
            \/ \E k \in 1..(l + 1) : ch[k] = row
        BY <1>4, <4>2 DEF ChainOK, Ordered
      <4>4. ~(head.seq < row.seq)
        BY <1>7, <3>1, <4>1
      <4>5. ASSUME NEW k \in 1..(l + 1), ch[k] = row PROVE FALSE
        <5>1. CASE k = l + 1
          BY <3>1, <4>2, <4>5, <5>1
        <5>2. CASE k # l + 1
          <6>1. k \in 1..l
            BY <4>5, <5>2
          <6>2. k \in DOMAIN s /\ s[k] = row
            BY <1>5, <4>5, <6>1
          <6> QED BY <1>13, <3>1, <6>2
        <5> QED BY <5>1, <5>2
      <4> QED BY <3>5, <4>3, <4>4, <4>5
    <3>6. CASE row.seq > cursor'[c]
      BY <3>4, <3>6
    <3> QED BY <1>9, <3>1, <3>5, <3>6
  <2>3. ASSUME NEW row \in Present, row.session \in Mine[c], row.id \notin got'[c],
               row.id \notin missable[c], ~(row.seq > cursor[c])
        PROVE  row.seq <= cursor'[c] /\ row.seq \in voided
    <3>1. row.seq \in Nat /\ row.id \notin got[c]
      BY <1>8, <2>3, PresentRows
    <3>2. row.seq <= cursor[c] /\ row.seq \in voided
      BY <2>3, <3>1 DEF StreamOK, NoneSkipped
    <3> QED BY <1>7, <1>9, <3>1, <3>2
  <2>4. ASSUME NEW row \in Present, row.session \in Mine[c], row.id \notin got'[c],
               row.id \notin missable[c]
        PROVE  \/ row.seq <= cursor'[c] /\ row.seq \in voided
               \/ /\ row.seq > cursor'[c]
                  /\ conn'[c].pc = "off" \/ Queued(c, row)'
    <3>1. (\E j \in DOMAIN tail : tail[j] = row) /\ ~ends => Queued(c, row)'
      BY <1>10 DEF Queued
    <3>2. ends => conn'[c].pc = "off"
      BY <1>11
    <3>3. CASE row.seq > cursor[c]
      BY <2>2, <2>4, <3>1, <3>2, <3>3
    <3>4. CASE ~(row.seq > cursor[c])
      BY <2>3, <2>4, <3>4
    <3> QED BY <3>3, <3>4
  <2> QED BY <1>1, <2>1, <2>4 DEF NoneSkipped
<1> QED BY <1>12, <1>14, <1>15 DEF StreamOK

-----------------------------------------------------------------------------
(* The pollers.                                                            *)

\* A page that is polled has all rows of the client up to its last.
LEMMA PollKeepsPoller ==
  ASSUME TypeOK, Numbers, NEW c \in Poller, PollerOK(c), Poll(c)
  PROVE  PollerOK(c)' /\ got'[c] \subseteq got[c] \cup 1..emitted /\ cursor'[c] \in Nat
<1> DEFINE rows == {row \in ReplayAfter(cursor[c], PageLimit) : Visible(c, Owned(c), row)}
<1>1. c \in Client /\ cursor[c] \in Nat /\ PageLimit \in Nat /\ emitted \in Nat
  BY LimitsAssumption DEF Client, TypeOK
<1>2. rows \subseteq log /\ rows # {}
  BY DEF Poll, ReplayAfter
<1>3. \A row \in log : row.seq \in 1..emitted /\ row.id \in 1..emitted
  BY DEF Numbers, Present
<1>4. Seqs(rows) \in SUBSET Nat /\ Seqs(rows) # {} /\ \A n \in Seqs(rows) : n <= emitted
  BY <1>1, <1>2, <1>3 DEF Seqs
<1>5. Max(Seqs(rows)) \in Seqs(rows)
  BY <1>1, <1>4, MaxOfBounded
<1>6. cursor'[c] = Max(Seqs(rows)) /\ got'[c] = got[c] \cup Ids(rows) /\ log' = log
  BY <1>1 DEF Poll, TypeOK, server
<1> HIDE DEF rows
<1>7. PICK top \in rows : top.seq = cursor'[c]
  BY <1>5, <1>6 DEF Seqs
<1>8. top \in log /\ top.seq \in Nat
  BY <1>2, <1>3, <1>7
<1>9. ASSUME NEW row \in log, row.session \in Mine[c], row.seq <= cursor'[c] PROVE row.id \in got'[c]
  <2>1. CASE row.seq <= cursor[c]
    BY <1>6, <1>9, <2>1 DEF PollerOK
  <2>2. CASE cursor[c] < row.seq
    <3>1. top \in ReplayAfter(cursor[c], PageLimit)
      BY DEF rows
    <3>2. row \in ReplayAfter(cursor[c], PageLimit)
      BY <1>1, <1>7, <1>9, <2>2, <3>1, PageHasNoGap DEF TypeOK, Numbers
    <3>3. row \in rows
      BY <1>9, <3>2 DEF rows, Visible, Owned
    <3> QED BY <1>6, <3>3 DEF Ids
  <2> QED BY <1>1, <1>3, <1>9, <2>1, <2>2
<1>10. PollerOK(c)'
  BY <1>6, <1>7, <1>8, <1>9 DEF PollerOK
<1>11. Ids(rows) \subseteq 1..emitted
  BY <1>2, <1>3 DEF Ids
<1> QED BY <1>6, <1>7, <1>8, <1>10, <1>11

\* Rows are committed above what any poller has passed.
LEMMA CommitKeepsPoller ==
  ASSUME TypeOK, Numbers, NEW c \in Poller, PollerOK(c), NEW w \in Writer, Commit(w)
  PROVE  PollerOK(c)'
<1>1. log' = log \cup Pending /\ UNCHANGED <<cursor, got>>
  BY CommitKeepsNumbers DEF Commit, history
<1>2. cursor[c] \in Nat
  BY DEF TypeOK, Client
<1>3. ASSUME NEW row \in Pending PROVE ~(row.seq <= cursor[c])
  <2>1. row.seq \in 1..emitted /\ row.seq \in Nat
    BY PresentRows DEF Numbers, Present
  <2>2. CASE cursor[c] = 0
    BY <2>1, <2>2
  <2>3. ASSUME NEW p \in log, cursor[c] <= p.seq PROVE ~(row.seq <= cursor[c])
    <3>1. p.seq < row.seq /\ p.seq \in Nat
      BY PresentRows DEF Numbers, Present
    <3> QED BY <1>2, <2>1, <2>3, <3>1
  <2> QED BY <2>2, <2>3 DEF PollerOK
<1> QED BY <1>1, <1>3 DEF PollerOK

-----------------------------------------------------------------------------
(* Types.                                                                  *)

RestOK ==
  /\ log \subseteq Row /\ open \in [Writer -> SUBSET Row] /\ emitted \in 0..MaxEvents
  /\ cursor \in [Client -> Nat] /\ connects \in 0..MaxConnects
  /\ faults \in 0..MaxFaults
  /\ got \in [Client -> SUBSET (1..MaxEvents)] /\ missable \in [Stream -> SUBSET (1..MaxEvents)]
  /\ voided \subseteq Nat

ConnOK == conn \in [Stream -> Handler]

LEMMA TypeParts == TypeOK <=> RestOK /\ ConnOK
BY DEF TypeOK, RestOK, ConnOK, Stream, Handler

LEMMA QueuedIds ==
  ASSUME TypeOK, NEW c \in Stream, StreamOK(c), NEW j \in DOMAIN conn[c].queue
  PROVE  conn[c].queue[j].id \in 1..emitted
<1>1. PICK s \in Seq(Row), q \in Seq(Row) : s = conn[c].sent /\ q = conn[c].queue
  BY StreamTypes DEF Handler
<1>2. Len(s) + j \in DOMAIN (s \o q) /\ (s \o q)[Len(s) + j] = q[j]
  BY <1>1, QueueInChain
<1>3. Chain(c) = s \o q
  BY <1>1 DEF Chain
<1> QED BY <1>1, <1>2, <1>3 DEF StreamOK, ChainOK

\* Emissions, commits and what drops open rows keep the types.
LEMMA ServerTypes ==
  ASSUME TypeOK, Numbers,
         (\E w \in Writer : Emit(w) \/ Commit(w) \/ Rollback(w)) \/ Restart
  PROVE  TypeOK'
<1> SUFFICES RestOK' /\ ConnOK'
  BY TypeParts, PTL
<1>1. RestOK /\ ConnOK
  BY TypeParts
<1>2. Off \in Handler
  BY DEF Off, Handler
<1>3. \A row \in Present : row.seq \in 1..emitted /\ row.id \in 1..emitted
  BY DEF Numbers
<1>4. Seqs(Pending) \subseteq Nat
  BY PresentRows DEF Seqs
<1>5. ASSUME NEW w \in Writer, Emit(w) PROVE RestOK' /\ ConnOK'
  <2>1. PICK row \in Row : Emission(w, row)
    BY <1>5, EmitIsEmission
  <2>2. emitted' \in 0..MaxEvents /\ row.id \in 1..MaxEvents
    BY <1>5, <2>1, LimitsAssumption DEF Emit, Emission, TypeOK
  <2>3. open' \in [Writer -> SUBSET Row]
    BY <1>1, <2>1 DEF Emission, RestOK
  <2>4. missable' \in [Stream -> SUBSET (1..MaxEvents)]
    BY <1>1, <2>1, <2>2 DEF Emission, RestOK
  <2>5. ConnOK'
    <3>1. ASSUME NEW c \in Stream PROVE [conn[c] EXCEPT !.queue = Append(@, row)] \in Handler
      <4>1. conn[c] \in Handler /\ conn[c].queue \in Seq(Row)
        BY StreamTypes DEF Handler
      <4>2. Append(conn[c].queue, row) \in Seq(Row)
        BY <4>1
      <4> QED BY <4>1, <4>2 DEF Handler
    <3>2. \A c \in Stream : conn[c] \in Handler
      BY StreamTypes
    <3>3. conn' = [c \in Stream |-> IF conn[c].pc # "off" /\ Visible(c, conn[c].owned, row)
                                    THEN [conn[c] EXCEPT !.queue = Append(@, row)] ELSE conn[c]]
      BY <2>1 DEF Emission, FanOut, Stream
    <3> QED BY <3>1, <3>2, <3>3 DEF ConnOK
  <2> QED BY <1>1, <1>5, <2>2, <2>3, <2>4, <2>5 DEF Emit, RestOK
<1>6. ASSUME NEW w \in Writer, Commit(w) PROVE RestOK' /\ ConnOK'
  BY <1>1, <1>6 DEF Commit, RestOK, ConnOK, history
<1>7. ASSUME NEW w \in Writer, Rollback(w) PROVE RestOK' /\ ConnOK'
  <2>1. voided' \subseteq Nat
    BY <1>1, <1>4, <1>7, DroppedRows DEF Dropped, RestOK
  <2> QED BY <1>1, <1>7, <2>1, LimitsAssumption DEF Rollback, RestOK, ConnOK
<1>8. CASE Restart
  <2>1. voided' \subseteq Nat
    BY <1>1, <1>4, <1>8, DroppedRows DEF Dropped, RestOK
  <2>2. ConnOK'
    <3>1. conn' = [c \in Stream |-> Off]
      BY <1>8 DEF Restart, Stream
    <3> QED BY <1>2, <3>1 DEF ConnOK
  <2>3. faults' \in 0..MaxFaults /\ open' \in [Writer -> SUBSET Row]
    BY <1>1, <1>8, LimitsAssumption DEF Restart, RestOK
  <2>4. UNCHANGED <<log, emitted, cursor, connects, got, missable>>
    BY <1>8 DEF Restart
  <2> QED BY <1>1, <2>1, <2>2, <2>3, <2>4 DEF RestOK
<1> QED BY <1>5, <1>6, <1>7, <1>8

\* So do the streams.
LEMMA StreamStepTypes ==
  ASSUME TypeOK, Numbers, NEW c \in Stream, StreamOK(c),
         \/ Subscribe(c) \/ Replay(c) \/ ReplayFails(c) \/ Leave(c) \/ Unsubscribe(c)
         \/ \E ends \in BOOLEAN : Send(c, ends)
  PROVE  TypeOK'
<1> SUFFICES RestOK' /\ ConnOK'
  BY TypeParts, PTL
<1>1. RestOK /\ ConnOK
  BY TypeParts
<1>2. Off \in Handler /\ conn[c] \in Handler
  BY StreamTypes DEF Off, Handler
<1>3. \A row \in Present : row.id \in 1..MaxEvents
  BY LimitsAssumption DEF Numbers, TypeOK
<1>4. ASSUME NEW h \in Handler, conn' = [conn EXCEPT ![c] = h] PROVE ConnOK'
  BY <1>1, <1>4 DEF ConnOK
<1>5. CASE Subscribe(c)
  <2>1. [Off EXCEPT !.pc = "subscribed", !.peer = TRUE, !.owned = Owned(c)] \in Handler
    <3>1. Owned(c) \subseteq Session
      <4>1. \A row \in log : row.session \in Session
        BY DEF TypeOK, Row
      <4> QED BY <4>1 DEF Owned
    <3> QED BY <1>2, <3>1 DEF Handler
  <2>2. ConnOK'
    BY <1>4, <1>5, <2>1 DEF Subscribe
  <2>3. Ids(UNION {open[w] : w \in Writer}) \subseteq 1..MaxEvents
    BY <1>3 DEF Ids, Present, Pending
  <2>4. Ids({row \in log : row.seq > cursor[c] + MaxReplay}) \subseteq 1..MaxEvents
    BY <1>3 DEF Ids, Present
  <2>5. missable' \in [Stream -> SUBSET (1..MaxEvents)]
    BY <1>1, <1>5, <2>3, <2>4 DEF Subscribe, RestOK
  <2>6. connects' \in 0..MaxConnects
    <3>1. connects' = connects + 1 /\ connects < MaxConnects /\ connects \in 0..MaxConnects
      BY <1>1, <1>5 DEF Subscribe, RestOK
    <3>2. MaxConnects \in Nat
      BY LimitsAssumption
    <3> QED BY <3>1, <3>2
  <2>7. UNCHANGED <<server, cursor, faults, got, voided>>
    BY <1>5 DEF Subscribe
  <2> QED BY <1>1, <2>2, <2>5, <2>6, <2>7 DEF RestOK, server
<1>6. CASE Replay(c)
  <2>1. PICK page \in Sorted(Replayed(c)) :
           conn' = [conn EXCEPT ![c].pc = "live", ![c].queue = page \o conn[c].queue]
    BY <1>6 DEF Replay, Replayed, Ahead
  <2>2. page \o conn[c].queue \in Seq(Row)
    BY <1>2, SortedPage DEF Handler
  <2> DEFINE h == [conn[c] EXCEPT !.pc = "live", !.queue = page \o conn[c].queue]
  <2>3. h \in Handler
    BY <1>2, <2>2 DEF Handler
  <2>4. conn' = [conn EXCEPT ![c] = h]
    BY <2>1
  <2> HIDE DEF h
  <2>5. ConnOK'
    BY <1>4, <2>3, <2>4
  <2> QED BY <1>1, <1>6, <2>5 DEF Replay, RestOK, server, history
<1>7. CASE ReplayFails(c) \/ Unsubscribe(c)
  <2>1. ConnOK'
    BY <1>2, <1>4, <1>7 DEF ReplayFails, Unsubscribe
  <2>2. UNCHANGED <<server, cursor, connects, history>>
    BY <1>7 DEF ReplayFails, Unsubscribe
  <2>3. faults' \in 0..MaxFaults
    <3>1. CASE ReplayFails(c)
      <4>1. faults' = faults + 1 /\ faults < MaxFaults /\ faults \in 0..MaxFaults
        BY <1>1, <3>1 DEF ReplayFails, RestOK
      <4>2. MaxFaults \in Nat
        BY LimitsAssumption
      <4> QED BY <4>1, <4>2
    <3>2. CASE Unsubscribe(c)
      BY <1>1, <3>2 DEF Unsubscribe, RestOK
    <3> QED BY <1>7, <3>1, <3>2
  <2> QED BY <1>1, <2>1, <2>2, <2>3 DEF RestOK, server, history
<1>8. CASE Leave(c)
  <2> DEFINE h == [conn[c] EXCEPT !.peer = FALSE]
  <2>1. h \in Handler
    BY <1>2 DEF Handler
  <2>2. conn' = [conn EXCEPT ![c] = h]
    BY <1>8 DEF Leave
  <2> HIDE DEF h
  <2>3. ConnOK'
    BY <1>4, <2>1, <2>2
  <2> QED BY <1>1, <1>8, <2>3 DEF Leave, RestOK, server, history
<1>9. ASSUME NEW ends \in BOOLEAN, Send(c, ends) PROVE RestOK' /\ ConnOK'
  <2>1. conn[c].queue # <<>> /\ conn[c].queue \in Seq(Row)
    BY <1>2, <1>9 DEF Send, Handler
  <2>2. 1 \in DOMAIN conn[c].queue /\ Head(conn[c].queue) = conn[c].queue[1]
    BY <2>1
  <2>3. Head(conn[c].queue).id \in 1..MaxEvents /\ Head(conn[c].queue).seq \in Nat
    <3>1. Head(conn[c].queue).id \in 1..emitted
      BY <2>2, QueuedIds
    <3>2. emitted \in 0..MaxEvents /\ Head(conn[c].queue) \in Row
      BY <2>1 DEF TypeOK
    <3> QED BY <3>1, <3>2, PresentRows, LimitsAssumption
  <2>4. Shift(conn[c]) \in Handler
    <3>1. Tail(conn[c].queue) \in Seq(Row) /\ Head(conn[c].queue) \in Row
      BY <2>1
    <3>2. conn[c].sent \in Seq(Row)
      BY <1>2 DEF Handler
    <3>3. Append(conn[c].sent, Head(conn[c].queue)) \in Seq(Row)
      BY <3>1, <3>2
    <3> QED BY <1>2, <3>1, <3>3 DEF Shift, Handler
  <2>5. ConnOK'
    <3>1. (IF ends THEN Off ELSE Shift(conn[c])) \in Handler
      BY <1>2, <2>4
    <3> QED BY <1>4, <1>9, <3>1 DEF Send
  <2>6. Max({cursor[c], Head(conn[c].queue).seq}) \in Nat
    BY <2>3, MaxOfTwo, StreamTypes
  <2>7. cursor' \in [Client -> Nat] /\ got' \in [Client -> SUBSET (1..MaxEvents)]
    BY <1>1, <1>9, <2>3, <2>6 DEF Send, RestOK
  <2> QED BY <1>1, <1>9, <2>5, <2>7 DEF Send, RestOK, server
<1> QED BY <1>5, <1>6, <1>7, <1>8, <1>9

\* So do the pollers.
LEMMA PollTypes ==
  ASSUME TypeOK, Numbers, NEW c \in Poller, PollerOK(c), Poll(c)
  PROVE  TypeOK'
<1> SUFFICES RestOK' /\ ConnOK'
  BY TypeParts, PTL
<1>1. RestOK /\ ConnOK
  BY TypeParts
<1>2. UNCHANGED <<log, open, emitted, conn, connects, faults, missable, voided>>
  BY DEF Poll, server
<1>3. PICK last \in Nat : last = cursor'[c]
  BY PollKeepsPoller
<1>4. c \in Client /\ got'[c] \subseteq 1..MaxEvents
  <2>1. got[c] \subseteq 1..MaxEvents /\ emitted \in 0..MaxEvents
    BY <1>1 DEF RestOK, Client
  <2>2. 1..emitted \subseteq 1..MaxEvents
    BY <2>1, LimitsAssumption
  <2> QED BY <2>1, <2>2, PollKeepsPoller DEF Client
<1>5. PICK seen \in SUBSET (1..MaxEvents) : seen = got'[c]
  BY <1>4
<1>6. cursor' = [cursor EXCEPT ![c] = last] /\ got' = [got EXCEPT ![c] = seen]
  <2>1. DOMAIN cursor = Client /\ DOMAIN got = Client
    BY <1>1 DEF RestOK
  <2> QED BY <1>3, <1>4, <1>5, <2>1 DEF Poll
<1>7. cursor' \in [Client -> Nat] /\ got' \in [Client -> SUBSET (1..MaxEvents)]
  BY <1>1, <1>6 DEF RestOK
<1> QED BY <1>1, <1>2, <1>7 DEF RestOK, ConnOK

-----------------------------------------------------------------------------
(* Every step keeps the invariant.                                         *)

\* What a stream's own step does to its client.
Own(c) ==
  \/ Subscribe(c) \/ Replay(c) \/ ReplayFails(c) \/ Leave(c) \/ Unsubscribe(c)
  \/ \E ends \in BOOLEAN : Send(c, ends)

LEMMA StepOfStream ==
  ASSUME NEW c, AcceptWs(c) \/ OpenSse(c) \/ ReplayFails(c) \/ Handle(c) \/ Leave(c)
  PROVE  Own(c)
<1>1. (Limit[c] # 0 /\ Len(conn[c].sent) + 1 >= Limit[c]) \in BOOLEAN
  OBVIOUS
<1> QED
  BY <1>1 DEF AcceptWs, OpenSse, Handle, DrainWs, ReplaySse, FollowWs, FollowSse, Own

\* A step of one stream leaves the others, the server and the pollers alone.
LEMMA OwnIsOwn ==
  ASSUME TypeOK, NEW c \in Stream, Own(c)
  PROVE  /\ UNCHANGED <<log, open, emitted, voided>>
         /\ \A d \in Stream \ {c} : Elsewhere(d)
         /\ \A d \in Poller : cursor'[d] = cursor[d] /\ got'[d] = got[d]
<1>1. UNCHANGED <<log, open, emitted, voided>>
  BY DEF Own, Subscribe, Replay, ReplayFails, Leave, Unsubscribe, Send, server, history
<1>2. c \notin Poller
  BY StreamTypes
<1>3. ASSUME NEW d \in Stream \ {c} PROVE conn'[d] = conn[d]
  BY <1>3 DEF Own, Subscribe, Replay, ReplayFails, Leave, Unsubscribe, Send, TypeOK, Stream
<1>4. ASSUME NEW d \in Client \ {c} PROVE cursor'[d] = cursor[d] /\ got'[d] = got[d]
  BY <1>4 DEF Own, Subscribe, Replay, ReplayFails, Leave, Unsubscribe, Send, TypeOK, server, history
<1>5. ASSUME NEW d \in Stream \ {c} PROVE missable'[d] = missable[d]
  BY <1>5 DEF Own, Subscribe, Replay, ReplayFails, Leave, Unsubscribe, Send, TypeOK, Stream,
              server, history
<1>6. Stream \subseteq Client /\ Poller \subseteq Client
  BY DEF Stream, Client
<1> QED BY <1>1, <1>2, <1>3, <1>4, <1>5, <1>6 DEF Elsewhere

LEMMA OwnKeepsStream ==
  ASSUME TypeOK, Numbers, NEW c \in Stream, StreamOK(c), Own(c)
  PROVE  StreamOK(c)'
<1>1. CASE ReplayFails(c) \/ Unsubscribe(c)
  <2>1. conn'[c] = Off
    BY <1>1 DEF ReplayFails, Unsubscribe, TypeOK, Stream
  <2>2. UNCHANGED <<log, open, emitted, cursor, got, missable, voided>>
    BY <1>1 DEF ReplayFails, Unsubscribe, server, history
  <2> QED BY <2>1, <2>2, StandingStill, EndKeepsStream
<1>2. CASE Leave(c)
  <2>1. UNCHANGED <<log, open, emitted, cursor, got, missable, voided>> /\ conn[c].peer
    BY <1>2 DEF Leave, server, history
  <2>2. conn'[c] = [conn[c] EXCEPT !.peer = FALSE] /\ conn[c] \in Handler
    BY <1>2, StreamTypes DEF Leave, TypeOK, Stream
  <2>3. conn[c].pc # "off"
    BY <2>1 DEF StreamOK, QueueOK, Off
  <2>4. Elsewhere(c)
    BY <2>1, <2>2, <2>3 DEF Elsewhere, Handler
  <2> QED BY <2>1, <2>4, StandingStill, OthersKeepStream
<1> QED
  BY <1>1, <1>2, SubscribeKeepsStream, ReplayKeepsStream, SendKeepsStream DEF Own

\* A poller depends on nothing but the log and what it has seen.
LEMMA PollerStays ==
  ASSUME NEW c \in Poller, PollerOK(c), log' = log, cursor'[c] = cursor[c], got'[c] = got[c]
  PROVE  PollerOK(c)'
BY DEF PollerOK

LEMMA StreamInvParts ==
  StreamInv <=> /\ TypeOK /\ Numbers
                /\ \A c \in Stream : StreamOK(c)
                /\ \A c \in Poller : PollerOK(c)
BY DEF StreamInv, StreamOK

LEMMA StreamInvStart == Init => StreamInv
<1> SUFFICES ASSUME Init PROVE StreamInv
  OBVIOUS
<1>1. Present = {} /\ Pending = {}
  BY DEF Init, Present, Pending
<1>2. Off \in Handler
  BY DEF Off, Handler
<1>3. TypeOK
  <2>1. conn \in [Stream -> Handler]
    BY <1>2 DEF Init, Stream
  <2>2. RestOK
    BY LimitsAssumption DEF Init, RestOK, Stream
  <2> QED BY <2>1, <2>2, TypeParts DEF ConnOK
<1>4. Numbers
  BY <1>1, FS_EmptySet DEF Init, Numbers
<1>5. ASSUME NEW c \in Stream PROVE StreamOK(c)
  <2>1. conn[c] = Off /\ cursor[c] = 0
    BY DEF Init, Stream, Client
  <2>2. conn[c].sent = <<>> /\ conn[c].queue = <<>> /\ conn[c].pc = "off"
    BY <2>1 DEF Off
  <2>3. Chain(c) = <<>>
    BY <2>2 DEF Chain
  <2>4. ChainOK(Chain(c)) /\ QueueOK(c)
    BY <2>1, <2>2, <2>3 DEF ChainOK, Ordered, NoTriple, QueueOK
  <2>5. NoneSkipped(c)
    BY <1>1, <2>1 DEF NoneSkipped, Ladder
  <2> QED BY <2>4, <2>5 DEF StreamOK
<1>6. ASSUME NEW c \in Poller PROVE PollerOK(c)
  BY DEF Init, PollerOK, Client
<1> QED BY <1>3, <1>4, <1>5, <1>6, StreamInvParts

LEMMA EmissionStep ==
  ASSUME StreamInv, NEW w \in Writer, Emit(w)
  PROVE  StreamInv'
<1>1. TypeOK' /\ Numbers'
  BY ServerTypes, EmitKeepsNumbers DEF StreamInv
<1>2. ASSUME NEW c \in Stream PROVE StreamOK(c)'
  BY EmitKeepsStream, StreamInvParts
<1>3. ASSUME NEW c \in Poller PROVE PollerOK(c)'
  BY PollerStays DEF StreamInv, Emit
<1> QED BY <1>1, <1>2, <1>3 DEF StreamInv, StreamOK

LEMMA CommitStep ==
  ASSUME StreamInv, NEW w \in Writer, Commit(w)
  PROVE  StreamInv'
<1>1. TypeOK' /\ Numbers' /\ Present' = Present /\ log \subseteq log'
  BY ServerTypes, CommitKeepsNumbers DEF StreamInv
<1>2. UNCHANGED <<emitted, conn, cursor, got, missable, voided>>
  BY DEF Commit, history
<1>3. Onward
  BY <1>1, <1>2 DEF Onward, Ladder
<1>4. ASSUME NEW c \in Stream PROVE StreamOK(c)'
  <2>1. Elsewhere(c)
    BY <1>2 DEF Elsewhere
  <2> QED BY <1>3, <2>1, OthersKeepStream, StreamInvParts
<1>5. ASSUME NEW c \in Poller PROVE PollerOK(c)'
  BY CommitKeepsPoller DEF StreamInv
<1> QED BY <1>1, <1>4, <1>5 DEF StreamInv, StreamOK

\* After a restart no stream is left; a rollback disturbs none.
LEMMA DropStep ==
  ASSUME StreamInv, Restart \/ \E w \in Writer : Rollback(w)
  PROVE  StreamInv'
<1>1. TypeOK /\ Numbers /\ Dropped
  BY DroppedRows DEF StreamInv
<1>2. TypeOK'
  BY <1>1, ServerTypes
<1>3. Numbers' /\ Onward
  BY <1>1, DroppedKeepsNumbers DEF Onward, Dropped, Present
<1>4. UNCHANGED <<log, cursor, got, missable>>
  BY DEF Restart, Rollback
<1>5. ASSUME NEW c \in Stream PROVE StreamOK(c)'
  <2>1. CASE Restart
    <3>1. conn'[c] = Off
      BY <2>1 DEF Restart, Stream
    <3> QED BY <1>1, <1>3, <1>4, <3>1, EndKeepsStream, StreamInvParts
  <2>2. CASE \E w \in Writer : Rollback(w)
    <3>1. Elsewhere(c)
      BY <1>4, <2>2 DEF Rollback, Elsewhere
    <3> QED BY <1>1, <1>3, <3>1, OthersKeepStream, StreamInvParts
  <2> QED BY <2>1, <2>2
<1>6. ASSUME NEW c \in Poller PROVE PollerOK(c)'
  BY <1>4, PollerStays DEF StreamInv
<1> QED BY <1>2, <1>3, <1>5, <1>6 DEF StreamInv, StreamOK

LEMMA OwnStep ==
  ASSUME StreamInv, NEW c \in Stream, Own(c)
  PROVE  StreamInv'
<1>1. TypeOK /\ Numbers /\ \A d \in Stream : StreamOK(d)
  BY StreamInvParts
<1>2. TypeOK'
  BY <1>1, StreamStepTypes DEF Own
<1>3. /\ UNCHANGED <<log, open, emitted, voided>>
      /\ \A d \in Stream \ {c} : Elsewhere(d)
      /\ \A d \in Poller : cursor'[d] = cursor[d] /\ got'[d] = got[d]
  BY <1>1, OwnIsOwn
<1>4. Onward /\ Numbers'
  BY <1>1, <1>3, StandingStill DEF Numbers, Present, Pending
<1>5. ASSUME NEW d \in Stream PROVE StreamOK(d)'
  <2>1. CASE d = c
    BY <1>1, <2>1, OwnKeepsStream
  <2>2. CASE d # c
    BY <1>1, <1>3, <1>4, <2>2, OthersKeepStream
  <2> QED BY <2>1, <2>2
<1>6. ASSUME NEW d \in Poller PROVE PollerOK(d)'
  BY <1>3, PollerStays DEF StreamInv
<1> QED BY <1>2, <1>4, <1>5, <1>6 DEF StreamInv, StreamOK

LEMMA PollStep ==
  ASSUME StreamInv, NEW c \in Poller, Poll(c)
  PROVE  StreamInv'
<1>1. TypeOK /\ Numbers /\ PollerOK(c)
  BY DEF StreamInv
<1>2. TypeOK'
  BY <1>1, PollTypes
<1>3. UNCHANGED <<log, open, emitted, voided, conn, missable>>
  BY DEF Poll, server
<1>4. Onward /\ Numbers'
  BY <1>1, <1>3, StandingStill DEF Numbers, Present, Pending
<1>5. ASSUME NEW d \in Client \ {c} PROVE cursor'[d] = cursor[d] /\ got'[d] = got[d]
  BY <1>1, <1>5 DEF Poll, TypeOK
<1>6. ASSUME NEW d \in Stream PROVE StreamOK(d)'
  <2>1. d # c /\ d \in Client
    BY <1>1, StreamTypes
  <2>2. Elsewhere(d)
    BY <1>3, <1>5, <2>1 DEF Elsewhere
  <2> QED BY <1>1, <1>4, <2>2, OthersKeepStream, StreamInvParts
<1>7. ASSUME NEW d \in Poller PROVE PollerOK(d)'
  <2>1. CASE d = c
    BY <1>1, <2>1, PollKeepsPoller
  <2>2. CASE d # c
    <3>1. d \in Client
      BY DEF Client
    <3> QED BY <1>3, <1>5, <2>2, <3>1, PollerStays DEF StreamInv
  <2> QED BY <2>1, <2>2
<1> QED BY <1>2, <1>4, <1>6, <1>7 DEF StreamInv, StreamOK

LEMMA StreamInvStutters == StreamInv /\ UNCHANGED vars => StreamInv'
<1> SUFFICES ASSUME StreamInv, UNCHANGED vars PROVE StreamInv'
  OBVIOUS
<1>1. UNCHANGED <<log, open, emitted, conn, cursor, connects, faults, got, missable, voided>>
  BY DEF vars, server, history
<1>2. TypeOK'
  BY <1>1 DEF StreamInv, TypeOK
<1>3. Onward /\ Numbers'
  BY <1>1, StandingStill DEF StreamInv, Numbers, Present, Pending
<1>4. ASSUME NEW c \in Stream PROVE StreamOK(c)'
  <2>1. Elsewhere(c)
    BY <1>1 DEF Elsewhere
  <2> QED BY <1>3, <2>1, OthersKeepStream, StreamInvParts
<1>5. ASSUME NEW c \in Poller PROVE PollerOK(c)'
  BY <1>1, PollerStays DEF StreamInv
<1> QED BY <1>2, <1>3, <1>4, <1>5 DEF StreamInv, StreamOK

LEMMA StreamInvHolds == Spec => []StreamInv
<1>1. Init => StreamInv
  BY StreamInvStart
<1>2. StreamInv /\ [Next]_vars => StreamInv'
  <2> SUFFICES ASSUME StreamInv, Next PROVE StreamInv'
    BY StreamInvStutters
  <2>1. ASSUME NEW w \in Writer, Emit(w) \/ Commit(w) \/ Rollback(w) PROVE StreamInv'
    BY <2>1, EmissionStep, CommitStep, DropStep
  <2>2. ASSUME NEW c \in Ws \cup Sse,
               AcceptWs(c) \/ OpenSse(c) \/ ReplayFails(c) \/ Handle(c) \/ Leave(c)
        PROVE  StreamInv'
    BY <2>2, StepOfStream, OwnStep DEF Stream
  <2>3. ASSUME NEW c \in Poller, Poll(c) PROVE StreamInv'
    BY <2>3, PollStep
  <2>4. CASE Restart
    BY <2>4, DropStep
  <2> QED BY <2>1, <2>2, <2>3, <2>4 DEF Next
<1> QED BY <1>1, <1>2, PTL DEF Spec

-----------------------------------------------------------------------------
(* Theorems.                                                               *)

\* Every variable keeps its type, for any number of writers and clients: the
\* numbers seen and missed are those of emitted events.
THEOREM TypeCorrect == Spec => []TypeOK
<1>1. StreamInv => TypeOK
  BY DEF StreamInv
<1> QED BY <1>1, StreamInvHolds, PTL

\* A reader of the event log misses no committed event but for the four reasons
\* that NothingElseIsLost names, whatever its page limit and however writers,
\* rollbacks, restarts and reconnections interleave.
THEOREM ReadersMissNothingElse == Spec => []NothingElseIsLost
<1>1. StreamInv => NothingElseIsLost
  <2> SUFFICES ASSUME StreamInv, NEW c \in Client, NEW row \in log, Lost(c, row)
               PROVE  c \notin Poller /\ (row.id \in missable[c] \/ row.seq \in voided)
    BY DEF NothingElseIsLost
  <2>1. row.session \in Mine[c] /\ row.id \notin got[c]
    BY DEF Lost
  <2>2. c \notin Poller
    <3> SUFFICES ASSUME c \in Poller PROVE FALSE
      OBVIOUS
    <3>1. row.seq <= cursor[c]
      BY DEF Lost, CaughtUp
    <3> QED BY <2>1, <3>1 DEF StreamInv, PollerOK
  <2>3. c \in Stream /\ row \in Present /\ row.seq \in Nat /\ cursor[c] \in Nat
    BY <2>2, PresentRows, StreamTypes DEF Client, Stream, StreamInv, Present
  <2>4. NoneSkipped(c)
    BY <2>3 DEF StreamInv
  <2>5. CASE row.seq <= cursor[c]
    BY <2>1, <2>2, <2>3, <2>4, <2>5 DEF NoneSkipped
  <2>6. CASE CaughtUp(c)
    <3>1. conn[c].pc = "live" /\ conn[c].queue = <<>>
      BY <2>6 DEF CaughtUp
    <3>2. ~Queued(c, row)
      BY <3>1 DEF Queued
    <3> QED BY <2>1, <2>2, <2>3, <2>4, <3>1, <3>2 DEF NoneSkipped
  <2> QED BY <2>5, <2>6 DEF Lost
<1> QED BY <1>1, StreamInvHolds, PTL

LEMMA PairIsSmall ==
  ASSUME NEW a, NEW b, NEW S, S \subseteq {a, b}
  PROVE  Cardinality(S) <= 2
<1>1. IsFiniteSet({}) /\ Cardinality({}) = 0
  BY FS_EmptySet
<1>2. IsFiniteSet({a}) /\ Cardinality({a}) = 1
  BY FS_Singleton
<1>3. IsFiniteSet({a, b}) /\ Cardinality({a, b}) <= 2
  <2>1. {a, b} = {a} \cup {b}
    OBVIOUS
  <2>2. IsFiniteSet({a} \cup {b})
        /\ Cardinality({a} \cup {b}) = IF b \in {a} THEN Cardinality({a}) ELSE Cardinality({a}) + 1
    BY <1>2, FS_AddElement
  <2> QED BY <1>2, <2>1, <2>2
<1>4. IsFiniteSet(S) /\ Cardinality(S) <= Cardinality({a, b})
  BY <1>3, FS_Subset
<1>5. Cardinality(S) \in Nat /\ Cardinality({a, b}) \in Nat
  BY <1>3, <1>4, FS_CardinalityType
<1> QED BY <1>3, <1>4, <1>5

\* A stream sends what it sends first in the order of the log, but for voided
\* numbers, and nothing a third time: for every length of the queue, page size and
\* interleaving of the bus with the replay.
THEOREM StreamsSendInOrder == Spec => []InOrder
<1>1. StreamInv => InOrder
  <2> SUFFICES ASSUME StreamInv, NEW c \in Stream, NEW j \in DOMAIN conn[c].sent
               PROVE  /\ \/ conn[c].sent[j] \in {conn[c].sent[i] : i \in 1..(j - 1)}
                         \/ conn[c].sent[j].seq \in voided
                         \/ \A row \in {conn[c].sent[i] : i \in 1..(j - 1)} :
                              row.seq < conn[c].sent[j].seq
                      /\ Cardinality({i \in DOMAIN conn[c].sent :
                                       conn[c].sent[i] = conn[c].sent[j]}) <= 2
    BY DEF InOrder, Stream
  <2>1. PICK s \in Seq(Row), q \in Seq(Row) : s = conn[c].sent /\ q = conn[c].queue
    BY StreamTypes DEF StreamInv, Handler
  <2>2. PICK n \in Nat : n = Len(s) /\ DOMAIN s = 1..n
    BY <2>1
  <2>3. PICK ch \in Seq(Row) : ch = s \o q /\ Ordered(ch) /\ NoTriple(ch)
    <3>1. Chain(c) \in Seq(Row) /\ ChainOK(Chain(c))
      BY StreamTypes DEF StreamInv
    <3>2. Chain(c) = s \o q
      BY <2>1 DEF Chain
    <3> QED BY <3>1, <3>2 DEF ChainOK
  <2>4. \A i \in 1..n : i \in DOMAIN ch /\ ch[i] = s[i]
    BY <2>2, <2>3
  <2>5. j \in 1..n
    BY <2>1, <2>2
  <2>6. \/ s[j] \in {s[i] : i \in 1..(j - 1)} \/ s[j].seq \in voided
        \/ \A row \in {s[i] : i \in 1..(j - 1)} : row.seq < s[j].seq
    <3> SUFFICES ASSUME NEW i \in 1..(j - 1), s[j].seq \notin voided,
                        \A k \in 1..(j - 1) : s[k] # s[j]
                 PROVE  s[i].seq < s[j].seq
      OBVIOUS
    <3>1. i \in 1..n /\ j \in DOMAIN ch /\ ch[i] = s[i] /\ ch[j] = s[j]
      BY <2>2, <2>4, <2>5
    <3>2. ch[i].seq < ch[j].seq \/ ch[j].seq \in voided \/ \E k \in 1..i : ch[k] = ch[j]
      BY <2>3, <3>1 DEF Ordered
    <3>3. ASSUME NEW k \in 1..i PROVE ch[k] # ch[j]
      <4>1. k \in 1..n /\ k \in 1..(j - 1)
        BY <2>2, <2>5, <3>1
      <4> QED BY <2>4, <3>1, <4>1
    <3> QED BY <3>1, <3>2, <3>3
  <2> DEFINE T == {i \in 1..n : s[i] = s[j]}
  <2>7. \A x, y, z \in T : ~(x < y /\ y < z)
    <3> SUFFICES ASSUME NEW x \in T, NEW y \in T, NEW z \in T, x < y, y < z PROVE FALSE
      OBVIOUS
    <3>1. z \in DOMAIN ch /\ y \in 1..(z - 1) /\ x \in 1..(y - 1)
      BY <2>2, <2>4
    <3>2. ch[x] = ch[y] /\ ch[y] = ch[z]
      BY <2>4
    <3> QED BY <2>3, <3>1, <3>2 DEF NoTriple
  <2>8. Cardinality(T) <= 2
    <3>1. CASE \E k \in T : k # j
      <4>1. PICK k \in T : k # j
        BY <3>1
      <4>2. \A i \in T : i \in Nat
        BY <2>2
      <4>3. j \in T
        BY <2>5
      <4> HIDE DEF T
      <4>4. T \subseteq {j, k}
        BY <2>7, <4>1, <4>2, <4>3
      <4> QED BY <4>4, PairIsSmall
    <3>2. CASE ~\E k \in T : k # j
      <4>1. T \subseteq {j, j}
        BY <3>2
      <4> HIDE DEF T
      <4> QED BY <4>1, PairIsSmall
    <3> QED BY <3>1, <3>2
  <2> QED BY <2>1, <2>2, <2>6, <2>8
<1> QED BY <1>1, StreamInvHolds, PTL
=============================================================================
