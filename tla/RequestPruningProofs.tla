------------------------ MODULE RequestPruningProofs ------------------------
(***************************************************************************)
(* What holds of requests for any messages, hosts and numbers of passes.   *)
(* All of it rests on one description of a request (Sent): each message is *)
(* that of the transcript, or one that might be cut, as one cut leaves it, *)
(* with two results after it.  A later pass finds the same messages to cut *)
(* or fewer, and by the third the size of the note repeats itself.         *)
(***************************************************************************)
EXTENDS RequestPruning, FiniteSetTheorems, SequenceTheorems, TLAPS

\* Two results come after the place i.
Behind(ms, i) ==
  \E j, k \in i + 1 .. Len(ms) : j < k /\ ms[j].role = "tool" /\ ms[k].role = "tool"

\* What a cut leaves as it is.
Alike(m, s) ==
  /\ s.role = m.role /\ s.name = m.name /\ s.text = m.text /\ s.head = m.head
  /\ s.tail = m.tail /\ s.error = m.error /\ s.reads = m.reads /\ s.marked = m.marked

\* s is what one cut or several leave of the message m of the transcript.
CutOf(m, s) ==
  /\ m.role = "tool" /\ m.name \in PrunableTools /\ m.text /\ ~Diagnostic(m) /\ TooLong(m)
  /\ s.flat = s.reads /\ s.note \in Nat
  /\ s.size = s.head + s.tail + NoteSize(s.note)
  /\ s.lost = m.size - m.head - m.tail
  /\ s.note = m.size - m.head - m.tail \/ s.note \in 59 .. 67

\* After n passes that changed something, this is left to change.
Settled(ms, n) ==
  \A i \in Prunable(ms) : /\ n >= 1 => ms[i].note # None
                          /\ n >= 2 => ms[i].note \in 59 .. 67
                          /\ n >= 3 => ms[i].note = 60

\* ms is the beginning of the transcript tr after n passes that changed something.
Sent(tr, ms, n) ==
  /\ ms \in Seq(Message) /\ Len(ms) <= Len(tr)
  /\ \A i \in DOMAIN ms :
       /\ Alike(tr[i], ms[i])
       /\ ms[i] # tr[i] => CutOf(tr[i], ms[i]) /\ Behind(ms, i)
  /\ n \in 0 .. 3 /\ Settled(ms, n)

\* A request made under pressure and not sent again.
Fresh ==
  passes = 1 /\ pressed => request = PruneMessages(SubSeq(transcript, 1, Len(request)))

RInv == TypeOK /\ Sent(transcript, request, cuts) /\ Fresh

-----------------------------------------------------------------------------
(* Notes *)

Tens == {10, 100, 1000, 10000, 100000, 1000000, 10000000, 100000000}

LEMMA TensCardinality == IsFiniteSet(Tens) /\ Cardinality(Tens) <= 8
<1> DEFINE s1 == {} \cup {10}
           s2 == s1 \cup {100}
           s3 == s2 \cup {1000}
           s4 == s3 \cup {10000}
           s5 == s4 \cup {100000}
           s6 == s5 \cup {1000000}
           s7 == s6 \cup {10000000}
           s8 == s7 \cup {100000000}
<1> HIDE DEF s1, s2, s3, s4, s5, s6, s7, s8
<1>1. IsFiniteSet(s1) /\ Cardinality(s1) \in 0 .. 1
  BY FS_EmptySet, FS_AddElement DEF s1
<1>2. IsFiniteSet(s2) /\ Cardinality(s2) \in 0 .. 2
  BY <1>1, FS_AddElement DEF s2
<1>3. IsFiniteSet(s3) /\ Cardinality(s3) \in 0 .. 3
  BY <1>2, FS_AddElement DEF s3
<1>4. IsFiniteSet(s4) /\ Cardinality(s4) \in 0 .. 4
  BY <1>3, FS_AddElement DEF s4
<1>5. IsFiniteSet(s5) /\ Cardinality(s5) \in 0 .. 5
  BY <1>4, FS_AddElement DEF s5
<1>6. IsFiniteSet(s6) /\ Cardinality(s6) \in 0 .. 6
  BY <1>5, FS_AddElement DEF s6
<1>7. IsFiniteSet(s7) /\ Cardinality(s7) \in 0 .. 7
  BY <1>6, FS_AddElement DEF s7
<1>8. IsFiniteSet(s8) /\ Cardinality(s8) \in 0 .. 8
  BY <1>7, FS_AddElement DEF s8
<1>9. s8 = Tens
  BY DEF s1, s2, s3, s4, s5, s6, s7, s8, Tens
<1> QED
  BY <1>8, <1>9

\* The digits of a number, and those of small ones.
LEMMA DigitsBounds ==
  ASSUME NEW n \in Nat
  PROVE  /\ Digits(n) \in 1 .. 9
         /\ n < 100 => Digits(n) \in 1 .. 2
         /\ n \in 10 .. 99 => Digits(n) = 2
<1> DEFINE below == {p \in Tens : p <= n}
<1>1. Digits(n) = 1 + Cardinality(below)
  BY DEF Digits, Tens
<1>2. Cardinality(below) \in 0 .. 8
  <2>1. below \subseteq Tens
    OBVIOUS
  <2> QED
    BY <2>1, TensCardinality, FS_Subset, FS_CardinalityType
<1>3. Cardinality({}) = 0 /\ Cardinality({10}) = 1
  BY FS_EmptySet, FS_Singleton
<1>4. n < 100 => below = {} \/ below = {10}
  BY DEF Tens
<1>5. n \in 10 .. 99 => below = {10}
  BY DEF Tens
<1> HIDE DEF below
<1> QED
  BY <1>1, <1>2, <1>3, <1>4, <1>5

\* The size of a note, and of a note on a note.
LEMMA NoteBounds ==
  ASSUME NEW n \in Nat
  PROVE  /\ NoteSize(n) \in 59 .. 67
         /\ n < 100 => NoteSize(n) <= 60
         /\ n \in 10 .. 99 => NoteSize(n) = 60
  BY DigitsBounds DEF NoteSize

LEMMA Windows ==
  ASSUME NEW h \in HeadChars \div 2 + 1 .. HeadChars,
         NEW l \in TailChars - TailChars \div 2 .. TailChars
  PROVE  h \in Nat /\ l \in Nat /\ h + l <= 3000
  BY DEF HeadChars, TailChars

LEMMA MessageSizes ==
  ASSUME NEW m \in Message
  PROVE  /\ m.size \in Nat /\ m.lost \in Nat /\ m.note \in Nat \cup {None}
         /\ m.head \in Nat /\ m.tail \in Nat /\ m.head + m.tail <= 3000
<1>1. /\ m.size \in Nat /\ m.lost \in Nat /\ m.note \in Nat \cup {None}
      /\ m.head \in HeadChars \div 2 + 1 .. HeadChars
      /\ m.tail \in TailChars - TailChars \div 2 .. TailChars
  BY DEF Message
<1> QED
  BY <1>1, Windows

\* A cut of a text that is too long.
LEMMA CutFields ==
  ASSUME NEW m \in Message, TooLong(m), m.note = None \/ m.lost + (m.size - m.head - m.tail) >= NoteSize(m.note)
  PROVE  /\ Compacted(m) \in Message
         /\ Alike(m, Compacted(m))
         /\ Compacted(m).flat = m.reads
         /\ Compacted(m).note = m.size - m.head - m.tail
         /\ Compacted(m).note \in Nat \ {0}
         /\ Compacted(m).size = m.head + m.tail + NoteSize(m.size - m.head - m.tail)
         /\ m.note = None => Compacted(m).lost = m.lost + (m.size - m.head - m.tail)
         /\ m.note # None =>
              Compacted(m).lost = m.lost + (m.size - m.head - m.tail) - NoteSize(m.note)
<1> DEFINE omitted == m.size - m.head - m.tail
           old == IF m.note = None THEN 0 ELSE NoteSize(m.note)
<1>0. m.size > 3000
  BY DEF TooLong, HeadChars, TailChars
<1>1. /\ m.size \in Nat /\ m.lost \in Nat /\ m.note \in Nat \cup {None}
      /\ m.head \in Nat /\ m.tail \in Nat /\ m.head + m.tail <= 3000
  BY MessageSizes
<1>2. omitted \in Nat \ {0}
  BY <1>0, <1>1
<1>3. NoteSize(omitted) \in Nat
  BY <1>2, NoteBounds
<1>4. m.note # None => NoteSize(m.note) \in Nat
  BY <1>1, NoteBounds
<1>5. m.lost + omitted - old \in Nat /\ m.size - omitted + NoteSize(omitted) \in Nat
  BY <1>1, <1>2, <1>3, <1>4
<1>6. m.size - omitted + NoteSize(omitted) = m.head + m.tail + NoteSize(omitted)
  BY <1>1, <1>3
<1>7. Compacted(m) = [m EXCEPT !.size = m.size - omitted + NoteSize(omitted), !.note = omitted,
                               !.lost = m.lost + omitted - old, !.flat = m.reads]
  BY DEF Compacted
<1> HIDE DEF omitted, old
<1>8. Compacted(m) \in Message
  BY <1>2, <1>5, <1>7 DEF Message
<1>9. /\ Alike(m, Compacted(m)) /\ Compacted(m).flat = m.reads /\ Compacted(m).note = omitted
      /\ Compacted(m).size = m.size - omitted + NoteSize(omitted)
      /\ Compacted(m).lost = m.lost + omitted - old
  BY <1>7 DEF Message, Alike
<1>10. /\ m.note = None => m.lost + omitted - old = m.lost + omitted
       /\ m.note # None => m.lost + omitted - old = m.lost + omitted - NoteSize(m.note)
  BY <1>1, <1>2 DEF old
<1> QED
  BY <1>2, <1>6, <1>8, <1>9, <1>10 DEF omitted

LEMMA MessageEqual ==
  ASSUME NEW a \in Message, NEW b \in Message, Alike(a, b),
         b.size = a.size, b.note = a.note, b.lost = a.lost, b.flat = a.flat
  PROVE  b = a
<1> DEFINE Fields(m) ==
      [role |-> m.role, name |-> m.name, text |-> m.text, size |-> m.size, head |-> m.head,
       tail |-> m.tail, error |-> m.error, flat |-> m.flat, reads |-> m.reads,
       marked |-> m.marked, note |-> m.note, lost |-> m.lost]
<1>1. a = Fields(a) /\ b = Fields(b)
  BY DEF Message
<1>2. Fields(a) = Fields(b)
  BY DEF Alike
<1> QED
  BY <1>1, <1>2

\* A message of a request that is cut once more.
LEMMA CutAgain ==
  ASSUME NEW m \in Messages, NEW s \in Message, Alike(m, s), s # m => CutOf(m, s),
         s.role = "tool", s.name \in PrunableTools, s.text, ~Diagnostic(s), TooLong(s)
  PROVE  /\ Compacted(s) \in Message
         /\ Alike(m, Compacted(s)) /\ CutOf(m, Compacted(s))
         /\ s.note # None => Compacted(s).note \in 59 .. 67
         /\ s.note \in 59 .. 67 => Compacted(s).note = 60
         /\ s.note = 60 => Compacted(s) = s
<1> DEFINE c == Compacted(s)
           omitted == s.size - s.head - s.tail
<1>1. m \in Message /\ m.note = None /\ m.lost = 0
  BY RequestAssumption
<1>2. /\ s.size \in Nat /\ s.lost \in Nat /\ s.note \in Nat \cup {None}
      /\ s.head \in Nat /\ s.tail \in Nat
  BY MessageSizes
<1>3. ASSUME s # m
      PROVE  /\ s.note \in Nat /\ NoteSize(s.note) \in 59 .. 67
             /\ omitted = NoteSize(s.note) /\ s.flat = s.reads
  <2>1. s.note \in Nat /\ s.size = s.head + s.tail + NoteSize(s.note) /\ s.flat = s.reads
    BY <1>3 DEF CutOf
  <2>2. NoteSize(s.note) \in 59 .. 67
    BY <2>1, NoteBounds
  <2> QED
    BY <1>2, <2>1, <2>2
<1>4. s.note = None \/ s.lost + omitted >= NoteSize(s.note)
  <2>1. CASE s = m
    BY <1>1, <2>1
  <2>2. CASE s # m
    BY <1>2, <1>3, <2>2
  <2> QED
    BY <2>1, <2>2
<1>5. /\ c \in Message /\ Alike(s, c) /\ c.flat = s.reads
      /\ c.note = omitted /\ c.note \in Nat
      /\ c.size = s.head + s.tail + NoteSize(omitted)
      /\ s.note = None => c.lost = s.lost + omitted
      /\ s.note # None => c.lost = s.lost + omitted - NoteSize(s.note)
  BY <1>4, CutFields
<1>6. Alike(m, c) /\ c.head = s.head /\ c.tail = s.tail /\ c.reads = s.reads
  BY <1>5 DEF Alike
<1>7. CASE s = m
  <2>1. s.note = None /\ None \notin Nat /\ c.lost = omitted
    BY <1>1, <1>2, <1>5, <1>7, RequestAssumption
  <2>2. CutOf(m, c)
    BY <1>5, <1>6, <1>7, <2>1 DEF CutOf
  <2>3. s.note \notin Nat
    BY <2>1
  <2>4. s.note \notin 59 .. 67 /\ s.note # 60
    BY <2>3
  <2> QED
    BY <1>5, <1>6, <2>1, <2>2, <2>4
<1>8. CASE s # m
  <2>1. c.note = NoteSize(s.note) /\ c.note \in 59 .. 67 /\ c.lost = s.lost
    <3>1. s.note # None
      BY <1>3, <1>8, RequestAssumption
    <3> QED
      BY <1>2, <1>3, <1>5, <1>8, <3>1
  <2>2. CutOf(m, s)
    BY <1>8
  <2>3. CutOf(m, c)
    BY <1>5, <1>6, <2>1, <2>2 DEF CutOf
  <2>4. s.note \in 59 .. 67 => c.note = 60
    BY <2>1, <1>3, <1>8, NoteBounds
  <2>5. ASSUME s.note = 60 PROVE c = s
    <3>1. NoteSize(s.note) = 60
      BY <2>5, NoteBounds
    <3>2. omitted = 60 /\ NoteSize(omitted) = 60
      BY <1>3, <1>8, <2>5, <3>1
    <3>3. c.size = s.size /\ c.note = s.note /\ c.lost = s.lost /\ c.flat = s.flat
      BY <1>2, <1>3, <1>5, <1>8, <2>1, <2>5, <3>2
    <3> QED
      BY <1>5, <3>3, MessageEqual
  <2> QED
    BY <1>5, <1>6, <2>1, <2>3, <2>4, <2>5
<1> QED
  BY <1>7, <1>8

-----------------------------------------------------------------------------
(* The protected tail *)

LEMMA ToolResultsFinite ==
  ASSUME NEW ms \in Seq(Message), NEW i
  PROVE  IsFiniteSet({j \in ToolResults(ms) : j >= i})
<1>1. {j \in ToolResults(ms) : j >= i} \subseteq 1 .. Len(ms)
  BY DEF ToolResults
<1> QED
  BY <1>1, FS_Interval, FS_Subset

LEMMA PairSize ==
  ASSUME NEW a, NEW b
  PROVE  /\ IsFiniteSet({a, b}) /\ Cardinality({a, b}) \in 1 .. 2
         /\ a # b => Cardinality({a, b}) = 2
<1>1. IsFiniteSet({a}) /\ Cardinality({a}) = 1
  BY FS_Singleton
<1>2. {a, b} = {a} \cup {b}
  OBVIOUS
<1>3. IsFiniteSet({a, b}) /\ Cardinality({a, b}) = IF b \in {a} THEN 1 ELSE 2
  BY <1>1, <1>2, FS_AddElement
<1> QED
  BY <1>3

LEMMA TripleSize ==
  ASSUME NEW a, NEW b, NEW d, a # b, a # d, b # d
  PROVE  Cardinality({a, b, d}) = 3
<1>1. {a, b, d} = {a, b} \cup {d} /\ d \notin {a, b}
  OBVIOUS
<1>2. IsFiniteSet({a, b}) /\ Cardinality({a, b}) = 2
  BY PairSize
<1>3. Cardinality({a, b} \cup {d}) = Cardinality({a, b}) + 1
  BY <1>1, <1>2, FS_AddElement
<1> QED
  BY <1>1, <1>2, <1>3

\* Outside of the protected tail there are two results to come.
LEMMA TwoBehind ==
  ASSUME NEW ms \in Seq(Message), NEW i \in ToolResults(ms) \ ProtectedTail(ms)
  PROVE  Behind(ms, i)
<1> DEFINE S == {j \in ToolResults(ms) : j >= i}
<1>1. i \in 1 .. Len(ms) /\ \A j \in S : j \in i .. Len(ms) /\ ms[j].role = "tool"
  BY DEF ToolResults
<1>2. SUFFICES ASSUME ~Behind(ms, i) PROVE FALSE
  OBVIOUS
<1>3. \A j, k \in S : j # i /\ k # i => j = k
  BY <1>1, <1>2 DEF Behind
<1>4. \E x : S \subseteq {i, x}
  <2>1. CASE S \subseteq {i}
    BY <2>1
  <2>2. CASE ~(S \subseteq {i})
    <3>1. PICK x \in S : x # i
      BY <2>2
    <3> QED
      BY <1>3, <3>1
  <2> QED
    BY <2>1, <2>2
<1>5. PICK x : S \subseteq {i, x}
  BY <1>4
<1>6. IsFiniteSet({i, x}) /\ Cardinality({i, x}) \in 1 .. 2
  BY PairSize
<1>7. Cardinality(S) <= 2
  <2>1. Cardinality(S) <= Cardinality({i, x}) /\ IsFiniteSet(S)
    BY <1>5, <1>6, FS_Subset
  <2>2. Cardinality(S) \in Nat /\ Cardinality({i, x}) \in Nat
    BY <1>6, <2>1, FS_CardinalityType
  <2> QED
    BY <1>6, <2>1, <2>2
<1> QED
  BY <1>7 DEF ProtectedTail, TailResults

\* Whatever has two results to come is outside of the protected tail.
LEMMA BehindUnprotected ==
  ASSUME NEW ms \in Seq(Message), NEW i \in DOMAIN ms, Behind(ms, i)
  PROVE  i \notin ProtectedTail(ms)
<1> DEFINE S == {j \in ToolResults(ms) : j >= i}
<1>1. SUFFICES ASSUME i \in ProtectedTail(ms) PROVE FALSE
  OBVIOUS
<1>2. PICK j, k \in i + 1 .. Len(ms) : j < k /\ ms[j].role = "tool" /\ ms[k].role = "tool"
  BY DEF Behind
<1>3. {i, j, k} \subseteq S /\ i # j /\ i # k /\ j # k
  BY <1>1, <1>2 DEF ProtectedTail, ToolResults
<1>4. Cardinality({i, j, k}) = 3
  BY <1>3, TripleSize
<1>5. Cardinality(S) >= 3
  <2>1. IsFiniteSet(S)
    BY ToolResultsFinite
  <2>2. Cardinality({i, j, k}) <= Cardinality(S)
    BY <1>3, <2>1, FS_Subset
  <2> QED
    BY <1>4, <2>2
<1>6. Cardinality(S) <= 2
  BY <1>1 DEF ProtectedTail, TailResults
<1>7. Cardinality(S) \in Nat
  BY ToolResultsFinite, FS_CardinalityType
<1> QED
  BY <1>5, <1>6, <1>7

-----------------------------------------------------------------------------
(* One pass *)

\* Who is protected and what comes later does not depend on what a cut changes.
LEMMA SameRoles ==
  ASSUME NEW ms \in Seq(Message), NEW nx \in Seq(Message), Len(nx) = Len(ms),
         \A i \in DOMAIN ms : nx[i].role = ms[i].role
  PROVE  /\ ToolResults(nx) = ToolResults(ms)
         /\ ProtectedTail(nx) = ProtectedTail(ms)
         /\ \A i \in DOMAIN ms : Behind(nx, i) <=> Behind(ms, i)
<1>1. DOMAIN nx = DOMAIN ms /\ DOMAIN ms = 1 .. Len(ms)
  OBVIOUS
<1>2. ToolResults(nx) = ToolResults(ms)
  BY <1>1 DEF ToolResults
<1>3. ProtectedTail(nx) = ProtectedTail(ms)
  BY <1>2 DEF ProtectedTail
<1>4. ASSUME NEW i \in DOMAIN ms PROVE Behind(nx, i) <=> Behind(ms, i)
  <2>1. \A j \in i + 1 .. Len(ms) : j \in DOMAIN ms
    BY <1>1
  <2> QED
    BY <2>1 DEF Behind
<1> QED
  BY <1>2, <1>3, <1>4

LEMMA EligibleFacts ==
  ASSUME NEW ms \in Seq(Message), NEW i \in Prunable(ms)
  PROVE  /\ i \in DOMAIN ms /\ ms[i] \in Message /\ ms[i].role = "tool"
         /\ ms[i].name \in PrunableTools /\ ms[i].text /\ ~Diagnostic(ms[i]) /\ TooLong(ms[i])
         /\ Behind(ms, i)
<1>1. /\ i \in DOMAIN ms /\ Eligible(ms, i) /\ TooLong(ms[i])
  BY DEF Prunable
<1>2. i \in ToolResults(ms) \ ProtectedTail(ms)
  BY <1>1 DEF Eligible
<1> QED
  BY <1>1, <1>2, TwoBehind DEF Eligible, ToolResults

\* A pass over a request that has been described describes the next one.
LEMMA PruneSent ==
  ASSUME NEW tr \in Seq(Messages), NEW ms, NEW n, Sent(tr, ms, n)
  PROVE  /\ PruneMessages(ms) \in Seq(Message) /\ Len(PruneMessages(ms)) = Len(ms)
         /\ PruneMessages(ms) # ms => Sent(tr, PruneMessages(ms), n + 1)
<1> DEFINE nx == PruneMessages(ms)
<1>1. /\ ms \in Seq(Message) /\ Len(ms) <= Len(tr) /\ n \in 0 .. 3 /\ Settled(ms, n)
      /\ DOMAIN ms = 1 .. Len(ms)
  BY DEF Sent
<1>2. \A i \in DOMAIN ms : tr[i] \in Messages /\ ms[i] \in Message
  <2>1. DOMAIN tr = 1 .. Len(tr) /\ Len(tr) \in Nat /\ Len(ms) \in Nat
    BY <1>1
  <2>2. \A i \in DOMAIN ms : i \in DOMAIN tr
    BY <1>1, <2>1
  <2> QED
    BY <1>1, <2>2
<1>3. \A i \in DOMAIN ms : Alike(tr[i], ms[i]) /\ (ms[i] # tr[i] => CutOf(tr[i], ms[i]) /\ Behind(ms, i))
  BY DEF Sent
<1>4. ASSUME NEW i \in Prunable(ms)
      PROVE  /\ i \in DOMAIN ms /\ Behind(ms, i) /\ Compacted(ms[i]) \in Message
             /\ Alike(tr[i], Compacted(ms[i])) /\ CutOf(tr[i], Compacted(ms[i]))
             /\ ms[i].note # None => Compacted(ms[i]).note \in 59 .. 67
             /\ ms[i].note \in 59 .. 67 => Compacted(ms[i]).note = 60
             /\ ms[i].note = 60 => Compacted(ms[i]) = ms[i]
  <2>1. /\ i \in DOMAIN ms /\ Behind(ms, i) /\ ms[i].role = "tool" /\ ms[i].text
        /\ ms[i].name \in PrunableTools /\ ~Diagnostic(ms[i]) /\ TooLong(ms[i])
    BY <1>1, <1>4, EligibleFacts
  <2>2. /\ tr[i] \in Messages /\ ms[i] \in Message
        /\ Alike(tr[i], ms[i]) /\ (ms[i] # tr[i] => CutOf(tr[i], ms[i]))
    BY <1>2, <1>3, <2>1
  <2> QED
    BY <2>1, <2>2, CutAgain
<1>5. \A i \in DOMAIN ms : nx[i] = ms[i] \/ (i \in Prunable(ms) /\ nx[i] = Compacted(ms[i]))
  BY DEF PruneMessages
<1>6. nx \in Seq(Message) /\ Len(nx) = Len(ms) /\ DOMAIN nx = DOMAIN ms
  <2>1. \A i \in 1 .. Len(ms) : nx[i] \in Message
    BY <1>1, <1>2, <1>4, <1>5
  <2>2. nx \in [1 .. Len(ms) -> Message] /\ Len(ms) \in Nat
    BY <1>1, <2>1 DEF PruneMessages
  <2> QED
    BY <1>1, <2>2
<1>7. \A i \in DOMAIN ms : Alike(tr[i], nx[i]) /\ Alike(ms[i], nx[i])
  BY <1>3, <1>4, <1>5 DEF Alike
<1>8. ToolResults(nx) = ToolResults(ms) /\ ProtectedTail(nx) = ProtectedTail(ms)
      /\ \A i \in DOMAIN ms : Behind(nx, i) <=> Behind(ms, i)
  <2>1. \A i \in DOMAIN ms : nx[i].role = ms[i].role
    BY <1>7 DEF Alike
  <2> QED
    BY <1>1, <1>6, <2>1, SameRoles
<1>9. \A i \in DOMAIN nx :
        /\ Alike(tr[i], nx[i])
        /\ nx[i] # tr[i] => CutOf(tr[i], nx[i]) /\ Behind(nx, i)
  BY <1>3, <1>4, <1>5, <1>6, <1>7, <1>8
<1>10. ASSUME nx # ms PROVE \A i \in Prunable(ms) : nx[i] = Compacted(ms[i])
  <2>1. \A j \in DOMAIN ms : ms[j].role # "malformed"
    <3>1. SUFFICES ASSUME ~(\A j \in DOMAIN ms : ms[j].role # "malformed") PROVE nx = ms
      BY <1>10
    <3>2. nx = [i \in DOMAIN ms |-> ms[i]]
      BY <3>1 DEF PruneMessages
    <3> QED
      BY <1>1, <3>2
  <2> QED
    BY <1>4, <2>1 DEF PruneMessages
<1>11. Prunable(nx) \subseteq Prunable(ms)
  <2>1. SUFFICES ASSUME NEW i \in Prunable(nx), i \notin Prunable(ms) PROVE FALSE
    OBVIOUS
  <2>2. i \in DOMAIN nx /\ Eligible(nx, i) /\ TooLong(nx[i])
    BY DEF Prunable
  <2>3. i \in DOMAIN ms /\ nx[i] = ms[i]
    BY <1>5, <1>6, <2>1, <2>2
  <2>4. Eligible(ms, i)
    BY <1>8, <2>2, <2>3 DEF Eligible
  <2> QED
    BY <2>1, <2>2, <2>3, <2>4 DEF Prunable
<1>12. ASSUME nx # ms PROVE Settled(nx, n + 1)
  <2>1. SUFFICES ASSUME NEW i \in Prunable(nx)
        PROVE  /\ n + 1 >= 1 => nx[i].note # None
               /\ n + 1 >= 2 => nx[i].note \in 59 .. 67
               /\ n + 1 >= 3 => nx[i].note = 60
    BY DEF Settled
  <2>2. i \in Prunable(ms) /\ nx[i] = Compacted(ms[i])
    BY <1>10, <1>11, <1>12
  <2>3. nx[i].note # None
    BY <1>4, <2>2, RequestAssumption DEF CutOf
  <2>4. /\ n >= 1 => ms[i].note # None
        /\ n >= 2 => ms[i].note \in 59 .. 67
    BY <1>1, <2>2 DEF Settled
  <2> QED
    BY <1>1, <1>4, <2>2, <2>3, <2>4
<1>13. ASSUME nx # ms PROVE n + 1 \in 0 .. 3
  <2>1. SUFFICES ASSUME n = 3 PROVE nx = ms
    BY <1>1, <1>12, <1>13
  <2>2. \A i \in Prunable(ms) : ms[i].note = 60
    BY <1>1, <2>1 DEF Settled
  <2>3. \A i \in DOMAIN ms : nx[i] = ms[i]
    BY <1>4, <1>5, <2>2
  <2>4. nx = [i \in DOMAIN nx |-> nx[i]] /\ ms = [i \in DOMAIN ms |-> ms[i]]
    BY <1>1, <1>6
  <2> QED
    BY <1>6, <2>3, <2>4
<1> HIDE DEF nx
<1>14. nx # ms => Sent(tr, nx, n + 1)
  BY <1>1, <1>6, <1>9, <1>12, <1>13 DEF Sent
<1> QED
  BY <1>6, <1>14 DEF nx

\* A pass, whether the gate is open or not.
LEMMA PassSent ==
  ASSUME NEW tr \in Seq(Messages), NEW ms, NEW n, Sent(tr, ms, n),
         NEW nx, NEW open, nx = IF open THEN PruneMessages(ms) ELSE ms
  PROVE  /\ nx \in Seq(Message) /\ Len(nx) = Len(ms)
         /\ Sent(tr, nx, n + IF nx # ms THEN 1 ELSE 0)
<1>1. ms \in Seq(Message) /\ n \in Nat
  BY DEF Sent
<1>2. nx = PruneMessages(ms) \/ nx = ms
  OBVIOUS
<1>3. CASE nx = ms
  <2>1. n + (IF nx # ms THEN 1 ELSE 0) = n
    BY <1>1, <1>3
  <2> QED
    BY <1>1, <1>3, <2>1
<1>4. CASE nx # ms
  <2>1. nx = PruneMessages(ms) /\ PruneMessages(ms) # ms
    BY <1>2, <1>4
  <2>2. n + (IF nx # ms THEN 1 ELSE 0) = n + 1
    BY <1>4
  <2> QED
    BY <2>1, <2>2, PruneSent
<1> QED
  BY <1>3, <1>4

LEMMA InitRInv == Init => RInv
<1> SUFFICES ASSUME Init PROVE RInv
  OBVIOUS
<1>1. TypeOK
  <2>1. <<>> \in Seq(Messages) /\ <<>> \in Seq(Message) /\ Len(<<>>) = 0
    OBVIOUS
  <2>2. transcript = <<>> /\ request = <<>> /\ passes = 0 /\ pressed = FALSE /\ cuts = 0
    BY DEF Init
  <2>3. passes \in 0 .. MaxPasses /\ cuts \in 0 .. passes
    BY <2>2, RequestAssumption
  <2>4. /\ transcript \in Seq(Messages) /\ request \in Seq(Message)
        /\ Len(transcript) = 0 /\ Len(request) = 0
    BY <2>1, <2>2
  <2>5. Len(transcript) <= MaxMessages /\ Len(request) <= Len(transcript)
    BY <2>4, RequestAssumption
  <2>6. pressed \in BOOLEAN
    BY <2>2
  <2> QED
    BY <2>3, <2>4, <2>5, <2>6 DEF TypeOK
<1>2. Sent(transcript, request, cuts)
  <2>1. Prunable(request) = {}
    BY DEF Init, Prunable
  <2> QED
    BY <2>1 DEF Init, Sent, Settled
<1> QED
  BY <1>1, <1>2 DEF Init, Fresh, RInv

\* A message is added: the request is of the messages before it.
LEMMA AddRInv == ASSUME RInv, NEW m \in Messages, AddMessage(m) PROVE RInv'
<1>1. /\ transcript \in Seq(Messages) /\ request \in Seq(Message)
      /\ Len(transcript) < MaxMessages /\ Len(request) <= Len(transcript)
      /\ transcript' = Append(transcript, m) /\ request' = request /\ cuts' = cuts
  BY DEF RInv, TypeOK, AddMessage
<1>2. /\ transcript' \in Seq(Messages) /\ Len(transcript') = Len(transcript) + 1
      /\ \A i \in 1 .. Len(transcript) : transcript'[i] = transcript[i]
  BY <1>1
<1>3. TypeOK'
  BY <1>1, <1>2, RequestAssumption DEF RInv, TypeOK, AddMessage
<1>4. DOMAIN request = 1 .. Len(request) /\ Len(request) \in Nat /\ Len(transcript) \in Nat
  BY <1>1
<1>5. \A i \in DOMAIN request : transcript'[i] = transcript[i]
  BY <1>1, <1>2, <1>4
<1>6. Sent(transcript, request, cuts) => Sent(transcript', request, cuts)
  BY <1>1, <1>2, <1>4, <1>5 DEF Sent
<1>7. SubSeq(transcript', 1, Len(request)) = SubSeq(transcript, 1, Len(request))
  <2>1. \A i \in 1 .. Len(request) : transcript'[i] = transcript[i]
    BY <1>4, <1>5
  <2>2. SubSeq(transcript', 1, Len(request)) = [i \in 1 .. Len(request) |-> transcript'[i]]
    BY <1>2, <1>4
  <2>3. SubSeq(transcript, 1, Len(request)) = [i \in 1 .. Len(request) |-> transcript[i]]
    BY <1>1, <1>4
  <2> QED
    BY <2>1, <2>2, <2>3
<1>8. Fresh'
  BY <1>1, <1>7 DEF RInv, Fresh, AddMessage
<1> QED
  BY <1>1, <1>3, <1>6, <1>8 DEF RInv

\* The transcript as a request that nothing has been cut of.
LEMMA NothingCut == ASSUME NEW tr \in Seq(Messages) PROVE Sent(tr, tr, 0)
<1>1. tr \in Seq(Message)
  BY RequestAssumption
<1>2. \A i \in DOMAIN tr : Alike(tr[i], tr[i])
  BY DEF Alike
<1>3. Settled(tr, 0)
  BY DEF Settled
<1> QED
  BY <1>1, <1>2, <1>3 DEF Sent

\* A request is made.
LEMMA SendRInv == ASSUME RInv, NEW host \in Hosts, Send(host) PROVE RInv'
<1>1. /\ transcript \in Seq(Messages) /\ transcript' = transcript /\ passes' = 1
      /\ request' = IF pressed' THEN PruneMessages(transcript) ELSE transcript
      /\ cuts' = 0 + IF request' # transcript THEN 1 ELSE 0
  BY DEF RInv, TypeOK, Send, Prune
<1>2. /\ request' \in Seq(Message) /\ Len(request') = Len(transcript)
      /\ Sent(transcript, request', cuts')
  <2>1. Sent(transcript, transcript, 0)
    BY <1>1, NothingCut
  <2> QED
    BY <1>1, <2>1, PassSent
<1>3. pressed' \in BOOLEAN
  BY RequestAssumption DEF Send, Prune, ShouldPrune
<1>4. TypeOK'
  BY <1>1, <1>2, <1>3, RequestAssumption DEF RInv, TypeOK
<1>5. Fresh'
  <2>1. SubSeq(transcript, 1, Len(transcript)) = transcript
    BY <1>1
  <2> QED
    BY <1>1, <1>2, <2>1 DEF Fresh
<1> QED
  BY <1>1, <1>2, <1>4, <1>5 DEF RInv

\* A request is sent again.
LEMMA SendAgainRInv == ASSUME RInv, NEW host \in Hosts, SendAgain(host) PROVE RInv'
<1>1. /\ transcript \in Seq(Messages) /\ transcript' = transcript
      /\ passes \in 1 .. MaxPasses - 1 /\ passes' = passes + 1
      /\ request' = IF pressed' THEN PruneMessages(request) ELSE request
      /\ cuts' = cuts + IF request' # request THEN 1 ELSE 0
      /\ Sent(transcript, request, cuts) /\ cuts \in 0 .. passes
      /\ Len(request) <= Len(transcript)
  BY DEF RInv, TypeOK, SendAgain, Prune
<1>2. /\ request' \in Seq(Message) /\ Len(request') = Len(request)
      /\ Sent(transcript, request', cuts')
  BY <1>1, PassSent
<1>3. pressed' \in BOOLEAN
  BY RequestAssumption DEF SendAgain, Prune, ShouldPrune
<1>4. TypeOK'
  BY <1>1, <1>2, <1>3, RequestAssumption DEF RInv, TypeOK
<1>5. passes' # 1
  BY <1>1
<1> QED
  BY <1>1, <1>2, <1>4, <1>5 DEF RInv, Fresh

LEMMA NextRInv == RInv /\ [Next]_vars => RInv'
<1> SUFFICES ASSUME RInv, [Next]_vars PROVE RInv'
  OBVIOUS
<1>1. CASE UNCHANGED vars
  BY <1>1 DEF vars, RInv, TypeOK, Fresh
<1>2. CASE Next
  BY <1>2, AddRInv, SendRInv, SendAgainRInv DEF Next
<1> QED
  BY <1>1, <1>2

-----------------------------------------------------------------------------
(* The theorems *)

\* Of every request: it is the beginning of the transcript, each message as it was or
\* cut as described, and one made under pressure is the pruned beginning itself.
THEOREM RequestsDescribed == Spec => []RInv
  BY InitRInv, NextRInv, PTL DEF Spec

\* The variables of the middleware keep to their types.
THEOREM RequestTypes == Spec => []TypeOK
<1>1. RInv => TypeOK
  BY DEF RInv
<1> QED
  BY RequestsDescribed, <1>1, PTL

\* However long the transcript and however often a request is sent again: the latest
\* two results, everything that is not of a terminal tool and every error that can be
\* told are in it as in the transcript.
THEOREM ExemptionsHold == Spec => []ExemptExact
<1>1. ASSUME RInv PROVE ExemptExact
  <2>1. SUFFICES ASSUME NEW i \in DOMAIN request, request[i] # transcript[i]
        PROVE  LET m == transcript[i] IN
               /\ m.role = "tool" /\ m.name \in PrunableTools /\ m.text
               /\ ~(m.flat /\ m.error) /\ ~m.marked
               /\ Behind(request, i)
    BY DEF ExemptExact, Behind
  <2>2. CutOf(transcript[i], request[i]) /\ Behind(request, i)
    BY <1>1, <2>1 DEF RInv, Sent
  <2> QED
    BY <2>2 DEF CutOf, Diagnostic
<1> QED
  BY RequestsDescribed, <1>1, PTL

\* A content loses what is between its windows and no more, however often the request
\* is sent again, and the third cut is the last that changes anything.
THEOREM CutsAreSettled == Spec => []CutsSettle
<1>1. ASSUME RInv PROVE CutsSettle
  <2>1. cuts <= 3
    BY <1>1 DEF RInv, Sent
  <2>2. SUFFICES ASSUME NEW i \in DOMAIN request, request[i] # transcript[i]
        PROVE  /\ request[i].lost = transcript[i].size - transcript[i].head - transcript[i].tail
               /\ \/ request[i].size <= transcript[i].size
                  \/ request[i].size <= HeadChars + TailChars + NoteSize(10)
    BY <2>1 DEF CutsSettle
  <2> DEFINE m == transcript[i]
             s == request[i]
  <2>3. CutOf(m, s) /\ Alike(m, s) /\ m \in Message
    <3>1. /\ transcript \in Seq(Messages) /\ request \in Seq(Message)
          /\ Len(request) <= Len(transcript)
      BY <1>1 DEF RInv, TypeOK
    <3>2. i \in DOMAIN transcript
      BY <3>1
    <3>3. m \in Messages
      BY <3>1, <3>2
    <3> QED
      BY <1>1, <2>2, <3>3, RequestAssumption DEF RInv, Sent
  <2>4. m.size \in Nat /\ m.head \in Nat /\ m.tail \in Nat /\ m.head + m.tail <= 3000
    BY <2>3, MessageSizes
  <2>5. s.size = m.head + m.tail + NoteSize(s.note) /\ s.note \in Nat
    BY <2>3 DEF CutOf, Alike
  <2>6. NoteSize(10) = 60 /\ NoteSize(s.note) \in 59 .. 67
    BY <2>5, NoteBounds
  <2>7. CASE s.note < 100
    <3>1. NoteSize(s.note) <= 60
      BY <2>5, <2>7, NoteBounds
    <3>2. s.size <= 3060
      BY <2>4, <2>5, <2>6, <3>1
    <3> QED
      BY <2>3, <2>6, <3>2 DEF CutOf, HeadChars, TailChars
  <2>8. CASE ~(s.note < 100)
    <3>1. s.note = m.size - m.head - m.tail
      BY <2>3, <2>8 DEF CutOf
    <3>2. s.size <= m.size
      BY <2>4, <2>5, <2>6, <2>8, <3>1
    <3> QED
      BY <2>3, <3>2 DEF CutOf
  <2> QED
    BY <2>7, <2>8
<1> QED
  BY RequestsDescribed, <1>1, PTL

\* Pruning the beginning of a transcript or all of it does the same to what has two
\* results after it in the beginning already.
LEMMA PrunedAlike ==
  ASSUME NEW tr \in Seq(Message), NEW n \in 0 .. Len(tr), NEW i \in 1 .. n,
         Behind(SubSeq(tr, 1, n), i), \A j \in DOMAIN tr : tr[j].role # "malformed"
  PROVE  PruneMessages(SubSeq(tr, 1, n))[i] = PruneMessages(tr)[i]
<1> DEFINE p == SubSeq(tr, 1, n)
<1>1. /\ p \in Seq(Message) /\ Len(p) = n /\ DOMAIN p = 1 .. n
      /\ DOMAIN tr = 1 .. Len(tr) /\ Len(tr) \in Nat
      /\ \A j \in 1 .. n : j \in DOMAIN tr /\ p[j] = tr[j]
  OBVIOUS
<1> HIDE DEF p
<1>2. Behind(p, i) /\ i \in DOMAIN p /\ i \in DOMAIN tr
  BY <1>1 DEF p
<1>3. Behind(tr, i)
  <2>1. \A j \in i + 1 .. Len(p) : j \in i + 1 .. Len(tr) /\ p[j] = tr[j]
    BY <1>1
  <2> QED
    BY <1>2, <2>1 DEF Behind
<1>4. i \notin ProtectedTail(p) /\ i \notin ProtectedTail(tr)
  BY <1>1, <1>2, <1>3, BehindUnprotected
<1>5. Eligible(p, i) <=> Eligible(tr, i)
  BY <1>1, <1>2, <1>4 DEF Eligible, ToolResults
<1>6. i \in Prunable(p) <=> i \in Prunable(tr)
  BY <1>1, <1>2, <1>5 DEF Prunable
<1>7. \A j \in DOMAIN p : p[j].role # "malformed"
  BY <1>1
<1>8. PruneMessages(p)[i] = IF i \in Prunable(p) THEN Compacted(p[i]) ELSE p[i]
  BY <1>2, <1>7 DEF PruneMessages
<1>9. PruneMessages(tr)[i] = IF i \in Prunable(tr) THEN Compacted(tr[i]) ELSE tr[i]
  BY <1>2 DEF PruneMessages
<1> QED
  BY <1>1, <1>6, <1>8, <1>9 DEF p

\* From one request under pressure to the next, for any transcript and any host,
\* nothing changes that has two results after it.
THEOREM StablePrefix == Spec => PrefixStable
<1> DEFINE Stable ==
      passes = 1 /\ pressed /\ passes' = 1 /\ pressed'
        /\ (\A i \in DOMAIN transcript : transcript[i].role # "malformed") =>
      \A i \in DOMAIN request :
        (\E j, k \in i + 1 .. Len(request) :
           j < k /\ request[j].role = "tool" /\ request[k].role = "tool")
          => request'[i] = request[i]
<1>1. ASSUME RInv, [Next]_vars PROVE Stable
  <2>1. SUFFICES ASSUME passes = 1, pressed, passes' = 1, pressed',
                        \A i \in DOMAIN transcript : transcript[i].role # "malformed",
                        NEW i \in DOMAIN request, Behind(request, i)
                 PROVE  request'[i] = request[i]
    BY DEF Behind
  <2>2. CASE request' = request
    BY <2>2
  <2>3. CASE request' # request
    <3>1. request' = PruneMessages(transcript)
      <4>1. ~UNCHANGED vars /\ ~(\E m \in Messages : AddMessage(m))
        BY <2>3 DEF vars, AddMessage
      <4>2. ~(\E host \in Hosts : SendAgain(host))
        BY <2>1 DEF SendAgain
      <4> QED
        BY <1>1, <2>1, <4>1, <4>2 DEF Next, Send, Prune
    <3>2. /\ transcript \in Seq(Message) /\ request \in Seq(Message)
          /\ Len(request) \in 0 .. Len(transcript) /\ i \in 1 .. Len(request)
      BY <1>1, RequestAssumption DEF RInv, TypeOK
    <3> DEFINE p == SubSeq(transcript, 1, Len(request))
    <3>3. request = PruneMessages(p)
      BY <1>1, <2>1 DEF RInv, Fresh
    <3>4. /\ p \in Seq(Message) /\ Len(p) = Len(request) /\ DOMAIN p = 1 .. Len(request)
          /\ \A j \in 1 .. Len(request) : p[j] = transcript[j]
      BY <3>2
    <3> HIDE DEF p
    <3>5. \A j \in DOMAIN request : request[j].role = p[j].role
      <4>1. \A j \in DOMAIN request : Alike(transcript[j], request[j])
        BY <1>1 DEF RInv, Sent
      <4>2. DOMAIN request = 1 .. Len(request)
        BY <3>2
      <4> QED
        BY <3>4, <4>1, <4>2 DEF Alike
    <3>6. Behind(p, i)
      <4>1. \A j \in i + 1 .. Len(request) : j \in DOMAIN request
        BY <3>2
      <4> QED
        BY <2>1, <3>4, <3>5, <4>1 DEF Behind
    <3>7. PruneMessages(p)[i] = PruneMessages(transcript)[i]
      BY <2>1, <3>2, <3>6, PrunedAlike DEF p
    <3> QED
      BY <3>1, <3>3, <3>7
  <2> QED
    BY <2>2, <2>3
<1> QED
  BY RequestsDescribed, <1>1, PTL DEF Spec, PrefixStable
=============================================================================
