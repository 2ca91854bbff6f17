------------------------------ MODULE MemoProofs ------------------------------
(***************************************************************************)
(* What holds of the memo for any threads, sessions, requests and limits.  *)
(* That a view is the caller's own rests on what is kept: every entry has  *)
(* a view made for its key, and nobody has the very object.  That only a   *)
(* race raises rests on what a thread has seen or put: the entry is there  *)
(* until another thread evicts one, which the history remembers.           *)
(***************************************************************************)
EXTENDS Memo, FiniteSetTheorems, SequenceTheorems, TLAPS

Entry == [key : Keys, view : View, sharers : SUBSET Threads]

\* A view made for a call and not touched since.
Made(v, r) ==
  /\ v \in View /\ v.session = r.session /\ v.sight = r.sight
  /\ <<r.session, r.sight>> \in held

\* What is kept is for its key, of contents in the store, and the memo's alone.
KeptInv ==
  \A i \in DOMAIN results :
    LET e == results[i] IN
    /\ e.key = <<e.view.session, e.view.sight>> /\ e.key \in held
    /\ ~e.view.edited /\ e.sharers = {}

Keyed == {"touch", "insert", "settle", "trim", "pop"}

\* A thread that has a view has it for its request.
ViewInv ==
  \A t \in Threads :
    /\ pc[t] \notin {"idle"} => req[t] \in Request
    /\ pc[t] \in Keyed \cup {"returned"} => Made(view[t], req[t])
    /\ pc[t] \in Keyed => Key(t) # None
    /\ pc[t] = "insert" => ~view[t].edited

\* An entry found or put is there, unless another was evicted meanwhile.
RaceInv ==
  \A t \in Threads : t \notin raced =>
    /\ pc[t] \in {"touch", "settle"} => Has(Key(t))
    /\ pc[t] = "pop" => results # <<>>
    /\ pc[t] # "raised"

MInv == TypeOK /\ KeptInv /\ ViewInv /\ RaceInv

-----------------------------------------------------------------------------
(* Sequences and keys *)

\* What is left without an element.
LEMMA RemoveAtProperties ==
  ASSUME NEW S, NEW s \in Seq(S), NEW i \in DOMAIN s
  PROVE  /\ RemoveAt(s, i) \in Seq(S)
         /\ Len(RemoveAt(s, i)) = Len(s) - 1
         /\ \A j \in 1 .. Len(s) - 1 : RemoveAt(s, i)[j] = IF j < i THEN s[j] ELSE s[j + 1]
<1> DEFINE a == SubSeq(s, 1, i - 1)
           b == SubSeq(s, i + 1, Len(s))
           n == Len(s)
<1>1. i \in 1 .. n /\ n \in Nat /\ DOMAIN s = 1 .. n
  OBVIOUS
<1>2. /\ a \in Seq(S) /\ Len(a) = i - 1
      /\ \A j \in 1 .. i - 1 : a[j] = s[j]
  <2>1. \A j \in 1 .. i - 1 : s[j] \in S
    BY <1>1
  <2>2. /\ a \in Seq(S) /\ Len(a) = IF 1 <= i - 1 THEN i - 1 - 1 + 1 ELSE 0
        /\ \A j \in 1 .. i - 1 - 1 + 1 : a[j] = s[1 + j - 1]
    BY <1>1, <2>1, SubSeqProperties
  <2> QED
    BY <1>1, <2>2
<1>3. /\ b \in Seq(S) /\ Len(b) = n - i
      /\ \A j \in 1 .. n - i : b[j] = s[j + i]
  <2>1. \A j \in i + 1 .. n : s[j] \in S
    BY <1>1
  <2>2. /\ b \in Seq(S) /\ Len(b) = IF i + 1 <= n THEN n - (i + 1) + 1 ELSE 0
        /\ \A j \in 1 .. n - (i + 1) + 1 : b[j] = s[i + 1 + j - 1]
    BY <1>1, <2>1, SubSeqProperties
  <2> QED
    BY <1>1, <2>2
<1>4. RemoveAt(s, i) = a \o b
  BY DEF RemoveAt
<1> HIDE DEF a, b
<1>5. /\ a \o b \in Seq(S) /\ Len(a \o b) = Len(a) + Len(b)
      /\ \A j \in 1 .. Len(a) + Len(b) : (a \o b)[j] = IF j <= Len(a) THEN a[j] ELSE b[j - Len(a)]
  BY <1>2, <1>3, ConcatProperties
<1>6. Len(a \o b) = n - 1
  BY <1>1, <1>2, <1>3, <1>5
<1>7. ASSUME NEW j \in 1 .. n - 1
      PROVE  (a \o b)[j] = IF j < i THEN s[j] ELSE s[j + 1]
  <2>1. (a \o b)[j] = IF j <= i - 1 THEN a[j] ELSE b[j - (i - 1)]
    <3>1. Len(a) = i - 1 /\ Len(a) + Len(b) = n - 1
      BY <1>1, <1>2, <1>3
    <3>2. (a \o b)[j] = IF j <= Len(a) THEN a[j] ELSE b[j - Len(a)]
      BY <1>5, <3>1
    <3> QED
      BY <3>1, <3>2
  <2>2. CASE j < i
    BY <1>1, <1>2, <2>1, <2>2
  <2>3. CASE ~(j < i)
    <3>1. j - (i - 1) \in 1 .. n - i /\ j - (i - 1) + i = j + 1
      BY <1>1, <2>3
    <3>2. b[j - (i - 1)] = s[j + 1]
      BY <1>3, <3>1
    <3>3. ~(j <= i - 1)
      BY <1>1, <2>3
    <3> QED
      BY <2>1, <2>3, <3>2, <3>3
  <2> QED
    BY <2>2, <2>3
<1> QED
  BY <1>4, <1>5, <1>6, <1>7

\* Moving an element to the end keeps the length and the elements.
LEMMA MoveToEndProperties ==
  ASSUME NEW S, NEW s \in Seq(S), NEW i \in DOMAIN s
  PROVE  /\ MoveToEnd(s, i) \in Seq(S)
         /\ Len(MoveToEnd(s, i)) = Len(s)
         /\ \A j \in DOMAIN MoveToEnd(s, i) : \E k \in DOMAIN s : MoveToEnd(s, i)[j] = s[k]
         /\ \A k \in DOMAIN s : \E j \in DOMAIN MoveToEnd(s, i) : MoveToEnd(s, i)[j] = s[k]
         /\ \A j \in 1 .. Len(s) : MoveToEnd(s, i)[j] =
              IF j = Len(s) THEN s[i] ELSE IF j < i THEN s[j] ELSE s[j + 1]
<1> DEFINE r == RemoveAt(s, i)
           m == MoveToEnd(s, i)
           n == Len(s)
<1>1. i \in 1 .. n /\ n \in Nat /\ DOMAIN s = 1 .. n /\ s[i] \in S
  OBVIOUS
<1>2. /\ r \in Seq(S) /\ Len(r) = n - 1
      /\ \A j \in 1 .. n - 1 : r[j] = IF j < i THEN s[j] ELSE s[j + 1]
  BY RemoveAtProperties
<1>3. m = Append(r, s[i])
  BY DEF MoveToEnd
<1> HIDE DEF r, m
<1>9. r \in Seq(S) /\ Len(r) = n - 1
  BY <1>2
<1>4. /\ m \in Seq(S) /\ Len(m) = n - 1 + 1
      /\ \A j \in 1 .. n - 1 : m[j] = r[j]
      /\ m[n - 1 + 1] = s[i]
  <2> HIDE DEF n
  <2>1. s[i] \in S
    BY <1>1
  <2>2. /\ Append(r, s[i]) \in Seq(S) /\ Len(Append(r, s[i])) = Len(r) + 1
        /\ \A j \in 1 .. Len(r) : Append(r, s[i])[j] = r[j]
        /\ Append(r, s[i])[Len(r) + 1] = s[i]
    BY <1>9, <2>1, AppendProperties
  <2> QED
    BY <1>3, <1>9, <2>2
<1>8. m \in Seq(S) /\ Len(m) = n /\ DOMAIN m = 1 .. n
  BY <1>1, <1>4
<1>5. m[n] = s[i] /\ \A j \in 1 .. n - 1 : m[j] = IF j < i THEN s[j] ELSE s[j + 1]
  BY <1>1, <1>2, <1>4
<1>6. ASSUME NEW j \in 1 .. n
      PROVE  \E k \in 1 .. n : m[j] = s[k]
  <2>1. CASE j = n
    BY <1>1, <1>5, <2>1
  <2>2. CASE j # n
    <3>1. j \in 1 .. n - 1 /\ j + 1 \in 1 .. n
      <4>1. n \in Nat
        BY <1>1
      <4> HIDE DEF n
      <4> QED
        BY <4>1, <2>2
    <3>2. m[j] = IF j < i THEN s[j] ELSE s[j + 1]
      BY <1>5, <3>1
    <3> QED
      BY <3>1, <3>2
  <2> QED
    BY <2>1, <2>2
<1>7. ASSUME NEW k \in 1 .. n
      PROVE  \E j \in 1 .. n : m[j] = s[k]
  <2>1. CASE k = i
    BY <1>1, <1>5, <2>1
  <2>2. CASE k < i
    <3>1. k \in 1 .. n - 1
      BY <1>1, <2>2
    <3> QED
      BY <1>5, <2>2, <3>1
  <2>3. CASE k > i
    <3>1. k - 1 \in 1 .. n - 1 /\ ~(k - 1 < i) /\ k - 1 + 1 = k
      BY <1>1, <2>3
    <3>2. m[k - 1] = s[k]
      BY <1>5, <3>1
    <3> QED
      BY <3>1, <3>2
  <2> QED
    BY <1>1, <2>1, <2>2, <2>3
<1>10. ASSUME NEW j \in 1 .. n
       PROVE  m[j] = IF j = n THEN s[i] ELSE IF j < i THEN s[j] ELSE s[j + 1]
  <2>1. n \in Nat
    BY <1>1
  <2> HIDE DEF n
  <2>2. j = n \/ j \in 1 .. n - 1
    BY <2>1
  <2>3. j \in 1 .. n - 1 => j # n
    BY <2>1
  <2> QED
    BY <1>5, <2>2, <2>3
<1> QED
  BY <1>1, <1>8, <1>6, <1>7, <1>10 DEF m

\* The key of a request, when it has one.
LEMMA KeyType ==
  ASSUME NEW r \in Request, Fingerprint(r) # None
  PROVE  Fingerprint(r) \in Keys /\ Fingerprint(r) = <<r.session, r.sight>>
  BY DEF Request, Fingerprint, Keys

\* The place of a key that the memo has.
LEMMA PlaceType ==
  ASSUME NEW k, Has(k)
  PROVE  Place(k) \in DOMAIN results /\ results[Place(k)].key = k /\ EntryOf(k) = results[Place(k)]
  BY DEF Has, Place, EntryOf

\* Touching an entry changes nothing but the order.
LEMMA TouchedProperties ==
  ASSUME TypeOK, NEW k, Has(k)
  PROVE  /\ Touched(k) \in Seq(Entry) /\ Touched(k) # <<>> /\ Len(Touched(k)) = Len(results)
         /\ \A j \in DOMAIN Touched(k) : \E i \in DOMAIN results : Touched(k)[j] = results[i]
         /\ \A i \in DOMAIN results : \E j \in DOMAIN Touched(k) : Touched(k)[j] = results[i]
         /\ \A j \in 1 .. Len(results) : Touched(k)[j] =
              IF j = Len(results) THEN results[Place(k)]
              ELSE IF j < Place(k) THEN results[j] ELSE results[j + 1]
<1>1. results \in Seq(Entry)
  BY DEF TypeOK, Entry
<1>2. Place(k) \in DOMAIN results
  BY PlaceType
<1>3. Touched(k) = MoveToEnd(results, Place(k))
  BY DEF Touched
<1> DEFINE m == MoveToEnd(results, Place(k))
<1>4. /\ m \in Seq(Entry) /\ Len(m) = Len(results)
      /\ \A j \in DOMAIN m : \E i \in DOMAIN results : m[j] = results[i]
      /\ \A i \in DOMAIN results : \E j \in DOMAIN m : m[j] = results[i]
      /\ \A j \in 1 .. Len(results) : m[j] =
           IF j = Len(results) THEN results[Place(k)]
           ELSE IF j < Place(k) THEN results[j] ELSE results[j + 1]
  BY <1>1, <1>2, MoveToEndProperties
<1>5. m # <<>>
  BY <1>2, <1>4
<1> HIDE DEF m
<1>6. Touched(k) = m
  BY <1>3 DEF m
<1> QED
  BY <1>4, <1>5, <1>6

\* The history of used keys stays one of keys.
LEMMA UseType ==
  ASSUME TypeOK, NEW k \in Keys, Use(k)
  PROVE  recent' \in Seq(Keys)
<1>1. recent \in Seq(Keys)
  BY DEF TypeOK
<1>2. CASE ~alone
  BY <1>2 DEF Use
<1>3. CASE alone /\ \E i \in DOMAIN recent : recent[i] = k
  <2> DEFINE i == CHOOSE i \in DOMAIN recent : recent[i] = k
  <2>1. i \in DOMAIN recent
    BY <1>3
  <2>2. recent' = MoveToEnd(recent, i)
    BY <1>3 DEF Use
  <2> QED
    BY <1>1, <2>1, <2>2, MoveToEndProperties
<1>4. CASE alone /\ ~\E i \in DOMAIN recent : recent[i] = k
  <2>1. recent' = Append(recent, k)
    BY <1>4 DEF Use
  <2> QED
    BY <1>1, <2>1
<1> QED
  BY <1>2, <1>3, <1>4

\* What is put, in the place of its key or at the end.
LEMMA AssignedProperties ==
  ASSUME TypeOK, NEW e \in Entry
  PROVE  /\ Assigned(e) \in Seq(Entry) /\ Assigned(e) # <<>>
         /\ Len(Assigned(e)) = IF Has(e.key) THEN Len(results) ELSE Len(results) + 1
         /\ \A j \in DOMAIN Assigned(e) :
              Assigned(e)[j] = e \/ \E i \in DOMAIN results : Assigned(e)[j] = results[i]
         /\ \E j \in DOMAIN Assigned(e) : Assigned(e)[j] = e
         /\ \A i \in DOMAIN results : \E j \in DOMAIN Assigned(e) :
              Assigned(e)[j].key = results[i].key
<1>1. results \in Seq(Entry)
  BY DEF TypeOK, Entry
<1>2. CASE Has(e.key)
  <2> DEFINE a == [i \in DOMAIN results |-> IF results[i].key = e.key THEN e ELSE results[i]]
  <2>1. Assigned(e) = a
    BY <1>2 DEF Assigned
  <2>2. a \in Seq(Entry) /\ DOMAIN a = DOMAIN results /\ Len(a) = Len(results)
    BY <1>1
  <2>3. PICK p \in DOMAIN results : results[p].key = e.key
    BY <1>2 DEF Has
  <2>4. a[p] = e /\ a # <<>>
    BY <2>2, <2>3
  <2>5. \A i \in DOMAIN results : a[i].key = results[i].key /\ (a[i] = e \/ a[i] = results[i])
    OBVIOUS
  <2> HIDE DEF a
  <2> QED
    BY <1>2, <2>1, <2>2, <2>3, <2>4, <2>5
<1>3. CASE ~Has(e.key)
  <2> DEFINE a == Append(results, e)
  <2>1. Assigned(e) = a
    BY <1>3 DEF Assigned
  <2>2. /\ a \in Seq(Entry) /\ a # <<>> /\ Len(a) = Len(results) + 1
        /\ (\A i \in 1 .. Len(results) : a[i] = results[i]) /\ a[Len(results) + 1] = e
    BY <1>1, AppendProperties
  <2>3. DOMAIN results = 1 .. Len(results) /\ Len(results) \in Nat
    BY <1>1
  <2> HIDE DEF a
  <2>4. DOMAIN a = 1 .. Len(results) + 1
    BY <2>2
  <2>5. \A j \in DOMAIN a : j \in DOMAIN results \/ j = Len(results) + 1
    BY <2>3, <2>4
  <2>6. \A i \in DOMAIN results : i \in DOMAIN a /\ a[i] = results[i]
    BY <2>2, <2>3, <2>4
  <2>7. Len(results) + 1 \in DOMAIN a
    BY <2>3, <2>4
  <2> QED
    BY <1>3, <2>1, <2>2, <2>5, <2>6, <2>7
<1> QED
  BY <1>2, <1>3

-----------------------------------------------------------------------------
(* The invariant *)

\* The initial states satisfy the invariant.
LEMMA InitMInv == Init => MInv
  BY MemoAssumption DEF Init, MInv, TypeOK, Places, Resting, KeptInv, ViewInv, RaceInv, Keyed

\* The key and the view of a thread that has both.
LEMMA KeyedType ==
  ASSUME MInv, NEW t \in Threads, pc[t] \in Keyed
  PROVE  /\ req[t] \in Request /\ Key(t) \in Keys
         /\ Key(t) = <<req[t].session, req[t].sight>>
         /\ Made(view[t], req[t])
<1>1. req[t] \in Request /\ Made(view[t], req[t]) /\ Key(t) # None
  BY DEF MInv, ViewInv, Keyed
<1> QED
  BY <1>1, KeyType DEF Key

\* What is kept is nobody's to change.
LEMMA Unshared ==
  ASSUME MInv, NEW t \in Threads
  PROVE  /\ [i \in DOMAIN results |-> [results[i] EXCEPT !.sharers = @ \ {t}]] = results
         /\ [i \in DOMAIN results |->
               IF t \in results[i].sharers THEN [results[i] EXCEPT !.view.edited = TRUE]
               ELSE results[i]] = results
<1>1. results \in Seq(Entry)
  BY DEF MInv, TypeOK, Entry
<1>2. \A i \in DOMAIN results : results[i] \in Entry /\ results[i].sharers = {}
  BY <1>1 DEF MInv, KeptInv
<1>3. \A i \in DOMAIN results : [results[i] EXCEPT !.sharers = @ \ {t}] = results[i]
  BY <1>2 DEF Entry
<1>4. results = [i \in DOMAIN results |-> results[i]]
  BY <1>1
<1>5. [i \in DOMAIN results |-> [results[i] EXCEPT !.sharers = @ \ {t}]] = results
  BY <1>3, <1>4
<1>6. [i \in DOMAIN results |->
         IF t \in results[i].sharers THEN [results[i] EXCEPT !.view.edited = TRUE]
         ELSE results[i]] = results
  BY <1>2, <1>4
<1> QED
  BY <1>5, <1>6

\* A lookup.
LEMMA CallMInv == ASSUME MInv, NEW t \in Threads, NEW r \in Requests, Call(t, r) PROVE MInv'
<1> DEFINE k == Fingerprint(r)
           hit == k # None /\ Has(k)
<1>1. r \in Request
  BY MemoAssumption
<1>2. results' = results /\ held' = held
  BY Unshared DEF Call
<1>3. /\ req' = [req EXCEPT ![t] = r]
      /\ pc' = [pc EXCEPT ![t] = IF hit THEN "touch" ELSE "compute"]
      /\ view' = [view EXCEPT ![t] = IF hit THEN EntryOf(k).view ELSE None]
  BY DEF Call, Goto
<1>4. ASSUME hit
      PROVE  Made(EntryOf(k).view, r) /\ EntryOf(k).view \in View
  <2>1. k = <<r.session, r.sight>>
    BY <1>1, <1>4, KeyType
  <2>2. Place(k) \in DOMAIN results /\ EntryOf(k).key = k /\ EntryOf(k) = results[Place(k)]
    BY <1>4, PlaceType
  <2>3. EntryOf(k) \in Entry
    <3>1. results \in Seq(Entry)
      BY DEF MInv, TypeOK, Entry
    <3>2. \A i \in DOMAIN results : results[i] \in Entry
      BY <3>1
    <3> QED
      BY <2>2, <3>2
  <2>4. EntryOf(k).view \in View
    BY <2>3 DEF Entry
  <2>5. EntryOf(k).key = <<EntryOf(k).view.session, EntryOf(k).view.sight>> /\ EntryOf(k).key \in held
    BY <2>2 DEF MInv, KeptInv
  <2> QED
    BY <2>1, <2>2, <2>4, <2>5 DEF Made
<1>5. TypeOK'
  <2>1. view' \in [Threads -> View \cup {None}]
    BY <1>3, <1>4 DEF MInv, TypeOK
  <2>2. recent' \in Seq(Keys) /\ alone' \in BOOLEAN
    BY DEF Call, MInv, TypeOK
  <2>3. pc' \in [Threads -> Places] /\ req' \in [Threads -> Request \cup {None}]
    BY <1>1, <1>3 DEF MInv, TypeOK, Places
  <2> QED
    BY <1>2, <2>1, <2>2, <2>3 DEF Call, MInv, TypeOK
<1>6. KeptInv'
  BY <1>2 DEF MInv, KeptInv
<1>7. /\ pc'[t] = (IF hit THEN "touch" ELSE "compute") /\ req'[t] = r
      /\ view'[t] = (IF hit THEN EntryOf(k).view ELSE None)
      /\ \A u \in Threads \ {t} : pc'[u] = pc[u] /\ req'[u] = req[u] /\ view'[u] = view[u]
  BY <1>3 DEF MInv, TypeOK
<1>8. ViewInv'
  <2> SUFFICES ASSUME NEW u \in Threads
               PROVE  /\ pc'[u] \notin {"idle"} => req'[u] \in Request
                      /\ pc'[u] \in Keyed \cup {"returned"} => Made(view'[u], req'[u])
                      /\ pc'[u] \in Keyed => Fingerprint(req'[u]) # None
                      /\ pc'[u] = "insert" => ~view'[u].edited
    BY <1>2 DEF ViewInv, Made, Key
  <2>1. CASE u = t
    BY <1>1, <1>4, <1>7, <2>1 DEF Keyed
  <2>2. CASE u # t
    BY <1>7, <2>2 DEF MInv, ViewInv, Key
  <2> QED
    BY <2>1, <2>2
<1>9. RaceInv'
  <2>0. \A x : Has(x)' <=> Has(x)
    BY <1>2 DEF Has
  <2> SUFFICES ASSUME NEW u \in Threads, u \notin raced'
               PROVE  /\ pc'[u] \in {"touch", "settle"} => Has(Fingerprint(req'[u]))
                      /\ pc'[u] = "pop" => results # <<>>
                      /\ pc'[u] # "raised"
    BY <1>2, <2>0 DEF RaceInv, Key
  <2>1. CASE u = t
    BY <1>7, <2>1
  <2>2. CASE u # t
    BY <1>7, <2>2 DEF Call, MInv, RaceInv, Key
  <2> QED
    BY <2>1, <2>2
<1> QED
  BY <1>5, <1>6, <1>8, <1>9 DEF MInv

\* A hit, and the same step after a result is put, move an entry.
LEMMA MoveMInv ==
  ASSUME MInv, NEW t \in Threads, NEW l \in {"returned", "trim"},
         pc[t] \in {"touch", "settle"}, Has(Key(t)), results' = Touched(Key(t)), Use(Key(t)),
         Goto(t, l), UNCHANGED <<max_entries, req, view, held, raced, alone>>
  PROVE  MInv'
<1> DEFINE k == Key(t)
<1>1. /\ k \in Keys /\ TypeOK /\ Has(k)
  BY KeyedType DEF MInv, Keyed
<1>2. /\ results' \in Seq(Entry) /\ results' # <<>>
      /\ \A j \in DOMAIN results' : \E i \in DOMAIN results : results'[j] = results[i]
      /\ \A i \in DOMAIN results : \E j \in DOMAIN results' : results'[j] = results[i]
  BY <1>1, TouchedProperties
<1>3. pc' \in [Threads -> Places] /\ pc'[t] = l
      /\ \A u \in Threads \ {t} : pc'[u] = pc[u]
  BY DEF Goto, MInv, TypeOK, Places, Resting
<1>4. TypeOK'
  <2>1. recent' \in Seq(Keys)
    BY <1>1, UseType
  <2> QED
    BY <1>2, <1>3, <2>1 DEF MInv, TypeOK, Entry
<1>5. KeptInv'
  BY <1>2 DEF MInv, KeptInv
<1>6. ViewInv'
  BY <1>3 DEF MInv, ViewInv, Made, Key, Keyed
<1>7. \A x : Has(x) => Has(x)'
  BY <1>2 DEF Has
<1>8. RaceInv'
  BY <1>2, <1>3, <1>7 DEF MInv, RaceInv, Key
<1> QED
  BY <1>4, <1>5, <1>6, <1>8 DEF MInv

\* A view is made.
LEMMA ComputeMInv == ASSUME MInv, NEW t \in Threads, Compute(t) PROVE MInv'
<1> DEFINE v == [session |-> req[t].session, sight |-> req[t].sight, edited |-> FALSE]
           l == IF Key(t) = None THEN "returned" ELSE "insert"
<1>1. req[t] \in Request /\ req[t].session \in Sessions /\ req[t].sight \in Sights
  BY DEF Compute, MInv, ViewInv, Request
<1>2. v \in View /\ v.session = req[t].session /\ v.sight = req[t].sight /\ ~v.edited
  BY <1>1 DEF View
<1>3. /\ pc' \in [Threads -> Places] /\ pc'[t] = l /\ view'[t] = v
      /\ view' \in [Threads -> View \cup {None}] /\ req' = req
      /\ \A u \in Threads \ {t} : pc'[u] = pc[u] /\ view'[u] = view[u]
  BY <1>2 DEF Compute, Goto, MInv, TypeOK, Places, Resting
<1>4. held \subseteq held' /\ <<req[t].session, req[t].sight>> \in held' /\ held' \subseteq Keys
  BY <1>1 DEF Compute, MInv, TypeOK, Keys
<1>5. TypeOK'
  BY <1>3, <1>4 DEF Compute, MInv, TypeOK
<1>6. KeptInv'
  BY <1>4 DEF Compute, MInv, KeptInv
<1>7. ViewInv'
  <2> SUFFICES ASSUME NEW u \in Threads
               PROVE  /\ pc'[u] \notin {"idle"} => req[u] \in Request
                      /\ pc'[u] \in Keyed \cup {"returned"} => Made(view[u], req[u])'
                      /\ pc'[u] \in Keyed => Fingerprint(req[u]) # None
                      /\ pc'[u] = "insert" => ~view'[u].edited
    BY <1>3 DEF ViewInv, Key
  <2>1. CASE u = t
    BY <1>1, <1>2, <1>3, <1>4, <2>1 DEF Made, Key, Keyed
  <2>2. CASE u # t
    BY <1>3, <1>4, <2>2 DEF MInv, ViewInv, Made, Key
  <2> QED
    BY <2>1, <2>2
<1>8. RaceInv'
  BY <1>3 DEF Compute, MInv, RaceInv, Has, Key
<1> QED
  BY <1>5, <1>6, <1>7, <1>8 DEF MInv

\* The steps that only go on to another place.
LEMMA GoMInv ==
  ASSUME MInv, NEW t \in Threads, ComputeNone(t) \/ Uncopyable(t) \/ Trim(t)
  PROVE  MInv'
<1>1. PICK l \in {"nothing", "returned", "pop"} :
        /\ Goto(t, l)
        /\ l \in {"returned", "pop"} => pc[t] \in Keyed
        /\ l = "pop" => Full
        /\ pc[t] # "idle"
  BY DEF ComputeNone, Uncopyable, Trim, Keyed
<1>2. UNCHANGED <<max_entries, results, req, view, held, raced, alone, recent>>
  BY DEF ComputeNone, Uncopyable, Trim
<1>3. pc' \in [Threads -> Places] /\ pc'[t] = l /\ \A u \in Threads \ {t} : pc'[u] = pc[u]
  BY <1>1 DEF Goto, MInv, TypeOK, Places, Resting
<1>4. Full => results # <<>>
  BY MemoAssumption DEF Full, Limit, MInv, TypeOK
<1>5. TypeOK' /\ KeptInv'
  BY <1>2, <1>3 DEF MInv, TypeOK, KeptInv
<1>6. ViewInv'
  BY <1>1, <1>2, <1>3 DEF MInv, ViewInv, Made, Key, Keyed
<1>7. RaceInv'
  BY <1>1, <1>2, <1>3, <1>4 DEF MInv, RaceInv, Has, Key
<1> QED
  BY <1>5, <1>6, <1>7 DEF MInv

\* A result is put.
LEMMA InsertMInv == ASSUME MInv, NEW t \in Threads, Insert(t) PROVE MInv'
<1> DEFINE e == CopyKept(t)
<1>1. /\ Key(t) \in Keys /\ Key(t) = <<req[t].session, req[t].sight>>
      /\ Made(view[t], req[t]) /\ ~view[t].edited
  BY KeyedType DEF Insert, MInv, ViewInv, Keyed
<1>2. /\ e \in Entry /\ e.key = Key(t) /\ e.view = view[t] /\ e.sharers = {}
  BY <1>1 DEF CopyKept, Entry, Made
<1> HIDE DEF e
<1>3. /\ results' \in Seq(Entry) /\ results' # <<>>
      /\ \A j \in DOMAIN results' : results'[j] = e \/ \E i \in DOMAIN results : results'[j] = results[i]
      /\ \E j \in DOMAIN results' : results'[j] = e
      /\ \A i \in DOMAIN results : \E j \in DOMAIN results' : results'[j].key = results[i].key
  <2>1. results' = Assigned(e) /\ TypeOK
    BY DEF Insert, MInv, e
  <2>2. /\ Assigned(e) \in Seq(Entry) /\ Assigned(e) # <<>>
        /\ \A j \in DOMAIN Assigned(e) :
             Assigned(e)[j] = e \/ \E i \in DOMAIN results : Assigned(e)[j] = results[i]
        /\ \E j \in DOMAIN Assigned(e) : Assigned(e)[j] = e
        /\ \A i \in DOMAIN results : \E j \in DOMAIN Assigned(e) :
             Assigned(e)[j].key = results[i].key
    BY <1>2, <2>1, AssignedProperties
  <2> QED
    BY <2>1, <2>2
<1>4. pc' \in [Threads -> Places] /\ pc'[t] = "settle" /\ \A u \in Threads \ {t} : pc'[u] = pc[u]
  BY DEF Insert, Goto, MInv, TypeOK, Places, Resting
<1>5. TypeOK'
  BY <1>3, <1>4 DEF Insert, MInv, TypeOK, Entry
<1>6. KeptInv'
  <2> SUFFICES ASSUME NEW j \in DOMAIN results'
               PROVE  /\ results'[j].key = <<results'[j].view.session, results'[j].view.sight>>
                      /\ results'[j].key \in held
                      /\ ~results'[j].view.edited /\ results'[j].sharers = {}
    BY DEF KeptInv, Insert
  <2>1. CASE results'[j] = e
    BY <1>1, <1>2, <2>1 DEF Made
  <2>2. CASE \E i \in DOMAIN results : results'[j] = results[i]
    BY <2>2 DEF MInv, KeptInv
  <2> QED
    BY <1>3, <2>1, <2>2
<1>7. ViewInv'
  BY <1>4 DEF Insert, MInv, ViewInv, Made, Key, Keyed
<1>8. Has(Key(t))' /\ \A x : Has(x) => Has(x)'
  <2>1. Key(t)' = Key(t)
    BY DEF Insert, Key
  <2> QED
    BY <1>2, <1>3, <2>1 DEF Has
<1>9. RaceInv'
  BY <1>3, <1>4, <1>8 DEF Insert, MInv, RaceInv, Key
<1> QED
  BY <1>5, <1>6, <1>7, <1>9 DEF MInv

\* An entry goes: from now on other threads that are in a call may raise.
LEMMA PopMInv == ASSUME MInv, NEW t \in Threads, Pop(t) PROVE MInv'
<1>1. results \in Seq(Entry) /\ results # <<>>
  BY DEF Pop, MInv, TypeOK, Entry
<1>2. /\ results' \in Seq(Entry)
      /\ \A j \in DOMAIN results' : \E i \in DOMAIN results : results'[j] = results[i]
  <2>1. /\ Tail(results) \in Seq(Entry) /\ Len(Tail(results)) = Len(results) - 1
        /\ \A j \in 1 .. Len(Tail(results)) : Tail(results)[j] = results[j + 1]
    BY <1>1, HeadTailProperties
  <2>2. \A j \in 1 .. Len(Tail(results)) : j + 1 \in DOMAIN results
    BY <1>1, <2>1
  <2> QED
    BY <2>1, <2>2 DEF Pop
<1>3. pc' \in [Threads -> Places] /\ pc'[t] = "trim" /\ \A u \in Threads \ {t} : pc'[u] = pc[u]
  BY DEF Pop, Goto, MInv, TypeOK, Places, Resting
<1>4. TypeOK'
  BY <1>2, <1>3 DEF Pop, MInv, TypeOK, Entry
<1>5. KeptInv'
  BY <1>2 DEF Pop, MInv, KeptInv
<1>6. ViewInv'
  BY <1>3 DEF Pop, MInv, ViewInv, Made, Key, Keyed
<1>7. RaceInv'
  <2> SUFFICES ASSUME NEW u \in Threads, u \notin raced', u # t
               PROVE  pc'[u] \notin {"touch", "settle", "pop", "raised"}
    BY <1>3 DEF RaceInv
  <2>1. u \notin raced /\ pc[u] \in Resting
    BY DEF Pop
  <2> QED
    BY <1>3, <2>1 DEF MInv, RaceInv, Resting
<1> QED
  BY <1>4, <1>5, <1>6, <1>7 DEF MInv

\* What is looked for is gone.
LEMMA KeyErrorMInv == ASSUME MInv, NEW t \in Threads, KeyError(t) PROVE MInv'
<1>1. t \in raced /\ pc[t] # "idle"
  BY DEF KeyError, MInv, RaceInv
<1>2. /\ pc' \in [Threads -> Places] /\ pc'[t] = "raised"
      /\ view' \in [Threads -> View \cup {None}]
      /\ \A u \in Threads \ {t} : pc'[u] = pc[u] /\ view'[u] = view[u]
  BY DEF KeyError, Goto, MInv, TypeOK, Places, Resting
<1>3. TypeOK' /\ KeptInv'
  BY <1>2 DEF KeyError, MInv, TypeOK, KeptInv
<1>4. ViewInv'
  BY <1>1, <1>2 DEF KeyError, MInv, ViewInv, Made, Key, Keyed
<1>5. RaceInv'
  BY <1>1, <1>2 DEF KeyError, MInv, RaceInv, Has, Key
<1> QED
  BY <1>3, <1>4, <1>5 DEF MInv

\* The host edits its view.
LEMMA EditMInv == ASSUME MInv, NEW t \in Threads, Edit(t) PROVE MInv'
<1>1. results' = results
  BY Unshared DEF Edit
<1>2. Made(view[t], req[t])
  BY DEF Edit, MInv, ViewInv
<1>3. /\ view'[t] = [view[t] EXCEPT !.edited = TRUE]
      /\ \A u \in Threads \ {t} : view'[u] = view[u]
      /\ view'[t] \in View /\ view'[t].session = view[t].session /\ view'[t].sight = view[t].sight
  BY <1>2 DEF Edit, MInv, TypeOK, View, Made
<1>4. view' \in [Threads -> View \cup {None}]
  BY <1>3 DEF Edit, MInv, TypeOK
<1>5. TypeOK' /\ KeptInv'
  BY <1>1, <1>4 DEF Edit, MInv, TypeOK, KeptInv
<1>6. ViewInv'
  BY <1>2, <1>3 DEF Edit, MInv, ViewInv, Made, Key, Keyed
<1>7. RaceInv'
  BY <1>1 DEF Edit, MInv, RaceInv, Has, Key
<1> QED
  BY <1>5, <1>6, <1>7 DEF MInv

LEMMA StutterMInv == MInv /\ UNCHANGED vars => MInv'
  BY DEF vars, MInv, TypeOK, KeptInv, ViewInv, Made, RaceInv, Has, Key

LEMMA NextMInv == MInv /\ [Next]_vars => MInv'
<1> SUFFICES ASSUME MInv, Next PROVE MInv'
  BY StutterMInv
<1>1. ASSUME NEW t \in Threads, NEW r \in Requests, Call(t, r) PROVE MInv'
  BY <1>1, CallMInv
<1>2. ASSUME NEW t \in Threads, Touch(t) PROVE MInv'
  BY <1>2, MoveMInv DEF Touch
<1>3. ASSUME NEW t \in Threads, Settle(t) PROVE MInv'
  BY <1>3, MoveMInv DEF Settle
<1>4. ASSUME NEW t \in Threads, ComputeNone(t) \/ Uncopyable(t) \/ Trim(t) PROVE MInv'
  BY <1>4, GoMInv
<1> QED
  BY <1>1, <1>2, <1>3, <1>4, ComputeMInv, InsertMInv, PopMInv, KeyErrorMInv, EditMInv DEF Next

-----------------------------------------------------------------------------
(* The theorems *)

THEOREM SpecMInv == Spec => []MInv
  BY InitMInv, NextMInv, PTL DEF Spec

\* The variables of the memo keep to their types.
THEOREM MemoTypes == Spec => []TypeOK
<1>1. MInv => TypeOK
  BY DEF MInv
<1> QED
  BY SpecMInv, <1>1, PTL

\* Every call returns a view of its own session and request, and what is kept stays
\* as it was made, for any number of threads and any limit.
THEOREM ViewsAreOwn == Spec => []OwnView
<1>1. MInv => OwnView
  BY DEF MInv, ViewInv, KeptInv, Made, OwnView, Keyed
<1> QED
  BY SpecMInv, <1>1, PTL

\* No call raises unless another thread has evicted an entry during it.
THEOREM RaisingNeedsARace == Spec => []OnlyRacesRaise
<1>1. MInv => OnlyRacesRaise
  BY DEF MInv, RaceInv, OnlyRacesRaise
<1> QED
  BY SpecMInv, <1>1, PTL

-----------------------------------------------------------------------------
(* How many entries there are *)

\* The calls that are evicting, and the keys of those that are about to, as far as
\* their entry is still there.
Evicting == {t \in Threads : pc[t] \in {"trim", "pop"}}
Settling == {t \in Threads : pc[t] = "settle" /\ Has(Key(t))}
Waiting  == {Key(t) : t \in Settling}

\* Two calls may wait with one entry, and lose it together; one entry has gone then.
CapInv == Len(results) <= Limit + Cardinality(Evicting) + Cardinality(Waiting)

LEMMA ImageSize ==
  ASSUME NEW S, IsFiniteSet(S), NEW f
  PROVE  /\ IsFiniteSet({f[x] : x \in S}) /\ Cardinality({f[x] : x \in S}) <= Cardinality(S)
<1> DEFINE T == {f[x] : x \in S}
           g == [x \in S |-> f[x]]
<1>1. g \in Surjection(S, T)
  BY DEF Surjection
<1> QED
  BY <1>1, FS_Surjection

LEMMA CapSizes ==
  /\ IsFiniteSet(Evicting) /\ Cardinality(Evicting) \in Nat
  /\ IsFiniteSet(Settling) /\ Cardinality(Settling) \in Nat
  /\ IsFiniteSet(Waiting) /\ Cardinality(Waiting) \in Nat
  /\ Cardinality(Waiting) <= Cardinality(Settling)
<1>1. Evicting \subseteq Threads /\ Settling \subseteq Threads
  BY DEF Evicting, Settling
<1>2. IsFiniteSet(Evicting) /\ IsFiniteSet(Settling)
  BY <1>1, MemoAssumption, FS_Subset
<1> DEFINE f == [t \in Threads |-> Key(t)]
<1>3. Waiting = {f[t] : t \in Settling}
  BY <1>1 DEF Waiting
<1> HIDE DEF f
<1>4. IsFiniteSet(Waiting) /\ Cardinality(Waiting) <= Cardinality(Settling)
  BY <1>2, <1>3, ImageSize
<1> QED
  BY <1>2, <1>4, FS_CardinalityType

LEMMA CapSizesNext ==
  /\ IsFiniteSet(Evicting') /\ Cardinality(Evicting') \in Nat
  /\ IsFiniteSet(Waiting') /\ Cardinality(Waiting') \in Nat
<1>1. Evicting' \subseteq Threads /\ Settling' \subseteq Threads
  BY DEF Evicting, Settling
<1>2. IsFiniteSet(Evicting') /\ IsFiniteSet(Settling')
  BY <1>1, MemoAssumption, FS_Subset
<1> DEFINE f == [t \in Threads |-> Key(t)']
<1>3. Waiting' = {f[t] : t \in Settling'}
  BY <1>1 DEF Waiting
<1> HIDE DEF f
<1>4. IsFiniteSet(Waiting')
  BY <1>2, <1>3, ImageSize
<1> QED
  BY <1>2, <1>4, FS_CardinalityType

\* A set that has lost no more than one element.
LEMMA LosesOne ==
  ASSUME NEW S, NEW T, NEW x, IsFiniteSet(S), IsFiniteSet(T), S \subseteq T \cup {x}
  PROVE  Cardinality(S) <= Cardinality(T) + 1
<1>1. /\ IsFiniteSet(T \cup {x})
      /\ Cardinality(T \cup {x}) = IF x \in T THEN Cardinality(T) ELSE Cardinality(T) + 1
  BY FS_AddElement
<1>2. Cardinality(S) <= Cardinality(T \cup {x})
  BY <1>1, FS_Subset
<1>3. Cardinality(S) \in Nat /\ Cardinality(T) \in Nat
  BY FS_CardinalityType
<1> QED
  BY <1>1, <1>2, <1>3

LEMMA LimitType == ASSUME TypeOK PROVE Limit \in Nat \ {0} /\ Len(results) \in Nat
<1>1. max_entries \in Nat
  BY MemoAssumption DEF TypeOK
<1>2. Len(results) \in Nat
  BY DEF TypeOK
<1> QED
  BY <1>1, <1>2 DEF Limit

\* A step that takes no eviction away keeps the bound.
LEMMA SameCap ==
  ASSUME TypeOK, CapInv, max_entries' = max_entries, Len(results') = Len(results),
         Evicting \subseteq Evicting', Waiting \subseteq Waiting'
  PROVE  CapInv'
<1>1. /\ Cardinality(Evicting) <= Cardinality(Evicting')
      /\ Cardinality(Waiting) <= Cardinality(Waiting')
  BY CapSizesNext, FS_Subset
<1> QED
  BY <1>1, CapSizes, CapSizesNext, LimitType DEF CapInv, Limit

\* What a step of one thread leaves to the others.
LEMMA OthersKeep ==
  ASSUME TypeOK, NEW t \in Threads, NEW l, Goto(t, l),
         \A u \in Threads \ {t} : req'[u] = req[u]
  PROVE  /\ pc'[t] = l /\ \A u \in Threads \ {t} : pc'[u] = pc[u]
         /\ \A u \in Threads \ {t} : Key(u)' = Key(u)
         /\ pc[t] \notin {"trim", "pop"} \/ l \in {"trim", "pop"} => Evicting \subseteq Evicting'
<1>1. pc'[t] = l /\ \A u \in Threads \ {t} : pc'[u] = pc[u]
  BY DEF TypeOK, Goto
<1>2. \A u \in Threads \ {t} : Key(u)' = Key(u)
  BY DEF Key
<1> QED
  BY <1>1, <1>2 DEF Evicting

\* The keys that wait still do unless their entry goes or the thread settles.
LEMMA WaitingKept ==
  ASSUME NEW t \in Threads, pc[t] # "settle" \/ ~Has(Key(t)),
         \A u \in Threads \ {t} : pc'[u] = pc[u] /\ Key(u)' = Key(u),
         \A k : Has(k) => Has(k)'
  PROVE  Waiting \subseteq Waiting'
<1> SUFFICES ASSUME NEW u \in Settling PROVE Key(u) \in Waiting'
  BY DEF Waiting
<1>1. u \in Threads \ {t} /\ pc[u] = "settle" /\ Has(Key(u))
  BY DEF Settling
<1>2. pc'[u] = "settle" /\ Key(u)' = Key(u) /\ Has(Key(u))'
  BY <1>1
<1>3. u \in Settling'
  BY <1>1, <1>2 DEF Settling
<1> QED
  BY <1>2, <1>3 DEF Waiting

\* The operations that put nothing and evict nothing.
LEMMA QuietCap ==
  ASSUME MInv, CapInv, NEW t \in Threads,
         \/ \E r \in Requests : Call(t, r)
         \/ Touch(t) \/ Compute(t) \/ ComputeNone(t) \/ Uncopyable(t) \/ Edit(t)
  PROVE  CapInv'
<1>1. TypeOK
  BY DEF MInv
<1>2. /\ pc[t] \notin {"settle", "trim", "pop"}
      /\ \A u \in Threads \ {t} : pc'[u] = pc[u] /\ req'[u] = req[u]
      /\ max_entries' = max_entries
  BY DEF MInv, TypeOK, Call, Touch, Compute, ComputeNone, Uncopyable, Edit, Goto, Resting
<1>3. /\ Len(results') = Len(results)
      /\ \A i \in DOMAIN results : \E j \in DOMAIN results' : results'[j].key = results[i].key
  <2>1. CASE Touch(t)
    <3>1. Has(Key(t)) /\ results' = Touched(Key(t))
      BY <2>1 DEF Touch
    <3> QED
      BY <1>1, <3>1, TouchedProperties
  <2>2. CASE ~Touch(t)
    <3>1. results' = results
      <4>1. CASE \E r \in Requests : Call(t, r)
        BY <4>1, Unshared DEF Call
      <4>2. CASE Compute(t) \/ ComputeNone(t) \/ Uncopyable(t)
        BY <4>2 DEF Compute, ComputeNone, Uncopyable
      <4>3. CASE Edit(t)
        BY <4>3, Unshared DEF Edit
      <4> QED
        BY <2>2, <4>1, <4>2, <4>3
    <3> QED
      BY <3>1
  <2> QED
    BY <2>1, <2>2
<1>4. \A k : Has(k) => Has(k)'
  BY <1>3 DEF Has
<1>5. Evicting \subseteq Evicting'
  BY <1>2 DEF Evicting
<1>6. Waiting \subseteq Waiting'
  <2>1. \A u \in Threads \ {t} : Key(u)' = Key(u)
    BY <1>2 DEF Key
  <2> QED
    BY <1>2, <1>4, <2>1, WaitingKept
<1> QED
  BY <1>1, <1>2, <1>3, <1>5, <1>6, SameCap

\* A new entry comes with a call that waits for its key.
LEMMA InsertCap == ASSUME MInv, CapInv, NEW t \in Threads, Insert(t) PROVE CapInv'
<1> DEFINE e == CopyKept(t)
<1>1. /\ TypeOK /\ pc[t] = "insert" /\ results' = Assigned(e) /\ max_entries' = max_entries
      /\ req' = req /\ Goto(t, "settle")
  BY DEF MInv, Insert
<1>2. e \in Entry /\ e.key = Key(t)
  BY <1>1, KeyedType DEF CopyKept, Entry, Made, Keyed
<1> HIDE DEF e
<1>3. /\ pc'[t] = "settle" /\ (\A u \in Threads \ {t} : pc'[u] = pc[u] /\ Key(u)' = Key(u))
      /\ Evicting \subseteq Evicting' /\ Key(t)' = Key(t)
  BY <1>1, OthersKeep DEF Key
<1>4. /\ Len(results') = IF Has(Key(t)) THEN Len(results) ELSE Len(results) + 1
      /\ \E j \in DOMAIN results' : results'[j] = e
      /\ \A i \in DOMAIN results : \E j \in DOMAIN results' : results'[j].key = results[i].key
  <2>1. /\ Len(Assigned(e)) = IF Has(e.key) THEN Len(results) ELSE Len(results) + 1
        /\ \E j \in DOMAIN Assigned(e) : Assigned(e)[j] = e
        /\ \A i \in DOMAIN results : \E j \in DOMAIN Assigned(e) :
             Assigned(e)[j].key = results[i].key
    BY <1>1, <1>2, AssignedProperties
  <2> QED
    BY <1>1, <1>2, <2>1
<1>5. (\A k : Has(k) => Has(k)') /\ Has(Key(t))'
  BY <1>2, <1>3, <1>4 DEF Has
<1>6. Waiting \subseteq Waiting'
  BY <1>1, <1>3, <1>5, WaitingKept
<1>7. CASE Has(Key(t))
  BY <1>1, <1>3, <1>4, <1>6, <1>7, SameCap
<1>8. CASE ~Has(Key(t))
  <2>1. Key(t) \in Waiting' /\ Key(t) \notin Waiting
    <3>1. t \in Settling'
      BY <1>3, <1>5 DEF Settling
    <3>2. Key(t) \notin Waiting
      BY <1>8 DEF Waiting, Settling
    <3> QED
      BY <1>3, <3>1, <3>2 DEF Waiting
  <2>2. /\ IsFiniteSet(Waiting \cup {Key(t)})
        /\ Cardinality(Waiting \cup {Key(t)}) = Cardinality(Waiting) + 1
    BY <2>1, CapSizes, FS_AddElement
  <2>3. Cardinality(Waiting \cup {Key(t)}) <= Cardinality(Waiting')
    <3>1. Waiting \cup {Key(t)} \subseteq Waiting'
      BY <1>6, <2>1
    <3> QED
      BY <3>1, CapSizesNext, FS_Subset
  <2>4. Cardinality(Evicting) <= Cardinality(Evicting')
    BY <1>3, CapSizesNext, FS_Subset
  <2>5. Len(results') = Len(results) + 1 /\ Limit' = Limit
    BY <1>1, <1>4, <1>8 DEF Limit
  <2> QED
    BY <1>1, <2>2, <2>3, <2>4, <2>5, CapSizes, CapSizesNext, LimitType DEF CapInv
<1> QED
  BY <1>7, <1>8

\* A call that waited goes on to evict.
LEMMA SettleCap == ASSUME MInv, CapInv, NEW t \in Threads, Settle(t) PROVE CapInv'
<1>1. /\ TypeOK /\ pc[t] = "settle" /\ Has(Key(t)) /\ results' = Touched(Key(t))
      /\ max_entries' = max_entries /\ req' = req /\ Goto(t, "trim")
  BY DEF MInv, Settle
<1>2. /\ pc'[t] = "trim" /\ (\A u \in Threads \ {t} : pc'[u] = pc[u] /\ Key(u)' = Key(u))
  BY <1>1, OthersKeep
<1>3. /\ Len(results') = Len(results)
      /\ \A i \in DOMAIN results : \E j \in DOMAIN results' : results'[j] = results[i]
  BY <1>1, TouchedProperties
<1>4. \A k : Has(k) => Has(k)'
  BY <1>3 DEF Has
<1>5. Waiting \subseteq Waiting' \cup {Key(t)}
  <2> SUFFICES ASSUME NEW u \in Settling, u # t PROVE Key(u) \in Waiting'
    BY DEF Waiting
  <2>1. u \in Settling' /\ Key(u)' = Key(u)
    BY <1>2, <1>4 DEF Settling
  <2> QED
    BY <2>1 DEF Waiting
<1>6. Cardinality(Waiting) <= Cardinality(Waiting') + 1
  BY <1>5, CapSizes, CapSizesNext, LosesOne
<1>7. Cardinality(Evicting) + 1 <= Cardinality(Evicting')
  <2>1. t \notin Evicting /\ Evicting \cup {t} \subseteq Evicting'
    BY <1>1, <1>2 DEF Evicting
  <2>2. IsFiniteSet(Evicting \cup {t}) /\ Cardinality(Evicting \cup {t}) = Cardinality(Evicting) + 1
    BY <2>1, CapSizes, FS_AddElement
  <2> QED
    BY <2>1, <2>2, CapSizesNext, FS_Subset
<1>8. Limit' = Limit
  BY <1>1 DEF Limit
<1> QED
  BY <1>1, <1>3, <1>6, <1>7, <1>8, CapSizes, CapSizesNext, LimitType DEF CapInv

\* A call stops evicting only when the memo is within its limit.
LEMMA TrimCap == ASSUME MInv, CapInv, NEW t \in Threads, Trim(t) PROVE CapInv'
<1>1. /\ TypeOK /\ pc[t] = "trim" /\ results' = results /\ max_entries' = max_entries
      /\ req' = req /\ Goto(t, IF Full THEN "pop" ELSE "returned")
  BY DEF MInv, Trim
<1>2. CASE Full
  <2>1. Goto(t, "pop")
    BY <1>1, <1>2
  <2>2. /\ \A u \in Threads \ {t} : pc'[u] = pc[u] /\ Key(u)' = Key(u)
        /\ Evicting \subseteq Evicting'
    BY <1>1, <2>1, OthersKeep
  <2>3. \A k : Has(k) => Has(k)'
    BY <1>1 DEF Has
  <2>4. Waiting \subseteq Waiting'
    BY <1>1, <2>2, <2>3, WaitingKept
  <2> QED
    BY <1>1, <2>2, <2>4, SameCap
<1>3. CASE ~Full
  <2>1. Len(results') <= Limit' /\ Limit' \in Nat /\ Len(results') \in Nat
    BY <1>1, <1>3, LimitType DEF Full, Limit
  <2> QED
    BY <2>1, CapSizesNext DEF CapInv
<1> QED
  BY <1>2, <1>3

\* The entry that goes leaves at most one key waiting for nothing.
LEMMA PopCap == ASSUME MInv, CapInv, NEW t \in Threads, Pop(t) PROVE CapInv'
<1>1. /\ TypeOK /\ pc[t] = "pop" /\ results # <<>> /\ results' = Tail(results)
      /\ max_entries' = max_entries /\ req' = req /\ Goto(t, "trim")
  BY DEF MInv, Pop
<1>2. /\ pc'[t] = "trim" /\ (\A u \in Threads \ {t} : pc'[u] = pc[u] /\ Key(u)' = Key(u))
      /\ Evicting \subseteq Evicting'
  BY <1>1, OthersKeep
<1>3. results \in Seq(Entry)
  BY <1>1 DEF TypeOK, Entry
<1>4. /\ Len(results') = Len(results) - 1 /\ Len(results) \in Nat \ {0}
      /\ DOMAIN results = 1 .. Len(results) /\ DOMAIN results' = 1 .. Len(results) - 1
      /\ \A j \in 1 .. Len(results) - 1 : results'[j] = results[j + 1]
  BY <1>1, <1>3
<1>5. \A k : Has(k) /\ k # results[1].key => Has(k)'
  <2> SUFFICES ASSUME NEW i \in DOMAIN results, results[i].key # results[1].key
               PROVE  \E j \in DOMAIN results' : results'[j].key = results[i].key
    BY DEF Has
  <2>1. i - 1 \in 1 .. Len(results) - 1 /\ i - 1 + 1 = i
    BY <1>4
  <2> QED
    BY <1>4, <2>1
<1>6. Waiting \subseteq Waiting' \cup {results[1].key}
  <2> SUFFICES ASSUME NEW u \in Settling, Key(u) # results[1].key PROVE Key(u) \in Waiting'
    BY DEF Waiting
  <2>1. u \in Threads \ {t} /\ pc[u] = "settle" /\ Has(Key(u))
    BY <1>1 DEF Settling
  <2>2. u \in Settling' /\ Key(u)' = Key(u)
    BY <1>2, <1>5, <2>1 DEF Settling
  <2> QED
    BY <2>2 DEF Waiting
<1>7. Cardinality(Waiting) <= Cardinality(Waiting') + 1
  BY <1>6, CapSizes, CapSizesNext, LosesOne
<1>8. Cardinality(Evicting) <= Cardinality(Evicting')
  BY <1>2, CapSizesNext, FS_Subset
<1>9. Limit' = Limit
  BY <1>1 DEF Limit
<1> QED
  BY <1>1, <1>4, <1>7, <1>8, <1>9, CapSizes, CapSizesNext, LimitType DEF CapInv

\* A call that raises has no entry to wait for, or there are none.
LEMMA KeyErrorCap == ASSUME MInv, CapInv, NEW t \in Threads, KeyError(t) PROVE CapInv'
<1>1. /\ TypeOK /\ results' = results /\ max_entries' = max_entries
      /\ req' = req /\ Goto(t, "raised")
  BY DEF MInv, KeyError
<1>2. CASE pc[t] = "pop"
  <2>1. results = <<>>
    BY <1>2 DEF KeyError
  <2>2. Len(results') = 0 /\ Limit' \in Nat
    BY <1>1, <2>1, LimitType DEF Limit
  <2> QED
    BY <2>2, CapSizesNext DEF CapInv
<1>3. CASE pc[t] # "pop"
  <2>1. pc[t] \in {"touch", "settle"} /\ ~Has(Key(t))
    BY <1>3 DEF KeyError
  <2>2. /\ \A u \in Threads \ {t} : pc'[u] = pc[u] /\ Key(u)' = Key(u)
        /\ Evicting \subseteq Evicting'
    BY <1>1, <2>1, OthersKeep
  <2>3. \A k : Has(k) => Has(k)'
    BY <1>1 DEF Has
  <2>4. Waiting \subseteq Waiting'
    BY <2>1, <2>2, <2>3, WaitingKept
  <2> QED
    BY <1>1, <2>2, <2>4, SameCap
<1> QED
  BY <1>2, <1>3

LEMMA InitCap == Init => CapInv
<1> SUFFICES ASSUME Init PROVE CapInv
  OBVIOUS
<1>1. TypeOK
  BY InitMInv DEF MInv
<1>2. Len(results) = 0
  BY DEF Init
<1> QED
  BY <1>1, <1>2, CapSizes, LimitType DEF CapInv

LEMMA NextCap == MInv /\ CapInv /\ [Next]_vars => CapInv'
<1> SUFFICES ASSUME MInv, CapInv, [Next]_vars PROVE CapInv'
  OBVIOUS
<1>1. CASE UNCHANGED vars
  BY <1>1 DEF vars, CapInv, Limit, Evicting, Waiting, Settling, Has, Key
<1>2. CASE Next
  BY <1>2, QuietCap, InsertCap, SettleCap, TrimCap, PopCap, KeyErrorCap DEF Next
<1> QED
  BY <1>1, <1>2

\* The memo is over its limit by no more than one entry for each call that has put its
\* result and is not through with evicting, for any number of threads and any limit,
\* also when calls raise before they have evicted anything.
THEOREM OverfullOnlyByCalls == Spec => []Capacity
<1>1. ASSUME CapInv, TypeOK PROVE Capacity
  <2> DEFINE S == {t \in Threads : pc[t] \in {"settle", "trim", "pop"}}
  <2>1. Evicting \cup Settling \subseteq S /\ Evicting \cap Settling = {}
    BY DEF Evicting, Settling
  <2>2. /\ IsFiniteSet(Evicting \cup Settling)
        /\ Cardinality(Evicting \cup Settling) = Cardinality(Evicting) + Cardinality(Settling)
    <3>1. Cardinality(Evicting \cap Settling) = 0
      BY <2>1, FS_EmptySet
    <3>2. IsFiniteSet(Evicting) /\ IsFiniteSet(Settling)
      BY CapSizes
    <3>3. /\ IsFiniteSet(Evicting \cup Settling)
          /\ Cardinality(Evicting \cup Settling) =
               Cardinality(Evicting) + Cardinality(Settling) - Cardinality(Evicting \cap Settling)
      BY <3>2, FS_Union
    <3> HIDE DEF S
    <3> QED
      BY <3>1, <3>3, CapSizes
  <2>3. IsFiniteSet(S)
    <3>1. S \subseteq Threads
      OBVIOUS
    <3> QED
      BY <3>1, MemoAssumption, FS_Subset
  <2>4. Cardinality(Evicting \cup Settling) <= Cardinality(S) /\ Cardinality(S) \in Nat
    BY <2>1, <2>3, FS_Subset, FS_CardinalityType
  <2> HIDE DEF S
  <2>5. Len(results) <= Limit + Cardinality(S)
    BY <1>1, <2>2, <2>4, CapSizes, LimitType DEF CapInv
  <2> QED
    BY <2>5 DEF S, Capacity
<1>2. MInv => TypeOK
  BY DEF MInv
<1> QED
  BY SpecMInv, InitCap, NextCap, <1>1, <1>2, PTL DEF Spec

-----------------------------------------------------------------------------
(* Which entries there are *)

Working == {"settle", "trim", "pop"}

\* Nothing is used twice in the history.
Distinct == \A i, j \in DOMAIN recent : recent[i] = recent[j] => i = j

\* The first n entries are those of the n keys used last, in the same order.
Tracks(n) ==
  /\ n <= Len(results) /\ n <= Len(recent)
  /\ \A i \in 1 .. n : results[i].key = recent[Len(recent) - n + i]

Due == IF Len(recent) < Limit THEN Len(recent) ELSE Limit

RestInv == Len(results) = Due /\ Tracks(Due)

\* What a call that is on its own has to do until it is through.
TurnInv(t) ==
  /\ pc[t] \in {"compute", "insert"} => Key(t) = None \/ ~Has(Key(t))
  /\ pc[t] \notin Working => RestInv
  /\ pc[t] = "settle" =>
       /\ Len(results) = Due + 1 /\ Tracks(Due) /\ results[Due + 1].key = Key(t)
       /\ \A i \in 1 .. Due : results[i].key # Key(t)
  /\ pc[t] \in {"trim", "pop"} => Len(results) >= Due /\ Tracks(Len(results))
  /\ pc[t] = "pop" => Full

RecentInv == alone =>
  /\ Distinct
  /\ \A t, u \in Threads : pc[t] \notin Resting /\ pc[u] \notin Resting => t = u
  /\ \A t \in Threads : pc[t] \notin Resting => TurnInv(t)
  /\ (\A t \in Threads : pc[t] \in Resting) => RestInv

\* Nothing is due beyond the limit or the history.
LEMMA DueType ==
  ASSUME TypeOK
  PROVE  /\ Due \in Nat /\ Due <= Limit /\ Due <= Len(recent)
         /\ Limit \in Nat \ {0} /\ Len(results) \in Nat /\ Len(recent) \in Nat
         /\ DOMAIN results = 1 .. Len(results) /\ DOMAIN recent = 1 .. Len(recent)
<1>1. Len(recent) \in Nat /\ DOMAIN recent = 1 .. Len(recent)
  BY DEF TypeOK
<1>2. DOMAIN results = 1 .. Len(results)
  BY DEF TypeOK
<1> QED
  BY <1>1, <1>2, LimitType DEF Due

\* The history after a use: the key is its last, the others keep their order.
LEMMA UseProperties ==
  ASSUME TypeOK, alone, Distinct, NEW k \in Keys, Use(k)
  PROVE  /\ Distinct' /\ recent' \in Seq(Keys)
         /\ \A q \in DOMAIN recent : recent[q] = k =>
              /\ Len(recent') = Len(recent)
              /\ \A j \in 1 .. Len(recent) : recent'[j] =
                   IF j = Len(recent) THEN k
                   ELSE IF j < q THEN recent[j] ELSE recent[j + 1]
         /\ (\A q \in DOMAIN recent : recent[q] # k) =>
              /\ Len(recent') = Len(recent) + 1 /\ recent'[Len(recent) + 1] = k
              /\ \A j \in 1 .. Len(recent) : recent'[j] = recent[j]
<1>1. /\ recent \in Seq(Keys) /\ Len(recent) \in Nat /\ DOMAIN recent = 1 .. Len(recent)
      /\ recent' \in Seq(Keys)
  BY DueType, UseType DEF TypeOK
<1> DEFINE n == Len(recent)
<1>2. CASE \E i \in DOMAIN recent : recent[i] = k
  <2> DEFINE p == CHOOSE i \in DOMAIN recent : recent[i] = k
  <2>1. p \in DOMAIN recent /\ recent[p] = k
    BY <1>2
  <2>2. recent' = MoveToEnd(recent, p)
    BY <1>2 DEF Use
  <2> HIDE DEF p
  <2>3. /\ Len(recent') = n
        /\ \A j \in 1 .. n : recent'[j] =
             IF j = n THEN k ELSE IF j < p THEN recent[j] ELSE recent[j + 1]
    BY <1>1, <2>1, <2>2, MoveToEndProperties
  <2>4. \A q \in DOMAIN recent : recent[q] = k => q = p
    BY <2>1 DEF Distinct
  <2>5. DOMAIN recent' = 1 .. n
    BY <1>1, <2>3
  <2>6. ASSUME NEW j \in 1 .. n PROVE \E i \in 1 .. n : /\ recent'[j] = recent[i]
                                                   /\ i = IF j = n THEN p ELSE IF j < p THEN j ELSE j + 1
    <3>1. n \in Nat /\ p \in 1 .. n
      BY <1>1, <2>1
    <3> DEFINE i == IF j = n THEN p ELSE IF j < p THEN j ELSE j + 1
    <3> HIDE DEF n
    <3>2. i \in 1 .. n
      BY <3>1
    <3>3. recent'[j] = recent[i]
      BY <2>1, <2>3
    <3> QED
      BY <3>2, <3>3
  <2>7. Distinct'
    <3> SUFFICES ASSUME NEW j \in 1 .. n, NEW l \in 1 .. n, recent'[j] = recent'[l] PROVE j = l
      BY <2>5 DEF Distinct
    <3>1. PICK a \in 1 .. n : recent'[j] = recent[a] /\ a = IF j = n THEN p ELSE IF j < p THEN j ELSE j + 1
      BY <2>6
    <3>2. PICK b \in 1 .. n : recent'[l] = recent[b] /\ b = IF l = n THEN p ELSE IF l < p THEN l ELSE l + 1
      BY <2>6
    <3>3. a = b
      BY <1>1, <3>1, <3>2 DEF Distinct
    <3>4. n \in Nat /\ p \in 1 .. n
      BY <1>1, <2>1
    <3> HIDE DEF n
    <3> QED
      BY <3>1, <3>2, <3>3, <3>4
  <2> QED
    BY <1>1, <1>2, <2>1, <2>3, <2>4, <2>7
<1>3. CASE ~\E i \in DOMAIN recent : recent[i] = k
  <2>1. recent' = Append(recent, k)
    BY <1>3 DEF Use
  <2>2. /\ Len(recent') = n + 1 /\ recent'[n + 1] = k
        /\ \A j \in 1 .. n : recent'[j] = recent[j]
    BY <1>1, <2>1, AppendProperties
  <2>3. DOMAIN recent' = 1 .. n + 1
    BY <1>1, <2>2
  <2>4. Distinct'
    <3> SUFFICES ASSUME NEW j \in 1 .. n + 1, NEW l \in 1 .. n + 1, recent'[j] = recent'[l] PROVE j = l
      BY <2>3 DEF Distinct
    <3>1. n \in Nat /\ DOMAIN recent = 1 .. n
      BY <1>1
    <3>2. \A i \in 1 .. n : recent[i] # k
      BY <1>3, <3>1
    <3>3. \A i, h \in 1 .. n : recent[i] = recent[h] => i = h
      BY <3>1 DEF Distinct
    <3> HIDE DEF n
    <3>4. (j \in 1 .. n \/ j = n + 1) /\ (l \in 1 .. n \/ l = n + 1)
      BY <3>1
    <3> QED
      BY <2>2, <3>2, <3>3, <3>4
  <2> QED
    BY <1>1, <1>3, <2>2, <2>4
<1> QED
  BY <1>2, <1>3

\* A step of the one thread that is in a call.
LEMMA AfterTurn ==
  ASSUME NEW t \in Threads, alone' => \A u \in Threads \ {t} : pc'[u] \in Resting,
         alone' => Distinct',
         alone' => IF pc'[t] \in Resting THEN RestInv' ELSE TurnInv(t)'
  PROVE  RecentInv'
  BY DEF RecentInv

\* While calls do not overlap, the others rest.
LEMMA OthersRest ==
  ASSUME TypeOK, RecentInv, alone, NEW t \in Threads, pc[t] \notin Resting,
         NEW l, Goto(t, l)
  PROVE  /\ pc'[t] = l /\ \A u \in Threads \ {t} : pc'[u] \in Resting
         /\ TurnInv(t) /\ Distinct
<1>1. \A u \in Threads \ {t} : pc[u] \in Resting
  BY DEF RecentInv
<1>2. pc'[t] = l /\ \A u \in Threads \ {t} : pc'[u] = pc[u]
  BY DEF TypeOK, Goto
<1> QED
  BY <1>1, <1>2 DEF RecentInv

\* A call that begins while no other is under way finds the entries in order.
LEMMA CallRecent ==
  ASSUME MInv, RecentInv, NEW t \in Threads, NEW r \in Requests, Call(t, r) PROVE RecentInv'
<1> SUFFICES ASSUME alone' PROVE RecentInv'
  BY DEF RecentInv
<1>1. alone /\ (\A u \in Threads : pc[u] \in Resting) /\ recent' = recent /\ results' = results
      /\ max_entries' = max_entries
  BY Unshared DEF Call
<1>2. RestInv /\ Distinct
  BY <1>1 DEF RecentInv
<1>3. RestInv' /\ Distinct'
  BY <1>1, <1>2 DEF RestInv, Distinct, Tracks, Due, Limit
<1>4. /\ \A u \in Threads \ {t} : pc'[u] = pc[u]
      /\ pc'[t] = IF Fingerprint(r) # None /\ Has(Fingerprint(r)) THEN "touch" ELSE "compute"
      /\ req'[t] = r
  BY DEF MInv, TypeOK, Call, Goto
<1>5. TurnInv(t)'
  BY <1>1, <1>3, <1>4 DEF TurnInv, Has, Key, Working
<1>6. pc'[t] \notin Resting
  BY <1>4 DEF Resting
<1> QED
  BY <1>1, <1>3, <1>4, <1>5, <1>6, AfterTurn

\* The steps between the lookup and the result, and one that fails.
LEMMA GoRecent ==
  ASSUME MInv, RecentInv, NEW t \in Threads,
         Compute(t) \/ ComputeNone(t) \/ Uncopyable(t) \/ KeyError(t)
  PROVE  RecentInv'
<1> SUFFICES ASSUME alone' PROVE RecentInv'
  BY DEF RecentInv
<1>1. /\ alone /\ recent' = recent /\ results' = results /\ max_entries' = max_entries /\ req' = req
      /\ pc[t] \notin Resting /\ TypeOK
  BY DEF Compute, ComputeNone, Uncopyable, KeyError, Resting, MInv
<1>2. PICK l \in {"returned", "nothing", "raised", "insert"} :
         Goto(t, l) /\ (l = "insert" => pc[t] = "compute")
  BY DEF Compute, ComputeNone, Uncopyable, KeyError
<1>3. /\ pc'[t] = l /\ (\A u \in Threads \ {t} : pc'[u] \in Resting)
      /\ TurnInv(t) /\ Distinct
  BY <1>1, <1>2, OthersRest
<1>4. RestInv
  <2>1. CASE pc[t] \notin Working
    BY <1>3, <2>1 DEF TurnInv
  <2>2. CASE pc[t] \in Working
    <3>1. KeyError(t)
      BY <2>2 DEF Working, Compute, ComputeNone, Uncopyable
    <3>2. \/ pc[t] = "settle" /\ ~Has(Key(t))
          \/ pc[t] = "pop" /\ results = <<>>
      BY <2>2, <3>1 DEF KeyError, Working
    <3>3. CASE pc[t] = "settle" /\ ~Has(Key(t))
      <4>1. Len(results) = Due + 1 /\ results[Due + 1].key = Key(t)
        BY <1>3, <3>3 DEF TurnInv
      <4>2. Due + 1 \in DOMAIN results
        BY <1>1, <4>1, DueType
      <4> QED
        BY <3>3, <4>1, <4>2 DEF Has
    <3>4. CASE pc[t] = "pop" /\ results = <<>>
      <4>1. Len(results) > Limit
        BY <1>3, <3>4 DEF TurnInv, Full
      <4>2. Len(results) = 0
        BY <3>4
      <4> QED
        BY <1>1, <4>1, <4>2, DueType
    <3> QED
      BY <3>2, <3>3, <3>4
  <2> QED
    BY <2>1, <2>2
<1>5. RestInv' /\ Distinct'
  BY <1>1, <1>3, <1>4 DEF RestInv, Distinct, Tracks, Due, Limit
<1>6. l = "insert" => TurnInv(t)'
  BY <1>1, <1>2, <1>3, <1>5 DEF TurnInv, Has, Key, Working
<1>7. l # "insert" => pc'[t] \in Resting
  BY <1>2, <1>3 DEF Resting
<1>8. l = "insert" => pc'[t] \notin Resting
  BY <1>3 DEF Resting
<1> QED
  BY <1>3, <1>5, <1>6, <1>7, <1>8, AfterTurn

\* A hit moves the key to the end of both.
LEMMA TouchRecent == ASSUME MInv, RecentInv, NEW t \in Threads, Touch(t) PROVE RecentInv'
<1> SUFFICES ASSUME alone' PROVE RecentInv'
  BY DEF RecentInv
<1>0. PICK k, n, m : k = Key(t) /\ n = Len(results) /\ m = Len(recent)
  OBVIOUS
<1>1. /\ TypeOK /\ alone /\ pc[t] = "touch" /\ Has(k) /\ results' = Touched(k) /\ Use(k)
      /\ max_entries' = max_entries /\ Goto(t, "returned")
  BY <1>0 DEF MInv, Touch
<1>2. k \in Keys
  BY <1>0, <1>1, KeyedType DEF Keyed
<1>3. /\ pc'[t] = "returned" /\ (\A u \in Threads \ {t} : pc'[u] \in Resting)
      /\ TurnInv(t) /\ Distinct
  BY <1>1, OthersRest DEF Resting
<1>4. n = Due /\ Tracks(n)
  BY <1>0, <1>1, <1>3 DEF TurnInv, Working, RestInv
<1>5. /\ Place(k) \in 1 .. n /\ results[Place(k)].key = k /\ n \in Nat /\ m \in Nat /\ n <= m
      /\ DOMAIN recent = 1 .. m
  BY <1>0, <1>1, <1>4, PlaceType, DueType
<1>6. PICK p, q : p = Place(k) /\ q = m - n + p
  OBVIOUS
<1>7. q \in 1 .. m /\ recent[q] = k
  BY <1>0, <1>4, <1>5, <1>6 DEF Tracks
<1>8. /\ Distinct' /\ Len(recent') = m
      /\ \A j \in 1 .. m : recent'[j] =
           IF j = m THEN k ELSE IF j < q THEN recent[j] ELSE recent[j + 1]
  <2>1. q \in DOMAIN recent
    BY <1>5, <1>7
  <2> QED
    BY <1>0, <1>1, <1>2, <1>3, <1>7, <2>1, UseProperties
<1>9. /\ Len(results') = n
      /\ \A j \in 1 .. n : results'[j] =
           IF j = n THEN results[p] ELSE IF j < p THEN results[j] ELSE results[j + 1]
  BY <1>0, <1>1, <1>6, TouchedProperties
<1>10. Tracks(n)'
  <2> SUFFICES ASSUME NEW i \in 1 .. n PROVE results'[i].key = recent'[m - n + i]
    BY <1>0, <1>5, <1>8, <1>9 DEF Tracks
  <2>1. \A j \in 1 .. n : results[j].key = recent[m - n + j]
    BY <1>0, <1>4 DEF Tracks
  <2>2. m - n + i \in 1 .. m
    BY <1>5
  <2>3. CASE i = n
    <3>1. m - n + i = m
      BY <1>5, <2>3
    <3> QED
      BY <1>5, <1>8, <1>9, <1>6, <2>2, <2>3, <3>1
  <2>4. CASE i # n /\ i < p
    <3>1. m - n + i # m /\ m - n + i < q
      BY <1>5, <1>6, <2>4
    <3> QED
      BY <1>8, <1>9, <2>1, <2>2, <2>4, <3>1
  <2>5. CASE i # n /\ ~(i < p)
    <3>1. m - n + i # m /\ ~(m - n + i < q) /\ i + 1 \in 1 .. n /\ m - n + (i + 1) = m - n + i + 1
      BY <1>5, <1>6, <2>5
    <3>2. results'[i] = results[i + 1]
      BY <1>9, <2>5
    <3>3. recent'[m - n + i] = recent[m - n + i + 1]
      BY <1>8, <2>2, <3>1
    <3> QED
      BY <2>1, <3>1, <3>2, <3>3
  <2> QED
    BY <2>3, <2>4, <2>5
<1>11. RestInv'
  <2>1. Due' = Due
    BY <1>0, <1>1, <1>8 DEF Due, Limit
  <2> QED
    BY <1>4, <1>9, <1>10, <2>1 DEF RestInv
<1>12. pc'[t] \in Resting
  BY <1>3 DEF Resting
<1> QED
  BY <1>3, <1>8, <1>11, <1>12, AfterTurn

\* A result that is put comes last; its key was not there, and is not among the due.
LEMMA InsertRecent == ASSUME MInv, RecentInv, NEW t \in Threads, Insert(t) PROVE RecentInv'
<1> SUFFICES ASSUME alone' PROVE RecentInv'
  BY DEF RecentInv
<1>0. PICK k, n, e : k = Key(t) /\ n = Len(results) /\ e = CopyKept(t)
  OBVIOUS
<1>1. /\ TypeOK /\ alone /\ pc[t] = "insert" /\ results' = Assigned(e) /\ req' = req
      /\ max_entries' = max_entries /\ recent' = recent /\ Goto(t, "settle")
  BY <1>0 DEF MInv, Insert
<1>2. k \in Keys /\ e \in Entry /\ e.key = k
  BY <1>0, <1>1, KeyedType DEF CopyKept, Entry, Made, Keyed
<1>3. /\ pc'[t] = "settle" /\ (\A u \in Threads \ {t} : pc'[u] \in Resting)
      /\ TurnInv(t) /\ Distinct
  BY <1>1, OthersRest DEF Resting
<1>4. ~Has(k) /\ n = Due /\ Tracks(Due)
  <2>1. k # None
    BY <1>0, <1>1 DEF MInv, ViewInv, Keyed
  <2> QED
    BY <1>0, <1>1, <1>3, <2>1 DEF TurnInv, Working, RestInv
<1>5. results' = Append(results, e)
  BY <1>1, <1>2, <1>4 DEF Assigned
<1>6. results \in Seq(Entry)
  BY <1>1 DEF TypeOK, Entry
<1>7. /\ Len(results') = n + 1 /\ results'[n + 1] = e
      /\ \A j \in 1 .. n : results'[j] = results[j]
  BY <1>0, <1>2, <1>5, <1>6, AppendProperties
<1>8. Due' = Due /\ Distinct' /\ Key(t)' = k
  BY <1>0, <1>1, <1>3 DEF Due, Limit, Distinct, Key
<1>9. n \in Nat /\ n <= Len(recent) /\ DOMAIN results = 1 .. n
  BY <1>0, <1>1, <1>4, DueType
<1>10. \A i \in 1 .. n : results'[i].key # k
  BY <1>4, <1>7, <1>9 DEF Has
<1>11. Tracks(Due)'
  <2>1. \A i \in 1 .. n : results[i].key = recent[Len(recent) - n + i]
    BY <1>4 DEF Tracks
  <2>2. n <= Len(results')
    BY <1>7, <1>9
  <2> QED
    BY <1>1, <1>4, <1>7, <1>8, <1>9, <2>1, <2>2 DEF Tracks
<1>12. TurnInv(t)'
  BY <1>2, <1>3, <1>4, <1>7, <1>8, <1>10, <1>11 DEF TurnInv, Working
<1>13. pc'[t] \notin Resting
  BY <1>3 DEF Resting
<1> QED
  BY <1>3, <1>8, <1>12, <1>13, AfterTurn

\* Then its key is used: it becomes the last of the history as well.
LEMMA SettleRecent == ASSUME MInv, RecentInv, NEW t \in Threads, Settle(t) PROVE RecentInv'
<1> SUFFICES ASSUME alone' PROVE RecentInv'
  BY DEF RecentInv
<1>0. PICK k, n, m : k = Key(t) /\ n = Due /\ m = Len(recent)
  OBVIOUS
<1>1. /\ TypeOK /\ alone /\ pc[t] = "settle" /\ Has(k) /\ results' = Touched(k) /\ Use(k)
      /\ max_entries' = max_entries /\ Goto(t, "trim")
  BY <1>0 DEF MInv, Settle
<1>2. k \in Keys
  BY <1>0, <1>1, KeyedType DEF Keyed
<1>3. /\ pc'[t] = "trim" /\ (\A u \in Threads \ {t} : pc'[u] \in Resting)
      /\ TurnInv(t) /\ Distinct
  BY <1>1, OthersRest DEF Resting
<1>4. /\ Len(results) = n + 1 /\ Tracks(n) /\ results[n + 1].key = k
      /\ \A i \in 1 .. n : results[i].key # k
  BY <1>0, <1>1, <1>3 DEF TurnInv
<1>5. /\ n \in Nat /\ m \in Nat /\ n <= m /\ DOMAIN recent = 1 .. m
      /\ DOMAIN results = 1 .. n + 1
      /\ n = IF m < Limit THEN m ELSE Limit
  BY <1>0, <1>1, <1>4, DueType DEF Due
<1>6. Place(k) = n + 1
  <2>1. Place(k) \in 1 .. n + 1 /\ results[Place(k)].key = k
    BY <1>1, <1>5, PlaceType
  <2>2. Place(k) \notin 1 .. n
    BY <1>4, <2>1
  <2> QED
    BY <1>5, <2>1, <2>2
<1>7. Len(results') = n + 1 /\ \A j \in 1 .. n + 1 : results'[j] = results[j]
  <2>1. /\ Len(results') = n + 1
        /\ \A j \in 1 .. n + 1 : results'[j] =
             IF j = n + 1 THEN results[n + 1] ELSE IF j < n + 1 THEN results[j] ELSE results[j + 1]
    BY <1>1, <1>4, <1>6, TouchedProperties
  <2> QED
    BY <1>5, <2>1
<1>8. \A i \in 1 .. n : results[i].key = recent[m - n + i]
  BY <1>0, <1>4 DEF Tracks
<1>9. /\ Distinct' /\ Len(recent') \in Nat /\ n + 1 <= Len(recent')
      /\ Len(recent') = m \/ Len(recent') = m + 1
      /\ \A i \in 1 .. n + 1 : results[i].key = recent'[Len(recent') - (n + 1) + i]
  <2>1. CASE \E q \in DOMAIN recent : recent[q] = k
    <3>1. PICK q \in 1 .. m : recent[q] = k
      BY <1>5, <2>1
    <3>2. q <= m - n
      <4>1. CASE q > m - n
        <5>1. q - (m - n) \in 1 .. n /\ m - n + (q - (m - n)) = q
          BY <1>5, <4>1
        <5> QED
          BY <1>4, <1>8, <3>1, <5>1
      <4> QED
        BY <1>5, <4>1
    <3>3. /\ Distinct' /\ Len(recent') = m
          /\ \A j \in 1 .. m : recent'[j] =
               IF j = m THEN k ELSE IF j < q THEN recent[j] ELSE recent[j + 1]
      BY <1>0, <1>1, <1>2, <1>3, <1>5, <3>1, UseProperties
    <3>4. n + 1 <= m
      BY <1>5, <3>2
    <3>5. ASSUME NEW i \in 1 .. n + 1 PROVE results[i].key = recent'[m - (n + 1) + i]
      <4>1. m - (n + 1) + i \in 1 .. m
        BY <1>5, <3>4
      <4>2. CASE i = n + 1
        <5>1. m - (n + 1) + i = m
          BY <1>5, <4>2
        <5> QED
          BY <1>4, <3>3, <4>1, <4>2, <5>1
      <4>3. CASE i # n + 1
        <5>1. i \in 1 .. n /\ i \in Nat /\ i >= 1 /\ i <= n /\ q \in Nat
          BY <1>5, <4>3
        <5>2. m - (n + 1) + i # m /\ m - (n + 1) + i >= q /\ m - (n + 1) + i + 1 = m - n + i
          BY <1>5, <3>2, <5>1
        <5>3. ~(m - (n + 1) + i < q)
          BY <1>5, <5>1, <5>2
        <5> QED
          BY <1>8, <3>3, <4>1, <5>1, <5>2, <5>3
      <4> QED
        BY <4>2, <4>3
    <3> QED
      BY <1>5, <3>3, <3>4, <3>5
  <2>2. CASE ~\E q \in DOMAIN recent : recent[q] = k
    <3>1. /\ Distinct' /\ Len(recent') = m + 1 /\ recent'[m + 1] = k
          /\ \A j \in 1 .. m : recent'[j] = recent[j]
      BY <1>0, <1>1, <1>2, <1>3, <2>2, UseProperties
    <3>2. ASSUME NEW i \in 1 .. n + 1
          PROVE  results[i].key = recent'[Len(recent') - (n + 1) + i]
      <4>1. CASE i = n + 1
        <5>1. Len(recent') - (n + 1) + i = m + 1
          BY <1>5, <3>1, <4>1
        <5> QED
          BY <1>4, <3>1, <4>1, <5>1
      <4>2. CASE i # n + 1
        <5>1. i \in 1 .. n /\ Len(recent') - (n + 1) + i = m - n + i /\ m - n + i \in 1 .. m
          BY <1>5, <3>1, <4>2
        <5> QED
          BY <1>8, <3>1, <5>1
      <4> QED
        BY <4>1, <4>2
    <3>3. n + 1 <= m + 1 /\ m + 1 \in Nat
      BY <1>5
    <3> QED
      BY <3>1, <3>2, <3>3
  <2> QED
    BY <2>1, <2>2
<1>10. Tracks(n + 1)'
  <2>1. \A i \in 1 .. n + 1 : results'[i].key = recent'[Len(recent') - (n + 1) + i]
    BY <1>7, <1>9
  <2> QED
    BY <1>5, <1>7, <1>9, <2>1 DEF Tracks
<1>11. Due' <= n + 1
  <2>1. Limit' = Limit /\ Limit \in Nat
    BY <1>1, DueType DEF Limit
  <2> QED
    BY <1>5, <1>9, <2>1 DEF Due
<1>12. Tracks(Len(results))'
  BY <1>7, <1>10
<1>13. TurnInv(t)'
  BY <1>3, <1>7, <1>11, <1>12 DEF TurnInv, Working
<1>14. pc'[t] \notin Resting
  BY <1>3 DEF Resting
<1> QED
  BY <1>3, <1>9, <1>13, <1>14, AfterTurn

\* What is over the limit goes, the least recent first, and nothing else does.
LEMMA TrimRecent == ASSUME MInv, RecentInv, NEW t \in Threads, Trim(t) PROVE RecentInv'
<1> SUFFICES ASSUME alone' PROVE RecentInv'
  BY DEF RecentInv
<1>1. /\ TypeOK /\ alone /\ pc[t] = "trim" /\ results' = results /\ recent' = recent
      /\ max_entries' = max_entries /\ Goto(t, IF Full THEN "pop" ELSE "returned")
  BY DEF MInv, Trim
<1>2. /\ pc'[t] = (IF Full THEN "pop" ELSE "returned")
      /\ (\A u \in Threads \ {t} : pc'[u] \in Resting) /\ TurnInv(t) /\ Distinct
  BY <1>1, OthersRest DEF Resting
<1>3. Len(results) >= Due /\ Tracks(Len(results))
  BY <1>1, <1>2 DEF TurnInv
<1>4. Distinct'
  BY <1>1, <1>2 DEF Distinct
<1>5. Due' = Due /\ Full' = Full /\ \A n : Tracks(n)' = Tracks(n)
  BY <1>1 DEF Due, Limit, Full, Tracks
<1>6. CASE Full
  <2>1. TurnInv(t)'
    BY <1>1, <1>2, <1>3, <1>5, <1>6 DEF TurnInv, Working
  <2>2. pc'[t] \notin Resting
    BY <1>2, <1>6 DEF Resting
  <2> QED
    BY <1>2, <1>4, <2>1, <2>2, AfterTurn
<1>7. CASE ~Full
  <2>1. Len(results) = Due
    <3>1. Len(results) <= Len(recent)
      BY <1>3 DEF Tracks
    <3>2. Len(results) <= Limit
      BY <1>1, <1>7, DueType DEF Full
    <3>3. Len(results) <= Due
      BY <1>1, <3>1, <3>2, DueType DEF Due
    <3> QED
      BY <1>1, <1>3, <3>3, DueType
  <2>2. RestInv
    BY <1>3, <2>1 DEF RestInv
  <2>3. RestInv'
    BY <1>1, <2>2 DEF RestInv, Due, Limit, Tracks
  <2>4. pc'[t] \in Resting
    BY <1>2, <1>7 DEF Resting
  <2> QED
    BY <1>2, <1>4, <2>3, <2>4, AfterTurn
<1> QED
  BY <1>6, <1>7

LEMMA PopRecent == ASSUME MInv, RecentInv, NEW t \in Threads, Pop(t) PROVE RecentInv'
<1> SUFFICES ASSUME alone' PROVE RecentInv'
  BY DEF RecentInv
<1>0. PICK n, m : n = Len(results) /\ m = Len(recent)
  OBVIOUS
<1>1. /\ TypeOK /\ alone /\ pc[t] = "pop" /\ results' = Tail(results) /\ recent' = recent
      /\ max_entries' = max_entries /\ Goto(t, "trim") /\ results # <<>>
  BY DEF MInv, Pop
<1>2. /\ pc'[t] = "trim" /\ (\A u \in Threads \ {t} : pc'[u] \in Resting)
      /\ TurnInv(t) /\ Distinct
  BY <1>1, OthersRest DEF Resting
<1>3. n > Limit /\ Tracks(n)
  BY <1>0, <1>1, <1>2 DEF TurnInv, Full
<1>4. n \in Nat /\ m \in Nat /\ n <= m /\ Limit \in Nat /\ Due \in Nat /\ Due <= Limit
  BY <1>0, <1>1, <1>3, DueType DEF Tracks
<1>5. Len(results') = n - 1 /\ \A j \in 1 .. n - 1 : results'[j] = results[j + 1]
  <2>1. results \in Seq(Entry)
    BY <1>1 DEF TypeOK, Entry
  <2>2. /\ Len(Tail(results)) = Len(results) - 1
        /\ \A j \in 1 .. Len(Tail(results)) : Tail(results)[j] = results[j + 1]
    BY <1>1, <2>1, HeadTailProperties
  <2> QED
    BY <1>0, <1>1, <2>2
<1>6. Distinct' /\ Due' = Due
  BY <1>1, <1>2 DEF Distinct, Due, Limit
<1>7. Tracks(n - 1)'
  <2>1. ASSUME NEW i \in 1 .. n - 1 PROVE results'[i].key = recent'[m - (n - 1) + i]
    <3>1. i + 1 \in 1 .. n /\ m - n + (i + 1) = m - (n - 1) + i
      BY <1>4
    <3>2. results[i + 1].key = recent[m - n + (i + 1)]
      BY <1>0, <1>3, <3>1 DEF Tracks
    <3> QED
      BY <1>1, <1>5, <3>1, <3>2
  <2>2. n - 1 <= Len(results') /\ n - 1 <= Len(recent')
    BY <1>0, <1>1, <1>4, <1>5
  <2> QED
    BY <1>0, <1>1, <2>1, <2>2 DEF Tracks
<1>8. Len(results') >= Due'
  BY <1>3, <1>4, <1>5, <1>6
<1>9. Tracks(Len(results))'
  BY <1>5, <1>7
<1>10. TurnInv(t)'
  BY <1>2, <1>8, <1>9 DEF TurnInv, Working
<1>11. pc'[t] \notin Resting
  BY <1>2 DEF Resting
<1> QED
  BY <1>2, <1>6, <1>10, <1>11, AfterTurn

\* Edits, and steps of nobody, leave entries and history as they are.
LEMMA SameRecent ==
  ASSUME MInv, RecentInv,
         UNCHANGED <<max_entries, results, pc, req, alone, recent>>
  PROVE  RecentInv'
<1>1. /\ Distinct' = Distinct /\ RestInv' = RestInv
  BY DEF Distinct, RestInv, Tracks, Due, Limit
<1>2. ASSUME NEW t \in Threads, TurnInv(t) PROVE TurnInv(t)'
  BY <1>1, <1>2 DEF TurnInv, Has, Key, Full, Limit, Due, Tracks
<1> QED
  BY <1>1, <1>2 DEF RecentInv

LEMMA InitRecent == Init => RecentInv
<1> SUFFICES ASSUME Init PROVE RecentInv
  OBVIOUS
<1>1. TypeOK /\ Len(recent) = 0 /\ Len(results) = 0
  BY InitMInv DEF MInv, Init
<1>2. Due = 0
  BY <1>1, DueType DEF Due
<1>3. RestInv
  BY <1>1, <1>2 DEF RestInv, Tracks
<1> QED
  BY <1>3 DEF Init, RecentInv, Distinct, Resting

LEMMA NextRecent == MInv /\ RecentInv /\ [Next]_vars => RecentInv'
<1> SUFFICES ASSUME MInv, RecentInv, [Next]_vars PROVE RecentInv'
  OBVIOUS
<1>1. CASE UNCHANGED vars
  BY <1>1, SameRecent DEF vars
<1>2. ASSUME NEW t \in Threads, Edit(t) PROVE RecentInv'
  BY <1>2, Unshared, SameRecent DEF Edit
<1>3. CASE Next
  BY <1>2, <1>3, CallRecent, GoRecent, TouchRecent, InsertRecent, SettleRecent,
     TrimRecent, PopRecent DEF Next
<1> QED
  BY <1>1, <1>3

\* As long as calls do not overlap, the memo holds exactly the keys used last, as many
\* as the limit allows, in the order of their last use: for any limit, any number of
\* calls and any mixture of hits, misses and results that are not kept.
THEOREM LatestAreKept == Spec => []RecentKept
<1>1. ASSUME MInv, RecentInv PROVE RecentKept
  <2> SUFFICES ASSUME alone, \A t \in Threads : pc[t] \in Resting \cup {"touch", "compute", "insert"}
               PROVE  [i \in DOMAIN results |-> results[i].key] =
                        SubSeq(recent, Len(recent) - Due + 1, Len(recent))
    BY DEF RecentKept, Due
  <2>1. RestInv
    BY <1>1 DEF RecentInv, TurnInv, Working, Resting
  <2>0. PICK n, m : n = Due /\ m = Len(recent)
    OBVIOUS
  <2>2. /\ n \in Nat /\ m \in Nat /\ n <= m /\ DOMAIN results = 1 .. n /\ DOMAIN recent = 1 .. m
        /\ \A i \in 1 .. n : results[i].key = recent[m - n + i]
    BY <1>1, <2>0, <2>1, DueType DEF MInv, RestInv, Tracks
  <2>3. SubSeq(recent, m - n + 1, m) = [i \in 1 .. n |-> recent[m - n + i]]
    <3>1. SubSeq(recent, m - n + 1, m) =
            [i \in 1 .. (1 + m - (m - n + 1)) |-> recent[i + (m - n + 1) - 1]]
      BY <2>2
    <3>2. 1 + m - (m - n + 1) = n /\ \A i \in 1 .. n : i + (m - n + 1) - 1 = m - n + i
      BY <2>2
    <3> QED
      BY <3>1, <3>2
  <2> QED
    BY <2>0, <2>2, <2>3
<1> QED
  BY SpecMInv, InitRecent, NextRecent, <1>1, PTL DEF Spec
=============================================================================
