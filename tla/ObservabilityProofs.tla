------------------------ MODULE ObservabilityProofs ------------------------
(***************************************************************************)
(* What holds of the counters for any threads and any calls.  A counter    *)
(* may only lose what was under way at the same time because two additions *)
(* that are between load and store of one counter are both mixed: while    *)
(* one is, no isolated addition to that counter is stored, so what it has  *)
(* loaded stays between what is isolated and what is done.                 *)
(***************************************************************************)
EXTENDS Observability, SequenceTheorems, TLAPS

\* A thread that is between load and store of the counter c.
Busy(t, c) == todo[t] # <<>> /\ reg[t] # None /\ Current(t).name = c

\* What has been loaded is no staler than the additions it is mixed with.
LoadedBounded ==
  \A t \in Threads, c \in Counters :
    Busy(t, c) => isolated[c] <= reg[t] /\ reg[t] <= done[c]

\* Two additions to one counter that are under way are both mixed.
Apart ==
  \A t, u \in Threads, c \in Counters :
    t # u /\ Busy(t, c) /\ Busy(u, c) => t \in mixed

\* The counters a snapshot has read when it has come to the place p.
ReadBy(p) ==
  {c \in Counters : \E i \in 1 .. p - 1 :
     Order[i] = c \/ (c \in Modes /\ Order[i] = "fetch_modes")}

\* What the bounds of a snapshot rest on.
SnapshotInv ==
  /\ \A c \in Counters : before[c] <= isolated[c] /\ shown[c] <= done[c]
  /\ \A c \in ReadBy(place) : before[c] <= shown[c]

OInv == TypeOK /\ CountersBounded /\ LoadedBounded /\ Apart /\ SnapshotInv

-----------------------------------------------------------------------------
(* The lists of the source *)

\* The places of Order; one of them is that of fetch_modes.
LEMMA OrderPlaces == Len(Order) = 17 /\ DOMAIN Order = 1 .. 17 /\ Order[6] = "fetch_modes"
  BY DEF Order

\* A snapshot that has come to the end has read every counter.
LEMMA AllRead == ReadBy(Len(Order) + 1) = Counters
<1> SUFFICES ASSUME NEW c \in Counters PROVE c \in ReadBy(Len(Order) + 1)
  BY DEF ReadBy
<1>1. CASE c \in Modes
  BY <1>1, OrderPlaces DEF ReadBy
<1>2. CASE \E i \in DOMAIN Order : Order[i] = c
  BY <1>2, OrderPlaces DEF ReadBy
<1> QED
  BY <1>1, <1>2 DEF Counters

\* Every name the record functions use is one of a counter.
LEMMA Names ==
  {"compaction_count", "compaction_chars_saved", "rescue_count", "rescue_chars_saved",
   "fetch_count", "passref_expansion_count", "passref_denied_count", "passref_truncated_count",
   "passref_budget_exceeded_count", "passref_chars_expanded",
   "structured_pruning_attempted_count", "structured_pruning_config_rejected_count",
   "structured_pruning_count", "structured_pruning_rescued_count",
   "structured_pruning_insufficient_eligible_savings", "structured_pruning_saved_tokens"}
    \subseteq Counters
<1>1. Order[1] = "compaction_count" /\ Order[2] = "compaction_chars_saved"
      /\ Order[3] = "rescue_count" /\ Order[4] = "rescue_chars_saved" /\ Order[5] = "fetch_count"
  BY DEF Order
<1>2. Order[7] = "passref_expansion_count" /\ Order[8] = "passref_denied_count"
      /\ Order[9] = "passref_truncated_count" /\ Order[10] = "passref_budget_exceeded_count"
      /\ Order[11] = "passref_chars_expanded"
  BY DEF Order
<1>3. Order[12] = "structured_pruning_attempted_count"
      /\ Order[13] = "structured_pruning_config_rejected_count"
      /\ Order[14] = "structured_pruning_count" /\ Order[15] = "structured_pruning_rescued_count"
      /\ Order[16] = "structured_pruning_insufficient_eligible_savings"
      /\ Order[17] = "structured_pruning_saved_tokens"
  BY DEF Order
<1>4. \A i \in 1 .. 17 : Order[i] # "fetch_modes" => Order[i] \in Counters
  BY OrderPlaces DEF Counters
<1> QED
  BY <1>1, <1>2, <1>3, <1>4

\* One addition is well typed, and so is the list a call makes.
LEMMA AddType ==
  ASSUME NEW name \in Counters, NEW by \in Int
  PROVE  Add(name, by) \in Addition
  BY DEF Add, Addition

LEMMA AdditionsType ==
  ASSUME NEW call \in Call
  PROVE  Additions(call) \in Seq(Addition)
<1>1. CASE call.op \in {"compaction", "rescue", "expansion"}
  <2>1. call.chars \in Int
    BY <1>1 DEF Call
  <2> QED
    BY <1>1, <2>1, Names, AddType DEF Additions
<1>2. CASE call.op = "fetch"
  <2>1. call.mode \in Counters
    BY <1>2 DEF Call, Counters
  <2> QED
    BY <1>2, <2>1, Names, AddType DEF Additions
<1>3. CASE call.op \in {"denial", "truncation", "budget_exceeded", "config_rejected"}
  BY <1>3, Names, AddType DEF Additions
<1>4. CASE call.op = "structured"
  <2>1. {call.attempted, call.pruned, call.rescued, call.insufficient, call.saved} \subseteq Int
    BY <1>4 DEF Call
  <2>2. Additions(call) =
          <<Add("structured_pruning_attempted_count", call.attempted),
            Add("structured_pruning_count", call.pruned),
            Add("structured_pruning_rescued_count", call.rescued),
            Add("structured_pruning_insufficient_eligible_savings", call.insufficient),
            Add("structured_pruning_saved_tokens", call.saved)>>
    BY <1>4 DEF Additions
  <2> QED
    BY <2>1, <2>2, Names, AddType
<1> QED
  BY <1>1, <1>2, <1>3, <1>4 DEF Call

-----------------------------------------------------------------------------
(* The invariant *)

\* The initial states satisfy the invariant.
LEMMA InitOInv == Init => OInv
<1> SUFFICES ASSUME Init PROVE OInv
  OBVIOUS
<1>1. Zero \in [Counters -> Nat] /\ \A c \in Counters : Zero[c] = 0
  BY DEF Zero
<1>2. TypeOK
  BY <1>1, OrderPlaces, ObservabilityAssumption DEF Init, TypeOK
<1>3. LoadedBounded /\ Apart
  BY DEF Init, LoadedBounded, Apart, Busy
<1>4. CountersBounded /\ SnapshotInv
  BY <1>1 DEF Init, CountersBounded, SnapshotInv, ReadBy
<1> QED
  BY <1>2, <1>3, <1>4 DEF OInv

\* The first addition of a call that has one, and what is left of it then.
LEMMA CurrentType ==
  ASSUME TypeOK, NEW t \in Threads, todo[t] # <<>>
  PROVE  /\ Current(t) \in Addition
         /\ Current(t).name \in Counters /\ Current(t).by \in Int
         /\ Tail(todo[t]) \in Seq(Addition)
<1>1. todo[t] \in Seq(Addition)
  BY DEF TypeOK
<1>2. Head(todo[t]) \in Addition /\ Tail(todo[t]) \in Seq(Addition)
  BY <1>1, HeadTailProperties
<1> QED
  BY <1>2 DEF Current, Addition

\* The beginning of a call.
LEMMA RecordOInv == ASSUME OInv, NEW t \in Threads, NEW call \in Calls, Record(t, call)
                    PROVE  OInv'
<1> USE DEF OInv
<1>1. reg[t] = None
  BY DEF TypeOK, Record
<1>2. Additions(call) \in Seq(Addition)
  BY AdditionsType, ObservabilityAssumption
<1>3. TypeOK'
  <2>1. todo' \in [Threads -> Seq(Addition)]
    BY <1>2 DEF TypeOK, Record
  <2>2. calls' \in 0 .. MaxCalls
    BY ObservabilityAssumption DEF TypeOK, Record
  <2> QED
    BY <1>1, <2>1, <2>2 DEF TypeOK, Record, Current, Counts
<1>4. \A u \in Threads, c \in Counters : Busy(u, c)' => Busy(u, c)
  BY <1>1 DEF Record, Busy, TypeOK, Current
<1> QED
  BY <1>3, <1>4 DEF Record, CountersBounded, LoadedBounded, Apart, SnapshotInv

\* An addition that does not count.
LEMMA SkipOInv == ASSUME OInv, NEW t \in Threads, Skip(t) PROVE OInv'
<1> USE DEF OInv
<1>1. TypeOK'
  BY CurrentType DEF TypeOK, Skip, Current, Counts
<1>2. \A u \in Threads, c \in Counters : Busy(u, c)' => Busy(u, c)
  BY DEF Skip, Busy, TypeOK, Current
<1> QED
  BY <1>1, <1>2 DEF Skip, CountersBounded, LoadedBounded, Apart, SnapshotInv

\* A value is loaded.
LEMMA LoadOInv == ASSUME OInv, NEW t \in Threads, Load(t) PROVE OInv'
<1> USE DEF OInv
<1> DEFINE c == Current(t).name
<1>1. c \in Counters /\ counter[c] \in Nat
  BY CurrentType DEF Load, TypeOK
<1>2. reg' = [reg EXCEPT ![t] = counter[c]] /\ todo' = todo
  BY DEF Load
<1>3. TypeOK'
  BY <1>1 DEF Load, TypeOK, Loaded, Current, Counts
<1>4. \A u \in Threads, d \in Counters :
        Busy(u, d)' => (u = t /\ d = c) \/ (u # t /\ Busy(u, d))
  BY <1>2 DEF Busy, Current, TypeOK
<1>5. reg'[t] = counter[c] /\ \A u \in Threads \ {t} : reg'[u] = reg[u]
  BY <1>2 DEF TypeOK
<1>6. LoadedBounded'
  BY <1>1, <1>4, <1>5 DEF Load, LoadedBounded, CountersBounded
<1>7. Apart'
  <2> SUFFICES ASSUME NEW u \in Threads, NEW v \in Threads, NEW d \in Counters,
                      u # v, Busy(u, d)', Busy(v, d)'
               PROVE  u \in mixed'
    BY DEF Apart
  <2>1. CASE u = t
    <3>1. v \in Loaded(c)
      BY <1>4, <2>1 DEF Busy, Loaded
    <3> QED
      BY <2>1, <3>1 DEF Load
  <2>2. CASE v = t
    <3>1. u \in Loaded(c)
      BY <1>4, <2>2 DEF Busy, Loaded
    <3> QED
      BY <3>1 DEF Load
  <2>3. CASE u # t /\ v # t
    <3>1. u \in mixed
      BY <1>4, <2>3 DEF Apart
    <3> QED
      BY <2>3, <3>1 DEF Load
  <2> QED
    BY <2>1, <2>2, <2>3
<1> QED
  BY <1>3, <1>6, <1>7 DEF Load, CountersBounded, SnapshotInv

\* A sum is stored: what others have loaded meanwhile stays within the bounds,
\* because then this addition is not isolated.
LEMMA StoreOInv == ASSUME OInv, NEW t \in Threads, Store(t) PROVE OInv'
<1> USE DEF OInv
<1> DEFINE c == Current(t).name
           by == Current(t).by
<1>1. c \in Counters /\ by \in Nat /\ reg[t] \in Nat /\ reg[t] # None /\ Busy(t, c)
  BY CurrentType DEF Store, TypeOK, Counts, Busy
<1>2. isolated[c] <= reg[t] /\ reg[t] <= done[c]
  BY <1>1 DEF LoadedBounded
<1>3. /\ isolated[c] \in Nat /\ done[c] \in Nat
      /\ counter'[c] = reg[t] + by /\ done'[c] = done[c] + by
      /\ isolated'[c] = isolated[c] + (IF t \in mixed THEN 0 ELSE by)
  BY <1>1 DEF Store, TypeOK, Sum
<1>4. \A d \in Counters \ {c} :
        counter'[d] = counter[d] /\ done'[d] = done[d] /\ isolated'[d] = isolated[d]
  BY DEF Store, TypeOK
<1>5. TypeOK'
  <2>1. {counter', done', isolated'} \subseteq [Counters -> Nat]
    <3>1. ASSUME NEW d \in Counters
          PROVE  counter'[d] \in Nat /\ done'[d] \in Nat /\ isolated'[d] \in Nat
      <4>1. CASE d = c
        BY <1>1, <1>3, <4>1
      <4>2. CASE d # c
        BY <1>4, <4>2 DEF TypeOK
      <4> QED
        BY <4>1, <4>2
    <3>2. /\ counter' = [d \in Counters |-> counter'[d]]
          /\ done' = [d \in Counters |-> done'[d]]
          /\ isolated' = [d \in Counters |-> isolated'[d]]
      BY DEF Store, TypeOK
    <3> QED
      BY <3>1, <3>2
  <2>2. todo' \in [Threads -> Seq(Addition)]
    BY CurrentType DEF Store, TypeOK
  <2>3. /\ reg' \in [Threads -> Nat \cup {None}] /\ reg'[t] = None
        /\ \A u \in Threads \ {t} : reg'[u] = reg[u] /\ todo'[u] = todo[u]
    BY DEF Store, TypeOK
  <2>4. \A u \in Threads :
          reg'[u] # None => todo'[u] # <<>> /\ Counts(Head(todo'[u]))
    BY <2>3 DEF TypeOK, Current
  <2>5. {shown', before'} \subseteq [Counters -> Nat] /\ mixed' \subseteq Threads
        /\ calls' \in 0 .. MaxCalls /\ place' \in 1 .. Len(Order) + 1
    BY DEF Store, TypeOK
  <2> QED
    BY <2>1, <2>2, <2>3, <2>4, <2>5 DEF TypeOK, Current, Counts
<1>6. \A u \in Threads, d \in Counters : Busy(u, d)' => u # t /\ Busy(u, d) /\ reg'[u] = reg[u]
  BY DEF Store, Busy, Current, TypeOK
<1>7. CountersBounded'
  BY <1>1, <1>2, <1>3, <1>4 DEF CountersBounded
<1>8. LoadedBounded'
  <2> SUFFICES ASSUME NEW u \in Threads, NEW d \in Counters, Busy(u, d)'
               PROVE  isolated'[d] <= reg[u] /\ reg[u] <= done'[d]
    BY <1>6 DEF LoadedBounded
  <2>1. isolated[d] <= reg[u] /\ reg[u] <= done[d] /\ reg[u] \in Nat
    BY <1>6 DEF LoadedBounded, TypeOK, Busy
  <2>2. CASE d = c
    <3>1. t \in mixed
      BY <1>1, <1>6, <2>2 DEF Apart
    <3> QED
      BY <1>1, <1>3, <2>1, <2>2, <3>1
  <2> QED
    BY <1>4, <2>1, <2>2
<1>9. Apart'
  BY <1>6 DEF Apart, Store
<1>10. SnapshotInv'
  <2>1. \A d \in Counters : isolated[d] <= isolated'[d] /\ done[d] <= done'[d]
    <3> SUFFICES ASSUME NEW d \in Counters
                 PROVE  isolated[d] <= isolated'[d] /\ done[d] <= done'[d]
      OBVIOUS
    <3>1. CASE d = c
      BY <1>1, <1>3, <3>1
    <3>2. CASE d # c
      BY <1>4, <3>2 DEF TypeOK
    <3> QED
      BY <3>1, <3>2
  <2>2. \A d \in Counters :
          {before[d], isolated[d], isolated'[d], shown[d], done[d], done'[d]} \subseteq Nat
    BY <1>5 DEF TypeOK
  <2> QED
    BY <2>1, <2>2 DEF SnapshotInv, Store, ReadBy
<1> QED
  BY <1>5, <1>7, <1>8, <1>9, <1>10

\* A snapshot is asked for ...
LEMMA AskOInv == ASSUME OInv, Ask PROVE OInv'
<1> USE DEF OInv
<1>1. Zero \in [Counters -> Nat] /\ \A c \in Counters : Zero[c] = 0
  BY DEF Zero
<1>2. TypeOK'
  BY <1>1, OrderPlaces DEF Ask, TypeOK, Current, Counts
<1>3. \A u \in Threads, d \in Counters : Busy(u, d)' <=> Busy(u, d)
  BY DEF Ask, Busy, Current
<1>4. CountersBounded' /\ LoadedBounded' /\ Apart'
  BY <1>3 DEF Ask, CountersBounded, LoadedBounded, Apart
<1>5. SnapshotInv'
  BY <1>1 DEF Ask, SnapshotInv, ReadBy, TypeOK
<1> QED
  BY <1>2, <1>4, <1>5

\* ... and read one counter further.
LEMMA ReadOInv == ASSUME OInv, Read PROVE OInv'
<1> USE DEF OInv
<1>1. place \in 1 .. 17 /\ place' = place + 1
  BY OrderPlaces DEF Read
<1>2. TypeOK'
  <2>1. shown' \in [Counters -> Nat]
    BY DEF Read, TypeOK
  <2>2. place' \in 1 .. Len(Order) + 1
    BY <1>1, OrderPlaces
  <2> QED
    BY <2>1, <2>2 DEF Read, TypeOK, Current, Counts
<1>3. \A u \in Threads, d \in Counters : Busy(u, d)' <=> Busy(u, d)
  BY DEF Read, Busy, Current
<1>4. CountersBounded' /\ LoadedBounded' /\ Apart'
  BY <1>3 DEF Read, CountersBounded, LoadedBounded, Apart
<1>5. \A c \in ReadBy(place') : c \in ReadNow \/ c \in ReadBy(place)
  <2> SUFFICES ASSUME NEW c \in ReadBy(place'), c \notin ReadBy(place)
               PROVE  c \in ReadNow
    OBVIOUS
  <2>1. PICK i \in 1 .. place' - 1 :
          Order[i] = c \/ (c \in Modes /\ Order[i] = "fetch_modes")
    BY DEF ReadBy
  <2>2. i = place /\ c \in Counters
    BY <1>1, <2>1 DEF ReadBy
  <2>3. Order[i] = c => c # "fetch_modes"
    BY <2>2 DEF Counters, Modes
  <2> QED
    BY <2>1, <2>2, <2>3 DEF ReadNow
<1>6. \A c \in Counters : /\ {before[c], isolated[c], counter[c], shown[c], done[c]} \subseteq Nat
                          /\ shown'[c] = IF c \in ReadNow THEN counter[c] ELSE shown[c]
  BY DEF TypeOK, Read
<1>7. SnapshotInv'
  <2>1. \A c \in Counters : before[c] <= isolated[c] /\ shown'[c] <= done[c]
    BY <1>6 DEF SnapshotInv, CountersBounded
  <2>2. \A c \in ReadBy(place') : before[c] <= shown'[c]
    BY <1>5, <1>6 DEF SnapshotInv, CountersBounded, ReadBy
  <2>3. ReadBy(place)' = ReadBy(place')
    BY DEF ReadBy
  <2> QED
    BY <2>1, <2>2, <2>3 DEF SnapshotInv, Read
<1> QED
  BY <1>2, <1>4, <1>7

LEMMA StutterOInv == OInv /\ UNCHANGED vars => OInv'
  BY DEF vars, OInv, TypeOK, CountersBounded, LoadedBounded, Apart, SnapshotInv, Busy, Current,
         Counts, ReadBy

\* The invariant holds in every reachable state.
THEOREM SpecOInv == Spec => []OInv
<1>1. OInv /\ [Next]_vars => OInv'
  BY RecordOInv, SkipOInv, LoadOInv, StoreOInv, AskOInv, ReadOInv, StutterOInv DEF Next
<1> QED
  BY InitOInv, <1>1, PTL DEF Spec

\* The counters keep to their types: none is ever negative.
THEOREM CounterTypes == Spec => []TypeOK
<1>1. OInv => TypeOK
  BY DEF OInv
<1> QED
  BY SpecOInv, <1>1, PTL

\* A counter loses only additions that were under way with others of it, for any
\* threads and calls.
THEOREM CountersAreBounded == Spec => []CountersBounded
<1>1. OInv => CountersBounded
  BY DEF OInv
<1> QED
  BY SpecOInv, <1>1, PTL

\* A snapshot is within what was recorded undisturbed before it and all that was
\* recorded by its end.
THEOREM SnapshotsAreBounded == Spec => []SnapshotBounded
<1>1. OInv => SnapshotBounded
  BY AllRead DEF OInv, SnapshotInv, SnapshotBounded
<1> QED
  BY SpecOInv, <1>1, PTL
=============================================================================
