---------------------------- MODULE Observability ----------------------------
(***************************************************************************)
(* The counters of observability.py: the record_* functions, called by the *)
(* threads of the host, and status_snapshot, which reads the counters one  *)
(* by one.  An increment is a load and a store with nothing to hold them   *)
(* together, so increments of one counter may be lost in one another.      *)
(***************************************************************************)
EXTENDS Integers, Sequences

CONSTANTS
  Threads,   \* the threads that record
  Calls,     \* the calls of record_* to consider
  MaxCalls,  \* bound on the calls made
  None       \* nothing loaded

Modes == {"full", "range", "grep", "stat", "invalid"}   \* the keys of fetch_modes

\* The order in which status_snapshot reads them; fetch_modes is copied in one step.
Order == <<
  "compaction_count", "compaction_chars_saved", "rescue_count", "rescue_chars_saved",
  "fetch_count", "fetch_modes", "passref_expansion_count", "passref_denied_count",
  "passref_truncated_count", "passref_budget_exceeded_count", "passref_chars_expanded",
  "structured_pruning_attempted_count", "structured_pruning_config_rejected_count",
  "structured_pruning_count", "structured_pruning_rescued_count",
  "structured_pruning_insufficient_eligible_savings", "structured_pruning_saved_tokens">>

Counters == ({Order[i] : i \in DOMAIN Order} \ {"fetch_modes"}) \cup Modes

Addition == [name : Counters, by : Int]

Add(name, by) == [name |-> name, by |-> by]

\* A call of a record_* function with its numbers.
Call ==
  [op : {"compaction", "rescue", "expansion"}, chars : Int]
  \cup [op : {"fetch"}, mode : Modes]
  \cup [op : {"denial", "truncation", "budget_exceeded", "config_rejected"}]
  \cup [op : {"structured"}, attempted : Int, pruned : Int, rescued : Int,
        insufficient : Int, saved : Int]

ASSUME ObservabilityAssumption ==
  /\ Calls \subseteq Call
  /\ MaxCalls \in Nat
  /\ None \notin Int

VARIABLES
  counter,   \* _COUNTERS
  todo,      \* each thread: the additions its call has still to make,
  reg,       \* and the value it has loaded for the first of them
  mixed,     \* history: threads whose load or store fell between those of another
             \* addition to the same counter
  done,      \* history: what has been added to each counter, lost or not,
  isolated,  \* and by additions that were not mixed
  calls,     \* calls begun
  shown,     \* the snapshot: what has been read,
  place,     \* the place in Order it has come to,
  before     \* history: and what was isolated when it began

vars == <<counter, todo, reg, mixed, done, isolated, calls, shown, place, before>>

Zero == [c \in Counters |-> 0]

Init ==
  /\ counter = Zero /\ done = Zero /\ isolated = Zero
  /\ todo = [t \in Threads |-> <<>>]
  /\ reg = [t \in Threads |-> None]
  /\ mixed = {} /\ calls = 0
  /\ shown = Zero /\ place = Len(Order) + 1 /\ before = Zero

-----------------------------------------------------------------------------
(* Recording *)

\* The additions of a call, in the order of the code.
Additions(call) ==
  CASE call.op = "compaction" ->
         <<Add("compaction_count", 1), Add("compaction_chars_saved", call.chars)>>
    [] call.op = "rescue" -> <<Add("rescue_count", 1), Add("rescue_chars_saved", call.chars)>>
    [] call.op = "expansion" ->
         <<Add("passref_expansion_count", 1), Add("passref_chars_expanded", call.chars)>>
    [] call.op = "fetch" -> <<Add("fetch_count", 1), Add(call.mode, 1)>>
    [] call.op = "denial" -> <<Add("passref_denied_count", 1)>>
    [] call.op = "truncation" -> <<Add("passref_truncated_count", 1)>>
    [] call.op = "budget_exceeded" -> <<Add("passref_budget_exceeded_count", 1)>>
    [] call.op = "config_rejected" -> <<Add("structured_pruning_config_rejected_count", 1)>>
    [] call.op = "structured" ->
         <<Add("structured_pruning_attempted_count", call.attempted),
           Add("structured_pruning_count", call.pruned),
           Add("structured_pruning_rescued_count", call.rescued),
           Add("structured_pruning_insufficient_eligible_savings", call.insufficient),
           Add("structured_pruning_saved_tokens", call.saved)>>

Record(t, call) ==
  /\ todo[t] = <<>> /\ calls < MaxCalls
  /\ todo' = [todo EXCEPT ![t] = Additions(call)]
  /\ calls' = calls + 1
  /\ UNCHANGED <<counter, reg, mixed, done, isolated, shown, place, before>>

Current(t) == Head(todo[t])
Loaded(c)  == {t \in Threads : todo[t] # <<>> /\ reg[t] # None /\ Current(t).name = c}

\* Mutant: a negative number counts as well.
IsNumber(a) == a.by # 0

\* if chars_saved > 0
Counts(a) == a.by > 0

Skip(t) ==
  /\ todo[t] # <<>> /\ reg[t] = None /\ ~Counts(Current(t))
  /\ todo' = [todo EXCEPT ![t] = Tail(@)]
  /\ UNCHANGED <<counter, reg, mixed, done, isolated, calls, shown, place, before>>

\* From here on the addition is mixed with those that are between load and store.
Load(t) ==
  LET others == Loaded(Current(t).name) IN
  /\ todo[t] # <<>> /\ reg[t] = None /\ Counts(Current(t))
  /\ reg' = [reg EXCEPT ![t] = counter[Current(t).name]]
  /\ mixed' = IF others = {} THEN mixed \ {t} ELSE mixed \cup others \cup {t}
  /\ UNCHANGED <<counter, todo, done, isolated, calls, shown, place, before>>

\* Mutant: = for +=.
Restarted(t) == Current(t).by

Sum(t) == reg[t] + Current(t).by

Store(t) ==
  LET c == Current(t).name IN
  /\ todo[t] # <<>> /\ reg[t] # None
  /\ counter' = [counter EXCEPT ![c] = Sum(t)]
  /\ done' = [done EXCEPT ![c] = @ + Current(t).by]
  /\ isolated' = [isolated EXCEPT ![c] = @ + IF t \in mixed THEN 0 ELSE Current(t).by]
  /\ todo' = [todo EXCEPT ![t] = Tail(@)]
  /\ reg' = [reg EXCEPT ![t] = None]
  /\ UNCHANGED <<mixed, calls, shown, place, before>>

-----------------------------------------------------------------------------
(* status_snapshot *)

Ask ==
  /\ place = Len(Order) + 1
  /\ place' = 1 /\ shown' = Zero /\ before' = isolated
  /\ UNCHANGED <<counter, todo, reg, mixed, done, isolated, calls>>

\* Mutant: the copy of fetch_modes is left for later.
ReadOne == {Order[place]} \cap Counters

ReadNow == IF Order[place] = "fetch_modes" THEN Modes ELSE {Order[place]}

Read ==
  /\ place \in DOMAIN Order
  /\ shown' = [c \in Counters |-> IF c \in ReadNow THEN counter[c] ELSE shown[c]]
  /\ place' = place + 1
  /\ UNCHANGED <<counter, todo, reg, mixed, done, isolated, calls, before>>

Next ==
  \/ \E t \in Threads, call \in Calls : Record(t, call)
  \/ \E t \in Threads : Skip(t) \/ Load(t) \/ Store(t)
  \/ Ask \/ Read

Spec == Init /\ [][Next]_vars

-----------------------------------------------------------------------------
(* Properties *)

\* Every variable keeps to its type, counters are never negative, and a thread has
\* loaded a value only for an addition it is about to make.
TypeOK ==
  /\ {counter, done, isolated, shown, before} \subseteq [Counters -> Nat]
  /\ todo \in [Threads -> Seq(Addition)]
  /\ reg \in [Threads -> Nat \cup {None}]
  /\ \A t \in Threads : reg[t] # None => todo[t] # <<>> /\ Counts(Current(t))
  /\ mixed \subseteq Threads
  /\ calls \in 0 .. MaxCalls
  /\ place \in 1 .. Len(Order) + 1

\* A counter never tells more than was recorded, and never less than what was recorded
\* by additions that overlapped with none of the same counter: a store of a stale
\* value loses only additions that were under way with it.
CountersBounded == \A c \in Counters : isolated[c] <= counter[c] /\ counter[c] <= done[c]

\* A snapshot, though it is read counter by counter while threads record, is for no
\* counter below what was recorded undisturbed before it was asked for, nor above
\* what is recorded when it is answered.
SnapshotBounded ==
  place = Len(Order) + 1 => \A c \in Counters : before[c] <= shown[c] /\ shown[c] <= done[c]
=============================================================================
