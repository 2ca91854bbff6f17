-------------------------------- MODULE Memo --------------------------------
(***************************************************************************)
(* The memo of structured pruning (structured_pruning_memo.py) behind the  *)
(* hook that plugin.py registers: an LRU of results, shared without a lock *)
(* by the threads of the host, in front of prune_structured_context.       *)
(*                                                                         *)
(* A result is an object: the host may edit the one it is handed, and what *)
(* is kept must not change with it.  The store is reduced to who put what: *)
(* StructuredPruning and RescueStore have the rest.                        *)
(***************************************************************************)
EXTENDS Integers, SequencesExt

CONSTANTS
  Threads,      \* threads of the host that call the hook
  Sessions,     \* session ids
  Sights,       \* the rest of the key: pressure, threshold, runtime context,
                \* options, and of each contribution the fields in the key (not
                \* its content, cache scope and provider message)
  Requests,     \* the calls of the hook to consider
  Limits,       \* the values of max_entries to consider; {32} for the plugin
  None          \* no key, no request, no view

\* A call of the hook.  The memo cannot key the values of some, nor copy those
\* of others.
Request == [session : Sessions, sight : Sights, form : {"plain", "unkeyed", "uncopyable"}]

\* A view is made for a request, and names a handle that the call put for its
\* session.  A host may edit the view it has.
View == [session : Sessions, sight : Sights, edited : BOOLEAN]

Keys == Sessions \X Sights

ASSUME MemoAssumption ==
  /\ IsFiniteSet(Threads)
  /\ Requests \subseteq Request
  /\ Limits \subseteq Nat
  /\ None \notin Keys \cup Request \cup View

VARIABLES
  max_entries,  \* the limit, before it is raised to 1
  results,   \* _results, least recently used first: keys, their views, and the
             \* threads that were handed the very object that is kept
  pc,        \* each thread: its place in reuse_or_compute,
  req,       \* its request,
  view,      \* the view it has found, made or been handed
  held,      \* history: the contents each session has put into the store
  raced,     \* history: threads during whose call another evicted an entry
  alone,     \* history: no two calls have overlapped so far
  recent     \* history: keys used by calls while alone, most recently used last

vars == <<max_entries, results, pc, req, view, held, raced, alone, recent>>

Resting == {"idle", "returned", "nothing", "raised"}
Places  == Resting \cup {"touch", "compute", "insert", "settle", "trim", "pop"}

Init ==
  /\ max_entries \in Limits
  /\ results = <<>>
  /\ pc = [t \in Threads |-> "idle"]
  /\ req = [t \in Threads |-> None]
  /\ view = [t \in Threads |-> None]
  /\ held = {} /\ raced = {}
  /\ alone = TRUE /\ recent = <<>>

Limit == IF max_entries > 1 THEN max_entries ELSE 1

Goto(t, l) == pc' = [pc EXCEPT ![t] = l]

\* Mutant: the identity is not in the key.
AnySession(r) == IF r.form = "unkeyed" THEN None
                 ELSE <<CHOOSE s \in Sessions : TRUE, r.sight>>

\* _fingerprint, without the hash.
Fingerprint(r) == IF r.form = "unkeyed" THEN None ELSE <<r.session, r.sight>>

Key(t) == Fingerprint(req[t])

Has(k)     == \E i \in DOMAIN results : results[i].key = k
Place(k)   == CHOOSE i \in DOMAIN results : results[i].key = k
EntryOf(k) == results[Place(k)]

MoveToEnd(s, i) == Append(RemoveAt(s, i), s[i])

Use(k) ==
  recent' = IF ~alone THEN <<>>
            ELSE IF \E i \in DOMAIN recent : recent[i] = k
            THEN MoveToEnd(recent, CHOOSE i \in DOMAIN recent : recent[i] = k)
            ELSE Append(recent, k)

-----------------------------------------------------------------------------
(* One call of the hook *)

\* get: another thread may move or evict the entry that is found before the next
\* step.  The view of the call before is forgotten.
Call(t, r) ==
  LET k == Fingerprint(r) IN
  /\ pc[t] \in Resting
  /\ req' = [req EXCEPT ![t] = r]
  /\ IF k # None /\ Has(k)
     THEN Goto(t, "touch") /\ view' = [view EXCEPT ![t] = EntryOf(k).view]
     ELSE Goto(t, "compute") /\ view' = [view EXCEPT ![t] = None]
  /\ results' = [i \in DOMAIN results |-> [results[i] EXCEPT !.sharers = @ \ {t}]]
  /\ raced' = raced \ {t}
  /\ alone' = (alone /\ \A u \in Threads : pc[u] \in Resting)
  /\ recent' = IF alone' THEN recent ELSE <<>>
  /\ UNCHANGED <<max_entries, held>>

\* Mutant: a hit leaves the order as it is.
TouchInPlace(k) == results

Touched(k) == MoveToEnd(results, Place(k))

\* move_to_end, and a copy of what was found is handed out.
Touch(t) ==
  /\ pc[t] = "touch" /\ Has(Key(t))
  /\ results' = Touched(Key(t))
  /\ Use(Key(t))
  /\ Goto(t, "returned")
  /\ UNCHANGED <<max_entries, req, view, held, raced, alone>>

\* prune_structured_context puts contents into the store and returns a view ...
Compute(t) ==
  /\ pc[t] = "compute"
  /\ held' = held \cup {<<req[t].session, req[t].sight>>}
  /\ view' = [view EXCEPT ![t] = [session |-> req[t].session, sight |-> req[t].sight,
                                  edited |-> FALSE]]
  /\ Goto(t, IF Key(t) = None THEN "returned" ELSE "insert")
  /\ UNCHANGED <<max_entries, results, req, raced, alone, recent>>

\* Mutant: None is kept as well.
KeepNone(t) ==
  /\ pc[t] = "compute"
  /\ Goto(t, IF Key(t) = None THEN "nothing" ELSE "insert")
  /\ UNCHANGED <<max_entries, results, req, view, held, raced, alone, recent>>

\* ... or None, which is not kept.
ComputeNone(t) ==
  /\ pc[t] = "compute"
  /\ Goto(t, "nothing")
  /\ UNCHANGED <<max_entries, results, req, view, held, raced, alone, recent>>

Uncopyable(t) ==
  /\ pc[t] = "insert" /\ req[t].form = "uncopyable"
  /\ Goto(t, "returned")
  /\ UNCHANGED <<max_entries, results, req, view, held, raced, alone, recent>>

\* Mutant: a full memo takes nothing in, and move_to_end does not know.
AssignedIfRoom(e) == IF Len(results) < Limit THEN Append(results, e) ELSE results

\* A key that another thread has put in the meantime keeps its place.
Assigned(e) ==
  IF Has(e.key) THEN [i \in DOMAIN results |-> IF results[i].key = e.key THEN e ELSE results[i]]
  ELSE Append(results, e)

CopyKept(t) == [key |-> Key(t), view |-> view[t], sharers |-> {}]

Insert(t) ==
  /\ pc[t] = "insert" /\ req[t].form # "uncopyable"
  /\ results' = Assigned(CopyKept(t))
  /\ Goto(t, "settle")
  /\ UNCHANGED <<max_entries, req, view, held, raced, alone, recent>>

\* move_to_end.
Settle(t) ==
  /\ pc[t] = "settle" /\ Has(Key(t))
  /\ results' = Touched(Key(t))
  /\ Use(Key(t))
  /\ Goto(t, "trim")
  /\ UNCHANGED <<max_entries, req, view, held, raced, alone>>

\* Mutant: one entry too many.
OverByTwo == Len(results) > Limit + 1

Full == Len(results) > Limit

\* while len(...) > max(1, max_entries): popitem(last=False)
Trim(t) ==
  /\ pc[t] = "trim"
  /\ Goto(t, IF Full THEN "pop" ELSE "returned")
  /\ UNCHANGED <<max_entries, results, req, view, held, raced, alone, recent>>

Pop(t) ==
  /\ pc[t] = "pop" /\ results # <<>>
  /\ results' = Tail(results)
  /\ raced' = raced \cup {u \in Threads \ {t} : pc[u] \notin Resting}
  /\ Goto(t, "trim")
  /\ UNCHANGED <<max_entries, req, view, held, alone, recent>>

\* move_to_end of a key that is gone, popitem of nothing: KeyError, which leaves
\* the hook because only prune_structured_context is fail-open.
KeyError(t) ==
  /\ \/ pc[t] \in {"touch", "settle"} /\ ~Has(Key(t))
     \/ pc[t] = "pop" /\ results = <<>>
  /\ Goto(t, "raised")
  /\ view' = [view EXCEPT ![t] = None]
  /\ UNCHANGED <<max_entries, results, req, held, raced, alone, recent>>

-----------------------------------------------------------------------------
(* The host *)

\* The host edits the view it was handed; so does whoever has the same object.
Edit(t) ==
  /\ pc[t] = "returned"
  /\ view' = [view EXCEPT ![t].edited = TRUE]
  /\ results' = [i \in DOMAIN results |->
       IF t \in results[i].sharers THEN [results[i] EXCEPT !.view.edited = TRUE] ELSE results[i]]
  /\ UNCHANGED <<max_entries, pc, req, held, raced, alone, recent>>

Next ==
  \/ \E t \in Threads, r \in Requests : Call(t, r)
  \/ \E t \in Threads :
       \/ Touch(t) \/ Compute(t) \/ ComputeNone(t) \/ Uncopyable(t) \/ Insert(t)
       \/ Settle(t) \/ Trim(t) \/ Pop(t) \/ KeyError(t) \/ Edit(t)

Spec == Init /\ [][Next]_vars

-----------------------------------------------------------------------------
(* Properties *)

\* Every variable keeps to its type.
TypeOK ==
  /\ max_entries \in Limits
  /\ results \in Seq([key : Keys, view : View, sharers : SUBSET Threads])
  /\ pc \in [Threads -> Places]
  /\ req \in [Threads -> Request \cup {None}]
  /\ view \in [Threads -> View \cup {None}]
  /\ held \subseteq Keys /\ raced \subseteq Threads
  /\ alone \in BOOLEAN /\ recent \in Seq(Keys)

\* Whatever other threads put, move and evict in the meantime, and whatever hosts
\* do to the views they are handed: a call returns a view made for its own key, so
\* with handles its own session has put; what is kept is as it was made.
OwnView ==
  /\ \A t \in Threads : pc[t] = "returned" =>
       /\ view[t].session = req[t].session /\ view[t].sight = req[t].sight
       /\ <<view[t].session, view[t].sight>> \in held
  /\ \A i \in DOMAIN results :
       LET e == results[i] IN e.key = <<e.view.session, e.view.sight>> /\ ~e.view.edited

\* The hook raises only if another thread has evicted an entry during the call: a
\* host that calls it from one thread at a time never sees the KeyError.
OnlyRacesRaise == \A t \in Threads : pc[t] = "raised" => t \in raced

\* The memo is over its limit by at most one entry for each call that has put its
\* result and is not through with evicting, also after a KeyError.
Capacity == Len(results) <=
  Limit + Cardinality({t \in Threads : pc[t] \in {"settle", "trim", "pop"}})

\* As long as calls do not overlap, the memo holds exactly the Limit keys used
\* last, the least recent first in line to go: no view is made twice before that
\* many others were used.
RecentKept == alone /\ (\A t \in Threads : pc[t] \in Resting \cup {"touch", "compute", "insert"}) =>
  LET n == IF Len(recent) < Limit THEN Len(recent) ELSE Limit IN
  [i \in DOMAIN results |-> results[i].key] = SubSeq(recent, Len(recent) - n + 1, Len(recent))
=============================================================================
