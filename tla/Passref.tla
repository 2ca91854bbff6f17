------------------------------- MODULE Passref -------------------------------
(***************************************************************************)
(* The tool_request middleware of passref.py: the tla:<handle> occurrences *)
(* in the arguments of one tool call are replaced, in order, by the        *)
(* content they stand for or by a marker.                                  *)
(*                                                                         *)
(* Every occurrence costs up to four reads of the rescue store (the row,   *)
(* the file against the row, the file's existence, the file again), none   *)
(* of them in one transaction with another, and each may fail: meanwhile   *)
(* other processes put, sweep and reconcile.  Their operations are as      *)
(* coarse here as the reads can tell; RescueStore has them in detail, and  *)
(* files damaged or removed by something other than the program too.       *)
(***************************************************************************)
EXTENDS Integers, Sequences, FiniteSetsExt

CONSTANTS
  Handles,     \* 12-hex handles
  Length,      \* [Handles -> Nat]: characters of their contents
  MaxChars,    \* tokenjuice_passref_max_chars
  TotalMax,    \* tokenjuice_passref_total_max_chars
  MarkerChars, \* characters of the truncation marker
  Calls        \* the tool calls to consider

\* How the configuration and the tool's name decide: malformed arguments,
\* read_file and diagnostics; sink tools and tools not allowed; allowed ones.
Tools == {"exempt", "denied", "allowed"}
Call  == [enabled : BOOLEAN, tool : Tools, session : BOOLEAN, args : Seq(Handles)]

ASSUME PassrefAssumption ==
  /\ Length \in [Handles -> Nat]
  /\ MaxChars \in Nat /\ TotalMax \in Nat /\ MarkerChars \in Nat
  /\ Calls \subseteq Call

VARIABLES
  live,      \* committed ownership rows: who holds what
  going,     \* those the sweep under way takes, {} while there is none
  file,      \* handles whose file is in blobs/
  call,      \* the call under way
  pc,        \* where it is
  opened,    \* FALSE: opening the store met a PermissionError, and the store
             \* is there without its tables and refuses everything
  out,       \* what the occurrences so far were replaced by
  total,     \* budget.total
  counted,   \* counters incremented by the call
  result,    \* "none": arguments unchanged; "rewritten"; "raised"
  ever,      \* history: handles the session held at some time of the call
  always,    \* history: handles whose file was there as the call began and whose
             \* row no sweep or reconcile has taken or tried to take
  faulty     \* history: occurrences with a read that failed with the file there

vars  == <<live, going, file, call, pc, opened, out, total, counted, result,
           ever, always, faulty>>
store == <<live, going, file, ever, always>>

Owners  == {"session", "others"}
Places  == {"gate", "open", "next", "verify", "exists", "read", "done"}
Markers == {"missing", "foreign", "budget", "denied"}
Piece   == [kind : {"content", "truncated"} \cup Markers, chars : Nat]
Marker(k) == [kind |-> k, chars |-> 0]

Init ==
  /\ live = {} /\ going = {} /\ file = {}
  /\ call \in Calls
  /\ pc = "gate" /\ opened = TRUE
  /\ out = <<>> /\ total = 0 /\ counted = {} /\ result = "none"
  /\ ever = {} /\ always = Handles /\ faulty = {}

-----------------------------------------------------------------------------
(* The store, in other hands *)

\* BEGIN IMMEDIATE lets one transaction write at a time.
Unlocked == going = {}

\* The file of a put is there before its row, which may never come.
PutFile(h) ==
  /\ Unlocked
  /\ file' = file \cup {h}
  /\ UNCHANGED <<live, going, ever, always>>

Put(o, h) ==
  /\ Unlocked
  /\ live' = live \cup {<<o, h>>} /\ file' = file \cup {h}
  /\ ever' = IF o = "session" THEN ever \cup {h} ELSE ever
  /\ UNCHANGED <<going, always>>

\* Reconcile takes a row whose file is missing, cannot be read or does not match.
Retire(o, h) ==
  /\ Unlocked /\ <<o, h>> \in live
  /\ live' = live \ {<<o, h>>}
  /\ always' = IF o = "session" THEN always \ {h} ELSE always
  /\ UNCHANGED <<going, file, ever>>

\* A sweep takes rows ...
SweepBegin ==
  /\ Unlocked
  /\ going' \in SUBSET live \ {{}}
  /\ always' = {h \in always : <<"session", h>> \notin going'}
  /\ UNCHANGED <<live, file, ever>>

Kept(h) == \E o \in Owners : <<o, h>> \in live \ going

\* ... unlinks the files that no other row has, those that tombstones left behind
\* among them ...
SweepUnlink(h) ==
  /\ ~Kept(h)
  /\ file' = file \ {h}
  /\ UNCHANGED <<live, going, ever, always>>

\* ... and commits: only now do readers miss the rows.
SweepCommit ==
  /\ ~Unlocked /\ \A e \in going : Kept(e[2]) \/ e[2] \notin file
  /\ live' = live \ going /\ going' = {}
  /\ UNCHANGED <<file, ever, always>>

\* An exception, a COMMIT that fails or a kill brings the rows back, not the files.
SweepRollback ==
  /\ ~Unlocked
  /\ going' = {}
  /\ UNCHANGED <<live, file, ever, always>>

Environment ==
  /\ \/ \E h \in Handles : PutFile(h) \/ SweepUnlink(h)
     \/ \E o \in Owners, h \in Handles : Put(o, h) \/ Retire(o, h)
     \/ SweepBegin \/ SweepCommit \/ SweepRollback
  /\ UNCHANGED <<call, pc, opened, out, total, counted, result, faulty>>

-----------------------------------------------------------------------------
(* The middleware *)

End(r) == pc' = "done" /\ result' = r

\* Disabled, malformed or hard-exempt: the arguments are left alone.
PassExact ==
  /\ pc = "gate" /\ (~call.enabled \/ call.tool = "exempt")
  /\ End("none")
  /\ UNCHANGED <<store, call, opened, faulty, out, total, counted>>

\* _maybe_deny_args: the tool may not expand, or there is no session.
Deny ==
  /\ pc = "gate" /\ call.enabled
  /\ call.tool = "denied" \/ (call.tool = "allowed" /\ ~call.session)
  /\ counted' = {"denied"}
  /\ out' = [i \in DOMAIN call.args |-> Marker("denied")]
  /\ End(IF call.args = <<>> THEN "none" ELSE "rewritten")
  /\ UNCHANGED <<store, call, opened, faulty, total>>

\* The session's history starts with the store being opened.
Begin ==
  /\ pc = "gate" /\ call.enabled /\ call.tool = "allowed" /\ call.session
  /\ pc' = "open"
  /\ ever' = {h \in Handles : <<"session", h>> \in live}
  /\ always' = {h \in file : <<"session", h>> \in live \ going}
  /\ UNCHANGED <<live, going, file, call, opened, out, total, counted, result, faulty>>

\* get_store: a new BlobStore; a PermissionError of its constructor is passed over,
\* another OSError or a ValueError is no store at all.
OpenStore ==
  /\ pc = "open" /\ pc' = "next"
  /\ opened' \in BOOLEAN
  /\ UNCHANGED <<store, call, out, total, counted, result, faulty>>

NoStore == pc = "open" /\ End("none") /\ UNCHANGED <<store, call, opened, faulty, out, total, counted>>

\* The occurrence at hand.
Occurrence == call.args[Len(out) + 1]
Pending    == Len(out) < Len(call.args)

\* Mutant: the loop stays where it is.
ReplaceInPlace(piece, n) ==
  /\ out' = Append(out, piece)
  /\ total' = total + n
  /\ UNCHANGED <<pc, store, call, opened, counted, result>>

Replace(piece, n) ==
  /\ out' = Append(out, piece)
  /\ total' = total + n
  /\ pc' = "next"
  /\ UNCHANGED <<store, call, opened, counted, result>>

Read(p) == pc' = p /\ UNCHANGED <<store, call, opened, out, total, counted, result>>

\* Whether a read of the file of the occurrence fails although the file is there.
NoFault == UNCHANGED faulty
Fault   == Occurrence \in file /\ faulty' = faulty \cup {Len(out) + 1}

\* Mutant: the budget is spent as soon as the next content might not fit.
NearlySpent == total + MaxChars > TotalMax
Spent == total >= TotalMax

\* sqlite3.Error, as the store is opened or a row is read, leaves the middleware,
\* and so does the OSError of Path.exists.
Raise ==
  /\ \/ pc \in {"open", "exists"}
     \/ pc = "next" /\ Pending /\ ~Spent /\ opened
  /\ End("raised")
  /\ UNCHANGED <<store, call, opened, faulty, out, total, counted>>

BudgetExceeded ==
  /\ pc = "next" /\ Pending /\ Spent
  /\ Replace(Marker("budget"), 0) /\ NoFault

\* Mutant: the session is missing from the condition.
AnyRow(h) == \E o \in Owners : <<o, h>> \in live

\* session_references: the committed row, then the file against the row.
RowLive(h) == <<"session", h>> \in live

LookUp ==
  /\ pc = "next" /\ Pending /\ ~Spent
  /\ Read(IF opened /\ RowLive(Occurrence) THEN "verify" ELSE "exists") /\ NoFault

\* _blob_matches: a file that is not there does not match, nor one that cannot be
\* read.
Verify ==
  /\ pc = "verify"
  /\ \/ Read(IF Occurrence \in file THEN "read" ELSE "exists") /\ NoFault
     \/ Read("exists") /\ Fault

\* has_blob, to choose the marker; newer releases of Python have no OSError here
\* and say that the file is not there.
Exists ==
  /\ pc = "exists"
  /\ \E k \in {"foreign", "missing"} :
       /\ k = "foreign" => Occurrence \in file
       /\ Replace(Marker(k), 0)
  /\ NoFault

\* Mutant: the cap of one handle only.
HandleCap == MaxChars
\* min(cfg.max_chars, remaining)
Cap == IF MaxChars < TotalMax - total THEN MaxChars ELSE TotalMax - total

\* blob_text: the file once more; what does not fit is cut, and the marker that
\* says so counts.
Expand ==
  /\ pc = "read" /\ Occurrence \in file
  /\ LET n == IF Length[Occurrence] > Cap THEN Cap + MarkerChars ELSE Length[Occurrence]
     IN  Replace([kind |-> IF Length[Occurrence] > Cap THEN "truncated" ELSE "content",
                  chars |-> n], n)
  /\ NoFault

\* The file is not there any more, cannot be read, or is not UTF-8.
Unreadable ==
  /\ pc = "read"
  /\ \/ Occurrence \notin file /\ NoFault
     \/ Fault
  /\ Replace(Marker("missing"), 0)

Has(k) == \E i \in DOMAIN out : out[i].kind = k

\* The arguments are rewritten when there was any occurrence.
Finish ==
  /\ pc = "next" /\ ~Pending
  /\ counted' = (IF out = <<>> THEN {} ELSE {"expansion"})
                \cup (IF Has("truncated") THEN {"truncated"} ELSE {})
                \cup (IF Has("budget") THEN {"budget"} ELSE {})
  /\ End(IF out = <<>> THEN "none" ELSE "rewritten")
  /\ UNCHANGED <<store, call, opened, faulty, out, total>>

Middleware == PassExact \/ Deny \/ Begin \/ OpenStore \/ NoStore \/ Raise
              \/ BudgetExceeded \/ LookUp \/ Verify \/ Exists \/ Expand \/ Unreadable \/ Finish

Next == Middleware \/ Environment

Spec == Init /\ [][Next]_vars

-----------------------------------------------------------------------------
(* Properties *)

\* Every variable keeps to its type, and inside the loop there is an occurrence
\* to deal with.
TypeOK ==
  /\ live \subseteq Owners \X Handles /\ going \subseteq live /\ file \subseteq Handles
  /\ ever \subseteq Handles /\ always \subseteq Handles /\ faulty \subseteq 1 .. Len(call.args)
  /\ call \in Call /\ pc \in Places /\ opened \in BOOLEAN
  /\ out \in Seq(Piece) /\ total \in Nat
  /\ Len(out) <= Len(call.args)
  /\ pc \in {"verify", "exists", "read"} => Pending
  /\ counted \subseteq {"denied", "expansion", "truncated", "budget"}
  /\ result \in {"none", "rewritten", "raised"}

\* Content goes only to a tool that may have it and stands only for handles the
\* session held during the call, although its row and file are read apart while
\* sweeps and other sessions' puts go on.
OnlyHeld == \A i \in DOMAIN out : out[i].kind \in {"content", "truncated"} =>
  call.enabled /\ call.tool = "allowed" /\ call.session /\ call.args[i] \in ever

\* A call inserts no more than its total budget and one truncation marker: what
\* passes the budget is the last insertion, and its marker is what does.
BudgetBound == total <= TotalMax + MarkerChars

\* Whatever other processes put, sweep, roll back and reconcile between the reads: an
\* occurrence whose reads do not fail, of a handle whose row no sweep or reconcile has
\* tried to take and that had its file as the call began, is never refused.  It gets
\* its content in full, unless that passes the cap of one handle or what is left of
\* the budget, or the occurrences before it have used the budget up.
Inserted(n) == MapThenSumSet(LAMBDA i : out[i].chars, 1 .. n)
FullWhenHeld == result = "rewritten" /\ "expansion" \in counted /\ opened =>
  \A i \in DOMAIN out : call.args[i] \in always /\ i \notin faulty =>
    LET left == TotalMax - Inserted(i - 1)
    IN  \/ out[i] = [kind |-> "content", chars |-> Length[call.args[i]]]
        \/ out[i].kind = "truncated" /\ Length[call.args[i]] > Min({MaxChars, left})
        \/ out[i].kind = "budget" /\ left <= 0
=============================================================================
