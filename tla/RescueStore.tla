----------------------------- MODULE RescueStore -----------------------------
(***************************************************************************)
(* The rescue blob store: rescue_store.py over rescue_sqlite.py and        *)
(* rescue_sqlite_maintenance.py.                                           *)
(*                                                                         *)
(* Two surfaces hold the state.  The SQLite tables `blobs' and `ownership' *)
(* change only when a write transaction (BEGIN IMMEDIATE ... COMMIT)       *)
(* commits; the files under blobs/ change one at a time, in the middle of  *)
(* a transaction, and a rollback does not bring them back.  Processes put, *)
(* fetch, sweep and reconcile concurrently.  An operation is a sequence of *)
(* steps between which another process may run, an exception may be raised *)
(* or the process may be killed.                                           *)
(***************************************************************************)
EXTENDS Integers, FiniteSetsExt

CONSTANTS
  Procs,       \* processes (or threads) that open the store
  Sessions,    \* session ids, after safe_sid
  Contents,    \* tool results worth rescuing
  Handles,     \* the 12-hex prefixes of their SHA-256
  HandleOf,    \* [Contents -> Handles]: contents may collide on a prefix
  Size,        \* [Contents -> Nat]: bytes
  Roles,       \* [Procs -> SUBSET Ops]: which operations a process calls
  Faults,      \* SUBSET FaultKinds: what may go wrong
  TTL,         \* ttl_hours: age at which ownership expires
  TombTTL,     \* tombstone_ttl_hours: age at which a tombstone is dropped
  MaxBytes,    \* max_store_mb: the size cap
  MaxRetries,  \* bound: reruns of a transaction that met "locked"
  MaxClock,    \* bound: the clock stops here
  MaxDamage,   \* bound: files damaged or lost from outside
  None,        \* no process, no content, no file
  Damaged      \* bytes that are not those of any content

Ops        == {"put", "fetch", "sweep", "reconcile"}
Modes      == {"text", "grep", "stat"}
FaultKinds == {"locked", "raise", "crash", "damage"}

ASSUME ConstantsAssumption ==
  /\ HandleOf \in [Contents -> Handles]
  /\ Size \in [Contents -> Nat]
  /\ Roles \in [Procs -> SUBSET Ops]
  /\ Faults \subseteq FaultKinds
  /\ TTL \in Nat /\ TombTTL \in Nat /\ MaxBytes \in Nat
  /\ MaxRetries \in Nat /\ MaxClock \in Nat /\ MaxDamage \in Nat
  /\ None \notin Procs /\ None \notin Contents
  /\ Damaged \notin Contents /\ Damaged # None

VARIABLES
  clock,    \* time.time(), in units of the time-to-live
  row,      \* table blobs: row[h] = [content, created]
  own,      \* table ownership: own[s][h] = [state, created, swept]
  file,     \* blobs/<h>: a content, Damaged, or None when there is no file
  temps,    \* processes whose .tmp*.blob file is in blobs/
  strays,   \* a temp file whose writer was killed is in blobs/
  lock,     \* the process inside a write transaction, or None
  txOwn,    \* ownership as that transaction sees it (maintenance only)
  doomed,   \* handles whose file that transaction has still to move away
  pc,       \* what each process does next
  job,      \* the arguments and locals of its operation
  result,   \* what the operation that just ended returns
  issued,   \* history: the <<session, content>> pairs a put was accepted for
  damage    \* files damaged so far

vars == <<clock, row, own, file, temps, strays, lock, txOwn, doomed, pc, job,
          result, issued, damage>>
db    == <<row, own, issued>>
files == <<file, temps, strays>>
tx    == <<lock, txOwn, doomed>>
env   == <<clock, damage>>

-----------------------------------------------------------------------------
(* The tables, the operations' locals and their results. *)

Rows    == [content : Contents \cup {None}, created : Nat]
OwnRows == [state : {"absent", "live", "tombstone"}, created : Nat, swept : Nat]
NoRow   == [content |-> None, created |-> 0]
NoOwn   == [state |-> "absent", created |-> 0, swept |-> 0]
NoOwner == [s \in Sessions |-> [h \in Handles |-> NoOwn]]

PutJobs   == [s : Sessions, c : Contents, now : Nat, tries : Nat]
MaintJobs == [now : Nat, tries : Nat]
FetchJobs == [s : Sessions, h : Handles, mode : Modes,
              miss : {"unavailable", "notfound"}]

PutTxPcs   == {"put_temp", "put_replace", "put_check", "put_rows"}
MaintTxPcs == {"sweep_unlink", "reconcile_move"}
TxPcs      == PutTxPcs \cup MaintTxPcs
BeginPcs   == {"put_begin", "sweep_begin", "reconcile_begin"}
GrantPcs   == {"fetch_verify", "fetch_read", "stat_meta"}
FetchPcs   == GrantPcs \cup {"fetch_lookup", "fetch_tomb"}
Pcs        == {"idle", "done"} \cup TxPcs \cup BeginPcs \cup FetchPcs

\* The content a fetch returns, or how the operation ended without content.
Outcomes == [kind : {"stored", "collision", "swept", "reconciled", "stat",
                     "tombstone", "unavailable", "notfound", "binary", "error"}]
Served   == [kind : {"content"}, s : Sessions, h : Handles,
             c : Contents \cup {Damaged}]

ASSUME NoneAssumption ==
  None \notin Served \cup Outcomes \cup [s : Sessions, h : Handles]
              \cup [s : Sessions, h : Handles, c : Contents \cup {Damaged}]

Live(o, s, h) == o[s][h].state = "live"

\* Mutant: a file nobody but one session references is taken for unreferenced.
EverySession(o, h) == \A s \in Sessions : Live(o, s, h)
Referenced(o, h) == \E s \in Sessions : Live(o, s, h)

\* Mutant: a row of the content is proof enough that the file is there.
TrustRow(h, c) == row[h].content \in {None, c}

\* _blob_matches: the file is there and hashes to the row's full_hash and size.
BlobMatches(h, c) == file[h] = c

\* Mutant: the session is missing from the condition.
AnyOwner(s, h) == Referenced(own, h) /\ row[h].content # None

\* session_references, the query: the session owns the handle, whose row exists.
Authorized(s, h) == Live(own, s, h) /\ row[h].content # None

-----------------------------------------------------------------------------
Init ==
  /\ clock = 0
  /\ row = [h \in Handles |-> NoRow]
  /\ own = NoOwner
  /\ file = [h \in Handles |-> None]
  /\ temps = {} /\ strays = FALSE
  /\ lock = None /\ txOwn = NoOwner /\ doomed = {}
  /\ pc = [p \in Procs |-> "idle"]
  /\ job = [p \in Procs |-> None]
  /\ result = [p \in Procs |-> None]
  /\ issued = {} /\ damage = 0

Goto(p, l) == pc' = [pc EXCEPT ![p] = l]

\* The operation of p ends with result r, or with no content but the outcome k,
\* and its locals go.
Finish(p, r) ==
  /\ Goto(p, "done")
  /\ job' = [job EXCEPT ![p] = None]
  /\ result' = [result EXCEPT ![p] = r]
End(p, k) == Finish(p, [kind |-> k])

\* BEGIN IMMEDIATE: one process at a time gets past it.
BeginImmediate(p) == lock = None /\ lock' = p

\* COMMIT or ROLLBACK: the transaction's private view goes.
EndTx == lock' = None /\ txOwn' = NoOwner /\ doomed' = {}

\* The caller takes the result.
Return(p) ==
  /\ pc[p] = "done"
  /\ Goto(p, "idle")
  /\ result' = [result EXCEPT ![p] = None]
  /\ UNCHANGED <<db, files, tx, env, job>>

Start(p, op, l, j) ==
  /\ pc[p] = "idle" /\ op \in Roles[p]
  /\ Goto(p, l)
  /\ job' = [job EXCEPT ![p] = j]
  /\ UNCHANGED <<db, files, tx, env, result>>

-----------------------------------------------------------------------------
(* BlobStore.put -> OwnershipStore.put -> put_blob *)

\* `now' is read before the transaction: waiting for the lock makes it stale.
Put(p, s, c) ==
  Start(p, "put", "put_begin", [s |-> s, c |-> c, now |-> clock, tries |-> 0])

\* Another content has this handle: the put is refused (ValueError).
PutCollides(p) ==
  /\ pc[p] = "put_begin" /\ lock = None
  /\ row[HandleOf[job[p].c]].content \notin {None, job[p].c}
  /\ End(p, "collision")
  /\ UNCHANGED <<db, files, tx, env>>

\* The file is written when there is no row yet or it does not match the row.
PutBegin(p) ==
  LET c == job[p].c
      h == HandleOf[c]
  IN  /\ pc[p] = "put_begin"
      /\ row[h].content \in {None, c}
      /\ BeginImmediate(p)
      /\ Goto(p, IF row[h].content = c /\ BlobMatches(h, c)
                 THEN "put_rows" ELSE "put_temp")
      /\ UNCHANGED <<db, files, env, txOwn, doomed, job, result>>

\* _atomic_write: mkstemp and write ...
PutTemp(p) ==
  /\ pc[p] = "put_temp"
  /\ temps' = temps \cup {p}
  /\ Goto(p, "put_replace")
  /\ UNCHANGED <<db, tx, env, file, strays, job, result>>

\* ... then replace.
PutReplace(p) ==
  /\ pc[p] = "put_replace" /\ p \in temps
  /\ file' = [file EXCEPT ![HandleOf[job[p].c]] = job[p].c]
  /\ temps' = temps \ {p}
  /\ Goto(p, "put_check")
  /\ UNCHANGED <<db, tx, env, strays, job, result>>

\* The file just written is read back and does not match: refused.
PutRefused(p) ==
  /\ pc[p] = "put_check"
  /\ ~BlobMatches(HandleOf[job[p].c], job[p].c)
  /\ EndTx
  /\ End(p, "collision")
  /\ UNCHANGED <<db, files, env>>

\* INSERT INTO blobs keeps an existing row.  The upsert into ownership revives
\* a tombstone and leaves created_at as the first put of the session set it.
PutRows(p) ==
  LET j == job[p]
      h == HandleOf[j.c]
      o == own[j.s][h]
  IN  /\ \/ pc[p] = "put_rows"
         \/ pc[p] = "put_check" /\ BlobMatches(h, j.c)
      /\ row' = IF row[h].content = None
                THEN [row EXCEPT ![h] = [content |-> j.c, created |-> j.now]]
                ELSE row
      /\ own' = [own EXCEPT ![j.s][h] =
                   [state |-> "live", swept |-> 0,
                    created |-> IF o.state = "absent" THEN j.now ELSE o.created]]
      /\ issued' = issued \cup {<<j.s, j.c>>}
      /\ EndTx
      /\ End(p, "stored")
      /\ UNCHANGED <<files, env>>

-----------------------------------------------------------------------------
(* BlobStore.lazy_sweep -> sweep *)

Sweep(p) == Start(p, "sweep", "sweep_begin", [now |-> clock, tries |-> 0])

\* Mutant: a state the schema does not know.
ExpirePass(o, now) ==
  IF o.state = "live" /\ now - o.created > TTL THEN [o EXCEPT !.state = "expired"] ELSE o

TtlPass(o, now) ==
  IF o.state = "live" /\ now - o.created > TTL
  THEN [o EXCEPT !.state = "tombstone", !.swept = now] ELSE o

\* Mutant: the DELETE does not look at the state.
ForgetAnyPass(o, now) == IF now - o.swept > TombTTL THEN NoOwn ELSE o

ForgetPass(o, now) ==
  IF o.state = "tombstone" /\ now - o.swept > TombTTL THEN NoOwn ELSE o

\* Mutant: the UPDATE does not look at the state.
SizeAnyPass(o, victim, now) ==
  IF victim THEN [o EXCEPT !.state = "tombstone", !.swept = now] ELSE o

SizePass(o, victim, now) ==
  IF victim /\ o.state = "live"
  THEN [o EXCEPT !.state = "tombstone", !.swept = now] ELSE o

Bytes(S) == MapThenSumSet(LAMBDA h : Size[row[h].content], S)

\* The handles the size loop visits: the shortest run of blobs rows, oldest
\* first, whose recorded sizes bring the total of the files on disk down to the
\* cap.  Rows with no file add nothing to the total and are visited all the same.
\* Rows of one age come in any order.
SizeVictims ==
  LET rows  == {h \in Handles : row[h].content # None}
      total == Bytes({h \in rows : file[h] # None})
      Older(g, h) == row[g].created <= row[h].created
  IN  {V \in SUBSET rows :
         /\ \A g \in V, h \in rows \ V : Older(g, h)
         /\ total - Bytes(V) <= MaxBytes \/ V = rows
         /\ V # {} => \E last \in V :
              (\A g \in V : Older(g, last)) /\ total - Bytes(V \ {last}) > MaxBytes}

SweptOwn(V, now) ==
  [s \in Sessions |-> [h \in Handles |->
     SizePass(ForgetPass(TtlPass(own[s][h], now), now), h \in V, now)]]

SweepBegin(p) ==
  /\ pc[p] = "sweep_begin"
  /\ BeginImmediate(p)
  /\ \E V \in SizeVictims : txOwn' = SweptOwn(V, job[p].now)
  /\ doomed' = {h \in Handles : /\ row[h].content # None /\ file[h] # None
                                /\ ~Referenced(txOwn', h)}
  /\ Goto(p, "sweep_unlink")
  /\ UNCHANGED <<db, files, env, job, result>>

\* Files nobody references go one by one, before the COMMIT.
SweepUnlink(p, h) ==
  /\ pc[p] = "sweep_unlink" /\ h \in doomed
  /\ file' = [file EXCEPT ![h] = None]
  /\ doomed' = doomed \ {h}
  /\ UNCHANGED <<db, env, temps, strays, lock, txOwn, pc, job, result>>

\* Mutant: COMMIT before the files have gone.
CommitFirst(p, l, k) ==
  /\ pc[p] = l
  /\ own' = txOwn
  /\ EndTx
  /\ End(p, k)
  /\ UNCHANGED <<files, env, row, issued>>

\* COMMIT publishes the transaction's ownership rows.
MaintCommit(p, l, k) ==
  /\ pc[p] = l /\ doomed = {}
  /\ own' = txOwn
  /\ EndTx
  /\ End(p, k)
  /\ UNCHANGED <<files, env, row, issued>>

SweepCommit(p) == MaintCommit(p, "sweep_unlink", "swept")

-----------------------------------------------------------------------------
(* OwnershipStore.reconcile *)

Reconcile(p) ==
  Start(p, "reconcile", "reconcile_begin", [now |-> clock, tries |-> 0])

\* Live owners of a missing or damaged file are tombstoned, and files of no
\* blobs row are to be moved aside.
ReconcileBegin(p) ==
  /\ pc[p] = "reconcile_begin"
  /\ BeginImmediate(p)
  /\ txOwn' = [s \in Sessions |-> [h \in Handles |->
                 SizePass(own[s][h], ~BlobMatches(h, row[h].content), clock)]]
  /\ doomed' = {h \in Handles : row[h].content = None /\ file[h] # None}
  /\ Goto(p, "reconcile_move")
  /\ UNCHANGED <<db, files, env, job, result>>

QuarantineBlob(p, h) ==
  /\ pc[p] = "reconcile_move" /\ h \in doomed
  /\ file' = [file EXCEPT ![h] = None]
  /\ doomed' = doomed \ {h}
  /\ UNCHANGED <<db, env, temps, strays, lock, txOwn, pc, job, result>>

\* A temp file is a file of no row as well, whoever writes it.
QuarantineTemps(p) ==
  /\ pc[p] = "reconcile_move" /\ (strays \/ temps # {})
  /\ strays' = FALSE /\ temps' = {}
  /\ UNCHANGED <<db, tx, env, file, pc, job, result>>

ReconcileCommit(p) ==
  /\ ~strays /\ temps = {}
  /\ MaintCommit(p, "reconcile_move", "reconciled")

-----------------------------------------------------------------------------
(* BlobStore.fetch and, for mode grep, _run_grep *)

Fetch(p, s, h, m) ==
  Start(p, "fetch", "fetch_lookup",
        [s |-> s, h |-> h, mode |-> m, miss |-> "unavailable"])

FetchMiss(p, k) ==
  /\ End(p, k)
  /\ UNCHANGED <<db, files, tx, env>>

\* session_references looks for a live row ...
FetchLookup(p) ==
  LET j == job[p] IN
  /\ pc[p] = "fetch_lookup"
  /\ \/ /\ Authorized(j.s, j.h)
        /\ Goto(p, "fetch_verify")
        /\ UNCHANGED <<job, result>>
     \/ /\ ~Authorized(j.s, j.h)
        /\ IF j.mode = "grep" THEN End(p, "unavailable")
           ELSE Goto(p, "fetch_tomb") /\ UNCHANGED <<job, result>>
  /\ UNCHANGED <<db, files, tx, env>>

\* ... then reads the file, outside any transaction.
FetchVerify(p) ==
  LET j == job[p] IN
  /\ pc[p] = "fetch_verify"
  /\ \/ /\ BlobMatches(j.h, row[j.h].content)
        /\ Goto(p, "fetch_read")
        /\ job' = [job EXCEPT ![p].miss = "notfound"]
        /\ UNCHANGED result
     \/ /\ ~BlobMatches(j.h, row[j.h].content)
        /\ IF j.mode = "grep" THEN End(p, "unavailable")
           ELSE Goto(p, "fetch_tomb") /\ UNCHANGED <<job, result>>
  /\ UNCHANGED <<db, files, tx, env>>

\* _read_blob_text or blob_text: the file is read again and not verified again.
FetchRead(p) ==
  LET j == job[p] IN
  /\ pc[p] = "fetch_read" /\ j.mode # "stat"
  /\ \/ /\ file[j.h] # None
        /\ Finish(p, [kind |-> "content", s |-> j.s, h |-> j.h, c |-> file[j.h]])
     \/ /\ file[j.h] = Damaged                  \* no longer UTF-8
        /\ End(p, IF j.mode = "grep" THEN "notfound" ELSE "binary")
     \/ /\ file[j.h] = None
        /\ IF j.mode = "grep" THEN End(p, "notfound")
           ELSE Goto(p, "fetch_tomb") /\ UNCHANGED <<job, result>>
  /\ UNCHANGED <<db, files, tx, env>>

\* tombstone_message, or the message for a handle that has none.
FetchTomb(p) ==
  LET j == job[p] IN
  /\ pc[p] = "fetch_tomb"
  /\ FetchMiss(p, IF own[j.s][j.h].state = "tombstone" THEN "tombstone" ELSE j.miss)

\* _fetch_stat: the file's metadata ...
FetchStat(p) ==
  /\ pc[p] = "fetch_read" /\ job[p].mode = "stat"
  /\ Goto(p, IF file[job[p].h] = None THEN "fetch_tomb" ELSE "stat_meta")
  /\ UNCHANGED <<db, files, tx, env, job, result>>

\* ... then find_meta, whose answer may be "?" when the owner is gone by now.
FetchMeta(p) == pc[p] = "stat_meta" /\ FetchMiss(p, "stat")

-----------------------------------------------------------------------------
(* What goes wrong. *)

\* Mutant: no busy timeout.
NoTimeout(p) == FALSE

\* The busy timeout runs out while another process is in its transaction.
LockTimeout(p) ==
  /\ pc[p] \in BeginPcs /\ lock # None
  /\ End(p, "error")
  /\ UNCHANGED <<db, files, tx, env>>

\* "locked" inside the transaction: ROLLBACK, and _write_tx runs it again with
\* the same locals until its deadline.  Files already moved stay moved.
RetryTx(p) ==
  /\ "locked" \in Faults /\ pc[p] \in TxPcs /\ job[p].tries < MaxRetries
  /\ \/ pc[p] \in PutTxPcs       /\ Goto(p, "put_begin")
     \/ pc[p] = "sweep_unlink"   /\ Goto(p, "sweep_begin")
     \/ pc[p] = "reconcile_move" /\ Goto(p, "reconcile_begin")
  /\ job' = [job EXCEPT ![p].tries = @ + 1]
  /\ temps' = temps \ {p}
  /\ EndTx
  /\ UNCHANGED <<db, env, file, strays, result>>

\* Any other exception (a file or a query that fails): ROLLBACK, the temp file
\* is unlinked, the exception reaches the caller.
Raise(p) ==
  /\ "raise" \in Faults /\ pc[p] \in TxPcs \cup FetchPcs
  /\ temps' = temps \ {p}
  /\ IF lock = p THEN EndTx ELSE UNCHANGED tx
  /\ End(p, "error")
  /\ UNCHANGED <<db, env, file, strays>>

\* The process is killed and a new one takes its place.  SQLite rolls back;
\* the temp file stays.
Crash(p) ==
  /\ "crash" \in Faults /\ pc[p] \notin {"idle", "done"}
  /\ strays' = (strays \/ p \in temps)
  /\ temps' = temps \ {p}
  /\ IF lock = p THEN EndTx ELSE UNCHANGED tx
  /\ Goto(p, "idle")
  /\ job' = [job EXCEPT ![p] = None]
  /\ UNCHANGED <<db, env, file, result>>

\* Something outside the program truncates, alters or removes a blob file.
Damage(h) ==
  /\ "damage" \in Faults /\ damage < MaxDamage /\ file[h] # None
  /\ file' = [file EXCEPT ![h] = Damaged] \/ file' = [file EXCEPT ![h] = None]
  /\ damage' = damage + 1
  /\ UNCHANGED <<db, tx, clock, temps, strays, pc, job, result>>

Tick ==
  /\ clock < MaxClock
  /\ clock' = clock + 1
  /\ UNCHANGED <<db, files, tx, damage, pc, job, result>>

-----------------------------------------------------------------------------
PutStep(p) == PutCollides(p) \/ PutBegin(p) \/ PutTemp(p) \/ PutReplace(p)
              \/ PutRefused(p) \/ PutRows(p)

SweepStep(p) == SweepBegin(p) \/ SweepCommit(p) \/ \E h \in Handles : SweepUnlink(p, h)

ReconcileStep(p) == ReconcileBegin(p) \/ ReconcileCommit(p) \/ QuarantineTemps(p)
                    \/ \E h \in Handles : QuarantineBlob(p, h)

FetchStep(p) == FetchLookup(p) \/ FetchVerify(p) \/ FetchRead(p) \/ FetchTomb(p)
                \/ FetchStat(p) \/ FetchMeta(p)

\* One step of the operation p is in.
Step(p) == PutStep(p) \/ SweepStep(p) \/ ReconcileStep(p) \/ FetchStep(p)
           \/ LockTimeout(p) \/ Return(p)

\* The caller starts an operation.
Call(p) ==
  \/ \E s \in Sessions, c \in Contents : Put(p, s, c)
  \/ \E s \in Sessions, h \in Handles, m \in Modes : Fetch(p, s, h, m)
  \/ Sweep(p)
  \/ Reconcile(p)

Next ==
  \/ \E p \in Procs : Step(p) \/ Call(p) \/ RetryTx(p) \/ Raise(p) \/ Crash(p)
  \/ \E h \in Handles : Damage(h)
  \/ Tick

\* A process that is inside an operation keeps running; nobody has to call,
\* fail, crash or wait for the clock.
Spec == Init /\ [][Next]_vars /\ \A p \in Procs : WF_vars(Step(p))

-----------------------------------------------------------------------------
(* Properties *)

\* Every variable keeps to its type, and the locals of an operation fit the
\* step its process is at.
JobOK(p) ==
  /\ pc[p] \in PutTxPcs \cup {"put_begin"} => job[p] \in PutJobs
  /\ pc[p] \in MaintTxPcs \cup {"sweep_begin", "reconcile_begin"} => job[p] \in MaintJobs
  /\ pc[p] \in FetchPcs => job[p] \in FetchJobs

ControlOK ==
  /\ pc \in [Procs -> Pcs]
  /\ job \in [Procs -> PutJobs \cup MaintJobs \cup FetchJobs \cup {None}]
  /\ result \in [Procs -> Served \cup Outcomes \cup {None}]
  /\ \A p \in Procs : JobOK(p)

DataOK ==
  /\ clock \in Nat /\ damage \in Nat
  /\ row \in [Handles -> Rows]
  /\ own \in [Sessions -> [Handles -> OwnRows]]
  /\ file \in [Handles -> Contents \cup {Damaged, None}]
  /\ temps \subseteq Procs /\ strays \in BOOLEAN
  /\ lock \in Procs \cup {None}
  /\ txOwn \in [Sessions -> [Handles -> OwnRows]]
  /\ doomed \subseteq Handles
  /\ issued \subseteq Sessions \X Contents

TypeOK == ControlOK /\ DataOK

\* Fail-closed and exact: whatever interleaving of puts, sweeps, repairs, crashes
\* and damage a fetch lives through, the content it returns to a session is one
\* a put of that same session was accepted for (or the file was damaged from
\* outside while the fetch was between its two reads).
FetchExact ==
  \A p \in Procs : result[p] \in Served =>
    \/ result[p].c = Damaged
    \/ <<result[p].s, result[p].c>> \in issued /\ HandleOf[result[p].c] = result[p].h

\* The rows and files a fetch relies on: a live row belongs to a session that
\* stored the content of the handle's blobs row, a file of a known handle has
\* that content or none that verifies, and neither changes under a fetch that was
\* authorized or a put that found the handle free.
OwnedRows == \A s \in Sessions, h \in Handles :
  Live(own, s, h) => row[h].content # None /\ <<s, row[h].content>> \in issued
BoundRows == \A h \in Handles : row[h].content # None =>
  HandleOf[row[h].content] = h /\ file[h] \in {row[h].content, Damaged, None}
PutRowsFit == \A p \in Procs : pc[p] \in PutTxPcs =>
  LET bound == row[HandleOf[job[p].c]].content
  IN  bound \in {None, job[p].c} /\ (pc[p] = "put_rows" => bound = job[p].c)
GrantsFit == \A p \in Procs : pc[p] \in GrantPcs =>
  LET bound == row[job[p].h].content
  IN  bound # None /\ <<job[p].s, bound>> \in issued
Provenance == OwnedRows /\ BoundRows /\ PutRowsFit /\ GrantsFit

\* One process at a time is in a write transaction, and the lock is never left
\* behind; the temp file of a running put is never taken by reconcile; and the
\* rows a maintenance run is about to publish revive no row that is gone.
SingleWriter ==
  /\ \A p \in Procs : pc[p] \in TxPcs <=> lock = p
  /\ \A p \in Procs : pc[p] = "put_replace" <=> p \in temps
  /\ \A s \in Sessions, h \in Handles : Live(txOwn, s, h) => Live(own, s, h)

\* The transaction that removes files and has not committed yet.
Retiring(s, h) == lock # None /\ ~Live(txOwn, s, h) /\ pc[lock] = "sweep_unlink"

\* As long as no transaction fails and nothing touches the files, a handle a
\* session may redeem has its file, except while the sweep that is taking the
\* handle away runs.
LiveHasBlob ==
  \A s \in Sessions, h \in Handles :
    Live(own, s, h) => BlobMatches(h, row[h].content) \/ Retiring(s, h)

\* When a put returns its handle, the session may redeem it at once: the
\* ownership row is live and the file is there, whoever swept, crashed or
\* rolled back before.
PutDelivers ==
  [][\A p \in Procs, s \in Sessions, c \in Contents :
       pc[p] \in PutTxPcs /\ pc'[p] = "done" /\ result'[p] = [kind |-> "stored"]
         /\ job[p].s = s /\ job[p].c = c
       => Live(own', s, HandleOf[c]) /\ file'[HandleOf[c]] = c]_vars

\* A session that loses a handle is told so: the row goes through a tombstone
\* before it disappears, also when one sweep both expires and forgets.
LossIsAnnounced ==
  [][\A s \in Sessions, h \in Handles :
       Live(own, s, h) => own'[s][h].state # "absent"]_vars

\* A committed sweep leaves no file that no session references: a put that ran
\* before or after it is not in the way, and its file is not taken either.
SweepCollects ==
  [][\A p \in Procs : pc[p] = "sweep_unlink" /\ result'[p] = [kind |-> "swept"] =>
       \A h \in Handles : row'[h].content # None =>
         (file'[h] # None <=> Referenced(own', h))]_vars

\* A committed reconcile repairs what a crash or a rollback left behind: every
\* live handle has its file, and blobs/ holds no file that no row names.
ReconcileHeals ==
  [][\A p \in Procs : pc[p] = "reconcile_move" /\ result'[p] = [kind |-> "reconciled"] =>
       /\ \A s \in Sessions, h \in Handles :
            Live(own', s, h) => file'[h] = row'[h].content
       /\ \A h \in Handles : row'[h].content = None => file'[h] = None
       /\ ~strays']_vars

\* Every call returns, or its process dies: nobody waits for the lock for ever.
CallsReturn == \A p \in Procs : pc[p] # "idle" ~> pc[p] = "idle"

-----------------------------------------------------------------------------
(* RescueStore implements RescueContract. *)

Status(o)   == IF o.state = "absent" THEN "none"
               ELSE IF o.state = "live" THEN "live" ELSE "swept"
GrantOf(p)  == IF pc[p] \in GrantPcs THEN [s |-> job[p].s, h |-> job[p].h] ELSE None
AnswerOf(p) == IF result[p] \in Served
               THEN [s |-> result[p].s, h |-> result[p].h, c |-> result[p].c] ELSE None

Contract == INSTANCE RescueContract WITH
  Corrupted <- IF "damage" \in Faults THEN {Damaged} ELSE {},
  bound     <- [h \in Handles |-> row[h].content],
  status    <- [s \in Sessions |-> [h \in Handles |-> Status(own[s][h])]],
  grant     <- [p \in Procs |-> GrantOf(p)],
  answer    <- [p \in Procs |-> AnswerOf(p)]

\* Seen through their sessions' handles, the database, the files, the lock and
\* the clock are RescueContract.
ImplementsContract == Contract!CSpec

-----------------------------------------------------------------------------
(* What the documentation says and the code does not do. *)

\* docs/configuration.md: "Store size cap before oldest blobs are swept".  After
\* a sweep the files are within the cap.  Rows whose file went earlier are
\* subtracted from a total they were not counted in.
SweepEnforcesCap ==
  [][\A p \in Procs : pc[p] = "sweep_unlink" /\ result'[p] = [kind |-> "swept"] =>
       Bytes({h \in Handles : file'[h] # None /\ row[h].content # None}) <= MaxBytes]_vars
=============================================================================
