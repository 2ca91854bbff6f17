# tokenjuice-hermes in TLA+

tokenjuice-hermes is a plugin of the Hermes agent host that keeps tool results
from filling the model's context. It cuts long results, stores what it takes out
in a *rescue store* on disk under a handle the model can redeem, expands such
handles in tool arguments, and prunes a whole prompt when it gets too long. The
modules here model the parts of it that can lose, leak or misplace content. TLC
checks them on small instances, and TLAPS proves the most important results for
every instance.

## 1. Inventory

| Part | Code (`tokenjuice_hermes/`) | State | Operations |
| --- | --- | --- | --- |
| Rescue store | `rescue_store.py`, `rescue_sqlite.py`, `rescue_sqlite_types.py`, `rescue_sqlite_maintenance.py` | SQLite tables `blobs`, `ownership`; files in `blobs/`; SQLite's write lock | `put`, `fetch` (text, grep, stat), `lazy_sweep`, `reconcile` |
| Fetch tool | `rescue_fetch.py`, `rescue_handles.py` | none | `rescuer_fetch` → `fetch`, `_run_grep` |
| Opening the store | `rescue_sqlite_schema.py`, `rescue_sqlite_migration.py`, `rescue_index.py` | legacy `sessions/*.json`, the `migrated` marker, `migration-quarantine/` | schema upgrade, migration |
| Structured pruning | `structured_pruning*.py` | none but the memo (an LRU of 32 results) | one call per prompt |
| Passref | `passref.py` | the budget of one call, counters | the `tool_request` middleware |
| Tool results | `compaction.py`, `compaction_options.py`, `rescue_transform.py` | none | the `transform_tool_result` hook |
| Registration | `plugin.py` | what the host accepted | `register(ctx)` |
| Request history | `request_pruning.py` | none | the `llm_request` middleware |
| Observability | `observability.py` | process-wide counters | increments, `snapshot` |
| Configuration, JSON, excerpts | `hermes_config.py`, `structured_pruning_config.py`, `json_types.py`, `rescue_excerpt.py`, `rescue_grep.py` | none | parsing and text |
| Not called by the plugin | `rescue_sweep.py` | | |

**How they interact.** `register` hands hooks to the host. A hook builds a new
`BlobStore` for every call, so the *store on disk* is the state that calls,
threads and processes share. Construction runs the schema upgrade and, while its
marker is absent, the migration. Compaction and structured pruning put; passref
and the fetch tool read. `lazy_sweep` and `reconcile` are operations of
`BlobStore` that nothing in the plugin calls: an operator or a host does, in any
process and at any time.

**What is hard.**

- Rows change when a transaction commits, files one at a time in the middle of
  it, and a rollback does not restore files.
- Reads run in no transaction: a fetch authorizes, verifies and reads apart, and
  passref makes up to four reads for each occurrence.
- A handle is 48 bits of a hash, so contents may collide on one.
- A transaction that meets `locked` is run again with the locals of its first
  run, and any step may raise or be the last of a killed process.
- Migrations of several processes overlap with each other and with an opened store.
- In a prompt, protection is decided per contribution, removal per atomic group,
  rescue per member.
- The memo of results and the counters are shared by the threads of the host
  without a lock.
- A request is made anew from a transcript that grows, or goes through again, and
  what an earlier stage did to a text decides what a later one sees in it.

**What makes each part correct.**

- *Store*: a session gets back what it stored, and never what another stored;
  a put that returned is redeemable; loss is announced by a tombstone; a sweep
  collects, a reconcile heals; every call returns.
- *Migration*: rows say what the indexes and files say; the marker means it is
  finished; nobody gains a handle.
- *Structured pruning*: protected content stays, tool calls and results stay
  together, an excerpt's content is in the store, the view fits, the earliest
  part of the prompt (the provider's cache prefix) is touched last.
- *Passref*: content only for who holds the handle, within the budget, and in
  full when nothing forbids it.
- *Tool results*: an excerpt only if its handle can be redeemed; diagnostics of
  errors stay.
- *Memo*: a call gets a view that was made for its own request and session, only
  a race makes it raise, the memo keeps to its limit and to the entries used last.
- *Request history*: recent results, other tools and visible errors are exact, a
  text is cut once, the part of the request a provider has cached does not change.
- *Counters*: never more than was added, and never less than what was added with
  nothing in the way.

`PROJECT.json` lists the same parts under `components`, and every place where
they may go wrong under `hazards`.

## 2. Modules

| Module | What it is |
| --- | --- |
| `RescueContract` | What the store promises: handles bound to contents, sessions that hold, lose and forget them, calls granted and answered. No database, file, lock or clock. |
| `RescueStore` | The store step by step; implements `RescueContract` (`Contract == INSTANCE ...`). |
| `Migration` | Constructors of several processes at once, and the store in use meanwhile. |
| `PruneGroups` | Grouping, protection, windows and selection as operators over a prompt. |
| `StructuredPruning` | One call over `PruneGroups`: prepare, put, apply, retry, finish or give up. |
| `Passref` | One tool call, occurrence by occurrence, while other processes put and sweep. |
| `Memo` | The pruning hook in several threads over the memo, operation by operation on the ordered dictionary. |
| `RequestPruning` | The `llm_request` middleware over requests made from a growing transcript. |
| `Observability` | The counters: loads and stores of threads, and a snapshot that reads them one by one. |
| `ToolResults` | `register` against a host that may refuse or fail, then the results of tools. |
| `RescueStoreProofs`, `StructuredPruningProofs`, `PassrefProofs`, `MemoProofs`, `ObservabilityProofs`, `RequestPruningProofs`, `MigrationProofs`, `ToolResultsProofs` | Theorems. |
| `MC...` | Values for TLC. |

### How `RescueStore` corresponds to the code

`row` and `own` are the tables as committed, `file`, `temps` and `strays` the
directory `blobs/`, `lock` the process between `BEGIN IMMEDIATE` and `COMMIT`.
`txOwn` is what a maintenance transaction sees of `ownership` before it commits.
`pc` and `job` are the place and locals of a process inside an operation, and
`result` what it returns. Each operation is cut where something another process
can see changes, or where something read may be stale when used:

- `put_blob`: `PutBegin` (lock, look at the row, verify the file) or
  `PutCollides`; `PutTemp`, `PutReplace` (`_atomic_write`); `PutRefused` or
  `PutRows` (verify, write the rows, commit).
- `sweep`: `SweepBegin` (expire, forget, size loop), `SweepUnlink` for each file,
  `SweepCommit`.
- `reconcile`: `ReconcileBegin`, `QuarantineBlob` and `QuarantineTemps`,
  `ReconcileCommit`.
- `fetch`: `FetchLookup` (the query), `FetchVerify` (the file against the row),
  `FetchRead` (the second read), or `FetchStat` and `FetchMeta`; `FetchTomb`.
- What goes wrong: `LockTimeout` (busy timeout), `RetryTx` (`locked`, rerun),
  `Raise` (rollback), `Crash`, `Damage` (files altered from outside), `Tick`.

`issued` is a history variable: the pairs a put was accepted for. Left out are
the wording of answers, the slicing of lines and the checks of arguments.

### How the others correspond

- `Migration`: `pc` is the place in the constructor, `todo`, `cur`, `item` and
  `completed` are its locals. `RescueStore` has puts and sweeps in detail; here a put is one step,
  which may leave its file and no row (`PutAborts`, `MigratePutAborts`), and a sweep
  begins, unlinks file by file, and commits, rolls back or is killed. `held`,
  `dropped`, `misread`, `used` and `lost` are histories: `misread` are entries that an
  OSError on their file left out, `lost` are live rows whose file a sweep took that
  did not commit.
  A marker with any text but the right one counts as absent, as in the code.
- `PruneGroups` takes `parse_contributions` as done. A group is the set of its
  positions, savings are sums of token estimates. `StructuredPruning` adds what
  `parse_config` accepts (an option or a contribution that does not parse is in
  `rejected`), where the threshold comes from, the pressure, trigger and target
  arithmetic, the route, the puts (each of which may
  fail, leaving earlier ones stored), the token accounting of `apply_pruned_groups`
  and the one retry.
- `Passref`: nested arguments are the sequence of the occurrences in them. `live` are
  the committed rows, `going` those that a sweep is taking: it unlinks files while
  readers still see the rows, and may roll back. `opened` is FALSE for a store whose
  constructor met the PermissionError that it passes over: it answers, and owns
  nothing. Every read of a file may fail with the file there (`Fault`), by an OSError or
  as contents that are not UTF-8. `ever`, `always` and `faulty` are histories.
- `Memo`: `results` is `_results` in its order, `pc` the place of a thread in
  `reuse_or_compute`. Every operation on the dictionary is a step, because a thread
  may be suspended between any two of them. `sharers` are the threads that were
  handed the very object that is kept: the deep copies keep it empty, and the
  proof of `ViewsAreOwn` shows it. A handle in a view is the session it was put
  for. `held`, `raced`, `alone` and `recent` are histories.
- `RequestPruning`: a message is what the middleware looks at. A text is its size,
  what `_cut_head` and `_cut_tail` leave of it (they stop at a line end in the outer
  half of their window), and whether it parses as a flat object, before and after
  a cut. `request` is what is about to be sent; the transcript is never rewritten.
- `Observability`: `x += n` is a load and a store. CPython may or may not switch
  threads in between, depending on its version; the language promises nothing, so
  the model grants every switch. `mixed` marks additions that another one to the
  same counter ran into; `isolated` and `done` count what was added without and
  with them.
- `ToolResults`: a text is how long it is in characters and lines and whether a
  diagnostic is embedded in it. A surface may be accepted, refused, missing or
  blow up.

Definitions commented *Mutant* are changes a plausible bug would make. They are
used nowhere; each names the definition below it and shows that a property
notices.

## 3. Runs

| Run | Question | Bounds |
| --- | --- | --- |
| `StoreDamage` | Does a session get only what it stored, under any interleaving, exception, kill, damage and collision? Is every step one of the contract? | 2 processes (client: put and fetch; keeper: sweep and reconcile), 2 sessions, 2 contents colliding on one handle, 1 tick, 1 damaged file |
| `StoreSound` | Without faults: does a live handle have its file, is loss announced, do sweeps collect? | 2 processes (put; put and sweep), 2 sessions, 2 handles that exceed the cap together, 1 tick |
| `StoreCrash` | With faults: does a returned put deliver, does reconcile heal, does every call return? | 2 processes, 1 session, 2 handles, 1 rerun, 1 tick |
| `Migrate` | Do concurrent migrations agree with the indexes, and with a store in use? | 2 processes, both of which put and sweep; 2 indexes of one handle in five telling combinations; file there or not |
| `PruneView` | What does the returned view keep, replace, put and save? Does the call end? | prompts of up to 3 of 12 kinds of contributions, both routes, hosts' own figures or none; configurations with and without a threshold, switched off, or that do not parse |
| `PassrefBounds` | Who gets content, how much, and is anyone refused for no reason, although sweeps roll back and reads fail? | up to 3 occurrences of 2 handles, one of which passes the cap |
| `ResultsPaths` | Which path does a result take and what does it lose? | every outcome of registration; all tools and modes; texts of each kind |
| `MemoReuse` | Whose view does a call get, when does it raise, what does the memo hold? | 3 threads, 2 sessions with 2 keys each, calls that cannot be keyed or copied; a limit of 2, and one of 0 that is raised to 1 |
| `RequestHistory` | What of a request changes, and what does going through again change? | transcripts of up to 4 messages of 10 kinds, up to 4 passes, 4 hosts |
| `Counters` | What is left of increments that run into one another, and what does a snapshot show? | 3 threads, 3 calls, one snapshot at a time |
| `StoreCap`, `RequestErrors` | Does the code do what its documentation says? It does not: see section 5. | the smallest instance that shows it |

*Why these bounds are enough.* What the store's properties relate is at most two
sessions and one handle, or one process and the sweep it overlaps with. The
write lock makes a third writer wait like the second. A clock of two values
with times-to-live of 0 has expired and fresh rows, and tombstones old enough to
forget; the cap of one blob makes the size loop bite on the second. One rerun
shows a transaction that finds its own leftovers, and one damaged file already
separates the two reads of a fetch. Two indexes suffice for one that blocks the
marker and another that is replayed. Three contributions are the fewest with an
atomic group, a later interaction that takes the protected window from it, or a
choice between early, late, large and small candidates. Three occurrences let a
first insertion use up the budget that a later one meets. A memo of two entries
has an order to keep and is full after two inserts; of three threads one can
evict what the second has found while the third puts it again. Two protected
results and one message before them make four messages with one to spare, and
the third cut is the last that changes anything, so four passes see that there
is no fourth. Three additions are the fewest of which one is overwritten by a
second while a third stands apart. The proofs remove the
bounds for the theorems of section 4. `TTL = 0` is no special case: rows expire
when `now - created > TTL`, as in the code.

*Fairness.* `RescueStore` assumes weak fairness of `Step(p)`, the next step of an
operation that has been called: a thread inside an operation keeps running, and
SQLite's busy timeout (`LockTimeout`) ends a wait. Nothing is assumed of calls,
faults, kills or the clock. Only `CallsReturn` uses it. That a pruning call ends
needs no fairness here: `CallEnds` says that every step leaves fewer to take, and
TLC finds no state the call is stuck in.

*Deadlock* is checked everywhere but in `ResultsPaths`, where a registration that
failed leaves nothing to do.

## 4. Proofs

Every property of a passing run but `CallsReturn` is proved, for every value of the
constants, under the assumptions named in the modules (`ConstantsAssumption`,
`NoneAssumption`, `PruningAssumption`, `PassrefAssumption`, `MemoAssumption`,
`ObservabilityAssumption`, `RequestAssumption`, `MigrationAssumption`,
`ToolResultsAssumption`): sets of any size, any hash collisions, any retention and
caps, and any faults but where a theorem says otherwise. They say what type a
constant has, that the threads of the memo are finitely many, and that `None` is
nothing else (no content, no process, no result). TLC evaluates them in
the runs. The inductive invariants were first checked with TLC on the instances of
the runs.

**`RescueStoreProofs`.** `TypeCorrect` is inductive by itself; its lemmas go
through the actions operation by operation. The safety of the store rests on

    IInv == TypeOK /\ SingleWriter /\ Provenance /\ FetchExact

`FetchExact` alone is not inductive: that what is read is what the session
stored depends on the row a fetch was authorized against (`GrantsFit`), that row
on the put that wrote it (`OwnedRows`), the file on the row (`BoundRows`), and
all that on no second put being past its look at the row (`PutRowsFit`), which is
the write lock (`SingleWriter`, with the temp file of a put belonging to it
and with a maintenance run reviving no row). The theorems are `OneWriter`,
`RowsAndFilesAreOwned` and `FetchIsExact`.

`Implements` shows that the initial states and every
step map to `RescueContract`. It needs three more facts (`Extra`): what a
maintenance transaction is about to publish only fades each row by one stage
(live, tombstone, absent), a result exists only at the end of a call, and a
damaged file presupposes that fault. `LossAnnounced` follows from the same facts.

What a transaction owes when it commits rests on what it knows while it has the
lock: a put that found its file still has it, a repair has listed every live row
without its file (`TxFits`). Only damage from outside could break that, so
`PutIsDelivered` and `ReconcileRepairs` have `"damage" \notin Faults` as their
hypothesis: they cover reruns, exceptions and kills, like the run `StoreCrash`.
A sweep is different. It unlinks before it commits, and a sweep that is rolled
back or killed leaves live rows without files, which is what `reconcile` is for.
Hence `LiveRowsHaveBlobs` and `SweepIsExact` are about stores without faults
(`Faults = {}`, as in `StoreSound`). Their invariant (`SweepFits`) says that the
files a sweep has still to remove are of rows that nobody references, and that any
other row has its file exactly when somebody references it.

**`StructuredPruningProofs`.** The groups, windows, sums and the selection of
`PruneGroups` have lemmas of their own, for any prompt:

- *Sums.* Tokens and savings are folds over sets. A sum of numbers is shown to be
  the cardinality of a set (`Volume`: as many pairs for each element as it weighs),
  so that the facts about unions and subsets of finite sets become facts about
  sums. What an induction over finite sets would prove goes by a smallest
  counterexample (`SmallestSet`), since strict inclusion among the subsets of a
  finite set is well-founded.
- *Selection.* `OptimalSubsetFacts`: the groups chosen are candidates, reach the
  target, start as late as any that do, and are as few as any that start there
  and save no less than as few others. The last parts are an exchange: sorted by
  savings, the first groups save at least what any others of their number do
  (`LargestSaveMost`, `VolumeExchange`).
- *Figures.* `FreedIsSaved`: what the applied groups free is what the returned view is
  shorter by, as long as no excerpt is longer than its original.

The invariant of a call is

    PruneInv == OfTheCall /\ UnderWay /\ Answered

The properties are about the answer; `Answered` ties it to the groups applied and
to what is stored. It is inductive only with `UnderWay`: while contents are put,
each one that the groups need is stored or still queued, and the first time round
the groups are those the selection gave. `OfTheCall` keeps protected groups out in
every round. The theorems are `TypeCorrect`, `ProtectedAreKept`, `GroupsAreAtomic`,
`ExcerptsAreStored`, `AnswerFits`, `PrefixIsLatest` and `StepsRunOut` (the measure of
`CallEnds` falls with every step, so that a call ends without any fairness).

**`PassrefProofs`.** `PassrefTypes`, `InsertionsAreBounded` (no call inserts more
than `TotalMax + MarkerChars`; the strengthening is that inside an occurrence the
budget is not used up), `ContentIsHeld` and `HeldHandlesAreServed`. The last is not
about every handle the session holds: a sweep that is rolled back after its unlink
leaves a row without its file, and a read may fail. Its `always` are the handles that
had row and file as the call began and whose row no sweep or reconcile has tried to
take since. That nothing else takes their file needs that a sweep leaves the files of
rows it does not take (`EnvironmentStore`); then row and file are there at each of the
four reads, only a read that fails comes in between, and the budget's total is the sum
of what is inserted (`FullInv`). The sum is a fold here, too; that its
elements may be taken in any order (`AnyFirst`) gives the step from one piece to
the next.

**`MemoProofs`.** The invariant is

    MInv == TypeOK /\ KeptInv /\ ViewInv /\ RaceInv

What a call returns (`OwnView`) rests on what is kept: each entry is made for its
key, held, unedited and shared with nobody (`KeptInv`); and on what each
thread carries from one step to the next (`ViewInv`). That only a race makes the
hook raise needs to know where an entry can be missing: at `move_to_end` or at an
eviction only if another thread has evicted since the call began (`RaceInv`).
Lemmas about `RemoveAt` and `MoveToEnd` carry the order of the dictionary.
`Capacity` is not inductive: a call that raises KeyError leaves without evicting,
and two calls may have put one entry between them. The bound that is (`CapInv`)
counts the calls that are evicting and the *keys* of those about to, as far as the
entry is still there: a call can only raise once its key is not counted any more.
What the memo holds while calls do not overlap (`RecentKept`) is not inductive
either: between an insert and the end of the evictions it holds something else.
`RecentInv` says what, place by place: before `move_to_end` the new key is last and
no other entry has it; while it evicts, the entries are the keys used last, in
their order, and more of them than are due. A key that is used once is in the
history once (`Distinct`), so that moving it there and in the dictionary are the
same move. The theorems are `MemoTypes`, `ViewsAreOwn`, `RaisingNeedsARace`,
`OverfullOnlyByCalls` and `LatestAreKept`.

**`ObservabilityProofs`.** The invariant is

    OInv == TypeOK /\ CountersBounded /\ LoadedBounded /\ Apart /\ SnapshotInv

A store is safe for the bounds only if the value loaded still is between them
(`LoadedBounded`), which an addition in between would end, were it not that two
additions to one counter that are under way are both mixed (`Apart`). A snapshot
is bounded counter by counter as far as it has come (`SnapshotInv`). The theorems
are `CounterTypes`, `CountersAreBounded` and `SnapshotsAreBounded`.

**`RequestPruningProofs`.** The invariant is

    RInv == TypeOK /\ Sent(transcript, request, cuts) /\ Fresh

`Sent` describes a request without its history: each message is that of the
transcript, or one that might be cut and has two results after it, with its size,
note and loss as a cut leaves them (`CutOf`). `ExemptExact` is read off it. That a
later pass keeps the description needs that a cut changes nothing the middleware
decides by but the size and whether the content reads as a flat object, so that
fewer messages are open to it each time. That the cuts end needs how far the notes
have come (`Settled`): the second note counts the characters of the first, which
are 59 to 67, the third those of a note with two digits, which are 60, and from
there on a cut leaves the text it finds. `Fresh` says that a request under pressure
that was made once is the pruned beginning of the transcript, and lemmas about
protected tails (`TwoBehind`, `BehindUnprotected`) make its cuts independent of what has been
added since. The number of digits is that of texts below 10^9 characters. The
theorems are `RequestTypes`, `ExemptionsHold`, `CutsAreSettled` and `StablePrefix`.

**`MigrationProofs`.** The invariant is

    GInv == TypeOK /\ DbInv /\ SweepInv /\ MarkerMeansDone
            /\ \A p \in Procs : PutInv(p) /\ DoneInv(p)

`DbInv` is about rows and files: `FailsClosed`, and for a store nobody has used yet
(`UnusedInv`) that rows are what the indexes say, that no row written is gone and
that every handle with a row is live somewhere, so that a sweep finds no file to
take and the set of files never changes. That is why two processes that judge an
entry at different times judge it alike. `SweepInv` is the write lock: one process
sweeps at most, and what it is taking is taken by nobody else. `FailsClosed` has one
exception, and needs it: a sweep that is rolled back or killed after an unlink leaves
the rows it was taking live and without a file (`lost`), until they are put again or
swept; no row that the sweep was not taking is ever among them.
`PutInv` carries the check to the put.
`DoneInv` is what a process knows of its work so far: no index skipped, and each
entry of those it has left behind a row, passed over or still in its hands; at the
marker it becomes `MarkerMeansDone`, also when the process was killed earlier and
started over. `MigrationExact` follows. The theorems are `MigrationTypes`,
`MigratesExactly`, `MarkerIsEarned` and `LiveRowsAreOwned`.

**`ToolResultsProofs`.** `HandleUsable` and `ErrorsExact` with the shape of a call and
a result are inductive; each path is shown to keep them by itself. The theorems are
`ResultTypes`, `ExcerptsAreUsable` and `ErrorsStay`.

**Only model-checked.** `CallsReturn`: it is a liveness property under fairness, and
neither that nor `ENABLED` is within this prover's reach. `SingleWriter` is proved
and part of the invariant, and no run repeats it.

**How data is reasoned about.** The theorems of the library for induction take an
operator as a parameter, which the provers here cannot instantiate. Where a fact
needs induction over a finite set (sums, smallest and largest numbers) the proofs
take a smallest counterexample instead. Recursion is avoided elsewhere:
the selection is stated with sets, and `LatestPrefix` compares it with every set
of candidates.

## 5. Where code and documentation differ

Shown by a run:

- The size loop subtracts rows whose file is gone from a total over the files
  that exist and stops above the cap (`StoreCap`; `rescue_sqlite_maintenance.py:60`;
  `docs/configuration.md:36`: "Store size cap before oldest blobs are swept.").
- The result of a failed command that `transform_tool_result` compacted has a
  nested `tokenjuice` object, so `parse_flat_json_object` does not take it, the
  request middleware does not see the error and cuts the result, `stderr` and all
  (`RequestErrors`; `request_pruning.py:138`; `docs/behavior.md:38`: "Error results
  preserve `stderr` exactly.").

Seen while modelling, without a run of their own (the model does what the code
does):

- A put that revives a swept handle keeps `created_at` (`rescue_sqlite.py:97`), so
  the handle it returns is past its retention at once; `docs/configuration.md:34`
  calls `ttl_hours` the "Blob retention window."
- An index that is not UTF-8 raises out of `read_idx_file` (`rescue_index.py:59`):
  every construction fails and it is never quarantined; `docs/configuration.md:128`
  says that unreadable indexes "are copied to `migration-quarantine/`". The model
  has it as `UndecodedIndex`.
- An entry of a legacy index whose file is there but raises OSError when it is read
  is left out like one without a file (`rescue_sqlite_migration.py:73`), and the
  migration is declared complete, so that it is never tried again;
  `docs/security.md:56` says that incomplete migrations "leave the marker absent and
  retry on the next startup instead of silently declaring success". The model has it
  as `MigrateMisread`; `MigrationExact` and `MarkerMeansDone` have these entries as
  their exception.
- A contribution of a class nobody knows goes with the group it is in
  (`structured_pruning_groups.py:236`); `README.md:41` of the repository says
  "Protected and unknown contribution classes remain exact".
- A comma-separated `tokenjuice_passref_allowed_tools`, which
  `docs/configuration.md:66` allows, is no option of the transform hook, and no
  result is compacted any more (`compaction_options.py:86`).
- A threshold option that is invalid switches structured pruning off even if the
  host passes a threshold, while one that is missing does not. The context key
  `threshold_tokens` that `_resolve_threshold` falls back on is a parameter of
  `prune_structured_context` and never reaches it that way, so the model has no
  such case.
- The memo is outside of what is fail-open: its `KeyError` leaves the hook. A view
  it keeps may name handles that a sweep has taken since, and its key leaves out
  `content`, `cache_scope` and the provider message of a contribution.
- A text of 3001 to about 3060 characters grows when it is cut, and is then over
  the limit again: 3001 becomes 3059, then 3060, and stays there.
- One message that is no object switches request pruning off for that request.
- A JSON text cut inside of a string may parse again, flat, so that an error may
  show only after the first cut.
- Lost updates may lower a counter, and a snapshot may show the count of one moment
  with the characters of another. `structured_pruning_count` counts contributions,
  not "decisions that returned an effective view" (`docs/behavior.md:162`), and
  there is no `structured_pruning_fallback_count` (`docs/behavior.md:164`).
- The statistics for the status tool open an `OwnershipStore` when the database is
  there, which may upgrade and migrate, although the module says they are computed
  by scanning (`observability.py:5`).

- The size pass counts unreferenced files that the same sweep removes, and takes
  fresh handles for them.
- A fetch serves a second read of the file, which nobody verifies. `FetchExact`
  has the exception.
- As long as the marker is absent every construction replays the indexes, and a
  tombstone in them replaces the row of a handle put since.
- Under soft pressure the latest candidate is pruned even if the target is out
  of reach (`_partial_subset`).
- An excerpt longer than its original adds tokens that the reported savings leave
  out. `FitsThreshold` has the exception.
- Diagnostics are candidates whatever their policy; the retry takes young groups
  although the others would do.
- A row that a sweep took and a rollback brought back lacks its file; passref and
  fetch refuse it until it is put again or a reconcile announces the loss. So does an
  OSError on the file of a row: the handle counts as missing or foreign for that read.
- `BlobStore` passes over a PermissionError of its constructor; puts then return no
  handle and reads find nothing.
- The truncation marker comes on top of a full budget (`BudgetBound` allows
  exactly one); a call with no handle counts as a denied passref request.
- `register_tool` raising anything but `TypeError` ends `register` before the
  transform hook.
- `stderr` of a result without an error status is compacted.

## 6. Not modelled, and why

The reader of Hermes' YAML, JSON helpers, excerpts, grep and provider messages are
pure text or data functions with no state: their outcomes are constants or fields
here, and what they do to a text is layout. `rescue_sweep.py` has no caller. The
schema upgrade is one transaction and one step of `Open`. Of observability the
store statistics are scans that change nothing; `passref_enabled` is set once;
`reset_stats` is for tests. Two contributions with one id are not modelled: the
ids of a prompt are taken to be distinct.

## 7. Plan

Done: every module of section 2, with the theorems of section 4. What is left, in
this order:

1. Proofs: that structured pruning gives up on a prompt over the threshold only
   if a content cannot be stored or not even all candidates save enough; a measure
   of the operations of the store (every `Step(p)` leaves fewer to take), which is the
   part of `CallsReturn` that needs no fairness.
2. Compositions: the views that the memo keeps with the sweeps of the store, and
   the results of `ToolResults` as the messages of `RequestPruning`.
3. `ReconcileStats`, which a rerun counts twice; two contributions with one id.
