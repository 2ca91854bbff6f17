------------------------------ MODULE Migration ------------------------------
(***************************************************************************)
(* Opening the rescue store: the schema upgrade of rescue_sqlite_schema.py *)
(* and the migration of legacy JSON session indexes into the ownership     *)
(* table by rescue_sqlite_migration.py.                                    *)
(*                                                                         *)
(* BlobStore(...) is constructed anew for every rescue, fetch and pruning, *)
(* by every process, so several migrations may run at once, each may be    *)
(* killed between any two of its transactions, and as long as the marker   *)
(* is absent the next construction starts over.  A put is one step here,   *)
(* that may have written its file although it fails; a sweep begins, takes *)
(* one file after the other and commits or does not.  RescueStore has both *)
(* in detail.                                                              *)
(***************************************************************************)
EXTENDS Integers, FiniteSetsExt

CONSTANTS
  Procs,       \* processes (or threads) that open the store
  Sessions,    \* session keys; numbers, because the indexes are read in order
  Handles,     \* 12-hex handles, each of one content
  Indexes,     \* the legacy indexes to start from: SUBSET [Sessions -> Index]
  InitFiles,   \* the blob files to start from: SUBSET SUBSET Handles
  Faults,      \* SUBSET {"unreadable", "raise", "crash"}
  Users        \* SUBSET Procs: processes that use the store they have opened

\* What a legacy index says of a handle: nothing, tombstoned, live with the hash
\* of the handle, or live with another hash.
Entries == {"absent", "swept", "good", "mismatched"}
\* An index is missing, no JSON object with entries, not UTF-8, or readable.
NoIndex   == [kind |-> "none"]
Corrupt   == [kind |-> "corrupt"]
Undecoded == [kind |-> "undecoded"]
Readable  == [kind : {"readable"}, blobs : [Handles -> Entries]]
Index     == {NoIndex, Corrupt, Undecoded} \cup Readable

ASSUME MigrationAssumption ==
  /\ Sessions \subseteq Nat
  /\ Indexes \subseteq [Sessions -> Index]
  /\ InitFiles \subseteq SUBSET Handles
  /\ Faults \subseteq {"unreadable", "raise", "crash"}
  /\ Users \subseteq Procs

VARIABLES
  index,       \* sessions/<s>.json, never written by the program
  schema,      \* the ownership table: absent, of an older release, or current
  marker,      \* ownership.sqlite3.migrated: complete, or absent (any other
               \* text in it counts as absent)
  quarantine,  \* sessions whose index was copied to migration-quarantine/
  own,         \* own[s][h]: absent, live or tombstone
  row,         \* handles with a row in blobs
  file,        \* handles whose file is in blobs/
  going,       \* the ownership rows that the sweep under way changes
  pc,          \* each process: its place in the constructor ...
  todo, cur, item, completed,   \* ... and its locals
  held,        \* history: ownership rows that came into being
  dropped,     \* history: live entries passed over for want of a matching file
  misread,     \* history: live entries passed over as their file gave an error
  used,        \* history: ownership rows a put or a sweep wrote, or tried to
  lost         \* history: live rows whose file a sweep has taken that has not
               \* committed, and that nobody has written since

vars == <<index, schema, marker, quarantine, own, row, file, going, pc, todo, cur,
          item, completed, held, dropped, misread, used, lost>>
db     == <<own, row, held, used>>
blobs  == <<file, going, lost>>
passed == <<dropped, misread>>
locals == <<todo, cur, item, completed>>
disk   == <<index, schema, marker, quarantine>>

Blobs(s) == IF index[s].kind = "readable" THEN index[s].blobs
            ELSE [h \in Handles |-> "absent"]

Places == {"idle", "files", "entries", "put", "ready", "sweep"}

Init ==
  /\ index \in Indexes
  /\ schema \in {"absent", "old", "current"}
  /\ marker = "absent"
  /\ quarantine = {}
  /\ own = [s \in Sessions |-> [h \in Handles |-> "absent"]]
  /\ row = {} /\ file \in InitFiles
  /\ pc = [p \in Procs |-> "idle"]
  /\ todo = [p \in Procs |-> {}]
  /\ cur = [p \in Procs |-> {}]
  /\ item = [p \in Procs |-> <<>>]
  /\ completed = [p \in Procs |-> TRUE]
  /\ going = {} /\ held = {} /\ dropped = {} /\ misread = {} /\ used = {} /\ lost = {}

Goto(p, l) == pc' = [pc EXCEPT ![p] = l]

\* The constructor ends, one way or the other, and its locals with it.
Leave(p, l) ==
  /\ Goto(p, l)
  /\ todo' = [todo EXCEPT ![p] = {}] /\ cur' = [cur EXCEPT ![p] = {}]
  /\ item' = [item EXCEPT ![p] = <<>>] /\ completed' = [completed EXCEPT ![p] = TRUE]

\* No sweep is under way: every other transaction is a step of its own.
Unlocked == \A p \in Procs : pc[p] # "sweep"

\* Mutant: the row takes over what the index calls the entry.
WriteWord(s, h, state) ==
  /\ own' = [own EXCEPT ![s][h] = Blobs(s)[h]]
  /\ held' = held \cup {<<s, h>>}

WriteOwn(s, h, state) ==
  /\ own' = [own EXCEPT ![s][h] = state]
  /\ held' = held \cup {<<s, h>>}

\* _atomic_write, unless the file is there and matches.
WriteFile(h) ==
  /\ file' = file \cup {h}
  /\ lost' = {e \in lost : e[2] # h}
  /\ UNCHANGED going

-----------------------------------------------------------------------------
(* The constructor *)

\* _init_db and initialize_database: one transaction creates the tables or
\* rebuilds ownership with every row it had; then the marker decides.
Open(p) ==
  /\ pc[p] = "idle" /\ Unlocked
  /\ schema' = "current"
  /\ IF marker = "complete"
     THEN Goto(p, "ready") /\ UNCHANGED locals
     ELSE /\ Goto(p, "files")
          /\ todo' = [todo EXCEPT ![p] = {s \in Sessions : index[s].kind # "none"}]
          /\ completed' = [completed EXCEPT ![p] = TRUE]
          /\ UNCHANGED <<cur, item>>
  /\ UNCHANGED <<db, blobs, index, marker, quarantine, passed>>

NextIndex(p) == Min(todo[p])

\* Mutant: an index passed over does not count.
SkipQuietly(p) ==
  /\ todo' = [todo EXCEPT ![p] = @ \ {NextIndex(p)}]
  /\ UNCHANGED <<pc, cur, item, completed>>

SkipIndex(p) ==
  /\ todo' = [todo EXCEPT ![p] = @ \ {NextIndex(p)}]
  /\ completed' = [completed EXCEPT ![p] = FALSE]
  /\ UNCHANGED <<pc, cur, item>>

\* read_idx_file: the next index in name order, its entries in any order.
ReadIndex(p) ==
  /\ pc[p] = "files" /\ todo[p] # {}
  /\ index[NextIndex(p)].kind = "readable"
  /\ todo' = [todo EXCEPT ![p] = @ \ {NextIndex(p)}]
  /\ cur' = [cur EXCEPT ![p] =
               {<<NextIndex(p), h>> : h \in {g \in Handles : Blobs(NextIndex(p))[g] # "absent"}}]
  /\ Goto(p, "entries")
  /\ UNCHANGED <<db, blobs, disk, item, completed, passed>>

\* A non-empty index that is no JSON object, or that could not be read at first
\* (read_idx_file takes that for an empty one), is copied aside.
QuarantineIndex(p) ==
  /\ pc[p] = "files" /\ todo[p] # {}
  /\ \/ index[NextIndex(p)].kind = "corrupt"
     \/ index[NextIndex(p)].kind = "readable" /\ "unreadable" \in Faults
  /\ quarantine' = quarantine \cup {NextIndex(p)}
  /\ SkipIndex(p)
  /\ UNCHANGED <<db, blobs, index, schema, marker, passed>>

\* Reading, or copying aside, raises OSError.
UnreadableIndex(p) ==
  /\ "unreadable" \in Faults
  /\ pc[p] = "files" /\ todo[p] # {}
  /\ SkipIndex(p)
  /\ UNCHANGED <<db, blobs, disk, passed>>

\* UnicodeDecodeError is neither a JSONDecodeError nor an OSError: it leaves the
\* constructor.
UndecodedIndex(p) ==
  /\ pc[p] = "files" /\ todo[p] # {}
  /\ index[NextIndex(p)].kind = "undecoded"
  /\ Leave(p, "idle")
  /\ UNCHANGED <<db, blobs, disk, passed>>

\* _insert_tombstone: INSERT OR REPLACE, whatever the row was.
MigrateTombstone(p, s, h) ==
  /\ pc[p] = "entries" /\ Unlocked /\ <<s, h>> \in cur[p] /\ Blobs(s)[h] = "swept"
  /\ WriteOwn(s, h, "tombstone")
  /\ cur' = [cur EXCEPT ![p] = @ \ {<<s, h>>}]
  /\ UNCHANGED <<disk, blobs, row, pc, todo, item, completed, passed, used>>

\* Mutant: any file of that name will do.
HasFile(s, h) == h \in file

\* A live entry is checked against its file, outside any transaction ...
Matches(s, h) == Blobs(s)[h] = "good" /\ h \in file

\* ... it has no file, or another hash, ...
MigrateDrop(p, s, h) ==
  /\ pc[p] = "entries" /\ <<s, h>> \in cur[p]
  /\ Blobs(s)[h] # "swept" /\ ~Matches(s, h)
  /\ cur' = [cur EXCEPT ![p] = @ \ {<<s, h>>}]
  /\ dropped' = dropped \cup {<<s, h>>}
  /\ UNCHANGED <<db, blobs, disk, pc, todo, item, completed, misread>>

\* ... it has, but reading it raises OSError, which _blob_matches takes for no
\* match, and the migration still counts as complete, ...
MigrateMisread(p, s, h) ==
  /\ "unreadable" \in Faults
  /\ pc[p] = "entries" /\ <<s, h>> \in cur[p]
  /\ Blobs(s)[h] # "swept" /\ Matches(s, h)
  /\ cur' = [cur EXCEPT ![p] = @ \ {<<s, h>>}]
  /\ misread' = misread \cup {<<s, h>>}
  /\ UNCHANGED <<db, blobs, disk, pc, todo, item, completed, dropped>>

\* ... or it matches, ...
MigrateCheck(p, s, h) ==
  /\ pc[p] = "entries" /\ <<s, h>> \in cur[p]
  /\ Blobs(s)[h] # "swept" /\ Matches(s, h)
  /\ Goto(p, "put")
  /\ cur' = [cur EXCEPT ![p] = @ \ {<<s, h>>}]
  /\ item' = [item EXCEPT ![p] = <<s, h>>]
  /\ UNCHANGED <<db, blobs, disk, todo, completed, passed>>

\* Mutant: the row is written, the file is taken to be there.
MigrateRow(p) ==
  /\ pc[p] = "put" /\ Unlocked
  /\ WriteOwn(item[p][1], item[p][2], "live")
  /\ row' = row \cup {item[p][2]}
  /\ Goto(p, "entries") /\ item' = [item EXCEPT ![p] = <<>>]
  /\ UNCHANGED <<disk, blobs, todo, cur, completed, passed, used>>

\* ... and is put like a new one: the row becomes live and the file is there.
MigratePut(p) ==
  /\ pc[p] = "put" /\ Unlocked
  /\ WriteOwn(item[p][1], item[p][2], "live")
  /\ row' = row \cup {item[p][2]} /\ WriteFile(item[p][2])
  /\ Goto(p, "entries") /\ item' = [item EXCEPT ![p] = <<>>]
  /\ UNCHANGED <<disk, todo, cur, completed, passed, used>>

\* The put has its file, but not its row: it raises, or is the last of its process.
MigratePutAborts(p) ==
  /\ Faults \cap {"raise", "crash"} # {}
  /\ pc[p] = "put" /\ Unlocked
  /\ WriteFile(item[p][2])
  /\ Leave(p, "idle")
  /\ UNCHANGED <<db, disk, passed>>

\* The file went between the check and read_bytes.
MigrateGone(p) ==
  /\ pc[p] = "put" /\ item[p][2] \notin file
  /\ Leave(p, "idle")
  /\ UNCHANGED <<db, blobs, disk, passed>>

EndIndex(p) ==
  /\ pc[p] = "entries" /\ cur[p] = {}
  /\ Goto(p, "files")
  /\ UNCHANGED <<db, blobs, disk, locals, passed>>

\* _write_marker: a temp file, then replace.
Migrated(p) ==
  /\ pc[p] = "files" /\ todo[p] = {}
  /\ marker' = IF completed[p] THEN "complete" ELSE marker
  /\ Leave(p, "ready")
  /\ UNCHANGED <<db, blobs, index, schema, quarantine, passed>>

-----------------------------------------------------------------------------
(* The opened store, and what goes wrong *)

\* One operation on the opened store: a put, ...
Put(p, s, h) ==
  /\ p \in Users /\ pc[p] = "ready" /\ Unlocked
  /\ WriteOwn(s, h, "live")
  /\ used' = used \cup {<<s, h>>}
  /\ row' = row \cup {h} /\ WriteFile(h)
  /\ Goto(p, "idle")
  /\ UNCHANGED <<disk, locals, passed>>

\* ... a put that has its file and fails, ...
PutAborts(p, s, h) ==
  /\ Faults \cap {"raise", "crash"} # {}
  /\ p \in Users /\ pc[p] = "ready" /\ Unlocked
  /\ used' = used \cup {<<s, h>>}
  /\ WriteFile(h)
  /\ Goto(p, "idle")
  /\ UNCHANGED <<disk, own, row, held, locals, passed>>

\* ... or a sweep, that finds some live rows expired and some tombstones old.  Its
\* transaction turns live rows into tombstones and forgets tombstones, ...
SweepBegin(p) ==
  /\ p \in Users /\ pc[p] = "ready" /\ Unlocked
  /\ \E changed \in SUBSET (Sessions \X Handles) :
       /\ \A e \in changed : own[e[1]][e[2]] # "absent"
       /\ going' = changed
       /\ used' = used \cup changed
  /\ Goto(p, "sweep")
  /\ UNCHANGED <<disk, locals, own, row, file, held, passed, lost>>

\* ... and the files of rows that nobody will own go while it is open, ...
Doomed == {h \in file \cap row :
             \A s \in Sessions : own[s][h] = "live" => <<s, h>> \in going}

SweepUnlink(p, h) ==
  /\ pc[p] = "sweep" /\ h \in Doomed
  /\ file' = file \ {h}
  /\ lost' = lost \cup {e \in going : e[2] = h /\ own[e[1]][h] = "live"}
  /\ UNCHANGED <<db, disk, locals, pc, going, passed>>

\* ... whether it commits ...
SweepCommit(p) ==
  /\ pc[p] = "sweep" /\ Doomed = {}
  /\ own' = [s \in Sessions |-> [h \in Handles |->
               IF <<s, h>> \notin going THEN own[s][h]
               ELSE IF own[s][h] = "live" THEN "tombstone" ELSE "absent"]]
  /\ lost' = lost \ going /\ going' = {}
  /\ Goto(p, "idle")
  /\ UNCHANGED <<disk, locals, row, file, held, used, passed>>

\* ... or not: "locked" runs it again, any other error leaves lazy_sweep.
SweepRollback(p) ==
  /\ "raise" \in Faults /\ pc[p] = "sweep"
  /\ going' = {}
  /\ Goto(p, "ready")
  /\ UNCHANGED <<db, disk, locals, file, lost, passed>>

\* ... or a fetch, or nothing.
Close(p) ==
  /\ pc[p] = "ready"
  /\ Goto(p, "idle")
  /\ UNCHANGED <<db, blobs, disk, locals, passed>>

\* A transaction or the marker fails ("locked" for too long, a full disk): there is
\* no store.
Raise(p) ==
  /\ "raise" \in Faults /\ pc[p] \in {"files", "entries", "put"}
  /\ Leave(p, "idle")
  /\ UNCHANGED <<db, blobs, disk, passed>>

\* The process is killed.  What its transactions committed stays, and so do the
\* files as they are.
Crash(p) ==
  /\ "crash" \in Faults /\ pc[p] # "idle"
  /\ going' = IF pc[p] = "sweep" THEN {} ELSE going
  /\ Leave(p, "idle")
  /\ UNCHANGED <<db, disk, file, lost, passed>>

Migrate(p) ==
  \/ ReadIndex(p) \/ QuarantineIndex(p) \/ UnreadableIndex(p) \/ UndecodedIndex(p)
  \/ \E s \in Sessions, h \in Handles :
       \/ MigrateTombstone(p, s, h) \/ MigrateDrop(p, s, h)
       \/ MigrateMisread(p, s, h) \/ MigrateCheck(p, s, h)
  \/ MigratePut(p) \/ MigratePutAborts(p) \/ MigrateGone(p) \/ EndIndex(p) \/ Migrated(p)

Use(p) ==
  \/ \E s \in Sessions, h \in Handles : Put(p, s, h) \/ PutAborts(p, s, h)
  \/ SweepBegin(p) \/ SweepCommit(p) \/ SweepRollback(p)
  \/ \E h \in Handles : SweepUnlink(p, h)

Next == \E p \in Procs :
  Open(p) \/ Migrate(p) \/ Use(p) \/ Close(p) \/ Raise(p) \/ Crash(p)

Spec == Init /\ [][Next]_vars

-----------------------------------------------------------------------------
(* Properties *)

\* Every variable keeps to its type.
TypeOK ==
  /\ index \in [Sessions -> Index]
  /\ schema \in {"absent", "old", "current"}
  /\ marker \in {"absent", "complete"}
  /\ quarantine \subseteq Sessions
  /\ own \in [Sessions -> [Handles -> {"absent", "live", "tombstone"}]]
  /\ row \subseteq Handles /\ file \subseteq Handles
  /\ pc \in [Procs -> Places]
  /\ todo \in [Procs -> SUBSET Sessions]
  /\ cur \in [Procs -> SUBSET (Sessions \X Handles)]
  /\ item \in [Procs -> (Sessions \X Handles) \cup {<<>>}]
  /\ \A p \in Procs : pc[p] = "put" => item[p] # <<>>
  /\ completed \in [Procs -> BOOLEAN]
  /\ held \cup dropped \cup misread \cup used \subseteq Sessions \X Handles
  /\ going \cup lost \subseteq Sessions \X Handles

AsIndexed(s, h) ==
  IF Blobs(s)[h] = "swept" THEN "tombstone"
  ELSE IF Blobs(s)[h] = "good" /\ h \in file THEN "live" ELSE "absent"

\* However many processes migrate at once, fail, die and start over: until a put or
\* a sweep of a row is tried, a row is what the indexes and the files say or not
\* there yet, and once the marker is written only rows of entries are missing whose
\* file could not be read.
MigrationExact == used = {} => \A s \in Sessions, h \in Handles :
  /\ own[s][h] \in {"absent", AsIndexed(s, h)}
  /\ marker = "complete" /\ <<s, h>> \notin misread => own[s][h] = AsIndexed(s, h)

\* Behind a complete marker every index is readable, and every entry of every index
\* became a row at some time or was passed over because its file did not match or
\* gave an error, whatever failed half way in whichever process.
MarkerMeansDone == marker = "complete" => \A s \in Sessions :
  /\ index[s].kind \in {"none", "readable"}
  /\ \A h \in Handles : Blobs(s)[h] # "absent" => <<s, h>> \in held \cup dropped \cup misread

\* Migration gives nobody a handle: a live row is of a session whose own index had
\* it, with the matching hash, or that put it since.  Its file is there, however
\* sweeps, puts and other migrations run in between check and put, unless a sweep
\* has taken the file together with this very row and then did not commit.
FailsClosed == \A s \in Sessions, h \in Handles : own[s][h] = "live" =>
  /\ <<s, h>> \in used \/ Blobs(s)[h] = "good"
  /\ h \in row
  /\ h \in file \/ <<s, h>> \in lost
=============================================================================
