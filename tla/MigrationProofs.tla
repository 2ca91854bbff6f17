--------------------------- MODULE MigrationProofs ---------------------------
(***************************************************************************)
(* What holds of migrations for any processes, sessions, indexes, files    *)
(* and faults.  The rows are right because what is checked before a put    *)
(* stays so, and the marker is because of what a process knows of its work *)
(* (DoneInv): every entry of an index it has left behind has become a row  *)
(* or was passed over, and no index was skipped if it is still complete.   *)
(***************************************************************************)
EXTENDS Migration, WellFoundedInduction, TLAPS

\* Until the store is used: the rows are of the indexes, none that was written is
\* gone, every handle with a row is live, and what was passed over still has no file.
UnusedInv == used = {} =>
  /\ \A s \in Sessions, h \in Handles :
       /\ own[s][h] \in {"absent", AsIndexed(s, h)}
       /\ <<s, h>> \in held => own[s][h] # "absent"
       /\ <<s, h>> \in dropped => AsIndexed(s, h) = "absent"
  /\ \A h \in row : \E s \in Sessions : own[s][h] = "live"

DbInv == FailsClosed /\ UnusedInv

\* What a sweep changes is of the one that has the lock, and counts as a use.
SweepInv ==
  /\ \A p, q \in Procs : pc[p] = "sweep" /\ pc[q] = "sweep" => p = q
  /\ Unlocked => going = {}
  /\ going \subseteq used

\* What is about to be put has been checked.
PutInv(p) == pc[p] = "put" =>
  /\ Blobs(item[p][1])[item[p][2]] = "good"
  /\ used = {} => item[p][2] \in file

\* What a process knows of the indexes it has left behind.
DoneInv(p) == pc[p] \in {"files", "entries", "put"} /\ completed[p] =>
  \A s \in Sessions \ todo[p] :
    /\ index[s].kind \in {"none", "readable"}
    /\ \A h \in Handles : Blobs(s)[h] # "absent" =>
         \/ <<s, h>> \in held \cup dropped \cup misread
         \/ pc[p] # "files" /\ <<s, h>> \in cur[p]
         \/ pc[p] = "put" /\ item[p] = <<s, h>>

GInv == TypeOK /\ DbInv /\ SweepInv /\ MarkerMeansDone /\ \A p \in Procs : PutInv(p) /\ DoneInv(p)

\* A step of p leaves the locals of the others alone.
Local(p) == \A q \in Procs \ {p} :
  /\ pc'[q] = pc[q] /\ todo'[q] = todo[q] /\ cur'[q] = cur[q]
  /\ item'[q] = item[q] /\ completed'[q] = completed[q]

-----------------------------------------------------------------------------
(* Steps in general *)

\* The first of the indexes left is one of them.
LEMMA MinIn == ASSUME NEW S \in SUBSET Nat, S # {} PROVE Min(S) \in S
<1> DEFINE R == {ss \in Nat \X Nat : ss[1] < ss[2]}
<1>1. IsWellFoundedOn(R, Nat)
  BY NatLessThanWellFounded, Zenon DEF OpToRel
<1>2. \A x, y \in S : y < x => <<y, x>> \in R
  OBVIOUS
<1> HIDE DEF R
<1>3. \E x \in S : \A y \in S : ~(<<y, x>> \in R)
  BY <1>1, WFMin
<1>4. PICK x \in S : \A y \in S : ~(<<y, x>> \in R)
  BY <1>3
<1>5. ASSUME NEW y \in S PROVE x <= y
  <2>1. x \in Nat /\ y \in Nat /\ ~(y < x)
    BY <1>2, <1>4
  <2> QED
    BY <2>1
<1> QED
  BY <1>5 DEF Min

LEMMA NextIndexIn ==
  ASSUME TypeOK, NEW p \in Procs, todo[p] # {}
  PROVE  NextIndex(p) \in todo[p] /\ NextIndex(p) \in Sessions
<1>1. todo[p] \subseteq Sessions /\ todo[p] \in SUBSET Nat
  BY MigrationAssumption DEF TypeOK
<1> QED
  BY <1>1, MinIn DEF NextIndex

\* What a step has to show: its own place, the rows and the marker.
LEMMA Assemble ==
  ASSUME GInv, NEW p \in Procs, TypeOK', Local(p), DbInv', SweepInv', PutInv(p)',
         DoneInv(p)', MarkerMeansDone', index' = index, held \subseteq held',
         dropped \subseteq dropped', misread \subseteq misread',
         used \subseteq used', used' = {} => file' = file
  PROVE  GInv'
<1>1. ASSUME NEW q \in Procs \ {p} PROVE PutInv(q)' /\ DoneInv(q)'
  <2>1. /\ pc'[q] = pc[q] /\ todo'[q] = todo[q] /\ cur'[q] = cur[q]
        /\ item'[q] = item[q] /\ completed'[q] = completed[q]
    BY <1>1 DEF Local
  <2>2. \A s : Blobs(s)' = Blobs(s)
    BY DEF Blobs
  <2>3. PutInv(q) /\ DoneInv(q)
    BY DEF GInv
  <2>4. used' = {} => used = {} /\ file' = file
    OBVIOUS
  <2>5. PutInv(q)'
    BY <2>1, <2>2, <2>3, <2>4 DEF PutInv
  <2>6. DoneInv(q)'
    BY <2>1, <2>2, <2>3 DEF DoneInv
  <2> QED
    BY <2>5, <2>6
<1> QED
  BY <1>1 DEF GInv

\* The rows stay right when nothing of them changes.
LEMMA DbKept ==
  ASSUME DbInv, UNCHANGED <<db, blobs, index, dropped>> PROVE DbInv'
<1>1. \A s : Blobs(s)' = Blobs(s)
  BY DEF Blobs
<1>2. \A s, h : AsIndexed(s, h)' = AsIndexed(s, h)
  BY <1>1 DEF AsIndexed, blobs
<1> QED
  BY <1>1, <1>2 DEF DbInv, FailsClosed, UnusedInv, db, blobs

LEMMA MarkerKept ==
  ASSUME MarkerMeansDone, marker' = marker, index' = index, held \subseteq held',
         dropped \subseteq dropped', misread \subseteq misread'
  PROVE  MarkerMeansDone'
  BY DEF MarkerMeansDone, Blobs

\* Whoever is not sweeping leaves the sweep under way alone.
LEMMA SweepKept ==
  ASSUME SweepInv, NEW p \in Procs, Local(p), pc[p] # "sweep", pc'[p] # "sweep",
         going' = going, used \subseteq used'
  PROVE  SweepInv'
<1>1. \A q \in Procs : pc'[q] = "sweep" <=> pc[q] = "sweep"
  BY DEF Local
<1> QED
  BY <1>1 DEF SweepInv, Unlocked

\* A step that writes no row and no file.
LEMMA QuietGInv ==
  ASSUME GInv, NEW p \in Procs, TypeOK', Local(p), PutInv(p)', DoneInv(p)',
         pc[p] # "sweep", pc'[p] # "sweep", UNCHANGED <<db, blobs, index, passed>>,
         marker' = marker \/ MarkerMeansDone'
  PROVE  GInv'
<1>1. /\ held' = held /\ used' = used /\ going' = going /\ file' = file
      /\ dropped' = dropped /\ misread' = misread
  BY DEF db, blobs, passed
<1>2. DbInv'
  BY DbKept DEF GInv, passed
<1>3. MarkerMeansDone'
  BY <1>1, MarkerKept DEF GInv
<1>4. SweepInv'
  BY <1>1, SweepKept DEF GInv
<1> QED
  BY <1>1, <1>2, <1>3, <1>4, Assemble

\* A constructor that ends leaves nothing behind.
LEMMA LeaveLocal ==
  ASSUME TypeOK, NEW p \in Procs, NEW l \in {"idle", "ready"}, Leave(p, l)
  PROVE  /\ pc' \in [Procs -> Places] /\ pc'[p] = l
         /\ todo' \in [Procs -> SUBSET Sessions]
         /\ cur' \in [Procs -> SUBSET (Sessions \X Handles)]
         /\ item' \in [Procs -> (Sessions \X Handles) \cup {<<>>}]
         /\ \A q \in Procs : pc'[q] = "put" => item'[q] # <<>>
         /\ completed' \in [Procs -> BOOLEAN]
         /\ Local(p) /\ PutInv(p)' /\ DoneInv(p)'
<1>1. /\ pc' \in [Procs -> Places] /\ pc'[p] = l
      /\ todo' \in [Procs -> SUBSET Sessions]
      /\ cur' \in [Procs -> SUBSET (Sessions \X Handles)]
      /\ item' \in [Procs -> (Sessions \X Handles) \cup {<<>>}]
      /\ completed' \in [Procs -> BOOLEAN]
  BY DEF TypeOK, Leave, Goto, Places
<1>2. Local(p)
  BY DEF TypeOK, Leave, Goto, Local
<1>3. \A q \in Procs : pc'[q] = "put" => item'[q] # <<>>
  BY <1>1, <1>2 DEF Local, TypeOK
<1>4. PutInv(p)' /\ DoneInv(p)'
  BY <1>1 DEF PutInv, DoneInv
<1> QED
  BY <1>1, <1>2, <1>3, <1>4

\* A constructor that fails, or is killed, outside of a transaction.
LEMMA FailGInv ==
  ASSUME GInv, NEW p \in Procs, pc[p] # "sweep", Leave(p, "idle"),
         UNCHANGED <<db, blobs, disk, passed>>
  PROVE  GInv'
<1>1. TypeOK /\ DbInv /\ SweepInv /\ MarkerMeansDone
  BY DEF GInv
<1>2. /\ pc' \in [Procs -> Places] /\ pc'[p] = "idle"
      /\ todo' \in [Procs -> SUBSET Sessions]
      /\ cur' \in [Procs -> SUBSET (Sessions \X Handles)]
      /\ item' \in [Procs -> (Sessions \X Handles) \cup {<<>>}]
      /\ \A q \in Procs : pc'[q] = "put" => item'[q] # <<>>
      /\ completed' \in [Procs -> BOOLEAN]
      /\ Local(p) /\ PutInv(p)' /\ DoneInv(p)'
  BY <1>1, LeaveLocal
<1>3. TypeOK'
  BY <1>1, <1>2 DEF TypeOK, db, blobs, disk, passed
<1> QED
  BY <1>2, <1>3, QuietGInv DEF disk

LEMMA CloseGInv == ASSUME GInv, NEW p \in Procs, Close(p) PROVE GInv'
<1>1. /\ TypeOK /\ DbInv /\ SweepInv /\ MarkerMeansDone /\ pc[p] = "ready" /\ Goto(p, "idle")
      /\ UNCHANGED <<db, blobs, disk, locals, passed>>
  BY DEF GInv, Close
<1>2. /\ pc' \in [Procs -> Places] /\ pc'[p] = "idle"
      /\ \A q \in Procs \ {p} : pc'[q] = pc[q]
  BY <1>1 DEF TypeOK, Goto, Places
<1>3. TypeOK'
  BY <1>1, <1>2 DEF TypeOK, db, blobs, disk, locals, passed
<1>4. Local(p) /\ PutInv(p)' /\ DoneInv(p)'
  BY <1>1, <1>2 DEF Local, PutInv, DoneInv, locals
<1> QED
  BY <1>1, <1>2, <1>3, <1>4, QuietGInv DEF disk

LEMMA InitGInv == Init => GInv
<1> SUFFICES ASSUME Init PROVE GInv
  OBVIOUS
<1>1. index \in [Sessions -> Index] /\ file \subseteq Handles
  BY MigrationAssumption DEF Init
<1>2. TypeOK
  BY <1>1 DEF Init, TypeOK, Places
<1>3. DbInv /\ MarkerMeansDone
  BY DEF Init, DbInv, FailsClosed, UnusedInv, MarkerMeansDone
<1>4. \A p \in Procs : PutInv(p) /\ DoneInv(p)
  BY DEF Init, PutInv, DoneInv
<1>5. SweepInv
  BY DEF Init, SweepInv, Unlocked
<1> QED
  BY <1>2, <1>3, <1>4, <1>5 DEF GInv

-----------------------------------------------------------------------------
(* The constructor *)

\* Indexes that are not there have no entries.
LEMMA OpenGInv == ASSUME GInv, NEW p \in Procs, Open(p) PROVE GInv'
<1>1. /\ TypeOK /\ DbInv /\ SweepInv /\ MarkerMeansDone /\ pc[p] = "idle"
      /\ UNCHANGED <<db, blobs, index, marker, quarantine, passed>> /\ schema' = "current"
  BY DEF GInv, Open
<1>2. CASE marker = "complete"
  <2>1. Goto(p, "ready") /\ UNCHANGED locals
    BY <1>2 DEF Open
  <2>2. /\ pc' \in [Procs -> Places] /\ pc'[p] = "ready"
        /\ \A q \in Procs \ {p} : pc'[q] = pc[q]
    BY <1>1, <2>1 DEF TypeOK, Goto, Places
  <2>3. TypeOK'
    BY <1>1, <2>1, <2>2 DEF TypeOK, db, blobs, passed, locals
  <2>4. Local(p) /\ PutInv(p)' /\ DoneInv(p)'
    BY <2>1, <2>2 DEF Local, PutInv, DoneInv, locals
  <2> QED
    BY <1>1, <2>2, <2>3, <2>4, QuietGInv
<1>3. CASE marker # "complete"
  <2> DEFINE there == {s \in Sessions : index[s].kind # "none"}
  <2>1. /\ Goto(p, "files") /\ todo' = [todo EXCEPT ![p] = there]
        /\ completed' = [completed EXCEPT ![p] = TRUE] /\ UNCHANGED <<cur, item>>
    BY <1>3 DEF Open
  <2>2. /\ pc' \in [Procs -> Places] /\ pc'[p] = "files" /\ todo'[p] = there
        /\ todo' \in [Procs -> SUBSET Sessions] /\ completed' \in [Procs -> BOOLEAN]
        /\ \A q \in Procs \ {p} :
             pc'[q] = pc[q] /\ todo'[q] = todo[q] /\ completed'[q] = completed[q]
    BY <1>1, <2>1 DEF TypeOK, Goto, Places
  <2>3. TypeOK'
    BY <1>1, <2>1, <2>2 DEF TypeOK, db, blobs, passed
  <2>4. DoneInv(p)'
    <3> SUFFICES ASSUME NEW s \in Sessions \ todo'[p]
                 PROVE  /\ index'[s].kind \in {"none", "readable"}
                        /\ \A h \in Handles : Blobs(s)'[h] = "absent"
      BY DEF DoneInv
    <3>1. index'[s].kind = "none"
      BY <1>1, <2>2
    <3> QED
      BY <3>1 DEF Blobs
  <2>5. Local(p) /\ PutInv(p)'
    BY <2>1, <2>2 DEF Local, PutInv
  <2> QED
    BY <1>1, <2>2, <2>3, <2>4, <2>5, QuietGInv
<1> QED
  BY <1>2, <1>3

\* The entries of the index that is read are left to do.
LEMMA ReadIndexGInv == ASSUME GInv, NEW p \in Procs, ReadIndex(p) PROVE GInv'
<1> DEFINE n == NextIndex(p)
           entries == {<<n, h>> : h \in {g \in Handles : Blobs(n)[g] # "absent"}}
<1>1. /\ TypeOK /\ DbInv /\ SweepInv /\ MarkerMeansDone /\ DoneInv(p)
      /\ pc[p] = "files" /\ todo[p] # {} /\ index[n].kind = "readable"
      /\ todo' = [todo EXCEPT ![p] = todo[p] \ {n}] /\ cur' = [cur EXCEPT ![p] = entries]
      /\ Goto(p, "entries") /\ UNCHANGED <<db, blobs, disk, item, completed, passed>>
  BY DEF GInv, ReadIndex
<1>2. n \in todo[p] /\ n \in Sessions
  BY <1>1, NextIndexIn
<1> HIDE DEF n
<1>3. entries \subseteq Sessions \X Handles
  BY <1>2
<1>4. \A h \in Handles : Blobs(n)[h] # "absent" => <<n, h>> \in entries
  OBVIOUS
<1> HIDE DEF entries
<1>5. /\ pc' \in [Procs -> Places] /\ pc'[p] = "entries"
      /\ todo' \in [Procs -> SUBSET Sessions] /\ todo'[p] = todo[p] \ {n}
      /\ cur' \in [Procs -> SUBSET (Sessions \X Handles)] /\ cur'[p] = entries
      /\ \A q \in Procs \ {p} : pc'[q] = pc[q] /\ todo'[q] = todo[q] /\ cur'[q] = cur[q]
  BY <1>1, <1>3 DEF TypeOK, Goto, Places
<1>6. TypeOK'
  BY <1>1, <1>5 DEF TypeOK, db, blobs, passed, disk
<1>7. Local(p) /\ PutInv(p)'
  BY <1>1, <1>5 DEF Local, PutInv
<1>8. DoneInv(p)'
  <2> SUFFICES ASSUME completed[p], NEW s \in Sessions \ todo'[p]
               PROVE  /\ index[s].kind \in {"none", "readable"}
                      /\ \A h \in Handles : Blobs(s)[h] # "absent" =>
                           <<s, h>> \in held \cup dropped \cup misread \/ <<s, h>> \in cur'[p]
    BY <1>1, <1>5 DEF DoneInv, Blobs, db, disk, passed
  <2>1. CASE s = n
    BY <1>1, <1>4, <1>5, <2>1
  <2>2. CASE s # n
    BY <1>1, <1>5, <2>2 DEF DoneInv
  <2> QED
    BY <2>1, <2>2
<1> QED
  BY <1>1, <1>5, <1>6, <1>7, <1>8, QuietGInv DEF disk

\* Whoever skips an index will not write the marker.
LEMMA SkipGInv ==
  ASSUME GInv, NEW p \in Procs, pc[p] = "files", todo[p] # {}, SkipIndex(p),
         UNCHANGED <<db, blobs, index, schema, marker, passed>>, quarantine' \subseteq Sessions
  PROVE  GInv'
<1>1. TypeOK /\ DbInv /\ SweepInv /\ MarkerMeansDone
  BY DEF GInv
<1>2. /\ todo' \in [Procs -> SUBSET Sessions] /\ completed' \in [Procs -> BOOLEAN]
      /\ completed'[p] = FALSE /\ UNCHANGED <<pc, cur, item>>
      /\ \A q \in Procs \ {p} : todo'[q] = todo[q] /\ completed'[q] = completed[q]
  BY <1>1 DEF TypeOK, SkipIndex
<1>3. TypeOK'
  BY <1>1, <1>2 DEF TypeOK, db, blobs, passed
<1>4. Local(p) /\ PutInv(p)' /\ DoneInv(p)'
  BY <1>2 DEF Local, PutInv, DoneInv
<1> QED
  BY <1>2, <1>3, <1>4, QuietGInv

LEMMA EndIndexGInv == ASSUME GInv, NEW p \in Procs, EndIndex(p) PROVE GInv'
<1>1. /\ TypeOK /\ DbInv /\ SweepInv /\ MarkerMeansDone /\ DoneInv(p)
      /\ pc[p] = "entries" /\ cur[p] = {} /\ Goto(p, "files")
      /\ UNCHANGED <<db, blobs, disk, locals, passed>>
  BY DEF GInv, EndIndex
<1>2. /\ pc' \in [Procs -> Places] /\ pc'[p] = "files"
      /\ \A q \in Procs \ {p} : pc'[q] = pc[q]
  BY <1>1 DEF TypeOK, Goto, Places
<1>3. TypeOK'
  BY <1>1, <1>2 DEF TypeOK, db, blobs, passed, disk, locals
<1>4. Local(p) /\ PutInv(p)'
  BY <1>1, <1>2 DEF Local, PutInv, locals
<1>5. DoneInv(p)'
  BY <1>1, <1>2 DEF DoneInv, Blobs, db, disk, locals, passed
<1> QED
  BY <1>1, <1>2, <1>3, <1>4, <1>5, QuietGInv DEF disk

\* The marker is written by a process that has dealt with every entry.
LEMMA MigratedGInv == ASSUME GInv, NEW p \in Procs, Migrated(p) PROVE GInv'
<1>1. /\ TypeOK /\ DbInv /\ SweepInv /\ MarkerMeansDone /\ DoneInv(p)
      /\ pc[p] = "files" /\ todo[p] = {} /\ Leave(p, "ready")
      /\ marker' = (IF completed[p] THEN "complete" ELSE marker)
      /\ UNCHANGED <<db, blobs, index, schema, quarantine, passed>>
  BY DEF GInv, Migrated
<1>2. /\ pc' \in [Procs -> Places] /\ pc'[p] = "ready"
      /\ todo' \in [Procs -> SUBSET Sessions]
      /\ cur' \in [Procs -> SUBSET (Sessions \X Handles)]
      /\ item' \in [Procs -> (Sessions \X Handles) \cup {<<>>}]
      /\ \A q \in Procs : pc'[q] = "put" => item'[q] # <<>>
      /\ completed' \in [Procs -> BOOLEAN]
      /\ Local(p) /\ PutInv(p)' /\ DoneInv(p)'
  BY <1>1, LeaveLocal
<1>3. TypeOK'
  BY <1>1, <1>2 DEF TypeOK, db, blobs, passed
<1>4. MarkerMeansDone'
  <2>1. CASE completed[p]
    <3>1. \A s \in Sessions :
            /\ index[s].kind \in {"none", "readable"}
            /\ \A h \in Handles : Blobs(s)[h] # "absent" => <<s, h>> \in held \cup dropped \cup misread
      BY <1>1, <2>1 DEF DoneInv
    <3> QED
      BY <1>1, <3>1 DEF MarkerMeansDone, Blobs, db, passed
  <2>2. CASE ~completed[p]
    BY <1>1, <2>2, MarkerKept DEF db, passed
  <2> QED
    BY <2>1, <2>2
<1> QED
  BY <1>1, <1>2, <1>3, <1>4, QuietGInv

-----------------------------------------------------------------------------
(* The entries *)

\* A row is written.
LEMMA WriteOwnType ==
  ASSUME TypeOK, NEW s \in Sessions, NEW h \in Handles, NEW state \in {"live", "tombstone"},
         WriteOwn(s, h, state)
  PROVE  /\ own' \in [Sessions -> [Handles -> {"absent", "live", "tombstone"}]]
         /\ held' \subseteq Sessions \X Handles /\ held \subseteq held' /\ <<s, h>> \in held'
         /\ held' = held \cup {<<s, h>>}
         /\ own'[s][h] = state
         /\ \A r \in Sessions, g \in Handles : <<r, g>> # <<s, h>> => own'[r][g] = own[r][g]
  BY DEF TypeOK, WriteOwn

\* A process deals with an entry: what it knows of the rest stays.
LEMMA EntryDone ==
  ASSUME TypeOK, NEW p \in Procs, DoneInv(p), NEW e, pc[p] = "entries",
         index' = index, held \subseteq held', dropped \subseteq dropped',
         misread \subseteq misread', todo' = todo, completed' = completed, pc'[p] \in {"entries", "put"},
         cur'[p] = cur[p] \ {e},
         e \in held' \cup dropped' \cup misread' \/ (pc'[p] = "put" /\ item'[p] = e)
  PROVE  DoneInv(p)'
<1> SUFFICES ASSUME completed[p], NEW s \in Sessions \ todo[p]
             PROVE  /\ index[s].kind \in {"none", "readable"}
                    /\ \A h \in Handles : Blobs(s)[h] # "absent" =>
                         \/ <<s, h>> \in held' \cup dropped' \cup misread'
                         \/ <<s, h>> \in cur'[p]
                         \/ pc'[p] = "put" /\ item'[p] = <<s, h>>
  BY DEF DoneInv, Blobs
<1>1. /\ index[s].kind \in {"none", "readable"}
      /\ \A h \in Handles : Blobs(s)[h] # "absent" =>
           <<s, h>> \in held \cup dropped \cup misread \/ <<s, h>> \in cur[p]
  BY DEF DoneInv
<1> QED
  BY <1>1

\* A tombstone replaces whatever the row was; only a store in use had one that is not
\* of the index.
LEMMA TombstoneGInv ==
  ASSUME GInv, NEW p \in Procs, NEW s \in Sessions, NEW h \in Handles, MigrateTombstone(p, s, h)
  PROVE  GInv'
<1>1. /\ TypeOK /\ DbInv /\ SweepInv /\ MarkerMeansDone /\ DoneInv(p)
      /\ pc[p] = "entries" /\ <<s, h>> \in cur[p] /\ Blobs(s)[h] = "swept"
      /\ WriteOwn(s, h, "tombstone") /\ cur' = [cur EXCEPT ![p] = cur[p] \ {<<s, h>>}]
      /\ UNCHANGED <<disk, blobs, row, pc, todo, item, completed, passed, used>>
  BY DEF GInv, MigrateTombstone
<1>2. /\ own' \in [Sessions -> [Handles -> {"absent", "live", "tombstone"}]]
      /\ held' \subseteq Sessions \X Handles /\ held \subseteq held' /\ <<s, h>> \in held'
      /\ held' = held \cup {<<s, h>>}
      /\ own'[s][h] = "tombstone"
      /\ \A r \in Sessions, g \in Handles : <<r, g>> # <<s, h>> => own'[r][g] = own[r][g]
  BY <1>1, WriteOwnType
<1>3. /\ cur' \in [Procs -> SUBSET (Sessions \X Handles)] /\ cur'[p] = cur[p] \ {<<s, h>>}
      /\ \A q \in Procs \ {p} : cur'[q] = cur[q]
  BY <1>1 DEF TypeOK
<1>4. TypeOK'
  BY <1>1, <1>2, <1>3 DEF TypeOK, disk, blobs, passed
<1>5. Local(p) /\ PutInv(p)'
  BY <1>1, <1>3 DEF Local, PutInv
<1>6. DoneInv(p)'
  BY <1>1, <1>2, <1>3, EntryDone DEF disk, passed
<1>7. \A r, g : Blobs(r)' = Blobs(r) /\ AsIndexed(r, g)' = AsIndexed(r, g)
  BY <1>1 DEF Blobs, AsIndexed, disk, blobs
<1>8. FailsClosed'
  BY <1>1, <1>2, <1>7 DEF DbInv, FailsClosed, blobs
<1>9. UnusedInv'
  <2> SUFFICES ASSUME used = {} PROVE
      /\ \A r \in Sessions, g \in Handles :
           /\ own'[r][g] \in {"absent", AsIndexed(r, g)}
           /\ <<r, g>> \in held' => own'[r][g] # "absent"
           /\ <<r, g>> \in dropped => AsIndexed(r, g) = "absent"
      /\ \A g \in row : \E r \in Sessions : own'[r][g] = "live"
    BY <1>1, <1>7 DEF UnusedInv, passed
  <2>1. /\ \A r \in Sessions, g \in Handles :
             /\ own[r][g] \in {"absent", AsIndexed(r, g)}
             /\ <<r, g>> \in held => own[r][g] # "absent"
             /\ <<r, g>> \in dropped => AsIndexed(r, g) = "absent"
        /\ \A g \in row : \E r \in Sessions : own[r][g] = "live"
    BY <1>1 DEF DbInv, UnusedInv
  <2>2. AsIndexed(s, h) = "tombstone"
    BY <1>1 DEF AsIndexed
  <2>3. own[s][h] # "live"
    BY <2>1, <2>2
  <2>4. ASSUME NEW r \in Sessions, NEW g \in Handles
        PROVE  /\ own'[r][g] \in {"absent", AsIndexed(r, g)}
               /\ <<r, g>> \in held' => own'[r][g] # "absent"
    <3>1. CASE <<r, g>> = <<s, h>>
      <4>1. r = s /\ g = h
        BY <3>1
      <4> QED
        BY <1>2, <2>2, <4>1
    <3>2. CASE <<r, g>> # <<s, h>>
      <4>1. own'[r][g] = own[r][g] /\ (<<r, g>> \in held' => <<r, g>> \in held)
        BY <1>2, <3>2
      <4> QED
        BY <2>1, <4>1
    <3> QED
      BY <3>1, <3>2
  <2>5. ASSUME NEW g \in row PROVE \E r \in Sessions : own'[r][g] = "live"
    <3>1. PICK r \in Sessions : own[r][g] = "live"
      BY <2>1
    <3>2. g \in Handles /\ <<r, g>> # <<s, h>>
      BY <1>1, <2>3, <3>1 DEF TypeOK
    <3> QED
      BY <1>2, <3>1, <3>2
  <2> QED
    BY <2>1, <2>4, <2>5
<1>10. MarkerMeansDone'
  BY <1>1, <1>2, MarkerKept DEF disk, passed
<1> QED
  BY <1>1, <1>2, <1>4, <1>5, <1>6, <1>8, <1>9, <1>10, SweepKept, Assemble
     DEF disk, blobs, passed, DbInv

\* An entry with no file of its own is passed over.
LEMMA DropGInv ==
  ASSUME GInv, NEW p \in Procs, NEW s \in Sessions, NEW h \in Handles, MigrateDrop(p, s, h)
  PROVE  GInv'
<1>1. /\ TypeOK /\ DbInv /\ SweepInv /\ MarkerMeansDone /\ DoneInv(p)
      /\ pc[p] = "entries" /\ <<s, h>> \in cur[p] /\ Blobs(s)[h] # "swept" /\ ~Matches(s, h)
      /\ cur' = [cur EXCEPT ![p] = cur[p] \ {<<s, h>>}]
      /\ dropped' = dropped \cup {<<s, h>>}
      /\ UNCHANGED <<db, blobs, disk, pc, todo, item, completed, misread>>
  BY DEF GInv, MigrateDrop
<1>2. /\ cur' \in [Procs -> SUBSET (Sessions \X Handles)] /\ cur'[p] = cur[p] \ {<<s, h>>}
      /\ \A q \in Procs \ {p} : cur'[q] = cur[q]
  BY <1>1 DEF TypeOK
<1>3. TypeOK'
  BY <1>1, <1>2 DEF TypeOK, db, blobs, disk
<1>4. Local(p) /\ PutInv(p)'
  BY <1>1, <1>2 DEF Local, PutInv
<1>5. DoneInv(p)'
  BY <1>1, <1>2, EntryDone DEF db, disk
<1>6. \A r, g : Blobs(r)' = Blobs(r) /\ AsIndexed(r, g)' = AsIndexed(r, g)
  BY <1>1 DEF Blobs, AsIndexed, disk, blobs
<1>7. FailsClosed'
  BY <1>1, <1>6 DEF DbInv, FailsClosed, db, blobs
<1>8. AsIndexed(s, h) = "absent"
  BY <1>1 DEF AsIndexed, Matches
<1>9. UnusedInv'
  BY <1>1, <1>6, <1>8 DEF DbInv, UnusedInv, db
<1>10. MarkerMeansDone'
  BY <1>1, MarkerKept DEF db, disk
<1> QED
  BY <1>1, <1>3, <1>4, <1>5, <1>7, <1>9, <1>10, SweepKept, Assemble
     DEF db, blobs, disk, DbInv

\* An entry whose file gives an error is passed over as well, and its row stays away.
LEMMA MisreadGInv ==
  ASSUME GInv, NEW p \in Procs, NEW s \in Sessions, NEW h \in Handles, MigrateMisread(p, s, h)
  PROVE  GInv'
<1>1. /\ TypeOK /\ DbInv /\ SweepInv /\ MarkerMeansDone /\ DoneInv(p)
      /\ pc[p] = "entries" /\ <<s, h>> \in cur[p]
      /\ cur' = [cur EXCEPT ![p] = cur[p] \ {<<s, h>>}]
      /\ misread' = misread \cup {<<s, h>>}
      /\ UNCHANGED <<db, blobs, disk, pc, todo, item, completed, dropped>>
  BY DEF GInv, MigrateMisread
<1>2. /\ cur' \in [Procs -> SUBSET (Sessions \X Handles)] /\ cur'[p] = cur[p] \ {<<s, h>>}
      /\ \A q \in Procs \ {p} : cur'[q] = cur[q]
  BY <1>1 DEF TypeOK
<1>3. TypeOK'
  BY <1>1, <1>2 DEF TypeOK, db, blobs, disk
<1>4. Local(p) /\ PutInv(p)'
  BY <1>1, <1>2 DEF Local, PutInv
<1>5. DoneInv(p)'
  BY <1>1, <1>2, EntryDone DEF db, disk
<1>6. DbInv' /\ MarkerMeansDone'
  BY <1>1, DbKept, MarkerKept DEF db, disk
<1> QED
  BY <1>1, <1>3, <1>4, <1>5, <1>6, SweepKept, Assemble DEF db, blobs, disk

LEMMA CheckGInv ==
  ASSUME GInv, NEW p \in Procs, NEW s \in Sessions, NEW h \in Handles, MigrateCheck(p, s, h)
  PROVE  GInv'
<1>1. /\ TypeOK /\ DbInv /\ SweepInv /\ MarkerMeansDone /\ DoneInv(p)
      /\ pc[p] = "entries" /\ <<s, h>> \in cur[p] /\ Matches(s, h)
      /\ cur' = [cur EXCEPT ![p] = cur[p] \ {<<s, h>>}]
      /\ item' = [item EXCEPT ![p] = <<s, h>>] /\ Goto(p, "put")
      /\ UNCHANGED <<db, blobs, disk, todo, completed, passed>>
  BY DEF GInv, MigrateCheck
<1>2. /\ cur' \in [Procs -> SUBSET (Sessions \X Handles)] /\ cur'[p] = cur[p] \ {<<s, h>>}
      /\ item' \in [Procs -> (Sessions \X Handles) \cup {<<>>}] /\ item'[p] = <<s, h>>
      /\ pc' \in [Procs -> Places] /\ pc'[p] = "put"
      /\ \A q \in Procs \ {p} : cur'[q] = cur[q] /\ item'[q] = item[q] /\ pc'[q] = pc[q]
  BY <1>1 DEF TypeOK, Goto, Places
<1>3. TypeOK'
  <2>1. \A q \in Procs : pc'[q] = "put" => item'[q] # <<>>
    BY <1>1, <1>2 DEF TypeOK
  <2> QED
    BY <1>1, <1>2, <2>1 DEF TypeOK, db, blobs, passed, disk
<1>4. Local(p)
  BY <1>1, <1>2 DEF Local
<1>5. PutInv(p)'
  BY <1>1, <1>2 DEF PutInv, Matches, Blobs, disk, blobs
<1>6. DoneInv(p)'
  BY <1>1, <1>2, EntryDone DEF db, disk, passed
<1> QED
  BY <1>1, <1>2, <1>3, <1>4, <1>5, <1>6, QuietGInv DEF disk

\* A file is written.
LEMMA WriteFileType ==
  ASSUME TypeOK, NEW h \in Handles, WriteFile(h)
  PROVE  /\ file' \subseteq Handles /\ h \in file' /\ file \subseteq file'
         /\ file' = file \cup {h}
         /\ lost' \subseteq Sessions \X Handles /\ going' = going
         /\ \A s \in Sessions, g \in Handles : <<s, g>> \in lost /\ g # h => <<s, g>> \in lost'
  BY DEF TypeOK, WriteFile

\* The row of an entry that was checked becomes live, and its file is there.
LEMMA PutGInv == ASSUME GInv, NEW p \in Procs, MigratePut(p) PROVE GInv'
<1> DEFINE s == item[p][1]
           h == item[p][2]
<1>1. /\ TypeOK /\ DbInv /\ SweepInv /\ MarkerMeansDone /\ DoneInv(p) /\ PutInv(p)
      /\ pc[p] = "put" /\ WriteOwn(s, h, "live")
      /\ row' = row \cup {h} /\ WriteFile(h)
      /\ Goto(p, "entries") /\ item' = [item EXCEPT ![p] = <<>>]
      /\ UNCHANGED <<disk, todo, cur, completed, passed, used>>
  BY DEF GInv, MigratePut
<1>2. s \in Sessions /\ h \in Handles /\ item[p] = <<s, h>>
  BY <1>1 DEF TypeOK
<1>3. Blobs(s)[h] = "good" /\ (used = {} => h \in file)
  BY <1>1 DEF PutInv
<1> HIDE DEF s, h
<1>4. /\ own' \in [Sessions -> [Handles -> {"absent", "live", "tombstone"}]]
      /\ held' \subseteq Sessions \X Handles /\ held \subseteq held' /\ <<s, h>> \in held'
      /\ held' = held \cup {<<s, h>>}
      /\ own'[s][h] = "live"
      /\ \A r \in Sessions, g \in Handles : <<r, g>> # <<s, h>> => own'[r][g] = own[r][g]
  BY <1>1, <1>2, WriteOwnType
<1>5. /\ file' \subseteq Handles /\ h \in file' /\ file \subseteq file'
      /\ file' = file \cup {h}
      /\ lost' \subseteq Sessions \X Handles /\ going' = going
      /\ \A r \in Sessions, g \in Handles : <<r, g>> \in lost /\ g # h => <<r, g>> \in lost'
  BY <1>1, <1>2, WriteFileType
<1>6. /\ pc' \in [Procs -> Places] /\ pc'[p] = "entries"
      /\ item' \in [Procs -> (Sessions \X Handles) \cup {<<>>}]
      /\ \A q \in Procs \ {p} : pc'[q] = pc[q] /\ item'[q] = item[q]
      /\ \A q \in Procs : pc'[q] = "put" => item'[q] # <<>>
  BY <1>1 DEF TypeOK, Goto, Places
<1>7. TypeOK'
  BY <1>1, <1>2, <1>4, <1>5, <1>6 DEF TypeOK, disk, passed
<1>8. Local(p) /\ PutInv(p)'
  BY <1>1, <1>6 DEF Local, PutInv
<1>9. \A r : Blobs(r)' = Blobs(r)
  BY <1>1 DEF Blobs, disk
<1>10. DoneInv(p)'
  <2> SUFFICES ASSUME completed[p], NEW r \in Sessions \ todo[p]
               PROVE  /\ index[r].kind \in {"none", "readable"}
                      /\ \A g \in Handles : Blobs(r)[g] # "absent" =>
                           <<r, g>> \in held' \cup dropped \cup misread \/ <<r, g>> \in cur[p]
    BY <1>1, <1>6, <1>9 DEF DoneInv, disk, passed
  <2>1. /\ index[r].kind \in {"none", "readable"}
        /\ \A g \in Handles : Blobs(r)[g] # "absent" =>
             <<r, g>> \in held \cup dropped \cup misread \/ <<r, g>> \in cur[p] \/ item[p] = <<r, g>>
    BY <1>1 DEF DoneInv
  <2> QED
    BY <1>2, <1>4, <2>1
<1>11. FailsClosed'
  BY <1>1, <1>2, <1>3, <1>4, <1>5, <1>9 DEF DbInv, FailsClosed
<1>12. used = {} => file' = file
  BY <1>3, <1>5
<1>13. UnusedInv'
  <2> SUFFICES ASSUME used = {} PROVE
      /\ \A r \in Sessions, g \in Handles :
           /\ own'[r][g] \in {"absent", AsIndexed(r, g)}
           /\ <<r, g>> \in held' => own'[r][g] # "absent"
           /\ <<r, g>> \in dropped => AsIndexed(r, g) = "absent"
      /\ \A g \in row' : \E r \in Sessions : own'[r][g] = "live"
    BY <1>1, <1>9, <1>12 DEF UnusedInv, AsIndexed, passed
  <2>1. /\ \A r \in Sessions, g \in Handles :
             /\ own[r][g] \in {"absent", AsIndexed(r, g)}
             /\ <<r, g>> \in held => own[r][g] # "absent"
             /\ <<r, g>> \in dropped => AsIndexed(r, g) = "absent"
        /\ \A g \in row : \E r \in Sessions : own[r][g] = "live"
    BY <1>1 DEF DbInv, UnusedInv
  <2>2. AsIndexed(s, h) = "live"
    BY <1>3 DEF AsIndexed
  <2>3. ASSUME NEW r \in Sessions, NEW g \in Handles
        PROVE  /\ own'[r][g] \in {"absent", AsIndexed(r, g)}
               /\ <<r, g>> \in held' => own'[r][g] # "absent"
    <3>1. CASE <<r, g>> = <<s, h>>
      <4>1. r = s /\ g = h
        BY <3>1
      <4> QED
        BY <1>4, <2>2, <4>1
    <3>2. CASE <<r, g>> # <<s, h>>
      <4>1. own'[r][g] = own[r][g] /\ (<<r, g>> \in held' => <<r, g>> \in held)
        BY <1>4, <3>2
      <4> QED
        BY <2>1, <4>1
    <3> QED
      BY <3>1, <3>2
  <2>4. ASSUME NEW g \in row' PROVE \E r \in Sessions : own'[r][g] = "live"
    <3>1. CASE g = h
      BY <1>2, <1>4, <3>1
    <3>2. CASE g # h
      <4>1. g \in row /\ g \in Handles
        BY <1>1, <3>2 DEF TypeOK
      <4>2. PICK r \in Sessions : own[r][g] = "live"
        BY <2>1, <4>1
      <4> QED
        BY <1>4, <3>2, <4>1, <4>2
    <3> QED
      BY <3>1, <3>2
  <2> QED
    BY <2>1, <2>3, <2>4
<1>14. MarkerMeansDone'
  BY <1>1, <1>4, MarkerKept DEF disk, passed
<1>15. SweepInv'
  BY <1>1, <1>6, <1>8, <1>5, SweepKept
<1> QED
  BY <1>1, <1>4, <1>7, <1>8, <1>10, <1>11, <1>12, <1>13, <1>14, <1>15, Assemble
     DEF disk, passed, DbInv

-----------------------------------------------------------------------------
(* The store in use *)

\* A step of somebody who uses the store, between two operations or in a sweep.
LEMMA UserLocal ==
  ASSUME TypeOK, NEW p \in Procs, NEW l \in {"idle", "ready", "sweep"}, Goto(p, l),
         UNCHANGED locals
  PROVE  /\ pc' \in [Procs -> Places] /\ pc'[p] = l
         /\ \A q \in Procs \ {p} : pc'[q] = pc[q]
         /\ \A q \in Procs : pc'[q] = "put" => item'[q] # <<>>
         /\ Local(p) /\ PutInv(p)' /\ DoneInv(p)'
<1>1. /\ pc' \in [Procs -> Places] /\ pc'[p] = l
      /\ \A q \in Procs \ {p} : pc'[q] = pc[q]
  BY DEF TypeOK, Goto, Places
<1>2. Local(p) /\ PutInv(p)' /\ DoneInv(p)'
  BY <1>1 DEF Local, PutInv, DoneInv, locals
<1>3. \A q \in Procs : pc'[q] = "put" => item'[q] # <<>>
  BY <1>1 DEF TypeOK, locals
<1> QED
  BY <1>1, <1>2, <1>3

\* A put uses the store.
LEMMA UserPutGInv ==
  ASSUME GInv, NEW p \in Procs, NEW s \in Sessions, NEW h \in Handles, Put(p, s, h)
  PROVE  GInv'
<1>1. /\ TypeOK /\ DbInv /\ SweepInv /\ MarkerMeansDone /\ pc[p] = "ready"
      /\ WriteOwn(s, h, "live") /\ used' = used \cup {<<s, h>>}
      /\ row' = row \cup {h} /\ WriteFile(h) /\ Goto(p, "idle")
      /\ UNCHANGED <<disk, locals, passed>>
  BY DEF GInv, Put
<1>2. /\ own' \in [Sessions -> [Handles -> {"absent", "live", "tombstone"}]]
      /\ held' \subseteq Sessions \X Handles /\ held \subseteq held'
      /\ \A r \in Sessions, g \in Handles : <<r, g>> # <<s, h>> => own'[r][g] = own[r][g]
  BY <1>1, WriteOwnType
<1>3. /\ file' \subseteq Handles /\ h \in file' /\ file \subseteq file'
      /\ lost' \subseteq Sessions \X Handles /\ going' = going
      /\ \A r \in Sessions, g \in Handles : <<r, g>> \in lost /\ g # h => <<r, g>> \in lost'
  BY <1>1, WriteFileType
<1>4. /\ pc' \in [Procs -> Places] /\ pc'[p] = "idle"
      /\ \A q \in Procs : pc'[q] = "put" => item'[q] # <<>>
      /\ Local(p) /\ PutInv(p)' /\ DoneInv(p)'
  BY <1>1, UserLocal
<1>5. TypeOK'
  BY <1>1, <1>2, <1>3, <1>4 DEF TypeOK, disk, locals, passed
<1>6. \A r : Blobs(r)' = Blobs(r)
  BY <1>1 DEF Blobs, disk
<1>7. FailsClosed'
  BY <1>1, <1>2, <1>3, <1>6 DEF DbInv, FailsClosed
<1>8. used' # {}
  BY <1>1
<1>9. MarkerMeansDone' /\ SweepInv'
  BY <1>1, <1>2, <1>3, <1>4, MarkerKept, SweepKept DEF disk, passed
<1> QED
  BY <1>1, <1>2, <1>4, <1>5, <1>7, <1>8, <1>9, Assemble DEF disk, passed, DbInv, UnusedInv

\* A put that fails uses it too.
LEMMA PutAbortsGInv ==
  ASSUME GInv, NEW p \in Procs, NEW s \in Sessions, NEW h \in Handles, PutAborts(p, s, h)
  PROVE  GInv'
<1>1. /\ TypeOK /\ DbInv /\ SweepInv /\ MarkerMeansDone /\ pc[p] = "ready"
      /\ used' = used \cup {<<s, h>>} /\ WriteFile(h) /\ Goto(p, "idle")
      /\ UNCHANGED <<disk, own, row, held, locals, passed>>
  BY DEF GInv, PutAborts
<1>2. /\ file' \subseteq Handles /\ h \in file' /\ file \subseteq file'
      /\ lost' \subseteq Sessions \X Handles /\ going' = going
      /\ \A r \in Sessions, g \in Handles : <<r, g>> \in lost /\ g # h => <<r, g>> \in lost'
  BY <1>1, WriteFileType
<1>3. /\ pc' \in [Procs -> Places] /\ pc'[p] = "idle"
      /\ \A q \in Procs : pc'[q] = "put" => item'[q] # <<>>
      /\ Local(p) /\ PutInv(p)' /\ DoneInv(p)'
  BY <1>1, UserLocal
<1>4. TypeOK'
  BY <1>1, <1>2, <1>3 DEF TypeOK, disk, locals, passed
<1>5. \A r : Blobs(r)' = Blobs(r)
  BY <1>1 DEF Blobs, disk
<1>6. FailsClosed'
  BY <1>1, <1>2, <1>5 DEF DbInv, FailsClosed
<1>7. used' # {}
  BY <1>1
<1>8. MarkerMeansDone' /\ SweepInv'
  BY <1>1, <1>2, <1>3, MarkerKept, SweepKept DEF disk, passed
<1> QED
  BY <1>1, <1>3, <1>4, <1>6, <1>7, <1>8, Assemble DEF disk, passed, DbInv, UnusedInv

\* A put of the migration that fails leaves a file that was there until the store was
\* used.
LEMMA MigratePutAbortsGInv ==
  ASSUME GInv, NEW p \in Procs, MigratePutAborts(p) PROVE GInv'
<1> DEFINE h == item[p][2]
<1>1. /\ TypeOK /\ DbInv /\ SweepInv /\ MarkerMeansDone /\ PutInv(p)
      /\ pc[p] = "put" /\ WriteFile(h) /\ Leave(p, "idle")
      /\ UNCHANGED <<db, disk, passed>>
  BY DEF GInv, MigratePutAborts
<1>2. h \in Handles /\ (used = {} => h \in file)
  BY <1>1 DEF TypeOK, PutInv
<1> HIDE DEF h
<1>3. /\ file' \subseteq Handles /\ h \in file' /\ file \subseteq file'
      /\ file' = file \cup {h}
      /\ lost' \subseteq Sessions \X Handles /\ going' = going
      /\ \A r \in Sessions, g \in Handles : <<r, g>> \in lost /\ g # h => <<r, g>> \in lost'
  BY <1>1, <1>2, WriteFileType
<1>4. /\ pc' \in [Procs -> Places] /\ pc'[p] = "idle"
      /\ todo' \in [Procs -> SUBSET Sessions]
      /\ cur' \in [Procs -> SUBSET (Sessions \X Handles)]
      /\ item' \in [Procs -> (Sessions \X Handles) \cup {<<>>}]
      /\ \A q \in Procs : pc'[q] = "put" => item'[q] # <<>>
      /\ completed' \in [Procs -> BOOLEAN]
      /\ Local(p) /\ PutInv(p)' /\ DoneInv(p)'
  BY <1>1, LeaveLocal
<1>5. TypeOK'
  BY <1>1, <1>3, <1>4 DEF TypeOK, db, disk, passed
<1>6. used = {} => file' = file
  BY <1>2, <1>3
<1>7. \A r : Blobs(r)' = Blobs(r)
  BY <1>1 DEF Blobs, disk
<1>8. FailsClosed'
  BY <1>1, <1>3, <1>7 DEF DbInv, FailsClosed, db
<1>9. UnusedInv'
  BY <1>1, <1>6, <1>7 DEF DbInv, UnusedInv, AsIndexed, db, passed
<1>10. MarkerMeansDone' /\ SweepInv'
  BY <1>1, <1>3, <1>4, MarkerKept, SweepKept DEF db, disk, passed
<1> QED
  BY <1>1, <1>4, <1>5, <1>6, <1>8, <1>9, <1>10, Assemble DEF db, disk, passed, DbInv

\* A sweep that has found something to change uses the store.
LEMMA SweepBeginGInv == ASSUME GInv, NEW p \in Procs, SweepBegin(p) PROVE GInv'
<1>1. PICK changed \in SUBSET (Sessions \X Handles) : going' = changed /\ used' = used \cup changed
  BY DEF SweepBegin
<1>2. /\ TypeOK /\ DbInv /\ SweepInv /\ MarkerMeansDone /\ Unlocked /\ Goto(p, "sweep")
      /\ UNCHANGED <<disk, locals, own, row, file, held, passed, lost>>
  BY DEF GInv, SweepBegin
<1>3. /\ pc' \in [Procs -> Places] /\ pc'[p] = "sweep"
      /\ \A q \in Procs \ {p} : pc'[q] = pc[q]
      /\ \A q \in Procs : pc'[q] = "put" => item'[q] # <<>>
      /\ Local(p) /\ PutInv(p)' /\ DoneInv(p)'
  BY <1>2, UserLocal
<1>4. TypeOK'
  BY <1>1, <1>2, <1>3 DEF TypeOK, disk, locals, passed
<1>5. \A r : Blobs(r)' = Blobs(r)
  BY <1>2 DEF Blobs, disk
<1>6. FailsClosed'
  BY <1>1, <1>2, <1>5 DEF DbInv, FailsClosed
<1>7. UnusedInv'
  BY <1>1, <1>2, <1>5 DEF DbInv, UnusedInv, AsIndexed, passed
<1>8. SweepInv'
  BY <1>1, <1>2, <1>3 DEF SweepInv, Unlocked
<1>9. MarkerMeansDone'
  BY <1>2, MarkerKept DEF disk, passed
<1> QED
  BY <1>1, <1>2, <1>3, <1>4, <1>6, <1>7, <1>8, <1>9, Assemble DEF disk, passed, DbInv

\* A file goes only when all live rows of it are the sweep's to take, so none goes
\* before the store is used.
LEMMA SweepUnlinkGInv ==
  ASSUME GInv, NEW p \in Procs, NEW h \in Handles, SweepUnlink(p, h) PROVE GInv'
<1>1. /\ TypeOK /\ DbInv /\ SweepInv /\ MarkerMeansDone /\ PutInv(p) /\ DoneInv(p)
      /\ pc[p] = "sweep" /\ h \in Doomed /\ file' = file \ {h}
      /\ lost' = lost \cup {e \in going : e[2] = h /\ own[e[1]][h] = "live"}
      /\ UNCHANGED <<db, disk, locals, pc, going, passed>>
  BY DEF GInv, SweepUnlink
<1>2. TypeOK'
  BY <1>1 DEF TypeOK, db, disk, locals, passed
<1>3. Local(p) /\ PutInv(p)' /\ DoneInv(p)'
  BY <1>1 DEF Local, PutInv, DoneInv, locals
<1>4. \A r : Blobs(r)' = Blobs(r)
  BY <1>1 DEF Blobs, disk
<1>5. FailsClosed'
  <2> SUFFICES ASSUME NEW s \in Sessions, NEW g \in Handles, own[s][g] = "live"
               PROVE  /\ <<s, g>> \in used \/ Blobs(s)[g] = "good"
                      /\ g \in row /\ (g \in file' \/ <<s, g>> \in lost')
    BY <1>1, <1>4 DEF FailsClosed, db
  <2>1. /\ <<s, g>> \in used \/ Blobs(s)[g] = "good"
        /\ g \in row /\ (g \in file \/ <<s, g>> \in lost)
    BY <1>1 DEF DbInv, FailsClosed
  <2>2. ASSUME g = h PROVE <<s, g>> \in lost'
    <3>1. <<s, h>> \in going /\ own[s][h] = "live"
      BY <1>1, <2>2 DEF Doomed
    <3> QED
      BY <1>1, <2>2, <3>1
  <2> QED
    BY <1>1, <2>1, <2>2
<1>6. used # {}
  <2>1. h \in row /\ \A s \in Sessions : own[s][h] = "live" => <<s, h>> \in going
    BY <1>1 DEF Doomed
  <2>2. used = {} => going = {} /\ \E s \in Sessions : own[s][h] = "live"
    BY <1>1, <2>1 DEF DbInv, UnusedInv, SweepInv
  <2> QED
    BY <2>1, <2>2
<1>7. UnusedInv'
  BY <1>1, <1>6 DEF UnusedInv, db
<1>8. SweepInv' /\ MarkerMeansDone'
  BY <1>1, MarkerKept DEF SweepInv, Unlocked, db, disk, passed
<1> QED
  BY <1>1, <1>2, <1>3, <1>5, <1>6, <1>7, <1>8, Assemble DEF db, disk, passed, DbInv

\* Once the sweep is over nobody has the lock.
LEMMA SweepEnds ==
  ASSUME TypeOK, SweepInv, NEW p \in Procs, pc[p] = "sweep", Local(p), pc'[p] # "sweep",
         going' = {}, used' = used
  PROVE  SweepInv'
<1>1. \A q \in Procs : pc'[q] # "sweep"
  BY DEF SweepInv, Local
<1> QED
  BY <1>1 DEF SweepInv, Unlocked

\* What commits takes rows away, and gives none.
LEMMA SweepCommitGInv == ASSUME GInv, NEW p \in Procs, SweepCommit(p) PROVE GInv'
<1>1. /\ TypeOK /\ DbInv /\ SweepInv /\ MarkerMeansDone /\ pc[p] = "sweep"
      /\ own' = [s \in Sessions |-> [h \in Handles |->
                   IF <<s, h>> \notin going THEN own[s][h]
                   ELSE IF own[s][h] = "live" THEN "tombstone" ELSE "absent"]]
      /\ lost' = lost \ going /\ going' = {} /\ Goto(p, "idle")
      /\ UNCHANGED <<disk, locals, row, file, held, used, passed>>
  BY DEF GInv, SweepCommit
<1>2. /\ own' \in [Sessions -> [Handles -> {"absent", "live", "tombstone"}]]
      /\ \A s \in Sessions, h \in Handles :
           /\ own'[s][h] = "live" => own[s][h] = "live" /\ <<s, h>> \notin going
           /\ used = {} => own'[s][h] = own[s][h]
  BY <1>1 DEF TypeOK, SweepInv
<1>3. /\ pc' \in [Procs -> Places] /\ pc'[p] = "idle"
      /\ \A q \in Procs : pc'[q] = "put" => item'[q] # <<>>
      /\ Local(p) /\ PutInv(p)' /\ DoneInv(p)'
  BY <1>1, UserLocal
<1>4. TypeOK'
  BY <1>1, <1>2, <1>3 DEF TypeOK, disk, locals, passed
<1>5. \A r : Blobs(r)' = Blobs(r)
  BY <1>1 DEF Blobs, disk
<1>6. FailsClosed'
  BY <1>1, <1>2, <1>5 DEF DbInv, FailsClosed
<1>7. UnusedInv'
  <2> SUFFICES ASSUME used = {} PROVE
      /\ \A s \in Sessions, h \in Handles :
           /\ own'[s][h] \in {"absent", AsIndexed(s, h)}
           /\ <<s, h>> \in held => own'[s][h] # "absent"
           /\ <<s, h>> \in dropped => AsIndexed(s, h) = "absent"
      /\ \A h \in row : \E s \in Sessions : own'[s][h] = "live"
    BY <1>1, <1>5 DEF UnusedInv, AsIndexed, passed
  <2>1. \A s \in Sessions, h \in Handles : own'[s][h] = own[s][h]
    BY <1>2
  <2>2. /\ \A s \in Sessions, h \in Handles :
             /\ own[s][h] \in {"absent", AsIndexed(s, h)}
             /\ <<s, h>> \in held => own[s][h] # "absent"
             /\ <<s, h>> \in dropped => AsIndexed(s, h) = "absent"
        /\ \A h \in row : h \in Handles /\ \E s \in Sessions : own[s][h] = "live"
    BY <1>1 DEF DbInv, UnusedInv, TypeOK
  <2>3. \A h \in row : \E s \in Sessions : own'[s][h] = "live"
    BY <2>1, <2>2
  <2> QED
    BY <2>1, <2>2, <2>3
<1>8. SweepInv' /\ MarkerMeansDone'
  BY <1>1, <1>3, SweepEnds, MarkerKept DEF disk, passed
<1> QED
  BY <1>1, <1>3, <1>4, <1>6, <1>7, <1>8, Assemble DEF disk, passed, DbInv

\* What is rolled back, or killed, leaves rows whose file is lost.
LEMMA RolledBackGInv ==
  ASSUME GInv, NEW p \in Procs, pc[p] = "sweep", going' = {}, TypeOK', Local(p),
         PutInv(p)', DoneInv(p)', pc'[p] # "sweep", UNCHANGED <<db, disk, file, lost, passed>>
  PROVE  GInv'
<1>1. TypeOK /\ DbInv /\ SweepInv /\ MarkerMeansDone
  BY DEF GInv
<1>2. \A r : Blobs(r)' = Blobs(r)
  BY DEF Blobs, disk
<1>3. DbInv'
  BY <1>1, <1>2 DEF DbInv, FailsClosed, UnusedInv, AsIndexed, db, passed
<1>4. SweepInv' /\ MarkerMeansDone'
  BY <1>1, SweepEnds, MarkerKept DEF db, disk, passed
<1> QED
  BY <1>3, <1>4, Assemble DEF db, disk, passed

LEMMA SweepRollbackGInv == ASSUME GInv, NEW p \in Procs, SweepRollback(p) PROVE GInv'
<1>1. /\ TypeOK /\ pc[p] = "sweep" /\ going' = {} /\ Goto(p, "ready")
      /\ UNCHANGED <<db, disk, locals, file, lost, passed>>
  BY DEF GInv, SweepRollback
<1>2. /\ pc' \in [Procs -> Places] /\ pc'[p] = "ready"
      /\ \A q \in Procs : pc'[q] = "put" => item'[q] # <<>>
      /\ Local(p) /\ PutInv(p)' /\ DoneInv(p)'
  BY <1>1, UserLocal
<1>3. TypeOK'
  BY <1>1, <1>2 DEF TypeOK, db, disk, locals, passed
<1> QED
  BY <1>1, <1>2, <1>3, RolledBackGInv

LEMMA CrashGInv == ASSUME GInv, NEW p \in Procs, Crash(p) PROVE GInv'
<1>1. /\ TypeOK /\ going' = (IF pc[p] = "sweep" THEN {} ELSE going) /\ Leave(p, "idle")
      /\ UNCHANGED <<db, disk, file, lost, passed>>
  BY DEF GInv, Crash
<1>2. CASE pc[p] = "sweep"
  <2>1. /\ pc' \in [Procs -> Places] /\ pc'[p] = "idle"
        /\ todo' \in [Procs -> SUBSET Sessions]
        /\ cur' \in [Procs -> SUBSET (Sessions \X Handles)]
        /\ item' \in [Procs -> (Sessions \X Handles) \cup {<<>>}]
        /\ \A q \in Procs : pc'[q] = "put" => item'[q] # <<>>
        /\ completed' \in [Procs -> BOOLEAN]
        /\ Local(p) /\ PutInv(p)' /\ DoneInv(p)'
    BY <1>1, LeaveLocal
  <2>2. TypeOK'
    BY <1>1, <1>2, <2>1 DEF TypeOK, db, disk, passed
  <2> QED
    BY <1>1, <1>2, <2>1, <2>2, RolledBackGInv
<1>3. CASE pc[p] # "sweep"
  BY <1>1, <1>3, FailGInv DEF blobs
<1> QED
  BY <1>2, <1>3

LEMMA MigrateGInv == ASSUME GInv, NEW p \in Procs, Migrate(p) PROVE GInv'
<1>1. CASE QuarantineIndex(p) \/ UnreadableIndex(p)
  <2>1. pc[p] = "files" /\ todo[p] # {} /\ SkipIndex(p)
    BY <1>1 DEF QuarantineIndex, UnreadableIndex
  <2>2. UNCHANGED <<db, blobs, index, schema, marker, passed>>
    BY <1>1 DEF QuarantineIndex, UnreadableIndex, disk, passed
  <2>3. quarantine' \subseteq Sessions
    <3>1. quarantine \subseteq Sessions /\ NextIndex(p) \in Sessions
      BY <2>1, NextIndexIn DEF GInv, TypeOK
    <3> QED
      BY <1>1, <3>1 DEF QuarantineIndex, UnreadableIndex, disk
  <2> QED
    BY <2>1, <2>2, <2>3, SkipGInv
<1>2. CASE UndecodedIndex(p) \/ MigrateGone(p)
  BY <1>2, FailGInv DEF UndecodedIndex, MigrateGone
<1> QED
  BY <1>1, <1>2, ReadIndexGInv, TombstoneGInv, DropGInv, MisreadGInv, CheckGInv,
     PutGInv, MigratePutAbortsGInv, EndIndexGInv, MigratedGInv DEF Migrate

LEMMA NextGInv == GInv /\ [Next]_vars => GInv'
<1> SUFFICES ASSUME GInv, [Next]_vars PROVE GInv'
  OBVIOUS
<1>1. CASE UNCHANGED vars
  <2>1. UNCHANGED <<index, schema, marker, quarantine, own, row, file, going, pc, todo, cur,
                    item, completed, held, dropped, misread, used, lost>>
    BY <1>1 DEF vars
  <2>2. TypeOK' /\ MarkerMeansDone' /\ SweepInv'
    BY <2>1 DEF GInv, TypeOK, MarkerMeansDone, Blobs, SweepInv, Unlocked
  <2>3. DbInv'
    BY <2>1, DbKept DEF GInv, db, blobs
  <2>4. \A p \in Procs : PutInv(p)' /\ DoneInv(p)'
    BY <2>1 DEF GInv, PutInv, DoneInv, Blobs
  <2> QED
    BY <2>2, <2>3, <2>4 DEF GInv
<1>2. ASSUME NEW p \in Procs, Use(p) PROVE GInv'
  BY <1>2, UserPutGInv, PutAbortsGInv, SweepBeginGInv, SweepUnlinkGInv, SweepCommitGInv,
     SweepRollbackGInv DEF Use
<1>3. ASSUME NEW p \in Procs, Raise(p) PROVE GInv'
  BY <1>3, FailGInv DEF Raise
<1>4. CASE Next
  BY <1>2, <1>3, <1>4, OpenGInv, MigrateGInv, CloseGInv, CrashGInv DEF Next
<1> QED
  BY <1>1, <1>4

-----------------------------------------------------------------------------
(* The theorems *)

THEOREM SpecGInv == Spec => []GInv
  BY InitGInv, NextGInv, PTL DEF Spec

\* The variables of the migration keep to their types.
THEOREM MigrationTypes == Spec => []TypeOK
<1>1. GInv => TypeOK
  BY DEF GInv
<1> QED
  BY SpecGInv, <1>1, PTL

\* Behind a complete marker every index is readable and every entry has been dealt
\* with, for any processes, indexes, files and faults.
THEOREM MarkerIsEarned == Spec => []MarkerMeansDone
<1>1. GInv => MarkerMeansDone
  BY DEF GInv
<1> QED
  BY SpecGInv, <1>1, PTL

\* A live row is of a session whose index had it or that put it since, whatever other
\* migrations, puts and sweeps do between check and put and wherever any of them fails
\* or is killed; and its file is there, unless a sweep has taken it that was to take the
\* row as well and has not committed.
THEOREM LiveRowsAreOwned == Spec => []FailsClosed
<1>1. GInv => FailsClosed
  BY DEF GInv, DbInv
<1> QED
  BY SpecGInv, <1>1, PTL

\* Until the store is used, rows are what indexes and files say, and once the marker is
\* complete all of them are there whose file could be read, however many processes migrate, fail and die.
THEOREM MigratesExactly == Spec => []MigrationExact
<1>1. ASSUME GInv PROVE MigrationExact
  <2> SUFFICES ASSUME used = {}, NEW s \in Sessions, NEW h \in Handles
               PROVE  /\ own[s][h] \in {"absent", AsIndexed(s, h)}
                      /\ marker = "complete" /\ <<s, h>> \notin misread =>
                           own[s][h] = AsIndexed(s, h)
    BY DEF MigrationExact
  <2>1. /\ own[s][h] \in {"absent", AsIndexed(s, h)}
        /\ <<s, h>> \in held => own[s][h] # "absent"
        /\ <<s, h>> \in dropped => AsIndexed(s, h) = "absent"
    BY <1>1 DEF GInv, DbInv, UnusedInv
  <2>2. ASSUME marker = "complete", <<s, h>> \notin misread
        PROVE  own[s][h] = AsIndexed(s, h)
    <3>1. Blobs(s)[h] # "absent" => <<s, h>> \in held \cup dropped \cup misread
      BY <1>1, <2>2 DEF GInv, MarkerMeansDone
    <3>2. Blobs(s)[h] = "absent" => AsIndexed(s, h) = "absent"
      BY DEF AsIndexed
    <3> QED
      BY <2>1, <2>2, <3>1, <3>2
  <2> QED
    BY <2>1, <2>2
<1> QED
  BY SpecGInv, <1>1, PTL
=============================================================================
