-------------------------- MODULE RescueStoreProofs --------------------------
(***************************************************************************)
(* Proofs about RescueStore, for every number of processes, sessions,      *)
(* contents and handles, every retention time and every choice of faults,  *)
(* and that it implements RescueContract.                                  *)
(***************************************************************************)
EXTENDS RescueStore, TLAPS

\* No ownership row at all is a table of ownership rows.
LEMMA NoOwnerType == NoOwner \in [Sessions -> [Handles -> OwnRows]]
  BY DEF NoOwner, NoOwn, OwnRows

\* Every variable keeps to its type in the initial state.
LEMMA InitTypeOK == Init => TypeOK
<1> SUFFICES ASSUME Init PROVE TypeOK
  OBVIOUS
<1>1. row \in [Handles -> Rows]
  BY DEF Init, Rows, NoRow
<1>2. own \in [Sessions -> [Handles -> OwnRows]] /\ txOwn \in [Sessions -> [Handles -> OwnRows]]
  BY NoOwnerType DEF Init
<1>3. pc \in [Procs -> Pcs]
  BY DEF Init, Pcs
<1>4. \A p \in Procs : JobOK(p)
  BY DEF Init, JobOK, PutTxPcs, MaintTxPcs, FetchPcs, GrantPcs
<1>5. /\ job \in [Procs -> PutJobs \cup MaintJobs \cup FetchJobs \cup {None}]
      /\ result \in [Procs -> Served \cup Outcomes \cup {None}]
  BY DEF Init
<1>6. QED
  BY <1>1, <1>2, <1>3, <1>4, <1>5 DEF Init, TypeOK, ControlOK, DataOK

-----------------------------------------------------------------------------
(* What the passes of a maintenance run do to one ownership row. *)

\* Each pass returns an ownership row and revives none.
LEMMA PassLemma ==
  ASSUME NEW o \in OwnRows, NEW now \in Nat, NEW victim \in BOOLEAN
  PROVE  /\ TtlPass(o, now) \in OwnRows
         /\ ForgetPass(o, now) \in OwnRows
         /\ SizePass(o, victim, now) \in OwnRows
         /\ TtlPass(o, now).state = "live" => o.state = "live"
         /\ ForgetPass(o, now).state = "live" => o.state = "live"
         /\ SizePass(o, victim, now).state = "live" => o.state = "live"
  BY DEF TtlPass, ForgetPass, SizePass, OwnRows, NoOwn

\* A sweep computes ownership rows and revives none.
LEMMA SweptOwnLemma ==
  ASSUME DataOK, NEW V, NEW now \in Nat
  PROVE  /\ SweptOwn(V, now) \in [Sessions -> [Handles -> OwnRows]]
         /\ \A s \in Sessions, h \in Handles : Live(SweptOwn(V, now), s, h) => Live(own, s, h)
<1> DEFINE one(s, h) == SizePass(ForgetPass(TtlPass(own[s][h], now), now), h \in V, now)
<1>1. ASSUME NEW s \in Sessions, NEW h \in Handles
      PROVE  one(s, h) \in OwnRows /\ (one(s, h).state = "live" => own[s][h].state = "live")
  <2> DEFINE t == TtlPass(own[s][h], now)
             f == ForgetPass(t, now)
  <2>1. own[s][h] \in OwnRows
    BY DEF DataOK
  <2>2. t \in OwnRows /\ (t.state = "live" => own[s][h].state = "live")
    BY <2>1, PassLemma
  <2>3. f \in OwnRows /\ (f.state = "live" => t.state = "live")
    BY <2>2, PassLemma
  <2> HIDE DEF f
  <2>4. (h \in V) \in BOOLEAN
    OBVIOUS
  <2>5. /\ SizePass(f, h \in V, now) \in OwnRows
        /\ SizePass(f, h \in V, now).state = "live" => f.state = "live"
    BY <2>3, <2>4, PassLemma
  <2>6. QED
    BY <2>2, <2>3, <2>5 DEF f
<1>2. SweptOwn(V, now) = [s \in Sessions |-> [h \in Handles |-> one(s, h)]]
  BY DEF SweptOwn
<1> HIDE DEF one
<1>3. QED
  BY <1>1, <1>2 DEF Live

\* Reconcile computes ownership rows and revives none.
LEMMA ReconciledOwnLemma ==
  ASSUME DataOK
  PROVE  LET new == [s \in Sessions |-> [h \in Handles |->
                       SizePass(own[s][h], ~BlobMatches(h, row[h].content), clock)]]
         IN  /\ new \in [Sessions -> [Handles -> OwnRows]]
             /\ \A s \in Sessions, h \in Handles : Live(new, s, h) => Live(own, s, h)
<1> DEFINE one(s, h) == SizePass(own[s][h], ~BlobMatches(h, row[h].content), clock)
<1>1. ASSUME NEW s \in Sessions, NEW h \in Handles
      PROVE  one(s, h) \in OwnRows /\ (one(s, h).state = "live" => own[s][h].state = "live")
  <2>1. own[s][h] \in OwnRows /\ clock \in Nat
    BY DEF DataOK
  <2>2. (~BlobMatches(h, row[h].content)) \in BOOLEAN
    OBVIOUS
  <2>3. QED
    BY <2>1, <2>2, PassLemma
<1> HIDE DEF one
<1>2. LET new == [s \in Sessions |-> [h \in Handles |-> one(s, h)]]
      IN  /\ new \in [Sessions -> [Handles -> OwnRows]]
          /\ \A s \in Sessions, h \in Handles : Live(new, s, h) => Live(own, s, h)
  BY <1>1 DEF Live
<1>3. QED
  BY <1>2 DEF one

-----------------------------------------------------------------------------
(* How the control state of a process moves. *)

\* A process that goes to another step of the same kind keeps fitting locals.
LEMMA GotoControl ==
  ASSUME ControlOK, NEW p \in Procs, NEW l \in Pcs, Goto(p, l),
         UNCHANGED <<job, result>>,
         l \in PutTxPcs => job[p] \in PutJobs,
         l \in MaintTxPcs => job[p] \in MaintJobs,
         l \in FetchPcs => job[p] \in FetchJobs,
         l \notin BeginPcs
  PROVE  ControlOK'
  BY DEF ControlOK, JobOK, Goto, BeginPcs, PutTxPcs, MaintTxPcs, FetchPcs, GrantPcs

\* An operation that ends leaves no locals.
LEMMA FinishControl ==
  ASSUME ControlOK, NEW p \in Procs, NEW r \in Served \cup Outcomes, Finish(p, r)
  PROVE  ControlOK'
  BY DEF ControlOK, JobOK, Finish, Goto, Pcs, PutTxPcs, MaintTxPcs, FetchPcs, GrantPcs

\* An operation starts with locals of its kind.
LEMMA StartControl ==
  ASSUME ControlOK, NEW p \in Procs, NEW op, NEW l \in Pcs, NEW j, Start(p, op, l, j),
         \/ l = "put_begin" /\ j \in PutJobs
         \/ l \in {"sweep_begin", "reconcile_begin"} /\ j \in MaintJobs
         \/ l = "fetch_lookup" /\ j \in FetchJobs
  PROVE  ControlOK'
  BY DEF ControlOK, JobOK, Start, Goto, PutTxPcs, MaintTxPcs, FetchPcs, GrantPcs

-----------------------------------------------------------------------------
(* Type correctness, action by action. *)

\* The outcomes named in the actions are outcomes.
LEMMA OutcomeLemma ==
  ASSUME NEW k \in {"stored", "collision", "swept", "reconciled", "stat", "tombstone",
                    "unavailable", "notfound", "binary", "error"}
  PROVE  [kind |-> k] \in Served \cup Outcomes
  BY DEF Outcomes

\* The steps of a put keep the types.
LEMMA PutTypeOK ==
  ASSUME TypeOK, NEW p \in Procs, PutStep(p)
  PROVE  TypeOK'
<1> USE DEF TypeOK
<1>1. pc[p] \in PutTxPcs \cup {"put_begin"} => job[p] \in PutJobs
  BY DEF ControlOK, JobOK
<1>2. CASE PutCollides(p)
  <2>1. ControlOK'
    BY <1>2, OutcomeLemma, FinishControl DEF PutCollides, End
  <2>2. DataOK'
    BY <1>2 DEF PutCollides, DataOK, db, files, tx, env
  <2>3. QED
    BY <2>1, <2>2
<1>3. CASE PutBegin(p)
  <2>1. job[p] \in PutJobs
    BY <1>1, <1>3 DEF PutBegin
  <2>2. PICK l \in {"put_rows", "put_temp"} : Goto(p, l)
    BY <1>3 DEF PutBegin
  <2>3. ControlOK'
    BY <1>3, <2>1, <2>2, GotoControl
    DEF PutBegin, Pcs, TxPcs, PutTxPcs, MaintTxPcs, FetchPcs, GrantPcs, BeginPcs
  <2>4. DataOK'
    BY <1>3 DEF PutBegin, BeginImmediate, DataOK, db, files, tx, env
  <2>5. QED
    BY <2>3, <2>4
<1>4. CASE PutTemp(p)
  <2>1. job[p] \in PutJobs
    BY <1>1, <1>4 DEF PutTemp, PutTxPcs
  <2>2. ControlOK'
    BY <1>4, <2>1, GotoControl
    DEF PutTemp, Pcs, TxPcs, PutTxPcs, MaintTxPcs, FetchPcs, GrantPcs, BeginPcs
  <2>3. DataOK'
    BY <1>4 DEF PutTemp, DataOK, db, tx, env
  <2>4. QED
    BY <2>2, <2>3
<1>5. CASE PutReplace(p)
  <2>1. job[p] \in PutJobs
    BY <1>1, <1>5 DEF PutReplace, PutTxPcs
  <2>2. ControlOK'
    BY <1>5, <2>1, GotoControl
    DEF PutReplace, Pcs, TxPcs, PutTxPcs, MaintTxPcs, FetchPcs, GrantPcs, BeginPcs
  <2>3. DataOK'
    BY <1>5, <2>1 DEF PutReplace, DataOK, db, tx, env, PutJobs
  <2>4. QED
    BY <2>2, <2>3
<1>6. CASE PutRefused(p)
  <2>1. ControlOK'
    BY <1>6, OutcomeLemma, FinishControl DEF PutRefused, End
  <2>2. DataOK'
    BY <1>6, NoOwnerType DEF PutRefused, EndTx, DataOK, db, files, env
  <2>3. QED
    BY <2>1, <2>2
<1>7. CASE PutRows(p)
  <2> DEFINE c == job[p].c
             s == job[p].s
             h == HandleOf[c]
  <2>1. job[p] \in PutJobs
    BY <1>1, <1>7 DEF PutRows, PutTxPcs
  <2>2. c \in Contents /\ s \in Sessions /\ h \in Handles /\ job[p].now \in Nat
    BY <2>1, ConstantsAssumption DEF PutJobs
  <2>3. ControlOK'
    BY <1>7, OutcomeLemma, FinishControl DEF PutRows, End
  <2>4. row' \in [Handles -> Rows]
    BY <1>7, <2>2 DEF PutRows, DataOK, Rows
  <2>5. own[s][h].created \in Nat
    BY <2>2 DEF DataOK, OwnRows
  <2>6. own' \in [Sessions -> [Handles -> OwnRows]]
    <3> DEFINE o == own[s][h]
               r == [state |-> "live", swept |-> 0,
                     created |-> IF o.state = "absent" THEN job[p].now ELSE o.created]
    <3>1. r \in OwnRows
      BY <2>2, <2>5 DEF OwnRows
    <3>2. own' = [own EXCEPT ![s][h] = r]
      BY <1>7 DEF PutRows
    <3> HIDE DEF r
    <3>3. QED
      BY <2>2, <3>1, <3>2 DEF DataOK
  <2>7. issued' \subseteq Sessions \X Contents
    <3>1. issued' = issued \cup {<<s, c>>}
      BY <1>7 DEF PutRows
    <3>2. <<s, c>> \in Sessions \X Contents
      BY <2>2
    <3>3. issued \subseteq Sessions \X Contents
      BY DEF DataOK
    <3> HIDE DEF c, s
    <3>4. QED
      BY <3>1, <3>2, <3>3
  <2>8. UNCHANGED <<clock, damage, file, temps, strays>>
    BY <1>7 DEF PutRows, files, env
  <2>9. lock' = None /\ txOwn' = NoOwner /\ doomed' = {}
    BY <1>7 DEF PutRows, EndTx
  <2> HIDE DEF c, s, h
  <2>10. DataOK'
    BY <2>4, <2>6, <2>7, <2>8, <2>9, NoOwnerType DEF DataOK
  <2>11. QED
    BY <2>3, <2>10
<1>8. QED
  BY <1>2, <1>3, <1>4, <1>5, <1>6, <1>7, <1>1 DEF PutStep

\* The steps of a sweep keep the types.
LEMMA SweepTypeOK ==
  ASSUME TypeOK, NEW p \in Procs, SweepStep(p)
  PROVE  TypeOK'
<1> USE DEF TypeOK
<1>1. CASE SweepBegin(p)
  <2>1. job[p] \in MaintJobs
    BY <1>1 DEF SweepBegin, ControlOK, JobOK
  <2>2. ControlOK'
    BY <1>1, <2>1, GotoControl
    DEF SweepBegin, Pcs, TxPcs, PutTxPcs, MaintTxPcs, FetchPcs, GrantPcs, BeginPcs
  <2>3. txOwn' \in [Sessions -> [Handles -> OwnRows]]
    BY <1>1, <2>1, SweptOwnLemma DEF SweepBegin, MaintJobs
  <2>4. DataOK'
    BY <1>1, <2>3 DEF SweepBegin, BeginImmediate, DataOK, db, files, env
  <2>5. QED
    BY <2>2, <2>4
<1>2. ASSUME NEW h \in Handles, SweepUnlink(p, h) PROVE TypeOK'
  BY <1>2 DEF SweepUnlink, ControlOK, JobOK, DataOK, db, env
<1>3. CASE SweepCommit(p)
  <2>1. ControlOK'
    BY <1>3, OutcomeLemma, FinishControl DEF SweepCommit, MaintCommit, End
  <2>2. DataOK'
    BY <1>3, NoOwnerType DEF SweepCommit, MaintCommit, EndTx, DataOK, files, env
  <2>3. QED
    BY <2>1, <2>2
<1>4. QED
  BY <1>1, <1>2, <1>3 DEF SweepStep

\* The steps of a reconcile keep the types.
LEMMA ReconcileTypeOK ==
  ASSUME TypeOK, NEW p \in Procs, ReconcileStep(p)
  PROVE  TypeOK'
<1> USE DEF TypeOK
<1>1. CASE ReconcileBegin(p)
  <2>1. job[p] \in MaintJobs
    BY <1>1 DEF ReconcileBegin, ControlOK, JobOK
  <2>2. ControlOK'
    BY <1>1, <2>1, GotoControl
    DEF ReconcileBegin, Pcs, TxPcs, PutTxPcs, MaintTxPcs, FetchPcs, GrantPcs, BeginPcs
  <2>3. txOwn' \in [Sessions -> [Handles -> OwnRows]]
    BY <1>1, ReconciledOwnLemma DEF ReconcileBegin
  <2>4. DataOK'
    BY <1>1, <2>3 DEF ReconcileBegin, BeginImmediate, DataOK, db, files, env
  <2>5. QED
    BY <2>2, <2>4
<1>2. ASSUME NEW h \in Handles, QuarantineBlob(p, h) PROVE TypeOK'
  BY <1>2 DEF QuarantineBlob, ControlOK, JobOK, DataOK, db, env
<1>3. CASE QuarantineTemps(p)
  BY <1>3 DEF QuarantineTemps, ControlOK, JobOK, DataOK, db, tx, env
<1>4. CASE ReconcileCommit(p)
  <2>1. ControlOK'
    BY <1>4, OutcomeLemma, FinishControl DEF ReconcileCommit, MaintCommit, End
  <2>2. DataOK'
    BY <1>4, NoOwnerType DEF ReconcileCommit, MaintCommit, EndTx, DataOK, files, env
  <2>3. QED
    BY <2>1, <2>2
<1>5. QED
  BY <1>1, <1>2, <1>3, <1>4 DEF ReconcileStep

\* The steps of a fetch change no data, and keep the types of the control state.
LEMMA FetchTypeOK ==
  ASSUME TypeOK, NEW p \in Procs, FetchStep(p)
  PROVE  TypeOK'
<1> USE DEF TypeOK
<1>0. pc[p] \in FetchPcs => job[p] \in FetchJobs
  BY DEF ControlOK, JobOK
<1>1. pc[p] \in FetchPcs /\ job[p] \in FetchJobs
  BY <1>0 DEF FetchStep, Authorized, FetchLookup, FetchVerify, FetchRead, FetchTomb, FetchStat, FetchMeta,
     FetchPcs, GrantPcs
<1>2. DataOK'
  BY DEF FetchStep, Authorized, FetchLookup, FetchVerify, FetchRead, FetchTomb, FetchStat, FetchMeta,
     FetchMiss, DataOK, db, files, tx, env
<1> SUFFICES ControlOK'
  BY <1>2
<1>3. ASSUME NEW l \in FetchPcs, Goto(p, l), UNCHANGED <<job, result>> PROVE ControlOK'
  BY <1>1, <1>3, GotoControl
  DEF Pcs, TxPcs, PutTxPcs, MaintTxPcs, FetchPcs, GrantPcs, BeginPcs
<1>4. ASSUME NEW k \in {"stat", "tombstone", "unavailable", "notfound", "binary"}, End(p, k)
      PROVE  ControlOK'
  BY <1>4, OutcomeLemma, FinishControl DEF End
<1>5. CASE FetchLookup(p)
  BY <1>3, <1>4, <1>5 DEF Authorized, FetchLookup, FetchPcs, GrantPcs
<1>6. CASE FetchVerify(p)
  <2>1. ASSUME Goto(p, "fetch_read"), job' = [job EXCEPT ![p].miss = "notfound"],
               UNCHANGED result
        PROVE  ControlOK'
    <3>1. job'[p] \in FetchJobs /\ \A q \in Procs \ {p} : job'[q] = job[q]
      BY <1>1, <2>1 DEF ControlOK, FetchJobs
    <3>2. job' \in [Procs -> PutJobs \cup MaintJobs \cup FetchJobs \cup {None}]
      BY <2>1, <3>1 DEF ControlOK
    <3>3. QED
      BY <1>1, <2>1, <3>1, <3>2
      DEF ControlOK, JobOK, Goto, Pcs, PutTxPcs, MaintTxPcs, FetchPcs, GrantPcs
  <2>2. QED
    BY <1>3, <1>4, <1>6, <2>1 DEF FetchVerify, FetchPcs, GrantPcs
<1>7. CASE FetchRead(p)
  <2>1. CASE /\ file[job[p].h] # None
             /\ Finish(p, [kind |-> "content", s |-> job[p].s, h |-> job[p].h,
                           c |-> file[job[p].h]])
    <3>1. [kind |-> "content", s |-> job[p].s, h |-> job[p].h, c |-> file[job[p].h]] \in Served
      BY <1>1, <2>1 DEF Served, FetchJobs, DataOK
    <3>2. QED
      BY <2>1, <3>1, FinishControl
  <2>2. QED
    BY <1>3, <1>4, <1>7, <2>1 DEF FetchRead, FetchPcs, GrantPcs
<1>8. CASE FetchTomb(p)
  BY <1>1, <1>4, <1>8 DEF FetchTomb, FetchMiss, FetchJobs
<1>9. CASE FetchStat(p)
  BY <1>3, <1>9 DEF FetchStat, FetchPcs, GrantPcs
<1>10. CASE FetchMeta(p)
  BY <1>4, <1>10 DEF FetchMeta, FetchMiss
<1>11. QED
  BY <1>5, <1>6, <1>7, <1>8, <1>9, <1>10 DEF FetchStep

\* Starting an operation keeps the types.
LEMMA CallTypeOK ==
  ASSUME TypeOK, NEW p \in Procs, Call(p)
  PROVE  TypeOK'
<1> USE DEF TypeOK
<1> DEFINE put(s, c) == [s |-> s, c |-> c, now |-> clock, tries |-> 0]
           maint == [now |-> clock, tries |-> 0]
           fetch(s, h, m) == [s |-> s, h |-> h, mode |-> m, miss |-> "unavailable"]
<1>0. clock \in Nat
  BY DEF DataOK
<1>1. ASSUME NEW s \in Sessions, NEW c \in Contents, Put(p, s, c) PROVE TypeOK'
  <2>1. put(s, c) \in PutJobs
    BY <1>0 DEF PutJobs
  <2>2. Start(p, "put", "put_begin", put(s, c))
    BY <1>1 DEF Put
  <2> HIDE DEF put
  <2>3. ControlOK'
    BY <2>1, <2>2, StartControl DEF Pcs, BeginPcs
  <2>4. DataOK'
    BY <2>2 DEF Start, DataOK, db, files, tx, env
  <2>5. QED
    BY <2>3, <2>4
<1>2. ASSUME NEW s \in Sessions, NEW h \in Handles, NEW m \in Modes, Fetch(p, s, h, m)
      PROVE  TypeOK'
  <2>1. fetch(s, h, m) \in FetchJobs
    BY DEF FetchJobs
  <2>2. Start(p, "fetch", "fetch_lookup", fetch(s, h, m))
    BY <1>2 DEF Fetch
  <2> HIDE DEF fetch
  <2>3. ControlOK'
    BY <2>1, <2>2, StartControl DEF Pcs, FetchPcs
  <2>4. DataOK'
    BY <2>2 DEF Start, DataOK, db, files, tx, env
  <2>5. QED
    BY <2>3, <2>4
<1>3. ASSUME Sweep(p) \/ Reconcile(p) PROVE TypeOK'
  <2>1. maint \in MaintJobs
    BY <1>0 DEF MaintJobs
  <2>2. \/ Start(p, "sweep", "sweep_begin", maint)
        \/ Start(p, "reconcile", "reconcile_begin", maint)
    BY <1>3 DEF Sweep, Reconcile
  <2> HIDE DEF maint
  <2>3. ControlOK'
    BY <2>1, <2>2, StartControl DEF Pcs, BeginPcs
  <2>4. DataOK'
    BY <2>2 DEF Start, DataOK, db, files, tx, env
  <2>5. QED
    BY <2>3, <2>4
<1>4. QED
  BY <1>1, <1>2, <1>3 DEF Call

\* What goes wrong keeps the types.
LEMMA FaultTypeOK ==
  ASSUME TypeOK, NEW p \in Procs,
         LockTimeout(p) \/ RetryTx(p) \/ Raise(p) \/ Crash(p) \/ Return(p)
  PROVE  TypeOK'
<1> USE DEF TypeOK
<1>1. CASE LockTimeout(p)
  <2>1. ControlOK'
    BY <1>1, OutcomeLemma, FinishControl DEF LockTimeout, End
  <2>2. DataOK'
    BY <1>1 DEF LockTimeout, DataOK, db, files, tx, env
  <2>3. QED
    BY <2>1, <2>2
<1>2. CASE RetryTx(p)
  <2>1. DataOK'
    BY <1>2, NoOwnerType DEF RetryTx, EndTx, DataOK, db, env
  <2>2. CASE pc[p] \in PutTxPcs
    <3>1. job[p] \in PutJobs /\ Goto(p, "put_begin")
      BY <1>2, <2>2 DEF RetryTx, ControlOK, JobOK, PutTxPcs
    <3>2. job'[p] \in PutJobs
      BY <1>2, <3>1 DEF RetryTx, ControlOK, PutJobs
    <3>3. ControlOK'
      BY <1>2, <3>1, <3>2
      DEF RetryTx, ControlOK, JobOK, Goto, Pcs, BeginPcs, PutTxPcs, MaintTxPcs, FetchPcs, GrantPcs
    <3>4. QED
      BY <2>1, <3>3
  <2>3. CASE pc[p] \in MaintTxPcs
    <3>1. job[p] \in MaintJobs
      BY <2>3 DEF ControlOK, JobOK
    <3>2. job'[p] \in MaintJobs
      BY <1>2, <3>1 DEF RetryTx, ControlOK, MaintJobs
    <3>3. PICK l \in {"sweep_begin", "reconcile_begin"} : Goto(p, l)
      BY <1>2, <2>3 DEF RetryTx, PutTxPcs, MaintTxPcs
    <3>4. ControlOK'
      BY <1>2, <3>2, <3>3
      DEF RetryTx, ControlOK, JobOK, Goto, Pcs, BeginPcs, PutTxPcs, MaintTxPcs, FetchPcs, GrantPcs
    <3>5. QED
      BY <2>1, <3>4
  <2>4. QED
    BY <1>2, <2>2, <2>3 DEF RetryTx, TxPcs
<1>3. CASE Raise(p)
  <2>1. ControlOK'
    BY <1>3, OutcomeLemma, FinishControl DEF Raise, End
  <2>2. DataOK'
    BY <1>3, NoOwnerType DEF Raise, EndTx, DataOK, db, tx, env
  <2>3. QED
    BY <2>1, <2>2
<1>4. CASE Crash(p)
  <2>1. ControlOK'
    BY <1>4 DEF Crash, ControlOK, JobOK, Goto, Pcs, PutTxPcs, MaintTxPcs, FetchPcs, GrantPcs
  <2>2. DataOK'
    BY <1>4, NoOwnerType DEF Crash, EndTx, DataOK, db, tx, env
  <2>3. QED
    BY <2>1, <2>2
<1>5. CASE Return(p)
  <2>1. ControlOK'
    BY <1>5 DEF Return, ControlOK, JobOK, Goto, Pcs, PutTxPcs, MaintTxPcs, FetchPcs, GrantPcs
  <2>2. DataOK'
    BY <1>5 DEF Return, DataOK, db, files, tx, env
  <2>3. QED
    BY <2>1, <2>2
<1>6. QED
  BY <1>1, <1>2, <1>3, <1>4, <1>5

\* Every step keeps the types.
LEMMA NextTypeOK == TypeOK /\ [Next]_vars => TypeOK'
<1> SUFFICES ASSUME TypeOK, [Next]_vars PROVE TypeOK'
  OBVIOUS
<1>1. ASSUME NEW p \in Procs, Step(p) \/ Call(p) \/ RetryTx(p) \/ Raise(p) \/ Crash(p)
      PROVE  TypeOK'
  BY <1>1, PutTypeOK, SweepTypeOK, ReconcileTypeOK, FetchTypeOK, CallTypeOK, FaultTypeOK
  DEF Step
<1>2. ASSUME NEW h \in Handles, Damage(h) PROVE TypeOK'
  BY <1>2 DEF Damage, TypeOK, ControlOK, JobOK, DataOK, db, tx
<1>3. CASE Tick
  BY <1>3 DEF Tick, TypeOK, ControlOK, JobOK, DataOK, db, files, tx
<1>4. CASE UNCHANGED vars
  BY <1>4 DEF vars, db, files, tx, env, TypeOK, ControlOK, JobOK, DataOK
<1>5. QED
  BY <1>1, <1>2, <1>3, <1>4 DEF Next

\* In every behaviour the variables keep to their types, and the locals of an
\* operation fit the step its process is at.
THEOREM TypeCorrect == Spec => []TypeOK
  BY InitTypeOK, NextTypeOK, PTL DEF Spec

-----------------------------------------------------------------------------
(* One writer at a time. *)

\* The parts of SingleWriter.
LockHeld   == \A p \in Procs : pc[p] \in TxPcs <=> lock = p
TempsHeld  == \A p \in Procs : pc[p] = "put_replace" <=> p \in temps
TxShrinks  == \A s \in Sessions, h \in Handles : Live(txOwn, s, h) => Live(own, s, h)

\* A transaction that ends has no view left.
LEMMA EndTxShrinks == EndTx => TxShrinks'
  BY DEF EndTx, TxShrinks, Live, NoOwner, NoOwn

\* The lock passes from None to a process that enters a transaction and back to
\* None when it leaves: three ways a step keeps LockHeld.
LEMMA LockLemma ==
  ASSUME TypeOK, LockHeld, NEW p \in Procs, NEW l, Goto(p, l),
         \/ pc[p] \notin TxPcs /\ l \notin TxPcs /\ UNCHANGED lock
         \/ pc[p] \in TxPcs /\ l \in TxPcs /\ UNCHANGED lock
         \/ pc[p] \notin TxPcs /\ l \in TxPcs /\ BeginImmediate(p)
         \/ pc[p] \in TxPcs /\ l \notin TxPcs /\ lock' = None
  PROVE  LockHeld'
  BY ConstantsAssumption DEF TypeOK, ControlOK, LockHeld, Goto, BeginImmediate

\* A step of p that leaves the temp files alone and neither leaves nor enters
\* "put_replace" keeps TempsHeld.
LEMMA TempsLemma ==
  ASSUME TypeOK, TempsHeld, NEW p \in Procs, NEW l, Goto(p, l), UNCHANGED temps,
         pc[p] # "put_replace", l # "put_replace"
  PROVE  TempsHeld'
  BY DEF TypeOK, ControlOK, TempsHeld, Goto

\* Every step keeps one writer at a time.
LEMMA NextSingleWriter == TypeOK /\ SingleWriter /\ [Next]_vars => SingleWriter'
<1> SUFFICES ASSUME TypeOK, SingleWriter, [Next]_vars PROVE SingleWriter'
  OBVIOUS
<1>0. /\ LockHeld /\ TempsHeld /\ TxShrinks
      /\ (LockHeld' /\ TempsHeld' /\ TxShrinks') => SingleWriter'
  BY DEF SingleWriter, LockHeld, TempsHeld, TxShrinks
<1> USE <1>0
<1> USE DEF TxPcs, PutTxPcs, MaintTxPcs
<1>1. ASSUME NEW p \in Procs, PutStep(p) PROVE SingleWriter'
  <2>1. CASE PutCollides(p)
    BY <2>1, LockLemma, TempsLemma
    DEF PutCollides, End, Finish, db, files, tx, TxShrinks, Live
  <2>2. CASE PutBegin(p)
    <3>1. PICK l \in {"put_rows", "put_temp"} : Goto(p, l)
      BY <2>2 DEF PutBegin
    <3>2. QED
      BY <2>2, <3>1, LockLemma, TempsLemma
      DEF PutBegin, db, files, TxShrinks, Live
  <2>3. CASE PutTemp(p)
    <3>1. TempsHeld'
      BY <2>3 DEF PutTemp, TempsHeld, Goto, TypeOK, ControlOK
    <3>2. QED
      BY <2>3, <3>1, LockLemma DEF PutTemp, db, tx, TxShrinks, Live
  <2>4. CASE PutReplace(p)
    <3>1. TempsHeld'
      BY <2>4 DEF PutReplace, TempsHeld, Goto, TypeOK, ControlOK
    <3>2. QED
      BY <2>4, <3>1, LockLemma DEF PutReplace, db, tx, TxShrinks, Live
  <2>5. CASE PutRefused(p)
    BY <2>5, LockLemma, TempsLemma, EndTxShrinks
    DEF PutRefused, End, Finish, EndTx, files
  <2>6. CASE PutRows(p)
    BY <2>6, LockLemma, TempsLemma, EndTxShrinks
    DEF PutRows, End, Finish, EndTx, files
  <2>7. QED
    BY <1>1, <2>1, <2>2, <2>3, <2>4, <2>5, <2>6 DEF PutStep
<1>2. ASSUME NEW p \in Procs, SweepStep(p) PROVE SingleWriter'
  <2>1. CASE SweepBegin(p)
    <3>1. job[p].now \in Nat
      BY <2>1 DEF SweepBegin, TypeOK, ControlOK, JobOK, MaintJobs
    <3>2. TxShrinks'
      BY <2>1, <3>1, SweptOwnLemma DEF SweepBegin, TypeOK, TxShrinks, Live, db
    <3>3. QED
      BY <2>1, <3>2, LockLemma, TempsLemma DEF SweepBegin, files
  <2>2. ASSUME NEW h \in Handles, SweepUnlink(p, h) PROVE SingleWriter'
    BY <2>2 DEF SweepUnlink, SingleWriter, db, Live
  <2>3. CASE SweepCommit(p)
    BY <2>3, LockLemma, TempsLemma, EndTxShrinks
    DEF SweepCommit, MaintCommit, End, Finish, EndTx, files
  <2>4. QED
    BY <1>2, <2>1, <2>2, <2>3 DEF SweepStep
<1>3. ASSUME NEW p \in Procs, ReconcileStep(p) PROVE SingleWriter'
  <2>1. CASE ReconcileBegin(p)
    <3>1. TxShrinks'
      BY <2>1, ReconciledOwnLemma DEF ReconcileBegin, TypeOK, TxShrinks, Live, db
    <3>2. QED
      BY <2>1, <3>1, LockLemma, TempsLemma DEF ReconcileBegin, files
  <2>2. ASSUME NEW h \in Handles, QuarantineBlob(p, h) PROVE SingleWriter'
    BY <2>2 DEF QuarantineBlob, SingleWriter, db, Live
  <2>3. CASE QuarantineTemps(p)
    <3>1. \A q \in Procs : pc[q] # "put_replace"
      BY <2>3, ConstantsAssumption DEF QuarantineTemps, LockHeld
    <3>2. QED
      BY <2>3, <3>1 DEF QuarantineTemps, SingleWriter, db, tx, Live
  <2>4. CASE ReconcileCommit(p)
    BY <2>4, LockLemma, TempsLemma, EndTxShrinks
    DEF ReconcileCommit, MaintCommit, End, Finish, EndTx, files
  <2>5. QED
    BY <1>3, <2>1, <2>2, <2>3, <2>4 DEF ReconcileStep
<1>4. ASSUME NEW p \in Procs, FetchStep(p) \/ LockTimeout(p) \/ Return(p) \/ Call(p)
      PROVE  SingleWriter'
  <2>1. PICK l : l \notin TxPcs /\ Goto(p, l)
    <3>1. CASE FetchStep(p)
      BY <3>1 DEF FetchStep, Authorized, FetchLookup, FetchVerify, FetchRead, FetchTomb, FetchStat,
         FetchMeta, FetchMiss, End, Finish
    <3>2. CASE LockTimeout(p) \/ Return(p)
      BY <3>2 DEF LockTimeout, Return, End, Finish
    <3>3. CASE Call(p)
      BY <3>3 DEF Call, Put, Fetch, Sweep, Reconcile, Start
    <3>4. QED
      BY <1>4, <3>1, <3>2, <3>3
  <2>2. pc[p] \notin TxPcs /\ UNCHANGED <<db, files, tx>>
    <3>1. CASE FetchStep(p)
      BY <3>1 DEF FetchStep, Authorized, FetchLookup, FetchVerify, FetchRead, FetchTomb, FetchStat,
         FetchMeta, FetchMiss
    <3>2. CASE LockTimeout(p) \/ Return(p)
      BY <3>2 DEF LockTimeout, Return, BeginPcs
    <3>3. CASE Call(p)
      BY <3>3 DEF Call, Put, Fetch, Sweep, Reconcile, Start
    <3>4. QED
      BY <1>4, <3>1, <3>2, <3>3
  <2>3. QED
    BY <2>1, <2>2, LockLemma, TempsLemma DEF db, files, tx, TxShrinks, Live
<1>5. ASSUME NEW p \in Procs, RetryTx(p) \/ Raise(p) \/ Crash(p) PROVE SingleWriter'
  <2>1. PICK l : l \notin TxPcs /\ Goto(p, l)
    BY <1>5 DEF RetryTx, Raise, Crash, End, Finish
  <2>2. temps' = temps \ {p} /\ own' = own
    BY <1>5 DEF RetryTx, Raise, Crash, db
  <2>3. (EndTx /\ lock = p) \/ ((UNCHANGED tx) /\ lock # p)
    BY <1>5 DEF RetryTx, Raise, Crash, LockHeld
  <2>4. LockHeld'
    BY <2>1, <2>3, LockLemma DEF EndTx, tx, LockHeld
  <2>5. TempsHeld'
    BY <2>1, <2>2 DEF TempsHeld, Goto, TypeOK, ControlOK
  <2>6. TxShrinks'
    BY <2>2, <2>3, EndTxShrinks DEF tx, TxShrinks, Live
  <2>7. QED
    BY <2>4, <2>5, <2>6
<1>6. ASSUME NEW h \in Handles, Damage(h) PROVE SingleWriter'
  BY <1>6 DEF Damage, SingleWriter, db, tx, Live
<1>7. CASE Tick
  BY <1>7 DEF Tick, SingleWriter, db, files, tx, Live
<1>8. CASE UNCHANGED vars
  BY <1>8 DEF vars, SingleWriter, db, files, tx, Live
<1>9. QED
  BY <1>1, <1>2, <1>3, <1>4, <1>5, <1>6, <1>7, <1>8 DEF Next, Step

-----------------------------------------------------------------------------
(* Where rows and files come from. *)

\* The rows and files are in order in the initial state.
LEMMA InitProvenance == Init => SingleWriter /\ Provenance /\ FetchExact
<1> SUFFICES ASSUME Init PROVE SingleWriter /\ Provenance /\ FetchExact
  OBVIOUS
<1>1. SingleWriter
  BY ConstantsAssumption DEF Init, SingleWriter, TxPcs, PutTxPcs, MaintTxPcs, Live
<1>2. OwnedRows /\ BoundRows
  BY DEF Init, OwnedRows, BoundRows, Live, NoOwner, NoOwn, NoRow
<1>3. PutRowsFit /\ GrantsFit
  BY DEF Init, PutRowsFit, GrantsFit, PutTxPcs, GrantPcs
<1>4. FetchExact
  BY NoneAssumption DEF Init, FetchExact
<1>5. QED
  BY <1>1, <1>2, <1>3, <1>4 DEF Provenance

\* The blobs row of a handle never changes once it is there, and what was
\* issued stays issued.
LEMMA RowsStable ==
  ASSUME TypeOK, [Next]_vars
  PROVE  /\ issued \subseteq issued'
         /\ \A h \in Handles : row[h].content # None => row'[h] = row[h]
<1>1. ASSUME NEW p \in Procs, PutRows(p)
      PROVE  /\ issued \subseteq issued'
             /\ \A h \in Handles : row[h].content # None => row'[h] = row[h]
  BY <1>1 DEF PutRows, TypeOK, DataOK
<1>2. ASSUME NEW p \in Procs, PutStep(p), ~PutRows(p) PROVE UNCHANGED <<row, issued>>
  BY <1>2 DEF PutStep, db, PutCollides, PutBegin, PutTemp, PutReplace, PutRefused
<1>3. ASSUME NEW p \in Procs, SweepStep(p) \/ ReconcileStep(p) PROVE UNCHANGED <<row, issued>>
  BY <1>3 DEF SweepStep, SweepBegin, SweepUnlink, SweepCommit, MaintCommit, db,
     ReconcileStep, ReconcileBegin, QuarantineBlob, QuarantineTemps, ReconcileCommit
<1>4. ASSUME NEW p \in Procs, FetchStep(p) PROVE UNCHANGED <<row, issued>>
  BY <1>4 DEF FetchStep, Authorized, FetchLookup, FetchVerify, FetchRead, FetchTomb, FetchStat, FetchMeta,
     FetchMiss, db
<1>5. ASSUME NEW p \in Procs,
             LockTimeout(p) \/ Return(p) \/ Call(p) \/ RetryTx(p) \/ Raise(p) \/ Crash(p)
      PROVE  UNCHANGED <<row, issued>>
  BY <1>5 DEF LockTimeout, Return, Call, Put, Fetch, Sweep, Reconcile, Start, RetryTx, Raise,
     Crash, db
<1>6. ASSUME (\E h \in Handles : Damage(h)) \/ Tick \/ UNCHANGED vars
      PROVE  UNCHANGED <<row, issued>>
  BY <1>6 DEF Damage, Tick, vars, db
<1>7. QED
  BY <1>1, <1>2, <1>3, <1>4, <1>5, <1>6 DEF Next, Step

\* A step that changes neither the tables nor the files keeps their provenance;
\* so does one that takes files away or damages them.
LEMMA FilesFrame ==
  ASSUME OwnedRows, BoundRows, UNCHANGED db,
         \A h \in Handles : file'[h] \in {file[h], Damaged, None}
  PROVE  OwnedRows' /\ BoundRows'
  BY DEF OwnedRows, BoundRows, db, Live

\* A process that is past no grant and in no put needs nothing of the rows; the
\* others keep what they rely on as long as the rows are stable.
LEMMA ControlFrame ==
  ASSUME TypeOK, PutRowsFit, GrantsFit, UNCHANGED row,
         issued \subseteq issued',
         NEW p \in Procs, pc'[p] \notin PutTxPcs \cup GrantPcs,
         \A q \in Procs \ {p} : pc'[q] = pc[q] /\ job'[q] = job[q]
  PROVE  PutRowsFit' /\ GrantsFit'
  BY DEF PutRowsFit, GrantsFit, TypeOK, ControlOK, JobOK, PutJobs, FetchJobs

\* Finishing, starting and restarting touch the control state of one process.
LEMMA OneProcess ==
  ASSUME TypeOK, NEW p \in Procs,
         Step(p) \/ Call(p) \/ RetryTx(p) \/ Raise(p) \/ Crash(p)
  PROVE  \A q \in Procs \ {p} : pc'[q] = pc[q] /\ job'[q] = job[q] /\ result'[q] = result[q]
<1>1. \A l : Goto(p, l) => \A q \in Procs \ {p} : pc'[q] = pc[q]
  BY DEF Goto, TypeOK, ControlOK
<1>2. \A j : job' = [job EXCEPT ![p] = j] => \A q \in Procs \ {p} : job'[q] = job[q]
  BY DEF TypeOK, ControlOK
<1>3. \A r : result' = [result EXCEPT ![p] = r] => \A q \in Procs \ {p} : result'[q] = result[q]
  BY DEF TypeOK, ControlOK
<1>4. \A k : End(p, k) => \A q \in Procs \ {p} :
                            pc'[q] = pc[q] /\ job'[q] = job[q] /\ result'[q] = result[q]
  BY <1>1, <1>2, <1>3 DEF End, Finish
<1>5. CASE PutStep(p)
  BY <1>5, <1>1, <1>4 DEF PutStep, PutCollides, PutBegin, PutTemp, PutReplace, PutRefused, PutRows
<1>6. CASE SweepStep(p) \/ ReconcileStep(p)
  BY <1>6, <1>1, <1>4 DEF SweepStep, SweepBegin, SweepUnlink, SweepCommit, MaintCommit,
     ReconcileStep, ReconcileBegin, QuarantineBlob, QuarantineTemps, ReconcileCommit
<1>7. CASE FetchStep(p)
  BY <1>7, <1>1, <1>2, <1>3, <1>4 DEF FetchStep, Authorized, FetchLookup, FetchVerify, FetchRead, FetchTomb,
     FetchStat, FetchMeta, FetchMiss, Finish
<1>8. CASE LockTimeout(p) \/ Return(p) \/ Call(p)
  BY <1>8, <1>1, <1>2, <1>3, <1>4 DEF LockTimeout, Return, Call, Put, Fetch, Sweep, Reconcile, Start
<1>9. CASE RetryTx(p) \/ Raise(p) \/ Crash(p)
  <2>1. RetryTx(p) => job' = [job EXCEPT ![p].tries = @ + 1] /\ UNCHANGED result
    BY DEF RetryTx
  <2>2. QED
    BY <1>9, <2>1, <1>1, <1>2, <1>4 DEF RetryTx, Raise, Crash, TypeOK, ControlOK
<1>10. QED
  BY <1>5, <1>6, <1>7, <1>8, <1>9 DEF Step

\* Every step keeps the provenance of rows and files.
LEMMA NextProvenance ==
  TypeOK /\ SingleWriter /\ Provenance /\ [Next]_vars => Provenance'
<1> SUFFICES ASSUME TypeOK, SingleWriter, Provenance, [Next]_vars PROVE Provenance'
  OBVIOUS
<1>0. OwnedRows /\ BoundRows /\ PutRowsFit /\ GrantsFit
  BY DEF Provenance
<1>a. /\ issued \subseteq issued'
      /\ \A h \in Handles : row[h].content # None => row'[h] = row[h]
  BY RowsStable
<1>b. ASSUME NEW p \in Procs, UNCHANGED row, pc'[p] \notin PutTxPcs \cup GrantPcs,
             Step(p) \/ Call(p) \/ RetryTx(p) \/ Raise(p) \/ Crash(p)
      PROVE  PutRowsFit' /\ GrantsFit'
  BY <1>0, <1>a, <1>b, OneProcess, ControlFrame
<1>c. ASSUME NEW p \in Procs, NEW l, Goto(p, l) PROVE pc'[p] = l
  BY <1>c DEF Goto, TypeOK, ControlOK
<1>1. ASSUME NEW p \in Procs, PutStep(p) PROVE Provenance'
  <2> DEFINE c == job[p].c
             h == HandleOf[c]
  <2>0. job[p] \in PutJobs /\ c \in Contents /\ h \in Handles /\ job[p].s \in Sessions
    <3>1. job[p] \in PutJobs
      BY <1>1 DEF PutStep, PutCollides, PutBegin, PutTemp, PutReplace, PutRefused, PutRows,
         TypeOK, ControlOK, JobOK, PutTxPcs
    <3>2. QED
      BY <3>1, ConstantsAssumption DEF PutJobs
  <2>1. CASE PutCollides(p) \/ PutRefused(p)
    <3>1. pc'[p] = "done" /\ UNCHANGED <<db, files>>
      BY <2>1, <1>c DEF PutCollides, PutRefused, End, Finish
    <3>2. PutRowsFit' /\ GrantsFit'
      BY <1>1, <1>b, <3>1 DEF Step, db, PutTxPcs, GrantPcs
    <3>3. OwnedRows' /\ BoundRows'
      BY <1>0, <3>1, FilesFrame DEF files
    <3>4. QED
      BY <3>2, <3>3 DEF Provenance
  <2>2. CASE PutBegin(p)
    <3>1. PutRowsFit' /\ GrantsFit'
      BY <1>0, <2>2, <2>0 DEF PutBegin, db, Goto, PutRowsFit, GrantsFit, PutTxPcs, GrantPcs,
         TypeOK, ControlOK
    <3>2. OwnedRows' /\ BoundRows'
      BY <1>0, <2>2, FilesFrame DEF PutBegin, files
    <3>3. QED
      BY <3>1, <3>2 DEF Provenance
  <2>3. CASE PutTemp(p)
    <3>1. PutRowsFit' /\ GrantsFit'
      BY <1>0, <2>3 DEF PutTemp, db, Goto, PutRowsFit, GrantsFit, PutTxPcs, GrantPcs,
         TypeOK, ControlOK
    <3>2. OwnedRows' /\ BoundRows'
      BY <1>0, <2>3, FilesFrame DEF PutTemp
    <3>3. QED
      BY <3>1, <3>2 DEF Provenance
  <2>4. CASE PutReplace(p)
    <3>0. row[h].content \in {None, c}
      BY <1>0, <2>4 DEF PutRowsFit, PutReplace, PutTxPcs
    <3>1. PutRowsFit' /\ GrantsFit'
      BY <1>0, <2>4 DEF PutReplace, db, Goto, PutRowsFit, GrantsFit, PutTxPcs, GrantPcs,
         TypeOK, ControlOK
    <3>2. OwnedRows'
      BY <1>0, <2>4 DEF PutReplace, db, OwnedRows, Live
    <3>3. BoundRows'
      BY <1>0, <2>4, <2>0, <3>0 DEF PutReplace, db, BoundRows, TypeOK, DataOK
    <3>4. QED
      BY <3>1, <3>2, <3>3 DEF Provenance
  <2>5. CASE PutRows(p)
    <3>0. /\ row[h].content \in {None, c}
          /\ pc[p] = "put_rows" => row[h].content = c
          /\ pc[p] = "put_check" => file[h] = c
          /\ pc[p] \in {"put_rows", "put_check"}
      BY <1>0, <2>5 DEF PutRowsFit, PutRows, PutTxPcs, BlobMatches
    <3>1. row'[h].content = c /\ \A g \in Handles \ {h} : row'[g] = row[g]
      BY <2>0, <2>5, <3>0 DEF PutRows, TypeOK, DataOK, Rows
    <3>2. issued' = issued \cup {<<job[p].s, c>>} /\ file' = file
      BY <2>5 DEF PutRows, files
    <3>3. OwnedRows'
      <4> SUFFICES ASSUME NEW s \in Sessions, NEW g \in Handles, Live(own', s, g)
                   PROVE  row'[g].content # None /\ <<s, row'[g].content>> \in issued'
        BY DEF OwnedRows, Live
      <4>1. CASE s = job[p].s /\ g = h
        BY <4>1, <2>0, <3>1, <3>2, ConstantsAssumption
      <4>2. CASE ~(s = job[p].s /\ g = h)
        <5>1. own'[s][g] = own[s][g]
          BY <4>2, <2>0, <2>5 DEF PutRows, TypeOK, DataOK
        <5>2. row[g].content # None /\ <<s, row[g].content>> \in issued
          BY <1>0, <5>1 DEF OwnedRows, Live
        <5>3. QED
          BY <5>2, <1>a
      <4>3. QED
        BY <4>1, <4>2
    <3>4. BoundRows'
      BY <1>0, <2>0, <3>0, <3>1, <3>2 DEF BoundRows
    <3>5. pc'[p] = "done"
      BY <2>5, <1>c DEF PutRows, End, Finish
    <3>6. \A q \in Procs \ {p} : pc'[q] = pc[q] /\ job'[q] = job[q]
      BY <1>1, OneProcess DEF Step
    <3>7. \A q \in Procs \ {p} : pc[q] \notin PutTxPcs
      BY <3>0 DEF SingleWriter, TxPcs, PutTxPcs
    <3>8. PutRowsFit'
      BY <3>5, <3>6, <3>7 DEF PutRowsFit, PutTxPcs
    <3>9. GrantsFit'
      <4> SUFFICES ASSUME NEW q \in Procs, pc'[q] \in GrantPcs
                   PROVE  /\ row'[job'[q].h].content # None
                          /\ <<job'[q].s, row'[job'[q].h].content>> \in issued'
        BY DEF GrantsFit
      <4>1. q # p
        BY <3>5 DEF GrantPcs
      <4>2. job[q].h \in Handles /\ pc[q] \in GrantPcs /\ job'[q] = job[q]
        BY <4>1, <3>6 DEF TypeOK, ControlOK, JobOK, FetchPcs, FetchJobs
      <4>3. row[job[q].h].content # None /\ <<job[q].s, row[job[q].h].content>> \in issued
        BY <1>0, <4>2 DEF GrantsFit
      <4>4. QED
        BY <4>2, <4>3, <1>a
    <3>10. QED
      BY <3>3, <3>4, <3>8, <3>9 DEF Provenance
  <2>6. QED
    BY <1>1, <2>1, <2>2, <2>3, <2>4, <2>5 DEF PutStep
<1>2. ASSUME NEW p \in Procs, SweepStep(p) \/ ReconcileStep(p) PROVE Provenance'
  <2>1. pc'[p] \notin PutTxPcs \cup GrantPcs
    BY <1>2, <1>c DEF SweepStep, SweepBegin, SweepUnlink, SweepCommit, MaintCommit, End, Finish,
       ReconcileStep, ReconcileBegin, QuarantineBlob, QuarantineTemps, ReconcileCommit,
       PutTxPcs, GrantPcs
  <2>2. /\ UNCHANGED <<row, issued>>
        /\ own' = own \/ own' = txOwn
        /\ \A h \in Handles : file'[h] \in {file[h], None}
    BY <1>2 DEF SweepStep, SweepBegin, SweepUnlink, SweepCommit, MaintCommit, db, files,
       ReconcileStep, ReconcileBegin, QuarantineBlob, QuarantineTemps, ReconcileCommit,
       TypeOK, DataOK
  <2>3. PutRowsFit' /\ GrantsFit'
    BY <1>2, <1>b, <2>1, <2>2 DEF Step
  <2>4. OwnedRows' /\ BoundRows'
    BY <1>0, <2>2 DEF OwnedRows, BoundRows, SingleWriter, Live
  <2>5. QED
    BY <2>3, <2>4 DEF Provenance
<1>3. ASSUME NEW p \in Procs, FetchStep(p) PROVE Provenance'
  <2>0. job[p] \in FetchJobs /\ pc[p] \in FetchPcs
    BY <1>3 DEF FetchStep, Authorized, FetchLookup, FetchVerify, FetchRead, FetchTomb, FetchStat, FetchMeta,
       TypeOK, ControlOK, JobOK, FetchPcs, GrantPcs
  <2>1. UNCHANGED <<db, files>>
    BY <1>3 DEF FetchStep, Authorized, FetchLookup, FetchVerify, FetchRead, FetchTomb, FetchStat, FetchMeta,
       FetchMiss
  <2>2. OwnedRows' /\ BoundRows'
    BY <1>0, <2>1, FilesFrame DEF files
  <2>3. CASE pc'[p] \notin PutTxPcs \cup GrantPcs
    BY <1>3, <1>b, <2>1, <2>2, <2>3 DEF Step, db, Provenance
  <2>4. CASE pc'[p] \in PutTxPcs \cup GrantPcs
    <3>1. /\ pc'[p] \in GrantPcs
          /\ pc[p] \in GrantPcs \/ Live(own, job[p].s, job[p].h)
          /\ job'[p].s = job[p].s /\ job'[p].h = job[p].h
      BY <1>3, <1>c, <2>4, <2>0
      DEF FetchStep, Authorized, FetchLookup, FetchVerify, FetchRead, FetchTomb, FetchStat, FetchMeta,
          FetchMiss, End, Finish, PutTxPcs, GrantPcs, TypeOK, ControlOK, FetchJobs
    <3>2. row[job[p].h].content # None /\ <<job[p].s, row[job[p].h].content>> \in issued
      BY <1>0, <2>0, <3>1 DEF GrantsFit, OwnedRows, FetchJobs
    <3>3. \A q \in Procs \ {p} : pc'[q] = pc[q] /\ job'[q] = job[q]
      BY <1>3, OneProcess DEF Step
    <3>4. PutRowsFit' /\ GrantsFit'
      BY <1>0, <2>1, <3>1, <3>2, <3>3 DEF PutRowsFit, GrantsFit, PutTxPcs, GrantPcs, db
    <3>5. QED
      BY <2>2, <3>4 DEF Provenance
  <2>5. QED
    BY <2>3, <2>4
<1>4. ASSUME NEW p \in Procs,
             LockTimeout(p) \/ Return(p) \/ Call(p) \/ RetryTx(p) \/ Raise(p) \/ Crash(p)
      PROVE  Provenance'
  <2>1. pc'[p] \notin PutTxPcs \cup GrantPcs
    BY <1>4, <1>c DEF LockTimeout, Return, Call, Put, Fetch, Sweep, Reconcile, Start, RetryTx,
       Raise, Crash, End, Finish, PutTxPcs, GrantPcs
  <2>2. UNCHANGED <<db, file>>
    BY <1>4 DEF LockTimeout, Return, Call, Put, Fetch, Sweep, Reconcile, Start, RetryTx,
       Raise, Crash, files
  <2>3. PutRowsFit' /\ GrantsFit'
    BY <1>4, <1>b, <2>1, <2>2 DEF Step, db
  <2>4. OwnedRows' /\ BoundRows'
    BY <1>0, <2>2, FilesFrame
  <2>5. QED
    BY <2>3, <2>4 DEF Provenance
<1>5. ASSUME NEW h \in Handles, Damage(h) PROVE Provenance'
  <2>1. UNCHANGED <<db, pc, job>> /\ \A g \in Handles : file'[g] \in {file[g], Damaged, None}
    BY <1>5 DEF Damage, TypeOK, DataOK
  <2>2. OwnedRows' /\ BoundRows'
    BY <1>0, <2>1, FilesFrame
  <2>3. QED
    BY <1>0, <2>1, <2>2 DEF Provenance, PutRowsFit, GrantsFit, db
<1>6. ASSUME Tick \/ UNCHANGED vars PROVE Provenance'
  <2>1. UNCHANGED <<row, own, issued, file, pc, job>>
    BY <1>6 DEF Tick, vars, db, files
  <2>2. QED
    BY <1>0, <2>1 DEF Provenance, OwnedRows, BoundRows, PutRowsFit, GrantsFit, Live
<1>7. QED
  BY <1>1, <1>2, <1>3, <1>4, <1>5, <1>6 DEF Next, Step

-----------------------------------------------------------------------------
(* What a fetch serves. *)

\* An outcome is no served content.
LEMMA OutcomeNotServed ==
  ASSUME NEW k \in {"stored", "collision", "swept", "reconciled", "stat", "tombstone",
                    "unavailable", "notfound", "binary", "error"}
  PROVE  [kind |-> k] \notin Served
  BY DEF Served

\* Only FetchRead leaves content as the result of a process.
LEMMA OnlyReadServes ==
  ASSUME TypeOK, NEW p \in Procs,
         Step(p) \/ Call(p) \/ RetryTx(p) \/ Raise(p) \/ Crash(p), ~FetchRead(p)
  PROVE  result'[p] \in Served => result'[p] = result[p]
<1>1. ASSUME NEW k \in {"stored", "collision", "swept", "reconciled", "stat", "tombstone",
                        "unavailable", "notfound", "binary", "error"}, End(p, k)
      PROVE  result'[p] \notin Served
  BY <1>1, OutcomeNotServed DEF End, Finish, TypeOK, ControlOK
<1>2. CASE PutStep(p)
  BY <1>2, <1>1 DEF PutStep, PutCollides, PutBegin, PutTemp, PutReplace, PutRefused, PutRows
<1>3. CASE SweepStep(p) \/ ReconcileStep(p)
  BY <1>3, <1>1 DEF SweepStep, SweepBegin, SweepUnlink, SweepCommit, MaintCommit,
     ReconcileStep, ReconcileBegin, QuarantineBlob, QuarantineTemps, ReconcileCommit
<1>4. CASE FetchStep(p)
  BY <1>4, <1>1 DEF FetchStep, Authorized, FetchLookup, FetchVerify, FetchTomb, FetchStat, FetchMeta,
     FetchMiss, TypeOK, ControlOK, JobOK, FetchJobs, FetchPcs, GrantPcs
<1>5. CASE LockTimeout(p) \/ Raise(p)
  BY <1>5, <1>1 DEF LockTimeout, Raise
<1>6. CASE Return(p)
  BY <1>6, NoneAssumption DEF Return, TypeOK, ControlOK
<1>7. CASE Call(p) \/ RetryTx(p) \/ Crash(p)
  BY <1>7 DEF Call, Put, Fetch, Sweep, Reconcile, Start, RetryTx, Crash
<1>8. QED
  BY <1>2, <1>3, <1>4, <1>5, <1>6, <1>7 DEF Step

\* Every step keeps what was served exact.
LEMMA NextFetchExact ==
  TypeOK /\ Provenance /\ FetchExact /\ [Next]_vars => FetchExact'
<1> SUFFICES ASSUME TypeOK, Provenance, FetchExact, [Next]_vars,
                    NEW q \in Procs, result'[q] \in Served
             PROVE  \/ result'[q].c = Damaged
                    \/ /\ <<result'[q].s, result'[q].c>> \in issued'
                       /\ HandleOf[result'[q].c] = result'[q].h
  BY DEF FetchExact
<1>1. issued \subseteq issued'
  BY RowsStable
<1>2. CASE result'[q] = result[q]
  BY <1>1, <1>2 DEF FetchExact
<1>3. CASE FetchRead(q) /\ result'[q] # result[q]
  <2> DEFINE h == job[q].h
  <2>1. job[q] \in FetchJobs /\ pc[q] = "fetch_read"
    BY <1>3 DEF FetchRead, TypeOK, ControlOK, JobOK, FetchPcs, GrantPcs
  <2>2. row[h].content # None /\ <<job[q].s, row[h].content>> \in issued
    BY <2>1 DEF Provenance, GrantsFit, GrantPcs
  <2>3. HandleOf[row[h].content] = h /\ file[h] \in {row[h].content, Damaged, None}
    BY <2>1, <2>2 DEF Provenance, BoundRows, FetchJobs
  <2>4. file[h] # None /\ result'[q] = [kind |-> "content", s |-> job[q].s, h |-> h, c |-> file[h]]
    <3>1. ASSUME NEW k \in {"notfound", "binary"} PROVE ~End(q, k)
      BY OutcomeNotServed DEF End, Finish, TypeOK, ControlOK
    <3>2. QED
      BY <1>3, <3>1 DEF FetchRead, Finish, TypeOK, ControlOK
  <2>5. QED
    BY <1>1, <2>2, <2>3, <2>4
<1>4. ASSUME NEW p \in Procs, Step(p) \/ Call(p) \/ RetryTx(p) \/ Raise(p) \/ Crash(p)
      PROVE  result'[q] = result[q] \/ FetchRead(q)
  BY <1>4, OneProcess, OnlyReadServes
<1>5. ASSUME (\E h \in Handles : Damage(h)) \/ Tick \/ UNCHANGED vars
      PROVE  result'[q] = result[q]
  BY <1>5 DEF Damage, Tick, vars
<1>6. QED
  BY <1>2, <1>3, <1>4, <1>5 DEF Next

\* The inductive invariant: FetchExact alone is not inductive, it needs that a
\* fetch past its authorization has a bound handle that its session stored
\* (GrantsFit), hence where live rows and files come from, hence one writer.
IInv == TypeOK /\ SingleWriter /\ Provenance /\ FetchExact

\* The four together are inductive, so they hold in every reachable state.
LEMMA InductiveInvariant == Spec => []IInv
<1>1. Init => IInv
  BY InitTypeOK, InitProvenance DEF IInv
<1>2. IInv /\ [Next]_vars => IInv'
  BY NextTypeOK, NextSingleWriter, NextProvenance, NextFetchExact DEF IInv
<1>3. QED
  BY <1>1, <1>2, PTL DEF Spec

\* One process at a time is in a write transaction, no lock is left behind, no
\* running put loses its temp file, and no maintenance run revives a row.
THEOREM OneWriter == Spec => []SingleWriter
  BY InductiveInvariant, PTL DEF IInv

\* Live rows belong to sessions that stored the content their handle is bound
\* to, and the files of bound handles have that content or do not verify.
THEOREM RowsAndFilesAreOwned == Spec => []Provenance
  BY InductiveInvariant, PTL DEF IInv

\* Whatever runs concurrently, fails or dies, a fetch returns to a session only
\* content a put of that session was accepted for, or bytes damaged from outside.
THEOREM FetchIsExact == Spec => []FetchExact
  BY InductiveInvariant, PTL DEF IInv

-----------------------------------------------------------------------------
(* RescueStore implements RescueContract. *)

\* What may become of the state of an ownership row in a maintenance run.
Fades(x, y) == y = x \/ (x = "live" /\ y = "tombstone") \/ (x = "tombstone" /\ y = "absent")

\* A maintenance run is about to publish rows that fade from the committed ones.
TxFades == \A p \in Procs : pc[p] \in MaintTxPcs =>
  \A s \in Sessions, h \in Handles : Fades(own[s][h].state, txOwn[s][h].state)

\* Only an operation that ended has a result, and only damage makes Damaged.
ResultsDone   == \A p \in Procs : pc[p] # "done" => result[p] = None
DamageIsFault == \A h \in Handles : file[h] = Damaged => "damage" \in Faults

\* A row that expires in a sweep is not forgotten by the same sweep, because
\* its tombstone is as old as the sweep and TombTTL is not negative.
LEMMA SweptRowFades ==
  ASSUME NEW o \in OwnRows, NEW now \in Nat, NEW victim \in BOOLEAN
  PROVE  Fades(o.state, SizePass(ForgetPass(TtlPass(o, now), now), victim, now).state)
<1> DEFINE t == TtlPass(o, now)
           f == ForgetPass(t, now)
           z == SizePass(f, victim, now)
<1>1. t \in OwnRows /\ (t = o \/ (o.state = "live" /\ t.state = "tombstone" /\ t.swept = now))
  BY DEF TtlPass, OwnRows
<1>2. f \in OwnRows /\ (f = t \/ (/\ t.state = "tombstone" /\ now - t.swept > TombTTL
                                  /\ f.state = "absent"))
  BY <1>1 DEF ForgetPass, OwnRows, NoOwn
<1>3. z.state = f.state \/ (f.state = "live" /\ z.state = "tombstone")
  BY <1>2 DEF SizePass, OwnRows
<1> HIDE DEF t, f, z
<1>4. ~(t.swept = now /\ now - t.swept > TombTTL)
  BY <1>1, ConstantsAssumption DEF OwnRows
<1>5. Fades(o.state, z.state)
  BY <1>1, <1>2, <1>3, <1>4 DEF Fades
<1>6. QED
  BY <1>5 DEF t, f, z

\* A sweep and a reconcile publish rows that fade.
LEMMA BeginFades ==
  ASSUME TypeOK, NEW p \in Procs, SweepBegin(p) \/ ReconcileBegin(p)
  PROVE  \A s \in Sessions, h \in Handles : Fades(own'[s][h].state, txOwn'[s][h].state)
<1>1. CASE SweepBegin(p)
  <2>1. job[p].now \in Nat
    BY <1>1 DEF SweepBegin, TypeOK, ControlOK, JobOK, MaintJobs
  <2>2. PICK V : txOwn' = SweptOwn(V, job[p].now)
    BY <1>1 DEF SweepBegin
  <2>3. SUFFICES ASSUME NEW s \in Sessions, NEW h \in Handles
                 PROVE  Fades(own[s][h].state, txOwn'[s][h].state)
    BY <1>1 DEF SweepBegin, db
  <2>4. own[s][h] \in OwnRows /\ (h \in V) \in BOOLEAN
    BY DEF TypeOK, DataOK
  <2>5. txOwn'[s][h] = SizePass(ForgetPass(TtlPass(own[s][h], job[p].now), job[p].now),
                                h \in V, job[p].now)
    BY <2>2 DEF SweptOwn
  <2>6. QED
    BY <2>1, <2>4, <2>5, SweptRowFades
<1>2. CASE ReconcileBegin(p)
  <2>1. SUFFICES ASSUME NEW s \in Sessions, NEW h \in Handles
                 PROVE  Fades(own[s][h].state, txOwn'[s][h].state)
    BY <1>2 DEF ReconcileBegin, db
  <2>2. own[s][h] \in OwnRows
    BY DEF TypeOK, DataOK
  <2>3. txOwn'[s][h] = SizePass(own[s][h], ~BlobMatches(h, row[h].content), clock)
    BY <1>2 DEF ReconcileBegin
  <2>4. QED
    BY <2>2, <2>3 DEF SizePass, Fades, OwnRows
<1>3. QED
  BY <1>1, <1>2

\* The three facts are inductive, given the inductive invariant of RescueStore.
Extra == TxFades /\ ResultsDone /\ DamageIsFault

\* They hold at the start: nothing runs and there is no file.
LEMMA InitExtra == Init => Extra
  BY ConstantsAssumption DEF Init, Extra, TxFades, ResultsDone, DamageIsFault, MaintTxPcs

\* Rows are published by the one process that holds the lock, so what it is
\* about to publish still fades from the committed rows.
LEMMA NextTxFades == IInv /\ TxFades /\ [Next]_vars => TxFades'
<1> SUFFICES ASSUME TypeOK, SingleWriter, TxFades, [Next]_vars PROVE TxFades'
  BY DEF IInv
<1>c. ASSUME NEW p \in Procs, NEW l, Goto(p, l) PROVE pc'[p] = l
  BY <1>c DEF Goto, TypeOK, ControlOK
<1>d. ASSUME NEW p \in Procs, pc'[p] \notin MaintTxPcs, pc[p] \in TxPcs,
             \A q \in Procs \ {p} : pc'[q] = pc[q]
      PROVE  TxFades'
  BY <1>d, ConstantsAssumption DEF TxFades, SingleWriter, TxPcs
<1>e. ASSUME NEW p \in Procs, pc'[p] \notin MaintTxPcs, UNCHANGED <<own, txOwn>>,
             \A q \in Procs \ {p} : pc'[q] = pc[q]
      PROVE  TxFades'
  BY <1>e DEF TxFades
<1>1. ASSUME NEW p \in Procs, PutStep(p) PROVE TxFades'
  <2>1. \A q \in Procs \ {p} : pc'[q] = pc[q]
    BY <1>1, OneProcess DEF Step
  <2>2. pc'[p] \notin MaintTxPcs
    BY <1>1, <1>c DEF PutStep, PutCollides, PutBegin, PutTemp, PutReplace, PutRefused, PutRows,
       End, Finish, MaintTxPcs
  <2>3. (UNCHANGED <<own, txOwn>>) \/ pc[p] \in TxPcs
    BY <1>1 DEF PutStep, PutCollides, PutBegin, PutTemp, PutReplace, PutRefused, PutRows,
       db, tx, TxPcs, PutTxPcs
  <2>4. QED
    BY <2>1, <2>2, <2>3, <1>d, <1>e
<1>2. ASSUME NEW p \in Procs, SweepStep(p) \/ ReconcileStep(p) PROVE TxFades'
  <2>1. \A q \in Procs \ {p} : pc'[q] = pc[q]
    BY <1>2, OneProcess DEF Step
  <2>2. CASE SweepBegin(p) \/ ReconcileBegin(p)
    <3>1. \A q \in Procs \ {p} : pc[q] \notin MaintTxPcs
      BY <2>2, ConstantsAssumption
      DEF SweepBegin, ReconcileBegin, BeginImmediate, SingleWriter, TxPcs
    <3>2. QED
      BY <2>1, <2>2, <3>1, BeginFades DEF TxFades
  <2>3. CASE SweepCommit(p) \/ ReconcileCommit(p)
    <3>1. pc'[p] = "done" /\ pc[p] \in TxPcs
      BY <2>3, <1>c DEF SweepCommit, ReconcileCommit, MaintCommit, End, Finish, TxPcs, MaintTxPcs
    <3>2. QED
      BY <2>1, <3>1, <1>d DEF MaintTxPcs
  <2>4. CASE \/ \E h \in Handles : SweepUnlink(p, h) \/ QuarantineBlob(p, h)
             \/ QuarantineTemps(p)
    BY <2>4 DEF SweepUnlink, QuarantineBlob, QuarantineTemps, TxFades, db, tx
  <2>5. QED
    BY <1>2, <2>2, <2>3, <2>4 DEF SweepStep, ReconcileStep
<1>3. ASSUME NEW p \in Procs, FetchStep(p) \/ LockTimeout(p) \/ Return(p) \/ Call(p)
      PROVE  TxFades'
  <2>1. \A q \in Procs \ {p} : pc'[q] = pc[q]
    BY <1>3, OneProcess DEF Step
  <2>2. (UNCHANGED <<own, txOwn>>) /\ pc'[p] \notin MaintTxPcs
    <3>1. CASE FetchStep(p)
      BY <3>1, <1>c DEF FetchStep, Authorized, FetchLookup, FetchVerify, FetchRead, FetchTomb, FetchStat,
         FetchMeta, FetchMiss, End, Finish, db, tx, MaintTxPcs
    <3>2. CASE LockTimeout(p) \/ Return(p)
      BY <3>2, <1>c DEF LockTimeout, Return, End, Finish, db, tx, MaintTxPcs
    <3>3. CASE Call(p)
      BY <3>3, <1>c DEF Call, Put, Fetch, Sweep, Reconcile, Start, db, tx, MaintTxPcs
    <3>4. QED
      BY <1>3, <3>1, <3>2, <3>3
  <2>3. QED
    BY <2>1, <2>2, <1>e
<1>4. ASSUME NEW p \in Procs, RetryTx(p) \/ Raise(p) \/ Crash(p) PROVE TxFades'
  <2>1. \A q \in Procs \ {p} : pc'[q] = pc[q]
    BY <1>4, OneProcess
  <2>2. pc'[p] \notin MaintTxPcs
    BY <1>4, <1>c DEF RetryTx, Raise, Crash, End, Finish, MaintTxPcs
  <2>3. (UNCHANGED <<own, txOwn>>) \/ pc[p] \in TxPcs
    BY <1>4 DEF RetryTx, Raise, Crash, db, tx, SingleWriter
  <2>4. QED
    BY <2>1, <2>2, <2>3, <1>d, <1>e
<1>5. ASSUME (\E h \in Handles : Damage(h)) \/ Tick \/ UNCHANGED vars PROVE TxFades'
  BY <1>5 DEF Damage, Tick, vars, db, tx, TxFades
<1>6. QED
  BY <1>1, <1>2, <1>3, <1>4, <1>5 DEF Next, Step

\* A result is set by the step that ends an operation, and Return takes it away.
LEMMA NextResultsDone == IInv /\ ResultsDone /\ [Next]_vars => ResultsDone'
<1> SUFFICES ASSUME TypeOK, ResultsDone, [Next]_vars PROVE ResultsDone'
  BY DEF IInv
<1>c. ASSUME NEW p \in Procs, NEW l, Goto(p, l) PROVE pc'[p] = l
  BY <1>c DEF Goto, TypeOK, ControlOK
<1>1. ASSUME NEW p \in Procs, Step(p) \/ Call(p) \/ RetryTx(p) \/ Raise(p) \/ Crash(p)
      PROVE  ResultsDone'
  <2>1. \A q \in Procs \ {p} : pc'[q] = pc[q] /\ result'[q] = result[q]
    BY <1>1, OneProcess
  <2>2. pc'[p] = "done" \/ (pc[p] # "done" /\ UNCHANGED result) \/ result'[p] = None
    <3>1. CASE PutStep(p)
      BY <3>1, <1>c DEF PutStep, PutCollides, PutBegin, PutTemp, PutReplace, PutRefused, PutRows,
         End, Finish
    <3>2. CASE SweepStep(p) \/ ReconcileStep(p)
      BY <3>2, <1>c DEF SweepStep, SweepBegin, SweepUnlink, SweepCommit, MaintCommit,
         ReconcileStep, ReconcileBegin, QuarantineBlob, QuarantineTemps, ReconcileCommit,
         End, Finish
    <3>3. CASE FetchStep(p)
      BY <3>3, <1>c DEF FetchStep, Authorized, FetchLookup, FetchVerify, FetchRead, FetchTomb, FetchStat,
         FetchMeta, FetchMiss, End, Finish
    <3>4. CASE LockTimeout(p) \/ RetryTx(p) \/ Raise(p) \/ Crash(p)
      BY <3>4, <1>c DEF LockTimeout, RetryTx, Raise, Crash, End, Finish, TxPcs, PutTxPcs, MaintTxPcs
    <3>5. CASE Return(p)
      BY <3>5 DEF Return, TypeOK, ControlOK
    <3>6. CASE Call(p)
      BY <3>6 DEF Call, Put, Fetch, Sweep, Reconcile, Start
    <3>7. QED
      BY <1>1, <3>1, <3>2, <3>3, <3>4, <3>5, <3>6 DEF Step
  <2>3. QED
    BY <2>1, <2>2 DEF ResultsDone
<1>2. ASSUME (\E h \in Handles : Damage(h)) \/ Tick \/ UNCHANGED vars PROVE ResultsDone'
  BY <1>2 DEF Damage, Tick, vars, ResultsDone
<1>3. QED
  BY <1>1, <1>2 DEF Next

\* Only Damage writes Damaged into a file.
LEMMA NextDamageIsFault == IInv /\ DamageIsFault /\ [Next]_vars => DamageIsFault'
<1> SUFFICES ASSUME TypeOK, DamageIsFault, [Next]_vars PROVE DamageIsFault'
  BY DEF IInv
<1>1. ASSUME NEW p \in Procs, PutReplace(p) PROVE DamageIsFault'
  <2>1. job[p] \in PutJobs
    BY <1>1 DEF PutReplace, TypeOK, ControlOK, JobOK, PutTxPcs
  <2>2. job[p].c # Damaged
    BY <2>1, ConstantsAssumption DEF PutJobs
  <2>3. QED
    BY <1>1, <2>2 DEF PutReplace, TypeOK, DataOK, DamageIsFault
<1>2. ASSUME NEW h \in Handles, Damage(h) PROVE DamageIsFault'
  BY <1>2 DEF Damage, DamageIsFault
<1>3. ASSUME NEW p \in Procs, NEW h \in Handles, SweepUnlink(p, h) \/ QuarantineBlob(p, h)
      PROVE  DamageIsFault'
  BY <1>3, ConstantsAssumption DEF SweepUnlink, QuarantineBlob, DamageIsFault, TypeOK, DataOK
<1>4. ASSUME UNCHANGED file PROVE DamageIsFault'
  BY <1>4 DEF DamageIsFault
<1>5. ASSUME NEW p \in Procs, PutStep(p), ~PutReplace(p) PROVE UNCHANGED file
  BY <1>5 DEF PutStep, PutCollides, PutBegin, PutTemp, PutRefused, PutRows, files
<1>6. ASSUME NEW p \in Procs, SweepBegin(p) \/ SweepCommit(p) \/ ReconcileBegin(p)
                              \/ QuarantineTemps(p) \/ ReconcileCommit(p)
      PROVE  UNCHANGED file
  BY <1>6 DEF SweepBegin, SweepCommit, MaintCommit, ReconcileBegin, QuarantineTemps,
     ReconcileCommit, files
<1>7. ASSUME NEW p \in Procs, FetchStep(p) \/ LockTimeout(p) \/ Return(p) \/ Call(p)
      PROVE  UNCHANGED file
  BY <1>7 DEF FetchStep, Authorized, FetchLookup, FetchVerify, FetchRead, FetchTomb, FetchStat, FetchMeta,
     FetchMiss, LockTimeout, Return, Call, Put, Fetch, Sweep, Reconcile, Start, files
<1>8. ASSUME NEW p \in Procs, RetryTx(p) \/ Raise(p) \/ Crash(p) PROVE UNCHANGED file
  BY <1>8 DEF RetryTx, Raise, Crash
<1>9. ASSUME Tick \/ UNCHANGED vars PROVE UNCHANGED file
  BY <1>9 DEF Tick, vars, files
<1>10. QED
  BY <1>1, <1>2, <1>3, <1>4, <1>5, <1>6, <1>7, <1>8, <1>9
  DEF Next, Step, SweepStep, ReconcileStep

\* The strengthening that the refinement is proved from.
LEMMA RefinementInvariant == Spec => [](IInv /\ Extra)
<1>1. Init => Extra
  BY InitExtra
<1>2. IInv /\ Extra /\ [Next]_vars => Extra'
  BY NextTxFades, NextResultsDone, NextDamageIsFault DEF Extra
<1>3. QED
  BY <1>1, <1>2, InductiveInvariant, PTL DEF Spec

-----------------------------------------------------------------------------
(* The refinement mapping, one name per variable of the contract. *)

BoundMap  == [h \in Handles |-> row[h].content]
StatusMap == [s \in Sessions |-> [h \in Handles |-> Status(own[s][h])]]
GrantMap  == [p \in Procs |-> GrantOf(p)]
AnswerMap == [p \in Procs |-> AnswerOf(p)]
Bars      == <<BoundMap, StatusMap, GrantMap, AnswerMap>>
Corrupt   == IF "damage" \in Faults THEN {Damaged} ELSE {}

\* The step of p is a step of the contract or none.
Mapped == Contract!CNext \/ UNCHANGED Bars

\* An operation that ends without content gives no answer.
LEMMA NoContentNoAnswer ==
  ASSUME NEW k \in {"stored", "collision", "swept", "reconciled", "stat", "tombstone",
                    "unavailable", "notfound", "binary", "error"}
  PROVE  [kind |-> k] \notin Served
  BY DEF Served

\* A step of p moves the grant and the answer of p only.
LEMMA OnlyOwnCall ==
  ASSUME NEW p \in Procs,
         \A q \in Procs \ {p} : pc'[q] = pc[q] /\ job'[q] = job[q] /\ result'[q] = result[q]
  PROVE  /\ GrantMap'  = [GrantMap EXCEPT ![p] = GrantOf(p)']
         /\ AnswerMap' = [AnswerMap EXCEPT ![p] = AnswerOf(p)']
<1>1. \A q \in Procs \ {p} : GrantOf(q)' = GrantOf(q) /\ AnswerOf(q)' = AnswerOf(q)
  BY DEF GrantOf, AnswerOf
<1>2. QED
  BY <1>1 DEF GrantMap, AnswerMap

\* Tables that stay keep what is bound and what the sessions have.
LEMMA TablesStay == UNCHANGED <<row, own>> => UNCHANGED <<BoundMap, StatusMap>>
  BY DEF BoundMap, StatusMap

\* A call that neither is granted nor answered stutters.
LEMMA MapStutter ==
  ASSUME NEW p \in Procs, UNCHANGED <<row, own>>,
         \A q \in Procs \ {p} : pc'[q] = pc[q] /\ job'[q] = job[q] /\ result'[q] = result[q],
         GrantOf(p)' = GrantOf(p), AnswerOf(p)' = AnswerOf(p)
  PROVE  UNCHANGED Bars
<1>1. \A q \in Procs : GrantOf(q)' = GrantOf(q) /\ AnswerOf(q)' = AnswerOf(q)
  BY DEF GrantOf, AnswerOf
<1>2. UNCHANGED <<GrantMap, AnswerMap>>
  BY <1>1 DEF GrantMap, AnswerMap
<1>3. QED
  BY <1>2, TablesStay DEF Bars

\* A lookup that finds the live row of the session is the contract's Grant.
LEMMA MapGrant ==
  ASSUME NEW p \in Procs, UNCHANGED <<row, own>>,
         \A q \in Procs \ {p} : pc'[q] = pc[q] /\ job'[q] = job[q] /\ result'[q] = result[q],
         NEW s \in Sessions, NEW h \in Handles, Live(own, s, h),
         GrantOf(p) = None, AnswerOf(p) = None, AnswerOf(p)' = None,
         GrantOf(p)' = [s |-> s, h |-> h]
  PROVE  Contract!Grant(p, s, h)
<1>1. GrantMap[p] = None /\ AnswerMap[p] = None /\ StatusMap[s][h] = "live"
  BY DEF GrantMap, AnswerMap, StatusMap, Status, Live
<1>2. GrantMap' = [GrantMap EXCEPT ![p] = [s |-> s, h |-> h]]
  BY OnlyOwnCall
<1>3. UNCHANGED <<BoundMap, StatusMap, AnswerMap>>
  BY OnlyOwnCall, TablesStay, <1>1 DEF AnswerMap
<1>4. QED
  BY <1>1, <1>2, <1>3 DEF Contract!Grant, BoundMap, StatusMap, GrantMap, AnswerMap

\* A granted call that is given up is the contract's Withhold.
LEMMA MapWithhold ==
  ASSUME NEW p \in Procs, UNCHANGED <<row, own>>,
         \A q \in Procs \ {p} : pc'[q] = pc[q] /\ job'[q] = job[q] /\ result'[q] = result[q],
         GrantOf(p) # None, GrantOf(p)' = None, AnswerOf(p)' = AnswerOf(p)
  PROVE  Contract!Withhold(p)
<1>1. GrantMap[p] # None /\ GrantMap' = [GrantMap EXCEPT ![p] = None]
  BY OnlyOwnCall DEF GrantMap
<1>2. UNCHANGED <<BoundMap, StatusMap, AnswerMap>>
  BY OnlyOwnCall, TablesStay DEF AnswerMap
<1>3. QED
  BY <1>1, <1>2 DEF Contract!Withhold, BoundMap, StatusMap, GrantMap, AnswerMap

\* A granted read of the bound content, or of damaged bytes, is Serve.
LEMMA MapServe ==
  ASSUME NEW p \in Procs, UNCHANGED <<row, own>>,
         \A q \in Procs \ {p} : pc'[q] = pc[q] /\ job'[q] = job[q] /\ result'[q] = result[q],
         NEW s \in Sessions, NEW h \in Handles, NEW c \in {row[h].content} \cup Corrupt,
         GrantOf(p) = [s |-> s, h |-> h], GrantOf(p) # None, GrantOf(p)' = None,
         AnswerOf(p)' = [s |-> s, h |-> h, c |-> c]
  PROVE  Contract!Serve(p)
<1>1. GrantMap[p] = [s |-> s, h |-> h] /\ GrantMap[p] # None
  BY DEF GrantMap
<1>2. GrantMap' = [GrantMap EXCEPT ![p] = None]
  BY OnlyOwnCall
<1>3. AnswerMap' = [AnswerMap EXCEPT ![p] = [s |-> s, h |-> h, c |-> c]]
  BY OnlyOwnCall
<1>4. UNCHANGED <<BoundMap, StatusMap>>
  BY TablesStay
<1>5. c \in {BoundMap[GrantMap[p].h]} \cup Corrupt
  BY <1>1 DEF BoundMap
<1>6. \E x \in {BoundMap[GrantMap[p].h]} \cup Corrupt :
        AnswerMap' = [AnswerMap EXCEPT ![p] = [s |-> GrantMap[p].s, h |-> GrantMap[p].h, c |-> x]]
  <2>1. GrantMap[p].s = s /\ GrantMap[p].h = h
    BY <1>1
  <2> HIDE DEF GrantMap, AnswerMap, BoundMap, Corrupt
  <2>2. AnswerMap' = [AnswerMap EXCEPT ![p] = [s |-> GrantMap[p].s, h |-> GrantMap[p].h, c |-> c]]
    BY <1>3, <2>1
  <2>3. QED
    BY <1>5, <2>2
<1>7. QED
  BY <1>1, <1>2, <1>4, <1>6
  DEF Contract!Serve, BoundMap, StatusMap, GrantMap, AnswerMap, Corrupt

\* The caller that takes content is Deliver.
LEMMA MapDeliver ==
  ASSUME NEW p \in Procs, UNCHANGED <<row, own>>,
         \A q \in Procs \ {p} : pc'[q] = pc[q] /\ job'[q] = job[q] /\ result'[q] = result[q],
         GrantOf(p)' = GrantOf(p), AnswerOf(p) # None, AnswerOf(p)' = None
  PROVE  Contract!Deliver(p)
<1>1. AnswerMap[p] # None /\ AnswerMap' = [AnswerMap EXCEPT ![p] = None]
  BY OnlyOwnCall DEF AnswerMap
<1>2. UNCHANGED <<BoundMap, StatusMap, GrantMap>>
  BY OnlyOwnCall, TablesStay DEF GrantMap
<1>3. QED
  BY <1>1, <1>2 DEF Contract!Deliver, BoundMap, StatusMap, GrantMap, AnswerMap

\* What p was granted and answered, read off its control state.
LEMMA GrantFacts ==
  ASSUME TypeOK, ResultsDone, NEW p \in Procs
  PROVE  /\ pc[p] \notin GrantPcs => GrantOf(p) = None
         /\ pc[p] \in GrantPcs => /\ job[p] \in FetchJobs /\ GrantOf(p) # None
                                  /\ GrantOf(p) = [s |-> job[p].s, h |-> job[p].h]
         /\ result[p] \notin Served => AnswerOf(p) = None
         /\ result[p] \in Served => AnswerOf(p) # None
         /\ pc[p] # "done" => AnswerOf(p) = None
<1>1. pc[p] \in GrantPcs => job[p] \in FetchJobs
  BY DEF TypeOK, ControlOK, JobOK, FetchPcs
<1>2. job[p] \in FetchJobs => [s |-> job[p].s, h |-> job[p].h] \in [s : Sessions, h : Handles]
  BY DEF FetchJobs
<1>3. \A x \in Served : [s |-> x.s, h |-> x.h, c |-> x.c]
                          \in [s : Sessions, h : Handles, c : Contents \cup {Damaged}]
  BY DEF Served
<1>4. None \notin Served
  BY NoneAssumption
<1>5. QED
  BY <1>1, <1>2, <1>3, <1>4, NoneAssumption DEF GrantOf, AnswerOf, ResultsDone

\* An operation that ends with an outcome has no grant and no answer any more.
LEMMA EndFacts ==
  ASSUME TypeOK, NEW p \in Procs,
         NEW k \in {"stored", "collision", "swept", "reconciled", "stat", "tombstone",
                    "unavailable", "notfound", "binary", "error"},
         End(p, k)
  PROVE  GrantOf(p)' = None /\ AnswerOf(p)' = None
<1>1. pc'[p] = "done" /\ result'[p] = [kind |-> k]
  BY DEF End, Finish, Goto, TypeOK, ControlOK
<1>2. QED
  BY <1>1, NoContentNoAnswer DEF GrantOf, AnswerOf, GrantPcs

\* The rows a put inserts bind and issue its handle.
LEMMA MapIssue ==
  ASSUME TypeOK, ResultsDone, Provenance, NEW p \in Procs, PutRows(p),
         \A q \in Procs \ {p} : pc'[q] = pc[q] /\ job'[q] = job[q] /\ result'[q] = result[q]
  PROVE  Contract!CNext
<1>1. pc[p] \in PutTxPcs /\ pc[p] \notin GrantPcs /\ pc[p] # "done"
  BY DEF PutRows, PutTxPcs, GrantPcs
<1>0. job[p] \in PutJobs
  BY <1>1 DEF TypeOK, ControlOK, JobOK
<1>2. PICK s \in Sessions, c \in Contents, h \in Handles :
        job[p].s = s /\ job[p].c = c /\ HandleOf[c] = h
  BY <1>0, ConstantsAssumption DEF PutJobs
<1>3. row[h].content \in {None, c}
  BY <1>1, <1>2 DEF Provenance, PutRowsFit
<1>4. BoundMap' = [BoundMap EXCEPT ![h] = c]
  BY <1>0, <1>2, <1>3 DEF PutRows, BoundMap, TypeOK, DataOK
<1>5. StatusMap' = [StatusMap EXCEPT ![s][h] = "live"]
  <2>1. \A t \in Sessions, g \in Handles :
          own'[t][g].state = IF t = s /\ g = h THEN "live" ELSE own[t][g].state
    BY <1>0, <1>2 DEF PutRows, TypeOK, DataOK
  <2>2. \A t \in Sessions, g \in Handles :
          Status(own'[t][g]) = IF t = s /\ g = h THEN "live" ELSE Status(own[t][g])
    BY <2>1 DEF Status
  <2> DEFINE new == [t \in Sessions |-> [g \in Handles |->
                       IF t = s /\ g = h THEN "live" ELSE Status(own[t][g])]]
  <2>3. StatusMap' = new
    BY <2>2 DEF StatusMap
  <2>4. [StatusMap EXCEPT ![s][h] = "live"] = new
    BY DEF StatusMap
  <2>5. QED
    BY <2>3, <2>4
<1>6. UNCHANGED <<GrantMap, AnswerMap>>
  <2>1. GrantOf(p)' = None /\ AnswerOf(p)' = None /\ GrantOf(p) = None /\ AnswerOf(p) = None
    BY <1>1, EndFacts, GrantFacts DEF PutRows
  <2>2. GrantMap' = [GrantMap EXCEPT ![p] = None] /\ AnswerMap' = [AnswerMap EXCEPT ![p] = None]
    BY <2>1, OnlyOwnCall
  <2>3. QED
    BY <2>1, <2>2 DEF GrantMap, AnswerMap
<1>7. BoundMap[h] \in {None, c}
  BY <1>2, <1>3 DEF BoundMap
<1>8. Contract!Issue(s, c)
  BY <1>2, <1>4, <1>5, <1>6, <1>7 DEF Contract!Issue, BoundMap, StatusMap, GrantMap, AnswerMap
<1>9. QED
  BY <1>8 DEF Contract!CNext

\* The rows a maintenance run publishes retire handles.
LEMMA MapRetire ==
  ASSUME TypeOK, TxFades, ResultsDone, NEW p \in Procs, SweepCommit(p) \/ ReconcileCommit(p),
         \A q \in Procs \ {p} : pc'[q] = pc[q] /\ job'[q] = job[q] /\ result'[q] = result[q]
  PROVE  Contract!CNext
<1>1. pc[p] \in MaintTxPcs /\ pc[p] \notin GrantPcs /\ pc[p] # "done" /\ UNCHANGED row /\ own' = txOwn
  BY DEF SweepCommit, ReconcileCommit, MaintCommit, MaintTxPcs, GrantPcs
<1>2. \A s \in Sessions, h \in Handles :
        /\ own[s][h] \in OwnRows /\ own'[s][h] \in OwnRows
        /\ Fades(own[s][h].state, own'[s][h].state)
  BY <1>1 DEF TxFades, TypeOK, DataOK
<1>3. StatusMap' \in [Sessions -> [Handles -> {"none", "live", "swept"}]]
  BY DEF StatusMap, Status
<1>4. \A s \in Sessions, h \in Handles :
        \/ StatusMap'[s][h] = StatusMap[s][h]
        \/ StatusMap[s][h] = "live"  /\ StatusMap'[s][h] = "swept"
        \/ StatusMap[s][h] = "swept" /\ StatusMap'[s][h] = "none"
  BY <1>2 DEF StatusMap, Status, Fades, OwnRows
<1>5. UNCHANGED <<GrantMap, AnswerMap>>
  <2>1. GrantOf(p)' = None /\ AnswerOf(p)' = None /\ GrantOf(p) = None /\ AnswerOf(p) = None
    BY <1>1, EndFacts, GrantFacts DEF SweepCommit, ReconcileCommit, MaintCommit
  <2>2. GrantMap' = [GrantMap EXCEPT ![p] = None] /\ AnswerMap' = [AnswerMap EXCEPT ![p] = None]
    BY <2>1, OnlyOwnCall
  <2>3. QED
    BY <2>1, <2>2 DEF GrantMap, AnswerMap
<1>6. UNCHANGED BoundMap
  BY <1>1 DEF BoundMap
<1>7. Contract!Retire
  BY <1>3, <1>4, <1>5, <1>6 DEF Contract!Retire, BoundMap, StatusMap, GrantMap, AnswerMap
<1>8. QED
  BY <1>7 DEF Contract!CNext

\* A step inside an operation that holds no grant, before and after.
LEMMA MapIdle ==
  ASSUME TypeOK, ResultsDone, NEW p \in Procs, UNCHANGED <<row, own>>,
         \A q \in Procs \ {p} : pc'[q] = pc[q] /\ job'[q] = job[q] /\ result'[q] = result[q],
         pc[p] \notin GrantPcs, pc[p] # "done",
         GrantOf(p)' = None, AnswerOf(p)' = None
  PROVE  UNCHANGED Bars
<1>1. GrantOf(p) = None /\ AnswerOf(p) = None
  BY GrantFacts
<1>2. QED
  BY <1>1, MapStutter

\* A granted call that ends or looks for a tombstone withholds.
LEMMA MapGiveUp ==
  ASSUME TypeOK, ResultsDone, NEW p \in Procs, UNCHANGED <<row, own>>,
         \A q \in Procs \ {p} : pc'[q] = pc[q] /\ job'[q] = job[q] /\ result'[q] = result[q],
         pc[p] \in GrantPcs, GrantOf(p)' = None, AnswerOf(p)' = None
  PROVE  Contract!CNext
<1>1. GrantOf(p) # None /\ AnswerOf(p) = None
  BY GrantFacts DEF GrantPcs
<1>2. Contract!Withhold(p)
  BY <1>1, MapWithhold
<1>3. QED
  BY <1>2 DEF Contract!CNext

\* Every step of a process is a step of the contract or a stutter.
LEMMA MapStep ==
  ASSUME IInv, Extra, NEW p \in Procs,
         Step(p) \/ Call(p) \/ RetryTx(p) \/ Raise(p) \/ Crash(p)
  PROVE  Mapped
<1>0. TypeOK /\ Provenance /\ TxFades /\ ResultsDone /\ DamageIsFault
  BY DEF IInv, Extra
<1>q. \A q \in Procs \ {p} : pc'[q] = pc[q] /\ job'[q] = job[q] /\ result'[q] = result[q]
  BY <1>0, OneProcess
<1>c. ASSUME NEW l, Goto(p, l) PROVE pc'[p] = l
  BY <1>0, <1>c DEF Goto, TypeOK, ControlOK
<1>g. ASSUME pc'[p] \notin GrantPcs PROVE GrantOf(p)' = None
  BY <1>g DEF GrantOf
<1>a. ASSUME UNCHANGED result, pc[p] # "done" PROVE AnswerOf(p)' = None
  BY <1>a, <1>0, GrantFacts DEF AnswerOf
<1>e. ASSUME UNCHANGED <<row, own>>,
             \E k \in {"stored", "collision", "swept", "reconciled", "stat", "tombstone",
                       "unavailable", "notfound", "binary", "error"} : End(p, k),
             pc[p] # "done"
      PROVE  Mapped
  <2>1. GrantOf(p)' = None /\ AnswerOf(p)' = None
    BY <1>0, <1>e, EndFacts
  <2>2. QED
    BY <1>0, <1>q, <1>e, <2>1, MapIdle, MapGiveUp DEF Mapped
<1>m. ASSUME UNCHANGED <<row, own, result>>, pc[p] # "done", pc'[p] \notin GrantPcs
      PROVE  Mapped
  BY <1>0, <1>q, <1>m, <1>g, <1>a, MapIdle, MapGiveUp DEF Mapped
<1>1. ASSUME PutStep(p) PROVE Mapped
  <2>1. CASE PutRows(p)
    BY <2>1, <1>0, <1>q, MapIssue DEF Mapped
  <2>2. CASE PutCollides(p) \/ PutRefused(p)
    BY <2>2, <1>e DEF PutCollides, PutRefused, db
  <2>3. CASE PutBegin(p) \/ PutTemp(p) \/ PutReplace(p)
    BY <2>3, <1>c, <1>m DEF PutBegin, PutTemp, PutReplace, db, GrantPcs
  <2>4. QED
    BY <1>1, <2>1, <2>2, <2>3 DEF PutStep
<1>2. ASSUME SweepStep(p) \/ ReconcileStep(p) PROVE Mapped
  <2>1. CASE SweepCommit(p) \/ ReconcileCommit(p)
    BY <2>1, <1>0, <1>q, MapRetire DEF Mapped
  <2>2. CASE \/ SweepBegin(p) \/ ReconcileBegin(p) \/ QuarantineTemps(p)
             \/ \E h \in Handles : SweepUnlink(p, h) \/ QuarantineBlob(p, h)
    <3>1. UNCHANGED <<row, own, result>> /\ pc[p] # "done" /\ pc'[p] \notin GrantPcs
      BY <2>2, <1>c DEF SweepBegin, ReconcileBegin, QuarantineTemps, SweepUnlink,
         QuarantineBlob, db, GrantPcs
    <3>2. QED
      BY <3>1, <1>m
  <2>3. QED
    BY <1>2, <2>1, <2>2 DEF SweepStep, ReconcileStep
<1>3. ASSUME LockTimeout(p) \/ Raise(p) PROVE Mapped
  BY <1>3, <1>e DEF LockTimeout, Raise, db, BeginPcs, TxPcs, PutTxPcs, MaintTxPcs, FetchPcs, GrantPcs
<1>4. ASSUME RetryTx(p) \/ Crash(p) PROVE Mapped
  <2>1. UNCHANGED <<row, own, result>> /\ pc[p] # "done" /\ pc'[p] \notin GrantPcs
    BY <1>4, <1>c DEF RetryTx, Crash, db, TxPcs, PutTxPcs, MaintTxPcs, GrantPcs
  <2>2. QED
    BY <2>1, <1>m
<1>5. ASSUME Call(p) PROVE Mapped
  <2>1. UNCHANGED <<row, own, result>> /\ pc[p] # "done" /\ pc'[p] \notin GrantPcs
    BY <1>5, <1>c DEF Call, Put, Fetch, Sweep, Reconcile, Start, db, GrantPcs
  <2>2. QED
    BY <2>1, <1>m
<1>6. ASSUME Return(p) PROVE Mapped
  <2>1. /\ pc[p] \notin GrantPcs /\ pc'[p] \notin GrantPcs /\ result'[p] = None
        /\ UNCHANGED <<row, own>>
    BY <1>6, <1>0, <1>c DEF Return, GrantPcs, db, TypeOK, ControlOK
  <2>2. GrantOf(p)' = GrantOf(p) /\ AnswerOf(p)' = None
    BY <2>1, NoneAssumption DEF GrantOf, AnswerOf
  <2>3. CASE AnswerOf(p) = None
    BY <2>1, <2>2, <2>3, <1>q, MapStutter DEF Mapped
  <2>4. CASE AnswerOf(p) # None
    BY <2>1, <2>2, <2>4, <1>q, MapDeliver DEF Mapped, Contract!CNext
  <2>5. QED
    BY <2>3, <2>4
<1>7. ASSUME FetchStep(p) PROVE Mapped
  <2>0. /\ pc[p] \in FetchPcs /\ pc[p] # "done" /\ job[p] \in FetchJobs
        /\ UNCHANGED <<row, own>>
    BY <1>7, <1>0 DEF FetchStep, Authorized, FetchLookup, FetchVerify, FetchRead, FetchTomb, FetchStat,
       FetchMeta, FetchMiss, FetchPcs, GrantPcs, db, TypeOK, ControlOK, JobOK
  <2>s. job[p].s \in Sessions /\ job[p].h \in Handles
    BY <2>0 DEF FetchJobs
  <2>t. ASSUME Goto(p, "fetch_tomb"), UNCHANGED <<job, result>> PROVE Mapped
    BY <2>t, <2>0, <1>c, <1>m DEF GrantPcs
  <2>1. CASE FetchLookup(p)
    <3>1. CASE Live(own, job[p].s, job[p].h) /\ row[job[p].h].content # None
      <4>1. pc[p] \notin GrantPcs /\ pc'[p] = "fetch_verify" /\ UNCHANGED <<job, result>>
        BY <2>1, <3>1, <1>c DEF Authorized, FetchLookup, GrantPcs
      <4>2. GrantOf(p)' = [s |-> job[p].s, h |-> job[p].h]
        BY <4>1 DEF GrantOf, GrantPcs
      <4>3. GrantOf(p) = None /\ AnswerOf(p) = None /\ AnswerOf(p)' = None
        BY <4>1, <2>0, <1>0, <1>a, GrantFacts
      <4>4. Contract!Grant(p, job[p].s, job[p].h)
        BY <2>0, <2>s, <3>1, <4>2, <4>3, <1>q, MapGrant
      <4>5. QED
        BY <2>s, <4>4 DEF Mapped, Contract!CNext
    <3>2. CASE ~(Live(own, job[p].s, job[p].h) /\ row[job[p].h].content # None)
      BY <2>0, <2>1, <2>t, <3>2, <1>e DEF Authorized, FetchLookup
    <3>3. QED
      BY <3>1, <3>2
  <2>2. CASE FetchVerify(p)
    <3>1. CASE BlobMatches(job[p].h, row[job[p].h].content)
      <4>1. /\ pc[p] \in GrantPcs /\ pc'[p] \in GrantPcs /\ UNCHANGED result
            /\ job'[p].s = job[p].s /\ job'[p].h = job[p].h
        BY <2>0, <2>2, <3>1, <1>0, <1>c DEF FetchVerify, GrantPcs, TypeOK, ControlOK, FetchJobs
      <4>2. GrantOf(p)' = GrantOf(p) /\ AnswerOf(p)' = AnswerOf(p)
        BY <4>1 DEF GrantOf, AnswerOf
      <4>3. QED
        BY <2>0, <4>2, <1>q, MapStutter DEF Mapped
    <3>2. CASE ~BlobMatches(job[p].h, row[job[p].h].content)
      BY <2>0, <2>2, <2>t, <3>2, <1>e DEF FetchVerify
    <3>3. QED
      BY <3>1, <3>2
  <2>3. CASE FetchStat(p)
    <3>1. CASE file[job[p].h] = None
      BY <2>3, <2>t, <3>1 DEF FetchStat
    <3>2. CASE file[job[p].h] # None
      <4>1. pc[p] \in GrantPcs /\ pc'[p] \in GrantPcs /\ UNCHANGED <<job, result>>
        BY <2>3, <3>2, <1>c DEF FetchStat, GrantPcs
      <4>2. GrantOf(p)' = GrantOf(p) /\ AnswerOf(p)' = AnswerOf(p)
        BY <4>1 DEF GrantOf, AnswerOf
      <4>3. QED
        BY <2>0, <4>2, <1>q, MapStutter DEF Mapped
    <3>3. QED
      BY <3>1, <3>2
  <2>4. CASE FetchTomb(p) \/ FetchMeta(p)
    <3>1. \E k \in {"stored", "collision", "swept", "reconciled", "stat", "tombstone",
                    "unavailable", "notfound", "binary", "error"} : End(p, k)
      BY <2>0, <2>4 DEF FetchTomb, FetchMeta, FetchMiss, FetchJobs
    <3>2. QED
      BY <2>0, <3>1, <1>e
  <2>5. CASE FetchRead(p)
    <3>1. CASE Finish(p, [kind |-> "content", s |-> job[p].s, h |-> job[p].h, c |-> file[job[p].h]])
               /\ file[job[p].h] # None
      <4>1. /\ pc[p] \in GrantPcs /\ pc'[p] = "done"
            /\ result'[p] = [kind |-> "content", s |-> job[p].s, h |-> job[p].h, c |-> file[job[p].h]]
        BY <2>5, <3>1, <1>0, <1>c DEF FetchRead, Finish, GrantPcs, TypeOK, ControlOK
      <4>2. file[job[p].h] \in Contents \cup {Damaged}
        BY <2>s, <3>1, <1>0 DEF TypeOK, DataOK
      <4>3. AnswerOf(p)' = [s |-> job[p].s, h |-> job[p].h, c |-> file[job[p].h]]
        BY <2>s, <4>1, <4>2 DEF AnswerOf, Served
      <4>4. GrantOf(p)' = None /\ GrantOf(p) = [s |-> job[p].s, h |-> job[p].h] /\ GrantOf(p) # None
        BY <4>1, <1>0, <1>g, GrantFacts DEF GrantPcs
      <4>5. row[job[p].h].content # None
        BY <2>s, <4>1, <1>0 DEF Provenance, GrantsFit
      <4>6. file[job[p].h] \in {row[job[p].h].content} \cup Corrupt
        BY <2>s, <3>1, <4>5, <1>0 DEF Provenance, BoundRows, Corrupt, DamageIsFault
      <4>7. Contract!Serve(p)
        BY <2>0, <2>s, <4>3, <4>4, <4>6, <1>q, MapServe
      <4>8. QED
        BY <4>7 DEF Mapped, Contract!CNext
    <3>2. CASE \E k \in {"binary", "notfound"} : End(p, k)
      BY <2>0, <3>2, <1>e
    <3>3. CASE Goto(p, "fetch_tomb") /\ UNCHANGED <<job, result>>
      BY <2>t, <3>3
    <3>4. QED
      BY <2>5, <3>1, <3>2, <3>3 DEF FetchRead
  <2>6. QED
    BY <1>7, <2>1, <2>2, <2>3, <2>4, <2>5 DEF FetchStep
<1>8. QED
  BY <1>1, <1>2, <1>3, <1>4, <1>5, <1>6, <1>7 DEF Step

\* The initial state has nothing bound, held, granted or answered.
LEMMA MapInit == Init => Contract!CInit
<1> SUFFICES ASSUME Init PROVE Contract!CInit
  OBVIOUS
<1>1. BoundMap = [h \in Handles |-> None]
  BY DEF Init, BoundMap, NoRow
<1>2. StatusMap = [s \in Sessions |-> [h \in Handles |-> "none"]]
  BY DEF Init, StatusMap, Status, NoOwner, NoOwn
<1>3. GrantMap = [p \in Procs |-> None] /\ AnswerMap = [p \in Procs |-> None]
  BY NoneAssumption DEF Init, GrantMap, AnswerMap, GrantOf, AnswerOf, GrantPcs
<1>4. QED
  BY <1>1, <1>2, <1>3 DEF Contract!CInit, BoundMap, StatusMap, GrantMap, AnswerMap

\* The store's steps, whatever the number of processes, sessions, contents and
\* handles and whichever faults occur, are those of the contract.
THEOREM Implements == Spec => ImplementsContract
<1>1. Init => Contract!CInit
  BY MapInit
<1>2. IInv /\ Extra /\ [Next]_vars => [Contract!CNext]_(Contract!cvars)
  <2> SUFFICES ASSUME IInv, Extra, [Next]_vars PROVE Mapped
    BY DEF Mapped, Bars, Contract!cvars, BoundMap, StatusMap, GrantMap, AnswerMap
  <2>1. ASSUME (\E h \in Handles : Damage(h)) \/ Tick \/ UNCHANGED vars PROVE Mapped
    <3>1. UNCHANGED <<row, own, pc, job, result>>
      BY <2>1 DEF Damage, Tick, vars, db
    <3>2. UNCHANGED Bars
      BY <3>1 DEF Bars, BoundMap, StatusMap, GrantMap, AnswerMap, GrantOf, AnswerOf
    <3>3. QED
      BY <3>2 DEF Mapped
  <2>2. QED
    BY <2>1, MapStep DEF Next
<1>3. QED
  BY <1>1, <1>2, RefinementInvariant, PTL DEF Spec, ImplementsContract, Contract!CSpec

-----------------------------------------------------------------------------
(* Losing a handle *)

\* Only a put and a maintenance commit change ownership rows.
LEMMA OwnWriters ==
  ASSUME NEW p \in Procs, ~PutRows(p), ~SweepCommit(p), ~ReconcileCommit(p),
         Step(p) \/ Call(p) \/ RetryTx(p) \/ Raise(p) \/ Crash(p)
  PROVE  UNCHANGED own
<1>1. PutStep(p) => UNCHANGED own
  BY DEF PutStep, PutCollides, PutBegin, PutTemp, PutReplace, PutRefused, db
<1>2. SweepStep(p) \/ ReconcileStep(p) => UNCHANGED own
  BY DEF SweepStep, SweepBegin, SweepUnlink, ReconcileStep, ReconcileBegin, QuarantineBlob,
     QuarantineTemps, db
<1>3. FetchStep(p) => UNCHANGED own
  BY DEF FetchStep, Authorized, FetchLookup, FetchVerify, FetchRead, FetchTomb, FetchStat, FetchMeta,
     FetchMiss, db
<1>4. LockTimeout(p) \/ Return(p) \/ Call(p) \/ RetryTx(p) \/ Raise(p) \/ Crash(p) => UNCHANGED own
  BY DEF LockTimeout, Return, Call, Put, Fetch, Sweep, Reconcile, Start, RetryTx, Raise, Crash, db
<1>5. QED
  BY <1>1, <1>2, <1>3, <1>4 DEF Step

\* A session that loses a handle is told so: whatever fails or dies, no step
\* takes a live row away without leaving its tombstone.
THEOREM LossAnnounced == Spec => LossIsAnnounced
<1> DEFINE Announced == \A s \in Sessions, h \in Handles :
             Live(own, s, h) => own'[s][h].state # "absent"
<1>1. IInv /\ Extra /\ [Next]_vars => Announced
  <2> SUFFICES ASSUME TypeOK, TxFades, [Next]_vars PROVE Announced
    BY DEF IInv, Extra
  <2>1. CASE UNCHANGED own
    BY <2>1 DEF Live
  <2>2. ASSUME NEW p \in Procs, PutRows(p) PROVE Announced
    <3>1. job[p] \in PutJobs
      BY <2>2 DEF PutRows, TypeOK, ControlOK, JobOK, PutTxPcs
    <3>2. \A s \in Sessions, h \in Handles :
            own'[s][h].state = own[s][h].state \/ own'[s][h].state = "live"
      BY <2>2, <3>1, ConstantsAssumption DEF PutRows, PutJobs, TypeOK, DataOK
    <3>3. QED
      BY <3>2 DEF Live
  <2>3. ASSUME NEW p \in Procs, SweepCommit(p) \/ ReconcileCommit(p) PROVE Announced
    <3>1. own' = txOwn /\ pc[p] \in MaintTxPcs
      BY <2>3 DEF SweepCommit, ReconcileCommit, MaintCommit, MaintTxPcs
    <3>2. QED
      BY <3>1 DEF TxFades, Fades, Live
  <2>4. (\E h \in Handles : Damage(h)) \/ Tick \/ UNCHANGED vars => UNCHANGED own
    BY DEF Damage, Tick, vars, db
  <2>5. QED
    BY <2>1, <2>2, <2>3, <2>4, OwnWriters DEF Next
<1>2. QED
  BY <1>1, RefinementInvariant, PTL DEF Spec, LossIsAnnounced

-----------------------------------------------------------------------------
(* What a put, a sweep and a repair leave behind *)

\* The steps at which a transaction relies on what it has seen of the files.
Working == {"put_rows", "sweep_unlink", "reconcile_move"}

\* A step of p that leaves tables, files and transaction alone.
Quiet(p) == /\ UNCHANGED <<row, own, file, lock, txOwn, doomed>>
            /\ pc[p] # "sweep_unlink" /\ pc'[p] \notin Working

\* A rollback, or a process killed in its transaction.
Undone(p) == /\ RetryTx(p) \/ Raise(p) \/ Crash(p)
             /\ pc[p] \in TxPcs /\ pc'[p] \notin TxPcs

\* Every step of a process writes the tables, the files or the transaction, ends
\* one, or is quiet.
LEMMA StepKinds ==
  ASSUME TypeOK, SingleWriter, NEW p \in Procs,
         Step(p) \/ Call(p) \/ RetryTx(p) \/ Raise(p) \/ Crash(p)
  PROVE  \/ PutBegin(p) \/ PutReplace(p) \/ PutRefused(p) \/ PutRows(p)
         \/ SweepBegin(p) \/ SweepCommit(p) \/ \E h \in Handles : SweepUnlink(p, h)
         \/ ReconcileBegin(p) \/ ReconcileCommit(p) \/ QuarantineTemps(p)
         \/ \E h \in Handles : QuarantineBlob(p, h)
         \/ Undone(p) \/ Quiet(p)
<1>c. ASSUME NEW l, Goto(p, l) PROVE pc'[p] = l
  BY <1>c DEF Goto, TypeOK, ControlOK
<1>1. ASSUME PutCollides(p) \/ PutTemp(p) PROVE Quiet(p)
  BY <1>1, <1>c DEF PutCollides, PutTemp, End, Finish, db, files, tx, Quiet, Working
<1>2. ASSUME FetchStep(p) PROVE Quiet(p)
  BY <1>2, <1>c DEF FetchStep, Authorized, FetchLookup, FetchVerify, FetchRead, FetchTomb,
     FetchStat, FetchMeta, FetchMiss, End, Finish, db, files, tx, Quiet, Working
<1>3. ASSUME LockTimeout(p) \/ Return(p) \/ Call(p) PROVE Quiet(p)
  BY <1>3, <1>c DEF LockTimeout, BeginPcs, Return, Call, Put, Fetch, Sweep, Reconcile, Start,
     End, Finish, db, files, tx, Quiet, Working
<1>4. ASSUME RetryTx(p) \/ Raise(p) \/ Crash(p) PROVE Undone(p) \/ Quiet(p)
  <2>1. pc'[p] \notin TxPcs /\ Working \subseteq TxPcs
    BY <1>4, <1>c DEF RetryTx, Raise, Crash, End, Finish, TxPcs, PutTxPcs, MaintTxPcs, Working
  <2>2. CASE pc[p] \in TxPcs
    BY <1>4, <2>1, <2>2 DEF Undone
  <2>3. CASE pc[p] \notin TxPcs
    <3>1. lock # p
      BY <2>3 DEF SingleWriter
    <3> QED
      BY <1>4, <2>1, <2>3, <3>1 DEF RetryTx, Raise, Crash, db, tx, Quiet, TxPcs, MaintTxPcs
  <2> QED
    BY <2>2, <2>3
<1> QED
  BY <1>1, <1>2, <1>3, <1>4 DEF Step, PutStep, SweepStep, ReconcileStep

\* A put that found its file, a repair and what they rely on.
FoundFits  == \A p \in Procs : pc[p] = "put_rows" => BlobMatches(HandleOf[job[p].c], job[p].c)
RepairFits == \A p \in Procs : pc[p] = "reconcile_move" =>
  /\ \A s \in Sessions, h \in Handles : Live(txOwn, s, h) => BlobMatches(h, row[h].content)
  /\ \A h \in Handles : row[h].content = None /\ file[h] # None => h \in doomed
  /\ \A h \in doomed : row[h].content = None

\* A sweep: the files it has still to remove are of rows nobody references, and
\* the files of other rows are there when somebody does.
SweepFits == \A p \in Procs : pc[p] = "sweep_unlink" =>
  \A h \in Handles :
    /\ h \in doomed => row[h].content # None /\ ~Referenced(txOwn, h)
    /\ row[h].content # None => (file[h] # None <=> Referenced(txOwn, h) \/ h \in doomed)

TxFits == FoundFits /\ RepairFits

\* When the process in the transaction leaves these steps, nobody is at one.
LEMMA NobodyWorks ==
  ASSUME TypeOK, SingleWriter, NEW p \in Procs,
         Step(p) \/ Call(p) \/ RetryTx(p) \/ Raise(p) \/ Crash(p),
         pc[p] \in TxPcs \/ lock = None
  PROVE  \A q \in Procs \ {p} : pc'[q] \notin TxPcs
  BY OneProcess, ConstantsAssumption DEF SingleWriter

\* A quiet step keeps what the others rely on.
LEMMA QuietKeeps ==
  ASSUME TypeOK, NEW p \in Procs, Quiet(p),
         Step(p) \/ Call(p) \/ RetryTx(p) \/ Raise(p) \/ Crash(p)
  PROVE  (TxFits => TxFits') /\ (SweepFits => SweepFits')
<1>1. \A q \in Procs : pc'[q] \in Working => q # p /\ pc'[q] = pc[q] /\ job'[q] = job[q]
  BY OneProcess DEF Quiet
<1>2. UNCHANGED <<row, file, txOwn, doomed>>
  BY DEF Quiet
<1>3. TxFits => TxFits'
  BY <1>1, <1>2 DEF TxFits, FoundFits, RepairFits, BlobMatches, Live, Working
<1>4. SweepFits => SweepFits'
  BY <1>1, <1>2 DEF SweepFits, Referenced, Live, Working
<1> QED
  BY <1>3, <1>4

\* Unless files are damaged from outside, a put that found its file finds it until
\* it commits, and a repair knows what there is to repair.
LEMMA NextTxFits ==
  ASSUME "damage" \notin Faults
  PROVE  IInv /\ TxFits /\ [Next]_vars => TxFits'
<1> SUFFICES ASSUME TypeOK, SingleWriter, Provenance, TxFits, [Next]_vars PROVE TxFits'
  BY DEF IInv
<1>c. ASSUME NEW p \in Procs, NEW l, Goto(p, l) PROVE pc'[p] = l
  BY <1>c DEF Goto, TypeOK, ControlOK
<1>1. ASSUME NEW p \in Procs, Step(p) \/ Call(p) \/ RetryTx(p) \/ Raise(p) \/ Crash(p)
      PROVE  TxFits'
  <2>1. CASE PutBegin(p)
    <3>1. lock = None /\ UNCHANGED <<row, file, job>>
      BY <2>1 DEF PutBegin, BeginImmediate, db, files
    <3>2. \A q \in Procs \ {p} : pc'[q] \notin TxPcs
      BY <1>1, <3>1, NobodyWorks
    <3>3. pc'[p] \in {"put_rows", "put_temp"}
          /\ (pc'[p] = "put_rows" => BlobMatches(HandleOf[job[p].c], job[p].c))
      BY <2>1, <1>c DEF PutBegin
    <3> QED
      BY <3>1, <3>2, <3>3 DEF TxFits, FoundFits, RepairFits, BlobMatches, TxPcs, PutTxPcs, MaintTxPcs
  <2>2. ASSUME pc[p] \in TxPcs, pc'[p] \notin {"put_rows", "reconcile_move"} PROVE TxFits'
    BY <1>1, <2>2, NobodyWorks DEF TxFits, FoundFits, RepairFits, TxPcs, PutTxPcs, MaintTxPcs
  <2>3. CASE PutReplace(p) \/ PutRefused(p) \/ PutRows(p) \/ SweepCommit(p) \/ ReconcileCommit(p)
             \/ (\E h \in Handles : SweepUnlink(p, h)) \/ Undone(p)
    <3>1. pc[p] \in TxPcs
      BY <2>3 DEF PutReplace, PutRefused, PutRows, SweepCommit, ReconcileCommit, MaintCommit,
         SweepUnlink, Undone, TxPcs, PutTxPcs, MaintTxPcs
    <3>2. pc'[p] \notin {"put_rows", "reconcile_move"}
      BY <2>3, <1>c DEF PutReplace, PutRefused, PutRows, SweepCommit, ReconcileCommit, MaintCommit,
         SweepUnlink, Undone, End, Finish, TxPcs, PutTxPcs, MaintTxPcs
    <3> QED
      BY <2>2, <3>1, <3>2
  <2>4. CASE SweepBegin(p)
    <3>1. lock = None /\ pc'[p] = "sweep_unlink"
      BY <2>4, <1>c DEF SweepBegin, BeginImmediate
    <3> QED
      BY <1>1, <3>1, NobodyWorks DEF TxFits, FoundFits, RepairFits, TxPcs, PutTxPcs, MaintTxPcs
  <2>5. CASE ReconcileBegin(p)
    <3>1. lock = None /\ pc'[p] = "reconcile_move" /\ UNCHANGED <<row, file>>
      BY <2>5, <1>c DEF ReconcileBegin, BeginImmediate, db, files
    <3>2. \A q \in Procs \ {p} : pc'[q] \notin TxPcs
      BY <1>1, <3>1, NobodyWorks
    <3>3. doomed' = {h \in Handles : row[h].content = None /\ file[h] # None}
      BY <2>5 DEF ReconcileBegin
    <3>4. \A s \in Sessions, h \in Handles : Live(txOwn', s, h) => BlobMatches(h, row[h].content)
      <4> SUFFICES ASSUME NEW s \in Sessions, NEW h \in Handles, Live(txOwn', s, h),
                          ~BlobMatches(h, row[h].content)
                   PROVE  FALSE
        OBVIOUS
      <4>1. txOwn'[s][h] = SizePass(own[s][h], TRUE, clock)
        BY <2>5 DEF ReconcileBegin
      <4>2. own[s][h] \in OwnRows
        BY DEF TypeOK, DataOK
      <4> QED
        BY <4>1, <4>2 DEF SizePass, Live, OwnRows
    <3> QED
      BY <3>1, <3>2, <3>3, <3>4
      DEF TxFits, FoundFits, RepairFits, BlobMatches, TxPcs, PutTxPcs, MaintTxPcs, Live
  <2>6. ASSUME NEW g \in Handles, QuarantineBlob(p, g) PROVE TxFits'
    <3>1. /\ pc[p] = "reconcile_move" /\ g \in doomed /\ doomed' = doomed \ {g}
          /\ UNCHANGED <<row, own, txOwn, pc, job>>
          /\ \A h \in Handles : file'[h] = IF h = g THEN None ELSE file[h]
      BY <2>6 DEF QuarantineBlob, db, TypeOK, DataOK
    <3>2. \A s \in Sessions : ~Live(txOwn, s, g)
      BY <3>1 DEF TxFits, RepairFits, SingleWriter, Provenance, OwnedRows
    <3>3. RepairFits'
      BY <3>1, <3>2 DEF TxFits, RepairFits, BlobMatches, Live
    <3>4. FoundFits'
      BY <3>1 DEF FoundFits, SingleWriter, TxPcs, PutTxPcs, MaintTxPcs
    <3> QED
      BY <3>3, <3>4 DEF TxFits
  <2>7. CASE QuarantineTemps(p)
    BY <2>7 DEF QuarantineTemps, db, tx, TxFits, FoundFits, RepairFits, BlobMatches, Live
  <2>8. CASE Quiet(p)
    BY <1>1, <2>8, QuietKeeps
  <2> QED
    BY <1>1, <2>1, <2>3, <2>4, <2>5, <2>6, <2>7, <2>8, StepKinds
<1>2. ASSUME Tick \/ UNCHANGED vars PROVE TxFits'
  BY <1>2 DEF Tick, vars, db, files, tx, TxFits, FoundFits, RepairFits, BlobMatches, Live
<1> QED
  BY <1>1, <1>2 DEF Next, Damage

\* It holds at the start, when nothing runs.
LEMMA InitFits == Init => TxFits /\ SweepFits
  BY DEF Init, TxFits, FoundFits, RepairFits, SweepFits

\* The strengthening that deliveries and repairs are proved from.
LEMMA FitsInvariant ==
  ASSUME "damage" \notin Faults
  PROVE  Spec => [](IInv /\ Extra /\ TxFits)
<1>1. Init => TxFits
  BY InitFits
<1>2. IInv /\ TxFits /\ [Next]_vars => TxFits'
  BY NextTxFits
<1> QED
  BY <1>1, <1>2, RefinementInvariant, PTL DEF Spec

\* Only the step that commits its rows ends a put as stored.
LEMMA OnlyRowsStore ==
  ASSUME TypeOK, [Next]_vars, NEW p \in Procs, pc[p] \in PutTxPcs, pc'[p] = "done",
         result'[p] = [kind |-> "stored"]
  PROVE  PutRows(p)
<1>c. ASSUME NEW l, Goto(p, l) PROVE pc'[p] = l
  BY <1>c DEF Goto, TypeOK, ControlOK
<1>e. ASSUME NEW k \in {"collision", "error"}, End(p, k) PROVE FALSE
  <2>1. result'[p] = [kind |-> k]
    BY <1>e DEF End, Finish, TypeOK, ControlOK
  <2> QED
    BY <2>1
<1>1. pc[p] # "done" /\ pc[p] # "idle" /\ pc[p] \notin MaintTxPcs \cup BeginPcs \cup FetchPcs
  BY DEF PutTxPcs, MaintTxPcs, BeginPcs, FetchPcs, GrantPcs
<1>2. Step(p) \/ Call(p) \/ RetryTx(p) \/ Raise(p) \/ Crash(p)
  <2>1. ASSUME NEW q \in Procs \ {p}, Step(q) \/ Call(q) \/ RetryTx(q) \/ Raise(q) \/ Crash(q)
        PROVE  pc'[p] = pc[p]
    BY <2>1, OneProcess
  <2>2. ASSUME (\E h \in Handles : Damage(h)) \/ Tick \/ UNCHANGED vars PROVE pc' = pc
    BY <2>2 DEF Damage, Tick, vars
  <2> QED
    BY <1>1, <2>1, <2>2 DEF Next
<1>3. ~Call(p) /\ ~Crash(p) /\ ~RetryTx(p)
  BY <1>1, <1>c DEF Call, Put, Fetch, Sweep, Reconcile, Start, Crash, RetryTx, PutTxPcs, MaintTxPcs
<1>4. ~Raise(p) /\ ~PutCollides(p) /\ ~PutRefused(p) /\ ~LockTimeout(p) /\ ~Return(p)
  BY <1>1, <1>e DEF Raise, PutCollides, PutRefused, LockTimeout, Return
<1>5. ~PutBegin(p) /\ ~PutTemp(p) /\ ~PutReplace(p)
  BY <1>c DEF PutBegin, PutTemp, PutReplace
<1>6. ~SweepStep(p) /\ ~ReconcileStep(p)
  BY <1>1 DEF SweepStep, SweepBegin, SweepUnlink, SweepCommit, MaintCommit, ReconcileStep,
     ReconcileBegin, QuarantineBlob, QuarantineTemps, ReconcileCommit, BeginPcs, MaintTxPcs
<1>7. ~FetchStep(p)
  BY <1>1 DEF FetchStep, FetchLookup, FetchVerify, FetchRead, FetchTomb, FetchStat, FetchMeta,
     FetchPcs, GrantPcs
<1> QED
  BY <1>2, <1>3, <1>4, <1>5, <1>6, <1>7 DEF Step, PutStep

\* A put that returns its handle has made it redeemable: unless files are damaged
\* from outside, the row is live and the file is there, whatever was rerun, raised
\* or killed before (put_blob in rescue_sqlite.py).
THEOREM PutIsDelivered ==
  ASSUME "damage" \notin Faults
  PROVE  Spec => PutDelivers
<1> DEFINE Delivers ==
      \A p \in Procs, s \in Sessions, c \in Contents :
        pc[p] \in PutTxPcs /\ pc'[p] = "done" /\ result'[p] = [kind |-> "stored"]
          /\ job[p].s = s /\ job[p].c = c
        => Live(own', s, HandleOf[c]) /\ file'[HandleOf[c]] = c
<1>1. IInv /\ TxFits /\ [Next]_vars => Delivers
  <2> SUFFICES ASSUME TypeOK, TxFits, [Next]_vars, NEW p \in Procs, pc[p] \in PutTxPcs,
                      pc'[p] = "done", result'[p] = [kind |-> "stored"]
               PROVE  /\ Live(own', job[p].s, HandleOf[job[p].c])
                      /\ file'[HandleOf[job[p].c]] = job[p].c
    BY DEF IInv
  <2>1. PutRows(p)
    BY OnlyRowsStore
  <2>2. job[p].s \in Sessions /\ HandleOf[job[p].c] \in Handles
    BY ConstantsAssumption DEF TypeOK, ControlOK, JobOK, PutJobs
  <2>3. file' = file /\ file[HandleOf[job[p].c]] = job[p].c
    BY <2>1 DEF PutRows, files, BlobMatches, TxFits, FoundFits
  <2>4. Live(own', job[p].s, HandleOf[job[p].c])
    BY <2>1, <2>2 DEF PutRows, Live, TypeOK, DataOK
  <2> QED
    BY <2>3, <2>4
<1> QED
  BY <1>1, FitsInvariant, PTL DEF Spec, PutDelivers

\* Only a commit ends a maintenance run as swept or reconciled.
LEMMA OnlyCommitEnds ==
  ASSUME TypeOK, ResultsDone, [Next]_vars, NEW p \in Procs, pc[p] \in MaintTxPcs,
         NEW k \in {"swept", "reconciled"}, result'[p] = [kind |-> k]
  PROVE  SweepCommit(p) \/ ReconcileCommit(p)
<1>n. result[p] = None /\ [kind |-> k] # None
  BY NoneAssumption DEF ResultsDone, MaintTxPcs, Outcomes
<1>1. pc[p] # "done" /\ pc[p] # "idle" /\ pc[p] \notin PutTxPcs \cup BeginPcs \cup FetchPcs
  BY DEF PutTxPcs, MaintTxPcs, BeginPcs, FetchPcs, GrantPcs
<1>2. Step(p) \/ Call(p) \/ RetryTx(p) \/ Raise(p) \/ Crash(p)
  <2>1. ASSUME NEW q \in Procs \ {p}, Step(q) \/ Call(q) \/ RetryTx(q) \/ Raise(q) \/ Crash(q)
        PROVE  result'[p] = result[p]
    BY <2>1, OneProcess
  <2>2. ASSUME (\E h \in Handles : Damage(h)) \/ Tick \/ UNCHANGED vars PROVE result' = result
    BY <2>2 DEF Damage, Tick, vars
  <2> QED
    BY <1>n, <2>1, <2>2 DEF Next
<1>3. ~Call(p) /\ ~Crash(p) /\ ~RetryTx(p)
  BY <1>n DEF Call, Put, Fetch, Sweep, Reconcile, Start, Crash, RetryTx
<1>4. ~Raise(p)
  <2>1. End(p, "error") => result'[p] = [kind |-> "error"]
    BY DEF End, Finish, TypeOK, ControlOK
  <2> QED
    BY <2>1 DEF Raise
<1>5. ~PutStep(p) /\ ~LockTimeout(p) /\ ~Return(p)
  BY <1>1 DEF PutStep, PutCollides, PutBegin, PutTemp, PutReplace, PutRefused, PutRows,
     LockTimeout, Return, PutTxPcs, BeginPcs
<1>6. ~SweepBegin(p) /\ ~ReconcileBegin(p)
  BY <1>1 DEF SweepBegin, ReconcileBegin, BeginPcs
<1>7. /\ \A h \in Handles : ~SweepUnlink(p, h) /\ ~QuarantineBlob(p, h)
      /\ ~QuarantineTemps(p)
  BY <1>n DEF SweepUnlink, QuarantineBlob, QuarantineTemps
<1>8. ~FetchStep(p)
  BY <1>1 DEF FetchStep, FetchLookup, FetchVerify, FetchRead, FetchTomb, FetchStat, FetchMeta,
     FetchPcs, GrantPcs
<1> QED
  BY <1>2, <1>3, <1>4, <1>5, <1>6, <1>7, <1>8 DEF Step, SweepStep, ReconcileStep

\* A reconcile that commits has repaired what a crash or a rollback left behind:
\* unless files are damaged from outside while it runs, every live handle has its
\* file and no file is without a row (OwnershipStore.reconcile).
THEOREM ReconcileRepairs ==
  ASSUME "damage" \notin Faults
  PROVE  Spec => ReconcileHeals
<1> DEFINE Heals ==
      \A p \in Procs : pc[p] = "reconcile_move" /\ result'[p] = [kind |-> "reconciled"] =>
        /\ \A s \in Sessions, h \in Handles :
             Live(own', s, h) => file'[h] = row'[h].content
        /\ \A h \in Handles : row'[h].content = None => file'[h] = None
        /\ ~strays'
<1>1. IInv /\ Extra /\ TxFits /\ [Next]_vars => Heals
  <2> SUFFICES ASSUME TypeOK, ResultsDone, TxFits, [Next]_vars, NEW p \in Procs,
                      pc[p] = "reconcile_move", result'[p] = [kind |-> "reconciled"]
               PROVE  /\ \A s \in Sessions, h \in Handles :
                           Live(own', s, h) => file'[h] = row'[h].content
                      /\ \A h \in Handles : row'[h].content = None => file'[h] = None
                      /\ ~strays'
    BY DEF IInv, Extra
  <2>1. ReconcileCommit(p)
    <3>1. SweepCommit(p) \/ ReconcileCommit(p)
      BY OnlyCommitEnds DEF MaintTxPcs
    <3> QED
      BY <3>1 DEF SweepCommit, MaintCommit
  <2>2. own' = txOwn /\ doomed = {} /\ ~strays /\ UNCHANGED <<row, file, strays>>
    BY <2>1 DEF ReconcileCommit, MaintCommit, files
  <2> QED
    BY <2>2 DEF TxFits, RepairFits, BlobMatches, Live
<1> QED
  BY <1>1, FitsInvariant, PTL DEF Spec, ReconcileHeals

\* The files that live rows and sweeps rely on, when nothing goes wrong.
LEMMA NextLiveHasBlob ==
  ASSUME Faults = {}
  PROVE  IInv /\ TxFits /\ SweepFits /\ LiveHasBlob /\ [Next]_vars => LiveHasBlob'
<1> SUFFICES ASSUME TypeOK, SingleWriter, Provenance, TxFits, SweepFits, LiveHasBlob, [Next]_vars
             PROVE  LiveHasBlob'
  BY DEF IInv
<1>f. ASSUME NEW p \in Procs PROVE ~RetryTx(p) /\ ~Raise(p) /\ ~Crash(p)
  BY DEF RetryTx, Raise, Crash
<1>u. ASSUME UNCHANGED <<row, own, file>>, lock = None \/ pc[lock] # "sweep_unlink"
      PROVE  LiveHasBlob'
  BY <1>u DEF LiveHasBlob, Live, BlobMatches, Retiring
<1>1. ASSUME NEW p \in Procs, Step(p) \/ Call(p) \/ RetryTx(p) \/ Raise(p) \/ Crash(p)
      PROVE  LiveHasBlob'
  <2>1. CASE PutBegin(p) \/ SweepBegin(p) \/ ReconcileBegin(p)
    BY <1>u, <2>1 DEF PutBegin, SweepBegin, ReconcileBegin, BeginImmediate, db, files
  <2>2. CASE PutReplace(p)
    <3> DEFINE c == job[p].c
    <3>1. /\ pc[p] = "put_replace" /\ lock = p /\ UNCHANGED <<row, own>>
          /\ \A h \in Handles : file'[h] = IF h = HandleOf[c] THEN c ELSE file[h]
      BY <2>2 DEF PutReplace, db, SingleWriter, TxPcs, PutTxPcs, TypeOK, DataOK
    <3>2. row[HandleOf[c]].content \in {None, c}
      BY <3>1 DEF Provenance, PutRowsFit, PutTxPcs
    <3>3. \A s \in Sessions, h \in Handles :
            Live(own, s, h) => row[h].content # None /\ BlobMatches(h, row[h].content)
      BY <3>1 DEF LiveHasBlob, Retiring, Provenance, OwnedRows
    <3> QED
      BY <3>1, <3>2, <3>3 DEF LiveHasBlob, BlobMatches, Live
  <2>3. CASE PutRefused(p)
    <3>1. lock = p /\ pc[p] = "put_check" /\ UNCHANGED <<row, own, file>>
      BY <2>3 DEF PutRefused, SingleWriter, TxPcs, PutTxPcs, db, files
    <3> QED
      BY <1>u, <3>1
  <2>4. CASE PutRows(p)
    <3> DEFINE c == job[p].c
               g == HandleOf[c]
    <3>0. job[p].s \in Sessions /\ g \in Handles /\ c \in Contents
      BY <2>4, ConstantsAssumption DEF PutRows, TypeOK, ControlOK, JobOK, PutTxPcs, PutJobs
    <3>1. lock = p /\ pc[p] # "sweep_unlink" /\ file' = file /\ file[g] = c
      BY <2>4 DEF PutRows, SingleWriter, TxPcs, PutTxPcs, files, BlobMatches, TxFits, FoundFits
    <3>2. row[g].content \in {None, c}
      BY <2>4 DEF Provenance, PutRowsFit, PutRows, PutTxPcs
    <3>3. \A s \in Sessions, h \in Handles :
            Live(own, s, h) => row[h].content # None /\ BlobMatches(h, row[h].content)
      BY <3>1 DEF LiveHasBlob, Retiring, Provenance, OwnedRows
    <3>4. row'[g].content = c /\ \A h \in Handles \ {g} : row'[h] = row[h]
      BY <2>4, <3>0, <3>2 DEF PutRows, TypeOK, DataOK, Rows
    <3>5. \A s \in Sessions, h \in Handles \ {g} : own'[s][h] = own[s][h]
      BY <2>4, <3>0 DEF PutRows, TypeOK, DataOK
    <3> QED
      BY <3>1, <3>3, <3>4, <3>5 DEF LiveHasBlob, BlobMatches, Live
  <2>5. CASE SweepCommit(p) \/ ReconcileCommit(p)
    <3>1. own' = txOwn /\ UNCHANGED <<row, file>>
      BY <2>5 DEF SweepCommit, ReconcileCommit, MaintCommit, files
    <3> QED
      BY <3>1 DEF LiveHasBlob, Retiring, BlobMatches, Live, SingleWriter
  <2>6. ASSUME NEW g \in Handles, SweepUnlink(p, g) PROVE LiveHasBlob'
    <3>1. /\ pc[p] = "sweep_unlink" /\ lock = p /\ g \in doomed
          /\ UNCHANGED <<row, own, lock, txOwn, pc>>
          /\ \A h \in Handles : file'[h] = IF h = g THEN None ELSE file[h]
      BY <2>6 DEF SweepUnlink, db, SingleWriter, TxPcs, MaintTxPcs, TypeOK, DataOK
    <3>2. \A s \in Sessions : ~Live(txOwn, s, g)
      BY <3>1 DEF SweepFits, Referenced
    <3>3. lock # None
      BY <3>1, ConstantsAssumption
    <3> QED
      BY <3>1, <3>2, <3>3 DEF LiveHasBlob, Retiring, BlobMatches, Live
  <2>7. ASSUME NEW g \in Handles, QuarantineBlob(p, g) PROVE LiveHasBlob'
    <3>1. /\ pc[p] = "reconcile_move" /\ lock = p /\ g \in doomed
          /\ UNCHANGED <<row, own>>
          /\ \A h \in Handles : file'[h] = IF h = g THEN None ELSE file[h]
      BY <2>7 DEF QuarantineBlob, db, SingleWriter, TxPcs, MaintTxPcs, TypeOK, DataOK
    <3>2. \A s \in Sessions : ~Live(own, s, g)
      BY <3>1 DEF TxFits, RepairFits, Provenance, OwnedRows
    <3> QED
      BY <3>1, <3>2 DEF LiveHasBlob, Retiring, BlobMatches, Live
  <2>8. CASE QuarantineTemps(p)
    BY <2>8 DEF QuarantineTemps, db, tx, LiveHasBlob, Retiring, BlobMatches, Live
  <2>9. CASE Quiet(p)
    <3>1. UNCHANGED <<row, own, file, lock, txOwn>> /\ pc[p] # "sweep_unlink"
      BY <2>9 DEF Quiet
    <3>2. lock \in Procs /\ pc[lock] = "sweep_unlink" => pc'[lock] = "sweep_unlink"
      BY <1>1, <3>1, OneProcess
    <3>3. lock \in Procs \cup {None}
      BY DEF TypeOK, DataOK
    <3> QED
      BY <3>1, <3>2, <3>3 DEF LiveHasBlob, Retiring, BlobMatches, Live
  <2> QED
    BY <1>1, <1>f, <2>1, <2>2, <2>3, <2>4, <2>5, <2>6, <2>7, <2>8, <2>9, StepKinds DEF Undone
<1>2. ASSUME Tick \/ UNCHANGED vars PROVE LiveHasBlob'
  BY <1>2 DEF Tick, vars, db, files, tx, LiveHasBlob, Retiring, BlobMatches, Live
<1> QED
  BY <1>1, <1>2 DEF Next, Damage

\* A sweep knows what it has still to remove.
LEMMA NextSweepFits ==
  ASSUME Faults = {}
  PROVE  IInv /\ SweepFits /\ LiveHasBlob /\ [Next]_vars => SweepFits'
<1> SUFFICES ASSUME TypeOK, SingleWriter, SingleWriter', Provenance, SweepFits, LiveHasBlob,
                    [Next]_vars
             PROVE  SweepFits'
  BY NextSingleWriter DEF IInv
<1>c. ASSUME NEW p \in Procs, NEW l, Goto(p, l) PROVE pc'[p] = l
  BY <1>c DEF Goto, TypeOK, ControlOK
<1>1. ASSUME NEW p \in Procs, Step(p) \/ Call(p) \/ RetryTx(p) \/ Raise(p) \/ Crash(p)
      PROVE  SweepFits'
  <2>1. ASSUME pc[p] \in TxPcs \/ lock = None, pc'[p] # "sweep_unlink" PROVE SweepFits'
    BY <1>1, <2>1, NobodyWorks DEF SweepFits, TxPcs, MaintTxPcs
  <2>2. CASE PutBegin(p) \/ ReconcileBegin(p)
    <3>1. lock = None /\ pc'[p] # "sweep_unlink"
      BY <2>2, <1>c DEF PutBegin, ReconcileBegin, BeginImmediate
    <3> QED
      BY <2>1, <3>1
  <2>3. CASE PutReplace(p) \/ PutRefused(p) \/ PutRows(p) \/ SweepCommit(p) \/ ReconcileCommit(p)
             \/ QuarantineTemps(p) \/ (\E h \in Handles : QuarantineBlob(p, h)) \/ Undone(p)
    <3>1. pc[p] \in TxPcs
      BY <2>3 DEF PutReplace, PutRefused, PutRows, SweepCommit, ReconcileCommit, MaintCommit,
         QuarantineTemps, QuarantineBlob, Undone, TxPcs, PutTxPcs, MaintTxPcs
    <3>2. pc'[p] # "sweep_unlink"
      BY <2>3, <1>c DEF PutReplace, PutRefused, PutRows, SweepCommit, ReconcileCommit, MaintCommit,
         QuarantineTemps, QuarantineBlob, Undone, End, Finish, TxPcs, MaintTxPcs
    <3> QED
      BY <2>1, <3>1, <3>2
  <2>4. CASE SweepBegin(p)
    <3>1. /\ lock = None /\ pc'[p] = "sweep_unlink" /\ UNCHANGED <<row, own, file>>
          /\ doomed' = {h \in Handles : /\ row[h].content # None /\ file[h] # None
                                        /\ ~Referenced(txOwn', h)}
      BY <2>4, <1>c DEF SweepBegin, BeginImmediate, db, files
    <3>2. \A h \in Handles : Referenced(txOwn', h) => row[h].content # None /\ file[h] # None
      <4> SUFFICES ASSUME NEW h \in Handles, NEW s \in Sessions, Live(txOwn', s, h)
                   PROVE  row[h].content # None /\ file[h] # None
        BY DEF Referenced
      <4>1. Live(own, s, h)
        BY <3>1 DEF SingleWriter, Live
      <4> QED
        BY <3>1, <4>1 DEF LiveHasBlob, Retiring, BlobMatches, Provenance, OwnedRows
    <3> QED
      BY <3>1, <3>2 DEF SweepFits, Referenced, Live
  <2>5. ASSUME NEW g \in Handles, SweepUnlink(p, g) PROVE SweepFits'
    <3>1. /\ pc[p] = "sweep_unlink" /\ g \in doomed /\ doomed' = doomed \ {g}
          /\ UNCHANGED <<row, txOwn, pc>>
          /\ \A h \in Handles : file'[h] = IF h = g THEN None ELSE file[h]
      BY <2>5 DEF SweepUnlink, db, TypeOK, DataOK
    <3> QED
      BY <3>1 DEF SweepFits, Referenced, Live
  <2>6. CASE Quiet(p)
    BY <1>1, <2>6, QuietKeeps
  <2> QED
    BY <1>1, <2>2, <2>3, <2>4, <2>5, <2>6, StepKinds
<1>2. ASSUME Tick \/ UNCHANGED vars PROVE SweepFits'
  BY <1>2 DEF Tick, vars, db, files, tx, SweepFits, Referenced, Live
<1> QED
  BY <1>1, <1>2 DEF Next, Damage

\* The strengthening that the next two are proved from.
LEMMA SoundInvariant ==
  ASSUME Faults = {}
  PROVE  Spec => [](IInv /\ Extra /\ TxFits /\ SweepFits /\ LiveHasBlob)
<1>1. Init => SweepFits /\ LiveHasBlob
  BY InitFits DEF Init, LiveHasBlob, Live, NoOwner, NoOwn
<1>2. IInv /\ TxFits /\ SweepFits /\ LiveHasBlob /\ [Next]_vars => SweepFits' /\ LiveHasBlob'
  BY NextSweepFits, NextLiveHasBlob
<1>3. "damage" \notin Faults
  OBVIOUS
<1> QED
  BY <1>1, <1>2, <1>3, FitsInvariant, PTL DEF Spec

\* When no transaction fails and nothing touches the files, a handle a session may
\* redeem has its file unless a sweep is taking the handle away, for any number of
\* processes that put, sweep and repair (rescue_sqlite_maintenance.py, sweep).
THEOREM LiveRowsHaveBlobs ==
  ASSUME Faults = {}
  PROVE  Spec => []LiveHasBlob
  BY SoundInvariant, PTL

\* A sweep that commits leaves the file of a row when a session references it and
\* no other, under the same conditions.
THEOREM SweepIsExact ==
  ASSUME Faults = {}
  PROVE  Spec => SweepCollects
<1> DEFINE Collects ==
      \A p \in Procs : pc[p] = "sweep_unlink" /\ result'[p] = [kind |-> "swept"] =>
        \A h \in Handles : row'[h].content # None =>
          (file'[h] # None <=> Referenced(own', h))
<1>1. IInv /\ Extra /\ SweepFits /\ [Next]_vars => Collects
  <2> SUFFICES ASSUME TypeOK, ResultsDone, SweepFits, [Next]_vars, NEW p \in Procs,
                      pc[p] = "sweep_unlink", result'[p] = [kind |-> "swept"]
               PROVE  \A h \in Handles : row'[h].content # None =>
                        (file'[h] # None <=> Referenced(own', h))
    BY DEF IInv, Extra
  <2>1. SweepCommit(p)
    <3>1. SweepCommit(p) \/ ReconcileCommit(p)
      BY OnlyCommitEnds DEF MaintTxPcs
    <3> QED
      BY <3>1 DEF ReconcileCommit, MaintCommit
  <2>2. own' = txOwn /\ doomed = {} /\ UNCHANGED <<row, file>>
    BY <2>1 DEF SweepCommit, MaintCommit, files
  <2> QED
    BY <2>2 DEF SweepFits, Referenced, Live
<1> QED
  BY <1>1, SoundInvariant, PTL DEF Spec, SweepCollects
=============================================================================
