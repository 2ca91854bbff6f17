---------------------------- MODULE PassrefProofs ----------------------------
(***************************************************************************)
(* What holds of Passref for every choice of handles, lengths, budgets and *)
(* calls.  The bound on the total rests on one fact of the loop: between   *)
(* the check of the budget and the insertion the total does not move, so   *)
(* what is left of the budget there is positive.  That content is the      *)
(* session's rests on another: the handle of an occurrence that got past   *)
(* the ownership row has been the session's during the call.               *)
(***************************************************************************)
EXTENDS Passref, FiniteSetTheorems, TLAPS

\* The steps of the loop that lie behind the check of the budget.
Reading == {"verify", "exists", "read"}
Looping == Reading \cup {"open", "next"}

\* What the budget's bound rests on.
BudgetInv == BudgetBound /\ (pc \in Reading => total < TotalMax)

\* What the origin of the content rests on.
HeldInv ==
  /\ OnlyHeld
  /\ pc \in {"gate", "open"} => out = <<>>
  /\ pc \in Looping => call.enabled /\ call.tool = "allowed" /\ call.session
  /\ pc \in Looping => \A h \in Handles : <<"session", h>> \in live => h \in ever
  /\ pc \in {"verify", "read"} => Occurrence \in ever

PInv == TypeOK /\ BudgetInv /\ HeldInv

-----------------------------------------------------------------------------
\* The initial states satisfy the invariant.
LEMMA InitPInv == Init => PInv
  BY PassrefAssumption
  DEF Init, PInv, TypeOK, Call, BudgetInv, BudgetBound, HeldInv, OnlyHeld, Places, Reading, Looping

\* A piece of output is well typed.
LEMMA PieceType ==
  ASSUME NEW k \in Markers
  PROVE  Marker(k) \in Piece
  BY DEF Marker, Piece

\* Other processes do not touch the call.  They bring rows into being by puts only,
\* and the history of what is held all the time only loses.
LEMMA EnvironmentStore ==
  ASSUME TypeOK, Environment
  PROVE  /\ UNCHANGED <<call, pc, opened, out, total, counted, result, faulty>>
         /\ live' \subseteq Owners \X Handles /\ going' \subseteq live'
         /\ file' \subseteq Handles
         /\ ever \subseteq ever' /\ ever' \subseteq Handles /\ always' \subseteq always
         /\ \A g \in Handles : <<"session", g>> \in live' => <<"session", g>> \in live \/ g \in ever'
         /\ \A g \in always' : /\ <<"session", g>> \in live \ going => <<"session", g>> \in live' \ going'
                               /\ <<"session", g>> \in live \ going /\ g \in file => g \in file'
<1> USE DEF TypeOK
<1>1. UNCHANGED <<call, pc, opened, out, total, counted, result, faulty>>
  BY DEF Environment
<1>2. CASE \E h \in Handles : PutFile(h)
  BY <1>1, <1>2 DEF PutFile
<1>3. CASE \E h \in Handles : SweepUnlink(h)
  BY <1>1, <1>3 DEF SweepUnlink, Kept, Owners
<1>4. CASE \E o \in Owners, h \in Handles : Put(o, h)
  BY <1>1, <1>4 DEF Put, Unlocked
<1>5. CASE \E o \in Owners, h \in Handles : Retire(o, h)
  BY <1>1, <1>5 DEF Retire, Unlocked
<1>6. CASE SweepBegin
  BY <1>1, <1>6 DEF SweepBegin, Unlocked
<1>7. CASE SweepCommit
  BY <1>1, <1>7 DEF SweepCommit
<1>8. CASE SweepRollback
  BY <1>1, <1>8 DEF SweepRollback
<1> QED
  BY <1>2, <1>3, <1>4, <1>5, <1>6, <1>7, <1>8 DEF Environment

LEMMA EnvironmentPInv == PInv /\ Environment => PInv'
<1> SUFFICES ASSUME PInv, Environment PROVE PInv'
  OBVIOUS
<1>1. /\ TypeOK
      /\ UNCHANGED <<call, pc, opened, out, total, counted, result, faulty>>
      /\ live' \subseteq Owners \X Handles /\ going' \subseteq live'
      /\ file' \subseteq Handles
      /\ ever \subseteq ever' /\ ever' \subseteq Handles /\ always' \subseteq always
      /\ \A g \in Handles : <<"session", g>> \in live' => <<"session", g>> \in live \/ g \in ever'
  BY EnvironmentStore DEF PInv
<1>2. TypeOK'
  BY <1>1 DEF TypeOK, Pending
<1>3. BudgetInv'
  BY <1>1 DEF PInv, BudgetInv, BudgetBound
<1>4. HeldInv'
  BY <1>1 DEF PInv, HeldInv, OnlyHeld, Occurrence
<1> QED
  BY <1>2, <1>3, <1>4 DEF PInv

\* Reads that fail are those of occurrences.
LEMMA FaultType ==
  ASSUME TypeOK, Pending, NoFault \/ Fault
  PROVE  faulty \subseteq faulty' /\ faulty' \subseteq 1 .. Len(call.args)
<1>1. Len(call.args) \in Nat /\ Len(out) \in Nat /\ Len(out) < Len(call.args)
  BY DEF TypeOK, Call, Pending
<1>2. Len(out) + 1 \in 1 .. Len(call.args)
  BY <1>1
<1>3. faulty' = faulty \/ faulty' = faulty \cup {Len(out) + 1}
  BY DEF NoFault, Fault
<1> QED
  BY <1>2, <1>3 DEF TypeOK

\* A step that replaces the occurrence at hand by a piece keeps the types.
LEMMA ReplaceType ==
  ASSUME TypeOK, Pending, NEW piece \in Piece, NEW n \in Nat, Replace(piece, n),
         NoFault \/ Fault
  PROVE  TypeOK'
  BY FaultType DEF TypeOK, Pending, Replace, store, Places

\* ... and, when it is a marker, the rest of the invariant.
LEMMA MarkerPInv ==
  ASSUME PInv, Pending, pc \in Looping, NEW k \in Markers, Replace(Marker(k), 0),
         NoFault \/ Fault
  PROVE  PInv'
<1>1. TypeOK'
  BY PieceType, ReplaceType DEF PInv
<1>2. total' = total /\ pc' = "next"
  BY DEF Replace, PInv, TypeOK
<1>3. BudgetInv'
  BY <1>2 DEF PInv, BudgetInv, BudgetBound, Reading
<1>4. OnlyHeld'
  <2> SUFFICES ASSUME NEW i \in DOMAIN out', out'[i].kind \in {"content", "truncated"}
               PROVE  i \in DOMAIN out /\ out'[i] = out[i]
    BY DEF Replace, store, PInv, HeldInv, OnlyHeld
  <2>1. out' = Append(out, Marker(k)) /\ out \in Seq(Piece)
    BY DEF Replace, PInv, TypeOK
  <2>2. Marker(k).kind \notin {"content", "truncated"}
    BY DEF Marker, Markers
  <2> QED
    BY <2>1, <2>2
<1>5. HeldInv'
  BY <1>2, <1>4 DEF Replace, store, PInv, HeldInv, Looping, Reading
<1> QED
  BY <1>1, <1>3, <1>5 DEF PInv

\* Content is inserted at an occurrence of a handle held during the call, and as
\* much of it as the budget has left, with one marker at most.
LEMMA ExpandPInv == PInv /\ Expand => PInv'
<1> SUFFICES ASSUME PInv, Expand PROVE PInv'
  OBVIOUS
<1> DEFINE size == Length[Occurrence]
           cut  == size > Cap
           n    == IF cut THEN Cap + MarkerChars ELSE size
           piece == [kind |-> IF cut THEN "truncated" ELSE "content", chars |-> n]
<1>1. pc = "read" /\ Pending /\ Replace(piece, n) /\ NoFault
  BY DEF Expand, PInv, TypeOK
<1>2. total \in Nat /\ total < TotalMax /\ MaxChars \in Nat /\ TotalMax \in Nat /\ MarkerChars \in Nat
  BY <1>1, PassrefAssumption DEF PInv, TypeOK, BudgetInv, Reading
<1>3. Cap \in Nat /\ Cap <= TotalMax - total
  BY <1>2 DEF Cap
<1>4. Occurrence \in Handles /\ size \in Nat
  BY <1>1, PassrefAssumption DEF PInv, TypeOK, Call, Occurrence, Pending
<1>5. n \in Nat /\ total + n <= TotalMax + MarkerChars
  BY <1>2, <1>3, <1>4
<1>6. piece \in Piece
  BY <1>5 DEF Piece
<1>7. TypeOK'
  BY <1>1, <1>5, <1>6, ReplaceType DEF PInv
<1>8. BudgetInv'
  BY <1>1, <1>5 DEF Replace, BudgetInv, BudgetBound, Reading
<1>9. OnlyHeld'
  <2> SUFFICES ASSUME NEW i \in DOMAIN out', out'[i].kind \in {"content", "truncated"}
               PROVE  call.args[i] \in ever
    BY <1>1 DEF Replace, store, PInv, HeldInv, OnlyHeld, Looping, Reading
  <2>1. out' = Append(out, piece) /\ out \in Seq(Piece)
    BY <1>1 DEF Replace, PInv, TypeOK
  <2>2. CASE i = Len(out) + 1
    BY <2>2, <1>1 DEF PInv, HeldInv, Occurrence
  <2>3. CASE i # Len(out) + 1
    BY <2>1, <2>3 DEF PInv, HeldInv, OnlyHeld
  <2> QED
    BY <2>2, <2>3
<1>10. HeldInv'
  BY <1>1, <1>9 DEF Replace, store, PInv, HeldInv, Looping, Reading
<1> QED
  BY <1>7, <1>8, <1>10 DEF PInv

\* Every step of the middleware keeps the invariant.
LEMMA MiddlewarePInv == PInv /\ Middleware => PInv'
<1> SUFFICES ASSUME PInv, Middleware PROVE PInv'
  OBVIOUS
<1> USE DEF PInv
<1>1. CASE PassExact \/ NoStore \/ Raise
  BY <1>1 DEF PassExact, NoStore, Raise, End, store, TypeOK, Places, BudgetInv, BudgetBound,
     Reading, HeldInv, OnlyHeld, Looping
<1>2. CASE Deny
  <2>1. out' \in Seq(Piece) /\ Len(out') = Len(call.args)
        /\ \A i \in DOMAIN out' : out'[i].kind = "denied"
    <3>1. call.args \in Seq(Handles) /\ DOMAIN call.args = 1 .. Len(call.args)
          /\ Len(call.args) \in Nat
      BY DEF TypeOK, Call
    <3>2. out' = [i \in 1 .. Len(call.args) |-> Marker("denied")]
      BY <1>2, <3>1 DEF Deny
    <3>3. Marker("denied") \in Piece /\ Marker("denied").kind = "denied"
      BY DEF Marker, Piece, Markers
    <3> QED
      BY <3>1, <3>2, <3>3
  <2>2. TypeOK' /\ BudgetInv'
    BY <1>2, <2>1 DEF Deny, End, store, TypeOK, Places, BudgetInv, BudgetBound, Reading
  <2>3. HeldInv'
    BY <1>2, <2>1 DEF Deny, End, store, HeldInv, OnlyHeld, Looping, Reading
  <2> QED
    BY <2>2, <2>3
<1>3. CASE Begin
  <2>1. TypeOK' /\ BudgetInv'
    BY <1>3 DEF Begin, TypeOK, Places, BudgetInv, BudgetBound, Reading, Pending
  <2>2. HeldInv'
    BY <1>3 DEF Begin, HeldInv, OnlyHeld, Looping, Reading
  <2> QED
    BY <2>1, <2>2
<1>4. CASE OpenStore
  BY <1>4 DEF OpenStore, store, TypeOK, Places, BudgetInv, BudgetBound, Reading, HeldInv,
     OnlyHeld, Looping
<1>5. CASE BudgetExceeded
  BY <1>5, MarkerPInv DEF BudgetExceeded, Markers, Looping
<1>6. CASE LookUp
  <2>1. TypeOK' /\ BudgetInv'
    BY <1>6, PassrefAssumption DEF LookUp, Read, NoFault, Spent, store, TypeOK, Places, BudgetInv,
       BudgetBound, Reading, Pending
  <2>2. Occurrence \in Handles
    BY <1>6 DEF LookUp, TypeOK, Call, Occurrence, Pending
  <2>3. HeldInv'
    BY <1>6, <2>2 DEF LookUp, RowLive, Read, store, HeldInv, OnlyHeld, Looping, Reading, Occurrence
  <2> QED
    BY <2>1, <2>3
<1>7. CASE Verify
  <2>1. /\ Pending /\ pc = "verify" /\ pc' \in {"read", "exists"} /\ (NoFault \/ Fault)
        /\ UNCHANGED <<store, call, opened, out, total, counted, result>>
    BY <1>7 DEF Verify, Read, TypeOK
  <2>2. TypeOK' /\ BudgetInv'
    BY <2>1, FaultType DEF store, TypeOK, Places, BudgetInv, BudgetBound, Reading, Pending
  <2>3. HeldInv'
    BY <2>1 DEF store, HeldInv, OnlyHeld, Looping, Reading, Occurrence
  <2> QED
    BY <2>2, <2>3
<1>8. CASE Exists
  BY <1>8, MarkerPInv DEF Exists, TypeOK, Markers, Looping, Reading
<1>9. CASE Expand
  BY <1>9, ExpandPInv
<1>10. CASE Unreadable
  BY <1>10, MarkerPInv DEF Unreadable, TypeOK, Markers, Looping, Reading
<1>11. CASE Finish
  BY <1>11 DEF Finish, End, store, TypeOK, Places, BudgetInv, BudgetBound, Reading, HeldInv,
     OnlyHeld, Looping
<1> QED
  BY <1>1, <1>2, <1>3, <1>4, <1>5, <1>6, <1>7, <1>8, <1>9, <1>10, <1>11 DEF Middleware

\* The invariant holds in every reachable state.
LEMMA Inductive == Spec => []PInv
<1>1. PInv /\ UNCHANGED vars => PInv'
  BY DEF vars, PInv, TypeOK, BudgetInv, BudgetBound, HeldInv, OnlyHeld, Occurrence, Pending
<1> QED
  BY InitPInv, MiddlewarePInv, EnvironmentPInv, <1>1, PTL DEF Spec, Next

\* Every variable of the middleware keeps to its type.
THEOREM PassrefTypes == Spec => []TypeOK
  BY Inductive, PTL DEF PInv

\* Whatever the lengths and the budgets, one call inserts at most its total budget
\* and one truncation marker.
THEOREM InsertionsAreBounded == Spec => []BudgetBound
  BY Inductive, PTL DEF PInv, BudgetInv

\* Whatever other processes put and sweep between the reads, the content inserted
\* is of handles the session held during the call, for a tool that may have it.
THEOREM ContentIsHeld == Spec => []OnlyHeld
  BY Inductive, PTL DEF PInv, HeldInv

-----------------------------------------------------------------------------
(* Sums *)

\* Among subsets of a finite set there is one that none of the others is part of:
\* what holds of a set whenever it holds of all its proper parts holds of each.
LEMMA SmallestSet ==
  ASSUME NEW S, IsFiniteSet(S), NEW T, T \subseteq SUBSET S, T # {}
  PROVE  \E s \in T : \A t \in T : t \subseteq s => t = s
<1>1. IsWellFoundedOn(StrictSubsetOrdering(S), SUBSET S)
  BY FS_StrictSubsetOrderingWellFounded, FS_FiniteSubsetsOfFinite
<1>2. PICK s \in T : \A t \in T : ~ (<<t, s>> \in StrictSubsetOrdering(S))
  BY <1>1, WFMin
<1>3. \A t \in T : t \subseteq s => t = s
  BY <1>2 DEF StrictSubsetOrdering
<1> QED
  BY <1>3

\* The element that a fold takes first, and the sums it computes of all parts of S.
First(s) == CHOOSE x \in s : TRUE
Sums(w, S, g) ==
  g = [s \in SUBSET S |-> IF s = {} THEN 0 ELSE w[First(s)] + g[s \ {First(s)}]]

Additive(w, S, g) ==
  \A s \in SUBSET S : g[s] \in Nat /\ \A x \in s : g[s] = w[x] + g[s \ {x}]

\* Any element may be taken first.
LEMMA AnyFirst ==
  ASSUME NEW S, IsFiniteSet(S), NEW w, \A x \in S : w[x] \in Nat, NEW g, Sums(w, S, g)
  PROVE  Additive(w, S, g)
<1> DEFINE Good(s) == g[s] \in Nat /\ \A x \in s : g[s] = w[x] + g[s \ {x}]
           T == {s \in SUBSET S : ~Good(s)}
<1>1. ASSUME T # {} PROVE FALSE
  <2>1. PICK s \in T : \A t \in T : t \subseteq s => t = s
    <3>1. T \subseteq SUBSET S
      OBVIOUS
    <3> HIDE DEF T
    <3> QED
      BY <1>1, <3>1, SmallestSet
  <2>2. s \in SUBSET S /\ ~Good(s)
    BY <2>1
  <2>3. \A x \in s : s \ {x} \in SUBSET S /\ Good(s \ {x})
    BY <2>1
  <2>4. g[s] = IF s = {} THEN 0 ELSE w[First(s)] + g[s \ {First(s)}]
    BY <2>2 DEF Sums
  <2>5. s # {}
    BY <2>2, <2>4
  <2>6. PICK p \in s : g[s] = w[p] + g[s \ {p}]
    BY <2>4, <2>5 DEF First
  <2>7. g[s] \in Nat
    BY <2>2, <2>3, <2>6
  <2>8. ASSUME NEW x \in s, x # p PROVE g[s] = w[x] + g[s \ {x}]
    <3>1. (s \ {p}) \ {x} = (s \ {x}) \ {p} /\ x \in s \ {p} /\ p \in s \ {x}
      BY <2>8
    <3>2. g[s \ {p}] = w[x] + g[(s \ {p}) \ {x}]
      BY <2>3, <3>1
    <3>3. g[s \ {x}] = w[p] + g[(s \ {p}) \ {x}]
      BY <2>3, <3>1
    <3>4. w[x] \in Nat /\ w[p] \in Nat
      BY <2>2
    <3>5. g[(s \ {p}) \ {x}] \in Nat
      <4>1. (s \ {p}) \ {x} \in SUBSET S /\ (s \ {p}) \ {x} # s /\ (s \ {p}) \ {x} \subseteq s
        BY <2>2
      <4> QED
        BY <2>1, <4>1
    <3> QED
      BY <2>6, <3>2, <3>3, <3>4, <3>5
  <2> QED
    BY <2>2, <2>6, <2>7, <2>8
<1> QED
  BY <1>1 DEF Additive

\* The recursion that a fold unfolds to has a solution ...
LEMMA SumsExist ==
  ASSUME NEW S, IsFiniteSet(S), NEW w, \A x \in S : w[x] \in Nat
  PROVE  \E g : Sums(w, S, g)
<1> DEFINE T == {s \in SUBSET S : ~\E g : Sums(w, s, g)}
<1>1. ASSUME T # {} PROVE FALSE
  <2>1. PICK s \in T : \A t \in T : t \subseteq s => t = s
    <3>1. T \subseteq SUBSET S
      OBVIOUS
    <3> HIDE DEF T
    <3> QED
      BY <1>1, <3>1, SmallestSet
  <2>2. s \in SUBSET S /\ ~\E g : Sums(w, s, g)
    BY <2>1
  <2>3. CASE s = {}
    <3> DEFINE g == [t \in SUBSET {} |-> 0]
    <3>1. Sums(w, {}, g)
      BY DEF Sums
    <3> QED
      BY <2>2, <2>3, <3>1
  <2>4. CASE s # {}
    <3>1. PICK x \in s : TRUE
      BY <2>4
    <3>2. s \ {x} \in SUBSET S /\ s \ {x} \notin T /\ IsFiniteSet(s \ {x})
      BY <2>1, <2>2, <3>1, FS_Subset
    <3>3. PICK h : Sums(w, s \ {x}, h)
      BY <3>2
    <3>4. \A t \in SUBSET (s \ {x}) :
             h[t] \in Nat /\ \A y \in t : h[t] = w[y] + h[t \ {y}]
      <4>1. \A y \in s \ {x} : w[y] \in Nat
        BY <2>2
      <4>2. Additive(w, s \ {x}, h)
        BY <3>2, <3>3, <4>1, AnyFirst
      <4> QED
        BY <4>2 DEF Additive
    <3>5. h[{}] = 0
      BY <3>3 DEF Sums
    <3> DEFINE g == [t \in SUBSET s |-> IF x \in t THEN w[x] + h[t \ {x}] ELSE h[t]]
    <3>6. ASSUME NEW t \in SUBSET s, t # {}, NEW y \in t
          PROVE  g[t] = w[y] + g[t \ {y}]
      <4>1. t \ {x} \in SUBSET (s \ {x}) /\ t \ {y} \in SUBSET s
        BY <3>6
      <4>2. w[x] \in Nat /\ w[y] \in Nat
        BY <2>2, <3>1, <3>6
      <4>3. CASE y = x
        <5>1. g[t] = w[x] + h[t \ {x}] /\ g[t \ {x}] = h[t \ {x}]
          BY <3>6, <4>1, <4>3
        <5> QED
          BY <4>3, <5>1
      <4>4. CASE y # x /\ x \in t
        <5>1. g[t] = w[x] + h[t \ {x}]
          BY <3>6, <4>4
        <5>2. g[t \ {y}] = w[x] + h[(t \ {y}) \ {x}]
          BY <4>1, <4>4
        <5>3. y \in t \ {x} /\ (t \ {x}) \ {y} = (t \ {y}) \ {x}
              /\ (t \ {x}) \ {y} \in SUBSET (s \ {x})
          BY <3>6, <4>4
        <5>4. h[t \ {x}] = w[y] + h[(t \ {y}) \ {x}] /\ h[(t \ {y}) \ {x}] \in Nat
          BY <3>4, <4>1, <5>3
        <5> HIDE DEF g
        <5> QED
          BY <4>2, <5>1, <5>2, <5>4
      <4>5. CASE y # x /\ x \notin t
        <5>1. g[t] = h[t] /\ g[t \ {y}] = h[t \ {y}] /\ t \in SUBSET (s \ {x})
          BY <3>6, <4>1, <4>5
        <5> QED
          BY <3>4, <3>6, <5>1
      <4> QED
        BY <4>3, <4>4, <4>5
    <3>7. g[{}] = 0
      BY <3>5
    <3>8. g = [t \in SUBSET s |-> g[t]]
      OBVIOUS
    <3> HIDE DEF g
    <3>9. \A t \in SUBSET s : g[t] = IF t = {} THEN 0 ELSE w[First(t)] + g[t \ {First(t)}]
      <4>1. \A t \in SUBSET s : t # {} => First(t) \in t
        BY DEF First
      <4> QED
        BY <3>6, <3>7, <4>1
    <3>10. Sums(w, s, g)
      BY <3>8, <3>9 DEF Sums
    <3> QED
      BY <2>2, <3>10
  <2> QED
    BY <2>3, <2>4
<1>2. S \notin T
  BY <1>1
<1> QED
  BY <1>2

\* ... which depends on the summands only.
LEMMA SumsAgree ==
  ASSUME NEW S, IsFiniteSet(S), NEW R, S \subseteq R, NEW w, NEW v, \A x \in S : w[x] = v[x],
         NEW g, Sums(w, S, g), NEW h, Sums(v, R, h)
  PROVE  g[S] = h[S]
<1> DEFINE T == {s \in SUBSET S : g[s] # h[s]}
<1>1. ASSUME T # {} PROVE FALSE
  <2>1. PICK s \in T : \A t \in T : t \subseteq s => t = s
    <3>1. T \subseteq SUBSET S
      OBVIOUS
    <3> HIDE DEF T
    <3> QED
      BY <1>1, <3>1, SmallestSet
  <2>2. s \in SUBSET S /\ s \in SUBSET R /\ g[s] # h[s]
    BY <2>1
  <2>3. /\ g[s] = IF s = {} THEN 0 ELSE w[First(s)] + g[s \ {First(s)}]
        /\ h[s] = IF s = {} THEN 0 ELSE v[First(s)] + h[s \ {First(s)}]
    BY <2>2 DEF Sums
  <2>4. s # {} /\ First(s) \in s
    BY <2>2, <2>3 DEF First
  <2>5. s \ {First(s)} \in SUBSET S /\ s \ {First(s)} \notin T
    BY <2>1, <2>4
  <2>6. g[s \ {First(s)}] = h[s \ {First(s)}] /\ w[First(s)] = v[First(s)]
    BY <2>2, <2>4, <2>5
  <2> QED
    BY <2>2, <2>3, <2>4, <2>6
<1> QED
  BY <1>1

\* The characters of the first n pieces.
CharsUpTo(o, n) == MapThenSumSet(LAMBDA i : o[i].chars, 1 .. n)

\* The characters of each piece.
Chars(o) == [i \in DOMAIN o |-> o[i].chars]

LEMMA CharsType ==
  ASSUME NEW o \in Seq(Piece), NEW n \in Nat, n <= Len(o)
  PROVE  /\ IsFiniteSet(1 .. n) /\ 1 .. n \subseteq DOMAIN o
         /\ \A i \in 1 .. n : Chars(o)[i] \in Nat /\ Chars(o)[i] = o[i].chars
<1>1. IsFiniteSet(1 .. n) /\ 1 .. n \subseteq DOMAIN o
  BY FS_Interval
<1>2. \A i \in DOMAIN o : o[i] \in Piece
  OBVIOUS
<1>3. \A i \in DOMAIN o : o[i].chars \in Nat /\ Chars(o)[i] = o[i].chars
  BY <1>2 DEF Piece, Chars
<1> QED
  BY <1>1, <1>3

\* They add up to what the fold computes.
LEMMA CharsSum ==
  ASSUME NEW o \in Seq(Piece), NEW n \in Nat, n <= Len(o)
  PROVE  \E g : Sums(Chars(o), 1 .. n, g) /\ CharsUpTo(o, n) = g[1 .. n]
<1> DEFINE S == 1 .. n
           w == Chars(o)
           Unfolds(f) == f = [s \in SUBSET S |->
                                IF s = {} THEN 0
                                ELSE o[First(s)].chars + f[s \ {First(s)}]]
<1>1. IsFiniteSet(S) /\ \A x \in S : w[x] \in Nat /\ w[x] = o[x].chars
  BY CharsType
<1>2. \A s \in SUBSET S : s # {} => w[First(s)] = o[First(s)].chars
  BY <1>1 DEF First
<1>3. PICK g : Sums(w, S, g)
  BY <1>1, SumsExist
<1>4. Unfolds(g)
  BY <1>2, <1>3 DEF Sums
<1>5. \E f : Unfolds(f) /\ CharsUpTo(o, n) = f[S]
  BY <1>4 DEF CharsUpTo, MapThenSumSet, MapThenFoldSet, First
<1>6. PICK f : Unfolds(f) /\ CharsUpTo(o, n) = f[S]
  BY <1>5
<1>7. Sums(w, S, f)
  BY <1>2, <1>6 DEF Sums
<1> QED
  BY <1>6, <1>7

\* One piece more has its characters more, and pieces that follow change nothing.
LEMMA CharsProperties ==
  ASSUME NEW o \in Seq(Piece), NEW n \in Nat, n <= Len(o)
  PROVE  /\ CharsUpTo(o, 0) = 0 /\ CharsUpTo(o, n) \in Nat
         /\ n > 0 => CharsUpTo(o, n) = CharsUpTo(o, n - 1) + o[n].chars
         /\ \A e \in Piece : CharsUpTo(Append(o, e), n) = CharsUpTo(o, n)
<1>1. /\ IsFiniteSet(1 .. n)
      /\ \A i \in 1 .. n : Chars(o)[i] \in Nat /\ Chars(o)[i] = o[i].chars
  BY CharsType
<1>2. PICK g : Sums(Chars(o), 1 .. n, g) /\ CharsUpTo(o, n) = g[1 .. n]
  BY CharsSum
<1>3. \A s \in SUBSET (1 .. n) : g[s] \in Nat /\ \A x \in s : g[s] = Chars(o)[x] + g[s \ {x}]
  <2>1. IsFiniteSet(1 .. n) /\ \A x \in 1 .. n : Chars(o)[x] \in Nat
    BY <1>1
  <2>2. Additive(Chars(o), 1 .. n, g)
    BY <1>2, <2>1, AnyFirst
  <2> QED
    BY <2>2 DEF Additive
<1>4. CharsUpTo(o, 0) = 0
  <2>1. 0 \in Nat /\ 0 <= Len(o)
    OBVIOUS
  <2>2. PICK f : Sums(Chars(o), 1 .. 0, f) /\ CharsUpTo(o, 0) = f[1 .. 0]
    BY <2>1, CharsSum
  <2>3. 1 .. 0 = {}
    OBVIOUS
  <2> QED
    BY <2>2, <2>3 DEF Sums
<1>5. ASSUME n > 0 PROVE CharsUpTo(o, n) = CharsUpTo(o, n - 1) + o[n].chars
  <2>1. n - 1 \in Nat /\ n - 1 <= Len(o) /\ n \in 1 .. n /\ (1 .. n) \ {n} = 1 .. n - 1
    BY <1>5
  <2>2. PICK f : Sums(Chars(o), 1 .. n - 1, f) /\ CharsUpTo(o, n - 1) = f[1 .. n - 1]
    BY <2>1, CharsSum
  <2>3. IsFiniteSet(1 .. n - 1) /\ 1 .. n - 1 \subseteq 1 .. n
    BY <2>1, CharsType
  <2>4. f[1 .. n - 1] = g[1 .. n - 1]
    BY <1>2, <2>2, <2>3, SumsAgree
  <2>5. g[1 .. n] = o[n].chars + g[1 .. n - 1] /\ g[1 .. n - 1] \in Nat /\ o[n].chars \in Nat
    BY <1>1, <1>3, <2>1, <2>3
  <2> QED
    BY <1>2, <2>2, <2>4, <2>5
<1>6. ASSUME NEW e \in Piece PROVE CharsUpTo(Append(o, e), n) = CharsUpTo(o, n)
  <2> DEFINE p == Append(o, e)
  <2>1. p \in Seq(Piece) /\ n <= Len(p) /\ \A i \in 1 .. n : p[i] = o[i]
    OBVIOUS
  <2> HIDE DEF p
  <2>2. PICK h : Sums(Chars(p), 1 .. n, h) /\ CharsUpTo(p, n) = h[1 .. n]
    BY <2>1, CharsSum
  <2>3. \A i \in 1 .. n : Chars(p)[i] = p[i].chars
    BY <2>1, CharsType
  <2>4. \A i \in 1 .. n : Chars(o)[i] = Chars(p)[i]
    BY <1>1, <2>1, <2>3
  <2>5. g[1 .. n] = h[1 .. n]
    BY <1>1, <1>2, <2>2, <2>4, SumsAgree
  <2> QED
    BY <1>2, <2>2, <2>5 DEF p
<1> QED
  BY <1>2, <1>3, <1>4, <1>5, <1>6

-----------------------------------------------------------------------------
(* What a handle held all the time gets *)

\* The i-th occurrence, of a handle held all the time and without a read that failed,
\* was dealt with as promised.
Served(i) == opened /\ call.args[i] \in always /\ i \notin faulty =>
  LET left == TotalMax - CharsUpTo(out, i - 1)
  IN  \/ out[i] = [kind |-> "content", chars |-> Length[call.args[i]]]
      \/ out[i].kind = "truncated" /\ Length[call.args[i]] > Min({MaxChars, left})
      \/ out[i].kind = "budget" /\ left <= 0

\* A handle held all the time has its live row, not taken by the sweep under way, and
\* its file; only a read that fails comes in between; the budget counts what is
\* inserted.
FullInv ==
  /\ pc = "gate" => total = 0
  /\ pc # "done" => counted = {}
  /\ pc \in Looping =>
       /\ \A h \in always : <<"session", h>> \in live \ going /\ h \in file
       /\ total = CharsUpTo(out, Len(out))
  /\ pc \in Looping \/ "expansion" \in counted => \A i \in DOMAIN out : Served(i)
  /\ pc = "exists" => ~opened \/ Occurrence \notin always \/ Len(out) + 1 \in faulty

LEMMA MinOfTwo ==
  ASSUME NEW a \in Int, NEW b \in Int
  PROVE  Min({a, b}) = IF a < b THEN a ELSE b
<1>1. \E x \in {a, b} : \A y \in {a, b} : x <= y
  OBVIOUS
<1>2. Min({a, b}) \in {a, b} /\ \A y \in {a, b} : Min({a, b}) <= y
  BY <1>1 DEF Min
<1> QED
  BY <1>2

\* Nothing is served worse when the history of what is held shrinks.
LEMMA StillServed ==
  ASSUME NEW i \in DOMAIN out, Served(i), UNCHANGED <<call, opened, out>>,
         always' \subseteq always, faulty \subseteq faulty'
  PROVE  Served(i)'
  BY DEF Served

\* A step that replaces the occurrence at hand as promised.
LEMMA ReplaceFull ==
  ASSUME PInv, FullInv, Pending, pc \in Looping, NEW piece \in Piece,
         Replace(piece, piece.chars), NoFault \/ Fault,
         opened /\ Occurrence \in always /\ Len(out) + 1 \notin faulty' =>
           LET left == TotalMax - total
           IN  \/ piece = [kind |-> "content", chars |-> Length[Occurrence]]
               \/ piece.kind = "truncated" /\ Length[Occurrence] > Min({MaxChars, left})
               \/ piece.kind = "budget" /\ left <= 0
  PROVE  FullInv'
<1>0. PICK n : n = Len(out)
  OBVIOUS
<1>1. /\ out \in Seq(Piece) /\ n \in Nat /\ DOMAIN out = 1 .. n /\ total \in Nat
      /\ out' = Append(out, piece) /\ total' = total + piece.chars /\ pc' = "next"
      /\ UNCHANGED <<live, going, file, ever, always, call, opened, counted, result>>
      /\ faulty \subseteq faulty'
  BY <1>0, FaultType DEF PInv, TypeOK, Replace, store
<1>2. /\ out' \in Seq(Piece) /\ Len(out') = n + 1 /\ DOMAIN out' = 1 .. n + 1
      /\ out'[n + 1] = piece /\ \A i \in 1 .. n : out'[i] = out[i]
  BY <1>0, <1>1
<1>3. ASSUME NEW m \in 0 .. n PROVE CharsUpTo(out', m) = CharsUpTo(out, m)
  <2>1. m \in Nat /\ m <= Len(out)
    BY <1>0, <1>1
  <2> QED
    BY <1>1, <2>1, CharsProperties
<1>4. n \in 0 .. n
  BY <1>1
<1>5. total = CharsUpTo(out, n)
  BY <1>0 DEF FullInv
<1>6. total' = CharsUpTo(out', Len(out'))
  <2>1. PICK m : m = n + 1
    OBVIOUS
  <2>2. m \in Nat /\ m <= Len(out') /\ m > 0 /\ m - 1 = n
    BY <1>1, <1>2, <2>1
  <2>3. CharsUpTo(out', m) = CharsUpTo(out', m - 1) + out'[m].chars
    BY <1>2, <2>2, CharsProperties
  <2> QED
    BY <1>1, <1>2, <1>3, <1>4, <1>5, <2>1, <2>2, <2>3
<1>7. ASSUME NEW i \in 1 .. n + 1 PROVE Served(i)'
  <2>1. CASE i \in 1 .. n
    <3>1. Served(i) /\ i - 1 \in 0 .. n
      BY <1>1, <2>1 DEF FullInv
    <3>2. CharsUpTo(out', i - 1) = CharsUpTo(out, i - 1) /\ out'[i] = out[i]
      BY <1>2, <1>3, <2>1, <3>1
    <3> QED
      BY <1>1, <3>1, <3>2 DEF Served
  <2>2. CASE i = n + 1
    <3>1. CharsUpTo(out', i - 1) = total
      <4>1. i - 1 = n
        BY <1>1, <2>2
      <4> QED
        BY <1>3, <1>4, <1>5, <4>1
    <3>2. call.args[i] = Occurrence
      BY <1>0, <2>2 DEF Occurrence
    <3> QED
      BY <1>1, <1>2, <2>2, <3>1, <3>2 DEF Served
  <2> QED
    BY <1>1, <2>1, <2>2
<1>8. \A h \in always' : <<"session", h>> \in live' \ going' /\ h \in file'
  BY <1>1 DEF FullInv
<1>9. counted' = {}
  BY <1>1 DEF FullInv, Looping, Reading
<1> QED
  BY <1>1, <1>2, <1>6, <1>7, <1>8, <1>9 DEF FullInv, Looping

\* A marker, for a handle not held all the time, a read that failed or an exhausted
\* budget.
LEMMA MarkerFull ==
  ASSUME PInv, FullInv, Pending, pc \in Looping, NEW k \in Markers, Replace(Marker(k), 0),
         NoFault \/ Fault,
         opened /\ Occurrence \in always /\ Len(out) + 1 \notin faulty' =>
           k = "budget" /\ Spent
  PROVE  FullInv'
<1>1. Marker(k) \in Piece /\ Marker(k).chars = 0 /\ Marker(k).kind = k
  BY PieceType DEF Marker
<1>2. Spent => TotalMax - total <= 0
  BY PassrefAssumption DEF Spent, PInv, TypeOK
<1> QED
  BY <1>1, <1>2, ReplaceFull

\* Content, in full or as far as the caps allow.
LEMMA ExpandFull == PInv /\ FullInv /\ Expand => FullInv'
<1> SUFFICES ASSUME PInv, FullInv, Expand PROVE FullInv'
  OBVIOUS
<1> DEFINE size == Length[Occurrence]
           cut  == size > Cap
           n    == IF cut THEN Cap + MarkerChars ELSE size
           piece == [kind |-> IF cut THEN "truncated" ELSE "content", chars |-> n]
<1>1. pc = "read" /\ Pending /\ Replace(piece, n) /\ NoFault /\ pc \in Looping
  BY DEF Expand, PInv, TypeOK, Looping, Reading
<1>2. total \in Nat /\ total < TotalMax /\ MaxChars \in Nat /\ TotalMax \in Nat /\ MarkerChars \in Nat
  BY <1>1, PassrefAssumption DEF PInv, TypeOK, BudgetInv, Reading
<1>3. Cap \in Nat /\ Cap = Min({MaxChars, TotalMax - total})
  BY <1>2, MinOfTwo DEF Cap
<1>4. Occurrence \in Handles /\ size \in Nat
  BY <1>1, PassrefAssumption DEF PInv, TypeOK, Call, Occurrence, Pending
<1>5. piece \in Piece /\ piece.chars = n
  BY <1>2, <1>3, <1>4 DEF Piece
<1>6. \/ piece = [kind |-> "content", chars |-> size]
      \/ piece.kind = "truncated" /\ size > Min({MaxChars, TotalMax - total})
  BY <1>3
<1> HIDE DEF piece, n
<1>7. Replace(piece, piece.chars)
  BY <1>1, <1>5
<1> QED
  BY <1>1, <1>5, <1>6, <1>7, ReplaceFull

\* A file goes only with the last live row that has it: the sweep that takes the row of
\* another session leaves it, and a rollback brings back no row but rows it took.
LEMMA EnvironmentFull == PInv /\ FullInv /\ Environment => FullInv'
<1> SUFFICES ASSUME PInv, FullInv, Environment PROVE FullInv'
  OBVIOUS
<1>1. /\ UNCHANGED <<call, pc, opened, out, total, counted, result, faulty>>
      /\ always' \subseteq always
      /\ \A g \in always' : /\ <<"session", g>> \in live \ going => <<"session", g>> \in live' \ going'
                            /\ <<"session", g>> \in live \ going /\ g \in file => g \in file'
  BY EnvironmentStore DEF PInv
<1>2. pc \in Looping => \A g \in always' : <<"session", g>> \in live' \ going' /\ g \in file'
  <2> SUFFICES ASSUME pc \in Looping, NEW g \in always'
               PROVE  <<"session", g>> \in live' \ going' /\ g \in file'
    OBVIOUS
  <2>1. <<"session", g>> \in live \ going /\ g \in file
    BY <1>1 DEF FullInv
  <2> QED
    BY <1>1, <2>1
<1>3. \A i \in DOMAIN out : Served(i) => Served(i)'
  BY <1>1, StillServed
<1>4. Occurrence' = Occurrence /\ CharsUpTo(out, Len(out))' = CharsUpTo(out, Len(out))
  BY <1>1 DEF Occurrence
<1> QED
  BY <1>1, <1>2, <1>3, <1>4 DEF FullInv

LEMMA MiddlewareFull == PInv /\ FullInv /\ Middleware => FullInv'
<1> SUFFICES ASSUME PInv, FullInv, Middleware PROVE FullInv'
  OBVIOUS
<1>1. ASSUME UNCHANGED <<live, going, file, always, call, out, total>>,
             pc \in Looping, pc' \in Looping \cup {"done"},
             pc' # "done" => UNCHANGED counted,
             out = <<>> \/ UNCHANGED opened, faulty \subseteq faulty',
             pc' = "exists" => ~opened' \/ Occurrence \notin always \/ Len(out) + 1 \in faulty'
      PROVE  FullInv'
  <2>1. \A i \in DOMAIN out : Served(i)'
    BY <1>1, StillServed DEF FullInv
  <2>2. Occurrence' = Occurrence /\ CharsUpTo(out, Len(out))' = CharsUpTo(out, Len(out))
    BY <1>1 DEF Occurrence
  <2> QED
    BY <1>1, <2>1, <2>2 DEF FullInv, Looping, Reading
<1>2. ASSUME pc = "gate", pc' = "done", UNCHANGED store, "expansion" \notin counted'
      PROVE  FullInv'
  BY <1>2 DEF FullInv, Looping, Reading, store
<1>3. CASE PassExact \/ Deny
  BY <1>2, <1>3 DEF PassExact, Deny, End, FullInv
<1>4. CASE Begin
  <2>1. out = <<>> /\ total = 0 /\ counted = {} /\ UNCHANGED <<live, going, file, out, total, counted>>
    BY <1>4 DEF Begin, PInv, HeldInv, FullInv
  <2>2. CharsUpTo(<<>>, 0) = 0
    <3>1. <<>> \in Seq(Piece) /\ 0 \in Nat /\ 0 <= Len(<<>>)
      OBVIOUS
    <3> QED
      BY <3>1, CharsProperties
  <2> QED
    BY <1>4, <2>1, <2>2 DEF Begin, FullInv, Looping, Reading
<1>5. CASE OpenStore \/ NoStore \/ Raise
  BY <1>1, <1>5 DEF OpenStore, NoStore, Raise, End, store, Looping, Reading, PInv, HeldInv
<1>6. CASE BudgetExceeded
  BY <1>6, MarkerFull DEF BudgetExceeded, Markers, Looping
<1>7. CASE LookUp
  <2>1. ~RowLive(Occurrence) => Occurrence \notin always
    BY <1>7 DEF LookUp, RowLive, FullInv, Looping
  <2> QED
    BY <1>1, <1>7, <2>1 DEF LookUp, Read, NoFault, store, Looping, Reading
<1>8. CASE Verify
  <2>1. /\ pc \in Looping /\ pc' \in Looping /\ faulty \subseteq faulty'
        /\ UNCHANGED <<store, call, opened, out, total, counted, result>>
    BY <1>8, FaultType DEF Verify, Read, NoFault, Fault, Looping, Reading
  <2>2. pc' = "exists" => Occurrence \notin file \/ Len(out) + 1 \in faulty'
    BY <1>8 DEF Verify, Read, Fault
  <2>3. Occurrence \notin file => Occurrence \notin always
    BY <2>1 DEF FullInv
  <2> QED
    BY <1>1, <2>1, <2>2, <2>3 DEF store, Looping, Reading
<1>9. CASE Exists
  <2>1. /\ pc \in Looping /\ Pending /\ NoFault
        /\ ~opened \/ Occurrence \notin always \/ Len(out) + 1 \in faulty'
    BY <1>9 DEF Exists, NoFault, FullInv, PInv, TypeOK, Looping, Reading
  <2>2. Replace(Marker("foreign"), 0) \/ Replace(Marker("missing"), 0)
    BY <1>9 DEF Exists
  <2> QED
    BY <2>1, <2>2, MarkerFull DEF Markers
<1>10. CASE Expand
  BY <1>10, ExpandFull
<1>11. CASE Unreadable
  <2>1. pc \in Looping /\ Pending /\ (NoFault \/ Fault) /\ Replace(Marker("missing"), 0)
    BY <1>11 DEF Unreadable, Looping, Reading, PInv, TypeOK
  <2>2. Occurrence \notin always \/ Len(out) + 1 \in faulty'
    BY <1>11, <2>1 DEF Unreadable, Fault, FullInv
  <2> QED
    BY <2>1, <2>2, MarkerFull DEF Markers
<1>12. CASE Finish
  BY <1>1, <1>12 DEF Finish, End, store, Looping
<1> QED
  BY <1>3, <1>4, <1>5, <1>6, <1>7, <1>8, <1>9, <1>10, <1>11, <1>12 DEF Middleware

\* Whatever other processes put, sweep, roll back and reconcile meanwhile, an occurrence
\* without a read that fails, of a handle whose row none of them has tried to take and
\* that had its file as the call began, gets its content in full, unless that passes the
\* cap of one handle or what the occurrences before it have left of the budget: for any
\* lengths, caps and arguments.
THEOREM HeldHandlesAreServed == Spec => []FullWhenHeld
<1>1. Init => FullInv
  BY DEF Init, FullInv, Looping, Reading
<1>2. PInv /\ FullInv /\ UNCHANGED vars => FullInv'
  <2> SUFFICES ASSUME FullInv, UNCHANGED vars PROVE FullInv'
    OBVIOUS
  <2>1. \A i \in DOMAIN out : Served(i) => Served(i)'
    BY StillServed DEF vars
  <2> QED
    BY <2>1 DEF vars, FullInv, Occurrence
<1>3. FullInv => FullWhenHeld
  BY DEF FullInv, FullWhenHeld, Served, CharsUpTo, Inserted
<1> QED
  BY Inductive, MiddlewareFull, EnvironmentFull, <1>1, <1>2, <1>3, PTL DEF Spec, Next
=============================================================================
