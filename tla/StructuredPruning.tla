-------------------------- MODULE StructuredPruning --------------------------
(***************************************************************************)
(* One call of prune_structured_context: structured_pruning.py,            *)
(* structured_pruning_apply.py and structured_pruning_rescue.py over the   *)
(* groups of PruneGroups.                                                  *)
(*                                                                         *)
(* The call works out how much is to be saved and picks groups.  Applying  *)
(* them puts the content of rescue-backed contributions into the rescue    *)
(* store, one put after the other; what is put stays put when a later put  *)
(* fails and the call gives up.  When the excerpts leave too much, all the *)
(* candidates are applied once more.  An exception anywhere is a None.     *)
(***************************************************************************)
EXTENDS PruneGroups

CONSTANTS
  Calls,        \* the calls to consider
  TriggerRatio, TargetRatio, SoftRatio, HardRatio,  \* options in percent, or None
  ExcerptTokens \* _estimated_tokens of an excerpt; at least 1

\* A call: its contributions, what the host passes along, and what differs between
\* configurations.  None where nothing is given, 0 for a figure no use is made of.
\* option: the threshold of the configuration.  rejected: what does not parse, an
\* option other than that or a contribution.  rescue: there is a session and the
\* fetch tool.
Call == [cs : Seq(Contribution), pressure : Int \cup {None}, schema : Nat,
         threshold : Nat \cup {None}, target : Nat, trigger : Nat,
         clock : Nat \cup {None}, enabled : BOOLEAN, option : Nat \cup {None},
         rejected : SUBSET {"option", "contribution"}, rescue : BOOLEAN]

ASSUME PruningAssumption ==
  /\ Calls \subseteq Call
  /\ {MinSaved, CacheTTL, ProtectMessages, ProtectTools} \subseteq Nat
  /\ {TriggerRatio, TargetRatio, SoftRatio, HardRatio} \subseteq (0 .. 100) \cup {None}
  /\ ExcerptTokens \in Nat \ {0}

VARIABLES
  call,     \* the call under way
  pc,       \* where it is
  route,    \* "soft" or "hard"
  chosen,   \* the groups being applied
  first,    \* the groups applied the first time, when this is the retry
  queue,    \* positions whose content has still to be put
  stored,   \* positions whose content is in the rescue store
  result    \* None, or the positions kept, the positions replaced and the savings

vars == <<call, pc, route, chosen, first, queue, stored, result>>

cs  == call.cs
now == Now(cs, call.clock)

\* _context_with_dynamic_threshold: the host's threshold stands in for an option
\* that is missing; for one that is invalid it does not.
HostGives    == call.threshold \notin {None, 0}
OptionTokens == IF call.option = None /\ HostGives THEN call.threshold ELSE call.option

\* parse_config: one invalid option, and there is no configuration.
Config == "option" \notin call.rejected /\ OptionTokens \notin {None, 0}
Ratio(option, default) == IF option = None THEN default ELSE option
SoftTarget == Ratio(SoftRatio, Ratio(TargetRatio, 75))
HardTarget == Ratio(HardRatio, Ratio(TargetRatio, 75))

\* _resolve_threshold, for a call with a configuration.
Threshold == IF HostGives THEN call.threshold ELSE call.option

\* _resolve_pressure: the host's figure, or the sum of the estimates; None when
\* the one is negative or the other is nothing.
Pressure ==
  LET sum == Tokens(cs, {i \in Positions(cs) : cs[i].kind # "tool_schema"}) + call.schema
  IN  IF call.pressure # None THEN IF call.pressure >= 0 THEN call.pressure ELSE None
      ELSE IF sum > 0 THEN sum ELSE None

Route == IF Pressure >= Threshold THEN "hard" ELSE "soft"

\* _resolve_trigger and _resolve_target: the host's figure, or a share of the
\* threshold; a share that rounds to nothing is the threshold itself.
Trigger ==
  IF call.trigger > 0 THEN call.trigger ELSE (Threshold * Ratio(TriggerRatio, 80)) \div 100
Target ==
  LET share == (Threshold * (IF Route = "hard" THEN HardTarget ELSE SoftTarget)) \div 100
  IN  IF call.target > 0 THEN call.target ELSE IF share > 0 THEN share ELSE Threshold

Over(n)   == IF Pressure > n THEN Pressure - n ELSE 0
ToThreshold == Over(Threshold)
Required    == IF Over(Target) > 0 THEN Over(Target) ELSE ToThreshold

-----------------------------------------------------------------------------
Init ==
  /\ call \in Calls
  /\ pc = "prepare" /\ route = "soft"
  /\ chosen = {} /\ first = {} /\ queue = {} /\ stored = {}
  /\ result = None

\* The call returns None and Hermes keeps its own view.
GiveUp == pc' = "done" /\ UNCHANGED <<call, route, chosen, first, queue, stored, result>>

\* _prepare_prune: there is a configuration that says so, the contributions parse,
\* and the pressure is known and up to the trigger.
Prepared ==
  /\ Config /\ call.enabled /\ "contribution" \notin call.rejected
  /\ Pressure # None /\ Pressure >= Trigger

Decline == pc = "prepare" /\ ~Prepared /\ GiveUp

\* The content of rescue-backed members is put, unless it is an excerpt already.
ToRescue(gs) == {i \in UNION gs : cs[i].class \in RescueBacked}

\* Mutant: what the policy protects is not put.
ToPutByPolicy(gs) == {i \in ToRescue(gs) : ~cs[i].rescued /\ cs[i].policy \in Disposing}

ToPut(gs) == {i \in ToRescue(gs) : ~cs[i].rescued}

Apply(gs) ==
  /\ chosen' = gs
  /\ queue' = ToPut(gs)
  /\ pc' = "rescue"

\* select_pruned_groups
Select ==
  LET sel == SelectPrunedGroups(cs, now, Route, Required, ToThreshold) IN
  /\ pc = "prepare" /\ Prepared
  /\ sel.found
  /\ route' = Route
  /\ Apply(sel.groups)
  /\ UNCHANGED <<call, first, stored, result>>

NothingToSelect ==
  /\ pc = "prepare" /\ Prepared
  /\ ~SelectPrunedGroups(cs, now, Route, Required, ToThreshold).found
  /\ GiveUp

\* _rescue_contribution: store.put; its handle goes into the excerpt.
RescuePut(i) ==
  /\ pc = "rescue" /\ call.rescue /\ i \in queue
  /\ stored' = stored \cup {i}
  /\ queue' = queue \ {i}
  /\ UNCHANGED <<call, pc, route, chosen, first, result>>

\* The store cannot be opened or a put fails.
RescueFails == pc = "rescue" /\ call.rescue /\ ToRescue(chosen) # {} /\ GiveUp

\* No session, or a host without the fetch tool.
RescueUnavailable == pc = "rescue" /\ ~call.rescue /\ ToRescue(chosen) # {} /\ GiveUp

\* apply_pruned_groups: a rescue-backed member is replaced by its excerpt, and the
\* other members of its atomic group are kept with it.
Replaced(gs) == ToRescue(gs)
Rescuing(gs) == {g \in gs : g \cap ToRescue(gs) # {}}

\* Mutant: the members of an atomic group go one by one.
RemovedAlone(gs) == (UNION gs) \ Replaced(gs)

Removed(gs) == UNION (gs \ Rescuing(gs))

Excerpt(i) == IF cs[i].rescued THEN cs[i].tokens ELSE ExcerptTokens

\* Mutant: no max(0, ...).
ShrinksOrGrows(i) == cs[i].tokens - Excerpt(i)

Shrinks(i) == IF cs[i].tokens > Excerpt(i) THEN cs[i].tokens - Excerpt(i) ELSE 0

\* Mutant: excerpts, and what is kept with them, count as nothing.
SavedInFull(gs) == Tokens(cs, UNION gs)

Saved(gs) == Tokens(cs, Removed(gs)) + MapThenSumSet(Shrinks, Replaced(gs))

Applied(gs) == [kept |-> Positions(cs) \ (Removed(gs) \cup Replaced(gs)),
                excerpts |-> Replaced(gs), saved |-> Saved(gs)]

Done == pc = "rescue" /\ queue = {} /\ (ToRescue(chosen) = {} \/ call.rescue)

\* The groups applied save enough to get below the threshold.
Finish ==
  /\ Done
  /\ ToThreshold = 0 \/ Saved(chosen) >= ToThreshold
  /\ result' = Applied(chosen)
  /\ pc' = "done"
  /\ UNCHANGED <<call, route, chosen, first, queue, stored>>

\* Mutant: another try whenever the last one fell short.
RetryAgain ==
  /\ Done
  /\ Saved(chosen) < ToThreshold
  /\ first' = chosen
  /\ Apply(Candidates(cs, now, route, route = "hard"))
  /\ UNCHANGED <<call, route, stored, result>>

\* They do not: every candidate, young or not, is applied instead, once.
Wider == Candidates(cs, now, route, route = "hard")
Retry ==
  /\ Done
  /\ Saved(chosen) < ToThreshold
  /\ first = {} /\ Wider # chosen
  /\ first' = chosen
  /\ Apply(Wider)
  /\ UNCHANGED <<call, route, stored, result>>

\* Not even that is enough.
Insufficient ==
  /\ Done
  /\ Saved(chosen) < ToThreshold
  /\ first # {} \/ Wider = chosen
  /\ GiveUp

\* The host has its answer.
Returned == pc = "done" /\ UNCHANGED vars

Next ==
  \/ Decline \/ Select \/ NothingToSelect
  \/ \E i \in Positions(cs) : RescuePut(i)
  \/ RescueFails \/ RescueUnavailable
  \/ Finish \/ Retry \/ Insufficient
  \/ Returned

Spec == Init /\ [][Next]_vars

-----------------------------------------------------------------------------
(* Properties *)

\* Every variable keeps to its type.
TypeOK ==
  /\ call \in Call
  /\ pc \in {"prepare", "rescue", "done"} /\ route \in {"soft", "hard"}
  /\ chosen \subseteq Groups(cs) /\ first \subseteq Groups(cs)
  /\ queue \subseteq Positions(cs) /\ stored \subseteq Positions(cs)
  /\ result # None => /\ result.kept \subseteq Positions(cs)
                      /\ result.excerpts \subseteq Positions(cs) \ result.kept
                      /\ result.saved \in Nat

\* Whatever the route, the retry and the grouping: a contribution of a protected
\* class or in the window of recent messages, and every member of the groups of
\* such a contribution or of a recent tool interaction, is in the view as it was.
ProtectedKept == result # None => \A i \in Positions(cs) :
  \/ cs[i].class \in Protected
  \/ i \in RecentMessages(cs)
  \/ cs[i].kind = "tool_interaction" /\ Min(GroupOf(cs, i)) \in RecentTools(cs)
  => GroupOf(cs, i) \subseteq result.kept

\* A tool call and its results leave the view together or stay together, also when
\* one of the results is replaced by an excerpt.
AtomicGroups == result # None => \A i, j \in Positions(cs) :
  cs[i].group # None /\ cs[i].group = cs[j].group =>
    (i \in result.kept \cup result.excerpts <=> j \in result.kept \cup result.excerpts)

\* A view that is returned for a prompt over the threshold really loses the tokens
\* it takes to get there, counted over what is left of the prompt: whatever stays
\* with its atomic group and as long as no excerpt is longer than the original.
Freed(r) == Tokens(cs, Positions(cs) \ r.kept) - MapThenSumSet(Excerpt, r.excerpts)
FitsThreshold == result # None /\ (\A i \in result.excerpts : Excerpt(i) <= cs[i].tokens) =>
  Pressure - Freed(result) <= Threshold \/ Pressure <= Threshold

\* Every excerpt of a view names content that is in the rescue store, whichever
\* puts failed and whether it is of the first or the second attempt.
ExcerptsStored == result # None => \A i \in result.excerpts : cs[i].rescued \/ i \in stored

\* README: "prefers the longest provider-cache prefix by mutating the latest
\* possible contribution first".  When safe candidates reach the target, no other
\* set of them that does starts later, none that starts there is smaller, and none
\* as small that starts there saves more (docs/configuration.md on tie-breakers).
\* Of the first application: a second one selects what more pressure asks for.
LatestPrefix ==
  LET core == Candidates(cs, now, route, FALSE)
  IN  pc = "rescue" /\ first = {} /\ Required > 0 /\ Savings(cs, core) >= Required =>
        /\ chosen \subseteq core /\ Savings(cs, chosen) >= Required
        /\ \A S \in SUBSET core : Savings(cs, S) >= Required =>
             /\ Min(UNION S) <= Min(UNION chosen)
             /\ Min(UNION S) = Min(UNION chosen) =>
                  \/ Cardinality(S) > Cardinality(chosen)
                  \/ Cardinality(S) = Cardinality(chosen) /\ Savings(cs, S) <= Savings(cs, chosen)

\* The call comes to an end: whatever is put, fails or is applied again, every step
\* leaves fewer steps to take, and there is one retry.
StepsLeft ==
  LET round == Cardinality(Positions(cs)) + 2
  IN  CASE pc = "done" -> 0
        [] pc = "prepare" -> 2 * round
        [] OTHER -> Cardinality(queue) + 1 + (IF first = {} THEN round ELSE 0)
CallEnds == [][StepsLeft' < StepsLeft]_vars
=============================================================================
