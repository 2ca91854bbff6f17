----------------------------- MODULE PruneGroups -----------------------------
(***************************************************************************)
(* Which parts of a prompt structured pruning may touch, and which of them *)
(* it picks: structured_pruning_groups.py and structured_pruning_selection.py. *)
(*                                                                         *)
(* A prompt is a sequence of contributions.  A group is the set of the     *)
(* positions of the contributions that share an atomic_group_id, or one    *)
(* position; it stands or falls as a whole.                                *)
(***************************************************************************)
EXTENDS Integers, Sequences, FiniteSetsExt

CONSTANTS
  Classes,         \* config.classes
  MinSaved,        \* config.min_saved_tokens
  CacheTTL,        \* config.cache_ttl_seconds
  ProtectMessages, \* config.protect_recent_messages
  ProtectTools,    \* config.protect_recent_tool_interactions
  None             \* no atomic group, no age, no time

Protected == {"identity", "system_instruction", "project_context", "memory_context",
              "skill_context", "developer_instruction", "user_message", "tool_schema",
              "exact_file_read", "unknown"}
RescueBacked == {"diagnostic"}
Disposing    == {"soft_trim", "hard_clear_allowed"}

\* A contribution, once parsed.  Its id is its position: the host's ids are
\* taken to be distinct.  stable: in the stable prefix and in the prefix cache.
\* rescued: its content is an excerpt already.
Contribution == [kind : {"message", "tool_interaction", "tool_schema", "other"},
                 class : STRING, policy : Disposing \cup {"never"}, tokens : Nat,
                 group : STRING \cup {None}, created : Nat \cup {None},
                 stable : BOOLEAN, rescued : BOOLEAN]

Positions(cs) == DOMAIN cs
Tokens(cs, S) == MapThenSumSet(LAMBDA i : cs[i].tokens, S)

-----------------------------------------------------------------------------
(* build_groups *)

GroupOf(cs, i) ==
  IF cs[i].group = None THEN {i} ELSE {j \in Positions(cs) : cs[j].group = cs[i].group}
Groups(cs) == {GroupOf(cs, i) : i \in Positions(cs)}

\* The n greatest members of S, all of them when there are no more.
Last(S, n) == {x \in S : Cardinality({y \in S : y > x}) < n}

RecentMessages(cs) == Last({i \in Positions(cs) : cs[i].kind = "message"}, ProtectMessages)

\* Windows count groups, by their first position.
RecentTools(cs) ==
  Last({Min(g) : g \in {f \in Groups(cs) : \E i \in f : cs[i].kind = "tool_interaction"}},
       ProtectTools)

\* resolve_now_ms: without a clock, a second after the youngest contribution.
Now(cs, clock) ==
  LET known == {cs[i].created : i \in Positions(cs)} \ {None}
  IN  IF clock # None THEN clock ELSE IF known = {} THEN None ELSE Max(known) + 1

\* _is_ttl_protected
Young(c, now) ==
  /\ now # None /\ c.created # None
  /\ \/ c.class \in Classes /\ c.policy \in Disposing
     \/ c.stable
  /\ CacheTTL > 0 /\ now - c.created < CacheTTL

Eligible(cs, g)  == {i \in g : cs[i].class \in Classes \cup RescueBacked}
Disposable(c)    == c.class \in RescueBacked \/ c.policy \in Disposing
HasDisposable(cs, g)  == \E i \in Eligible(cs, g) : Disposable(cs[i])
SoftAllowed(cs, g)    == \A i \in Eligible(cs, g) : cs[i].policy = "soft_trim"
HardAllowed(cs, g)    == \A i \in Eligible(cs, g) : Disposable(cs[i])
ClassProtected(cs, g) == \E i \in g : cs[i].class \in Protected
TtlProtected(cs, g, now) == \E i \in g : Young(cs[i], now)

\* Mutant: the window of tool interactions is left out.
RecentlyRead(cs, g) == g \cap RecentMessages(cs) # {}

RecentlyUsed(cs, g) == g \cap RecentMessages(cs) # {} \/ Min(g) \in RecentTools(cs)

-----------------------------------------------------------------------------
(* select_pruned_groups *)

\* candidate_groups
Candidates(cs, now, route, young) ==
  {g \in Groups(cs) :
     /\ ~ClassProtected(cs, g) /\ HasDisposable(cs, g)
     /\ ~RecentlyUsed(cs, g)
     /\ TtlProtected(cs, g, now) => young
     /\ IF route = "soft" THEN SoftAllowed(cs, g) ELSE HardAllowed(cs, g)
     /\ Tokens(cs, g) >= MinSaved}

Savings(cs, gs) == Tokens(cs, UNION gs)

\* Time of the oldest member; none known counts as the oldest of all.
Oldest(cs, g) ==
  LET known == {cs[i].created : i \in g} \ {None}
  IN  IF known = {} THEN 0 ELSE Min(known)

\* The order a set of candidates is gone through.
Before(cs, f, g) ==
  LET a == Tokens(cs, f)
      b == Tokens(cs, g)
  IN  \/ a > b
      \/ a = b /\ Oldest(cs, f) < Oldest(cs, g)
      \/ a = b /\ Oldest(cs, f) = Oldest(cs, g) /\ Min(f) < Min(g)

From(gs, i)    == {g \in gs : Min(g) >= i}
Reaches(cs, gs, n) == Savings(cs, gs) >= n

\* Mutant: the largest first, wherever they are.
LargestSubset(cs, gs, n) == {g \in gs : Savings(cs, {f \in gs : Before(cs, f, g)}) < n}

\* _optimal_subset: from the latest position after which the target is in reach,
\* as many groups as it takes, the largest first.
OptimalSubset(cs, gs, n) ==
  LET start == Max({i \in {Min(g) : g \in gs} : Reaches(cs, From(gs, i), n)})
      late  == From(gs, start)
  IN  {g \in late : Savings(cs, {f \in late : Before(cs, f, g)}) < n}

\* _partial_subset
LatestGroup(gs) == {CHOOSE g \in gs : \A f \in gs : Min(f) <= Min(g)}

NoSelection  == [found |-> FALSE, groups |-> {}]
Selection(S) == [found |-> TRUE, groups |-> S]

SelectPrunedGroups(cs, now, route, required, fallback) ==
  LET core == Candidates(cs, now, route, FALSE)
      wide == Candidates(cs, now, route, TRUE)
      Meets(gs, n) == gs # {} /\ n > 0 /\ Reaches(cs, gs, n)
  IN  IF required <= 0 THEN Selection({})
      ELSE IF Meets(core, required) THEN Selection(OptimalSubset(cs, core, required))
      ELSE IF route = "hard" /\ Meets(wide, required)
        THEN Selection(OptimalSubset(cs, wide, required))
      ELSE IF route = "hard" /\ Meets(wide, fallback)
        THEN Selection(OptimalSubset(cs, wide, fallback))
      ELSE IF Meets(core, fallback) THEN Selection(OptimalSubset(cs, core, fallback))
      ELSE IF fallback <= 0 /\ core # {} THEN Selection(LatestGroup(core))
      ELSE NoSelection
=============================================================================
