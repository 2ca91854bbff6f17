------------------------- MODULE MCStructuredPruning -------------------------
(* Calls for StructuredPruning: short prompts made of a few telling shapes. *)
EXTENDS StructuredPruning

Shape(kind, class, policy, tokens, group, created, stable, rescued) ==
  [kind |-> kind, class |-> class, policy |-> policy, tokens |-> tokens, group |-> group,
   created |-> created, stable |-> stable, rescued |-> rescued]

\* Terminal output, alone and of any age and policy.
Terminals == {
  Shape("message", "terminal_tool_output", "hard_clear_allowed", 2, None, None, FALSE, FALSE),
  Shape("other", "terminal_tool_output", "soft_trim", 2, None, 2, FALSE, FALSE),
  Shape("other", "terminal_tool_output", "hard_clear_allowed", 3, None, 9, TRUE, FALSE)}

\* The members of a tool interaction, and one that may be more recent.
Members == {
  Shape("tool_interaction", "assistant_message", "never", 1, "g", None, FALSE, FALSE),
  Shape("tool_interaction", "terminal_tool_output", "hard_clear_allowed", 3, "g", None, FALSE, FALSE),
  Shape("tool_interaction", "diagnostic", "never", 4, "g", 9, FALSE, FALSE),
  Shape("tool_interaction", "novel", "never", 1, "g", None, FALSE, FALSE),
  Shape("tool_interaction", "terminal_tool_output", "hard_clear_allowed", 2, None, None, FALSE, FALSE)}

Others == {
  Shape("message", "user_message", "never", 2, None, 9, FALSE, FALSE),
  Shape("other", "diagnostic", "never", 1, None, None, FALSE, FALSE),
  Shape("other", "diagnostic", "soft_trim", 3, None, 9, FALSE, FALSE),
  Shape("other", "diagnostic", "never", 2, None, None, FALSE, TRUE)}

Prompts(n) == UNION {[1 .. m -> Terminals \cup Members \cup Others] : m \in 1 .. n}

CallsOver(prompts, pressures, rescues) ==
  [cs : prompts, pressure : pressures, schema : {0}, threshold : {5}, target : {0, 1, 4},
   trigger : {0}, clock : {None}, enabled : {TRUE}, option : {None}, rejected : {{}},
   rescue : rescues]

MCCalls == CallsOver(Prompts(3), {None, 4, 5, 7, 9}, BOOLEAN)

\* What _prepare_prune turns away, resolves or derives.
MCHostCalls ==
  [cs : Prompts(2), pressure : {None, 0, 4, 6}, schema : {0, 2}, threshold : {0, 1, 5},
   target : {0, 7}, trigger : {0, 3}, clock : {10}, enabled : {TRUE}, option : {None, 3},
   rejected : {{}}, rescue : {TRUE}]
MCConfigCalls ==
  [cs : Prompts(1), pressure : {-1, 4}, schema : {0}, threshold : {None, 0, 4},
   target : {0}, trigger : {0}, clock : {None}, enabled : BOOLEAN, option : {None, 0, 2, 5},
   rejected : SUBSET {"option", "contribution"}, rescue : {TRUE}]

MCAllCalls == MCCalls \cup MCHostCalls \cup MCConfigCalls
=============================================================================
