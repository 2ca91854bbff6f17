----------------------------- MODULE ToolResults -----------------------------
(***************************************************************************)
(* The plugin from its registration to the results it rewrites:            *)
(* plugin.register, then compaction.transform_tool_result with             *)
(* rescue_transform.transform_rescue_result in front of it.                *)
(*                                                                         *)
(* Registration is a fixed sequence of surfaces.  The host may lack each   *)
(* of them or refuse it, and what it accepted before decides what a result *)
(* may be turned into later: an excerpt whose handle nobody can redeem     *)
(* loses the content.  A result is a JSON object of text fields; of a text *)
(* only matters how long it is and whether it embeds a diagnostic.         *)
(***************************************************************************)
EXTENDS Integers, Sequences

CONSTANTS
  Configs,   \* the plugin configurations to consider
  Payloads   \* the tool results to consider

Tools    == {"read_file", "terminal", "web", "memory", "other"}
Fields   == {"content", "output", "stdout", "stderr"}
\* "wide": enough characters, few lines.  "tall": enough lines, few characters.
\* "long": both.  "trace": long, and embeds a diagnostic.
Texts    == {"absent", "short", "wide", "tall", "long", "trace"}
Modes    == {"head_tail", "metadata", "off"}
\* valid: every tokenjuice_ option parses.  rescue: so do the rescue options.
\* listed, aliases: tools of rescue_tool_names (less excluded_tools) and of
\* tool_aliases.  fetch: the key rescue_fetch_available.  allowlist: how
\* passref_allowed_tools is given.
Config   == [valid : BOOLEAN, rescue : BOOLEAN, mode : Modes, listed : SUBSET Tools,
             aliases : SUBSET Tools, fetch : {"unset", "yes", "no"}, pruning : BOOLEAN,
             allowlist : {"none", "list", "csv"}]
Payload  == [json : BOOLEAN, error : BOOLEAN, text : [Fields -> Texts]]

ASSUME ToolResultsAssumption == Configs \subseteq Config /\ Payloads \subseteq Payload

VARIABLES
  config,      \* ctx.config, or the plugin's entry in the Hermes configuration; the
               \* host passes the same options along with a result
  stage,       \* the surface to be registered next; past the last one: in use
  failed,      \* register() ended with an exception
  registered,  \* surfaces the host has accepted
  call,        \* the result at hand: tool, payload, session and store there or not
  out          \* what the hook returned for it

vars == <<config, stage, failed, registered, call, out>>

Surfaces == <<"llm_request", "rescuer_fetch", "structured_context_prune", "tool_request",
              "tokenjuice_status", "transform_tool_result">>
ToolSurfaces == {"rescuer_fetch", "tokenjuice_status"}
NoCall    == [tool |-> "none"]
Unchanged == [kind |-> "unchanged", omitted |-> {}, rescued |-> "none"]

Init ==
  /\ config \in Configs
  /\ stage = 1 /\ failed = FALSE /\ registered = {}
  /\ call = NoCall /\ out = Unchanged

-----------------------------------------------------------------------------
(* register(ctx) *)

Surface     == Surfaces[stage]
Registering == stage <= Len(Surfaces) /\ ~failed

Wanted(s) == s = "structured_context_prune" => config.pruning

\* Mutant: the surface after an accepted one is passed over.
AcceptPair(s) ==
  /\ registered' = registered \cup {s}
  /\ stage' = stage + 2
  /\ UNCHANGED <<config, failed, call, out>>

Accept(s) ==
  /\ registered' = registered \cup {s}
  /\ stage' = stage + 1
  /\ UNCHANGED <<config, failed, call, out>>

\* The host accepts the surface; a tool in the keyword form or, when that is a
\* TypeError, in the positional form.
HostAccepts == Registering /\ Wanted(Surface) /\ Accept(Surface)

\* The host lacks the surface or refuses it, or it is not wanted; the transform
\* hook is not optional.
HostRefuses ==
  /\ Registering /\ Surface # "transform_tool_result"
  /\ stage' = stage + 1
  /\ UNCHANGED <<config, failed, registered, call, out>>

\* The keyword form of register_tool, or the transform hook, raises something
\* that is not caught.
HostRaises ==
  /\ Registering /\ Surface \in ToolSurfaces \cup {"transform_tool_result"}
  /\ failed' = TRUE
  /\ UNCHANGED <<config, stage, registered, call, out>>

-----------------------------------------------------------------------------
(* transform_tool_result *)

InUse == "transform_tool_result" \in registered

\* parse_options: with the fetch tool the plugin adds its own configuration to
\* the host's arguments, and OPTION_KEYS has no passref_allowed_tools.
Fetch   == "rescuer_fetch" \in registered
Options == config.valid /\ ~(Fetch /\ config.allowlist = "csv")

\* supported_tool_names
Supported(t) == t = "terminal" \/ (t \in config.aliases /\ t # "read_file")

\* _find_oversized_field goes by characters, _should_transform_text by characters or
\* lines; lines are cut when there are more than head and tail together.
Oversized(x) == x \in {"wide", "long", "trace"}
Sizable(x)   == Oversized(x) \/ x = "tall"
Cut(x)       == x \in {"tall", "long", "trace"}

\* Mutant: diagnostics inside output are overlooked.
StderrOnly(p, f) == p.error /\ f = "stderr"
\* _compactable_text_fields leaves out what diagnoses an error.
Diagnostic(p, f) == p.error /\ (f = "stderr" \/ (f = "output" /\ p.text[f] = "trace"))

TextFields  == {"stdout", "stderr", "output"}
RescueOrder == <<"content", "output", "stdout">>
Rescuable(p) == {i \in DOMAIN RescueOrder : Oversized(p.text[RescueOrder[i]])}

\* Mutant: unless the operator says otherwise the fetch tool is taken to be there.
FetchAssumed == config.fetch # "no"

\* parse_rescue_options; _can_rescue, the store's path, _find_oversized_field.
FetchAvailable == config.fetch = "yes" \/ (config.fetch = "unset" /\ Fetch)
CanRescue(t, p) ==
  /\ config.rescue /\ p.json /\ ~p.error
  /\ call.session /\ FetchAvailable
  /\ t \in config.listed /\ t # "memory"
RescueTried ==
  /\ call.tool # "read_file" /\ Options
  /\ CanRescue(call.tool, call.payload)
  /\ call.store /\ Rescuable(call.payload) # {}

Pending == call # NoCall /\ out.kind = "pending"
Return(r) == out' = r /\ UNCHANGED <<config, stage, failed, registered, call>>

\* Hermes hands over the result of a tool.
Receive(t, p, session, store) ==
  /\ InUse /\ call = NoCall
  /\ call' = [tool |-> t, payload |-> p, session |-> session, store |-> store, put |-> FALSE]
  /\ out' = [Unchanged EXCEPT !.kind = "pending"]
  /\ UNCHANGED <<config, stage, failed, registered>>

\* store.put stores the first oversized field, and the excerpt takes the place of
\* the whole result.
Rescue ==
  /\ Pending /\ RescueTried /\ ~call.put
  /\ LET first == CHOOSE i \in Rescuable(call.payload) : \A j \in Rescuable(call.payload) : i <= j
     IN  Return([kind |-> "rescued", omitted |-> {}, rescued |-> RescueOrder[first]])

\* It fails, and what follows is as without rescue.
RescueFails ==
  /\ Pending /\ RescueTried /\ ~call.put
  /\ call' = [call EXCEPT !.put = TRUE]
  /\ UNCHANGED <<config, stage, failed, registered, out>>

Unrescued == ~RescueTried \/ call.put

\* _transform_terminal_path applies.
Terminal == call.tool # "read_file" /\ Options /\ Supported(call.tool) /\ call.payload.json

Compactable ==
  {f \in TextFields : Sizable(call.payload.text[f]) /\ ~Diagnostic(call.payload, f)}

\* head_tail: the middle lines of each field go; a text of few lines stays.
Compact ==
  /\ Pending /\ Unrescued /\ Terminal
  /\ config.mode = "head_tail" /\ Compactable # {}
  /\ Return([kind |-> "compacted", rescued |-> "none",
             omitted |-> {f \in Compactable : Cut(call.payload.text[f])}])

\* metadata: texts stay, their measures are added.
Annotate ==
  /\ Pending /\ Unrescued /\ Terminal
  /\ config.mode = "metadata" /\ \E f \in TextFields : Sizable(call.payload.text[f])
  /\ Return([Unchanged EXCEPT !.kind = "annotated"])

Leave ==
  /\ Pending /\ Unrescued
  /\ \/ ~Terminal \/ config.mode = "off"
     \/ config.mode = "head_tail" /\ Compactable = {}
     \/ config.mode = "metadata" /\ \A f \in TextFields : ~Sizable(call.payload.text[f])
  /\ Return(Unchanged)

\* Hermes takes what the hook returned.
Deliver ==
  /\ call # NoCall /\ ~Pending
  /\ call' = NoCall /\ out' = Unchanged
  /\ UNCHANGED <<config, stage, failed, registered>>

Next ==
  \/ HostAccepts \/ HostRefuses \/ HostRaises
  \/ \E t \in Tools, p \in Payloads, session, store \in BOOLEAN : Receive(t, p, session, store)
  \/ Rescue \/ RescueFails \/ Compact \/ Annotate \/ Leave \/ Deliver

Spec == Init /\ [][Next]_vars

-----------------------------------------------------------------------------
(* Properties *)

\* Every variable keeps to its type.
TypeOK ==
  /\ config \in Configs /\ stage \in 1 .. Len(Surfaces) + 1
  /\ failed \in BOOLEAN
  /\ registered \subseteq {Surfaces[i] : i \in DOMAIN Surfaces}
  /\ call # NoCall => /\ call.tool \in Tools /\ call.payload \in Payloads
                      /\ {call.session, call.store, call.put} \subseteq BOOLEAN
  /\ out.kind \in {"unchanged", "pending", "rescued", "compacted", "annotated"}
  /\ out.omitted \subseteq Fields /\ out.rescued \in Fields \cup {"none"}

\* An excerpt is returned only when the model can get the rest: whatever the host
\* refused, the fetch tool is there (unless the operator says so himself), the
\* session is known, and the text put is the long one, of a result that is no error.
HandleUsable == out.kind = "rescued" =>
  /\ "rescuer_fetch" \in registered \/ config.fetch = "yes"
  /\ call.session /\ call.store /\ ~call.put
  /\ Oversized(call.payload.text[out.rescued]) /\ ~call.payload.error

\* What diagnoses an error stays in the result, whichever path, mode, alias or
\* listing applies, and read_file is exact altogether.
ErrorsExact ==
  /\ call # NoCall /\ call.payload.error =>
       /\ out.kind # "rescued" /\ "stderr" \notin out.omitted
       /\ call.payload.text["output"] = "trace" => "output" \notin out.omitted
  /\ call # NoCall /\ call.tool = "read_file" => out.kind \in {"unchanged", "pending"}
=============================================================================
