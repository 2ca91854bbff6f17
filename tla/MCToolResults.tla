--------------------------- MODULE MCToolResults ---------------------------
(* Values for the constants of ToolResults. *)
EXTENDS ToolResults

Cfg(valid, rescue, mode, listed, aliases, fetch, allowlist) ==
  [valid |-> valid, rescue |-> rescue, mode |-> mode, listed |-> listed, aliases |-> aliases,
   fetch |-> fetch, pruning |-> TRUE, allowlist |-> allowlist]

\* Every mode, with what an operator may list that the code has to sort out.
MCConfigs ==
  {Cfg(TRUE, TRUE, m, l, {}, "unset", a) :
     m \in Modes, l \in {{"web"}, {"web", "terminal", "memory", "read_file"}}, a \in {"none"}}
  \cup {Cfg(v, ~v, "head_tail", {"web", "terminal"}, {"web", "read_file"}, "no", "list") :
          v \in BOOLEAN}
  \cup {Cfg(TRUE, TRUE, "head_tail", {"web", "terminal"}, {}, "unset", "csv")}
  \cup {Cfg(TRUE, TRUE, "head_tail", {"web"}, {"other"}, "yes", "none")}
  \cup {[Cfg(TRUE, TRUE, "head_tail", {"web"}, {}, "unset", "none") EXCEPT !.pruning = FALSE]}

\* Texts of every kind where they make a difference.
MCPayloads ==
  [json : {TRUE}, error : BOOLEAN,
   text : {[content |-> c, output |-> o, stdout |-> s, stderr |-> e] :
             c \in {"absent", "long"}, o \in {"wide", "trace"},
             s \in {"tall", "long"}, e \in {"absent", "long"}}]
  \cup [json : BOOLEAN, error : {FALSE}, text : {[f \in Fields |-> "short"]}]
=============================================================================
