-------------------------- MODULE MCRequestPruning --------------------------
(* Values for the constants of RequestPruning. *)
EXTENDS RequestPruning

Plain == [role |-> "tool", name |-> "terminal", text |-> TRUE, size |-> 3001, head |-> 1500,
          tail |-> 1500, error |-> FALSE, flat |-> FALSE, reads |-> FALSE, marked |-> FALSE,
          note |-> None, lost |-> 0]

\* Terminal results below the limit, past it and far past it, with line ends in the
\* windows or none; an error that shows, one that does not until it is cut; a file,
\* a message that is no result, one that is no object.
MCMessages ==
  {Plain, [Plain EXCEPT !.size = 2950], [Plain EXCEPT !.size = 100000, !.head = 1499],
   [Plain EXCEPT !.size = 5000, !.head = 751, !.tail = 750],
   [Plain EXCEPT !.error = TRUE, !.flat = TRUE],
   [Plain EXCEPT !.error = TRUE, !.reads = TRUE],
   [Plain EXCEPT !.marked = TRUE],
   [Plain EXCEPT !.name = "read_file"], [Plain EXCEPT !.role = "other"],
   [Plain EXCEPT !.role = "malformed"]}

\* Under pressure, not under it, without figures; and with compression off.
MCHosts ==
  {[compression |-> TRUE, pressure |-> p, threshold |-> 100, rest |-> 500, listed |-> TRUE] :
     p \in {-1, 79, 80}}
  \cup {[compression |-> FALSE, pressure |-> 80, threshold |-> 100, rest |-> 500, listed |-> TRUE]}
=============================================================================
