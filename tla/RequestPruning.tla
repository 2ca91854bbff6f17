--------------------------- MODULE RequestPruning ---------------------------
(***************************************************************************)
(* The llm_request middleware (request_pruning.py): under pressure, old    *)
(* results of terminal tools are cut in the middle of the request that is  *)
(* about to be sent.                                                       *)
(*                                                                         *)
(* The transcript of the host grows and is never rewritten; every request  *)
(* is made from it anew.  A request that has been through the middleware   *)
(* may go through it again, as when it is sent again.                      *)
(***************************************************************************)
EXTENDS Integers, Sequences, FiniteSets, SequencesExt

CONSTANTS
  Messages,     \* the messages a host may add
  Hosts,        \* what a host may pass along with a request
  MaxMessages,  \* bound on the transcript
  MaxPasses,    \* bound on the passes of one request
  None          \* no note

HeadChars   == 1500
TailChars   == 1500
TailResults == 2      \* PROTECTED_TAIL_TOOL_RESULTS
Fallback    == 4000   \* FALLBACK_MIN_REQUEST_CHARS

PrunableTools == {"terminal", "execute_code"}

\* A message: whom it is from and what its content is like, as far as the middleware
\* can tell.  head and tail are what _cut_head and _cut_tail leave of the content:
\* their window or, if a line ends in its outer half, what is outside of that line
\* end.  They are the same when a cut content is cut again: only one that is still
\* too long is, so the far line end of its note is outside both windows and the near
\* one is where the window was cut before.
Message == [
  role : {"tool", "other", "malformed"},   \* malformed: no object at all
  name : {"terminal", "execute_code", "read_file", ""},   \* "": no string
  text : BOOLEAN,     \* the content is a string,
  size : Nat,         \* of so many characters
  head : HeadChars \div 2 + 1 .. HeadChars,
  tail : TailChars - TailChars \div 2 .. TailChars,
  error  : BOOLEAN,   \* of a call that failed; its stderr does not survive a cut
  flat   : BOOLEAN,   \* a JSON object with no object in it,
  reads  : BOOLEAN,   \* or one once it is cut, which a string in it may survive
  marked : BOOLEAN,   \* has a diagnostic marker or the marker of structured pruning
  note : Nat \cup {None},   \* what the omission note in it says
  lost : Nat]         \* characters of the original that are gone

\* pressure and threshold are -1 if they are no integers; rest is the size of the
\* request besides the contents.
Host == [compression : BOOLEAN, pressure : Int, threshold : Int, rest : Nat, listed : BOOLEAN]

ASSUME RequestAssumption ==
  /\ Messages \subseteq {m \in Message : m.note = None /\ m.lost = 0}
  /\ Hosts \subseteq Host
  /\ MaxMessages \in Nat /\ MaxPasses \in Nat \ {0}
  /\ None \notin Nat

VARIABLES
  transcript,  \* the messages of the host
  request,     \* the request about to be sent
  passes,      \* how often it has been through the middleware
  pressed,     \* the gate was open the last time
  cuts         \* how often a message in it was cut

vars == <<transcript, request, passes, pressed, cuts>>

Init ==
  /\ transcript = <<>> /\ request = <<>>
  /\ passes = 0 /\ pressed = FALSE /\ cuts = 0

-----------------------------------------------------------------------------
(* The cut *)

\* The decimal digits of n; texts are shorter than 10^9.
Digits(n) ==
  1 + Cardinality({p \in {10, 100, 1000, 10000, 100000, 1000000, 10000000, 100000000} : p <= n})

\* The note and its two line ends.
NoteSize(n) == 58 + Digits(n)

\* Mutant: a content is cut as soon as windows and note have no room in the limit.
LongWithNote(m) == m.size > HeadChars + TailChars - NoteSize(0)

TooLong(m) == m.size > HeadChars + TailChars

\* Mutant: the note of an earlier cut stays where it is.
NoteOnTop(m) ==
  LET old     == IF m.note = None THEN 0 ELSE NoteSize(m.note)
      omitted == m.size - m.head - m.tail - old
  IN  [m EXCEPT !.size = @ - omitted + NoteSize(omitted), !.note = omitted,
                !.lost = @ + omitted, !.flat = m.reads]

\* _compact_text: everything between head and tail goes; in a content that was cut
\* before that is the note, of which the original had nothing.
Compacted(m) ==
  LET omitted == m.size - m.head - m.tail
      old     == IF m.note = None THEN 0 ELSE NoteSize(m.note)
  IN  [m EXCEPT !.size = @ - omitted + NoteSize(omitted), !.note = omitted,
                !.lost = @ + omitted - old, !.flat = m.reads]

\* Mutant: only a marker is looked for.
MarkedOnly(m) == m.marked

\* _is_diagnostic_payload, and the marker of structured pruning.
Diagnostic(m) == (m.flat /\ m.error) \/ m.marked

ToolResults(ms) == {i \in DOMAIN ms : ms[i].role = "tool"}

\* Mutant: the last results of terminal tools.
TerminalTail(ms) ==
  {i \in DOMAIN ms : Cardinality({j \in ToolResults(ms) : j >= i /\ ms[j].name \in PrunableTools})
                       <= TailResults}

\* _protected_tail_tool_indexes: the last results, of whichever tool.
ProtectedTail(ms) ==
  {i \in ToolResults(ms) : Cardinality({j \in ToolResults(ms) : j >= i}) <= TailResults}

\* _is_eligible_tool_message
Eligible(ms, i) ==
  /\ i \in ToolResults(ms) \ ProtectedTail(ms)
  /\ ms[i].name \in PrunableTools /\ ms[i].text
  /\ ~Diagnostic(ms[i])

Prunable(ms) == {i \in DOMAIN ms : Eligible(ms, i) /\ TooLong(ms[i])}

\* _prune_messages: if one message is no object, the request stays as it is.
PruneMessages(ms) ==
  [i \in DOMAIN ms |->
     IF i \in Prunable(ms) /\ (\A j \in DOMAIN ms : ms[j].role # "malformed")
     THEN Compacted(ms[i]) ELSE ms[i]]

ContentSize(ms) == FoldLeft(LAMBDA n, m : n + m.size, 0, ms)

\* _should_prune_request: by the figures of the host or else by the size of the request.
ShouldPrune(ms, host) ==
  /\ host.compression /\ host.listed
  /\ IF host.pressure # -1 /\ host.threshold > 0
     THEN host.pressure >= (host.threshold * 8) \div 10
     ELSE ContentSize(ms) + host.rest >= Fallback

-----------------------------------------------------------------------------
(* The host *)

AddMessage(m) ==
  /\ Len(transcript) < MaxMessages
  /\ transcript' = Append(transcript, m)
  /\ UNCHANGED <<request, passes, pressed, cuts>>

\* prune_llm_request of the messages ms, that were cut n times.
Prune(ms, host, n) ==
  /\ pressed' = ShouldPrune(ms, host)
  /\ request' = IF pressed' THEN PruneMessages(ms) ELSE ms
  /\ cuts' = n + IF request' # ms THEN 1 ELSE 0
  /\ UNCHANGED transcript

\* A request is made ...
Send(host) == passes' = 1 /\ Prune(transcript, host, 0)

\* ... or sent again.
SendAgain(host) ==
  /\ passes \in 1 .. MaxPasses - 1
  /\ passes' = passes + 1
  /\ Prune(request, host, cuts)

Next ==
  \/ \E m \in Messages : AddMessage(m)
  \/ \E host \in Hosts : Send(host) \/ SendAgain(host)

Spec == Init /\ [][Next]_vars

-----------------------------------------------------------------------------
(* Properties *)

\* Every variable keeps to its type; a request has the first messages of the transcript.
TypeOK ==
  /\ transcript \in Seq(Messages) /\ Len(transcript) <= MaxMessages
  /\ request \in Seq(Message) /\ Len(request) <= Len(transcript)
  /\ passes \in 0 .. MaxPasses
  /\ pressed \in BOOLEAN /\ cuts \in 0 .. passes

\* However often a request has been through the middleware: what it may not touch is
\* in it as in the transcript.  That is the two latest results, everything that is
\* not of a terminal tool, and what can be told to be an error.
ExemptExact ==
  \A i \in DOMAIN request :
    request[i] # transcript[i] =>
      LET m == transcript[i] IN
      /\ m.role = "tool" /\ m.name \in PrunableTools /\ m.text
      /\ ~(m.flat /\ m.error) /\ ~m.marked
      /\ \E j, k \in i + 1 .. Len(request) :
           j < k /\ request[j].role = "tool" /\ request[k].role = "tool"

\* A content is cut once: going through the middleware again takes nothing more of it,
\* lets it grow to the windows and a note of two digits at most, and changes nothing
\* at all after the third cut.
CutsSettle ==
  /\ \A i \in DOMAIN request :
       LET m == transcript[i]  s == request[i] IN
       s # m => /\ s.lost = m.size - m.head - m.tail
                /\ s.size <= m.size \/ s.size <= HeadChars + TailChars + NoteSize(10)
  /\ cuts <= 3

\* From one request under pressure to the next nothing changes that has two results
\* after it: all before the latest two is what the provider has cached.
PrefixStable ==
  [][passes = 1 /\ pressed /\ passes' = 1 /\ pressed'
       /\ (\A i \in DOMAIN transcript : transcript[i].role # "malformed") =>
     \A i \in DOMAIN request :
       (\E j, k \in i + 1 .. Len(request) :
          j < k /\ request[j].role = "tool" /\ request[k].role = "tool")
         => request'[i] = request[i]]_vars

-----------------------------------------------------------------------------
(* What the documentation says *)

\* docs/behavior.md, Request-History Pruning: "Error results preserve `stderr`
\* exactly."  A failed result that transform_tool_result has compacted has an object
\* in it, so it is not flat and not seen to be an error.
ErrorsStayExact ==
  \A i \in DOMAIN request : transcript[i].error => request[i] = transcript[i]
=============================================================================
