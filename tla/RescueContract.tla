--------------------------- MODULE RescueContract ---------------------------
(***************************************************************************)
(* What the rescue store promises the sessions that use it, with no        *)
(* database, file, lock or clock in sight.                                 *)
(*                                                                         *)
(* A handle is bound to one content for ever.  A session holds a handle    *)
(* ("live") once it has stored that content itself, and may lose it        *)
(* ("swept"), after which the loss is forgotten ("none").  A call that was *)
(* granted access to a handle its session held is answered with the        *)
(* content the handle is bound to, or with no content at all.              *)
(* RescueStore implements this module.                                     *)
(***************************************************************************)
EXTENDS Naturals

CONSTANTS
  Procs,       \* processes (or threads) calling the store
  Sessions,    \* session ids, after safe_sid
  Contents,    \* tool results worth rescuing
  Handles,     \* 12-hex handles
  HandleOf,    \* the handle of a content; contents may collide on it
  Corrupted,   \* values a damaged file may be read as ({} when none is damaged)
  None         \* no content, no grant, no answer

VARIABLES
  bound,       \* bound[h]: the content of handle h, None while unused
  status,      \* status[s][h]: what session s has of handle h
  grant,       \* grant[p]: the session and handle p was granted, or None
  answer       \* answer[p]: the content p's call returns, or None

cvars == <<bound, status, grant, answer>>

Grants  == [s : Sessions, h : Handles]
Answers == [s : Sessions, h : Handles, c : Contents \cup Corrupted]

CInit ==
  /\ bound  = [h \in Handles |-> None]
  /\ status = [s \in Sessions |-> [h \in Handles |-> "none"]]
  /\ grant  = [p \in Procs |-> None]
  /\ answer = [p \in Procs |-> None]

\* Session s stores c.  A handle already bound to another content refuses it.
Issue(s, c) ==
  /\ bound[HandleOf[c]] \in {None, c}
  /\ bound'  = [bound EXCEPT ![HandleOf[c]] = c]
  /\ status' = [status EXCEPT ![s][HandleOf[c]] = "live"]
  /\ UNCHANGED <<grant, answer>>

\* Maintenance: a session loses a handle before the loss is forgotten.
Retire ==
  /\ status' \in [Sessions -> [Handles -> {"none", "live", "swept"}]]
  /\ \A s \in Sessions, h \in Handles :
       \/ status'[s][h] = status[s][h]
       \/ status[s][h] = "live"  /\ status'[s][h] = "swept"
       \/ status[s][h] = "swept" /\ status'[s][h] = "none"
  /\ UNCHANGED <<bound, grant, answer>>

\* A call on behalf of s is let through to h, which s holds at this moment.
Grant(p, s, h) ==
  /\ grant[p] = None /\ answer[p] = None
  /\ status[s][h] = "live"
  /\ grant' = [grant EXCEPT ![p] = [s |-> s, h |-> h]]
  /\ UNCHANGED <<bound, status, answer>>

\* A granted call gets the content, even when s has lost h in the meantime.
Serve(p) ==
  /\ grant[p] # None
  /\ \E c \in {bound[grant[p].h]} \cup Corrupted :
       answer' = [answer EXCEPT ![p] =
                    [s |-> grant[p].s, h |-> grant[p].h, c |-> c]]
  /\ grant' = [grant EXCEPT ![p] = None]
  /\ UNCHANGED <<bound, status>>

\* A granted call ends with no content: swept, missing, failed or killed.
Withhold(p) ==
  /\ grant[p] # None
  /\ grant' = [grant EXCEPT ![p] = None]
  /\ UNCHANGED <<bound, status, answer>>

\* The caller takes the answer.
Deliver(p) ==
  /\ answer[p] # None
  /\ answer' = [answer EXCEPT ![p] = None]
  /\ UNCHANGED <<bound, status, grant>>

CNext ==
  \/ \E s \in Sessions, c \in Contents : Issue(s, c)
  \/ Retire
  \/ \E p \in Procs, s \in Sessions, h \in Handles : Grant(p, s, h)
  \/ \E p \in Procs : Serve(p) \/ Withhold(p) \/ Deliver(p)

CSpec == CInit /\ [][CNext]_cvars
=============================================================================
