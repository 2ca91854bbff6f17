-------------------------- MODULE ToolResultsProofs --------------------------
(***************************************************************************)
(* What holds of results for any configurations and payloads and any host. *)
(* Both properties are about the result at hand and need to know that the  *)
(* other paths take nothing: what is returned without rescue is part of    *)
(* what may be compacted, and a rescue is not returned twice.              *)
(***************************************************************************)
EXTENDS ToolResults, TLAPS

Calls == [tool : Tools, payload : Payloads, session : BOOLEAN, store : BOOLEAN, put : BOOLEAN]
Results == [kind : {"unchanged", "pending", "rescued", "compacted", "annotated"},
            omitted : SUBSET Fields, rescued : Fields \cup {"none"}]

\* The result at hand is one, and what is returned has the fields of a result.
Shape ==
  /\ call \in Calls \cup {NoCall} /\ out \in Results
  /\ config \in Configs /\ stage \in 1 .. Len(Surfaces) + 1 /\ failed \in BOOLEAN
  /\ registered \subseteq {Surfaces[i] : i \in DOMAIN Surfaces}
  /\ call = NoCall => out.kind = "unchanged"

TInv == Shape /\ HandleUsable /\ ErrorsExact

LEMMA SurfacesLen == Len(Surfaces) = 6 /\ DOMAIN Surfaces = 1 .. 6
  BY DEF Surfaces

\* A result at hand is not the absence of one.
LEMMA CallsAreNone == \A c \in Calls : c # NoCall
<1> SUFFICES ASSUME NEW c \in Calls PROVE c.tool # NoCall.tool
  OBVIOUS
<1>1. c.tool \in Tools
  BY DEF Calls
<1> QED
  BY <1>1 DEF Tools, NoCall

LEMMA ShapeType == Shape => TypeOK
<1> SUFFICES ASSUME Shape PROVE TypeOK
  OBVIOUS
<1>1. ASSUME call # NoCall
      PROVE  /\ call.tool \in Tools /\ call.payload \in Payloads
             /\ {call.session, call.store, call.put} \subseteq BOOLEAN
  <2>1. call \in Calls
    BY <1>1 DEF Shape
  <2>2. call.session \in BOOLEAN /\ call.store \in BOOLEAN /\ call.put \in BOOLEAN
    BY <2>1 DEF Calls
  <2> QED
    BY <2>1, <2>2 DEF Calls
<1>2. /\ out.kind \in {"unchanged", "pending", "rescued", "compacted", "annotated"}
      /\ out.omitted \subseteq Fields /\ out.rescued \in Fields \cup {"none"}
  BY DEF Shape, Results
<1> QED
  BY <1>1, <1>2 DEF Shape, TypeOK

LEMMA InitTInv == Init => TInv
<1> SUFFICES ASSUME Init PROVE TInv
  OBVIOUS
<1>1. out = [kind |-> "unchanged", omitted |-> {}, rescued |-> "none"]
  BY DEF Init, Unchanged
<1>2. out \in Results
  BY <1>1 DEF Results
<1>3. failed \in BOOLEAN
  BY DEF Init
<1>4. config \in Configs /\ stage \in 1 .. Len(Surfaces) + 1 /\ registered = {} /\ call = NoCall
  BY SurfacesLen DEF Init
<1>5. Shape
  BY <1>1, <1>2, <1>3, <1>4 DEF Shape
<1> QED
  BY <1>1, <1>4, <1>5 DEF TInv, HandleUsable, ErrorsExact

\* Registering accepts surfaces and changes no result.
LEMMA RegisterTInv ==
  ASSUME TInv, HostAccepts \/ HostRefuses \/ HostRaises PROVE TInv'
<1>1. /\ call' = call /\ out' = out /\ config' = config /\ registered \subseteq registered'
      /\ stage' \in 1 .. Len(Surfaces) + 1 /\ failed' \in BOOLEAN
      /\ registered' \subseteq {Surfaces[i] : i \in DOMAIN Surfaces}
  <2>1. /\ stage \in 1 .. 7 /\ failed \in BOOLEAN
        /\ registered \subseteq {Surfaces[i] : i \in DOMAIN Surfaces}
    BY SurfacesLen DEF TInv, Shape
  <2>2. CASE HostAccepts
    <3>1. /\ call' = call /\ out' = out /\ config' = config /\ failed' = failed
          /\ registered' = registered \cup {Surfaces[stage]} /\ stage' = stage + 1
          /\ stage <= 6
      BY <2>2, SurfacesLen DEF HostAccepts, Accept, Registering, Surface
    <3>2. stage \in DOMAIN Surfaces
      BY <2>1, <3>1, SurfacesLen
    <3> QED
      BY <2>1, <3>1, <3>2, SurfacesLen
  <2>3. CASE HostRefuses
    <3>1. /\ call' = call /\ out' = out /\ config' = config /\ failed' = failed
          /\ registered' = registered /\ stage' = stage + 1 /\ stage <= 6
      BY <2>3, SurfacesLen DEF HostRefuses, Registering
    <3> QED
      BY <2>1, <3>1, SurfacesLen
  <2>4. CASE HostRaises
    <3>1. /\ call' = call /\ out' = out /\ config' = config /\ failed' = TRUE
          /\ registered' = registered /\ stage' = stage
      BY <2>4 DEF HostRaises
    <3>2. failed' \in BOOLEAN
      BY <3>1
    <3> QED
      BY <2>1, <3>1, <3>2, SurfacesLen
  <2> QED
    BY <2>2, <2>3, <2>4
<1> QED
  BY <1>1 DEF TInv, Shape, HandleUsable, ErrorsExact

LEMMA ReceiveTInv ==
  ASSUME TInv, NEW t \in Tools, NEW p \in Payloads, NEW session \in BOOLEAN,
         NEW store \in BOOLEAN, Receive(t, p, session, store)
  PROVE  TInv'
<1>1. call' \in Calls /\ call' # NoCall
  BY CallsAreNone DEF Receive, Calls
<1>2. out' = [kind |-> "pending", omitted |-> {}, rescued |-> "none"]
  BY DEF Receive, Unchanged
<1>3. out' \in Results
  BY <1>2 DEF Results
<1> QED
  BY <1>1, <1>2, <1>3 DEF Receive, TInv, Shape, HandleUsable, ErrorsExact

\* An excerpt is returned of the first long text, under all the conditions of rescue.
LEMMA RescueTInv == ASSUME TInv, Rescue PROVE TInv'
<1> DEFINE first == CHOOSE i \in Rescuable(call.payload) : \A j \in Rescuable(call.payload) : i <= j
<1>1. /\ call \in Calls /\ call' = call
      /\ out' = [kind |-> "rescued", omitted |-> {}, rescued |-> RescueOrder[first]]
      /\ UNCHANGED <<config, stage, failed, registered>>
  BY DEF Rescue, Return, Pending, TInv, Shape
<1>2. first \in Rescuable(call.payload)
  <2>1. Rescuable(call.payload) \subseteq 1 .. 3 /\ Rescuable(call.payload) # {}
    <3>1. DOMAIN RescueOrder = 1 .. 3
      BY DEF RescueOrder
    <3>2. Rescuable(call.payload) \subseteq 1 .. 3
      BY <3>1 DEF Rescuable
    <3>3. Rescuable(call.payload) # {}
      BY DEF Rescue, RescueTried
    <3> QED
      BY <3>2, <3>3
  <2>2. \E i \in Rescuable(call.payload) : \A j \in Rescuable(call.payload) : i <= j
    BY <2>1
  <2> QED
    BY <2>2
<1> HIDE DEF first
<1>3. Oversized(call.payload.text[RescueOrder[first]]) /\ RescueOrder[first] \in Fields
  BY <1>2 DEF Rescuable, RescueOrder, Fields
<1>4. /\ "rescuer_fetch" \in registered \/ config.fetch = "yes"
      /\ call.session /\ call.store /\ ~call.put /\ ~call.payload.error
      /\ call.tool # "read_file"
  BY DEF Rescue, RescueTried, CanRescue, FetchAvailable, Fetch
<1>5. out' \in Results
  BY <1>1, <1>3 DEF Results
<1>6. call # NoCall
  BY <1>1, CallsAreNone
<1> QED
  BY <1>1, <1>3, <1>4, <1>5, <1>6 DEF TInv, Shape, HandleUsable, ErrorsExact

LEMMA RescueFailsTInv == ASSUME TInv, RescueFails PROVE TInv'
<1>1. call \in Calls /\ out.kind = "pending"
  BY DEF RescueFails, Pending, TInv, Shape
<1>2. /\ call' \in Calls /\ call'.tool = call.tool /\ call'.payload = call.payload
      /\ UNCHANGED <<config, stage, failed, registered, out>>
  BY <1>1 DEF RescueFails, Calls
<1>3. call' # NoCall /\ call # NoCall
  BY <1>1, <1>2, CallsAreNone
<1> QED
  BY <1>1, <1>2, <1>3 DEF TInv, Shape, HandleUsable, ErrorsExact

\* What is cut of an error is no diagnostic.
LEMMA CompactTInv == ASSUME TInv, Compact PROVE TInv'
<1> DEFINE cut == {f \in Compactable : Cut(call.payload.text[f])}
<1>1. /\ call \in Calls /\ call' = call
      /\ out' = [kind |-> "compacted", omitted |-> cut, rescued |-> "none"]
      /\ UNCHANGED <<config, stage, failed, registered>>
      /\ call.tool # "read_file"
  BY DEF Compact, Terminal, Return, Pending, TInv, Shape
<1>2. /\ cut \subseteq Fields
      /\ \A f \in cut : ~Diagnostic(call.payload, f)
  BY DEF Compactable, TextFields, Fields
<1> HIDE DEF cut
<1>3. out' \in Results
  BY <1>1, <1>2 DEF Results
<1>4. call.payload.error =>
        /\ "stderr" \notin cut
        /\ call.payload.text["output"] = "trace" => "output" \notin cut
  BY <1>2 DEF Diagnostic
<1>5. call # NoCall
  BY <1>1, CallsAreNone
<1> QED
  BY <1>1, <1>3, <1>4, <1>5 DEF TInv, Shape, HandleUsable, ErrorsExact

\* Measures are added, or nothing is changed.
LEMMA RestTInv == ASSUME TInv, Annotate \/ Leave PROVE TInv'
<1>1. /\ call \in Calls /\ call' = call
      /\ UNCHANGED <<config, stage, failed, registered>>
  BY DEF Annotate, Leave, Return, Pending, TInv, Shape
<1>2. \/ out' = [kind |-> "unchanged", omitted |-> {}, rescued |-> "none"]
      \/ /\ out' = [kind |-> "annotated", omitted |-> {}, rescued |-> "none"]
         /\ call.tool # "read_file"
  BY DEF Annotate, Leave, Return, Unchanged, Terminal
<1>3. out' \in Results
  BY <1>2 DEF Results
<1>4. call # NoCall
  BY <1>1, CallsAreNone
<1> QED
  BY <1>1, <1>2, <1>3, <1>4 DEF TInv, Shape, HandleUsable, ErrorsExact

LEMMA DeliverTInv == ASSUME TInv, Deliver PROVE TInv'
<1>1. out' = [kind |-> "unchanged", omitted |-> {}, rescued |-> "none"] /\ call' = NoCall
  BY DEF Deliver, Unchanged
<1>2. out' \in Results
  BY <1>1 DEF Results
<1> QED
  BY <1>1, <1>2 DEF Deliver, TInv, Shape, HandleUsable, ErrorsExact

LEMMA NextTInv == TInv /\ [Next]_vars => TInv'
<1> SUFFICES ASSUME TInv, [Next]_vars PROVE TInv'
  OBVIOUS
<1>1. CASE UNCHANGED vars
  BY <1>1 DEF vars, TInv, Shape, HandleUsable, ErrorsExact
<1>2. CASE Next
  BY <1>2, RegisterTInv, ReceiveTInv, RescueTInv, RescueFailsTInv, CompactTInv, RestTInv,
     DeliverTInv DEF Next
<1> QED
  BY <1>1, <1>2

-----------------------------------------------------------------------------
(* The theorems *)

THEOREM SpecTInv == Spec => []TInv
  BY InitTInv, NextTInv, PTL DEF Spec

\* The variables of the plugin keep to their types.
THEOREM ResultTypes == Spec => []TypeOK
<1>1. TInv => TypeOK
  BY ShapeType DEF TInv
<1> QED
  BY SpecTInv, <1>1, PTL

\* Whatever the host accepts, refuses or raises, in any configuration: an excerpt takes
\* the place of a text only when the model can fetch what is gone.
THEOREM ExcerptsAreUsable == Spec => []HandleUsable
<1>1. TInv => HandleUsable
  BY DEF TInv
<1> QED
  BY SpecTInv, <1>1, PTL

\* For any result in any configuration: what diagnoses an error stays, and read_file
\* stays altogether.
THEOREM ErrorsStay == Spec => []ErrorsExact
<1>1. TInv => ErrorsExact
  BY DEF TInv
<1> QED
  BY SpecTInv, <1>1, PTL
=============================================================================
