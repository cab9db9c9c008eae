-------------------------- MODULE PidMonitorProofs --------------------------
(***************************************************************************)
(* Proofs about PidMonitor, for every set of pids and clients, every list  *)
(* and every capacity: its types, and that it implements RemovalNotifier.  *)
(***************************************************************************)
EXTENDS PidMonitor, SequenceTheorems, TLAPS

-----------------------------------------------------------------------------
\* A send keeps the channel within its type and its capacity.
LEMMA SendKeepsType ==
    ASSUME TypeOK, NEW list \in SUBSET PidEvent, SendOnEventCh(list)
    PROVE  eventCh' \in Seq(SUBSET PidEvent) /\ Len(eventCh') <= EventChCap
<1>1. Len(eventCh) \in Nat
  BY LenProperties DEF TypeOK
<1>2. eventCh' \in Seq(SUBSET PidEvent) /\ Len(eventCh') = Len(eventCh) + 1
  BY AppendProperties DEF TypeOK, SendOnEventCh
<1> QED BY <1>1, <1>2, PidMonitorAssumption DEF SendOnEventCh

\* A receive keeps the channel within its type and its capacity.
LEMMA ReceiveKeepsType ==
    ASSUME TypeOK, eventCh # <<>>, eventCh' = Tail(eventCh)
    PROVE  eventCh' \in Seq(SUBSET PidEvent) /\ Len(eventCh') <= EventChCap
<1>1. eventCh' \in Seq(SUBSET PidEvent) /\ Len(eventCh') = Len(eventCh) - 1
  BY HeadTailProperties DEF TypeOK
<1>2. Len(eventCh) \in Nat
  BY LenProperties DEF TypeOK
<1> QED BY <1>1, <1>2, PidMonitorAssumption DEF TypeOK

\* A list that AddEvent or RemoveEvent is given is a sequence of entries.
LEMMA ListsAreSeqs == Lists \subseteq Seq(Entries)
<1> SUFFICES ASSUME NEW n \in 0..MaxList, NEW list \in [1..n -> Entries]
             PROVE  list \in Seq(Entries)
  BY DEF Lists
<1>1. n \in Nat
  BY PidMonitorAssumption
<1> QED BY <1>1

\* The next event of a call, when it is a known one, names a pid.
LEMMA NextEntry ==
    ASSUME TypeOK, NEW c \in Clients, args[c] # <<>>, Head(args[c]) # BadEvent
    PROVE  Head(args[c]) \in Pids /\ Tail(args[c]) \in Seq(Entries)
<1>1. args[c] \in Seq(Entries)
  BY DEF TypeOK
<1>2. Head(args[c]) \in Entries /\ Tail(args[c]) \in Seq(Entries)
  BY <1>1, HeadTailProperties
<1> QED BY <1>2 DEF Entries

\* A step of the scan, for the pid p.
LEMMA StatStep ==
    ASSUME TypeOK, Stat
    PROVE  \E p \in todo : \E events \in SUBSET PidEvent :
             /\ PidsOf(events) \subseteq {p}
             /\ todo' = todo \ {p}
             /\ found' = found \union events
<1>1. PICK p \in todo : \E events \in StatResults(p) :
        todo' = todo \ {p} /\ found' = found \union events
  BY DEF Stat
<1>2. PICK events \in StatResults(p) : found' = found \union events
  BY <1>1
<1>3. p \in Pids
  BY DEF TypeOK
<1>4. events = {} \/ \E err \in BOOLEAN : events = {[pid |-> p, err |-> err]}
  BY DEF StatResults
<1>5. CASE events = {}
  BY <1>1, <1>2, <1>5 DEF PidsOf
<1>6. ASSUME NEW err \in BOOLEAN, events = {[pid |-> p, err |-> err]}
      PROVE  events \in SUBSET PidEvent /\ PidsOf(events) \subseteq {p}
  BY <1>3, <1>6 DEF PidEvent, PidsOf
<1> QED BY <1>1, <1>2, <1>4, <1>5, <1>6

LEMMA InitTypeOK == ASSUME Init PROVE TypeOK
<1>1. eventCh \in Seq(SUBSET PidEvent) /\ Len(eventCh) <= EventChCap
  BY PidMonitorAssumption, EmptySeq DEF Init
<1>2. args \in [Clients -> Seq(Entries)]
  BY EmptySeq DEF Init
<1> QED BY <1>1, <1>2 DEF Init, TypeOK

\* Every step preserves the types.
LEMMA TypeStep == ASSUME TypeOK, [Next]_vars PROVE TypeOK'
<1> USE DEF TypeOK, monitor, calls, Goto, Enter, Leave
<1>1. ASSUME NEW c \in Clients, Client(c) PROVE TypeOK'
  <2>1. CASE CallWithList(c)
    <3>1. args' \in [Clients -> Seq(Entries)]
      BY <2>1, ListsAreSeqs DEF CallWithList
    <3> QED BY <2>1, <3>1 DEF CallWithList
  <2>2. CASE AddOne(c)
    BY <2>2, NextEntry DEF AddOne
  <2>3. CASE RemoveOne(c)
    BY <2>3, NextEntry DEF RemoveOne
  <2>4. CASE ReturnFromList(c)
    BY <2>4, EmptySeq DEF ReturnFromList
  <2>5. CASE WaitEvent(c)
    BY <2>5 DEF WaitEvent
  <2>6. CASE ReturnFromWait(c)
    BY <2>6, ReceiveKeepsType DEF ReturnFromWait
  <2>7. CASE Close(c)
    BY <2>7 DEF Close
  <2> QED BY <1>1, <2>1, <2>2, <2>3, <2>4, <2>5, <2>6, <2>7 DEF Client
<1>2. CASE Monitor
  <2>1. CASE TakeStop
    BY <2>1 DEF TakeStop
  <2>2. CASE SendStop
    BY <2>2, SendKeepsType DEF SendStop
  <2>3. CASE BeginScan
    BY <2>3 DEF BeginScan
  <2>4. CASE Stat
    <3>1. PICK p \in todo, events \in SUBSET PidEvent :
            todo' = todo \ {p} /\ found' = found \union events
      BY <2>4, StatStep
    <3> QED BY <2>4, <3>1 DEF Stat
  <2>5. CASE EndScan
    BY <2>5 DEF EndScan
  <2>6. CASE SendEvents
    BY <2>6, SendKeepsType DEF SendEvents
  <2>7. CASE Retire
    BY <2>7 DEF Retire
  <2> QED BY <1>2, <2>1, <2>2, <2>3, <2>4, <2>5, <2>6, <2>7 DEF Monitor
<1>3. ASSUME NEW p \in Pids, ExitOrSpawn(p) PROVE TypeOK'
  BY <1>3 DEF ExitOrSpawn
<1>4. CASE UNCHANGED vars
  BY <1>4 DEF vars
<1> QED BY <1>1, <1>2, <1>3, <1>4 DEF Next

(***************************************************************************)
(* Every variable keeps its type, and EventCh never holds more lists than  *)
(* its capacity, whatever the clients call.                                *)
(***************************************************************************)
THEOREM TypeCorrect == Spec => []TypeOK
BY InitTypeOK, TypeStep, PTL DEF Spec
-----------------------------------------------------------------------------
\* A scan works on the pids of the table, which the lock freezes; outside a
\* turn the list is gone, and an empty list is never sent.
ScanInv ==
    /\ locked <=> pc = "scan"
    /\ pc = "scan" => todo \subseteq eventTable /\ PidsOf(found) \subseteq eventTable
    /\ pc \notin {"scan", "send", "retire"} => found = {}
    /\ pc = "send" => found # {}

Inv == TypeOK /\ ScanInv

LEMMA ScanStep == ASSUME Inv, [Next]_vars PROVE ScanInv'
<1> USE DEF Inv, TypeOK, ScanInv, monitor, calls, Goto
<1>1. ASSUME NEW c \in Clients, Client(c) PROVE ScanInv'
  BY <1>1 DEF Client, CallWithList, AddOne, RemoveOne, ReturnFromList, WaitEvent,
              ReturnFromWait, Close
<1>2. CASE Monitor
  <2>1. CASE TakeStop
    BY <2>1 DEF TakeStop
  <2>2. CASE SendStop
    BY <2>2 DEF SendStop
  <2>3. CASE BeginScan
    <3>1. PidsOf(found) = {}
      BY <2>3 DEF BeginScan, PidsOf
    <3> QED BY <2>3, <3>1 DEF BeginScan
  <2>4. CASE Stat
    <3>1. PICK p \in todo, events \in SUBSET PidEvent :
            /\ PidsOf(events) \subseteq {p}
            /\ todo' = todo \ {p}
            /\ found' = found \union events
      BY <2>4, StatStep
    <3>2. PidsOf(found \union events) = PidsOf(found) \union PidsOf(events)
      BY DEF PidsOf
    <3>3. PidsOf(found') = PidsOf(found) \union PidsOf(events)
      BY <3>1, <3>2
    <3> QED BY <2>4, <3>1, <3>3 DEF Stat
  <2>5. CASE EndScan
    BY <2>5 DEF EndScan
  <2>6. CASE SendEvents
    BY <2>6 DEF SendEvents
  <2>7. CASE Retire
    BY <2>7 DEF Retire
  <2> QED BY <1>2, <2>1, <2>2, <2>3, <2>4, <2>5, <2>6, <2>7 DEF Monitor
<1>3. ASSUME NEW p \in Pids, ExitOrSpawn(p) PROVE ScanInv'
  BY <1>3 DEF ExitOrSpawn
<1>4. CASE UNCHANGED vars
  BY <1>4 DEF vars
<1> QED BY <1>1, <1>2, <1>3, <1>4 DEF Next

\* The invariant of the pid monitor: the goroutine has the lock during its scan
\* and only then, and what it scans and finds is in the event table.
THEOREM Invariant == Spec => []Inv
<1>1. Init => Inv
  BY InitTypeOK DEF Init, Inv, ScanInv
<1>2. Inv /\ [Next]_vars => Inv'
  BY TypeStep, ScanStep DEF Inv
<1> QED BY <1>1, <1>2, PTL DEF Spec

-----------------------------------------------------------------------------
(* The refinement. *)

LEMMA NotifierStep ==
    ASSUME Inv, [Next]_vars PROVE [Notifier!Next]_(Notifier!vars)
<1> USE DEF Inv, TypeOK, monitor, calls, Goto, Batch
<1>1. ASSUME NEW c \in Clients, Client(c)
      PROVE  (\E p \in Pids : Notifier!Add(p) \/ Notifier!Remove(p))
               \/ UNCHANGED Notifier!vars
  <2>1. CASE AddOne(c)
    <3>1. Head(args[c]) \in Pids
      BY <2>1, NextEntry DEF AddOne
    <3>2. Notifier!Add(Head(args[c]))
      BY <2>1, <3>1 DEF AddOne, Notifier!Add
    <3> QED BY <3>1, <3>2
  <2>2. CASE RemoveOne(c)
    <3>1. Head(args[c]) \in Pids
      BY <2>2, NextEntry DEF RemoveOne
    <3>2. Notifier!Remove(Head(args[c]))
      BY <2>2, <3>1 DEF RemoveOne, Notifier!Remove
    <3> QED BY <3>1, <3>2
  <2>3. CASE CallWithList(c) \/ ReturnFromList(c) \/ WaitEvent(c)
               \/ ReturnFromWait(c) \/ Close(c)
    BY <2>3 DEF CallWithList, ReturnFromList, WaitEvent, ReturnFromWait, Close,
                Notifier!vars
  <2> QED BY <1>1, <2>1, <2>2, <2>3 DEF Client
<1>2. ASSUME Monitor
      PROVE  Notifier!Detect \/ Notifier!Publish \/ Notifier!Retire
               \/ UNCHANGED Notifier!vars
  <2>1. CASE TakeStop
    BY <2>1 DEF TakeStop, Notifier!vars
  <2>2. CASE SendStop
    BY <2>2 DEF SendStop, Notifier!vars
  <2>3. CASE BeginScan
    BY <2>3 DEF BeginScan, Notifier!vars
  <2>4. CASE Stat
    BY <2>4 DEF Stat, Notifier!vars
  <2>5. CASE EndScan
    <3>1. CASE found = {}
      BY <2>5, <3>1 DEF EndScan, PidsOf, Notifier!vars
    <3>2. CASE found # {}
      <4>1. PidsOf(found) # {} /\ PidsOf(found) \subseteq eventTable
        BY <2>5, <3>2 DEF EndScan, PidsOf, ScanInv
      <4>2. Notifier!Detect
        BY <2>5, <3>2, <4>1 DEF EndScan, Notifier!Detect
      <4> QED BY <4>2
    <3> QED BY <3>1, <3>2
  <2>6. CASE SendEvents
    <3>1. found # {} /\ PidsOf(found) # {}
      BY <2>6 DEF SendEvents, ScanInv, PidsOf
    <3>2. Notifier!Publish
      BY <2>6, <3>1 DEF SendEvents, Notifier!Publish
    <3> QED BY <3>2
  <2>7. CASE Retire
    <3>1. CASE found = {}
      BY <2>7, <3>1 DEF Retire, PidsOf, Notifier!vars
    <3>2. CASE found # {}
      BY <2>7, <3>2 DEF Retire, Notifier!Retire
    <3> QED BY <3>1, <3>2
  <2> QED BY <1>2, <2>1, <2>2, <2>3, <2>4, <2>5, <2>6, <2>7 DEF Monitor
<1>3. ASSUME NEW p \in Pids, ExitOrSpawn(p) PROVE UNCHANGED Notifier!vars
  BY <1>3 DEF ExitOrSpawn, Notifier!vars
<1>4. CASE UNCHANGED vars
  BY <1>4 DEF vars, Notifier!vars
<1> QED BY <1>1, <1>2, <1>3, <1>4 DEF Next, Notifier!Next

(***************************************************************************)
(* The pid monitor implements the removal notifier: its clients see        *)
(* batches that are detected, published once and retired, of pids they     *)
(* registered.                                                             *)
(***************************************************************************)
THEOREM Refinement == Spec => NotifierSpec
<1>1. Init => Notifier!Init
  BY DEF Init, Notifier!Init, Batch
<1> QED BY <1>1, NotifierStep, Invariant, PTL DEF Spec, NotifierSpec, Notifier!Spec

\* The abstract notifier is inductive: an item of a batch is watched by nobody.
NotifierInv == Notifier!TypeOK /\ Notifier!NothingUnasked

LEMMA NotifierInvStep == ASSUME NotifierInv, [Notifier!Next]_(Notifier!vars) PROVE NotifierInv'
<1> USE DEF NotifierInv, Notifier!TypeOK, Notifier!Requests, Notifier!NothingUnasked
<1>1. ASSUME NEW p \in Pids, Notifier!Add(p) PROVE NotifierInv'
  BY <1>1 DEF Notifier!Add
<1>2. ASSUME NEW p \in Pids, Notifier!Remove(p) PROVE NotifierInv'
  BY <1>2 DEF Notifier!Remove
<1>3. CASE Notifier!Detect
  BY <1>3 DEF Notifier!Detect
<1>4. CASE Notifier!Publish
  BY <1>4 DEF Notifier!Publish
<1>5. CASE Notifier!Retire
  BY <1>5 DEF Notifier!Retire
<1>6. CASE UNCHANGED Notifier!vars
  BY <1>6 DEF Notifier!vars
<1> QED BY <1>1, <1>2, <1>3, <1>4, <1>5, <1>6 DEF Notifier!Next

(***************************************************************************)
(* The abstract notifier keeps its promise for pids too: between two exit  *)
(* events of a pid a client has registered it.                             *)
(***************************************************************************)
THEOREM NotifierPromise == NotifierSpec => []Notifier!NothingUnasked
<1>1. Notifier!Init => NotifierInv
  BY DEF Notifier!Init, NotifierInv, Notifier!TypeOK, Notifier!Requests, Notifier!NothingUnasked
<1>2. NotifierInv /\ [Notifier!Next]_(Notifier!vars) => NotifierInv'
  BY NotifierInvStep
<1>3. NotifierInv => Notifier!NothingUnasked
  BY DEF NotifierInv
<1> QED BY <1>1, <1>2, <1>3, PTL DEF NotifierSpec, Notifier!Spec

(***************************************************************************)
(* The list about to be sent names only pids registered since their last   *)
(* event: what the notifier promises, seen through the mapping.            *)
(***************************************************************************)
THEOREM NoUnaskedEventAlways == Spec => []NoUnaskedEvent
<1>1. Inv /\ Notifier!NothingUnasked => NoUnaskedEvent
  BY DEF Inv, TypeOK, NoUnaskedEvent, Notifier!NothingUnasked, Batch, PidsOf, PidEvent
<1> QED BY <1>1, Invariant, Refinement, NotifierPromise, PTL
=============================================================================
