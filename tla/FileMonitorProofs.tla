-------------------------- MODULE FileMonitorProofs --------------------------
(***************************************************************************)
(* Proofs about FileMonitor for every set of files, every buffer size and  *)
(* every set of goroutine identities: its types, the uniqueness of the     *)
(* monitor goroutine, and that no file is reported unasked.                *)
(***************************************************************************)
EXTENDS FileMonitor, SequenceTheorems, TLAPS

\* The goroutine that scans is the one that holds the lock.
LockInv == \A t \in Threads : mu = t <=> pc[t] = "scan"

\* A scan works on the files of the table, which the lock freezes; outside
\* checkFiles its list is gone, and an empty list is never sent.
ScanInv ==
    \A t \in Threads :
        /\ pc[t] = "scan" =>
              todo[t] \subseteq fileTable /\ FilesOf(found[t]) \subseteq fileTable
        /\ pc[t] \notin {"scan", "send", "retire"} => found[t] = {}
        /\ pc[t] = "send" => found[t] # {}

-----------------------------------------------------------------------------
\* A send keeps the channel within its type and its capacity.
LEMMA SendKeepsType ==
    ASSUME TypeOK, NEW list \in SUBSET Event, SendOnEventCh(list)
    PROVE  /\ eventCh' \in Seq(SUBSET Event)
           /\ Len(eventCh') \in Nat
           /\ Len(eventCh') <= bufSize
           /\ reading' \in BOOLEAN
<1>1. Len(eventCh) \in Nat
  BY LenProperties DEF TypeOK
<1>2. CASE Len(eventCh) < bufSize /\ eventCh' = Append(eventCh, list) /\ UNCHANGED reading
  <2>1. eventCh' \in Seq(SUBSET Event) /\ Len(eventCh') = Len(eventCh) + 1
    BY <1>2, AppendProperties DEF TypeOK
  <2>2. bufSize \in Nat
    BY FileMonitorAssumption DEF TypeOK
  <2> QED BY <1>1, <1>2, <2>1, <2>2 DEF TypeOK
<1>3. CASE reading' = FALSE /\ UNCHANGED eventCh
  BY <1>1, <1>3 DEF TypeOK
<1> QED BY <1>2, <1>3 DEF SendOnEventCh

\* A receive keeps the channel within its type and its capacity.
LEMMA ReceiveKeepsType ==
    ASSUME TypeOK, Receive
    PROVE  eventCh' \in Seq(SUBSET Event) /\ Len(eventCh') <= bufSize'
<1>1. eventCh' \in Seq(SUBSET Event) /\ Len(eventCh') = Len(eventCh) - 1
  BY HeadTailProperties DEF TypeOK, Receive
<1>2. Len(eventCh) \in Nat /\ bufSize \in Nat /\ bufSize' = bufSize
  BY LenProperties, FileMonitorAssumption DEF TypeOK, Receive
<1> QED BY <1>1, <1>2 DEF TypeOK

\* What one os.Stat adds to the list names only the file it looked at.
LEMMA StatResultsType ==
    ASSUME NEW f \in Files, NEW events \in StatResults(f)
    PROVE  events \in SUBSET Event /\ FilesOf(events) \subseteq {f}
<1>1. ASSUME NEW err \in BOOLEAN, events = {[file |-> f, err |-> err]}
      PROVE  events \in SUBSET Event /\ FilesOf(events) \subseteq {f}
  BY <1>1 DEF Event, FilesOf
<1>2. CASE events = {}
  BY <1>2 DEF FilesOf
<1>3. events = {} \/ \E err \in BOOLEAN : events = {[file |-> f, err |-> err]}
  BY DEF StatResults
<1> QED BY <1>1, <1>2, <1>3

\* A step of the scan, for the file f.
LEMMA StatStep ==
    ASSUME TypeOK, NEW t \in Threads, Stat(t)
    PROVE  \E f \in todo[t] : \E events \in SUBSET Event :
             /\ FilesOf(events) \subseteq {f}
             /\ todo' = [todo EXCEPT ![t] = @ \ {f}]
             /\ found' = [found EXCEPT ![t] = @ \union events]
<1>1. PICK f \in todo[t] : \E events \in StatResults(f) :
        /\ todo' = [todo EXCEPT ![t] = @ \ {f}]
        /\ found' = [found EXCEPT ![t] = @ \union events]
  BY DEF Stat
<1>2. PICK events \in StatResults(f) :
        found' = [found EXCEPT ![t] = @ \union events]
  BY <1>1
<1>3. f \in Files
  BY DEF TypeOK
<1> QED BY <1>1, <1>2, <1>3, StatResultsType

\* Every step preserves the types.
LEMMA TypeStep == ASSUME TypeOK, [Next]_vars PROVE TypeOK'
<1> USE FileMonitorAssumption DEF TypeOK, Points, Event, shared, local, Goto
<1>1. ASSUME NEW f \in Files, Add(f) PROVE TypeOK'
  BY <1>1 DEF Add, Start
<1>2. ASSUME NEW f \in Files, Remove(f) PROVE TypeOK'
  BY <1>2 DEF Remove
<1>3. ASSUME NEW f \in Files, CreateOrDelete(f) PROVE TypeOK'
  BY <1>3 DEF CreateOrDelete
<1>4. ASSUME Close PROVE TypeOK'
  BY <1>4 DEF Close
<1>5. ASSUME StartReceive PROVE TypeOK'
  BY <1>5 DEF StartReceive
<1>6. ASSUME Receive PROVE TypeOK'
  BY <1>6, ReceiveKeepsType DEF Receive
<1>7. ASSUME NEW t \in Threads, Monitor(t) PROVE TypeOK'
  <2>1. CASE TakeStop(t)
    BY <2>1 DEF TakeStop
  <2>2. CASE SendStop(t)
    BY <2>2, SendKeepsType DEF SendStop
  <2>3. CASE BeginScan(t)
    BY <2>3 DEF BeginScan
  <2>4. CASE Stat(t)
    <3>1. PICK f \in todo[t], events \in SUBSET Event :
             /\ todo' = [todo EXCEPT ![t] = @ \ {f}]
             /\ found' = [found EXCEPT ![t] = @ \union events]
      BY <2>4, StatStep
    <3> QED BY <2>4, <3>1 DEF Stat
  <2>5. CASE EndScan(t)
    BY <2>5 DEF EndScan
  <2>6. CASE SendEvents(t)
    BY <2>6, SendKeepsType DEF SendEvents, Answered
  <2>7. CASE Retire(t)
    BY <2>7 DEF Retire
  <2>8. CASE CheckEmpty(t)
    BY <2>8 DEF CheckEmpty
  <2>9. CASE Exit(t)
    BY <2>9 DEF Exit
  <2> QED BY <1>7, <2>1, <2>2, <2>3, <2>4, <2>5, <2>6, <2>7, <2>8, <2>9 DEF Monitor
<1>8. CASE UNCHANGED vars
  BY <1>8 DEF vars
<1> QED BY <1>1, <1>2, <1>3, <1>4, <1>5, <1>6, <1>7, <1>8 DEF Next

LEMMA InitTypeOK == ASSUME Init PROVE TypeOK
<1>1. eventCh \in Seq(SUBSET Event) /\ Len(eventCh) <= bufSize
  BY FileMonitorAssumption, EmptySeq DEF Init
<1> QED BY <1>1 DEF Init, TypeOK, Points

(***************************************************************************)
(* Every variable keeps its type, and the channel never holds more lists   *)
(* than its capacity, whatever the callers do.                             *)
(***************************************************************************)
THEOREM TypeCorrect == Spec => []TypeOK
BY InitTypeOK, TypeStep, PTL DEF Spec

-----------------------------------------------------------------------------
\* The mutex and fm.running: one goroutine at most, and it alone scans.
Exclusion == OneMonitor /\ LockInv

LEMMA ExclusionStep ==
    ASSUME TypeOK, Exclusion, [Next]_vars PROVE Exclusion'
<1> USE FileMonitorAssumption
    DEF TypeOK, Exclusion, OneMonitor, LockInv, Active, shared, local, Goto
<1>1. ASSUME NEW f \in Files, Add(f) PROVE Exclusion'
  <2>1. CASE running
    BY <1>1, <2>1 DEF Add
  <2>2. CASE ~running
    <3>1. PICK t \in Threads :
            pc[t] = "idle" /\ pc' = [pc EXCEPT ![t] = "select"]
      BY <1>1, <2>2 DEF Add, Start
    <3> QED BY <1>1, <2>2, <3>1 DEF Add
  <2> QED BY <2>1, <2>2
<1>2. ASSUME NEW f \in Files, Remove(f) PROVE Exclusion'
  BY <1>2 DEF Remove
<1>3. ASSUME NEW f \in Files, CreateOrDelete(f) PROVE Exclusion'
  BY <1>3 DEF CreateOrDelete
<1>4. CASE Close
  BY <1>4 DEF Close
<1>5. CASE StartReceive
  BY <1>5 DEF StartReceive
<1>6. CASE Receive
  BY <1>6 DEF Receive
<1>7. ASSUME NEW t \in Threads, Monitor(t) PROVE Exclusion'
  <2>1. CASE TakeStop(t)
    BY <2>1 DEF TakeStop
  <2>2. CASE SendStop(t)
    BY <2>2 DEF SendStop
  <2>3. CASE BeginScan(t)
    BY <2>3 DEF BeginScan
  <2>4. CASE Stat(t)
    BY <2>4 DEF Stat
  <2>5. CASE EndScan(t)
    BY <2>5 DEF EndScan
  <2>6. CASE SendEvents(t)
    BY <2>6 DEF SendEvents
  <2>7. CASE Retire(t)
    BY <2>7 DEF Retire
  <2>8. CASE CheckEmpty(t)
    BY <2>8 DEF CheckEmpty
  <2>9. CASE Exit(t)
    BY <2>9 DEF Exit
  <2> QED BY <1>7, <2>1, <2>2, <2>3, <2>4, <2>5, <2>6, <2>7, <2>8, <2>9 DEF Monitor
<1>8. CASE UNCHANGED vars
  BY <1>8 DEF vars
<1> QED BY <1>1, <1>2, <1>3, <1>4, <1>5, <1>6, <1>7, <1>8 DEF Next

(***************************************************************************)
(* Add never starts a second monitor goroutine, and fm.running is true     *)
(* exactly while one has not run its deferred function.                    *)
(***************************************************************************)
THEOREM OneMonitorAlways == Spec => []OneMonitor
<1>1. Init => TypeOK /\ Exclusion
  <2>1. Init => TypeOK
    BY InitTypeOK
  <2>2. Init => Exclusion
    BY FileMonitorAssumption DEF Init, Exclusion, OneMonitor, LockInv, Active
  <2> QED BY <2>1, <2>2
<1>2. TypeOK /\ Exclusion /\ [Next]_vars => (TypeOK /\ Exclusion)'
  BY TypeStep, ExclusionStep
<1>3. Exclusion => OneMonitor
  BY DEF Exclusion
<1> QED BY <1>1, <1>2, <1>3, PTL DEF Spec
-----------------------------------------------------------------------------
\* Scans: nobody else changes the table while it is scanned.
LEMMA ScanStep ==
    ASSUME TypeOK, Exclusion, ScanInv, [Next]_vars PROVE ScanInv'
<1> USE FileMonitorAssumption
    DEF TypeOK, Exclusion, OneMonitor, LockInv, ScanInv, Active, shared, local, Goto
<1>1. ASSUME NEW f \in Files, Add(f) PROVE ScanInv'
  <2>1. \A t \in Threads : pc[t] # "scan"
    BY <1>1 DEF Add
  <2> QED BY <1>1, <2>1 DEF Add, Start
<1>2. ASSUME NEW f \in Files, Remove(f) PROVE ScanInv'
  BY <1>2 DEF Remove
<1>3. ASSUME NEW f \in Files, CreateOrDelete(f) PROVE ScanInv'
  BY <1>3 DEF CreateOrDelete
<1>4. CASE Close
  BY <1>4 DEF Close
<1>5. CASE StartReceive
  BY <1>5 DEF StartReceive
<1>6. CASE Receive
  BY <1>6 DEF Receive
<1>7. ASSUME NEW t \in Threads, Monitor(t) PROVE ScanInv'
  <2>1. CASE TakeStop(t)
    BY <2>1 DEF TakeStop
  <2>2. CASE SendStop(t)
    BY <2>2 DEF SendStop
  <2>3. CASE BeginScan(t)
    <3>1. found[t] = {}
      BY <2>3 DEF BeginScan
    <3>2. FilesOf(found[t]) = {}
      BY <3>1 DEF FilesOf
    <3>3. \A u \in Threads : pc[u] # "scan"
      BY <2>3 DEF BeginScan
    <3>4. /\ todo'[t] = fileTable /\ fileTable' = fileTable /\ found' = found
          /\ pc' = [pc EXCEPT ![t] = "scan"] /\ pc[t] = "select"
      BY <2>3 DEF BeginScan
    <3>5. ASSUME NEW u \in Threads, pc'[u] = "scan" PROVE u = t
      BY <3>3, <3>4, <3>5
    <3>6. FilesOf(found'[t]) = {}
      BY <3>2, <3>4 DEF FilesOf
    <3> QED BY <3>4, <3>5, <3>6
  <2>4. CASE Stat(t)
    <3>1. PICK f \in todo[t], events \in SUBSET Event :
             /\ FilesOf(events) \subseteq {f}
             /\ todo' = [todo EXCEPT ![t] = @ \ {f}]
             /\ found' = [found EXCEPT ![t] = @ \union events]
      BY <2>4, StatStep
    <3>2. FilesOf(found[t] \union events) = FilesOf(found[t]) \union FilesOf(events)
      BY DEF FilesOf
    <3>3. /\ fileTable' = fileTable /\ pc' = pc /\ pc[t] = "scan"
          /\ todo'[t] = todo[t] \ {f} /\ found'[t] = found[t] \union events
      BY <2>4, <3>1 DEF Stat
    <3>4. FilesOf(found'[t]) \subseteq fileTable
      <4>1. FilesOf(found'[t]) = FilesOf(found[t]) \union FilesOf(events)
        BY <3>2, <3>3
      <4>2. FilesOf(found[t]) \subseteq fileTable /\ f \in fileTable
        BY <3>3
      <4> QED BY <4>1, <4>2, <3>1
    <3>5. ASSUME NEW u \in Threads, u # t
          PROVE  pc'[u] # "scan" /\ pc'[u] = pc[u] /\ found'[u] = found[u]
      BY <3>1, <3>3, <3>5
    <3> QED BY <3>3, <3>4, <3>5
  <2>5. CASE EndScan(t)
    BY <2>5 DEF EndScan
  <2>6. CASE SendEvents(t)
    BY <2>6 DEF SendEvents
  <2>7. CASE Retire(t)
    BY <2>7 DEF Retire
  <2>8. CASE CheckEmpty(t)
    BY <2>8 DEF CheckEmpty
  <2>9. CASE Exit(t)
    BY <2>9 DEF Exit
  <2> QED BY <1>7, <2>1, <2>2, <2>3, <2>4, <2>5, <2>6, <2>7, <2>8, <2>9 DEF Monitor
<1>8. CASE UNCHANGED vars
  BY <1>8 DEF vars
<1> QED BY <1>1, <1>2, <1>3, <1>4, <1>5, <1>6, <1>7, <1>8 DEF Next
\* The invariant under which every step is a step of the notifier.
Inv == TypeOK /\ Exclusion /\ ScanInv

\* The invariant of the file monitor: the lock is held during the scan, the
\* scan works on the table, running is exact.
THEOREM Invariant == Spec => []Inv
<1>1. Init => Inv
  <2>1. Init => TypeOK
    BY InitTypeOK
  <2>2. Init => Exclusion
    BY FileMonitorAssumption DEF Init, Exclusion, OneMonitor, LockInv, Active
  <2>3. Init => ScanInv
    BY DEF Init, ScanInv
  <2> QED BY <2>1, <2>2, <2>3 DEF Inv
<1>2. Inv /\ [Next]_vars => Inv'
  BY TypeStep, ExclusionStep, ScanStep DEF Inv
<1> QED BY <1>1, <1>2, PTL DEF Spec

-----------------------------------------------------------------------------
(* The refinement. *)

\* The one goroutine decides what the batch is and whether it is published.
Mapping ==
    /\ \A t \in Threads : Active(t) =>
          /\ Batch = IF Reporting(t) THEN FilesOf(found[t]) ELSE {}
          /\ Published <=> pc[t] = "retire" /\ found[t] # {}
    /\ (\A t \in Threads : ~Active(t)) => Batch = {} /\ ~Published

LEMMA MappingHolds == Inv => Mapping
<1> SUFFICES ASSUME Inv PROVE Mapping
  OBVIOUS
<1>1. ASSUME NEW t \in Threads, Active(t)
      PROVE  /\ Batch = IF Reporting(t) THEN FilesOf(found[t]) ELSE {}
             /\ Published <=> pc[t] = "retire" /\ found[t] # {}
  <2>1. \A u \in Threads : u # t => pc[u] = "idle"
    BY <1>1 DEF Inv, Exclusion, OneMonitor, Active
  <2>2. {u \in Threads : Reporting(u)} = IF Reporting(t) THEN {t} ELSE {}
    BY <2>1 DEF Reporting
  <2>3. Batch = IF Reporting(t) THEN FilesOf(found[t]) ELSE {}
    BY <2>2 DEF Batch
  <2>4. Published <=> pc[t] = "retire" /\ found[t] # {}
    BY <2>1 DEF Published
  <2> QED BY <2>3, <2>4
<1>2. (\A t \in Threads : ~Active(t)) => Batch = {} /\ ~Published
  BY DEF Batch, Published, Reporting, Active
<1> QED BY <1>1, <1>2 DEF Mapping

\* The notifier sees nothing of a step that keeps all it is mapped from.
LEMMA Invisible ==
    ASSUME UNCHANGED <<fileTable, asked>>, Batch' = Batch, Published' = Published
    PROVE  UNCHANGED Notifier!vars
BY DEF Notifier!vars

\* Neither does it see the steps of the goroutine outside checkFiles's report.
LEMMA MonitorInvisible ==
    ASSUME Inv, Inv', UNCHANGED <<fileTable, asked>>,
           NEW t \in Threads, Active(t), ~Reporting(t), ~Reporting(t)',
           \A u \in Threads : u # t => pc'[u] = pc[u]
    PROVE  UNCHANGED Notifier!vars
<1>1. Mapping /\ Mapping'
  BY MappingHolds, PTL
<1>2. Batch = {} /\ ~Published
  BY <1>1 DEF Mapping, Reporting
<1>3. Batch' = {} /\ ~Published'
  <2>1. CASE Active(t)'
    BY <1>1, <2>1 DEF Mapping, Reporting
  <2>2. CASE ~Active(t)'
    <3>1. \A u \in Threads : ~Active(u)'
      BY <2>2 DEF Active, Inv, Exclusion, OneMonitor
    <3> QED BY <1>1, <3>1 DEF Mapping
  <2> QED BY <2>1, <2>2
<1> QED BY <1>2, <1>3, Invisible DEF Published

LEMMA NotifierStep ==
    ASSUME Inv, Inv', [Next]_vars
    PROVE  [Notifier!Next]_(Notifier!vars)
<1> USE DEF Inv, TypeOK, Goto, shared, local
<1>1. Mapping /\ Mapping'
  BY MappingHolds, PTL
<1>2. ASSUME NEW f \in Files, Add(f) PROVE Notifier!Add(f)
  <2>1. Batch' = Batch /\ Published' = Published
    BY <1>2 DEF Add, Start, Batch, Published, Reporting
  <2> QED BY <1>2, <2>1 DEF Add, Notifier!Add
<1>3. ASSUME NEW f \in Files, Remove(f) PROVE Notifier!Remove(f)
  <2>1. Batch' = Batch /\ Published' = Published
    BY <1>3 DEF Remove, Batch, Published, Reporting
  <2> QED BY <1>3, <2>1 DEF Remove, Notifier!Remove
<1>4. ASSUME NEW f \in Files, CreateOrDelete(f) PROVE UNCHANGED Notifier!vars
  BY <1>4, Invisible DEF CreateOrDelete, Batch, Published, Reporting
<1>5. ASSUME Close \/ StartReceive \/ Receive \/ UNCHANGED vars
      PROVE  UNCHANGED Notifier!vars
  BY <1>5, Invisible
     DEF Close, StartReceive, Receive, vars, Batch, Published, Reporting
<1>6. ASSUME NEW t \in Threads, Monitor(t)
      PROVE  Notifier!Detect \/ Notifier!Publish \/ Notifier!Retire
               \/ UNCHANGED Notifier!vars
  <2>1. CASE TakeStop(t)
    BY <2>1, MonitorInvisible DEF TakeStop, Active, Reporting
  <2>2. CASE SendStop(t)
    BY <2>2, MonitorInvisible DEF SendStop, Active, Reporting
  <2>3. CASE BeginScan(t)
    BY <2>3, MonitorInvisible DEF BeginScan, Active, Reporting
  <2>4. CASE Stat(t)
    BY <2>4, MonitorInvisible DEF Stat, Active, Reporting
  <2>5. CASE EndScan(t)
    <3>1. Active(t) /\ Active(t)' /\ ~Reporting(t) /\ Reporting(t)'
      BY <2>5 DEF EndScan, Active, Reporting
    <3>2. Batch = {} /\ ~Published /\ Batch' = FilesOf(found[t]) /\ ~Published'
      BY <1>1, <2>5, <3>1 DEF EndScan, Mapping, Reporting, FilesOf
    <3>3. CASE found[t] = {}
      BY <2>5, <3>2, <3>3, Invisible DEF EndScan, FilesOf, Published
    <3>4. CASE found[t] # {}
      <4>1. FilesOf(found[t]) # {} /\ FilesOf(found[t]) \subseteq fileTable
        BY <2>5, <3>4 DEF EndScan, FilesOf, ScanInv
      <4>2. Notifier!Detect
        BY <2>5, <3>2, <4>1 DEF EndScan, Notifier!Detect
      <4> QED BY <4>2
    <3> QED BY <3>3, <3>4
  <2>6. CASE SendEvents(t)
    <3>1. Active(t) /\ Active(t)' /\ Reporting(t) /\ Reporting(t)' /\ found[t] # {}
      BY <2>6 DEF SendEvents, Active, Reporting, ScanInv
    <3>2. /\ Batch = FilesOf(found[t]) /\ ~Published
          /\ Batch' = FilesOf(found[t]) /\ Published'
      BY <1>1, <2>6, <3>1 DEF SendEvents, Mapping, FilesOf
    <3>3. FilesOf(found[t]) # {}
      BY <3>1 DEF FilesOf
    <3>4. Notifier!Publish
      BY <2>6, <3>2, <3>3 DEF SendEvents, Answered, Notifier!Publish
    <3> QED BY <3>4
  <2>7. CASE Retire(t)
    <3>1. Active(t) /\ Active(t)' /\ Reporting(t) /\ ~Reporting(t)'
      BY <2>7 DEF Retire, Active, Reporting
    <3>2. /\ Batch = FilesOf(found[t]) /\ (Published <=> found[t] # {})
          /\ Batch' = {} /\ ~Published'
      BY <1>1, <2>7, <3>1 DEF Retire, Mapping, FilesOf
    <3>3. CASE found[t] = {}
      BY <2>7, <3>2, <3>3, Invisible DEF Retire, FilesOf, Published
    <3>4. CASE found[t] # {}
      BY <2>7, <3>2, <3>4 DEF Retire, Notifier!Retire
    <3> QED BY <3>3, <3>4
  <2>8. CASE CheckEmpty(t)
    BY <2>8, MonitorInvisible DEF CheckEmpty, Active, Reporting
  <2>9. CASE Exit(t)
    BY <2>9, MonitorInvisible DEF Exit, Active, Reporting
  <2> QED BY <1>6, <2>1, <2>2, <2>3, <2>4, <2>5, <2>6, <2>7, <2>8, <2>9 DEF Monitor
<1> QED BY <1>2, <1>3, <1>4, <1>5, <1>6 DEF Next, Notifier!Next

(***************************************************************************)
(* The file monitor implements the removal notifier: whatever its threads, *)
(* locks and channel do, callers see batches that are detected, published  *)
(* once and retired, of files they asked for.                              *)
(***************************************************************************)
THEOREM Refinement == Spec => NotifierSpec
<1>1. Init => Notifier!Init
  BY DEF Init, Notifier!Init, Batch, Published, Reporting
<1>2. Inv /\ Inv' /\ [Next]_vars => [Notifier!Next]_(Notifier!vars)
  BY NotifierStep
<1> QED BY <1>1, <1>2, Invariant, PTL DEF Spec, NotifierSpec, Notifier!Spec

\* Under the mapping what is detected is not watched, so that the notifier's
\* own properties are inductive.
NotifierInv == Notifier!TypeOK /\ Notifier!NothingUnasked

LEMMA NotifierInvStep == ASSUME NotifierInv, [Notifier!Next]_(Notifier!vars) PROVE NotifierInv'
<1> USE DEF NotifierInv, Notifier!TypeOK, Notifier!Requests, Notifier!NothingUnasked
<1>1. ASSUME NEW f \in Files, Notifier!Add(f) PROVE NotifierInv'
  BY <1>1 DEF Notifier!Add
<1>2. ASSUME NEW f \in Files, Notifier!Remove(f) PROVE NotifierInv'
  BY <1>2 DEF Notifier!Remove
<1>3. CASE Notifier!Detect
  BY <1>3 DEF Notifier!Detect
<1>4. CASE Notifier!Publish
  BY <1>4 DEF Notifier!Publish
<1>5. CASE Notifier!Retire
  BY <1>5 DEF Notifier!Retire
<1>6. CASE UNCHANGED Notifier!vars
  BY <1>6 DEF Notifier!vars
<1> QED BY <1>1, <1>2, <1>3, <1>4, <1>5, <1>6 DEF Notifier!Next

(***************************************************************************)
(* The abstract notifier keeps its promise: between two events that name a *)
(* file there is an Add of it, so the batch that the monitor deletes from  *)
(* its table is never reported again.                                      *)
(***************************************************************************)
THEOREM NotifierPromise == NotifierSpec => []Notifier!NothingUnasked
<1>1. Notifier!Init => NotifierInv
  BY DEF Notifier!Init, NotifierInv, Notifier!TypeOK, Notifier!Requests, Notifier!NothingUnasked
<1>2. NotifierInv /\ [Notifier!Next]_(Notifier!vars) => NotifierInv'
  BY NotifierInvStep
<1>3. NotifierInv => Notifier!NothingUnasked
  BY DEF NotifierInv
<1> QED BY <1>1, <1>2, <1>3, PTL DEF NotifierSpec, Notifier!Spec

(***************************************************************************)
(* What a goroutine is about to send names only files asked for since      *)
(* their last event: what the notifier promises, seen through the mapping. *)
(***************************************************************************)
THEOREM NoUnaskedEventAlways == Spec => []NoUnaskedEvent
<1>1. Inv /\ Notifier!NothingUnasked => NoUnaskedEvent
  <2> SUFFICES ASSUME Inv, Notifier!NothingUnasked,
                      NEW t \in Threads, pc[t] = "send",
                      NEW f \in FilesOf(found[t])
               PROVE  asked[f] # "nothing"
    BY DEF NoUnaskedEvent
  <2>1. Batch = FilesOf(found[t]) /\ ~Published
    BY MappingHolds DEF Mapping, Active, Reporting
  <2>2. f \in Files
    BY DEF Inv, TypeOK, Event, FilesOf
  <2> QED BY <2>1, <2>2 DEF Notifier!NothingUnasked
<1> QED BY <1>1, Invariant, Refinement, NotifierPromise, PTL
=============================================================================
