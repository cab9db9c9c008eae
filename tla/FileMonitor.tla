----------------------------- MODULE FileMonitor -----------------------------
(***************************************************************************)
(* Package fileMonitor: a FileMon tells its caller, over an event channel, *)
(* that files it watches were removed. Add starts a monitor goroutine when *)
(* none is running; the goroutine polls the files of the table and returns *)
(* when the table is empty or Close was called.                            *)
(*                                                                         *)
(* A caller's Add and Remove are single steps: each is one critical        *)
(* section that never blocks inside. The goroutine is split wherever       *)
(* another party can get in between: at the select, at every os.Stat of    *)
(* the scan (the file system changes under it although the table is        *)
(* locked), at the unlock, at the channel send, and at each later lock.    *)
(***************************************************************************)
EXTENDS Integers, Sequences

CONSTANTS
    Files,          \* file names callers may watch
    Threads,        \* identities for monitor goroutines, reused when free
    NoThread,       \* the mutex is free
    EventBufSizes,  \* capacities a caller may configure (0: unbuffered)
    StatErrors      \* may os.Stat fail for a reason other than ENOENT?

ASSUME FileMonitorAssumption ==
    /\ Threads # {}
    /\ NoThread \notin Threads
    /\ EventBufSizes \subseteq Nat
    /\ StatErrors \in BOOLEAN

VARIABLES
    bufSize,        \* cfg.EventBufSize, the capacity of eventCh
    exists,         \* the file system: the files present (external)
    fileTable,      \* fm.fileTable, the files monitored
    running,        \* fm.running
    closed,         \* fm.stopCh is closed
    eventCh,        \* fm.eventCh, a queue of event lists
    reading,        \* the caller is blocked receiving from Events()
    mu,             \* fm.mu: the goroutine that holds it, or NoThread
    pc,             \* where each goroutine is
    todo,           \* checkFiles: files of the table not yet stat'ed
    found,          \* checkFiles: eventList (rmList names the same files)
    asked           \* history: the callers' request since the last event

shared == <<bufSize, fileTable, running, closed, eventCh, reading>>
local == <<pc, todo, found>>
vars == <<bufSize, exists, fileTable, running, closed, eventCh, reading, mu, pc,
          todo, found, asked>>

Event == [file : Files, err : BOOLEAN]

\* The order of the events of a list is Go's map order, so a list is a set.
FilesOf(events) == {e.file : e \in events}

\* "idle" is a free identity; the others name the goroutine's next step.
Points == {"idle", "select", "scan", "send", "retire", "check", "stop", "exit"}

Goto(t, from, to) ==
    /\ pc[t] = from
    /\ pc' = [pc EXCEPT ![t] = to]

-----------------------------------------------------------------------------
(* New: the monitor starts with an empty table and no goroutine. *)
Init ==
    /\ bufSize \in EventBufSizes
    /\ exists \in SUBSET Files
    /\ fileTable = {}
    /\ running = FALSE
    /\ closed = FALSE
    /\ eventCh = <<>>
    /\ reading = FALSE
    /\ mu = NoThread
    /\ pc = [t \in Threads |-> "idle"]
    /\ todo = [t \in Threads |-> {}]
    /\ found = [t \in Threads |-> {}]
    /\ asked = [f \in Files |-> "nothing"]

-----------------------------------------------------------------------------
(* The callers. *)

\* go fileMon(fm): a fresh goroutine at the select.
Start == \E t \in Threads : Goto(t, "idle", "select")

\* A plausible bug: the test of fm.running is forgotten.
AddWithoutTest(f) ==
    /\ mu = NoThread
    /\ fileTable' = fileTable \union {f}
    /\ running' = TRUE
    /\ Start
    /\ asked' = [asked EXCEPT ![f] = "added"]
    /\ UNCHANGED <<bufSize, exists, closed, eventCh, reading, mu, todo, found>>

Add(f) ==
    /\ mu = NoThread
    /\ fileTable' = fileTable \union {f}
    /\ IF running
       THEN UNCHANGED <<running, pc>>
       ELSE running' = TRUE /\ Start
    /\ asked' = [asked EXCEPT ![f] = "added"]
    /\ UNCHANGED <<bufSize, exists, closed, eventCh, reading, mu, todo, found>>

Remove(f) ==
    /\ mu = NoThread
    /\ fileTable' = fileTable \ {f}
    /\ asked' = [asked EXCEPT ![f] = IF @ = "added" THEN "removed" ELSE @]
    /\ UNCHANGED <<bufSize, exists, running, closed, eventCh, reading, mu, local>>

\* close(fm.stopCh) a second time panics: callers close once.
Close ==
    /\ ~closed
    /\ closed' = TRUE
    /\ UNCHANGED <<bufSize, exists, fileTable, running, eventCh, reading, mu, local, asked>>

\* The caller starts to receive from the channel that Events() returns.
StartReceive ==
    /\ ~reading
    /\ reading' = TRUE
    /\ UNCHANGED <<bufSize, exists, fileTable, running, closed, eventCh, mu, local, asked>>

\* A buffered list reaches the caller.
Receive ==
    /\ reading
    /\ eventCh # <<>>
    /\ reading' = FALSE
    /\ eventCh' = Tail(eventCh)
    /\ UNCHANGED <<bufSize, exists, fileTable, running, closed, mu, local, asked>>

-----------------------------------------------------------------------------
(* The goroutine. *)

\* Send on eventCh: blocks while the buffer is full, or, when unbuffered,
\* until the caller receives.
SendOnEventCh(list) ==
    \/ /\ Len(eventCh) < bufSize
       /\ eventCh' = Append(eventCh, list)
       /\ UNCHANGED reading
    \/ /\ bufSize = 0
       /\ reading
       /\ reading' = FALSE
       /\ UNCHANGED eventCh

\* select: a closed stopCh is always ready.
TakeStop(t) ==
    /\ closed
    /\ Goto(t, "select", "stop")
    /\ UNCHANGED <<exists, shared, mu, todo, found, asked>>

\* The stop case sends fileMon's own eventList, which is always empty:
\* checkFiles appends to its copy of the slice header.
\* A plausible bug: the stop case does not return.
SendStopAndLoop(t) ==
    /\ Goto(t, "stop", "select")
    /\ SendOnEventCh({})
    /\ UNCHANGED <<bufSize, exists, fileTable, running, closed, mu, todo, found, asked>>

SendStop(t) ==
    /\ Goto(t, "stop", "exit")
    /\ SendOnEventCh({})
    /\ UNCHANGED <<bufSize, exists, fileTable, running, closed, mu, todo, found, asked>>

\* The tick: checkFiles locks and starts to range over the table.
BeginScan(t) ==
    /\ Goto(t, "select", "scan")
    /\ mu = NoThread
    /\ mu' = t
    /\ todo' = [todo EXCEPT ![t] = fileTable]
    /\ UNCHANGED <<exists, shared, found, asked>>

\* checkFileExists: what os.Stat may say of f now, as the events to append.
StatResults(f) ==
    {IF f \in exists THEN {} ELSE {[file |-> f, err |-> FALSE]}}
      \union (IF StatErrors THEN {{[file |-> f, err |-> TRUE]}} ELSE {})

Stat(t) ==
    /\ pc[t] = "scan"
    /\ \E f \in todo[t] : \E events \in StatResults(f) :
           /\ todo' = [todo EXCEPT ![t] = @ \ {f}]
           /\ found' = [found EXCEPT ![t] = @ \union events]
    /\ UNCHANGED <<exists, shared, mu, pc, asked>>

\* A plausible bug: the lock is kept across the send.
EndScanLocked(t) ==
    /\ todo[t] = {}
    /\ Goto(t, "scan", IF found[t] = {} THEN "retire" ELSE "send")
    /\ mu' = IF found[t] = {} THEN NoThread ELSE mu
    /\ UNCHANGED <<exists, shared, todo, found, asked>>

EndScan(t) ==
    /\ todo[t] = {}
    /\ Goto(t, "scan", IF found[t] = {} THEN "retire" ELSE "send")
    /\ mu' = NoThread
    /\ UNCHANGED <<exists, shared, todo, found, asked>>

Answered(events) ==
    [f \in Files |-> IF f \in FilesOf(events) THEN "nothing" ELSE asked[f]]

\* A plausible bug: a send that gives up when the buffer is full.
SendEventsOrDrop(t) ==
    /\ Goto(t, "send", "retire")
    /\ \/ SendOnEventCh(found[t]) /\ asked' = Answered(found[t])
       \/ Len(eventCh) = bufSize /\ UNCHANGED <<eventCh, reading, asked>>
    /\ UNCHANGED <<bufSize, exists, fileTable, running, closed, mu, todo, found>>

\* A plausible bug: a send that overruns the buffer.
SendEventsUnbounded(t) ==
    /\ Goto(t, "send", "retire")
    /\ eventCh' = Append(eventCh, found[t])
    /\ asked' = Answered(found[t])
    /\ UNCHANGED <<bufSize, exists, fileTable, running, closed, reading, mu, todo, found>>

SendEvents(t) ==
    /\ Goto(t, "send", "retire")
    /\ SendOnEventCh(found[t])
    /\ asked' = Answered(found[t])
    /\ UNCHANGED <<bufSize, exists, fileTable, running, closed, mu, todo, found>>

\* A plausible bug: rmList is never applied.
RetireNothing(t) ==
    /\ Goto(t, "retire", "check")
    /\ mu = NoThread
    /\ found' = [found EXCEPT ![t] = {}]
    /\ UNCHANGED <<exists, shared, mu, todo, asked>>

\* The second critical section: delete what was reported. checkFiles returns,
\* its lists are gone.
Retire(t) ==
    /\ Goto(t, "retire", "check")
    /\ mu = NoThread
    /\ fileTable' = fileTable \ FilesOf(found[t])
    /\ found' = [found EXCEPT ![t] = {}]
    /\ UNCHANGED <<bufSize, exists, running, closed, eventCh, reading, mu, todo, asked>>

\* A plausible bug: the goroutine gives up with one file left.
CheckAlmostEmpty(t) ==
    /\ mu = NoThread
    /\ Goto(t, "check", IF \A f, g \in fileTable : f = g THEN "exit" ELSE "select")
    /\ UNCHANGED <<exists, shared, mu, todo, found, asked>>

\* fileTableEmpty is read under the lock and acted upon after it.
CheckEmpty(t) ==
    /\ mu = NoThread
    /\ Goto(t, "check", IF fileTable = {} THEN "exit" ELSE "select")
    /\ UNCHANGED <<exists, shared, mu, todo, found, asked>>

\* The deferred function; the goroutine is over.
Exit(t) ==
    /\ mu = NoThread
    /\ Goto(t, "exit", "idle")
    /\ running' = FALSE
    /\ UNCHANGED <<bufSize, exists, fileTable, closed, eventCh, reading, mu, todo, found, asked>>

Monitor(t) ==
    \/ TakeStop(t) \/ SendStop(t)
    \/ BeginScan(t) \/ Stat(t) \/ EndScan(t)
    \/ SendEvents(t) \/ Retire(t) \/ CheckEmpty(t)
    \/ Exit(t)

-----------------------------------------------------------------------------
(* The file system, changed by anyone at any time. *)
CreateOrDelete(f) ==
    /\ exists' = IF f \in exists THEN exists \ {f} ELSE exists \union {f}
    /\ UNCHANGED <<shared, mu, local, asked>>

Next ==
    \/ \E f \in Files : Add(f) \/ Remove(f) \/ CreateOrDelete(f)
    \/ Close
    \/ StartReceive
    \/ Receive
    \/ \E t \in Threads : Monitor(t)

Spec == Init /\ [][Next]_vars

(***************************************************************************)
(* The Go scheduler runs every goroutine that can run, and select picks    *)
(* among the ready cases at random, so a stop that is ready each time the  *)
(* loop comes round is taken in the end. Nothing obliges a caller to call  *)
(* anything; properties that need a caller who receives say so.            *)
(***************************************************************************)
FairSpec ==
    /\ Spec
    /\ \A t \in Threads : WF_vars(Monitor(t)) /\ SF_vars(TakeStop(t))

\* A caller that receives from Events() whenever it can.
CallerReceives == WF_vars(StartReceive) /\ WF_vars(Receive)

-----------------------------------------------------------------------------
(* The types of the variables, and the capacity of the channel. *)
TypeOK ==
    /\ bufSize \in EventBufSizes
    /\ exists \in SUBSET Files
    /\ fileTable \in SUBSET Files
    /\ running \in BOOLEAN
    /\ closed \in BOOLEAN
    /\ eventCh \in Seq(SUBSET Event)
    /\ Len(eventCh) <= bufSize
    /\ reading \in BOOLEAN
    /\ mu \in Threads \union {NoThread}
    /\ pc \in [Threads -> Points]
    /\ todo \in [Threads -> SUBSET Files]
    /\ found \in [Threads -> SUBSET Event]
    /\ asked \in [Files -> {"nothing", "added", "removed"}]

Active(t) == pc[t] # "idle"

(***************************************************************************)
(* Add starts a goroutine only when none is running: there is never more   *)
(* than one, and fm.running says exactly whether there is one. Two         *)
(* monitors on one table would report files twice.                         *)
(***************************************************************************)
OneMonitor ==
    /\ \A s, t \in Threads : Active(s) /\ Active(t) => s = t
    /\ running <=> \E t \in Threads : Active(t)

(***************************************************************************)
(* "file removal implies event won't hit again": between two events that   *)
(* name a file there is an Add of it. The lists about to be sent name only *)
(* files asked for since their last event.                                 *)
(***************************************************************************)
NoUnaskedEvent ==
    \A t \in Threads : pc[t] = "send" =>
        \A f \in FilesOf(found[t]) : asked[f] # "nothing"

(***************************************************************************)
(* The refinement: an item is in the batch from the end of the scan that   *)
(* detected it to the critical section that deletes it.                    *)
(***************************************************************************)
Reporting(t) == pc[t] \in {"send", "retire"}
Batch == UNION {FilesOf(found[t]) : t \in {u \in Threads : Reporting(u)}}
Published == \E t \in Threads : pc[t] = "retire" /\ found[t] # {}

Notifier == INSTANCE RemovalNotifier WITH
    Items <- Files,
    watched <- fileTable \ Batch,
    batch <- Batch,
    published <- Published

(* The file monitor is a removal notifier. *)
NotifierSpec == Notifier!Spec

-----------------------------------------------------------------------------
(***************************************************************************)
(* checkFiles releases the lock before it sends "so that we don't hold it  *)
(* while sending the event list (in case the event channel is blocked)":   *)
(* the lock is released however long the caller stays away.                *)
(***************************************************************************)
MutexReleased == \A t \in Threads : (mu = t) ~> (mu # t)

\* A goroutine that will still look at the table.
Serving == \E t \in Threads :
    pc[t] \in {"select", "scan", "send", "retire", "check"}

(***************************************************************************)
(* As long as a goroutine serves the table, the removal of a watched file  *)
(* is reported, unless the caller removed it, it comes back, or the        *)
(* monitor is closed.                                                      *)
(***************************************************************************)
ServedRemovalNotified ==
    CallerReceives => \A f \in Files :
        (f \in fileTable \ Batch /\ f \notin exists /\ Serving)
          ~> (asked[f] # "added" \/ f \in exists \/ closed)

(* After Close every goroutine ends, provided the caller keeps receiving. *)
CloseStopsMonitor ==
    CallerReceives => closed ~> (~running /\ \A t \in Threads : ~Active(t))

-----------------------------------------------------------------------------
(* What comments of the package say and the code does not do. *)

(***************************************************************************)
(* "The fileMonitor notifies the caller about file removal events": a      *)
(* watched file that stays removed is reported. An Add between the empty   *)
(* check and the deferred reset of fm.running is never served.             *)
(***************************************************************************)
RemovalNotified ==
    CallerReceives => \A f \in Files :
        (f \in fileTable /\ f \notin exists)
          ~> (f \notin fileTable \/ f \in exists \/ closed)
=============================================================================
