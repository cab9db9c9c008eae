----------------------------- MODULE PidMonitor -----------------------------
(***************************************************************************)
(* Package pidmonitor: a PidMon tells its callers, over a buffered event   *)
(* channel, that processes they registered exited. New starts the one      *)
(* monitor goroutine, which polls /proc until Close hands it a stop        *)
(* command.                                                                *)
(*                                                                         *)
(* A caller's AddEvent and RemoveEvent lock the table once per event of    *)
(* their list, WaitEvent and Close block on a channel: all four are calls  *)
(* in progress, of several clients at once. The goroutine is split at the  *)
(* select, at every stat of /proc, at the unlock, at the send and at the   *)
(* second critical section.                                                *)
(***************************************************************************)
EXTENDS Integers, Sequences

CONSTANTS
    Pids,           \* pids callers may register
    BadEvent,       \* a list entry whose event type is unknown
    Clients,        \* goroutines that call the PidMon
    Editors,        \* those that call AddEvent and RemoveEvent
    Waiters,        \* those that call WaitEvent
    Closers,        \* those that may call Close
    MaxList,        \* bound on the lists given to AddEvent and RemoveEvent
    EventChCap,     \* capacity of EventCh (100 in New)
    StatErrors      \* may os.Stat fail for a reason other than ENOENT?

ASSUME PidMonitorAssumption ==
    /\ Editors \subseteq Clients
    /\ Waiters \subseteq Clients
    /\ Closers \subseteq Clients
    /\ BadEvent \notin Pids
    /\ MaxList \in Nat
    /\ EventChCap \in Nat \ {0}
    /\ StatErrors \in BOOLEAN

VARIABLES
    alive,          \* the pids that have a directory in /proc (external)
    eventTable,     \* pm.eventTable: the pids whose vector is Exit, the only event
    eventCh,        \* pm.EventCh
    locked,         \* pm.mu is held by the goroutine's scan
    pc,             \* where the goroutine is
    todo,           \* pids of the table not yet looked up in this scan
    found,          \* eventList (rmList names the same pids)
    op,             \* the call each client is in
    args,           \* what is left of the list of its AddEvent or RemoveEvent
    closed,         \* Close was called
    asked           \* history: the callers' request since the last event

monitor == <<pc, todo, found>>
calls == <<op, args, closed>>
vars == <<alive, eventTable, eventCh, locked, pc, todo, found,
          op, args, closed, asked>>

PidEvent == [pid : Pids, err : BOOLEAN]
PidsOf(events) == {e.pid : e \in events}

Entries == Pids \union {BadEvent}
Lists == UNION {[1..n -> Entries] : n \in 0..MaxList}

Goto(from, to) == pc = from /\ pc' = to
-----------------------------------------------------------------------------
Init ==
    /\ alive \in SUBSET Pids
    /\ eventTable = {}
    /\ eventCh = <<>>
    /\ locked = FALSE
    /\ pc = "select"
    /\ todo = {}
    /\ found = {}
    /\ op = [c \in Clients |-> "none"]
    /\ args = [c \in Clients |-> <<>>]
    /\ closed = FALSE
    /\ asked = [p \in Pids |-> "nothing"]

-----------------------------------------------------------------------------
(* The clients. *)

Enter(c, call) ==
    /\ op[c] = "none"
    /\ op' = [op EXCEPT ![c] = call]

Leave(c, call) ==
    /\ op[c] = call
    /\ op' = [op EXCEPT ![c] = "none"]

CallWithList(c) ==
    /\ c \in Editors
    /\ \E call \in {"AddEvent", "RemoveEvent"} : Enter(c, call)
    /\ \E list \in Lists : args' = [args EXCEPT ![c] = list]
    /\ UNCHANGED <<alive, eventTable, eventCh, locked, monitor, closed, asked>>

\* One turn of the loop of AddEvent: a critical section of its own.
AddOne(c) ==
    /\ op[c] = "AddEvent"
    /\ args[c] # <<>>
    /\ Head(args[c]) # BadEvent
    /\ ~locked
    /\ eventTable' = eventTable \union {Head(args[c])}
    /\ asked' = [asked EXCEPT ![Head(args[c])] = "added"]
    /\ args' = [args EXCEPT ![c] = Tail(@)]
    /\ UNCHANGED <<alive, eventCh, locked, monitor, op, closed>>

\* One turn of the loop of RemoveEvent.
RemoveOne(c) ==
    /\ op[c] = "RemoveEvent"
    /\ args[c] # <<>>
    /\ Head(args[c]) # BadEvent
    /\ ~locked
    /\ eventTable' = eventTable \ {Head(args[c])}
    /\ asked' = [asked EXCEPT ![Head(args[c])] =
                    IF @ = "added" THEN "removed" ELSE @]
    /\ args' = [args EXCEPT ![c] = Tail(@)]
    /\ UNCHANGED <<alive, eventCh, locked, monitor, op, closed>>

\* The list is done, or the next event is unknown: what came before it stays.
ReturnFromList(c) ==
    /\ \E call \in {"AddEvent", "RemoveEvent"} : Leave(c, call)
    /\ args[c] # <<>> => Head(args[c]) = BadEvent
    /\ args' = [args EXCEPT ![c] = <<>>]
    /\ UNCHANGED <<alive, eventTable, eventCh, locked, monitor, closed, asked>>

WaitEvent(c) ==
    /\ c \in Waiters
    /\ Enter(c, "WaitEvent")
    /\ UNCHANGED <<alive, eventTable, eventCh, locked, monitor, args, closed, asked>>

ReturnFromWait(c) ==
    /\ Leave(c, "WaitEvent")
    /\ eventCh # <<>>
    /\ eventCh' = Tail(eventCh)
    /\ UNCHANGED <<alive, eventTable, locked, monitor, args, closed, asked>>

\* Close sends on the unbuffered cmdCh. Nobody receives a second stop: a
\* second Close would block for ever, so callers close once.
Close(c) ==
    /\ c \in Closers
    /\ ~closed
    /\ Enter(c, "Close")
    /\ closed' = TRUE
    /\ UNCHANGED <<alive, eventTable, eventCh, locked, monitor, args, asked>>

-----------------------------------------------------------------------------
(* The goroutine. *)

\* select, first case: the receive on cmdCh lets Close return.
TakeStop ==
    /\ Goto("select", "stop")
    /\ \E c \in Clients : Leave(c, "Close")
    /\ UNCHANGED <<alive, eventTable, eventCh, locked, todo, found, args, closed, asked>>

\* A plausible bug: a ring buffer that is full one list too late.
SendOffByOne(list) ==
    /\ Len(eventCh) <= EventChCap
    /\ eventCh' = Append(eventCh, list)

SendOnEventCh(list) ==
    /\ Len(eventCh) < EventChCap
    /\ eventCh' = Append(eventCh, list)

\* A plausible bug: the goroutine ends without a last list.
SendNoStop ==
    /\ Goto("stop", "stopped")
    /\ UNCHANGED <<alive, eventTable, eventCh, locked, todo, found, calls, asked>>

SendStop ==
    /\ Goto("stop", "stopped")
    /\ SendOnEventCh({})
    /\ UNCHANGED <<alive, eventTable, locked, todo, found, calls, asked>>

\* A plausible bug: the commands lose their priority over the scan.
BeginScanFirst ==
    /\ Goto("select", "scan")
    /\ locked' = TRUE
    /\ todo' = eventTable
    /\ UNCHANGED <<alive, eventTable, eventCh, found, calls, asked>>

\* select, default: only when no Close is waiting. The scan starts.
BeginScan ==
    /\ Goto("select", "scan")
    /\ \A c \in Clients : op[c] # "Close"
    /\ locked' = TRUE
    /\ todo' = eventTable
    /\ UNCHANGED <<alive, eventTable, eventCh, found, calls, asked>>

\* pidExists: what a stat of the pid's directory may say now.
StatResults(p) ==
    {IF p \in alive THEN {} ELSE {[pid |-> p, err |-> FALSE]}}
      \union (IF StatErrors THEN {{[pid |-> p, err |-> TRUE]}} ELSE {})

Stat ==
    /\ pc = "scan"
    /\ \E p \in todo : \E events \in StatResults(p) :
           /\ todo' = todo \ {p}
           /\ found' = found \union events
    /\ UNCHANGED <<alive, eventTable, eventCh, locked, pc, calls, asked>>

\* A plausible bug: the lock is kept across the send.
EndScanLocked ==
    /\ todo = {}
    /\ Goto("scan", IF found = {} THEN "retire" ELSE "send")
    /\ locked' = (found # {})
    /\ UNCHANGED <<alive, eventTable, eventCh, todo, found, calls, asked>>

EndScan ==
    /\ todo = {}
    /\ Goto("scan", IF found = {} THEN "retire" ELSE "send")
    /\ locked' = FALSE
    /\ UNCHANGED <<alive, eventTable, eventCh, todo, found, calls, asked>>

SendEvents ==
    /\ Goto("send", "retire")
    /\ SendOnEventCh(found)
    /\ asked' = [p \in Pids |-> IF p \in PidsOf(found) THEN "nothing" ELSE asked[p]]
    /\ UNCHANGED <<alive, eventTable, locked, todo, found, calls>>

\* A plausible bug: every pid that is gone by now is deleted.
RetireDead ==
    /\ Goto("retire", "select")
    /\ eventTable' = eventTable \intersect alive
    /\ found' = {}
    /\ UNCHANGED <<alive, eventCh, locked, todo, calls, asked>>

\* A plausible bug: the table keeps what was reported.
RetireNothing ==
    /\ Goto("retire", "select")
    /\ found' = {}
    /\ UNCHANGED <<alive, eventTable, eventCh, locked, todo, calls, asked>>

\* The second critical section, then the sleep; the lists of the turn are gone.
Retire ==
    /\ Goto("retire", "select")
    /\ eventTable' = eventTable \ PidsOf(found)
    /\ found' = {}
    /\ UNCHANGED <<alive, eventCh, locked, todo, calls, asked>>

Monitor ==
    \/ TakeStop \/ SendStop
    \/ BeginScan \/ Stat \/ EndScan
    \/ SendEvents \/ Retire

-----------------------------------------------------------------------------
(* A process exits, or a new process gets the pid. *)
ExitOrSpawn(p) ==
    /\ alive' = IF p \in alive THEN alive \ {p} ELSE alive \union {p}
    /\ UNCHANGED <<eventTable, eventCh, locked, monitor, calls, asked>>

Client(c) ==
    \/ CallWithList(c) \/ AddOne(c) \/ RemoveOne(c) \/ ReturnFromList(c)
    \/ WaitEvent(c) \/ ReturnFromWait(c)
    \/ Close(c)

Next ==
    \/ \E c \in Clients : Client(c)
    \/ Monitor
    \/ \E p \in Pids : ExitOrSpawn(p)

Spec == Init /\ [][Next]_vars

(***************************************************************************)
(* Goroutines that can run do run. Go's mutex hands itself over to a       *)
(* waiter that starves, so the turns of AddEvent and RemoveEvent are       *)
(* strongly fair. No client has to call anything; properties that need a   *)
(* client who comes back to WaitEvent say so.                              *)
(***************************************************************************)
FairSpec ==
    /\ Spec
    /\ WF_vars(Monitor)
    /\ \A c \in Clients :
          /\ SF_vars(AddOne(c) \/ RemoveOne(c) \/ ReturnFromList(c))
          /\ WF_vars(ReturnFromWait(c))

\* Clients that come back to WaitEvent.
WaitersWait == \A c \in Waiters : SF_vars(WaitEvent(c))

-----------------------------------------------------------------------------
(* The types, the capacity of the channel, and what each place implies. *)
TypeOK ==
    /\ alive \in SUBSET Pids
    /\ eventTable \in SUBSET Pids
    /\ eventCh \in Seq(SUBSET PidEvent)
    /\ Len(eventCh) <= EventChCap
    /\ locked \in BOOLEAN
    /\ pc \in {"select", "scan", "send", "retire", "stop", "stopped"}
    /\ todo \in SUBSET Pids
    /\ found \in SUBSET PidEvent
    /\ op \in [Clients -> {"none", "AddEvent", "RemoveEvent", "WaitEvent", "Close"}]
    /\ args \in [Clients -> Seq(Entries)]
    /\ closed \in BOOLEAN
    /\ asked \in [Pids -> {"nothing", "added", "removed"}]

(***************************************************************************)
(* "pid exit implies event won't hit again": the list about to be sent     *)
(* names only pids registered since their last event.                      *)
(***************************************************************************)
NoUnaskedEvent ==
    pc = "send" => \A p \in PidsOf(found) : asked[p] # "nothing"

(***************************************************************************)
(* The pid monitor is a removal notifier of pids: a pid is in the batch    *)
(* from the end of the scan to the second critical section.                *)
(***************************************************************************)
Batch == IF pc \in {"send", "retire"} THEN PidsOf(found) ELSE {}

Notifier == INSTANCE RemovalNotifier WITH
    Items <- Pids,
    watched <- eventTable \ Batch,
    batch <- Batch,
    published <- pc = "retire" /\ found # {}

NotifierSpec == Notifier!Spec
-----------------------------------------------------------------------------
(***************************************************************************)
(* The lock is not held while a list is sent: AddEvent and RemoveEvent     *)
(* return even if nobody ever calls WaitEvent and the channel is full.     *)
(***************************************************************************)
ListCallsReturn ==
    \A c \in Clients :
        op[c] \in {"AddEvent", "RemoveEvent"} ~> op[c] = "none"

(***************************************************************************)
(* While the monitor runs, the exit of a watched pid is reported: it never *)
(* drops out of the table unreported, whatever its neighbours do, unless   *)
(* it was removed or the pid is in use again.                              *)
(***************************************************************************)
ExitNotified ==
    WaitersWait => \A p \in Pids :
        (p \in eventTable \ Batch /\ p \notin alive)
          ~> (asked[p] # "added" \/ p \in alive \/ closed)

\* Close returns, and the goroutine ends, provided clients keep waiting.
CloseStopsMonitor ==
    WaitersWait => closed ~> pc = "stopped"

(***************************************************************************)
(* Close lets one of the waiting clients return, whatever the goroutine is *)
(* doing and whatever sits in the channel, also if nobody calls WaitEvent  *)
(* again.                                                                  *)
(***************************************************************************)
CloseWakesAWaiter ==
    ((\A w \in Waiters : op[w] = "WaitEvent") /\ \E c \in Closers : op[c] = "Close")
      ~> \E w \in Waiters : op[w] # "WaitEvent"

(***************************************************************************)
(* "Causes WaitEvent() to return immediately": each client that waits while*)
(* another calls Close gets its answer.                                    *)
(***************************************************************************)
CloseWakesWaiters ==
    WaitersWait => \A c, d \in Clients :
        (op[c] = "WaitEvent" /\ op[d] = "Close") ~> op[c] # "WaitEvent"
=============================================================================
