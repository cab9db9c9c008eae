--------------------------- MODULE RemovalNotifier ---------------------------
(***************************************************************************)
(* What the polling monitors of sysbox-libs (fileMonitor and pidmonitor)   *)
(* promise to their callers, without threads, locks, polling or channels.  *)
(*                                                                         *)
(* Callers ask for items (files, pids) to be watched. When the monitor     *)
(* detects that some watched items are gone it forms a batch, publishes    *)
(* one event per item of the batch, and only then retires the batch. An    *)
(* item is never published twice without having been added in between.     *)
(*                                                                         *)
(* The specification is deliberately frank about one point: an Add that    *)
(* lands on an item of the current batch is absorbed, because both         *)
(* implementations delete the batch from their table in a second critical  *)
(* section, whatever was added in the meantime.                            *)
(***************************************************************************)
CONSTANT Items      \* what can be watched: file names or pids

VARIABLES
    watched,        \* items whose disappearance will be reported
    batch,          \* items detected as gone and not yet retired
    published,      \* the events of the batch are on the event channel
    asked           \* per item, the callers' request since its last event

vars == <<watched, batch, published, asked>>

Requests == {"nothing", "added", "removed"}

TypeOK ==
    /\ watched \in SUBSET Items
    /\ batch \in SUBSET Items
    /\ published \in BOOLEAN
    /\ asked \in [Items -> Requests]

Init ==
    /\ watched = {}
    /\ batch = {}
    /\ published = FALSE
    /\ asked = [x \in Items |-> "nothing"]

Add(x) ==
    /\ watched' = watched \union ({x} \ batch)
    /\ asked' = [asked EXCEPT ![x] = "added"]
    /\ UNCHANGED <<batch, published>>

Remove(x) ==
    /\ watched' = watched \ {x}
    /\ asked' = [asked EXCEPT ![x] = IF @ = "added" THEN "removed" ELSE @]
    /\ UNCHANGED <<batch, published>>

Detect ==
    /\ batch = {}
    /\ batch' \in (SUBSET watched) \ {{}}
    /\ watched' = watched \ batch'
    /\ published' = FALSE
    /\ UNCHANGED asked

Publish ==
    /\ batch # {}
    /\ ~published
    /\ published' = TRUE
    /\ asked' = [x \in Items |-> IF x \in batch THEN "nothing" ELSE asked[x]]
    /\ UNCHANGED <<watched, batch>>

Retire ==
    /\ published
    /\ batch' = {}
    /\ published' = FALSE
    /\ UNCHANGED <<watched, asked>>

Next ==
    \/ \E x \in Items : Add(x) \/ Remove(x)
    \/ Detect
    \/ Publish
    \/ Retire

Spec == Init /\ [][Next]_vars

(***************************************************************************)
(* Whatever is watched, or detected and not yet published, was asked for   *)
(* since the last event that named it. Hence no item is published twice    *)
(* for one Add.                                                            *)
(***************************************************************************)
NothingUnasked ==
    \A x \in Items :
        x \in watched \/ (x \in batch /\ ~published) => asked[x] # "nothing"
=============================================================================
