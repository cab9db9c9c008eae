---------------------------- MODULE UsernsProcess ----------------------------
(***************************************************************************)
(* linuxUtils.CreateUsernsProcess and the three host checks built on it.   *)
(* A parent clones a child into a new user namespace and writes the        *)
(* child's uid_map and gid_map; the child reads both files back, a bounded *)
(* number of times, before it runs the function it was given.              *)
(*                                                                         *)
(* Two kinds of caller exist. A "probe" (ShmSysctlUserNamespaced and the   *)
(* shiftfs check) gives a function that becomes root in the namespace,     *)
(* tries a kernel feature and exits; its answer is the exit status. A      *)
(* "pause" (the ID-mapped mount check) gives a function that only sleeps,  *)
(* uses the child's namespace for a mount, kills the child and reaps it.   *)
(*                                                                         *)
(* Parent and child are two processes: every system call of one can fall   *)
(* between any two of the other, and the parent may die at any time.       *)
(***************************************************************************)
EXTENDS Integers

CONSTANTS
    Attempts,       \* reads of one map file before the child gives up (30)
    Callers         \* which of "probe" and "pause" to consider

ASSUME UsernsProcessAssumption ==
    /\ Attempts \in Nat \ {0}
    /\ Callers \subseteq {"probe", "pause"}

VARIABLES
    caller,         \* the caller of this call
    supported,      \* the kernel has the feature that is probed (external)
    uidMap, gidMap, \* /proc/<child>/uid_map and gid_map (external)
    parent,         \* the parent's next step, or "done", or "dead"
    result,         \* what the caller returns
    child,          \* the child's next step, "unborn", "zombie" or "reaped"
    status,         \* how the child ended: an exit status, or "signal"
    armed,          \* PR_SET_PDEATHSIG was set
    mapFile,        \* f: the map file the child is reading
    tries,          \* i: reads of that file so far
    foundMapping    \* foundMapping

childVars == <<child, status, armed, mapFile, tries, foundMapping>>
world == <<caller, supported, uidMap, gidMap>>
vars == <<world, parent, result, childVars>>

MapOf(f) == IF f = "uid_map" THEN uidMap ELSE gidMap
Running == child \notin {"unborn", "zombie", "reaped"}

Init ==
    /\ caller \in Callers
    /\ supported \in BOOLEAN
    /\ uidMap = "empty"
    /\ gidMap = "empty"
    /\ parent = "clone"
    /\ result = "none"
    /\ child = "unborn"
    /\ status = "none"
    /\ armed = FALSE
    /\ mapFile = "uid_map"
    /\ tries = 0
    /\ foundMapping = FALSE

-----------------------------------------------------------------------------
(* How the child ends. A process that has ended cannot be killed. *)

EndChild(how) ==
    /\ child' = "zombie"
    /\ status' = how

KillChild ==
    IF Running THEN EndChild("signal") ELSE UNCHANGED <<child, status>>

childLocals == <<armed, mapFile, tries, foundMapping>>

-----------------------------------------------------------------------------
(* The parent. *)

\* Before clone, Getwd and Chdir may fail too: the same early return.
Clone ==
    /\ parent = "clone"
    /\ \/ /\ parent' = "uid_map"
          /\ child' = "prctl"
          /\ UNCHANGED result
       \/ /\ parent' = "done"
          /\ result' = "error"
          /\ UNCHANGED child
    /\ UNCHANGED <<world, status, childLocals>>

\* writeMapping: the kernel accepts the mapping.
WriteMap ==
    /\ \/ /\ parent = "uid_map"
          /\ parent' = "gid_map"
          /\ uidMap' = "ours"
          /\ UNCHANGED gidMap
       \/ /\ parent = "gid_map"
          /\ parent' = IF caller = "probe" THEN "wait" ELSE "mount"
          /\ gidMap' = "ours"
          /\ UNCHANGED uidMap
    /\ UNCHANGED <<caller, supported, result, childVars>>

\* A plausible bug: the error return leaves the child alone.
WriteMapFailsSilently ==
    /\ parent \in {"uid_map", "gid_map"}
    /\ parent' = "done"
    /\ result' = "error"
    /\ UNCHANGED <<world, childVars>>

\* writeMapping fails: the child is killed, and never waited for.
WriteMapFails ==
    /\ parent \in {"uid_map", "gid_map"}
    /\ parent' = "done"
    /\ result' = "error"
    /\ KillChild
    /\ UNCHANGED <<world, childLocals>>

\* IDMapMount opens the namespace of the child, which is gone with the child;
\* the mounts may fail for reasons of their own.
Mount ==
    /\ parent = "mount"
    /\ parent' = "kill"
    /\ result' \in IF Running THEN {"true", "error"} ELSE {"error"}
    /\ UNCHANGED <<world, childVars>>

\* The deferred childKill.
Kill ==
    /\ parent = "kill"
    /\ parent' = "wait"
    /\ KillChild
    /\ UNCHANGED <<world, result, childLocals>>

\* A plausible bug: only the status of a failed experiment counts.
VerdictOfExperiment ==
    IF caller = "pause" THEN result
    ELSE CASE status = "signal"      -> "error"
           [] status = "unsupported" -> "false"
           [] OTHER                  -> "true"

\* What a probe makes of the status; a pause has its result already.
Verdict ==
    IF caller = "pause" THEN result
    ELSE CASE status = "signal"  -> "error"
           [] status = "success" -> "true"
           [] OTHER              -> "false"

\* A plausible bug: a wait for a normal exit only.
WaitExited ==
    /\ parent = "wait"
    /\ child = "zombie"
    /\ status # "signal"
    /\ parent' = "done"
    /\ child' = "reaped"
    /\ result' = Verdict
    /\ UNCHANGED <<world, status, childLocals>>

\* Wait4
Wait ==
    /\ parent = "wait"
    /\ child = "zombie"
    /\ parent' = "done"
    /\ child' = "reaped"
    /\ result' = Verdict
    /\ UNCHANGED <<world, status, childLocals>>

\* Wait4 has no child to wait for: another part of the process reaped it.
WaitFails ==
    /\ parent = "wait"
    /\ child = "reaped"
    /\ parent' = "done"
    /\ result' = IF caller = "pause" THEN result ELSE "error"
    /\ UNCHANGED <<world, childVars>>

\* A handler of SIGCHLD in the parent's process, or init when that is dead.
ReapedByAnother ==
    /\ child = "zombie"
    /\ child' = "reaped"
    /\ UNCHANGED <<world, parent, result, status, childLocals>>

\* A crash. The kernel signals a child that asked for it.
ParentDies ==
    /\ parent \notin {"clone", "done", "dead"}
    /\ parent' = "dead"
    /\ IF armed THEN KillChild ELSE UNCHANGED <<child, status>>
    /\ UNCHANGED <<world, result, childLocals>>

-----------------------------------------------------------------------------
(* The child. *)

Prctl ==
    /\ child = "prctl"
    /\ child' = "poll"
    /\ armed' = TRUE
    /\ UNCHANGED <<world, parent, result, status, mapFile, tries, foundMapping>>

\* The loop over the map files goes on, or is over.
NextFile ==
    /\ mapFile' = "gid_map"
    /\ tries' = 0
    /\ child' = IF mapFile = "uid_map" THEN "poll" ELSE "exec"

\* The file has the mapping: break.
ReadMapping ==
    /\ child = "poll"
    /\ tries < Attempts
    /\ MapOf(mapFile) = "ours"
    /\ foundMapping' = TRUE
    /\ NextFile
    /\ UNCHANGED <<world, parent, result, status, armed>>

\* A plausible bug: the attempts are not counted.
ReadNothingForEver ==
    /\ child = "poll"
    /\ tries < Attempts
    /\ MapOf(mapFile) # "ours"
    /\ UNCHANGED <<world, parent, result, childVars>>

\* A plausible bug: one attempt too many.
ReadNothingOnceMore ==
    /\ child = "poll"
    /\ tries <= Attempts
    /\ MapOf(mapFile) # "ours"
    /\ tries' = tries + 1
    /\ UNCHANGED <<world, parent, result, child, status, armed, mapFile, foundMapping>>

\* Any other content. A file not yet written is empty: readIDMapFile calls it
\* an invalid mapping, and continue skips the sleep.
ReadNothing ==
    /\ child = "poll"
    /\ tries < Attempts
    /\ MapOf(mapFile) # "ours"
    /\ tries' = tries + 1
    /\ UNCHANGED <<world, parent, result, child, status, armed, mapFile, foundMapping>>

\* A plausible bug: the child never gives up.
GoOn ==
    /\ child = "poll"
    /\ tries = Attempts
    /\ NextFile
    /\ UNCHANGED <<world, parent, result, status, armed, foundMapping>>

\* After the last attempt. foundMapping is not reset between the two files.
EndOfAttempts ==
    /\ child = "poll"
    /\ tries = Attempts
    /\ \/ /\ foundMapping
          /\ NextFile
          /\ UNCHANGED status
       \/ /\ ~foundMapping
          /\ EndChild("gaveup")
          /\ UNCHANGED <<mapFile, tries>>
    /\ UNCHANGED <<world, parent, result, armed, foundMapping>>

\* execFunc of a probe: Setresuid and Setresgid to 0 need an id 0 to exist.
BecomeRoot ==
    /\ caller = "probe"
    /\ \/ /\ child = "exec"
          /\ IF uidMap = "ours"
             THEN child' = "setgid" /\ UNCHANGED status
             ELSE EndChild("notroot")
       \/ /\ child = "setgid"
          /\ IF gidMap = "ours"
             THEN child' = "experiment" /\ UNCHANGED status
             ELSE EndChild("notroot")
    /\ UNCHANGED <<world, parent, result, childLocals>>

\* The experiment itself, and os.Exit with its outcome.
Experiment ==
    /\ child = "experiment"
    /\ EndChild(IF supported THEN "success" ELSE "unsupported")
    /\ UNCHANGED <<world, parent, result, childLocals>>

\* execFunc of a pause returns when an hour is over.
PauseReturns ==
    /\ caller = "pause"
    /\ child = "exec"
    /\ child' = "parentcode"
    /\ UNCHANGED <<world, parent, result, status, childLocals>>

\* Nothing ends the child there: it runs the parent's half with pid = 0.
\* Writing /proc/0/uid_map fails, and kill(0, SIGKILL) goes to the whole
\* process group, the parent included.
KillGroup ==
    /\ child = "parentcode"
    /\ EndChild("signal")
    /\ parent' = IF parent = "done" THEN parent ELSE "dead"
    /\ UNCHANGED <<world, result, childLocals>>

Parent ==
    Clone \/ WriteMap \/ WriteMapFails \/ Mount \/ Kill \/ Wait \/ WaitFails

Child ==
    \/ Prctl \/ ReadMapping \/ ReadNothing \/ EndOfAttempts
    \/ BecomeRoot \/ Experiment
    \/ PauseReturns \/ KillGroup

Next == Parent \/ Child \/ ParentDies \/ ReapedByAnother

Spec == Init /\ [][Next]_vars

\* Both processes are scheduled; the parent need not die.
FairSpec == Spec /\ WF_vars(Parent) /\ WF_vars(Child)
-----------------------------------------------------------------------------
(* The types, and the bound on the child's attempts. *)
TypeOK ==
    /\ caller \in Callers
    /\ supported \in BOOLEAN
    /\ uidMap \in {"empty", "ours"}
    /\ gidMap \in {"empty", "ours"}
    /\ parent \in {"clone", "uid_map", "gid_map", "mount", "kill", "wait", "done", "dead"}
    /\ result \in {"none", "true", "false", "error"}
    /\ child \in {"unborn", "prctl", "poll", "exec", "setgid", "experiment",
                  "parentcode", "zombie", "reaped"}
    /\ status \in {"none", "signal", "gaveup", "notroot", "unsupported", "success"}
    /\ armed \in BOOLEAN
    /\ mapFile \in {"uid_map", "gid_map"}
    /\ tries \in 0..Attempts
    /\ foundMapping \in BOOLEAN

InExec == child \in {"exec", "setgid", "experiment", "parentcode"}

(***************************************************************************)
(* The function given to CreateUsernsProcess never runs in a namespace     *)
(* without uid mappings: the child gives up instead.                       *)
(***************************************************************************)
ExecHasUidMap == InExec => uidMap = "ours"

(***************************************************************************)
(* When the caller has its answer, an error or not, no child runs, at      *)
(* whatever point of its own start the error found it.                     *)
(***************************************************************************)
NoChildLeft == parent = "done" => ~Running

(***************************************************************************)
(* A probe that says yes is right: the feature is there, and the function  *)
(* ran to its end as root of a namespace with both mappings.               *)
(***************************************************************************)
YesIsTrue ==
    caller = "probe" /\ result = "true"
      => supported /\ uidMap = "ours" /\ gidMap = "ours"

(***************************************************************************)
(* The caller always gets its answer, however the child ends.              *)
(***************************************************************************)
CallReturns == (parent = "wait") ~> (parent \in {"done", "dead"})

(***************************************************************************)
(* No child outlives a parent that died, even one that died before the     *)
(* child asked for the signal: its attempts are bounded.                   *)
(***************************************************************************)
OrphanEnds == (parent = "dead") ~> ~Running

-----------------------------------------------------------------------------
(* What comments of the package say and the code does not do. *)

(***************************************************************************)
(* "Wait for the parent to do the user-ns uid & gid mappings": the         *)
(* function does not run before both are there.                            *)
(***************************************************************************)
ExecHasBothMaps == InExec => uidMap = "ours" /\ gidMap = "ours"
=============================================================================
