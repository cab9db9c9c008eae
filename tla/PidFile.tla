------------------------------- MODULE PidFile -------------------------------
(***************************************************************************)
(* utils/pidfile.go: the file by which a program of the sysbox family      *)
(* (sysbox-mgr, sysbox-fs) keeps a second instance of itself from running. *)
(*                                                                         *)
(* Instances start, check the file, write their pid to it, serve, remove   *)
(* it and exit; they may crash at any point, and their pids may be reused  *)
(* by another instance or by another program. CreatePidFile is five system *)
(* calls (read the file, readlink of /proc/<pid>/exe, open with truncation,*)
(* write, return), and anything may happen between two of them.            *)
(***************************************************************************)
CONSTANT
    Pids            \* the pids of the host

ASSUME PidFileAssumption ==
    /\ "absent" \notin Pids
    /\ "unreadable" \notin Pids

VARIABLES
    file,           \* "absent", a pid, or "unreadable": no pid can be parsed
    exe,            \* what each pid runs: "nothing", "program" or "other"
    pc,             \* where each instance is
    seen,           \* the pid an instance read from the file
    overlapped      \* history: two instances were inside CreatePidFile at
                    \* once, and since then some instance was always active

vars == <<file, exe, pc, seen, overlapped>>

Contents == Pids \union {"absent", "unreadable"}
Creating(p) == pc[p] \in {"read", "exe", "open", "write"}

\* The instance may yet write or remove the file.
Active(p) == Creating(p) \/ pc[p] = "serving"

Init ==
    /\ file = "absent"
    /\ exe = [p \in Pids |-> "nothing"]
    /\ pc = [p \in Pids |-> "none"]
    /\ seen = [p \in Pids |-> p]
    /\ overlapped = FALSE

Goto(p, from, to) ==
    /\ pc[p] = from
    /\ pc' = [pc EXCEPT ![p] = to]

-----------------------------------------------------------------------------
(* Processes come and go. *)

StartInstance(p) ==
    /\ exe[p] = "nothing"
    /\ exe' = [exe EXCEPT ![p] = "program"]
    /\ Goto(p, "none", "read")
    /\ UNCHANGED <<file, seen>>

StartOther(p) ==
    /\ exe[p] = "nothing"
    /\ exe' = [exe EXCEPT ![p] = "other"]
    /\ UNCHANGED <<file, pc, seen>>

\* An exit, or a crash in the middle of anything. Nothing cleans the file.
End(p) ==
    /\ exe[p] # "nothing"
    /\ exe' = [exe EXCEPT ![p] = "nothing"]
    /\ pc' = [pc EXCEPT ![p] = "none"]
    /\ UNCHANGED <<file, seen>>

-----------------------------------------------------------------------------
(* CheckPidFile *)

\* A plausible bug: the error of Atoi is dropped.
ReadFileUnparsed(p) ==
    /\ Goto(p, "read", IF file = "absent" THEN "open" ELSE "exe")
    /\ seen' = IF file = "absent" THEN seen ELSE [seen EXCEPT ![p] = file]
    /\ UNCHANGED <<file, exe>>

\* readPidFile: no file is fine, a file without a pid is an error.
ReadFile(p) ==
    /\ Goto(p, "read", CASE file = "absent"     -> "open"
                         [] file = "unreadable" -> "refused"
                         [] OTHER               -> "exe")
    /\ seen' = IF file \in Pids THEN [seen EXCEPT ![p] = file] ELSE seen
    /\ UNCHANGED <<file, exe>>

\* A plausible bug: only the instance's own pid counts as running.
ReadExeOfSelf(p) ==
    /\ Goto(p, "exe", IF seen[p] = p THEN "refused" ELSE "open")
    /\ UNCHANGED <<file, exe, seen>>

\* isProgramRunning: the instance itself is one, should the pid be its own.
ReadExe(p) ==
    /\ Goto(p, "exe", IF exe[seen[p]] = "program" THEN "refused" ELSE "open")
    /\ UNCHANGED <<file, exe, seen>>

-----------------------------------------------------------------------------
(* os.WriteFile *)

OpenTruncated(p) ==
    /\ Goto(p, "open", "write")
    /\ file' = "unreadable"
    /\ UNCHANGED <<exe, seen>>

\* Over what another instance wrote since, a shorter pid leaves a tail.
Write(p) ==
    /\ Goto(p, "write", "serving")
    /\ file' \in {p} \union (IF file \in Pids THEN {"unreadable"} ELSE {})
    /\ UNCHANGED <<exe, seen>>

\* open or write fails; what open did stays.
WriteFails(p) ==
    /\ Goto(p, "open", "refused") \/ Goto(p, "write", "refused")
    /\ UNCHANGED <<file, exe, seen>>

\* A plausible bug: an instance that was refused cleans up too.
DestroyAnyway(p) ==
    /\ Goto(p, "serving", "destroyed") \/ Goto(p, "refused", "destroyed")
    /\ file' = "absent"
    /\ UNCHANGED <<exe, seen>>

\* DestroyPidFile, by the instance that created the file: whoever's pid it has.
Destroy(p) ==
    /\ Goto(p, "serving", "destroyed")
    /\ file' = "absent"
    /\ UNCHANGED <<exe, seen>>

Step(p) ==
    \/ StartInstance(p) \/ StartOther(p) \/ End(p)
    \/ ReadFile(p) \/ ReadExe(p)
    \/ OpenTruncated(p) \/ Write(p) \/ WriteFails(p)
    \/ Destroy(p)

\* What the history records of a step, told from the places it leads to.
Overlap == \E p, q \in Pids : p # q /\ Creating(p) /\ Creating(q)
RecordOverlap ==
    overlapped' = /\ overlapped \/ Overlap'
                  /\ \E p \in Pids : Active(p)'

Next ==
    /\ \E p \in Pids : Step(p)
    /\ RecordOverlap

Spec == Init /\ [][Next]_vars
-----------------------------------------------------------------------------
(* The types. *)
TypeOK ==
    /\ file \in Contents
    /\ exe \in [Pids -> {"nothing", "program", "other"}]
    /\ pc \in [Pids -> {"none", "read", "exe", "open", "write", "refused",
                        "serving", "destroyed"}]
    /\ seen \in [Pids -> Pids]
    /\ overlapped \in BOOLEAN

(***************************************************************************)
(* CreatePidFile returns no error to a second instance, across crashes and *)
(* reused pids, unless two instances were inside it at once. The harm of   *)
(* such an overlap ends when nobody who saw it is active any more, whatever*)
(* it left in the file.                                                    *)
(***************************************************************************)
OneServing ==
    ~overlapped =>
        \A p, q \in Pids : pc[p] = "serving" /\ pc[q] = "serving" => p = q

(***************************************************************************)
(* While an instance serves, the file has its pid: nobody else's check or  *)
(* clean-up takes it away, with the same exception.                        *)
(***************************************************************************)
ServingIsNamed ==
    ~overlapped => \A p \in Pids : pc[p] = "serving" => file = p

-----------------------------------------------------------------------------
(* What a comment of the package says and the code does not do. *)

(***************************************************************************)
(* "If the file already exists, and its pid matches a current sysbox       *)
(* program, then an error is returned": CreatePidFile writes no such file. *)
(* The check and the write are apart, and no lock holds them together.     *)
(***************************************************************************)
RunningIsRefused ==
    [][\A p \in Pids : OpenTruncated(p) =>
          ~(file \in Pids /\ exe[file] = "program")]_vars
=============================================================================
