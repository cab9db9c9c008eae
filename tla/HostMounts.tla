------------------------------ MODULE HostMounts ------------------------------
(***************************************************************************)
(* Packages idMap and shiftfs: what their calls do to the mounts of the    *)
(* host. IDMapMount replaces, or stacks on, a mount by an ID-mapped clone  *)
(* of it. The four checks (IDMapMountSupported, ShiftfsSupported and their *)
(* overlayfs variants) try a feature in a temporary directory with a child *)
(* in a user namespace, and undo what they did through deferred calls on   *)
(* every path out.                                                         *)
(*                                                                         *)
(* A step is a system call that may fail, or a deferred call. The child's  *)
(* life between them is UsernsProcess in short: it runs until its function *)
(* exits, it is killed, or it dies. A mount stands for its whole tree: the *)
(* calls on a clone are recursive and all or nothing in the kernel.        *)
(***************************************************************************)
EXTENDS KernelVersion

CONSTANTS
    Versions,       \* kernel versions to consider, as pairs
    MaxCalls        \* bound on the calls

ASSUME HostMountsAssumption ==
    /\ Versions \subseteq Nat \X Nat
    /\ MaxCalls \in Nat

VARIABLES
    kernel,         \* what the kernel can do: the version it really is
    rel,            \* the release string it reports
    fsOf,           \* the file system under each place
    shiftfs,        \* shiftfs in this kernel: absent, broken or working
    mounts,         \* the mounts stacked on each place, the top one first
    call,           \* the call in progress
    first,          \* unmountFirst of an IDMapMount
    pc,             \* its next step
    answer,         \* what it returns
    dirs,           \* the directories of the check that exist
    deferred,       \* the deferred calls of the check
    child,          \* the child process of the check
    clone,          \* the clone of a mount that fdTree refers to
    leaked,         \* the call left the descriptor of its clone open
    before,         \* history: the mounts on the target when the call began
    failed,         \* history: what failed of the calls whose error is ignored
    yes,            \* history: the calls that answered true
    calls           \* history: how many calls there were

host == <<kernel, rel, fsOf, shiftfs>>
history == <<before, failed, yes, calls>>
vars == <<host, mounts, call, first, pc, answer, dirs, deferred, child,
          clone, leaked, history>>

\* "test" is the directory merged or test of a check, "lower" the lower layer;
\* "target" is the mountPath of a direct IDMapMount.
Places == {"test", "lower", "target"}
FileSystems == {"ext4", "tmpfs", "overlay"}
Mount == [fs : FileSystems \union {"shiftfs"}, mapped : BOOLEAN]

IdMapChecks == {"idmap", "idmapOverlay"}
ShiftfsChecks == {"shiftfs", "shiftfsOverlay"}
Calls == IdMapChecks \union ShiftfsChecks \union {"onPath", "IDMapMount"}

\* The calls of a check whose error nobody looks at.
Unmounts == {"umount overlay", "umount mark", "umount clone"}
Ignored == Unmounts \union {"RemoveAll"}

\* The kernel: ID-mapped mounts came with 5.12, for tmpfs with 6.3; overlayfs
\* takes mapped lower layers since 5.19, and never is mapped itself.
Since(major, minor) ==
    kernel[1] > major \/ (kernel[1] = major /\ kernel[2] >= minor)
Mappable(fs) ==
    \/ fs = "ext4" /\ Since(5, 12)
    \/ fs = "tmpfs" /\ Since(6, 3)

Top(p) == IF mounts[p] = <<>> THEN [fs |-> fsOf[p], mapped |-> FALSE]
                              ELSE Head(mounts[p])
Push(p, m) == mounts' = [mounts EXCEPT ![p] = <<m>> \o @]
\* An unmount of what is no mount point fails and changes nothing.
Pop(p) == mounts' = [mounts EXCEPT ![p] = IF @ = <<>> THEN @ ELSE Tail(@)]

Goto(from, to) == pc = from /\ pc' = to
Return(from, result) == Goto(from, "unwind") /\ answer' = result

Init ==
    /\ kernel \in Versions
    /\ rel \in {<<kernel[1], kernel[2], Text>>, <<kernel[1], Text>>}
    /\ \E testFs, targetFs \in FileSystems :
           /\ fsOf = [p \in Places |-> IF p = "target" THEN targetFs ELSE testFs]
           /\ \E stack \in {<<>>} \union {<<[fs |-> targetFs, mapped |-> b]>> : b \in BOOLEAN} :
                  mounts = [p \in Places |-> IF p = "target" THEN stack ELSE <<>>]
    /\ shiftfs \in {"absent", "broken", "working"}
    /\ call = "none"
    /\ first = FALSE
    /\ pc = "idle"
    /\ answer = "none"
    /\ dirs = {}
    /\ deferred = {}
    /\ child = "none"
    /\ clone = <<>>
    /\ leaked = FALSE
    /\ before = <<>>
    /\ failed = {}
    /\ yes = {}
    /\ calls = 0

\* A check works in a directory of its own: what an earlier one may have left
\* stays where it is, and is not looked at again.
Begin(c) ==
    /\ calls < MaxCalls
    /\ Goto("idle", IF c = "IDMapMount" THEN "open" ELSE "gate")
    /\ call' = c
    /\ first' \in IF c = "IDMapMount" THEN BOOLEAN ELSE {FALSE}
    /\ calls' = calls + 1
    /\ before' = mounts["target"]
    /\ answer' = "none"
    /\ child' = "none"
    /\ mounts' = [mounts EXCEPT !["test"] = <<>>, !["lower"] = <<>>]
    /\ dirs' = {}
    /\ leaked' = FALSE
    /\ failed' = {}
    /\ UNCHANGED <<host, deferred, clone, yes>>

-----------------------------------------------------------------------------
(* What is answered without an experiment. *)

\* IDMapMountSupported, OverlayfsOnIDMapMountSupported: the kernel's version.
GateIdMap ==
    /\ call \in IdMapChecks
    /\ LET minor == IF call = "idmap" THEN 12 ELSE 19
       IN  CASE ~Parsable(rel)                      -> Return("gate", "error")
             [] Parsable(rel) /\ ~AtLeast(rel, 5, minor) -> Return("gate", "no")
             [] OTHER -> Goto("gate", "mkdtemp") /\ UNCHANGED answer
    /\ UNCHANGED <<host, mounts, call, first, dirs, deferred, child, clone, leaked, history>>

\* runShiftfsCheckOnHost: the module, then the file system of dir. modprobe,
\* /proc/modules and statfs may fail for reasons of their own.
GateShiftfs ==
    /\ call \in ShiftfsChecks
    /\ \/ Return("gate", "error")
       \/ shiftfs = "absent" /\ Return("gate", "no")
       \/ /\ shiftfs # "absent"
          /\ fsOf["test"] \notin {"overlay", "tmpfs"}
          /\ Goto("gate", "mkdtemp")
          /\ UNCHANGED answer
    /\ UNCHANGED <<host, mounts, call, first, dirs, deferred, child, clone, leaked, history>>

\* A plausible bug: the kernel's version is not looked at for a tmpfs.
SupportedOnUngated(fs) == IF fs \in {"overlay"} THEN "no" ELSE "yes"

\* IDMapMountSupportedOnPath: the black lists, and the version for a tmpfs.
SupportedOn(fs) ==
    CASE fs = "overlay"                           -> "no"
      [] fs = "tmpfs" /\ ~Parsable(rel)           -> "error"
      [] fs = "tmpfs" /\ Parsable(rel) /\ Compare(rel, 6, 3) < 0 -> "no"
      [] OTHER                                    -> "yes"

\* The path may also be a device of the black list, or fail to be examined.
OnPath ==
    /\ call = "onPath"
    /\ \E result \in {SupportedOn(Top("target").fs), "no", "error"} : Return("gate", result)
    /\ UNCHANGED <<host, mounts, call, first, dirs, deferred, child, clone, leaked, history>>

-----------------------------------------------------------------------------
(* The checks' preparation. *)

MakeTempDir ==
    /\ \/ /\ Goto("mkdtemp", "mkdir")
          /\ dirs' = {"tmp"}
          /\ deferred' = {"RemoveAll"}
          /\ UNCHANGED answer
       \/ Return("mkdtemp", "error") /\ UNCHANGED <<dirs, deferred>>
    /\ UNCHANGED <<host, mounts, call, first, child, clone, leaked, history>>

\* The chmod of shiftfs, the directory of the test and, for overlayfs, its
\* layers: any of them may fail, and leaves those before it.
MakeDirs ==
    /\ LET made == {"tmp", "test"} \union
               (IF call \in {"idmapOverlay", "shiftfsOverlay"}
                THEN {"lower", "upper", "work"} ELSE {})
       IN  \/ /\ Goto("mkdir", CASE call = "shiftfs"        -> "mark"
                                 [] call = "shiftfsOverlay" -> "overlay"
                                 [] OTHER                   -> "create")
              /\ dirs' = made
              /\ UNCHANGED answer
           \/ /\ Return("mkdir", "error")
              /\ dirs' \in {d \in SUBSET made : "tmp" \in d /\ d # made}
    /\ UNCHANGED <<host, mounts, call, first, deferred, child, clone, leaked, history>>

\* A mount of the shiftfs checks, whose unmount is deferred.
MountFor(from, to, m, undo) ==
    /\ \/ /\ Goto(from, to)
          /\ Push("test", m)
          /\ deferred' = deferred \union {undo}
          /\ UNCHANGED answer
       \/ Return(from, "error") /\ UNCHANGED <<mounts, deferred>>
    /\ UNCHANGED <<host, call, first, dirs, child, clone, leaked, history>>

MountOverlay ==
    MountFor("overlay", "mark", [fs |-> "overlay", mapped |-> FALSE], "umount overlay")
Mark ==
    MountFor("mark", "create", [fs |-> "shiftfs", mapped |-> FALSE], "umount mark")

\* CreateUsernsProcess. When it fails after the clone it has killed the child,
\* which is left a zombie. Only the ID-map check defers the kill and the wait.
CreateChild ==
    /\ \/ /\ call \in IdMapChecks
          /\ Goto("create", "open")
          /\ child' = "running"
          /\ deferred' = deferred \union {"kill"}
          /\ UNCHANGED answer
       \/ /\ call \in ShiftfsChecks
          /\ Goto("create", "wait")
          /\ child' = "running"
          /\ UNCHANGED <<deferred, answer>>
       \/ /\ Return("create", "error")
          /\ child' \in {"none", "signaled"}
          /\ UNCHANGED deferred
    /\ UNCHANGED <<host, mounts, call, first, dirs, clone, leaked, history>>

-----------------------------------------------------------------------------
(* IDMapMount, of a caller or of a check. *)

Place == CASE call = "IDMapMount" -> "target"
           [] call = "idmap"      -> "test"
           [] OTHER               -> "lower"

\* The namespace of a child that ended cannot be opened any more.
OpenUserns ==
    /\ \/ /\ call \in IdMapChecks => child = "running"
          /\ Goto("open", "clone")
          /\ UNCHANGED answer
       \/ Return("open", "error")
    /\ UNCHANGED <<host, mounts, call, first, dirs, deferred, child, clone, leaked, history>>

OpenTree ==
    /\ \/ /\ Goto("clone", "setattr")
          /\ clone' = <<Top(Place)>>
          /\ UNCHANGED answer
       \/ Return("clone", "error") /\ UNCHANGED clone
    /\ UNCHANGED <<host, mounts, call, first, dirs, deferred, child, leaked, history>>

\* An error return after the clone does not close fdTree.
ReturnLeaking(from) ==
    /\ Return(from, "error")
    /\ clone' = <<>>
    /\ leaked' = TRUE
    /\ UNCHANGED <<host, mounts, call, first, dirs, deferred, child, history>>

\* A plausible bug: unmountFirst is not looked at.
MountSetattrThenUnmount ==
    \/ /\ Goto("setattr", "unmount")
       /\ Mappable(clone[1].fs)
       /\ ~clone[1].mapped
       /\ clone' = <<[clone[1] EXCEPT !.mapped = TRUE]>>
       /\ UNCHANGED <<host, mounts, call, first, answer, dirs, deferred, child, leaked, history>>
    \/ ReturnLeaking("setattr")

\* The kernel maps what it can map, and no mount a second time.
MountSetattr ==
    \/ /\ Goto("setattr", IF first THEN "unmount" ELSE "move")
       /\ Mappable(clone[1].fs)
       /\ ~clone[1].mapped
       /\ clone' = <<[clone[1] EXCEPT !.mapped = TRUE]>>
       /\ UNCHANGED <<host, mounts, call, first, answer, dirs, deferred, child, leaked, history>>
    \/ ReturnLeaking("setattr")

UnmountFirst ==
    \/ /\ mounts[Place] # <<>>
       /\ Goto("unmount", "move")
       /\ Pop(Place)
       /\ UNCHANGED <<host, call, first, answer, dirs, deferred, child, clone, leaked, history>>
    \/ ReturnLeaking("unmount")

\* The check defers the unmount of the clone as soon as IDMapMount returned.
MoveMount ==
    \/ /\ pc = "move"
       /\ pc' = IF call = "idmapOverlay" THEN "try overlay" ELSE "unwind"
       /\ answer' = CASE call = "IDMapMount"   -> "ok"
                      [] call = "idmap"        -> "yes"
                      [] OTHER                 -> answer
       /\ Push(Place, clone[1])
       /\ deferred' = deferred \union
              (IF call \in IdMapChecks THEN {"umount clone"} ELSE {})
       /\ clone' = <<>>
       /\ UNCHANGED <<host, call, first, dirs, child, leaked, history>>
    \/ ReturnLeaking("move")

-----------------------------------------------------------------------------
(* The experiments. *)

\* Overlayfs on the mapped lower layer: mounted and unmounted at once.
TryOverlay ==
    /\ \/ /\ Since(5, 19)
          /\ Goto("try overlay", "umount overlay")
          /\ Push("test", [fs |-> "overlay", mapped |-> FALSE])
          /\ UNCHANGED answer
       \/ Return("try overlay", "error") /\ UNCHANGED mounts
    /\ UNCHANGED <<host, call, first, dirs, deferred, child, clone, leaked, history>>

\* An unmount whose error is ignored.
UnmountAnyway(d, p) ==
    /\ \/ Pop(p) /\ UNCHANGED failed
       \/ failed' = failed \union {d} /\ UNCHANGED mounts
    /\ UNCHANGED <<before, yes, calls>>

UnmountOverlay ==
    /\ Return("umount overlay", "yes")
    /\ UnmountAnyway("umount overlay", "test")
    /\ UNCHANGED <<host, call, first, dirs, deferred, child, clone, leaked>>

\* The child ends: its experiment succeeds only with a working shiftfs, and
\* it may fail, give up or be killed at any time.
ChildEnds ==
    /\ child = "running"
    /\ child' \in {"exited 1", "signaled"} \union
           (IF call \in ShiftfsChecks /\ shiftfs = "working" THEN {"exited 0"} ELSE {})
    /\ UNCHANGED <<host, mounts, call, first, pc, answer, dirs, deferred,
                   clone, leaked, history>>

\* A plausible bug: every normal exit counts as a success.
VerdictOfExit == CASE child = "signaled" -> "error" [] OTHER -> "yes"

Verdict == CASE child = "exited 0" -> "yes"
             [] child = "exited 1" -> "no"
             [] OTHER              -> "error"

\* Wait4; it fails when somebody else in the process took the child's status.
Wait ==
    /\ child \in {"exited 0", "exited 1", "signaled"}
    /\ Return("wait", Verdict) \/ Return("wait", "error")
    /\ child' = "reaped"
    /\ UNCHANGED <<host, mounts, call, first, dirs, deferred, clone, leaked, history>>

-----------------------------------------------------------------------------
(* The deferred calls run in the reverse order of their places in the code. *)

Rank(d) == CASE d = "RemoveAll"                       -> 1
             [] d \in {"kill", "umount overlay"}      -> 2
             [] d \in {"umount clone", "umount mark"} -> 3

\* A plausible bug: they run in the order they were registered.
RunsInOrder(d) ==
    /\ pc = "unwind"
    /\ d \in deferred
    /\ \A e \in deferred : Rank(d) <= Rank(e)
    /\ deferred' = deferred \ {d}

Runs(d) ==
    /\ pc = "unwind"
    /\ d \in deferred
    /\ \A e \in deferred : Rank(e) <= Rank(d)
    /\ deferred' = deferred \ {d}

DeferredUnmount ==
    /\ \/ Runs("umount clone") /\ UnmountAnyway("umount clone", Place)
       \/ Runs("umount mark") /\ UnmountAnyway("umount mark", "test")
       \/ Runs("umount overlay") /\ UnmountAnyway("umount overlay", "test")
    /\ UNCHANGED <<host, call, first, pc, answer, dirs, child, clone, leaked>>

\* childKill, then Wait4.
DeferredKill ==
    /\ Runs("kill")
    /\ child' = "reaped"
    /\ UNCHANGED <<host, mounts, call, first, pc, answer, dirs, clone, leaked, history>>

\* A directory with a mount on it cannot be removed, nor can the one above.
Busy == {p \in {"test", "lower"} : mounts[p] # <<>>}
Unremovable == IF Busy = {} THEN {} ELSE {"tmp"} \union Busy

\* RemoveAll goes on to the end when a removal fails for another reason.
DeferredRemoveAll ==
    /\ Runs("RemoveAll")
    /\ \/ dirs' = Unremovable /\ UNCHANGED failed
       \/ /\ dirs' \in {d \in SUBSET dirs : {"tmp"} \union Busy \subseteq d}
          /\ failed' = failed \union {"RemoveAll"}
    /\ UNCHANGED <<host, mounts, call, first, pc, answer, child, clone, leaked,
                   before, yes, calls>>

Finish ==
    /\ deferred = {}
    /\ Goto("unwind", "idle")
    /\ yes' = yes \union (IF answer = "yes" THEN {call} ELSE {})
    /\ UNCHANGED <<host, mounts, call, first, answer, dirs, deferred, child,
                   clone, leaked, before, failed, calls>>

IdMapMount == OpenUserns \/ OpenTree \/ MountSetattr \/ UnmountFirst \/ MoveMount
Prepare == MakeTempDir \/ MakeDirs \/ MountOverlay \/ Mark \/ CreateChild
Unwind == DeferredUnmount \/ DeferredKill \/ DeferredRemoveAll \/ Finish

Next ==
    \/ \E c \in Calls : Begin(c)
    \/ GateIdMap \/ GateShiftfs \/ OnPath
    \/ Prepare \/ IdMapMount
    \/ TryOverlay \/ UnmountOverlay \/ ChildEnds \/ Wait
    \/ Unwind

Spec == Init /\ [][Next]_vars

-----------------------------------------------------------------------------
Returned == pc = "idle" /\ call # "none"

TypeOK ==
    /\ kernel \in Versions
    /\ fsOf \in [Places -> FileSystems]
    /\ shiftfs \in {"absent", "broken", "working"}
    /\ mounts \in [Places -> Seq(Mount)]
    /\ call \in Calls \union {"none"}
    /\ first \in BOOLEAN
    /\ answer \in {"none", "ok", "yes", "no", "error"}
    /\ dirs \subseteq {"tmp", "test", "lower", "upper", "work"}
    /\ deferred \subseteq {"RemoveAll", "kill", "umount overlay", "umount mark", "umount clone"}
    /\ child \in {"none", "running", "exited 0", "exited 1", "signaled", "reaped"}
    /\ clone \in {<<>>} \union {<<m>> : m \in Mount}
    /\ calls \in 0..MaxCalls
    /\ leaked \in BOOLEAN
    /\ failed \subseteq Ignored

(***************************************************************************)
(* Whatever step of a check fails, what it leaves is what the calls left   *)
(* that clean up and whose errors nobody looks at: a mount is there if and *)
(* only if an unmount of that place failed, and the directories are gone   *)
(* but for those under such a mount, unless a removal failed by itself.    *)
(* A running child is never left.                                          *)
(***************************************************************************)
UnmountsAt(p) ==
    (IF p = "test" THEN {"umount overlay", "umount mark"} ELSE {}) \union
    (IF p = Place THEN {"umount clone"} ELSE {})

NothingLeft ==
    Returned =>
      /\ child # "running"
      /\ \A p \in {"test", "lower"} :
            mounts[p] # <<>> <=> failed \intersect UnmountsAt(p) # {}
      /\ "RemoveAll" \notin failed => dirs = Unremovable

(***************************************************************************)
(* IDMapMount: a success puts the mapped clone of the top mount in its     *)
(* place ("to prevent redundant / stacked mounting"), or above it without  *)
(* unmountFirst; a failure changes nothing, with one exception: after the  *)
(* unmount a failing move loses the mount, whose only clone stays behind   *)
(* the descriptor this call left open. Nothing else touches the mounts of  *)
(* the target.                                                             *)
(***************************************************************************)
OldTop == IF before = <<>> THEN [fs |-> fsOf["target"], mapped |-> FALSE]
                           ELSE Head(before)

Replaced ==
    /\ answer = "ok"
    /\ mounts["target"] # <<>>
    /\ Head(mounts["target"]) = [OldTop EXCEPT !.mapped = TRUE]
    /\ Tail(mounts["target"]) = IF first THEN Tail(before) ELSE before

Refused == answer = "error" /\ mounts["target"] = before

Lost ==
    /\ answer = "error"
    /\ first /\ leaked
    /\ before # <<>>
    /\ mounts["target"] = Tail(before)

TargetMount ==
    Returned => IF call = "IDMapMount" THEN Replaced \/ Refused \/ Lost
                                       ELSE mounts["target"] = before

(***************************************************************************)
(* A check that answers yes is right about the kernel, and the ID-map      *)
(* checks say no, where the kernel reports its version, only of one that   *)
(* is too old: 6.3 comes after 5.19. The no of a shiftfs check, which may  *)
(* be due to any failure of the child, says nothing.                       *)
(***************************************************************************)
AnswerIsTrue ==
    Returned =>
      /\ answer = "yes" =>
           CASE call = "idmap"         -> Mappable(fsOf["test"])
             [] call = "idmapOverlay"  -> Mappable(fsOf["lower"]) /\ Since(5, 19)
             [] call \in ShiftfsChecks -> shiftfs = "working"
             [] OTHER                  -> TRUE
      /\ answer = "no" => /\ call = "idmap" => ~Since(5, 12)
                          /\ call = "idmapOverlay" => ~Since(5, 19)

(***************************************************************************)
(* What callers combine: IDMapMountSupported says yes, and so does         *)
(* IDMapMountSupportedOnPath for the target. Then the kernel does not      *)
(* refuse IDMapMount there for the sake of the file system.                *)
(***************************************************************************)
TwoYesesAreEnough == {"idmap", "onPath"} \subseteq yes => Mappable(Top("target").fs)
=============================================================================
