---------------------------- MODULE HostMountsProofs ----------------------------
(***************************************************************************)
(* Proofs about HostMounts, for any set of kernel versions and any number  *)
(* of calls.                                                               *)
(***************************************************************************)
EXTENDS HostMounts, SequenceTheorems, TLAPS

-----------------------------------------------------------------------------
(* Stacks of mounts. *)

\* What is pushed is on top, and the rest is what was there.
LEMMA PushOne ==
    ASSUME NEW S, NEW m \in S, NEW s \in Seq(S)
    PROVE  /\ <<m>> \o s \in Seq(S)
           /\ <<m>> \o s # <<>>
           /\ Len(<<m>> \o s) = Len(s) + 1
           /\ Head(<<m>> \o s) = m
           /\ Tail(<<m>> \o s) = s
<1> DEFINE t == <<m>> \o s
<1>1. /\ <<m>> \in Seq(S)
      /\ Len(<<m>>) = 1
      /\ <<m>>[1] = m
    OBVIOUS
<1>2. /\ t \in Seq(S)
      /\ Len(t) = Len(s) + 1
      /\ \A i \in 1..Len(s) + 1 : t[i] = IF i <= 1 THEN m ELSE s[i - 1]
  <2>1. /\ t \in Seq(S)
        /\ Len(t) = 1 + Len(s)
        /\ \A i \in 1..1 + Len(s) : t[i] = IF i <= 1 THEN <<m>>[i] ELSE s[i - 1]
      BY <1>1, ConcatProperties
  <2>2. Len(s) \in Nat
      OBVIOUS
  <2> QED BY <2>1, <2>2, <1>1
<1>3. t # <<>>
    BY <1>2, EmptySeq
<1>4. Head(t) = m
    BY <1>2, <1>3
<1> HIDE DEF t
<1>5. Tail(t) = s
  <2>1. /\ Tail(t) \in Seq(S)
        /\ Len(Tail(t)) = Len(s)
        /\ \A i \in 1..Len(Tail(t)) : Tail(t)[i] = t[i + 1]
      BY <1>2, <1>3, HeadTailProperties
  <2>2. \A i \in 1..Len(Tail(t)) : Tail(t)[i] = s[i]
      BY <2>1, <1>2
  <2> QED BY <2>1, <2>2, SeqEqual
<1> QED BY <1>2, <1>3, <1>4, <1>5 DEF t

\* A mount on one place leaves the other places alone.
LEMMA PushMount ==
    ASSUME NEW S, NEW p \in Places, NEW m \in S, mounts[p] \in Seq(S),
           mounts \in [Places -> Seq(Mount)], m \in Mount, Push(p, m)
    PROVE  /\ mounts' \in [Places -> Seq(Mount)]
           /\ mounts'[p] \in Seq(S)
           /\ mounts'[p] # <<>>
           /\ Len(mounts'[p]) = Len(mounts[p]) + 1
           /\ Head(mounts'[p]) = m
           /\ Tail(mounts'[p]) = mounts[p]
           /\ \A q \in Places \ {p} : mounts'[q] = mounts[q]
<1>1. mounts'[p] = <<m>> \o mounts[p] /\ \A q \in Places \ {p} : mounts'[q] = mounts[q]
    BY DEF Push
<1>2. <<m>> \o mounts[p] \in Seq(Mount)
    BY PushOne
<1>3. mounts' \in [Places -> Seq(Mount)]
    BY <1>2 DEF Push
<1> QED BY <1>1, <1>3, PushOne

\* Nor does an unmount, which takes the top mount away if there is one.
LEMMA PopMount ==
    ASSUME NEW S, NEW p \in Places, mounts[p] \in Seq(S),
           mounts \in [Places -> Seq(Mount)], Pop(p)
    PROVE  /\ mounts' \in [Places -> Seq(Mount)]
           /\ mounts'[p] \in Seq(S)
           /\ mounts'[p] = IF mounts[p] = <<>> THEN <<>> ELSE Tail(mounts[p])
           /\ Len(mounts'[p]) = IF Len(mounts[p]) = 0 THEN 0 ELSE Len(mounts[p]) - 1
           /\ \A q \in Places \ {p} : mounts'[q] = mounts[q]
<1>1. /\ mounts'[p] = IF mounts[p] = <<>> THEN <<>> ELSE Tail(mounts[p])
      /\ \A q \in Places \ {p} : mounts'[q] = mounts[q]
    BY DEF Pop
<1>2. CASE mounts[p] = <<>>
  <2>1. mounts' = mounts
      BY <1>2 DEF Pop
  <2> QED BY <2>1, <1>2, EmptySeq
<1>3. CASE mounts[p] # <<>>
  <2>1. Tail(mounts[p]) \in Seq(Mount)
      BY <1>3, HeadTailProperties
  <2>2. mounts' \in [Places -> Seq(Mount)]
      BY <1>3, <2>1 DEF Pop
  <2>3. /\ Tail(mounts[p]) \in Seq(S)
        /\ Len(Tail(mounts[p])) = Len(mounts[p]) - 1
        /\ Len(mounts[p]) # 0
      BY <1>3, HeadTailProperties, EmptySeq
  <2> QED BY <1>1, <1>3, <2>2, <2>3
<1> QED BY <1>2, <1>3

-----------------------------------------------------------------------------
(* The inductive invariant, in parts. *)

Points == {"idle", "gate", "mkdtemp", "mkdir", "overlay", "mark", "create", "open",
           "clone", "setattr", "unmount", "move", "try overlay", "umount overlay",
           "wait", "unwind"}
WithClone == {"setattr", "unmount", "move"}
Mapping == {"open", "clone"} \union WithClone
Checks == IdMapChecks \union ShiftfsChecks
Running == Points \ {"idle", "unwind"}

\* Between the making of the directory and the way out of a check.
InCheck == {"mkdir", "overlay", "mark", "create", "try overlay", "umount overlay", "wait"}

\* What is ever mounted on the target lies on its file system.
TargetMounts == [fs : {fsOf["target"]}, mapped : BOOLEAN]

Typed ==
    /\ TypeOK
    /\ pc \in Points
    /\ before \in Seq(TargetMounts)
    /\ mounts["target"] \in Seq(TargetMounts)
    /\ pc \in WithClone =>
          \E m \in Mount : clone = <<m>> /\ (call = "IDMapMount" => m \in TargetMounts)

\* Where each call can be.
Flow ==
    /\ call = "none" => pc = "idle"
    /\ first = TRUE => call = "IDMapMount"
    /\ pc = "unmount" => first = TRUE
    /\ pc \in {"mkdtemp", "mkdir", "create"} => call \in Checks
    /\ pc \in {"overlay", "mark", "wait"} => call \in ShiftfsChecks
    /\ pc \in Mapping => call \in IdMapChecks \union {"IDMapMount"}
    /\ pc \in {"try overlay", "umount overlay"} => call = "idmapOverlay"

\* What it has deferred there.
Deferring ==
    /\ "RemoveAll" \in deferred => call \in Checks /\ pc \notin {"idle", "gate", "mkdtemp"}
    /\ "umount overlay" \in deferred =>
          call \in ShiftfsChecks /\ pc \in {"mark", "create", "wait", "unwind"}
    /\ "umount mark" \in deferred =>
          call \in ShiftfsChecks /\ pc \in {"create", "wait", "unwind"}
    /\ "kill" \in deferred =>
          call \in IdMapChecks /\ pc \in Mapping \union {"try overlay", "umount overlay", "unwind"}
    /\ "umount clone" \in deferred =>
          call \in IdMapChecks /\ pc \in {"try overlay", "umount overlay", "unwind"}

\* What failed of it, on the way out.
Failing ==
    /\ failed # {} => pc \in {"idle", "unwind"}
    /\ failed \intersect deferred = {}
    /\ "umount mark" \in failed => call \in ShiftfsChecks
    /\ "umount overlay" \in failed => call \in ShiftfsChecks \union {"idmapOverlay"}
    /\ "umount clone" \in failed => call \in IdMapChecks

Control == Flow /\ Deferring /\ Failing

\* The depth of the stacks of a check is the number of unmounts that are still
\* due: those ahead, and those that failed.
None(s) == s = <<>>
One(s) == s # <<>> /\ Tail(s) = <<>>
Two(s) == s # <<>> /\ Tail(s) # <<>> /\ Tail(Tail(s)) = <<>>

Due(d) == d \in deferred \union failed
MarkDue == Due("umount mark")
OverlayDue == Due("umount overlay") \/ pc = "umount overlay"
CloneDue(c) == Due("umount clone") /\ call = c

Depth ==
    /\ MarkDue /\ OverlayDue => Two(mounts["test"])
    /\ MarkDue /\ ~OverlayDue => One(mounts["test"])
    /\ ~MarkDue /\ OverlayDue => One(mounts["test"])
    /\ CloneDue("idmap") => One(mounts["test"])
    /\ ~MarkDue /\ ~OverlayDue /\ ~CloneDue("idmap") => None(mounts["test"])
    /\ CloneDue("idmapOverlay") => One(mounts["lower"])
    /\ ~CloneDue("idmapOverlay") => None(mounts["lower"])

\* What is left of a check is the business of a deferred call, or of Wait4, or
\* could not be removed.
CleanUp ==
    /\ pc \in InCheck \/ deferred # {} => "RemoveAll" \in deferred
    /\ pc \in Mapping /\ call \in IdMapChecks => "RemoveAll" \in deferred
    /\ ~Due("RemoveAll") => dirs = Unremovable
    /\ child = "running" => "kill" \in deferred \/ pc = "wait"

-----------------------------------------------------------------------------
(* Initial states, and the types. *)

LEMMA KernelType == TypeOK => kernel \in Nat \X Nat
BY HostMountsAssumption DEF TypeOK

LEMMA InitTyped == Init => Typed /\ Control /\ Depth /\ CleanUp
<1> SUFFICES ASSUME Init PROVE Typed /\ Control /\ Depth /\ CleanUp
    OBVIOUS
<1>1. /\ fsOf \in [Places -> FileSystems]
      /\ mounts \in [Places -> Seq(Mount)]
      /\ mounts["target"] \in Seq(TargetMounts)
      /\ mounts["test"] = <<>> /\ mounts["lower"] = <<>>
  <2>1. PICK testFs \in FileSystems, targetFs \in FileSystems :
            /\ fsOf = [p \in Places |-> IF p = "target" THEN targetFs ELSE testFs]
            /\ \E stack \in {<<>>} \union {<<[fs |-> targetFs, mapped |-> b]>> : b \in BOOLEAN} :
                   mounts = [p \in Places |-> IF p = "target" THEN stack ELSE <<>>]
      BY DEF Init
  <2>2. PICK stack \in {<<>>} \union {<<[fs |-> targetFs, mapped |-> b]>> : b \in BOOLEAN} :
            mounts = [p \in Places |-> IF p = "target" THEN stack ELSE <<>>]
      BY <2>1
  <2>3. fsOf["target"] = targetFs
      BY <2>1 DEF Places
  <2>4. stack \in Seq([fs : {targetFs}, mapped : BOOLEAN])
    <3>1. CASE stack = <<>>
        BY <3>1
    <3>2. ASSUME NEW b \in BOOLEAN, stack = <<[fs |-> targetFs, mapped |-> b]>>
          PROVE  stack \in Seq([fs : {targetFs}, mapped : BOOLEAN])
      <4>1. [fs |-> targetFs, mapped |-> b] \in [fs : {targetFs}, mapped : BOOLEAN]
          OBVIOUS
      <4> QED BY <4>1, <3>2
    <3> QED BY <2>2, <3>1, <3>2
  <2>5. stack \in Seq(Mount) /\ <<>> \in Seq(Mount)
    <3>1. ASSUME NEW m \in [fs : {targetFs}, mapped : BOOLEAN] PROVE m \in Mount
      <4>1. m = [fs |-> m.fs, mapped |-> m.mapped] /\ m.fs \in FileSystems /\ m.mapped \in BOOLEAN
          OBVIOUS
      <4> QED BY <4>1 DEF Mount
    <3>2. [fs : {targetFs}, mapped : BOOLEAN] \subseteq Mount
        BY <3>1
    <3>3. Seq([fs : {targetFs}, mapped : BOOLEAN]) \subseteq Seq(Mount)
        BY <3>2, SeqMonotonic
    <3> QED BY <3>3, <2>4, EmptySeq
  <2> QED BY <2>1, <2>2, <2>3, <2>4, <2>5 DEF Places, TargetMounts
<1>2. TypeOK
  <2>1. /\ kernel \in Versions
        /\ shiftfs \in {"absent", "broken", "working"}
        /\ call = "none" /\ first = FALSE /\ answer = "none" /\ dirs = {}
        /\ deferred = {} /\ child = "none" /\ clone = <<>> /\ leaked = FALSE /\ failed = {} /\ calls = 0
      BY DEF Init
  <2>2. clone \in {<<>>} \union {<<m>> : m \in Mount}
      BY <2>1
  <2>3. calls \in 0..MaxCalls
      BY <2>1, HostMountsAssumption
  <2> QED BY <1>1, <2>1, <2>2, <2>3 DEF TypeOK
<1>3. Typed
    BY <1>1, <1>2 DEF Init, Typed, Points, Running, WithClone
<1>4. Control
    BY DEF Init, Control, Flow, Deferring, Failing, Mapping, WithClone
<1>5. Depth
    BY <1>1 DEF Init, Depth, Due, MarkDue, OverlayDue, CloneDue, None
<1>6. CleanUp
  <2>1. Unremovable = {}
      BY <1>1 DEF Unremovable, Busy
  <2>2. deferred = {} /\ dirs = {} /\ pc = "idle" /\ child = "none"
      BY DEF Init
  <2> QED BY <2>1, <2>2 DEF CleanUp, InCheck, Mapping, WithClone
<1> QED BY <1>3, <1>4, <1>5, <1>6

\* The actions that leave all mounts as they are.
Still ==
    \/ GateIdMap \/ GateShiftfs \/ OnPath
    \/ MakeTempDir \/ MakeDirs \/ CreateChild
    \/ OpenUserns \/ OpenTree \/ MountSetattr
    \/ ChildEnds \/ Wait
    \/ DeferredKill \/ DeferredRemoveAll \/ Finish

LEMMA StillMounts == Still => UNCHANGED <<mounts, fsOf>>
BY DEF Still, host, history, GateIdMap, GateShiftfs, OnPath, MakeTempDir, MakeDirs,
       CreateChild, OpenUserns, OpenTree, MountSetattr, ReturnLeaking, ChildEnds, Wait,
       DeferredKill, DeferredRemoveAll, Finish

\* A step is one of those, or one of these.
LEMMA Steps ==
    ASSUME Next
    PROVE  \/ Still
           \/ \E c \in Calls : Begin(c)
           \/ MountOverlay \/ Mark \/ UnmountFirst \/ MoveMount
           \/ TryOverlay \/ UnmountOverlay \/ DeferredUnmount
BY DEF Next, Still, Prepare, IdMapMount, Unwind

\* The host never changes.
LEMMA HostStays == [Next]_vars => UNCHANGED host
<1> SUFFICES ASSUME [Next]_vars PROVE UNCHANGED host
    OBVIOUS
<1>1. CASE UNCHANGED vars
    BY <1>1 DEF vars
<1>2. CASE Still \/ \E c \in Calls : Begin(c)
    BY <1>2 DEF Still, Begin, GateIdMap, GateShiftfs, OnPath, MakeTempDir, MakeDirs,
       CreateChild, OpenUserns, OpenTree, MountSetattr, ReturnLeaking, ChildEnds, Wait,
       DeferredKill, DeferredRemoveAll, Finish
<1>3. CASE \/ MountOverlay \/ Mark \/ UnmountFirst \/ MoveMount
           \/ TryOverlay \/ UnmountOverlay \/ DeferredUnmount
    BY <1>3 DEF MountOverlay, Mark, MountFor, UnmountFirst, MoveMount, ReturnLeaking,
       TryOverlay, UnmountOverlay, DeferredUnmount
<1> QED BY <1>1, <1>2, <1>3, Steps

\* A call begins with its places free, and leaves the target alone.
LEMMA BeginMounts ==
    ASSUME TypeOK, NEW c \in Calls, Begin(c)
    PROVE  /\ mounts' \in [Places -> Seq(Mount)]
           /\ mounts'["target"] = mounts["target"]
           /\ mounts'["test"] = <<>> /\ mounts'["lower"] = <<>>
<1>1. mounts' = [mounts EXCEPT !["test"] = <<>>, !["lower"] = <<>>]
    BY DEF Begin
<1> QED BY <1>1, EmptySeq DEF TypeOK, Places

\* The mount on top of the target is like all others there.
LEMMA TopType ==
    ASSUME Typed, NEW p \in Places
    PROVE  Top(p) \in Mount /\ (p = "target" => Top(p) \in TargetMounts)
<1> USE DEF Typed, TypeOK
<1>1. CASE mounts[p] = <<>>
  <2>1. [fs |-> fsOf[p], mapped |-> FALSE] \in Mount
      BY DEF Mount
  <2> QED BY <1>1, <2>1 DEF Top, TargetMounts
<1>2. CASE mounts[p] # <<>>
  <2>1. Head(mounts[p]) \in Mount
      BY <1>2, HeadTailProperties
  <2>2. p = "target" => Head(mounts[p]) \in TargetMounts
      BY <1>2, HeadTailProperties
  <2> QED BY <1>2, <2>1, <2>2 DEF Top
<1> QED BY <1>1, <1>2

\* The mount of the clone, and of the experiments, go where their types allow.
MountsTyped == mounts \in [Places -> Seq(Mount)] /\ mounts["target"] \in Seq(TargetMounts)

LEMMA PlaceType ==
    /\ Place \in Places
    /\ Place = "target" <=> call = "IDMapMount"
    /\ call = "idmap" => Place = "test"
    /\ call = "idmapOverlay" => Place = "lower"
BY DEF Place, Places

LEMMA NextMountsTyped == Typed /\ Control /\ [Next]_vars => MountsTyped'
<1> SUFFICES ASSUME Typed, Control, [Next]_vars PROVE MountsTyped'
    OBVIOUS
<1>1. MountsTyped
    BY DEF Typed, TypeOK, MountsTyped
<1>2. UNCHANGED fsOf
    BY HostStays DEF host
<1>3. CASE UNCHANGED mounts
    BY <1>1, <1>2, <1>3 DEF MountsTyped, TargetMounts
<1>4. ASSUME NEW m \in Mount, Push("test", m) PROVE MountsTyped'
  <2>1. mounts["test"] \in Seq(Mount)
      BY <1>1 DEF MountsTyped, Places
  <2>2. mounts' \in [Places -> Seq(Mount)] /\ mounts'["target"] = mounts["target"]
      BY <1>1, <1>4, <2>1, PushMount DEF MountsTyped, Places
  <2> QED BY <1>1, <1>2, <2>2 DEF MountsTyped, TargetMounts
<1>5. ASSUME NEW p \in Places, Pop(p) PROVE MountsTyped'
  <2>1. mounts[p] \in Seq(Mount)
      BY <1>1 DEF MountsTyped
  <2>2. /\ mounts' \in [Places -> Seq(Mount)]
        /\ p # "target" => mounts'["target"] = mounts["target"]
      BY <1>1, <1>5, <2>1, PopMount DEF MountsTyped, Places
  <2>3. p = "target" => mounts'["target"] \in Seq(TargetMounts)
      BY <1>1, <1>5, PopMount DEF MountsTyped
  <2> QED BY <1>1, <1>2, <2>2, <2>3 DEF MountsTyped, TargetMounts
<1>6. CASE MountOverlay \/ TryOverlay
  <2>1. [fs |-> "overlay", mapped |-> FALSE] \in Mount
      BY DEF Mount, FileSystems
  <2> QED BY <1>3, <1>4, <1>6, <2>1 DEF MountOverlay, MountFor, TryOverlay
<1>7. CASE Mark
  <2>1. [fs |-> "shiftfs", mapped |-> FALSE] \in Mount
      BY DEF Mount
  <2> QED BY <1>3, <1>4, <1>7, <2>1 DEF Mark, MountFor
<1>8. CASE UnmountFirst
    BY <1>3, <1>5, <1>8, PlaceType DEF UnmountFirst, ReturnLeaking
<1>9. CASE UnmountOverlay \/ DeferredUnmount
    BY <1>3, <1>5, <1>9, PlaceType DEF UnmountOverlay, DeferredUnmount, UnmountAnyway, Places
<1>10. CASE MoveMount
  <2>1. CASE ReturnLeaking("move")
      BY <1>3, <2>1 DEF ReturnLeaking
  <2>2. CASE pc = "move" /\ Push(Place, clone[1])
    <3>1. PICK m \in Mount : clone = <<m>> /\ (call = "IDMapMount" => m \in TargetMounts)
        BY <2>2 DEF Typed, WithClone
    <3>2. clone[1] = m
        BY <3>1
    <3>3. mounts[Place] \in Seq(Mount) /\ Place \in Places
        BY <1>1, PlaceType DEF MountsTyped
    <3>4. mounts' \in [Places -> Seq(Mount)]
        BY <1>1, <2>2, <3>2, <3>3, PushMount DEF MountsTyped
    <3>5. CASE call = "IDMapMount"
      <4>1. Place = "target" /\ m \in TargetMounts
          BY <3>1, <3>5, PlaceType
      <4>2. mounts'["target"] \in Seq(TargetMounts)
          BY <1>1, <2>2, <3>2, <4>1, PushMount, PlaceType DEF MountsTyped
      <4> QED BY <1>2, <3>4, <4>2 DEF MountsTyped, TargetMounts
    <3>6. CASE call # "IDMapMount"
      <4>1. Place # "target" /\ "target" \in Places
          BY <3>6, PlaceType DEF Places
      <4>2. mounts'["target"] = mounts["target"]
          BY <1>1, <2>2, <3>2, <3>3, <4>1, PushMount DEF MountsTyped
      <4> QED BY <1>1, <1>2, <3>4, <4>2 DEF MountsTyped, TargetMounts
    <3> QED BY <3>5, <3>6
  <2> QED BY <1>10, <2>1, <2>2 DEF MoveMount
<1>11. CASE \E c \in Calls : Begin(c)
    BY <1>1, <1>2, <1>11, BeginMounts DEF Typed, MountsTyped, TargetMounts
<1> QED BY <1>3, <1>6, <1>7, <1>8, <1>9, <1>10, <1>11, Steps, StillMounts DEF vars

\* What kind of value each variable has, but for the mounts.
OthersTyped ==
    /\ call \in Calls \union {"none"}
    /\ first \in BOOLEAN
    /\ answer \in {"none", "ok", "yes", "no", "error"}
    /\ dirs \subseteq {"tmp", "test", "lower", "upper", "work"}
    /\ deferred \subseteq {"RemoveAll", "kill", "umount overlay", "umount mark", "umount clone"}
    /\ child \in {"none", "running", "exited 0", "exited 1", "signaled", "reaped"}
    /\ pc \in Points

LEMMA NextOthersTyped == Typed /\ Control /\ [Next]_vars => OthersTyped'
<1> SUFFICES ASSUME Typed, Control, [Next]_vars PROVE OthersTyped'
    OBVIOUS
<1>1. OthersTyped
    BY DEF Typed, TypeOK, OthersTyped
<1> USE DEF OthersTyped, Goto, Return
<1>2. CASE UNCHANGED vars
    BY <1>1, <1>2 DEF vars
<1>3. CASE \E c \in Calls : Begin(c)
    BY <1>1, <1>3 DEF Begin, Points
<1>4. CASE GateIdMap \/ GateShiftfs
    BY <1>1, <1>4 DEF GateIdMap, GateShiftfs, Points
<1>5. CASE OnPath
  <2>1. ASSUME NEW fs PROVE SupportedOn(fs) \in {"yes", "no", "error"}
      BY DEF SupportedOn
  <2> QED BY <1>1, <1>5, <2>1 DEF OnPath, Points
<1>6. CASE MakeTempDir \/ MakeDirs
    BY <1>1, <1>6 DEF MakeTempDir, MakeDirs, Points
<1>7. CASE MountOverlay \/ Mark \/ CreateChild
    BY <1>1, <1>7 DEF MountOverlay, Mark, MountFor, CreateChild, Points
<1>8. CASE OpenUserns \/ OpenTree \/ MountSetattr \/ UnmountFirst
    BY <1>1, <1>8 DEF OpenUserns, OpenTree, MountSetattr, UnmountFirst, ReturnLeaking, Points
<1>9. CASE MoveMount
    BY <1>1, <1>9 DEF MoveMount, ReturnLeaking, Points
<1>10. CASE TryOverlay \/ UnmountOverlay \/ ChildEnds
    BY <1>1, <1>10 DEF TryOverlay, UnmountOverlay, ChildEnds, Points
<1>11. CASE Wait
    BY <1>1, <1>11 DEF Wait, Verdict, Points
<1>12. CASE DeferredUnmount \/ DeferredKill \/ DeferredRemoveAll \/ Finish
  <2>1. Busy \subseteq {"test", "lower"}
      BY DEF Busy
  <2> QED BY <1>1, <1>12, <2>1 DEF DeferredUnmount, DeferredKill, DeferredRemoveAll,
             Unremovable, Runs, Finish, Points
<1> QED BY <1>2, <1>3, <1>4, <1>5, <1>6, <1>7, <1>8, <1>9, <1>10, <1>11, <1>12
         DEF Next, Prepare, IdMapMount, Unwind

\* The clone is there from OpenTree to MoveMount, or to the error that leaks it.
CloneTyped ==
    /\ clone \in {<<>>} \union {<<m>> : m \in Mount}
    /\ pc \in WithClone =>
          \E m \in Mount : clone = <<m>> /\ (call = "IDMapMount" => m \in TargetMounts)
    /\ calls \in 0..MaxCalls
    /\ leaked \in BOOLEAN
    /\ failed \subseteq Ignored
    /\ before \in Seq(TargetMounts)

\* The actions of a call that leave the clone and the count of calls alone.
NoClone ==
    \/ GateIdMap \/ GateShiftfs \/ OnPath
    \/ MakeTempDir \/ MakeDirs \/ MountOverlay \/ Mark \/ CreateChild
    \/ OpenUserns \/ TryOverlay \/ UnmountOverlay \/ Wait
    \/ DeferredUnmount \/ DeferredKill \/ DeferredRemoveAll \/ Finish

LEMMA NextCloneTyped == Typed /\ Control /\ [Next]_vars => CloneTyped'
<1> SUFFICES ASSUME Typed, Control, [Next]_vars PROVE CloneTyped'
    OBVIOUS
<1>1. CloneTyped
    BY DEF Typed, TypeOK, CloneTyped
<1>2. TargetMounts' = TargetMounts
    BY HostStays DEF host, TargetMounts
<1>3. pc \in Points /\ MaxCalls \in Nat /\ calls \in Nat
    BY <1>1, HostMountsAssumption DEF Typed, CloneTyped
<1> USE DEF CloneTyped, WithClone, history
<1>4. CASE UNCHANGED vars
    BY <1>1, <1>2, <1>4 DEF vars
<1>5. CASE \E c \in Calls : Begin(c)
  <2>1. before' = mounts["target"] /\ mounts["target"] \in Seq(TargetMounts)
      BY <1>5 DEF Begin, Typed
  <2>2. /\ clone' = clone /\ leaked' = FALSE /\ failed' = {}
        /\ pc' \in {"open", "gate"}
      BY <1>5 DEF Begin, Goto
  <2>3. calls' \in 0..MaxCalls
      BY <1>3, <1>5 DEF Begin
  <2> QED BY <1>1, <1>2, <2>1, <2>2, <2>3
<1>6. CASE NoClone
  <2>1. /\ UNCHANGED <<clone, calls, leaked, before>> /\ pc' \notin WithClone
      BY <1>3, <1>6 DEF NoClone, GateIdMap, GateShiftfs, OnPath, MakeTempDir, MakeDirs,
         MountOverlay, Mark, MountFor, CreateChild, OpenUserns, TryOverlay, UnmountOverlay,
         Wait, DeferredUnmount, UnmountAnyway, DeferredKill, DeferredRemoveAll, Runs, Finish,
         Goto, Return, Points
  <2>2. CASE failed' = failed
      BY <1>1, <1>2, <2>1, <2>2
  <2>3. ASSUME NEW d \in Ignored, failed' = failed \union {d} PROVE CloneTyped'
      BY <1>1, <1>2, <2>1, <2>3
  <2>4. CASE UnmountOverlay \/ DeferredUnmount \/ DeferredRemoveAll
      BY <2>2, <2>3, <2>4 DEF UnmountOverlay, DeferredUnmount, UnmountAnyway,
         DeferredRemoveAll, Ignored, Unmounts
  <2>5. CASE GateIdMap \/ GateShiftfs \/ OnPath \/ MakeTempDir \/ MakeDirs \/ MountOverlay
             \/ Mark \/ CreateChild
      BY <2>2, <2>5 DEF GateIdMap, GateShiftfs, OnPath, MakeTempDir, MakeDirs, MountOverlay,
         Mark, MountFor, CreateChild
  <2>6. CASE OpenUserns \/ TryOverlay \/ Wait \/ DeferredKill \/ Finish
      BY <2>2, <2>6 DEF OpenUserns, TryOverlay, Wait, DeferredKill, Finish
  <2> QED BY <1>6, <2>4, <2>5, <2>6 DEF NoClone
<1>7. CASE ChildEnds
    BY <1>1, <1>2, <1>7 DEF ChildEnds
<1>8. CASE OpenTree
  <2>1. Top(Place) \in Mount /\ (call = "IDMapMount" => Top(Place) \in TargetMounts)
      BY PlaceType, TopType
  <2> QED BY <1>1, <1>2, <1>3, <1>8, <2>1 DEF OpenTree, Goto, Return, Points
<1>9. ASSUME NEW from \in WithClone, ReturnLeaking(from) PROVE CloneTyped'
  <2>1. /\ pc' = "unwind" /\ clone' = <<>> /\ leaked' = TRUE
        /\ UNCHANGED <<call, calls, before, failed>>
      BY <1>3, <1>9 DEF ReturnLeaking, Return, Goto
  <2>2. clone' \in {<<>>} \union {<<m>> : m \in Mount}
      BY <2>1
  <2> QED BY <1>1, <1>2, <2>1, <2>2
<1>10. CASE MountSetattr
  <2>1. CASE ReturnLeaking("setattr")
      BY <1>9, <2>1
  <2>2. CASE ~ReturnLeaking("setattr")
    <3>1. PICK m \in Mount : clone = <<m>> /\ (call = "IDMapMount" => m \in TargetMounts)
        BY <1>1, <1>10, <2>2 DEF MountSetattr, Goto
    <3> DEFINE n == [m EXCEPT !.mapped = TRUE]
    <3>2. clone' = <<n>>
        BY <1>10, <2>2, <3>1 DEF MountSetattr
    <3>3. n \in Mount /\ (m \in TargetMounts => n \in TargetMounts)
        BY DEF Mount, TargetMounts
    <3> QED BY <1>1, <1>2, <1>3, <1>10, <2>2, <3>1, <3>2, <3>3 DEF MountSetattr, Goto, Points
  <2> QED BY <2>1, <2>2
<1>11. CASE UnmountFirst
    BY <1>1, <1>2, <1>3, <1>9, <1>11 DEF UnmountFirst, Goto, Points
<1>12. CASE MoveMount
    BY <1>1, <1>2, <1>3, <1>9, <1>12 DEF MoveMount, Points
<1> QED BY <1>4, <1>5, <1>6, <1>7, <1>8, <1>10, <1>11, <1>12
         DEF Next, NoClone, Prepare, IdMapMount, Unwind

LEMMA NextTyped == Typed /\ Control /\ [Next]_vars => Typed'
<1> SUFFICES ASSUME Typed, Control, [Next]_vars PROVE Typed'
    OBVIOUS
<1>1. MountsTyped' /\ OthersTyped' /\ CloneTyped'
    BY NextMountsTyped, NextOthersTyped, NextCloneTyped
<1>2. UNCHANGED <<kernel, fsOf, shiftfs>>
    BY HostStays DEF host
<1>3. TypeOK'
    BY <1>1, <1>2 DEF Typed, TypeOK, MountsTyped, OthersTyped, CloneTyped
<1> QED BY <1>1, <1>3 DEF Typed, MountsTyped, OthersTyped, CloneTyped

-----------------------------------------------------------------------------
(* Control, and what the deferred calls have ahead of them. *)

LEMMA NextFlow == Typed /\ Control /\ [Next]_vars => Flow'
<1> SUFFICES ASSUME Typed, Control, [Next]_vars PROVE Flow'
    OBVIOUS
<1>1. pc \in Points /\ call \in Calls \union {"none"} /\ first \in BOOLEAN
    BY DEF Typed, TypeOK
<1> USE DEF Control, Flow, Checks, Mapping, WithClone, IdMapChecks, ShiftfsChecks,
            Goto, Return
<1>2. CASE UNCHANGED vars
    BY <1>2 DEF vars
<1>3. CASE \E c \in Calls : Begin(c)
    BY <1>1, <1>3 DEF Begin, Calls
<1>4. CASE GateIdMap \/ GateShiftfs \/ OnPath
    BY <1>1, <1>4 DEF GateIdMap, GateShiftfs, OnPath
<1>5. CASE MakeTempDir \/ MakeDirs
    BY <1>1, <1>5 DEF MakeTempDir, MakeDirs
<1>6. CASE MountOverlay \/ Mark
    BY <1>1, <1>6 DEF MountOverlay, MountFor, Mark
<1>7. CASE CreateChild
    BY <1>1, <1>7 DEF CreateChild
<1>8. CASE OpenUserns \/ OpenTree
    BY <1>1, <1>8 DEF OpenUserns, OpenTree
<1>9. CASE MountSetattr \/ UnmountFirst
    BY <1>1, <1>9 DEF MountSetattr, ReturnLeaking, UnmountFirst
<1>10. CASE MoveMount
    BY <1>1, <1>10 DEF MoveMount, ReturnLeaking
<1>11. CASE TryOverlay \/ UnmountOverlay
    BY <1>1, <1>11 DEF TryOverlay, UnmountOverlay
<1>12. CASE ChildEnds \/ Wait
    BY <1>1, <1>12 DEF ChildEnds, Wait
<1>13. CASE DeferredUnmount \/ DeferredKill \/ DeferredRemoveAll \/ Finish
    BY <1>1, <1>13 DEF DeferredUnmount, DeferredKill, DeferredRemoveAll, Runs, Finish
<1> QED BY <1>2, <1>3, <1>4, <1>5, <1>6, <1>7, <1>8, <1>9, <1>10, <1>11, <1>12, <1>13
         DEF Next, Prepare, IdMapMount, Unwind

LEMMA NextDeferring == Typed /\ Control /\ [Next]_vars => Deferring'
<1> SUFFICES ASSUME Typed, Control, [Next]_vars PROVE Deferring'
    OBVIOUS
<1>1. pc \in Points /\ call \in Calls \union {"none"} /\ first \in BOOLEAN
    BY DEF Typed, TypeOK
<1> USE DEF Control, Flow, Deferring, Checks, Mapping, WithClone, IdMapChecks,
            ShiftfsChecks, Goto, Return
<1>2. CASE UNCHANGED vars
    BY <1>2 DEF vars
<1>3. CASE \E c \in Calls : Begin(c)
    BY <1>1, <1>3 DEF Begin, Calls
<1>4. CASE GateIdMap \/ GateShiftfs \/ OnPath
    BY <1>1, <1>4 DEF GateIdMap, GateShiftfs, OnPath
<1>5. CASE MakeTempDir \/ MakeDirs
    BY <1>1, <1>5 DEF MakeTempDir, MakeDirs
<1>6. CASE MountOverlay \/ Mark
    BY <1>1, <1>6 DEF MountOverlay, MountFor, Mark
<1>7. CASE CreateChild
    BY <1>1, <1>7 DEF CreateChild
<1>8. CASE OpenUserns \/ OpenTree
    BY <1>1, <1>8 DEF OpenUserns, OpenTree
<1>9. CASE MountSetattr \/ UnmountFirst
    BY <1>1, <1>9 DEF MountSetattr, ReturnLeaking, UnmountFirst
<1>10. CASE MoveMount
    BY <1>1, <1>10 DEF MoveMount, ReturnLeaking
<1>11. CASE TryOverlay \/ UnmountOverlay
    BY <1>1, <1>11 DEF TryOverlay, UnmountOverlay
<1>12. CASE ChildEnds \/ Wait
    BY <1>1, <1>12 DEF ChildEnds, Wait
<1>13. CASE DeferredUnmount \/ DeferredKill \/ DeferredRemoveAll \/ Finish
    BY <1>1, <1>13 DEF DeferredUnmount, DeferredKill, DeferredRemoveAll, Runs, Finish
<1> QED BY <1>2, <1>3, <1>4, <1>5, <1>6, <1>7, <1>8, <1>9, <1>10, <1>11, <1>12, <1>13
         DEF Next, Prepare, IdMapMount, Unwind

\* What fails was deferred, and is not tried again.
LEMMA NextFailing == Typed /\ Control /\ [Next]_vars => Failing'
<1> SUFFICES ASSUME Typed, Control, [Next]_vars PROVE Failing'
    OBVIOUS
<1>1. pc \in Points /\ call \in Calls \union {"none"}
    BY DEF Typed, TypeOK
<1> USE DEF Control, Failing, Goto, Return, history
<1>2. CASE UNCHANGED vars
    BY <1>2 DEF vars
<1>3. CASE \E c \in Calls : Begin(c)
    BY <1>3 DEF Begin
<1>4. CASE GateIdMap \/ GateShiftfs \/ OnPath
    BY <1>4 DEF GateIdMap, GateShiftfs, OnPath
<1>5. CASE MakeTempDir \/ MakeDirs
    BY <1>5 DEF MakeTempDir, MakeDirs
<1>6. CASE MountOverlay \/ Mark
    BY <1>6 DEF MountOverlay, MountFor, Mark
<1>7. CASE CreateChild
    BY <1>7 DEF CreateChild
<1>8. CASE OpenUserns \/ OpenTree
    BY <1>8 DEF OpenUserns, OpenTree
<1>9. CASE MountSetattr \/ UnmountFirst
    BY <1>9 DEF MountSetattr, ReturnLeaking, UnmountFirst
<1>10. CASE MoveMount
    BY <1>10 DEF MoveMount, ReturnLeaking
<1>11. CASE TryOverlay
    BY <1>11 DEF TryOverlay
<1>12. CASE UnmountOverlay
  <2>1. failed = {} /\ call = "idmapOverlay" /\ pc' = "unwind" /\ call' = call
      BY <1>12 DEF UnmountOverlay, Flow
  <2>2. "umount overlay" \notin deferred /\ deferred' = deferred
      BY <1>12, <2>1 DEF UnmountOverlay, Deferring, ShiftfsChecks
  <2>3. failed' \subseteq {"umount overlay"}
      BY <1>12, <2>1 DEF UnmountOverlay, UnmountAnyway
  <2> QED BY <2>1, <2>2, <2>3
<1>13. CASE ChildEnds \/ Wait \/ DeferredKill \/ Finish
    BY <1>13 DEF ChildEnds, Wait, DeferredKill, Runs, Finish
<1>14. ASSUME NEW d \in Ignored, Runs(d), failed' \subseteq failed \union {d},
              UNCHANGED <<pc, call>>
       PROVE  Failing'
  <2>1. pc = "unwind" /\ d \in deferred /\ deferred' = deferred \ {d}
      BY <1>14 DEF Runs
  <2> QED BY <1>14, <2>1 DEF Deferring
<1>15. CASE DeferredUnmount
    BY <1>14, <1>15 DEF DeferredUnmount, UnmountAnyway, Ignored, Unmounts
<1>16. CASE DeferredRemoveAll
    BY <1>14, <1>16 DEF DeferredRemoveAll, Ignored
<1> QED BY <1>2, <1>3, <1>4, <1>5, <1>6, <1>7, <1>8, <1>9, <1>10, <1>11, <1>12, <1>13,
           <1>15, <1>16
         DEF Next, Prepare, IdMapMount, Unwind

LEMMA NextControl == Typed /\ Control /\ [Next]_vars => Control'
BY NextFlow, NextDeferring, NextFailing DEF Control

\* The deferred calls are run down from the last to the first.
LEMMA RunsLast ==
    ASSUME Typed, NEW d, Runs(d)
    PROVE  /\ d = "RemoveAll" => deferred = {"RemoveAll"}
           /\ pc = "unwind" /\ d \in deferred /\ deferred' = deferred \ {d}
<1>1. deferred \subseteq {"RemoveAll", "kill", "umount overlay", "umount mark", "umount clone"}
    BY DEF Typed, TypeOK
<1>2. ASSUME d = "RemoveAll", NEW e \in deferred PROVE e = "RemoveAll"
  <2>1. Rank("RemoveAll") = 1 /\ Rank(e) <= Rank("RemoveAll")
      BY <1>2 DEF Runs, Rank
  <2>2. e \in {"RemoveAll", "kill", "umount overlay", "umount mark", "umount clone"}
      BY <1>1
  <2>3. CASE e \in {"kill", "umount overlay"}
    <3>1. Rank(e) = 2
        BY <2>3 DEF Rank
    <3> QED BY <2>1, <3>1
  <2>4. CASE e \in {"umount mark", "umount clone"}
    <3>1. Rank(e) = 3
        BY <2>4 DEF Rank
    <3> QED BY <2>1, <3>1
  <2> QED BY <2>2, <2>3, <2>4
<1>3. pc = "unwind" /\ d \in deferred /\ deferred' = deferred \ {d}
    BY DEF Runs
<1> QED BY <1>2, <1>3

\* A step that leaves the mounts of the check alone, and the call of RemoveAll.
LEMMA CleanUpKept ==
    ASSUME CleanUp, UNCHANGED <<mounts, dirs>>, Due("RemoveAll") <=> Due("RemoveAll")',
           pc' \in InCheck \/ deferred' # {} => "RemoveAll" \in deferred',
           pc' \in Mapping /\ call' \in IdMapChecks => "RemoveAll" \in deferred',
           child' = "running" => "kill" \in deferred' \/ pc' = "wait"
    PROVE  CleanUp'
BY DEF CleanUp, Unremovable, Busy

\* Every directory and every child has its deferred call, or its Wait4.
LEMMA NextCleanUp == Typed /\ Control /\ Depth /\ CleanUp /\ [Next]_vars => CleanUp'
<1> SUFFICES ASSUME Typed, Control, Depth, CleanUp, [Next]_vars PROVE CleanUp'
    OBVIOUS
<1>0. pc \in Points
    BY DEF Typed
<1> USE DEF Goto, Return, history, Due, InCheck, Mapping, WithClone
<1>1. CASE UNCHANGED vars
    BY <1>1 DEF vars, CleanUp, Unremovable, Busy
<1>2. CASE \E c \in Calls : Begin(c)
  <2>1. mounts'["test"] = <<>> /\ mounts'["lower"] = <<>> /\ dirs' = {}
      BY <1>2, BeginMounts DEF Begin, Typed
  <2>2. Unremovable' = {}
      BY <2>1 DEF Unremovable, Busy
  <2>3. /\ "RemoveAll" \notin deferred /\ deferred' = deferred /\ child' = "none"
        /\ pc' = "gate" \/ (pc' = "open" /\ call' = "IDMapMount")
      BY <1>2 DEF Begin, Control, Deferring
  <2> QED BY <2>1, <2>2, <2>3 DEF CleanUp, IdMapChecks
<1>3. CASE GateIdMap \/ GateShiftfs \/ OnPath
  <2>1. /\ UNCHANGED <<mounts, dirs, deferred, failed, child>>
        /\ pc = "gate" /\ pc' \in {"unwind", "mkdtemp"}
      BY <1>3 DEF GateIdMap, GateShiftfs, OnPath
  <2> QED BY <2>1, CleanUpKept DEF CleanUp
<1>4. CASE MakeTempDir
  <2>1. CASE deferred' = {"RemoveAll"}
    <3>1. /\ UNCHANGED <<mounts, failed, child>> /\ pc = "mkdtemp"
        BY <1>4 DEF MakeTempDir
    <3> QED BY <2>1, <3>1 DEF CleanUp, Control, Deferring
  <2>2. CASE UNCHANGED <<dirs, deferred>>
    <3>1. /\ UNCHANGED <<mounts, failed, child>> /\ pc = "mkdtemp"
          /\ pc' = "unwind" \/ "RemoveAll" \in deferred'
        BY <1>4, <2>2 DEF MakeTempDir
    <3> QED BY <2>2, <3>1, CleanUpKept DEF CleanUp
  <2> QED BY <1>4, <2>1, <2>2 DEF MakeTempDir
<1>5. CASE MakeDirs
    BY <1>5 DEF MakeDirs, CleanUp
<1>6. CASE MountOverlay \/ Mark \/ CreateChild
    BY <1>6 DEF MountOverlay, Mark, MountFor, CreateChild, CleanUp
<1>7. CASE OpenUserns \/ OpenTree \/ MountSetattr
  <2>1. /\ UNCHANGED <<mounts, dirs, deferred, failed, child, call>>
        /\ pc \in {"open", "clone", "setattr"}
        /\ pc' \in {"clone", "setattr", "unmount", "move", "unwind"}
      BY <1>7 DEF OpenUserns, OpenTree, MountSetattr, ReturnLeaking
  <2> QED BY <2>1, CleanUpKept DEF CleanUp
<1>8. CASE UnmountFirst
  <2>1. CASE ReturnLeaking("unmount")
    <3>1. /\ UNCHANGED <<mounts, dirs, deferred, failed, child>>
          /\ pc = "unmount" /\ pc' = "unwind"
        BY <2>1 DEF ReturnLeaking
    <3> QED BY <3>1, CleanUpKept DEF CleanUp
  <2>2. CASE ~ReturnLeaking("unmount")
    <3>1. /\ Pop("target") /\ pc = "unmount" /\ pc' = "move"
          /\ UNCHANGED <<dirs, deferred, failed, child, call>>
        BY <1>8, <2>2, PlaceType DEF UnmountFirst, Control, Flow
    <3>2. mounts'["test"] = mounts["test"] /\ mounts'["lower"] = mounts["lower"]
        BY <3>1 DEF Pop, Typed, TypeOK, Places
    <3>3. Unremovable' = Unremovable
        BY <3>2 DEF Unremovable, Busy
    <3> QED BY <3>1, <3>3 DEF CleanUp
  <2> QED BY <2>1, <2>2
<1>9. CASE MoveMount
  <2>1. CASE ReturnLeaking("move")
    <3>1. /\ UNCHANGED <<mounts, dirs, deferred, failed, child>>
          /\ pc = "move" /\ pc' = "unwind"
        BY <2>1 DEF ReturnLeaking
    <3> QED BY <3>1, CleanUpKept DEF CleanUp
  <2>2. CASE ~ReturnLeaking("move") /\ call \in IdMapChecks
    <3>1. /\ "RemoveAll" \in deferred /\ deferred' = deferred \union {"umount clone"}
          /\ pc = "move" /\ child' = child
        BY <1>9, <2>2 DEF MoveMount, CleanUp
    <3> QED BY <3>1 DEF CleanUp
  <2>3. CASE ~ReturnLeaking("move") /\ call \notin IdMapChecks
    <3>1. /\ call = "IDMapMount" /\ pc = "move" /\ pc' = "unwind"
          /\ UNCHANGED <<dirs, deferred, failed, child>>
        BY <1>9, <2>3 DEF MoveMount, Control, Flow, Mapping, WithClone, IdMapChecks
    <3>2. mounts'["test"] = mounts["test"] /\ mounts'["lower"] = mounts["lower"]
        BY <1>9, <2>3, <3>1, PlaceType DEF MoveMount, Push, Typed, TypeOK, Places
    <3>3. Unremovable' = Unremovable
        BY <3>2 DEF Unremovable, Busy
    <3> QED BY <3>1, <3>3 DEF CleanUp
  <2> QED BY <2>1, <2>2, <2>3
<1>10. CASE TryOverlay \/ UnmountOverlay
    BY <1>10 DEF TryOverlay, UnmountOverlay, CleanUp
<1>11. CASE ChildEnds \/ Wait
  <2>1. /\ UNCHANGED <<mounts, dirs, deferred, failed, call>>
        /\ pc' = pc \/ (pc = "wait" /\ pc' = "unwind")
        /\ child' # "running"
      BY <1>11 DEF ChildEnds, Wait
  <2> QED BY <2>1, CleanUpKept DEF CleanUp
<1>12. CASE DeferredUnmount
  <2>1. PICK d \in Unmounts : Runs(d) /\ UNCHANGED <<pc, child, dirs>>
      BY <1>12 DEF DeferredUnmount, Unmounts
  <2>2. /\ "RemoveAll" \in deferred /\ deferred' = deferred \ {d} /\ d # "RemoveAll" /\ d # "kill"
        /\ pc = "unwind"
      BY <2>1 DEF Runs, CleanUp, Unmounts
  <2> QED BY <2>1, <2>2 DEF CleanUp
<1>13. CASE DeferredKill
  <2>1. /\ "RemoveAll" \in deferred /\ deferred' = deferred \ {"kill"} /\ child' = "reaped"
        /\ pc = "unwind" /\ pc' = pc
      BY <1>13 DEF DeferredKill, Runs, CleanUp
  <2> QED BY <2>1 DEF CleanUp
<1>14. CASE Finish
  <2>1. /\ UNCHANGED <<mounts, dirs, deferred, failed, child>> /\ deferred = {} /\ pc' = "idle"
        /\ pc = "unwind"
      BY <1>14 DEF Finish
  <2> QED BY <2>1, CleanUpKept DEF CleanUp
<1>15. CASE DeferredRemoveAll
  <2>1. deferred = {"RemoveAll"} /\ pc = "unwind" /\ deferred' = {}
      BY <1>15, RunsLast DEF DeferredRemoveAll
  <2>2. UNCHANGED <<mounts, pc, child>> /\ Unremovable' = Unremovable
      BY <1>15 DEF DeferredRemoveAll, Unremovable, Busy
  <2>3. dirs' = Unremovable \/ "RemoveAll" \in failed'
      BY <1>15 DEF DeferredRemoveAll
  <2> QED BY <2>1, <2>2, <2>3 DEF CleanUp
<1> QED BY <1>1, <1>2, <1>3, <1>4, <1>5, <1>6, <1>7, <1>8, <1>9, <1>10, <1>11, <1>12, <1>13,
           <1>14, <1>15
         DEF Next, Prepare, IdMapMount, Unwind

\* Pushing and popping, in these terms.
LEMMA DeeperByOne ==
    ASSUME Typed, NEW p \in {"test", "lower"}, NEW m \in Mount, Push(p, m)
    PROVE  /\ None(mounts[p]) => One(mounts'[p])
           /\ One(mounts[p]) => Two(mounts'[p])
           /\ \A q \in {"test", "lower"} : q # p => mounts'[q] = mounts[q]
<1>1. /\ mounts \in [Places -> Seq(Mount)] /\ p \in Places /\ mounts[p] \in Seq(Mount)
      /\ "test" \in Places /\ "lower" \in Places
    BY DEF Typed, TypeOK, Places
<1>2. /\ mounts'[p] # <<>> /\ Tail(mounts'[p]) = mounts[p]
      /\ \A q \in Places \ {p} : mounts'[q] = mounts[q]
    BY <1>1, PushMount
<1> QED BY <1>1, <1>2 DEF None, One, Two

LEMMA ShallowerByOne ==
    ASSUME Typed, NEW p \in {"test", "lower"}, Pop(p)
    PROVE  /\ One(mounts[p]) => None(mounts'[p])
           /\ Two(mounts[p]) => One(mounts'[p])
           /\ \A q \in {"test", "lower"} : q # p => mounts'[q] = mounts[q]
<1>1. /\ mounts \in [Places -> Seq(Mount)] /\ p \in Places /\ mounts[p] \in Seq(Mount)
      /\ "test" \in Places /\ "lower" \in Places
    BY DEF Typed, TypeOK, Places
<1>2. /\ mounts'[p] = IF mounts[p] = <<>> THEN <<>> ELSE Tail(mounts[p])
      /\ \A q \in Places \ {p} : mounts'[q] = mounts[q]
    BY <1>1, PopMount
<1> QED BY <1>1, <1>2 DEF None, One, Two

\* A mount and its unmount come and go together, unless the unmount fails.
LEMMA NextDepth == Typed /\ Control /\ Depth /\ [Next]_vars => Depth'
<1> SUFFICES ASSUME Typed, Control, Depth, [Next]_vars PROVE Depth'
    OBVIOUS
<1> USE DEF Depth, Due, MarkDue, OverlayDue, CloneDue, history
<1>1. CASE UNCHANGED vars
    BY <1>1 DEF vars
<1>2. CASE \E c \in Calls : Begin(c)
  <2>1. /\ mounts'["test"] = <<>> /\ mounts'["lower"] = <<>> /\ pc = "idle"
        /\ pc' # "umount overlay" /\ deferred' = deferred /\ failed' = {}
      BY <1>2, BeginMounts DEF Begin, Goto, Typed
  <2>2. \A d \in Unmounts : d \notin deferred
      BY <2>1 DEF Control, Deferring, Mapping, WithClone, Unmounts
  <2> QED BY <2>1, <2>2 DEF None, Unmounts
<1>3. ASSUME UNCHANGED <<mounts, call>>,
             pc' = "umount overlay" <=> pc = "umount overlay",
             \A d \in Unmounts : Due(d)' <=> Due(d)
      PROVE  Depth'
    BY <1>3 DEF Unmounts
<1>4. CASE GateIdMap \/ GateShiftfs \/ OnPath \/ MakeTempDir
    BY <1>3, <1>4 DEF GateIdMap, GateShiftfs, OnPath, MakeTempDir, Goto, Return, Control,
       Deferring, Unmounts
<1>5. CASE MakeDirs
    BY <1>3, <1>5 DEF MakeDirs, Goto, Return
<1>6. CASE CreateChild
    BY <1>3, <1>6 DEF CreateChild, Goto, Return, Unmounts
<1>7. CASE OpenUserns \/ OpenTree \/ MountSetattr
    BY <1>3, <1>7 DEF OpenUserns, OpenTree, MountSetattr, ReturnLeaking, Goto, Return
<1>8. CASE ChildEnds \/ Wait
    BY <1>3, <1>8 DEF ChildEnds, Wait, Goto, Return
<1>9. CASE DeferredKill \/ DeferredRemoveAll \/ Finish
    BY <1>3, <1>9 DEF DeferredKill, DeferredRemoveAll, Finish, Runs, Goto, Unmounts
<1>10. CASE MountOverlay
  <2>1. [fs |-> "overlay", mapped |-> FALSE] \in Mount
      BY DEF Mount, FileSystems
  <2>2. CASE Return("overlay", "error") /\ UNCHANGED <<mounts, deferred>>
      BY <1>3, <1>10, <2>2 DEF MountOverlay, MountFor, Return, Goto
  <2>3. CASE Push("test", [fs |-> "overlay", mapped |-> FALSE])
             /\ Goto("overlay", "mark") /\ deferred' = deferred \union {"umount overlay"}
    <3>1. ~MarkDue /\ ~OverlayDue /\ ~CloneDue("idmap") /\ ~CloneDue("idmapOverlay")
          /\ failed = {}
        BY <2>3 DEF Goto, Control, Deferring, Failing
    <3>2. One(mounts'["test"]) /\ mounts'["lower"] = mounts["lower"]
        BY <2>1, <2>3, <3>1, DeeperByOne
    <3>3. call' = call /\ failed' = failed
        BY <1>10 DEF MountOverlay, MountFor
    <3> QED BY <2>3, <3>1, <3>2, <3>3 DEF Goto
  <2> QED BY <1>10, <2>2, <2>3 DEF MountOverlay, MountFor
<1>11. CASE Mark
  <2>1. [fs |-> "shiftfs", mapped |-> FALSE] \in Mount
      BY DEF Mount
  <2>2. CASE Return("mark", "error") /\ UNCHANGED <<mounts, deferred>>
      BY <1>3, <1>11, <2>2 DEF Mark, MountFor, Return, Goto
  <2>3. CASE Push("test", [fs |-> "shiftfs", mapped |-> FALSE])
             /\ Goto("mark", "create") /\ deferred' = deferred \union {"umount mark"}
    <3>1. ~MarkDue /\ ~CloneDue("idmap") /\ ~CloneDue("idmapOverlay") /\ failed = {}
        BY <2>3 DEF Goto, Control, Deferring, Failing
    <3>2. /\ OverlayDue => Two(mounts'["test"])
          /\ ~OverlayDue => One(mounts'["test"])
          /\ mounts'["lower"] = mounts["lower"]
        BY <2>1, <2>3, <3>1, DeeperByOne
    <3>3. call' = call /\ failed' = failed
        BY <1>11 DEF Mark, MountFor
    <3> QED BY <2>3, <3>1, <3>2, <3>3 DEF Goto
  <2> QED BY <1>11, <2>2, <2>3 DEF Mark, MountFor
<1>12. CASE TryOverlay
  <2>1. [fs |-> "overlay", mapped |-> FALSE] \in Mount
      BY DEF Mount, FileSystems
  <2>2. CASE Return("try overlay", "error") /\ UNCHANGED mounts
      BY <1>3, <1>12, <2>2 DEF TryOverlay, Return, Goto
  <2>3. CASE Push("test", [fs |-> "overlay", mapped |-> FALSE])
             /\ Goto("try overlay", "umount overlay")
    <3>1. /\ ~MarkDue /\ ~OverlayDue /\ ~CloneDue("idmap")
          /\ deferred' = deferred /\ call' = call /\ failed' = failed
        BY <1>12, <2>3 DEF TryOverlay, Goto, Control, Flow, Deferring, Failing
    <3>2. One(mounts'["test"]) /\ mounts'["lower"] = mounts["lower"]
        BY <2>1, <2>3, <3>1, DeeperByOne
    <3> QED BY <2>3, <3>1, <3>2 DEF Goto
  <2> QED BY <1>12, <2>2, <2>3 DEF TryOverlay
<1>13. CASE UnmountOverlay
  <2>1. /\ pc = "umount overlay" /\ pc' = "unwind" /\ UnmountAnyway("umount overlay", "test")
        /\ deferred' = deferred /\ call' = call
      BY <1>13 DEF UnmountOverlay, Return, Goto
  <2>2. ~MarkDue /\ ~Due("umount overlay") /\ ~CloneDue("idmap")
      BY <2>1 DEF Control, Flow, Deferring, Failing, ShiftfsChecks
  <2>3. CASE Pop("test") /\ failed' = failed
    <3>1. None(mounts'["test"]) /\ mounts'["lower"] = mounts["lower"]
        BY <2>1, <2>2, <2>3, ShallowerByOne
    <3> QED BY <2>1, <2>2, <2>3, <3>1
  <2>4. CASE failed' = failed \union {"umount overlay"} /\ mounts' = mounts
      BY <2>1, <2>2, <2>4
  <2> QED BY <2>1, <2>3, <2>4 DEF UnmountAnyway
<1>14. CASE UnmountFirst
  <2>1. ReturnLeaking("unmount") \/ (Pop("target") /\ Goto("unmount", "move") /\ UNCHANGED <<call, deferred, failed>>)
      BY <1>14, PlaceType DEF UnmountFirst, Control, Flow, Goto
  <2>2. mounts'["test"] = mounts["test"] /\ mounts'["lower"] = mounts["lower"]
      BY <2>1 DEF ReturnLeaking, Pop, Typed, TypeOK, Places
  <2> QED BY <2>1, <2>2 DEF ReturnLeaking, Return, Goto
<1>15. CASE MoveMount
  <2>1. CASE ReturnLeaking("move")
      BY <1>3, <2>1 DEF ReturnLeaking, Return, Goto
  <2>2. CASE ~ReturnLeaking("move")
    <3>1. PICK m \in Mount : clone = <<m>>
        BY <1>15, <2>2 DEF MoveMount, Typed, WithClone
    <3>2. /\ Push(Place, m) /\ pc = "move" /\ pc' # "umount overlay" /\ call' = call
          /\ failed' = failed
          /\ deferred' = deferred \union (IF call \in IdMapChecks THEN {"umount clone"} ELSE {})
        BY <1>15, <2>2, <3>1 DEF MoveMount
    <3>3. ~MarkDue /\ ~OverlayDue /\ ~CloneDue("idmap") /\ ~CloneDue("idmapOverlay")
          /\ failed = {}
        BY <3>2 DEF Control, Deferring, Failing
    <3>4. CASE call = "IDMapMount"
      <4>1. mounts'["test"] = mounts["test"] /\ mounts'["lower"] = mounts["lower"]
          BY <3>2, <3>4, PlaceType DEF Push, Typed, TypeOK, Places
      <4> QED BY <3>2, <3>3, <3>4, <4>1 DEF IdMapChecks
    <3>5. CASE call = "idmap"
      <4>1. One(mounts'["test"]) /\ mounts'["lower"] = mounts["lower"]
          BY <3>2, <3>3, <3>5, PlaceType, DeeperByOne
      <4> QED BY <3>2, <3>3, <3>5, <4>1 DEF IdMapChecks
    <3>6. CASE call = "idmapOverlay"
      <4>1. One(mounts'["lower"]) /\ mounts'["test"] = mounts["test"]
          BY <3>2, <3>3, <3>6, PlaceType, DeeperByOne
      <4> QED BY <3>2, <3>3, <3>6, <4>1 DEF IdMapChecks
    <3> QED BY <3>2, <3>4, <3>5, <3>6 DEF Control, Flow, Mapping, WithClone, IdMapChecks
  <2> QED BY <2>1, <2>2
<1>16. CASE DeferredUnmount
  <2>1. pc' = pc /\ call' = call /\ pc = "unwind"
      BY <1>16 DEF DeferredUnmount, Runs
  <2>2. ASSUME NEW d \in Unmounts, Runs(d), failed' = failed \union {d}, mounts' = mounts
        PROVE  Depth'
    <3>1. d \in deferred /\ deferred' = deferred \ {d}
        BY <2>2 DEF Runs
    <3> QED BY <1>3, <2>1, <2>2, <3>1
  <2>3. ASSUME NEW d \in Unmounts, Runs(d), UNCHANGED failed
        PROVE  /\ d \in deferred /\ d \notin failed
               /\ \A e \in Unmounts : Due(e)' <=> Due(e) /\ e # d
    BY <2>3 DEF Runs, Control, Failing
  <2>4. CASE Runs("umount clone") /\ Pop(Place) /\ UNCHANGED failed
    <3>1. /\ "umount clone" \in deferred
          /\ \A e \in Unmounts : Due(e)' <=> Due(e) /\ e # "umount clone"
        BY <2>3, <2>4 DEF Unmounts
    <3>2. ~MarkDue /\ (call = "idmap" => ~OverlayDue) /\ call \in {"idmap", "idmapOverlay"}
      <4>1. call \in IdMapChecks
          BY <3>1 DEF Control, Deferring
      <4>2. "umount mark" \notin failed /\ (call = "idmap" => "umount overlay" \notin failed)
          BY <4>1 DEF Control, Failing, IdMapChecks, ShiftfsChecks
      <4> QED BY <2>1, <3>1, <4>1, <4>2 DEF Control, Deferring, IdMapChecks, ShiftfsChecks
    <3>3. CASE call = "idmap"
      <4>1. None(mounts'["test"]) /\ mounts'["lower"] = mounts["lower"]
          BY <2>4, <3>1, <3>3, PlaceType, ShallowerByOne
      <4> QED BY <2>1, <3>1, <3>2, <3>3, <4>1 DEF Unmounts
    <3>4. CASE call = "idmapOverlay"
      <4>1. None(mounts'["lower"]) /\ mounts'["test"] = mounts["test"]
          BY <2>4, <3>1, <3>4, PlaceType, ShallowerByOne
      <4> QED BY <2>1, <3>1, <3>2, <3>4, <4>1 DEF Unmounts
    <3> QED BY <3>2, <3>3, <3>4
  <2>5. ASSUME NEW d \in {"umount mark", "umount overlay"}, Runs(d), Pop("test"),
               UNCHANGED failed
        PROVE  Depth'
    <3>1. d \in deferred /\ \A e \in Unmounts : Due(e)' <=> Due(e) /\ e # d
        BY <2>3, <2>5 DEF Unmounts
    <3>2. ~CloneDue("idmap") /\ ~CloneDue("idmapOverlay")
        BY <3>1 DEF Control, Deferring, Failing, ShiftfsChecks, IdMapChecks
    <3>3. /\ MarkDue /\ OverlayDue => One(mounts'["test"])
          /\ ~MarkDue \/ ~OverlayDue => None(mounts'["test"])
          /\ mounts'["lower"] = mounts["lower"]
        BY <2>5, <3>1, ShallowerByOne
    <3>4. CASE d = "umount mark"
        BY <2>1, <3>1, <3>2, <3>3, <3>4 DEF Unmounts
    <3>5. CASE d = "umount overlay"
        BY <2>1, <3>1, <3>2, <3>3, <3>5 DEF Unmounts
    <3> QED BY <3>4, <3>5
  <2> QED BY <1>16, <2>2, <2>4, <2>5 DEF DeferredUnmount, UnmountAnyway, Unmounts
<1> QED BY <1>1, <1>2, <1>4, <1>5, <1>6, <1>7, <1>8, <1>9, <1>10, <1>11, <1>12, <1>13,
           <1>14, <1>15, <1>16
         DEF Next, Prepare, IdMapMount, Unwind

\* The first half of the invariant: clean-up.
CInv == Typed /\ Control /\ Depth /\ CleanUp

LEMMA Clean == Spec => []CInv
<1>1. CInv /\ [Next]_vars => CInv'
    BY NextTyped, NextControl, NextDepth, NextCleanUp DEF CInv
<1> QED BY InitTyped, <1>1, PTL DEF Spec, CInv

(***************************************************************************)
(* Every variable of a call has a value of its kind.                       *)
(***************************************************************************)
THEOREM TypeCorrect == Spec => []TypeOK
BY Clean, PTL DEF CInv, Typed

(***************************************************************************)
(* Whatever step of a check fails, the clean-up included, on any kernel    *)
(* and after any calls: no child runs on, a mount is left exactly where an *)
(* unmount failed whose error the check ignores, and a directory only      *)
(* under such a mount, or where its own removal failed.                    *)
(***************************************************************************)
THEOREM NothingLeftAlways == Spec => []NothingLeft
<1>1. CInv => NothingLeft
  <2> SUFFICES ASSUME CInv, pc = "idle", call # "none" PROVE NothingLeft
      BY DEF NothingLeft, Returned
  <2> USE DEF CInv, Control
  <2>1. \A d \in {"RemoveAll", "kill", "umount overlay", "umount mark", "umount clone"} :
            d \notin deferred
      BY DEF Deferring, Mapping, WithClone
  <2>2. /\ child # "running"
        /\ "RemoveAll" \notin failed => dirs = Unremovable
      BY <2>1 DEF CleanUp, Due
  <2>3. /\ MarkDue <=> "umount mark" \in failed
        /\ OverlayDue <=> "umount overlay" \in failed
        /\ \A c : CloneDue(c) <=> "umount clone" \in failed /\ call = c
      BY <2>1 DEF Due, MarkDue, OverlayDue, CloneDue
  <2>4. "umount clone" \in failed => call \in IdMapChecks
      BY DEF Failing
  <2>5. mounts["test"] # <<>> <=> failed \intersect UnmountsAt("test") # {}
    <3>1. failed \intersect UnmountsAt("test") # {} <=>
              MarkDue \/ OverlayDue \/ CloneDue("idmap")
        BY <2>3, <2>4, PlaceType DEF UnmountsAt, IdMapChecks
    <3> QED BY <3>1 DEF Depth, None, One, Two
  <2>6. mounts["lower"] # <<>> <=> failed \intersect UnmountsAt("lower") # {}
    <3>1. failed \intersect UnmountsAt("lower") # {} <=> CloneDue("idmapOverlay")
        BY <2>3, <2>4, PlaceType DEF UnmountsAt, IdMapChecks
    <3> QED BY <3>1 DEF Depth, None, One
  <2> QED BY <2>2, <2>5, <2>6 DEF NothingLeft
<1> QED BY Clean, <1>1, PTL

-----------------------------------------------------------------------------
(* The mounts of the target. *)

\* What it is on the way there.
Target ==
    /\ call \notin {"none", "IDMapMount"} => mounts["target"] = before
    /\ call = "IDMapMount" =>
         /\ pc \in Mapping \ {"move"} => mounts["target"] = before
         /\ pc = "setattr" => clone = <<OldTop>>
         /\ pc \in {"unmount", "move"} => clone = <<[OldTop EXCEPT !.mapped = TRUE]>>
         /\ pc = "move" /\ first = TRUE => before # <<>> /\ mounts["target"] = Tail(before)
         /\ pc = "move" /\ first = FALSE => mounts["target"] = before
         /\ pc \notin Mapping => Replaced \/ Refused \/ Lost

\* Nobody but IDMapMount of a caller touches the target.
LEMMA TargetKept ==
    ASSUME Typed, Control, Next, call # "IDMapMount" \/ pc \notin {"unmount", "move"}
    PROVE  mounts'["target"] = mounts["target"]
<1>1. mounts \in [Places -> Seq(Mount)] /\ "target" \in Places
    BY DEF Typed, TypeOK, Places
<1>2. CASE Still
    BY <1>2, StillMounts
<1>3. ASSUME NEW p \in Places \ {"target"}, NEW m, Push(p, m) \/ Pop(p)
      PROVE  mounts'["target"] = mounts["target"]
    BY <1>1, <1>3 DEF Push, Pop
<1>4. CASE MountOverlay \/ Mark
    BY <1>3, <1>4 DEF MountOverlay, Mark, MountFor, Places
<1>5. CASE TryOverlay \/ UnmountOverlay
    BY <1>3, <1>5 DEF TryOverlay, UnmountOverlay, UnmountAnyway, Places
<1>6. CASE DeferredUnmount
  <2>1. CASE Runs("umount clone") /\ Pop(Place)
    <3>1. Place \in Places \ {"target"}
        BY <2>1, PlaceType DEF Runs, Control, Deferring, IdMapChecks
    <3> QED BY <1>3, <2>1, <3>1
  <2>2. CASE Pop("test") \/ UNCHANGED mounts
      BY <1>3, <2>2 DEF Places
  <2> QED BY <1>6, <2>1, <2>2 DEF DeferredUnmount, UnmountAnyway
<1>7. CASE UnmountFirst
  <2>1. CASE ReturnLeaking("unmount")
      BY <2>1 DEF ReturnLeaking
  <2>2. CASE pc = "unmount" /\ Pop(Place)
    <3>1. Place \in Places \ {"target"}
        BY <2>2, PlaceType
    <3> QED BY <1>3, <2>2, <3>1
  <2> QED BY <1>7, <2>1, <2>2 DEF UnmountFirst, Goto
<1>8. CASE MoveMount
  <2>1. CASE ReturnLeaking("move")
      BY <2>1 DEF ReturnLeaking
  <2>2. CASE pc = "move" /\ Push(Place, clone[1])
    <3>1. Place \in Places \ {"target"}
        BY <2>2, PlaceType
    <3> QED BY <1>3, <2>2, <3>1
  <2> QED BY <1>8, <2>1, <2>2 DEF MoveMount
<1>9. CASE \E c \in Calls : Begin(c)
    BY <1>9, BeginMounts DEF Typed
<1> QED BY <1>2, <1>4, <1>5, <1>6, <1>7, <1>8, <1>9, Steps

\* A call is a call until the next one begins.
LEMMA CallStays ==
    ASSUME Next, ~\E c \in Calls : Begin(c)
    PROVE  UNCHANGED <<call, first, before, calls>>
<1>1. CASE \/ GateIdMap \/ GateShiftfs \/ OnPath \/ Prepare
    BY <1>1 DEF GateIdMap, GateShiftfs, OnPath, Prepare, MakeTempDir, MakeDirs, MountOverlay,
       Mark, MountFor, CreateChild, history
<1>2. CASE IdMapMount
    BY <1>2 DEF IdMapMount, OpenUserns, OpenTree, MountSetattr, UnmountFirst, MoveMount,
       ReturnLeaking, history
<1>3. CASE TryOverlay \/ UnmountOverlay \/ ChildEnds \/ Wait \/ Unwind
    BY <1>3 DEF TryOverlay, UnmountOverlay, UnmountAnyway, ChildEnds, Wait, Unwind,
       DeferredUnmount, DeferredKill, DeferredRemoveAll, Finish, history
<1> QED BY <1>1, <1>2, <1>3 DEF Next

\* Each step of IDMapMount does to the target what Target says.
LEMMA NextTarget ==
    Typed /\ Control /\ Target /\ [Next]_vars => Target'
<1> SUFFICES ASSUME Typed, Control, Target, [Next]_vars PROVE Target'
    OBVIOUS
<1>1. /\ mounts \in [Places -> Seq(Mount)] /\ "target" \in Places
      /\ mounts["target"] \in Seq(Mount)
      /\ first \in BOOLEAN /\ pc \in Points
    BY DEF Typed, TypeOK, Places
<1> DEFINE Mapped == [OldTop EXCEPT !.mapped = TRUE]
<1>2. CASE UNCHANGED vars
  <2>1. UNCHANGED <<fsOf, mounts, call, first, pc, answer, clone, leaked, before>>
      BY <1>2 DEF vars, host, history
  <2> QED BY <2>1 DEF Target, Replaced, Refused, Lost, OldTop
<1>3. CASE \E c \in Calls : Begin(c)
  <2>1. /\ mounts'["target"] = before' /\ pc' \in {"gate", "open"}
        /\ call' # "IDMapMount" => pc' = "gate"
        /\ call' = "IDMapMount" => pc' = "open"
      BY <1>3, BeginMounts DEF Begin, Goto, Typed
  <2> QED BY <2>1 DEF Target, Mapping, WithClone
<1>4. ASSUME Next, ~(\E c \in Calls : Begin(c)), call # "IDMapMount" PROVE Target'
    BY <1>4, CallStays, TargetKept DEF Target
<1>5. ASSUME Next, ~(\E c \in Calls : Begin(c)), call = "IDMapMount" PROVE Target'
  <2>1. UNCHANGED <<call, first, before>>
      BY <1>5, CallStays
  <2>2. OldTop' = OldTop /\ Mapped' = Mapped
      BY <2>1, HostStays DEF host, OldTop
  <2>3. \A d \in {"RemoveAll", "kill", "umount overlay", "umount mark", "umount clone"} :
            d \notin deferred
      BY <1>5 DEF Control, Deferring, Checks, IdMapChecks, ShiftfsChecks
  <2> USE DEF Goto, Return, Mapping, WithClone
  <2> HIDE DEF Mapped
  <2>4. CASE UNCHANGED <<mounts, answer, leaked>> /\ pc \notin Mapping /\ pc' \notin Mapping
    <3>1. (Replaced' <=> Replaced) /\ (Refused' <=> Refused) /\ (Lost' <=> Lost)
        BY <2>1, <2>2, <2>4 DEF Replaced, Refused, Lost
    <3> QED BY <1>5, <2>1, <2>4, <3>1 DEF Target
  <2>5. CASE \/ GateIdMap \/ GateShiftfs \/ OnPath \/ Prepare
             \/ TryOverlay \/ UnmountOverlay \/ Wait
    <3>1. pc \notin {"mkdtemp", "mkdir", "create", "overlay", "mark", "wait",
                     "try overlay", "umount overlay"}
        BY <1>5 DEF Control, Flow, Checks, IdMapChecks, ShiftfsChecks
    <3>2. ~(GateIdMap \/ GateShiftfs \/ OnPath)
        BY <1>5 DEF GateIdMap, GateShiftfs, OnPath, IdMapChecks, ShiftfsChecks
    <3>3. ~(MakeTempDir \/ MakeDirs \/ MountOverlay \/ Mark \/ CreateChild)
        BY <3>1 DEF MakeTempDir, MakeDirs, MountOverlay, Mark, MountFor, CreateChild
    <3>4. ~(TryOverlay \/ UnmountOverlay \/ Wait)
        BY <3>1 DEF TryOverlay, UnmountOverlay, Wait
    <3> QED BY <2>5, <3>2, <3>3, <3>4 DEF Prepare
  <2>6. CASE DeferredUnmount \/ DeferredKill \/ DeferredRemoveAll
      BY <2>3, <2>6 DEF DeferredUnmount, DeferredKill, DeferredRemoveAll, Runs
  <2>7. CASE ChildEnds
    <3>1. UNCHANGED <<mounts, pc, answer, clone, leaked>>
        BY <2>7 DEF ChildEnds
    <3>2. (Replaced' <=> Replaced) /\ (Refused' <=> Refused) /\ (Lost' <=> Lost)
        BY <2>1, <2>2, <3>1 DEF Replaced, Refused, Lost
    <3> QED BY <2>1, <2>2, <3>1, <3>2 DEF Target, Mapped
  <2>8. CASE Finish
      BY <2>4, <2>8 DEF Finish
  <2>9. ASSUME mounts["target"] = before, mounts' = mounts, answer' = "error", pc' = "unwind"
        PROVE  Target'
    <3>1. Refused'
        BY <2>1, <2>9 DEF Refused
    <3> QED BY <1>5, <2>1, <2>9, <3>1 DEF Target
  <2>10. CASE OpenUserns
    <3>1. /\ pc = "open" /\ mounts' = mounts
          /\ pc' = "clone" \/ (pc' = "unwind" /\ answer' = "error")
        BY <2>10 DEF OpenUserns
    <3>2. mounts["target"] = before
        BY <1>5, <3>1 DEF Target
    <3>3. CASE pc' = "clone"
        BY <1>5, <2>1, <3>1, <3>2, <3>3 DEF Target
    <3> QED BY <2>9, <3>1, <3>2, <3>3
  <2>11. CASE OpenTree
    <3>1. /\ pc = "clone" /\ mounts' = mounts
          /\ \/ pc' = "setattr" /\ clone' = <<Top(Place)>>
             \/ pc' = "unwind" /\ answer' = "error"
        BY <2>11 DEF OpenTree
    <3>2. mounts["target"] = before
        BY <1>5, <3>1 DEF Target
    <3>3. CASE pc' = "setattr"
      <4>1. Top(Place) = OldTop
          BY <1>5, <3>2, PlaceType DEF Top, OldTop
      <4> QED BY <1>5, <2>1, <2>2, <3>1, <3>2, <3>3, <4>1 DEF Target
    <3> QED BY <2>9, <3>1, <3>2, <3>3
  <2>12. CASE MountSetattr
    <3>1. /\ pc = "setattr" /\ mounts' = mounts
          /\ \/ pc' \in {"unmount", "move"} /\ clone' = <<[clone[1] EXCEPT !.mapped = TRUE]>>
                /\ pc' = (IF first THEN "unmount" ELSE "move")
             \/ pc' = "unwind" /\ answer' = "error"
        BY <2>12 DEF MountSetattr, ReturnLeaking
    <3>2. mounts["target"] = before /\ clone = <<OldTop>>
        BY <1>5, <3>1 DEF Target
    <3>3. CASE pc' \in {"unmount", "move"}
      <4>1. clone' = <<Mapped>>
          BY <3>1, <3>2, <3>3 DEF Mapped
      <4>2. first = TRUE => pc' = "unmount"
          BY <3>1, <3>3
      <4> QED BY <1>5, <2>1, <2>2, <3>1, <3>2, <3>3, <4>1, <4>2 DEF Target, Mapped
    <3> QED BY <2>9, <3>1, <3>2, <3>3
  <2>13. CASE UnmountFirst
    <3>1. pc = "unmount" /\ mounts["target"] = before /\ first = TRUE /\ clone = <<Mapped>>
      <4>1. pc = "unmount"
          BY <2>13 DEF UnmountFirst, ReturnLeaking
      <4> QED BY <1>5, <4>1 DEF Target, Control, Flow, Mapped
    <3>2. CASE ReturnLeaking("unmount")
        BY <2>9, <3>1, <3>2 DEF ReturnLeaking
    <3>3. CASE ~ReturnLeaking("unmount")
      <4>1. Pop("target") /\ before # <<>> /\ pc' = "move" /\ clone' = clone
          BY <1>5, <2>13, <3>1, <3>3, PlaceType DEF UnmountFirst
      <4>2. mounts'["target"] = Tail(before)
          BY <1>1, <3>1, <4>1 DEF Pop
      <4> QED BY <1>5, <2>1, <2>2, <3>1, <4>1, <4>2 DEF Target, Mapped
    <3> QED BY <3>2, <3>3
  <2>14. CASE MoveMount
    <3>1. /\ pc = "move" /\ pc' = "unwind" /\ clone = <<Mapped>>
          /\ first = TRUE => before # <<>> /\ mounts["target"] = Tail(before)
          /\ first = FALSE => mounts["target"] = before
      <4>1. pc = "move" /\ pc' = "unwind"
          BY <1>5, <2>14 DEF MoveMount, ReturnLeaking
      <4> QED BY <1>5, <4>1 DEF Target, Mapped
    <3>2. CASE ReturnLeaking("move")
      <4>1. answer' = "error" /\ leaked' = TRUE /\ mounts' = mounts
          BY <3>2 DEF ReturnLeaking
      <4>2. first = TRUE => Lost'
          BY <2>1, <3>1, <4>1 DEF Lost
      <4>3. first = FALSE => Refused'
          BY <2>1, <3>1, <4>1 DEF Refused
      <4> QED BY <1>1, <1>5, <2>1, <3>1, <4>2, <4>3 DEF Target
    <3>3. CASE ~ReturnLeaking("move")
      <4>1. PICK m \in Mount : clone = <<m>>
          BY <3>1 DEF Typed
      <4>2. Push("target", m) /\ answer' = "ok" /\ m = Mapped
        <5>1. clone[1] = m /\ m = Mapped
            BY <3>1, <4>1
        <5>2. Push(Place, clone[1]) /\ answer' = "ok"
            BY <1>5, <2>14, <3>3 DEF MoveMount
        <5> QED BY <1>5, <5>1, <5>2, PlaceType
      <4>3. /\ mounts'["target"] # <<>> /\ Head(mounts'["target"]) = Mapped
            /\ Tail(mounts'["target"]) = mounts["target"]
          BY <1>1, <4>2, PushMount
      <4>4. Replaced'
          BY <1>1, <2>1, <2>2, <3>1, <4>2, <4>3 DEF Replaced, Mapped
      <4> QED BY <1>5, <2>1, <3>1, <4>4 DEF Target
    <3> QED BY <3>2, <3>3
  <2> QED BY <1>5, <2>5, <2>6, <2>7, <2>8, <2>10, <2>11, <2>12, <2>13, <2>14
          DEF Next, IdMapMount, Unwind
<1> QED BY <1>2, <1>3, <1>4, <1>5

LEMMA TargetHolds == Spec => []Target
<1>1. Init => Target
    BY DEF Init, Target, Mapping, WithClone
<1>2. CInv /\ Target /\ [Next]_vars => Target'
    BY NextTarget DEF CInv
<1> QED BY <1>1, <1>2, Clean, PTL DEF Spec

(***************************************************************************)
(* An IDMapMount that answers ok has put the mapped clone of the top mount *)
(* in its place or above it; one that answers an error has changed nothing *)
(* or lost the mount it had unmounted; no other call touches the target.   *)
(***************************************************************************)
THEOREM TargetMountAlways == Spec => []TargetMount
<1>1. Target => TargetMount
    BY DEF Target, TargetMount, Returned, Mapping, WithClone
<1> QED BY <1>1, TargetHolds, PTL

-----------------------------------------------------------------------------
(* What a yes is worth. *)

\* The release tells the kernel's version, or nothing that can be parsed.
Release == rel \in {<<kernel[1], kernel[2], Text>>, <<kernel[1], Text>>}

OnTarget == fsOf["target"] = "ext4" \/ (fsOf["target"] = "tmpfs" /\ Since(6, 3))

\* What each step of a call has shown by the time it is done.
Shown ==
    /\ pc \in Running => answer = "none"
    /\ pc \in WithClone /\ call \in IdMapChecks => clone[1].fs = fsOf[Place]
    /\ pc \in {"unmount", "move"} => Mappable(clone[1].fs)
    /\ pc \in {"try overlay", "umount overlay"} => Mappable(fsOf["lower"])
    /\ pc = "umount overlay" => Since(5, 19)
    /\ child = "exited 0" => shiftfs = "working"

Truth ==
    answer = "yes" =>
      /\ call = "idmap" => Mappable(fsOf["test"])
      /\ call = "idmapOverlay" => Mappable(fsOf["lower"]) /\ Since(5, 19)
      /\ call \in ShiftfsChecks => shiftfs = "working"
      /\ call = "onPath" => OnTarget

\* The version an ID-map check asks for.
Wanted == IF call = "idmap" THEN Since(5, 12) ELSE Since(5, 19)

Refusal == answer = "no" /\ call \in IdMapChecks => ~Wanted

Agreed ==
    /\ "idmap" \in yes => Since(5, 12)
    /\ "onPath" \in yes => OnTarget

\* On a kernel that reports its version, the two comparisons are the kernel's.
LEMMA Comparisons ==
    ASSUME TypeOK, Release, Parsable(rel)
    PROVE  /\ Compare(rel, 6, 3) >= 0 => Since(6, 3)
           /\ AtLeast(rel, 5, 12) <=> Since(5, 12)
           /\ AtLeast(rel, 5, 19) <=> Since(5, 19)
<1>1. kernel \in Nat \X Nat
    BY KernelType
<1>2. rel = <<kernel[1], kernel[2], Text>>
    BY DEF Release, Parsable
<1>3. rel[1] = kernel[1] /\ rel[2] = kernel[2] /\ kernel[1] \in Nat /\ kernel[2] \in Nat
    BY <1>1, <1>2
<1> QED BY <1>3 DEF Compare, AtLeast, Parse, Since

LEMMA OlderToo == TypeOK => (Since(6, 3) => Since(5, 12))
<1> SUFFICES ASSUME TypeOK, Since(6, 3) PROVE Since(5, 12)
    OBVIOUS
<1>1. kernel[1] \in Nat /\ kernel[2] \in Nat
    BY KernelType
<1> QED BY <1>1 DEF Since

\* What depends on the host only stays as it is.
LEMMA HostFacts ==
    ASSUME [Next]_vars
    PROVE  /\ Release' <=> Release
           /\ OnTarget' <=> OnTarget
           /\ \A fs : Mappable(fs)' <=> Mappable(fs)
           /\ Since(5, 12)' <=> Since(5, 12)
           /\ Since(5, 19)' <=> Since(5, 19)
           /\ fsOf' = fsOf /\ shiftfs' = shiftfs
<1>1. UNCHANGED <<kernel, rel, fsOf, shiftfs>>
    BY HostStays DEF host
<1> QED BY <1>1 DEF Release, OnTarget, Mappable, Since

LEMMA NextShown == CInv /\ Shown /\ [Next]_vars => Shown'
<1> SUFFICES ASSUME CInv, Shown, [Next]_vars PROVE Shown'
    OBVIOUS
<1> USE DEF CInv, Running, WithClone, Goto, Return
<1>1. pc \in Points
    BY DEF Typed
<1>2. CASE UNCHANGED vars
  <2>1. UNCHANGED <<host, call, pc, answer, child, clone>>
      BY <1>2 DEF vars
  <2> QED BY <2>1, HostFacts DEF Shown, Place
<1>3. CASE \E c \in Calls : Begin(c)
  <2>1. /\ pc' \in {"open", "gate"} /\ answer' = "none" /\ child' = "none"
      BY <1>3 DEF Begin
  <2> QED BY <2>1 DEF Shown
<1>4. ASSUME Next, ~\E c \in Calls : Begin(c) PROVE Shown'
  <2>1. call' = call /\ Place' = Place
      BY <1>4, CallStays DEF Place
  <2> USE <2>1, HostFacts
  <2>2. CASE GateIdMap \/ GateShiftfs \/ OnPath
      BY <2>2 DEF GateIdMap, GateShiftfs, OnPath, Shown, Points
  <2>3. CASE MakeTempDir \/ MakeDirs
      BY <2>3 DEF MakeTempDir, MakeDirs, Shown, Points
  <2>4. CASE MountOverlay \/ Mark \/ CreateChild
      BY <2>4 DEF MountOverlay, Mark, MountFor, CreateChild, Shown, Points
  <2>5. CASE OpenUserns
      BY <2>5 DEF OpenUserns, Shown, Points
  <2>6. CASE OpenTree
    <3>1. call \in IdMapChecks => Top(Place) = [fs |-> fsOf[Place], mapped |-> FALSE]
      <4>1. pc = "clone"
          BY <2>6 DEF OpenTree
      <4>2. ~MarkDue /\ ~OverlayDue /\ ~CloneDue("idmap") /\ ~CloneDue("idmapOverlay")
          BY <4>1 DEF Control, Deferring, Failing, Due, MarkDue, OverlayDue, CloneDue
      <4>3. mounts["test"] = <<>> /\ mounts["lower"] = <<>>
          BY <4>2 DEF Depth, None
      <4>4. call \in IdMapChecks => Place \in {"test", "lower"}
          BY PlaceType DEF IdMapChecks
      <4> QED BY <4>3, <4>4 DEF Top
    <3>2. /\ pc = "clone" /\ pc' \in {"setattr", "unwind"}
          /\ pc' = "setattr" => clone' = <<Top(Place)>> /\ answer' = answer
          /\ child' = child
        BY <2>6 DEF OpenTree
    <3>3. pc' = "setattr" /\ call \in IdMapChecks => clone'[1].fs = fsOf[Place]
        BY <3>1, <3>2
    <3>4. answer' = "none" \/ pc' = "unwind"
        BY <3>2 DEF Shown, Points
    <3>5. pc' \in {"setattr", "unwind"} /\ (child' = "exited 0" => shiftfs = "working")
        BY <3>2 DEF Shown
    <3> QED BY <3>3, <3>4, <3>5 DEF Shown, Points
  <2>7. ASSUME NEW from, ReturnLeaking(from) PROVE Shown'
      BY <2>7 DEF ReturnLeaking, Shown, Points
  <2>8. CASE MountSetattr
    <3>1. CASE ReturnLeaking("setattr")
        BY <2>7, <3>1
    <3>2. CASE ~ReturnLeaking("setattr")
      <4>1. /\ pc = "setattr" /\ pc' \in {"unmount", "move"}
            /\ Mappable(clone[1].fs)
            /\ clone' = <<[clone[1] EXCEPT !.mapped = TRUE]>>
            /\ answer' = answer /\ child' = child
          BY <2>8, <3>2 DEF MountSetattr
      <4>2. PICK m \in Mount : clone = <<m>>
          BY <4>1 DEF Typed
      <4>3. clone'[1].fs = clone[1].fs
          BY <4>1, <4>2 DEF Mount
      <4> QED BY <4>1, <4>3 DEF Shown, Points
    <3> QED BY <3>1, <3>2
  <2>9. CASE UnmountFirst
      BY <2>7, <2>9 DEF UnmountFirst, Shown, Points
  <2>10. CASE MoveMount
    <3>1. CASE ReturnLeaking("move")
        BY <2>7, <3>1
    <3>2. CASE ~ReturnLeaking("move")
      <4>1. /\ pc = "move" /\ child' = child
            /\ pc' = IF call = "idmapOverlay" THEN "try overlay" ELSE "unwind"
            /\ call = "idmapOverlay" => answer' = answer
          BY <2>10, <3>2 DEF MoveMount
      <4>2. call = "idmapOverlay" => Mappable(fsOf["lower"])
          BY <4>1, PlaceType DEF Shown, IdMapChecks
      <4> QED BY <4>1, <4>2 DEF Shown, Points
    <3> QED BY <3>1, <3>2
  <2>11. CASE TryOverlay \/ UnmountOverlay
      BY <2>11 DEF TryOverlay, UnmountOverlay, Shown, Points
  <2>12. CASE ChildEnds
      BY <2>12 DEF ChildEnds, Shown, Points
  <2>13. CASE Wait
      BY <2>13 DEF Wait, Shown, Points
  <2>14. CASE Unwind
      BY <2>14 DEF Unwind, DeferredUnmount, DeferredKill, DeferredRemoveAll, Runs, Finish,
         Shown, Points
  <2> QED BY <1>4, <2>2, <2>3, <2>4, <2>5, <2>6, <2>8, <2>9, <2>10, <2>11, <2>12, <2>13, <2>14
           DEF Next, Prepare, IdMapMount
<1> QED BY <1>2, <1>3, <1>4

\* An answer is given in few places.
LEMMA NextTruth == CInv /\ Shown /\ Release /\ Truth /\ [Next]_vars => Truth'
<1> SUFFICES ASSUME CInv, Shown, Release, Truth, [Next]_vars, answer' = "yes" PROVE Truth'
    BY DEF Truth
<1> USE DEF CInv, Goto, Return
<1>1. ASSUME answer' = answer, call' = call PROVE Truth'
    BY <1>1, HostFacts DEF Truth
<1>2. CASE UNCHANGED vars
    BY <1>1, <1>2 DEF vars
<1>3. CASE \E c \in Calls : Begin(c)
    BY <1>3 DEF Begin
<1>4. ASSUME Next, ~\E c \in Calls : Begin(c) PROVE Truth'
  <2>1. call' = call
      BY <1>4, CallStays
  <2>2. CASE answer' = answer
      BY <1>1, <2>1, <2>2
  <2>3. CASE GateIdMap \/ GateShiftfs \/ Prepare \/ TryOverlay
      BY <1>1, <2>1, <2>3 DEF GateIdMap, GateShiftfs, Prepare, MakeTempDir, MakeDirs,
         MountOverlay, Mark, MountFor, CreateChild, TryOverlay
  <2>4. CASE OnPath
    <3>1. call = "onPath" /\ SupportedOn(Top("target").fs) = "yes"
        BY <2>4 DEF OnPath
    <3>2. Top("target").fs = fsOf["target"] /\ fsOf["target"] \in FileSystems
      <4>1. Top("target") \in TargetMounts
          BY TopType DEF Places
      <4> QED BY <4>1 DEF TargetMounts, Typed, TypeOK, Places
    <3>3. fsOf["target"] = "tmpfs" => Since(6, 3)
      <4> SUFFICES ASSUME fsOf["target"] = "tmpfs" PROVE Since(6, 3)
          OBVIOUS
      <4>1. Parsable(rel) /\ ~(Compare(rel, 6, 3) < 0)
          BY <3>1, <3>2 DEF SupportedOn
      <4>2. Compare(rel, 6, 3) \in {1, 0, -1}
          BY DEF Compare
      <4> QED BY <4>1, <4>2, Comparisons DEF Typed
    <3>4. fsOf["target"] # "overlay"
        BY <3>1, <3>2 DEF SupportedOn
    <3>5. OnTarget
        BY <3>2, <3>3, <3>4 DEF OnTarget, FileSystems
    <3> QED BY <2>1, <3>1, <3>5, HostFacts DEF Truth, ShiftfsChecks
  <2>5. CASE OpenUserns \/ OpenTree \/ MountSetattr \/ UnmountFirst
      BY <1>1, <2>1, <2>5 DEF OpenUserns, OpenTree, MountSetattr, UnmountFirst, ReturnLeaking
  <2>6. CASE MoveMount
    <3>1. ~ReturnLeaking("move")
        BY DEF ReturnLeaking
    <3>2. CASE answer' = answer
        BY <1>1, <2>1, <3>2
    <3>3. CASE answer' # answer
      <4>1. call = "idmap" /\ pc = "move"
          BY <2>6, <3>1, <3>3 DEF MoveMount
      <4>2. Mappable(fsOf["test"])
          BY <4>1, PlaceType DEF Shown, WithClone, IdMapChecks
      <4> QED BY <2>1, <4>1, <4>2, HostFacts DEF Truth, ShiftfsChecks
    <3> QED BY <3>2, <3>3
  <2>7. CASE UnmountOverlay
    <3>1. pc = "umount overlay"
        BY <2>7 DEF UnmountOverlay
    <3>2. call = "idmapOverlay" /\ Mappable(fsOf["lower"]) /\ Since(5, 19)
        BY <3>1 DEF Shown, Control, Flow
    <3> QED BY <2>1, <3>2, HostFacts DEF Truth, ShiftfsChecks
  <2>8. CASE Wait
    <3>1. pc = "wait" /\ child = "exited 0"
        BY <2>8 DEF Wait, Verdict
    <3>2. call \in ShiftfsChecks /\ shiftfs = "working"
        BY <3>1 DEF Shown, Control, Flow
    <3> QED BY <2>1, <3>2, HostFacts DEF Truth, ShiftfsChecks
  <2>9. CASE ChildEnds \/ Unwind
      BY <1>1, <2>1, <2>9 DEF ChildEnds, Unwind, DeferredUnmount, DeferredKill,
         DeferredRemoveAll, Finish
  <2> QED BY <1>4, <2>3, <2>4, <2>5, <2>6, <2>7, <2>8, <2>9 DEF Next, IdMapMount
<1> QED BY <1>2, <1>3, <1>4

\* An ID-map check says no at its gate only, in a step.
LEMMA NextRefusal == CInv /\ Shown /\ Release /\ Refusal /\ [Next]_vars => Refusal'
<1> SUFFICES ASSUME CInv, Shown, Release, Refusal, [Next]_vars,
                    answer' = "no", call' \in IdMapChecks
             PROVE  ~Wanted'
    BY DEF Refusal
<1> USE DEF CInv, Goto, Return
<1>1. ASSUME answer' = answer, call' = call PROVE ~Wanted'
    BY <1>1, HostFacts DEF Refusal, Wanted
<1>2. CASE UNCHANGED vars
    BY <1>1, <1>2 DEF vars
<1>3. CASE \E c \in Calls : Begin(c)
    BY <1>3 DEF Begin
<1>4. ASSUME Next, ~\E c \in Calls : Begin(c) PROVE ~Wanted'
  <2>1. call' = call /\ call \in IdMapChecks
      BY <1>4, CallStays
  <2>2. CASE answer' = answer
      BY <1>1, <2>1, <2>2
  <2>3. CASE GateIdMap
    <3>1. CASE answer' # answer
      <4>1. Parsable(rel) /\ ~AtLeast(rel, 5, IF call = "idmap" THEN 12 ELSE 19)
          BY <2>3, <3>1 DEF GateIdMap
      <4>2. ~Wanted
        <5>1. CASE call = "idmap"
            BY <4>1, <5>1, Comparisons DEF Wanted, Typed
        <5>2. CASE call # "idmap"
            BY <4>1, <5>2, Comparisons DEF Wanted, Typed
        <5> QED BY <5>1, <5>2
      <4> QED BY <2>1, <4>2, HostFacts DEF Wanted
    <3> QED BY <2>2, <3>1
  <2>4. CASE Prepare \/ TryOverlay \/ UnmountOverlay
      BY <1>1, <2>1, <2>4 DEF Prepare, MakeTempDir, MakeDirs, MountOverlay, Mark, MountFor,
         CreateChild, TryOverlay, UnmountOverlay
  <2>5. CASE IdMapMount
      BY <1>1, <2>1, <2>5 DEF IdMapMount, OpenUserns, OpenTree, MountSetattr, UnmountFirst,
         MoveMount, ReturnLeaking
  <2>6. CASE GateShiftfs \/ OnPath
      BY <2>1, <2>6 DEF GateShiftfs, OnPath, IdMapChecks, ShiftfsChecks
  <2>7. CASE Wait
    <3>1. pc = "wait"
        BY <2>7 DEF Wait
    <3> QED BY <2>1, <3>1 DEF Control, Flow, IdMapChecks, ShiftfsChecks
  <2>8. CASE ChildEnds \/ Unwind
      BY <1>1, <2>1, <2>8 DEF ChildEnds, Unwind, DeferredUnmount, DeferredKill,
         DeferredRemoveAll, Finish
  <2> QED BY <1>4, <2>3, <2>4, <2>5, <2>6, <2>7, <2>8 DEF Next
<1> QED BY <1>2, <1>3, <1>4

\* Only Finish adds to the calls that answered yes.
LEMMA NextAgreed == CInv /\ Truth /\ Agreed /\ [Next]_vars => Agreed'
<1> SUFFICES ASSUME CInv, Truth, Agreed, [Next]_vars PROVE Agreed'
    OBVIOUS
<1>1. CASE yes' = yes
    BY <1>1, HostFacts DEF Agreed
<1>2. CASE Finish
  <2>1. yes' = yes \union (IF answer = "yes" THEN {call} ELSE {})
      BY <1>2 DEF Finish
  <2>2. answer = "yes" /\ call = "idmap" => Since(5, 12)
    <3> SUFFICES ASSUME Mappable(fsOf["test"]) PROVE Since(5, 12)
        BY DEF Truth
    <3> QED BY OlderToo DEF Mappable, CInv, Typed
  <2>3. answer = "yes" /\ call = "onPath" => OnTarget
      BY DEF Truth
  <2> QED BY <2>1, <2>2, <2>3, HostFacts DEF Agreed
<1>3. CASE UNCHANGED vars
    BY <1>1, <1>3 DEF vars, history
<1>4. CASE (\E c \in Calls : Begin(c)) \/ GateIdMap \/ GateShiftfs \/ OnPath \/ Prepare
    BY <1>1, <1>4 DEF Begin, GateIdMap, GateShiftfs, OnPath, Prepare, MakeTempDir, MakeDirs,
       MountOverlay, Mark, MountFor, CreateChild, history
<1>5. CASE IdMapMount
    BY <1>1, <1>5 DEF IdMapMount, OpenUserns, OpenTree, MountSetattr, UnmountFirst, MoveMount,
       ReturnLeaking, history
<1>6. CASE TryOverlay \/ UnmountOverlay \/ ChildEnds \/ Wait \/ DeferredUnmount
           \/ DeferredKill \/ DeferredRemoveAll
    BY <1>1, <1>6 DEF TryOverlay, UnmountOverlay, UnmountAnyway, ChildEnds, Wait, DeferredUnmount,
       DeferredKill, DeferredRemoveAll, history
<1> QED BY <1>2, <1>3, <1>4, <1>5, <1>6 DEF Next, Unwind

VInv == Shown /\ Release /\ Truth /\ Refusal /\ Agreed

LEMMA TruthHolds == Spec => []VInv
<1>1. Init => VInv
    BY DEF Init, VInv, Shown, Release, Truth, Refusal, Agreed, Running, WithClone, Points
<1>2. CInv /\ VInv /\ [Next]_vars => VInv'
    BY NextShown, NextTruth, NextRefusal, NextAgreed, HostFacts DEF VInv
<1> QED BY <1>1, <1>2, Clean, PTL DEF Spec

(***************************************************************************)
(* A check that answers yes is right about the kernel, and an ID-map check *)
(* that answers no, whatever release string the kernel reports and however *)
(* the children of the checks end.                                         *)
(***************************************************************************)
THEOREM AnswerIsTrueAlways == Spec => []AnswerIsTrue
<1>1. VInv => AnswerIsTrue
    BY DEF VInv, Truth, Refusal, Wanted, AnswerIsTrue, ShiftfsChecks, IdMapChecks
<1> QED BY <1>1, TruthHolds, PTL

(***************************************************************************)
(* A yes of IDMapMountSupported and one of IDMapMountSupportedOnPath, of   *)
(* two separate calls, mean together that the kernel maps what is mounted  *)
(* on the path.                                                            *)
(***************************************************************************)
THEOREM TwoYesesAreEnoughAlways == Spec => []TwoYesesAreEnough
<1>1. CInv /\ VInv => TwoYesesAreEnough
  <2> SUFFICES ASSUME CInv, VInv, "idmap" \in yes, "onPath" \in yes
               PROVE  Mappable(Top("target").fs)
      BY DEF TwoYesesAreEnough
  <2>1. Top("target").fs = fsOf["target"]
    <3>1. Top("target") \in TargetMounts
        BY TopType DEF CInv, Places
    <3> QED BY <3>1 DEF TargetMounts
  <2>2. Since(5, 12) /\ OnTarget
      BY DEF VInv, Agreed
  <2> QED BY <2>1, <2>2 DEF OnTarget, Mappable
<1> QED BY <1>1, Clean, TruthHolds, PTL
=============================================================================
