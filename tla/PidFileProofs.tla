---------------------------- MODULE PidFileProofs ----------------------------
(***************************************************************************)
(* Instances exclude each other, for any number of pids, until two of them *)
(* overlap inside CreatePidFile. An instance that may still write the file *)
(* must know that nobody serves; it learns so from the file, which names   *)
(* whoever serves, or from the pid it read there. An overlap breaks all of *)
(* this, and all of it holds again once no instance is active: the         *)
(* argument asks nothing of what the file then says.                       *)
(***************************************************************************)
EXTENDS PidFile, TLAPS

\* Only an instance has a place in the program.
InstanceInv == \A p \in Pids : pc[p] # "none" => exe[p] = "program"

\* One instance at a time is inside CreatePidFile.
CreatorInv == \A p, q \in Pids : Creating(p) /\ Creating(q) => p = q

\* An instance that read a pid read that of whoever still serves; one that is
\* past the check has nobody to disturb.
CheckInv ==
    \A p, q \in Pids : pc[q] = "serving" =>
        /\ pc[p] = "exe" => seen[p] = q
        /\ pc[p] \notin {"open", "write"}

\* What is open for writing stays empty until it is written.
WriteInv == \A p \in Pids : pc[p] = "write" => file \notin Pids

\* The file names whoever serves.
NameInv == \A p \in Pids : pc[p] = "serving" => file = p

Orderly == CreatorInv /\ CheckInv /\ WriteInv /\ NameInv

Inv == TypeOK /\ InstanceInv /\ (~overlapped => Orderly)

LEMMA TypeStep == ASSUME TypeOK, [Next]_vars PROVE TypeOK'
<1> USE DEF TypeOK, Contents, Goto
<1>0. CASE Next
  <2>0. overlapped' \in BOOLEAN
    BY <1>0 DEF Next, RecordOverlap
  <2> USE <2>0
  <2>1. ASSUME NEW p \in Pids, StartInstance(p) PROVE TypeOK'
    BY <2>1 DEF StartInstance
  <2>2. ASSUME NEW p \in Pids, StartOther(p) PROVE TypeOK'
    BY <2>2 DEF StartOther
  <2>3. ASSUME NEW p \in Pids, End(p) PROVE TypeOK'
    BY <2>3 DEF End
  <2>4. ASSUME NEW p \in Pids, ReadFile(p) PROVE TypeOK'
    BY <2>4 DEF ReadFile
  <2>5. ASSUME NEW p \in Pids, ReadExe(p) PROVE TypeOK'
    BY <2>5 DEF ReadExe
  <2>6. ASSUME NEW p \in Pids, OpenTruncated(p) PROVE TypeOK'
    BY <2>6 DEF OpenTruncated
  <2>7. ASSUME NEW p \in Pids, Write(p) PROVE TypeOK'
    BY <2>7 DEF Write
  <2>8. ASSUME NEW p \in Pids, WriteFails(p) PROVE TypeOK'
    BY <2>8 DEF WriteFails
  <2>9. ASSUME NEW p \in Pids, Destroy(p) PROVE TypeOK'
    BY <2>9 DEF Destroy
  <2> QED BY <1>0, <2>1, <2>2, <2>3, <2>4, <2>5, <2>6, <2>7, <2>8, <2>9 DEF Next, Step
<1>1. CASE UNCHANGED vars
  BY <1>1 DEF vars
<1> QED BY <1>0, <1>1

LEMMA InstanceStep == ASSUME TypeOK, InstanceInv, [Next]_vars PROVE InstanceInv'
<1> USE DEF TypeOK, InstanceInv, Goto
<1>1. ASSUME NEW p \in Pids, Step(p) PROVE InstanceInv'
  BY <1>1 DEF Step, StartInstance, StartOther, End, ReadFile, ReadExe,
              OpenTruncated, Write, WriteFails, Destroy
<1>2. CASE UNCHANGED vars
  BY <1>2 DEF vars
<1> QED BY <1>1, <1>2 DEF Next

\* Nothing is asked of instances that are not active.
LEMMA IdleIsOrderly == ASSUME \A p \in Pids : ~Active(p) PROVE Orderly
BY DEF Orderly, Active, Creating, CreatorInv, CheckInv, WriteInv, NameInv

\* A step that does not bring two instances into CreatePidFile keeps the order.
LEMMA OrderlyStep ==
    ASSUME TypeOK, InstanceInv, Orderly, NEW p \in Pids, Step(p), ~Overlap'
    PROVE  Orderly'
<1>0. CreatorInv'
  BY DEF Overlap, CreatorInv
<1> USE <1>0, PidFileAssumption DEF TypeOK, InstanceInv, Orderly, CreatorInv, CheckInv,
                 WriteInv, NameInv, Creating, Contents, Goto
<1>1. CASE StartInstance(p)
  BY <1>1 DEF StartInstance
<1>2. CASE StartOther(p)
  BY <1>2 DEF StartOther
<1>3. CASE End(p)
  BY <1>3 DEF End
\* Whoever serves is named by the file, so it is the pid that was read.
<1>4. CASE ReadFile(p)
  BY <1>4 DEF ReadFile
\* If somebody serves, the pid that was read runs the program.
<1>5. CASE ReadExe(p)
  BY <1>5 DEF ReadExe
<1>6. CASE OpenTruncated(p)
  BY <1>6 DEF OpenTruncated
<1>7. CASE Write(p)
  BY <1>7 DEF Write
<1>8. CASE WriteFails(p)
  BY <1>8 DEF WriteFails
<1>9. CASE Destroy(p)
  BY <1>9 DEF Destroy
<1> QED BY <1>1, <1>2, <1>3, <1>4, <1>5, <1>6, <1>7, <1>8, <1>9 DEF Step

LEMMA InvStep == ASSUME Inv, [Next]_vars PROVE Inv'
<1>0. TypeOK' /\ InstanceInv'
  BY TypeStep, InstanceStep DEF Inv
<1>1. ASSUME Next, ~overlapped' PROVE Orderly'
  <2>1. CASE \A p \in Pids : ~Active(p)'
    BY <2>1 DEF Orderly, Active, Creating, CreatorInv, CheckInv, WriteInv, NameInv
  <2>2. CASE ~overlapped /\ ~Overlap'
    BY <1>1, <2>2, OrderlyStep DEF Inv, Next
  <2> QED BY <1>1, <2>1, <2>2 DEF Next, RecordOverlap
<1>2. CASE UNCHANGED vars
  BY <1>2 DEF vars, Inv, TypeOK, InstanceInv, Orderly, CreatorInv, CheckInv, WriteInv,
              NameInv, Creating
<1> QED BY <1>0, <1>1, <1>2 DEF Inv

LEMMA Invariant == Spec => []Inv
<1>1. Init => Inv
  <2> SUFFICES ASSUME Init PROVE Inv
    OBVIOUS
  <2>1. TypeOK /\ InstanceInv
    BY DEF Init, TypeOK, InstanceInv, Contents
  <2>2. Orderly
    BY IdleIsOrderly DEF Init, Active, Creating
  <2> QED BY <2>1, <2>2 DEF Inv
<1>2. Inv /\ [Next]_vars => Inv'
  BY InvStep
<1> QED BY <1>1, <1>2, PTL DEF Spec

(***************************************************************************)
(* A file that another process serves under is never taken: CreatePidFile  *)
(* refuses a second instance, whatever crashed and whichever pids were     *)
(* reused, until two instances overlap inside it, and again once those who *)
(* were active since then are gone. The file can name one pid only.        *)
(***************************************************************************)
THEOREM OneServingAlways == Spec => []OneServing
<1>1. Inv => OneServing
  BY DEF Inv, Orderly, NameInv, OneServing
<1> QED BY <1>1, Invariant, PTL

(***************************************************************************)
(* The file names the serving instance: no check and no clean-up of another*)
(* instance takes it away, with the same exception.                        *)
(***************************************************************************)
THEOREM ServingIsNamedAlways == Spec => []ServingIsNamed
<1>1. Inv => ServingIsNamed
  BY DEF Inv, Orderly, NameInv, ServingIsNamed
<1> QED BY <1>1, Invariant, PTL
=============================================================================
