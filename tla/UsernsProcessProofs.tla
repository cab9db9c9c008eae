------------------------- MODULE UsernsProcessProofs -------------------------
(***************************************************************************)
(* Safety of the user-namespace process, for any number of attempts. What  *)
(* the child may conclude at each of its steps it knows from what it did:  *)
(* a second map file, a user id of 0, a group id of 0, a success.          *)
(***************************************************************************)
EXTENDS UsernsProcess, TLAPS

\* A mapping found in either file means that the uid mapping was written, as
\* the parent writes it first; the child reaches gid_map with a mapping found.
FoundInv ==
    /\ gidMap = "ours" => uidMap = "ours"
    /\ foundMapping => uidMap = "ours"
    /\ mapFile = "gid_map" => foundMapping

\* Who became root had the mapping for it, and a success had both.
RootInv ==
    /\ child = "experiment" => gidMap = "ours"
    /\ status = "success" => supported /\ uidMap = "ours" /\ gidMap = "ours"

\* Before the clone there is no child; only a pause mounts and kills.
ParentInv ==
    /\ parent = "clone" => child = "unborn"
    /\ parent = "gid_map" => uidMap = "ours"
    /\ parent \in {"mount", "kill"} => caller = "pause"

Inv ==
    /\ TypeOK
    /\ FoundInv
    /\ RootInv
    /\ ParentInv
    /\ ExecHasUidMap
    /\ NoChildLeft
    /\ YesIsTrue

LEMMA InvInit == ASSUME Init PROVE Inv
<1>1. TypeOK
  <2>1. tries \in 0..Attempts
    BY UsernsProcessAssumption DEF Init
  <2> QED BY <2>1 DEF Init, TypeOK
<1>2. FoundInv /\ RootInv /\ ParentInv
  BY DEF Init, FoundInv, RootInv, ParentInv
<1>3. ExecHasUidMap /\ NoChildLeft /\ YesIsTrue
  BY DEF Init, ExecHasUidMap, InExec, NoChildLeft, Running, YesIsTrue
<1> QED BY <1>1, <1>2, <1>3 DEF Inv

LEMMA ParentStep == ASSUME Inv, Parent \/ ParentDies \/ ReapedByAnother PROVE Inv'
<1> USE DEF Inv, TypeOK, FoundInv, RootInv, ParentInv, ExecHasUidMap, InExec,
            NoChildLeft, Running, YesIsTrue, world, childVars, childLocals,
            KillChild, EndChild
<1>1. CASE Clone
  BY <1>1 DEF Clone
<1>2. CASE WriteMap
  BY <1>2, UsernsProcessAssumption DEF WriteMap
<1>3. CASE WriteMapFails
  BY <1>3 DEF WriteMapFails
<1>4. CASE Mount
  BY <1>4 DEF Mount
<1>5. CASE Kill
  BY <1>5 DEF Kill
\* The verdict of a probe says yes to a success only.
<1>6. CASE Wait
  BY <1>6 DEF Wait, Verdict
<1>7. CASE ParentDies
  BY <1>7 DEF ParentDies
\* Without a status there is no verdict.
<1>8. CASE WaitFails
  BY <1>8 DEF WaitFails
<1>9. CASE ReapedByAnother
  BY <1>9 DEF ReapedByAnother
<1> QED BY <1>1, <1>2, <1>3, <1>4, <1>5, <1>6, <1>7, <1>8, <1>9 DEF Parent

LEMMA ChildStep == ASSUME Inv, Child PROVE Inv'
<1> USE DEF Inv, TypeOK, FoundInv, RootInv, ParentInv, ExecHasUidMap, InExec,
            NoChildLeft, Running, YesIsTrue, world, childVars, childLocals, EndChild
<1>1. CASE Prctl
  BY <1>1 DEF Prctl
\* On to the second file, or to the function: with the uid mapping found.
<1>2. CASE ReadMapping
  BY <1>2, UsernsProcessAssumption DEF ReadMapping, NextFile, MapOf
<1>3. CASE ReadNothing
  BY <1>3, UsernsProcessAssumption DEF ReadNothing
<1>4. CASE EndOfAttempts
  BY <1>4, UsernsProcessAssumption DEF EndOfAttempts, NextFile
<1>5. CASE BecomeRoot
  BY <1>5 DEF BecomeRoot
<1>6. CASE Experiment
  BY <1>6 DEF Experiment
<1>7. CASE PauseReturns
  BY <1>7 DEF PauseReturns
<1>8. CASE KillGroup
  BY <1>8 DEF KillGroup
<1> QED BY <1>1, <1>2, <1>3, <1>4, <1>5, <1>6, <1>7, <1>8 DEF Child

LEMMA InvStep == ASSUME Inv, [Next]_vars PROVE Inv'
<1>1. CASE UNCHANGED vars
  BY <1>1 DEF vars, world, childVars, Inv, TypeOK, FoundInv, RootInv, ParentInv,
              ExecHasUidMap, InExec, NoChildLeft, Running, YesIsTrue
<1> QED BY <1>1, ParentStep, ChildStep DEF Next

(***************************************************************************)
(* Every state of parent and child satisfies the invariant; the properties *)
(* below are parts of it.                                                  *)
(***************************************************************************)
THEOREM Invariant == Spec => []Inv
<1>1. Inv /\ [Next]_vars => Inv'
  BY InvStep
<1> QED BY <1>1, InvInit, PTL DEF Spec

(***************************************************************************)
(* The types; in particular the child reads a map file Attempts times at   *)
(* most.                                                                   *)
(***************************************************************************)
THEOREM TypeCorrect == Spec => []TypeOK
  BY Invariant, PTL DEF Inv

(***************************************************************************)
(* The function given to CreateUsernsProcess runs with a uid mapping.      *)
(***************************************************************************)
THEOREM ExecHasUidMapAlways == Spec => []ExecHasUidMap
  BY Invariant, PTL DEF Inv

(***************************************************************************)
(* A caller that has its answer left no child running.                     *)
(***************************************************************************)
THEOREM NoChildLeftAlways == Spec => []NoChildLeft
  BY Invariant, PTL DEF Inv

(***************************************************************************)
(* A check answers yes only to an experiment that succeeded as root of a   *)
(* namespace with both mappings, although the function may be started      *)
(* without the gid mapping: becoming root there would fail.                *)
(***************************************************************************)
THEOREM YesIsTrueAlways == Spec => []YesIsTrue
  BY Invariant, PTL DEF Inv
=============================================================================
