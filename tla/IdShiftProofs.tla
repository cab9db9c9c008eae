---------------------------- MODULE IdShiftProofs ----------------------------
(***************************************************************************)
(* Proofs about IdShift for every tree, every width of ids and every       *)
(* sequence of calls, failures and crashes: its types, that one call never *)
(* shifts an owner twice, what a call that succeeds has done, and that two *)
(* calls with opposite offsets undo each other.                            *)
(***************************************************************************)
EXTENDS IdShift, SequenceTheorems, FiniteSetTheorems, TLAPS

\* The map of hard links holds owners as the call found them, shifted; it
\* knows every inode with several links that the walk visited.
LinksInv ==
    /\ \A i \in Inodes : hardLinks[i] # NotSeen =>
          hardLinks[i] = Shift(before[i].owner, offset)
    /\ pc # "idle" => \A i \in Inodes :
          ManyLinks(i) /\ Visited(i) => hardLinks[i] # NotSeen
    /\ pc = "idle" => hardLinks = [i \in Inodes |-> NotSeen]

\* The callback works on an inode exactly when it is between its system calls.
AtInv == at \in Inodes <=> pc \in {"chmod", "acl", "defacl"}

Inv == TypeOK /\ AtInv /\ LinksInv /\ OwnerShiftedOnce
-----------------------------------------------------------------------------
\* An id and an offset make an id.
LEMMA ShiftType ==
    ASSUME NEW id \in Int, NEW by \in Int PROVE Shift(id, by) \in Ids
BY IdShiftAssumption DEF Shift, Ids

\* The owner given to an inode is an id.
LEMMA TargetType ==
    ASSUME TypeOK, NEW i \in Inodes PROVE Target(i) \in Ids
<1>1. disk[i].owner \in Int /\ offset \in Int
  BY IdShiftAssumption DEF TypeOK, Metadata, Ids
<1>2. Shift(disk[i].owner, offset) \in Ids
  BY <1>1, ShiftType
<1> QED BY <1>2 DEF Target, TypeOK

\* The disk after the lchown of inode i.
LEMMA ChownDisk ==
    ASSUME TypeOK, NEW n \in Names, Chown(n)
    PROVE  LET i == inode[n] IN
           /\ disk' \in [Inodes -> Metadata]
           /\ disk'[i].owner = Chowned(disk[i].owner, Target(i))
           /\ \A j \in Inodes \ {i} : disk'[j] = disk[j]
<1> DEFINE i == inode[n]
           owner == Chowned(disk[i].owner, Target(i))
           entry == [disk[i] EXCEPT !.owner = owner, !.setid = FALSE]
<1>1. i \in Inodes /\ disk[i] \in Metadata
  BY DEF TypeOK
<1>2. owner \in Ids
  BY <1>1, TargetType DEF Chowned, Metadata
<1>3. disk' = [disk EXCEPT ![i] = entry]
  BY DEF Chown
<1> HIDE DEF owner
<1>4. entry \in Metadata /\ entry.owner = owner
  BY <1>1, <1>2 DEF Metadata
<1> HIDE DEF entry
<1>5. disk' \in [Inodes -> Metadata] /\ disk'[i] = entry
  BY <1>1, <1>3, <1>4 DEF TypeOK
<1>6. \A j \in Inodes \ {i} : disk'[j] = disk[j]
  BY <1>3 DEF TypeOK
<1> QED BY <1>4, <1>5, <1>6 DEF owner

\* What the steps after the lchown may do to the disk.
SameOwners == disk' \in [Inodes -> Metadata] /\ \A j \in Inodes : disk'[j].owner = disk[j].owner

\* The probe for lists may remove one.
LEMMA CheckKeepsOwners == ASSUME TypeOK, CheckACLSupport PROVE SameOwners
<1>1. Root \in Inodes /\ disk[Root] \in Metadata /\ NoAcl \in Acls
  BY IdShiftAssumption DEF TypeOK, Acls
<1>2. CASE disk' = disk
  BY <1>2 DEF SameOwners, TypeOK
<1>3. CASE disk' = [disk EXCEPT ![Root].acl = NoAcl]
  BY <1>1, <1>3 DEF SameOwners, TypeOK, Metadata
<1> QED BY <1>2, <1>3 DEF CheckACLSupport

\* The chmod sets the bits.
LEMMA ChmodKeepsOwners == ASSUME TypeOK, AtInv, Chmod PROVE SameOwners
BY DEF Chmod, AtInv, SameOwners, TypeOK, Metadata

\* The shift of a list writes ids.
LEMMA AclKeepsOwners ==
    ASSUME TypeOK, AtInv, ShiftAcl \/ ShiftDefaultAcl PROVE SameOwners
<1>1. at \in Inodes /\ disk[at] \in Metadata
  BY DEF AtInv, ShiftAcl, ShiftDefaultAcl, TypeOK
<1>2. ASSUME NEW id \in Acls, id # NoAcl PROVE Shift(id, offset) \in Acls
  <2>1. id \in Int
    BY <1>2 DEF Acls, Ids
  <2> QED BY <2>1, ShiftType DEF TypeOK, Acls
<1>3. CASE UNCHANGED disk
  BY <1>3 DEF SameOwners, TypeOK
<1>4. CASE disk[at].acl # NoAcl /\ disk' = [disk EXCEPT ![at].acl = Shift(@, offset)]
  <2>1. Shift(disk[at].acl, offset) \in Acls
    BY <1>1, <1>2, <1>4 DEF Metadata
  <2> QED BY <1>1, <1>4, <2>1 DEF SameOwners, TypeOK, Metadata
<1>5. CASE disk[at].defacl # NoAcl /\ disk' = [disk EXCEPT ![at].defacl = Shift(@, offset)]
  <2>1. Shift(disk[at].defacl, offset) \in Acls
    BY <1>1, <1>2, <1>5 DEF Metadata
  <2> QED BY <1>1, <1>5, <2>1 DEF SameOwners, TypeOK, Metadata
<1> QED BY <1>3, <1>4, <1>5 DEF ShiftAcl, ShiftDefaultAcl

-----------------------------------------------------------------------------
\* The first visit of an inode's links records it, later ones leave it.
LEMMA TrackType ==
    ASSUME TypeOK, NEW i \in Inodes, Track(i)
    PROVE  hardLinks' \in [Inodes -> Ids \union {NotSeen}]
BY TargetType DEF Track, TypeOK

\* Every step preserves the types.
LEMMA TypeStep == ASSUME TypeOK, AtInv, [Next]_vars PROVE TypeOK' /\ AtInv'
<1>1. NotSeen \notin Inodes
  BY IdShiftAssumption
<1>2. CASE Start
  <2>1. SameOwners
    BY <1>2, CheckKeepsOwners DEF Start
  <2>2. offset' \in Int /\ aclSupported' \in BOOLEAN
    BY <1>2, IdShiftAssumption DEF Start, CheckACLSupport
  <2> QED BY <1>2, <2>1, <2>2 DEF Start, SameOwners, TypeOK, AtInv, tree
<1>3. ASSUME NEW n \in Names, Chown(n) PROVE TypeOK' /\ AtInv'
  <2>1. inode[n] \in Inodes
    BY DEF TypeOK
  <2>2. hardLinks' \in [Inodes -> Ids \union {NotSeen}]
    BY <1>3, <2>1, TrackType DEF Chown
  <2>3. disk' \in [Inodes -> Metadata]
    BY <1>3, ChownDisk
  <2>4. /\ pc' \in {"walk", "chmod", "acl"}
        /\ at' = IF pc' = "walk" THEN NotSeen ELSE inode[n]
    BY <1>3 DEF Chown, Goto
  <2>5. UNCHANGED <<inode, original, before, offset, aclSupported, results>>
        /\ todo' = todo \ {n}
    BY <1>3 DEF Chown, tree
  <2>6. AtInv' /\ at' \in Inodes \union {NotSeen}
    BY <1>1, <2>1, <2>4 DEF AtInv
  <2> QED BY <2>2, <2>3, <2>4, <2>5, <2>6 DEF TypeOK
<1>4. ASSUME NEW n \in Names, Skip(n) PROVE TypeOK' /\ AtInv'
  <2>1. inode[n] \in Inodes
    BY DEF TypeOK
  <2>2. hardLinks' \in [Inodes -> Ids \union {NotSeen}]
    BY <1>4, <2>1, TrackType DEF Skip
  <2> QED BY <1>4, <2>2 DEF Skip, TypeOK, AtInv, tree
<1>5. CASE Chmod
  <2>1. SameOwners
    BY <1>5, ChmodKeepsOwners
  <2> QED BY <1>1, <1>5, <2>1 DEF Chmod, Goto, SameOwners, TypeOK, AtInv, tree
<1>6. CASE ShiftAcl \/ ShiftDefaultAcl
  <2>1. SameOwners
    BY <1>6, AclKeepsOwners
  <2> QED BY <1>1, <1>6, <2>1
          DEF ShiftAcl, ShiftDefaultAcl, Goto, SameOwners, TypeOK, AtInv, tree
<1>7. CASE Finish \/ Halt
  <2>1. PICK outcome \in {"success", "failure"} : End(outcome)
    BY <1>7 DEF Finish, Halt
  <2>2. results' \in Seq([offset : Int, acl : BOOLEAN, outcome : {"success", "failure"}])
    BY <2>1, AppendProperties DEF End, TypeOK
  <2>3. pc' = "idle" /\ at' = NotSeen /\ hardLinks' = [i \in Inodes |-> NotSeen]
    BY <2>1 DEF End
  <2>4. UNCHANGED <<inode, disk, original, before, offset, aclSupported, todo>>
    BY <2>1 DEF End, tree
  <2> QED BY <1>1, <2>2, <2>3, <2>4 DEF TypeOK, AtInv
<1>8. CASE UNCHANGED vars
  BY <1>8 DEF vars, TypeOK, AtInv
<1> QED BY <1>2, <1>3, <1>4, <1>5, <1>6, <1>7, <1>8 DEF Next

\* An inode counts as visited when one of its links was.
LEMMA VisitedAfter ==
    ASSUME TypeOK, NEW n \in todo, todo' = todo \ {n}, UNCHANGED inode,
           NEW j \in Inodes
    PROVE  Visited(j)' <=> Visited(j) \/ j = inode[n]
BY DEF Visited, TypeOK

\* The links of an inode are those of its names.
LEMMA LinksAfter ==
    ASSUME UNCHANGED inode, NEW j \in Inodes PROVE ManyLinks(j)' <=> ManyLinks(j)
BY DEF ManyLinks

\* A visit aims at the owner the call found, shifted, whichever link it is.
LEMMA TargetIsShifted ==
    ASSUME Inv, NEW n \in todo, pc = "walk"
    PROVE  Target(inode[n]) = Shift(before[inode[n]].owner, offset)
<1> DEFINE i == inode[n]
<1>1. i \in Inodes /\ n \in Names
  BY DEF Inv, TypeOK
<1>2. CASE ManyLinks(i) /\ hardLinks[i] # NotSeen
  BY <1>1, <1>2 DEF Target, Inv, LinksInv
<1>3. CASE ~(ManyLinks(i) /\ hardLinks[i] # NotSeen)
  <2>1. ~Visited(i)
    BY <1>1, <1>3 DEF Inv, LinksInv, ManyLinks, Visited
  <2>2. disk[i].owner = before[i].owner
    BY <1>1, <2>1 DEF Inv, OwnerShiftedOnce
  <2> QED BY <1>3, <2>2 DEF Target
<1> QED BY <1>2, <1>3

\* So a visit records the shifted owner, once.
LEMMA TrackKeepsLinks ==
    ASSUME Inv, NEW n \in todo, pc = "walk", pc' # "idle",
           Track(inode[n]), todo' = todo \ {n}, UNCHANGED <<inode, before, offset>>
    PROVE  LinksInv'
<1> DEFINE i == inode[n]
<1>1. TypeOK /\ i \in Inodes
  BY DEF Inv, TypeOK
<1>2. Target(i) = Shift(before[i].owner, offset)
  BY TargetIsShifted
<1>3. Target(i) # NotSeen
  BY <1>1, TargetType, IdShiftAssumption
<1>4. \A j \in Inodes :
        hardLinks'[j] = IF j = i /\ ManyLinks(i) THEN Target(i) ELSE hardLinks[j]
  BY <1>1 DEF Track, TypeOK
<1>5. ASSUME NEW j \in Inodes, hardLinks'[j] # NotSeen
      PROVE  hardLinks'[j] = Shift(before[j].owner, offset)
  BY <1>2, <1>4, <1>5 DEF Inv, LinksInv
<1>6. ASSUME NEW j \in Inodes, ManyLinks(j)', Visited(j)' PROVE hardLinks'[j] # NotSeen
  BY <1>1, <1>3, <1>4, <1>6, VisitedAfter, LinksAfter DEF Inv, LinksInv
<1>7. UNCHANGED <<before, offset>>
  OBVIOUS
<1> QED BY <1>5, <1>6, <1>7 DEF LinksInv, Shift

\* Every step preserves the invariant.
LEMMA InvStep == ASSUME Inv, [Next]_vars PROVE Inv'
<1>1. TypeOK /\ AtInv /\ LinksInv /\ OwnerShiftedOnce /\ TypeOK' /\ AtInv'
  BY TypeStep DEF Inv
<1> SUFFICES LinksInv' /\ OwnerShiftedOnce'
  BY <1>1 DEF Inv
<1>2. CASE Start
  <2>1. SameOwners /\ before' = disk /\ todo' = Names /\ hardLinks' = hardLinks
        /\ inode' = inode /\ pc = "idle" /\ pc' = "walk"
    BY <1>1, <1>2, CheckKeepsOwners DEF Start, tree
  <2>2. \A i \in Inodes : ~Visited(i)'
    BY <2>1 DEF Visited
  <2>3. \A i \in Inodes : hardLinks'[i] = NotSeen
    BY <1>1, <2>1 DEF LinksInv
  <2>4. LinksInv'
    BY <2>1, <2>2, <2>3 DEF LinksInv
  <2>5. \A i \in Inodes : disk'[i].owner = before'[i].owner
    BY <2>1 DEF SameOwners
  <2> QED BY <2>2, <2>4, <2>5 DEF OwnerShiftedOnce
<1>3. ASSUME NEW n \in Names, Chown(n) PROVE LinksInv' /\ OwnerShiftedOnce'
  <2> DEFINE i == inode[n]
  <2>1. /\ n \in todo /\ pc = "walk" /\ pc' # "idle" /\ Track(i) /\ todo' = todo \ {n}
        /\ UNCHANGED <<inode, before, offset>>
    BY <1>3 DEF Chown, Goto, tree
  <2>2. LinksInv'
    BY <2>1, TrackKeepsLinks
  <2>3. i \in Inodes
    BY <1>1 DEF TypeOK
  <2>4. /\ disk'[i].owner = Chowned(disk[i].owner, Target(i))
        /\ \A j \in Inodes \ {i} : disk'[j] = disk[j]
    BY <1>1, <1>3, ChownDisk
  <2>5. Target(i) = Shift(before[i].owner, offset)
    BY <2>1, TargetIsShifted
  <2>6. disk[i].owner \in {before[i].owner, ShiftedOwner(i)}
    BY <1>1, <2>3 DEF OwnerShiftedOnce
  <2>7. disk'[i].owner = ShiftedOwner(i)
    BY <2>4, <2>5, <2>6 DEF Chowned, ShiftedOwner
  <2>8. \A j \in Inodes : /\ ShiftedOwner(j)' = ShiftedOwner(j)
                          /\ before'[j] = before[j]
                          /\ Visited(j)' <=> Visited(j) \/ j = i
    BY <1>1, <2>1, VisitedAfter DEF ShiftedOwner, Shift, Chowned
  <2>9. OwnerShiftedOnce'
    BY <1>1, <2>3, <2>4, <2>7, <2>8 DEF OwnerShiftedOnce, IsSymlink
  <2> QED BY <2>2, <2>9
<1>4. ASSUME NEW n \in Names, Skip(n) PROVE LinksInv' /\ OwnerShiftedOnce'
  <2> DEFINE i == inode[n]
  <2>1. /\ n \in todo /\ pc = "walk" /\ pc' # "idle" /\ Track(i) /\ todo' = todo \ {n}
        /\ IsSymlink(i) /\ UNCHANGED <<inode, before, offset, disk>>
    BY <1>4 DEF Skip, tree
  <2>2. LinksInv'
    BY <2>1, TrackKeepsLinks
  <2>3. \A j \in Inodes : /\ ShiftedOwner(j)' = ShiftedOwner(j)
                          /\ before'[j] = before[j] /\ disk'[j] = disk[j]
                          /\ Visited(j)' <=> Visited(j) \/ j = i
    BY <1>1, <2>1, VisitedAfter DEF ShiftedOwner, Shift, Chowned
  <2>4. OwnerShiftedOnce'
    BY <1>1, <2>1, <2>3 DEF OwnerShiftedOnce, IsSymlink
  <2> QED BY <2>2, <2>4
<1>5. CASE Chmod \/ ShiftAcl \/ ShiftDefaultAcl
  <2>1. /\ SameOwners /\ UNCHANGED <<inode, before, offset, hardLinks, todo>>
        /\ pc # "idle" /\ pc' # "idle"
    BY <1>1, <1>5, ChmodKeepsOwners, AclKeepsOwners
       DEF Chmod, ShiftAcl, ShiftDefaultAcl, Goto, tree
  <2>2. LinksInv'
    BY <1>1, <2>1 DEF LinksInv, ManyLinks, Visited, Shift
  <2>3. OwnerShiftedOnce'
    BY <1>1, <2>1 DEF OwnerShiftedOnce, SameOwners, Visited, ShiftedOwner, Shift,
                      Chowned, IsSymlink
  <2> QED BY <2>2, <2>3
<1>6. CASE Finish \/ Halt
  <2>1. /\ UNCHANGED <<inode, disk, before, offset, todo>>
        /\ hardLinks' = [i \in Inodes |-> NotSeen] /\ pc' = "idle"
    BY <1>6 DEF Finish, Halt, End, tree
  <2>2. LinksInv'
    BY <2>1 DEF LinksInv
  <2>3. OwnerShiftedOnce'
    BY <1>1, <2>1 DEF OwnerShiftedOnce, Visited, ShiftedOwner, Shift, Chowned, IsSymlink
  <2> QED BY <2>2, <2>3
<1>7. CASE UNCHANGED vars
  BY <1>1, <1>7 DEF vars, LinksInv, OwnerShiftedOnce, ManyLinks, Visited, ShiftedOwner,
                    Shift, Chowned, IsSymlink
<1> QED BY <1>2, <1>3, <1>4, <1>5, <1>6, <1>7 DEF Next

\* A new tree: nothing was visited.
LEMMA InvInit == Init => Inv
<1> SUFFICES ASSUME Init PROVE Inv
  OBVIOUS
<1>1. ASSUME NEW i \in Inodes PROVE disk[i] \in Metadata
  <2>1. disk[i] \in InitialMetadata(i)
    BY DEF Init
  <2>2. Owners \subseteq Ids /\ AclIds \union {NoAcl} \subseteq Acls /\ NoAcl \in Acls
    BY IdShiftAssumption DEF Acls
  <2> QED BY <2>1, <2>2 DEF InitialMetadata, Metadata
<1>2. disk \in [Inodes -> Metadata]
  BY <1>1 DEF Init
<1>3. TypeOK
  <2>1. results \in Seq([offset : Int, acl : BOOLEAN, outcome : {"success", "failure"}])
    BY EmptySeq DEF Init
  <2>2. hardLinks \in [Inodes -> Ids \union {NotSeen}]
    BY DEF Init
  <2>3. /\ inode \in [Names -> Inodes] /\ original = disk /\ before = disk
        /\ offset = 0 /\ aclSupported = FALSE /\ todo = Names
        /\ at = NotSeen /\ pc = "idle"
    BY DEF Init
  <2>4. offset \in Int /\ at \in Inodes \union {NotSeen}
    BY <2>3
  <2>5. aclSupported \in BOOLEAN
    BY <2>3
  <2>6. pc \in {"idle", "walk", "chmod", "acl", "defacl"}
    BY <2>3
  <2>7. original \in [Inodes -> Metadata] /\ before \in [Inodes -> Metadata]
    BY <1>2, <2>3
  <2>8. todo \in SUBSET Names
    BY <2>3
  <2> QED BY <1>2, <2>1, <2>2, <2>3, <2>4, <2>5, <2>6, <2>7, <2>8 DEF TypeOK
<1>4. AtInv
  BY IdShiftAssumption DEF Init, AtInv
<1>5. LinksInv
  BY DEF Init, LinksInv
<1>6. OwnerShiftedOnce
  BY DEF Init, OwnerShiftedOnce, Visited
<1> QED BY <1>3, <1>4, <1>5, <1>6 DEF Inv

\* The invariant of a walk: hardLinks holds the shifted owners of what was
\* visited, and no owner is shifted twice.
THEOREM Invariant == Spec => []Inv
<1>1. Inv /\ [Next]_vars => Inv'
  BY InvStep
<1> QED BY InvInit, <1>1, PTL DEF Spec

(***************************************************************************)
(* TypeOK: an owner or an ACL entry is an id of the given width, whatever  *)
(* ids and offsets meet.                                                   *)
(***************************************************************************)
THEOREM TypeCorrect == Spec => []TypeOK
<1>1. Inv => TypeOK
  BY DEF Inv
<1> QED BY <1>1, Invariant, PTL

(***************************************************************************)
(* OwnerShiftedOnce: no call shifts an owner twice, whichever and however  *)
(* many links of its inode it visits and wherever it stops.                *)
(***************************************************************************)
THEOREM OwnerShiftedOnceAlways == Spec => []OwnerShiftedOnce
<1>1. Inv => OwnerShiftedOnce
  BY DEF Inv
<1> QED BY <1>1, Invariant, PTL

-----------------------------------------------------------------------------
(* What a call that succeeds has done. *)

\* Every inode has a name, a directory one, and only directories a default list.
TreeInv ==
    /\ \A i \in Inodes : \E n \in Names : inode[n] = i
    /\ \A m, n \in Names : inode[m] = inode[n] /\ inode[m] \in Dirs => m = n
    /\ \A i \in Inodes : disk[i].defacl # NoAcl \/ before[i].defacl # NoAcl => i \in Dirs

\* A call in progress, or one that succeeded, is accounted for.
Accounted == pc # "idle" \/ Succeeded

AtStep(i, steps) == at = i /\ pc \in steps

\* The set-id bits are those the call found, but for a file about to get them back.
SetIdInv ==
    Accounted => \A i \in Inodes :
        IF AtStep(i, {"chmod"}) THEN before[i].setid
                                ELSE disk[i].setid = before[i].setid

\* A list was shifted when its inode was visited and the callback is past it.
ListsDone(i) ==
    /\ ~ManyLinks(i) /\ before[i].acl # NoAcl =>
          disk[i].acl = IF Visited(i) /\ ~AtStep(i, {"chmod", "acl"})
                        THEN Shift(before[i].acl, offset) ELSE before[i].acl
    /\ before[i].defacl # NoAcl =>
          disk[i].defacl = IF Visited(i) /\ ~AtStep(i, {"chmod", "acl", "defacl"})
                           THEN Shift(before[i].defacl, offset) ELSE before[i].defacl

AclInv == Accounted /\ aclSupported => \A i \in Inodes \ Symlinks : ListsDone(i)

\* The callback works on an inode that counts as visited.
AtVisited == at \in Inodes => Visited(at)

AllVisited == Succeeded => todo = {}

DoneInv == TreeInv /\ SetIdInv /\ AtVisited /\ AclInv /\ AllVisited

\* What the system calls do to the fields of an entry other than the owner.
LEMMA ChownFields ==
    ASSUME TypeOK, NEW n \in Names, Chown(n), NEW j \in Inodes
    PROVE  /\ disk'[j].setid = IF j = inode[n] THEN FALSE ELSE disk[j].setid
           /\ disk'[j].acl = disk[j].acl
           /\ disk'[j].defacl = disk[j].defacl
<1> DEFINE i == inode[n]
           owner == Chowned(disk[i].owner, Target(i))
<1>1. i \in Inodes /\ disk[i] \in Metadata /\ disk \in [Inodes -> Metadata]
  BY DEF TypeOK
<1>2. disk' = [disk EXCEPT ![i] = [disk[i] EXCEPT !.owner = owner, !.setid = FALSE]]
  BY DEF Chown
<1> HIDE DEF i, owner
<1> QED BY <1>1, <1>2 DEF Metadata, i

\* Where the callback goes on after the lchown.
LEMMA ChownGoes ==
    ASSUME TypeOK, NEW n \in Names, Chown(n)
    PROVE  LET i == inode[n] IN
           /\ at' = IF pc' = "walk" THEN NotSeen ELSE i
           /\ disk[i].setid => pc' = "chmod"
           /\ ~disk[i].setid /\ (IsSymlink(i) \/ ~aclSupported) => pc' = "walk"
           /\ ~disk[i].setid /\ ~IsSymlink(i) /\ aclSupported => pc' = "acl"
<1> DEFINE i == inode[n]
           step == IF disk[i].setid THEN "chmod"
                   ELSE IF IsSymlink(i) \/ ~aclSupported THEN "walk" ELSE "acl"
<1>1. Goto(step, i)
  BY DEF Chown
<1>2. /\ disk[i].setid => step = "chmod"
      /\ ~disk[i].setid /\ (IsSymlink(i) \/ ~aclSupported) => step = "walk"
      /\ ~disk[i].setid /\ ~IsSymlink(i) /\ aclSupported => step = "acl"
  OBVIOUS
<1> HIDE DEF step
<1>3. pc' = step /\ at' = IF step = "walk" THEN NotSeen ELSE i
  BY <1>1 DEF Goto
<1> QED BY <1>2, <1>3

\* The probe may remove the access list of baseDir only.
LEMMA CheckFields ==
    ASSUME TypeOK, CheckACLSupport, NEW j \in Inodes
    PROVE  /\ disk'[j].setid = disk[j].setid
           /\ disk'[j].defacl = disk[j].defacl
           /\ j # Root => disk'[j].acl = disk[j].acl
<1>1. Root \in Inodes
  BY IdShiftAssumption
<1> QED BY <1>1 DEF CheckACLSupport, TypeOK, Metadata

\* The chmod gives the set-id bits back.
LEMMA ChmodFields ==
    ASSUME TypeOK, AtInv, Chmod, NEW j \in Inodes
    PROVE  /\ at \in Inodes
           /\ disk'[j].setid = IF j = at THEN TRUE ELSE disk[j].setid
           /\ disk'[j].acl = disk[j].acl
           /\ disk'[j].defacl = disk[j].defacl
BY DEF Chmod, AtInv, TypeOK, Metadata

\* The access list of the inode at hand is shifted if it names an id.
LEMMA AclFields ==
    ASSUME TypeOK, AtInv, ShiftAcl, NEW j \in Inodes
    PROVE  /\ at \in Inodes
           /\ disk'[j].acl = IF j = at /\ disk[j].acl # NoAcl
                             THEN Shift(disk[j].acl, offset) ELSE disk[j].acl
           /\ disk'[j].setid = disk[j].setid
           /\ disk'[j].defacl = disk[j].defacl
BY DEF ShiftAcl, AtInv, TypeOK, Metadata

\* So is its default list.
LEMMA DefaultAclFields ==
    ASSUME TypeOK, AtInv, ShiftDefaultAcl, NEW j \in Inodes
    PROVE  /\ at \in Inodes
           /\ disk'[j].defacl = IF j = at /\ disk[j].defacl # NoAcl
                                THEN Shift(disk[j].defacl, offset) ELSE disk[j].defacl
           /\ disk'[j].setid = disk[j].setid
           /\ disk'[j].acl = disk[j].acl
BY DEF ShiftDefaultAcl, AtInv, TypeOK, Metadata

\* The result of a call is the last one, when the call ends and until the next.
LEMMA EndResult ==
    ASSUME TypeOK, NEW outcome \in {"success", "failure"}, End(outcome)
    PROVE  Succeeded' <=> outcome = "success"
<1> DEFINE R == [offset : Int, acl : BOOLEAN, outcome : {"success", "failure"}]
           r == [offset |-> offset, acl |-> aclSupported, outcome |-> outcome]
<1>1. results \in Seq(R) /\ r \in R /\ results' = Append(results, r) /\ pc' = "idle"
  BY DEF TypeOK, End
<1>2. r.outcome = outcome
  OBVIOUS
<1> HIDE DEF R, r
<1>3. /\ Len(Append(results, r)) = Len(results) + 1
      /\ Append(results, r)[Len(results) + 1] = r
      /\ Append(results, r) # <<>>
  BY <1>1
<1> QED BY <1>1, <1>2, <1>3 DEF Succeeded

\* A name that is yet to be visited is the only one of its inode, or one of many.
LEMMA OnlyName ==
    ASSUME TypeOK, TreeInv, NEW n \in todo, ~ManyLinks(inode[n]) \/ inode[n] \in Dirs
    PROVE  ~Visited(inode[n])
BY DEF TypeOK, TreeInv, ManyLinks, Visited

\* Names and directories stay, and only what is in a list is shifted.
LEMMA TreeStep == ASSUME TypeOK, AtInv, TreeInv, [Next]_vars PROVE TreeInv'
<1>1. CASE Start
  <2>1. inode' = inode /\ before' = disk /\ CheckACLSupport
    BY <1>1 DEF Start, tree
  <2> QED BY <2>1, CheckFields DEF TreeInv
<1>2. ASSUME NEW n \in Names, Chown(n) PROVE TreeInv'
  <2>1. UNCHANGED <<inode, before>>
    BY <1>2 DEF Chown, tree
  <2> QED BY <1>2, <2>1, ChownFields DEF TreeInv
<1>3. CASE Chmod
  <2>1. UNCHANGED <<inode, before>>
    BY <1>3 DEF Chmod, tree
  <2> QED BY <1>3, <2>1, ChmodFields DEF TreeInv
<1>4. CASE ShiftAcl
  <2>1. UNCHANGED <<inode, before>>
    BY <1>4 DEF ShiftAcl, tree
  <2> QED BY <1>4, <2>1, AclFields DEF TreeInv
<1>5. CASE ShiftDefaultAcl
  <2>1. UNCHANGED <<inode, before>>
    BY <1>5 DEF ShiftDefaultAcl, tree
  <2> QED BY <1>5, <2>1, DefaultAclFields DEF TreeInv
<1>6. CASE (\E n \in Names : Skip(n)) \/ Finish \/ Halt \/ UNCHANGED vars
  BY <1>6 DEF Skip, Finish, Halt, End, tree, vars, TreeInv
<1> QED BY <1>1, <1>2, <1>3, <1>4, <1>5, <1>6 DEF Next, TreeInv

\* Success comes with the last name.
LEMMA AllVisitedStep == ASSUME TypeOK, AllVisited, [Next]_vars PROVE AllVisited'
<1>1. CASE Finish
  BY <1>1 DEF Finish, End, AllVisited
<1>2. CASE Halt
  BY <1>2, EndResult DEF Halt, AllVisited
<1>3. CASE UNCHANGED vars
  BY <1>3 DEF vars, AllVisited, Succeeded
<1>4. CASE Start \/ (\E n \in Names : Chown(n) \/ Skip(n)) \/ Chmod \/ ShiftAcl \/ ShiftDefaultAcl
  <2>1. pc' # "idle"
    BY <1>4 DEF Start, Chown, Skip, Chmod, ShiftAcl, ShiftDefaultAcl, Goto
  <2> QED BY <2>1 DEF AllVisited, Succeeded
<1> QED BY <1>1, <1>2, <1>3, <1>4 DEF Next

\* The lchown clears the bits of a file that the chmod gives back.
LEMMA SetIdStep == ASSUME TypeOK, AtInv, AtInv', SetIdInv, [Next]_vars PROVE SetIdInv'
<1> USE DEF SetIdInv, AtStep
<1>1. CASE Start
  BY <1>1, CheckFields DEF Start
<1>2. ASSUME NEW n \in Names, Chown(n) PROVE SetIdInv'
  <2>1. pc = "walk" /\ before' = before /\ inode[n] \in Inodes
    BY <1>2 DEF Chown, TypeOK
  <2>2. \A j \in Inodes : disk[j].setid = before[j].setid
    BY <2>1 DEF Accounted
  <2>3. \A j \in Inodes : disk[j].setid \in BOOLEAN
    BY DEF TypeOK, Metadata
  <2>4. /\ pc' = "chmod" => at' = inode[n]
        /\ pc' = "chmod" <=> disk[inode[n]].setid
    BY <1>2, <2>1, <2>3, ChownGoes
  <2>5. ASSUME NEW j \in Inodes
        PROVE  IF at' = j /\ pc' = "chmod" THEN before'[j].setid
                                           ELSE disk'[j].setid = before'[j].setid
    <3>1. CASE j = inode[n]
      BY <1>2, <2>1, <2>2, <2>3, <2>4, <3>1, ChownFields
    <3>2. CASE j # inode[n]
      <4>1. disk'[j].setid = disk[j].setid
        BY <1>2, <3>2, ChownFields
      <4>2. before' = before /\ ~(at' = j /\ pc' = "chmod")
        BY <2>1, <2>4, <3>2
      <4> QED BY <2>2, <4>1, <4>2, Zenon
    <3> QED BY <3>1, <3>2
  <2> QED BY <2>5
<1>3. CASE Chmod
  <2>1. pc = "chmod" /\ pc' # "chmod" /\ before' = before
    BY <1>3 DEF Chmod, Goto
  <2>2. \A j \in Inodes : before[j].setid \in BOOLEAN
    BY DEF TypeOK, Metadata
  <2> QED BY <1>3, <2>1, <2>2, ChmodFields DEF Accounted
<1>4. CASE ShiftAcl \/ ShiftDefaultAcl
  <2>1. pc \in {"acl", "defacl"} /\ pc' \notin {"idle", "chmod"} /\ before' = before
    BY <1>4 DEF ShiftAcl, ShiftDefaultAcl, Goto
  <2> QED BY <1>4, <2>1, AclFields, DefaultAclFields DEF Accounted
<1>5. CASE \E n \in Names : Skip(n)
  BY <1>5 DEF Skip, Accounted
<1>6. CASE Finish
  BY <1>6 DEF Finish, End, Accounted
<1>7. CASE Halt
  <2>1. ~Accounted'
    BY <1>7, EndResult DEF Halt, End, Accounted
  <2> QED BY <2>1
<1>8. CASE UNCHANGED vars
  BY <1>8 DEF vars, Accounted, Succeeded
<1> QED BY <1>2, <1>1, <1>3, <1>4, <1>5, <1>6, <1>7, <1>8 DEF Next

\* The number of names of an inode, and who is visited, depend on the walk only.
LEMMA WalkStays ==
    ASSUME TypeOK, UNCHANGED <<inode, todo>>, NEW j \in Inodes
    PROVE  (ManyLinks(j)' <=> ManyLinks(j)) /\ (Visited(j)' <=> Visited(j))
BY DEF ManyLinks, Visited

\* The lists of a file with one name, and of a directory, are shifted once.
LEMMA AclStep ==
    ASSUME TypeOK, AtInv, AtInv', TreeInv, AtVisited, AclInv, [Next]_vars PROVE AclInv'
<1> USE DEF AtStep, ListsDone, Shift
<1>1. CASE Start
  <2>1. /\ UNCHANGED inode /\ todo' = Names /\ before' = disk /\ pc' = "walk"
        /\ CheckACLSupport
    BY <1>1 DEF Start, tree
  <2>2. \A j \in Inodes : ~Visited(j)' /\ (j = Root => ManyLinks(j)')
    BY <2>1, IdShiftAssumption DEF Visited, ManyLinks
  <2> QED BY <2>1, <2>2, CheckFields DEF AclInv
<1>2. ASSUME NEW n \in Names, Chown(n) \/ Skip(n) PROVE AclInv'
  <2> SUFFICES ASSUME aclSupported', NEW j \in Inodes \ Symlinks PROVE ListsDone(j)'
    BY DEF AclInv
  <2>1. /\ n \in todo /\ todo' = todo \ {n} /\ pc = "walk"
        /\ UNCHANGED <<inode, before, offset, aclSupported>>
    BY <1>2 DEF Chown, Skip, tree
  <2>2. (Visited(j)' <=> Visited(j) \/ j = inode[n]) /\ (ManyLinks(j)' <=> ManyLinks(j))
    BY <2>1, VisitedAfter, LinksAfter
  <2>3. disk'[j].acl = disk[j].acl /\ disk'[j].defacl = disk[j].defacl
    BY <1>2, ChownFields DEF Skip
  <2>4. CASE j = inode[n]
    <3>1. ~IsSymlink(j) /\ Chown(n)
      BY <1>2, <2>4 DEF IsSymlink, Skip
    <3>2. at' = j /\ pc' \in {"chmod", "acl"}
      <4>1. disk[j].setid \in BOOLEAN
        BY DEF TypeOK, Metadata
      <4>2. aclSupported
        BY <2>1
      <4> QED BY <2>4, <3>1, <4>1, <4>2, ChownGoes
    <3>3. ~ManyLinks(j) \/ j \in Dirs => ~Visited(j)
      BY <2>1, <2>4, OnlyName
    <3>4. before[j].defacl # NoAcl => j \in Dirs
      BY DEF TreeInv
    <3> QED BY <2>1, <2>2, <2>3, <3>2, <3>3, <3>4 DEF AclInv, Accounted
  <2>5. CASE j # inode[n]
    <3>1. at \notin Inodes /\ (at' = j => pc' \notin {"chmod", "acl", "defacl"})
      <4>1. at \notin Inodes
        BY <2>1 DEF AtInv
      <4>2. CASE Skip(n)
        BY <4>1, <4>2 DEF Skip
      <4>3. CASE Chown(n)
        <5>1. at' = IF pc' = "walk" THEN NotSeen ELSE inode[n]
          BY <4>3, ChownGoes, Zenon
        <5>2. CASE pc' = "walk"
          BY <4>1, <5>2
        <5>3. CASE pc' # "walk"
          BY <2>5, <4>1, <5>1, <5>3
        <5> QED BY <5>2, <5>3
      <4> QED BY <1>2, <4>1, <4>2, <4>3
    <3> QED BY <2>1, <2>2, <2>3, <2>5, <3>1 DEF AclInv, Accounted, Shift
  <2> QED BY <2>4, <2>5
<1>3. CASE Chmod \/ ShiftAcl \/ ShiftDefaultAcl
  <2> SUFFICES ASSUME aclSupported', NEW j \in Inodes \ Symlinks PROVE ListsDone(j)'
    BY DEF AclInv
  <2>1. /\ UNCHANGED <<inode, todo, before, offset, aclSupported>> /\ pc # "idle"
        /\ (ManyLinks(j)' <=> ManyLinks(j)) /\ (Visited(j)' <=> Visited(j))
    BY <1>3, WalkStays DEF Chmod, ShiftAcl, ShiftDefaultAcl, tree
  <2>2. CASE Chmod
    <3>1. pc = "chmod" /\ pc' = "acl" /\ at' = at
      BY <2>1, <2>2 DEF Chmod, Goto
    <3> QED BY <2>1, <2>2, <3>1, ChmodFields DEF AclInv, Accounted
  <2>3. CASE ShiftAcl
    <3>1. pc = "acl" /\ ((at' = at /\ pc' = "defacl") \/ (at \notin Dirs /\ pc' = "walk"))
      BY <2>3 DEF ShiftAcl, Goto
    <3>2. at = j => Visited(j)
      BY DEF AtVisited
    <3> QED BY <2>1, <2>3, <3>1, <3>2, AclFields DEF AclInv, Accounted, TreeInv
  <2>4. CASE ShiftDefaultAcl
    <3>1. pc = "defacl" /\ pc' = "walk" /\ (at = j => Visited(j))
      BY <2>4 DEF ShiftDefaultAcl, Goto, AtVisited
    <3>2. disk'[j].acl = disk[j].acl
      BY <2>4, DefaultAclFields
    <3>3. disk'[j].defacl = IF j = at /\ disk[j].defacl # NoAcl
                            THEN Shift(disk[j].defacl, offset) ELSE disk[j].defacl
      BY <2>4, DefaultAclFields
    <3>4. ListsDone(j)
      BY <2>1, <3>1 DEF AclInv, Accounted
    <3> QED BY <2>1, <3>1, <3>2, <3>3, <3>4
  <2> QED BY <1>3, <2>2, <2>3, <2>4
<1>4. CASE Finish
  <2>1. /\ UNCHANGED <<inode, todo, disk, before, offset, aclSupported>>
        /\ pc = "walk" /\ pc' = "idle"
    BY <1>4 DEF Finish, End, tree
  <2> QED BY <2>1, WalkStays DEF AclInv, Accounted
<1>5. CASE Halt
  <2>1. ~Accounted'
    BY <1>5, EndResult DEF Halt, End, Accounted
  <2> QED BY <2>1 DEF AclInv
<1>6. CASE UNCHANGED vars
  <2>1. UNCHANGED <<inode, todo, disk, before, offset, aclSupported, pc, at, results>>
    BY <1>6 DEF vars, tree
  <2> QED BY <2>1, WalkStays DEF AclInv, Accounted, Succeeded
<1> QED BY <1>1, <1>2, <1>3, <1>4, <1>5, <1>6 DEF Next

\* A visit takes the name off before the callback goes on.
LEMMA AtVisitedStep ==
    ASSUME TypeOK, AtInv, AtInv', AtVisited, [Next]_vars PROVE AtVisited'
<1>1. CASE Start
  BY <1>1 DEF Start, AtVisited, AtInv
<1>2. ASSUME NEW n \in Names, Chown(n) PROVE AtVisited'
  <2>1. at' \in {NotSeen, inode[n]} /\ n \in todo /\ todo' = todo \ {n} /\ inode' = inode
    BY <1>2, ChownGoes DEF Chown, tree
  <2> QED BY <2>1, VisitedAfter, IdShiftAssumption DEF AtVisited, TypeOK
<1>3. CASE \E n \in Names : Skip(n)
  BY <1>3 DEF Skip, AtVisited, AtInv
<1>4. CASE Chmod \/ ShiftAcl \/ ShiftDefaultAcl \/ UNCHANGED vars
  <2>1. at' \in {NotSeen, at} /\ UNCHANGED <<inode, todo>>
    BY <1>4 DEF Chmod, ShiftAcl, ShiftDefaultAcl, Goto, vars, tree
  <2> QED BY <2>1, WalkStays, IdShiftAssumption DEF AtVisited, Visited
<1>5. CASE Finish \/ Halt
  BY <1>5, IdShiftAssumption DEF Finish, Halt, End, AtVisited
<1> QED BY <1>1, <1>2, <1>3, <1>4, <1>5 DEF Next

\* A new tree is as the kernel allows it, and no call is accounted for.
LEMMA DoneInit == Init => DoneInv
<1> SUFFICES ASSUME Init PROVE DoneInv
  OBVIOUS
<1>1. TreeInv
  <2>1. \A i \in Inodes : disk[i] \in InitialMetadata(i) /\ before[i] = disk[i]
    BY DEF Init
  <2> QED BY <2>1 DEF Init, TreeInv, InitialMetadata
<1>2. ~Accounted /\ at = NotSeen
  BY DEF Init, Accounted, Succeeded
<1> QED BY <1>1, <1>2, IdShiftAssumption
        DEF DoneInv, SetIdInv, AclInv, AtVisited, AllVisited, Accounted

\* What a call owes each inode: set-id bits, lists shifted once and no name
\* left out, until it ends and when it succeeded.
THEOREM DoneInvariant == Spec => []DoneInv
<1>1. Inv /\ Inv' /\ DoneInv /\ [Next]_vars => DoneInv'
  BY TreeStep, SetIdStep, AtVisitedStep, AclStep, AllVisitedStep DEF DoneInv, Inv
<1> QED BY DoneInit, Invariant, <1>1, PTL DEF Spec

(***************************************************************************)
(* SetIdRestored: after a call that succeeded every file has the set-id    *)
(* bits it had before, though each lchown cleared them.                    *)
(***************************************************************************)
THEOREM SetIdRestoredAlways == Spec => []SetIdRestored
<1>1. Inv /\ DoneInv => SetIdRestored
  BY DEF DoneInv, SetIdInv, SetIdRestored, Accounted, AtStep, Succeeded
<1> QED BY <1>1, Invariant, DoneInvariant, PTL

(***************************************************************************)
(* SuccessIsComplete: a call that succeeded has shifted all owners but     *)
(* those of symlinks, the access lists of files with one link, and the     *)
(* default lists of directories, exactly once.                             *)
(***************************************************************************)
THEOREM SuccessIsCompleteAlways == Spec => []SuccessIsComplete
<1>1. Inv /\ DoneInv => SuccessIsComplete
  <2> SUFFICES ASSUME Inv, DoneInv, Succeeded, NEW i \in Inodes \ Symlinks
               PROVE  /\ disk[i].owner = ShiftedOwner(i)
                      /\ aclSupported => ListsDone(i) /\ Visited(i) /\ pc = "idle"
    BY DEF SuccessIsComplete, ListsDone, AtStep
  <2>1. Visited(i) /\ pc = "idle"
    BY DEF DoneInv, AllVisited, TreeInv, Visited, Succeeded
  <2>2. disk[i].owner = ShiftedOwner(i)
    BY <2>1 DEF Inv, OwnerShiftedOnce, IsSymlink
  <2> QED BY <2>1, <2>2 DEF DoneInv, AclInv, Accounted
<1> QED BY <1>1, Invariant, DoneInvariant, PTL

-----------------------------------------------------------------------------
(* Ids are added modulo their width. *)

\* Less than the width, a multiple of the width is zero.
LEMMA Multiple ==
    ASSUME NEW width \in Nat \ {0}, NEW d \in Int, -width < width * d, width * d < width
    PROVE  d = 0
<1>1. CASE d >= 1
  <2>1. width * d >= width * 1
    BY <1>1
  <2> QED BY <2>1
<1>2. CASE d <= -1
  <2>1. width * d <= width * (-1)
    BY <1>2
  <2> QED BY <2>1
<1> QED BY <1>1, <1>2

\* Quotient and remainder.
LEMMA Division ==
    ASSUME NEW width \in Nat \ {0}, NEW x \in Int
    PROVE  /\ x \div width \in Int
           /\ x % width \in 0..(width - 1)
           /\ x = width * (x \div width) + (x % width)
OBVIOUS

\* Numbers that differ by a multiple of the width have one remainder.
LEMMA SameRemainder ==
    ASSUME NEW width \in Nat \ {0}, NEW x \in Int, NEW y \in Int, NEW q \in Int,
           x = y + width * q
    PROVE  x % width = y % width
<1> DEFINE a == x % width
           b == y % width
           p == x \div width
           r == y \div width
<1>1. /\ a \in 0..(width - 1) /\ b \in 0..(width - 1)
      /\ p \in Int /\ r \in Int
      /\ x = width * p + a /\ y = width * r + b
  BY Division
<1> HIDE DEF a, b, p, r
<1>2. width * (p - r - q) = b - a
  <2>1. width * (p - r - q) = width * p - width * r - width * q
    BY <1>1
  <2> QED BY <1>1, <2>1
<1>3. p - r - q = 0
  <2>1. p - r - q \in Int
    BY <1>1
  <2>2. -width < b - a /\ b - a < width
    BY <1>1
  <2> QED BY <1>2, <2>1, <2>2, Multiple
<1>4. a = b
  BY <1>1, <1>2, <1>3
<1> QED BY <1>4 DEF a, b

\* Two shifts are one by the sum.
LEMMA ShiftTwice ==
    ASSUME NEW id \in Int, NEW by \in Int, NEW more \in Int
    PROVE  Shift(Shift(id, by), more) = Shift(id, by + more)
<1> DEFINE x == id + by
           q == x \div IdRange
           a == x % IdRange
<1>1. x \in Int /\ IdRange \in Nat \ {0}
  BY IdShiftAssumption
<1>2. q \in Int /\ a \in Int /\ x = IdRange * q + a
  BY <1>1, Division
<1> HIDE DEF a, q
<1>3. x + more = (a + more) + IdRange * q
  BY <1>1, <1>2
<1>4. a + more \in Int /\ x + more \in Int
  BY <1>1, <1>2
<1>5. (x + more) % IdRange = (a + more) % IdRange
  BY <1>1, <1>2, <1>3, <1>4, SameRemainder
<1>6. x + more = id + (by + more)
  OBVIOUS
<1> QED BY <1>5, <1>6 DEF Shift, a

\* An id that is not shifted stays.
LEMMA ShiftByNothing == ASSUME NEW id \in Ids PROVE Shift(id, 0) = id
BY IdShiftAssumption DEF Shift, Ids

\* A shift and its opposite give an id back.
LEMMA ShiftAndBack ==
    ASSUME NEW id \in Ids, NEW by \in Int, NEW back \in Int, by + back = 0
    PROVE  Shift(Shift(id, by), back) = id
<1>1. id \in Int
  BY IdShiftAssumption DEF Ids
<1> QED BY <1>1, ShiftTwice, ShiftByNothing
-----------------------------------------------------------------------------
(* A shift and the opposite shift. The list of an inode is shifted once per *)
(* name, so what a call does to it depends on how many names there are.     *)

NamesOf(i) == {n \in Names : inode[n] = i}
VisitedNames(i) == {n \in Names \ todo : inode[n] = i}

\* How often this call has shifted the access list of an inode.
AclShifts(i) ==
    Cardinality(VisitedNames(i)) - (IF AtStep(i, {"chmod", "acl"}) THEN 1 ELSE 0)

Moved(entry, by) == IF entry = NoAcl THEN NoAcl ELSE Shift(entry, by)

AclOf(i) ==
    disk[i].acl = IF aclSupported THEN Moved(before[i].acl, AclShifts(i) * offset)
                                  ELSE before[i].acl

\* A default list stays as it is where there is nothing to shift.
DefaultKept(i) ==
    ~aclSupported \/ before[i].defacl = NoAcl => disk[i].defacl = before[i].defacl

\* The callback turns to the lists only where they are supported.
ListsSupported == pc \in {"acl", "defacl"} => aclSupported

ListsInv ==
    /\ ListsSupported
    /\ Accounted => /\ \A i \in Inodes \ (Symlinks \union {Root}) : AclOf(i)
                    /\ \A i \in Inodes \ Symlinks : DefaultKept(i)

\* What a call that succeeds makes of the tree from: the tree to.
CallDone(from, to, by, acls) == \A i \in Inodes \ Symlinks :
    /\ to[i].owner = Chowned(from[i].owner, Shift(from[i].owner, by))
    /\ to[i].setid = from[i].setid
    /\ i # Root => to[i].acl = IF acls THEN Moved(from[i].acl, Cardinality(NamesOf(i)) * by)
                                       ELSE from[i].acl
    /\ to[i].defacl = IF acls THEN Moved(from[i].defacl, by) ELSE from[i].defacl

SuccessInv == Succeeded => CallDone(before, disk, offset, aclSupported)

\* The tree between the calls: a call that runs has it in before.
Between == IF pc = "idle" THEN disk ELSE before

\* The tree before the first call, and after a first call that succeeded.
CallsInv ==
    /\ \A i \in Inodes : original[i].owner # NoId
    /\ results = <<>> => Between = original
    /\ Len(results) = 1 /\ results[1].outcome = "success" =>
          CallDone(original, Between, results[1].offset, results[1].acl)
    /\ UndoRestores

\* The names of an inode can be counted, as the tree is finite.
LEMMA CountType ==
    ASSUME NEW j \in Inodes
    PROVE  /\ IsFiniteSet(VisitedNames(j))
           /\ Cardinality(VisitedNames(j)) \in Nat
           /\ Cardinality(NamesOf(j)) \in Nat
<1>1. VisitedNames(j) \subseteq Names /\ NamesOf(j) \subseteq Names
  BY DEF VisitedNames, NamesOf
<1>2. IsFiniteSet(VisitedNames(j)) /\ IsFiniteSet(NamesOf(j))
  BY <1>1, FS_Subset, IdShiftAssumption
<1> QED BY <1>2, FS_CardinalityType

\* A visit counts for the inode of the name.
LEMMA VisitCounts ==
    ASSUME TypeOK, NEW n \in todo, todo' = todo \ {n}, UNCHANGED inode, NEW j \in Inodes
    PROVE  Cardinality(VisitedNames(j))' =
              Cardinality(VisitedNames(j)) + (IF j = inode[n] THEN 1 ELSE 0)
<1>1. n \in Names /\ n \notin VisitedNames(j)
  BY DEF TypeOK, VisitedNames
<1>2. CASE j = inode[n]
  <2>1. VisitedNames(j)' = VisitedNames(j) \union {n}
    BY <1>1, <1>2 DEF VisitedNames
  <2> QED BY <1>1, <1>2, <2>1, CountType, FS_AddElement
<1>3. CASE j # inode[n]
  <2>1. VisitedNames(j)' = VisitedNames(j)
    BY <1>1, <1>3 DEF VisitedNames
  <2> QED BY <1>3, <2>1, CountType
<1> QED BY <1>2, <1>3

\* One shift more of an entry that was shifted several times.
LEMMA MovedOnceMore ==
    ASSUME NEW entry \in Acls, NEW times \in Int, NEW by \in Int, NEW now,
           now = Moved(entry, times * by)
    PROVE  (IF now # NoAcl THEN Shift(now, by) ELSE now) = Moved(entry, (times + 1) * by)
<1>1. CASE entry = NoAcl
  BY <1>1 DEF Moved
<1>2. CASE entry # NoAcl
  <2>1. entry \in Int /\ times * by \in Int
    BY <1>2, IdShiftAssumption DEF Acls, Ids
  <2>2. now = Shift(entry, times * by) /\ now \in Ids
    BY <1>2, <2>1, ShiftType DEF Moved
  <2>3. Shift(now, by) = Shift(entry, times * by + by)
    BY <2>1, <2>2, ShiftTwice
  <2>4. times * by + by = (times + 1) * by
    OBVIOUS
  <2> QED BY <1>2, <2>2, <2>3, <2>4, IdShiftAssumption DEF Moved
<1> QED BY <1>1, <1>2

\* Nothing is moved by zero.
LEMMA NotMoved == ASSUME NEW entry \in Acls PROVE Moved(entry, 0) = entry
BY ShiftByNothing DEF Moved, Acls

\* Steps that disturb neither the list nor the count.
LEMMA AclOfStays ==
    ASSUME NEW j \in Inodes, AclOf(j), disk'[j].acl = disk[j].acl,
           UNCHANGED <<before, offset, aclSupported>>,
           aclSupported => AclShifts(j)' = AclShifts(j)
    PROVE  AclOf(j)'
<1>1. CASE aclSupported
  <2>1. disk[j].acl = Moved(before[j].acl, AclShifts(j) * offset)
    BY <1>1 DEF AclOf
  <2>2. Moved(before[j].acl, AclShifts(j) * offset)' = Moved(before[j].acl, AclShifts(j) * offset)
    BY <1>1 DEF Moved, Shift
  <2> QED BY <1>1, <2>1, <2>2 DEF AclOf
<1>2. CASE ~aclSupported
  BY <1>2 DEF AclOf
<1> QED BY <1>1, <1>2

\* The names visited stay when the walk does not go on.
LEMMA CountStays ==
    ASSUME UNCHANGED <<inode, todo>>, NEW j \in Inodes
    PROVE  VisitedNames(j)' = VisitedNames(j)
BY DEF VisitedNames

\* The callback goes on to the lists only if they are supported.
LEMMA ListsSupportedStep ==
    ASSUME TypeOK, ListsSupported, [Next]_vars PROVE ListsSupported'
<1> USE DEF ListsSupported
<1>1. ASSUME NEW n \in Names, Chown(n) PROVE ListsSupported'
  <2>1. aclSupported' = aclSupported /\ disk[inode[n]].setid \in BOOLEAN
    BY <1>1 DEF Chown, TypeOK, Metadata
  <2> QED BY <1>1, <2>1, ChownGoes
<1>2. CASE Start \/ (\E n \in Names : Skip(n)) \/ Finish \/ Halt \/ UNCHANGED vars
  BY <1>2 DEF Start, Skip, Finish, Halt, End, vars
<1>3. CASE Chmod \/ ShiftAcl \/ ShiftDefaultAcl
  BY <1>3 DEF Chmod, ShiftAcl, ShiftDefaultAcl, Goto
<1> QED BY <1>1, <1>2, <1>3 DEF Next

\* Only the default list of a directory is ever shifted, where lists are supported.
LEMMA DefaultKeptStep ==
    ASSUME TypeOK, AtInv, ListsInv, [Next]_vars, Accounted', NEW j \in Inodes \ Symlinks
    PROVE  DefaultKept(j)'
<1> USE DEF DefaultKept
<1>1. CASE Start
  BY <1>1, CheckFields DEF Start
<1>2. CASE Halt
  BY <1>2, EndResult DEF Halt, End, Accounted
<1>3. CASE UNCHANGED vars
  BY <1>3 DEF vars, ListsInv, Accounted, Succeeded
<1>4. ASSUME NEW n \in Names, Chown(n) \/ Skip(n) PROVE DefaultKept(j)'
  <2>1. Accounted /\ UNCHANGED <<before, aclSupported>>
    BY <1>4 DEF Chown, Skip, Accounted
  <2>2. disk'[j].defacl = disk[j].defacl
    BY <1>4, ChownFields DEF Skip
  <2> QED BY <2>1, <2>2 DEF ListsInv
<1>5. CASE Chmod \/ ShiftAcl \/ Finish
  <2>1. Accounted /\ UNCHANGED <<before, aclSupported>>
    BY <1>5 DEF Chmod, ShiftAcl, Finish, End, Accounted
  <2>2. disk'[j].defacl = disk[j].defacl
    BY <1>5, ChmodFields, AclFields DEF Finish, End
  <2> QED BY <2>1, <2>2 DEF ListsInv
<1>6. CASE ShiftDefaultAcl
  <2>1. Accounted /\ aclSupported /\ UNCHANGED <<before, aclSupported>>
    BY <1>6 DEF ShiftDefaultAcl, Accounted, ListsInv, ListsSupported
  <2>2. DefaultKept(j)
    BY <2>1 DEF ListsInv
  <2>3. disk'[j].defacl = IF j = at /\ disk[j].defacl # NoAcl
                          THEN Shift(disk[j].defacl, offset) ELSE disk[j].defacl
    BY <1>6, DefaultAclFields
  <2> QED BY <2>1, <2>2, <2>3
<1> QED BY <1>1, <1>2, <1>3, <1>4, <1>5, <1>6 DEF Next

\* An access list is shifted once for each name of its inode that was visited.
LEMMA AclOfStep ==
    ASSUME TypeOK, AtInv, AtInv', ListsInv, [Next]_vars, Accounted',
           NEW j \in Inodes \ (Symlinks \union {Root})
    PROVE  AclOf(j)'
<1> USE DEF AtStep
<1>1. CASE Start
  <2>1. /\ before' = disk /\ todo' = Names /\ pc' = "walk" /\ CheckACLSupport
    BY <1>1 DEF Start
  <2>2. disk'[j].acl = before'[j].acl /\ before'[j].acl \in Acls
    BY <2>1, CheckFields DEF TypeOK, Metadata
  <2>3. AclShifts(j)' = 0
    <3>1. VisitedNames(j)' = {}
      BY <2>1 DEF VisitedNames
    <3> QED BY <2>1, <3>1, FS_EmptySet DEF AclShifts
  <2>4. offset' \in Int
    BY <1>1, IdShiftAssumption DEF Start
  <2>5. Moved(before[j].acl, AclShifts(j) * offset)' = before'[j].acl
    <3>1. AclShifts(j)' * offset' = 0
      <4>1. \A x \in Int : 0 * x = 0
        OBVIOUS
      <4> QED BY <2>3, <2>4, <4>1, Zenon
    <3>2. Moved(before'[j].acl, 0) = before'[j].acl
      BY <2>2, NotMoved
    <3>3. Moved(before[j].acl, AclShifts(j) * offset)'
            = Moved(before'[j].acl, AclShifts(j)' * offset')
      BY DEF Moved, Shift
    <3> QED BY <3>1, <3>2, <3>3
  <2> QED BY <2>2, <2>5 DEF AclOf
<1>2. ASSUME NEW n \in Names, Chown(n) \/ Skip(n) PROVE AclOf(j)'
  <2>1. /\ n \in todo /\ todo' = todo \ {n} /\ pc = "walk" /\ Accounted
        /\ UNCHANGED <<inode, before, offset, aclSupported>>
    BY <1>2 DEF Chown, Skip, tree, Accounted
  <2>2. disk'[j].acl = disk[j].acl /\ AclOf(j)
    BY <1>2, <2>1, ChownFields DEF Skip, ListsInv
  <2>3. /\ Cardinality(VisitedNames(j))' =
              Cardinality(VisitedNames(j)) + (IF j = inode[n] THEN 1 ELSE 0)
        /\ Cardinality(VisitedNames(j)) \in Nat
    BY <2>1, VisitCounts, CountType
  <2>4. ASSUME aclSupported PROVE AtStep(j, {"chmod", "acl"})' <=> j = inode[n]
    <3>1. at \notin Inodes
      BY <2>1 DEF AtInv
    <3>2. CASE Skip(n)
      BY <2>1, <3>1, <3>2 DEF Skip, IsSymlink
    <3>3. CASE Chown(n)
      <4>1. at' = IF pc' = "walk" THEN NotSeen ELSE inode[n]
        BY <3>3, ChownGoes, Zenon
      <4>2. disk[inode[n]].setid \in BOOLEAN /\ inode[n] \in Inodes
        BY DEF TypeOK, Metadata
      <4>3. j = inode[n] => pc' \in {"chmod", "acl"}
        BY <2>4, <3>3, <4>2, ChownGoes DEF IsSymlink
      <4> QED BY <4>1, <4>2, <4>3, IdShiftAssumption
    <3> QED BY <1>2, <3>2, <3>3
  <2>5. ASSUME aclSupported PROVE AclShifts(j)' = AclShifts(j)
    <3>1. ~AtStep(j, {"chmod", "acl"})
      BY <2>1
    <3>2. AclShifts(j)' = Cardinality(VisitedNames(j))' - (IF j = inode[n] THEN 1 ELSE 0)
      BY <2>4, <2>5 DEF AclShifts
    <3>3. AclShifts(j) = Cardinality(VisitedNames(j)) - 0
      BY <3>1 DEF AclShifts
    <3> QED BY <2>3, <3>2, <3>3
  <2> QED BY <2>1, <2>2, <2>5, AclOfStays
<1>3. CASE Chmod \/ ShiftAcl \/ ShiftDefaultAcl
  <2>1. /\ UNCHANGED <<inode, todo, before, offset, aclSupported>> /\ Accounted
        /\ Cardinality(VisitedNames(j))' = Cardinality(VisitedNames(j))
    BY <1>3, CountStays DEF Chmod, ShiftAcl, ShiftDefaultAcl, tree, Accounted
  <2>2. AclOf(j) /\ Cardinality(VisitedNames(j)) \in Nat
    BY <2>1, CountType DEF ListsInv
  <2>3. CASE Chmod
    <3>1. aclSupported => at' = at /\ pc = "chmod" /\ pc' = "acl"
      BY <2>3 DEF Chmod, Goto
    <3>2. aclSupported => AclShifts(j)' = AclShifts(j)
      BY <2>1, <3>1 DEF AclShifts
    <3> QED BY <2>1, <2>2, <2>3, <3>2, ChmodFields, AclOfStays
  <2>4. CASE ShiftDefaultAcl
    <3>1. pc = "defacl" /\ pc' = "walk"
      BY <2>4 DEF ShiftDefaultAcl, Goto
    <3>2. AclShifts(j)' = AclShifts(j)
      BY <2>1, <3>1 DEF AclShifts
    <3> QED BY <2>1, <2>2, <2>4, <3>2, DefaultAclFields, AclOfStays
  <2>5. CASE ShiftAcl /\ at # j
    <3>1. at' # j
      <4>1. at' \in {NotSeen, at}
        BY <2>5 DEF ShiftAcl, Goto
      <4> QED BY <2>5, <4>1, IdShiftAssumption
    <3>2. AclShifts(j)' = AclShifts(j)
      BY <2>1, <2>5, <3>1 DEF AclShifts
    <3>3. disk'[j].acl = disk[j].acl
      BY <2>5, AclFields
    <3> QED BY <2>1, <2>2, <3>2, <3>3, AclOfStays
  <2>6. CASE ShiftAcl /\ at = j
    <3>1. aclSupported /\ pc = "acl" /\ pc' \in {"walk", "defacl"}
      BY <2>6 DEF ShiftAcl, Goto, ListsInv, ListsSupported
    <3>2. AclShifts(j)' = AclShifts(j) + 1 /\ AclShifts(j) \in Int
      BY <2>1, <2>2, <2>6, <3>1 DEF AclShifts
    <3>3. disk'[j].acl = IF disk[j].acl # NoAcl
                         THEN Shift(disk[j].acl, offset) ELSE disk[j].acl
      BY <2>6, AclFields
    <3>4. disk[j].acl = Moved(before[j].acl, AclShifts(j) * offset)
      BY <2>2, <3>1 DEF AclOf
    <3>5. before[j].acl \in Acls /\ offset \in Int
      BY DEF TypeOK, Metadata
    <3>6. disk'[j].acl = Moved(before[j].acl, (AclShifts(j) + 1) * offset)
      BY <3>2, <3>3, <3>4, <3>5, MovedOnceMore
    <3>7. disk'[j].acl = Moved(before[j].acl, AclShifts(j) * offset)'
      BY <2>1, <3>2, <3>6 DEF Moved, Shift
    <3> QED BY <2>1, <3>1, <3>7 DEF AclOf
  <2> QED BY <1>3, <2>3, <2>4, <2>5, <2>6
<1>4. CASE Finish
  <2>1. /\ UNCHANGED <<inode, todo, disk, before, offset, aclSupported>> /\ Accounted
        /\ pc = "walk" /\ pc' = "idle"
    BY <1>4 DEF Finish, End, tree, Accounted
  <2>2. AclShifts(j)' = AclShifts(j)
    BY <2>1, CountStays DEF AclShifts
  <2> QED BY <2>1, <2>2, AclOfStays DEF ListsInv
<1>5. CASE Halt
  BY <1>5, EndResult DEF Halt, End, Accounted
<1>6. CASE UNCHANGED vars
  <2>1. /\ UNCHANGED <<inode, todo, disk, before, offset, aclSupported, pc, at>> /\ Accounted
    BY <1>6 DEF vars, tree, Accounted, Succeeded
  <2>2. AclShifts(j)' = AclShifts(j)
    BY <2>1, CountStays DEF AclShifts
  <2> QED BY <2>1, <2>2, AclOfStays DEF ListsInv
<1> QED BY <1>1, <1>2, <1>3, <1>4, <1>5, <1>6 DEF Next

\* Every step preserves the invariant of the lists.
LEMMA ListsStep == ASSUME TypeOK, AtInv, AtInv', ListsInv, [Next]_vars PROVE ListsInv'
<1>1. ListsSupported'
  BY ListsSupportedStep DEF ListsInv
<1>2. ASSUME Accounted'
      PROVE  /\ \A i \in Inodes \ (Symlinks \union {Root}) : AclOf(i)'
             /\ \A i \in Inodes \ Symlinks : DefaultKept(i)'
  BY <1>2, AclOfStep, DefaultKeptStep
<1> QED BY <1>1, <1>2 DEF ListsInv

\* The access list of an inode is shifted once for each of its names that
\* ShiftIdsWithChown visited.
THEOREM ListsInvariant == Spec => []ListsInv
<1>1. Init => ListsInv
  <2>1. ASSUME Init PROVE ~Accounted /\ pc = "idle"
    BY <2>1 DEF Init, Accounted, Succeeded
  <2> QED BY <2>1 DEF ListsInv, ListsSupported
<1>2. Inv /\ Inv' /\ ListsInv /\ [Next]_vars => ListsInv'
  BY ListsStep DEF Inv
<1> QED BY <1>1, <1>2, Invariant, PTL DEF Spec

\* After a success every name was visited and nothing is under way.
LEMMA SuccessDone ==
    ASSUME Inv, DoneInv, ListsInv, Succeeded
    PROVE  CallDone(before, disk, offset, aclSupported)
<1> SUFFICES ASSUME NEW i \in Inodes \ Symlinks
    PROVE  /\ disk[i].owner = Chowned(before[i].owner, Shift(before[i].owner, offset))
           /\ disk[i].setid = before[i].setid
           /\ i # Root =>
                disk[i].acl = IF aclSupported
                              THEN Moved(before[i].acl, Cardinality(NamesOf(i)) * offset)
                              ELSE before[i].acl
           /\ disk[i].defacl = IF aclSupported THEN Moved(before[i].defacl, offset)
                                               ELSE before[i].defacl
  BY DEF CallDone
<1>1. todo = {} /\ pc = "idle" /\ Accounted /\ Visited(i)
  BY DEF DoneInv, AllVisited, TreeInv, Visited, Succeeded, Accounted
<1>2. disk[i].owner = Chowned(before[i].owner, Shift(before[i].owner, offset))
  BY <1>1 DEF Inv, OwnerShiftedOnce, IsSymlink, ShiftedOwner
<1>3. disk[i].setid = before[i].setid
  BY <1>1 DEF DoneInv, SetIdInv, AtStep
<1>4. ASSUME i # Root
      PROVE  disk[i].acl = IF aclSupported
                           THEN Moved(before[i].acl, Cardinality(NamesOf(i)) * offset)
                           ELSE before[i].acl
  <2>1. AclOf(i)
    BY <1>1, <1>4 DEF ListsInv
  <2>2. VisitedNames(i) = NamesOf(i)
    BY <1>1 DEF VisitedNames, NamesOf
  <2>3. AclShifts(i) = Cardinality(NamesOf(i))
    BY <1>1, <2>2, CountType DEF AclShifts, AtStep
  <2> QED BY <2>1, <2>3 DEF AclOf
<1>5. disk[i].defacl = IF aclSupported THEN Moved(before[i].defacl, offset)
                                       ELSE before[i].defacl
  <2>1. DefaultKept(i)
    BY <1>1 DEF ListsInv
  <2>2. aclSupported /\ before[i].defacl # NoAcl => disk[i].defacl = Shift(before[i].defacl, offset)
    BY <1>1 DEF DoneInv, AclInv, ListsDone, AtStep
  <2> QED BY <2>1, <2>2 DEF DefaultKept, Moved
<1> QED BY <1>2, <1>3, <1>4, <1>5

\* An entry that was moved and moved back is what it was.
LEMMA MovedBack ==
    ASSUME NEW entry \in Acls, NEW times \in Nat, NEW by \in Int, NEW back \in Int,
           by + back = 0
    PROVE  Moved(Moved(entry, times * by), times * back) = entry
<1>1. CASE entry = NoAcl
  BY <1>1 DEF Moved
<1>2. CASE entry # NoAcl
  <2>1. entry \in Ids /\ entry \in Int
    BY <1>2, IdShiftAssumption DEF Acls, Ids
  <2>2. times * by \in Int /\ times * back \in Int /\ times * by + times * back = 0
    <3>1. back = 0 - by
      OBVIOUS
    <3>2. times * (0 - by) = 0 - times * by /\ times * by \in Int
      OBVIOUS
    <3> QED BY <3>1, <3>2
  <2>3. Shift(entry, times * by) \in Ids
    BY <2>1, <2>2, ShiftType
  <2>4. Shift(Shift(entry, times * by), times * back) = entry
    BY <2>1, <2>2, ShiftAndBack
  <2> QED BY <1>2, <2>3, <2>4, IdShiftAssumption DEF Moved
<1> QED BY <1>1, <1>2

\* Two calls that succeed with opposite offsets.
LEMMA BackAgain ==
    ASSUME TypeOK, NEW by \in Int, NEW acls \in BOOLEAN, by + offset = 0,
           CallDone(original, before, by, acls),
           CallDone(before, disk, offset, aclSupported),
           NEW i \in Inodes \ Symlinks,
           original[i].owner # NoId, Shift(original[i].owner, by) # NoId
    PROVE  /\ disk[i].owner = original[i].owner
           /\ disk[i].setid = original[i].setid
           /\ acls = aclSupported => /\ i # Root => disk[i].acl = original[i].acl
                              /\ disk[i].defacl = original[i].defacl
<1>1. original[i].owner \in Ids /\ original[i].acl \in Acls /\ original[i].defacl \in Acls
  BY DEF TypeOK, Metadata
<1> offset \in Int /\ aclSupported \in BOOLEAN
  BY DEF TypeOK
<1>2. disk[i].owner = original[i].owner
  <2>1. before[i].owner = Shift(original[i].owner, by)
    BY DEF CallDone, Chowned
  <2>2. disk[i].owner = Chowned(before[i].owner, Shift(before[i].owner, offset))
    BY DEF CallDone
  <2>3. Shift(before[i].owner, offset) = original[i].owner
    BY <1>1, <2>1, ShiftAndBack
  <2> QED BY <2>2, <2>3 DEF Chowned
<1>3. disk[i].setid = original[i].setid
  BY DEF CallDone
<1>4. ASSUME acls = aclSupported, i # Root PROVE disk[i].acl = original[i].acl
  <2> DEFINE times == Cardinality(NamesOf(i))
  <2>1. times \in Nat
    BY CountType
  <2>2. /\ before[i].acl = IF acls THEN Moved(original[i].acl, times * by) ELSE original[i].acl
        /\ disk[i].acl = IF acls THEN Moved(before[i].acl, times * offset) ELSE before[i].acl
    BY <1>4 DEF CallDone
  <2>3. Moved(Moved(original[i].acl, times * by), times * offset) = original[i].acl
    <3> HIDE DEF times
    <3> QED BY <1>1, <2>1, MovedBack
  <2> QED BY <2>2, <2>3
<1>5. ASSUME acls = aclSupported PROVE disk[i].defacl = original[i].defacl
  <2>1. /\ before[i].defacl = IF acls THEN Moved(original[i].defacl, by) ELSE original[i].defacl
        /\ disk[i].defacl = IF acls THEN Moved(before[i].defacl, offset) ELSE before[i].defacl
    BY <1>5 DEF CallDone
  <2>2. Moved(Moved(original[i].defacl, by), offset) = original[i].defacl
    <3>1. 1 * by = by /\ 1 * offset = offset
      OBVIOUS
    <3>2. Moved(Moved(original[i].defacl, 1 * by), 1 * offset) = original[i].defacl
      BY <1>1, MovedBack
    <3> QED BY <3>1, <3>2
  <2> QED BY <2>1, <2>2
<1> QED BY <1>2, <1>3, <1>4, <1>5

-----------------------------------------------------------------------------
\* The results of earlier calls stay when a call adds its own.
LEMMA EndResults ==
    ASSUME TypeOK, NEW outcome \in {"success", "failure"}, End(outcome)
    PROVE  /\ Len(results') = Len(results) + 1
           /\ Len(results) \in Nat
           /\ results'[Len(results) + 1] =
                [offset |-> offset, acl |-> aclSupported, outcome |-> outcome]
           /\ \A k \in 1..Len(results) : results'[k] = results[k]
           /\ pc' = "idle"
           /\ UNCHANGED <<inode, disk, original, before, offset, aclSupported>>
<1> DEFINE R == [offset : Int, acl : BOOLEAN, outcome : {"success", "failure"}]
           r == [offset |-> offset, acl |-> aclSupported, outcome |-> outcome]
<1>1. results \in Seq(R) /\ r \in R /\ results' = Append(results, r)
  BY DEF TypeOK, End
<1>2. /\ pc' = "idle"
      /\ UNCHANGED <<inode, disk, original, before, offset, aclSupported>>
  BY DEF End, tree
<1> HIDE DEF R, r
<1>3. /\ Len(Append(results, r)) = Len(results) + 1 /\ Len(results) \in Nat
      /\ Append(results, r)[Len(results) + 1] = r
      /\ \A k \in 1..Len(results) : Append(results, r)[k] = results[k]
  BY <1>1
<1> QED BY <1>1, <1>2, <1>3 DEF r

\* What a call of ShiftIdsWithChown that succeeded has made of the tree it
\* found.
THEOREM SuccessInvariant == Spec => []SuccessInv
<1>1. Inv /\ DoneInv /\ ListsInv => SuccessInv
  BY SuccessDone DEF SuccessInv
<1> QED BY <1>1, Invariant, DoneInvariant, ListsInvariant, PTL

\* What the first call was given.
LEMMA FirstResult ==
    ASSUME TypeOK, Len(results) = 1
    PROVE  results[1].offset \in Int /\ results[1].acl \in BOOLEAN
<1> DEFINE R == [offset : Int, acl : BOOLEAN, outcome : {"success", "failure"}]
<1>1. results \in Seq(R)
  BY DEF TypeOK
<1> HIDE DEF R
<1>2. results[1] \in R
  BY <1>1
<1> QED BY <1>2 DEF R

\* Within a call, and where one begins, the tree between the calls stays.
LEMMA CallsStay ==
    ASSUME CallsInv, UNCHANGED <<inode, original, results>>, Between' = Between,
           UndoRestores'
    PROVE  CallsInv'
<1>1. \A i \in Inodes : NamesOf(i)' = NamesOf(i)
  BY DEF NamesOf
<1>2. ASSUME Len(results') = 1, results'[1].outcome = "success"
      PROVE  CallDone(original, Between, results[1].offset, results[1].acl)'
  <2>1. CallDone(original, Between, results[1].offset, results[1].acl)
    BY <1>2 DEF CallsInv
  <2> QED BY <1>1, <2>1 DEF CallDone, Moved, Shift, Chowned
<1> QED BY <1>2 DEF CallsInv

\* The end of the first call, and of the second.
LEMMA CallEnds ==
    ASSUME TypeOK, CallsInv, SuccessInv', pc # "idle",
           NEW outcome \in {"success", "failure"}, End(outcome),
           Succeeded' <=> outcome = "success"
    PROVE  CallsInv'
<1> DEFINE last == [offset |-> offset, acl |-> aclSupported, outcome |-> outcome]
<1>1. /\ Len(results') = Len(results) + 1 /\ Len(results) \in Nat
      /\ results'[Len(results) + 1] = last
      /\ \A k \in 1..Len(results) : results'[k] = results[k]
      /\ pc' = "idle"
      /\ UNCHANGED <<inode, disk, original, before, offset, aclSupported>>
  BY EndResults
<1>2. last.outcome = outcome /\ last.offset = offset /\ last.acl = aclSupported
  OBVIOUS
<1> HIDE DEF last
<1>3. results' # <<>>
  BY <1>1
<1>4. Between = before /\ Between' = disk
  BY <1>1 DEF Between
<1>5. \A i \in Inodes : NamesOf(i)' = NamesOf(i)
  BY <1>1 DEF NamesOf
<1>6. outcome = "success" => CallDone(before, disk, offset, aclSupported)
  BY <1>1, <1>5 DEF SuccessInv, CallDone, Moved, Shift, Chowned
<1>7. ASSUME Len(results') = 1, results'[1].outcome = "success"
      PROVE  CallDone(original, Between, results[1].offset, results[1].acl)'
  <2>1. Len(results) = 0 /\ results'[1] = last
    <3>1. Len(results) = 0 /\ Len(results) + 1 = 1
      BY <1>1, <1>7
    <3> QED BY <1>1, <3>1, Zenon
  <2>2. before = original
    BY <1>4, <2>1, EmptySeq DEF CallsInv, TypeOK
  <2>3. CallDone(original, disk, offset, aclSupported)
    BY <1>2, <1>6, <1>7, <2>1, <2>2
  <2> QED BY <1>1, <1>2, <1>4, <1>5, <2>1, <2>3 DEF CallDone, Moved, Shift, Chowned
<1>8. UndoRestores'
  <2> SUFFICES ASSUME Undone', NEW i \in Inodes \ Symlinks
               PROVE  /\ disk'[i].owner = original'[i].owner
                      /\ disk'[i].setid = original'[i].setid
                      /\ results'[1].acl = results'[2].acl =>
                            /\ i # Root => disk'[i].acl = original'[i].acl
                            /\ disk'[i].defacl = original'[i].defacl
    BY DEF UndoRestores
  <2> DEFINE first == results[1]
  <2>1. /\ Len(results) = 1 /\ results'[1] = first /\ results'[2] = last
        /\ first.outcome = "success" /\ outcome = "success"
        /\ first.offset + offset = 0
        /\ Shift(original[i].owner, first.offset) # NoId
    <3>1. /\ Len(results') = 2
          /\ results'[1].outcome = "success" /\ results'[2].outcome = "success"
          /\ results'[1].offset + results'[2].offset = 0
          /\ Shift(original'[i].owner, results'[1].offset) # NoId
      BY DEF Undone, Shift
    <3>2. Len(results) = 1 /\ Len(results) + 1 = 2 /\ 1 \in 1..Len(results)
      <4>1. Len(results) \in Nat /\ Len(results) + 1 = 2
        BY <1>1, <3>1, Zenon
      <4>2. \A n \in Nat : n + 1 = 2 => n = 1 /\ 1 \in 1..n
        OBVIOUS
      <4> QED BY <4>1, <4>2, Zenon
    <3>3. results'[1] = first /\ results'[2] = last
      BY <1>1, <3>2, Zenon
    <3>4. original' = original
      BY <1>1
    <3> HIDE DEF first
    <3>5. first.outcome = "success" /\ outcome = "success"
      BY <1>2, <3>1, <3>3
    <3>6. first.offset + offset = 0
      BY <1>2, <3>1, <3>3
    <3>7. Shift(original[i].owner, first.offset) # NoId
      BY <3>1, <3>3, <3>4
    <3> QED BY <3>2, <3>3, <3>5, <3>6, <3>7
  <2>2. first.offset \in Int /\ first.acl \in BOOLEAN
    BY <2>1, FirstResult
  <2>3. CallDone(original, before, first.offset, first.acl)
    BY <1>4, <2>1 DEF CallsInv
  <2>4. CallDone(before, disk, offset, aclSupported)
    BY <1>6, <2>1
  <2>5. original[i].owner # NoId
    BY DEF CallsInv
  <2> HIDE DEF first
  <2>6. /\ disk[i].owner = original[i].owner
        /\ disk[i].setid = original[i].setid
        /\ first.acl = aclSupported =>
              /\ i # Root => disk[i].acl = original[i].acl
              /\ disk[i].defacl = original[i].defacl
    BY <2>1, <2>2, <2>3, <2>4, <2>5, BackAgain
  <2> QED BY <1>1, <1>2, <2>1, <2>6
<1> QED BY <1>1, <1>3, <1>7, <1>8 DEF CallsInv

\* Every step preserves what is known of the calls.
LEMMA CallsStep ==
    ASSUME TypeOK, CallsInv, SuccessInv', [Next]_vars PROVE CallsInv'
<1>1. CASE Start
  <2>1. /\ UNCHANGED <<inode, original, results>> /\ pc = "idle" /\ pc' = "walk"
        /\ before' = disk
    BY <1>1 DEF Start, tree
  <2> QED BY <2>1, CallsStay DEF Between, UndoRestores, Undone
<1>2. CASE (\E n \in Names : Chown(n) \/ Skip(n)) \/ Chmod \/ ShiftAcl \/ ShiftDefaultAcl
  <2>1. /\ UNCHANGED <<inode, original, results, before>> /\ pc # "idle" /\ pc' # "idle"
    BY <1>2 DEF Chown, Skip, Chmod, ShiftAcl, ShiftDefaultAcl, Goto, tree
  <2> QED BY <2>1, CallsStay DEF Between, UndoRestores, Undone
<1>3. CASE Finish
  BY <1>3, EndResult, CallEnds DEF Finish
<1>4. CASE Halt
  BY <1>4, EndResult, CallEnds DEF Halt
<1>5. CASE UNCHANGED vars
  <2>1. UNCHANGED <<inode, original, results, before, disk, pc>>
    BY <1>5 DEF vars, tree
  <2>2. UndoRestores'
    BY <2>1 DEF CallsInv, UndoRestores, Undone, Shift
  <2> QED BY <2>1, <2>2, CallsStay DEF Between
<1> QED BY <1>1, <1>2, <1>3, <1>4, <1>5 DEF Next

\* Before the first call the tree is the original one.
LEMMA CallsInit == Init => CallsInv
<1> SUFFICES ASSUME Init PROVE CallsInv
  OBVIOUS
<1>1. original = disk /\ results = <<>> /\ pc = "idle"
  BY DEF Init
<1>2. ASSUME NEW i \in Inodes PROVE original[i].owner # NoId
  <2>1. disk[i] \in InitialMetadata(i)
    BY DEF Init
  <2> QED BY <1>1, <2>1, IdShiftAssumption DEF InitialMetadata
<1>3. Len(results) = 0
  BY <1>1
<1> QED BY <1>1, <1>2, <1>3 DEF CallsInv, Between, UndoRestores, Undone

(***************************************************************************)
(* UndoRestores: a shift and the opposite shift, when both succeed, give   *)
(* back owners, set-id bits and lists, over any wrap-around of the ids and *)
(* also for the lists of files that are shifted once for each of their     *)
(* names.                                                                  *)
(***************************************************************************)
THEOREM UndoRestoresAlways == Spec => []UndoRestores
<1>1. TypeOK /\ SuccessInv' /\ CallsInv /\ [Next]_vars => CallsInv'
  BY CallsStep
<1>2. CallsInv => UndoRestores
  BY DEF CallsInv
<1> QED BY CallsInit, TypeCorrect, SuccessInvariant, <1>1, <1>2, PTL DEF Spec
=============================================================================
