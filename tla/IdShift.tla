------------------------------- MODULE IdShift -------------------------------
(***************************************************************************)
(* idShiftUtils.ShiftIdsWithChown: a walk over a directory tree that adds  *)
(* an offset to every owner, and to every id in an access control list. A  *)
(* container's files are shifted when it starts and shifted back when it   *)
(* stops, so calls follow each other on one tree, and each may fail, or    *)
(* the program crash, between any two of its system calls.                 *)
(*                                                                         *)
(* User and group ids are treated alike, by the same system calls: one id  *)
(* stands for both. An access control list has one entry that names an id, *)
(* or none. The walk is unsorted, and nobody else changes the tree: it may *)
(* visit the names in any order. The tree is on one file system, so inode  *)
(* numbers name inodes.                                                    *)
(***************************************************************************)
EXTENDS Integers, Sequences, FiniteSets

CONSTANTS
    Names,          \* the paths at and below baseDir
    Inodes,         \* the inodes they name
    Dirs,           \* the inodes that are directories
    Root,           \* the inode of baseDir
    Symlinks,       \* the inodes that are symbolic links
    IdRange,        \* the number of ids (2^32)
    Owners,         \* the owners a tree may start with
    AclIds,         \* the ids in the access control lists it starts with
    Offsets,        \* the offsets callers give
    MaxRuns,        \* bound on the calls on one tree
    NoAcl,          \* no entry of the list names an id
    NotSeen         \* the inode is not in hardLinks

Ids == 0..(IdRange - 1)
NoId == IdRange - 1     \* -1, which chown takes for "leave it alone"

ASSUME IdShiftAssumption ==
    /\ IsFiniteSet(Names)
    /\ Dirs \subseteq Inodes
    /\ Root \in Dirs
    /\ Symlinks \subseteq Inodes \ Dirs
    /\ IdRange \in Nat \ {0}
    /\ Owners \subseteq Ids \ {NoId}
    /\ AclIds \subseteq Ids \ {NoId}
    /\ Offsets \subseteq Int
    /\ MaxRuns \in Nat
    /\ NoAcl \notin Ids
    /\ NotSeen \notin Ids \union Inodes

VARIABLES
    inode,          \* the inode of each name
    disk,           \* per inode: owner, set-id bit, access and default ACL
    original,       \* history: the disk before the first call
    before,         \* history: the disk before the current or last call
    offset,         \* uidOffset and gidOffset
    aclSupported,   \* aclSupported
    hardLinks,      \* hardLinks: the owner given to an inode seen before
    todo,           \* the names the walk has not visited
    at,             \* the inode the callback works on, or NotSeen
    pc,             \* the next step, "idle" between calls
    results         \* history: what each call was given and how it ended

tree == <<inode, original>>
vars == <<inode, disk, original, before, offset, aclSupported, hardLinks,
          todo, at, pc, results>>

IsSymlink(i) == i \in Symlinks
IsRegular(i) == i \notin Dirs \union Symlinks

Acls == Ids \union {NoAcl}
Metadata == [owner : Ids, setid : BOOLEAN, acl : Acls, defacl : Acls]

\* st.Nlink > 1, which is always so of a directory.
ManyLinks(i) ==
    i \in Dirs \/ \E m, n \in Names : m # n /\ inode[m] = i /\ inode[n] = i

\* A symlink has no list, and only a directory has a default list.
InitialMetadata(i) ==
    [owner : Owners,
     setid : IF IsRegular(i) THEN BOOLEAN ELSE {FALSE},
     acl : IF IsSymlink(i) THEN {NoAcl} ELSE AclIds \union {NoAcl},
     defacl : IF i \in Dirs THEN AclIds \union {NoAcl} ELSE {NoAcl}]

Init ==
    /\ inode \in [Names -> Inodes]
    /\ \A i \in Inodes : \E n \in Names : inode[n] = i
    /\ \A m, n \in Names : inode[m] = inode[n] /\ inode[m] \in Dirs => m = n
    /\ disk \in [Inodes -> UNION {InitialMetadata(i) : i \in Inodes}]
    /\ \A i \in Inodes : disk[i] \in InitialMetadata(i)
    /\ original = disk
    /\ before = disk
    /\ offset = 0
    /\ aclSupported = FALSE
    /\ hardLinks = [i \in Inodes |-> NotSeen]
    /\ todo = Names
    /\ at = NotSeen
    /\ pc = "idle"
    /\ results = <<>>

-----------------------------------------------------------------------------
(* Ids. *)

\* A plausible bug: ids are added without a width.
ShiftUnbounded(id, by) == id + by

\* int32(id) + offset, read back as an id.
Shift(id, by) == (id + by) % IdRange

\* The kernel's lchown of an owner to target.
Chowned(owner, target) == IF target = NoId THEN owner ELSE target

-----------------------------------------------------------------------------
(* One call. *)

Goto(step, i) ==
    /\ pc' = step
    /\ at' = IF step = "walk" THEN NotSeen ELSE i

\* checkACLSupport: a kernel that takes the empty attribute it sets for an
\* empty list removes the access list of baseDir. Not being able to open
\* baseDir counts as not supported.
CheckACLSupport ==
    /\ aclSupported' \in BOOLEAN
    /\ disk' \in {disk, [disk EXCEPT ![Root].acl = NoAcl]}

Start ==
    /\ pc = "idle"
    /\ Len(results) < MaxRuns
    /\ pc' = "walk"
    /\ todo' = Names
    /\ offset' \in Offsets
    /\ CheckACLSupport
    /\ before' = disk
    /\ UNCHANGED <<tree, at, hardLinks, results>>

\* A plausible bug: every link is shifted from what is on the disk.
TargetOfEach(i) == Shift(disk[i].owner, offset)

\* The first link of an inode decides for the others.
Target(i) ==
    IF ManyLinks(i) /\ hardLinks[i] # NotSeen
    THEN hardLinks[i]
    ELSE Shift(disk[i].owner, offset)

Track(i) ==
    hardLinks' = IF ManyLinks(i) THEN [hardLinks EXCEPT ![i] = Target(i)] ELSE hardLinks

\* The callback, up to the lchown, which clears the set-id bits of a file.
\* The mode that Lstat saw decides how it goes on.
Chown(n) ==
    LET i == inode[n] IN
    /\ pc = "walk"
    /\ n \in todo
    /\ todo' = todo \ {n}
    /\ Track(i)
    /\ disk' = [disk EXCEPT ![i] =
          [@ EXCEPT !.owner = Chowned(disk[i].owner, Target(i)), !.setid = FALSE]]
    /\ Goto(IF disk[i].setid THEN "chmod"
            ELSE IF IsSymlink(i) \/ ~aclSupported THEN "walk" ELSE "acl", i)
    /\ UNCHANGED <<tree, before, offset, aclSupported, results>>

\* A plausible bug: the walk skips whatever it cannot chown.
SkipAny(n) ==
    /\ pc = "walk"
    /\ n \in todo
    /\ todo' = todo \ {n}
    /\ Track(inode[n])
    /\ UNCHANGED <<tree, disk, before, offset, aclSupported, at, pc, results>>

\* The lchown of a symlink fails: the error callback skips it, the walk goes on.
Skip(n) ==
    /\ pc = "walk"
    /\ n \in todo
    /\ IsSymlink(inode[n])
    /\ todo' = todo \ {n}
    /\ Track(inode[n])
    /\ UNCHANGED <<tree, disk, before, offset, aclSupported, at, pc, results>>

\* A plausible bug: the bits are not restored.
ChmodNothing ==
    /\ pc = "chmod"
    /\ Goto(IF aclSupported THEN "acl" ELSE "walk", at)
    /\ UNCHANGED <<tree, disk, before, offset, aclSupported, hardLinks, todo, results>>

Chmod ==
    /\ pc = "chmod"
    /\ disk' = [disk EXCEPT ![at].setid = TRUE]
    /\ Goto(IF aclSupported THEN "acl" ELSE "walk", at)
    /\ UNCHANGED <<tree, before, offset, aclSupported, hardLinks, todo, results>>

\* shiftAclType: a list without an entry for an id is not written; the kernel
\* refuses the id -1. From 2^31 on the entry is formatted as 64 bits, which the
\* library may cut to an id or refuse (Halt).
ShiftAcl ==
    /\ pc = "acl"
    /\ \/ disk[at].acl = NoAcl /\ UNCHANGED disk
       \/ /\ disk[at].acl # NoAcl
          /\ Shift(disk[at].acl, offset) # NoId
          /\ disk' = [disk EXCEPT ![at].acl = Shift(@, offset)]
    /\ Goto(IF at \in Dirs THEN "defacl" ELSE "walk", at)
    /\ UNCHANGED <<tree, before, offset, aclSupported, hardLinks, todo, results>>

ShiftDefaultAcl ==
    /\ pc = "defacl"
    /\ \/ disk[at].defacl = NoAcl /\ UNCHANGED disk
       \/ /\ disk[at].defacl # NoAcl
          /\ Shift(disk[at].defacl, offset) # NoId
          /\ disk' = [disk EXCEPT ![at].defacl = Shift(@, offset)]
    /\ Goto("walk", at)
    /\ UNCHANGED <<tree, before, offset, aclSupported, hardLinks, todo, results>>

\* A plausible bug: the map of hard links outlives the call.
EndKeepingLinks(outcome) ==
    /\ pc' = "idle"
    /\ at' = NotSeen
    /\ results' = Append(results, [offset |-> offset, acl |-> aclSupported,
                                   outcome |-> outcome])
    /\ UNCHANGED <<tree, disk, before, offset, aclSupported, hardLinks, todo>>

\* ShiftIdsWithChown returns, or the program is gone; hardLinks with it.
End(outcome) ==
    /\ pc' = "idle"
    /\ at' = NotSeen
    /\ hardLinks' = [i \in Inodes |-> NotSeen]
    /\ results' = Append(results, [offset |-> offset, acl |-> aclSupported,
                                   outcome |-> outcome])
    /\ UNCHANGED <<tree, disk, before, offset, aclSupported, todo>>

Finish == pc = "walk" /\ todo = {} /\ End("success")

\* Any other system call fails and halts the walk, or the program crashes:
\* what was done stays, also for the next call.
Halt == pc # "idle" /\ End("failure")

Next ==
    \/ Start
    \/ \E n \in Names : Chown(n) \/ Skip(n)
    \/ Chmod
    \/ ShiftAcl
    \/ ShiftDefaultAcl
    \/ Finish
    \/ Halt

Spec == Init /\ [][Next]_vars
-----------------------------------------------------------------------------
(* The types: owners and ACL entries are ids, whatever the offset. *)
TypeOK ==
    /\ inode \in [Names -> Inodes]
    /\ disk \in [Inodes -> Metadata]
    /\ original \in [Inodes -> Metadata]
    /\ before \in [Inodes -> Metadata]
    /\ offset \in Int
    /\ aclSupported \in BOOLEAN
    /\ hardLinks \in [Inodes -> Ids \union {NotSeen}]
    /\ todo \in SUBSET Names
    /\ at \in Inodes \union {NotSeen}
    /\ pc \in {"idle", "walk", "chmod", "acl", "defacl"}
    /\ results \in Seq([offset : Int, acl : BOOLEAN, outcome : {"success", "failure"}])

ShiftedOwner(i) == Chowned(before[i].owner, Shift(before[i].owner, offset))

Visited(i) == \E n \in Names \ todo : inode[n] = i

(***************************************************************************)
(* "If a file has multiple hardlinks, change them all to the same uid:gid":*)
(* at every point of a call, and after it, whether it succeeded or not, an *)
(* inode's owner is shifted exactly once if any of its links was visited,  *)
(* and not at all otherwise; a symlink may have been skipped.              *)
(***************************************************************************)
OwnerShiftedOnce ==
    \A i \in Inodes :
        \/ disk[i].owner = IF Visited(i) THEN ShiftedOwner(i) ELSE before[i].owner
        \/ IsSymlink(i) /\ disk[i].owner = before[i].owner

Succeeded == pc = "idle" /\ results # <<>> /\ results[Len(results)].outcome = "success"

(***************************************************************************)
(* Success means that all was done: every inode but a symlink was shifted, *)
(* and the ACL entries of inodes with one link, and of the directory's     *)
(* default list, were shifted with it.                                     *)
(***************************************************************************)
SuccessIsComplete ==
    Succeeded => \A i \in Inodes \ Symlinks :
        /\ disk[i].owner = ShiftedOwner(i)
        /\ aclSupported =>
              /\ ~ManyLinks(i) /\ before[i].acl # NoAcl
                    => disk[i].acl = Shift(before[i].acl, offset)
              /\ before[i].defacl # NoAcl
                    => disk[i].defacl = Shift(before[i].defacl, offset)

(***************************************************************************)
(* "chown will turn-off the set-user-ID and set-group-ID bits on files, so *)
(* we need to restore them": after a call that succeeded the bits are what *)
(* they were. (After a crash between chown and chmod they are lost.)       *)
(***************************************************************************)
SetIdRestored == Succeeded => \A i \in Inodes : disk[i].setid = before[i].setid

(***************************************************************************)
(* A shift and the opposite shift, when both succeed, give back what was   *)
(* there, over any wrap-around of the ids and also for the lists of files  *)
(* with several links, unless an owner is taken to -1 on the way. The one  *)
(* list that may be missing is baseDir's.                                  *)
(***************************************************************************)
Undone ==
    /\ pc = "idle"
    /\ Len(results) = 2
    /\ \A k \in 1..2 : results[k].outcome = "success"
    /\ results[1].offset + results[2].offset = 0
    /\ \A i \in Inodes : Shift(original[i].owner, results[1].offset) # NoId

UndoRestores ==
    Undone => \A i \in Inodes \ Symlinks :
        /\ disk[i].owner = original[i].owner
        /\ disk[i].setid = original[i].setid
        /\ results[1].acl = results[2].acl =>
              /\ i # Root => disk[i].acl = original[i].acl
              /\ disk[i].defacl = original[i].defacl

-----------------------------------------------------------------------------
(***************************************************************************)
(* "Shifts the ACL user and group IDs by the given offset": the entry of a *)
(* file is shifted once in a call. The callback shifts it once per link.   *)
(***************************************************************************)
AclShiftedOnce ==
    Succeeded /\ aclSupported =>
        \A i \in Inodes \ (Symlinks \union {Root}) :
            before[i].acl # NoAcl => disk[i].acl = Shift(before[i].acl, offset)
=============================================================================
