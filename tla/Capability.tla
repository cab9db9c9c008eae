----------------------------- MODULE Capability -----------------------------
(***************************************************************************)
(* Package capability: an object holds capability sets as words of bits, a *)
(* caller edits it, and Load and Apply exchange it with the kernel. The    *)
(* Capabilities interface has two implementations: capsV3 for the calling  *)
(* thread, capsFile for the security.capability attribute of a file.       *)
(*                                                                         *)
(* Apply of a thread is three groups of system calls, each with rules of   *)
(* its own about who may do what, and what one group does decides what the *)
(* next one may: the model keeps them as steps. The caller has locked its  *)
(* goroutine to its thread, whose capabilities nobody else can change.     *)
(***************************************************************************)
EXTENDS Integers

CONSTANTS
    WordBits,       \* bits of a word (32)
    LastCap,        \* the last capability of the kernel, CAP_LAST_CAP
    SetPCap,        \* CAP_SETPCAP, a capability of the lower word
    MaxCalls        \* bound on the calls on one object

ASSUME CapabilityAssumption ==
    /\ WordBits \in Nat \ {0}
    /\ LastCap \in WordBits..(2 * WordBits - 1)
    /\ SetPCap \in 0..(WordBits - 1)
    /\ MaxCalls \in Nat

VARIABLES
    limits,         \* CAP_LAST_CAP and capUpperMask: the "default" or the "kernel" ones
    version,        \* 3: capsV3; 0, 1, 2: capsFile, by its data.version
    magic,          \* of a file, data.magic: 0 never set, 1, 2, or 3 for any other
    obj,            \* the words of the object
    want,           \* history: what edits and loads left in it, as sets
    thread,         \* the capabilities of the calling thread (external)
    attr,           \* the file's security.capability attribute (external)
    pc,             \* the next step of an Apply, "idle" between calls
    kind,           \* the kind given to Apply
    atApply,        \* history: thread when Apply was called
    result,         \* what the last call was and what it returned
    calls           \* calls so far

object == <<version, magic, obj, want>>
vars == <<limits, version, magic, obj, want, thread, attr, pc, kind, atApply, result, calls>>

Bits == 0..(WordBits - 1)
Words == [{0, 1} -> SUBSET Bits]
Caps == 0..(2 * WordBits - 1)
KernelCaps == 0..LastCap

CAPS == {"effective", "permitted", "inheritable"}
BOUNDS == {"bounding"}
AMBS == {"ambient"}
CapTypes == CAPS \union BOUNDS \union AMBS
Kinds == {{t} : t \in CapTypes} \union {UNION k : k \in SUBSET {CAPS, BOUNDS, AMBS}}

Threads == [CapTypes -> SUBSET KernelCaps]
NoWords == [i \in {0, 1} |-> {}]
AllBits == [i \in {0, 1} |-> Bits]
Lower(words) == [words EXCEPT ![1] = {}]

\* How the kernel reads words, and writes them.
CapsIn(words) == {c \in Caps : c % WordBits \in words[c \div WordBits]}
WordsOf(caps) == [i \in {0, 1} |-> {b \in Bits : WordBits * i + b \in caps}]

IsFile == version # 3

\* An attribute has a version, a flag and so many pairs of words; those that it
\* does not have are empty. Version 1 has one pair, version 2 has two, and a
\* file may come with one that is neither.
Attrs == [version : 0..3, size : 0..2, permitted : Words, inheritable : Words, flag : BOOLEAN]

NoAttr ==
    [version |-> 0, size |-> 0, permitted |-> NoWords, inheritable |-> NoWords, flag |-> FALSE]

WellFormed == attr.version \in {1, 2} /\ attr.size = attr.version

\* A thread with and without CAP_SETPCAP, bounded or not, that passes some
\* capabilities on or none: its permitted set bounds the ambient set.
InitialThreads ==
    {[t \in CapTypes |-> CASE t \in {"effective", "permitted"} -> all
                           [] t = "bounding"                   -> bounding
                           [] OTHER                            -> passed] :
        all \in {KernelCaps, KernelCaps \ {SetPCap}},
        passed \in {{}, KernelCaps \ {SetPCap}},
        bounding \in {KernelCaps, {SetPCap}}}

InitialAttrs ==
    {NoAttr}
    \union [version : 1..3, size : {2}, permitted : {AllBits}, inheritable : {NoWords},
            flag : BOOLEAN]
    \union [version : 1..2, size : {1}, permitted : {Lower(AllBits)}, inheritable : {NoWords},
            flag : BOOLEAN]

\* An object is for the thread or for the file, and deals with that alone. The
\* limits may be the defaults: newFile does not initialize the package, and the
\* read of cap_last_cap may have failed.
Init ==
    /\ limits \in {"default", "kernel"}
    /\ magic = 0
    /\ obj = [t \in CapTypes |-> NoWords]
    /\ want = [t \in CapTypes |-> {}]
    /\ \/ version = 3 /\ thread \in InitialThreads /\ attr = NoAttr
       \/ version = 0 /\ thread = [t \in CapTypes |-> {}] /\ attr \in InitialAttrs
    /\ pc = "idle"
    /\ kind = {}
    /\ atApply = thread
    /\ result = "none"
    /\ calls = 0

Call ==
    /\ pc = "idle"
    /\ calls < MaxCalls
    /\ calls' = calls + 1
    /\ UNCHANGED limits

\* Another goroutine runs initialize.
InitializePackage ==
    /\ limits = "default"
    /\ limits' = "kernel"
    /\ UNCHANGED <<object, thread, attr, pc, kind, atApply, result, calls>>

\* The kernel takes the attribute off a file that is written to.
StripAttr ==
    /\ attr # NoAttr
    /\ attr' = NoAttr
    /\ result' = "none"
    /\ UNCHANGED <<limits, object, thread, pc, kind, atApply, calls>>

-----------------------------------------------------------------------------
(* Words. *)

WordOf(c) == IF c > WordBits - 1 THEN c \div WordBits ELSE 0

\* A plausible bug: the bit is not brought into its word.
BitUnreduced(c) == c

BitOf(c) == IF c > WordBits - 1 THEN c % WordBits ELSE c

\* A file attribute of version 1 has no upper word.
Holds(t, c) == ~IsFile \/ (t \in CAPS /\ (version # 1 \/ c < WordBits))

Get(t, c) == Holds(t, c) /\ BitOf(c) \in obj[t][WordOf(c)]

Empty(t) == obj[t] = NoWords

\* A plausible bug: one bit too many.
UpperMaskOneMore == IF limits = "kernel" THEN 0..(LastCap - WordBits + 1) ELSE Bits

\* capUpperMask: all ones until initialize has set it.
UpperMask == IF limits = "kernel" THEN 0..(LastCap - WordBits) ELSE Bits

Full(t) ==
    IF version = 0
    THEN Bits \ {WordBits - 1} \subseteq obj[t][0]
    ELSE obj[t][0] = Bits /\ UpperMask \subseteq obj[t][1]

-----------------------------------------------------------------------------
(* Edits of the object. *)

Edit(words, caps) ==
    /\ Call
    /\ obj' = words
    /\ want' = caps
    /\ result' = "none"
    /\ UNCHANGED <<version, magic, thread, attr, pc, kind, atApply>>

Set(which, c) ==
    LET these == {t \in which : Holds(t, c)} IN
    Edit([t \in CapTypes |-> IF t \in these
                             THEN [obj[t] EXCEPT ![WordOf(c)] = @ \union {BitOf(c)}]
                             ELSE obj[t]],
         [t \in CapTypes |-> IF t \in these THEN want[t] \union {c} ELSE want[t]])

Unset(which, c) ==
    LET these == {t \in which : Holds(t, c)} IN
    Edit([t \in CapTypes |-> IF t \in these
                             THEN [obj[t] EXCEPT ![WordOf(c)] = @ \ {BitOf(c)}]
                             ELSE obj[t]],
         [t \in CapTypes |-> IF t \in these THEN want[t] \ {c} ELSE want[t]])

\* The types of k that Fill and Clear of a file know, which come only together.
Affected(k) ==
    IF IsFile THEN IF CAPS \subseteq k THEN CAPS ELSE {} ELSE k

\* Only a file of version 2 has its upper word filled and cleared.
Reach(words, old) ==
    IF version \in {0, 1} THEN [words EXCEPT ![1] = old[1]] ELSE words

\* Fill empties the inheritable set.
Fill(k) ==
    LET these == IF CAPS \subseteq k THEN Affected(k) ELSE Affected(k) \ CAPS
        filled(t) == Reach(IF t = "inheritable" THEN NoWords ELSE AllBits, obj[t])
    IN  Edit([t \in CapTypes |-> IF t \in these THEN filled(t) ELSE obj[t]],
             [t \in CapTypes |-> IF t \in these THEN CapsIn(filled(t)) ELSE want[t]])

Clear(k) ==
    LET cleared(t) == Reach(NoWords, obj[t])
    IN  Edit([t \in CapTypes |-> IF t \in Affected(k) THEN cleared(t) ELSE obj[t]],
             [t \in CapTypes |-> IF t \in Affected(k) THEN CapsIn(cleared(t)) ELSE want[t]])

-----------------------------------------------------------------------------
(* Load *)

\* The three sets that the kernel gave. Load does not read the other two.
TakeSets(words) ==
    /\ obj' = [t \in CapTypes |-> IF t \in CAPS THEN words[t] ELSE obj[t]]
    /\ want' = [t \in CapTypes |-> IF t \in CAPS THEN CapsIn(words[t]) ELSE want[t]]

LoadThread ==
    /\ ~IsFile
    /\ Call
    /\ TakeSets([t \in CAPS |-> WordsOf(thread[t])])
    /\ result' = "loaded"
    /\ UNCHANGED <<version, magic, thread, attr, pc, kind, atApply>>

\* getVfsCap of a file without the attribute leaves the words as they are.
LoadNoAttr ==
    /\ IsFile
    /\ attr = NoAttr
    /\ Call
    /\ version' = 2
    /\ result' = "loaded"
    /\ UNCHANGED <<magic, obj, want, thread, attr, pc, kind, atApply>>

\* The one flag of the attribute stands for a whole effective set.
LoadAttr ==
    /\ IsFile
    /\ WellFormed
    /\ Call
    /\ magic' = attr.version
    /\ version' = attr.version
    /\ LET both == [i \in {0, 1} |-> attr.permitted[i] \union attr.inheritable[i]] IN
       TakeSets([t \in CAPS |-> CASE t = "permitted"   -> attr.permitted
                                  [] t = "inheritable" -> attr.inheritable
                                  [] OTHER -> IF attr.flag THEN both ELSE NoWords])
    /\ result' = "loaded"
    /\ UNCHANGED <<thread, attr, pc, kind, atApply>>

\* data.version, which follows a known magic.
VersionOf(m) == IF m \in {1, 2} THEN m ELSE version

\* EINVAL, but only after the attribute was read into the magic and the words.
LoadMalformed ==
    /\ IsFile
    /\ attr # NoAttr
    /\ ~WellFormed
    /\ Call
    /\ magic' = attr.version
    /\ version' = VersionOf(magic')
    /\ LET read(words, old) == [i \in {0, 1} |-> IF i < attr.size THEN words[i] ELSE old[i]] IN
       TakeSets([t \in CAPS |-> CASE t = "permitted"   -> read(attr.permitted, obj[t])
                                  [] t = "inheritable" -> read(attr.inheritable, obj[t])
                                  [] OTHER             -> obj[t]])
    /\ result' = "failed"
    /\ UNCHANGED <<thread, attr, pc, kind, atApply>>

\* getxattr fails in another way: the magic of an earlier call decides.
LoadRefused ==
    /\ IsFile
    /\ Call
    /\ version' = VersionOf(magic)
    /\ result' = "failed"
    /\ UNCHANGED <<magic, obj, want, thread, attr, pc, kind, atApply>>

-----------------------------------------------------------------------------
(* Apply to the thread. *)

\* A plausible bug: the sets are set before the bounding set is dropped.
CapsFirst(done) ==
    CASE done = "start"    -> "caps"
      [] done = "caps"     -> "bounding"
      [] done = "bounding" -> "ambient"
      [] OTHER             -> "idle"

\* A plausible bug: the ambient set comes first.
AmbientFirst(done) ==
    CASE done = "start"    -> "ambient"
      [] done = "ambient"  -> "bounding"
      [] done = "bounding" -> "caps"
      [] OTHER             -> "idle"

AfterGroup(done) ==
    CASE done = "start"    -> "bounding"
      [] done = "bounding" -> "caps"
      [] done = "caps"     -> "ambient"
      [] OTHER             -> "idle"

Go(done) ==
    /\ pc' = AfterGroup(done)
    /\ result' = IF AfterGroup(done) = "idle" THEN "applied" ELSE "none"

ApplyThread(k) ==
    /\ ~IsFile
    /\ Call
    /\ kind' = k
    /\ atApply' = thread
    /\ Go("start")
    /\ UNCHANGED <<object, thread, attr>>

\* PR_CAPBSET_DROP of what the object lacks; nothing without CAP_SETPCAP.
DropBounding ==
    /\ pc = "bounding"
    /\ thread' = IF BOUNDS \subseteq kind /\ SetPCap \in thread["effective"]
                 THEN [thread EXCEPT !["bounding"] = {c \in @ : Get("bounding", c)}]
                 ELSE thread
    /\ Go("bounding")
    /\ UNCHANGED <<limits, object, attr, kind, atApply, calls>>

\* What capset is given, of the capabilities the kernel has.
Given(t) == CapsIn(obj[t]) \intersect KernelCaps

\* The kernel's rules for capset.
CapsetAllowed ==
    /\ Given("permitted") \subseteq thread["permitted"]
    /\ Given("effective") \subseteq Given("permitted")
    /\ Given("inheritable") \subseteq thread["inheritable"] \union thread["bounding"]
    /\ SetPCap \in thread["effective"]
         \/ Given("inheritable") \subseteq thread["inheritable"] \union thread["permitted"]

\* The kernel takes out of the ambient set what the others no longer have.
SetCaps ==
    /\ pc = "caps"
    /\ CAPS \subseteq kind => CapsetAllowed
    /\ thread' = IF CAPS \subseteq kind
                 THEN [t \in CapTypes |->
                         CASE t \in CAPS     -> Given(t)
                           [] t = "bounding" -> thread[t]
                           [] t = "ambient"  -> thread[t] \intersect Given("permitted")
                                                          \intersect Given("inheritable")]
                 ELSE thread
    /\ Go("caps")
    /\ UNCHANGED <<limits, object, attr, kind, atApply, calls>>

SetCapsFails ==
    /\ pc = "caps"
    /\ CAPS \subseteq kind
    /\ ~CapsetAllowed
    /\ pc' = "idle"
    /\ result' = "failed"
    /\ UNCHANGED <<limits, object, thread, attr, kind, atApply, calls>>

\* Lower or raise each; whoever may not raise gets an error, which is dropped.
SetAmbient ==
    /\ pc = "ambient"
    /\ thread' = IF AMBS \subseteq kind
                 THEN [thread EXCEPT !["ambient"] =
                         {c \in KernelCaps : /\ Get("ambient", c)
                                             /\ c \in @ \/ c \in thread["permitted"]
                                                             \intersect thread["inheritable"]}]
                 ELSE thread
    /\ Go("ambient")
    /\ UNCHANGED <<limits, object, attr, kind, atApply, calls>>

-----------------------------------------------------------------------------
(* Apply to the file. *)

\* A plausible bug: the size of version 1 is used throughout.
LowerAttr ==
    [version |-> version, size |-> version,
     permitted |-> Lower(obj["permitted"]),
     inheritable |-> Lower(obj["inheritable"]),
     flag |-> version = 2 /\ ~Empty("effective")]

\* setVfsCap: version 1 is written without the flag and the upper words.
NewAttr ==
    [version |-> version, size |-> version,
     permitted |-> IF version = 1 THEN Lower(obj["permitted"]) ELSE obj["permitted"],
     inheritable |-> IF version = 1 THEN Lower(obj["inheritable"]) ELSE obj["inheritable"],
     flag |-> version = 2 /\ ~Empty("effective")]

\* An object that was never loaded has no version to write, and setxattr may fail.
ApplyFile(k) ==
    /\ IsFile
    /\ Call
    /\ \/ ~(CAPS \subseteq k) /\ result' = "applied" /\ UNCHANGED <<magic, attr>>
       \/ CAPS \subseteq k /\ version = 0 /\ result' = "failed" /\ UNCHANGED <<magic, attr>>
       \/ /\ CAPS \subseteq k
          /\ version # 0
          /\ magic' = version
          /\ \/ result' = "applied" /\ attr' = NewAttr
             \/ result' = "failed" /\ UNCHANGED attr
    /\ kind' = k
    /\ UNCHANGED <<version, obj, want, thread, pc, atApply>>

Next ==
    \/ \E which \in Kinds, c \in Caps : Set(which, c) \/ Unset(which, c)
    \/ \E k \in Kinds : Fill(k) \/ Clear(k) \/ ApplyThread(k) \/ ApplyFile(k)
    \/ LoadThread \/ LoadNoAttr \/ LoadAttr \/ LoadMalformed \/ LoadRefused
    \/ InitializePackage \/ StripAttr
    \/ DropBounding \/ SetCaps \/ SetCapsFails \/ SetAmbient

Spec == Init /\ [][Next]_vars
-----------------------------------------------------------------------------
(* The types: every edit stays within the two words. *)
TypeOK ==
    /\ limits \in {"default", "kernel"}
    /\ version \in {0, 1, 2, 3}
    /\ magic \in 0..3
    /\ obj \in [CapTypes -> Words]
    /\ want \in [CapTypes -> SUBSET Caps]
    /\ thread \in Threads
    /\ attr \in Attrs
    /\ pc \in {"idle", "bounding", "caps", "ambient"}
    /\ kind \subseteq CapTypes
    /\ atApply \in Threads
    /\ result \in {"none", "loaded", "applied", "failed"}
    /\ calls \in 0..MaxCalls

\* The capabilities that Full asks for: those of the kernel once the package was
\* initialized, and until then every bit of the two words.
MaskedCaps == IF limits = "kernel" THEN KernelCaps ELSE Caps

(***************************************************************************)
(* Get, Empty and Full answer for the words what they say of the sets.     *)
(* Full is about the capabilities that the package knows of: of an object  *)
(* of a file with all of the kernel's, in a process that only ever called  *)
(* NewFile, it is not true.                                                *)
(***************************************************************************)
ReadersAgree ==
    version \in {2, 3} => \A t \in CapTypes :
        /\ \A c \in Caps : Holds(t, c) => (Get(t, c) <=> c \in want[t])
        /\ Empty(t) <=> want[t] = {}
        /\ Full(t) <=> MaskedCaps \subseteq want[t]

Applied == pc = "idle" /\ result = "applied"

(***************************************************************************)
(* "Apply apply the capabilities settings, so all changes will take        *)
(* effect": when it returns no error the thread has the sets that were     *)
(* asked for, its bounding set lost what was not asked for if it had       *)
(* CAP_SETPCAP, even if it gave that up in the same call, and its ambient  *)
(* set is what was asked for as far as the other sets allow.               *)
(***************************************************************************)
AppliedTakesEffect ==
    Applied /\ ~IsFile =>
        /\ CAPS \subseteq kind =>
              \A t \in CAPS : thread[t] = want[t] \intersect KernelCaps
        /\ BOUNDS \subseteq kind /\ SetPCap \in atApply["effective"] =>
              thread["bounding"] = want["bounding"] \intersect atApply["bounding"]
        /\ AMBS \subseteq kind =>
              thread["ambient"] = want["ambient"] \intersect thread["permitted"]
                                                  \intersect thread["inheritable"]

(***************************************************************************)
(* An Apply that fails leaves the thread with the sets and the ambient set *)
(* it had; only its bounding set may already have shrunk.                  *)
(***************************************************************************)
FailedApplyKeepsCaps ==
    pc = "idle" /\ result = "failed" /\ ~IsFile =>
        /\ \A t \in CAPS \union AMBS : thread[t] = atApply[t]
        /\ thread["bounding"] \subseteq atApply["bounding"]

(***************************************************************************)
(* After Apply the attribute of a file has the permitted and inheritable   *)
(* sets that edits and loads left in the object, as far as its version has *)
(* room, and in version 2 the flag says whether any effective capability   *)
(* was left. Edits outlive a Load of a file without the attribute, and a   *)
(* Load that fails may leave a mixture: what is promised is that whatever  *)
(* Get would answer is what is written.                                    *)
(***************************************************************************)
FileHasSets ==
    Applied /\ IsFile /\ CAPS \subseteq kind =>
        LET room == IF version = 1 THEN Bits ELSE Caps IN
        /\ CapsIn(attr.permitted) = want["permitted"] \intersect room
        /\ CapsIn(attr.inheritable) = want["inheritable"] \intersect room
        /\ version = 2 => (attr.flag <=> want["effective"] # {})

-----------------------------------------------------------------------------
(* What comments of the package say and the code does not do. *)

(***************************************************************************)
(* "Load load actual capabilities value. This will overwrite all           *)
(* outstanding changes": when Load of a file has returned no error the     *)
(* object has the sets of the file.                                        *)
(***************************************************************************)
LoadOverwrites ==
    IsFile /\ result = "loaded" =>
        /\ want["permitted"] = CapsIn(attr.permitted)
        /\ want["inheritable"] = CapsIn(attr.inheritable)

(***************************************************************************)
(* "Fill sets all bits of the given capabilities kind to one": a Fill of   *)
(* a thread's object leaves every bit of the sets of that kind set.        *)
(***************************************************************************)
FillFills ==
    [][~IsFile => \A k \in {CAPS, BOUNDS, AMBS} : Fill(k) => \A t \in k : obj'[t] = AllBits]_vars
=============================================================================
