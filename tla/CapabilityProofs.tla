--------------------------- MODULE CapabilityProofs ---------------------------
(***************************************************************************)
(* Proofs about package capability. First Capability: that two words of    *)
(* bits, for any width of a word and any last capability in the upper one, *)
(* are read and edited as the sets they stand for, and that an Apply of    *)
(* several groups of system calls has the effect it promises. Then, at the *)
(* end, CapabilityInit for any set of goroutines and any kernel. The two   *)
(* have no variable or constant in common.                                 *)
(***************************************************************************)
EXTENDS Capability, CapabilityInit, TLAPS

-----------------------------------------------------------------------------
(* Words of bits and sets of capabilities *)

\* The last capability is in the upper of two words.
LEMMA Widths ==
    /\ WordBits \in Nat /\ WordBits > 0
    /\ LastCap \in Nat /\ WordBits <= LastCap /\ LastCap < 2 * WordBits
    /\ SetPCap \in KernelCaps
BY CapabilityAssumption DEF KernelCaps

\* A capability is the number of its bit in the words, and back.
LEMMA WordAndBit ==
    ASSUME NEW c \in Caps
    PROVE  /\ WordOf(c) = c \div WordBits /\ WordOf(c) \in {0, 1}
           /\ BitOf(c) = c % WordBits /\ BitOf(c) \in Bits
           /\ c = WordBits * WordOf(c) + BitOf(c)
<1>0. c \in Nat /\ c < 2 * WordBits /\ WordBits \in Nat /\ WordBits > 0
  BY Widths DEF Caps
<1>1. CASE c < WordBits
  <2>1. c \div WordBits = 0 /\ c % WordBits = c
    BY <1>0, <1>1
  <2> QED BY <1>0, <1>1, <2>1 DEF WordOf, BitOf, Bits
<1>2. CASE c >= WordBits
  <2>1. c \div WordBits = 1 /\ c % WordBits = c - WordBits
    BY <1>0, <1>2
  <2> QED BY <1>0, <1>2, <2>1 DEF WordOf, BitOf, Bits
<1> QED BY <1>0, <1>1, <1>2

\* Every bit of either word is a capability.
LEMMA BitIn ==
    ASSUME NEW i \in {0, 1}, NEW b \in Bits
    PROVE  /\ WordBits * i + b \in Caps
           /\ WordOf(WordBits * i + b) = i
           /\ BitOf(WordBits * i + b) = b
<1>0. b \in Nat /\ b < WordBits /\ WordBits \in Nat
  BY Widths DEF Bits
<1>1. CASE i = 0
  BY <1>0, <1>1 DEF Caps, WordOf, BitOf
<1>2. CASE i = 1
  <2>1. WordBits * i + b = WordBits + b
    BY <1>0, <1>2
  <2>2. (WordBits + b) \div WordBits = 1 /\ (WordBits + b) % WordBits = b
    BY <1>0, Widths
  <2> QED BY <1>0, <1>2, <2>1, <2>2 DEF Caps, WordOf, BitOf
<1> QED BY <1>1, <1>2

\* What the words stand for.
LEMMA CapsInIs ==
    ASSUME NEW words
    PROVE  /\ CapsIn(words) \subseteq Caps
           /\ \A c \in Caps : c \in CapsIn(words) <=> BitOf(c) \in words[WordOf(c)]
BY WordAndBit DEF CapsIn

\* No bits are no capabilities.
LEMMA NoWordsIs == NoWords \in Words /\ CapsIn(NoWords) = {}
<1>1. NoWords \in Words /\ \A i \in {0, 1} : NoWords[i] = {}
  BY DEF NoWords, Words
<1>2. \A c \in Caps : c \notin CapsIn(NoWords)
  BY <1>1, CapsInIs, WordAndBit
<1> QED BY <1>1, <1>2, CapsInIs

\* Equal sets are equal words.
LEMMA WordsAre ==
    ASSUME NEW words \in Words, NEW i \in {0, 1}, NEW b \in Bits
    PROVE  b \in words[i] <=> WordBits * i + b \in CapsIn(words)
BY BitIn, CapsInIs

\* Empty, which compares words, is about sets.
LEMMA EmptyIs ==
    ASSUME NEW words \in Words
    PROVE  words = NoWords <=> CapsIn(words) = {}
<1>1. ASSUME CapsIn(words) = {} PROVE words = NoWords
  <2>1. \A i \in {0, 1} : \A b \in Bits : b \notin words[i]
    BY <1>1, WordsAre
  <2>2. \A i \in {0, 1} : words[i] \subseteq Bits
    BY DEF Words
  <2>3. \A i \in {0, 1} : words[i] = {}
    BY <2>1, <2>2
  <2> QED BY <2>3 DEF Words, NoWords
<1> QED BY <1>1, NoWordsIs

\* The words of a set stand for it.
LEMMA WordsOfIs ==
    ASSUME NEW caps \in SUBSET Caps
    PROVE  WordsOf(caps) \in Words /\ CapsIn(WordsOf(caps)) = caps
<1>1. WordsOf(caps) \in Words
  BY DEF WordsOf, Words
<1>2. ASSUME NEW c \in Caps PROVE BitOf(c) \in WordsOf(caps)[WordOf(c)] <=> c \in caps
  BY WordAndBit DEF WordsOf
<1> QED BY <1>1, <1>2, CapsInIs

\* Full masks the upper word: it asks for the capabilities the mask stands for.
LEMMA FullIs ==
    ASSUME NEW words \in Words
    PROVE  words[0] = Bits /\ UpperMask \subseteq words[1] <=> MaskedCaps \subseteq CapsIn(words)
<1>0. /\ WordBits \in Nat /\ WordBits > 0 /\ LastCap \in Nat
      /\ WordBits <= LastCap /\ LastCap < 2 * WordBits
  BY Widths
<1>1. MaskedCaps \subseteq Caps
  BY <1>0 DEF MaskedCaps, KernelCaps, Caps
<1>2. \A b \in Bits : WordBits * 0 + b \in MaskedCaps
  BY <1>0 DEF MaskedCaps, KernelCaps, Caps, Bits
<1>3. ASSUME NEW b \in Bits PROVE b \in UpperMask <=> WordBits * 1 + b \in MaskedCaps
  <2>1. CASE limits = "kernel"
    BY <1>0, <2>1 DEF MaskedCaps, KernelCaps, UpperMask, Bits
  <2>2. CASE limits # "kernel"
    BY <1>0, <2>2 DEF MaskedCaps, Caps, UpperMask, Bits
  <2> QED BY <2>1, <2>2
<1>4. UpperMask \subseteq Bits
  BY <1>0 DEF UpperMask, Bits
<1>5. words[0] \subseteq Bits
  BY DEF Words
<1>6. ASSUME words[0] = Bits, UpperMask \subseteq words[1], NEW c \in MaskedCaps
      PROVE  c \in CapsIn(words)
  <2>1. /\ c \in Caps /\ WordOf(c) \in {0, 1} /\ BitOf(c) \in Bits
        /\ c = WordBits * WordOf(c) + BitOf(c)
    BY <1>1, WordAndBit
  <2>2. BitOf(c) \in words[WordOf(c)]
    <3>1. CASE WordOf(c) = 0
      BY <1>6, <2>1, <3>1
    <3>2. CASE WordOf(c) = 1
      BY <1>3, <1>6, <2>1, <3>2
    <3> QED BY <2>1, <3>1, <3>2
  <2> QED BY <2>1, <2>2, CapsInIs
<1>7. ASSUME MaskedCaps \subseteq CapsIn(words)
      PROVE  words[0] = Bits /\ UpperMask \subseteq words[1]
  <2>1. \A b \in Bits : b \in words[0]
    BY <1>2, <1>7, WordsAre
  <2>2. \A b \in UpperMask : b \in words[1]
    BY <1>3, <1>4, <1>7, WordsAre
  <2> QED BY <1>5, <2>1, <2>2
<1> QED BY <1>6, <1>7

\* Setting and clearing the bit of a capability.
LEMMA BitSet ==
    ASSUME NEW words \in Words, NEW c \in Caps
    PROVE  LET new == [words EXCEPT ![WordOf(c)] = @ \union {BitOf(c)}]
           IN  new \in Words /\ CapsIn(new) = CapsIn(words) \union {c}
<1> DEFINE new == [words EXCEPT ![WordOf(c)] = @ \union {BitOf(c)}]
<1>1. /\ new \in Words
      /\ \A i \in {0, 1} : new[i] = IF i = WordOf(c) THEN words[i] \union {BitOf(c)} ELSE words[i]
  BY WordAndBit DEF Words
<1> HIDE DEF new
<1>2. ASSUME NEW d \in Caps
      PROVE  BitOf(d) \in new[WordOf(d)] <=> BitOf(d) \in words[WordOf(d)] \/ d = c
  <2>1. d = c <=> WordOf(d) = WordOf(c) /\ BitOf(d) = BitOf(c)
    BY WordAndBit
  <2> QED BY <1>1, <2>1, WordAndBit
<1>3. CapsIn(new) = CapsIn(words) \union {c}
  BY <1>2, CapsInIs
<1> QED BY <1>1, <1>3 DEF new

\* Clearing one bit removes one capability.
LEMMA BitCleared ==
    ASSUME NEW words \in Words, NEW c \in Caps
    PROVE  LET new == [words EXCEPT ![WordOf(c)] = @ \ {BitOf(c)}]
           IN  new \in Words /\ CapsIn(new) = CapsIn(words) \ {c}
<1> DEFINE new == [words EXCEPT ![WordOf(c)] = @ \ {BitOf(c)}]
<1>1. /\ new \in Words
      /\ \A i \in {0, 1} : new[i] = IF i = WordOf(c) THEN words[i] \ {BitOf(c)} ELSE words[i]
  BY WordAndBit DEF Words
<1> HIDE DEF new
<1>2. ASSUME NEW d \in Caps
      PROVE  BitOf(d) \in new[WordOf(d)] <=> BitOf(d) \in words[WordOf(d)] /\ d # c
  <2>1. d = c <=> WordOf(d) = WordOf(c) /\ BitOf(d) = BitOf(c)
    BY WordAndBit
  <2> QED BY <1>1, <2>1, WordAndBit
<1>3. CapsIn(new) = CapsIn(words) \ {c}
  BY <1>2, CapsInIs
<1> QED BY <1>1, <1>3 DEF new

-----------------------------------------------------------------------------
(* The invariant *)

\* The history of the edits is what the words of the object stand for.
WantIsObj == \A t \in CapTypes : want[t] = CapsIn(obj[t])

\* Only a thread has an Apply under way; the version of its object stays.
OneOfTwo == pc # "idle" => ~IsFile /\ result = "none"

\* The kernel keeps the ambient set within two others.
AmbientWithin == thread["ambient"] \subseteq thread["permitted"] \intersect thread["inheritable"]

SetsAsAsked ==
    CAPS \subseteq kind => \A t \in CAPS : thread[t] = want[t] \intersect KernelCaps

BoundingAsAsked ==
    BOUNDS \subseteq kind /\ SetPCap \in atApply["effective"] =>
        thread["bounding"] = want["bounding"] \intersect atApply["bounding"]

\* What is already done at each step of an Apply of a thread.
UnderWay ==
    /\ pc = "bounding" => thread = atApply
    /\ pc = "caps" => /\ \A t \in CAPS \union AMBS : thread[t] = atApply[t]
                      /\ thread["bounding"] \subseteq atApply["bounding"]
                      /\ BoundingAsAsked
    /\ pc = "ambient" => SetsAsAsked /\ BoundingAsAsked

CapInv ==
    /\ TypeOK
    /\ WantIsObj
    /\ OneOfTwo
    /\ AmbientWithin
    /\ UnderWay
    /\ AppliedTakesEffect
    /\ FailedApplyKeepsCaps
    /\ FileHasSets

\* The groups of sets that a call names, and the words of none and of all bits.
LEMMA Types ==
    /\ CapTypes = {"effective", "permitted", "inheritable", "bounding", "ambient"}
    /\ \A k \in Kinds : k \subseteq CapTypes
    /\ KernelCaps \subseteq Caps
    /\ NoWords \in Words /\ AllBits \in Words
    /\ \A words \in Words : Lower(words) \in Words
<1>1. CapTypes = {"effective", "permitted", "inheritable", "bounding", "ambient"}
  BY DEF CapTypes, CAPS, BOUNDS, AMBS
<1>2. \A k \in Kinds : k \subseteq CapTypes
  BY DEF Kinds, CapTypes
<1>3. KernelCaps \subseteq Caps
  BY Widths DEF KernelCaps, Caps
<1>4. NoWords \in Words /\ AllBits \in Words
  BY DEF NoWords, AllBits, Words
<1>5. \A words \in Words : Lower(words) \in Words
  BY DEF Lower, Words
<1> QED BY <1>1, <1>2, <1>3, <1>4, <1>5

\* A new object stands for no capabilities.
LEMMA InitInv == Init => CapInv
<1> SUFFICES ASSUME Init PROVE CapInv
  OBVIOUS
<1>1. ASSUME NEW s \in InitialThreads
      PROVE  s \in Threads /\ s["ambient"] \subseteq s["permitted"] \intersect s["inheritable"]
  <2>1. PICK all \in {KernelCaps, KernelCaps \ {SetPCap}},
             passed \in {{}, KernelCaps \ {SetPCap}},
             bounding \in {KernelCaps, {SetPCap}} :
             s = [t \in CapTypes |-> CASE t \in {"effective", "permitted"} -> all
                                       [] t = "bounding"                   -> bounding
                                       [] OTHER                            -> passed]
    BY DEF InitialThreads
  <2>2. /\ \A t \in CapTypes : s[t] \in {all, passed, bounding}
        /\ s["ambient"] = passed /\ s["permitted"] = all /\ s["inheritable"] = passed
    BY <2>1, Types
  <2>3. s \in Threads
    BY <2>1, <2>2, Widths DEF Threads
  <2> QED BY <2>2, <2>3
<1>2. thread \in Threads /\ AmbientWithin
  <2>1. CASE thread \in InitialThreads
    BY <1>1, <2>1 DEF AmbientWithin
  <2>2. CASE thread = [t \in CapTypes |-> {}]
    BY <2>2, Types DEF AmbientWithin, Threads
  <2> QED BY <2>1, <2>2 DEF Init
<1>3. attr \in Attrs
  <2>1. NoAttr \in Attrs
    BY Types DEF NoAttr, Attrs
  <2>2. InitialAttrs \subseteq Attrs
    BY <2>1, Types DEF InitialAttrs, Attrs
  <2> QED BY <2>1, <2>2 DEF Init
<1>4. obj \in [CapTypes -> Words] /\ want \in [CapTypes -> SUBSET Caps]
  BY Types DEF Init
<1>5. TypeOK
  BY <1>2, <1>3, <1>4, CapabilityAssumption DEF Init, TypeOK
<1>6. WantIsObj
  BY NoWordsIs DEF Init, WantIsObj
<1>7. OneOfTwo /\ UnderWay /\ AppliedTakesEffect /\ FailedApplyKeepsCaps /\ FileHasSets
  BY DEF Init, OneOfTwo, UnderWay, AppliedTakesEffect, FailedApplyKeepsCaps, FileHasSets, Applied
<1> QED BY <1>2, <1>5, <1>6, <1>7 DEF CapInv

\* A call that changes the object, and neither the thread nor the file. Only a
\* Load of a file fails.
LEMMA ObjectChanges ==
    ASSUME CapInv, Call, UNCHANGED <<thread, attr, pc, kind, atApply>>,
           version' \in {0, 1, 2, 3}, magic' \in 0..3, obj' \in [CapTypes -> Words],
           want' \in [CapTypes -> SUBSET Caps],
           \A t \in CapTypes : want'[t] = CapsIn(obj'[t]),
           result' \in {"none", "loaded", "failed"}, result' = "failed" => IsFile'
    PROVE  CapInv'
<1>1. pc = "idle" /\ pc' = "idle" /\ calls' \in 0..MaxCalls /\ limits' = limits
  BY CapabilityAssumption DEF Call, CapInv, TypeOK
<1>2. TypeOK'
  BY <1>1 DEF CapInv, TypeOK
<1>3. WantIsObj' /\ OneOfTwo' /\ AmbientWithin' /\ UnderWay'
  BY <1>1 DEF CapInv, WantIsObj, OneOfTwo, AmbientWithin, UnderWay
<1>4. AppliedTakesEffect' /\ FailedApplyKeepsCaps' /\ FileHasSets'
  BY DEF AppliedTakesEffect, FailedApplyKeepsCaps, FileHasSets, Applied
<1> QED BY <1>2, <1>3, <1>4 DEF CapInv

\* An edit that changes words and wanted sets alike preserves the invariant.
LEMMA EditStep ==
    ASSUME CapInv, NEW words \in [CapTypes -> Words], NEW caps \in [CapTypes -> SUBSET Caps],
           \A t \in CapTypes : caps[t] = CapsIn(words[t]), Edit(words, caps)
    PROVE  CapInv'
<1>1. /\ Call /\ obj' = words /\ want' = caps /\ result' = "none" /\ version' = version
      /\ magic' = magic /\ UNCHANGED <<thread, attr, pc, kind, atApply>>
  BY DEF Edit
<1>2. version \in {0, 1, 2, 3} /\ magic \in 0..3
  BY DEF CapInv, TypeOK
<1> QED BY <1>1, <1>2, ObjectChanges

\* Set is such an edit: it adds the bit where the set has room for it.
LEMMA SetStep == ASSUME CapInv, NEW which \in Kinds, NEW c \in Caps, Set(which, c) PROVE CapInv'
<1> DEFINE these == {t \in which : Holds(t, c)}
<1> DEFINE words == [t \in CapTypes |-> IF t \in these
                                        THEN [obj[t] EXCEPT ![WordOf(c)] = @ \union {BitOf(c)}]
                                        ELSE obj[t]]
<1> DEFINE caps == [t \in CapTypes |-> IF t \in these THEN want[t] \union {c} ELSE want[t]]
<1>1. \A t \in CapTypes : obj[t] \in Words /\ want[t] \in SUBSET Caps /\ want[t] = CapsIn(obj[t])
  BY DEF CapInv, TypeOK, WantIsObj
<1>2. Edit(words, caps)
  BY DEF Set
<1> HIDE DEF these
<1>3. \A t \in CapTypes : words[t] \in Words /\ caps[t] \in SUBSET Caps /\ caps[t] = CapsIn(words[t])
  BY <1>1, BitSet
<1>4. words \in [CapTypes -> Words] /\ caps \in [CapTypes -> SUBSET Caps]
  BY <1>3
<1> HIDE DEF words, caps
<1> QED BY <1>2, <1>3, <1>4, EditStep

\* So is Unset, which removes it.
LEMMA UnsetStep ==
    ASSUME CapInv, NEW which \in Kinds, NEW c \in Caps, Unset(which, c) PROVE CapInv'
<1> DEFINE these == {t \in which : Holds(t, c)}
<1> DEFINE words == [t \in CapTypes |-> IF t \in these
                                        THEN [obj[t] EXCEPT ![WordOf(c)] = @ \ {BitOf(c)}]
                                        ELSE obj[t]]
<1> DEFINE caps == [t \in CapTypes |-> IF t \in these THEN want[t] \ {c} ELSE want[t]]
<1>1. \A t \in CapTypes : obj[t] \in Words /\ want[t] \in SUBSET Caps /\ want[t] = CapsIn(obj[t])
  BY DEF CapInv, TypeOK, WantIsObj
<1>2. Edit(words, caps)
  BY DEF Unset
<1> HIDE DEF these
<1>3. \A t \in CapTypes : words[t] \in Words /\ caps[t] \in SUBSET Caps /\ caps[t] = CapsIn(words[t])
  BY <1>1, BitCleared
<1>4. words \in [CapTypes -> Words] /\ caps \in [CapTypes -> SUBSET Caps]
  BY <1>3
<1> HIDE DEF words, caps
<1> QED BY <1>2, <1>3, <1>4, EditStep

\* What Fill and Clear put into an object.
LEMMA ReachIs ==
    ASSUME NEW words \in Words, NEW old \in Words PROVE Reach(words, old) \in Words
BY DEF Reach, Words

\* So is Fill, whatever words it reaches.
LEMMA FillStep == ASSUME CapInv, NEW k \in Kinds, Fill(k) PROVE CapInv'
<1> DEFINE these == IF CAPS \subseteq k THEN Affected(k) ELSE Affected(k) \ CAPS
<1> DEFINE filled(t) == Reach(IF t = "inheritable" THEN NoWords ELSE AllBits, obj[t])
<1> DEFINE words == [t \in CapTypes |-> IF t \in these THEN filled(t) ELSE obj[t]]
<1> DEFINE caps == [t \in CapTypes |-> IF t \in these THEN CapsIn(filled(t)) ELSE want[t]]
<1>1. \A t \in CapTypes : obj[t] \in Words /\ want[t] \in SUBSET Caps /\ want[t] = CapsIn(obj[t])
  BY DEF CapInv, TypeOK, WantIsObj
<1>2. \A t \in CapTypes : filled(t) \in Words
  BY <1>1, ReachIs, Types
<1>3. Edit(words, caps)
  BY DEF Fill
<1> HIDE DEF these, filled
<1>4. \A t \in CapTypes : words[t] \in Words /\ caps[t] \in SUBSET Caps /\ caps[t] = CapsIn(words[t])
  BY <1>1, <1>2, CapsInIs
<1>5. words \in [CapTypes -> Words] /\ caps \in [CapTypes -> SUBSET Caps]
  BY <1>4
<1> HIDE DEF words, caps
<1> QED BY <1>3, <1>4, <1>5, EditStep

\* So is Clear.
LEMMA ClearStep == ASSUME CapInv, NEW k \in Kinds, Clear(k) PROVE CapInv'
<1> DEFINE cleared(t) == Reach(NoWords, obj[t])
<1> DEFINE words == [t \in CapTypes |-> IF t \in Affected(k) THEN cleared(t) ELSE obj[t]]
<1> DEFINE caps == [t \in CapTypes |-> IF t \in Affected(k) THEN CapsIn(cleared(t)) ELSE want[t]]
<1>1. \A t \in CapTypes : obj[t] \in Words /\ want[t] \in SUBSET Caps /\ want[t] = CapsIn(obj[t])
  BY DEF CapInv, TypeOK, WantIsObj
<1>2. \A t \in CapTypes : cleared(t) \in Words
  BY <1>1, ReachIs, Types
<1>3. Edit(words, caps)
  BY DEF Clear
<1> HIDE DEF cleared
<1>4. \A t \in CapTypes : words[t] \in Words /\ caps[t] \in SUBSET Caps /\ caps[t] = CapsIn(words[t])
  BY <1>1, <1>2, CapsInIs
<1>5. words \in [CapTypes -> Words] /\ caps \in [CapTypes -> SUBSET Caps]
  BY <1>4
<1> HIDE DEF words, caps
<1> QED BY <1>3, <1>4, <1>5, EditStep

\* Load takes three sets and leaves two.
LEMMA TakeSetsIs ==
    ASSUME CapInv, NEW words, \A t \in CAPS : words[t] \in Words, TakeSets(words)
    PROVE  /\ obj' \in [CapTypes -> Words]
           /\ want' \in [CapTypes -> SUBSET Caps]
           /\ \A t \in CapTypes : want'[t] = CapsIn(obj'[t])
BY CapsInIs DEF CapInv, TypeOK, WantIsObj, TakeSets

\* Load of a thread replaces its three sets and keeps the others.
LEMMA LoadThreadStep == ASSUME CapInv, LoadThread PROVE CapInv'
<1>1. \A t \in CAPS : WordsOf(thread[t]) \in Words
  <2>1. \A t \in CAPS : thread[t] \in SUBSET Caps
    BY Types DEF CapInv, TypeOK, Threads, CAPS
  <2> QED BY <2>1, WordsOfIs
<1>2. TakeSets([t \in CAPS |-> WordsOf(thread[t])])
  BY DEF LoadThread
<1>3. /\ obj' \in [CapTypes -> Words] /\ want' \in [CapTypes -> SUBSET Caps]
      /\ \A t \in CapTypes : want'[t] = CapsIn(obj'[t])
  BY <1>1, <1>2, TakeSetsIs
<1>4. /\ Call /\ UNCHANGED <<thread, attr, pc, kind, atApply>> /\ version' = version
      /\ magic' = magic /\ result' = "loaded" /\ version \in {0, 1, 2, 3} /\ magic \in 0..3
  BY DEF LoadThread, CapInv, TypeOK
<1> QED BY <1>3, <1>4, ObjectChanges

\* A file without an attribute changes nothing.
LEMMA LoadNoAttrStep == ASSUME CapInv, LoadNoAttr PROVE CapInv'
<1>1. /\ obj' \in [CapTypes -> Words] /\ want' \in [CapTypes -> SUBSET Caps]
      /\ \A t \in CapTypes : want'[t] = CapsIn(obj'[t])
  BY DEF CapInv, TypeOK, WantIsObj, LoadNoAttr
<1>2. /\ Call /\ UNCHANGED <<thread, attr, pc, kind, atApply>> /\ version' = 2 /\ result' = "loaded"
      /\ magic' = magic /\ magic \in 0..3
  BY DEF LoadNoAttr, CapInv, TypeOK
<1> QED BY <1>1, <1>2, ObjectChanges

\* The words of an attribute are taken over, and its flag as a whole effective set.
LEMMA LoadAttrStep == ASSUME CapInv, LoadAttr PROVE CapInv'
<1> DEFINE both == [i \in {0, 1} |-> attr.permitted[i] \union attr.inheritable[i]]
<1> DEFINE words == [t \in CAPS |-> CASE t = "permitted"   -> attr.permitted
                                      [] t = "inheritable" -> attr.inheritable
                                      [] OTHER -> IF attr.flag THEN both ELSE NoWords]
<1>1. attr.permitted \in Words /\ attr.inheritable \in Words /\ attr.version \in {1, 2}
  BY DEF CapInv, TypeOK, Attrs, LoadAttr, WellFormed
<1>2. both \in Words
  BY <1>1 DEF Words
<1>3. TakeSets(words)
  BY DEF LoadAttr
<1>4. \A t \in CAPS : words[t] \in Words
  <2> HIDE DEF both
  <2> QED BY <1>1, <1>2, Types
<1> HIDE DEF words
<1>5. /\ obj' \in [CapTypes -> Words] /\ want' \in [CapTypes -> SUBSET Caps]
      /\ \A t \in CapTypes : want'[t] = CapsIn(obj'[t])
  BY <1>3, <1>4, TakeSetsIs
<1>6. /\ Call /\ UNCHANGED <<thread, attr, pc, kind, atApply>>
      /\ version' = attr.version /\ magic' = attr.version /\ result' = "loaded"
  BY DEF LoadAttr
<1> QED BY <1>1, <1>5, <1>6, ObjectChanges

\* A malformed attribute leaves words in the object, and the wanted sets follow them.
LEMMA LoadMalformedStep == ASSUME CapInv, LoadMalformed PROVE CapInv'
<1> DEFINE read(words, old) == [i \in {0, 1} |-> IF i < attr.size THEN words[i] ELSE old[i]]
<1> DEFINE words == [t \in CAPS |-> CASE t = "permitted"   -> read(attr.permitted, obj[t])
                                      [] t = "inheritable" -> read(attr.inheritable, obj[t])
                                      [] OTHER             -> obj[t]]
<1>1. attr.permitted \in Words /\ attr.inheritable \in Words /\ attr.version \in 0..3
  BY DEF CapInv, TypeOK, Attrs
<1>2. \A new \in Words, old \in Words : read(new, old) \in Words
  BY DEF Words
<1>3. TakeSets(words)
  BY DEF LoadMalformed
<1>4. \A t \in CAPS : words[t] \in Words
  <2>1. \A t \in CAPS : obj[t] \in Words
    BY DEF CapInv, TypeOK, CapTypes
  <2> HIDE DEF read
  <2> QED BY <1>1, <1>2, <2>1
<1> HIDE DEF words
<1>5. /\ obj' \in [CapTypes -> Words] /\ want' \in [CapTypes -> SUBSET Caps]
      /\ \A t \in CapTypes : want'[t] = CapsIn(obj'[t])
  BY <1>3, <1>4, TakeSetsIs
<1>6. /\ Call /\ UNCHANGED <<thread, attr, pc, kind, atApply>>
      /\ magic' = attr.version /\ result' = "failed"
  BY DEF LoadMalformed
<1>7. version' \in {0, 1, 2} /\ IsFile'
  BY DEF LoadMalformed, VersionOf, IsFile, CapInv, TypeOK
<1> QED BY <1>1, <1>5, <1>6, <1>7, ObjectChanges

\* A refused getxattr leaves the words alone.
LEMMA LoadRefusedStep == ASSUME CapInv, LoadRefused PROVE CapInv'
<1>1. /\ obj' \in [CapTypes -> Words] /\ want' \in [CapTypes -> SUBSET Caps]
      /\ \A t \in CapTypes : want'[t] = CapsIn(obj'[t])
  BY DEF CapInv, TypeOK, WantIsObj, LoadRefused
<1>2. /\ Call /\ UNCHANGED <<thread, attr, pc, kind, atApply>>
      /\ magic' = magic /\ magic \in 0..3 /\ result' = "failed"
  BY DEF LoadRefused, CapInv, TypeOK
<1>3. version' \in {0, 1, 2} /\ IsFile'
  BY DEF LoadRefused, VersionOf, IsFile, CapInv, TypeOK
<1> QED BY <1>1, <1>2, <1>3, ObjectChanges

\* The invariant says nothing of the limits.
LEMMA InitializePackageStep == ASSUME CapInv, InitializePackage PROVE CapInv'
<1>1. /\ limits' = "kernel"
      /\ UNCHANGED <<version, magic, obj, want, thread, attr, pc, kind, atApply, result, calls>>
  BY DEF InitializePackage, object
<1>2. TypeOK'
  BY <1>1 DEF CapInv, TypeOK
<1> QED BY <1>1, <1>2
        DEF CapInv, WantIsObj, OneOfTwo, AmbientWithin, UnderWay, SetsAsAsked, BoundingAsAsked,
            AppliedTakesEffect, FailedApplyKeepsCaps, FileHasSets, Applied, IsFile

\* Of a file that lost its attribute nothing is said before the next Apply.
LEMMA StripAttrStep == ASSUME CapInv, StripAttr PROVE CapInv'
<1>1. /\ attr' = NoAttr /\ result' = "none"
      /\ UNCHANGED <<limits, version, magic, obj, want, thread, pc, kind, atApply, calls>>
  BY DEF StripAttr, object
<1>2. attr' \in Attrs
  BY <1>1, Types DEF NoAttr, Attrs
<1>3. TypeOK'
  BY <1>1, <1>2 DEF CapInv, TypeOK
<1> QED BY <1>1, <1>3
        DEF CapInv, WantIsObj, OneOfTwo, AmbientWithin, UnderWay, SetsAsAsked, BoundingAsAsked,
            AppliedTakesEffect, FailedApplyKeepsCaps, FileHasSets, Applied, IsFile

-----------------------------------------------------------------------------
(* Apply *)

\* The thread has capabilities of the kernel only.
LEMMA SetTypes ==
    ASSUME CapInv
    PROVE  /\ \A t \in CapTypes : /\ thread[t] \in SUBSET KernelCaps /\ atApply[t] \in SUBSET KernelCaps
                                  /\ want[t] \in SUBSET Caps
           /\ thread \in [CapTypes -> SUBSET KernelCaps]
BY DEF CapInv, TypeOK, Threads

\* For a thread, Get and Given read the wanted set.
LEMMA GetIs ==
    ASSUME CapInv, NEW t \in CapTypes, NEW c \in Caps, Holds(t, c)
    PROVE  Get(t, c) <=> c \in want[t]
<1>1. want[t] = CapsIn(obj[t])
  BY DEF CapInv, WantIsObj
<1> QED BY <1>1, CapsInIs DEF Get

\* The kernel drops the capabilities it does not know.
LEMMA GivenIs ==
    ASSUME CapInv, NEW t \in CapTypes
    PROVE  Given(t) = want[t] \intersect KernelCaps
BY DEF CapInv, WantIsObj, Given

\* The start of an Apply remembers the sets of the thread.
LEMMA ApplyThreadStep == ASSUME CapInv, NEW k \in Kinds, ApplyThread(k) PROVE CapInv'
<1>1. /\ ~IsFile /\ ~IsFile' /\ pc' = "bounding" /\ result' = "none" /\ kind' = k /\ atApply' = thread
      /\ thread' = thread /\ attr' = attr /\ version' = version /\ obj' = obj /\ want' = want
      /\ magic' = magic /\ limits' = limits /\ calls' \in 0..MaxCalls
  BY CapabilityAssumption DEF ApplyThread, Go, AfterGroup, object, IsFile, Call, CapInv, TypeOK
<1>2. TypeOK'
  BY <1>1, Types DEF CapInv, TypeOK
<1>3. WantIsObj' /\ OneOfTwo' /\ AmbientWithin' /\ UnderWay'
  BY <1>1 DEF CapInv, WantIsObj, OneOfTwo, AmbientWithin, UnderWay
<1>4. AppliedTakesEffect' /\ FailedApplyKeepsCaps' /\ FileHasSets'
  BY <1>1 DEF AppliedTakesEffect, FailedApplyKeepsCaps, FileHasSets, Applied
<1> QED BY <1>2, <1>3, <1>4 DEF CapInv

\* The groups of system calls leave the object alone.
LEMMA GroupTypes ==
    ASSUME CapInv, thread' \in Threads, pc' \in {"idle", "bounding", "caps", "ambient"},
           result' \in {"none", "applied", "failed"},
           UNCHANGED <<limits, object, attr, kind, atApply, calls>>
    PROVE  TypeOK' /\ WantIsObj' /\ (IsFile' <=> IsFile)
BY DEF CapInv, TypeOK, WantIsObj, object, IsFile

\* The bounding set shrinks to what is asked for, and nothing else changes.
LEMMA DropBoundingStep == ASSUME CapInv, DropBounding PROVE CapInv'
<1>1. /\ pc = "bounding" /\ pc' = "caps" /\ result' = "none"
      /\ UNCHANGED <<limits, object, attr, kind, atApply, calls>>
      /\ ~IsFile /\ thread = atApply
  BY DEF DropBounding, Go, AfterGroup, CapInv, OneOfTwo, UnderWay
<1> DEFINE dropped == {c \in thread["bounding"] : Get("bounding", c)}
<1>2. dropped = want["bounding"] \intersect thread["bounding"]
  <2>1. \A c \in thread["bounding"] : c \in Caps
    BY SetTypes, Types
  <2>2. \A c \in Caps : Get("bounding", c) <=> c \in want["bounding"]
    BY <1>1, GetIs, Types DEF Holds
  <2> QED BY <2>1, <2>2
<1>3. /\ thread' \in Threads
      /\ \A t \in CapTypes \ {"bounding"} : thread'[t] = thread[t]
      /\ thread'["bounding"] = IF BOUNDS \subseteq kind /\ SetPCap \in thread["effective"]
                               THEN dropped ELSE thread["bounding"]
  <2>1. CASE BOUNDS \subseteq kind /\ SetPCap \in thread["effective"]
    <3>1. thread' = [thread EXCEPT !["bounding"] = dropped]
      BY <2>1 DEF DropBounding
    <3>2. dropped \in SUBSET KernelCaps
      BY SetTypes, Types
    <3> HIDE DEF dropped
    <3> QED BY <2>1, <3>1, <3>2, SetTypes, Types DEF Threads
  <2>2. CASE ~(BOUNDS \subseteq kind /\ SetPCap \in thread["effective"])
    <3>1. thread' = thread
      BY <2>2, Zenon DEF DropBounding
    <3> QED BY <2>2, <3>1, SetTypes DEF Threads
  <2> QED BY <2>1, <2>2
<1> HIDE DEF dropped
<1>4. want' = want /\ kind' = kind /\ atApply' = atApply
  BY <1>1 DEF object
<1>5. TypeOK' /\ WantIsObj' /\ ~IsFile'
  BY <1>1, <1>3, GroupTypes
<1>6. OneOfTwo'
  BY <1>1, <1>5 DEF OneOfTwo
<1>7. AmbientWithin'
  BY <1>3, Types DEF CapInv, AmbientWithin
<1>8. UnderWay'
  <2>1. \A t \in CAPS \union AMBS : thread'[t] = atApply[t]
    BY <1>1, <1>3 DEF CapTypes, CAPS, AMBS
  <2>2. thread'["bounding"] \subseteq atApply["bounding"] /\ BoundingAsAsked'
    BY <1>1, <1>2, <1>3, <1>4 DEF BoundingAsAsked
  <2> QED BY <1>1, <1>4, <2>1, <2>2 DEF UnderWay
<1>9. AppliedTakesEffect' /\ FailedApplyKeepsCaps' /\ FileHasSets'
  BY <1>1 DEF AppliedTakesEffect, FailedApplyKeepsCaps, FileHasSets, Applied
<1> QED BY <1>5, <1>6, <1>7, <1>8, <1>9 DEF CapInv

\* A capset that the kernel allows sets the three sets; the ambient set shrinks with them.
LEMMA SetCapsStep == ASSUME CapInv, SetCaps PROVE CapInv'
<1>1. /\ pc = "caps" /\ pc' = "ambient" /\ result' = "none"
      /\ UNCHANGED <<limits, object, attr, kind, atApply, calls>>
      /\ ~IsFile /\ BoundingAsAsked
  BY DEF SetCaps, Go, AfterGroup, CapInv, OneOfTwo, UnderWay
<1>2. want' = want /\ kind' = kind /\ atApply' = atApply
  BY <1>1 DEF object
<1>3. CASE CAPS \subseteq kind
  <2>1. thread' = [t \in CapTypes |->
                     CASE t \in CAPS     -> Given(t)
                       [] t = "bounding" -> thread[t]
                       [] t = "ambient"  -> thread[t] \intersect Given("permitted")
                                                      \intersect Given("inheritable")]
    BY <1>3, Zenon DEF SetCaps
  <2>2. /\ \A t \in CAPS : thread'[t] = Given(t)
        /\ thread'["bounding"] = thread["bounding"]
        /\ thread'["ambient"] = thread["ambient"] \intersect Given("permitted") \intersect Given("inheritable")
    BY <2>1, Types DEF CAPS
  <2>3. \A t \in CapTypes : Given(t) \in SUBSET KernelCaps
    BY DEF Given
  <2>4. \A t \in CapTypes : thread'[t] \in SUBSET KernelCaps
    BY <2>2, <2>3, SetTypes DEF CapTypes, BOUNDS, AMBS
  <2>5. thread' \in Threads
    BY <2>1, <2>4 DEF Threads
  <2>6. SetsAsAsked' /\ BoundingAsAsked'
    BY <1>1, <1>2, <2>2, GivenIs DEF SetsAsAsked, BoundingAsAsked, CapTypes
  <2>7. AmbientWithin'
    BY <2>2 DEF AmbientWithin, CAPS
  <2> QED BY <2>5, <2>6, <2>7, <1>1, <1>2, GroupTypes
          DEF CapInv, OneOfTwo, UnderWay, AppliedTakesEffect, FailedApplyKeepsCaps, FileHasSets, Applied
<1>4. CASE ~(CAPS \subseteq kind)
  <2>1. thread' = thread
    BY <1>4, Zenon DEF SetCaps
  <2>2. thread' \in Threads /\ AmbientWithin'
    BY <2>1 DEF CapInv, TypeOK, AmbientWithin
  <2>3. SetsAsAsked' /\ BoundingAsAsked'
    BY <1>1, <1>2, <1>4, <2>1 DEF SetsAsAsked, BoundingAsAsked
  <2> QED BY <2>2, <2>3, <1>1, <1>2, GroupTypes
          DEF CapInv, OneOfTwo, UnderWay, AppliedTakesEffect, FailedApplyKeepsCaps, FileHasSets, Applied
<1> QED BY <1>3, <1>4

\* A refused capset leaves the sets as they were.
LEMMA SetCapsFailsStep == ASSUME CapInv, SetCapsFails PROVE CapInv'
<1>1. /\ pc = "caps" /\ pc' = "idle" /\ result' = "failed" /\ thread' = thread
      /\ UNCHANGED <<limits, object, attr, kind, atApply, calls>>
      /\ ~IsFile
  BY DEF SetCapsFails, CapInv, OneOfTwo
<1>2. thread' \in Threads /\ AmbientWithin'
  BY <1>1 DEF CapInv, TypeOK, AmbientWithin
<1>3. TypeOK' /\ WantIsObj' /\ ~IsFile'
  BY <1>1, <1>2, GroupTypes
<1>4. FailedApplyKeepsCaps'
  BY <1>1 DEF CapInv, UnderWay, FailedApplyKeepsCaps
<1> QED BY <1>1, <1>2, <1>3, <1>4
        DEF CapInv, OneOfTwo, UnderWay, AppliedTakesEffect, FileHasSets, Applied

\* The ambient set is what is asked for within the sets the kernel has by then.
LEMMA SetAmbientStep == ASSUME CapInv, SetAmbient PROVE CapInv'
<1>1. /\ pc = "ambient" /\ pc' = "idle" /\ result' = "applied"
      /\ UNCHANGED <<limits, object, attr, kind, atApply, calls>>
      /\ ~IsFile /\ SetsAsAsked /\ BoundingAsAsked
  BY DEF SetAmbient, Go, AfterGroup, CapInv, OneOfTwo, UnderWay
<1>2. want' = want /\ kind' = kind /\ atApply' = atApply
  BY <1>1 DEF object
<1> DEFINE raised == {c \in KernelCaps : /\ Get("ambient", c)
                                         /\ c \in thread["ambient"]
                                              \/ c \in thread["permitted"] \intersect thread["inheritable"]}
<1>3. raised = want["ambient"] \intersect thread["permitted"] \intersect thread["inheritable"]
  <2>1. \A c \in KernelCaps : Get("ambient", c) <=> c \in want["ambient"]
    BY <1>1, GetIs, Types DEF Holds
  <2>2. thread["permitted"] \subseteq KernelCaps
    BY SetTypes, Types
  <2>3. thread["ambient"] \subseteq thread["permitted"] \intersect thread["inheritable"]
    BY DEF CapInv, AmbientWithin
  <2> QED BY <2>1, <2>2, <2>3
<1>4. /\ thread' \in Threads
      /\ \A t \in CapTypes \ {"ambient"} : thread'[t] = thread[t]
      /\ thread'["ambient"] = IF AMBS \subseteq kind THEN raised ELSE thread["ambient"]
  <2>1. CASE AMBS \subseteq kind
    <3>1. thread' = [thread EXCEPT !["ambient"] = raised]
      BY <2>1 DEF SetAmbient
    <3>2. raised \in SUBSET KernelCaps
      OBVIOUS
    <3> HIDE DEF raised
    <3> QED BY <2>1, <3>1, <3>2, SetTypes, Types DEF Threads
  <2>2. CASE ~(AMBS \subseteq kind)
    <3>1. thread' = thread
      BY <2>2, Zenon DEF SetAmbient
    <3> QED BY <2>2, <3>1, SetTypes DEF Threads
  <2> QED BY <2>1, <2>2
<1> HIDE DEF raised
<1>5. TypeOK' /\ WantIsObj' /\ ~IsFile'
  BY <1>1, <1>4, GroupTypes
<1>6. AmbientWithin'
  <2>1. thread'["ambient"] \subseteq thread["permitted"] \intersect thread["inheritable"]
    BY <1>3, <1>4 DEF CapInv, AmbientWithin
  <2> QED BY <1>4, <2>1, Types DEF AmbientWithin
<1>7. AppliedTakesEffect'
  <2>1. SetsAsAsked'
    BY <1>1, <1>2, <1>4 DEF SetsAsAsked, CapTypes, CAPS
  <2>2. BoundingAsAsked'
    BY <1>1, <1>2, <1>4, Types DEF BoundingAsAsked
  <2>3. AMBS \subseteq kind' =>
           thread'["ambient"] = want'["ambient"] \intersect thread'["permitted"]
                                                 \intersect thread'["inheritable"]
    BY <1>2, <1>3, <1>4, Types
  <2> QED BY <2>1, <2>2, <2>3 DEF AppliedTakesEffect, SetsAsAsked, BoundingAsAsked
<1> QED BY <1>1, <1>5, <1>6, <1>7
        DEF CapInv, OneOfTwo, UnderWay, FailedApplyKeepsCaps, FileHasSets, Applied

\* What an attribute keeps of a set.
LEMMA LowerIs ==
    ASSUME NEW words \in Words
    PROVE  CapsIn(Lower(words)) = CapsIn(words) \intersect Bits
<1>1. Lower(words)[0] = words[0] /\ Lower(words)[1] = {}
  BY DEF Lower, Words
<1>2. ASSUME NEW c \in Caps PROVE WordOf(c) = 0 <=> c \in Bits
  BY Widths, WordAndBit DEF WordOf, Bits, Caps
<1>3. ASSUME NEW c \in Caps
      PROVE  BitOf(c) \in Lower(words)[WordOf(c)] <=> BitOf(c) \in words[WordOf(c)] /\ c \in Bits
  BY <1>1, <1>2, WordAndBit
<1> QED BY <1>3, CapsInIs

\* An attribute is written from the words its version has room for.
LEMMA ApplyFileStep == ASSUME CapInv, NEW k \in Kinds, ApplyFile(k) PROVE CapInv'
<1>1. /\ pc = "idle" /\ UNCHANGED <<limits, version, obj, want, thread, pc, atApply>>
      /\ IsFile /\ IsFile'
      /\ kind' = k /\ calls' \in 0..MaxCalls /\ version \in {0, 1, 2}
  BY CapabilityAssumption DEF ApplyFile, Call, IsFile, CapInv, TypeOK
<1>2. /\ result' \in {"applied", "failed"}
      /\ result' = "applied" /\ CAPS \subseteq k => version # 0 /\ attr' = NewAttr
      /\ attr' \in {attr, NewAttr} /\ magic' \in {magic, version}
  BY DEF ApplyFile
<1>3. /\ \A t \in CapTypes : obj[t] \in Words /\ want[t] = CapsIn(obj[t]) /\ want[t] \subseteq Caps
      /\ {"permitted", "inheritable", "effective"} \subseteq CapTypes
  BY Types DEF CapInv, TypeOK, WantIsObj
<1>4. NewAttr \in Attrs
  BY <1>1, <1>3, Types DEF NewAttr, Attrs
<1>5. TypeOK'
  BY <1>1, <1>2, <1>4, Types DEF CapInv, TypeOK
<1>6. WantIsObj' /\ OneOfTwo' /\ AmbientWithin' /\ UnderWay'
  BY <1>1 DEF CapInv, WantIsObj, OneOfTwo, AmbientWithin, UnderWay
<1>7. FileHasSets'
  <2> SUFFICES ASSUME result' = "applied", CAPS \subseteq k
               PROVE  LET room == IF version = 1 THEN Bits ELSE Caps IN
                      /\ CapsIn(NewAttr.permitted) = want["permitted"] \intersect room
                      /\ CapsIn(NewAttr.inheritable) = want["inheritable"] \intersect room
                      /\ version = 2 => (NewAttr.flag <=> want["effective"] # {})
    BY <1>1, <1>2 DEF FileHasSets, Applied
  <2>1. CASE version = 1
    BY <1>3, <2>1, LowerIs DEF NewAttr
  <2>2. CASE version = 2
    <3>1. NewAttr.permitted = obj["permitted"] /\ NewAttr.inheritable = obj["inheritable"]
      BY <2>2 DEF NewAttr
    <3>2. NewAttr.flag <=> ~Empty("effective")
      BY <2>2 DEF NewAttr
    <3>3. Empty("effective") <=> want["effective"] = {}
      BY <1>3, EmptyIs DEF Empty
    <3> QED BY <1>3, <2>2, <3>1, <3>2, <3>3
  <2> QED BY <1>1, <1>2, <2>1, <2>2
<1>8. AppliedTakesEffect' /\ FailedApplyKeepsCaps'
  BY <1>1 DEF AppliedTakesEffect, FailedApplyKeepsCaps
<1> QED BY <1>5, <1>6, <1>7, <1>8 DEF CapInv

\* Every step preserves the invariant.
LEMMA InvStep == ASSUME CapInv, [Next]_vars PROVE CapInv'
<1>1. CASE UNCHANGED vars
  BY <1>1 DEF vars, CapInv, TypeOK, WantIsObj, OneOfTwo, AmbientWithin, UnderWay, SetsAsAsked,
              BoundingAsAsked, AppliedTakesEffect, FailedApplyKeepsCaps, FileHasSets, Applied, IsFile
<1> QED BY <1>1, SetStep, UnsetStep, FillStep, ClearStep, ApplyThreadStep, ApplyFileStep,
           LoadThreadStep, LoadNoAttrStep, LoadAttrStep, LoadMalformedStep, LoadRefusedStep,
           InitializePackageStep, StripAttrStep, DropBoundingStep, SetCapsStep,
           SetCapsFailsStep, SetAmbientStep DEF Next

\* The invariant of Capability, from which its four safety properties follow:
\* the words stand for the wanted sets, and an Apply under way has done what
\* its step says.
THEOREM Invariant == Spec => []CapInv
<1>1. CapInv /\ [Next]_vars => CapInv'
  BY InvStep
<1> QED BY <1>1, InitInv, PTL DEF Spec

(***************************************************************************)
(* The words of the object and the sets of the thread and the attribute    *)
(* stay within their types, whatever is set, filled, loaded or applied.    *)
(***************************************************************************)
THEOREM TypeCorrect == Spec => []TypeOK
<1>1. CapInv => TypeOK
  BY DEF CapInv
<1> QED BY <1>1, Invariant, PTL

(***************************************************************************)
(* ReadersAgree: Get and Empty read the two words as the kernel does, for  *)
(* any width of a word and any last capability in the upper one, and Full  *)
(* asks for the capabilities that capUpperMask stands for, whether the     *)
(* package was initialized or the mask is still all ones.                  *)
(***************************************************************************)
THEOREM ReadersAgreeAlways == Spec => []ReadersAgree
<1>1. CapInv => ReadersAgree
  <2> SUFFICES ASSUME CapInv, version \in {2, 3}, NEW t \in CapTypes
               PROVE  /\ \A c \in Caps : Holds(t, c) => (Get(t, c) <=> c \in want[t])
                      /\ Empty(t) <=> want[t] = {}
                      /\ Full(t) <=> MaskedCaps \subseteq want[t]
    BY DEF ReadersAgree
  <2>1. obj[t] \in Words /\ want[t] = CapsIn(obj[t])
    BY DEF CapInv, TypeOK, WantIsObj
  <2>2. \A c \in Caps : Holds(t, c) => (Get(t, c) <=> c \in want[t])
    BY GetIs
  <2>3. Empty(t) <=> want[t] = {}
    BY <2>1, EmptyIs DEF Empty
  <2>4. Full(t) <=> MaskedCaps \subseteq want[t]
    BY <2>1, FullIs DEF Full
  <2> QED BY <2>2, <2>3, <2>4
<1> QED BY <1>1, Invariant, PTL

(***************************************************************************)
(* AppliedTakesEffect: an Apply without an error gave the thread what was  *)
(* asked for, through its three groups of system calls and what each of    *)
(* them leaves the next one to work with.                                  *)
(***************************************************************************)
THEOREM AppliedTakesEffectAlways == Spec => []AppliedTakesEffect
<1>1. CapInv => AppliedTakesEffect
  BY DEF CapInv
<1> QED BY <1>1, Invariant, PTL

(***************************************************************************)
(* FailedApplyKeepsCaps: a capset that the kernel refuses leaves all but   *)
(* the bounding set as it was.                                             *)
(***************************************************************************)
THEOREM FailedApplyKeepsCapsAlways == Spec => []FailedApplyKeepsCaps
<1>1. CapInv => FailedApplyKeepsCaps
  BY DEF CapInv
<1> QED BY <1>1, Invariant, PTL

(***************************************************************************)
(* FileHasSets: the attribute written by an Apply without an error stands  *)
(* for the permitted and inheritable sets in the object, cut to the lower  *)
(* word in version 1, and has the flag of version 2, after any mixture of  *)
(* edits and Loads, among them those that failed half way.                 *)
(***************************************************************************)
THEOREM FileHasSetsAlways == Spec => []FileHasSets
<1>1. CapInv => FileHasSets
  BY DEF CapInv
<1> QED BY <1>1, Invariant, PTL

-----------------------------------------------------------------------------
(* The initialisation of the package. Every goroutine inside initialize      *)
(* writes the values that the others write too, so what one of them has      *)
(* established stays true whatever the others do.                            *)

\* Points past each of the assignments, and past initialize.
KnowsVersion == Points \ {"idle", "capget"}
HasRead == {"lastcap", "mask"}
Initialized == {"publish", "version", "object", "refused"}

\* What the goroutines have established by the time they reach their points.
VersionKnown ==
    /\ pkgInitialized => capVers = preferred
    /\ \A g \in Routines : at[g] \in KnowsVersion => capVers = preferred
    /\ \A g \in Routines : at[g] = "refused" => preferred \notin {2, 3}

LimitsKnown ==
    /\ \A g \in Routines : at[g] \in HasRead => capLastCap = KernelLastCap
    /\ \A g \in Routines : at[g] = "mask" => lastCap = KernelLastCap
    /\ ~failed /\ (pkgInitialized \/ \E g \in Routines : at[g] \in Initialized) =>
          lastCap = KernelLastCap /\ upperBits = UpperBits(KernelLastCap)

MaskFits ==
    \/ upperBits = UpperBits(lastCap)
    \/ \E h \in Routines : at[h] = "mask"

PkgInv == PkgTypeOK /\ VersionKnown /\ LimitsKnown /\ MaskFits

\* The package starts with limits that fit each other, and nobody inside.
LEMMA PkgInitInv == PkgInit => PkgInv
<1> SUFFICES ASSUME PkgInit PROVE PkgInv
    OBVIOUS
<1>1. PkgTypeOK
    BY DEF PkgInit, PkgTypeOK, Points
<1>2. VersionKnown
    BY DEF PkgInit, VersionKnown, KnowsVersion
<1>3. LimitsKnown
    BY DEF PkgInit, LimitsKnown, HasRead, Initialized
<1>4. MaskFits
    BY DEF PkgInit, MaskFits, UpperBits
<1> QED BY <1>1, <1>2, <1>3, <1>4 DEF PkgInv

\* The type invariant is inductive with what a goroutine has read.
LEMMA PkgTypeOKStep == PkgTypeOK /\ LimitsKnown /\ [PkgNext]_pkgVars => PkgTypeOK'
<1> SUFFICES ASSUME PkgTypeOK, LimitsKnown, [PkgNext]_pkgVars PROVE PkgTypeOK'
    OBVIOUS
<1> USE DEF PkgTypeOK, globals
<1>1. CASE UNCHANGED pkgVars
    BY <1>1 DEF pkgVars
<1>2. ASSUME NEW g \in Routines,
             Check(g) \/ Initialize(g) \/ SwitchVersion(g) \/ Again(g)
      PROVE  PkgTypeOK'
  <2>1. CASE Check(g) \/ SwitchVersion(g) \/ Again(g)
      BY <2>1 DEF Check, SwitchVersion, Again, Goto, Points
  <2>2. CASE Capget(g) \/ TestLastCap(g) \/ ReadLastCap(g) \/ ReadFails(g) \/ Publish(g)
      BY <2>2 DEF Capget, TestLastCap, ReadLastCap, ReadFails, Publish, Goto, Points
  <2>3. CASE SetLastCap(g)
      BY <2>3 DEF SetLastCap, Goto, Points, LimitsKnown, HasRead
  <2>4. CASE SetMask(g)
      BY <2>4 DEF SetMask, Goto, Points, LimitsKnown, HasRead
  <2> QED BY <1>2, <2>1, <2>2, <2>3, <2>4 DEF Initialize
<1> QED BY <1>1, <1>2 DEF PkgNext

\* No step takes a goroutine past a point without its assignment.
LEMMA PkgVersionKnownStep == PkgTypeOK /\ VersionKnown /\ [PkgNext]_pkgVars => VersionKnown'
<1> SUFFICES ASSUME PkgTypeOK, VersionKnown, [PkgNext]_pkgVars PROVE VersionKnown'
    OBVIOUS
<1> USE DEF PkgTypeOK, VersionKnown, KnowsVersion, Points, globals
<1>1. CASE UNCHANGED pkgVars
    BY <1>1 DEF pkgVars
<1>2. ASSUME NEW g \in Routines,
             Check(g) \/ Initialize(g) \/ SwitchVersion(g) \/ Again(g)
      PROVE  VersionKnown'
  <2>1. CASE Check(g) \/ SwitchVersion(g) \/ Again(g)
      BY <2>1 DEF Check, SwitchVersion, Again, Goto
  <2>2. CASE Capget(g) \/ TestLastCap(g) \/ ReadLastCap(g)
      BY <2>2 DEF Capget, TestLastCap, ReadLastCap, Goto
  <2>3. CASE ReadFails(g) \/ SetLastCap(g) \/ SetMask(g) \/ Publish(g)
      BY <2>3 DEF ReadFails, SetLastCap, SetMask, Publish, Goto
  <2> QED BY <1>2, <2>1, <2>2, <2>3 DEF Initialize
<1> QED BY <1>1, <1>2 DEF PkgNext

\* Whoever assigns a limit again assigns the same one.
LEMMA PkgLimitsKnownStep ==
    PkgTypeOK /\ LimitsKnown /\ [PkgNext]_pkgVars => LimitsKnown'
<1> SUFFICES ASSUME PkgTypeOK, LimitsKnown, [PkgNext]_pkgVars
             PROVE  LimitsKnown'
    OBVIOUS
<1> USE DEF PkgTypeOK, LimitsKnown, HasRead, Initialized, Points, globals
<1>1. CASE UNCHANGED pkgVars
    BY <1>1 DEF pkgVars
<1>2. ASSUME NEW g \in Routines,
             Check(g) \/ Initialize(g) \/ SwitchVersion(g) \/ Again(g)
      PROVE  LimitsKnown'
  <2>1. CASE Check(g) \/ SwitchVersion(g) \/ Again(g)
      BY <2>1 DEF Check, SwitchVersion, Again, Goto
  <2>2. CASE Capget(g) \/ TestLastCap(g) \/ ReadLastCap(g)
      BY <2>2, CapabilityInitAssumption DEF Capget, TestLastCap, ReadLastCap, Goto
  <2>3. CASE ReadFails(g)
      BY <2>3 DEF ReadFails, Goto
  <2>4. CASE SetLastCap(g)
      BY <2>4 DEF SetLastCap, Goto
  <2>5. CASE SetMask(g)
      BY <2>5 DEF SetMask, Goto
  <2>6. CASE Publish(g)
      BY <2>6 DEF Publish, Goto
  <2> QED BY <1>2, <2>1, <2>2, <2>3, <2>4, <2>5, <2>6 DEF Initialize
<1> QED BY <1>1, <1>2 DEF PkgNext

\* The mask fits, or the goroutine that will make it fit is between its two
\* assignments.
LEMMA PkgMaskFitsStep == PkgTypeOK /\ LimitsKnown /\ MaskFits /\ [PkgNext]_pkgVars => MaskFits'
<1> SUFFICES ASSUME PkgTypeOK, LimitsKnown, MaskFits, [PkgNext]_pkgVars PROVE MaskFits'
    OBVIOUS
<1> USE DEF PkgTypeOK, MaskFits, globals
<1>1. CASE UNCHANGED pkgVars
    BY <1>1 DEF pkgVars
<1>2. ASSUME NEW g \in Routines,
             Check(g) \/ Initialize(g) \/ SwitchVersion(g) \/ Again(g)
      PROVE  MaskFits'
  <2>1. CASE Check(g) \/ SwitchVersion(g) \/ Again(g)
      BY <2>1 DEF Check, SwitchVersion, Again, Goto
  <2>2. CASE Capget(g) \/ TestLastCap(g) \/ ReadLastCap(g) \/ ReadFails(g) \/ Publish(g)
      BY <2>2 DEF Capget, TestLastCap, ReadLastCap, ReadFails, Publish, Goto
  <2>3. CASE SetLastCap(g)
      BY <2>3 DEF SetLastCap, Goto
  <2>4. CASE SetMask(g)
      BY <2>4 DEF SetMask, Goto, LimitsKnown, HasRead
  <2> QED BY <1>2, <2>1, <2>2, <2>3, <2>4 DEF Initialize
<1> QED BY <1>1, <1>2 DEF PkgNext

\* Every step of a goroutine preserves the invariant of the package.
LEMMA PkgStep ==
    PkgInv /\ [PkgNext]_pkgVars => PkgInv'
BY PkgTypeOKStep, PkgVersionKnownStep, PkgLimitsKnownStep, PkgMaskFitsStep DEF PkgInv

\* The invariant that the theorems below take their parts from.
THEOREM PkgInvariant == PkgSpec => []PkgInv
<1>1. PkgInv /\ [PkgNext]_pkgVars => PkgInv'
  BY PkgStep
<1> QED BY PkgInitInv, <1>1, PTL DEF PkgSpec

(***************************************************************************)
(* The globals of the package only ever hold their defaults or what the    *)
(* kernel reports, with any number of goroutines inside initialize.        *)
(***************************************************************************)
THEOREM PkgTypeCorrect == PkgSpec => []PkgTypeOK
BY PkgInvariant, PTL DEF PkgInv

(***************************************************************************)
(* newPid refuses a goroutine only when the kernel's version is unknown.   *)
(***************************************************************************)
THEOREM VersionIsKnownAlways == PkgSpec => []VersionIsKnown
<1>1. PkgInv => VersionIsKnown
  BY DEF PkgInv, VersionKnown, VersionIsKnown
<1> QED BY PkgInvariant, <1>1, PTL

(***************************************************************************)
(* Whoever has an object sees the kernel's highest capability and the mask *)
(* for it, unless a read of cap_last_cap failed; even then the two fit     *)
(* each other but for the moment between their assignments.                *)
(***************************************************************************)
THEOREM ObjectSeesLimitsAlways == PkgSpec => []ObjectSeesLimits
<1>1. PkgInv => ObjectSeesLimits
  <2> SUFFICES ASSUME PkgInv, NEW g \in Routines, at[g] = "object"
               PROVE  /\ ~failed => lastCap = KernelLastCap
                      /\ \/ upperBits = UpperBits(lastCap)
                         \/ failed /\ \E h \in Routines : at[h] = "mask"
    BY DEF ObjectSeesLimits
  <2>1. ~failed => lastCap = KernelLastCap /\ upperBits = UpperBits(KernelLastCap)
    BY DEF PkgInv, LimitsKnown, Initialized
  <2>2. failed \in BOOLEAN
    BY DEF PkgInv, PkgTypeOK
  <2> QED BY <2>1, <2>2 DEF PkgInv, MaskFits
<1> QED BY PkgInvariant, <1>1, PTL
=============================================================================
