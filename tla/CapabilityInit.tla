---------------------------- MODULE CapabilityInit ----------------------------
(***************************************************************************)
(* Package capability: its globals are filled in when a goroutine creates  *)
(* the first object of a process. Only pkgInitialized is under initMutex:  *)
(* goroutines that find it unset all run initialize at once, and each      *)
(* assignment to the other globals is a step of its own.                   *)
(***************************************************************************)
EXTENDS Integers

CONSTANTS
    Routines,       \* goroutines that create objects
    KernelLastCap   \* cap_last_cap of the kernel

ASSUME CapabilityInitAssumption == KernelLastCap \in 1..63

VARIABLES
    preferred,      \* the capability version the kernel prefers (external)
    capVers,        \* capVers, 0 before it is set
    capLastCap,     \* capLastCap, 0 before it was read
    lastCap,        \* CAP_LAST_CAP
    upperBits,      \* capUpperMask has so many low bits set
    pkgInitialized, \* pkgInitialized
    at,             \* the next step of each goroutine
    failed          \* history: a read of cap_last_cap failed

globals == <<capVers, capLastCap, lastCap, upperBits, pkgInitialized>>
pkgVars == <<preferred, globals, at, failed>>

\* 1 << (capLastCap - 31) - 1, or 0 when there is one word only.
UpperBits(n) == IF n > 31 THEN n - 31 ELSE 0

Goto(g, from, to) ==
    /\ at[g] = from
    /\ at' = [at EXCEPT ![g] = to]

PkgInit ==
    /\ preferred \in 1..3
    /\ capVers = 0
    /\ capLastCap = 0
    /\ lastCap = 63
    /\ upperBits = 32
    /\ pkgInitialized = FALSE
    /\ at = [g \in Routines |-> "idle"]
    /\ failed = FALSE

-----------------------------------------------------------------------------
\* A plausible bug: to keep others out, the flag is set before the work is done.
CheckAndClaim(g) ==
    /\ Goto(g, "idle", IF pkgInitialized THEN "version" ELSE "capget")
    /\ pkgInitialized' = TRUE
    /\ UNCHANGED <<preferred, capVers, capLastCap, lastCap, upperBits, failed>>

\* newPid: has somebody initialized the package?
Check(g) ==
    /\ Goto(g, "idle", IF pkgInitialized THEN "version" ELSE "capget")
    /\ UNCHANGED <<preferred, globals, failed>>

\* initialize: capget fills in the version the kernel prefers.
Capget(g) ==
    /\ Goto(g, "capget", "test")
    /\ capVers' = preferred
    /\ UNCHANGED <<preferred, capLastCap, lastCap, upperBits, pkgInitialized, failed>>

\* initLastCap: somebody has read the file already.
TestLastCap(g) ==
    /\ Goto(g, "test", IF capLastCap # 0 THEN "lastcap" ELSE "read")
    /\ UNCHANGED <<preferred, globals, failed>>

ReadLastCap(g) ==
    /\ Goto(g, "read", "lastcap")
    /\ capLastCap' = KernelLastCap
    /\ UNCHANGED <<preferred, capVers, lastCap, upperBits, pkgInitialized, failed>>

\* The defaults stay, and the package counts as initialized all the same.
ReadFails(g) ==
    /\ Goto(g, "read", "publish")
    /\ failed' = TRUE
    /\ UNCHANGED <<preferred, globals>>

SetLastCap(g) ==
    /\ Goto(g, "lastcap", "mask")
    /\ lastCap' = capLastCap
    /\ UNCHANGED <<preferred, capVers, capLastCap, upperBits, pkgInitialized, failed>>

\* A plausible bug: the mask starts over before it is computed.
SetMaskInTwoSteps(g) ==
    /\ \/ Goto(g, "mask", "mask") /\ upperBits' = 0
       \/ Goto(g, "mask", "publish") /\ upperBits' = UpperBits(capLastCap)
    /\ UNCHANGED <<preferred, capVers, capLastCap, lastCap, pkgInitialized, failed>>

SetMask(g) ==
    /\ Goto(g, "mask", "publish")
    /\ upperBits' = UpperBits(capLastCap)
    /\ UNCHANGED <<preferred, capVers, capLastCap, lastCap, pkgInitialized, failed>>

Publish(g) ==
    /\ Goto(g, "publish", "version")
    /\ pkgInitialized' = TRUE
    /\ UNCHANGED <<preferred, capVers, capLastCap, lastCap, upperBits, failed>>

\* newPid goes on: an object for versions 2 and 3, errUnknownVers otherwise.
SwitchVersion(g) ==
    /\ Goto(g, "version", IF capVers \in {2, 3} THEN "object" ELSE "refused")
    /\ UNCHANGED <<preferred, globals, failed>>

\* The goroutine is done with the object, or with the error.
Again(g) ==
    /\ Goto(g, "object", "idle") \/ Goto(g, "refused", "idle")
    /\ UNCHANGED <<preferred, globals, failed>>

Initialize(g) ==
    \/ Capget(g) \/ TestLastCap(g) \/ ReadLastCap(g) \/ ReadFails(g)
    \/ SetLastCap(g) \/ SetMask(g) \/ Publish(g)

PkgNext == \E g \in Routines : Check(g) \/ Initialize(g) \/ SwitchVersion(g) \/ Again(g)

PkgSpec == PkgInit /\ [][PkgNext]_pkgVars

-----------------------------------------------------------------------------
Points == {"idle", "capget", "test", "read", "lastcap", "mask", "publish",
           "version", "object", "refused"}

PkgTypeOK ==
    /\ preferred \in 1..3
    /\ capVers \in {0, preferred}
    /\ capLastCap \in {0, KernelLastCap}
    /\ lastCap \in {63, KernelLastCap}
    /\ upperBits \in {32, UpperBits(KernelLastCap)}
    /\ pkgInitialized \in BOOLEAN
    /\ at \in [Routines -> Points]
    /\ failed \in BOOLEAN

(***************************************************************************)
(* A goroutine that finds the package initialized by another one, or that  *)
(* initializes it along with others, learns the kernel's version: newPid   *)
(* fails only on a kernel whose version is unknown.                        *)
(***************************************************************************)
VersionIsKnown == \A g \in Routines : at[g] = "refused" => preferred \notin {2, 3}

(***************************************************************************)
(* As long as no read of cap_last_cap failed, whoever has an object sees   *)
(* "Highest valid capability of the running kernel" in CAP_LAST_CAP and    *)
(* the mask that goes with it, although other goroutines may still be      *)
(* inside initialize and write both again. After a failed read, which      *)
(* nobody repeats for the goroutine, the two still fit each other except   *)
(* while another goroutine is between its two assignments.                 *)
(***************************************************************************)
ObjectSeesLimits ==
    \A g \in Routines : at[g] = "object" =>
        /\ ~failed => lastCap = KernelLastCap
        /\ \/ upperBits = UpperBits(lastCap)
           \/ failed /\ \E h \in Routines : at[h] = "mask"
=============================================================================
