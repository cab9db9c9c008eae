---------------------------- MODULE KernelVersion ----------------------------
(***************************************************************************)
(* The two ways the packages compare the running kernel with a version     *)
(* they need: idMap.checkKernelVersion, on linuxUtils.ParseKernelRelease,  *)
(* and linuxUtils.KernelCurrentVersionCmp. A release is the sequence of    *)
(* its dot-separated fields: 5.15.0-91-generic is <<5, 15, Text>>.         *)
(***************************************************************************)
EXTENDS Integers, Sequences

CONSTANT Text           \* a field that is not a number

ASSUME KernelVersionAssumption == Text \notin Int

\* ParseKernelRelease fails on fewer than two fields, and where Atoi fails.
Parsable(rel) == Len(rel) >= 2 /\ Text \notin {rel[1], rel[2]}

Parse(rel) == [major |-> rel[1], minor |-> rel[2]]

\* A plausible bug: the minor numbers are compared whatever the major ones are.
AtLeastByField(rel, major, minor) ==
    LET kernel == Parse(rel)
    IN  kernel.major >= major /\ kernel.minor >= minor

\* checkKernelVersion, of a release that can be parsed.
AtLeast(rel, major, minor) ==
    LET kernel == Parse(rel)
    IN  ~(\/ kernel.major < major
          \/ kernel.major = major /\ kernel.minor < minor)

\* KernelCurrentVersionCmp, with a parser of its own for the same form.
Compare(rel, major, minor) ==
    CASE rel[1] > major                     -> 1
      [] rel[1] = major /\ rel[2] > minor   -> 1
      [] rel[1] = major /\ rel[2] = minor   -> 0
      [] OTHER                              -> -1
=============================================================================
