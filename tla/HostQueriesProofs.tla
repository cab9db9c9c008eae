-------------------------- MODULE HostQueriesProofs --------------------------
(***************************************************************************)
(* Proofs about HostQueries: what ContainerIsDocker answers, for any       *)
(* number of levels it searches, any directories above the rootfs and a    *)
(* daemon that comes and goes; and what the lookups in mount tables and    *)
(* files return, for any layers and any lists of lines.                    *)
(***************************************************************************)
EXTENDS HostQueries, WellFoundedInduction, TLAPS

DockerPoints == {"idle", "rootfs", "search", "connect", "info", "list",
                 "disconnect", "unreachable", "returned"}

DockerTypes ==
    /\ ofDocker \in BOOLEAN
    /\ matches \in IF ofDocker THEN {1, 2} ELSE {0}
    /\ defaultRoot \in BOOLEAN
    /\ above \in [1..Levels -> Directories]
    /\ daemon \in BOOLEAN
    /\ docker \in DockerPoints
    /\ level \in 1..Levels
    /\ searchErr \in BOOLEAN
    /\ session \in BOOLEAN
    /\ isDocker \in {"none", "yes", "no", "error"}
    /\ unanswered \in BOOLEAN

\* Once the daemon is turned to, the whole search was inconclusive.
Asking == {"connect", "info", "list", "disconnect", "unreachable"}

\* What the search has seen by the time the call reaches its points.
SearchInv ==
    /\ docker \in {"idle", "rootfs"} => level = 1
    /\ docker \in {"idle", "rootfs", "search"} => ~searchErr
    /\ docker \in Asking \union {"search"} => ~defaultRoot
    /\ docker = "search" => \A l \in 1..Levels : l < level => above[l] # "dataRoot"
    /\ docker \in Asking => \A l \in 1..Levels : l <= level => above[l] # "dataRoot"
    /\ searchErr => above[level] = "unreadable"

\* The client holds a session between the connection and its Disconnect.
SessionInv ==
    /\ session <=> docker \in {"info", "list", "disconnect"}
    /\ docker = "unreachable" => unanswered

\* The answer of the daemon waits for the Disconnect.
AnswerInv ==
    /\ docker = "disconnect" =>
          /\ isDocker \in {"yes", "no"}
          /\ isDocker = "yes" => ofDocker
          /\ isDocker = "no" /\ ofDocker => unanswered \/ matches > 1
    /\ DockerAnswer

DockerInv == DockerTypes /\ SearchInv /\ SessionInv /\ AnswerInv
-----------------------------------------------------------------------------
(* ContainerIsDocker *)

\* Before the first call nothing is known.
LEMMA DockerInitInv == DockerInit => DockerInv
<1> SUFFICES ASSUME DockerInit PROVE DockerInv
  OBVIOUS
<1> USE DEF DockerInit
<1>1. DockerTypes
  <2>1. 1 \in 1..Levels
    BY DockerCheckAssumption
  <2> QED BY <2>1, Zenon DEF DockerTypes, DockerPoints, Directories
<1>2. SearchInv /\ SessionInv /\ AnswerInv
  BY DEF SearchInv, SessionInv, AnswerInv, DockerAnswer, Asking
<1> QED BY <1>1, <1>2 DEF DockerInv

\* The search stays between the rootfs and the last level.
LEMMA LevelStep == ASSUME DockerTypes, DockerNext PROVE level' \in 1..Levels
<1>1. level \in 1..Levels /\ 1 \in 1..Levels
  BY DockerCheckAssumption DEF DockerTypes
<1>2. CASE SearchOn
  <2>1. level' = IF level = Levels THEN level ELSE level + 1
    BY <1>2 DEF SearchOn
  <2> QED BY <1>1, <2>1, DockerCheckAssumption
<1>3. CASE TakeAnswer
  BY <1>1, <1>3 DEF TakeAnswer
<1>4. CASE UNCHANGED level
  BY <1>1, <1>4
<1> QED BY <1>2, <1>3, <1>4
        DEF DockerNext, IsDocker, DaemonChanges, DefaultRoot, FindDataRoot, SearchFails,
            NewClient, Info, GetImageID, Disconnect, FallBack

\* Every step of the caller and the daemon preserves the types.
LEMMA DockerTypesStep == ASSUME DockerTypes, DockerNext PROVE DockerTypes'
<1> USE LevelStep DEF DockerTypes, GotoDocker, DockerPoints, container
<1>1. CASE IsDocker
  BY <1>1 DEF IsDocker
<1>2. CASE TakeAnswer
  BY <1>2, Zenon DEF TakeAnswer, Directories
<1>3. CASE DaemonChanges
  BY <1>3 DEF DaemonChanges
<1>4. CASE DefaultRoot
  BY <1>4, Zenon DEF DefaultRoot
<1>5. CASE FindDataRoot
  BY <1>5, Zenon DEF FindDataRoot
<1>6. CASE SearchOn
  BY <1>6, Zenon DEF SearchOn
<1>7. CASE SearchFails
  BY <1>7, Zenon DEF SearchFails
<1>8. CASE NewClient
  BY <1>8, Zenon DEF NewClient
<1>9. CASE Info
  BY <1>9, Zenon DEF Info
<1>10. CASE GetImageID
  BY <1>10, Zenon DEF GetImageID
<1>11. CASE Disconnect
  BY <1>11, Zenon DEF Disconnect
<1>12. CASE FallBack
  BY <1>12, Zenon DEF FallBack
<1> QED BY <1>1, <1>2, <1>3, <1>4, <1>5, <1>6, <1>7, <1>8, <1>9, <1>10, <1>11, <1>12
        DEF DockerNext

\* The search goes up level by level and ends with the first data root.
LEMMA SearchStep == ASSUME DockerTypes, SearchInv, DockerNext PROVE SearchInv'
<1>0. level \in 1..Levels /\ Levels \in Nat \ {0}
  BY DockerCheckAssumption DEF DockerTypes
<1> USE DEF SearchInv, GotoDocker, Asking, container
<1>1. CASE IsDocker
  BY <1>0, <1>1 DEF IsDocker
<1>2. CASE TakeAnswer
  BY <1>0, <1>2 DEF TakeAnswer
<1>3. CASE DaemonChanges
  BY <1>3 DEF DaemonChanges
<1>4. CASE DefaultRoot
  <2>1. /\ docker = "rootfs" /\ docker' \in {"returned", "search"}
        /\ UNCHANGED <<defaultRoot, above, level, searchErr>>
        /\ docker' = "search" => ~defaultRoot
    BY <1>4 DEF DefaultRoot
  <2> QED BY <1>0, <2>1
<1>5. CASE FindDataRoot
  BY <1>5 DEF FindDataRoot
<1>6. CASE SearchOn
  <2>1. /\ docker = "search" /\ above[level] # "dataRoot"
        /\ UNCHANGED <<defaultRoot, above, searchErr>>
        /\ docker' = IF level = Levels THEN "connect" ELSE "search"
        /\ level' = IF level = Levels THEN level ELSE level + 1
    BY <1>6 DEF SearchOn
  <2>2. \A l \in 1..Levels : l <= level => above[l] # "dataRoot"
    BY <1>0, <2>1
  <2> QED BY <1>0, <2>1, <2>2
<1>7. CASE SearchFails
  <2>1. /\ docker = "search" /\ docker' = "connect"
        /\ above[level] = "unreadable"
        /\ UNCHANGED <<defaultRoot, above, level>>
    BY <1>7 DEF SearchFails
  <2> QED BY <1>0, <2>1
<1>8. CASE NewClient \/ Info \/ GetImageID \/ Disconnect \/ FallBack
  <2>1. /\ docker \in Asking /\ docker' \in Asking \union {"returned"}
        /\ UNCHANGED <<defaultRoot, above, level, searchErr>>
    BY <1>8 DEF NewClient, Info, GetImageID, Disconnect, FallBack
  <2> QED BY <2>1
<1> QED BY <1>1, <1>2, <1>3, <1>4, <1>5, <1>6, <1>7, <1>8 DEF DockerNext

\* Only the client holds a session, and only the fall-back follows a refusal.
LEMMA SessionStep == ASSUME SessionInv, DockerNext PROVE SessionInv'
<1> USE DEF SessionInv, GotoDocker
<1>1. CASE IsDocker \/ TakeAnswer \/ DaemonChanges
  BY <1>1 DEF IsDocker, TakeAnswer, DaemonChanges
<1>2. CASE DefaultRoot \/ FindDataRoot \/ SearchOn \/ SearchFails
  <2>1. /\ docker \in {"rootfs", "search"} /\ UNCHANGED <<session, unanswered>>
        /\ docker' \in {"search", "connect", "returned"}
    BY <1>2 DEF DefaultRoot, FindDataRoot, SearchOn, SearchFails
  <2> QED BY <2>1
<1>3. CASE NewClient \/ Info
  BY <1>3 DEF NewClient, Info
<1>4. CASE GetImageID \/ Disconnect \/ FallBack
  BY <1>4 DEF GetImageID, Disconnect, FallBack
<1> QED BY <1>1, <1>2, <1>3, <1>4 DEF DockerNext

\* Each of the ways to return has a reason for its answer.
LEMMA AnswerStep == ASSUME DockerInv, DockerNext PROVE AnswerInv'
<1>0. level \in 1..Levels /\ matches \in 0..2 /\ (ofDocker => matches > 0)
      /\ (~ofDocker => matches = 0)
  BY DEF DockerInv, DockerTypes
<1> USE DEF AnswerInv, DockerAnswer, GotoDocker, container
<1>1. CASE IsDocker \/ TakeAnswer
  BY <1>1 DEF IsDocker, TakeAnswer
<1>2. CASE DaemonChanges
  BY <1>2 DEF DaemonChanges, DockerInv
<1>3. CASE DefaultRoot
  BY <1>3 DEF DefaultRoot
<1>4. CASE FindDataRoot
  <2>1. docker' = "returned" /\ isDocker' = "yes" /\ level' = level /\ above' = above
        /\ above[level] \in {"dataRoot", "crowdedRoot"}
    BY <1>4 DEF FindDataRoot
  <2> QED BY <1>0, <2>1
<1>5. CASE SearchOn \/ SearchFails \/ NewClient \/ Info
  BY <1>5 DEF SearchOn, SearchFails, NewClient, Info
<1>6. CASE GetImageID
  <2>1. /\ docker' = "disconnect" /\ UNCHANGED <<ofDocker, matches>>
        /\ isDocker' = IF daemon /\ matches = 1 THEN "yes" ELSE "no"
        /\ ~daemon => unanswered'
    BY <1>6 DEF GetImageID
  <2>2. CASE daemon /\ matches = 1
    BY <1>0, <2>1, <2>2
  <2>3. CASE ~(daemon /\ matches = 1)
    BY <1>0, <2>1, <2>3
  <2> QED BY <2>2, <2>3
<1>7. CASE Disconnect
  BY <1>7 DEF Disconnect, DockerInv
<1>8. CASE FallBack
  <2>1. /\ docker = "unreachable" /\ docker' = "returned"
        /\ isDocker' = IF searchErr THEN "error" ELSE "no"
        /\ UNCHANGED <<ofDocker, matches, above, level, unanswered>>
    BY <1>8 DEF FallBack
  <2>2. unanswered /\ (searchErr => above[level] = "unreadable")
    BY <2>1 DEF DockerInv, SearchInv, SessionInv
  <2>3. CASE searchErr
    BY <1>0, <2>1, <2>2, <2>3
  <2>4. CASE ~searchErr
    BY <2>1, <2>2, <2>4
  <2> QED BY <2>3, <2>4
<1> QED BY <1>1, <1>2, <1>3, <1>4, <1>5, <1>6, <1>7, <1>8 DEF DockerNext

\* The other questions leave ContainerIsDocker alone.
LEMMA DockerStep == ASSUME DockerInv, [Next]_vars PROVE DockerInv'
<1>1. CASE DockerNext
  BY <1>1, DockerTypesStep, SearchStep, SessionStep, AnswerStep DEF DockerInv
<1>2. CASE UNCHANGED dockerVars
  <2> USE <1>2 DEF dockerVars, container
  <2>1. DockerTypes'
    BY Zenon DEF DockerInv, DockerTypes
  <2>2. SearchInv' /\ SessionInv'
    BY DEF DockerInv, SearchInv, SessionInv
  <2>3. AnswerInv'
    BY DEF DockerInv, AnswerInv, DockerAnswer
  <2> QED BY <2>1, <2>2, <2>3 DEF DockerInv
<1>3. DockerNext \/ UNCHANGED dockerVars
  BY DEF Next, AskOverlay, AskDistro, AskDataRoot, Ask, Done, vars
<1> QED BY <1>1, <1>2, <1>3

\* The invariant of ContainerIsDocker: what its search has seen, its session
\* and its answer agree.
THEOREM DockerInvariant == Spec => []DockerInv
<1>1. Init => DockerInv
  BY DockerInitInv DEF Init
<1>2. DockerInv /\ [Next]_vars => DockerInv'
  BY DockerStep
<1> QED BY <1>1, <1>2, PTL DEF Spec

(***************************************************************************)
(* DockerAnswer: ContainerIsDocker is only wrong about a container of      *)
(* Docker's when the daemon did not answer or the id is ambiguous, and     *)
(* about another one when its rootfs lies in what looks like a data root,  *)
(* at whatever level and whenever the daemon comes and goes.               *)
(***************************************************************************)
THEOREM DockerAnswerAlways == Spec => []DockerAnswer
<1>1. DockerInv => DockerAnswer
  BY DEF DockerInv, AnswerInv
<1> QED BY <1>1, DockerInvariant, PTL

(***************************************************************************)
(* SessionsClosed: no way out of ContainerIsDocker leaves a session with   *)
(* the daemon open, and none is opened when the search found a data root.  *)
(***************************************************************************)
THEOREM SessionsClosedAlways == Spec => []SessionsClosed
<1>1. DockerInv => SessionsClosed
  <2> SUFFICES ASSUME DockerInv PROVE SessionsClosed
    OBVIOUS
  <2>1. level \in 1..Levels /\ Levels \in Nat
    BY DockerCheckAssumption DEF DockerInv, DockerTypes
  <2> QED BY <2>1 DEF DockerInv, SearchInv, SessionInv, SessionsClosed, Asking
<1> QED BY <1>1, DockerInvariant, PTL
-----------------------------------------------------------------------------
(* Overlays in mount tables *)

\* The fields of an overlay.
LEMMA OverlayFields ==
    ASSUME NEW ovl \in Overlays
    PROVE  /\ ovl = [lower |-> ovl.lower, upper |-> ovl.upper, work |-> "w", volatile |-> ovl.volatile,
                     flags |-> ovl.flags, mountFlags |-> {"nosuid"}, optional |-> ovl.optional]
           /\ ovl.work = "w"
           /\ ovl.volatile \in BOOLEAN
           /\ ovl.flags \in SUBSET {"ro", "sync"}
           /\ ovl.upper \in Layers \union {""}
           /\ ovl.optional \in {<<>>, <<"shared">>, <<"master">>, <<"shared", "master">>, <<"unbindable">>}
BY DEF Overlays

\* The super block options in the entry of an overlay.
VfsOf(ovl) ==
    {Flag(f) : f \in ovl.flags}
      \union (IF "ro" \in ovl.flags THEN {} ELSE {Flag("rw")})
      \union {[key |-> "lowerdir", val |-> ovl.lower]}
      \union (IF ovl.upper = "" THEN {}
              ELSE {[key |-> "upperdir", val |-> <<ovl.upper>>],
                    [key |-> "workdir", val |-> <<ovl.work>>]})
      \union (IF ovl.volatile THEN {Flag("volatile")} ELSE {})

\* What GetMountOpt takes from the entry of an overlay.
LEMMA MountOptOf ==
    ASSUME NEW ovl
    PROVE  LET opts == GetMountOpt(InfoOf(ovl, "/a"))
           IN  /\ opts.Opts = VfsOf(ovl) \ ProperMntOpts
               /\ opts.Flags = OptionsToFlags(VfsOf(ovl) \intersect ProperMntOpts)
               /\ opts.PropFlags = Propagation(Optional(ovl.optional))
<1>1. InfoOf(ovl, "/a").VfsOpts = VfsOf(ovl)
  BY DEF InfoOf, VfsOf
<1> QED BY <1>1 DEF InfoOf, GetMountOpt

\* The options that are left after those that have a flag.
LayerOptions(ovl) == {[key |-> "lowerdir", val |-> ovl.lower],
                      [key |-> "upperdir", val |-> <<ovl.upper>>],
                      [key |-> "workdir", val |-> <<ovl.work>>], Flag("volatile")}

\* The options of the layers are none of the flags.
LEMMA LayerOption ==
    ASSUME NEW ovl, NEW p \in LayerOptions(ovl)
    PROVE  p \notin ProperMntOpts
BY DEF LayerOptions, ProperMntOpts, Flag, FlagNames

\* What is left of the options of the super block when the flags are taken out.
LEMMA OptsOf ==
    ASSUME NEW ovl \in Overlays, NEW o
    PROVE  o \in VfsOf(ovl) \ ProperMntOpts <=>
              \/ o = [key |-> "lowerdir", val |-> ovl.lower]
              \/ ovl.upper # "" /\ o = [key |-> "upperdir", val |-> <<ovl.upper>>]
              \/ ovl.upper # "" /\ o = [key |-> "workdir", val |-> <<ovl.work>>]
              \/ ovl.volatile /\ o = Flag("volatile")
<1>1. ASSUME NEW f \in ovl.flags \union {"rw"} PROVE Flag(f) \in ProperMntOpts
  BY OverlayFields DEF ProperMntOpts, FlagNames
<1> QED BY LayerOption, <1>1 DEF VfsOf, LayerOptions

\* The flags are those the overlay was mounted with.
LEMMA FlagsOf ==
    ASSUME NEW ovl \in Overlays
    PROVE  OptionsToFlags(VfsOf(ovl) \intersect ProperMntOpts) = ovl.flags
<1> DEFINE S == VfsOf(ovl) \intersect ProperMntOpts
<1>1. ASSUME NEW p \in S PROVE p.key \in ovl.flags \union {"rw"}
  <2>1. \E f \in ovl.flags \union {"rw"} : p = Flag(f)
    BY LayerOption DEF VfsOf, LayerOptions
  <2> QED BY <2>1 DEF Flag
<1>2. ASSUME NEW f \in ovl.flags PROVE f \in {o.key : o \in S}
  <2>1. Flag(f) \in S
    BY OverlayFields DEF VfsOf, ProperMntOpts, FlagNames
  <2>2. Flag(f).key = f
    BY DEF Flag
  <2> HIDE DEF S
  <2> QED BY <2>1, <2>2
<1>3. "rw" \notin FlagNames /\ ovl.flags \subseteq FlagNames
  BY OverlayFields DEF FlagNames
<1> HIDE DEF S
<1>4. OptionsToFlags(S) = {o.key : o \in S} \intersect FlagNames
  BY DEF OptionsToFlags
<1>5. ASSUME NEW f PROVE f \in {o.key : o \in S} \intersect FlagNames <=> f \in ovl.flags
  BY <1>1, <1>2, <1>3
<1>6. {o.key : o \in S} \intersect FlagNames = ovl.flags
  BY <1>5
<1> QED BY <1>4, <1>6 DEF S

\* The values of an option that is there once, and of one that is not there.
LEMMA Value ==
    ASSUME NEW opts, NEW key, NEW val, [key |-> key, val |-> val] \in opts.Opts,
           \A o \in opts.Opts : o.key = key => o.val = val
    PROVE  ValueOf(opts, key) = val
<1> DEFINE o == CHOOSE p \in opts.Opts : p.key = key
<1>1. \E p \in opts.Opts : p.key = key
  <2>1. [key |-> key, val |-> val].key = key
    OBVIOUS
  <2> QED BY <2>1
<1>2. o \in opts.Opts /\ o.key = key
  BY <1>1
<1>3. ValueOf(opts, key) = o.val
  BY <1>1 DEF ValueOf
<1> HIDE DEF o
<1> QED BY <1>2, <1>3

\* A key that no option has reads as the empty name.
LEMMA NoValue ==
    ASSUME NEW opts, NEW key, \A o \in opts.Opts : o.key # key
    PROVE  ValueOf(opts, key) = <<"">>
BY DEF ValueOf

\* Membership as a value.
LEMMA Membership ==
    ASSUME NEW x, NEW S, NEW v \in BOOLEAN, x \in S <=> v
    PROVE  (x \in S) = v
<1>1. (x \in S) \in BOOLEAN
  OBVIOUS
<1>2. \A a, b \in BOOLEAN : (a <=> b) => a = b
  OBVIOUS
<1> QED BY <1>1, <1>2

\* The layers are read back as they were given.
LEMMA LayersOf ==
    ASSUME NEW ovl \in Overlays, NEW opts, opts.Opts = VfsOf(ovl) \ ProperMntOpts
    PROVE  /\ GetLowerLayers(opts) = ovl.lower
           /\ GetUpperLayer(opts) = ovl.upper
           /\ GetWorkLayer(opts) = IF ovl.upper = "" THEN "" ELSE ovl.work
           /\ GetVolatile(opts) = ovl.volatile
<1>1. ASSUME NEW o \in opts.Opts
      PROVE  /\ o.key = "lowerdir" => o.val = ovl.lower
             /\ o.key = "upperdir" => ovl.upper # "" /\ o.val = <<ovl.upper>>
             /\ o.key = "workdir" => ovl.upper # "" /\ o.val = <<ovl.work>>
  <2>1. CASE o = [key |-> "lowerdir", val |-> ovl.lower]
    BY <2>1
  <2>2. CASE ovl.upper # "" /\ o = [key |-> "upperdir", val |-> <<ovl.upper>>]
    BY <2>2
  <2>3. CASE ovl.upper # "" /\ o = [key |-> "workdir", val |-> <<ovl.work>>]
    BY <2>3
  <2>4. CASE o = Flag("volatile")
    BY <2>4 DEF Flag
  <2> QED BY <2>1, <2>2, <2>3, <2>4, OptsOf
<1>2. [key |-> "lowerdir", val |-> ovl.lower] \in opts.Opts
  BY OptsOf
<1>3. ovl.upper # "" => /\ [key |-> "upperdir", val |-> <<ovl.upper>>] \in opts.Opts
                        /\ [key |-> "workdir", val |-> <<ovl.work>>] \in opts.Opts
  BY OptsOf
<1>4. GetLowerLayers(opts) = ovl.lower
  <2>1. \A o \in opts.Opts : o.key = "lowerdir" => o.val = ovl.lower
    BY <1>1
  <2>2. ValueOf(opts, "lowerdir") = ovl.lower
    BY <1>2, <2>1, Value
  <2> QED BY <2>2 DEF GetLowerLayers
<1>5. ASSUME ovl.upper # ""
      PROVE  ValueOf(opts, "upperdir") = <<ovl.upper>> /\ ValueOf(opts, "workdir") = <<ovl.work>>
  <2>1. /\ \A o \in opts.Opts : o.key = "upperdir" => o.val = <<ovl.upper>>
        /\ \A o \in opts.Opts : o.key = "workdir" => o.val = <<ovl.work>>
    BY <1>1
  <2>2. [key |-> "upperdir", val |-> <<ovl.upper>>] \in opts.Opts
    BY <1>3, <1>5
  <2>3. [key |-> "workdir", val |-> <<ovl.work>>] \in opts.Opts
    BY <1>3, <1>5
  <2>4. ValueOf(opts, "upperdir") = <<ovl.upper>>
    BY <2>1, <2>2, Value
  <2>5. ValueOf(opts, "workdir") = <<ovl.work>>
    BY <2>1, <2>3, Value
  <2> QED BY <2>4, <2>5
<1>6. ASSUME ovl.upper = ""
      PROVE  ValueOf(opts, "upperdir") = <<"">> /\ ValueOf(opts, "workdir") = <<"">>
  <2>1. \A o \in opts.Opts : o.key # "upperdir" /\ o.key # "workdir"
    BY <1>1, <1>6
  <2> QED BY <2>1, NoValue, Zenon
<1>7. Flag("volatile") \in opts.Opts <=> ovl.volatile
  <2>1. Flag("volatile").key = "volatile"
    BY DEF Flag
  <2>2. \A key, val : [key |-> key, val |-> val].key = key
    OBVIOUS
  <2>3. /\ Flag("volatile") # [key |-> "lowerdir", val |-> ovl.lower]
        /\ Flag("volatile") # [key |-> "upperdir", val |-> <<ovl.upper>>]
        /\ Flag("volatile") # [key |-> "workdir", val |-> <<ovl.work>>]
    BY <2>1, <2>2
  <2> QED BY <2>3, OptsOf
<1>8. GetVolatile(opts) = ovl.volatile
  <2>1. ovl.volatile \in BOOLEAN
    BY OverlayFields
  <2> QED BY <1>7, <2>1, Membership DEF GetVolatile
<1>9. \A x : <<x>>[1] = x
  OBVIOUS
<1>10. CASE ovl.upper = ""
  <2>1. GetUpperLayer(opts) = "" /\ GetWorkLayer(opts) = ""
    BY <1>6, <1>9, <1>10 DEF GetUpperLayer, GetWorkLayer
  <2> QED BY <1>4, <1>8, <1>10, <2>1
<1>11. CASE ovl.upper # ""
  <2>1. GetUpperLayer(opts) = ovl.upper /\ GetWorkLayer(opts) = ovl.work
    BY <1>5, <1>9, <1>11 DEF GetUpperLayer, GetWorkLayer
  <2> QED BY <1>4, <1>8, <1>11, <2>1
<1> QED BY <1>10, <1>11

\* How the optional fields of an overlay's entry tell of its propagation.
LEMMA PropagationOf ==
    ASSUME NEW ovl \in Overlays
    PROVE  LET was == {ovl.optional[i] : i \in DOMAIN ovl.optional}
               prop == Propagation(Optional(ovl.optional))
           IN  /\ prop = "shared" <=> "shared" \in was
               /\ prop = "slave" <=> was = {"master"}
               /\ prop = "unbindable" <=> "unbindable" \in was
<1> DEFINE was == {ovl.optional[i] : i \in DOMAIN ovl.optional}
<1> DEFINE prop == Propagation(Optional(ovl.optional))
<1>1. CASE ovl.optional = <<>>
  <2>1. was = {} /\ prop = "private"
    BY <1>1 DEF Optional, Propagation
  <2> QED BY <2>1
<1>2. CASE ovl.optional = <<"shared">>
  <2>1. was = {"shared"} /\ prop = "shared"
    BY <1>2 DEF Optional, Propagation
  <2> QED BY <2>1
<1>3. CASE ovl.optional = <<"master">>
  <2>1. was = {"master"} /\ prop = "slave"
    BY <1>3 DEF Optional, Propagation
  <2> QED BY <2>1
<1>4. CASE ovl.optional = <<"shared", "master">>
  <2>1. was = {"shared", "master"} /\ prop = "shared"
    BY <1>4 DEF Optional, Propagation
  <2> QED BY <2>1
<1>5. CASE ovl.optional = <<"unbindable">>
  <2>1. was = {"unbindable"} /\ prop = "unbindable"
    BY <1>5 DEF Optional, Propagation
  <2> QED BY <2>1
<1> QED BY <1>1, <1>2, <1>3, <1>4, <1>5, OverlayFields

\* GetMountAt takes the first entry with the mountpoint.
LEMMA FirstAt ==
    ASSUME NEW mounts, NEW mountpoint, DOMAIN mounts \subseteq Nat, NEW k \in DOMAIN mounts,
           mounts[k].Mountpoint = mountpoint,
           \A i \in DOMAIN mounts : mounts[i].Mountpoint = mountpoint => k <= i
    PROVE  GetMountAt(mountpoint, mounts) = mounts[k]
<1> DEFINE at == {i \in DOMAIN mounts : mounts[i].Mountpoint = mountpoint}
<1> DEFINE first == CHOOSE i \in at : \A j \in at : i <= j
<1>1. k \in at /\ \A j \in at : k <= j
  OBVIOUS
<1>2. first \in at /\ \A j \in at : first <= j
  BY <1>1
<1>3. first <= k /\ k <= first /\ first \in Nat /\ k \in Nat
  BY <1>1, <1>2
<1>4. first = k
  <2> HIDE DEF first
  <2> QED BY <1>3
<1> QED BY <1>4 DEF GetMountAt

\* The table AskOverlay makes up.
MountsOf(ovl, table) ==
    [i \in DOMAIN table |->
        IF table[i] = "overlay" THEN InfoOf(ovl, "/a") ELSE InfoOfOther(table[i])]

\* What the lookups say of "/a" with each of the tables.
LEMMA LookUps ==
    ASSUME NEW ovl, NEW table \in Tables
    PROVE  /\ FindMount("/a", MountsOf(ovl, table))
           /\ MountedWithFs("/a", "overlay", MountsOf(ovl, table))
           /\ GetMountAt("/a", MountsOf(ovl, table)) =
                 IF table[1] = "/a" THEN InfoOfOther("/a") ELSE InfoOf(ovl, "/a")
<1> DEFINE mounts == MountsOf(ovl, table)
<1> DEFINE ov == InfoOf(ovl, "/a")
<1>0. /\ ov.Mountpoint = "/a" /\ ov.Fstype = "overlay"
      /\ InfoOfOther("/a").Mountpoint = "/a"
      /\ InfoOfOther("/b").Mountpoint = "/b"
  BY DEF InfoOf, InfoOfOther
<1> HIDE DEF ov
<1>1. CASE table = <<"overlay">>
  <2>1. DOMAIN mounts = {1} /\ mounts[1] = ov /\ table[1] # "/a"
    BY <1>1 DEF MountsOf, ov
  <2> HIDE DEF mounts
  <2>2. GetMountAt("/a", mounts) = mounts[1]
    BY <1>0, <2>1, FirstAt
  <2> QED BY <1>0, <2>1, <2>2 DEF FindMount, MountedWithFs, mounts, ov
<1>2. CASE table = <<"/b", "overlay">>
  <2>1. DOMAIN mounts = {1, 2} /\ mounts[1] = InfoOfOther("/b") /\ mounts[2] = ov /\ table[1] # "/a"
    BY <1>2 DEF MountsOf, ov
  <2> HIDE DEF mounts
  <2>2. GetMountAt("/a", mounts) = mounts[2]
    BY <1>0, <2>1, FirstAt
  <2> QED BY <1>0, <2>1, <2>2 DEF FindMount, MountedWithFs, mounts, ov
<1>3. CASE table = <<"overlay", "/a">>
  <2>1. DOMAIN mounts = {1, 2} /\ mounts[1] = ov /\ mounts[2] = InfoOfOther("/a") /\ table[1] # "/a"
    BY <1>3 DEF MountsOf, ov
  <2> HIDE DEF mounts
  <2>2. GetMountAt("/a", mounts) = mounts[1]
    BY <1>0, <2>1, FirstAt
  <2> QED BY <1>0, <2>1, <2>2 DEF FindMount, MountedWithFs, mounts, ov
<1>4. CASE table = <<"/a", "overlay">>
  <2>1. DOMAIN mounts = {1, 2} /\ mounts[1] = InfoOfOther("/a") /\ mounts[2] = ov /\ table[1] = "/a"
    BY <1>4 DEF MountsOf, ov
  <2> HIDE DEF mounts
  <2>2. GetMountAt("/a", mounts) = mounts[1]
    BY <1>0, <2>1, FirstAt
  <2> QED BY <1>0, <2>1, <2>2 DEF FindMount, MountedWithFs, mounts, ov
<1> QED BY <1>1, <1>2, <1>3, <1>4 DEF Tables

\* Every answer about an overlay describes it.
LEMMA OverlayAnswer == AskOverlay => OverlayRemounts'
<1> SUFFICES ASSUME AskOverlay PROVE OverlayRemounts'
  OBVIOUS
<1>1. PICK ovl \in Overlays, table \in Tables :
        LET mounts == MountsOf(ovl, table)
            mi == GetMountAt("/a", mounts)
            opts == GetMountOpt(mi)
        IN  Ask("overlay", [ovl |-> ovl, table |-> table],
            [found |-> FindMount("/a", mounts),
             overlay |-> MountedWithFs("/a", "overlay", mounts),
             fs |-> mi.Fstype,
             lower |-> GetLowerLayers(opts), upper |-> GetUpperLayer(opts),
             work |-> GetWorkLayer(opts), volatile |-> GetVolatile(opts),
             flags |-> opts.Flags, prop |-> opts.PropFlags])
  BY DEF AskOverlay, MountsOf
<1> DEFINE mounts == MountsOf(ovl, table)
<1> DEFINE mi == GetMountAt("/a", mounts)
<1> DEFINE opts == GetMountOpt(mi)
<1>2. /\ query' = [of |-> "overlay", on |-> [ovl |-> ovl, table |-> table]]
      /\ answer' = [of |-> "overlay", is |->
            [found |-> FindMount("/a", mounts),
             overlay |-> MountedWithFs("/a", "overlay", mounts),
             fs |-> mi.Fstype,
             lower |-> GetLowerLayers(opts), upper |-> GetUpperLayer(opts),
             work |-> GetWorkLayer(opts), volatile |-> GetVolatile(opts),
             flags |-> opts.Flags, prop |-> opts.PropFlags]]
  BY <1>1 DEF Ask
<1>3. /\ FindMount("/a", mounts) /\ MountedWithFs("/a", "overlay", mounts)
      /\ mi = IF table[1] = "/a" THEN InfoOfOther("/a") ELSE InfoOf(ovl, "/a")
  BY LookUps
<1>4. InfoOf(ovl, "/a").Fstype = "overlay" /\ InfoOfOther("/a").Fstype = "ext4"
  BY DEF InfoOf, InfoOfOther
<1>5. ASSUME table[1] # "/a"
      PROVE  /\ opts.Opts = VfsOf(ovl) \ ProperMntOpts
             /\ opts.Flags = ovl.flags
             /\ opts.PropFlags = Propagation(Optional(ovl.optional))
  <2>1. opts = GetMountOpt(InfoOf(ovl, "/a"))
    BY <1>3, <1>5
  <2> QED BY <2>1, MountOptOf, FlagsOf
<1> HIDE DEF mounts, mi, opts
<1>6. /\ answer'.is.found = FindMount("/a", mounts)
      /\ answer'.is.overlay = MountedWithFs("/a", "overlay", mounts)
      /\ answer'.is.fs = mi.Fstype
      /\ answer'.is.lower = GetLowerLayers(opts) /\ answer'.is.upper = GetUpperLayer(opts)
      /\ answer'.is.work = GetWorkLayer(opts) /\ answer'.is.volatile = GetVolatile(opts)
      /\ answer'.is.flags = opts.Flags /\ answer'.is.prop = opts.PropFlags
      /\ query'.on.ovl = ovl /\ query'.on.table = table
  BY <1>2
<1>7. CASE table[1] = "/a"
  BY <1>3, <1>4, <1>6, <1>7 DEF OverlayRemounts
<1>8. CASE table[1] # "/a"
  <2>1. mi.Fstype = "overlay"
    BY <1>3, <1>4, <1>8
  <2>2. /\ GetLowerLayers(opts) = ovl.lower
        /\ GetUpperLayer(opts) = ovl.upper
        /\ GetWorkLayer(opts) = IF ovl.upper = "" THEN "" ELSE ovl.work
        /\ GetVolatile(opts) = ovl.volatile
    BY <1>5, <1>8, LayersOf
  <2>3. LET was == {ovl.optional[i] : i \in DOMAIN ovl.optional}
        IN  /\ opts.PropFlags = "shared" <=> "shared" \in was
            /\ opts.PropFlags = "slave" <=> was = {"master"}
            /\ opts.PropFlags = "unbindable" <=> "unbindable" \in was
    BY <1>5, <1>8, PropagationOf
  <2>4. answer'.is.found /\ answer'.is.overlay
    BY <1>3, <1>6
  <2>5. answer'.is.fs = IF query'.on.table[1] = "/a" THEN "ext4" ELSE "overlay"
    BY <1>6, <1>8, <2>1
  <2>6. /\ answer'.is.lower = query'.on.ovl.lower
        /\ answer'.is.upper = query'.on.ovl.upper
        /\ answer'.is.work = IF query'.on.ovl.upper = "" THEN "" ELSE query'.on.ovl.work
        /\ answer'.is.volatile = query'.on.ovl.volatile
        /\ answer'.is.flags = query'.on.ovl.flags
    BY <1>5, <1>6, <1>8, <2>2
  <2>7. LET was == {query'.on.ovl.optional[i] : i \in DOMAIN query'.on.ovl.optional}
        IN  /\ answer'.is.prop = "shared" <=> "shared" \in was
            /\ answer'.is.prop = "slave" <=> was = {"master"}
            /\ answer'.is.prop = "unbindable" <=> "unbindable" \in was
    BY <1>6, <2>3
  <2> QED BY <2>4, <2>5, <2>6, <2>7, Zenon DEF OverlayRemounts
<1> QED BY <1>7, <1>8

-----------------------------------------------------------------------------
(* Settings from the first file that has them *)

\* A set of numbers has a least one.
LEMMA Least ==
    ASSUME NEW T \in SUBSET Nat, T # {}
    PROVE  \E x \in T : \A y \in T : x <= y
<1> DEFINE R == OpToRel(<, Nat)
<1>1. IsWellFoundedOn(R, Nat)
  BY NatLessThanWellFounded
<1>2. ASSUME NEW x \in Nat, NEW y \in Nat, y < x PROVE <<y, x>> \in R
  BY <1>2 DEF OpToRel
<1> HIDE DEF R
<1>3. PICK x \in T : \A y \in T : ~(<<y, x>> \in R)
  BY <1>1, WFMin
<1>4. ASSUME NEW y \in T PROVE x <= y
  <2>1. x \in Nat /\ y \in Nat
    OBVIOUS
  <2>2. ~(y < x)
    BY <1>2, <1>3, <2>1
  <2> QED BY <2>1, <2>2
<1> QED BY <1>4

\* The first number of a set is its least.
LEMMA FirstIs ==
    ASSUME NEW S \in SUBSET Nat, S # {}
    PROVE  First(S) \in S /\ \A j \in S : First(S) <= j
BY Least DEF First

\* A scan over 1..n takes the value of the first hit, or ends with "end".
IsScan(f, n, hit, val, end) ==
    f = [i \in 1..n + 1 |-> IF i > n THEN end ELSE IF i \in hit THEN val[i] ELSE f[i + 1]]

\* There is such a function, and it is at its first hit.
LEMMA ScanExists ==
    ASSUME NEW n \in Nat, NEW hit \in SUBSET (1..n), NEW val, NEW end
    PROVE  \E f : IsScan(f, n, hit, val, end)
<1> DEFINE from(i) == {j \in hit : i <= j}
<1> DEFINE g == [i \in 1..n + 1 |-> IF from(i) = {} THEN end ELSE val[First(from(i))]]
<1>1. ASSUME NEW i \in 1..n + 1
      PROVE  g[i] = IF i > n THEN end ELSE IF i \in hit THEN val[i] ELSE g[i + 1]
  <2>0. /\ g[i] = IF from(i) = {} THEN end ELSE val[First(from(i))]
        /\ i + 1 \in 1..n + 1 => g[i + 1] = IF from(i + 1) = {} THEN end ELSE val[First(from(i + 1))]
    OBVIOUS
  <2> HIDE DEF g
  <2>n. i \in Nat /\ \A j \in hit : j \in Nat /\ 1 <= j /\ j <= n
    OBVIOUS
  <2>1. CASE i > n
    <3>1. \A j \in hit : ~(i <= j)
      BY <2>1, <2>n
    <3>2. from(i) = {}
      BY <3>1
    <3> QED BY <2>0, <2>1, <3>2
  <2>2. CASE i \in hit
    <3>1. First(from(i)) \in from(i) /\ First(from(i)) <= i
      <4>1. from(i) \in SUBSET Nat
        BY <2>n
      <4>2. i \in from(i)
        <5>1. i <= i
          BY <2>n
        <5> QED BY <2>2, <5>1
      <4> HIDE DEF from
      <4> QED BY <4>1, <4>2, FirstIs
    <3>2. First(from(i)) = i
      <4>1. First(from(i)) \in Nat /\ i \in Nat /\ i <= First(from(i)) /\ First(from(i)) <= i
        <5>1. \A j \in from(i) : j \in Nat /\ i <= j
          BY <2>n
        <5> HIDE DEF from
        <5> QED BY <2>n, <3>1, <5>1
      <4> HIDE DEF from
      <4> QED BY <4>1
    <3>3. from(i) # {} /\ i <= n
      BY <2>2
    <3> HIDE DEF from
    <3> QED BY <2>0, <2>2, <3>2, <3>3
  <2>3. CASE i <= n /\ i \notin hit
    <3>1. i + 1 \in 1..n + 1
      BY <2>3
    <3>2. \A j \in hit : i <= j <=> i + 1 <= j
      BY <2>3, <2>n
    <3>3. from(i) = from(i + 1)
      BY <3>2
    <3> HIDE DEF from
    <3> QED BY <2>0, <2>3, <3>1, <3>3
  <2> QED BY <2>1, <2>2, <2>3
<1>2. g = [i \in 1..n + 1 |-> IF i > n THEN end ELSE IF i \in hit THEN val[i] ELSE g[i + 1]]
  BY <1>1, Zenon
<1> HIDE DEF g
<1> QED BY <1>2, Zenon DEF IsScan

\* A scan that passes over the numbers below k is at k.
LEMMA Passes ==
    ASSUME NEW k \in Nat \ {0}, NEW f, \A i \in 1..k - 1 : f[i] = f[i + 1]
    PROVE  f[1] = f[k]
<1> DEFINE T == {i \in 1..k : f[i] = f[k]}
<1>1. T \in SUBSET Nat /\ T # {}
  <2>1. k \in T
    OBVIOUS
  <2> QED BY <2>1
<1>2. PICK m \in T : \A i \in T : m <= i
  <2> HIDE DEF T
  <2> QED BY <1>1, Least
<1>3. ASSUME m > 1 PROVE FALSE
  <2>1. m - 1 \in 1..k - 1 /\ (m - 1) + 1 = m
    BY <1>3
  <2>2. f[m - 1] = f[k]
    BY <2>1
  <2>3. m - 1 \in T
    BY <2>1, <2>2
  <2> QED BY <1>2, <2>3
<1> QED BY <1>3

\* What a scan returns from its start.
LEMMA ScanValue ==
    ASSUME NEW n \in Nat, NEW hit \in SUBSET (1..n), NEW val, NEW end, NEW f,
           IsScan(f, n, hit, val, end)
    PROVE  f[1] = IF hit = {} THEN end ELSE val[First(hit)]
<1>1. ASSUME NEW i \in 1..n + 1
      PROVE  f[i] = IF i > n THEN end ELSE IF i \in hit THEN val[i] ELSE f[i + 1]
  BY Zenon DEF IsScan
<1>2. CASE hit = {}
  <2>1. \A i \in 1..(n + 1) - 1 : f[i] = f[i + 1]
    BY <1>1, <1>2
  <2>2. f[1] = f[n + 1]
    BY <2>1, Passes
  <2> QED BY <1>1, <1>2, <2>2
<1>3. CASE hit # {}
  <2> DEFINE k == First(hit)
  <2>1. k \in hit /\ \A j \in hit : k <= j
    BY <1>3, FirstIs
  <2> HIDE DEF k
  <2>2. \A i \in 1..k - 1 : f[i] = f[i + 1]
    BY <1>1, <2>1
  <2>3. f[1] = f[k]
    BY <2>1, <2>2, Passes
  <2>4. k \in 1..n + 1 /\ ~(k > n)
    BY <2>1
  <2>5. f[k] = val[k]
    BY <1>1, <2>1, <2>4
  <2> QED BY <1>3, <2>3, <2>5 DEF k
<1> QED BY <1>2, <1>3

\* The value of a scan, as a recursive function defines it.
LEMMA ScanFirst ==
    ASSUME NEW n \in Nat, NEW hit \in SUBSET (1..n), NEW val, NEW end
    PROVE  (CHOOSE f : IsScan(f, n, hit, val, end))[1] = IF hit = {} THEN end ELSE val[First(hit)]
<1> DEFINE scan == CHOOSE f : IsScan(f, n, hit, val, end)
<1>1. IsScan(scan, n, hit, val, end)
  BY ScanExists
<1> HIDE DEF scan
<1>2. scan[1] = IF hit = {} THEN end ELSE val[First(hit)]
  BY <1>1, ScanValue
<1> QED BY <1>2 DEF scan

\* IdIn is the id of the first line with one.
LEMMA IdInFirst ==
    ASSUME NEW file, Len(file.lines) \in Nat
    PROVE  LET id(k) == ParseLineDistroId(file.lines[k])
               hit == {k \in 1..Len(file.lines) : id(k) # ""}
           IN  IdIn(file) = IF hit = {} THEN "" ELSE id(First(hit))
<1> DEFINE n == Len(file.lines)
<1> DEFINE val == [k \in 1..n |-> ParseLineDistroId(file.lines[k])]
<1> DEFINE hit == {k \in 1..n : ParseLineDistroId(file.lines[k]) # ""}
<1> DEFINE end == ""
<1> DEFINE body(f, i) == IF i > n THEN end
                         ELSE LET id == ParseLineDistroId(file.lines[i])
                              IN  IF id # "" THEN id ELSE f[i + 1]
<1> DEFINE scan == CHOOSE f : f = [i \in 1..n + 1 |-> body(f, i)]
<1>0. n \in Nat
  OBVIOUS
<1>1. IdIn(file) = scan[1]
  BY DEF IdIn
<1> HIDE DEF n, end
<1>2. ASSUME NEW f, NEW i \in 1..n + 1
      PROVE  body(f, i) = IF i > n THEN end ELSE IF i \in hit THEN val[i] ELSE f[i + 1]
  <2>1. CASE i > n
    <3>1. ~(i <= n)
      BY <1>0, <2>1
    <3> QED BY <2>1, <3>1
  <2>2. CASE i <= n
    <3>1. i \in 1..n /\ ~(i > n)
      BY <1>0, <2>2
    <3>2. i \in hit <=> ParseLineDistroId(file.lines[i]) # ""
      BY <3>1
    <3>3. val[i] = ParseLineDistroId(file.lines[i])
      BY <3>1
    <3> HIDE DEF hit, val
    <3> QED BY <2>2, <3>1, <3>2, <3>3
  <2>3. i > n \/ i <= n
    BY <1>0
  <2> QED BY <2>1, <2>2, <2>3, Zenon
<1>3. hit \in SUBSET (1..n)
  OBVIOUS
<1> HIDE DEF body
<1>4. scan = CHOOSE f : IsScan(f, n, hit, val, end)
  <2> HIDE DEF hit, val
  <2>1. \A f : f = [i \in 1..n + 1 |-> body(f, i)] <=> IsScan(f, n, hit, val, end)
    <3>1. ASSUME NEW f
          PROVE  [i \in 1..n + 1 |-> body(f, i)] =
                 [i \in 1..n + 1 |-> IF i > n THEN end ELSE IF i \in hit THEN val[i] ELSE f[i + 1]]
      BY <1>2, Zenon
    <3> QED BY <3>1, Zenon DEF IsScan
  <2> QED BY <2>1
<1> HIDE DEF scan
<1>5. scan[1] = IF hit = {} THEN end ELSE val[First(hit)]
  <2> HIDE DEF hit, val
  <2> QED BY <1>0, <1>3, <1>4, ScanFirst
<1>6. hit # {} => val[First(hit)] = ParseLineDistroId(file.lines[First(hit)])
  <2>1. 1..n \subseteq Nat
    BY <1>0
  <2> HIDE DEF hit
  <2> QED BY <1>3, <2>1, FirstIs
<1> QED BY <1>1, <1>5, <1>6 DEF n, end

\* GetDistroPath answers with the first file that has an id.
LEMMA DistroFirst ==
    ASSUME NEW files, Len(files) \in Nat
    PROVE  LET there(i) == files[i].state = "there"
               hit == {i \in 1..Len(files) : there(i) /\ IdIn(files[i]) # ""}
           IN  GetDistroPath(files) =
                  IF hit = {} THEN IF there(Len(files)) THEN Ok("") ELSE Failed
                  ELSE Ok(IdIn(files[First(hit)]))
<1> DEFINE n == Len(files)
<1> DEFINE there(i) == files[i].state = "there"
<1> DEFINE val == [i \in 1..n |-> Ok(IdIn(files[i]))]
<1> DEFINE hit == {i \in 1..n : there(i) /\ IdIn(files[i]) # ""}
<1> DEFINE end == IF there(n) THEN Ok("") ELSE Failed
<1> DEFINE body(f, i) == CASE i > n -> end
                           [] i <= n /\ there(i) /\ IdIn(files[i]) # "" -> Ok(IdIn(files[i]))
                           [] OTHER -> f[i + 1]
<1> DEFINE next == CHOOSE f : f = [i \in 1..n + 1 |-> body(f, i)]
<1>0. n \in Nat
  OBVIOUS
<1>1. GetDistroPath(files) = next[1]
  BY DEF GetDistroPath
<1> HIDE DEF n, end
<1>2. ASSUME NEW f, NEW i \in 1..n + 1
      PROVE  body(f, i) = IF i > n THEN end ELSE IF i \in hit THEN val[i] ELSE f[i + 1]
  <2>1. CASE i > n
    <3>1. ~(i <= n)
      BY <1>0, <2>1
    <3> QED BY <2>1, <3>1
  <2>2. CASE i <= n
    <3>1. i \in 1..n /\ ~(i > n)
      BY <1>0, <2>2
    <3>2. i \in hit <=> there(i) /\ IdIn(files[i]) # ""
      BY <3>1
    <3>3. val[i] = Ok(IdIn(files[i]))
      BY <3>1
    <3> HIDE DEF hit, val, there
    <3> QED BY <2>2, <3>1, <3>2, <3>3
  <2>3. i > n \/ i <= n
    BY <1>0
  <2> QED BY <2>1, <2>2, <2>3, Zenon
<1>3. hit \in SUBSET (1..n)
  OBVIOUS
<1> HIDE DEF body
<1>4. next = CHOOSE f : IsScan(f, n, hit, val, end)
  <2> HIDE DEF hit, val
  <2>1. \A f : f = [i \in 1..n + 1 |-> body(f, i)] <=> IsScan(f, n, hit, val, end)
    <3>1. ASSUME NEW f
          PROVE  [i \in 1..n + 1 |-> body(f, i)] =
                 [i \in 1..n + 1 |-> IF i > n THEN end ELSE IF i \in hit THEN val[i] ELSE f[i + 1]]
      BY <1>2, Zenon
    <3> QED BY <3>1, Zenon DEF IsScan
  <2> QED BY <2>1
<1> HIDE DEF next
<1>5. next[1] = IF hit = {} THEN end ELSE val[First(hit)]
  <2> HIDE DEF hit, val
  <2> QED BY <1>0, <1>3, <1>4, ScanFirst
<1>6. hit # {} => val[First(hit)] = Ok(IdIn(files[First(hit)]))
  <2>1. 1..n \subseteq Nat
    BY <1>0
  <2> HIDE DEF hit
  <2> QED BY <1>3, <2>1, FirstIs
<1> QED BY <1>1, <1>5, <1>6 DEF n, end

\* GetDataRoot answers with the first file that exists.
LEMMA DataRootFirst ==
    ASSUME NEW files, Len(files) \in Nat
    PROVE  LET hit == {i \in 1..Len(files) : files[i].state # "absent"}
           IN  GetDataRoot(files) =
                  IF hit = {} THEN Ok(DefaultDataRoot) ELSE ParseDataRoot(files[First(hit)])
<1> DEFINE n == Len(files)
<1> DEFINE val == [i \in 1..n |-> ParseDataRoot(files[i])]
<1> DEFINE hit == {i \in 1..n : files[i].state # "absent"}
<1> DEFINE end == Ok(DefaultDataRoot)
<1> DEFINE body(f, i) == CASE i > n -> end
                           [] i <= n /\ files[i].state # "absent" -> ParseDataRoot(files[i])
                           [] OTHER -> f[i + 1]
<1> DEFINE next == CHOOSE f : f = [i \in 1..n + 1 |-> body(f, i)]
<1>0. n \in Nat
  OBVIOUS
<1>1. GetDataRoot(files) = next[1]
  BY DEF GetDataRoot
<1> HIDE DEF n, end
<1>2. ASSUME NEW f, NEW i \in 1..n + 1
      PROVE  body(f, i) = IF i > n THEN end ELSE IF i \in hit THEN val[i] ELSE f[i + 1]
  <2>1. CASE i > n
    <3>1. ~(i <= n)
      BY <1>0, <2>1
    <3> QED BY <2>1, <3>1
  <2>2. CASE i <= n
    <3>1. i \in 1..n /\ ~(i > n)
      BY <1>0, <2>2
    <3>2. i \in hit <=> files[i].state # "absent"
      BY <3>1
    <3>3. val[i] = ParseDataRoot(files[i])
      BY <3>1
    <3> HIDE DEF hit, val
    <3> QED BY <2>2, <3>1, <3>2, <3>3
  <2>3. i > n \/ i <= n
    BY <1>0
  <2> QED BY <2>1, <2>2, <2>3, Zenon
<1>3. hit \in SUBSET (1..n)
  OBVIOUS
<1> HIDE DEF body
<1>4. next = CHOOSE f : IsScan(f, n, hit, val, end)
  <2> HIDE DEF hit, val
  <2>1. \A f : f = [i \in 1..n + 1 |-> body(f, i)] <=> IsScan(f, n, hit, val, end)
    <3>1. ASSUME NEW f
          PROVE  [i \in 1..n + 1 |-> body(f, i)] =
                 [i \in 1..n + 1 |-> IF i > n THEN end ELSE IF i \in hit THEN val[i] ELSE f[i + 1]]
      BY <1>2, Zenon
    <3> QED BY <3>1, Zenon DEF IsScan
  <2> QED BY <2>1
<1> HIDE DEF next
<1>5. next[1] = IF hit = {} THEN end ELSE val[First(hit)]
  <2> HIDE DEF hit, val
  <2> QED BY <1>0, <1>3, <1>4, ScanFirst
<1>6. hit # {} => val[First(hit)] = ParseDataRoot(files[First(hit)])
  <2>1. 1..n \subseteq Nat
    BY <1>0
  <2> HIDE DEF hit
  <2> QED BY <1>3, <2>1, FirstIs
<1> QED BY <1>1, <1>5, <1>6 DEF n, end

\* A function on 1..n is a sequence.
LEMMA TupleOf ==
    ASSUME NEW S, NEW n \in Nat, NEW f \in [1..n -> S]
    PROVE  f \in Seq(S) /\ Len(f) = n
OBVIOUS

\* What is read from a line, and what a release file has.
LEMMA LineTypes ==
    ASSUME NEW line \in Lines
    PROVE  /\ ParseLineDistroId(line) # "" <=> line.key = "ID" /\ line.val # ""
           /\ line.key = "ID" /\ line.quote = "none" => ParseLineDistroId(line) = line.val
<1>1. CASE line.quote = "single"
  <2>1. line = [key |-> "ID", val |-> "arch", quote |-> "single"]
    BY <1>1 DEF Lines
  <2> QED BY <2>1 DEF ParseLineDistroId
<1>2. CASE line.quote # "single"
  BY <1>2 DEF ParseLineDistroId
<1> QED BY <1>1, <1>2

\* A release file is a sequence of lines, and has none unless it is there.
LEMMA FileTypes ==
    ASSUME NEW file \in ReleaseFiles
    PROVE  /\ Len(file.lines) \in Nat /\ DOMAIN file.lines = 1..Len(file.lines)
           /\ \A k \in DOMAIN file.lines : file.lines[k] \in Lines
           /\ file.state # "there" => DOMAIN file.lines = {}
<1>1. CASE file.lines = <<>>
  BY <1>1
<1>2. CASE file.state = "there" /\ \E n \in 0..2 : file.lines \in [1..n -> Lines]
  <2>1. PICK n \in 0..2 : file.lines \in [1..n -> Lines]
    BY <1>2
  <2>2. file.lines \in Seq(Lines) /\ Len(file.lines) = n
    BY <2>1
  <2> QED BY <1>2, <2>1, <2>2
<1> QED BY <1>1, <1>2 DEF ReleaseFiles

\* The id of a file, from its first line with one.
LEMMA FileId ==
    ASSUME NEW file \in ReleaseFiles
    PROVE  /\ IdIn(file) = IF Ids(file) = {} THEN "" ELSE ParseLineDistroId(file.lines[First(Ids(file))])
           /\ IdIn(file) # "" <=> Ids(file) # {}
           /\ Ids(file) # {} => /\ First(Ids(file)) \in Ids(file) /\ file.state = "there"
                                /\ file.lines[First(Ids(file))] \in Lines
<1>1. Ids(file) = {k \in 1..Len(file.lines) : ParseLineDistroId(file.lines[k]) # ""}
  BY FileTypes, LineTypes DEF Ids
<1>2. IdIn(file) = IF Ids(file) = {} THEN "" ELSE ParseLineDistroId(file.lines[First(Ids(file))])
  BY <1>1, FileTypes, IdInFirst
<1>3. Ids(file) # {} => First(Ids(file)) \in Ids(file)
  <2>1. Ids(file) \in SUBSET Nat
    <3>1. 1..Len(file.lines) \subseteq Nat
      BY FileTypes
    <3> QED BY <1>1, <3>1
  <2> QED BY <2>1, FirstIs
<1>4. \A k \in Ids(file) : file.lines[k] \in Lines /\ ParseLineDistroId(file.lines[k]) # ""
  BY <1>1, FileTypes
<1>5. Ids(file) # {} => file.state = "there"
  BY FileTypes DEF Ids
<1> QED BY <1>2, <1>3, <1>4, <1>5

\* The answers come from the first file that decides.
LEMMA DistroAnswer ==
    AskDistro => DistroDecides' /\ DataRootDecides'
<1> SUFFICES ASSUME AskDistro PROVE DistroDecides' /\ DataRootDecides'
  OBVIOUS
<1>1. PICK files \in [1..2 -> ReleaseFiles] :
         /\ query' = [of |-> "distro", on |-> files]
         /\ answer' = [of |-> "distro",
                       is |-> [val |-> GetDistroPath(files).val, err |-> GetDistroPath(files).err,
                               headers |-> HeaderDir(GetDistroPath(files).val)]]
  BY DEF AskDistro, Ask
<1> DEFINE having == {i \in 1..2 : Ids(files[i]) # {}}
<1> DEFINE distro == GetDistroPath(files)
<1>2. files \in Seq(ReleaseFiles) /\ Len(files) = 2
  BY TupleOf
<1>3. distro = IF having = {} THEN IF files[2].state = "there" THEN Ok("") ELSE Failed
               ELSE Ok(IdIn(files[First(having)]))
  <2>1. having = {i \in 1..Len(files) : files[i].state = "there" /\ IdIn(files[i]) # ""}
    <3>1. \A i \in 1..2 : files[i] \in ReleaseFiles
      OBVIOUS
    <3>2. \A i \in 1..2 : Ids(files[i]) # {} <=> files[i].state = "there" /\ IdIn(files[i]) # ""
      BY <3>1, FileId
    <3> QED BY <1>2, <3>2
  <2> DEFINE hit == {i \in 1..Len(files) : files[i].state = "there" /\ IdIn(files[i]) # ""}
  <2>2. distro = IF hit = {} THEN IF files[Len(files)].state = "there" THEN Ok("") ELSE Failed
                 ELSE Ok(IdIn(files[First(hit)]))
    <3>1. Len(files) \in Nat
      BY <1>2
    <3> QED BY <3>1, DistroFirst, Zenon
  <2> HIDE DEF having, hit, distro
  <2> QED BY <1>2, <2>1, <2>2, Zenon DEF hit
<1>4. having # {} => First(having) \in 1..2 /\ Ids(files[First(having)]) # {}
  <2>1. having \in SUBSET Nat
    OBVIOUS
  <2>2. \A i \in having : i \in 1..2 /\ Ids(files[i]) # {}
    OBVIOUS
  <2> HIDE DEF having
  <2> QED BY <2>1, <2>2, FirstIs
<1> HIDE DEF distro
<1>5. /\ query'.of = "distro" /\ query'.on = files
      /\ answer'.is.val = distro.val /\ answer'.is.err = distro.err
      /\ answer'.is.headers = HeaderDir(distro.val)
  BY <1>1 DEF distro
<1>6. CASE having = {}
  <2>1. distro.val = "" /\ (distro.err <=> files[2].state # "there")
    BY <1>3, <1>6 DEF Ok, Failed
  <2> QED BY <1>5, <1>6, <2>1 DEF DistroDecides, DataRootDecides
<1>7. CASE having # {}
  <2> DEFINE file == files[First(having)]
  <2> DEFINE line == file.lines[First(Ids(file))]
  <2>1. distro.val = IdIn(file) /\ ~distro.err
    BY <1>3, <1>7 DEF Ok
  <2>2. file \in ReleaseFiles /\ Ids(file) # {}
    BY <1>4, <1>7
  <2>3. line \in Lines /\ IdIn(file) = ParseLineDistroId(line) /\ line.key = "ID"
    <3> HIDE DEF file
    <3>1. \A k \in Ids(file) : file.lines[k].key = "ID"
      BY DEF Ids
    <3> QED BY <2>2, <3>1, FileId
  <2>4. /\ ~answer'.is.err
        /\ line.quote = "none" =>
              /\ answer'.is.val = line.val
              /\ line.val = "arch" => answer'.is.headers = "/lib/modules"
              /\ line.val = "redhat" => answer'.is.headers = "/usr/src/kernels"
    <3> HIDE DEF line, file
    <3>1. line.quote = "none" => distro.val = line.val
      BY <2>1, <2>3, LineTypes
    <3> QED BY <1>5, <2>1, <3>1 DEF HeaderDir
  <2> QED BY <1>5, <1>7, <2>4 DEF DistroDecides, DataRootDecides
<1> QED BY <1>6, <1>7

\* The answer about the data root.
LEMMA DataRootAnswer ==
    AskDataRoot => DistroDecides' /\ DataRootDecides'
<1> SUFFICES ASSUME AskDataRoot PROVE DistroDecides' /\ DataRootDecides'
  OBVIOUS
<1>1. PICK files \in [1..3 -> ConfigFiles] :
         /\ query' = [of |-> "dataRoot", on |-> files]
         /\ answer' = [of |-> "dataRoot", is |-> GetDataRoot(files)]
  BY DEF AskDataRoot, Ask
<1> DEFINE there == {i \in 1..3 : files[i].state # "absent"}
<1> DEFINE file == files[First(there)]
<1>2. files \in Seq(ConfigFiles) /\ Len(files) = 3
  BY TupleOf
<1>3. GetDataRoot(files) = IF there = {} THEN Ok(DefaultDataRoot) ELSE ParseDataRoot(file)
  <2>1. there = {i \in 1..Len(files) : files[i].state # "absent"}
    BY <1>2
  <2> DEFINE hit == {i \in 1..Len(files) : files[i].state # "absent"}
  <2>2. GetDataRoot(files) = IF hit = {} THEN Ok(DefaultDataRoot) ELSE ParseDataRoot(files[First(hit)])
    <3>1. Len(files) \in Nat
      BY <1>2
    <3> QED BY <3>1, DataRootFirst, Zenon
  <2> HIDE DEF there, hit
  <2> QED BY <2>1, <2>2 DEF hit
<1>4. there # {} => First(there) \in 1..3 /\ file.state # "absent"
  <2>1. there \in SUBSET Nat
    OBVIOUS
  <2>2. \A i \in there : i \in 1..3 /\ files[i].state # "absent"
    OBVIOUS
  <2> HIDE DEF there
  <2> QED BY <2>1, <2>2, FirstIs
<1>5. query'.of = "dataRoot" /\ query'.on = files /\ answer'.is = GetDataRoot(files)
  BY <1>1
<1>6. CASE there = {}
  BY <1>3, <1>5, <1>6 DEF DistroDecides, DataRootDecides
<1>7. CASE there # {}
  <2>1. file \in ConfigFiles /\ file.state # "absent"
    BY <1>4, <1>7
  <2>2. /\ ParseDataRoot(file).err <=> file.state \in {"unreadable", "malformed"}
        /\ file.root # "" => ParseDataRoot(file).val = file.root
    <3> HIDE DEF file
    <3>1. CASE file.state = "there"
      BY <3>1 DEF ParseDataRoot, Ok
    <3>2. CASE file.state \in {"unreadable", "malformed"} /\ file.root = ""
      BY <3>2 DEF ParseDataRoot, Failed
    <3> QED BY <2>1, <3>1, <3>2 DEF ConfigFiles
  <2>3. /\ answer'.is.err <=> file.state \in {"unreadable", "malformed"}
        /\ file.root # "" => answer'.is.val = file.root
    BY <1>3, <1>5, <1>7, <2>2
  <2> QED BY <1>5, <1>7, <2>3 DEF DistroDecides, DataRootDecides
<1> QED BY <1>6, <1>7

-----------------------------------------------------------------------------
(* The questions *)

QueryInv == OverlayRemounts /\ DistroDecides /\ DataRootDecides

\* Before the first question there is nothing to show.
LEMMA NoQuery == ASSUME query = Nothing PROVE QueryInv
<1>1. query.of = "nothing"
  BY DEF Nothing
<1> QED BY <1>1 DEF QueryInv, OverlayRemounts, DistroDecides, DataRootDecides

\* Every question is answered as the properties say.
LEMMA QueryStep == ASSUME QueryInv, [Next]_vars PROVE QueryInv'
<1>1. CASE UNCHANGED <<query, answer>>
  <2>1. query' = query /\ answer' = answer
    BY <1>1
  <2>2. OverlayRemounts'
    BY <2>1, Zenon DEF QueryInv, OverlayRemounts
  <2>3. DistroDecides'
    BY <2>1, Zenon DEF QueryInv, DistroDecides
  <2>4. DataRootDecides'
    BY <2>1, Zenon DEF QueryInv, DataRootDecides
  <2> QED BY <2>2, <2>3, <2>4 DEF QueryInv
<1>2. CASE AskOverlay
  <2>1. query'.of = "overlay"
    BY <1>2 DEF AskOverlay, Ask
  <2>2. DistroDecides' /\ DataRootDecides'
    BY <2>1 DEF DistroDecides, DataRootDecides
  <2> QED BY <1>2, <2>2, OverlayAnswer DEF QueryInv
<1>3. CASE AskDistro \/ AskDataRoot
  <2>1. query'.of \in {"distro", "dataRoot"}
    BY <1>3 DEF AskDistro, AskDataRoot, Ask
  <2>2. OverlayRemounts'
    BY <2>1 DEF OverlayRemounts
  <2> QED BY <1>3, <2>2, DistroAnswer, DataRootAnswer DEF QueryInv
<1>4. CASE Done
  <2>1. query'.of = "nothing"
    BY <1>4 DEF Done, Nothing
  <2> QED BY <2>1 DEF QueryInv, OverlayRemounts, DistroDecides, DataRootDecides
<1> QED BY <1>1, <1>2, <1>3, <1>4 DEF Next, vars

\* Whatever was asked last, its answer is as OverlayRemounts and
\* FirstFileDecides say.
THEOREM QueryInvariant == Spec => []QueryInv
<1>1. Init => QueryInv
  BY NoQuery DEF Init
<1>2. QueryInv /\ [Next]_vars => QueryInv'
  BY QueryStep
<1> QED BY <1>1, <1>2, PTL DEF Spec

(***************************************************************************)
(* OverlayRemounts: what GetMountOpt and the readers of layers take from   *)
(* the entry of an overlay is enough to mount it again, for any list of    *)
(* lower layers and any names.                                             *)
(***************************************************************************)
THEOREM OverlayRemountsAlways == Spec => []OverlayRemounts
<1>1. QueryInv => OverlayRemounts
  BY DEF QueryInv
<1> QED BY <1>1, QueryInvariant, PTL

(***************************************************************************)
(* FirstFileDecides: GetDistroPath and GetDataRoot answer with the first   *)
(* file that decides, from the lemmas on their loops for files of any      *)
(* length and lists of any number of files.                                *)
(***************************************************************************)
THEOREM FirstFileDecidesAlways == Spec => []FirstFileDecides
<1>1. QueryInv => FirstFileDecides
  BY DEF QueryInv, FirstFileDecides
<1> QED BY <1>1, QueryInvariant, PTL
=============================================================================
