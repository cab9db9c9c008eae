----------------------------- MODULE DockerCheck -----------------------------
(***************************************************************************)
(* dockerUtils.ContainerIsDocker: is a container one of Docker's? The      *)
(* directories above its rootfs are searched for a Docker data root first; *)
(* only if that is inconclusive is the daemon asked, in a session of its   *)
(* own. The daemon may come, go or stop answering between any two steps.   *)
(***************************************************************************)
EXTENDS Integers

CONSTANT Levels         \* searchLevels (5)

ASSUME DockerCheckAssumption == Levels \in Nat \ {0}

VARIABLES
    ofDocker,       \* the container is one of Docker's (external)
    matches,        \* containers the daemon lists for its id (external)
    defaultRoot,    \* the rootfs is below /var/lib/docker (external)
    above,          \* what the directories above the rootfs are (external)
    daemon,         \* the daemon answers within the timeout (external)
    docker,         \* the next step of the call
    level,          \* how far up the search is
    searchErr,      \* err of isDockerRootfs
    session,        \* the client holds a session with the daemon
    isDocker,       \* what the call returns
    unanswered      \* history: the daemon left a request unanswered

container == <<ofDocker, matches, defaultRoot, above>>
dockerVars == <<container, daemon, docker, level, searchErr, session, isDocker, unanswered>>

\* A data root has the subdirectories image, network, containers and swarm; a
\* crowded one has more entries than the 30 that are read.
Directories == {"dataRoot", "crowdedRoot", "other", "unreadable"}

GotoDocker(from, to) == docker = from /\ docker' = to

DockerInit ==
    /\ ofDocker = FALSE
    /\ matches = 0
    /\ defaultRoot = FALSE
    /\ above = [l \in 1..Levels |-> "other"]
    /\ daemon \in BOOLEAN
    /\ docker = "idle"
    /\ level = 1
    /\ searchErr = FALSE
    /\ session = FALSE
    /\ isDocker = "none"
    /\ unanswered = FALSE

\* A call, for any container and any rootfs.
IsDocker ==
    /\ GotoDocker("idle", "rootfs")
    /\ ofDocker' \in BOOLEAN
    /\ matches' \in IF ofDocker' THEN {1, 2} ELSE {0}
    /\ defaultRoot' \in BOOLEAN
    /\ above' \in [1..Levels -> Directories]
    /\ UNCHANGED <<daemon, level, searchErr, session, isDocker, unanswered>>

\* The caller takes the answer; nothing of the call is left.
TakeAnswer ==
    /\ docker = "returned"
    /\ docker' = "idle"
    /\ ofDocker' = FALSE
    /\ matches' = 0
    /\ defaultRoot' = FALSE
    /\ above' = [l \in 1..Levels |-> "other"]
    /\ level' = 1
    /\ searchErr' = FALSE
    /\ isDocker' = "none"
    /\ unanswered' = FALSE
    /\ UNCHANGED <<daemon, session>>

DaemonChanges ==
    /\ daemon' = ~daemon
    /\ UNCHANGED <<container, docker, level, searchErr, session, isDocker, unanswered>>

-----------------------------------------------------------------------------
(* isDockerRootfs *)

DefaultRoot ==
    /\ \/ defaultRoot /\ GotoDocker("rootfs", "returned") /\ isDocker' = "yes"
       \/ ~defaultRoot /\ GotoDocker("rootfs", "search") /\ UNCHANGED isDocker
    /\ UNCHANGED <<container, daemon, level, searchErr, session, unanswered>>

\* One level up finds the data root.
FindDataRoot ==
    /\ above[level] \in {"dataRoot", "crowdedRoot"}
    /\ GotoDocker("search", "returned")
    /\ isDocker' = "yes"
    /\ UNCHANGED <<container, daemon, level, searchErr, session, unanswered>>

\* Nothing there, or the four names are not among those that were read.
SearchOn ==
    /\ above[level] \in {"other", "crowdedRoot"}
    /\ GotoDocker("search", IF level = Levels THEN "connect" ELSE "search")
    /\ level' = IF level = Levels THEN level ELSE level + 1
    /\ UNCHANGED <<container, daemon, searchErr, session, isDocker, unanswered>>

\* Open or Readdirnames fails, the latter also for an empty directory.
SearchFails ==
    /\ above[level] = "unreadable"
    /\ GotoDocker("search", "connect")
    /\ searchErr' = TRUE
    /\ UNCHANGED <<container, daemon, level, session, isDocker, unanswered>>

-----------------------------------------------------------------------------
(* DockerConnect and the question *)

\* client.New, which may refuse its configuration.
NewClient ==
    /\ \/ GotoDocker("connect", "info") /\ session' = TRUE /\ UNCHANGED unanswered
       \/ GotoDocker("connect", "unreachable") /\ unanswered' = TRUE /\ UNCHANGED session
    /\ UNCHANGED <<container, daemon, level, searchErr, isDocker>>

\* A plausible bug: a failed Info leaves the client open.
InfoKeepingClient ==
    /\ \/ daemon /\ GotoDocker("info", "list") /\ UNCHANGED <<session, unanswered>>
       \/ ~daemon /\ GotoDocker("info", "unreachable") /\ unanswered' = TRUE /\ UNCHANGED session
    /\ UNCHANGED <<container, daemon, level, searchErr, isDocker>>

\* Info; when it fails the client is closed again.
Info ==
    /\ \/ daemon /\ GotoDocker("info", "list") /\ UNCHANGED <<session, unanswered>>
       \/ ~daemon /\ GotoDocker("info", "unreachable") /\ unanswered' = TRUE /\ session' = FALSE
    /\ UNCHANGED <<container, daemon, level, searchErr, isDocker>>

\* A plausible bug: no match is no error.
GetImageIDLeniently ==
    /\ GotoDocker("list", "disconnect")
    /\ unanswered' = (unanswered \/ ~daemon)
    /\ isDocker' = IF daemon /\ matches <= 1 THEN "yes" ELSE "no"
    /\ UNCHANGED <<container, daemon, level, searchErr, session>>

\* ContainerGetImageID: a failed request counts like a container not found.
GetImageID ==
    /\ GotoDocker("list", "disconnect")
    /\ unanswered' = (unanswered \/ ~daemon)
    /\ isDocker' = IF daemon /\ matches = 1 THEN "yes" ELSE "no"
    /\ UNCHANGED <<container, daemon, level, searchErr, session>>

\* The deferred Disconnect.
Disconnect ==
    /\ GotoDocker("disconnect", "returned")
    /\ session' = FALSE
    /\ UNCHANGED <<container, daemon, level, searchErr, isDocker, unanswered>>

\* Docker is unreachable: the result of the search, which found nothing.
FallBack ==
    /\ GotoDocker("unreachable", "returned")
    /\ isDocker' = IF searchErr THEN "error" ELSE "no"
    /\ UNCHANGED <<container, daemon, level, searchErr, session, unanswered>>

DockerNext ==
    \/ IsDocker \/ TakeAnswer \/ DaemonChanges
    \/ DefaultRoot \/ FindDataRoot \/ SearchOn \/ SearchFails
    \/ NewClient \/ Info \/ GetImageID \/ Disconnect \/ FallBack

-----------------------------------------------------------------------------
(***************************************************************************)
(* "ContainerIsDocker returns true if the given container ID corresponds   *)
(* to a Docker container", as far as it goes: a no for a Docker container  *)
(* means that the daemon left a request unanswered, or that the id is      *)
(* ambiguous; a yes for another one that its rootfs lies in what looks     *)
(* like a data root; and an error that neither the search nor the daemon   *)
(* came to a conclusion.                                                   *)
(***************************************************************************)
DockerAnswer ==
    docker = "returned" =>
      CASE isDocker = "no"  -> ofDocker => unanswered \/ matches > 1
        [] isDocker = "yes" -> \/ ofDocker \/ defaultRoot
                               \/ \E l \in 1..level :
                                     above[l] \in {"dataRoot", "crowdedRoot"}
        [] OTHER            -> unanswered /\ \E l \in 1..level : above[l] = "unreadable"

(***************************************************************************)
(* Every way out of the call closes the session with the daemon, and the   *)
(* daemon is not asked when the search was conclusive: "it avoids a Docker *)
(* API query that can block for seconds".                                  *)
(***************************************************************************)
SessionsClosed ==
    /\ docker = "returned" => ~session
    /\ session => ~defaultRoot /\ \A l \in 1..level : above[l] # "dataRoot"
=============================================================================
