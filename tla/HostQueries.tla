----------------------------- MODULE HostQueries -----------------------------
(***************************************************************************)
(* A caller of the packages that only look at the host: it asks            *)
(* ContainerIsDocker about a container, then one question after another    *)
(* about the overlay mounted on a path, the distribution with the place of *)
(* its kernel headers, and containerd's data root. The answers are         *)
(* compared with what was put into the tables and files.                   *)
(***************************************************************************)
EXTENDS DockerCheck, MountTable, HostFiles

CONSTANTS
    Layers,         \* layers of an overlay, as path names
    MaxLower        \* bound on the lower layers of an overlay

ASSUME HostQueriesAssumption == MaxLower \in Nat /\ "" \notin Layers

VARIABLES
    query,          \* the last question and what is on the host (external)
    answer          \* its answer

vars == <<dockerVars, query, answer>>

\* Overlays, mounted with nosuid as a flag of the mount itself.
Overlays ==
    [lower : UNION {[1..n -> Layers] : n \in 1..MaxLower}, upper : Layers \union {""},
     work : {"w"}, volatile : BOOLEAN, flags : SUBSET {"ro", "sync"}, mountFlags : {{"nosuid"}},
     optional : {<<>>, <<"shared">>, <<"master">>, <<"shared", "master">>, <<"unbindable">>}]

\* Mount tables: an overlay on "/a", other mounts on "/a" or "/b".
Tables == {<<"overlay">>, <<"/b", "overlay">>, <<"overlay", "/a">>, <<"/a", "overlay">>}

Lines == [key : {"ID", "NAME"}, val : {"", "arch", "redhat"}, quote : {"none"}]
           \union {[key |-> "ID", val |-> "arch", quote |-> "single"]}
ReleaseFiles == [state : {"there"}, lines : UNION {[1..n -> Lines] : n \in 0..2}]
                  \union [state : {"absent", "unreadable"}, lines : {<<>>}]
ConfigFiles == [state : {"there"}, root : {"", "/r1", "/r2"}]
                 \union [state : {"absent", "unreadable", "malformed"}, root : {""}]

-----------------------------------------------------------------------------
Nothing == [of |-> "nothing"]

Init == DockerInit /\ query = Nothing /\ answer = Nothing

Idle == docker = "idle" /\ query = Nothing

\* One question at a time, asked when the caller is idle.
Ask(of, on, result) ==
    /\ query' = [of |-> of, on |-> on]
    /\ answer' = [of |-> of, is |-> result]
    /\ UNCHANGED dockerVars

\* The lookup of the mount at a path, then of its options.
AskOverlay == \E ovl \in Overlays, table \in Tables :
    LET mounts == [i \in DOMAIN table |->
                      IF table[i] = "overlay" THEN InfoOf(ovl, "/a") ELSE InfoOfOther(table[i])]
        mi == GetMountAt("/a", mounts)
        opts == GetMountOpt(mi)
    IN  Ask("overlay", [ovl |-> ovl, table |-> table],
            [found |-> FindMount("/a", mounts),
             overlay |-> MountedWithFs("/a", "overlay", mounts),
             fs |-> mi.Fstype,
             lower |-> GetLowerLayers(opts), upper |-> GetUpperLayer(opts),
             work |-> GetWorkLayer(opts), volatile |-> GetVolatile(opts),
             flags |-> opts.Flags, prop |-> opts.PropFlags])

AskDistro == \E files \in [1..2 -> ReleaseFiles] :
    LET distro == GetDistroPath(files)
    IN  Ask("distro", files,
            [val |-> distro.val, err |-> distro.err, headers |-> HeaderDir(distro.val)])

AskDataRoot == \E files \in [1..3 -> ConfigFiles] : Ask("dataRoot", files, GetDataRoot(files))

Done ==
    /\ query # Nothing
    /\ query' = Nothing
    /\ answer' = Nothing
    /\ UNCHANGED dockerVars

Next ==
    \/ query = Nothing /\ DockerNext /\ UNCHANGED <<query, answer>>
    \/ Idle /\ (AskOverlay \/ AskDistro \/ AskDataRoot)
    \/ Done

Spec == Init /\ [][Next]_vars

-----------------------------------------------------------------------------
(***************************************************************************)
(* "GetMountOpt returns the mount options string, mount flags, and mount   *)
(* propagation flags of the overlayfs mount": mounting again with them,    *)
(* and with the layers read from them, gives an overlay of the same layers *)
(* and super block flags, that sends and receives mount events as before,  *)
(* but for a mount that is both shared and a slave. An overlay without an  *)
(* upper layer has the empty name for it; the flags of the mount itself    *)
(* (nosuid) are lost. Of mounts stacked on one path, GetMountAt reports    *)
(* the lowest, so an overlay on top of another mount is not found by it.   *)
(***************************************************************************)
OverlayRemounts ==
    query.of = "overlay" =>
      LET ovl == query.on.ovl
          was == {ovl.optional[i] : i \in DOMAIN ovl.optional}
          is == answer.is
      IN  /\ is.found /\ is.overlay
          /\ is.fs = IF query.on.table[1] = "/a" THEN "ext4" ELSE "overlay"
          /\ is.fs = "overlay" =>
                /\ is.lower = ovl.lower
                /\ is.upper = ovl.upper
                /\ is.work = IF ovl.upper = "" THEN "" ELSE ovl.work
                /\ is.volatile = ovl.volatile
                /\ is.flags = ovl.flags
                /\ is.prop = "shared" <=> "shared" \in was
                /\ is.prop = "slave" <=> was = {"master"}
                /\ is.prop = "unbindable" <=> "unbindable" \in was

First(S) == CHOOSE i \in S : \A j \in S : i <= j

\* The lines of a release file that have an ID.
Ids(file) == {k \in DOMAIN file.lines : file.lines[k].key = "ID" /\ file.lines[k].val # ""}

DistroDecides ==
    query.of = "distro" =>
      LET files == query.on
          is == answer.is
          having == {i \in 1..2 : Ids(files[i]) # {}}
          line == files[First(having)].lines[First(Ids(files[First(having)]))]
      IN  IF having = {}
          THEN is.val = "" /\ (is.err <=> files[2].state # "there")
          ELSE /\ ~is.err
               /\ line.quote = "none" =>
                     /\ is.val = line.val
                     /\ line.val = "arch" => is.headers = "/lib/modules"
                     /\ line.val = "redhat" => is.headers = "/usr/src/kernels"

DataRootDecides ==
    query.of = "dataRoot" =>
      LET is == answer.is
          there == {i \in 1..3 : query.on[i].state # "absent"}
          file == query.on[First(there)]
      IN  IF there = {}
          THEN is = Ok(DefaultDataRoot)
          ELSE /\ is.err <=> file.state \in {"unreadable", "malformed"}
               /\ file.root # "" => is.val = file.root

(***************************************************************************)
(* Both settings come from the first file that has them. The distribution  *)
(* is found behind files without an ID and unreadable ones; containerd's   *)
(* configuration fails on the first existing file that cannot be used, and *)
(* nothing behind it is looked at. An ID in single quotes keeps them.      *)
(***************************************************************************)
FirstFileDecides == DistroDecides /\ DataRootDecides
=============================================================================
