------------------------------ MODULE MountTable ------------------------------
(***************************************************************************)
(* Packages mount and overlayUtils: what they read from an entry of        *)
(* /proc/<pid>/mountinfo. An option is a record of its key and the values  *)
(* after the "=" (none for a flag); the order of options never matters, so *)
(* a list of options is a set.                                             *)
(***************************************************************************)
EXTENDS Integers, Sequences

Flag(f) == [key |-> f, val |-> <<>>]

\* optToFlag: the options that have a flag; rw is the absence of one.
FlagNames == {"ro", "nodev", "noexec", "nosuid", "noatime", "nodiratime",
              "relatime", "strictatime", "sync"}
OptionsToFlags(opts) == {o.key : o \in opts} \intersect FlagNames

ProperMntOpts == {Flag(f) : f \in FlagNames \union {"rw"}}

\* parseInfoFile: of the optional fields only the first is kept.
Optional(fields) == IF fields = <<>> THEN "" ELSE Head(fields)

\* A plausible bug: a slave mount counts as private.
PropagationWithoutMaster(optional) ==
    CASE optional = "shared"     -> "shared"
      [] optional = "unbindable" -> "unbindable"
      [] OTHER                   -> "private"

Propagation(optional) ==
    CASE optional = "shared"     -> "shared"
      [] optional = "master"     -> "slave"
      [] optional = "unbindable" -> "unbindable"
      [] OTHER                   -> "private"

\* The per mount options mi.Opts are split too, and not used any further.
GetMountOpt(mi) ==
    [Opts      |-> mi.VfsOpts \ ProperMntOpts,
     Flags     |-> OptionsToFlags(mi.VfsOpts \intersect ProperMntOpts),
     PropFlags |-> Propagation(mi.Optional)]

\* The values of an option, or the empty string, split into one empty layer.
ValueOf(mntOpts, key) ==
    IF \E o \in mntOpts.Opts : o.key = key
    THEN (CHOOSE o \in mntOpts.Opts : o.key = key).val
    ELSE <<"">>

GetLowerLayers(mntOpts) == ValueOf(mntOpts, "lowerdir")
GetUpperLayer(mntOpts) == ValueOf(mntOpts, "upperdir")[1]
GetWorkLayer(mntOpts) == ValueOf(mntOpts, "workdir")[1]
GetVolatile(mntOpts) == Flag("volatile") \in mntOpts.Opts

-----------------------------------------------------------------------------
(* Lookups in a table, the sequence of the entries in mounting order. *)

FindMount(mountpoint, mounts) ==
    \E i \in DOMAIN mounts : mounts[i].Mountpoint = mountpoint

MountedWithFs(mountpoint, fs, mounts) ==
    \E i \in DOMAIN mounts :
        mounts[i].Mountpoint = mountpoint /\ mounts[i].Fstype = fs

\* The first entry of the table, not the mount on top of the others.
GetMountAt(mountpoint, mounts) ==
    LET at == {i \in DOMAIN mounts : mounts[i].Mountpoint = mountpoint}
    IN  mounts[CHOOSE i \in at : \A j \in at : i <= j]

-----------------------------------------------------------------------------
(* The kernel (external): an overlay mount as it was asked for, and the    *)
(* fields of mountinfo that tell of it.                                    *)

InfoOf(ovl, mountpoint) ==
    [Mountpoint |-> mountpoint,
     Fstype   |-> "overlay",
     VfsOpts  |-> {Flag(f) : f \in ovl.flags}
                    \union (IF "ro" \in ovl.flags THEN {} ELSE {Flag("rw")})
                    \union {[key |-> "lowerdir", val |-> ovl.lower]}
                    \union (IF ovl.upper = "" THEN {}
                            ELSE {[key |-> "upperdir", val |-> <<ovl.upper>>],
                                  [key |-> "workdir", val |-> <<ovl.work>>]})
                    \union (IF ovl.volatile THEN {Flag("volatile")} ELSE {}),
     Opts     |-> {Flag(f) : f \in ovl.mountFlags},
     Optional |-> Optional(ovl.optional)]

\* Some other mount.
InfoOfOther(mountpoint) ==
    [Mountpoint |-> mountpoint, Fstype |-> "ext4", VfsOpts |-> {Flag("rw")},
     Opts |-> {Flag("rw")}, Optional |-> ""]
=============================================================================
