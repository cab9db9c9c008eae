# Verification of sysbox-libs

sysbox-libs is the collection of Go packages that the Sysbox container runtime
(sysbox-mgr, sysbox-fs, sysbox-runc) shares. There is no single program: each
package is a component, with state of its own, that a daemon or the runtime
calls. This directory holds TLA+ models of the packages whose behaviour is hard
to test, the TLC configurations that check them on small instances, and proofs
checked by TLAPS for every instance.

Paths below are relative to the repository, with `src/` in front as in
`PROJECT.json`, which maps every definition to the lines it models.

## 1. Inventory

| Component | State | Operations | What is hard | What makes it correct |
|---|---|---|---|---|
| `fileMonitor` | table of files, `running`, event channel, stop channel, one goroutine at a time | `New`, `Add`, `Remove`, `Events`, `Close`; the polling goroutine | calls fall between the goroutine's critical sections; a goroutine that starts and ends on demand; a caller who does not read | one goroutine, lock free during sends, each removal reported once per `Add`, `Close` ends it |
| `pidmonitor` | table of pids, event channel, command channel, one goroutine for ever | `New`, `AddEvent`, `RemoveEvent`, `WaitEvent`, `Close`; the polling goroutine | the same, plus several clients in calls of many steps, pid reuse, a stop that competes with polls | the same; `Close` wakes somebody who waits |
| `linuxUtils` (user-namespace process) | a parent, a child, `/proc/<child>/{uid,gid}_map` | `CreateUsernsProcess`, `ShmSysctlUserNamespaced` | two processes without a lock, bounded polling, failures and death at every step | no function without mappings, no child left, right answers, everybody ends |
| `linuxUtils` (queries) | none | distribution, kernel release and version, headers, modules | fallback from file to file; version comparisons | results match the files |
| `idMap` | mounts of the host | `IDMapMount`, `IDMapMountSupported`, `OverlayfsOnIDMapMountSupported`, `IDMapMountSupportedOnPath` | a sequence of mount calls whose middle may fail; a host check with a child process and a clean-up on every path; version tests in two places | one mount replaced or nothing changed; nothing left behind but what the clean-up failed to remove; answers that fit the kernel |
| `shiftfs` | mounts of the host | `Mark`, `Mount`, `Unmount`, `Mounted`, `ShiftfsSupported`, `ShiftfsSupportedOnOverlayfs` | clean-up of the host check on each error path, in the right order | nothing is left mounted but where an unmount failed; a yes is right |
| `idShiftUtils` | owners, set-id bits and ACLs of a directory tree, `hardLinks` within a call | `ShiftIdsWithChown`, `GetDirIDs` | hard links in any order, modes and ACLs changed by other system calls than owners, wrap-around, failure in the middle | each inode shifted once, set-id bits kept, up and down undo each other |
| `capability` | globals about the kernel; words of bits per capability set; the thread's sets or a file's attribute in the kernel | `NewPid`, `NewFile`, `Load`, `Get`, `Empty`, `Full`, `Set`, `Unset`, `Fill`, `Clear`, `Apply` | goroutines that initialise the package at once; word boundaries, sets that limit each other in the kernel, partial application, version 1 and 2 attributes | objects of `NewPid` know the kernel's limits; what was set reads back and is what `Apply` gives the kernel |
| `utils` (pid file) | a file | `CheckPidFile`, `CreatePidFile`, `DestroyPidFile` | check-then-write between processes, crashes, reused pids | one instance serves, and the file names it; what an overlap of two breaks heals |
| `utils` (rest) | none | slices, environment, files, paths | nothing a unit test does not reach | - |
| `mount` | none (reads `/proc/<pid>/mountinfo`) | parsing and lookups | stacked mounts, optional fields | lookups find what is there |
| `overlayUtils` | none | splitting the options of an overlay mount | three kinds of options in two fields | an overlay can be mounted again from what was read |
| `dockerUtils`, `containerdUtils` | a session with the Docker daemon | `ContainerIsDocker`, `DockerConnect`, `Disconnect`, `ContainerGetImageID`, `ContainerGetInfo`, `ListVolumesAt`; `GetDataRoot` | a daemon that comes and goes, two sources of one answer | answers as good as the sources; no session left |
| `formatter`, `pidfd` | none | formatting; system call wrappers | - | - |

Interactions. The packages call each other little: `shiftfs`, `idMap` and the
shared-memory check of `linuxUtils` all use `CreateUsernsProcess`, and that is
modelled as one system with several kinds of caller (`UsernsProcess`). The two
mount packages act on the same mounts and are called by one runtime, and so they
are one system too (`HostMounts`); `idMap` takes the kernel's version from
`linuxUtils` (`KernelVersion`), and `overlayUtils` works on the entries of
`mount` (`MountTable`). The components meet their
environment instead: the file system and `/proc` (which change at any time), the
kernel's rules for chown, capset and namespaces, and callers in other
goroutines. Each model has the environment as actions or as nondeterministic
results, marked external in `PROJECT.json`.

`fileMonitor` and `pidmonitor` are two implementations of one idea, so they have
one abstract specification, `RemovalNotifier`, that both are shown to implement.

## 2. Modules

| Module | Role |
|---|---|
| `RemovalNotifier` | what both monitors promise, with no goroutine, lock, poll or channel |
| `FileMonitor`, `FileMonitorProofs` | `src/fileMonitor`, its refinement of `RemovalNotifier`, proofs |
| `PidMonitor`, `PidMonitorProofs` | `src/pidmonitor`, its refinement of `RemovalNotifier`, proofs |
| `UsernsProcess`, `UsernsProcessProofs` | `CreateUsernsProcess` and its three callers, proofs |
| `PidFile`, `PidFileProofs` | `src/utils/pidfile.go`, proofs |
| `IdShift`, `MCIdShift`, `IdShiftProofs` | `ShiftIdsWithChown`; the symmetry and offsets for TLC; proofs |
| `KernelVersion` | the two parsers and comparisons of kernel releases |
| `HostMounts`, `MCHostMounts`, `HostMountsProofs` | `IDMapMount`, the checks of `idMap` and of `shiftfs`; the kernels for TLC; proofs |
| `Capability` | both implementations of the `Capabilities` interface |
| `CapabilityInit` | the initialisation of that package by several goroutines |
| `CapabilityProofs` | proofs about both |
| `DockerCheck` | `ContainerIsDocker` and its session with the daemon |
| `MountTable` | lookups in mountinfo, options and layers of an overlay, as operators |
| `HostFiles` | os-release and containerd's configuration, as operators |
| `HostQueries`, `HostQueriesProofs` | a caller of the three modules above; proofs about them |

All state machines follow the same conventions. Constants carry named
assumptions. A step of the model is what the code does between two points where
another party can get in; where the code holds a lock and cannot block, a whole
call is one step. History variables (`asked`, `original`, `before`, `want`,
`atApply`, `results`, `yes`, `failed`, `leaked`, `overlapped`, `unanswered`) only record; no guard reads
them, except that `Len(results)` bounds the calls of `IdShift`, as `calls` does in
`HostMounts`. Definitions commented
"A plausible bug" are alternatives to a definition below them; no specification
uses them. They serve to show that the properties notice such a bug.

### RemovalNotifier

`watched` items may be detected as gone; they form a `batch`, which is published
once and then retired. An `Add` of an item of the current batch is absorbed: both
packages delete the batch from their table in a second critical section, after
the send. That is a real weakness (section 6); the specification says exactly
how far it goes, so that the refinement shows nothing else is lost or repeated.

### FileMonitor

`Add`, `Remove`, `Close` and the start of a receive are single steps: each is one
critical section without a blocking operation (`Add` blocks, as a disabled
action, while the scan holds `mu`). The goroutine's program counter has a value
for the select, the scan with one `os.Stat` per step, the send, the second
critical section (`retire`), the empty check, the final send of the stop case,
and the deferred reset of `running`. `TakeStop` is possible whenever the stop
channel is closed, and so is a poll: Go's `select` picks at random. Lists of
events are sets, because they are built in map order. `Threads` are identities
for goroutines: two of them are enough to see a second goroutine appear. The
capacity of the event channel is chosen at the start (`bufSize`, from
`EventBufSizes`), as `Cfg.EventBufSize` is by the caller of `New`.

### PidMonitor

The lock is taken per event of an `AddEvent` or `RemoveEvent`, so these calls are
sequences of steps (`CallWithList`, `AddOne`/`RemoveOne`, `ReturnFromList`), and
clients' calls interleave. An event of an unknown type stops the list with what
came before applied. `WaitEvent` and `Close` wait for the goroutine. `Exit` is
the only event type of the package, so the event vector of a pid is its presence
in the table.

### UsernsProcess

`parent` and `child` are two program counters. `Callers` selects the kind of
caller: a "probe" gives the child a function that becomes root, tries the feature
and exits with the outcome (`ShmSysctlUserNamespaced`,
`runShiftfsCheckOnHost`); a "pause" (`runIDMapMountCheckOnHost`) uses the child's
namespace, kills and reaps it. The child polls each map file `Attempts` times (30
in the code). The parent may die at any step after the clone; the kernel then
kills a child that has called `prctl`. The fall-through of a function that
returns, into the parent's half of the code with pid 0, is in the model
(`PauseReturns`, `KillGroup`).

### PidFile

Every system call of `CreatePidFile` is a step. A crash leaves what is there;
pids are reused by instances and by other programs. Instances start at any time:
the code has no lock between the check and the write, and the model has none
either. `overlapped` records that two were inside `CreatePidFile` at once; it is
reset when no instance is active any more. The properties exempt that time only,
whatever the overlap left in the file.

### IdShift

One id stands for user and group, which take the same path; ids wrap at
`IdRange`, and the id -1 is the kernel's "leave alone". Each visited name is an
`lchown` (which clears the set-id bits), then, as the code goes on, a chmod, the
access ACL and the default ACL, each a step that may fail or be the last before a
crash (`Halt`). The walk visits names in any order. A symlink that cannot be
chowned is skipped, which the code does for symlinks only.

### HostMounts

One call at a time, of any kind, any number of times (up to `MaxCalls`). A step is
one system call, which may fail, or one deferred call. `mounts` has the mounts
stacked on three directories: `target` for the callers of `IDMapMount`, `test` and
`lower` for the temporary directories of the checks. `deferred` holds the
deferred calls of the check; the order in which they run is part of the model
(`Rank`, `Runs`). The unmounts and removals of the clean-up may fail, and the code
ignores it: `failed` records which did. `RemoveAll` goes round a directory that
still has a mount, and may fail by itself. The child is `UsernsProcess` in short: it runs, then
exits or is killed. What the kernel can do (`Since`, `Mappable`, `shiftfs`) is
external; the release it reports may be one that cannot be parsed.
`IDMapMountSupportedOnPath` looks at the file system on top of `target`.

### Capability

`obj` holds the words of bits, `want` the sets that edits and loads left in it. The
two implementations share the operators of words; `version` 3 is an object for the
calling thread, 0, 1 or 2 one for a file. `limits` says whether `CAP_LAST_CAP` and
`capUpperMask` are the kernel's: `newFile` does not initialise the package, a read of
`cap_last_cap` may have failed, and another goroutine may run `initialize` at any time
(`InitializePackage`). An attribute has a version, a number of pairs of words and a
flag; it may be malformed, getxattr may fail, and the kernel strips the attribute of
a file that is written to (`StripAttr`). `Load` of a file therefore has four outcomes,
and a failed one follows the code in what it has overwritten by then
(`LoadMalformed`), or in the `magic` that an earlier call left (`LoadRefused`). `Apply` on a thread is three groups of
system calls, as steps: bounding set, `capset`, ambient set, with the kernel's rules
for each. A refused `capset` ends the call; refused raises of ambient
capabilities are dropped, as in the code. The caller has locked its goroutine to
its thread, so nobody else changes the thread's sets between the steps.

### CapabilityInit

Only `pkgInitialized` is under the mutex. Each of the other assignments of
`initialize` and `initLastCap` is a step, so that goroutines interleave between them
and one may read a global that another writes a second time. The data race is
modelled with whole words, the values a race on aligned words can give; a
goroutine sees the writes in their order, as it synchronises on the mutex once it
finds the package initialised. The specification is `PkgSpec`: its names differ from
those of `Capability`, as `CapabilityProofs` extends both modules.

### DockerCheck, MountTable, HostFiles, HostQueries

`DockerCheck` is one call of `ContainerIsDocker` after another, with a step for each
directory and each request; the daemon may start or stop answering at any time.
A directory with more than 30 names may hide the four names searched for.
`MountTable` and `HostFiles` are operators: options are records instead of
strings, lists of options are sets where their order never matters, files are
sequences of lines. `HostQueries` asks each question about everything in small
sets of overlays, tables and files, and its properties compare the answers with a
definition from the other side: what was mounted, and what is in the files.

## 3. Runs

State counts are of complete searches. Every property of a passing run has a
mutant in `PROJECT.json`: a plausible bug under which the same run fails.

| Run | Instance | What it shows |
|---|---|---|
| `file_monitor` | 2 files, 2 goroutine identities, channel of 0 or 1 list; 66,992 states | at most one goroutine and an exact `running`; no file reported unasked; refinement of `RemovalNotifier`; the lock is always released; a removal is reported while a goroutine serves; `Close` ends the goroutine |
| `pid_monitor` | 1 pid, 3 clients: 2 that wait, 2 that edit with lists of up to 2 entries, 1 that closes; channel of 1; 93,952 states | no pid reported unasked; refinement; list calls return; exits are reported; `Close` ends the goroutine, and one of the clients that wait gets the last list |
| `userns_process` | 3 attempts per map file, both kinds of caller; 840 states | section 2's safety properties; the call returns; orphans end |
| `pid_file` | 3 pids; 79,788 states | unless two instances overlapped and one active since is still there, one instance serves and the file names it |
| `id_shift` | 4 names for 3 inodes (a directory, a file, a symlink), ids modulo 8, offsets 3 and -3, 2 calls; 651,134 states | owners shifted once, complete success, set-id bits, undo |
| `capability` | words of 2 bits, last capability 2, 3 calls, with default or kernel limits, 8 attributes besides none; 1,358,144 states | words read back as sets; effect of `Apply`, and of an `Apply` that fails |
| `host_mounts` | 5 kernels around the versions the code asks for, 3 file systems, 3 calls; 1,495,896 states | checks leave no child, and mounts and directories exactly where their clean-up failed; `IDMapMount` replaces or stacks one mount, and its failures are known; answers are right; two positive answers are enough |
| `capability_init` | 3 goroutines, last capability 40; 5,409 states | whoever gets an object has the kernel's version, last capability and mask |
| `host_queries` | 3 levels of directories; 2 layers, 2 lower layers, 4 tables; 2 os-release files of up to 2 lines; 3 configuration files; 17,204 states | the answers of `ContainerIsDocker`, its sessions; overlays can be mounted again; which file decides |
| `file_monitor_exit_race` | violation | section 6, 1 |
| `id_shift_acl` | violation | section 6, 2 |
| `pid_monitor_waiters` | violation; the same clients, lists of 1 | section 6, 3 |

Why these bounds are enough to be interesting:

- The monitors: in `FileMonitor` two items let one be in a batch while the other is
  added, removed or scanned; a capacity of 1 is reached at once, and 0 makes the send
  wait for the receiver. Two goroutine identities let a second goroutine start, if the
  code lets it. `PidMonitor` spends its states on clients and has one pid: two clients
  are inside list calls at once (`Editors`), and lists of two entries let the other one in
  between two entries and hold an entry of an unknown type before or after a good
  one. Two waiting clients tell "one of them returns" from "each of them returns".
  Batches of several pids are like those of several files, and the proofs are for any
  number of pids.
- `UsernsProcess`: attempts only count, so 3 stands for 30: the counter can run
  out before, between and after the two writes. The proof is for any number.
- `PidFile`: three pids allow an instance that serves, one that starts, and
  another program that has a reused pid, or a stale pid in the file besides; or two
  that overlap and a third that comes when they are gone.
- `IdShift`: four names are a directory, a symlink and a file with two links, or
  the symlink with two; hard links are visited before and after each other and everything
  else. Owner 4 with offset 3 is the id -1 (7 of 8), and -3 from the ACL id 0
  wraps. Names are symmetric: nothing tells them apart, and the run has invariants
  only.
- `Capability`: the capability 2 is in the upper word, with a bit above it that
  the kernel does not have. Three calls are enough to load, edit and apply, or to
  apply, edit and apply again; the initial threads (with and without CAP_SETPCAP,
  with and without a bounding set, inheritable and ambient capabilities) replace
  longer histories. The attributes a file may start with are every combination of
  version and size that `getVfsCap` tells apart and that has words, with and without
  the flag.
- `HostMounts`: the kernels are below, at and above each version asked for, with
  6.3, which a comparison field by field takes for older than 5.19. Two calls make the
  two positive answers of `TwoYesesAreEnough`, and a third one can be an
  `IDMapMount` before or between them, or a second on its own clone.
- `CapabilityInit`: three goroutines let one have an object while another is
  inside `initialize` and a third begins. 40 is in the upper word, as on current
  kernels.
- `HostQueries`: three levels stand for five: the first, one between and the
  last. Two layers tell an order of lower layers from its reverse.

Deadlock is checked where somebody can always act (callers of the monitors and
the processes of `PidFile` can). It is not checked in `UsernsProcess`, where a
call ends, and in `IdShift`, `Capability` and `HostMounts`, where the bound on the
calls ends the behaviour.

## 4. Fairness

Safety is checked and proved without fairness. For liveness:

- Goroutines and processes that can run do run: weak fairness of the monitor
  goroutines, of parent and child, of a return from a wait. The Go and Linux
  schedulers guarantee it. The parent is not obliged to die.
- `select` picks among ready cases at random (Go specification), so a closed stop
  channel is taken in the end though polls are always ready too: strong fairness
  of `TakeStop` in `FileMonitor`. In `PidMonitor` the goroutine receives the stop
  without blocking before each poll, so weak fairness is enough.
- Go's mutex hands itself to a waiter that starves for a millisecond, so the
  steps of `AddEvent` and `RemoveEvent` that need the lock are strongly fair.
- No caller is obliged to call anything. Where a property needs a caller who
  keeps receiving, that is a premise of the property (`CallerReceives`,
  `WaitersWait`) and not part of the specification; the deadlock-freedom
  properties `MutexReleased` and `ListCallsReturn` go without it.

## 5. Proofs

All theorems are proved for every value of the constants, from the named
assumption of the module. Every safety property of a passing run, and both
refinements, are theorems.

- `FileMonitorProofs`. `OneMonitorAlways` needs that the lock is held exactly
  during the scan (`LockInv`): `Add` reads and writes `running` in one critical
  section and the only other writer is the goroutine's last step. `Refinement` also
  needs `ScanInv` (what a scan has yet to look at, and what it has found, is in
  the table while it holds the lock), from which the refinement mapping of a
  single active goroutine follows; a step of the code is a step of the abstract
  notifier or invisible. `NoUnaskedEventAlways` is the theorem of the abstract
  specification, read through the mapping: by `NotifierPromise` what is watched, or
  detected and not published, was asked for since its last event, which is inductive
  with `watched \intersect batch = {}`.
- `PidMonitorProofs`. The same argument for one goroutine and many clients, whose
  list calls map to one abstract step per entry.
- `UsernsProcessProofs`. `ExecHasUidMapAlways`, `NoChildLeftAlways` and
  `YesIsTrueAlways`, for any number of attempts. The invariant adds what each
  process knows from its own progress: a mapping found in either file implies the
  uid mapping, as it is written first; root in the namespace implies the mappings.
- `PidFileProofs`. `OneServingAlways` and `ServingIsNamedAlways` assume nothing of how
  instances start. `CheckInv` carries the argument while no two have overlapped: an
  instance between the read of the file and the look at the program has read the
  pid of whoever still serves, and one past the check has nobody to disturb. An
  overlap breaks it; it holds again when no instance is active (`IdleIsOrderly`), as it
  asks nothing of the content of the file.
- `IdShiftProofs`. `OwnerShiftedOnceAlways`, for every tree, link structure, id
  width, offset and point of failure. `LinksInv` relates `hardLinks` to what was
  visited: an inode with many links that was visited has its shifted owner there, and
  no other inode has an entry; `AtInv` says where the callback is.
  `SetIdRestoredAlways` and `SuccessIsCompleteAlways` use a second invariant,
  `DoneInv`: during a call, and after one that succeeded, the set-id bits and the
  lists of every inode are what the call found, or what it owes them, but for the
  inode the callback is at, whose pending steps are named; and only a call that has
  visited every name succeeds. A name still to be visited is the first of its inode
  unless the inode has several (`OnlyName`), so that a list is shifted once. A halt
  leaves the invariant's premise, and the next call starts from the disk as it is.
  `UndoRestoresAlways` has to count: a list is shifted once per name of its inode
  (section 6, 2), so `ListsInv` says that it is `AclShifts(i)` offsets away from what the
  call found, the number of names visited, less one while the callback is on its way
  to the list. A tree is therefore assumed to be finite. `CallDone` is what a call
  that succeeds makes of a tree; `CallsInv` has it between the original tree and the one the
  second call starts from, and two of them with opposite offsets cancel
  (`BackAgain`), which rests on lemmas about remainders (`ShiftTwice`, `ShiftAndBack`).
- `HostMountsProofs`. Four theorems, for any kernels and any number of calls.
  `NothingLeftAlways` needs to know at each step what is deferred (`Deferring`) and
  how deep each directory is in mounts (`Depth`: exactly as deep as there are
  unmounts due, ahead or failed), from which `RemoveAll`, which runs last (`RunsLast`),
  finds in its way only what a failed unmount left. `TargetMountAlways` follows `target` from one call's step to the next (`Target`).
  `AnswerIsTrueAlways` and `TwoYesesAreEnoughAlways` rest on what each step of a
  check has shown (`Shown`), and on the lemma that both comparisons of versions are
  the kernel's order (`Comparisons`).
- `CapabilityProofs`, of `Capability`. The lemmas at the start relate words of bits to
  sets of capabilities, for any width of a word and any last capability in the
  upper one: what a set or cleared bit does, when a word is empty, and that `Full`
  asks for the capabilities its mask stands for (`FullIs`): the kernel's, or with the
  default mask those of all bits. With them
  `ReadersAgreeAlways` follows from `WantIsObj`, that every edit and load, failed ones
  included, changes the words as it changes the sets they stand for. `AppliedTakesEffectAlways` and `FailedApplyKeepsCapsAlways`
  need what an `Apply` has done before each group of system calls (`UnderWay`), and
  that the kernel keeps the ambient set within two others (`AmbientWithin`), as
  `capset` may take capabilities out of it. `FileHasSetsAlways` is in the
  same invariant; it is about the permitted and inheritable sets and the flag of
  version 2. An attribute of version 1 has no upper word and no flag, and what a failed
  `Load` leaves in an object is written as it is.
- `CapabilityProofs`, of `CapabilityInit`. `VersionIsKnownAlways` and `ObjectSeesLimitsAlways`, for
  any number of goroutines and any last capability. The invariant says which
  globals are final for a goroutine at each point: all of them once the package
  counts as initialised, in the order of the assignments before that, and that a second
  write gives the same value.
- `HostQueriesProofs`. `DockerAnswerAlways` and `SessionsClosedAlways`, for any number of
  levels: what the search has passed is in `SearchInv`, and a session is open exactly
  between the connection and its `Disconnect` (`SessionInv`). `OverlayRemountsAlways`, for
  any layers: the options of the layers are none of the flags, and the first
  overlay on a path is the one found. `FirstFileDecidesAlways` is about three recursive
  functions, over lines, release files and configuration files; each is a scan
  (`IsScan`), and what a scan returns (`ScanFirst`) is proved for lists of any length
  by looking at the least position where it would be wrong (`Least`), since the
  theorem of induction takes an operator.

Only model-checked: everything under fairness, as no liveness is in the prover's
reach: `MutexReleased`, `ServedRemovalNotified` and `CloseStopsMonitor` of
`FileMonitor`, `ListCallsReturn`, `ExitNotified`, `CloseStopsMonitor` and
`CloseWakesAWaiter` of `PidMonitor`, `CallReturns` and `OrphanEnds` of `UsernsProcess`.

## 6. Where code and documentation disagree

Shown by a run:

1. `file_monitor_exit_race`. The goroutine reads that the table is empty, unlocks, and
   resets `running` in a later critical section (`src/fileMonitor/monitor.go:43-50`
   and `29-34`). An `Add` in between starts nothing; its file is not polled until
   another `Add`.
2. `id_shift_acl`. The owners of hard links are tracked, their ACLs are not
   (`src/idShiftUtils/idShiftUtils.go:228`): an entry is shifted once per link.
   Up and down still undo each other (`UndoRestores`).
3. `pid_monitor_waiters`. On a stop the goroutine sends one list and ends
   (`src/pidmonitor/monitor.go:42`); of several clients in `WaitEvent` one returns, and the
   others wait for ever, although line 116 of `pidmon.go` says that `Close` makes
   `WaitEvent` return.

Visible in the models, or met while reading, without a run of their own. The first four
are stated by definitions of the modules, which TLC finds violated when they are put
into the configuration of the module, the two about steps (`RunningIsRefused`, `FillFills`)
as a PROPERTY and the other two as an INVARIANT:

- `RunningIsRefused` (`PidFile`). `CreatePidFile` has no lock between its check and its
  write (`src/utils/pidfile.go:49` and `54`), so that two instances may both be past the
  check; the second writes the file over the pid of the first, which runs, where
  line 45 promises an error.
- `ExecHasBothMaps` (`UsernsProcess`). `foundMapping` is not reset between the two map
  files (`src/linuxUtils/linux.go:331-355`): the function may run without the gid
  mapping, for which line 310 says the child waits. `YesIsTrue` still holds, as becoming
  root fails then.
- `LoadOverwrites` (`Capability`). `Load` of a file without the attribute succeeds and
  keeps the words of the object (`src/capability/syscall_linux.go:101-105`), so that the
  next `Apply` writes edits made before it; `capability.go:584` says that `Load`
  overwrites all outstanding changes.
- `FillFills` (`Capability`). `Fill(CAPS)` empties the inheritable set
  (`src/capability/capability_linux.go:291`); `capability.go:566` says that it sets all
  bits.
- Both monitors: an item added again between the send of its event and the second
  critical section is deleted with the batch (`src/fileMonitor/monitor.go:83`), although
  the comment at line 72 says the lock is released so that new events can be
  added. `RemovalNotifier` shows this as an absorbed `Add`.
- `pidmonitor`: a pid that exits and is reused between two polls looks alive; a
  second `Close` blocks for ever.
- `linuxUtils`: the 3 seconds of `src/linuxUtils/linux.go:310` are not waited
  when the map file is still empty, as `continue` skips the sleep (line 338), so the child
  may give up at once and the check report a missing feature (line 479); a parent
  that dies before line 308 leaves an orphan, which ends by its bounded attempts;
  a child killed on an error path (line 368) stays a zombie; the working
  directory is changed for the whole process (line 288).
- `utils/pidfile.go`: a crash between truncation
  and write leaves a file that refuses every later instance, and so does a stale
  pid that happens to be the instance's own.
- `idShiftUtils`: `hardLinks` is keyed by inode number alone; a crash between
  chown and chmod loses the set-id bits; the probe for ACL support may remove the
  list of `baseDir`; chown drops file capabilities.
- `capability`: `Load` of a thread leaves the bounding and ambient words as they
  were (`src/capability/capability_linux.go:406`), while `capability.go:584` says that it
  overwrites all outstanding changes; so `Apply(BOUNDS)` after `Load` of a fresh
  object drops the whole bounding set. A `Load` of a file that fails may have changed
  the version and the words by then (`syscall_linux.go:108-123`). A version 1 attribute loses its effective
  flag when written back (`src/capability/syscall_linux.go:141`). When the read of
  `cap_last_cap` fails, the package counts as initialised and keeps `CAP_LAST_CAP` =
  63 for good (`capability_linux.go:60`); objects of files never initialise the
  package, and with the default mask `Full` is not true of a set with all of the
  kernel's capabilities. Refused raises of ambient capabilities are dropped (line 453).
- `idMap`: an error after `open_tree` leaves its descriptor open; a failed move after the
  unmount loses the mount (`src/idMap/idMapMount.go:92-107`). `TargetMount` and
  `leaked` show both.
- `idMap`, `shiftfs`: the errors of the unmounts and of the removal in the clean-up of a
  check are ignored (`idMapMount.go:156`, `214`, `222`, `src/shiftfs/shiftfs.go:158`, `167`): a
  mount and the directory under it may stay on the host, and the check answers as if
  nothing had happened. `NothingLeft` says exactly what stays then.
- `dockerUtils`: a failed `ContainerList` counts as "not Docker's", without an
  error (`src/dockerUtils/dockerUtils.go:181`); the directories opened in the search
  are not closed (line 213); a data root with more than 30 entries may be missed.
- `mount`, `overlayUtils`: only the first optional field of mountinfo is kept, so
  that a mount both shared and a slave counts as shared; flags of the mount itself
  are not among the flags of `GetMountOpt`, whose comment promises the mount flags;
  `GetMountAt` returns the lowest of the mounts stacked on a path.
- `linuxUtils`: an os-release ID in single quotes keeps them
  (`src/linuxUtils/linux.go:88`).

## 7. Not modelled, and why

- Formatting and logging; the splitting of strings into fields (mountinfo lines,
  options, version strings are taken as their fields); system call wrappers: no state,
  no concurrency.
- `utils` besides the pid file (slices, environment, file names, copying), and
  `formatter`, `pidfd`: stateless helpers that unit tests reach, or pure I/O.
- `KernelModSupported`: a search in `/proc/modules` after a modprobe; its answer is
  nondeterministic in `HostMounts`, as an external matter.
- `ContainerGetInfo` and `ListVolumesAt` of `dockerUtils`: single requests to the
  daemon, whose answer is passed on.
- `shiftfs.Mounted`, a lookup (`MountedWithFs` is in `MountTable`), and
  `shiftfs.Mount`, which only the child calls here, in its own mount namespace.
- Range checks of the monitors' poll intervals, and time itself: a poll may come
  at any moment.
- `capability`: `LoadOriginal`, `SetEffCaps`, and objects for another process.
- `UsernsProcess`: the working directory.
- `GetDirIDs`, a read-only walk.

## 8. Plan

Done, in this order: `RemovalNotifier`, `FileMonitor`, `PidMonitor`,
`UsernsProcess`, `PidFile`, `IdShift`, `Capability`, `KernelVersion`, `HostMounts`,
`CapabilityInit`, `DockerCheck`, `MountTable`, `HostFiles`, `HostQueries`.

Left:

1. The working directory in `UsernsProcess`, with two calls at once.
2. Proofs of the safety part of what is checked under fairness: what has to hold
   at each step for the monitors to go on.
3. `LoadOriginal` and `SetEffCaps` of `capability`.
