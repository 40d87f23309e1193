# spind in TLA+

spind keeps development VMs on a workstation. There is no daemon: each `spind`
command is a process that reads files under `~/.spind`, starts or signals other
processes (the VMM, passt, virtiofsd, relays), waits for them and writes the
files back. What can go wrong lies between those steps: commands that overlap,
processes that die or hang, commands that are killed, files that are half
written. That is what this project models.

## The system

| Part | State it keeps | Operations | Hard behaviour |
| --- | --- | --- | --- |
| VM lifecycle, Cloud Hypervisor (`vm/start`) | `vms/<name>/`: metadata.json, state.json, sockets, disks; the processes | create, start, restore, stop, delete, snapshot create | no lock; PIDs and sockets that outlive what they name; partial failure of long sequences |
| VM lifecycle, Virtualization.framework (`vm/start`, `swift/spind-vz`) | the same directory; a Swift runner with a control socket and an event stream | start, restore, stop, snapshot | order of events, deadlines on both sides |
| Snapshot store (`snapshot`, `vm/start/snapshot.go`) | `snapshots/<name>/`, hard links and clones into VM directories | publish, list, delete, prune, create from | immutability, half-made directories, pairing of memory and disk |
| kubeconfig (`kubeconfig`) | the user's kubeconfig files, `<path>.lock` beside each | merge, unmerge, also as part of delete | overlapping commands, stale locks, a VM that restarts meanwhile, the user's own edits |
| JSON store (`store`) | a file and its `.tmp` | ReadJSON, WriteJSON | writers share one temporary name |
| `spind up` (`up`) | three objects of a project's name and the `projectRoot` in their metadata | up, up --reprovision | a dozen steps of other commands, any of which may fail; two directories of one project name |
| kind-ready snapshot (`kind`, `vm/start/kind_ready.go`) | kind.json, host ports | detect, configure, clean up | host ports chosen before they are used |
| Docker and port relays (`docker`, `sshrelay`) | one listener per published port | reconcile, accept | an API that fails for a moment |
| Stream relay and guest agent (`shared/streamrelay`, `agent`) | two directions of a connection | copy, close frame | half-closed connections, close races |
| Host share, mount helper (`vm/start/host_share.go`, `agent/mounthelper`) | virtiofsd, the guest's mount | mount, unmount | unmounted before a step that may fail |
| Image store and build (`image`) | `images/<name>/`, a work directory, the builtin template | build, force, delete, create from | window of a forced rebuild, shared work directory, a template that is replaced |
| Managed runner (`vm/start/managed_runner.go`) | the built runner, its stamp and flock | ensure | two builds at once |
| File copies, disk images (`filecopy`, `diskimage`) | none | clone, sparse copy, copy | fallback order |
| Requirements, doctor, command line, output, configuration | none | checks, formatting | none |

The commands meet only in the file system and in the processes: `up` calls
image build, create, start, snapshot create and delete; start configures the
relays and the kubeconfig; delete calls stop and unmerge; create reads an image
or a snapshot that another command published. `PROJECT.json` lists each part
with its status and each known hazard with its line and the properties that
would catch it.

What makes each part correct, in short. VM lifecycle: no VMM or runner is ever
lost or doubled, nobody writes `stopped` before the machine it read has exited,
nothing is left behind that no file names, every command ends. Stores: what is published is
whole and never changes, whoever dies and whoever shares its inodes. kubeconfig:
updates are atomic and never go back. up: nobody else's objects are touched and
nothing half-provisioned is used. Relays: bytes arrive in order and all of them,
and no relay outlives its connection.

## The modules

### VMLifecycle

One VM of the Cloud Hypervisor backend, under every command that changes it.

| Variable | In the code |
| --- | --- |
| `dir`, `meta`, `state`, `vhost` | the VM directory, metadata.json, state.json (`spindvm.State`), passt's vhost-user socket |
| `torn` | whether an `os.RemoveAll` of the directory has failed on part of it |
| `proc`, `doomed` | what runs under each PID; processes that were sent a signal or a shutdown request and have not exited yet |
| `sock` | the process behind the path of the API socket, which every VMM of the VM shares |
| `paused`, `mute` | VMMs whose guest is paused; VMMs that hang: they take requests and answer none, or not in time |
| `snaps` | directories published in the snapshot store |
| `pc`, `loc`, `todo`, `mode`, `target` | where each command is, the `State` it holds in memory, the relays or files left to do, and its arguments |

The actions follow the source in order. Those named `Create*`, `Start*`,
`Stop*`, `Delete*` and `Snap*` are the steps of `CreateFromImageWithOptions`
and `CreateFromSnapshot`, of `Start` with `startCloudHypervisor` and
`startCloudHypervisorRestore`, of `stop` with `stopCloudHypervisor`, of
`DeleteVM`, and of `SnapshotCreateWithOptions` with
`createCloudHypervisorSnapshot`. A step ends wherever the code touches
something others can see: a file, a spawn, a signal, an API request, a wait.
Error returns are actions of their own (`StartSpawnFail`, `StartAbort`,
`StopGiveUp`, `SnapAbort`, `DeleteFail`, ...) with the cleanup the code does
there and nothing more, and with the errors the code ignores: `CreateFail` and
`DeleteFail` may remove any part of the directory, a pause that times out may have
taken effect and a resume may have none (`Unanswered`). `VmmListen`, `VmmHang` and
`ProcessExit` are the processes, `CliCrash` is a command that is killed.

`Faults` selects the failures of the environment: `cli-crash`, `vmm-crash`,
`helper-crash` (passt, virtiofsd or a relay exits by itself, also when its VMM
goes away), `vmm-hang`, `slow-exit` (a process takes longer than a deadline to
exit) and `io` (a write or a removal fails). Waits may always time out in `start`,
whose deadlines depend on the guest; a failed API request may always happen.

What the model abstracts from:

- A PID is reused only when no state in a file or in memory names it. `Alive`
  still finds zombies, since a start reaps its children only when it returns.
- A write of state.json is atomic, and metadata.json and state.json are read in
  one step. (`WriteJSON` shares its temporary name among its writers; see "Not
  modelled".)
- After a wait, the cleanups of network, share and relays are one step, and so is
  the `os.RemoveAll` of a failed create, which may fail on any part; that of a
  delete is file by file.
- A directory that is created again while a delete removes it is the one that
  was listed; a VMM that got SIGTERM before it listens never listens; a VMM on
  its way out does not answer the start of another.
- Published snapshots stay: `snapshot delete` is a matter of Storage.
- The legacy tap network is left out; `vhost` is the passt one. EPERM from
  `kill` is left out.
- A command that returns before it changed anything takes no step.

### MCVMLifecycle, VMLifecycle_proofs, VMSettled_proofs

MCVMLifecycle instantiates VMLifecycle for TLC: the symmetry of PIDs, commands
and snapshot names. (`Concurrent` checks liveness and therefore uses no
symmetry.) The other two hold the theorems below with their proofs.

### VZRunner, VZLifecycle

The same directory and the same commands for the other backend, where start,
restore, stop and snapshot create are a conversation with one Swift process.

VZRunner is that process (`main.swift`). `stage` is how far `main` has come in
each process (`launched`, `listening` on its sockets, `deaf` once it ignores
SIGTERM, `armed` once the dispatch source listens for it), `machine` the state of
its `VZVirtualMachine`, `told` how far a SIGTERM has got (`lost`, if it came while
the process was deaf), `events` the milestones it has printed, `socks` who made
exec.sock and control.sock last, `job` and `saved` the save request and the
`state.vzvmsave` of each temporary snapshot directory. Every completion handler
is an action: `Started`, `Restored`, `Resumed`; `SavePause`, `SavePaused`,
`SaveWritten`, `SaveReply`, `SaveExit` with their failures; `TermHandled` and
`TermExit` are `requestStop` and its timer. A machine whose save fails stays
paused, as in the code. `Sigterm` has the default action until `IgnoreTerm`, is
lost until `Arm`, and reaches the handler from then on (`main.swift:931-936`).

VZLifecycle is the Go side: `state` is state.json, `pc`, `me` and `dirOf` are
where each command is, the PID it deals with and its snapshot directory. A start
and a restore are separate actions where the code is (`StartRecord`,
`RestoreRecord` with `StartEvents`). Faults: the runner dies, the framework
fails, the guest powers itself off, deadlines pass (`slow`), writes fail, a
snapshot is interrupted.

What it abstracts from: the VM exists; a snapshot directory is its saved state
(whether its disk belongs to it is a matter of Storage); relays and shares are
left out; starts are not killed. Every write of state.json may fail, also those
whose error the code ignores (`manager.go:969, 1084, 1090`). The five seconds of a
stop run out only for a zombie or under `slow`.

Nothing in the code keeps another command from overlapping a start, and nothing in
the model does. What then happens is that a runner may be lost, as VMLifecycle
shows for the other backend (TwoStarts). The properties of VZLifecycle about runners
are therefore properties of the behaviours in which `StartsAlone` holds: while a
start is in flight the other commands are idle, except stops of the very runner it
waits for. The theorems assume `[]StartsAlone`; the run Machine has it as the action
constraint `StaysAlone`.

MCVZLifecycle has the symmetries for TLC, and the view `Seen` that tells two states
apart by what is read of them (a killed snapshot leaves a directory behind, which
nobody reads once no runner saves into it); VZLifecycle_proofs has the theorems.

### Artifacts, ImageStore, SnapshotStore, Storage, ArtifactCatalog and their proofs

The files. A file is a name for an inode: `files` is a set of inodes, each with
all its names (directory and kind of file) and a content. A copy makes an inode,
a hard link a name, a guest's write changes an inode under all its names. A
content is a stamp: one build gives all its files one stamp, every write of a
guest a new one, and a saved memory has the stamp of the disk at that moment.

| Variable | In the code |
| --- | --- |
| `dirs`, `files`, `meta` | the directories of the three stores, the build output, the temporary directories; what is in them; the image that metadata.json names |
| `template` | the builtin Docker template and its `.new`, `.old` and temporary neighbours |
| `guest`, `backend` | state.json and the machine of each VM; the backend of the host |
| `pc`, `job`, `todo` | where each command is, what it works on, the copies it has still to make |

Artifacts has the operations on files (`CopyFile`, `LinkOrCopy`, `MoveDir`,
`RemoveFile`, ...) and the steps every command shares, `CopyNext`, `RemoveStep`
and `Crash`. ImageStore has `image build` (`Build*`, with the refresh of the
template in `Template*`), `image delete` and `vm create --image`;
SnapshotStore has `snapshot create` (`Snap*`), `snapshot delete` and `prune`,
`vm create --snapshot` for both backends (`RestoreCopies`: what is linked and
what is copied) and the guests; Storage puts them together. ArtifactCatalog is
the abstract store: a name has nothing or one whole artifact, that never changes
while it is there. Storage implements it twice, once for images and once for
snapshots, with what `list` and `inspect` would show as the refinement mapping
(`ImageView`, `SnapshotView`).

What it abstracts from: the container of a build makes its files or does not;
one image of the user's own directory is a build without the template; "kernel"
stands for all that a guest only reads; a create or snapshot that is killed
leaves files nobody reads, and the model drops them (`Crash`), keeping the
directory of a VM, whose name stays taken. Bounds: `MaxStamp`; `Builders`
builds at once (with two of one image, or of the template, the shared work
directory mixes their files: nothing in the code keeps them apart); with
`Together = FALSE`, as in the runs, builds and snapshots do not meet
(`MayBuild`, `MaySave`; they share no directory).

The guests start and stop, snapshots are published and links fail whenever the code
lets them. Some properties hold only of behaviours in which the users keep to
something that no code enforces; Storage states these assumptions as formulas of
their own, the theorems have them as hypotheses, and the run Storage as constraints:

| Assumption | Says | Without it |
| --- | --- | --- |
| `BuildsApart` | no two builds of one image overlap | the shared work directory mixes their files |
| `NamesKept` | nobody makes a new VM under the name of one that is being snapshotted (the old one was deleted under the snapshot) | the snapshot mixes two VMs; CreatedIsComplete fails |
| `Undisturbed` | nobody starts the VM between the save of its memory and the record that it has stopped (`manager.go:510` reads `running` until then, but a stop may have come between) | the guest writes to the disk under the copy; SnapshotsArePairs fails |
| `DisksAreLinked` | the hard link of a restore disk has succeeded (`copy_file.go:11`) | the guest writes to a copy, a snapshot copies the other file; SnapshotsArePairs fails |
| `SourcesKept` | nothing is published under the name a create is copying from | the create takes files of two builds or two snapshots (`snapshot.go:97` has no such check); CreatedOfOneMoment fails |

TLC finds each of these violations in the instance of the run Storage when the
constraint is taken away.

MCStorage is the instance for TLC. Storage_proofs has the lemmas about the
operations on files and what each command works on, StorageFiles_proofs what
follows for the files and the refinements.

### ProjectUp

`spind up`. `objects` has what stands under the three names of a project (the
work VM, the provisioning VM, the provisioned snapshot): whose `projectRoot` is
in its metadata, who made it (`by`: an up, the user before an up, the user while one
was under way; what is made from an object has its maker), whether it is whole,
whether it runs, and `setup`, the setup commands it has seen. `stray` has the setup
commands that have outlived a killed up: a `/bin/sh` of its own, which goes on
working against whatever answers under the provisioning VM's name. `yaml` is the version of each root's spind.yaml, `up` what
the up in progress has loaded, `pc` its next step. Two roots have the same
project name. Each action is one step of `run.go`; `UpFail` ends the up before
any of them and may leave a stray command, `CreateDies`, `DeleteDies` and
`SaveLost` are operations that fail or are killed halfway, `User*` and `VM*` what
the user and the VMs do at any time, creating an object under one of the names
included.

An up checks its names once (`run.go:78`) and uses them minutes later. A VM that is
made by hand under the work VM's name in between is found (110) and started (123),
one under the provisioning VM's name is deleted (229), a snapshot is taken for the
up's own (101, 114). The model does all that; OwnObjectsOnly, ProvisionedWhole and
ReprovisionIsFresh except what was made meanwhile, because of it the code keeps no
promise, and hold of everything else.

What it abstracts from: an operation of the manager is a single step (its
inside is modelled elsewhere) with its failures; one up of a name at a time; a
setup command works against the VM that answers under the provisioning VM's
name and fails without one; the merge of the kubeconfig at the end is
KubeconfigMerge's. Bounds: `Steps` setup commands, `MaxVersion` versions of
spind.yaml, and for TLC `OneStray`, one stray command at a time (the second one of
the first version). MCProjectUp has it and the symmetry, ProjectUp_proofs the
theorems, which need no bound.

### ByteStream, StreamRelay

One connection from a program on the host through the host's relay, the vsock
and the guest's relay to a program in the guest. `kind` says whether it is a
Docker connection (`RelayFramed` at both ends) or a forwarded port (`RelayRaw`
on the host, `relay.Buffered` in the guest). `toRelay`, `toApp` and `wire` are
the socket buffers with the way they end (FIN, reset, the frame
`frameCloseWrite`), `stage` and `copy` the relays and their two goroutines, `cut`
a vsock that was reset, `fault` the one thing that breaks in a connection.
`Out*` and `In*` are the two copy loops, `Ended` says when each relay gives up,
`Finish` closes. `Blocked` is a property of the guest's vsock file, which is in
blocking mode: a goroutine in a read or a write of it stays there whatever is
closed.

ByteStream is what such a connection promises, in two halves: `Safely`, bytes in
order and the end of a direction after its last byte, and `Fairness`, all of
them, and a program that does not read holds up nobody else. StreamRelay implements it for Docker connections until something
breaks; forwarded ports, whose host relay closes both directions with the first
one that ends, and broken connections promise a prefix only. Bounds: `MaxBytes`
a program sends, `Cap` bytes in a buffer, one fault in a connection.
MCStreamRelay is the instance for TLC, whose properties are the two halves
(`StreamInOrder`, `StreamArrives`); StreamRelay_proofs has the theorems.

### KubeconfigDocument

A kubeconfig file as far as `mergefile.go` looks at it: a set of clusters, users
and contexts with their names and what a context refers to, and the current
context; and the operators `MergeFile` and `UnmergeFile` are made of. `Name`
stands for the entries `spind-<vm>`, `Own` for the user's contexts. Everything
that is carried along unread (certificates, the server with its port, unknown
fields) stands in `ver`, the number of the start that generated the entry. The
order of the lists and duplicate names are left out.

### KubeconfigStore

What merge and unmerge promise, as an abstract specification of two variables:
a file changes by whole merges and unmerges, each applied to what the file holds
at that moment, and by the user's edits.

### KubeconfigMerge

The commands that touch kubeconfig files, step by step, any number at once.

| Variable | In the code |
| --- | --- |
| `vm`, `made` | whether the VM of an entry exists and runs; the version of `vms/<name>/kubeconfig` |
| `file`, `present` | the kubeconfig files and which of them exist |
| `lock` | `<path>.lock`: absent, created by a command, or left by a killed one |
| `pc`, `job`, `at`, `left` | where a command is, its arguments, the file it works on, the candidates an unmerge has still to visit |
| `ver`, `doc` | the source and the target it has read under the lock |

`MergeBegin` is `KubeconfigMerge` up to `MergeFile`: the status check and the
choice of the file happen before any lock. `Lock`, `LockFail` and `Unlock` are
`withKubeconfigLock`: `O_CREATE|O_EXCL`, failure at once, the deferred removal.
`MergeSource`, `MergeRead`, `MergeWrite` are the three steps of `MergeFile`
under the lock, `UnmergeNext`, `UnmergeRead`, `UnmergeWrite` those of
`UnmergeFile` for one candidate; `Fail` is every other error return under the
lock. `VMStart` and `VMStop` are what the rest of spind does to a VM meanwhile
(VMLifecycle has the detail), `CliCrash` a killed command. Outside spind are
`UserEdit`, kubectl, whose edits are taken as atomic under the same lock file, and
`UserUnlock`, the user who removes the lock file of a killed command.

What it abstracts from:

- `PathForMerge` looks at all candidates in one step, and a delete stops its VM
  in its first step.
- The write of `WriteFileAtomic` takes effect with its rename; a temporary file
  that a killed command leaves has a name of its own and is read by nobody.
- `GenerateKubeconfig` writes in place: a merge that reads half of it fails to
  parse it, which `Fail` allows.
- `UserEdit` changes only entries of the user's own and the current context, and
  files are never deleted.
- The deferred `os.Remove(lockPath)` (`mergefile.go:260`), whose error the code
  ignores, always succeeds: NoLeakedLock says nothing of a removal that fails.

### MCKubeconfigMerge, KubeconfigMerge_proofs

The symmetry of commands and VMs for TLC, and the theorems below.

## The runs

| Run | Instance | Checks | Shows |
| --- | --- | --- | --- |
| Serial | one command at a time, 4 PIDs, no relays, every fault but killed commands | TypeOK, LiveVMMRecorded, NoWedgedDirectory, GuestResumed | whatever fails and wherever a command gives up, no VMM is lost, none is doubled, no running guest whose VMM answers stays paused, and the directory stays usable unless its own removal failed |
| Settled | one command at a time, 5 PIDs, Docker and port relay, helpers crash | NoStrayProcess, PublishAfterStop | no sequence of commands leaves a process or socket behind that state.json does not name; a snapshot appears after its VM and all helpers were told to exit |
| Concurrent | two commands, 1 PID, every fault but helper crashes, fairness | ExitBeforeWrite, CommandReturns | a stop or snapshot that read a running VM writes `stopped` only after that VMM has exited, and no command waits for ever but in a vsock dial |
| StaleStop | one command, 4 PIDs, slow exits | StoppedLeavesNothing (violated) | stop of a VM whose VMM is gone forgets passt and its socket |
| TwoStarts | two commands, 4 PIDs, no faults | NoSpawnOverRunning (violated) | two starts, two VMMs |
| StopSnapshot | two commands, 3 PIDs, no faults | StopExcludesSnapshot (violated) | a stop during a snapshot succeeds, and so does the snapshot |
| Machine | two commands, 2 PIDs, 2 snapshot directories, every fault | TypeOK, SavedWhole, NoStrayRunner, UpBeforeRunning | as long as StartsAlone holds, no runner is lost, a snapshot has the whole saved state of a machine that never runs again, and a restore counts only when it is complete |
| Storage | two commands, one image, one VM, one snapshot, both backends | TypeOK, WritesStayHome, TemplateWhole, ImagesAreWhole, SnapshotsArePairs, CreatedIsComplete, CreatedOfOneMoment | under the assumptions above, what is published is whole and never changes, what is created from it is complete and of one moment, wherever commands overlap and are killed |
| Restart | one command, two VMs | RestoresAPair (violated) | the second start of a restored VM loads the old memory over a newer disk |
| Kubeconfig | two commands, two VMs, one file, two starts | TypeOK, NoLeakedLock, StoreSpec, EntryNeverOlder, ReferencesStay | merges and unmerges are atomic wherever commands overlap, fail or are killed |
| ProjectUp | two roots of one name, two setup commands, two versions, one stray command | TypeOK, ProvisionedWhole, ReprovisionIsFresh, OwnObjectsOnly | an up touches nobody else's objects but those made while it runs, and never makes a half-provisioned VM or snapshot of its own usable |
| Stream | two bytes each way, buffers of one, both kinds | TypeOK, StreamInOrder, StreamArrives, EndsTogether | a Docker connection is a byte stream both ways until something breaks; no relay stays behind |

Bounds. Five PIDs hold a VMM, passt, virtiofsd and one relay with one process
to spare for the next start while an old one is still exiting; an action that
needs a PID is disabled when none is free, so in the smaller instances some
starts cannot go on. That is why Settled, whose properties are about all the
processes of a VM, has five. Serial has no relays and four: a VMM, passt and
virtiofsd, and one for the next start while an old VMM is still exiting; its
properties are about VMMs and the directory. Concurrent has one, which keeps the
check of liveness small; it is enough for the overlap of a start, a stop and a
snapshot of one VMM, not for that of two VMMs. ExitBeforeWrite is proved for any
number of commands and PIDs. One snapshot name is enough for a create
from it, a second snapshot under a taken name, and the race of two snapshots for
the name; snapshots of different names do not touch each other. Two commands
are the smallest number that interleaves. Kubeconfig: two commands race for one
lock, the second VM is the one whose entry must survive, `MaxStarts = 2` gives an
older and a newer source. Two files multiply the states and meet only in the
choice of the file; the theorems hold for any number of files, commands and
starts.

Machine: two processes, since a start may find the last runner still exiting;
two directories, for a save that is asked of a runner while another is with it.
Storage: one name of each kind is enough for a rebuild, a delete or a prune
under a create, for a snapshot of a VM that was itself created from a snapshot,
and for hard links that join all three stores; three stamps tell an old content
from a new one. ProjectUp: two roots to own and not to own an object, two
commands so that a setup can be half done, two versions so that an up can load
one and an edit make another meanwhile. Stream: two bytes are
enough for one to be in a buffer while another is lost, and buffers of one make
every writer wait.

The runs explore 639,668 (Serial), 109,833 (Settled), 274,227 (Concurrent),
345,167 (Machine, by its view), 542,051 (Storage), 603,265 (Kubeconfig), 2,304,440 (ProjectUp)
and 351,752 (Stream) distinct states.

Deadlock is checked in Settled, StaleStop, Machine, Storage, Restart, Kubeconfig
and ProjectUp. It is not in Serial and in the runs of two commands over VMLifecycle,
because the system may stop there: a removal that fails on part of a directory, a create that is killed, or a start that writes into a
directory while it is being deleted, leaves a directory without metadata.json or
state.json, and every command on such a VM returns with an error before it
changes anything (`os.Mkdir` finds the directory, the others miss a file). With
one PID, a start may also find no PID left. Stream stops when the connection is
over.

NoStrayProcess and PublishAfterStop hold on a host where only helpers crash.
With VMM crashes or slow exits they do not (StaleStop shows how), nor when the
VMM log cannot be opened (`StartLogFail`), where start returns without
terminating passt and virtiofsd. LiveVMMRecorded and GuestResumed are checked with
one command that is not killed: a start killed between spawn and write loses its
VMM, a snapshot killed while the guest is paused leaves it so, and two starts at
once double the VMM (TwoStarts). The theorems below say of which steps alone this
is true, and hold for any number of commands.

What the code gets wrong all the same is excepted in the property, by name, and
happens in the model: a directory whose own removal failed (`torn`,
`manager.go:226, 719`), a guest whose VMM hangs when it should be resumed (`mute`,
`snapshot.go:122-130`), a runner whose SIGTERM was lost (`told`), a restore that
failed when `stopped` could not be written, a command held up in `DialVsock`
(`Held`), objects made by hand while an up runs (`by`).

Each property has a mutant, an operator beside the original that changes it
the way a slip in the code would; under the mutant the same run finds the
property violated.

Fairness. `FairSpec` is weak fairness of the steps of each command, taken
together: a process that the kernel schedules executes its next step. Every wait
of a command polls with a deadline, so one of its outcomes is always enabled,
with one exception: `DialVsock` (`api.go:117`) reads the answer to its CONNECT
without one, when a start waits for the guest's SSH or configures its relays, and
when stop and snapshot create unmount the share. A command at such a step
(`Dialing`) is `Held` while a VMM hangs or a guest is paused, and has no fairness
then. CommandReturns says that a command ends unless it is held up again and again.
Nothing is assumed of the processes it waits for: a VMM need not listen, answer,
exit or die, and no command is obliged to begin. The mutant of CommandReturns takes
the deadline from the wait for the API, and then a start waits for ever. In StreamRelay it is weak fairness of each copying
goroutine, of the end of each relay, of the setup of the connection and of a
program that reads: what can be copied is copied. No program is obliged to write,
to read or to end its direction, and no fault to happen. ByteStream promises
delivery to the programs that read, under no fairness but that.

## Divergences between the code and its documents

1. `StoppedLeavesNothing`: `stop` of a VM whose VMM is gone writes `stopped`
   without `cleanupCloudHypervisorDockerNetwork` (`manager.go:1133`), against
   `roadmap.md:110` and `cloud-hypervisor-backend.md:281`. Trace: a VM runs with
   passt, a stop signals its VMM and gives up the wait (`cloud_hypervisor.go:412`),
   the VMM exits, a second stop takes the branch for VMs that do not run.
2. `NoSpawnOverRunning`: two starts read `stopped`; both spawn a VMM
   (`manager.go:510`), against `minimum-cli.md:245`.
3. `StopExcludesSnapshot`: stop and snapshot create of one VM both succeed
   (`manager.go:1133`, `snapshot.go:178`), against `snapshot.md:219` and
   `cloud-hypervisor-backend.md:258`.
4. `RestoresAPair`: a VM created from a snapshot restores the saved memory at
   every start (`manager.go:514`); after a stop its disk is newer than that
   memory. `snapshot.md:55` says memory and disk are a pair that is not
   combined with anything else.

Seen on the way against a document, without a run of their own, since the model has
the behaviour and the property excepts it:

- `stop` may hang in the unmount of the share, before any SIGTERM
  (`manager.go:1140`, `api.go:101-126`); `cloud-hypervisor-backend.md:266-270` and
  `:359` describe the shutdown with its fallback to SIGTERM.
- A stop that has read `stopped` writes it again (`manager.go:1137`) and may erase
  the record of a start that has finished in between; `minimum-cli.md:251` has a
  stop of a stopped VM change nothing.
- The ignored error of `writeState` after a failed restore (`manager.go:969, 1084,
  1090`) may leave `running` recorded; `snapshot.md:199` says it does not stay so.
- `project-up.md:97` and `:99` reuse objects of the same `projectRoot` only and stop
  with an error otherwise; a VM made by hand while the up runs is started without a
  look at its metadata (`run.go:110-123`), a snapshot is used (`run.go:101, 114`).

And no divergence from any document: the host ports of a
kind-ready VM are chosen by listening and closing (`kind_ready.go:106`), and
bound later; two VMs created from one kind-ready snapshot have the same
certificates, and the port a snapshot saved is not used again; one failed request
to the Docker API closes every forwarded port until the next (`docker/relay.go:104`).

## What is proved

In VMLifecycle_proofs, for every value of the constants that satisfies
`LifecycleConstants` (distinct null values, known relays and faults); sets of
commands and PIDs may be infinite:

- `TypeCorrect == Spec => []TypeOK`. Inductive as it stands; one lemma per
  command.
- `StopSeesTheExit == Spec => []ExitBeforeWrite`, any number of commands and
  every fault, killed commands included. ExitBeforeWrite is not inductive: it
  says nothing of the wait before the write, nor of why a PID seen dead stays
  dead. The invariant adds that a stopped or absent state names no VMM
  (`StoppedHasNoPid`), that a start holds a state marked running
  (`StartsRunning`), and that a command past its wait holds a PID under which no
  VMM runs (`Gone`); a PID still named in some `loc` is never handed out again,
  which is what keeps `Gone` true while other commands spawn.

Most other invariants of VMLifecycle are false when commands overlap, because
spind has no lock per VM. The theorems say which steps such a lock would have to
cover, and that for these properties it need cover no more. `LaunchesAlone`:
nobody else is in flight while a start is between its look at state.json and its
record of the VMM. `HalvesAlone`: nobody else is in flight while a create fills
the directory or a delete empties it. They are assumed of a behaviour (`Spec /\
[]LaunchesAlone`). Everything else interleaves, with any number of commands and
every fault; and commands may be killed anywhere but at the steps `S` of
`SpecSparing(S)`:

- `LaunchesAloneLoseNoVMM == SpecSparing({"start.record"}) /\ []LaunchesAlone =>
  []LiveVMMRecorded`. `ApartInv` adds where a command expects no VMM that goes on
  running, and where none but the one it holds (`KnowsVMM`), and that no
  state.json exists without its directory. One command's step can only disturb
  what another knows by bringing up a VMM, and there is but one step that does.
- `HalvesAloneWedgeNothing == SpecSparing(HalfThere) /\ []HalvesAlone =>
  []NoWedgedDirectory`. NoWedgedDirectory speaks of the moments between commands,
  and of directories whose own removal has not failed;
  `TidyInv` adds that only `HalfThere` steps find one of the two files missing, and
  that a delete has listed all that is there before it unlinks.
- `LaunchesAloneResumeTheGuest == SpecSparing(Waking) /\ []LaunchesAlone =>
  []GuestResumed`. `GuestInv` says that while a guest is paused a command is at a
  step where it will resume it or end its VMM (`Sees`), or its VMM hangs. It needs that only the VMM
  behind the socket is ever paused, hence that what answers is a VMM that has come
  up (`Answering`), and that a PID recorded for a helper never belongs to a VMM
  (`HelpersAreHelpers`).
- `OneCommandLosesNoVMM`, `OneCommandWedgesNothing`, `OneCommandResumesTheGuest`:
  with `Cli = {c}` and no killed commands the three hold of `Spec` without further
  assumption, which is what the run Serial checks. Corollaries: a window is the
  command's own when there is no other.

The assumptions are needed. TwoStarts is two starts in one window. A start killed
between spawn and record loses its VMM. With LaunchesAlone but not HalvesAlone, a
stop that writes `stopped` between two unlinks of a delete puts state.json back
into a directory without metadata.json.

In VMSettled_proofs, from the same assumption on the constants, with
`Faults \subseteq {"helper-crash"}` and any number of commands. `StartsAlone` is
HalvesAlone and a window of a start that reaches to its end, since its relays are
recorded last; stops, forced deletes up to the removal, and snapshots interleave:

- `NothingStrays == Spec /\ []StartsAlone => []NoStrayProcess` and
  `SnapshotsComeFromSettledVMs == Spec /\ []StartsAlone => PublishAfterStop`; one
  command at a time, as in the run Settled, is a trivial case of StartsAlone.
  `KnowsProcs` says of every process of the VM who names it at each step of each
  command: the state it has read, which is state.json's own as long as nobody has
  written `stopped` (`AllIn`), the VMM and its backends alone once the relays were
  told to exit, nobody once the VMM has been seen gone (`NothingRuns`). `Shared`
  says the same of state.json, with the exceptions that hold as long as somebody is
  ending the VMM: of two stops that race, the one that still waits answers for the
  one that has returned. That the VMM that was shut down is the one recorded needs
  `ApartInv` and `Answering`, that no write fails needs `TidyInv`.

In VZLifecycle_proofs, for every value of the constants that satisfies
`RunnerConstants` and `LifecycleConstants`; sets of commands, PIDs and
directories may be infinite, and every fault may happen:

- `RunnerCorrect == Spec => []TypeOK`.
- `RunningMeansUp == Spec /\ []StartsAlone => []UpBeforeRunning`: when no start is
  in flight and `running` is recorded, its runner had seen every milestone, or a
  write has failed and the runner was told to exit or is dead (`GivenUp`). For a
  restore that is what its event stream says; a boot only looks at the sockets,
  which all runners of a VM share. `Climb` is why that is enough: one start at a
  time (`OneStart`, by StartsAlone), a runner's milestones come in the order of
  its steps (`Ladder`), the sockets a booting start sees are those of the runner
  it waits for (`Served`), and a recorded runner is up or has its start still at
  its side (`Risen`).
- `RunnersAreRecorded == Spec /\ []StartsAlone => []NoStrayRunner` and
  `SavesAreWhole == Spec /\ []StartsAlone => []SavedWhole`, from one invariant. Its
  key is `Sole`: a command that is not idle knows every live runner, so that one
  that writes `stopped` writes it of the only one there is. Around it: a command names a process (`Named`), has
  a directory and a request of its own (`Private`), is alone until its start has
  recorded its runner (`Early`), and a directory whose save was answered `ok`
  has all of the state (`Wholes`).

In StreamRelay_proofs, for any number of bytes, any size of the buffers, both
kinds of connection and every fault:

- `StreamTypes == Spec => []TypeOK`.
- `BytesStayInOrder == Spec => StreamInOrder`, the safety half of ByteStream by
  the refinement mapping that takes the two programs' view. `InOrder`: what lies
  in the buffers between two programs, read from the receiver back to the
  sender, is one run of consecutive numbers that follows on what the receiver
  has; nothing can be missing in it before a relay or the vsock has gone. A
  Docker connection that nothing has broken has the rest: an end travels behind
  the last byte of its direction, and a relay that finishes has seen both.

In ProjectUp_proofs, for any project roots, any number of setup commands and
edits (`ProjectConstants`):

- `UpTypes == Spec => []TypeOK`.
- `OthersAreLeftAlone == Spec => OwnObjectsOnly`. `Owned`: past its validation
  an up finds under its three names only what is its own, what it has made and
  not yet marked, or what the user has made meanwhile. It holds because nobody else
  gives a name a project root while the up runs; that is where "one up of a name at
  a time" is needed.
- `NothingHalfProvisioned == Spec => []ProvisionedWhole`. `Progress`: a provisioning
  VM that an up made has seen the commands before the next one, however often it was
  stopped, deleted or met a stray command meanwhile.
- `ReprovisioningStartsOver == Spec => []ReprovisionIsFresh`. `Anew`: once
  deleted, no older work VM or snapshot of an up comes back.

In KubeconfigMerge_proofs, for every value of the constants that satisfies
`MergeConstants` and `DocumentConstants` (distinct null values, the user's names
are not spind's); sets of commands, files and VMs may be infinite:

- `MergeTypes` and `LocksAreReturned`: `[]TypeOK` and `[]NoLeakedLock`.
  NoLeakedLock says where a lock file comes from; the invariant needs the
  converse too, that a command under its lock owns it (`Locked`), and that a
  command in flight has a VM and a file (`Placed`).
- `MergeImplementsStore == Spec => StoreSpec`, the refinement, with the identity
  as mapping. The step that matters is the rename: it is an abstract merge only
  if what the command has read is what the file still holds (`UpToDate`). That
  follows from `Locked`, since every other writer needs the lock.
- `MergesNeverGoBack == Spec => EntryNeverOlder`. The invariant adds that no
  file is ahead of its VM and that a source read under the lock is not older
  than what the file holds (`NotNewer`), and that an entry is of one version
  (`OneVersion`).
- `UsedEntriesStay == Spec => ReferencesStay`: the check of an unmerge still
  holds when it writes, again by `UpToDate`.

In Storage_proofs and StorageFiles_proofs, for every value of the constants that
satisfies `ArtifactConstants` and `BuildersConstant` (any names of images,
snapshots and VMs, any finite set of commands, any bound on the stamps, any number
of builds, meeting snapshots or not), every command killed at any point. What is
said of files is proved of behaviours with `[]BuildsApart`: no two builds of one
image overlap. They would share its work directory and its place in the store, which
have no lock (`image/build.go`); a container's writes into a directory that another
container fills are not modelled, so the model says nothing of that case. Builds of
different images, creates, snapshots, deletes and prunes interleave freely.
The other assumptions are those of the table under Storage; `NamesKept` is one of all
of these theorems, since a VM re-made under a command would have two owners.

- `TemplateStaysWhole == Spec => []TemplateWhole` for `Builders <= 1`, since all
  builds share the template. `Templates`: only the two
  temporary directories are ever parts, and the one a build is about to move is
  whole, since nobody else can have begun it anew.
- `TypesStay`, `WritesStay`, `ImagesStayWhole` and `CreatesAreComplete`: `Spec /\
  []BuildsApart /\ [][NamesKept]_vars` implies `[]TypeOK`, `[]WritesStayHome`,
  `ImagesAreWhole` (a refinement of ArtifactCatalog) and `CreatedIsComplete`: a VM
  that becomes usable has a disk and the files its backend opens, whatever is
  deleted, pruned, rebuilt or re-created under its create.
- `SnapshotsStayPairs == Spec /\ []BuildsApart /\ [][NamesKept]_vars /\
  [][Undisturbed]_vars /\ []DisksAreLinked => SnapshotsArePairs`, the other
  refinement of ArtifactCatalog.
- `CreatesAreOfOneMoment`: with `[][SourcesKept]_vars` besides, a VM that comes from a
  snapshot has a saved memory of the moment of its disk, and one that comes from an
  image has the kernel and the disk of one build (`CreatedOfOneMoment`).

The invariant of the files has two halves. `Control` speaks of commands alone: what each
works on at each step (`Jobs`), which of its copies are left (`CopiesLeft`), and
that a VM that is made or saved belongs to one command (`Owners`). `FileInv`
speaks of files, by two relations on names, what a name reads (`At`) and which
names share an inode (`Joined`); Storage_proofs states once what a copy, a
link, a write, a rename and a removal do to them. `StayHome` says that the names
of a writable disk are all in one VM and all writable, and is kept by the order
of the copies of a restore: only read-only files are linked from the snapshot,
and the link of the disk comes after its copy. `VMOK` says that a guest that runs
has its disk open. `FileInv` has a parameter, what is asked of the behaviour: with
"pairs", `TempOK` adds that the memory a snapshot has saved is of the moment of the
disk it has still to copy, which needs `Undisturbed` (`Resting`: the guest does not
write meanwhile) and `DisksAreLinked` (the disk that is copied is the one the guest
has open). Each step changes at most one
public directory (`OneChange`), by taking something away or by a rename to a free
name, which is what the catalog allows; the lemmas about single steps say which.
CreatesAreComplete adds `Made`: the copies that a create has behind it are there.
They survive the other commands because the directory of a VM that is being made is
changed by nobody else (`Busy`); a copy that finds its source gone fails the create.
With "sources", `Made` adds that what has been copied is of the moment of what is
still to copy (`OneMoment`): the source only loses files then, which is what
`SourcesKept` is for.

Only model-checked, because the prover does neither: CommandReturns, EndsTogether
and StreamArrives, which are liveness under fairness. And of course the violations.
All other properties of the runs are theorems.

## Not modelled

- JSON file store: a write of a JSON file is atomic in every module. `WriteJSON`
  renames a complete file into place, which makes that true of one writer; two
  writers share `<path>.tmp` (`store/json.go:19`), and one may rename what the
  other has half written. That is listed as a hazard.
- kind-ready snapshot: its relays are in VMLifecycle; detection runs commands in
  the guest with no state of spind's in between.
- Host share and mount helper: virtiofsd is a process of VMLifecycle; the mounts
  are the guest kernel's.
- Managed runner: a build under flock with a second look; the lock is the
  kernel's, and a crash releases it.
- Reconciliation of forwarded ports: one loop over one map in one process.
- Disk images and the blocks of a copy: byte-level work of one process.
- exec, status, list, requirements, doctor, command line, configuration: they
  change no state.
- The legacy tap network.

## What is left

1. Two ups of one project name at once; theorems about
   VZLifecycle that say which steps of a start must be alone, as those of
   VMLifecycle do, in place of a whole start (`StartsAlone`).
2. An atomic register over `WriteJSON` and `ReadJSON`, with one writer shown to
   implement it and two writers shown not to.
