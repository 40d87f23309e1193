----------------------------- MODULE VMLifecycle -----------------------------
(***************************************************************************)
(* The life of one Cloud Hypervisor VM under the `spind vm` and `spind     *)
(* snapshot create` commands (internal/spind/vm/start).                    *)
(*                                                                         *)
(* Every command is an operating-system process of its own: it reads the   *)
(* files of ~/.spind/vms/<name>, spawns or signals other processes (the    *)
(* VMM, passt, virtiofsd, the relays), waits for them and writes           *)
(* state.json.  No lock protects that directory, so every file access,     *)
(* spawn, API request and wait below is a step of its own, between which   *)
(* the other commands and the processes themselves may move.  A command    *)
(* that returns before it changes anything (an unknown VM, an existing     *)
(* name, "already running") takes no step.                                 *)
(***************************************************************************)
CONSTANTS
    Cli,        \* the commands that may be in flight at the same time
    Pid,        \* process ids; one is reused only when nothing names it
    NoPid,      \* the zero value of a PID field
    Relays,     \* the relay processes a start may configure
    SnapName,   \* names given to `spind snapshot create`
    NoName,     \* a command that has no snapshot name
    Faults      \* the failures of the environment this instance allows

RelayKinds == {"docker", "port", "kube", "registry"}
FaultKinds == {"cli-crash", "vmm-crash", "vmm-hang", "helper-crash", "slow-exit", "io"}

ASSUME LifecycleConstants ==
    /\ NoPid \notin Pid
    /\ NoName \notin SnapName
    /\ Relays \subseteq RelayKinds
    /\ Faults \subseteq FaultKinds

VARIABLES
    dir,        \* the VM directory exists
    meta,       \* its metadata.json: "none", or whether a start boots or restores
    state,      \* its state.json; status "absent" when there is none
    vhost,      \* the passt vhost-user socket exists
    torn,       \* the directory is what a removal that failed has left
    proc,       \* what runs under each process id, "free" when nothing does
    doomed,     \* processes told to exit that have not done so yet
    sock,       \* the VMM that answers on the API socket path, or NoPid
    paused,     \* VMMs whose guest is paused
    mute,       \* VMMs that may leave a request unanswered, or refuse it
    snaps,      \* the published snapshots
    pc,         \* where each command is
    loc,        \* the spindvm.State each command holds in memory
    todo,       \* the relays or files a start or a delete has still to do
    mode,       \* a command that restores, or whose stop is part of a delete
    target      \* the snapshot name of each snapshot command

disk == <<dir, meta, state, vhost, torn>>
os   == <<proc, doomed, sock, paused, mute>>
args == <<todo, mode, target>>
cmd  == <<pc, loc, args>>
vars == <<disk, os, cmd, snaps>>

-----------------------------------------------------------------------------
(* Types *)

Helpers == {"net", "share"} \cup Relays
Files == {"meta", "state", "vhost"}
MaybePid == Pid \cup {NoPid}

StateRec == [status    : {"absent", "stopped", "running"},
             pid       : MaybePid,
             execReady : BOOLEAN,
             helper    : [Helpers -> MaybePid]]

Stopped == [status |-> "stopped", pid |-> NoPid, execReady |-> FALSE,
            helper |-> [k \in Helpers |-> NoPid]]
Absent  == [Stopped EXCEPT !.status = "absent"]

StartSteps  == {"start.net", "start.share", "start.spawn", "start.record",
                "start.api", "start.ssh", "start.abort", "start.relays"}
StopSteps   == {"stop.begin", "stop.stale", "stop.relays", "stop.vm",
                "stop.vmm", "stop.wait", "stop.kill", "stop.write"}
SnapSteps   == {"snap.unmount", "snap.pause", "snap.save", "snap.shutdown",
                "snap.wait", "snap.write", "snap.publish"}
Steps == {"idle", "create.copy", "create.state", "delete.unmerge",
          "delete.remove"}
            \cup StartSteps \cup StopSteps \cup SnapSteps

TypeOK ==
    /\ dir \in BOOLEAN
    /\ meta \in {"none", "boot", "restore"}
    /\ state \in StateRec
    /\ vhost \in BOOLEAN
    /\ torn \in BOOLEAN
    /\ proc \in [Pid -> Helpers \cup {"free", "boot", "load", "vmm"}]
    /\ doomed \subseteq Pid
    /\ sock \in MaybePid
    /\ paused \subseteq Pid
    /\ mute \subseteq Pid
    /\ snaps \subseteq SnapName
    /\ pc \in [Cli -> Steps]
    /\ loc \in [Cli -> StateRec]
    /\ todo \in [Cli -> SUBSET (Relays \cup Files)]
    /\ mode \in [Cli -> {"plain", "restore", "delete"}]
    /\ target \in [Cli -> SnapName \cup {NoName}]

Init ==
    /\ dir = FALSE /\ meta = "none" /\ state = Absent /\ vhost = FALSE
    /\ torn = FALSE
    /\ proc = [p \in Pid |-> "free"]
    /\ doomed = {} /\ sock = NoPid /\ paused = {} /\ mute = {} /\ snaps = {}
    /\ pc = [c \in Cli |-> "idle"]
    /\ loc = [c \in Cli |-> Stopped]
    /\ todo = [c \in Cli |-> {}]
    /\ mode = [c \in Cli |-> "plain"]
    /\ target = [c \in Cli |-> NoName]

-----------------------------------------------------------------------------
(* Processes *)

Names(s) == {s.pid} \cup {s.helper[k] : k \in Helpers}
PidsOf(s, ks) == {s.helper[k] : k \in ks} \ {NoPid}

\* A VMM is spawned to "boot" or to "load" a saved state, and is "vmm" once
\* its API answers.
IsVMM(p) == p \in Pid /\ proc[p] \in {"boot", "load", "vmm"}

\* kill(pid, 0) also finds a child that has exited, until the start that
\* spawned it returns and init reaps it.
Alive(p) ==
    /\ p \in Pid
    /\ \/ proc[p] # "free"
       \/ \E c \in Cli : pc[c] \in StartSteps /\ p \in Names(loc[c])

\* Mutant: a VM whose guest does not answer yet counts as not running.
RunningAlive_ExecReady(s) == s.status = "running" /\ s.execReady /\ Alive(s.pid)

\* Start's and stop's idea of a running VM.
RunningAlive(s) == s.status = "running" /\ Alive(s.pid)

Fresh == {p \in Pid : /\ proc[p] = "free"
                      /\ p \notin Names(state)
                      /\ \A c \in Cli : p \notin Names(loc[c])}

Spawn(p, k) == proc' = [proc EXCEPT ![p] = k]

\* Mutant: a PID field that was never set is signalled too.
Terminate_ZeroPid(awaited, told) ==
    /\ proc' = [p \in Pid |-> IF p \in awaited THEN "free" ELSE proc[p]]
    /\ doomed' = (doomed \cup told) \ awaited

\* SIGTERM to every process of either set.  Those of the first are waited for
\* and killed if need be, so they are gone; those of the second are not.
Terminate(awaited, told) ==
    /\ proc' = [p \in Pid |-> IF p \in awaited THEN "free" ELSE proc[p]]
    /\ doomed' = (doomed \cup {p \in told \cap Pid : proc[p] # "free"}) \ awaited

\* A request behind the API socket path that times out after it took effect.
Unanswered(effect) == sock \in mute /\ paused' = effect

\* A last wait for the VMM that c read from state.json is given up when the VMM
\* was not told to exit, is nobody's to reap yet, or is slow.
WaitTimesOut(c) ==
    \/ "slow-exit" \in Faults
    \/ proc[loc[c].pid] = "free"
    \/ loc[c].pid \notin doomed

\* Mutant: passt is forgotten.
Backends_ShareOnly(s) == PidsOf(s, {"share"})

\* The network and share processes of s; a wait with a SIGKILL ends them.
Backends(s) == PidsOf(s, {"net", "share"})

\* cleanupCloudHypervisorDockerNetwork removes the socket s records.
RemoveVhost(s) == vhost' = (vhost /\ s.helper["net"] = NoPid)

-----------------------------------------------------------------------------
(* The command's own bookkeeping *)

Goto(c, step) == pc' = [pc EXCEPT ![c] = step]
Keep(c, s)    == loc' = [loc EXCEPT ![c] = s]
KeepHelper(c, k, p) == loc' = [loc EXCEPT ![c].helper[k] = p]

Return(c) ==
    /\ Goto(c, "idle")
    /\ Keep(c, Stopped)
    /\ todo' = [todo EXCEPT ![c] = {}]
    /\ mode' = [mode EXCEPT ![c] = "plain"]
    /\ target' = [target EXCEPT ![c] = NoName]

\* writeState into the directory; it fails when the directory is gone, and
\* may fail for any other reason when the host has input/output errors.
WriteState(s) == dir /\ state' = s
WriteFails    == (~dir \/ "io" \in Faults) /\ UNCHANGED state

\* The files fs of the directory are removed.
Unlink(fs) ==
    /\ meta'  = IF "meta" \in fs THEN "none" ELSE meta
    /\ state' = IF "state" \in fs THEN Absent ELSE state
    /\ vhost' = (vhost /\ "vhost" \notin fs)

-----------------------------------------------------------------------------
(* vm create: CreateFromImageWithOptions, CreateFromSnapshot *)

\* os.Mkdir is exclusive: an existing directory makes the command fail.
CreateMkdir(c) ==
    /\ pc[c] = "idle" /\ ~dir
    /\ dir' = TRUE
    /\ Goto(c, "create.copy")
    /\ UNCHANGED <<meta, state, vhost, torn, os, loc, args, snaps>>

\* Artifacts, keys and configuration are in place; metadata.json is written.
CreateMetadata(c) ==
    /\ pc[c] = "create.copy" /\ dir
    /\ \/ meta' = "boot"
       \/ meta' = "restore" /\ snaps # {}
    /\ Goto(c, "create.state")
    /\ UNCHANGED <<dir, torn, state, vhost, os, loc, args, snaps>>

CreateState(c) ==
    /\ pc[c] = "create.state"
    /\ WriteState(Stopped)
    /\ Return(c)
    /\ UNCHANGED <<dir, torn, meta, vhost, os, snaps>>

\* Mutant: an error leaves the directory as it is.
CreateFail_LeavesDirectory(c) ==
    /\ pc[c] \in {"create.copy", "create.state"}
    /\ Return(c)
    /\ UNCHANGED <<disk, os, snaps>>

\* Any error after the Mkdir removes the whole directory.  An error of that
\* removal is ignored, and leaves what it has not unlinked yet.
CreateFail(c) ==
    /\ pc[c] \in {"create.copy", "create.state"}
    /\ \/ Unlink(Files) /\ dir' = FALSE /\ torn' = FALSE
       \/ /\ "io" \in Faults
          /\ \E fs \in SUBSET Files : Unlink(fs)
          /\ torn' = dir
          /\ UNCHANGED dir
    /\ Return(c)
    /\ UNCHANGED <<os, snaps>>

-----------------------------------------------------------------------------
(* vm start: Start, startCloudHypervisor, startCloudHypervisorRestore *)

\* Nothing of the state found on disk survives in the state being built.
StartBegin(c) ==
    /\ pc[c] = "idle" /\ meta # "none" /\ state.status # "absent"
    /\ ~RunningAlive(state)
    /\ Keep(c, [Stopped EXCEPT !.status = "running"])
    /\ mode' = [mode EXCEPT ![c] = IF meta = "restore" THEN meta ELSE @]
    /\ Goto(c, "start.net")
    /\ UNCHANGED <<disk, os, todo, target, snaps>>

\* The devices of a restored guest are those of the snapshot: no new share.
AfterNet(c) == IF mode[c] = "restore" THEN "start.spawn" ELSE "start.share"

StartNet(c) ==
    /\ pc[c] = "start.net" /\ dir
    /\ \E p \in Fresh : Spawn(p, "net") /\ KeepHelper(c, "net", p)
    /\ vhost' = TRUE
    /\ Goto(c, AfterNet(c))
    /\ UNCHANGED <<dir, torn, meta, state, doomed, sock, paused, mute, args, snaps>>

\* The command goes on without a network when the image has no Docker and,
\* unless it restores, when passt does not come up; it ends when the VM's
\* configuration cannot be read, or when a restore finds no passt.  A passt that
\* fails has had the socket of an earlier one removed.
StartNetFail(c) ==
    /\ pc[c] = "start.net"
    /\ \/ UNCHANGED vhost /\ Return(c)
       \/ UNCHANGED vhost /\ Goto(c, AfterNet(c)) /\ UNCHANGED <<loc, args>>
       \/ vhost' = FALSE /\ mode[c] = "restore" /\ Return(c)
       \/ /\ vhost' = FALSE /\ mode[c] # "restore"
          /\ Goto(c, AfterNet(c))
          /\ UNCHANGED <<loc, args>>
    /\ UNCHANGED <<dir, torn, meta, state, os, snaps>>

StartShare(c) ==
    /\ pc[c] = "start.share"
    /\ \/ dir /\ \E p \in Fresh : Spawn(p, "share") /\ KeepHelper(c, "share", p)
       \/ UNCHANGED <<proc, loc>>
    /\ Goto(c, "start.spawn")
    /\ UNCHANGED <<disk, doomed, sock, paused, mute, args, snaps>>

\* The sockets of an earlier VMM are unlinked, whoever still listens on them.
StartSpawn(c) ==
    /\ pc[c] = "start.spawn" /\ dir
    /\ sock' = NoPid
    /\ \E p \in Fresh :
          /\ Spawn(p, IF mode[c] = "restore" THEN "load" ELSE "boot")
          /\ loc' = [loc EXCEPT ![c].pid = p]
    /\ Goto(c, "start.record")
    /\ UNCHANGED <<disk, doomed, paused, mute, args, snaps>>

\* The restore artifacts are incomplete, or the VMM cannot be executed.
StartSpawnFail(c) ==
    /\ pc[c] = "start.spawn"
    /\ sock' = NoPid
    /\ Terminate(Backends(loc[c]), {})
    /\ RemoveVhost(loc[c])
    /\ Return(c)
    /\ UNCHANGED <<dir, torn, meta, state, paused, mute, snaps>>

\* The VMM log cannot be opened: an early return without any cleanup.
StartLogFail(c) ==
    /\ pc[c] = "start.spawn" /\ WriteFails
    /\ sock' = NoPid
    /\ Return(c)
    /\ UNCHANGED <<dir, torn, meta, vhost, proc, doomed, paused, mute, snaps>>

StartRecord(c) ==
    /\ pc[c] = "start.record"
    /\ WriteState(loc[c])
    /\ Goto(c, "start.api")
    /\ UNCHANGED <<dir, torn, meta, vhost, os, loc, args, snaps>>

\* Mutant: the VMM is not told to exit.
GiveUpVMM_NoSignal(s) == Terminate(Backends(s), {}) /\ RemoveVhost(s)

\* From here on a failure sends the VMM a SIGTERM, does not wait for it, and
\* cleans up the network and the host share.
GiveUpVMM(s) == Terminate(Backends(s), {s.pid}) /\ RemoveVhost(s)

StartRecordFail(c) ==
    /\ pc[c] = "start.record" /\ WriteFails
    /\ GiveUpVMM(loc[c])
    /\ Return(c)
    /\ UNCHANGED <<dir, torn, meta, sock, paused, mute, snaps>>

\* WaitForAPI is content with whoever answers on the path, and vm.resume goes
\* there too; a restored guest is paused until then.
StartApiUp(c) ==
    /\ pc[c] = "start.api" /\ sock # NoPid
    /\ mode[c] = "restore" => sock \in paused
    /\ paused' = IF mode[c] = "restore" THEN paused \ {sock} ELSE paused
    /\ Goto(c, "start.ssh")
    /\ UNCHANGED <<disk, proc, doomed, sock, mute, loc, args, snaps>>

\* The vsock socket is there and an SSH handshake with the guest succeeds.
StartExecReady(c) ==
    /\ pc[c] = "start.ssh" /\ sock # NoPid /\ sock \notin paused
    /\ loc' = [loc EXCEPT ![c].execReady = TRUE]
    /\ todo' = [todo EXCEPT ![c] = Relays]
    /\ Goto(c, "start.relays")
    /\ UNCHANGED <<disk, os, mode, target, snaps>>

\* Mutant: the wait for the API has no deadline.
StartAbort_ApiNeverTimesOut(c) ==
    /\ pc[c] = "start.ssh"
    /\ GiveUpVMM(loc[c])
    /\ Goto(c, "start.abort")
    /\ UNCHANGED <<dir, torn, meta, state, sock, paused, mute, loc, args, snaps>>

\* One of the waits timed out, the VMM died or the resume failed, which does not
\* say that it had no effect.
StartAbort(c) ==
    /\ pc[c] \in {"start.api", "start.ssh"}
    /\ \/ UNCHANGED paused
       \/ pc[c] = "start.api" /\ mode[c] = "restore" /\ Unanswered(paused \ {sock})
    /\ GiveUpVMM(loc[c])
    /\ Goto(c, "start.abort")
    /\ UNCHANGED <<dir, torn, meta, state, sock, mute, loc, args, snaps>>

\* The error of this write is ignored.
StartAborted(c) ==
    /\ pc[c] = "start.abort"
    /\ WriteState(Stopped) \/ WriteFails
    /\ Return(c)
    /\ UNCHANGED <<dir, torn, meta, vhost, os, snaps>>

\* The relays come up in this order; the port relay needs the Docker relay,
\* the registry relay the Kubernetes relay.
Earlier(k) == CASE k = "docker"   -> {}
                [] k = "port"     -> {"docker"}
                [] k = "kube"     -> {"docker", "port"}
                [] k = "registry" -> {"docker", "port", "kube"}
Needs(k) == CASE k = "port"     -> {"docker"} \cap Relays
              [] k = "registry" -> {"kube"} \cap Relays
              [] OTHER          -> {}

NextRelay(c, k) == k \in todo[c] /\ Earlier(k) \cap todo[c] = {}

StartRelay(c, k) ==
    /\ pc[c] = "start.relays" /\ NextRelay(c, k)
    /\ \A j \in Needs(k) : loc[c].helper[j] # NoPid
    /\ \E p \in Fresh : Spawn(p, k) /\ KeepHelper(c, k, p)
    /\ todo' = [todo EXCEPT ![c] = @ \ {k}]
    /\ UNCHANGED <<disk, doomed, sock, paused, mute, pc, mode, target, snaps>>

\* The relay is not wanted, or did not come up and was terminated again.
StartRelaySkip(c, k) ==
    /\ pc[c] = "start.relays" /\ NextRelay(c, k)
    /\ todo' = [todo EXCEPT ![c] = @ \ {k}]
    /\ UNCHANGED <<disk, os, pc, loc, mode, target, snaps>>

\* The second write of state.json, with the relays.  When it fails the command
\* reports the error and leaves everything running.
StartFinish(c) ==
    /\ pc[c] = "start.relays" /\ todo[c] = {}
    /\ WriteState(loc[c]) \/ WriteFails
    /\ Return(c)
    /\ UNCHANGED <<dir, torn, meta, vhost, os, snaps>>

-----------------------------------------------------------------------------
(* vm stop: Stop, stop, stopCloudHypervisor *)

\* The same function serves `vm stop` and a forced `vm delete`.
StopRead(c) ==
    /\ meta # "none" /\ state.status # "absent"
    /\ Keep(c, state)
    /\ Goto(c, IF RunningAlive(state) THEN "stop.relays" ELSE "stop.stale")

StopBegin(c) ==
    /\ pc[c] = "idle"
    /\ StopRead(c)
    /\ UNCHANGED <<disk, os, args, snaps>>

\* The VM is not running: the host share and the relays that state.json names
\* are cleaned up, its network is not.
StopStale(c) ==
    /\ pc[c] = "stop.stale"
    /\ Terminate(PidsOf(loc[c], {"share"}), PidsOf(loc[c], Relays))
    /\ Goto(c, "stop.write")
    /\ UNCHANGED <<disk, sock, paused, mute, loc, args, snaps>>

StopRelays(c) ==
    /\ pc[c] = "stop.relays"
    /\ Terminate({}, PidsOf(loc[c], Relays))
    /\ Goto(c, IF mode[c] = "delete" THEN "stop.vmm" ELSE "stop.vm")
    /\ UNCHANGED <<disk, sock, paused, mute, loc, args, snaps>>

\* A graceful stop first sends vm.shutdown, to whoever answers on the path.
\* Whether the VMM exits after it is up to the VMM.
StopVm(c) ==
    /\ pc[c] = "stop.vm"
    /\ Terminate({}, {}) \/ Terminate({}, {sock})
    /\ Goto(c, "stop.vmm")
    /\ UNCHANGED <<disk, sock, paused, mute, loc, args, snaps>>

StopVmm(c) ==
    /\ pc[c] = "stop.vmm"
    /\ Terminate({}, {sock}) \/ (sock \in mute /\ Terminate({}, {}))
    /\ Goto(c, "stop.wait")
    /\ UNCHANGED <<disk, sock, paused, mute, loc, args, snaps>>

\* waitForExit on the PID that was read from state.json, after either request
\* or either signal.
StopExited(c) ==
    /\ pc[c] \in {"stop.vmm", "stop.wait", "stop.kill"} /\ ~Alive(loc[c].pid)
    /\ pc[c] = "stop.vmm" => mode[c] # "delete"
    /\ Terminate(Backends(loc[c]), {})
    /\ RemoveVhost(loc[c])
    /\ Goto(c, "stop.write")
    /\ UNCHANGED <<dir, torn, meta, state, sock, paused, mute, loc, args, snaps>>

\* The wait timed out: SIGTERM, later SIGKILL, to that PID.
StopSignal(c) ==
    /\ pc[c] = "stop.wait"
    /\ Terminate({}, {loc[c].pid})
    /\ Goto(c, "stop.kill")
    /\ UNCHANGED <<disk, sock, paused, mute, loc, args, snaps>>

\* The last wait timed out too: an error, and state.json still says running.
StopGiveUp(c) ==
    /\ pc[c] = "stop.kill" /\ Alive(loc[c].pid) /\ WaitTimesOut(c)
    /\ Return(c)
    /\ UNCHANGED <<disk, os, snaps>>

StopWrite(c) ==
    /\ pc[c] = "stop.write"
    /\ \/ /\ WriteState(Stopped) /\ mode[c] = "delete"
          /\ Goto(c, "delete.unmerge")
          /\ UNCHANGED <<loc, args>>
       \/ /\ WriteState(Stopped) /\ mode[c] # "delete"
          /\ Return(c)
       \/ WriteFails /\ Return(c)
    /\ UNCHANGED <<dir, torn, meta, vhost, os, snaps>>

-----------------------------------------------------------------------------
(* vm delete: DeleteVM *)

\* The VM is not running, so nothing is stopped before the removal.
DeleteBegin(c) ==
    /\ pc[c] = "idle" /\ dir /\ state.status # "absent"
    /\ ~RunningAlive(state)
    /\ Goto(c, "delete.unmerge")
    /\ mode' = [mode EXCEPT ![c] = "delete"]
    /\ UNCHANGED <<disk, os, loc, todo, target, snaps>>

\* delete --force of a running VM goes through stop, which reads again.
DeleteForce(c) ==
    /\ pc[c] = "idle" /\ dir /\ RunningAlive(state)
    /\ Goto(c, "stop.begin")
    /\ mode' = [mode EXCEPT ![c] = "delete"]
    /\ UNCHANGED <<disk, os, loc, todo, target, snaps>>

DeleteStop(c) ==
    /\ pc[c] = "stop.begin"
    /\ \/ StopRead(c) /\ UNCHANGED args
       \/ (meta = "none" \/ state.status = "absent") /\ Return(c)
    /\ UNCHANGED <<disk, os, snaps>>

\* The files that os.RemoveAll finds when it lists the directory.
Listing ==
    {f \in Files : \/ f = "meta"  /\ meta # "none"
                   \/ f = "state" /\ state.status # "absent"
                   \/ f = "vhost" /\ vhost}

\* The kubeconfig contexts are unmerged first; an error there ends the delete.
DeleteUnmerge(c) ==
    /\ pc[c] = "delete.unmerge"
    /\ \/ /\ Goto(c, "delete.remove")
          /\ todo' = [todo EXCEPT ![c] = Listing]
          /\ UNCHANGED <<loc, mode, target>>
       \/ Return(c)
    /\ UNCHANGED <<disk, os, snaps>>

\* The listed files are unlinked one by one, in any order.
DeleteFile(c) ==
    /\ pc[c] = "delete.remove"
    /\ \E f \in todo[c] : Unlink({f}) /\ todo' = [todo EXCEPT ![c] = @ \ {f}]
    /\ UNCHANGED <<dir, torn, os, pc, loc, mode, target, snaps>>

\* Then the directory, unless a file has appeared in it: an error.
DeleteDir(c) ==
    /\ pc[c] = "delete.remove" /\ todo[c] = {}
    /\ dir' = (dir /\ Listing # {})
    /\ torn' = (torn /\ dir')
    /\ Return(c)
    /\ UNCHANGED <<meta, state, vhost, os, snaps>>

\* Any of the removals may fail, which ends the delete.
DeleteFail(c) ==
    /\ pc[c] = "delete.remove" /\ "io" \in Faults
    /\ torn' = dir
    /\ Return(c)
    /\ UNCHANGED <<dir, meta, state, vhost, os, snaps>>

-----------------------------------------------------------------------------
(* snapshot create: SnapshotCreateWithOptions, createCloudHypervisorSnapshot *)

SnapBegin(c, n) ==
    /\ pc[c] = "idle" /\ meta # "none"
    /\ RunningAlive(state) /\ state.execReady
    /\ Keep(c, state)
    /\ target' = [target EXCEPT ![c] = n]
    /\ Goto(c, "snap.unmount")
    /\ UNCHANGED <<disk, os, todo, mode, snaps>>

\* The host share is unmounted in the guest before the name is looked up.
SnapUnmount(c) ==
    /\ pc[c] = "snap.unmount"
    /\ \/ target[c] \notin snaps /\ Goto(c, "snap.pause") /\ UNCHANGED <<loc, args>>
       \/ target[c] \in snaps /\ Return(c)
    /\ UNCHANGED <<disk, os, snaps>>

\* vm.pause goes to whoever answers, and is refused by a paused VM.
SnapPause(c) ==
    /\ pc[c] = "snap.pause"
    /\ sock # NoPid /\ sock \notin paused
    /\ paused' = paused \cup {sock}
    /\ Goto(c, "snap.save")
    /\ UNCHANGED <<disk, proc, doomed, sock, mute, loc, args, snaps>>

\* An error before the pause or of the pause itself, which is not undone: the
\* deferred resume knows of a pause that was confirmed only.
SnapPauseFail(c) ==
    /\ pc[c] = "snap.pause"
    /\ UNCHANGED paused \/ Unanswered(paused \cup {sock})
    /\ Return(c)
    /\ UNCHANGED <<disk, proc, doomed, sock, mute, snaps>>

\* vm.snapshot, the copies of the disks and keys, metadata.json, the check.
SnapSave(c) ==
    /\ pc[c] = "snap.save" /\ dir
    /\ sock # NoPid /\ sock \in paused
    /\ Goto(c, "snap.shutdown")
    /\ UNCHANGED <<disk, os, loc, args, snaps>>

SnapShutdown(c) ==
    /\ pc[c] = "snap.shutdown" /\ sock # NoPid
    /\ Terminate({}, {sock})
    /\ Goto(c, "snap.wait")
    /\ UNCHANGED <<disk, sock, paused, mute, loc, args, snaps>>

\* Mutant: the deferred resume is missing.
SnapAbort_NoResume(c) ==
    /\ pc[c] \in {"snap.save", "snap.shutdown", "snap.wait"}
    /\ Return(c)
    /\ UNCHANGED <<disk, os, snaps>>

\* Any error, or a timeout, before the VMM has exited: the temporary directory
\* is removed and the deferred vm.resume is sent, whose error is ignored.  A
\* vmm.shutdown that failed may have been taken all the same.
SnapAbort(c) ==
    /\ pc[c] \in {"snap.save", "snap.shutdown", "snap.wait"}
    /\ pc[c] = "snap.wait" =>
          Alive(loc[c].pid) /\ (WaitTimesOut(c) \/ loc[c].pid \in mute)
    /\ paused' = paused \ {sock} \/ Unanswered(paused)
    /\ \/ UNCHANGED <<proc, doomed>>
       \/ pc[c] = "snap.shutdown" /\ sock \in mute /\ Terminate({}, {sock})
    /\ Return(c)
    /\ UNCHANGED <<disk, sock, mute, snaps>>

\* Mutant: the relays of the snapshotted VM are left running.
SnapExited_KeepsRelays(c) ==
    /\ pc[c] = "snap.wait" /\ ~Alive(loc[c].pid)
    /\ Terminate(Backends(loc[c]), {})
    /\ RemoveVhost(loc[c])
    /\ Goto(c, "snap.write")
    /\ UNCHANGED <<dir, torn, meta, state, sock, paused, mute, loc, args, snaps>>

SnapExited(c) ==
    /\ pc[c] = "snap.wait" /\ ~Alive(loc[c].pid)
    /\ Terminate(Backends(loc[c]), PidsOf(loc[c], Relays))
    /\ RemoveVhost(loc[c])
    /\ Goto(c, "snap.write")
    /\ UNCHANGED <<dir, torn, meta, state, sock, paused, mute, loc, args, snaps>>

\* When this write fails the snapshot is given up.
SnapWrite(c) ==
    /\ pc[c] = "snap.write"
    /\ \/ WriteState(Stopped) /\ Goto(c, "snap.publish") /\ UNCHANGED <<loc, args>>
       \/ WriteFails /\ Return(c)
    /\ UNCHANGED <<dir, torn, meta, vhost, os, snaps>>

\* os.Rename fails over a snapshot that was published meanwhile, and on an
\* input/output error: the temporary directory is removed again.
SnapPublish(c) ==
    /\ pc[c] = "snap.publish"
    /\ \/ target[c] \notin snaps /\ snaps' = snaps \cup {target[c]}
       \/ (target[c] \in snaps \/ "io" \in Faults) /\ UNCHANGED snaps
    /\ Return(c)
    /\ UNCHANGED <<disk, os>>

-----------------------------------------------------------------------------
(* The processes and the end of a command *)

\* A VMM binds the API socket path, unless a SIGTERM comes first; a restored
\* guest is paused until resumed.
VmmListen(p) ==
    /\ proc[p] \in {"boot", "load"} /\ p \notin doomed /\ sock = NoPid
    /\ proc' = [proc EXCEPT ![p] = "vmm"]
    /\ sock' = p
    /\ paused' = IF proc[p] = "load" THEN paused \cup {p} ELSE paused
    /\ UNCHANGED <<disk, doomed, mute, cmd, snaps>>

\* A VMM, or its guest, hangs: whoever asks it something may get no answer.
VmmHang(p) ==
    /\ "vmm-hang" \in Faults /\ proc[p] = "vmm" /\ p \notin mute
    /\ mute' = mute \cup {p}
    /\ UNCHANGED <<disk, proc, doomed, sock, paused, cmd, snaps>>

\* A process exits because it was told to, because another VMM holds its
\* socket, or because it crashes.
ProcessExit(p) ==
    /\ \/ p \in doomed
       \/ proc[p] \in {"boot", "load"} /\ sock # NoPid
       \/ IsVMM(p) /\ "vmm-crash" \in Faults
       \/ proc[p] \in Helpers /\ "helper-crash" \in Faults
    /\ proc' = [proc EXCEPT ![p] = "free"]
    /\ doomed' = doomed \ {p}
    /\ paused' = paused \ {p}
    /\ mute' = mute \ {p}
    /\ sock' = IF sock = p THEN NoPid ELSE sock
    /\ UNCHANGED <<disk, cmd, snaps>>

\* The command itself is killed; its children run in sessions of their own.
CliCrash(c) ==
    /\ "cli-crash" \in Faults /\ pc[c] # "idle"
    /\ Return(c)
    /\ UNCHANGED <<disk, os, snaps>>

-----------------------------------------------------------------------------
Create(c) == CreateMkdir(c) \/ CreateMetadata(c) \/ CreateState(c) \/ CreateFail(c)

Start(c) ==
    \/ StartBegin(c) \/ StartNet(c) \/ StartNetFail(c) \/ StartShare(c)
    \/ StartSpawn(c) \/ StartSpawnFail(c) \/ StartLogFail(c)
    \/ StartRecord(c) \/ StartRecordFail(c) \/ StartApiUp(c)
    \/ StartExecReady(c) \/ StartAbort(c) \/ StartAborted(c)
    \/ \E k \in Relays : StartRelay(c, k) \/ StartRelaySkip(c, k)
    \/ StartFinish(c)

Stop(c) ==
    \/ StopBegin(c) \/ StopStale(c) \/ StopRelays(c) \/ StopVm(c) \/ StopVmm(c)
    \/ StopExited(c) \/ StopSignal(c) \/ StopGiveUp(c) \/ StopWrite(c)

Delete(c) ==
    \/ DeleteBegin(c) \/ DeleteForce(c) \/ DeleteStop(c) \/ DeleteUnmerge(c)
    \/ DeleteFile(c) \/ DeleteDir(c) \/ DeleteFail(c)

Snapshot(c) ==
    \/ \E n \in SnapName : SnapBegin(c, n)
    \/ SnapUnmount(c) \/ SnapPause(c) \/ SnapPauseFail(c)
    \/ SnapSave(c) \/ SnapShutdown(c)
    \/ SnapAbort(c) \/ SnapExited(c) \/ SnapWrite(c) \/ SnapPublish(c)

Process == \E p \in Pid : VmmListen(p) \/ VmmHang(p) \/ ProcessExit(p)

Command(c) == Create(c) \/ Start(c) \/ Stop(c) \/ Delete(c) \/ Snapshot(c)

Next == \/ \E c \in Cli : Command(c) \/ CliCrash(c)
        \/ Process

Spec == Init /\ [][Next]_vars

\* DialVsock waits for its answer without a deadline (the wait for the guest's
\* SSH, the mount and unmount of the host share), and neither a VMM that hangs
\* nor a paused guest gives one.
Dialing == {"start.ssh", "start.relays", "stop.relays", "stop.stale", "snap.unmount"}
Held(c) == pc[c] \in Dialing /\ mute \cup paused # {}

\* A started command keeps executing unless it is held up; nothing is assumed
\* of the processes it waits for.
Step(c) == pc[c] # "idle" /\ ~Held(c) /\ Command(c)
FairSpec == Spec /\ \A c \in Cli : WF_vars(Step(c))

-----------------------------------------------------------------------------
(* Properties *)

Idle == \A c \in Cli : pc[c] = "idle"

\* A VMM that has been told to exit is on its way out.
LiveVMM(p) == IsVMM(p) /\ p \notin doomed

\* Nobody loses a VMM: each one that is to go on running is the one state.json
\* records as running, or the start that spawned it is about to record it.  In
\* particular there is never a second VMM on the same disk.
LiveVMMRecorded ==
    \A p \in Pid : LiveVMM(p) =>
        \/ state.status = "running" /\ state.pid = p
        \/ \E c \in Cli : pc[c] = "start.record" /\ loc[c].pid = p

\* A command that ends, however it ends, leaves no VM directory that later
\* commands cannot read: start and stop need both files, delete needs
\* state.json.  Only a removal that failed itself, of a create or a delete, does.
NoWedgedDirectory ==
    Idle /\ dir /\ ~torn => meta # "none" /\ state.status # "absent"

\* Between commands every process spind left behind, and the vhost-user
\* socket, is named by state.json, so a stop can find it.
NoStrayProcess ==
    Idle => /\ \A p \in Pid : proc[p] # "free" /\ p \notin doomed
                                 => p \in Names(state)
            /\ vhost => state.helper["net"] # NoPid

\* A stop, forced delete or snapshot that read a running VM goes on to write
\* "stopped" only after the VMM it read has exited, however commands, kills and
\* hanging VMMs interleave with its waits.  It says nothing of a VMM started
\* since, whose record such a write may erase.
ExitBeforeWrite ==
    \A c \in Cli : pc[c] \in {"stop.write", "snap.write", "snap.publish"}
                       => ~IsVMM(loc[c].pid)

\* Between commands no guest that goes on running is left paused: a snapshot
\* that fails resumes it, a restore that cannot resume it gives the VMM up.  The
\* requests for that may fail, and nobody repeats them, when the VMM hangs.
GuestResumed == Idle => \A p \in paused : ~LiveVMM(p) \/ p \in mute

\* A snapshot appears only once its VM has stopped and is recorded so, with
\* none of its processes left behind.
PublishAfterStop ==
    [][snaps' # snaps => /\ state.status = "stopped"
                         /\ \A p \in Pid : proc[p] # "free" => p \in doomed]_vars

\* Every command ends, whatever dies, hangs or is a zombie, except one that time
\* and again finds a VMM hanging, or a guest paused, that it has asked something
\* over the vsock.
CommandReturns == \A c \in Cli : []<>(pc[c] = "idle") \/ []<>Held(c)

\* A VM that state.json says is stopped has no process and no vhost-user socket
\* left, not even when stop found its VMM gone (roadmap.md,
\* cloud-hypervisor-backend.md).
StoppedLeavesNothing ==
    Idle /\ state.status = "stopped" =>
        /\ \A p \in Pid : proc[p] # "free" => p \in doomed
        /\ ~vhost

\* No VMM is spawned for a VM that state.json says is running and whose VMM is
\* alive: a start of it adds no VM (minimum-cli.md).
NoSpawnOverRunning ==
    [][(\E p \in Pid : ~IsVMM(p) /\ IsVMM(p)') => ~RunningAlive(state)]_vars

\* Of a stop and a snapshot of the same running VM one fails (snapshot.md,
\* cloud-hypervisor-backend.md): they never both get past the last step where
\* they could.
StopExcludesSnapshot ==
    \A c, d \in Cli :
        ~ /\ pc[c] \in {"stop.vm", "stop.vmm", "stop.wait"}
          /\ pc[d] = "snap.write"
          /\ loc[c].pid = loc[d].pid
=============================================================================
