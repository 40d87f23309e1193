----------------------------- MODULE VZLifecycle -----------------------------
(***************************************************************************)
(* `spind vm start`, `vm stop` and `snapshot create` for a VM of the       *)
(* Virtualization.framework backend (internal/spind/vm/start), against the *)
(* runner process of VZRunner.  The VM has been created, from an image or  *)
(* from a snapshot.                                                        *)
(***************************************************************************)
EXTENDS VZRunner

CONSTANTS Cli,      \* the commands that may be in flight at the same time
          NoDir     \* a command that has no temporary directory

ASSUME LifecycleConstants == NoDir \notin Dir

VARIABLES
    state,     \* state.json: the status, the PID and whether exec is ready
    pc,        \* where each command is
    me,        \* the process each command deals with
    dirOf      \* the temporary directory of each snapshot command

goVars == <<state, pc, me, dirOf>>
vars == <<runnerVars, goVars>>

StateRec == [status : {"stopped", "running"}, pid : Pid \cup {NoPid}, ready : BOOLEAN]
Stopped == [status |-> "stopped", pid |-> NoPid, ready |-> FALSE]

StartSteps == {"start.spawn", "start.record", "start.events", "start.relay",
               "start.ssh", "start.write", "start.abort"}
StopSteps == {"stop.signal", "stop.wait", "stop.write"}
SnapSteps == {"snap.dial", "snap.reply", "snap.wait", "snap.copy", "snap.write",
              "snap.publish", "snap.fail"}

TypeOK ==
    /\ RunnerTypeOK
    /\ state \in StateRec
    /\ pc \in [Cli -> {"idle"} \cup StartSteps \cup StopSteps \cup SnapSteps]
    /\ me \in [Cli -> Pid \cup {NoPid}]
    /\ dirOf \in [Cli -> Dir \cup {NoDir}]

Init ==
    /\ RunnerInit
    /\ state = Stopped
    /\ pc = [c \in Cli |-> "idle"]
    /\ me = [c \in Cli |-> NoPid] /\ dirOf = [c \in Cli |-> NoDir]

-----------------------------------------------------------------------------
(* Commands *)

\* A runner that has exited is a zombie, which kill(pid, 0) finds, until the
\* start that spawned it returns.
Alive(p) ==
    /\ p \in Pid
    /\ stage[p] # "free" \/ \E c \in Cli : pc[c] \in StartSteps /\ me[c] = p

Fresh == {p \in Pid : stage[p] = "free" /\ p # state.pid /\ \A c \in Cli : me[c] # p}

Goto(c, s) == pc' = [pc EXCEPT ![c] = s] /\ UNCHANGED <<me, dirOf>>

Return(c) ==
    /\ pc' = [pc EXCEPT ![c] = "idle"]
    /\ me' = [me EXCEPT ![c] = NoPid]
    /\ dirOf' = [dirOf EXCEPT ![c] = NoDir]

WriteFails == "io" \in Faults /\ UNCHANGED state

Record(p, r) == state' = [status |-> "running", pid |-> p, ready |-> r]

-----------------------------------------------------------------------------
(* start and restore *)

\* The sockets of the last run are removed.
Begin(c) ==
    /\ pc[c] = "idle"
    /\ ~(state.status = "running" /\ Alive(state.pid))
    /\ socks' = NoPid
    /\ Goto(c, "start.spawn")
    /\ UNCHANGED <<kind, stage, machine, told, events, job, saved, state>>

StartBegin(c) == kind = "boot" /\ Begin(c)

\* A VM created from a snapshot; the files of the snapshot have been verified.
RestoreBegin(c) == kind = "restore" /\ Begin(c)

StartSpawn(c) ==
    /\ pc[c] = "start.spawn"
    /\ \E p \in Fresh :
         /\ stage' = [stage EXCEPT ![p] = "launched"]
         /\ events' = [events EXCEPT ![p] = {}]
         /\ me' = [me EXCEPT ![c] = p]
    /\ pc' = [pc EXCEPT ![c] = "start.record"]
    /\ UNCHANGED <<kind, machine, told, socks, job, saved, state, dirOf>>

StartRecord(c) ==
    /\ pc[c] = "start.record" /\ kind = "boot"
    /\ Record(me[c], FALSE)
    /\ Goto(c, "start.relay")
    /\ UNCHANGED runnerVars

\* A restore has yet to hear the runner's events.
RestoreRecord(c) ==
    /\ pc[c] = "start.record" /\ kind = "restore"
    /\ Record(me[c], FALSE)
    /\ Goto(c, "start.events")
    /\ UNCHANGED runnerVars

StartRecordFail(c) ==
    /\ "io" \in Faults /\ pc[c] = "start.record"
    /\ Sigterm(me[c])
    /\ Return(c)
    /\ UNCHANGED state

\* Mutant: the first event is taken for the last.
StartEvents_First(c) ==
    /\ pc[c] = "start.events"
    /\ "restore-completed" \in events[me[c]]
    /\ Goto(c, "start.relay")
    /\ UNCHANGED <<runnerVars, state>>

StartEvents(c) ==
    /\ pc[c] = "start.events"
    /\ {"restore-completed", "resume-completed", "exec-relay-ready"} \subseteq events[me[c]]
    /\ Goto(c, "start.relay")
    /\ UNCHANGED <<runnerVars, state>>

\* exec.sock exists.
StartRelay(c) ==
    /\ pc[c] = "start.relay" /\ socks # NoPid
    /\ Goto(c, "start.ssh")
    /\ UNCHANGED <<runnerVars, state>>

\* Mutant: a runner that does not come up is left to itself.
StartFail_NoSignal(c) ==
    /\ pc[c] \in {"start.events", "start.relay"}
    /\ stage[me[c]] = "free" \/ "slow" \in Faults
    /\ Goto(c, "start.abort")
    /\ UNCHANGED <<runnerVars, state>>

\* The runner has exited, or a deadline passes.
StartFail(c) ==
    /\ pc[c] \in {"start.events", "start.relay"}
    /\ stage[me[c]] = "free" \/ "slow" \in Faults
    /\ Sigterm(me[c])
    /\ Goto(c, "start.abort")
    /\ UNCHANGED state

\* The abort does not wait for the exit, and ignores the error of its write.
StartAbort(c) ==
    /\ pc[c] = "start.abort"
    /\ state' = Stopped \/ WriteFails
    /\ Return(c)
    /\ UNCHANGED runnerVars

\* The SSH handshake through exec.sock, whoever serves it.
StartReady(c) ==
    /\ pc[c] = "start.ssh" /\ socks # NoPid /\ machine[socks] = "running"
    /\ Goto(c, "start.write")
    /\ UNCHANGED <<runnerVars, state>>

\* Without it the VM stays recorded as running, and not ready.
StartNotReady(c) ==
    /\ pc[c] = "start.ssh"
    /\ \/ socks = NoPid
       \/ stage[socks] \notin {"listening", "deaf"} /\ machine[socks] \notin Coming
       \/ "slow" \in Faults
    /\ Return(c)
    /\ UNCHANGED <<runnerVars, state>>

StartWrite(c) ==
    /\ pc[c] = "start.write"
    /\ Record(me[c], TRUE) \/ WriteFails
    /\ Return(c)
    /\ UNCHANGED runnerVars

-----------------------------------------------------------------------------
(* stop *)

StopBegin(c) ==
    /\ pc[c] = "idle"
    /\ me' = [me EXCEPT ![c] = state.pid]
    /\ pc' = [pc EXCEPT ![c] = IF state.status = "running" /\ Alive(state.pid)
                                 THEN "stop.signal" ELSE "stop.write"]
    /\ UNCHANGED <<runnerVars, state, dirOf>>

StopSignal(c) ==
    /\ pc[c] = "stop.signal"
    /\ Sigterm(me[c])
    /\ Goto(c, "stop.wait")
    /\ UNCHANGED state

StopExited(c) ==
    /\ pc[c] = "stop.wait" /\ ~Alive(me[c])
    /\ Goto(c, "stop.write")
    /\ UNCHANGED <<runnerVars, state>>

\* Five seconds are enough for a runner that heard the signal, but not for a
\* zombie whose parent waits on.
StopGiveUp(c) ==
    /\ pc[c] = "stop.wait"
    /\ stage[me[c]] = "free" \/ told[me[c]] = "lost" \/ "slow" \in Faults
    /\ Return(c)
    /\ UNCHANGED <<runnerVars, state>>

StopWrite(c) ==
    /\ pc[c] = "stop.write"
    /\ state' = Stopped \/ WriteFails
    /\ Return(c)
    /\ UNCHANGED runnerVars

-----------------------------------------------------------------------------
(* snapshot create *)

\* MkdirTemp: no name is given twice.
SnapBegin(c) ==
    /\ pc[c] = "idle"
    /\ state.status = "running" /\ state.ready /\ Alive(state.pid)
    /\ me' = [me EXCEPT ![c] = state.pid]
    /\ pc' = [pc EXCEPT ![c] = "snap.dial"]
    /\ \E d \in Dir :
         /\ job[d].run = NoPid /\ \A b \in Cli : dirOf[b] # d
         /\ dirOf' = [dirOf EXCEPT ![c] = d]
         /\ job' = [job EXCEPT ![d] = NoJob]
         /\ saved' = [saved EXCEPT ![d] = "empty"]
    /\ UNCHANGED <<kind, stage, machine, told, events, socks, state>>

\* vz.Save connects and sends its request.
SnapDial(c) ==
    /\ pc[c] = "snap.dial"
    /\ IF socks # NoPid /\ stage[socks] # "free"
         THEN /\ job' = [job EXCEPT ![dirOf[c]] = [at |-> "asked", run |-> socks]]
              /\ Goto(c, "snap.reply")
         ELSE Goto(c, "snap.fail") /\ UNCHANGED job
    /\ UNCHANGED <<kind, stage, machine, told, events, socks, saved, state>>

\* The reply, the end of the stream, or the deadline of two minutes.
SnapReply(c) ==
    /\ pc[c] = "snap.reply"
    /\ \/ job[dirOf[c]].at = "ok" /\ Goto(c, "snap.wait")
       \/ /\ job[dirOf[c]].at \in {"failed", "refused", "dropped"} \/ "slow" \in Faults
          /\ Goto(c, "snap.fail")
    /\ UNCHANGED <<runnerVars, state>>

SnapExited(c) ==
    /\ pc[c] = "snap.wait" /\ ~Alive(me[c])
    /\ Goto(c, "snap.copy")
    /\ UNCHANGED <<runnerVars, state>>

\* The disks, the kernel, the keys and metadata.json; then all is verified.
SnapCopy(c) ==
    /\ pc[c] = "snap.copy" /\ saved[dirOf[c]] # "gone"
    /\ Goto(c, "snap.write")
    /\ UNCHANGED <<runnerVars, state>>

SnapFault(c) ==
    /\ \/ pc[c] = "snap.wait" /\ "slow" \in Faults
       \/ pc[c] \in {"snap.copy", "snap.write", "snap.publish"} /\ "io" \in Faults
    /\ Goto(c, "snap.fail")
    /\ UNCHANGED <<runnerVars, state>>

SnapWrite(c) ==
    /\ pc[c] = "snap.write"
    /\ state' = Stopped
    /\ Goto(c, "snap.publish")
    /\ UNCHANGED runnerVars

\* The directory leaves its temporary name, by the rename or by RemoveAll.
SnapEnd(c) ==
    /\ pc[c] \in {"snap.publish", "snap.fail"}
    /\ saved' = [saved EXCEPT ![dirOf[c]] = "gone"]
    /\ job' = [job EXCEPT ![dirOf[c]] = IF @.run = NoPid THEN NoJob ELSE @]
    /\ Return(c)
    /\ UNCHANGED <<kind, stage, machine, told, events, socks, state>>

\* The user interrupts a snapshot: the directory and the request stay.
SnapInterrupt(c) ==
    /\ "interrupt" \in Faults /\ pc[c] \in SnapSteps
    /\ Return(c)
    /\ UNCHANGED <<runnerVars, state>>

-----------------------------------------------------------------------------
Start(c) ==
    \/ StartBegin(c) \/ RestoreBegin(c) \/ StartSpawn(c) \/ StartRecord(c) \/ StartRecordFail(c)
    \/ RestoreRecord(c) \/ StartEvents(c) \/ StartRelay(c) \/ StartFail(c) \/ StartAbort(c)
    \/ StartReady(c) \/ StartNotReady(c) \/ StartWrite(c)

Stop(c) == StopBegin(c) \/ StopSignal(c) \/ StopExited(c) \/ StopGiveUp(c) \/ StopWrite(c)

Snapshot(c) ==
    \/ SnapBegin(c) \/ SnapDial(c) \/ SnapReply(c) \/ SnapExited(c) \/ SnapCopy(c)
    \/ SnapFault(c) \/ SnapWrite(c) \/ SnapEnd(c) \/ SnapInterrupt(c)

Runner ==
    \/ \E p \in Pid : (Rise(p) \/ Term(p) \/ RunnerDies(p) \/ GuestOff(p)) /\ UNCHANGED goVars
    \/ \E d \in Dir : Save(d) /\ UNCHANGED goVars

Next == Runner \/ \E c \in Cli : Start(c) \/ Stop(c) \/ Snapshot(c)

Spec == Init /\ [][Next]_vars

-----------------------------------------------------------------------------
(* Properties *)

\* A snapshot that goes on after the save has all of the machine's state, and
\* the machine it was taken from never runs again, even if a stop, a second
\* snapshot or a crash meets the save.
SavedWhole ==
    \A c \in Cli : pc[c] \in {"snap.wait", "snap.copy", "snap.write", "snap.publish"} =>
        /\ saved[dirOf[c]] = "whole"
        /\ pc[c] # "snap.wait" => ~Alive(me[c])

\* A start has the VM to itself, but for stops of the very runner it waits for.
\* Nothing in the code says so: a second start, a start during a snapshot and a
\* stop that finds the VM stopped while one starts may each lose a runner (the
\* first and the last are subjects of VMLifecycle).  What follows is about the
\* behaviours in which it is so.
StartsAlone ==
    \A c, d \in Cli : c # d /\ pc[c] \in StartSteps =>
        pc[d] = "idle" \/ (pc[d] \in StopSteps /\ me[d] \in Pid /\ me[d] = me[c])

\* No runner is lost: each one that nobody has told to exit is recorded in
\* state.json as running, is about to be recorded by the start that spawned it,
\* or is about to exit after a save.  Of one that was told it says nothing: the
\* signal is lost on a runner that ignores SIGTERM already and does not listen
\* for it yet, and the start that gave it up records the VM as stopped.
NoStrayRunner ==
    \A p \in Pid : stage[p] # "free" /\ told[p] = "no" =>
        \/ state.status = "running" /\ state.pid = p
        \/ \E c \in Cli : pc[c] = "start.record" /\ me[c] = p
        \/ \E d \in Dir : job[d].run = p /\ job[d].at \in {"ok", "refused"}

\* Once its start has returned, a VM is recorded as running only if its runner
\* had come all the way up: a restore that fails does not leave it running
\* (snapshot.md).  With input/output errors it may, when the start that gave up
\* could not write `stopped`; that runner has been told to exit, or is dead.
Starting == \E c \in Cli : pc[c] \in StartSteps

UpBeforeRunning ==
    ~Starting /\ state.status = "running" =>
        \/ events[state.pid] = IF kind = "boot" THEN {"exec-socket"} ELSE Milestones
        \/ "io" \in Faults /\ (stage[state.pid] = "free" \/ told[state.pid] # "no")
=============================================================================
