------------------------- MODULE VMSettled_proofs -------------------------
(***************************************************************************)
(* Proofs about VMLifecycle on a host where only the helper processes      *)
(* crash: no process and no socket is left that state.json does not name,  *)
(* and a snapshot is published by a VM that is settled.  Any number of     *)
(* stops, forced deletes and snapshots may interleave; a start, a create   *)
(* and the removal of a delete have the VM to themselves.  The invariant   *)
(* is what each command knows, at each of its steps, of every process of   *)
(* the VM, and what holds for all of them as long as somebody is ending    *)
(* the VMM.                                                                *)
(***************************************************************************)
EXTENDS VMLifecycle_proofs

\* No other command is in flight while one starts the VM, creates its directory
\* or removes it.
StartsAlone ==
    \A c, d \in Cli : c # d /\ pc[c] \in StartSteps \cup HalfThere => pc[d] = "idle"

Running(p) == p \in Pid /\ proc[p] # "free" /\ p \notin doomed
RunIn(S) == \A p \in Pid : Running(p) => p \in S
Up(p) == LiveVMM(p) /\ sock \in {NoPid, p}
Down == state \in {Stopped, Absent}
Bare(s, ks) == \A k \in ks : s.helper[k] = NoPid

NothingRuns == RunIn({}) /\ ~vhost
AllIn(s) == RunIn(Names(s)) /\ (vhost => s.helper["net"] # NoPid)

StopsVMM == {"stop.vm", "stop.vmm", "stop.wait", "stop.kill"}
ReadSteps == {"stop.relays", "snap.unmount", "snap.pause", "snap.save", "snap.shutdown",
              "snap.wait"} \cup StopsVMM

\* Steps of a command that is ending the VMM, steps before the write of a state
\* that says it ended, steps that rest on what an earlier look found.
Ending == StopsVMM \cup {"snap.wait"}
Recording == {"stop.write", "snap.write", "start.abort"}
StaleSteps == {"stop.stale", "stop.write", "delete.unmerge"}
EmptySteps == {"create.copy", "create.state", "delete.remove", "snap.write", "snap.publish",
               "start.abort"}
DownSteps == {"create.copy", "create.state", "delete.remove",
              "start.net", "start.share", "start.spawn", "start.record"}

Someone(S) == \E c \in Cli : pc[c] \in S
Emptying == NothingRuns \/ Someone(Ending)

\* state.json names every process and its VMM answers, or somebody is changing
\* that.
Shared ==
    /\ AllIn(state) \/ Someone(Ending \cup StartSteps)
    /\ Down \/ Up(state.pid) \/ Someone(Ending \cup Recording)
    /\ state.status = "running" => sock \in {NoPid, state.pid}

\* What each command knows of every process, of state.json and of the State it
\* holds.
KnowsProcs(c) ==
    /\ pc[c] \in ReadSteps => /\ AllIn(loc[c]) /\ loc[c].status = "running"
                              /\ loc[c] = state \/ (state = Stopped /\ Quiet)
    /\ pc[c] \in StopsVMM => RunIn({loc[c].pid} \cup Backends(loc[c]))
    /\ pc[c] \in {"stop.kill", "snap.wait"} => ~Running(loc[c].pid)
    /\ pc[c] \in StaleSteps => Emptying
    /\ pc[c] \in EmptySteps => NothingRuns
    /\ pc[c] \in DownSteps => Down
    /\ pc[c] = "snap.publish" => state = Stopped

\* What a start holds in memory.
KnowsStarted(c) ==
    /\ pc[c] \in StartSteps \ {"start.abort"} => AllIn(loc[c])
    /\ pc[c] \in {"start.net", "start.share", "start.spawn"} => loc[c].pid = NoPid
    /\ pc[c] = "start.net" => Bare(loc[c], Helpers)
    /\ pc[c] = "start.share" => Bare(loc[c], Helpers \ {"net"})
    /\ pc[c] \in {"start.spawn", "start.record", "start.api", "start.ssh"}
          => Bare(loc[c], Relays)
    /\ pc[c] = "start.relays" => Bare(loc[c], todo[c] \cap Relays)
    /\ pc[c] \in {"start.record", "start.api", "start.ssh", "start.relays"} => Up(loc[c].pid)

ProcsInv == Shared /\ \A c \in Cli : KnowsProcs(c) /\ KnowsStarted(c)

-----------------------------------------------------------------------------
(* Files that stop a VM, and files that say it is stopped *)

LEMMA EmptyRecords ==
    /\ Stopped.status = "stopped" /\ Absent.status = "absent"
    /\ \A s \in {Stopped, Absent} : /\ s.pid = NoPid
                                    /\ \A k \in Helpers : s.helper[k] = NoPid
BY DEF Stopped, Absent

LEMMA DownIsEmpty == ASSUME TypeOK, AllIn(state), Down PROVE NothingRuns
BY EmptyRecords, HelperKinds, LifecycleConstants DEF AllIn, Down, NothingRuns, RunIn, Names

LEMMA EmptyIsSettled ==
    ASSUME NothingRuns PROVE AllIn(state) /\ \A b \in Cli : AllIn(loc[b])
BY DEF NothingRuns, AllIn, RunIn

LEMMA NotUpIsDown ==
    ASSUME TypeOK, Down \/ Up(state.pid), StoppedHasNoPid, ~RunningAlive(state) PROVE Down
<1> SUFFICES ASSUME Up(state.pid) PROVE FALSE
  OBVIOUS
<1>1. state.pid \in Pid /\ proc[state.pid] # "free"
  BY DEF Up, LiveVMM, IsVMM
<1>2. state.status = "running"
  BY <1>1, LifecycleConstants DEF StoppedHasNoPid
<1> QED BY <1>1, <1>2 DEF RunningAlive, Alive

LEMMA SignalsEnd ==
    ASSUME TypeOK, NEW S, NEW T, Terminate(S, T), NEW p \in Pid, Running(p)'
    PROVE  Running(p) /\ p \notin S /\ p \notin T
BY DEF Running, Terminate, TypeOK

LEMMA RelaysAreHelpers == Relays \subseteq Helpers \ {"net", "share"}
                          /\ Helpers = Relays \cup {"net", "share"}
BY LifecycleConstants DEF Helpers, RelayKinds

\* No write fails but for a directory that is gone, and no command in flight
\* finds it gone.
LEMMA WritesSucceed ==
    ASSUME TidyInv, Faults \subseteq {"helper-crash"}, NEW c \in Cli, pc[c] # "idle"
    PROVE  ~WriteFails
BY DEF TidyInv, KnowsDirectory, WriteFails

-----------------------------------------------------------------------------
(* Whoever a PID field names for a VMM is no helper *)

\* No VMM fails to answer.
NobodyHangs == mute = {}

NoHelper(p) == p \in Pid => proc[p] \notin Helpers

VMMsAreVMMs == NoHelper(state.pid) /\ \A c \in Cli : NoHelper(loc[c].pid)

\* A helper is spawned under a PID that nothing names.
LEMMA OnlyFreshHelpers ==
    ASSUME TypeOK, [Next]_vars, NEW p \in Pid, proc'[p] \in Helpers
    PROVE  proc[p] \in Helpers \/ p \in Fresh
<1> USE HelperKinds DEF TypeOK, os, disk, args, cmd
<1>1. ASSUME NEW c \in Cli, Create(c) \/ Delete(c) \/ CliCrash(c)
      PROVE  proc[p] \in Helpers \/ p \in Fresh
  BY <1>1 DEF Create, CreateMkdir, CreateMetadata, CreateState, CreateFail, Unlink,
     Delete, DeleteBegin, DeleteForce, DeleteStop, DeleteUnmerge, DeleteFile, DeleteDir,
     DeleteFail, CliCrash
<1>2. ASSUME NEW c \in Cli, Start(c) PROVE proc[p] \in Helpers \/ p \in Fresh
  BY <1>2 DEF Start, StartBegin, StartNet, StartNetFail, StartShare, StartSpawn,
     StartSpawnFail, StartLogFail, StartRecord, StartRecordFail, StartApiUp,
     StartExecReady, StartAbort, StartAborted, StartRelay, StartRelaySkip, StartFinish,
     Spawn, Terminate, GiveUpVMM
<1>3. ASSUME NEW c \in Cli, Stop(c) PROVE proc[p] \in Helpers \/ p \in Fresh
  BY <1>3 DEF Stop, StopBegin, StopStale, StopRelays, StopVm, StopVmm, StopExited,
     StopSignal, StopGiveUp, StopWrite, Terminate
<1>4. ASSUME NEW c \in Cli, Snapshot(c) PROVE proc[p] \in Helpers \/ p \in Fresh
  BY <1>4 DEF Snapshot, SnapBegin, SnapUnmount, SnapPause, SnapPauseFail, SnapSave,
     SnapShutdown, SnapAbort, SnapExited, SnapWrite, SnapPublish, Terminate
<1>5. CASE Process \/ UNCHANGED vars
  BY <1>5 DEF Process, VmmListen, VmmHang, ProcessExit, vars
<1> QED BY <1>1, <1>2, <1>3, <1>4, <1>5 DEF Next, Command

\* The PID of a VMM is the one of a record that is there already, or of a VMM
\* just spawned.
OldVMM(q) == q = NoPid \/ q = state.pid \/ \E c \in Cli : q = loc[c].pid
NewVMM(q) == q \in Pid /\ proc'[q] \in {"boot", "load"}

LEMMA StateVMM == ASSUME TypeOK, [Next]_vars PROVE OldVMM(state'.pid)
<1> USE EmptyRecords DEF OldVMM, os, disk, args, cmd, WriteState, WriteFails
<1>1. ASSUME NEW c \in Cli, Create(c) \/ Delete(c) \/ CliCrash(c) PROVE OldVMM(state'.pid)
  BY <1>1 DEF Create, CreateMkdir, CreateMetadata, CreateState, CreateFail, Unlink,
     Delete, DeleteBegin, DeleteForce, DeleteStop, DeleteUnmerge, DeleteFile, DeleteDir,
     DeleteFail, CliCrash
<1>2. ASSUME NEW c \in Cli, Start(c) PROVE OldVMM(state'.pid)
  BY <1>2 DEF Start, StartBegin, StartNet, StartNetFail, StartShare, StartSpawn,
     StartSpawnFail, StartLogFail, StartRecord, StartRecordFail, StartApiUp,
     StartExecReady, StartAbort, StartAborted, StartRelay, StartRelaySkip, StartFinish
<1>3. ASSUME NEW c \in Cli, Stop(c) PROVE OldVMM(state'.pid)
  BY <1>3 DEF Stop, StopBegin, StopStale, StopRelays, StopVm, StopVmm, StopExited,
     StopSignal, StopGiveUp, StopWrite
<1>4. ASSUME NEW c \in Cli, Snapshot(c) PROVE OldVMM(state'.pid)
  BY <1>4 DEF Snapshot, SnapBegin, SnapUnmount, SnapPause, SnapPauseFail, SnapSave,
     SnapShutdown, SnapAbort, SnapExited, SnapWrite, SnapPublish
<1>5. CASE Process \/ UNCHANGED vars
  BY <1>5 DEF Process, VmmListen, VmmHang, ProcessExit, vars
<1> QED BY <1>1, <1>2, <1>3, <1>4, <1>5 DEF Next, Command

LEMMA MemoryVMM ==
    ASSUME TypeOK, [Next]_vars, NEW d \in Cli
    PROVE  OldVMM(loc'[d].pid) \/ NewVMM(loc'[d].pid)
<1> DEFINE Known == OldVMM(loc'[d].pid) \/ NewVMM(loc'[d].pid)
<1> USE EmptyRecords DEF OldVMM, NewVMM, os, disk, args, cmd, Keep, Return
<1>0. loc[d] \in StateRec
  BY DEF TypeOK
<1>1. ASSUME NEW c \in Cli, Create(c) \/ Delete(c) \/ CliCrash(c) PROVE Known
  BY <1>1 DEF Create, CreateMkdir, CreateMetadata, CreateState, CreateFail, Unlink,
     Delete, StopRead, DeleteBegin, DeleteForce, DeleteStop, DeleteUnmerge, DeleteFile,
     DeleteDir, DeleteFail, CliCrash, TypeOK
<1>2. ASSUME NEW c \in Cli, NEW k \in Helpers, NEW q, KeepHelper(c, k, q) PROVE Known
  BY <1>0, <1>2 DEF KeepHelper, TypeOK, StateRec
<1>3. ASSUME NEW c \in Cli, StartSpawn(c) PROVE Known
  BY <1>0, <1>3 DEF StartSpawn, Spawn, Fresh, TypeOK, StateRec
<1>4. ASSUME NEW c \in Cli, StartNet(c) \/ StartShare(c) \/ \E k \in Relays : StartRelay(c, k)
      PROVE  Known
  BY <1>2, <1>4, HelperKinds, RelaysAreHelpers DEF StartNet, StartShare, StartRelay
<1>5. ASSUME NEW c \in Cli, StartExecReady(c) PROVE Known
  BY <1>0, <1>5 DEF StartExecReady, TypeOK, StateRec
<1>6. ASSUME NEW c \in Cli, StartBegin(c) PROVE Known
  BY <1>6 DEF StartBegin, TypeOK, Stopped
<1>7. ASSUME NEW c \in Cli, Start(c) PROVE Known
  BY <1>3, <1>4, <1>5, <1>6, <1>7 DEF Start, StartNetFail, StartSpawnFail, StartLogFail,
     StartRecord, StartRecordFail, StartApiUp, StartAbort, StartAborted, StartRelaySkip,
     StartFinish, TypeOK
<1>8. ASSUME NEW c \in Cli, Stop(c) PROVE Known
  BY <1>8 DEF Stop, StopBegin, StopRead, StopStale, StopRelays, StopVm, StopVmm,
     StopExited, StopSignal, StopGiveUp, StopWrite, TypeOK
<1>9. ASSUME NEW c \in Cli, Snapshot(c) PROVE Known
  BY <1>9 DEF Snapshot, SnapBegin, SnapUnmount, SnapPause, SnapPauseFail, SnapSave,
     SnapShutdown, SnapAbort, SnapExited, SnapWrite, SnapPublish, TypeOK
<1>10. CASE Process \/ UNCHANGED vars
  BY <1>10 DEF Process, VmmListen, VmmHang, ProcessExit, vars
<1> QED BY <1>1, <1>7, <1>8, <1>9, <1>10 DEF Next, Command

LEMMA VMMsStayVMMs ==
    ASSUME TypeOK, VMMsAreVMMs, [Next]_vars PROVE VMMsAreVMMs'
<1>1. ASSUME NEW q \in Pid, OldVMM(q) PROVE proc'[q] \notin Helpers
  <2>1. q \notin Fresh
    BY <1>1, LifecycleConstants DEF OldVMM, Fresh, Names
  <2>2. proc[q] \notin Helpers
    BY <1>1, LifecycleConstants DEF OldVMM, VMMsAreVMMs, NoHelper
  <2> QED BY <2>1, <2>2, OnlyFreshHelpers
<1>2. ASSUME NEW q \in Pid, NewVMM(q) PROVE proc'[q] \notin Helpers
  BY <1>2, HelperKinds DEF NewVMM
<1> QED BY <1>1, <1>2, StateVMM, MemoryVMM DEF VMMsAreVMMs, NoHelper

\* Where no VMM is to go on running, none of these PIDs runs.
LEMMA QuietPidIsGone ==
    ASSUME TypeOK, Quiet, NEW q, NoHelper(q) PROVE ~Running(q)
BY DEF TypeOK, Quiet, Running, NoHelper, LiveVMM, IsVMM

-----------------------------------------------------------------------------
(* Commands that have the VM to themselves: create *)

Settled(c) == Shared /\ KnowsProcs(c) /\ KnowsStarted(c)

LEMMA AloneKnows ==
    ASSUME ProcsInv, NEW c \in Cli, OthersIdle(c)
    PROVE  /\ pc[c] \notin Ending \cup StartSteps => AllIn(state)
           /\ pc[c] \notin Ending \cup Recording => Down \/ Up(state.pid)
           /\ pc[c] \notin Ending => ~Someone(Ending)
BY DEF ProcsInv, Shared, OthersIdle, Someone, Ending, StopsVMM, StartSteps, Recording

\* What an idle command finds when the VM does not run.
LEMMA AloneAndDown ==
    ASSUME TypeOK, StoppedHasNoPid, ProcsInv, NEW c \in Cli, OthersIdle(c), pc[c] = "idle",
           ~RunningAlive(state)
    PROVE  NothingRuns /\ Down
BY AloneKnows, NotUpIsDown, DownIsEmpty DEF Ending, StopsVMM, StartSteps, Recording

\* Where a command arrives when nothing runs any more.
LEMMA LandsDown ==
    ASSUME NEW c \in Cli, NothingRuns', Down',
           pc'[c] \in {"idle"} \cup StaleSteps \cup EmptySteps,
           pc'[c] = "snap.publish" => state' = Stopped
    PROVE  Settled(c)'
<1>1. AllIn(state)'
  BY DEF NothingRuns, AllIn, RunIn
<1>2. state'.status # "running"
  BY EmptyRecords DEF Down
<1> QED
  BY <1>1, <1>2 DEF Settled, Shared, Emptying, KnowsProcs, KnowsStarted, EmptySteps,
     StaleSteps, ReadSteps, StopsVMM, DownSteps, StartSteps

\* Where a start arrives while its VMM answers or before there is one.
LEMMA LandsStarting ==
    ASSUME NEW c \in Cli, pc'[c] \in StartSteps \ {"start.abort"}, (Down \/ Up(state.pid))',
           pc'[c] \in {"start.net", "start.share", "start.spawn", "start.record"} => Down'
    PROVE  Shared' /\ KnowsProcs(c)'
<1>1. state'.status = "running" => sock' \in {NoPid, state'.pid}
  BY EmptyRecords DEF Down, Up
<1>2. Someone(Ending \cup StartSteps)'
  BY DEF Someone
<1> QED
  BY <1>1, <1>2 DEF Shared, KnowsProcs, EmptySteps, StaleSteps, ReadSteps, StopsVMM,
     DownSteps, StartSteps

LEMMA ProcsCreate ==
    ASSUME TypeOK, StoppedHasNoPid, TidyInv, ProcsInv, NEW c \in Cli, OthersIdle(c), Create(c)
    PROVE  Settled(c)'
<1> USE DEF os, disk, args, cmd, Goto, Keep, Return
<1>1. NothingRuns /\ Down
  <2>1. CASE pc[c] = "idle"
    <3>1. state.status = "absent"
      BY <2>1 DEF Create, CreateMkdir, CreateMetadata, CreateState, CreateFail, Unlink,
         TidyInv, Listing, Files
    <3> QED BY <2>1, <3>1, AloneAndDown DEF RunningAlive
  <2>2. CASE pc[c] \in {"create.copy", "create.state"}
    BY <2>2 DEF ProcsInv, KnowsProcs, EmptySteps, DownSteps
  <2> QED BY <2>1, <2>2 DEF Create, CreateMkdir, CreateMetadata, CreateState, CreateFail,
      Unlink
<1>2. RunIn({})' /\ (vhost' => vhost)
  <2>1. CASE CreateFail(c)
    BY <1>1, <2>1 DEF CreateFail, Unlink, NothingRuns, RunIn, Running
  <2>2. CASE CreateMkdir(c) \/ CreateMetadata(c) \/ CreateState(c)
    BY <1>1, <2>2 DEF CreateMkdir, CreateMetadata, CreateState, NothingRuns, RunIn, Running
  <2> QED BY <2>1, <2>2 DEF Create
<1>3. Down'
  BY <1>1 DEF Create, CreateMkdir, CreateMetadata, CreateState, CreateFail, Unlink, Down,
     WriteState, Stopped, Absent
<1>4. pc'[c] \in {"idle", "create.copy", "create.state"}
  BY DEF Create, CreateMkdir, CreateMetadata, CreateState, CreateFail, Unlink, TypeOK
<1> QED BY <1>1, <1>2, <1>3, <1>4, LandsDown DEF NothingRuns, EmptySteps

-----------------------------------------------------------------------------
(* start *)

\* A helper takes a slot that was free.
LEMMA HelperSpawned ==
    ASSUME TypeOK, NEW c \in Cli, NEW k \in Helpers, NEW q \in Fresh,
           Spawn(q, k), KeepHelper(c, k, q), doomed' = doomed,
           RunIn(Names(loc[c])), loc[c].helper[k] = NoPid
    PROVE  /\ RunIn(Names(loc[c]))'
           /\ loc'[c].pid = loc[c].pid /\ loc'[c].helper[k] = q /\ q # NoPid
           /\ \A j \in Helpers \ {k} : loc'[c].helper[j] = loc[c].helper[j]
<1>1. loc'[c].pid = loc[c].pid /\ loc'[c].helper[k] = q
      /\ \A j \in Helpers \ {k} : loc'[c].helper[j] = loc[c].helper[j]
  BY DEF KeepHelper, TypeOK, StateRec
<1>2. q \in Pid /\ q # NoPid
  BY LifecycleConstants DEF Fresh
<1>3. ASSUME NEW p \in Pid, Running(p)' PROVE p = q \/ p \in Names(loc[c])
  BY <1>3 DEF Running, Spawn, RunIn, TypeOK
<1>4. ASSUME NEW p \in Pid, p \in Names(loc[c]) PROVE p \in Names(loc'[c])
  BY <1>1, <1>4, LifecycleConstants DEF Names
<1>5. q \in Names(loc'[c])
  BY <1>1 DEF Names
<1>6. RunIn(Names(loc[c]))'
  BY <1>3, <1>4, <1>5 DEF RunIn, Names
<1> QED BY <1>1, <1>2, <1>6

\* What is left when the VMM is told to exit and its backends are waited for.
LEMMA GivenUp ==
    ASSUME TypeOK, NEW s \in StateRec, AllIn(s), Bare(s, Relays),
           Terminate(Backends(s), {s.pid}) \/ (s.pid = NoPid /\ Terminate(Backends(s), {})),
           RemoveVhost(s)
    PROVE  NothingRuns'
<1>1. ASSUME NEW p \in Pid, Running(p)' PROVE FALSE
  <2>1. Running(p) /\ p # s.pid /\ p \notin Backends(s)
    BY <1>1, LifecycleConstants DEF Running, Terminate, TypeOK
  <2>2. PICK k \in Helpers : p = s.helper[k]
    BY <2>1 DEF AllIn, RunIn, Names
  <2>3. k \in Relays
    BY <2>1, <2>2, LifecycleConstants DEF Backends, PidsOf, Helpers
  <2> QED BY <2>2, <2>3, LifecycleConstants DEF Bare
<1>2. ~vhost'
  BY DEF RemoveVhost, AllIn
<1> QED BY <1>1, <1>2 DEF NothingRuns, RunIn, Running

LEMMA ProcsStartBegin ==
    ASSUME TypeOK, StoppedHasNoPid, ProcsInv, NEW c \in Cli, OthersIdle(c), StartBegin(c)
    PROVE  Settled(c)'
<1> USE DEF os, disk, args, cmd, Goto, Keep
<1>1. NothingRuns /\ Down
  BY AloneAndDown DEF StartBegin
<1>2. pc'[c] = "start.net" /\ Down' /\ RunIn({})' /\ ~vhost'
  BY <1>1 DEF StartBegin, Down, NothingRuns, RunIn, Running, TypeOK
<1>3. loc'[c] = [Stopped EXCEPT !.status = "running"]
  BY DEF StartBegin, TypeOK
<1>4. loc'[c].pid = NoPid /\ \A k \in Helpers : loc'[c].helper[k] = NoPid
  BY <1>3 DEF Stopped
<1>5. Bare(loc[c], Helpers)' /\ AllIn(loc[c])'
  BY <1>2, <1>4 DEF Bare, AllIn, RunIn
<1> QED BY <1>2, <1>4, <1>5, LandsStarting DEF Settled, KnowsStarted, StartSteps

LEMMA ProcsStartNet ==
    ASSUME TypeOK, ProcsInv, NEW c \in Cli, StartNet(c)
    PROVE  Settled(c)'
<1> USE DEF os, disk, args, cmd, Goto
<1>1. /\ pc[c] = "start.net" /\ Down /\ AllIn(loc[c]) /\ loc[c].pid = NoPid
      /\ Bare(loc[c], Helpers)
  BY DEF StartNet, ProcsInv, KnowsProcs, KnowsStarted, DownSteps, StartSteps
<1>2. PICK q \in Fresh : Spawn(q, "net") /\ KeepHelper(c, "net", q)
  BY DEF StartNet
<1>3. doomed' = doomed /\ Down'
  BY <1>1 DEF StartNet, Down
<1>4. /\ RunIn(Names(loc[c]))' /\ loc'[c].pid = NoPid /\ loc'[c].helper["net"] # NoPid
      /\ \A j \in Helpers \ {"net"} : loc'[c].helper[j] = NoPid
  BY <1>1, <1>2, <1>3, HelperSpawned, HelperKinds DEF AllIn, Bare
<1>5. AllIn(loc[c])' /\ Bare(loc[c], Helpers \ {"net"})' /\ Bare(loc[c], Relays)'
  BY <1>4, RelaysAreHelpers DEF AllIn, Bare
<1>6. pc'[c] \in {"start.share", "start.spawn"}
  BY DEF StartNet, AfterNet, TypeOK
<1> QED BY <1>3, <1>4, <1>5, <1>6, LandsStarting DEF Settled, KnowsStarted, StartSteps

LEMMA ProcsStartNetFail ==
    ASSUME TypeOK, ProcsInv, NEW c \in Cli, StartNetFail(c)
    PROVE  Settled(c)'
<1> USE DEF os, disk, args, cmd, Goto, Return
<1>1. /\ pc[c] = "start.net" /\ Down /\ AllIn(loc[c]) /\ loc[c].pid = NoPid
      /\ Bare(loc[c], Helpers)
  BY DEF StartNetFail, ProcsInv, KnowsProcs, KnowsStarted, DownSteps, StartSteps
<1>2. NothingRuns
  BY <1>1, HelperKinds, LifecycleConstants DEF NothingRuns, AllIn, Bare, RunIn, Names
<1>3. NothingRuns' /\ Down'
  BY <1>1, <1>2 DEF StartNetFail, NothingRuns, RunIn, Running, Down
<1>4. CASE pc'[c] = "idle"
  BY <1>3, <1>4, LandsDown
<1>5. CASE pc'[c] # "idle"
  <2>1. pc'[c] \in {"start.share", "start.spawn"} /\ loc' = loc
    BY <1>5 DEF StartNetFail, AfterNet, TypeOK
  <2>2. Bare(loc[c], Helpers \ {"net"})' /\ Bare(loc[c], Relays)' /\ loc'[c].pid = NoPid
    BY <1>1, <2>1, RelaysAreHelpers DEF Bare
  <2>3. AllIn(loc[c])'
    BY <1>3 DEF NothingRuns, AllIn, RunIn
  <2> QED BY <1>3, <2>1, <2>2, <2>3, LandsStarting DEF Settled, KnowsStarted, StartSteps
<1> QED BY <1>4, <1>5

LEMMA ProcsStartShare ==
    ASSUME TypeOK, ProcsInv, NEW c \in Cli, StartShare(c)
    PROVE  Settled(c)'
<1> USE DEF os, disk, args, cmd, Goto
<1>1. /\ pc[c] = "start.share" /\ Down /\ AllIn(loc[c]) /\ loc[c].pid = NoPid
      /\ Bare(loc[c], Helpers \ {"net"})
  BY DEF StartShare, ProcsInv, KnowsProcs, KnowsStarted, DownSteps, StartSteps
<1>2. doomed' = doomed /\ vhost' = vhost /\ Down' /\ pc'[c] = "start.spawn"
  BY <1>1 DEF StartShare, Down, TypeOK
<1>3. AllIn(loc[c])' /\ loc'[c].pid = NoPid /\ Bare(loc[c], Relays)'
  <2>1. CASE UNCHANGED <<proc, loc>>
    BY <1>1, <1>2, <2>1, RelaysAreHelpers DEF AllIn, Bare, RunIn, Running, Names
  <2>2. CASE \E p \in Fresh : Spawn(p, "share") /\ KeepHelper(c, "share", p)
    <3>1. PICK q \in Fresh : Spawn(q, "share") /\ KeepHelper(c, "share", q)
      BY <2>2
    <3>2. loc[c].helper["share"] = NoPid
      BY <1>1, HelperKinds DEF Bare
    <3>3. /\ RunIn(Names(loc[c]))' /\ loc'[c].pid = NoPid
          /\ \A j \in Helpers \ {"share"} : loc'[c].helper[j] = loc[c].helper[j]
      BY <1>1, <1>2, <3>1, <3>2, HelperSpawned, HelperKinds DEF AllIn
    <3> QED BY <1>1, <1>2, <3>3, RelaysAreHelpers DEF AllIn, Bare
  <2> QED BY <2>1, <2>2 DEF StartShare
<1> QED BY <1>2, <1>3, LandsStarting DEF Settled, KnowsStarted, StartSteps

\* Only a process that runs is on its way out.
DoomedRun == \A p \in doomed : proc[p] # "free"

LEMMA DoomedStep == ASSUME TypeOK, DoomedRun, [Next]_vars PROVE DoomedRun'
<1> USE HelperKinds DEF os, disk, args, cmd
<1>1. ASSUME NEW S, NEW T, Terminate(S, T) PROVE DoomedRun'
  BY <1>1 DEF DoomedRun, Terminate, TypeOK
<1>2. ASSUME NEW q \in Fresh, NEW k \in Helpers \cup {"boot", "load"}, Spawn(q, k),
             doomed' = doomed
      PROVE  DoomedRun'
  BY <1>2 DEF DoomedRun, Spawn, TypeOK
<1>3. ASSUME proc' = proc, doomed' = doomed PROVE DoomedRun'
  BY <1>3 DEF DoomedRun
<1>4. ASSUME NEW c \in Cli, Create(c) \/ Delete(c) \/ CliCrash(c) PROVE DoomedRun'
  BY <1>3, <1>4 DEF Create, CreateMkdir, CreateMetadata, CreateState, CreateFail, Unlink,
     Delete, DeleteBegin, DeleteForce, DeleteStop, DeleteUnmerge, DeleteFile, DeleteDir,
     DeleteFail, CliCrash
<1>5. ASSUME NEW c \in Cli, Start(c) PROVE DoomedRun'
  <2>1. CASE StartNet(c) \/ StartShare(c) \/ StartSpawn(c) \/ \E j \in Relays : StartRelay(c, j)
    BY <1>2, <1>3, <2>1, RelaysAreHelpers DEF StartNet, StartShare, StartSpawn, StartRelay
  <2> QED
    BY <1>1, <1>3, <1>5, <2>1 DEF Start, StartBegin, StartNetFail, StartSpawnFail,
       StartLogFail, StartRecord, StartRecordFail, StartApiUp, StartExecReady, StartAbort,
       StartAborted, StartRelaySkip, StartFinish, GiveUpVMM
<1>6. ASSUME NEW c \in Cli, Stop(c) PROVE DoomedRun'
  BY <1>1, <1>3, <1>6 DEF Stop, StopBegin, StopStale, StopRelays, StopVm, StopVmm,
     StopExited, StopSignal, StopGiveUp, StopWrite
<1>7. ASSUME NEW c \in Cli, Snapshot(c) PROVE DoomedRun'
  BY <1>1, <1>3, <1>7 DEF Snapshot, SnapBegin, SnapUnmount, SnapPause, SnapPauseFail,
     SnapSave, SnapShutdown, SnapAbort, SnapExited, SnapWrite, SnapPublish
<1>8. CASE Process \/ UNCHANGED vars
  BY <1>8 DEF Process, VmmListen, VmmHang, ProcessExit, vars, DoomedRun, TypeOK
<1> QED BY <1>4, <1>5, <1>6, <1>7, <1>8 DEF Next, Command

LEMMA ProcsStartSpawn ==
    ASSUME TypeOK, DoomedRun, ProcsInv, NEW c \in Cli, StartSpawn(c)
    PROVE  Settled(c)'
<1> USE DEF os, disk, args, cmd, Goto
<1>1. /\ pc[c] = "start.spawn" /\ Down /\ AllIn(loc[c]) /\ loc[c].pid = NoPid
      /\ Bare(loc[c], Relays)
  BY DEF StartSpawn, ProcsInv, KnowsProcs, KnowsStarted, DownSteps, StartSteps
<1>2. /\ doomed' = doomed /\ vhost' = vhost /\ sock' = NoPid /\ Down'
      /\ pc'[c] = "start.record"
  BY <1>1 DEF StartSpawn, Down, TypeOK
<1>3. PICK q \in Fresh : /\ Spawn(q, IF mode[c] = "restore" THEN "load" ELSE "boot")
                         /\ loc' = [loc EXCEPT ![c].pid = q]
  BY DEF StartSpawn
<1>4. loc'[c].pid = q /\ loc'[c].helper = loc[c].helper /\ q \in Pid
  BY <1>3 DEF TypeOK, StateRec, Fresh
<1>5. ASSUME NEW p \in Pid, Running(p)' PROVE p \in Names(loc[c])'
  <2>1. p = q \/ p \in Names(loc[c])
    BY <1>1, <1>3, <1>5, <1>2 DEF Running, Spawn, AllIn, RunIn, TypeOK
  <2> QED BY <1>1, <1>4, <2>1, LifecycleConstants DEF Names
<1>6. AllIn(loc[c])' /\ Bare(loc[c], Relays)'
  BY <1>1, <1>2, <1>4, <1>5 DEF AllIn, RunIn, Bare
<1>7. Up(loc[c].pid)'
  <2>1. proc'[q] \in {"load", "boot"}
    BY <1>3, <1>4 DEF Spawn, TypeOK
  <2>2. q \notin doomed
    BY <1>3 DEF DoomedRun, Fresh
  <2> QED BY <1>2, <1>4, <2>1, <2>2 DEF Up, LiveVMM, IsVMM
<1> QED BY <1>2, <1>6, <1>7, LandsStarting DEF Settled, KnowsStarted, StartSteps

LEMMA ProcsStartSpawnFail ==
    ASSUME TypeOK, ProcsInv, NEW c \in Cli, StartSpawnFail(c)
    PROVE  Settled(c)'
<1> USE DEF Goto, Return
<1>1. Down /\ AllIn(loc[c]) /\ loc[c].pid = NoPid /\ Bare(loc[c], Relays) /\ loc[c] \in StateRec
  BY DEF StartSpawnFail, ProcsInv, KnowsProcs, KnowsStarted, DownSteps, StartSteps, TypeOK
<1>2. NothingRuns'
  BY <1>1, GivenUp DEF StartSpawnFail
<1>3. Down' /\ pc'[c] = "idle"
  BY <1>1 DEF StartSpawnFail, Down, TypeOK
<1> QED BY <1>2, <1>3, LandsDown

\* What a start that has spawned its VMM knows.
LEMMA StartedKnows ==
    ASSUME ProcsInv, NEW c \in Cli, OthersIdle(c),
           pc[c] \in {"start.api", "start.ssh", "start.relays"}
    PROVE  /\ AllIn(loc[c]) /\ Up(loc[c].pid) /\ (Down \/ Up(state.pid))
           /\ pc[c] # "start.relays" => Bare(loc[c], Relays)
           /\ pc[c] = "start.relays" => Bare(loc[c], todo[c] \cap Relays)
<1>1. Down \/ Up(state.pid)
  BY AloneKnows DEF Ending, StopsVMM, Recording
<1> QED BY <1>1 DEF ProcsInv, KnowsStarted, StartSteps

LEMMA ProcsStartRecord ==
    ASSUME TypeOK, ProcsInv, NEW c \in Cli, StartRecord(c)
    PROVE  Settled(c)'
<1> USE DEF os, args, Goto
<1>1. AllIn(loc[c]) /\ Bare(loc[c], Relays) /\ Up(loc[c].pid)
  BY DEF StartRecord, ProcsInv, KnowsStarted, StartSteps
<1>2. pc'[c] = "start.api" /\ loc' = loc /\ state' = loc[c]
  BY DEF StartRecord, WriteState, TypeOK
<1>3. AllIn(loc[c])' /\ Bare(loc[c], Relays)' /\ Up(loc[c].pid)' /\ Up(state.pid)'
  BY <1>1, <1>2 DEF StartRecord, AllIn, Bare, RunIn, Running, Up, LiveVMM, IsVMM
<1> QED BY <1>2, <1>3, LandsStarting DEF Settled, KnowsStarted, StartSteps

LEMMA ProcsStartApiUp ==
    ASSUME TypeOK, ProcsInv, NEW c \in Cli, OthersIdle(c), StartApiUp(c)
    PROVE  Settled(c)'
<1> USE DEF disk, args, Goto
<1>1. AllIn(loc[c]) /\ Bare(loc[c], Relays) /\ Up(loc[c].pid) /\ (Down \/ Up(state.pid))
  BY StartedKnows DEF StartApiUp
<1>2. pc'[c] = "start.ssh" /\ UNCHANGED <<loc, state, proc, doomed, vhost, sock>>
  BY DEF StartApiUp, TypeOK
<1>3. AllIn(loc[c])' /\ Bare(loc[c], Relays)' /\ Up(loc[c].pid)' /\ (Down \/ Up(state.pid))'
  BY <1>1, <1>2 DEF AllIn, Bare, RunIn, Running, Up, Down, LiveVMM, IsVMM
<1> QED BY <1>2, <1>3, LandsStarting DEF Settled, KnowsStarted, StartSteps

LEMMA ProcsStartExecReady ==
    ASSUME TypeOK, ProcsInv, NEW c \in Cli, OthersIdle(c), StartExecReady(c)
    PROVE  Settled(c)'
<1> USE DEF disk, os, Goto
<1>1. AllIn(loc[c]) /\ Bare(loc[c], Relays) /\ Up(loc[c].pid) /\ (Down \/ Up(state.pid))
  BY StartedKnows DEF StartExecReady
<1>2. /\ pc'[c] = "start.relays" /\ UNCHANGED <<state, proc, doomed, vhost, sock>>
      /\ loc'[c].pid = loc[c].pid /\ loc'[c].helper = loc[c].helper
  BY DEF StartExecReady, TypeOK, StateRec
<1>3. /\ AllIn(loc[c])' /\ Bare(loc[c], todo[c] \cap Relays)' /\ Up(loc[c].pid)'
      /\ (Down \/ Up(state.pid))'
  BY <1>1, <1>2 DEF AllIn, Bare, RunIn, Running, Up, Down, LiveVMM, IsVMM, Names
<1> QED BY <1>2, <1>3, LandsStarting DEF Settled, KnowsStarted, StartSteps

LEMMA ProcsStartAbort ==
    ASSUME TypeOK, ProcsInv, NEW c \in Cli, OthersIdle(c), StartAbort(c)
    PROVE  Settled(c)'
<1> USE DEF Goto
<1>1. AllIn(loc[c]) /\ Bare(loc[c], Relays) /\ loc[c] \in StateRec
  BY StartedKnows DEF StartAbort, TypeOK
<1>2. NothingRuns' /\ pc'[c] = "start.abort"
  BY <1>1, GivenUp DEF StartAbort, GiveUpVMM, TypeOK
<1>3. Shared'
  <2>1. state' = state /\ sock' = sock
    BY DEF StartAbort
  <2> QED BY <1>2, <2>1 DEF ProcsInv, Shared, Someone, StartSteps, Recording
<1> QED
  BY <1>2, <1>3 DEF Settled, KnowsProcs, KnowsStarted, EmptySteps, StaleSteps, ReadSteps,
     StopsVMM, DownSteps

LEMMA ProcsStartAborted ==
    ASSUME TypeOK, TidyInv, Faults \subseteq {"helper-crash"}, ProcsInv, NEW c \in Cli,
           StartAborted(c)
    PROVE  Settled(c)'
<1> USE DEF os, Goto, Return
<1>1. NothingRuns'
  BY DEF StartAborted, ProcsInv, KnowsProcs, EmptySteps, NothingRuns, RunIn, Running
<1>2. Down' /\ pc'[c] = "idle"
  BY WritesSucceed DEF StartAborted, WriteState, Down, TypeOK
<1> QED BY <1>1, <1>2, LandsDown

LEMMA ProcsStartRelay ==
    ASSUME TypeOK, ProcsInv, NEW c \in Cli, OthersIdle(c), NEW k \in Relays, StartRelay(c, k)
    PROVE  Settled(c)'
<1> USE DEF disk
<1>1. /\ pc[c] = "start.relays" /\ k \in todo[c] /\ AllIn(loc[c]) /\ Up(loc[c].pid)
      /\ Bare(loc[c], todo[c] \cap Relays) /\ (Down \/ Up(state.pid))
  BY StartedKnows DEF StartRelay, NextRelay
<1>2. PICK q \in Fresh : Spawn(q, k) /\ KeepHelper(c, k, q)
  BY DEF StartRelay
<1>3. /\ UNCHANGED <<pc, state, doomed, vhost, sock>>
      /\ todo'[c] = todo[c] \ {k}
  BY DEF StartRelay, TypeOK
<1>4. /\ RunIn(Names(loc[c]))' /\ loc'[c].pid = loc[c].pid
      /\ \A j \in Helpers \ {k} : loc'[c].helper[j] = loc[c].helper[j]
  BY <1>1, <1>2, <1>3, HelperSpawned, RelaysAreHelpers DEF AllIn, Bare
<1>5. AllIn(loc[c])' /\ Bare(loc[c], todo[c] \cap Relays)'
  BY <1>1, <1>3, <1>4, RelaysAreHelpers, HelperKinds DEF AllIn, Bare
<1>6. ASSUME NEW p, Up(p) PROVE LiveVMM(p)' /\ sock' \in {NoPid, p}
  BY <1>2, <1>3, <1>6 DEF Up, LiveVMM, IsVMM, Spawn, Fresh, TypeOK
<1>7. Up(loc[c].pid)' /\ (Down \/ Up(state.pid))'
  BY <1>1, <1>3, <1>4, <1>6 DEF Down, Up
<1> QED BY <1>1, <1>3, <1>5, <1>7, LandsStarting DEF Settled, KnowsStarted, StartSteps

LEMMA ProcsStartRelaySkip ==
    ASSUME TypeOK, ProcsInv, NEW c \in Cli, OthersIdle(c), NEW k \in Relays,
           StartRelaySkip(c, k)
    PROVE  Settled(c)'
<1> USE DEF disk, os
<1>1. /\ pc[c] = "start.relays" /\ AllIn(loc[c]) /\ Up(loc[c].pid)
      /\ Bare(loc[c], todo[c] \cap Relays) /\ (Down \/ Up(state.pid))
  BY StartedKnows DEF StartRelaySkip
<1>2. /\ UNCHANGED <<pc, loc, state, proc, doomed, vhost, sock>>
      /\ todo'[c] \subseteq todo[c]
  BY DEF StartRelaySkip, TypeOK
<1>3. /\ AllIn(loc[c])' /\ Bare(loc[c], todo[c] \cap Relays)' /\ Up(loc[c].pid)'
      /\ (Down \/ Up(state.pid))'
  BY <1>1, <1>2 DEF AllIn, Bare, RunIn, Running, Up, Down, LiveVMM, IsVMM
<1> QED BY <1>1, <1>2, <1>3, LandsStarting DEF Settled, KnowsStarted, StartSteps

LEMMA ProcsStartFinish ==
    ASSUME TypeOK, TidyInv, Faults \subseteq {"helper-crash"}, ProcsInv, NEW c \in Cli,
           OthersIdle(c), StartFinish(c)
    PROVE  Settled(c)'
<1> USE DEF os, Goto, Return
<1>1. AllIn(loc[c]) /\ Up(loc[c].pid)
  BY StartedKnows DEF StartFinish
<1>2. state' = loc[c] /\ pc'[c] = "idle" /\ UNCHANGED <<proc, doomed, vhost, sock>>
  BY WritesSucceed DEF StartFinish, WriteState, TypeOK
<1>3. AllIn(state)' /\ Up(state.pid)'
  BY <1>1, <1>2 DEF AllIn, RunIn, Running, Up, LiveVMM, IsVMM
<1> QED
  BY <1>2, <1>3 DEF Settled, Shared, Up, KnowsProcs, KnowsStarted, ReadSteps, StopsVMM,
     StaleSteps, EmptySteps, DownSteps, StartSteps

LEMMA ProcsStart ==
    ASSUME TypeOK, StoppedHasNoPid, DoomedRun, TidyInv, Faults \subseteq {"helper-crash"},
           ProcsInv, NEW c \in Cli, OthersIdle(c), Start(c)
    PROVE  Settled(c)'
<1>1. ~StartLogFail(c) /\ ~StartRecordFail(c)
  BY WritesSucceed DEF StartLogFail, StartRecordFail
<1>2. CASE \E k \in Relays : StartRelay(c, k) \/ StartRelaySkip(c, k)
  BY <1>2, ProcsStartRelay, ProcsStartRelaySkip
<1> QED
  BY <1>1, <1>2, ProcsStartBegin, ProcsStartNet, ProcsStartNetFail, ProcsStartShare,
     ProcsStartSpawn, ProcsStartSpawnFail, ProcsStartRecord, ProcsStartApiUp,
     ProcsStartExecReady, ProcsStartAbort, ProcsStartAborted, ProcsStartFinish DEF Start

-----------------------------------------------------------------------------
(* The removal of a delete *)

LEMMA ProcsRemove ==
    ASSUME TypeOK, ProcsInv, NEW c \in Cli, OthersIdle(c),
           \/ DeleteUnmerge(c) /\ pc'[c] = "delete.remove"
           \/ DeleteFile(c) \/ DeleteDir(c) \/ DeleteFail(c)
    PROVE  Settled(c)'
<1> USE DEF os, disk, args, Goto, Return
<1>1. NothingRuns /\ Down
  <2>1. CASE DeleteUnmerge(c)
    <3>1. NothingRuns /\ (Down \/ Up(state.pid))
      BY <2>1, AloneKnows DEF DeleteUnmerge, ProcsInv, KnowsProcs, Emptying, StaleSteps,
         Ending, StopsVMM, Recording
    <3>2. Up(state.pid) => Running(state.pid)
      BY DEF Up, LiveVMM, IsVMM, Running
    <3> QED BY <3>1, <3>2 DEF NothingRuns, RunIn, Running
  <2>2. CASE DeleteFile(c) \/ DeleteDir(c) \/ DeleteFail(c)
    BY <2>2 DEF DeleteFile, DeleteDir, DeleteFail, Unlink, ProcsInv, KnowsProcs,
       EmptySteps, DownSteps
  <2> QED BY <2>1, <2>2
<1>2. UNCHANGED <<proc, doomed>> /\ ~vhost' /\ state' \in {state, Absent}
  <2>1. CASE DeleteFile(c)
    BY <1>1, <2>1 DEF DeleteFile, Unlink, NothingRuns
  <2>2. CASE DeleteUnmerge(c) \/ DeleteDir(c) \/ DeleteFail(c)
    BY <1>1, <2>2 DEF DeleteUnmerge, DeleteDir, DeleteFail, NothingRuns
  <2> QED BY <2>1, <2>2
<1>3. pc'[c] \in {"idle", "delete.remove"}
  BY DEF DeleteUnmerge, DeleteFile, DeleteDir, DeleteFail, Unlink, TypeOK
<1>4. NothingRuns' /\ Down'
  BY <1>1, <1>2 DEF NothingRuns, RunIn, Running, Down
<1> QED BY <1>3, <1>4, LandsDown DEF EmptySteps

-----------------------------------------------------------------------------
(* Commands that share the VM: stops, forced deletes and snapshots *)

NobodyStarts == \A c \in Cli : pc[c] \notin StartSteps \cup HalfThere

\* A step of c that starts nothing, and says the VM is stopped only when no VMM
\* is to go on running.
Calms(c) ==
    /\ OthersStay(c) /\ Shrinks
    /\ \A p \in Pid : Running(p)' => Running(p)
    /\ vhost' => vhost
    /\ sock' = sock
    /\ \/ /\ state' = state
          /\ pc[c] \in Ending \cup Recording => pc'[c] \in Ending \cup Recording
          /\ UNCHANGED <<proc, doomed>> \/ pc'[c] \in Ending \cup Recording
       \/ state' = Stopped /\ Quiet /\ Emptying
    /\ pc[c] \in Ending => pc'[c] \in Ending \/ NothingRuns'
    /\ pc'[c] \notin StartSteps \cup HalfThere

LEMMA CalmKeeps ==
    ASSUME NEW c \in Cli, Calms(c)
    PROVE  /\ \A S : RunIn(S) => RunIn(S)'
           /\ NothingRuns => NothingRuns'
           /\ Quiet => Quiet'
           /\ Emptying => Emptying'
<1>1. \A S : RunIn(S) => RunIn(S)'
  BY DEF Calms, RunIn
<1>2. NothingRuns => NothingRuns'
  BY <1>1 DEF Calms, NothingRuns
<1>3. Quiet => Quiet'
  BY DEF Calms, Shrinks, Quiet
<1>4. Someone(Ending) => Emptying'
  BY DEF Calms, OthersStay, Someone, Emptying
<1> QED BY <1>1, <1>2, <1>3, <1>4 DEF Emptying

LEMMA CalmShared ==
    ASSUME ProcsInv, NobodyStarts, NEW c \in Cli, Calms(c) PROVE Shared'
<1>a. AllIn(state) \/ Someone(Ending)
  BY DEF ProcsInv, Shared, Someone, NobodyStarts
<1>b. NothingRuns' => AllIn(state)'
  BY DEF NothingRuns, AllIn, RunIn
<1>e. Emptying' => AllIn(state)' \/ Someone(Ending \cup StartSteps)'
  BY <1>b DEF Emptying, Someone
<1>1. AllIn(state)' \/ Someone(Ending \cup StartSteps)'
  <2>1. CASE Emptying
    BY <2>1, <1>e, CalmKeeps
  <2>2. CASE ~Emptying
    <3>1. state' = state /\ AllIn(state)
      BY <2>2, <1>a DEF Calms, Emptying
    <3> QED BY <3>1, CalmKeeps DEF Calms, AllIn
  <2> QED BY <2>1, <2>2
<1>2. Down' \/ Up(state.pid)' \/ Someone(Ending \cup Recording)'
  <2>1. CASE state' = Stopped
    BY <2>1 DEF Down
  <2>2. CASE state' # Stopped
    <3>1. /\ state' = state
          /\ pc[c] \in Ending \cup Recording => pc'[c] \in Ending \cup Recording
          /\ UNCHANGED <<proc, doomed>> \/ pc'[c] \in Ending \cup Recording
      BY <2>2 DEF Calms
    <3>2. Someone(Ending \cup Recording) => Someone(Ending \cup Recording)'
      BY <3>1 DEF Calms, OthersStay, Someone
    <3>3. pc'[c] \in Ending \cup Recording => Someone(Ending \cup Recording)'
      BY DEF Someone
    <3>4. Up(state.pid) /\ UNCHANGED <<proc, doomed>> => Up(state.pid)'
      BY <3>1 DEF Calms, Up, LiveVMM, IsVMM
    <3> QED BY <3>1, <3>2, <3>3, <3>4 DEF ProcsInv, Shared, Down
  <2> QED BY <2>1, <2>2
<1>3. state'.status = "running" => sock' \in {NoPid, state'.pid}
  BY EmptyRecords DEF Calms, ProcsInv, Shared
<1> QED BY <1>1, <1>2, <1>3 DEF Shared

\* What the other commands know stays true.
LEMMA CalmOthers ==
    ASSUME ProcsInv, NobodyStarts, NEW c \in Cli, Calms(c), NEW d \in Cli, d # c
    PROVE  KnowsProcs(d)' /\ KnowsStarted(d)'
<1>1. pc'[d] = pc[d] /\ loc'[d] = loc[d] /\ pc[d] \notin StartSteps \cup HalfThere
  BY DEF Calms, OthersStay, NobodyStarts
<1>2. pc[d] \in ReadSteps =>
        /\ AllIn(loc[d])' /\ loc'[d].status = "running"
        /\ loc'[d] = state' \/ (state' = Stopped /\ Quiet')
  BY <1>1, CalmKeeps DEF ProcsInv, KnowsProcs, Calms, AllIn
<1>3. pc[d] \in StopsVMM => RunIn({loc[d].pid} \cup Backends(loc[d]))'
  BY <1>1, CalmKeeps DEF ProcsInv, KnowsProcs, Backends, PidsOf
<1>4. pc[d] \in {"stop.kill", "snap.wait"} => ~Running(loc[d].pid)'
  BY <1>1 DEF ProcsInv, KnowsProcs, Calms, Running
<1>5. pc[d] \in StaleSteps => Emptying'
  BY CalmKeeps DEF ProcsInv, KnowsProcs
<1>6. pc[d] \in EmptySteps => NothingRuns'
  BY CalmKeeps DEF ProcsInv, KnowsProcs
<1>7. pc[d] = "snap.publish" => state' = Stopped
  BY DEF ProcsInv, KnowsProcs, Calms
<1>8. KnowsStarted(d)'
  BY <1>1 DEF KnowsStarted, StartSteps
<1> QED
  BY <1>1, <1>2, <1>3, <1>4, <1>5, <1>6, <1>7, <1>8 DEF KnowsProcs, DownSteps, StartSteps,
     HalfThere

\* What c itself knows where it still holds the record of a VM that runs.
LEMMA CalmReader ==
    ASSUME NEW c \in Cli, Calms(c), state' = state, pc'[c] \in ReadSteps,
           AllIn(loc'[c]), loc'[c].status = "running",
           loc'[c] = state \/ (state = Stopped /\ Quiet),
           pc'[c] \in StopsVMM => RunIn({loc[c].pid} \cup Backends(loc[c]))',
           pc'[c] \in {"stop.kill", "snap.wait"} => ~Running(loc[c].pid)'
    PROVE  KnowsProcs(c)' /\ KnowsStarted(c)'
<1>1. AllIn(loc[c])'
  BY CalmKeeps DEF Calms, AllIn, RunIn, Names
<1>2. loc'[c] = state' \/ (state' = Stopped /\ Quiet')
  BY CalmKeeps
<1> QED
  BY <1>1, <1>2 DEF KnowsProcs, KnowsStarted, ReadSteps, StopsVMM, StaleSteps, EmptySteps,
     DownSteps, StartSteps

\* What it knows elsewhere.
LEMMA CalmElsewhere ==
    ASSUME NEW c \in Cli, pc'[c] \notin ReadSteps, pc'[c] \notin StartSteps \cup HalfThere,
           pc'[c] \in StaleSteps => Emptying', pc'[c] \in EmptySteps => NothingRuns',
           pc'[c] = "snap.publish" => state' = Stopped
    PROVE  KnowsProcs(c)' /\ KnowsStarted(c)'
BY DEF KnowsProcs, KnowsStarted, ReadSteps, StopsVMM, StaleSteps, EmptySteps, DownSteps,
   StartSteps, HalfThere

\* A VM that is found not running has nothing left, or somebody is ending it.
LEMMA StaleIsEmpty ==
    ASSUME TypeOK, StoppedHasNoPid, ProcsInv, NobodyStarts, ~RunningAlive(state)
    PROVE  Emptying
<1>1. Someone(Recording) => Emptying
  BY DEF Someone, Recording, NobodyStarts, StartSteps, ProcsInv, KnowsProcs, StaleSteps,
     EmptySteps, Emptying
<1>2. CASE Down \/ Up(state.pid)
  <2>1. Down
    BY <1>2, NotUpIsDown
  <2>2. AllIn(state) \/ Someone(Ending)
    BY DEF ProcsInv, Shared, Someone, NobodyStarts
  <2> QED BY <2>1, <2>2, DownIsEmpty DEF Emptying
<1> QED BY <1>1, <1>2 DEF ProcsInv, Shared, Someone, Emptying

\* The record of a VM that is found running names everything that runs.
LEMMA RunningNamesAll ==
    ASSUME ProcsInv, NobodyStarts, RunningAlive(state) PROVE AllIn(state)
<1> SUFFICES ASSUME NEW d \in Cli, pc[d] \in Ending PROVE AllIn(state)
  BY DEF ProcsInv, Shared, Someone, NobodyStarts
<1>1. AllIn(loc[d]) /\ (loc[d] = state \/ state = Stopped)
  BY DEF ProcsInv, KnowsProcs, ReadSteps, Ending, StopsVMM
<1> QED BY <1>1, EmptyRecords DEF RunningAlive

-----------------------------------------------------------------------------
(* stop and delete *)

Calmly(c) == Calms(c) /\ KnowsProcs(c)' /\ KnowsStarted(c)'

\* A step that touches no process and no file.
LEMMA StillCalms ==
    ASSUME NEW c \in Cli, OthersStay(c), UNCHANGED <<state, vhost, sock, proc, doomed>>,
           pc[c] \in Ending => pc'[c] \in Ending,
           pc[c] \in Recording => pc'[c] \in Recording,
           pc'[c] \notin StartSteps \cup HalfThere
    PROVE  Calms(c)
BY StillShrinks DEF Calms, Running

\* A step that only signals.
LEMMA SignalsCalm ==
    ASSUME TypeOK, NEW c \in Cli, OthersStay(c), NEW S, NEW T, Terminate(S, T),
           UNCHANGED <<state, sock>>, vhost' => vhost,
           pc'[c] \in (Ending \cup Recording) \ {"start.abort"},
           pc[c] \in Ending => pc'[c] \in Ending \/ NothingRuns'
    PROVE  Calms(c)
BY SignalsShrink, SignalsEnd DEF Calms, Ending, StopsVMM, Recording, StartSteps, HalfThere

LEMMA ProcsRead ==
    ASSUME TypeOK, StoppedHasNoPid, ProcsInv, NobodyStarts, NEW c \in Cli, OthersStay(c),
           pc[c] \in {"idle", "stop.begin"}, StopRead(c), UNCHANGED <<disk, os>>
    PROVE  Calmly(c)
<1> USE DEF disk, os, Goto, Keep
<1>1. pc'[c] \in {"stop.relays", "stop.stale"}
  BY DEF StopRead, TypeOK
<1>2. Calms(c)
  BY <1>1, StillCalms DEF Ending, StopsVMM, Recording, StartSteps, HalfThere
<1>3. CASE RunningAlive(state)
  <2>1. pc'[c] = "stop.relays" /\ loc'[c] = state
    BY <1>3 DEF StopRead, TypeOK
  <2>2. AllIn(state) /\ state.status = "running"
    BY <1>3, RunningNamesAll DEF RunningAlive
  <2> QED BY <1>2, <2>1, <2>2, CalmReader DEF Calmly, ReadSteps, StopsVMM
<1>4. CASE ~RunningAlive(state)
  <2>1. pc'[c] = "stop.stale" /\ Emptying'
    BY <1>2, <1>4, StaleIsEmpty, CalmKeeps DEF StopRead, TypeOK
  <2> QED
    BY <1>2, <2>1, CalmElsewhere DEF Calmly, ReadSteps, StopsVMM, StartSteps, HalfThere,
       EmptySteps
<1> QED BY <1>3, <1>4

LEMMA ProcsStopStale ==
    ASSUME TypeOK, ProcsInv, NEW c \in Cli, OthersStay(c), StopStale(c) PROVE Calmly(c)
<1>1. pc[c] = "stop.stale" /\ pc'[c] = "stop.write" /\ UNCHANGED <<disk, sock>>
  BY DEF StopStale, Goto, TypeOK
<1>2. PICK S, T : Terminate(S, T)
  BY DEF StopStale
<1>3. Calms(c)
  BY <1>1, <1>2, SignalsCalm DEF Ending, StopsVMM, Recording, disk
<1>4. Emptying'
  BY <1>1, <1>3, CalmKeeps DEF ProcsInv, KnowsProcs, StaleSteps
<1> QED
  BY <1>1, <1>3, <1>4, CalmElsewhere DEF Calmly, ReadSteps, StopsVMM, StartSteps,
     HalfThere, EmptySteps

\* What a command that holds the record of a running VM knows.
LEMMA ReaderKnows ==
    ASSUME ProcsInv, NEW c \in Cli, pc[c] \in ReadSteps
    PROVE  /\ AllIn(loc[c]) /\ loc[c].status = "running"
           /\ loc[c] = state \/ (state = Stopped /\ Quiet)
           /\ pc[c] \in StopsVMM => RunIn({loc[c].pid} \cup Backends(loc[c]))
           /\ pc[c] \in {"stop.kill", "snap.wait"} => ~Running(loc[c].pid)
BY DEF ProcsInv, KnowsProcs

\* A step of a stop that only signals.
LEMMA StopSignals ==
    ASSUME TypeOK, ProcsInv, NEW c \in Cli, OthersStay(c),
           pc[c] \in {"stop.relays"} \cup StopsVMM,
           NEW T, Terminate({}, T), UNCHANGED <<disk, sock, loc>>,
           \A p \in Pid : Running(p) /\ p \notin T => p \in {loc[c].pid} \cup Backends(loc[c]),
           pc'[c] \in StopsVMM, pc'[c] = "stop.kill" => loc[c].pid \in T
    PROVE  Calmly(c)
<1> USE DEF disk
<1>1. Calms(c)
  BY SignalsCalm DEF Ending, StopsVMM
<1>2. AllIn(loc'[c]) /\ loc'[c].status = "running" /\ (loc'[c] = state \/ (state = Stopped /\ Quiet))
  BY ReaderKnows DEF ReadSteps
<1>3. RunIn({loc[c].pid} \cup Backends(loc[c]))'
  BY SignalsEnd DEF RunIn, Backends, PidsOf
<1>4. loc[c].pid \in T => ~Running(loc[c].pid)'
  BY DEF Running, Terminate, TypeOK
<1> QED BY <1>1, <1>2, <1>3, <1>4, CalmReader DEF Calmly, ReadSteps, StopsVMM

LEMMA ProcsStopSignals ==
    ASSUME TypeOK, ProcsInv, NEW c \in Cli, OthersStay(c),
           StopRelays(c) \/ StopVm(c) \/ StopVmm(c) \/ StopSignal(c)
    PROVE  Calmly(c)
<1> USE DEF Goto, StopsVMM
<1>1. UNCHANGED <<disk, sock, loc>> /\ pc[c] \in {"stop.relays"} \cup StopsVMM
  BY DEF StopRelays, StopVm, StopVmm, StopSignal
<1>2. CASE StopRelays(c)
  <2>1. ASSUME NEW p \in Pid, Running(p), p \notin PidsOf(loc[c], Relays)
        PROVE  p \in {loc[c].pid} \cup Backends(loc[c])
    <3>1. CASE p = loc[c].pid
      BY <3>1
    <3>2. CASE p # loc[c].pid
      <4>1. PICK k \in Helpers : p = loc[c].helper[k]
        BY <1>1, <2>1, <3>2, ReaderKnows DEF AllIn, RunIn, Names, ReadSteps
      <4>2. k \in {"net", "share"} /\ p # NoPid
        BY <2>1, <4>1, RelaysAreHelpers, LifecycleConstants DEF PidsOf
      <4> QED BY <4>1, <4>2 DEF Backends, PidsOf
    <3> QED BY <3>1, <3>2
  <2>2. pc'[c] \in {"stop.vmm", "stop.vm"} /\ Terminate({}, PidsOf(loc[c], Relays))
    BY <1>2 DEF StopRelays, TypeOK
  <2> QED BY <1>1, <2>1, <2>2, StopSignals
<1>3. CASE StopVm(c) \/ StopVmm(c) \/ StopSignal(c)
  <2>1. RunIn({loc[c].pid} \cup Backends(loc[c]))
    BY <1>3, ReaderKnows DEF StopVm, StopVmm, StopSignal, ReadSteps
  <2>2. CASE StopVm(c) \/ StopVmm(c)
    <3>1. PICK T : Terminate({}, T)
      BY <2>2 DEF StopVm, StopVmm
    <3>2. pc'[c] \in {"stop.vmm", "stop.wait"}
      BY <2>2 DEF StopVm, StopVmm, TypeOK
    <3> QED BY <1>1, <2>1, <3>1, <3>2, StopSignals DEF RunIn
  <2>3. CASE StopSignal(c)
    <3>1. Terminate({}, {loc[c].pid}) /\ pc'[c] = "stop.kill"
      BY <2>3 DEF StopSignal, TypeOK
    <3> QED BY <1>1, <2>1, <3>1, StopSignals DEF RunIn
  <2> QED BY <1>3, <2>2, <2>3
<1> QED BY <1>2, <1>3

LEMMA ProcsStopExited ==
    ASSUME TypeOK, ProcsInv, NEW c \in Cli, OthersStay(c), StopExited(c) PROVE Calmly(c)
<1>1. /\ pc[c] \in StopsVMM /\ pc'[c] = "stop.write" /\ UNCHANGED <<state, sock>>
      /\ Terminate(Backends(loc[c]), {}) /\ RemoveVhost(loc[c])
  BY DEF StopExited, StopsVMM, Goto, TypeOK
<1>2. ~Running(loc[c].pid) /\ AllIn(loc[c]) /\ RunIn({loc[c].pid} \cup Backends(loc[c]))
  BY <1>1, ReaderKnows DEF StopExited, Alive, Running, ReadSteps
<1>3. NothingRuns'
  <2>1. RunIn({})'
    BY <1>1, <1>2, SignalsEnd DEF RunIn
  <2>2. ~vhost'
    BY <1>1, <1>2 DEF RemoveVhost, AllIn
  <2> QED BY <2>1, <2>2 DEF NothingRuns
<1>4. Calms(c)
  BY <1>1, <1>3, SignalsCalm DEF Recording, RemoveVhost
<1> QED
  BY <1>1, <1>3, <1>4, CalmElsewhere DEF Calmly, Emptying, ReadSteps, StopsVMM,
     StartSteps, HalfThere

\* Only a VMM that was not told to exit is given up.
LEMMA TheVMMExits ==
    ASSUME ProcsInv, NobodyStarts, Faults \subseteq {"helper-crash"}, NEW c \in Cli,
           pc[c] \in {"stop.kill", "snap.wait"}
    PROVE  ~(Alive(loc[c].pid) /\ WaitTimesOut(c))
<1>1. ~Running(loc[c].pid)
  BY ReaderKnows DEF ReadSteps, StopsVMM
<1>2. Alive(loc[c].pid) => loc[c].pid \in Pid /\ proc[loc[c].pid] # "free"
  BY DEF Alive, NobodyStarts
<1> QED BY <1>1, <1>2 DEF WaitTimesOut, Running

\* A write of state.json after the VMM ended.
LEMMA RecordCalms ==
    ASSUME NEW c \in Cli, OthersStay(c), state' = Stopped, Quiet, Emptying,
           UNCHANGED <<vhost, sock, proc, doomed>>, pc[c] \notin Ending,
           pc'[c] \notin StartSteps \cup HalfThere
    PROVE  Calms(c)
BY StillShrinks DEF Calms, Running

LEMMA ProcsStopWrite ==
    ASSUME TypeOK, ApartInv, TidyInv, Faults \subseteq {"helper-crash"}, ProcsInv,
           NEW c \in Cli, OthersStay(c), StopWrite(c)
    PROVE  Calmly(c)
<1> USE DEF os, Goto, Return
<1>1. /\ state' = Stopped /\ UNCHANGED <<vhost, sock, proc, doomed>>
      /\ pc[c] = "stop.write" /\ pc'[c] \in {"idle", "delete.unmerge"}
  BY WritesSucceed DEF StopWrite, WriteState, TypeOK
<1>2. Quiet /\ Emptying
  BY <1>1 DEF ProcsInv, KnowsProcs, StaleSteps, ApartInv, KnowsVMM, NoVMMSteps
<1>3. Calms(c)
  BY <1>1, <1>2, RecordCalms DEF Ending, StopsVMM, StartSteps, HalfThere
<1>4. Emptying'
  BY <1>2, <1>3, CalmKeeps
<1> QED
  BY <1>1, <1>3, <1>4, CalmElsewhere DEF Calmly, ReadSteps, StopsVMM, StartSteps,
     HalfThere, EmptySteps

LEMMA ProcsStop ==
    ASSUME TypeOK, StoppedHasNoPid, ApartInv, TidyInv, Faults \subseteq {"helper-crash"},
           ProcsInv, NobodyStarts, NEW c \in Cli, OthersStay(c), Stop(c)
    PROVE  Calmly(c)
<1>1. ~StopGiveUp(c)
  BY TheVMMExits DEF StopGiveUp
<1>2. CASE StopBegin(c)
  BY <1>2, ProcsRead DEF StopBegin
<1> QED
  BY <1>1, <1>2, ProcsStopStale, ProcsStopSignals, ProcsStopExited, ProcsStopWrite DEF Stop

\* The steps of a delete up to its look at the directory.
LEMMA ProcsDeleteBegins ==
    ASSUME TypeOK, StoppedHasNoPid, ProcsInv, NobodyStarts, NEW c \in Cli, OthersStay(c),
           \/ DeleteBegin(c) \/ DeleteForce(c) \/ DeleteStop(c)
           \/ DeleteUnmerge(c) /\ pc'[c] = "idle"
    PROVE  Calmly(c)
<1> USE DEF os, disk, args, Goto, Return
<1>1. CASE DeleteBegin(c)
  <2>1. /\ pc[c] = "idle" /\ pc'[c] = "delete.unmerge"
        /\ UNCHANGED <<state, vhost, sock, proc, doomed>>
    BY <1>1 DEF DeleteBegin, TypeOK
  <2>2. Calms(c)
    BY <2>1, StillCalms DEF Ending, StopsVMM, Recording, StartSteps, HalfThere
  <2>3. Emptying'
    BY <1>1, <2>2, StaleIsEmpty, CalmKeeps DEF DeleteBegin
  <2> QED
    BY <2>1, <2>2, <2>3, CalmElsewhere DEF Calmly, ReadSteps, StopsVMM, StartSteps,
       HalfThere, EmptySteps
<1>2. CASE DeleteForce(c) \/ (DeleteStop(c) /\ Return(c)) \/ (DeleteUnmerge(c) /\ pc'[c] = "idle")
  <2>1. /\ pc[c] \in {"idle", "stop.begin", "delete.unmerge"}
        /\ pc'[c] \in {"idle", "stop.begin"}
        /\ UNCHANGED <<state, vhost, sock, proc, doomed>>
    BY <1>2 DEF DeleteForce, DeleteStop, DeleteUnmerge, TypeOK
  <2>2. Calms(c)
    BY <2>1, StillCalms DEF Ending, StopsVMM, Recording, StartSteps, HalfThere
  <2> QED
    BY <2>1, <2>2, CalmElsewhere DEF Calmly, ReadSteps, StopsVMM, StartSteps, HalfThere,
       EmptySteps, StaleSteps
<1>3. CASE DeleteStop(c) /\ StopRead(c)
  BY <1>3, ProcsRead DEF DeleteStop
<1> QED BY <1>1, <1>2, <1>3 DEF DeleteStop

-----------------------------------------------------------------------------
(* snapshot *)

LEMMA ProcsSnapSteps ==
    ASSUME TypeOK, ProcsInv, NobodyStarts, NobodyHangs, Faults \subseteq {"helper-crash"},
           NEW c \in Cli, OthersStay(c),
           \/ \E n \in SnapName : SnapBegin(c, n)
           \/ SnapUnmount(c) \/ SnapPause(c) \/ SnapPauseFail(c) \/ SnapSave(c) \/ SnapAbort(c)
    PROVE  Calmly(c)
<1> USE DEF os, disk, args, cmd, Goto, Keep, Return
<1>1. pc[c] \in {"idle", "snap.unmount", "snap.pause", "snap.save", "snap.shutdown"}
  <2>1. ~(pc[c] = "snap.wait" /\ SnapAbort(c))
    BY TheVMMExits DEF SnapAbort, NobodyHangs
  <2> QED BY <2>1 DEF SnapBegin, SnapUnmount, SnapPause, SnapPauseFail, SnapSave, SnapAbort
<1>2. /\ UNCHANGED <<state, vhost, sock, proc, doomed>>
      /\ pc'[c] \in {"idle", "snap.unmount", "snap.pause", "snap.save", "snap.shutdown"}
  BY DEF SnapBegin, SnapUnmount, SnapPause, SnapPauseFail, SnapSave, SnapAbort,
     NobodyHangs, TypeOK
<1>3. Calms(c)
  BY <1>1, <1>2, StillCalms DEF Ending, StopsVMM, Recording, StartSteps, HalfThere
<1>4. CASE pc'[c] = "idle"
  BY <1>3, <1>4, CalmElsewhere DEF Calmly, ReadSteps, StopsVMM, StartSteps, HalfThere,
     EmptySteps, StaleSteps
<1>5. CASE \E n \in SnapName : SnapBegin(c, n)
  <2>1. pc'[c] = "snap.unmount" /\ loc'[c] = state /\ RunningAlive(state)
    BY <1>5 DEF SnapBegin, TypeOK
  <2>2. AllIn(state) /\ state.status = "running"
    BY <2>1, RunningNamesAll DEF RunningAlive
  <2> QED BY <1>2, <1>3, <2>1, <2>2, CalmReader DEF Calmly, ReadSteps, StopsVMM
<1>6. CASE (SnapUnmount(c) \/ SnapPause(c) \/ SnapSave(c)) /\ pc'[c] # "idle"
  <2>1. /\ pc[c] \in {"snap.unmount", "snap.pause", "snap.save"}
        /\ pc'[c] \in {"snap.pause", "snap.save", "snap.shutdown"}
        /\ loc'[c] = loc[c]
    BY <1>6 DEF SnapUnmount, SnapPause, SnapSave, TypeOK
  <2>2. AllIn(loc[c]) /\ loc[c].status = "running" /\ (loc[c] = state \/ (state = Stopped /\ Quiet))
    BY <2>1, ReaderKnows DEF ReadSteps
  <2> QED BY <1>2, <1>3, <2>1, <2>2, CalmReader DEF Calmly, ReadSteps, StopsVMM
<1>7. SnapPauseFail(c) \/ SnapAbort(c) => pc'[c] = "idle"
  BY DEF SnapPauseFail, SnapAbort, TypeOK
<1> QED BY <1>4, <1>5, <1>6, <1>7

LEMMA ProcsSnapShutdown ==
    ASSUME TypeOK, VMMsAreVMMs, ProcsInv, NEW c \in Cli, OthersStay(c), SnapShutdown(c)
    PROVE  Calmly(c)
<1> USE DEF disk, args, Goto
<1>1. /\ pc[c] = "snap.shutdown" /\ pc'[c] = "snap.wait" /\ Terminate({}, {sock})
      /\ sock # NoPid /\ UNCHANGED <<state, sock, vhost>> /\ loc'[c] = loc[c]
  BY DEF SnapShutdown, TypeOK
<1>2. Calms(c)
  BY <1>1, SignalsCalm DEF Ending, StopsVMM
<1>3. AllIn(loc[c]) /\ loc[c].status = "running" /\ (loc[c] = state \/ (state = Stopped /\ Quiet))
  BY <1>1, ReaderKnows DEF ReadSteps
<1>4. ~Running(loc[c].pid)'
  <2>1. CASE loc[c] = state
    <3>1. sock = loc[c].pid
      BY <1>1, <1>3, <2>1 DEF ProcsInv, Shared
    <3> QED BY <1>1, <3>1 DEF Running, Terminate, TypeOK
  <2>2. CASE Quiet
    <3>1. ~Running(loc[c].pid)
      BY <2>2, QuietPidIsGone DEF VMMsAreVMMs
    <3> QED BY <1>1, <3>1 DEF Running, Terminate, TypeOK
  <2> QED BY <1>3, <2>1, <2>2
<1> QED BY <1>1, <1>2, <1>3, <1>4, CalmReader DEF Calmly, ReadSteps, StopsVMM

LEMMA ProcsSnapExited ==
    ASSUME TypeOK, ProcsInv, NEW c \in Cli, OthersStay(c), SnapExited(c) PROVE Calmly(c)
<1>1. /\ pc[c] = "snap.wait" /\ pc'[c] = "snap.write" /\ UNCHANGED <<state, sock>>
      /\ Terminate(Backends(loc[c]), PidsOf(loc[c], Relays)) /\ RemoveVhost(loc[c])
  BY DEF SnapExited, Goto, TypeOK
<1>2. AllIn(loc[c]) /\ ~Running(loc[c].pid)
  BY <1>1, ReaderKnows DEF ReadSteps
<1>3. ASSUME NEW p \in Pid, Running(p)' PROVE FALSE
  <2>1. Running(p) /\ p \notin Backends(loc[c]) /\ p \notin PidsOf(loc[c], Relays)
    BY <1>1, <1>3, SignalsEnd
  <2>2. PICK k \in Helpers : p = loc[c].helper[k]
    BY <1>2, <2>1 DEF AllIn, RunIn, Names
  <2>3. p # NoPid /\ k \in Relays \cup {"net", "share"}
    BY LifecycleConstants, RelaysAreHelpers
  <2> QED BY <2>1, <2>2, <2>3 DEF Backends, PidsOf
<1>4. NothingRuns'
  BY <1>1, <1>2, <1>3 DEF NothingRuns, RunIn, RemoveVhost, AllIn
<1>5. Calms(c)
  BY <1>1, <1>4, SignalsCalm DEF Recording, RemoveVhost
<1> QED
  BY <1>1, <1>4, <1>5, CalmElsewhere DEF Calmly, ReadSteps, StopsVMM, StartSteps,
     HalfThere, StaleSteps

LEMMA ProcsSnapEnds ==
    ASSUME TypeOK, ApartInv, TidyInv, Faults \subseteq {"helper-crash"}, ProcsInv,
           NEW c \in Cli, OthersStay(c), SnapWrite(c) \/ SnapPublish(c)
    PROVE  Calmly(c)
<1> USE DEF os, disk, Goto, Return
<1>1. pc[c] \in {"snap.write", "snap.publish"} /\ NothingRuns /\ Emptying
  BY DEF SnapWrite, SnapPublish, ProcsInv, KnowsProcs, EmptySteps, Emptying
<1>2. CASE SnapWrite(c)
  <2>1. /\ state' = Stopped /\ UNCHANGED <<vhost, sock, proc, doomed>>
        /\ pc[c] = "snap.write" /\ pc'[c] = "snap.publish"
    BY <1>2, WritesSucceed DEF SnapWrite, WriteState, TypeOK
  <2>2. Calms(c)
    BY <1>1, <2>1, RecordCalms DEF ApartInv, KnowsVMM, NoVMMSteps, Ending, StopsVMM,
       StartSteps, HalfThere
  <2>3. NothingRuns'
    BY <1>1, <2>2, CalmKeeps
  <2> QED
    BY <2>1, <2>2, <2>3, CalmElsewhere DEF Calmly, ReadSteps, StopsVMM, StartSteps,
       HalfThere, StaleSteps
<1>3. CASE SnapPublish(c)
  <2>1. /\ pc'[c] = "idle" /\ pc[c] = "snap.publish"
        /\ UNCHANGED <<state, vhost, sock, proc, doomed>>
    BY <1>3 DEF SnapPublish, TypeOK
  <2>2. Calms(c)
    BY <2>1, StillCalms DEF Ending, StopsVMM, Recording, StartSteps, HalfThere
  <2> QED
    BY <2>1, <2>2, CalmElsewhere DEF Calmly, ReadSteps, StopsVMM, StartSteps, HalfThere,
       StaleSteps, EmptySteps
<1> QED BY <1>2, <1>3

-----------------------------------------------------------------------------
(* The processes *)

\* A step of a process leaves what the commands know true.
LEMMA ProcsPersist ==
    ASSUME ProcsInv, UNCHANGED <<disk, cmd>>, Shrinks,
           \A p \in Pid : Running(p)' => Running(p),
           \A p \in {state.pid} \cup {loc[c].pid : c \in Cli} :
              Up(p) => Down' \/ (LiveVMM(p)' /\ sock' \in {NoPid, p}),
           \A c \in Cli : pc[c] \in {"start.record", "start.api", "start.ssh", "start.relays"}
                             /\ Up(loc[c].pid) => Up(loc[c].pid)',
           state.status = "running" => sock' \in {NoPid, state.pid}
    PROVE  ProcsInv'
<1> USE DEF disk, cmd, args
<1>1. UNCHANGED <<pc, loc, todo, state, vhost>>
  OBVIOUS
<1>2. \A p : ~Running(p) => ~Running(p)'
  BY <1>1 DEF Running
<1>3. \A S : RunIn(S) => RunIn(S)'
  BY DEF RunIn
<1>4. NothingRuns => NothingRuns'
  BY <1>1, <1>3 DEF NothingRuns
<1>5. Quiet => Quiet'
  BY DEF Shrinks, Quiet
<1>6. \A S : Someone(S)' <=> Someone(S)
  BY <1>1 DEF Someone
<1>7. Emptying => Emptying'
  BY <1>4, <1>6 DEF Emptying
<1>8. Shared'
  <2>1. AllIn(state) => AllIn(state)'
    BY <1>1, <1>3 DEF AllIn
  <2>2. Down \/ Up(state.pid) => Down' \/ Up(state.pid)'
    BY <1>1 DEF Down, Up
  <2> QED BY <1>1, <1>6, <2>1, <2>2 DEF ProcsInv, Shared
<1>9. ASSUME NEW c \in Cli PROVE KnowsProcs(c)' /\ KnowsStarted(c)'
  <2>1. AllIn(loc[c]) => AllIn(loc[c])'
    BY <1>1, <1>3 DEF AllIn
  <2>2. KnowsProcs(c)'
    BY <1>1, <1>2, <1>3, <1>4, <1>5, <1>7, <2>1 DEF ProcsInv, KnowsProcs, Down, Backends,
       PidsOf
  <2>3. KnowsStarted(c)'
    BY <1>1, <2>1 DEF ProcsInv, KnowsStarted, Bare
  <2> QED BY <2>2, <2>3
<1> QED BY <1>8, <1>9 DEF ProcsInv

LEMMA ProcsListen ==
    ASSUME TypeOK, ApartInv, ProcsInv, NEW q \in Pid, VmmListen(q) PROVE ProcsInv'
<1>1. UNCHANGED <<disk, cmd, doomed>> /\ sock' = q /\ proc' = [proc EXCEPT ![q] = "vmm"]
      /\ LiveVMM(q)
  BY DEF VmmListen, LiveVMM, IsVMM
<1>2. \A p \in Pid : (Running(p)' => Running(p)) /\ (LiveVMM(p)' <=> LiveVMM(p))
  BY <1>1 DEF Running, LiveVMM, IsVMM, TypeOK
<1>3. UNCHANGED <<state, loc, pc>>
  BY <1>1 DEF disk, cmd
<1>4. Down \/ q = state.pid
  BY <1>1 DEF ApartInv, LiveVMMRecorded, ProcsInv, KnowsProcs, DownSteps
<1>5. \A c \in Cli : pc[c] \in {"start.record", "start.api", "start.ssh", "start.relays"}
                        => q = loc[c].pid
  BY <1>1 DEF ApartInv, KnowsVMM, OwnVMMSteps
<1>6. Up(q)'
  BY <1>1, <1>2 DEF Up
<1>7. ASSUME NEW p, Up(p) PROVE Down' \/ (LiveVMM(p)' /\ sock' \in {NoPid, p})
  <2>1. CASE Down
    BY <1>3, <2>1 DEF Down
  <2>2. CASE q = state.pid /\ ~Down
    <3>1. p \in Pid /\ LiveVMM(p)
      BY <1>7 DEF Up, LiveVMM, IsVMM
    <3>2. p = state.pid
      BY <2>2, <3>1 DEF ApartInv, LiveVMMRecorded, ProcsInv, KnowsProcs, DownSteps
    <3> QED BY <1>1, <1>2, <2>2, <3>1, <3>2
  <2> QED BY <1>4, <2>1, <2>2
<1>8. state.status = "running" => q = state.pid
  BY <1>4, EmptyRecords DEF Down
<1> QED BY <1>1, <1>2, <1>3, <1>5, <1>6, <1>7, <1>8, ProcsPersist DEF Shrinks

LEMMA ProcsExit ==
    ASSUME TypeOK, Answering, Faults \subseteq {"helper-crash"}, ProcsInv,
           NEW q \in Pid, ProcessExit(q)
    PROVE  ProcsInv'
<1>1. /\ UNCHANGED <<disk, cmd>> /\ doomed' = doomed \ {q}
      /\ proc' = [proc EXCEPT ![q] = "free"]
      /\ sock' = IF sock = q THEN NoPid ELSE sock
  BY DEF ProcessExit
<1>2. \A p \in Pid : (Running(p)' => Running(p)) /\ (LiveVMM(p)' => LiveVMM(p))
  BY <1>1 DEF Running, LiveVMM, IsVMM, TypeOK
<1>3. ASSUME NEW p, Up(p) PROVE LiveVMM(p)' /\ sock' \in {NoPid, p}
  <2>1. p # q
    BY <1>3, HelperKinds, LifecycleConstants DEF ProcessExit, Up, LiveVMM, IsVMM,
       Answering, TypeOK
  <2> QED BY <1>1, <1>3, <2>1 DEF Up, LiveVMM, IsVMM, TypeOK
<1>4. UNCHANGED <<state, loc>>
  BY <1>1 DEF disk, cmd
<1>5. \A c \in Cli : Up(loc[c].pid) => Up(loc[c].pid)'
  BY <1>3, <1>4 DEF Up
<1>6. state.status = "running" => sock' \in {NoPid, state.pid}
  BY <1>1 DEF ProcsInv, Shared
<1> QED BY <1>1, <1>2, <1>3, <1>5, <1>6, ProcsPersist DEF Shrinks

LEMMA ProcsStay == ASSUME ProcsInv, UNCHANGED vars PROVE ProcsInv'
<1>1. UNCHANGED <<disk, cmd, proc, doomed, sock, state, loc>>
  BY DEF vars, os, disk, cmd
<1>2. \A p : (Running(p)' <=> Running(p)) /\ (LiveVMM(p)' <=> LiveVMM(p))
  BY <1>1 DEF Running, LiveVMM, IsVMM
<1>3. \A p : Up(p) => LiveVMM(p)' /\ sock' \in {NoPid, p}
  BY <1>1, <1>2 DEF Up
<1>4. \A c \in Cli : Up(loc[c].pid) => Up(loc[c].pid)'
  BY <1>1, <1>3 DEF Up
<1> QED BY <1>1, <1>2, <1>3, <1>4, ProcsPersist DEF Shrinks, ProcsInv, Shared

\* Where no VMM hangs, none fails to answer.
LEMMA MuteShrinks ==
    ASSUME Faults \subseteq {"helper-crash"}, [Next]_vars PROVE mute' \subseteq mute
<1> USE DEF os, disk, args, cmd
<1>1. ASSUME NEW c \in Cli, Create(c) \/ Delete(c) \/ CliCrash(c) PROVE mute' = mute
  BY <1>1 DEF Create, CreateMkdir, CreateMetadata, CreateState, CreateFail, Delete,
     DeleteBegin, DeleteForce, DeleteStop, DeleteUnmerge, DeleteFile, DeleteDir,
     DeleteFail, CliCrash
<1>2. ASSUME NEW c \in Cli, Start(c) PROVE mute' = mute
  BY <1>2 DEF Start, StartBegin, StartNet, StartNetFail, StartShare, StartSpawn,
     StartSpawnFail, StartLogFail, StartRecord, StartRecordFail, StartApiUp,
     StartExecReady, StartAbort, StartAborted, StartRelay, StartRelaySkip, StartFinish
<1>3. ASSUME NEW c \in Cli, Stop(c) PROVE mute' = mute
  BY <1>3 DEF Stop, StopBegin, StopStale, StopRelays, StopVm, StopVmm, StopExited,
     StopSignal, StopGiveUp, StopWrite
<1>4. ASSUME NEW c \in Cli, Snapshot(c) PROVE mute' = mute
  BY <1>4 DEF Snapshot, SnapBegin, SnapUnmount, SnapPause, SnapPauseFail, SnapSave,
     SnapShutdown, SnapAbort, SnapExited, SnapWrite, SnapPublish
<1>5. CASE Process \/ UNCHANGED vars
  BY <1>5 DEF Process, VmmListen, VmmHang, ProcessExit, vars
<1> QED BY <1>1, <1>2, <1>3, <1>4, <1>5 DEF Next, Command

-----------------------------------------------------------------------------
(* Theorems *)

\* A command starts, creates or removes while nobody else is in flight, or moves
\* while nobody does any of that.
LEMMA Alone ==
    ASSUME TypeOK, StartsAlone, StartsAlone', NEW c \in Cli, Command(c)
    PROVE  /\ OthersStay(c)
           /\ \/ pc[c] \in StartSteps \cup HalfThere
              \/ pc'[c] \in StartSteps \cup HalfThere
              => OthersIdle(c)
           /\ pc[c] \notin StartSteps \cup HalfThere => NobodyStarts
<1>1. OthersStay(c) /\ (pc[c] # "idle" \/ pc'[c] # "idle")
  BY CommandActsAlone
<1> QED BY <1>1 DEF StartsAlone, NobodyStarts, OthersIdle, OthersStay

LEMMA AloneSettles ==
    ASSUME NEW c \in Cli, OthersStay(c), OthersIdle(c), Settled(c)' PROVE ProcsInv'
<1>1. ASSUME NEW d \in Cli, d # c PROVE KnowsProcs(d)' /\ KnowsStarted(d)'
  BY <1>1 DEF OthersStay, OthersIdle, KnowsProcs, KnowsStarted, ReadSteps, StopsVMM,
     StaleSteps, EmptySteps, DownSteps, StartSteps
<1> QED BY <1>1 DEF Settled, ProcsInv

LEMMA CalmSettles ==
    ASSUME ProcsInv, NobodyStarts, NEW c \in Cli, Calmly(c) PROVE ProcsInv'
BY CalmShared, CalmOthers DEF Calmly, ProcsInv

LEMMA ProcsCommand ==
    ASSUME TypeOK, ExitInv, DoomedRun, VMMsAreVMMs, NobodyHangs, ApartInv, TidyInv,
           Faults \subseteq {"helper-crash"}, ProcsInv, StartsAlone, StartsAlone',
           NEW c \in Cli, Command(c)
    PROVE  ProcsInv'
<1> USE DEF ExitInv
<1>0. /\ OthersStay(c)
      /\ \/ pc[c] \in StartSteps \cup HalfThere
         \/ pc'[c] \in StartSteps \cup HalfThere
         => OthersIdle(c)
      /\ pc[c] \notin StartSteps \cup HalfThere => NobodyStarts
  BY Alone
<1>1. CASE Create(c)
  <2>1. pc[c] \in HalfThere \/ pc'[c] \in HalfThere
    BY <1>1 DEF Create, CreateMkdir, CreateMetadata, CreateState, CreateFail, Unlink,
       HalfThere, Goto, TypeOK
  <2> QED BY <1>0, <1>1, <2>1, ProcsCreate, AloneSettles
<1>2. CASE Start(c)
  <2>1. pc[c] \in StartSteps \/ pc'[c] \in StartSteps
    BY <1>2 DEF Start, StartBegin, StartNet, StartNetFail, StartShare, StartSpawn,
       StartSpawnFail, StartLogFail, StartRecord, StartRecordFail, StartApiUp,
       StartExecReady, StartAbort, StartAborted, StartRelay, StartRelaySkip, StartFinish,
       StartSteps, Goto, TypeOK
  <2> QED BY <1>0, <1>2, <2>1, ProcsStart, AloneSettles
<1>3. CASE Stop(c)
  <2>1. pc[c] \notin StartSteps \cup HalfThere
    BY <1>3 DEF Stop, StopBegin, StopStale, StopRelays, StopVm, StopVmm, StopExited,
       StopSignal, StopGiveUp, StopWrite, StartSteps, HalfThere
  <2> QED BY <1>0, <1>3, <2>1, ProcsStop, CalmSettles
<1>4. CASE Snapshot(c)
  <2>1. pc[c] \notin StartSteps \cup HalfThere
    BY <1>4 DEF Snapshot, SnapBegin, SnapUnmount, SnapPause, SnapPauseFail, SnapSave,
       SnapShutdown, SnapAbort, SnapExited, SnapWrite, SnapPublish, StartSteps, HalfThere
  <2>2. Calmly(c)
    BY <1>0, <1>4, <2>1, ProcsSnapSteps, ProcsSnapShutdown, ProcsSnapExited, ProcsSnapEnds
       DEF Snapshot
  <2> QED BY <1>0, <2>1, <2>2, CalmSettles
<1>5. ASSUME \/ DeleteUnmerge(c) /\ pc'[c] = "delete.remove"
             \/ DeleteFile(c) \/ DeleteDir(c) \/ DeleteFail(c)
      PROVE  ProcsInv'
  <2>1. pc[c] \in HalfThere \/ pc'[c] \in HalfThere
    BY <1>5 DEF DeleteFile, DeleteDir, DeleteFail, Unlink, HalfThere
  <2> QED BY <1>0, <1>5, <2>1, ProcsRemove, AloneSettles
<1>6. ASSUME \/ DeleteBegin(c) \/ DeleteForce(c) \/ DeleteStop(c)
             \/ DeleteUnmerge(c) /\ pc'[c] = "idle"
      PROVE  ProcsInv'
  <2>1. pc[c] \notin StartSteps \cup HalfThere
    BY <1>6 DEF DeleteBegin, DeleteForce, DeleteStop, DeleteUnmerge, StartSteps, HalfThere
  <2> QED BY <1>0, <1>6, <2>1, ProcsDeleteBegins, CalmSettles
<1>7. DeleteUnmerge(c) => pc'[c] \in {"delete.remove", "idle"}
  BY DEF DeleteUnmerge, Goto, Return, TypeOK
<1> QED BY <1>1, <1>2, <1>3, <1>4, <1>5, <1>6, <1>7 DEF Command, Delete

\* All that is known of a host where only helpers crash.
SettledInv ==
    /\ ExitInv /\ HelpersAreHelpers /\ Answering /\ DoomedRun /\ VMMsAreVMMs /\ NobodyHangs
    /\ ApartInv /\ TidyInv /\ ProcsInv

LEMMA InitSettled == ASSUME TypeOK, Init PROVE SettledInv
<1>1. ExitInv
  BY DEF Init, ExitInv, StoppedHasNoPid, StartsRunning, Gone, Absent, Stopped, StartSteps,
     AfterExit
<1>2. \A p : ~IsVMM(p) /\ ~LiveVMM(p) /\ ~Running(p)
  BY DEF Init, IsVMM, LiveVMM, Running
<1>3. HelpersAreHelpers /\ Answering /\ DoomedRun /\ VMMsAreVMMs /\ NobodyHangs
  BY <1>2, HelperKinds, LifecycleConstants DEF HelpersAreHelpers, Answering, DoomedRun,
     VMMsAreVMMs, NoHelper, NobodyHangs, Init
<1>4. ApartInv
  BY <1>2 DEF Init, ApartInv, LiveVMMRecorded, KnowsVMM, Quiet, Absent, Stopped
<1>5. TidyInv
  BY DEF Init, TidyInv, KnowsDirectory, Listing, Absent, Stopped
<1>6. ProcsInv
  <2>1. NothingRuns /\ Down /\ state.status # "running" /\ \A c \in Cli : pc[c] = "idle"
    BY <1>2, EmptyRecords DEF Init, NothingRuns, RunIn, Down
  <2>2. Shared
    BY <2>1, EmptyIsSettled DEF Shared
  <2> QED
    BY <2>1, <2>2 DEF ProcsInv, KnowsProcs, KnowsStarted, ReadSteps, StopsVMM, StaleSteps,
       EmptySteps, DownSteps, StartSteps
<1> QED BY <1>1, <1>3, <1>4, <1>5, <1>6 DEF SettledInv

LEMMA StepSettled ==
    ASSUME Faults \subseteq {"helper-crash"}, TypeOK, SettledInv, StartsAlone, StartsAlone',
           [Next]_vars
    PROVE  SettledInv'
<1> USE DEF SettledInv
<1>1. ExitInv' /\ HelpersAreHelpers' /\ Answering' /\ DoomedRun' /\ VMMsAreVMMs'
  BY StoppedWritten, StartsRunningStep, GoneStep, HelpersStayHelpers, AnsweringStep,
     DoomedStep, VMMsStayVMMs DEF ExitInv
<1>2. \A c \in Cli : ~CliCrash(c)
  BY DEF CliCrash
<1>3. ApartInv' /\ TidyInv'
  <2>1. [NextSparing({"start.record"})]_vars /\ [NextSparing(HalfThere)]_vars
    BY <1>2 DEF Next, NextSparing
  <2>2. LaunchesAlone /\ LaunchesAlone' /\ HalvesAlone /\ HalvesAlone'
    BY DEF StartsAlone, LaunchesAlone, HalvesAlone, Launching, StartSteps
  <2> QED BY <2>1, <2>2, KeptByEachStep, TidyEachStep
<1>4. \A p \in Pid : ~VmmHang(p)
  BY DEF VmmHang
<1>5. ProcsInv'
  BY <1>2, <1>4, ProcsCommand, ProcsListen, ProcsExit, ProcsStay DEF Next, Process
<1>6. NobodyHangs'
  BY MuteShrinks DEF NobodyHangs
<1> QED BY <1>1, <1>3, <1>5, <1>6

\* When only helper processes crash, and while no other command is in flight as
\* one starts the VM, creates its directory or removes it: once the commands have
\* returned, no process and no vhost-user socket is left that state.json does not
\* name, however many stops, forced deletes and snapshots of the VM raced.
THEOREM NothingStrays ==
    ASSUME Faults \subseteq {"helper-crash"}
    PROVE  Spec /\ []StartsAlone => []NoStrayProcess
<1>1. SettledInv => NoStrayProcess
  <2> SUFFICES ASSUME SettledInv, Idle PROVE AllIn(state)
    BY DEF AllIn, RunIn, Running, NoStrayProcess
  <2> QED
    BY DEF SettledInv, ProcsInv, Shared, Someone, Idle, Ending, StopsVMM, StartSteps
<1>2. TypeOK /\ SettledInv /\ StartsAlone /\ StartsAlone' /\ [Next]_vars => SettledInv'
  BY StepSettled
<1> QED BY <1>1, <1>2, InitSettled, TypeCorrect, PTL DEF Spec

\* In the same circumstances a snapshot appears only when state.json says
\* stopped and no process of the VM is left that has not been told to exit,
\* whichever stops and other snapshots of the VM it races.
THEOREM SnapshotsComeFromSettledVMs ==
    ASSUME Faults \subseteq {"helper-crash"}
    PROVE  Spec /\ []StartsAlone => PublishAfterStop
<1> DEFINE Settling == snaps' # snaps => /\ state.status = "stopped"
                                         /\ \A p \in Pid : proc[p] # "free" => p \in doomed
<1>1. SettledInv /\ [Next]_vars => [Settling]_vars
  <2> SUFFICES ASSUME SettledInv, Next, snaps' # snaps PROVE Settling
    BY DEF vars
  <2>1. PICK c \in Cli : SnapPublish(c)
    <3>1. ASSUME NEW c \in Cli, Create(c) \/ Delete(c) \/ CliCrash(c) PROVE FALSE
      BY <3>1 DEF Create, CreateMkdir, CreateMetadata, CreateState, CreateFail, Delete,
         DeleteBegin, DeleteForce, DeleteStop, DeleteUnmerge, DeleteFile, DeleteDir,
         DeleteFail, CliCrash
    <3>2. ASSUME NEW c \in Cli, Start(c) \/ Stop(c) PROVE FALSE
      BY <3>2 DEF Start, StartBegin, StartNet, StartNetFail, StartShare, StartSpawn,
         StartSpawnFail, StartLogFail, StartRecord, StartRecordFail, StartApiUp,
         StartExecReady, StartAbort, StartAborted, StartRelay, StartRelaySkip, StartFinish,
         Stop, StopBegin, StopStale, StopRelays, StopVm, StopVmm, StopExited, StopSignal,
         StopGiveUp, StopWrite
    <3>3. ASSUME NEW c \in Cli, Snapshot(c) PROVE SnapPublish(c)
      BY <3>3 DEF Snapshot, SnapBegin, SnapUnmount, SnapPause, SnapPauseFail, SnapSave,
         SnapShutdown, SnapAbort, SnapExited, SnapWrite
    <3>4. ~Process
      BY DEF Process, VmmListen, VmmHang, ProcessExit
    <3> QED BY <3>1, <3>2, <3>3, <3>4 DEF Next, Command
  <2>2. NothingRuns /\ state = Stopped
    BY <2>1 DEF SettledInv, ProcsInv, KnowsProcs, EmptySteps, SnapPublish
  <2> QED BY <2>2, EmptyRecords DEF NothingRuns, RunIn, Running
<1>2. TypeOK /\ SettledInv /\ StartsAlone /\ StartsAlone' /\ [Next]_vars => SettledInv'
  BY StepSettled
<1> QED BY <1>1, <1>2, InitSettled, TypeCorrect, PTL DEF Spec, PublishAfterStop
=============================================================================
