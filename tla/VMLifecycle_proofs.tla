------------------------- MODULE VMLifecycle_proofs -------------------------
(***************************************************************************)
(* Theorems about VMLifecycle, for every set of commands, processes,       *)
(* relays and snapshot names: types, that a stop sees the exit it records, *)
(* and for each of the other invariants the windows in which a command has *)
(* to have the VM to itself; with one command at a time it has.            *)
(***************************************************************************)
EXTENDS VMLifecycle, TLAPS

-----------------------------------------------------------------------------
(* Type correctness *)

LEMMA RecordTypes == Stopped \in StateRec /\ Absent \in StateRec
BY DEF Stopped, Absent, StateRec, MaybePid

\* Every step of a command is either one that returns, or keeps what it has read.
LEMMA ReturnTypes ==
    ASSUME TypeOK, NEW c \in Cli, Return(c)
    PROVE  /\ pc' \in [Cli -> Steps]
           /\ loc' \in [Cli -> StateRec]
           /\ todo' \in [Cli -> SUBSET (Relays \cup Files)]
           /\ mode' \in [Cli -> {"plain", "restore", "delete"}]
           /\ target' \in [Cli -> SnapName \cup {NoName}]
BY RecordTypes DEF TypeOK, Return, Goto, Keep, Steps

LEMMA TerminateTypes ==
    ASSUME TypeOK, NEW S, NEW T, Terminate(S, T)
    PROVE  /\ proc' \in [Pid -> Helpers \cup {"free", "boot", "load", "vmm"}]
           /\ doomed' \subseteq Pid
BY DEF TypeOK, Terminate

LEMMA KeepHelperTypes ==
    ASSUME TypeOK, NEW c \in Cli, NEW k \in Helpers, NEW p \in Pid, KeepHelper(c, k, p)
    PROVE  loc' \in [Cli -> StateRec]
<1>1. loc[c] \in StateRec
  BY DEF TypeOK
<1>2. [loc[c].helper EXCEPT ![k] = p] \in [Helpers -> MaybePid]
  BY <1>1 DEF StateRec, MaybePid
<1>3. [loc[c] EXCEPT !.helper = [loc[c].helper EXCEPT ![k] = p]] \in StateRec
  BY <1>1, <1>2 DEF StateRec
<1>4. loc' = [loc EXCEPT ![c] = [loc[c] EXCEPT !.helper = [loc[c].helper EXCEPT ![k] = p]]]
  BY DEF KeepHelper
<1> QED BY <1>3, <1>4 DEF TypeOK

LEMMA CreateTypes ==
    ASSUME TypeOK, NEW c \in Cli, Create(c) PROVE TypeOK'
<1>1. CASE CreateMkdir(c)
  BY <1>1 DEF CreateMkdir, TypeOK, os, args, Goto, Steps
<1>2. CASE CreateMetadata(c)
  BY <1>2 DEF CreateMetadata, TypeOK, os, args, Goto, Steps
<1>3. CASE CreateState(c)
  BY <1>3, ReturnTypes, RecordTypes DEF CreateState, TypeOK, os, WriteState
<1>4. CASE CreateFail(c)
  BY <1>4, ReturnTypes, RecordTypes DEF CreateFail, Unlink, TypeOK, os
<1> QED BY <1>1, <1>2, <1>3, <1>4 DEF Create

LEMMA StartTypes ==
    ASSUME TypeOK, NEW c \in Cli, Start(c) PROVE TypeOK'
<1> USE DEF os, args, Goto, Keep
<1>1. CASE StartBegin(c)
  <2>1. [Stopped EXCEPT !.status = "running"] \in StateRec
    BY RecordTypes DEF StateRec
  <2> QED BY <1>1, <2>1 DEF StartBegin, TypeOK, disk, Steps, StartSteps
<1>2. CASE StartNet(c)
  <2>1. PICK p \in Fresh : Spawn(p, "net") /\ KeepHelper(c, "net", p)
    BY <1>2 DEF StartNet
  <2>2. p \in Pid /\ "net" \in Helpers
    BY DEF Fresh, Helpers
  <2>3. loc' \in [Cli -> StateRec]
    BY <2>1, <2>2, KeepHelperTypes
  <2> QED BY <1>2, <2>1, <2>2, <2>3 DEF StartNet, TypeOK, Spawn, AfterNet, Steps, StartSteps
<1>3. CASE StartNetFail(c)
  BY <1>3, ReturnTypes DEF StartNetFail, TypeOK, AfterNet, Steps, StartSteps
<1>4. CASE StartShare(c)
  <2>1. ASSUME NEW p \in Fresh, Spawn(p, "share"), KeepHelper(c, "share", p)
        PROVE  /\ proc' \in [Pid -> Helpers \cup {"free", "boot", "load", "vmm"}]
               /\ loc' \in [Cli -> StateRec]
    <3>1. p \in Pid /\ "share" \in Helpers
      BY DEF Fresh, Helpers
    <3> QED BY <2>1, <3>1, KeepHelperTypes DEF TypeOK, Spawn
  <2> QED BY <1>4, <2>1 DEF StartShare, TypeOK, disk, Steps, StartSteps
<1>5. CASE StartSpawn(c)
  <2>1. PICK p \in Fresh : /\ Spawn(p, IF mode[c] = "restore" THEN "load" ELSE "boot")
                           /\ loc' = [loc EXCEPT ![c].pid = p]
    BY <1>5 DEF StartSpawn
  <2>2. p \in Pid
    BY DEF Fresh
  <2>3. loc[c] \in StateRec
    BY DEF TypeOK
  <2>4. [loc[c] EXCEPT !.pid = p] \in StateRec
    BY <2>2, <2>3 DEF StateRec, MaybePid
  <2>5. loc' \in [Cli -> StateRec]
    BY <2>1, <2>4 DEF TypeOK
  <2>6. proc' \in [Pid -> Helpers \cup {"free", "boot", "load", "vmm"}]
    BY <2>1, <2>2 DEF Spawn, TypeOK
  <2> QED
    BY <1>5, <2>5, <2>6 DEF StartSpawn, TypeOK, disk, Steps, StartSteps, MaybePid
<1>6. CASE StartSpawnFail(c)
  BY <1>6, ReturnTypes, TerminateTypes DEF StartSpawnFail, TypeOK, MaybePid, RemoveVhost
<1>7. CASE StartLogFail(c)
  BY <1>7, ReturnTypes DEF StartLogFail, TypeOK, MaybePid, WriteFails
<1>8. CASE StartRecord(c)
  BY <1>8 DEF StartRecord, TypeOK, WriteState, Steps, StartSteps
<1>9. CASE StartRecordFail(c)
  BY <1>9, ReturnTypes, TerminateTypes DEF StartRecordFail, GiveUpVMM, RemoveVhost,
     TypeOK, WriteFails
<1>10. CASE StartApiUp(c)
  BY <1>10 DEF StartApiUp, TypeOK, disk, Steps, StartSteps
<1>11. CASE StartExecReady(c)
  BY <1>11 DEF StartExecReady, TypeOK, disk, Steps, StartSteps, StateRec
<1>12. CASE StartAbort(c)
  BY <1>12, TerminateTypes DEF StartAbort, GiveUpVMM, Unanswered, RemoveVhost, TypeOK,
     Steps, StartSteps
<1>13. CASE StartAborted(c)
  BY <1>13, ReturnTypes, RecordTypes DEF StartAborted, TypeOK, WriteState, WriteFails
<1>14. ASSUME NEW k \in Relays, StartRelay(c, k) PROVE TypeOK'
  <2>1. PICK p \in Fresh : Spawn(p, k) /\ KeepHelper(c, k, p)
    BY <1>14 DEF StartRelay
  <2>2. p \in Pid /\ k \in Helpers
    BY DEF Fresh, Helpers
  <2>3. loc' \in [Cli -> StateRec]
    BY <2>1, <2>2, KeepHelperTypes
  <2> QED BY <1>14, <2>1, <2>2, <2>3 DEF StartRelay, TypeOK, disk, Spawn
<1>15. ASSUME NEW k \in Relays, StartRelaySkip(c, k) PROVE TypeOK'
  BY <1>15 DEF StartRelaySkip, TypeOK, disk
<1>16. CASE StartFinish(c)
  BY <1>16, ReturnTypes DEF StartFinish, TypeOK, WriteState, WriteFails
<1> QED
  BY <1>1, <1>2, <1>3, <1>4, <1>5, <1>6, <1>7, <1>8, <1>9, <1>10, <1>11,
     <1>12, <1>13, <1>14, <1>15, <1>16 DEF Start

LEMMA StopTypes ==
    ASSUME TypeOK, NEW c \in Cli, Stop(c) \/ Delete(c) PROVE TypeOK'
<1> USE DEF os, args, Goto, Keep
<1>1. CASE StopBegin(c)
  BY <1>1 DEF StopBegin, StopRead, TypeOK, disk, Steps, StopSteps
<1>2. CASE StopStale(c)
  BY <1>2, TerminateTypes DEF StopStale, TypeOK, disk, Steps, StopSteps
<1>3. CASE StopRelays(c)
  BY <1>3, TerminateTypes DEF StopRelays, TypeOK, disk, Steps, StopSteps
<1>4. CASE StopVm(c)
  BY <1>4, TerminateTypes DEF StopVm, TypeOK, disk, Steps, StopSteps
<1>5. CASE StopVmm(c)
  BY <1>5, TerminateTypes DEF StopVmm, TypeOK, disk, Steps, StopSteps
<1>6. CASE StopExited(c)
  BY <1>6, TerminateTypes DEF StopExited, RemoveVhost, TypeOK, Steps, StopSteps
<1>7. CASE StopSignal(c)
  BY <1>7, TerminateTypes DEF StopSignal, TypeOK, disk, Steps, StopSteps
<1>8. CASE StopGiveUp(c)
  BY <1>8, ReturnTypes DEF StopGiveUp, TypeOK, disk
<1>9. CASE StopWrite(c)
  BY <1>9, ReturnTypes, RecordTypes DEF StopWrite, TypeOK, WriteState, WriteFails, Steps
<1>10. CASE DeleteBegin(c)
  BY <1>10 DEF DeleteBegin, TypeOK, disk, Steps
<1>11. CASE DeleteForce(c)
  BY <1>11 DEF DeleteForce, TypeOK, disk, Steps, StopSteps
<1>12. CASE DeleteStop(c)
  BY <1>12, ReturnTypes DEF DeleteStop, StopRead, TypeOK, disk, Steps, StopSteps
<1>13. CASE DeleteUnmerge(c)
  BY <1>13, ReturnTypes DEF DeleteUnmerge, Listing, TypeOK, disk, Steps
<1>14. CASE DeleteFile(c)
  BY <1>14, RecordTypes DEF DeleteFile, Unlink, TypeOK
<1>15. CASE DeleteDir(c)
  BY <1>15, ReturnTypes DEF DeleteDir, TypeOK
<1>16. CASE DeleteFail(c)
  BY <1>16, ReturnTypes DEF DeleteFail, TypeOK
<1> QED
  BY <1>1, <1>2, <1>3, <1>4, <1>5, <1>6, <1>7, <1>8, <1>9, <1>10, <1>11,
     <1>12, <1>13, <1>14, <1>15, <1>16 DEF Stop, Delete

\* A snapshot command knows the name it is to publish.
Named == \A c \in Cli : pc[c] \in SnapSteps => target[c] \in SnapName

LEMMA SnapshotTypes ==
    ASSUME TypeOK, Named, NEW c \in Cli, Snapshot(c) PROVE TypeOK'
<1> USE DEF os, args, Goto, Keep
<1>1. ASSUME NEW n \in SnapName, SnapBegin(c, n) PROVE TypeOK'
  BY <1>1 DEF SnapBegin, TypeOK, disk, Steps, SnapSteps
<1>2. CASE SnapPause(c)
  BY <1>2 DEF SnapPause, TypeOK, disk, Steps, SnapSteps, MaybePid
<1>3. CASE SnapPauseFail(c)
  BY <1>3, ReturnTypes DEF SnapPauseFail, Unanswered, TypeOK, disk, MaybePid
<1>4. CASE SnapSave(c)
  BY <1>4 DEF SnapSave, TypeOK, disk, Steps, SnapSteps
<1>5. CASE SnapShutdown(c)
  BY <1>5, TerminateTypes DEF SnapShutdown, TypeOK, disk, Steps, SnapSteps
<1>6. CASE SnapAbort(c)
  BY <1>6, ReturnTypes, TerminateTypes DEF SnapAbort, Unanswered, TypeOK, disk
<1>7. CASE SnapExited(c)
  BY <1>7, TerminateTypes DEF SnapExited, RemoveVhost, TypeOK, Steps, SnapSteps
<1>8. CASE SnapWrite(c)
  BY <1>8, ReturnTypes, RecordTypes DEF SnapWrite, TypeOK, WriteState, WriteFails, Steps,
     SnapSteps
<1>9. CASE SnapPublish(c)
  <2>1. target[c] \in SnapName
    BY <1>9 DEF SnapPublish, Named, SnapSteps
  <2> QED BY <1>9, <2>1, ReturnTypes DEF SnapPublish, TypeOK, disk
<1>10. CASE SnapUnmount(c)
  BY <1>10, ReturnTypes DEF SnapUnmount, TypeOK, disk, Steps, SnapSteps
<1> QED
  BY <1>1, <1>2, <1>3, <1>4, <1>5, <1>6, <1>7, <1>8, <1>9, <1>10 DEF Snapshot

LEMMA ProcessTypes ==
    ASSUME TypeOK, Process PROVE TypeOK'
<1> USE DEF cmd, args
<1>1. ASSUME NEW p \in Pid, VmmListen(p) PROVE TypeOK'
  BY <1>1 DEF VmmListen, TypeOK, disk, MaybePid
<1>2. ASSUME NEW p \in Pid, ProcessExit(p) PROVE TypeOK'
  BY <1>2 DEF ProcessExit, TypeOK, disk, MaybePid
<1>3. ASSUME NEW p \in Pid, VmmHang(p) PROVE TypeOK'
  BY <1>3 DEF VmmHang, TypeOK, disk
<1> QED BY <1>1, <1>2, <1>3 DEF Process

LEMMA NamedStep ==
    ASSUME TypeOK, Named, [Next]_vars PROVE Named'
<1> USE DEF os, disk, args, cmd, Goto, Keep, Return, SnapSteps
<1>1. ASSUME NEW c \in Cli, Create(c) PROVE Named'
  BY <1>1 DEF Named, TypeOK, Create, CreateMkdir, CreateMetadata, CreateState, CreateFail,
     Unlink
<1>2. ASSUME NEW c \in Cli, Start(c) PROVE Named'
  BY <1>2 DEF Named, TypeOK, Start, StartBegin, StartNet, StartNetFail, StartShare,
     StartSpawn, StartSpawnFail, StartLogFail, StartRecord, StartRecordFail, StartApiUp,
     StartExecReady, StartAbort, StartAborted, StartRelay, StartRelaySkip, StartFinish,
     AfterNet
<1>3. ASSUME NEW c \in Cli, Stop(c) PROVE Named'
  BY <1>3 DEF Named, TypeOK, Stop, StopBegin, StopRead, StopStale, StopRelays, StopVm,
     StopVmm, StopExited, StopSignal, StopGiveUp, StopWrite
<1>4. ASSUME NEW c \in Cli, Delete(c) PROVE Named'
  BY <1>4 DEF Named, TypeOK, Delete, DeleteBegin, DeleteForce, DeleteStop, StopRead,
     DeleteUnmerge, DeleteFile, DeleteDir, DeleteFail, Unlink
<1>5. ASSUME NEW c \in Cli, Snapshot(c) PROVE Named'
  BY <1>5 DEF Named, TypeOK, Snapshot, SnapBegin, SnapUnmount, SnapPause, SnapPauseFail,
     SnapSave, SnapShutdown, SnapAbort, SnapExited, SnapWrite, SnapPublish
<1>6. CASE Process
  BY <1>6 DEF Named, Process, VmmListen, VmmHang, ProcessExit
<1>7. ASSUME NEW c \in Cli, CliCrash(c) PROVE Named'
  BY <1>7 DEF Named, TypeOK, CliCrash
<1>8. CASE UNCHANGED vars
  BY <1>8 DEF Named, vars
<1> QED BY <1>1, <1>2, <1>3, <1>4, <1>5, <1>6, <1>7, <1>8 DEF Next, Command

LEMMA TypeStep ==
    ASSUME TypeOK, Named, [Next]_vars PROVE TypeOK'
<1>1. ASSUME NEW c \in Cli, CliCrash(c) PROVE TypeOK'
  BY <1>1, ReturnTypes DEF CliCrash, TypeOK, disk, os
<1>2. CASE UNCHANGED vars
  BY <1>2 DEF TypeOK, vars, disk, os, cmd, args
<1> QED
  BY <1>1, <1>2, CreateTypes, StartTypes, StopTypes, SnapshotTypes, ProcessTypes DEF Next,
     Command

LEMMA InitTypes == Init => TypeOK
<1> SUFFICES ASSUME Init PROVE TypeOK
  OBVIOUS
<1>1. /\ dir \in BOOLEAN /\ meta \in {"none", "boot", "restore"}
      /\ state \in StateRec /\ vhost \in BOOLEAN /\ torn \in BOOLEAN
  BY RecordTypes DEF Init
<1>2. /\ proc \in [Pid -> Helpers \cup {"free", "boot", "load", "vmm"}]
      /\ doomed \subseteq Pid /\ sock \in MaybePid
      /\ paused \subseteq Pid /\ mute \subseteq Pid /\ snaps \subseteq SnapName
  BY DEF Init, MaybePid
<1>3. "idle" \in Steps
  BY DEF Steps
<1>4. pc \in [Cli -> Steps] /\ loc \in [Cli -> StateRec]
  BY <1>3, RecordTypes DEF Init
<1>5. /\ todo \in [Cli -> SUBSET (Relays \cup Files)]
      /\ mode \in [Cli -> {"plain", "restore", "delete"}]
      /\ target \in [Cli -> SnapName \cup {NoName}]
  BY DEF Init
<1> QED BY <1>1, <1>2, <1>4, <1>5 DEF TypeOK

\* Type correctness: every variable keeps its type.
THEOREM TypeCorrect == Spec => []TypeOK
<1>1. Init => TypeOK
  BY InitTypes
<1>2. Init => Named
  BY DEF Init, Named, SnapSteps
<1>3. TypeOK /\ Named /\ [Next]_vars => TypeOK' /\ Named'
  BY TypeStep, NamedStep
<1> QED BY <1>1, <1>2, <1>3, PTL DEF Spec

-----------------------------------------------------------------------------
(* Whoever writes "stopped" has seen the VMM exit *)

\* Only a running state names a VMM.
StoppedHasNoPid == state.status # "running" => state.pid = NoPid

\* What a start is going to record is running.
StartsRunning == \A c \in Cli : pc[c] \in StartSteps => loc[c].status = "running"

\* The steps of a stop or a snapshot after the wait for the VMM's exit, and
\* those of a stop that found the VM not running.
AfterExit == {"stop.stale", "stop.write", "snap.write", "snap.publish"}
Gone == \A c \in Cli : pc[c] \in AfterExit => ~IsVMM(loc[c].pid)

ExitInv == StoppedHasNoPid /\ StartsRunning /\ Gone

LEMMA StoppedWritten ==
    ASSUME TypeOK, StoppedHasNoPid, StartsRunning, [Next]_vars PROVE StoppedHasNoPid'
<1> USE DEF os, disk, args, cmd, Goto, Keep, Return, WriteState, WriteFails
<1>1. Stopped.pid = NoPid /\ Absent.pid = NoPid
  BY DEF Stopped, Absent
<1> SUFFICES ASSUME state' # state, state'.status # "running" PROVE state'.pid = NoPid
  BY DEF StoppedHasNoPid
<1>2. ASSUME NEW c \in Cli, Create(c) PROVE state'.pid = NoPid
  BY <1>1, <1>2 DEF Create, CreateMkdir, CreateMetadata, CreateState, CreateFail, Unlink
<1>3. ASSUME NEW c \in Cli, Start(c) PROVE state'.pid = NoPid
  <2>1. CASE StartRecord(c)
    BY <2>1 DEF StartRecord, StartsRunning, StartSteps
  <2>2. CASE StartFinish(c)
    BY <2>2 DEF StartFinish, StartsRunning, StartSteps
  <2> QED
    BY <1>1, <1>3, <2>1, <2>2 DEF Start, StartBegin, StartNet, StartNetFail, StartShare,
       StartSpawn, StartSpawnFail, StartLogFail, StartRecordFail, StartApiUp,
       StartExecReady, StartAbort, StartAborted, StartRelay, StartRelaySkip
<1>4. ASSUME NEW c \in Cli, Stop(c) \/ Delete(c) PROVE state'.pid = NoPid
  BY <1>1, <1>4 DEF Stop, StopBegin, StopRead, StopStale, StopRelays, StopVm, StopVmm,
     StopExited, StopSignal, StopGiveUp, StopWrite, Delete, DeleteBegin, DeleteForce,
     DeleteStop, DeleteUnmerge, DeleteFile, DeleteDir, DeleteFail, Unlink
<1>5. ASSUME NEW c \in Cli, Snapshot(c) PROVE state'.pid = NoPid
  BY <1>1, <1>5 DEF Snapshot, SnapBegin, SnapUnmount, SnapPause, SnapPauseFail, SnapSave,
     SnapShutdown, SnapAbort, SnapExited, SnapWrite, SnapPublish
<1>6. ASSUME Process \/ UNCHANGED vars \/ \E c \in Cli : CliCrash(c) PROVE FALSE
  BY <1>6 DEF Process, VmmListen, VmmHang, ProcessExit, CliCrash, vars
<1> QED BY <1>2, <1>3, <1>4, <1>5, <1>6 DEF Next, Command

\* The step at which a start is entered sets the status; no later one changes it.
LEMMA StartsRunningStep ==
    ASSUME TypeOK, StartsRunning, [Next]_vars PROVE StartsRunning'
<1> USE DEF os, disk, args, cmd, Goto, Keep, Return
<1> SUFFICES ASSUME NEW d \in Cli, pc'[d] \in StartSteps PROVE loc'[d].status = "running"
  BY DEF StartsRunning
<1>0. loc[d] \in StateRec /\ (pc[d] \in StartSteps => loc[d].status = "running")
  BY DEF StartsRunning, TypeOK
<1>1. ASSUME NEW c \in Cli, Create(c) PROVE loc'[d].status = "running"
  BY <1>0, <1>1 DEF TypeOK, StartSteps, Create, CreateMkdir, CreateMetadata, CreateState,
     CreateFail, Unlink
<1>2. ASSUME NEW c \in Cli, Start(c) PROVE loc'[d].status = "running"
  <2>1. CASE StartBegin(c)
    <3>1. [Stopped EXCEPT !.status = "running"].status = "running"
      BY DEF Stopped
    <3> QED BY <1>0, <2>1, <3>1 DEF StartBegin, TypeOK
  <2>2. ASSUME NEW k, NEW p, KeepHelper(c, k, p), pc[c] \in StartSteps,
               pc'[d] = pc[d] \/ d = c
        PROVE  loc'[d].status = "running"
    BY <1>0, <2>2 DEF KeepHelper, TypeOK, StateRec
  <2>3. CASE StartNet(c) \/ StartShare(c) \/ \E k \in Relays : StartRelay(c, k)
    BY <1>0, <2>2, <2>3 DEF StartNet, StartShare, StartRelay, AfterNet, StartSteps, TypeOK
  <2>4. CASE StartSpawn(c) \/ StartExecReady(c)
    BY <1>0, <2>4 DEF StartSpawn, StartExecReady, TypeOK, StateRec, StartSteps
  <2>5. CASE \/ StartNetFail(c) \/ StartSpawnFail(c) \/ StartLogFail(c)
             \/ StartRecordFail(c) \/ StartAborted(c) \/ StartFinish(c)
    BY <1>0, <2>5 DEF StartNetFail, StartSpawnFail, StartLogFail, StartRecordFail,
       StartAborted, StartFinish, TypeOK, StartSteps, AfterNet
  <2>6. CASE \/ StartRecord(c) \/ StartApiUp(c) \/ StartAbort(c)
             \/ \E k \in Relays : StartRelaySkip(c, k)
    BY <1>0, <2>6 DEF StartRecord, StartApiUp, StartAbort, StartRelaySkip, TypeOK,
       StartSteps
  <2> QED
    BY <1>2, <2>1, <2>3, <2>4, <2>5, <2>6 DEF Start
<1>3. ASSUME NEW c \in Cli, Stop(c) \/ Delete(c) PROVE loc'[d].status = "running"
  BY <1>0, <1>3 DEF TypeOK, StartSteps, Stop, StopBegin, StopRead, StopStale, StopRelays,
     StopVm, StopVmm, StopExited, StopSignal, StopGiveUp, StopWrite, Delete, DeleteBegin,
     DeleteForce, DeleteStop, DeleteUnmerge, DeleteFile, DeleteDir, DeleteFail, Unlink
<1>4. ASSUME NEW c \in Cli, Snapshot(c) PROVE loc'[d].status = "running"
  BY <1>0, <1>4 DEF TypeOK, StartSteps, Snapshot, SnapBegin, SnapUnmount, SnapPause,
     SnapPauseFail, SnapSave, SnapShutdown, SnapAbort, SnapExited, SnapWrite, SnapPublish
<1>5. ASSUME Process \/ UNCHANGED vars \/ \E c \in Cli : CliCrash(c)
      PROVE  loc'[d].status = "running"
  BY <1>0, <1>5 DEF Process, VmmListen, VmmHang, ProcessExit, CliCrash, vars, TypeOK,
     StartSteps
<1> QED BY <1>1, <1>2, <1>3, <1>4, <1>5 DEF Next, Command

\* A process becomes a VMM only under an id that nothing names.
LEMMA NewVMMIsFresh ==
    ASSUME TypeOK, [Next]_vars, NEW p \in Pid, proc'[p] \in {"boot", "load", "vmm"}
    PROVE  IsVMM(p) \/ p \in Fresh
<1> USE DEF os, disk, args, cmd, IsVMM
<1>0. /\ \A k \in Helpers : k \notin {"boot", "load", "vmm"}
      /\ Relays \subseteq Helpers /\ {"net", "share"} \subseteq Helpers
  BY LifecycleConstants DEF Helpers, RelayKinds
<1>1. ASSUME NEW S, NEW T, Terminate(S, T) PROVE IsVMM(p)
  BY <1>1 DEF Terminate, TypeOK
<1>2. ASSUME NEW q \in Fresh, NEW k, Spawn(q, k) PROVE IsVMM(p) \/ p \in Fresh
  BY <1>2 DEF Spawn, TypeOK, Fresh
<1>3. ASSUME proc' = proc PROVE IsVMM(p)
  BY <1>3 DEF TypeOK
<1>4. ASSUME NEW c \in Cli, Create(c) \/ CliCrash(c) PROVE IsVMM(p)
  BY <1>3, <1>4 DEF Create, CreateMkdir, CreateMetadata, CreateState, CreateFail, Unlink,
     CliCrash
<1>5. ASSUME NEW c \in Cli, Start(c) PROVE IsVMM(p) \/ p \in Fresh
  BY <1>1, <1>2, <1>3, <1>5 DEF Start, StartBegin, StartNet, StartNetFail, StartShare,
     StartSpawn, StartSpawnFail, StartLogFail, StartRecord, StartRecordFail, StartApiUp,
     StartExecReady, StartAbort, StartAborted, StartRelay, StartRelaySkip, StartFinish,
     GiveUpVMM
<1>6. ASSUME NEW c \in Cli, Stop(c) \/ Delete(c) PROVE IsVMM(p)
  BY <1>1, <1>3, <1>6 DEF Stop, StopBegin, StopRead, StopStale, StopRelays, StopVm,
     StopVmm, StopExited, StopSignal, StopGiveUp, StopWrite, Delete, DeleteBegin,
     DeleteForce, DeleteStop, DeleteUnmerge, DeleteFile, DeleteDir, DeleteFail, Unlink
<1>7. ASSUME NEW c \in Cli, Snapshot(c) PROVE IsVMM(p)
  BY <1>1, <1>3, <1>7 DEF Snapshot, SnapBegin, SnapUnmount, SnapPause, SnapPauseFail,
     SnapSave, SnapShutdown, SnapAbort, SnapExited, SnapWrite, SnapPublish
<1>8. ASSUME Process PROVE IsVMM(p)
  BY <1>8 DEF Process, VmmListen, VmmHang, ProcessExit, TypeOK
<1>9. ASSUME UNCHANGED vars PROVE IsVMM(p)
  BY <1>3, <1>9 DEF vars
<1> QED BY <1>4, <1>5, <1>6, <1>7, <1>8, <1>9 DEF Next, Command

\* A command gets past the wait by seeing the VMM gone, and forgets nothing.
LEMMA PastTheWait ==
    ASSUME TypeOK, StoppedHasNoPid, [Next]_vars, NEW d \in Cli, pc'[d] \in AfterExit
    PROVE  \/ pc[d] \in AfterExit /\ loc'[d].pid = loc[d].pid
           \/ ~IsVMM(loc[d].pid)'
<1> USE DEF os, disk, args, cmd, Goto, Keep, Return, AfterExit
<1>0. loc[d] \in StateRec /\ state \in StateRec
  BY DEF TypeOK
<1> DEFINE Past == \/ pc[d] \in AfterExit /\ loc'[d].pid = loc[d].pid
                   \/ ~IsVMM(loc[d].pid)'
<1> HIDE DEF Past
<1>a. ASSUME pc'[d] = pc[d], loc'[d] = loc[d] PROVE Past
  BY <1>a DEF Past
<1>b. ASSUME NEW c \in Cli, StopRead(c), proc' = proc PROVE Past
  <2>1. CASE d # c
    BY <1>a, <1>b, <2>1 DEF StopRead, TypeOK
  <2>2. CASE d = c
    <3>1. loc'[d] = state /\ ~RunningAlive(state)
      BY <1>b, <2>2 DEF StopRead, TypeOK
    <3>2. ~IsVMM(state.pid)
      BY <3>1, LifecycleConstants DEF RunningAlive, Alive, StoppedHasNoPid, IsVMM
    <3> QED BY <1>b, <3>1, <3>2 DEF IsVMM, Past
  <2> QED BY <2>1, <2>2
<1>c. ASSUME NEW c \in Cli, NEW S, NEW T, ~Alive(loc[c].pid), Terminate(S, T), loc' = loc,
             \A e \in Cli : e # c => pc'[e] = pc[e]
      PROVE  Past
  <2>1. CASE d # c
    BY <1>a, <1>c, <2>1
  <2>2. CASE d = c
    <3>1. ~IsVMM(loc[d].pid)
      BY <1>c, <2>2 DEF Alive, IsVMM
    <3> QED BY <1>c, <3>1 DEF IsVMM, Past, Terminate, TypeOK
  <2> QED BY <2>1, <2>2
<1>1. ASSUME NEW c \in Cli, Create(c) \/ CliCrash(c) PROVE Past
  BY <1>a, <1>1 DEF TypeOK, Create, CreateMkdir, CreateMetadata, CreateState, CreateFail,
     Unlink, CliCrash
<1>2. ASSUME NEW c \in Cli, Start(c) PROVE Past
  BY <1>a, <1>2 DEF TypeOK, Start, StartBegin, StartNet, StartNetFail, StartShare,
     StartSpawn, StartSpawnFail, StartLogFail, StartRecord, StartRecordFail, StartApiUp,
     StartExecReady, StartAbort, StartAborted, StartRelay, StartRelaySkip, StartFinish,
     AfterNet, KeepHelper
<1>3. ASSUME NEW c \in Cli, Stop(c) PROVE Past
  <2>1. CASE StopExited(c)
    BY <1>c, <2>1 DEF StopExited, TypeOK
  <2>2. CASE StopBegin(c)
    BY <1>b, <2>2 DEF StopBegin
  <2>3. CASE StopStale(c)
    BY <1>a, <2>3 DEF StopStale, TypeOK, Past
  <2> QED
    BY <1>a, <1>3, <2>1, <2>2, <2>3 DEF TypeOK, Stop, StopRelays, StopVm, StopVmm,
       StopSignal, StopGiveUp, StopWrite
<1>4. ASSUME NEW c \in Cli, Delete(c) PROVE Past
  <2>1. CASE DeleteStop(c)
    BY <1>a, <1>b, <2>1 DEF DeleteStop, TypeOK
  <2> QED
    BY <1>a, <1>4, <2>1 DEF TypeOK, Delete, DeleteBegin, DeleteForce, DeleteUnmerge,
       DeleteFile, DeleteDir, DeleteFail, Unlink
<1>5. ASSUME NEW c \in Cli, Snapshot(c) PROVE Past
  <2>1. CASE SnapExited(c)
    BY <1>c, <2>1 DEF SnapExited, TypeOK
  <2>2. CASE SnapWrite(c)
    BY <1>a, <2>2 DEF SnapWrite, TypeOK, Past
  <2> QED
    BY <1>a, <1>5, <2>1, <2>2 DEF TypeOK, Snapshot, SnapBegin, SnapUnmount, SnapPause,
       SnapPauseFail, SnapSave, SnapShutdown, SnapAbort, SnapPublish
<1>6. ASSUME Process \/ UNCHANGED vars PROVE Past
  BY <1>a, <1>6 DEF Process, VmmListen, VmmHang, ProcessExit, vars
<1> QED BY <1>1, <1>2, <1>3, <1>4, <1>5, <1>6 DEF Next, Command, Past

LEMMA GoneStep ==
    ASSUME TypeOK, ExitInv, [Next]_vars PROVE Gone'
<1> SUFFICES ASSUME NEW d \in Cli, pc'[d] \in AfterExit PROVE ~IsVMM(loc[d].pid)'
  BY DEF Gone
<1>1. CASE pc[d] \in AfterExit /\ loc'[d].pid = loc[d].pid
  <2>1. ~IsVMM(loc[d].pid) /\ loc[d].pid \notin Fresh
    BY <1>1 DEF ExitInv, Gone, Fresh, Names
  <2> QED BY <1>1, <2>1, NewVMMIsFresh DEF IsVMM
<1> QED BY <1>1, PastTheWait DEF ExitInv

\* No stop, delete or snapshot writes "stopped" for a VMM that still runs,
\* however many commands there are and wherever they are killed.
THEOREM StopSeesTheExit == Spec => []ExitBeforeWrite
<1>1. Init => ExitInv
  BY DEF Init, ExitInv, StoppedHasNoPid, StartsRunning, Gone, Absent, Stopped, StartSteps,
     AfterExit
<1>2. TypeOK /\ ExitInv /\ [Next]_vars => ExitInv'
  BY StoppedWritten, StartsRunningStep, GoneStep DEF ExitInv
<1>3. ExitInv => ExitBeforeWrite
  BY DEF ExitInv, Gone, AfterExit, ExitBeforeWrite
<1> QED BY <1>1, <1>2, <1>3, TypeCorrect, PTL DEF Spec

-----------------------------------------------------------------------------
(* Where a command stands to the VMMs that are to go on running *)

NoVMMSteps == {"create.copy", "create.state", "start.net", "start.share",
               "start.spawn", "start.abort", "stop.stale", "stop.write",
               "delete.unmerge", "delete.remove", "snap.write", "snap.publish"}
OwnVMMSteps == {"start.api", "start.ssh", "start.relays", "stop.relays",
                "stop.vm", "stop.vmm", "stop.wait", "stop.kill", "snap.unmount",
                "snap.pause", "snap.save", "snap.shutdown", "snap.wait"}

\* No VMM that is to go on running.
Quiet == \A p \in Pid : ~LiveVMM(p)

LEMMA NoDirNoState ==
    ASSUME ~dir => state.status = "absent", [Next]_vars
    PROVE  ~dir' => state'.status = "absent"
<1> USE DEF os, disk, args, cmd, WriteState, WriteFails
<1>1. Absent.status = "absent"
  BY DEF Absent, Stopped
<1>2. ASSUME NEW c \in Cli, Create(c) \/ CliCrash(c) PROVE ~dir' => state'.status = "absent"
  <2>1. CASE CreateFail(c)
    BY <1>1, <2>1 DEF CreateFail, Unlink, Files
  <2>2. CASE CreateMkdir(c) \/ CreateMetadata(c) \/ CreateState(c) \/ CliCrash(c)
    BY <2>2 DEF CreateMkdir, CreateMetadata, CreateState, CliCrash
  <2> QED BY <1>2, <2>1, <2>2 DEF Create
<1>3. ASSUME NEW c \in Cli, Start(c) PROVE ~dir' => state'.status = "absent"
  <2>1. CASE StartRecord(c) \/ StartAborted(c) \/ StartFinish(c)
    BY <2>1 DEF StartRecord, StartAborted, StartFinish
  <2>2. CASE \/ StartNet(c) \/ StartNetFail(c) \/ StartShare(c)
             \/ \E k \in Relays : StartRelay(c, k) \/ StartRelaySkip(c, k)
    BY <2>2 DEF StartNet, StartNetFail, StartShare, StartRelay, StartRelaySkip
  <2> QED
    BY <1>3, <2>1, <2>2 DEF Start, StartBegin, StartSpawn, StartSpawnFail, StartLogFail,
       StartRecordFail, StartApiUp, StartExecReady, StartAbort
<1>4. ASSUME NEW c \in Cli, Stop(c) PROVE ~dir' => state'.status = "absent"
  BY <1>4 DEF Stop, StopBegin, StopRead, StopStale, StopRelays, StopVm, StopVmm,
     StopExited, StopSignal, StopGiveUp, StopWrite
<1>5. ASSUME NEW c \in Cli, Delete(c) PROVE ~dir' => state'.status = "absent"
  BY <1>1, <1>5 DEF Delete, DeleteBegin, DeleteForce, DeleteStop, StopRead, DeleteUnmerge,
     DeleteFile, DeleteDir, DeleteFail, Unlink, Listing, Files
<1>6. ASSUME NEW c \in Cli, Snapshot(c) PROVE ~dir' => state'.status = "absent"
  BY <1>6 DEF Snapshot, SnapBegin, SnapUnmount, SnapPause, SnapPauseFail, SnapSave,
     SnapShutdown, SnapAbort, SnapExited, SnapWrite, SnapPublish
<1>7. ASSUME Process \/ UNCHANGED vars PROVE ~dir' => state'.status = "absent"
  BY <1>7 DEF Process, VmmListen, VmmHang, ProcessExit, vars
<1> QED BY <1>2, <1>3, <1>4, <1>5, <1>6, <1>7 DEF Next, Command

-----------------------------------------------------------------------------
(* What signals and spawns do to the VMMs that are to go on running *)

LEMMA LiveAfterTerminate ==
    ASSUME TypeOK, NEW S, NEW T, Terminate(S, T), NEW p \in Pid, LiveVMM(p)'
    PROVE  LiveVMM(p) /\ p \notin S /\ p \notin T
BY DEF TypeOK, Terminate, LiveVMM, IsVMM

LEMMA LiveAfterSpawn ==
    ASSUME TypeOK, NEW q \in Fresh, NEW k, Spawn(q, k), doomed' = doomed,
           NEW p \in Pid, LiveVMM(p)'
    PROVE  LiveVMM(p) \/ (p = q /\ k \notin Helpers)
<1>1. \A j \in Helpers : j \notin {"boot", "load", "vmm"}
  BY LifecycleConstants DEF Helpers, RelayKinds
<1> QED BY <1>1 DEF TypeOK, Spawn, LiveVMM, IsVMM, Fresh

LEMMA LiveUnchanged ==
    ASSUME proc' = proc, doomed' = doomed, NEW p \in Pid, LiveVMM(p)'
    PROVE  LiveVMM(p)
BY DEF LiveVMM, IsVMM

\* A VMM that start, stop or delete finds not running is gone.
LEMMA NotRunningIsQuiet ==
    ASSUME TypeOK, LiveVMMRecorded, \A c \in Cli : pc[c] # "start.record",
           ~RunningAlive(state)
    PROVE  Quiet
<1> SUFFICES ASSUME NEW p \in Pid, LiveVMM(p) PROVE FALSE
  BY DEF Quiet
<1>1. state.status = "running" /\ state.pid = p
  BY DEF LiveVMMRecorded
<1>2. proc[p] # "free"
  BY DEF LiveVMM, IsVMM
<1> QED BY <1>1, <1>2 DEF RunningAlive, Alive

-----------------------------------------------------------------------------
(* The VM directory *)

Present == meta # "none" /\ state.status # "absent"
HalfThere == {"create.copy", "create.state", "delete.remove"}

-----------------------------------------------------------------------------
(* The API socket and the paused guests *)

\* A PID recorded for a helper is not a VMM's, and only a VMM that has come up
\* answers on the socket or has a guest to pause.
HelpersAreHelpers ==
    \A k \in Helpers : /\ ~IsVMM(state.helper[k])
                       /\ \A c \in Cli : ~IsVMM(loc[c].helper[k])
Answering ==
    /\ sock \in Pid => proc[sock] = "vmm"
    /\ \A p \in paused : proc[p] = "vmm"

\* A VMM to be that has a paused guest, now or once it listens, and answers.
Unresumed(p) == LiveVMM(p) /\ p \notin mute /\ (proc[p] = "load" \/ p \in paused)
Pausing == {"snap.save", "snap.shutdown", "snap.wait"}

LEMMA HelperKinds == "net" \in Helpers /\ "share" \in Helpers
                     /\ \A k \in Helpers : k \notin {"boot", "load", "vmm", "free"}
BY LifecycleConstants DEF Helpers, RelayKinds

\* A process that nothing but fresh spawns make a VMM.
Spawned(p) == IsVMM(p)' => IsVMM(p) \/ p \in Fresh

LEMMA OnlyFreshSpawn == ASSUME TypeOK, [Next]_vars, NEW p PROVE Spawned(p)
<1> USE HelperKinds DEF Spawned, IsVMM, TypeOK, os, disk, args, cmd
<1>1. ASSUME NEW c \in Cli, Create(c) \/ Delete(c) \/ CliCrash(c) PROVE Spawned(p)
  BY <1>1 DEF Create, CreateMkdir, CreateMetadata, CreateState, CreateFail, Unlink,
     Delete, DeleteBegin, DeleteForce, DeleteStop, DeleteUnmerge, DeleteFile, DeleteDir,
     DeleteFail, CliCrash
<1>2. ASSUME NEW c \in Cli, Start(c) PROVE Spawned(p)
  BY <1>2 DEF Start, StartBegin, StartNet, StartNetFail, StartShare, StartSpawn,
     StartSpawnFail, StartLogFail, StartRecord, StartRecordFail, StartApiUp,
     StartExecReady, StartAbort, StartAborted, StartRelay, StartRelaySkip, StartFinish,
     Spawn, Terminate, GiveUpVMM
<1>3. ASSUME NEW c \in Cli, Stop(c) PROVE Spawned(p)
  BY <1>3 DEF Stop, StopBegin, StopStale, StopRelays, StopVm, StopVmm, StopExited,
     StopSignal, StopGiveUp, StopWrite, Terminate
<1>4. ASSUME NEW c \in Cli, Snapshot(c) PROVE Spawned(p)
  BY <1>4 DEF Snapshot, SnapBegin, SnapUnmount, SnapPause, SnapPauseFail, SnapSave,
     SnapShutdown, SnapAbort, SnapExited, SnapWrite, SnapPublish, Terminate
<1>5. CASE Process \/ UNCHANGED vars
  BY <1>5 DEF Process, VmmListen, VmmHang, ProcessExit, vars
<1> QED BY <1>1, <1>2, <1>3, <1>4, <1>5 DEF Next, Command

\* A PID that has been recorded for a helper, and that of a field never set.
OldHelper(q) ==
    \/ q = NoPid
    \/ \E k \in Helpers : q = state.helper[k] \/ \E c \in Cli : q = loc[c].helper[k]

\* IsVMM in the next state, of a PID in this one.
NextVMM(q) == q \in Pid /\ proc'[q] \in {"boot", "load", "vmm"}

LEMMA OldHelpersStay ==
    ASSUME TypeOK, HelpersAreHelpers, [Next]_vars
    PROVE  \A q : OldHelper(q) => ~NextVMM(q)
<1> SUFFICES ASSUME NEW q, OldHelper(q) PROVE ~NextVMM(q)
  OBVIOUS
<1>1. ~IsVMM(q)
  BY LifecycleConstants DEF OldHelper, HelpersAreHelpers, IsVMM
<1>2. q \notin Fresh
  BY LifecycleConstants DEF OldHelper, Fresh, Names
<1>3. Spawned(q)
  BY OnlyFreshSpawn
<1> QED BY <1>1, <1>2, <1>3 DEF Spawned, IsVMM, NextVMM

LEMMA StateHelpers ==
    ASSUME TypeOK, [Next]_vars, NEW k \in Helpers PROVE OldHelper(state'.helper[k])
<1> USE DEF OldHelper, WriteState, WriteFails, Absent, Stopped, TypeOK, os, disk, args, cmd
<1>1. ASSUME NEW c \in Cli, Create(c) \/ Delete(c) \/ CliCrash(c)
      PROVE  OldHelper(state'.helper[k])
  BY <1>1 DEF Create, CreateMkdir, CreateMetadata, CreateState, CreateFail, Unlink,
     Delete, DeleteBegin, DeleteForce, DeleteStop, DeleteUnmerge, DeleteFile, DeleteDir,
     DeleteFail, CliCrash
<1>2. ASSUME NEW c \in Cli, Start(c) PROVE OldHelper(state'.helper[k])
  BY <1>2 DEF Start, StartBegin, StartNet, StartNetFail, StartShare, StartSpawn,
     StartSpawnFail, StartLogFail, StartRecord, StartRecordFail, StartApiUp,
     StartExecReady, StartAbort, StartAborted, StartRelay, StartRelaySkip, StartFinish
<1>3. ASSUME NEW c \in Cli, Stop(c) PROVE OldHelper(state'.helper[k])
  BY <1>3 DEF Stop, StopBegin, StopStale, StopRelays, StopVm, StopVmm, StopExited,
     StopSignal, StopGiveUp, StopWrite
<1>4. ASSUME NEW c \in Cli, Snapshot(c) PROVE OldHelper(state'.helper[k])
  BY <1>4 DEF Snapshot, SnapBegin, SnapUnmount, SnapPause, SnapPauseFail, SnapSave,
     SnapShutdown, SnapAbort, SnapExited, SnapWrite, SnapPublish
<1>5. CASE Process \/ UNCHANGED vars
  BY <1>5 DEF Process, VmmListen, VmmHang, ProcessExit, vars
<1> QED BY <1>1, <1>2, <1>3, <1>4, <1>5 DEF Next, Command

\* What a command holds was recorded before, or it has just been spawned.
Recorded(q) == OldHelper(q) \/ (q \in Pid /\ proc'[q] \in Helpers)

LEMMA MemoryHelpers ==
    ASSUME TypeOK, [Next]_vars, NEW b \in Cli, NEW k \in Helpers
    PROVE  Recorded(loc'[b].helper[k])
<1> USE DEF Recorded, OldHelper, Stopped, TypeOK, os, disk, args, cmd, Return, Keep
<1>1. ASSUME NEW c \in Cli, Create(c) \/ Delete(c) \/ CliCrash(c)
      PROVE  Recorded(loc'[b].helper[k])
  BY <1>1 DEF Create, CreateMkdir, CreateMetadata, CreateState, CreateFail, Unlink,
     Delete, DeleteBegin, DeleteForce, DeleteStop, StopRead, DeleteUnmerge, DeleteFile,
     DeleteDir, DeleteFail, CliCrash
<1>2. ASSUME NEW c \in Cli, Start(c) PROVE Recorded(loc'[b].helper[k])
  <2>1. ASSUME NEW j \in Helpers, NEW p \in Fresh, Spawn(p, j), KeepHelper(c, j, p)
        PROVE  Recorded(loc'[b].helper[k])
    BY <2>1 DEF Spawn, KeepHelper, Fresh, StateRec
  <2>2. CASE StartNet(c) \/ StartShare(c) \/ \E j \in Relays : StartRelay(c, j)
    BY <2>1, <2>2 DEF StartNet, StartShare, StartRelay, Helpers
  <2>3. CASE StartSpawn(c)
    BY <2>3 DEF StartSpawn, StateRec
  <2>4. CASE StartBegin(c)
    <3>1. loc' = [loc EXCEPT ![c] = [Stopped EXCEPT !.status = "running"]]
      BY <2>4 DEF StartBegin
    <3>2. loc'[b].helper[k] = loc[b].helper[k] \/ loc'[b].helper[k] = NoPid
      BY <3>1
    <3> QED BY <3>2
  <2>5. CASE StartExecReady(c)
    BY <2>5 DEF StartExecReady, StateRec
  <2> QED
    BY <1>2, <2>2, <2>3, <2>4, <2>5 DEF Start, StartNetFail, StartSpawnFail, StartLogFail,
       StartRecord, StartRecordFail, StartApiUp, StartAbort, StartAborted, StartRelaySkip,
       StartFinish
<1>3. ASSUME NEW c \in Cli, Stop(c) PROVE Recorded(loc'[b].helper[k])
  BY <1>3 DEF Stop, StopBegin, StopRead, StopStale, StopRelays, StopVm, StopVmm,
     StopExited, StopSignal, StopGiveUp, StopWrite
<1>4. ASSUME NEW c \in Cli, Snapshot(c) PROVE Recorded(loc'[b].helper[k])
  BY <1>4 DEF Snapshot, SnapBegin, SnapUnmount, SnapPause, SnapPauseFail, SnapSave,
     SnapShutdown, SnapAbort, SnapExited, SnapWrite, SnapPublish
<1>5. CASE Process \/ UNCHANGED vars
  BY <1>5 DEF Process, VmmListen, VmmHang, ProcessExit, vars
<1> QED BY <1>1, <1>2, <1>3, <1>4, <1>5 DEF Next, Command

LEMMA HelpersStayHelpers ==
    ASSUME TypeOK, HelpersAreHelpers, [Next]_vars PROVE HelpersAreHelpers'
<1>1. \A q : Recorded(q) => ~NextVMM(q)
  BY OldHelpersStay, HelperKinds DEF Recorded, NextVMM
<1>2. \A k \in Helpers : ~NextVMM(state'.helper[k])
  BY <1>1, StateHelpers DEF Recorded
<1>3. \A k \in Helpers, c \in Cli : ~NextVMM(loc'[c].helper[k])
  BY <1>1, MemoryHelpers
<1> QED BY <1>2, <1>3 DEF HelpersAreHelpers, IsVMM, NextVMM

LEMMA BackendsAreNoVMM ==
    ASSUME HelpersAreHelpers, NEW c \in Cli, NEW p \in Backends(loc[c]) PROVE ~IsVMM(p)
BY HelperKinds DEF HelpersAreHelpers, Backends, PidsOf

\* A signal that spares the VMMs lets them run.
LEMMA SignalsKeepVMMs ==
    ASSUME TypeOK, NEW S, NEW T, Terminate(S, T), NEW p \in Pid, proc[p] = "vmm",
           \A q \in S : ~IsVMM(q)
    PROVE  proc'[p] = "vmm"
BY DEF TypeOK, Terminate, IsVMM

LEMMA AnsweringStep ==
    ASSUME TypeOK, HelpersAreHelpers, Answering, [Next]_vars PROVE Answering'
<1> USE LifecycleConstants DEF os, disk, args, cmd
<1>1. ASSUME NEW c \in Cli, Create(c) \/ Delete(c) \/ CliCrash(c) PROVE Answering'
  BY <1>1 DEF Answering, Create, CreateMkdir, CreateMetadata, CreateState, CreateFail,
     Unlink, Delete, DeleteBegin, DeleteForce, DeleteStop, DeleteUnmerge, DeleteFile,
     DeleteDir, DeleteFail, CliCrash
<1>2. ASSUME \A p \in Pid : proc[p] = "vmm" => proc'[p] = "vmm",
             sock' \in {NoPid, sock}, paused' \subseteq paused \cup ({sock} \ {NoPid})
      PROVE  Answering'
  BY <1>2 DEF Answering, TypeOK, MaybePid
<1>3. ASSUME NEW c \in Cli, Start(c) PROVE Answering'
  <2>1. \A p \in Pid : proc[p] = "vmm" => proc'[p] = "vmm"
    <3>1. CASE \E q \in Fresh, k \in Helpers \cup {"boot", "load"} : Spawn(q, k)
      BY <3>1 DEF Spawn, Fresh, TypeOK
    <3>2. CASE StartSpawnFail(c) \/ StartRecordFail(c) \/ StartAbort(c)
      BY <3>2, BackendsAreNoVMM, SignalsKeepVMMs DEF StartSpawnFail, StartRecordFail,
         StartAbort, GiveUpVMM
    <3>3. CASE StartNet(c) \/ StartShare(c) \/ StartSpawn(c) \/ \E j \in Relays : StartRelay(c, j)
      BY <3>1, <3>3 DEF StartNet, StartShare, StartSpawn, StartRelay, Helpers
    <3> QED
      BY <1>3, <3>2, <3>3 DEF Start, StartBegin, StartNetFail, StartLogFail, StartRecord,
         StartApiUp, StartExecReady, StartAborted, StartRelaySkip, StartFinish
  <2>2. sock' \in {NoPid, sock} /\ paused' \subseteq paused
    BY <1>3 DEF Unanswered, Start, StartBegin, StartNet, StartNetFail, StartShare,
       StartSpawn, StartSpawnFail, StartLogFail, StartRecord, StartRecordFail, StartApiUp,
       StartExecReady, StartAbort, StartAborted, StartRelay, StartRelaySkip, StartFinish
  <2> QED BY <1>2, <2>1, <2>2
<1>4. ASSUME NEW c \in Cli, Stop(c) PROVE Answering'
  <2>1. \A p \in Pid : proc[p] = "vmm" => proc'[p] = "vmm"
    <3>1. CASE StopStale(c)
      <4>1. \A q \in PidsOf(loc[c], {"share"}) : ~IsVMM(q)
        BY HelperKinds DEF HelpersAreHelpers, PidsOf
      <4> QED BY <3>1, <4>1, SignalsKeepVMMs DEF StopStale
    <3>2. CASE StopExited(c)
      BY <3>2, BackendsAreNoVMM, SignalsKeepVMMs DEF StopExited
    <3>3. CASE StopRelays(c) \/ StopVm(c) \/ StopVmm(c) \/ StopSignal(c)
      BY <3>3, SignalsKeepVMMs DEF StopRelays, StopVm, StopVmm, StopSignal
    <3> QED
      BY <1>4, <3>1, <3>2, <3>3 DEF Stop, StopBegin, StopGiveUp, StopWrite
  <2>2. sock' = sock /\ paused' = paused
    BY <1>4 DEF Stop, StopBegin, StopStale, StopRelays, StopVm, StopVmm, StopExited,
       StopSignal, StopGiveUp, StopWrite
  <2> QED BY <1>2, <2>1, <2>2
<1>5. ASSUME NEW c \in Cli, Snapshot(c) PROVE Answering'
  <2>1. \A p \in Pid : proc[p] = "vmm" => proc'[p] = "vmm"
    BY <1>5, BackendsAreNoVMM, SignalsKeepVMMs DEF Unanswered, Snapshot, SnapBegin,
       SnapUnmount, SnapPause, SnapPauseFail, SnapSave, SnapShutdown, SnapAbort,
       SnapExited, SnapWrite, SnapPublish
  <2>2. sock' = sock /\ paused' \subseteq paused \cup ({sock} \ {NoPid})
    BY <1>5 DEF TypeOK, Unanswered, Snapshot, SnapBegin, SnapUnmount, SnapPause,
       SnapPauseFail, SnapSave, SnapShutdown, SnapAbort, SnapExited, SnapWrite,
       SnapPublish
  <2> QED BY <1>2, <2>1, <2>2
<1>6. CASE Process \/ UNCHANGED vars
  BY <1>6 DEF Answering, TypeOK, MaybePid, Process, VmmListen, VmmHang, ProcessExit, vars
<1> QED BY <1>1, <1>3, <1>4, <1>5, <1>6 DEF Next, Command

\* No VMM is added and none starts to load.
Fades == \A p \in Pid : LiveVMM(p)' => LiveVMM(p) /\ (proc'[p] = "load" => proc[p] = "load")

Waking == Pausing \cup {"start.record", "start.api"}

LEMMA SignalsFade == ASSUME TypeOK, NEW S, NEW T, Terminate(S, T) PROVE Fades
BY DEF TypeOK, Terminate, Fades, LiveVMM, IsVMM

LEMMA HelpersFade ==
    ASSUME TypeOK, NEW q \in Fresh, NEW k \in Helpers, Spawn(q, k), doomed' = doomed PROVE Fades
BY HelperKinds DEF TypeOK, Spawn, Fades, LiveVMM, IsVMM, Fresh

LEMMA StillFades == ASSUME proc' = proc, doomed' = doomed PROVE Fades
BY DEF Fades, LiveVMM, IsVMM

-----------------------------------------------------------------------------
(* Several commands at once: what a lock would have to cover *)

\* The window of a start: it has read state.json and has not yet recorded the
\* VMM that it spawns.
Launching == {"start.net", "start.share", "start.spawn", "start.record"}

\* No other command is in flight while a start is in that window; nothing is
\* asked of stops, deletes, snapshots and the rest of a start.
LaunchesAlone == \A c, d \in Cli : c # d /\ pc[c] \in Launching => pc[d] = "idle"

\* Commands are killed anywhere but at the steps S.
NextSparing(S) ==
    \/ \E c \in Cli : Command(c) \/ (pc[c] \notin S /\ CliCrash(c))
    \/ Process
SpecSparing(S) == Init /\ [][NextSparing(S)]_vars

LEMMA SparingIsNext ==
    ASSUME NEW S, [NextSparing(S)]_vars PROVE [Next]_vars
BY DEF NextSparing, Next

\* What holds at all times holds of the sparing specifications too.
LEMMA SparingTypes ==
    ASSUME NEW S PROVE SpecSparing(S) => [](TypeOK /\ ExitInv)
<1>1. Init => TypeOK /\ Named
  BY InitTypes DEF Init, Named, SnapSteps
<1>2. Init => ExitInv
  BY DEF Init, ExitInv, StoppedHasNoPid, StartsRunning, Gone, Absent, Stopped, StartSteps,
     AfterExit
<1>3. TypeOK /\ Named /\ ExitInv /\ [NextSparing(S)]_vars => TypeOK' /\ Named' /\ ExitInv'
  BY SparingIsNext, TypeStep, NamedStep, StoppedWritten, StartsRunningStep, GoneStep DEF
     ExitInv
<1> QED BY <1>1, <1>2, <1>3, PTL DEF SpecSparing

\* Where a command expects no VMM that goes on running, and where it expects
\* none but the one it holds.
KnowsVMM(c) ==
    /\ pc[c] \in NoVMMSteps => Quiet
    /\ pc[c] \in OwnVMMSteps \cup {"start.record"} =>
          \A p \in Pid : LiveVMM(p) => p = loc[c].pid

ApartInv ==
    /\ LiveVMMRecorded
    /\ ~dir => state.status = "absent"
    /\ \A c \in Cli : KnowsVMM(c)

\* No VMM comes to run that was not running.
Shrinks == \A p \in Pid : LiveVMM(p)' => LiveVMM(p)

\* A step of c and the commands that take no part in it.
OthersStay(c) == \A d \in Cli : d # c => pc'[d] = pc[d] /\ loc'[d] = loc[d]
OthersIdle(c) == \A d \in Cli : d # c => pc[d] = "idle"
NobodyElseLaunches(c) == \A d \in Cli : d # c => pc[d] \notin Launching

LEMMA CommandActsAlone ==
    ASSUME TypeOK, NEW c \in Cli, Command(c) \/ CliCrash(c)
    PROVE  OthersStay(c) /\ (pc[c] # "idle" \/ pc'[c] # "idle")
<1> USE DEF os, disk, args, cmd, Goto, Keep, KeepHelper, Return, OthersStay, TypeOK
<1>1. CASE Create(c) \/ CliCrash(c)
  BY <1>1 DEF Create, CreateMkdir, CreateMetadata, CreateState, CreateFail, Unlink, CliCrash
<1>2. CASE Start(c)
  BY <1>2 DEF Start, StartBegin, StartNet, StartNetFail, StartShare, StartSpawn,
     StartSpawnFail, StartLogFail, StartRecord, StartRecordFail, StartApiUp,
     StartExecReady, StartAbort, StartAborted, StartRelay, StartRelaySkip, StartFinish
<1>3. CASE Stop(c)
  BY <1>3 DEF Stop, StopBegin, StopRead, StopStale, StopRelays, StopVm, StopVmm,
     StopExited, StopSignal, StopGiveUp, StopWrite
<1>4. CASE Delete(c)
  BY <1>4 DEF Delete, DeleteBegin, DeleteForce, DeleteStop, StopRead, DeleteUnmerge,
     DeleteFile, DeleteDir, DeleteFail, Unlink
<1>5. CASE Snapshot(c)
  BY <1>5 DEF Snapshot, SnapBegin, SnapUnmount, SnapPause, SnapPauseFail, SnapSave,
     SnapShutdown, SnapAbort, SnapExited, SnapWrite, SnapPublish
<1> QED BY <1>1, <1>2, <1>3, <1>4, <1>5 DEF Command

\* A command moves only while nobody else is in the window, and nobody else is
\* in flight while it is in the window itself.
LEMMA Windows ==
    ASSUME TypeOK, LaunchesAlone, LaunchesAlone', NEW c \in Cli, Command(c) \/ CliCrash(c)
    PROVE  /\ NobodyElseLaunches(c)
           /\ pc[c] \in Launching \/ pc'[c] \in Launching => OthersIdle(c)
<1>1. OthersStay(c) /\ (pc[c] # "idle" \/ pc'[c] # "idle")
  BY CommandActsAlone
<1> QED BY <1>1 DEF LaunchesAlone, NobodyElseLaunches, OthersIdle, OthersStay

-----------------------------------------------------------------------------
(* What a command and state.json know of the VMMs after each of its steps *)

\* What the step of c leaves behind; the others keep what they know.
Kept(c) == LiveVMMRecorded' /\ KnowsVMM(c)' /\ (Shrinks \/ OthersIdle(c))

LEMMA KeptByAll ==
    ASSUME ApartInv, NEW c \in Cli, OthersStay(c), Kept(c)
    PROVE  LiveVMMRecorded' /\ \A d \in Cli : KnowsVMM(d)'
<1> SUFFICES ASSUME NEW d \in Cli, d # c PROVE KnowsVMM(d)'
  BY DEF Kept
<1>1. pc'[d] = pc[d] /\ loc'[d] = loc[d]
  BY DEF OthersStay
<1>2. CASE OthersIdle(c)
  BY <1>1, <1>2 DEF OthersIdle, KnowsVMM, NoVMMSteps, OwnVMMSteps
<1>3. CASE Shrinks
  BY <1>1, <1>3 DEF ApartInv, KnowsVMM, Shrinks, Quiet
<1> QED BY <1>2, <1>3 DEF Kept

LEMMA KeptQuiet ==
    ASSUME NEW c \in Cli, Quiet' PROVE Kept(c)
BY DEF Kept, Quiet, LiveVMMRecorded, KnowsVMM, Shrinks

\* Nothing is at stake in a step that leaves state.json alone.
LEMMA KeptSame ==
    ASSUME ApartInv, NEW c \in Cli, NobodyElseLaunches(c), pc[c] # "start.record",
           Shrinks, state' = state,
           pc'[c] \in {"idle", "stop.begin"} \/ (pc'[c] \in OwnVMMSteps /\
              \A p \in Pid : LiveVMM(p)' => p = loc'[c].pid)
    PROVE  Kept(c)
<1>1. \A p \in Pid : LiveVMM(p) => state.status = "running" /\ state.pid = p
  BY DEF ApartInv, LiveVMMRecorded, NobodyElseLaunches, Launching
<1>2. LiveVMMRecorded'
  BY <1>1 DEF Shrinks, LiveVMMRecorded
<1>3. KnowsVMM(c)'
  BY DEF KnowsVMM, NoVMMSteps, OwnVMMSteps
<1> QED BY <1>2, <1>3 DEF Kept

LEMMA KeptQuietly ==
    ASSUME NEW c \in Cli, Quiet, Shrinks PROVE Kept(c)
BY KeptQuiet DEF Quiet, Shrinks

LEMMA SignalsShrink == ASSUME TypeOK, NEW S, NEW T, Terminate(S, T) PROVE Shrinks
BY LiveAfterTerminate DEF Shrinks

LEMMA HelpersShrink ==
    ASSUME TypeOK, NEW q \in Fresh, NEW k \in Helpers, Spawn(q, k),
    doomed' = doomed PROVE Shrinks
BY LiveAfterSpawn DEF Shrinks

LEMMA StillShrinks == ASSUME proc' = proc, doomed' = doomed PROVE Shrinks
BY LiveUnchanged DEF Shrinks

\* What c sees not running is not running, unless a start is about to record it.
LEMMA StaleIsQuiet ==
    ASSUME TypeOK, ApartInv, NEW c \in Cli, NobodyElseLaunches(c), pc[c] # "start.record",
           ~RunningAlive(state)
    PROVE  Quiet
BY NotRunningIsQuiet DEF ApartInv, NobodyElseLaunches, Launching

LEMMA KeptCreate ==
    ASSUME TypeOK, ApartInv, NEW c \in Cli, NobodyElseLaunches(c), Create(c)
    PROVE  Kept(c)
<1> USE DEF os, disk, args, cmd, Goto, Return
<1>1. Quiet
  BY DEF Create, CreateMkdir, CreateMetadata, CreateState, CreateFail, Unlink, ApartInv,
     KnowsVMM, NoVMMSteps, LiveVMMRecorded, NobodyElseLaunches, Launching, Quiet
<1>2. proc' = proc /\ doomed' = doomed
  BY DEF Create, CreateMkdir, CreateMetadata, CreateState, CreateFail, Unlink
<1> QED BY <1>1, <1>2, StillShrinks, KeptQuietly

LEMMA KeptStart ==
    ASSUME TypeOK, ExitInv, ApartInv, NEW c \in Cli, NobodyElseLaunches(c),
           pc[c] \in Launching => OthersIdle(c), Start(c)
    PROVE  Kept(c)
<1> USE DEF os, disk, args, cmd, Goto, Keep, Return
<1>q. pc[c] \in NoVMMSteps => Quiet
  BY DEF ApartInv, KnowsVMM
<1>o. pc[c] \in OwnVMMSteps => \A p \in Pid : LiveVMM(p) => p = loc[c].pid
  BY DEF ApartInv, KnowsVMM
<1>k. loc[c] \in StateRec
  BY DEF TypeOK
<1>1. CASE StartBegin(c)
  <2>1. Quiet
    BY <1>1, StaleIsQuiet DEF StartBegin
  <2> QED BY <1>1, <2>1, StillShrinks, KeptQuietly DEF StartBegin
<1>2. CASE StartNet(c) \/ StartNetFail(c) \/ StartShare(c)
  <2>1. Quiet
    BY <1>2, <1>q DEF StartNet, StartNetFail, StartShare, NoVMMSteps
  <2>2. Shrinks
    BY <1>2, HelperKinds, HelpersShrink, StillShrinks DEF StartNet, StartNetFail, StartShare
  <2> QED BY <2>1, <2>2, KeptQuietly
<1>3. CASE StartSpawn(c)
  <2>1. Quiet /\ OthersIdle(c)
    BY <1>3, <1>q DEF StartSpawn, NoVMMSteps, Launching
  <2>2. PICK q \in Fresh : /\ Spawn(q, IF mode[c] = "restore" THEN "load" ELSE "boot")
                           /\ loc' = [loc EXCEPT ![c].pid = q]
    BY <1>3 DEF StartSpawn
  <2>3. loc'[c].pid = q
    BY <1>k, <2>2 DEF TypeOK, StateRec
  <2>4. \A p \in Pid : LiveVMM(p)' => p = loc'[c].pid
    BY <1>3, <2>1, <2>2, <2>3, LiveAfterSpawn DEF StartSpawn, Quiet
  <2>5. pc'[c] = "start.record"
    BY <1>3 DEF StartSpawn, TypeOK
  <2> QED BY <2>1, <2>4, <2>5 DEF Kept, LiveVMMRecorded, KnowsVMM, NoVMMSteps, OwnVMMSteps
<1>4. CASE StartSpawnFail(c) \/ StartLogFail(c) \/ StartAborted(c)
  <2>1. Quiet
    BY <1>4, <1>q DEF StartSpawnFail, StartLogFail, StartAborted, NoVMMSteps
  <2>2. Shrinks
    BY <1>4, SignalsShrink, StillShrinks DEF StartSpawnFail, StartLogFail, StartAborted
  <2> QED BY <2>1, <2>2, KeptQuietly
<1>5. CASE StartRecord(c)
  <2>1. \A p \in Pid : LiveVMM(p)' => p = loc[c].pid
    BY <1>5, LiveUnchanged DEF StartRecord, ApartInv, KnowsVMM
  <2>2. state' = loc[c] /\ loc' = loc /\ loc[c].status = "running"
    BY <1>5 DEF StartRecord, WriteState, ExitInv, StartsRunning, StartSteps
  <2>3. pc'[c] = "start.api" /\ Shrinks
    BY <1>5, StillShrinks DEF StartRecord, TypeOK
  <2> QED BY <2>1, <2>2, <2>3 DEF Kept, LiveVMMRecorded, KnowsVMM, NoVMMSteps
<1>6. CASE StartRecordFail(c)
  <2>1. \A p \in Pid : LiveVMM(p) => p = loc[c].pid
    BY <1>6 DEF StartRecordFail, ApartInv, KnowsVMM
  <2>2. Quiet'
    BY <1>6, <2>1, LiveAfterTerminate DEF StartRecordFail, GiveUpVMM, Quiet
  <2> QED BY <2>2, KeptQuiet
<1>7. CASE StartApiUp(c) \/ StartExecReady(c) \/ \E k \in Relays : StartRelaySkip(c, k)
  <2>1. pc[c] \in OwnVMMSteps /\ state' = state /\ Shrinks
    BY <1>7, StillShrinks DEF StartApiUp, StartExecReady, StartRelaySkip, OwnVMMSteps
  <2>2. loc'[c].pid = loc[c].pid
    BY <1>7, <1>k DEF StartApiUp, StartExecReady, StartRelaySkip, TypeOK, StateRec
  <2>3. pc'[c] \in OwnVMMSteps
    BY <1>7 DEF StartApiUp, StartExecReady, StartRelaySkip, TypeOK, OwnVMMSteps
  <2> QED BY <1>o, <2>1, <2>2, <2>3, KeptSame DEF Shrinks, OwnVMMSteps
<1>8. CASE StartAbort(c)
  <2>1. pc[c] \in OwnVMMSteps
    BY <1>8 DEF StartAbort, OwnVMMSteps
  <2>2. Quiet'
    BY <1>8, <1>o, <2>1, LiveAfterTerminate DEF StartAbort, GiveUpVMM, Quiet
  <2> QED BY <2>2, KeptQuiet
<1>9. ASSUME NEW k \in Relays, StartRelay(c, k) PROVE Kept(c)
  <2>1. PICK q \in Fresh : Spawn(q, k) /\ KeepHelper(c, k, q)
    BY <1>9 DEF StartRelay
  <2>2. k \in Helpers
    BY DEF Helpers
  <2>3. loc'[c].pid = loc[c].pid
    BY <1>k, <2>1 DEF KeepHelper, TypeOK, StateRec
  <2>4. pc'[c] = pc[c] /\ pc[c] \in OwnVMMSteps /\ state' = state /\ doomed' = doomed
    BY <1>9 DEF StartRelay, OwnVMMSteps
  <2>5. Shrinks
    BY <2>1, <2>2, <2>4, HelpersShrink
  <2> QED BY <1>o, <2>3, <2>4, <2>5, KeptSame DEF Shrinks, OwnVMMSteps
<1>10. CASE StartFinish(c)
  <2>1. pc[c] = "start.relays" /\ Shrinks /\ pc'[c] = "idle"
    BY <1>10, StillShrinks DEF StartFinish, TypeOK
  <2>2. CASE state' = state
    BY <2>1, <2>2, KeptSame
  <2>3. CASE state' = loc[c]
    <3>1. loc[c].status = "running"
      BY <1>10 DEF StartFinish, ExitInv, StartsRunning, StartSteps
    <3>2. \A p \in Pid : LiveVMM(p)' => p = loc[c].pid
      BY <1>o, <2>1 DEF Shrinks, OwnVMMSteps
    <3> QED BY <2>1, <2>3, <3>1, <3>2 DEF Kept, LiveVMMRecorded, KnowsVMM, NoVMMSteps,
        OwnVMMSteps
  <2> QED BY <1>10, <2>2, <2>3 DEF StartFinish, WriteState, WriteFails
<1> QED BY <1>1, <1>2, <1>3, <1>4, <1>5, <1>6, <1>7, <1>8, <1>9, <1>10 DEF Start

LEMMA KeptRead ==
    ASSUME TypeOK, ApartInv, NEW c \in Cli, NobodyElseLaunches(c),
           pc[c] \in {"idle", "stop.begin"}, StopRead(c),
           proc' = proc, doomed' = doomed, state' = state
    PROVE  Kept(c)
<1>1. CASE RunningAlive(state)
  <2>1. pc'[c] \in OwnVMMSteps /\ loc'[c] = state
    BY <1>1 DEF StopRead, Goto, Keep, TypeOK, OwnVMMSteps
  <2>2. \A p \in Pid : LiveVMM(p)' => p = state.pid
    BY LiveUnchanged DEF ApartInv, LiveVMMRecorded, NobodyElseLaunches, Launching
  <2> QED BY <2>1, <2>2, StillShrinks, KeptSame
<1>2. CASE ~RunningAlive(state)
  BY <1>2, StaleIsQuiet, StillShrinks, KeptQuietly
<1> QED BY <1>1, <1>2

LEMMA KeptStop ==
    ASSUME TypeOK, ApartInv, NEW c \in Cli, NobodyElseLaunches(c), Stop(c)
    PROVE  Kept(c)
<1> USE DEF os, disk, args, cmd, Goto, Keep, Return
<1>q. pc[c] \in NoVMMSteps => Quiet
  BY DEF ApartInv, KnowsVMM
<1>o. pc[c] \in OwnVMMSteps => \A p \in Pid : LiveVMM(p) => p = loc[c].pid
  BY DEF ApartInv, KnowsVMM
<1>1. CASE StopBegin(c)
  BY <1>1, KeptRead DEF StopBegin
<1>2. CASE StopStale(c) \/ StopWrite(c)
  <2>1. Quiet
    BY <1>2, <1>q DEF StopStale, StopWrite, NoVMMSteps
  <2> QED BY <1>2, <2>1, SignalsShrink, StillShrinks, KeptQuietly DEF StopStale, StopWrite
<1>3. CASE StopRelays(c) \/ StopVm(c) \/ StopVmm(c) \/ StopSignal(c)
  <2>1. pc[c] \in OwnVMMSteps /\ state' = state /\ loc' = loc
    BY <1>3 DEF StopRelays, StopVm, StopVmm, StopSignal, OwnVMMSteps
  <2>2. Shrinks
    BY <1>3, SignalsShrink DEF StopRelays, StopVm, StopVmm, StopSignal
  <2>3. pc'[c] \in OwnVMMSteps
    BY <1>3 DEF StopRelays, StopVm, StopVmm, StopSignal, TypeOK, OwnVMMSteps
  <2> QED BY <1>o, <2>1, <2>2, <2>3, KeptSame DEF Shrinks, OwnVMMSteps
<1>4. CASE StopExited(c)
  <2>1. pc[c] \in OwnVMMSteps /\ ~Alive(loc[c].pid)
    BY <1>4 DEF StopExited, OwnVMMSteps
  <2>2. Quiet
    BY <1>o, <2>1 DEF Quiet, LiveVMM, IsVMM, Alive
  <2> QED BY <1>4, <2>2, SignalsShrink, KeptQuietly DEF StopExited
<1>5. CASE StopGiveUp(c)
  BY <1>5, StillShrinks, KeptSame DEF StopGiveUp, TypeOK
<1> QED BY <1>1, <1>2, <1>3, <1>4, <1>5 DEF Stop

LEMMA KeptDelete ==
    ASSUME TypeOK, ApartInv, NEW c \in Cli, NobodyElseLaunches(c), Delete(c)
    PROVE  Kept(c)
<1> USE DEF os, disk, args, cmd, Goto, Keep, Return
<1>1. CASE DeleteBegin(c)
  BY <1>1, StaleIsQuiet, StillShrinks, KeptQuietly DEF DeleteBegin
<1>2. CASE DeleteUnmerge(c) \/ DeleteFile(c) \/ DeleteDir(c) \/ DeleteFail(c)
  <2>1. Quiet
    BY <1>2 DEF DeleteUnmerge, DeleteFile, DeleteDir, DeleteFail, Unlink, ApartInv,
       KnowsVMM, NoVMMSteps
  <2> QED BY <1>2, <2>1, StillShrinks, KeptQuietly DEF DeleteUnmerge, DeleteFile,
      DeleteDir, DeleteFail, Unlink
<1>3. CASE DeleteForce(c)
  BY <1>3, StillShrinks, KeptSame DEF DeleteForce, TypeOK
<1>4. CASE DeleteStop(c)
  BY <1>4, KeptRead, StillShrinks, KeptSame DEF DeleteStop, TypeOK
<1> QED BY <1>1, <1>2, <1>3, <1>4 DEF Delete

LEMMA KeptSnapshot ==
    ASSUME TypeOK, ApartInv, NEW c \in Cli, NobodyElseLaunches(c), Snapshot(c)
    PROVE  Kept(c)
<1> USE DEF os, disk, args, cmd, Goto, Keep, Return
<1>q. pc[c] \in NoVMMSteps => Quiet
  BY DEF ApartInv, KnowsVMM
<1>o. pc[c] \in OwnVMMSteps => \A p \in Pid : LiveVMM(p) => p = loc[c].pid
  BY DEF ApartInv, KnowsVMM
<1>1. ASSUME NEW n \in SnapName, SnapBegin(c, n) PROVE Kept(c)
  <2>1. pc[c] = "idle" /\ pc'[c] \in OwnVMMSteps /\ loc'[c] = state /\ state' = state
    BY <1>1 DEF SnapBegin, TypeOK, OwnVMMSteps
  <2>2. \A p \in Pid : LiveVMM(p)' => p = state.pid
    BY <1>1, <2>1, LiveUnchanged DEF SnapBegin, ApartInv, LiveVMMRecorded,
       NobodyElseLaunches, Launching
  <2> QED BY <1>1, <2>1, <2>2, StillShrinks, KeptSame DEF SnapBegin
<1>2. CASE SnapPause(c) \/ SnapSave(c) \/ SnapShutdown(c)
  <2>1. pc[c] \in OwnVMMSteps /\ state' = state /\ loc' = loc
    BY <1>2 DEF SnapPause, SnapSave, SnapShutdown, OwnVMMSteps
  <2>2. Shrinks
    BY <1>2, SignalsShrink, StillShrinks DEF SnapPause, SnapSave, SnapShutdown
  <2>3. pc'[c] \in OwnVMMSteps
    BY <1>2 DEF SnapPause, SnapSave, SnapShutdown, TypeOK, OwnVMMSteps
  <2> QED BY <1>o, <2>1, <2>2, <2>3, KeptSame DEF Shrinks, OwnVMMSteps
<1>3. CASE SnapPauseFail(c) \/ SnapAbort(c)
  BY <1>3, SignalsShrink, StillShrinks, KeptSame DEF SnapPauseFail, SnapAbort, TypeOK
<1>6. CASE SnapUnmount(c)
  <2>1. pc[c] \in OwnVMMSteps /\ pc[c] # "start.record" /\ state' = state /\ Shrinks
    BY <1>6, StillShrinks DEF SnapUnmount, OwnVMMSteps
  <2>2. \/ pc'[c] = "idle"
        \/ pc'[c] = "snap.pause" /\ loc' = loc
    BY <1>6 DEF SnapUnmount, TypeOK
  <2> QED BY <1>o, <2>1, <2>2, KeptSame DEF Shrinks, OwnVMMSteps
<1>4. CASE SnapExited(c)
  <2>1. pc[c] \in OwnVMMSteps /\ ~Alive(loc[c].pid)
    BY <1>4 DEF SnapExited, OwnVMMSteps
  <2>2. Quiet
    BY <1>o, <2>1 DEF Quiet, LiveVMM, IsVMM, Alive
  <2> QED BY <1>4, <2>2, SignalsShrink, KeptQuietly DEF SnapExited
<1>5. CASE SnapWrite(c) \/ SnapPublish(c)
  <2>1. Quiet
    BY <1>5, <1>q DEF SnapWrite, SnapPublish, NoVMMSteps
  <2> QED BY <1>5, <2>1, StillShrinks, KeptQuietly DEF SnapWrite, SnapPublish
<1> QED BY <1>1, <1>2, <1>3, <1>4, <1>5, <1>6 DEF Snapshot

LEMMA KeptByProcess ==
    ASSUME TypeOK, ApartInv, Process \/ UNCHANGED vars PROVE ApartInv'
<1> USE DEF os, disk, args, cmd
<1>1. UNCHANGED <<dir, state, pc, loc>>
  BY DEF Process, VmmListen, VmmHang, ProcessExit, vars
<1>2. \A p \in Pid : LiveVMM(p)' => LiveVMM(p)
  BY DEF Process, VmmListen, VmmHang, ProcessExit, vars, LiveVMM, IsVMM, TypeOK
<1>3. LiveVMMRecorded'
  BY <1>1, <1>2 DEF ApartInv, LiveVMMRecorded
<1>4. ASSUME NEW c \in Cli PROVE KnowsVMM(c)'
  BY <1>1, <1>2 DEF ApartInv, KnowsVMM, Quiet
<1> QED BY <1>1, <1>3, <1>4 DEF ApartInv

LEMMA KeptByEachStep ==
    ASSUME TypeOK, ExitInv, ApartInv, LaunchesAlone, LaunchesAlone',
           [NextSparing({"start.record"})]_vars
    PROVE  ApartInv'
<1>1. CASE Process \/ UNCHANGED vars
  BY <1>1, KeptByProcess
<1>2. ASSUME NEW c \in Cli, Command(c) \/ (pc[c] # "start.record" /\ CliCrash(c))
      PROVE  ApartInv'
  <2>1. OthersStay(c) /\ NobodyElseLaunches(c) /\ (pc[c] \in Launching => OthersIdle(c))
    BY <1>2, CommandActsAlone, Windows
  <2>2. ASSUME Command(c) PROVE Kept(c)
    BY <2>1, <2>2, KeptCreate, KeptStart, KeptStop, KeptDelete, KeptSnapshot DEF Command
  <2>3. ASSUME pc[c] # "start.record", CliCrash(c) PROVE Kept(c)
    <3>1. proc' = proc /\ doomed' = doomed /\ state' = state /\ pc'[c] = "idle"
      BY <2>3 DEF CliCrash, Return, Goto, TypeOK, disk, os
    <3> QED BY <2>1, <2>3, <3>1, StillShrinks, KeptSame
  <2>4. Kept(c)
    BY <1>2, <2>2, <2>3
  <2>5. ~dir' => state'.status = "absent"
    BY NoDirNoState, SparingIsNext DEF ApartInv
  <2> QED BY <2>1, <2>4, <2>5, KeptByAll DEF ApartInv
<1> QED BY <1>1, <1>2 DEF NextSparing

\* However many commands are in flight: while every start has the VM to itself
\* from its look at state.json to the write that records its VMM, and is not
\* killed just before that write, no VMM that is to go on running is lost and
\* there are never two of them.  Stops, deletes, snapshots and the rest of a start
\* may interleave at every step, may be killed and may fail.
THEOREM LaunchesAloneLoseNoVMM ==
    SpecSparing({"start.record"}) /\ []LaunchesAlone => []LiveVMMRecorded
<1>1. Init => ApartInv
  BY DEF Init, ApartInv, LiveVMMRecorded, KnowsVMM, Quiet, LiveVMM, IsVMM, Absent, Stopped
<1>2. /\ TypeOK /\ ExitInv /\ ApartInv /\ LaunchesAlone /\ LaunchesAlone'
      /\ [NextSparing({"start.record"})]_vars
      => ApartInv'
  BY KeptByEachStep
<1>3. ApartInv => LiveVMMRecorded
  BY DEF ApartInv
<1>4. SpecSparing({"start.record"}) => [](TypeOK /\ ExitInv)
  BY SparingTypes
<1> QED BY <1>1, <1>2, <1>3, <1>4, PTL DEF SpecSparing

-----------------------------------------------------------------------------
(* Several commands at once: the VM directory *)

\* Nobody else is in flight while a create fills the directory or a delete
\* empties it.
HalvesAlone == \A c, d \in Cli : c # d /\ pc[c] \in HalfThere => pc[d] = "idle"

KnowsDirectory(c) ==
    /\ pc[c] # "idle" => dir
    /\ pc[c] = "create.state" => meta # "none"
    /\ pc[c] = "delete.remove" => Listing \subseteq todo[c]

TidyInv ==
    /\ ~dir => Listing = {}
    /\ dir /\ ~torn /\ (\A c \in Cli : pc[c] \notin HalfThere) => Present
    /\ \A c \in Cli : KnowsDirectory(c)

NobodyElseHalf(c) == \A d \in Cli : d # c => pc[d] \notin HalfThere

LEMMA Halves ==
    ASSUME TypeOK, HalvesAlone, HalvesAlone', NEW c \in Cli, Command(c) \/ CliCrash(c)
    PROVE  /\ NobodyElseHalf(c)
           /\ pc[c] \in HalfThere \/ pc'[c] \in HalfThere => OthersIdle(c)
<1>1. OthersStay(c) /\ (pc[c] # "idle" \/ pc'[c] # "idle")
  BY CommandActsAlone
<1> QED BY <1>1 DEF HalvesAlone, NobodyElseHalf, OthersIdle, OthersStay

\* Steps that find both files and take none away.
LEMMA TidyWhole ==
    ASSUME TidyInv, NEW c \in Cli, OthersStay(c), NobodyElseHalf(c),
           pc[c] \notin HalfThere, pc'[c] \notin HalfThere, dir' = dir, torn' = torn,
           meta' = meta, state' = state \/ (dir /\ state'.status # "absent"), vhost' => vhost \/ dir,
           pc'[c] # "idle" => pc[c] # "idle" \/ dir
    PROVE  TidyInv'
<1>1. dir /\ ~torn => Present
  BY DEF TidyInv, NobodyElseHalf
<1>2. dir /\ ~torn => Present'
  BY <1>1 DEF Present
<1>3. ~dir => Listing' = {}
  BY DEF TidyInv, Listing, Files
<1>4. ASSUME NEW d \in Cli PROVE KnowsDirectory(d)'
  BY DEF TidyInv, KnowsDirectory, OthersStay, NobodyElseHalf, HalfThere
<1> QED BY <1>2, <1>3, <1>4 DEF TidyInv

\* Steps of a create or a delete, with the directory to itself.
LEMMA TidyHalf ==
    ASSUME NEW c \in Cli, OthersStay(c), OthersIdle(c), KnowsDirectory(c)',
           ~dir' => (Listing = {})', dir' /\ ~torn' /\ pc'[c] \notin HalfThere => Present'
    PROVE  TidyInv'
BY DEF TidyInv, KnowsDirectory, OthersStay, OthersIdle, HalfThere

LEMMA TidyCreate ==
    ASSUME TypeOK, TidyInv, NEW c \in Cli, OthersStay(c), OthersIdle(c), Create(c)
    PROVE  TidyInv'
<1> USE DEF os, disk, args, cmd, Goto, Return, Keep, TypeOK
<1>1. CASE CreateMkdir(c)
  BY <1>1, TidyHalf DEF CreateMkdir, TidyInv, KnowsDirectory, HalfThere
<1>2. CASE CreateMetadata(c)
  BY <1>2, TidyHalf DEF CreateMetadata, TidyInv, KnowsDirectory, HalfThere
<1>3. CASE CreateState(c)
  BY <1>3, TidyHalf DEF CreateState, WriteState, Stopped, TidyInv, KnowsDirectory, Present
<1>4. CASE CreateFail(c)
  <2>1. dir /\ pc'[c] = "idle"
    BY <1>4 DEF CreateFail, TidyInv, KnowsDirectory
  <2>2. CASE Unlink(Files) /\ dir' = FALSE /\ torn' = FALSE
    <3>1. Listing' = {}
      BY <2>2 DEF Unlink, Files, Listing, Absent, Stopped
    <3> QED BY <2>1, <2>2, <3>1, TidyHalf DEF KnowsDirectory
  <2>3. CASE torn' = dir /\ dir' = dir
    BY <2>1, <2>3, TidyHalf DEF KnowsDirectory
  <2> QED BY <1>4, <2>2, <2>3 DEF CreateFail
<1> QED BY <1>1, <1>2, <1>3, <1>4 DEF Create

LEMMA TidyStart ==
    ASSUME TypeOK, TidyInv, StartsRunning, NEW c \in Cli, OthersStay(c), NobodyElseHalf(c),
           Start(c)
    PROVE  TidyInv'
<1> USE DEF os, disk, args, cmd, Goto, Return, Keep, TypeOK
<1>1. pc[c] \notin HalfThere /\ pc'[c] \notin HalfThere
  BY DEF Start, StartBegin, StartNet, StartNetFail, StartShare, StartSpawn,
     StartSpawnFail, StartLogFail, StartRecord, StartRecordFail, StartApiUp,
     StartExecReady, StartAbort, StartAborted, StartRelay, StartRelaySkip, StartFinish,
     AfterNet, HalfThere
<1>2. dir
  BY DEF Start, StartBegin, StartNet, StartNetFail, StartShare, StartSpawn,
     StartSpawnFail, StartLogFail, StartRecord, StartRecordFail, StartApiUp,
     StartExecReady, StartAbort, StartAborted, StartRelay, StartRelaySkip, StartFinish,
     TidyInv, KnowsDirectory, Listing, Files
<1>3. dir' = dir /\ torn' = torn /\ meta' = meta
  BY DEF Start, StartBegin, StartNet, StartNetFail, StartShare, StartSpawn,
     StartSpawnFail, StartLogFail, StartRecord, StartRecordFail, StartApiUp,
     StartExecReady, StartAbort, StartAborted, StartRelay, StartRelaySkip, StartFinish
<1>4. state' = state \/ state'.status # "absent"
  <2>1. pc[c] \in StartSteps => loc[c].status = "running"
    BY DEF StartsRunning
  <2> QED
    BY <2>1 DEF Start, StartBegin, StartNet, StartNetFail, StartShare, StartSpawn,
       StartSpawnFail, StartLogFail, StartRecord, StartRecordFail, StartApiUp,
       StartExecReady, StartAbort, StartAborted, StartRelay, StartRelaySkip, StartFinish,
       WriteState, WriteFails, Stopped, StartSteps
<1> QED BY <1>1, <1>2, <1>3, <1>4, TidyWhole

LEMMA TidyStop ==
    ASSUME TypeOK, TidyInv, NEW c \in Cli, OthersStay(c), NobodyElseHalf(c), Stop(c)
    PROVE  TidyInv'
<1> USE DEF os, disk, args, cmd, Goto, Return, Keep, TypeOK
<1>1. pc[c] \notin HalfThere /\ pc'[c] \notin HalfThere /\ dir' = dir /\ torn' = torn /\ meta' = meta
  BY DEF Stop, StopBegin, StopRead, StopStale, StopRelays, StopVm, StopVmm, StopExited,
     StopSignal, StopGiveUp, StopWrite, HalfThere
<1>2. dir
  BY DEF Stop, StopBegin, StopRead, StopStale, StopRelays, StopVm, StopVmm, StopExited,
     StopSignal, StopGiveUp, StopWrite, TidyInv, KnowsDirectory, Listing, Files
<1>3. state' = state \/ state' = Stopped
  BY DEF Stop, StopBegin, StopRead, StopStale, StopRelays, StopVm, StopVmm, StopExited,
     StopSignal, StopGiveUp, StopWrite, WriteState, WriteFails
<1> QED BY <1>1, <1>2, <1>3, TidyWhole DEF Stopped

LEMMA TidySnapshot ==
    ASSUME TypeOK, TidyInv, NEW c \in Cli, OthersStay(c), NobodyElseHalf(c), Snapshot(c)
    PROVE  TidyInv'
<1> USE DEF os, disk, args, cmd, Goto, Return, Keep, TypeOK
<1>1. pc[c] \notin HalfThere /\ pc'[c] \notin HalfThere /\ dir' = dir /\ torn' = torn /\ meta' = meta
  BY DEF Snapshot, SnapBegin, SnapUnmount, SnapPause, SnapPauseFail, SnapSave,
     SnapShutdown, SnapAbort, SnapExited, SnapWrite, SnapPublish, HalfThere
<1>2. dir
  BY DEF Snapshot, SnapBegin, SnapUnmount, SnapPause, SnapPauseFail, SnapSave,
     SnapShutdown, SnapAbort, SnapExited, SnapWrite, SnapPublish, TidyInv, KnowsDirectory,
     Listing, Files
<1>3. state' = state \/ state' = Stopped
  BY DEF Snapshot, SnapBegin, SnapUnmount, SnapPause, SnapPauseFail, SnapSave,
     SnapShutdown, SnapAbort, SnapExited, SnapWrite, SnapPublish, WriteState, WriteFails
<1> QED BY <1>1, <1>2, <1>3, TidyWhole DEF Stopped

\* The steps of a delete up to its look at the directory.
LEMMA TidyDeleteBegins ==
    ASSUME TypeOK, TidyInv, NEW c \in Cli, OthersStay(c), NobodyElseHalf(c),
           \/ DeleteBegin(c) \/ DeleteForce(c) \/ DeleteStop(c)
           \/ DeleteUnmerge(c) /\ pc'[c] = "idle"
    PROVE  TidyInv'
<1> USE DEF os, disk, args, cmd, Goto, Return, Keep, TypeOK
<1>1. pc[c] \notin HalfThere /\ pc'[c] \notin HalfThere /\ UNCHANGED disk
  BY DEF DeleteBegin, DeleteForce, DeleteStop, StopRead, DeleteUnmerge, HalfThere
<1>2. dir
  BY DEF DeleteBegin, DeleteForce, DeleteStop, DeleteUnmerge, TidyInv, KnowsDirectory
<1> QED BY <1>1, <1>2, TidyWhole

LEMMA TidyDelete ==
    ASSUME TypeOK, TidyInv, NEW c \in Cli, OthersStay(c), OthersIdle(c),
           \/ DeleteUnmerge(c) /\ pc'[c] = "delete.remove"
           \/ DeleteFile(c) \/ DeleteDir(c) \/ DeleteFail(c)
    PROVE  TidyInv'
<1> USE DEF os, disk, args, cmd, Goto, Return, Keep, TypeOK
<1>1. CASE DeleteUnmerge(c) /\ pc'[c] = "delete.remove"
  <2>1. dir' = dir /\ dir /\ Listing' = Listing /\ pc'[c] = "delete.remove"
    BY <1>1 DEF DeleteUnmerge, TidyInv, KnowsDirectory, Listing
  <2>2. todo'[c] = Listing
    BY <1>1 DEF DeleteUnmerge
  <2> QED BY <2>1, <2>2, TidyHalf DEF KnowsDirectory, HalfThere
<1>2. CASE DeleteFile(c)
  <2>1. dir' = dir /\ dir /\ pc'[c] = "delete.remove"
    BY <1>2 DEF DeleteFile, TidyInv, KnowsDirectory
  <2>2. Listing' \subseteq todo'[c]
    <3>1. PICK f \in todo[c] : Unlink({f}) /\ todo' = [todo EXCEPT ![c] = @ \ {f}]
      BY <1>2 DEF DeleteFile
    <3>2. Listing \subseteq todo[c]
      BY <1>2 DEF DeleteFile, TidyInv, KnowsDirectory
    <3>3. todo'[c] = todo[c] \ {f}
      BY <3>1
    <3>4. ASSUME NEW g \in Listing' PROVE g \in Listing /\ g # f
      BY <3>1, <3>4 DEF Unlink, Listing, Absent, Stopped
    <3> QED BY <3>2, <3>3, <3>4
  <2> QED BY <2>1, <2>2, TidyHalf DEF KnowsDirectory, HalfThere
<1>3. CASE DeleteDir(c)
  <2>1. Listing = {} /\ Listing' = Listing /\ ~dir' /\ pc'[c] = "idle"
    BY <1>3 DEF DeleteDir, TidyInv, KnowsDirectory, Listing
  <2> QED BY <2>1, TidyHalf DEF KnowsDirectory
<1>4. CASE DeleteFail(c)
  <2>1. dir /\ dir' /\ torn' /\ pc'[c] = "idle"
    BY <1>4 DEF DeleteFail, TidyInv, KnowsDirectory
  <2> QED BY <2>1, TidyHalf DEF KnowsDirectory
<1> QED BY <1>1, <1>2, <1>3, <1>4

LEMMA TidyEachStep ==
    ASSUME TypeOK, ExitInv, TidyInv, HalvesAlone, HalvesAlone', [NextSparing(HalfThere)]_vars
    PROVE  TidyInv'
<1>1. CASE Process \/ UNCHANGED vars
  BY <1>1 DEF Process, VmmListen, VmmHang, ProcessExit, vars, disk, args, cmd, TidyInv,
     KnowsDirectory, Listing, Present
<1>2. ASSUME NEW c \in Cli, Command(c) \/ (pc[c] \notin HalfThere /\ CliCrash(c))
      PROVE  TidyInv'
  <2>1. /\ OthersStay(c) /\ NobodyElseHalf(c)
        /\ pc[c] \in HalfThere \/ pc'[c] \in HalfThere => OthersIdle(c)
    BY <1>2, CommandActsAlone, Halves
  <2>2. CASE Create(c)
    <3>1. pc[c] \in HalfThere \/ pc'[c] \in HalfThere
      BY <2>2 DEF Create, CreateMkdir, CreateMetadata, CreateState, CreateFail, Unlink,
         HalfThere, Goto, TypeOK
    <3> QED BY <2>1, <2>2, <3>1, TidyCreate
  <2>3. CASE Start(c) \/ Stop(c) \/ Snapshot(c)
    BY <2>1, <2>3, TidyStart, TidyStop, TidySnapshot DEF ExitInv
  <2>4. CASE Delete(c)
    <3>1. CASE DeleteUnmerge(c)
      <4>1. pc'[c] \in {"delete.remove", "idle"}
        BY <3>1 DEF DeleteUnmerge, Goto, Return, TypeOK
      <4> QED BY <2>1, <3>1, <4>1, TidyDelete, TidyDeleteBegins DEF HalfThere
    <3>2. CASE DeleteFile(c) \/ DeleteDir(c) \/ DeleteFail(c)
      <4>1. OthersIdle(c)
        BY <2>1, <3>2 DEF DeleteFile, DeleteDir, DeleteFail, Unlink, HalfThere
      <4> QED BY <2>1, <3>2, <4>1, TidyDelete
    <3> QED BY <2>1, <2>4, <3>1, <3>2, TidyDeleteBegins DEF Delete
  <2>5. CASE pc[c] \notin HalfThere /\ CliCrash(c)
    <3>1. UNCHANGED disk /\ pc'[c] = "idle"
      BY <2>5 DEF CliCrash, Return, Goto, TypeOK
    <3> QED BY <2>1, <2>5, <3>1, TidyWhole DEF disk, HalfThere
  <2> QED BY <1>2, <2>2, <2>3, <2>4, <2>5 DEF Command
<1> QED BY <1>1, <1>2 DEF NextSparing

\* However many commands are in flight: while a create that fills the VM
\* directory and a delete that empties it have it to themselves, and are not killed
\* there, no command leaves a directory without metadata.json or state.json but
\* one whose own removal fails halfway.  Starts, stops and snapshots may interleave,
\* fail and be killed anywhere.
THEOREM HalvesAloneWedgeNothing ==
    SpecSparing(HalfThere) /\ []HalvesAlone => []NoWedgedDirectory
<1>1. Init => TidyInv
  BY DEF Init, TidyInv, KnowsDirectory, Listing, Absent, Stopped
<1>2. /\ TypeOK /\ ExitInv /\ TidyInv /\ HalvesAlone /\ HalvesAlone'
      /\ [NextSparing(HalfThere)]_vars
      => TidyInv'
  BY TidyEachStep
<1>3. TidyInv => NoWedgedDirectory
  BY DEF TidyInv, Present, HalfThere, NoWedgedDirectory, Idle
<1>4. SpecSparing(HalfThere) => [](TypeOK /\ ExitInv)
  BY SparingTypes
<1> QED BY <1>1, <1>2, <1>3, <1>4, PTL DEF SpecSparing

-----------------------------------------------------------------------------
(* Several commands at once: the paused guests *)

\* No VMM to be is still to load its snapshot; no guest is or will be paused.
Loaded  == \A p \in Pid : LiveVMM(p) => proc[p] # "load"
Resumed == \A p \in Pid : ~Unresumed(p)

\* The commands that will see to a paused guest.
Sees(c) == pc[c] \in Pausing \/ (pc[c] \in {"start.record", "start.api"} /\ mode[c] = "restore")

AfterResume == Pausing \cup {"snap.unmount", "snap.pause", "start.ssh", "start.relays"}

KnowsGuest(c) ==
    /\ pc[c] \in AfterResume => Loaded
    /\ pc[c] \in {"start.record", "start.api"} => sock \in {NoPid, loc[c].pid}
    /\ pc[c] \in Launching => ~loc[c].execReady

GuestInv ==
    /\ \A p \in paused : LiveVMM(p) => sock = p
    /\ \A p \in Pid : Unresumed(p) => \E c \in Cli : Sees(c)
    /\ state.execReady /\ (\A c \in Cli : pc[c] # "start.record") => Loaded
    /\ \A c \in Cli : KnowsGuest(c)

ModesStay(c) == \A d \in Cli : d # c => mode'[d] = mode[d]

LEMMA CommandKeepsModes ==
    ASSUME TypeOK, NEW c \in Cli, Command(c) \/ CliCrash(c) PROVE ModesStay(c)
<1> USE DEF os, disk, args, cmd, Return, ModesStay, TypeOK
<1>1. CASE Create(c) \/ CliCrash(c)
  BY <1>1 DEF Create, CreateMkdir, CreateMetadata, CreateState, CreateFail, Unlink, CliCrash
<1>2. CASE Start(c)
  BY <1>2 DEF Start, StartBegin, StartNet, StartNetFail, StartShare, StartSpawn,
     StartSpawnFail, StartLogFail, StartRecord, StartRecordFail, StartApiUp,
     StartExecReady, StartAbort, StartAborted, StartRelay, StartRelaySkip, StartFinish
<1>3. CASE Stop(c)
  BY <1>3 DEF Stop, StopBegin, StopRead, StopStale, StopRelays, StopVm, StopVmm,
     StopExited, StopSignal, StopGiveUp, StopWrite
<1>4. CASE Delete(c)
  BY <1>4 DEF Delete, DeleteBegin, DeleteForce, DeleteStop, StopRead, DeleteUnmerge,
     DeleteFile, DeleteDir, DeleteFail, Unlink
<1>5. CASE Snapshot(c)
  BY <1>5 DEF Snapshot, SnapBegin, SnapUnmount, SnapPause, SnapPauseFail, SnapSave,
     SnapShutdown, SnapAbort, SnapExited, SnapWrite, SnapPublish
<1> QED BY <1>1, <1>2, <1>3, <1>4, <1>5 DEF Command

\* Steps that pause nobody who answers, and hand the paused guests on if they
\* leave any.
LEMMA GuestCalm ==
    ASSUME TypeOK, GuestInv, NEW c \in Cli, OthersStay(c), ModesStay(c),
           Fades, mute' = mute, paused' \subseteq paused \cup (mute \cap {sock}),
           sock' = sock \/ (sock' = NoPid /\ Quiet'),
           pc[c] \notin Waking \/ pc'[c] \in Pausing \/ Resumed',
           Loaded' \/ ~state'.execReady \/ (state' = state /\ pc[c] # "start.record"),
           KnowsGuest(c)'
    PROVE  GuestInv'
<1>1. \A p \in Pid : Unresumed(p)' => Unresumed(p)
  BY DEF Unresumed, Fades
<1>2. Loaded => Loaded'
  BY DEF Loaded, Fades
<1>3. \A p \in paused' : LiveVMM(p)' => sock' = p
  BY DEF GuestInv, Fades, Quiet, TypeOK
<1>4. ASSUME NEW p \in Pid, Unresumed(p)' PROVE \E d \in Cli : Sees(d)'
  <2>1. PICK d \in Cli : Sees(d)
    BY <1>1, <1>4 DEF GuestInv
  <2>2. CASE d # c
    BY <2>1, <2>2 DEF Sees, OthersStay, ModesStay
  <2>3. CASE d = c
    BY <1>4, <2>1, <2>3 DEF Sees, Waking, Resumed
  <2> QED BY <2>2, <2>3
<1>5. state'.execReady /\ (\A d \in Cli : pc'[d] # "start.record") => Loaded'
  BY <1>2 DEF GuestInv, OthersStay
<1>6. ASSUME NEW d \in Cli PROVE KnowsGuest(d)'
  BY <1>2 DEF GuestInv, KnowsGuest, OthersStay
<1> QED BY <1>3, <1>4, <1>5, <1>6 DEF GuestInv

LEMMA QuietGuests == Quiet => Loaded /\ Resumed
BY DEF Quiet, Loaded, Resumed, Unresumed

LEMMA GuestElsewhere ==
    ASSUME TypeOK, GuestInv, NEW c \in Cli, OthersStay(c), ModesStay(c),
           Create(c) \/ Stop(c) \/ Delete(c)
    PROVE  GuestInv'
<1> USE DEF os, disk, args, cmd, Goto, Keep, Return, WriteState, WriteFails
<1>0. ~Stopped.execReady /\ ~Absent.execReady
  BY DEF Stopped, Absent
<1>1. CASE Create(c)
  <2>1. Fades /\ paused' = paused /\ sock' = sock /\ mute' = mute
    BY <1>1, StillFades DEF Create, CreateMkdir, CreateMetadata, CreateState, CreateFail,
       Unlink
  <2>2. state' = state \/ ~state'.execReady
    BY <1>0, <1>1 DEF Create, CreateMkdir, CreateMetadata, CreateState, CreateFail, Unlink
  <2>3. pc[c] \notin Waking /\ pc'[c] \notin AfterResume \cup {"start.api"} \cup Launching
    BY <1>1 DEF Create, CreateMkdir, CreateMetadata, CreateState, CreateFail, Unlink,
       TypeOK, Waking, Pausing, AfterResume, Launching
  <2> QED BY <2>1, <2>2, <2>3, GuestCalm DEF KnowsGuest, Launching, Waking
<1>2. CASE Stop(c)
  <2>1. Fades /\ paused' = paused /\ sock' = sock /\ mute' = mute
    BY <1>2, StillFades, SignalsFade DEF Stop, StopBegin, StopStale, StopRelays, StopVm,
       StopVmm, StopExited, StopSignal, StopGiveUp, StopWrite
  <2>2. state' = state \/ ~state'.execReady
    BY <1>0, <1>2 DEF Stop, StopBegin, StopStale, StopRelays, StopVm, StopVmm, StopExited,
       StopSignal, StopGiveUp, StopWrite
  <2>3. pc[c] \notin Waking /\ pc'[c] \notin AfterResume \cup {"start.api"} \cup Launching
    BY <1>2 DEF Stop, StopBegin, StopRead, StopStale, StopRelays, StopVm, StopVmm,
       StopExited, StopSignal, StopGiveUp, StopWrite, TypeOK, Waking, Pausing,
       AfterResume, Launching
  <2> QED BY <2>1, <2>2, <2>3, GuestCalm DEF KnowsGuest, Launching, Waking
<1>3. CASE Delete(c)
  <2>1. Fades /\ paused' = paused /\ sock' = sock /\ mute' = mute
    BY <1>3, StillFades DEF Delete, DeleteBegin, DeleteForce, DeleteStop, DeleteUnmerge,
       DeleteFile, DeleteDir, DeleteFail, Unlink
  <2>2. state' = state \/ ~state'.execReady
    BY <1>0, <1>3 DEF Delete, DeleteBegin, DeleteForce, DeleteStop, DeleteUnmerge,
       DeleteFile, DeleteDir, DeleteFail, Unlink
  <2>3. pc[c] \notin Waking /\ pc'[c] \notin AfterResume \cup {"start.api"} \cup Launching
    BY <1>3 DEF Delete, DeleteBegin, DeleteForce, DeleteStop, StopRead, DeleteUnmerge,
       DeleteFile, DeleteDir, DeleteFail, Unlink, TypeOK, Waking, Pausing, AfterResume,
       Launching
  <2> QED BY <2>1, <2>2, <2>3, GuestCalm DEF KnowsGuest, Launching, Waking
<1> QED BY <1>1, <1>2, <1>3

LEMMA GuestStart ==
    ASSUME TypeOK, Answering, ApartInv, GuestInv, NEW c \in Cli, OthersStay(c), ModesStay(c),
           pc[c] \in Launching => OthersIdle(c), Start(c)
    PROVE  GuestInv'
<1> USE DEF os, disk, args, cmd, Goto, Keep, Return, WriteState, WriteFails
<1>0. ~Stopped.execReady
  BY DEF Stopped
<1>k. loc[c] \in StateRec
  BY DEF TypeOK
<1>q. pc[c] \in NoVMMSteps => Quiet
  BY DEF ApartInv, KnowsVMM
<1>o. pc[c] \in OwnVMMSteps \cup {"start.record"} => \A p \in Pid : LiveVMM(p) => p = loc[c].pid
  BY DEF ApartInv, KnowsVMM
<1>g. KnowsGuest(c)
  BY DEF GuestInv
<1>1. CASE StartBegin(c)
  <2>1. pc[c] = "idle" /\ pc'[c] = "start.net" /\ ~loc'[c].execReady
    BY <1>1, <1>0 DEF StartBegin, TypeOK, Stopped
  <2>2. Fades /\ paused' = paused /\ sock' = sock /\ mute' = mute /\ state' = state
    BY <1>1, StillFades DEF StartBegin
  <2> QED BY <2>1, <2>2, GuestCalm DEF KnowsGuest, Waking, Pausing, AfterResume
<1>2. CASE StartNet(c) \/ StartNetFail(c) \/ StartShare(c)
  <2>1. Fades
    BY <1>2, HelperKinds, HelpersFade, StillFades DEF StartNet, StartNetFail, StartShare
  <2>2. paused' = paused /\ sock' = sock /\ mute' = mute /\ state' = state
    BY <1>2 DEF StartNet, StartNetFail, StartShare
  <2>3. pc[c] \in Launching \ {"start.record"}
    BY <1>2 DEF StartNet, StartNetFail, StartShare, Launching
  <2>4. pc'[c] \in {"idle", "start.share", "start.spawn"}
    BY <1>2 DEF StartNet, StartNetFail, StartShare, AfterNet, TypeOK
  <2>5. loc'[c].execReady = loc[c].execReady \/ ~loc'[c].execReady
    BY <1>2, <1>0, <1>k DEF StartNet, StartNetFail, StartShare, KeepHelper, TypeOK, StateRec
  <2>6. KnowsGuest(c)'
    BY <1>g, <2>3, <2>4, <2>5 DEF KnowsGuest, AfterResume, Pausing, Launching
  <2> QED BY <2>1, <2>2, <2>3, <2>6, GuestCalm DEF Waking, Pausing, Launching
<1>3. CASE StartSpawn(c)
  <2>1. Quiet /\ OthersIdle(c)
    BY <1>3, <1>q DEF StartSpawn, NoVMMSteps, Launching
  <2>2. PICK q \in Fresh : /\ Spawn(q, IF mode[c] = "restore" THEN "load" ELSE "boot")
                           /\ loc' = [loc EXCEPT ![c].pid = q]
    BY <1>3 DEF StartSpawn
  <2>3. /\ pc'[c] = "start.record" /\ sock' = NoPid
        /\ paused' = paused /\ mode' = mode
    BY <1>3 DEF StartSpawn, TypeOK
  <2>4. \A p \in Pid : LiveVMM(p)' => p = q
    BY <1>3, <2>1, <2>2, LiveAfterSpawn DEF StartSpawn, Quiet
  <2>5. q \notin paused /\ (mode[c] # "restore" => proc'[q] = "boot")
    BY <2>2 DEF Fresh, Answering, Spawn, TypeOK
  <2>6. \A p \in Pid : Unresumed(p)' => Sees(c)'
    BY <2>3, <2>4, <2>5 DEF Unresumed, Sees
  <2>7. \A p \in paused' : LiveVMM(p)' => sock' = p
    BY <2>3, <2>4, <2>5 DEF TypeOK
  <2>8. KnowsGuest(c)'
    <3>1. ~loc[c].execReady
      BY <1>3, <1>g DEF StartSpawn, KnowsGuest, Launching
    <3>2. ~loc'[c].execReady
      BY <2>2, <3>1, <1>k DEF TypeOK, StateRec
    <3> QED BY <2>3, <3>2 DEF KnowsGuest, AfterResume, Pausing
  <2>9. ASSUME NEW d \in Cli PROVE KnowsGuest(d)'
    BY <2>1, <2>8 DEF OthersIdle, OthersStay, KnowsGuest, AfterResume, Pausing, Launching
  <2> QED BY <2>3, <2>6, <2>7, <2>9 DEF GuestInv
<1>4. CASE StartSpawnFail(c) \/ StartLogFail(c) \/ StartAborted(c)
  <2>1. Quiet
    BY <1>4, <1>q DEF StartSpawnFail, StartLogFail, StartAborted, NoVMMSteps
  <2>2. Fades
    BY <1>4, SignalsFade, StillFades DEF StartSpawnFail, StartLogFail, StartAborted
  <2>3. Quiet'
    BY <2>1, <2>2 DEF Quiet, Fades
  <2>4. pc'[c] = "idle" /\ paused' = paused /\ mute' = mute /\ sock' \in {sock, NoPid}
    BY <1>4 DEF StartSpawnFail, StartLogFail, StartAborted, TypeOK
  <2>5. Loaded' /\ Resumed'
    BY <2>3, QuietGuests DEF Quiet, Loaded, Resumed, Unresumed
  <2> QED
    BY <2>2, <2>3, <2>4, <2>5, GuestCalm DEF KnowsGuest, AfterResume, Pausing, Launching
<1>5. CASE StartRecord(c)
  <2>1. ~loc[c].execReady /\ pc[c] = "start.record"
    BY <1>5, <1>g DEF StartRecord, KnowsGuest, Launching
  <2>2. state' = loc[c] /\ pc'[c] = "start.api"
        /\ UNCHANGED <<proc, doomed, paused, mute, sock, loc, mode>>
    BY <1>5 DEF StartRecord, TypeOK
  <2>3. \A p \in Pid : Unresumed(p)' => Unresumed(p)
    BY <2>2 DEF Unresumed, LiveVMM, IsVMM
  <2>4. \A d \in Cli : Sees(d) => Sees(d)'
    BY <2>1, <2>2 DEF Sees, OthersStay, ModesStay, Pausing
  <2>5. Loaded => Loaded'
    BY <2>2 DEF Loaded, LiveVMM, IsVMM
  <2>6. ASSUME NEW d \in Cli PROVE KnowsGuest(d)'
    BY <2>1, <2>2, <2>5 DEF GuestInv, KnowsGuest, OthersStay, AfterResume, Pausing,
       Launching
  <2>7. \A p \in paused' : LiveVMM(p)' => sock' = p
    BY <2>2 DEF GuestInv, LiveVMM, IsVMM
  <2> QED BY <2>1, <2>2, <2>3, <2>4, <2>6, <2>7 DEF GuestInv
<1>6. CASE StartRecordFail(c) \/ StartAbort(c)
  <2>1. \A p \in Pid : LiveVMM(p) => p = loc[c].pid
    BY <1>6, <1>o DEF StartRecordFail, StartAbort, OwnVMMSteps
  <2>2. Quiet' /\ Fades
    BY <1>6, <2>1, LiveAfterTerminate, SignalsFade DEF StartRecordFail, StartAbort,
       GiveUpVMM, Quiet
  <2>3. /\ pc'[c] \in {"idle", "start.abort"}
        /\ paused' \subseteq paused /\ sock' = sock /\ mute' = mute
    BY <1>6 DEF Unanswered, StartRecordFail, StartAbort, TypeOK
  <2>4. Loaded' /\ Resumed'
    BY <2>2, QuietGuests DEF Quiet, Loaded, Resumed, Unresumed
  <2> QED BY <2>2, <2>3, <2>4, GuestCalm DEF KnowsGuest, AfterResume, Pausing, Launching
<1>7. CASE StartApiUp(c)
  <2>1. /\ pc[c] = "start.api" /\ sock # NoPid /\ pc'[c] = "start.ssh"
        /\ UNCHANGED <<proc, doomed, sock, mute, state>> /\ paused' \subseteq paused
    BY <1>7 DEF StartApiUp, TypeOK
  <2>2. sock = loc[c].pid /\ proc[sock] = "vmm"
    BY <1>g, <2>1 DEF KnowsGuest, Answering, TypeOK, MaybePid
  <2>3. \A p \in Pid : LiveVMM(p) => p = sock
    BY <1>o, <2>1, <2>2 DEF OwnVMMSteps
  <2>4. Loaded' /\ Fades
    BY <2>1, <2>2, <2>3, StillFades DEF Loaded, LiveVMM, IsVMM
  <2>5. CASE mode[c] = "restore"
    <3>1. paused' = paused \ {sock}
      BY <1>7, <2>5 DEF StartApiUp
    <3>2. Resumed'
      BY <2>1, <2>3, <2>4, <3>1 DEF Resumed, Unresumed, Loaded, LiveVMM, IsVMM
    <3> QED
      BY <2>1, <2>4, <3>2, GuestCalm DEF KnowsGuest, AfterResume, Launching
  <2>6. CASE mode[c] # "restore"
    <3>1. ~Sees(c)
      BY <2>1, <2>6 DEF Sees, Pausing
    <3>2. KnowsGuest(c)'
      BY <2>1, <2>4 DEF KnowsGuest, Launching
    <3>3. \A p \in Pid : Unresumed(p)' => Unresumed(p)
      BY <2>1 DEF Unresumed, LiveVMM, IsVMM
    <3>4. \A d \in Cli : Sees(d) => Sees(d)'
      BY <3>1 DEF Sees, OthersStay, ModesStay
    <3>5. ASSUME NEW d \in Cli PROVE KnowsGuest(d)'
      BY <2>1, <2>4, <3>2 DEF GuestInv, KnowsGuest, OthersStay
    <3>6. \A p \in paused' : LiveVMM(p)' => sock' = p
      BY <2>1 DEF GuestInv, LiveVMM, IsVMM
    <3> QED BY <2>4, <3>3, <3>4, <3>5, <3>6 DEF GuestInv
  <2> QED BY <2>5, <2>6
<1>8. CASE \/ StartExecReady(c) \/ StartFinish(c)
           \/ \E k \in Relays : StartRelay(c, k) \/ StartRelaySkip(c, k)
  <2>1. pc[c] \in {"start.ssh", "start.relays"} /\ pc'[c] \in {"start.relays", "idle"}
    BY <1>8 DEF StartExecReady, StartFinish, StartRelay, StartRelaySkip, TypeOK
  <2>2. Fades
    <3>1. \A k \in Relays : k \in Helpers
      BY DEF Helpers
    <3> QED
      BY <1>8, <3>1, HelpersFade, StillFades DEF StartExecReady, StartFinish, StartRelay,
         StartRelaySkip
  <2>3. paused' = paused /\ sock' = sock /\ mute' = mute
    BY <1>8 DEF StartExecReady, StartFinish, StartRelay, StartRelaySkip
  <2>4. Loaded'
    BY <1>g, <2>1, <2>2 DEF KnowsGuest, AfterResume, Loaded, Fades
  <2>5. pc[c] \notin Waking /\ KnowsGuest(c)'
    BY <2>1, <2>4 DEF KnowsGuest, Waking, Pausing, Launching
  <2> QED BY <2>2, <2>3, <2>4, <2>5, GuestCalm
<1> QED BY <1>1, <1>2, <1>3, <1>4, <1>5, <1>6, <1>7, <1>8 DEF Start

LEMMA GuestSnapshot ==
    ASSUME TypeOK, ApartInv, GuestInv, NEW c \in Cli, OthersStay(c), ModesStay(c),
           NobodyElseLaunches(c), Snapshot(c)
    PROVE  GuestInv'
<1> USE DEF os, disk, args, cmd, Goto, Keep, Return, WriteState, WriteFails
<1>0. ~Stopped.execReady
  BY DEF Stopped
<1>g. KnowsGuest(c)
  BY DEF GuestInv
<1>1. ASSUME NEW n \in SnapName, SnapBegin(c, n) PROVE GuestInv'
  <2>1. /\ pc[c] = "idle" /\ pc'[c] = "snap.unmount" /\ state.execReady
        /\ paused' = paused /\ sock' = sock /\ mute' = mute /\ state' = state
    BY <1>1 DEF SnapBegin, TypeOK
  <2>2. Loaded /\ Fades
    BY <1>1, <2>1, StillFades DEF SnapBegin, GuestInv, NobodyElseLaunches, Launching
  <2>3. Loaded'
    BY <2>2 DEF Loaded, Fades
  <2> QED BY <2>1, <2>2, <2>3, GuestCalm DEF KnowsGuest, Waking, Pausing, Launching
<1>2. CASE SnapPauseFail(c) \/ SnapWrite(c) \/ SnapPublish(c)
  <2>1. /\ Fades /\ sock' = sock /\ mute' = mute
        /\ paused' \subseteq paused \cup (mute \cap {sock})
    BY <1>2, StillFades DEF Unanswered, SnapPauseFail, SnapWrite, SnapPublish
  <2>2. state' = state \/ ~state'.execReady
    BY <1>2, <1>0 DEF SnapPauseFail, SnapWrite, SnapPublish
  <2>3. pc[c] \notin Waking /\ pc'[c] \in {"idle", "snap.publish"}
    BY <1>2 DEF SnapPauseFail, SnapWrite, SnapPublish, TypeOK, Waking, Pausing
  <2> QED
    BY <2>1, <2>2, <2>3, GuestCalm DEF KnowsGuest, Waking, Pausing, Launching, AfterResume
<1>3. CASE SnapPause(c)
  <2>1. /\ pc[c] = "snap.pause" /\ pc'[c] = "snap.save" /\ paused' = paused \cup {sock}
        /\ UNCHANGED <<proc, doomed, sock, mute, state>>
    BY <1>3 DEF SnapPause, TypeOK
  <2>2. Loaded'
    BY <1>g, <2>1 DEF KnowsGuest, AfterResume, Loaded, LiveVMM, IsVMM
  <2>3. Sees(c)' /\ KnowsGuest(c)'
    BY <2>1, <2>2 DEF Sees, KnowsGuest, Pausing, Launching
  <2>4. \A p \in paused' : LiveVMM(p)' => sock' = p
    BY <2>1 DEF GuestInv, LiveVMM, IsVMM
  <2>5. ASSUME NEW d \in Cli PROVE KnowsGuest(d)'
    BY <2>1, <2>2, <2>3 DEF GuestInv, KnowsGuest, OthersStay
  <2> QED BY <2>2, <2>3, <2>4, <2>5 DEF GuestInv
<1>4. CASE SnapSave(c) \/ SnapShutdown(c)
  <2>1. Fades /\ sock' = sock /\ paused' = paused /\ mute' = mute /\ state' = state
    BY <1>4, StillFades, SignalsFade DEF SnapSave, SnapShutdown
  <2>2. pc[c] \in Pausing /\ pc'[c] \in Pausing
    BY <1>4 DEF SnapSave, SnapShutdown, TypeOK, Pausing
  <2>3. Loaded'
    BY <1>g, <2>1, <2>2 DEF KnowsGuest, AfterResume, Loaded, Fades
  <2> QED BY <2>1, <2>2, <2>3, GuestCalm DEF KnowsGuest, Pausing, Launching
<1>5. CASE SnapAbort(c)
  <2>1. /\ pc[c] \in Pausing /\ pc'[c] = "idle"
        /\ paused' = paused \ {sock} \/ (sock \in mute /\ paused' = paused)
        /\ sock' = sock /\ mute' = mute /\ state' = state
    BY <1>5 DEF SnapAbort, Unanswered, TypeOK, Pausing
  <2>2. Fades
    BY <1>5, StillFades, SignalsFade DEF SnapAbort
  <2>3. Loaded'
    BY <1>g, <2>1, <2>2 DEF KnowsGuest, AfterResume, Loaded, Fades
  <2>4. Resumed'
    BY <2>1, <2>2, <2>3 DEF Resumed, Unresumed, Loaded, Fades, GuestInv
  <2> QED
    BY <2>1, <2>2, <2>3, <2>4, GuestCalm DEF KnowsGuest, AfterResume, Pausing, Launching
<1>6. CASE SnapExited(c)
  <2>1. \A p \in Pid : LiveVMM(p) => p = loc[c].pid
    BY <1>6 DEF SnapExited, ApartInv, KnowsVMM, OwnVMMSteps
  <2>2. Quiet
    BY <1>6, <2>1 DEF SnapExited, Quiet, LiveVMM, IsVMM, Alive
  <2>3. Fades
    BY <1>6, SignalsFade DEF SnapExited
  <2>4. Quiet'
    BY <2>2, <2>3 DEF Quiet, Fades
  <2>5. pc'[c] = "snap.write" /\ paused' = paused /\ sock' = sock /\ mute' = mute
    BY <1>6 DEF SnapExited, TypeOK
  <2>6. Loaded' /\ Resumed'
    BY <2>4 DEF Quiet, Loaded, Resumed, Unresumed
  <2> QED BY <2>3, <2>5, <2>6, GuestCalm DEF KnowsGuest, AfterResume, Pausing, Launching
<1>7. CASE SnapUnmount(c)
  <2>1. /\ pc[c] = "snap.unmount" /\ pc'[c] \in {"idle", "snap.pause"}
        /\ paused' = paused /\ sock' = sock /\ mute' = mute /\ state' = state /\ Fades
    BY <1>7, StillFades DEF SnapUnmount, TypeOK
  <2>2. Loaded'
    BY <1>g, <2>1 DEF KnowsGuest, AfterResume, Loaded, Fades
  <2> QED BY <2>1, <2>2, GuestCalm DEF KnowsGuest, Waking, Pausing, Launching
<1> QED BY <1>1, <1>2, <1>3, <1>4, <1>5, <1>6, <1>7 DEF Snapshot

LEMMA GuestProcess ==
    ASSUME TypeOK, ApartInv, GuestInv, Process \/ UNCHANGED vars PROVE GuestInv'
<1> USE LifecycleConstants DEF os, disk, args, cmd
<1>1. ASSUME UNCHANGED <<state, pc, loc, mode>>, Fades,
             \A p \in Pid : Unresumed(p)' => Unresumed(p),
             \A p \in paused' : LiveVMM(p)' => sock' = p,
             \A c \in Cli : pc[c] \in {"start.record", "start.api"} =>
                               sock' \in {sock, NoPid, loc[c].pid}
      PROVE  GuestInv'
  <2>1. Loaded => Loaded'
    BY <1>1 DEF Loaded, Fades
  <2>2. \A c \in Cli : Sees(c)' = Sees(c)
    BY <1>1 DEF Sees
  <2>3. ASSUME NEW c \in Cli PROVE KnowsGuest(c)'
    BY <1>1, <2>1 DEF GuestInv, KnowsGuest
  <2> QED BY <1>1, <2>1, <2>2, <2>3 DEF GuestInv
<1>2. ASSUME NEW q \in Pid, VmmListen(q) PROVE GuestInv'
  <2>1. LiveVMM(q) /\ sock = NoPid /\ sock' = q
    BY <1>2 DEF VmmListen, LiveVMM, IsVMM
  <2>2. ASSUME NEW p \in Pid, LiveVMM(p)' PROVE LiveVMM(p) /\ (p # q => proc'[p] = proc[p])
    BY <1>2, <2>2 DEF VmmListen, LiveVMM, IsVMM, TypeOK
  <2>3. proc'[q] = "vmm" /\ (q \in paused' => q \in paused \/ proc[q] = "load")
        /\ paused' \subseteq paused \cup {q}
    BY <1>2 DEF VmmListen, TypeOK
  <2>4. UNCHANGED <<state, pc, loc, mode, mute>>
    BY <1>2 DEF VmmListen
  <2>5. Fades /\ \A p \in Pid : Unresumed(p)' => Unresumed(p)
    BY <2>1, <2>2, <2>3, <2>4 DEF Fades, Unresumed
  <2>6. \A p \in paused' : LiveVMM(p)' => sock' = p
    BY <2>1, <2>2, <2>3 DEF GuestInv, TypeOK
  <2>7. \A c \in Cli : pc[c] \in {"start.record", "start.api"} => q = loc[c].pid
    BY <2>1 DEF ApartInv, KnowsVMM, OwnVMMSteps
  <2> QED BY <1>1, <2>1, <2>4, <2>5, <2>6, <2>7
<1>3. ASSUME NEW q \in Pid, ProcessExit(q) PROVE GuestInv'
  <2>1. Fades /\ ~LiveVMM(q)'
    BY <1>3 DEF ProcessExit, Fades, LiveVMM, IsVMM, TypeOK
  <2>2. UNCHANGED <<state, pc, loc, mode>> /\ paused' = paused \ {q}
        /\ mute' = mute \ {q} /\ sock' = IF sock = q THEN NoPid ELSE sock
    BY <1>3 DEF ProcessExit
  <2>3. \A p \in Pid : Unresumed(p)' => Unresumed(p)
    BY <2>1, <2>2 DEF Unresumed, Fades
  <2>4. \A p \in paused' : LiveVMM(p)' => sock' = p
    BY <2>1, <2>2 DEF GuestInv, Fades, TypeOK
  <2> QED BY <1>1, <2>1, <2>2, <2>3, <2>4
<1>4. CASE UNCHANGED vars
  <2>1. UNCHANGED <<state, pc, loc, mode, paused, mute, sock, proc, doomed>>
    BY <1>4 DEF vars
  <2>2. Fades
    BY <2>1, StillFades
  <2>3. \A p \in Pid : Unresumed(p)' => Unresumed(p)
    BY <2>1 DEF Unresumed, LiveVMM, IsVMM
  <2>4. \A p \in paused' : LiveVMM(p)' => sock' = p
    BY <2>1 DEF GuestInv, LiveVMM, IsVMM
  <2> QED BY <1>1, <2>1, <2>2, <2>3, <2>4
<1>5. ASSUME NEW q \in Pid, VmmHang(q) PROVE GuestInv'
  <2>1. UNCHANGED <<state, pc, loc, mode, paused, sock, proc, doomed>> /\ mute \subseteq mute'
    BY <1>5 DEF VmmHang
  <2>2. Fades
    BY <2>1, StillFades
  <2>3. \A p \in Pid : Unresumed(p)' => Unresumed(p)
    BY <2>1 DEF Unresumed, LiveVMM, IsVMM
  <2>4. \A p \in paused' : LiveVMM(p)' => sock' = p
    BY <2>1 DEF GuestInv, LiveVMM, IsVMM
  <2> QED BY <1>1, <2>1, <2>2, <2>3, <2>4
<1> QED BY <1>2, <1>3, <1>4, <1>5 DEF Process

LEMMA GuestEachStep ==
    ASSUME TypeOK, Answering, ApartInv, GuestInv, LaunchesAlone, LaunchesAlone',
           [NextSparing(Waking)]_vars
    PROVE  GuestInv'
<1>1. CASE Process \/ UNCHANGED vars
  BY <1>1, GuestProcess
<1>2. ASSUME NEW c \in Cli, Command(c) \/ (pc[c] \notin Waking /\ CliCrash(c))
      PROVE  GuestInv'
  <2>1. /\ OthersStay(c) /\ ModesStay(c) /\ NobodyElseLaunches(c)
        /\ pc[c] \in Launching => OthersIdle(c)
    BY <1>2, CommandActsAlone, CommandKeepsModes, Windows
  <2>2. CASE Command(c)
    BY <2>1, <2>2, GuestElsewhere, GuestStart, GuestSnapshot DEF Command
  <2>3. CASE pc[c] \notin Waking /\ CliCrash(c)
    <3>1. UNCHANGED <<proc, doomed, sock, paused, mute, state>> /\ pc'[c] = "idle"
      BY <2>3 DEF CliCrash, Return, Goto, TypeOK, disk, os
    <3> QED
      BY <2>1, <2>3, <3>1, StillFades, GuestCalm DEF KnowsGuest, AfterResume, Pausing,
         Launching, Waking
  <2> QED BY <1>2, <2>2, <2>3
<1> QED BY <1>1, <1>2 DEF NextSparing

\* However many commands are in flight: while every start launches its VMM alone
\* and no command is killed while it has a guest to resume, no guest that goes on
\* running, and whose VMM answers, is left paused, not by snapshots of one VM that
\* fail side by side and not by a stop that overtakes a snapshot or a restore.
THEOREM LaunchesAloneResumeTheGuest ==
    SpecSparing(Waking) /\ []LaunchesAlone => []GuestResumed
<1> DEFINE Socket == HelpersAreHelpers /\ Answering
           Inv == Socket /\ ApartInv /\ GuestInv
<1>1. TypeOK /\ Init => Inv
  <2> SUFFICES ASSUME TypeOK, Init PROVE Inv
    OBVIOUS
  <2>1. \A p : ~IsVMM(p) /\ ~LiveVMM(p)
    BY DEF Init, IsVMM, LiveVMM
  <2>2. Socket
    BY <2>1, LifecycleConstants DEF HelpersAreHelpers, Answering, Init
  <2>3. ApartInv
    BY <2>1 DEF Init, ApartInv, LiveVMMRecorded, KnowsVMM, Quiet, Absent, Stopped
  <2>4. GuestInv
    BY <2>1 DEF Init, GuestInv, KnowsGuest, Unresumed, Loaded, AfterResume, Pausing,
       Launching
  <2> QED BY <2>2, <2>3, <2>4
<1>2. /\ TypeOK /\ ExitInv /\ Inv /\ LaunchesAlone /\ LaunchesAlone'
      /\ [NextSparing(Waking)]_vars
      => Inv'
  <2> SUFFICES ASSUME TypeOK, ExitInv, Inv, LaunchesAlone, LaunchesAlone',
                      [NextSparing(Waking)]_vars
               PROVE  Inv'
    OBVIOUS
  <2>1. [Next]_vars /\ [NextSparing({"start.record"})]_vars
    BY SparingIsNext DEF NextSparing, Waking
  <2> QED BY <2>1, HelpersStayHelpers, AnsweringStep, KeptByEachStep, GuestEachStep
<1>3. TypeOK /\ Inv => GuestResumed
  BY DEF GuestInv, Sees, Pausing, Unresumed, TypeOK, GuestResumed, Idle
<1>4. SpecSparing(Waking) => [](TypeOK /\ ExitInv)
  BY SparingTypes
<1> QED BY <1>1, <1>2, <1>3, <1>4, PTL DEF SpecSparing

-----------------------------------------------------------------------------
(* One command at a time: both windows are the command's own *)

LEMMA OneCommandIsAlone ==
    ASSUME NEW c, Cli = {c}, "cli-crash" \notin Faults, NEW S
    PROVE  Spec => SpecSparing(S) /\ []LaunchesAlone /\ []HalvesAlone
<1>1. [Next]_vars => [NextSparing(S)]_vars
  BY DEF Next, NextSparing, CliCrash
<1>2. LaunchesAlone /\ HalvesAlone
  BY DEF LaunchesAlone, HalvesAlone
<1> QED BY <1>1, <1>2, PTL DEF Spec, SpecSparing

\* When commands run one after the other and none is killed, no VMM that is to
\* go on running is ever lost: it is the one state.json records, or the start
\* that spawned it is about to record it.  Hence never two on one disk.
THEOREM OneCommandLosesNoVMM ==
    ASSUME NEW c, Cli = {c}, "cli-crash" \notin Faults
    PROVE  Spec => []LiveVMMRecorded
<1>1. Spec => SpecSparing({"start.record"}) /\ []LaunchesAlone /\ []HalvesAlone
  BY OneCommandIsAlone
<1>2. SpecSparing({"start.record"}) /\ []LaunchesAlone => []LiveVMMRecorded
  BY LaunchesAloneLoseNoVMM
<1> QED BY <1>1, <1>2, PTL

\* When commands run one after the other and none is killed, no command leaves a
\* directory that lacks metadata.json or state.json, wherever it fails but in the
\* removal of a failed create or of a delete.
THEOREM OneCommandWedgesNothing ==
    ASSUME NEW c, Cli = {c}, "cli-crash" \notin Faults
    PROVE  Spec => []NoWedgedDirectory
<1>1. Spec => SpecSparing(HalfThere) /\ []LaunchesAlone /\ []HalvesAlone
  BY OneCommandIsAlone
<1>2. SpecSparing(HalfThere) /\ []HalvesAlone => []NoWedgedDirectory
  BY HalvesAloneWedgeNothing
<1> QED BY <1>1, <1>2, PTL

\* When commands run one after the other and none is killed, no guest that goes
\* on running, and whose VMM answers, stays paused: a failed snapshot has resumed
\* it, a restore has resumed it or given its VMM up.
THEOREM OneCommandResumesTheGuest ==
    ASSUME NEW c, Cli = {c}, "cli-crash" \notin Faults
    PROVE  Spec => []GuestResumed
<1>1. Spec => SpecSparing(Waking) /\ []LaunchesAlone /\ []HalvesAlone
  BY OneCommandIsAlone
<1>2. SpecSparing(Waking) /\ []LaunchesAlone => []GuestResumed
  BY LaunchesAloneResumeTheGuest
<1> QED BY <1>1, <1>2, PTL
=============================================================================
