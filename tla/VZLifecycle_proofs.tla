------------------------- MODULE VZLifecycle_proofs -------------------------
(***************************************************************************)
(* Theorems about VZLifecycle, for any number of commands, processes and   *)
(* temporary directories.                                                  *)
(***************************************************************************)
EXTENDS VZLifecycle, TLAPS

-----------------------------------------------------------------------------
(* Type correctness *)

LEMMA ExitTypes ==
    ASSUME RunnerTypeOK, NEW p \in Pid, Exit(p) PROVE RunnerTypeOK'
<1>1. ASSUME NEW d \in Dir
      PROVE  job'[d] \in [at : Working, run : Pid] \cup [at : Answered, run : Pid \cup {NoPid}]
  BY <1>1 DEF Exit, RunnerTypeOK, Answered
<1>2. job' = [d \in Dir |-> job'[d]]
  BY DEF Exit
<1> QED BY <1>1, <1>2 DEF Exit, RunnerTypeOK

LEMMA SigtermTypes ==
    ASSUME RunnerTypeOK, NEW p \in Pid \cup {NoPid}, Sigterm(p) PROVE RunnerTypeOK'
<1>1. CASE UNCHANGED runnerVars
  BY <1>1 DEF runnerVars, RunnerTypeOK
<1>2. CASE p # NoPid /\ Exit(p)
  BY <1>2, ExitTypes
<1>3. CASE p # NoPid /\ (\E t \in {"lost", "received", "asked"} : told' = [told EXCEPT ![p] = t])
           /\ UNCHANGED <<kind, stage, machine, events, socks, job, saved>>
  BY <1>3 DEF RunnerTypeOK
<1>4. CASE p # NoPid /\ told' = [told EXCEPT ![p] = IF @ = "asked" THEN @ ELSE "received"]
           /\ UNCHANGED <<kind, stage, machine, events, socks, job, saved>>
  BY <1>4 DEF RunnerTypeOK
<1> QED BY <1>1, <1>2, <1>3, <1>4 DEF Sigterm

LEMMA RiseTypes ==
    ASSUME RunnerTypeOK, NEW p \in Pid, Rise(p) PROVE RunnerTypeOK'
<1> USE DEF Serve, Reach, Becomes, Coming, Milestones
<1>1. CASE Listen(p)
  BY <1>1 DEF Listen, RunnerTypeOK
<1>2. CASE Arm(p)
  BY <1>2 DEF Arm, RunnerTypeOK
<1>3. CASE Started(p)
  BY <1>3 DEF Started, RunnerTypeOK
<1>4. CASE Restored(p)
  BY <1>4 DEF Restored, RunnerTypeOK
<1>5. CASE Resumed(p)
  BY <1>5 DEF Resumed, RunnerTypeOK
<1>6. CASE IgnoreTerm(p)
  BY <1>6 DEF IgnoreTerm, RunnerTypeOK
<1> QED BY <1>1, <1>2, <1>3, <1>4, <1>5, <1>6 DEF Rise

LEMMA SaveTypes ==
    ASSUME RunnerTypeOK, NEW d \in Dir, Save(d) PROVE RunnerTypeOK'
<1> USE DEF Becomes, Coming, Working, Answered
<1>1. ASSUME job[d].at \in Working PROVE job[d].run \in Pid
  BY <1>1 DEF RunnerTypeOK
<1>2. ASSUME NEW s \in Working, Advance(d, s), job[d].run \in Pid
      PROVE  job' \in [Dir -> [at : Working, run : Pid] \cup [at : Answered, run : Pid \cup {NoPid}]]
  BY <1>2 DEF Advance, RunnerTypeOK
<1>3. ASSUME NEW s \in Answered, Advance(d, s), job[d].run \in Pid
      PROVE  job' \in [Dir -> [at : Working, run : Pid] \cup [at : Answered, run : Pid \cup {NoPid}]]
  BY <1>3 DEF Advance, RunnerTypeOK
<1>4. ASSUME Answer(d, "failed")
      PROVE  job' \in [Dir -> [at : Working, run : Pid] \cup [at : Answered, run : Pid \cup {NoPid}]]
  BY <1>4 DEF Answer, RunnerTypeOK
<1>5. CASE SavePause(d)
  BY <1>1, <1>2, <1>4, <1>5 DEF SavePause, RunnerTypeOK
<1>6. CASE SavePaused(d)
  BY <1>1, <1>2, <1>6 DEF SavePaused, RunnerTypeOK
<1>7. CASE SavePauseFail(d)
  BY <1>1, <1>4, <1>7 DEF SavePauseFail, RunnerTypeOK
<1>8. CASE SaveWritten(d)
  BY <1>1, <1>2, <1>8 DEF SaveWritten, RunnerTypeOK
<1>9. CASE SaveFail(d)
  BY <1>1, <1>4, <1>9 DEF SaveFail, RunnerTypeOK
<1>10. CASE SaveReply(d)
  BY <1>1, <1>3, <1>10 DEF SaveReply, RunnerTypeOK
<1>11. CASE SaveExit(d)
  <2>1. job[d].run \in Pid
    BY <1>11 DEF SaveExit, RunnerTypeOK
  <2> QED BY <1>11, <2>1, ExitTypes DEF SaveExit
<1> QED BY <1>5, <1>6, <1>7, <1>8, <1>9, <1>10, <1>11 DEF Save

LEMMA RunnerTypes == ASSUME TypeOK, Runner PROVE TypeOK'
<1>1. CASE \E p \in Pid : Rise(p) /\ UNCHANGED goVars
  BY <1>1, RiseTypes DEF TypeOK, goVars
<1>2. CASE \E p \in Pid : Term(p) /\ UNCHANGED goVars
  <2>1. ASSUME NEW p \in Pid, Term(p) PROVE RunnerTypeOK'
    <3>1. CASE Exit(p)
      BY <3>1, ExitTypes DEF TypeOK
    <3>2. CASE ~Exit(p)
      BY <2>1, <3>2 DEF Term, TermHandled, TermExit, TypeOK, RunnerTypeOK
    <3> QED BY <3>1, <3>2
  <2> QED BY <1>2, <2>1 DEF TypeOK, goVars
<1>3. CASE \E p \in Pid : RunnerDies(p) /\ UNCHANGED goVars
  BY <1>3, ExitTypes DEF RunnerDies, TypeOK, goVars
<1>4. CASE \E p \in Pid : GuestOff(p) /\ UNCHANGED goVars
  BY <1>4 DEF GuestOff, Becomes, TypeOK, RunnerTypeOK, goVars
<1>5. CASE \E d \in Dir : Save(d) /\ UNCHANGED goVars
  BY <1>5, SaveTypes DEF TypeOK, goVars
<1> QED BY <1>1, <1>2, <1>3, <1>4, <1>5 DEF Runner

LEMMA StateTypes ==
    /\ Stopped \in StateRec
    /\ \A p \in Pid \cup {NoPid}, r \in BOOLEAN :
         [status |-> "running", pid |-> p, ready |-> r] \in StateRec
BY DEF Stopped, StateRec

LEMMA StartTypes == ASSUME TypeOK, NEW c \in Cli, Start(c) PROVE TypeOK'
<1> USE DEF TypeOK, Goto, Return, StartSteps
<1>1. CASE StartBegin(c) \/ RestoreBegin(c)
  BY <1>1 DEF StartBegin, RestoreBegin, Begin, RunnerTypeOK
<1>2. CASE StartSpawn(c)
  <2>1. PICK p \in Fresh : /\ stage' = [stage EXCEPT ![p] = "launched"]
                           /\ events' = [events EXCEPT ![p] = {}]
                           /\ me' = [me EXCEPT ![c] = p]
    BY <1>2 DEF StartSpawn
  <2> QED BY <1>2, <2>1 DEF StartSpawn, Fresh, RunnerTypeOK
<1>3. CASE StartRecord(c)
  BY <1>3, StateTypes DEF StartRecord, Record, runnerVars, RunnerTypeOK
<1>4. CASE RestoreRecord(c)
  BY <1>4, StateTypes DEF RestoreRecord, Record, runnerVars, RunnerTypeOK
<1>5. CASE StartRecordFail(c)
  BY <1>5, SigtermTypes DEF StartRecordFail
<1>6. CASE StartEvents(c) \/ StartRelay(c) \/ StartReady(c) \/ StartNotReady(c)
  BY <1>6 DEF StartEvents, StartRelay, StartReady, StartNotReady, runnerVars, RunnerTypeOK
<1>7. CASE StartFail(c)
  BY <1>7, SigtermTypes DEF StartFail
<1>8. CASE StartAbort(c)
  BY <1>8, StateTypes DEF StartAbort, WriteFails, runnerVars, RunnerTypeOK
<1>9. CASE StartWrite(c)
  <2>1. state' \in StateRec
    <3>1. CASE Record(me[c], TRUE)
      BY <3>1, StateTypes DEF Record
    <3> QED BY <1>9, <3>1 DEF StartWrite, WriteFails
  <2> QED BY <1>9, <2>1 DEF StartWrite, runnerVars, RunnerTypeOK
<1> QED BY <1>1, <1>2, <1>3, <1>4, <1>5, <1>6, <1>7, <1>8, <1>9 DEF Start

LEMMA StopTypes == ASSUME TypeOK, NEW c \in Cli, Stop(c) PROVE TypeOK'
<1> USE DEF TypeOK, Goto, Return, StopSteps
<1>1. CASE StopBegin(c)
  BY <1>1 DEF StopBegin, runnerVars, RunnerTypeOK, StateRec
<1>2. CASE StopSignal(c)
  BY <1>2, SigtermTypes DEF StopSignal
<1>3. CASE StopExited(c) \/ StopGiveUp(c)
  BY <1>3 DEF StopExited, StopGiveUp, runnerVars, RunnerTypeOK
<1>4. CASE StopWrite(c)
  BY <1>4, StateTypes DEF StopWrite, WriteFails, runnerVars, RunnerTypeOK
<1> QED BY <1>1, <1>2, <1>3, <1>4 DEF Stop

LEMMA SnapshotTypes == ASSUME TypeOK, NEW c \in Cli, Snapshot(c) PROVE TypeOK'
<1> USE DEF TypeOK, Goto, Return, SnapSteps
<1>1. CASE SnapBegin(c)
  <2>1. PICK d \in Dir : /\ dirOf' = [dirOf EXCEPT ![c] = d]
                         /\ job' = [job EXCEPT ![d] = NoJob]
                         /\ saved' = [saved EXCEPT ![d] = "empty"]
    BY <1>1 DEF SnapBegin
  <2>2. RunnerTypeOK'
    BY <1>1, <2>1 DEF SnapBegin, RunnerTypeOK, NoJob, Answered
  <2> QED BY <1>1, <2>1, <2>2 DEF SnapBegin, StateRec
<1>2. CASE SnapDial(c)
  <2>1. RunnerTypeOK'
    BY <1>2 DEF SnapDial, RunnerTypeOK, Working
  <2> QED BY <1>2, <2>1 DEF SnapDial
<1>3. CASE SnapReply(c) \/ SnapExited(c) \/ SnapCopy(c) \/ SnapFault(c) \/ SnapInterrupt(c)
  BY <1>3 DEF SnapReply, SnapExited, SnapCopy, SnapFault, SnapInterrupt, runnerVars, RunnerTypeOK
<1>4. CASE SnapWrite(c)
  BY <1>4, StateTypes DEF SnapWrite, runnerVars, RunnerTypeOK
<1>5. CASE SnapEnd(c)
  <2>1. RunnerTypeOK'
    BY <1>5 DEF SnapEnd, RunnerTypeOK, NoJob, Answered
  <2> QED BY <1>5, <2>1 DEF SnapEnd
<1> QED BY <1>1, <1>2, <1>3, <1>4, <1>5 DEF Snapshot

\* Every variable keeps its type; in particular a request in progress is always
\* with a process, because the exit of a runner ends the streams of its clients.
THEOREM RunnerCorrect == Spec => []TypeOK
<1>1. Init => TypeOK
  BY DEF Init, RunnerInit, TypeOK, RunnerTypeOK, Stopped, StateRec, NoJob, Answered, Coming
<1>2. TypeOK /\ [Next]_vars => TypeOK'
  <2>1. ASSUME TypeOK, UNCHANGED vars PROVE TypeOK'
    BY <2>1 DEF vars, runnerVars, goVars, TypeOK, RunnerTypeOK
  <2> QED BY <2>1, RunnerTypes, StartTypes, StopTypes, SnapshotTypes DEF Next
<1> QED BY <1>1, <1>2, PTL DEF Spec

-----------------------------------------------------------------------------
(* Who is alive, and what a step of a runner can change about it *)

\* A runner that has not been told to exit, and one whose save is over and that
\* is about to exit.
Untold(p) == stage[p] # "free" /\ told[p] = "no"
Leaving(p) == \E d \in Dir : job[d].run = p /\ job[d].at \in {"ok", "refused"}

\* No live runner appears, and none stops leaving but by exiting.
Fewer == \A p \in Pid : /\ Untold(p)' => Untold(p)
                        /\ Untold(p)' /\ Leaving(p) => Leaving(p)'
                        /\ stage[p] = "free" => stage'[p] = "free"

\* The save of a snapshot is over only with the whole file.
Saved(d) == job[d].at \in {"stopping", "ok"} => saved[d] = "whole"
SavesGoOn == \A d \in Dir :
    /\ saved[d] = "whole" => saved'[d] = "whole"
    /\ Saved(d) => Saved(d)'
    /\ job[d] = NoJob => job'[d] = NoJob

LEMMA FrozenRunners == UNCHANGED runnerVars => Fewer /\ SavesGoOn
BY DEF runnerVars, Fewer, SavesGoOn, Untold, Leaving, Saved

LEMMA ExitMoves ==
    ASSUME RunnerTypeOK, NEW p \in Pid, Exit(p)
    PROVE  Fewer /\ SavesGoOn /\ ~Untold(p)' /\ stage'[p] = "free"
<1>1. ~Untold(p)' /\ stage'[p] = "free"
  BY DEF Exit, RunnerTypeOK, Untold
<1>2. ASSUME NEW q \in Pid, Untold(q)', Leaving(q) PROVE Leaving(q)'
  <2>1. q # p
    BY <1>1, <1>2
  <2> QED BY <1>2, <2>1 DEF Exit, Leaving
<1>3. Fewer
  BY <1>1, <1>2 DEF Exit, RunnerTypeOK, Fewer, Untold
<1>4. SavesGoOn
  BY RunnerConstants DEF Exit, RunnerTypeOK, SavesGoOn, Saved, Working, NoJob
<1> QED BY <1>1, <1>3, <1>4

LEMMA SigtermMoves ==
    ASSUME RunnerTypeOK, NEW p \in Pid, Sigterm(p)
    PROVE  Fewer /\ SavesGoOn /\ ~Untold(p)'
<1>1. CASE UNCHANGED runnerVars /\ stage[p] = "free"
  BY <1>1, FrozenRunners DEF runnerVars, Untold
<1>2. CASE Exit(p)
  BY <1>2, ExitMoves
<1>3. CASE (\E t \in {"lost", "received", "asked"} : told' = [told EXCEPT ![p] = t])
           /\ UNCHANGED <<kind, stage, machine, events, socks, job, saved>>
  BY <1>3 DEF RunnerTypeOK, Fewer, SavesGoOn, Untold, Leaving, Saved
<1> QED BY <1>1, <1>2, <1>3, RunnerConstants DEF Sigterm

LEMMA RunnerMoves == ASSUME TypeOK, Runner PROVE Fewer /\ SavesGoOn
<1> USE DEF TypeOK
<1>1. ASSUME NEW p \in Pid, Rise(p) PROVE Fewer /\ SavesGoOn
  <2>1. Fewer
    BY <1>1 DEF Rise, Listen, IgnoreTerm, Arm, Started, Restored, Resumed, Becomes, RunnerTypeOK,
       Fewer, Untold, Leaving
  <2>2. UNCHANGED <<job, saved>>
    BY <1>1 DEF Rise, Listen, IgnoreTerm, Arm, Started, Restored, Resumed
  <2> QED BY <2>1, <2>2 DEF SavesGoOn, Saved
<1>2. ASSUME NEW p \in Pid, Term(p) PROVE Fewer /\ SavesGoOn
  <2>1. CASE Exit(p)
    BY <2>1, ExitMoves
  <2>2. CASE ~Exit(p)
    BY <1>2, <2>2 DEF Term, TermHandled, TermExit, RunnerTypeOK, Fewer, SavesGoOn,
       Untold, Leaving, Saved
  <2> QED BY <2>1, <2>2
<1>3. ASSUME NEW p \in Pid, RunnerDies(p) PROVE Fewer /\ SavesGoOn
  BY <1>3, ExitMoves DEF RunnerDies
<1>4. ASSUME NEW p \in Pid, GuestOff(p) PROVE Fewer /\ SavesGoOn
  BY <1>4 DEF GuestOff, Becomes, Fewer, SavesGoOn, Untold, Leaving, Saved
<1>5. ASSUME NEW d \in Dir, Save(d) PROVE Fewer /\ SavesGoOn
  <2>1. CASE SaveExit(d)
    <3>1. job[d].run \in Pid
      BY <2>1 DEF SaveExit, RunnerTypeOK
    <3> QED BY <2>1, <3>1, ExitMoves DEF SaveExit
  <2>2. CASE ~SaveExit(d)
    <3>1. /\ UNCHANGED <<stage, told>>
          /\ \A b \in Dir \ {d} : job'[b] = job[b] /\ saved'[b] = saved[b]
          /\ job[d].at \in Working
          /\ saved[d] = "whole" => saved'[d] = "whole"
      BY <1>5, <2>2 DEF Save, SavePause, SavePaused, SavePauseFail, SaveWritten, SaveFail,
         SaveReply, Becomes, Answer, Advance, RunnerTypeOK, Working
    <3>2. Saved(d) => Saved(d)'
      BY <1>5, <2>2 DEF Save, SavePause, SavePaused, SavePauseFail, SaveWritten, SaveFail,
         SaveReply, Answer, Advance, RunnerTypeOK, Saved
    <3>3. Fewer
      BY <3>1 DEF Fewer, Untold, Leaving, Working
    <3>4. SavesGoOn
      BY <3>1, <3>2 DEF SavesGoOn, Saved, NoJob, Working
    <3> QED BY <3>3, <3>4
  <2> QED BY <2>1, <2>2
<1> QED BY <1>1, <1>2, <1>3, <1>4, <1>5 DEF Runner

-----------------------------------------------------------------------------
(* What a command knows *)

NamesPid == StartSteps \cup {"stop.signal", "stop.wait"} \cup SnapSteps

Named ==
    /\ state.status = "running" => state.pid \in Pid
    /\ \A c \in Cli : /\ pc[c] \in NamesPid \ {"start.spawn"} => me[c] \in Pid
                      /\ pc[c] \in {"idle", "start.spawn"} => me[c] = NoPid

\* Each snapshot command has a directory of its own, and no request until it
\* has sent one.
Private ==
    /\ \A c \in Cli : /\ pc[c] \in SnapSteps => dirOf[c] \in Dir
                      /\ dirOf[c] \in Dir => pc[c] \in SnapSteps
                      /\ pc[c] = "snap.dial" => job[dirOf[c]] = NoJob
    /\ \A b, c \in Cli : dirOf[b] = dirOf[c] /\ dirOf[b] \in Dir => b = c

\* Before a start has recorded its runner it is the only command, and the
\* process that state.json names is dead.
Early ==
    \A c \in Cli : pc[c] \in {"start.spawn", "start.record"} =>
        /\ \A b \in Cli : b # c => pc[b] = "idle"
        /\ state.status = "running" => stage[state.pid] = "free" /\ me[c] # state.pid
        /\ pc[c] = "start.record" => me[c] # state.pid

\* A command that is not idle knows every live runner: there is at most the one
\* it names, and none once it has signalled that one.
Spent == {"start.spawn", "start.abort", "stop.wait", "stop.write"}
Sole ==
    \A c \in Cli, p \in Pid : pc[c] # "idle" /\ Untold(p) /\ ~Leaving(p) =>
        me[c] = p /\ pc[c] \notin Spent

Wholes == \A c \in Cli : pc[c] \in SnapSteps => Saved(dirOf[c])

IInv == Named /\ Private /\ Early /\ Sole /\ NoStrayRunner /\ Wholes /\ SavedWhole

-----------------------------------------------------------------------------
(* Steps of a runner *)

LEMMA RunnerKeeps ==
    ASSUME TypeOK, IInv, Fewer, SavesGoOn, UNCHANGED goVars PROVE IInv'
<1> USE DEF IInv, goVars
<1>1. Named'
  BY DEF Named
<1>2. Private'
  BY DEF Private, SavesGoOn, SnapSteps
<1>3. Early'
  BY DEF Early, Named, Fewer
<1>4. Sole'
  BY DEF Sole, Fewer
<1>5. NoStrayRunner'
  BY DEF NoStrayRunner, Fewer, Untold, Leaving
<1>6. Wholes'
  BY DEF Wholes, Private, SavesGoOn
<1>7. SavedWhole'
  <2> SUFFICES ASSUME NEW c \in Cli,
                      pc[c] \in {"snap.wait", "snap.copy", "snap.write", "snap.publish"}
               PROVE  /\ saved'[dirOf[c]] = "whole"
                      /\ pc[c] # "snap.wait" => ~Alive(me[c])'
    BY DEF SavedWhole
  <2>1. dirOf[c] \in Dir /\ me[c] \in Pid
    BY DEF Private, Named, SnapSteps, NamesPid
  <2> QED BY <2>1 DEF SavedWhole, SavesGoOn, Alive, Fewer
<1> QED BY <1>1, <1>2, <1>3, <1>4, <1>5, <1>6, <1>7

-----------------------------------------------------------------------------
(* Steps of a command.  Other commands stay where they are. *)

Others(c) == \A b \in Cli : b # c => pc'[b] = pc[b] /\ me'[b] = me[b] /\ dirOf'[b] = dirOf[b]

LEMMA GotoMoves ==
    ASSUME TypeOK, NEW c \in Cli, NEW s, Goto(c, s)
    PROVE  Others(c) /\ pc'[c] = s /\ me'[c] = me[c] /\ dirOf'[c] = dirOf[c]
BY DEF Goto, Others, TypeOK

LEMMA ReturnMoves ==
    ASSUME TypeOK, NEW c \in Cli, Return(c)
    PROVE  Others(c) /\ pc'[c] = "idle" /\ me'[c] = NoPid /\ dirOf'[c] = NoDir
BY DEF Return, Others, TypeOK

\* A step that begins no start and no snapshot command.
Ordinary(c) ==
    /\ Others(c) /\ Fewer /\ SavesGoOn
    /\ pc[c] # "idle"
    /\ pc'[c] \notin {"start.spawn", "start.record", "snap.dial"}
    /\ \/ pc'[c] = "idle" /\ me'[c] = NoPid /\ dirOf'[c] = NoDir
       \/ /\ pc'[c] # "idle" /\ me'[c] = me[c] /\ dirOf'[c] = dirOf[c]
          /\ pc'[c] \in StartSteps => pc[c] \in StartSteps \ {"start.spawn"}
          /\ pc'[c] \in SnapSteps <=> pc[c] \in SnapSteps
          /\ pc'[c] \in NamesPid => pc[c] \in NamesPid \ {"start.spawn"}

LEMMA OrdinaryNamed ==
    ASSUME TypeOK, IInv, NEW c \in Cli, Ordinary(c),
           state'.status = "running" => state'.pid \in Pid
    PROVE  Named' /\ Private'
<1> USE DEF IInv, Ordinary, Others
<1>1. Named'
  BY DEF Named, NamesPid, StartSteps, SnapSteps
<1>2. Private'
  BY LifecycleConstants DEF Private, SavesGoOn, SnapSteps
<1> QED BY <1>1, <1>2

LEMMA OrdinaryEarly ==
    ASSUME TypeOK, IInv, NEW c \in Cli, Ordinary(c) PROVE Early'
BY DEF IInv, Ordinary, Others, Early

\* The saves of the snapshots go on, and a runner that has exited stays dead.
LEMMA OrdinarySaves ==
    ASSUME TypeOK, IInv, NEW c \in Cli, Ordinary(c),
           pc'[c] = "snap.wait" /\ pc[c] # "snap.wait" => saved[dirOf[c]] = "whole",
           pc'[c] \in {"snap.copy", "snap.write", "snap.publish"} =>
               saved[dirOf[c]] = "whole" /\ ~Alive(me[c])
    PROVE  Wholes' /\ SavedWhole'
<1> USE DEF IInv
<1>1. Wholes'
  BY LifecycleConstants DEF Wholes, Ordinary, Others, Private, SavesGoOn, Saved, SnapSteps
<1>2. SavedWhole'
  <2> SUFFICES ASSUME NEW b \in Cli,
                      pc'[b] \in {"snap.wait", "snap.copy", "snap.write", "snap.publish"}
               PROVE  /\ saved'[dirOf'[b]] = "whole"
                      /\ pc'[b] # "snap.wait" => ~Alive(me[b])'
    BY DEF SavedWhole
  <2>1. me'[b] = me[b] /\ dirOf'[b] = dirOf[b] /\ pc[b] \in SnapSteps
    BY DEF Ordinary, Others, SnapSteps
  <2>2. dirOf[b] \in Dir /\ me[b] \in Pid
    BY <2>1 DEF Private, Named, NamesPid, SnapSteps
  <2>3. saved[dirOf[b]] = "whole"
    BY DEF Ordinary, Others, SavedWhole
  <2>4. pc'[b] # "snap.wait" => ~Alive(me[b])
    BY DEF Ordinary, Others, SavedWhole
  <2>5. ASSUME ~Alive(me[b]) PROVE ~Alive(me[b])'
    <3>1. stage'[me[b]] = "free"
      BY <2>2, <2>5 DEF Alive, Ordinary, Fewer
    <3>2. \A x \in Cli : pc'[x] \in StartSteps => me'[x] # me[b]
      BY <2>2, <2>5, RunnerConstants DEF Alive, Ordinary, Others, StartSteps
    <3> QED BY <2>1, <3>1, <3>2 DEF Alive
  <2> QED BY <2>1, <2>2, <2>3, <2>4, <2>5 DEF Ordinary, SavesGoOn
<1> QED BY <1>1, <1>2

LEMMA OrdinarySole ==
    ASSUME TypeOK, IInv, NEW c \in Cli, Ordinary(c),
           pc'[c] \in Spent => \A p \in Pid : Untold(p)' => Leaving(p)'
    PROVE  Sole'
BY DEF IInv, Ordinary, Others, Fewer, Sole

\* The record stays true of the runners when it is left alone and when it is
\* written.
LEMMA OrdinaryRecorded ==
    ASSUME TypeOK, IInv, NEW c \in Cli, Ordinary(c), state' = state,
           pc[c] = "start.record" => \A p \in Pid : p = me[c] => ~Untold(p)'
    PROVE  NoStrayRunner'
BY DEF IInv, Ordinary, Others, Fewer, NoStrayRunner, Untold, Leaving

LEMMA OrdinaryWritten ==
    ASSUME TypeOK, IInv, NEW c \in Cli, Ordinary(c),
           \/ /\ \A p \in Pid : Untold(p) => Leaving(p)
           \/ state'.status = "running" /\ state'.pid = me[c]
    PROVE  NoStrayRunner'
<1> SUFFICES ASSUME NEW p \in Pid, Untold(p)'
             PROVE  (state'.status = "running" /\ state'.pid = p) \/ Leaving(p)'
  BY DEF NoStrayRunner, Untold, Leaving
<1>1. Untold(p) /\ (Leaving(p) => Leaving(p)')
  BY DEF Ordinary, Fewer
<1>2. ~Leaving(p) => me[c] = p
  BY <1>1 DEF IInv, Sole, Ordinary
<1> QED BY <1>1, <1>2

LEMMA OrdinaryKeeps ==
    ASSUME TypeOK, IInv, NEW c \in Cli, Ordinary(c),
           state'.status = "running" => state'.pid \in Pid,
           pc'[c] = "snap.wait" /\ pc[c] # "snap.wait" => saved[dirOf[c]] = "whole",
           pc'[c] \in {"snap.copy", "snap.write", "snap.publish"} =>
               saved[dirOf[c]] = "whole" /\ ~Alive(me[c]),
           pc'[c] \in Spent => \A p \in Pid : Untold(p)' => Leaving(p)',
           \/ /\ state' = state
              /\ pc[c] = "start.record" => \A p \in Pid : p = me[c] => ~Untold(p)'
           \/ \A p \in Pid : Untold(p) => Leaving(p)
           \/ state'.status = "running" /\ state'.pid = me[c]
    PROVE  IInv'
<1>1. NoStrayRunner'
  BY OrdinaryRecorded, OrdinaryWritten
<1> QED BY <1>1, OrdinaryNamed, OrdinaryEarly, OrdinarySaves, OrdinarySole DEF IInv

\* A command that has signalled the runner it names, or has seen it dead, knows
\* of no other that is not leaving.
LEMMA NoneLeft ==
    ASSUME TypeOK, IInv, NEW c \in Cli, pc[c] # "idle",
           pc[c] \in Spent \/ ~Alive(me[c])
    PROVE  \A p \in Pid : Untold(p) => Leaving(p)
BY DEF IInv, Sole, Alive, Untold

LEMMA NobodyIsLost ==
    ASSUME TypeOK, IInv, NEW c \in Cli, pc[c] # "idle", NEW p \in Pid, p = me[c], Sigterm(p)
    PROVE  \A q \in Pid : Untold(q)' => Leaving(q)'
BY SigtermMoves DEF TypeOK, IInv, Sole, Fewer

-----------------------------------------------------------------------------
(* Each step of a start keeps the invariant *)

\* Nobody else is in flight when a start begins.
LEMMA BeginsAlone ==
    ASSUME TypeOK, IInv, StartsAlone', NEW c \in Cli, Begin(c)
    PROVE  /\ Others(c) /\ pc'[c] = "start.spawn" /\ me' = me /\ dirOf' = dirOf
           /\ \A b \in Cli : pc[b] = "idle"
<1>1. Others(c) /\ pc[c] = "idle" /\ pc'[c] = "start.spawn" /\ me' = me /\ dirOf' = dirOf
  BY GotoMoves DEF Begin, Goto
<1>2. me'[c] \notin Pid
  BY <1>1, RunnerConstants DEF IInv, Named
<1>3. ASSUME NEW b \in Cli, b # c PROVE pc[b] = "idle"
  BY <1>1, <1>2, <1>3 DEF StartsAlone, StartSteps, Others
<1> QED BY <1>1, <1>3

LEMMA BeginKeeps ==
    ASSUME TypeOK, IInv, StartsAlone', NEW c \in Cli, Begin(c) PROVE IInv'
<1> USE DEF IInv, Begin
<1>1. /\ Others(c) /\ pc'[c] = "start.spawn" /\ me' = me /\ dirOf' = dirOf
      /\ \A b \in Cli : pc[b] = "idle"
  BY BeginsAlone
<1>2. state.status = "running" => state.pid \in Pid /\ stage[state.pid] = "free"
  BY DEF Named, Alive
<1>3. Named' /\ Private'
  BY <1>1, LifecycleConstants DEF Others, Named, Private, NamesPid, StartSteps, SnapSteps
<1>4. Early'
  BY <1>1, <1>2, RunnerConstants DEF Others, Named, Early
<1>5. Sole' /\ NoStrayRunner'
  <2>1. \A p \in Pid : Untold(p) => Leaving(p)
    BY <1>1, <1>2 DEF NoStrayRunner, Untold, Leaving
  <2> QED BY <2>1 DEF Sole, NoStrayRunner, Untold, Leaving
<1>6. Wholes' /\ SavedWhole'
  BY <1>1 DEF Others, Wholes, SavedWhole, SnapSteps
<1> QED BY <1>3, <1>4, <1>5, <1>6

LEMMA SpawnKeeps == ASSUME TypeOK, IInv, NEW c \in Cli, StartSpawn(c) PROVE IInv'
<1> USE DEF IInv
<1>1. PICK p \in Fresh : /\ stage' = [stage EXCEPT ![p] = "launched"]
                         /\ me' = [me EXCEPT ![c] = p]
  BY DEF StartSpawn
<1>2. /\ pc[c] = "start.spawn" /\ pc'[c] = "start.record" /\ me'[c] = p
      /\ p \in Pid /\ p # state.pid /\ stage[p] = "free"
      /\ \A q \in Pid \ {p} : stage'[q] = stage[q]
      /\ \A b \in Cli \ {c} : pc[b] = "idle" /\ pc'[b] = "idle" /\ me'[b] = me[b]
      /\ UNCHANGED <<told, job, saved, state, dirOf>>
  BY <1>1 DEF StartSpawn, Fresh, TypeOK, RunnerTypeOK, Early
<1>3. \A q \in Pid : Untold(q) => Leaving(q)
  BY <1>2, NoneLeft DEF Spent
<1>4. Named'
  BY <1>2 DEF Named, NamesPid, StartSteps, SnapSteps
<1>5. Private'
  BY <1>2, LifecycleConstants DEF Private, SnapSteps
<1>6. Early'
  BY <1>2 DEF Early, Named
<1>7. Sole' /\ NoStrayRunner'
  BY <1>2, <1>3 DEF Sole, NoStrayRunner, Untold, Leaving, Spent
<1>8. Wholes' /\ SavedWhole'
  BY <1>2 DEF Wholes, SavedWhole, SnapSteps
<1> QED BY <1>4, <1>5, <1>6, <1>7, <1>8

\* The steps of a start that change neither the runners nor state.json.
LEMMA StartMovesOn ==
    ASSUME TypeOK, IInv, NEW c \in Cli,
           StartEvents(c) \/ StartRelay(c) \/ StartReady(c) \/ StartNotReady(c)
    PROVE  IInv'
<1>1. /\ pc[c] \in {"start.events", "start.relay", "start.ssh"}
      /\ UNCHANGED <<runnerVars, state>>
      /\ Return(c) \/ \E s \in {"start.relay", "start.ssh", "start.write"} : Goto(c, s)
  BY DEF StartEvents, StartRelay, StartReady, StartNotReady
<1>2. Ordinary(c) /\ pc'[c] \notin Spent \cup SnapSteps
  BY <1>1, GotoMoves, ReturnMoves, FrozenRunners
     DEF Ordinary, StartSteps, SnapSteps, NamesPid, Spent
<1> QED BY <1>1, <1>2, OrdinaryKeeps DEF IInv, Named, SnapSteps

LEMMA RecordKeeps ==
    ASSUME TypeOK, IInv, NEW c \in Cli, StartRecord(c) \/ RestoreRecord(c) \/ StartWrite(c)
    PROVE  IInv'
<1>1. /\ pc[c] \in {"start.record", "start.write"}
      /\ UNCHANGED runnerVars
      /\ Return(c) \/ \E s \in {"start.relay", "start.events"} : Goto(c, s)
      /\ \/ state'.status = "running" /\ state'.pid = me[c]
         \/ pc[c] = "start.write" /\ state' = state
  BY DEF StartRecord, RestoreRecord, StartWrite, Record, WriteFails
<1>2. Ordinary(c) /\ pc'[c] \notin Spent \cup SnapSteps
  BY <1>1, GotoMoves, ReturnMoves, FrozenRunners
     DEF Ordinary, StartSteps, SnapSteps, NamesPid, Spent
<1>3. me[c] \in Pid
  BY <1>1 DEF IInv, Named, NamesPid, StartSteps
<1> QED BY <1>1, <1>2, <1>3, OrdinaryKeeps DEF SnapSteps, IInv, Named

LEMMA GivingUpKeeps ==
    ASSUME TypeOK, IInv, NEW c \in Cli, StartRecordFail(c) \/ StartFail(c) PROVE IInv'
<1>1. /\ pc[c] \in {"start.record", "start.events", "start.relay"}
      /\ Sigterm(me[c])
      /\ Return(c) \/ Goto(c, "start.abort")
      /\ state' = state
  BY DEF StartRecordFail, StartFail
<1>2. PICK p \in Pid : p = me[c]
  BY <1>1 DEF IInv, Named, NamesPid, StartSteps
<1>3. Fewer /\ SavesGoOn /\ ~Untold(p)'
  BY <1>1, <1>2, SigtermMoves DEF TypeOK
<1>4. Ordinary(c) /\ pc'[c] \notin SnapSteps
  BY <1>1, <1>3, GotoMoves, ReturnMoves DEF Ordinary, StartSteps, SnapSteps, NamesPid
<1>5. \A q \in Pid : Untold(q)' => Leaving(q)'
  BY <1>1, <1>2, NobodyIsLost
<1> QED BY <1>1, <1>2, <1>3, <1>4, <1>5, OrdinaryKeeps DEF IInv, Named, SnapSteps

\* An abort, or a stop, that has signalled every runner it could know of records
\* the VM as stopped, if it can.
LEMMA StoppedKeeps ==
    ASSUME TypeOK, IInv, NEW c \in Cli, StartAbort(c) \/ StopWrite(c) PROVE IInv'
<1>1. /\ pc[c] \in {"start.abort", "stop.write"}
      /\ UNCHANGED runnerVars
      /\ Return(c)
      /\ state' = Stopped \/ state' = state
  BY DEF StartAbort, StopWrite, WriteFails
<1>2. Ordinary(c) /\ pc'[c] = "idle"
  BY <1>1, ReturnMoves, FrozenRunners DEF Ordinary
<1>3. \A q \in Pid : Untold(q) => Leaving(q)
  BY <1>1, NoneLeft DEF Spent
<1> QED BY <1>1, <1>2, <1>3, OrdinaryKeeps DEF Stopped, Spent, IInv, Named

-----------------------------------------------------------------------------
(* Each step of a stop, and of a snapshot *)

LEMMA StopBeginKeeps ==
    ASSUME TypeOK, IInv, StartsAlone', NEW c \in Cli, StopBegin(c) PROVE IInv'
<1> USE DEF IInv
<1>1. /\ pc[c] = "idle"
      /\ \A b \in Cli \ {c} : pc'[b] = pc[b] /\ me'[b] = me[b]
      /\ UNCHANGED <<runnerVars, state, dirOf>>
      /\ me'[c] = state.pid
      /\ pc'[c] = IF state.status = "running" /\ Alive(state.pid) THEN "stop.signal"
                                                                ELSE "stop.write"
  BY DEF StopBegin, TypeOK
<1>2. \A b \in Cli : pc[b] \notin {"start.spawn", "start.record"}
  <2> SUFFICES ASSUME NEW b \in Cli, pc[b] \in {"start.spawn", "start.record"} PROVE FALSE
    OBVIOUS
  <2>1. b # c /\ pc'[b] = pc[b] /\ me'[b] = me[b]
    BY <1>1
  <2>2. pc'[c] # "idle" /\ me'[b] = me'[c] /\ me'[c] \in Pid
    BY <1>1, <2>1 DEF StartsAlone, StartSteps
  <2> QED BY <1>1, <2>1, <2>2, RunnerConstants DEF Early, Named
<1>3. \A p \in Pid : Untold(p) /\ ~Leaving(p) => pc'[c] = "stop.signal" /\ me'[c] = p
  BY <1>1, <1>2 DEF NoStrayRunner, Untold, Leaving, Alive
<1>4. Named'
  BY <1>1 DEF Named, NamesPid, StartSteps, SnapSteps, Alive
<1>5. Private'
  BY <1>1, LifecycleConstants DEF Private, SnapSteps, runnerVars
<1>6. Early'
  BY <1>1, <1>2 DEF Early
<1>7. Sole'
  BY <1>1, <1>3 DEF Sole, Untold, Leaving, Spent, runnerVars
<1>8. NoStrayRunner'
  BY <1>1, <1>2 DEF NoStrayRunner, runnerVars
<1>9. Wholes'
  BY <1>1 DEF Wholes, Saved, SnapSteps, runnerVars
<1>10. SavedWhole'
  BY <1>1 DEF SavedWhole, Alive, StartSteps, runnerVars
<1> QED BY <1>4, <1>5, <1>6, <1>7, <1>8, <1>9, <1>10

LEMMA StopSignalKeeps == ASSUME TypeOK, IInv, NEW c \in Cli, StopSignal(c) PROVE IInv'
<1>1. pc[c] = "stop.signal" /\ Sigterm(me[c]) /\ Goto(c, "stop.wait") /\ state' = state
  BY DEF StopSignal
<1>2. PICK p \in Pid : p = me[c]
  BY <1>1 DEF IInv, Named, NamesPid, StartSteps
<1>3. Fewer /\ SavesGoOn
  BY <1>1, <1>2, SigtermMoves DEF TypeOK
<1>4. Ordinary(c) /\ pc'[c] = "stop.wait"
  BY <1>1, <1>3, GotoMoves DEF Ordinary, StartSteps, SnapSteps, NamesPid
<1>5. \A q \in Pid : Untold(q)' => Leaving(q)'
  BY <1>1, <1>2, NobodyIsLost
<1> QED BY <1>1, <1>4, <1>5, OrdinaryKeeps DEF IInv, Named

LEMMA StopMovesOn ==
    ASSUME TypeOK, IInv, NEW c \in Cli, StopExited(c) \/ StopGiveUp(c) PROVE IInv'
<1>1. /\ pc[c] = "stop.wait"
      /\ UNCHANGED <<runnerVars, state>>
      /\ Return(c) \/ Goto(c, "stop.write")
  BY DEF StopExited, StopGiveUp
<1>2. Ordinary(c) /\ pc'[c] \in {"idle", "stop.write"}
  BY <1>1, GotoMoves, ReturnMoves, FrozenRunners
     DEF Ordinary, StartSteps, SnapSteps, NamesPid
<1>3. \A q \in Pid : Untold(q)' => Leaving(q)'
  BY <1>1, <1>2, NoneLeft DEF Spent, Ordinary, Fewer
<1> QED BY <1>1, <1>2, <1>3, OrdinaryKeeps DEF IInv, Named

LEMMA SnapBeginKeeps == ASSUME TypeOK, IInv, NEW c \in Cli, SnapBegin(c) PROVE IInv'
<1> USE DEF IInv
<1>1. PICK d \in Dir : /\ job[d].run = NoPid /\ \A b \in Cli : dirOf[b] # d
                       /\ dirOf' = [dirOf EXCEPT ![c] = d]
                       /\ job' = [job EXCEPT ![d] = NoJob]
                       /\ saved' = [saved EXCEPT ![d] = "empty"]
  BY DEF SnapBegin
<1>2. /\ pc[c] = "idle" /\ pc'[c] = "snap.dial" /\ me'[c] = state.pid /\ dirOf'[c] = d
      /\ state.status = "running" /\ state.pid \in Pid /\ Alive(state.pid)
      /\ \A b \in Cli \ {c} : pc'[b] = pc[b] /\ me'[b] = me[b] /\ dirOf'[b] = dirOf[b]
      /\ \A e \in Dir \ {d} : job'[e] = job[e] /\ saved'[e] = saved[e]
      /\ job'[d] = NoJob
      /\ UNCHANGED <<stage, told, state>>
  BY <1>1 DEF SnapBegin, TypeOK, RunnerTypeOK, Alive
<1>3. \A b \in Cli : pc[b] \notin {"start.spawn", "start.record"}
  BY <1>2 DEF Early, Alive, StartSteps
<1>4. \A p \in Pid : /\ Untold(p)' <=> Untold(p)
                     /\ Leaving(p) => Leaving(p)'
  BY <1>1, <1>2, RunnerConstants DEF Untold, Leaving
<1>5. Named'
  BY <1>2 DEF Named, NamesPid, StartSteps, SnapSteps
<1>6. Private'
  BY <1>1, <1>2 DEF Private, SnapSteps
<1>7. Early'
  BY <1>2, <1>3 DEF Early
<1>8. Sole'
  BY <1>2, <1>3, <1>4 DEF Sole, NoStrayRunner, Untold, Leaving, Spent
<1>9. NoStrayRunner'
  BY <1>2, <1>3, <1>4 DEF NoStrayRunner, Untold, Leaving
<1>10. Wholes'
  BY <1>1, <1>2 DEF Wholes, Saved, NoJob, Private, SnapSteps
<1>11. SavedWhole'
  BY <1>1, <1>2 DEF SavedWhole, Private, Alive, StartSteps, SnapSteps
<1> QED BY <1>5, <1>6, <1>7, <1>8, <1>9, <1>10, <1>11

LEMMA SnapDialKeeps == ASSUME TypeOK, IInv, NEW c \in Cli, SnapDial(c) PROVE IInv'
<1> USE DEF IInv
<1> DEFINE d == dirOf[c]
<1>1. /\ pc[c] = "snap.dial" /\ pc'[c] \in {"snap.reply", "snap.fail"}
      /\ d \in Dir /\ job[d] = NoJob /\ job'[d].at \in {"none", "asked"}
      /\ \A b \in Cli \ {c} : pc'[b] = pc[b]
      /\ \A e \in Dir \ {d} : job'[e] = job[e]
      /\ UNCHANGED <<stage, told, saved, state, me, dirOf>>
  BY DEF SnapDial, Goto, TypeOK, RunnerTypeOK, Private, SnapSteps, NoJob
<1>2. \A p \in Pid : /\ Untold(p)' <=> Untold(p)
                     /\ Leaving(p) => Leaving(p)'
  BY <1>1 DEF Untold, Leaving, NoJob
<1>3. Named'
  BY <1>1 DEF Named, NamesPid, StartSteps, SnapSteps
<1>4. Private'
  BY <1>1 DEF Private, SnapSteps
<1>5. Early'
  BY <1>1 DEF Early
<1>6. Sole'
  BY <1>1, <1>2 DEF Sole, Spent
<1>7. NoStrayRunner'
  BY <1>1, <1>2 DEF NoStrayRunner, Untold, Leaving
<1>8. Wholes'
  BY <1>1 DEF Wholes, Saved, Private, SnapSteps
<1>9. SavedWhole'
  BY <1>1 DEF SavedWhole, Alive, StartSteps
<1> QED BY <1>3, <1>4, <1>5, <1>6, <1>7, <1>8, <1>9

\* The steps of a snapshot that change neither the runners nor state.json.
LEMMA SnapMovesOn ==
    ASSUME TypeOK, IInv, NEW c \in Cli,
           SnapReply(c) \/ SnapExited(c) \/ SnapCopy(c) \/ SnapFault(c) \/ SnapInterrupt(c)
    PROVE  IInv'
<1>1. /\ pc[c] \in SnapSteps
      /\ UNCHANGED <<runnerVars, state>>
      /\ Return(c) \/ \E s \in SnapSteps \ {"snap.dial"} : Goto(c, s)
      /\ pc'[c] = "snap.wait" => job[dirOf[c]].at = "ok"
      /\ pc'[c] = "snap.copy" => pc[c] = "snap.wait" /\ ~Alive(me[c])
      /\ pc'[c] = "snap.write" => pc[c] = "snap.copy"
      /\ pc'[c] # "snap.publish"
  BY DEF SnapReply, SnapExited, SnapCopy, SnapFault, SnapInterrupt, Goto, Return, SnapSteps,
     TypeOK
<1>2. Ordinary(c) /\ pc'[c] \in SnapSteps \cup {"idle"}
  BY <1>1, GotoMoves, ReturnMoves, FrozenRunners
     DEF Ordinary, StartSteps, SnapSteps, NamesPid
<1>3. dirOf[c] \in Dir
  BY <1>1 DEF IInv, Private
<1>4. /\ pc'[c] = "snap.wait" => saved[dirOf[c]] = "whole"
      /\ pc'[c] \in {"snap.copy", "snap.write", "snap.publish"} =>
            saved[dirOf[c]] = "whole" /\ ~Alive(me[c])
  BY <1>1, <1>3 DEF IInv, Wholes, Saved, SavedWhole
<1> QED BY <1>1, <1>2, <1>4, OrdinaryKeeps DEF IInv, Named, SnapSteps, Spent

LEMMA SnapWriteKeeps == ASSUME TypeOK, IInv, NEW c \in Cli, SnapWrite(c) PROVE IInv'
<1>1. /\ pc[c] = "snap.write" /\ pc'[c] = "snap.publish"
      /\ Ordinary(c) /\ state' = Stopped
  BY GotoMoves, FrozenRunners DEF SnapWrite, Ordinary, StartSteps, SnapSteps, NamesPid
<1>2. saved[dirOf[c]] = "whole" /\ ~Alive(me[c])
  BY <1>1 DEF IInv, SavedWhole
<1>3. \A q \in Pid : Untold(q) => Leaving(q)
  BY <1>1, <1>2, NoneLeft
<1> QED BY <1>1, <1>2, <1>3, OrdinaryKeeps DEF Stopped, Spent

LEMMA SnapEndKeeps == ASSUME TypeOK, IInv, NEW c \in Cli, SnapEnd(c) PROVE IInv'
<1> USE DEF IInv
<1> DEFINE d == dirOf[c]
<1>1. /\ pc[c] \in {"snap.publish", "snap.fail"} /\ pc'[c] = "idle"
      /\ d \in Dir /\ job'[d].run = job[d].run /\ (job[d].run # NoPid => job'[d] = job[d])
      /\ me'[c] = NoPid /\ dirOf'[c] = NoDir
      /\ \A b \in Cli \ {c} : pc'[b] = pc[b] /\ me'[b] = me[b] /\ dirOf'[b] = dirOf[b]
      /\ \A e \in Dir \ {d} : job'[e] = job[e] /\ saved'[e] = saved[e]
      /\ UNCHANGED <<stage, told, state>>
  BY DEF SnapEnd, Return, TypeOK, RunnerTypeOK, Private, SnapSteps, NoJob
<1>2. \A p \in Pid : /\ Untold(p)' <=> Untold(p)
                     /\ Leaving(p) => Leaving(p)'
  BY <1>1, RunnerConstants DEF Untold, Leaving
<1>3. Named'
  BY <1>1 DEF Named, NamesPid, StartSteps, SnapSteps
<1>4. Private'
  BY <1>1, LifecycleConstants DEF Private, SnapSteps
<1>5. Early'
  BY <1>1 DEF Early
<1>6. Sole'
  BY <1>1, <1>2 DEF Sole, Spent
<1>7. NoStrayRunner'
  BY <1>1, <1>2 DEF NoStrayRunner, Untold, Leaving
<1>8. Wholes'
  BY <1>1 DEF Wholes, Saved, Private, SnapSteps
<1>9. SavedWhole'
  BY <1>1 DEF SavedWhole, Private, Alive, StartSteps, SnapSteps
<1> QED BY <1>3, <1>4, <1>5, <1>6, <1>7, <1>8, <1>9

-----------------------------------------------------------------------------
LEMMA Begins == ASSUME TypeOK, Init PROVE IInv
BY LifecycleConstants
   DEF Init, RunnerInit, Stopped, IInv, Named, Private, Early, Sole, NoStrayRunner, Wholes,
       SavedWhole, NamesPid, StartSteps, SnapSteps

LEMMA Keeps == ASSUME TypeOK, IInv, StartsAlone', [Next]_vars PROVE IInv'
<1>1. CASE UNCHANGED vars
  BY <1>1, FrozenRunners, RunnerKeeps DEF vars
<1>2. CASE Runner
  BY <1>2, RunnerMoves, RunnerKeeps DEF Runner
<1>3. ASSUME NEW c \in Cli, Start(c) PROVE IInv'
  BY <1>3, BeginKeeps, SpawnKeeps, StartMovesOn, RecordKeeps, GivingUpKeeps, StoppedKeeps
     DEF Start, StartBegin, RestoreBegin
<1>4. ASSUME NEW c \in Cli, Stop(c) PROVE IInv'
  BY <1>4, StopBeginKeeps, StopSignalKeeps, StopMovesOn, StoppedKeeps DEF Stop
<1>5. ASSUME NEW c \in Cli, Snapshot(c) PROVE IInv'
  BY <1>5, SnapBeginKeeps, SnapDialKeeps, SnapMovesOn, SnapWriteKeeps, SnapEndKeeps
     DEF Snapshot
<1> QED BY <1>1, <1>2, <1>3, <1>4, <1>5 DEF Next

LEMMA Invariance == Spec /\ []StartsAlone => []IInv
<1>1. Init /\ TypeOK => IInv
  BY Begins
<1>2. IInv /\ TypeOK /\ StartsAlone /\ StartsAlone' /\ [Next]_vars => IInv'
  BY Keeps
<1> QED BY <1>1, <1>2, RunnerCorrect, PTL DEF Spec

\* No runner is lost while a start has the VM to itself, but for stops of the
\* runner it waits for: whatever stops and snapshots do side by side, and whenever
\* a runner dies, each live runner that nobody has told to exit, and that is not
\* about to, is the one that state.json names, or the start that spawned it is
\* about to record it.
THEOREM RunnersAreRecorded == Spec /\ []StartsAlone => []NoStrayRunner
<1>1. IInv => NoStrayRunner
  BY DEF IInv
<1> QED BY <1>1, Invariance, PTL

\* In the same behaviours a snapshot that goes on after vz.Save has the whole of
\* the machine's saved state, and copies the disks only when the machine can no
\* longer write to them.
THEOREM SavesAreWhole == Spec /\ []StartsAlone => []SavedWhole
<1>1. IInv => SavedWhole
  BY DEF IInv
<1> QED BY <1>1, Invariance, PTL

-----------------------------------------------------------------------------
(* How far up a runner has come when it is recorded *)

OneStart == \A b, c \in Cli : pc[b] \in StartSteps /\ pc[c] \in StartSteps => b = c

Full(p) == events[p] = IF kind = "boot" THEN {"exec-socket"} ELSE Milestones

\* The milestones come in the order of the runner's own steps, and a booting
\* runner that has not listened yet has its start waiting for it.
Ladder ==
    \A p \in Pid :
        /\ kind = "boot" => events[p] \subseteq {"exec-socket"} /\ machine[p] \notin {"restoring", "resuming"}
        /\ kind = "boot" /\ stage[p] = "launched" =>
              /\ events[p] = {}
              /\ \E c \in Cli : pc[c] \in {"start.record", "start.relay"} /\ me[c] = p
        /\ "restore-completed" \in events[p] => "exec-socket" \in events[p]

\* The sockets a booting start sees are those of the runner it waits for.
Served ==
    \A c \in Cli :
        /\ kind = "boot" /\ pc[c] = "start.spawn" => socks = NoPid
        /\ kind = "boot" /\ pc[c] \in {"start.record", "start.relay"} /\ socks # NoPid => Full(me[c])
        /\ kind = "restore" /\ pc[c] = "start.relay" => Full(me[c])
        /\ pc[c] \in {"start.ssh", "start.write"} => Full(me[c])

Risen ==
    state.status = "running" =>
        \/ Full(state.pid)
        \/ \E c \in Cli : pc[c] \in {"start.events", "start.relay", "start.abort"} /\ me[c] = state.pid
        \/ "io" \in Faults /\ ~Untold(state.pid)

\* A start gives up only a runner it has signalled.
GivenUp == \A c \in Cli : pc[c] = "start.abort" => ~Untold(me[c])

Climb == OneStart /\ Ladder /\ Served /\ Risen /\ GivenUp

\* Most steps of a runner, and every signal, leave the milestones alone.
Quiet ==
    /\ UNCHANGED <<kind, events, socks>>
    /\ \A p \in Pid : /\ Untold(p)' => Untold(p)
                      /\ stage'[p] = "launched" => stage[p] = "launched"
                      /\ machine'[p] \in {"restoring", "resuming"} => machine[p] \in {"restoring", "resuming"}

LEMMA ExitQuiet == ASSUME RunnerTypeOK, NEW p \in Pid, Exit(p) PROVE Quiet
BY DEF Exit, Quiet, Untold, RunnerTypeOK

LEMMA SigtermQuiet ==
    ASSUME RunnerTypeOK, NEW p \in Pid, Sigterm(p) PROVE Quiet /\ stage'[p] # "launched"
<1>1. CASE UNCHANGED runnerVars /\ stage[p] = "free"
  BY <1>1 DEF runnerVars, Quiet, Untold
<1>2. CASE Exit(p)
  BY <1>2, ExitQuiet DEF Exit, RunnerTypeOK
<1>3. CASE /\ stage[p] \in {"deaf", "armed"} /\ UNCHANGED <<kind, stage, machine, events, socks>>
           /\ \E t \in {"lost", "received", "asked"} : told' = [told EXCEPT ![p] = t]
  BY <1>3 DEF Quiet, Untold, RunnerTypeOK
<1> QED BY <1>1, <1>2, <1>3, RunnerConstants DEF Sigterm

LEMMA SaveQuiet == ASSUME RunnerTypeOK, NEW d \in Dir, Save(d) PROVE Quiet
<1>1. CASE SaveExit(d)
  <2>1. job[d].run \in Pid
    BY <1>1 DEF SaveExit, RunnerTypeOK
  <2> QED BY <1>1, <2>1, ExitQuiet DEF SaveExit
<1>2. CASE ~SaveExit(d)
  BY <1>2 DEF Save, SavePause, SavePaused, SavePauseFail, SaveWritten, SaveFail, SaveReply,
     Becomes, Quiet, Untold, RunnerTypeOK
<1> QED BY <1>1, <1>2

LEMMA QuietKeeps == ASSUME TypeOK, IInv, Climb, Quiet, UNCHANGED goVars PROVE Climb'
<1> USE DEF Climb, Quiet, goVars
<1>1. OneStart'
  BY DEF OneStart
<1>2. Ladder'
  BY DEF Ladder
<1>3. Served'
  BY DEF Served, Full
<1>4. Risen'
  BY DEF Risen, Full, IInv, Named
<1>5. GivenUp'
  BY DEF GivenUp, IInv, Named, NamesPid, StartSteps
<1> QED BY <1>1, <1>2, <1>3, <1>4, <1>5

LEMMA ClimbListens ==
    ASSUME TypeOK, IInv, Climb, NEW p \in Pid, Listen(p), UNCHANGED goVars PROVE Climb'
<1> USE DEF Climb, goVars
<1>1. /\ kind = "boot" /\ stage[p] = "launched" /\ socks' = p
      /\ stage' = [stage EXCEPT ![p] = "listening"]
      /\ events' = [events EXCEPT ![p] = @ \cup {"exec-socket"}]
      /\ UNCHANGED <<kind, machine>>
  BY DEF Listen, Serve, Reach
<1>2. events'[p] = {"exec-socket"} /\ \A q \in Pid \ {p} : events'[q] = events[q] /\ stage'[q] = stage[q]
  BY <1>1 DEF Ladder, TypeOK, RunnerTypeOK
<1>3. PICK b \in Cli : pc[b] \in {"start.record", "start.relay"} /\ me[b] = p
  BY <1>1 DEF Ladder
<1>4. \A c \in Cli : pc[c] \in StartSteps => c = b
  BY <1>3 DEF OneStart, StartSteps
<1>5. OneStart'
  BY DEF OneStart
<1>6. Ladder'
  BY <1>1, <1>2 DEF Ladder, TypeOK, RunnerTypeOK
<1>7. \A q \in Pid : Full(q) => Full(q)'
  BY <1>1, <1>2 DEF Full
<1>8. Served'
  <2> SUFFICES ASSUME NEW c \in Cli, pc[c] \in StartSteps
               PROVE  /\ pc[c] # "start.spawn" /\ (pc[c] \in {"start.record", "start.relay"} => Full(me[c])')
                      /\ pc[c] \in {"start.ssh", "start.write"} => Full(me[c])'
    BY <1>1 DEF Served, StartSteps
  <2>1. c = b
    BY <1>4
  <2> QED BY <1>1, <1>2, <1>3, <2>1 DEF Full
<1>10. \A q \in Pid : Untold(q)' => Untold(q)
  BY <1>1 DEF Listen, Untold, TypeOK, RunnerTypeOK
<1>9. Risen'
  BY <1>7, <1>10 DEF Risen, IInv, Named
<1>11. GivenUp'
  BY <1>10 DEF GivenUp, IInv, Named, NamesPid, StartSteps
<1> QED BY <1>5, <1>6, <1>8, <1>9, <1>11

\* The steps of a restoring runner.
LEMMA ClimbRestores ==
    ASSUME TypeOK, IInv, Climb, NEW p \in Pid, Arm(p) \/ Restored(p) \/ Resumed(p), UNCHANGED goVars
    PROVE  Climb'
<1> USE DEF Climb, goVars
<1>1. /\ kind' = kind
      /\ \A q \in Pid : /\ events[q] \subseteq events'[q] /\ events'[q] \subseteq Milestones
                        /\ stage'[q] = "launched" => stage[q] = "launched"
                        /\ kind = "boot" => events'[q] = events[q] /\ machine'[q] \notin {"restoring", "resuming"}
      /\ kind = "boot" => socks' = socks
  BY DEF Arm, Restored, Resumed, Becomes, Serve, Reach, Ladder, TypeOK, RunnerTypeOK, Milestones
<1>2. \A q \in Pid : "restore-completed" \in events'[q] => "exec-socket" \in events'[q]
  BY DEF Arm, Restored, Resumed, Becomes, Serve, Reach, Ladder, TypeOK, RunnerTypeOK
<1>3. \A q \in Pid : Full(q) => Full(q)'
  BY <1>1 DEF Full
<1>4. OneStart'
  BY DEF OneStart
<1>5. Ladder'
  BY <1>1, <1>2 DEF Ladder
<1>6. Served'
  <2>1. \A c \in Cli : pc[c] \in {"start.record", "start.relay", "start.ssh", "start.write"} => me[c] \in Pid
    BY DEF IInv, Named, NamesPid, StartSteps
  <2> QED BY <1>1, <1>3, <2>1 DEF Served
<1>7. \A q \in Pid : Untold(q)' => Untold(q)
  BY DEF Arm, Restored, Resumed, Becomes, Untold, TypeOK, RunnerTypeOK
<1>8. Risen' /\ GivenUp'
  BY <1>3, <1>7 DEF Risen, GivenUp, IInv, Named, NamesPid, StartSteps
<1> QED BY <1>4, <1>5, <1>6, <1>8

LEMMA ClimbRunner == ASSUME TypeOK, IInv, Climb, Runner PROVE Climb'
<1> USE DEF TypeOK
<1>1. ASSUME NEW p \in Pid, Rise(p), UNCHANGED goVars PROVE Climb'
  <2>1. CASE Started(p) \/ IgnoreTerm(p)
    BY <1>1, <2>1, QuietKeeps DEF Started, IgnoreTerm, Becomes, Quiet, Untold, RunnerTypeOK
  <2> QED BY <1>1, <2>1, ClimbListens, ClimbRestores DEF Rise
<1>2. ASSUME NEW p \in Pid, Term(p) \/ RunnerDies(p) \/ GuestOff(p), UNCHANGED goVars PROVE Climb'
  <2>1. CASE Exit(p)
    BY <1>2, <2>1, ExitQuiet, QuietKeeps
  <2>2. CASE ~Exit(p)
    <3>1. Quiet
      BY <1>2, <2>2 DEF Term, TermHandled, TermExit, RunnerDies, GuestOff, Becomes, Quiet,
          Untold, RunnerTypeOK
    <3> QED BY <1>2, <3>1, QuietKeeps
  <2> QED BY <2>1, <2>2
<1>3. ASSUME NEW d \in Dir, Save(d), UNCHANGED goVars PROVE Climb'
  BY <1>3, SaveQuiet, QuietKeeps
<1> QED BY <1>1, <1>2, <1>3 DEF Runner

\* A step of a command that makes no runner: what it has to know about its own.
LEMMA ClimbMoves ==
    ASSUME TypeOK, IInv, Climb, NEW c \in Cli, Quiet, Others(c),
           pc'[c] \in StartSteps => pc[c] \in StartSteps \ {"start.spawn"} /\ me'[c] = me[c],
           pc'[c] \notin {"start.spawn", "start.record"},
           pc[c] \in {"start.record", "start.relay"} /\ pc'[c] \notin {"start.record", "start.relay"}
               /\ kind = "boot" => \A p \in Pid : p = me[c] => stage'[p] # "launched",
           pc'[c] = "start.relay" =>
               pc[c] = "start.relay" \/ (kind = "boot" /\ pc[c] = "start.record") \/ Full(me[c]),
           pc'[c] \in {"start.ssh", "start.write"} => Full(me[c]),
           pc'[c] = "start.abort" => \A p \in Pid : p = me[c] => ~Untold(p)',
           \/ /\ state' = state
              /\ pc[c] \in {"start.events", "start.relay", "start.abort"} =>
                    \/ Full(me[c]) \/ ("io" \in Faults /\ ~Untold(me[c]))
                    \/ pc'[c] \in {"start.events", "start.relay", "start.abort"} /\ me'[c] = me[c]
           \/ state'.status # "running"
           \/ state'.pid = me[c] /\ (Full(me[c]) \/ (pc'[c] \in {"start.events", "start.relay"} /\ me'[c] = me[c]))
    PROVE  Climb'
<1> USE DEF Climb, Quiet, Others
<1>0. \A p : Full(p)' <=> Full(p)
  BY DEF Full
<1>1. OneStart'
  BY DEF OneStart
<1>2. Ladder'
  <2> SUFFICES ASSUME NEW p \in Pid, kind = "boot", stage'[p] = "launched"
               PROVE  \E b \in Cli : pc'[b] \in {"start.record", "start.relay"} /\ me'[b] = p
    BY DEF Ladder
  <2>1. PICK b \in Cli : pc[b] \in {"start.record", "start.relay"} /\ me[b] = p
    BY DEF Ladder
  <2> QED BY <2>1 DEF StartSteps
<1>3. Served'
  <2> SUFFICES ASSUME NEW b \in Cli, pc'[b] \in StartSteps
               PROVE  /\ kind = "boot" /\ pc'[b] = "start.spawn" => socks = NoPid
                      /\ kind = "boot" /\ pc'[b] \in {"start.record", "start.relay"} /\ socks # NoPid
                            => Full(me'[b])
                      /\ kind = "restore" /\ pc'[b] = "start.relay" => Full(me'[b])
                      /\ pc'[b] \in {"start.ssh", "start.write"} => Full(me'[b])
    BY <1>0 DEF Served, StartSteps, Full
  <2>1. CASE b = c
    BY <2>1 DEF Served, StartSteps
  <2>2. CASE b # c
    BY <2>2 DEF Served
  <2> QED BY <2>1, <2>2
<1>4. Risen'
  BY <1>0 DEF Risen, Full, IInv, Named
<1>5. GivenUp'
  BY DEF GivenUp, IInv, Named, NamesPid, StartSteps
<1> QED BY <1>1, <1>2, <1>3, <1>4, <1>5

LEMMA ClimbStart ==
    ASSUME TypeOK, IInv, Climb, StartsAlone', NEW c \in Cli, Start(c) PROVE Climb'
<1> USE DEF Climb
<1>1. CASE Begin(c)
  <2>1. /\ \A b \in Cli : pc[b] = "idle"
        /\ Others(c) /\ pc'[c] = "start.spawn" /\ me'[c] = me[c] /\ socks' = NoPid
        /\ UNCHANGED <<kind, stage, machine, told, events, state>>
    BY <1>1, BeginsAlone DEF Begin
  <2>2. OneStart'
    BY <2>1 DEF OneStart, Others, StartSteps
  <2>3. Ladder'
    BY <2>1 DEF Ladder
  <2>4. Served' /\ Risen' /\ GivenUp'
    BY <2>1 DEF Served, Risen, GivenUp, Others, Full, Untold
  <2> QED BY <2>2, <2>3, <2>4
<1>2. CASE StartSpawn(c)
  <2>1. PICK p \in Fresh : /\ stage' = [stage EXCEPT ![p] = "launched"]
                           /\ events' = [events EXCEPT ![p] = {}]
                           /\ me' = [me EXCEPT ![c] = p]
    BY <1>2 DEF StartSpawn
  <2>2. /\ pc[c] = "start.spawn" /\ pc'[c] = "start.record" /\ me'[c] = p
        /\ p \in Pid /\ p # state.pid /\ stage'[p] = "launched" /\ events'[p] = {}
        /\ \A q \in Pid \ {p} : stage'[q] = stage[q] /\ events'[q] = events[q]
        /\ \A b \in Cli \ {c} : pc'[b] = pc[b] /\ me'[b] = me[b] /\ me[b] # p
        /\ UNCHANGED <<kind, machine, told, socks, state>>
    BY <1>2, <2>1 DEF StartSpawn, Fresh, TypeOK, RunnerTypeOK
  <2>3. \A b \in Cli \ {c} : pc[b] \notin StartSteps
    BY <2>2 DEF OneStart, StartSteps
  <2>4. OneStart'
    BY <2>2, <2>3 DEF OneStart
  <2>5. Ladder'
    BY <2>2, <2>3 DEF Ladder, StartSteps
  <2>6. Served'
    BY <2>2, <2>3 DEF Served, StartSteps
  <2>7. Risen'
    BY <2>2, <2>3 DEF Risen, Full, Untold, StartSteps, IInv, Named
  <2>8. GivenUp'
    BY <2>2, <2>3 DEF GivenUp, StartSteps
  <2> QED BY <2>4, <2>5, <2>6, <2>7, <2>8
<1>3. CASE StartRecord(c) \/ RestoreRecord(c)
  BY <1>3, GotoMoves, ClimbMoves DEF StartRecord, RestoreRecord, Record, Quiet, Untold, runnerVars,
      StartSteps
<1>4. CASE StartRecordFail(c) \/ StartFail(c)
  <2>1. /\ pc[c] \in {"start.record", "start.events", "start.relay"} /\ Sigterm(me[c]) /\ state' = state
        /\ (pc[c] = "start.record" /\ Return(c)) \/ (pc[c] # "start.record" /\ Goto(c, "start.abort"))
    BY <1>4 DEF StartRecordFail, StartFail
  <2>2. PICK p \in Pid : p = me[c]
    BY <2>1 DEF IInv, Named, NamesPid, StartSteps
  <2>3. Quiet /\ stage'[p] # "launched" /\ ~Untold(p)'
    BY <2>1, <2>2, SigtermQuiet, SigtermMoves DEF TypeOK
  <2> QED BY <2>1, <2>2, <2>3, GotoMoves, ReturnMoves, ClimbMoves DEF StartSteps
<1>5. CASE StartEvents(c)
  <2>1. me[c] \in Pid /\ pc[c] = "start.events"
    BY <1>5 DEF StartEvents, IInv, Named, NamesPid, StartSteps
  <2>2. Full(me[c]) \/ kind = "boot"
    BY <1>5, <2>1 DEF StartEvents, Full, Ladder, TypeOK, RunnerTypeOK, Milestones
  <2>3. kind = "boot" => FALSE
    BY <1>5, <2>1 DEF StartEvents, Ladder
  <2> QED BY <1>5, <2>2, <2>3, GotoMoves, ClimbMoves DEF StartEvents, Quiet, Untold, runnerVars, StartSteps
<1>6. CASE StartRelay(c)
  <2>1. pc[c] = "start.relay" /\ socks # NoPid /\ kind \in {"boot", "restore"} /\ me[c] \in Pid
    BY <1>6 DEF StartRelay, TypeOK, RunnerTypeOK, IInv, Named, NamesPid, StartSteps
  <2>2. Full(me[c])
    BY <2>1 DEF Served
  <2>3. kind = "boot" => stage[me[c]] # "launched"
    BY <2>1, <2>2 DEF Ladder, Full
  <2> QED BY <1>6, <2>1, <2>2, <2>3, GotoMoves, ClimbMoves DEF StartRelay, Quiet, Untold, runnerVars,
      StartSteps
<1>7. CASE StartAbort(c)
  BY <1>7, ReturnMoves, ClimbMoves
     DEF StartAbort, WriteFails, GivenUp, Stopped, Quiet, Untold, runnerVars, StartSteps
<1>8. CASE StartReady(c) \/ StartNotReady(c)
  BY <1>8, GotoMoves, ReturnMoves, ClimbMoves DEF StartReady, StartNotReady, Quiet, Untold, runnerVars,
      StartSteps, Served
<1>9. CASE StartWrite(c)
  BY <1>9, ReturnMoves, ClimbMoves DEF StartWrite, Record, WriteFails, Quiet, Untold,
      runnerVars, StartSteps, Served
<1> QED BY <1>1, <1>2, <1>3, <1>4, <1>5, <1>6, <1>7, <1>8, <1>9 DEF Start, StartBegin, RestoreBegin

LEMMA ClimbOther ==
    ASSUME TypeOK, IInv, Climb, NEW c \in Cli, Stop(c) \/ Snapshot(c) PROVE Climb'
<1>1. pc[c] \notin StartSteps /\ pc'[c] \notin StartSteps /\ Others(c)
  BY GotoMoves, ReturnMoves
     DEF Stop, StopBegin, StopSignal, StopExited, StopGiveUp, StopWrite, Snapshot, SnapBegin, SnapDial,
         SnapReply, SnapExited, SnapCopy, SnapFault, SnapWrite, SnapEnd, SnapInterrupt,
         StartSteps, SnapSteps, Others, TypeOK
<1>2. state' = state \/ state'.status # "running"
  BY DEF Stop, StopBegin, StopSignal, StopExited, StopGiveUp, StopWrite, Snapshot, SnapBegin,
      SnapDial,
         SnapReply, SnapExited, SnapCopy, SnapFault, SnapWrite, SnapEnd, SnapInterrupt, Stopped,
         WriteFails
<1>3. Quiet
  <2>1. CASE StopSignal(c)
    <3>1. me[c] \in Pid
      BY <2>1 DEF StopSignal, IInv, Named, NamesPid
    <3> QED BY <2>1, <3>1, SigtermQuiet DEF StopSignal, TypeOK
  <2>2. CASE ~StopSignal(c)
    BY <2>2 DEF Stop, StopBegin, StopExited, StopGiveUp, StopWrite, Snapshot, SnapBegin, SnapDial,
         SnapReply, SnapExited, SnapCopy, SnapFault, SnapWrite, SnapEnd, SnapInterrupt, Quiet,
         Untold, runnerVars
  <2> QED BY <2>1, <2>2
<1> QED BY <1>1, <1>2, <1>3, ClimbMoves DEF StartSteps

LEMMA Climbs == Spec /\ []StartsAlone => []Climb
<1>1. Init => Climb
  BY RunnerConstants
     DEF Init, RunnerInit, Stopped, Climb, OneStart, Ladder, Served, Risen, GivenUp, StartSteps
<1>2. TypeOK /\ IInv /\ Climb /\ StartsAlone /\ StartsAlone' /\ [Next]_vars => Climb'
  <2> SUFFICES ASSUME TypeOK, IInv, Climb, StartsAlone', [Next]_vars PROVE Climb'
    OBVIOUS
  <2>1. CASE UNCHANGED vars
    BY <2>1, QuietKeeps DEF vars, runnerVars, Quiet, Untold
  <2> QED BY <2>1, ClimbRunner, ClimbStart, ClimbOther DEF Next
<1> QED BY <1>1, <1>2, RunnerCorrect, Invariance, PTL DEF Spec

\* In the same behaviours, when no start is in flight and state.json says
\* `running`, the runner it names had come all the way up: listening for a boot,
\* restored and resumed for a restore, whatever has become of it since.  Only where
\* writes may fail it may instead be one that was told to exit, or that is dead.
THEOREM RunningMeansUp == Spec /\ []StartsAlone => []UpBeforeRunning
<1>1. Climb => UpBeforeRunning
  BY DEF Climb, Risen, UpBeforeRunning, Full, Untold, Starting, StartSteps
<1> QED BY <1>1, Climbs, PTL
=============================================================================
