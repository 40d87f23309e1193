------------------------------- MODULE VZRunner ------------------------------
(***************************************************************************)
(* spind-vz, the process that holds a Virtualization.framework machine     *)
(* (src/swift/spind-vz/main.swift): how it comes up for `start` and for    *)
(* `restore`, how its control socket saves the machine, and how it exits.  *)
(* Its queues, the completion handlers of the framework and the guest      *)
(* interleave freely; every completion is a step of its own.               *)
(***************************************************************************)
CONSTANTS
    Pid,      \* process ids; one is reused only when nothing names it
    NoPid,    \* no process
    Dir,      \* temporary snapshot directories
    Faults    \* the failures of the environment this instance allows

FaultKinds == {"runner-crash", "machine", "guest-off", "slow", "io", "interrupt"}

ASSUME RunnerConstants == NoPid \notin Pid /\ Faults \subseteq FaultKinds

VARIABLES
    kind,      \* whether the VM boots or restores a saved state
    stage,     \* how far main has come in each process
    machine,   \* the state of its VZVirtualMachine
    told,      \* SIGTERM: "no", "lost", "received", or "asked" the guest to stop
    events,    \* the milestones a runner has reached
    socks,     \* the runner that made exec.sock and control.sock, or NoPid
    job,       \* the save request of each directory, and the runner it is with
    saved      \* the state.vzvmsave of each directory

runnerVars == <<kind, stage, machine, told, events, socks, job, saved>>

Milestones == {"exec-socket", "restore-completed", "resume-completed", "exec-relay-ready"}
Working == {"asked", "pausing", "saving", "stopping"}
Coming == {"starting", "restoring", "resuming", "running"}
Answered == {"none", "ok", "refused", "failed", "dropped"}
NoJob == [at |-> "none", run |-> NoPid]

RunnerTypeOK ==
    /\ kind \in {"boot", "restore"}
    /\ stage \in [Pid -> {"free", "launched", "listening", "deaf", "armed"}]
    /\ machine \in [Pid -> Coming \cup {"off", "pausing", "paused", "saving", "stopping"}]
    /\ told \in [Pid -> {"no", "lost", "received", "asked"}]
    /\ events \in [Pid -> SUBSET Milestones]
    /\ socks \in Pid \cup {NoPid}
    /\ job \in [Dir -> [at : Working, run : Pid] \cup [at : Answered, run : Pid \cup {NoPid}]]
    /\ saved \in [Dir -> {"empty", "part", "whole", "gone"}]

RunnerInit ==
    /\ kind \in {"boot", "restore"}
    /\ stage = [p \in Pid |-> "free"] /\ machine = [p \in Pid |-> "off"]
    /\ told = [p \in Pid |-> "no"] /\ events = [p \in Pid |-> {}]
    /\ socks = NoPid
    /\ job = [d \in Dir |-> NoJob] /\ saved = [d \in Dir |-> "gone"]

-----------------------------------------------------------------------------
(* Exit: clients that still wait for a reply read the end of the stream. *)

\* Mutant: the connections of its clients stay open.
Exit_Silent(p) ==
    /\ stage' = [stage EXCEPT ![p] = "free"]
    /\ machine' = [machine EXCEPT ![p] = "off"]
    /\ told' = [told EXCEPT ![p] = "no"]
    /\ job' = [d \in Dir |-> IF job[d].run = p THEN [job[d] EXCEPT !.run = NoPid] ELSE job[d]]
    /\ UNCHANGED <<kind, events, socks, saved>>

Exit(p) ==
    /\ stage' = [stage EXCEPT ![p] = "free"]
    /\ machine' = [machine EXCEPT ![p] = "off"]
    /\ told' = [told EXCEPT ![p] = "no"]
    /\ job' = [d \in Dir |->
                 IF job[d].run # p THEN job[d]
                 ELSE [at  |-> IF job[d].at \in Working THEN "dropped" ELSE job[d].at,
                       run |-> NoPid]]
    /\ UNCHANGED <<kind, events, socks, saved>>

\* kill(p, SIGTERM), for which a process has the default action until
\* installStopSignalHandler, which ignores it before it listens for it.
Sigterm(p) ==
    \/ /\ p = NoPid \/ stage[p] = "free"
       /\ UNCHANGED runnerVars
    \/ /\ p # NoPid /\ stage[p] \in {"launched", "listening"}
       /\ Exit(p)
    \/ /\ p # NoPid /\ stage[p] = "deaf"
       /\ told' = [told EXCEPT ![p] = "lost"]
       /\ UNCHANGED <<kind, stage, machine, events, socks, job, saved>>
    \/ /\ p # NoPid /\ stage[p] = "armed"
       /\ told' = [told EXCEPT ![p] = IF @ = "asked" THEN @ ELSE "received"]
       /\ UNCHANGED <<kind, stage, machine, events, socks, job, saved>>

-----------------------------------------------------------------------------
(* Coming up *)

\* What the runner's completion handlers change most of the time.
Becomes(p, s) ==
    /\ machine' = [machine EXCEPT ![p] = s]
    /\ UNCHANGED <<kind, told>>

Serve(p) == socks' = p

Reach(p, es) == events' = [events EXCEPT ![p] = @ \cup es]

\* startVM: the relays and the control server listen before the machine starts.
Listen(p) ==
    /\ kind = "boot" /\ stage[p] = "launched"
    /\ stage' = [stage EXCEPT ![p] = "listening"]
    /\ Serve(p) /\ Reach(p, {"exec-socket"})
    /\ UNCHANGED <<kind, machine, told, job, saved>>

\* SIGTERM is ignored, so that a dispatch source can take its place.
IgnoreTerm(p) ==
    /\ stage[p] = IF kind = "boot" THEN "listening" ELSE "launched"
    /\ stage' = [stage EXCEPT ![p] = "deaf"]
    /\ UNCHANGED <<kind, machine, told, events, socks, job, saved>>

\* The source is resumed; start, or restore, has been called.
Arm(p) ==
    /\ stage[p] = "deaf"
    /\ stage' = [stage EXCEPT ![p] = "armed"]
    /\ Becomes(p, IF kind = "boot" THEN "starting" ELSE "restoring")
    /\ UNCHANGED <<events, socks, job, saved>>

Started(p) ==
    /\ machine[p] = "starting"
    /\ Becomes(p, "running")
    /\ UNCHANGED <<stage, events, socks, job, saved>>

\* restoreVM: the sockets come after the state is loaded.
Restored(p) ==
    /\ machine[p] = "restoring"
    /\ Becomes(p, "resuming")
    /\ Serve(p) /\ Reach(p, {"restore-completed", "exec-socket"})
    /\ UNCHANGED <<stage, job, saved>>

Resumed(p) ==
    /\ machine[p] = "resuming"
    /\ Becomes(p, "running")
    /\ Reach(p, {"resume-completed", "exec-relay-ready"})
    /\ UNCHANGED <<stage, socks, job, saved>>

\* main or a completion handler gives up with exit(1), or the process dies.
RunnerDies(p) == "runner-crash" \in Faults /\ stage[p] # "free" /\ Exit(p)

\* The guest powers itself off; the runner has no delegate and stays.
GuestOff(p) ==
    /\ machine[p] = "running"
    /\ told[p] = "asked" \/ "guest-off" \in Faults
    /\ Becomes(p, "off")
    /\ UNCHANGED <<stage, events, socks, job, saved>>

-----------------------------------------------------------------------------
(* requestStop *)

\* A running guest is asked first; a machine in any other state is stopped, and
\* whatever comes of that the process exits.
TermHandled(p) ==
    /\ told[p] = "received"
    /\ \/ /\ machine[p] = "running"
          /\ told' = [told EXCEPT ![p] = "asked"]
          /\ UNCHANGED <<kind, stage, machine, events, socks, job, saved>>
       \/ machine[p] # "running" /\ Exit(p)

\* A second later the machine is stopped and the process exits, after two more
\* seconds in any case.
TermExit(p) == told[p] = "asked" /\ Exit(p)

-----------------------------------------------------------------------------
(* The control server: pause, save, stop, reply, exit *)

Answer(d, a) == job' = [job EXCEPT ![d] = [at |-> a, run |-> NoPid]]
Advance(d, a) == job' = [job EXCEPT ![d].at = a]

\* Only a running machine can be paused.
SavePause(d) ==
    /\ job[d].at = "asked"
    /\ IF machine[job[d].run] = "running"
         THEN Becomes(job[d].run, "pausing") /\ Advance(d, "pausing")
         ELSE Answer(d, "failed") /\ UNCHANGED <<kind, machine, told>>
    /\ UNCHANGED <<stage, events, socks, saved>>

SavePaused(d) ==
    /\ job[d].at = "pausing"
    /\ Becomes(job[d].run, "saving") /\ Advance(d, "saving")
    /\ saved' = [saved EXCEPT ![d] = IF @ = "empty" THEN "part" ELSE @]
    /\ UNCHANGED <<stage, events, socks>>

SavePauseFail(d) ==
    /\ "machine" \in Faults /\ job[d].at = "pausing"
    /\ Becomes(job[d].run, "running") /\ Answer(d, "failed")
    /\ UNCHANGED <<stage, events, socks, saved>>

\* Mutant: the answer does not wait for the file.
SaveWritten_Early(d) ==
    /\ job[d].at = "saving" /\ saved[d] = "part"
    /\ Becomes(job[d].run, "stopping") /\ Advance(d, "stopping")
    /\ UNCHANGED <<stage, events, socks, saved>>

SaveWritten(d) ==
    /\ job[d].at = "saving" /\ saved[d] = "part"
    /\ saved' = [saved EXCEPT ![d] = "whole"]
    /\ Becomes(job[d].run, "stopping") /\ Advance(d, "stopping")
    /\ UNCHANGED <<stage, events, socks>>

\* The machine stays paused: nothing resumes it.
SaveFail(d) ==
    /\ job[d].at = "saving"
    /\ "machine" \in Faults \/ saved[d] = "gone"
    /\ Becomes(job[d].run, "paused") /\ Answer(d, "failed")
    /\ UNCHANGED <<stage, events, socks, saved>>

\* The reply is sent before the process exits; it also exits when the stop of
\* the machine failed.
SaveReply(d) ==
    /\ job[d].at = "stopping"
    /\ \/ Becomes(job[d].run, "off") /\ Advance(d, "ok")
       \/ /\ "machine" \in Faults
          /\ Becomes(job[d].run, "paused") /\ Advance(d, "refused")
    /\ UNCHANGED <<stage, events, socks, saved>>

SaveExit(d) ==
    /\ job[d].at \in {"ok", "refused"} /\ job[d].run # NoPid
    /\ Exit(job[d].run)

Save(d) ==
    \/ SavePause(d) \/ SavePaused(d) \/ SavePauseFail(d) \/ SaveWritten(d)
    \/ SaveFail(d) \/ SaveReply(d) \/ SaveExit(d)

Rise(p) == Listen(p) \/ IgnoreTerm(p) \/ Arm(p) \/ Started(p) \/ Restored(p) \/ Resumed(p)
Term(p) == TermHandled(p) \/ TermExit(p)
=============================================================================
