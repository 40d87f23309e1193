----------------------------- MODULE SnapshotStore ---------------------------
(***************************************************************************)
(* `spind snapshot create`, `delete` and `prune`, `vm create --snapshot`,  *)
(* and what happens to the files of a VM while it runs                     *)
(* (internal/spind/vm/start/snapshot.go, internal/spind/snapshot).         *)
(***************************************************************************)
EXTENDS ImageStore

SnapDir(s) == <<"snap", s>>
TempDir(c) == <<"temp", c>>

snapVars == <<template, backend>>

-----------------------------------------------------------------------------
(* The machines.  Start and stop are those of VMLifecycle, here in one step. *)

\* A VM created from a snapshot restores the saved state at every start; Cloud
\* Hypervisor opens the disk of the restore directory, to which config.json was
\* rewritten.
Restores(v) == Has(VMDir(v), "saved")
DiskOf(v) == IF backend = "ch" /\ Restores(v) THEN "rdisk" ELSE "disk"

\* Nothing keeps a VM from being started, stopped or deleted while a snapshot of
\* it is taken.
GuestStart(v) ==
    /\ meta[VMDir(v)] # None /\ guest[v].status # "none" /\ guest[v].run = "off"
    /\ Has(VMDir(v), "kernel") /\ Has(VMDir(v), DiskOf(v))
    /\ guest' = [guest EXCEPT ![v] = [status |-> "running", run |-> "on"]]
    /\ UNCHANGED <<disk, stamp, snapVars, cmd>>

GuestStop(v) ==
    /\ guest[v].run # "off"
    /\ guest' = [guest EXCEPT ![v] = [NoGuest EXCEPT !.status = "stopped"]]
    /\ UNCHANGED <<disk, stamp, snapVars, cmd>>

GuestWrite(v) ==
    /\ guest[v].run = "on" /\ stamp < MaxStamp
    /\ stamp' = stamp + 1
    /\ Overwrite(VMDir(v), DiskOf(v), stamp + 1)
    /\ UNCHANGED <<dirs, meta, snapVars, guest, cmd>>

\* DeleteVM of a VM that does not run.
DeleteVM(v) ==
    /\ VMDir(v) \in dirs /\ guest[v].status # "none" /\ guest[v].run = "off"
    /\ Wipe(VMDir(v))
    /\ guest' = [guest EXCEPT ![v] = NoGuest]
    /\ UNCHANGED <<stamp, snapVars, cmd>>

-----------------------------------------------------------------------------
(* snapshot create *)

SnapCopies == << [own |-> FALSE, from |-> "disk", to |-> "disk", link |-> FALSE],
                 [own |-> FALSE, from |-> "kernel", to |-> "kernel", link |-> FALSE] >>

SnapshotCreate(c, v, s) ==
    /\ meta[VMDir(v)] # None /\ guest[v].status = "running" /\ guest[v].run # "off"
    /\ SnapDir(s) \notin dirs /\ TempDir(c) \notin dirs
    /\ MaySave
    /\ dirs' = dirs \cup {TempDir(c)}
    /\ Begin(c, "snap.save", [NoJob EXCEPT !.src = VMDir(v), !.dst = TempDir(c),
                                           !.name = SnapDir(s)], SnapCopies)
    /\ UNCHANGED <<files, meta, stamp, snapVars, guest>>

Source(c) == job[c].src[2]

\* Mutant: the guest runs on while its disk is copied.
SnapSave_NoPause(c) ==
    /\ pc[c] = "snap.save" /\ guest[Source(c)].run = "on"
    /\ NewFile(TempDir(c), "saved", Content(VMDir(Source(c)), DiskOf(Source(c))))
    /\ Goto(c, "snap.copy")
    /\ UNCHANGED <<dirs, meta, stamp, snapVars, guest, job, todo>>

\* vm.pause and vm.snapshot, or a save after which the runner exits; either way
\* the guest writes no more.  A guest that is paused already, or has gone, cannot
\* be saved.
SnapSave(c) ==
    /\ pc[c] = "snap.save" /\ guest[Source(c)].run = "on"
    /\ NewFile(TempDir(c), "saved", Content(VMDir(Source(c)), DiskOf(Source(c))))
    /\ guest' = [guest EXCEPT ![Source(c)].run = IF backend = "ch" THEN "paused" ELSE "off"]
    /\ Goto(c, "snap.copy")
    /\ UNCHANGED <<dirs, meta, stamp, snapVars, job, todo>>

\* metadata.json is written and the files verified.
Complete(d) == \A f \in {"kernel", "disk", "saved"} : Has(d, f)

SnapMetadata(c) ==
    /\ pc[c] = "snap.copy" /\ todo[c] = <<>> /\ Complete(TempDir(c))
    /\ meta' = [meta EXCEPT ![TempDir(c)] = meta[VMDir(Source(c))]]
    /\ Goto(c, "snap.shutdown")
    /\ UNCHANGED <<dirs, files, stamp, snapVars, guest, job, todo>>

\* Cloud Hypervisor, if it is still there, is shut down; state.json, if it still
\* has a directory, says stopped.
SnapShutdown(c) ==
    /\ pc[c] = "snap.shutdown" /\ VMDir(Source(c)) \in dirs
    /\ backend = "ch" => guest[Source(c)].run # "off"
    /\ guest' = [guest EXCEPT ![Source(c)] =
                    [status |-> "stopped", run |-> IF backend = "ch" THEN "off" ELSE @.run]]
    /\ Goto(c, "snap.publish")
    /\ UNCHANGED <<disk, stamp, snapVars, job, todo>>

\* The rename fails over a snapshot that has appeared meanwhile.
SnapPublish(c) ==
    /\ pc[c] = "snap.publish"
    /\ IF CanMove(job[c].name) THEN MoveDir(TempDir(c), job[c].name)
                               ELSE Wipe(TempDir(c))
    /\ Return(c)
    /\ UNCHANGED <<stamp, snapVars, guest>>

\* What an error may leave of a guest: it runs on, unless the pause or the save
\* took effect all the same; one that was paused is resumed, unless that fails
\* too or its VMM has been shut down already.
LeftBy(c) ==
    LET run == guest[Source(c)].run
    IN  IF pc[c] = "snap.save"
          THEN {run} \cup (IF run # "on" THEN {} ELSE IF backend = "ch" THEN {"paused"}
                                                                     ELSE {"off"})
          ELSE {run} \cup (IF run # "paused" THEN {}
                           ELSE {"on"} \cup (IF pc[c] = "snap.shutdown" THEN {"off"} ELSE {}))

\* Any error before: the temporary directory is removed.
SnapFail(c) ==
    /\ pc[c] \in {"snap.save", "snap.copy", "snap.shutdown"}
    /\ Wipe(TempDir(c))
    /\ \E run \in LeftBy(c) : guest' = [guest EXCEPT ![Source(c)].run = run]
    /\ Return(c)
    /\ UNCHANGED <<stamp, snapVars>>

-----------------------------------------------------------------------------
(* snapshot delete and prune *)

\* The snapshot named, or those that match, listed once.  Temporary directories
\* are listed too; one that matches ends the prune before it deletes anything,
\* for its name is not a valid one.
Prune(c, ss) ==
    /\ ss # {} /\ \A s \in ss : SnapDir(s) \in dirs
    /\ Begin(c, "prune", [NoJob EXCEPT !.left = ss], <<>>)
    /\ UNCHANGED <<disk, stamp, snapVars, guest>>

\* DeleteWithSize of one after the other, until one has gone in the meantime.
PruneNext(c) ==
    /\ pc[c] = "prune"
    /\ \/ \E s \in job[c].left :
             IF SnapDir(s) \in dirs
               THEN /\ Goto(c, "prune.remove")
                    /\ job' = [job EXCEPT ![c].dst = SnapDir(s)]
                    /\ UNCHANGED todo
               ELSE Return(c)
       \/ job[c].left = {} /\ Return(c)
    /\ UNCHANGED <<disk, stamp, snapVars, guest>>

PruneRemove(c) ==
    /\ pc[c] = "prune.remove"
    /\ \/ RemoveFile(job[c].dst) /\ UNCHANGED cmd
       \/ /\ RemoveDir(job[c].dst)
          /\ Goto(c, "prune")
          /\ job' = [job EXCEPT ![c].left = @ \ {job[c].dst[2]}, ![c].dst = None]
          /\ UNCHANGED todo
    /\ UNCHANGED <<stamp, snapVars, guest>>

-----------------------------------------------------------------------------
(* vm create --snapshot *)

Linked(own, from, to) == [own |-> own, from |-> from, to |-> to, link |-> TRUE]
Copied(from, to) == [own |-> FALSE, from |-> from, to |-> to, link |-> FALSE]

\* Mutant: the disk is linked like everything else.
RestoreCopies_LinkedDisk ==
    IF backend = "ch"
      THEN << Linked(FALSE, "saved", "saved"), Linked(FALSE, "kernel", "kernel"),
              Linked(FALSE, "disk", "rdisk"), Linked(TRUE, "rdisk", "disk") >>
      ELSE << Copied("saved", "saved"), Copied("kernel", "kernel"),
              Copied("disk", "disk") >>

\* createCloudHypervisorVMFromSnapshot: what the guest only reads is linked, its
\* disk copied to the restore directory and linked from there to the VM's.
RestoreCopies ==
    IF backend = "ch"
      THEN << Linked(FALSE, "saved", "saved"), Linked(FALSE, "kernel", "kernel"),
              Copied("disk", "rdisk"), Linked(TRUE, "rdisk", "disk") >>
      ELSE << Copied("saved", "saved"), Copied("kernel", "kernel"),
              Copied("disk", "disk") >>

CreateFromSnapshot(c, v, s) ==
    /\ meta[SnapDir(s)] # None /\ VMDir(v) \notin dirs
    /\ dirs' = dirs \cup {VMDir(v)}
    /\ Begin(c, "restore.copy",
             [NoJob EXCEPT !.src = SnapDir(s), !.dst = VMDir(v),
                           !.name = ImageDir(meta[SnapDir(s)])], RestoreCopies)
    /\ UNCHANGED <<files, meta, stamp, snapVars, guest>>

Snapshots(c) ==
    \/ \E v \in VM, s \in Snap : SnapshotCreate(c, v, s) \/ CreateFromSnapshot(c, v, s)
    \/ SnapSave(c) \/ SnapMetadata(c) \/ SnapShutdown(c) \/ SnapPublish(c)
    \/ SnapFail(c)
    \/ \E ss \in SUBSET Snap : Prune(c, ss)
    \/ PruneNext(c) \/ PruneRemove(c)

Guests == \E v \in VM : GuestStart(v) \/ GuestStop(v) \/ GuestWrite(v) \/ DeleteVM(v)
=============================================================================
