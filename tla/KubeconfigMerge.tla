-------------------------- MODULE KubeconfigMerge --------------------------
(***************************************************************************)
(* `spind kubeconfig merge`, `spind kubeconfig unmerge` and `spind vm      *)
(* delete --unmerge-kubeconfig` over the user's kubeconfig files           *)
(* (internal/spind/kubeconfig/mergefile.go, kubeconfig/merge,              *)
(* kubeconfig/unmerge, vm/start/kubeconfig_merge.go).  Commands may overlap *)
(* and may be killed anywhere; what keeps them apart is <path>.lock, which *)
(* a command creates exclusively and removes when it is done.  A command   *)
(* that finds it there fails at once.                                      *)
(***************************************************************************)
EXTENDS KubeconfigDocument

CONSTANTS
    Cli,        \* the commands in flight at the same time
    Path,       \* the files of KUBECONFIG, numbered in its order
    NoPath,     \* a command that has chosen no file
    Free,       \* there is no lock file
    Stale,      \* a lock file whose command was killed
    MaxStarts   \* bound: how often VMs are started

ASSUME MergeConstants ==
    /\ Path \subseteq Nat /\ NoPath \notin Path
    /\ Free \notin Cli /\ Stale \notin Cli /\ Free # Stale
    /\ MaxStarts \in Nat

VARIABLES
    vm,         \* the VM of each entry: "absent", "stopped" or "running"
    made,       \* the version of its kubeconfig: the number of its last start
    file,       \* what each kubeconfig file holds
    present,    \* the kubeconfig files that exist
    lock,       \* who created <path>.lock
    pc,         \* where each command is
    job,        \* its arguments
    at,         \* the file it works on
    left,       \* the candidate files an unmerge has still to visit
    ver,        \* the version of the source a merge has read
    doc         \* the document it has read

vms   == <<vm, made>>
files == <<file, present>>
read  == <<ver, doc>>
cmd   == <<pc, job, at, left, read>>
vars  == <<vms, files, lock, cmd>>

Job == [op : {"none", "merge", "unmerge", "delete"}, name : Name \cup {NoName},
        replace : BOOLEAN, set : BOOLEAN]
NoJob == [op |-> "none", name |-> NoName, replace |-> FALSE, set |-> FALSE]

\* The steps between the creation of the lock file and its removal.
Critical == {"source", "read", "write", "unlock", "fail"}

TypeOK ==
    /\ vm \in [Name -> {"absent", "stopped", "running"}]
    /\ made \in [Name -> Nat]
    /\ file \in [Path -> Document]
    /\ present \subseteq Path
    /\ lock \in [Path -> Cli \cup {Free, Stale}]
    /\ pc \in [Cli -> {"idle", "next", "lock"} \cup Critical]
    /\ job \in [Cli -> Job]
    /\ at \in [Cli -> Path \cup {NoPath}]
    /\ left \in [Cli -> SUBSET Path]
    /\ ver \in [Cli -> Nat]
    /\ doc \in [Cli -> Document]

Init ==
    /\ vm = [n \in Name |-> "absent"] /\ made = [n \in Name |-> 0]
    /\ file = [p \in Path |-> Empty] /\ present = {}
    /\ lock = [p \in Path |-> Free]
    /\ pc = [c \in Cli |-> "idle"]
    /\ job = [c \in Cli |-> NoJob]
    /\ at = [c \in Cli |-> NoPath] /\ left = [c \in Cli |-> {}]
    /\ ver = [c \in Cli |-> 0] /\ doc = [c \in Cli |-> Empty]

-----------------------------------------------------------------------------
Goto(c, step) == pc' = [pc EXCEPT ![c] = step]

\* What the function under the lock has read is gone when it returns.
Leave(c, step) ==
    /\ Goto(c, step)
    /\ ver' = [ver EXCEPT ![c] = 0]
    /\ doc' = [doc EXCEPT ![c] = Empty]

Return(c) ==
    /\ Leave(c, "idle")
    /\ job' = [job EXCEPT ![c] = NoJob]
    /\ at' = [at EXCEPT ![c] = NoPath]
    /\ left' = [left EXCEPT ![c] = {}]

Take(c, op, n, replace, set) ==
    job' = [job EXCEPT ![c] = [op |-> op, name |-> n,
                               replace |-> replace, set |-> set]]

\* CandidatePaths: --kubeconfig names one file, otherwise all are candidates.
Candidates == {{p} : p \in Path} \cup {Path}

\* PathForMerge: the first file that exists, or the last candidate.
IsTarget(p, S) ==
    IF S \cap present # {}
    THEN p \in S \cap present /\ \A q \in S \cap present : p <= q
    ELSE p \in S /\ \A q \in S : q <= p

\* Merge: the VM runs and the file is chosen before any lock is taken.
MergeBegin(c, n) ==
    /\ pc[c] = "idle" /\ vm[n] = "running"
    /\ \E replace, set \in BOOLEAN : Take(c, "merge", n, replace, set)
    /\ \E S \in Candidates : \E p \in S :
          IsTarget(p, S) /\ at' = [at EXCEPT ![c] = p]
    /\ Goto(c, "lock")
    /\ UNCHANGED <<vms, files, lock, left, read>>

UnmergeBegin(c, n) ==
    /\ pc[c] = "idle" /\ vm[n] # "absent"
    /\ Take(c, "unmerge", n, FALSE, FALSE)
    /\ \E S \in Candidates : left' = [left EXCEPT ![c] = S]
    /\ Goto(c, "next")
    /\ UNCHANGED <<vms, files, lock, at, read>>

\* vm delete --unmerge-kubeconfig visits every candidate; a VM that runs has
\* been stopped by then.
DeleteBegin(c, n) ==
    /\ pc[c] = "idle" /\ vm[n] # "absent"
    /\ vm' = [vm EXCEPT ![n] = "stopped"]
    /\ Take(c, "delete", n, FALSE, FALSE)
    /\ left' = [left EXCEPT ![c] = Path]
    /\ Goto(c, "next")
    /\ UNCHANGED <<made, files, lock, at, read>>

-----------------------------------------------------------------------------
(* withKubeconfigLock *)

\* Mutant: the lock file is opened without O_EXCL.
Lock_Shared(c) ==
    /\ pc[c] = "lock"
    /\ lock' = [lock EXCEPT ![at[c]] = c]
    /\ Goto(c, IF job[c].op = "merge" THEN "source" ELSE "read")
    /\ UNCHANGED <<vms, files, job, at, left, read>>

Lock(c) ==
    /\ pc[c] = "lock" /\ lock[at[c]] = Free
    /\ lock' = [lock EXCEPT ![at[c]] = c]
    /\ Goto(c, IF job[c].op = "merge" THEN "source" ELSE "read")
    /\ UNCHANGED <<vms, files, job, at, left, read>>

LockFail(c) ==
    /\ pc[c] = "lock"
    /\ Return(c)
    /\ UNCHANGED <<vms, files, lock>>

\* The deferred removal, after success or failure.  An unmerge that succeeded
\* goes on with the next file.
Unlock(c) ==
    /\ pc[c] \in {"unlock", "fail"}
    /\ lock' = [lock EXCEPT ![at[c]] = Free]
    /\ \/ /\ pc[c] = "unlock" /\ job[c].op # "merge"
          /\ Goto(c, "next")
          /\ UNCHANGED <<job, at, left, read>>
       \/ /\ pc[c] = "fail" \/ job[c].op = "merge"
          /\ Return(c)
    /\ UNCHANGED <<vms, files>>

\* Mutant: the failure of a write returns past the removal of the lock file.
Fail_KeepsLock(c) ==
    /\ pc[c] \in Critical \ {"unlock", "fail"}
    /\ IF pc[c] = "write" THEN Return(c)
       ELSE Leave(c, "fail") /\ UNCHANGED <<job, at, left>>
    /\ UNCHANGED <<vms, files, lock>>

\* A file cannot be read, parsed or written; the rename has not happened.
Fail(c) ==
    /\ pc[c] \in Critical \ {"unlock", "fail"}
    /\ Leave(c, "fail")
    /\ UNCHANGED <<vms, files, lock, job, at, left>>

-----------------------------------------------------------------------------
(* MergeFile, UnmergeFile *)

\* Mutant: the source was read before the lock was taken.
MergeSource_Early(c) ==
    /\ pc[c] = "source" /\ vm[job[c].name] # "absent"
    /\ \E v \in 1..made[job[c].name] : ver' = [ver EXCEPT ![c] = v]
    /\ Goto(c, "read")
    /\ UNCHANGED <<vms, files, lock, job, at, left, doc>>

\* Only the source of a VM that is still there has the entry.
MergeSource(c) ==
    /\ pc[c] = "source" /\ vm[job[c].name] # "absent"
    /\ ver' = [ver EXCEPT ![c] = made[job[c].name]]
    /\ Goto(c, "read")
    /\ UNCHANGED <<vms, files, lock, job, at, left, doc>>

ReadTarget(c) ==
    /\ doc' = [doc EXCEPT ![c] = file[at[c]]]
    /\ Goto(c, "write")
    /\ UNCHANGED ver

MergeRead(c) ==
    /\ pc[c] = "read" /\ job[c].op = "merge"
    /\ IF ~job[c].replace /\ HasEntry(file[at[c]], job[c].name)
       THEN Leave(c, "fail")
       ELSE ReadTarget(c)
    /\ UNCHANGED <<vms, files, lock, job, at, left>>

\* WriteFileAtomic: a rename.
MergeWrite(c) ==
    /\ pc[c] = "write" /\ job[c].op = "merge"
    /\ file' = [file EXCEPT ![at[c]] =
                    Merged(doc[c], job[c].name, ver[c], job[c].set)]
    /\ present' = present \cup {at[c]}
    /\ Leave(c, "unlock")
    /\ UNCHANGED <<vms, lock, job, at, left>>

\* A missing file is passed over without a lock.
UnmergeNext(c) ==
    /\ pc[c] = "next"
    /\ \E p \in left[c] :
          /\ \A q \in left[c] : p <= q
          /\ left' = [left EXCEPT ![c] = @ \ {p}]
          /\ IF p \in present
             THEN at' = [at EXCEPT ![c] = p] /\ Goto(c, "lock")
             ELSE UNCHANGED <<at, pc>>
    /\ UNCHANGED <<vms, files, lock, job, read>>

\* Mutant: entries that other contexts use are removed all the same.
UnmergeRead_Unchecked(c) ==
    /\ pc[c] = "read" /\ job[c].op # "merge"
    /\ ReadTarget(c)
    /\ UNCHANGED <<vms, files, lock, job, at, left>>

\* Nothing is written when there is nothing to remove.
UnmergeRead(c) ==
    /\ pc[c] = "read" /\ job[c].op # "merge"
    /\ LET d == file[at[c]]
           n == job[c].name
       IN  IF ReferencedByOther(d, n) THEN Leave(c, "fail")
           ELSE IF Unmerged(d, n) = d THEN Leave(c, "unlock")
           ELSE ReadTarget(c)
    /\ UNCHANGED <<vms, files, lock, job, at, left>>

UnmergeWrite(c) ==
    /\ pc[c] = "write" /\ job[c].op # "merge"
    /\ file' = [file EXCEPT ![at[c]] = Unmerged(doc[c], job[c].name)]
    /\ Leave(c, "unlock")
    /\ UNCHANGED <<vms, present, lock, job, at, left>>

\* After the last file; a delete removes the VM directory now.
UnmergeDone(c) ==
    /\ pc[c] = "next" /\ left[c] = {}
    /\ vm' = IF job[c].op = "delete"
             THEN [vm EXCEPT ![job[c].name] = "absent"] ELSE vm
    /\ Return(c)
    /\ UNCHANGED <<made, files, lock>>

-----------------------------------------------------------------------------
(* Around these commands *)

\* A start generates the VM's kubeconfig anew, with another port.
VMStart(n) ==
    /\ vm[n] # "running"
    /\ vm' = [vm EXCEPT ![n] = "running"]
    /\ \E v \in 1..MaxStarts :
          /\ \A m \in Name : made[m] < v
          /\ \E m \in Name : made[m] + 1 = v
          /\ made' = [made EXCEPT ![n] = v]
    /\ UNCHANGED <<files, lock, cmd>>

\* A stop, or a delete that leaves the kubeconfig files alone.
VMStop(n) ==
    /\ \/ vm[n] = "running" /\ vm' = [vm EXCEPT ![n] = "stopped"]
       \/ vm[n] # "absent"  /\ vm' = [vm EXCEPT ![n] = "absent"]
    /\ UNCHANGED <<made, files, lock, cmd>>

\* kubectl takes the same lock for the time of its edit.
UserEdit(p) ==
    /\ lock[p] = Free
    /\ \E d \in UserEdits(file[p]) : file' = [file EXCEPT ![p] = d]
    /\ present' = present \cup {p}
    /\ UNCHANGED <<vms, lock, cmd>>

\* A stale lock file stays until the user removes it by hand.
UserUnlock(p) ==
    /\ lock[p] = Stale
    /\ lock' = [lock EXCEPT ![p] = Free]
    /\ UNCHANGED <<vms, files, cmd>>

\* The lock file of a killed command stays.
CliCrash(c) ==
    /\ pc[c] # "idle"
    /\ lock' = [p \in Path |-> IF lock[p] = c THEN Stale ELSE lock[p]]
    /\ Return(c)
    /\ UNCHANGED <<vms, files>>

Begin(c) == \E n \in Name : MergeBegin(c, n) \/ UnmergeBegin(c, n) \/ DeleteBegin(c, n)

Step(c) ==
    \/ Lock(c) \/ LockFail(c) \/ Unlock(c) \/ Fail(c)
    \/ MergeSource(c) \/ MergeRead(c) \/ MergeWrite(c)
    \/ UnmergeNext(c) \/ UnmergeRead(c) \/ UnmergeWrite(c) \/ UnmergeDone(c)

Next ==
    \/ \E c \in Cli : Begin(c) \/ Step(c) \/ CliCrash(c)
    \/ \E n \in Name : VMStart(n) \/ VMStop(n)
    \/ \E p \in Path : UserEdit(p) \/ UserUnlock(p)

Spec == Init /\ [][Next]_vars

-----------------------------------------------------------------------------
(* Properties *)

\* Overlapping and killed commands change a kubeconfig file only by whole
\* merges and unmerges of what it holds: KubeconfigStore is implemented.
Store == INSTANCE KubeconfigStore WITH file <- file, made <- made
StoreSpec == Store!Spec

\* A lock file belongs to a command that is between its creation and its
\* removal, or to one that was killed: no return leaves it behind.
NoLeakedLock ==
    \A p \in Path : lock[p] \in Cli => /\ pc[lock[p]] \in Critical
                                       /\ at[lock[p]] = p

Versions(d, n) == {x.ver : x \in {y \in d.parts : y.name = n}}

\* An entry is never replaced by an older version of it: the source is read
\* under the lock, so of two merges the later one has the later source.
EntryNeverOlder ==
    [][\A p \in Path, n \in Name :
          \A v \in Versions(file[p], n), w \in Versions(file[p], n)' : v <= w]_vars

\* No step takes away an entry that a context of the user's in the same file
\* uses, even when the user adds that context while an unmerge is under way.
ReferencesStay ==
    [][\A p \in Path, n \in Name :
          ReferencedByOther(file[p], n) /\ HasEntry(file[p], n)
              => HasEntry(file[p], n)']_vars
=============================================================================
