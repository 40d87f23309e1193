----------------------- MODULE KubeconfigMerge_proofs -----------------------
(***************************************************************************)
(* Theorems of KubeconfigMerge, for any commands, files and VMs: no lock   *)
(* file is left behind by a command that returns, and the kubeconfig files *)
(* behave as KubeconfigStore promises.                                     *)
(***************************************************************************)
EXTENDS KubeconfigMerge, TLAPS

Busy(c) == pc[c] # "idle"

\* A command in flight knows its operation and its VM, and its file from the
\* lock on.
Placed ==
    \A c \in Cli :
        /\ Busy(c) => job[c].op # "none" /\ job[c].name \in Name
        /\ pc[c] \in Critical \cup {"lock"} => at[c] \in Path

\* The lock file of the file a command works on is its own.
Locked == \A c \in Cli : pc[c] \in Critical => lock[at[c]] = c

\* What a command under its lock has read still is what the file holds, and
\* what it has checked still is true.
UpToDate ==
    \A c \in Cli :
        /\ pc[c] \in {"read", "write"} /\ job[c].op = "merge"
              => ver[c] <= made[job[c].name]
        /\ pc[c] = "write" =>
              /\ doc[c] = file[at[c]]
              /\ job[c].op = "merge"
                    => job[c].replace \/ ~HasEntry(doc[c], job[c].name)
              /\ job[c].op # "merge" => ~ReferencedByOther(doc[c], job[c].name)

LockInv == TypeOK /\ Placed /\ NoLeakedLock /\ Locked /\ UpToDate

-----------------------------------------------------------------------------
(* Documents *)

LEMMA EmptyType == Empty \in Document
  BY DEF Empty, Document

\* A merge and an unmerge write documents.
LEMMA MergedType ==
  ASSUME NEW d \in Document, NEW n \in Name, NEW v \in Nat, NEW set \in BOOLEAN
  PROVE  Merged(d, n, v, set) \in Document
  <1>1. Source(n, v) \subseteq Part
    BY DEF Source, Part, Kinds
  <1>2. RemoveEntry(d, n) \in Document
    BY DEF RemoveEntry, Document
  <1>3. AppendEntry(RemoveEntry(d, n), n, v) \in Document
    BY <1>1, <1>2 DEF AppendEntry, Document
  <1>4. QED
    BY <1>3 DEF Merged, Document

LEMMA UnmergedType ==
  ASSUME NEW d \in Document, NEW n \in Name
  PROVE  Unmerged(d, n) \in Document
  BY DEF Unmerged, RemoveEntry, Document

LEMMA EditType ==
  ASSUME NEW d \in Document, NEW e \in UserEdits(d)
  PROVE  e \in Document
  <1>1. CASE e \in {[d EXCEPT !.current = x.name] :
                        x \in {y \in d.parts : y.kind = "context"}}
    BY <1>1 DEF Document, Part
  <1>2. CASE e \in {[d EXCEPT !.parts = @ \cup {x}] :
                x \in [kind : {"context"}, name : Own, ver : {0},
                       uses : {{n} : n \in Name}]}
    <2>1. PICK x \in [kind : {"context"}, name : Own, ver : {0},
                      uses : {{n} : n \in Name}] :
              e = [d EXCEPT !.parts = @ \cup {x}]
      BY <1>2
    <2>2. x \in Part
      BY <2>1 DEF Part, Kinds
    <2>3. QED
      BY <2>1, <2>2 DEF Document
  <1>3. QED
    BY <1>1, <1>2 DEF UserEdits

-----------------------------------------------------------------------------
(* The invariant *)

LEMMA InitInv == Init => LockInv
  <1> SUFFICES ASSUME Init PROVE LockInv
    OBVIOUS
  <1>1. TypeOK
    BY EmptyType, MergeConstants DEF Init, TypeOK, Job, NoJob
  <1>2. Placed /\ NoLeakedLock /\ Locked /\ UpToDate
    BY MergeConstants
    DEF Init, Placed, Busy, NoLeakedLock, Locked, UpToDate, Critical
  <1>3. QED
    BY <1>1, <1>2 DEF LockInv

\* Leaving or returning keeps the types of a command's memory.
LEMMA LeaveType ==
  ASSUME NEW c \in Cli, TypeOK, NEW s \in {"idle", "next", "lock"} \cup Critical,
         Leave(c, s)
  PROVE  /\ pc' \in [Cli -> {"idle", "next", "lock"} \cup Critical]
         /\ ver' \in [Cli -> Nat]
         /\ doc' \in [Cli -> Document]
  BY EmptyType DEF TypeOK, Leave, Goto

LEMMA ReturnType ==
  ASSUME NEW c \in Cli, TypeOK, Return(c)
  PROVE  /\ pc' \in [Cli -> {"idle", "next", "lock"} \cup Critical]
         /\ job' \in [Cli -> Job]
         /\ at' \in [Cli -> Path \cup {NoPath}]
         /\ left' \in [Cli -> SUBSET Path]
         /\ ver' \in [Cli -> Nat]
         /\ doc' \in [Cli -> Document]
  BY LeaveType DEF TypeOK, Return, Job, NoJob

LEMMA ReadType ==
  ASSUME NEW c \in Cli, TypeOK, at[c] \in Path, ReadTarget(c)
  PROVE  /\ pc' \in [Cli -> {"idle", "next", "lock"} \cup Critical]
         /\ ver' \in [Cli -> Nat]
         /\ doc' \in [Cli -> Document]
  BY DEF TypeOK, ReadTarget, Goto, Critical

LEMMA TypeStep == TypeOK /\ Placed /\ [Next]_vars => TypeOK'
  <1> SUFFICES ASSUME TypeOK, Placed, [Next]_vars PROVE TypeOK'
    OBVIOUS
  <1> USE DEF vms, files, read, cmd
  <1>1. ASSUME NEW c \in Cli, NEW n \in Name, MergeBegin(c, n) PROVE TypeOK'
    <2>1. at' \in [Cli -> Path \cup {NoPath}]
      <3>1. PICK S \in Candidates : \E p \in S :
                    IsTarget(p, S) /\ at' = [at EXCEPT ![c] = p]
        BY <1>1 DEF MergeBegin
      <3>2. S \subseteq Path
        BY <3>1 DEF Candidates
      <3>3. QED
        BY <3>1, <3>2 DEF TypeOK
    <2>2. job' \in [Cli -> Job]
      BY <1>1 DEF MergeBegin, Take, TypeOK, Job
    <2>3. QED
      BY <1>1, <2>1, <2>2 DEF MergeBegin, TypeOK, Goto, Critical
  <1>2. ASSUME NEW c \in Cli, NEW n \in Name, UnmergeBegin(c, n) PROVE TypeOK'
    <2>1. left' \in [Cli -> SUBSET Path]
      BY <1>2 DEF UnmergeBegin, TypeOK, Candidates
    <2>2. job' \in [Cli -> Job]
      BY <1>2 DEF UnmergeBegin, Take, TypeOK, Job
    <2>3. QED
      BY <1>2, <2>1, <2>2 DEF UnmergeBegin, TypeOK, Goto
  <1>3. ASSUME NEW c \in Cli, NEW n \in Name, DeleteBegin(c, n) PROVE TypeOK'
    <2>1. left' \in [Cli -> SUBSET Path]
      BY <1>3 DEF DeleteBegin, TypeOK
    <2>2. job' \in [Cli -> Job]
      BY <1>3 DEF DeleteBegin, Take, TypeOK, Job
    <2>3. QED
      BY <1>3, <2>1, <2>2 DEF DeleteBegin, TypeOK, Goto
  <1>4. ASSUME NEW c \in Cli, Lock(c) PROVE TypeOK'
    BY <1>4 DEF Lock, TypeOK, Goto, Critical
  <1>5. ASSUME NEW c \in Cli, LockFail(c) PROVE TypeOK'
    BY <1>5, ReturnType DEF LockFail, TypeOK
  <1>6. ASSUME NEW c \in Cli, Unlock(c) PROVE TypeOK'
    <2>1. lock' \in [Path -> Cli \cup {Free, Stale}]
      BY <1>6 DEF Unlock, TypeOK
    <2>2. CASE Return(c)
      BY <1>6, <2>1, <2>2, ReturnType DEF Unlock, TypeOK
    <2>3. CASE Goto(c, "next") /\ UNCHANGED <<job, at, left, read>>
      BY <1>6, <2>1, <2>3 DEF Unlock, TypeOK, Goto
    <2>4. QED
      BY <1>6, <2>2, <2>3 DEF Unlock
  <1>7. ASSUME NEW c \in Cli, Fail(c) PROVE TypeOK'
    <2>1. Leave(c, "fail")
      BY <1>7 DEF Fail
    <2>2. QED
      BY <1>7, <2>1, LeaveType DEF Fail, TypeOK, Critical
  <1>8. ASSUME NEW c \in Cli, MergeSource(c) PROVE TypeOK'
    BY <1>8 DEF MergeSource, TypeOK, Placed, Busy, Goto, Critical
  <1>9. ASSUME NEW c \in Cli, MergeRead(c) PROVE TypeOK'
    <2>1. at[c] \in Path
      BY <1>9 DEF MergeRead, Placed, Critical
    <2>2. Leave(c, "fail") \/ ReadTarget(c)
      BY <1>9 DEF MergeRead
    <2>3. QED
      BY <1>9, <2>1, <2>2, LeaveType, ReadType DEF MergeRead, TypeOK, Critical
  <1>10. ASSUME NEW c \in Cli, MergeWrite(c) PROVE TypeOK'
    <2>1. at[c] \in Path /\ job[c].name \in Name
      BY <1>10 DEF MergeWrite, Placed, Busy, Critical
    <2>2. Merged(doc[c], job[c].name, ver[c], job[c].set) \in Document
      BY <2>1, MergedType DEF TypeOK, Job
    <2>3. file' \in [Path -> Document] /\ present' \subseteq Path
      BY <1>10, <2>1, <2>2 DEF MergeWrite, TypeOK
    <2>4. Leave(c, "unlock")
      BY <1>10 DEF MergeWrite
    <2>5. QED
      BY <1>10, <2>3, <2>4, LeaveType DEF MergeWrite, TypeOK, Critical
  <1>11. ASSUME NEW c \in Cli, UnmergeNext(c) PROVE TypeOK'
    BY <1>11 DEF UnmergeNext, TypeOK, Goto
  <1>12. ASSUME NEW c \in Cli, UnmergeRead(c) PROVE TypeOK'
    <2>1. at[c] \in Path
      BY <1>12 DEF UnmergeRead, Placed, Critical
    <2>2. Leave(c, "fail") \/ Leave(c, "unlock") \/ ReadTarget(c)
      BY <1>12 DEF UnmergeRead
    <2>3. QED
      BY <1>12, <2>1, <2>2, LeaveType, ReadType DEF UnmergeRead, TypeOK, Critical
  <1>13. ASSUME NEW c \in Cli, UnmergeWrite(c) PROVE TypeOK'
    <2>1. at[c] \in Path /\ job[c].name \in Name
      BY <1>13 DEF UnmergeWrite, Placed, Busy, Critical
    <2>2. Unmerged(doc[c], job[c].name) \in Document
      BY <2>1, UnmergedType DEF TypeOK
    <2>3. file' \in [Path -> Document]
      BY <1>13, <2>1, <2>2 DEF UnmergeWrite, TypeOK
    <2>4. Leave(c, "unlock")
      BY <1>13 DEF UnmergeWrite
    <2>5. QED
      BY <1>13, <2>3, <2>4, LeaveType DEF UnmergeWrite, TypeOK, Critical
  <1>14. ASSUME NEW c \in Cli, UnmergeDone(c) PROVE TypeOK'
    <2>1. vm' \in [Name -> {"absent", "stopped", "running"}]
      BY <1>14 DEF UnmergeDone, TypeOK
    <2>2. QED
      BY <1>14, <2>1, ReturnType DEF UnmergeDone, TypeOK
  <1>15. ASSUME NEW c \in Cli, CliCrash(c) PROVE TypeOK'
    <2>1. lock' \in [Path -> Cli \cup {Free, Stale}]
      BY <1>15 DEF CliCrash, TypeOK
    <2>2. QED
      BY <1>15, <2>1, ReturnType DEF CliCrash, TypeOK
  <1>16. ASSUME NEW n \in Name, VMStart(n) PROVE TypeOK'
    BY <1>16, MergeConstants DEF VMStart, TypeOK
  <1>17. ASSUME NEW n \in Name, VMStop(n) PROVE TypeOK'
    BY <1>17 DEF VMStop, TypeOK
  <1>18. ASSUME NEW p \in Path, UserEdit(p) PROVE TypeOK'
    <2>1. file' \in [Path -> Document]
      BY <1>18, EditType DEF UserEdit, TypeOK
    <2>2. QED
      BY <1>18, <2>1 DEF UserEdit, TypeOK
  <1>19. ASSUME NEW p \in Path, UserUnlock(p) PROVE TypeOK'
    BY <1>19 DEF UserUnlock, TypeOK
  <1>20. CASE UNCHANGED vars
    BY <1>20 DEF vars, TypeOK
  <1>21. QED
    BY <1>1, <1>2, <1>3, <1>4, <1>5, <1>6, <1>7, <1>8, <1>9, <1>10, <1>11,
       <1>12, <1>13, <1>14, <1>15, <1>16, <1>17, <1>18, <1>19, <1>20
    DEF Next, Begin, Step

\* An operation gets its VM with its first step and its file before the lock.
LEMMA PlacedStep == TypeOK /\ Placed /\ [Next]_vars => Placed'
  <1> SUFFICES ASSUME TypeOK, Placed, [Next]_vars PROVE Placed'
    OBVIOUS
  <1> USE DEF vms, files, read, cmd, Placed, Busy, TypeOK, Critical
  <1>1. ASSUME NEW c \in Cli, NEW n \in Name, MergeBegin(c, n) PROVE Placed'
    <2>1. at'[c] \in Path
      <3>1. PICK S \in Candidates : \E p \in S :
                    IsTarget(p, S) /\ at' = [at EXCEPT ![c] = p]
        BY <1>1 DEF MergeBegin
      <3>2. S \subseteq Path
        BY <3>1 DEF Candidates
      <3>3. QED
        BY <3>1, <3>2
    <2>2. \A d \in Cli \ {c} : at'[d] = at[d]
      BY <1>1 DEF MergeBegin
    <2>3. QED
      BY <1>1, <2>1, <2>2 DEF MergeBegin, Take, Goto
  <1>2. ASSUME NEW c \in Cli, NEW n \in Name, UnmergeBegin(c, n) PROVE Placed'
    BY <1>2 DEF UnmergeBegin, Take, Goto
  <1>3. ASSUME NEW c \in Cli, NEW n \in Name, DeleteBegin(c, n) PROVE Placed'
    BY <1>3 DEF DeleteBegin, Take, Goto
  <1>4. ASSUME NEW c \in Cli, Lock(c) PROVE Placed'
    BY <1>4 DEF Lock, Goto
  <1>5. ASSUME NEW c \in Cli, LockFail(c) PROVE Placed'
    BY <1>5 DEF LockFail, Return, Leave, Goto
  <1>6. ASSUME NEW c \in Cli, Unlock(c) PROVE Placed'
    BY <1>6 DEF Unlock, Return, Leave, Goto
  <1>7. ASSUME NEW c \in Cli, Fail(c) PROVE Placed'
    BY <1>7 DEF Fail, Leave, Goto
  <1>8. ASSUME NEW c \in Cli, MergeSource(c) PROVE Placed'
    BY <1>8 DEF MergeSource, Goto
  <1>9. ASSUME NEW c \in Cli, MergeRead(c) PROVE Placed'
    BY <1>9 DEF MergeRead, ReadTarget, Leave, Goto
  <1>10. ASSUME NEW c \in Cli, MergeWrite(c) PROVE Placed'
    BY <1>10 DEF MergeWrite, Leave, Goto
  <1>11. ASSUME NEW c \in Cli, UnmergeNext(c) PROVE Placed'
    BY <1>11 DEF UnmergeNext, Goto
  <1>12. ASSUME NEW c \in Cli, UnmergeRead(c) PROVE Placed'
    BY <1>12 DEF UnmergeRead, ReadTarget, Leave, Goto
  <1>13. ASSUME NEW c \in Cli, UnmergeWrite(c) PROVE Placed'
    BY <1>13 DEF UnmergeWrite, Leave, Goto
  <1>14. ASSUME NEW c \in Cli, UnmergeDone(c) PROVE Placed'
    BY <1>14 DEF UnmergeDone, Return, Leave, Goto
  <1>15. ASSUME NEW c \in Cli, CliCrash(c) PROVE Placed'
    BY <1>15 DEF CliCrash, Return, Leave, Goto
  <1>16. ASSUME NEW n \in Name, VMStart(n) \/ VMStop(n) PROVE Placed'
    BY <1>16 DEF VMStart, VMStop
  <1>17. ASSUME NEW p \in Path, UserEdit(p) \/ UserUnlock(p) PROVE Placed'
    BY <1>17 DEF UserEdit, UserUnlock
  <1>18. CASE UNCHANGED vars
    BY <1>18 DEF vars
  <1>19. QED
    BY <1>1, <1>2, <1>3, <1>4, <1>5, <1>6, <1>7, <1>8, <1>9, <1>10, <1>11,
       <1>12, <1>13, <1>14, <1>15, <1>16, <1>17, <1>18
    DEF Next, Begin, Step

\* A lock file is created for, and removed by, the command that works on its
\* file; only a killed command leaves one behind, and not in its own name.
LEMMA LockStep ==
    TypeOK /\ Placed /\ NoLeakedLock /\ Locked /\ [Next]_vars
        => NoLeakedLock' /\ Locked'
  <1> SUFFICES ASSUME TypeOK, Placed, NoLeakedLock, Locked, [Next]_vars
               PROVE  NoLeakedLock' /\ Locked'
    OBVIOUS
  <1> USE MergeConstants
      DEF vms, files, read, cmd, NoLeakedLock, Locked, TypeOK, Critical
  <1>1. ASSUME NEW c \in Cli, NEW n \in Name,
               MergeBegin(c, n) \/ UnmergeBegin(c, n) \/ DeleteBegin(c, n)
        PROVE  NoLeakedLock' /\ Locked'
    <2>1. /\ pc[c] = "idle" /\ pc'[c] \in {"lock", "next"}
          /\ \A d \in Cli \ {c} : pc'[d] = pc[d] /\ at'[d] = at[d]
          /\ UNCHANGED lock
      <3>1. CASE MergeBegin(c, n)
        <4>1. PICK p \in Path \cup {NoPath} : at' = [at EXCEPT ![c] = p]
          <5>1. PICK S \in Candidates : \E p \in S :
                        IsTarget(p, S) /\ at' = [at EXCEPT ![c] = p]
            BY <3>1 DEF MergeBegin
          <5>2. S \subseteq Path
            BY <5>1 DEF Candidates
          <5>3. QED
            BY <5>1, <5>2
        <4>2. pc[c] = "idle" /\ pc' = [pc EXCEPT ![c] = "lock"] /\ UNCHANGED lock
          BY <3>1 DEF MergeBegin, Goto
        <4>3. QED
          BY <4>1, <4>2
      <3>2. CASE UnmergeBegin(c, n)
        BY <3>2 DEF UnmergeBegin, Goto
      <3>3. CASE DeleteBegin(c, n)
        BY <3>3 DEF DeleteBegin, Goto
      <3>4. QED
        BY <1>1, <3>1, <3>2, <3>3
    <2>2. QED
      BY <2>1
  <1>2. ASSUME NEW c \in Cli, Lock(c) PROVE NoLeakedLock' /\ Locked'
    <2>1. at[c] \in Path
      BY <1>2 DEF Lock, Placed
    <2>2. QED
      BY <1>2, <2>1 DEF Lock, Goto
  <1>3. ASSUME NEW c \in Cli, LockFail(c) PROVE NoLeakedLock' /\ Locked'
    BY <1>3 DEF LockFail, Return, Leave, Goto
  <1>4. ASSUME NEW c \in Cli, Unlock(c) PROVE NoLeakedLock' /\ Locked'
    <2>1. at[c] \in Path /\ lock[at[c]] = c
      BY <1>4 DEF Unlock, Placed
    <2>2. /\ pc' \in [Cli -> {"idle", "next", "lock"} \cup Critical]
          /\ pc'[c] \in {"idle", "next"}
          /\ \A d \in Cli \ {c} : pc'[d] = pc[d] /\ at'[d] = at[d]
          /\ lock' = [lock EXCEPT ![at[c]] = Free]
      BY <1>4 DEF Unlock, Return, Leave, Goto
    <2>3. \A d \in Cli \ {c} : pc[d] \in Critical => at[d] # at[c]
      BY <2>1
    <2>4. Locked'
      BY <2>1, <2>2, <2>3 DEF Placed
    <2>5. NoLeakedLock'
      <3> SUFFICES ASSUME NEW p \in Path, lock'[p] \in Cli
                   PROVE  pc'[lock'[p]] \in Critical /\ at'[lock'[p]] = p
        OBVIOUS
      <3>1. p # at[c] /\ lock'[p] = lock[p]
        BY <2>1, <2>2
      <3>2. lock[p] # c
        BY <3>1
      <3>3. QED
        BY <2>2, <3>1, <3>2
    <2>6. QED
      BY <2>4, <2>5
  <1>5. ASSUME NEW c \in Cli, Fail(c) PROVE NoLeakedLock' /\ Locked'
    BY <1>5 DEF Fail, Leave, Goto
  <1>6. ASSUME NEW c \in Cli, MergeSource(c) PROVE NoLeakedLock' /\ Locked'
    BY <1>6 DEF MergeSource, Goto
  <1>7. ASSUME NEW c \in Cli, MergeRead(c) PROVE NoLeakedLock' /\ Locked'
    BY <1>7 DEF MergeRead, ReadTarget, Leave, Goto
  <1>8. ASSUME NEW c \in Cli, MergeWrite(c) PROVE NoLeakedLock' /\ Locked'
    BY <1>8 DEF MergeWrite, Leave, Goto
  <1>9. ASSUME NEW c \in Cli, UnmergeNext(c) PROVE NoLeakedLock' /\ Locked'
    <2>1. /\ pc[c] = "next" /\ pc'[c] \in {"next", "lock"}
          /\ \A d \in Cli \ {c} : pc'[d] = pc[d] /\ at'[d] = at[d]
          /\ UNCHANGED lock
      BY <1>9 DEF UnmergeNext, Goto
    <2>2. QED
      BY <2>1
  <1>10. ASSUME NEW c \in Cli, UnmergeRead(c) PROVE NoLeakedLock' /\ Locked'
    BY <1>10 DEF UnmergeRead, ReadTarget, Leave, Goto
  <1>11. ASSUME NEW c \in Cli, UnmergeWrite(c) PROVE NoLeakedLock' /\ Locked'
    BY <1>11 DEF UnmergeWrite, Leave, Goto
  <1>12. ASSUME NEW c \in Cli, UnmergeDone(c) PROVE NoLeakedLock' /\ Locked'
    BY <1>12 DEF UnmergeDone, Return, Leave, Goto
  <1>13. ASSUME NEW c \in Cli, CliCrash(c) PROVE NoLeakedLock' /\ Locked'
    <2>1. /\ pc'[c] = "idle"
          /\ \A d \in Cli \ {c} : pc'[d] = pc[d] /\ at'[d] = at[d]
          /\ lock' = [p \in Path |-> IF lock[p] = c THEN Stale ELSE lock[p]]
      BY <1>13 DEF CliCrash, Return, Leave, Goto
    <2>2. QED
      BY <2>1 DEF Placed
  <1>14. ASSUME NEW n \in Name, VMStart(n) \/ VMStop(n)
         PROVE NoLeakedLock' /\ Locked'
    BY <1>14 DEF VMStart, VMStop
  <1>15. ASSUME NEW p \in Path, UserEdit(p) PROVE NoLeakedLock' /\ Locked'
    BY <1>15 DEF UserEdit
  <1>16. ASSUME NEW p \in Path, UserUnlock(p) PROVE NoLeakedLock' /\ Locked'
    BY <1>16 DEF UserUnlock, Placed
  <1>17. CASE UNCHANGED vars
    BY <1>17 DEF vars
  <1>18. QED
    BY <1>1, <1>2, <1>3, <1>4, <1>5, <1>6, <1>7, <1>8, <1>9, <1>10, <1>11,
       <1>12, <1>13, <1>14, <1>15, <1>16, <1>17
    DEF Next, Begin, Step

\* A file with a lock changes only under that lock, and a VM's kubeconfig only
\* gets newer, so what a command has read stays true until it writes.
LEMMA UpToDateStep ==
    TypeOK /\ Placed /\ Locked /\ UpToDate /\ [Next]_vars => UpToDate'
  <1> SUFFICES ASSUME TypeOK, Placed, Locked, UpToDate, [Next]_vars
               PROVE  UpToDate'
    OBVIOUS
  <1> USE MergeConstants DEF vms, files, read, cmd, UpToDate, TypeOK
  <1>1. ASSUME NEW c \in Cli, NEW n \in Name,
               MergeBegin(c, n) \/ UnmergeBegin(c, n) \/ DeleteBegin(c, n)
        PROVE  UpToDate'
    <2>1. /\ pc'[c] \in {"lock", "next"} /\ UNCHANGED <<file, made, ver, doc>>
          /\ \A d \in Cli \ {c} : pc'[d] = pc[d] /\ job'[d] = job[d] /\ at'[d] = at[d]
      <3>1. CASE MergeBegin(c, n)
        <4>1. PICK p \in Path \cup {NoPath} : at' = [at EXCEPT ![c] = p]
          <5>1. PICK S \in Candidates : \E p \in S :
                        IsTarget(p, S) /\ at' = [at EXCEPT ![c] = p]
            BY <3>1 DEF MergeBegin
          <5>2. S \subseteq Path
            BY <5>1 DEF Candidates
          <5>3. QED
            BY <5>1, <5>2
        <4>2. /\ pc' = [pc EXCEPT ![c] = "lock"] /\ UNCHANGED <<file, made, ver, doc>>
          BY <3>1 DEF MergeBegin, Goto
        <4>3. \A d \in Cli \ {c} : job'[d] = job[d]
          BY <3>1 DEF MergeBegin, Take
        <4>4. QED
          BY <4>1, <4>2, <4>3
      <3>2. CASE UnmergeBegin(c, n)
        BY <3>2 DEF UnmergeBegin, Goto, Take
      <3>3. CASE DeleteBegin(c, n)
        BY <3>3 DEF DeleteBegin, Goto, Take
      <3>4. QED
        BY <1>1, <3>1, <3>2, <3>3
    <2>2. QED
      BY <2>1
  <1>2. ASSUME NEW c \in Cli, Lock(c) PROVE UpToDate'
    BY <1>2 DEF Lock, Goto
  <1>3. ASSUME NEW c \in Cli, LockFail(c) PROVE UpToDate'
    BY <1>3 DEF LockFail, Return, Leave, Goto
  <1>4. ASSUME NEW c \in Cli, Unlock(c) PROVE UpToDate'
    <2>1. /\ pc'[c] \in {"idle", "next"} /\ UNCHANGED <<file, made>>
          /\ \A d \in Cli \ {c} : /\ pc'[d] = pc[d] /\ job'[d] = job[d] /\ at'[d] = at[d]
                                  /\ ver'[d] = ver[d] /\ doc'[d] = doc[d]
      BY <1>4 DEF Unlock, Return, Leave, Goto
    <2>2. QED
      BY <2>1
  <1>5. ASSUME NEW c \in Cli, Fail(c) PROVE UpToDate'
    BY <1>5 DEF Fail, Leave, Goto
  <1>6. ASSUME NEW c \in Cli, MergeSource(c) PROVE UpToDate'
    BY <1>6 DEF MergeSource, Goto, Placed, Busy
  <1>7. ASSUME NEW c \in Cli, MergeRead(c) PROVE UpToDate'
    <2>1. at[c] \in Path
      BY <1>7 DEF MergeRead, Placed, Critical
    <2>2. CASE Leave(c, "fail")
      BY <1>7, <2>2 DEF MergeRead, Leave, Goto
    <2>3. CASE /\ ReadTarget(c)
               /\ job[c].replace \/ ~HasEntry(file[at[c]], job[c].name)
      BY <1>7, <2>1, <2>3 DEF MergeRead, ReadTarget, Goto
    <2>4. QED
      BY <1>7, <2>2, <2>3 DEF MergeRead
  <1>8. ASSUME NEW c \in Cli, NEW d \in Document, pc[c] = "write",
               file' = [file EXCEPT ![at[c]] = d], Leave(c, "unlock"),
               UNCHANGED <<vms, lock, job, at>>
        PROVE  UpToDate'
    <2>1. at[c] \in Path /\ lock[at[c]] = c
      BY <1>8 DEF Placed, Locked, Critical
    <2>2. \A e \in Cli \ {c} : pc[e] = "write" => file'[at[e]] = file[at[e]]
      BY <1>8, <2>1 DEF Placed, Locked, Critical
    <2>3. pc'[c] = "unlock"
      BY <1>8 DEF Leave, Goto
    <2>4. \A e \in Cli \ {c} : pc'[e] = pc[e] /\ ver'[e] = ver[e] /\ doc'[e] = doc[e]
      BY <1>8 DEF Leave, Goto
    <2>5. QED
      BY <1>8, <2>2, <2>3, <2>4
  <1>9. ASSUME NEW c \in Cli, MergeWrite(c) PROVE UpToDate'
    <2>1. Merged(doc[c], job[c].name, ver[c], job[c].set) \in Document
      BY <1>9, MergedType DEF MergeWrite, Placed, Busy, Job
    <2>2. QED
      BY <1>8, <1>9, <2>1 DEF MergeWrite
  <1>10. ASSUME NEW c \in Cli, UnmergeNext(c) PROVE UpToDate'
    <2>1. /\ pc'[c] \in {"next", "lock"} /\ UNCHANGED <<file, made, job, ver, doc>>
          /\ \A d \in Cli \ {c} : pc'[d] = pc[d] /\ at'[d] = at[d]
      BY <1>10 DEF UnmergeNext, Goto
    <2>2. QED
      BY <2>1
  <1>11. ASSUME NEW c \in Cli, UnmergeRead(c) PROVE UpToDate'
    <2>1. at[c] \in Path
      BY <1>11 DEF UnmergeRead, Placed, Critical
    <2>2. CASE Leave(c, "fail") \/ Leave(c, "unlock")
      BY <1>11, <2>2 DEF UnmergeRead, Leave, Goto
    <2>3. CASE ReadTarget(c) /\ ~ReferencedByOther(file[at[c]], job[c].name)
      BY <1>11, <2>1, <2>3 DEF UnmergeRead, ReadTarget, Goto
    <2>4. QED
      BY <1>11, <2>2, <2>3 DEF UnmergeRead
  <1>12. ASSUME NEW c \in Cli, UnmergeWrite(c) PROVE UpToDate'
    <2>1. Unmerged(doc[c], job[c].name) \in Document
      BY <1>12, UnmergedType DEF UnmergeWrite, Placed, Busy
    <2>2. QED
      BY <1>8, <1>12, <2>1 DEF UnmergeWrite
  <1>13. ASSUME NEW c \in Cli, UnmergeDone(c) PROVE UpToDate'
    BY <1>13 DEF UnmergeDone, Return, Leave, Goto
  <1>14. ASSUME NEW c \in Cli, CliCrash(c) PROVE UpToDate'
    BY <1>14 DEF CliCrash, Return, Leave, Goto
  <1>15. ASSUME NEW n \in Name, VMStart(n) PROVE UpToDate'
    <2>1. \A m \in Name : made[m] <= made'[m]
      BY <1>15 DEF VMStart
    <2>2. UNCHANGED <<files, lock, cmd>> /\ made' \in [Name -> Nat]
      BY <1>15 DEF VMStart
    <2>3. QED
      BY <2>1, <2>2 DEF Placed, Busy
  <1>16. ASSUME NEW n \in Name, VMStop(n) PROVE UpToDate'
    BY <1>16 DEF VMStop
  <1>17. ASSUME NEW p \in Path, UserEdit(p) PROVE UpToDate'
    <2>1. \A e \in Cli : pc[e] = "write" => at[e] # p
      BY <1>17 DEF UserEdit, Locked, Critical
    <2>2. \A e \in Cli : pc[e] = "write" => file'[at[e]] = file[at[e]]
      BY <1>17, <2>1 DEF UserEdit, Placed, Critical
    <2>3. UNCHANGED <<vms, lock, cmd>>
      BY <1>17 DEF UserEdit
    <2>4. QED
      BY <2>2, <2>3
  <1>18. ASSUME NEW p \in Path, UserUnlock(p) PROVE UpToDate'
    BY <1>18 DEF UserUnlock
  <1>19. CASE UNCHANGED vars
    BY <1>19 DEF vars
  <1>20. QED
    BY <1>1, <1>2, <1>3, <1>4, <1>5, <1>6, <1>7, <1>9, <1>10, <1>11, <1>12,
       <1>13, <1>14, <1>15, <1>16, <1>17, <1>18, <1>19
    DEF Next, Begin, Step

LEMMA Invariance == Spec => []LockInv
  <1>1. LockInv /\ [Next]_vars => LockInv'
    BY TypeStep, PlacedStep, LockStep, UpToDateStep DEF LockInv
  <1>2. QED
    BY InitInv, <1>1, PTL DEF Spec

\* Every variable keeps its type, the documents included.
THEOREM MergeTypes == Spec => []TypeOK
  BY Invariance, PTL DEF LockInv

\* A command that returns, however it returns, leaves no lock file behind.
THEOREM LocksAreReturned == Spec => []NoLeakedLock
  BY Invariance, PTL DEF LockInv

-----------------------------------------------------------------------------
(* KubeconfigStore is implemented *)

\* The operators on documents are the same seen through the instance.
LEMMA SameDocuments ==
  ASSUME NEW d, NEW n, NEW v, NEW set
  PROVE  /\ Store!HasEntry(d, n) = HasEntry(d, n)
         /\ Store!ReferencedByOther(d, n) = ReferencedByOther(d, n)
         /\ Store!Merged(d, n, v, set) = Merged(d, n, v, set)
         /\ Store!Unmerged(d, n) = Unmerged(d, n)
         /\ Store!UserEdits(d) = UserEdits(d)
         /\ Store!Empty = Empty
  BY DEF HasEntry, Store!HasEntry, ReferencedByOther, Store!ReferencedByOther,
         Merged, Store!Merged, Unmerged, Store!Unmerged, RemoveEntry,
         Store!RemoveEntry, AppendEntry, Store!AppendEntry, Source,
         Store!Source, Kinds, Store!Kinds, UserEdits, Store!UserEdits, Empty,
         Store!Empty

LEMMA StoreInit == Init => Store!Init
  BY SameDocuments DEF Init, Store!Init

\* The rename of a merge is a Merge, that of an unmerge an Unmerge; a start
\* generates a kubeconfig, and everything else leaves the files alone.
LEMMA StoreStep == LockInv /\ [Next]_vars => [Store!Next]_(Store!vars)
  <1> SUFFICES ASSUME LockInv, [Next]_vars
               PROVE  Store!Next \/ UNCHANGED <<file, made>>
    BY DEF Store!vars
  <1> USE DEF vms, files
  <1>1. ASSUME NEW c \in Cli, MergeWrite(c) PROVE Store!Next
    <2>1. /\ at[c] \in Path /\ job[c].name \in Name
          /\ job[c].replace \in BOOLEAN /\ job[c].set \in BOOLEAN
      BY <1>1 DEF MergeWrite, LockInv, TypeOK, Job, Placed, Busy, Critical
    <2>2. /\ doc[c] = file[at[c]] /\ ver[c] \in 0..made[job[c].name]
          /\ job[c].replace \/ ~HasEntry(doc[c], job[c].name)
      BY <1>1, <2>1 DEF MergeWrite, LockInv, TypeOK, UpToDate
    <2>3. file' = [file EXCEPT ![at[c]] =
                      Merged(file[at[c]], job[c].name, ver[c], job[c].set)]
      BY <1>1, <2>2 DEF MergeWrite
    <2>4. Store!Merge(at[c], job[c].name, job[c].replace, job[c].set)
      <3>1. job[c].replace \/ ~Store!HasEntry(file[at[c]], job[c].name)
        BY <2>2, SameDocuments
      <3>2. file' = [file EXCEPT ![at[c]] =
                  Store!Merged(file[at[c]], job[c].name, ver[c], job[c].set)]
        BY <2>3, SameDocuments
      <3>3. UNCHANGED made
        BY <1>1 DEF MergeWrite
      <3>4. QED
        BY <2>2, <3>1, <3>2, <3>3 DEF Store!Merge
    <2>5. QED
      BY <2>1, <2>4 DEF Store!Next
  <1>2. ASSUME NEW c \in Cli, UnmergeWrite(c) PROVE Store!Next
    <2>1. at[c] \in Path /\ job[c].name \in Name
      BY <1>2 DEF UnmergeWrite, LockInv, Placed, Busy, Critical
    <2>2. doc[c] = file[at[c]] /\ ~ReferencedByOther(doc[c], job[c].name)
      BY <1>2 DEF UnmergeWrite, LockInv, UpToDate
    <2>3. Store!Unmerge(at[c], job[c].name)
      BY <1>2, <2>2, SameDocuments DEF UnmergeWrite, Store!Unmerge
    <2>4. QED
      BY <2>1, <2>3 DEF Store!Next
  <1>3. ASSUME NEW p \in Path, UserEdit(p) PROVE Store!Next
    <2>1. Store!UserEdit(p)
      BY <1>3, SameDocuments DEF UserEdit, Store!UserEdit
    <2>2. QED
      BY <2>1 DEF Store!Next
  <1>4. ASSUME NEW n \in Name, VMStart(n) PROVE Store!Next
    <2>1. Store!Generate(n)
      BY <1>4, MergeConstants DEF VMStart, LockInv, TypeOK, Store!Generate
    <2>2. QED
      BY <2>1 DEF Store!Next
  <1>5. ASSUME NEW c \in Cli, Begin(c) PROVE UNCHANGED <<file, made>>
    BY <1>5 DEF Begin, MergeBegin, UnmergeBegin, DeleteBegin
  <1>6. ASSUME NEW c \in Cli, Step(c) PROVE Store!Next \/ UNCHANGED <<file, made>>
    <2>1. CASE MergeWrite(c) \/ UnmergeWrite(c)
      BY <1>1, <1>2, <2>1
    <2>2. CASE \/ Lock(c) \/ LockFail(c) \/ Unlock(c) \/ Fail(c)
               \/ MergeSource(c) \/ MergeRead(c) \/ UnmergeNext(c)
               \/ UnmergeRead(c) \/ UnmergeDone(c)
      BY <2>2 DEF Lock, LockFail, Unlock, Fail, MergeSource, MergeRead,
                  UnmergeNext, UnmergeRead, UnmergeDone
    <2>3. QED
      BY <1>6, <2>1, <2>2 DEF Step
  <1>7. ASSUME NEW c \in Cli, CliCrash(c) PROVE UNCHANGED <<file, made>>
    BY <1>7 DEF CliCrash
  <1>8. ASSUME NEW n \in Name, VMStop(n) PROVE UNCHANGED <<file, made>>
    BY <1>8 DEF VMStop
  <1>9. ASSUME NEW p \in Path, UserUnlock(p) PROVE UNCHANGED <<file, made>>
    BY <1>9 DEF UserUnlock
  <1>10. CASE UNCHANGED vars
    BY <1>10 DEF vars
  <1>11. QED
    BY <1>3, <1>4, <1>5, <1>6, <1>7, <1>8, <1>9, <1>10 DEF Next

\* Merges and unmerges are atomic, however many commands overlap and wherever
\* they are killed: no change of a kubeconfig file is lost or half done.
THEOREM MergeImplementsStore == Spec => StoreSpec
  BY Invariance, StoreInit, StoreStep, PTL DEF Spec, StoreSpec, Store!Spec

-----------------------------------------------------------------------------
(* Sources under the lock *)

\* No file holds an entry newer than the VM's last kubeconfig, and the source
\* a merge has read under its lock is not older than what the file holds.
NotNewer ==
    /\ \A p \in Path, n \in Name : \A v \in Versions(file[p], n) : v <= made[n]
    /\ \A c \in Cli : pc[c] \in {"read", "write"} /\ job[c].op = "merge" =>
          \A v \in Versions(file[at[c]], job[c].name) : v <= ver[c]

\* A merge sets the version of its own entry and of no other.
LEMMA MergedVersions ==
  ASSUME NEW d \in Document, NEW n \in Name, NEW v \in Nat, NEW set \in BOOLEAN,
         NEW m \in Name
  PROVE  Versions(Merged(d, n, v, set), m) \subseteq
            IF m = n THEN {v} ELSE Versions(d, m)
  <1>1. Merged(d, n, v, set).parts = {x \in d.parts : x.name # n} \cup Source(n, v)
    BY DEF Merged, AppendEntry, RemoveEntry, Document
  <1>2. \A x \in Source(n, v) : x.name = n /\ x.ver = v
    BY DEF Source
  <1>3. QED
    BY <1>1, <1>2 DEF Versions

LEMMA UnmergedVersions ==
  ASSUME NEW d \in Document, NEW n \in Name, NEW m \in Name
  PROVE  Versions(Unmerged(d, n), m) \subseteq Versions(d, m)
  <1>1. Unmerged(d, n).parts \subseteq d.parts
    BY DEF Unmerged, RemoveEntry, Document
  <1>2. QED
    BY <1>1 DEF Versions

LEMMA EditVersions ==
  ASSUME NEW d \in Document, NEW e \in UserEdits(d), NEW m \in Name
  PROVE  Versions(e, m) \subseteq Versions(d, m)
  <1>1. CASE e \in {[d EXCEPT !.current = x.name] :
                        x \in {y \in d.parts : y.kind = "context"}}
    <2>1. e.parts = d.parts
      BY <1>1 DEF Document
    <2>2. QED
      BY <2>1 DEF Versions
  <1>2. CASE e \in {[d EXCEPT !.parts = @ \cup {x}] :
                x \in [kind : {"context"}, name : Own, ver : {0},
                       uses : {{n} : n \in Name}]}
    <2>1. PICK x \in [kind : {"context"}, name : Own, ver : {0},
                      uses : {{n} : n \in Name}] :
              e = [d EXCEPT !.parts = @ \cup {x}]
      BY <1>2
    <2>2. x.name # m
      BY <2>1, DocumentConstants
    <2>3. e.parts = d.parts \cup {x}
      BY <2>1 DEF Document
    <2>4. QED
      BY <2>2, <2>3 DEF Versions
  <1>3. QED
    BY <1>1, <1>2 DEF UserEdits

\* A step either leaves a file alone, or the user edits it, or the command
\* that holds its lock writes it.
LEMMA FileStep ==
  ASSUME LockInv, [Next]_vars
  PROVE  \/ UNCHANGED file
         \/ \E p \in Path : /\ lock[p] = Free
                            /\ \E d \in UserEdits(file[p]) :
                                  file' = [file EXCEPT ![p] = d]
                            /\ UNCHANGED <<vms, lock, cmd>>
         \/ \E c \in Cli : MergeWrite(c) \/ UnmergeWrite(c)
  <1> USE DEF vms, files
  <1>1. ASSUME NEW c \in Cli, Begin(c) PROVE UNCHANGED file
    BY <1>1 DEF Begin, MergeBegin, UnmergeBegin, DeleteBegin
  <1>2. ASSUME NEW c \in Cli, Step(c)
        PROVE  UNCHANGED file \/ MergeWrite(c) \/ UnmergeWrite(c)
    BY <1>2 DEF Step, Lock, LockFail, Unlock, Fail, MergeSource, MergeRead,
                UnmergeNext, UnmergeRead, UnmergeDone
  <1>3. ASSUME NEW c \in Cli, CliCrash(c) PROVE UNCHANGED file
    BY <1>3 DEF CliCrash
  <1>4. ASSUME NEW n \in Name, VMStart(n) \/ VMStop(n) PROVE UNCHANGED file
    BY <1>4 DEF VMStart, VMStop
  <1>5. ASSUME NEW p \in Path, UserUnlock(p) PROVE UNCHANGED file
    BY <1>5 DEF UserUnlock
  <1>6. CASE UNCHANGED vars
    BY <1>6 DEF vars
  <1>7. QED
    BY <1>1, <1>2, <1>3, <1>4, <1>5, <1>6 DEF Next, UserEdit

\* A step that leaves the files alone may restart a VM, which makes its
\* kubeconfig newer, or read a source, which is the newest there is.
LEMMA NotNewerRead ==
  ASSUME LockInv, NotNewer, [Next]_vars, UNCHANGED file
  PROVE  NotNewer'
  <1> USE DEF vms, files, read, cmd, NotNewer
  <1>1. ASSUME \A n \in Name : made'[n] \in Nat /\ made[n] <= made'[n],
               \A c \in Cli : pc'[c] \in {"read", "write"} /\ job'[c].op = "merge" =>
                  \/ /\ pc[c] \in {"read", "write"} /\ UNCHANGED <<job[c], at[c], ver[c]>>
                  \/ /\ at'[c] \in Path /\ job'[c].name \in Name
                     /\ ver'[c] = made[job'[c].name]
        PROVE  NotNewer'
    <2>1. ASSUME NEW p \in Path, NEW n \in Name, NEW v \in Versions(file[p], n)
          PROVE  v \in Nat /\ v <= made[n]
      BY <2>1 DEF LockInv, TypeOK, Versions, Document, Part
    <2>2. ASSUME NEW p \in Path, NEW n \in Name, NEW v \in Versions(file[p], n)
          PROVE  v <= made'[n]
      BY <1>1, <2>1, <2>2 DEF LockInv, TypeOK
    <2>3. ASSUME NEW c \in Cli, pc'[c] \in {"read", "write"}, job'[c].op = "merge",
                 NEW v \in Versions(file[at'[c]], job'[c].name)
          PROVE  v <= ver'[c]
      BY <1>1, <2>1, <2>3
    <2>4. QED
      BY <2>2, <2>3 DEF Versions
  <1>2. ASSUME NEW c \in Cli, Begin(c) PROVE NotNewer'
    <2>1. /\ UNCHANGED <<made, ver>> /\ pc'[c] \notin {"read", "write"}
          /\ \A d \in Cli \ {c} : pc'[d] = pc[d] /\ job'[d] = job[d] /\ at'[d] = at[d]
      <3>1. ASSUME NEW n \in Name, MergeBegin(c, n)
            PROVE  /\ pc'[c] = "lock" /\ UNCHANGED <<made, ver>>
                   /\ \A d \in Cli \ {c} : pc'[d] = pc[d] /\ job'[d] = job[d] /\ at'[d] = at[d]
        <4>1. PICK p \in Path : at' = [at EXCEPT ![c] = p]
          <5>1. PICK S \in Candidates : \E p \in S :
                        IsTarget(p, S) /\ at' = [at EXCEPT ![c] = p]
            BY <3>1 DEF MergeBegin
          <5>2. S \subseteq Path
            BY <5>1 DEF Candidates
          <5>3. QED
            BY <5>1, <5>2
        <4>2. QED
          BY <3>1, <4>1 DEF MergeBegin, Goto, Take, LockInv, TypeOK
      <3>2. ASSUME NEW n \in Name, UnmergeBegin(c, n) \/ DeleteBegin(c, n)
            PROVE  /\ pc'[c] = "next" /\ UNCHANGED <<made, ver>>
                   /\ \A d \in Cli \ {c} : pc'[d] = pc[d] /\ job'[d] = job[d] /\ at'[d] = at[d]
        BY <3>2 DEF UnmergeBegin, DeleteBegin, Goto, Take, LockInv, TypeOK
      <3>3. QED
        BY <1>2, <3>1, <3>2 DEF Begin
    <2>2. QED
      BY <1>1, <2>1 DEF LockInv, TypeOK
  <1>3. ASSUME NEW c \in Cli, MergeSource(c) PROVE NotNewer'
    <2>1. at[c] \in Path /\ job[c].name \in Name
      BY <1>3 DEF MergeSource, LockInv, Placed, Busy, Critical
    <2>2. QED
      BY <1>1, <1>3, <2>1 DEF MergeSource, Goto, LockInv, TypeOK
  <1>4. ASSUME NEW c \in Cli, Lock(c) PROVE NotNewer'
    BY <1>1, <1>4 DEF Lock, Goto, LockInv, TypeOK
  <1>5. ASSUME NEW c \in Cli, MergeRead(c) \/ UnmergeRead(c) PROVE NotNewer'
    BY <1>1, <1>5 DEF MergeRead, UnmergeRead, ReadTarget, Leave, Goto, LockInv, TypeOK
  <1>6. ASSUME NEW c \in Cli,
               \/ LockFail(c) \/ Unlock(c) \/ Fail(c) \/ UnmergeNext(c)
               \/ UnmergeDone(c) \/ MergeWrite(c) \/ UnmergeWrite(c) \/ CliCrash(c)
        PROVE  NotNewer'
    <2>1. /\ UNCHANGED made /\ pc'[c] \notin {"read", "write"}
          /\ \A d \in Cli \ {c} : /\ pc'[d] = pc[d] /\ job'[d] = job[d]
                                  /\ at'[d] = at[d] /\ ver'[d] = ver[d]
      <3>1. CASE LockFail(c) \/ UnmergeDone(c) \/ CliCrash(c)
        BY <3>1 DEF LockFail, UnmergeDone, CliCrash, Return, Leave, Goto, LockInv, TypeOK
      <3>2. CASE Unlock(c)
        BY <3>2 DEF Unlock, Return, Leave, Goto, LockInv, TypeOK
      <3>3. CASE Fail(c) \/ MergeWrite(c) \/ UnmergeWrite(c)
        BY <3>3 DEF Fail, MergeWrite, UnmergeWrite, Leave, Goto, LockInv, TypeOK
      <3>4. CASE UnmergeNext(c)
        BY <3>4 DEF UnmergeNext, Goto, LockInv, TypeOK
      <3>5. QED
        BY <1>6, <3>1, <3>2, <3>3, <3>4
    <2>2. QED
      BY <1>1, <2>1 DEF LockInv, TypeOK
  <1>7. ASSUME NEW n \in Name, VMStart(n) PROVE NotNewer'
    <2>1. \A m \in Name : made'[m] \in Nat /\ made[m] <= made'[m]
      BY <1>7, MergeConstants DEF VMStart, LockInv, TypeOK
    <2>2. QED
      BY <1>1, <1>7, <2>1 DEF VMStart
  <1>8. ASSUME NEW n \in Name, VMStop(n) PROVE NotNewer'
    BY <1>8 DEF VMStop, Versions
  <1>9. ASSUME NEW p \in Path, UserEdit(p) \/ UserUnlock(p) PROVE NotNewer'
    BY <1>9 DEF UserEdit, UserUnlock, Versions
  <1>10. CASE UNCHANGED vars
    BY <1>10 DEF vars, Versions
  <1>11. QED
    BY <1>2, <1>3, <1>4, <1>5, <1>6, <1>7, <1>8, <1>9, <1>10 DEF Next, Step

\* What a step writes into a file is newer than what it held, or the same.
LEMMA VersionsStep ==
  ASSUME LockInv, NotNewer, [Next]_vars, NEW p \in Path, NEW n \in Name
  PROVE  \/ Versions(file'[p], n) \subseteq Versions(file[p], n)
         \/ \E c \in Cli :
              /\ MergeWrite(c) /\ at[c] = p /\ job[c].name = n
              /\ Versions(file'[p], n) \subseteq {ver[c]}
  <1>1. CASE UNCHANGED file
    BY <1>1
  <1>2. ASSUME NEW q \in Path, NEW d \in UserEdits(file[q]),
               file' = [file EXCEPT ![q] = d]
        PROVE  Versions(file'[p], n) \subseteq Versions(file[p], n)
    <2>1. file[q] \in Document
      BY DEF LockInv, TypeOK
    <2>2. Versions(d, n) \subseteq Versions(file[q], n)
      BY <2>1, EditVersions
    <2>3. file'[p] = IF p = q THEN d ELSE file[p]
      BY <1>2 DEF LockInv, TypeOK
    <2>4. QED
      BY <2>2, <2>3
  <1>3. ASSUME NEW c \in Cli, UnmergeWrite(c)
        PROVE  Versions(file'[p], n) \subseteq Versions(file[p], n)
    <2>1. /\ at[c] \in Path /\ job[c].name \in Name
          /\ doc[c] = file[at[c]] /\ file[at[c]] \in Document
      BY <1>3 DEF UnmergeWrite, LockInv, Placed, Busy, Critical, UpToDate, TypeOK
    <2>2. Versions(Unmerged(doc[c], job[c].name), n) \subseteq Versions(doc[c], n)
      BY <2>1, UnmergedVersions
    <2>3. file'[p] = IF p = at[c] THEN Unmerged(doc[c], job[c].name) ELSE file[p]
      BY <1>3, <2>1 DEF UnmergeWrite, LockInv, TypeOK
    <2>4. QED
      BY <2>1, <2>2, <2>3
  <1>4. ASSUME NEW c \in Cli, MergeWrite(c)
        PROVE  \/ Versions(file'[p], n) \subseteq Versions(file[p], n)
               \/ /\ at[c] = p /\ job[c].name = n
                  /\ Versions(file'[p], n) \subseteq {ver[c]}
    <2>1. /\ at[c] \in Path /\ job[c].name \in Name /\ ver[c] \in Nat
          /\ job[c].set \in BOOLEAN
          /\ doc[c] = file[at[c]] /\ file[at[c]] \in Document
      BY <1>4 DEF MergeWrite, LockInv, Placed, Busy, Critical, UpToDate, TypeOK, Job
    <2>2. Versions(Merged(doc[c], job[c].name, ver[c], job[c].set), n) \subseteq
             IF n = job[c].name THEN {ver[c]} ELSE Versions(doc[c], n)
      BY <2>1, MergedVersions
    <2>3. file'[p] = IF p = at[c]
                     THEN Merged(doc[c], job[c].name, ver[c], job[c].set)
                     ELSE file[p]
      BY <1>4, <2>1 DEF MergeWrite, LockInv, TypeOK
    <2>4. QED
      BY <2>1, <2>2, <2>3
  <1>5. QED
    BY <1>1, <1>2, <1>3, <1>4, FileStep

LEMMA NotNewerStep == LockInv /\ NotNewer /\ [Next]_vars => NotNewer'
  <1> SUFFICES ASSUME LockInv, NotNewer, [Next]_vars PROVE NotNewer'
    OBVIOUS
  <1> USE DEF vms, files, read, cmd
  <1>1. CASE UNCHANGED file
    BY <1>1, NotNewerRead
  <1>2. ASSUME NEW c \in Cli, MergeWrite(c) \/ UnmergeWrite(c) PROVE NotNewer'
    <2>1. /\ UNCHANGED <<made, job, at>> /\ pc'[c] = "unlock" /\ at[c] \in Path
          /\ \A p \in Path \ {at[c]} : file'[p] = file[p]
          /\ \A d \in Cli \ {c} : pc'[d] = pc[d] /\ ver'[d] = ver[d]
      BY <1>2 DEF MergeWrite, UnmergeWrite, Leave, Goto, LockInv, TypeOK,
                  Placed, Critical
    <2>2. \A d \in Cli \ {c} : pc[d] \in {"read", "write"} =>
             at[d] \in Path /\ at[d] # at[c]
      BY <1>2 DEF MergeWrite, UnmergeWrite, LockInv, Locked, Placed, Critical
    <2>3. \A d \in Cli : pc'[d] \in {"read", "write"} /\ job'[d].op = "merge" =>
             \A v \in Versions(file'[at'[d]], job'[d].name) : v <= ver'[d]
      BY <2>1, <2>2 DEF NotNewer
    <2>4. ASSUME NEW p \in Path, NEW n \in Name, NEW v \in Versions(file'[p], n)
          PROVE  v <= made'[n]
      <3>1. CASE Versions(file'[p], n) \subseteq Versions(file[p], n)
        BY <2>1, <2>4, <3>1 DEF NotNewer
      <3>2. CASE \E d \in Cli :
                    /\ MergeWrite(d) /\ at[d] = p /\ job[d].name = n
                    /\ Versions(file'[p], n) \subseteq {ver[d]}
        <4>1. PICK d \in Cli : MergeWrite(d) /\ job[d].name = n /\ v = ver[d]
          BY <2>4, <3>2
        <4>2. ver[d] <= made[n]
          BY <4>1 DEF MergeWrite, LockInv, UpToDate
        <4>3. QED
          BY <2>1, <4>1, <4>2
      <3>3. QED
        BY <3>1, <3>2, VersionsStep
    <2>5. QED
      BY <2>3, <2>4 DEF NotNewer, Versions
  <1>3. ASSUME NEW q \in Path, lock[q] = Free, NEW e \in UserEdits(file[q]),
               file' = [file EXCEPT ![q] = e], UNCHANGED <<vms, lock, cmd>>
        PROVE  NotNewer'
    <2>1. file[q] \in Document /\ file'[q] = e
          /\ \A p \in Path \ {q} : file'[p] = file[p]
      BY <1>3 DEF LockInv, TypeOK
    <2>2. \A p \in Path, n \in Name : Versions(file'[p], n) \subseteq Versions(file[p], n)
      BY <2>1, EditVersions
    <2>3. \A d \in Cli : pc[d] \in {"read", "write"} => at[d] \in Path /\ job[d].name \in Name
      BY DEF LockInv, Placed, Busy, Critical
    <2>4. \A p \in Path, n \in Name : \A v \in Versions(file'[p], n) : v <= made'[n]
      BY <1>3, <2>2 DEF NotNewer
    <2>5. \A d \in Cli : pc'[d] \in {"read", "write"} /\ job'[d].op = "merge" =>
             \A v \in Versions(file'[at'[d]], job'[d].name) : v <= ver'[d]
      BY <1>3, <2>2, <2>3 DEF NotNewer
    <2>6. QED
      BY <2>4, <2>5 DEF NotNewer, Versions
  <1>4. QED
    BY <1>1, <1>2, <1>3, FileStep

LEMMA InitNotNewer == Init => NotNewer
  BY DEF Init, NotNewer, Versions, Empty

\* The cluster, the user and the context of an entry are of one version.
OneVersion ==
    \A p \in Path, n \in Name : \A v, w \in Versions(file[p], n) : v = w

LEMMA OneVersionStep ==
  ASSUME LockInv, NotNewer, OneVersion, [Next]_vars
  PROVE  OneVersion'
  <1> SUFFICES ASSUME NEW p \in Path, NEW n \in Name,
                      NEW v \in Versions(file'[p], n), NEW w \in Versions(file'[p], n)
               PROVE  v = w
    BY DEF OneVersion, Versions
  <1>1. CASE Versions(file'[p], n) \subseteq Versions(file[p], n)
    BY <1>1 DEF OneVersion
  <1>2. CASE \E c \in Cli : Versions(file'[p], n) \subseteq {ver[c]}
    BY <1>2
  <1>3. QED
    BY <1>1, <1>2, VersionsStep

\* One step never puts an older version where a newer one was.
LEMMA NeverOlderStep ==
  ASSUME LockInv, NotNewer, OneVersion, [Next]_vars, NEW p \in Path, NEW n \in Name,
         NEW v \in Versions(file[p], n), NEW w \in Versions(file'[p], n)
  PROVE  v <= w
  <1>1. v \in Nat
    BY DEF LockInv, TypeOK, Versions, Document, Part
  <1>2. CASE Versions(file'[p], n) \subseteq Versions(file[p], n)
    BY <1>1, <1>2 DEF OneVersion
  <1>3. CASE \E c \in Cli : /\ MergeWrite(c) /\ at[c] = p /\ job[c].name = n
                           /\ Versions(file'[p], n) \subseteq {ver[c]}
    <2>1. PICK c \in Cli : /\ pc[c] = "write" /\ job[c].op = "merge"
                           /\ at[c] = p /\ job[c].name = n /\ w = ver[c]
      BY <1>3 DEF MergeWrite
    <2>2. QED
      BY <2>1 DEF NotNewer
  <1>4. QED
    BY <1>2, <1>3, VersionsStep

\* Merges of one VM into one file never go back to an older kubeconfig.
THEOREM MergesNeverGoBack == Spec => EntryNeverOlder
  <1> DEFINE Sound == LockInv /\ NotNewer /\ OneVersion
  <1>1. Init => Sound
    BY InitInv, InitNotNewer DEF Init, OneVersion, Versions, Empty
  <1>2. Sound /\ [Next]_vars => Sound'
    BY TypeStep, PlacedStep, LockStep, UpToDateStep, NotNewerStep, OneVersionStep
    DEF LockInv
  <1>3. Sound /\ [Next]_vars =>
           [\A p \in Path, n \in Name :
              \A v \in Versions(file[p], n), w \in Versions(file[p], n)' : v <= w]_vars
    <2> SUFFICES ASSUME Sound, [Next]_vars
                 PROVE  \A p \in Path, n \in Name :
                          \A v \in Versions(file[p], n), w \in Versions(file'[p], n) : v <= w
      BY DEF Versions
    <2>1. QED
      BY NeverOlderStep
  <1>4. QED
    BY <1>1, <1>2, <1>3, PTL DEF Spec, EntryNeverOlder

-----------------------------------------------------------------------------
(* Entries in use *)

\* A merge puts the entry of its VM back; a user's edit removes nothing.
LEMMA MergedKeeps ==
  ASSUME NEW d \in Document, NEW n \in Name, NEW v \in Nat, NEW set \in BOOLEAN,
         NEW m \in Name, HasEntry(d, m)
  PROVE  HasEntry(Merged(d, n, v, set), m)
  <1>1. Merged(d, n, v, set).parts = {x \in d.parts : x.name # n} \cup Source(n, v)
    BY DEF Merged, AppendEntry, RemoveEntry, Document
  <1> DEFINE y == [kind |-> "user", name |-> n, ver |-> v, uses |-> {}]
  <1>2. y \in Source(n, v) /\ y.name = n
    BY DEF Source, Kinds
  <1>3. QED
    BY <1>1, <1>2 DEF HasEntry

LEMMA UnmergedKeeps ==
  ASSUME NEW d \in Document, NEW n \in Name, NEW m \in Name, HasEntry(d, m), m # n
  PROVE  HasEntry(Unmerged(d, n), m)
  <1>1. Unmerged(d, n).parts = {x \in d.parts : x.name # n}
    BY DEF Unmerged, RemoveEntry, Document
  <1>2. QED
    BY <1>1 DEF HasEntry

LEMMA EditKeeps ==
  ASSUME NEW d \in Document, NEW e \in UserEdits(d), NEW m \in Name, HasEntry(d, m)
  PROVE  HasEntry(e, m)
  <1>1. d.parts \subseteq e.parts
    BY DEF UserEdits, Document
  <1>2. QED
    BY <1>1 DEF HasEntry

\* The check of an unmerge still holds when it writes.
LEMMA ReferencesStayStep ==
  ASSUME LockInv, [Next]_vars, NEW p \in Path, NEW n \in Name,
         ReferencedByOther(file[p], n), HasEntry(file[p], n)
  PROVE  HasEntry(file'[p], n)
  <1>1. CASE UNCHANGED file
    BY <1>1
  <1>2. ASSUME NEW q \in Path, NEW e \in UserEdits(file[q]),
               file' = [file EXCEPT ![q] = e]
        PROVE  HasEntry(file'[p], n)
    <2>1. file[q] \in Document /\ file'[p] = IF p = q THEN e ELSE file[p]
      BY <1>2 DEF LockInv, TypeOK
    <2>2. QED
      BY <2>1, EditKeeps
  <1>3. ASSUME NEW c \in Cli, MergeWrite(c) PROVE HasEntry(file'[p], n)
    <2>1. /\ at[c] \in Path /\ job[c].name \in Name /\ ver[c] \in Nat
          /\ job[c].set \in BOOLEAN
          /\ doc[c] = file[at[c]] /\ file[at[c]] \in Document
      BY <1>3 DEF MergeWrite, LockInv, Placed, Busy, Critical, UpToDate, TypeOK, Job
    <2>2. file'[p] = IF p = at[c]
                     THEN Merged(doc[c], job[c].name, ver[c], job[c].set)
                     ELSE file[p]
      BY <1>3, <2>1 DEF MergeWrite, LockInv, TypeOK
    <2>3. QED
      BY <2>1, <2>2, MergedKeeps
  <1>4. ASSUME NEW c \in Cli, UnmergeWrite(c) PROVE HasEntry(file'[p], n)
    <2>1. /\ at[c] \in Path /\ job[c].name \in Name
          /\ doc[c] = file[at[c]] /\ file[at[c]] \in Document
          /\ ~ReferencedByOther(doc[c], job[c].name)
      BY <1>4 DEF UnmergeWrite, LockInv, Placed, Busy, Critical, UpToDate, TypeOK
    <2>2. file'[p] = IF p = at[c] THEN Unmerged(doc[c], job[c].name) ELSE file[p]
      BY <1>4, <2>1 DEF UnmergeWrite, LockInv, TypeOK
    <2>3. p = at[c] => n # job[c].name
      BY <2>1
    <2>4. QED
      BY <2>1, <2>2, <2>3, UnmergedKeeps
  <1>5. QED
    BY <1>1, <1>2, <1>3, <1>4, FileStep

\* No entry goes away while a context of the user's needs it.
THEOREM UsedEntriesStay == Spec => ReferencesStay
  <1>1. LockInv /\ [Next]_vars =>
           [\A p \in Path, n \in Name :
              ReferencedByOther(file[p], n) /\ HasEntry(file[p], n)
                  => HasEntry(file[p], n)']_vars
    <2> SUFFICES ASSUME LockInv, [Next]_vars
                 PROVE  \A p \in Path, n \in Name :
                          ReferencedByOther(file[p], n) /\ HasEntry(file[p], n)
                              => HasEntry(file'[p], n)
      BY DEF HasEntry
    <2>1. QED
      BY ReferencesStayStep
  <1>2. QED
    BY Invariance, <1>1, PTL DEF Spec, ReferencesStay
=============================================================================
