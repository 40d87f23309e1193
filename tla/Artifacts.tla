------------------------------ MODULE Artifacts ------------------------------
(***************************************************************************)
(* The directories below ~/.spind that hold images, snapshots and VMs, the *)
(* files in them, and the guests that write to them                        *)
(* (internal/spind/filecopy, store, snapshot, image).                      *)
(*                                                                         *)
(* A file is a name for an inode: a copy makes a new inode, a hard link a  *)
(* second name, and a guest writes to the inode it has opened, whatever    *)
(* the name.  The content of an inode is a stamp; one stamp stands for     *)
(* everything that belongs together: the files of one image build, or a    *)
(* disk and the memory that a guest had when the disk was like that.       *)
(***************************************************************************)
EXTENDS Naturals, Sequences

CONSTANTS
    Cli,        \* the commands that may be in flight at the same time
    Image, VM, Snap,   \* the names in the three stores
    None,       \* no directory, no metadata
    MaxStamp    \* a bound on the builds and writes of a behaviour

ASSUME ArtifactConstants ==
    /\ MaxStamp \in Nat
    /\ None \notin Image

VARIABLES
    dirs,       \* the directories that exist
    files,      \* the inodes, each with all its names
    meta,       \* the image that metadata.json names, None without the file
    stamp,      \* the last stamp given
    template,   \* the builtin Docker template and its temporary neighbours
    backend,    \* the host's backend: Cloud Hypervisor or Virtualization.framework
    guest,      \* the VMs: state.json and the machine itself
    pc,         \* where each command is
    job,        \* what each command works on
    todo        \* the copies a command has still to make

disk == <<dirs, files, meta>>
cmd  == <<pc, job, todo>>
vars == <<disk, stamp, template, backend, guest, cmd>>

-----------------------------------------------------------------------------
(* "kernel" stands for every artifact a guest only reads (kernel, initramfs,
   read-only disks, keys), "disk" for its writable disks, "saved" for the saved
   memory and device state, and "rdisk" for the disk in the restore directory
   of a Cloud Hypervisor VM. *)
File == {"kernel", "disk", "saved", "rdisk"}

(* The three stores, the build output of an image, its ".<name>.tmp" in the
   image store, and the ".<name>-xxxx" a snapshot command makes. *)
ImageDirs == {"image"} \X Image
SnapDirs  == {"snap"} \X Snap
TempDirs  == {"temp"} \X Cli
VMDirs    == {"vm"} \X VM
Dir == ImageDirs \cup ({"staging", "install"} \X Image)
            \cup SnapDirs \cup TempDirs \cup VMDirs

ASSUME NoneIsNoDirectory == None \notin Dir

Stamp == 0 .. MaxStamp
Inode == [names : SUBSET (Dir \X File), data : Stamp]

\* A copy of one file of the source, or of the VM's own directory, to the
\* target, or a link to it if the filesystem allows.
Copy == [own : BOOLEAN, from : File, to : File, link : BOOLEAN]

\* What is read, what is written or removed, the name it is for; --force of a
\* build, a refresh of its template; the snapshots a prune has still to delete.
Job == [src : Dir \cup {None}, dst : Dir \cup {None}, name : Dir \cup {None},
        force : BOOLEAN, refresh : BOOLEAN, left : SUBSET Snap]
NoJob == [src |-> None, dst |-> None, name |-> None,
          force |-> FALSE, refresh |-> FALSE, left |-> {}]

\* The status in state.json, and whether the machine runs.
Guest == [status : {"none", "stopped", "running"}, run : {"off", "on", "paused"}]
NoGuest == [status |-> "none", run |-> "off"]

BuildSteps == {"build.template", "build.tmp", "build.fill", "build.move",
               "build.aside", "build.swap", "build.clear", "build.run",
               "build.output", "build.verify", "build.stage", "build.replace",
               "build.install"}
CopySteps  == {"image.copy", "restore.copy", "snap.copy"}
Steps == {"idle", "remove", "prune", "prune.remove", "vm.state", "snap.save",
          "snap.shutdown", "snap.publish"} \cup BuildSteps \cup CopySteps

\* The template, what it is replaced by and what it was, and the two temporary
\* directories; "part" has no flake.nix or lacks files next to it, "stale" has
\* the template.json of an older spind.
TemplateDirs == {"docker", "docker.new", "docker.old", "docker.tmp",
                 "docker.new.tmp"}

TypeOK ==
    /\ dirs \subseteq Dir
    /\ files \subseteq Inode
    /\ meta \in [Dir -> Image \cup {None}]
    /\ stamp \in Stamp
    /\ template \in [TemplateDirs -> {"none", "part", "stale", "whole"}]
    /\ backend \in {"ch", "vz"}
    /\ guest \in [VM -> Guest]
    /\ pc \in [Cli -> Steps]
    /\ job \in [Cli -> Job]
    /\ todo \in [Cli -> Seq(Copy)]

Init ==
    /\ dirs = {}
    /\ files = {}
    /\ meta = [d \in Dir |-> None]
    /\ stamp = 0
    /\ \E t \in {"none", "stale"} :
          template = [d \in TemplateDirs |-> IF d = "docker" THEN t ELSE "none"]
    /\ backend \in {"ch", "vz"}
    /\ guest = [v \in VM |-> NoGuest]
    /\ pc = [c \in Cli |-> "idle"]
    /\ job = [c \in Cli |-> NoJob]
    /\ todo = [c \in Cli |-> <<>>]

-----------------------------------------------------------------------------
(* Files *)

Has(d, f) == \E n \in files : <<d, f>> \in n.names
InodeOf(d, f) == CHOOSE n \in files : <<d, f>> \in n.names
Content(d, f) == InodeOf(d, f).data
Empty(d) == meta[d] = None /\ \A f \in File : ~Has(d, f)

\* The inodes after these names are gone, and those that still have a name.
Without(names) ==
    {n \in {[m EXCEPT !.names = @ \ names] : m \in files} : n.names # {}}

\* A new file with this content.
NewFile(d, f, x) == files' = files \cup {[names |-> {<<d, f>>}, data |-> x]}

\* filecopy.Copy: a clone or a copy, into a file that must not exist.
CopyFile(src, from, d, f) ==
    /\ Has(src, from) /\ ~Has(d, f)
    /\ NewFile(d, f, Content(src, from))

\* os.Link: a second name of the same inode.
LinkFile(src, from, d, f) ==
    /\ Has(src, from) /\ ~Has(d, f)
    /\ LET n == InodeOf(src, from)
       IN  files' = (files \ {n}) \cup {[n EXCEPT !.names = @ \cup {<<d, f>>}]}

\* filecopy.LinkOrCopy: whatever error the link meets, a copy is tried instead.
LinkOrCopy(src, from, d, f) == LinkFile(src, from, d, f) \/ CopyFile(src, from, d, f)

\* A write to an open file reaches its inode, under whatever names.
Overwrite(d, f, x) ==
    files' = {IF <<d, f>> \in n.names THEN [n EXCEPT !.data = x] ELSE n : n \in files}

\* os.Rename of a directory; Linux and macOS allow it over an empty one only.
CanMove(e) == e \in dirs => Empty(e)

Moved(a, d, e) == IF a[1] = d THEN <<e, a[2]>> ELSE a

\* The rename, in place of what was there.
MoveDir(d, e) ==
    /\ dirs' = (dirs \ {d}) \cup {e}
    /\ files' = {[n EXCEPT !.names = {Moved(a, d, e) : a \in @}] :
                    n \in Without({e} \X File)}
    /\ meta' = [meta EXCEPT ![e] = meta[d], ![d] = None]

\* os.RemoveAll in one go, for a directory nobody else reads.
Wipe(d) ==
    /\ dirs' = dirs \ {d}
    /\ files' = Without({d} \X File)
    /\ meta' = [meta EXCEPT ![d] = None]

\* One step of an os.RemoveAll: a file of d, in any order.
RemoveFile(d) ==
    /\ \/ \E f \in File : /\ Has(d, f)
                          /\ files' = Without({<<d, f>>})
                          /\ UNCHANGED meta
       \/ /\ meta[d] # None
          /\ meta' = [meta EXCEPT ![d] = None]
          /\ UNCHANGED files
    /\ UNCHANGED dirs

\* Its last step: the directory itself.
RemoveDir(d) ==
    /\ Empty(d)
    /\ dirs' = dirs \ {d}
    /\ UNCHANGED <<files, meta>>

-----------------------------------------------------------------------------
(* Commands *)

Goto(c, step) == pc' = [pc EXCEPT ![c] = step]

Begin(c, step, j, copies) ==
    /\ pc[c] = "idle"
    /\ Goto(c, step)
    /\ job' = [job EXCEPT ![c] = j]
    /\ todo' = [todo EXCEPT ![c] = copies]

Return(c) ==
    /\ Goto(c, "idle")
    /\ job' = [job EXCEPT ![c] = NoJob]
    /\ todo' = [todo EXCEPT ![c] = <<>>]

machines == <<backend, guest>>

\* Mutant: a source file that has gone is skipped.
CopyNext_Lenient(c) ==
    /\ pc[c] \in CopySteps /\ todo[c] # <<>>
    /\ LET k == Head(todo[c])
           d == job[c].dst
           s == IF k.own THEN d ELSE job[c].src
       IN  IF ~Has(s, k.from) THEN UNCHANGED files
           ELSE IF k.link THEN LinkOrCopy(s, k.from, d, k.to)
                          ELSE CopyFile(s, k.from, d, k.to)
    /\ todo' = [todo EXCEPT ![c] = Tail(@)]
    /\ UNCHANGED <<dirs, meta, stamp, template, machines, pc, job>>

\* The next copy of a create or of a snapshot.
CopyNext(c) ==
    /\ pc[c] \in CopySteps /\ todo[c] # <<>>
    /\ LET k == Head(todo[c])
           d == job[c].dst
           s == IF k.own THEN d ELSE job[c].src
       IN  IF k.link THEN LinkOrCopy(s, k.from, d, k.to)
                     ELSE CopyFile(s, k.from, d, k.to)
    /\ todo' = [todo EXCEPT ![c] = Tail(@)]
    /\ UNCHANGED <<dirs, meta, stamp, template, machines, pc, job>>

\* The removal of a directory under its public name.
RemoveStep(c) ==
    /\ pc[c] = "remove"
    /\ \/ RemoveFile(job[c].dst) /\ UNCHANGED cmd
       \/ RemoveDir(job[c].dst) /\ Return(c)
    /\ UNCHANGED <<stamp, template, machines>>

\* The command is killed where it stands.  Of what a create or a snapshot leaves
\* behind the files are read by nobody, and not kept in the model; the directory
\* of a VM keeps its name occupied, that of a snapshot has a random name.
Crash(c) ==
    /\ pc[c] # "idle"
    /\ Return(c)
    /\ LET d == job[c].dst
       IN  /\ dirs' = dirs \ {<<"temp", c>>}
           /\ files' = IF d \in VMDirs \cup TempDirs THEN Without({d} \X File) ELSE files
           /\ meta' = [meta EXCEPT ![<<"temp", c>>] = None]
    /\ UNCHANGED <<stamp, template, machines>>
=============================================================================
