------------------------------ MODULE ImageStore -----------------------------
(***************************************************************************)
(* `spind image build`, `image delete` and `vm create --image`             *)
(* (internal/spind/image, and CreateFromImage of internal/spind/vm/start). *)
(***************************************************************************)
EXTENDS Artifacts, FiniteSets

CONSTANTS
    Builders,   \* a bound on the builds in flight
    Together    \* whether builds and snapshots meet in one behaviour

ASSUME BuildersConstant == Builders \in Nat /\ Together \in BOOLEAN /\ IsFiniteSet(Cli)

ImageDir(i)   == <<"image", i>>
StagingDir(i) == <<"staging", i>>
InstallDir(i) == <<"install", i>>

\* The image c builds.
Built(c) == job[c].name[2]

\* Two builds of one image share their work directory, and all builds the
\* template: what keeps them apart is who runs the command.
\* Builds and snapshots have no directory in common: without Together, a bound
\* of the instances, they meet one or the other, never the product of both.
Building == {c \in Cli : pc[c] \in BuildSteps}
MayBuild ==
    /\ Cardinality(Building) < Builders
    /\ Together \/ /\ dirs \cap (SnapDirs \cup TempDirs) = {}
                   /\ \A v \in VM : ~Has(<<"vm", v>>, "saved")
MaySave ==
    Together \/ /\ Building = {}
                /\ dirs \cap ({"staging", "install"} \X Image) = {}
                /\ \A t \in TemplateDirs \ {"docker"} : template[t] = "none"

imageVars == <<stamp, machines>>

-----------------------------------------------------------------------------
(* Build: the checks and the template *)

\* An existing image needs --force.  A build from a directory of the user's is
\* the same build without the steps of the template.
BuildBegin(c, i, force) ==
    /\ MayBuild
    /\ ImageDir(i) \in dirs => force
    /\ Begin(c, "build.template",
             [NoJob EXCEPT !.name = ImageDir(i), !.force = force], <<>>)
    /\ UNCHANGED <<disk, template, imageVars>>

\* validateImageTemplateDir: the directory and its flake.nix are there.
Usable(t) == template[t] \notin {"none", "part"}

Target(c) == IF job[c].refresh THEN "docker.new" ELSE "docker"
TargetTmp(c) == IF job[c].refresh THEN "docker.new.tmp" ELSE "docker.tmp"

\* A template of an older spind is refreshed, a missing one made, and one
\* without flake.nix counts as missing.
ResolveTemplate(c) ==
    /\ pc[c] = "build.template"
    /\ \/ /\ template["docker"] = "whole"
          /\ Goto(c, "build.clear")
          /\ UNCHANGED <<template, job>>
       \/ /\ template["docker"] = "stale"
          /\ template' = [template EXCEPT !["docker.new"] = "none",
                                          !["docker.old"] = "none"]
          /\ job' = [job EXCEPT ![c].refresh = TRUE]
          /\ Goto(c, "build.tmp")
       \/ /\ ~Usable("docker")
          /\ Goto(c, "build.tmp")
          /\ UNCHANGED <<template, job>>
    /\ UNCHANGED <<disk, imageVars, todo>>

\* Mutant: the template is made in place.
TemplateTmp_InPlace(c) ==
    /\ pc[c] = "build.tmp"
    /\ template' = [template EXCEPT ![TargetTmp(c)] = "part", ![Target(c)] = "part"]
    /\ Goto(c, "build.fill")
    /\ UNCHANGED <<disk, imageVars, job, todo>>

\* materializeBuiltinDockerTemplate: the directory next to the target is made
\* anew ...
TemplateTmp(c) ==
    /\ pc[c] = "build.tmp"
    /\ template' = [template EXCEPT ![TargetTmp(c)] = "part"]
    /\ Goto(c, "build.fill")
    /\ UNCHANGED <<disk, imageVars, job, todo>>

\* ... and filled with the sources and the guest's binaries, ...
TemplateFill(c) ==
    /\ pc[c] = "build.fill"
    /\ template' = [template EXCEPT ![TargetTmp(c)] = "whole"]
    /\ Goto(c, "build.move")
    /\ UNCHANGED <<disk, imageVars, job, todo>>

\* ... and moved to the target; a target that is there already is kept.
TemplateMove(c) ==
    /\ pc[c] = "build.move"
    /\ LET tmp == TargetTmp(c)
           made == IF template[Target(c)] # "none" THEN template[Target(c)]
                                                   ELSE template[tmp]
       IN  /\ template[tmp] # "none"
           /\ template' = [template EXCEPT ![tmp] = "none", ![Target(c)] = made]
           /\ \/ job[c].refresh /\ Goto(c, "build.aside") /\ UNCHANGED <<job, todo>>
              \/ /\ ~job[c].refresh /\ made # "part"
                 /\ Goto(c, "build.clear")
                 /\ UNCHANGED <<job, todo>>
    /\ UNCHANGED <<disk, imageVars>>

\* replaceBuiltinDockerTemplate: the stale template is moved aside, ...
TemplateAside(c) ==
    /\ pc[c] = "build.aside" /\ template["docker"] # "none"
    /\ template' = [template EXCEPT !["docker.old"] = template["docker"],
                                    !["docker"] = "none"]
    /\ Goto(c, "build.swap")
    /\ UNCHANGED <<disk, imageVars, job, todo>>

\* ... and the new one takes its place, or the stale one comes back.
TemplateSwap(c) ==
    /\ pc[c] = "build.swap"
    /\ \/ /\ template["docker.new"] # "none" /\ template["docker"] = "none"
          /\ template' = [template EXCEPT !["docker"] = template["docker.new"],
                                          !["docker.new"] = "none",
                                          !["docker.old"] = "none"]
          /\ Goto(c, "build.clear") /\ UNCHANGED <<job, todo>>
       \/ /\ template' = [template EXCEPT !["docker.new"] = "none",
                                          !["docker.old"] = "none",
                                          !["docker"] = IF @ # "none" THEN @
                                                        ELSE template["docker.old"]]
          /\ Return(c)
    /\ UNCHANGED <<disk, imageVars>>

-----------------------------------------------------------------------------
(* Build: the container and the installation *)

\* The work directory of this image name is removed, whoever built there.
BuildClear(c) ==
    /\ pc[c] = "build.clear"
    /\ Wipe(StagingDir(Built(c)))
    /\ Goto(c, "build.run")
    /\ UNCHANGED <<template, imageVars, job, todo>>

\* The container makes the files of one generation, one after the other.
BuildRun(c) ==
    /\ pc[c] = "build.run" /\ stamp < MaxStamp
    /\ stamp' = stamp + 1
    /\ NewFile(StagingDir(Built(c)), "kernel", stamp + 1)
    /\ dirs' = dirs \cup {StagingDir(Built(c))}
    /\ Goto(c, "build.output")
    /\ UNCHANGED <<meta, template, machines, job, todo>>

BuildOutput(c) ==
    /\ pc[c] = "build.output"
    /\ LET d == StagingDir(Built(c))
       IN  /\ Has(d, "kernel")
           /\ NewFile(d, "disk", Content(d, "kernel"))
           /\ meta' = [meta EXCEPT ![d] = Built(c)]
    /\ Goto(c, "build.verify")
    /\ UNCHANGED <<dirs, template, imageVars, job, todo>>

\* Inspect finds metadata.json and the files it requires.
Healthy(d) == d \in dirs /\ meta[d] # None /\ Has(d, "kernel") /\ Has(d, "disk")

BuildVerify(c) ==
    /\ pc[c] = "build.verify" /\ Healthy(StagingDir(Built(c)))
    /\ Goto(c, "build.stage")
    /\ UNCHANGED <<disk, template, imageVars, job, todo>>

\* The output goes to the image store under a temporary name, in place of
\* what an earlier build left there.
BuildStage(c) ==
    /\ pc[c] = "build.stage" /\ StagingDir(Built(c)) \in dirs
    /\ MoveDir(StagingDir(Built(c)), InstallDir(Built(c)))
    /\ Goto(c, IF job[c].force THEN "build.replace" ELSE "build.install")
    /\ UNCHANGED <<template, imageVars, job, todo>>

\* With --force the old image is removed file by file.
BuildReplace(c) ==
    /\ pc[c] = "build.replace"
    /\ \/ RemoveFile(job[c].name) /\ UNCHANGED pc
       \/ RemoveDir(job[c].name) /\ Goto(c, "build.install")
    /\ UNCHANGED <<template, imageVars, job, todo>>

BuildInstall(c) ==
    /\ pc[c] = "build.install"
    /\ IF CanMove(job[c].name) /\ InstallDir(Built(c)) \in dirs
         THEN MoveDir(InstallDir(Built(c)), job[c].name)
         ELSE Wipe(InstallDir(Built(c)))
    /\ Return(c)
    /\ UNCHANGED <<template, imageVars>>

\* Any error before the installation: a half-made template is removed, the
\* output of the container stays where it is.
BuildFail(c) ==
    /\ pc[c] \in BuildSteps \ {"build.swap", "build.replace", "build.install"}
    /\ template' = CASE pc[c] \in {"build.fill", "build.move"} ->
                          [template EXCEPT ![TargetTmp(c)] = "none"]
                     [] pc[c] = "build.aside" ->
                          [template EXCEPT !["docker.new"] = "none"]
                     [] OTHER -> template
    /\ Return(c)
    /\ UNCHANGED <<disk, imageVars>>

Build(c) ==
    \/ \E i \in Image, force \in BOOLEAN : BuildBegin(c, i, force)
    \/ ResolveTemplate(c) \/ TemplateTmp(c) \/ TemplateFill(c) \/ TemplateMove(c)
    \/ TemplateAside(c) \/ TemplateSwap(c)
    \/ BuildClear(c) \/ BuildRun(c) \/ BuildOutput(c) \/ BuildVerify(c)
    \/ BuildStage(c) \/ BuildReplace(c) \/ BuildInstall(c) \/ BuildFail(c)

-----------------------------------------------------------------------------
(* Delete, and vm create --image *)

VMDir(v) == <<"vm", v>>

\* imageReferences: the VMs whose metadata.json names i.  A VM without one is
\* an error, whatever its image.
References(i) == {v \in VM : meta[VMDir(v)] = i}
NoReadError   == \A v \in VM : VMDir(v) \in dirs => meta[VMDir(v)] # None

DeleteImage(c, i) ==
    /\ ImageDir(i) \in dirs
    /\ NoReadError
    /\ \E force \in BOOLEAN : force \/ References(i) = {}
    /\ Begin(c, "remove", [NoJob EXCEPT !.dst = ImageDir(i)], <<>>)
    /\ UNCHANGED <<disk, template, imageVars>>

\* Mutant: the disk is linked.
ImageCopies_Linked ==
    << [own |-> FALSE, from |-> "kernel", to |-> "kernel", link |-> FALSE],
       [own |-> FALSE, from |-> "disk", to |-> "disk", link |-> TRUE] >>

\* CopyRequiredFiles: kernel and initramfs, then the disks.
ImageCopies == << [own |-> FALSE, from |-> "kernel", to |-> "kernel", link |-> FALSE],
                  [own |-> FALSE, from |-> "disk", to |-> "disk", link |-> FALSE] >>

CreateFromImage(c, v, i) ==
    /\ meta[ImageDir(i)] # None /\ VMDir(v) \notin dirs
    /\ dirs' = dirs \cup {VMDir(v)}
    /\ Begin(c, "image.copy", [NoJob EXCEPT !.src = ImageDir(i), !.dst = VMDir(v),
                                            !.name = ImageDir(i)], ImageCopies)
    /\ UNCHANGED <<files, meta, template, imageVars>>

\* injectAuthorizedKey: the key is written into the filesystem on the VM's own
\* disk.
InjectKey(c) ==
    /\ stamp < MaxStamp
    /\ stamp' = stamp + 1
    /\ Overwrite(job[c].dst, "disk", stamp + 1)

\* The key goes onto the kernel command line or onto the disk, when the VM is
\* made from an image; then the configuration and metadata.json.
CreateMetadata(c) ==
    /\ pc[c] \in {"image.copy", "restore.copy"} /\ todo[c] = <<>>
    /\ \/ UNCHANGED <<stamp, files>>
       \/ pc[c] = "image.copy" /\ InjectKey(c)
    /\ meta' = [meta EXCEPT ![job[c].dst] = job[c].name[2]]
    /\ Goto(c, "vm.state")
    /\ UNCHANGED <<dirs, template, machines, job, todo>>

\* Mutant: state.json is written with a status that no reader knows.
CreateState_Unknown(c) ==
    /\ pc[c] = "vm.state"
    /\ guest' = [guest EXCEPT ![job[c].dst[2]].status = "created"]
    /\ Return(c)
    /\ UNCHANGED <<disk, stamp, template, backend>>

CreateState(c) ==
    /\ pc[c] = "vm.state"
    /\ guest' = [guest EXCEPT ![job[c].dst[2]].status = "stopped"]
    /\ Return(c)
    /\ UNCHANGED <<disk, stamp, template, backend>>

\* A source that is missing, or any other error, removes the VM directory.
CreateFail(c) ==
    /\ pc[c] \in {"image.copy", "restore.copy", "vm.state"}
    /\ Wipe(job[c].dst)
    /\ Return(c)
    /\ UNCHANGED <<template, imageVars>>

Create(c) == CreateMetadata(c) \/ CreateState(c) \/ CreateFail(c)

Images(c) ==
    \/ Build(c)
    \/ \E i \in Image : DeleteImage(c, i) \/ \E v \in VM : CreateFromImage(c, v, i)
=============================================================================
