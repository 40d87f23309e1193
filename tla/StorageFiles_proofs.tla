------------------------- MODULE StorageFiles_proofs ------------------------
(***************************************************************************)
(* What the commands and the guests of Storage do to files: that a guest's *)
(* writes stay in its VM, and that images and snapshots are published      *)
(* whole and do not change, whatever commands overlap, under what Storage   *)
(* asks of the users (Storage_proofs has the control of the commands and    *)
(* the operations on files as seen through names).                         *)
(***************************************************************************)
EXTENDS Storage_proofs

\* Only linked files of snapshots and VMs have several names.
Alone == \A a, b : Joined(files, a, b) /\ a[1] \in ImageDirs \cup OutputDirs => b = a

StayHome ==
    \A v \in VM, f \in Writable : \A b : Joined(files, <<VMDir(v), f>>, b)
        => \E g \in Writable : b = <<VMDir(v), g>>

Shape == Files(files) /\ Alone /\ StayHome

\* The two files are of one build, or of one moment.
Match(F, d, f, g) == \A x, y : At(F, <<d, f>>, x) /\ At(F, <<d, g>>, y) => x = y

BuildFiles(c) ==
    /\ pc[c] = "build.run" => ~There(files, <<StagingDir(Built(c)), "kernel">>)
    /\ pc[c] \in {"build.run", "build.output"} =>
         ~There(files, <<StagingDir(Built(c)), "disk">>)
    /\ pc[c] \in {"build.verify", "build.stage"} =>
         Match(files, StagingDir(Built(c)), "kernel", "disk")
    /\ pc[c] \in {"build.replace", "build.install"} =>
         Match(files, InstallDir(Built(c)), "kernel", "disk")

ImageFiles ==
    /\ \A c \in Cli : BuildFiles(c)
    /\ \A i \in Image : Match(files, ImageDir(i), "kernel", "disk")

\* The disk that a guest has open.
Opened(F, v) == IF backend = "ch" /\ There(F, <<VMDir(v), "saved">>) THEN "rdisk" ELSE "disk"

\* A VM has files only where it has a directory, and its running guest has its
\* disk open.
VMOK(v) ==
    /\ \A f \in File : There(files, <<VMDir(v), f>>) => VMDir(v) \in dirs
    /\ guest[v].run # "off" => There(files, <<VMDir(v), Opened(files, v)>>)
    /\ \A c \in Cli : job[c].dst = VMDir(v) /\ pc[c] = "image.copy"
         => ~There(files, <<VMDir(v), "saved">>)

VMFiles == \A v \in VM : VMOK(v)

\* The steps of a snapshot that has saved the memory.
Saved == {"snap.copy", "snap.shutdown", "snap.publish"}

\* The memory and the disk that a snapshot has so far, and the disk that it has
\* still to copy.
Pair(c) ==
    /\ Match(files, TempDir(c), "saved", "disk")
    /\ pc[c] = "snap.copy" =>
         \A x, y : At(files, <<TempDir(c), "saved">>, x) /\ At(files, <<job[c].src, "disk">>, y)
                     => x = y

\* "pairs" \in asked where nobody disturbs a snapshot (Undisturbed) and the disk
\* of the restore directory is linked (DisksAreLinked).
TempOK(asked, c) ==
    /\ \A f \in File : There(files, <<TempDir(c), f>>) => pc[c] \in Saved
    /\ "pairs" \in asked => Pair(c)

SnapOK(asked, s) == "pairs" \in asked => Match(files, SnapDir(s), "saved", "disk")

SnapFiles(asked) == (\A c \in Cli : TempOK(asked, c)) /\ (\A s \in Snap : SnapOK(asked, s))

FileInv(asked) == Shape /\ ImageFiles /\ VMFiles /\ SnapFiles(asked)

\* The guest of a snapshot does not run until the disk has been copied, and the
\* snapshot is the only one of it.
Resting ==
    /\ \A c \in Cli : MidSave(c) => guest[Source(c)].run # "on"
    /\ \A c, e \in Cli : MidSave(c) /\ MidSave(e) /\ Source(c) = Source(e) => c = e

Granted(asked) == "pairs" \in asked => Resting /\ DisksAreLinked

-----------------------------------------------------------------------------
(* What an operation leaves alone *)

SameFiles(d) ==
    /\ \A f, y : At(files', <<d, f>>, y) <=> At(files, <<d, f>>, y)
    /\ \A f, g : Joined(files', <<d, f>>, <<d, g>>) <=> Joined(files, <<d, f>>, <<d, g>>)

LEMMA AddedFrame ==
    ASSUME Alone, StayHome, NEW d, NEW f, NEW x, Added(files, files', <<d, f>>, x)
    PROVE  Alone' /\ StayHome' /\ \A e : e # d => SameFiles(e)
<1>1. Alone'
  BY DEF Alone, Added
<1>2. StayHome'
  BY DEF StayHome, Added
<1>3. \A e : e # d => SameFiles(e)
  BY DEF Added, SameFiles
<1> QED BY <1>1, <1>2, <1>3

LEMMA DroppedFrame ==
    ASSUME Alone, StayHome, NEW d, NEW names \in SUBSET ({d} \X File),
           Dropped(files, files', names)
    PROVE  Alone' /\ StayHome' /\ \A e : e # d => SameFiles(e)
<1>1. Alone'
  BY DEF Alone, Dropped
<1>2. StayHome'
  BY DEF StayHome, Dropped
<1>3. \A e, f : e # d => <<e, f>> \notin names
  OBVIOUS
<1>4. \A e : e # d => SameFiles(e)
  BY <1>3 DEF Dropped, SameFiles
<1> QED BY <1>1, <1>2, <1>4

LEMMA WrittenFrame ==
    ASSUME Shape, NEW v \in VM, NEW f \in Writable, NEW x,
           Written(files, files', <<VMDir(v), f>>, x)
    PROVE  Alone' /\ StayHome' /\ \A e : e # VMDir(v) => SameFiles(e)
<1>1. Alone'
  BY DEF Shape, Alone, Written
<1>2. StayHome'
  BY DEF Shape, StayHome, Written
<1>3. ASSUME NEW e, e # VMDir(v), NEW g PROVE ~Joined(files, <<e, g>>, <<VMDir(v), f>>)
  <2> SUFFICES ASSUME Joined(files, <<e, g>>, <<VMDir(v), f>>) PROVE FALSE
    OBVIOUS
  <2>1. Joined(files, <<VMDir(v), f>>, <<e, g>>)
    BY Relations DEF Shape
  <2>2. \E h \in Writable : <<e, g>> = <<VMDir(v), h>>
    BY <2>1 DEF Shape, StayHome
  <2> QED BY <1>3, <2>2
<1>4. \A e : e # VMDir(v) => SameFiles(e)
  BY <1>3 DEF Written, SameFiles
<1> QED BY <1>1, <1>2, <1>4

\* A link into a VM's directory, of a file its guest only reads, or of its disk.
LEMMA LinkedFrame ==
    ASSUME Shape, NEW v \in VM, NEW d \in SnapDirs \cup {VMDir(v)}, NEW f \in File, NEW g \in File,
           IF d = VMDir(v) THEN f = "rdisk" /\ g = "disk" ELSE g \in {"saved", "kernel"},
           There(files, <<d, f>>),
           LinkedTo(files, files', <<d, f>>, <<VMDir(v), g>>)
    PROVE  Alone' /\ StayHome' /\ \A e : e # VMDir(v) => SameFiles(e)
<1> DEFINE p == <<VMDir(v), g>>
           q == <<d, f>>
<1>1. d \notin ImageDirs \cup OutputDirs /\ VMDir(v) \notin ImageDirs \cup OutputDirs
  BY Kinds, Directories
<1>2. p[1] = VMDir(v) /\ q[1] = d
  OBVIOUS
<1>3. \A a, b : Joined(files, a, b) => Joined(files, b, a)
  BY Relations DEF Shape
<1>4. \A a, b : Joined(files', a, b) => \/ Joined(files, a, b)
                                        \/ a = p /\ b = p
                                        \/ a = p /\ Joined(files, q, b)
                                        \/ b = p /\ Joined(files, a, q)
  BY DEF LinkedTo
<1>5. Alone'
  <2> SUFFICES ASSUME NEW a, NEW b, Joined(files', a, b), a[1] \in ImageDirs \cup OutputDirs
               PROVE  b = a
    BY DEF Alone
  <2>1. a # p /\ a # q
    BY <1>1, <1>2
  <2>2. Joined(files, a, b) \/ Joined(files, a, q)
    BY <1>4, <2>1
  <2> QED BY <2>1, <2>2 DEF Shape, Alone
<1>6. StayHome'
  <2> SUFFICES ASSUME NEW w \in VM, NEW h \in Writable, NEW b, Joined(files', <<VMDir(w), h>>, b)
               PROVE  \E k \in Writable : b = <<VMDir(w), k>>
    BY DEF StayHome
  <2> DEFINE a == <<VMDir(w), h>>
  <2>1. CASE d = VMDir(v)
    <3>1. f \in Writable /\ g \in Writable
      BY <2>1 DEF Writable
    <3>2. Joined(files, a, b) => \E k \in Writable : b = <<VMDir(w), k>>
      BY DEF Shape, StayHome
    <3>3. a = p => VMDir(w) = VMDir(v)
      OBVIOUS
    <3>4. Joined(files, q, b) => \E k \in Writable : b = <<VMDir(v), k>>
      BY <2>1, <3>1 DEF Shape, StayHome
    <3>5. Joined(files, a, q) => \E k \in Writable : q = <<VMDir(w), k>>
      BY DEF Shape, StayHome
    <3> QED BY <1>4, <2>1, <3>1, <3>2, <3>3, <3>4, <3>5
  <2>2. CASE d # VMDir(v)
    <3>1. g \notin Writable
      BY <2>2 DEF Writable
    <3>2. a # p
      BY <3>1
    <3>3. \A u \in VM : d # VMDir(u)
      BY <2>2, Kinds, Directories
    <3>4. ~Joined(files, a, q)
      BY <3>3 DEF Shape, StayHome
    <3> QED BY <1>4, <3>2, <3>4 DEF Shape, StayHome
  <2> QED BY <2>1, <2>2
<1>7. ASSUME NEW e, e # VMDir(v) PROVE SameFiles(e)
  <2>1. \A h : <<e, h>> # p
    BY <1>7
  <2> QED BY <2>1 DEF LinkedTo, SameFiles
<1> QED BY <1>5, <1>6, <1>7

\* A directory of builds becomes one of builds, or one of snapshots one of
\* snapshots.
LEMMA ShiftedFrame ==
    ASSUME Shape, Files(files'), NEW d \in Dir, NEW e \in Dir, d # e,
           \/ d \in OutputDirs /\ e \in ImageDirs \cup OutputDirs
           \/ d \in TempDirs /\ e \in SnapDirs,
           Shifted(files, files', d, e)
    PROVE  Alone' /\ StayHome' /\ \A k : k \notin {d, e} => SameFiles(k)
<1> DEFINE old(z) == IF z[1] = e THEN <<d, z[2]>> ELSE z
<1>1. \A a, b : Joined(files', a, b) => Joined(files, old(a), old(b)) /\ a[1] # d /\ b[1] # d
  BY DEF Shifted
<1>2. \A a, b : Joined(files', a, b) => There(files', a) /\ There(files', b)
  BY Relations
<1>3. \A a, b : Joined(files', a, b) => a = <<a[1], a[2]>> /\ b = <<b[1], b[2]>>
  BY <1>2, NamesArePairs
<1>4. Alone'
  <2> SUFFICES ASSUME NEW a, NEW b, Joined(files', a, b), a[1] \in ImageDirs \cup OutputDirs
               PROVE  b = a
    BY DEF Alone
  <2>1. Joined(files, old(a), old(b)) /\ a[1] # d /\ b[1] # d
    BY <1>1
  <2>2. a = <<a[1], a[2]>> /\ b = <<b[1], b[2]>>
    BY <1>3
  <2>3. CASE a[1] = e
    <3>1. d \in OutputDirs /\ old(a) = <<d, a[2]>> /\ old(a)[1] = d
      BY <2>3, Kinds, Directories
    <3>2. old(b) = old(a)
      BY <2>1, <3>1 DEF Shape, Alone
    <3>3. b[1] = e
      BY <2>1, <3>1, <3>2
    <3> QED BY <2>2, <2>3, <3>1, <3>2, <3>3
  <2>4. CASE a[1] # e
    <3>1. old(b) = a
      BY <2>1, <2>4 DEF Shape, Alone
    <3> QED BY <2>1, <2>2, <3>1
  <2> QED BY <2>3, <2>4
<1>5. StayHome'
  <2> SUFFICES ASSUME NEW w \in VM, NEW h \in Writable, NEW b, Joined(files', <<VMDir(w), h>>, b)
               PROVE  \E k \in Writable : b = <<VMDir(w), k>>
    BY DEF StayHome
  <2>1. VMDir(w) # e /\ VMDir(w) # d
    BY Kinds, Directories
  <2>2. Joined(files, <<VMDir(w), h>>, old(b))
    BY <1>1, <2>1
  <2>3. PICK k \in Writable : old(b) = <<VMDir(w), k>>
    BY <2>2 DEF Shape, StayHome
  <2>4. b[1] # e
    BY <2>1, <2>3
  <2> QED BY <2>3, <2>4
<1>6. ASSUME NEW k, k \notin {d, e} PROVE SameFiles(k)
  <2>1. /\ \A f, y : At(files', <<k, f>>, y) <=> At(files, <<k, f>>, y)
        /\ \A f, g : Joined(files, <<k, f>>, <<k, g>>) => Joined(files', <<k, f>>, <<k, g>>)
    BY <1>6 DEF Shifted
  <2>2. ASSUME NEW f, NEW g, Joined(files', <<k, f>>, <<k, g>>)
        PROVE  Joined(files, <<k, f>>, <<k, g>>)
    <3>1. old(<<k, f>>) = <<k, f>> /\ old(<<k, g>>) = <<k, g>>
      BY <1>6
    <3> QED BY <1>1, <2>2, <3>1
  <2> QED BY <2>1, <2>2 DEF SameFiles
<1> QED BY <1>4, <1>5, <1>6

-----------------------------------------------------------------------------
(* The steps of a build *)

Kept(d) == SameFiles(d) /\ meta'[d] = meta[d] /\ (d \in dirs' <=> d \in dirs)

\* Files of d may have gone, and d itself, but nothing has come.
Fewer(d) == \A f, y : At(files', <<d, f>>, y) => At(files, <<d, f>>, y)
Fades(d) == Fewer(d) /\ meta'[d] \in {None, meta[d]} /\ (d \in dirs' => d \in dirs)

LEMMA QuietFrame ==
    ASSUME Shape, files' = files
    PROVE  Shape' /\ \A d : SameFiles(d)
BY DEF Shape, Alone, StayHome, SameFiles

LEMMA WipeFrame ==
    ASSUME Shape, Typed, NEW d \in Dir, Wipe(d)
    PROVE  /\ Shape' /\ \A e \in Dir \ {d} : Kept(e)
           /\ \A f \in File : ~There(files', <<d, f>>)
<1>1. Files(files') /\ Dropped(files, files', {d} \X File)
  BY WipeDrops DEF Shape
<1>2. Alone' /\ StayHome' /\ \A e : e # d => SameFiles(e)
  BY <1>1, DroppedFrame DEF Shape
<1>3. \A e \in Dir \ {d} : meta'[e] = meta[e] /\ (e \in dirs' <=> e \in dirs)
  BY DEF Wipe, Typed
<1>4. \A f \in File : ~There(files', <<d, f>>)
  BY <1>1 DEF Dropped, There
<1> QED BY <1>1, <1>2, <1>3, <1>4 DEF Shape, Kept

\* One step of a removal takes files away and leaves the rest.
LEMMA RemoveFrame ==
    ASSUME Shape, Typed, NEW d \in Dir, RemoveFile(d) \/ RemoveDir(d)
    PROVE  /\ Shape' /\ \A e \in Dir \ {d} : Kept(e)
           /\ Fades(d)
<1>1. CASE RemoveFile(d)
  <2>1. PICK names \in SUBSET ({d} \X File) : Files(files') /\ Dropped(files, files', names)
    BY <1>1, RemoveFileDrops DEF Shape
  <2>2. Alone' /\ StayHome' /\ \A e : e # d => SameFiles(e)
    BY <2>1, DroppedFrame DEF Shape
  <2>3. \A e \in Dir \ {d} : meta'[e] = meta[e] /\ (e \in dirs' <=> e \in dirs)
    BY <1>1 DEF RemoveFile, Typed
  <2>4. meta'[d] \in {None, meta[d]} /\ (d \in dirs' => d \in dirs)
    BY <1>1 DEF RemoveFile, Typed
  <2>5. \A f, y : At(files', <<d, f>>, y) => At(files, <<d, f>>, y)
    BY <2>1 DEF Dropped
  <2> QED BY <2>1, <2>2, <2>3, <2>4, <2>5 DEF Shape, Kept, Fades, Fewer
<1>2. CASE RemoveDir(d)
  BY <1>2, QuietFrame DEF RemoveDir, Kept, Typed, SameFiles, Fades, Fewer
<1> QED BY <1>1, <1>2

LEMMA MoveFrame ==
    ASSUME Shape, Typed, NEW d \in Dir, NEW e \in Dir, d # e, MoveDir(d, e),
           \/ d \in OutputDirs /\ e \in ImageDirs \cup OutputDirs
           \/ d \in TempDirs /\ e \in SnapDirs
    PROVE  /\ Shape' /\ \A k \in Dir \ {d, e} : Kept(k)
           /\ \A f, y : At(files', <<e, f>>, y) <=> At(files, <<d, f>>, y)
           /\ \A f : ~There(files', <<d, f>>)
<1>1. Files(files') /\ Shifted(files, files', d, e)
  BY MoveDirShifts DEF Shape
<1>2. Alone' /\ StayHome' /\ \A k : k \notin {d, e} => SameFiles(k)
  BY <1>1, ShiftedFrame
<1>3. \A k \in Dir \ {d, e} : meta'[k] = meta[k] /\ (k \in dirs' <=> k \in dirs)
  BY DEF MoveDir, Typed
<1>4. \A f, y : At(files', <<e, f>>, y) <=> At(files, <<d, f>>, y)
  BY <1>1 DEF Shifted
<1>5. \A f : ~There(files', <<d, f>>)
  BY <1>1 DEF Shifted, There
<1> QED BY <1>1, <1>2, <1>3, <1>4, <1>5 DEF Shape, Kept

LEMMA BuildDirs ==
    ASSUME Control, NEW c \in Cli, c \in Building
    PROVE  /\ Built(c) \in Image /\ job[c].name = ImageDir(Built(c)) /\ job[c].name \in ImageDirs
           /\ StagingDir(Built(c)) \in OutputDirs /\ InstallDir(Built(c)) \in OutputDirs
           /\ StagingDir(Built(c)) # InstallDir(Built(c))
           /\ StagingDir(Built(c)) \in Dir /\ InstallDir(Built(c)) \in Dir /\ job[c].name \in Dir
           /\ job[c].name \notin {StagingDir(Built(c)), InstallDir(Built(c))}
           /\ job[c].src = None /\ job[c].dst = None
BY Kinds, Directories, InDir DEF Control, Jobs, JobOK, Building, Built, StagingDir, InstallDir,
   OutputDirs

LEMMA BuildFilesStep ==
    ASSUME Control, Shape, ImageFiles, NEW c \in Cli, c \in Building, Build(c)
    PROVE  /\ Shape' /\ BuildFiles(c)' /\ Match(files', job[c].name, "kernel", "disk")
           /\ Fades(job[c].name) \/ (CanMove(job[c].name) /\ BuildInstall(c))
           /\ \A d \in Dir \ {StagingDir(Built(c)), InstallDir(Built(c)), job[c].name} : Kept(d)
<1> DEFINE S == StagingDir(Built(c))
           I == InstallDir(Built(c))
           N == job[c].name
<1> USE DEF disk, cmd, imageVars, machines, Goto, Return
<1>0. Kept(N) => Fades(N)
  BY DEF Kept, SameFiles, Fades, Fewer
<1>1. /\ N = ImageDir(Built(c)) /\ Built(c) \in Image /\ S \in Dir /\ I \in Dir /\ N \in Dir
      /\ S # I /\ N \notin {S, I} /\ S \in OutputDirs /\ I \in OutputDirs /\ N \in ImageDirs
  BY BuildDirs
<1>2. Typed /\ Files(files)
  BY DEF Control, Shape
<1>3. Match(files, N, "kernel", "disk") /\ BuildFiles(c)
  BY <1>1 DEF ImageFiles
<1>4. {"kernel", "disk"} \subseteq File
  BY DEF File
<1>5. /\ job'[c].name = N \/ pc'[c] = "idle"
      /\ job'[c].name = N => Built(c)' = Built(c) /\ StagingDir(Built(c))' = S /\ InstallDir(Built(c))' = I
  <2>1. job[c] \in Job
    BY <1>2 DEF Typed
  <2>2. ~\E i \in Image, f \in BOOLEAN : BuildBegin(c, i, f)
    BY DEF BuildBegin, Begin, Building, BuildSteps
  <2>3. \/ job' = job
        \/ job' = [job EXCEPT ![c].refresh = TRUE]
        \/ pc' = [pc EXCEPT ![c] = "idle"]
    BY <2>2 DEF Build, ResolveTemplate, TemplateTmp, TemplateFill, TemplateMove, TemplateAside,
       TemplateSwap, BuildClear, BuildRun, BuildOutput, BuildVerify, BuildStage, BuildReplace,
       BuildInstall, BuildFail
  <2>4. CASE job' = job \/ job' = [job EXCEPT ![c].refresh = TRUE]
    BY <1>2, <2>1, <2>4 DEF Typed, Job, Built, StagingDir, InstallDir
  <2>5. CASE pc' = [pc EXCEPT ![c] = "idle"]
    BY <1>2, <2>5 DEF Typed, Built, StagingDir, InstallDir
  <2> QED BY <2>3, <2>4, <2>5
<1> HIDE DEF S, I, N
<1>6. ASSUME UNCHANGED <<dirs, files, meta>>
      PROVE  /\ Shape' /\ Match(files', N, "kernel", "disk") /\ \A d \in Dir : Kept(d)
             /\ Fades(N)
  BY <1>3, <1>6, QuietFrame DEF Match, Kept, Fades, Fewer
<1>7. CASE \/ ResolveTemplate(c) \/ TemplateTmp(c) \/ TemplateFill(c) \/ TemplateMove(c)
           \/ TemplateAside(c) \/ TemplateSwap(c) \/ BuildFail(c)
  <2>1. UNCHANGED <<dirs, files, meta>> /\ pc'[c] \notin {"build.run", "build.output",
           "build.verify", "build.stage", "build.replace", "build.install"}
    BY <1>2, <1>7 DEF ResolveTemplate, TemplateTmp, TemplateFill, TemplateMove, TemplateAside,
       TemplateSwap, BuildFail, Typed
  <2> QED BY <1>6, <2>1 DEF BuildFiles, S, I, N
<1>8. CASE BuildVerify(c)
  <2>1. UNCHANGED <<dirs, files, meta, job>> /\ pc[c] = "build.verify" /\ pc'[c] = "build.stage"
    BY <1>2, <1>8 DEF BuildVerify, Typed
  <2> QED BY <1>3, <1>6, <2>1 DEF BuildFiles, S, I, N, Built
<1>9. CASE BuildClear(c)
  <2>1. Wipe(S) /\ pc'[c] = "build.run" /\ job' = job
    BY <1>2, <1>9 DEF BuildClear, S, Typed
  <2>2. /\ Shape' /\ \A e \in Dir \ {S} : Kept(e)
        /\ \A f \in File : ~There(files', <<S, f>>)
    BY <1>1, <1>2, <2>1, WipeFrame
  <2>3. Match(files', N, "kernel", "disk")
    BY <1>1, <1>3, <2>2 DEF Kept, SameFiles, Match
  <2> QED BY <1>0, <1>1, <1>4, <2>1, <2>2, <2>3 DEF BuildFiles, S, I, N, Built
<1>10. CASE BuildRun(c)
  <2>1. /\ NewFile(S, "kernel", stamp + 1) /\ pc[c] = "build.run" /\ pc'[c] = "build.output"
        /\ stamp + 1 \in Stamp /\ job' = job /\ meta' = meta /\ dirs' = dirs \cup {S}
    BY <1>2, <1>10, ArtifactConstants DEF BuildRun, S, Typed, Stamp
  <2>2. ~There(files, <<S, "kernel">>) /\ ~There(files, <<S, "disk">>)
    BY <1>3, <2>1 DEF BuildFiles, S
  <2>3. Files(files') /\ Added(files, files', <<S, "kernel">>, stamp + 1)
    BY <1>1, <1>2, <1>4, <2>1, <2>2, NewFileAdds
  <2>4. Alone' /\ StayHome' /\ \A e : e # S => SameFiles(e)
    BY <2>3, AddedFrame DEF Shape
  <2>5. ~There(files', <<S, "disk">>)
    BY <2>2, <2>3 DEF Added, There
  <2>6. \A e \in Dir \ {S} : Kept(e)
    BY <2>1, <2>4 DEF Kept
  <2>7. Match(files', N, "kernel", "disk")
    BY <1>1, <1>3, <2>6 DEF Kept, SameFiles, Match
  <2> QED BY <1>0, <1>1, <2>1, <2>3, <2>4, <2>5, <2>6, <2>7 DEF BuildFiles, S, I, N, Built, Shape
<1>11. CASE BuildOutput(c)
  <2>1. /\ NewFile(S, "disk", Content(S, "kernel")) /\ Has(S, "kernel")
        /\ pc[c] = "build.output" /\ pc'[c] = "build.verify"
        /\ job' = job /\ meta' = [meta EXCEPT ![S] = Built(c)] /\ dirs' = dirs
    BY <1>2, <1>11 DEF BuildOutput, S, Typed
  <2>2. ~There(files, <<S, "disk">>)
    BY <1>3, <2>1 DEF BuildFiles, S
  <2>3. There(files, <<S, "kernel">>)
    BY <1>2, <2>1, Content_At
  <2>4. PICK x \in Stamp : At(files, <<S, "kernel">>, x)
    BY <1>2, <2>3, Relations
  <2>5. Content(S, "kernel") = x
    BY <1>2, <2>4, Content_At
  <2>6. Files(files') /\ Added(files, files', <<S, "disk">>, x)
    BY <1>1, <1>2, <1>4, <2>1, <2>2, <2>5, NewFileAdds
  <2>7. Alone' /\ StayHome' /\ \A e : e # S => SameFiles(e)
    BY <2>6, AddedFrame DEF Shape
  <2>8. \A e \in Dir \ {S} : Kept(e)
    BY <1>2, <2>1, <2>7 DEF Kept, Typed
  <2>9. \A y : At(files, <<S, "kernel">>, y) => y = x
    BY <1>2, <2>3, <2>4, Relations DEF There
  <2>10. Match(files', S, "kernel", "disk")
    <3>1. \A y : At(files', <<S, "kernel">>, y) => y = x
      BY <2>6, <2>9 DEF Added
    <3>2. \A y : At(files', <<S, "disk">>, y) => y = x
      BY <1>2, <2>2, <2>6, Relations DEF Added
    <3> QED BY <3>1, <3>2 DEF Match
  <2>11. Match(files', N, "kernel", "disk")
    BY <1>1, <1>3, <2>8 DEF Kept, SameFiles, Match
  <2> QED BY <1>0, <1>1, <2>1, <2>6, <2>7, <2>8, <2>10, <2>11 DEF BuildFiles, S, I, N, Built, Shape
<1>12. CASE BuildStage(c)
  <2>1. /\ MoveDir(S, I) /\ pc[c] = "build.stage" /\ pc'[c] \in {"build.replace", "build.install"}
        /\ job' = job
    BY <1>2, <1>12 DEF BuildStage, S, I, Typed
  <2>2. /\ Shape' /\ \A k \in Dir \ {S, I} : Kept(k)
        /\ \A f, y : At(files', <<I, f>>, y) <=> At(files, <<S, f>>, y)
    BY <1>1, <1>2, <2>1, MoveFrame
  <2>3. Match(files', I, "kernel", "disk")
    BY <1>3, <2>1, <2>2 DEF BuildFiles, Match, S
  <2>4. Match(files', N, "kernel", "disk")
    BY <1>1, <1>3, <2>2 DEF Kept, SameFiles, Match
  <2> QED BY <1>0, <1>1, <2>1, <2>2, <2>3, <2>4 DEF BuildFiles, S, I, N, Built
<1>13. CASE BuildReplace(c)
  <2>1. /\ RemoveFile(N) \/ RemoveDir(N)
        /\ pc[c] = "build.replace" /\ pc'[c] \in {"build.replace", "build.install"} /\ job' = job
    BY <1>2, <1>13 DEF BuildReplace, N, Typed
  <2>2. /\ Shape' /\ \A e \in Dir \ {N} : Kept(e)
        /\ Fades(N)
    BY <1>1, <1>2, <2>1, RemoveFrame
  <2>3. Match(files', I, "kernel", "disk")
    BY <1>1, <1>3, <2>1, <2>2 DEF BuildFiles, Match, I, Kept, SameFiles
  <2>4. Match(files', N, "kernel", "disk")
    BY <1>3, <2>2 DEF Match, Fades, Fewer
  <2> QED BY <2>1, <2>2, <2>3, <2>4 DEF BuildFiles, S, I, N, Built
<1>14. CASE BuildInstall(c)
  <2>1. /\ pc[c] = "build.install" /\ pc'[c] = "idle"
        /\ (CanMove(N) /\ MoveDir(I, N)) \/ Wipe(I)
    BY <1>2, <1>14 DEF BuildInstall, I, N, Typed
  <2>2. CASE CanMove(N) /\ MoveDir(I, N)
    <3>1. /\ Shape' /\ \A k \in Dir \ {I, N} : Kept(k)
          /\ \A f, y : At(files', <<N, f>>, y) <=> At(files, <<I, f>>, y)
      BY <1>1, <1>2, <2>2, MoveFrame
    <3>2. Match(files', N, "kernel", "disk")
      BY <1>3, <2>1, <3>1 DEF BuildFiles, Match, I
    <3> QED BY <1>14, <2>1, <2>2, <3>1, <3>2 DEF BuildFiles, S, I, N
  <2>3. CASE Wipe(I)
    <3>1. Shape' /\ \A e \in Dir \ {I} : Kept(e)
      BY <1>1, <1>2, <2>3, WipeFrame
    <3>2. Match(files', N, "kernel", "disk")
      BY <1>1, <1>3, <3>1 DEF Match, Kept, SameFiles
    <3> QED BY <1>0, <1>1, <2>1, <3>1, <3>2 DEF BuildFiles, S, I, N
  <2> QED BY <2>1, <2>2, <2>3
<1>15. ~\E i \in Image, f \in BOOLEAN : BuildBegin(c, i, f)
  BY DEF BuildBegin, Begin, Building, BuildSteps
<1> QED BY <1>7, <1>8, <1>9, <1>10, <1>11, <1>12, <1>13, <1>14, <1>15 DEF Build, S, I, N

-----------------------------------------------------------------------------
(* What a step that touches one directory leaves as it was *)

Filling == {"build.run", "build.output", "build.verify", "build.stage", "build.replace",
            "build.install"}

Public == ImageDirs \cup SnapDirs

\* A command that makes a VM in d takes a step.
Busy(d) ==
    \A c \in Cli : Creating(c) /\ job[c].dst = d => pc'[c] # pc[c] \/ todo'[c] # todo[c]

\* No create copies from d.
Unread(d) ==
    \A c \in Cli : pc[c] \in {"image.copy", "restore.copy"} => job[c].src # d

\* A step changes one directory that others can see: of a public one it takes
\* something away, or it puts something where nothing was and, if sources are
\* kept, nobody reads; one that is being made changes only by the command that
\* makes it.
OneChange ==
    \E d \in Dir : /\ \A e \in (Public \cup VMDirs) \ {d} : Kept(e)
                   /\ d \in Public => \/ Fades(d)
                                      \/ CanMove(d) /\ (SourcesKept => Unread(d))
                   /\ d \in VMDirs => Busy(d)

\* The files of d change, and no others; nor does what list and inspect read of
\* another directory.
Only(d) == /\ \A e \in Dir \ {d} : SameFiles(e)
           /\ \A e \in (Public \cup VMDirs) \ {d} : Kept(e)

LEMMA OnlyOne ==
    ASSUME NEW d, \A e \in Dir \ {d} : Kept(e) PROVE Only(d)
BY Directories DEF Only, Kept, Public

LEMMA PublicHold ==
    ASSUME NEW asked, Typed, Jobs, ImageFiles, \A s \in Snap : SnapOK(asked, s),
           NEW d \in Dir \ OutputDirs, Only(d),
           d \in Public => Fades(d), d \in VMDirs => Busy(d),
           \A e \in Cli : pc'[e] \in Filling => pc'[e] = pc[e] /\ job'[e] = job[e]
    PROVE  ImageFiles' /\ (\A s \in Snap : SnapOK(asked, s)') /\ OneChange
<1>1. ASSUME NEW e \in Public PROVE Fewer(e)
  <2>1. e \in Dir
    BY Directories DEF Public
  <2> QED BY <2>1 DEF Only, SameFiles, Fades, Fewer
<1>2. \A i \in Image : Match(files', ImageDir(i), "kernel", "disk")
  BY <1>1, Kinds DEF ImageFiles, Match, Fewer, Public
<1>3. ASSUME NEW e \in Cli PROVE BuildFiles(e)'
  <2>1. CASE pc'[e] \notin Filling
    BY <2>1 DEF BuildFiles, Filling
  <2>2. CASE pc'[e] \in Filling
    <3>1. pc'[e] = pc[e] /\ job'[e] = job[e] /\ Built(e)' = Built(e)
      BY <2>2 DEF Built
    <3>2. Built(e) \in Image
      BY <2>2, <3>1, Kinds DEF Jobs, JobOK, Filling, BuildSteps, Built
    <3>3. /\ StagingDir(Built(e))' = StagingDir(Built(e))
          /\ InstallDir(Built(e))' = InstallDir(Built(e))
      BY <3>1 DEF StagingDir, InstallDir
    <3>4. {StagingDir(Built(e)), InstallDir(Built(e))} \subseteq OutputDirs
      BY <3>2, Kinds DEF OutputDirs
    <3>5. {StagingDir(Built(e)), InstallDir(Built(e))} \subseteq Dir \ {d}
      BY <3>4, Directories
    <3>6. SameFiles(StagingDir(Built(e))) /\ SameFiles(InstallDir(Built(e)))
      BY <3>5 DEF Only
    <3>7. BuildFiles(e)
      BY DEF ImageFiles
    <3> QED BY <3>1, <3>3, <3>6, <3>7 DEF BuildFiles, SameFiles, Match, There
  <2> QED BY <2>1, <2>2
<1>4. \A s \in Snap : SnapOK(asked, s)'
  BY <1>1, Kinds DEF SnapOK, Match, Fewer, Public, SnapDir
<1>5. OneChange
  BY Directories DEF OneChange, Only
<1> QED BY <1>2, <1>3, <1>4, <1>5 DEF ImageFiles

\* Nor does a write to a file of the VM disturb it.
LEMMA VMKeepsNames ==
    ASSUME NEW v \in VM, VMOK(v),
           \A f : There(files', <<VMDir(v), f>>) <=> There(files, <<VMDir(v), f>>),
           VMDir(v) \in dirs => VMDir(v) \in dirs',
           guest'[v].run # "off" =>
              guest[v].run # "off" \/ There(files, <<VMDir(v), Opened(files, v)>>),
           backend' = backend,
           \A c \in Cli : job'[c].dst = VMDir(v) /\ pc'[c] \in {"image.copy", "restore.copy"} =>
              job[c].dst = VMDir(v) /\ pc[c] = pc'[c]
    PROVE  VMOK(v)'
<1>1. VMDir(v)' = VMDir(v)
  BY DEF VMDir
<1>2. Opened(files, v)' = Opened(files, v)
  BY <1>1 DEF Opened
<1> QED BY <1>1, <1>2 DEF VMOK

LEMMA VMStays ==
    ASSUME NEW v \in VM, VMOK(v), SameFiles(VMDir(v)), VMDir(v) \in dirs => VMDir(v) \in dirs',
           guest'[v].run # "off" =>
              guest[v].run # "off" \/ There(files, <<VMDir(v), Opened(files, v)>>),
           backend' = backend,
           \A c \in Cli : job'[c].dst = VMDir(v) /\ pc'[c] \in {"image.copy", "restore.copy"} =>
              job[c].dst = VMDir(v) /\ pc[c] = pc'[c]
    PROVE  VMOK(v)'
BY VMKeepsNames DEF SameFiles, There

\* A VM that is about to be made has no files yet.
LEMMA VMBegins ==
    ASSUME Owners, NEW v \in VM, VMOK(v), VMDir(v) \notin dirs, files' = files, guest' = guest
    PROVE  VMOK(v)'
<1>1. VMDir(v)' = VMDir(v)
  BY DEF VMDir
<1>2. {"saved", "disk"} \subseteq File
  BY DEF File
<1>3. \A f \in File : ~There(files', <<VMDir(v), f>>)
  BY DEF VMOK
<1>4. guest'[v].run = "off"
  BY DEF Owners, NoGuest
<1> QED BY <1>1, <1>2, <1>3, <1>4 DEF VMOK

LEMMA TempStays ==
    ASSUME NEW asked, NEW c \in Cli, TempOK(asked, c), SameFiles(TempDir(c)),
           pc[c] \in Saved => pc'[c] \in Saved,
           pc'[c] = "snap.copy" => /\ pc[c] = "snap.copy" /\ job'[c] = job[c]
                                   /\ "pairs" \in asked => Fewer(job[c].src)
    PROVE  TempOK(asked, c)'
<1>1. TempDir(c)' = TempDir(c)
  BY DEF TempDir
<1>2. /\ \A f : There(files', <<TempDir(c), f>>) <=> There(files, <<TempDir(c), f>>)
      /\ \A f, y : At(files', <<TempDir(c), f>>, y) <=> At(files, <<TempDir(c), f>>, y)
  BY DEF SameFiles, There
<1>3. \A f \in File : There(files', <<TempDir(c), f>>) => pc'[c] \in Saved
  BY <1>2 DEF TempOK
<1>4. ASSUME "pairs" \in asked PROVE Pair(c)'
  <2>1. Match(files', TempDir(c), "saved", "disk")
    BY <1>2, <1>4 DEF TempOK, Pair, Match
  <2>2. pc'[c] = "snap.copy" =>
           \A x, y : At(files', <<TempDir(c), "saved">>, x) /\ At(files', <<job'[c].src, "disk">>, y)
                       => x = y
    BY <1>2, <1>4 DEF TempOK, Pair, Fewer
  <2> QED BY <1>1, <2>1, <2>2 DEF Pair
<1> QED BY <1>1, <1>3, <1>4 DEF TempOK

\* A snapshot that is over has no files in its directory.
LEMMA TempEmpty ==
    ASSUME NEW asked, NEW c \in Cli, \A f \in File : ~There(files', <<TempDir(c), f>>),
           pc'[c] # "snap.copy", Files(files')
    PROVE  TempOK(asked, c)'
<1>1. TempDir(c)' = TempDir(c)
  BY DEF TempDir
<1>2. "saved" \in File
  BY DEF File
<1>3. Match(files', TempDir(c), "saved", "disk")
  BY <1>2, Relations DEF Match
<1> QED BY <1>1, <1>3 DEF TempOK, Pair

-----------------------------------------------------------------------------
(* The steps that change no file *)

\* The command e begins nothing that makes files, and does not end a snapshot.
Onward(e) ==
    /\ pc'[e] \in Filling => pc'[e] = pc[e] /\ job'[e] = job[e]
    /\ pc'[e] \in {"image.copy", "restore.copy"} =>
          pc'[e] = pc[e] /\ job'[e] = job[e]
    /\ pc[e] \in Saved => pc'[e] \in Saved
    /\ pc'[e] = "snap.copy" => pc[e] = "snap.copy" /\ job'[e] = job[e]

LEMMA OthersOnward ==
    ASSUME NEW c \in Cli, Others(c) PROVE \A e \in Cli \ {c} : Onward(e)
BY DEF Others, Onward

LEMMA QuietStep ==
    ASSUME NEW asked, Typed, Jobs, FileInv(asked), files' = files, backend' = backend,
           NEW d \in VMDirs \cup TempDirs, d \in VMDirs => Busy(d),
           \A e \in Dir \ {d} : meta'[e] = meta[e] /\ (e \in dirs' <=> e \in dirs),
           \A v \in VM : VMDir(v) \in dirs => VMDir(v) \in dirs',
           \A v \in VM : guest'[v].run # "off" =>
              guest[v].run # "off" \/ There(files, <<VMDir(v), Opened(files, v)>>),
           \A e \in Cli : Onward(e)
    PROVE  FileInv(asked)' /\ OneChange
<1>1. Shape' /\ \A e : SameFiles(e)
  BY QuietFrame DEF FileInv
<1>2. \A e \in Dir \ {d} : Kept(e)
  BY <1>1 DEF Kept
<1>3. d \in Dir \ OutputDirs /\ d \notin Public
  BY Directories DEF Public
<1>4. ImageFiles' /\ (\A s \in Snap : SnapOK(asked, s)') /\ OneChange
  BY <1>2, <1>3, OnlyOne, PublicHold DEF FileInv, SnapFiles, Onward
<1>5. ASSUME NEW v \in VM PROVE VMOK(v)'
  BY <1>1, VMStays DEF FileInv, VMFiles, Onward
<1>6. ASSUME NEW e \in Cli PROVE TempOK(asked, e)'
  BY <1>1, TempStays DEF FileInv, SnapFiles, Onward, Fewer
<1> QED BY <1>1, <1>4, <1>5, <1>6 DEF FileInv, VMFiles, SnapFiles

LEMMA QuietBegins ==
    ASSUME NEW asked, Control, FileInv(asked), NEW c \in Cli, Others(c),
           \/ \E i \in Image, f \in BOOLEAN : BuildBegin(c, i, f)
           \/ \E i \in Image : DeleteImage(c, i)
           \/ \E v \in VM, s \in Snap : SnapshotCreate(c, v, s)
           \/ \E ss \in SUBSET Snap : Prune(c, ss)
    PROVE  FileInv(asked)' /\ OneChange
<1> USE DEF disk, cmd, imageVars, snapVars, machines
<1>1. /\ pc[c] = "idle" /\ pc'[c] \in {"build.template", "remove", "snap.save", "prune"}
      /\ files' = files /\ backend' = backend /\ meta' = meta /\ guest' = guest
      /\ dirs' = dirs \/ dirs' = dirs \cup {TempDir(c)}
  BY DEF Control, Typed, BuildBegin, DeleteImage, SnapshotCreate, Prune, Begin, Goto
<1>2. TempDir(c) \in VMDirs \cup TempDirs /\ TempDir(c) \notin VMDirs
  BY Kinds, Directories
<1>3. Onward(c)
  BY <1>1 DEF Onward, Filling, Saved
<1>4. \A e \in Cli : Onward(e)
  BY <1>3, OthersOnward
<1> QED BY <1>1, <1>2, <1>4, QuietStep DEF Control

LEMMA QuietSteps ==
    ASSUME NEW asked, Control, FileInv(asked), NEW c \in Cli, Others(c), files' = files,
           \/ CreateState(c) \/ CreateMetadata(c) \/ SnapMetadata(c) \/ SnapShutdown(c)
           \/ PruneNext(c)
    PROVE  FileInv(asked)' /\ OneChange
<1> USE DEF disk, cmd, imageVars, snapVars, machines
<1>1. TempDir(c) \in VMDirs \cup TempDirs /\ TempDir(c) \notin VMDirs
  BY Kinds, Directories
<1>2. CASE CreateState(c)
  <2>1. /\ backend' = backend /\ meta' = meta /\ dirs' = dirs /\ pc[c] = "vm.state"
        /\ pc'[c] = "idle" /\ guest' = [guest EXCEPT ![job[c].dst[2]].status = "stopped"]
    BY <1>2 DEF CreateState, Return, Goto, Control, Typed
  <2>2. \A v \in VM : guest'[v].run = guest[v].run
    BY <2>1 DEF Control, Typed, Guest
  <2>3. Onward(c)
    BY <2>1 DEF Onward, Filling, Saved
  <2>4. \A e \in Cli : Onward(e)
    BY <2>3, OthersOnward
  <2> QED BY <1>1, <2>1, <2>2, <2>4, QuietStep DEF Control
<1>3. CASE CreateMetadata(c)
  <2>1. /\ backend' = backend /\ dirs' = dirs /\ guest' = guest
        /\ meta' = [meta EXCEPT ![job[c].dst] = job[c].name[2]]
        /\ pc[c] \in {"image.copy", "restore.copy"} /\ pc'[c] = "vm.state"
    BY <1>3 DEF CreateMetadata, InjectKey, Goto, Control, Typed
  <2>2. job[c].dst \in VMDirs \cup TempDirs
    BY <2>1 DEF Control, Jobs, JobOK, Creating
  <2>3. \A e \in Dir \ {job[c].dst} : meta'[e] = meta[e]
    BY <2>1 DEF Control, Typed
  <2>4. Onward(c)
    BY <2>1 DEF Onward, Filling, Saved
  <2>5. \A e \in Cli : Onward(e)
    BY <2>4, OthersOnward
  <2>6. Busy(job[c].dst)
    BY <2>1 DEF Busy, Creating, Control, Owners
  <2> QED BY <2>1, <2>2, <2>3, <2>5, <2>6, QuietStep DEF Control
<1>4. CASE SnapMetadata(c)
  <2>1. /\ backend' = backend /\ dirs' = dirs /\ guest' = guest
        /\ meta' = [meta EXCEPT ![TempDir(c)] = meta[VMDir(Source(c))]]
        /\ pc[c] = "snap.copy" /\ pc'[c] = "snap.shutdown"
    BY <1>4 DEF SnapMetadata, Goto, Control, Typed
  <2>2. \A e \in Dir \ {TempDir(c)} : meta'[e] = meta[e]
    BY <2>1 DEF Control, Typed
  <2>3. Onward(c)
    BY <2>1 DEF Onward, Filling, Saved
  <2>4. \A e \in Cli : Onward(e)
    BY <2>3, OthersOnward
  <2> QED BY <1>1, <2>1, <2>2, <2>4, QuietStep DEF Control
<1>5. CASE SnapShutdown(c)
  <2>1. /\ backend' = backend /\ meta' = meta /\ dirs' = dirs /\ pc[c] = "snap.shutdown"
        /\ pc'[c] = "snap.publish"
        /\ guest' = [guest EXCEPT ![Source(c)] =
                        [status |-> "stopped", run |-> IF backend = "ch" THEN "off" ELSE @.run]]
    BY <1>5 DEF SnapShutdown, Goto, Control, Typed
  <2>2. \A v \in VM : guest'[v].run # "off" => guest[v].run # "off"
    BY <2>1 DEF Control, Typed
  <2>3. Onward(c)
    BY <2>1 DEF Onward, Filling, Saved
  <2>4. \A e \in Cli : Onward(e)
    BY <2>3, OthersOnward
  <2> QED BY <1>1, <2>1, <2>2, <2>4, QuietStep DEF Control
<1>6. CASE PruneNext(c)
  <2>1. /\ backend' = backend /\ meta' = meta /\ dirs' = dirs /\ guest' = guest
        /\ pc[c] = "prune" /\ pc'[c] \in {"idle", "prune.remove"}
    BY <1>6 DEF PruneNext, Return, Goto, Control, Typed
  <2>2. Onward(c)
    BY <2>1 DEF Onward, Filling, Saved
  <2>3. \A e \in Cli : Onward(e)
    BY <2>2, OthersOnward
  <2> QED BY <1>1, <2>1, <2>3, QuietStep DEF Control
<1> QED BY <1>2, <1>3, <1>4, <1>5, <1>6

LEMMA CreateBegins ==
    ASSUME NEW asked, Control, FileInv(asked), NEW c \in Cli, Others(c), NEW v \in VM,
           \/ \E i \in Image : CreateFromImage(c, v, i)
           \/ \E s \in Snap : CreateFromSnapshot(c, v, s)
    PROVE  FileInv(asked)' /\ OneChange
<1> USE DEF disk, cmd, imageVars, snapVars, machines
<1>1. /\ pc[c] = "idle" /\ pc'[c] \in {"image.copy", "restore.copy"}
      /\ files' = files /\ backend' = backend /\ meta' = meta /\ guest' = guest
      /\ VMDir(v) \notin dirs /\ dirs' = dirs \cup {VMDir(v)}
  BY DEF Control, Typed, CreateFromImage, CreateFromSnapshot, Begin, Goto
<1>2. job'[c].dst = VMDir(v)
  BY DEF Control, Typed, CreateFromImage, CreateFromSnapshot, Begin, NoJob
<1>3. Shape' /\ \A e : SameFiles(e)
  BY <1>1, QuietFrame DEF FileInv
<1>4. VMDir(v) \in Dir \ OutputDirs /\ VMDir(v) \notin Public
  BY Kinds, Directories DEF Public
<1>5. \A e \in Dir \ {VMDir(v)} : Kept(e)
  BY <1>1, <1>3 DEF Kept
<1>6. \A e \in Cli \ {c} : Onward(e)
  BY OthersOnward
<1>7. ImageFiles' /\ (\A s \in Snap : SnapOK(asked, s)') /\ OneChange
  <2>1. \A e \in Cli : pc'[e] \in Filling => pc'[e] = pc[e] /\ job'[e] = job[e]
    BY <1>1, <1>6 DEF Onward, Filling
  <2>2. Busy(VMDir(v))
    BY <1>1 DEF Busy, Control, Owners
  <2> QED BY <1>4, <1>5, <2>1, <2>2, OnlyOne, PublicHold DEF Control, FileInv, SnapFiles
<1>8. ASSUME NEW e \in Cli PROVE TempOK(asked, e)'
  <2>1. /\ pc[e] \in Saved => pc'[e] \in Saved
        /\ pc'[e] = "snap.copy" => pc[e] = "snap.copy" /\ job'[e] = job[e]
    BY <1>1, <1>6 DEF Onward, Saved
  <2> QED BY <1>3, <2>1, TempStays DEF FileInv, SnapFiles, Fewer, SameFiles
<1>9. ASSUME NEW w \in VM PROVE VMOK(w)'
  <2>1. CASE w = v
    BY <1>1, <2>1, VMBegins DEF Control, FileInv, VMFiles
  <2>2. CASE w # v
    <3>1. VMDir(w) # VMDir(v)
      BY <2>2 DEF VMDir
    <3>2. \A e \in Cli : job'[e].dst = VMDir(w) /\ pc'[e] \in {"image.copy", "restore.copy"} =>
             job[e].dst = VMDir(w) /\ pc[e] = pc'[e]
      BY <1>2, <1>6, <3>1 DEF Onward
    <3> QED BY <1>1, <1>3, <3>2, VMStays DEF FileInv, VMFiles
  <2> QED BY <2>1, <2>2
<1> QED BY <1>3, <1>7, <1>8, <1>9 DEF FileInv, VMFiles, SnapFiles

-----------------------------------------------------------------------------
(* The steps that remove public directories *)

LEMMA Removes ==
    ASSUME NEW asked, Control, FileInv(asked), NEW c \in Cli, Others(c), RemoveStep(c) \/ PruneRemove(c)
    PROVE  FileInv(asked)' /\ OneChange
<1> USE DEF cmd, snapVars, machines
<1> DEFINE d == job[c].dst
<1>1. pc[c] \in {"remove", "prune.remove"}
  BY DEF RemoveStep, PruneRemove
<1>2. d \in Public
  BY <1>1 DEF Control, Jobs, JobOK, Public
<1>3. d \in Dir \ OutputDirs /\ d \notin VMDirs \cup TempDirs
  BY <1>2, Directories DEF Public
<1>4. RemoveFile(d) \/ RemoveDir(d)
  BY DEF RemoveStep, PruneRemove
<1>5. /\ backend' = backend /\ guest' = guest
      /\ \/ pc'[c] = pc[c] /\ job'[c] = job[c] /\ todo'[c] = todo[c]
         \/ pc'[c] \in {"idle", "prune"}
  BY DEF Control, Typed, RemoveStep, PruneRemove, Return, Goto
<1>6. /\ Shape' /\ \A e \in Dir \ {d} : Kept(e)
      /\ Fades(d)
  BY <1>3, <1>4, RemoveFrame DEF Control, FileInv
<1>7. Onward(c)
  BY <1>1, <1>5 DEF Onward, Filling, Saved
<1>8. \A e \in Cli : Onward(e)
  BY <1>7, OthersOnward
<1>9. ImageFiles' /\ (\A s \in Snap : SnapOK(asked, s)') /\ OneChange
  BY <1>3, <1>6, <1>8, OnlyOne, PublicHold DEF Control, FileInv, SnapFiles, Onward
<1>10. ASSUME NEW v \in VM PROVE VMOK(v)'
  <2>1. Kept(VMDir(v))
    BY <1>3, <1>6, Kinds, Directories
  <2> QED BY <1>5, <1>8, <2>1, VMStays DEF FileInv, VMFiles, Onward, Kept
<1>11. ASSUME NEW e \in Cli PROVE TempOK(asked, e)'
  <2>1. Kept(TempDir(e))
    BY <1>3, <1>6, Kinds, Directories
  <2>2. pc[e] = "snap.copy" => Fewer(job[e].src)
    <3>1. pc[e] = "snap.copy" => job[e].src \in VMDirs
      BY DEF Control, Jobs, JobOK, Saving
    <3> QED BY <1>3, <1>6, <3>1, Directories DEF Kept, SameFiles, Fewer
  <2> QED BY <1>8, <2>1, <2>2, TempStays DEF FileInv, SnapFiles, Onward, Kept
<1> QED BY <1>6, <1>9, <1>10, <1>11 DEF FileInv, VMFiles, SnapFiles

-----------------------------------------------------------------------------
(* The steps that work on the directory of a VM *)

LEMMA VMWork ==
    ASSUME NEW asked, Control, FileInv(asked), NEW v \in VM, Shape', Only(VMDir(v)), Busy(VMDir(v)),
           backend' = backend, \A w \in VM \ {v} : guest'[w] = guest[w],
           \A e \in Cli : Onward(e),
           \A e \in Cli : "pairs" \in asked /\ pc[e] = "snap.copy" /\ job[e].src = VMDir(v)
                           => Fewer(VMDir(v)),
           VMOK(v)'
    PROVE  FileInv(asked)' /\ OneChange
<1>1. VMDir(v) \in Dir \ OutputDirs /\ VMDir(v) \notin Public \cup TempDirs
  BY Kinds, Directories DEF Public
<1>2. ImageFiles' /\ (\A s \in Snap : SnapOK(asked, s)') /\ OneChange
  BY <1>1, PublicHold DEF Control, FileInv, SnapFiles, Onward
<1>3. ASSUME NEW w \in VM PROVE VMOK(w)'
  <2>1. CASE w = v
    BY <2>1
  <2>2. CASE w # v
    <3>1. VMDir(w) \in VMDirs \ {VMDir(v)}
      BY <2>2, Kinds DEF VMDir
    <3>2. Kept(VMDir(w))
      BY <3>1 DEF Only
    <3> QED BY <2>2, <3>2, VMStays DEF FileInv, VMFiles, Onward, Kept
  <2> QED BY <2>1, <2>2
<1>4. ASSUME NEW e \in Cli PROVE TempOK(asked, e)'
  <2>1. SameFiles(TempDir(e))
    BY <1>1, Kinds, Directories DEF Only
  <2>2. pc[e] = "snap.copy" /\ "pairs" \in asked => Fewer(job[e].src)
    <3>1. pc[e] = "snap.copy" => job[e].src \in VMDirs
      BY DEF Control, Jobs, JobOK, Saving
    <3> QED BY <3>1, Directories DEF Only, SameFiles, Fewer
  <2> QED BY <2>1, <2>2, TempStays DEF FileInv, SnapFiles, Onward
<1> QED BY <1>2, <1>3, <1>4 DEF FileInv, VMFiles, SnapFiles

LEMMA VMGone ==
    ASSUME NEW v \in VM, \A f \in File : ~There(files', <<VMDir(v), f>>), guest'[v].run = "off"
    PROVE  VMOK(v)'
<1>1. VMDir(v)' = VMDir(v)
  BY DEF VMDir
<1>2. {"saved", "disk"} \subseteq File
  BY DEF File
<1> QED BY <1>1, <1>2 DEF VMOK

\* The VM that a command creates, and no other command works on.
LEMMA Created ==
    ASSUME Control, NEW c \in Cli, Creating(c)
    PROVE  \E v \in VM : /\ job[c].dst = VMDir(v) /\ job[c].dst[2] = v
                         /\ VMDir(v) \in dirs /\ guest[v] = NoGuest
                         /\ \A e \in Cli : pc[e] = "snap.copy" => job[e].src # VMDir(v)
                         /\ \A e \in Cli : Creating(e) /\ job[e].dst = VMDir(v) => e = c
<1>1. job[c].dst \in VMDirs
  BY DEF Control, Jobs, JobOK
<1>2. job[c].dst[2] \in VM /\ job[c].dst = VMDir(job[c].dst[2])
  BY <1>1, Kinds
<1>3. ASSUME NEW e \in Cli, pc[e] = "snap.copy" PROVE job[e].src # job[c].dst
  <2>1. Saving(e)
    BY <1>3 DEF Saving
  <2>2. job[e].src = VMDir(Source(e))
    BY <2>1, Kinds DEF Control, Jobs, JobOK, Source
  <2> QED BY <1>2, <2>1, <2>2 DEF Control, Owners, Source, NoGuest
<1> QED BY <1>2, <1>3 DEF Control, Owners

LEMMA CreateEnds ==
    ASSUME NEW asked, Control, FileInv(asked), NEW c \in Cli, Others(c), Creating(c), CreateFail(c) \/ Crash(c)
    PROVE  FileInv(asked)' /\ OneChange
<1> USE DEF imageVars, machines
<1>1. PICK v \in VM : /\ job[c].dst = VMDir(v) /\ VMDir(v) \in dirs /\ guest[v] = NoGuest
                      /\ \A e \in Cli : pc[e] = "snap.copy" => job[e].src # VMDir(v)
                      /\ \A e \in Cli : Creating(e) /\ job[e].dst = VMDir(v) => e = c
  BY Created
<1>2. VMDir(v) \in VMDirs /\ VMDir(v) \in Dir
  BY Kinds, Directories
<1>3. backend' = backend /\ guest' = guest /\ pc'[c] = "idle"
  BY DEF CreateFail, Crash, Return, Goto, Control, Typed
<1>9. Busy(VMDir(v))
  BY <1>1, <1>3 DEF Busy, Creating
<1>4. ~(c \in Building) /\ pc[c] \notin Saved
  BY DEF Creating, Building, BuildSteps, Saved
<1>5. Onward(c)
  BY <1>3, <1>4 DEF Onward, Filling
<1>6. \A e \in Cli : Onward(e)
  BY <1>5, OthersOnward
<1>7. CASE CreateFail(c)
  <2>1. Wipe(VMDir(v))
    BY <1>1, <1>7 DEF CreateFail
  <2>2. /\ Shape' /\ \A e \in Dir \ {VMDir(v)} : Kept(e)
        /\ \A f \in File : ~There(files', <<VMDir(v), f>>)
    BY <1>2, <2>1, WipeFrame DEF Control, FileInv
  <2>3. VMOK(v)'
    BY <1>1, <1>3, <2>2, VMGone DEF NoGuest
  <2> QED BY <1>1, <1>3, <1>6, <1>9, <2>2, <2>3, OnlyOne, VMWork
<1>8. CASE Crash(c)
  <2>1. /\ files' = Without({VMDir(v)} \X File)
        /\ dirs' = dirs \ {TempDir(c)} /\ meta' = [meta EXCEPT ![TempDir(c)] = None]
    BY <1>1, <1>2, <1>8 DEF Crash, TempDir
  <2>2. Files(files') /\ Dropped(files, files', {VMDir(v)} \X File)
    BY <2>1, WithoutDrops DEF FileInv, Shape
  <2>3. Alone' /\ StayHome' /\ \A e : e # VMDir(v) => SameFiles(e)
    BY <2>2, DroppedFrame DEF FileInv, Shape
  <2>4. \A f \in File : ~There(files', <<VMDir(v), f>>)
    BY <2>2 DEF Dropped, There
  <2>5. VMOK(v)'
    BY <1>1, <1>3, <2>4, VMGone DEF NoGuest
  <2>6. TempDir(c) \notin Public \cup VMDirs
    BY Kinds, Directories DEF Public
  <2>7. \A e \in Public \cup VMDirs : meta'[e] = meta[e] /\ (e \in dirs' <=> e \in dirs)
    BY <2>1, <2>6, Directories DEF Control, Typed, Public
  <2>8. Only(VMDir(v))
    BY <2>3, <2>7 DEF Only, Kept
  <2>9. Shape'
    BY <2>2, <2>3 DEF Shape
  <2> QED BY <1>1, <1>3, <1>6, <1>9, <2>5, <2>8, <2>9, VMWork
<1> QED BY <1>7, <1>8

\* injectAuthorizedKey writes into the disk of the VM.
LEMMA CreateWrites ==
    ASSUME NEW asked, Control, FileInv(asked), NEW c \in Cli, Others(c), CreateMetadata(c)
    PROVE  FileInv(asked)' /\ OneChange
<1> USE DEF machines
<1>1. CASE files' = files
  BY <1>1, QuietSteps
<1>2. CASE files' # files
  <2>1. /\ stamp < MaxStamp /\ Overwrite(job[c].dst, "disk", stamp + 1)
        /\ pc[c] = "image.copy" /\ pc'[c] = "vm.state" /\ job' = job /\ todo' = todo
        /\ guest' = guest /\ backend' = backend /\ dirs' = dirs
        /\ meta' = [meta EXCEPT ![job[c].dst] = job[c].name[2]]
    BY <1>2 DEF CreateMetadata, InjectKey, Goto, Control, Typed
  <2>2. Creating(c)
    BY <2>1 DEF Creating
  <2>3. PICK v \in VM : /\ job[c].dst = VMDir(v) /\ VMDir(v) \in dirs /\ guest[v] = NoGuest
                        /\ \A e \in Cli : pc[e] = "snap.copy" => job[e].src # VMDir(v)
                        /\ \A e \in Cli : Creating(e) /\ job[e].dst = VMDir(v) => e = c
    BY <2>2, Created
  <2>4. stamp + 1 \in Stamp
    BY <2>1, ArtifactConstants DEF Control, Typed, Stamp
  <2>5. Files(files') /\ Written(files, files', <<VMDir(v), "disk">>, stamp + 1)
    BY <2>1, <2>3, <2>4, OverwriteWrites DEF FileInv, Shape
  <2>6. Alone' /\ StayHome' /\ \A e : e # VMDir(v) => SameFiles(e)
    BY <2>5, WrittenFrame DEF FileInv, Writable
  <2>7. Only(VMDir(v))
    <3>1. \A e \in Dir \ {VMDir(v)} : Kept(e)
      BY <2>1, <2>3, <2>6 DEF Kept, Control, Typed
    <3> QED BY <3>1, OnlyOne
  <2>8. Onward(c)
    BY <2>1 DEF Onward, Filling, Saved
  <2>9. \A e \in Cli : Onward(e)
    BY <2>8, OthersOnward
  <2>10. VMOK(v)'
    BY <2>1, <2>5, <2>9, VMKeepsNames DEF Written, There, FileInv, VMFiles, Onward
  <2>11. Busy(VMDir(v))
    BY <2>1, <2>3 DEF Busy
  <2> QED BY <2>1, <2>3, <2>5, <2>6, <2>7, <2>9, <2>10, <2>11, VMWork DEF Shape
<1> QED BY <1>1, <1>2

\* What a copy into the directory of a VM does.
LEMMA CreateCopies ==
    ASSUME NEW asked, Control, FileInv(asked), NEW c \in Cli, Others(c), CopyNext(c),
           pc[c] \in {"image.copy", "restore.copy"}
    PROVE  FileInv(asked)' /\ OneChange
<1> USE DEF machines
<1> DEFINE k == Head(todo[c])
           d == job[c].dst
           s == IF k.own THEN d ELSE job[c].src
<1>1. /\ \/ k.link /\ LinkFile(s, k.from, d, k.to)
         \/ CopyFile(s, k.from, d, k.to)
      /\ todo[c] # <<>> /\ todo' = [todo EXCEPT ![c] = Tail(todo[c])]
      /\ UNCHANGED <<dirs, meta, backend, guest, pc, job>>
  BY DEF CopyNext, LinkOrCopy
<1>2. Creating(c)
  BY DEF Creating
<1>3. PICK v \in VM : /\ job[c].dst = VMDir(v) /\ VMDir(v) \in dirs /\ guest[v] = NoGuest
                      /\ \A e \in Cli : pc[e] = "snap.copy" => job[e].src # VMDir(v)
                      /\ \A e \in Cli : Creating(e) /\ job[e].dst = VMDir(v) => e = c
  BY <1>2, Created
<1>4. /\ pc[c] = "image.copy" => ~k.own /\ ~k.link /\ k.to \in {"kernel", "disk"}
      /\ pc[c] = "restore.copy" /\ backend = "vz" => ~k.own /\ ~k.link
      /\ pc[c] = "restore.copy" /\ backend = "ch" /\ Len(todo[c]) # 1 =>
           /\ ~k.own
           /\ k.link => k.from = k.to /\ k.to \in {"saved", "kernel"}
      /\ pc[c] = "restore.copy" /\ backend = "ch" /\ Len(todo[c]) = 1 =>
           k.own /\ k.link /\ k.from = "rdisk" /\ k.to = "disk"
      /\ k.to \in File /\ k.from \in File
  <2>1. pc[c] \in CopySteps
    BY DEF CopySteps
  <2> QED BY <1>1, <2>1, NextCopy DEF Control
<1>5. backend \in {"ch", "vz"} /\ Files(files) /\ VMDir(v) \in Dir /\ VMOK(v)
  BY InDir DEF Control, Typed, FileInv, Shape, VMFiles
<1> HIDE DEF k, d
<1>6. /\ Files(files') /\ Alone' /\ StayHome' /\ \A e : e # VMDir(v) => SameFiles(e)
      /\ \A f : There(files', <<VMDir(v), f>>) <=> There(files, <<VMDir(v), f>>) \/ f = k.to
  <2>1. CASE CopyFile(s, k.from, d, k.to)
    <3>1. CopyFile(s, k.from, VMDir(v), k.to)
      BY <1>1, <1>3, <2>1 DEF d
    <3>2. PICK x : Files(files') /\ Added(files, files', <<VMDir(v), k.to>>, x)
      BY <1>4, <1>5, <3>1, CopyFileAdds
    <3>3. Alone' /\ StayHome' /\ \A e : e # VMDir(v) => SameFiles(e)
      BY <3>2, AddedFrame DEF FileInv, Shape
    <3>4. \A f : There(files', <<VMDir(v), f>>) <=> There(files, <<VMDir(v), f>>) \/ f = k.to
      BY <3>2 DEF There, Added
    <3> QED BY <3>2, <3>3, <3>4
  <2>2. CASE k.link /\ LinkFile(s, k.from, d, k.to)
    <3>1. pc[c] = "restore.copy" /\ backend = "ch"
      BY <1>4, <1>5, <2>2
    <3>2. LinkFile(s, k.from, VMDir(v), k.to)
      BY <1>1, <1>3, <2>2 DEF d
    <3>3. /\ Files(files') /\ There(files, <<s, k.from>>)
          /\ LinkedTo(files, files', <<s, k.from>>, <<VMDir(v), k.to>>)
      BY <1>4, <1>5, <3>2, LinkFileLinks
    <3>4. /\ s \in SnapDirs \cup {VMDir(v)}
          /\ IF s = VMDir(v) THEN k.from = "rdisk" /\ k.to = "disk"
                             ELSE k.to \in {"saved", "kernel"}
      <4>1. CASE Len(todo[c]) = 1
        BY <1>3, <1>4, <3>1, <4>1 DEF d
      <4>2. CASE Len(todo[c]) # 1
        <5>1. job[c].src \in SnapDirs /\ job[c].src # VMDir(v)
          BY <3>1, Kinds, Directories DEF Control, Jobs, JobOK
        <5> QED BY <1>4, <2>2, <3>1, <4>2, <5>1
      <4> QED BY <4>1, <4>2
    <3>5. Alone' /\ StayHome' /\ \A e : e # VMDir(v) => SameFiles(e)
      BY <1>4, <3>3, <3>4, LinkedFrame DEF FileInv
    <3>6. \A f : There(files', <<VMDir(v), f>>) <=> There(files, <<VMDir(v), f>>) \/ f = k.to
      <4>1. \A a : Joined(files, <<s, k.from>>, a) => There(files, a)
        BY <1>5, Relations
      <4>2. \A a : Joined(files, a, <<s, k.from>>) => There(files, a)
        BY <1>5, Relations
      <4> QED BY <3>3, <4>1, <4>2 DEF There, LinkedTo
    <3> QED BY <3>3, <3>5, <3>6
  <2> QED BY <1>1, <2>1, <2>2
<1>7. Shape' /\ Only(VMDir(v))
  <2>1. \A e \in Dir \ {VMDir(v)} : Kept(e)
    BY <1>1, <1>6 DEF Kept
  <2> QED BY <1>6, <2>1, OnlyOne DEF Shape
<1>8. \A e \in Cli : Onward(e)
  <2>1. Onward(c)
    BY <1>1 DEF Onward
  <2> QED BY <2>1, OthersOnward
<1>9. Len(todo'[c]) = Len(todo[c]) - 1 /\ Len(todo[c]) \in Nat /\ todo'[c] \in Seq(Copy)
  BY <1>1 DEF Control, Typed
<1>11. VMOK(v)'
  <2>1. VMDir(v)' = VMDir(v)
    BY DEF VMDir
  <2>2. guest'[v].run = "off" /\ VMDir(v) \in dirs'
    BY <1>1, <1>3 DEF NoGuest
  <2>3. \A e \in Cli : /\ job'[e].dst = VMDir(v) /\ pc'[e] \in {"image.copy", "restore.copy"}
                       => e = c
    BY <1>1, <1>3 DEF Creating
  <2>4. pc[c] = "image.copy" => ~There(files', <<VMDir(v), "saved">>)
    BY <1>3, <1>4, <1>5, <1>6 DEF VMOK
  <2> QED BY <1>1, <2>1, <2>2, <2>3, <2>4 DEF VMOK
<1>12. Busy(VMDir(v))
  BY <1>3, <1>9 DEF Busy
<1> QED BY <1>1, <1>3, <1>7, <1>8, <1>11, <1>12, VMWork

-----------------------------------------------------------------------------
(* The steps of a snapshot *)

\* What the other commands keep when a command takes its snapshot a step further.
LEMMA OthersKeep ==
    ASSUME NEW asked, Control, FileInv(asked), NEW c \in Cli, Others(c), backend' = backend,
           \A e \in Dir \ ({TempDir(c)} \cup SnapDirs) : SameFiles(e),
           \A v \in VM : VMDir(v) \in dirs => VMDir(v) \in dirs',
           \A v \in VM : guest'[v].run # "off" => guest[v].run # "off",
           pc'[c] \notin {"image.copy", "restore.copy"},
           TempOK(asked, c)'
    PROVE  VMFiles' /\ \A e \in Cli : TempOK(asked, e)'
<1>1. \A e \in Cli \ {c} : Onward(e)
  BY OthersOnward
<1>2. \A d \in VMDirs : SameFiles(d)
  BY Kinds, Directories
<1>3. ASSUME NEW v \in VM PROVE VMOK(v)'
  <2>1. SameFiles(VMDir(v))
    BY <1>2, Kinds
  <2> QED BY <1>1, <2>1, VMStays DEF FileInv, VMFiles, Onward
<1>4. ASSUME NEW e \in Cli PROVE TempOK(asked, e)'
  <2>1. CASE e = c
    BY <2>1
  <2>2. CASE e # c
    <3>1. SameFiles(TempDir(e))
      <4>1. TempDir(e) \in Dir \ ({TempDir(c)} \cup SnapDirs)
        BY <2>2, Kinds, Directories DEF TempDir
      <4> QED BY <4>1
    <3>2. pc[e] = "snap.copy" => Fewer(job[e].src)
      <4>1. pc[e] = "snap.copy" => job[e].src \in VMDirs
        BY DEF Control, Jobs, JobOK, Saving
      <4> QED BY <1>2, <4>1 DEF SameFiles, Fewer
    <3> QED BY <1>1, <2>2, <3>1, <3>2, TempStays DEF FileInv, SnapFiles, Onward
  <2> QED BY <2>1, <2>2
<1> QED BY <1>3, <1>4 DEF VMFiles

LEMMA SaveWork ==
    ASSUME NEW asked, Control, FileInv(asked), NEW c \in Cli, Others(c), Shape', Only(TempDir(c)),
           backend' = backend,
           \A v \in VM : guest'[v].run # "off" => guest[v].run # "off",
           pc'[c] \notin Filling \cup {"image.copy", "restore.copy"},
           TempOK(asked, c)'
    PROVE  FileInv(asked)' /\ OneChange
<1>1. TempDir(c) \in Dir \ OutputDirs /\ TempDir(c) \notin Public \cup VMDirs
  BY Kinds, Directories DEF Public
<1>2. \A e \in Cli : pc'[e] \in Filling => pc'[e] = pc[e] /\ job'[e] = job[e]
  BY DEF Others
<1>3. ImageFiles' /\ (\A s \in Snap : SnapOK(asked, s)') /\ OneChange
  BY <1>1, <1>2, PublicHold DEF Control, FileInv, SnapFiles
<1>4. \A v \in VM : VMDir(v) \in dirs => VMDir(v) \in dirs'
  BY <1>1, Kinds DEF Only, Kept
<1>5. \A e \in Dir \ ({TempDir(c)} \cup SnapDirs) : SameFiles(e)
  BY DEF Only
<1>6. VMFiles' /\ \A e \in Cli : TempOK(asked, e)'
  BY <1>4, <1>5, OthersKeep
<1> QED BY <1>3, <1>6 DEF FileInv, SnapFiles

LEMMA SnapEnds ==
    ASSUME NEW asked, Control, FileInv(asked), NEW c \in Cli, Others(c),
           SnapFail(c) \/ (Crash(c) /\ Saving(c)) \/ (SnapPublish(c) /\ Wipe(TempDir(c)))
    PROVE  FileInv(asked)' /\ OneChange
<1> USE DEF machines, snapVars
<1>1. TempDir(c) \in Dir /\ TempDir(c) \in TempDirs
  BY Kinds, InDir
<1>2. Typed /\ Shape
  BY DEF Control, FileInv
<1>3. backend' = backend /\ pc'[c] = "idle"
  BY <1>2 DEF SnapFail, Crash, SnapPublish, Return, Goto, Typed
<1>4. \A v \in VM : guest'[v].run # "off" => guest[v].run # "off"
  <2>1. CASE guest' = guest
    BY <2>1
  <2>2. CASE SnapFail(c)
    <3>1. PICK run \in LeftBy(c) : guest' = [guest EXCEPT ![Source(c)].run = run]
      BY <2>2 DEF SnapFail
    <3>2. run # "off" => guest[Source(c)].run # "off"
      BY DEF LeftBy
    <3> QED BY <1>2, <3>1, <3>2 DEF Typed, Guest
  <2>3. guest' = guest \/ SnapFail(c)
    BY DEF Crash, SnapPublish
  <2> QED BY <2>1, <2>2, <2>3
<1>5. /\ Shape' /\ Only(TempDir(c))
      /\ \A f \in File : ~There(files', <<TempDir(c), f>>)
  <2>1. CASE Wipe(TempDir(c))
    BY <1>1, <1>2, <2>1, WipeFrame, OnlyOne
  <2>2. CASE Crash(c) /\ Saving(c)
    <3>1. job[c].dst = TempDir(c)
      BY <2>2 DEF Control, Jobs, JobOK
    <3>2. /\ files' = Without({TempDir(c)} \X File)
          /\ dirs' = dirs \ {TempDir(c)} /\ meta' = [meta EXCEPT ![TempDir(c)] = None]
      BY <1>1, <2>2, <3>1 DEF Crash, TempDir
    <3>3. Wipe(TempDir(c))
      BY <3>2 DEF Wipe
    <3> QED BY <2>1, <3>3
  <2>3. SnapFail(c) => Wipe(TempDir(c))
    BY DEF SnapFail
  <2> QED BY <2>1, <2>2, <2>3
<1>6. TempOK(asked, c)'
  BY <1>3, <1>5, TempEmpty DEF Shape
<1> QED BY <1>3, <1>4, <1>5, <1>6, SaveWork DEF Filling

\* The memory is saved, and the guest writes no more.
LEMMA SnapSaves ==
    ASSUME NEW asked, Control, FileInv(asked), Granted(asked), NEW c \in Cli, Others(c),
           SnapSave(c)
    PROVE  FileInv(asked)' /\ OneChange
<1> USE DEF snapVars
<1> DEFINE v == Source(c)
           x == Content(VMDir(v), DiskOf(v))
<1>1. /\ pc[c] = "snap.save" /\ pc'[c] = "snap.copy" /\ NewFile(TempDir(c), "saved", x)
      /\ guest' = [guest EXCEPT ![v].run = IF backend = "ch" THEN "paused" ELSE "off"]
      /\ UNCHANGED <<dirs, meta, stamp, template, backend, job, todo>>
  BY DEF SnapSave, Goto, Control, Typed
<1>2. Saving(c)
  BY <1>1 DEF Saving
<1>3. v \in VM /\ job[c].src = VMDir(v) /\ guest[v].run # "off"
  BY <1>1, <1>2, Kinds DEF Control, Jobs, JobOK, Source, SnapSave
<1>4. Typed /\ Shape /\ Files(files) /\ VMOK(v) /\ TempOK(asked, c)
  BY <1>3 DEF Control, FileInv, Shape, VMFiles, SnapFiles
<1> HIDE DEF v
<1>5. DiskOf(v) = Opened(files, v)
  BY <1>4, Content_At DEF DiskOf, Restores, Opened
<1>6. There(files, <<VMDir(v), DiskOf(v)>>)
  BY <1>3, <1>4, <1>5 DEF VMOK
<1>7. x \in Stamp /\ At(files, <<VMDir(v), DiskOf(v)>>, x)
  <2>1. PICK y \in Stamp : At(files, <<VMDir(v), DiskOf(v)>>, y)
    BY <1>4, <1>6, Relations
  <2> QED BY <1>4, <2>1, Content_At
<1>8. "pairs" \in asked => \A y : At(files, <<VMDir(v), "disk">>, y) => x = y
  <2> SUFFICES ASSUME "pairs" \in asked, NEW y, At(files, <<VMDir(v), "disk">>, y) PROVE x = y
    OBVIOUS
  <2>1. There(files, <<VMDir(v), "disk">>)
    BY <1>4, Relations
  <2>2. CASE DiskOf(v) = "disk"
    BY <1>4, <1>7, <2>1, <2>2, Relations DEF There
  <2>3. CASE DiskOf(v) # "disk"
    <3>1. backend = "ch" /\ There(files, <<VMDir(v), "saved">>) /\ DiskOf(v) = "rdisk"
      BY <1>5, <2>3 DEF Opened
    <3>2. /\ Restores(v) /\ Has(VMDir(v), "disk") /\ Has(VMDir(v), "rdisk")
      BY <1>4, <1>6, <2>1, <3>1, Content_At DEF Restores
    <3>3. Content(VMDir(v), "disk") = Content(VMDir(v), "rdisk")
      BY <1>3, <3>1, <3>2 DEF Granted, DisksAreLinked, Content
    <3> QED BY <1>4, <1>7, <3>1, <3>3, Content_At
  <2> QED BY <2>2, <2>3
<1> HIDE DEF x
<1>9. "saved" \in File /\ "disk" \in File /\ TempDir(c) \in Dir
  BY InDir DEF File
<1>10. \A f \in File : ~There(files, <<TempDir(c), f>>)
  BY <1>1, <1>4 DEF TempOK, Saved
<1>11. Files(files') /\ Added(files, files', <<TempDir(c), "saved">>, x)
  BY <1>1, <1>4, <1>7, <1>9, <1>10, NewFileAdds
<1>12. Alone' /\ StayHome' /\ \A e : e # TempDir(c) => SameFiles(e)
  BY <1>4, <1>11, AddedFrame DEF Shape
<1>13. Only(TempDir(c))
  BY <1>1, <1>12, OnlyOne DEF Kept
<1>14. \A w \in VM : guest'[w].run # "off" => guest[w].run # "off"
  BY <1>1, <1>3, <1>4 DEF Typed, Guest
<1>15. TempOK(asked, c)'
  <2>1. TempDir(c)' = TempDir(c) /\ job'[c].src = VMDir(v)
    BY <1>1, <1>3 DEF TempDir
  <2>2. \A y : ~At(files', <<TempDir(c), "disk">>, y)
    <3>1. \A y : ~At(files, <<TempDir(c), "disk">>, y)
      BY <1>4, <1>9, <1>10, Relations
    <3> QED BY <1>11, <3>1 DEF Added
  <2>3. \A y : At(files', <<TempDir(c), "saved">>, y) => y = x
    <3>1. \A y : ~At(files, <<TempDir(c), "saved">>, y)
      BY <1>4, <1>9, <1>10, Relations
    <3> QED BY <1>11, <3>1 DEF Added
  <2>4. VMDir(v) # TempDir(c)
    BY <1>3, Kinds, Directories
  <2>5. "pairs" \in asked => \A y : At(files', <<VMDir(v), "disk">>, y) => y = x
    BY <1>8, <1>12, <2>4 DEF SameFiles
  <2> QED BY <1>1, <2>1, <2>2, <2>3, <2>5 DEF TempOK, Pair, Match, Saved
<1> QED BY <1>1, <1>11, <1>12, <1>13, <1>14, <1>15, SaveWork DEF Shape, Filling

LEMMA SnapCopied ==
    ASSUME NEW asked, Control, FileInv(asked), NEW c \in Cli, Others(c), CopyNext(c), pc[c] = "snap.copy"
    PROVE  FileInv(asked)' /\ OneChange
<1> USE DEF machines
<1> DEFINE k == Head(todo[c])
<1>1. /\ ~k.own /\ ~k.link /\ k.from = k.to /\ k.to \in {"kernel", "disk"} /\ k.to \in File
      /\ UNCHANGED <<dirs, meta, backend, guest, pc, job>>
  <2>1. pc[c] \in CopySteps /\ todo[c] # <<>>
    BY DEF CopyNext
  <2> QED BY <2>1, NextCopy DEF Control, CopyNext
<1>2. Saving(c)
  BY DEF Saving
<1>3. job[c].dst = TempDir(c) /\ job[c].src \in VMDirs
  BY <1>2 DEF Control, Jobs, JobOK
<1>4. CopyFile(job[c].src, k.to, TempDir(c), k.to)
  BY <1>1, <1>3 DEF CopyNext
<1> HIDE DEF k
<1>5. Typed /\ Shape /\ Files(files) /\ TempOK(asked, c) /\ TempDir(c) \in Dir
  BY InDir DEF Control, FileInv, Shape, SnapFiles
<1>6. PICK x \in Stamp : /\ ~There(files, <<TempDir(c), k.to>>) /\ Files(files')
                         /\ At(files, <<job[c].src, k.to>>, x)
                         /\ Added(files, files', <<TempDir(c), k.to>>, x)
  BY <1>1, <1>4, <1>5, CopyFileAdds
<1>7. Alone' /\ StayHome' /\ \A e : e # TempDir(c) => SameFiles(e)
  BY <1>5, <1>6, AddedFrame DEF Shape
<1>8. Only(TempDir(c))
  BY <1>1, <1>7, OnlyOne DEF Kept
<1>9. TempOK(asked, c)'
  <2>1. TempDir(c)' = TempDir(c) /\ job' = job /\ pc' = pc
    BY <1>1 DEF TempDir
  <2>2. \A y : At(files', <<TempDir(c), "saved">>, y) <=> At(files, <<TempDir(c), "saved">>, y)
    BY <1>1, <1>6 DEF Added
  <2>3. job[c].src # TempDir(c)
    BY <1>3, Kinds, Directories
  <2>4. ASSUME "pairs" \in asked PROVE Pair(c)'
    <3>1. Pair(c)
      BY <1>5, <2>4 DEF TempOK
    <3>2. \A y, z : At(files', <<TempDir(c), "saved">>, y) /\ At(files', <<job[c].src, "disk">>, z)
                      => y = z
      BY <1>7, <2>2, <2>3, <3>1 DEF SameFiles, Pair
    <3>3. CASE k.to = "disk"
      <4>1. \A y : At(files', <<TempDir(c), "disk">>, y) => y = x
        <5>1. \A y : ~At(files, <<TempDir(c), "disk">>, y)
          BY <1>5, <1>6, <3>3, Relations
        <5> QED BY <1>6, <5>1 DEF Added
      <4>2. \A y : At(files, <<TempDir(c), "saved">>, y) => y = x
        BY <1>6, <3>1, <3>3 DEF Pair
      <4>3. Match(files', TempDir(c), "saved", "disk")
        BY <2>2, <4>1, <4>2 DEF Match
      <4> QED BY <2>1, <3>2, <4>3 DEF Pair
    <3>4. CASE k.to # "disk"
      <4>1. \A y : At(files', <<TempDir(c), "disk">>, y) <=> At(files, <<TempDir(c), "disk">>, y)
        BY <1>6, <3>4 DEF Added
      <4>2. Match(files', TempDir(c), "saved", "disk")
        BY <2>2, <3>1, <4>1 DEF Match, Pair
      <4> QED BY <2>1, <3>2, <4>2 DEF Pair
    <3> QED BY <3>3, <3>4
  <2> QED BY <2>1, <2>4 DEF TempOK, Saved
<1> QED BY <1>1, <1>6, <1>7, <1>8, <1>9, SaveWork DEF Shape, Filling

LEMMA SnapPublishes ==
    ASSUME NEW asked, Control, FileInv(asked), NEW c \in Cli, Others(c), SnapPublish(c)
    PROVE  FileInv(asked)' /\ OneChange
<1> USE DEF machines, snapVars
<1> DEFINE d == TempDir(c)
           e == job[c].name
<1>1. pc[c] = "snap.publish" /\ Saving(c)
  BY DEF SnapPublish, Saving
<1>2. e \in SnapDirs /\ e \in Dir /\ d \in TempDirs /\ d \in Dir /\ d # e
  BY <1>1, Kinds, Directories DEF Control, Jobs, JobOK
<1>3. Typed /\ Shape /\ TempOK(asked, c)
  BY DEF Control, FileInv, SnapFiles
<1>4. pc'[c] = "idle" /\ backend' = backend /\ guest' = guest
  BY <1>3 DEF SnapPublish, Return, Goto, Typed
<1>5. CASE Wipe(d)
  BY <1>5, SnapEnds
<1>6. CASE CanMove(e) /\ MoveDir(d, e)
  <2> HIDE DEF d, e
  <2>1. /\ Shape' /\ \A k \in Dir \ {d, e} : Kept(k)
        /\ \A f, y : At(files', <<e, f>>, y) <=> At(files, <<d, f>>, y)
        /\ \A f : ~There(files', <<d, f>>)
    BY <1>2, <1>3, <1>6, MoveFrame
  <2>2. TempOK(asked, c)'
    BY <1>4, <2>1, TempEmpty DEF Shape, d
  <2>3. VMFiles' /\ \A w \in Cli : TempOK(asked, w)'
    <3>1. \A k \in Dir \ ({TempDir(c)} \cup SnapDirs) : SameFiles(k)
      BY <1>2, <2>1 DEF d, Kept
    <3>2. \A v \in VM : VMDir(v) \in dirs => VMDir(v) \in dirs'
      <4>1. \A v \in VM : VMDir(v) \in Dir \ {d, e}
        BY <1>2, Kinds, Directories
      <4> QED BY <2>1, <4>1 DEF Kept
    <3> QED BY <1>4, <2>2, <3>1, <3>2, OthersKeep
  <2>4. \A s \in Snap : SnapOK(asked, s)'
    <3> SUFFICES ASSUME "pairs" \in asked, NEW s \in Snap
                 PROVE  Match(files', SnapDir(s), "saved", "disk")
      BY DEF SnapOK, SnapDir
    <3>1. CASE SnapDir(s) = e
      BY <1>3, <2>1, <3>1 DEF TempOK, Pair, Match, d
    <3>2. CASE SnapDir(s) # e
      <4>1. Kept(SnapDir(s))
        BY <1>2, <2>1, <3>2, Kinds, Directories
      <4> QED BY <4>1 DEF Kept, SameFiles, Match, FileInv, SnapFiles, SnapOK
    <3> QED BY <3>1, <3>2
  <2>5. ImageFiles'
    <3>1. \A i \in Image : Match(files', ImageDir(i), "kernel", "disk")
      <4> SUFFICES ASSUME NEW i \in Image PROVE Match(files', ImageDir(i), "kernel", "disk")
        OBVIOUS
      <4>1. Kept(ImageDir(i))
        BY <1>2, <2>1, Kinds, Directories
      <4> QED BY <4>1 DEF Kept, SameFiles, Match, FileInv, ImageFiles
    <3>2. ASSUME NEW w \in Cli PROVE BuildFiles(w)'
      <4>1. CASE pc'[w] \notin Filling
        BY <4>1 DEF BuildFiles, Filling
      <4>2. CASE pc'[w] \in Filling
        <5>1. pc'[w] = pc[w] /\ job'[w] = job[w] /\ w \in Building
          BY <1>4, <4>2 DEF Others, Filling, Building, BuildSteps
        <5>2. StagingDir(Built(w)) \in OutputDirs /\ InstallDir(Built(w)) \in OutputDirs
          BY <5>1, BuildDirs
        <5>3. Kept(StagingDir(Built(w))) /\ Kept(InstallDir(Built(w)))
          BY <1>2, <2>1, <5>2, Directories
        <5>4. /\ Built(w)' = Built(w) /\ StagingDir(Built(w))' = StagingDir(Built(w))
              /\ InstallDir(Built(w))' = InstallDir(Built(w)) /\ BuildFiles(w)
          BY <5>1 DEF Built, StagingDir, InstallDir, FileInv, ImageFiles
        <5> QED BY <5>1, <5>3, <5>4 DEF BuildFiles, Kept, SameFiles, Match, There
      <4> QED BY <4>1, <4>2
    <3> QED BY <3>1, <3>2 DEF ImageFiles, ImageDir
  <2>6. OneChange
    <3>1. \A k \in (Public \cup VMDirs) \ {e} : Kept(k)
      BY <1>2, <2>1, Directories DEF Public
    <3>2. e \notin VMDirs
      BY <1>2, Directories
    <3>3. SourcesKept => Unread(e)
      BY DEF SourcesKept, Unread, e
    <3> QED BY <1>2, <1>6, <3>1, <3>2, <3>3 DEF OneChange
  <2> QED BY <2>1, <2>3, <2>4, <2>5, <2>6 DEF FileInv, SnapFiles
<1> QED BY <1>5, <1>6 DEF SnapPublish

\* Any other command that is killed leaves what it has made.
LEMMA QuietCrash ==
    ASSUME NEW asked, Control, FileInv(asked), NEW c \in Cli, Others(c), Crash(c), ~Creating(c), ~Saving(c)
    PROVE  FileInv(asked)' /\ OneChange
<1> USE DEF machines
<1>1. job[c].dst \notin VMDirs \cup TempDirs
  BY Directories, InDir DEF Control, Typed, Jobs, JobOK
<1>2. /\ files' = files /\ backend' = backend /\ guest' = guest /\ pc'[c] = "idle"
      /\ dirs' = dirs \ {TempDir(c)} /\ meta' = [meta EXCEPT ![TempDir(c)] = None]
  BY <1>1 DEF Crash, Return, Goto, Control, Typed, TempDir
<1>3. pc[c] \notin Saved
  BY DEF Saving, Saved
<1>4. Onward(c)
  BY <1>2, <1>3 DEF Onward, Filling
<1>5. \A e \in Cli : Onward(e)
  BY <1>4, OthersOnward
<1>6. TempDir(c) \in VMDirs \cup TempDirs /\ TempDir(c) \notin VMDirs /\ \A v \in VM : VMDir(v) # TempDir(c)
  BY Kinds, Directories
<1>7. \A e \in Dir \ {TempDir(c)} : meta'[e] = meta[e] /\ (e \in dirs' <=> e \in dirs)
  BY <1>2 DEF Control, Typed
<1> QED BY <1>2, <1>5, <1>6, <1>7, QuietStep DEF Control

-----------------------------------------------------------------------------
(* The guests *)

LEMMA GuestsWork ==
    ASSUME NEW asked, Control, FileInv(asked), Granted(asked), Guests
    PROVE  FileInv(asked)' /\ OneChange
<1> USE DEF disk, snapVars
<1>1. UNCHANGED <<pc, job, todo, template, backend>>
  BY GuestsLeaveCommands
<1>2. PICK v \in VM : GuestStart(v) \/ GuestStop(v) \/ GuestWrite(v) \/ DeleteVM(v)
  BY DEF Guests
<1>3. \A e \in Cli : Onward(e)
  BY <1>1 DEF Onward
<1>4. Typed /\ Shape /\ Files(files) /\ VMDir(v) \in Dir /\ VMDir(v) \in VMDirs /\ VMOK(v)
  BY Kinds, InDir DEF Control, FileInv, Shape, VMFiles
<1>5. DiskOf(v) = Opened(files, v)
  BY <1>4, Content_At DEF DiskOf, Restores, Opened
<1>9. Busy(VMDir(v))
  <2>1. guest[v] # NoGuest
    BY <1>2 DEF GuestStart, GuestStop, GuestWrite, DeleteVM, NoGuest
  <2> QED BY <2>1, Kinds DEF Busy, Control, Owners
<1>6. CASE GuestStart(v) \/ GuestStop(v)
  <2>1. files' = files /\ dirs' = dirs /\ meta' = meta
    BY <1>6 DEF GuestStart, GuestStop
  <2>2. \A w \in VM : guest'[w].run # "off" =>
           guest[w].run # "off" \/ There(files, <<VMDir(w), Opened(files, w)>>)
    <3>1. CASE GuestStart(v)
      <4>1. There(files, <<VMDir(v), Opened(files, v)>>)
        BY <1>4, <1>5, <3>1, Content_At DEF GuestStart
      <4>2. \A w \in VM \ {v} : guest'[w] = guest[w]
        BY <1>4, <3>1 DEF GuestStart, Typed
      <4> QED BY <4>1, <4>2
    <3>2. CASE GuestStop(v)
      BY <1>4, <3>2 DEF GuestStop, Typed, NoGuest
    <3> QED BY <1>6, <3>1, <3>2
  <2> QED BY <1>1, <1>3, <1>4, <1>9, <2>1, <2>2, QuietStep DEF Control
<1>7. CASE GuestWrite(v)
  <2>1. /\ guest[v].run = "on" /\ stamp < MaxStamp /\ guest' = guest /\ dirs' = dirs
        /\ meta' = meta /\ Overwrite(VMDir(v), DiskOf(v), stamp + 1)
    BY <1>7 DEF GuestWrite
  <2>2. stamp + 1 \in Stamp
    BY <1>4, <2>1, ArtifactConstants DEF Typed, Stamp
  <2>3. Files(files') /\ Written(files, files', <<VMDir(v), DiskOf(v)>>, stamp + 1)
    BY <1>4, <2>1, <2>2, OverwriteWrites
  <2>4. DiskOf(v) \in Writable
    BY DEF DiskOf, Writable
  <2>5. Alone' /\ StayHome' /\ \A e : e # VMDir(v) => SameFiles(e)
    BY <1>4, <2>3, <2>4, WrittenFrame
  <2>6. Only(VMDir(v))
    BY <2>1, <2>5, OnlyOne DEF Kept
  <2>7. ASSUME NEW e \in Cli, "pairs" \in asked, pc[e] = "snap.copy" PROVE job[e].src # VMDir(v)
    BY <2>1, <2>7, Kinds DEF Granted, Resting, MidSave, Source
  <2>8. VMOK(v)'
    BY <1>1, <1>4, <2>1, <2>3, VMKeepsNames DEF Written, There
  <2> QED BY <1>1, <1>3, <1>9, <2>1, <2>3, <2>5, <2>6, <2>7, <2>8, VMWork DEF Shape
<1>8. CASE DeleteVM(v)
  <2>1. Wipe(VMDir(v)) /\ guest[v].status # "none" /\ guest' = [guest EXCEPT ![v] = NoGuest]
    BY <1>8 DEF DeleteVM
  <2>2. /\ Shape' /\ \A e \in Dir \ {VMDir(v)} : Kept(e)
        /\ \A f \in File : ~There(files', <<VMDir(v), f>>)
    BY <1>4, <2>1, WipeFrame
  <2>3. guest'[v].run = "off" /\ \A w \in VM \ {v} : guest'[w] = guest[w]
    BY <1>4, <2>1 DEF Typed, NoGuest
  <2>4. VMOK(v)'
    BY <2>2, <2>3, VMGone
  <2>5. Fewer(VMDir(v))
    <3>1. Dropped(files, files', {VMDir(v)} \X File)
      BY <1>4, <2>1, WipeDrops
    <3> QED BY <3>1 DEF Dropped, Fewer
  <2> QED BY <1>1, <1>3, <1>9, <2>2, <2>3, <2>4, <2>5, OnlyOne, VMWork
<1> QED BY <1>2, <1>6, <1>7, <1>8

-----------------------------------------------------------------------------
(* Every step *)

LEMMA BuildsWork ==
    ASSUME NEW asked, Control, Control', FileInv(asked), BuildsApart,
           NEW c \in Cli, Others(c), c \in Building, Build(c)
    PROVE  FileInv(asked)' /\ OneChange
<1> DEFINE S == StagingDir(Built(c))
           I == InstallDir(Built(c))
           N == job[c].name
<1>1. /\ N = ImageDir(Built(c)) /\ Built(c) \in Image
      /\ S \in OutputDirs /\ I \in OutputDirs /\ N \in ImageDirs /\ N \in Dir
  BY BuildDirs
<1>2. /\ Shape' /\ BuildFiles(c)' /\ Match(files', N, "kernel", "disk")
      /\ Fades(N) \/ (CanMove(N) /\ BuildInstall(c))
      /\ \A d \in Dir \ {S, I, N} : Kept(d)
  BY BuildFilesStep DEF FileInv
<1> HIDE DEF S, I, N
<1>3. ASSUME NEW e \in Cli \ {c}, e \in Building
      PROVE  /\ StagingDir(Built(e)) \in OutputDirs \ {S, I, N}
             /\ InstallDir(Built(e)) \in OutputDirs \ {S, I, N}
  <2>1. Built(e) # Built(c) /\ Built(e) \in Image
    BY <1>3, BuildDirs DEF BuildsApart
  <2> QED BY <1>1, <1>3, <2>1, BuildDirs, Directories DEF S, I, StagingDir, InstallDir
<1>5. backend' = backend /\ guest' = guest
  BY DEF Build, BuildBegin, ResolveTemplate, TemplateTmp, TemplateFill, TemplateMove,
     TemplateAside, TemplateSwap, BuildClear, BuildRun, BuildOutput, BuildVerify, BuildStage,
     BuildReplace, BuildInstall, BuildFail, imageVars, machines
<1>6. pc'[c] \in BuildSteps \cup {"idle"} /\ pc[c] \in BuildSteps
  BY DEF Build, BuildBegin, ResolveTemplate, TemplateTmp, TemplateFill, TemplateMove,
     TemplateAside, TemplateSwap, BuildClear, BuildRun, BuildOutput, BuildVerify, BuildStage,
     BuildReplace, BuildInstall, BuildFail, Begin, Goto, Return, BuildSteps, Building,
     Control, Typed, disk
<1>7. ImageFiles'
  <2>1. ASSUME NEW e \in Cli PROVE BuildFiles(e)'
    <3>1. CASE e = c
      BY <1>2, <3>1
    <3>2. CASE e # c /\ pc'[e] \notin Filling
      BY <3>2 DEF BuildFiles, Filling
    <3>3. CASE e # c /\ pc'[e] \in Filling
      <4>1. pc'[e] = pc[e] /\ job'[e] = job[e] /\ e \in Building
        BY <3>3 DEF Others, Filling, Building, BuildSteps
      <4>2. Kept(StagingDir(Built(e))) /\ Kept(InstallDir(Built(e)))
        BY <1>2, <1>3, <3>3, <4>1, BuildDirs
      <4>3. /\ Built(e)' = Built(e) /\ StagingDir(Built(e))' = StagingDir(Built(e))
            /\ InstallDir(Built(e))' = InstallDir(Built(e)) /\ BuildFiles(e)
        BY <4>1 DEF Built, StagingDir, InstallDir, FileInv, ImageFiles
      <4> QED BY <4>1, <4>2, <4>3 DEF BuildFiles, Kept, SameFiles, Match, There
    <3> QED BY <3>1, <3>2, <3>3
  <2>2. ASSUME NEW i \in Image PROVE Match(files', ImageDir(i), "kernel", "disk")
    <3>1. CASE ImageDir(i) = N
      BY <1>2, <3>1
    <3>2. CASE ImageDir(i) # N
      <4>1. Kept(ImageDir(i))
        BY <1>1, <1>2, <3>2, Kinds, Directories
      <4> QED BY <4>1 DEF Kept, SameFiles, Match, FileInv, ImageFiles
    <3> QED BY <3>1, <3>2
  <2> QED BY <2>1, <2>2 DEF ImageFiles, ImageDir
<1>8. \A d \in VMDirs \cup TempDirs \cup SnapDirs : Kept(d)
  BY <1>1, <1>2, Directories
<1>9. VMFiles'
  <2> SUFFICES ASSUME NEW v \in VM PROVE VMOK(v)'
    BY DEF VMFiles
  <2>1. Kept(VMDir(v))
    BY <1>8, Kinds
  <2>2. \A e \in Cli : pc'[e] \in {"image.copy", "restore.copy"} =>
           pc'[e] = pc[e] /\ job'[e] = job[e] /\ todo'[e] = todo[e]
    BY <1>6 DEF Others, BuildSteps
  <2> QED BY <1>5, <2>1, <2>2, VMStays DEF Kept, FileInv, VMFiles
<1>10. \A e \in Cli : TempOK(asked, e)'
  <2> SUFFICES ASSUME NEW e \in Cli PROVE TempOK(asked, e)'
    OBVIOUS
  <2>1. Kept(TempDir(e))
    BY <1>8, Kinds
  <2>2. /\ pc[e] \in Saved => pc'[e] \in Saved
        /\ pc'[e] = "snap.copy" => pc[e] = "snap.copy" /\ job'[e] = job[e]
    BY <1>6 DEF Others, BuildSteps, Saved
  <2>3. pc[e] = "snap.copy" => Fewer(job[e].src)
    <3>1. pc[e] = "snap.copy" => job[e].src \in VMDirs
      BY DEF Control, Jobs, JobOK, Saving
    <3> QED BY <1>8, <3>1 DEF Kept, SameFiles, Fewer
  <2> QED BY <2>1, <2>2, <2>3, TempStays DEF Kept, FileInv, SnapFiles
<1>11. \A s \in Snap : SnapOK(asked, s)'
  <2> SUFFICES ASSUME "pairs" \in asked, NEW s \in Snap
               PROVE  Match(files', SnapDir(s), "saved", "disk")
    BY DEF SnapOK, SnapDir
  <2>1. Kept(SnapDir(s))
    BY <1>8, Kinds
  <2> QED BY <2>1 DEF Kept, SameFiles, Match, FileInv, SnapFiles, SnapOK
<1>12. OneChange
  <2>1. \A e \in (Public \cup VMDirs) \ {N} : Kept(e)
    BY <1>1, <1>2, <1>8, Directories DEF Public
  <2>2. BuildInstall(c) /\ SourcesKept => Unread(N)
    BY DEF SourcesKept, Unread, N
  <2>3. N \notin VMDirs
    BY <1>1, Directories
  <2> QED BY <1>1, <1>2, <2>1, <2>2, <2>3 DEF OneChange
<1> QED BY <1>2, <1>7, <1>9, <1>10, <1>11, <1>12 DEF FileInv, SnapFiles

LEMMA BuildBegins ==
    ASSUME NEW c \in Cli, c \notin Building, Build(c)
    PROVE  \E i \in Image, f \in BOOLEAN : BuildBegin(c, i, f)
BY DEF Build, ResolveTemplate, TemplateTmp, TemplateFill, TemplateMove, TemplateAside,
   TemplateSwap, BuildClear, BuildRun, BuildOutput, BuildVerify, BuildStage, BuildReplace,
   BuildInstall, BuildFail, Building, BuildSteps

\* A step changes one public directory or none, and keeps what is said of files.
LEMMA FilesKept ==
    ASSUME NEW asked, Control, Control', FileInv(asked), Granted(asked), BuildsApart, Next
    PROVE  FileInv(asked)' /\ OneChange
<1>1. CASE Guests
  BY <1>1, GuestsWork
<1>2. ASSUME NEW c \in Cli, Command(c) \/ Crash(c) PROVE FileInv(asked)' /\ OneChange
  <2>1. Others(c)
    BY <1>2, OthersStay DEF Control
  <2>2. CASE Build(c)
    BY <2>1, <2>2, BuildsWork, BuildBegins, QuietBegins
  <2>3. CASE Crash(c)
    <3>1. CASE Creating(c)
      BY <2>1, <2>3, <3>1, CreateEnds
    <3>2. CASE Saving(c)
      BY <2>1, <2>3, <3>2, SnapEnds
    <3> QED BY <2>1, <2>3, <3>1, <3>2, QuietCrash
  <2>4. CASE \E i \in Image : DeleteImage(c, i)
    BY <2>1, <2>4, QuietBegins
  <2>5. CASE \E i \in Image, v \in VM : CreateFromImage(c, v, i)
    BY <2>1, <2>5, CreateBegins
  <2>6. CASE \E v \in VM, s \in Snap : SnapshotCreate(c, v, s)
    BY <2>1, <2>6, QuietBegins
  <2>7. CASE \E v \in VM, s \in Snap : CreateFromSnapshot(c, v, s)
    BY <2>1, <2>7, CreateBegins
  <2>8. CASE \E ss \in SUBSET Snap : Prune(c, ss)
    BY <2>1, <2>8, QuietBegins
  <2>9. CASE SnapSave(c)
    BY <2>1, <2>9, SnapSaves
  <2>10. CASE SnapMetadata(c) \/ SnapShutdown(c) \/ PruneNext(c)
    <3>1. files' = files
      BY <2>10 DEF SnapMetadata, SnapShutdown, PruneNext, disk
    <3> QED BY <2>1, <2>10, <3>1, QuietSteps
  <2>11. CASE SnapPublish(c)
    BY <2>1, <2>11, SnapPublishes
  <2>12. CASE SnapFail(c)
    BY <2>1, <2>12, SnapEnds
  <2>13. CASE PruneRemove(c) \/ RemoveStep(c)
    BY <2>1, <2>13, Removes
  <2>14. CASE CreateMetadata(c)
    BY <2>1, <2>14, CreateWrites
  <2>15. CASE CreateState(c)
    <3>1. files' = files
      BY <2>15 DEF CreateState, disk
    <3> QED BY <2>1, <2>15, <3>1, QuietSteps
  <2>16. CASE CreateFail(c)
    <3>1. Creating(c)
      BY <2>16 DEF CreateFail, Creating
    <3> QED BY <2>1, <2>16, <3>1, CreateEnds
  <2>17. CASE CopyNext(c)
    <3>1. CASE pc[c] \in {"image.copy", "restore.copy"}
      BY <2>1, <2>17, <3>1, CreateCopies
    <3>2. CASE pc[c] = "snap.copy"
      BY <2>1, <2>17, <3>2, SnapCopied
    <3> QED BY <2>17, <3>1, <3>2 DEF CopyNext, CopySteps
  <2> QED BY <1>2, <2>2, <2>3, <2>4, <2>5, <2>6, <2>7, <2>8, <2>9, <2>10, <2>11, <2>12,
             <2>13, <2>14, <2>15, <2>16, <2>17 DEF Command, Images, Snapshots, Create
<1> QED BY <1>1, <1>2 DEF Next

LEMMA FilesInit == ASSUME NEW asked, Init PROVE FileInv(asked)
<1>1. files = {} /\ \A c \in Cli : pc[c] = "idle"
  BY DEF Init
<1>2. \A v \in VM : guest[v].run = "off"
  BY DEF Init, NoGuest
<1>3. Shape
  BY <1>1 DEF Shape, Files, OneInode, Alone, StayHome, Joined
<1>4. /\ \A a, b : ~Joined(files, a, b)
      /\ \A a, x : ~At(files, a, x)
  BY <1>1 DEF Joined, At
<1>5. ImageFiles
  BY <1>1, <1>4 DEF ImageFiles, BuildFiles, Match, There
<1>6. VMFiles
  BY <1>1, <1>2, <1>4 DEF VMFiles, VMOK, There
<1>7. SnapFiles(asked)
  BY <1>1, <1>4 DEF SnapFiles, TempOK, Pair, SnapOK, Match, There, Saved
<1> QED BY <1>3, <1>5, <1>6, <1>7 DEF FileInv

-----------------------------------------------------------------------------
(* What a create has made of its VM *)

\* The disk that a restored VM opens, and the one a create has copied.
RestoredDisk == IF backend = "ch" THEN "rdisk" ELSE "disk"

Copies(c) == IF pc[c] = "image.copy" THEN ImageCopies ELSE RestoreCopies

\* The copies that are not left have been made.
Done(c) ==
    \A i \in 1..(Len(Copies(c)) - Len(todo[c])) :
        There(files, <<job[c].dst, Copies(c)[i].to>>)

\* The copies that belong together, and what they are copied from.
Taken(c) == IF pc[c] = "image.copy" THEN {"kernel", "disk"} ELSE {"saved", RestoredDisk}
Given(c) == IF pc[c] = "image.copy" THEN {"kernel", "disk"} ELSE {"saved", "disk"}

\* They are of one moment, that of what is still to be copied.
OneMoment(c) ==
    /\ \A f, g \in Taken(c) : Match(files, job[c].dst, f, g)
    /\ \A f \in Taken(c), g \in Given(c) : \A x, y :
          At(files, <<job[c].dst, f>>, x) /\ At(files, <<job[c].src, g>>, y) => x = y

MadeOK(asked, c) ==
    /\ pc[c] \in {"image.copy", "restore.copy"} =>
          /\ Done(c)
          /\ {"pairs", "sources"} \subseteq asked => OneMoment(c)
    /\ pc[c] = "vm.state" => /\ meta[job[c].dst] # None
                             /\ There(files, <<job[c].dst, "kernel">>)
                             /\ There(files, <<job[c].dst, Opened(files, job[c].dst[2])>>)

\* "sources" \in asked where nobody publishes under a create (SourcesKept).
Made(asked) == \A c \in Cli : MadeOK(asked, c)

LEMMA MadeStays ==
    ASSUME NEW asked, "sources" \in asked => SourcesKept,
           Control, OneChange, backend' = backend, NEW c \in Cli, MadeOK(asked, c),
           pc'[c] = pc[c], job'[c] = job[c], todo'[c] = todo[c]
    PROVE  MadeOK(asked, c)'
<1>1. CASE ~Creating(c)
  BY <1>1 DEF MadeOK, Creating
<1>2. CASE Creating(c)
  <2> DEFINE d == job[c].dst
  <2>1. d \in VMDirs /\ d = VMDir(d[2]) /\ d \notin Public
    BY <1>2, Kinds, Directories DEF Control, Jobs, JobOK, Public
  <2>2. PICK k \in Dir : /\ \A e \in (Public \cup VMDirs) \ {k} : Kept(e)
                         /\ k \in Public => \/ Fades(k)
                                            \/ CanMove(k) /\ (SourcesKept => Unread(k))
                         /\ k \in VMDirs => Busy(k)
    BY DEF OneChange
  <2>3. d # k
    BY <1>2, <2>1, <2>2 DEF Busy
  <2>4. SameFiles(d) /\ meta'[d] = meta[d]
    BY <2>1, <2>2, <2>3 DEF Kept
  <2>5. /\ \A f : There(files', <<d, f>>) <=> There(files, <<d, f>>)
        /\ \A f, x : At(files', <<d, f>>, x) <=> At(files, <<d, f>>, x)
    BY <2>4 DEF SameFiles, There
  <2>6. "sources" \in asked /\ pc[c] \in {"image.copy", "restore.copy"} => Fewer(job[c].src)
    <3> SUFFICES ASSUME "sources" \in asked, pc[c] \in {"image.copy", "restore.copy"}
                 PROVE  Fewer(job[c].src)
      OBVIOUS
    <3>1. job[c].src \in Public
      BY DEF Control, Jobs, JobOK, Public
    <3>2. job[c].src = k => Fades(k)
      BY <2>2, <3>1 DEF Unread
    <3> QED BY <2>2, <3>1, <3>2 DEF Kept, SameFiles, Fades, Fewer
  <2>7. /\ Copies(c)' = Copies(c) /\ job'[c].dst = d /\ job'[c].src = job[c].src
        /\ Taken(c)' = Taken(c) /\ Given(c)' = Given(c)
    BY DEF RestoredDisk, Copies, RestoreCopies, ImageCopies, Taken, Given
  <2>8. Done(c) => Done(c)'
    BY <2>5, <2>7 DEF Done
  <2>9. Fewer(job[c].src) /\ OneMoment(c) => OneMoment(c)'
    BY <2>5, <2>7 DEF OneMoment, Match, Fewer
  <2>10. Opened(files, d[2])' = Opened(files, d[2])
    BY <2>1, <2>5, <2>7 DEF Opened, VMDir
  <2> HIDE DEF d
  <2> QED BY <2>4, <2>5, <2>6, <2>7, <2>8, <2>9, <2>10 DEF MadeOK, d
<1> QED BY <1>1, <1>2

\* A create that begins finds no files in its new directory.
LEMMA MadeBegins ==
    ASSUME NEW asked, Control, FileInv(asked), NEW c \in Cli, NEW v \in VM,
           \/ \E i \in Image : CreateFromImage(c, v, i)
           \/ \E s \in Snap : CreateFromSnapshot(c, v, s)
    PROVE  MadeOK(asked, c)'
<1> USE DEF disk, imageVars, snapVars, machines
<1>1. /\ \/ pc'[c] = "image.copy" /\ todo'[c] = ImageCopies
         \/ pc'[c] = "restore.copy" /\ todo'[c] = RestoreCopies
      /\ files' = files /\ backend' = backend /\ VMDir(v) \notin dirs
      /\ job'[c].dst = VMDir(v)
  <2>1. CASE \E i \in Image : CreateFromImage(c, v, i)
    BY <2>1 DEF Control, Typed, CreateFromImage, Begin, Goto, NoJob
  <2>2. CASE \E s \in Snap : CreateFromSnapshot(c, v, s)
    BY <2>2 DEF Control, Typed, CreateFromSnapshot, Begin, Goto, NoJob
  <2> QED BY <2>1, <2>2
<1>2. \A f \in File : ~There(files, <<VMDir(v), f>>)
  BY <1>1 DEF FileInv, VMFiles, VMOK
<1>3. RestoreCopies' = RestoreCopies /\ Taken(c)' \subseteq File
  BY <1>1 DEF RestoreCopies, RestoredDisk, Taken, File
<1>4. Copies(c)' = todo'[c]
  BY <1>1, <1>3 DEF Copies
<1>5. Len(todo'[c]) \in Nat
  BY <1>1, CopiesTyped
<1>6. Done(c)'
  BY <1>4, <1>5 DEF Done
<1>7. \A f \in Taken(c)' : \A x : ~At(files', <<VMDir(v), f>>, x)
  BY <1>1, <1>2, <1>3, Relations DEF FileInv, Shape
<1>8. OneMoment(c)'
  BY <1>1, <1>7 DEF OneMoment, Match
<1> QED BY <1>1, <1>6, <1>8 DEF MadeOK

\* The next copy is the one after those that have been made.
LEMMA NextIndex ==
    ASSUME NEW S, NEW q \in Seq(S), NEW r \in Seq(S), q # <<>>, Suffix(q, r)
    PROVE  \A i \in 1..(Len(r) - Len(Tail(q))) : i \in 1..(Len(r) - Len(q)) \/ r[i] = Head(q)
<1>1. PICK m \in Nat : m = Len(q)
  OBVIOUS
<1>2. PICK n \in Nat : n = Len(r)
  OBVIOUS
<1>3. m > 0 /\ Len(Tail(q)) = m - 1 /\ Head(q) = q[1] /\ m <= n
  BY <1>1, <1>2 DEF Suffix
<1>4. q[1] = r[1 + n - m]
  BY <1>1, <1>2, <1>3 DEF Suffix
<1>5. \A i \in 1..(n - (m - 1)) : i \in 1..(n - m) \/ i = 1 + n - m
  BY <1>3
<1> QED BY <1>1, <1>2, <1>3, <1>4, <1>5

LEMMA MadeCopies ==
    ASSUME NEW asked, Control, FileInv(asked), NEW c \in Cli, CopyNext(c),
           pc[c] \in {"image.copy", "restore.copy"}, MadeOK(asked, c)
    PROVE  MadeOK(asked, c)'
<1> USE DEF machines
<1> DEFINE k == Head(todo[c])
           d == job[c].dst
           s == IF k.own THEN d ELSE job[c].src
<1>1. /\ \/ k.link /\ LinkFile(s, k.from, d, k.to)
         \/ CopyFile(s, k.from, d, k.to)
      /\ todo[c] # <<>> /\ todo' = [todo EXCEPT ![c] = Tail(todo[c])]
      /\ UNCHANGED <<dirs, meta, backend, guest, pc, job>>
  BY DEF CopyNext, LinkOrCopy
<1>2. d \in VMDirs /\ d \in Dir
  BY Directories DEF Control, Jobs, JobOK, Creating
<1>3. /\ pc[c] = "image.copy" => ~k.own /\ k.from = k.to /\ k.to \in {"kernel", "disk"}
      /\ pc[c] = "restore.copy" /\ backend = "vz" =>
           ~k.own /\ k.from = k.to /\ k.to \in {"saved", "kernel", "disk"}
      /\ pc[c] = "restore.copy" /\ backend = "ch" /\ Len(todo[c]) # 1 =>
           /\ ~k.own
           /\ \/ k.from = k.to /\ k.to \in {"saved", "kernel"}
              \/ k.from = "disk" /\ k.to = "rdisk"
      /\ pc[c] = "restore.copy" /\ backend = "ch" /\ Len(todo[c]) = 1 => k.to = "disk"
      /\ k.to \in File /\ k.from \in File
  <2>1. pc[c] \in CopySteps
    BY DEF CopySteps
  <2> QED BY <1>1, <2>1, NextCopy DEF Control
<1>4. Files(files) /\ backend \in {"ch", "vz"} /\ todo[c] \in Seq(Copy)
  BY DEF FileInv, Shape, Control, Typed
<1>5. /\ todo'[c] = Tail(todo[c]) /\ Copies(c)' = Copies(c)
      /\ Taken(c)' = Taken(c) /\ Given(c)' = Given(c)
      /\ Copies(c) \in Seq(Copy) /\ Suffix(todo[c], Copies(c)) /\ job'[c] = job[c] /\ pc'[c] = pc[c]
  <2>1. /\ todo'[c] = Tail(todo[c]) /\ Copies(c)' = Copies(c)
        /\ Taken(c)' = Taken(c) /\ Given(c)' = Given(c)
    BY <1>1 DEF Control, Typed, RestoredDisk, Copies, RestoreCopies, ImageCopies, Taken, Given
  <2> QED BY <1>1, <2>1, CopiesTyped DEF Copies, Control, CopiesLeft, CopiesOK
<1> HIDE DEF k, d, s
<1>6. /\ Files(files')
      /\ \A a, x : At(files', a, x) <=> At(files, a, x) \/ (a = <<d, k.to>> /\ At(files, <<s, k.from>>, x))
      /\ \A f : There(files', <<d, f>>) <=> There(files, <<d, f>>) \/ f = k.to
  <2>1. CASE CopyFile(s, k.from, d, k.to)
    <3>1. PICK x : /\ Files(files') /\ Added(files, files', <<d, k.to>>, x)
                   /\ There(files, <<s, k.from>>) /\ At(files, <<s, k.from>>, x)
      BY <1>1, <1>2, <1>3, <1>4, <2>1, CopyFileAdds
    <3>2. \A y : At(files, <<s, k.from>>, y) <=> y = x
      BY <1>4, <3>1, Relations DEF There
    <3>3. \A f : There(files', <<d, f>>) <=> There(files, <<d, f>>) \/ f = k.to
      BY <3>1 DEF There, Added
    <3> QED BY <3>1, <3>2, <3>3 DEF Added
  <2>2. CASE LinkFile(s, k.from, d, k.to)
    <3>1. Files(files') /\ LinkedTo(files, files', <<s, k.from>>, <<d, k.to>>)
      BY <1>1, <1>2, <1>3, <1>4, <2>2, LinkFileLinks
    <3>2. \A f : There(files', <<d, f>>) <=> There(files, <<d, f>>) \/ f = k.to
      <4>1. \A a : /\ Joined(files, <<s, k.from>>, a) => There(files, a)
                   /\ Joined(files, a, <<s, k.from>>) => There(files, a)
        BY <1>4, Relations
      <4> QED BY <3>1, <4>1 DEF There, LinkedTo
    <3> QED BY <3>1, <3>2 DEF LinkedTo
  <2> QED BY <1>1, <2>1, <2>2
<1>7. Done(c)'
  <2>1. Done(c)
    BY DEF MadeOK
  <2>2. \A i \in 1..(Len(Copies(c)) - Len(todo'[c])) :
            i \in 1..(Len(Copies(c)) - Len(todo[c])) \/ Copies(c)[i] = k
    BY <1>1, <1>4, <1>5, NextIndex DEF k
  <2>3. job'[c].dst = d
    BY <1>5 DEF d
  <2>4. \A i \in 1..(Len(Copies(c)) - Len(todo[c])) : There(files, <<d, Copies(c)[i].to>>)
    BY <2>1 DEF Done, d
  <2>5. \A i \in 1..(Len(Copies(c)) - Len(todo'[c])) : There(files', <<d, Copies(c)[i].to>>)
    BY <1>6, <2>2, <2>4
  <2> QED BY <1>5, <2>3, <2>5 DEF Done
<1>8. {"pairs", "sources"} \subseteq asked => OneMoment(c)'
  <2> SUFFICES ASSUME {"pairs", "sources"} \subseteq asked PROVE OneMoment(c)'
    OBVIOUS
  <2> DEFINE t == job[c].src
             T == Taken(c)
             G == Given(c)
  <2>1. t \in ImageDirs \cup SnapDirs /\ t # d
    BY <1>2, Directories DEF Control, Jobs, JobOK
  <2>2. /\ \A f, g \in T : Match(files, d, f, g)
        /\ \A f \in T, g \in G : \A x, y :
              At(files, <<d, f>>, x) /\ At(files, <<t, g>>, y) => x = y
    BY DEF MadeOK, OneMoment, d
  <2>3. k.to \in T => s = t /\ k.from \in G
    BY <1>3, <1>4 DEF s, Taken, Given, RestoredDisk
  <2>4. \A g, x : At(files', <<t, g>>, x) <=> At(files, <<t, g>>, x)
    BY <1>6, <2>1
  <2>5. \A g, h \in G : \A x, y : At(files, <<t, g>>, x) /\ At(files, <<t, h>>, y) => x = y
    <3>1. CASE pc[c] = "image.copy"
      <4>1. t \in ImageDirs
        BY <3>1 DEF Control, Jobs, JobOK
      <4>2. Match(files, t, "kernel", "disk") /\ G = {"kernel", "disk"}
        BY <3>1, <4>1, Kinds DEF FileInv, ImageFiles, Given
      <4> QED BY <1>4, <4>2, Relations DEF Match, There
    <3>2. CASE pc[c] = "restore.copy"
      <4>1. t \in SnapDirs
        BY <3>2 DEF Control, Jobs, JobOK
      <4>2. Match(files, t, "saved", "disk") /\ G = {"saved", "disk"}
        BY <3>2, <4>1, Kinds DEF FileInv, SnapFiles, SnapOK, Given
      <4> QED BY <1>4, <4>2, Relations DEF Match, There
    <3> QED BY <3>1, <3>2
  <2> HIDE DEF t, T, G
  <2>6. \A f, x : At(files', <<d, f>>, x) <=> At(files, <<d, f>>, x) \/ (f = k.to /\ At(files, <<s, k.from>>, x))
    BY <1>6
  <2>7. \A f \in T : \A x : At(files', <<d, f>>, x) =>
           At(files, <<d, f>>, x) \/ \E g \in G : At(files, <<t, g>>, x)
    BY <2>3, <2>6
  <2>8. \A f \in T, g \in G : \A x, y :
            At(files', <<d, f>>, x) /\ At(files', <<t, g>>, y) => x = y
    BY <2>2, <2>4, <2>5, <2>7
  <2>9. ASSUME NEW f \in T, NEW g \in T PROVE Match(files', d, f, g)
    <3> SUFFICES ASSUME NEW x, NEW y, At(files', <<d, f>>, x), At(files', <<d, g>>, y)
                 PROVE  x = y
      BY DEF Match
    <3>1. CASE \E h \in G : At(files, <<t, h>>, x)
      BY <2>4, <2>8, <3>1
    <3>2. CASE \E h \in G : At(files, <<t, h>>, y)
      BY <2>4, <2>8, <3>2
    <3>3. CASE At(files, <<d, f>>, x) /\ At(files, <<d, g>>, y)
      BY <2>2, <3>3 DEF Match
    <3> QED BY <2>7, <3>1, <3>2, <3>3
  <2> QED BY <1>5, <2>8, <2>9 DEF OneMoment, d, t, T, G
<1> QED BY <1>5, <1>7, <1>8 DEF MadeOK

\* The files a create has made when no copies are left.
LEMMA CopiesDone ==
    ASSUME NEW asked, Control, FileInv(asked), NEW c \in Cli, MadeOK(asked, c),
           pc[c] \in {"image.copy", "restore.copy"}, todo[c] = <<>>
    PROVE  /\ There(files, <<job[c].dst, "kernel">>)
           /\ pc[c] = "image.copy" => /\ There(files, <<job[c].dst, "disk">>)
                                      /\ ~There(files, <<job[c].dst, "saved">>)
           /\ pc[c] = "restore.copy" => /\ There(files, <<job[c].dst, RestoredDisk>>)
                                        /\ There(files, <<job[c].dst, "saved">>)
<1> DEFINE d == job[c].dst
<1>1. d \in VMDirs /\ d[2] \in VM /\ d = VMDir(d[2])
  BY Kinds DEF Control, Jobs, JobOK, Creating
<1>2. backend \in {"ch", "vz"} /\ Done(c) /\ Len(todo[c]) = 0
  BY DEF Control, Typed, MadeOK
<1> HIDE DEF d
<1>3. CASE pc[c] = "image.copy"
  <2>1. Copies(c) = ImageCopies /\ Len(ImageCopies) = 2
    BY <1>3 DEF Copies, ImageCopies
  <2>2. \A i \in 1..2 : There(files, <<d, ImageCopies[i].to>>)
    BY <1>2, <2>1 DEF Done, d
  <2>3. ImageCopies[1].to = "kernel" /\ ImageCopies[2].to = "disk"
    BY DEF ImageCopies
  <2>4. ~There(files, <<VMDir(d[2]), "saved">>)
    BY <1>1, <1>3 DEF FileInv, VMFiles, VMOK, d
  <2> QED BY <1>1, <1>3, <2>2, <2>3, <2>4 DEF d
<1>4. CASE pc[c] = "restore.copy"
  <2>1. Copies(c) = RestoreCopies
    BY <1>4 DEF Copies
  <2>2. CASE backend = "ch"
    <3>1. /\ Len(RestoreCopies) = 4 /\ RestoreCopies[1].to = "saved"
          /\ RestoreCopies[2].to = "kernel" /\ RestoreCopies[3].to = "rdisk"
      BY <2>2 DEF RestoreCopies, Linked, Copied
    <3>2. \A i \in 1..4 : There(files, <<d, RestoreCopies[i].to>>)
      BY <1>2, <2>1, <3>1 DEF Done, d
    <3>3. /\ There(files, <<d, "saved">>) /\ There(files, <<d, "kernel">>)
          /\ There(files, <<d, "rdisk">>)
      BY <3>1, <3>2
    <3> QED BY <1>4, <2>2, <3>3 DEF RestoredDisk, d
  <2>3. CASE backend = "vz"
    <3>1. /\ Len(RestoreCopies) = 3 /\ RestoreCopies[1].to = "saved"
          /\ RestoreCopies[2].to = "kernel" /\ RestoreCopies[3].to = "disk"
      BY <2>3 DEF RestoreCopies, Copied
    <3>2. \A i \in 1..3 : There(files, <<d, RestoreCopies[i].to>>)
      BY <1>2, <2>1, <3>1 DEF Done, d
    <3> QED BY <1>4, <2>3, <3>1, <3>2 DEF RestoredDisk, d
  <2> QED BY <1>2, <2>2, <2>3
<1> QED BY <1>3, <1>4

\* When the copies have been made, a VM has what it needs.
LEMMA MadeWhole ==
    ASSUME NEW asked, Control, FileInv(asked), NEW c \in Cli, CreateMetadata(c), MadeOK(asked, c)
    PROVE  MadeOK(asked, c)'
<1> USE DEF machines
<1> DEFINE d == job[c].dst
<1>1. /\ pc[c] \in {"image.copy", "restore.copy"} /\ todo[c] = <<>> /\ pc'[c] = "vm.state"
      /\ meta' = [meta EXCEPT ![d] = job[c].name[2]]
      /\ UNCHANGED <<dirs, backend, guest, job, todo>>
  BY DEF CreateMetadata, InjectKey, Goto, Control, Typed
<1>2. d \in VMDirs /\ d \in Dir /\ d[2] \in VM /\ d = VMDir(d[2]) /\ job[c].name[2] \in Image
  BY <1>1, Kinds, Directories DEF Control, Jobs, JobOK, Creating
<1>3. meta'[d] # None
  BY <1>1, <1>2, ArtifactConstants DEF Control, Typed
<1>4. Files(files) /\ backend \in {"ch", "vz"} /\ Done(c)
  BY <1>1 DEF FileInv, Shape, Control, Typed, MadeOK
<1> HIDE DEF d
<1>5. CASE pc[c] = "image.copy"
  <2>1. There(files, <<d, "kernel">>) /\ There(files, <<d, "disk">>) /\ ~There(files, <<d, "saved">>)
    BY <1>1, <1>5, CopiesDone DEF d
  <2>2. \A f : There(files', <<d, f>>) <=> There(files, <<d, f>>)
    <3>1. CASE files' = files
      BY <3>1
    <3>2. CASE files' # files
      <4>1. stamp < MaxStamp /\ Overwrite(d, "disk", stamp + 1)
        BY <3>2 DEF CreateMetadata, InjectKey, d
      <4>2. stamp + 1 \in Stamp
        BY <4>1, ArtifactConstants DEF Control, Typed, Stamp
      <4>3. Written(files, files', <<d, "disk">>, stamp + 1)
        BY <1>2, <1>4, <4>1, <4>2, OverwriteWrites
      <4> QED BY <4>3 DEF Written, There
    <3> QED BY <3>1, <3>2
  <2>3. Opened(files, d[2])' = "disk"
    BY <1>1, <1>2, <2>1, <2>2 DEF Opened, VMDir, d
  <2> QED BY <1>1, <1>3, <2>1, <2>2, <2>3 DEF MadeOK, d
<1>6. CASE pc[c] = "restore.copy"
  <2>1. files' = files
    BY <1>6 DEF CreateMetadata, InjectKey
  <2>3. There(files, <<d, "kernel">>) /\ There(files, <<d, RestoredDisk>>)
        /\ There(files, <<d, "saved">>)
    BY <1>1, <1>6, CopiesDone DEF d
  <2>4. Opened(files, d[2])' = RestoredDisk
    BY <1>1, <1>2, <1>4, <2>1, <2>3 DEF Opened, VMDir, RestoredDisk, d
  <2> QED BY <1>1, <1>3, <2>1, <2>3, <2>4 DEF MadeOK, d
<1> QED BY <1>1, <1>5, <1>6

LEMMA MadeStutter == ASSUME NEW asked, Made(asked), UNCHANGED vars PROVE Made(asked)'
<1>1. UNCHANGED <<files, meta, backend, pc, job, todo>>
  BY DEF vars, disk, cmd
<1>2. RestoredDisk' = RestoredDisk /\ RestoreCopies' = RestoreCopies
  BY <1>1 DEF RestoredDisk, RestoreCopies
<1>3. ASSUME NEW c \in Cli
      PROVE  /\ Done(c)' <=> Done(c)
             /\ OneMoment(c)' <=> OneMoment(c)
             /\ Opened(files, job[c].dst[2])' = Opened(files, job[c].dst[2])
  <2>1. Copies(c)' = Copies(c) /\ Taken(c)' = Taken(c) /\ Given(c)' = Given(c)
    BY <1>1, <1>2 DEF Copies, Taken, Given
  <2> QED BY <1>1, <2>1 DEF Done, OneMoment, Match, Opened, VMDir
<1> QED BY <1>1, <1>3 DEF Made, MadeOK

LEMMA MadeKept ==
    ASSUME NEW asked, "sources" \in asked => SourcesKept,
           Control, FileInv(asked), Made(asked), OneChange, Next
    PROVE  Made(asked)'
<1>1. backend' = backend
  BY BackendStays
<1>2. CASE Guests
  <2>1. UNCHANGED <<pc, job, todo>>
    BY <1>2, GuestsLeaveCommands
  <2> QED BY <1>1, <2>1, MadeStays DEF Made
<1>3. ASSUME NEW c \in Cli, Command(c) \/ Crash(c) PROVE Made(asked)'
  <2>1. Others(c)
    BY <1>3, OthersStay DEF Control
  <2>2. \A e \in Cli \ {c} : MadeOK(asked, e)'
    BY <1>1, <2>1, MadeStays DEF Made, Others
  <2>3. MadeOK(asked, c)'
    <3>1. CASE \E v \in VM : \/ \E i \in Image : CreateFromImage(c, v, i)
                             \/ \E s \in Snap : CreateFromSnapshot(c, v, s)
      BY <3>1, MadeBegins
    <3>2. CASE CreateMetadata(c)
      BY <3>2, MadeWhole DEF Made
    <3>3. CASE CopyNext(c) /\ pc[c] # "snap.copy"
      BY <3>3, MadeCopies DEF Made, CopyNext, CopySteps
    <3>4. CASE pc'[c] \notin {"image.copy", "restore.copy", "vm.state"}
      BY <3>4 DEF MadeOK
    <3> USE DEF disk, cmd, imageVars, snapVars, machines, Goto, Control, Typed
    <3>5. CASE Build(c)
      <4>1. pc'[c] \in BuildSteps \cup {"idle"}
        BY <3>5 DEF Build, BuildBegin, ResolveTemplate, TemplateTmp, TemplateFill, TemplateMove,
           TemplateAside, TemplateSwap, BuildClear, BuildRun, BuildOutput, BuildVerify,
           BuildStage, BuildReplace, BuildInstall, BuildFail, Begin, Return, BuildSteps, Building
      <4> QED BY <3>4, <4>1 DEF BuildSteps
    <3>6. CASE \E i \in Image : DeleteImage(c, i)
      BY <3>4, <3>6 DEF DeleteImage, Begin
    <3>7. CASE Snapshots(c) /\ ~\E v \in VM, s \in Snap : CreateFromSnapshot(c, v, s)
      BY <3>4, <3>7 DEF Snapshots, SnapshotCreate, SnapSave, SnapMetadata, SnapShutdown,
         SnapPublish, SnapFail, Prune, PruneNext, PruneRemove, Begin, Return
    <3>8. CASE CreateState(c) \/ CreateFail(c) \/ RemoveStep(c) \/ Crash(c)
                 \/ (CopyNext(c) /\ pc[c] = "snap.copy")
      BY <3>4, <3>8 DEF CreateState, CreateFail, RemoveStep, Crash, CopyNext, Return
    <3> QED BY <1>3, <3>1, <3>2, <3>3, <3>5, <3>6, <3>7, <3>8
            DEF Command, Images, Snapshots, Create
  <2> QED BY <2>2, <2>3 DEF Made
<1> QED BY <1>2, <1>3 DEF Next

LEMMA MadeInit == ASSUME NEW asked, Init PROVE Made(asked)
BY DEF Init, Made, MadeOK

\* Only the last step of a create gives a VM its first status.
LEMMA FirstStatus ==
    ASSUME Control, [Next]_vars, NEW v \in VM, guest[v].status = "none", guest'[v].status # "none"
    PROVE  \E c \in Cli : pc[c] = "vm.state" /\ job[c].dst = VMDir(v)
<1> USE DEF disk, cmd, imageVars, snapVars, machines, Goto
<1>1. guest \in [VM -> Guest] /\ guest' # guest
  BY DEF Control, Typed
<1>2. ~Guests
  <2>1. guest[v] = NoGuest
    BY DEF Control, Owners
  <2> QED BY <1>1, <2>1 DEF Guests, GuestStart, GuestStop, GuestWrite, DeleteVM, NoGuest
<1>3. PICK c \in Cli : Command(c) \/ Crash(c)
  BY <1>1, <1>2 DEF Next, vars
<1>4. CreateState(c) \/ SnapSave(c) \/ SnapShutdown(c) \/ SnapFail(c)
  <2>1. ~Build(c)
    BY <1>1 DEF Build, BuildBegin, ResolveTemplate, TemplateTmp, TemplateFill, TemplateMove,
       TemplateAside, TemplateSwap, BuildClear, BuildRun, BuildOutput, BuildVerify,
       BuildStage, BuildReplace, BuildInstall, BuildFail
  <2> QED BY <1>1, <1>3, <2>1 DEF Command, Images, DeleteImage, CreateFromImage, Snapshots,
          SnapshotCreate, CreateFromSnapshot, SnapMetadata, SnapPublish, Prune, PruneNext,
          PruneRemove, Create, CreateMetadata, InjectKey, CreateFail, CopyNext, RemoveStep, Crash
<1>5. ~SnapSave(c) /\ ~SnapShutdown(c) /\ ~SnapFail(c)
  <2>1. ASSUME NEW run, guest' = [guest EXCEPT ![Source(c)].run = run] PROVE FALSE
    BY <1>1, <2>1 DEF Guest
  <2>2. ~SnapShutdown(c)
    <3> SUFFICES ASSUME SnapShutdown(c) PROVE FALSE
      OBVIOUS
    <3>1. guest[Source(c)].status # "none"
      BY DEF SnapShutdown, Control, Owners, Saving
    <3>2. \A w \in VM \ {Source(c)} : guest'[w] = guest[w]
      BY <1>1 DEF SnapShutdown
    <3> QED BY <3>1, <3>2
  <2> QED BY <2>1, <2>2 DEF SnapSave, SnapFail
<1>6. pc[c] = "vm.state" /\ guest' = [guest EXCEPT ![job[c].dst[2]].status = "stopped"]
  BY <1>4, <1>5 DEF CreateState
<1>7. job[c].dst = VMDir(job[c].dst[2])
  BY <1>6, Kinds DEF Control, Jobs, JobOK, Creating
<1>8. job[c].dst[2] = v
  BY <1>1, <1>6
<1> QED BY <1>6, <1>7, <1>8

-----------------------------------------------------------------------------
(* What list and inspect read *)

Listed(d, fs) == d \in dirs /\ meta[d] # None /\ \A f \in fs : Has(d, f)

LEMMA ContentNext ==
    ASSUME NEW d, NEW f, Files(files')
    PROVE  /\ Has(d, f)' <=> There(files', <<d, f>>)
           /\ \A x : At(files', <<d, f>>, x) => Content(d, f)' = x
<1>1. Has(d, f)' <=> There(files', <<d, f>>)
  BY DEF Has, There, Joined
<1>2. ASSUME NEW x, At(files', <<d, f>>, x) PROVE Content(d, f)' = x
  <2>1. PICK n \in files' : <<d, f>> \in n.names /\ n.data = x
    BY <1>2 DEF At
  <2>2. \A m \in files' : <<d, f>> \in m.names => m = n
    BY <2>1 DEF Files, OneInode
  <2>3. InodeOf(d, f)' = n
    BY <2>1, <2>2 DEF InodeOf
  <2> QED BY <2>1, <2>3 DEF Content
<1> QED BY <1>1, <1>2

LEMMA FadesListed ==
    ASSUME Files(files), Files(files'), NEW d, NEW fs, Fades(d), Listed(d, fs)'
    PROVE  Listed(d, fs) /\ \A f \in fs : Content(d, f)' = Content(d, f)
<1>1. d \in dirs /\ meta[d] # None
  BY DEF Listed, Fades
<1>2. ASSUME NEW f \in fs PROVE Has(d, f) /\ Content(d, f)' = Content(d, f)
  <2>1. There(files', <<d, f>>)
    BY ContentNext DEF Listed
  <2>2. PICK x : At(files', <<d, f>>, x)
    BY <2>1, Relations
  <2>3. At(files, <<d, f>>, x)
    BY <2>2 DEF Fades, Fewer
  <2>4. There(files, <<d, f>>)
    BY <2>3, Relations
  <2> QED BY <2>2, <2>3, <2>4, ContentNext, Content_At
<1> QED BY <1>1, <1>2 DEF Listed

LEMMA KeptListed ==
    ASSUME Files(files), Files(files'), NEW d, NEW fs, Kept(d)
    PROVE  /\ Listed(d, fs)' <=> Listed(d, fs)
           /\ Listed(d, fs) => \A f \in fs : Content(d, f)' = Content(d, f)
<1>1. Fades(d)
  BY DEF Kept, SameFiles, Fades, Fewer
<1>2. ASSUME Listed(d, fs) PROVE Listed(d, fs)'
  <2>1. d \in dirs' /\ meta'[d] # None
    BY <1>2 DEF Listed, Kept
  <2>2. ASSUME NEW f \in fs PROVE Has(d, f)'
    <3>1. There(files, <<d, f>>)
      BY <1>2, Content_At DEF Listed
    <3>2. There(files', <<d, f>>)
      BY <3>1 DEF Kept, SameFiles, There
    <3> QED BY <3>2, ContentNext
  <2> QED BY <2>1, <2>2 DEF Listed
<1> QED BY <1>1, <1>2, FadesListed

LEMMA FreeListed ==
    ASSUME NEW d, NEW fs, CanMove(d) PROVE ~Listed(d, fs)
BY DEF CanMove, Empty, Listed

\* The content of two files of which one is what the other is.
LEMMA MatchListed ==
    ASSUME Files(files'), NEW d, NEW fs, NEW f \in fs, NEW g \in fs, Match(files', d, f, g),
           Listed(d, fs)'
    PROVE  Content(d, f)' = Content(d, g)' /\ Content(d, f)' \in Stamp
<1>1. There(files', <<d, f>>) /\ There(files', <<d, g>>)
  BY ContentNext DEF Listed
<1>2. PICK x \in Stamp, y \in Stamp : At(files', <<d, f>>, x) /\ At(files', <<d, g>>, y)
  BY <1>1, Relations
<1> QED BY <1>2, ContentNext DEF Match

\* One name changes as the catalog allows.
LEMMA OneNameChanges ==
    ASSUME NEW Names, NEW whole, NEW nothing, NEW C, NEW D,
           C = [n \in Names |-> C[n]], D = [n \in Names |-> D[n]],
           NEW k, \A n \in Names : n # k => D[n] = C[n],
           k \in Names => \/ D[k] \in {C[k], nothing}
                          \/ C[k] = nothing /\ D[k] \in whole
    PROVE  \/ D = C
           \/ \E n \in Names :
                 \/ /\ C[n] = nothing
                    /\ \E a \in whole : D = [C EXCEPT ![n] = a]
                 \/ /\ C[n] # nothing
                    /\ D = [C EXCEPT ![n] = nothing]
<1>1. CASE \A n \in Names : D[n] = C[n]
  <2>1. [n \in Names |-> D[n]] = [n \in Names |-> C[n]]
    BY <1>1
  <2> QED BY <2>1
<1>2. CASE \E n \in Names : D[n] # C[n]
  <2>1. k \in Names /\ D[k] # C[k]
    BY <1>2
  <2>2. D = [C EXCEPT ![k] = D[k]]
    <3>1. [n \in Names |-> D[n]] = [[n \in Names |-> C[n]] EXCEPT ![k] = D[k]]
      BY <2>1
    <3> QED BY <3>1
  <2>3. CASE D[k] = nothing
    BY <2>1, <2>2, <2>3
  <2>4. CASE C[k] = nothing /\ D[k] \in whole
    BY <2>1, <2>2, <2>4
  <2> QED BY <2>1, <2>3, <2>4
<1> QED BY <1>1, <1>2

LEMMA ImageChanges ==
    ASSUME NEW asked, Control, FileInv(asked), FileInv(asked)', OneChange
    PROVE  ImageCatalog!Next \/ ImageView' = ImageView
<1> DEFINE fs == {"kernel", "disk"}
           v(i) == [kernel |-> Content(ImageDir(i), "kernel"),
                    disk   |-> Content(ImageDir(i), "disk")]
<1>1. Files(files) /\ Files(files')
  BY DEF FileInv, Shape
<1>2. PICK d \in Dir : /\ \A e \in Public \ {d} : Kept(e)
                       /\ d \in Public => Fades(d) \/ CanMove(d)
  BY DEF OneChange
<1>3. \A i \in Image : ImageDir(i) \in Public /\ ImageDir(i)' = ImageDir(i)
  BY Kinds DEF Public, ImageDir
<1>4. \A i \in Image : /\ Healthy(ImageDir(i)) <=> Listed(ImageDir(i), fs)
                       /\ Healthy(ImageDir(i))' <=> Listed(ImageDir(i), fs)'
  BY DEF Healthy, Listed, ImageDir
<1>5. \A i \in Image : /\ ImageView[i] = IF Listed(ImageDir(i), fs) THEN v(i) ELSE None
                       /\ ImageView'[i] = IF Listed(ImageDir(i), fs)' THEN v(i)' ELSE None
  BY <1>4 DEF ImageView
<1>6. \A i \in Image : v(i)' = [kernel |-> Content(ImageDir(i), "kernel")',
                                disk   |-> Content(ImageDir(i), "disk")']
  BY DEF ImageDir
<1>7. ASSUME NEW i \in Image, ImageDir(i) # d PROVE ImageView'[i] = ImageView[i]
  <2>1. Kept(ImageDir(i))
    BY <1>2, <1>3, <1>7
  <2>2. /\ Listed(ImageDir(i), fs)' <=> Listed(ImageDir(i), fs)
        /\ Listed(ImageDir(i), fs) => \A f \in fs : Content(ImageDir(i), f)' = Content(ImageDir(i), f)
    BY <1>1, <2>1, KeptListed
  <2> QED BY <1>5, <1>6, <2>2
<1>8. ASSUME NEW i \in Image, ImageDir(i) = d
      PROVE  \/ ImageView'[i] \in {ImageView[i], None}
             \/ ImageView[i] = None /\ ImageView'[i] \in WholeImages
  <2>1. CASE Fades(d)
    <3>1. Listed(d, fs)' => Listed(d, fs) /\ \A f \in fs : Content(d, f)' = Content(d, f)
      BY <1>1, <2>1, FadesListed
    <3> QED BY <1>5, <1>6, <1>8, <3>1
  <2>2. CASE CanMove(d)
    <3>1. ~Listed(d, fs)
      BY <2>2, FreeListed
    <3>2. Match(files', d, "kernel", "disk")
      <4>1. \A j \in Image : Match(files', ImageDir(j), "kernel", "disk")
        BY DEF FileInv, ImageFiles, ImageDir
      <4> QED BY <1>8, <4>1
    <3>3. Listed(d, fs)' => /\ Content(d, "kernel")' = Content(d, "disk")'
                            /\ Content(d, "kernel")' \in Stamp
      BY <1>1, <3>2, MatchListed
    <3> QED BY <1>5, <1>6, <1>8, <3>1, <3>3 DEF WholeImages
  <2> QED BY <1>2, <1>3, <1>8, <2>1, <2>2
<1>9. /\ ImageView = [i \in Image |-> ImageView[i]]
      /\ ImageView' = [i \in Image |-> ImageView'[i]]
  BY DEF ImageView
<1>10. \/ ImageView' = ImageView
       \/ \E n \in Image :
             \/ /\ ImageView[n] = None
                /\ \E a \in WholeImages : ImageView' = [ImageView EXCEPT ![n] = a]
             \/ /\ ImageView[n] # None
                /\ ImageView' = [ImageView EXCEPT ![n] = None]
  <2>1. CASE \E k \in Image : ImageDir(k) = d
    <3>1. PICK k \in Image : ImageDir(k) = d
      BY <2>1
    <3>2. \A n \in Image : n # k => ImageDir(n) # d
      BY <3>1 DEF ImageDir
    <3>3. \A n \in Image : n # k => ImageView'[n] = ImageView[n]
      BY <1>7, <3>2
    <3>4. \/ ImageView'[k] \in {ImageView[k], None}
          \/ ImageView[k] = None /\ ImageView'[k] \in WholeImages
      BY <1>8, <3>1
    <3> HIDE DEF v, fs
    <3> QED BY <1>9, <3>3, <3>4, OneNameChanges
  <2>2. CASE \A k \in Image : ImageDir(k) # d
    <3>1. \A n \in Image : ImageView'[n] = ImageView[n]
      BY <1>7, <2>2
    <3> QED BY <1>9, <3>1
  <2> QED BY <2>1, <2>2
<1> QED BY <1>10 DEF ImageCatalog!Next, ImageCatalog!Publish, ImageCatalog!Retire

LEMMA SnapshotChanges ==
    ASSUME NEW asked, "pairs" \in asked, Control, FileInv(asked), FileInv(asked)', OneChange
    PROVE  SnapshotCatalog!Next \/ SnapshotView' = SnapshotView
<1> DEFINE fs == {"kernel", "disk", "saved"}
           v(s) == [kernel |-> Content(SnapDir(s), "kernel"),
                    disk   |-> Content(SnapDir(s), "disk"),
                    saved  |-> Content(SnapDir(s), "saved")]
<1>1. Files(files) /\ Files(files')
  BY DEF FileInv, Shape
<1>2. PICK d \in Dir : /\ \A e \in Public \ {d} : Kept(e)
                       /\ d \in Public => Fades(d) \/ CanMove(d)
  BY DEF OneChange
<1>3. \A s \in Snap : SnapDir(s) \in Public /\ SnapDir(s)' = SnapDir(s)
  BY Kinds DEF Public, SnapDir
<1>4. \A s \in Snap :
         /\ SnapDir(s) \in dirs /\ meta[SnapDir(s)] # None /\ Complete(SnapDir(s))
              <=> Listed(SnapDir(s), fs)
         /\ (SnapDir(s) \in dirs /\ meta[SnapDir(s)] # None /\ Complete(SnapDir(s)))'
              <=> Listed(SnapDir(s), fs)'
  BY DEF Complete, Listed, SnapDir
<1>5. \A s \in Snap : /\ SnapshotView[s] = IF Listed(SnapDir(s), fs) THEN v(s) ELSE None
                      /\ SnapshotView'[s] = IF Listed(SnapDir(s), fs)' THEN v(s)' ELSE None
  BY <1>4 DEF SnapshotView
<1>6. \A s \in Snap : v(s)' = [kernel |-> Content(SnapDir(s), "kernel")',
                               disk   |-> Content(SnapDir(s), "disk")',
                               saved  |-> Content(SnapDir(s), "saved")']
  BY DEF SnapDir
<1>7. ASSUME NEW s \in Snap, SnapDir(s) # d PROVE SnapshotView'[s] = SnapshotView[s]
  <2>1. Kept(SnapDir(s))
    BY <1>2, <1>3, <1>7
  <2>2. /\ Listed(SnapDir(s), fs)' <=> Listed(SnapDir(s), fs)
        /\ Listed(SnapDir(s), fs) => \A f \in fs : Content(SnapDir(s), f)' = Content(SnapDir(s), f)
    BY <1>1, <2>1, KeptListed
  <2> QED BY <1>5, <1>6, <2>2
<1>8. ASSUME NEW s \in Snap, SnapDir(s) = d
      PROVE  \/ SnapshotView'[s] \in {SnapshotView[s], None}
             \/ SnapshotView[s] = None /\ SnapshotView'[s] \in WholeSnapshots
  <2>1. CASE Fades(d)
    <3>1. Listed(d, fs)' => Listed(d, fs) /\ \A f \in fs : Content(d, f)' = Content(d, f)
      BY <1>1, <2>1, FadesListed
    <3> QED BY <1>5, <1>6, <1>8, <3>1
  <2>2. CASE CanMove(d)
    <3>1. ~Listed(d, fs)
      BY <2>2, FreeListed
    <3>2. Match(files', d, "saved", "disk")
      <4>1. \A t \in Snap : Match(files', SnapDir(t), "saved", "disk")
        BY DEF FileInv, SnapFiles, SnapOK, SnapDir
      <4> QED BY <1>8, <4>1
    <3>3. Listed(d, fs)' => /\ Content(d, "saved")' = Content(d, "disk")'
                            /\ Content(d, "saved")' \in Stamp
      BY <1>1, <3>2, MatchListed
    <3>4. Match(files', d, "kernel", "kernel")
      BY <1>1, Relations DEF Match, At, Files, OneInode
    <3>5. Listed(d, fs)' => Content(d, "kernel")' \in Stamp
      BY <1>1, <3>4, MatchListed
    <3>6. \A x, y \in Stamp : [kernel |-> x, disk |-> y, saved |-> y] \in WholeSnapshots
      BY DEF WholeSnapshots
    <3>7. CASE Listed(d, fs)'
      <4>1. SnapshotView'[s] = [kernel |-> Content(d, "kernel")',
                                disk   |-> Content(d, "saved")',
                                saved  |-> Content(d, "saved")']
        BY <1>5, <1>6, <1>8, <3>3, <3>7
      <4>2. SnapshotView'[s] \in WholeSnapshots
        BY <3>3, <3>5, <3>6, <3>7, <4>1
      <4> QED BY <1>5, <1>8, <3>1, <4>2
    <3> QED BY <1>5, <1>8, <3>7
  <2> QED BY <1>2, <1>3, <1>8, <2>1, <2>2
<1>9. /\ SnapshotView = [s \in Snap |-> SnapshotView[s]]
      /\ SnapshotView' = [s \in Snap |-> SnapshotView'[s]]
  BY DEF SnapshotView
<1>10. \/ SnapshotView' = SnapshotView
       \/ \E n \in Snap :
             \/ /\ SnapshotView[n] = None
                /\ \E a \in WholeSnapshots : SnapshotView' = [SnapshotView EXCEPT ![n] = a]
             \/ /\ SnapshotView[n] # None
                /\ SnapshotView' = [SnapshotView EXCEPT ![n] = None]
  <2>1. CASE \E k \in Snap : SnapDir(k) = d
    <3>1. PICK k \in Snap : SnapDir(k) = d
      BY <2>1
    <3>2. \A n \in Snap : n # k => SnapDir(n) # d
      BY <3>1 DEF SnapDir
    <3>3. \A n \in Snap : n # k => SnapshotView'[n] = SnapshotView[n]
      BY <1>7, <3>2
    <3>4. \/ SnapshotView'[k] \in {SnapshotView[k], None}
          \/ SnapshotView[k] = None /\ SnapshotView'[k] \in WholeSnapshots
      BY <1>8, <3>1
    <3> HIDE DEF v, fs
    <3> QED BY <1>9, <3>3, <3>4, OneNameChanges
  <2>2. CASE \A k \in Snap : SnapDir(k) # d
    <3>1. \A n \in Snap : SnapshotView'[n] = SnapshotView[n]
      BY <1>7, <2>2
    <3> QED BY <1>9, <3>1
  <2> QED BY <2>1, <2>2
<1> QED BY <1>10 DEF SnapshotCatalog!Next, SnapshotCatalog!Publish, SnapshotCatalog!Retire

-----------------------------------------------------------------------------
(* The theorems *)

LEMMA FilesStutter == ASSUME NEW asked, FileInv(asked), UNCHANGED vars PROVE FileInv(asked)'
<1> USE DEF vars, disk, cmd
<1>1. UNCHANGED <<dirs, files, meta, backend, guest, pc, job, todo>>
  OBVIOUS
<1>2. Shape'
  BY <1>1 DEF FileInv, Shape, Alone, StayHome, VMDir, Files
<1>3. ImageFiles'
  BY <1>1 DEF FileInv, ImageFiles, BuildFiles, Built, StagingDir, InstallDir, ImageDir
<1>4. VMFiles'
  BY <1>1 DEF FileInv, VMFiles, VMOK, Opened, VMDir
<1>5. SnapFiles(asked)'
  BY <1>1 DEF FileInv, SnapFiles, TempOK, Pair, SnapOK, TempDir, SnapDir
<1> QED BY <1>2, <1>3, <1>4, <1>5 DEF FileInv

LEMMA AskedStutter == ASSUME UNCHANGED vars PROVE NamesKept
BY DEF vars, disk, NamesKept

\* A guest whose memory has been saved stays as it is until its disk has been
\* copied.
LEMMA RestingKept ==
    ASSUME Control, Resting, Undisturbed, Next PROVE Resting'
<1> USE DEF disk, cmd, imageVars, snapVars, machines
<1>1. Typed /\ guest \in [VM -> Guest]
  BY DEF Control, Typed
<1>2. \A e \in Cli : MidSave(e) => Source(e) \in VM
  BY Kinds DEF Control, Jobs, JobOK, MidSave, Saving, Source
<1>3. CASE Guests
  <2>1. UNCHANGED <<pc, job>>
    BY <1>3, GuestsLeaveCommands
  <2>2. PICK v \in VM : GuestStart(v) \/ GuestStop(v) \/ GuestWrite(v) \/ DeleteVM(v)
    BY <1>3 DEF Guests
  <2>3. \A e \in Cli : MidSave(e) => guest'[Source(e)].run # "on"
    <3> SUFFICES ASSUME NEW e \in Cli, MidSave(e) PROVE guest'[Source(e)].run # "on"
      OBVIOUS
    <3>1. CASE GuestStart(v)
      <4>1. Source(e) # v
        BY <3>1 DEF Undisturbed
      <4> QED BY <1>1, <1>2, <3>1, <4>1 DEF GuestStart, Resting
    <3>2. CASE GuestStop(v) \/ DeleteVM(v)
      BY <1>1, <1>2, <3>2 DEF GuestStop, DeleteVM, NoGuest, Resting
    <3>3. CASE GuestWrite(v)
      BY <3>3 DEF GuestWrite, Resting
    <3> QED BY <2>2, <3>1, <3>2, <3>3
  <2>4. \A e \in Cli : (MidSave(e)' <=> MidSave(e)) /\ Source(e)' = Source(e)
    BY <2>1 DEF MidSave, Source
  <2> QED BY <2>3, <2>4 DEF Resting
<1>4. ASSUME NEW c \in Cli, Command(c) \/ Crash(c) PROVE Resting'
  <2>1. \A e \in Cli \ {c} : (MidSave(e)' <=> MidSave(e)) /\ Source(e)' = Source(e)
    BY <1>1, <1>4, OthersStay DEF Others, MidSave, Source
  <2>2. CASE SnapSave(c)
    <3> DEFINE v == Source(c)
    <3>1. /\ guest[v].run = "on" /\ Source(c)' = v /\ v \in VM
          /\ guest' = [guest EXCEPT ![v].run = IF backend = "ch" THEN "paused" ELSE "off"]
      BY <2>2, Kinds DEF SnapSave, Goto, Source, Control, Jobs, JobOK, Saving
    <3>2. \A e \in Cli : MidSave(e) => Source(e) # v
      BY <3>1 DEF Resting
    <3> HIDE DEF v
    <3>3. guest'[v].run # "on" /\ \A w \in VM \ {v} : guest'[w] = guest[w]
      BY <1>1, <3>1 DEF Guest
    <3> QED BY <1>2, <2>1, <3>1, <3>2, <3>3 DEF Resting
  <2>3. CASE SnapFail(c)
    <3> DEFINE v == Source(c)
    <3>1. PICK run \in LeftBy(c) : guest' = [guest EXCEPT ![v].run = run]
      BY <2>3 DEF SnapFail
    <3>2. ~MidSave(c)'
      BY <1>1, <2>3 DEF SnapFail, Return, Goto, Typed, MidSave
    <3>3. ASSUME NEW e \in Cli \ {c}, MidSave(e) PROVE guest'[Source(e)].run # "on"
      <4>1. Source(e) \in VM /\ guest[Source(e)].run # "on"
        BY <1>2, <3>3 DEF Resting
      <4>2. CASE Source(e) # v
        BY <1>1, <3>1, <4>1, <4>2
      <4>3. CASE Source(e) = v
        <5>1. ~MidSave(c)
          BY <3>3, <4>3 DEF Resting
        <5>2. pc[c] = "snap.save"
          BY <2>3, <5>1 DEF SnapFail, MidSave
        <5>3. run # "on"
          BY <3>1, <4>1, <4>3, <5>2 DEF LeftBy
        <5> QED BY <1>1, <3>1, <4>1, <4>3, <5>3 DEF Guest
      <4> QED BY <4>2, <4>3
    <3> HIDE DEF v
    <3> QED BY <2>1, <3>2, <3>3 DEF Resting
  <2>4. CASE SnapShutdown(c)
    <3>1. ~MidSave(c)' /\ MidSave(c)
      BY <1>1, <2>4 DEF SnapShutdown, Goto, Typed, MidSave
    <3>2. \A e \in Cli \ {c} : MidSave(e) => Source(e) # Source(c)
      BY <3>1 DEF Resting
    <3>3. \A w \in VM \ {Source(c)} : guest'[w] = guest[w]
      BY <1>1, <2>4 DEF SnapShutdown
    <3> QED BY <1>2, <2>1, <3>1, <3>2, <3>3 DEF Resting
  <2>5. CASE CreateState(c)
    <3>1. ~MidSave(c)' /\ guest' = [guest EXCEPT ![job[c].dst[2]].status = "stopped"]
      BY <1>1, <2>5 DEF CreateState, Return, Goto, Typed, MidSave
    <3>2. \A w \in VM : guest'[w].run = guest[w].run
      BY <1>1, <3>1 DEF Guest
    <3> QED BY <1>2, <2>1, <3>1, <3>2 DEF Resting
  <2>6. CASE ~(SnapSave(c) \/ SnapFail(c) \/ SnapShutdown(c) \/ CreateState(c))
    <3>1. guest' = guest
      BY <1>1, <1>4, <2>6, GuestsStay DEF Control
    <3>2. MidSave(c)' => MidSave(c) /\ Source(c)' = Source(c)
      <4> USE <1>1 DEF Typed, Goto, Return, Begin, MidSave, Source
      <4>1. CASE Build(c)
        BY <4>1 DEF Build, BuildBegin, ResolveTemplate, TemplateTmp, TemplateFill, TemplateMove,
           TemplateAside, TemplateSwap, BuildClear, BuildRun, BuildOutput, BuildVerify,
           BuildStage, BuildReplace, BuildInstall, BuildFail
      <4>2. CASE CopyNext(c) \/ SnapMetadata(c)
        BY <4>2 DEF CopyNext, SnapMetadata
      <4>3. CASE \/ \E i \in Image : DeleteImage(c, i) \/ \E v \in VM : CreateFromImage(c, v, i)
                 \/ \E v \in VM, s \in Snap : SnapshotCreate(c, v, s) \/ CreateFromSnapshot(c, v, s)
                 \/ \E ss \in SUBSET Snap : Prune(c, ss)
        BY <4>3 DEF DeleteImage, CreateFromImage, SnapshotCreate, CreateFromSnapshot, Prune
      <4>4. CASE SnapPublish(c) \/ PruneNext(c) \/ PruneRemove(c) \/ CreateMetadata(c)
                 \/ CreateFail(c) \/ RemoveStep(c) \/ Crash(c)
        BY <4>4 DEF SnapPublish, PruneNext, PruneRemove, CreateMetadata, InjectKey, CreateFail,
           RemoveStep, Crash
      <4> HIDE <1>1 DEF Typed, Goto, Return, Begin, MidSave, Source
      <4> QED BY <1>4, <2>6, <4>1, <4>2, <4>3, <4>4 DEF Command, Images, Snapshots, Create
    <3> QED BY <2>1, <3>1, <3>2 DEF Resting
  <2> QED BY <2>2, <2>3, <2>4, <2>5, <2>6
<1> QED BY <1>3, <1>4 DEF Next

LEMMA RestingStutter == ASSUME Resting, UNCHANGED vars PROVE Resting'
BY DEF vars, cmd, Resting, MidSave, Source

LEMMA FileInvKept ==
    ASSUME NEW asked, Control, FileInv(asked), Granted(asked), BuildsApart, [NamesKept]_vars,
           [Next]_vars
    PROVE  Control' /\ FileInv(asked)'
<1>1. Control'
  BY ControlKept, AskedStutter
<1>2. CASE Next
  BY <1>1, <1>2, FilesKept
<1>3. CASE UNCHANGED vars
  BY <1>1, <1>3, FilesStutter
<1> QED BY <1>2, <1>3

\* The inductive invariant: what each command works on, and what that says of
\* the files.
THEOREM FilesInvariant ==
    Spec /\ []BuildsApart /\ [][NamesKept]_vars => [](Control /\ FileInv({}))
<1>1. Init => Control /\ FileInv({})
  BY ControlInit, FilesInit
<1>2. Granted({})
  BY DEF Granted
<1>3. Control /\ FileInv({}) /\ BuildsApart /\ [NamesKept]_vars /\ [Next]_vars
        => (Control /\ FileInv({}))'
  BY <1>2, FileInvKept
<1> QED BY <1>1, <1>3, PTL DEF Spec

\* The state keeps its types (all of Storage).
THEOREM TypesStay == Spec /\ []BuildsApart /\ [][NamesKept]_vars => []TypeOK
<1>1. Control /\ FileInv({}) => TypeOK
  BY DEF Control, Typed, FileInv, Shape, Files, TypeOK
<1> QED BY <1>1, FilesInvariant, PTL

\* What a running guest writes to has no name outside its VM's directory: the
\* hard links of createCloudHypervisorVMFromSnapshot never join the disk of a VM
\* with that of its snapshot, nor of another VM.
THEOREM WritesStay == Spec /\ []BuildsApart /\ [][NamesKept]_vars => []WritesStayHome
<1>1. Control /\ FileInv({}) => WritesStayHome
  <2> SUFFICES ASSUME FileInv({}), NEW v \in VM, NEW n \in files, NEW f \in Writable,
                      <<VMDir(v), f>> \in n.names, NEW b \in n.names
               PROVE  b \in {VMDir(v)} \X Writable
    BY DEF WritesStayHome
  <2>1. Joined(files, <<VMDir(v), f>>, b)
    BY DEF Joined
  <2>2. \E g \in Writable : b = <<VMDir(v), g>>
    BY <2>1 DEF FileInv, Shape, StayHome
  <2> QED BY <2>2
<1> QED BY <1>1, FilesInvariant, PTL

LEMMA MadeInvKept ==
    ASSUME NEW asked, "sources" \in asked => SourcesKept,
           Control, FileInv(asked), Granted(asked), Made(asked), BuildsApart, NamesKept, Next
    PROVE  Made(asked)'
<1>1. Control'
  BY ControlKept
<1> QED BY <1>1, FilesKept, MadeKept

\* A create that succeeds has made every file that a start needs, whatever was
\* deleted, pruned, rebuilt or published again under it meanwhile.
THEOREM CreatesAreComplete ==
    Spec /\ []BuildsApart /\ [][NamesKept]_vars => CreatedIsComplete
<1>1. Init => Made({})
  BY MadeInit
<1>2. Made({}) /\ Control /\ FileInv({}) /\ BuildsApart /\ [NamesKept]_vars /\ [Next]_vars
        => Made({})'
  BY MadeInvKept, MadeStutter, AskedStutter DEF Granted
<1>3. ASSUME Control, FileInv({}), Made({}), [Next]_vars, NEW v \in VM,
             guest[v].status = "none", guest'[v].status # "none"
      PROVE  meta[VMDir(v)] # None /\ Has(VMDir(v), "kernel") /\ Has(VMDir(v), DiskOf(v))
  <2>1. PICK c \in Cli : pc[c] = "vm.state" /\ job[c].dst = VMDir(v)
    BY <1>3, FirstStatus
  <2>2. Files(files) /\ VMDir(v)[2] = v
    BY <1>3, Kinds DEF FileInv, Shape
  <2>3. DiskOf(v) = Opened(files, v)
    BY <2>2, Content_At DEF DiskOf, Restores, Opened
  <2>4. /\ meta[VMDir(v)] # None /\ There(files, <<VMDir(v), "kernel">>)
        /\ There(files, <<VMDir(v), DiskOf(v)>>)
    BY <1>3, <2>1, <2>2, <2>3 DEF Made, MadeOK
  <2> QED BY <2>2, <2>4, Content_At
<1>4. Control /\ FileInv({}) /\ Made({}) /\ [Next]_vars =>
        [\A v \in VM : guest[v].status = "none" /\ guest'[v].status # "none" =>
           meta[VMDir(v)] # None /\ Has(VMDir(v), "kernel") /\ Has(VMDir(v), DiskOf(v))]_vars
  BY <1>3
<1> QED BY <1>1, <1>2, <1>4, FilesInvariant, PTL DEF Spec, CreatedIsComplete

LEMMA ViewsStutter ==
    ASSUME UNCHANGED vars PROVE ImageView' = ImageView /\ SnapshotView' = SnapshotView
<1>1. UNCHANGED <<dirs, files, meta>>
  BY DEF vars, disk
<1>2. /\ \A d, f : Has(d, f)' = Has(d, f)
      /\ \A d, f : Content(d, f)' = Content(d, f)
  BY <1>1 DEF Has, Content, InodeOf
<1> QED BY <1>1, <1>2 DEF ImageView, SnapshotView, Healthy, Complete, ImageDir, SnapDir

\* A build of an image publishes it whole, with the files of one run of the
\* container, and from then on it does not change until it is deleted or
\* replaced: the image store implements the catalog.
THEOREM ImagesStayWhole == Spec /\ []BuildsApart /\ [][NamesKept]_vars => ImagesAreWhole
<1>1. Init => ImageCatalog!Init
  BY DEF Init, ImageCatalog!Init, ImageView, Healthy
<1>2. Granted({})
  BY DEF Granted
<1>3. Control /\ FileInv({}) /\ (Control /\ FileInv({}))' /\ BuildsApart /\ [Next]_vars
        => [ImageCatalog!Next]_ImageView
  BY <1>2, FilesKept, ImageChanges, ViewsStutter
<1> QED BY <1>1, <1>3, FilesInvariant, PTL DEF Spec, ImagesAreWhole, ImageCatalog!Spec

\* The invariant under all that is asked of the users.
THEOREM PairsInvariant ==
    Spec /\ []BuildsApart /\ [][NamesKept]_vars /\ [][Undisturbed]_vars /\ []DisksAreLinked
      => [](Control /\ FileInv({"pairs", "sources"}) /\ Resting)
<1> DEFINE F == FileInv({"pairs", "sources"})
<1>1. Init => Control /\ F /\ Resting
  BY ControlInit, FilesInit DEF Init, Resting, MidSave
<1>2. Resting /\ DisksAreLinked => Granted({"pairs", "sources"})
  BY DEF Granted
<1>3. Control /\ F /\ Resting /\ BuildsApart /\ DisksAreLinked /\ [NamesKept]_vars
        /\ [Undisturbed]_vars /\ [Next]_vars => (Control /\ F /\ Resting)'
  <2> SUFFICES ASSUME Control, F, Resting, BuildsApart, DisksAreLinked, [NamesKept]_vars,
                      [Undisturbed]_vars, [Next]_vars
               PROVE  Control' /\ F' /\ Resting'
    OBVIOUS
  <2>1. Control' /\ F'
    BY <1>2, FileInvKept
  <2>2. Resting'
    BY RestingKept, RestingStutter
  <2> QED BY <2>1, <2>2
<1> QED BY <1>1, <1>3, PTL DEF Spec

\* A snapshot appears with a saved memory and the disk of the same moment, and
\* neither changes while it is there: the snapshot store implements the catalog,
\* as long as nobody starts the VM under the copy of its disk and the disk it
\* opens is the one that is copied.
THEOREM SnapshotsStayPairs ==
    Spec /\ []BuildsApart /\ [][NamesKept]_vars /\ [][Undisturbed]_vars /\ []DisksAreLinked
      => SnapshotsArePairs
<1> DEFINE F == FileInv({"pairs", "sources"})
<1>1. Init => SnapshotCatalog!Init
  BY DEF Init, SnapshotCatalog!Init, SnapshotView
<1>2. Resting /\ DisksAreLinked => Granted({"pairs", "sources"})
  BY DEF Granted
<1>3. Control /\ F /\ Resting /\ (Control /\ F)' /\ BuildsApart /\ DisksAreLinked /\ [Next]_vars
        => [SnapshotCatalog!Next]_SnapshotView
  BY <1>2, FilesKept, SnapshotChanges, ViewsStutter
<1> QED BY <1>1, <1>3, PairsInvariant, PTL DEF Spec, SnapshotsArePairs, SnapshotCatalog!Spec

\* Only a create writes the metadata.json of a VM.
LEMMA FirstMetadata ==
    ASSUME Control, Next, NEW v \in VM, meta[VMDir(v)] = None, meta'[VMDir(v)] # None
    PROVE  \E c \in Cli : CreateMetadata(c) /\ job[c].dst = VMDir(v)
<1> USE DEF disk, imageVars, snapVars, machines, Wipe, MoveDir, RemoveFile, RemoveDir
<1>1. VMDir(v) \in Dir /\ meta \in [Dir -> Image \cup {None}]
  BY InDir DEF Control, Typed
<1>2. \A d \in ImageDirs \cup OutputDirs \cup SnapDirs \cup TempDirs : d # VMDir(v)
  BY DEF VMDir, ImageDirs, OutputDirs, SnapDirs, TempDirs
<1>3. ~Guests
  BY <1>1 DEF Guests, GuestStart, GuestStop, GuestWrite, DeleteVM
<1>4. PICK c \in Cli : Command(c) \/ Crash(c)
  BY <1>3 DEF Next
<1>5. TempDir(c) # VMDir(v) /\ <<"temp", c>> # VMDir(v)
  BY DEF VMDir, TempDir
<1>6. ~Build(c)
  <2>1. /\ \A i : StagingDir(i) # VMDir(v) /\ InstallDir(i) # VMDir(v)
        /\ c \in Building => job[c].name # VMDir(v)
    BY <1>2 DEF Control, Jobs, JobOK, Building, StagingDir, InstallDir, VMDir
  <2> QED BY <1>1, <2>1 DEF Build, BuildBegin, ResolveTemplate, TemplateTmp, TemplateFill,
       TemplateMove, TemplateAside, TemplateSwap, BuildClear, BuildRun, BuildOutput, BuildVerify,
       BuildStage, BuildReplace, BuildInstall, BuildFail, Building, BuildSteps
<1>7. ~(Images(c) /\ ~Build(c))
  BY <1>1 DEF Images, DeleteImage, CreateFromImage
<1>8. ~Snapshots(c)
  <2>1. pc[c] = "snap.publish" => job[c].name # VMDir(v)
    BY <1>2 DEF Control, Jobs, JobOK, Saving
  <2> QED BY <1>1, <1>5, <2>1 DEF Snapshots, SnapshotCreate, CreateFromSnapshot, SnapSave,
       SnapMetadata, SnapShutdown, SnapPublish, SnapFail, Prune, PruneNext, PruneRemove
<1>9. CreateMetadata(c)
  BY <1>1, <1>4, <1>5, <1>6, <1>7, <1>8 DEF Command, Create, InjectKey, CreateState, CreateFail,
     CopyNext, RemoveStep, Crash
<1>10. job[c].dst = VMDir(v)
  BY <1>1, <1>9 DEF CreateMetadata
<1> QED BY <1>9, <1>10

\* What a create has copied belongs together, as long as nobody publishes another
\* image or snapshot under the name it copies from.
THEOREM CreatesAreOfOneMoment ==
    Spec /\ []BuildsApart /\ [][NamesKept]_vars /\ [][Undisturbed]_vars /\ []DisksAreLinked
         /\ [][SourcesKept]_vars
      => CreatedOfOneMoment
<1> DEFINE all == {"pairs", "sources"}
           F == FileInv(all)
           M == Made(all)
           Pairs(v) == IF Restores(v)
                         THEN Content(VMDir(v), "saved") = Content(VMDir(v), DiskOf(v))
                         ELSE Content(VMDir(v), "kernel") = Content(VMDir(v), "disk")
<1>1. Init => M
  BY MadeInit
<1>2. Resting /\ DisksAreLinked => Granted(all)
  BY DEF Granted
<1>3. M /\ Control /\ F /\ Resting /\ BuildsApart /\ DisksAreLinked /\ [NamesKept]_vars
        /\ [SourcesKept]_vars /\ [Next]_vars => M'
  <2> SUFFICES ASSUME M, Control, F, Resting, BuildsApart, DisksAreLinked, [NamesKept]_vars,
                      [SourcesKept]_vars, [Next]_vars
               PROVE  M'
    OBVIOUS
  <2>1. CASE UNCHANGED vars
    BY <2>1, MadeStutter
  <2>2. CASE ~UNCHANGED vars
    <3> HIDE DEF all
    <3> QED BY <1>2, <2>2, MadeInvKept
  <2> QED BY <2>1, <2>2
<1>4. ASSUME Control, F, M, Next, NEW v \in VM, meta[VMDir(v)] = None, meta'[VMDir(v)] # None
      PROVE  Pairs(v)
  <2>1. PICK c \in Cli : CreateMetadata(c) /\ job[c].dst = VMDir(v)
    BY <1>4, FirstMetadata
  <2>2. pc[c] \in {"image.copy", "restore.copy"} /\ todo[c] = <<>>
    BY <2>1 DEF CreateMetadata
  <2>3. Files(files) /\ MadeOK(all, c) /\ OneMoment(c)
    BY <1>4, <2>2 DEF FileInv, Shape, Made, MadeOK
  <2> HIDE DEF all
  <2>4. /\ There(files, <<VMDir(v), "kernel">>)
        /\ pc[c] = "image.copy" => /\ There(files, <<VMDir(v), "disk">>)
                                   /\ ~There(files, <<VMDir(v), "saved">>)
        /\ pc[c] = "restore.copy" => /\ There(files, <<VMDir(v), RestoredDisk>>)
                                     /\ There(files, <<VMDir(v), "saved">>)
    BY <1>4, <2>1, <2>2, <2>3, CopiesDone
  <2>5. ASSUME NEW f, NEW g, Match(files, VMDir(v), f, g),
               There(files, <<VMDir(v), f>>), There(files, <<VMDir(v), g>>)
        PROVE  Content(VMDir(v), f) = Content(VMDir(v), g)
    <3>1. PICK x : At(files, <<VMDir(v), f>>, x)
      BY <2>3, <2>5, Relations
    <3>2. PICK y : At(files, <<VMDir(v), g>>, y)
      BY <2>3, <2>5, Relations
    <3> QED BY <2>3, <2>5, <3>1, <3>2, Content_At DEF Match
  <2>6. CASE pc[c] = "image.copy"
    <3>1. ~Restores(v)
      BY <2>3, <2>4, <2>6, Content_At DEF Restores
    <3>2. Match(files, VMDir(v), "kernel", "disk")
      BY <2>1, <2>3, <2>6 DEF OneMoment, Taken
    <3> QED BY <2>4, <2>5, <2>6, <3>1, <3>2
  <2>7. CASE pc[c] = "restore.copy"
    <3>1. Restores(v) /\ DiskOf(v) = RestoredDisk
      BY <2>3, <2>4, <2>7, Content_At DEF Restores, DiskOf, RestoredDisk
    <3>2. Match(files, VMDir(v), "saved", RestoredDisk)
      BY <2>1, <2>3, <2>7 DEF OneMoment, Taken
    <3> QED BY <2>4, <2>5, <2>7, <3>1, <3>2
  <2> QED BY <2>2, <2>6, <2>7
<1>5. Control /\ F /\ M /\ [Next]_vars =>
        [\A v \in VM : meta[VMDir(v)] = None /\ meta'[VMDir(v)] # None => Pairs(v)]_vars
  BY <1>4
<1> QED BY <1>1, <1>3, <1>5, PairsInvariant, PTL DEF Spec, CreatedOfOneMoment
=============================================================================
