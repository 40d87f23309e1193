--------------------------- MODULE Storage_proofs ---------------------------
(***************************************************************************)
(* Proofs about Storage, for any number of commands, images, VMs and       *)
(* snapshots: what operations do to files as seen through names, what each *)
(* command works on, that the builtin template is whole when one build is  *)
(* in flight at a time, and when builds are apart (README.md).             *)
(***************************************************************************)
EXTENDS Storage, FiniteSetTheorems, TLAPS

-----------------------------------------------------------------------------
(* What the operations on files and directories of Artifacts do, as seen
   through names: which names share an inode, and what they contain.  The
   proofs use these facts and never look at an inode. *)

\* The content of the file with the name a, and two names for one file.
At(F, a, x) == \E n \in F : a \in n.names /\ n.data = x
Joined(F, a, b) == \E n \in F : a \in n.names /\ b \in n.names
There(F, a) == Joined(F, a, a)

\* A name is a name of one inode.
OneInode(F) == \A n, m \in F : \A a \in n.names : a \in m.names => n = m

Files(F) == F \subseteq Inode /\ OneInode(F)

\* What an operation has made of the files F.
Added(F, G, p, x) ==
    /\ \A a, b : Joined(G, a, b) <=> Joined(F, a, b) \/ (a = p /\ b = p)
    /\ \A a, y : At(G, a, y) <=> At(F, a, y) \/ (a = p /\ y = x)

LinkedTo(F, G, q, p) ==
    /\ \A a, b : Joined(G, a, b) <=> \/ Joined(F, a, b)
                                     \/ a = p /\ b = p
                                     \/ a = p /\ Joined(F, q, b)
                                     \/ b = p /\ Joined(F, a, q)
    /\ \A a, y : At(G, a, y) <=> At(F, a, y) \/ (a = p /\ At(F, q, y))

Dropped(F, G, names) ==
    /\ \A a, b : Joined(G, a, b) <=> Joined(F, a, b) /\ a \notin names /\ b \notin names
    /\ \A a, y : At(G, a, y) <=> At(F, a, y) /\ a \notin names

\* The names of the directory e come from d, and those of d are gone.
Shifted(F, G, d, e) ==
    /\ \A a, b : Joined(G, a, b) =>
          LET old(z) == IF z[1] = e THEN <<d, z[2]>> ELSE z
          IN  Joined(F, old(a), old(b)) /\ a[1] # d /\ b[1] # d
    /\ \A a, b : Joined(F, a, b) /\ a[1] \notin {d, e} /\ b[1] \notin {d, e} => Joined(G, a, b)
    /\ \A a, y : a[1] \notin {d, e} => (At(G, a, y) <=> At(F, a, y))
    /\ \A f, y : At(G, <<e, f>>, y) <=> At(F, <<d, f>>, y)

Written(F, G, p, x) ==
    /\ \A a, b : Joined(G, a, b) <=> Joined(F, a, b)
    /\ \A a, y : At(G, a, y) <=> IF Joined(F, a, p) THEN y = x ELSE At(F, a, y)

-----------------------------------------------------------------------------
LEMMA Relations ==
    ASSUME NEW F, Files(F)
    PROVE  /\ \A a, b : Joined(F, a, b) => Joined(F, b, a) /\ There(F, a) /\ There(F, b)
           /\ \A a, b, c : Joined(F, a, b) /\ Joined(F, b, c) => Joined(F, a, c)
           /\ \A a, x : At(F, a, x) => There(F, a) /\ x \in Stamp
           /\ \A a : There(F, a) => \E x \in Stamp : At(F, a, x)
           /\ \A a, b, x, y : At(F, a, x) /\ At(F, b, y) /\ Joined(F, a, b) => x = y
<1>1. \A n \in F : n.names \subseteq Dir \X File /\ n.data \in Stamp
  BY DEF Files, Inode
<1>2. \A a, b, c : Joined(F, a, b) /\ Joined(F, b, c) => Joined(F, a, c)
  BY DEF Files, OneInode, Joined
<1>3. \A a, b, x, y : At(F, a, x) /\ At(F, b, y) /\ Joined(F, a, b) => x = y
  BY DEF Files, OneInode, Joined, At
<1> QED BY <1>1, <1>2, <1>3 DEF There, Joined, At

LEMMA NamesArePairs ==
    ASSUME NEW F, Files(F), NEW a, There(F, a)
    PROVE  \E d \in Dir, f \in File : a = <<d, f>>
BY DEF Files, There, Joined, Inode

LEMMA Content_At ==
    ASSUME NEW d, NEW f, Files(files)
    PROVE  /\ Has(d, f) <=> There(files, <<d, f>>)
           /\ \A x : At(files, <<d, f>>, x) => Content(d, f) = x
<1>1. Has(d, f) <=> There(files, <<d, f>>)
  BY DEF Has, There, Joined
<1>2. ASSUME NEW x, At(files, <<d, f>>, x) PROVE Content(d, f) = x
  <2>1. PICK n \in files : <<d, f>> \in n.names /\ n.data = x
    BY <1>2 DEF At
  <2>2. InodeOf(d, f) \in files /\ <<d, f>> \in InodeOf(d, f).names
    BY <2>1 DEF InodeOf
  <2>3. InodeOf(d, f) = n
    BY <2>1, <2>2 DEF Files, OneInode
  <2> QED BY <2>1, <2>3 DEF Content
<1> QED BY <1>1, <1>2

-----------------------------------------------------------------------------
(* The operations *)

LEMMA NewFileAdds ==
    ASSUME Files(files), NEW d \in Dir, NEW f \in File, NEW x \in Stamp,
           ~There(files, <<d, f>>), NewFile(d, f, x)
    PROVE  Files(files') /\ Added(files, files', <<d, f>>, x)
<1> DEFINE m == [names |-> {<<d, f>>}, data |-> x]
<1>1. files' = files \cup {m} /\ m \in Inode
  BY DEF NewFile, Inode
<1>2. m.names = {<<d, f>>} /\ m.data = x
  OBVIOUS
<1>3. \A n \in files : <<d, f>> \notin n.names
  BY DEF There, Joined
<1> HIDE DEF m
<1>4. Files(files')
  BY <1>1, <1>2, <1>3 DEF Files, OneInode
<1>5. Added(files, files', <<d, f>>, x)
  BY <1>1, <1>2 DEF Added, Joined, At
<1> QED BY <1>4, <1>5

LEMMA CopyFileAdds ==
    ASSUME Files(files), NEW d \in Dir, NEW f \in File, NEW src, NEW from,
           CopyFile(src, from, d, f)
    PROVE  /\ Files(files') /\ ~There(files, <<d, f>>) /\ There(files, <<src, from>>)
           /\ \E x \in Stamp : /\ At(files, <<src, from>>, x)
                               /\ Added(files, files', <<d, f>>, x)
<1>1. There(files, <<src, from>>) /\ ~There(files, <<d, f>>)
  BY Content_At DEF CopyFile
<1>2. PICK x \in Stamp : At(files, <<src, from>>, x)
  BY <1>1, Relations
<1>3. NewFile(d, f, x)
  BY <1>2, Content_At DEF CopyFile
<1> QED BY <1>1, <1>2, <1>3, NewFileAdds

LEMMA LinkFileLinks ==
    ASSUME Files(files), NEW d \in Dir, NEW f \in File, NEW src, NEW from,
           LinkFile(src, from, d, f)
    PROVE  /\ Files(files') /\ ~There(files, <<d, f>>) /\ There(files, <<src, from>>)
           /\ LinkedTo(files, files', <<src, from>>, <<d, f>>)
<1> DEFINE p == <<d, f>>
           q == <<src, from>>
           n == InodeOf(src, from)
           m == [n EXCEPT !.names = @ \cup {p}]
<1>1. n \in files /\ q \in n.names
  BY DEF LinkFile, Has, InodeOf
<1>2. files' = (files \ {n}) \cup {m}
  BY DEF LinkFile
<1>3. n \in Inode
  BY <1>1 DEF Files
<1>4. m \in Inode /\ m.names = n.names \cup {p} /\ m.data = n.data
  BY <1>3 DEF Inode
<1>5. \A k \in files : p \notin k.names
  BY DEF LinkFile, Has
<1>6. \A k \in files : q \in k.names => k = n
  BY <1>1 DEF Files, OneInode
<1> HIDE DEF n, m, p, q
<1>7. Files(files')
  <2>1. \A k \in files \ {n} : \A a \in k.names : a \notin m.names
    BY <1>1, <1>4, <1>5 DEF Files, OneInode
  <2> QED BY <1>2, <1>4, <2>1 DEF Files, OneInode
<1>8. \A a, b : Joined(files', a, b) <=> \/ Joined(files, a, b)
                                         \/ a = p /\ b = p
                                         \/ a = p /\ Joined(files, q, b)
                                         \/ b = p /\ Joined(files, a, q)
  <2>1. \A b : /\ Joined(files, q, b) <=> b \in n.names
               /\ Joined(files, b, q) <=> b \in n.names
    BY <1>1, <1>6 DEF Joined
  <2> SUFFICES ASSUME NEW a, NEW b
               PROVE  Joined(files', a, b) <=> \/ Joined(files, a, b)
                                               \/ a = p /\ b = p
                                               \/ a = p /\ Joined(files, q, b)
                                               \/ b = p /\ Joined(files, a, q)
    OBVIOUS
  <2> DEFINE Other == \E k \in files \ {n} : a \in k.names /\ b \in k.names
  <2>2. Joined(files', a, b) <=> Other \/ (a \in m.names /\ b \in m.names)
    BY <1>2 DEF Joined
  <2>3. Joined(files, a, b) <=> Other \/ (a \in n.names /\ b \in n.names)
    BY <1>1 DEF Joined
  <2>4. /\ a \in m.names <=> a \in n.names \/ a = p
        /\ b \in m.names <=> b \in n.names \/ b = p
    BY <1>4
  <2> HIDE DEF Other
  <2> QED BY <2>1, <2>2, <2>3, <2>4
<1>9. \A a, y : At(files', a, y) <=> At(files, a, y) \/ (a = p /\ At(files, q, y))
  BY <1>1, <1>2, <1>4, <1>6 DEF At
<1>10. There(files, q) /\ ~There(files, p)
  BY <1>1, <1>5 DEF There, Joined
<1> QED BY <1>7, <1>8, <1>9, <1>10 DEF LinkedTo, p, q

LEMMA WithoutDrops ==
    ASSUME Files(files), NEW names, NEW G, G = Without(names)
    PROVE  Files(G) /\ Dropped(files, G, names)
<1> DEFINE less(m) == [m EXCEPT !.names = @ \ names]
<1>1. \A m \in files : less(m) \in Inode /\ less(m).names = m.names \ names
                       /\ less(m).data = m.data
  BY DEF Files, Inode
<1>2. /\ \A n \in G : \E m \in files : n = less(m)
      /\ \A m \in files : m.names \ names # {} => less(m) \in G
  BY <1>1 DEF Without
<1> HIDE DEF less
<1>3. G \subseteq Inode
  BY <1>1, <1>2
<1>4. OneInode(G)
  <2> SUFFICES ASSUME NEW n \in G, NEW m \in G, NEW a \in n.names, a \in m.names
               PROVE  n = m
    BY DEF OneInode
  <2>1. PICK n0 \in files, m0 \in files : n = less(n0) /\ m = less(m0)
    BY <1>2
  <2>2. a \in n0.names /\ a \in m0.names
    BY <1>1, <2>1
  <2> QED BY <2>1, <2>2 DEF Files, OneInode
<1>5. Dropped(files, G, names)
  BY <1>1, <1>2 DEF Dropped, Joined, At
<1> QED BY <1>3, <1>4, <1>5 DEF Files

LEMMA OverwriteWrites ==
    ASSUME Files(files), NEW d, NEW f, NEW x \in Stamp, Overwrite(d, f, x)
    PROVE  Files(files') /\ Written(files, files', <<d, f>>, x)
<1> DEFINE p == <<d, f>>
           new(n) == IF p \in n.names THEN [n EXCEPT !.data = x] ELSE n
<1>1. \A n \in files : /\ new(n) \in Inode /\ new(n).names = n.names
                       /\ new(n).data = IF p \in n.names THEN x ELSE n.data
  BY DEF Files, Inode
<1>2. /\ \A n \in files' : \E m \in files : n = new(m)
      /\ \A m \in files : new(m) \in files'
  BY DEF Overwrite
<1> HIDE DEF new
<1>3. files' \subseteq Inode
  BY <1>1, <1>2
<1>4. OneInode(files')
  BY <1>1, <1>2 DEF Files, OneInode
<1>5. \A a, b : Joined(files', a, b) <=> Joined(files, a, b)
  BY <1>1, <1>2 DEF Joined
<1>6. \A a, y : At(files', a, y) <=> IF Joined(files, a, p) THEN y = x ELSE At(files, a, y)
  <2> SUFFICES ASSUME NEW a, NEW y
               PROVE  At(files', a, y) <=> IF Joined(files, a, p) THEN y = x ELSE At(files, a, y)
    OBVIOUS
  <2>1. ASSUME NEW n \in files, a \in n.names
        PROVE  /\ Joined(files, a, p) <=> p \in n.names
               /\ At(files', a, y) <=> new(n).data = y
               /\ At(files, a, y) <=> n.data = y
    BY <1>1, <1>2, <1>4, <2>1 DEF Joined, At, Files, OneInode
  <2>2. CASE \E n \in files : a \in n.names
    BY <1>1, <2>1, <2>2
  <2>3. CASE ~\E n \in files : a \in n.names
    BY <1>1, <1>2, <2>3 DEF Joined, At
  <2> QED BY <2>2, <2>3
<1> QED BY <1>3, <1>4, <1>5, <1>6 DEF Files, Written, p

\* A directory that is removed, or one file of it.
LEMMA WipeDrops ==
    ASSUME Files(files), NEW d, Wipe(d)
    PROVE  Files(files') /\ Dropped(files, files', {d} \X File)
BY WithoutDrops DEF Wipe

LEMMA RemoveFileDrops ==
    ASSUME Files(files), NEW d, RemoveFile(d)
    PROVE  /\ Files(files')
           /\ \E names \in SUBSET ({d} \X File) : Dropped(files, files', names)
<1>1. CASE UNCHANGED files
  <2>1. Dropped(files, files', {})
    BY <1>1 DEF Dropped
  <2> QED BY <1>1, <2>1
<1>2. CASE \E f \in File : files' = Without({<<d, f>>})
  <2>1. PICK f \in File : files' = Without({<<d, f>>})
    BY <1>2
  <2>2. {<<d, f>>} \in SUBSET ({d} \X File)
    OBVIOUS
  <2> QED BY <2>1, <2>2, WithoutDrops
<1> QED BY <1>1, <1>2 DEF RemoveFile

\* A rename of one directory to another.
LEMMA MoveDirShifts ==
    ASSUME Files(files), NEW d \in Dir, NEW e \in Dir, d # e, MoveDir(d, e)
    PROVE  Files(files') /\ Shifted(files, files', d, e)
<1> DEFINE W == Without({e} \X File)
           new(n) == [n EXCEPT !.names = {Moved(a, d, e) : a \in @}]
           old(z) == IF z[1] = e THEN <<d, z[2]>> ELSE z
<1>1. Files(W) /\ Dropped(files, W, {e} \X File)
  BY WithoutDrops
<1>2. \A n \in W : /\ new(n) \in Inode /\ new(n).data = n.data
                   /\ new(n).names = {Moved(a, d, e) : a \in n.names}
  BY <1>1 DEF Files, Inode, Moved
<1>3. /\ \A n \in files' : \E m \in W : n = new(m)
      /\ \A m \in W : new(m) \in files'
  BY DEF MoveDir
<1>4. ASSUME NEW n \in W, NEW a \in n.names
      PROVE  /\ a[1] # e /\ old(Moved(a, d, e)) = a /\ Moved(a, d, e)[1] # d
             /\ a[1] # d => Moved(a, d, e) = a
             /\ a[1] = d => Moved(a, d, e) = <<e, a[2]>> /\ a = <<d, a[2]>>
  <2>1. PICK dd \in Dir, ff \in File : a = <<dd, ff>>
    BY <1>1, NamesArePairs DEF There, Joined
  <2>2. There(W, a)
    BY DEF There, Joined
  <2>3. dd # e
    BY <1>1, <2>1, <2>2 DEF Dropped, There
  <2> QED BY <2>1, <2>3 DEF Moved
<1> HIDE DEF W, new
<1>5. files' \subseteq Inode
  BY <1>2, <1>3
<1>6. ASSUME NEW n \in W, NEW z
      PROVE  /\ z \in new(n).names => z[1] # d /\ old(z) \in n.names
             /\ z[1] \notin {d, e} /\ z \in n.names => z \in new(n).names
             /\ \A f : z = <<e, f>> /\ <<d, f>> \in n.names => z \in new(n).names
  <2>1. z \in new(n).names <=> \E a \in n.names : z = Moved(a, d, e)
    BY <1>2
  <2>2. ASSUME NEW a \in n.names, z = Moved(a, d, e) PROVE z[1] # d /\ old(z) = a
    BY <1>4, <2>2
  <2>3. z[1] # d => z = Moved(z, d, e)
    BY DEF Moved
  <2>4. ASSUME NEW f, z = <<e, f>> PROVE z = Moved(<<d, f>>, d, e)
    BY <2>4 DEF Moved
  <2> QED BY <2>1, <2>2, <2>3, <2>4
<1>7. OneInode(files')
  <2> SUFFICES ASSUME NEW n \in files', NEW m \in files', NEW z \in n.names, z \in m.names
               PROVE  n = m
    BY DEF OneInode
  <2>1. PICK n0 \in W, m0 \in W : n = new(n0) /\ m = new(m0)
    BY <1>3
  <2>2. old(z) \in n0.names /\ old(z) \in m0.names
    BY <1>6, <2>1
  <2> QED BY <1>1, <2>1, <2>2 DEF Files, OneInode
<1>8. ASSUME NEW n \in W, NEW f
      PROVE  <<e, f>> \in new(n).names <=> <<d, f>> \in n.names
  BY <1>6
<1>9. \A a, b : Joined(files', a, b) => a[1] # d /\ b[1] # d /\ Joined(W, old(a), old(b))
  BY <1>3, <1>6 DEF Joined
<1>10. \A a, b : Joined(W, a, b) /\ a[1] \notin {d, e} /\ b[1] \notin {d, e}
                 => Joined(files', a, b)
  BY <1>3, <1>6 DEF Joined
<1>11. \A a, y : a[1] \notin {d, e} => (At(files', a, y) <=> At(W, a, y))
  BY <1>2, <1>3, <1>6 DEF At
<1>12. \A f, y : At(files', <<e, f>>, y) <=> At(W, <<d, f>>, y)
  BY <1>2, <1>3, <1>8 DEF At
<1>13. /\ \A a, b : Joined(W, a, b) => Joined(files, a, b)
       /\ \A a, b : Joined(files, a, b) /\ a[1] # e /\ b[1] # e => Joined(W, a, b)
       /\ \A a, y : a[1] # e => (At(W, a, y) <=> At(files, a, y))
  BY <1>1 DEF Dropped
<1> QED BY <1>1, <1>5, <1>7, <1>9, <1>10, <1>11, <1>12, <1>13 DEF Files, Shifted

-----------------------------------------------------------------------------
(* What a command works on *)

Creating(c) == pc[c] \in {"image.copy", "restore.copy", "vm.state"}

\* What a command works on, at each of its steps.
JobOK(c) ==
    /\ pc[c] \notin BuildSteps \cup {"remove", "prune.remove"} /\ ~Creating(c) /\ ~Saving(c)
         => job[c].src = None /\ job[c].dst = None
    /\ pc[c] \in BuildSteps =>
         job[c].src = None /\ job[c].dst = None /\ job[c].name \in ImageDirs
    /\ pc[c] = "remove" => job[c].src = None /\ job[c].dst \in ImageDirs
    /\ pc[c] = "prune.remove" => job[c].src = None /\ job[c].dst \in SnapDirs
    /\ Creating(c) => job[c].dst \in VMDirs /\ job[c].name \in ImageDirs
    /\ pc[c] = "image.copy" => job[c].src \in ImageDirs
    /\ pc[c] = "restore.copy" => job[c].src \in SnapDirs
    /\ pc[c] = "vm.state" => job[c].src \in ImageDirs \cup SnapDirs
    /\ Saving(c) => /\ job[c].src \in VMDirs /\ job[c].dst = TempDir(c)
                    /\ job[c].name \in SnapDirs

Jobs == \A c \in Cli : JobOK(c)

OutputDirs == {"staging", "install"} \X Image

\* The types that are not about files.
Typed ==
    /\ dirs \subseteq Dir
    /\ meta \in [Dir -> Image \cup {None}]
    /\ stamp \in Stamp
    /\ template \in [TemplateDirs -> {"none", "part", "stale", "whole"}]
    /\ backend \in {"ch", "vz"}
    /\ guest \in [VM -> Guest]
    /\ pc \in [Cli -> Steps]
    /\ job \in [Cli -> Job]
    /\ todo \in [Cli -> Seq(Copy)]

-----------------------------------------------------------------------------
(* Types and jobs *)

LEMMA Kinds ==
    /\ \A i \in Image : /\ ImageDir(i) \in ImageDirs /\ ImageDir(i)[2] = i
                        /\ StagingDir(i) \in {"staging"} \X Image
                        /\ InstallDir(i) \in {"install"} \X Image
    /\ \A s \in Snap : SnapDir(s) \in SnapDirs /\ SnapDir(s)[2] = s
    /\ \A v \in VM : VMDir(v) \in VMDirs /\ VMDir(v)[2] = v
    /\ \A c \in Cli : TempDir(c) \in TempDirs
    /\ \A d \in ImageDirs : d[2] \in Image /\ d = ImageDir(d[2])
    /\ \A d \in SnapDirs : d[2] \in Snap /\ d = SnapDir(d[2])
    /\ \A d \in VMDirs : d[2] \in VM /\ d = VMDir(d[2])
BY DEF ImageDir, StagingDir, InstallDir, SnapDir, VMDir, TempDir, ImageDirs, SnapDirs,
   VMDirs, TempDirs

LEMMA Directories ==
    /\ ImageDirs \subseteq Dir /\ OutputDirs \subseteq Dir
    /\ SnapDirs \subseteq Dir /\ TempDirs \subseteq Dir /\ VMDirs \subseteq Dir
    /\ \A d \in Dir : d \in ImageDirs => d \notin SnapDirs \cup TempDirs \cup VMDirs
    /\ \A d \in Dir : d \in SnapDirs => d \notin TempDirs \cup VMDirs
    /\ \A d \in Dir : d \in TempDirs => d \notin VMDirs
    /\ \A d \in OutputDirs :
          d \notin ImageDirs \cup SnapDirs \cup TempDirs \cup VMDirs
    /\ None \notin ImageDirs \cup SnapDirs \cup TempDirs \cup VMDirs
<1>1. /\ ImageDirs \subseteq Dir /\ OutputDirs \subseteq Dir
      /\ SnapDirs \subseteq Dir /\ TempDirs \subseteq Dir /\ VMDirs \subseteq Dir
  BY DEF Dir, OutputDirs
<1>2. /\ \A d \in ImageDirs : d[1] = "image"
      /\ \A d \in SnapDirs : d[1] = "snap"
      /\ \A d \in TempDirs : d[1] = "temp"
      /\ \A d \in VMDirs : d[1] = "vm"
      /\ \A d \in OutputDirs : d[1] \in {"staging", "install"}
  BY DEF ImageDirs, SnapDirs, TempDirs, VMDirs, OutputDirs
<1>3. None \notin ImageDirs \cup SnapDirs \cup TempDirs \cup VMDirs
  BY <1>1, NoneIsNoDirectory
<1>4. /\ \A d \in Dir : d \in ImageDirs => d \notin SnapDirs \cup TempDirs \cup VMDirs
      /\ \A d \in Dir : d \in SnapDirs => d \notin TempDirs \cup VMDirs
      /\ \A d \in Dir : d \in TempDirs => d \notin VMDirs
  BY <1>2
<1>5. \A d \in OutputDirs :
         d \notin ImageDirs \cup SnapDirs \cup TempDirs \cup VMDirs
  BY <1>2
<1> QED BY <1>1, <1>3, <1>4, <1>5

LEMMA InDir ==
    /\ \A i \in Image : /\ ImageDir(i) \in Dir /\ StagingDir(i) \in Dir
                        /\ InstallDir(i) \in Dir
    /\ \A s \in Snap : SnapDir(s) \in Dir
    /\ \A v \in VM : VMDir(v) \in Dir
    /\ \A c \in Cli : TempDir(c) \in Dir
BY Kinds, Directories DEF OutputDirs

LEMMA CopiesTyped ==
    /\ ImageCopies \in Seq(Copy) /\ SnapCopies \in Seq(Copy) /\ RestoreCopies \in Seq(Copy)
<1>1. \A own, link \in BOOLEAN : \A from, to \in {"kernel", "disk", "saved", "rdisk"} :
         [own |-> own, from |-> from, to |-> to, link |-> link] \in Copy
  BY DEF Copy, File
<1>2. ASSUME NEW k1 \in Copy, NEW k2 \in Copy, NEW k3 \in Copy, NEW k4 \in Copy
      PROVE  <<k1, k2>> \in Seq(Copy) /\ <<k1, k2, k3>> \in Seq(Copy)
             /\ <<k1, k2, k3, k4>> \in Seq(Copy)
  OBVIOUS
<1>3. ImageCopies \in Seq(Copy)
  BY <1>1, <1>2 DEF ImageCopies
<1>4. SnapCopies \in Seq(Copy)
  BY <1>1, <1>2 DEF SnapCopies
<1>5. RestoreCopies \in Seq(Copy)
  <2>1. \A own \in BOOLEAN : \A from, to \in {"kernel", "disk", "saved", "rdisk"} :
           Linked(own, from, to) \in Copy /\ Copied(from, to) \in Copy
    BY <1>1 DEF Linked, Copied
  <2> QED BY <1>2, <2>1 DEF RestoreCopies
<1> QED BY <1>3, <1>4, <1>5

LEMMA TodoTyped ==
    ASSUME Typed, NEW c \in Cli, NEW q \in Seq(Copy), todo' = [todo EXCEPT ![c] = q]
    PROVE  todo' \in [Cli -> Seq(Copy)]
BY DEF Typed

LEMMA BeginTypes ==
    ASSUME Typed, NEW c \in Cli, NEW s \in Steps, NEW j \in Job, NEW q \in Seq(Copy),
           Begin(c, s, j, q)
    PROVE  /\ pc' \in [Cli -> Steps] /\ job' \in [Cli -> Job] /\ todo' \in [Cli -> Seq(Copy)]
           /\ pc'[c] = s /\ job'[c] = j /\ todo'[c] = q
           /\ \A e \in Cli \ {c} : pc'[e] = pc[e] /\ job'[e] = job[e] /\ todo'[e] = todo[e]
BY DEF Typed, Begin, Goto

LEMMA ReturnTypes ==
    ASSUME Typed, NEW c \in Cli, Return(c)
    PROVE  /\ pc' \in [Cli -> Steps] /\ job' \in [Cli -> Job] /\ todo' \in [Cli -> Seq(Copy)]
           /\ pc'[c] = "idle" /\ job'[c] = NoJob /\ todo'[c] = <<>>
           /\ \A e \in Cli \ {c} : pc'[e] = pc[e] /\ job'[e] = job[e] /\ todo'[e] = todo[e]
<1>1. NoJob \in Job /\ <<>> \in Seq(Copy) /\ "idle" \in Steps
  BY DEF NoJob, Job, Steps
<1> QED BY <1>1 DEF Typed, Return, Goto

LEMMA GotoTypes ==
    ASSUME Typed, NEW c \in Cli, NEW s \in Steps, Goto(c, s)
    PROVE  /\ pc' \in [Cli -> Steps] /\ pc'[c] = s
           /\ \A e \in Cli \ {c} : pc'[e] = pc[e]
BY DEF Typed, Goto

LEMMA OthersKeepJobs ==
    ASSUME Jobs, NEW c \in Cli, JobOK(c)',
           \A e \in Cli \ {c} : pc'[e] = pc[e] /\ job'[e] = job[e]
    PROVE  Jobs'
BY DEF Jobs, JobOK, Creating, Saving

LEMMA BuildTypes ==
    ASSUME Typed, Jobs, NEW c \in Cli, Build(c)
    PROVE  Typed' /\ Jobs'
<1> USE DEF disk, cmd, imageVars, machines
<1>1. ASSUME NEW i \in Image, NEW force \in BOOLEAN, BuildBegin(c, i, force)
      PROVE  Typed' /\ Jobs'
  <2> DEFINE j == [NoJob EXCEPT !.name = ImageDir(i), !.force = force]
  <2>1. j \in Job /\ j.src = None /\ j.dst = None /\ j.name \in ImageDirs
    BY <1>1, Kinds, Directories DEF NoJob, Job
  <2>2. "build.template" \in Steps /\ <<>> \in Seq(Copy)
    BY DEF Steps, BuildSteps
  <2> HIDE DEF j
  <2>3. Begin(c, "build.template", j, <<>>)
    BY <1>1 DEF BuildBegin, j
  <2>4. Typed'
    BY <1>1, <2>1, <2>2, <2>3, BeginTypes DEF BuildBegin, Typed
  <2>5. pc'[c] = "build.template" /\ job'[c] = j
    BY <2>3 DEF Begin, Goto, Typed
  <2>6. JobOK(c)'
    BY <2>1, <2>5 DEF JobOK, Creating, Saving, BuildSteps
  <2> QED BY <2>1, <2>2, <2>3, <2>4, <2>6, BeginTypes, OthersKeepJobs
<1>2. ASSUME UNCHANGED todo, UNCHANGED <<backend, guest>>, UNCHANGED job \/ job' = [job EXCEPT ![c].refresh = TRUE],
             pc[c] \in BuildSteps, NEW s \in BuildSteps, Goto(c, s),
             dirs' \subseteq Dir, meta' \in [Dir -> Image \cup {None}], stamp' \in Stamp,
             template' \in [TemplateDirs -> {"none", "part", "stale", "whole"}]
      PROVE  Typed' /\ Jobs'
  <2>1. s \in Steps
    BY DEF Steps
  <2>2. /\ job' \in [Cli -> Job]
        /\ \A e \in Cli : job'[e].src = job[e].src /\ job'[e].dst = job[e].dst
                          /\ job'[e].name = job[e].name
    <3>1. job[c] \in Job
      BY DEF Typed
    <3>2. [job[c] EXCEPT !.refresh = TRUE] \in Job
      BY <3>1 DEF Job
    <3>3. CASE UNCHANGED job
      BY <3>3 DEF Typed
    <3>4. CASE job' = [job EXCEPT ![c].refresh = TRUE]
      <4>1. /\ job' \in [Cli -> Job] /\ job'[c] = [job[c] EXCEPT !.refresh = TRUE]
            /\ \A e \in Cli \ {c} : job'[e] = job[e]
        BY <3>2, <3>4 DEF Typed
      <4> QED BY <3>1, <4>1 DEF Job
    <3> QED BY <1>2, <3>3, <3>4
  <2>3. Typed'
    BY <1>2, <2>1, <2>2, GotoTypes DEF Typed
  <2>4. ASSUME NEW e \in Cli PROVE JobOK(e)'
    <3>1. CASE e = c
      BY <1>2, <2>1, <2>2, <3>1, GotoTypes DEF Jobs, JobOK, Creating, Saving, BuildSteps
    <3>2. CASE e # c
      BY <1>2, <2>1, <2>2, <3>2, GotoTypes DEF Jobs, JobOK, Creating, Saving
    <3> QED BY <3>1, <3>2
  <2> QED BY <2>3, <2>4 DEF Jobs
<1>3. ASSUME Return(c), UNCHANGED <<backend, guest>>,
             dirs' \subseteq Dir, meta' \in [Dir -> Image \cup {None}], stamp' \in Stamp,
             template' \in [TemplateDirs -> {"none", "part", "stale", "whole"}]
      PROVE  Typed' /\ Jobs'
  <2>1. Typed'
    BY <1>3, ReturnTypes DEF Typed
  <2>2. JobOK(c)'
    BY <1>3, ReturnTypes DEF JobOK, Creating, Saving, BuildSteps, NoJob
  <2> QED BY <1>3, <2>1, <2>2, ReturnTypes, OthersKeepJobs
<1>4. CASE \/ ResolveTemplate(c) \/ TemplateTmp(c) \/ TemplateFill(c) \/ TemplateMove(c)
           \/ TemplateAside(c) \/ TemplateSwap(c) \/ BuildVerify(c) \/ BuildFail(c)
  <2>1. UNCHANGED <<dirs, meta, stamp, backend, guest>> /\ pc[c] \in BuildSteps
    BY <1>4 DEF ResolveTemplate, TemplateTmp, TemplateFill, TemplateMove, TemplateAside,
       TemplateSwap, BuildVerify, BuildFail, BuildSteps
  <2> DEFINE States == {"none", "part", "stale", "whole"}
  <2>3. Target(c) \in TemplateDirs /\ TargetTmp(c) \in TemplateDirs
    BY DEF Target, TargetTmp, TemplateDirs
  <2>4. {"docker", "docker.new", "docker.old"} \subseteq TemplateDirs
    BY DEF TemplateDirs
  <2>5. template \in [TemplateDirs -> States]
    BY DEF Typed
  <2>10. template' \in [TemplateDirs -> States]
    <3>1. CASE ResolveTemplate(c) \/ BuildVerify(c)
      BY <2>4, <2>5, <3>1 DEF ResolveTemplate, BuildVerify
    <3>2. CASE TemplateTmp(c) \/ TemplateFill(c)
      BY <2>3, <2>5, <3>2 DEF TemplateTmp, TemplateFill
    <3>3. CASE TemplateMove(c)
      BY <2>3, <2>5, <3>3 DEF TemplateMove
    <3>4. CASE TemplateAside(c) \/ TemplateSwap(c)
      BY <2>4, <2>5, <3>4 DEF TemplateAside, TemplateSwap
    <3>5. CASE BuildFail(c)
      BY <2>3, <2>4, <2>5, <3>5 DEF BuildFail
    <3> QED BY <1>4, <3>1, <3>2, <3>3, <3>4, <3>5
  <2>2. Return(c) \/ \E s \in BuildSteps :
                         /\ Goto(c, s) /\ UNCHANGED todo
                         /\ UNCHANGED job \/ job' = [job EXCEPT ![c].refresh = TRUE]
    BY <1>4 DEF ResolveTemplate, TemplateTmp, TemplateFill, TemplateMove, TemplateAside,
       TemplateSwap, BuildVerify, BuildFail, BuildSteps
  <2>11. dirs' \subseteq Dir /\ meta' \in [Dir -> Image \cup {None}] /\ stamp' \in Stamp
    BY <2>1 DEF Typed
  <2>12. CASE Return(c)
    BY <1>3, <2>1, <2>10, <2>11, <2>12
  <2>13. CASE ~Return(c)
    <3>1. PICK s \in BuildSteps : /\ Goto(c, s) /\ UNCHANGED todo
                                  /\ UNCHANGED job \/ job' = [job EXCEPT ![c].refresh = TRUE]
      BY <2>2, <2>13
    <3>2. UNCHANGED <<backend, guest>>
      BY <2>1
    <3> QED BY <1>2, <2>1, <2>10, <2>11, <3>1, <3>2
  <2> QED BY <2>12, <2>13
<1>5. CASE BuildClear(c) \/ BuildRun(c) \/ BuildOutput(c) \/ BuildStage(c) \/ BuildReplace(c)
           \/ BuildInstall(c)
  <2>1. pc[c] \in BuildSteps /\ UNCHANGED <<backend, guest, template>>
    BY <1>5 DEF BuildClear, BuildRun, BuildOutput, BuildStage, BuildReplace, BuildInstall,
       BuildSteps
  <2>2. Built(c) \in Image /\ job[c].name \in Dir
    BY <2>1, Kinds, Directories DEF Jobs, JobOK, Built
  <2>3. StagingDir(Built(c)) \in Dir /\ InstallDir(Built(c)) \in Dir
    BY <2>2, Kinds, Directories DEF OutputDirs
  <2>4. /\ dirs' \subseteq Dir
        /\ meta' \in [Dir -> Image \cup {None}]
        /\ stamp' \in Stamp
    <3> USE DEF Wipe, MoveDir, RemoveFile, RemoveDir
    <3>1. CASE BuildClear(c) \/ BuildStage(c)
      BY <2>2, <2>3, <3>1 DEF BuildClear, BuildStage, Typed
    <3>2. CASE BuildRun(c)
      BY <2>2, <2>3, <3>2, ArtifactConstants DEF BuildRun, Typed, Stamp
    <3>4. CASE BuildOutput(c)
      BY <2>2, <2>3, <3>4 DEF BuildOutput, Typed
    <3>3. CASE BuildReplace(c) \/ BuildInstall(c)
      BY <2>2, <2>3, <3>3 DEF BuildReplace, BuildInstall, Typed
    <3> QED BY <1>5, <3>1, <3>2, <3>3, <3>4
  <2>5. Return(c) \/ \E s \in BuildSteps : Goto(c, s) /\ UNCHANGED <<job, todo>>
    <3>1. CASE BuildReplace(c) /\ UNCHANGED pc
      <4>1. Goto(c, pc[c])
        BY <3>1 DEF Goto, Typed
      <4> QED BY <2>1, <3>1, <4>1 DEF BuildReplace
    <3> QED BY <1>5, <3>1 DEF BuildClear, BuildRun, BuildOutput, BuildStage, BuildReplace,
            BuildInstall, BuildSteps
  <2> QED BY <1>2, <1>3, <2>1, <2>4, <2>5 DEF Typed
<1> QED BY <1>1, <1>4, <1>5 DEF Build

\* What a command begins with.
LEMMA JobsBegun ==
    /\ NoJob \in Job
    /\ \A d \in Dir : [NoJob EXCEPT !.dst = d] \in Job
    /\ \A ss \in SUBSET Snap : [NoJob EXCEPT !.left = ss] \in Job
    /\ \A d1, d2, d3 \in Dir : [NoJob EXCEPT !.src = d1, !.dst = d2, !.name = d3] \in Job
BY DEF NoJob, Job

LEMMA BeginJob ==
    ASSUME Typed, Jobs, NEW c \in Cli, NEW s \in Steps, NEW j \in Job, NEW q \in Seq(Copy),
           Begin(c, s, j, q), JobOK(c)',
           dirs' \subseteq Dir, UNCHANGED <<meta, stamp, template, backend, guest>>
    PROVE  Typed' /\ Jobs'
<1>1. Typed'
  BY BeginTypes DEF Typed
<1> QED BY <1>1, BeginTypes, OthersKeepJobs

LEMMA BeginTypesKept ==
    ASSUME Typed, Jobs, NEW c \in Cli,
           \/ \E i \in Image : DeleteImage(c, i) \/ \E v \in VM : CreateFromImage(c, v, i)
           \/ \E v \in VM, s \in Snap : SnapshotCreate(c, v, s) \/ CreateFromSnapshot(c, v, s)
           \/ \E ss \in SUBSET Snap : Prune(c, ss)
    PROVE  Typed' /\ Jobs'
<1> USE DEF disk, cmd, imageVars, snapVars, machines
<1>1. /\ "remove" \in Steps /\ "image.copy" \in Steps /\ "restore.copy" \in Steps
      /\ "snap.save" \in Steps /\ "prune" \in Steps
      /\ <<>> \in Seq(Copy)
  BY DEF Steps, CopySteps
<1>2. ASSUME NEW i \in Image, DeleteImage(c, i) PROVE Typed' /\ Jobs'
  <2> DEFINE j == [NoJob EXCEPT !.dst = ImageDir(i)]
  <2>1. j \in Job /\ j.src = None /\ j.dst \in ImageDirs
    BY Kinds, Directories, JobsBegun DEF NoJob
  <2> HIDE DEF j
  <2>2. Begin(c, "remove", j, <<>>)
    BY <1>2 DEF DeleteImage, j
  <2>3. pc'[c] = "remove" /\ job'[c] = j
    BY <2>2 DEF Begin, Goto, Typed
  <2>4. JobOK(c)'
    BY <2>1, <2>3 DEF JobOK, Creating, Saving, BuildSteps
  <2> QED BY <1>1, <1>2, <2>1, <2>2, <2>4, BeginJob DEF DeleteImage, Typed
<1>3. ASSUME NEW i \in Image, NEW v \in VM, CreateFromImage(c, v, i) PROVE Typed' /\ Jobs'
  <2> DEFINE j == [NoJob EXCEPT !.src = ImageDir(i), !.dst = VMDir(v), !.name = ImageDir(i)]
  <2>1. j \in Job /\ j.src \in ImageDirs /\ j.dst \in VMDirs /\ j.name \in ImageDirs
    BY Kinds, Directories, JobsBegun DEF NoJob
  <2> HIDE DEF j
  <2>2. Begin(c, "image.copy", j, ImageCopies)
    BY <1>3 DEF CreateFromImage, j
  <2>3. pc'[c] = "image.copy" /\ job'[c] = j
    BY <2>2 DEF Begin, Goto, Typed
  <2>4. JobOK(c)'
    BY <2>1, <2>3 DEF JobOK, Creating, Saving, BuildSteps
  <2>5. dirs' \subseteq Dir
    BY <1>3, InDir DEF CreateFromImage, Typed
  <2> QED BY <1>1, <1>3, <2>1, <2>2, <2>4, <2>5, CopiesTyped, BeginJob DEF CreateFromImage
<1>4. ASSUME NEW v \in VM, NEW s \in Snap, SnapshotCreate(c, v, s) PROVE Typed' /\ Jobs'
  <2> DEFINE j == [NoJob EXCEPT !.src = VMDir(v), !.dst = TempDir(c), !.name = SnapDir(s)]
  <2>1. j \in Job /\ j.src \in VMDirs /\ j.dst = TempDir(c) /\ j.name \in SnapDirs
    BY Kinds, Directories, JobsBegun DEF NoJob
  <2> HIDE DEF j
  <2>2. Begin(c, "snap.save", j, SnapCopies)
    BY <1>4 DEF SnapshotCreate, j
  <2>3. pc'[c] = "snap.save" /\ job'[c] = j
    BY <2>2 DEF Begin, Goto, Typed
  <2>4. JobOK(c)'
    BY <2>1, <2>3 DEF JobOK, Creating, Saving, BuildSteps, TempDir
  <2>5. dirs' \subseteq Dir
    BY <1>4, InDir DEF SnapshotCreate, Typed
  <2> QED BY <1>1, <1>4, <2>1, <2>2, <2>4, <2>5, CopiesTyped, BeginJob DEF SnapshotCreate
<1>5. ASSUME NEW v \in VM, NEW s \in Snap, CreateFromSnapshot(c, v, s) PROVE Typed' /\ Jobs'
  <2> DEFINE j == [NoJob EXCEPT !.src = SnapDir(s), !.dst = VMDir(v),
                                !.name = ImageDir(meta[SnapDir(s)])]
  <2>1. meta[SnapDir(s)] \in Image
    BY <1>5, InDir DEF CreateFromSnapshot, Typed
  <2>2. j \in Job /\ j.src \in SnapDirs /\ j.dst \in VMDirs /\ j.name \in ImageDirs
    BY <2>1, Kinds, Directories, JobsBegun DEF NoJob
  <2> HIDE DEF j
  <2>3. Begin(c, "restore.copy", j, RestoreCopies)
    BY <1>5 DEF CreateFromSnapshot, j
  <2>4. pc'[c] = "restore.copy" /\ job'[c] = j
    BY <2>3 DEF Begin, Goto, Typed
  <2>5. JobOK(c)'
    BY <2>2, <2>4 DEF JobOK, Creating, Saving, BuildSteps
  <2>6. dirs' \subseteq Dir
    BY <1>5, InDir DEF CreateFromSnapshot, Typed
  <2> QED BY <1>1, <1>5, <2>2, <2>3, <2>5, <2>6, CopiesTyped, BeginJob DEF CreateFromSnapshot
<1>6. ASSUME NEW ss \in SUBSET Snap, Prune(c, ss) PROVE Typed' /\ Jobs'
  <2> DEFINE j == [NoJob EXCEPT !.left = ss]
  <2>1. j \in Job /\ j.src = None /\ j.dst = None
    BY JobsBegun DEF NoJob
  <2> HIDE DEF j
  <2>2. Begin(c, "prune", j, <<>>)
    BY <1>6 DEF Prune, j
  <2>3. pc'[c] = "prune" /\ job'[c] = j
    BY <2>2 DEF Begin, Goto, Typed
  <2>4. JobOK(c)'
    BY <2>1, <2>3 DEF JobOK, Creating, Saving, BuildSteps
  <2> QED BY <1>1, <1>6, <2>1, <2>2, <2>4, BeginJob DEF Prune, Typed
<1> QED BY <1>2, <1>3, <1>4, <1>5, <1>6

LEMMA ReturnJob ==
    ASSUME Typed, Jobs, NEW c \in Cli, Return(c),
           dirs' \subseteq Dir, meta' \in [Dir -> Image \cup {None}], guest' \in [VM -> Guest],
           UNCHANGED <<stamp, template, backend>>
    PROVE  Typed' /\ Jobs'
<1>1. Typed'
  BY ReturnTypes DEF Typed
<1>2. JobOK(c)'
  BY ReturnTypes DEF JobOK, Creating, Saving, BuildSteps, NoJob
<1> QED BY <1>1, <1>2, ReturnTypes, OthersKeepJobs

LEMMA SameJob ==
    ASSUME Typed, Jobs, UNCHANGED <<pc, job, template, backend>>,
           dirs' \subseteq Dir, meta' \in [Dir -> Image \cup {None}], stamp' \in Stamp,
           guest' \in [VM -> Guest], todo' \in [Cli -> Seq(Copy)]
    PROVE  Typed' /\ Jobs'
BY DEF Typed, Jobs, JobOK, Creating, Saving

LEMMA WipeTypes ==
    ASSUME Typed, NEW d, Wipe(d)
    PROVE  dirs' \subseteq Dir /\ meta' \in [Dir -> Image \cup {None}]
BY DEF Typed, Wipe

LEMMA RemoveTypes ==
    ASSUME Typed, NEW d, RemoveFile(d) \/ RemoveDir(d)
    PROVE  dirs' \subseteq Dir /\ meta' \in [Dir -> Image \cup {None}]
BY DEF Typed, RemoveFile, RemoveDir

LEMMA GuestTypes ==
    ASSUME Typed, NEW v \in VM
    PROVE  /\ NoGuest \in Guest /\ guest[v] \in Guest
           /\ \A run \in {"off", "on", "paused"} : [guest[v] EXCEPT !.run = run] \in Guest
           /\ [guest[v] EXCEPT !.status = "stopped"] \in Guest
           /\ [NoGuest EXCEPT !.status = "stopped"] \in Guest
           /\ [status |-> "running", run |-> "on"] \in Guest
BY DEF Typed, Guest, NoGuest

LEMMA CreateTypes ==
    ASSUME Typed, Jobs, NEW c \in Cli, Create(c) \/ CopyNext(c) \/ RemoveStep(c) \/ Crash(c)
    PROVE  Typed' /\ Jobs'
<1> USE DEF disk, cmd, imageVars, snapVars, machines
<1>1. CASE CreateMetadata(c)
  <2>1. Creating(c) /\ pc[c] \in {"image.copy", "restore.copy"}
    BY <1>1 DEF CreateMetadata, InjectKey, Creating
  <2>2. /\ job[c].dst \in Dir /\ job[c].name[2] \in Image
        /\ job[c].src \in ImageDirs \cup SnapDirs
        /\ job[c].dst \in VMDirs /\ job[c].name \in ImageDirs
    BY <2>1, Kinds, Directories DEF Jobs, JobOK
  <2>3. pc' = [pc EXCEPT ![c] = "vm.state"] /\ UNCHANGED <<dirs, job, todo, template, backend, guest>>
    BY <1>1 DEF CreateMetadata, InjectKey, Goto
  <2>4. meta' \in [Dir -> Image \cup {None}] /\ stamp' \in Stamp
    BY <1>1, <2>2, ArtifactConstants DEF CreateMetadata, InjectKey, Typed, Stamp
  <2>5. "vm.state" \in Steps
    BY DEF Steps
  <2>6. Typed'
    BY <2>3, <2>4, <2>5 DEF Typed
  <2>7. pc'[c] = "vm.state" /\ job'[c] = job[c]
    BY <2>3 DEF Typed
  <2>8. JobOK(c)'
    BY <2>2, <2>7 DEF JobOK, Creating, Saving, BuildSteps
  <2>9. \A e \in Cli \ {c} : pc'[e] = pc[e] /\ job'[e] = job[e]
    BY <2>3 DEF Typed
  <2> QED BY <2>6, <2>8, <2>9, OthersKeepJobs
<1>2. CASE CreateState(c)
  <2>1. job[c].dst \in VMDirs
    BY <1>2 DEF CreateState, Jobs, JobOK, Creating
  <2>2. job[c].dst[2] \in VM
    BY <2>1, Kinds
  <2>3. guest' \in [VM -> Guest]
    BY <1>2, <2>2, GuestTypes DEF CreateState, Typed
  <2> QED BY <1>2, <2>3, ReturnJob DEF CreateState, Typed
<1>3. CASE CreateFail(c)
  BY <1>3, WipeTypes, ReturnJob DEF CreateFail, Typed
<1>4. CASE CopyNext(c)
  <2>1. Tail(todo[c]) \in Seq(Copy)
    BY <1>4 DEF CopyNext, Typed
  <2> QED BY <1>4, <2>1, TodoTyped, SameJob DEF CopyNext, Typed
<1>5. CASE RemoveStep(c)
  BY <1>5, RemoveTypes, ReturnJob, SameJob DEF RemoveStep, Typed
<1>6. CASE Crash(c)
  <2>1. dirs' \subseteq Dir /\ meta' \in [Dir -> Image \cup {None}]
    BY <1>6 DEF Crash, Typed
  <2> QED BY <1>6, <2>1, ReturnJob DEF Crash, Typed
<1> QED BY <1>1, <1>2, <1>3, <1>4, <1>5, <1>6 DEF Create

LEMMA SaveTypes ==
    ASSUME Typed, Jobs, NEW c \in Cli,
           SnapSave(c) \/ SnapMetadata(c) \/ SnapShutdown(c) \/ SnapPublish(c) \/ SnapFail(c)
    PROVE  Typed' /\ Jobs'
<1> USE DEF disk, cmd, imageVars, snapVars, machines
<1>1. Saving(c)
  BY DEF SnapSave, SnapMetadata, SnapShutdown, SnapPublish, SnapFail, Saving
<1>2. /\ job[c].src \in VMDirs /\ job[c].dst = TempDir(c) /\ job[c].name \in SnapDirs
      /\ TempDir(c) \in Dir /\ job[c].name \in Dir
      /\ Source(c) \in VM /\ VMDir(Source(c)) \in Dir
  BY <1>1, Kinds, Directories, InDir DEF Jobs, JobOK, Source
<1>3. ASSUME NEW s \in {"snap.copy", "snap.shutdown", "snap.publish"}, Goto(c, s),
             dirs' \subseteq Dir, meta' \in [Dir -> Image \cup {None}], guest' \in [VM -> Guest],
             UNCHANGED <<stamp, template, backend, job, todo>>
      PROVE  Typed' /\ Jobs'
  <2>1. s \in Steps
    BY <1>3 DEF Steps, CopySteps
  <2>2. Typed'
    BY <1>3, <2>1 DEF Typed, Goto
  <2>3. pc'[c] = s /\ job'[c] = job[c] /\ \A e \in Cli \ {c} : pc'[e] = pc[e] /\ job'[e] = job[e]
    BY <1>3 DEF Typed, Goto
  <2>4. JobOK(c)'
    BY <1>2, <1>3, <2>3 DEF JobOK, Creating, Saving, BuildSteps, TempDir
  <2> QED BY <2>2, <2>3, <2>4, OthersKeepJobs
<1>4. CASE SnapSave(c)
  <2>1. guest' \in [VM -> Guest]
    BY <1>2, <1>4, GuestTypes DEF SnapSave, Typed
  <2> QED BY <1>3, <1>4, <2>1 DEF SnapSave, Typed
<1>5. CASE SnapMetadata(c)
  <2>1. meta' \in [Dir -> Image \cup {None}]
    BY <1>2, <1>5 DEF SnapMetadata, Typed
  <2> QED BY <1>3, <1>5, <2>1 DEF SnapMetadata, Typed
<1>6. CASE SnapShutdown(c)
  <2>1. guest' \in [VM -> Guest]
    <3>1. guest[Source(c)].run \in {"off", "on", "paused"}
      BY <1>2 DEF Typed, Guest
    <3> QED BY <1>2, <1>6, <3>1 DEF SnapShutdown, Typed, Guest
  <2> QED BY <1>3, <1>6, <2>1 DEF SnapShutdown, Typed
<1>7. CASE SnapPublish(c)
  <2>1. dirs' \subseteq Dir /\ meta' \in [Dir -> Image \cup {None}]
    BY <1>2, <1>7, WipeTypes DEF SnapPublish, MoveDir, Typed
  <2> QED BY <1>7, <2>1, ReturnJob DEF SnapPublish, Typed
<1>8. CASE SnapFail(c)
  <2>1. guest' \in [VM -> Guest]
    <3>1. PICK run \in LeftBy(c) : guest' = [guest EXCEPT ![Source(c)].run = run]
      BY <1>8 DEF SnapFail
    <3>2. guest[Source(c)].run \in {"off", "on", "paused"}
      BY <1>2 DEF Typed, Guest
    <3>3. run \in {"off", "on", "paused"}
      BY <3>2 DEF LeftBy
    <3>4. guest' = [guest EXCEPT ![Source(c)] = [guest[Source(c)] EXCEPT !.run = run]]
      BY <1>2, <3>1 DEF Typed
    <3>5. [guest[Source(c)] EXCEPT !.run = run] \in Guest
      BY <1>2, <3>3, GuestTypes
    <3> QED BY <3>4, <3>5 DEF Typed
  <2> QED BY <1>8, <2>1, WipeTypes, ReturnJob DEF SnapFail
<1> QED BY <1>4, <1>5, <1>6, <1>7, <1>8

LEMMA PruneTypes ==
    ASSUME Typed, Jobs, NEW c \in Cli, PruneNext(c) \/ PruneRemove(c)
    PROVE  Typed' /\ Jobs'
<1> USE DEF disk, cmd, imageVars, snapVars, machines
<1>1. CASE PruneNext(c) /\ Return(c)
  BY <1>1, ReturnJob DEF PruneNext, Typed
<1>2. CASE PruneNext(c) /\ ~Return(c)
  <2>1. PICK s \in job[c].left : job' = [job EXCEPT ![c].dst = SnapDir(s)]
    BY <1>2 DEF PruneNext
  <2>2. /\ job[c] \in Job /\ s \in Snap
        /\ pc' = [pc EXCEPT ![c] = "prune.remove"] /\ UNCHANGED <<disk, stamp, snapVars, guest, todo>>
        /\ pc[c] = "prune"
    BY <1>2, <2>1 DEF PruneNext, Goto, Typed, Job
  <2>3. [job[c] EXCEPT !.dst = SnapDir(s)] \in Job
    BY <2>2, InDir DEF Job
  <2>4. /\ pc'[c] = "prune.remove" /\ job'[c] = [job[c] EXCEPT !.dst = SnapDir(s)]
        /\ \A e \in Cli \ {c} : pc'[e] = pc[e] /\ job'[e] = job[e]
    BY <2>1, <2>2 DEF Typed
  <2>5. "prune.remove" \in Steps
    BY DEF Steps
  <2>6. Typed'
    BY <2>1, <2>2, <2>3, <2>5 DEF Typed
  <2>7. job[c].src = None
    BY <2>2 DEF Jobs, JobOK, Creating, Saving, BuildSteps
  <2>8. job'[c].src = None /\ job'[c].dst \in SnapDirs
    BY <2>2, <2>4, <2>7, Kinds DEF Job
  <2>9. JobOK(c)'
    BY <2>4, <2>8 DEF JobOK, Creating, Saving, BuildSteps
  <2> QED BY <2>4, <2>6, <2>9, OthersKeepJobs
<1>3. CASE PruneRemove(c) /\ RemoveFile(job[c].dst) /\ UNCHANGED cmd
  BY <1>3, RemoveTypes, SameJob DEF PruneRemove, Typed
<1>4. CASE PruneRemove(c) /\ ~(RemoveFile(job[c].dst) /\ UNCHANGED cmd)
  <2> DEFINE j == [[job[c] EXCEPT !.left = @ \ {job[c].dst[2]}] EXCEPT !.dst = None]
  <2>1. /\ job[c] \in Job /\ pc' = [pc EXCEPT ![c] = "prune"] /\ job' = [job EXCEPT ![c] = j]
        /\ UNCHANGED <<stamp, snapVars, guest, todo>> /\ pc[c] = "prune.remove"
    BY <1>4 DEF PruneRemove, Goto, Typed
  <2>2. j \in Job /\ j.src = job[c].src /\ j.dst = None
    BY <2>1 DEF Job
  <2> HIDE DEF j
  <2>3. /\ pc'[c] = "prune" /\ job'[c] = j
        /\ \A e \in Cli \ {c} : pc'[e] = pc[e] /\ job'[e] = job[e]
    BY <2>1 DEF Typed
  <2>4. "prune" \in Steps
    BY DEF Steps
  <2>8. RemoveDir(job[c].dst)
    BY <1>4 DEF PruneRemove
  <2>9. dirs' \subseteq Dir /\ meta' \in [Dir -> Image \cup {None}]
    BY <2>8, RemoveTypes
  <2>5. Typed'
    BY <2>1, <2>2, <2>4, <2>9 DEF Typed
  <2>6. j.src = None
    BY <2>1, <2>2 DEF Jobs, JobOK
  <2>7. JobOK(c)'
    BY <2>2, <2>3, <2>6 DEF JobOK, Creating, Saving, BuildSteps
  <2> QED BY <2>3, <2>5, <2>7, OthersKeepJobs
<1> QED BY <1>1, <1>2, <1>3, <1>4 DEF PruneNext, PruneRemove

LEMMA GuestsTypes ==
    ASSUME Typed, Jobs, Guests PROVE Typed' /\ Jobs'
<1> USE DEF disk, cmd, imageVars, snapVars, machines
<1> SUFFICES ASSUME NEW v \in VM,
                    GuestStart(v) \/ GuestStop(v) \/ GuestWrite(v) \/ DeleteVM(v)
             PROVE  Typed' /\ Jobs'
  BY DEF Guests
<1>1. UNCHANGED <<pc, job, todo, template, backend>>
  BY DEF GuestStart, GuestStop, GuestWrite, DeleteVM
<1>2. guest' \in [VM -> Guest]
  BY GuestTypes DEF GuestStart, GuestStop, GuestWrite, DeleteVM, Typed
<1>3. stamp' \in Stamp
  BY ArtifactConstants DEF GuestStart, GuestStop, GuestWrite, DeleteVM, Typed, Stamp
<1>4. dirs' \subseteq Dir /\ meta' \in [Dir -> Image \cup {None}]
  BY WipeTypes DEF GuestStart, GuestStop, GuestWrite, DeleteVM, Typed
<1> QED BY <1>1, <1>2, <1>3, <1>4, SameJob DEF Typed

LEMMA TypesKept == ASSUME Typed, Jobs, [Next]_vars PROVE Typed' /\ Jobs'
<1>1. CASE UNCHANGED vars
  BY <1>1 DEF vars, disk, cmd, Typed, Jobs, JobOK, Creating, Saving
<1>2. ASSUME NEW c \in Cli, Command(c) \/ Crash(c) PROVE Typed' /\ Jobs'
  BY <1>2, BuildTypes, BeginTypesKept, CreateTypes, SaveTypes, PruneTypes
     DEF Command, Images, Snapshots
<1> QED BY <1>1, <1>2, GuestsTypes DEF Next

-----------------------------------------------------------------------------
(* One command steps at a time *)

Others(c) == \A e \in Cli \ {c} : /\ pc'[e] = pc[e] /\ job'[e] = job[e] /\ todo'[e] = todo[e]

LEMMA OthersStay ==
    ASSUME Typed, NEW c \in Cli, Command(c) \/ Crash(c)
    PROVE  Others(c)
<1> USE DEF disk, cmd, imageVars, snapVars, machines, Goto, Typed, Others
<1>1. CASE Build(c)
  BY <1>1 DEF Build, BuildBegin, ResolveTemplate, TemplateTmp, TemplateFill, TemplateMove,
     TemplateAside, TemplateSwap, BuildClear, BuildRun, BuildOutput, BuildVerify, BuildStage,
     BuildReplace, BuildInstall, BuildFail, Begin, Return
<1>2. CASE Images(c) /\ ~Build(c)
  BY <1>2 DEF Images, DeleteImage, CreateFromImage, Begin
<1>3. CASE Snapshots(c)
  BY <1>3 DEF Snapshots, SnapshotCreate, CreateFromSnapshot, SnapSave, SnapMetadata,
     SnapShutdown, SnapPublish, SnapFail, Prune, PruneNext, PruneRemove, Begin, Return
<1>4. CASE Create(c) \/ CopyNext(c) \/ RemoveStep(c) \/ Crash(c)
  BY <1>4 DEF Create, CreateMetadata, InjectKey, CreateState, CreateFail, CopyNext, RemoveStep,
      Crash, Return
<1> QED BY <1>1, <1>2, <1>3, <1>4 DEF Command

LEMMA GuestsLeaveCommands ==
    ASSUME Guests PROVE UNCHANGED <<pc, job, todo, template, backend>>
BY DEF Guests, GuestStart, GuestStop, GuestWrite, DeleteVM, cmd, snapVars

LEMMA TemplatesAreForBuilds ==
    ASSUME NEW c \in Cli, Command(c) \/ Crash(c), ~Build(c)
    PROVE  UNCHANGED template
BY DEF Command, Images, DeleteImage, CreateFromImage, Snapshots, SnapshotCreate,
   CreateFromSnapshot, SnapSave, SnapMetadata, SnapShutdown, SnapPublish, SnapFail, Prune,
   PruneNext, PruneRemove, Create, CreateMetadata, InjectKey, CreateState, CreateFail,
   CopyNext, RemoveStep,
   Crash, snapVars

\* Only a build is at a step of a build.
LEMMA OnlyBuildsBuild ==
    ASSUME Typed, NEW c \in Cli, Command(c) \/ Crash(c), ~Build(c)
    PROVE  pc'[c] \notin BuildSteps \/ (pc'[c] = pc[c] /\ job'[c] = job[c])
<1> USE DEF cmd, Goto, Typed, BuildSteps
<1>1. CASE Images(c)
  BY <1>1 DEF Images, DeleteImage, CreateFromImage, Begin
<1>2. CASE Snapshots(c)
  BY <1>2 DEF Snapshots, SnapshotCreate, CreateFromSnapshot, SnapSave, SnapMetadata,
     SnapShutdown, SnapPublish, SnapFail, Prune, PruneNext, PruneRemove, Begin, Return
<1>3. CASE Create(c) \/ CopyNext(c) \/ RemoveStep(c) \/ Crash(c)
  BY <1>3 DEF Create, CreateMetadata, InjectKey, CreateState, CreateFail, CopyNext, RemoveStep,
      Crash, Return
<1> QED BY <1>1, <1>2, <1>3 DEF Command

-----------------------------------------------------------------------------
(* One build at a time, and the template *)

OneBuild == \A c, e \in Building : c = e

LEMMA OneBuildKept ==
    ASSUME Typed, OneBuild, Builders <= 1, [Next]_vars
    PROVE  OneBuild'
<1>1. ASSUME Building' \subseteq Building PROVE OneBuild'
  BY <1>1 DEF OneBuild
<1>2. CASE UNCHANGED vars \/ Guests
  BY <1>1, <1>2, GuestsLeaveCommands DEF vars, cmd, Building
<1>3. ASSUME NEW c \in Cli, Command(c) \/ Crash(c), ~\E i \in Image, f \in BOOLEAN : BuildBegin(c, i, f)
      PROVE  OneBuild'
  <2>1. Build(c) => c \in Building
    BY <1>3 DEF Build, ResolveTemplate, TemplateTmp, TemplateFill, TemplateMove,
       TemplateAside, TemplateSwap, BuildClear, BuildRun, BuildOutput, BuildVerify, BuildStage,
       BuildReplace, BuildInstall, BuildFail, Building, BuildSteps
  <2>2. \A e \in Building' : e \in Building
    BY <1>3, <2>1, OthersStay, OnlyBuildsBuild DEF Building, Others
  <2> QED BY <1>1, <2>2
<1>4. ASSUME NEW c \in Cli, \E i \in Image, f \in BOOLEAN : BuildBegin(c, i, f)
      PROVE  OneBuild'
  <2>1. Cardinality(Building) < Builders /\ IsFiniteSet(Building)
    BY <1>4, BuildersConstant, FS_Subset DEF BuildBegin, MayBuild, Building
  <2>2. Cardinality(Building) = 0
    BY <2>1, FS_CardinalityType, BuildersConstant
  <2>3. Building = {}
    BY <2>1, <2>2, FS_EmptySet
  <2>4. Building' \subseteq {c}
    BY <1>4, <2>3 DEF BuildBegin, Begin, Goto, Building, Typed
  <2> QED BY <2>4 DEF OneBuild
<1> QED BY <1>2, <1>3, <1>4 DEF Next, Command, Images, Build

Templates ==
    /\ \A t \in {"docker", "docker.new", "docker.old"} : template[t] # "part"
    /\ \A c \in Cli : pc[c] = "build.move" => template[TargetTmp(c)] = "whole"

LEMMA TemplatesKept ==
    ASSUME Typed, OneBuild, Templates, [Next]_vars
    PROVE  Templates'
<1>1. CASE UNCHANGED vars \/ Guests
  BY <1>1, GuestsLeaveCommands DEF vars, cmd, Templates, TargetTmp
<1>2. ASSUME NEW c \in Cli, Command(c) \/ Crash(c), ~Build(c) PROVE Templates'
  <2>1. /\ UNCHANGED template
        /\ \A e \in Cli : pc'[e] = "build.move" => pc[e] = "build.move" /\ job'[e] = job[e]
    BY <1>2, TemplatesAreForBuilds, OthersStay, OnlyBuildsBuild DEF Others, BuildSteps
  <2> QED BY <2>1 DEF Templates, TargetTmp
<1>3. ASSUME NEW c \in Cli, Build(c) PROVE Templates'
  <2>1. \A e \in Cli \ {c} : pc[e] = pc'[e] /\ job'[e] = job[e]
    BY <1>3, OthersStay DEF Command, Images, Others
  <2>2. CASE \E i \in Image, f \in BOOLEAN : BuildBegin(c, i, f)
    <3>1. UNCHANGED template /\ pc'[c] # "build.move"
      BY <2>2 DEF BuildBegin, Begin, Goto, Typed
    <3> QED BY <2>1, <3>1 DEF Templates, TargetTmp
  <2>3. CASE c \in Building
    <3>1. \A e \in Cli \ {c} : pc'[e] # "build.move"
      BY <2>1, <2>3 DEF OneBuild, Building, BuildSteps
    <3>2. /\ \A t \in {"docker", "docker.new", "docker.old"} : template'[t] # "part"
          /\ pc'[c] = "build.move" => template'[TargetTmp(c)] = "whole" /\ job' = job
      <4> USE DEF Goto, Return, Typed, Templates, TemplateDirs, Target, TargetTmp, disk
      <4>1. CASE ResolveTemplate(c)
        BY <4>1 DEF ResolveTemplate
      <4>2. CASE TemplateTmp(c)
        BY <4>2 DEF TemplateTmp
      <4>3. CASE TemplateFill(c)
        BY <4>3 DEF TemplateFill
      <4>4. CASE TemplateMove(c)
        BY <4>4 DEF TemplateMove
      <4>5. CASE TemplateAside(c)
        BY <4>5 DEF TemplateAside
      <4>6. CASE TemplateSwap(c)
        BY <4>6 DEF TemplateSwap
      <4>7. CASE \/ BuildClear(c) \/ BuildRun(c) \/ BuildOutput(c) \/ BuildVerify(c)
                 \/ BuildStage(c) \/ BuildReplace(c) \/ BuildInstall(c)
        BY <4>7 DEF BuildClear, BuildRun, BuildOutput, BuildVerify, BuildStage, BuildReplace,
           BuildInstall
      <4>8. CASE BuildFail(c)
        BY <4>8 DEF BuildFail
      <4>9. ~\E i \in Image, f \in BOOLEAN : BuildBegin(c, i, f)
        BY <2>3 DEF BuildBegin, Begin, Building, BuildSteps
      <4> QED BY <1>3, <4>1, <4>2, <4>3, <4>4, <4>5, <4>6, <4>7, <4>8, <4>9 DEF Build
    <3> QED BY <3>1, <3>2 DEF Templates, TargetTmp
  <2>4. c \in Building \/ \E i \in Image, f \in BOOLEAN : BuildBegin(c, i, f)
    BY <1>3 DEF Build, ResolveTemplate, TemplateTmp, TemplateFill, TemplateMove,
       TemplateAside, TemplateSwap, BuildClear, BuildRun, BuildOutput, BuildVerify, BuildStage,
       BuildReplace, BuildInstall, BuildFail, Building, BuildSteps
  <2> QED BY <2>2, <2>3, <2>4
<1> QED BY <1>1, <1>2, <1>3 DEF Next

-----------------------------------------------------------------------------
(* The copies that a command has still to make *)

Suffix(q, r) == Len(q) <= Len(r) /\ \A i \in 1..Len(q) : q[i] = r[i + Len(r) - Len(q)]

CopiesOK(c) ==
    /\ pc[c] = "image.copy" => Suffix(todo[c], ImageCopies)
    /\ pc[c] = "restore.copy" => Suffix(todo[c], RestoreCopies)
    /\ Saving(c) => Suffix(todo[c], SnapCopies)

CopiesLeft == \A c \in Cli : CopiesOK(c)

LEMMA SuffixTail ==
    ASSUME NEW S, NEW q \in Seq(S), NEW r \in Seq(S), q # <<>>, Suffix(q, r)
    PROVE  Suffix(Tail(q), r)
<1>1. Len(Tail(q)) = Len(q) - 1 /\ Len(q) \in Nat /\ Len(q) > 0 /\ Len(r) \in Nat
  OBVIOUS
<1>2. \A i \in 1..(Len(q) - 1) : Tail(q)[i] = q[i + 1]
  BY <1>1
<1> QED BY <1>1, <1>2 DEF Suffix

LEMMA SuffixHead ==
    ASSUME NEW S, NEW q \in Seq(S), NEW r \in Seq(S), q # <<>>, Suffix(q, r)
    PROVE  /\ \E i \in 1..Len(r) : Head(q) = r[i]
           /\ Len(q) # 1 => \E i \in 1..(Len(r) - 1) : Head(q) = r[i]
           /\ Len(q) = 1 => Head(q) = r[Len(r)]
<1>1. Len(q) \in Nat /\ Len(q) > 0 /\ Len(r) \in Nat /\ Head(q) = q[1]
  OBVIOUS
<1>2. Head(q) = r[1 + Len(r) - Len(q)]
  BY <1>1 DEF Suffix
<1>3. Len(q) <= Len(r)
  BY DEF Suffix
<1> DEFINE i == 1 + Len(r) - Len(q)
<1>4. ASSUME NEW m \in Nat, NEW n \in Nat, m > 0, m <= n
      PROVE  /\ 1 + n - m \in 1..n /\ (m # 1 => 1 + n - m \in 1..(n - 1))
             /\ m = 1 => 1 + n - m = n
  BY <1>4
<1>6. i \in 1..Len(r) /\ (Len(q) # 1 => i \in 1..(Len(r) - 1)) /\ (Len(q) = 1 => i = Len(r))
  BY <1>1, <1>3, <1>4, Zenon
<1>5. Head(q) = r[i]
  BY <1>1, <1>2
<1> HIDE DEF i
<1> QED BY <1>5, <1>6

LEMMA SuffixSelf == ASSUME NEW S, NEW r \in Seq(S) PROVE Suffix(r, r)
BY DEF Suffix

\* What the next copy of a command is.
LEMMA NextCopy ==
    ASSUME Typed, CopiesLeft, NEW c \in Cli, pc[c] \in CopySteps, todo[c] # <<>>,
           NEW k, k = Head(todo[c])
    PROVE  /\ pc[c] \in {"image.copy", "snap.copy"} =>
                ~k.own /\ ~k.link /\ k.from = k.to /\ k.to \in {"kernel", "disk"}
           /\ pc[c] = "restore.copy" /\ backend = "vz" =>
                ~k.own /\ ~k.link /\ k.from = k.to /\ k.to \in {"saved", "kernel", "disk"}
           /\ pc[c] = "restore.copy" /\ backend = "ch" /\ Len(todo[c]) # 1 =>
                /\ ~k.own
                /\ \/ k.link /\ k.from = k.to /\ k.to \in {"saved", "kernel"}
                   \/ ~k.link /\ k.from = "disk" /\ k.to = "rdisk"
           /\ pc[c] = "restore.copy" /\ backend = "ch" /\ Len(todo[c]) = 1 =>
                k.own /\ k.link /\ k.from = "rdisk" /\ k.to = "disk"
           /\ k.to \in File /\ k.from \in File /\ k.own \in BOOLEAN /\ k.link \in BOOLEAN
<1>1. todo[c] \in Seq(Copy)
  BY DEF Typed
<1>2. k \in Copy
  BY <1>1
<1>3. CASE pc[c] = "image.copy"
  <2>1. \E i \in 1..2 : k = ImageCopies[i]
    <3>1. Len(ImageCopies) = 2
      BY DEF ImageCopies
    <3> QED BY <1>1, <1>3, <3>1, CopiesTyped, SuffixHead DEF CopiesLeft, CopiesOK
  <2> QED BY <1>2, <1>3, <2>1 DEF ImageCopies, Copy
<1>4. CASE pc[c] = "snap.copy"
  <2>1. \E i \in 1..2 : k = SnapCopies[i]
    <3>1. Len(SnapCopies) = 2
      BY DEF SnapCopies
    <3> QED BY <1>1, <1>4, <3>1, CopiesTyped, SuffixHead DEF CopiesLeft, CopiesOK, Saving
  <2> QED BY <1>2, <1>4, <2>1 DEF SnapCopies, Copy
<1>5. CASE pc[c] = "restore.copy" /\ backend = "vz"
  <2>1. \E i \in 1..3 : k = RestoreCopies[i]
    <3>1. Len(RestoreCopies) = 3
      BY <1>5 DEF RestoreCopies
    <3> QED BY <1>1, <1>5, <3>1, CopiesTyped, SuffixHead DEF CopiesLeft, CopiesOK
  <2> QED BY <1>2, <1>5, <2>1 DEF RestoreCopies, Copied, Copy
<1>6. CASE pc[c] = "restore.copy" /\ backend = "ch"
  <2>1. /\ Len(todo[c]) # 1 => \E i \in 1..3 : k = RestoreCopies[i]
        /\ Len(todo[c]) = 1 => k = RestoreCopies[4]
    <3>1. Len(RestoreCopies) = 4
      BY <1>6 DEF RestoreCopies
    <3>2. Suffix(todo[c], RestoreCopies)
      BY <1>6 DEF CopiesLeft, CopiesOK
    <3>3. /\ Len(todo[c]) # 1 => \E i \in 1..(Len(RestoreCopies) - 1) : k = RestoreCopies[i]
          /\ Len(todo[c]) = 1 => k = RestoreCopies[Len(RestoreCopies)]
      BY <1>1, <3>2, CopiesTyped, SuffixHead
    <3> QED BY <3>1, <3>3
  <2>2. CASE Len(todo[c]) # 1
    BY <1>2, <1>6, <2>1, <2>2 DEF RestoreCopies, Copied, Linked, Copy
  <2>3. CASE Len(todo[c]) = 1
    BY <1>2, <1>6, <2>1, <2>3 DEF RestoreCopies, Copied, Linked, Copy
  <2> QED BY <2>2, <2>3
<1> QED BY <1>3, <1>4, <1>5, <1>6 DEF CopySteps, Typed

LEMMA BackendStays == ASSUME [Next]_vars PROVE backend' = backend
<1>1. CASE UNCHANGED vars \/ Guests
  BY <1>1, GuestsLeaveCommands DEF vars
<1>2. ASSUME NEW c \in Cli, Command(c) \/ Crash(c) PROVE backend' = backend
  <2> USE DEF imageVars, snapVars, machines
  <2>1. CASE Build(c)
    BY <2>1 DEF Build, BuildBegin, ResolveTemplate, TemplateTmp, TemplateFill, TemplateMove,
       TemplateAside, TemplateSwap, BuildClear, BuildRun, BuildOutput, BuildVerify, BuildStage,
       BuildReplace, BuildInstall, BuildFail
  <2> QED BY <1>2, <2>1 DEF Command, Images, DeleteImage, CreateFromImage, Snapshots,
          SnapshotCreate, CreateFromSnapshot, SnapSave, SnapMetadata, SnapShutdown, SnapPublish,
          SnapFail, Prune, PruneNext, PruneRemove, Create, CreateMetadata, InjectKey, CreateState,
          CreateFail, CopyNext, RemoveStep, Crash
<1> QED BY <1>1, <1>2 DEF Next

LEMMA CopiesKept ==
    ASSUME Typed, Jobs, CopiesLeft, [Next]_vars
    PROVE  CopiesLeft'
<1>2. RestoreCopies' = RestoreCopies
  BY BackendStays DEF RestoreCopies
<1>3. ASSUME NEW e \in Cli, pc'[e] = pc[e], todo'[e] = todo[e] PROVE CopiesOK(e)'
  BY <1>2, <1>3 DEF CopiesLeft, CopiesOK, Saving
<1>4. CASE UNCHANGED vars \/ Guests
  BY <1>3, <1>4, GuestsLeaveCommands DEF vars, cmd, CopiesLeft
<1>5. ASSUME NEW c \in Cli, Command(c) \/ Crash(c) PROVE CopiesOK(c)'
  <2> USE DEF disk, cmd, imageVars, snapVars, machines, Goto, Typed
  <2>1. ASSUME pc'[c] \notin CopySteps, ~Saving(c)' PROVE CopiesOK(c)'
    BY <2>1 DEF CopiesOK, CopySteps
  <2>2. CASE Build(c)
    BY <2>1, <2>2 DEF Build, BuildBegin, ResolveTemplate, TemplateTmp, TemplateFill,
       TemplateMove, TemplateAside, TemplateSwap, BuildClear, BuildRun, BuildOutput, BuildVerify,
       BuildStage, BuildReplace, BuildInstall, BuildFail, Begin, Return, CopySteps, Saving
  <2>3. CASE \/ (\E i \in Image : DeleteImage(c, i)) \/ \E ss \in SUBSET Snap : Prune(c, ss)
    BY <2>1, <2>3 DEF DeleteImage, Prune, Begin, CopySteps, Saving
  <2>4. CASE \E i \in Image, v \in VM : CreateFromImage(c, v, i)
    <3>1. pc'[c] = "image.copy" /\ todo'[c] = ImageCopies
      BY <2>4 DEF CreateFromImage, Begin
    <3> QED BY <3>1, CopiesTyped, SuffixSelf DEF CopiesOK, Saving
  <2>5. CASE \E v \in VM, s \in Snap : SnapshotCreate(c, v, s)
    <3>1. pc'[c] = "snap.save" /\ todo'[c] = SnapCopies
      BY <2>5 DEF SnapshotCreate, Begin
    <3> QED BY <3>1, CopiesTyped, SuffixSelf DEF CopiesOK, Saving
  <2>6. CASE \E v \in VM, s \in Snap : CreateFromSnapshot(c, v, s)
    <3>1. pc'[c] = "restore.copy" /\ todo'[c] = RestoreCopies
      BY <2>6 DEF CreateFromSnapshot, Begin
    <3> QED BY <1>2, <3>1, CopiesTyped, SuffixSelf DEF CopiesOK, Saving
  <2>7. CASE SnapSave(c) \/ SnapMetadata(c) \/ SnapShutdown(c)
    <3>1. Saving(c) /\ todo'[c] = todo[c] /\ pc'[c] \in {"snap.copy", "snap.shutdown", "snap.publish"}
      BY <2>7 DEF SnapSave, SnapMetadata, SnapShutdown, Saving
    <3> QED BY <3>1 DEF CopiesLeft, CopiesOK, Saving
  <2>8. CASE \/ SnapPublish(c) \/ SnapFail(c) \/ PruneNext(c) \/ PruneRemove(c)
             \/ Create(c) \/ RemoveStep(c) \/ Crash(c)
    BY <2>1, <2>8 DEF SnapPublish, SnapFail, PruneNext, PruneRemove, Create, CreateMetadata,
        InjectKey,
       CreateState, CreateFail, RemoveStep, Crash, Return, CopySteps, Saving
  <2>9. CASE CopyNext(c)
    <3>1. /\ pc'[c] = pc[c] /\ todo'[c] = Tail(todo[c]) /\ pc[c] \in CopySteps
          /\ todo[c] # <<>> /\ todo[c] \in Seq(Copy)
      BY <2>9 DEF CopyNext
    <3>2. CASE pc[c] = "image.copy"
      BY <3>1, <3>2, CopiesTyped, SuffixTail DEF CopiesLeft, CopiesOK, Saving
    <3>3. CASE pc[c] = "snap.copy"
      BY <3>1, <3>3, CopiesTyped, SuffixTail DEF CopiesLeft, CopiesOK, Saving
    <3>4. CASE pc[c] = "restore.copy"
      BY <1>2, <3>1, <3>4, CopiesTyped, SuffixTail DEF CopiesLeft, CopiesOK, Saving
    <3> QED BY <3>1, <3>2, <3>3, <3>4 DEF CopySteps
  <2> QED BY <1>5, <2>2, <2>3, <2>4, <2>5, <2>6, <2>7, <2>8, <2>9 DEF Command, Images, Snapshots
<1>6. ASSUME NEW c \in Cli, Command(c) \/ Crash(c) PROVE CopiesLeft'
  BY <1>3, <1>5, <1>6, OthersStay DEF Others, CopiesLeft
<1> QED BY <1>4, <1>6 DEF Next

-----------------------------------------------------------------------------
(* Who works on which VM *)

Owners ==
    /\ \A v \in VM : guest[v] = NoGuest \/ (VMDir(v) \in dirs /\ guest[v].status # "none")
    /\ \A c \in Cli : Creating(c) => job[c].dst \in dirs /\ guest[job[c].dst[2]] = NoGuest
    /\ \A c, e \in Cli : Creating(c) /\ Creating(e) /\ job[c].dst = job[e].dst => c = e
    /\ \A c \in Cli : Saving(c) =>
          VMDir(Source(c)) \notin dirs \/ guest[Source(c)].status # "none"

LEMMA VMDirsStay ==
    ASSUME Typed, Jobs, NEW c \in Cli, Command(c) \/ Crash(c), NEW v \in VM, VMDir(v) \in dirs,
           ~(CreateFail(c) /\ job[c].dst = VMDir(v))
    PROVE  VMDir(v) \in dirs'
<1> USE DEF disk, imageVars, snapVars, Wipe, MoveDir, RemoveFile, RemoveDir
<1>1. \A d \in ImageDirs \cup OutputDirs \cup SnapDirs \cup TempDirs : d # VMDir(v)
  BY DEF VMDir, ImageDirs, OutputDirs, SnapDirs, TempDirs
<1>2. TempDir(c) # VMDir(v) /\ <<"temp", c>> # VMDir(v)
  BY DEF VMDir, TempDir
<1>3. CASE Build(c)
  <2>1. /\ \A i : StagingDir(i) # VMDir(v) /\ InstallDir(i) # VMDir(v)
        /\ c \in Building => job[c].name # VMDir(v)
    BY <1>1 DEF Jobs, JobOK, Building, StagingDir, InstallDir, VMDir
  <2> QED BY <1>3, <2>1 DEF Build, BuildBegin, ResolveTemplate, TemplateTmp, TemplateFill,
       TemplateMove, TemplateAside, TemplateSwap, BuildClear, BuildRun, BuildOutput, BuildVerify,
       BuildStage, BuildReplace, BuildInstall, BuildFail, Building, BuildSteps
<1>4. CASE Images(c) /\ ~Build(c)
  BY <1>4 DEF Images, DeleteImage, CreateFromImage
<1>5. CASE Snapshots(c)
  <2>1. pc[c] = "prune.remove" => job[c].dst # VMDir(v)
    BY <1>1 DEF Jobs, JobOK
  <2> QED BY <1>2, <1>5, <2>1 DEF Snapshots, SnapshotCreate, CreateFromSnapshot, SnapSave,
       SnapMetadata, SnapShutdown, SnapPublish, SnapFail, Prune, PruneNext, PruneRemove
<1>6. CASE Create(c) \/ CopyNext(c) \/ RemoveStep(c) \/ Crash(c)
  <2>1. pc[c] = "remove" => job[c].dst # VMDir(v)
    BY <1>1 DEF Jobs, JobOK
  <2> QED BY <1>2, <1>6, <2>1 DEF Create, CreateMetadata, InjectKey, CreateState, CreateFail,
      CopyNext,
       RemoveStep, Crash
<1> QED BY <1>3, <1>4, <1>5, <1>6 DEF Command

LEMMA GuestsStay ==
    ASSUME Typed, Jobs, NEW c \in Cli, Command(c) \/ Crash(c),
           ~(CreateState(c) \/ SnapSave(c) \/ SnapShutdown(c) \/ SnapFail(c))
    PROVE  guest' = guest
<1> USE DEF imageVars, snapVars, machines
<1>1. CASE Build(c)
  BY <1>1 DEF Build, BuildBegin, ResolveTemplate, TemplateTmp, TemplateFill, TemplateMove,
     TemplateAside, TemplateSwap, BuildClear, BuildRun, BuildOutput, BuildVerify, BuildStage,
     BuildReplace, BuildInstall, BuildFail
<1> QED BY <1>1 DEF Command, Images, DeleteImage, CreateFromImage, Snapshots, SnapshotCreate,
        CreateFromSnapshot, SnapMetadata, SnapPublish, Prune, PruneNext, PruneRemove, Create,
        CreateMetadata, InjectKey, CreateFail, CopyNext, RemoveStep, Crash

\* A command that changes no machine, and goes on with what it has or ends.
LEMMA OwnersStay ==
    ASSUME Typed, Jobs, Owners, NamesKept, NEW c \in Cli, Command(c) \/ Crash(c), guest' = guest,
           \/ ~Creating(c)' /\ ~Saving(c)'
           \/ Creating(c) /\ Creating(c)' /\ job'[c] = job[c] /\ ~CreateFail(c)
           \/ Saving(c) /\ Saving(c)' /\ job'[c] = job[c]
    PROVE  Owners'
<1>1. Others(c)
  BY OthersStay
<1>2. \A e \in Cli : Creating(e)' => Creating(e) /\ job'[e] = job[e] /\ (e = c => ~CreateFail(c))
  BY <1>1 DEF Others, Creating, Saving
<1>3. \A e \in Cli : Saving(e)' => Saving(e) /\ job'[e] = job[e]
  BY <1>1 DEF Others, Creating, Saving
<1>4. ASSUME NEW v \in VM, guest[v] # NoGuest PROVE VMDir(v) \in dirs'
  <2>1. VMDir(v) \in dirs
    BY <1>4 DEF Owners
  <2>2. ~(CreateFail(c) /\ job[c].dst = VMDir(v))
    BY <1>4, Kinds DEF CreateFail, Creating, Owners
  <2> QED BY <2>1, <2>2, VMDirsStay
<1>5. ASSUME NEW e \in Cli, Creating(e)' PROVE job[e].dst \in dirs'
  <2>1. job[e].dst \in dirs /\ job[e].dst \in VMDirs /\ Creating(e)
    BY <1>2, <1>5 DEF Owners, Jobs, JobOK
  <2>2. job[e].dst = VMDir(job[e].dst[2]) /\ job[e].dst[2] \in VM
    BY <2>1, Kinds
  <2>3. ~(CreateFail(c) /\ job[c].dst = job[e].dst)
    BY <1>2, <1>5, <2>1 DEF CreateFail, Creating, Owners
  <2> QED BY <2>1, <2>2, <2>3, VMDirsStay
<1>6. ASSUME NEW e \in Cli, Saving(e)'
      PROVE  VMDir(Source(e))' \notin dirs' \/ guest'[Source(e)'].status # "none"
  <2>1. VMDir(Source(e))' = VMDir(Source(e)) /\ Source(e)' = Source(e) /\ Saving(e)
    BY <1>3, <1>6 DEF Source, VMDir
  <2> QED BY <2>1 DEF Owners, NamesKept
<1>7. \A a, e \in Cli : Creating(a)' /\ Creating(e)' /\ job'[a].dst = job'[e].dst => a = e
  BY <1>2 DEF Owners
<1>8. \A e \in Cli : Creating(e)' => job'[e].dst \in dirs' /\ guest'[job'[e].dst[2]] = NoGuest
  BY <1>2, <1>5 DEF Owners
<1>9. \A v \in VM : VMDir(v)' = VMDir(v)
  BY DEF VMDir
<1> QED BY <1>4, <1>6, <1>7, <1>8, <1>9 DEF Owners

LEMMA OwnersBegin ==
    ASSUME Typed, Jobs, Owners, NamesKept, NEW c \in Cli,
           \/ \E v \in VM, i \in Image : CreateFromImage(c, v, i)
           \/ \E v \in VM, s \in Snap : CreateFromSnapshot(c, v, s) \/ SnapshotCreate(c, v, s)
    PROVE  Owners'
<1> USE DEF disk, cmd, imageVars, snapVars, machines
<1>1. /\ Others(c) /\ UNCHANGED guest /\ dirs \subseteq dirs' /\ pc[c] = "idle"
      /\ ~Creating(c) /\ ~Saving(c)
  BY OthersStay DEF Command, Images, Snapshots, CreateFromImage, CreateFromSnapshot, SnapshotCreate,
     Begin, Creating, Saving
<1>2. ASSUME NEW e \in Cli \ {c}
      PROVE  /\ Creating(e)' <=> Creating(e)
             /\ Saving(e)' <=> Saving(e)
             /\ pc'[e] = pc[e] /\ job'[e] = job[e]
  BY <1>1 DEF Others, Creating, Saving
<1>3. CASE \/ \E v \in VM, i \in Image : CreateFromImage(c, v, i)
           \/ \E v \in VM, s \in Snap : CreateFromSnapshot(c, v, s)
  <2>1. PICK v \in VM : /\ VMDir(v) \notin dirs /\ VMDir(v) \in dirs' /\ job'[c].dst = VMDir(v)
                        /\ Creating(c)' /\ ~Saving(c)'
    <3>1. CASE \E v \in VM, i \in Image : CreateFromImage(c, v, i)
      <4>1. PICK v \in VM, i \in Image : CreateFromImage(c, v, i)
        BY <3>1
      <4> QED BY <4>1 DEF CreateFromImage, Begin, Goto, Typed, NoJob, Creating, Saving
    <3>2. CASE \E v \in VM, s \in Snap : CreateFromSnapshot(c, v, s)
      <4>1. PICK v \in VM, s \in Snap : CreateFromSnapshot(c, v, s)
        BY <3>2
      <4> QED BY <4>1 DEF CreateFromSnapshot, Begin, Goto, Typed, NoJob, Creating, Saving
    <3> QED BY <1>3, <3>1, <3>2
  <2>2. guest[v] = NoGuest /\ VMDir(v)[2] = v
    BY <2>1, Kinds DEF Owners
  <2>3. \A e \in Cli \ {c} : Creating(e) => job[e].dst # VMDir(v)
    BY <2>1 DEF Owners
  <2>4. \A e \in Cli : Saving(e)' => VMDir(Source(e)) \notin dirs' \/ guest'[Source(e)].status # "none"
    BY <1>1, <1>2, <2>1 DEF Owners, NamesKept
  <2>5. \A e \in Cli : Saving(e)' => VMDir(Source(e))' = VMDir(Source(e)) /\ Source(e)' = Source(e)
    BY <1>2, <2>1 DEF VMDir, Source
  <2>6. \A w \in VM : guest'[w] = NoGuest \/ (VMDir(w)' \in dirs' /\ guest'[w].status # "none")
    BY <1>1 DEF Owners, VMDir
  <2>7. \A e \in Cli : Creating(e)' => job'[e].dst \in dirs' /\ guest'[job'[e].dst[2]] = NoGuest
    BY <1>1, <1>2, <2>1, <2>2 DEF Owners
  <2>8. \A a, e \in Cli : Creating(a)' /\ Creating(e)' /\ job'[a].dst = job'[e].dst => a = e
    BY <1>2, <2>1, <2>3 DEF Owners
  <2> QED BY <2>4, <2>5, <2>6, <2>7, <2>8 DEF Owners
<1>4. CASE \E v \in VM, s \in Snap : SnapshotCreate(c, v, s)
  <2>0. PICK v \in VM, s \in Snap : SnapshotCreate(c, v, s)
    BY <1>4
  <2>1. guest[v].status = "running" /\ pc'[c] = "snap.save" /\ job'[c].src = VMDir(v)
    BY <2>0 DEF SnapshotCreate, Begin, Goto, Typed, NoJob
  <2>2. ~Creating(c)' /\ Saving(c)' /\ Source(c)' = v
    BY <2>1, Kinds DEF Creating, Saving, Source
  <2>3. \A e \in Cli \ {c} : Saving(e) => VMDir(Source(e)) \notin dirs' \/ guest'[Source(e)].status # "none"
    BY <1>1 DEF Owners, NamesKept
  <2>4. \A e \in Cli \ {c} : VMDir(Source(e))' = VMDir(Source(e)) /\ Source(e)' = Source(e)
    BY <1>2 DEF VMDir, Source
  <2>5. \A e \in Cli : Saving(e)' => VMDir(Source(e))' \notin dirs' \/ guest'[Source(e)'].status # "none"
    BY <1>1, <1>2, <2>1, <2>2, <2>3, <2>4
  <2>6. \A w \in VM : guest'[w] = NoGuest \/ (VMDir(w)' \in dirs' /\ guest'[w].status # "none")
    BY <1>1 DEF Owners, VMDir
  <2>7. \A e \in Cli : Creating(e)' => e # c
    BY <2>2
  <2> QED BY <1>1, <1>2, <2>5, <2>6, <2>7 DEF Owners
<1> QED BY <1>3, <1>4

LEMMA OwnersGuest ==
    ASSUME Typed, Jobs, Owners, NamesKept, NEW c \in Cli,
           CreateState(c) \/ SnapSave(c) \/ SnapShutdown(c) \/ SnapFail(c)
    PROVE  Owners'
<1> USE DEF disk, cmd, imageVars, snapVars, machines
<1>1. Others(c) /\ Command(c)
  BY OthersStay DEF Command, Create, Snapshots
<1>2. ASSUME NEW e \in Cli \ {c}
      PROVE  /\ Creating(e)' <=> Creating(e)
             /\ Saving(e)' <=> Saving(e)
             /\ pc'[e] = pc[e] /\ job'[e] = job[e]
  BY <1>1 DEF Others, Creating, Saving
<1>3. \A v \in VM : VMDir(v) \in dirs => VMDir(v) \in dirs'
  BY <1>1, VMDirsStay DEF CreateState, SnapSave, SnapShutdown, SnapFail, CreateFail
<1>4. \A e \in Cli : Creating(e) => job[e].dst \in VMDirs /\ job[e].dst[2] \in VM
                                    /\ job[e].dst = VMDir(job[e].dst[2])
  BY Kinds DEF Jobs, JobOK
<1>5. \A e \in Cli : Saving(e) => job[e].src \in VMDirs /\ Source(e) \in VM
                                  /\ job[e].src = VMDir(Source(e))
  BY Kinds DEF Jobs, JobOK, Source
<1>6. CASE CreateState(c)
  <2> DEFINE v == job[c].dst[2]
  <2>1. /\ Creating(c) /\ ~Creating(c)' /\ ~Saving(c)' /\ ~Saving(c)
        /\ guest' = [guest EXCEPT ![v].status = "stopped"]
        /\ pc'[c] = "idle"
    BY <1>6 DEF CreateState, Creating, Saving, Return, Goto, Typed
  <2>2. v \in VM /\ VMDir(v) \in dirs /\ guest[v] = NoGuest
    BY <1>4, <2>1 DEF Owners
  <2>3. \A e \in Cli \ {c} : Creating(e) => job[e].dst[2] # v
    BY <1>4, <2>1 DEF Owners
  <2>4. \A e \in Cli : VMDir(Source(e)) \notin dirs => VMDir(Source(e)) # VMDir(v)
    BY <2>2
  <2> HIDE DEF v
  <2>5. guest'[v].status # "none" /\ \A w \in VM \ {v} : guest'[w] = guest[w]
    BY <2>1, <2>2 DEF Typed, Guest
  <2>6. \A w \in VM : guest'[w] = NoGuest \/ (VMDir(w) \in dirs' /\ guest'[w].status # "none")
    BY <1>3, <2>2, <2>5 DEF Owners
  <2>7. \A e \in Cli : Creating(e)' => job'[e].dst \in dirs' /\ guest'[job'[e].dst[2]] = NoGuest
    BY <1>2, <1>3, <1>4, <2>1, <2>3, <2>5 DEF Owners
  <2>8. ASSUME NEW e \in Cli, Saving(e)'
        PROVE  VMDir(Source(e))' \notin dirs' \/ guest'[Source(e)'].status # "none"
    <3>1. Saving(e) /\ VMDir(Source(e))' = VMDir(Source(e)) /\ Source(e)' = Source(e)
      BY <1>2, <2>1, <2>8 DEF VMDir, Source
    <3> QED BY <1>5, <2>5, <3>1 DEF Owners, NamesKept
  <2>9. \A a, e \in Cli : Creating(a)' /\ Creating(e)' /\ job'[a].dst = job'[e].dst => a = e
    BY <1>2, <2>1 DEF Owners
  <2>10. \A w \in VM : VMDir(w)' = VMDir(w)
    BY DEF VMDir
  <2> QED BY <2>6, <2>7, <2>8, <2>9, <2>10 DEF Owners
<1>7. CASE SnapFail(c) /\ guest' = guest
  <2>1. ~Creating(c)' /\ ~Saving(c)'
    BY <1>7 DEF SnapFail, Creating, Saving, Return, Goto, Typed
  <2> QED BY <1>1, <1>7, <2>1, OwnersStay
<1>8. CASE SnapSave(c) \/ SnapShutdown(c) \/ (SnapFail(c) /\ guest' # guest)
  <2> DEFINE v == Source(c)
  <2>1. /\ Saving(c) /\ ~Creating(c)' /\ ~Creating(c)
        /\ Saving(c)' => job'[c] = job[c]
    BY <1>8 DEF SnapSave, SnapShutdown, SnapFail, Creating, Saving, Return, Goto, Typed
  <2>2. v \in VM /\ VMDir(v) \in dirs /\ guest[v] # NoGuest /\ guest[v].status # "none"
    <3>1. v \in VM /\ guest[v] \in Guest
      BY <1>5, <2>1 DEF Typed
    <3>2. CASE SnapSave(c)
      BY <3>1, <3>2 DEF SnapSave, Owners, NoGuest
    <3>3. CASE SnapShutdown(c)
      BY <2>1, <3>1, <3>3 DEF SnapShutdown, Owners, NoGuest
    <3>4. CASE SnapFail(c) /\ guest' # guest
      <4>1. PICK run \in LeftBy(c) : guest' = [guest EXCEPT ![v].run = run]
        BY <3>4 DEF SnapFail
      <4>2. guest[v].run = run => guest' = guest
        BY <3>1, <4>1 DEF Typed, Guest
      <4>3. guest[v].run # "off"
        BY <3>4, <4>1, <4>2 DEF LeftBy
      <4> QED BY <3>1, <4>3 DEF Owners, NoGuest
    <3> QED BY <1>8, <3>2, <3>3, <3>4
  <2>3. \A e \in Cli : Creating(e) => job[e].dst[2] # v
    BY <2>2 DEF Owners
  <2>5. guest[v] \in Guest
    BY <2>2 DEF Typed
  <2> HIDE DEF v
  <2>6. /\ \A w \in VM \ {v} : guest'[w] = guest[w]
        /\ guest'[v].status # "none"
    <3>1. CASE SnapSave(c)
      BY <2>2, <2>5, <3>1 DEF SnapSave, Typed, Guest, v, Goto
    <3>2. CASE SnapShutdown(c)
      BY <2>2, <2>5, <3>2 DEF SnapShutdown, Typed, Guest, v, Goto
    <3>3. CASE SnapFail(c)
      <4>1. PICK run \in LeftBy(c) : guest' = [guest EXCEPT ![v].run = run]
        BY <3>3 DEF SnapFail, v
      <4> QED BY <2>2, <2>5, <4>1 DEF Typed, Guest
    <3> QED BY <1>8, <3>1, <3>2, <3>3
  <2>7. \A w \in VM : guest'[w] = NoGuest \/ (VMDir(w) \in dirs' /\ guest'[w].status # "none")
    BY <1>3, <2>2, <2>6 DEF Owners
  <2>8. \A e \in Cli : Creating(e)' => job'[e].dst \in dirs' /\ guest'[job'[e].dst[2]] = NoGuest
    BY <1>2, <1>3, <1>4, <2>1, <2>3, <2>6 DEF Owners
  <2>9. ASSUME NEW e \in Cli, Saving(e)'
        PROVE  VMDir(Source(e))' \notin dirs' \/ guest'[Source(e)'].status # "none"
    <3>1. Saving(e) /\ VMDir(Source(e))' = VMDir(Source(e)) /\ Source(e)' = Source(e)
      BY <1>2, <2>1, <2>9 DEF VMDir, Source
    <3> QED BY <1>5, <2>6, <3>1 DEF Owners, NamesKept
  <2>10. \A a, e \in Cli : Creating(a)' /\ Creating(e)' /\ job'[a].dst = job'[e].dst => a = e
    BY <1>2, <2>1 DEF Owners
  <2>11. \A w \in VM : VMDir(w)' = VMDir(w)
    BY DEF VMDir
  <2> QED BY <2>7, <2>8, <2>9, <2>10, <2>11 DEF Owners
<1> QED BY <1>6, <1>7, <1>8

LEMMA OwnersGuests ==
    ASSUME Typed, Jobs, Owners, NamesKept, Guests PROVE Owners'
<1> USE DEF disk, cmd, imageVars, snapVars, machines
<1> SUFFICES ASSUME NEW v \in VM,
                    GuestStart(v) \/ GuestStop(v) \/ GuestWrite(v) \/ DeleteVM(v)
             PROVE  Owners'
  BY DEF Guests
<1>1. UNCHANGED <<pc, job>>
  BY DEF GuestStart, GuestStop, GuestWrite, DeleteVM
<1>2. /\ \A e \in Cli : Creating(e)' <=> Creating(e)
      /\ \A e \in Cli : Saving(e)' <=> Saving(e)
      /\ \A e \in Cli : Source(e)' = Source(e) /\ VMDir(Source(e))' = VMDir(Source(e))
      /\ \A w \in VM : VMDir(w)' = VMDir(w)
  BY <1>1 DEF Creating, Saving, Source, VMDir
<1>3. CASE GuestWrite(v)
  BY <1>1, <1>2, <1>3 DEF GuestWrite, Owners
<1>4. CASE GuestStart(v) \/ GuestStop(v) \/ DeleteVM(v)
  <2>1. guest[v] # NoGuest /\ \A w \in VM \ {v} : guest'[w] = guest[w]
    BY <1>4 DEF GuestStart, GuestStop, DeleteVM, NoGuest, Typed
  <2>3. \A e \in Cli : Creating(e) => /\ job[e].dst[2] # v /\ job[e].dst[2] \in VM
                                      /\ job[e].dst = VMDir(job[e].dst[2])
    BY <2>1, Kinds DEF Jobs, JobOK, Owners
  <2>4. \A w \in VM \ {v} : VMDir(w) \in dirs => VMDir(w) \in dirs'
    BY <1>4 DEF GuestStart, GuestStop, DeleteVM, Wipe, VMDir
  <2>5. /\ guest'[v] = NoGuest \/ (VMDir(v) \in dirs' /\ guest'[v].status # "none")
        /\ VMDir(v) \notin dirs' \/ guest'[v].status # "none"
    BY <1>4, <2>1 DEF GuestStart, GuestStop, DeleteVM, Owners, Typed, NoGuest, Wipe
  <2>6. \A w \in VM : guest'[w] = NoGuest \/ (VMDir(w) \in dirs' /\ guest'[w].status # "none")
    BY <2>1, <2>4, <2>5 DEF Owners
  <2>7. \A e \in Cli : Creating(e) => job[e].dst \in dirs' /\ guest'[job[e].dst[2]] = NoGuest
    BY <2>1, <2>3, <2>4 DEF Owners
  <2>8. ASSUME NEW e \in Cli, Saving(e)
        PROVE  VMDir(Source(e)) \notin dirs' \/ guest'[Source(e)].status # "none"
    <3>1. Source(e) \in VM
      BY <2>8, Kinds DEF Jobs, JobOK, Source
    <3> QED BY <2>1, <2>5, <2>8, <3>1 DEF Owners, NamesKept
  <2> QED BY <1>1, <1>2, <2>6, <2>7, <2>8 DEF Owners
<1> QED BY <1>3, <1>4

LEMMA OwnersKept ==
    ASSUME Typed, Jobs, Owners, NamesKept, [Next]_vars PROVE Owners'
<1>1. CASE UNCHANGED vars
  BY <1>1 DEF vars, disk, cmd, Owners, Creating, Saving, Source
<1>2. ASSUME NEW c \in Cli, Command(c) \/ Crash(c) PROVE Owners'
  <2> USE DEF disk, cmd, imageVars, snapVars, machines, Goto, Return, Typed
  <2>1. CASE \/ Build(c) \/ (\E i \in Image : DeleteImage(c, i)) \/ RemoveStep(c) \/ Crash(c)
             \/ (\E ss \in SUBSET Snap : Prune(c, ss)) \/ PruneNext(c) \/ PruneRemove(c)
             \/ CreateFail(c) \/ SnapPublish(c)
    <3>1. ~(CreateState(c) \/ SnapSave(c) \/ SnapShutdown(c) \/ SnapFail(c)) => guest' = guest
      BY <1>2, GuestsStay
    <3>2. guest' = guest
      <4> USE DEF imageVars, snapVars, machines
      <4>1. CASE Build(c)
        BY <4>1 DEF Build, BuildBegin, ResolveTemplate, TemplateTmp, TemplateFill, TemplateMove,
           TemplateAside, TemplateSwap, BuildClear, BuildRun, BuildOutput, BuildVerify,
           BuildStage, BuildReplace, BuildInstall, BuildFail
      <4> QED BY <2>1, <4>1 DEF DeleteImage, RemoveStep, Crash, Prune, PruneNext, PruneRemove,
              CreateFail, SnapPublish
    <3>3. ~Creating(c)' /\ ~Saving(c)'
      <4>1. CASE Build(c)
        BY <4>1 DEF Build, BuildBegin, ResolveTemplate, TemplateTmp, TemplateFill, TemplateMove,
           TemplateAside, TemplateSwap, BuildClear, BuildRun, BuildOutput, BuildVerify,
           BuildStage, BuildReplace, BuildInstall, BuildFail, Begin, Creating, Saving
      <4> QED BY <2>1, <4>1 DEF DeleteImage, RemoveStep, Crash, Prune, PruneNext, PruneRemove,
              CreateFail, SnapPublish, Begin, Creating, Saving
    <3> QED BY <1>2, <3>2, <3>3, OwnersStay
  <2>2. CASE CreateMetadata(c) \/ (CopyNext(c) /\ ~Saving(c))
    <3>1. guest' = guest /\ Creating(c) /\ Creating(c)' /\ job'[c] = job[c]
      BY <2>2 DEF CreateMetadata, InjectKey, CopyNext, CopySteps, Creating, Saving
    <3>2. ~CreateFail(c)
      <4>1. pc'[c] # "idle"
        BY <3>1 DEF Creating
      <4> QED BY <4>1 DEF CreateFail
    <3> QED BY <1>2, <3>1, <3>2, OwnersStay
  <2>3. CASE SnapMetadata(c) \/ (CopyNext(c) /\ Saving(c))
    <3>1. guest' = guest /\ Saving(c) /\ Saving(c)' /\ job'[c] = job[c]
      BY <2>3 DEF SnapMetadata, CopyNext, Saving
    <3> QED BY <1>2, <3>1, OwnersStay
  <2>4. CASE CreateState(c) \/ SnapSave(c) \/ SnapShutdown(c) \/ SnapFail(c)
    BY <2>4, OwnersGuest
  <2>5. CASE \/ \E v \in VM, i \in Image : CreateFromImage(c, v, i)
             \/ \E v \in VM, s \in Snap : CreateFromSnapshot(c, v, s) \/ SnapshotCreate(c, v, s)
    BY <2>5, OwnersBegin
  <2> HIDE DEF Typed, Goto, Return
  <2> QED BY <1>2, <2>1, <2>2, <2>3, <2>4, <2>5 DEF Command, Images, Snapshots, Create
<1> QED BY <1>1, <1>2, OwnersGuests DEF Next

-----------------------------------------------------------------------------
(* All of this together *)

Control == Typed /\ Jobs /\ CopiesLeft /\ Owners

LEMMA ControlInit == ASSUME Init PROVE Control
<1>1. Typed
  BY ArtifactConstants DEF Init, Typed, Stamp, Guest, NoGuest, Steps, NoJob, Job, TemplateDirs
<1>2. \A c \in Cli : pc[c] = "idle" /\ job[c] = NoJob /\ \A v \in VM : guest[v] = NoGuest
  BY DEF Init
<1>3. Jobs
  <2>1. NoJob.src = None /\ NoJob.dst = None
    BY DEF NoJob
  <2>2. \A c \in Cli : ~Creating(c) /\ ~Saving(c)
    BY <1>2 DEF Creating, Saving
  <2> QED BY <1>2, <2>1, <2>2 DEF Jobs, JobOK, BuildSteps
<1>4. CopiesLeft /\ Owners
  BY <1>2 DEF CopiesLeft, CopiesOK, Owners, Creating, Saving, Init
<1> QED BY <1>1, <1>3, <1>4 DEF Control

LEMMA ControlKept == ASSUME Control, NamesKept, [Next]_vars PROVE Control'
BY TypesKept, CopiesKept, OwnersKept DEF Control

LEMMA NoBuild == ASSUME Init PROVE OneBuild /\ Templates
BY DEF Init, OneBuild, Building, BuildSteps, Templates, TemplateDirs

\* One build at a time never leaves a part of a template where the next build
\* takes it for a template.
THEOREM TemplateStaysWhole == ASSUME Builders <= 1 PROVE Spec => []TemplateWhole
<1>1. Init => Typed /\ Jobs /\ OneBuild /\ Templates
  BY ControlInit, NoBuild DEF Control
<1>2. Typed /\ Jobs /\ OneBuild /\ Templates /\ [Next]_vars
        => (Typed /\ Jobs /\ OneBuild /\ Templates)'
  BY TypesKept, OneBuildKept, TemplatesKept
<1>3. Templates => TemplateWhole
  BY DEF Templates, TemplateWhole
<1> QED BY <1>1, <1>2, <1>3, PTL DEF Spec
=============================================================================
