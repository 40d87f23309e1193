--------------------------- MODULE ProjectUp_proofs ---------------------------
(***************************************************************************)
(* Theorems about ProjectUp, for any project roots of one name, any number *)
(* of setup commands and any number of edits of their spind.yaml.          *)
(***************************************************************************)
EXTENDS ProjectUp, TLAPS

-----------------------------------------------------------------------------
(* Type correctness *)

ObjectsOK ==
    /\ objects \in [Name -> Object \cup {None}]
    /\ objects["provisioned"] # None => ~objects["provisioned"].on

LEMMA PutTypes ==
    ASSUME ObjectsOK, NEW n \in Name, NEW x \in Object \cup {None}, Put(n, x),
           n = "provisioned" /\ x # None => ~x.on
    PROVE  ObjectsOK'
BY DEF ObjectsOK, Put, Name

LEMMA NewTypes ==
    ASSUME NEW by \in {"up", "user", "meanwhile"}, NEW setup \in SUBSET Effect
    PROVE  New(by, setup) \in Object /\ ~New(by, setup).on
BY DEF New, Object

LEMMA SameObjects == ASSUME ObjectsOK, UNCHANGED objects PROVE ObjectsOK'
BY DEF ObjectsOK

LEMMA DropTypes == ASSUME ObjectsOK, NEW n \in Name, Put(n, None) PROVE ObjectsOK'
BY PutTypes

LEMMA MarkTypes ==
    ASSUME ObjectsOK, NEW n \in Name, Mark(n), up.root \in Root PROVE ObjectsOK'
<1>1. [objects[n] EXCEPT !.root = up.root] \in Object
  BY DEF Mark, There, ObjectsOK, Object
<1>2. n = "provisioned" => ~[objects[n] EXCEPT !.root = up.root].on
  BY DEF Mark, There, ObjectsOK, Object
<1> QED BY <1>1, <1>2, PutTypes DEF Mark

LEMMA StartTypes == ASSUME ObjectsOK, NEW n \in VMName, Start(n) PROVE ObjectsOK'
<1>1. [objects[n] EXCEPT !.on = TRUE] \in Object
  BY DEF Start, There, ObjectsOK, Object, VMName, Name
<1> QED BY <1>1, PutTypes DEF Start, VMName, Name

LEMMA StopTypes ==
    ASSUME ObjectsOK, NEW n \in VMName, There(n), Put(n, [objects[n] EXCEPT !.on = FALSE])
    PROVE  ObjectsOK'
<1>1. [objects[n] EXCEPT !.on = FALSE] \in Object
  BY DEF There, ObjectsOK, Object, VMName, Name
<1> QED BY <1>1, PutTypes DEF VMName, Name

LEMMA GotoTypes ==
    ASSUME TypeOK, NEW p \in PC \ {"idle"}, Goto(p), pc # "idle", image' \in BOOLEAN, ObjectsOK'
    PROVE  TypeOK'
BY DEF TypeOK, Goto, ObjectsOK

LEMMA MadeFromTypes ==
    ASSUME ObjectsOK, NEW n \in Name, There(n)
    PROVE  MadeFrom(n) \in Object /\ ~MadeFrom(n).on
<1>1. objects[n].by \in {"up", "user", "meanwhile"} /\ objects[n].setup \in SUBSET Effect
  BY DEF ObjectsOK, There, Object
<1> QED BY <1>1, NewTypes DEF MadeFrom

LEMMA NoUpTypes ==
    /\ NoUp \in [root : Root \cup {None}, version : 0..MaxVersion,
                reprovision : BOOLEAN, step : 1..(Steps + 1)]
    /\ 1 \in Version
BY ProjectConstants DEF NoUp, Version

LEMMA LeaveTypes ==
    ASSUME TypeOK, Leave, image' \in BOOLEAN, ObjectsOK', stray' \subseteq Effect PROVE TypeOK'
BY NoUpTypes DEF TypeOK, Leave, ObjectsOK, PC

LEMMA EndTypes == ASSUME TypeOK, End, image' \in BOOLEAN, ObjectsOK' PROVE TypeOK'
BY LeaveTypes DEF TypeOK, End

LEMMA UserTypes == ASSUME TypeOK, User PROVE TypeOK'
<1>1. ASSUME NEW r \in Root, UserEdit(r) PROVE TypeOK'
  BY <1>1, ProjectConstants DEF UserEdit, TypeOK, Version
<1>2. ASSUME UNCHANGED <<yaml, pc, up, stray>>, image' \in BOOLEAN, ObjectsOK' PROVE TypeOK'
  BY <1>2 DEF TypeOK, ObjectsOK
<1>3. ObjectsOK /\ image \in BOOLEAN
  BY DEF TypeOK, ObjectsOK
<1>4. ASSUME NEW n \in Name, UserCreate(n) PROVE TypeOK'
  BY <1>2, <1>3, <1>4, NewTypes, PutTypes DEF UserCreate
<1>5. ASSUME NEW n \in Name, UserDelete(n) PROVE TypeOK'
  BY <1>2, <1>3, <1>5, DropTypes DEF UserDelete
<1>6. CASE UserDeleteImage
  BY <1>2, <1>3, <1>6, SameObjects DEF UserDeleteImage
<1>7. ASSUME NEW n \in VMName, VMStarts(n) PROVE TypeOK'
  BY <1>2, <1>3, <1>7, StartTypes DEF VMStarts
<1>8. ASSUME NEW n \in VMName, VMStops(n) PROVE TypeOK'
  BY <1>2, <1>3, <1>8, StopTypes DEF VMStops
<1> QED BY <1>1, <1>4, <1>5, <1>6, <1>7, <1>8 DEF User

\* The steps of an up that leave the objects alone, delete one, mark one or
\* start one.
LEMMA PlainTypes ==
    ASSUME TypeOK,
           \/ Validate \/ DeleteWork \/ DeleteSnapshot \/ BuildImage
           \/ FindSnapshot \/ DeleteLeftover \/ MarkProvisioning \/ StartProvisioning
           \/ SetupDone \/ MarkSnapshot \/ FinishProvisioning \/ FindWork \/ MarkWork
           \/ StartWork
    PROVE  TypeOK'
<1>1. ObjectsOK /\ image \in BOOLEAN
  BY DEF TypeOK, ObjectsOK
<1>2. pc # "idle"
  BY DEF Validate, DeleteWork, DeleteSnapshot, BuildImage, FindSnapshot,
     DeleteLeftover, MarkProvisioning, StartProvisioning, SetupDone, MarkSnapshot,
     FinishProvisioning, FindWork, MarkWork, StartWork
<1>3. up.root \in Root
  BY <1>2 DEF TypeOK
<1>4. image' \in BOOLEAN
  BY <1>1 DEF Validate, DeleteWork, DeleteSnapshot, BuildImage, FindSnapshot,
     DeleteLeftover, MarkProvisioning, StartProvisioning, SetupDone, MarkSnapshot,
     FinishProvisioning, FindWork, MarkWork, StartWork
<1>5. \/ UNCHANGED objects
      \/ \E n \in Name : Put(n, None) \/ Mark(n)
      \/ \E n \in VMName : Start(n)
  BY DEF Validate, DeleteWork, DeleteSnapshot, BuildImage, FindSnapshot,
     DeleteLeftover, MarkProvisioning, StartProvisioning, SetupDone, MarkSnapshot,
     FinishProvisioning, FindWork, MarkWork, StartWork, Name, VMName
<1>6. ObjectsOK'
  BY <1>1, <1>3, <1>5, SameObjects, DropTypes, MarkTypes, StartTypes
<1>7. End \/ \E p \in PC \ {"idle"} : Goto(p)
  BY DEF Validate, DeleteWork, DeleteSnapshot, BuildImage, FindSnapshot,
     DeleteLeftover, MarkProvisioning, StartProvisioning, SetupDone, MarkSnapshot,
     FinishProvisioning, FindWork, MarkWork, StartWork, PC
<1> QED BY <1>2, <1>4, <1>6, <1>7, EndTypes, GotoTypes

LEMMA CommandTypes ==
    ASSUME TypeOK, pc # "idle", up.step <= Steps PROVE Command \in Effect
<1>1. up.root \in Root /\ up.version \in Version /\ up.step \in 1..Steps
  BY ProjectConstants DEF TypeOK
<1> QED BY <1>1 DEF Command, Effect

LEMMA FailTypes == ASSUME TypeOK, UpFail PROVE TypeOK'
<1>1. ObjectsOK' /\ image' \in BOOLEAN
  BY SameObjects DEF UpFail, TypeOK, ObjectsOK
<1>2. stray' \subseteq Effect
  BY CommandTypes DEF UpFail, TypeOK
<1> QED BY <1>1, <1>2, LeaveTypes DEF UpFail

LEMMA StrayTypes == ASSUME TypeOK, StrayCommand PROVE TypeOK'
<1>1. PICK e \in stray :
         /\ stray' = stray \ {e}
         /\ \/ UNCHANGED objects
            \/ /\ There("provisioning") /\ objects["provisioning"].on
               /\ Put("provisioning", [objects["provisioning"] EXCEPT !.setup = @ \cup {e}])
  BY DEF StrayCommand
<1>2. ObjectsOK /\ e \in Effect
  BY DEF TypeOK, ObjectsOK
<1>3. There("provisioning") => [objects["provisioning"] EXCEPT !.setup = @ \cup {e}] \in Object
  BY <1>2 DEF There, ObjectsOK, Object, Name
<1>4. ObjectsOK'
  BY <1>1, <1>2, <1>3, SameObjects, PutTypes DEF Name
<1> QED BY <1>1, <1>4 DEF StrayCommand, TypeOK, ObjectsOK

LEMMA MakingTypes ==
    ASSUME TypeOK, CreateProvisioning \/ SaveSnapshot \/ SaveLost \/ CreateWork PROVE TypeOK'
<1>1. ObjectsOK /\ image \in BOOLEAN
  BY DEF TypeOK, ObjectsOK
<1>2. CASE CreateProvisioning
  <2>1. ObjectsOK'
    BY <1>1, <1>2, NewTypes, PutTypes DEF CreateProvisioning, Name
  <2> QED BY <1>1, <1>2, <2>1, GotoTypes DEF CreateProvisioning, PC
<1>3. CASE SaveSnapshot
  <2> DEFINE vm == objects["provisioning"]
             copy == MadeFrom("provisioning")
  <2>1. vm \in Object /\ [vm EXCEPT !.on = FALSE] \in Object
    BY <1>1, <1>3 DEF SaveSnapshot, There, ObjectsOK, Object, Name
  <2>2. copy \in Object /\ ~copy.on
    BY <1>1, <1>3, MadeFromTypes DEF SaveSnapshot, Name
  <2> HIDE DEF copy
  <2>3. objects' = [objects EXCEPT !["provisioning"] = [vm EXCEPT !.on = FALSE],
                                   !["provisioned"] = copy]
    BY <1>1, <1>3 DEF SaveSnapshot, ObjectsOK, Name, copy
  <2>4. ObjectsOK'
    BY <1>1, <2>1, <2>2, <2>3 DEF ObjectsOK, Name
  <2> QED BY <1>1, <1>3, <2>4, GotoTypes DEF SaveSnapshot, PC
<1>4. CASE SaveLost
  <2>1. ObjectsOK'
    BY <1>1, <1>4, StopTypes DEF SaveLost, VMName
  <2> QED BY <1>1, <1>4, <2>1, EndTypes DEF SaveLost
<1>5. CASE CreateWork
  <2>1. ObjectsOK'
    BY <1>1, <1>5, MadeFromTypes, PutTypes DEF CreateWork, Name
  <2> QED BY <1>1, <1>5, <2>1, GotoTypes DEF CreateWork, PC
<1> QED BY <1>2, <1>3, <1>4, <1>5

LEMMA DyingTypes == ASSUME TypeOK, CreateDies \/ DeleteDies PROVE TypeOK'
<1>1. ObjectsOK /\ image \in BOOLEAN
  BY DEF TypeOK, ObjectsOK
<1>2. CASE CreateDies
  <2>1. PICK n \in VMName :
           Put(n, [New("up", {}) EXCEPT !.root = Unread, !.whole = FALSE])
    BY <1>2 DEF CreateDies
  <2>2. [New("up", {}) EXCEPT !.root = Unread, !.whole = FALSE] \in Object
    BY DEF New, Object
  <2>3. ObjectsOK'
    BY <1>1, <2>1, <2>2, PutTypes DEF VMName, Name
  <2> QED BY <1>1, <1>2, <2>3, EndTypes DEF CreateDies
<1>3. CASE DeleteDies
  <2>1. PICK n \in Name, r \in {up.root, Unread} :
           /\ There(n)
           /\ Put(n, [objects[n] EXCEPT !.root = r, !.whole = FALSE, !.on = FALSE])
    BY <1>3 DEF DeleteDies, Deleting, Name
  <2>2. up.root \in Root
    BY <1>3 DEF DeleteDies, Deleting, TypeOK
  <2> DEFINE x == [objects[n] EXCEPT !.root = r, !.whole = FALSE, !.on = FALSE]
  <2>3. x \in Object /\ ~x.on
    BY <1>1, <2>1, <2>2 DEF There, ObjectsOK, Object
  <2>4. ObjectsOK'
    BY <1>1, <2>1, <2>3, PutTypes
  <2> QED BY <1>1, <1>3, <2>4, EndTypes DEF DeleteDies
<1> QED BY <1>2, <1>3

LEMMA SetupTypes == ASSUME TypeOK, SetupCommand PROVE TypeOK'
<1> DEFINE x == [objects["provisioning"] EXCEPT !.setup = @ \cup {Command}]
<1>1. ObjectsOK /\ up.step \in 1..Steps /\ up.root \in Root /\ up.version \in Version
  BY ProjectConstants DEF TypeOK, ObjectsOK, SetupCommand
<1>2. Command \in Effect
  BY <1>1, CommandTypes DEF SetupCommand
<1>3. x \in Object
  BY <1>1, <1>2 DEF SetupCommand, There, ObjectsOK, Object, Name
<1>4. ObjectsOK'
  BY <1>1, <1>3, PutTypes DEF SetupCommand, Name
<1>5. up' \in [root : Root \cup {None}, version : 0..MaxVersion,
               reprovision : BOOLEAN, step : 1..(Steps + 1)]
  BY <1>1, ProjectConstants DEF SetupCommand, TypeOK
<1>6. up'.root \in Root /\ up'.version \in Version
  BY <1>1 DEF SetupCommand, TypeOK
<1> QED BY <1>4, <1>5, <1>6 DEF SetupCommand, TypeOK, ObjectsOK

\* Every variable keeps its type; a snapshot never runs.
THEOREM UpTypes == Spec => []TypeOK
<1>1. Init => TypeOK
  BY NoUpTypes DEF Init, TypeOK, PC, Name
<1>2. TypeOK /\ [Next]_vars => TypeOK'
  <2>1. ASSUME TypeOK, UNCHANGED vars PROVE TypeOK'
    BY <2>1 DEF TypeOK, vars
  <2>2. ASSUME TypeOK, NEW r \in Root, NEW b \in BOOLEAN, UpBegin(r, b) PROVE TypeOK'
    <3>1. up' \in [root : Root \cup {None}, version : 0..MaxVersion,
                   reprovision : BOOLEAN, step : 1..(Steps + 1)]
      BY <2>2, ProjectConstants DEF UpBegin, TypeOK, Version
    <3> QED BY <2>2, <3>1 DEF UpBegin, TypeOK, PC
  <2> QED BY <2>1, <2>2, PlainTypes, FailTypes, MakingTypes, DyingTypes, SetupTypes, StrayTypes,
             UserTypes
       DEF Next, UpStep
<1> QED BY <1>1, <1>2, PTL DEF Spec

-----------------------------------------------------------------------------
(* Whose the objects are *)

\* What this up has made and not marked yet.
Unmarked(n) ==
    \/ pc = "mark" /\ n = "provisioning"
    \/ pc = "mark snapshot" /\ n = "provisioned"
    \/ pc = "mark work" /\ n = "work"

\* Once the up has validated its three names, what they stand for is its own, or
\* was made by it and is about to be marked, or by the user meanwhile; what has a
\* root the user did not make between ups.
Owned ==
    \A n \in Name : There(n) =>
        /\ pc \notin {"idle", "validate"} =>
              /\ objects[n].by # "user" /\ objects[n].root \in {None, up.root}
              /\ objects[n].root = None /\ objects[n].by = "up" => Unmarked(n)
        /\ objects[n].root \in Root => objects[n].by # "user"

-----------------------------------------------------------------------------
(* What the setup commands have done *)

Early == {"validate", "delete work", "delete snapshot", "image", "snapshot",
          "delete leftover", "create", "mark", "start"}

Made(n) == There(n) /\ objects[n].by = "up"
SetUp(n) == Provisioned(up.root, up.version) \subseteq objects[n].setup

\* The provisioning VM has seen the commands before the next one, and what this
\* up makes of it has seen them all.
Progress ==
    /\ pc \in Early => up.step = 1
    /\ pc = "save" => up.step = Steps + 1
    /\ pc \in {"mark", "start", "setup", "save"} /\ Made("provisioning") =>
          {up.root} \X {up.version} \X (1..(up.step - 1)) \subseteq objects["provisioning"].setup
    /\ pc = "mark snapshot" /\ Made("provisioned") => SetUp("provisioned")
    /\ pc = "mark work" /\ Made("work") =>
          \E v \in Version : Provisioned(up.root, v) \subseteq objects["work"].setup

\* An up --reprovision finds nothing of an older one.
Anew ==
    up.reprovision =>
        /\ pc \notin {"idle", "validate", "delete work", "mark work", "start work"} =>
              ~Made("work")
        /\ pc \in {"image", "snapshot", "delete leftover", "create", "mark", "start",
                   "setup", "save"} => ~Made("provisioned")
        /\ pc \in {"mark snapshot", "finish", "work"} /\ Made("provisioned") =>
              SetUp("provisioned")
        /\ pc \in {"mark work", "start work"} /\ Made("work") => SetUp("work")

-----------------------------------------------------------------------------
(* Every step keeps the owners *)

\* A step that makes no object and takes none over: it leaves each alone, drops
\* it or changes neither its root nor its maker.
Tame == \A n \in Name : There(n)' => /\ There(n)
                                     /\ objects'[n].root = objects[n].root
                                     /\ objects'[n].by = objects[n].by

LEMMA TameOwned ==
    ASSUME TypeOK, Owned, Tame,
           \/ pc' = "idle"
           \/ pc' = "validate"
           \/ pc' = pc /\ up'.root = up.root
           \/ /\ pc \notin {"idle", "validate", "mark", "mark snapshot", "mark work"}
              /\ pc' \notin {"mark", "mark snapshot", "mark work"}
              /\ up'.root = up.root
    PROVE  Owned'
BY DEF Owned, Tame, Unmarked

\* Every step but those that make or mark an object.
TameStep ==
    \/ UpFail \/ DeleteWork \/ DeleteSnapshot \/ BuildImage \/ FindSnapshot
    \/ DeleteLeftover \/ StartProvisioning \/ SetupCommand \/ SetupDone \/ SaveLost
    \/ FinishProvisioning \/ FindWork \/ StartWork
    \/ (\E r \in Root, b \in BOOLEAN : UpBegin(r, b)) \/ (\E r \in Root : UserEdit(r))
    \/ (\E n \in Name : UserDelete(n)) \/ UserDeleteImage \/ StrayCommand
    \/ \E n \in VMName : VMStarts(n) \/ VMStops(n)

LEMMA TameSteps == ASSUME TypeOK, TameStep PROVE Tame
<1>1. CASE UNCHANGED objects
  BY <1>1 DEF Tame, There
<1>2. ASSUME NEW n \in Name, Put(n, None) PROVE Tame
  BY <1>2 DEF Tame, There, Put, TypeOK
<1>3. ASSUME NEW n \in Name, There(n), NEW b \in BOOLEAN,
             Put(n, [objects[n] EXCEPT !.on = b])
      PROVE  Tame
  <2>1. objects[n] \in Object
    BY <1>3 DEF TypeOK, There
  <2> QED BY <1>3, <2>1 DEF Tame, There, Put, TypeOK, Object
<1>4. CASE SetupCommand \/ StrayCommand
  <2>1. CASE UNCHANGED objects
    BY <2>1 DEF Tame, There
  <2>2. CASE There("provisioning") /\ \E e :
               Put("provisioning", [objects["provisioning"] EXCEPT !.setup = @ \cup {e}])
    <3>1. objects["provisioning"] \in Object
      BY <2>2 DEF TypeOK, There, Name
    <3> QED BY <2>2, <3>1 DEF Tame, There, Put, TypeOK, Object, Name
  <2> QED BY <1>4, <2>1, <2>2 DEF SetupCommand, StrayCommand
<1>5. \/ UNCHANGED objects
      \/ SetupCommand \/ StrayCommand
      \/ \E n \in Name : \/ Put(n, None)
                         \/ /\ There(n)
                            /\ \E b \in BOOLEAN : Put(n, [objects[n] EXCEPT !.on = b])
  BY DEF TameStep, UpFail, DeleteWork, DeleteSnapshot, BuildImage, FindSnapshot,
     DeleteLeftover, StartProvisioning, SetupDone, SaveLost, FinishProvisioning,
     FindWork, StartWork, UpBegin, UserEdit, UserDelete, UserDeleteImage, VMStarts,
     VMStops, Start, Name, VMName
<1> QED BY <1>1, <1>2, <1>3, <1>4, <1>5

LEMMA TameKeepsOwned == ASSUME TypeOK, Owned, TameStep PROVE Owned'
<1>1. \/ pc' = "idle"
      \/ pc' = "validate"
      \/ pc' = pc /\ up'.root = up.root
      \/ /\ pc \notin {"idle", "validate", "mark", "mark snapshot", "mark work"}
         /\ pc' \notin {"mark", "mark snapshot", "mark work"}
         /\ up'.root = up.root
  BY DEF TameStep, UpFail, DeleteWork, DeleteSnapshot, BuildImage, FindSnapshot,
     DeleteLeftover, StartProvisioning, SetupCommand, SetupDone, SaveLost,
     FinishProvisioning, FindWork, StartWork, UpBegin, UserEdit, UserDelete,
     UserDeleteImage, StrayCommand, VMStarts, VMStops, Goto, End, Leave, TypeOK
<1> QED BY <1>1, TameSteps, TameOwned

LEMMA MarkKeepsOwned ==
    ASSUME TypeOK, Owned, MarkProvisioning \/ MarkSnapshot \/ MarkWork PROVE Owned'
<1>1. PICK n \in Name : Mark(n) /\ Unmarked(n)
  BY DEF MarkProvisioning, MarkSnapshot, MarkWork, Unmarked, Name
<1>2. /\ pc' \notin {"idle", "validate", "mark", "mark snapshot", "mark work"}
      /\ up' = up
      /\ pc \notin {"idle", "validate"}
      /\ \A m \in Name \ {n} : ~Unmarked(m)
  BY <1>1 DEF MarkProvisioning, MarkSnapshot, MarkWork, Unmarked, Goto
<1>3. /\ objects'[n].root = up.root /\ objects'[n].by = objects[n].by
      /\ \A m \in Name \ {n} : objects'[m] = objects[m]
      /\ There(n)
  BY <1>1 DEF Mark, Put, There, TypeOK, Object
<1>4. up.root # None
  BY <1>2, ProjectConstants DEF TypeOK
<1> QED BY <1>1, <1>2, <1>3, <1>4 DEF Owned, Unmarked, There

LEMMA MakingKeepsOwned ==
    ASSUME TypeOK, Owned,
           \/ Validate \/ CreateProvisioning \/ SaveSnapshot \/ CreateWork
           \/ CreateDies \/ DeleteDies \/ \E n \in Name : UserCreate(n)
    PROVE  Owned'
<1>1. CASE Validate
  <2>1. up.root \in Root
    BY <1>1 DEF Validate, TypeOK
  <2> QED BY <1>1, <2>1, ProjectConstants DEF Validate, Goto, Own, Owned, There
<1>2. CASE CreateProvisioning
  BY <1>2, ProjectConstants DEF CreateProvisioning, Goto, Put, New, Owned, Unmarked, There,
     TypeOK, Name
<1>3. CASE SaveSnapshot
  <2>1. objects["provisioning"] \in Object
    BY <1>3 DEF TypeOK, There, SaveSnapshot, Name
  <2> QED BY <1>3, <2>1, ProjectConstants DEF SaveSnapshot, Goto, MadeFrom, New, Owned, Unmarked,
            There, TypeOK, Name, Object
<1>4. CASE CreateWork
  BY <1>4, ProjectConstants DEF CreateWork, Goto, Put, MadeFrom, New, Owned, Unmarked, There,
     TypeOK, Name
<1>5. CASE CreateDies
  BY <1>5, ProjectConstants DEF CreateDies, End, Leave, Put, New, Owned, Unmarked, There, TypeOK,
     Name, VMName
<1>6. CASE DeleteDies
  <2>1. PICK n \in Name, r \in {up.root, Unread} :
           /\ There(n) /\ pc \notin {"idle", "validate"}
           /\ Put(n, [objects[n] EXCEPT !.root = r, !.whole = FALSE, !.on = FALSE])
    BY <1>6 DEF DeleteDies, Deleting, Name
  <2>2. objects[n].by # "user"
    BY <2>1 DEF Owned
  <2>3. pc' = "idle" /\ objects[n] \in Object
    BY <1>6, <2>1 DEF DeleteDies, End, Leave, TypeOK, There
  <2> QED BY <2>1, <2>2, <2>3 DEF Owned, Unmarked, There, Put, TypeOK, Object
<1>7. ASSUME NEW n \in Name, UserCreate(n) PROVE Owned'
  BY <1>7, ProjectConstants DEF UserCreate, Put, New, Owned, Unmarked, There, TypeOK
<1> QED BY <1>1, <1>2, <1>3, <1>4, <1>5, <1>6, <1>7

LEMMA KeepsOwned == ASSUME TypeOK, Owned, [Next]_vars PROVE Owned'
<1>1. CASE UNCHANGED vars
  BY <1>1 DEF vars, Owned, Unmarked, There
<1> QED BY <1>1, TameKeepsOwned, MarkKeepsOwned, MakingKeepsOwned
     DEF Next, UpStep, User, TameStep

LEMMA OwnedAlways == Spec => []Owned
<1>1. Init => Owned
  BY DEF Init, Owned, There
<1> QED BY <1>1, KeepsOwned, UpTypes, PTL DEF Spec

\* For any number of project roots of one name: no step of an up touches an
\* object of another root, one that the user made between ups, or one that an
\* earlier up has left without a mark.
THEOREM OthersAreLeftAlone == Spec => OwnObjectsOnly
<1> DEFINE Touches(n) == There(n) /\ objects'[n] # objects[n]
           Allowed(n) == /\ objects[n].by # "user"
                         /\ objects[n].root \in {None, up.root}
                         /\ objects[n].root = None /\ objects[n].by = "up" =>
                               pc \in {"mark", "mark snapshot", "mark work"}
<1>1. ASSUME Owned, UpStep, NEW n \in Name, Touches(n) PROVE Allowed(n)
  <2>1. pc \notin {"idle", "validate"}
    BY <1>1 DEF UpStep, UpFail, Validate, DeleteWork, DeleteSnapshot, BuildImage,
       FindSnapshot, DeleteLeftover, CreateProvisioning, MarkProvisioning,
       StartProvisioning, SetupCommand, SetupDone, SaveSnapshot, SaveLost, MarkSnapshot,
       FinishProvisioning, FindWork, CreateWork, MarkWork, StartWork, CreateDies,
       DeleteDies, Deleting, VMName
  <2> QED BY <1>1, <2>1 DEF Owned, Unmarked
<1>2. Owned /\ [Next]_vars => [UpStep => \A n \in Name : Touches(n) => Allowed(n)]_vars
  BY <1>1
<1> QED BY <1>2, OwnedAlways, PTL DEF Spec, OwnObjectsOnly

-----------------------------------------------------------------------------
(* The setup commands *)

\* One more command.
LEMMA Another ==
    ASSUME NEW r, NEW v, NEW k \in Nat, k >= 1
    PROVE  ({r} \X {v} \X (1..(k - 1))) \cup {<<r, v, k>>} = {r} \X {v} \X (1..((k + 1) - 1))
<1>1. 1..((k + 1) - 1) = (1..(k - 1)) \cup {k}
  OBVIOUS
<1> QED BY <1>1

LEMMA NoneYet == ASSUME NEW r, NEW v PROVE {} = {r} \X {v} \X (1..(1 - 1))
<1>1. 1..(1 - 1) = {}
  OBVIOUS
<1> QED BY <1>1

LEMMA All ==
    ASSUME TypeOK, up.step = Steps + 1
    PROVE  {up.root} \X {up.version} \X (1..(up.step - 1)) = Provisioned(up.root, up.version)
<1>1. up.step - 1 = Steps
  BY ProjectConstants
<1> QED BY <1>1 DEF Provisioned

\* What a tame step keeps of an object that stays.
Kept == \A n \in Name : There(n)' => /\ There(n)
                                     /\ objects'[n].root = objects[n].root
                                     /\ objects'[n].whole = objects[n].whole
                                     /\ objects'[n].by = objects[n].by
                                     /\ objects[n].setup \subseteq objects'[n].setup

LEMMA KeptSteps == ASSUME TypeOK, TameStep PROVE Kept
<1>1. CASE UNCHANGED objects
  BY <1>1 DEF Kept, There
<1>2. ASSUME NEW n \in Name, Put(n, None) PROVE Kept
  BY <1>2 DEF Kept, There, Put, TypeOK
<1>3. ASSUME NEW n \in Name, There(n), NEW b \in BOOLEAN,
             Put(n, [objects[n] EXCEPT !.on = b])
      PROVE  Kept
  <2>1. objects[n] \in Object
    BY <1>3 DEF TypeOK, There
  <2> QED BY <1>3, <2>1 DEF Kept, There, Put, TypeOK, Object
<1>4. CASE SetupCommand \/ StrayCommand
  <2>1. CASE UNCHANGED objects
    BY <2>1 DEF Kept, There
  <2>2. CASE There("provisioning") /\ \E e :
               Put("provisioning", [objects["provisioning"] EXCEPT !.setup = @ \cup {e}])
    <3>1. objects["provisioning"] \in Object
      BY <2>2 DEF TypeOK, There, Name
    <3> QED BY <2>2, <3>1 DEF Kept, There, Put, TypeOK, Object, Name
  <2> QED BY <1>4, <2>1, <2>2 DEF SetupCommand, StrayCommand
<1>5. \/ UNCHANGED objects
      \/ SetupCommand \/ StrayCommand
      \/ \E n \in Name : \/ Put(n, None)
                         \/ /\ There(n)
                            /\ \E b \in BOOLEAN : Put(n, [objects[n] EXCEPT !.on = b])
  BY DEF TameStep, UpFail, DeleteWork, DeleteSnapshot, BuildImage, FindSnapshot,
     DeleteLeftover, StartProvisioning, SetupDone, SaveLost, FinishProvisioning,
     FindWork, StartWork, UpBegin, UserEdit, UserDelete, UserDeleteImage, VMStarts,
     VMStops, Start, Name, VMName
<1> QED BY <1>1, <1>2, <1>3, <1>4, <1>5

LEMMA KeptWhole == ASSUME Kept, ProvisionedWhole PROVE ProvisionedWhole'
BY DEF Kept, ProvisionedWhole, There, Name

\* The steps that make and mark nothing, and are no setup command of this up.
Calm ==
    /\ Kept
    /\ \/ pc' = "idle"
       \/ pc' = "validate" /\ up'.step = 1
       \/ UNCHANGED <<pc, up>>
       \/ /\ UNCHANGED up
          /\ \/ /\ pc \in Early \ {"mark", "start"}
                /\ pc' \in (Early \ {"mark", "start"}) \cup {"work"}
             \/ pc = "start" /\ pc' = "setup"
             \/ pc = "setup" /\ pc' = "save" /\ up.step = Steps + 1
             \/ pc \in {"finish", "work"} /\ pc' \in {"work", "start work"}

LEMMA CalmSteps == ASSUME TypeOK, TameStep \/ Validate, ~SetupCommand PROVE Calm
<1>1. Kept
  <2>1. CASE Validate
    BY <2>1 DEF Validate, Kept, There
  <2> QED BY <2>1, KeptSteps
<1>2. \/ pc' = "idle"
      \/ pc' = "validate" /\ up'.step = 1
      \/ UNCHANGED <<pc, up>>
      \/ /\ UNCHANGED up
         /\ \/ /\ pc \in Early \ {"mark", "start"}
               /\ pc' \in (Early \ {"mark", "start"}) \cup {"work"}
            \/ pc = "start" /\ pc' = "setup"
            \/ pc = "setup" /\ pc' = "save" /\ up.step > Steps
            \/ pc \in {"finish", "work"} /\ pc' \in {"work", "start work"}
  <2>1. CASE UpFail \/ Validate \/ DeleteWork \/ DeleteSnapshot \/ BuildImage \/ FindSnapshot
    BY <2>1 DEF UpFail, Validate, DeleteWork, DeleteSnapshot, BuildImage, FindSnapshot,
       Goto, Leave, Early
  <2>2. CASE \/ DeleteLeftover \/ StartProvisioning \/ SetupDone \/ SaveLost
             \/ FinishProvisioning \/ FindWork \/ StartWork
    BY <2>2 DEF DeleteLeftover, StartProvisioning, SetupDone, SaveLost,
       FinishProvisioning, FindWork, StartWork, Goto, End, Leave, Early
  <2>3. CASE \E r \in Root, b \in BOOLEAN : UpBegin(r, b)
    BY <2>3 DEF UpBegin
  <2>4. CASE \/ \E r \in Root : UserEdit(r)
             \/ (\E n \in Name : UserDelete(n)) \/ UserDeleteImage \/ StrayCommand
             \/ \E n \in VMName : VMStarts(n) \/ VMStops(n)
    BY <2>4 DEF UserEdit, UserDelete, UserDeleteImage, VMStarts, VMStops, StrayCommand
  <2> QED BY <2>1, <2>2, <2>3, <2>4 DEF TameStep
<1>3. up.step > Steps => up.step = Steps + 1
  BY ProjectConstants DEF TypeOK
<1> QED BY <1>1, <1>2, <1>3 DEF Calm

LEMMA CalmProgress == ASSUME TypeOK, Progress, Calm PROVE Progress'
BY DEF Progress, Calm, Kept, SetUp, Made, There, Early, Name, TypeOK

LEMMA CalmKeeps ==
    ASSUME TypeOK, Progress, ProvisionedWhole, TameStep \/ Validate, ~SetupCommand
    PROVE  Progress' /\ ProvisionedWhole'
BY CalmSteps, CalmProgress, KeptWhole DEF Calm

LEMMA SetupKeeps ==
    ASSUME TypeOK, Progress, ProvisionedWhole, SetupCommand
    PROVE  Progress' /\ ProvisionedWhole'
<1> DEFINE vm == objects["provisioning"]
<1>1. /\ objects'["provisioning"].setup = vm.setup \cup {<<up.root, up.version, up.step>>}
      /\ objects'["provisioning"].by = vm.by
      /\ There("provisioning")
      /\ \A n \in Name \ {"provisioning"} : objects'[n] = objects[n]
      /\ pc = "setup" /\ pc' = "setup"
      /\ up.step \in Nat /\ up.step >= 1
      /\ up'.root = up.root /\ up'.version = up.version /\ up'.step = up.step + 1
  <2>1. vm \in Object
    BY DEF SetupCommand, There, TypeOK, Name
  <2> QED BY <2>1, ProjectConstants DEF SetupCommand, Command, Put, There, TypeOK, Object, Name
<1>2. Made("provisioning") =>
         {up.root} \X {up.version} \X (1..(up.step - 1)) \subseteq vm.setup
  BY <1>1 DEF Progress
<1>3. Made("provisioning") => {up.root} \X {up.version} \X (1..((up.step + 1) - 1))
                                 \subseteq objects'["provisioning"].setup
  BY <1>1, <1>2, Another
<1>4. Progress'
  BY <1>1, <1>3 DEF Progress, Early, Made, There
<1>5. ProvisionedWhole'
  BY <1>1 DEF ProvisionedWhole, There, Name
<1> QED BY <1>4, <1>5

LEMMA MarkKeeps ==
    ASSUME TypeOK, Progress, ProvisionedWhole, MarkProvisioning \/ MarkSnapshot \/ MarkWork
    PROVE  Progress' /\ ProvisionedWhole'
<1>1. PICK n \in Name : Mark(n) /\ Unmarked(n)
  BY DEF MarkProvisioning, MarkSnapshot, MarkWork, Unmarked, Name
<1>2. /\ There(n) /\ objects'[n].root = up.root /\ objects'[n].setup = objects[n].setup
      /\ objects'[n].by = objects[n].by
      /\ \A m \in Name \ {n} : objects'[m] = objects[m]
  BY <1>1 DEF Mark, Put, There, TypeOK, Object
<1>3. /\ up' = up /\ up.root \in Root /\ up.version \in Version
      /\ \/ n = "provisioning" /\ pc = "mark" /\ pc' = "start"
         \/ n = "provisioned" /\ pc = "mark snapshot" /\ pc' = "finish"
         \/ n = "work" /\ pc = "mark work" /\ pc' = "start work"
  BY <1>1 DEF MarkProvisioning, MarkSnapshot, MarkWork, Unmarked, Goto, TypeOK
<1>4. Progress'
  BY <1>2, <1>3 DEF Progress, Made, There, Early, Name
<1>5. n # "provisioning" /\ objects[n].by = "up" =>
         \E v \in Version : Provisioned(up.root, v) \subseteq objects[n].setup
  BY <1>2, <1>3 DEF Progress, Made, SetUp
<1>6. ProvisionedWhole'
  BY <1>2, <1>3, <1>5 DEF ProvisionedWhole, There, Name
<1> QED BY <1>4, <1>6

LEMMA MakingKeeps ==
    ASSUME TypeOK, Owned, Progress, ProvisionedWhole,
           \/ CreateProvisioning \/ SaveSnapshot \/ CreateWork
           \/ CreateDies \/ DeleteDies \/ \E n \in Name : UserCreate(n)
    PROVE  Progress' /\ ProvisionedWhole'
<1>1. CASE CreateProvisioning
  <2>1. /\ \A n \in Name \ {"provisioning"} : objects'[n] = objects[n]
        /\ pc' = "mark" /\ up' = up /\ up.step = 1
    BY <1>1 DEF CreateProvisioning, Goto, Put, New, TypeOK, Name, Progress, Early
  <2>2. Progress'
    BY <2>1, NoneYet DEF Progress, Early, Made
  <2>3. ProvisionedWhole'
    BY <2>1 DEF ProvisionedWhole, There, Name
  <2> QED BY <2>2, <2>3
<1>2. CASE SaveSnapshot
  <2>1. objects["provisioning"] \in Object
    BY <1>2 DEF TypeOK, There, SaveSnapshot, Name
  <2>2. /\ objects'["provisioned"].setup = objects["provisioning"].setup
        /\ objects'["provisioned"].by = objects["provisioning"].by
        /\ objects'["provisioned"].root = None
        /\ objects'["work"] = objects["work"]
        /\ pc = "save" /\ pc' = "mark snapshot" /\ up' = up /\ There("provisioning")
    BY <1>2, <2>1 DEF SaveSnapshot, Goto, MadeFrom, New, TypeOK, Name, Object
  <2>3. objects["provisioning"].by = "up" =>
           Provisioned(up.root, up.version) \subseteq objects["provisioning"].setup
    BY <2>2, All DEF Progress, Made
  <2>4. Progress'
    BY <2>2, <2>3 DEF Progress, Early, SetUp, Made
  <2>5. ProvisionedWhole'
    BY <2>2, ProjectConstants DEF ProvisionedWhole, There
  <2> QED BY <2>4, <2>5
<1>3. CASE CreateWork
  <2>1. /\ objects'["work"].setup = objects["provisioned"].setup
        /\ objects'["work"].by = objects["provisioned"].by
        /\ objects'["work"].root = None
        /\ objects'["provisioned"] = objects["provisioned"]
        /\ pc = "work" /\ pc' = "mark work" /\ up' = up
    BY <1>3 DEF CreateWork, Goto, Put, MadeFrom, New, TypeOK, Name
  <2>2. objects["provisioned"].by = "up" => objects["provisioned"].root = up.root
    BY <1>3, <2>1 DEF CreateWork, Owned, Unmarked, TypeOK, Name
  <2>3. objects["provisioned"].by = "up" =>
           \E v \in Version : Provisioned(up.root, v) \subseteq objects["provisioned"].setup
    BY <1>3, <2>1, <2>2 DEF CreateWork, ProvisionedWhole, TypeOK
  <2>4. Progress'
    BY <2>1, <2>3 DEF Progress, Early, Made
  <2>5. ProvisionedWhole'
    BY <2>1, ProjectConstants DEF ProvisionedWhole, There
  <2> QED BY <2>4, <2>5
<1>4. ASSUME pc' = "idle", NEW n \in Name,
             There(n)' => ~objects'[n].whole,
             \A m \in Name \ {n} : objects'[m] = objects[m]
      PROVE  Progress' /\ ProvisionedWhole'
  <2>1. Progress'
    BY <1>4 DEF Progress, Early
  <2>2. ProvisionedWhole'
    BY <1>4 DEF ProvisionedWhole, There, Name
  <2> QED BY <2>1, <2>2
<1>5. CASE CreateDies
  BY <1>4, <1>5 DEF CreateDies, End, Leave, Put, New, TypeOK, Name, VMName
<1>6. CASE DeleteDies
  <2>1. PICK n \in Name, r \in {up.root, Unread} :
           There(n) /\ Put(n, [objects[n] EXCEPT !.root = r, !.whole = FALSE, !.on = FALSE])
    BY <1>6 DEF DeleteDies, Deleting, Name
  <2>2. pc' = "idle" /\ objects[n] \in Object
    BY <1>6, <2>1 DEF DeleteDies, End, Leave, TypeOK, There
  <2> QED BY <1>4, <2>1, <2>2 DEF Put, TypeOK, Object
<1>7. ASSUME NEW n \in Name, UserCreate(n) PROVE Progress' /\ ProvisionedWhole'
  <2>1. /\ UNCHANGED <<pc, up>>
        /\ \A m \in Name \ {n} : objects'[m] = objects[m]
    BY <1>7 DEF UserCreate, Put, TypeOK
  <2>2. objects'[n].by # "up"
    BY <1>7 DEF UserCreate, Put, New, TypeOK
  <2>3. Progress'
    BY <2>1, <2>2 DEF Progress, Made, SetUp, There, Name
  <2>4. ProvisionedWhole'
    BY <2>1, <2>2 DEF ProvisionedWhole, There, Name
  <2> QED BY <2>3, <2>4
<1> QED BY <1>1, <1>2, <1>3, <1>5, <1>6, <1>7

LEMMA ProvisioningKeeps ==
    ASSUME TypeOK, Owned, Progress, ProvisionedWhole, [Next]_vars
    PROVE  Progress' /\ ProvisionedWhole'
<1>1. CASE UNCHANGED vars
  BY <1>1 DEF vars, Progress, ProvisionedWhole, Made, SetUp, There
<1> QED BY <1>1, CalmKeeps, SetupKeeps, MarkKeeps, MakingKeeps
     DEF Next, UpStep, User, TameStep

LEMMA ProvisioningAlways == Spec => [](Progress /\ ProvisionedWhole)
<1>1. Init => Progress /\ ProvisionedWhole
  BY DEF Init, Progress, ProvisionedWhole, Made, There, Early, Name
<1> QED BY <1>1, ProvisioningKeeps, OwnedAlways, UpTypes, PTL DEF Spec

\* For any number of setup commands and whatever fails, dies, is edited, made by
\* hand or deleted: a snapshot or work VM that ups made and that carries a root has
\* seen all the commands of one version of that root's spind.yaml.
THEOREM NothingHalfProvisioned == Spec => []ProvisionedWhole
BY ProvisioningAlways, PTL

-----------------------------------------------------------------------------
(* --reprovision *)

\* A snapshot or a work VM that ups made and that stays keeps its setup commands.
KeptHere == \A n \in {"work", "provisioned"} :
                Made(n)' => Made(n) /\ objects[n].setup \subseteq objects'[n].setup

\* Where an up is between the deletion of the old snapshot and the new one.
NoSnapshot == {"image", "snapshot", "delete leftover", "create", "mark", "start",
               "setup", "save"}

LEMMA StayAnew ==
    ASSUME Anew, KeptHere, UNCHANGED <<pc, up>> \/ pc' \in {"idle", "validate"} PROVE Anew'
BY DEF Anew, KeptHere, Made, SetUp

LEMMA BeginAnew == ASSUME TypeOK, Anew, Validate \/ DeleteWork \/ DeleteSnapshot PROVE Anew'
<1>1. CASE Validate
  BY <1>1 DEF Validate, Goto, Anew, Made, There
<1>2. CASE DeleteWork
  BY <1>2 DEF DeleteWork, Goto, Put, Anew, Made, There, TypeOK, Name
<1>3. CASE DeleteSnapshot
  BY <1>3 DEF DeleteSnapshot, Goto, Put, Anew, Made, There, TypeOK, Name
<1> QED BY <1>1, <1>2, <1>3

LEMMA BeforeAnew ==
    ASSUME TypeOK, Anew,
           \/ BuildImage \/ FindSnapshot \/ DeleteLeftover \/ CreateProvisioning
           \/ MarkProvisioning \/ StartProvisioning \/ SetupCommand \/ SetupDone
    PROVE  Anew'
<1>1. /\ pc \in NoSnapshot /\ pc' \in NoSnapshot \cup {"work"}
      /\ up'.reprovision = up.reprovision
      /\ \A n \in {"work", "provisioned"} : objects'[n] = objects[n]
  BY DEF BuildImage, FindSnapshot, DeleteLeftover, CreateProvisioning, MarkProvisioning,
     StartProvisioning, SetupCommand, SetupDone, Goto, Put, Mark, Start, NoSnapshot,
     TypeOK, Name
<1> QED BY <1>1 DEF Anew, NoSnapshot, Made, There

LEMMA SaveAnew ==
    ASSUME TypeOK, Progress, Anew,
           SaveSnapshot \/ MarkSnapshot \/ FinishProvisioning \/ FindWork \/ CreateWork \/ MarkWork
    PROVE  Anew'
<1>1. CASE SaveSnapshot
  <2>1. objects["provisioning"] \in Object
    BY <1>1 DEF TypeOK, There, SaveSnapshot, Name
  <2>2. /\ objects'["provisioned"].setup = objects["provisioning"].setup
        /\ objects'["provisioned"].by = objects["provisioning"].by
        /\ objects'["work"] = objects["work"]
        /\ pc = "save" /\ pc' = "mark snapshot" /\ up' = up /\ There("provisioning")
    BY <1>1, <2>1 DEF SaveSnapshot, Goto, MadeFrom, New, TypeOK, Name, Object
  <2>3. objects["provisioning"].by = "up" =>
           Provisioned(up.root, up.version) \subseteq objects["provisioning"].setup
    BY <2>2, All DEF Progress, Made
  <2> QED BY <2>2, <2>3 DEF Anew, Made, SetUp, There
<1>2. CASE MarkSnapshot
  <2>1. There("provisioned") /\ objects["provisioned"] \in Object
    BY <1>2 DEF MarkSnapshot, Mark, There, TypeOK, Name
  <2> QED BY <1>2, <2>1 DEF MarkSnapshot, Mark, Put, Goto, Anew, Made, SetUp, There, TypeOK, Name,
            Object
<1>3. CASE FinishProvisioning
  BY <1>3 DEF FinishProvisioning, Put, Goto, Anew, Made, SetUp, There, TypeOK, Name
<1>4. CASE FindWork
  BY <1>4 DEF FindWork, Goto, Anew, Made, There
<1>5. CASE CreateWork
  BY <1>5 DEF CreateWork, Put, MadeFrom, New, Goto, Anew, Made, SetUp, There, TypeOK, Name
<1>6. CASE MarkWork
  <2>1. There("work") /\ objects["work"] \in Object
    BY <1>6 DEF MarkWork, Mark, There, TypeOK, Name
  <2> QED BY <1>6, <2>1 DEF MarkWork, Mark, Put, Goto, Anew, Made, SetUp, There, TypeOK, Name,
            Object
<1> QED BY <1>1, <1>2, <1>3, <1>4, <1>5, <1>6

LEMMA RestAnew ==
    ASSUME TypeOK, Anew,
           \/ UpFail \/ SaveLost \/ StartWork \/ CreateDies \/ DeleteDies \/ StrayCommand \/ User
           \/ \E r \in Root, b \in BOOLEAN : UpBegin(r, b)
    PROVE  Anew'
<1>1. ASSUME TameStep, UNCHANGED <<pc, up>> \/ pc' \in {"idle", "validate"}
      PROVE  Anew'
  <2>1. KeptHere
    BY <1>1, KeptSteps DEF Kept, KeptHere, Made, Name, There
  <2> QED BY <1>1, <2>1, StayAnew
<1>2. CASE CreateDies \/ DeleteDies
  BY <1>2 DEF CreateDies, DeleteDies, End, Leave, Anew
<1>5. ASSUME NEW n \in Name, UserCreate(n) PROVE Anew'
  <2>1. UNCHANGED <<pc, up>> /\ KeptHere
    BY <1>5 DEF UserCreate, KeptHere, Made, There, Put, New, TypeOK, Name
  <2> QED BY <2>1, StayAnew
<1>3. CASE UpFail \/ SaveLost \/ StartWork \/ \E r \in Root, b \in BOOLEAN : UpBegin(r, b)
  BY <1>1, <1>3 DEF TameStep, UpFail, SaveLost, StartWork, UpBegin, End, Leave
<1>4. CASE \/ \E r \in Root : UserEdit(r)
           \/ (\E n \in Name : UserDelete(n)) \/ UserDeleteImage \/ StrayCommand
           \/ \E n \in VMName : VMStarts(n) \/ VMStops(n)
  <2>1. UNCHANGED <<pc, up>>
    BY <1>4 DEF UserEdit, UserDelete, UserDeleteImage, StrayCommand, VMStarts, VMStops
  <2> QED BY <1>1, <1>4, <2>1 DEF TameStep
<1> QED BY <1>2, <1>3, <1>4, <1>5 DEF User

LEMMA KeepsAnew == ASSUME TypeOK, Progress, Anew, [Next]_vars PROVE Anew'
<1>1. CASE UNCHANGED vars
  BY <1>1 DEF vars, Anew, Made, SetUp, There
<1> QED BY <1>1, BeginAnew, BeforeAnew, SaveAnew, RestAnew DEF Next, UpStep

\* An up --reprovision starts a work VM made with the spind.yaml that it read,
\* whatever was there before and whatever the user deletes meanwhile, unless the
\* user has put a VM or a snapshot of their own in its place while it ran.
THEOREM ReprovisioningStartsOver == Spec => []ReprovisionIsFresh
<1>1. Init => Anew
  BY DEF Init, NoUp, Anew
<1>2. Anew => ReprovisionIsFresh
  BY DEF Anew, ReprovisionIsFresh, Made, SetUp
<1> QED BY <1>1, <1>2, KeepsAnew, ProvisioningAlways, UpTypes, PTL DEF Spec
=============================================================================
