--------------------------- MODULE DoInstallProofs ---------------------------
(***************************************************************************)
(* Proofs about do_install, for an archive and a pipe of any size.         *)
(*                                                                         *)
(* The properties hold because of where the installer is: Place says what  *)
(* may be mounted and which child may live at each step, Made what has     *)
(* been done by then if nothing has failed.                                *)
(***************************************************************************)
EXTENDS DoInstall, TLAPS

Filling == {"fill", "pipe", "wait 1", "wait 2", "umount"}
Ended   == {"complete", "reboot"}

Place ==
  /\ step \in {"tag", "format", "mount"} \cup Filling => loop = part
  /\ mnt # None => step \in Filling /\ mnt = part
  /\ step = "tag" => part \in {"boot", "root"}
  /\ step = "fill" => part \in {"efi", "boot"}
  /\ step \in {"pipe", "wait 1", "wait 2"} \cup Ended => part = "root"
  /\ step \in {"open", "returned"} => part = "efi"

Children ==
  /\ ~(part = "root" /\ step \in {"wait 1", "wait 2", "umount"} \cup Ended) => cpio = "none" /\ xz = "none"
  /\ step \notin {"wait 1", "wait 2"} => NoChild
  /\ step = "wait 2" => {cpio, xz} \cap {"none", "reaped"} # {}

\* The steps at which mkfs, the id and the contents of a partition are done.
Later(p)     == \/ p = "efi" /\ part \in {"boot", "root"}
                \/ p = "boot" /\ part = "root"
Past(p, S)   == Later(p) \/ (part = p /\ step \in S)
HasFormat(p) == Past(p, {"mount"} \cup Filling \cup Ended)
HasTag(p)    == Past(p, {"format", "mount"} \cup Filling \cup Ended)
HasFiles(p)  == Past(p, {"umount"} \cup Ended)

Made ==
  ~failed =>
    /\ \A p \in Parts : HasFormat(p) => formatted[p]
    /\ HasTag("boot") => tag["boot"] = "bootid"
    /\ HasTag("root") => tag["root"] = "rootid"
    /\ step \in Filling => mnt = part
    /\ HasFiles("efi") => files["efi"] = Belongs["efi"]
    /\ HasFiles("boot") => /\ files["boot"] = Belongs["boot"]
                           /\ packed = {"init", "rootid"}
    /\ part = "root" /\ step \in {"wait 1", "wait 2", "umount"} \cup Ended => cpio # "none"
    /\ cpio \in {"exited", "reaped"} => files["root"] = Belongs["root"]

FilesOK == files \in [Parts -> SUBSET {"loader", "vmlinuz", "boot.conf", "initramfs", "system"}]

InstallInv ==
  /\ TypeOK /\ FilesOK
  /\ Place /\ Children /\ InPlace /\ Made

-----------------------------------------------------------------------------
(***************************************************************************)
(* The steps.                                                              *)
(***************************************************************************)
LEMMA OpenStep ==
  ASSUME InstallInv, Open
  PROVE  InstallInv'
<1> USE DEF InstallInv, Open, At, GoTo, Succeeds, Fails, partVars, childVars
<1>1. TypeOK'
  BY DoInstallAssumption DEF TypeOK, Place, Parts, None, Ids, Child
<1>6. FilesOK'
  BY DEF TypeOK, FilesOK, Parts, None
<1>2. Place'
  BY DEF TypeOK, Place, Filling, Ended, Parts, None
<1>3. Children'
  BY DEF TypeOK, Place, Children, NoChild, Child, Filling, Ended
<1>4. InPlace'
  BY DEF TypeOK, FilesOK, Place, InPlace, Filling, Ended, Parts, None, Belongs
<1>5. Made'
  BY DEF TypeOK, FilesOK, Place, Children, NoChild, Made, HasFormat, HasTag, HasFiles, Past, Later, Filling,
         Ended, Parts, None, Child, Belongs
<1> QED
  BY <1>1, <1>2, <1>3, <1>4, <1>5, <1>6

LEMMA SetLoopStep ==
  ASSUME InstallInv, SetLoop
  PROVE  InstallInv'
<1> USE DEF InstallInv, SetLoop, GoTo, Succeeds, partVars, childVars
<1>1. TypeOK'
  BY DoInstallAssumption DEF TypeOK, Place, Parts, None, Ids, Child
<1>6. FilesOK'
  BY DEF TypeOK, FilesOK, Parts, None
<1>2. Place'
  BY DEF TypeOK, Place, Filling, Ended, Parts, None
<1>3. Children'
  BY DEF TypeOK, Place, Children, NoChild, Child, Filling, Ended
<1>4. InPlace'
  BY DEF TypeOK, FilesOK, Place, InPlace, Filling, Ended, Parts, None, Belongs
<1>5. Made'
  BY DEF TypeOK, FilesOK, Place, Children, NoChild, Made, HasFormat, HasTag, HasFiles, Past, Later, Filling,
         Ended, Parts, None, Child, Belongs
<1> QED
  BY <1>1, <1>2, <1>3, <1>4, <1>5, <1>6

LEMMA TagStep ==
  ASSUME InstallInv, Tag
  PROVE  InstallInv'
<1> USE DEF InstallInv, Tag, Id, GoTo, Succeeds, Fails, childVars
<1>1. TypeOK'
  <2>1. loop \in Parts /\ loop = part /\ pos' \in {0, 16} /\ Id \in Ids
    BY DEF TypeOK, Place, Filling, Parts, Id, Ids
  <2>2. tag' \in [Parts -> Ids \cup {None}] /\ formatted' \in [Parts -> BOOLEAN]
    BY <2>1 DEF TypeOK
  <2>3. QED
    BY <2>1, <2>2 DEF TypeOK, Child
<1>6. FilesOK'
  BY DEF TypeOK, FilesOK, Parts, None
<1>2. Place'
  BY DEF TypeOK, Place, Filling, Ended, Parts, None
<1>3. Children'
  BY DEF TypeOK, Place, Children, NoChild, Child, Filling, Ended
<1>4. InPlace'
  BY DEF TypeOK, FilesOK, Place, InPlace, Filling, Ended, Parts, None, Belongs
<1>5. Made'
  BY DEF TypeOK, FilesOK, Place, Children, NoChild, Made, HasFormat, HasTag, HasFiles, Past, Later, Filling,
         Ended, Parts, None, Child, Belongs
<1> QED
  BY <1>1, <1>2, <1>3, <1>4, <1>5, <1>6

LEMMA FormatStep ==
  ASSUME InstallInv, Format
  PROVE  InstallInv'
<1> USE DEF InstallInv, Format, GoTo, Succeeds, Fails, loopVars, childVars
<1>1. TypeOK'
  <2>1. loop \in Parts /\ loop = part /\ pos' \in {0, 16} /\ Id \in Ids
    BY DEF TypeOK, Place, Filling, Parts, Id, Ids
  <2>2. tag' \in [Parts -> Ids \cup {None}] /\ formatted' \in [Parts -> BOOLEAN]
    BY <2>1 DEF TypeOK
  <2>3. QED
    BY <2>1, <2>2 DEF TypeOK, Child
<1>6. FilesOK'
  BY DEF TypeOK, FilesOK, Parts, None
<1>2. Place'
  BY DEF TypeOK, Place, Filling, Ended, Parts, None
<1>3. Children'
  BY DEF TypeOK, Place, Children, NoChild, Child, Filling, Ended
<1>4. InPlace'
  BY DEF TypeOK, FilesOK, Place, InPlace, Filling, Ended, Parts, None, Belongs
<1>5. Made'
  <2> SUFFICES ASSUME ~failed' PROVE Made'
    BY DEF Made
  <2>1. \A p \in Parts : HasFormat(p)' => formatted'[p]
    BY DEF TypeOK, FilesOK, Place, Children, NoChild, InPlace, Made, HasFormat, HasTag, HasFiles, Past,
           Later, Filling, Ended, Parts, None, Child, Belongs
  <2>2. HasTag("boot")' => tag'["boot"] = "bootid"
    BY DEF TypeOK, FilesOK, Place, Children, NoChild, InPlace, Made, HasFormat, HasTag, HasFiles, Past,
           Later, Filling, Ended, Parts, None, Child, Belongs
  <2>3. HasTag("root")' => tag'["root"] = "rootid"
    BY DEF TypeOK, FilesOK, Place, Children, NoChild, InPlace, Made, HasFormat, HasTag, HasFiles, Past,
           Later, Filling, Ended, Parts, None, Child, Belongs
  <2>4. step' \in Filling => mnt' = part'
    BY DEF TypeOK, FilesOK, Place, Children, NoChild, InPlace, Made, HasFormat, HasTag, HasFiles, Past,
           Later, Filling, Ended, Parts, None, Child, Belongs
  <2>5. HasFiles("efi")' => files'["efi"] = Belongs["efi"]
    BY DEF TypeOK, FilesOK, Place, Children, NoChild, InPlace, Made, HasFormat, HasTag, HasFiles, Past,
           Later, Filling, Ended, Parts, None, Child, Belongs
  <2>6. HasFiles("boot")' => /\ files'["boot"] = Belongs["boot"]
                            /\ packed' = {"init", "rootid"}
    BY DEF TypeOK, FilesOK, Place, Children, NoChild, InPlace, Made, HasFormat, HasTag, HasFiles, Past,
           Later, Filling, Ended, Parts, None, Child, Belongs
  <2>7. part' = "root" /\ step' \in {"wait 1", "wait 2", "umount"} \cup Ended => cpio' # "none"
    BY DEF TypeOK, FilesOK, Place, Children, NoChild, InPlace, Made, HasFormat, HasTag, HasFiles, Past,
           Later, Filling, Ended, Parts, None, Child, Belongs
  <2>8. cpio' \in {"exited", "reaped"} => files'["root"] = Belongs["root"]
    <3>1. cpio' = "none"
      BY DEF Children, Ended
    <3>2. QED
      BY <3>1
  <2>9. QED
    BY <2>1, <2>2, <2>3, <2>4, <2>5, <2>6, <2>7, <2>8 DEF Made, HasFormat, HasTag, HasFiles, Past, Later
<1> QED
  BY <1>1, <1>2, <1>3, <1>4, <1>5, <1>6

LEMMA MountStep ==
  ASSUME InstallInv, Mount
  PROVE  InstallInv'
<1> USE DEF InstallInv, Mount, GoTo, Succeeds, Fails, loopVars, partVars, childVars
<1>1. TypeOK'
  BY DoInstallAssumption DEF TypeOK, Place, Parts, None, Ids, Child
<1>6. FilesOK'
  BY DEF TypeOK, FilesOK, Parts, None
<1>2. Place'
  BY DEF TypeOK, Place, Filling, Ended, Parts, None
<1>3. Children'
  BY DEF TypeOK, Place, Children, NoChild, Child, Filling, Ended
<1>4. InPlace'
  BY DEF TypeOK, FilesOK, Place, InPlace, Filling, Ended, Parts, None, Belongs
<1>5. Made'
  BY DEF TypeOK, FilesOK, Place, Children, NoChild, Made, HasFormat, HasTag, HasFiles, Past, Later, Filling,
         Ended, Parts, None, Child, Belongs
<1> QED
  BY <1>1, <1>2, <1>3, <1>4, <1>5, <1>6

LEMMA FillEfiStep ==
  ASSUME InstallInv, FillEfi
  PROVE  InstallInv'
<1> USE DEF InstallInv, FillEfi, At, GoTo, PutAll, Succeeds, Fails, loopVars, childVars
<1>1. TypeOK'
  BY DoInstallAssumption DEF TypeOK, Place, Parts, None, Ids, Child
<1>6. FilesOK'
  BY DEF TypeOK, FilesOK, Parts, None
<1>2. Place'
  BY DEF TypeOK, Place, Filling, Ended, Parts, None
<1>3. Children'
  BY DEF TypeOK, Place, Children, NoChild, Child, Filling, Ended
<1>4. InPlace'
  BY DEF TypeOK, FilesOK, Place, InPlace, Filling, Ended, Parts, None, Belongs
<1>5. Made'
  <2> SUFFICES ASSUME ~failed' PROVE Made'
    BY DEF Made
  <2>1. \A p \in Parts : HasFormat(p)' => formatted'[p]
    BY DEF TypeOK, FilesOK, Place, Children, NoChild, InPlace, Made, HasFormat, HasTag, HasFiles, Past,
           Later, Filling, Ended, Parts, None, Child, Belongs
  <2>2. HasTag("boot")' => tag'["boot"] = "bootid"
    BY DEF TypeOK, FilesOK, Place, Children, NoChild, InPlace, Made, HasFormat, HasTag, HasFiles, Past,
           Later, Filling, Ended, Parts, None, Child, Belongs
  <2>3. HasTag("root")' => tag'["root"] = "rootid"
    BY DEF TypeOK, FilesOK, Place, Children, NoChild, InPlace, Made, HasFormat, HasTag, HasFiles, Past,
           Later, Filling, Ended, Parts, None, Child, Belongs
  <2>4. step' \in Filling => mnt' = part'
    BY DEF TypeOK, FilesOK, Place, Children, NoChild, InPlace, Made, HasFormat, HasTag, HasFiles, Past,
           Later, Filling, Ended, Parts, None, Child, Belongs
  <2>5. HasFiles("efi")' => files'["efi"] = Belongs["efi"]
    BY DEF TypeOK, FilesOK, Place, Children, NoChild, InPlace, Made, HasFormat, HasTag, HasFiles, Past,
           Later, Filling, Ended, Parts, None, Child, Belongs
  <2>6. HasFiles("boot")' => /\ files'["boot"] = Belongs["boot"]
                            /\ packed' = {"init", "rootid"}
    BY DEF TypeOK, FilesOK, Place, Children, NoChild, InPlace, Made, HasFormat, HasTag, HasFiles, Past,
           Later, Filling, Ended, Parts, None, Child, Belongs
  <2>7. part' = "root" /\ step' \in {"wait 1", "wait 2", "umount"} \cup Ended => cpio' # "none"
    BY DEF TypeOK, FilesOK, Place, Children, NoChild, InPlace, Made, HasFormat, HasTag, HasFiles, Past,
           Later, Filling, Ended, Parts, None, Child, Belongs
  <2>8. cpio' \in {"exited", "reaped"} => files'["root"] = Belongs["root"]
    BY DEF TypeOK, FilesOK, Place, Children, NoChild, InPlace, Made, HasFormat, HasTag, HasFiles, Past,
           Later, Filling, Ended, Parts, None, Child, Belongs
  <2>9. QED
    BY <2>1, <2>2, <2>3, <2>4, <2>5, <2>6, <2>7, <2>8 DEF Made, HasFormat, HasTag, HasFiles, Past, Later
<1> QED
  BY <1>1, <1>2, <1>3, <1>4, <1>5, <1>6

LEMMA FillBootStep ==
  ASSUME InstallInv, FillBoot
  PROVE  InstallInv'
<1> USE DEF InstallInv, FillBoot, At, GoTo, PutAll, loopVars, childVars
<1>1. TypeOK'
  BY DoInstallAssumption DEF TypeOK, Place, Parts, None, Ids, Child
<1>6. FilesOK'
  BY DEF TypeOK, FilesOK, Parts, None
<1>2. Place'
  BY DEF TypeOK, Place, Filling, Ended, Parts, None
<1>3. Children'
  BY DEF TypeOK, Place, Children, NoChild, Child, Filling, Ended
<1>4. InPlace'
  BY DEF TypeOK, FilesOK, Place, InPlace, Filling, Ended, Parts, None, Belongs
<1>5. Made'
  <2> SUFFICES ASSUME ~failed' PROVE Made'
    BY DEF Made
  <2>1. \A p \in Parts : HasFormat(p)' => formatted'[p]
    BY DEF TypeOK, FilesOK, Place, Children, NoChild, InPlace, Made, HasFormat, HasTag, HasFiles, Past,
           Later, Filling, Ended, Parts, None, Child, Belongs
  <2>2. HasTag("boot")' => tag'["boot"] = "bootid"
    BY DEF TypeOK, FilesOK, Place, Children, NoChild, InPlace, Made, HasFormat, HasTag, HasFiles, Past,
           Later, Filling, Ended, Parts, None, Child, Belongs
  <2>3. HasTag("root")' => tag'["root"] = "rootid"
    BY DEF TypeOK, FilesOK, Place, Children, NoChild, InPlace, Made, HasFormat, HasTag, HasFiles, Past,
           Later, Filling, Ended, Parts, None, Child, Belongs
  <2>4. step' \in Filling => mnt' = part'
    BY DEF TypeOK, FilesOK, Place, Children, NoChild, InPlace, Made, HasFormat, HasTag, HasFiles, Past,
           Later, Filling, Ended, Parts, None, Child, Belongs
  <2>5. HasFiles("efi")' => files'["efi"] = Belongs["efi"]
    BY DEF TypeOK, FilesOK, Place, Children, NoChild, InPlace, Made, HasFormat, HasTag, HasFiles, Past,
           Later, Filling, Ended, Parts, None, Child, Belongs
  <2>6. HasFiles("boot")' => /\ files'["boot"] = Belongs["boot"]
                            /\ packed' = {"init", "rootid"}
    BY DEF TypeOK, FilesOK, Place, Children, NoChild, InPlace, Made, HasFormat, HasTag, HasFiles, Past,
           Later, Filling, Ended, Parts, None, Child, Belongs
  <2>7. part' = "root" /\ step' \in {"wait 1", "wait 2", "umount"} \cup Ended => cpio' # "none"
    BY DEF TypeOK, FilesOK, Place, Children, NoChild, InPlace, Made, HasFormat, HasTag, HasFiles, Past,
           Later, Filling, Ended, Parts, None, Child, Belongs
  <2>8. cpio' \in {"exited", "reaped"} => files'["root"] = Belongs["root"]
    BY DEF TypeOK, FilesOK, Place, Children, NoChild, InPlace, Made, HasFormat, HasTag, HasFiles, Past,
           Later, Filling, Ended, Parts, None, Child, Belongs
  <2>9. QED
    BY <2>1, <2>2, <2>3, <2>4, <2>5, <2>6, <2>7, <2>8 DEF Made, HasFormat, HasTag, HasFiles, Past, Later
<1> QED
  BY <1>1, <1>2, <1>3, <1>4, <1>5, <1>6

LEMMA StartPipeStep ==
  ASSUME InstallInv, StartPipe
  PROVE  InstallInv'
<1> USE DEF InstallInv, StartPipe, At, GoTo, Succeeds, Fails, loopVars, partVars
<1>1. TypeOK'
  BY DoInstallAssumption DEF TypeOK, Place, Parts, None, Ids, Child
<1>6. FilesOK'
  BY DEF TypeOK, FilesOK, Parts, None
<1>2. Place'
  BY DEF TypeOK, Place, Filling, Ended, Parts, None
<1>3. Children'
  BY DEF TypeOK, Place, Children, NoChild, Child, Filling, Ended
<1>4. InPlace'
  BY DEF TypeOK, FilesOK, Place, InPlace, Filling, Ended, Parts, None, Belongs
<1>5. Made'
  BY DEF TypeOK, FilesOK, Place, Children, NoChild, Made, HasFormat, HasTag, HasFiles, Past, Later, Filling,
         Ended, Parts, None, Child, Belongs
<1> QED
  BY <1>1, <1>2, <1>3, <1>4, <1>5, <1>6

LEMMA XzWriteStep ==
  ASSUME InstallInv, XzWrite
  PROVE  InstallInv'
<1> USE DEF InstallInv, XzWrite, loopVars, partVars
<1>1. TypeOK'
  <2>1. pipe' \in 0 .. Capacity /\ sent' \in 0 .. Archive + Padding /\ got' \in 0 .. Archive
    <3>1. Capacity \in Nat /\ Archive \in Nat /\ Archive + Padding \in Nat
      BY DoInstallAssumption
    <3>2. pipe \in 0 .. Capacity /\ sent \in 0 .. Archive + Padding /\ got \in 0 .. Archive
      BY DEF TypeOK
    <3>3. QED
      BY <3>1, <3>2
  <2>2. QED
    BY <2>1 DEF TypeOK, Child
<1>6. FilesOK'
  BY DEF TypeOK, FilesOK, Parts, None
<1>2. Place'
  BY DEF TypeOK, Place, Filling, Ended, Parts, None
<1>3. Children'
  BY DEF TypeOK, Place, Children, NoChild, Child, Filling, Ended
<1>4. InPlace'
  BY DEF TypeOK, FilesOK, Place, InPlace, Filling, Ended, Parts, None, Belongs
<1>5. Made'
  BY DEF TypeOK, FilesOK, Place, Children, NoChild, Made, HasFormat, HasTag, HasFiles, Past, Later, Filling,
         Ended, Parts, None, Child, Belongs
<1> QED
  BY <1>1, <1>2, <1>3, <1>4, <1>5, <1>6

LEMMA XzEndStep ==
  ASSUME InstallInv, XzEnd
  PROVE  InstallInv'
<1> USE DEF InstallInv, XzEnd, Succeeds, Fails, loopVars, partVars
<1>1. TypeOK'
  <2>1. pipe' \in 0 .. Capacity /\ sent' \in 0 .. Archive + Padding /\ got' \in 0 .. Archive
    BY DoInstallAssumption DEF TypeOK
  <2>2. QED
    BY <2>1 DEF TypeOK, Child
<1>6. FilesOK'
  BY DEF TypeOK, FilesOK, Parts, None
<1>2. Place'
  BY DEF TypeOK, Place, Filling, Ended, Parts, None
<1>3. Children'
  BY DEF TypeOK, Place, Children, NoChild, Child, Filling, Ended
<1>4. InPlace'
  BY DEF TypeOK, FilesOK, Place, InPlace, Filling, Ended, Parts, None, Belongs
<1>5. Made'
  BY DEF TypeOK, FilesOK, Place, Children, NoChild, Made, HasFormat, HasTag, HasFiles, Past, Later, Filling,
         Ended, Parts, None, Child, Belongs
<1> QED
  BY <1>1, <1>2, <1>3, <1>4, <1>5, <1>6

LEMMA CpioReadStep ==
  ASSUME InstallInv, CpioRead
  PROVE  InstallInv'
<1> USE DEF InstallInv, CpioRead, loopVars, partVars
<1>1. TypeOK'
  <2>1. pipe' \in 0 .. Capacity /\ sent' \in 0 .. Archive + Padding /\ got' \in 0 .. Archive
    <3>1. Capacity \in Nat /\ Archive \in Nat /\ Archive + Padding \in Nat
      BY DoInstallAssumption
    <3>2. pipe \in 0 .. Capacity /\ sent \in 0 .. Archive + Padding /\ got \in 0 .. Archive
      BY DEF TypeOK
    <3>3. QED
      BY <3>1, <3>2
  <2>2. QED
    BY <2>1 DEF TypeOK, Child
<1>6. FilesOK'
  BY DEF TypeOK, FilesOK, Parts, None
<1>2. Place'
  BY DEF TypeOK, Place, Filling, Ended, Parts, None
<1>3. Children'
  BY DEF TypeOK, Place, Children, NoChild, Child, Filling, Ended
<1>4. InPlace'
  BY DEF TypeOK, FilesOK, Place, InPlace, Filling, Ended, Parts, None, Belongs
<1>5. Made'
  BY DEF TypeOK, FilesOK, Place, Children, NoChild, Made, HasFormat, HasTag, HasFiles, Past, Later, Filling,
         Ended, Parts, None, Child, Belongs
<1> QED
  BY <1>1, <1>2, <1>3, <1>4, <1>5, <1>6

LEMMA CpioEndStep ==
  ASSUME InstallInv, CpioEnd
  PROVE  InstallInv'
<1> USE DEF InstallInv, CpioEnd, PutAll, Succeeds, Fails, loopVars
<1>1. TypeOK'
  <2>1. pipe' \in 0 .. Capacity /\ sent' \in 0 .. Archive + Padding /\ got' \in 0 .. Archive
    BY DoInstallAssumption DEF TypeOK
  <2>2. QED
    BY <2>1 DEF TypeOK, Child
<1>6. FilesOK'
  <2>1. mnt = None \/ mnt \in Parts
    BY DEF TypeOK
  <2>2. QED
    BY <2>1 DEF FilesOK, Parts
<1>2. Place'
  BY DEF TypeOK, Place, Filling, Ended, Parts, None
<1>3. Children'
  BY DEF TypeOK, Place, Children, NoChild, Child, Filling, Ended
<1> DEFINE put == /\ mnt = "root"
                  /\ files' = [files EXCEPT !["root"] = @ \cup {"system"}]
<1>7. part = "root" /\ step \in {"wait 1", "wait 2"} /\ mnt \in {None, "root"}
  BY DEF TypeOK, Place, Children, NoChild, Filling, Ended
<1>8. /\ \/ files' = files
         \/ put
      /\ ~failed' => put
  BY <1>7 DEF Made, Filling, None
<1>9. \A p \in Parts : \/ files'[p] = files[p]
                       \/ put /\ p = "root" /\ files'[p] = files[p] \cup {"system"}
  BY <1>8 DEF FilesOK, Parts
<1>4. InPlace'
  BY <1>9 DEF InPlace, Belongs, Parts
<1>5. Made'
  <2> SUFFICES ASSUME ~failed' PROVE Made'
    BY DEF Made
  <2>1. \A p \in Parts : HasFormat(p)' => formatted'[p]
    BY DEF TypeOK, FilesOK, Place, Children, NoChild, InPlace, Made, HasFormat, HasTag, HasFiles, Past,
           Later, Filling, Ended, Parts, None, Child, Belongs
  <2>2. HasTag("boot")' => tag'["boot"] = "bootid"
    BY DEF TypeOK, FilesOK, Place, Children, NoChild, InPlace, Made, HasFormat, HasTag, HasFiles, Past,
           Later, Filling, Ended, Parts, None, Child, Belongs
  <2>3. HasTag("root")' => tag'["root"] = "rootid"
    BY DEF TypeOK, FilesOK, Place, Children, NoChild, InPlace, Made, HasFormat, HasTag, HasFiles, Past,
           Later, Filling, Ended, Parts, None, Child, Belongs
  <2>4. step' \in Filling => mnt' = part'
    BY DEF TypeOK, FilesOK, Place, Children, NoChild, InPlace, Made, HasFormat, HasTag, HasFiles, Past,
           Later, Filling, Ended, Parts, None, Child, Belongs
  <2>5. HasFiles("efi")' => files'["efi"] = Belongs["efi"]
    BY <1>7, <1>9 DEF Made, HasFiles, Past, Later, Parts
  <2>6. HasFiles("boot")' => /\ files'["boot"] = Belongs["boot"]
                            /\ packed' = {"init", "rootid"}
    BY <1>7, <1>9 DEF Made, HasFiles, Past, Later, Parts
  <2>7. part' = "root" /\ step' \in {"wait 1", "wait 2", "umount"} \cup Ended => cpio' # "none"
    BY DEF TypeOK, FilesOK, Place, Children, NoChild, InPlace, Made, HasFormat, HasTag, HasFiles, Past,
           Later, Filling, Ended, Parts, None, Child, Belongs
  <2>8. files'["root"] = Belongs["root"]
    <3>1. put /\ files["root"] \subseteq {"system"}
      BY <1>8 DEF InPlace, Belongs, Parts
    <3>2. files'["root"] = files["root"] \cup {"system"}
      BY <3>1 DEF FilesOK, Parts
    <3>3. QED
      BY <3>1, <3>2 DEF Belongs
  <2>9. QED
    BY <2>1, <2>2, <2>3, <2>4, <2>5, <2>6, <2>7, <2>8 DEF Made, HasFormat, HasTag, HasFiles, Past, Later
<1> QED
  BY <1>1, <1>2, <1>3, <1>4, <1>5, <1>6

LEMMA WaitStep ==
  ASSUME InstallInv, Wait
  PROVE  InstallInv'
<1> USE DEF InstallInv, Wait, Reap, NoChild, GoTo, loopVars, partVars
<1>1. TypeOK'
  BY DoInstallAssumption DEF TypeOK, Place, Parts, None, Ids, Child
<1>6. FilesOK'
  BY DEF TypeOK, FilesOK, Parts, None
<1>2. Place'
  BY DEF TypeOK, Place, Filling, Ended, Parts, None
<1>3. Children'
  BY DEF TypeOK, Place, Children, NoChild, Child, Filling, Ended
<1>4. InPlace'
  BY DEF TypeOK, FilesOK, Place, InPlace, Filling, Ended, Parts, None, Belongs
<1>5. Made'
  BY DEF TypeOK, FilesOK, Place, Children, NoChild, Made, HasFormat, HasTag, HasFiles, Past, Later, Filling,
         Ended, Parts, None, Child, Belongs
<1> QED
  BY <1>1, <1>2, <1>3, <1>4, <1>5, <1>6

LEMMA UmountStep ==
  ASSUME InstallInv, Umount
  PROVE  InstallInv'
<1> USE DEF InstallInv, Umount, NextPart, GoTo, loopVars, partVars, childVars
<1>1. TypeOK'
  BY DoInstallAssumption DEF TypeOK, Place, Parts, None, Ids, Child
<1>6. FilesOK'
  BY DEF TypeOK, FilesOK, Parts, None
<1>2. Place'
  BY DEF TypeOK, Place, Filling, Ended, Parts, None
<1>3. Children'
  BY DEF TypeOK, Place, Children, NoChild, Child, Filling, Ended
<1>4. InPlace'
  BY DEF TypeOK, FilesOK, Place, InPlace, Filling, Ended, Parts, None, Belongs
<1>5. Made'
  BY DEF TypeOK, FilesOK, Place, Children, NoChild, Made, HasFormat, HasTag, HasFiles, Past, Later, Filling,
         Ended, Parts, None, Child, Belongs
<1> QED
  BY <1>1, <1>2, <1>3, <1>4, <1>5, <1>6

LEMMA RebootStep ==
  ASSUME InstallInv, Reboot
  PROVE  InstallInv'
<1> USE DEF InstallInv, Reboot, At, GoTo, loopVars, partVars, childVars
<1>1. TypeOK'
  BY DoInstallAssumption DEF TypeOK, Place, Parts, None, Ids, Child
<1>6. FilesOK'
  BY DEF TypeOK, FilesOK, Parts, None
<1>2. Place'
  BY DEF TypeOK, Place, Filling, Ended, Parts, None
<1>3. Children'
  BY DEF TypeOK, Place, Children, NoChild, Child, Filling, Ended
<1>4. InPlace'
  BY DEF TypeOK, FilesOK, Place, InPlace, Filling, Ended, Parts, None, Belongs
<1>5. Made'
  BY DEF TypeOK, FilesOK, Place, Children, NoChild, Made, HasFormat, HasTag, HasFiles, Past, Later, Filling,
         Ended, Parts, None, Child, Belongs
<1> QED
  BY <1>1, <1>2, <1>3, <1>4, <1>5, <1>6

LEMMA InstallInvCorrect == Spec => []InstallInv
<1>1. Init => InstallInv
  <2> SUFFICES ASSUME Init PROVE InstallInv
    OBVIOUS
  <2> USE DEF Init
  <2>1. TypeOK /\ FilesOK
    <3>1. pipe \in 0 .. Capacity /\ sent \in 0 .. Archive + Padding /\ got \in 0 .. Archive
      BY DoInstallAssumption
    <3>2. QED
      BY <3>1 DEF TypeOK, FilesOK, Parts, None, Ids, Child
  <2>2. Place /\ Children /\ InPlace
    BY DEF Place, Children, NoChild, InPlace, Filling, Ended, Parts, None, Belongs
  <2>3. Made
    BY DEF Made, HasFormat, HasTag, HasFiles, Past, Later, Filling, Ended
  <2>4. QED
    BY <2>1, <2>2, <2>3 DEF InstallInv
<1>2. InstallInv /\ [Next]_vars => InstallInv'
  <2> SUFFICES ASSUME InstallInv, [Next]_vars PROVE InstallInv'
    OBVIOUS
  <2>1. CASE UNCHANGED vars
    <3> USE <2>1 DEF vars, loopVars, partVars, childVars, InstallInv
    <3>1. TypeOK'
      BY DEF TypeOK
    <3>2. Children'
      BY DEF Children, NoChild
    <3>3. Made'
      BY DEF Made, HasFormat, HasTag, HasFiles, Past, Later
    <3>4. FilesOK' /\ Place' /\ InPlace'
      BY DEF FilesOK, Place, InPlace
    <3>5. QED
      BY <3>1, <3>2, <3>3, <3>4
  <2>2. QED
    BY <2>1, OpenStep, SetLoopStep, TagStep, FormatStep, MountStep, FillEfiStep, FillBootStep,
       StartPipeStep, XzWriteStep, XzEndStep, CpioReadStep, CpioEndStep, WaitStep, UmountStep,
       RebootStep DEF Next, Installer, Xz, Cpio
<1>3. QED
  BY <1>1, <1>2, PTL DEF Spec

-----------------------------------------------------------------------------
(***************************************************************************)
(* The theorems.                                                           *)
(***************************************************************************)

\* The variables of do_install keep their types; the pipe is never overfull and
\* cpio never reads behind the trailer.
THEOREM TypeCorrect == Spec => []TypeOK
  BY InstallInvCorrect, PTL DEF InstallInv

\* Whatever fails, no file and no id gets on another partition than its own.
THEOREM InPlaceCorrect == Spec => []InPlace
  BY InstallInvCorrect, PTL DEF InstallInv

\* If nothing fails, what is rebooted will boot.
THEOREM BootsCorrect == Spec => []BootsUnlessFailed
<1>1. InstallInv => BootsUnlessFailed
  BY DEF InstallInv, Place, Children, NoChild, Made, BootsUnlessFailed, Bootable, HasFormat, HasTag,
         HasFiles, Past, Later, Filling, Ended, Parts, TypeOK, Child
<1>2. QED
  BY <1>1, InstallInvCorrect, PTL

\* Whatever fails, no child is running when the root partition is unmounted.
THEOREM ChildrenGoneCorrect == Spec => []ChildrenGone
<1>1. InstallInv => ChildrenGone
  BY DEF InstallInv, Children, ChildrenGone
<1>2. QED
  BY <1>1, InstallInvCorrect, PTL

\* No step and no child works on a partition out of its turn.
THEOREM KeepsApartCorrect == Spec => []KeepsApart
  BY InPlaceCorrect, ChildrenGoneCorrect, PTL DEF KeepsApart

\* Whatever fails, nothing is done to a partition behind the back of its mount.
THEOREM MountedUntouchedCorrect == Spec => MountedUntouched
<1>1. InstallInv /\ [Next]_vars =>
        [mnt # None => /\ loop' = loop
                       /\ tag'[mnt] = tag[mnt]
                       /\ formatted'[mnt] = formatted[mnt]]_vars
  <2> SUFFICES ASSUME InstallInv, Next, mnt # None
               PROVE  loop' = loop /\ tag' = tag /\ formatted' = formatted
    OBVIOUS
  <2>1. step \in Filling
    BY DEF InstallInv, Place
  <2>2. CASE Xz \/ Cpio
    BY <2>2 DEF Xz, Cpio, XzWrite, XzEnd, CpioRead, CpioEnd, loopVars, partVars
  <2>3. CASE Installer
    BY <2>1, <2>3
       DEF Installer, Open, SetLoop, Tag, Format, Mount, FillEfi, FillBoot, StartPipe, Wait, Umount,
           Reboot, At, Filling, loopVars, partVars
  <2>4. QED
    BY <2>2, <2>3 DEF Next
<1>2. QED
  BY <1>1, InstallInvCorrect, PTL DEF Spec, MountedUntouched
=============================================================================
