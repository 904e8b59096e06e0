------------------------------- MODULE DoInstall -------------------------------
(***************************************************************************)
(* do_install of the installer (app/installer/do_install.c): it writes the *)
(* partition tables, makes, mounts and fills the EFI, the boot and the     *)
(* root partition one after the other, and reboots.  The programs it       *)
(* starts are part of the model: those it waits for at once are one action *)
(* with it, while xz and cpio, which fill the root partition over a pipe,  *)
(* run beside it.                                                          *)
(*                                                                         *)
(* Almost no result is looked at.  Every step has an outcome in which what *)
(* it wanted to do has failed; failed remembers that some step did.        *)
(*                                                                         *)
(* The installer never closes its own ends of the pipe.  So cpio meets no  *)
(* end of file when xz is gone, and xz no broken pipe when cpio is: each   *)
(* of them waits for ever, and neither case is an action here.             *)
(***************************************************************************)
EXTENDS Naturals, FiniteSets

CONSTANTS
  Archive,   \* pieces of system.cpio.xz up to its trailer
  Padding,   \* pieces behind the trailer
  Capacity   \* pieces the pipe holds

ASSUME DoInstallAssumption ==
  /\ Archive \in Nat \ {0} /\ Padding \in Nat /\ Capacity \in Nat \ {0}
  /\ Padding <= Capacity  \* at most 511 bytes, and 65536

Parts == {"efi", "boot", "root"}
None  == "none"
Ids   == {"old", "bootid", "rootid"}

VARIABLES
  part,       \* the partition that is being made
  step,       \* what comes next for it
  failed,     \* history: some step has failed
  loopUp,     \* loopfd is bound to the disk
  loop,       \* loopinfo: the partition the loop device shows
  pos,        \* the file offset of loopfd
  mnt,        \* the partition mounted on /mnt
  formatted,  \* for each partition: mkfs has made a new file system
  tag,        \* for each partition: its first 16 bytes
  files,      \* for each partition: the files put there
  initramfs,  \* /initramfs
  packed,     \* what cpio -p has put into /mnt/initramfs
  cpio, xz,   \* the two children: "none", "runs", "exited", "reaped"
  pipe,       \* pieces in the pipe
  sent, got   \* pieces xz has written, cpio has read

loopVars  == <<loopUp, loop, pos>>
partVars  == <<formatted, tag, files, initramfs, packed>>
childVars == <<cpio, xz, pipe, sent, got>>
vars      == <<part, step, failed, loopVars, mnt, partVars, childVars>>

-----------------------------------------------------------------------------
At(p, s)   == part = p /\ step = s
GoTo(s)    == step' = s /\ UNCHANGED part
Succeeds   == UNCHANGED failed
Fails      == failed' = TRUE

\* A file put below /mnt: without a mount it goes to the installer's own memory.
PutAll(S) ==
  files' = IF mnt = None THEN files ELSE [files EXCEPT ![mnt] = @ \cup S]

-----------------------------------------------------------------------------
(***************************************************************************)
(* The installer, up to the mount of a partition.                          *)
(***************************************************************************)

\* The disk is opened and its tables written, and a loop device is bound to it.
\* If the disk cannot be opened do_install returns.
Open ==
  /\ At("efi", "open")
  /\ \/ Fails /\ GoTo("returned") /\ UNCHANGED loopUp
     \/ /\ GoTo("loop")
        /\ \/ Succeeds /\ loopUp' = TRUE
           \/ Fails /\ loopUp' \in BOOLEAN
  /\ UNCHANGED <<loop, pos, mnt, partVars, childVars>>

\* Slip: the ioctl is tried once.
SetLoopOnce ==
  /\ step = "loop" /\ loopUp
  /\ \/ loop' = part
     \/ UNCHANGED loop
  /\ GoTo(IF part = "efi" THEN "format" ELSE "tag")
  /\ Succeeds
  /\ UNCHANGED <<loopUp, pos, mnt, partVars, childVars>>

\* set_loop_part repeats the ioctl until it succeeds; it never does on a loop
\* device that is not bound.
SetLoop ==
  /\ step = "loop" /\ loopUp
  /\ loop' = part
  /\ GoTo(IF part = "efi" THEN "format" ELSE "tag")
  /\ Succeeds
  /\ UNCHANGED <<loopUp, pos, mnt, partVars, childVars>>

Id == IF part = "boot" THEN "bootid" ELSE "rootid"

\* Slip: the file offset is not set back.
TagOnwards ==
  /\ step = "tag"
  /\ tag' = IF pos = 0 THEN [tag EXCEPT ![loop] = Id] ELSE tag
  /\ pos' = pos + 16
  /\ Succeeds /\ GoTo("format")
  /\ UNCHANGED <<loopUp, loop, mnt, formatted, files, initramfs, packed, childVars>>

\* The id is written to the start of the partition.
Tag ==
  /\ step = "tag"
  /\ \/ tag' = [tag EXCEPT ![loop] = Id] /\ pos' = 16 /\ Succeeds
     \/ Fails /\ pos' = 0 /\ UNCHANGED tag
  /\ GoTo("format")
  /\ UNCHANGED <<loopUp, loop, mnt, formatted, files, initramfs, packed, childVars>>

\* mkfs.ext2 and mkfs.ext3 write nothing before byte 1024, mkfs.fat from byte 0 on.
Format ==
  /\ step = "format"
  /\ \/ /\ formatted' = [formatted EXCEPT ![loop] = TRUE]
        /\ tag' = IF part = "efi" THEN [tag EXCEPT ![loop] = None] ELSE tag
        /\ Succeeds
     \/ Fails /\ UNCHANGED <<formatted, tag>>
  /\ files' = [files EXCEPT ![loop] = {}]
  /\ GoTo("mount")
  /\ UNCHANGED <<loopVars, mnt, initramfs, packed, childVars>>

\* A partition whose mkfs has failed may still hold something to mount.
Mount ==
  /\ step = "mount"
  /\ \/ mnt' = loop /\ Succeeds
     \/ Fails /\ UNCHANGED mnt
  /\ GoTo(IF part = "root" THEN "pipe" ELSE "fill")
  /\ UNCHANGED <<loopVars, partVars, childVars>>

-----------------------------------------------------------------------------
(***************************************************************************)
(* Filling the EFI and the boot partition.                                 *)
(***************************************************************************)

\* The boot loader, and bootid in it.
FillEfi ==
  /\ At("efi", "fill")
  /\ \/ PutAll({"loader"}) /\ Succeeds
     \/ Fails /\ UNCHANGED files
  /\ GoTo("umount")
  /\ UNCHANGED <<loopVars, mnt, formatted, tag, initramfs, packed, childVars>>

\* copy_file three times, /initramfs/rootid, and cpio -p; missing are those
\* that failed.
FillBoot ==
  /\ At("boot", "fill")
  /\ \E missing \in SUBSET {"vmlinuz", "boot.conf", "init", "rootid", "initramfs"} :
       /\ failed' = (failed \/ missing # {})
       /\ initramfs' = {"init", "rootid"} \ missing
       /\ packed' = IF "initramfs" \in missing THEN packed ELSE initramfs'
       /\ PutAll({"vmlinuz", "boot.conf", "initramfs"} \ missing)
  /\ GoTo("umount")
  /\ UNCHANGED <<loopVars, mnt, formatted, tag, childVars>>

-----------------------------------------------------------------------------
(***************************************************************************)
(* Filling the root partition: xz -cd | cpio -U.                           *)
(***************************************************************************)
StartPipe ==
  /\ At("root", "pipe")
  /\ \/ cpio' = "runs" /\ xz' = "runs" /\ Succeeds
     \/ cpio' \in {"none", "runs"} /\ xz' = "none" /\ Fails
     \/ cpio' = "none" /\ xz' = "runs" /\ Fails
  /\ GoTo("wait 1")
  /\ UNCHANGED <<loopVars, mnt, partVars, pipe, sent, got>>

XzWrite ==
  /\ xz = "runs" /\ sent < Archive + Padding /\ pipe < Capacity
  /\ sent' = sent + 1
  /\ pipe' = pipe + 1
  /\ UNCHANGED <<part, step, failed, loopVars, mnt, partVars, cpio, xz, got>>

XzEnd ==
  /\ xz = "runs"
  /\ \/ sent = Archive + Padding /\ Succeeds
     \/ Fails
  /\ xz' = "exited"
  /\ UNCHANGED <<part, step, loopVars, mnt, partVars, cpio, pipe, sent, got>>

CpioRead ==
  /\ cpio = "runs" /\ got < Archive /\ pipe > 0
  /\ got' = got + 1
  /\ pipe' = pipe - 1
  /\ UNCHANGED <<part, step, failed, loopVars, mnt, partVars, cpio, xz, sent>>

\* Who could still write to the pipe.
WriteEnds == {"installer"} \cup (IF xz = "runs" THEN {"xz"} ELSE {})

\* Slip: cpio waits for the end of the file and not for the trailer.
CpioEndEof ==
  /\ cpio = "runs"
  /\ \/ /\ got = Archive /\ WriteEnds = {}
        /\ PutAll({"system"}) /\ Succeeds
     \/ Fails /\ UNCHANGED files
  /\ cpio' = "exited"
  /\ UNCHANGED <<part, step, loopVars, mnt, formatted, tag, initramfs, packed, xz, pipe, sent, got>>

\* cpio_unpack2 ends at the trailer.
CpioEnd ==
  /\ cpio = "runs"
  /\ \/ got = Archive /\ PutAll({"system"}) /\ Succeeds
     \/ Fails /\ UNCHANGED files
  /\ cpio' = "exited"
  /\ UNCHANGED <<part, step, loopVars, mnt, formatted, tag, initramfs, packed, xz, pipe, sent, got>>

Reap(child) == child = "exited" /\ child' = "reaped"
NoChild == {cpio, xz} \subseteq {"none", "reaped"}

\* Slip: a child that is still running does not keep the installer waiting.
WaitForOne ==
  /\ part = "root" /\ step \in {"wait 1", "wait 2"}
  /\ \/ Reap(cpio) /\ UNCHANGED xz
     \/ Reap(xz) /\ UNCHANGED cpio
     \/ step = "wait 2" /\ UNCHANGED <<cpio, xz>>
  /\ GoTo(IF step = "wait 1" THEN "wait 2" ELSE "umount")
  /\ UNCHANGED <<failed, loopVars, mnt, partVars, pipe, sent, got>>

\* wait(NULL), twice: for either child, and at once if there is none left.
Wait ==
  /\ part = "root" /\ step \in {"wait 1", "wait 2"}
  /\ \/ Reap(cpio) /\ UNCHANGED xz
     \/ Reap(xz) /\ UNCHANGED cpio
     \/ NoChild /\ UNCHANGED <<cpio, xz>>
  /\ GoTo(IF step = "wait 1" THEN "wait 2" ELSE "umount")
  /\ UNCHANGED <<failed, loopVars, mnt, partVars, pipe, sent, got>>

-----------------------------------------------------------------------------
(***************************************************************************)
(* The end of a partition.                                                 *)
(***************************************************************************)
NextPart ==
  \/ part = "efi"  /\ part' = "boot" /\ step' = "loop"
  \/ part = "boot" /\ part' = "root" /\ step' = "loop"
  \/ part = "root" /\ GoTo("complete")

\* Slip: umount is tried once; the file system may be busy.
UmountOnce ==
  /\ step = "umount"
  /\ mnt' \in {mnt, None}
  /\ NextPart
  /\ UNCHANGED <<failed, loopVars, partVars, childVars>>

\* umount is repeated until it succeeds: it never does when nothing is mounted.
Umount ==
  /\ step = "umount" /\ mnt # None
  /\ mnt' = None
  /\ NextPart
  /\ UNCHANGED <<failed, loopVars, partVars, childVars>>

Reboot ==
  /\ At("root", "complete")
  /\ GoTo("reboot")
  /\ UNCHANGED <<failed, loopVars, mnt, partVars, childVars>>

-----------------------------------------------------------------------------
Init ==
  /\ part = "efi" /\ step = "open" /\ failed = FALSE
  /\ loopUp = FALSE /\ loop = None /\ pos = 0
  /\ mnt = None
  /\ formatted = [p \in Parts |-> FALSE]
  /\ tag = [p \in Parts |-> "old"]
  /\ files = [p \in Parts |-> {}]
  /\ initramfs = {} /\ packed = {}
  /\ cpio = "none" /\ xz = "none" /\ pipe = 0 /\ sent = 0 /\ got = 0

Installer ==
  \/ Open \/ SetLoop \/ Tag \/ Format \/ Mount
  \/ FillEfi \/ FillBoot \/ StartPipe \/ Wait \/ Umount \/ Reboot
Xz   == XzWrite \/ XzEnd
Cpio == CpioRead \/ CpioEnd
Next == Installer \/ Xz \/ Cpio

\* Each process goes on if it can; nothing has to fail.
Fairness ==
  /\ WF_vars(Installer /\ Succeeds)
  /\ WF_vars(Xz /\ Succeeds)
  /\ WF_vars(Cpio /\ Succeeds)

Spec == Init /\ [][Next]_vars /\ Fairness

-----------------------------------------------------------------------------
(***************************************************************************)
(* Properties.                                                             *)
(***************************************************************************)
Child == {"none", "runs", "exited", "reaped"}

TypeOK ==
  /\ part \in Parts /\ failed \in BOOLEAN
  /\ step \in {"open", "returned", "loop", "tag", "format", "mount", "fill", "pipe",
               "wait 1", "wait 2", "umount", "complete", "reboot"}
  /\ loopUp \in BOOLEAN /\ loop \in Parts \cup {None} /\ pos \in {0, 16}
  /\ mnt \in Parts \cup {None}
  /\ formatted \in [Parts -> BOOLEAN]
  /\ tag \in [Parts -> Ids \cup {None}]
  /\ cpio \in Child /\ xz \in Child
  /\ pipe \in 0 .. Capacity /\ sent \in 0 .. Archive + Padding /\ got \in 0 .. Archive

\* While a partition is mounted the loop device below it stays where it is, and
\* nothing is written past the file system: no mkfs and no id, whatever failed.
MountedUntouched ==
  [][mnt # None => /\ loop' = loop
                   /\ tag'[mnt] = tag[mnt]
                   /\ formatted'[mnt] = formatted[mnt]]_vars

Belongs == [efi |-> {"loader"}, boot |-> {"vmlinuz", "boot.conf", "initramfs"},
            root |-> {"system"}]

\* No file and no id goes to another partition than its own, whatever failed.
InPlace ==
  /\ \A p \in Parts : files[p] \subseteq Belongs[p]
  /\ tag["boot"] # "rootid" /\ tag["root"] # "bootid"

\* Everything the loader, the kernel and init look for is there: the loader has
\* the id of the boot partition, the initramfs that of the root partition.
Bootable ==
  /\ \A p \in Parts : formatted[p] /\ files[p] = Belongs[p]
  /\ tag["boot"] = "bootid" /\ tag["root"] = "rootid"
  /\ packed = {"init", "rootid"}

\* If no step fails, the machine that is rebooted will boot.
BootsUnlessFailed == step = "reboot" /\ ~failed => Bootable

\* Neither child is left running, and so writing to the root partition, when it
\* is unmounted and the machine rebooted.
ChildrenGone ==
  part = "root" /\ step \in {"umount", "complete", "reboot"} => NoChild

\* The two together: nothing is done to a partition that is not its own or not
\* yet left by others.
KeepsApart == InPlace /\ ChildrenGone

\* If no step fails, the installation ends: cpio stops at the trailer and what
\* xz has behind it goes into the pipe.
EndsUnlessFailed == <>(step = "reboot" \/ failed)

=============================================================================
