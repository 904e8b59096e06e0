-------------------------------- MODULE Boot --------------------------------
(***************************************************************************)
(* From the firmware to the running system and back: the boot loader, the  *)
(* kernel as far as the two programs see it, and the first process.  The   *)
(* machine is off, or in the loader, or in the kernel; a shutdown, a halt  *)
(* or a failure of the loader leads back to the firmware, which may start  *)
(* the loader again.                                                       *)
(***************************************************************************)
EXTENDS Loader, InitProcess

CONSTANT RamfsOf(_)     \* what an initramfs is, by its blocks

allVars == <<loaderVars, initVars>>

BootInit == LoaderInit /\ InitInit

\* Who has asked for a shutdown waits for it.
Stopped ==
  \/ pc = "off"
  \/ ipc \in {"off", "reboot"}
  \/ ipc \in {"panic", "hang", "sbin"} /\ handlers = <<>>

\* The loader, before there is a kernel.
Loading(A) == ipc = "none" /\ A /\ UNCHANGED initVars

\* The kernel finds the initramfs where the loader has put it; the loader's
\* memory is free.  disk and row stay, for RootOfEntry.
KernelStarts ==
  LET n == Len(image.initramfs)
  IN  /\ GoTo("kernel", "left")
      /\ KernelRuns(RamfsOf([i \in 1..n |-> Buffer(Room - n + i - 1)]))
      /\ Forget /\ UNCHANGED <<disk, row>>

\* Turned on again, or reset.
PowerOn == Stopped /\ Restart /\ Gone

BootNext ==
  \/ Loading(LoaderNext)
  \/ KernelStarts
  \/ InitNext /\ UNCHANGED loaderVars
  \/ PowerOn

BootFairness == WF_allVars(Loading(LoaderStep)) /\ WF_allVars(KernelStarts) /\ InitFairness

BootSpec == BootInit /\ [][BootNext]_allVars /\ BootFairness

-----------------------------------------------------------------------------
(***************************************************************************)
(* Property of the whole.                                                  *)
(***************************************************************************)

\* The partition that becomes the root has the id that is in the initramfs of
\* the highlighted entry: of the entry that was drawn as such, of the file as
\* it is on the disk, and of the device that is mounted and not only of the
\* one that was looked at.  (For a boot.conf that ends with a newline.)
RootOfEntry ==
  rootDev # "none" =>
    LET lines  == LinesOf(disk.files[<<"boot.conf">>])
        initrd == Named(Section(lines, row + 1), "INITRD")
    IN  Last(lines).nl =>
          /\ initrd # <<>>
          /\ ids[rootDev] = RamfsOf(disk.files[initrd]).id
=============================================================================
