---------------------------- MODULE InitProcess -----------------------------
(***************************************************************************)
(* The first process (app/init/main.c) and that of the installation medium *)
(* (app/install_init/main.c): from the kernel's start to /sbin/init or the *)
(* installer, and the shutdown, which a signal may begin between any two   *)
(* steps of main and between two steps of another shutdown.                *)
(*                                                                         *)
(* A mount, open or fork may fail.  Block devices come and go while the    *)
(* root is searched for, each under a name of its own: a name is not given *)
(* to another disk between the look at it and the mount.                   *)
(***************************************************************************)
EXTENDS Sequences, FiniteSets, SequencesExt

CONSTANTS
  Names,      \* the names of block devices
  DevIds      \* what their first 16 bytes may be

VARIABLES
  ipc,        \* where main is; "none" before the kernel, "panic" without an init,
              \* "off" and "reboot" after the end
  ramfs,      \* the initramfs: which of the two programs, and the id in /rootid (or none)
  ids,        \* the first 16 bytes of each device
  present,    \* those that are there
  at, seen,   \* mount_root: the device looked at, and those of this pass
  mounts,     \* the mounted places; those below the new root have it in front
  rootDev,    \* the device that was mounted on /root
  chrooted,
  child,      \* "none" or "running": remove, or the installer and its children
  dirty,      \* something was written that is not on the disk
  handlers,   \* the handlers that have begun, each in the middle of the one before
  hpc         \* where the last of them is

NoRamfs == [prog |-> "none", id |-> "none"]

initVars == <<ipc, ramfs, ids, present, at, seen, mounts, rootDev, chrooted, child, dirty, handlers, hpc>>
searchVars == <<ids, present, at, seen>>

Signals == {"SIGINT", "SIGQUIT"}
Places == <<"/root/dev", "/root/proc", "/root/sys", "/root/run">>

\* main goes on only while no handler runs.
Main(from, to) == handlers = <<>> /\ ipc = from /\ ipc' = to

\* Before the kernel: nothing of it is there.
InitInit ==
  /\ ipc = "none" /\ ramfs = NoRamfs
  /\ ids = [n \in Names |-> "none"] /\ present = {}
  /\ at = "none" /\ seen = {}
  /\ mounts = {} /\ rootDev = "none" /\ chrooted = FALSE
  /\ child = "none" /\ dirty = FALSE
  /\ handlers = <<>> /\ hpc = "none"

\* The machine is turned off or reset.
Gone ==
  /\ ipc' = "none" /\ ramfs' = NoRamfs
  /\ ids' = [n \in Names |-> "none"] /\ present' = {}
  /\ at' = "none" /\ seen' = {}
  /\ mounts' = {} /\ rootDev' = "none" /\ chrooted' = FALSE
  /\ child' = "none" /\ dirty' = FALSE
  /\ handlers' = <<>> /\ hpc' = "none"

-----------------------------------------------------------------------------
(* Up to the search                                                        *)

\* The kernel has found some devices, unpacked the initramfs and runs its /init;
\* without one it stops.
KernelRuns(r) ==
  /\ Main("none", IF r = NoRamfs THEN "panic" ELSE "start")
  /\ ramfs' = r
  /\ ids' \in [Names -> DevIds] /\ present' \in SUBSET Names
  /\ UNCHANGED <<at, seen, mounts, rootDev, chrooted, child, dirty, handlers, hpc>>

\* Before signal() is called a signal does nothing.
SetHandlers ==
  /\ Main("start", "rootid")
  /\ UNCHANGED <<ramfs, searchVars, mounts, rootDev, chrooted, child, dirty, handlers, hpc>>

OpenRootId ==
  /\ \/ ramfs.id # "none" /\ Main("rootid", "devtmpfs")
     \/ ramfs.id = "none" /\ Main("rootid", "hang")
  /\ UNCHANGED <<ramfs, searchVars, mounts, rootDev, chrooted, child, dirty, handlers, hpc>>

\* xmount: without the mount the machine stands still.
MountDev ==
  /\ \/ Main("devtmpfs", "search") /\ mounts' = mounts \cup {"/dev"}
     \/ Main("devtmpfs", "hang") /\ UNCHANGED mounts
  /\ UNCHANGED <<ramfs, searchVars, rootDev, chrooted, child, dirty, handlers, hpc>>

-----------------------------------------------------------------------------
(* while(!mount_root("/dev"));                                             *)

\* lstat and open of the next entry of the directory.
Look ==
  /\ Main("search", "look")
  /\ at' \in present \ seen
  /\ seen' = seen \cup {at'}
  /\ UNCHANGED <<ramfs, ids, present, mounts, rootDev, chrooted, child, dirty, handlers, hpc>>

\* Slip: any device that can be read will do.
IsRootReadable == at \in present

\* read(fd,buf,16)==16 and the bytes are those of /rootid.
IsRoot == at \in present /\ ids[at] = ramfs.id

ReadId ==
  /\ Main("look", IF IsRoot THEN "mount" ELSE "search")
  /\ UNCHANGED <<ramfs, searchVars, mounts, rootDev, chrooted, child, dirty, handlers, hpc>>

\* Slip: entries that were looked at are not looked at again.
PassIsLast == FALSE

\* The directory has been read to its end: main calls mount_root again.
PassEnds == present \subseteq seen

NextPass ==
  /\ PassEnds
  /\ Main("search", "search")
  /\ seen' = {}
  /\ UNCHANGED <<ramfs, ids, present, at, mounts, rootDev, chrooted, child, dirty, handlers, hpc>>

\* The device is mounted by its name.
MountRoot ==
  /\ \/ /\ at \in present
        /\ Main("mount", "mounted")
        /\ mounts' = mounts \cup {"/root"} /\ rootDev' = at
     \/ Main("mount", "hang") /\ UNCHANGED <<mounts, rootDev>>
  /\ UNCHANGED <<ramfs, searchVars, chrooted, child, dirty, handlers, hpc>>

\* The kernel finds a device, or loses one.
Plug(n) ==
  /\ ipc \in {"rootid", "devtmpfs", "search", "look", "mount"}
  /\ present' = IF n \in present THEN present \ {n} ELSE present \cup {n}
  /\ UNCHANGED <<ipc, ramfs, ids, at, seen, mounts, rootDev, chrooted, child, dirty, handlers, hpc>>

-----------------------------------------------------------------------------
(* init: into the new root                                                 *)

\* symlink, chdir, chroot, and the four directories.
ChangeRoot ==
  /\ ramfs.prog = "init"
  /\ Main("mounted", "fork")
  /\ chrooted' = TRUE /\ dirty' = TRUE
  /\ UNCHANGED <<ramfs, searchVars, mounts, rootDev, child, handlers, hpc>>

\* remove_tmp
ForkRemove ==
  /\ Main("fork", "wait")
  /\ child' \in {"running", "none"}
  /\ UNCHANGED <<ramfs, searchVars, mounts, rootDev, chrooted, dirty, handlers, hpc>>

WaitRemove ==
  /\ child = "none"
  /\ Main("wait", "mounts")
  /\ dirty' = TRUE                                \* mkdir, chmod of /tmp
  /\ UNCHANGED <<ramfs, searchVars, mounts, rootDev, chrooted, child, handlers, hpc>>

\* The four mounts one after the other, then execv.
MountNext ==
  LET todo == SelectSeq(Places, LAMBDA p : p \notin mounts)
  IN  /\ todo # <<>>
      /\ \/ Main("mounts", "mounts") /\ mounts' = mounts \cup {todo[1]}
         \/ Main("mounts", "hang") /\ UNCHANGED mounts
      /\ UNCHANGED <<ramfs, searchVars, rootDev, chrooted, child, dirty, handlers, hpc>>

Exec ==
  /\ ToSet(Places) \subseteq mounts
  /\ Main("mounts", "sbin") \/ Main("mounts", "hang")
  /\ UNCHANGED <<ramfs, searchVars, mounts, rootDev, chrooted, child, dirty, handlers, hpc>>

-----------------------------------------------------------------------------
(* install_init: the installer                                             *)

\* fork; the child executes the installer.
ForkInstaller ==
  /\ ramfs.prog = "install_init"
  /\ Main("mounted", "reap")
  /\ child' \in {"running", "none"}
  /\ UNCHANGED <<ramfs, searchVars, mounts, rootDev, chrooted, dirty, handlers, hpc>>

\* remove, or the installer, writes and ends while main waits or a handler sleeps.
ChildWrites ==
  /\ child = "running"
  /\ dirty' = TRUE
  /\ UNCHANGED <<ipc, ramfs, searchVars, mounts, rootDev, chrooted, child, handlers, hpc>>

ChildEnds ==
  /\ child = "running"
  /\ child' = "none"
  /\ UNCHANGED <<ipc, ramfs, searchVars, mounts, rootDev, chrooted, dirty, handlers, hpc>>

-----------------------------------------------------------------------------
(* _shutdown                                                               *)

Running == ipc \notin {"none", "panic", "start", "sbin", "off", "reboot"}

\* SIGINT from Ctrl-Alt-Del, SIGQUIT by hand; a signal is blocked in its own handler.
Signal(s) ==
  /\ Running
  /\ s \notin ToSet(handlers)
  /\ handlers' = Append(handlers, s)
  /\ hpc' = "term"
  /\ UNCHANGED <<ipc, ramfs, searchVars, mounts, rootDev, chrooted, child, dirty>>

Handler(from, to) == Running /\ handlers # <<>> /\ hpc = from /\ hpc' = to

\* Slip: the shutdown waits until all children have ended.
TermWaits ==
  /\ Handler("term", "kill") /\ child = "none"
  /\ UNCHANGED <<ipc, ramfs, searchVars, mounts, rootDev, chrooted, child, dirty, handlers>>

\* SIGTERM, three seconds.
Term ==
  /\ Handler("term", "kill")
  /\ child' \in {child, "none"}
  /\ UNCHANGED <<ipc, ramfs, searchVars, mounts, rootDev, chrooted, dirty, handlers>>

\* Slip: only processes that listen end.
KillSome ==
  /\ Handler("kill", "umount")
  /\ child' \in {child, "none"}
  /\ UNCHANGED <<ipc, ramfs, searchVars, mounts, rootDev, chrooted, dirty, handlers>>

\* SIGKILL, three seconds.
Kill ==
  /\ Handler("kill", "umount")
  /\ child' = "none"
  /\ UNCHANGED <<ipc, ramfs, searchVars, mounts, rootDev, chrooted, dirty, handlers>>

\* In the new root the five paths lead nowhere: all stays mounted.
Umount ==
  /\ Handler("umount", "sync")
  /\ mounts' = IF chrooted THEN mounts ELSE mounts \ (ToSet(Places) \cup {"/root"})
  /\ UNCHANGED <<ipc, ramfs, searchVars, rootDev, chrooted, child, dirty, handlers>>

Sync ==
  /\ Handler("sync", "reboot")
  /\ dirty' = FALSE
  /\ UNCHANGED <<ipc, ramfs, searchVars, mounts, rootDev, chrooted, child, handlers>>

\* The last signal decides.
Reboot ==
  /\ Handler("reboot", "reboot")
  /\ ipc' = IF Last(handlers) = "SIGINT" THEN "reboot" ELSE "off"
  /\ UNCHANGED <<ramfs, searchVars, mounts, rootDev, chrooted, child, dirty, handlers>>

-----------------------------------------------------------------------------
MainStep ==
  \/ SetHandlers \/ OpenRootId \/ MountDev
  \/ Look \/ ReadId \/ NextPass \/ MountRoot
  \/ ChangeRoot \/ ForkRemove \/ WaitRemove \/ MountNext \/ Exec
  \/ ForkInstaller

ShutdownStep == Term \/ Kill \/ Umount \/ Sync \/ Reboot

InitNext ==
  \/ MainStep \/ ShutdownStep
  \/ ChildWrites \/ ChildEnds
  \/ \E s \in Signals : Signal(s)
  \/ \E n \in Names : Plug(n)

\* The processes run; signals and devices need not come, and remove ends.
InitFairness ==
  /\ WF_initVars(MainStep)
  /\ WF_initVars(ShutdownStep)
  /\ WF_initVars(ipc = "wait" /\ ChildEnds)

-----------------------------------------------------------------------------
(***************************************************************************)
(* Properties.                                                             *)
(***************************************************************************)

\* Whenever the signal comes, and if another one comes in the middle: when the
\* machine is turned off nothing that was written is lost, and nobody writes.
NothingLost == ipc \in {"off", "reboot"} => ~dirty /\ child = "none"

\* A signal turns the machine off, whatever main was doing: also when it
\* stands still because a mount failed.
ShutsDown == handlers # <<>> ~> ipc \in {"off", "reboot"}

\* The search does not miss a root device that is there, however late it came
\* and however often it and others came and went before.
Searching == ipc \in {"search", "look"}
RootAt(n) == n \in present /\ ids[n] = ramfs.id
RootFound ==
  \A n \in Names : Searching /\ RootAt(n) ~> ~Searching \/ ~RootAt(n) \/ handlers # <<>>
=============================================================================
