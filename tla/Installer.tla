------------------------------ MODULE Installer ------------------------------
(***************************************************************************)
(* The partition editor of lfs_install/app/installer: the menus of         *)
(* mode0.c, mode1.c, mode2.c and mode3.c, one action per key that changes  *)
(* state, down to the call of do_install.                                  *)
(*                                                                         *)
(* The partition table being edited is gentries.  The partition list on    *)
(* the screen is not kept anywhere: pt_next_pos walks the table from       *)
(* sector First, and the rows are the positions it stops at.  path holds   *)
(* the positions of the rows down to the highlighted one, so its length is *)
(* the variable selected.                                                  *)
(*                                                                         *)
(* Slots count from 1, as the numbers pt_next_pos reports, and 0 stands    *)
(* for "no slot" (-1 in efi_p, boot_p and root_p).  The constants stand    *)
(* for the numbers in the code (in brackets).                              *)
(***************************************************************************)
EXTENDS Integers, Sequences, FiniteSets

CONSTANTS
  NSlots,    \* entries of a partition table [128]
  MbrSlots,  \* entries in a master boot record; the rest are logical [4]
  Mib,       \* sectors in a MiB [2048]
  First,     \* the first sector of the list [2048]
  Reserved,  \* sectors kept for the backup table [33]
  SizeMin,   \* smallest partition, in MiB [40]
  RootMin,   \* smallest root partition, in MiB [5120]
  Typed,     \* numbers the user types
  Devices    \* what scan_dev finds, in order

Slots  == 1 .. NSlots
Roles  == {"efi", "boot", "root"}
Kinds  == {"none", "esp", "data"}     \* type GUID: zero, EFI_PART, MSDATA_PART
Entry  == [kind : Kinds, start : Nat, end : Nat]
Tables == [Slots -> Entry]

\* A disk has its size in sectors, and either a GPT (first and second copy) or
\* a master boot record (first) that may lead to logical partitions (second).
Device == [gpt : BOOLEAN, extended : BOOLEAN, sectors : Nat, first : Tables, second : Tables]

ASSUME InstallerAssumption ==
  /\ NSlots \in Nat \ {0}
  /\ MbrSlots \in Nat
  /\ Mib \in Nat \ {0}
  /\ First \in Nat \ {0}
  /\ First = (First \div Mib) * Mib
  /\ Reserved \in Nat \ {0}
  /\ SizeMin \in Nat \ {0}
  /\ RootMin \in Nat
  /\ Typed \subseteq Nat
  /\ Devices \in Seq(Device)

VARIABLES
  mode,        \* 0 main menu, 1 partitions, 2 create, 3 confirm, 4 do_install
  submode,     \* of mode 1: 0 devices, 1 warning, 2 partitions, 3 note
  selected,    \* the highlighted line
  config,      \* config_state
  dev,         \* selected_dev: an index of Devices, 0 before the first choice
  table,       \* gentries
  mbr,         \* the static array entries of load_pt_mbr
  role,        \* efi_p, boot_p and root_p
  path,        \* the rows of the partition list down to the highlighted one
  stage,       \* mode2_stage
  partStart,   \* part_start
  freeSize,    \* free_space_size
  partSize,    \* part_size
  made         \* history: the slots filled by create_partition since the load

menuVars == <<mode, submode, selected, path>>
editVars == <<config, dev, table, mbr, role, made>>
newVars  == <<stage, partStart, freeSize, partSize>>
vars     == <<menuVars, editVars, newVars>>

-----------------------------------------------------------------------------
(***************************************************************************)
(* The partition list.                                                     *)
(***************************************************************************)
Live(tab) == {x \in Slots : tab[x].kind # "none"}

\* The result *s of pt_next_pos: the first entry that starts at pos, or 0.
SlotAt(tab, pos) ==
  LET here == {x \in Live(tab) : tab[x].start = pos} IN
  IF here = {} THEN 0 ELSE CHOOSE x \in here : \A y \in here : x <= y

\* pt_next_pos: where the partition at pos ends, or else where the next starts.
NextPos(tab, pos) ==
  LET later == {tab[x].start : x \in {y \in Live(tab) : tab[y].start > pos}} IN
  IF SlotAt(tab, pos) # 0 THEN tab[SlotAt(tab, pos)].end + 1
  ELSE IF later = {} THEN -1
  ELSE CHOOSE p \in later : \A q \in later : p <= q

\* The position of the highlighted row and, as p_pt_entry computes it, its end.
Row == path[Len(path)]
RowEnd ==
  IF NextPos(table, Row) = -1 THEN Devices[dev].sectors - Reserved ELSE NextPos(table, Row)

\* What load_pt_gpt leaves in gentries: the backup fills the empty entries.
LoadGpt(d) == [x \in Slots |-> IF d.first[x].kind = "none" THEN d.second[x] ELSE d.first[x]]

\* load_pt_mbr: the logical entries of the static array are read only when
\* there is an extended partition; the others are read every time.
ReadMbr(d) ==
  [x \in Slots |-> IF x <= MbrSlots THEN d.first[x]
                   ELSE IF d.extended THEN d.second[x] ELSE mbr[x]]

-----------------------------------------------------------------------------
(***************************************************************************)
(* Moving about.  In every menu 103 is up, 108 is down, 28 is Enter.       *)
(***************************************************************************)

\* The menus of two lines.
Menu == mode \in {0, 3} \/ (mode = 1 /\ submode \in {1, 3})

MenuMove ==
  /\ Menu
  /\ selected' \in {0, 1}
  /\ UNCHANGED <<mode, submode, path, editVars, newVars>>

\* mode0_init, from "Exit" of modes 1 and 3 or after S.
GoToMain ==
  /\ mode' = 0
  /\ selected' = 0
  /\ path' = << >>
  /\ UNCHANGED submode

Exit ==
  /\ mode \in {1, 3}
  /\ selected = 0
  /\ GoToMain
  /\ UNCHANGED <<editVars, newVars>>

\* Slip: an old choice still counts.
ChooseTargetKeepsConfig ==
  /\ mode = 0 /\ selected = 0
  /\ mode' = 1 /\ submode' = 0
  /\ role' = [r \in Roles |-> 0]
  /\ UNCHANGED <<selected, path, config, dev, table, mbr, made, newVars>>

\* Slip: the roles survive the choice of another disk.
ChooseTargetKeepsRoles ==
  /\ mode = 0 /\ selected = 0
  /\ mode' = 1 /\ submode' = 0
  /\ config' = 0
  /\ UNCHANGED <<selected, path, role, dev, table, mbr, made, newVars>>

\* "Installation Position": mode1_init.
ChooseTarget ==
  /\ mode = 0 /\ selected = 0
  /\ mode' = 1 /\ submode' = 0
  /\ config' = 0
  /\ role' = [r \in Roles |-> 0]
  /\ UNCHANGED <<selected, path, dev, table, mbr, made, newVars>>

\* "Start Installing": mode3_init, once the configuration is complete.
StartInstalling ==
  /\ mode = 0 /\ selected = 1 /\ config = 1
  /\ mode' = 3 /\ selected' = 0
  /\ UNCHANGED <<submode, path, editVars, newVars>>

\* do_install.  When the disk cannot be opened it returns and nothing happens.
DoInstall ==
  /\ mode = 3 /\ selected = 1
  /\ mode' = 4
  /\ UNCHANGED <<submode, selected, path, editVars, newVars>>

-----------------------------------------------------------------------------
(***************************************************************************)
(* Mode 1: the device, the warning, the note.                              *)
(***************************************************************************)
DeviceMove ==
  /\ mode = 1 /\ submode = 0
  /\ \/ selected > 0 /\ selected' = selected - 1
     \/ selected < Len(Devices) /\ selected' = selected + 1
  /\ UNCHANGED <<mode, submode, path, editVars, newVars>>

\* load_pt: a disk without GPT goes through the warning page.
SelectDevice ==
  /\ mode = 1 /\ submode = 0 /\ selected > 0
  /\ dev' = selected
  /\ selected' = 0
  /\ made' = {}
  /\ \/ /\ Devices[selected].gpt
        /\ submode' = 2
        /\ table' = LoadGpt(Devices[selected])
        /\ UNCHANGED mbr
     \/ /\ ~Devices[selected].gpt
        /\ submode' = 1
        /\ mbr' = ReadMbr(Devices[selected])
        /\ table' = ReadMbr(Devices[selected])
  /\ UNCHANGED <<mode, path, config, role, newVars>>

\* "Continue" on the warning page and "OK" on the note.
Continue ==
  /\ mode = 1 /\ submode \in {1, 3} /\ selected = 1
  /\ submode' = 2 /\ selected' = 0
  /\ UNCHANGED <<mode, path, editVars, newVars>>

-----------------------------------------------------------------------------
(***************************************************************************)
(* Mode 1: the partitions.                                                 *)
(***************************************************************************)
Listing == mode = 1 /\ submode = 2

\* The row after the highlighted one; -1 after the last.
RowBelow == IF path = << >> THEN First ELSE NextPos(table, Row)

ListMove ==
  /\ Listing
  /\ \/ /\ selected > 0
        /\ selected' = selected - 1
        /\ path' = SubSeq(path, 1, Len(path) - 1)
     \/ /\ RowBelow # -1
        /\ selected' = selected + 1
        /\ path' = Append(path, RowBelow)
  /\ UNCHANGED <<mode, submode, editVars, newVars>>

\* Slip: the roles of the slot are kept.
DeleteKeepsRole ==
  LET s == SlotAt(table, Row) IN
  /\ Listing
  /\ selected > 0 /\ s # 0
  /\ table' = [table EXCEPT ![s].kind = "none"]
  /\ made' = made \ {s}
  /\ selected' = 0
  /\ path' = << >>
  /\ UNCHANGED <<mode, submode, config, dev, mbr, role, newVars>>

\* Slip: the highlight stays where it was.
DeleteKeepsPlace ==
  LET s == SlotAt(table, Row) IN
  /\ Listing
  /\ selected > 0 /\ s # 0
  /\ table' = [table EXCEPT ![s].kind = "none"]
  /\ role' = [r \in Roles |-> IF role[r] = s THEN 0 ELSE role[r]]
  /\ made' = made \ {s}
  /\ UNCHANGED <<menuVars, config, dev, mbr, newVars>>

\* D: delete_partition, on a row of free space without effect but for the move.
Delete ==
  LET s == SlotAt(table, Row) IN
  /\ Listing
  /\ selected > 0
  /\ IF s = 0
     THEN UNCHANGED <<table, role, made>>
     ELSE /\ table' = [table EXCEPT ![s].kind = "none"]
          /\ role' = [r \in Roles |-> IF role[r] = s THEN 0 ELSE role[r]]
          /\ made' = made \ {s}
  /\ selected' = 0
  /\ path' = << >>
  /\ UNCHANGED <<mode, submode, config, dev, mbr, newVars>>

\* Slip: the size is rounded up.
CreateRoundsUp ==
  /\ Listing
  /\ selected > 0 /\ SlotAt(table, Row) = 0
  /\ partStart' = Row \div Mib
  /\ freeSize' = (RowEnd - Row + Mib - 1) \div Mib
  /\ mode' = 2 /\ stage' = 0
  /\ UNCHANGED <<submode, selected, path, editVars, partSize>>

\* C: mode2_init, on a row of free space.
Create ==
  /\ Listing
  /\ selected > 0 /\ SlotAt(table, Row) = 0
  /\ partStart' = Row \div Mib
  /\ freeSize' = (RowEnd - Row) \div Mib
  /\ mode' = 2 /\ stage' = 0
  /\ UNCHANGED <<submode, selected, path, editVars, partSize>>

\* S: the configuration is complete when the three roles are given.
Accept ==
  /\ Listing
  /\ \/ /\ \E r \in Roles : role[r] = 0
        /\ submode' = 3 /\ selected' = 0 /\ path' = << >>
        /\ UNCHANGED <<mode, config>>
     \/ /\ \A r \in Roles : role[r] # 0
        /\ config' = 1
        /\ GoToMain
  /\ UNCHANGED <<dev, table, mbr, role, made, newVars>>

-----------------------------------------------------------------------------
(***************************************************************************)
(* Mode 2: a new partition.                                                *)
(***************************************************************************)

\* mode2_exit.
Leave2 == mode' = 1 /\ selected' = 0 /\ path' = << >>

EnterSize(val) ==
  /\ mode = 2 /\ stage = 0
  /\ \/ /\ SizeMin <= val /\ val <= freeSize
        /\ partSize' = val
        /\ stage' = 1
     \/ /\ ~(SizeMin <= val /\ val <= freeSize)
        /\ stage' = 2
        /\ UNCHANGED partSize
  /\ UNCHANGED <<menuVars, editVars, partStart, freeSize>>

\* The answers to the question for the type; 3 is Other.
RoleOf(val) == CASE val = 0 -> "efi" [] val = 1 -> "boot" [] val = 2 -> "root" [] OTHER -> "other"

Empty == Slots \ Live(table)

NewEntry(val) ==
  [kind  |-> IF val = 0 THEN "esp" ELSE "data",
   start |-> partStart * Mib,
   end   |-> (partStart + partSize) * Mib - 1]

\* Slip: nobody looks whether an entry is empty.
EnterTypeTakesFirst(val) ==
  LET r == RoleOf(val) IN
  /\ mode = 2 /\ stage = 1 /\ val <= 3 /\ ~(val = 2 /\ partSize < RootMin)
  /\ table' = [table EXCEPT ![1] = NewEntry(val)]
  /\ role' = [q \in Roles |-> IF q = r THEN 1 ELSE role[q]]
  /\ made' = made \cup {1}
  /\ Leave2
  /\ UNCHANGED <<submode, config, dev, mbr, newVars>>

\* The type is entered: create_partition fills the first empty entry.
EnterType(val) ==
  LET r == RoleOf(val) IN
  /\ mode = 2 /\ stage = 1
  /\ \/ /\ val > 3 \/ (val = 2 /\ partSize < RootMin) \/ Empty = {}
        /\ stage' = 2
        /\ UNCHANGED <<menuVars, table, role, made>>
     \/ /\ val <= 3 /\ ~(val = 2 /\ partSize < RootMin)
        /\ \E x \in Empty :
             /\ \A y \in Empty : x <= y
             /\ table' = [table EXCEPT ![x] = NewEntry(val)]
             /\ role' = [q \in Roles |-> IF q = r THEN x ELSE role[q]]
             /\ made' = made \cup {x}
        /\ Leave2
        /\ UNCHANGED <<submode, stage>>
  /\ UNCHANGED <<config, dev, mbr, partStart, freeSize, partSize>>

\* Enter after a message.
Dismiss ==
  /\ mode = 2 /\ stage = 2
  /\ Leave2
  /\ UNCHANGED <<submode, editVars, newVars>>

-----------------------------------------------------------------------------
Blank == [kind |-> "none", start |-> 0, end |-> 0]

Init ==
  /\ mode = 0 /\ submode = 0 /\ selected = 0 /\ path = << >>
  /\ config = 0
  /\ dev = 0
  /\ table = [x \in Slots |-> Blank]
  /\ mbr = [x \in Slots |-> Blank]
  /\ role = [r \in Roles |-> 0]
  /\ made = {}
  /\ stage = 0 /\ partStart = 0 /\ freeSize = 0 /\ partSize = 0

Next ==
  \/ MenuMove \/ Exit \/ ChooseTarget \/ StartInstalling \/ DoInstall
  \/ DeviceMove \/ SelectDevice \/ Continue
  \/ ListMove \/ Delete \/ Create \/ Accept
  \/ \E val \in Typed : EnterSize(val) \/ EnterType(val)
  \/ Dismiss

Spec == Init /\ [][Next]_vars

-----------------------------------------------------------------------------
(***************************************************************************)
(* Properties.                                                             *)
(***************************************************************************)
TypeOK ==
  /\ mode \in 0 .. 4
  /\ submode \in 0 .. 3
  /\ selected \in Nat
  /\ config \in {0, 1}
  /\ dev \in 0 .. Len(Devices)
  /\ table \in Tables
  /\ mbr \in Tables
  /\ role \in [Roles -> Slots \cup {0}]
  /\ path \in Seq(Nat)
  /\ stage \in 0 .. 2
  /\ partStart \in Nat
  /\ freeSize \in Int
  /\ partSize \in Nat
  /\ made \subseteq Slots

\* The row a key of the list acts on is one the current table has: first row,
\* then where pt_next_pos leads, as many as the highlight says.
SelectedListed ==
  Listing => /\ Len(path) = selected
             /\ selected > 0 => path[1] = First
             /\ \A i \in 1 .. selected - 1 : path[i + 1] = NextPos(table, path[i])

\* A role is played by an entry in use, and no entry plays two: what do_install
\* formats as root is not what it formats as boot.  The EFI role is played by
\* an entry of the EFI type.
RolesLive ==
  /\ \A r \in Roles : role[r] # 0 => role[r] \in Live(table)
  /\ \A q, r \in Roles : role[q] # 0 /\ role[q] = role[r] => q = r
  /\ role["efi"] # 0 => table[role["efi"]].kind = "esp"

\* Only partitions created since the disk was chosen play a role: do_install
\* never formats one that was found on the disk.
RolesMade == \A r \in Roles : role[r] # 0 => role[r] \in made

\* Installing is on offer only while the three roles are given.
ConfigComplete ==
  /\ config = 1 => mode \in {0, 3, 4} /\ \A r \in Roles : role[r] # 0
  /\ mode \in {3, 4} => config = 1

\* What do_install is called with: three different partitions, all of this session
\* and of the table that is written, and all three whenever it can be called.
RolesRight == RolesLive /\ RolesMade /\ ConfigComplete

Overlap(a, b) == a.start <= b.end /\ b.start <= a.end

\* A table the editor works well on: the partitions are inside the part of the
\* disk the list shows, end on MiB boundaries, and do not overlap.
Sound(tab, d) ==
  /\ \A x \in Live(tab) : /\ First <= tab[x].start
                          /\ tab[x].start <= tab[x].end
                          /\ tab[x].end + 1 = ((tab[x].end + 1) \div Mib) * Mib
                          /\ tab[x].end < Devices[d].sectors - Reserved
  /\ \A x, y \in Live(tab) : Overlap(tab[x], tab[y]) => x = y

\* Editing keeps a table sound: what is deleted and created, in any order and
\* on any row, never makes two partitions overlap or leave the disk.
SoundKept == [][SelectDevice \/ (Sound(table, dev) => Sound(table', dev))]_vars

\* What the confirmation promises (mode3.c:47): only data on deleted partitions
\* is lost, so what do_install formats overlaps no partition that stays.
OnlyDeletedLost ==
  mode = 3 => \A r \in Roles, x \in Live(table) :
                x # role[r] => ~Overlap(table[role[r]], table[x])
=============================================================================
