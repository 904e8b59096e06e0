--------------------------- MODULE InstallerProofs ---------------------------
(***************************************************************************)
(* Proofs about the partition editor, for any number of slots, any sector  *)
(* counts and any disks.                                                   *)
(*                                                                         *)
(* MenuInv is inductive by itself; it carries the properties of the roles  *)
(* and of the highlighted row.  GapInv says what mode 2 may rely on: the   *)
(* space offered is free and inside the disk when the table is sound.      *)
(***************************************************************************)
EXTENDS Installer, WellFoundedInduction, TLAPS

\* The library's theorem with the relation spelled out.
LEMMA NatWellFounded ==
  IsWellFoundedOn({p \in Nat \X Nat : p[1] < p[2]}, Nat)
BY NatLessThanWellFounded DEF OpToRel

\* A set of natural numbers that is not empty has a least element.
LEMMA LeastNat ==
  ASSUME NEW T, T \subseteq Nat, T # {}
  PROVE  \E x \in T : \A y \in T : x <= y
<1> DEFINE R == {p \in Nat \X Nat : p[1] < p[2]}
<1>1. \E x \in T : \A y \in T : ~(<<y, x>> \in R)
  <2>1. IsWellFoundedOn(R, Nat)
    BY NatWellFounded
  <2> HIDE DEF R
  <2>2. QED
    BY <2>1, WFMin, Zenon
<1>2. PICK x \in T : \A y \in T : ~(<<y, x>> \in R)
  BY <1>1
<1>3. ASSUME NEW y \in T
      PROVE  x <= y
  <2>1. x \in Nat /\ y \in Nat /\ ~(<<y, x>> \in R)
    BY <1>2
  <2>2. ~(y < x)
    BY <2>1
  <2>3. QED
    BY <2>1, <2>2
<1>4. QED
  BY <1>3

\* What the menus guarantee about one another.
Places ==
  /\ mode = 1 /\ submode = 0 => /\ \A r \in Roles : role[r] = 0
                                /\ selected <= Len(Devices)
  /\ mode = 2 => submode = 2
  /\ mode \in {1, 2} /\ submode # 0 => dev # 0
  /\ mode # 2 /\ ~Listing => path = << >>
  /\ mode = 2 /\ stage = 1 => SizeMin <= partSize /\ partSize <= freeSize

MenuInv == TypeOK /\ SelectedListed /\ RolesLive /\ RolesMade /\ ConfigComplete /\ Places

\* The space mode 2 offers touches no partition.
Gap ==
  /\ First <= partStart * Mib
  /\ (partStart + freeSize) * Mib <= Devices[dev].sectors - Reserved
  /\ \A x \in Live(table) : \/ table[x].end < partStart * Mib
                            \/ (partStart + freeSize) * Mib <= table[x].start

GapInv == mode = 2 /\ stage \in {0, 1} /\ Sound(table, dev) => Gap

-----------------------------------------------------------------------------
(***************************************************************************)
(* Arithmetic and the walk.                                                *)
(***************************************************************************)

\* Dividing and multiplying again rounds down.
LEMMA DivFacts ==
  ASSUME NEW n \in Int, NEW a \in Nat \ {0}
  PROVE  n \div a \in Int /\ (n \div a) * a <= n /\ (n \in Nat => n \div a \in Nat)
<1> DEFINE q == n \div a
           r == n % a
<1>1. q \in Int /\ r \in 0 .. a - 1 /\ n = a * q + r /\ (n \in Nat => q \in Nat)
  OBVIOUS
<1> HIDE DEF q, r
<1>2. q * a = a * q /\ a * q \in Int
  BY <1>1
<1>3. q * a <= n
  BY <1>1, <1>2
<1>4. QED
  BY <1>1, <1>3 DEF q

\* A multiple is a multiple.
LEMMA MulFacts ==
  ASSUME NEW k \in Nat, NEW a \in Nat \ {0}
  PROVE  k * a \in Nat /\ k * a = ((k * a) \div a) * a
<1> DEFINE q == (k * a) \div a
           r == (k * a) % a
<1>1. k * a \in Nat
  OBVIOUS
<1>2. q \in Nat /\ r \in 0 .. a - 1 /\ k * a = a * q + r
  BY <1>1
<1> HIDE DEF q, r
<1>3. a * (k - q) = r
  BY <1>2
<1>4. k - q = 0
  <2>1. CASE k - q >= 1
    <3>1. a * (k - q) >= a
      BY <2>1, <1>2
    <3>2. QED
      BY <3>1, <1>2, <1>3
  <2>2. CASE k - q <= -1
    <3>1. a * (k - q) <= -a
      BY <2>2, <1>2
    <3>2. QED
      BY <3>1, <1>2, <1>3
  <2>3. QED
    BY <2>1, <2>2, <1>2
<1>5. k = q
  BY <1>2, <1>4
<1>6. QED
  BY <1>1, <1>5 DEF q

\* Multiplying keeps the order.
LEMMA MulMono ==
  ASSUME NEW i \in Int, NEW j \in Int, NEW a \in Nat \ {0}, i <= j
  PROVE  i * a \in Int /\ j * a \in Int /\ i * a <= j * a
<1>1. (j - i) * a >= 0
  OBVIOUS
<1>2. j * a = i * a + (j - i) * a
  OBVIOUS
<1>3. QED
  BY <1>1, <1>2

\* What pt_next_pos says about the entry that starts at a position.
LEMMA SlotAtFacts ==
  ASSUME NEW tab \in Tables, NEW pos \in Nat
  PROVE  LET s == SlotAt(tab, pos) IN
         /\ s \in Slots \cup {0}
         /\ s = 0 => \A x \in Live(tab) : tab[x].start # pos
         /\ s # 0 => s \in Live(tab) /\ tab[s].start = pos
<1> DEFINE here == {x \in Live(tab) : tab[x].start = pos}
<1>1. here \subseteq Slots /\ Slots \subseteq Nat \ {0}
  BY DEF Live, Slots
<1>2. CASE here = {}
  BY <1>2 DEF SlotAt
<1>3. CASE here # {}
  <2>1. \E x \in here : \A y \in here : x <= y
    <3>1. here \subseteq Nat
      BY <1>1
    <3> HIDE DEF here
    <3>2. QED
      BY <3>1, <1>3, LeastNat
  <2>2. SlotAt(tab, pos) = CHOOSE x \in here : \A y \in here : x <= y
    BY <1>3 DEF SlotAt
  <2>3. SlotAt(tab, pos) \in here
    <3> HIDE DEF here
    <3>1. QED
      BY <2>1, <2>2
  <2>4. QED
    BY <1>1, <2>3
<1>4. QED
  BY <1>2, <1>3

\* What pt_next_pos returns.
LEMMA NextPosFacts ==
  ASSUME NEW tab \in Tables, NEW pos \in Nat
  PROVE  LET s == SlotAt(tab, pos)
             p == NextPos(tab, pos)
         IN
         /\ p \in Nat \cup {-1}
         /\ s # 0 => p = tab[s].end + 1
         /\ s = 0 /\ p = -1 => \A x \in Live(tab) : tab[x].start <= pos
         /\ s = 0 /\ p # -1 => /\ \E x \in Live(tab) : tab[x].start = p
                               /\ \A x \in Live(tab) : tab[x].start > pos => p <= tab[x].start
<1> DEFINE s == SlotAt(tab, pos)
           later == {tab[x].start : x \in {y \in Live(tab) : tab[y].start > pos}}
<1>1. \A x \in Live(tab) : tab[x].start \in Nat /\ tab[x].end \in Nat
  BY DEF Live, Tables, Entry
<1>2. CASE s # 0
  <2>1. s \in Live(tab)
    BY <1>2, SlotAtFacts
  <2>2. NextPos(tab, pos) = tab[s].end + 1
    BY <1>2 DEF NextPos
  <2>3. QED
    BY <1>1, <1>2, <2>1, <2>2
<1>3. CASE s = 0 /\ later = {}
  <2>1. NextPos(tab, pos) = -1
    BY <1>3 DEF NextPos
  <2>2. \A x \in Live(tab) : ~(tab[x].start > pos)
    BY <1>3
  <2>3. QED
    BY <1>1, <1>3, <2>1, <2>2
<1>4. CASE s = 0 /\ later # {}
  <2>1. \E p \in later : \A q \in later : p <= q
    <3>1. later \subseteq Nat
      BY <1>1
    <3> HIDE DEF later
    <3>2. QED
      BY <3>1, <1>4, LeastNat
  <2>2. NextPos(tab, pos) = CHOOSE p \in later : \A q \in later : p <= q
    BY <1>4 DEF NextPos
  <2>3. NextPos(tab, pos) \in later /\ \A q \in later : NextPos(tab, pos) <= q
    <3> HIDE DEF later
    <3>1. QED
      BY <2>1, <2>2
  <2>4. QED
    BY <1>1, <1>4, <2>3
<1>5. QED
  BY <1>2, <1>3, <1>4
-----------------------------------------------------------------------------
(***************************************************************************)
(* The menus.                                                              *)
(***************************************************************************)

\* The highlighted row is a position in the table's terms.
LEMMA RowFacts ==
  ASSUME MenuInv, Listing, selected > 0
  PROVE  /\ Row \in Nat
         /\ SlotAt(table, Row) \in Slots \cup {0}
         /\ SlotAt(table, Row) # 0 => SlotAt(table, Row) \in Live(table)
<1>1. Len(path) \in Nat /\ Len(path) > 0 /\ path \in Seq(Nat) /\ table \in Tables
  BY DEF MenuInv, TypeOK, SelectedListed
<1>2. Row \in Nat
  BY <1>1 DEF Row
<1>3. QED
  BY <1>1, <1>2, SlotAtFacts

\* At the start nothing is chosen.
LEMMA MenuInit == Init => MenuInv
<1> SUFFICES ASSUME Init PROVE MenuInv
  OBVIOUS
<1> USE InstallerAssumption DEF Init
<1>1. TypeOK
  BY DEF TypeOK, Tables, Entry, Kinds, Blank
<1>2. SelectedListed /\ RolesLive /\ RolesMade /\ ConfigComplete /\ Places
  BY DEF SelectedListed, RolesLive, RolesMade, ConfigComplete, Places, Listing, Roles
<1>3. QED
  BY <1>1, <1>2 DEF MenuInv

\* The steps that only change the menu.
LEMMA MenuSteps ==
  ASSUME MenuInv, MenuMove \/ Exit \/ StartInstalling \/ DoInstall \/ DeviceMove
                  \/ Continue \/ Dismiss
  PROVE  MenuInv'
<1> USE DEF MenuInv, editVars, newVars
<1>1. UNCHANGED editVars /\ UNCHANGED newVars
  BY DEF MenuMove, Exit, StartInstalling, DoInstall, DeviceMove, Continue, Dismiss, GoToMain
<1>2. TypeOK'
  <2>1. mode' \in {0, 1, 3, 4, mode} /\ submode' \in {2, submode} /\ path' \in {<< >>, path}
    BY DEF MenuMove, Exit, StartInstalling, DoInstall, DeviceMove, Continue, Dismiss,
           GoToMain, Leave2
  <2>2. selected' \in Nat
    BY InstallerAssumption DEF MenuMove, Exit, StartInstalling, DoInstall, DeviceMove,
           Continue, Dismiss, GoToMain, Leave2, TypeOK
  <2>3. mode' \in 0 .. 4 /\ submode' \in 0 .. 3
    BY <2>1 DEF TypeOK
  <2>4. path' \in Seq(Nat)
    <3>1. path \in Seq(Nat) /\ << >> \in Seq(Nat)
      BY DEF TypeOK
    <3>2. QED
      BY <2>1, <3>1
  <2>5. QED
    BY <1>1, <2>2, <2>3, <2>4 DEF TypeOK
<1>3. RolesLive' /\ RolesMade'
  BY <1>1 DEF RolesLive, RolesMade, Live
<1>4. ConfigComplete'
  BY <1>1 DEF MenuMove, Exit, StartInstalling, DoInstall, DeviceMove, Continue, Dismiss,
       GoToMain, Leave2, ConfigComplete, Menu
<1>5. Places'
  BY <1>1, InstallerAssumption DEF MenuMove, Exit, StartInstalling, DoInstall, DeviceMove, Continue, Dismiss,
       GoToMain, Leave2, Places, Menu, Listing, TypeOK
<1>6. SelectedListed'
  BY <1>1 DEF MenuMove, Exit, StartInstalling, DoInstall, DeviceMove, Continue, Dismiss,
       GoToMain, Leave2, SelectedListed, Menu, Listing, Places, TypeOK
<1>7. QED
  BY <1>2, <1>3, <1>4, <1>5, <1>6

\* Choosing the target forgets the roles.
LEMMA ChooseTargetStep ==
  ASSUME MenuInv, ChooseTarget
  PROVE  MenuInv'
<1> USE DEF MenuInv, ChooseTarget, newVars
<1>1. TypeOK'
  BY DEF TypeOK
<1>2. RolesLive' /\ RolesMade' /\ ConfigComplete'
  BY DEF RolesLive, RolesMade, ConfigComplete, Roles
<1>3. Places' /\ SelectedListed'
  BY InstallerAssumption DEF Places, SelectedListed, Listing, TypeOK
<1>4. QED
  BY <1>1, <1>2, <1>3

\* Loading a table: no role is given yet.
LEMMA SelectDeviceStep ==
  ASSUME MenuInv, SelectDevice
  PROVE  MenuInv'
<1> USE DEF MenuInv, newVars
<1> DEFINE d == Devices[selected]
<1>1. selected \in 1 .. Len(Devices) /\ d \in Device /\ mode = 1 /\ submode = 0
  BY InstallerAssumption DEF SelectDevice, Places, TypeOK
<1>2. LoadGpt(d) \in Tables /\ ReadMbr(d) \in Tables
  BY <1>1 DEF LoadGpt, ReadMbr, Tables, Device, TypeOK
<1>3. TypeOK'
  BY <1>1, <1>2 DEF SelectDevice, TypeOK
<1>4. \A r \in Roles : role'[r] = 0
  BY <1>1 DEF SelectDevice, Places
<1>5. RolesLive' /\ RolesMade' /\ ConfigComplete'
  BY <1>4, <1>1 DEF RolesLive, RolesMade, ConfigComplete, SelectDevice, Roles
<1>6. path = << >>
  BY <1>1 DEF Places, Listing
<1>7. Places' /\ SelectedListed'
  BY <1>1, <1>6 DEF SelectDevice, Places, SelectedListed, Listing
<1>8. QED
  BY <1>3, <1>5, <1>7

\* Moving along the list walks the table.
LEMMA ListMoveStep ==
  ASSUME MenuInv, ListMove
  PROVE  MenuInv'
<1> USE DEF MenuInv, editVars, newVars
<1>1. /\ Listing /\ mode' = mode /\ submode' = submode
      /\ UNCHANGED editVars /\ UNCHANGED newVars
  BY DEF ListMove
<1>2. Len(path) = selected /\ path \in Seq(Nat) /\ selected \in Nat
  BY <1>1 DEF SelectedListed, TypeOK
<1>3. CASE selected > 0 /\ selected' = selected - 1 /\ path' = SubSeq(path, 1, Len(path) - 1)
  <2>1. path' \in Seq(Nat) /\ Len(path') = selected'
        /\ \A i \in 1 .. selected' : path'[i] = path[i]
    BY <1>2, <1>3
  <2>2. TypeOK'
    BY <1>1, <1>2, <1>3, <2>1 DEF TypeOK
  <2>3. SelectedListed'
    BY <1>1, <1>2, <1>3, <2>1 DEF SelectedListed, Listing
  <2>4. QED
    BY <1>1, <2>2, <2>3 DEF RolesLive, RolesMade, ConfigComplete, Places, Listing, Live
<1>4. CASE RowBelow # -1 /\ selected' = selected + 1 /\ path' = Append(path, RowBelow)
  <2>1. RowBelow \in Nat
    <3>1. CASE path = << >>
      BY <3>1, InstallerAssumption DEF RowBelow
    <3>2. CASE path # << >>
      <4>1. Row \in Nat /\ table \in Tables
        BY <1>2, <3>2 DEF Row, TypeOK
      <4>2. QED
        BY <4>1, <3>2, <1>4, NextPosFacts DEF RowBelow
    <3>3. QED
      BY <3>1, <3>2
  <2>2. /\ path' \in Seq(Nat) /\ Len(path') = selected' /\ path'[selected'] = RowBelow
        /\ \A i \in 1 .. selected : path'[i] = path[i]
    BY <1>2, <1>4, <2>1
  <2>3. TypeOK'
    BY <1>1, <1>2, <1>4, <2>2 DEF TypeOK
  <2>4. SelectedListed'
    <3>1. CASE selected = 0
      <4>1. path = << >>
        BY <3>1, <1>2
      <4>2. QED
        BY <1>1, <1>2, <1>4, <2>2, <3>1, <4>1 DEF SelectedListed, RowBelow
    <3>2. CASE selected > 0
      <4>1. path # << >> /\ RowBelow = NextPos(table, path[selected])
        BY <1>2, <3>2 DEF RowBelow, Row
      <4>2. QED
        BY <1>1, <1>2, <1>4, <2>2, <3>2, <4>1 DEF SelectedListed
    <3>3. QED
      BY <1>2, <3>1, <3>2
  <2>5. QED
    BY <1>1, <2>3, <2>4 DEF RolesLive, RolesMade, ConfigComplete, Places, Listing, Live
<1>5. QED
  BY <1>3, <1>4 DEF ListMove

\* Deleting takes the role away with the entry.
LEMMA DeleteStep ==
  ASSUME MenuInv, Delete
  PROVE  MenuInv'
<1> USE DEF MenuInv, newVars
<1> DEFINE s == SlotAt(table, Row)
<1>1. /\ Listing /\ selected > 0 /\ selected' = 0 /\ path' = << >>
      /\ UNCHANGED <<mode, submode, config, dev, mbr, newVars>>
  BY DEF Delete
<1>2. s \in Slots \cup {0}
  BY <1>1, RowFacts
<1>3. Places' /\ SelectedListed' /\ ConfigComplete'
  BY <1>1 DEF Places, SelectedListed, ConfigComplete, Listing
<1>4. TypeOK' /\ RolesLive' /\ RolesMade'
  <2>1. CASE s = 0
    BY <1>1, <2>1 DEF Delete, TypeOK, RolesLive, RolesMade, Live
  <2>2. CASE s # 0
    <3> HIDE DEF s
    <3>1. /\ s \in Slots
          /\ table' = [table EXCEPT ![s].kind = "none"]
          /\ role' = [r \in Roles |-> IF role[r] = s THEN 0 ELSE role[r]]
          /\ made' = made \ {s}
      BY <1>2, <2>2 DEF Delete, s
    <3>2. table' \in Tables /\ \A x \in Slots \ {s} : table'[x] = table[x]
      BY <3>1 DEF TypeOK, Tables, Entry, Kinds
    <3>3. TypeOK'
      BY <1>1, <3>1, <3>2 DEF TypeOK
    <3>4. RolesLive'
      BY <3>1, <3>2 DEF RolesLive, Live, TypeOK, Slots, Roles
    <3>5. RolesMade'
      BY <3>1 DEF RolesMade, TypeOK
    <3>6. QED
      BY <3>3, <3>4, <3>5
  <2>3. QED
    BY <2>1, <2>2
<1>5. QED
  BY <1>3, <1>4
\* Going to mode 2 keeps the highlighted row.
LEMMA CreateStep ==
  ASSUME MenuInv, Create
  PROVE  MenuInv' /\ Row \in Nat /\ RowEnd \in Int
<1> USE DEF MenuInv, editVars
<1>1. /\ Listing /\ selected > 0 /\ SlotAt(table, Row) = 0
      /\ mode' = 2 /\ stage' = 0 /\ UNCHANGED <<submode, selected, path, editVars, partSize>>
      /\ partStart' = Row \div Mib /\ freeSize' = (RowEnd - Row) \div Mib
  BY DEF Create
<1>2. Row \in Nat /\ table \in Tables
  BY <1>1, RowFacts DEF TypeOK
<1>3. RowEnd \in Int
  <2>1. dev \in 1 .. Len(Devices)
    BY <1>1 DEF Places, Listing, TypeOK
  <2>2. Devices[dev] \in Device
    BY <2>1, InstallerAssumption
  <2>3. Devices[dev].sectors \in Nat
    BY <2>2 DEF Device
  <2>4. NextPos(table, Row) \in Nat \cup {-1}
    BY <1>2, NextPosFacts
  <2>5. QED
    BY <2>3, <2>4, InstallerAssumption DEF RowEnd
<1>4. partStart' \in Nat /\ freeSize' \in Int
  <2>1. RowEnd - Row \in Int
    BY <1>2, <1>3
  <2>2. QED
    BY <1>1, <1>2, <2>1, DivFacts, InstallerAssumption
<1>5. TypeOK'
  BY <1>1, <1>4 DEF TypeOK
<1>6. SelectedListed' /\ RolesLive' /\ RolesMade' /\ ConfigComplete' /\ Places'
  BY <1>1 DEF SelectedListed, RolesLive, RolesMade, ConfigComplete, Places, Listing, Live
<1>7. QED
  BY <1>2, <1>3, <1>5, <1>6

\* S completes the configuration only with the three roles.
LEMMA AcceptStep ==
  ASSUME MenuInv, Accept
  PROVE  MenuInv'
<1> USE DEF MenuInv, newVars
<1>1. /\ Listing /\ UNCHANGED <<dev, table, mbr, role, made, newVars>>
      /\ selected' = 0 /\ path' = << >>
      /\ \/ (\E r \in Roles : role[r] = 0) /\ submode' = 3 /\ mode' = mode /\ config' = config
         \/ (\A r \in Roles : role[r] # 0) /\ config' = 1 /\ mode' = 0 /\ submode' = submode
  BY DEF Accept, GoToMain
<1>2. << >> \in Seq(Nat)
  OBVIOUS
<1>3. TypeOK'
  BY <1>1, <1>2 DEF TypeOK, Listing
<1>4. RolesLive' /\ RolesMade' /\ ConfigComplete'
  BY <1>1 DEF RolesLive, RolesMade, ConfigComplete, Listing, Live
<1>5. SelectedListed' /\ Places'
  BY <1>1 DEF SelectedListed, Places, Listing
<1>6. QED
  BY <1>3, <1>4, <1>5

\* A size is taken only if it fits the space offered.
LEMMA EnterSizeStep ==
  ASSUME MenuInv, NEW val \in Typed, EnterSize(val)
  PROVE  MenuInv'
<1> USE DEF MenuInv, menuVars, editVars
<1>1. mode = 2 /\ UNCHANGED menuVars /\ UNCHANGED editVars /\ UNCHANGED <<partStart, freeSize>>
  BY DEF EnterSize
<1>2. val \in Nat
  BY InstallerAssumption
<1>3. stage' \in 0 .. 2 /\ partSize' \in Nat
      /\ (stage' = 1 => SizeMin <= partSize' /\ partSize' <= freeSize)
  BY <1>2 DEF EnterSize, TypeOK
<1>4. TypeOK'
  BY <1>1, <1>3 DEF TypeOK
<1>5. SelectedListed' /\ RolesLive' /\ RolesMade' /\ ConfigComplete' /\ Places'
  BY <1>1, <1>3 DEF SelectedListed, RolesLive, RolesMade, ConfigComplete, Places, Listing, Live
<1>6. QED
  BY <1>4, <1>5

\* The entry that is filled was empty, so it had no role.
LEMMA EnterTypeStep ==
  ASSUME MenuInv, NEW val \in Typed, EnterType(val)
  PROVE  MenuInv'
<1> USE DEF MenuInv
<1>1. CASE stage' = 2 /\ UNCHANGED <<menuVars, table, role, made>>
  <2>1. UNCHANGED <<menuVars, table, role, made, config, dev, mbr, partStart, freeSize, partSize>>
    BY <1>1 DEF EnterType
  <2>2. TypeOK'
    BY <1>1, <2>1 DEF TypeOK, menuVars
  <2>3. QED
    BY <1>1, <2>1, <2>2 DEF SelectedListed, RolesLive, RolesMade, ConfigComplete, Places,
                            Listing, Live, menuVars
<1>2. ASSUME NEW x \in Empty, table' = [table EXCEPT ![x] = NewEntry(val)],
             role' = [q \in Roles |-> IF q = RoleOf(val) THEN x ELSE role[q]],
             made' = made \cup {x}, Leave2, submode' = submode, stage' = stage
      PROVE  MenuInv'
  <2>1. /\ mode = 2 /\ stage = 1 /\ mode' = 1 /\ selected' = 0 /\ path' = << >>
        /\ UNCHANGED <<submode, stage, config, dev, mbr, partStart, freeSize, partSize>>
    BY <1>2 DEF EnterType, Leave2
  <2>2. x \in Slots /\ table[x].kind = "none"
    BY DEF Empty, Live
  <2>3. NewEntry(val) \in Entry /\ NewEntry(val).kind # "none"
        /\ (val = 0 => NewEntry(val).kind = "esp")
    <3>1. partStart + partSize \in Nat \ {0} /\ partStart \in Nat /\ Mib \in Nat \ {0}
      BY <2>1, InstallerAssumption DEF TypeOK, Places
    <3>2. (partStart + partSize) * Mib - 1 \in Nat /\ partStart * Mib \in Nat
      <4>1. 1 <= partStart + partSize /\ 1 \in Int /\ partStart + partSize \in Int
        BY <3>1
      <4>2. 1 * Mib <= (partStart + partSize) * Mib /\ (partStart + partSize) * Mib \in Int
        BY <4>1, <3>1, MulMono
      <4>3. QED
        BY <4>2, <3>1, MulFacts
    <3>3. QED
      BY <3>2 DEF NewEntry, Entry, Kinds
  <2>4. table' \in Tables /\ table'[x] = NewEntry(val)
        /\ \A y \in Slots \ {x} : table'[y] = table[y]
    BY <1>2, <2>2, <2>3 DEF TypeOK, Tables
  <2>5. TypeOK'
    <3>1. << >> \in Seq(Nat)
      OBVIOUS
    <3>2. QED
      BY <1>2, <2>1, <2>2, <2>4, <3>1 DEF TypeOK
  <2>6. \A r \in Roles : role[r] # x
    BY <2>2 DEF RolesLive, Live, TypeOK, Slots
  <2>7. Live(table') = Live(table) \cup {x}
    BY <2>2, <2>3, <2>4 DEF Live
  <2>8. RolesLive'
    <3>1. \A r \in Roles : role'[r] # 0 => role'[r] \in Live(table')
      BY <1>2, <2>7 DEF RolesLive
    <3>2. \A q, r \in Roles : role'[q] # 0 /\ role'[q] = role'[r] => q = r
      BY <1>2, <2>6 DEF RolesLive
    <3>3. role'["efi"] # 0 => table'[role'["efi"]].kind = "esp"
      <4>1. CASE RoleOf(val) = "efi"
        <5>1. val = 0
          BY <4>1, InstallerAssumption DEF RoleOf
        <5>2. QED
          BY <1>2, <2>3, <2>4, <4>1, <5>1 DEF Roles
      <4>2. CASE RoleOf(val) # "efi"
        <5>1. role'["efi"] = role["efi"] /\ role["efi"] # x
          BY <1>2, <2>6, <4>2 DEF Roles
        <5>2. QED
          BY <2>4, <5>1 DEF RolesLive, Live, Roles
      <4>3. QED
        BY <4>1, <4>2
    <3>4. QED
      BY <3>1, <3>2, <3>3 DEF RolesLive
  <2>9. RolesMade' /\ ConfigComplete'
    BY <1>2, <2>1 DEF RolesMade, ConfigComplete
  <2>10. SelectedListed' /\ Places'
    BY <2>1 DEF SelectedListed, Places, Listing
  <2>11. QED
    BY <2>5, <2>8, <2>9, <2>10
<1>3. QED
  BY <1>1, <1>2 DEF EnterType

\* Every step of the editor preserves the invariant of the menus.
LEMMA MenuInvStep == MenuInv /\ [Next]_vars => MenuInv'
<1> SUFFICES ASSUME MenuInv, [Next]_vars PROVE MenuInv'
  OBVIOUS
<1>1. ASSUME NEW val \in Typed, EnterSize(val) \/ EnterType(val)
      PROVE  MenuInv'
  BY <1>1, EnterSizeStep, EnterTypeStep
<1>2. CASE UNCHANGED vars
  BY <1>2 DEF vars, menuVars, editVars, newVars, MenuInv, TypeOK, SelectedListed, RolesLive,
              RolesMade, ConfigComplete, Places, Listing, Live
<1>3. QED
  BY <1>1, <1>2, MenuSteps, ChooseTargetStep, SelectDeviceStep, ListMoveStep, DeleteStep,
     CreateStep, AcceptStep DEF Next

\* The invariant of the menus holds of every behaviour.
THEOREM MenuInvCorrect == Spec => []MenuInv
  BY MenuInit, MenuInvStep, PTL DEF Spec

\* The editor's state keeps its types: among them, a created entry's sectors
\* are numbers a GPT can hold.
THEOREM TypeCorrect == Spec => []TypeOK
<1>1. MenuInv => TypeOK
  BY DEF MenuInv
<1>2. QED
  BY <1>1, MenuInvCorrect, PTL

\* The highlighted row is always a row of the current table.
THEOREM SelectedListedCorrect == Spec => []SelectedListed
<1>1. MenuInv => SelectedListed
  BY DEF MenuInv
<1>2. QED
  BY <1>1, MenuInvCorrect, PTL

\* No entry plays two roles and no role outlives its entry.
THEOREM RolesLiveCorrect == Spec => []RolesLive
<1>1. MenuInv => RolesLive
  BY DEF MenuInv
<1>2. QED
  BY <1>1, MenuInvCorrect, PTL

\* What is formatted was created in this session.
THEOREM RolesMadeCorrect == Spec => []RolesMade
<1>1. MenuInv => RolesMade
  BY DEF MenuInv
<1>2. QED
  BY <1>1, MenuInvCorrect, PTL

\* do_install is reached only with a complete configuration.
THEOREM ConfigCorrect == Spec => []ConfigComplete
<1>1. MenuInv => ConfigComplete
  BY DEF MenuInv
<1>2. QED
  BY <1>1, MenuInvCorrect, PTL

\* do_install formats three different partitions that were made in this session.
THEOREM RolesRightCorrect == Spec => []RolesRight
  BY RolesLiveCorrect, RolesMadeCorrect, ConfigCorrect, PTL DEF RolesRight
-----------------------------------------------------------------------------
(***************************************************************************)
(* The sectors.                                                            *)
(***************************************************************************)

\* A row of free space in a sound table starts on a MiB boundary, where the
\* list starts or a partition ends.
LEMMA FreeRowFacts ==
  ASSUME MenuInv, Listing, selected > 0, Sound(table, dev), SlotAt(table, Row) = 0
  PROVE  /\ Row \in Nat /\ First <= Row /\ Row = (Row \div Mib) * Mib
         /\ \A x \in Live(table) : table[x].start < Row => table[x].end < Row
<1> USE DEF MenuInv
<1>1. /\ table \in Tables /\ Len(path) = selected /\ selected \in Nat /\ path \in Seq(Nat)
      /\ path[1] = First /\ First \in Nat /\ Row = path[selected]
  BY InstallerAssumption DEF TypeOK, SelectedListed, Row
<1>2. \A x \in Live(table) : /\ table[x].start \in Nat /\ table[x].end \in Nat
                             /\ First <= table[x].start
                             /\ table[x].start <= table[x].end
                             /\ table[x].end + 1 = ((table[x].end + 1) \div Mib) * Mib
  BY <1>1 DEF Sound, Live, Tables, Entry
<1>3. \A x, y \in Live(table) : Overlap(table[x], table[y]) => x = y
  BY DEF Sound
<1>4. CASE Row = First
  BY <1>2, <1>4, InstallerAssumption
<1>5. CASE \E y \in Live(table) : Row = table[y].end + 1
  <2>1. PICK y \in Live(table) : Row = table[y].end + 1
    BY <1>5
  <2>2. Row \in Nat /\ First <= Row /\ Row = (Row \div Mib) * Mib
    BY <1>1, <1>2, <2>1
  <2>3. ASSUME NEW x \in Live(table), table[x].start < Row
        PROVE  table[x].end < Row
    <3>1. CASE x = y
      BY <1>2, <2>1, <3>1
    <3>2. CASE x # y
      <4>1. ~(table[x].start <= table[y].end /\ table[y].start <= table[x].end)
        BY <1>3, <3>2 DEF Overlap
      <4>2. QED
        BY <1>2, <2>1, <2>3, <4>1
    <3>3. QED
      BY <3>1, <3>2
  <2>4. QED
    BY <2>2, <2>3
<1>6. Row = First \/ \E y \in Live(table) : Row = table[y].end + 1
  <2>1. CASE selected = 1
    BY <1>1, <2>1
  <2>2. CASE selected > 1
    <3> DEFINE q == path[selected - 1]
    <3>1. q \in Nat /\ selected - 1 \in 1 .. selected - 1
      BY <1>1, <2>2
    <3>2. Row = NextPos(table, q)
      <4>1. path[(selected - 1) + 1] = NextPos(table, path[selected - 1])
        BY <3>1 DEF SelectedListed
      <4>2. QED
        BY <1>1, <4>1
    <3> HIDE DEF q
    <3>3. Row \in Nat
      BY RowFacts
    <3>4. CASE SlotAt(table, q) # 0
      <4>1. SlotAt(table, q) \in Live(table)
        BY <1>1, <3>1, <3>4, SlotAtFacts
      <4>2. QED
        BY <1>1, <3>1, <3>2, <3>4, <4>1, NextPosFacts
    <3>5. CASE SlotAt(table, q) = 0
      <4>1. \E x \in Live(table) : table[x].start = Row
        BY <1>1, <3>1, <3>2, <3>3, <3>5, NextPosFacts
      <4>2. QED
        BY <1>1, <3>3, <4>1, SlotAtFacts
    <3>6. QED
      BY <3>4, <3>5
  <2>3. QED
    BY <1>1, <2>1, <2>2
<1>7. QED
  BY <1>4, <1>5, <1>6

\* The space offered by mode 2 is free.
LEMMA CreateGap ==
  ASSUME MenuInv, Create
  PROVE  GapInv'
<1> USE DEF MenuInv
<1>1. /\ Listing /\ selected > 0 /\ SlotAt(table, Row) = 0
      /\ UNCHANGED <<table, dev>>
      /\ partStart' = Row \div Mib /\ freeSize' = (RowEnd - Row) \div Mib
  BY DEF Create, editVars
<1>2. SUFFICES ASSUME Sound(table, dev)
               PROVE  /\ First <= partStart' * Mib
                      /\ (partStart' + freeSize') * Mib <= Devices[dev].sectors - Reserved
                      /\ \A x \in Live(table) : \/ table[x].end < partStart' * Mib
                                                \/ (partStart' + freeSize') * Mib <= table[x].start
  BY <1>1 DEF GapInv, Gap, Sound, Live
<1>3. /\ Row \in Nat /\ First <= Row /\ Row = (Row \div Mib) * Mib
      /\ \A x \in Live(table) : table[x].start < Row => table[x].end < Row
  BY <1>1, <1>2, FreeRowFacts
<1>4. Mib \in Nat \ {0} /\ First \in Nat /\ Reserved \in Nat
  BY InstallerAssumption
<1>5. RowEnd \in Int /\ Devices[dev].sectors - Reserved \in Int
  <2>1. RowEnd \in Int
    BY CreateStep
  <2>2. dev \in 1 .. Len(Devices)
    BY <1>1 DEF Places, Listing, TypeOK
  <2>3. Devices[dev] \in Device
    BY <2>2, InstallerAssumption
  <2>4. QED
    BY <2>1, <2>3, <1>4 DEF Device
<1>6. /\ RowEnd <= Devices[dev].sectors - Reserved
      /\ \A x \in Live(table) : table[x].start > Row => RowEnd <= table[x].start
  <2>1. \A x \in Live(table) : /\ table[x].start \in Nat /\ table[x].end \in Nat
                               /\ table[x].start <= table[x].end
                               /\ table[x].end < Devices[dev].sectors - Reserved
    BY <1>2 DEF Sound, Live, TypeOK, Tables, Entry
  <2>2. table \in Tables
    BY DEF TypeOK
  <2>3. CASE NextPos(table, Row) = -1
    <3>1. \A x \in Live(table) : table[x].start <= Row
      BY <1>1, <1>3, <2>2, <2>3, NextPosFacts
    <3>2. RowEnd = Devices[dev].sectors - Reserved
      BY <2>3 DEF RowEnd
    <3>3. QED
      BY <1>3, <1>5, <2>1, <3>1, <3>2
  <2>4. CASE NextPos(table, Row) # -1
    <3>1. /\ \E x \in Live(table) : table[x].start = NextPos(table, Row)
          /\ \A x \in Live(table) : table[x].start > Row => NextPos(table, Row) <= table[x].start
      BY <1>1, <1>3, <2>2, <2>4, NextPosFacts
    <3>2. RowEnd = NextPos(table, Row)
      BY <2>4 DEF RowEnd
    <3>3. QED
      BY <1>5, <2>1, <3>1, <3>2
  <2>5. QED
    BY <2>3, <2>4
<1> DEFINE a == Row \div Mib
           f == (RowEnd - Row) \div Mib
<1>7. a \in Nat /\ f \in Int /\ f * Mib <= RowEnd - Row /\ a * Mib = Row
  <2>1. RowEnd - Row \in Int
    BY <1>3, <1>5
  <2>2. QED
    BY <1>3, <1>4, <2>1, DivFacts
<1>8. partStart' = a /\ freeSize' = f
  BY <1>1
<1> HIDE DEF a, f
<1>9. (a + f) * Mib <= RowEnd /\ (a + f) * Mib \in Int
  <2>1. (a + f) * Mib = a * Mib + f * Mib /\ f * Mib \in Int
    BY <1>4, <1>7
  <2>2. QED
    BY <1>3, <1>5, <1>7, <2>1
<1>10. ASSUME NEW x \in Live(table)
       PROVE  table[x].end < a * Mib \/ (a + f) * Mib <= table[x].start
  <2>1. table[x].start \in Nat /\ table[x].end \in Nat /\ table[x].start # Row
    BY <1>1, <1>3, SlotAtFacts DEF Live, TypeOK, Tables, Entry
  <2>2. QED
    BY <1>3, <1>5, <1>6, <1>7, <1>9, <2>1
<1>11. QED
  BY <1>3, <1>5, <1>6, <1>7, <1>8, <1>9, <1>10

\* The space stays free until mode 2 is left.
LEMMA GapInvStep == MenuInv /\ GapInv /\ [Next]_vars => GapInv'
<1> SUFFICES ASSUME MenuInv, GapInv, [Next]_vars PROVE GapInv'
  OBVIOUS
<1>1. ASSUME NEW val \in Typed, EnterSize(val)
      PROVE  GapInv'
  <2>1. /\ mode = 2 /\ stage = 0
        /\ UNCHANGED <<table, dev, partStart, freeSize>>
    BY <1>1 DEF EnterSize, editVars
  <2>2. QED
    BY <2>1 DEF GapInv, Gap, Sound, Live
<1>2. ASSUME NEW val \in Typed, EnterType(val)
      PROVE  GapInv'
  <2>1. stage' = 2 \/ mode' = 1
    BY <1>2 DEF EnterType, Leave2
  <2>2. QED
    BY <2>1 DEF GapInv
<1>3. CASE \/ MenuMove \/ Exit \/ ChooseTarget \/ StartInstalling \/ DoInstall
           \/ DeviceMove \/ SelectDevice \/ Continue
           \/ ListMove \/ Delete \/ Accept \/ Dismiss
  <2>1. mode' # 2
    BY <1>3 DEF MenuMove, Menu, Exit, GoToMain, ChooseTarget, StartInstalling, DoInstall,
                DeviceMove, SelectDevice, Continue, ListMove, Delete, Accept, Dismiss,
                Leave2, Listing
  <2>2. QED
    BY <2>1 DEF GapInv
<1>4. CASE UNCHANGED vars
  BY <1>4 DEF vars, menuVars, editVars, newVars, GapInv, Gap, Sound, Live
<1>5. QED
  BY <1>1, <1>2, <1>3, <1>4, CreateGap DEF Next

\* Taking an entry away leaves a sound table.
LEMMA DeleteSound ==
  ASSUME MenuInv, Sound(table, dev), Delete
  PROVE  Sound(table', dev)
<1> DEFINE s == SlotAt(table, Row)
<1>1. s \in Slots \cup {0} /\ table \in Tables
  BY RowFacts DEF Delete, MenuInv, TypeOK
<1>2. CASE s = 0
  BY <1>2 DEF Delete
<1>3. CASE s # 0
  <2>1. table' = [table EXCEPT ![s].kind = "none"] /\ s \in Slots
    BY <1>1, <1>3 DEF Delete
  <2> HIDE DEF s
  <2>2. Live(table') \subseteq Live(table) /\ \A x \in Live(table') : table'[x] = table[x]
    BY <1>1, <2>1 DEF Live, Tables, Entry
  <2>3. QED
    BY <2>2 DEF Sound
<1>4. QED
  BY <1>2, <1>3

\* Filling the space mode 2 offers leaves a sound table.
LEMMA EnterTypeSound ==
  ASSUME MenuInv, GapInv, Sound(table, dev), NEW val \in Typed, EnterType(val)
  PROVE  Sound(table', dev)
<1>1. CASE table' = table
  BY <1>1
<1>2. ASSUME NEW x \in Empty, table' = [table EXCEPT ![x] = NewEntry(val)]
      PROVE  Sound(table', dev)
  <2>1. Gap /\ SizeMin <= partSize /\ partSize <= freeSize
    BY DEF EnterType, GapInv, MenuInv, Places
  <2>2. /\ partStart \in Nat /\ partSize \in Nat /\ freeSize \in Int /\ table \in Tables
        /\ Mib \in Nat \ {0} /\ SizeMin \in Nat \ {0} /\ First \in Nat /\ Reserved \in Nat
    BY InstallerAssumption DEF MenuInv, TypeOK
  <2> DEFINE a == partStart * Mib
             b == (partStart + partSize) * Mib
             c == (partStart + freeSize) * Mib
  <2>3. a \in Nat /\ b \in Nat /\ c \in Int /\ a + 1 <= b /\ b <= c /\ b = (b \div Mib) * Mib
    <3>1. partStart + partSize \in Nat /\ partStart + 1 <= partStart + partSize
          /\ partStart + partSize <= partStart + freeSize
      BY <2>1, <2>2
    <3>2. (partStart + 1) * Mib <= b /\ b <= c /\ c \in Int
      BY <2>2, <3>1, MulMono
    <3>3. (partStart + 1) * Mib = a + Mib /\ a \in Nat
      BY <2>2, MulFacts
    <3>4. b \in Nat /\ b = (b \div Mib) * Mib
      BY <2>2, <3>1, MulFacts
    <3>5. QED
      BY <2>2, <3>2, <3>3, <3>4
  <2>4. /\ table'[x].start = a /\ table'[x].end = b - 1 /\ x \in Slots
        /\ \A y \in Slots \ {x} : table'[y] = table[y]
        /\ Live(table') \subseteq Live(table) \cup {x} /\ x \notin Live(table)
    BY <1>2, <2>2 DEF NewEntry, Empty, Live, Tables
  <2>5. First <= a /\ c <= Devices[dev].sectors - Reserved
        /\ \A y \in Live(table) : table[y].end < a \/ c <= table[y].start
    BY <2>1 DEF Gap
  <2>6. Devices[dev].sectors - Reserved \in Int
    <3>1. dev \in 1 .. Len(Devices)
      BY DEF EnterType, MenuInv, Places, TypeOK
    <3>2. Devices[dev] \in Device
      BY <3>1, InstallerAssumption
    <3>3. QED
      BY <2>2, <3>2 DEF Device
  <2> HIDE DEF a, b, c
  <2>7. \A y \in Live(table) : table[y].start \in Nat /\ table[y].end \in Nat
                               /\ y \in Slots \ {x} /\ table'[y] = table[y]
    BY <2>2, <2>4 DEF Live, Tables, Entry
  <2>8. /\ First <= table'[x].start
        /\ table'[x].start <= table'[x].end
        /\ table'[x].end + 1 = b
        /\ table'[x].end < Devices[dev].sectors - Reserved
    BY <2>2, <2>3, <2>4, <2>5, <2>6
  <2>9. \A y \in Live(table) : ~Overlap(table[y], table'[x]) /\ ~Overlap(table'[x], table[y])
    BY <2>3, <2>4, <2>5, <2>7 DEF Overlap
  <2>10. ASSUME NEW y \in Live(table')
         PROVE  /\ First <= table'[y].start
                /\ table'[y].start <= table'[y].end
                /\ table'[y].end + 1 = ((table'[y].end + 1) \div Mib) * Mib
                /\ table'[y].end < Devices[dev].sectors - Reserved
    <3>1. CASE y = x
      BY <2>3, <2>8, <3>1
    <3>2. CASE y \in Live(table)
      BY <2>7, <3>2 DEF Sound
    <3>3. QED
      BY <2>4, <3>1, <3>2
  <2>11. ASSUME NEW y \in Live(table'), NEW z \in Live(table'), Overlap(table'[y], table'[z])
         PROVE  y = z
    <3>1. CASE y = x \/ z = x
      BY <2>4, <2>7, <2>9, <2>11, <3>1
    <3>2. CASE y \in Live(table) /\ z \in Live(table)
      BY <2>7, <2>11, <3>2 DEF Sound
    <3>3. QED
      BY <2>4, <3>1, <3>2
  <2>12. QED
    BY <2>10, <2>11 DEF Sound
<1>3. QED
  BY <1>1, <1>2 DEF EnterType

\* Every step keeps a sound table sound, unless it loads another.
LEMMA SoundStep ==
  ASSUME MenuInv, GapInv, [Next]_vars
  PROVE  [SelectDevice \/ (Sound(table, dev) => Sound(table', dev))]_vars
<1>1. CASE UNCHANGED table
  BY <1>1
<1>2. ASSUME NEW val \in Typed, EnterType(val)
      PROVE  Sound(table, dev) => Sound(table', dev)
  BY <1>2, EnterTypeSound
<1>3. ASSUME Next, ~SelectDevice, ~Delete, \A val \in Typed : ~EnterType(val)
      PROVE  UNCHANGED table
  BY <1>3 DEF Next, MenuMove, Exit, ChooseTarget, StartInstalling, DoInstall, DeviceMove,
              Continue, ListMove, Create, Accept, EnterSize, Dismiss, editVars
<1>4. QED
  BY <1>1, <1>2, <1>3, DeleteSound

\* On disks whose partitions end on MiB boundaries and lie within the list, no
\* sequence of edits makes two partitions overlap or leave the disk.
THEOREM SoundCorrect == Spec => SoundKept
<1>1. Init => GapInv
  BY DEF Init, GapInv
<1>2. Spec => []GapInv
  BY <1>1, MenuInvCorrect, GapInvStep, PTL DEF Spec
<1>3. Spec => [][SelectDevice \/ (Sound(table, dev) => Sound(table', dev))]_vars
  BY <1>2, MenuInvCorrect, SoundStep, PTL DEF Spec
<1>4. QED
  BY <1>3 DEF SoundKept
=============================================================================
