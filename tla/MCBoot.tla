------------------------------- MODULE MCBoot -------------------------------
(***************************************************************************)
(* Boot for TLC: boot partitions laid out by hand, two memory maps, and    *)
(* two names for block devices.                                            *)
(***************************************************************************)
EXTENDS Boot

Disks == INSTANCE BootDisks

MCDevicesOf == Disks!Lists
MCMemMaps == Disks!Maps
MCRamfsOf(blocks) == Disks!RamfsIn(blocks)
=============================================================================
