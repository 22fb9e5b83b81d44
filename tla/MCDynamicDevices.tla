-------------------------- MODULE MCDynamicDevices --------------------------
(***************************************************************************)
(* Instance of DynamicDevices for TLC: a stick with a vfat file system for *)
(* the first guest, a pad that both guests name, and a serial port for the *)
(* second, whose rule has an item for changes alone before it.             *)
(***************************************************************************)
EXTENDS DynamicDevices

CONSTANTS stick, pad, port

KindOf == [d \in Device |-> IF d = stick THEN "blk" ELSE "chr"]
FsOnStick == [d \in Device |-> IF d = stick THEN "vfat" ELSE "none"]

Item(devices, actions, checker, devnode) ==
  [devices |-> devices, actions |-> actions, checker |-> checker, value |-> "vfat",
   devnode |-> devnode, allow |-> TRUE, injection |-> TRUE]

TwoGuests ==
  <<<<Item({stick}, {"add", "remove"}, "include-fs", TRUE),
      Item({pad}, {"add", "remove"}, "none", TRUE)>>,
    <<Item({pad}, {"add", "remove"}, "none", TRUE),
      Item({port}, {"change"}, "none", FALSE),
      Item({port}, {"add", "remove"}, "none", TRUE)>>>>
=============================================================================
