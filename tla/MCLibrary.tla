------------------------------- MODULE MCLibrary -------------------------------
(***************************************************************************)
(* A small instance of what surrounds the two drivers, each part on its    *)
(* own: the features of the kernel driver, the discovery of devices, and   *)
(* the blocks of the Wiimote's memory, their reading and their layout.  A  *)
(* behaviour is in one of the parts, chosen at the start.                  *)
(***************************************************************************)
EXTENDS Features, Discover, Eeprom, Layout

VARIABLE part

all == <<part, featureVars, discoverVars, eepromVars, layoutVars>>

\* BOUND: two codes of a node change: two axes, or an axis and a key, or a code of
\* the tables and one that is in none.
ChangingHere ==
  {codes \in UNION {{{c, o} : c \in Known(k), o \in DOMAIN Axes(k) \cup {"BTN_OTHER", "ABS_OTHER"}} :
                      k \in Range(featureKindFromName)} : Cardinality(codes) = 2}

\* BOUND: a block of two bytes, with the magic byte of a Mii and its checksum.
DataHere == <<1, 2>>
MagicHere == <<3>>

MCInit ==
  /\ part \in {"features", "discover", "eeprom", "layout"}
  /\ part # "features" => name = "" /\ device = [BTN_1 |-> 0, BTN_OTHER |-> 0]
  /\ part # "discover" => present = Devices /\ bound = Devices /\ use = "Wait"
  /\ part # "eeprom" => /\ driver = "hid" /\ kind = "calibration"
                        /\ image = Block(kind) \o Block(kind) \o <<0, 0>> /\ faults = {}
  /\ part # "layout" => table = "ir" /\ bit = Bit(0, 0)
  /\ FeaturesInit /\ DiscoverInit /\ EepromInit /\ LayoutInit

MCNext ==
  /\ part' = part
  /\ \/ part = "features" /\ FeaturesNext /\ UNCHANGED <<discoverVars, eepromVars, layoutVars>>
     \/ part = "discover" /\ DiscoverNext /\ UNCHANGED <<featureVars, eepromVars, layoutVars>>
     \/ part = "eeprom" /\ EepromNext /\ UNCHANGED <<featureVars, discoverVars, layoutVars>>

\* A step of one of the goroutines, or of udevd, that takes part in discovery.
Discovers(A) ==
  part = "discover" /\ A /\ UNCHANGED <<part, featureVars, eepromVars, layoutVars>>

\* udevd and both goroutines run when they can; the caller calls again.
MCSpec ==
  /\ MCInit /\ [][MCNext]_all
  /\ WF_all(Discovers(Udevd)) /\ WF_all(Discovers(Scanner)) /\ WF_all(Discovers(Client))

\* Where there is discovery, every device that stays is provided.
DevicesProvided == part = "discover" => Provided
================================================================================
