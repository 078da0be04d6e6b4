------------------------------- MODULE Zboot -------------------------------
(***************************************************************************)
(* The two boot partitions of an EVE device: their state in the GPT, which *)
(* the zboot package reads and writes, the image each of them holds, and   *)
(* the choice GRUB makes between them.  Also the topics baseosmgr and      *)
(* nodeagent share: ZbootStatus, published by baseosmgr, ZbootConfig,      *)
(* published by nodeagent, and VaultStatus, published by vaultmgr.         *)
(*                                                                         *)
(* The GPT attribute of a partition is modelled by the name the zboot      *)
(* script gives it:                                                        *)
(*    "active"     0x102  priority 2, booted successfully                  *)
(*    "updating"   0x013  priority 3, one try left                         *)
(*    "inprogress" 0x003  priority 3, no try left                          *)
(*    "unused"     0x000                                                   *)
(***************************************************************************)
EXTENDS Integers, FiniteSets

CONSTANTS
  Versions,   \* version strings of images
  NoVer,      \* the empty version string, and the image of an empty partition
  Garbage,    \* a partition whose image is not the complete image of one version
  Installed,  \* the version the device was installed with
  VaultInputs \* what vaultmgr may report of the vault

ASSUME VersionsAssumption ==
  /\ Installed \in Versions
  /\ NoVer \notin Versions /\ Garbage \notin Versions /\ NoVer # Garbage

\* VaultStatus: nothing yet; in error; unlocked, with the conversion of old data going on;
\* unlocked and converted
VaultStates == {"none", "locked", "converting", "ready"}
ASSUME VaultInputsAssumption == VaultInputs \subseteq VaultStates

VARIABLES
  up,       \* the device is powered and past GRUB
  cur,      \* the partition that was booted
  part,     \* state of each partition in the GPT
  img,      \* what each partition holds
  zstatus,  \* ZbootStatus of each partition, as baseosmgr last published it
  zconfig,  \* ZbootConfig.TestComplete of the current partition
  vault     \* VaultStatus of the default vault

zboot == <<up, cur, part, img, zstatus, zconfig, vault>>

Parts  == {"IMGA", "IMGB"}
PartStates == {"active", "updating", "inprogress", "unused"}
Images == Versions \cup {NoVer, Garbage}

\* A ZbootStatus: "absent" until baseosmgr has started
ZbootStatuses == [state : PartStates \cup {"absent"}, ver : Versions \cup {NoVer},
                  testComplete : BOOLEAN]
AbsentStatus == [state |-> "absent", ver |-> NoVer, testComplete |-> FALSE]

ZbootTypeOK ==
  /\ up \in BOOLEAN
  /\ cur \in Parts
  /\ part \in [Parts -> PartStates]
  /\ img \in [Parts -> Images]
  /\ zstatus \in [Parts -> ZbootStatuses]
  /\ zconfig \in BOOLEAN /\ vault \in VaultStates

\* As the installer leaves the disk
ZbootInit ==
  /\ up = FALSE /\ cur = "IMGA"
  /\ part = [p \in Parts |-> IF p = "IMGA" THEN "active" ELSE "unused"]
  /\ img = [p \in Parts |-> IF p = "IMGA" THEN Installed ELSE NoVer]
  /\ zstatus = [p \in Parts |-> AbsentStatus]
  /\ zconfig = FALSE /\ vault = "none"

\* GetOtherPartition, IMGA and IMGB being the partitions of this platform
OtherThan(p) == IF p = "IMGA" THEN "IMGB" ELSE "IMGA"
other == OtherThan(cur)

\* The agents run: the kernel and the root file system came up
booted == up /\ img[cur] \in Versions

\* Mutant: whatever is in the partition is taken for its version
GetRawVersion(p) == {img[p]}

\* GetShortVersion mounts the partition and reads a file.  An empty partition has no
\* file system (an error, here NoVer); of a mixture of images anything may be read.
GetShortVersion(p) ==
  CASE img[p] \in Versions -> {img[p]}
    [] img[p] = NoVer      -> {NoVer}
    [] OTHER               -> Versions \cup {NoVer}

-----------------------------------------------------------------------------
(* GRUB *)

\* gptprio: the attributes behind the name of a state
Priority(state) ==
  CASE state = "active" -> 2 [] state = "unused" -> 0 [] OTHER -> 3
Bootable(state) == state \in {"active", "updating"}

\* gptprio.next: the first of the bootable partitions with the highest priority
gptprioNext(p) ==
  /\ Bootable(part[p])
  /\ \A q \in Parts : Bootable(part[q]) =>
       \/ Priority(part[p]) > Priority(part[q])
       \/ Priority(part[p]) = Priority(part[q]) /\ (p = "IMGA" \/ q = p)

\* GRUB starts a partition and takes one of the tries it has left
grubBoot ==
  /\ ~up /\ up' = TRUE
  /\ \E p \in Parts :
       /\ gptprioNext(p)
       /\ cur' = p
       /\ part' = [part EXCEPT ![p] = IF @ = "updating" THEN "inprogress" ELSE @]
  /\ UNCHANGED <<img, zstatus, zconfig, vault>>

\* Power failure, reset or watchdog: the topics do not survive
zbootReset ==
  /\ up /\ up' = FALSE
  /\ zstatus' = [p \in Parts |-> AbsentStatus]
  /\ zconfig' = FALSE /\ vault' = "none"
  /\ UNCHANGED <<cur, part, img>>

\* vaultmgr: the vault is set up, or it stays locked until the controller provides the key;
\* it is not locked again
publishVaultStatus ==
  /\ booted
  /\ vault' \in VaultInputs
  /\ \/ vault = "none" /\ vault' \in {"locked", "ready"}
     \/ vault = "locked" /\ vault' = "converting"
     \/ vault = "converting" /\ vault' = "ready"
  /\ UNCHANGED <<up, cur, part, img, zstatus, zconfig>>
=============================================================================
