------------------------------ MODULE SdHostShim ------------------------------
(***************************************************************************)
(* The one SDMMC controller and its two users: slot 1 with the ESP32-C6,   *)
(* which carries BLE, brought up by a constructor before app_main, and     *)
(* slot 0 with the card, mounted and unmounted by the logger task for as   *)
(* long as it takes (src/main/sd_store.c).  Both go through the wrappers   *)
(* of src/main/sd_host_init_shim.c.                                        *)
(*                                                                         *)
(* The SD host driver is external, modelled from what that file says of    *)
(* it: sdmmc_host_init creates a controller, and fails if it was ever      *)
(* created; sdmmc_host_deinit_slot removes the slot, but deletes the       *)
(* controller too.                                                         *)
(***************************************************************************)
EXTENDS Integers

CONSTANT MaxMounts   \* bound: attempts to mount

ASSUME ShimBound == MaxMounts \in Nat

VARIABLES
  controller,      \* "none", "up", "deleted"
  slots,           \* the slots that are registered
  s_initialised,
  ldo, s_pwr,      \* the channel is taken; sd_store's handle of it
  s_card,          \* a card is mounted
  store,           \* the logger in sd_store: "constructor" (not yet running), "idle",
                   \* "power", "host", "slot", "probe", "unwind"
  mounts,          \* attempts so far
  reason           \* why the last attempt failed: "none", "power", "host", "card"

shimVars == <<controller, slots, s_initialised, ldo, s_pwr, s_card, store, mounts, reason>>
card == <<ldo, s_pwr, s_card, mounts, reason>>

ShimInit ==
  /\ controller = "none" /\ slots = {} /\ s_initialised = FALSE
  /\ ldo = FALSE /\ s_pwr = FALSE /\ s_card = FALSE
  /\ store = "constructor" /\ mounts = 0 /\ reason = "none"

-----------------------------------------------------------------------------
(* The driver, and the wrappers before it.                                   *)

RealInit == controller = "none" /\ controller' = "up"
RealDeinitSlot(s) ==
  slots' = slots \ {s} /\ controller' = IF controller = "up" THEN "deleted" ELSE controller

\* __wrap_sdmmc_host_init, with its result; the driver may refuse for other reasons.
HostInit(ok) ==
  \/ s_initialised /\ ok /\ UNCHANGED <<controller, s_initialised>>
  \/ ~s_initialised /\ ok /\ RealInit /\ s_initialised' = TRUE
  \/ ~s_initialised /\ ~ok /\ UNCHANGED <<controller, s_initialised>>

\* Mutant of DeinitSlot: the slot is torn down by the driver.
DeinitSlotReal(s) == RealDeinitSlot(s) /\ UNCHANGED s_initialised

\* __wrap_sdmmc_host_deinit_slot and __wrap_sdmmc_host_deinit.
DeinitSlot(s) == UNCHANGED <<controller, slots, s_initialised>>

-----------------------------------------------------------------------------

\* The constructor of esp_hosted; it may fail, and then there is no BLE.
BringUpC6 ==
  /\ store = "constructor" /\ store' = "idle"
  /\ \/ HostInit(TRUE) /\ slots' \in {slots, slots \cup {1}}
     \/ HostInit(FALSE) /\ UNCHANGED slots
  /\ UNCHANGED card

\* sd_store_mount: the LDO channel is acquired once and kept; who holds it already
\* cannot have it again.
Mount ==
  /\ store = "idle" /\ ~s_card /\ mounts < MaxMounts
  /\ store' = IF s_pwr THEN "host" ELSE "power"
  /\ mounts' = mounts + 1 /\ reason' = "none"
  /\ UNCHANGED <<controller, slots, s_initialised, ldo, s_pwr, s_card>>

AcquirePower ==
  /\ store = "power"
  /\ \/ ~ldo /\ store' = "host" /\ ldo' = TRUE /\ s_pwr' = TRUE /\ UNCHANGED reason
     \/ store' = "idle" /\ reason' = "power" /\ UNCHANGED <<ldo, s_pwr>>
  /\ UNCHANGED <<controller, slots, s_initialised, s_card, mounts>>

\* esp_vfs_fat_sdmmc_mount: host, slot, card, each with its way back.
MountHost ==
  /\ store = "host"
  /\ \/ HostInit(TRUE) /\ store' = "slot" /\ UNCHANGED reason
     \/ HostInit(FALSE) /\ store' = "unwind" /\ reason' = "host"
  /\ UNCHANGED <<slots, ldo, s_pwr, s_card, mounts>>

MountSlot ==
  /\ store = "slot"
  /\ \/ controller = "up" /\ slots' = slots \cup {0} /\ store' = "probe" /\ UNCHANGED reason
     \/ controller # "up" /\ UNCHANGED slots /\ store' = "unwind" /\ reason' = "host"
  /\ UNCHANGED <<controller, s_initialised, ldo, s_pwr, s_card, mounts>>

\* There is a card with a file system, or not.
Probe ==
  /\ store = "probe"
  /\ \/ store' = "idle" /\ s_card' = TRUE /\ UNCHANGED reason
     \/ store' = "unwind" /\ reason' = "card" /\ UNCHANGED s_card
  /\ UNCHANGED <<controller, slots, s_initialised, ldo, s_pwr, mounts>>

Unwind ==
  /\ store = "unwind" /\ store' = "idle" /\ DeinitSlot(0)
  /\ UNCHANGED <<ldo, s_pwr, s_card, mounts, reason>>

\* sd_store_remount, whose next step is Mount.
Unmount ==
  /\ store = "idle" /\ s_card /\ s_card' = FALSE /\ DeinitSlot(0)
  /\ UNCHANGED <<store, ldo, s_pwr, mounts, reason>>

ShimNext ==
  BringUpC6 \/ Mount \/ AcquirePower \/ MountHost \/ MountSlot \/ Probe \/ Unwind \/ Unmount

ShimSpec == ShimInit /\ [][ShimNext]_shimVars

-----------------------------------------------------------------------------
(* Properties. *)

ShimTypeOK ==
  /\ controller \in {"none", "up", "deleted"} /\ slots \subseteq {0, 1}
  /\ {s_initialised, ldo, s_pwr, s_card} \subseteq BOOLEAN
  /\ store \in {"constructor", "idle", "power", "host", "slot", "probe", "unwind"}
  /\ mounts \in 0..MaxMounts /\ reason \in {"none", "power", "host", "card"}

\* However often a card cannot be mounted or is remounted, the controller under the
\* slot of the C6 stays; and no attempt fails because an earlier one, or the C6, has
\* taken the power channel or the controller already.
C6KeepsController ==
  /\ slots # {} \/ s_initialised => controller = "up"
  /\ reason = "power" => ~ldo
  /\ reason = "host" => controller = "none"

=============================================================================
