------------------------------- MODULE Virtio -------------------------------
(***************************************************************************)
(* The virtio-mmio block driver of src/src/drivers/virtio.c: the probe and *)
(* status handshake of virtio_init, and virtio_block_read/write, against   *)
(* devices whose identity registers are fixed when the machine starts.     *)
(*                                                                         *)
(* The kernel is single-threaded and each driver call runs to completion,  *)
(* so each call is one action.  The device takes part only through its     *)
(* registers: it holds the last value written to STATUS, except that on   *)
(* the FEATURES_OK write it may refuse the features, leaving the bit clear *)
(* (virtio 1.x 3.1.1).                                                      *)
(***************************************************************************)
EXTENDS Integers, Sequences, FiniteSets, Bitwise

CONSTANTS
    NSLOTS,         \* MMIO windows probed (the code scans 32)
    DeviceConfigs,  \* possible register contents of one window
    NoSlot          \* vblk.base == 0: no device found

MAGIC == 1953655158                  \* 0x74726976, "virt"
VIRTIO_ID_BLOCK == 2
ACKNOWLEDGE == 1
DRIVER == 2
DRIVER_OK == 4
FEATURES_OK == 8

SlotIds == 0 .. NSLOTS - 1

VARIABLES
    dev,            \* dev[s]: the registers of window s: magic, id, version, cap
    dev_status,     \* dev_status[s]: window s's STATUS register
    accepted,       \* accepted[s]: the device took the driver's features
    base,           \* vblk.base, as a window index
    initialized,    \* vblk.initialized
    capacity,       \* vblk.capacity, as [hi, lo] 32-bit halves
    last            \* ghost: the last read or write call and its result

vars == <<dev, dev_status, accepted, base, initialized, capacity, last>>

TypeOK ==
    /\ dev \in [SlotIds -> DeviceConfigs]
    /\ dev_status \in [SlotIds -> 0 .. 255]
    /\ accepted \in [SlotIds -> BOOLEAN]
    /\ base \in SlotIds \cup {NoSlot}
    /\ initialized \in {0, 1}
    /\ capacity \in [hi : Nat, lo : Nat]
    /\ last \in [op : {"none", "read", "write"}, ret : {0, -1}]

(* vblk is a zeroed global; the windows hold whatever QEMU put there.     *)
Init ==
    /\ dev \in [SlotIds -> DeviceConfigs]
    /\ dev_status = [s \in SlotIds |-> 0]
    /\ accepted = [s \in SlotIds |-> FALSE]
    /\ base = NoSlot
    /\ initialized = 0
    /\ capacity = [hi |-> 0, lo |-> 0]
    /\ last = [op |-> "none", ret |-> 0]

(* The probe loop, lines 44-77: the first window with the magic value and *)
(* the block device id.                                                    *)
IsBlock(s) == dev[s].magic = MAGIC /\ dev[s].id = VIRTIO_ID_BLOCK

FirstBlock ==
    IF \E s \in SlotIds : IsBlock(s)
       THEN CHOOSE s \in SlotIds : IsBlock(s) /\ \A t \in SlotIds : IsBlock(t) => s <= t
       ELSE NoSlot

(***************************************************************************)
(* The handshake, lines 98-132, on the window found: reset, ACKNOWLEDGE, *)
(* DRIVER, FEATURES_OK or'd into the status read back, read back again,  *)
(* DRIVER_OK or'd in only if the device kept FEATURES_OK.  ok: whether    *)
(* the device accepts the features.                                        *)
(***************************************************************************)
Handshake(ok) ==
    LET s1 == ACKNOWLEDGE | DRIVER
        s2 == IF ok THEN s1 | FEATURES_OK ELSE s1
    IN IF s2 & FEATURES_OK = 0
          THEN [status |-> s2, ok |-> FALSE]
          ELSE [status |-> s2 | DRIVER_OK, ok |-> TRUE]

(***************************************************************************)
(* virtio_init, lines 37-146.  vblk is cleared, the windows are probed,   *)
(* and with no block device, an unsupported version or refused features  *)
(* it returns -1, leaving base set on the last two paths.  On success the *)
(* capacity is read from CONFIG and CONFIG+4 and initialized becomes 1.   *)
(***************************************************************************)
\* Mutant of virtio_init: initialized is set before the version check.
virtio_init_early_flag(ok) ==
    LET b == FirstBlock IN
    /\ base' = b
    /\ IF b = NoSlot
          THEN /\ initialized' = 0
               /\ UNCHANGED <<dev_status, accepted, capacity>>
          ELSE IF dev[b].version \notin {1, 2}
          THEN /\ initialized' = 1
               /\ UNCHANGED <<dev_status, accepted, capacity>>
          ELSE LET h == Handshake(ok) IN
               /\ dev_status' = [dev_status EXCEPT ![b] = h.status]
               /\ accepted' = [accepted EXCEPT ![b] = ok]
               /\ capacity' = IF h.ok THEN dev[b].cap ELSE capacity
               /\ initialized' = 1
    /\ UNCHANGED <<dev, last>>

virtio_init(ok) ==
    LET b == FirstBlock IN
    /\ base' = b
    /\ IF b = NoSlot \/ dev[b].version \notin {1, 2}
          THEN /\ initialized' = 0
               /\ UNCHANGED <<dev_status, accepted, capacity>>
          ELSE LET h == Handshake(ok) IN
               /\ dev_status' = [dev_status EXCEPT ![b] = h.status]
               /\ accepted' = [accepted EXCEPT ![b] = ok]
               /\ capacity' = IF h.ok THEN dev[b].cap ELSE capacity
               /\ initialized' = IF h.ok THEN 1 ELSE 0
    /\ UNCHANGED <<dev, last>>

(* virtio_block_read, lines 148-197, and virtio_block_write, 199-213:      *)
(* -1 unless initialized, else 0 (the read fills 16 bytes with zeros).    *)
virtio_block_io(op) ==
    /\ last' = [op |-> op, ret |-> IF initialized = 1 THEN 0 ELSE -1]
    /\ UNCHANGED <<dev, dev_status, accepted, base, initialized, capacity>>

Next ==
    \/ \E ok \in BOOLEAN : virtio_init(ok)
    \/ \E op \in {"read", "write"} : virtio_block_io(op)

Spec == Init /\ [][Next]_vars
-----------------------------------------------------------------------------
(***************************************************************************)
(* Properties.                                                              *)
(***************************************************************************)

(* The driver reports the device usable (initialized = 1, so read and      *)
(* write return 0, spec.md 4.7) only for a block device of a supported     *)
(* version that accepted the features and holds ACKNOWLEDGE, DRIVER,       *)
(* FEATURES_OK and DRIVER_OK: every failure path of virtio_init, including *)
(* a re-initialisation that fails, leaves initialized 0.                   *)
HandshakeBeforeUse ==
    initialized = 1 =>
        /\ base # NoSlot /\ IsBlock(base) /\ dev[base].version \in {1, 2}
        /\ accepted[base]
        /\ dev_status[base] = ACKNOWLEDGE | DRIVER | FEATURES_OK | DRIVER_OK
=============================================================================
