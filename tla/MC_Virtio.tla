------------------------------ MODULE MC_Virtio ------------------------------
(* Three MMIO windows, each empty, a network device (id 1), a block device *)
(* of version 2, or a block device of the unsupported version 3: so the    *)
(* probe skips windows, stops at the first block device, and every failure *)
(* path of virtio_init is reached, before and after a successful init.    *)
EXTENDS Virtio

MC_Cap == [hi |-> 0, lo |-> 2048]
MC_DeviceConfigs ==
    { [magic |-> 0, id |-> 0, version |-> 0, cap |-> [hi |-> 0, lo |-> 0]],
      [magic |-> MAGIC, id |-> 1, version |-> 2, cap |-> MC_Cap],
      [magic |-> MAGIC, id |-> VIRTIO_ID_BLOCK, version |-> 2, cap |-> MC_Cap],
      [magic |-> MAGIC, id |-> VIRTIO_ID_BLOCK, version |-> 3, cap |-> MC_Cap] }
=============================================================================
