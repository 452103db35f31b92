--------------------------------- MODULE Block ---------------------------------
(***************************************************************************)
(* The block-device registry (src/src/storage/block.c) and how the two     *)
(* drivers fill it at boot: ata_init probes the four drive positions,      *)
(* virtio_blk_init follows.  A registration or a look-up holds block_lock  *)
(* throughout and is one step; the driver is called with the lock free,    *)
(* on the copy block_get made.  Sector numbers and counts are words of     *)
(* WordRange values.                                                       *)
(***************************************************************************)
EXTENDS Integers, Sequences

CONSTANTS
  BLOCK_DEVICE_MAX,
  ATA_MAX_DEVICES,
  LBA28_SECTORS,    \* what ata.c can address, 0x10000000
  WordRange,        \* 2^64, scaled
  Drives,           \* what identify may find at a position
  QueueSizes        \* what a VirtIO device may report

BlockConstants ==
  /\ BLOCK_DEVICE_MAX \in Nat /\ ATA_MAX_DEVICES \in Nat /\ LBA28_SECTORS \in Nat
  /\ \A d \in Drives : d.sectors \in 0 .. WordRange - 1

VARIABLES
  block_devices,    \* the registry: [driver, sectors, writable], in id order
  position,         \* the drive position ata_init is at; 4 after the last
  ata_devices,      \* devices[] of ata.c, the registered ones
  virtio            \* none, absent, failed or ready

vars == <<block_devices, position, ata_devices, virtio>>

Init ==
  /\ block_devices = <<>>
  /\ position = 0 /\ ata_devices = <<>> /\ virtio = "none"

(* What block_register accepts; name, sector size and functions are those  *)
(* of the drivers and valid.                                               *)
Registers(sectors) == sectors # 0 /\ Len(block_devices) < BLOCK_DEVICE_MAX
block_register(driver, sectors, writable) ==
  block_devices' =
    IF Registers(sectors)
    THEN Append(block_devices, [driver |-> driver, sectors |-> sectors, writable |-> writable])
    ELSE block_devices

(* identify: a drive answers, is not ATAPI, delivers its data and has LBA  *)
(* sectors, of which the driver uses those it can address.                 *)
Identified(d) == d.answers /\ ~d.atapi /\ d.data_ready /\ d.sectors # 0
Addressable(d) == IF d.sectors > LBA28_SECTORS THEN LBA28_SECTORS ELSE d.sectors

ata_probe(d) ==
  /\ position < 4
  /\ IF ~Identified(d)
     THEN position' = position + 1 /\ UNCHANGED <<block_devices, ata_devices>>
     ELSE IF Len(ata_devices) >= ATA_MAX_DEVICES
          THEN position' = 4 /\ UNCHANGED <<block_devices, ata_devices>>
          ELSE /\ block_register(<<"ata", Len(ata_devices)>>, Addressable(d), TRUE)
               /\ ata_devices' = IF Registers(Addressable(d))
                                 THEN Append(ata_devices, Addressable(d)) ELSE ata_devices
               /\ position' = position + 1
  /\ UNCHANGED virtio

(* find_device finds no transitional device on bus 0.                      *)
virtio_blk_absent ==
  /\ position = 4 /\ virtio = "none"
  /\ virtio' = "absent"
  /\ UNCHANGED <<block_devices, position, ata_devices>>

(* The queue needs room for one chain of three descriptors, its three      *)
(* pages below 4 GiB, and the device a capacity.                           *)
virtio_blk_init(queue_size, pages, sectors) ==
  /\ position = 4 /\ virtio = "none"
  /\ IF queue_size >= 3 /\ queue_size <= 256 /\ pages
     THEN /\ block_register(<<"virtio", 0>>, sectors, TRUE)
          /\ virtio' = IF Registers(sectors) THEN "ready" ELSE "failed"
     ELSE virtio' = "failed" /\ UNCHANGED block_devices
  /\ UNCHANGED <<position, ata_devices>>

(* block_self_test registers a read-only device of eight sectors, probes   *)
(* it and takes it away again, whatever the outcome.                       *)
block_self_test ==
  /\ virtio # "none"
  /\ LET before == Len(block_devices)
         after == Append(block_devices, [driver |-> <<"selftest", 0>>, sectors |-> 8,
                                         writable |-> FALSE])
     IN  block_devices' = SubSeq(after, 1, before)
  /\ UNCHANGED <<position, ata_devices, virtio>>

(* Mutation of InRange: the end of the request is computed, and wraps.     *)
InRange_wrapping(device, lba, count) == (lba + count) % WordRange <= device.sectors

InRange(device, lba, count) ==
  lba < device.sectors /\ count <= device.sectors - lba

(* The calls block_read and block_write hand on to the driver.             *)
Reads(id, lba, count) ==
  count # 0 /\ id < Len(block_devices) /\ InRange(block_devices[id + 1], lba, count)
Writes(id, lba, count) ==
  /\ count # 0 /\ id < Len(block_devices) /\ block_devices[id + 1].writable
  /\ InRange(block_devices[id + 1], lba, count)

Next ==
  \/ \E d \in Drives : ata_probe(d)
  \/ virtio_blk_absent
  \/ \E q \in QueueSizes, pages \in BOOLEAN, d \in Drives : virtio_blk_init(q, pages, d.sectors)
  \/ block_self_test
------------------------------------------------------------------------------
(* A device of the registry is a drive its driver knows: the n-th ATA      *)
(* entry is devices[n] with its sectors, none is lost or registered twice, *)
(* whatever the registry refused, and VirtIO is ready only with an entry.  *)
RegistryAgrees ==
  LET Of(name) == SelectSeq(block_devices, LAMBDA d : d.driver[1] = name) IN
  /\ Len(Of("ata")) = Len(ata_devices)
  /\ \A n \in DOMAIN ata_devices :
       Of("ata")[n].driver[2] = n - 1 /\ Of("ata")[n].sectors = ata_devices[n]
  /\ Len(Of("virtio")) = (IF virtio = "ready" THEN 1 ELSE 0)
  /\ Len(block_devices) = Len(Of("ata")) + Len(Of("virtio"))
  /\ Len(block_devices) <= BLOCK_DEVICE_MAX

(* A driver is only ever called for sectors its device has, whatever lba   *)
(* and count the caller passes, their sum beyond the word included.        *)
CallsInRange ==
  \A id \in 0 .. BLOCK_DEVICE_MAX, lba, count \in 0 .. WordRange - 1 :
    Reads(id, lba, count) \/ Writes(id, lba, count) =>
      lba + count <= block_devices[id + 1].sectors

=============================================================================
