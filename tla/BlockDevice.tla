------------------------------ MODULE BlockDevice ------------------------------
(***************************************************************************)
(* PosixBlockDevice: objects that own a descriptor of the process each,    *)
(* with the geometry read when it was opened, and the transfers of an      *)
(* AlignedBuffer to and from a sector.  path_ is never read and left out.  *)
(***************************************************************************)
EXTENDS AlignedBuffer

CONSTANTS
  Objects,      \* the variables that may hold a device
  Descriptors,  \* the descriptors the process may have
  Paths,        \* the devices there are,
  CellsOf,      \* their sizes in cells,
  SectorOf,     \* and their logical sector sizes
  Fallback,     \* 4096
  Lbas,         \* sector numbers to ask for
  Wrap          \* 2^64

VARIABLES
  devices,  \* the objects: alive, fd_, sector_size_, total_sectors_
  table,    \* the descriptors that are open, and for which device
  media,    \* what the devices hold
  last      \* the last call, if it was a transfer that returned true

vars == <<buffer_vars, devices, table, media, last>>

ASSUME DeviceAssumption ==
  /\ Descriptors \subseteq Nat
  /\ CellsOf \in [Paths -> Nat]
  /\ SectorOf \in [Paths -> Nat \ {0}]
  /\ Fallback \in Nat \ {0}
  /\ Lbas \subseteq Nat
  /\ Wrap \in Nat \ {0}

Fresh == [alive |-> FALSE, fd |-> -1, sector_size |-> Fallback, total_sectors |-> 0]

NoTransfer == <<>>

Init ==
  /\ BufferInit
  /\ devices = [o \in Objects |-> Fresh]
  /\ table = [fd \in {} |-> Fresh]
  /\ media \in {m \in [Paths -> UNION {[0 .. CellsOf[p] - 1 -> Values] : p \in Paths}] :
                  \A p \in Paths : DOMAIN m[p] = 0 .. CellsOf[p] - 1}
  /\ last = NoTransfer

----------------------------------------------------------------------------
\* The table after an object's close().  It closes nothing if fd_ is -1.
AfterClose(o) == [fd \in DOMAIN table \ {devices[o].fd} |-> table[fd]]

Create(o) ==
  /\ ~ devices[o].alive
  /\ devices' = [devices EXCEPT ![o] = [Fresh EXCEPT !.alive = TRUE]]
  /\ UNCHANGED table

Close(o) ==
  /\ devices[o].alive
  /\ table' = AfterClose(o)
  /\ devices' = [devices EXCEPT ![o].fd = -1]

Delete(o) ==
  /\ devices[o].alive
  /\ table' = AfterClose(o)
  /\ devices' = [devices EXCEPT ![o] = Fresh]

MoveDevice(o, p) ==
  /\ ~ devices[o].alive
  /\ devices[p].alive
  /\ devices' = [devices EXCEPT ![o] = devices[p], ![p].fd = -1]
  /\ UNCHANGED table

\* As if what the object had open were not closed before.
AssignDeviceOverOpen(o, p) ==
  /\ o # p
  /\ devices[o].alive
  /\ devices[p].alive
  /\ devices' = [devices EXCEPT ![o] = devices[p], ![p].fd = -1]
  /\ UNCHANGED table

AssignDevice(o, p) ==
  /\ o # p
  /\ devices[o].alive
  /\ devices[p].alive
  /\ table' = AfterClose(o)
  /\ devices' = [devices EXCEPT ![o] = devices[p], ![p].fd = -1]

OpenFails(o) ==
  /\ devices[o].alive
  /\ table' = AfterClose(o)
  /\ devices' = [devices EXCEPT ![o].fd = -1]

\* As if a failing BLKSSZGET left what the object held before.
SectorSizesOrOld(o, path) == {SectorOf[path], devices[o].sector_size}

\* Either ioctl may fail.  The number of sectors is then left as it was.
SectorSizes(o, path) == {SectorOf[path], Fallback}

query_device_geometry(o, path, fd) ==
  \E sector_size \in SectorSizes(o, path) :
    \E total_sectors \in {CellsOf[path] \div sector_size, devices[o].total_sectors} :
      devices' = [devices EXCEPT ![o] =
        [alive |-> TRUE, fd |-> fd, sector_size |-> sector_size, total_sectors |-> total_sectors]]

\* open() closes first; the system may give the same number again.
OpenWorks(o, path) ==
  /\ devices[o].alive
  /\ \E fd \in Descriptors \ DOMAIN AfterClose(o) :
       /\ table' = [d \in DOMAIN AfterClose(o) \union {fd} |-> IF d = fd THEN path ELSE table[d]]
       /\ query_device_geometry(o, path, fd)

----------------------------------------------------------------------------
IsOpen(o) == devices[o].alive /\ devices[o].fd >= 0

Device(o) == table[devices[o].fd]

Offset(o, lba) == (lba * devices[o].sector_size) % Wrap

\* What pread and pwrite may return on a device opened with O_DIRECT: nothing
\* is transferred unless all is aligned to its sectors, nothing past its end.
Transfers(o, lba, b) ==
  LET offset == Offset(o, lba)
      sector == SectorOf[Device(o)]
  IN {-1} \union {n \in 0 .. buffers[b].size :
        /\ n = 0 \/ offset + n <= CellsOf[Device(o)]
        /\ n % sector = 0
        /\ n > 0 => /\ offset % sector = 0
                    /\ buffers[b].size % sector = 0
                    /\ buffers[b].data % sector = 0}

Stored(m, offset, n, content) ==
  [i \in DOMAIN m |-> IF i \in offset .. offset + n - 1 THEN content[i - offset] ELSE m[i]]

Loaded(content, offset, n, m) ==
  [i \in DOMAIN content |-> IF i < n THEN m[offset + i] ELSE content[i]]

Answer(o, lba, b, returned) ==
  last' = IF returned THEN [object |-> o, lba |-> lba, buffer |-> b] ELSE NoTransfer

\* The checks before the system call.
PointerRefused(b) == buffers[b].data % buffers[b].alignment # 0

SizeRefused(o, b) == buffers[b].size % devices[o].sector_size # 0

WriteRefused(o, lba, b) ==
  /\ ~ IsOpen(o) \/ PointerRefused(b) \/ SizeRefused(o, b)
  /\ Answer(o, lba, b, FALSE)
  /\ UNCHANGED <<heap, media>>

pwrite(o, lba, b) ==
  /\ IsOpen(o) /\ ~ PointerRefused(b) /\ ~ SizeRefused(o, b)
  /\ \E n \in Transfers(o, lba, b) :
       /\ media' = IF n <= 0 THEN media
                   ELSE [media EXCEPT ![Device(o)] =
                           Stored(@, Offset(o, lba), n, heap[buffers[b].data])]
       /\ Answer(o, lba, b, n = buffers[b].size)
  /\ UNCHANGED heap

ReadRefused(o, lba, b) ==
  /\ ~ IsOpen(o) \/ PointerRefused(b)
  /\ Answer(o, lba, b, FALSE)
  /\ UNCHANGED <<heap, media>>

\* As if any number of bytes read would do.
AnyRead(n, size) == n > 0

WholeRead(n, size) == n > 0 /\ n = size

pread(o, lba, b) ==
  /\ IsOpen(o) /\ ~ PointerRefused(b)
  /\ \E n \in Transfers(o, lba, b) :
       /\ heap' = IF n <= 0 THEN heap
                  ELSE [heap EXCEPT ![buffers[b].data] =
                          Loaded(@, Offset(o, lba), n, media[Device(o)])]
       /\ Answer(o, lba, b, WholeRead(n, buffers[b].size))
  /\ UNCHANGED media

Ownership ==
  /\ \E o \in Objects :
       \/ Create(o) \/ Close(o) \/ Delete(o) \/ OpenFails(o)
       \/ \E path \in Paths : OpenWorks(o, path)
       \/ \E p \in Objects : MoveDevice(o, p) \/ AssignDevice(o, p)
  /\ last' = NoTransfer
  /\ UNCHANGED <<buffer_vars, media>>

Transfer ==
  /\ \E o \in Objects, b \in Buffers, lba \in Lbas :
       /\ devices[o].alive /\ buffers[b].alive
       /\ \/ WriteRefused(o, lba, b) \/ pwrite(o, lba, b)
          \/ ReadRefused(o, lba, b) \/ pread(o, lba, b)
  /\ UNCHANGED <<buffers, devices, table>>

BufferStep ==
  /\ BufferNext
  /\ last' = NoTransfer
  /\ UNCHANGED <<devices, table, media>>

Next == Ownership \/ Transfer \/ BufferStep

Spec == Init /\ [][Next]_vars

----------------------------------------------------------------------------
\* However devices are opened, moved and assigned, no descriptor has two
\* objects that would close it, none is closed under an object that uses it
\* and none is leaked.
EachDescriptorHasOneOwner ==
  /\ \A o, p \in Objects : (o # p /\ devices[o].fd = devices[p].fd) => devices[o].fd = -1
  /\ DOMAIN table = {devices[o].fd : o \in Objects} \ {-1}

\* An open object addresses by the sector size of the device it is open on, or
\* by the fallback: never by that of a device it was open on before.
AddressedByItsDevice ==
  \A o \in Objects : IsOpen(o) => devices[o].sector_size \in {SectorOf[Device(o)], Fallback}

\* After a transfer that returned true the buffer, all of it, is what the
\* device holds from that sector on, if lba * sector_size_ does not overflow.
TrueMeansTransferred ==
  last # NoTransfer =>
    LET offset == last.lba * devices[last.object].sector_size
        buffer == buffers[last.buffer]
    IN offset < Wrap =>
         \A i \in 0 .. buffer.size - 1 :
           media[Device(last.object)][offset + i] = heap[buffer.data][i]
==============================================================================
