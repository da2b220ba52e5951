--------------------------- MODULE BlockDeviceProofs ---------------------------
(***************************************************************************)
(* Each block of the heap and each open descriptor has one owner, each     *)
(* device is addressed by its own sector size, and what a transfer that    *)
(* returned true leaves: for any number of buffers, objects, devices and   *)
(* descriptors, any sizes, alignments and contents, whatever fails.        *)
(***************************************************************************)
EXTENDS BlockDevice, TLAPS

Pointers == Addresses \union {nullptr}

BufferRecords == [alive : BOOLEAN, data : Pointers, size : Nat, alignment : Nat \ {0}]

\* An object that is not alive owns nothing, so a new one may take its place.
BlockOwners ==
  /\ buffers \in [Buffers -> BufferRecords]
  /\ \A b \in Buffers : ~ buffers[b].alive => buffers[b].data = nullptr
  /\ EachBlockHasOneOwner

\* One object gets a block that no other object has, and gives up its own.
LEMMA BlockReplaced ==
  ASSUME BlockOwners,
         NEW b \in Buffers, NEW r \in BufferRecords,
         buffers' = [buffers EXCEPT ![b] = r],
         r.data = nullptr \/ r.data \notin DOMAIN heap,
         ~ r.alive => r.data = nullptr,
         DOMAIN heap' = (DOMAIN heap \ {buffers[b].data}) \union ({r.data} \ {nullptr})
  PROVE  BlockOwners'
<1>1. buffers' \in [Buffers -> BufferRecords]
  BY DEF BlockOwners
<1>2. \A c \in Buffers : buffers'[c] = IF c = b THEN r ELSE buffers[c]
  BY DEF BlockOwners
<1>3. \A c \in Buffers : ~ buffers'[c].alive => buffers'[c].data = nullptr
  BY <1>2 DEF BlockOwners
<1>4. \A c \in Buffers : c # b => buffers[c].data # r.data \/ r.data = nullptr
  BY DEF BlockOwners, EachBlockHasOneOwner
<1>5. \A c, d \in Buffers :
        (c # d /\ buffers'[c].data = buffers'[d].data) => buffers'[c].data = nullptr
  BY <1>2, <1>4 DEF BlockOwners, EachBlockHasOneOwner
<1>6. {buffers'[c].data : c \in Buffers} =
        {buffers[c].data : c \in Buffers \ {b}} \union {r.data}
  BY <1>2
<1>7. {buffers[c].data : c \in Buffers \ {b}} \ {nullptr} = DOMAIN heap \ {buffers[b].data}
  BY DEF BlockOwners, EachBlockHasOneOwner
<1>8. DOMAIN heap' = {buffers'[c].data : c \in Buffers} \ {nullptr}
  BY <1>6, <1>7
<1>9. QED  BY <1>1, <1>3, <1>5, <1>8 DEF BlockOwners, EachBlockHasOneOwner

\* A block goes from one object to another that has none left.
LEMMA BlockMoved ==
  ASSUME BlockOwners,
         NEW b \in Buffers, NEW c \in Buffers, b # c,
         buffers[c].alive,
         buffers' = [buffers EXCEPT ![b] = buffers[c], ![c] = MovedFrom(buffers[c])],
         DOMAIN heap' = DOMAIN heap \ {buffers[b].data}
  PROVE  BlockOwners'
<1>1. /\ buffers[c] \in BufferRecords
      /\ MovedFrom(buffers[c]) \in BufferRecords
      /\ MovedFrom(buffers[c]).data = nullptr
      /\ MovedFrom(buffers[c]).alive
  BY DEF BlockOwners, BufferRecords, MovedFrom, Pointers
<1>2. \A d \in Buffers : buffers'[d] = IF d = c THEN MovedFrom(buffers[c])
                                       ELSE IF d = b THEN buffers[c] ELSE buffers[d]
  BY DEF BlockOwners
<1>3. buffers' \in [Buffers -> BufferRecords]
  BY <1>1 DEF BlockOwners
<1>4. \A d \in Buffers : ~ buffers'[d].alive => buffers'[d].data = nullptr
  BY <1>1, <1>2 DEF BlockOwners
<1>5. /\ buffers'[c].data = nullptr
      /\ buffers'[b].data = buffers[c].data
      /\ \A d \in Buffers : (d # b /\ d # c) => buffers'[d].data = buffers[d].data
  <2>1. buffers'[c] = MovedFrom(buffers[c])
    BY <1>2
  <2>2. buffers'[b] = buffers[c] /\ \A d \in Buffers : (d # b /\ d # c) => buffers'[d] = buffers[d]
    BY <1>2
  <2>3. QED  BY <1>1, <2>1, <2>2
<1>6. \A d, e \in Buffers :
        (d # e /\ buffers'[d].data = buffers'[e].data) => buffers'[d].data = nullptr
  BY <1>5 DEF BlockOwners, EachBlockHasOneOwner
<1>7. {buffers'[d].data : d \in Buffers} \ {nullptr} =
        {buffers[d].data : d \in Buffers \ {b}} \ {nullptr}
  <2>1. ASSUME NEW d \in Buffers, buffers'[d].data # nullptr
        PROVE  \E e \in Buffers \ {b} : buffers[e].data = buffers'[d].data
    BY <1>5, <2>1
  <2>2. ASSUME NEW d \in Buffers \ {b}, buffers[d].data # nullptr
        PROVE  \E e \in Buffers : buffers'[e].data = buffers[d].data
    BY <1>5, <2>2
  <2> DEFINE A == {buffers'[d].data : d \in Buffers}
             B == {buffers[d].data : d \in Buffers \ {b}}
  <2>3. ASSUME NEW x, x # nullptr PROVE x \in A <=> x \in B
    <3>1. ASSUME x \in A PROVE x \in B
      <4>1. PICK d \in Buffers : x = buffers'[d].data
        BY <3>1
      <4>2. PICK e \in Buffers \ {b} : buffers[e].data = buffers'[d].data
        BY <2>1, <2>3, <4>1
      <4>3. QED  BY <4>1, <4>2
    <3>2. ASSUME x \in B PROVE x \in A
      <4>1. PICK d \in Buffers \ {b} : x = buffers[d].data
        BY <3>2
      <4>2. PICK e \in Buffers : buffers'[e].data = buffers[d].data
        BY <2>2, <2>3, <4>1
      <4>3. QED  BY <4>1, <4>2
    <3>3. QED  BY <3>1, <3>2
  <2> HIDE DEF A, B
  <2>4. A \ {nullptr} = B \ {nullptr}
    BY <2>3
  <2>5. QED  BY <2>4 DEF A, B
<1>8. {buffers[d].data : d \in Buffers \ {b}} \ {nullptr} = DOMAIN heap \ {buffers[b].data}
  BY DEF BlockOwners, EachBlockHasOneOwner
<1>9. DOMAIN heap' = {buffers'[d].data : d \in Buffers} \ {nullptr}
  BY <1>7, <1>8
<1>10. QED  BY <1>3, <1>4, <1>6, <1>9 DEF BlockOwners, EachBlockHasOneOwner

LEMMA BlockOwnersInit == BufferInit => BlockOwners
BY DEF BufferInit, BlockOwners, BufferRecords, Pointers, NoBuffer, EachBlockHasOneOwner,
       nullptr

LEMMA BlockOwnersStep == BlockOwners /\ [BufferNext]_buffer_vars => BlockOwners'
<1> SUFFICES ASSUME BlockOwners, [BufferNext]_buffer_vars PROVE BlockOwners'
  OBVIOUS
<1>1. CASE UNCHANGED buffer_vars
  BY <1>1 DEF buffer_vars, BlockOwners, EachBlockHasOneOwner
<1>2. ASSUME NEW b \in Buffers, NEW size \in Sizes, NEW alignment \in Alignments,
             Construct(b, size, alignment)
      PROVE  BlockOwners'
  <2>1. PICK a \in Addresses \ DOMAIN heap, content \in Contents(size) :
          /\ heap' = Allocated(heap, a, content)
          /\ buffers' = [buffers EXCEPT ![b] =
               [alive |-> TRUE, data |-> a, size |-> size, alignment |-> alignment]]
    BY <1>2 DEF Construct
  <2> DEFINE r == [alive |-> TRUE, data |-> a, size |-> size, alignment |-> alignment]
  <2>2. r \in BufferRecords /\ r.data = a /\ a # nullptr /\ r.alive
    BY BufferAssumption DEF BufferRecords, Pointers, BufferAssumption
  <2>3. buffers[b].data = nullptr /\ nullptr \notin DOMAIN heap
    BY <1>2 DEF Construct, BlockOwners, EachBlockHasOneOwner
  <2>4. DOMAIN heap' = (DOMAIN heap \ {buffers[b].data}) \union ({r.data} \ {nullptr})
    BY <2>1, <2>2, <2>3 DEF Allocated
  <2>5. buffers' = [buffers EXCEPT ![b] = r]
    BY <2>1
  <2> HIDE DEF r
  <2>6. QED  BY <2>1, <2>2, <2>4, <2>5, BlockReplaced
<1>3. ASSUME NEW b \in Buffers, Destroy(b) PROVE BlockOwners'
  <2>1. NoBuffer \in BufferRecords /\ NoBuffer.data = nullptr
    BY DEF NoBuffer, BufferRecords, Pointers
  <2>2. DOMAIN heap' = (DOMAIN heap \ {buffers[b].data}) \union ({NoBuffer.data} \ {nullptr})
    BY <1>3, <2>1 DEF Destroy, Freed
  <2>3. QED  BY <1>3, <2>1, <2>2, BlockReplaced DEF Destroy
<1>4. ASSUME NEW b \in Buffers, NEW c \in Buffers, MoveConstruct(b, c) PROVE BlockOwners'
  <2>1. b # c /\ buffers[b].data = nullptr /\ nullptr \notin DOMAIN heap
    BY <1>4 DEF MoveConstruct, BlockOwners, EachBlockHasOneOwner
  <2>2. DOMAIN heap' = DOMAIN heap \ {buffers[b].data}
    BY <1>4, <2>1 DEF MoveConstruct
  <2>3. QED  BY <1>4, <2>1, <2>2, BlockMoved DEF MoveConstruct
<1>5. ASSUME NEW b \in Buffers, NEW c \in Buffers, MoveAssign(b, c) PROVE BlockOwners'
  <2>1. DOMAIN heap' = DOMAIN heap \ {buffers[b].data}
    BY <1>5 DEF MoveAssign, Freed
  <2>2. QED  BY <1>5, <2>1, BlockMoved DEF MoveAssign
<1>6. ASSUME NEW b \in Buffers, NEW v \in Values, SetTo(b, v) PROVE BlockOwners'
  <2>1. DOMAIN heap' = DOMAIN heap /\ buffers' = buffers
    BY <1>6 DEF SetTo
  <2>2. QED  BY <2>1 DEF BlockOwners, EachBlockHasOneOwner
<1>7. QED  BY <1>1, <1>2, <1>3, <1>4, <1>5, <1>6 DEF BufferNext

\* However buffers are made, moved and destroyed, each block has one owner, no
\* buffer points to one that was freed, and none is lost.
THEOREM BlocksOwned == BufferSpec => []EachBlockHasOneOwner
<1>1. BlockOwners => EachBlockHasOneOwner
  BY DEF BlockOwners
<1>2. QED  BY BlockOwnersInit, BlockOwnersStep, <1>1, PTL DEF BufferSpec

----------------------------------------------------------------------------
\* The devices, and what they are open on.

Shut == -1

Records == [alive : BOOLEAN, fd : Descriptors \union {Shut}, sector_size : Nat, total_sectors : Nat]

Addressing(r, t) == r.fd # Shut => r.sector_size \in {SectorOf[t[r.fd]], Fallback}

Owners ==
  /\ devices \in [Objects -> Records]
  /\ \A o \in Objects : ~ devices[o].alive => devices[o].fd = Shut
  /\ \A o, p \in Objects : (o # p /\ devices[o].fd = devices[p].fd) => devices[o].fd = Shut
  /\ DOMAIN table = {devices[o].fd : o \in Objects} \ {Shut}
  /\ \A o \in Objects : Addressing(devices[o], table)

LEMMA OwnersMeans == Owners => EachDescriptorHasOneOwner /\ AddressedByItsDevice
BY DeviceAssumption DEF Owners, EachDescriptorHasOneOwner, AddressedByItsDevice, Addressing, IsOpen, Device,
   Shut, DeviceAssumption, Records

\* An object gives up its descriptor, for none or for one that nobody has.
LEMMA OwnerReplaced ==
  ASSUME Owners,
         NEW o \in Objects, NEW r \in Records,
         devices' = [devices EXCEPT ![o] = r],
         r.fd = Shut \/ r.fd \notin DOMAIN AfterClose(o),
         ~ r.alive => r.fd = Shut,
         DOMAIN table' = DOMAIN AfterClose(o) \union ({r.fd} \ {Shut}),
         \A fd \in DOMAIN AfterClose(o) : table'[fd] = table[fd],
         Addressing(r, table')
  PROVE  Owners'
<1>1. devices' \in [Objects -> Records]
  BY DEF Owners
<1>2. \A p \in Objects : devices'[p] = IF p = o THEN r ELSE devices[p]
  BY DEF Owners
<1>3. \A p \in Objects : ~ devices'[p].alive => devices'[p].fd = Shut
  BY <1>2 DEF Owners
<1>4. DOMAIN AfterClose(o) = {devices[p].fd : p \in Objects \ {o}} \ {Shut}
  BY DEF Owners, AfterClose
<1>5. \A p \in Objects : p # o => devices[p].fd # r.fd \/ r.fd = Shut
  BY <1>4
<1>6. \A p, q \in Objects :
        (p # q /\ devices'[p].fd = devices'[q].fd) => devices'[p].fd = Shut
  BY <1>2, <1>5 DEF Owners
<1>7. {devices'[p].fd : p \in Objects} = {devices[p].fd : p \in Objects \ {o}} \union {r.fd}
  BY <1>2
<1>8. DOMAIN table' = {devices'[p].fd : p \in Objects} \ {Shut}
  BY <1>4, <1>7
<1>9. \A p \in Objects : Addressing(devices'[p], table')
  BY <1>2, <1>4 DEF Addressing, Owners
<1>10. QED  BY <1>1, <1>3, <1>6, <1>8, <1>9 DEF Owners

\* A descriptor goes from one object to another, which closed its own.
LEMMA OwnerMoved ==
  ASSUME Owners,
         NEW o \in Objects, NEW p \in Objects, o # p,
         devices[p].alive,
         devices' = [devices EXCEPT ![o] = devices[p], ![p].fd = Shut],
         DOMAIN table' = DOMAIN AfterClose(o),
         \A fd \in DOMAIN table' : table'[fd] = table[fd]
  PROVE  Owners'
<1>1. devices[p] \in Records /\ [devices[p] EXCEPT !.fd = Shut] \in Records
  BY DEF Owners, Records
<1>2. \A q \in Objects : devices'[q] = IF q = p THEN [devices[p] EXCEPT !.fd = Shut]
                                       ELSE IF q = o THEN devices[p] ELSE devices[q]
  BY DEF Owners
<1>3. devices' \in [Objects -> Records]
  BY <1>1 DEF Owners
<1>4. /\ devices'[p].fd = Shut /\ devices'[p].alive
      /\ devices'[o] = devices[p]
      /\ \A q \in Objects : (q # o /\ q # p) => devices'[q] = devices[q]
  <2>1. devices'[p] = [devices[p] EXCEPT !.fd = Shut]
    BY <1>2
  <2>2. QED  BY <1>1, <1>2, <2>1 DEF Records
<1>5. \A q \in Objects : ~ devices'[q].alive => devices'[q].fd = Shut
  BY <1>4 DEF Owners
<1>6. \A q, s \in Objects :
        (q # s /\ devices'[q].fd = devices'[s].fd) => devices'[q].fd = Shut
  BY <1>4 DEF Owners
<1>7. DOMAIN table' = {devices[q].fd : q \in Objects \ {o}} \ {Shut}
  BY DEF Owners, AfterClose
<1> DEFINE A == {devices'[q].fd : q \in Objects}
           B == {devices[q].fd : q \in Objects \ {o}}
<1>8. ASSUME NEW x, x # Shut PROVE x \in A <=> x \in B
  <2>1. ASSUME x \in A PROVE x \in B
    <3>1. PICK q \in Objects : x = devices'[q].fd
      BY <2>1
    <3>2. PICK s \in Objects \ {o} : devices[s].fd = devices'[q].fd
      BY <1>4, <1>8, <3>1
    <3>3. QED  BY <3>1, <3>2
  <2>2. ASSUME x \in B PROVE x \in A
    <3>1. PICK q \in Objects \ {o} : x = devices[q].fd
      BY <2>2
    <3>2. PICK s \in Objects : devices'[s].fd = devices[q].fd
      BY <1>4, <1>8, <3>1
    <3>3. QED  BY <3>1, <3>2
  <2>3. QED  BY <2>1, <2>2
<1>9. A \ {Shut} = B \ {Shut}
  <2> HIDE DEF A, B
  <2>1. QED  BY <1>8
<1>10. DOMAIN table' = {devices'[q].fd : q \in Objects} \ {Shut}
  BY <1>7, <1>9
<1>11. ASSUME NEW q \in Objects PROVE Addressing(devices'[q], table')
  <2>1. CASE q = p
    BY <1>4, <2>1 DEF Addressing
  <2>2. CASE q # p
    <3>1. PICK s \in Objects : devices'[q] = devices[s]
      BY <1>4, <2>2
    <3>2. devices'[q].fd # Shut => table'[devices'[q].fd] = table[devices'[q].fd]
      BY <1>10
    <3>3. Addressing(devices[s], table)
      BY DEF Owners
    <3>4. QED  BY <3>1, <3>2, <3>3 DEF Addressing
  <2>3. QED  BY <2>1, <2>2
<1>12. QED  BY <1>3, <1>5, <1>6, <1>10, <1>11 DEF Owners

LEMMA OwnersInit == Init => Owners
BY DeviceAssumption DEF Init, Owners, Records, Fresh, Shut, Addressing, DeviceAssumption

\* close(), and what ends with it.
LEMMA OwnerCloses ==
  ASSUME Owners, NEW o \in Objects, NEW r \in Records, r.fd = Shut,
         table' = AfterClose(o), devices' = [devices EXCEPT ![o] = r]
  PROVE  Owners'
<1>1. DOMAIN table' = DOMAIN AfterClose(o) \union ({r.fd} \ {Shut})
  OBVIOUS
<1>2. Addressing(r, table')
  BY DEF Addressing
<1>3. \A fd \in DOMAIN AfterClose(o) : table'[fd] = table[fd]
  BY DEF AfterClose
<1>4. QED  BY <1>1, <1>2, <1>3, OwnerReplaced

LEMMA OwnersStep == Owners /\ [Next]_vars => Owners'
<1> SUFFICES ASSUME Owners, [Next]_vars PROVE Owners'
  OBVIOUS
<1>1. ASSUME devices' = devices, table' = table PROVE Owners'
  BY <1>1 DEF Owners, Addressing
<1>2. CASE UNCHANGED vars
  BY <1>1, <1>2 DEF vars
<1>3. CASE Transfer
  BY <1>1, <1>3 DEF Transfer
<1>4. CASE BufferStep
  BY <1>1, <1>4 DEF BufferStep
<1>5. CASE Ownership
  <2>1. ASSUME NEW o \in Objects, Create(o) PROVE Owners'
    <3> DEFINE r == [Fresh EXCEPT !.alive = TRUE]
    <3>1. r \in Records /\ r.fd = Shut
      BY DeviceAssumption DEF Records, Fresh, Shut, DeviceAssumption
    <3>2. devices[o].fd = Shut /\ Shut \notin DOMAIN table
      BY <2>1 DEF Create, Owners
    <3>3. DOMAIN table' = DOMAIN AfterClose(o) \union ({r.fd} \ {Shut})
      BY <2>1, <3>1, <3>2 DEF Create, AfterClose
    <3>4. \A fd \in DOMAIN AfterClose(o) : table'[fd] = table[fd]
      BY <2>1 DEF Create
    <3>5. Addressing(r, table')
      BY <3>1 DEF Addressing
    <3>6. devices' = [devices EXCEPT ![o] = r]
      BY <2>1 DEF Create
    <3>7. ~ r.alive => r.fd = Shut
      BY <3>1
    <3> HIDE DEF r
    <3>8. QED  BY <3>1, <3>3, <3>4, <3>5, <3>6, <3>7, OwnerReplaced
  <2>2. ASSUME NEW o \in Objects, Close(o) \/ OpenFails(o) PROVE Owners'
    <3> DEFINE r == [devices[o] EXCEPT !.fd = Shut]
    <3>1. r \in Records /\ r.fd = Shut
      BY DEF Owners, Records
    <3>2. devices' = [devices EXCEPT ![o] = r] /\ table' = AfterClose(o)
      BY <2>2 DEF Close, OpenFails, Shut
    <3> HIDE DEF r
    <3>3. QED  BY <3>1, <3>2, OwnerCloses
  <2>3. ASSUME NEW o \in Objects, Delete(o) PROVE Owners'
    <3>1. Fresh \in Records /\ Fresh.fd = Shut
      BY DeviceAssumption DEF Records, Fresh, Shut, DeviceAssumption
    <3>2. QED  BY <2>3, <3>1, OwnerCloses DEF Delete
  <2>4. ASSUME NEW o \in Objects, NEW path \in Paths, OpenWorks(o, path) PROVE Owners'
    <3>1. PICK fd \in Descriptors \ DOMAIN AfterClose(o) :
            /\ table' = [d \in DOMAIN AfterClose(o) \union {fd} |-> IF d = fd THEN path ELSE table[d]]
            /\ query_device_geometry(o, path, fd)
      BY <2>4 DEF OpenWorks
    <3>0. PICK sector_size \in SectorSizes(o, path) :
            \E total_sectors \in {CellsOf[path] \div sector_size, devices[o].total_sectors} :
              devices' = [devices EXCEPT ![o] = [alive |-> TRUE, fd |-> fd, sector_size |-> sector_size,
                                                 total_sectors |-> total_sectors]]
      BY <3>1 DEF query_device_geometry
    <3>2. PICK total_sectors \in {CellsOf[path] \div sector_size, devices[o].total_sectors} :
            devices' = [devices EXCEPT ![o] = [alive |-> TRUE, fd |-> fd, sector_size |-> sector_size,
                                               total_sectors |-> total_sectors]]
      BY <3>0
    <3> DEFINE r == [alive |-> TRUE, fd |-> fd, sector_size |-> sector_size, total_sectors |-> total_sectors]
    <3>3. sector_size \in Nat \ {0} /\ total_sectors \in Nat
      <4>1. sector_size \in Nat \ {0} /\ CellsOf[path] \in Nat /\ devices[o].total_sectors \in Nat
        BY DeviceAssumption DEF DeviceAssumption, SectorSizes, Owners, Records
      <4>2. QED  BY <4>1
    <3>4. r \in Records /\ r.fd = fd /\ r.alive /\ fd # Shut
      BY <3>3, DeviceAssumption DEF Records, DeviceAssumption, Shut
    <3>5. DOMAIN table' = DOMAIN AfterClose(o) \union ({r.fd} \ {Shut})
      BY <3>1, <3>4
    <3>6. \A d \in DOMAIN AfterClose(o) : table'[d] = table[d]
      BY <3>1
    <3>7. Addressing(r, table')
      BY <3>1 DEF Addressing, SectorSizes
    <3>8. devices' = [devices EXCEPT ![o] = r]
      BY <3>2
    <3> HIDE DEF r
    <3>9. QED  BY <3>4, <3>5, <3>6, <3>7, <3>8, OwnerReplaced
  <2>5. ASSUME NEW o \in Objects, NEW p \in Objects, MoveDevice(o, p) PROVE Owners'
    <3>1. o # p /\ devices[o].fd = Shut /\ Shut \notin DOMAIN table
      BY <2>5 DEF MoveDevice, Owners
    <3>2. DOMAIN table' = DOMAIN AfterClose(o) /\ \A fd \in DOMAIN table' : table'[fd] = table[fd]
      BY <2>5, <3>1 DEF MoveDevice, AfterClose
    <3>3. QED  BY <2>5, <3>1, <3>2, OwnerMoved DEF MoveDevice, Shut
  <2>6. ASSUME NEW o \in Objects, NEW p \in Objects, AssignDevice(o, p) PROVE Owners'
    <3>1. DOMAIN table' = DOMAIN AfterClose(o) /\ \A fd \in DOMAIN table' : table'[fd] = table[fd]
      BY <2>6 DEF AssignDevice, AfterClose
    <3>2. QED  BY <2>6, <3>1, OwnerMoved DEF AssignDevice, Shut
  <2>7. QED  BY <1>5, <2>1, <2>2, <2>3, <2>4, <2>5, <2>6 DEF Ownership
<1>6. QED  BY <1>2, <1>3, <1>4, <1>5 DEF Next

\* No sequence of open, close, move and assignment leaks a descriptor, closes
\* one twice or leaves an object with one that is not its own.
THEOREM DescriptorsOwned == Spec => []EachDescriptorHasOneOwner
BY OwnersInit, OwnersStep, OwnersMeans, PTL DEF Spec

\* An object that was opened again does not address by the sector size of the
\* device before, although either ioctl may fail.
THEOREM OwnSectorSize == Spec => []AddressedByItsDevice
BY OwnersInit, OwnersStep, OwnersMeans, PTL DEF Spec

----------------------------------------------------------------------------
\* The blocks of the buffers, while devices read into them.

\* A transfer changes what a block holds, but neither which blocks there are nor
\* whose they are.
LEMMA TransferKeepsBlocks ==
  ASSUME Transfer PROVE buffers' = buffers /\ DOMAIN heap' = DOMAIN heap
<1>1. PICK o \in Objects, b \in Buffers, lba \in Lbas :
        WriteRefused(o, lba, b) \/ pwrite(o, lba, b) \/ ReadRefused(o, lba, b) \/ pread(o, lba, b)
  BY DEF Transfer
<1>2. CASE WriteRefused(o, lba, b) \/ pwrite(o, lba, b) \/ ReadRefused(o, lba, b)
  BY <1>2 DEF Transfer, WriteRefused, pwrite, ReadRefused
<1>3. CASE pread(o, lba, b)
  <2>1. PICK n \in Transfers(o, lba, b) :
          heap' = IF n <= 0 THEN heap
                  ELSE [heap EXCEPT ![buffers[b].data] =
                          Loaded(@, Offset(o, lba), n, media[Device(o)])]
    BY <1>3 DEF pread
  <2>2. QED  BY <2>1 DEF Transfer
<1>4. QED  BY <1>1, <1>2, <1>3

\* No step of the whole changes whose blocks they are but the moves of buffers.
LEMMA BlocksStep == BlockOwners /\ [Next]_vars => BlockOwners'
<1> SUFFICES ASSUME BlockOwners, [Next]_vars PROVE BlockOwners'
  OBVIOUS
<1>1. CASE buffers' = buffers /\ DOMAIN heap' = DOMAIN heap
  BY <1>1 DEF BlockOwners, EachBlockHasOneOwner
<1>2. CASE BufferNext
  BY <1>2, BlockOwnersStep
<1>3. QED
  BY <1>1, <1>2, TransferKeepsBlocks DEF Next, Ownership, BufferStep, vars, buffer_vars

\* Whatever is transferred between the moves of buffers and devices, each block
\* has one owner, no buffer points to one that was freed, and none is lost.
THEOREM BlocksOwnedThroughout == Spec => []EachBlockHasOneOwner
<1>1. Init => BlockOwners
  BY BlockOwnersInit DEF Init
<1>2. BlockOwners => EachBlockHasOneOwner
  BY DEF BlockOwners
<1>3. QED  BY <1>1, <1>2, BlocksStep, PTL DEF Spec

----------------------------------------------------------------------------
\* What blocks and devices hold.

\* Every device keeps its size, and a descriptor is open on one of them.
Held ==
  /\ media \in [Paths -> UNION {[0 .. CellsOf[p] - 1 -> Values] : p \in Paths}]
  /\ \A p \in Paths : media[p] \in [0 .. CellsOf[p] - 1 -> Values]
  /\ \A fd \in DOMAIN table : table[fd] \in Paths

DeviceInv == Owners /\ BlockOwners /\ BufferFitsItsBlock /\ Held

LEMMA OpenDevice ==
  ASSUME DeviceInv, NEW o \in Objects, IsOpen(o)
  PROVE  /\ Device(o) \in Paths
         /\ media[Device(o)] \in [0 .. CellsOf[Device(o)] - 1 -> Values]
         /\ CellsOf[Device(o)] \in Nat
<1>1. devices[o].fd # Shut
  BY DEF IsOpen, Shut, DeviceInv, Owners, Records
<1>2. devices[o].fd \in DOMAIN table
  BY <1>1 DEF DeviceInv, Owners
<1>3. QED  BY <1>2, DeviceAssumption DEF DeviceInv, Held, Device, DeviceAssumption

\* Below the width of the product the offset is the product.
LEMMA OffsetExact ==
  ASSUME DeviceInv, NEW o \in Objects, NEW lba \in Lbas
  PROVE  /\ Offset(o, lba) \in Nat
         /\ lba * devices[o].sector_size \in Nat
         /\ lba * devices[o].sector_size < Wrap =>
              Offset(o, lba) = lba * devices[o].sector_size
<1>1. lba \in Nat /\ devices[o].sector_size \in Nat /\ Wrap \in Nat \ {0}
  BY DeviceAssumption DEF DeviceAssumption, DeviceInv, Owners, Records
<1> DEFINE x == lba * devices[o].sector_size
<1>2. x \in Nat
  BY <1>1
<1> HIDE DEF x
<1>3. x % Wrap \in Nat /\ (x < Wrap => x % Wrap = x)
  BY <1>1, <1>2
<1>4. QED  BY <1>2, <1>3 DEF x, Offset

\* A buffer of some size has a block of that size.
LEMMA BlockBehind ==
  ASSUME DeviceInv, NEW b \in Buffers, buffers[b].size # 0
  PROVE  /\ buffers[b].data # nullptr /\ buffers[b].data \in DOMAIN heap
         /\ heap[buffers[b].data] \in [0 .. buffers[b].size - 1 -> Values]
         /\ buffers[b].data % buffers[b].alignment = 0
BY DEF DeviceInv, BlockOwners, EachBlockHasOneOwner, BufferFitsItsBlock, Contents

\* How far a transfer reaches.
LEMMA TransferWithin ==
  ASSUME DeviceInv, NEW o \in Objects, NEW lba \in Lbas, NEW b \in Buffers, IsOpen(o),
         NEW n \in Transfers(o, lba, b), n > 0
  PROVE  /\ n \in Nat /\ n <= buffers[b].size
         /\ Offset(o, lba) + n <= CellsOf[Device(o)]
         /\ buffers[b].size \in Nat \ {0}
<1>1. buffers[b].size \in Nat
  BY DEF DeviceInv, BlockOwners, BufferRecords
<1>2. n \in 0 .. buffers[b].size /\ (n = 0 \/ Offset(o, lba) + n <= CellsOf[Device(o)])
  BY DEF Transfers
<1>3. QED  BY <1>1, <1>2

LEMMA WriteStep ==
  ASSUME DeviceInv, NEW o \in Objects, NEW lba \in Lbas, NEW b \in Buffers,
         pwrite(o, lba, b), UNCHANGED <<buffers, devices, table>>
  PROVE  Held' /\ TrueMeansTransferred'
<1> DEFINE d == Device(o)
           offset == Offset(o, lba)
           content == heap[buffers[b].data]
<1>1. PICK n \in Transfers(o, lba, b) :
        /\ media' = IF n <= 0 THEN media
                    ELSE [media EXCEPT ![d] = Stored(media[d], offset, n, content)]
        /\ Answer(o, lba, b, n = buffers[b].size)
  BY DEF pwrite
<1>2. IsOpen(o) /\ heap' = heap
  BY DEF pwrite
<1>3. /\ d \in Paths /\ media[d] \in [0 .. CellsOf[d] - 1 -> Values] /\ CellsOf[d] \in Nat
      /\ offset \in Nat
  BY <1>2, OpenDevice, OffsetExact
<1>4. buffers[b].size \in Nat /\ n \in Int
  BY DEF DeviceInv, BlockOwners, BufferRecords, Transfers
<1>5. CASE n > 0
  <2>1. n \in Nat /\ n <= buffers[b].size /\ offset + n <= CellsOf[d]
    BY <1>2, <1>5, TransferWithin
  <2>2. content \in [0 .. buffers[b].size - 1 -> Values]
    BY <1>2, <1>5, TransferWithin, BlockBehind
  <2> DEFINE s == Stored(media[d], offset, n, content)
  <2> HIDE DEF d, offset, content
  <2>3. /\ s \in [0 .. CellsOf[d] - 1 -> Values]
        /\ \A i \in 0 .. n - 1 : s[offset + i] = content[i]
    <3>1. DOMAIN s = 0 .. CellsOf[d] - 1
      BY <1>3 DEF Stored
    <3>2. ASSUME NEW i \in 0 .. CellsOf[d] - 1 PROVE s[i] \in Values
      <4>1. CASE i \in offset .. offset + n - 1
        <5>1. i - offset \in 0 .. buffers[b].size - 1
          BY <1>3, <1>4, <2>1, <4>1
        <5>2. QED  BY <1>3, <2>2, <4>1, <5>1 DEF Stored
      <4>2. CASE i \notin offset .. offset + n - 1
        BY <1>3, <4>2 DEF Stored
      <4>3. QED  BY <4>1, <4>2
    <3>3. ASSUME NEW i \in 0 .. n - 1 PROVE s[offset + i] = content[i]
      <4>1. /\ offset + i \in 0 .. CellsOf[d] - 1 /\ offset + i \in offset .. offset + n - 1
            /\ (offset + i) - offset = i
        BY <1>3, <2>1
      <4>2. QED  BY <1>3, <4>1 DEF Stored
    <3>4. s = [i \in 0 .. CellsOf[d] - 1 |-> s[i]]
      BY <1>3 DEF Stored
    <3> HIDE DEF s
    <3>5. QED  BY <3>2, <3>3, <3>4
  <2>4. media' = [media EXCEPT ![d] = s]
    BY <1>1, <1>4, <1>5
  <2> HIDE DEF s
  <2>5. Held'
    BY <1>3, <2>3, <2>4 DEF DeviceInv, Held
  <2>6. TrueMeansTransferred'
    <3>1. SUFFICES ASSUME last' # NoTransfer PROVE TrueMeansTransferred'
      BY DEF TrueMeansTransferred
    <3>2. last' = [object |-> o, lba |-> lba, buffer |-> b] /\ n = buffers[b].size
      BY <1>1, <3>1 DEF Answer
    <3>3. \A i \in 0 .. buffers[b].size - 1 : media'[d][offset + i] = content[i]
      BY <1>3, <2>3, <2>4, <3>2 DEF DeviceInv, Held
    <3>4. lba * devices[o].sector_size < Wrap => offset = lba * devices[o].sector_size
      BY OffsetExact DEF offset
    <3>5. Device(o)' = d /\ heap'[buffers'[b].data] = content
      BY <1>2 DEF Device, d, content
    <3>6. QED  BY <3>2, <3>3, <3>4, <3>5 DEF TrueMeansTransferred
  <2>7. QED  BY <2>5, <2>6
<1>6. CASE ~ (n > 0)
  <2>1. media' = media
    BY <1>1, <1>4, <1>6
  <2>2. Held'
    BY <2>1 DEF DeviceInv, Held
  <2>3. TrueMeansTransferred'
    <3>1. SUFFICES ASSUME last' # NoTransfer PROVE TrueMeansTransferred'
      BY DEF TrueMeansTransferred
    <3>2. last' = [object |-> o, lba |-> lba, buffer |-> b] /\ n = buffers[b].size
      BY <1>1, <3>1 DEF Answer
    <3>3. buffers'[b].size = 0
      BY <1>4, <1>6, <3>2
    <3>4. last'.buffer = b
      BY <3>2
    <3>5. 0 .. buffers'[last'.buffer].size - 1 = {}
      BY <3>3, <3>4
    <3>6. QED  BY <3>5 DEF TrueMeansTransferred
  <2>4. QED  BY <2>2, <2>3
<1>7. QED  BY <1>5, <1>6

LEMMA ReadStep ==
  ASSUME DeviceInv, NEW o \in Objects, NEW lba \in Lbas, NEW b \in Buffers,
         pread(o, lba, b), UNCHANGED <<buffers, devices, table>>
  PROVE  BufferFitsItsBlock' /\ TrueMeansTransferred'
<1> DEFINE d == Device(o)
           offset == Offset(o, lba)
           a == buffers[b].data
<1>1. PICK n \in Transfers(o, lba, b) :
        /\ heap' = IF n <= 0 THEN heap
                   ELSE [heap EXCEPT ![a] = Loaded(heap[a], offset, n, media[d])]
        /\ Answer(o, lba, b, WholeRead(n, buffers[b].size))
  BY DEF pread
<1>2. IsOpen(o) /\ media' = media
  BY DEF pread
<1>3. /\ d \in Paths /\ media[d] \in [0 .. CellsOf[d] - 1 -> Values] /\ CellsOf[d] \in Nat
      /\ offset \in Nat
  BY <1>2, OpenDevice, OffsetExact
<1>4. buffers[b].size \in Nat /\ n \in Int
  BY DEF DeviceInv, BlockOwners, BufferRecords, Transfers
<1>5. CASE n > 0
  <2>1. n \in Nat /\ n <= buffers[b].size /\ offset + n <= CellsOf[d]
    BY <1>2, <1>5, TransferWithin
  <2>2. /\ a \in DOMAIN heap /\ a # nullptr /\ heap[a] \in [0 .. buffers[b].size - 1 -> Values]
    BY <1>2, <1>5, TransferWithin, BlockBehind
  <2> DEFINE s == Loaded(heap[a], offset, n, media[d])
  <2>3. /\ s \in [0 .. buffers[b].size - 1 -> Values]
        /\ \A i \in 0 .. n - 1 : s[i] = media[d][offset + i]
    <3> HIDE DEF d, offset, a
    <3>1. ASSUME NEW i \in 0 .. n - 1
          PROVE  i \in 0 .. buffers[b].size - 1 /\ offset + i \in 0 .. CellsOf[d] - 1
      BY <1>3, <1>4, <2>1
    <3>2. ASSUME NEW i \in 0 .. buffers[b].size - 1 PROVE s[i] \in Values
      <4>1. CASE i < n
        <5>1. i \in 0 .. n - 1
          BY <2>1, <4>1
        <5>2. QED  BY <1>3, <2>2, <3>1, <4>1, <5>1 DEF Loaded
      <4>2. CASE ~ (i < n)
        BY <2>2, <4>2 DEF Loaded
      <4>3. QED  BY <4>1, <4>2
    <3>3. ASSUME NEW i \in 0 .. n - 1 PROVE s[i] = media[d][offset + i]
      <4>1. i < n
        BY <2>1
      <4>2. QED  BY <2>2, <3>1, <4>1 DEF Loaded
    <3>4. s = [i \in 0 .. buffers[b].size - 1 |-> s[i]]
      BY <2>2 DEF Loaded
    <3> HIDE DEF s
    <3>5. QED  BY <3>2, <3>3, <3>4
  <2>4. heap' = [heap EXCEPT ![a] = s]
    BY <1>1, <1>4, <1>5
  <2> HIDE DEF s
  <2>5. BufferFitsItsBlock'
    <3>1. \A c \in Buffers : buffers[c].data # nullptr =>
            heap'[buffers[c].data] = IF c = b THEN s ELSE heap[buffers[c].data]
      BY <2>2, <2>4 DEF DeviceInv, BlockOwners, EachBlockHasOneOwner
    <3>2. QED  BY <2>3, <3>1 DEF DeviceInv, BufferFitsItsBlock, Contents
  <2>6. TrueMeansTransferred'
    <3>1. SUFFICES ASSUME last' # NoTransfer PROVE TrueMeansTransferred'
      BY DEF TrueMeansTransferred
    <3>2. last' = [object |-> o, lba |-> lba, buffer |-> b] /\ n = buffers[b].size
      BY <1>1, <3>1 DEF Answer, WholeRead
    <3>3. \A i \in 0 .. buffers[b].size - 1 : media[d][offset + i] = heap'[a][i]
      BY <2>2, <2>3, <2>4, <3>2
    <3>4. lba * devices[o].sector_size < Wrap => offset = lba * devices[o].sector_size
      BY OffsetExact
    <3>5. Device(o)' = d /\ buffers'[b].data = a
      BY DEF Device
    <3> HIDE DEF d, offset, a
    <3>6. QED  BY <1>2, <3>2, <3>3, <3>4, <3>5 DEF TrueMeansTransferred
  <2>7. QED  BY <2>5, <2>6
<1>6. CASE ~ (n > 0)
  <2>1. heap' = heap /\ last' = NoTransfer
    BY <1>1, <1>4, <1>6 DEF Answer, WholeRead
  <2>2. QED  BY <2>1 DEF DeviceInv, BufferFitsItsBlock, TrueMeansTransferred
<1>7. QED  BY <1>5, <1>6

\* A refused transfer returns false.
LEMMA RefusedStep ==
  ASSUME NEW o \in Objects, NEW lba \in Lbas, NEW b \in Buffers,
         WriteRefused(o, lba, b) \/ ReadRefused(o, lba, b)
  PROVE  UNCHANGED <<heap, media>> /\ last' = NoTransfer
BY DEF WriteRefused, ReadRefused, Answer

\* Moving buffers about, and writing through data().
LEMMA FitsStep ==
  ASSUME BlockOwners, BufferFitsItsBlock, BufferNext
  PROVE  BufferFitsItsBlock'
<1>1. ASSUME NEW b \in Buffers, NEW size \in Sizes, NEW alignment \in Alignments,
             Construct(b, size, alignment)
      PROVE  BufferFitsItsBlock'
  <2>1. PICK a \in Addresses \ DOMAIN heap, content \in Contents(size) :
          /\ a % alignment = 0
          /\ heap' = Allocated(heap, a, content)
          /\ buffers' = [buffers EXCEPT ![b] =
               [alive |-> TRUE, data |-> a, size |-> size, alignment |-> alignment]]
    BY <1>1 DEF Construct
  <2>2. \A c \in Buffers : buffers'[c] = IF c = b
          THEN [alive |-> TRUE, data |-> a, size |-> size, alignment |-> alignment]
          ELSE buffers[c]
    BY <2>1 DEF BlockOwners
  <2>3. heap'[a] = content /\ \A x \in DOMAIN heap : heap'[x] = heap[x]
    BY <2>1 DEF Allocated
  <2>4. a # nullptr
    BY BufferAssumption DEF BufferAssumption
  <2>5. \A c \in Buffers : buffers[c].data # nullptr => buffers[c].data \in DOMAIN heap
    BY DEF BlockOwners, EachBlockHasOneOwner
  <2>6. QED  BY <2>1, <2>2, <2>3, <2>4, <2>5 DEF BufferFitsItsBlock
<1>2. ASSUME NEW b \in Buffers, Destroy(b) PROVE BufferFitsItsBlock'
  <2>1. \A c \in Buffers : buffers'[c] = IF c = b THEN NoBuffer ELSE buffers[c]
    BY <1>2 DEF Destroy, BlockOwners
  <2>2. NoBuffer.data = nullptr /\ NoBuffer.size = 0
    BY DEF NoBuffer
  <2>3. \A c \in Buffers : c # b /\ buffers[c].data # nullptr =>
          heap'[buffers[c].data] = heap[buffers[c].data]
    BY <1>2 DEF Destroy, Freed, BlockOwners, EachBlockHasOneOwner
  <2>4. QED  BY <2>1, <2>2, <2>3 DEF BufferFitsItsBlock
<1>3. ASSUME NEW b \in Buffers, NEW c \in Buffers, MoveConstruct(b, c) \/ MoveAssign(b, c)
      PROVE  BufferFitsItsBlock'
  <2>1. b # c /\ buffers' = [buffers EXCEPT ![b] = buffers[c], ![c] = MovedFrom(buffers[c])]
    BY <1>3 DEF MoveConstruct, MoveAssign
  <2>2. buffers[c] \in BufferRecords
    BY DEF BlockOwners
  <2>3. MovedFrom(buffers[c]).data = nullptr /\ MovedFrom(buffers[c]).size = 0
    BY <2>2 DEF MovedFrom, BufferRecords
  <2>4. /\ buffers'[b] = buffers[c] /\ buffers'[c] = MovedFrom(buffers[c])
        /\ \A e \in Buffers : e # b /\ e # c => buffers'[e] = buffers[e]
    BY <2>1 DEF BlockOwners
  <2>5. \A e \in Buffers : e # b /\ buffers[e].data # nullptr =>
          heap'[buffers[e].data] = heap[buffers[e].data]
    BY <1>3 DEF MoveConstruct, MoveAssign, Freed, BlockOwners, EachBlockHasOneOwner
  <2>6. ASSUME NEW e \in Buffers
        PROVE  /\ buffers'[e].data = nullptr => buffers'[e].size = 0
               /\ buffers'[e].data # nullptr =>
                    /\ heap'[buffers'[e].data] \in Contents(buffers'[e].size)
                    /\ buffers'[e].data % buffers'[e].alignment = 0
    <3>1. CASE e = b
      BY <2>1, <2>4, <2>5, <3>1 DEF BufferFitsItsBlock
    <3>2. CASE e = c
      BY <2>3, <2>4, <3>2
    <3>3. CASE e # b /\ e # c
      BY <2>4, <2>5, <3>3 DEF BufferFitsItsBlock
    <3>4. QED  BY <3>1, <3>2, <3>3
  <2>7. QED  BY <2>6 DEF BufferFitsItsBlock
<1>4. ASSUME NEW b \in Buffers, NEW v \in Values, SetTo(b, v) PROVE BufferFitsItsBlock'
  <2> DEFINE filled == [i \in 0 .. buffers[b].size - 1 |-> v]
  <2>1. buffers[b].data # nullptr /\ heap' = [heap EXCEPT ![buffers[b].data] = filled]
        /\ buffers' = buffers
    BY <1>4 DEF SetTo
  <2>2. filled \in Contents(buffers[b].size)
    BY DEF Contents
  <2> HIDE DEF filled
  <2>3. \A c \in Buffers : buffers[c].data # nullptr =>
          heap'[buffers[c].data] = IF c = b THEN filled ELSE heap[buffers[c].data]
    BY <2>1 DEF BlockOwners, EachBlockHasOneOwner
  <2>4. QED  BY <2>1, <2>2, <2>3 DEF BufferFitsItsBlock
<1>5. QED  BY <1>1, <1>2, <1>3, <1>4 DEF BufferNext

LEMMA HeldInit == Init => Held
<1> SUFFICES ASSUME Init PROVE Held
  OBVIOUS
<1>1. /\ media \in [Paths -> UNION {[0 .. CellsOf[p] - 1 -> Values] : p \in Paths}]
      /\ \A p \in Paths : DOMAIN media[p] = 0 .. CellsOf[p] - 1
      /\ DOMAIN table = {}
  BY DEF Init
<1>2. ASSUME NEW p \in Paths PROVE media[p] \in [0 .. CellsOf[p] - 1 -> Values]
  <2>1. media[p] \in UNION {[0 .. CellsOf[q] - 1 -> Values] : q \in Paths}
    BY <1>1
  <2>2. PICK q \in Paths : media[p] \in [0 .. CellsOf[q] - 1 -> Values]
    BY <2>1
  <2>3. DOMAIN media[p] = 0 .. CellsOf[p] - 1
    BY <1>1
  <2>4. QED  BY <2>2, <2>3
<1>3. QED  BY <1>1, <1>2 DEF Held

\* No descriptor is opened but on a device.
LEMMA TableStep ==
  ASSUME Held, Ownership PROVE Held'
<1>1. media' = media
  BY DEF Ownership
<1>2. ASSUME NEW o \in Objects, NEW path \in Paths, OpenWorks(o, path)
      PROVE  \A fd \in DOMAIN table' : table'[fd] \in Paths
  BY <1>2 DEF OpenWorks, AfterClose, Held
<1>3. ASSUME NEW o \in Objects, table' = table \/ table' = AfterClose(o)
      PROVE  \A fd \in DOMAIN table' : table'[fd] \in Paths
  BY <1>3 DEF AfterClose, Held
<1>4. \A fd \in DOMAIN table' : table'[fd] \in Paths
  BY <1>2, <1>3 DEF Ownership, Create, Close, Delete, OpenFails, MoveDevice, AssignDevice
<1>5. QED  BY <1>1, <1>4 DEF Held

LEMMA DeviceInit == Init => DeviceInv /\ TrueMeansTransferred
<1> SUFFICES ASSUME Init PROVE DeviceInv /\ TrueMeansTransferred
  OBVIOUS
<1>1. BlockOwners
  BY BlockOwnersInit DEF Init
<1>2. BufferFitsItsBlock
  BY DEF Init, BufferInit, NoBuffer, BufferFitsItsBlock
<1>3. QED  BY <1>1, <1>2, OwnersInit, HeldInit DEF DeviceInv, Init, TrueMeansTransferred

LEMMA DeviceStep ==
  DeviceInv /\ TrueMeansTransferred /\ [Next]_vars => DeviceInv' /\ TrueMeansTransferred'
<1> SUFFICES ASSUME DeviceInv, TrueMeansTransferred, [Next]_vars
             PROVE  DeviceInv' /\ TrueMeansTransferred'
  OBVIOUS
<1>1. Owners' /\ BlockOwners'
  BY OwnersStep, BlocksStep DEF DeviceInv
<1>2. CASE UNCHANGED vars
  <2>1. BufferFitsItsBlock' /\ Held' /\ TrueMeansTransferred'
    BY <1>2 DEF vars, buffer_vars, DeviceInv, BufferFitsItsBlock, Held, TrueMeansTransferred,
                Device
  <2>2. QED  BY <1>1, <2>1 DEF DeviceInv
<1>3. CASE Ownership
  <2>1. UNCHANGED <<buffers, heap>> /\ last' = NoTransfer
    BY <1>3 DEF Ownership, buffer_vars
  <2>2. BufferFitsItsBlock' /\ TrueMeansTransferred'
    BY <2>1 DEF DeviceInv, BufferFitsItsBlock, TrueMeansTransferred
  <2>3. QED  BY <1>1, <1>3, <2>2, TableStep DEF DeviceInv
<1>4. CASE BufferStep
  <2>1. BufferNext /\ last' = NoTransfer /\ UNCHANGED <<table, media>>
    BY <1>4 DEF BufferStep
  <2>2. Held' /\ TrueMeansTransferred'
    BY <2>1 DEF DeviceInv, Held, TrueMeansTransferred
  <2>3. QED  BY <1>1, <2>1, <2>2, FitsStep DEF DeviceInv
<1>5. CASE Transfer
  <2>1. PICK o \in Objects, b \in Buffers, lba \in Lbas :
          WriteRefused(o, lba, b) \/ pwrite(o, lba, b) \/ ReadRefused(o, lba, b) \/ pread(o, lba, b)
    BY <1>5 DEF Transfer
  <2>2. UNCHANGED <<buffers, devices, table>>
    BY <1>5 DEF Transfer
  <2>3. CASE WriteRefused(o, lba, b) \/ ReadRefused(o, lba, b)
    <3>1. UNCHANGED <<heap, media>> /\ last' = NoTransfer
      BY <2>3, RefusedStep
    <3>2. BufferFitsItsBlock' /\ Held' /\ TrueMeansTransferred'
      BY <2>2, <3>1 DEF DeviceInv, BufferFitsItsBlock, Held, TrueMeansTransferred
    <3>3. QED  BY <1>1, <3>2 DEF DeviceInv
  <2>4. CASE pwrite(o, lba, b)
    <3>1. BufferFitsItsBlock'
      BY <2>2, <2>4 DEF pwrite, DeviceInv, BufferFitsItsBlock
    <3>2. QED  BY <1>1, <2>2, <2>4, <3>1, WriteStep DEF DeviceInv
  <2>5. CASE pread(o, lba, b)
    <3>1. Held'
      BY <2>2, <2>5 DEF pread, DeviceInv, Held
    <3>2. QED  BY <1>1, <2>2, <2>5, <3>1, ReadStep DEF DeviceInv
  <2>6. QED  BY <2>1, <2>3, <2>4, <2>5
<1>6. QED  BY <1>2, <1>3, <1>4, <1>5 DEF Next

\* Whoever writes size() cells through data() stays in a block of that size and
\* alignment, whatever was moved, destroyed or read into it before.
THEOREM BuffersFit == Spec => []BufferFitsItsBlock
<1>1. DeviceInv => BufferFitsItsBlock
  BY DEF DeviceInv
<1>2. QED  BY DeviceInit, DeviceStep, <1>1, PTL DEF Spec

\* A transfer that returned true has moved the whole buffer, to or from where the
\* product of sector number and sector size says, as long as that does not overflow:
\* a short one, a refused one and one past the end return false.
THEOREM TransfersComplete == Spec => []TrueMeansTransferred
BY DeviceInit, DeviceStep, PTL DEF Spec
==============================================================================
