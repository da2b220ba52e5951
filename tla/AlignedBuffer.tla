----------------------------- MODULE AlignedBuffer -----------------------------
(***************************************************************************)
(* AlignedBuffer: objects that own one block of the heap each, made,       *)
(* moved and destroyed in any order.  Sizes and addresses are in cells.    *)
(***************************************************************************)
EXTENDS Integers

CONSTANTS
  Buffers,     \* the variables that may hold a buffer
  Addresses,   \* where the allocator may put a block
  Sizes,       \* arguments of the constructor
  Alignments,
  Values       \* what a cell may hold

VARIABLES
  buffers,  \* the objects: alive, data_, size_, alignment_
  heap      \* the blocks that are allocated, and what they hold

buffer_vars == <<buffers, heap>>

nullptr == 0

ASSUME BufferAssumption ==
  /\ Addresses \subseteq Nat \ {nullptr}
  /\ Sizes \subseteq Nat
  /\ Alignments \subseteq Nat \ {0}

Contents(size) == [0 .. size - 1 -> Values]

NoBuffer == [alive |-> FALSE, data |-> nullptr, size |-> 0, alignment |-> 1]

Freed(h, address) == [a \in DOMAIN h \ {address} |-> h[a]]

Allocated(h, address, content) ==
  [a \in DOMAIN h \union {address} |-> IF a = address THEN content ELSE h[a]]

BufferInit ==
  /\ buffers = [b \in Buffers |-> NoBuffer]
  /\ heap = [a \in {} |-> NoBuffer]

\* posix_memalign, which leaves what was in the block.  A size of zero or an
\* allocation that fails is an exception, and no object.
Construct(b, size, alignment) ==
  /\ ~ buffers[b].alive
  /\ size # 0
  /\ \E a \in Addresses \ DOMAIN heap, content \in Contents(size) :
       /\ a % alignment = 0
       /\ heap' = Allocated(heap, a, content)
       /\ buffers' = [buffers EXCEPT ![b] =
            [alive |-> TRUE, data |-> a, size |-> size, alignment |-> alignment]]

Destroy(b) ==
  /\ buffers[b].alive
  /\ heap' = Freed(heap, buffers[b].data)
  /\ buffers' = [buffers EXCEPT ![b] = NoBuffer]

\* As if the size were left behind in the object that was moved from.
MovedFromKeepsSize(buffer) == [buffer EXCEPT !.data = nullptr]

\* As if the block stayed with the object that was moved from.
MovedFromKeepsData(buffer) == [buffer EXCEPT !.size = 0]

MovedFrom(buffer) == [buffer EXCEPT !.data = nullptr, !.size = 0]

MoveConstruct(b, c) ==
  /\ ~ buffers[b].alive
  /\ buffers[c].alive
  /\ buffers' = [buffers EXCEPT ![b] = buffers[c], ![c] = MovedFrom(buffers[c])]
  /\ UNCHANGED heap

\* To itself nothing happens.
MoveAssign(b, c) ==
  /\ b # c
  /\ buffers[b].alive
  /\ buffers[c].alive
  /\ heap' = Freed(heap, buffers[b].data)
  /\ buffers' = [buffers EXCEPT ![b] = buffers[c], ![c] = MovedFrom(buffers[c])]

\* The owner writes through data().
SetTo(b, v) ==
  /\ buffers[b].data # nullptr
  /\ heap' = [heap EXCEPT ![buffers[b].data] = [i \in 0 .. buffers[b].size - 1 |-> v]]
  /\ UNCHANGED buffers

BufferNext ==
  \E b \in Buffers :
    \/ \E size \in Sizes, alignment \in Alignments : Construct(b, size, alignment)
    \/ Destroy(b)
    \/ \E c \in Buffers : MoveConstruct(b, c) \/ MoveAssign(b, c)
    \/ \E v \in Values : SetTo(b, v)

BufferSpec == BufferInit /\ [][BufferNext]_buffer_vars

----------------------------------------------------------------------------
\* However buffers are moved about, each block has one owner that will free it,
\* none is freed while a buffer points to it and none is lost.
EachBlockHasOneOwner ==
  /\ \A b, c \in Buffers : (b # c /\ buffers[b].data = buffers[c].data) => buffers[b].data = nullptr
  /\ DOMAIN heap = {buffers[b].data : b \in Buffers} \ {nullptr}

\* data(), size() and alignment() are those of one block, or of none: who
\* writes size() cells through data() stays inside what was allocated.
BufferFitsItsBlock ==
  \A b \in Buffers :
    /\ buffers[b].data = nullptr => buffers[b].size = 0
    /\ buffers[b].data # nullptr => /\ heap[buffers[b].data] \in Contents(buffers[b].size)
                                    /\ buffers[b].data % buffers[b].alignment = 0
==============================================================================
