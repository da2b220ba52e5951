------------------------------ MODULE PageCache ------------------------------
(***************************************************************************)
(* What the sanitizer assumes of the operating system: one regular file,   *)
(* cut into cells, each cell with a copy in the page cache and a copy on   *)
(* the media.  write(2) and ftruncate(2) change the cache, fdatasync(2)    *)
(* and the kernel's own write-back move dirty cells to the media, and      *)
(* fallocate(PUNCH_HOLE) gives whole allocation units back.  Nothing here  *)
(* is code of the repository; it is what the calls made under src/ rely    *)
(* on.                                                                     *)
(***************************************************************************)
EXTENDS Integers

CONSTANTS
  Capacity,  \* cells the volume can give this file
  Unit,      \* cells in an allocation unit (block or cluster)
  Wrap       \* number of uint64_t values: sizes are taken modulo Wrap

ASSUME StorageAssumption ==
  /\ Capacity \in Nat \ {0}
  /\ Unit \in Nat \ {0}
  /\ Wrap \in Nat
  /\ Wrap > Capacity + 1
  /\ Wrap % Unit = 0

Cells == 1 .. Capacity

\* "orig" is data the user wants gone: the payload, and whatever an earlier
\* file left in the slack.  The others are what the passes can write.
Content == {"orig", "zero", "ones", "rnd", "pat"}

\* remnant: cells whose old block, still holding "orig", was left behind when a
\* copy-on-write filesystem put the new data elsewhere.
\* error: "pending" when a write-back failed that no sync call has reported yet.
File == [size    : 0 .. Capacity,
         cache   : [Cells -> Content],
         media   : [Cells -> Content],
         dirty   : SUBSET Cells,
         hole    : SUBSET Cells,
         remnant : SUBSET Cells,
         error   : {"none", "pending"}]

\* static_cast<uintmax_t>(-1), what std::filesystem::file_size returns on error.
SizeError == Wrap - 1

\* The size n rounded up to the allocation unit, in 64-bit arithmetic.
Boundary(n) ==
  IF n % Unit = 0 THEN n ELSE (n + (Unit - (n % Unit))) % Wrap

Body(n) == (1 .. n) \intersect Cells

Slack(n) == (n + 1 .. Boundary(n)) \intersect Cells

FullUnits(n) == (1 .. n - (n % Unit)) \intersect Cells

\* A file of n cells that has been overwritten with c: the cells of cached are
\* not on the media yet, and those of old, past its end, hold an earlier file's
\* data there.
Overwritten(n, c, cached, old) ==
  [size    |-> n,
   cache   |-> [i \in Cells |-> IF i <= n THEN c ELSE "zero"],
   media   |-> [i \in Cells |-> IF i \in cached \union old THEN "orig"
                                ELSE IF i <= n THEN c ELSE "zero"],
   dirty   |-> cached,
   hole    |-> {},
   remnant |-> {},
   error   |-> "none"]

\* write(2) of content c to cells lo..hi: a page-cache update.
Write(f, lo, hi, c) ==
  [size    |-> IF hi > f.size THEN hi ELSE f.size,
   cache   |-> [i \in Cells |-> IF i \in lo .. hi THEN c ELSE f.cache[i]],
   media   |-> f.media,
   dirty   |-> f.dirty \union ((lo .. hi) \intersect Cells),
   hole    |-> f.hole,
   remnant |-> f.remnant,
   error   |-> f.error]

\* The cells of stored reach the media, in place or (cow) in new blocks; those
\* of lost are marked clean without; error is what is left to report.
Store(f, cow, stored, lost, error) ==
  [size    |-> f.size,
   cache   |-> f.cache,
   media   |-> [i \in Cells |-> IF i \in stored THEN f.cache[i] ELSE f.media[i]],
   dirty   |-> f.dirty \ (stored \union lost),
   hole    |-> f.hole,
   remnant |-> f.remnant \union {i \in stored : cow /\ f.media[i] = "orig"},
   error   |-> error]

\* fdatasync(2) can return 0 unless an earlier write-back failed unreported ...
SyncPossible(f) == f.error = "none"

\* ... and then everything dirty has reached the media.
Synced(f, cow) == Store(f, cow, f.dirty, {}, "none")

\* What a failed fdatasync(2) can leave.  It reports the error once, and of the
\* dirty cells it did not store the kernel may mark some (lost) clean anyway.
SyncFailures(f, cow) ==
  UNION {{Store(f, cow, stored, lost, "none") : lost \in SUBSET (f.dirty \ stored)}
           : stored \in SUBSET f.dirty}

\* Write-back the kernel does on its own, of one dirty cell, that works or not.
WriteBacks(f, cow) ==
  {Store(f, cow, {i}, {}, f.error) : i \in f.dirty}
    \union {Store(f, cow, {}, {i}, "pending") : i \in f.dirty}

\* ftruncate(2) to n cells.  Cells that leave or enter the file read as zero;
\* the kernel may or may not redirty the rest of the unit the file ended in.
\* Pages of units that left the file are dropped.
Truncations(f, n) ==
  LET kept == IF n < f.size THEN n ELSE f.size
  IN  {[size    |-> n,
        cache   |-> [i \in Cells |-> IF i > kept THEN "zero" ELSE f.cache[i]],
        media   |-> f.media,
        dirty   |-> (f.dirty \intersect (1 .. Boundary(n))) \union zeroed,
        hole    |-> f.hole,
        remnant |-> f.remnant,
        error   |-> f.error] : zeroed \in {{}, Slack(kept)}}

\* fallocate(PUNCH_HOLE | KEEP_SIZE) over the first n cells: whole units are
\* freed, their cached pages dropped unwritten; the rest is zeroed in the cache.
Punch(f, n) ==
  [size    |-> f.size,
   cache   |-> [i \in Cells |-> IF i \in 1 .. n THEN "zero" ELSE f.cache[i]],
   media   |-> f.media,
   dirty   |-> (f.dirty \ FullUnits(n)) \union (Body(n) \ FullUnits(n)),
   hole    |-> f.hole \union FullUnits(n),
   remnant |-> f.remnant,
   error   |-> f.error]

\* Unlinking the last name drops the pages not yet written.
Dropped(f) ==
  [size    |-> f.size,
   cache   |-> f.cache,
   media   |-> f.media,
   dirty   |-> {},
   hole    |-> f.hole,
   remnant |-> f.remnant,
   error   |-> f.error]

\* What a read of cell i may return.  A clean page may have been reclaimed,
\* in which case it is read again from the media.
Readable(f, i) ==
  IF i \in f.hole THEN {"zero"}
  ELSE IF i \in f.dirty THEN {f.cache[i]}
  ELSE {f.cache[i], f.media[i]}
==============================================================================
