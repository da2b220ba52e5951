---------------------------- MODULE PageCacheProofs ----------------------------
(***************************************************************************)
(* Facts about the file operations of PageCache, stated once for the       *)
(* proofs about the programs that use them: what each operation keeps, and *)
(* that none can bring old data back once the cache no longer holds any.   *)
(***************************************************************************)
EXTENDS PageCache, TLAPS

\* No cell of the cache holds old data.
Fresh(f) == \A i \in Cells : f.cache[i] # "orig"

\* Old data is gone from the cells of S, or is about to be: on the media, or
\* dirty in the cache, or lost to a failed write-back the next sync reports.
Covered(f, S) == \A i \in S : i \in f.dirty \/ f.media[i] # "orig" \/ f.error = "pending"

\* Old data is gone from the media in the cells of S.
Gone(f, S) == \A i \in S : f.media[i] # "orig"

\* The boundary of a size is a size: rounding up in uint64_t never leaves Nat.
LEMMA BoundaryType ==
  ASSUME NEW n \in Nat
  PROVE  Boundary(n) \in Nat
<1>1. n % Unit \in 0 .. Unit - 1
  BY StorageAssumption
<1>2. n + (Unit - (n % Unit)) \in Nat
  BY <1>1, StorageAssumption
<1>3. (n + (Unit - (n % Unit))) % Wrap \in Nat
  BY <1>2, StorageAssumption
<1> QED
  BY <1>3 DEF Boundary

\* Division in the naturals leaves a remainder.
LEMMA Division ==
  ASSUME NEW n \in Nat
  PROVE  \E q \in Nat, r \in 0 .. Unit - 1 : n % Unit = r /\ n = q * Unit + r
<1>1. Unit \in Nat \ {0}
  BY StorageAssumption
<1> DEFINE quotient  == n \div Unit
           remainder == n % Unit
<1>2. quotient \in Nat /\ remainder \in 0 .. Unit - 1
  BY <1>1
<1>3. remainder = n - quotient * Unit
  BY <1>1
<1>4. n % Unit = remainder
  OBVIOUS
<1> HIDE DEF quotient, remainder
<1>5. quotient * Unit \in Int
  BY <1>1, <1>2
<1>6. n = quotient * Unit + remainder
  BY <1>1, <1>2, <1>3, <1>5
<1> QED
  BY <1>2, <1>4, <1>6

\* Quotient and remainder are unique.
LEMMA Quotient ==
  ASSUME NEW u \in Nat \ {0}, NEW q \in Nat, NEW r \in 0 .. u - 1
  PROVE  (q * u + r) \div u = q /\ (q * u + r) % u = r
OBVIOUS

\* The order of two numbers is that of their first digit, then of their second.
LEMMA Digits ==
  ASSUME NEW base \in Nat, NEW h \in Nat, NEW k \in Nat,
         NEW l \in 0 .. base - 1, NEW m \in 0 .. base - 1,
         h < k \/ (h = k /\ l < m)
  PROVE  h * base + l \in Nat /\ k * base + m \in Nat /\ h * base + l < k * base + m
<1>1. h * base \in Nat /\ k * base \in Nat
  OBVIOUS
<1>2. CASE h = k /\ l < m
  BY <1>1, <1>2
<1>3. CASE h < k
  <2>1. PICK d \in Nat : k = h + 1 + d
    BY <1>3
  <2>2. k * base = h * base + base + d * base /\ d * base \in Nat
    BY <2>1
  <2> QED
    BY <1>1, <2>2
<1> QED
  BY <1>2, <1>3

\* And so on to the fourth.
LEMMA FourDigits ==
  ASSUME NEW b \in Nat, NEW c \in Nat, NEW d \in Nat,
         NEW s \in Nat, NEW p \in 0 .. b - 1, NEW q \in 0 .. c - 1, NEW r \in 0 .. d - 1,
         NEW S \in Nat, NEW P \in 0 .. b - 1, NEW Q \in 0 .. c - 1, NEW R \in 0 .. d - 1,
         \/ s < S
         \/ s = S /\ p < P
         \/ s = S /\ p = P /\ q < Q
         \/ s = S /\ p = P /\ q = Q /\ r < R
  PROVE  /\ ((s * b + p) * c + q) * d + r \in Nat
         /\ ((S * b + P) * c + Q) * d + R \in Nat
         /\ ((s * b + p) * c + q) * d + r < ((S * b + P) * c + Q) * d + R
<1> DEFINE l == s * b + p
           L == S * b + P
           m == l * c + q
           M == L * c + Q
<1>1. /\ l \in Nat /\ L \in Nat
      /\ l < L \/ (l = L /\ q < Q) \/ (l = L /\ q = Q /\ r < R)
  <2>1. CASE s < S \/ (s = S /\ p < P)
    BY <2>1, Digits
  <2>2. CASE s = S /\ p = P
    <3>1. l = L
      BY <2>2
    <3>2. S * b \in Nat
      OBVIOUS
    <3> QED
      BY <2>2, <3>1, <3>2
  <2> QED
    BY <2>1, <2>2
<1> HIDE DEF l, L
<1>2. m \in Nat /\ M \in Nat /\ (m < M \/ (m = M /\ r < R))
  <2>1. CASE l < L \/ (l = L /\ q < Q)
    BY <1>1, <2>1, Digits
  <2>2. CASE l = L /\ q = Q /\ r < R
    <3>1. L * c \in Nat
      BY <1>1
    <3> QED
      BY <2>2, <3>1
  <2> QED
    BY <1>1, <2>1, <2>2
<1> HIDE DEF m, M
<1>3. m * d + r \in Nat /\ M * d + R \in Nat /\ m * d + r < M * d + R
  BY <1>2, Digits
<1> QED
  BY <1>3 DEF m, M, l, L

\* Where rounding up does not wrap, the boundary of a size lies at the end of a
\* unit at or after it, and adding a unit less one before dividing gives it too.
LEMMA RoundedUp ==
  ASSUME NEW n \in 0 .. Capacity, Capacity + Unit <= Wrap
  PROVE  /\ Boundary(n) \in Nat /\ n <= Boundary(n)
         /\ Boundary(n) % Unit = 0
         /\ (((n + Unit - 1) % Wrap) \div Unit) * Unit = Boundary(n)
         /\ FullUnits(Boundary(n)) = Body(n) \union Slack(n)
<1>0. /\ Unit \in Nat \ {0} /\ Wrap \in Nat /\ Capacity \in Nat
      /\ Capacity + Unit <= Wrap /\ n \in Nat
  BY StorageAssumption
<1>1. PICK q \in Nat, r \in 0 .. Unit - 1 : n % Unit = r /\ n = q * Unit + r
  BY <1>0, Division
<1>2. /\ q * Unit \in Nat /\ (q + 1) * Unit = q * Unit + Unit /\ q + 1 \in Nat
      /\ (q + 1) * Unit \in Nat
  BY <1>0
<1>3. (n + Unit - 1) % Wrap = n + Unit - 1
  BY <1>0
<1>4. 0 \in 0 .. Unit - 1
  BY <1>0
<1>5. /\ Boundary(n) \in Nat /\ n <= Boundary(n) /\ Boundary(n) % Unit = 0
      /\ (((n + Unit - 1) % Wrap) \div Unit) * Unit = Boundary(n)
  <2>1. CASE r = 0
    <3>1. Boundary(n) = n /\ n % Unit = 0
      BY <1>1, <2>1 DEF Boundary
    <3>2. n = q * Unit
      BY <1>1, <1>2, <2>1
    <3>3. n + Unit - 1 = q * Unit + (Unit - 1) /\ Unit - 1 \in 0 .. Unit - 1
      BY <1>0, <1>2, <3>2
    <3>4. (q * Unit + (Unit - 1)) \div Unit = q
      BY <1>0, <3>3, Quotient
    <3> QED
      BY <1>0, <1>3, <3>1, <3>2, <3>3, <3>4
  <2>2. CASE r # 0
    <3>1. r \in 1 .. Unit - 1
      BY <1>0, <2>2
    <3>2. /\ n + (Unit - r) = (q + 1) * Unit
          /\ n + (Unit - r) < Wrap /\ n + (Unit - r) \in Nat
          /\ n <= (q + 1) * Unit
      BY <1>0, <1>1, <1>2, <3>1
    <3>3. Boundary(n) = (q + 1) * Unit
      <4>1. (n + (Unit - r)) % Wrap = n + (Unit - r)
        BY <1>0, <3>2
      <4> QED
        BY <1>1, <2>2, <3>2, <4>1 DEF Boundary
    <3>4. n + Unit - 1 = (q + 1) * Unit + (r - 1) /\ r - 1 \in 0 .. Unit - 1
      BY <1>0, <1>1, <1>2, <3>1
    <3>5. ((q + 1) * Unit + (r - 1)) \div Unit = q + 1
      BY <1>0, <1>2, <3>4, Quotient
    <3>6. ((q + 1) * Unit + 0) % Unit = 0 /\ (q + 1) * Unit + 0 = (q + 1) * Unit
      BY <1>0, <1>2, <1>4, Quotient
    <3> QED
      BY <1>2, <1>3, <3>2, <3>3, <3>4, <3>5, <3>6
  <2> QED
    BY <2>1, <2>2
<1>6. FullUnits(Boundary(n)) = Body(n) \union Slack(n)
  <2> DEFINE b == Boundary(n)
  <2>1. b - (b % Unit) = b
    BY <1>5
  <2> HIDE DEF b
  <2>2. b \in Nat /\ n <= b
    BY <1>5 DEF b
  <2>3. FullUnits(b) = (1 .. b) \intersect Cells
    BY <2>1 DEF FullUnits
  <2>4. Slack(n) = (n + 1 .. b) \intersect Cells
    BY DEF Slack, b
  <2>5. 1 .. b = (1 .. n) \union (n + 1 .. b)
    BY <1>0, <2>2
  <2> QED
    BY <2>3, <2>4, <2>5 DEF Body, b
<1> QED
  BY <1>5, <1>6

\* The whole units of a file lie in it, and one smaller than a unit has none.
LEMMA WholeUnits ==
  ASSUME NEW n \in 0 .. Capacity
  PROVE  /\ FullUnits(n) \subseteq Body(n)
         /\ n < Unit => FullUnits(n) = {}
<1>0. Unit \in Nat \ {0} /\ n \in Nat /\ Capacity \in Nat
  BY StorageAssumption
<1>1. n % Unit \in 0 .. Unit - 1
  BY <1>0
<1>2. FullUnits(n) \subseteq Body(n)
  BY <1>0, <1>1 DEF FullUnits, Body
<1>3. ASSUME n < Unit PROVE FullUnits(n) = {}
  <2>1. n % Unit = n
    BY <1>0, <1>3
  <2> QED
    BY <1>0, <2>1 DEF FullUnits
<1> QED
  BY <1>2, <1>3

\* A sync that reports success leaves no old data in any covered cell.
LEMMA SyncedLemma ==
  ASSUME NEW f \in File, NEW cow, NEW S \in SUBSET Cells, SyncPossible(f),
         NEW g, g = Synced(f, cow)
  PROVE  /\ g \in File
         /\ g.size = f.size
         /\ g.hole = f.hole
         /\ Fresh(f) => Fresh(g)
         /\ Fresh(f) /\ Covered(f, S) => Gone(g, S)
         /\ Fresh(f) /\ Gone(f, S) => Gone(g, S)
<1>1. f.error = "none"
  BY DEF SyncPossible
<1>2. /\ g.size = f.size /\ g.hole = f.hole /\ g.cache = f.cache
      /\ g.media = [i \in Cells |-> IF i \in f.dirty THEN f.cache[i] ELSE f.media[i]]
  BY DEF Synced, Store
<1>3. g \in File
  BY DEF Synced, Store, File
<1> QED
  BY <1>1, <1>2, <1>3 DEF Fresh, Covered, Gone

\* A sync that fails may lose dirty cells but writes nothing old.
LEMMA SyncFailuresLemma ==
  ASSUME NEW f \in File, NEW cow, NEW S \in SUBSET Cells,
         NEW g \in SyncFailures(f, cow)
  PROVE  /\ g \in File
         /\ g.size = f.size
         /\ g.hole = f.hole
         /\ Fresh(f) => Fresh(g)
         /\ Fresh(f) /\ Gone(f, S) => Gone(g, S)
<1>1. PICK stored \in SUBSET f.dirty :
        g \in {Store(f, cow, stored, lost, "none") : lost \in SUBSET (f.dirty \ stored)}
  BY DEF SyncFailures
<1>2. PICK lost \in SUBSET (f.dirty \ stored) : g = Store(f, cow, stored, lost, "none")
  BY <1>1
<1>3. stored \in SUBSET Cells /\ lost \in SUBSET Cells
  BY DEF File
<1>4. /\ g.size = f.size /\ g.hole = f.hole /\ g.cache = f.cache
      /\ g.media = [i \in Cells |-> IF i \in stored THEN f.cache[i] ELSE f.media[i]]
  BY <1>2 DEF Store
<1>5. g \in File
  BY <1>2, <1>3 DEF Store, File
<1> QED
  BY <1>4, <1>5 DEF Fresh, Gone

\* The kernel's own write-back, whether it works or not, keeps covered cells
\* covered and brings nothing old back.
LEMMA WriteBacksLemma ==
  ASSUME NEW f \in File, NEW cow, NEW S \in SUBSET Cells,
         NEW g \in WriteBacks(f, cow)
  PROVE  /\ g \in File
         /\ g.size = f.size
         /\ g.hole = f.hole
         /\ Fresh(f) => Fresh(g)
         /\ Fresh(f) /\ Covered(f, S) => Covered(g, S)
         /\ Fresh(f) /\ Gone(f, S) => Gone(g, S)
<1>1. CASE \E i \in f.dirty : g = Store(f, cow, {i}, {}, f.error)
  <2>1. PICK i \in f.dirty : g = Store(f, cow, {i}, {}, f.error)
    BY <1>1
  <2>2. /\ g.size = f.size /\ g.hole = f.hole /\ g.cache = f.cache
        /\ g.dirty = f.dirty \ {i} /\ g.error = f.error
        /\ g.media = [j \in Cells |-> IF j = i THEN f.cache[j] ELSE f.media[j]]
    BY <2>1 DEF Store
  <2>3. g \in File
    BY <2>1 DEF Store, File
  <2> QED
    BY <2>2, <2>3 DEF Fresh, Covered, Gone
<1>2. CASE \E i \in f.dirty : g = Store(f, cow, {}, {i}, "pending")
  <2>1. PICK i \in f.dirty : g = Store(f, cow, {}, {i}, "pending")
    BY <1>2
  <2>2. /\ g.size = f.size /\ g.hole = f.hole /\ g.cache = f.cache
        /\ g.error = "pending"
        /\ g.media = [j \in Cells |-> f.media[j]]
    BY <2>1 DEF Store
  <2>3. g \in File
    BY <2>1 DEF Store, File
  <2> QED
    BY <2>2, <2>3 DEF Fresh, Covered, Gone
<1> QED
  BY <1>1, <1>2 DEF WriteBacks

\* ftruncate zeroes cache cells and forgets dirty ones beyond the new size.
LEMMA TruncationsLemma ==
  ASSUME NEW f \in File, NEW n \in 0 .. Capacity, NEW S \in SUBSET Cells,
         NEW g \in Truncations(f, n)
  PROVE  /\ g \in File
         /\ g.size = n
         /\ g.media = f.media
         /\ g.hole = f.hole
         /\ Fresh(f) => Fresh(g)
         /\ Gone(f, S) => Gone(g, S)
<1> DEFINE kept == IF n < f.size THEN n ELSE f.size
<1>1. PICK zeroed \in {{}, Slack(kept)} :
        g = [size    |-> n,
             cache   |-> [i \in Cells |-> IF i > kept THEN "zero" ELSE f.cache[i]],
             media   |-> f.media,
             dirty   |-> (f.dirty \intersect (1 .. Boundary(n))) \union zeroed,
             hole    |-> f.hole,
             remnant |-> f.remnant,
             error   |-> f.error]
  BY DEF Truncations
<1>2. zeroed \in SUBSET Cells
  BY DEF Slack
<1>3. [i \in Cells |-> IF i > kept THEN "zero" ELSE f.cache[i]] \in [Cells -> Content]
  BY DEF File, Content
<1>4. (f.dirty \intersect (1 .. Boundary(n))) \union zeroed \in SUBSET Cells
  BY <1>2 DEF File
<1>5. g \in File
  BY <1>1, <1>3, <1>4 DEF File
<1>6. /\ g.size = n /\ g.media = f.media /\ g.hole = f.hole
      /\ g.cache = [i \in Cells |-> IF i > kept THEN "zero" ELSE f.cache[i]]
  BY <1>1 DEF File
<1>7. Fresh(f) => Fresh(g)
  BY <1>6 DEF Fresh
<1> QED
  BY <1>5, <1>6, <1>7 DEF Gone

\* A write of new content keeps the cache fresh and covers what it writes.
LEMMA WriteLemma ==
  ASSUME NEW f \in File, NEW lo \in Nat \ {0}, NEW hi \in 0 .. Capacity,
         NEW c \in Content \ {"orig"}, NEW S \in SUBSET Cells,
         NEW g, g = Write(f, lo, hi, c)
  PROVE  /\ g \in File
         /\ g.media = f.media
         /\ g.hole = f.hole
         /\ Fresh(f) => Fresh(g)
         /\ Covered(f, S) => Covered(g, S \union (lo .. hi))
<1>1. [i \in Cells |-> IF i \in lo .. hi THEN c ELSE f.cache[i]] \in [Cells -> Content]
  BY DEF File
<1>2. f.dirty \union ((lo .. hi) \intersect Cells) \in SUBSET Cells
  BY DEF File
<1>3. (IF hi > f.size THEN hi ELSE f.size) \in 0 .. Capacity
  BY DEF File
<1>4. g \in File
  BY <1>1, <1>2, <1>3 DEF Write, File
<1>5. /\ g.media = f.media /\ g.hole = f.hole /\ g.error = f.error
      /\ g.dirty = f.dirty \union ((lo .. hi) \intersect Cells)
      /\ g.cache = [i \in Cells |-> IF i \in lo .. hi THEN c ELSE f.cache[i]]
  BY DEF Write, File
<1>6. lo .. hi \subseteq Cells
  BY StorageAssumption DEF Cells
<1> QED
  BY <1>4, <1>5, <1>6 DEF Fresh, Covered

\* Punching frees units and zeroes the rest in the cache; the media keeps what
\* it has until the device reuses it.
LEMMA PunchLemma ==
  ASSUME NEW f \in File, NEW n, NEW S \in SUBSET Cells,
         NEW g, g = Punch(f, n)
  PROVE  /\ g \in File
         /\ g.media = f.media
         /\ Fresh(f) => Fresh(g)
         /\ Gone(f, S) => Gone(g, S)
<1>1. [i \in Cells |-> IF i \in 1 .. n THEN "zero" ELSE f.cache[i]] \in [Cells -> Content]
  BY DEF File, Content
<1>2. /\ FullUnits(n) \in SUBSET Cells
      /\ Body(n) \in SUBSET Cells
  BY DEF FullUnits, Body
<1>3. /\ (f.dirty \ FullUnits(n)) \union (Body(n) \ FullUnits(n)) \in SUBSET Cells
      /\ f.hole \union FullUnits(n) \in SUBSET Cells
  BY <1>2 DEF File
<1>4. g \in File
  BY <1>1, <1>3 DEF Punch, File
<1>5. /\ g.media = f.media
      /\ g.cache = [i \in Cells |-> IF i \in 1 .. n THEN "zero" ELSE f.cache[i]]
  BY DEF Punch, File
<1> QED
  BY <1>4, <1>5 DEF Fresh, Gone

----------------------------------------------------------------------------
\* The cells that still hold old data on the media.
Old(f) == {i \in Cells : f.media[i] = "orig"}

\* From f to g nothing but the media changed for the caller, and that for the
\* better.
Quiet(f, g) ==
  /\ g \in File
  /\ g.size = f.size
  /\ g.hole = f.hole
  /\ Fresh(g)
  /\ Old(g) \subseteq Old(f)

\* A sync, whatever becomes of it, and write-back by the kernel are quiet.
LEMMA QuietLemma ==
  ASSUME NEW f \in File, Fresh(f), NEW cow, NEW g,
         \/ SyncPossible(f) /\ g = Synced(f, cow)
         \/ g \in SyncFailures(f, cow)
         \/ g \in WriteBacks(f, cow)
  PROVE  Quiet(f, g)
<1>1. \A i \in Cells : {i} \in SUBSET Cells
  OBVIOUS
<1>2. /\ g \in File /\ g.size = f.size /\ g.hole = f.hole /\ Fresh(g)
      /\ \A i \in Cells : Gone(f, {i}) => Gone(g, {i})
  <2>1. CASE SyncPossible(f) /\ g = Synced(f, cow)
    BY <1>1, <2>1, SyncedLemma
  <2>2. CASE g \in SyncFailures(f, cow)
    BY <1>1, <2>2, SyncFailuresLemma
  <2>3. CASE g \in WriteBacks(f, cow)
    BY <1>1, <2>3, WriteBacksLemma
  <2> QED
    BY <2>1, <2>2, <2>3
<1>3. \A i \in Cells : f.media[i] # "orig" => g.media[i] # "orig"
  BY <1>2 DEF Gone
<1> QED
  BY <1>2, <1>3 DEF Quiet, Old

\* What is gone stays gone where no old data appears.
LEMMA GoneStays ==
  ASSUME NEW f, NEW g, Old(g) \subseteq Old(f), NEW S \in SUBSET Cells, Gone(f, S)
  PROVE  Gone(g, S)
BY DEF Old, Gone

\* Growing, shrinking, writing and punching leave the media alone.
LEMMA SameOld ==
  ASSUME NEW f, NEW g, g.media = f.media
  PROVE  Old(g) = Old(f)
BY DEF Old

----------------------------------------------------------------------------
\* The same operations, for any set S of cells and any set C of contents: the
\* cache holds only C there, the media does, or it will once the next sync has
\* reported success.

Cached(f, S, C)   == \A i \in S : f.cache[i] \in C
Stored(f, S, C)   == \A i \in S : f.media[i] \in C
Reaching(f, S, C) == \A i \in S : i \in f.dirty \/ f.media[i] \in C \/ f.error = "pending"

\* A sync that reports success stores what the cache holds.
LEMMA SyncedCells ==
  ASSUME NEW f \in File, NEW cow, NEW S \in SUBSET Cells, NEW C, SyncPossible(f),
         NEW g, g = Synced(f, cow), Cached(f, S, C)
  PROVE  /\ Cached(g, S, C)
         /\ Reaching(f, S, C) => Stored(g, S, C)
         /\ Stored(f, S, C) => Stored(g, S, C)
<1>1. f.error = "none"
  BY DEF SyncPossible
<1>2. /\ g.cache = f.cache
      /\ g.media = [i \in Cells |-> IF i \in f.dirty THEN f.cache[i] ELSE f.media[i]]
  BY DEF Synced, Store
<1> QED
  BY <1>1, <1>2 DEF Cached, Reaching, Stored

\* A sync that fails undoes nothing that is stored.
LEMMA SyncFailuresCells ==
  ASSUME NEW f \in File, NEW cow, NEW S \in SUBSET Cells, NEW C,
         NEW g \in SyncFailures(f, cow), Cached(f, S, C)
  PROVE  /\ Cached(g, S, C)
         /\ Stored(f, S, C) => Stored(g, S, C)
<1>1. PICK stored \in SUBSET f.dirty :
        g \in {Store(f, cow, stored, lost, "none") : lost \in SUBSET (f.dirty \ stored)}
  BY DEF SyncFailures
<1>2. PICK lost \in SUBSET (f.dirty \ stored) : g = Store(f, cow, stored, lost, "none")
  BY <1>1
<1>3. /\ g.cache = f.cache
      /\ g.media = [i \in Cells |-> IF i \in stored THEN f.cache[i] ELSE f.media[i]]
  BY <1>2 DEF Store
<1> QED
  BY <1>3 DEF Cached, Stored

\* Write-back by the kernel keeps all three.
LEMMA WriteBacksCells ==
  ASSUME NEW f \in File, NEW cow, NEW S \in SUBSET Cells, NEW C,
         NEW g \in WriteBacks(f, cow), Cached(f, S, C)
  PROVE  /\ Cached(g, S, C)
         /\ Reaching(f, S, C) => Reaching(g, S, C)
         /\ Stored(f, S, C) => Stored(g, S, C)
<1>1. CASE \E i \in f.dirty : g = Store(f, cow, {i}, {}, f.error)
  <2>1. PICK i \in f.dirty : g = Store(f, cow, {i}, {}, f.error)
    BY <1>1
  <2>2. /\ g.cache = f.cache /\ g.dirty = f.dirty \ {i} /\ g.error = f.error
        /\ g.media = [j \in Cells |-> IF j = i THEN f.cache[j] ELSE f.media[j]]
    BY <2>1 DEF Store
  <2> QED
    BY <2>2 DEF Cached, Reaching, Stored
<1>2. CASE \E i \in f.dirty : g = Store(f, cow, {}, {i}, "pending")
  <2>1. PICK i \in f.dirty : g = Store(f, cow, {}, {i}, "pending")
    BY <1>2
  <2>2. /\ g.cache = f.cache /\ g.error = "pending"
        /\ g.media = [j \in Cells |-> f.media[j]]
    BY <2>1 DEF Store
  <2> QED
    BY <2>2 DEF Cached, Reaching, Stored
<1> QED
  BY <1>1, <1>2 DEF WriteBacks

\* Growing or shrinking the file puts zeros in its cache, nothing on its media.
LEMMA TruncationsCells ==
  ASSUME NEW f \in File, NEW n \in 0 .. Capacity, NEW S \in SUBSET Cells, NEW C,
         "zero" \in C, NEW g \in Truncations(f, n), Cached(f, S, C)
  PROVE  /\ Cached(g, S, C)
         /\ Stored(f, S, C) => Stored(g, S, C)
<1> DEFINE kept == IF n < f.size THEN n ELSE f.size
<1>1. /\ g.media = f.media
      /\ g.cache = [i \in Cells |-> IF i > kept THEN "zero" ELSE f.cache[i]]
  BY DEF Truncations
<1> QED
  BY <1>1 DEF Cached, Stored

\* A write of c reaches the cells it writes.
LEMMA WriteCells ==
  ASSUME NEW f \in File, NEW lo \in Nat \ {0}, NEW hi \in 0 .. Capacity, NEW c,
         NEW S \in SUBSET Cells, NEW C, c \in C, NEW g, g = Write(f, lo, hi, c),
         Cached(f, S, C)
  PROVE  /\ Cached(g, S \union (lo .. hi), C)
         /\ Reaching(f, S, C) => Reaching(g, S \union (lo .. hi), C)
         /\ Stored(f, S, C) => Stored(g, S, C)
<1>1. /\ g.media = f.media /\ g.error = f.error
      /\ g.dirty = f.dirty \union ((lo .. hi) \intersect Cells)
      /\ g.cache = [i \in Cells |-> IF i \in lo .. hi THEN c ELSE f.cache[i]]
  BY DEF Write
<1>2. lo .. hi \subseteq Cells
  BY StorageAssumption DEF Cells
<1> QED
  BY <1>1, <1>2 DEF Cached, Reaching, Stored

\* Punching puts zeros in the cache, and leaves the media to the device.
LEMMA PunchCells ==
  ASSUME NEW f \in File, NEW n, NEW S \in SUBSET Cells, NEW C,
         "zero" \in C, NEW g, g = Punch(f, n), Cached(f, S, C)
  PROVE  /\ Cached(g, S, C)
         /\ Stored(f, S, C) => Stored(g, S, C)
<1>1. /\ g.media = f.media
      /\ g.cache = [i \in Cells |-> IF i \in 1 .. n THEN "zero" ELSE f.cache[i]]
  BY DEF Punch
<1> QED
  BY <1>1 DEF Cached, Stored

\* Unlinking only forgets what was not written yet.
LEMMA DroppedCells ==
  ASSUME NEW f \in File
  PROVE  /\ Dropped(f) \in File
         /\ Dropped(f).size = f.size /\ Dropped(f).hole = f.hole
         /\ Dropped(f).cache = f.cache /\ Dropped(f).media = f.media
BY DEF Dropped, File
==============================================================================
