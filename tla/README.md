# Aegis Sanitizer: verification project

TLA+ models of the sanitizer in this repository, the TLC runs that check them,
and proofs checked by TLAPS. Paths are relative to the repository root.

## 1. Inventory

| component | code | state | operations |
|---|---|---|---|
| FileShredder, one file | `src/sanitizer/file_shredder.cpp` (`shred_file`, `execute_passes`, `verify_*`, `scrub_metadata`) | `config_`, `records_`, the `AuditRecord` being filled, stream positions, the file's current name | overwrite passes, flush, slack, read-back, discard, three renames, unlink, verdict |
| Platform contract | `include/sanitizer/platform_fs.hpp` | none between calls | `flush_file_to_media`, `eliminate_slack_space`, `discard_file_blocks`, `detect_filesystem_name` |
| Platform, POSIX | `src/sanitizer/platform_fs_posix.cpp` | a descriptor and locals per call | the same, on statfs, FIEMAP, ftruncate, write, fdatasync, fallocate |
| Platform, Win32 | `src/sanitizer/platform_fs_win32.cpp` | a handle and locals per call | the same, on volume and attribute queries, retrieval pointers, SetEndOfFile, FlushFileBuffers, FSCTL_SET_SPARSE and FSCTL_SET_ZERO_DATA (the comment at 391 speaks of FILE_LEVEL_TRIM, which is not called) |
| Directory shredding | `shred`, `shred_directory` | two lists of paths | walk, shred each file, remove directories bottom-up |
| Audit export | `export_audit_json` | `records_` | write the records as JSON |
| Command line, shred | `src/main_cli.cpp` `handle_shred` | `ShredConfig` | option parsing, exit code |
| Command line, wipe-disk | `handle_wipe_disk`, `is_system_or_mounted_storage` | mount and swap tables (of the kernel) | guard, then an external program |
| Block device HAL | `src/hal/posix_device.cpp`, `include/hal` | descriptor, sector size, sector count | open, close, move, read and write a sector |
| AlignedBuffer | `include/common/aligned_buffer.hpp` | pointer, size, alignment | allocate, move, free |
| Tests | `tests/` | none | drivers |

How they interact. `main` builds a `ShredConfig` and calls `FileShredder::shred`,
which calls `shred_file` once, or once per file of a tree. `shred_file` calls the
platform functions synchronously and copies their result structs into the record;
pipeline and platform share nothing else but *the file*, which the kernel changes
as well. The HAL moves the contents of an `AlignedBuffer` to and from a device;
both are used by a test only, and `wipe-disk` uses neither.

What is hard:

* **Concurrency with the kernel.** The program is single-threaded, but every
  claim it makes is about the media, and between any two system calls the kernel
  may write a dirty page back, or fail to and report it to the next sync only.
* **Concurrency with the rest of the system.** Trees change while they are
  shredded, partitions are mounted while a wipe is being prepared.
* **Partial failure.** Each call can fail; a failure must not be reported as a
  success, must not leave the file with the wrong size or the descriptor open,
  and must not let the destructive steps run early.
* **Order.** Passes before flush, flush before read-back, slack before discard,
  read-back before discard, everything before rename and unlink; files before
  directories, inner directories before outer ones.
* **Agreement.** The pass switch, the slack pattern and the kind of verification
  are three places that must know the same thing about a method.
* **Ownership.** Descriptors and blocks of memory move between objects.
* **Numeric edges.** Empty files, sizes on a unit boundary, zero passes, short
  reads and writes, long names, and the 2^64 - 1 of a failed `file_size`.

`PROJECT.json` lists each hazard at its line with the properties that cover it.

What makes each component correct:

* FileShredder: an audit record never claims more than is true of the file;
  nothing irreversible happens before the verdict; what is removed is the file
  that was scrubbed; the call returns.
* Platform: success statuses are true of the media, sizes come back, a TRIM is
  reported exactly when it was done, descriptors are closed.
* Directory: nothing is removed that was not shredded, nothing outside the tree
  is touched, and the outcome of a tree reflects the outcome of its files.
* Command line: the options give the configuration the usage text promises.
* Wipe guard: no device in use as a system disk passes.
* HAL, buffers: one owner per descriptor and per block; a transfer reported as
  done was done, at the sector asked for.

## 2. Modules

```
                PlatformFs                               (contract of the platform)
               /          \        implemented by
     PlatformPosix     PlatformWin32
                  \          |         PageCache: the operating system, under all of these
                   \         |
   FileShredder + PlatformPosix = ShredPosix      FileShredder + PlatformWin32 = ShredWin32
                   \                               /
                    ---------  implement ---------
                             ShredCall             (contract of shred_file)
                                 |
                             TreeShred             (uses ShredCall for each file)
   ShredMethods  <- FileShredder
   ShredMethods  <- ShredOptions \
                      WipeGuard   > CommandLine
   AlignedBuffer <- BlockDevice          MetadataScrub on its own
```

**PageCache** is what the code relies on of the operating system and models no
code of the repository. One regular file is a record over `Capacity` cells:
content in the page cache, content on the media, dirty cells, punched units,
copy-on-write remnants, and whether a write-back error waits to be reported.
`Write`, `Synced`/`SyncFailures`, `WriteBacks`, `Truncations`, `Punch`,
`Dropped` and `Readable` are write(2), fdatasync(2), background write-back,
ftruncate(2), fallocate(2), unlink(2) and read(2). A failed sync stores any part
of the dirty cells and may mark any of the others clean, and reports the error
once; a read of a clean cell may come from the cache or, the page having been
reclaimed, from the media. `Boundary` is the code's rounding up, in `uint64_t`
arithmetic (`Wrap`). A cell's content is one of `orig` (what must go), `zero`,
`ones`, `rnd`, `pat`. Windows' cache manager and FSCTL_SET_ZERO_DATA on a sparse
file are taken to behave the same way.

**PlatformFs** is the contract of `platform_fs.hpp`: a function is invoked, old
data may disappear but never return, the function replies. Each kind of reply
carries its promise: `FlushReturns` (true means the payload is on the media),
`SlackSucceeds` (overwritten, size back), `SlackSkips` (size never touched),
`SlackFails` (never reported as eliminated, and the size restored), `DiscardReturns`
(invoked exactly when the whole units were freed). The header promises the size on
every failure path; an implementation may break that in one case only, when the
system refuses the very call that restores it, which its reply then says in a field
that the code does not have (`refused`). A path that forgets the call is no step of PlatformFs.

**PlatformPosix** has one action per system call of the three functions, each
with its ways to fail; `at` names the call about to be made, `fd` whether the
descriptor is open. `FlushSync`, ..., `FsyncDiscard` follow the code from top to
bottom; `GiveUp` is the error path that truncates back and ignores the outcome, `FailUnrestored`
the return after a truncation that was refused.
Statuses: all `FAILED_*` are one value, because no caller tells them apart;
`SUCCESS*` and `SKIPPED_*` keep their names. `fs` is one of five kinds of
filesystem: with an extent map, with the file inline in the inode, cluster
allocated, copy-on-write, and with neither extent map nor a known magic. A failing `fstatfs`
makes the code see neither cow nor cluster, whatever the kind.

**PlatformWin32** has the same interface. `fs_name_of`, `cluster_size_of` and
`check_residency` are the sets of answers the queries may give on the volume at
hand, failures included; `Refusal` is the cascade over attributes and volume,
`GiveUp` is `restore_size`. Where it differs from POSIX: attributes instead of
filesystem magic; files resident in the MFT record, moved out when they grow;
no descriptor to leak (class `Handle`); a discard in two calls, the first of
which leaves the file sparse; a length rounded up in 64 bits (`AlignedLength`), by the
cluster or, when its size cannot be found out, by 4096 bytes.

**FileShredder** is `shred_file` and its members up to the platform calls, with
`pc` the stage. `WriteChunk` is one iteration of the pass loop, with
the stream's flush and the choice of the next pass after the last; `ReadChunk`
one iteration of either read loop; `AfterFlush`, `AfterSlack` and `AfterDiscard`
what is done with each platform result (`flush_ok` records the value the code drops); `Rename`
and `Unlink` the metadata scrub of one entry; `FinalStatus` the verdict. The
fresh entropy of random data is not computed: a read-back that saw random
or old data, and at least `EntropyFloor` cells, may pass or not.
**ShredMethods** has `PassCount`, `PassContent`, `FinalPattern` and
`FinalPassZero`, translated each from its own switch.

**ShredPosix** and **ShredWin32** compose the two: `Program == Shred \/ Platform`,
interleaved with `Kernel`. `at` and `result` are the interface: the pipeline sets
`at` to a function's name and goes on when it is `"returned"`.

**ShredCall** is what is left of `shred_file` for its caller: the entry's name,
the record's status, the bool. A refused call leaves the entry alone; a finished
one has masked or removed it, and `SUCCESS_VERIFIED` means removed. Both
compositions implement it (`ImplementsCall`).

**MetadataScrub** is `scrub_metadata` for the files of a directory, one after
another. Names are records of text, length and nonce; `Renamed` replaces an
entry of the same name, as rename(2) does; the nonce of a file is any of
`Nonces`, the same as another's included. It assumes that no user's name looks like a mask.

**TreeShred** is the shred command from the target on: `OpenRoot`, `Visit` and
`Ascend` are `recursive_directory_iterator` (a directory lists what it held when
it was opened; one without permission is skipped; any other error throws and
nobody catches it), `StartFile` and `CallStep` a call of `shred_file` through
`ShredCall` (`StartFile` answers its first question, is_regular_file, which is false also
when the file is there and cannot be looked at), `RootNotADirectory` the same failure
at the root, `RemoveDirectory` and `RemoveRoot` the removals whose error codes are
dropped, `export_audit_json` and `Finish` the end of `handle_shred`. `Create` and `Vanish`
are other processes. Entries are files, directories, links to either, and others.

**ShredOptions** is `main` and the option loop; `args` is any sequence of
`Tokens`. `Meaning` states what a command line means without reading it in order:
an argument after an option that takes a value is a value unless that option is
one itself. Three calls throw and nothing catches it: std::stoul (`bad_number`), fs::exists and
fs::is_directory (`filesystem_error`).

**WipeGuard** is `handle_wipe_disk`. Device names are sequences of parts, so that
`rfind(name, 0) == 0` is `IsPrefix`. `blind` records that a table or a name could
not be read, which the code takes for "not in use"; `held_mounts` and
`held_swaps` what has been in use since the program was started. `Mount`,
`Unmount`, `SwapOn` and `SwapOff` are the rest of the system.
**CommandLine** is `main`, which goes from the subcommand into ShredOptions or WipeGuard.

**AlignedBuffer** and **BlockDevice** have the objects as records and the heap, or
the descriptor table, beside them, with one action per special member function. A
moved-from object stays alive. `Transfers` is what pread and pwrite may return
under O_DIRECT: nothing unless offset, size and address are on sectors.

Definitions whose comment begins with "As if" are mutations, used to
show that each property can fail (`PROJECT.json`, `mutants`).

## 3. Runs

| run | module, cfg | shows |
|---|---|---|
| `platform` | PlatformPosix, MCPlatformPosix | types, no descriptor leak, `EliminatedMeansOverwritten`, and the refinement of PlatformFs |
| `win32` | PlatformWin32, MCPlatformWin32 | the same of the Win32 layer |
| `shred` | MCShredPosix, MCShred | what the audit record says is true of the file, nothing is destroyed early, the switches agree, the refinement of ShredCall, `shred_file` returns, and each step lowers a bound on those left |
| `shred_win32` | MCShredWin32, MCShredWin32 | types, the audit record, the refinement of ShredCall and the bound on the steps left, on Windows |
| `scrub` | MCMetadataScrub, MCMetadataScrub | the file removed is the file scrubbed; true means gone; names too long to mask are surfaced |
| `tree` | MCTreeShred, MCTreeShred | no file is removed unshredded, verified trees are gone, what is left is reported, a file's exit code is its record's, no entry outside the tree is lost through links, the command ends, and each step lowers a bound on those left |
| `command_line` | MCCommandLine, MCCommandLine | shred's options mean the same in every order; no device in system use throughout is wiped |
| `devices` | MCBlockDevice, MCBlockDevice | one owner per block and per descriptor, size and data agree, addressing by the right sector size, and a transfer that returns true was done |

The following are *violated*: each states one sentence of the repository's
comments, messages or README, which `findings` in `PROJECT.json` quotes, and TLC
finds the behaviour of the code that contradicts it.

| run | module, cfg | the code |
|---|---|---|
| `cached_read_back` | MCShredPosix, MCCachedReadBack | drops a failed flush, and the read-back passes on the cache |
| `tree_exit_zero` | MCTreeShred, MCTreeExitZero | prints success and returns 0 for a tree with failures |
| `lockout_mapper` | MCWipeGuard, MCMapper | does not look through mapper devices |
| `default_passes` | MCShredOptions, MCDocumentedPasses | without `--method` writes one pass of zeros, not README.md's three random passes and one of zeros |

Bounds. Counters are bounded by the file, the tree or the argument list, so only
the constants bound the runs.

* `platform`: `Capacity = 6`, `Unit = 3`, sizes 0, 3 and 4. An empty file, one that fills
  its unit, and one with a full unit before a partial one: two cells of slack, so
  that a short write splits them, and a unit for the punch to free.
* `win32`: `Capacity = 4`, `Unit = 3`, sizes 0 to 4: resident or with slack of two
  cells or one, a whole cluster, and one that cannot grow on a full volume.
* `shred`: `Capacity = 2`, `Unit = 2`, sizes 0, 1, 2, buffers of one cell. Payloads
  of several chunks, with and without slack; a punch that frees a unit and one
  that zeroes a tail; a size error (`Wrap - 1 = 3`) that runs into the end of the
  volume. All methods, the random one with and without its zero pass and with
  no pass at all; Gutmann with its 35 passes. Filesystems with neither map nor magic are
  left to `platform`: their slack takes the path of a cluster volume whose `fstatfs` failed.
* `shred_win32`: the same on NTFS, FAT and ReFS with three configurations, since the
  methods differ for control only in the number of passes and the kind of
  verification.
* `EntropyFloor = 1`: any chunk of random data may pass, which includes what a large
  prefix can do.
* `scrub`: three files, two of whose names have one length, two nonces, so that
  masks collide; the third file's name is too long to be masked. A name of one
  character has the zero mask for its short name as well.
* `tree`: a directory with a file and a directory, in which there is a link back up;
  links to a file and to a directory elsewhere; a file that appears in between. Each
  file appears once or vanishes once. The command is given the tree or the file.
* `command_line`: for shred, five arguments out of nine tokens: two options with values and
  a flag, an option in the place of a value, a missing value, a number that does not fit.
  `PassWrap = 8` stands for 2^32; `default_passes` has three arguments. For wipe-disk, a disk, its partition, another name
  for the disk and a loop device, system mount points and others; `lockout_mapper` has a
  mapper device. What the handler that is not called would read is fixed.
* `devices`: two objects and two buffers, over two descriptors and two addresses, which
  the system gives out again; one device with sectors of 1 and one with sectors of 2;
  buffers that are on a sector and that are not; sector 4 is past the end of the
  first and overflows `Wrap = 8` on the second. Objects, buffers and values are
  symmetric: no definition tells one from another.
All runs say `CHECK_DEADLOCK FALSE`: after `shred_file` or the command has
returned, the three platform functions have been called, or all files are
scrubbed, nothing is left to do; and in BlockDevice no operation is due.

Fairness. `FairSpec` of ShredPosix and of TreeShred assumes weak fairness of
`Program` as a whole: one thread, whose system calls return; in TreeShred the
steps inside a call are fair because the call ends (`Terminates` of ShredPosix). It does not assume that
any particular outcome of a call happens, nor that the kernel writes anything
back or that other processes do anything.

## 4. Where the code departs from its documents

Four departures are shown by runs (section 3). The others below were met
while the modules were written and can be read off the definitions named; no property
states them, and the modules do what the code does.

* Size. The comments at `platform_fs.hpp:45-47` and `platform_fs_win32.cpp:332` want the
  size "always" restored, "on every failure path". Both layers make the restoring call on
  every path, and no more: when it is refused the function returns FAILED and the file keeps
  its cluster size (`FailUnrestored`). `ImplementsContract` excepts exactly this case.
* Passes. `file_shredder.cpp:211` flushes the stream, not the file: only what the last
  pass left in the cache need reach the media (`WriteChunk`), while README.md:115 speaks of a
  flush of the controller after every overwrite pass. A random method with
  no pass and no zero fill goes on to the verification (`AfterPass`).
* Read-back. `verify_entropy` judges what it has read, a prefix after a read error,
  and asks for a number of bits per byte that a small file cannot have
  (`EntropyVerdicts`).
* Blocks. On a copy-on-write filesystem the old blocks stay (`remnant` of PageCache),
  and slack behind `st_blksize` in a larger cluster is not reached. A status that
  begins with SKIPPED counts as eliminated, a compressed file's too (`FinalStatus`), so that
  `SUCCESS_VERIFIED` is compatible with slack left alone: on Linux only when the record
  says SKIPPED_COW_FILESYSTEM (`SuccessVerifiedIsTrue`).
* TRIM on Windows. The size 2^64 - 1 of a failed `file_size` rounds up to 0, and a
  discard of nothing is reported as done (`AlignedLength`);
  `TrimOfKnownSizeReported` leaves that case out.
* Names. The mask is not of equal length, as `file_shredder.cpp:309` says, but longer by
  the nonce (`Mask` of MetadataScrub).
* Trees. A link to a file elsewhere is a regular file for the walk, and what it leads
  to is overwritten (`IsRegular`). The certificate is called saved whatever
  became of the writes (`export_audit_json`).
* Options. An unknown method leaves an earlier one in force (`Method`), although the
  message at `main_cli.cpp:185` says "Defaulting to NIST SP 800-88". A number of passes is
  cut to 32 bits (`Passes`).
* wipe-disk. The mount table is read once, so that what is mounted between the check and
  the wipe is not seen (`ReadMounts`, `Mount`). Outside Linux the command returns 0
  without wiping (`CheckUser`).
* HAL. `write_sector` tests a buffer against its own alignment, which always holds
  (`PointerRefused`).

## 5. Proofs

Each theorem holds for every value of the constants that satisfies the named
assumptions of its module. Where a property is not inductive, the strengthening was
checked by TLC on the instance of the run before it was proved.

`PageCacheProofs` has one lemma per file operation: it yields a `File`, and what it
does to the predicates of the proofs. `Fresh(f)`: no cell of the cache holds old data.
`Covered(f, S)`: each cell of S is dirty, or overwritten on the media, or an
error is pending. `Gone(f, S)`: no cell of S holds old data on the media. `Old(f)`:
the media's cells with old data, a set that `Quiet` steps cannot enlarge.

**The platform layers.** `PlatformPosixProofs` and `PlatformWin32Proofs` prove, of
`PlatformPosix!Spec` and `PlatformWin32!Spec`:

| | POSIX | Win32 |
|---|---|---|
| types | `TypeCorrect` | `Win32TypeCorrect` |
| `DescriptorClosed` | `DescriptorSafe` | no descriptor: class `Handle` |
| `EliminatedMeansOverwritten` | `SlackHonest` | `Win32SlackHonest` |
| refinement of PlatformFs | `PosixKeepsContract` | `Win32KeepsContract` |

`EliminatedMeansOverwritten` speaks of the moment of return only, so it is not
inductive. `SlackInv` says how the code gets there: while the filler is written, what
has been written is covered, not yet on the media; when the loop ends that is the
whole slack, because the count reached the fill; a sync that returns 0
turns covered into gone, because a pending error would have made it fail; after
that gone stays gone through the truncation, the last sync and any write-back,
because the cache is fresh and the media can only receive what the cache holds. `Fresh`
is why the pattern must not be old data, and why the passes come first.
`FrameLemma`, `PlainReturn` and `GiveUpLemma` carry the invariant through all steps that
end outside that stretch.

For the contract `CallInv` adds what one call leaves for the next: until the
grow the file has the size it came with (so that a skip may say it was not
touched), until the punch it has no hole, and after the punch the whole
units are holes (so that a TRIM is reported exactly when they were freed). A failure after the
grow either truncates back to the size the call came with or is `FailUnrestored`. Every
action is then a call, a reply, or an overwrite of PlatformFs: `OverwriteStep`
shows that the file steps in between change nothing the contract sees but old
data, which only gets less.

`PlatformWin32`, and with it `ShredWin32`, has an assumption of its own for this,
`RoundingFits`: `Capacity + Unit <= Wrap`. A file's size is a `LARGE_INTEGER`, below 2^63, so rounding one
up to a cluster does not wrap a `uint64_t`. Without it the contract fails:
for a size of 5, clusters of 4 and `Wrap = 8` TLC finds a rounded length of 0, with
which FSCTL_SET_ZERO_DATA frees nothing and the TRIM is reported.

**shred_file.** `ShredPosixProofs` proves of `ShredPosix!Spec`, under
`StorageAssumption` and `ShredderAssumption`, all that the `shred` run checks but termination:

* `NothingLostEarly`: `[]NothingLostBeforeVerdict`, by `Inv`
* `SwitchesAlwaysAgree`: `[]SwitchesAgree`, for every number of passes
* `ShredTypeCorrect`: `[]TypeOK`, by `Bounded`
* `TrimHonest`, `ZeroCheckComplete`: `[]TrimReportedHonestly`, `[]ZeroCheckReadsAll`, by `Judging`
* `SuccessHonest`: `[]SuccessVerifiedIsTrue`, by `SlackTrue`
* `PayloadOverwritten`: `[]FlushedPayloadOverwritten`, by `PayloadTrue`
* `ShredRefinesCall`: `ImplementsCall`
* `StepsRunOut`: `EachStepCounts`

The invariants build on each other in that order. The punch happens inside a
platform function, so `Inv` needs to know when such a function runs: its part `Turns` ties the
platform's program counter to the stage of `shred_file`, so that the labels of
`discard_file_blocks` occur only in stage `discard`; its part `Progress` says what each stage
leaves for the later ones: all passes complete (because the pass loop
leaves at exactly `PassCount`), a slack status that is set (because every return of
`eliminate_slack_space` sets one), a kind of verification; and that until the verdict
no block is given back and the name is the original. `PlatformFrame` is the
argument for all 21 platform actions. `Bounded` keeps the counters in their types: the slack
loop stays inside what was grown, and what was grown inside the volume.
`Judging` says that the record claims nothing before its time, and that between
the punch and the record the claim follows the hole. `SlackTrue` follows the
slack through the file's life: before the size is measured, what is past the end;
then the filler, cell after cell; then the media, until the end. `PayloadTrue`
follows the payload of the pass under way, then the last pass through the flush; it
has to hold through the slack's truncations and the punch, whose later write-backs must not
bring anything back. For `ShredRefinesCall` only the verdict, the masks and the removal are
steps of the contract.

`StepsLeft` of FileShredder is a number of four digits: stages left, passes left, platform
calls left, cells left in the loop under way. `ProgramCounts` shows that every
step of the program, none of which leaves everything as it is, lowers one digit and
no higher one: a stage and a call are never gone back to, a short or failing read leaves
the loop, a slack write that wrote nothing is a failure, and a chunk is never empty because the
loops stop at the size (`Bounded`) and the buffer has a cell. `Digits` and `FourDigits` turn
that into `EachStepCounts`; what the kernel writes back in between changes no digit
(`KernelCounts`). With it `Terminates` is proved up to two things the
tools cannot say: that a step is possible until the end (ENABLED), and the fairness of
`Program`.

`ShredWin32Proofs` proves of `ShredWin32!Spec`, by the same five invariants and under
`VolumeAssumption` and `RoundingFits` besides, all that the `shred_win32` run checks, and
three properties that only the `shred` run does:

* `Win32NothingLostEarly`: `[]NothingLostBeforeVerdict`, and `Win32SwitchesAgree`, by `Inv`
* `Win32ShredTypeCorrect`, by `Bounded`
* `Win32TrimHonest`: `[]TrimOfKnownSizeReported`, and `Win32ZeroCheckComplete`, by `Judging`
* `Win32SuccessHonest`: `[]SuccessVerifiedIsTrue`, by `SlackTrue`
* `Win32PayloadOverwritten`: `[]FlushedPayloadOverwritten`, by `PayloadTrue`
* `Win32ShredRefinesCall`: `ImplementsCall`
* `Win32StepsRunOut`: `EachStepCounts`

What is its own: `MftData` in `Judging`, that a file with its data in the MFT record is
shorter than a cluster and has no whole one to give back, so that a TRIM claimed for it
claims nothing; the name of the volume, which is the volume's or `UNKNOWN`, so that what the
code skips as resident is resident; `SlackLeftAlone`, which no step changes although the
discard adds an attribute; and that a file whose size could not be read, 2^64 - 1, never gets
as far as the slack loop.
The types did not prove at first, for a good reason: with the 4096 bytes of the fallback
`AlignedLength` did not wrap for that size, and a resident file was zeroed past its end. TLC
confirmed both on the run's instance with `TypeOK` added; `AlignedLength` and
`ZeroData` now do what the code does, and `TypeOK` is part of the run.

**Trees.** `TreeShredProofs` proves of `TreeShred!Spec`:

* `NoFileRemovedUnshredded`, `ElsewhereUntouched`, by `IInv`. A step that takes an entry
  away is a call's last one, whose status then is one of `Overwritten`; a removal,
  which takes an entry of `dirs_to_remove`, or the target, that is not a file; or `Vanish`.
  That `dirs_to_remove` never holds a file (`NoFiles`), nor anything elsewhere (`Ours`),
  is what makes it inductive.
* `FileExit`, by `OneFile`: with a file as the target there is one call, and `ok` is its record's.
* `KeptFilesReported`, by `Stages`, `AllSeen` and `FilesFound`: what a directory that has
  been entered held waits to be visited or is listed; when the walk ends nothing waits,
  and as no directory lies below itself every file is on the list. From there a file
  leaves it only into its call, and that only into a record.
* `CleanTree`, by `InOrder` and `NothingLeft`: a directory comes on the list after the one it
  lies in and is removed before it, so that it is empty when its turn comes.
* `TreeStepsRunOut`: `EachStepCounts`, from a count that starts at four for each entry and
  six more. `InOrder` is what it needs: an entry waits once, in a directory the walk has come to,
  and is not one of those itself, so that no iteration brings back what it took
  (`VisitLeavesLess`). `NoWayBack` makes that true of any directory the command is given, not
  only of the top. `Calling` says that a call which has masked the name does not do so again.

With it `Terminates` is proved up to the same two things as that of ShredPosix: that a
step is possible until the end, and the fairness of `Program`. `TreeFinite`, that the
entries there are and others may still make are finitely many, is what the count starts from.

These proofs use `TreeShape`, which the filesystem guarantees: no directory lies
below itself, what there is at first lies in what there is, the tree has one top,
what lies elsewhere lies elsewhere entirely, and a link that can be followed leads to a file or
directory that is there.

**The rest.** `CommandLineProofs` proves of MetadataScrub `NameFollowed`,
`ScrubbedIsGone` and `FailedMasksSurface`. `IInv` says that a file that is pending has its original name and no
other, that the file being scrubbed has `current_path` and no other, and that a
file for which true was returned has none. A rename may replace the entry of
another file, but only of one whose removal failed: `MaskIsNoOriginal` keeps the pending
ones out of reach. `LengthInv` adds that after the first mask the flag is still
set only if the mask fitted.

It proves `GuardKeepsUsedDisks` of WipeGuard too: `held_mounts` is always
part of `mounts`, so what has held since the start is in the table when it is read,
and it can only shrink afterwards. Of ShredOptions it proves `OptionsUnderstood`, for
any number of arguments; `HandlersRun` carries both over to the `CommandSpec` of the run. `Meaning` counts how many options stand in a row before an argument;
`RunGrows` turns that into a step, by a bijection from one run to the next,
and `ValueAfterOption` into what the code does: the next argument is a value exactly when
this one is an option with a value and no value itself. `OptionInv` then says that the
argument about to be read is no value and `cfg` is `MeaningBefore(i)`, the meaning of
those before it.

`BlockDeviceProofs` proves `BlocksOwned` of the buffers alone and, of buffers and
devices together, `BlocksOwnedThroughout`, `DescriptorsOwned`, `OwnSectorSize`,
`BuffersFit` and `TransfersComplete`. The strengthening (`BlockOwners`, `Owners`) is that an object
that is not alive owns nothing. `BlockReplaced` and `BlockMoved` are the two ways
ownership changes, and each action is an instance of one of them; `OwnerReplaced` and
`OwnerMoved` are the same for descriptors. `Owners` carries the sector size with the
descriptor, so that both move together. `DeviceInv` adds that a block of the heap and a
device of the table keep their sizes (`Held`); with it a transfer of full length
has moved every cell of the buffer, and no cell outside it.

Only model-checked: `Terminates` of ShredPosix and of TreeShred. Liveness under fairness and
ENABLED are beyond the tools at hand; the bounds above are the rest of it.

## 6. Not modelled

* Bytes: a cell stands for a run of bytes treated alike, `rnd` for any output of
  the generator. Old data that happens to equal a pattern is not distinguished.
* `pattern.empty()` in `eliminate_slack_space`: no caller passes an empty
  pattern. `EINTR`: repeats the call, a stuttering step.
* Other processes that write to the file being shredded, or put another in its place.
* The data fields of the record (times, filesystem name, entropy, unit sizes) and
  their JSON: strings are written without escaping, so a path with a quotation mark
  gives a certificate that is no JSON. No state of the program depends on it.
* `is_elevated_user` beyond its answer, and `nwipe` beyond its exit code.
* `path_` and what `total_sectors()` is used for: nothing reads them. The types
  of `types.hpp` and the interface `IBlockDevice` have no behaviour of their own.
* `tests/`: `test_sector_zero.cpp` is one sequence of the calls in BlockDevice,
  `test_shredder.cpp` does not compile against the present FileShredder.
* The banner, the usage text, the log output, the build files.
* A crash: nothing is persisted for a restart to read.

## 7. Plan

Done: all modules above, a theorem for every safety property, action property and
refinement the runs check, and a bound on the steps of both programs that end. Left: the two
`Terminates`, once a prover handles fairness.
