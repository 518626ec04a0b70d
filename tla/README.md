# latte_lib_diskdb: specifications and proofs

`latte_lib_diskdb` is a C port, still in progress, of LevelDB's bottom layers:
the record log, the version edits kept in it, and the opening of a database.
This directory holds TLA+ modules translated from that code, TLC runs on small
instances, and TLAPS proofs for all instances.

## 1. The system

### Components

| Component | State | Operations | Modelled in |
|---|---|---|---|
| Record log format (`logConstant.h`) | - | - | `LogFormat` |
| Record log writer (`logWriter.c`) | `block_offset`, the file | `writeLogCreate`, `logAddRecord` | `LogWriter` |
| Record log reader (`logReader.c`) | `buffer`, `eof`, three offsets, `resyncing` | `readLogRecord` | `LogReader` |
| Opening a database (`db.c`) | LOCK, MANIFEST-000001, CURRENT, the temporary file | `diskDbOpen`, `diskDbRelease` | `DbOpen` |
| Version recovery (`versionSet.c`) | the numbers collected, the error, the version installed | `recoverVersions` | `VersionRecovery` |
| Version edit codec (`versionEdit.c`) | the edit being decoded | `versionEditToSds`, `decodeVersionEditSlice` | `VersionEdit`, the decoding loop in `VersionRecovery` |
| Version set (`versionSet.c`) | file numbers, the current version | `versionSetMakeFileNumberUsed`, `versionSetAppendVersion`, `versionSetFinalizeVersion` | `VersionRecovery`, `LevelScore` |
| Versions, file metadata (`version.c`, `fileMetaData.c`) | a reference count | `versionCreate`, `versionRef`, `versionUnref` | `VersionRecovery`, `VersionBuilder` |
| Version builder (`versionBuilder.c`) | per level, the files of the base, added and deleted | `builderSaveToVersion`, `versionMaybeAddFile`, `versionSetBuilderApply` | `VersionBuilder`; the last one in `VersionRecovery` |
| Comparators, internal keys (`comparator.c`, `internalKey.c`) | the key being shortened | compare, separators, successors, packing, parsing | `Comparator`, `KeyShortening` |
| Get and put (`read.c`, `write.c`) | one global value | `diskDbGet`, `diskDbPut` | - (section 6) |
| latte_c (files, sds, sets, crc) | - | - | external: an empty submodule in this repository |

### How they interact

`diskDbOpen` calls `RecoverDb`, which takes LOCK, looks for CURRENT, and either
creates the database (`dbCreate`: one version edit is logged to
MANIFEST-000001 through the log writer, synced, closed; `dbSetCurrentFile`
writes a temporary file and renames it to CURRENT) or goes straight to
`recoverVersions`, which reads the manifest CURRENT names back through the log
reader, decodes its records into version edits, applies each to a version
builder, and at the end makes a version of what the builder holds, chooses the
level of it to compact next, and appends it to the version set. The builder
orders files by their internal keys, which the comparators compare. The writer
and the reader share nothing but the file. Nothing in the repository calls the log at run
time: get and put work on a global value.

### What is hard

* the block arithmetic: a header that just fits, trailers, empty first fragments;
* a writer that stops anywhere, and a power loss that takes any suffix of what
  was not synced, or leaves zeros in its place;
* damaged bytes, lost trailers, orphaned fragments, a reader that starts in the
  middle of the file;
* processes racing to create one database, dying between any two calls on
  files; calls that fail;
* in the version layer, numbers that wrap, an absent number that looks present,
  error values that are inverted or uninitialised, an edit that is refused after
  its numbers were half decoded, and a reference count that goes below 0;
* the bytes of keys: prefixes, 0xff, chars that are signed on some machines.

`PROJECT.json` lists each of these at its line, with the properties aimed at it.

### What makes each component correct

* **Writer**: its assertions hold; every physical record is inside a block *of
  the file*; what was synced stays.
* **Reader**: it returns only logged records, in order, all those that are
  whole and not behind damage in the same block, from the right offset; it
  reports damage but never a torn tail; it terminates.
* **Log as a whole**: an append-only sequence of which a prefix with everything
  synced survives a stop, and which is read back exactly (`RecordLog`).
* **Open**: a CURRENT that can be found names a whole manifest, unless an error
  was lost on the way; an existing database is never created over; an open
  returns.
* **Version recovery**: it installs, in one step, the numbers the edits of the
  manifest give, or fails and leaves the version set's numbers as they were, but
  for `next_file_number`, which is past both log numbers by the time it fails
  for a missing number (`RecoveredVersion`); no edit that was refused is followed
  by an installation; the current version is not a released one, and is counted
  (it is not: section 5); it ends.
* **Version layer**: keys are totally ordered, shortened keys stay on the right
  side of their neighbours, entries of one key come newest first; a merge keeps
  every file of the base in its place, passes the added ones on too, and all in
  order (these two not always: section 5); the level most in need is chosen.

## 2. The modules

| Module | What it is |
|---|---|
| `LogFormat` | cells, physical records and their encoding |
| `LogWriter` | `logWriter.c` with its callers' sync and close, failures and power loss |
| `LogReader` | `logReader.c` with its callers' loop |
| `RecordLog` | the abstract specification of the log |
| `LogSystem` | writer, then damage, then reader, on one file; refines `RecordLog` |
| `ForeignLog` | the reader on files of arbitrary physical records, against a reference definition of the records in them |
| `MCLogWriter`, `MCLogSystem`, `MCLogReader` | byte and record sets for TLC |
| `DbOpen` | `diskDbOpen` by several processes on one directory |
| `VersionEdit` | an edit, the record made of it, and what a field makes of an edit |
| `VersionRecovery` | `recoverVersions`, with the loop of `decodeVersionEditSlice` |
| `RecoveredVersion` | the abstract specification of a recovery |
| `MCVersionRecovery` | small manifests for TLC |
| `Comparator` | the bytewise comparator and internal keys, as operators on strings of bytes |
| `KeyShortening` | a key its owner has shortened again and again |
| `VersionBuilder` | `builderSaveToVersion`, one level of it |
| `LevelScore` | `versionSetFinalizeVersion` |
| `MCVersionLayer` | the last three, each on every small input |
| `NaturalLemmas` | least and greatest elements, induction, functions defined by recursion |
| `LogWriterProofs`, `LogSystemProofs`, `LogRecoveryProofs` | theorems about the log and their proofs, each module resting on the one before |
| `ForeignLogProofs` | theorems about the reader on arbitrary files and their proofs |
| `DbOpenProofs`, `VersionRecoveryProofs`, `VersionLayerProofs` | theorems about the rest and their proofs |

### State and actions against the code

**The file** is a sequence of cells, not of byte values. A cell the writer
emitted carries the physical record it belongs to and its place in it. The
checksum is thus ideal: it matches if and only if the cells at hand are the
encoding of one physical record. Zero cells are preallocated extents, junk
cells are damaged bytes. A header that is not one the writer emitted may
announce any length, so it may fail the length test or the checksum test.

**`LogWriter`.** `LogAddRecord` is the entry of `logAddRecord`;
`EmitPhysicalRecord` one iteration of its loop including
`writerEmitPhysicalRecord`, whose flush makes the iteration visible at once;
`EmitFails` an iteration in which an append or the flush fails with part of the
bytes in the file (`block_offset` advances all the same, `logWriter.c:58`).
`Sync` and `Close` are the callers': `dbCreate` stops after a failed sync,
`test_log_write` goes on. The append of a trailer passes the `LogWriter`
instead of its file (`logWriter.c:98`), which is undefined behaviour;
`TrailerOutcomes` says what a build does with it: nothing reaches the file and
the process goes on (`"lost"`), or it dies (`"crash"`). The file gets the
padding in neither case.

**`LogReader`.** One step is one pass of `readPhysicalRecord`'s loop
(`rpc = "physical"`) or of `readLogRecord`'s (`rpc = "dispatch"`).
`sequentialFileRead` is external; whether it sets `buffer.len` or adds to it
is not settled by `src/`, so `FillBuffer` allows both. The two error paths
hand `reportDrop` a `Recover` for a `LogReader` (`logReader.c:42`, `137`): with
a NULL one (`HasRecover = FALSE`, `recoverVersions`) the process dies, with
another it dies or reports nothing. A `Recover` may have no `Corruption`
(`test_log_read` leaves it NULL); then the first report kills the process. `scratch`, an `sds*` used as an `sds`, may
kill the process whenever it grows. `Open` picks `initial_offset` from
`InitialOffsets`: the two callers use 0, other values are what the field is
there for. A type byte outside the enumeration cannot pass the checksum, so the
`default` branch of the switch is unreachable and has no action.

**`LogSystem`** lets the writer run until it stops, damages up to `MaxDamage`
bytes, then lets the reader run. `recoverVersions` may stop reading
before its end, after an error of its own; such a run is a prefix of one here.
The history variable `aligned` remembers whether every physical record was laid
down inside one block of the file, which is so until a trailer is lost.

**`ForeignLog`** puts the reader on files no writer of this repository need have
written: physical records of any types in any order, sound, damaged or blank,
one byte each and `BlockUnits` to a block, with perhaps a part of the header of
one more behind them. `RecordsUpTo` defines the records in such a file without
reference to the reader's state, as a function of how far one looks.

**`DbOpen`** keeps, for each of the three files, what a process would find and
the set of contents a power loss may leave. Syncing a file leaves one content;
the directory is synced only by the sync of a manifest, so a rename may be
undone by a power loss. `diskDbOpen` returns Ok whatever happened (`db.c:182`),
so the outcome of an open is not state. LOCK is given back only by the exit of
its holder: nothing calls an unlock, `diskDbRelease` included, so a process that
opens the database again may or may not be given the lock it still holds. The shadowed `error` of `db.c:93` makes
`LogEdit` and `SyncManifest` go on to `set_current` when they fail; the history
variable `error_lost` remembers that they did. Any call on a file may fail.

**`VersionEdit`.** A record is a sequence of fields, each a tag and a value, and
what is no field is junk. Numbers go up to `MaxNumber`, which stands for
2^64 - 1 and is also what `versionEditInit`'s -1 becomes. A number is written
unless it is 0. Of the lists only the levels are kept: a deleted file's level is
the address of its key (`versionEdit.c:67`), which no decoder accepts, and new
files are taken from the list of compaction pointers (`versionEdit.c:72`).
Comparators are a name, one it is a prefix of, another, or NULL, which is what
the comparison of the first `sdslen` bytes can tell apart.

**`VersionRecovery`** is a process: `ReadRecord` one call of `readLogRecord`,
`DecodeField`, `DecodeFails` and `DecodeEnds` the loop of
`decodeVersionEditSlice`, `ApplyEdit` the comparator check and
`versionSetBuilderApply`, `CollectNumbers` the four `have_*` blocks, which run
for a refused edit too, `EndOfLoop` the condition that looks at the error only
after one more record was read, `CheckNumbers` and `InstallVersion` the rest.
`NextReadable` is what `LogSystem` establishes about the reader: of a damaged
manifest records are missing, none is invented, and nobody is told, for
`recoverVersions` sets no `revocer`. An entry of a manifest is an edit this code
logged, with fields LevelDB or another writer of the format may have put behind
it. Undefined behaviour: the error of a sound edit is uninitialised, so
`DecodeEnds` takes it for Ok or for another error; a missing return in
`versionSetReuseManifest` makes `save_manifest` a choice; `next_file_number` and
`current` are what they happen to be, because `versionSetCreate` does not set
them; and the process may die anywhere (`Crash`), as it will where it goes
through `env`, `builder->vset` or `builder->base`, which are not set either. A
new file always kills it: the pointer it is reached through is NULL
(`versionBuilder.c:36`).

**`RecoveredVersion`** reads the numbers off the edits as they were logged, with
no word about their encoding: the last entry that says anything but 0 decides,
and an entry that was silent about a number says 2^64 - 1. A recovery in it is
`Mark`, which happens only if every entry is sound, makes `next_file` the least
number that is not below what it was and above both log numbers (0 if there is none
above a log number), and is the refusal if a number is missing; then `Install`; or
`Fail`, which leaves everything as it was. `Abstract` maps `next_file` to
`next_file_number` and `installed` to the other numbers of the version set, and a
recovery at `pc = "install"` to one that has marked. A version set whose recovery
is refused for a missing number thus keeps a changed `next_file_number`
(`versionSet.c:245-246`); after any other refusal it is as it was.

**`KeyShortening`.** The two shortening functions, called in any order on one
key with any limits, on a machine where `char` is signed and on one where it is
not. `sdsResize` returns the key's new address, which the code drops: after a
call that shortened it the key may be `"freed"`, and is used no further.

**`VersionBuilder`.** `BaseFirst` is a turn of the inner loop, `AddedFirst` and
`AddedLost` the end of it, `RestOfBase` the loop behind, `LastFile` the call with
an uninitialised pointer (`versionBuilder.c:112`) and the check of the order,
which is handed the array of lists and finds nothing to compare. That pointer
leads to any of `Strays`, or the process dies. `versionCreate` does not set the
lists of a version (`version.c:3-14`): `files` starts as anything, and whether a
file is ever added to it depends on that alone (`versionBuilder.c:149`), so the
properties are about what is passed to `versionMaybeAddFile` (`passed`; `Merged`
is `passed` without the stray file at its end) and none about what the version
then holds. The set of added files is taken in the order its type means, by
smallest key; the base and the sets are given, though no caller ever sets them.

**`LevelScore`.** Scores are exact fractions; doubles are exact enough, but for
levels whose sizes differ by less than one part in 2^52.

## 3. The runs

Blocks have 8 bytes, headers 3. Records of 0, 1, 2, 4, 5, 6, 7 and 12 bytes make
every case of the block arithmetic happen: a block filled exactly, a trailer of
1 or 2 bytes, a header that just fits (an empty first fragment), middle
fragments.

| Run | Properties | Shows |
|---|---|---|
| `log_writer` | `TypeOK` `AssertsHold` `NoStraddle` `AckedIsOnDisk` | three records from five: the writer alone, with a trailer that kills the process |
| `log_trailer` | `OffsetsAgree` | **violated**: the lost trailer puts `block_offset` off the file |
| `log_reader` | `AssemblesRecords` `NoSilentLoss` `ReaderTerminates` | every sequence of up to four physical records of any types, sound, damaged or blank, with or without a truncated header behind, read from the start (0), from inside a record (2), inside a block (4) or where no record fits (7), and from the second block (8): the reader returns exactly the records they make up, reports every drop but the blanks, and ends |
| `log_recovery` | `TypeOK` `ImplementsRecordLog` `OffsetIsExact` | writer, any stop, reader, with a trailer that kills the process: refinement of `RecordLog`, with `initial_offset` at the start (0), at a block boundary (8), inside a block (11), where records start (0, 8, 11, 13), where a trailer would be (15) |
| `log_damage` | `NothingInvented` `LossIsLocal` `NoFalseAlarm` | one damaged byte, trailers lost or not, read from 0, 5 or 10: still only logged records, in order; in a file laid out in whole blocks the damage costs only the records that touch the block from that byte on, and a torn tail is not reported |
| `log_read_error` | `ReadErrorReported` | **violated**: a failed read looks like the end of the log |
| `db_open` | `TypeOK` `CurrentIsSafe` `NeverCreatedOver` `OpenReturns` | two processes, failing calls, deaths and power loss |
| `db_open_shadow` | `CurrentNamesManifest` | **violated**: the shadowed error |
| `version_recovery` | `TypeOK` `CurrentIsLive` `LogNumbersAreUsed` `ImplementsRecovery` `RecoveryEnds` | manifests of up to three entries out of fourteen: `dbCreate`'s edit, edits with each number there, absent or 0, edits with junk, foreign or listed fields, each kind of comparator, damaged entries; `next_file_number` starts at 0, 2 or 2^64 - 1 |
| `version_recovery_comparator` | `RefusedComparatorDiffers` | **violated**: the manifest `dbCreate` writes is refused for its own comparator |
| `version_recovery_numbers` | `HasNumberWasLogged` | **violated**: numbers logged as 0 read back as 2^64 - 1 |
| `version_layer` | `CompareIsAnOrder` `SeparatorSeparates` `SuccessorIsAbove` `NewestFirst` `InternalKeysParse` `BaseIsKept` `MergesIfSeparated` `FirstOfTheHighest` `CompactsWhatIsFull` | the algorithms on keys, files and levels |

**Bounds.** Four physical records in blocks of two give `readLogRecord` every
sequence of record types, with damage before, inside and behind a record and on
both sides of a block boundary. Two
records are enough for the runs with a writer and a reader: mixing
fragments, losing a record behind damage or at an offset takes one record and
its neighbour, and the second starts at every place in a block the first can
end at. `log_writer` takes three, to go round the block arithmetic more than
once. One damaged byte reaches each branch of `readPhysicalRecord`. Two
processes are enough for a race on CURRENT; the proofs cover any number.

Three entries let one edit overwrite, keep or spoil what another said, with a
third, missing or not, between or behind them. `MaxNumber = 7` keeps the logged
numbers (1 to 6) apart from 0 and from 2^64 - 1, and the numbers met do reach
the wrap; two levels are one that is there and the first that is not. Keys are up to
three bytes out of 0, 2 and 5, where 5 is 0xff: a byte, one that leaves room
below the next, the highest; 2 is the highest that is not negative as a signed
char. Shortening reaches the bytes between. The order of keys is checked on every
three of them, and on two and one that was shortened. A tag of two bytes holds six sequence
numbers and the types. Three files of base and added each, with smallest keys
from 1 to 4, put an added file before, between, on and behind those of the base; the
stray file is none of them or one of the base, and the list of the new version is
empty or holds a file.
Levels are empty, part full, just full, and more, of one file or several, and
the level behind the last scored one is full or not.

**What the trailer costs.** With `"lost"` in `TrailerOutcomes` the promises of
the whole log do not hold once a trailer is missing, which is what `log_trailer`
is about: `log_writer` and `log_recovery` use `{"crash"}`, and in `log_damage`
`LossIsLocal`, `NoFalseAlarm` and `OffsetIsExact` speak of the files that are
`aligned`. Looking at the file would not do: damage to the first byte of a
header that straddles a boundary hides that it does, and of such a file
`LossIsLocal` is false, with three records.
`NothingInvented` is checked whatever was lost, and it and `AckedSurvives` are
proved so.

**Fairness.** `ForeignLog!FairSpec` is weak fairness of the steps of an open
reader: a sequential loop that blocks on nothing but reads of a regular file.
The opening has none. The runs of `LogSystem` and `LogWriter` check safety and
assume no fairness. `DbOpen!FairSpec` is weak
fairness of each process's steps: no call it makes waits, `envLockFile` included,
which is an assumption about code outside `src/` (a lock that is held makes it fail);
the start and the exit
of a process and power losses are not fair. `VersionRecovery!Fairness` is weak
fairness of the recovery's steps but its death: it runs alone, under the mutex of its
database, and waits for nothing but reads of a regular file. The death is fair in one
place, where a NULL pointer leaves no other step (new files being applied).

**Deadlock** is not checked in the log runs: a writer that closed its file and a
reader that reached its end have nothing left to do; nor in the runs of the
version layer, whose algorithms end. `DbOpen` is checked for it.

## 4. The proofs

All proofs hold for every value of the constants that meets their assumptions.
`FormatAssumption`: a header is shorter than a block, whose payload fits the two
length bytes. `WriterAssumption`, `ReaderAssumption`, `SystemAssumption`: the
types of the constants, so records of any bytes, any offsets and any amount of
damage. `NumberAssumption`: at least three numbers; `LevelAssumption`: at least one
level; `ByteAssumption`, `TagAssumption`, `KeyAssumption`: at least two bytes, tags
of at least two of them, keys made of them; `ScoreAssumption`: at least two levels
and limits above 0; `StrayAssumption`: a stray pointer leads to a file, if anywhere;
`UnitAssumption`: blocks that are filled by whole physical records
of one byte, and bytes enough to number these. `DbOpen` assumes nothing of its
processes.

The library's induction theorems take an operator, which the provers at hand
cannot instantiate. `NaturalLemmas` states induction for a set instead, from the
least element of a set of numbers, and with it that functions defined by
recursion exist, and are what they are defined to be; `Subsequence`, the limits of
levels, encodings of numbers, `Among` and the reference of `ForeignLog`, `RecordsUpTo`,
are reached through it.

`LogWriterProofs`
* `TypeCorrect`, `AssertionsNeverFail`: the type invariant is inductive by
  itself; the lemma `Geometry` bounds one iteration, and gives the assertions.
* `AckedSurvives`: `Spec => []AckedIsOnDisk`. Not inductive: `DurabilityInv`
  adds that what is acknowledged ends before the sync point (`AckedIsSynced`),
  that every byte before the sync point is written (`SyncedFile`), that while
  the process lives every completed record is in the file (`LiveFile`), and
  that `ends` and `log` have the lengths the program counter says
  (`EndsMatchLog`), without which a sync could acknowledge an unfinished record.
* `AlignedUnlessLost`: if `"lost"` is not an outcome, then
  `Spec => [](OffsetsAgree /\ NoStraddle)`. `NoStraddle` needs `OffsetsAgree`:
  `StartOffset` is a place in the file only if `block_offset` is.

`LogSystemProofs`
* `SystemTypeCorrect`: `Spec => []TypeOK`. The reader's types need `Offsets`: the
  offset of a physical record is a difference, which is a natural number because
  `end_of_buffer_offset` is never below the length of the buffer, and is at
  `initial_offset` or behind it for every record that is taken.
* `NothingIsInvented`: `Spec => []NothingInvented`, for any records, any number of
  damaged bytes anywhere, trailers lost or not, and any `initial_offset`. The file
  does not say where a record ends, and after damage not even what it was; the
  invariant therefore speaks of a layout `G`, which gives for every byte the
  writer meant to write the fragment it is of, its place there, the record, and
  where in that record the fragment's data start. `Layout` says that fragments
  are whole, follow one another and come in the order of the records; `OnDisk`
  that what the log wrote is where `G` has it; `WriterAt` that the writer goes on
  where `G` ends; `ReaderAt` that what the reader collects is what `G` has of the
  record it is in, up to the fragment it takes next (`Collected`), that what it
  delivered is of records before (`Passed`), and that a reader which lost its place
  is `Stuck`. The layout is not a function of the state, so the inductive
  invariant is `\E G : LogInv(G)`, and a step of the writer shows the longer one.

`LogRecoveryProofs`
* `OffsetsAreExact`, `NoFalseAlarms`, `LossStaysLocal`: the other three invariants
  of the whole log, from one inductive invariant `RecoveryInv`, in which one layout
  serves all parts. `WrittenInv` adds to the layout that `ends` says where its
  records start and end, and that an aligned one is straight. On an aligned file:
  `Steady`, the buffer is the rest of a block, and its first byte the first of a
  fragment; `Exact`, inside a record `prospective_record_offset` is where it
  starts; `Quiet`, on an undamaged file read from 0 the reader meets the fragments
  one after the other and nothing is bad; `Local`, a record that must not be lost
  is not jumped into, not left and not missed (`Inside`, `Collecting`,
  `Complete`). `Ending` says that `readLogRecord` returns false only at the end of
  the file, or at an `initial_offset` behind it, so that what was reached is all.
* `RecordLogImplemented`: `Spec => ImplementsRecordLog`, where the misdirected append
  of a trailer kills the process (`"lost" \notin TrailerOutcomes`), no byte is damaged
  and the reader has no `recover` (with one, a failed read ends the log early and goes
  unnoticed: `log_read_error`). No trailer is ever in a file: a log of such a build
  ends where the first is needed, and the blocks it has gone past are those its
  fragments fill to the last byte. Of builds that go on, `log_trailer` shows that the
  promise fails, and `NothingIsInvented` is what is left of it. For any records, block
  sizes and initial offsets, with failing writes, syncs and reads and any loss of power.
  `Undisturbed` joins the invariants of the writer (`DurabilityInv`, `AlignmentInv`,
  `NoHoles`, by which a loss of power leaves zeros only behind all that is left)
  and of the reader, and adds `AtEnd`, that a reader which ended met the end and
  not an error. It implies `Segmented`: the records that survive are the
  first ones of the log, those acknowledged among them; passed over and delivered
  together they are again the first ones of these, and all of them at the end. From
  there every step maps to one of `RecordLog` or stutters: the last fragment of a
  record to `Write`, a sync to its acknowledgement, what stops the writer to the
  stop that keeps what survives, `Open` to the reader's start at
  `initial_offset`, the return of a record to the next read, the end to the end.

`ForeignLogProofs`
* `ForeignInvHolds`: `ForeignSpec => []ForeignInv`, the inductive invariant, for files of
  any number of physical records, blocks of any number of them, headers of any size
  and any `initial_offset`. The file determines its kinds but the state does not name
  them, hence `\E ks : ReadingInv(ks)`. `At` says the reader stands in front of a physical
  record: the buffer is the rest of a block behind sound records (`Buffered`), or it is
  empty and the file is at the next block (`Drained`); without it a read could start
  inside a record, and a header be what it is not. `Returned` says that what was
  delivered are the records that end so far; `Collected` that `scratch` is the run of
  fragments since a first one if `in_fragmented_record`, that otherwise no record is
  unfinished, and that a reader still resyncing has met only middle fragments.
  Between the two loops `readPhysicalRecord` has either taken one record (`Took`)
  or passed over some, none of which can be read (`PassedOver`): up to the end of a
  block, which is where damage and blanks cost more than themselves, or one that
  starts before `initial_offset`. That a report was made wherever one was due is in
  `Returned` and `PassedOver`, under `Silent`: whatever must be accounted for is
  delivered or in the record that is unfinished.
* `RecordsAreAssembled`: `ForeignSpec => []AssemblesRecords`. The steps that return
  or leave a record match one unfolding of `RecordsUpTo`; a step that passes over
  records matches as many unfoldings that add nothing.
* `NothingIsLostInSilence`: `ForeignSpec => []NoSilentLoss`. At the end, what is missing is
  empty or the run of fragments from a first one to the last of the file.

`DbOpenProofs`
* `TypeCorrect`.
* `NotCreatedOver`: `Spec => NeverCreatedOver`, for any number of processes and
  with failing calls. `CreationInv`: at most one process holds LOCK and,
  with `TypeOK`, every process past `envLockFile` does; while one creates there
  is no CURRENT.
* `CurrentStaysSafe`: `Spec => []CurrentIsSafe`. `SurvivalInv`, inductive while no
  error was lost, adds what a power loss may leave: once CURRENT may survive one,
  the manifest is whole and surely does. An error once lost stays so
  (`ErrorsStayLost`), so the invariant need not survive it.

`VersionRecoveryProofs`
* `TypeCorrect`: the type invariant is inductive by itself. `FieldsOfAnEdit` and
  `DecodedType` are its two halves for edits: what is logged is a sequence of
  fields, and no sound field makes something else of an edit. `UsedNumber` keeps
  `next_file_number` within its width.
* `CurrentStaysLive`: `AppendedVersion` follows the count through -1.
* `LogNumbersMarked`: from `TypeOK` and `UsedNumber`, for any two log numbers and
  any `next_file_number` the memory happened to hold.
* `RecoveryInvariant`, `RecoveryImplemented`: `Spec => ImplementsRecovery`, for
  manifests of any length. `RecoveryInv`: as long as there is no error, what has
  been collected is what the entries read so far say and all of them were sound
  (`Collected`); inside an entry, what is decoded is what the fields read so far
  say (`Decodes`) and the rest is left (`Rest`). `CollectedRecovered` concludes that
  a manifest read to its end without an error gave what the specification reads off
  it, `MarksBoth` that marking the log numbers one after the other, in fixed width,
  makes of `next_file_number` what the specification says in one go, the wrap
  included. `CheckNumbers` is then `Mark` or, after an error, `Fail`,
  `InstallVersion` is `Install`, every other failure `Fail`, the rest stutters. That
  an edit's encoding is read back as the specification reads the edit itself is
  proved field by field (`Logs`, `LastOf`), 0 and the absent number included.

`VersionLayerProofs`. Of keys, of any length and over any number of bytes, from lemmas
about `Compare` (`Below`: the first byte in which two keys part decides):
* `CompareOrders`: a total order, on any three keys whatever, and so on those of
  `CompareIsAnOrder`.
* `SeparatorsSeparate`, `SuccessorsAreAbove`: after any sequence of calls, with
  signed chars or without.
* `NewestComesFirst`, `InternalKeysAreParsed`: a tag of fixed width is read back as
  the number it encodes; this is where the number of tag bytes is general.

Of files and levels:
* `BaseStays`: for files of any number, under `Sources`, that no file is both in
  the base and added; neither list need be sorted. `MergeInv`: the base files passed on, and
  then those left, are the base, and the same of the added ones until the base
  is exhausted; each added file passed on is right in front of one of the base. It
  speaks of `Merged`, which the call with the stray file leaves as it is.
* `ChoosesFirstOfTheHighest`, `CompactsFullLevels`: for any number of levels. Scores
  are compared by cross-multiplying, and that the level chosen so far is the first
  highest one (`FirstHighest`) holds from level to level.

Each invariant a theorem states was checked by TLC before it was proved.

**Only model-checked:** the three liveness properties (`ReaderTerminates`, `OpenReturns`,
`RecoveryEnds`): liveness under fairness is beyond the prover; and `MergesIfSeparated`,
which nothing else rests on. Every other property of a passing run is stated by a
theorem.

## 5. What the code does not do as its comments say

* `logWriter.c:98` (`log_trailer`): trailers are not written.
* `logReader.c:42` (`log_read_error`): a failed read is not recorded.
* `db.c:93` (`db_open_shadow`): a manifest that could not be written is not
  deleted but made current.
* `versionSet.c:196` (`version_recovery_comparator`): the comparator that is
  refused as not matching is the one that does; as `dbCreate` logs it, no
  database this code creates can be opened again.
* `versionEdit.c:274` (`version_recovery_numbers`): a number that was not logged is
  taken for one that was, so that the three checks for missing numbers
  (`versionSet.c:235-241`) let manifests pass that lack them.

Two more have no violated run of their own; the passing runs say what holds instead:

* `versionSet.c:33`: the version that is made current gives up a reference, not the
  one that was. If there seemed to be a current one, the count of the new one ends at
  0, and the old one is never released. The new one is not released for it
  (`CurrentIsLive`): nothing is but on the way from 1 to 0.
* `versionBuilder.c:90-92` has files passed on in order, with all added files appended
  by size, and the check at 116 asks for the order. They are out of order where an
  added file is passed on in front of the file of the base it is compared with
  (line 101) and the next one is below that; those behind the last file of the base
  are lost (line 96); and the check goes through the wrong list. `MergesIfSeparated`
  says exactly when the comment is right, `BaseIsKept` what holds in any case.

An edit with a compaction pointer, a deleted file or a new file is never recovered;
no comment says of these that they are, and it is in `ImplementsRecovery`
(`Unsound`).

## 6. Left out, and why

* `checksum = false`: no caller uses it. Collisions of the checksum: it is ideal.
* Short writes that succeed, and a sync that returns after losing bytes of an
  earlier failed one: the model believes a successful `writableFileSync`.
* The names of files, and the contents of CURRENT beyond whole or not.
* What the undefined behaviours of section 2 may do beyond the outcomes named.
* `diskDbGet` and `diskDbPut`: stubs that store and return one global value,
  whatever the key and the database. They touch no state of a database.
* The bytes of a field, and with them fields cut short: to the decoding loop they
  are junk. Names of comparators that are not terminated where they end.
* The keys and files in the lists of an edit, `internalKeyCopy`, which returns
  nothing, and what `versionSetBuilderApply` stores through unset pointers.
* The body of `versionRelease`, and the links of the list of versions, which
  nothing follows; the debug strings of keys; seeks allowed to a file.
* Keys shorter than a tag: `extractUserKey` would take a negative length of them.
* latte_c, which the repository does not contain.

## 7. What is left

What the repository has is modelled, and every property of a passing run is
proved but the three liveness properties, which stay with TLC.

The refinement of `RecordLog` is proved where no trailer is lost. `log_trailer`
(section 5) shows what a lost one does; which records such a log still returns
is stated only by `NothingInvented`. Files whose physical records straddle blocks, or
hold more than one byte each, are in `LogSystem` but not in `ForeignLog`.
