# rom-metadata-framework in TLA+

`rom_metadata_framework` identifies ROM and disc-image files: it hashes a file, detects its
platform from its content, asks a catalogue provider (Playmatch) for the release it is a dump of,
inspects its structure, normalizes its content where the container hides it, asks again, verifies
what the catalogue says of the dump, and renames the file to its canonical name. This directory
holds TLA+ models of that program, the TLC runs that check them on small instances, and TLAPS
proofs of theorems about them for every value of their constants. Paths below are relative to the
repository; source files without a directory are in `src/rom_metadata_framework/`.

    tlc -config RenameCommandClosed.cfg MCRenameCommand     # a run: its cfg and its module
    tlc -config Formats.cfg MCFormats                       # the longest one, a few minutes
    tlapm RenameCommand_proofs.tla                          # the proofs of a module

`PROJECT.json` lists the runs, the mutants that each checked property refutes, the source lines
of every definition, the findings, the hazards and the theorems.

## 1. The system

| Component | State | Operations | Talks to |
| --- | --- | --- | --- |
| no-overwrite rename (`file_operations.py`) | a directory, shared with every other program | checks, hard link, removal, roll back | the `rename` command |
| `rename` command (`cli._rename_path`) | what it has seen, the plan, the answer of the user | identify, plan, ask, apply | identification, naming, the rename |
| other commands (`cli.py`) | none | `identify`, `verify`, `plan-rename`, and read-only ones | identification, verification |
| progress display (`cli._ProgressReporter`) | stage, thread, stop event, a terminal row | stage, finish, cancel, animation thread | the workflow's progress callback |
| identification (`identification.py`, `selection.py`) | the evidence of one file so far | preflight, hash, detect, look up, inspect, normalize, look up again | the composites, the resolver |
| reconciliation (`release_reconciliation.py`, `reconciliation.py`, assessments) | none | pure decisions on the evidence | identification, commands |
| verification (`verification.py`, `provenance.py`) | none | `verify_release` under a policy | commands, naming |
| naming (`naming.py`) | none (the name a file has is its input) | sanitize, structured name, plan | `plan-rename`, `rename` |
| platform detector (`detection.py`) | candidates so far | run detectors, combine | format detectors |
| structural inspector (`inspection.py`) | the group asked, what matched | ask a group, fall back | format inspectors |
| normalizer (`routing.py`, `normalization.py`) | probes so far | probe, select, delegate | format adapters, their backends |
| integrity verifier (`integrity_routing.py`, `integrity.py`) | probes so far | probe, select, delegate, check the report | verifiers (none registered yet) |
| Playmatch (`playmatch.py`, `resolvers.py`, `lookup.py`) | none (the provider has a database that grows) | request, validate, keep the files of the match, translate | HTTP, identification |
| backends (`backends.py`, `capability.py`, `runtime.py`) | none (programs come and go) | discover, run with a timeout, probe a version | adapters |
| metadata (`metadata_collection.py`, `metadata_reconciliation.py`, ...) | a report | ask providers in order, compare fields | a caller of the library |
| disc readers (`xdvdfs.py`, `iso9660.py`) | positions in an image, the size at the opening | bounded walks, path look-ups, range reads | disc adapters |
| Switch containers (`switch_container.py`, `switch.py`) | none | tables, metadata documents, inspection | detector, inspector |
| disc adapters (`dolphin.py`, `xbox.py`) | none | probe, identify, detect, inspect by runs of a program | backends, the Xbox reader |
| NES adapter (`nes.py`) | none | probe, identify, detect by reading the path | routing, identification |
| other format adapters (`xbox360.py`, `ps2.py`, `ps3.py`, `rcheevos.py`) | none | decode headers and tables | routing, the ISO reader |
| tables and wiring (`platforms.py`, `support.py`, `defaults.py`, value objects) | none | constant tables, construction | all |

What makes it hard:

* **Shared state outside the program.** The directory is changed by other commands and other
  programs between any two system calls, and while the user thinks about the answer.
* **Failure between two steps.** A hard link that succeeds and a removal that does not, a crash in
  between, an interrupt in the middle of a handler.
* **Evidence in stages.** Up to two lookups, two sources of structural evidence, a detection that may
  be ambiguous, a provider that may be down for one lookup and up for the next: the order decides
  what work is spared, and no stage may overwrite or ignore what an earlier one has said.
* **Four readers of one result.** Each command and the progress line draw conclusions of their own.
* **Routing with failures.** Components claim, decline, fail, time out or break their contract, in
  groups that depend on a hint; a failure must not pass for an answer.
* **A path, not an open file.** Every reader and every adapter opens the path anew for each step:
  header, size, content and each run of an external program may see another file.
* **Structure taken from the file.** Offsets, lengths and counts are foreign numbers: cycles, overlaps,
  one byte too many or too few.
* **External programs** that are missing, vanish, hang, fail or print something else.
* **Two threads on one terminal row**, with a lock that is not held while writing.
* **Names made of foreign text**, applied to a file whose name is then an input again.

`PROJECT.json` lists these as hazards, each at its line and with the properties that would catch it.

What makes each component correct, in one line: the rename loses and overwrites nothing; the command
renames only what it verified; identification keeps every piece of evidence and honours a
restriction to the end; a verdict is never redeemed by more evidence; the commands agree with each
other and with the evidence; each router decides once, on all claims and failures and nothing else;
the display ends with the outcome and never hangs; a name stays in its directory and renaming
settles; a lookup only keeps records of the file looked up, and no failure of it is a "not found"; a
collection asks every provider and only adds; of what an adapter claims of one image nothing contradicts
the rest, though its program fails in between (that Dolphin's inspector and detector say nothing then,
as they do of a file they do not know, is no claim); a reader lists exactly what is there, returns all
that was asked or nothing, and ends.

## 2. Modules

| Module | Models | Extends / uses |
| --- | --- | --- |
| `Selection` | the comprehensions that select from a list (pure) | used by four modules |
| `AtomicRename` | what concurrent renames promise: whole files move to free names | |
| `RenameFile` | `rename_file_no_overwrite`, one action per system call | |
| `RenameCommand` | `_rename_path`, any number at once | extends `RenameFile`, implements `AtomicRename` |
| `Verification` | `verify_release` and its policy (pure) | |
| `Playmatch` | lookups of one file at a provider whose database grows | extends `Verification` |
| `MetadataCollection` | the collection and the comparison of metadata after a lookup | extends `Playmatch` |
| `Evidence` | reconciliation, strength, assessments, permission to name (pure) | extends `Verification` |
| `Identification` | `identify_file`, one action per stage | extends `Evidence` |
| `CliCommands` | the commands on top of it | extends `Identification` |
| `Router` | what a router of adapters promises | |
| `NormalizerRouting`, `InspectionRouting`, `IntegrityRouting` | the three composites | implement `Router` |
| `PlatformDetection` | the detector composite | |
| `Routing` | the four composites as one runtime builds them for one selection | composes the four |
| `ProgressReporter` | the display and its thread | |
| `Naming` | naming and repeated renames | |
| `Backends` | discovery, start, end and timeout of an external program | |
| `DiscAdapters` | the adapters that run one | extends `Backends` |
| `Xdvdfs`, `Iso9660` | the bounded readers of both disc file systems | |
| `SwitchPackage` | the inspection of packages and game cards | |
| `Nes` | the NES adapter | |
| `Formats` | what examines one file | composes the last five |
| `MC*` | constants for TLC | one for each run's module |
| `*_proofs` | theorems and proofs | eight of them |

Operators defined "wrong on purpose" are the mutants: each stands before the definition it would
replace and is used by no specification.

### State and actions against the code

**Rename.** `dir` maps every name of one directory to the object it names; a file is its content, so
that a hard link is a second name for one object. `pc`, `src`, `dst` are the position and the
parameters of each call. `CheckSymlink`, `CheckFile`, `CheckDestination`, `Link`, `Unlink` and
`Rollback` are the six places where the function touches the file system, each one atomic as the
kernel makes it; each has its errors as alternatives (`Link`: destination taken, source gone, no hard
links; `Unlink`: any exception, which leads to `Rollback`, whose own failure is swallowed). `Crash`
ends the process anywhere. `Outside` is every other program. The check that both names share a
directory and the early return for equal names are in `Call`. In `RenameCommand` the variables
`stage`, `path`, `seen`, `exit` follow `_rename_path`: `Identify` reads whichever file the path holds
then, `Plan` decides on that file (`Verdict` stands for verification and naming policy, `Canonical`
for naming), `Confirm` and `Decline` come any time later. `Canonical` is assumed to be its own
canonical name; `Naming` examines that assumption.

**Identification.** `stage` names the stage that comes next, the other variables are the local
variables of `identify_file`. A stage reports any member of the sets `Detections`, `Inspections`,
`Extractions`, `Matches`, or raises; since no set depends on earlier answers, a file that changes
between two stages is included. `Preflight` is the part under `selection.restrict`. `ShouldNormalize`,
`Merge`, `ReconcileReleases`, ... keep the order of tests of the code. Abstracted: hashes, titles,
regions and all text; catalogue records are reduced to what `verification.py` reads of them.

**Commands.** `CliCommands` adds the command and its exit code. `WorkflowExit` is the chain of
handlers of `_run_identification_workflow`, "traceback" an exception none of them catches;
`IdentifyExit`, `VerifyExit`, `PlanExit`, `RenameExit` the decisions of the four commands; "apply" is a
rename that goes on to the prompt, where `RenameCommand` takes over. `Unnameable` is the `ValueError` of a
release whose name, region or another part comes out of `sanitize_filename_component` empty. "library" is
another caller of `identify_file`, with any settings.

**Routing.** `todo` is what the loop of the composite has still to ask, `probes` / `reported` /
`matches` what was answered. A group is probed one component at a time; the end of a group and the
decision are actions of their own. In `NormalizerRouting` and `InspectionRouting` the members of a
group come in any order (nothing depends on it); in `PlatformDetection` and `IntegrityRouting` the
order is the registered one, since candidates keep the order of their first report. `Routing` composes
the four with one selection; a behaviour calls one of them, because none sees the others' answers.

**Progress.** Both threads are modelled step by step: the animation reads the stage under the lock,
and writes after releasing it. `row` is the unfinished terminal row by columns, `lines` the rows
finished. A stage is its number; its text is its width.

**Naming.** Texts are sequences of characters; `Sanitize`, `Extension`, `Filename` do to them what
the code does. A state is a file and its present name; `Rename` is one more `rename --yes`.

**Lookups and metadata.** `Playmatch`: `files` is the provider's list for the game, which grows; `Lookup`
is one call of `identify_lookup`. How the exchange went, what may be wrong with the answer (`Exchanges`) and
which of the files it lists, if any (`listed`), are chosen freely; `Outcome` keeps the order of the checks, `KeepsFile` is the filter of
`gameFiles`, `Records` what `verify_release` then reads. `MetadataCollection` goes on from the last
answer: `attempted`, `unmatched` and `results` are the lists of `collect`, `ReportIsValid` the checks of
the report, `FieldStatus` the comparison of a field.

**External programs.** `Backends` has one action for each moment at which the machine can interfere:
the discovery, the second look, the start, the end of the program, the timeout. `DiscAdapters` maps
each method to the runs it makes (`Commands`), takes the answer of each (`Conclude`) and draws the
conclusion of that method (`DolphinProbed`, `XboxRefused`, ...). `XboxAdapter.identify` also opens the image
itself and needs a temporary directory, which may fail after any of its runs. `claims` remembers what was said of one
unchanged image, and `Replace` puts another image there between any two steps.

**Readers.** A directory is a map from offsets to nodes or records, as the bytes have it. `Xdvdfs`
makes the recursive `walk` an explicit stack (`pending`), with the frame that Python's limit counts;
`Iso9660` scans with `position`. `SwitchPackage` reads one table or document in two steps, the size
first, as `_read_exact` does. `Nes` keeps the header it read (`said`) apart from the file that is there
(`cartridge`). In each of them another program may shorten or replace the file at any step
(`Rewrite`, `Shorten`, `Disturb`, `Swap`).

## 3. Runs

| Run | Module, cfg | Bounds | Shows |
| --- | --- | --- | --- |
| `rename_commands` | `MCRenameCommand`, `RenameCommandClosed` | 2 commands, 4 names, 3 files, 1 link | `NoFileLost`, `RenamedIsVerified`, `CanonicalStays`, and `AtomicSpec`: renames implement atomic moves |
| `rename_commands_open` | `MCRenameCommand`, `RenameCommandOpen` | 1 command, 3 names, any other program | `NeverReplaces` |
| `rename_interrupted` | `MCRenameCommand`, `RenameCommandInterrupt` | 1 command | finding 1 |
| `catalogue_services` | `MCMetadataCollection`, `MetadataCollection` | 8 kinds of file, 2 at a time, 3 sets of hashes, 2 metadata providers | `MetadataTypeOK`, `VerdictRestsOnThisFile`, `MissingMatchIsAnAnswer`, `NeverRedeemed`, `EvidenceAccumulates` |
| `formats` | `MCFormats`, `Formats` | see below | adapters (`DolphinNeverContradicts`, `IdentityIsComplete`, `NesAgrees`, `HashIsExact`), readers (`ListingIsComplete`, `IsoListingIsComplete`, `ReadersFailForCause`, `DataIsWhole`), Switch (`ApplicationIsUnique`, `ReportedExactlyIfSound`), and liveness: `EveryReadEnds` |
| `identification_commands` | `MCCliCommands`, `CliCommands` | 2 platforms, 2 releases, 2 identifiers, 8 answers | identification (`NeverOverwritten`, `ConflictCrossChecked`), commands (`NamesKnownGood`, `CommandsAgree`, `IdentifyIsHonest`) and both (`RestrictionKept`) |
| `conflicts_return_4`, `operational_failure_returns_5` | `MCCliCommands`, `Cli*` | the same | findings 2, 3 |
| `routing` | `MCRouting`, `Routing` | 4 normalizers, 4 inspectors, 3 detectors, 3 verifiers, 5 platforms | `RoutingTypeOK`, `RestrictionHoldsEverywhere`, `PreferenceFallsBack`, `HintsAreHarmless`, and three refinements of `Router`: `RouterSpec`, `OthersAreRouters` |
| `progress_reporter` | `MCProgressReporter`, `ProgressReporter` | 3 stages, room for 2 threads | `OutcomeStands`, `NeverGoesBack`, and liveness: `DisplayGoesOn` |
| `naming` | `MCNaming`, `Naming` | titles and names of 3 characters, 2 renames | `StaysInDirectory`, `Settles`, `ForeignMetadataNamesNothing` |
| `naming_renamed_is_canonical` | `MCNaming`, `NamingRenamedIsCanonical` | the same | finding 4 |

Some properties are conjunctions of what one mechanism promises in two places: `IdentifyIsHonest`
(`OkAgreesWithDetection`, `ProgressAgrees`), `RestrictionKept` (`RestrictionHolds`, `RestrictedRename`),
`HintsAreHarmless` (`WrongHintIsHarmless`, `NothingOverlooked`), `ReadersFailForCause` (`NothingGivenUp`,
`IsoFailsForCause`), `DisplayGoesOn` (`StageIsShown`, `CloseReturns`). The type invariants of the rename, of
the commands and of the display, and `OwnsDestination`, `SourceOrSettled`, `OutageStopsWork` and
`AuthorityIsNoVerdict` are proved for every value of the constants and not checked again by a run.

Why the bounds are enough to be interesting:

* Two commands are the least that race; three files of which two share a canonical name, a third
  whose canonical name is one another file may hold, a link, a free name and a name with an
  extension of its own give every kind of collision. What holds of two commands is proved for any
  number.
* Two platforms and two releases give agreement, conflict in the platform, conflict in the release,
  and conflict in the platform under one name; the eight answers contain every verdict but
  "unknown" and a match of the content that comes without records, the five detections a tie in either order.
* A group of normalizers with two members can claim twice, claim once and fail once, or fail twice;
  a component outside the group completes the fall-back. The registry has the shape of the default
  one and, beside it, a second component for a platform.
* Two stages are the least that can be shown in the wrong order; with three of them, the longest in the
  middle, a frame is drawn over a shorter and over a longer text. A second thread is there for a
  mutant to start; the code never starts one.
* Three characters of text hold a separator, a blank and a dot in every order, before and after a
  letter; the second rename is the first one that sees a name the program has made.
* Two files in the provider's list are the least that can contradict each other, and one of the
  kinds shares only its CRC32 with the target; that no number of them does is proved. Two metadata
  providers are the least that have an order.
* Directory trees of three nodes have every shape, with cycles, shared subtrees and children that are
  not there; `MaxDepth` 3 and limits of two and three nodes are met exactly and exceeded.
* A directory of the ISO reader has two sectors of four units and six places at which a record may
  begin, so that padding stands before, between and after records and a record ends with the
  directory; `IsoCuts` ends the file in either sector and in a file.
* The last entry of a package ends with the file, a unit before it and a unit after it; so do the
  cartridges, whose sizes use both headers, the upper nibbles and the exponent form, at 16-byte and
  real unit sizes. Numbers are Python's and do not overflow.
* Dolphin's headers have every field good, one bad, one missing; Xbox images fail at every depth of
  the reader.

`Formats` examines one file with one part in each behaviour: its parts share nothing but the path, and
a caller is one thread.

Where a command, an identification or a rename ends, the model ends too; those runs do not check
deadlock. The rename runs do: a command can always start again.

### Fairness

`ProgressReporter`: weak fairness of the closing steps of the thread of the command and of each
animation thread. Both are ordinary threads that the interpreter schedules, none of their steps waits
for the other except `Join`, and the wait of the animation has a timeout. There is no fairness for
`Stage` or `Close`: nothing in the code bounds a stage. Hence `StageIsShown` only speaks of a stage that
lasts, and `CloseReturns` starts at the close.

`Formats`, and the parts it composes: weak fairness of the steps of the caller (`Conclude`,
`Supervising`, `XdvdfsStep`, `IsoStep`), which is a running thread and whose timeout the operating
system delivers. There is none for the program it runs, which may hang for ever, nor for anyone who
replaces files or installs programs, and none for `Begin`. `EveryReadEnds` says that each method that
began ends all the same; without `Timeout` it would not.

### Findings

1. `file_operations.py:90`: the roll back also runs for an interrupt that arrives when the source is
   already removed, and removes the file's last name.
2. `cli.py:2847`: a platform conflict between the detected platform and the catalogue, which makes
   `identify` return 4, does not stop `verify`, `plan-rename` and `rename`, which return 0 or go on. In a
   second way to the same violation contradicting lookups leave no canonical release and return 3
   (`cli.py:3108`), where the documented code for conflicting evidence is 4.
3. `cli.py:2380`: failures of the normalizer's routing and of a backend end in a traceback, not in
   exit code 5.
4. `naming.py:389`: renaming a file without extension twice gives two names when the release name
   has a dot.

Smaller things the models show and no run states, since no text of the repository says otherwise: between the prompt and the call another
*program* may replace the file, so that `rename` moves a file it never verified (`RenamedIsVerified`
is checked against other commands, and fails under `OpenSpec`); and the animation does not clear the
row between two stages, so that a shorter text keeps the tail of a longer one. A program that vanishes
between its discovery and its start, or that prints what is no text, raises an exception that is no
`BackendError` and passes the handlers of every adapter (`os_error`, `undecodable` in `DiscAdapters`); so
do a title id of blanks (`value_error`, `dolphin.py:302`), an empty checksum (`index_error`,
`xbox.py:450`) and a metadata document in an encoding the parser refuses (`uncaught` in
`SwitchPackage`). An image that is replaced between the runs of `identify` gives an identity with the
header of one image and the digests of another. When dolphin-tool is missing or fails, the inspector and the
detector answer as for a file they do not know (`dolphin.py:647`, `dolphin.py:723`); `DolphinNeverContradicts` is
only about claims. A release name of dots ends `plan-rename` and `rename` in a traceback (`naming.py:24`,
`Unnameable`). The Xbox probe takes every non-zero exit status for
a rejection. A record of an ISO directory that crosses the end of its sector is accepted.

## 4. Proofs

All theorems hold for any constants that satisfy the named assumptions of the modules; TLC evaluates
these for the instances it runs.

**`RenameCommand_proofs`.** Of the single call: types (`FileTypeCorrect`) and `NoOverwrite` in the open
environment, from the type invariant alone: each step either leaves a name, frees it or writes to one
that its guard found free in the same system call. `CommandsNeverOverwrite` says the same of the commands
around it. `AloneKeepsEveryFile` for a single call, from `BothNames`: between link and roll back both
names hold the same object.

Of the commands: the inductive invariant `IInv` is the type invariant, the properties
`NoFileLost`, `SourceOrSettled`, `OwnsDestination` and three facts about plans. None of the three
properties is inductive alone. That no file is lost needs that a call that removes its source still
owns its destination; that it owns it needs that no other call has the same destination or takes it
for its source; and this needs that a command that is still waiting either finds its file where it was
or can no longer link, because the file is settled under the very name it wants (`SourceOrSettled`,
where the idempotence of `Canonical` enters). `RemovalInv` and `LinkInv` are the two hard steps. From
`Invariance` follow `NoLoss`, `Ownership`, `VerifiedIsRenamed`, `CanonicalForGood` and
`ImplementsAtomicRename`. The refinement mapping shows the abstract directory without the names that
are linked and not yet settled: `Link` stutters, `Unlink` is the move, and a failed roll back or a
crash in between is `LeaveBoth`.

**`MetadataCollection_proofs`.** `ReleaseInv` says where the records of the last release come from: they are
those of the files its answer listed whose hash of the matched kind is that of the target, as far as one was
sent. From it `VerdictsRestOnTheFile` and `AuthorityVerifiesNothing`: the code accepts a match of the content
without `gameFiles`, or with none that has the hash, and such a match makes the evidence authoritative and
the verdict no better than "probable". `NeverRedeemedHolds` follows from the monotonicity of each test of
`verify_release` in the set of records; that the later answer lists what the earlier one did is a condition
of the property, on the provider, which nothing in the code enforces. `MissingMatchSaid` from the order of the tests in
`Outcome`. `ListInv` types the lists of the collection; `EvidenceOnlyAccumulates` then needs only that
the keys of all providers grow with the results. `CollectInv` says that the providers asked are the
first ones in order and that those with a result are the ones asked that did not match nothing, in the same
order; therefore the report accepts itself (`ReportAccepted`) and `value_error` is not reached:
`MetadataTypesCorrect`.

**`Naming_proofs`.** Texts have any length and characters. `RStripped`, `LStripped` and their like say
what stripping, collapsing and replacing leave; `DestinationOf` what a destination is made of;
`DestinationSettles` that the extension of a destination is the one it was made with. `NameInv` follows a
file through its renames: the first name is the destination of the original one, and from the second on
the name is its own destination. It must carry both, since `Settles` at the third rename rests on the second,
and finding 4 is the reason why the first does not suffice. `NamesStay`, `RenamesSettle` and
`ForeignIsIgnored` follow.

**`Formats_proofs`**, part by part:

* Disc adapters. `RunInv` says which digests the runs that are over have left and that the header
  is that of the present source as long as it has not been replaced; `ClaimsInv` that what was said of
  a source follows from its header. Neither `DolphinNeverContradicts` nor `IdentityIsComplete` is inductive
  without them.
* XDVDFS. `WalkInv`: what is listed is what has been seen, without repetition; the seen and
  the pending offsets together hold the root and all children of the seen ones, and nothing the root
  does not reach. When nothing is pending, the seen offsets are closed, so that they are all that is
  reachable (`ClosedIsAll`): `ListingComplete`. Reachability is defined as membership in every closed
  set, so that no induction over paths is needed. `DataInv` types the entry found, for `ReadsAreWhole`.
  `DepthInv` bounds the nesting of a call by the number of seen offsets: when a limit is met, as many
  offsets are reachable (`WalkCauses`).
* ISO 9660. `ScanInv`: the scan stands at a start of the directory, and in a packed one no record that
  begins before it ends after it, so that the entries found are those that begin before it
  (`FoundSoFar`). `IsoListingComplete` and `IsoCauses` follow.
* Switch. `StageInv` says, for each place in the inspection of an untouched file, which part of the
  soundness has been established, and of the documents read so far which application they have named
  (`FoundBy`: none, one and only one, or two). That the sum of the code's early returns is `SoundPackage`
  or `SoundCard` and nothing less is `ReportedIfSound`.
* NES. `HashInv`: before the hash, the header that was read and the size that was told fit each other
  (`HashExact`). `AgreeInv`: a method that has not been disturbed knows the header of the present file,
  and all that was said is justified by that file (`MethodsAgree`).
* The whole. Only one part moves at a time, so `FormatsInv` is the conjunction of these, each kept by
  the steps of its own part: `FormatsTypes`, `FormatsSafety` and `ReadersCauses` are about `FormatsSpec`, which
  the run checks. The type invariant needs two facts that no other does: what an ISO scan has found
  lies in the directory, and a size in the exponent form of NES 2.0 is a number.

**`CliCommands_proofs`.** `IdentifyInv` ties each stage to the evidence it rests on: for example, past the
preflight of a restricted selection the metadata in hand, merged or not, has the requested
identifier. `CliInv` adds that an exit code stands for the evidence it was given on. The rest is
reasoning about the pure operators of `Evidence` (`SelectedIsShared`, `SafeIsKnownGood`,
`BadIsPlannedAsConflict`, `ConflictOfOneLookup`). What is shown of `IdentifySpec` holds of each command,
because it runs one identification (`CommandIdentifies`).

**`Routing_proofs`.** For the normalizer, `PhaseInv` says which probes have been made in each phase;
restriction, fall-back and the refinement of `Router` follow. For the inspector, each answer is a claim of
`Router`, the end of the contract or a stutter, without any invariant; `InspectorInv`, who has answered
when, gives `NoInspectorOverlooked`. For the verifier, `VerifierInv` says that those still to be probed
have no answer and occur once, so that a probe adds a claim or a failure and takes none back:
`TheOthersAreRouters`. It needs that no verifier is registered twice (`VerifierAssumption`).

For the detector, `BestOfEach(cs, S)` says that the list `cs` has each platform of the candidates in `S` once,
with its highest confidence. `CombineKeeps` shows it of one more candidate, `CombinedKeeps` of one more
report, `InOrderKeeps` of the reports of all. `DetectorInv` says that the candidates are
`BestOfEach` of what the detectors that ran have said, and who still waits. Hence, when all have run, the candidates are
the same set in whatever order they ran, and unless two tie for the first place so is the best of them
(`OrderDecidesNothing`): `HintsHarmless`. `NormalizerAlone` carries the theorems about the normalizer over to
the runtime that calls the other composites too: `RoutingTypesCorrect`, `RestrictionEverywhere`,
`NormalizerInRouting`.

**`ProgressReporter_proofs`.** `ThreadInv` says that one thread at most is alive, which one, and that
what it has read is no later than the stage and no earlier than the row; `OverwriteRow` what a
frame leaves of a row. `OutcomeIsLast` and `FramesInOrder` follow for any stages and widths.

**`Selection_proofs`** holds what the others share. Lists are selected and combined by recursive functions; that such a
function exists and satisfies its equations is proved for each (`SelectedUpToDef`), and facts about all
its values by induction over the set of numbers for which they hold (`SetInduction`, from
`LeastElement`). `SelectedElements` says which elements are selected; `SelectedAt` from which places.

Assumptions beside the types of the constants: a planned name is its own planned name
(`CanonicalAssumption`, the subject of `Naming`); no detector and no verifier is registered twice, as
`defaults.py` composes them, and a confidence is in 0..100, as `PlatformCandidate.__post_init__` requires
(`DetectorAssumption`, `VerifierAssumption`); the name of a file has no separator in it (`NamingAssumption`).

Every invariant and action property of the passing runs is stated by a theorem. Only model-checked are
the two liveness properties, `DisplayGoesOn` (`StageIsShown`, `CloseReturns`) and `EveryReadEnds`, since
fairness and `ENABLED` are beyond the provers; and the findings, which are traces.

## 5. What is not modelled

* `xbox360.py`, `ps3.py`, `rcheevos.py`, and of `ps2.py` all but its use of the ISO reader: they decode headers
  and tables of their own in one pass over bytes, without a second actor or an order of steps; what
  their probes, detectors and inspectors can answer is what the routing models choose from.
* Values: the fields of certificates, mappers, regions and titles, and the names of tickets, none of which
  a decision in the models reads.
* `BackendRegistry` and the listing of all capabilities (`runtime.py`), which repeat `probe_backend` for each
  entry.
* Tables, value objects and wiring (`platforms.py`, `support.py`, `contracts.py`, `identity.py`, ...): no
  state and no order.
* Argument parsing, JSON and human output; a failing output stream.
* After a crash between link and removal both names stay and the same rename is refused for ever
  (`AtomicRename!LeaveBoth`): the code has no recovery whose progress could be stated.

## 6. Plan

Done, in this order: rename and its abstract specification; verification; evidence and
identification; commands; routing; progress; naming; lookups and metadata collection; backends and
disc adapters; disc readers, Switch containers and the NES adapter; the proofs of section 4.

Next, most important first:

1. Proofs: what makes the liveness properties hold without fairness, as action properties: a variant of each reader
   and of each method with a program that every step of the caller decreases, so that `EveryReadEnds`
   rests on fairness alone.
2. `DiscAdapters` composed with `NormalizerRouting`, so that the probe statuses of one are the claims and
   failures of the other.
3. The tables of `xbox360.py` and `ps3.py` (SFO) as readers like the others.
4. The read-only command `inspect` (`platforms` prints a table and `capabilities` the state of each backend, which `Backends` and the `capability` method of `DiscAdapters` model).
