# A TLA+ verification project for dynpax

dynpax copies an ELF executable, the shared objects it needs and (on request)
its interpreter into a *fake root*, rewrites RUNPATH and PT_INTERP of the
copies so that the bundle is self-contained, and verifies the result.  This
directory models that program, checks the models with TLC and proves facts
about them with TLAPS.

Run everything from this directory:

    tlc -workers 2 -config MCResolverScan.cfg   MCResolverScan
    tlc -workers 2 -config MCDependencyWalk.cfg MCDependencyWalk
    tlc -workers 2 -config MCDynpax.cfg         MCDynpax
    tlc -workers 2 -config MCLayouts.cfg        MCDynpax
    tlc -workers 2 -config MCUpgrade.cfg        MCDynpax
    tlc -workers 2 -config MCResolverClient.cfg MCResolverClient
    tlc -workers 2 -config MCDirectoryListing.cfg MCDirectoryListing
    tlc -workers 2 -config MCCommandLine.cfg    MCCommandLine
    tlapm Resolver_proofs.tla
    tlapm ResolverScan_proofs.tla
    tlapm DependencyWalk_proofs.tla
    tlapm ResolverClient_proofs.tla
    tlapm CommandLine_proofs.tla
    tlapm FakeRoot_proofs.tla
    tlapm Dynpax_proofs.tla
    tlapm Recursion_proofs.tla

`PROJECT.json` lists the components, runs, mutants, findings, hazards and
theorems, and maps every definition to the lines it was translated from.
Source paths are relative to the checkout (`src/src/lib/Resolver.cpp` is the
file `src/lib/Resolver.cpp` of the dynpax repository).

## 1. Inventory

The program is one process with one thread.  There are no locks, callbacks or
messages.  What makes it hard is elsewhere: a work queue that grows while it
is processed, several maps that are read by one iteration and written by
another, first-wins and last-wins rules that depend on directory order, two
views of a symlink (lexical and physical), records of a host that may have
changed since, one output directory shared by all targets, runs and layouts,
non-atomic file operations, and errors of which some are reported and some are
not.

| Component | State it keeps | Operations | What must hold |
|---|---|---|---|
| **Resolver** (`Resolver.cpp`) | `m_records` by file name, `m_aliasLinksByCanonical` by real path | `populate`, `resolve`, `scanRoots`, `collectSearchDirs`, `collect_sorted_paths` | Precedence of roots, links and files is what one can state without the loop; an alias is filed under the file it really leads to; an answer comes from one scan; listings and scans end. |
| **ELF reader and walk** (`Executable.cpp`) | pending queue, `plannedBundlePathsBySource`, `plannedBundlePathsByCanonical`, seen payloads, seen aliases, pending aliases, the manifest | `importedLibraries`, `loaderSearchRoots`, `dependencyManifest`, setters, `write` | The manifest is closed under DT_NEEDED, has one payload per file and one loader, aliases end at the right payload, planning ends. |
| **Layout policy** (`BundleLayout.cpp`) | none (pure functions) | `bundle_path_for`, `bundle_runpath`, `compatibility_symlinks` | Different files get different paths; RUNPATH names the directories the imports are in. |
| **Bundle builder** (`BundleBuilder.cpp`) | position in the manifest, `interpreterBundlePath` | `build`, `rewritePayloads` | Entries are materialised, then rewritten, in manifest order; every reported error ends the run; what is rewritten is whole, or a later step notices. |
| **Fake root** (`FakeRoot.cpp`) | the output directory | `bootstrap_runtime_layout`, `copy_to`, `touch_to`, `symlink_to`, `materialize` | Only planned paths change; what a killed run left does no harm. |
| **Bundle verifier** (`BundleVerifier.cpp`) | none (reads) | `verify`, `verifyEntry` | What is accepted is what was planned; what was built correctly is accepted. |
| **Program** (`bin/dynpax.cpp`) | target list, loop position | `main` | Exit status 0 means that all targets were delivered. |
| **Command line** (`App.cpp`) | parsed options, targets made absolute so far | `parse` | Paths still name the user's files; the program is only aborted over an empty target text, or when the working directory is gone. |
| **ELFCache** (`ELFCache.cpp`) | none of its own: a Resolver | `populate`, `getELFPath`; unused by the program | An answer is exact while the host is as it was. |
| Abstract interfaces, build files, workflows, fixtures | – | – | not modelled |

Interactions: `main` loops over the targets.  For each it calls
`BundleBuilder::build`, which calls `Executable::dependencyManifest`, which
calls `Resolver::resolve` for every queue element (first with the roots of the
importing ELF, then with the populated system records) and the layout
functions for every path.  `build` then calls `FakeRoot::materialize`
for every entry and, for the rewrite, an `Executable`, its setters and `write`.
`BundleVerifier::verify` recomputes the RUNPATHs from the manifest and reads
the root.  All targets of a command, and all commands with the same `-f`, share
one root: it is the only state that outlives a run.  The records of `populate` are
the only state that outlives a target within a run.  The host is shared with
everybody else on the machine.

Hard behaviours, each with its line and the properties aimed at it, are the
`hazards` of `PROJECT.json`.  In short:

* precedence and ordering in the scan (`Resolver.cpp`), where a lexically
  normalised link target may name another file than the kernel opens;
* the growing queue with cyclic imports, and aliases whose targets are looked
  up in maps that later iterations change (`Executable.cpp`);
* an unparseable library that is dropped, and whose aliases appear after all
  when it is imported a second time;
* bundle paths that collide: alias with payload, target with target;
* writing through symlinks an earlier target, run or layout has left, and
  relative texts computed for a place a directory symlink leads away from;
* a host that changes between `populate` and a later target, or while a
  directory is listed;
* exceptions that leave a `noexcept` function: an empty target text, a working
  directory that is gone;
* libraries shared by two targets, rewritten twice with different RUNPATHs;
* reported errors (copies, what LIEF throws), unreported ones (short writes of LIEF), and kills
  between and inside file operations, followed by a run over the same root.

## 2. Modules

Component modules, in the order of the plan; each extends the ones above it
where the arrow says so.

| Module | Models | Extends |
|---|---|---|
| `HostFS` | host directories, symlinks and ELF files; lexical `LinkTarget`, physical `Canonicalize`, `Opens`, `Parses` | – |
| `BundleLayout` | the layout policy | `HostFS` |
| `Resolver` | the *outcome* of a scan | `HostFS` |
| `ResolverScan` | the scan *loop*, one directory entry per step | `Resolver` |
| `DirectoryListing` | the recursive listing under the scan, one entry per step | – |
| `ResolverCache` | the kept records, `Resolve` | `Resolver` |
| `ResolverClient` | a long-lived Resolver or ELFCache, `collectSearchDirs`, a machine that changes | `ResolverCache`; instantiates `Resolver` |
| `CommandLine` | `App::parse` | – |
| `Executable` | imports, search roots, interpreter, libc name | `ResolverCache` |
| `DependencyClosure` | abstract promise of `dependencyManifest` | `Executable` |
| `DependencyWalk` | the loop of `dependencyManifest` | `Executable`, `BundleLayout`; instantiates `DependencyClosure` |
| `FakeRoot` | the output directory as a tree, the kernel's walk through it, and the operations on it | `BundleLayout` |
| `BundleBuilder` | `build` after planning, the setters, verifier predicates, I/O faults | `DependencyWalk`, `FakeRoot` |
| `Delivery` | abstract promise of the program | – |
| `Dynpax` | `main`, kills, repeated commands, other layouts, a changing host | `BundleBuilder`; instantiates `Delivery` |
| `Recursion_proofs` | lemmas: well-founded recursion and induction on natural numbers, least and greatest numbers, the last element of a sequence | – |
| `Resolver_proofs` | lemmas: types of the host and resolver operators, the kernel's walk | `Resolver`, `Recursion_proofs` |
| `ResolverScan_proofs` | theorems: the loop computes the outcome; the listing of a root is whole | `ResolverScan`, `DirectoryListing`, `Resolver_proofs` |
| `DependencyWalk_proofs` | theorems: types and safety of the walk; it implements the closure; aliases, bundle paths and RUNPATHs of a plan | `DependencyWalk`, `Resolver_proofs` |
| `FakeRoot_proofs` | lemmas: the kernel's walk through a root, what each operation leaves | `FakeRoot`, `Recursion_proofs` |
| `Dynpax_proofs` | theorems: types and safety of the program; it implements the delivery | `Dynpax`, `DependencyWalk_proofs`, `FakeRoot_proofs` |
| `ResolverClient_proofs` | theorems: answers of a long-lived Resolver | `ResolverClient`, `Resolver_proofs` |
| `CommandLine_proofs` | theorems: `parse` | `CommandLine`, `Recursion_proofs` |
| `MCHost`, `MCResolverScan`, `MCResolverClient`, `MCDirectoryListing`, `MCCommandLine`, `MCDependencyWalk`, `MCDynpax` | instances for TLC | |

### How state and actions correspond to the code

**HostFS.**  A path is a *spelling*: a directory as written and a file name.
`CanonDir` says which real directory a spelling leads to, so `/lib` and
`/usr/lib` may be two spellings of one directory.  `host` maps real paths to an
ELF file, a symlink or another file.  `LinkTarget` is `normalize_link_target`
(one hop, lexical), `Destination` the kernel's walk (all hops, physical, at
most `MaxHops`), `Canonicalize` is `weakly_canonical`, `IsElf` the magic
number test and `Parses` what LIEF accepts; a file may pass the first and fail
the second.

**Resolver / ResolverScan.**  `Resolver` states without a loop what a scan
yields: of all links of a name the last visited, else the first file; and the
alias links filed under each real path.  `ResolverScan` has the loop: `OpenRoot`
takes the next root, `VisitLink`, `VisitFile` and `SkipEntry` one entry each, in
string order.  `ScanComputesLookup`, checked and proved, says that they agree, and the other modules
use the operators of `Resolver`.

**DirectoryListing.**  `stack` is the stack of open directories of
`recursive_directory_iterator`, `pending` the entry it stands on.  `ListEntry` is
one pass of the loop in `collect_sorted_paths`, in any order the system returns
entries; `Enter` and `Leave` are what `increment` does before and after.
`RootFails` is the ignored error code of the constructor, `EnterFails` the
exception of `increment`.  A path with more than `MaxSymlinks` symlinks is no
directory: that alone bounds the recursion on a cycle.  A listed path is the sequence
of the entries it goes through, which is as much as its text says, since the names in
a directory differ; `Leads` and `Crossed` are where the kernel gets along it.

**ResolverCache / ResolverClient.**  `cached` is what `m_records` and
`m_aliasLinksByCanonical` answer for each name.  `Populate` replaces it by a new
scan of `CollectSearchDirs`; `Resolve` asks the additional roots first and then
what is kept.  In `ResolverClient` the host and the loader configuration change
between any two calls.  `scanned` is a history variable: what `populate` last saw.
A configured line or part that is no directory leaves a gap in the list of roots,
which keeps the order the roots are scanned in.

**CommandLine.**  `ParseOptions` is CLI11 with the check of the policy name,
`MakeAbsolute` one pass of the loop over targets, `TakeRoot` the fake root,
`Abort` an exception of `std::filesystem` in the `noexcept` function.  `NoText` is
the empty text of `-t ""`, which `fs::absolute` refuses; an empty `--fake-root` is
taken as none.
`LexicallyNormal` works on texts: `Push` says what one more component makes of
the normal form so far.  `Walked` is what the kernel makes of a text, `Step` what
it does at one component.  `Cwd` is a real path, as `getcwd` returns it.

**DependencyWalk.**  The variables are those of `dependencyManifest`; `phase`
is the position in the loop.  `Open` makes the executable's entry and the
initial queue.  `Dequeue` takes the head and resolves it: `ResolveFails`,
`SkipInterpreter`, `SkipUnparseable`, `NewPayload` or `SeenPayload`, the last
three with the call of `registerPlannedPayloadPath` in front of them as in
the code.  `RegisterAlias` is one pass of the alias loop, `PlanTarget` one pass of
the loop that resolves alias targets, `Finish` appends the interpreter.

**FakeRoot / BundleBuilder.**  `root` maps locations (sequences of components)
to a directory, a file or a symlink with its relative text.  A file remembers
the host file it was copied from, the three ELF fields the builder writes, whether LIEF
parses it, and whether it is whole: nothing in the program reads the last.  `CutOff` has what
a short write may leave (section 8).
A bundle path is a wish: `End` says where an open of it leads, through every
symlink in the root; `Place` is its directory entry itself.  `CopyTo`, `TouchTo` and `SymlinkTo` are
`copy_to`, `touch_to` and `symlink_to`; the first two write to whatever a symlink
at the destination leads to (`WriteAt`), the third removes the entry first.
`Bootstrap` is `bootstrap_runtime_layout`: it keeps whatever exists.
`MakeDirectories`, `CopyTo` and `SymlinkTo` change nothing where the system call
fails (`Obstructed`, `Writable`, `Linkable`, `Bootable`); `MaterializeFails` is
then the step of the builder.
`stage` and `next` are the position in `build`: `CopyEntry`, `TouchExecutable`,
`LinkAlias` or `MaterializeFails` for each entry, then `SkipRewrite`,
`RewriteExecutable`, `RewriteLibrary`, `ReopenFails` or `RewriteFault` for each.  `Verified` is
`BundleVerifier::verify(...).ok()`.

**Dynpax.**  `Plan` interleaves nothing: it runs `DependencyWalk` to its end.
`PlanDone`/`PlanFails` are the return of the planner to `build`, `NextTarget`
and `LastTarget` the bottom of the loop in `main`, `VerifyFails` its second error
exit.  `delivered` holds the manifests verified in this run; `ledger` every entry
ever planned for this root.  `ledger` and `upgraded` are history variables: the
program does not have them.  `Restart` calls `populate`.  `HostChanges` replaces
the host between two targets or two runs; `cached` stays as it was.

**Faults.**  `MaterializeFault` is an I/O error during a copy or link: it leaves
the file as it was, cut off, or the old alias removed, and is reported.
`RewriteFault` is an exception of LIEF, for which `write` returns false and the builder
reports `failed to rewrite bundled ELF`.  `RewriteLost` is an error LIEF does not throw
for: `write` returns true and the loop goes on; `lost` is a history variable with the places
where this happened in this run.  `Kill` ends the process anywhere, with the current
operation done in part, and forgets everything in memory.  `GiveAgain` gives
the same command over the same root, with `Relayout` under either layout.

## 3. Runs

| Run | Question | States |
|---|---|---|
| `resolver_scan` | Does the loop of `scanRoots` compute the stated precedence and alias lists on a merged-/usr host? | 11,970 |
| `directory_listing` | Does a listing that follows symlinks end on cycles, and is a returned one complete? | 31,122 |
| `resolver_client` | Populated repeatedly on a changing machine: is an answer that of one scan, and exact while nothing changed? | 28,032 |
| `command_line` | Do paths still name their files after lexical normalisation, and when does `parse` abort? | 31,230 |
| `dependency_walk` | Is the manifest closed, without duplicates, with aliases that lead to the right payload; does planning implement `DependencyClosure`, and end? | 50,984 |
| `dynpax` | Two targets, one root, two runs, one disturbed: does exit status 0 mean delivered, and does an undisturbed repeat succeed, is `Delivery` implemented? | 74,374 |
| `one_root_two_layouts` | Three runs over one root, each under either layout: is what a layout leaves behind harmless or refused? | 324,018 |
| `host_upgrade` | Libraries change between targets and runs: is a bundle complete if the host did not change during its run? | 33,526 |
| `flat_alias_replaces_payload`, `preserve_loader_misses_alias`, `targets_overwrite_each_other`, `silent_short_write` | violations, see section 5 | |

Deadlock checking is off where every behaviour of the program ends; a
`ResolverClient` never does.

### Properties of the passing runs

*resolver_scan.*  `ScanComputesLookup`: when the scan ends, records and alias
lists are those of `Resolver`.  `AliasIsFiled`: every accepted link is filed
under the canonical form of its lexical target (section 5 on when the kernel opens another file).
`OnlyLinksRebind`: once a name has a record, only a symlink changes it.

*dependency_walk.*  `OnePayloadPerFile`, `InterpreterBundledOnce`,
`AliasPathsDistinct`, `PayloadPrecedesAlias` (materialising in manifest order
never leaves an alias ahead of its payload), `NoDanglingAlias`,
`AliasLeadsToItsFile` (a chain of planned aliases ends at the copy of the file
the chain leads to on the host, in as many hops as the kernel follows, although
aliases are planned one by one against maps that still change),
`PreservedPathsDistinct`, `FlatPlanServesImports` (every import of every bundled
ELF is found in a directory its RUNPATH will name), `ImplementsClosure`
(refinement), `PlanningEnds`.  Three of them have the hypothesis
`LexicalIsPhysical` (section 5).

*directory_listing.*  `NoPartialListing`: a listing that is returned has exactly
the paths the system can open, or none because the root was gone; a directory
that vanishes makes it throw instead of cutting it short.  `ListingEnds`.

*resolver_client.*  `AnswersOfOneScan` (payload and aliases of an answer belong
to one scan, never to an earlier `populate`), `CurrentRecordsAreExact`,
`SystemFilesComeFirst` (no regular file of `LD_LIBRARY_PATH` hides one of a
system directory).

*command_line.*  `PathsNameTheirFiles` (unless a text climbs back from behind a
symlink, the normalised path leads where the user's did),
`AbortsHaveACause` (the `noexcept` function is left by an exception only over an empty
target text, or when the working directory is gone and a path needs it; and no empty
target gets through).

*dynpax.*  `SuccessDeliversAll` (with exit status 0, and each time the next
target is taken up, every delivered entry is in the root as the verifier has to see it, and
lacks a part only where a rewrite was lost in this run), `BundledLoaderIsUsed`,
`SharedLibrariesStillLoad` (the RUNPATH a later target leaves in a shared
library still leads to a copy of each library the earlier one bundled for it, in place
and under `chroot`), `RerunSucceeds` (builder and verifier
agree: an undisturbed run of a bundleable target with a plan free of
collisions is never refused, whatever is left in the root),
`ImplementsDelivery` (section 4), `CommandEnds`.

*one_root_two_layouts.*  Three of these again, with directory symlinks in the
root, and `OnlyPlannedPathsChange`: a file operation for one target touches no
place outside its plan, though it writes through symlinks.  `SharedLibrariesStillLoad` is limited to entries that are not behind one
(section 5 has the others), `RerunSucceeds` names the two traces of another layout that may make a
run fail: a directory where a symlink is to be, and an alias that lands behind a
symlink.  `FlatBundleServesChroot`: after a successful flat run /lib, /usr/lib and
/usr/lib64 all lead to what was delivered, whatever was there before.

*host_upgrade.*  `FreshRecordsDeliverImports`: if the host has not changed since
the program was started (and `LexicalIsPhysical`, section 5), every import of every delivered ELF that leads to a
library on the host has a file in the bundle; changes before the start, between
runs, are noticed.

### Bounds, and why they are enough

* **Hosts.**  Worlds are sets of hosts over five to seven directories and two to
  six names, every path holding any of a few alternatives.  They contain each
  situation the code tells apart: alias chains of one and two hops, through
  scanned and unscanned directories; a directory symlink that makes lexical and
  physical `..` differ; a library shadowed by a RUNPATH directory; cyclic
  imports; missing, foreign and unparseable files; an executable inside and
  outside the preserved trees; a loader behind a symlink and imported as a
  library.  Every branch of the loop is taken in several of them, and each
  property fails for a mutant of the code, so none holds for want of cases.
* **`PluginWorlds`** of `MCDynpax`: a library from an unpreserved directory is to go
  to `/usr/lib/app`, which is also a preserved directory with a library in it.
  A directory is in the way of a file, or a file in that of a directory, as the
  order of the imports has it.
* **`MaxHops = 3`** symlinks followed by the kernel (40 in Linux).  The longest
  chain of the worlds has two hops, so only loops meet the bound.
* **`MaxRuns = 2`, `MaxFaults = 1`**: the command is given twice and one of the runs is
  disturbed, once.  Runs share nothing but the root, and `root` after a
  disturbed run ranges over all cut-off states, so that the second run finds every root
  that one fault can leave.  Several faults, in one run or in several, are left to the
  proofs, which hold for every `MaxRuns` and `MaxFaults`.  With `Relayout` there are three
  runs and one disturbed one (`MaxRuns = 3`): flat, preserve and
  flat again is the shortest sequence in which one layout meets what the other
  made of its traces.  These bounds cap the counters
  in the guards of `GiveAgain` and `Disturb`.
* **`Upgrades`** are pairs of worlds: an old and two new versions of a library
  whose file name changes with its version, one of them moving a library to a
  vendor tree.  The host changes between targets and between runs only, not in
  the middle of planning or of a copy.
* **Listings**: four directories, cycles through a symlink to itself, to its
  parent and through another tree; `MaxSymlinks = 2`.  With two cyclic symlinks
  below one directory the number of listed paths doubles with every hop that
  is allowed (Linux allows 40): it ends, but not soon.
* **Directory symlinks.**  In `MergedWorlds` of `MCDependencyWalk` `/lib` is a
  symlink to `usr/lib` and a relative symlink in it is listed under both
  spellings, with two lexical targets: `LexicalIsPhysical` is false there, and true
  in the other worlds.
* **Command lines**: up to two targets out of eight texts, absolute and relative,
  with `..` before, behind and instead of a symlink, at the root, and more often
  than the working directory is deep.
* **Two targets** suffice for one to disturb another; both orders are tried.
* No symmetry is used: paths are ordered by `Rank` and names have roles.

### Fairness

`WF_vars(Next)` in `ResolverScan` and `DependencyWalk`, `WF_listVars(ListingNext)`
in `DirectoryListing`, `WF_dynpaxVars(Program)`
in `Dynpax`: a sequential loop goes on as long as it is not killed.  Nothing else
is assumed.  There is no fairness on `Kill`, `GiveAgain`, `HostChanges`, `RemoveCwd`, on any
fault, or on a particular action of the program, and none is needed: the program never waits.

## 4. Abstract specifications

`DependencyClosure` is what `dependencyManifest` promises about payloads without
queue, maps or order: bundled libraries grow by a dependency of something
bundled; planning ends only when they are closed; it fails only for a needed
and unresolvable name or a target that is no ELF.  `DependencyWalk` implements it
(`ImplementsClosure`, refinement mapping: `bundled` is the set of sources of the
manifest's shared objects, `outcome` the end of `phase`).  Aliases are stuttering.

`Delivery` is what the program promises without plans, files or verification:
targets are delivered in order; work on one may spoil what was delivered
before, but each delivery finds every earlier target held again, and whole unless a part
of the run's work was lost unnoticed; an error or a kill ends the run, and a run that goes
on comes to a delivery or an error.
`Dynpax` implements it (`ImplementsDelivery`) on hosts where no two plans collide;
the refinement mapping counts `delivered` and, at the end of each delivery, calls
a target held when `Holds` for each of its entries and whole when no entry's file lacks a
part (`Complete`).  So a write into another target's files, and a short write that LIEF or
the verifier can see, must be caught before the delivery.  A short write that neither can see
is not caught: then `lossy` is set and the target is held, not whole.

`Resolver` is the abstract specification of the scan: an operator
rather than a state machine, since a scan has no observable intermediate state.

## 5. Disagreements between the code and its documentation

Each is a run whose only property is violated by what the code does.

* **Alias over payload** (`AliasNeverReplacesPayload`).  Aliases are compared
  with aliases only.  On a host with `/lib64/ld.so -> /usr/lib/ld.so`, flat-lib64
  and no `--interpreter`, a libc that imports the loader makes it payload and
  alias of the one path `/lib64/ld.so`; materialising the alias removes the
  copied file.  The rewrite then fails to reopen it, so the run ends with an
  error instead of a bundle.
* **Alias off the RUNPATH** (`LoaderFindsImports`).  Under preserve-source-tree
  RUNPATH names the directories of shared objects, not those of aliases.  An
  import by an alias in a third directory is bundled but not found.
* **Namesakes** (`SuccessDeliversAlways`).  `/app/app` and `/bin/app` in one
  command are both planned at `/bin/app`; the second overwrites the first after
  it was verified and the exit status is 0.
* **Short write behind the headers** (`SuccessIsComplete`).  LIEF writes with a stream
  that does not throw, `write` returns true, and the verifier reads PT_INTERP, RUNPATH and
  RPATH back.  A library that lacks its last bytes, say on a full disk, passes, and the
  exit status is 0.  `SuccessDeliversAll` says how far the program can be relied on in that
  case: the file is there, under the right name, parses, and has the right fields.

Some hypotheses of passing properties mark where the code promises less than one
might think; without them TLC refutes the properties.

* `LexicalIsPhysical` in `AliasLeadsToItsFile`, `FlatPlanServesImports`,
  `PreservedPathsDistinct` and `FreshRecordsDeliverImports`: the text of every link target leads where the kernel
  goes.  Where `/lib` is a symlink to `usr/lib`, the relative symlink
  `../home/lib/libb.so` in it is listed as `/lib/libb.so` and taken for
  `/home/lib/libb.so`, while the kernel opens `/usr/home/lib/libb.so`.  The planned
  chain then ends at another file, or the symlink is scanned as a file and its name
  is not planned.  Hosts whose symlinks behind directory symlinks are absolute, or
  stay in their directory, meet the hypothesis.
* `Opens(InterpreterPath)` in `PreservedPathsDistinct`: PT_INTERP of the target has
  to lead to a file.  A loader behind a chain the kernel gives up on is its own
  canonical path and can be an alias of a library too.

* `Straight` in `SharedLibrariesStillLoad`: where a flat bundle left `usr/lib ->
  ../lib64`, a preserved `/usr/lib/liba.so` lands in `/lib64`, and its
  `$ORIGIN/../local/lib` does not lead to `/usr/local/lib`.  The verifier compares
  texts and accepts it.
* `Wanted` in `SharedLibrariesStillLoad` leaves out a file that is the loader of a
  delivered target.  With --interpreter, a target that is itself a library has no
  loader of its own and bundles `ld-linux` as a library when it imports it; a later
  executable bundles the same file as its interpreter, which puts no directory into
  the RUNPATHs it writes.  The import does not need one, since the loader is in memory
  before it searches.
* `AliasMisplaced` in `RerunSucceeds`: the same misplacement makes an alias text
  `../../opt/a/libb.so` lead one level too high, out of the root, and the next
  flat run opens the library at that place through it.
* `Bundleable` in `RerunSucceeds`: where a symlink's text leads elsewhere than the
  kernel goes, the aliases of a bundle may form a loop that the host does not have;
  and the scan (`Resolver.cpp:276`) takes a symlink as an alias when its *target*
  opens, though the symlink itself may be one hop too long to open, as its alias
  then is.  The verifier refuses both.
* "Cannot be parsed" in `DependencyClosure`, `PayloadPrecedesAlias` and
  `FreshRecordsDeliverImports`: a file with the ELF magic that LIEF rejects is skipped
  without entry or error (`Executable.cpp:399`), and the verifier does not resolve imports,
  so the program exits with 0 over a bundle that lacks the library.
* `~upgraded` in `FreshRecordsDeliverImports`: a library upgraded between two targets
  is still recorded under its old file, which is gone; the import is skipped as
  unparseable, without entry or error.

The targets of `CommandLine` are what CLI11 makes of `argv`.  The help text and the
README of dynpax call them comma-separated; the option has no delimiter, so such a
list is one target.

`SuccessDeliversAll`, `RerunSucceeds` and the other properties of `dynpax` have
the hypothesis `NoCollision` for that reason: no place in the root is planned for
two things, and (`WaysClear`) none where the way to another place leads or the
layout has a directory.  `/usr/lib/app` planned as a file and as the directory of
another file is such a clash; the code reports it as an error, as a run of
`MCDynpax` shows.  Thus `MCDynpax` has both colliding and collision-free worlds.

## 6. Proofs

The theorems hold for every geography, host, target, policy and list
of system roots that meet the named assumptions `GeographyAssumption`,
`ResolverAssumption`, `MuslLibcAssumption`, `LayoutAssumption`,
`ScanAssumption`, `WalkAssumption`, `ClientAssumption`,
`ListingAssumption`, `CommandLineAssumption`, `RootAssumption`, `BuilderAssumption`
and `DynpaxAssumption`; TLC evaluates these on every run.  They say what kind of
values the constants are, with four facts about the system: spellings have a
total order, a directory lists finitely many names and no name twice, and the working
directory is a path without symlinks and `..`.

The library's induction theorems cannot be used with the installed provers,
because they take an operator as a parameter.  `Recursion_proofs` goes another
way: `NatSet` states induction for a *set* of numbers, from the well-foundedness
of `<` in `WellFoundedInduction`, and `Recursion` gives the defining equation of a
recursive function from the library's theorem about well-founded recursion, with the
step function as a set-theoretic function.  That covers the kernel's walk
(`Walk`, curried: hops to a function of paths), chains of planned aliases
(`LeadsTo`) and the two passes over a path text (`Normals`, `Walks`).

* **`ScanTypeCorrect`** (`Spec => []TypeOK` of `ResolverScan`): inductive as it
  stands.
* **`OnlyLinksRebindNames`** (`Spec => OnlyLinksRebind`): one step per action, from
  the type invariant.
* **`AliasesAreFiled`** (`Spec => []AliasIsFiled`) and **`ScanComputesTheLookup`**
  (`Spec => []ScanComputesLookup`).  `Resolver` speaks of all visits of a scan at
  once; `ScanInv` says the same of the visits done so far (`Done`).  `OrderInv`:
  the entries still to visit come after those visited.  `RecordInv`: a bound name
  has the record of the last symlink done or, without one, of the first file; an
  unbound name was not met.  `FiledInv`: the filed symlinks are those done.  A
  visit adds one element to `Done`, after all others, so each of the code's three
  cases keeps `RecordInv`.  When the loop ends `Done` is `Visits(roots)`; the
  order is total because `Rank` is injective, so "the last" is one visit.
* **`ListingTypeCorrect`**, **`ListingIsWhole`** and **`ListingIsDetermined`**
  (`ListingSpec => []ListingTypeOK`, `ListingSpec => []NoPartialListing`;
  `ResolverScan_proofs`).  The property speaks of the end; on the way the listing
  owes entries.  `ListingInv` says to whom: an open directory has listed all that is no
  longer left in it (`FramesInv`), every listed path lies in a directory that could be
  opened (`ListedInv`), and a path that can be opened is open, is the entry the iterator
  stands on, or has all its entries listed (`ContentsInv`).  Entering takes the second
  case to the first, leaving the first to the third; an entry the iterator goes on from
  cannot be opened (`SettledIs`).  With an empty stack only the third is left.  The
  third theorem says that the order in which the system returns entries does not show
  in the result: two sets of paths with this property are equal, for a shortest path in
  one and not in the other has its directory in both (`OneWhole`).
* **`TypeCorrect`** (`Spec => []TypeOK`).  `TypeOK` is inductive as it stands.
  The work is in the lemmas about operators: what `Canonicalize`, `LinkTarget`,
  `Resolve`, `LoaderSearchRoots`, `FallbackDirectory`, `BundlePathFor` and `Put`
  return.  They are stated once and cited by name.
* **`PayloadsAreDistinct`** (`Spec => []OnePayloadPerFile`).  The inductive
  invariant `PayloadInv` adds that the source of every shared object in the
  manifest is in `seenPayloads` and is not the interpreter's file.  With that the
  test of `seen_payloads` before an entry is appended keeps the sources distinct.
* **`InterpreterIsBundledOnce`** (`Spec => []InterpreterBundledOnce`).
  `PayloadInv` keeps library payloads clear of the interpreter's file;
  `InterpreterInv` says that the interpreter's entry appears with the last step,
  so that there is one at the end and none before.
* **`AliasesAreDistinct`** (`Spec => []AliasPathsDistinct`).  An alias is
  registered in one loop and gets its entry in the next, so the property alone
  says nothing of an alias that is waiting.  `AliasInv` covers both: the paths of
  planned and of waiting aliases are in `seenAliases`, the waiting ones are
  distinct, and none of them is planned already.
* **`WalkImplementsClosure`** (`Spec => ImplementsClosure`).  `ClosureInv` says that everything a bundled ELF
  imports is in the queue or *settled* (resolved, and bundled or entitled to no
  payload), that the queue holds nothing else, and that a file in `seenPayloads`
  is bundled or cannot be parsed.  The last part is what makes it right to take a
  name off the queue because its file was seen before.  Each step then maps to
  `AddLibrary`, `GiveUp`, `Complete` or a stutter.  The lemmas `SameHost` and
  `SameAnswers` say that the operators `DependencyClosure` reads the host with
  are those of the walk.

* **`PayloadsPrecedeAliases`** and **`AliasesDoNotDangle`** (`Spec =>
  []PayloadPrecedesAlias`, `Spec => []NoDanglingAlias`).  The
  code plans a target from two maps, of source and of canonical paths, whose entries
  come and go between the registration of an alias and its entry.  `PlanInv` says
  what they hold.  `LinksInv`: a link waiting to be registered, or to be given its
  entry, is one the scan filed under the current file.  `MapsInv`: a path gets into
  the map of sources only as a seen payload, a waiting alias or a planned one
  (`Registered`), and what the map says is that entry's bundle path; in the map of canonical
  paths it is that of the payload, whose entry comes earlier.
  `EntriesInv`: an alias entry's target is what the maps said.  With `ClosureInv`,
  "seen" means bundled or unparseable.
* **`AliasesLeadToTheirFiles`** (`Spec => []AliasLeadsToItsFile`).  An alias chain is a
  chain of entries, its file a walk of the kernel.  Induction on the hops the
  kernel has left: the target of a planned alias is a payload's path or that of an
  alias whose own walk is one hop shorter.  `LexicalIsPhysical` is used for "its
  own": the text of the target and the kernel's position name the same real path
  (`AliasPathsDistinct` is not enough, since a directory has several spellings).
  A payload that shares its path with an alias does no harm, as `LeadsTo` asks for
  some entry.
* **`FlatPlansServeImports`** (`Spec => []FlatPlanServesImports`).  `ServedInv`: an
  import that was taken off the queue has its payload's name or an alias of its
  name, planned or waiting (`ImportsServed`); a seen alias path is planned or
  waits (`AliasesCovered`); the executable's entry is the first, the interpreter's
  the last (`EndsInv`).  With an empty queue and nothing waiting, which is what
  `DoneInv` and `PhaseInv` say of a finished plan, the served imports are in
  `/lib64`, and the RUNPATH names that.
* **`PreservedPathsAreDistinct`** (`Spec => []PreservedPathsDistinct`).  Under
  preserve-source-tree a bundle path is the source path, so that sources must
  differ, across kinds too: aliases are symlinks and payloads canonical paths,
  which are none, and `LoaderApart` keeps the interpreter clear of both.
* **`ClientTypeCorrect`**, **`AnswersComeFromOneScan`**, **`RecordsAreExact`**,
  **`SystemDirectoriesGoFirst`** (`ResolverClient_proofs`).  `KeptInv`: what is kept
  for a name is the answer of a scan of the roots and the host that `populate`
  last saw.  The operators of `Resolver` read the host; `scanned.host` is put in its
  place by `INSTANCE`, and `SameHostSameAnswers` carries what is known of the
  present host over to the remembered one (hop by hop, for the walk).  For the other
  direction of `RecordsAreExact`, that some record exists when there is an entry to record, the
  first or last visit must exist (`FirstExists`, `LastExists`): directories are
  finite, so there is a least and a greatest rank in the decisive root.
* **`CliTypeCorrect`**, **`AbortsHaveCauses`**, **`PathsStillNameTheirFiles`**
  (`CommandLine_proofs`).  `ProgressInv` says which targets are absolute and that
  they are the given ones, normalised, and not empty.  `WalksAgree` is an induction over the components: after each
  prefix of the text the kernel stands where the normal form of that prefix leads.
  A `..` takes back the last component that was kept, which is right if
  that component was no symlink; by the hypothesis none in front of a later `..` is
  (`NoLinks`, the strengthening; it is needed only while a `..` is still to come).
  At the root both forget a `..`, and in front of a relative path both keep it.

The theorems about the program rest on lemmas about the fake root
(`FakeRoot_proofs`).  The kernel's walk is a recursive function of the state of
the walk (`Walks`); its equation follows from well-founded recursion on the
symlinks left and then the length of the path ahead (`WalkDescends`,
`TailRecursion`).  In a root whose links are those of the flat layout or planned aliases
(`Geography`) it follows that every path leads where its text does, with
`usr/lib` and its like turned to `lib64` (`Goes`, `EndGoes`, `PlaceGoes`,
`MadeGoes`), and each operation is shown to leave a `Tree` and to add
only what it is asked for (`MakeNodes`, `BootstrapNodes`, `WriteNodes`, `LinkNodes`).

* **`ProgramTypeCorrect`** (`DynpaxSpec => []DynpaxTypeOK`).  `DynpaxInv` adds to the
  type invariant what a plan looks like: an alias has a target, only the
  executable is an executable, entries lie in directories of the host.  Without
  that a cut-off copy or a link text need not be a node of a tree.
* **`SuccessIsDelivery`** (`DynpaxSpec => []SuccessDeliversAll`).  The verifier looks
  at one target at one moment; the property is about all targets later on.
  `DeliveryInv` has these parts.  `RootInv`: unless plans clash, the root has the
  `Geography` above, with files at planned places only.  `LedgerInv`: the ledger has
  every entry of the plan at work.  `CountInv`: delivered and remaining targets
  make up the command.  `ContentInv`: what the builder has materialised (`CopyInv`)
  reads as a copy of what the plan names, and a file that has been copied, or rewritten if it
  is the executable, lacks a part only where a rewrite was lost (`Sound`); a delivered entry (`DeliveredInv`) is still
  in its place, and what the verifier found there unless the plan at work has an entry for that place.  An operation on an
  entry reaches exactly the place of that entry (`EntryLies`, `EndLies`), and by
  `NoCollision` another entry at this place has the same source, kind and link;
  `Verified` finds it there again.  That nothing is missing does not come from the verifier, which does
  not look: `materialize` and LIEF's exceptions end the run, so that whatever is cut short in a run that goes
  on is in `lost`, and a place only leaves the finished ones for `lost` (`FileStep`, `LostStep`).
  The strengthening is needed twice: without
  `Geography` one does not know what an operation through symlinks reaches, and the
  property alone says nothing between two deliveries.
* **`LoaderIsUsed`** (`DynpaxSpec => []BundledLoaderIsUsed`).  The path written into an
  executable was computed from the plan of its own target and later targets work in
  the same root.  `LoaderInv` follows the loader from plan to delivery, while
  the host is the one of the records: every entry for a loader is the one the
  executable names, a finished plan has it, the path kept for the rewrite is its
  path, and what was delivered came with its loader.  Since the verifier compares the
  file with the kept path, `Whole` in `DeliveryInv` includes the path of the loader, and
  stays true as the rest of it does.
* **`ProgramImplementsDelivery`** (`DynpaxSpec => Promise!DeliveryInit /\
  [][Promise!DeliveryNext]_(Promise!deliveryVars)`).  The mapping is that of
  `ImplementsDelivery`.  `NextTarget` and `LastTarget` are `Deliver`, an error is `Fail`, a kill is
  `Kill`, a repeated command `Again`; everything else stutters.  That a delivery finds
  earlier targets held, and whole while `lost` is empty, is `DeliveryInv` in the state after the step;
  `lost` grows only in steps that are `Work`.
* **`OperationsStayInThePlan`** (`DynpaxSpec => OnlyPlannedPathsChange`).  What an
  operation changes lies on the way to its entry (directories only), in the layout,
  or at the end of its path (`Groundwork`, `Touches`).  With `Geography` this end is the
  place of the entry.  `FlatInv` says that a flat plan uses `/bin` and `/lib64` only,
  so that its paths meet none of the layout's symlinks; a preserved plan adds
  none.
* **`ImportsAreInTheBundle`** (`DynpaxSpec => [](NoCollision =>
  FreshRecordsDeliverImports)`).  While the host is the one of the records, each target
  is planned as in `DependencyWalk`, so that the invariants of the walk's own theorems
  hold of the plan at work (`PlansAreFresh`), whatever the builder does meanwhile.
  `ServedInv` gives every served import an entry of its name; what is required but
  was not served could not be parsed, and `LexicalIsPhysical` excludes a name that was
  scanned under another file (`NamesPlanned`).  `NamesInv` keeps this for every manifest
  delivered, and `DeliveryInv` says that its entries are in the root.
* **`FlatBundleIsServed`** (`DynpaxSpec => [](NoCollision => FlatBundleServesChroot)`).
  `ServesInv`: what was delivered under the flat layout has its place in `/lib64`, and the
  last verification found the layout's symlinks in place (`LayoutInPlace`).  With
  `Geography` the walk to `/usr/lib/<name>` reaches `/lib64` after one symlink
  (`ThroughLayout`), and no symlink stands there, since `NoCollision` keeps aliases off
  the place of a library.
* **`SharedLibrariesLoad`** (`DynpaxSpec => []SharedLibrariesStillLoad`).  Under the flat
  layout `Whole` includes the RUNPATH, which is the same whichever target wrote it last;
  `ServesInv` and `DeliveryInv` put the file into `/bin` or `/lib64` and what it wants
  into `/lib64`.  There remains the loader's own walk along `../lib64` from that
  directory, in place and with the bundle as `/` (`OverToLib64`): one step up, and no
  symlink at `lib64`.  Under preserve-source-tree a file keeps the RUNPATH of the last
  target that rewrote it, so `DeliveryInv` says of every delivered file that its
  RUNPATH is the one that the manifest of some delivered target has for it (`Routed`).
  That it serves the earlier targets too follows from `LinkedInv`: every
  manifest is closed under imports (`Closed`, from `ClosureInv` of the dependency walk), and
  on an unchanged host each target gets the same file for an import, as a library or as its
  loader.  So that manifest has the wanted library, its RUNPATH lists
  the directory (`DirectoryIsListed`, about the fold that collects the directories), and
  the relative text leads there: up to the common ancestor and down again, over directories
  only, which takes no symlink and never leaves the root (`RelativeReaches`; `ChrootSame`
  for the bundle as `/`).
* **`RepeatedRunSucceeds`** (`DynpaxSpec => []((~Relayout \/ \A i \in DOMAIN manifest :
  Straight(manifest[i])) => RerunSucceeds)`).  Some twenty guards of the builder and the
  verifier have to hold in every root that earlier runs can leave.  In such a root
  (`Geography`, files at planned places only) nothing stands in the way of an entry: every
  ancestor of its place is a directory or a symlink of the layout, and what is in the
  place itself was planned for the same thing (`RoomForEntry`, `BootsAgain`, `AlwaysMakeable`).
  `RerunInv` follows the run from there, as long as it is `Smooth` (no fault, no
  clash, `Bundleable`): the entries done so far are `Ready`, a file that parses or the very
  alias, the rewritten ones `Finished`, as the verifier wants them, and the layout is
  in place (`Progress`).  A later entry with the same place has the same source and kind
  (`NodeKept`), and no two executables or libraries of a manifest do (`OneOfEach`, from
  `PayloadInv`), so that nothing finished is undone.  At the end the layout's
  symlinks are found (`LayoutStands`) and every alias opens (`AliasesOpen`): relative texts
  lead back to where the path does from the top (`RelativeLeads`), and by induction on
  the chain an alias needs no more hops in the root than its source does on the host.
  `LayoutInv` says that without another layout no directory and no foreign symlink is
  in the way, so that every entry is `Straight` (`StraightHere`).

No theorem speaks of the constants of a run: the model checker's worlds, bounds
and orders appear in none of them.

## 7. Model-checked only

* Liveness (`PlanningEnds`, `CommandEnds`, `ListingEnds`, the liveness part of `ImplementsDelivery`): TLAPS has no
  support for liveness under fairness here.
* `ENABLED` and so every fairness condition.
* Every safety property that passes in a run is proved, three of them in part:
  `RerunSucceeds` after a run with another layout, when an entry of the target
  lies behind a directory symlink: there its alias needs one hop more, which counts
  only for a chain as long as the kernel follows (`MaxHops`), and the runs have none.
  `FreshRecordsDeliverImports` and `FlatBundleServesChroot` are proved under
  `NoCollision` only; that they hold in the colliding worlds of the runs too is
  checked.  In general they need not: where plans clash, an alias may stand in the
  place of a library, and a chain of such aliases may be as long as the kernel
  follows, so that one more symlink in front of it is one too many.

## 8. Abstractions, and what is not modelled

* DT_NEEDED entries are file names; a path with a slash in DT_NEEDED is not
  modelled.  Empty RUNPATH elements are dropped, as `loaderSearchRoots` does.
* `fallbackLibraryDirectory` is the variable `fallback`, set by `Open`.
* The queue keeps the importing ELF of a name instead of the search roots
  computed from it; the host does not change while a target is planned, so the
  roots are the same later.
* A list of search roots may have gaps where the code removes duplicates; only
  the order matters.
* RUNPATH and RPATH are single ELF entries; a rewritten RUNPATH is a list of
  `$ORIGIN` entries with their relative texts, which never equal a RUNPATH from
  the host.  This is conservative: the verifier of the model never accepts an
  unwritten file by accident.
* The directories of the fake root have the names their bundle paths spell; a
  fake root that lies behind symlinks itself is the same tree.
* Writing through a dangling symlink needs the directory of its target.
  Directories outside the root are taken to be missing, so that a write that is
  led out of the root fails in the model.
* At the top of the root, where the layout has its directories and symlinks, nothing
  is planned but what lies below them; what stands there is a directory or makes
  `bootstrap_runtime_layout` fail (`Bootable`).
* Permissions are not modelled; `bootstrap_runtime_layout` is one step with the
  operation that follows it, unless that is cut short (`BootstrapCut`); `verify` is one step, since it only reads and
  nothing else runs.
* The branch of `build` for a manifest without executable output is part of `OpenFails`:
  LIEF's generic parser takes a PE or Mach-O file too, whose manifest is empty; the outcome
  is an error before anything is written, as for a file that does not parse.
* What a write that is cut short leaves (`CutOff`) is one of three kinds: headers that do not parse; headers
  that parse, with the strings of RUNPATH or PT_INTERP missing; or a file that lacks
  nothing LIEF reads back.  Where in the file the cut is, beyond that, makes no difference to the
  program.  A rewrite that is not begun leaves the file as it was.
* In `Dynpax` the result of `collectSearchDirs` is the constant `SystemRoots`, and
  command lines are parsed already; `ResolverClient` and `CommandLine` model these
  on their own.  `DirectoryListing` justifies `Listed`, the listings that
  `ResolverScan` takes as given.
* Path texts in `CommandLine` have no `.` components.
* Not modelled: how CLI11 splits `argv`, LIEF, output messages,
  `FakeRoot::addLibrary`, `binaryStub`, `touch` and
  `stripRoot` (no caller in the program), build files and workflows.

Definitions whose comment starts with *Mutation* are mutated forms of the
definition that follows them.  They are used by no specification; `PROJECT.json`
says which property each of them must violate.

## 9. Plan

Modelled: `HostFS`, `Resolver`, `ResolverScan`, `DirectoryListing`,
`ResolverCache`, `ResolverClient`; `BundleLayout`, `Executable`,
`DependencyClosure`, `DependencyWalk`; `FakeRoot`, `BundleBuilder`, `Delivery`,
`Dynpax`; `CommandLine`.  Proved: the theorems of section 6, which cover all safety
properties of the resolver, its listings, the walk, the resolver's clients, the
command line and the program, with the safety part of `ImplementsDelivery`.

Open: what section 7 lists, above all `RerunSucceeds` after a run with another layout
when an entry lies behind a directory symlink.
