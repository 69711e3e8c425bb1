# TLA+ models of the anychat-sdk build tooling

The repository's `tools/` directory holds six Python drivers. Four of them
(`build-native.py`, `build-android.py`, `build-ios.py`, `build-web.py`) run
CMake presets through a fixed lifecycle. `generate-bindings.py` runs SWIG for
one or all targets. `release.py` validates a version and creates and pushes a
git tag. The drivers do not talk to each other. They share the build-output
tree under `build/` (and, for the bindings, `bindings/`), and that shared tree
persists from one invocation to the next. That is where the interesting
behaviour lies: a run that fails or is interrupted leaves directories half
removed or half written, and a later `--clean` run is the only way back
(spec.md 5).

## Inventory

| Component | Source | State it changes | Operations | Status |
|---|---|---|---|---|
| Preset Resolver | native 63-100, android 61-71, 154-158, ios 90, web 98 | none (pure) | detect_platform, auto_detect_preset, get_preset_name, ABI expansion, `f"ios-{config}"`, `f"web-{config}"` | modelled (`PresetResolver`, driver modules) |
| Environment Validator | native 63-74, android 33-47, ios 29-44, web 30-52 | exit status | unsupported host, check_ndk, check_macos, check_emscripten | modelled |
| Preset Catalog Loader | native 34-60, 149-170 | exit status | load_presets, the lookup in configure, binaryDir expansion | modelled (`NativeBuild`, `BuildTree`) |
| Native driver | build-native.py | build tree, exit status | resolve, load, clean, configure, build, test, error/interrupt handlers | modelled (`NativeBuild`, `BuildWorkspace`) |
| Android fan-out | build-android.py | build tree, exit status | check_ndk, loop over ABIs, build_abi | modelled (`AndroidBuild`) |
| iOS / Web drivers | build-ios.py, build-web.py | build tree, exit status | check, clean, configure, build, handlers | modelled (`IosBuild`, `WebBuild`) |
| Binding dispatcher | generate-bindings.py | `bindings/` tree | the target table, the `all` sequence, swig | modelled (`BindingGen`) |
| Release tagger | release.py | working tree, local tags, remote tags | semver check, clean check, tag, push | modelled (`ReleaseTagger`) |
| External tools | cmake, ctest, swig, git | their output directories | — | not modelled: each call has a nondeterministic outcome |

The hard behaviours in this code:
- A KeyboardInterrupt can arrive at any point and ends the run with 130.
- A failing external process ends the run with its return code modulo 256.
  A negative return code, such as -9 from the OOM killer, becomes 247.
- The effects of earlier runs persist across invocations.
- The native driver computes the directory it cleans itself, while cmake
  computes the directory it writes. The two can disagree.

## Modules

- `BuildTree` models the shared tree. A directory is `[exists, runs]`, where
  `runs` is the set of invocation numbers whose outputs it still holds; 0
  stands for files that predate every run. It holds paths as sequences of
  segments, `Path()` resolution against a working directory, the
  `${sourceDir}`/`${presetName}` expansion, and the two effects on the tree:
  `shutil.rmtree` (complete, partial, and on `"."`) and a cmake write.
- `LifecyclePlan` builds the step sequence of one target (optional clean,
  configure, build, optional test) and of a fan-out (the targets in order).
- `Lifecycle` is the abstract specification of a driver (spec.md 4.4, 4.5, 5
  and 7). It runs a chosen plan step by step. The first failure ends the run
  with the process's status, a precondition failure ends it with 1 before any
  step, and an interrupt ends it with 130. Each step touches only its own
  target's output directory.
- `PresetResolver` holds the pure resolution functions, translated from the
  code, next to the spec's reference table (spec.md 8).
- `NativeBuild` models `build-native.py`. Its variables are `host`, `run`,
  `pc` (the statement of `main()`/`configure()`), `args` (the parsed
  arguments plus the catalog's readability and the start directory), `preset`,
  `outcome`, `exitCode` and `fs`. There is one action per step of `main()`,
  plus `Interrupt`, and `Terminated` once the run bound is reached.
  `CleanBuildDir` is `configure()` lines 166-175 exactly. It uses the preset's
  *own* `binaryDir` (default `""`) resolved against the process cwd, while
  cmake uses the effective `binaryDir` resolved against the source dir.
- `AndroidBuild` models `build-android.py`: `check_ndk`, then `build_abi` for
  each ABI (arm64-v8a first), cleaning the hard-coded `ROOT/build/<preset>`.
- `IosBuild` and `WebBuild` model `build-ios.py` and `build-web.py`. Each
  has one action per statement of `main()`: `ListPresets`, the environment
  check (`CheckMacos`: Darwin host and `xcodebuild -version`;
  `CheckEmscripten`: `EMSDK` set and `emcc --version`), `CleanBuildDir` on
  `ROOT/build/<preset>`, `CMakeConfigure`, `CMakeBuild` and `Finish`, plus
  the two `__main__` handlers (`RunProcess` on a failing cmake and
  `Interrupt`). The host and the tools' presence are part of `args`, chosen
  per invocation.
- `BuildWorkspace` composes two `NativeBuild` instances, A and B, over one
  host and one build tree (`INSTANCE NativeBuild WITH run <- runA, ...`).
  A runs once and B twice, and their steps interleave freely (`StepA`,
  `StepB`). The history variables `usedA` and `usedB` record the presets
  each side has resolved.
- `BindingGen` models `generate-bindings.py`: `Dispatch` (`all`, a
  `TARGETS` key, or exit 1), `Generate` (one generator: mkdir, then swig,
  which writes its files on success or raises), `Finish` (main() returns
  after the loop) and `Interrupt`. The `bindings/` tree is the set of
  existing directories and, for each output file, the runs whose output it
  holds.
- `BindingContract` is the abstract specification of `generate(platform)`
  (spec.md 4.6, 5 and 7): an unknown name fails with 1 before any
  invocation; `all` visits every platform in one fixed order; each
  invocation creates its directories and rewrites exactly its own files;
  the first failure ends the run with a non-zero status; Ctrl-C exits 130
  and may leave the interrupted invocation's files mixed. `BindingGen`
  maps onto it with `BC == INSTANCE BindingContract WITH ...`; the
  invocations done are the plan up to the loop index. The spec does not
  name the order, so the contract is given the order of `TARGETS`, and the
  order itself is not something the check confirms. The property
  `BindingRefinement` checks this.
- `ReleaseTagger` models `release.py` with the working tree (dirty or not),
  the local tags and origin's tags, which persist across runs; the user
  may edit or commit between runs. `SEMVER_RE.match` is the recursive
  scanner `Scan`, which follows Python's semantics: `\d` also matches a
  non-ASCII decimal digit (the token `"U"`) and `$` also matches before a
  final newline. `SpecSemver` is the spec's pattern over ASCII digits.
  `git status` may fail (`StatusFailures`), and `git tag` / `git push` may
  fail; git refuses an existing tag and a name containing a newline.
  A KeyboardInterrupt may end a run at any statement; it is not caught, and
  an interrupted `git tag` or `git push` may or may not have completed.
- `ReleaseContract` is the abstract specification of `release(version)`
  (spec.md 4.7 and 5). Each invocation has one atomic outcome:
  - Ok: the tag exists locally and on origin.
  - InvalidVersion or DirtyWorkingTree: nothing changes.
  - GitError: the tag may exist locally, and origin is unchanged.
  - Cancelled (exit 130): no rollback.

  A tag is only ever created for a valid version on a clean tree, and no
  ref but `v{version}` is ever touched. `ReleaseTagger` maps onto it with
  `RC == INSTANCE ReleaseContract WITH ...`. While a run is in progress,
  the mapped tags are the ones it started with (the history variables
  `localAtStart` and `remoteAtStart`). The property `ContractRefinement`
  checks this.

- `MCNativeBuild`, `MCAndroidBuild`, `MCIosBuild`, `MCWebBuild`,
  `MCBuildWorkspace`, `MCBindingGen` and `MCReleaseTagger` give the
  constants. `NativeCatalogs` holds the preset catalogs the native runs
  share (standard, inherited `binaryDir`, relative `binaryDir`). The failure
  codes are {1, -9}.

The four build drivers are each shown to implement `Lifecycle`. The instance
`LC == INSTANCE Lifecycle WITH ...` maps `outcome` to the abstract status.
The plan is the plan of the parsed arguments, and the trace is the prefix of
the plan that `pc` (and, for Android, the ABI index) says is done. The
abstract `Spec` is checked as the property `LifecycleRefinement`.

## Runs

| Run | Expect | Checks | Shows |
|---|---|---|---|
| native_lifecycle | pass | TypeOK, PresetMatchesSpec, CleanRunRecovers, LifecycleRefinement | with the standard catalog, the native driver implements the lifecycle, resolves presets as spec.md 8 says, and a `--clean` run that succeeds leaves only its own outputs |
| native_inherited_binarydir | violation | CleanConfinedToPresetDir | a preset that inherits `binaryDir` makes `--clean` run `rmtree(".")`, which empties the repository |
| native_relative_binarydir | violation | CleanRunRecovers | with a relative `binaryDir`, started from outside the root, `--clean` misses cmake's directory and stale output survives a successful run |
| native_termination | pass | RunTerminates | under the fairness below, every native invocation reaches a terminal status (`Lifecycle!Terminates` through the refinement mapping) |
| android_fanout | pass | TypeOK, CleanRunRecovers, LifecycleRefinement, RunTerminates | the ABI fan-out implements the lifecycle (order, stop at first failure, exit status), `--clean` recovers every ABI built, and under the fairness below every invocation, loop over the ABIs included, ends |
| ios_lifecycle, web_lifecycle | pass | TypeOK, CleanRunRecovers, LifecycleRefinement | the iOS and Web drivers implement the lifecycle: the environment check rejects with 1 before anything is removed, and `--clean` recovers from an interrupted or failed run |
| workspace_isolation | pass | TypeOK, CleanRunIsolated | two concurrent native invocations: a `--clean` run that exits 0 holds only its own outputs whenever the other invocation never targeted its preset, whatever the interleaving and whatever the other's earlier runs did |
| binding_dispatch | pass | TypeOK, BindingRefinement | generate-bindings.py implements `BindingContract`: an unknown target fails before swig, a failing swig stops the rest, each generator rewrites only its own files (the Java proxies included), and Ctrl-C leaves at most the interrupted generator's files mixed |
| release_tagger | pass | TypeOK, InvalidVersionRunsNoGit, ContractRefinement, RunTerminates | with ASCII versions and a working `git status`, release.py implements `ReleaseContract` (interrupts included), a bad version runs no git command (so a run pushes only its own tag, also after earlier failed runs left local-only tags); under the fairness below every invocation ends (`ReleaseContract!Terminates` through the mapping) |
| release_version_check | violation | InvalidVersionRunsNoGit | `"U.2.1"` (a non-ASCII digit) passes `SEMVER_RE` and git runs; `"1.2.1\n"` also passes |
| release_status_failure | violation | DirtyTreeNeverTagged | a failing `git status` makes a dirty tree look clean and it is tagged |

Bounds: `MaxRuns = 2` is enough for a failed or interrupted run followed by
a recovery run, which is the scenario the recovery properties are about. The
failure codes {1, -9} cover an ordinary failure and a signal death, which
exercises the modulo 256. The native catalog has 8 presets plus one that is
not in it. The hosts are Linux, Darwin, Windows and an unsupported FreeBSD.
Interrupts are allowed at every step.

- The workspace run lets A run once and B twice. This is the least that
  lets a later B run clean after A has finished.
  - `WorkspaceBound` (a state constraint) limits both invocations to a
    readable catalog, no `--list`, no `--test`, `--config release`, and
    `--compiler` unset or `clang` (or the explicit `--preset
    linux-clang-release`). These options still give the two invocations
    equal and different presets. The options left out do not choose or
    clean a directory, and the single-invocation runs cover them.
  - The catalog holds the four Linux presets, and the failure code is -9.
    The tree does not depend on the exit status.
- The native termination run uses one invocation, because termination is
  a property of each run on its own.
- The bindings run has two invocations over `ios`, `all` and an unknown
  target.
- The release run has three invocations, enough to strand a tag locally
  and then try another version. Its versions are `1.2.1`, `1.2.2`, `1.2`
  and `1.2.1a`; the edge run adds `1.2.1\n` and `U.2.1`.

Fairness: only `native_termination`, `android_fanout` and `release_tagger`
assume any. Each `FairSpec` (`NativeBuild`, `AndroidBuild`, `ReleaseTagger`)
is weak fairness on `Step` only, the steps of `main()`. New invocations and
Ctrl-C (`Interrupt`) get no fairness: a fair Ctrl-C would end every run on
its own and hide a `main()` that waits.
The interpreter keeps executing `main()` while the script runs. But
`subprocess.run` has no timeout, so a hung cmake blocks the driver forever.
The fairness therefore also assumes that every external process exits (the
hazards at build-native.py:179, build-android.py:127 and release.py:17). Given that, the
runs show that nothing in the drivers themselves keeps a run from ending:
no unbounded loop, no retry and no wait. All other runs check safety only.

## Findings

1. `build-native.py:167`: `preset_data.get("binaryDir", "")` gives `""` for a
   preset that inherits its `binaryDir`. `Path("")` is `.`, so `--clean`
   deletes the working directory's contents.
2. `build-native.py:170`: a relative `binaryDir` is resolved against the
   process cwd, not against the source dir as cmake resolves it.

3. `release.py:13`: `SEMVER_RE` is a `str` pattern. `\d` matches any
   Unicode decimal digit, and `$` also matches before a trailing newline.
   Versions the spec rejects are accepted and git commands run.
4. `release.py:25`: `git_is_clean()` ignores the return code of
   `git status`. If the status fails, stdout is empty, and a dirty tree is
   tagged.

## Not modelled

- The exit status of a failing swig or git. spec.md 6 lists "the external
  process's own exit code on a phase failure". `generate-bindings.py` and
  `release.py` let `CalledProcessError` escape, so the interpreter exits
  with 1. `BindingContract` and `ReleaseContract` only require a non-zero
  status (spec.md 4.6, 4.7 and 7), so this difference is recorded here and
  is not checked.

- Printing and listing text.
- The `--jobs` value, which is only passed through to cmake.
- The internals of cmake, ctest, swig and git. Each call has a
  nondeterministic outcome.
- A hung external process (see Fairness).
- Two invocations on the same preset. spec.md 5 says nothing protects this
  case, so no property is claimed for it.
- Where swig writes its language files. Flutter's generator uses `-java`
  mode without `-outdir`, although it announces a C wrapper for Dart FFI.
  The directory swig picks by default is a property of swig, not of this
  code, so the model records only the wrapper file.

Every statement of the six scripts that changes state, or decides what
happens next, is mapped to a definition. The lines left unmapped are
docstrings, imports, `print` calls and argument-parser declarations. What
remains beyond the model is the list above: text output, and the behaviour
of the external tools themselves. Modelling it would add no control flow of
this repository, so every component of this repository is recorded as `modelled` and the
external tools as `not_modelled`.
