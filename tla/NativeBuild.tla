----------------------------- MODULE NativeBuild -----------------------------
(***************************************************************************)
(* tools/build-native.py: one invocation of main() per run, over a build  *)
(* tree that persists between runs.  Each action is one step of main()    *)
(* and the calls it makes; the outcome of each external process (cmake    *)
(* configure, cmake --build, ctest) is a nondeterministic choice, and a    *)
(* KeyboardInterrupt may end the run at any point.                         *)
(***************************************************************************)
EXTENDS BuildTree, PresetResolver, LifecyclePlan

CONSTANTS
  Catalog,          \* CMakePresets.json configurePresets: name -> record
  ExplicitPresets,  \* values a user may pass as --preset
  StartDirs,        \* directories the user may start the script from
  FailCodes         \* non-zero return codes of a failing cmake/ctest

\* A catalog record: its own binaryDir template (<<>> when the preset has
\* no "binaryDir" key) and the template cmake really uses (its own, or
\* the one inherited from a base preset).
ASSUME \A p \in DOMAIN Catalog :
         Catalog[p] \in [hidden : BOOLEAN, binaryDir : Seq(STRING),
                         effective : Seq(STRING)]

\* The command line and the environment of one invocation: parse_args()
\* plus the state of CMakePresets.json and the directory it is run from.
\* A missing file (sys.exit(1)) and a malformed one (JSONDecodeError,
\* uncaught) end a run alike, with status 1: both are "unreadable".
\* Options main() never reads in a run are left at their defaults:
\* --compiler beside an explicit --preset, everything beside
\* --list-presets.
BuildArgs ==
  {a \in [preset   : ExplicitPresets \cup {NONE},
          compiler : Compilers \cup {NONE},
          config   : Configs,
          test     : BOOLEAN,
          clean    : BOOLEAN,
          list     : {FALSE},
          catalog  : {"ok", "unreadable"},
          cwd      : StartDirs] : a.preset # NONE => a.compiler = NONE}

ListArgs ==
  [preset : {NONE}, compiler : {NONE}, config : {"release"}, test : {FALSE},
   clean : {FALSE}, list : {TRUE}, catalog : {"ok", "unreadable"}, cwd : {Root}]

Args == BuildArgs \cup ListArgs

\* parse_args() defaults; the values are never read before StartRun.
DefaultArgs == [preset |-> NONE, compiler |-> NONE, config |-> "release",
                test |-> FALSE, clean |-> FALSE, list |-> FALSE,
                catalog |-> "ok", cwd |-> Root]

VARIABLES
  host,      \* platform.system() of the machine
  run,       \* number of the current invocation
  pc,        \* where main() is
  args,      \* the parsed arguments of the current invocation
  preset,    \* the resolved preset (NONE until resolved)
  outcome,   \* how the current invocation ended ("running" while it runs)
  exitCode,  \* exit status of the last finished invocation
  fs         \* the build tree

vars == <<host, run, pc, args, preset, outcome, exitCode, fs>>

Outcomes == {"none", "running", "ok", "precondition", "process_error",
             "exception", "interrupted"}

\* The directory cmake configures for preset p (a relative binaryDir is
\* taken relative to the source directory).  A preset missing from the
\* catalog is never configured; its directory is named only for totality.
CMakeBinaryDir(p) ==
  IF p \in DOMAIN Catalog
  THEN ResolvePath(Root, ExpandBinaryDir(Catalog[p].effective, p))
  ELSE BuildPath(Root, p)

\* configure(): the directory the script computes for the clean, from the
\* preset's own binaryDir; Path() resolves it against the process cwd.
ScriptBinaryDir(p, cwd) == ResolvePath(cwd, ExpandBinaryDir(Catalog[p].binaryDir, p))

\* Mutant: the return code taken as the exit status without truncation.
ExitStatusUnmasked(rc) == rc

\* sys.exit(n) as seen by the parent process.
ExitStatus(rc) == rc % 256

\* Mutant: subprocess.run without check=True; main() goes on whatever the
\* return code.
RunProcessNoCheck(d, next) ==
  \E rc \in {0} \cup FailCodes :
    /\ fs' \in CMakeWriteMaybe(fs, d, run)
    /\ pc' = next
    /\ UNCHANGED <<outcome, exitCode>>

\* Mutant: a failing phase is retried by running configure() again from
\* its clean step, with no bound on the attempts.
RunProcessRetry(d, next) ==
  \E rc \in {0} \cup FailCodes :
    IF rc = 0
    THEN /\ fs' = CMakeWrite(fs, d, run)
         /\ pc' = next
         /\ UNCHANGED <<outcome, exitCode>>
    ELSE /\ fs' \in CMakeWriteMaybe(fs, d, run)
         /\ pc' = "clean"
         /\ UNCHANGED <<outcome, exitCode>>

\* A phase process ends: with 0 main() goes on at `next`; with another
\* code check=True raises CalledProcessError and the handler exits with it.
RunProcess(d, next) ==
  \E rc \in {0} \cup FailCodes :
    IF rc = 0
    THEN /\ fs' = CMakeWrite(fs, d, run)
         /\ pc' = next
         /\ UNCHANGED <<outcome, exitCode>>
    ELSE /\ fs' \in CMakeWriteMaybe(fs, d, run)
         /\ outcome' = "process_error"
         /\ exitCode' = ExitStatus(rc)
         /\ UNCHANGED pc

Exit(how, code) ==
  /\ outcome' = how
  /\ exitCode' = code

Init ==
  /\ host \in HostSystems
  /\ run = 0
  /\ pc = "idle"
  /\ args = DefaultArgs
  /\ preset = NONE
  /\ outcome = "none"
  /\ exitCode = 0
  /\ fs = InitialTree

\* The user starts the script (it exists as long as the repository does).
StartRun ==
  /\ outcome # "running"
  /\ run < MaxRuns
  /\ Pristine \in fs[Root].runs
  /\ \E a \in Args : args' = a
  /\ run' = run + 1
  /\ pc' = "main"
  /\ preset' = NONE
  /\ outcome' = "running"
  /\ UNCHANGED <<host, exitCode, fs>>

\* --list-presets: load_presets() then print the presets that are not
\* hidden; an unreadable catalog ends the run with status 1.
ListPresets ==
  /\ outcome = "running" /\ pc = "main" /\ args.list
  /\ IF args.catalog = "ok" THEN Exit("ok", 0) ELSE Exit("precondition", 1)
  /\ UNCHANGED <<host, run, pc, args, preset, fs>>

\* main(): an explicit --preset is taken as is, otherwise
\* auto_detect_preset(); either way detect_platform() exits 1 on an
\* unknown host.
ResolvePreset ==
  /\ outcome = "running" /\ pc = "main" /\ ~args.list
  /\ IF /\ SupportedHost(host)
        /\ args.preset = NONE => AutoDetectOk(host, args.compiler)
     THEN /\ preset' = IF args.preset # NONE THEN args.preset
                       ELSE AutoDetectPreset(host, args.compiler, args.config)
          /\ pc' = "load"
          /\ UNCHANGED <<outcome, exitCode>>
     ELSE /\ Exit("precondition", 1)
          /\ UNCHANGED <<pc, preset>>
  /\ UNCHANGED <<host, run, args, fs>>

\* configure(): load_presets() and look the preset up by name.
LoadPreset ==
  /\ outcome = "running" /\ pc = "load"
  /\ IF args.catalog = "ok" /\ preset \in DOMAIN Catalog
     THEN pc' = "clean" /\ UNCHANGED <<outcome, exitCode>>
     ELSE Exit("precondition", 1) /\ UNCHANGED pc
  /\ UNCHANGED <<host, run, args, preset, fs>>

\* Mutant: --clean is not acted on (the rmtree call is lost).
CleanBuildDirNoRmtree ==
  /\ outcome = "running" /\ pc = "clean"
  /\ pc' = "configure"
  /\ UNCHANGED <<fs, outcome, exitCode, host, run, args, preset>>

\* Mutant: rmtree(build_path.parent), the whole build/ directory.
CleanBuildDirParent ==
  /\ outcome = "running" /\ pc = "clean"
  /\ LET d == ScriptBinaryDir(preset, args.cwd) IN
       fs' = IF args.clean /\ fs[d].exists THEN RmTree(fs, Front(d)) ELSE fs
  /\ pc' = "configure"
  /\ UNCHANGED <<host, run, args, preset, outcome, exitCode>>

\* configure(): "if clean and build_path.exists(): shutil.rmtree(build_path)".
\* An empty binaryDir is Path("") = "."; rmtree(".") empties the working
\* directory and then raises OSError (uncaught: exit 1).
CleanBuildDir ==
  /\ outcome = "running" /\ pc = "clean"
  /\ LET d == ScriptBinaryDir(preset, args.cwd) IN
     IF args.clean /\ fs[d].exists
     THEN IF Catalog[preset].binaryDir = <<>>
          THEN /\ fs' = RmTreeDot(fs, d)
               /\ Exit("exception", 1)
               /\ UNCHANGED pc
          ELSE /\ fs' = RmTree(fs, d)
               /\ pc' = "configure"
               /\ UNCHANGED <<outcome, exitCode>>
     ELSE pc' = "configure" /\ UNCHANGED <<fs, outcome, exitCode>>
  /\ UNCHANGED <<host, run, args, preset>>

\* configure(): cmake --preset <preset>.
CMakeConfigure ==
  /\ outcome = "running" /\ pc = "configure"
  /\ RunProcess(CMakeBinaryDir(preset), "build")
  /\ UNCHANGED <<host, run, args, preset>>

\* build(): cmake --build --preset <preset> --parallel <jobs>.
CMakeBuild ==
  /\ outcome = "running" /\ pc = "build"
  /\ RunProcess(CMakeBinaryDir(preset), IF args.test THEN "test" ELSE "finish")
  /\ UNCHANGED <<host, run, args, preset>>

\* run_tests(): ctest --preset <preset> (writes Testing/ in the build dir).
RunTests ==
  /\ outcome = "running" /\ pc = "test"
  /\ RunProcess(CMakeBinaryDir(preset), "finish")
  /\ UNCHANGED <<host, run, args, preset>>

\* main() returns normally: exit status 0.
Finish ==
  /\ outcome = "running" /\ pc = "finish"
  /\ Exit("ok", 0)
  /\ UNCHANGED <<host, run, pc, args, preset, fs>>

\* KeyboardInterrupt: exit 130; a running rmtree or cmake stops part way.
Interrupt ==
  /\ outcome = "running"
  /\ fs' \in CASE pc \in {"configure", "build", "test"} ->
                    CMakeWriteMaybe(fs, CMakeBinaryDir(preset), run)
               [] pc = "clean" /\ args.clean ->
                    RmTreePartial(fs, ScriptBinaryDir(preset, args.cwd))
               [] OTHER -> {fs}
  /\ Exit("interrupted", 130)
  /\ UNCHANGED <<host, run, pc, args, preset>>

\* No further invocation: the bound is reached or the repository is gone.
Terminated ==
  /\ outcome # "running"
  /\ run = MaxRuns \/ Pristine \notin fs[Root].runs
  /\ UNCHANGED vars

Next ==
  \/ StartRun \/ ListPresets \/ ResolvePreset \/ LoadPreset
  \/ CleanBuildDir \/ CMakeConfigure \/ CMakeBuild \/ RunTests \/ Finish
  \/ Interrupt \/ Terminated

Spec == Init /\ [][Next]_vars

\* The steps of main() itself, without new invocations or a Ctrl-C.
Step ==
  \/ ListPresets \/ ResolvePreset \/ LoadPreset \/ CleanBuildDir
  \/ CMakeConfigure \/ CMakeBuild \/ RunTests \/ Finish

\* The interpreter keeps executing main() while the script runs, and each
\* cmake/ctest it waits for is assumed to exit (subprocess.run has no
\* timeout, so the code itself does not ensure this; see README).  The
\* user gets no fairness: nobody has to press Ctrl-C for a run to end.
FairSpec == Spec /\ WF_vars(Step)

-----------------------------------------------------------------------------
(***************************************************************************)
(* Refinement mapping onto Lifecycle.                                      *)
(***************************************************************************)

\* The preset main() will resolve to, from the arguments alone.
Resolves(a) ==
  /\ ~a.list
  /\ SupportedHost(host)
  /\ a.preset = NONE => AutoDetectOk(host, a.compiler)
ResolvedPreset(a) ==
  IF a.preset # NONE THEN a.preset ELSE AutoDetectPreset(host, a.compiler, a.config)

\* The plans spec.md 4.4 allows a single-target driver.
NativePlans == {TargetPlan(p, c, t) : p \in Presets, c, t \in BOOLEAN}

LC == INSTANCE Lifecycle WITH
        status   <- CASE outcome = "none"          -> "idle"
                      [] outcome = "running"       -> "running"
                      [] outcome = "ok"            -> "succeeded"
                      [] outcome = "precondition"  -> "rejected"
                      [] outcome = "interrupted"   -> "cancelled"
                      [] OTHER                     -> "failed",
        plan     <- IF run > 0 /\ Resolves(args)
                    THEN TargetPlan(ResolvedPreset(args), args.clean, args.test)
                    ELSE <<>>,
        trace    <- LET c == IF args.clean THEN 1 ELSE 0
                        n == CASE pc = "configure" -> c
                               [] pc = "build"     -> c + 1
                               [] pc = "test"      -> c + 2
                               [] pc = "finish"    -> c + IF args.test THEN 3 ELSE 2
                               [] OTHER            -> 0
                    IN  IF run > 0 /\ Resolves(args)
                        THEN SubSeq(TargetPlan(ResolvedPreset(args), args.clean, args.test), 1, n)
                        ELSE <<>>,
        OutDir   <- CMakeBinaryDir,
        Plans    <- NativePlans

-----------------------------------------------------------------------------
(***************************************************************************)
(* Properties.                                                             *)
(***************************************************************************)

TypeOK ==
  /\ host \in HostSystems
  /\ run \in 0..MaxRuns
  /\ pc \in {"idle", "main", "load", "clean", "configure", "build", "test", "finish"}
  /\ args \in Args
  /\ preset \in Presets \cup {NONE}
  /\ outcome \in Outcomes
  /\ exitCode \in 0..255
  /\ fs \in [Dirs -> DirState]

\* build-native.py implements the phased lifecycle of spec.md 4.4: phases
\* in plan order, nothing after a failing phase, precondition failures
\* before any phase, the failing process's status (130 on interrupt) as
\* exit status, and each phase touching only its preset's binary dir.
LifecycleRefinement == LC!Spec

\* spec.md 5: once its external processes exit, every invocation of
\* build-native.py ends with an exit status; no step of main() loops or
\* waits on anything but the process it spawned.
RunTerminates == LC!Terminates

\* spec.md 5: after any earlier run was interrupted or failed, a run with
\* --clean that exits 0 leaves the preset's binary directory holding the
\* outputs of that run only.
CleanRunRecovers ==
  (outcome = "ok" /\ args.clean /\ ~args.list)
    => fs[CMakeBinaryDir(preset)].runs = {run}

\* spec.md 4.1/8: without --preset, main() goes on with the preset the spec
\* names for the host, compiler and configuration, and stops with status 1
\* exactly on the combinations the spec rejects.
PresetMatchesSpec ==
  /\ (pc \notin {"idle", "main"} /\ args.preset = NONE)
       => preset = SpecNativePreset(host, args.compiler, args.config)
  /\ (outcome = "precondition" /\ pc = "main" /\ ~args.list /\ args.preset = NONE)
       => ~(SupportedHost(host) /\ SpecNativeAccepts(host, args.compiler))

\* spec.md 4.4: Clean removes the preset's expanded output directory and
\* nothing else; no step of configure() removes content outside it.
CleanConfinedToPresetDir ==
  [][pc = "clean" =>
       \A d \in Dirs : ~IsPrefix(CMakeBinaryDir(preset), d) =>
                         fs[d].runs \subseteq fs'[d].runs]_vars
=============================================================================
