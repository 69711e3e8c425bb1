---------------------------- MODULE AndroidBuild ----------------------------
(***************************************************************************)
(* tools/build-android.py: one invocation of main() per run over a build  *)
(* tree that persists between runs.  "--abi all" fans out into one full    *)
(* lifecycle per ABI, arm64-v8a first; build_abi() cleans ROOT/build/      *)
(* <preset> itself, while cmake configures the binaryDir the catalog       *)
(* gives the preset.                                                       *)
(***************************************************************************)
EXTENDS BuildTree, PresetResolver, LifecyclePlan

CONSTANTS
  PresetDir(_),   \* CMakePresets.json: the binary dir cmake uses for a preset
  FailCodes       \* non-zero return codes of a failing cmake

\* parse_args() plus the environment: ANDROID_NDK_HOME unset (or empty),
\* set to a path that does not exist, or set to an existing NDK.
\* Beside --list-presets no option is read, so they keep their defaults.
Args == [abi    : Abis \cup {"all"},
         config : Configs,
         clean  : BOOLEAN,
         list   : {FALSE},
         ndk    : {"unset", "missing", "ok"}]
        \cup
        [abi : {"arm64-v8a"}, config : {"release"}, clean : {FALSE},
         list : {TRUE}, ndk : {"unset", "missing", "ok"}]

DefaultArgs == [abi |-> "arm64-v8a", config |-> "release", clean |-> FALSE,
                list |-> FALSE, ndk |-> "ok"]

VARIABLES
  run,       \* number of the current invocation
  pc,        \* where main() / build_abi() is
  args,      \* the parsed arguments of the current invocation
  idx,       \* index into abis of the ABI being built
  outcome,   \* how the current invocation ended ("running" while it runs)
  exitCode,  \* exit status of the last finished invocation
  fs         \* the build tree

vars == <<run, pc, args, idx, outcome, exitCode, fs>>

Outcomes == {"none", "running", "ok", "precondition", "process_error",
             "interrupted"}

\* Mutant: the return code taken as the exit status without truncation.
ExitStatusUnmasked(rc) == rc

\* sys.exit(e.returncode) as seen by the parent process.
ExitStatus(rc) == rc % 256

\* main(): abis = ["arm64-v8a", "armeabi-v7a"] for "all", else [args.abi].
AbiList(a) == AbisOf(a.abi)
CurrentPreset == AndroidPresetName(AbiList(args)[idx], args.config)
\* build_abi(): build_dir = ROOT / "build" / preset.
ScriptBuildDir == BuildPath(Root, CurrentPreset)

Exit(how, code) == outcome' = how /\ exitCode' = code

\* Mutant: a failing cmake makes build_abi() start over for the same ABI,
\* with no bound on the attempts.
RunProcessRetry(next) ==
  \E rc \in {0} \cup FailCodes :
    IF rc = 0
    THEN /\ fs' = CMakeWrite(fs, PresetDir(CurrentPreset), run)
         /\ next
         /\ UNCHANGED <<outcome, exitCode>>
    ELSE /\ fs' \in CMakeWriteMaybe(fs, PresetDir(CurrentPreset), run)
         /\ pc' = "clean"
         /\ UNCHANGED <<outcome, exitCode, idx>>

\* cmake for the current ABI ends; on success build_abi() goes on at
\* `next`, otherwise CalledProcessError ends main() with its code.
RunProcess(next) ==
  \E rc \in {0} \cup FailCodes :
    IF rc = 0
    THEN /\ fs' = CMakeWrite(fs, PresetDir(CurrentPreset), run)
         /\ next
         /\ UNCHANGED <<outcome, exitCode>>
    ELSE /\ fs' \in CMakeWriteMaybe(fs, PresetDir(CurrentPreset), run)
         /\ Exit("process_error", ExitStatus(rc))
         /\ UNCHANGED <<pc, idx>>

Init ==
  /\ run = 0
  /\ pc = "idle"
  /\ args = DefaultArgs
  /\ idx = 1
  /\ outcome = "none"
  /\ exitCode = 0
  /\ fs = InitialTree

StartRun ==
  /\ outcome # "running"
  /\ run < MaxRuns
  /\ \E a \in Args : args' = a
  /\ run' = run + 1
  /\ pc' = "main"
  /\ idx' = 1
  /\ outcome' = "running"
  /\ UNCHANGED <<exitCode, fs>>

\* --list-presets prints a fixed list and returns (no catalog, no NDK check).
ListPresets ==
  /\ outcome = "running" /\ pc = "main" /\ args.list
  /\ Exit("ok", 0)
  /\ UNCHANGED <<run, pc, args, idx, fs>>

\* check_ndk(): ANDROID_NDK_HOME must be set and name an existing path.
CheckNdk ==
  /\ outcome = "running" /\ pc = "main" /\ ~args.list
  /\ IF args.ndk = "ok"
     THEN pc' = "clean" /\ UNCHANGED <<outcome, exitCode>>
     ELSE Exit("precondition", 1) /\ UNCHANGED pc
  /\ UNCHANGED <<run, args, idx, fs>>

\* Mutant: only the first ABI's directory is cleaned.
CleanBuildDirFirstOnly ==
  /\ outcome = "running" /\ pc = "clean"
  /\ fs' = IF args.clean /\ idx = 1 /\ fs[ScriptBuildDir].exists
           THEN RmTree(fs, ScriptBuildDir) ELSE fs
  /\ pc' = "configure"
  /\ UNCHANGED <<run, args, idx, outcome, exitCode>>

\* build_abi(): "if clean and build_dir.exists(): shutil.rmtree(build_dir)".
CleanBuildDir ==
  /\ outcome = "running" /\ pc = "clean"
  /\ fs' = IF args.clean /\ fs[ScriptBuildDir].exists
           THEN RmTree(fs, ScriptBuildDir) ELSE fs
  /\ pc' = "configure"
  /\ UNCHANGED <<run, args, idx, outcome, exitCode>>

\* build_abi(): cmake --preset <preset>.
CMakeConfigure ==
  /\ outcome = "running" /\ pc = "configure"
  /\ RunProcess(pc' = "build" /\ UNCHANGED idx)
  /\ UNCHANGED <<run, args>>

\* build_abi(): cmake --build --preset <preset> --parallel <jobs>; then
\* the for loop of main() moves to the next ABI, or main() returns.
CMakeBuild ==
  /\ outcome = "running" /\ pc = "build"
  /\ RunProcess(IF idx < Len(AbiList(args))
                THEN pc' = "clean" /\ idx' = idx + 1
                ELSE pc' = "finish" /\ UNCHANGED idx)
  /\ UNCHANGED <<run, args>>

Finish ==
  /\ outcome = "running" /\ pc = "finish"
  /\ Exit("ok", 0)
  /\ UNCHANGED <<run, pc, args, idx, fs>>

\* KeyboardInterrupt: exit 130; a running rmtree or cmake stops part way.
Interrupt ==
  /\ outcome = "running"
  /\ fs' \in CASE pc \in {"configure", "build"} ->
                    CMakeWriteMaybe(fs, PresetDir(CurrentPreset), run)
               [] pc = "clean" /\ args.clean -> RmTreePartial(fs, ScriptBuildDir)
               [] OTHER -> {fs}
  /\ Exit("interrupted", 130)
  /\ UNCHANGED <<run, pc, args, idx>>

Terminated ==
  /\ outcome # "running"
  /\ run = MaxRuns
  /\ UNCHANGED vars

Next ==
  \/ StartRun \/ ListPresets \/ CheckNdk \/ CleanBuildDir
  \/ CMakeConfigure \/ CMakeBuild \/ Finish \/ Interrupt \/ Terminated

Spec == Init /\ [][Next]_vars

\* The steps of main() itself, without new invocations or a Ctrl-C.
Step ==
  \/ ListPresets \/ CheckNdk \/ CleanBuildDir \/ CMakeConfigure
  \/ CMakeBuild \/ Finish

\* The interpreter keeps executing main() while the script runs, and each
\* cmake it waits for is assumed to exit (subprocess.run has no timeout).
\* The user gets no fairness: nobody has to press Ctrl-C for a run to end.
FairSpec == Spec /\ WF_vars(Step)

-----------------------------------------------------------------------------
(***************************************************************************)
(* Refinement mapping onto Lifecycle.                                      *)
(***************************************************************************)

PresetsOf(a) == [i \in DOMAIN AbiList(a) |-> AndroidPresetName(AbiList(a)[i], a.config)]
PlanOf(a) == FanOutPlan(PresetsOf(a), a.clean, FALSE)

\* Steps of one ABI's lifecycle, and how many of the current one are done.
PerAbi == IF args.clean THEN 3 ELSE 2
DoneInAbi == CASE pc = "configure" -> PerAbi - 2
               [] pc = "build"     -> PerAbi - 1
               [] OTHER            -> 0

\* spec.md 4.5 and 8: the plans of the fan-out, in the order the spec gives
\* (arm64 before armv7), built from the spec's own preset names.
AndroidPlans ==
  {FanOutPlan(SpecAndroidPresets(abi, cfg), c, FALSE) :
     abi \in Abis \cup {"all"}, cfg \in Configs, c \in BOOLEAN}

LC == INSTANCE Lifecycle WITH
        status   <- CASE outcome = "none"          -> "idle"
                      [] outcome = "running"       -> "running"
                      [] outcome = "ok"            -> "succeeded"
                      [] outcome = "precondition"  -> "rejected"
                      [] outcome = "interrupted"   -> "cancelled"
                      [] OTHER                     -> "failed",
        plan     <- IF run > 0 /\ ~args.list THEN PlanOf(args) ELSE <<>>,
        trace    <- IF run > 0 /\ ~args.list
                    THEN SubSeq(PlanOf(args), 1,
                                IF pc = "finish" THEN Len(PlanOf(args))
                                ELSE (idx - 1) * PerAbi + DoneInAbi)
                    ELSE <<>>,
        OutDir   <- PresetDir,
        Plans    <- AndroidPlans

-----------------------------------------------------------------------------
(***************************************************************************)
(* Properties.                                                             *)
(***************************************************************************)

TypeOK ==
  /\ run \in 0..MaxRuns
  /\ pc \in {"idle", "main", "clean", "configure", "build", "finish"}
  /\ args \in Args
  /\ idx \in 1..2
  /\ outcome \in Outcomes
  /\ exitCode \in 0..255
  /\ fs \in [Dirs -> DirState]

\* build-android.py implements the fan-out lifecycle of spec.md 4.4/4.5:
\* ABIs in the spec's order, each through clean, configure and build,
\* nothing after the first failure, the failing status as exit status.
LifecycleRefinement == LC!Spec

\* spec.md 4.5 and 5: once its cmake processes exit, every invocation of
\* build-android.py ends with an exit status: the loop over the ABIs
\* visits each ABI once and the first failure ends the fan-out.
RunTerminates == LC!Terminates

\* spec.md 5: a --clean run that exits 0 leaves every binary directory it
\* built holding that run's outputs only, whatever earlier runs left.
CleanRunRecovers ==
  (outcome = "ok" /\ args.clean /\ ~args.list)
    => \A i \in DOMAIN AbiList(args) :
         fs[PresetDir(PresetsOf(args)[i])].runs = {run}
=============================================================================
