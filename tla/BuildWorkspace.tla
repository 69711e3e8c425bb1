--------------------------- MODULE BuildWorkspace ---------------------------
(***************************************************************************)
(* Two invocations of tools/build-native.py running at the same time (two  *)
(* terminals, or a CI job beside a developer) on one checkout.  Each is    *)
(* the NativeBuild model with its own variables; the host and the build    *)
(* tree are shared, and the steps of the two interleave arbitrarily.      *)
(* Invocation A runs once and writes its outputs as run 1; invocation B   *)
(* runs twice, as runs 2 and 3.                                          *)
(***************************************************************************)
EXTENDS BuildTree, PresetResolver

CONSTANTS Catalog, ExplicitPresets, StartDirs, FailCodes

VARIABLES
  host, fs,
  runA, pcA, argsA, presetA, outcomeA, exitCodeA,
  runB, pcB, argsB, presetB, outcomeB, exitCodeB,
  usedA, usedB    \* history: the presets each invocation has resolved so far

varsA == <<runA, pcA, argsA, presetA, outcomeA, exitCodeA>>
varsB == <<runB, pcB, argsB, presetB, outcomeB, exitCodeB>>
vars  == <<host, fs, usedA, usedB>> \o varsA \o varsB

A == INSTANCE NativeBuild WITH
       run <- runA, pc <- pcA, args <- argsA, preset <- presetA,
       outcome <- outcomeA, exitCode <- exitCodeA, MaxRuns <- 1
B == INSTANCE NativeBuild WITH
       run <- runB, pc <- pcB, args <- argsB, preset <- presetB,
       outcome <- outcomeB, exitCode <- exitCodeB, MaxRuns <- 3

\* Both start idle on a Linux host, in a checkout with no build output;
\* B's run counter starts at 1 so that its runs write outputs 2 and 3.
Init ==
  /\ host = "Linux"
  /\ fs = InitialTree
  /\ runA = 0 /\ runB = 1
  /\ pcA = "idle" /\ pcB = "idle"
  /\ argsA = A!DefaultArgs /\ argsB = B!DefaultArgs
  /\ presetA = NONE /\ presetB = NONE
  /\ outcomeA = "none" /\ outcomeB = "none"
  /\ exitCodeA = 0 /\ exitCodeB = 0
  /\ usedA = {} /\ usedB = {}

Used(used, p) == used \cup ({p} \ {NONE})

\* A step of one invocation leaves the other's variables alone.
StepA == A!Next /\ usedA' = Used(usedA, presetA') /\ UNCHANGED <<usedB, varsB>>
StepB == B!Next /\ usedB' = Used(usedB, presetB') /\ UNCHANGED <<usedA, varsA>>

Next == StepA \/ StepB

Spec == Init /\ [][Next]_vars

-----------------------------------------------------------------------------
TypeOK ==
  /\ host \in HostSystems
  /\ fs \in [Dirs -> DirState]
  /\ runA \in 0..1 /\ runB \in 1..3
  /\ {outcomeA, outcomeB} \subseteq A!Outcomes
  /\ {exitCodeA, exitCodeB} \subseteq 0..255
  /\ usedA \cup usedB \subseteq Presets

\* spec.md 5 leaves two invocations on the same preset unprotected, but
\* the build tree is shared per preset: an invocation that ran --clean and
\* exited 0 holds only its own outputs in its binary directory whenever
\* the other invocation has never targeted that preset, however their
\* steps (rmtree, cmake configure/build, ctest, interrupts) interleave and
\* whatever the other's earlier runs left.
CleanRunIsolated ==
  /\ presetA \notin usedB => A!CleanRunRecovers
  /\ presetB \notin usedA => B!CleanRunRecovers
=============================================================================
