---------------------------- MODULE ReleaseTagger ----------------------------
(***************************************************************************)
(* tools/release.py: one invocation of main() per run, over a local       *)
(* repository (its working tree and its tags) and the "origin" remote that *)
(* persist between runs.  Between runs the user may edit or commit.        *)
(*                                                                         *)
(* A version string is a sequence of one-character strings over a small   *)
(* alphabet: ASCII digits, a non-ASCII decimal digit (written "U"),   *)
(* ".", a newline and a letter.                                            *)
(***************************************************************************)
EXTENDS Integers, Sequences, SequencesExt

CONSTANTS
  Versions,       \* the argv[1] values a user may pass
  NoArg,          \* argv does not have exactly one argument
  StatusFailures, \* ways `git status --porcelain` can fail (may be empty)
  MaxRuns         \* number of invocations explored

AsciiDigits   == {"1", "2"}
UnicodeDigits == {"U"}   \* a non-ASCII decimal digit, e.g. U+0661; \d matches it
Digit         == AsciiDigits \cup UnicodeDigits

ASSUME NoArg \notin Versions

VARIABLES
  run,          \* number of the current invocation
  pc,           \* the statement of main() that runs next
  version,      \* sys.argv[1] of the current invocation
  dirty,        \* the working tree has uncommitted changes
  local,        \* tags of the local repository
  remote,       \* tags on origin
  localAtStart, \* local tags when the current invocation started (history)
  remoteAtStart,\* origin's tags when the current invocation started (history)
  gitCalls,     \* git commands the current invocation has issued
  outcome,      \* how the current invocation ended ("running" while it runs)
  exitCode      \* exit status of the last finished invocation

vars == <<run, pc, version, dirty, local, remote, localAtStart, remoteAtStart,
          gitCalls, outcome, exitCode>>

(***************************************************************************)
(* SEMVER_RE = re.compile(r"^\d+\.\d+\.\d+$") used with .match(): three    *)
(* runs of \d separated by ".", then the end of the string or a newline   *)
(* that is the last character.  Scan(s, i, f, n): at position i, in field *)
(* f (1..3), having read n digits of it.                                   *)
(***************************************************************************)
RECURSIVE Scan(_, _, _, _)
Scan(s, i, f, n) ==
  IF i > Len(s) \/ (s[i] = "\n" /\ i = Len(s))
  THEN f = 3 /\ n > 0
  ELSE \/ s[i] \in Digit /\ Scan(s, i + 1, f, n + 1)
       \/ s[i] = "." /\ f < 3 /\ n > 0 /\ Scan(s, i + 1, f + 1, 0)

\* Mutant: the pattern without its anchors, as re.search would use it.
SemverMatchUnanchored(s) ==
  \E i, j \in DOMAIN s : i <= j /\ Scan(SubSeq(s, i, j), 1, 1, 0)

SemverMatch(s) == Scan(s, 1, 1, 0)

\* f"v{version}"
TagOf(v) == <<"v">> \o v

\* git check-ref-format: a ref name may not contain control characters.
ValidRefName(t) == \A i \in DOMAIN t : t[i] # "\n"

Exit(how, code) == outcome' = how /\ exitCode' = code /\ pc' = "idle"

Init ==
  /\ run = 0
  /\ pc = "idle"
  /\ version = NoArg
  /\ dirty \in BOOLEAN
  /\ local = {}
  /\ remote = {}
  /\ localAtStart = {}
  /\ remoteAtStart = {}
  /\ gitCalls = 0
  /\ outcome = "none"
  /\ exitCode = 0

\* The user edits files or commits them between invocations.
EditOrCommit ==
  /\ outcome # "running"
  /\ dirty' = ~dirty
  /\ UNCHANGED <<run, pc, version, local, remote, localAtStart, remoteAtStart,
                 gitCalls, outcome, exitCode>>

\* Mutant: the count of git commands is not reset between invocations.
StartRunNoReset ==
  /\ outcome # "running"
  /\ run < MaxRuns
  /\ \E v \in Versions \cup {NoArg} : version' = v
  /\ run' = run + 1
  /\ pc' = "argv"
  /\ localAtStart' = local
  /\ remoteAtStart' = remote
  /\ outcome' = "running"
  /\ UNCHANGED <<dirty, local, remote, gitCalls, exitCode>>

StartRun ==
  /\ outcome # "running"
  /\ run < MaxRuns
  /\ \E v \in Versions \cup {NoArg} : version' = v
  /\ run' = run + 1
  /\ pc' = "argv"
  /\ localAtStart' = local
  /\ remoteAtStart' = remote
  /\ gitCalls' = 0
  /\ outcome' = "running"
  /\ UNCHANGED <<dirty, local, remote, exitCode>>

\* main(): the argument count, then SEMVER_RE.match(version); sys.exit(msg)
\* exits with 1.
CheckArgs ==
  /\ pc = "argv"
  /\ CASE version = NoArg         -> Exit("usage", 1)
       [] ~SemverMatch(version)   -> Exit("invalid_version", 1)
       [] OTHER -> pc' = "status" /\ UNCHANGED <<outcome, exitCode>>
  /\ UNCHANGED <<run, version, dirty, local, remote, localAtStart, remoteAtStart,
                 gitCalls>>

\* Mutant: git_is_clean() looks at stderr, which capture_output also
\* collects and which is empty for a working `git status`.
CheckCleanStderr ==
  /\ pc = "status"
  /\ gitCalls' = gitCalls + 1
  /\ pc' = "tag"
  /\ UNCHANGED <<run, version, dirty, local, remote, localAtStart, remoteAtStart,
                 outcome, exitCode>>

\* Mutant: main() waits for the tree to become clean instead of exiting
\* (no edit can happen while it waits).
CheckCleanWait ==
  /\ pc = "status"
  /\ IF dirty THEN UNCHANGED vars
     ELSE pc' = "tag" /\ gitCalls' = gitCalls + 1
          /\ UNCHANGED <<run, version, dirty, local, remote, localAtStart,
                         remoteAtStart, outcome, exitCode>>

\* git_is_clean(): stdout of `git status --porcelain` stripped is empty.
\* The return code is not looked at: a failing status prints nothing on
\* stdout and counts as clean.
CheckClean ==
  /\ pc = "status"
  /\ gitCalls' = gitCalls + 1
  /\ \E r \in {"ok"} \cup StatusFailures :
       IF r = "ok" /\ dirty THEN Exit("dirty", 1)
       ELSE pc' = "tag" /\ UNCHANGED <<outcome, exitCode>>
  /\ UNCHANGED <<run, version, dirty, local, remote, localAtStart, remoteAtStart>>

\* run(["git", "tag", "-a", tag, ...]) with check=True: it fails when the
\* tag exists, when the name is not a valid ref, or for another reason (no
\* user identity for the annotation); CalledProcessError is not caught, so
\* the interpreter exits with 1.
CreateTag ==
  /\ pc = "tag"
  /\ gitCalls' = gitCalls + 1
  /\ \E ok \in BOOLEAN :
       IF ok /\ TagOf(version) \notin local /\ ValidRefName(TagOf(version))
       THEN local' = local \cup {TagOf(version)} /\ pc' = "push"
            /\ UNCHANGED <<outcome, exitCode>>
       ELSE Exit("git_error", 1) /\ UNCHANGED local
  /\ UNCHANGED <<run, version, dirty, remote, localAtStart, remoteAtStart>>

\* run(["git", "push", "origin", tag]): origin rejects a tag it already has
\* (a different tag object), and the push can fail for any other reason
\* (network, authentication); then the tag stays local only.
Push ==
  /\ pc = "push"
  /\ gitCalls' = gitCalls + 1
  /\ \E ok \in BOOLEAN :
       IF ok /\ TagOf(version) \notin remote
       THEN remote' = remote \cup {TagOf(version)} /\ pc' = "done"
            /\ UNCHANGED <<outcome, exitCode>>
       ELSE Exit("git_error", 1) /\ UNCHANGED remote
  /\ UNCHANGED <<run, version, dirty, local, localAtStart, remoteAtStart>>

Finish ==
  /\ pc = "done"
  /\ Exit("ok", 0)
  /\ UNCHANGED <<run, version, dirty, local, remote, localAtStart, remoteAtStart,
                 gitCalls>>

\* KeyboardInterrupt: Ctrl-C reaches python and the git it waits for; the
\* exception is not caught and the interpreter ends by SIGINT (status 130
\* to the shell).  An interrupted git tag or git push may or may not have
\* completed (only if it would have succeeded).
Interrupt ==
  /\ outcome = "running"
  /\ local' \in IF pc = "tag" /\ TagOf(version) \notin local
                    /\ ValidRefName(TagOf(version))
                 THEN {local, local \cup {TagOf(version)}} ELSE {local}
  /\ remote' \in IF pc = "push" /\ TagOf(version) \notin remote
                  THEN {remote, remote \cup {TagOf(version)}} ELSE {remote}
  /\ Exit("interrupted", 130)
  /\ UNCHANGED <<run, version, dirty, localAtStart, remoteAtStart, gitCalls>>

Next ==
  \/ EditOrCommit \/ StartRun \/ CheckArgs \/ CheckClean \/ CreateTag
  \/ Push \/ Finish \/ Interrupt

Spec == Init /\ [][Next]_vars

\* The steps of main() itself, without the user's edits, new invocations
\* or a Ctrl-C.
Step == CheckArgs \/ CheckClean \/ CreateTag \/ Push \/ Finish

\* main() runs straight through while each git it waits for exits
\* (subprocess.run has no timeout; see README).  No fairness is assumed
\* for the user: nobody has to press Ctrl-C for a run to end.
FairSpec == Spec /\ WF_vars(Step)

-----------------------------------------------------------------------------
(***************************************************************************)
(* Refinement mapping onto ReleaseContract: while a run is in progress the *)
(* contract still shows the tags it started with; the tags main() leaves  *)
(* appear at once when it exits.                                           *)
(***************************************************************************)
RC == INSTANCE ReleaseContract WITH
        status <- IF outcome = "none" THEN "idle" ELSE outcome,
        local  <- IF outcome = "running" THEN localAtStart ELSE local,
        remote <- IF outcome = "running" THEN remoteAtStart ELSE remote

-----------------------------------------------------------------------------
TypeOK ==
  /\ run \in 0..MaxRuns
  /\ pc \in {"idle", "argv", "status", "tag", "push", "done"}
  /\ version \in Versions \cup {NoArg}
  /\ dirty \in BOOLEAN
  /\ local \subseteq {TagOf(v) : v \in Versions}
  /\ remote \subseteq {TagOf(v) : v \in Versions}
  /\ gitCalls \in 0..3
  /\ outcome \in {"none", "running", "ok", "usage", "invalid_version",
                  "dirty", "git_error", "interrupted"}
  /\ exitCode \in {0, 1, 130}

\* spec.md 4.7 / 8: release() with a version the spec's pattern rejects
\* fails with InvalidVersion before any git command runs (main() checks
\* SEMVER_RE before git_is_clean()).
InvalidVersionRunsNoGit ==
  (outcome # "none" /\ version # NoArg /\ ~RC!SpecSemver(version))
    => gitCalls = 0

\* spec.md 4.7: "the working tree must report no pending changes before any
\* tag is created -- a hard precondition": a run never creates a tag while
\* the tree is dirty.
DirtyTreeNeverTagged ==
  [][(dirty /\ pc = "tag" /\ outcome = "running") => local' = local]_vars

\* spec.md 4.7 and 5: every invocation of release.py ends in one of the
\* contract's outcomes: a tag only for a valid version on a clean tree,
\* Ok only with the tag locally and on origin, origin untouched on a
\* GitError, and no ref but v{version} changed, whatever earlier runs left.
ContractRefinement == RC!Spec

\* spec.md 5: once the git commands it waits for exit, every invocation of
\* release.py ends with an exit status by its own steps: no check of
\* main() loops or waits for the user.
RunTerminates == RC!Terminates
=============================================================================
