----------------------------- MODULE BuildTree -----------------------------
(***************************************************************************)
(* The build-output tree the drivers share: paths, the binaryDir template *)
(* expansion of tools/build-native.py, and the two filesystem operations   *)
(* the drivers perform on it (shutil.rmtree and the writes of an external  *)
(* cmake/ctest run).                                                       *)
(*                                                                         *)
(* A path is a sequence of segments; it is absolute when it starts with    *)
(* "/".  A binaryDir template is a sequence of segments in which the       *)
(* placeholders "${sourceDir}" and "${presetName}" stand as whole          *)
(* segments.  The content of a directory is abstracted to the set of run   *)
(* numbers whose outputs it still holds.                                   *)
(***************************************************************************)
EXTENDS Integers, Sequences, SequencesExt

CONSTANTS
  Presets,    \* preset names the model can name (strings)
  MaxRuns     \* number of driver invocations explored (bound)

RunIds == 1..MaxRuns
Pristine == 0                           \* content that predates every run
Contents == {Pristine} \cup RunIds

Root == <<"/", "repo">>                 \* ROOT = Path(__file__).parent.parent
Home == <<"/", "home">>                 \* a working directory outside ROOT
Cwds == {Root, Home}                    \* directories a user starts a driver in

SourceDirTok  == "${sourceDir}"
PresetNameTok == "${presetName}"

\* ROOT / "build" / preset, as used by build-android/-ios/-web.
BuildPath(base, p) == base \o <<"build", p>>

Dirs == {Root, Home} \cup {BuildPath(b, p) : b \in Cwds, p \in Presets}

\* Path(s): "" is "." (the process working directory); a relative path is
\* resolved against the working directory.
Absolute(path) == path # <<>> /\ Head(path) = "/"
ResolvePath(cwd, path) == IF Absolute(path) THEN path ELSE cwd \o path

\* str.replace(old, new) of a placeholder segment by a sequence of segments.
ReplaceSeg(tpl, old, new) ==
  FlattenSeq([i \in DOMAIN tpl |-> IF tpl[i] = old THEN new ELSE <<tpl[i]>>])

\* binary_dir_template.replace("${sourceDir}", str(ROOT))
\*                    .replace("${presetName}", preset)
ExpandBinaryDir(tpl, preset) ==
  ReplaceSeg(ReplaceSeg(tpl, SourceDirTok, Root), PresetNameTok, <<preset>>)

\* A directory: whether it exists and which runs' outputs it holds.
DirState == [exists : BOOLEAN, runs : SUBSET Contents]
NoDir == [exists |-> FALSE, runs |-> {}]

\* shutil.rmtree(d): d and everything below it is gone.
RmTree(fs, d) == [e \in DOMAIN fs |-> IF IsPrefix(d, e) THEN NoDir ELSE fs[e]]

\* rmtree(d) stopped part way (interrupt or error): the subtree lost some of
\* its content, or all of it.
RmTreePartial(fs, d) ==
  LET Below == {e \in DOMAIN fs : IsPrefix(d, e) /\ fs[e].exists}
  IN  {RmTree(fs, d)} \cup
      {[e \in DOMAIN fs |-> IF e \in Below
                            THEN [exists |-> TRUE, runs |-> keep[e]]
                            ELSE fs[e]] :
         keep \in {k \in [Below -> SUBSET Contents] :
                     \A e \in Below : k[e] \subseteq fs[e].runs}}

\* An external cmake/ctest run of run r writes into binary directory d.
CMakeWrite(fs, d, r) ==
  [fs EXCEPT ![d] = [exists |-> TRUE, runs |-> @.runs \cup {r}]]

\* An external run that failed or was stopped may or may not have written.
CMakeWriteMaybe(fs, d, r) == {fs, CMakeWrite(fs, d, r)}

\* rmtree(".") removes everything below the working directory, then fails
\* to remove "." itself (EINVAL), so the directory stays, emptied.
RmTreeDot(fs, d) ==
  [RmTree(fs, d) EXCEPT ![d] = [exists |-> TRUE, runs |-> {}]]

\* The repository and the home directory hold their own files; no build
\* directory exists yet.
InitialTree == [d \in Dirs |-> IF d \in {Root, Home}
                               THEN [exists |-> TRUE, runs |-> {Pristine}]
                               ELSE NoDir]
=============================================================================
