---------------------------- MODULE NativeCatalogs ----------------------------
(***************************************************************************)
(* CMakePresets.json catalogs for the models of build-native.py: the      *)
(* Linux, macOS and Windows presets, one explicit preset that exists and   *)
(* one that does not, with binaryDir given in three ways.                  *)
(***************************************************************************)
EXTENDS BuildTree

\* "binaryDir": "${sourceDir}/build/${presetName}"
StdTpl == <<SourceDirTok, "build", PresetNameTok>>
\* "binaryDir": "build/${presetName}" (relative)
RelTpl == <<"build", PresetNameTok>>

NativeNames ==
  {"linux-gcc-debug", "linux-gcc-release", "linux-clang-debug",
   "linux-clang-release", "macos-clang-debug", "macos-clang-release",
   "windows-msvc-debug", "windows-msvc-release"}

\* Every preset declares binaryDir itself.
MCCatalogStd ==
  [p \in NativeNames |-> [hidden |-> FALSE, binaryDir |-> StdTpl, effective |-> StdTpl]]

\* The release presets inherit binaryDir from a hidden base preset.
MCCatalogInherited ==
  [p \in NativeNames |->
     [hidden |-> FALSE,
      binaryDir |-> IF p \in {"linux-gcc-release", "macos-clang-release",
                              "windows-msvc-release"} THEN <<>> ELSE StdTpl,
      effective |-> StdTpl]]

\* The presets give binaryDir relative to the source directory.
MCCatalogRelative ==
  [p \in NativeNames |-> [hidden |-> FALSE, binaryDir |-> RelTpl, effective |-> RelTpl]]

MCExplicitPresets == {"linux-clang-release", "no-such-preset"}
MCWorkspacePresets == {"linux-clang-release"}

\* The Linux presets only, for the two concurrent invocations on a Linux
\* host (the presets their arguments can resolve to).
MCLinuxNames == {p \in NativeNames : p \in {"linux-gcc-debug", "linux-gcc-release",
                                             "linux-clang-debug", "linux-clang-release"}}
MCCatalogLinux ==
  [p \in MCLinuxNames |-> [hidden |-> FALSE, binaryDir |-> StdTpl, effective |-> StdTpl]]
MCPresets == NativeNames \cup MCExplicitPresets

\* With absolute binaryDirs the start directory does not matter.
MCStartDirs == {Root}
\* Run from the repository root or from elsewhere.
MCStartDirsAny == {Root, Home}

\* cmake error; killed by SIGKILL (the OOM killer under a parallel build)
MCFailCodes == {1, -9}
=============================================================================
