------------------------------ MODULE MCWebBuild ------------------------------
(***************************************************************************)
(* Model of build-web.py for TLC: the two Web presets , each with           *)
(* "binaryDir": "${sourceDir}/build/${presetName}" in the catalog.          *)
(***************************************************************************)
EXTENDS WebBuild

MCPresets == {"web-debug", "web-release"}

MCPresetDir(p) ==
  ResolvePath(Root, ExpandBinaryDir(<<SourceDirTok, "build", PresetNameTok>>, p))

\* cmake or emcc error; killed by SIGKILL
MCFailCodes == {1, -9}
=============================================================================
