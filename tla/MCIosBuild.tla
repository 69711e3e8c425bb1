------------------------------ MODULE MCIosBuild ------------------------------
(***************************************************************************)
(* Model of build-ios.py for TLC: the two iOS presets, each with           *)
(* "binaryDir": "${sourceDir}/build/${presetName}" in the catalog.          *)
(***************************************************************************)
EXTENDS IosBuild

MCPresets == {"ios-debug", "ios-release"}

MCPresetDir(p) ==
  ResolvePath(Root, ExpandBinaryDir(<<SourceDirTok, "build", PresetNameTok>>, p))

\* cmake or xcodebuild error; killed by SIGKILL
MCFailCodes == {1, -9}
=============================================================================
