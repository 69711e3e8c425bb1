---------------------------- MODULE MCAndroidBuild ----------------------------
(***************************************************************************)
(* Model of build-android.py for TLC: the four Android presets, each with  *)
(* "binaryDir": "${sourceDir}/build/${presetName}" in the catalog.          *)
(***************************************************************************)
EXTENDS AndroidBuild

MCPresets == {"android-arm64-debug", "android-arm64-release",
              "android-armv7-debug", "android-armv7-release"}

MCPresetDir(p) ==
  ResolvePath(Root, ExpandBinaryDir(<<SourceDirTok, "build", PresetNameTok>>, p))

\* cmake error; killed by SIGKILL (the OOM killer under a parallel build)
MCFailCodes == {1, -9}
=============================================================================
