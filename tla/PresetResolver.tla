--------------------------- MODULE PresetResolver ---------------------------
(***************************************************************************)
(* Preset Resolver: the pure functions of the drivers that map the host    *)
(* and the command-line choices to a CMake preset name, and the spec's     *)
(* reference definition of the same mapping (spec.md 4.1 and 8).           *)
(* Names are strings put together exactly as the f-strings do.            *)
(***************************************************************************)
EXTENDS Sequences

CONSTANT NONE   \* Python's None: an option the user did not give

HostSystems == {"Linux", "Darwin", "Windows", "FreeBSD"}  \* platform.system()
Compilers   == {"gcc", "clang", "msvc"}                   \* --compiler choices
Configs     == {"debug", "release"}                       \* --config choices
Abis        == {"arm64-v8a", "armeabi-v7a"}               \* one Android ABI

\* str.lower() on the spellings a configuration can have.
Lower(s) == CASE s \in {"debug", "Debug", "DEBUG"}       -> "debug"
              [] s \in {"release", "Release", "RELEASE"} -> "release"

\* detect_platform(): the hosts it knows; any other host exits with 1.
PlatformOf == [s \in {"Linux", "Darwin", "Windows"} |->
                 CASE s = "Linux"  -> "linux"
                   [] s = "Darwin" -> "macos"
                   [] OTHER        -> "windows"]
SupportedHost(system) == system \in DOMAIN PlatformOf

\* auto_detect_preset(): FALSE when it exits with 1.
AutoDetectOk(system, compiler) ==
  /\ SupportedHost(system)
  /\ PlatformOf[system] = "linux" =>
       (IF compiler = NONE THEN "gcc" ELSE compiler) \in {"gcc", "clang"}

\* Mutant: Linux defaults to clang instead of gcc.
AutoDetectPresetClangDefault(system, compiler, config) ==
  LET plat == PlatformOf[system]
      cfg  == Lower(config)
  IN  CASE plat = "linux" ->
             "linux-" \o (IF compiler = NONE THEN "clang" ELSE compiler) \o "-" \o cfg
        [] plat = "macos"   -> "macos-clang-" \o cfg
        [] plat = "windows" -> "windows-msvc-" \o cfg

\* auto_detect_preset(): the name for a host and compiler it accepts.
AutoDetectPreset(system, compiler, config) ==
  LET plat == PlatformOf[system]
      cfg  == Lower(config)
  IN  CASE plat = "linux" ->
             "linux-" \o (IF compiler = NONE THEN "gcc" ELSE compiler) \o "-" \o cfg
        [] plat = "macos"   -> "macos-clang-" \o cfg
        [] plat = "windows" -> "windows-msvc-" \o cfg

\* build-android.py get_preset_name().
AndroidPresetName(abi, config) ==
  CASE abi = "arm64-v8a"   -> "android-arm64-" \o Lower(config)
    [] abi = "armeabi-v7a" -> "android-armv7-" \o Lower(config)

\* Mutant: "all" lists the ABIs in the other order.
AbisOfSwapped(abi) == IF abi = "all" THEN <<"armeabi-v7a", "arm64-v8a">> ELSE <<abi>>

\* build-android.py main(): the ABIs "--abi" stands for, in build order.
AbisOf(abi) == IF abi = "all" THEN <<"arm64-v8a", "armeabi-v7a">> ELSE <<abi>>

(***************************************************************************)
(* Reference: the resolution spec.md 8 states.  On Linux an explicit gcc   *)
(* or clang is kept and no compiler means gcc; macOS is always clang and   *)
(* Windows always msvc, whatever was asked; msvc on Linux is rejected.     *)
(***************************************************************************)
SpecNativeAccepts(system, compiler) ==
  system \in {"Darwin", "Windows"} \/ (system = "Linux" /\ compiler # "msvc")

SpecNativePreset(system, compiler, config) ==
  CASE system = "Darwin"  -> "macos-clang-" \o config
    [] system = "Windows" -> "windows-msvc-" \o config
    [] system = "Linux" /\ compiler = "clang" -> "linux-clang-" \o config
    [] OTHER -> "linux-gcc-" \o config

SpecAndroidPresets(abi, config) ==
  LET one(a) == IF a = "arm64-v8a" THEN "android-arm64-" \o config
                                   ELSE "android-armv7-" \o config
  IN  IF abi = "all" THEN <<one("arm64-v8a"), one("armeabi-v7a")>>
                     ELSE <<one(abi)>>
=============================================================================
