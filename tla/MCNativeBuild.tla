---------------------------- MODULE MCNativeBuild ----------------------------
(***************************************************************************)
(* Model of build-native.py for TLC, over the catalogs of NativeCatalogs.  *)
(***************************************************************************)
EXTENDS NativeBuild, NativeCatalogs
=============================================================================
