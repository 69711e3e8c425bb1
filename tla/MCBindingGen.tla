---------------------------- MODULE MCBindingGen ----------------------------
EXTENDS BindingGen

\* One single target, "all" spelled out, and a target that does not exist.
MCArgs == {"ios", "all", "wasm"}
=============================================================================
