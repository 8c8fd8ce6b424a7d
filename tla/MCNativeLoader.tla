--------------------------- MODULE MCNativeLoader ---------------------------
(***************************************************************************)
(* NativeLibrary for TLC: all three loaders, under three threads for JNI   *)
(* and two of them, which take more steps, for FFM.                        *)
(***************************************************************************)
EXTENDS NativeLibrary
=============================================================================
