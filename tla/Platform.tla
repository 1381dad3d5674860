------------------------------- MODULE Platform -------------------------------
(***************************************************************************)
(* The platform the library is built for.  Its system code has one branch  *)
(* per platform, taken by the preprocessor: the modules of that code model *)
(* both, and a behaviour stays with the branch it started in.              *)
(***************************************************************************)
CONSTANT None    \* no handle, no name, no call under way

VARIABLE platform

Platforms == {"Linux", "Windows"}

OnLinux == platform = "Linux"

OnWindows == platform = "Windows"
=============================================================================
