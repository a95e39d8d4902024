-------------------------- MODULE MCServerLifecycle --------------------------
(***************************************************************************)
(* Instances of ServerLifecycle, and the mutations of its operations that  *)
(* its properties must notice.                                             *)
(***************************************************************************)
EXTENDS ServerLifecycle
=============================================================================
