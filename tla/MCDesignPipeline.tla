-------------------------- MODULE MCDesignPipeline --------------------------
(***************************************************************************)
(* Small instances of DesignPipeline: jobs are model values, some of them  *)
(* native revisions.                                                       *)
(***************************************************************************)
EXTENDS DesignPipeline
=============================================================================
