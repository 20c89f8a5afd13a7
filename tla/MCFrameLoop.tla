---------------------------- MODULE MCFrameLoop -----------------------------
(***************************************************************************)
(* FrameLoop with a few jobs.                                              *)
(***************************************************************************)
EXTENDS FrameLoop
=============================================================================
