------------------------------ MODULE MCServer ------------------------------
(***************************************************************************)
(* Server for TLC.  A cache of two places chooses between two documents    *)
(* when it evicts one; a queue of two lets an edit overtake another.       *)
(***************************************************************************)
EXTENDS Server

MCCacheSizes == {2}
MCQueueMax == 2
=============================================================================
