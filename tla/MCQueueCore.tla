----------------------------- MODULE MCQueueCore -----------------------------
(***************************************************************************)
(* QueueCore with three elements, every bound up to the memory, one beyond *)
(* it and no bound at all.                                                 *)
(***************************************************************************)
EXTENDS QueueCore

CONSTANTS x, y, z

Elements3 == {x, y, z}
EveryMaxSize == 1 .. Memory + 1 \cup {Growable}
=============================================================================
