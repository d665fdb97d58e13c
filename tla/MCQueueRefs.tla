---------------------------- MODULE MCQueueRefs ----------------------------
(***************************************************************************)
(* QueueRefs with two VIs, few slots and few magic numbers, so that slots  *)
(* are used again and magic numbers start over.                            *)
(***************************************************************************)
EXTENDS QueueRefs

CONSTANTS v1, v2, n1, n2

TwoVIs == {v1, v2}
TwoNames == {n1, n2}

\* From the start, and shortly before the magic numbers start over.
EarlyAndLate == {1, MagicNumbers - 2}
OnlyEarly == {1}
=============================================================================
