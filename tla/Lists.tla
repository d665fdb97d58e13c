-------------------------------- MODULE Lists --------------------------------
(***************************************************************************)
(* What the intrusive lists of the runtime have in common: who is on one,  *)
(* and what is left of it when some of its members are taken off.  Chosen  *)
(* does what SelectSeq of the standard library does, written so that       *)
(* something can be proved of it.                                          *)
(***************************************************************************)
EXTENDS Naturals, Sequences

Elements(s) == {s[i] : i \in 1 .. Len(s)}

\* The elements of s that are in S, in their order.
Chosen(s, S) ==
  LET chosen[n \in 0 .. Len(s)] ==
        IF n = 0 THEN << >>
        ELSE IF s[n] \in S THEN Append(chosen[n - 1], s[n]) ELSE chosen[n - 1]
  IN  chosen[Len(s)]
=============================================================================
