----------------------------- MODULE Selection -----------------------------
(***************************************************************************)
(* The rows of a table that meet a condition, in their order: what the       *)
(* scripts' list comprehensions and data frames do.                          *)
(***************************************************************************)
EXTENDS SequencesExt

\* The elements of s at the places in I.
Chosen(s, I) == FlattenSeq([k \in DOMAIN s |-> IF k \in I THEN <<s[k]>> ELSE << >>])
=============================================================================
