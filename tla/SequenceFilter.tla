--------------------------- MODULE SequenceFilter ---------------------------
(***************************************************************************)
(* List comprehensions with a condition: [x for x in seq if x not in drop].  *)
(***************************************************************************)
EXTENDS Naturals, Sequences

Without(seq, drop) ==
    LET kept[k \in 0 .. Len(seq)] ==
            IF k = 0 THEN << >>
            ELSE IF seq[k] \in drop THEN kept[k - 1] ELSE Append(kept[k - 1], seq[k])
    IN kept[Len(seq)]
=============================================================================
