---------------------------- MODULE SequenceFilter ----------------------------
(* The comprehension `[x for x in s if x not in S]`, by which the sources  *)
(* drop elements of lists and keys of dictionaries.                        *)
EXTENDS Integers, Sequences

(* What is left of the sequence s without the elements of S.               *)
Excluding(s, S) ==
    LET kept[i \in 0 .. Len(s)] ==
            IF i = 0 THEN <<>>
            ELSE IF s[i] \in S THEN kept[i - 1] ELSE Append(kept[i - 1], s[i])
    IN kept[Len(s)]

(* `[x for x in s if x in S]`.                                             *)
Including(s, S) == Excluding(s, {s[i] : i \in DOMAIN s} \ S)
=============================================================================
