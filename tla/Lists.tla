------------------------------- MODULE Lists -------------------------------
(***************************************************************************)
(* What is selected from a list, as a recursive function of how far the    *)
(* list has been read: the provers know nothing of SelectSeq.              *)
(***************************************************************************)
EXTENDS Naturals, Sequences

Members(s) == {s[k] : k \in DOMAIN s}

\* What a set has of the first members of a list, for each number of them.
AmongFirst(s, S) ==
    LET among[n \in 0..Len(s)] ==
          IF n = 0 THEN <<>> ELSE IF s[n] \in S THEN Append(among[n - 1], s[n]) ELSE among[n - 1]
    IN among

\* The members of a list that a set has, in the order of the list: [x for x in s if x in S].
Among(s, S) == AmongFirst(s, S)[Len(s)]
=============================================================================
