----------------------------- MODULE PageLists -----------------------------
(* What the pages do with the lists they show. *)
EXTENDS Naturals, Sequences, FiniteSets

\* What of a list is in the set `kept', in its order.
Sublist(list, kept) ==
  LET upTo[k \in 0..Len(list)] == IF k = 0 THEN <<>>
                                 ELSE IF list[k] \in kept THEN Append(upTo[k - 1], list[k])
                                 ELSE upTo[k - 1]
  IN upTo[Len(list)]
=============================================================================
