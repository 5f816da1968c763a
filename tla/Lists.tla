-------------------------------- MODULE Lists --------------------------------
(***************************************************************************)
(* Sequences picked out of others by position.  The library's SelectSeq    *)
(* takes an operator, of which nothing can be proved by induction; here    *)
(* what is kept is a set.                                                  *)
(***************************************************************************)
EXTENDS Integers, SequencesExt

(* s is a sequence, whatever its elements are. *)
IsSeq(s) == s \in Seq(Range(s))

(* The elements of s at the positions in K, in their order. *)
KeptAt(s, K) ==
  LET kept[n \in 0 .. Len(s)] ==
        IF n = 0 THEN <<>>
        ELSE IF n \in K THEN Append(kept[n - 1], s[n]) ELSE kept[n - 1]
  IN kept[Len(s)]

(* The members of S among the first n numbers, in order. *)
Ascending(S, n) == KeptAt([k \in 1 .. n |-> k], S)
=============================================================================
