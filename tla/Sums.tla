-------------------------------- MODULE Sums --------------------------------
(***************************************************************************)
(* The sum of a sequence of sizes, as the loops over messages and queued   *)
(* events add them up.                                                     *)
(***************************************************************************)
EXTENDS Naturals, Sequences

\* The sums of the first 0, 1, .. Len(sizes) sizes.
PartialSums(sizes) ==
    LET upTo[i \in 0..Len(sizes)] == IF i = 0 THEN 0 ELSE upTo[i - 1] + sizes[i]
    IN upTo

Total(sizes) == PartialSums(sizes)[Len(sizes)]
=============================================================================
