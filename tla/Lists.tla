-------------------------------- MODULE Lists --------------------------------
(***************************************************************************)
(* What several modules do with arrays: filter() and the operator - of     *)
(* LPC, and sums.                                                          *)
(***************************************************************************)
EXTENDS Naturals, Sequences, FiniteSets, SequencesExt, FiniteSetsExt

\* The elements of s that are in V, in their order.
Those(s, V) ==
  LET upTo[i \in 0 .. Len(s)] ==
        IF i = 0 THEN <<>>
        ELSE IF s[i] \in V THEN Append(upTo[i - 1], s[i]) ELSE upTo[i - 1]
  IN upTo[Len(s)]

\* f[1] + ... + f[n].
SumTo(f, n) ==
  LET upTo[i \in 0 .. n] == IF i = 0 THEN 0 ELSE upTo[i - 1] + f[i]
  IN upTo[n]

\* The sum of f[i] for all i in S.
Sum(f, S) == MapThenSumSet(LAMBDA i : f[i], S)
=============================================================================
