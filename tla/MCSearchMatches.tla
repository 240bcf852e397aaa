--------------------------- MODULE MCSearchMatches ---------------------------
(***************************************************************************)
(* Small instances of search matches.                                      *)
(***************************************************************************)
EXTENDS SearchMatches, TLC

CONSTANTS h1, h2, f, k1, k2

TwoChunks == f :> 2
BothMatch == f :> {k1, k2}
NobodyHasAll == h1 :> {} @@ h2 :> {}
OneAndBoth == {{k1}, {k1, k2}}

\* Both nodes begin with nothing.
Symmetry == Permutations({h1, h2})
=============================================================================
