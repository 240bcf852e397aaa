---------------------------- MODULE MCBlockThreads ----------------------------
(***************************************************************************)
(* Small stores for the two threads: every block claims the one name or    *)
(* none.                                                                   *)
(***************************************************************************)
EXTENDS BlockThreads

Tx == [name |-> "a", meta |-> "p"]
OneTx == {Tx}

Foreign(txs) == [nonce |-> 1, txs |-> txs]
EmptyOrClaim == {Foreign(<<>>), Foreign(<<Tx>>)}
EmptyOrFullPool == {<<>>, <<Tx>>}

\* Without names to refuse them, forks get higher with fewer blocks.
EmptyBlocks == {Foreign(<<>>)}
EmptyPool == {<<>>}

OnlyGenesis == {Genesis}
=============================================================================
