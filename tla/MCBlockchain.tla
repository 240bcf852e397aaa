---------------------------- MODULE MCBlockchain ----------------------------
(***************************************************************************)
(* Small stores for TLC: one file name claimed by two owners, blocks with  *)
(* and without a transaction, and a first block whose ancestors stay       *)
(* unknown.                                                                *)
(***************************************************************************)
EXTENDS Blockchain

TxP == [name |-> "a", meta |-> "p"]
TxQ == [name |-> "a", meta |-> "q"]

TwoOwners == {TxP, TxQ}

Empty(nonce) == [nonce |-> nonce, txs |-> <<>>]
Claim(nonce, tx) == [nonce |-> nonce, txs |-> <<tx>>]

EmptyOrClaim == {Empty(1), Claim(1, TxP), Claim(1, TxQ)}

\* Chains start at the genesis block or at a block that was never received.
GenesisAndUnseen == {Genesis, <<Empty(2)>>}
=============================================================================
