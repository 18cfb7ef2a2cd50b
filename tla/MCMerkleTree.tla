---------------------------- MODULE MCMerkleTree ----------------------------
(* Instance of MerkleTree for TLC.                                          *)
EXTENDS MerkleTree

Plain == <<"a">>

\* With a payload that is the concatenation of two leaf hashes: what the node
\* above those two leaves hashes, but for the prefix.
MCData == {Plain, <<leaf_hash(Plain), leaf_hash(Plain)>>}
=============================================================================
