----------------------------- MODULE MCNetlink -----------------------------
(* An instance of Netlink for TLC: an id of each length around and below   *)
(* the cut at 9 bytes, one of them with a character of several bytes.      *)
EXTENDS NetlinkReader

IdOfLength(n) == [i \in 1..n |-> 96 + i]
SampleIds == {IdOfLength(n) : n \in 1..12} \cup {<<195, 169, 97>>}
=============================================================================
