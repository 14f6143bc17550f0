----------------------------- MODULE EmailLinksMC -----------------------------
(* EmailLinks for TLC: links, requests and users are interchangeable.        *)
EXTENDS EmailLinks, TLC

Symmetry == Permutations(Link) \union Permutations(Request) \union Permutations(User)
=============================================================================
