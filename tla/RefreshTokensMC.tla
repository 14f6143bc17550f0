-------------------------- MODULE RefreshTokensMC --------------------------
(* RefreshTokens for TLC: token values, families and requests are          *)
(* interchangeable, users too.                                             *)
EXTENDS RefreshTokens, TLC

Symmetry == Permutations(Token) \union Permutations(Family)
              \union Permutations(Request) \union Permutations(User)
=============================================================================
