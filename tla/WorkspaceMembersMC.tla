-------------------------- MODULE WorkspaceMembersMC --------------------------
(* WorkspaceMembers for TLC: workspaces and requests are interchangeable, and  *)
(* so are users of whom the constants say the same.                           *)
EXTENDS WorkspaceMembers, TLC

Plain == User \ (Superuser \union Elsewhere)
Symmetry == Permutations(Workspace) \union Permutations(Request)
              \union Permutations(Plain) \union Permutations(Elsewhere \ Superuser)
=============================================================================
