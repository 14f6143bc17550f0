----------------------------- MODULE CampaignsMC -----------------------------
EXTENDS Campaigns, TLC

Symmetry == Permutations(Workspace) \union Permutations(Brand)
              \union Permutations(Campaign) \union Permutations(Request)
=============================================================================
