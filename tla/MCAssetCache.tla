---------------------------- MODULE MCAssetCache ----------------------------
EXTENDS AssetCache, TLC
Symmetry == Permutations(Tabs) \cup Permutations(Jobs)
=============================================================================
