--------------------------- MODULE MCReleaseFlow ---------------------------
(* Two tags, which are alike, and two kinds of assets.                      *)
EXTENDS ReleaseFlow, TLC

CONSTANTS v1, v2

MCTags == {v1, v2}
TagsAlike == Permutations(MCTags)
=============================================================================
