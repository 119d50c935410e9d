--------------------------- MODULE MCStickerSets ---------------------------
(* StickerSets for TLC: three sets, so that a set can move to the row that   *)
(* has its place in _stickerSetIds, and two acts.  One list of each length   *)
(* is enough at first, for no set differs from another.                      *)
EXTENDS StickerSets

CONSTANTS a, b, c

MCSet == {a, b, c}
MCAtFirst == {<<>>, <<a>>, <<a, b>>, <<a, b, c>>}
=============================================================================
