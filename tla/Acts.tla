-------------------------------- MODULE Acts --------------------------------
(***************************************************************************)
(* Updates, and the acts that nothing in the program calls for: what users *)
(* do, here or on another device.  They are counted to bound them.         *)
(***************************************************************************)
EXTENDS Updates

CONSTANT MaxActs    \* bound: acts

VARIABLE acts       \* how many acts there have been

Act == acts < MaxActs /\ acts' = acts + 1
=============================================================================
