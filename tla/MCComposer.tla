---------------------------- MODULE MCComposer ----------------------------
(* Composer for TLC: two acts of writing, two drafts on their way to TDLib *)
(* and one on its way back.                                                *)
EXTENDS Composer
=============================================================================
