---------------------------- MODULE MCEmojiText ----------------------------
(* EmojiText for TLC: MCEmojiText.cfg checks it with one emoji in the text  *)
(* of two messages, one removed file and one failure.                       *)
EXTENDS EmojiText
=============================================================================
