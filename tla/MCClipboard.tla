----------------------------- MODULE MCClipboard -----------------------------
(* The client and two servers, one text to copy besides an empty one and    *)
(* content that is no text.                                                *)
EXTENDS Clipboard
=============================================================================
