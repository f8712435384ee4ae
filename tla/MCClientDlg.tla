---------------------------- MODULE MCClientDlg ----------------------------
(* Three buttons, and one connection more, so that a position can be lost   *)
(* and taken again while the others have notices under way.                *)
EXTENDS ClientDlg
=============================================================================
