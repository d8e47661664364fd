--------------------------- MODULE MCOAuthRefresh ---------------------------
(* OAuthRefresh with one key that a caller of the control API repeats.     *)
EXTENDS OAuthRefresh

OneManualKey == {<<"manual", 1>>}
=============================================================================
