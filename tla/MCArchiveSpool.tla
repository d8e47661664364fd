--------------------------- MODULE MCArchiveSpool ---------------------------
(* ArchiveSpool on one streamed and one buffered response.                 *)
EXTENDS ArchiveSpool
=============================================================================
