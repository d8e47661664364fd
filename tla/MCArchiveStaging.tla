-------------------------- MODULE MCArchiveStaging --------------------------
(* ArchiveStaging on two handlers and one reaper.                          *)
EXTENDS ArchiveStaging
=============================================================================
