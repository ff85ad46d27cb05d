------------------------- MODULE MCAssistantSession -------------------------
(***************************************************************************)
(* Small instances of AssistantSession for TLC.                            *)
(***************************************************************************)
EXTENDS SessionProperties

MCLanguages == {"en", "ta"}
=============================================================================
