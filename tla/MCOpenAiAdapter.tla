--------------------------- MODULE MCOpenAiAdapter ---------------------------
(* Small instances of OpenAiAdapter for TLC.                                *)
EXTENDS OpenAiAdapter

=============================================================================
