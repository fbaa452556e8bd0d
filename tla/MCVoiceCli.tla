----------------------------- MODULE MCVoiceCli -----------------------------
(* The small instance on which TLC checks VoiceCli, Ctrl-C and cancellation    *)
(* coming at any await of the client.                                          *)
EXTENDS VoiceCli
=============================================================================
