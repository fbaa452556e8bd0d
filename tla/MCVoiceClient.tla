--------------------------- MODULE MCVoiceClient ---------------------------
(* The small instances on which TLC checks VoiceClient. *)
EXTENDS VoiceClient

\* The awaits of the two sends of a turn.
SendCancel == {"sendUser", "sendCreate"}
\* The awaits of connect.
ConnectCancel == {"opening", "configuring", "awaitReady", "closing"}
\* Every await at which a cancellation leaves nothing half done: not those of a
\* send, nor those that leave a websocket set and not ready.
CleanCancel == {"opening", "closing", "receiving"}
=============================================================================
