-------------------------- MODULE MCArtifactStore --------------------------
(* The small instances on which TLC checks ArtifactStore. *)
EXTENDS ArtifactStore, TLC

CONSTANTS c1, c2, c3, n1

\* Three calls collide on one name, with different files asked for.
RivalNames == c1 :> n1 @@ c2 :> n1 @@ c3 :> n1
RivalWants == c1 :> {"wav", "txt"} @@ c2 :> {"wav", "txt"} @@ c3 :> {"txt"}

\* Two calls collide, one of them asks for the audio only.
PairNames == c1 :> n1 @@ c2 :> n1
PairWants == c1 :> {"wav", "txt"} @@ c2 :> {"wav"}

AllFaults == FaultKinds
UnlinkFails == {"unlink"}
=============================================================================
