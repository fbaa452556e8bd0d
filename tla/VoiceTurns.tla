----------------------------- MODULE VoiceTurns -----------------------------
(***************************************************************************)
(* What XaiVoiceClient promises its caller, without any protocol: turns    *)
(* are run one at a time; each is settled once, as answered or as failed;  *)
(* and the conversation the next turn would be spoken into - the line -    *)
(* never holds a prompt that an earlier turn left without an answer.       *)
(***************************************************************************)
EXTENDS Naturals

CONSTANT Turns

VARIABLES outcome,  \* how each turn stands, as the caller of run_turn sees it
          line      \* prompts unanswered in the conversation used next

tvars == <<outcome, line>>

TurnsInit == /\ outcome = [t \in Turns |-> "new"]
             /\ line = {}

\* A turn starts only after every started turn is settled, on a clear line.
Begin(t) == /\ outcome[t] = "new"
            /\ \A u \in Turns : outcome[u] # "inflight"
            /\ line = {}
            /\ outcome' = [outcome EXCEPT ![t] = "inflight"]
            /\ UNCHANGED line

Speak(t) == /\ outcome[t] = "inflight"
            /\ line = {}
            /\ line' = {t}
            /\ UNCHANGED outcome

Answer(t) == /\ outcome[t] = "inflight"
             /\ line = {t}
             /\ outcome' = [outcome EXCEPT ![t] = "answered"]
             /\ line' = {}

\* A failed turn abandons its conversation: the next turn gets a clear line.
Fail(t) == /\ outcome[t] = "inflight"
           /\ outcome' = [outcome EXCEPT ![t] = "failed"]
           /\ line' = {}

TurnsNext == \E t \in Turns : Begin(t) \/ Speak(t) \/ Answer(t) \/ Fail(t)

TurnsSpec == TurnsInit /\ [][TurnsNext]_tvars
=============================================================================
