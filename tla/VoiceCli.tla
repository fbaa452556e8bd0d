------------------------------ MODULE VoiceCli ------------------------------
(***************************************************************************)
(* sentinel-xai-voice: main, _run_cli and _interactive_prompts             *)
(* (src/src/sentinel_core/xai_voice.py) as the caller of VoiceClient, with *)
(* asyncio.run around them; or, in phase "library", any program that calls *)
(* the client.                                                             *)
(*                                                                         *)
(* asyncio.run turns the first Ctrl-C into a cancellation of the task,     *)
(* which reaches it where it is suspended or, pressed while input() or the *)
(* storing of a response blocks the loop, at the next await that suspends. *)
(* The second one is a KeyboardInterrupt.                                  *)
(***************************************************************************)
EXTENDS VoiceClient

VARIABLES phase,       \* what the command line is doing
          options,     \* --prompt was given; --record-audio or --record-transcript was
          interrupted, \* Ctrl-C: "no", "pending" while the task has not seen it, "yes"
          exit,        \* the exit code: 0 "ok", 130 "interrupted", 1 or 2 "error"
          stored       \* turns whose artifacts persist_voice_response has completed

cli == <<phase, options, interrupted, exit, stored>>
cliVars == <<vars, cli>>

Options == [single : BOOLEAN, recording : BOOLEAN]
Calling == {"entering", "turn"}
Blocking == {"prompting", "storing"}

CliInit ==
    /\ Init
    /\ \/ phase = "library" /\ options = [single |-> FALSE, recording |-> FALSE]
       \/ phase = "start" /\ options \in Options
    /\ interrupted = "no" /\ exit = "none" /\ stored = {}

\* The task ends with code, or with 130 when a cancellation is still to be delivered
\* to the await of the closing.
Ends(code) == IF interrupted = "pending" THEN {code, "interrupted"} ELSE {code}

Library == phase = "library" /\ Next /\ UNCHANGED cli

World == phase # "library" /\ (Server \/ LinkDrops) /\ UNCHANGED cli

----------------------------------------------------------------------------
(* _run_cli *)

\* No API key, an option VoiceSessionConfig or the client refuses, instructions
\* that cannot be read: nothing is opened.
Misconfigured == /\ phase = "start"
                 /\ phase' = "exited" /\ exit' = "error"
                 /\ UNCHANGED <<vars, options, interrupted, stored>>

\* async with: __aenter__ connects.
Enter == /\ phase = "start" /\ CallConnect
         /\ phase' = "entering"
         /\ UNCHANGED <<options, interrupted, exit, stored>>

\* An await that may return without suspending the task: a send, what is buffered,
\* a connection known to be closed.  The answer to a prompt takes a suspension.
Unsuspended == \/ pc \in {"sendUser", "sendCreate"}
               \/ pc = "receiving" /\ inbox # <<>> /\ Head(inbox).of = {}
               \/ pc = "receiving" /\ inbox = <<>> /\ link = "down"

\* A bug: after a turn that failed the loop asks for the next prompt.
Mut_AfterTurn == IF outcome'[turn] # "answered" THEN "prompting"
                 ELSE IF options.recording THEN "storing" ELSE "prompting"
AfterTurn == IF outcome'[turn] # "answered" THEN "leaving"
             ELSE IF options.recording THEN "storing" ELSE "prompting"

\* The call of the client goes on; a failed __aenter__ is not followed by __aexit__.
CallProceeds ==
    /\ phase \in Calling /\ (interrupted = "pending" => Unsuspended)
    /\ ClientStep
    /\ phase' = IF pc' # "idle" THEN phase
                ELSE IF phase = "turn" THEN AfterTurn
                ELSE IF websocket' THEN "prompting" ELSE "exited"
    /\ exit' \in IF phase' \in {"leaving", "exited"} THEN Ends("error") ELSE {exit}
    /\ UNCHANGED <<options, interrupted, stored>>

\* for prompt in prompts: the --prompt, or what input() returns.
Prompt == /\ phase = "prompting" /\ (options.single => turn = 0)
          /\ RunTurn
          /\ phase' = "turn"
          /\ UNCHANGED <<options, interrupted, exit, stored>>

\* The prompts are used up: --prompt was answered, or end of file, /quit, /exit.
NoMorePrompts == /\ phase = "prompting" /\ (options.single => turn = 1)
                 /\ phase' = "leaving"
                 /\ exit' = IF interrupted = "pending" THEN "interrupted" ELSE "ok"
                 /\ UNCHANGED <<vars, options, interrupted, stored>>

\* A bug: the response is stored when the session ends.
Mut_Store == /\ phase = "storing" /\ phase' = "prompting"
             /\ UNCHANGED <<vars, stored, options, interrupted, exit>>
Store == /\ phase = "storing" /\ phase' = "prompting"
         /\ stored' = stored \cup {turn}
         /\ UNCHANGED <<vars, options, interrupted, exit>>

\* A bug: a response that cannot be stored is passed over.
Mut_Raises == /\ phase = "storing" /\ phase' = "prompting"
              /\ UNCHANGED <<vars, exit, options, interrupted, stored>>
\* persist_voice_response, input() or a print raises.
Raises == /\ phase \in Blocking /\ phase' = "leaving"
          /\ exit' \in Ends("error")
          /\ UNCHANGED <<vars, options, interrupted, stored>>

\* __aexit__ closes; a Ctrl-C while the closing is awaited.
Leave == /\ phase = "leaving" /\ phase' = "exited"
         /\ CallClose \/ (~websocket /\ UNCHANGED vars)
         /\ \/ UNCHANGED <<exit, interrupted>>
            \/ /\ link = "up" /\ interrupted = "no"
               /\ exit' = "interrupted" /\ interrupted' = "yes"
         /\ UNCHANGED <<options, stored>>

----------------------------------------------------------------------------
(* Ctrl-C *)

\* The task is cancelled at an await: Ctrl-C is pressed there, or was before.
Interrupt == /\ phase \in Calling /\ interrupted # "yes"
             /\ Cancel
             /\ phase' = IF phase = "entering" THEN "exited" ELSE "leaving"
             /\ interrupted' = "yes" /\ exit' = "interrupted"
             /\ UNCHANGED <<options, stored>>

InterruptBlocking == /\ phase \in Blocking /\ interrupted = "no"
                     /\ interrupted' = "pending"
                     /\ UNCHANGED <<vars, phase, options, exit, stored>>

InterruptAgain == /\ phase \in Blocking /\ interrupted = "pending"
                  /\ phase' = "leaving" /\ exit' = "interrupted"
                  /\ \/ UNCHANGED stored
                     \/ phase = "storing" /\ stored' = stored \cup {turn}
                  /\ UNCHANGED <<vars, options, interrupted>>

CliNext ==
    \/ Library \/ World
    \/ Misconfigured \/ Enter \/ CallProceeds \/ Prompt \/ NoMorePrompts
    \/ Store \/ Raises \/ Leave
    \/ Interrupt \/ InterruptBlocking \/ InterruptAgain

CliSpec == CliInit /\ [][CliNext]_cliVars

----------------------------------------------------------------------------
(* Properties *)

Answered == {t \in Turns : outcome[t] = "answered"}

\* The command line never asks for a prompt without a session to speak it into, never
\* speaks into one that is not acknowledged, nor into a conversation that still holds
\* an earlier prompt, and never opens a second one, with --resumption or without,
\* wherever a Ctrl-C meets it: "A new turn may be sent only after the previous
\* response.done was received" (docs/xai-voice-agent-security-gate.md:102).
CliSpeaksOnClearLine ==
    phase # "library" =>
       /\ pc \in Speaking => session = "acked"
       /\ pc = "sendUser" => Held(attached) = {}
       /\ phase \in Blocking => websocket /\ sessionReady
       /\ convs <= 1 /\ conversationId \in {NoConv, attached}

\* The exit code 0 says that every prompt was answered, and recorded when that was
\* asked for, and that nobody pressed Ctrl-C.
OkMeansAllDone ==
    exit = "ok" => /\ interrupted = "no"
                   /\ Answered = 1 .. turn
                   /\ options.recording => stored = Answered

\* However the command ends, with recording on at most the last answer is missing
\* from the output directory.
LosesAtMostLast ==
    phase # "library" /\ options.recording =>
       stored \subseteq Answered /\ Answered \ stored \subseteq {turn}
=============================================================================
