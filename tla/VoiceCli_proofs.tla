---------------------------- MODULE VoiceCli_proofs ----------------------------
(***************************************************************************)
(* Proofs about VoiceCli, for every value of the constants and wherever a  *)
(* Ctrl-C meets the command.  Every step of it is a step of the client or  *)
(* leaves the client alone, so what holds of VoiceClient wherever calls    *)
(* are cancelled holds here.  What holds of it only while no call is       *)
(* cancelled holds here until the command leaves: it never calls the       *)
(* client again after a cancellation.                                      *)
(***************************************************************************)
EXTENDS VoiceCli, VoiceClient_proofs

Left == {"leaving", "exited"}
Connecting == {"opening", "configuring", "awaitReady", "closing"}

\* Where the task stands in each phase, and what the command has opened.
PhaseInv ==
    phase # "library" =>
       /\ phase \in {"start", "entering", "turn"} \cup Blocking \cup Left
       /\ phase = "start" => pc = "idle" /\ ~websocket
       /\ phase = "entering" => caller = "enter" /\ pc \in Connecting
       /\ phase = "start" \/ (phase = "entering" /\ pc = "opening") =>
             convs = 0 /\ conversationId = NoConv
       /\ phase = "turn" => caller = "turn" /\ pc \in Speaking
       /\ phase \in Blocking \cup Left => pc = "idle"
       /\ phase \in Blocking \cup {"turn"} => websocket /\ sessionReady
       /\ convs <= 1 /\ conversationId \in {NoConv, attached}
       /\ phase \notin Left => LineInv /\ AckInv

CliClientInv == TypeOK /\ TurnInv /\ PhaseInv

\* The command drives the client by its own steps only.
LEMMA CliStepsClient == [CliNext]_cliVars => [Next]_vars
BY DEF CliNext, cliVars, cli, Library, World, Misconfigured, Enter, CallProceeds, Prompt, NoMorePrompts,
       Store, Raises, Leave, Interrupt, InterruptBlocking, InterruptAgain, Next, Caller

LEMMA ClientCases ==
    ASSUME ClientStep
    PROVE  \/ OpenOk \/ AwaitReadyGoesOn \/ AwaitReadyTimeout
           \/ SendDelivered \/ SendLost \/ RefusePrompt
           \/ ReceiveAccepted \/ ReceiveDone \/ Failure
BY FailuresFail DEF ClientStep, AwaitReadyGoesOn

\* A step of connect(): it goes on, or ends with a ready session or with none.
LEMMA ConnectProceeds ==
    ASSUME TypeOK, ClientStep, caller = "enter", pc \in Connecting
    PROVE  /\ UNCHANGED <<caller, turn, outcome>>
           /\ pc' \in Connecting \ {"opening"} \/ pc' = "idle"
           /\ pc' = "idle" => \/ websocket' /\ sessionReady'
                              \/ ~websocket' /\ conversationId' = NoConv
           /\ pc # "opening" => UNCHANGED <<convs, attached>>
           /\ pc = "opening" /\ pc' # "idle" => convs' = IF Opened > convs THEN Opened ELSE convs
           /\ pc = "opening" /\ pc' # "idle" => conversationId' = conversationId /\ attached' = Opened
           /\ pc = "opening" /\ pc' = "idle" => UNCHANGED convs
<1> USE DEF history, client, server
<1>1. CASE OpenOk
  BY <1>1 DEF OpenOk, Connecting
<1>2. CASE AwaitReadyGoesOn
  BY <1>2 DEF AwaitReadyGoesOn, AwaitReadyReceive, Connecting, IsReady, TypeOK, Coherent
<1>3. CASE AwaitReadyTimeout
  BY <1>3 DEF AwaitReadyTimeout, CloseSocket, Connecting
<1>4. CASE SendDelivered \/ SendLost
  <2>1. /\ pc = "configuring" /\ pc' = "awaitReady" /\ UNCHANGED <<caller, turn, outcome, convs, attached>>
    BY <1>4 DEF SendDelivered, SendLost, Deliver, AfterSend, Sending, Connecting,
                DeliverConfiguration, DeliverUserItem, DeliverResponseCreate
  <2> QED BY <2>1 DEF Connecting
<1>5. CASE RefusePrompt \/ ReceiveAccepted \/ ReceiveDone
  BY <1>5 DEF RefusePrompt, ReceiveAccepted, ReceiveDone, Connecting
<1>6. CASE Failure
  BY <1>6 DEF Failure, CloseSocket, Return
<1> QED BY <1>1, <1>2, <1>3, <1>4, <1>5, <1>6, ClientCases

\* A step of run_turn() on a ready session: it goes on, answers or fails the turn.
LEMMA TurnProceeds ==
    ASSUME TypeOK, ClientStep, caller = "turn", pc \in Speaking
    PROVE  /\ UNCHANGED <<caller, turn, convs, attached>>
           /\ \/ pc' \in Speaking /\ UNCHANGED <<websocket, sessionReady, outcome>>
              \/ /\ pc' = "idle" /\ UNCHANGED <<websocket, sessionReady>>
                 /\ outcome' = [outcome EXCEPT ![turn] = "answered"]
              \/ pc' = "idle" /\ outcome' = [outcome EXCEPT ![turn] = "failed"]
<1> USE DEF history, client, server
<1>1. CASE OpenOk \/ AwaitReadyGoesOn \/ AwaitReadyTimeout
  BY <1>1 DEF OpenOk, AwaitReadyGoesOn, AwaitReadyReceive, AwaitReadyTimeout, Speaking
<1>2. CASE SendDelivered \/ SendLost
  BY <1>2 DEF SendDelivered, SendLost, Deliver, AfterSend, Sending, Speaking,
              DeliverConfiguration, DeliverUserItem, DeliverResponseCreate
<1>3. CASE ReceiveAccepted
  BY <1>3 DEF ReceiveAccepted, Speaking
<1>4. CASE ReceiveDone
  BY <1>4 DEF ReceiveDone, Return
<1>5. CASE RefusePrompt \/ Failure
  BY <1>5 DEF RefusePrompt, Failure, CloseSocket, Return
<1> QED BY <1>1, <1>2, <1>3, <1>4, <1>5, ClientCases

\* A cancellation ends the call and opens nothing.
LEMMA CancelEnds ==
    ASSUME Cancel, pc # "idle"
    PROVE  /\ pc' = "idle" /\ Return("failed") /\ UNCHANGED <<caller, turn, convs, attached>>
           /\ conversationId' \in {conversationId, NoConv}
BY DEF Cancel, CancelUnhandled, CancelReceiving, FailCall, CloseSocket, Return, IdAfterFailure,
       Deliver, server

\* The world keeps what the command reads.
LEMMA WorldElsewhere ==
    ASSUME TypeOK, Server \/ LinkDrops
    PROVE  UNCHANGED <<client, history, convs, attached>>
<1>1. CASE Server
  BY <1>1, ServerEmits DEF Emission, Emit
<1>2. CASE LinkDrops
  BY <1>2 DEF LinkDrops
<1> QED BY <1>1, <1>2

\* A step that is not a cancellation keeps the line.
LEMMA KeepsLine ==
    ASSUME TypeOK, TurnInv, LineInv, AckInv, [Caller \/ ClientStep \/ Server \/ LinkDrops]_vars
    PROVE  LineInv' /\ AckInv'
<1>1. Uncancelled({"sendUser", "sendCreate"}) /\ Uncancelled({"configuring", "awaitReady"})
  BY DEF Uncancelled
<1> QED BY <1>1, LineInvStep, AckInvStep

\* Once it is leaving the command does not call the client again, and before that it
\* has not cancelled a call.
LEMMA LineUntilLeft ==
    ASSUME TypeOK, TurnInv, PhaseInv, [CliNext]_cliVars, phase # "library", phase' \notin Left
    PROVE  LineInv' /\ AckInv'
<1>1. phase \notin Left /\ [Caller \/ ClientStep \/ Server \/ LinkDrops]_vars
  BY DEF CliNext, cliVars, cli, Library, World, Misconfigured, Enter, CallProceeds, Prompt,
         NoMorePrompts, Store, Raises, Leave, Interrupt, InterruptBlocking, InterruptAgain,
         Caller, Left, Calling, Blocking
<1> QED BY <1>1, KeepsLine DEF PhaseInv

\* What of the client PhaseInv speaks about, outside the line.
Where == <<pc, caller, websocket, sessionReady, conversationId, convs, attached>>

LEMMA PhaseInvStep ==
    ASSUME TypeOK, TurnInv, PhaseInv, [CliNext]_cliVars
    PROVE  PhaseInv'
<1> SUFFICES ASSUME phase' # "library" PROVE PhaseInv'
  BY DEF PhaseInv
<1>0. phase # "library"
  BY DEF CliNext, cliVars, cli, Library, World, Misconfigured, Enter, CallProceeds, Prompt,
         NoMorePrompts, Store, Raises, Leave, Interrupt, InterruptBlocking, InterruptAgain,
         Calling, Blocking
<1> DEFINE L == phase' \notin Left => LineInv' /\ AckInv'
<1>L. L
  BY <1>0, LineUntilLeft
<1>C. LineInv' => conversationId' \in {NoConv, attached'}
  BY DEF LineInv, ConvInv
<1> HIDE DEF L
<1>1. CASE UNCHANGED cliVars
  BY <1>0, <1>1, <1>L DEF cliVars, cli, vars, client, server, PhaseInv, L
<1>2. CASE Library
  BY <1>0, <1>2 DEF Library
<1>3. CASE World
  <2>1. UNCHANGED <<Where, cli>>
    BY <1>3, WorldElsewhere DEF World, client, Where
  <2> QED BY <1>0, <1>L, <2>1 DEF PhaseInv, Where, cli, L
<1>4. CASE Misconfigured
  BY <1>0, <1>4 DEF Misconfigured, PhaseInv, vars, client, server, Left, Blocking
<1>5. CASE Enter
  BY <1>0, <1>5, <1>L DEF Enter, CallConnect, PhaseInv, server, Left, Blocking, Connecting, L
<1>6. CASE CallProceeds /\ phase = "entering"
  <2>1. /\ caller = "enter" /\ pc \in Connecting /\ ClientStep
        /\ pc = "opening" => convs = 0 /\ conversationId = NoConv
        /\ convs <= 1
    BY <1>0, <1>6 DEF PhaseInv, CallProceeds
  <2>3. convs' <= 1
    BY <2>1, ConnectProceeds DEF Opened, NoConv
  <2>4. CASE pc' # "idle"
    <3>1. phase' = "entering" /\ pc' \in Connecting \ {"opening"} /\ caller' = "enter"
      BY <1>6, <2>1, <2>4, ConnectProceeds DEF CallProceeds
    <3> QED BY <1>L, <1>C, <2>3, <3>1 DEF PhaseInv, Left, Blocking, L
  <2>5. CASE pc' = "idle" /\ websocket'
    <3>1. phase' = "prompting" /\ websocket' /\ sessionReady'
      BY <1>6, <2>1, <2>5, ConnectProceeds DEF CallProceeds
    <3> QED BY <1>L, <1>C, <2>3, <2>5, <3>1 DEF PhaseInv, Left, Blocking, L
  <2>6. CASE pc' = "idle" /\ ~websocket'
    <3>1. phase' = "exited" /\ conversationId' = NoConv
      BY <1>6, <2>1, <2>6, ConnectProceeds DEF CallProceeds
    <3> QED BY <2>3, <2>6, <3>1 DEF PhaseInv, Left, Blocking
  <2> QED BY <2>4, <2>5, <2>6
<1>7. CASE CallProceeds /\ phase = "turn"
  <2>1. /\ caller = "turn" /\ pc \in Speaking /\ ClientStep
        /\ websocket /\ sessionReady /\ convs <= 1
    BY <1>0, <1>7 DEF PhaseInv, CallProceeds
  <2>2. turn \in Turns /\ outcome \in [Turns -> {"new", "inflight", "answered", "failed"}]
    BY <2>1 DEF TypeOK, HistoryTypeOK, Coherent
  <2>3. caller' = "turn" /\ convs' <= 1
    BY <2>1, TurnProceeds
  <2>4. CASE pc' # "idle"
    <3>1. phase' = "turn" /\ pc' \in Speaking /\ websocket' /\ sessionReady'
      BY <1>7, <2>1, <2>4, TurnProceeds DEF CallProceeds
    <3> QED BY <1>L, <1>C, <2>3, <3>1 DEF PhaseInv, Left, Blocking, L
  <2>5. CASE pc' = "idle" /\ outcome' = [outcome EXCEPT ![turn] = "failed"]
    <3>1. phase' = "leaving" /\ conversationId' \in {NoConv, attached'}
      <4>1. outcome'[turn] = "failed" /\ turn' = turn
        BY <2>1, <2>2, <2>5, TurnProceeds
      <4>2. phase' = "leaving"
        BY <1>7, <2>5, <4>1 DEF CallProceeds, AfterTurn
      <4>3. LineInv'
        BY <1>0, <1>7, <2>1, KeepsLine DEF PhaseInv, Left
      <4> QED BY <4>2, <4>3, <1>C
    <3> QED BY <2>3, <2>5, <3>1 DEF PhaseInv, Left, Blocking
  <2>6. CASE pc' = "idle" /\ UNCHANGED <<websocket, sessionReady>>
             /\ outcome' = [outcome EXCEPT ![turn] = "answered"]
    <3>1. outcome'[turn] = "answered"
      BY <2>2, <2>6
    <3>2. phase' \in Blocking /\ websocket' /\ sessionReady'
      BY <1>7, <2>1, <2>6, <3>1 DEF CallProceeds, AfterTurn, Blocking
    <3> QED BY <1>L, <1>C, <2>3, <2>6, <3>2 DEF PhaseInv, Left, Blocking, L
  <2>7. pc' \in Speaking => pc' # "idle"
    BY DEF Speaking
  <2> QED BY <2>1, <2>4, <2>5, <2>6, <2>7, TurnProceeds
<1>8. CASE Prompt
  BY <1>0, <1>8, <1>L DEF Prompt, RunTurn, PhaseInv, server, Left, Blocking, Speaking, L
<1>9. CASE NoMorePrompts \/ Store \/ Raises \/ InterruptBlocking \/ InterruptAgain
  <2>1. UNCHANGED Where /\ phase \in Blocking /\ phase' \in Blocking \cup Left
    BY <1>9 DEF NoMorePrompts, Store, Raises, InterruptBlocking, InterruptAgain, vars, client,
                server, Where, Left, Blocking
  <2> QED BY <1>0, <1>L, <2>1 DEF PhaseInv, Where, Left, Blocking, L
<1>10. CASE Leave
  <2>1. phase' = "exited" /\ UNCHANGED <<pc, conversationId, convs, attached>>
    BY <1>10 DEF Leave, CallClose, CloseSocket, vars, client, server
  <2> QED BY <1>0, <1>10, <2>1 DEF PhaseInv, Leave, Left, Blocking
<1>11. CASE Interrupt
  <2>1. pc # "idle" /\ phase' \in Left /\ convs <= 1 /\ conversationId \in {NoConv, attached}
    BY <1>0, <1>11 DEF PhaseInv, Interrupt, Calling, Left, Speaking, Connecting
  <2>2. pc' = "idle" /\ convs' <= 1 /\ conversationId' \in {NoConv, attached'}
    BY <1>11, <2>1, CancelEnds DEF Interrupt
  <2> QED BY <2>1, <2>2 DEF PhaseInv, Left, Blocking
<1> QED BY <1>1, <1>2, <1>3, <1>4, <1>5, <1>6, <1>7, <1>8, <1>9, <1>10, <1>11
        DEF CliNext, CallProceeds, Calling

LEMMA InitPhase == CliInit => PhaseInv
BY InitLine, InitAck DEF CliInit, Init, PhaseInv, Left, Blocking

LEMMA CliClientInvStep == CliClientInv /\ [CliNext]_cliVars => CliClientInv'
BY StepTyped, TurnInvStep, PhaseInvStep, CliStepsClient DEF CliClientInv

LEMMA InitCliClient == CliInit => CliClientInv
BY InitTyped, InitTurn, InitPhase DEF CliInit, CliClientInv

\* Wherever a Ctrl-C meets it, the command speaks a prompt only into its one
\* conversation, with its session acknowledged and nothing earlier left in it.
THEOREM CommandSpeaksOnClearLine == CliSpec => []CliSpeaksOnClearLine
<1>1. CliClientInv => CliSpeaksOnClearLine
  <2> SUFFICES ASSUME CliClientInv, phase # "library" PROVE CliSpeaksOnClearLine
    BY DEF CliSpeaksOnClearLine
  <2> USE DEF CliClientInv
  <2>1. pc \in Speaking => phase = "turn" /\ phase \notin Left
    BY DEF PhaseInv, Speaking, Connecting, Left, Blocking
  <2>2. pc \in Speaking => session = "acked"
    BY <2>1 DEF PhaseInv, AckInv
  <2>3. ASSUME pc = "sendUser" PROVE Held(attached) = {}
    <3>1. LineInv /\ websocket /\ attached \in Convs
      BY <2>1, <2>3 DEF PhaseInv, Speaking, TypeOK, Coherent, ServerTypeOK
    <3>2. Clear(attached)
      BY <2>3, <3>1, ConstantsTyped DEF LineInv, Line, Convs, NoConv
    <3> QED BY <3>1, <3>2, ClearHoldsNothing
  <2> QED BY <2>2, <2>3 DEF CliSpeaksOnClearLine, PhaseInv
<1> QED BY <1>1, CliClientInvStep, InitCliClient, PTL DEF CliSpec

----------------------------------------------------------------------------
(* OkMeansAllDone and LosesAtMostLast *)

\* What is answered and what is stored in each phase.  Until it leaves, the command has
\* had every earlier prompt answered, and stored unless the storing is its next step.
OutInv ==
    IF phase = "library" THEN exit = "none" ELSE
    /\ phase \in {"start", "entering"} => turn = 0
    /\ phase \in {"start", "entering"} \cup Blocking => Answered = 1 .. turn
    /\ phase = "turn" => turn > 0 /\ Answered = 1 .. (turn - 1)
    /\ phase = "storing" => turn > 0 /\ options.recording
    /\ phase \notin Left => exit = "none" /\ interrupted \in {"no", "pending"}
    /\ options.recording =>
          /\ phase \in {"start", "entering", "prompting"} => stored = Answered
          /\ phase \in {"storing", "turn"} => stored = 1 .. (turn - 1)
          /\ stored \subseteq Answered /\ Answered \ stored \subseteq {turn}
    /\ exit = "ok" => /\ phase \in Left /\ interrupted = "no" /\ Answered = 1 .. turn
                      /\ options.recording => stored = Answered

\* The turns answered move with their outcomes only.
LEMMA AnsweredMoves ==
    ASSUME TypeOK
    PROVE  /\ UNCHANGED outcome => UNCHANGED Answered
           /\ turn \in Nat
           /\ \A t \in Turns : outcome' = [outcome EXCEPT ![t] = "answered"] => Answered' = Answered \cup {t}
           /\ \A t \in Turns \ Answered, r \in {"failed", "inflight"} :
                 outcome' = [outcome EXCEPT ![t] = r] => Answered' = Answered
<1>1. turn \in Nat /\ outcome \in [Turns -> {"new", "inflight", "answered", "failed"}]
  BY ConstantsTyped DEF TypeOK, HistoryTypeOK, Turns
<1> QED BY <1>1 DEF Answered

LEMMA OutInvStep ==
    ASSUME TypeOK, TurnInv, PhaseInv, OutInv, [CliNext]_cliVars
    PROVE  OutInv'
<1> USE DEF Left, Blocking
<1>0. turn \in Nat
  BY AnsweredMoves
<1>1. CASE UNCHANGED cliVars
  BY <1>1 DEF cliVars, cli, vars, history, OutInv, Answered
<1>2. CASE Library
  BY <1>2 DEF Library, cli, OutInv
<1>3. CASE World
  BY <1>3, WorldElsewhere DEF World, history, cli, OutInv, Answered
<1>4. CASE Misconfigured
  BY <1>4 DEF Misconfigured, vars, history, OutInv, Answered
<1>5. CASE Enter
  BY <1>5 DEF Enter, CallConnect, history, OutInv, Answered
<1>6. CASE CallProceeds /\ phase = "entering"
  <2>1. UNCHANGED <<turn, outcome>>
    BY <1>6, ConnectProceeds DEF PhaseInv, CallProceeds
  <2>2. UNCHANGED Answered
    BY <2>1 DEF Answered
  <2> QED BY <1>6, <2>1, <2>2 DEF CallProceeds, Ends, OutInv
<1>7. CASE CallProceeds /\ phase = "turn"
  <2>1. /\ caller = "turn" /\ pc \in Speaking /\ ClientStep /\ turn' = turn
    BY <1>7, TurnProceeds DEF PhaseInv, CallProceeds
  <2>2. /\ turn \in Turns /\ turn \notin Answered /\ turn > 0 /\ Answered = 1 .. (turn - 1)
        /\ outcome \in [Turns -> {"new", "inflight", "answered", "failed"}]
    BY <1>7, <2>1 DEF TypeOK, HistoryTypeOK, Coherent, OutInv, Answered
  <2>3. CASE pc' # "idle"
    <3>1. phase' = phase /\ UNCHANGED <<outcome, options, interrupted, exit, stored>>
      BY <1>7, <2>1, <2>3, TurnProceeds DEF CallProceeds
    <3> QED BY <1>7, <2>1, <3>1 DEF OutInv, Answered
  <2>4. CASE pc' = "idle" /\ outcome' = [outcome EXCEPT ![turn] = "failed"]
    <3>1. Answered' = Answered /\ outcome'[turn] # "answered"
      BY <2>2, <2>4, AnsweredMoves
    <3>2. phase' = "leaving" /\ exit' \in Ends("error") /\ UNCHANGED <<options, interrupted, stored>>
      BY <1>7, <2>1, <2>4, <3>1 DEF CallProceeds, AfterTurn
    <3> QED BY <1>7, <2>1, <3>1, <3>2 DEF OutInv, Ends
  <2>5. CASE pc' = "idle" /\ outcome' = [outcome EXCEPT ![turn] = "answered"]
    <3>1. Answered' = Answered \cup {turn} /\ outcome'[turn] = "answered"
      BY <2>2, <2>5, AnsweredMoves
    <3>2. Answered' = 1 .. turn'
      BY <1>0, <2>1, <2>2, <3>1
    <3>3. /\ phase' = (IF options.recording THEN "storing" ELSE "prompting")
          /\ exit' = exit /\ UNCHANGED <<options, interrupted, stored>>
      BY <1>7, <2>1, <2>5, <3>1 DEF CallProceeds, AfterTurn
    <3> QED BY <1>0, <1>7, <2>1, <2>2, <3>1, <3>2, <3>3 DEF OutInv
  <2>6. pc' \in Speaking => pc' # "idle"
    BY DEF Speaking
  <2> QED BY <2>1, <2>3, <2>4, <2>5, <2>6, TurnProceeds
<1>8. CASE Prompt
  <2>1. /\ turn' = turn + 1 /\ outcome' = [outcome EXCEPT ![turn + 1] = "inflight"]
        /\ turn + 1 \in Turns
    BY <1>0, <1>8, ConstantsTyped DEF Prompt, RunTurn, Turns
  <2>2. turn + 1 \notin Answered /\ Answered = 1 .. turn
    BY <1>0, <1>8 DEF Prompt, OutInv
  <2>3. turn + 1 \in Turns \ Answered
    BY <1>0, <2>1, <2>2
  <2>4. Answered' = Answered
    BY <2>1, <2>3, AnsweredMoves
  <2>5. (turn + 1) - 1 = turn /\ turn + 1 > 0
    BY <1>0
  <2> QED BY <1>0, <1>8, <2>1, <2>2, <2>4, <2>5 DEF Prompt, OutInv
<1>9. CASE NoMorePrompts
  BY <1>9 DEF NoMorePrompts, vars, history, OutInv, Answered
<1>10. CASE Store
  <2>1. UNCHANGED <<turn, outcome, options, interrupted, exit>> /\ stored' = stored \cup {turn}
    BY <1>10 DEF Store, vars, history
  <2>2. Answered' = Answered /\ Answered = 1 .. turn
    BY <1>10, <2>1 DEF Store, OutInv, Answered
  <2>3. turn > 0 /\ stored = 1 .. (turn - 1)
    BY <1>10 DEF Store, OutInv
  <2>4. stored' = 1 .. turn
    BY <1>0, <2>1, <2>3
  <2> QED BY <1>10, <2>1, <2>2, <2>4 DEF Store, OutInv
<1>11. CASE Raises \/ InterruptBlocking
  BY <1>11 DEF Raises, Ends, InterruptBlocking, vars, history, OutInv, Answered
<1>12. CASE InterruptAgain
  <2>1. UNCHANGED <<turn, outcome, options, interrupted, Answered>> /\ phase' = "leaving"
    BY <1>12 DEF InterruptAgain, vars, history, Answered
  <2>2. CASE options.recording
    <3>1. stored \subseteq stored' /\ stored' \subseteq stored \cup {turn}
      BY <1>12 DEF InterruptAgain
    <3>2. phase = "storing" => turn \in Answered
      BY <1>0, <1>12 DEF InterruptAgain, OutInv
    <3>3. stored' \subseteq Answered /\ Answered \ stored' \subseteq {turn}
      BY <1>12, <2>2, <3>1, <3>2 DEF InterruptAgain, OutInv
    <3> QED BY <1>12, <2>1, <3>3 DEF InterruptAgain, OutInv
  <2>3. CASE ~options.recording
    BY <1>12, <2>1, <2>3 DEF InterruptAgain, OutInv
  <2> QED BY <2>2, <2>3
<1>13. CASE Leave
  <2>1. UNCHANGED <<turn, outcome, options, stored, Answered>> /\ phase' = "exited"
    BY <1>13 DEF Leave, CallClose, vars, history, Answered
  <2> QED BY <1>13, <2>1 DEF Leave, OutInv
<1>14. CASE Interrupt
  <2>1. pc # "idle" /\ phase # "library" /\ (phase = "turn" => caller = "turn")
        /\ (phase = "entering" => caller = "enter")
    BY <1>14 DEF PhaseInv, Interrupt, Calling, Speaking, Connecting
  <2>2. turn' = turn /\ Return("failed")
    BY <1>14, <2>1, CancelEnds DEF Interrupt
  <2>3. Answered' = Answered
    <3>1. CASE phase = "entering"
      BY <2>1, <2>2, <3>1 DEF Return, Answered
    <3>2. CASE phase = "turn"
      <4>1. turn \in Turns \ Answered
        BY <1>0, <2>1, <3>2 DEF OutInv, TypeOK, HistoryTypeOK, Coherent
      <4> QED BY <2>1, <2>2, <3>2, <4>1, AnsweredMoves DEF Return
    <3> QED BY <1>14, <3>1, <3>2 DEF Interrupt, Calling
  <2> QED BY <1>14, <2>1, <2>2, <2>3 DEF Interrupt, Calling, OutInv
<1> QED BY <1>1, <1>2, <1>3, <1>4, <1>5, <1>6, <1>7, <1>8, <1>9, <1>10, <1>11, <1>12, <1>13, <1>14
        DEF CliNext, CallProceeds, Calling

LEMMA CliInvStep == CliClientInv /\ OutInv /\ [CliNext]_cliVars => (CliClientInv /\ OutInv)'
BY CliClientInvStep, OutInvStep DEF CliClientInv

LEMMA InitOut == CliInit => CliClientInv /\ OutInv
BY InitCliClient DEF CliInit, Init, OutInv, Answered, Options, Left, Blocking

\* The exit code 0 is given only when every prompt was answered, and stored when that
\* was asked for, and nobody pressed Ctrl-C.
THEOREM OkIsAllDone == CliSpec => []OkMeansAllDone
<1>1. CliClientInv /\ OutInv => OkMeansAllDone
  BY DEF OutInv, OkMeansAllDone
<1> QED BY <1>1, CliInvStep, InitOut, PTL DEF CliSpec

\* However the command ends, at most the last answer is missing from what it recorded.
THEOREM AtMostLastIsLost == CliSpec => []LosesAtMostLast
<1>1. CliClientInv /\ OutInv => LosesAtMostLast
  BY DEF OutInv, LosesAtMostLast
<1> QED BY <1>1, CliInvStep, InitOut, PTL DEF CliSpec
=============================================================================
