---------------------------- MODULE VoiceClient ----------------------------
(***************************************************************************)
(* XaiVoiceClient and ResponseCollector (src/src/sentinel_core/            *)
(* xai_voice.py), run by one asyncio task, against the voice server and    *)
(* the network as that file uses them.                                     *)
(*                                                                         *)
(* pc is the await at which the task is suspended.  What happens between   *)
(* two awaits is one step: asyncio lets nothing else run in between.  A    *)
(* caller may cancel the call at an await of CancelPoints.                 *)
(***************************************************************************)
EXTENDS Naturals, FiniteSets, Sequences

CONSTANTS MaxTurn,        \* turns the caller runs
          MaxConv,        \* conversations the server opens
          MaxEvents,      \* max_response_events
          MaxText,        \* max_transcript_bytes, in units of one delta
          MaxAudio,       \* max_audio_bytes
          MaxInbox,       \* events in flight from the server
          Resumption,     \* config.resumption_enabled
          CancelPoints    \* awaits at which the caller may cancel

Awaits == {"opening", "configuring", "awaitReady", "closing",
           "sendUser", "sendCreate", "receiving"}

ASSUME LimitsAssumption ==
    /\ {MaxTurn, MaxConv, MaxEvents, MaxInbox} \subseteq Nat \ {0}
    /\ {MaxText, MaxAudio} \subseteq Nat
ASSUME OptionsAssumption == Resumption \in BOOLEAN /\ CancelPoints \subseteq Awaits

Turns == 1 .. MaxTurn
NoConv == 0
Convs == 1 .. MaxConv

VARIABLES
    pc,             \* "idle", or the await at which the call is suspended
    caller,         \* "enter": connect() called directly; "turn": by run_turn
    websocket,      \* self._websocket is not None
    sessionReady,   \* self._session_ready
    conversationId, \* self._conversation_id
    collector,      \* the ResponseCollector of the turn
    link,           \* whether the connection still carries messages
    inbox,          \* events sent by the server and not yet received
    attached,       \* the conversation the connection is attached to
    session,        \* the server's session.update: "none", "asked", "acked"
    items,          \* per conversation: prompts without a response.create
    owed,           \* per conversation: responses requested, as prompt sets
    reply,          \* the response the server is emitting
    convs,          \* conversations opened so far
    turn,           \* the last turn started
    outcome,        \* how each turn stands, as in VoiceTurns
    shown,          \* transcript handed to transcript_sink in this turn
    answer          \* per answered turn: what was returned, what was said

client == <<pc, caller, websocket, sessionReady, conversationId, collector>>
server == <<link, inbox, attached, session, items, owed, reply, convs>>
history == <<turn, outcome, shown, answer>>
vars == <<client, server, history>>

----------------------------------------------------------------------------
(* Events.  A malformed event stands for every event parse_server_event,   *)
(* _capture_conversation_id or the collector's field checks reject;        *)
(* response.incomplete for a response.done whose status is not completed.  *)

EventTypes == {"session.updated", "conversation.created", "response.created",
               "transcript.delta", "audio.delta", "audio.done",
               "response.done", "response.incomplete",
               "error", "malformed", "other"}

\* of: the prompts the event answers; text, audio: its amount, or, on a
\* response.done, the total the server emitted; conv: the id announced.
Content == [of : SUBSET Turns, text : Nat, audio : Nat]

Event(type, of, text, audio, conv) ==
    [type |-> type, of |-> of, text |-> text, audio |-> audio, conv |-> conv]

Plain(type) == Event(type, {}, 0, 0, NoConv)

Events == [type : EventTypes, of : SUBSET Turns, text : Nat, audio : Nat,
           conv : Convs \cup {NoConv}]

\* A response being emitted: its totals so far.
Replies == [on : BOOLEAN, text : Nat, audio : Nat]

NothingSaid == [of |-> {}, text |-> 0, audio |-> 0]

----------------------------------------------------------------------------
(* ResponseCollector *)

Collectors == [active : BOOLEAN, events : Nat, of : SUBSET Turns, text : Nat, audio : Nat]

FreshCollector ==
    [active |-> FALSE, events |-> 0, of |-> {}, text |-> 0, audio |-> 0]

\* Event types that need an active response.
WithinResponse == {"transcript.delta", "audio.delta", "audio.done",
                   "response.done", "response.incomplete"}

Rejects(c, e) ==
    \/ e.type = "malformed"
    \/ c.events + 1 > MaxEvents
    \/ e.type = "response.created" /\ c.active
    \/ e.type \in WithinResponse /\ ~c.active
    \/ e.type = "transcript.delta" /\ c.text + e.text > MaxText
    \/ e.type = "audio.delta" /\ c.audio + e.audio > MaxAudio
    \/ e.type \in {"response.done", "response.incomplete"} /\ c.audio % 2 = 1

Absorb(c, e) ==
    [active |-> c.active \/ e.type = "response.created",
     events |-> c.events + 1,
     of     |-> c.of \cup e.of,
     text   |-> IF e.type = "transcript.delta" THEN c.text + e.text ELSE c.text,
     audio  |-> IF e.type = "audio.delta" THEN c.audio + e.audio ELSE c.audio]

\* Bugs of consume: a delta over the limit is dropped and the response goes on;
\* only the events of a response are counted.
Mut_ConsumeTruncating(c, e) ==
    IF c.active /\ e.type = "transcript.delta" /\ c.text + e.text > MaxText
    THEN {[c EXCEPT !.events = @ + 1]}
    ELSE IF Rejects(c, e) THEN {} ELSE {Absorb(c, e)}
Mut_ConsumeUncounted(c, e) ==
    IF e.type = "other" THEN {c} ELSE IF Rejects(c, e) THEN {} ELSE {Absorb(c, e)}

\* The collector after e: none when consume raises.
Consume(c, e) == IF Rejects(c, e) THEN {} ELSE {Absorb(c, e)}

----------------------------------------------------------------------------
Init ==
    /\ pc = "idle" /\ caller = "enter"
    /\ websocket = FALSE /\ sessionReady = FALSE /\ conversationId = NoConv
    /\ collector = FreshCollector
    /\ link = "down" /\ inbox = <<>> /\ attached = NoConv /\ session = "none"
    /\ items = [k \in Convs |-> {}] /\ owed = [k \in Convs |-> <<>>]
    /\ reply = [on |-> FALSE, text |-> 0, audio |-> 0]
    /\ convs = 0
    /\ turn = 0 /\ outcome = [t \in Turns |-> "new"] /\ shown = 0
    /\ answer = [t \in Turns |-> [heard |-> NothingSaid, said |-> NothingSaid]]

----------------------------------------------------------------------------
(* Closing and failing *)

\* A bug: close() leaves the session marked ready.
Mut_CloseSocket == /\ websocket' = FALSE /\ UNCHANGED sessionReady
                   /\ link' = "down" /\ inbox' = <<>>
                   /\ UNCHANGED <<attached, session, items, owed, reply, convs>>
\* close(): the attributes are cleared before the best-effort close is awaited;
\* nobody reads the old connection afterwards.
CloseSocket == /\ websocket' = FALSE /\ sessionReady' = FALSE
               /\ link' = "down" /\ inbox' = <<>>
               /\ UNCHANGED <<attached, session, items, owed, reply, convs>>

\* The call returns or raises; only run_turn settles a turn.
Return(result) ==
    /\ pc' = "idle"
    /\ outcome' = IF caller = "turn" THEN [outcome EXCEPT ![turn] = result] ELSE outcome

\* A bug: a failed call keeps the conversation id for the next connection.
Mut_IdKept == conversationId
IdAfterFailure == NoConv

\* An exception handler: forget the conversation, close, raise.
FailCall == /\ conversationId' = IdAfterFailure
            /\ CloseSocket
            /\ Return("failed")
            /\ UNCHANGED <<caller, collector, turn, shown, answer>>

----------------------------------------------------------------------------
(* The caller: connect(), run_turn(prompt), close() *)

\* connect() returns at once when a websocket is set, ready or not.
CallConnect == /\ pc = "idle" /\ ~websocket
               /\ pc' = "opening" /\ caller' = "enter"
               /\ UNCHANGED <<websocket, sessionReady, conversationId, collector>>
               /\ UNCHANGED <<server, history>>

\* run_turn calls connect() when there is no websocket or it is not ready, and
\* connect() does nothing when there is one.
RunTurn == /\ pc = "idle" /\ turn < MaxTurn
           /\ turn' = turn + 1
           /\ outcome' = [outcome EXCEPT ![turn + 1] = "inflight"]
           /\ shown' = 0
           /\ pc' = IF websocket THEN "sendUser" ELSE "opening"
           /\ caller' = "turn"
           /\ collector' = FreshCollector
           /\ UNCHANGED <<websocket, sessionReady, conversationId, server, answer>>

\* close() by the caller, __aexit__ included: the conversation id stays.
CallClose == /\ pc = "idle" /\ websocket
             /\ CloseSocket
             /\ UNCHANGED <<pc, caller, conversationId, collector, history>>

----------------------------------------------------------------------------
(* _send_event *)

Sending == {"configuring", "sendUser", "sendCreate"}
AfterSend == [configuring |-> "awaitReady", sendUser |-> "sendCreate",
              sendCreate |-> "receiving"]

\* What the message being sent does to the server that gets it: session.update
\* asks for an acknowledgement, conversation.item.create adds the prompt, and
\* response.create makes the server owe a response to the items it holds.
DeliverConfiguration ==
    /\ pc = "configuring"
    /\ session' = "asked"
    /\ UNCHANGED <<items, owed>>
DeliverUserItem ==
    /\ pc = "sendUser"
    /\ items' = [items EXCEPT ![attached] = @ \cup {turn}]
    /\ UNCHANGED <<session, owed>>
DeliverResponseCreate ==
    /\ pc = "sendCreate"
    /\ owed' = [owed EXCEPT ![attached] = Append(@, items[attached])]
    /\ items' = [items EXCEPT ![attached] = {}]
    /\ UNCHANGED session
Deliver == /\ link = "up"
           /\ DeliverConfiguration \/ DeliverUserItem \/ DeliverResponseCreate
           /\ UNCHANGED <<link, inbox, attached, reply, convs>>

SendDelivered ==
    /\ Deliver
    /\ pc' = AfterSend[pc]
    /\ UNCHANGED <<caller, websocket, sessionReady, conversationId, collector, history>>

\* The local stack takes the message and the connection dies with it.
SendLost == /\ pc \in Sending
            /\ pc' = AfterSend[pc] /\ link' = "down"
            /\ UNCHANGED <<caller, websocket, sessionReady, conversationId, collector>>
            /\ UNCHANGED <<inbox, attached, session, items, owed, reply, convs, history>>

\* A bug: a send that fails reconnects and replays the turn.
Mut_SendRaises ==
    /\ pc \in Sending
    /\ pc' = "opening" /\ conversationId' = conversationId
    /\ CloseSocket
    /\ UNCHANGED <<caller, collector, history>>
\* _send_event raises: the connection is closed, or the event is oversized.
SendRaises == pc \in Sending /\ FailCall

----------------------------------------------------------------------------
(* connect() *)

\* The conversation of a new connection: the remembered one, or a new one.
Opened == IF conversationId # NoConv THEN conversationId ELSE convs + 1

OpenOk == /\ pc = "opening" /\ Opened <= MaxConv
          /\ pc' = "configuring"
          /\ websocket' = TRUE /\ link' = "up"
          /\ attached' = Opened
          /\ convs' = IF Opened > convs THEN Opened ELSE convs
          /\ inbox' \in {<<>>, <<Event("conversation.created", {}, 0, 0, Opened)>>}
          /\ session' = "none"
          /\ reply' = [on |-> FALSE, text |-> 0, audio |-> 0]
          /\ UNCHANGED <<caller, sessionReady, conversationId, collector>>
          /\ UNCHANGED <<items, owed, history>>

OpenFails == pc = "opening" /\ FailCall

\* _capture_conversation_id
Captured(e) == IF e.type = "conversation.created" /\ Resumption
               THEN e.conv ELSE conversationId

\* A bug: the first event of a connection is taken for its acknowledgement.
Mut_IsReady(e) == e.type \in {"session.updated", "conversation.created"}
IsReady(e) == e.type = "session.updated"

\* One event of _wait_for_session_ready.  A turn waiting for the connection
\* goes on to its first send.
AwaitReadyReceive ==
    /\ pc = "awaitReady" /\ inbox # <<>>
    /\ LET e == Head(inbox) IN
       IF e.type \in {"malformed", "error"}
       THEN FailCall
       ELSE /\ inbox' = Tail(inbox)
            /\ conversationId' = Captured(e)
            /\ sessionReady' = (sessionReady \/ IsReady(e))
            /\ pc' = IF ~IsReady(e) THEN "awaitReady"
                     ELSE IF caller = "turn" THEN "sendUser" ELSE "idle"
            /\ UNCHANGED <<caller, websocket, collector>>
            /\ UNCHANGED <<link, attached, session, items, owed, reply, convs, history>>

\* A bug: connect() waits for events without a timeout.
Mut_AwaitReadyTimeout == FALSE
\* _receive_event while connecting: the timeout closes and awaits the close
\* before it raises; a closed connection raises at once.
AwaitReadyTimeout == /\ pc = "awaitReady" /\ inbox = <<>>
                     /\ CloseSocket
                     /\ pc' = "closing"
                     /\ UNCHANGED <<caller, conversationId, collector, history>>
AwaitReadyDisconnected ==
    pc = "awaitReady" /\ inbox = <<>> /\ link = "down" /\ FailCall
ClosedOnTimeout == pc = "closing" /\ FailCall

----------------------------------------------------------------------------
(* run_turn() *)

\* build_user_turn_events refuses the prompt: nothing was sent, nothing changes.
RefusePrompt == /\ pc = "sendUser"
                /\ Return("failed")
                /\ UNCHANGED <<caller, websocket, sessionReady, conversationId, collector>>
                /\ UNCHANGED <<server, turn, shown, answer>>

\* transcript_sink is called with what consume accepted.
Emitted(e) == IF e.type = "transcript.delta" THEN e.text ELSE 0

\* A bug: the sink sees the event before the collector has accepted it.
Mut_ShownOnReject(e) == shown + Emitted(e)
ShownOnReject(e) == shown

\* An event the loop raises on, before or in consume.
ReceiveRejected ==
    /\ pc = "receiving" /\ inbox # <<>>
    /\ LET e == Head(inbox) IN
       /\ e.type = "error" \/ Consume(collector, e) = {}
       /\ shown' = ShownOnReject(e)
    /\ conversationId' = IdAfterFailure
    /\ CloseSocket
    /\ Return("failed")
    /\ UNCHANGED <<caller, collector, turn, answer>>

\* An event consume accepts that does not end the response.
ReceiveAccepted ==
    /\ pc = "receiving" /\ inbox # <<>>
    /\ LET e == Head(inbox) IN
       /\ e.type \notin {"error", "response.done", "response.incomplete"}
       /\ collector' \in Consume(collector, e)
       /\ conversationId' = Captured(e)
       /\ shown' = shown + Emitted(e)
    /\ inbox' = Tail(inbox)
    /\ UNCHANGED <<pc, caller, websocket, sessionReady>>
    /\ UNCHANGED <<link, attached, session, items, owed, reply, convs>>
    /\ UNCHANGED <<turn, outcome, answer>>

\* transcript_sink raises on a delta that was accepted.
SinkRaises ==
    /\ pc = "receiving" /\ inbox # <<>>
    /\ LET e == Head(inbox) IN
       /\ e.type = "transcript.delta"
       /\ collector' \in Consume(collector, e)
    /\ conversationId' = IdAfterFailure
    /\ CloseSocket
    /\ Return("failed")
    /\ UNCHANGED <<caller, turn, shown, answer>>

\* response.done with status "completed" or none: the turn is answered and
\* consume has reset the collector.
ReceiveDone ==
    /\ pc = "receiving" /\ inbox # <<>>
    /\ LET e == Head(inbox) IN
       /\ e.type = "response.done"
       /\ \E c \in Consume(collector, e) :
             answer' = [answer EXCEPT ![turn] =
                 [heard |-> [of |-> c.of, text |-> c.text, audio |-> c.audio],
                  said  |-> [of |-> e.of, text |-> e.text, audio |-> e.audio]]]
    /\ collector' = FreshCollector
    /\ inbox' = Tail(inbox)
    /\ Return("answered")
    /\ UNCHANGED <<caller, websocket, sessionReady, conversationId>>
    /\ UNCHANGED <<link, attached, session, items, owed, reply, convs, turn, shown>>

\* response.done with another status: consume resets, run_turn raises.
ReceiveIncomplete ==
    /\ pc = "receiving" /\ inbox # <<>>
    /\ LET e == Head(inbox) IN
       e.type = "response.incomplete" /\ Consume(collector, e) # {}
    /\ collector' = FreshCollector
    /\ conversationId' = IdAfterFailure
    /\ CloseSocket
    /\ Return("failed")
    /\ UNCHANGED <<caller, turn, shown, answer>>

\* _receive_event finds nothing for receive_timeout_seconds, or a dead
\* connection whose buffered events are used up.
ReceiveTimeout == pc = "receiving" /\ inbox = <<>> /\ FailCall

----------------------------------------------------------------------------
(* Cancellation by the caller *)

\* connect() and the sends handle Exception, which CancelledError is not: the
\* call ends with the attributes as they stand.  A message being sent may
\* already have reached the server.
CancelUnhandled ==
    /\ pc \in CancelPoints \ {"receiving"}
    /\ Return("failed")
    /\ UNCHANGED server \/ Deliver
    /\ UNCHANGED <<caller, websocket, sessionReady, conversationId, collector>>
    /\ UNCHANGED <<turn, shown, answer>>

\* The receive loop handles BaseException and shields the close.
CancelReceiving == pc = "receiving" /\ pc \in CancelPoints /\ FailCall

----------------------------------------------------------------------------
(* The server and the network *)

Emit(e) == /\ websocket /\ link = "up" /\ Len(inbox) < MaxInbox
           /\ inbox' = Append(inbox, e)
           /\ UNCHANGED <<link, attached, convs, client, history>>

ServerAcknowledges == /\ session = "asked" /\ session' = "acked"
                      /\ Emit(Plain("session.updated"))
                      /\ UNCHANGED <<items, owed, reply>>

Answering == Head(owed[attached])

ServerCreated ==
    /\ attached # NoConv /\ owed[attached] # <<>> /\ ~reply.on
    /\ Emit(Event("response.created", Answering, 0, 0, NoConv))
    /\ reply' = [on |-> TRUE, text |-> 0, audio |-> 0]
    /\ UNCHANGED <<session, items, owed>>

\* A response runs past each limit by at most one delta.
ServerText == /\ reply.on /\ reply.text <= MaxText
              /\ Emit(Event("transcript.delta", Answering, 1, 0, NoConv))
              /\ reply' = [reply EXCEPT !.text = @ + 1]
              /\ UNCHANGED <<session, items, owed>>

ServerAudio == /\ reply.on /\ reply.audio <= MaxAudio
               /\ \E n \in {1, 2} :
                     /\ Emit(Event("audio.delta", Answering, 0, n, NoConv))
                     /\ reply' = [reply EXCEPT !.audio = @ + n]
               /\ UNCHANGED <<session, items, owed>>

ServerAudioDone == /\ reply.on
                   /\ Emit(Event("audio.done", Answering, 0, 0, NoConv))
                   /\ UNCHANGED <<session, items, owed, reply>>

ServerDone == /\ reply.on
              /\ \E type \in {"response.done", "response.incomplete"} :
                    Emit(Event(type, Answering, reply.text, reply.audio, NoConv))
              /\ reply' = [reply EXCEPT !.on = FALSE]
              /\ owed' = [owed EXCEPT ![attached] = Tail(@)]
              /\ UNCHANGED <<session, items>>

ServerNoise == /\ \E type \in {"error", "malformed", "other"} : Emit(Plain(type))
               /\ UNCHANGED <<session, items, owed, reply>>

\* A delta outside any response.
ServerStrayText == /\ ~reply.on
                   /\ Emit(Event("transcript.delta", {}, 1, 0, NoConv))
                   /\ UNCHANGED <<session, items, owed, reply>>

\* The connection breaks; a suffix of what is in flight is lost.
LinkDrops == /\ link = "up" /\ link' = "down"
             /\ \E n \in 0 .. Len(inbox) : inbox' = SubSeq(inbox, 1, n)
             /\ UNCHANGED <<attached, session, items, owed, reply, convs>>
             /\ UNCHANGED <<client, history>>

----------------------------------------------------------------------------
Caller == CallConnect \/ RunTurn \/ CallClose

ClientStep ==
    \/ OpenOk \/ OpenFails \/ SendDelivered \/ SendLost \/ SendRaises
    \/ AwaitReadyReceive \/ AwaitReadyTimeout \/ AwaitReadyDisconnected
    \/ ClosedOnTimeout
    \/ RefusePrompt
    \/ ReceiveRejected \/ ReceiveAccepted \/ SinkRaises
    \/ ReceiveDone \/ ReceiveIncomplete \/ ReceiveTimeout

Cancel == CancelUnhandled \/ CancelReceiving

Server == ServerAcknowledges \/ ServerCreated \/ ServerText \/ ServerAudio
          \/ ServerAudioDone \/ ServerDone \/ ServerNoise \/ ServerStrayText

Next == Caller \/ ClientStep \/ Cancel \/ Server \/ LinkDrops

Spec == Init /\ [][Next]_vars

\* The event loop resumes a suspended call: an event, a dead connection or a
\* timeout always comes.
FairSpec == Spec /\ WF_vars(ClientStep)

----------------------------------------------------------------------------
(* Properties *)

Speaking == {"sendUser", "sendCreate", "receiving"}

\* The prompts a conversation holds without the client having their answer.
Held(k) ==
    IF k = NoConv THEN {} ELSE
    items[k]
    \cup (UNION {owed[k][i] : i \in DOMAIN owed[k]})
    \cup (IF k = attached THEN UNION {inbox[i].of : i \in DOMAIN inbox} ELSE {})

\* The conversation the next prompt would be spoken into.
Line == IF websocket THEN attached ELSE conversationId

ClientTypeOK ==
    /\ pc \in Awaits \cup {"idle"} /\ caller \in {"enter", "turn"}
    /\ websocket \in BOOLEAN /\ sessionReady \in BOOLEAN
    /\ conversationId \in Convs \cup {NoConv}
    /\ collector \in Collectors

ServerTypeOK ==
    /\ link \in {"up", "down"} /\ inbox \in Seq(Events)
    /\ attached \in Convs \cup {NoConv} /\ session \in {"none", "asked", "acked"}
    /\ items \in [Convs -> SUBSET Turns]
    /\ owed \in [Convs -> Seq(SUBSET Turns)]
    /\ reply \in Replies
    /\ convs \in Convs \cup {0}

HistoryTypeOK ==
    /\ turn \in Turns \cup {0}
    /\ outcome \in [Turns -> {"new", "inflight", "answered", "failed"}]
    /\ shown \in Nat
    /\ answer \in [Turns -> [heard : Content, said : Content]]

\* What ties the parts together: a ready session has a websocket, a websocket a
\* conversation, a turn in run_turn exists, and a response being emitted is owed.
Coherent ==
    /\ sessionReady => websocket
    /\ websocket => attached # NoConv
    /\ pc \in {"configuring", "awaitReady"} \cup Speaking => websocket
    /\ pc \in {"opening", "closing"} => ~websocket
    /\ caller = "turn" => turn # 0
    /\ pc \in Speaking => caller = "turn"
    /\ reply.on => attached # NoConv /\ owed[attached] # <<>>

\* The attributes of the client keep their types and agree with each other.
TypeOK == ClientTypeOK /\ ServerTypeOK /\ HistoryTypeOK /\ Coherent

\* A prompt is spoken only into a session the server has acknowledged: connect
\* waits for session.updated and run_turn connects unless the session is ready.
ReadyBeforePrompt == pc \in Speaking => session = "acked"

\* Between calls, neither the open connection nor the remembered conversation id
\* leads to a conversation in which an earlier turn is still unanswered: "Ambiguous
\* or invalid lifecycles are never reused" (run_turn).
IdleLineIsClear == pc = "idle" => Held(Line) = {}

\* run_turn returns the response to its own prompt: response ids are not matched
\* to prompts, so this rests on no earlier prompt being left in the conversation.
AnswersOwnPrompt ==
    \A t \in Turns : outcome[t] = "answered" => answer[t].heard.of = {t}

\* A prompt is spoken only when the response.done of every earlier one was received
\* or their conversation was left (xai-voice-agent-security-gate.md).
SpeaksOnClearLine == pc = "sendUser" => Held(attached) = {}

\* No turn is replayed: whatever fails or is cancelled, no prompt is ever held by
\* two conversations.
NoReplay == \A t \in Turns : Cardinality({k \in Convs : t \in Held(k)}) <= 1

\* What run_turn returns is the whole of what the server said: consume drops
\* nothing, reorders nothing and mixes nothing in; a response over a limit is
\* refused, never shortened.
AnswerIsComplete == \A t \in Turns : answer[t].heard = answer[t].said

\* The live transcript is what the collector accepted, never more: an event that
\* is refused, or over the limit, has not been shown before it is refused.
LiveTranscriptIsAccepted ==
    /\ shown <= MaxText
    /\ pc = "receiving" => shown = collector.text
    /\ turn > 0 /\ outcome[turn] = "answered" => shown = answer[turn].heard.text

\* A turn once spoken is settled: every await of run_turn after connect times out,
\* fails or delivers one of at most max_response_events events.
SpokenTurnSettles == (pc \in Speaking) ~> (pc = "idle")

\* connect() returns once the server stops talking: its receive timeout is the
\* only bound, no event limit applies.
ConnectSettlesWhenQuiet ==
    <>[][~Server]_vars => ((pc \in {"awaitReady", "closing"}) ~> (pc = "idle"))

\* The client implements VoiceTurns, the line being the prompt being spoken and
\* what the conversation used next still holds.
Unanswered == Held(Line) \cup (IF pc \in {"sendCreate", "receiving"} THEN {turn} ELSE {})
Abstract == INSTANCE VoiceTurns WITH line <- Unanswered
ImplementsVoiceTurns == Abstract!TurnsSpec
=============================================================================
