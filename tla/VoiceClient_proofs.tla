------------------------- MODULE VoiceClient_proofs -------------------------
(***************************************************************************)
(* Theorems about VoiceClient, for every value of its constants.           *)
(***************************************************************************)
EXTENDS VoiceClient, SequenceTheorems, FiniteSetTheorems, TLAPS

LEMMA ConstantsTyped ==
    /\ MaxTurn \in Nat \ {0} /\ MaxConv \in Nat \ {0}
    /\ Resumption \in BOOLEAN /\ CancelPoints \subseteq Awaits
    /\ 1 \in Convs /\ NoConv \in Nat
BY LimitsAssumption, OptionsAssumption DEF Convs, NoConv

\* A fresh collector, and what consume makes of a typed one, are typed.
LEMMA FreshCollectorTyped == FreshCollector \in Collectors
BY DEF FreshCollector, Collectors

LEMMA ConsumeTyped ==
    ASSUME NEW c \in Collectors, NEW e \in Events
    PROVE  Consume(c, e) \subseteq Collectors
<1>1. /\ c.events \in Nat /\ c.of \subseteq Turns /\ c.text \in Nat /\ c.audio \in Nat
      /\ e.of \subseteq Turns /\ e.text \in Nat /\ e.audio \in Nat
  BY DEF Collectors, Events
<1>2. /\ (c.active \/ e.type = "response.created") \in BOOLEAN
      /\ c.events + 1 \in Nat
      /\ c.of \cup e.of \in SUBSET Turns
  BY <1>1
<1>3. (IF e.type = "transcript.delta" THEN c.text + e.text ELSE c.text) \in Nat
  BY <1>1
<1>4. (IF e.type = "audio.delta" THEN c.audio + e.audio ELSE c.audio) \in Nat
  BY <1>1
<1>5. Absorb(c, e) \in Collectors
  BY <1>2, <1>3, <1>4 DEF Absorb, Collectors
<1> QED BY <1>5 DEF Consume

LEMMA PlainTyped ==
    ASSUME NEW type \in EventTypes
    PROVE  Plain(type) \in Events
BY DEF Plain, Event, Events, NoConv

\* The inbox stays a sequence of events under append, tail and truncation.
LEMMA InboxTyped ==
    ASSUME NEW s \in Seq(Events)
    PROVE  /\ \A e \in Events : Append(s, e) \in Seq(Events)
           /\ s # <<>> => Head(s) \in Events /\ Tail(s) \in Seq(Events)
           /\ \A n \in 0 .. Len(s) : SubSeq(s, 1, n) \in Seq(Events)
           /\ <<>> \in Seq(Events)
<1>1. \A n \in 0 .. Len(s) : SubSeq(s, 1, n) \in Seq(Events)
  OBVIOUS
<1> QED BY <1>1

LEMMA InitTyped == Init => TypeOK
<1> SUFFICES ASSUME Init PROVE TypeOK
  OBVIOUS
<1>1. ClientTypeOK
  BY FreshCollectorTyped DEF Init, ClientTypeOK
<1>2. ServerTypeOK
  <2>1. owed \in [Convs -> Seq(SUBSET Turns)]
    BY DEF Init
  <2>2. inbox \in Seq(Events)
    BY DEF Init
  <2> QED BY <2>1, <2>2 DEF Init, ServerTypeOK, Replies
<1>3. HistoryTypeOK
  <2>1. [heard |-> NothingSaid, said |-> NothingSaid] \in [heard : Content, said : Content]
    BY DEF NothingSaid, Content
  <2> QED BY <2>1 DEF Init, HistoryTypeOK
<1>4. Coherent
  BY DEF Init, Coherent, Speaking
<1> QED BY <1>1, <1>2, <1>3, <1>4 DEF TypeOK

\* What an exception handler leaves is typed.
LEMMA FailCallTyped ==
    ASSUME TypeOK, FailCall, pc # "idle"
    PROVE  TypeOK'
<1> USE DEF FailCall, CloseSocket, Return, IdAfterFailure
<1>1. ClientTypeOK'
  BY DEF TypeOK, ClientTypeOK
<1>2. ServerTypeOK'
  BY InboxTyped DEF TypeOK, ServerTypeOK
<1>3. HistoryTypeOK'
  BY DEF TypeOK, HistoryTypeOK, Coherent
<1>4. Coherent'
  BY DEF TypeOK, Coherent, Speaking
<1> QED BY <1>1, <1>2, <1>3, <1>4 DEF TypeOK

\* What the caller does between calls.
LEMMA CallerTyped ==
    ASSUME TypeOK, Caller
    PROVE  TypeOK'
<1> USE DEF TypeOK, client, server, history
<1>1. CASE CallConnect
  <2>1. ClientTypeOK'
    BY <1>1 DEF CallConnect, ClientTypeOK, Awaits
  <2>2. ServerTypeOK' /\ HistoryTypeOK'
    BY <1>1 DEF CallConnect, ServerTypeOK, HistoryTypeOK
  <2>3. Coherent'
    BY <1>1 DEF CallConnect, Coherent, Speaking
  <2> QED BY <2>1, <2>2, <2>3
<1>2. CASE RunTurn
  <2>1. ClientTypeOK'
    BY <1>2, FreshCollectorTyped DEF RunTurn, ClientTypeOK, Awaits
  <2>2. ServerTypeOK'
    BY <1>2 DEF RunTurn, ServerTypeOK
  <2>3. HistoryTypeOK'
    BY <1>2, ConstantsTyped DEF RunTurn, HistoryTypeOK, Turns
  <2>4. Coherent'
    BY <1>2, ConstantsTyped DEF RunTurn, Coherent, Speaking, HistoryTypeOK, Turns
  <2> QED BY <2>1, <2>2, <2>3, <2>4
<1>3. CASE CallClose
  <2>1. ClientTypeOK'
    BY <1>3 DEF CallClose, CloseSocket, ClientTypeOK
  <2>2. ServerTypeOK' /\ HistoryTypeOK'
    BY <1>3, InboxTyped DEF CallClose, CloseSocket, ServerTypeOK, HistoryTypeOK
  <2>3. Coherent'
    BY <1>3 DEF CallClose, CloseSocket, Coherent, Speaking
  <2> QED BY <2>1, <2>2, <2>3
<1> QED BY <1>1, <1>2, <1>3 DEF Caller

\* connect().
LEMMA ConnectTyped ==
    ASSUME TypeOK,
           OpenOk \/ OpenFails \/ AwaitReadyReceive
           \/ AwaitReadyTimeout \/ AwaitReadyDisconnected \/ ClosedOnTimeout
    PROVE  TypeOK'
<1> USE DEF TypeOK, client, server, history
<1>1. CASE OpenOk
  <2>1. Opened \in Convs
    BY <1>1, ConstantsTyped DEF OpenOk, Opened, ClientTypeOK, ServerTypeOK, Convs, NoConv
  <2>2. inbox' \in Seq(Events)
    <3>1. Event("conversation.created", {}, 0, 0, Opened) \in Events
      BY <2>1 DEF Event, Events, EventTypes
    <3>2. <<>> \in Seq(Events)
      OBVIOUS
    <3>3. \A x \in Events : <<x>> \in Seq(Events)
      OBVIOUS
    <3> QED BY <1>1, <3>1, <3>2, <3>3 DEF OpenOk
  <2>3. ClientTypeOK'
    BY <1>1 DEF OpenOk, ClientTypeOK, Awaits
  <2>4. ServerTypeOK'
    BY <1>1, <2>1, <2>2 DEF OpenOk, ServerTypeOK, Replies
  <2>5. HistoryTypeOK'
    BY <1>1 DEF OpenOk, HistoryTypeOK
  <2>6. Coherent'
    BY <1>1, <2>1 DEF OpenOk, Coherent, Speaking, Convs, NoConv
  <2> QED BY <2>3, <2>4, <2>5, <2>6
<1>2. CASE OpenFails
  BY <1>2, FailCallTyped DEF OpenFails, Sending
<1>4. CASE AwaitReadyReceive
  <2> DEFINE e == Head(inbox)
  <2>1. e \in Events /\ Tail(inbox) \in Seq(Events)
    BY <1>4, InboxTyped DEF AwaitReadyReceive, ServerTypeOK
  <2>2. CASE e.type \in {"malformed", "error"}
    BY <1>4, <2>2, FailCallTyped DEF AwaitReadyReceive
  <2>3. CASE e.type \notin {"malformed", "error"}
    <3>1. ClientTypeOK'
      <4>1. Captured(e) \in Convs \cup {NoConv}
        BY <2>1 DEF Captured, ClientTypeOK, Events
      <4>2. pc' \in {"awaitReady", "sendUser", "idle"}
        BY <1>4, <2>3 DEF AwaitReadyReceive
      <4>3. sessionReady' \in BOOLEAN
        BY <1>4, <2>3 DEF AwaitReadyReceive, IsReady
      <4> QED BY <1>4, <2>3, <4>1, <4>2, <4>3 DEF AwaitReadyReceive, ClientTypeOK, Awaits
    <3>2. ServerTypeOK'
      BY <1>4, <2>1, <2>3 DEF AwaitReadyReceive, ServerTypeOK
    <3>3. HistoryTypeOK'
      BY <1>4, <2>3 DEF AwaitReadyReceive, HistoryTypeOK
    <3>4. Coherent'
      BY <1>4, <2>3 DEF AwaitReadyReceive, Coherent, Speaking
    <3> QED BY <3>1, <3>2, <3>3, <3>4
  <2> QED BY <2>2, <2>3
<1>5. CASE AwaitReadyTimeout
  <2>1. ClientTypeOK'
    BY <1>5 DEF AwaitReadyTimeout, CloseSocket, Awaits, ClientTypeOK
  <2>2. ServerTypeOK'
    BY <1>5, InboxTyped DEF AwaitReadyTimeout, CloseSocket, Awaits, ServerTypeOK
  <2>3. HistoryTypeOK'
    BY <1>5 DEF AwaitReadyTimeout, CloseSocket, Awaits, HistoryTypeOK
  <2>4. Coherent'
    BY <1>5 DEF AwaitReadyTimeout, CloseSocket, Awaits, Coherent, Speaking
  <2> QED BY <2>1, <2>2, <2>3, <2>4
<1>6. CASE AwaitReadyDisconnected
  BY <1>6, FailCallTyped DEF AwaitReadyDisconnected, Sending
<1>7. CASE ClosedOnTimeout
  BY <1>7, FailCallTyped DEF ClosedOnTimeout, Sending
<1> QED BY <1>1, <1>2, <1>4, <1>5, <1>6, <1>7

\* A message delivered leaves the server typed, and a response owed if there was one.
LEMMA DeliverTyped ==
    ASSUME TypeOK, Deliver
    PROVE  ServerTypeOK' /\ (reply'.on => attached' # NoConv /\ owed'[attached'] # <<>>)
<1> USE DEF TypeOK, Deliver
<1>1. CASE DeliverConfiguration
  BY <1>1 DEF DeliverConfiguration, ServerTypeOK, Coherent
<1>2. CASE DeliverUserItem
  <2>1. attached \in Convs /\ turn \in Turns
    BY <1>2 DEF DeliverUserItem, ServerTypeOK, HistoryTypeOK, Coherent, Speaking
  <2>2. items[attached] \cup {turn} \in SUBSET Turns
    BY <2>1 DEF ServerTypeOK
  <2> QED BY <1>2, <2>1, <2>2 DEF DeliverUserItem, ServerTypeOK, Coherent
<1>3. CASE DeliverResponseCreate
  <2>1. attached \in Convs
    BY <1>3 DEF DeliverResponseCreate, ServerTypeOK, Coherent, Speaking
  <2>2. /\ Append(owed[attached], items[attached]) \in Seq(SUBSET Turns)
        /\ Append(owed[attached], items[attached]) # <<>>
    <3>1. owed[attached] \in Seq(SUBSET Turns) /\ items[attached] \in SUBSET Turns
      BY <2>1 DEF ServerTypeOK
    <3> QED BY <3>1, AppendProperties
  <2> QED BY <1>3, <2>1, <2>2 DEF DeliverResponseCreate, ServerTypeOK, Coherent
<1> QED BY <1>1, <1>2, <1>3

\* _send_event, and a prompt refused before it.
LEMMA SendTyped ==
    ASSUME TypeOK, RefusePrompt \/ SendDelivered \/ SendLost \/ SendRaises
    PROVE  TypeOK'
<1> USE DEF TypeOK, client, server, history
<1>1. CASE RefusePrompt
  <2>1. ClientTypeOK'
    BY <1>1 DEF RefusePrompt, Return, ClientTypeOK
  <2>2. ServerTypeOK'
    BY <1>1 DEF RefusePrompt, Return, ServerTypeOK
  <2>3. HistoryTypeOK'
    BY <1>1 DEF RefusePrompt, Return, HistoryTypeOK, Coherent, Speaking
  <2>4. Coherent'
    BY <1>1 DEF RefusePrompt, Return, Coherent, Speaking
  <2> QED BY <2>1, <2>2, <2>3, <2>4
<1>2. CASE SendDelivered
  <2>1. ClientTypeOK'
    BY <1>2 DEF SendDelivered, ClientTypeOK, Deliver, DeliverConfiguration, DeliverUserItem, DeliverResponseCreate, AfterSend, Awaits
  <2>2. ServerTypeOK'
    BY <1>2, DeliverTyped DEF SendDelivered, ServerTypeOK
  <2>3. HistoryTypeOK'
    BY <1>2 DEF SendDelivered, HistoryTypeOK
  <2>4. Coherent'
    BY <1>2, DeliverTyped DEF SendDelivered, Coherent, Speaking, Deliver, DeliverConfiguration, DeliverUserItem, DeliverResponseCreate, AfterSend
  <2> QED BY <2>1, <2>2, <2>3, <2>4
<1>3. CASE SendLost
  <2>1. ClientTypeOK'
    BY <1>3 DEF SendLost, Sending, AfterSend, ClientTypeOK, Awaits
  <2>2. ServerTypeOK'
    BY <1>3 DEF SendLost, Sending, AfterSend, ServerTypeOK
  <2>3. HistoryTypeOK'
    BY <1>3 DEF SendLost, Sending, AfterSend, HistoryTypeOK
  <2>4. Coherent'
    BY <1>3 DEF SendLost, Sending, AfterSend, Coherent, Speaking
  <2> QED BY <2>1, <2>2, <2>3, <2>4
<1>4. CASE SendRaises
  BY <1>4, FailCallTyped DEF SendRaises, Sending
<1> QED BY <1>1, <1>2, <1>3, <1>4

\* The receive loop of run_turn.
LEMMA ReceiveTyped ==
    ASSUME TypeOK,
           ReceiveRejected \/ ReceiveAccepted \/ SinkRaises \/ ReceiveDone
           \/ ReceiveIncomplete \/ ReceiveTimeout
    PROVE  TypeOK'
<1> USE DEF TypeOK, client, server, history
<1> DEFINE e == Head(inbox)
<1>a. inbox # <<>> => e \in Events /\ Tail(inbox) \in Seq(Events)
  BY InboxTyped DEF ServerTypeOK
<1>b. inbox # <<>> => /\ Captured(e) \in Convs \cup {NoConv}
                      /\ Emitted(e) \in Nat
                      /\ Consume(collector, e) \subseteq Collectors
  BY <1>a, ConsumeTyped DEF Captured, Emitted, ClientTypeOK, Events
<1>1. CASE ReceiveRejected
  <2>1. ClientTypeOK'
    BY <1>1 DEF ReceiveRejected, CloseSocket, Return, IdAfterFailure, ShownOnReject, ClientTypeOK
  <2>2. ServerTypeOK'
    BY <1>1, InboxTyped DEF ReceiveRejected, CloseSocket, Return, IdAfterFailure, ShownOnReject, ServerTypeOK
  <2>3. HistoryTypeOK'
    BY <1>1 DEF ReceiveRejected, CloseSocket, Return, IdAfterFailure, ShownOnReject, HistoryTypeOK, Coherent, Speaking
  <2>4. Coherent'
    BY <1>1 DEF ReceiveRejected, CloseSocket, Return, IdAfterFailure, ShownOnReject, Coherent, Speaking
  <2> QED BY <2>1, <2>2, <2>3, <2>4
<1>2. CASE ReceiveAccepted
  <2>1. ClientTypeOK'
    BY <1>2, <1>b DEF ReceiveAccepted, ClientTypeOK
  <2>2. ServerTypeOK'
    BY <1>2, <1>a DEF ReceiveAccepted, ServerTypeOK
  <2>3. HistoryTypeOK'
    BY <1>2, <1>b DEF ReceiveAccepted, HistoryTypeOK
  <2>4. Coherent'
    BY <1>2 DEF ReceiveAccepted, Coherent, Speaking
  <2> QED BY <2>1, <2>2, <2>3, <2>4
<1>3. CASE SinkRaises
  <2>1. ClientTypeOK'
    BY <1>3, <1>b DEF SinkRaises, CloseSocket, Return, IdAfterFailure, ClientTypeOK
  <2>2. ServerTypeOK'
    BY <1>3, InboxTyped DEF SinkRaises, CloseSocket, Return, IdAfterFailure, ServerTypeOK
  <2>3. HistoryTypeOK'
    BY <1>3 DEF SinkRaises, CloseSocket, Return, IdAfterFailure, HistoryTypeOK, Coherent, Speaking
  <2>4. Coherent'
    BY <1>3 DEF SinkRaises, CloseSocket, Return, IdAfterFailure, Coherent, Speaking
  <2> QED BY <2>1, <2>2, <2>3, <2>4
<1>4. CASE ReceiveDone
  <2>a. \A c \in Consume(collector, e) :
          [heard |-> [of |-> c.of, text |-> c.text, audio |-> c.audio],
           said  |-> [of |-> e.of, text |-> e.text, audio |-> e.audio]]
          \in [heard : Content, said : Content]
    BY <1>4, <1>a, <1>b DEF ReceiveDone, Collectors, Events, Content
  <2>1. ClientTypeOK'
    BY <1>4, FreshCollectorTyped DEF ReceiveDone, Return, ClientTypeOK
  <2>2. ServerTypeOK'
    BY <1>4, <1>a DEF ReceiveDone, Return, ServerTypeOK
  <2>3. HistoryTypeOK'
    BY <1>4, <2>a DEF ReceiveDone, Return, HistoryTypeOK, Coherent, Speaking
  <2>4. Coherent'
    BY <1>4 DEF ReceiveDone, Return, Coherent, Speaking
  <2> QED BY <2>1, <2>2, <2>3, <2>4
<1>5. CASE ReceiveIncomplete
  <2>1. ClientTypeOK'
    BY <1>5, FreshCollectorTyped DEF ReceiveIncomplete, CloseSocket, Return, IdAfterFailure, ClientTypeOK
  <2>2. ServerTypeOK'
    BY <1>5, InboxTyped DEF ReceiveIncomplete, CloseSocket, Return, IdAfterFailure, ServerTypeOK
  <2>3. HistoryTypeOK'
    BY <1>5 DEF ReceiveIncomplete, CloseSocket, Return, IdAfterFailure, HistoryTypeOK, Coherent, Speaking
  <2>4. Coherent'
    BY <1>5 DEF ReceiveIncomplete, CloseSocket, Return, IdAfterFailure, Coherent, Speaking
  <2> QED BY <2>1, <2>2, <2>3, <2>4
<1>6. CASE ReceiveTimeout
  BY <1>6, FailCallTyped DEF ReceiveTimeout
<1> QED BY <1>1, <1>2, <1>3, <1>4, <1>5, <1>6

\* Cancellation.
LEMMA CancelTyped ==
    ASSUME TypeOK, Cancel
    PROVE  TypeOK'
<1> USE DEF TypeOK, client, server, history
<1>1. CASE CancelUnhandled
  <2>1. ClientTypeOK'
    BY <1>1 DEF CancelUnhandled, Return, ClientTypeOK
  <2>2. ServerTypeOK'
    BY <1>1, DeliverTyped DEF CancelUnhandled, Return, ServerTypeOK
  <2>3. HistoryTypeOK'
    BY <1>1, ConstantsTyped DEF CancelUnhandled, Return, HistoryTypeOK, Coherent, Awaits, Speaking
  <2>4. Coherent'
    BY <1>1, DeliverTyped DEF CancelUnhandled, Return, Coherent, Speaking, Deliver
  <2> QED BY <2>1, <2>2, <2>3, <2>4
<1>2. CASE CancelReceiving
  BY <1>2, FailCallTyped DEF CancelReceiving
<1> QED BY <1>1, <1>2 DEF Cancel

\* The server and the network.  An event is emitted into the inbox and nothing
\* of the client moves.
LEMMA EmitTyped ==
    ASSUME TypeOK, NEW e \in Events, Emit(e), reply'.on => owed'[attached] # <<>>
    PROVE  /\ ClientTypeOK' /\ HistoryTypeOK' /\ Coherent'
           /\ inbox' \in Seq(Events) /\ attached \in Convs
           /\ UNCHANGED <<link, attached, convs>>
<1> USE DEF TypeOK, Emit, client, server, history
<1>1. ClientTypeOK'
  BY DEF ClientTypeOK
<1>2. HistoryTypeOK'
  BY DEF HistoryTypeOK
<1>3. Coherent'
  BY DEF Coherent, Speaking, ServerTypeOK
<1>4. inbox' \in Seq(Events)
  BY InboxTyped DEF ServerTypeOK
<1>5. attached \in Convs
  BY DEF ServerTypeOK, Coherent
<1> QED BY <1>1, <1>2, <1>3, <1>4, <1>5

\* While a response is being emitted its prompts are typed.
LEMMA AnsweringTyped ==
    ASSUME TypeOK, attached \in Convs, owed[attached] # <<>>
    PROVE  Answering \subseteq Turns /\ Tail(owed[attached]) \in Seq(SUBSET Turns)
<1>1. owed[attached] \in Seq(SUBSET Turns)
  BY DEF TypeOK, ServerTypeOK
<1> QED BY <1>1 DEF Answering

LEMMA ServerTyped ==
    ASSUME TypeOK, Server
    PROVE  TypeOK'
<1> USE DEF TypeOK
<1>1. CASE ServerAcknowledges
  <2>1. Plain("session.updated") \in Events
    BY PlainTyped DEF EventTypes
  <2>2. reply'.on => owed'[attached] # <<>>
    BY <1>1 DEF ServerAcknowledges, Coherent
  <2>3. Emit(Plain("session.updated"))
    BY <1>1 DEF ServerAcknowledges
  <2> QED BY <1>1, <2>1, <2>2, <2>3, EmitTyped DEF ServerAcknowledges, ServerTypeOK, Replies
<1>2. CASE ServerCreated
  <2>a. Answering \subseteq Turns
    BY <1>2, AnsweringTyped DEF ServerCreated, Coherent, ServerTypeOK
  <2>1. Event("response.created", Answering, 0, 0, NoConv) \in Events
    BY <2>a, ConstantsTyped DEF Event, Events, EventTypes, NoConv
  <2>2. reply'.on => owed'[attached] # <<>>
    BY <1>2 DEF ServerCreated, Coherent
  <2>3. Emit(Event("response.created", Answering, 0, 0, NoConv))
    BY <1>2 DEF ServerCreated
  <2> QED BY <1>2, <2>1, <2>2, <2>3, EmitTyped DEF ServerCreated, ServerTypeOK, Replies
<1>3. CASE ServerText
  <2>a. Answering \subseteq Turns
    BY <1>3, AnsweringTyped DEF ServerText, Coherent, ServerTypeOK
  <2>1. Event("transcript.delta", Answering, 1, 0, NoConv) \in Events
    BY <2>a, ConstantsTyped DEF Event, Events, EventTypes, NoConv
  <2>2. reply'.on => owed'[attached] # <<>>
    BY <1>3 DEF ServerText, Coherent
  <2>3. Emit(Event("transcript.delta", Answering, 1, 0, NoConv))
    BY <1>3 DEF ServerText
  <2>4. reply' \in Replies
    BY <1>3 DEF ServerText, ServerTypeOK, Replies
  <2>5. ServerTypeOK'
    BY <1>3, <2>1, <2>2, <2>3, <2>4, EmitTyped DEF ServerText, ServerTypeOK
  <2> QED BY <2>1, <2>2, <2>3, <2>5, EmitTyped
<1>4. CASE ServerAudio
  <2>a. Answering \subseteq Turns
    BY <1>4, AnsweringTyped DEF ServerAudio, Coherent, ServerTypeOK
  <2>1. PICK n \in {1, 2} : /\ Emit(Event("audio.delta", Answering, 0, n, NoConv))
                           /\ reply' = [reply EXCEPT !.audio = @ + n]
    BY <1>4 DEF ServerAudio
  <2>2. Event("audio.delta", Answering, 0, n, NoConv) \in Events
    BY <2>a DEF Event, Events, EventTypes, NoConv
  <2>3. reply'.on => owed'[attached] # <<>>
    BY <1>4, <2>1 DEF ServerAudio, Coherent, ServerTypeOK, Replies
  <2>4. reply' \in Replies
    <3>1. reply.audio + n \in Nat
      BY DEF ServerTypeOK, Replies
    <3> QED BY <2>1, <3>1 DEF ServerTypeOK, Replies
  <2>5. ServerTypeOK'
    BY <1>4, <2>1, <2>2, <2>3, <2>4, EmitTyped DEF ServerAudio, ServerTypeOK
  <2> QED BY <2>1, <2>2, <2>3, <2>5, EmitTyped
<1>5. CASE ServerAudioDone
  <2>a. Answering \subseteq Turns
    BY <1>5, AnsweringTyped DEF ServerAudioDone, Coherent, ServerTypeOK
  <2>1. Event("audio.done", Answering, 0, 0, NoConv) \in Events
    BY <2>a, ConstantsTyped DEF Event, Events, EventTypes, NoConv
  <2>2. reply'.on => owed'[attached] # <<>>
    BY <1>5 DEF ServerAudioDone, Coherent
  <2>3. Emit(Event("audio.done", Answering, 0, 0, NoConv))
    BY <1>5 DEF ServerAudioDone
  <2> QED BY <1>5, <2>1, <2>2, <2>3, EmitTyped DEF ServerAudioDone, ServerTypeOK, Replies
<1>6. CASE ServerDone
  <2>a. Answering \subseteq Turns
    BY <1>6, AnsweringTyped DEF ServerDone, Coherent, ServerTypeOK
  <2>1. PICK type \in {"response.done", "response.incomplete"} :
            Emit(Event(type, Answering, reply.text, reply.audio, NoConv))
    BY <1>6 DEF ServerDone
  <2>2. Event(type, Answering, reply.text, reply.audio, NoConv) \in Events
    BY <2>a DEF Event, Events, EventTypes, NoConv, ServerTypeOK, Replies
  <2>3. ~reply'.on
    BY <1>6 DEF ServerDone, ServerTypeOK, Replies
  <2>4. attached \in Convs /\ Tail(owed[attached]) \in Seq(SUBSET Turns)
    BY <1>6, AnsweringTyped DEF ServerDone, Coherent, ServerTypeOK
  <2> QED BY <1>6, <2>1, <2>2, <2>3, <2>4, EmitTyped DEF ServerDone, ServerTypeOK, Replies
<1>7. CASE ServerNoise
  <2>1. PICK type \in {"error", "malformed", "other"} : Emit(Plain(type))
    BY <1>7 DEF ServerNoise
  <2>2. Plain(type) \in Events
    BY PlainTyped DEF EventTypes
  <2>3. reply'.on => owed'[attached] # <<>>
    BY <1>7 DEF ServerNoise, Coherent
  <2> QED BY <1>7, <2>1, <2>2, <2>3, EmitTyped DEF ServerNoise, ServerTypeOK, Replies
<1>8. CASE ServerStrayText
  <2>1. Event("transcript.delta", {}, 1, 0, NoConv) \in Events
    BY DEF Event, Events, EventTypes, NoConv
  <2>2. reply'.on => owed'[attached] # <<>>
    BY <1>8 DEF ServerStrayText, Coherent
  <2>3. Emit(Event("transcript.delta", {}, 1, 0, NoConv))
    BY <1>8 DEF ServerStrayText
  <2> QED BY <1>8, <2>1, <2>2, <2>3, EmitTyped DEF ServerStrayText, ServerTypeOK, Replies
<1> QED BY <1>1, <1>2, <1>3, <1>4, <1>5, <1>6, <1>7, <1>8 DEF Server

LEMMA LinkDropsTyped ==
    ASSUME TypeOK, LinkDrops
    PROVE  TypeOK'
<1> USE DEF TypeOK, LinkDrops, client, history
<1>1. ClientTypeOK'
  BY DEF ClientTypeOK
<1>2. ServerTypeOK'
  BY InboxTyped DEF ServerTypeOK
<1>3. HistoryTypeOK'
  BY DEF HistoryTypeOK
<1>4. Coherent'
  BY DEF Coherent, Speaking
<1> QED BY <1>1, <1>2, <1>3, <1>4

LEMMA StepTyped == TypeOK /\ [Next]_vars => TypeOK'
<1> SUFFICES ASSUME TypeOK, [Next]_vars
             PROVE  TypeOK'
  OBVIOUS
<1>1. CASE Caller
  BY <1>1, CallerTyped
<1>2. CASE ClientStep
  BY <1>2, ConnectTyped, SendTyped, ReceiveTyped DEF ClientStep
<1>3. CASE Cancel
  BY <1>3, CancelTyped
<1>4. CASE Server
  BY <1>4, ServerTyped
<1>5. CASE LinkDrops
  BY <1>5, LinkDropsTyped
<1>6. CASE UNCHANGED vars
  BY <1>6 DEF vars, client, server, history, TypeOK, ClientTypeOK, ServerTypeOK,
              HistoryTypeOK, Coherent, Speaking
<1> QED BY <1>1, <1>2, <1>3, <1>4, <1>5, <1>6 DEF Next

\* The attributes of the client, the server and the history keep their types and
\* stay coherent in every behaviour, whatever is cancelled, lost or refused.
THEOREM TypeCorrect == Spec => []TypeOK
BY InitTyped, StepTyped, PTL DEF Spec

----------------------------------------------------------------------------
(* What steps do, for the invariants below.  Most ways out of a call are one:   *)
(* the conversation forgotten, the socket closed, the turn failed.              *)

Failure == /\ pc # "idle" /\ conversationId' = NoConv
           /\ CloseSocket
           /\ Return("failed")
           /\ UNCHANGED <<caller, turn, shown, answer>>

LEMMA FailuresFail ==
    ASSUME \/ OpenFails \/ SendRaises \/ AwaitReadyDisconnected \/ ClosedOnTimeout
           \/ ReceiveRejected \/ SinkRaises \/ ReceiveIncomplete \/ ReceiveTimeout
           \/ CancelReceiving
           \/ AwaitReadyReceive /\ Head(inbox).type \in {"malformed", "error"}
    PROVE  Failure
BY DEF OpenFails, SendRaises, Sending, AwaitReadyDisconnected, ClosedOnTimeout, ReceiveRejected,
       SinkRaises, ReceiveIncomplete, ReceiveTimeout, CancelReceiving, AwaitReadyReceive,
       FailCall, Failure, IdAfterFailure, ShownOnReject

\* An event of connect() that does not end the waiting for session.updated in a failure.
AwaitReadyGoesOn == AwaitReadyReceive /\ Head(inbox).type \notin {"malformed", "error"}

\* The steps, by what they do to the line.
LEMMA StepCases ==
    ASSUME Next
    PROVE  \/ CallConnect \/ RunTurn \/ CallClose
           \/ OpenOk \/ AwaitReadyGoesOn \/ AwaitReadyTimeout
           \/ SendDelivered \/ SendLost \/ RefusePrompt
           \/ ReceiveAccepted \/ ReceiveDone
           \/ Failure \/ CancelUnhandled
           \/ Server \/ LinkDrops
BY FailuresFail DEF Next, Caller, ClientStep, Cancel, AwaitReadyGoesOn

\* What the server emits belongs to the response it owes first.
Emission ==
    \E e \in Events :
       /\ Emit(e)
       /\ \/ e.of = {} /\ e.type \notin {"response.done", "response.incomplete"}
             /\ UNCHANGED <<items, owed>>
          \/ /\ attached \in Convs /\ owed[attached] # <<>> /\ e.of = Head(owed[attached])
             /\ e.type \in {"response.created", "transcript.delta", "audio.delta", "audio.done"}
             /\ UNCHANGED <<items, owed>>
          \/ /\ attached \in Convs /\ owed[attached] # <<>> /\ e.of = Head(owed[attached])
             /\ e.type \in {"response.done", "response.incomplete"}
             /\ owed' = [owed EXCEPT ![attached] = Tail(@)] /\ UNCHANGED items
       /\ e.type # "conversation.created"
       /\ \/ e.type = "session.updated" /\ session = "asked" /\ session' = "acked"
          \/ e.type # "session.updated" /\ UNCHANGED session

LEMMA ServerEmits ==
    ASSUME TypeOK, Server
    PROVE  Emission
<1> USE DEF TypeOK
<1>0. \A e : Emit(e) => attached \in Convs
  BY DEF Emit, ServerTypeOK, Coherent
<1>1. CASE ServerAcknowledges
  <2>1. Plain("session.updated") \in Events
    BY PlainTyped DEF EventTypes
  <2> QED BY <1>1, <2>1 DEF ServerAcknowledges, Emission, Plain, Event
<1>2. CASE ServerCreated \/ ServerText \/ ServerAudioDone
  <2>1. PICK type \in {"response.created", "transcript.delta", "audio.done"}, n \in {0, 1} :
            Emit(Event(type, Answering, n, 0, NoConv))
    BY <1>2 DEF ServerCreated, ServerText, ServerAudioDone
  <2>2. attached \in Convs /\ owed[attached] # <<>>
    BY <1>0, <1>2, <2>1 DEF ServerCreated, ServerText, ServerAudioDone, Coherent
  <2>3. Event(type, Answering, n, 0, NoConv) \in Events
    BY <2>2, AnsweringTyped DEF Event, Events, EventTypes, NoConv
  <2>4. UNCHANGED <<items, owed, session>>
    BY <1>2 DEF ServerCreated, ServerText, ServerAudioDone
  <2> QED BY <2>1, <2>2, <2>3, <2>4 DEF Emission, Event, Answering
<1>3. CASE ServerAudio
  <2>1. PICK n \in {1, 2} : Emit(Event("audio.delta", Answering, 0, n, NoConv))
    BY <1>3 DEF ServerAudio
  <2>2. attached \in Convs /\ owed[attached] # <<>>
    BY <1>0, <1>3, <2>1 DEF ServerAudio, Coherent
  <2>3. Event("audio.delta", Answering, 0, n, NoConv) \in Events
    BY <2>2, AnsweringTyped DEF Event, Events, EventTypes, NoConv
  <2> QED BY <1>3, <2>1, <2>2, <2>3 DEF ServerAudio, Emission, Event, Answering
<1>4. CASE ServerDone
  <2>1. PICK type \in {"response.done", "response.incomplete"} :
            Emit(Event(type, Answering, reply.text, reply.audio, NoConv))
    BY <1>4 DEF ServerDone
  <2>2. attached \in Convs /\ owed[attached] # <<>>
    BY <1>0, <1>4, <2>1 DEF ServerDone, Coherent
  <2>3. Event(type, Answering, reply.text, reply.audio, NoConv) \in Events
    BY <2>2, AnsweringTyped DEF Event, Events, EventTypes, NoConv, ServerTypeOK, Replies
  <2> QED BY <1>4, <2>1, <2>2, <2>3 DEF ServerDone, Emission, Event, Answering
<1>5. CASE ServerNoise
  <2>1. PICK type \in {"error", "malformed", "other"} : Emit(Plain(type))
    BY <1>5 DEF ServerNoise
  <2>2. Plain(type) \in Events
    BY PlainTyped DEF EventTypes
  <2> QED BY <1>5, <2>1, <2>2 DEF ServerNoise, Emission, Plain, Event
<1>6. CASE ServerStrayText
  <2>1. Event("transcript.delta", {}, 1, 0, NoConv) \in Events
    BY DEF Event, Events, EventTypes, NoConv
  <2> QED BY <1>6, <2>1 DEF ServerStrayText, Emission, Event
<1> QED BY <1>1, <1>2, <1>3, <1>4, <1>5, <1>6 DEF Server

\* The sequences that become of the inbox, element by element.
LEMMA SequenceShapes ==
    ASSUME NEW S, NEW s \in Seq(S)
    PROVE  /\ DOMAIN s = 1 .. Len(s) /\ Len(s) \in Nat
           /\ s # <<>> => /\ 1 \in DOMAIN s /\ Head(s) = s[1]
                          /\ DOMAIN Tail(s) = 1 .. Len(s) - 1
                          /\ \A i \in DOMAIN Tail(s) : i + 1 \in DOMAIN s /\ Tail(s)[i] = s[i + 1]
           /\ \A e \in S : /\ DOMAIN Append(s, e) = 1 .. Len(s) + 1
                           /\ \A i \in DOMAIN s : Append(s, e)[i] = s[i]
                           /\ Append(s, e)[Len(s) + 1] = e
           /\ \A n \in 0 .. Len(s) : /\ DOMAIN SubSeq(s, 1, n) = 1 .. n
                                     /\ \A i \in 1 .. n : SubSeq(s, 1, n)[i] = s[i]
<1>1. \A e \in S : /\ DOMAIN Append(s, e) = 1 .. Len(s) + 1
                   /\ \A i \in DOMAIN s : Append(s, e)[i] = s[i]
                   /\ Append(s, e)[Len(s) + 1] = e
  BY AppendProperties
<1>2. s # <<>> => /\ DOMAIN Tail(s) = 1 .. Len(s) - 1
                  /\ \A i \in DOMAIN Tail(s) : i + 1 \in DOMAIN s /\ Tail(s)[i] = s[i + 1]
  BY HeadTailProperties
<1>3. \A n \in 0 .. Len(s) : /\ DOMAIN SubSeq(s, 1, n) = 1 .. n
                             /\ \A i \in 1 .. n : SubSeq(s, 1, n)[i] = s[i]
  OBVIOUS
<1> QED BY <1>1, <1>2, <1>3

----------------------------------------------------------------------------
(* NoReplay.  A prompt enters a conversation by one message of the turn that    *)
(* speaks it, and otherwise only moves within that conversation or is lost.     *)

InFlight(t) == \E i \in DOMAIN inbox : t \in inbox[i].of

LEMMA InEither ==
    ASSUME NEW t, NEW A, NEW B, NEW C, NEW D, D = A \cup B \cup C
    PROVE  t \in D <=> t \in A \/ t \in B \/ t \in C
OBVIOUS

LEMMA HeldMeans ==
    ASSUME NEW k \in Convs, NEW t
    PROVE  t \in Held(k) <=> \/ t \in items[k]
                             \/ \E i \in DOMAIN owed[k] : t \in owed[k][i]
                             \/ k = attached /\ InFlight(t)
<1>1. k # NoConv
  BY DEF Convs, NoConv
<1>2. t \in UNION {owed[k][i] : i \in DOMAIN owed[k]} <=> \E i \in DOMAIN owed[k] : t \in owed[k][i]
  BY Zenon
<1>3. t \in UNION {inbox[i].of : i \in DOMAIN inbox} <=> InFlight(t)
  BY Zenon DEF InFlight
<1>4. t \in (IF k = attached THEN UNION {inbox[i].of : i \in DOMAIN inbox} ELSE {})
      <=> k = attached /\ InFlight(t)
  BY <1>3, Zenon
<1>5. Held(k) = items[k] \cup (UNION {owed[k][i] : i \in DOMAIN owed[k]})
                \cup (IF k = attached THEN UNION {inbox[i].of : i \in DOMAIN inbox} ELSE {})
  BY <1>1, Zenon DEF Held
<1>6. t \in Held(k) <=> \/ t \in items[k]
                       \/ t \in UNION {owed[k][i] : i \in DOMAIN owed[k]}
                       \/ t \in (IF k = attached THEN UNION {inbox[i].of : i \in DOMAIN inbox} ELSE {})
  BY <1>5, InEither
<1> QED BY <1>2, <1>4, <1>6, Zenon

LEMMA HeldMeansNext ==
    ASSUME NEW k \in Convs, NEW t
    PROVE  t \in Held(k)' <=> \/ t \in items'[k]
                              \/ \E i \in DOMAIN owed'[k] : t \in owed'[k][i]
                              \/ k = attached' /\ InFlight(t)'
<1>1. k # NoConv
  BY DEF Convs, NoConv
<1>2. t \in UNION {owed'[k][i] : i \in DOMAIN owed'[k]} <=> \E i \in DOMAIN owed'[k] : t \in owed'[k][i]
  BY Zenon
<1>3. t \in UNION {inbox'[i].of : i \in DOMAIN inbox'} <=> InFlight(t)'
  BY Zenon DEF InFlight
<1>4. t \in (IF k = attached' THEN UNION {inbox'[i].of : i \in DOMAIN inbox'} ELSE {})
      <=> k = attached' /\ InFlight(t)'
  BY <1>3, Zenon
<1>5. Held(k)' = items'[k] \cup (UNION {owed'[k][i] : i \in DOMAIN owed'[k]})
                \cup (IF k = attached' THEN UNION {inbox'[i].of : i \in DOMAIN inbox'} ELSE {})
  BY <1>1, Zenon DEF Held
<1>6. t \in Held(k)' <=> \/ t \in items'[k]
                       \/ t \in UNION {owed'[k][i] : i \in DOMAIN owed'[k]}
                       \/ t \in (IF k = attached' THEN UNION {inbox'[i].of : i \in DOMAIN inbox'} ELSE {})
  BY <1>5, InEither
<1> QED BY <1>2, <1>4, <1>6, Zenon

\* A step that leaves the conversations alone and receives, drops or forgets events.
LEMMA LosesEvents ==
    ASSUME TypeOK, NEW k \in Convs, NEW t, t \in Held(k)',
           UNCHANGED <<items, owed>>,
           \/ inbox' = <<>>
           \/ UNCHANGED <<inbox, attached>>
           \/ inbox # <<>> /\ inbox' = Tail(inbox) /\ UNCHANGED attached
           \/ UNCHANGED attached /\ \E n \in 0 .. Len(inbox) : inbox' = SubSeq(inbox, 1, n)
    PROVE  t \in Held(k)
<1>1. inbox \in Seq(Events)
  BY DEF TypeOK, ServerTypeOK
<1>2. k = attached' /\ InFlight(t)' => k = attached /\ InFlight(t)
  <2>1. CASE inbox' = <<>>
    BY <2>1 DEF InFlight
  <2>2. CASE UNCHANGED <<inbox, attached>>
    BY <2>2 DEF InFlight
  <2>3. CASE inbox # <<>> /\ inbox' = Tail(inbox) /\ UNCHANGED attached
    BY <1>1, <2>3, SequenceShapes DEF InFlight
  <2>4. CASE UNCHANGED attached /\ \E n \in 0 .. Len(inbox) : inbox' = SubSeq(inbox, 1, n)
    <3>1. PICK n \in 0 .. Len(inbox) : inbox' = SubSeq(inbox, 1, n)
      BY <2>4
    <3>2. \A i \in DOMAIN inbox' : i \in DOMAIN inbox /\ inbox'[i] = inbox[i]
      BY <1>1, <3>1, SequenceShapes
    <3> QED BY <2>4, <3>2 DEF InFlight
  <2> QED BY <2>1, <2>2, <2>3, <2>4
<1> QED BY <1>2, HeldMeans, HeldMeansNext

\* An emission moves prompts from what is owed to the connection.
LEMMA EmissionKeepsHeld ==
    ASSUME TypeOK, Emission, NEW k \in Convs, NEW t, t \in Held(k)'
    PROVE  t \in Held(k)
<1>1. PICK e \in Events :
        /\ Emit(e)
        /\ UNCHANGED items
        /\ \/ e.of = {} /\ UNCHANGED owed
           \/ /\ attached \in Convs /\ owed[attached] # <<>> /\ e.of = Head(owed[attached])
              /\ \/ UNCHANGED owed
                 \/ owed' = [owed EXCEPT ![attached] = Tail(@)]
  BY DEF Emission
<1>2. /\ inbox \in Seq(Events) /\ \A c \in Convs : owed[c] \in Seq(SUBSET Turns)
      /\ owed \in [Convs -> Seq(SUBSET Turns)]
  BY DEF TypeOK, ServerTypeOK
<1>3. inbox' = Append(inbox, e) /\ attached' = attached
  BY <1>1 DEF Emit
<1>4. ASSUME t \notin items'[k], k = attached, InFlight(t)'
      PROVE  InFlight(t) \/ \E i \in DOMAIN owed[k] : t \in owed[k][i]
  <2>1. PICK i \in DOMAIN inbox' : t \in inbox'[i].of
    BY <1>4 DEF InFlight
  <2>2. CASE i \in DOMAIN inbox
    BY <1>2, <1>3, <2>1, <2>2, SequenceShapes DEF InFlight
  <2>3. CASE i \notin DOMAIN inbox
    <3>1. t \in e.of
      BY <1>2, <1>3, <2>1, <2>3, SequenceShapes
    <3>2. t \in Head(owed[k]) /\ owed[k] # <<>>
      BY <1>1, <1>4, <3>1
    <3> QED BY <1>2, <3>2, SequenceShapes
  <2> QED BY <2>2, <2>3
<1>5. (\E i \in DOMAIN owed'[k] : t \in owed'[k][i]) => \E i \in DOMAIN owed[k] : t \in owed[k][i]
  <2>1. CASE owed'[k] = owed[k]
    BY <2>1
  <2>2. CASE owed'[k] # owed[k]
    <3>1. owed'[k] = Tail(owed[k]) /\ owed[k] # <<>>
      BY <1>1, <1>2, <2>2
    <3> QED BY <1>2, <3>1, SequenceShapes
  <2> QED BY <2>1, <2>2
<1> QED BY <1>1, <1>3, <1>4, <1>5, HeldMeans, HeldMeansNext

\* A message of a turn or of connect() that arrives.
LEMMA DeliverKeepsHeld ==
    ASSUME TypeOK, Deliver, NEW k \in Convs, NEW t, t \in Held(k)'
    PROVE  t \in Held(k) \/ (pc = "sendUser" /\ k = attached /\ t = turn)
<1>1. /\ UNCHANGED <<inbox, attached>>
      /\ pc \in Speaking => attached \in Convs
  BY DEF Deliver, TypeOK, Coherent, ServerTypeOK
<1>2. InFlight(t)' <=> InFlight(t)
  BY <1>1 DEF InFlight
<1>3. CASE DeliverConfiguration
  BY <1>1, <1>2, <1>3, HeldMeans, HeldMeansNext DEF DeliverConfiguration
<1>4. CASE DeliverUserItem
  <2>1. t \in items'[k] => t \in items[k] \/ (k = attached /\ t = turn)
    BY <1>1, <1>4 DEF DeliverUserItem, TypeOK, ServerTypeOK, Speaking
  <2> QED BY <1>1, <1>2, <1>4, <2>1, HeldMeans, HeldMeansNext DEF DeliverUserItem
<1>5. CASE DeliverResponseCreate
  <2>1. t \in items'[k] => t \in items[k]
    BY <1>1, <1>5 DEF DeliverResponseCreate, TypeOK, ServerTypeOK, Speaking
  <2>2. ASSUME NEW i \in DOMAIN owed'[k], t \in owed'[k][i]
        PROVE  t \in items[k] \/ \E j \in DOMAIN owed[k] : t \in owed[k][j]
    <3>1. CASE k # attached
      <4>1. owed'[k] = owed[k]
        BY <1>5, <3>1 DEF DeliverResponseCreate, TypeOK, ServerTypeOK
      <4> QED BY <2>2, <4>1
    <3>2. CASE k = attached
      <4>1. /\ owed[k] \in Seq(SUBSET Turns) /\ items[k] \in SUBSET Turns
            /\ owed'[k] = Append(owed[k], items[k])
        BY <1>5, <3>2 DEF DeliverResponseCreate, TypeOK, ServerTypeOK
      <4>2. CASE i \in DOMAIN owed[k]
        BY <2>2, <4>1, <4>2, SequenceShapes
      <4>3. CASE i \notin DOMAIN owed[k]
        <5>1. i = Len(owed[k]) + 1
          BY <4>1, <4>3, SequenceShapes
        <5> QED BY <2>2, <4>1, <5>1, SequenceShapes
      <4> QED BY <4>2, <4>3
    <3> QED BY <3>1, <3>2
  <2> QED BY <1>1, <1>2, <2>1, <2>2, HeldMeans, HeldMeansNext
<1> QED BY <1>3, <1>4, <1>5 DEF Deliver

\* Only the first message of a turn adds a prompt to what a conversation holds: the
\* turn's own, to the conversation attached.
LEMMA HeldGrowsByOwnPrompt ==
    ASSUME TypeOK, [Next]_vars, NEW k \in Convs, NEW t, t \in Held(k)', t \notin Held(k)
    PROVE  /\ pc = "sendUser" /\ k = attached /\ t = turn
           /\ pc' \in {"sendCreate", "idle"} /\ UNCHANGED <<turn, caller, attached>>
<1> USE DEF server, history, client
<1>1. CASE CallConnect \/ RunTurn \/ SendLost \/ RefusePrompt
  BY <1>1, LosesEvents DEF CallConnect, RunTurn, SendLost, RefusePrompt
<1>2. CASE CallClose \/ AwaitReadyTimeout \/ Failure
  BY <1>2, LosesEvents DEF CallClose, AwaitReadyTimeout, Failure, CloseSocket
<1>3. CASE AwaitReadyGoesOn \/ ReceiveAccepted \/ ReceiveDone
  <2>1. /\ inbox # <<>> /\ inbox' = Tail(inbox)
        /\ UNCHANGED <<attached, items, owed>>
    BY <1>3 DEF AwaitReadyGoesOn, AwaitReadyReceive, ReceiveAccepted, ReceiveDone
  <2> QED BY <2>1, LosesEvents
<1>4. CASE OpenOk
  <2>1. ~InFlight(t)'
    BY <1>4 DEF OpenOk, InFlight, Event
  <2>2. UNCHANGED <<items, owed>>
    BY <1>4 DEF OpenOk
  <2> QED BY <2>1, <2>2, HeldMeans, HeldMeansNext
<1>5. CASE SendDelivered
  <2>1. Deliver /\ UNCHANGED <<turn, caller, attached>> /\ pc' = AfterSend[pc]
    BY <1>5 DEF SendDelivered, Deliver
  <2> QED BY <2>1, DeliverKeepsHeld DEF AfterSend
<1>6. CASE CancelUnhandled
  <2>1. CASE UNCHANGED server
    BY <2>1, LosesEvents
  <2>2. CASE Deliver
    BY <1>6, <2>2, DeliverKeepsHeld DEF CancelUnhandled, Return, Deliver
  <2> QED BY <1>6, <2>1, <2>2 DEF CancelUnhandled
<1>7. CASE Server
  BY <1>7, ServerEmits, EmissionKeepsHeld
<1>8. CASE LinkDrops
  BY <1>8, LosesEvents DEF LinkDrops
<1>9. CASE UNCHANGED vars
  BY <1>9, LosesEvents DEF vars
<1> QED BY <1>1, <1>2, <1>3, <1>4, <1>5, <1>6, <1>7, <1>8, <1>9, StepCases

\* The awaits of a turn before its first message can be out.
Before == {"opening", "configuring", "awaitReady", "closing", "sendUser"}

\* A prompt is held by one conversation, and by none before its turn comes to speak it.
HeldInv ==
    /\ \A k \in Convs, t \in Turns : t > turn => t \notin Held(k)
    /\ caller = "turn" /\ pc \in Before => \A k \in Convs : turn \notin Held(k)
    /\ \A j, k \in Convs, t \in Turns : t \in Held(j) /\ t \in Held(k) => j = k

\* The turn goes on to the next one, or stays; a call of run_turn is started on a new one.
LEMMA TurnMoves ==
    ASSUME TypeOK, [Next]_vars
    PROVE  \/ turn' = turn /\ caller' = caller /\ (pc' \in Before => pc \in Before)
           \/ turn' = turn /\ caller' = "enter"
           \/ turn' = turn + 1 /\ RunTurn
<1> USE DEF server, history, client, Before
<1>1. CASE CallConnect \/ RunTurn \/ CallClose \/ Failure \/ RefusePrompt \/ ReceiveAccepted \/ ReceiveDone
  BY <1>1 DEF CallConnect, RunTurn, CallClose, Failure, RefusePrompt, ReceiveAccepted, ReceiveDone, Return
<1>2. CASE OpenOk \/ AwaitReadyGoesOn \/ AwaitReadyTimeout
  BY <1>2 DEF OpenOk, AwaitReadyGoesOn, AwaitReadyReceive, AwaitReadyTimeout
<1>3. CASE SendDelivered \/ SendLost
  BY <1>3 DEF SendDelivered, SendLost, Deliver, DeliverConfiguration, DeliverUserItem,
              DeliverResponseCreate, AfterSend, Sending
<1>4. CASE CancelUnhandled
  BY <1>4 DEF CancelUnhandled, Return
<1>5. CASE Server
  BY <1>5, ServerEmits DEF Emission, Emit
<1>6. CASE LinkDrops \/ UNCHANGED vars
  BY <1>6 DEF LinkDrops, vars
<1> QED BY <1>1, <1>2, <1>3, <1>4, <1>5, <1>6, StepCases

LEMMA HeldInvStep == TypeOK /\ HeldInv /\ [Next]_vars => HeldInv'
<1> SUFFICES ASSUME TypeOK, HeldInv, [Next]_vars PROVE HeldInv'
  OBVIOUS
<1>0. turn \in Nat /\ turn' \in {turn, turn + 1} /\ Turns \subseteq Nat
  BY TurnMoves DEF TypeOK, HistoryTypeOK, Turns
<1>1. ASSUME NEW k \in Convs, NEW t \in Turns, t > turn' PROVE t \notin Held(k)'
  BY <1>0, <1>1, HeldGrowsByOwnPrompt DEF HeldInv
<1>2. ASSUME caller' = "turn", pc' \in Before, NEW k \in Convs PROVE turn' \notin Held(k)'
  <2>1. turn' \notin Held(k)
    <3>1. CASE RunTurn /\ turn' = turn + 1
      <4>1. turn' \in Turns /\ turn' > turn
        BY <1>0, <3>1, ConstantsTyped DEF RunTurn, Turns, TypeOK, HistoryTypeOK
      <4>2. PICK u \in Turns : u = turn'
        BY <4>1
      <4> QED BY <4>1, <4>2 DEF HeldInv
    <3>2. CASE ~(RunTurn /\ turn' = turn + 1)
      BY <1>2, <3>2, TurnMoves DEF HeldInv
    <3> QED BY <3>1, <3>2
  <2> QED BY <1>2, <2>1, HeldGrowsByOwnPrompt DEF Before
<1>3. ASSUME NEW j \in Convs, NEW k \in Convs, NEW t \in Turns, t \in Held(j)', t \in Held(k)'
      PROVE  j = k
  <2>1. pc = "sendUser" => \A c \in Convs : turn \notin Held(c)
    BY DEF HeldInv, Before, TypeOK, Coherent, Speaking
  <2> QED BY <1>3, <2>1, HeldGrowsByOwnPrompt DEF HeldInv
<1> QED BY <1>1, <1>2, <1>3 DEF HeldInv

LEMMA InitHeld == Init => HeldInv
<1> SUFFICES ASSUME Init PROVE HeldInv
  OBVIOUS
<1>1. \A k \in Convs : \A t : t \notin Held(k)
  <2> SUFFICES ASSUME NEW k \in Convs, NEW t PROVE t \notin Held(k)
    OBVIOUS
  <2>1. items[k] = {} /\ owed[k] = <<>> /\ inbox = <<>>
    BY DEF Init
  <2> QED BY <2>1, HeldMeans DEF InFlight
<1> QED BY <1>1 DEF HeldInv

\* No prompt is ever held by two conversations, whatever is cancelled, lost or refused:
\* no path of the client speaks a turn again.
THEOREM NothingReplayed == Spec => []NoReplay
<1>1. TypeOK /\ HeldInv /\ [Next]_vars => (TypeOK /\ HeldInv)'
  BY StepTyped, HeldInvStep
<1>2. HeldInv => NoReplay
  <2> SUFFICES ASSUME HeldInv, NEW t \in Turns
               PROVE  Cardinality({k \in Convs : t \in Held(k)}) <= 1
    BY DEF NoReplay
  <2> DEFINE K == {k \in Convs : t \in Held(k)}
  <2>1. CASE K = {}
    BY <2>1, FS_EmptySet
  <2>2. CASE K # {}
    <3>1. PICK k \in Convs : t \in Held(k)
      BY <2>2
    <3>2. K = {k}
      BY <3>1 DEF HeldInv
    <3>3. Cardinality(K) = 1
      <4> HIDE DEF K
      <4> QED BY <3>2, FS_Singleton
    <3> QED BY <3>3
  <2> QED BY <2>1, <2>2
<1>3. Init => TypeOK /\ HeldInv
  BY InitTyped, InitHeld
<1> QED BY <1>1, <1>2, <1>3, PTL DEF Spec

----------------------------------------------------------------------------
(* The steps when no call is cancelled at an await of points, and the turn's own *)
(* bookkeeping, which every cancellation keeps.                                  *)

Uncancelled(points) ==
    \/ Caller \/ ClientStep \/ CancelReceiving \/ Server \/ LinkDrops \/ UNCHANGED vars
    \/ CancelUnhandled /\ pc \notin points

LEMMA UncancelledSteps ==
    ASSUME NEW points, CancelPoints \cap points = {}, [Next]_vars
    PROVE  Uncancelled(points)
BY DEF Next, Cancel, CancelUnhandled, Uncancelled

LEMMA UncancelledCases ==
    ASSUME NEW points, Uncancelled(points)
    PROVE  \/ CallConnect \/ RunTurn \/ CallClose
           \/ OpenOk \/ AwaitReadyGoesOn \/ AwaitReadyTimeout
           \/ SendDelivered \/ SendLost \/ RefusePrompt
           \/ ReceiveAccepted \/ ReceiveDone
           \/ Failure \/ (CancelUnhandled /\ pc \notin points)
           \/ Server \/ LinkDrops \/ UNCHANGED vars
BY FailuresFail DEF Uncancelled, Caller, ClientStep, AwaitReadyGoesOn

\* A turn in run_turn is in flight, on a fresh collector until it listens; no other
\* turn is, and turns are started in order.
TurnInv ==
    /\ caller = "turn" /\ pc \notin {"idle", "receiving"} => (collector = FreshCollector /\ shown = 0)
    /\ \A t \in Turns : outcome[t] = "new" <=> t > turn
    /\ \A t \in Turns : outcome[t] = "inflight" <=> (t = turn /\ pc # "idle" /\ caller = "turn")

\* Whatever ends a call settles the turn, and nothing else.
LEMMA ReturnSettles ==
    ASSUME TypeOK, TurnInv, NEW r \in {"failed", "answered"}, Return(r), pc # "idle",
           UNCHANGED <<caller, turn>>
    PROVE  TurnInv'
<1>1. turn \in Turns \cup {0} /\ outcome \in [Turns -> {"new", "inflight", "answered", "failed"}]
  BY DEF TypeOK, HistoryTypeOK
<1>2. turn \notin Turns => turn = 0
  BY <1>1
<1>3. CASE caller = "turn"
  <2>1. turn \in Turns
    BY <1>1, <1>3 DEF TypeOK, Coherent
  <2>2. outcome' = [outcome EXCEPT ![turn] = r]
    BY <1>3 DEF Return
  <2>3. outcome[turn] = "inflight"
    BY <1>3, <2>1 DEF TurnInv
  <2> QED BY <1>1, <1>3, <2>1, <2>2, <2>3 DEF TurnInv, Return
<1>4. CASE caller # "turn"
  BY <1>4 DEF TurnInv, Return
<1> QED BY <1>3, <1>4

LEMMA TurnInvStep == TypeOK /\ TurnInv /\ [Next]_vars => TurnInv'
<1> SUFFICES ASSUME TypeOK, TurnInv, [Next]_vars PROVE TurnInv'
  OBVIOUS
<1> USE DEF server, history, client
<1>1. CASE CallConnect
  BY <1>1 DEF CallConnect, TurnInv
<1>2. CASE RunTurn
  <2>1. /\ turn \in Nat /\ turn + 1 \in Turns /\ Turns \subseteq Nat
        /\ outcome \in [Turns -> {"new", "inflight", "answered", "failed"}]
    BY <1>2, ConstantsTyped DEF RunTurn, Turns, TypeOK, HistoryTypeOK
  <2>2. /\ turn' = turn + 1 /\ outcome' = [outcome EXCEPT ![turn + 1] = "inflight"]
        /\ pc = "idle" /\ pc' # "idle" /\ caller' = "turn"
        /\ collector' = FreshCollector /\ shown' = 0
    BY <1>2 DEF RunTurn
  <2>3. \A t \in Turns : outcome'[t] = "new" <=> t > turn'
    BY <2>1, <2>2 DEF TurnInv
  <2>4. \A t \in Turns : outcome'[t] = "inflight" <=> t = turn'
    BY <2>1, <2>2 DEF TurnInv
  <2> QED BY <2>2, <2>3, <2>4 DEF TurnInv
<1>3. CASE CallClose
  BY <1>3 DEF CallClose, CloseSocket, TurnInv
<1>4. CASE OpenOk \/ AwaitReadyTimeout
  BY <1>4 DEF OpenOk, AwaitReadyTimeout, CloseSocket, TurnInv
<1>5. CASE AwaitReadyGoesOn
  BY <1>5 DEF AwaitReadyGoesOn, AwaitReadyReceive, TurnInv
<1>6. CASE SendDelivered \/ SendLost
  <2>1. /\ pc # "idle" /\ pc' # "idle" /\ pc # "receiving"
        /\ UNCHANGED <<caller, collector, turn, outcome, shown>>
    BY <1>6 DEF SendDelivered, SendLost, Deliver, DeliverConfiguration, DeliverUserItem,
                DeliverResponseCreate, AfterSend, Sending
  <2> QED BY <2>1 DEF TurnInv
<1>7. CASE ReceiveAccepted
  BY <1>7 DEF ReceiveAccepted, TurnInv
<1>8. CASE ReceiveDone
  BY <1>8, ReturnSettles DEF ReceiveDone
<1>9. CASE Failure
  BY <1>9, ReturnSettles DEF Failure
<1>10. CASE RefusePrompt
  BY <1>10, ReturnSettles DEF RefusePrompt
<1>11. CASE CancelUnhandled
  BY <1>11, ReturnSettles, ConstantsTyped DEF CancelUnhandled, Awaits
<1>12. CASE Server
  BY <1>12, ServerEmits DEF Emission, Emit, TurnInv
<1>13. CASE LinkDrops \/ UNCHANGED vars
  BY <1>13 DEF LinkDrops, vars, TurnInv
<1> QED BY <1>1, <1>2, <1>3, <1>4, <1>5, <1>6, <1>7, <1>8, <1>9, <1>10, <1>11, <1>12, <1>13, StepCases

LEMMA InitTurn == Init => TurnInv
<1> SUFFICES ASSUME Init PROVE TurnInv
  OBVIOUS
<1>1. \A t \in Turns : t > 0 /\ t # 0
  BY DEF Turns
<1> QED BY <1>1 DEF Init, TurnInv

----------------------------------------------------------------------------
(* ReadyBeforePrompt *)

\* An acknowledgement is in flight only from a session that was acknowledged, and a
\* connection between calls is an acknowledged one.
AckInv ==
    /\ pc \in Speaking => session = "acked"
    /\ pc = "idle" /\ websocket => session = "acked"
    /\ pc = "configuring" => session = "none"
    /\ \A i \in DOMAIN inbox : inbox[i].type = "session.updated" => session = "acked"

\* What a step that receives, forgets or loses events leaves is a stretch of the inbox.
Shrinks == \E d \in Nat : \A i \in DOMAIN inbox' : /\ i \in Nat /\ i + d \in DOMAIN inbox
                                                   /\ inbox'[i] = inbox[i + d]

LEMMA InboxShrinks ==
    ASSUME TypeOK,
           \/ inbox' = <<>> \/ inbox' = inbox
           \/ inbox # <<>> /\ inbox' = Tail(inbox)
           \/ \E n \in 0 .. Len(inbox) : inbox' = SubSeq(inbox, 1, n)
    PROVE  Shrinks
<1>1. inbox \in Seq(Events)
  BY DEF TypeOK, ServerTypeOK
<1>2. CASE inbox' = <<>>
  BY <1>2 DEF Shrinks
<1>3. CASE inbox' = inbox
  <2>1. \A i \in DOMAIN inbox' : i \in Nat /\ i + 0 \in DOMAIN inbox /\ inbox'[i] = inbox[i + 0]
    BY <1>1, <1>3, SequenceShapes
  <2> QED BY <2>1 DEF Shrinks
<1>4. CASE inbox # <<>> /\ inbox' = Tail(inbox)
  <2>1. \A i \in DOMAIN inbox' : i \in Nat /\ i + 1 \in DOMAIN inbox /\ inbox'[i] = inbox[i + 1]
    BY <1>1, <1>4, SequenceShapes
  <2> QED BY <2>1 DEF Shrinks
<1>5. CASE \E n \in 0 .. Len(inbox) : inbox' = SubSeq(inbox, 1, n)
  <2>1. PICK n \in 0 .. Len(inbox) : inbox' = SubSeq(inbox, 1, n)
    BY <1>5
  <2>2. \A i \in DOMAIN inbox' : i \in Nat /\ i + 0 \in DOMAIN inbox /\ inbox'[i] = inbox[i + 0]
    BY <1>1, <2>1, SequenceShapes
  <2> QED BY <2>2 DEF Shrinks
<1> QED BY <1>2, <1>3, <1>4, <1>5

LEMMA AckInvStep ==
    ASSUME TypeOK, AckInv, Uncancelled({"configuring", "awaitReady"})
    PROVE  AckInv'
<1> USE DEF server, history, client
<1>0. inbox \in Seq(Events)
  BY DEF TypeOK, ServerTypeOK
<1>1. ASSUME Shrinks, session' = session
      PROVE  \A i \in DOMAIN inbox' : inbox'[i].type = "session.updated" => session' = "acked"
  BY <1>1 DEF Shrinks, AckInv
<1>2. CASE CallConnect \/ RunTurn
  BY <1>2 DEF CallConnect, RunTurn, AckInv, Speaking
<1>3. CASE CallClose \/ AwaitReadyTimeout \/ Failure
  BY <1>3 DEF CallClose, AwaitReadyTimeout, Failure, CloseSocket, Return, AckInv, Speaking
<1>4. CASE OpenOk
  BY <1>4 DEF OpenOk, AckInv, Speaking, Event
<1>5. CASE AwaitReadyGoesOn
  <2>1. /\ inbox # <<>> /\ inbox' = Tail(inbox) /\ session' = session
        /\ pc' \in {"awaitReady", "sendUser", "idle"}
        /\ pc' # "awaitReady" => Head(inbox).type = "session.updated"
    BY <1>5 DEF AwaitReadyGoesOn, AwaitReadyReceive, IsReady
  <2>2. Head(inbox).type = "session.updated" => session = "acked"
    BY <1>0, <2>1, SequenceShapes DEF AckInv
  <2> QED BY <1>1, <2>1, <2>2, InboxShrinks DEF AckInv, Speaking
<1>6. CASE SendDelivered
  <2>1. CASE pc = "configuring"
    <3>1. pc' = "awaitReady" /\ UNCHANGED inbox
      BY <1>6, <2>1 DEF SendDelivered, Deliver, AfterSend
    <3> QED BY <2>1, <3>1 DEF AckInv, Speaking
  <2>2. CASE pc \in {"sendUser", "sendCreate"}
    <3>1. UNCHANGED <<inbox, session>> /\ pc' \in Speaking
      BY <1>6, <2>2 DEF SendDelivered, Deliver, DeliverConfiguration, DeliverUserItem,
                        DeliverResponseCreate, AfterSend, Speaking
    <3> QED BY <2>2, <3>1 DEF AckInv, Speaking
  <2> QED BY <1>6, <2>1, <2>2 DEF SendDelivered, Deliver, DeliverConfiguration, DeliverUserItem,
                                  DeliverResponseCreate
<1>7. CASE SendLost
  BY <1>7 DEF SendLost, AfterSend, Sending, AckInv, Speaking
<1>8. CASE RefusePrompt
  BY <1>8 DEF RefusePrompt, Return, AckInv, Speaking
<1>9. CASE ReceiveAccepted \/ ReceiveDone
  <2>1. /\ inbox # <<>> /\ inbox' = Tail(inbox) /\ session' = session
        /\ pc = "receiving" /\ pc' \in {"receiving", "idle"}
    BY <1>9 DEF ReceiveAccepted, ReceiveDone, Return
  <2> QED BY <1>1, <2>1, InboxShrinks DEF AckInv, Speaking
<1>10. CASE CancelUnhandled /\ pc \notin {"configuring", "awaitReady"}
  <2>1. pc \in {"opening", "closing", "sendUser", "sendCreate"} /\ pc' = "idle"
        /\ UNCHANGED <<inbox, session, websocket>>
    BY <1>10, ConstantsTyped DEF CancelUnhandled, Return, Deliver, DeliverConfiguration,
        DeliverUserItem, DeliverResponseCreate, Awaits
  <2> QED BY <2>1 DEF AckInv, Speaking, TypeOK, Coherent
<1>11. CASE Server
  <2>1. PICK e \in Events :
            /\ inbox' = Append(inbox, e) /\ UNCHANGED <<pc, websocket>>
            /\ \/ e.type = "session.updated" /\ session = "asked" /\ session' = "acked"
               \/ e.type # "session.updated" /\ UNCHANGED session
    BY <1>11, ServerEmits DEF Emission, Emit
  <2>2. \A i \in DOMAIN inbox' : inbox'[i].type = "session.updated" => session' = "acked"
    <3>1. SUFFICES ASSUME NEW i \in DOMAIN inbox', inbox'[i].type = "session.updated"
                   PROVE  session' = "acked"
      OBVIOUS
    <3>2. CASE i \in DOMAIN inbox
      BY <1>0, <2>1, <3>1, <3>2, SequenceShapes DEF AckInv
    <3>3. CASE i \notin DOMAIN inbox
      BY <1>0, <2>1, <3>1, <3>3, SequenceShapes
    <3> QED BY <3>2, <3>3
  <2> QED BY <2>1, <2>2 DEF AckInv, Speaking
<1>12. CASE LinkDrops
  BY <1>1, <1>12, InboxShrinks DEF LinkDrops, AckInv, Speaking
<1>13. CASE UNCHANGED vars
  BY <1>13 DEF vars, AckInv, Speaking
<1> QED BY <1>2, <1>3, <1>4, <1>5, <1>6, <1>7, <1>8, <1>9, <1>10, <1>11, <1>12, <1>13, UncancelledCases

LEMMA InitAck == Init => AckInv
BY DEF Init, AckInv, Speaking

\* When no call is cancelled between the opening of the connection and its
\* acknowledgement, no prompt is spoken into a session the server has not acknowledged.
THEOREM PromptsWaitForReady ==
    ASSUME CancelPoints \cap {"configuring", "awaitReady"} = {}
    PROVE  Spec => []ReadyBeforePrompt
<1>1. TypeOK /\ AckInv /\ [Next]_vars => (TypeOK /\ AckInv)'
  BY StepTyped, AckInvStep, UncancelledSteps
<1>2. AckInv => ReadyBeforePrompt
  BY DEF AckInv, ReadyBeforePrompt
<1>3. Init => TypeOK /\ AckInv
  BY InitTyped, InitAck
<1> QED BY <1>1, <1>2, <1>3, PTL DEF Spec

----------------------------------------------------------------------------
(* The line.  Nothing of a response is under way in a conversation k.           *)

Final(e) == e.type \in {"response.done", "response.incomplete"}
Quiet(e) == e.of = {} /\ ~Final(e)
Clear(k) == /\ items[k] = {} /\ owed[k] = <<>>
            /\ k = attached => \A i \in DOMAIN inbox : Quiet(inbox[i])

\* The conversation remembered is the one attached last, and those not opened yet
\* hold nothing.
ConvInv ==
    /\ conversationId \in {NoConv, attached} /\ attached <= convs
    /\ \A i \in DOMAIN inbox : inbox[i].type = "conversation.created" => inbox[i].conv = attached
    /\ \A k \in Convs : k > convs => items[k] = {} /\ owed[k] = <<>>

\* The first message of the turn is out, and the second has yet to follow.
HalfSpoken ==
    /\ owed[attached] = <<>> /\ items[attached] \subseteq {turn}
    /\ link = "up" => items[attached] = {turn}
    /\ \A i \in DOMAIN inbox : Quiet(inbox[i])

\* The end of the response is the last thing of this turn.
Ended(i) == /\ items[attached] = {} /\ owed[attached] = <<>>
            /\ inbox[i].of = {turn}
            /\ \A j \in DOMAIN inbox : j > i => Quiet(inbox[j])

\* Both are out: nothing but the response to this prompt is under way.
Spoken ==
    /\ items[attached] \subseteq {turn} /\ owed[attached] \in {<<>>, <<{turn}>>}
    /\ owed[attached] # <<>> => items[attached] = {} /\ \A i \in DOMAIN inbox : ~Final(inbox[i])
    /\ \A i \in DOMAIN inbox : /\ inbox[i].of \subseteq {turn}
                               /\ Final(inbox[i]) => Ended(i)
    /\ collector.of \subseteq {turn}

\* The line is clear whenever no turn is being spoken.
LineInv ==
    /\ ConvInv
    /\ pc \notin {"sendCreate", "receiving"} /\ Line # NoConv => Clear(Line)
    /\ pc = "sendCreate" => HalfSpoken
    /\ pc = "receiving" => Spoken

\* What losing events does to each part.
LEMMA ShrunkConvInv ==
    ASSUME ConvInv, Shrinks, UNCHANGED <<attached, convs, items, owed>>,
           conversationId' \in {NoConv, attached}
    PROVE  ConvInv'
BY DEF ConvInv, Shrinks

LEMMA ShrunkClear ==
    ASSUME NEW k, Clear(k), Shrinks, UNCHANGED <<attached, items, owed>>
    PROVE  Clear(k)'
BY DEF Clear, Shrinks, Quiet, Final

LEMMA ShrunkHalfSpoken ==
    ASSUME HalfSpoken, Shrinks, UNCHANGED <<attached, items, owed, turn>>, link' \in {link, "down"}
    PROVE  HalfSpoken'
BY DEF HalfSpoken, Shrinks, Quiet, Final

LEMMA ShrunkSpoken ==
    ASSUME TypeOK, Spoken, Shrinks, UNCHANGED <<attached, items, owed, turn>>,
           collector'.of \subseteq {turn}
    PROVE  Spoken'
<1>1. PICK d \in Nat : \A i \in DOMAIN inbox' : /\ i \in Nat /\ i + d \in DOMAIN inbox
                                                /\ inbox'[i] = inbox[i + d]
  BY DEF Shrinks
<1>2. ASSUME NEW i \in DOMAIN inbox'
      PROVE  /\ inbox'[i].of \subseteq {turn}
             /\ Final(inbox[i])' => Ended(i)'
  <2>1. /\ i \in Nat /\ i + d \in DOMAIN inbox /\ inbox'[i] = inbox[i + d]
    BY <1>1
  <2>2. Final(inbox'[i]) => Ended(i + d)
    BY <2>1 DEF Spoken, Final
  <2>3. \A j \in DOMAIN inbox' : j > i => j + d > i + d
    BY <1>1, <2>1
  <2>4. Ended(i + d) => Ended(i)'
    BY <1>1, <2>1, <2>3 DEF Ended, Quiet, Final
  <2> QED BY <2>1, <2>2, <2>4 DEF Spoken, Final
<1>3. owed[attached] # <<>> => \A i \in DOMAIN inbox' : ~Final(inbox'[i])
  BY <1>1 DEF Spoken, Final
<1> QED BY <1>2, <1>3 DEF Spoken, Final

\* The line at the calls: the client only changes the side it looks at.
LEMMA LineOutsideTurns ==
    ASSUME TypeOK, LineInv, CallConnect \/ RunTurn \/ CallClose \/ OpenOk \/ AwaitReadyTimeout
    PROVE  LineInv'
<1> USE DEF server, history, client
<1>1. CASE CallConnect \/ RunTurn
  <2>1. /\ UNCHANGED <<server, websocket, conversationId>> /\ Line' = Line
        /\ pc = "idle" /\ pc' \notin {"sendCreate", "receiving"}
    BY <1>1 DEF CallConnect, RunTurn, Line
  <2>2. ConvInv'
    BY <2>1 DEF LineInv, ConvInv
  <2>3. Line # NoConv => Clear(Line)'
    BY <2>1 DEF LineInv, Clear, Quiet, Final
  <2> QED BY <2>1, <2>2, <2>3 DEF LineInv
<1>2. CASE CallClose \/ AwaitReadyTimeout
  <2>1. /\ CloseSocket /\ conversationId' = conversationId /\ websocket
        /\ pc \in {"idle", "awaitReady"} /\ pc' \notin {"sendCreate", "receiving"}
    BY <1>2 DEF CallClose, AwaitReadyTimeout, TypeOK, Coherent
  <2>2. Shrinks /\ UNCHANGED <<attached, convs, items, owed>>
    BY <2>1, InboxShrinks DEF CloseSocket
  <2>3. ConvInv'
    BY <2>1, <2>2, ShrunkConvInv DEF LineInv, ConvInv
  <2>4. Line = attached /\ Line' = conversationId
    BY <2>1 DEF CloseSocket, Line
  <2>5. conversationId # NoConv => Clear(conversationId)
    BY <2>1, <2>4 DEF LineInv, ConvInv
  <2>6. Line' # NoConv => Clear(Line)'
    BY <2>1, <2>2, <2>4, <2>5 DEF Clear, Shrinks, Quiet, Final
  <2> QED BY <2>1, <2>3, <2>6 DEF LineInv
<1>3. CASE OpenOk
  <2>1. /\ pc = "opening" /\ ~websocket /\ Line = conversationId
        /\ websocket' /\ Line' = attached' /\ attached' = Opened /\ Opened <= MaxConv
        /\ convs' = IF Opened > convs THEN Opened ELSE convs
        /\ UNCHANGED <<items, owed, conversationId>>
        /\ inbox' \in {<<>>, <<Event("conversation.created", {}, 0, 0, Opened)>>}
        /\ pc' = "configuring"
    BY <1>3 DEF OpenOk, TypeOK, Coherent, Line
  <2>2. /\ convs \in Nat /\ conversationId \in Nat
        /\ Opened \in Nat /\ Opened # NoConv /\ conversationId \in {NoConv, Opened}
    BY ConstantsTyped DEF Opened, TypeOK, ClientTypeOK, ServerTypeOK, Convs, NoConv
  <2>3. \A i \in DOMAIN inbox' : /\ Quiet(inbox'[i])
                                 /\ inbox'[i].type = "conversation.created" => inbox'[i].conv = Opened
    BY <2>1 DEF Event, Quiet, Final
  <2>4. Opened \in Convs
    BY <2>1, <2>2, ConstantsTyped DEF Convs, NoConv
  <2>5. items[Opened] = {} /\ owed[Opened] = <<>>
    <3>1. CASE conversationId # NoConv
      BY <2>1, <3>1 DEF LineInv, Clear, Opened
    <3>2. CASE conversationId = NoConv
      BY <2>2, <2>4, <3>2 DEF LineInv, ConvInv, Opened
    <3> QED BY <3>1, <3>2
  <2>6. ConvInv'
    <3>1. attached' <= convs' /\ convs <= convs' /\ convs' \in Nat
      BY <2>1, <2>2
    <3>2. \A k \in Convs : k > convs' => k > convs
      BY <2>2, <3>1 DEF Convs
    <3> QED BY <2>1, <2>2, <2>3, <3>1, <3>2 DEF LineInv, ConvInv
  <2>7. Clear(Line)'
    BY <2>1, <2>3, <2>5 DEF Clear, Quiet, Final
  <2> QED BY <2>1, <2>6, <2>7 DEF LineInv
<1> QED BY <1>1, <1>2, <1>3

\* The line at the events received, and at the ends of calls.
LEMMA LineAtEvents ==
    ASSUME TypeOK, LineInv,
           AwaitReadyGoesOn \/ RefusePrompt \/ ReceiveAccepted \/ ReceiveDone \/ Failure \/ LinkDrops
    PROVE  LineInv'
<1> USE DEF server, history, client
<1>0. inbox \in Seq(Events)
  BY DEF TypeOK, ServerTypeOK
<1>1. CASE AwaitReadyGoesOn
  <2>1. /\ pc = "awaitReady" /\ websocket /\ websocket' /\ inbox # <<>> /\ inbox' = Tail(inbox)
        /\ conversationId' = Captured(Head(inbox))
        /\ UNCHANGED <<attached, items, owed, convs>>
        /\ pc' \notin {"sendCreate", "receiving"}
    BY <1>1 DEF AwaitReadyGoesOn, AwaitReadyReceive, TypeOK, Coherent
  <2>2. Shrinks
    BY <2>1, InboxShrinks
  <2>3. conversationId' \in {NoConv, attached}
    BY <1>0, <2>1, SequenceShapes DEF Captured, LineInv, ConvInv
  <2>4. Line = attached /\ Line' = attached /\ attached # NoConv
    BY <2>1 DEF Line, TypeOK, Coherent
  <2>5. Clear(attached)
    BY <2>1, <2>4 DEF LineInv
  <2>6. Clear(Line)'
    BY <2>1, <2>2, <2>4, <2>5 DEF Clear, Shrinks, Quiet, Final
  <2> QED BY <2>1, <2>2, <2>3, <2>6, ShrunkConvInv DEF LineInv
<1>2. CASE RefusePrompt
  <2>1. /\ UNCHANGED <<server, websocket, conversationId>> /\ Line' = Line
        /\ pc = "sendUser" /\ pc' = "idle"
    BY <1>2 DEF RefusePrompt, Return, Line
  <2>2. ConvInv'
    BY <2>1 DEF LineInv, ConvInv
  <2>3. Line # NoConv => Clear(Line)'
    BY <2>1 DEF LineInv, Clear, Quiet, Final
  <2> QED BY <2>1, <2>2, <2>3 DEF LineInv
<1>3. CASE ReceiveAccepted
  <2> DEFINE e == Head(inbox)
  <2>1. /\ pc = "receiving" /\ pc' = "receiving" /\ inbox # <<>> /\ inbox' = Tail(inbox)
        /\ conversationId' = Captured(e) /\ collector' \in Consume(collector, e)
        /\ UNCHANGED <<attached, items, owed, convs, turn>>
    BY <1>3 DEF ReceiveAccepted
  <2>2. Shrinks
    BY <2>1, InboxShrinks
  <2>3. conversationId' \in {NoConv, attached}
    BY <1>0, <2>1, SequenceShapes DEF Captured, LineInv, ConvInv
  <2>4. collector'.of \subseteq {turn}
    <3>1. e.of \subseteq {turn} /\ collector.of \subseteq {turn}
      BY <1>0, <2>1, SequenceShapes DEF LineInv, Spoken
    <3>2. collector'.of = collector.of \cup e.of
      BY <2>1 DEF Consume, Absorb
    <3> QED BY <3>1, <3>2
  <2> QED BY <2>1, <2>2, <2>3, <2>4, ShrunkConvInv, ShrunkSpoken DEF LineInv
<1>4. CASE ReceiveDone
  <2>1. /\ pc = "receiving" /\ pc' = "idle" /\ inbox # <<>> /\ inbox' = Tail(inbox)
        /\ Head(inbox).type = "response.done"
        /\ UNCHANGED <<websocket, conversationId, attached, items, owed, convs>>
    BY <1>4 DEF ReceiveDone, Return
  <2>2. Shrinks /\ ConvInv'
    BY <2>1, InboxShrinks, ShrunkConvInv DEF LineInv, ConvInv
  <2>3. Ended(1)
    BY <1>0, <2>1, SequenceShapes DEF LineInv, Spoken, Final
  <2>4. \A i \in DOMAIN inbox' : i + 1 \in DOMAIN inbox /\ i + 1 > 1 /\ inbox'[i] = inbox[i + 1]
    BY <1>0, <2>1, SequenceShapes
  <2>5. Line' = attached
    BY <2>1 DEF Line, TypeOK, Coherent, Speaking
  <2>6. Clear(Line)'
    BY <2>1, <2>3, <2>4, <2>5 DEF Clear, Ended, Quiet, Final
  <2> QED BY <2>1, <2>2, <2>6 DEF LineInv
<1>5. CASE Failure
  <2>1. /\ conversationId' = NoConv /\ ~websocket' /\ inbox' = <<>> /\ pc' = "idle"
        /\ UNCHANGED <<attached, items, owed, convs>>
    BY <1>5 DEF Failure, CloseSocket, Return
  <2>2. Shrinks
    BY <2>1, InboxShrinks
  <2>3. Line' = NoConv
    BY <2>1 DEF Line
  <2> QED BY <2>1, <2>2, <2>3, ShrunkConvInv DEF LineInv
<1>6. CASE LinkDrops
  <2>1. /\ link' = "down" /\ Shrinks /\ UNCHANGED <<attached, items, owed, convs, client, turn>>
    BY <1>6, InboxShrinks DEF LinkDrops
  <2>2. Line' = Line
    BY <2>1 DEF Line
  <2>3. ConvInv'
    BY <2>1, ShrunkConvInv DEF LineInv, ConvInv
  <2>4. pc \notin {"sendCreate", "receiving"} /\ Line # NoConv => Clear(Line)'
    BY <2>1, <2>2 DEF LineInv, Clear, Shrinks, Quiet, Final
  <2>5. pc = "sendCreate" => HalfSpoken'
    BY <2>1, ShrunkHalfSpoken DEF LineInv
  <2>6. pc = "receiving" => Spoken'
    BY <2>1, ShrunkSpoken DEF LineInv, Spoken
  <2> QED BY <2>1, <2>2, <2>3, <2>4, <2>5, <2>6 DEF LineInv
<1> QED BY <1>1, <1>2, <1>3, <1>4, <1>5, <1>6

\* The line at the sends: what is out is this turn's prompt, and nothing else.
LEMMA LineAtSends ==
    ASSUME TypeOK, TurnInv, LineInv, SendDelivered \/ SendLost
    PROVE  LineInv'
<1> USE DEF server, history, client
<1>0. /\ pc \in Sending /\ pc' = AfterSend[pc] /\ Line = attached /\ Line' = attached
      /\ attached \in Convs /\ attached # NoConv
      /\ UNCHANGED <<websocket, conversationId, attached, convs, inbox, turn, collector>>
  BY DEF SendDelivered, SendLost, Deliver, DeliverConfiguration, DeliverUserItem, DeliverResponseCreate,
         Sending, Line, TypeOK, Coherent, ServerTypeOK, Speaking
<1>1. /\ items \in [Convs -> SUBSET Turns] /\ owed \in [Convs -> Seq(SUBSET Turns)]
      /\ attached \in Nat /\ convs \in Nat /\ attached <= convs
  BY <1>0 DEF TypeOK, ServerTypeOK, LineInv, ConvInv, Convs
<1>2. ASSUME \A k \in Convs : k # attached => items'[k] = items[k] /\ owed'[k] = owed[k]
      PROVE  ConvInv'
  BY <1>0, <1>1, <1>2 DEF LineInv, ConvInv, Convs
<1>3. CASE pc = "configuring"
  <2>1. UNCHANGED <<items, owed>> /\ pc' = "awaitReady"
    BY <1>0, <1>3 DEF SendDelivered, SendLost, Deliver, DeliverConfiguration, DeliverUserItem,
        DeliverResponseCreate, AfterSend
  <2> QED BY <1>0, <1>2, <1>3, <2>1 DEF LineInv, Clear, Quiet, Final
<1>4. CASE pc = "sendUser"
  <2>1. pc' = "sendCreate"
    BY <1>0, <1>4 DEF AfterSend
  <2>2. Clear(attached)
    BY <1>0, <1>4 DEF LineInv
  <2>3. CASE SendDelivered
    <3>1. items' = [items EXCEPT ![attached] = @ \cup {turn}] /\ owed' = owed
      BY <1>4, <2>3 DEF SendDelivered, Deliver, DeliverConfiguration, DeliverUserItem, DeliverResponseCreate
    <3>2. items'[attached] = {turn}
      BY <1>0, <1>1, <2>2, <3>1 DEF Clear
    <3>3. HalfSpoken'
      BY <1>0, <2>2, <3>1, <3>2 DEF HalfSpoken, Clear, Quiet, Final
    <3> QED BY <1>0, <1>1, <1>2, <2>1, <3>1, <3>3 DEF LineInv
  <2>4. CASE SendLost
    <3>1. UNCHANGED <<items, owed>> /\ link' = "down"
      BY <2>4 DEF SendLost
    <3>2. HalfSpoken'
      BY <1>0, <2>2, <3>1 DEF HalfSpoken, Clear, Quiet, Final
    <3> QED BY <1>0, <1>2, <2>1, <3>1, <3>2 DEF LineInv
  <2> QED BY <2>3, <2>4
<1>5. CASE pc = "sendCreate"
  <2>1. pc' = "receiving"
    BY <1>0, <1>5 DEF AfterSend
  <2>2. HalfSpoken
    BY <1>5 DEF LineInv
  <2>3. collector'.of \subseteq {turn}
    <3>1. collector = FreshCollector
      BY <1>5 DEF TurnInv, TypeOK, Coherent, Speaking
    <3> QED BY <1>0, <3>1 DEF FreshCollector
  <2>4. \A i \in DOMAIN inbox' : inbox'[i].of = {} /\ ~Final(inbox'[i])
    BY <1>0, <2>2 DEF HalfSpoken, Quiet, Final
  <2>5. CASE SendDelivered
    <3>1. /\ owed' = [owed EXCEPT ![attached] = Append(@, items[attached])]
          /\ items' = [items EXCEPT ![attached] = {}] /\ link = "up"
      BY <1>5, <2>5 DEF SendDelivered, Deliver, DeliverConfiguration, DeliverUserItem, DeliverResponseCreate
    <3>2. items'[attached] = {} /\ owed'[attached] = Append(<<>>, {turn})
      BY <1>0, <1>1, <2>2, <3>1 DEF HalfSpoken
    <3>3. owed'[attached] = <<{turn}>>
      BY <3>2
    <3>4. Spoken'
      BY <1>0, <2>3, <2>4, <3>2, <3>3 DEF Spoken, Final
    <3> QED BY <1>0, <1>1, <1>2, <2>1, <3>1, <3>4 DEF LineInv
  <2>6. CASE SendLost
    <3>1. UNCHANGED <<items, owed>>
      BY <2>6 DEF SendLost
    <3>2. Spoken'
      BY <1>0, <2>2, <2>3, <2>4, <3>1 DEF HalfSpoken, Spoken, Final
    <3> QED BY <1>0, <1>2, <2>1, <3>1, <3>2 DEF LineInv
  <2> QED BY <2>5, <2>6
<1> QED BY <1>0, <1>3, <1>4, <1>5 DEF Sending

\* A call cancelled anywhere but at the sends of a turn leaves the line as it was.
LEMMA LineAtCancel ==
    ASSUME TypeOK, LineInv, CancelUnhandled, pc \notin {"sendUser", "sendCreate"}
    PROVE  LineInv'
<1>1. /\ pc \in {"opening", "configuring", "awaitReady", "closing"} /\ pc' = "idle"
      /\ UNCHANGED <<websocket, conversationId, attached, convs, inbox, items, owed>>
  BY ConstantsTyped DEF CancelUnhandled, Awaits, Return, Deliver, DeliverConfiguration,
     DeliverUserItem, DeliverResponseCreate, server
<1>2. Line' = Line
  BY <1>1 DEF Line
<1>3. ConvInv'
  BY <1>1 DEF LineInv, ConvInv
<1>4. Line # NoConv => Clear(Line)'
  BY <1>1, <1>2 DEF LineInv, Clear, Quiet, Final
<1> QED BY <1>1, <1>2, <1>3, <1>4 DEF LineInv

\* The server only speaks of what it owes.
LEMMA LineAtServer ==
    ASSUME TypeOK, LineInv, Server
    PROVE  LineInv'
<1> USE DEF server, history, client
<1>1. PICK e \in Events :
        /\ Emit(e)
        /\ UNCHANGED items
        /\ \/ Quiet(e) /\ UNCHANGED owed
           \/ /\ owed[attached] # <<>> /\ e.of = Head(owed[attached])
              /\ \/ ~Final(e) /\ UNCHANGED owed
                 \/ Final(e) /\ owed' = [owed EXCEPT ![attached] = Tail(@)]
        /\ e.type # "conversation.created"
  BY ServerEmits DEF Emission, Quiet, Final
<1>2. /\ inbox \in Seq(Events) /\ attached \in Convs /\ attached # NoConv
      /\ items \in [Convs -> SUBSET Turns] /\ owed \in [Convs -> Seq(SUBSET Turns)]
      /\ attached \in Nat /\ convs \in Nat /\ attached <= convs
  BY <1>1 DEF Emit, TypeOK, ServerTypeOK, Coherent, LineInv, ConvInv, Convs
<1>3. /\ websocket /\ inbox' = Append(inbox, e)
      /\ UNCHANGED <<link, attached, convs, pc, websocket, conversationId, collector, turn>>
      /\ Line = attached /\ Line' = attached
  BY <1>1 DEF Emit, Line
<1>4. /\ DOMAIN inbox' = 1 .. Len(inbox) + 1 /\ DOMAIN inbox = 1 .. Len(inbox) /\ Len(inbox) \in Nat
      /\ \A i \in DOMAIN inbox : i \in DOMAIN inbox' /\ inbox'[i] = inbox[i]
      /\ inbox'[Len(inbox) + 1] = e
      /\ \A i \in DOMAIN inbox' : i \in DOMAIN inbox \/ (i = Len(inbox) + 1 /\ inbox'[i] = e)
  BY <1>2, <1>3, SequenceShapes
<1>5. \A k \in Convs : k # attached => owed'[k] = owed[k]
  BY <1>1, <1>2
<1>6. ConvInv'
  <2>1. \A i \in DOMAIN inbox' : inbox'[i].type = "conversation.created" => inbox'[i].conv = attached
    BY <1>1, <1>4 DEF LineInv, ConvInv
  <2>2. \A k \in Convs : k > convs => items'[k] = {} /\ owed'[k] = <<>>
    BY <1>1, <1>2, <1>5 DEF LineInv, ConvInv, Convs
  <2> QED BY <1>2, <1>3, <2>1, <2>2 DEF LineInv, ConvInv
<1>7. CASE Quiet(e) /\ UNCHANGED owed
  <2>1. Clear(attached) => Clear(attached)'
    BY <1>1, <1>3, <1>4, <1>7 DEF Clear, Quiet, Final
  <2>2. HalfSpoken => HalfSpoken'
    BY <1>1, <1>3, <1>4, <1>7 DEF HalfSpoken, Quiet, Final
  <2>3. ASSUME Spoken PROVE Spoken'
    <3>1. \A i \in DOMAIN inbox : Ended(i) => Ended(i)'
      BY <1>1, <1>3, <1>4, <1>7 DEF Ended, Quiet, Final
    <3>2. \A i \in DOMAIN inbox' : /\ inbox'[i].of \subseteq {turn}
                                   /\ Final(inbox'[i]) => Ended(i)'
      BY <1>4, <1>7, <2>3, <3>1 DEF Spoken, Quiet, Final
    <3>3. owed[attached] # <<>> => \A i \in DOMAIN inbox' : ~Final(inbox'[i])
      BY <1>4, <1>7, <2>3 DEF Spoken, Quiet, Final
    <3> QED BY <1>1, <1>3, <1>7, <2>3, <3>2, <3>3 DEF Spoken, Final
  <2>4. Clear(Line)' <=> Clear(attached)'
    BY <1>3 DEF Clear
  <2> QED BY <1>2, <1>3, <1>6, <2>1, <2>2, <2>3, <2>4 DEF LineInv
<1>8. CASE /\ owed[attached] # <<>> /\ e.of = Head(owed[attached])
           /\ \/ ~Final(e) /\ UNCHANGED owed
              \/ Final(e) /\ owed' = [owed EXCEPT ![attached] = Tail(@)]
  <2>1. pc = "receiving" /\ Spoken
    BY <1>2, <1>3, <1>8 DEF LineInv, Clear, HalfSpoken
  <2>2. /\ owed[attached] = <<{turn}>> /\ e.of = {turn} /\ items[attached] = {}
        /\ \A i \in DOMAIN inbox : ~Final(inbox[i]) /\ inbox[i].of \subseteq {turn}
    BY <1>8, <2>1 DEF Spoken
  <2>3. CASE ~Final(e) /\ UNCHANGED owed
    <3>1. \A i \in DOMAIN inbox' : ~Final(inbox'[i]) /\ inbox'[i].of \subseteq {turn}
      BY <1>4, <2>2, <2>3 DEF Final
    <3>2. Spoken'
      BY <1>1, <1>3, <2>1, <2>2, <2>3, <3>1 DEF Spoken, Final
    <3> QED BY <1>3, <1>6, <2>1, <3>2 DEF LineInv
  <2>4. CASE Final(e) /\ owed' = [owed EXCEPT ![attached] = Tail(@)]
    <3>1. owed'[attached] = <<>>
      BY <1>2, <2>2, <2>4
    <3>0. PICK n \in Nat : n = Len(inbox) + 1
      BY <1>4
    <3>2. Ended(n)'
      BY <1>1, <1>3, <1>4, <2>2, <3>0, <3>1 DEF Ended
    <3>3. \A i \in DOMAIN inbox' : /\ inbox'[i].of \subseteq {turn}
                                   /\ Final(inbox'[i]) => Ended(i)'
      BY <1>4, <2>2, <3>0, <3>2 DEF Final
    <3>4. Spoken'
      BY <1>1, <1>3, <2>1, <2>2, <3>1, <3>3 DEF Spoken, Final
    <3> QED BY <1>3, <1>6, <2>1, <3>4 DEF LineInv
  <2> QED BY <1>8, <2>3, <2>4
<1> QED BY <1>1, <1>7, <1>8

LEMMA LineInvStep ==
    ASSUME TypeOK, TurnInv, LineInv, Uncancelled({"sendUser", "sendCreate"})
    PROVE  LineInv'
<1>1. CASE UNCHANGED vars
  BY <1>1 DEF vars, server, client, history, LineInv, ConvInv, Line, Clear, HalfSpoken, Spoken,
              Ended, Quiet, Final
<1> QED BY <1>1, UncancelledCases, LineOutsideTurns, LineAtEvents, LineAtSends, LineAtCancel, LineAtServer

LEMMA InitLine == Init => LineInv
BY ConstantsTyped DEF Init, LineInv, ConvInv, Line, Convs, NoConv

LEMMA ClearHoldsNothing ==
    ASSUME TypeOK, NEW k \in Convs, Clear(k)
    PROVE  Held(k) = {}
<1>1. ASSUME NEW t PROVE t \notin Held(k)
  BY HeldMeans DEF Clear, InFlight, Quiet
<1> QED BY <1>1

\* When no call is cancelled at one of the sends of its turn, then between calls neither
\* the open connection nor the remembered id leads to a conversation that holds a prompt.
THEOREM IdleLinesAreClear ==
    ASSUME CancelPoints \cap {"sendUser", "sendCreate"} = {}
    PROVE  Spec => []IdleLineIsClear
<1> DEFINE I == TypeOK /\ TurnInv /\ LineInv
<1>1. I /\ [Next]_vars => I'
  BY StepTyped, TurnInvStep, LineInvStep, UncancelledSteps
<1>2. I => IdleLineIsClear
  <2> SUFFICES ASSUME I, pc = "idle" PROVE Held(Line) = {}
    BY DEF IdleLineIsClear
  <2>1. CASE Line = NoConv
    BY <2>1 DEF Held
  <2>2. CASE Line # NoConv
    <3>1. Line \in Convs /\ Clear(Line)
      BY <2>2 DEF Line, LineInv, TypeOK, ClientTypeOK, ServerTypeOK
    <3> QED BY <3>1, ClearHoldsNothing
  <2> QED BY <2>1, <2>2
<1>3. Init => I
  BY InitTyped, InitTurn, InitLine
<1> HIDE DEF I
<1> QED BY <1>1, <1>2, <1>3, PTL DEF Spec

\* The turn's own response is the only one that can end it.
LEMMA OwnAnswerStep ==
    ASSUME TypeOK, TurnInv, LineInv, AnswersOwnPrompt, [Next]_vars
    PROVE  AnswersOwnPrompt'
<1> USE DEF server, history, client
<1>0. /\ turn \in Turns \cup {0} /\ inbox \in Seq(Events)
      /\ outcome \in [Turns -> {"new", "inflight", "answered", "failed"}]
      /\ answer \in [Turns -> [heard : Content, said : Content]]
  BY DEF TypeOK, HistoryTypeOK, ServerTypeOK
<1>1. ASSUME UNCHANGED answer, \A t \in Turns : outcome'[t] = "answered" => outcome[t] = "answered"
      PROVE  AnswersOwnPrompt'
  BY <1>1 DEF AnswersOwnPrompt
<1>2. CASE RunTurn
  BY <1>0, <1>1, <1>2 DEF RunTurn
<1>3. CASE RefusePrompt \/ Failure \/ CancelUnhandled
  <2>1. Return("failed") /\ UNCHANGED answer
    BY <1>3 DEF RefusePrompt, Failure, CancelUnhandled
  <2> QED BY <1>0, <1>1, <2>1 DEF Return
<1>4. CASE ReceiveDone
  <2>1. /\ pc = "receiving" /\ inbox # <<>> /\ Head(inbox).type = "response.done"
        /\ Return("answered") /\ caller = "turn" /\ turn \in Turns
    BY <1>0, <1>4 DEF ReceiveDone, TypeOK, Coherent, Speaking
  <2> DEFINE e == Head(inbox)
  <2>2. PICK c \in Consume(collector, e) :
            answer' = [answer EXCEPT ![turn] =
                 [heard |-> [of |-> c.of, text |-> c.text, audio |-> c.audio],
                  said  |-> [of |-> e.of, text |-> e.text, audio |-> e.audio]]]
    BY <1>4 DEF ReceiveDone
  <2>3. collector.of \subseteq {turn} /\ e.of = {turn}
    BY <1>0, <2>1, SequenceShapes DEF LineInv, Spoken, Ended, Final
  <2>4. c.of = {turn}
    BY <2>2, <2>3 DEF Consume, Absorb
  <2>5. outcome' = [outcome EXCEPT ![turn] = "answered"]
    BY <2>1 DEF Return
  <2> HIDE DEF e
  <2>6. answer'[turn].heard.of = {turn}
    BY <1>0, <2>1, <2>2, <2>4
  <2>7. ASSUME NEW t \in Turns, t # turn
        PROVE  answer'[t] = answer[t] /\ outcome'[t] = outcome[t]
    BY <1>0, <2>2, <2>5, <2>7
  <2> QED BY <2>6, <2>7 DEF AnswersOwnPrompt
<1>5. CASE CallConnect \/ CallClose \/ OpenOk \/ AwaitReadyGoesOn \/ AwaitReadyTimeout \/ SendDelivered
           \/ SendLost \/ ReceiveAccepted \/ LinkDrops
  <2>1. UNCHANGED <<answer, outcome>>
    BY <1>5 DEF CallConnect, CallClose, OpenOk, AwaitReadyGoesOn, AwaitReadyReceive, AwaitReadyTimeout,
                SendDelivered, SendLost, ReceiveAccepted, LinkDrops
  <2> QED BY <1>1, <2>1
<1>6. CASE Server
  BY <1>1, <1>6, ServerEmits DEF Emission, Emit
<1>7. CASE UNCHANGED vars
  BY <1>1, <1>7 DEF vars
<1> QED BY <1>2, <1>3, <1>4, <1>5, <1>6, <1>7, StepCases

\* Under the same condition run_turn never returns the response to another prompt,
\* although it matches no response to a prompt.
THEOREM AnswersAreOwn ==
    ASSUME CancelPoints \cap {"sendUser", "sendCreate"} = {}
    PROVE  Spec => []AnswersOwnPrompt
<1> DEFINE I == TypeOK /\ TurnInv /\ LineInv /\ AnswersOwnPrompt
<1>1. I /\ [Next]_vars => I'
  BY StepTyped, TurnInvStep, LineInvStep, OwnAnswerStep, UncancelledSteps
<1>2. Init => I
  <2>1. Init => AnswersOwnPrompt
    BY DEF Init, AnswersOwnPrompt
  <2> QED BY <2>1, InitTyped, InitTurn, InitLine
<1>3. I => AnswersOwnPrompt
  OBVIOUS
<1> HIDE DEF I
<1> QED BY <1>1, <1>2, <1>3, PTL DEF Spec

----------------------------------------------------------------------------
(* The client implements VoiceTurns. *)

\* The line of the abstract specification: the prompt being spoken, or nothing.
LEMMA UnansweredIs ==
    TypeOK /\ LineInv => Unanswered = IF pc \in {"sendCreate", "receiving"} THEN {turn} ELSE {}
<1> SUFFICES ASSUME TypeOK, LineInv
             PROVE  Unanswered = IF pc \in {"sendCreate", "receiving"} THEN {turn} ELSE {}
  OBVIOUS
<1>1. CASE pc \notin {"sendCreate", "receiving"}
  <2>1. CASE Line = NoConv
    BY <1>1, <2>1 DEF Held, Unanswered
  <2>2. CASE Line # NoConv
    <3>1. Line \in Convs /\ Clear(Line)
      BY <1>1, <2>2 DEF Line, LineInv, TypeOK, ClientTypeOK, ServerTypeOK
    <3> QED BY <1>1, <3>1, ClearHoldsNothing DEF Unanswered
  <2> QED BY <2>1, <2>2
<1>2. CASE pc \in {"sendCreate", "receiving"}
  <2>1. Line = attached /\ attached \in Convs
    BY <1>2 DEF Line, TypeOK, Coherent, ServerTypeOK, Speaking
  <2>2. /\ items[attached] \subseteq {turn} /\ owed[attached] \in {<<>>, <<{turn}>>}
        /\ \A i \in DOMAIN inbox : inbox[i].of \subseteq {turn}
    BY <1>2 DEF LineInv, HalfSpoken, Spoken, Quiet
  <2>3. ASSUME NEW t \in Held(attached) PROVE t = turn
    BY <2>1, <2>2, <2>3, HeldMeans DEF InFlight
  <2> QED BY <1>2, <2>1, <2>3 DEF Unanswered
<1> QED BY <1>1, <1>2

LEMMA UnansweredIsNext ==
    (TypeOK /\ LineInv => Unanswered = IF pc \in {"sendCreate", "receiving"} THEN {turn} ELSE {})'
BY UnansweredIs, PTL

LEMMA InitImplements == Init => Abstract!TurnsInit
<1> SUFFICES ASSUME Init PROVE Abstract!TurnsInit
  OBVIOUS
<1>1. Unanswered = {}
  BY InitTyped, InitLine, UnansweredIs DEF Init
<1> QED BY <1>1 DEF Init, Abstract!TurnsInit

\* A call that ends without an answer fails its turn, if it has one.
LEMMA ReturnFails ==
    ASSUME TypeOK, TurnInv, LineInv, LineInv', TypeOK', Return("failed"), pc # "idle"
    PROVE  [Abstract!TurnsNext]_(Abstract!tvars)
<1>1. pc' = "idle" /\ Unanswered' = {}
  BY UnansweredIsNext DEF Return
<1>2. CASE caller = "turn"
  <2>1. turn \in Turns /\ outcome[turn] = "inflight" /\ outcome' = [outcome EXCEPT ![turn] = "failed"]
    BY <1>2 DEF TypeOK, Coherent, HistoryTypeOK, TurnInv, Return
  <2>2. Abstract!Fail(turn)
    BY <1>1, <2>1 DEF Abstract!Fail
  <2> QED BY <2>1, <2>2 DEF Abstract!TurnsNext
<1>3. CASE caller # "turn"
  <2>1. Unanswered = {} /\ UNCHANGED outcome
    BY <1>3, UnansweredIs DEF TypeOK, Coherent, Speaking, Return
  <2> QED BY <1>1, <2>1 DEF Abstract!tvars
<1> QED BY <1>2, <1>3

LEMMA StepImplements ==
    ASSUME TypeOK, TurnInv, LineInv, TypeOK', LineInv', Uncancelled({"sendUser", "sendCreate"})
    PROVE  [Abstract!TurnsNext]_(Abstract!tvars)
<1> USE DEF server, history, client
<1>0. /\ Unanswered = IF pc \in {"sendCreate", "receiving"} THEN {turn} ELSE {}
      /\ Unanswered' = IF pc' \in {"sendCreate", "receiving"} THEN {turn'} ELSE {}
      /\ outcome \in [Turns -> {"new", "inflight", "answered", "failed"}]
  BY UnansweredIs, UnansweredIsNext DEF TypeOK, HistoryTypeOK
<1>1. CASE RunTurn
  <2>1. /\ turn + 1 \in Turns /\ outcome' = [outcome EXCEPT ![turn + 1] = "inflight"]
        /\ outcome[turn + 1] = "new"
    BY <1>1, ConstantsTyped DEF RunTurn, Turns, TypeOK, HistoryTypeOK, TurnInv
  <2>2. \A u \in Turns : outcome[u] # "inflight"
    BY <1>1 DEF RunTurn, TurnInv
  <2>3. Unanswered = {} /\ Unanswered' = {}
    BY <1>0, <1>1 DEF RunTurn
  <2>4. Abstract!Begin(turn + 1)
    BY <2>1, <2>2, <2>3 DEF Abstract!Begin
  <2> QED BY <2>1, <2>4 DEF Abstract!TurnsNext
<1>2. CASE (SendDelivered \/ SendLost) /\ pc = "sendUser"
  <2>1. pc' = "sendCreate" /\ UNCHANGED <<outcome, turn>>
    BY <1>2 DEF SendDelivered, SendLost, AfterSend
  <2>2. turn \in Turns /\ outcome[turn] = "inflight"
    BY <1>2 DEF TypeOK, Coherent, HistoryTypeOK, TurnInv, Speaking
  <2>3. Abstract!Speak(turn)
    BY <1>0, <1>2, <2>1, <2>2 DEF Abstract!Speak
  <2> QED BY <2>2, <2>3 DEF Abstract!TurnsNext
<1>3. CASE ReceiveDone
  <2>1. pc = "receiving" /\ Return("answered") /\ UNCHANGED turn
    BY <1>3 DEF ReceiveDone
  <2>2. turn \in Turns /\ outcome[turn] = "inflight" /\ outcome' = [outcome EXCEPT ![turn] = "answered"]
    BY <2>1 DEF TypeOK, Coherent, HistoryTypeOK, TurnInv, Speaking, Return
  <2>3. Abstract!Answer(turn)
    BY <1>0, <2>1, <2>2 DEF Abstract!Answer, Return
  <2> QED BY <2>2, <2>3 DEF Abstract!TurnsNext
<1>4. CASE Failure \/ RefusePrompt \/ (CancelUnhandled /\ pc \notin {"sendUser", "sendCreate"})
  <2>1. Return("failed") /\ pc # "idle"
    BY <1>4, ConstantsTyped DEF Failure, RefusePrompt, CancelUnhandled, Awaits
  <2> QED BY <2>1, ReturnFails
<1>5. CASE CallConnect \/ CallClose \/ OpenOk \/ AwaitReadyGoesOn \/ AwaitReadyTimeout
           \/ ReceiveAccepted \/ LinkDrops
  <2>1. /\ UNCHANGED <<outcome, turn>>
        /\ pc' \in {"sendCreate", "receiving"} <=> pc \in {"sendCreate", "receiving"}
    BY <1>5 DEF CallConnect, CallClose, OpenOk, AwaitReadyGoesOn, AwaitReadyReceive, AwaitReadyTimeout,
                ReceiveAccepted, LinkDrops
  <2> QED BY <1>0, <2>1 DEF Abstract!tvars
<1>6. CASE (SendDelivered \/ SendLost) /\ pc # "sendUser"
  <2>1. /\ UNCHANGED <<outcome, turn>>
        /\ pc' \in {"sendCreate", "receiving"} <=> pc \in {"sendCreate", "receiving"}
    BY <1>6 DEF SendDelivered, SendLost, AfterSend, Deliver, DeliverConfiguration, DeliverUserItem,
                DeliverResponseCreate, Sending
  <2> QED BY <1>0, <2>1 DEF Abstract!tvars
<1>7. CASE Server
  <2>1. UNCHANGED <<outcome, turn, pc>>
    BY <1>7, ServerEmits DEF Emission, Emit
  <2> QED BY <1>0, <2>1 DEF Abstract!tvars
<1>8. CASE UNCHANGED vars
  BY <1>0, <1>8 DEF vars, Abstract!tvars
<1> QED BY <1>1, <1>2, <1>3, <1>4, <1>5, <1>6, <1>7, <1>8, UncancelledCases

\* Under the same condition the client implements VoiceTurns: turns one at a time,
\* each settled once, each spoken on a clear line.
THEOREM ClientImplementsTurns ==
    ASSUME CancelPoints \cap {"sendUser", "sendCreate"} = {}
    PROVE  Spec => ImplementsVoiceTurns
<1> DEFINE I == TypeOK /\ TurnInv /\ LineInv
<1>1. I /\ [Next]_vars => I' /\ [Abstract!TurnsNext]_(Abstract!tvars)
  BY StepTyped, TurnInvStep, LineInvStep, StepImplements, UncancelledSteps
<1>2. Init => I /\ Abstract!TurnsInit
  BY InitTyped, InitTurn, InitLine, InitImplements
<1> HIDE DEF I
<1> QED BY <1>1, <1>2, PTL DEF Spec, ImplementsVoiceTurns, Abstract!TurnsSpec

----------------------------------------------------------------------------
(* LiveTranscriptIsAccepted, wherever a call is cancelled. *)

\* What ReceiveAccepted and ReceiveDone take from the inbox, and what consume makes of it.
LEMMA Absorbed ==
    ASSUME TypeOK, inbox # <<>>, NEW c \in Consume(collector, Head(inbox))
    PROVE  /\ Head(inbox) \in Events /\ ~Rejects(collector, Head(inbox))
           /\ c = Absorb(collector, Head(inbox)) /\ collector \in Collectors
BY InboxTyped DEF TypeOK, ServerTypeOK, ClientTypeOK, Consume

LEMMA LiveStep ==
    ASSUME TypeOK, TurnInv, LiveTranscriptIsAccepted, [Next]_vars
    PROVE  LiveTranscriptIsAccepted'
<1> USE DEF server, history, client
<1>0. /\ turn \in Turns \cup {0} /\ shown \in Nat /\ MaxText \in Nat /\ Turns \subseteq Nat \ {0}
      /\ outcome \in [Turns -> {"new", "inflight", "answered", "failed"}]
      /\ answer \in [Turns -> [heard : Content, said : Content]]
  BY LimitsAssumption DEF TypeOK, HistoryTypeOK, Turns
<1>1. CASE RunTurn
  <2>1. /\ turn + 1 \in Turns /\ outcome' = [outcome EXCEPT ![turn + 1] = "inflight"]
        /\ turn' = turn + 1 /\ shown' = 0 /\ pc' # "receiving"
    BY <1>1, ConstantsTyped DEF RunTurn, Turns, TypeOK, HistoryTypeOK
  <2>2. outcome'[turn'] = "inflight"
    BY <1>0, <2>1
  <2> QED BY <1>0, <2>1, <2>2 DEF LiveTranscriptIsAccepted
<1>2. CASE RefusePrompt \/ Failure \/ CancelUnhandled
  <2>1. Return("failed") /\ UNCHANGED <<answer, shown, turn>>
    BY <1>2 DEF RefusePrompt, Failure, CancelUnhandled
  <2>2. outcome'[turn] = "answered" /\ turn > 0 => outcome[turn] = "answered"
    BY <1>0, <2>1 DEF Return
  <2> QED BY <2>1, <2>2 DEF LiveTranscriptIsAccepted, Return
<1>3. CASE CallConnect \/ CallClose \/ OpenOk \/ AwaitReadyGoesOn \/ AwaitReadyTimeout \/ LinkDrops
  BY <1>3 DEF CallConnect, CallClose, OpenOk, AwaitReadyGoesOn, AwaitReadyReceive, AwaitReadyTimeout,
              LinkDrops, LiveTranscriptIsAccepted
<1>4. CASE SendDelivered \/ SendLost
  <2>1. /\ pc \in Sending /\ pc' = AfterSend[pc]
        /\ UNCHANGED <<caller, collector, answer, shown, turn, outcome>>
    BY <1>4 DEF SendDelivered, SendLost, Deliver, DeliverConfiguration, DeliverUserItem,
                DeliverResponseCreate, Sending
  <2>2. pc' = "receiving" => pc = "sendCreate"
    BY <2>1 DEF AfterSend, Sending
  <2>3. pc = "sendCreate" => shown = 0 /\ collector.text = 0
    BY DEF TurnInv, TypeOK, Coherent, Speaking, FreshCollector
  <2> QED BY <2>1, <2>2, <2>3 DEF LiveTranscriptIsAccepted
<1>5. CASE ReceiveAccepted
  <2> DEFINE e == Head(inbox)
  <2>1. /\ pc = "receiving" /\ inbox # <<>> /\ collector' \in Consume(collector, e)
        /\ shown' = shown + Emitted(e) /\ UNCHANGED <<turn, outcome, answer>>
    BY <1>5 DEF ReceiveAccepted
  <2>2. /\ e \in Events /\ ~Rejects(collector, e) /\ collector' = Absorb(collector, e)
        /\ collector \in Collectors
    BY <2>1, Absorbed
  <2>3. shown = collector.text
    BY <2>1 DEF LiveTranscriptIsAccepted
  <2> HIDE DEF e
  <2>4. shown' = collector'.text /\ shown' <= MaxText
    BY <1>0, <2>1, <2>2, <2>3 DEF Emitted, Absorb, Rejects, Collectors, Events, LiveTranscriptIsAccepted
  <2>5. turn > 0 => outcome[turn] = "inflight"
    BY <1>0, <2>1 DEF TurnInv, TypeOK, Coherent, Speaking
  <2> QED BY <2>1, <2>4, <2>5 DEF LiveTranscriptIsAccepted
<1>6. CASE ReceiveDone
  <2> DEFINE e == Head(inbox)
  <2>1. /\ pc = "receiving" /\ pc' = "idle" /\ inbox # <<>> /\ e.type = "response.done"
        /\ UNCHANGED <<turn, shown>> /\ turn \in Turns
    BY <1>0, <1>6 DEF ReceiveDone, Return, TypeOK, Coherent, Speaking
  <2>2. PICK c \in Consume(collector, e) :
            answer' = [answer EXCEPT ![turn] =
                 [heard |-> [of |-> c.of, text |-> c.text, audio |-> c.audio],
                  said  |-> [of |-> e.of, text |-> e.text, audio |-> e.audio]]]
    BY <1>6 DEF ReceiveDone
  <2>3. c = Absorb(collector, e)
    BY <2>1, Absorbed
  <2> HIDE DEF e
  <2>4. answer'[turn].heard.text = collector.text
    BY <1>0, <2>1, <2>2, <2>3 DEF Absorb
  <2> QED BY <2>1, <2>4 DEF LiveTranscriptIsAccepted
<1>7. CASE Server
  BY <1>7, ServerEmits DEF Emission, Emit, LiveTranscriptIsAccepted
<1>8. CASE UNCHANGED vars
  BY <1>8 DEF vars, LiveTranscriptIsAccepted
<1> QED BY <1>1, <1>2, <1>3, <1>4, <1>5, <1>6, <1>7, <1>8, StepCases

\* The transcript shown live is never more than what the collector accepted, and after an
\* answered turn it is the transcript returned.
THEOREM ShowsOnlyAccepted == Spec => []LiveTranscriptIsAccepted
<1> DEFINE I == TypeOK /\ TurnInv /\ LiveTranscriptIsAccepted
<1>1. I /\ [Next]_vars => I'
  BY StepTyped, TurnInvStep, LiveStep
<1>2. Init => I
  <2>1. Init => LiveTranscriptIsAccepted
    BY LimitsAssumption DEF Init, LiveTranscriptIsAccepted
  <2> QED BY <2>1, InitTyped, InitTurn
<1>3. I => LiveTranscriptIsAccepted
  OBVIOUS
<1> HIDE DEF I
<1> QED BY <1>1, <1>2, <1>3, PTL DEF Spec

----------------------------------------------------------------------------
(* AnswerIsComplete, wherever a call is cancelled.  The events in flight are the *)
(* rest of one stream: T[i] is how far its response has come before event i + 1, *)
(* from where the collector stands to where the server stands.                   *)

Streams == [on : BOOLEAN, of : SUBSET Turns, text : Nat, audio : Nat]

After(s, e) ==
    [on    |-> IF Final(e) THEN FALSE ELSE IF e.type = "response.created" THEN TRUE ELSE s.on,
     of    |-> IF e.type = "response.created" THEN e.of ELSE s.of,
     text  |-> IF e.type = "response.created" THEN 0
               ELSE IF e.type = "transcript.delta" THEN s.text + e.text ELSE s.text,
     audio |-> IF e.type = "response.created" THEN 0
               ELSE IF e.type = "audio.delta" THEN s.audio + e.audio ELSE s.audio]

\* The event e may come when the response stands at s.
Follows(s, e) ==
    /\ e.type \notin WithinResponse \cup {"response.created"} => e.of = {}
    /\ e.type \in WithinResponse /\ s.on => e.of = s.of
    /\ Final(e) => s.on /\ e.of = s.of /\ e.text = s.text /\ e.audio = s.audio

Heard(c, s) ==
    /\ c.active => s.on /\ c.of = s.of /\ c.text = s.text /\ c.audio = s.audio
    /\ ~c.active => c.of = {} /\ c.text = 0 /\ c.audio = 0

AtServer(s) ==
    /\ s.on <=> reply.on
    /\ s.on => s.of = Answering /\ s.text = reply.text /\ s.audio = reply.audio

Tracks(T) ==
    /\ T \in [0 .. Len(inbox) -> Streams]
    /\ \A i \in 1 .. Len(inbox) : /\ Follows(T[i - 1], inbox[i])
                                  /\ T[i] = After(T[i - 1], inbox[i])
    /\ link = "up" => AtServer(T[Len(inbox)])
    /\ pc = "receiving" => Heard(collector, T[0])

StreamInv == \E T : Tracks(T)

LEMMA AfterTyped ==
    ASSUME NEW s \in Streams, NEW e \in Events
    PROVE  After(s, e) \in Streams
<1>1. /\ s.on \in BOOLEAN /\ s.of \subseteq Turns /\ s.text \in Nat /\ s.audio \in Nat
      /\ e.of \subseteq Turns /\ e.text \in Nat /\ e.audio \in Nat
  BY DEF Streams, Events
<1>2. (IF Final(e) THEN FALSE ELSE IF e.type = "response.created" THEN TRUE ELSE s.on) \in BOOLEAN
  BY <1>1
<1>3. (IF e.type = "response.created" THEN e.of ELSE s.of) \in SUBSET Turns
  BY <1>1
<1>4. (IF e.type = "response.created" THEN 0
       ELSE IF e.type = "transcript.delta" THEN s.text + e.text ELSE s.text) \in Nat
  BY <1>1
<1>5. (IF e.type = "response.created" THEN 0
       ELSE IF e.type = "audio.delta" THEN s.audio + e.audio ELSE s.audio) \in Nat
  BY <1>1
<1> QED BY <1>2, <1>3, <1>4, <1>5 DEF After, Streams

\* The stream after the inbox was emptied and the connection lost, ...
LEMMA StreamForgotten ==
    ASSUME inbox' = <<>>, link' = "down", pc' # "receiving"
    PROVE  StreamInv'
<1>1. PICK s : s \in Streams
  <2>1. [on |-> FALSE, of |-> {}, text |-> 0, audio |-> 0] \in Streams
    BY DEF Streams
  <2> QED BY <2>1
<1> DEFINE T == [i \in 0 .. 0 |-> s]
<1>2. T \in [0 .. Len(inbox') -> Streams] /\ Len(inbox') = 0
  BY <1>1
<1>3. Tracks(T)'
  BY <1>2 DEF Tracks
<1> QED BY <1>3 DEF StreamInv

\* ... when the inbox stays as it is, ...
LEMMA StreamStays ==
    ASSUME StreamInv, UNCHANGED inbox,
           link' = "up" => (link = "up" /\ \A s : AtServer(s) => AtServer(s)'),
           pc' = "receiving" => \A s : (pc = "receiving" => Heard(collector, s)) => Heard(collector', s)
    PROVE  StreamInv'
<1>1. PICK T : Tracks(T)
  BY DEF StreamInv
<1>2. PICK n : n = Len(inbox) /\ n = Len(inbox')
  OBVIOUS
<1>3. link' = "up" => AtServer(T[n])'
  BY <1>1, <1>2 DEF Tracks
<1>4. Tracks(T)'
  BY <1>1, <1>2, <1>3 DEF Tracks, AtServer
<1> QED BY <1>4 DEF StreamInv

\* ... when its first event is received, ...
LEMMA StreamReceived ==
    ASSUME TypeOK, StreamInv, inbox # <<>>, inbox' = Tail(inbox),
           UNCHANGED <<link, reply, attached, owed>>,
           pc' = "receiving" => \A s \in Streams :
               /\ Follows(s, Head(inbox))
               /\ pc = "receiving" => Heard(collector, s)
               => Heard(collector', After(s, Head(inbox)))
    PROVE  StreamInv'
<1>1. PICK T : Tracks(T)
  BY DEF StreamInv
<1>2. /\ inbox \in Seq(Events) /\ Len(inbox) \in Nat /\ Len(inbox) > 0
      /\ Len(inbox') = Len(inbox) - 1 /\ Head(inbox) = inbox[1]
      /\ \A i \in 1 .. Len(inbox) - 1 : inbox'[i] = inbox[i + 1]
  <2>1. inbox \in Seq(Events)
    BY DEF TypeOK, ServerTypeOK
  <2> QED BY <2>1, SequenceShapes, HeadTailProperties, EmptySeq
<1> DEFINE U == [i \in 0 .. Len(inbox) - 1 |-> T[i + 1]]
<1>3. T \in [0 .. Len(inbox) -> Streams]
  BY <1>1 DEF Tracks
<1>4. U \in [0 .. Len(inbox') -> Streams] /\ \A i \in 0 .. Len(inbox') : U[i] = T[i + 1]
  BY <1>2, <1>3
<1>5. ASSUME NEW i \in 1 .. Len(inbox')
      PROVE  Follows(U[i - 1], inbox'[i]) /\ U[i] = After(U[i - 1], inbox'[i])
  <2>1. U[i - 1] = T[i] /\ U[i] = T[i + 1] /\ inbox'[i] = inbox[i + 1] /\ i + 1 \in 1 .. Len(inbox)
    BY <1>2, <1>4
  <2>2. /\ Follows(T[(i + 1) - 1], inbox[i + 1])
        /\ T[i + 1] = After(T[(i + 1) - 1], inbox[i + 1])
    BY <1>1, <2>1 DEF Tracks
  <2>3. (i + 1) - 1 = i
    BY <1>2
  <2> QED BY <2>1, <2>2, <2>3
<1>6. PICK n : n = Len(inbox')
  OBVIOUS
<1>7. pc' = "receiving" => Heard(collector', U[0])
  <2>1. U[0] = T[1] /\ T[0] \in Streams /\ T[1] = After(T[0], Head(inbox)) /\ Follows(T[0], Head(inbox))
    <3>1. 1 - 1 = 0 /\ 1 \in 1 .. Len(inbox) /\ 0 \in 0 .. Len(inbox)
      BY <1>2
    <3> QED BY <1>1, <1>2, <1>3, <1>4, <3>1 DEF Tracks
  <2> QED BY <1>1, <2>1 DEF Tracks
<1> HIDE DEF U
<1>8. PICK V : V = U
  OBVIOUS
<1>9. link' = "up" => AtServer(V[n])'
  <2>1. V[n] = T[Len(inbox)]
    BY <1>2, <1>4, <1>6, <1>8
  <2> QED BY <1>1, <2>1 DEF Tracks, AtServer, Answering
<1>10. Tracks(V)'
  BY <1>4, <1>5, <1>6, <1>7, <1>8, <1>9 DEF Tracks, AtServer
<1> QED BY <1>10 DEF StreamInv

\* ... when the connection breaks, ...
LEMMA StreamCut ==
    ASSUME TypeOK, StreamInv, link' = "down", UNCHANGED <<pc, collector>>,
           NEW n \in 0 .. Len(inbox), inbox' = SubSeq(inbox, 1, n)
    PROVE  StreamInv'
<1>1. PICK T : Tracks(T)
  BY DEF StreamInv
<1>2. inbox \in Seq(Events) /\ Len(inbox) \in Nat
  BY SequenceShapes DEF TypeOK, ServerTypeOK
<1>3. Len(inbox') = n /\ \A i \in 1 .. n : inbox'[i] = inbox[i]
  BY <1>2, SequenceShapes
<1> DEFINE U == [i \in 0 .. n |-> T[i]]
<1>4. /\ U \in [0 .. n -> Streams] /\ \A i \in 0 .. n : U[i] = T[i]
      /\ 0 \in 0 .. n /\ \A i \in 1 .. n : i \in 0 .. n /\ i - 1 \in 0 .. n /\ i \in 1 .. Len(inbox)
  BY <1>1, <1>2 DEF Tracks
<1> HIDE DEF U
<1>5. PICK V : V = U
  OBVIOUS
<1>6. Tracks(V)'
  BY <1>1, <1>3, <1>4, <1>5 DEF Tracks
<1> QED BY <1>6 DEF StreamInv

\* ... and when the server goes on with it.
LEMMA StreamExtended ==
    ASSUME TypeOK, StreamInv, link = "up", link' = "up", UNCHANGED <<pc, collector>>,
           NEW e \in Events, inbox' = Append(inbox, e),
           \A s \in Streams : AtServer(s) => Follows(s, e),
           \A s, r : AtServer(s) /\ s \in Streams /\ r = After(s, e) => AtServer(r)'
    PROVE  StreamInv'
<1>1. PICK T : Tracks(T)
  BY DEF StreamInv
<1>2. PICK n \in Nat : /\ n = Len(inbox) /\ Len(inbox') = n + 1 /\ inbox'[n + 1] = e
                       /\ \A i \in 1 .. n : inbox'[i] = inbox[i]
  <2>1. inbox \in Seq(Events) /\ Len(inbox) \in Nat
    BY SequenceShapes DEF TypeOK, ServerTypeOK
  <2> QED BY <2>1, AppendProperties
<1>3. PICK s \in Streams : s = T[n] /\ AtServer(s)
  BY <1>1, <1>2 DEF Tracks
<1>4. PICK r \in Streams : r = After(s, e)
  BY AfterTyped
<1> DEFINE U == [i \in 0 .. n + 1 |-> IF i = n + 1 THEN r ELSE T[i]]
<1>5. /\ U \in [0 .. n + 1 -> Streams] /\ U[n + 1] = r /\ \A i \in 0 .. n : U[i] = T[i]
      /\ \A i \in 1 .. n + 1 : i \in 1 .. n \/ i = n + 1
      /\ \A i \in 1 .. n : i \in 0 .. n /\ i - 1 \in 0 .. n
      /\ n \in 0 .. n /\ 0 \in 0 .. n /\ (n + 1) - 1 = n
  BY <1>1, <1>2 DEF Tracks
<1> HIDE DEF U
<1>6. ASSUME NEW i \in 1 .. n + 1
      PROVE  Follows(U[i - 1], inbox'[i]) /\ U[i] = After(U[i - 1], inbox'[i])
  <2>1. CASE i \in 1 .. n
    BY <1>1, <1>2, <1>5, <2>1 DEF Tracks
  <2>2. CASE i = n + 1
    BY <1>2, <1>3, <1>4, <1>5, <2>2
  <2> QED BY <1>5, <2>1, <2>2
<1>7. AtServer(r)'
  BY <1>3, <1>4
<1>8. PICK V : V = U
  OBVIOUS
<1>9. AtServer(V[n + 1])'
  BY <1>5, <1>7, <1>8 DEF AtServer
<1>10. pc' = "receiving" => Heard(collector', V[0])
  BY <1>1, <1>5, <1>8 DEF Tracks
<1>11. Tracks(V)'
  BY <1>2, <1>5, <1>6, <1>8, <1>9, <1>10 DEF Tracks, AtServer
<1> QED BY <1>11 DEF StreamInv

\* A message that arrives leaves the response being emitted as it is.
LEMMA DeliverKeepsStream ==
    ASSUME TypeOK, Deliver
    PROVE  \A s : AtServer(s) => AtServer(s)'
<1>1. UNCHANGED <<attached, reply, inbox, link>>
  BY DEF Deliver
<1>2. reply.on => Answering' = Answering
  <2> SUFFICES ASSUME reply.on PROVE Answering' = Answering
    OBVIOUS
  <2>1. attached \in Convs /\ owed[attached] # <<>> /\ owed \in [Convs -> Seq(SUBSET Turns)]
        /\ items \in [Convs -> SUBSET Turns]
    BY DEF TypeOK, Coherent, ServerTypeOK
  <2>2. CASE DeliverConfiguration \/ DeliverUserItem
    BY <1>1, <2>2 DEF DeliverConfiguration, DeliverUserItem, Answering
  <2>3. CASE DeliverResponseCreate
    <3>1. owed'[attached] = Append(owed[attached], items[attached])
      BY <2>1, <2>3 DEF DeliverResponseCreate
    <3>2. owed[attached] \in Seq(SUBSET Turns) /\ items[attached] \in SUBSET Turns
      BY <2>1
    <3>3. /\ Head(owed'[attached]) = owed'[attached][1]
          /\ Head(owed[attached]) = owed[attached][1]
          /\ owed'[attached][1] = owed[attached][1]
      BY <2>1, <3>1, <3>2, SequenceShapes, AppendProperties, EmptySeq
    <3> QED BY <1>1, <3>3 DEF Answering
  <2> QED BY <2>2, <2>3 DEF Deliver
<1> QED BY <1>1, <1>2 DEF AtServer

LEMMA AfterIs ==
    ASSUME NEW s \in Streams, NEW e
    PROVE  /\ After(s, e).on <=> ((s.on \/ e.type = "response.created") /\ ~Final(e))
           /\ e.type = "response.created" =>
                 After(s, e).of = e.of /\ After(s, e).text = 0 /\ After(s, e).audio = 0
           /\ e.type # "response.created" =>
                 /\ After(s, e).of = s.of
                 /\ After(s, e).text = IF e.type = "transcript.delta" THEN s.text + e.text ELSE s.text
                 /\ After(s, e).audio = IF e.type = "audio.delta" THEN s.audio + e.audio ELSE s.audio
BY DEF After

\* Each event of the server continues the response it is emitting.
LEMMA ServerExtends ==
    ASSUME TypeOK, StreamInv, Server
    PROVE  StreamInv'
<1> USE DEF server, history, client
<1>1. ASSUME NEW e \in Events, Emit(e),
             \A s \in Streams : AtServer(s) => Follows(s, e),
             \A s, r : AtServer(s) /\ s \in Streams /\ r = After(s, e) => AtServer(r)'
      PROVE  StreamInv'
  BY <1>1, StreamExtended DEF Emit
<1>2. /\ owed \in [Convs -> Seq(SUBSET Turns)] /\ reply.text \in Nat /\ reply.audio \in Nat
      /\ reply \in Replies /\ (reply.on => attached \in Convs /\ owed[attached] # <<>>)
  BY DEF TypeOK, ServerTypeOK, Replies, Coherent
<1>3. CASE ServerAcknowledges \/ ServerNoise \/ ServerStrayText
  <2>1. PICK e \in Events :
          /\ Emit(e) /\ UNCHANGED <<owed, reply>> /\ e.of = {}
          /\ \/ e.type \in {"session.updated", "error", "malformed", "other"}
             \/ e.type = "transcript.delta" /\ ~reply.on
    <3>1. \A type \in {"session.updated", "error", "malformed", "other"} : Plain(type) \in Events
      BY PlainTyped DEF EventTypes
    <3>2. Event("transcript.delta", {}, 1, 0, NoConv) \in Events
      BY DEF Event, Events, EventTypes, NoConv
    <3> QED BY <1>3, <3>1, <3>2 DEF ServerAcknowledges, ServerNoise, ServerStrayText, Plain, Event
  <2>2. \A s \in Streams : AtServer(s) => Follows(s, e)
    BY <2>1 DEF AtServer, Follows, Final, WithinResponse
  <2>3. Answering' = Answering
    BY <2>1 DEF Answering, Emit
  <2>4. \A s, r : AtServer(s) /\ s \in Streams /\ r = After(s, e) => AtServer(r)'
    BY <2>1, <2>3, AfterIs DEF AtServer, Final
  <2> QED BY <1>1, <2>1, <2>2, <2>4
<1>4. CASE ServerCreated
  <2>1. PICK e \in Events :
          /\ Emit(e) /\ UNCHANGED owed /\ e.type = "response.created" /\ e.of = Answering
          /\ reply' = [on |-> TRUE, text |-> 0, audio |-> 0] /\ ~reply.on
    <3>1. attached \in Convs /\ owed[attached] # <<>>
      BY <1>4 DEF ServerCreated, TypeOK, ServerTypeOK
    <3>2. Event("response.created", Answering, 0, 0, NoConv) \in Events
      BY <3>1, AnsweringTyped DEF Event, Events, EventTypes, NoConv
    <3> QED BY <1>4, <3>2 DEF ServerCreated, Event
  <2>2. \A s \in Streams : AtServer(s) => Follows(s, e)
    BY <2>1 DEF AtServer, Follows, Final, WithinResponse
  <2>3. Answering' = Answering
    BY <2>1 DEF Answering, Emit
  <2>4. \A s, r : AtServer(s) /\ s \in Streams /\ r = After(s, e) => AtServer(r)'
    BY <2>1, <2>3, AfterIs DEF AtServer, Final
  <2> QED BY <1>1, <2>1, <2>2, <2>4
<1>5. CASE ServerText \/ ServerAudio \/ ServerAudioDone
  <2>1. attached \in Convs /\ owed[attached] # <<>> /\ reply.on
    BY <1>2, <1>5 DEF ServerText, ServerAudio, ServerAudioDone
  <2>2. PICK e \in Events :
          /\ Emit(e) /\ UNCHANGED owed /\ e.of = Answering /\ reply'.on
          /\ \/ e.type = "transcript.delta" /\ reply'.text = reply.text + e.text /\ reply'.audio = reply.audio
             \/ e.type = "audio.delta" /\ reply'.audio = reply.audio + e.audio /\ reply'.text = reply.text
             \/ e.type = "audio.done" /\ reply' = reply
    <3>1. \A type \in {"transcript.delta", "audio.delta", "audio.done"}, m, n \in {0, 1, 2} :
             Event(type, Answering, m, n, NoConv) \in Events
      BY <2>1, AnsweringTyped DEF Event, Events, EventTypes, NoConv
    <3>2. CASE ServerText
      <4>1. /\ Emit(Event("transcript.delta", Answering, 1, 0, NoConv)) /\ UNCHANGED owed
            /\ reply'.on /\ reply'.text = reply.text + 1 /\ reply'.audio = reply.audio
        BY <1>2, <2>1, <3>2 DEF ServerText, Replies
      <4> QED BY <3>1, <4>1 DEF Event
    <3>3. CASE ServerAudio
      <4>1. PICK n \in {1, 2} :
            /\ Emit(Event("audio.delta", Answering, 0, n, NoConv)) /\ UNCHANGED owed
            /\ reply'.on /\ reply'.audio = reply.audio + n /\ reply'.text = reply.text
        BY <1>2, <2>1, <3>3 DEF ServerAudio, Replies
      <4> QED BY <3>1, <4>1 DEF Event
    <3>4. CASE ServerAudioDone
      BY <2>1, <3>1, <3>4 DEF ServerAudioDone, Event
    <3> QED BY <1>5, <3>2, <3>3, <3>4
  <2>3. \A s \in Streams : AtServer(s) => Follows(s, e)
    BY <2>1, <2>2 DEF AtServer, Follows, Final, WithinResponse
  <2>4. Answering' = Answering
    BY <2>2 DEF Answering, Emit
  <2>5. \A s, r : AtServer(s) /\ s \in Streams /\ r = After(s, e) => AtServer(r)'
    BY <1>2, <2>1, <2>2, <2>4, AfterIs DEF AtServer, Final, Streams, Replies
  <2> QED BY <1>1, <2>2, <2>3, <2>5
<1>6. CASE ServerDone
  <2>1. PICK e \in Events :
          /\ Emit(e) /\ reply.on /\ ~reply'.on /\ Final(e)
          /\ e.of = Answering /\ e.text = reply.text /\ e.audio = reply.audio
    <3>1. PICK type \in {"response.done", "response.incomplete"} :
              /\ Emit(Event(type, Answering, reply.text, reply.audio, NoConv)) /\ reply.on
              /\ reply' = [reply EXCEPT !.on = FALSE]
      BY <1>6 DEF ServerDone
    <3>2. Event(type, Answering, reply.text, reply.audio, NoConv) \in Events
      BY <1>2, <3>1, AnsweringTyped DEF Event, Events, EventTypes, NoConv
    <3>3. ~reply'.on
      BY <1>2, <3>1 DEF Replies
    <3> QED BY <3>1, <3>2, <3>3 DEF Event, Final
  <2>2. \A s \in Streams : AtServer(s) => Follows(s, e)
    BY <2>1 DEF AtServer, Follows, Final, WithinResponse
  <2>3. \A s, r : AtServer(s) /\ s \in Streams /\ r = After(s, e) => AtServer(r)'
    BY <2>1, AfterIs DEF AtServer
  <2> QED BY <1>1, <2>1, <2>2, <2>3
<1> QED BY <1>3, <1>4, <1>5, <1>6 DEF Server

\* What consume accepts, it hears as it was said.
LEMMA HeardGoesOn ==
    ASSUME NEW c \in Collectors, NEW e \in Events, NEW s \in Streams,
           ~Rejects(c, e), Follows(s, e), Heard(c, s), ~Final(e)
    PROVE  Heard(Absorb(c, e), After(s, e))
<1>1. c.active \in BOOLEAN /\ s.on \in BOOLEAN /\ c.of \subseteq Turns
  BY DEF Collectors, Streams
<1>2. CASE c.active
  <2>1. c.of = s.of /\ c.text = s.text /\ c.audio = s.audio /\ s.on /\ e.type # "response.created"
    BY <1>2 DEF Heard, Rejects
  <2>2. e.of = {} \/ e.of = s.of
    BY <2>1 DEF Follows
  <2>3. c.of \cup e.of = s.of
    BY <2>1, <2>2
  <2> QED BY <1>2, <2>1, <2>3 DEF Absorb, After, Heard
<1>3. CASE ~c.active /\ e.type = "response.created"
  <2>1. c.of = {} /\ c.text = 0 /\ c.audio = 0
    BY <1>3 DEF Heard
  <2>2. c.of \cup e.of = e.of
    BY <2>1
  <2> QED BY <1>3, <2>1, <2>2 DEF Absorb, After, Heard
<1>4. CASE ~c.active /\ e.type # "response.created"
  <2>1. c.of = {} /\ c.text = 0 /\ c.audio = 0
    BY <1>4 DEF Heard
  <2>2. e.type \notin WithinResponse
    BY <1>4 DEF Rejects
  <2>3. e.of = {}
    BY <1>4, <2>2 DEF Follows
  <2>4. c.of \cup e.of = {}
    BY <2>1, <2>3
  <2> QED BY <1>4, <2>1, <2>2, <2>4 DEF Absorb, Heard, WithinResponse
<1> QED BY <1>1, <1>2, <1>3, <1>4

LEMMA StreamInvStep ==
    ASSUME TypeOK, TurnInv, StreamInv, [Next]_vars
    PROVE  StreamInv'
<1> USE DEF server, history, client
<1>1. CASE CallConnect \/ RunTurn \/ RefusePrompt \/ UNCHANGED vars
  <2>1. UNCHANGED server /\ (pc' = "receiving" => pc = "receiving" /\ UNCHANGED collector)
    BY <1>1 DEF CallConnect, RunTurn, RefusePrompt, Return, vars
  <2> QED BY <2>1, StreamStays DEF AtServer, Answering
<1>2. CASE CallClose \/ AwaitReadyTimeout \/ Failure
  BY <1>2, StreamForgotten DEF CallClose, AwaitReadyTimeout, Failure, CloseSocket, Return
<1>3. CASE OpenOk
  <2>1. PICK s : s = [on |-> FALSE, of |-> {}, text |-> 0, audio |-> 0] /\ s \in Streams
    <3>1. [on |-> FALSE, of |-> {}, text |-> 0, audio |-> 0] \in Streams
      BY DEF Streams
    <3> QED BY <3>1
  <2>2. PICK n \in {0, 1} :
          /\ n = Len(inbox') /\ pc' # "receiving" /\ ~reply'.on
          /\ n = 1 => inbox'[1].type = "conversation.created" /\ inbox'[1].of = {}
    BY <1>3 DEF OpenOk, Event
  <2> DEFINE U == [i \in 0 .. n |-> s]
  <2>3. /\ U \in [0 .. n -> Streams] /\ \A i \in 0 .. n : U[i] = s
        /\ \A i \in 1 .. n : i = 1 /\ n = 1 /\ i - 1 = 0 /\ i \in 0 .. n /\ 0 \in 0 .. n
        /\ n \in 0 .. n
    BY <2>1
  <2> HIDE DEF U
  <2>4. PICK V : V = U
    OBVIOUS
  <2>5. \A i \in 1 .. n : Follows(V[i - 1], inbox'[i]) /\ V[i] = After(V[i - 1], inbox'[i])
    <3>1. SUFFICES ASSUME NEW i \in 1 .. n
                   PROVE  Follows(V[i - 1], inbox'[i]) /\ V[i] = After(V[i - 1], inbox'[i])
      OBVIOUS
    <3>2. PICK e : e = inbox'[1]
      OBVIOUS
    <3>3. V[i - 1] = s /\ V[i] = s /\ inbox'[i] = e /\ e.type = "conversation.created" /\ e.of = {}
      BY <2>2, <2>3, <2>4, <3>2
    <3>4. ~Final(e)
      BY <3>3 DEF Final
    <3>5. After(s, e) = s
      BY <2>1, <3>3, <3>4 DEF After
    <3>6. Follows(s, e)
      BY <2>1, <3>3 DEF Follows, Final, WithinResponse
    <3> QED BY <3>3, <3>5, <3>6
  <2>6. AtServer(V[n])'
    BY <2>1, <2>2, <2>3, <2>4 DEF AtServer
  <2>7. Tracks(V)'
    BY <2>2, <2>3, <2>4, <2>5, <2>6 DEF Tracks, AtServer
  <2> QED BY <2>7 DEF StreamInv
<1>4. CASE AwaitReadyGoesOn
  <2>1. /\ inbox # <<>> /\ inbox' = Tail(inbox) /\ pc' # "receiving"
        /\ UNCHANGED <<link, reply, attached, owed>>
    BY <1>4 DEF AwaitReadyGoesOn, AwaitReadyReceive
  <2> QED BY <2>1, StreamReceived
<1>5. CASE SendDelivered
  <2>1. /\ Deliver /\ UNCHANGED <<inbox, link, collector>> /\ link = "up"
        /\ pc' = "receiving" => pc = "sendCreate"
    BY <1>5 DEF SendDelivered, Deliver, DeliverConfiguration, DeliverUserItem,
                DeliverResponseCreate, AfterSend
  <2>2. pc = "sendCreate" => \A s : Heard(collector, s)
    BY DEF TurnInv, TypeOK, Coherent, Speaking, FreshCollector, Heard
  <2>3. pc' = "receiving" => \A s : Heard(collector', s)
    BY <2>1, <2>2
  <2> QED BY <2>1, <2>3, StreamStays, DeliverKeepsStream
<1>6. CASE SendLost
  <2>1. /\ UNCHANGED <<inbox, collector>> /\ link' = "down"
        /\ pc' = "receiving" => pc = "sendCreate"
    BY <1>6 DEF SendLost, AfterSend, Sending
  <2>2. pc = "sendCreate" => \A s : Heard(collector, s)
    BY DEF TurnInv, TypeOK, Coherent, Speaking, FreshCollector, Heard
  <2>3. pc' = "receiving" => \A s : Heard(collector', s)
    BY <2>1, <2>2
  <2> QED BY <2>1, <2>3, StreamStays
<1>7. CASE ReceiveAccepted
  <2> DEFINE e == Head(inbox)
  <2>1. /\ inbox # <<>> /\ inbox' = Tail(inbox) /\ pc = "receiving"
        /\ UNCHANGED <<link, reply, attached, owed>>
        /\ e.type \notin {"error", "response.done", "response.incomplete"}
        /\ collector' \in Consume(collector, e)
    BY <1>7 DEF ReceiveAccepted
  <2>2. /\ e \in Events /\ ~Rejects(collector, e) /\ collector' = Absorb(collector, e)
        /\ collector \in Collectors
    BY <2>1, Absorbed
  <2>3. \A s \in Streams : Follows(s, e) /\ Heard(collector, s) => Heard(collector', After(s, e))
    BY <2>1, <2>2, HeardGoesOn DEF Final
  <2> QED BY <2>1, <2>3, StreamReceived
<1>8. CASE ReceiveDone
  <2>1. /\ inbox # <<>> /\ inbox' = Tail(inbox) /\ pc' # "receiving"
        /\ UNCHANGED <<link, reply, attached, owed>>
    BY <1>8 DEF ReceiveDone, Return
  <2> QED BY <2>1, StreamReceived
<1>9. CASE CancelUnhandled
  <2>1. pc' # "receiving" /\ UNCHANGED inbox
    BY <1>9 DEF CancelUnhandled, Return, Deliver
  <2>2. CASE UNCHANGED server
    BY <2>1, <2>2, StreamStays DEF AtServer, Answering
  <2>3. CASE Deliver
    <3>1. link = "up"
      BY <2>3 DEF Deliver
    <3> QED BY <2>1, <2>3, <3>1, StreamStays, DeliverKeepsStream
  <2> QED BY <1>9, <2>2, <2>3 DEF CancelUnhandled
<1>10. CASE Server
  BY <1>10, ServerExtends
<1>11. CASE LinkDrops
  BY <1>11, StreamCut DEF LinkDrops
<1> QED BY <1>1, <1>2, <1>3, <1>4, <1>5, <1>6, <1>7, <1>8, <1>9, <1>10, <1>11, StepCases

LEMMA InitStream == Init => StreamInv
<1> SUFFICES ASSUME Init PROVE StreamInv
  OBVIOUS
<1>1. PICK s : s \in Streams
  <2>1. [on |-> FALSE, of |-> {}, text |-> 0, audio |-> 0] \in Streams
    BY DEF Streams
  <2> QED BY <2>1
<1> DEFINE T == [i \in 0 .. 0 |-> s]
<1>2. T \in [0 .. Len(inbox) -> Streams] /\ Len(inbox) = 0
  BY <1>1 DEF Init
<1>3. Tracks(T)
  BY <1>2 DEF Init, Tracks
<1> QED BY <1>3 DEF StreamInv

\* The end of a response is answered with what was heard of it, which is all of it.
LEMMA CompleteStep ==
    ASSUME TypeOK, StreamInv, AnswerIsComplete, [Next]_vars
    PROVE  AnswerIsComplete'
<1> USE DEF server, history, client
<1>1. ASSUME UNCHANGED answer PROVE AnswerIsComplete'
  BY <1>1 DEF AnswerIsComplete
<1>2. CASE ReceiveDone
  <2> DEFINE e == Head(inbox)
  <2>1. pc = "receiving" /\ inbox # <<>> /\ e.type = "response.done"
    BY <1>2 DEF ReceiveDone
  <2>2. PICK c \in Consume(collector, e) :
            answer' = [answer EXCEPT ![turn] =
                 [heard |-> [of |-> c.of, text |-> c.text, audio |-> c.audio],
                  said  |-> [of |-> e.of, text |-> e.text, audio |-> e.audio]]]
    BY <1>2 DEF ReceiveDone
  <2>3. c = Absorb(collector, e) /\ ~Rejects(collector, e) /\ collector \in Collectors
    BY <2>1, Absorbed
  <2>4. PICK T : Tracks(T)
    BY DEF StreamInv
  <2>5. Follows(T[0], e) /\ Heard(collector, T[0])
    <3>1. inbox \in Seq(Events)
      BY DEF TypeOK, ServerTypeOK
    <3>2. 1 \in 1 .. Len(inbox) /\ 1 - 1 = 0 /\ e = inbox[1]
      BY <2>1, <3>1, SequenceShapes
    <3> QED BY <2>1, <2>4, <3>2 DEF Tracks
  <2> HIDE DEF e
  <2>6. collector.active
    BY <2>1, <2>3 DEF Rejects, WithinResponse
  <2>7. collector.of = e.of /\ collector.text = e.text /\ collector.audio = e.audio
    BY <2>1, <2>5, <2>6 DEF Follows, Heard, Final
  <2>8. c.of = e.of /\ c.text = e.text /\ c.audio = e.audio
    BY <2>1, <2>3, <2>7 DEF Absorb
  <2>9. \A t \in Turns : answer'[t].heard = answer'[t].said
    BY <2>2, <2>8 DEF AnswerIsComplete, TypeOK, HistoryTypeOK
  <2> QED BY <2>9 DEF AnswerIsComplete
<1>3. CASE Failure \/ RunTurn \/ RefusePrompt \/ CancelUnhandled \/ CallConnect \/ CallClose \/ OpenOk
           \/ AwaitReadyGoesOn \/ AwaitReadyTimeout \/ SendDelivered \/ SendLost \/ ReceiveAccepted
           \/ LinkDrops \/ UNCHANGED vars
  <2>1. UNCHANGED answer
    BY <1>3 DEF Failure, RunTurn, RefusePrompt, CancelUnhandled, CallConnect, CallClose, OpenOk,
        AwaitReadyGoesOn, AwaitReadyReceive, AwaitReadyTimeout, SendDelivered, SendLost,
        ReceiveAccepted, LinkDrops, vars
  <2> QED BY <1>1, <2>1
<1>4. CASE Server
  BY <1>1, <1>4, ServerEmits DEF Emission, Emit
<1> QED BY <1>2, <1>3, <1>4, StepCases

\* What run_turn returns is the whole of what the server said in that response, wherever
\* calls are cancelled, connections lost and conversations resumed.
THEOREM AnswersAreComplete == Spec => []AnswerIsComplete
<1> DEFINE I == TypeOK /\ TurnInv /\ StreamInv /\ AnswerIsComplete
<1>1. I /\ [Next]_vars => I'
  BY StepTyped, TurnInvStep, StreamInvStep, CompleteStep
<1>2. Init => I
  <2>1. Init => AnswerIsComplete
    BY DEF Init, AnswerIsComplete
  <2> QED BY <2>1, InitTyped, InitTurn, InitStream
<1>3. I => AnswerIsComplete
  OBVIOUS
<1> HIDE DEF I
<1> QED BY <1>1, <1>2, <1>3, PTL DEF Spec
=============================================================================
