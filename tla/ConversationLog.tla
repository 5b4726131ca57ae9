-------------------------- MODULE ConversationLog --------------------------
(***************************************************************************)
(* Chat requests and the log of their turns (chat/service.py,              *)
(* chat/conversation_producer.py).  A live turn is published as a request  *)
(* and a response event that share a turn_id, on the event loop: from the  *)
(* agent's answer to the end of the flush no other chat makes a step,      *)
(* while librdkafka delivers in the background.  The agent is external     *)
(* here (ChatSessions models it), and so is the broker.                    *)
(***************************************************************************)
EXTENDS Naturals, Sequences, FiniteSets, SequencesExt

CONSTANTS
    Chats,       \* POST /chat requests
    Sessions, SessionOf,   \* the session_id each one carries, or None
    Configs,     \* settings: live is _live_ready(), produce the switch of the log
    None,
    QueueSize,   \* bound of librdkafka's queue
    MaxFaults    \* bound: failed calls, lost acknowledgements, crashes

ASSUME ConversationConstantsOK ==
    /\ None \notin Sessions \cup Chats /\ SessionOf \in [Chats -> Sessions \cup {None}]
    /\ Configs \subseteq [live : BOOLEAN, produce : BOOLEAN]
    /\ QueueSize \in Nat /\ MaxFaults \in Nat

VARIABLES
    config,
    pc,          \* pc[c]: step of the chat c
    loop,        \* the chat that holds the event loop without awaiting, or None
    said,        \* said[c]: what the agent answered, None before
    replied,     \* replied[c]: reply and source_mode of the response, or None
    producer,    \* the module's producer exists
    queue,       \* events handed to librdkafka and not yet acknowledged
    topic,       \* events on agent_conversations (a set: copies do not matter)
    answered,    \* history: the chats in the order the agent answered them
    sent,        \* history: events in the order they were handed over
    faults
vars == <<config, pc, loop, said, replied, producer, queue, topic, answered, sent, faults>>

Init ==
    /\ config \in Configs
    /\ pc = [c \in Chats |-> "idle"] /\ loop = None
    /\ said = [c \in Chats |-> None] /\ replied = [c \in Chats |-> None]
    /\ producer = FALSE /\ queue = {} /\ topic = {}
    /\ answered = <<>> /\ sent = <<>> /\ faults = 0
-----------------------------------------------------------------------------
Goto(c, step) == pc' = [pc EXCEPT ![c] = step]
Fault == faults < MaxFaults /\ faults' = faults + 1
Log == UNCHANGED <<producer, queue, topic, sent>>

Question(c) == <<"question of", c>>
Empty == <<"">>
NoAnswer == <<"(no answer)">>
Canned == <<"not connected yet">>
Sorry == <<"couldn't reach the assistant">>
Texts(c) == {<<"answer to", c>>, Empty, NoAnswer}
Event(turn, session, type, content) ==
    [turn_id |-> turn, session_id |-> session, type |-> type, content |-> content]

Respond(c, text, mode) == replied' = [replied EXCEPT ![c] = [reply |-> text, mode |-> mode]]

\* POST /chat: live mode with a complete configuration asks the agent.
Ask(c) ==
    /\ pc[c] = "idle" /\ loop = None
    /\ \/ config.live /\ Goto(c, "agent") /\ UNCHANGED replied
       \/ ~config.live /\ Goto(c, "done") /\ Respond(c, Canned, "stub")
    /\ Log /\ UNCHANGED <<config, loop, said, answered, faults>>

\* The await on the agent ends; no further await before the reply.
Released(c) == None                            \* mutant: published from a task
Held(c) == c
AgentAnswers(c) ==
    /\ pc[c] = "agent" /\ loop = None
    /\ \E text \in Texts(c) \ {NoAnswer} : said' = [said EXCEPT ![c] = text]
    /\ answered' = Append(answered, c)
    /\ loop' = Held(c)
    /\ Goto(c, IF config.produce THEN "producer" ELSE "reply")
    /\ Log /\ UNCHANGED <<config, replied, faults>>
AgentFails(c) ==
    /\ pc[c] = "agent" /\ loop = None
    /\ Fault
    /\ Goto(c, "done")
    /\ Respond(c, Sorry, "error")
    /\ Log /\ UNCHANGED <<config, loop, said, answered>>
-----------------------------------------------------------------------------
\* produce_turn: whatever raises is logged; the rest of the turn is skipped.
RaisedOn(c) ==                                 \* mutant: without the try
    Goto(c, "done") /\ Respond(c, Sorry, "error") /\ loop' = None
GivenUp(c) == Goto(c, "reply") /\ UNCHANGED <<replied, loop>>

\* The schema is registered and the producer made, once per process.
GetProducer(c) ==
    /\ pc[c] = "producer"
    /\ \/ producer' = TRUE /\ Goto(c, "request") /\ UNCHANGED <<replied, loop, faults>>
       \/ ~producer /\ Fault /\ GivenUp(c) /\ UNCHANGED producer
    /\ UNCHANGED <<config, said, queue, topic, answered, sent>>

Shown(text) == IF text = Empty THEN NoAnswer ELSE text
TurnOfSession(c) == SessionOf[c]               \* mutant: one id per session
TurnId(c) == c                                 \* uuid4()

HandUnchecked(c, event, next) ==               \* mutant: a queue without a limit
    /\ queue' = queue \cup {event}
    /\ sent' = Append(sent, event)
    /\ Goto(c, next) /\ UNCHANGED <<replied, loop, faults>>
\* produce() raises when the queue is full or the value cannot be serialised.
Hand(c, event, next) ==
    \/ /\ Cardinality(queue) < QueueSize
       /\ queue' = queue \cup {event}
       /\ sent' = Append(sent, event)
       /\ Goto(c, next) /\ UNCHANGED <<replied, loop, faults>>
    \/ /\ Cardinality(queue) >= QueueSize
       /\ GivenUp(c) /\ UNCHANGED <<queue, sent, faults>>
    \/ Fault /\ GivenUp(c) /\ UNCHANGED <<queue, sent>>
ProduceRequest(c) ==
    /\ pc[c] = "request"
    /\ Hand(c, Event(TurnId(c), SessionOf[c], "request", Question(c)), "response")
    /\ UNCHANGED <<config, said, producer, topic, answered>>
Logged(text) == Shown(text)
ProduceResponse(c) ==
    /\ pc[c] = "response"
    /\ Hand(c, Event(TurnId(c), SessionOf[c], "response", Logged(said[c])), "flush")
    /\ UNCHANGED <<config, said, producer, topic, answered>>

\* flush(5 s): ends when the queue is empty or the time is over.
FlushAll(c) ==                                 \* mutant: flush() without a limit
    /\ pc[c] = "flush" /\ queue = {}
    /\ Goto(c, "reply")
    /\ Log /\ UNCHANGED <<config, loop, said, replied, answered, faults>>
Flush(c) ==
    /\ pc[c] = "flush"
    /\ Goto(c, "reply")
    /\ Log /\ UNCHANGED <<config, loop, said, replied, answered, faults>>

Reply(c) ==
    /\ pc[c] = "reply"
    /\ Respond(c, Shown(said[c]), "live")
    /\ Goto(c, "done") /\ loop' = None
    /\ Log /\ UNCHANGED <<config, said, answered, faults>>
-----------------------------------------------------------------------------
\* External: an event arrives, and its acknowledgement may be lost, so that it
\* is sent again; or it is given up after the message timeout.
Deliver ==
    /\ \E event \in queue :
          /\ topic' = topic \cup {event}
          /\ \/ queue' = queue \ {event} /\ UNCHANGED faults
             \/ Fault /\ event \notin topic /\ UNCHANGED queue
    /\ UNCHANGED <<config, pc, loop, said, replied, producer, answered, sent>>
Expire ==
    /\ Fault
    /\ \E event \in queue : queue' = queue \ {event}
    /\ UNCHANGED <<config, pc, loop, said, replied, producer, topic, answered, sent>>

\* The process ends, with its queue and the chats it was serving.
Crash ==
    /\ Fault
    /\ pc' = [c \in Chats |-> IF pc[c] \in {"idle", "done"} THEN pc[c] ELSE "lost"]
    /\ loop' = None /\ producer' = FALSE /\ queue' = {}
    /\ UNCHANGED <<config, said, replied, topic, answered, sent>>

Work(c) ==
    \/ Ask(c) \/ AgentAnswers(c) \/ AgentFails(c) \/ GetProducer(c)
    \/ ProduceRequest(c) \/ ProduceResponse(c) \/ Flush(c) \/ Reply(c)
Next == Deliver \/ Expire \/ Crash \/ \E c \in Chats : Work(c)

Spec == Init /\ [][Next]_vars
\* The event loop runs every task that is ready, and the agent's calls have
\* timeouts; nothing is assumed of the broker.
FairSpec == Spec /\ \A c \in Chats : WF_vars(Work(c))
-----------------------------------------------------------------------------
(* Properties *)

Events == [turn_id : Chats \cup Sessions \cup {None}, session_id : Sessions \cup {None},
           type : {"request", "response"},
           content : UNION {{Question(c)} \cup Texts(c) : c \in Chats}]

\* Every variable has its type.
TypeOK ==
    /\ config \in Configs /\ producer \in BOOLEAN /\ faults \in 0..MaxFaults
    /\ pc \in [Chats -> {"idle", "agent", "producer", "request", "response", "flush",
                         "reply", "done", "lost"}]
    /\ loop \in Chats \cup {None}
    /\ \A c \in Chats : said[c] \in Texts(c) \cup {None}
    /\ \A c \in Chats :
          replied[c] # None => /\ replied[c].mode \in {"stub", "live", "error"}
                               /\ replied[c].reply \in Texts(c) \cup {Canned, Sorry}
    /\ queue \subseteq Events /\ topic \subseteq Events /\ Cardinality(queue) <= QueueSize
    /\ ToSet(sent) \subseteq Events /\ ToSet(answered) \subseteq Chats

\* Whichever events were lost, sent twice or left half done, two events with one
\* turn_id are the question and the answer of one chat (produce_turn: "a linked
\* request + response pair"): a consumer that joins them never mixes two turns.
TurnsNeverMix ==
    \A e, f \in topic :
        e.turn_id = f.turn_id /\ e # f =>
            /\ e.session_id = f.session_id /\ {e.type, f.type} = {"request", "response"}
            /\ \E c \in Chats : \E text \in Texts(c) :
                  {e.content, f.content} = {Question(c), text}

\* "a Kafka hiccup can't break the reply" (service.py:69): a chat that the agent
\* has answered is replied to with this answer, whatever the log did, and what the
\* log holds of it is what the user was shown.
AnsweredAsLogged ==
    /\ \A c \in Chats :
          said[c] # None /\ replied[c] # None =>
              replied[c] = [reply |-> Shown(said[c]), mode |-> "live"]
    /\ \A e \in topic, c \in Chats :
          e.turn_id = c /\ e.type = "response" /\ replied[c] # None =>
              replied[c].reply = e.content

\* Overlapping chats do not interleave in the log: the turns are handed over in
\* the order in which the agent answered them, each turn as a whole.
LogFollowsAnswers ==
    \A m, n \in DOMAIN sent : \A c, d \in Chats :
        /\ m < n
        /\ sent[m].turn_id = c /\ sent[n].turn_id = d /\ c # d
        => \E k, l \in DOMAIN answered : answered[k] = c /\ answered[l] = d /\ k < l

\* Every chat is replied to, also while the broker answers nothing; only the end
\* of the process loses it.
EveryChatReplied == \A c \in Chats : pc[c] = "agent" ~> pc[c] \in {"done", "lost"}
=============================================================================
