----------------------- MODULE ConversationLogProofs -----------------------
(***************************************************************************)
(* Proofs about the log of the chat turns: for any number of chats and     *)
(* sessions, any queue and any number of faults.                           *)
(***************************************************************************)
EXTENDS ConversationLog, FiniteSetTheorems, SequenceTheorems, TLAPS

\* The assumptions on the constants, apart.
LEMMA Bounds == QueueSize \in Nat /\ MaxFaults \in Nat
  BY ConversationConstantsOK
LEMMA NoneIsNoChat == None \notin Chats
  BY ConversationConstantsOK
LEMMA SessionKnown == ASSUME NEW c \in Chats PROVE SessionOf[c] \in Sessions \cup {None}
  BY ConversationConstantsOK

AllTexts == UNION {Texts(c) : c \in Chats}
Replies == [reply : AllTexts \cup {Canned, Sorry}, mode : {"stub", "live", "error"}]
Busy == {"producer", "request", "response", "flush", "reply"}
Handed == queue \cup topic \cup ToSet(sent)

Types ==
    /\ config \in Configs /\ producer \in BOOLEAN /\ faults \in 0..MaxFaults
    /\ pc \in [Chats -> Busy \cup {"idle", "agent", "done", "lost"}]
    /\ loop \in Chats \cup {None}
    /\ said \in [Chats -> AllTexts \cup {None}]
    /\ replied \in [Chats -> Replies \cup {None}]
    /\ IsFiniteSet(queue) /\ Cardinality(queue) <= QueueSize
    /\ sent \in Seq(Events) /\ answered \in Seq(Chats)

\* What the chat c shows its user once the agent has answered it.
ShownTo(c) == replied[c] = [reply |-> Shown(said[c]), mode |-> "live"]

\* Where a chat is tells what it knows, and who holds the event loop.
Progress(c) ==
    /\ pc[c] \in {"idle", "agent"} => said[c] = None
    /\ pc[c] \in Busy => loop = c /\ said[c] \in Texts(c)
    /\ said[c] \in Texts(c) \cup {None}
    /\ pc[c] # "done" => replied[c] = None
    /\ pc[c] = "done" /\ said[c] # None => ShownTo(c)
    /\ replied[c] # None => replied[c].reply \in Texts(c) \cup {Canned, Sorry}

\* Every event is the question of a chat, or the answer that its user is shown.
IsRequest(e, c) == e = Event(c, SessionOf[c], "request", Question(c))
IsResponse(e, c) ==
    /\ e = Event(c, SessionOf[c], "response", Shown(said[c]))
    /\ said[c] \in Texts(c)
    /\ pc[c] \in {"flush", "reply", "done", "lost"}
    /\ pc[c] = "done" => ShownTo(c)
Told == \A e \in Handed : \E c \in Chats : IsRequest(e, c) \/ IsResponse(e, c)

\* The chat that holds the loop is the last the agent has answered, and only
\* answered chats have handed events over.
Latest == loop # None => answered # <<>> /\ answered[Len(answered)] = loop
OnlyAnswered == \A n \in DOMAIN sent : \E k \in DOMAIN answered : answered[k] = sent[n].turn_id

IInv ==
    /\ Types /\ Told /\ Latest /\ OnlyAnswered /\ LogFollowsAnswers
    /\ \A c \in Chats : Progress(c)
-----------------------------------------------------------------------------
LEMMA ShownIsText ==
    ASSUME NEW c \in Chats, NEW text \in Texts(c)
    PROVE  Shown(text) \in Texts(c)
  BY DEF Shown, Texts

LEMMA ChatEvents ==
    ASSUME NEW c \in Chats, NEW text \in Texts(c)
    PROVE  /\ Event(c, SessionOf[c], "request", Question(c)) \in Events
           /\ Event(c, SessionOf[c], "response", Shown(text)) \in Events
  <1>1. /\ Question(c) \in UNION {{Question(d)} \cup Texts(d) : d \in Chats}
        /\ Shown(text) \in UNION {{Question(d)} \cup Texts(d) : d \in Chats}
    BY ShownIsText
  <1> QED BY <1>1, SessionKnown DEF Event, Events

LEMMA TextKnown ==
    ASSUME NEW c \in Chats
    PROVE  Texts(c) \subseteq AllTexts
  BY DEF AllTexts

LEMMA FaultCounted ==
    ASSUME IInv, Fault \/ UNCHANGED faults
    PROVE  faults' \in 0..MaxFaults
  <1>1. faults \in 0..MaxFaults
    BY DEF IInv, Types
  <1> QED BY <1>1, Bounds DEF Fault

LEMMA EventParts ==
    ASSUME NEW t, NEW s, NEW y, NEW x
    PROVE  /\ Event(t, s, y, x).turn_id = t /\ Event(t, s, y, x).session_id = s
           /\ Event(t, s, y, x).type = y /\ Event(t, s, y, x).content = x
  BY DEF Event

\* What every handed event is known by.
LEMMA ToldParts ==
    ASSUME IInv, NEW e \in Handed
    PROVE  \E c \in Chats :
              /\ e.turn_id = c /\ e.session_id = SessionOf[c]
              /\ \/ /\ IsRequest(e, c) /\ e.type = "request" /\ e.content = Question(c)
                 \/ /\ IsResponse(e, c) /\ e.type = "response" /\ e.content = Shown(said[c])
  <1>1. PICK c \in Chats : IsRequest(e, c) \/ IsResponse(e, c)
    BY DEF IInv, Told
  <1>2. CASE IsRequest(e, c)
    BY <1>2, EventParts DEF IsRequest
  <1>3. CASE IsResponse(e, c)
    BY <1>3, EventParts DEF IsResponse
  <1> QED BY <1>1, <1>2, <1>3
-----------------------------------------------------------------------------
(* The parts of the invariant that concern the log *)

Answers == answered' = answered /\ loop' \in {loop, None}

\* A step that hands nothing over and lets no chat forget what it has said.
LEMMA LogKept ==
    ASSUME IInv, Handed' \subseteq Handed, UNCHANGED sent,
           \A d \in Chats : pc[d] \in {"flush", "reply", "done", "lost"} /\ said[d] \in Texts(d) =>
              /\ said'[d] = said[d]
              /\ pc'[d] \in {"flush", "reply", "done", "lost"}
              /\ \/ pc'[d] # "done"
                 \/ pc[d] = "done" /\ replied'[d] = replied[d]
                 \/ replied'[d] = [reply |-> Shown(said[d]), mode |-> "live"],
           Answers
    PROVE  Told' /\ Latest' /\ OnlyAnswered' /\ LogFollowsAnswers'
  <1>1. Told'
    <2>1. ASSUME NEW e \in Handed' PROVE \E c \in Chats : IsRequest(e, c)' \/ IsResponse(e, c)'
      <3>1. PICK c \in Chats : IsRequest(e, c) \/ IsResponse(e, c)
        BY <2>1 DEF IInv, Told
      <3>2. CASE IsRequest(e, c)
        BY <3>2 DEF IsRequest
      <3>3. CASE IsResponse(e, c)
        BY <3>3 DEF IsResponse, ShownTo
      <3> QED BY <3>1, <3>2, <3>3
    <2> QED BY <2>1 DEF Told
  <1>2. Latest' /\ OnlyAnswered' /\ LogFollowsAnswers'
    BY DEF IInv, Latest, OnlyAnswered, LogFollowsAnswers, Answers
  <1> QED BY <1>1, <1>2

\* Handing over an event of the chat that holds the loop.
LEMMA HandedOver ==
    ASSUME IInv, NEW c \in Chats, pc[c] \in Busy,
           NEW e \in Events, e.turn_id = c, IsRequest(e, c)' \/ IsResponse(e, c)',
           pc[c] \notin {"flush", "reply"}, \A d \in Chats \ {c} : pc'[d] = pc[d],
           queue' = queue \cup {e}, sent' = Append(sent, e),
           UNCHANGED <<loop, said, replied, topic, answered>>
    PROVE  Told' /\ Latest' /\ OnlyAnswered' /\ LogFollowsAnswers'
  <1>1. sent \in Seq(Events) /\ answered \in Seq(Chats)
    BY DEF IInv, Types
  <1>2. /\ Len(sent') = Len(sent) + 1 /\ Len(sent) \in Nat /\ Len(answered) \in Nat
        /\ DOMAIN sent = 1..Len(sent) /\ DOMAIN sent' = 1..Len(sent')
        /\ DOMAIN answered = 1..Len(answered)
        /\ \A n \in DOMAIN sent : sent'[n] = sent[n]
        /\ sent'[Len(sent')] = e
    BY <1>1
  <1>3. Handed' \subseteq Handed \cup {e}
    BY <1>2 DEF Handed, ToSet
  <1>4. Told'
    <2>1. ASSUME NEW f \in Handed', f # e
          PROVE  \E d \in Chats : IsRequest(f, d)' \/ IsResponse(f, d)'
      <3>1. PICK d \in Chats : IsRequest(f, d) \/ IsResponse(f, d)
        BY <1>3, <2>1 DEF IInv, Told
      <3>2. IsRequest(f, d) => IsRequest(f, d)'
        BY DEF IsRequest
      <3>3. IsResponse(f, d) => IsResponse(f, d)'
        BY DEF IsResponse, ShownTo, Busy
      <3> QED BY <3>1, <3>2, <3>3
    <2> QED BY <2>1 DEF Told
  <1>5. Latest'
    BY DEF IInv, Latest
  <1>6. answered # <<>> /\ answered[Len(answered)] = c /\ Len(answered) \in DOMAIN answered
    <2>1. loop = c /\ c # None
      BY NoneIsNoChat DEF IInv, Progress
    <2>2. answered # <<>> /\ answered[Len(answered)] = c
      BY <2>1 DEF IInv, Latest
    <2> QED BY <1>1, <1>2, <2>2
  <1>7. OnlyAnswered'
    BY <1>2, <1>6 DEF IInv, OnlyAnswered
  <1>8. LogFollowsAnswers'
    <2> SUFFICES ASSUME NEW m \in DOMAIN sent', NEW n \in DOMAIN sent',
                        NEW a \in Chats, NEW b \in Chats,
                        m < n, sent'[m].turn_id = a, sent'[n].turn_id = b, a # b
                 PROVE  \E k, l \in DOMAIN answered : answered[k] = a /\ answered[l] = b /\ k < l
      BY DEF LogFollowsAnswers
    <2>1. m \in DOMAIN sent
      BY <1>2
    <2>2. CASE n \in DOMAIN sent
      BY <1>2, <2>1, <2>2 DEF IInv, LogFollowsAnswers
    <2>3. CASE n \notin DOMAIN sent
      <3>1. b = c
        BY <1>2, <2>3
      <3>2. PICK k \in DOMAIN answered : answered[k] = a
        BY <1>2, <2>1 DEF IInv, OnlyAnswered
      <3>3. k < Len(answered)
        BY <1>2, <1>6, <3>1, <3>2
      <3> QED BY <1>6, <3>1, <3>2, <3>3
    <2> QED BY <2>2, <2>3
  <1> QED BY <1>4, <1>5, <1>7, <1>8
-----------------------------------------------------------------------------
(* The actions *)

LEMMA InitInv == Init => IInv
  <1> SUFFICES ASSUME Init PROVE IInv
    OBVIOUS
  <1>1. queue = {} /\ IsFiniteSet(queue) /\ Cardinality(queue) = 0
    BY FS_EmptySet DEF Init
  <1>2. Handed = {}
    BY DEF Init, Handed, ToSet
  <1>3. Types
    <2>1. sent \in Seq(Events) /\ answered \in Seq(Chats)
      BY DEF Init
    <2>2. /\ pc \in [Chats -> Busy \cup {"idle", "agent", "done", "lost"}]
          /\ said \in [Chats -> AllTexts \cup {None}]
          /\ replied \in [Chats -> Replies \cup {None}]
      BY DEF Init
    <2>3. config \in Configs /\ producer \in BOOLEAN /\ loop \in Chats \cup {None}
      BY DEF Init
    <2>4. faults = 0 /\ 0 \in 0..MaxFaults /\ 0 <= QueueSize
      BY Bounds DEF Init
    <2> QED BY <1>1, <2>1, <2>2, <2>3, <2>4 DEF Types
  <1>4. Told /\ Latest /\ OnlyAnswered /\ LogFollowsAnswers
    BY <1>2 DEF Init, Told, Latest, OnlyAnswered, LogFollowsAnswers
  <1>5. \A c \in Chats : Progress(c)
    BY DEF Init, Progress, Busy
  <1> QED BY <1>3, <1>4, <1>5 DEF IInv

\* A chat whose turn hands nothing over at this step.
LEMMA AskInv == ASSUME IInv, NEW c \in Chats, Ask(c) PROVE IInv'
  <1> USE DEF Ask, Goto, Log
  <1>1. Types'
    BY DEF IInv, Types, Respond, Replies
  <1>2. \A d \in Chats : Progress(d)'
    BY DEF IInv, Types, Progress, Respond, ShownTo, Busy
  <1>3. Told' /\ Latest' /\ OnlyAnswered' /\ LogFollowsAnswers'
    <2>1. Handed' \subseteq Handed /\ Answers
      BY DEF Handed, Answers
    <2> QED BY <2>1, LogKept DEF IInv, Types, Respond
  <1> QED BY <1>1, <1>2, <1>3 DEF IInv

LEMMA AgentFailsInv == ASSUME IInv, NEW c \in Chats, AgentFails(c) PROVE IInv'
  <1> USE DEF AgentFails, Goto, Log
  <1>1. Types'
    BY FaultCounted DEF IInv, Types, Respond, Replies, Busy
  <1>2. \A d \in Chats : Progress(d)'
    BY DEF IInv, Types, Progress, Respond, ShownTo, Busy
  <1>3. Told' /\ Latest' /\ OnlyAnswered' /\ LogFollowsAnswers'
    <2>1. Handed' \subseteq Handed /\ Answers
      BY DEF Handed, Answers
    <2> QED BY <2>1, LogKept DEF IInv, Types, Respond
  <1> QED BY <1>1, <1>2, <1>3 DEF IInv

LEMMA AgentAnswersInv == ASSUME IInv, NEW c \in Chats, AgentAnswers(c) PROVE IInv'
  <1> USE DEF AgentAnswers, Goto, Log
  <1>1. PICK text \in Texts(c) : said' = [said EXCEPT ![c] = text]
    OBVIOUS
  <1>2. loop' = c /\ c # None /\ \A d \in Chats : pc[d] \notin Busy
    BY NoneIsNoChat DEF Held, IInv, Progress, Busy
  <1>3. Types'
    BY <1>1, <1>2, TextKnown DEF IInv, Types, Busy
  <1>4. \A d \in Chats : Progress(d)'
    BY <1>1, <1>2 DEF IInv, Types, Progress, ShownTo, Busy
  <1>5. Told'
    <2>1. Handed' = Handed
      BY DEF Handed
    <2>2. ASSUME NEW e \in Handed, NEW d \in Chats, IsResponse(e, d) PROVE IsResponse(e, d)'
      BY <1>1, <2>2 DEF IsResponse, ShownTo, IInv, Types
    <2>3. ASSUME NEW e \in Handed, NEW d \in Chats, IsRequest(e, d) PROVE IsRequest(e, d)'
      BY <2>3 DEF IsRequest
    <2> QED BY <2>1, <2>2, <2>3 DEF IInv, Told
  <1>6. answered \in Seq(Chats) /\ answered' \in Seq(Chats) /\ Len(answered') = Len(answered) + 1
        /\ answered'[Len(answered')] = c /\ DOMAIN answered \subseteq DOMAIN answered'
        /\ \A k \in DOMAIN answered : answered'[k] = answered[k]
    BY DEF IInv, Types
  <1>7. Latest'
    BY <1>2, <1>6 DEF Latest
  <1>8. OnlyAnswered'
    BY <1>6 DEF IInv, OnlyAnswered
  <1>9. LogFollowsAnswers'
    <2> SUFFICES ASSUME NEW m \in DOMAIN sent, NEW n \in DOMAIN sent,
                        NEW a \in Chats, NEW b \in Chats,
                        m < n, sent[m].turn_id = a, sent[n].turn_id = b, a # b
                 PROVE  \E k, l \in DOMAIN answered' :
                            answered'[k] = a /\ answered'[l] = b /\ k < l
      BY DEF LogFollowsAnswers
    <2>1. \E k, l \in DOMAIN answered : answered[k] = a /\ answered[l] = b /\ k < l
      BY DEF IInv, LogFollowsAnswers
    <2> QED BY <1>6, <2>1
  <1> QED BY <1>3, <1>4, <1>5, <1>7, <1>8, <1>9 DEF IInv

LEMMA GetProducerInv == ASSUME IInv, NEW c \in Chats, GetProducer(c) PROVE IInv'
  <1> USE DEF GetProducer, GivenUp, Goto
  <1>1. Types'
    <2>1. producer' \in BOOLEAN /\ UNCHANGED <<replied, loop>>
      BY DEF IInv, Types
    <2> QED BY <2>1, FaultCounted DEF IInv, Types, Busy
  <1>2. \A d \in Chats : Progress(d)'
    BY DEF IInv, Types, Progress, ShownTo, Busy
  <1>3. Told' /\ Latest' /\ OnlyAnswered' /\ LogFollowsAnswers'
    <2>1. Handed' \subseteq Handed /\ Answers
      BY DEF Handed, Answers
    <2> QED BY <2>1, LogKept DEF IInv, Types
  <1> QED BY <1>1, <1>2, <1>3 DEF IInv

\* produce() of one of the two events, or a turn that is given up.
LEMMA HandInv ==
    ASSUME IInv, NEW c \in Chats, NEW e \in Events, NEW next \in {"response", "flush"},
           pc[c] \in {"request", "response"}, Hand(c, e, next), e.turn_id = c,
           \/ e = Event(c, SessionOf[c], "request", Question(c))
           \/ /\ next = "flush"
              /\ e = Event(c, SessionOf[c], "response", Shown(said[c])),
           UNCHANGED <<config, said, producer, topic, answered>>
    PROVE  IInv'
  <1>1. CASE /\ Cardinality(queue) < QueueSize
             /\ queue' = queue \cup {e} /\ sent' = Append(sent, e)
             /\ Goto(c, next) /\ UNCHANGED <<replied, loop, faults>>
    <2>1. IsFiniteSet(queue') /\ Cardinality(queue') <= QueueSize
      <3>1. /\ IsFiniteSet(queue \cup {e}) /\ Cardinality(queue) \in Nat
            /\ Cardinality(queue \cup {e}) =
                  IF e \in queue THEN Cardinality(queue) ELSE Cardinality(queue) + 1
        BY FS_AddElement, FS_CardinalityType DEF IInv, Types
      <3>2. Cardinality(queue) < QueueSize
        BY <1>1
      <3> QED BY <1>1, <3>1, <3>2, Bounds
    <2>2. sent' \in Seq(Events)
      BY <1>1 DEF IInv, Types
    <2>3. Types'
      BY <1>1, <2>1, <2>2 DEF IInv, Types, Goto, Busy
    <2>4. \A d \in Chats : Progress(d)'
      BY <1>1 DEF IInv, Types, Progress, ShownTo, Goto, Busy
    <2>5. IsRequest(e, c)' \/ IsResponse(e, c)'
      BY <1>1 DEF IsRequest, IsResponse, IInv, Progress, Types, Goto, Busy
    <2>6. Told' /\ Latest' /\ OnlyAnswered' /\ LogFollowsAnswers'
      <3>1. pc[c] \in Busy /\ pc[c] \notin {"flush", "reply"} /\ \A d \in Chats \ {c} : pc'[d] = pc[d]
        BY <1>1 DEF Busy, Goto, IInv, Types
      <3> QED BY <1>1, <2>5, <3>1, HandedOver
    <2> QED BY <2>3, <2>4, <2>6 DEF IInv
  <1>2. CASE GivenUp(c) /\ UNCHANGED <<queue, sent>> /\ (UNCHANGED faults \/ Fault)
    <2>1. Types'
      BY <1>2, FaultCounted DEF IInv, Types, GivenUp, Goto, Busy
    <2>2. \A d \in Chats : Progress(d)'
      BY <1>2 DEF IInv, Types, Progress, ShownTo, GivenUp, Goto, Busy
    <2>3. Told' /\ Latest' /\ OnlyAnswered' /\ LogFollowsAnswers'
      <3>1. Handed' \subseteq Handed /\ Answers
        BY <1>2 DEF Handed, Answers, GivenUp
      <3> QED BY <1>2, <3>1, LogKept DEF IInv, Types, GivenUp, Goto
    <2> QED BY <2>1, <2>2, <2>3 DEF IInv
  <1> QED BY <1>1, <1>2 DEF Hand

LEMMA ProduceRequestInv == ASSUME IInv, NEW c \in Chats, ProduceRequest(c) PROVE IInv'
  <1> DEFINE e == Event(c, SessionOf[c], "request", Question(c))
  <1>1. said[c] \in Texts(c)
    BY DEF IInv, Progress, ProduceRequest, Busy
  <1>2. e \in Events /\ e.turn_id = c
    BY <1>1, ChatEvents, EventParts
  <1>3. Hand(c, e, "response")
    BY DEF ProduceRequest, TurnId
  <1>4. /\ pc[c] \in {"request", "response"}
        /\ UNCHANGED <<config, said, producer, topic, answered>>
    BY DEF ProduceRequest
  <1> QED BY <1>2, <1>3, <1>4, HandInv

LEMMA ProduceResponseInv == ASSUME IInv, NEW c \in Chats, ProduceResponse(c) PROVE IInv'
  <1> DEFINE e == Event(c, SessionOf[c], "response", Shown(said[c]))
  <1>1. said[c] \in Texts(c)
    BY DEF IInv, Progress, ProduceResponse, Busy
  <1>2. e \in Events /\ e.turn_id = c
    BY <1>1, ChatEvents, EventParts
  <1>3. Hand(c, e, "flush")
    BY DEF ProduceResponse, TurnId, Logged
  <1>4. /\ pc[c] \in {"request", "response"}
        /\ UNCHANGED <<config, said, producer, topic, answered>>
    BY DEF ProduceResponse
  <1> QED BY <1>2, <1>3, <1>4, HandInv

LEMMA FlushInv == ASSUME IInv, NEW c \in Chats, Flush(c) PROVE IInv'
  <1> USE DEF Flush, Goto, Log
  <1>1. Types'
    BY DEF IInv, Types, Busy
  <1>2. \A d \in Chats : Progress(d)'
    BY DEF IInv, Types, Progress, ShownTo, Busy
  <1>3. Told' /\ Latest' /\ OnlyAnswered' /\ LogFollowsAnswers'
    <2>1. Handed' \subseteq Handed /\ Answers
      BY DEF Handed, Answers
    <2> QED BY <2>1, LogKept DEF IInv, Types
  <1> QED BY <1>1, <1>2, <1>3 DEF IInv

LEMMA ReplyInv == ASSUME IInv, NEW c \in Chats, Reply(c) PROVE IInv'
  <1> USE DEF Reply, Goto, Log
  <1>1. Shown(said[c]) \in Texts(c) /\ Shown(said[c]) \in AllTexts
    BY ShownIsText, TextKnown DEF IInv, Progress, Busy
  <1>2. Types'
    BY <1>1 DEF IInv, Types, Respond, Replies
  <1>3. \A d \in Chats : Progress(d)'
    BY <1>1 DEF IInv, Types, Progress, Respond, ShownTo, Busy
  <1>4. Told' /\ Latest' /\ OnlyAnswered' /\ LogFollowsAnswers'
    <2>1. Handed' \subseteq Handed /\ Answers
      BY DEF Handed, Answers
    <2> QED BY <2>1, LogKept DEF IInv, Types, Respond
  <1> QED BY <1>2, <1>3, <1>4 DEF IInv

\* The broker and the queue.
LEMMA DeliverInv == ASSUME IInv, Deliver PROVE IInv'
  <1>1. PICK e \in queue : /\ topic' = topic \cup {e}
                           /\ \/ queue' = queue \ {e} /\ UNCHANGED faults
                              \/ Fault /\ UNCHANGED queue
    BY DEF Deliver
  <1>2. IsFiniteSet(queue') /\ Cardinality(queue') <= QueueSize
    <2>1. IsFiniteSet(queue) /\ Cardinality(queue) \in Nat /\ Cardinality(queue) <= QueueSize
      BY FS_CardinalityType DEF IInv, Types
    <2>2. /\ IsFiniteSet(queue \ {e})
          /\ Cardinality(queue \ {e}) = Cardinality(queue) - 1
      BY <2>1, FS_RemoveElement
    <2> QED BY <1>1, <2>1, <2>2, Bounds
  <1>3. Types'
    BY <1>2, FaultCounted DEF IInv, Types, Deliver, Busy
  <1>4. \A d \in Chats : Progress(d)'
    BY DEF IInv, Progress, ShownTo, Deliver
  <1>5. Told' /\ Latest' /\ OnlyAnswered' /\ LogFollowsAnswers'
    <2>1. Handed' \subseteq Handed /\ Answers
      BY <1>1 DEF Handed, Answers, Deliver
    <2> QED BY <2>1, LogKept DEF Deliver
  <1> QED BY <1>3, <1>4, <1>5 DEF IInv

LEMMA ExpireInv == ASSUME IInv, Expire PROVE IInv'
  <1>1. PICK e \in queue : queue' = queue \ {e}
    BY DEF Expire
  <1>2. IsFiniteSet(queue') /\ Cardinality(queue') <= QueueSize
    <2>1. IsFiniteSet(queue) /\ Cardinality(queue) \in Nat /\ Cardinality(queue) <= QueueSize
      BY FS_CardinalityType DEF IInv, Types
    <2>2. /\ IsFiniteSet(queue \ {e})
          /\ Cardinality(queue \ {e}) = Cardinality(queue) - 1
      BY <2>1, FS_RemoveElement
    <2> QED BY <1>1, <2>1, <2>2, Bounds
  <1>3. Types'
    BY <1>2, FaultCounted DEF IInv, Types, Expire, Busy
  <1>4. \A d \in Chats : Progress(d)'
    BY DEF IInv, Progress, ShownTo, Expire
  <1>5. Told' /\ Latest' /\ OnlyAnswered' /\ LogFollowsAnswers'
    <2>1. Handed' \subseteq Handed /\ Answers
      BY <1>1 DEF Handed, Answers, Expire
    <2> QED BY <2>1, LogKept DEF Expire
  <1> QED BY <1>3, <1>4, <1>5 DEF IInv

LEMMA CrashInv == ASSUME IInv, Crash PROVE IInv'
  <1>1. Types'
    <2>1. IsFiniteSet(queue') /\ Cardinality(queue') <= QueueSize
      BY FS_EmptySet, Bounds DEF Crash
    <2>2. pc' \in [Chats -> Busy \cup {"idle", "agent", "done", "lost"}]
      BY DEF Crash, IInv, Types
    <2> QED BY <2>1, <2>2, FaultCounted DEF IInv, Types, Crash, Busy
  <1>2. \A d \in Chats : Progress(d)'
    BY DEF IInv, Types, Progress, ShownTo, Crash, Busy
  <1>3. Told' /\ Latest' /\ OnlyAnswered' /\ LogFollowsAnswers'
    <2>1. Handed' \subseteq Handed /\ Answers
      BY DEF Handed, Answers, Crash
    <2> QED BY <2>1, LogKept DEF IInv, Types, Crash
  <1> QED BY <1>1, <1>2, <1>3 DEF IInv

\* The inductive invariant holds in every reachable state.
THEOREM Invariance == Spec => []IInv
  <1>1. Init => IInv
    BY InitInv
  <1>2. IInv /\ [Next]_vars => IInv'
    <2> SUFFICES ASSUME IInv, [Next]_vars PROVE IInv'
      OBVIOUS
    <2>1. ASSUME NEW c \in Chats, Work(c) PROVE IInv'
      BY <2>1, AskInv, AgentAnswersInv, AgentFailsInv, GetProducerInv, ProduceRequestInv,
         ProduceResponseInv, FlushInv, ReplyInv DEF Work
    <2>2. CASE UNCHANGED vars
      <3>1. Types' /\ \A c \in Chats : Progress(c)'
        BY <2>2 DEF vars, IInv, Types, Progress, ShownTo
      <3>2. Told' /\ Latest' /\ OnlyAnswered' /\ LogFollowsAnswers'
        <4>1. Handed' \subseteq Handed /\ Answers
          BY <2>2 DEF vars, Handed, Answers
        <4> QED BY <2>2, <4>1, LogKept DEF vars
      <3> QED BY <3>1, <3>2 DEF IInv
    <2> QED BY <2>1, <2>2, DeliverInv, ExpireInv, CrashInv DEF Next
  <1> QED BY <1>1, <1>2, PTL DEF Spec
-----------------------------------------------------------------------------
(* The theorems *)

\* The variables keep their types, and librdkafka's queue its bound.
THEOREM TypeCorrect == Spec => []TypeOK
  <1>1. IInv => TypeOK
    <2> SUFFICES ASSUME IInv PROVE TypeOK
      OBVIOUS
    <2>1. \A e \in Handed : e \in Events
      <3>1. ASSUME NEW e \in Handed, NEW c \in Chats, IsRequest(e, c) PROVE e \in Events
        BY <3>1, ChatEvents DEF IsRequest, Texts
      <3>2. ASSUME NEW e \in Handed, NEW c \in Chats, IsResponse(e, c) PROVE e \in Events
        BY <3>2, ChatEvents DEF IsResponse
      <3> QED BY <3>1, <3>2 DEF IInv, Told
    <2> QED BY <2>1 DEF IInv, Types, Progress, Handed, Replies, Busy, ToSet, TypeOK
  <1> QED BY <1>1, Invariance, PTL

\* A consumer that joins the events of a turn_id never mixes two turns.
THEOREM TurnsStayApart == Spec => []TurnsNeverMix
  <1>1. IInv => TurnsNeverMix
    <2> SUFFICES ASSUME IInv, NEW e \in topic, NEW f \in topic, e.turn_id = f.turn_id, e # f
                 PROVE  /\ e.session_id = f.session_id
                        /\ {e.type, f.type} = {"request", "response"}
                        /\ \E c \in Chats : \E text \in Texts(c) :
                              {e.content, f.content} = {Question(c), text}
      BY DEF TurnsNeverMix
    <2>1. e \in Handed /\ f \in Handed
      BY DEF Handed
    <2>2. PICK c \in Chats :
              /\ e.turn_id = c /\ e.session_id = SessionOf[c]
              /\ \/ /\ IsRequest(e, c) /\ e.type = "request" /\ e.content = Question(c)
                 \/ /\ IsResponse(e, c) /\ e.type = "response" /\ e.content = Shown(said[c])
      BY <2>1, ToldParts
    <2>3. /\ f.turn_id = c /\ f.session_id = SessionOf[c]
          /\ \/ /\ IsRequest(f, c) /\ f.type = "request" /\ f.content = Question(c)
             \/ /\ IsResponse(f, c) /\ f.type = "response" /\ f.content = Shown(said[c])
      BY <2>1, <2>2, ToldParts
    <2>4. \/ IsRequest(e, c) /\ IsResponse(f, c)
          \/ IsResponse(e, c) /\ IsRequest(f, c)
      <3>1. CASE IsRequest(e, c) /\ IsRequest(f, c)
        BY <3>1 DEF IsRequest
      <3>2. CASE IsResponse(e, c) /\ IsResponse(f, c)
        BY <3>2 DEF IsResponse
      <3> QED BY <2>2, <2>3, <3>1, <3>2
    <2>5. Shown(said[c]) \in Texts(c)
      BY <2>4, ShownIsText DEF IsResponse
    <2>6. {e.content, f.content} = {Question(c), Shown(said[c])}
      BY <2>2, <2>3, <2>4 DEF IsRequest, IsResponse
    <2>7. {e.type, f.type} = {"request", "response"}
      BY <2>2, <2>3, <2>4 DEF IsRequest, IsResponse
    <2> QED BY <2>2, <2>3, <2>5, <2>6, <2>7
  <1> QED BY <1>1, Invariance, PTL

\* What the log does decides no reply, and it holds what the user was shown.
THEOREM LogHoldsReplies == Spec => []AnsweredAsLogged
  <1>1. IInv => AnsweredAsLogged
    <2> SUFFICES ASSUME IInv PROVE AnsweredAsLogged
      OBVIOUS
    <2>1. ASSUME NEW c \in Chats, said[c] # None, replied[c] # None PROVE ShownTo(c)
      BY <2>1 DEF IInv, Progress
    <2>2. ASSUME NEW e \in topic, NEW c \in Chats,
                 e.turn_id = c, e.type = "response", replied[c] # None
          PROVE  replied[c].reply = e.content
      <3>1. IsResponse(e, c) /\ e.content = Shown(said[c])
        BY <2>2, ToldParts DEF Handed
      <3>2. ShownTo(c)
        BY <2>2, <3>1 DEF IsResponse, IInv, Progress
      <3> QED BY <3>1, <3>2 DEF ShownTo
    <2> QED BY <2>1, <2>2 DEF AnsweredAsLogged, ShownTo
  <1> QED BY <1>1, Invariance, PTL

\* Turns are handed over in the order of their answers.
THEOREM LogInOrder == Spec => []LogFollowsAnswers
  BY Invariance, PTL DEF IInv
=============================================================================
