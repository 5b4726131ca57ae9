SPECIFICATION FairSpec
CONSTANTS
    c1 = c1
    c2 = c2
    c3 = c3
    s1 = s1
    None = None
    Chats <- MCChats
    Sessions <- MCSessions
    SessionOf <- MCSessionOf
    Configs <- MCConfigs
    QueueSize = 3
    MaxFaults = 1
CHECK_DEADLOCK FALSE
INVARIANTS TypeOK TurnsNeverMix AnsweredAsLogged LogFollowsAnswers
PROPERTY EveryChatReplied
