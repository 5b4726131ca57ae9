------------------------- MODULE MCConversationLog -------------------------
EXTENDS ConversationLog

CONSTANTS c1, c2, c3, s1

MCChats == {c1, c2, c3}
MCSessions == {s1}
\* Two turns of one session that overlap, and a chat without a session.
MCSessionOf == [c \in MCChats |-> IF c = c3 THEN None ELSE s1]
MCConfigs == {[live |-> TRUE, produce |-> TRUE], [live |-> TRUE, produce |-> FALSE],
              [live |-> FALSE, produce |-> TRUE]}
=============================================================================
