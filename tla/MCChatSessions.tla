-------------------------- MODULE MCChatSessions --------------------------
(***************************************************************************)
(* ChatSessions on small instances for temporal properties: turns, resets  *)
(* and sessions are model values, without symmetry.                        *)
(***************************************************************************)
EXTENDS ChatSessions
=============================================================================
