--------------------------- MODULE MCConversation ---------------------------
(* One session with one project and one chat, where a send and a retry     *)
(* carry the same client id and a send another one.                        *)
EXTENDS Conversation, TLC

CONSTANTS s1, p1, c1, k1, k2, o1, o2, o3

MCProjectOf == [c \in Chats |-> p1]
MCOwnerOf == [p \in Projects |-> s1]
MCChatOf == [o \in Ops |-> c1]
MCClientOf == [o \in Ops |-> IF o \in {o1, o2} THEN k1 ELSE k2]
MCKindOf == [o \in Ops |-> IF o = o2 THEN "retry" ELSE "send"]
=============================================================================
