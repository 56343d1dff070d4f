----------------------------- MODULE MCChatPage -----------------------------
(* Small instances of ChatPage: two chats, one of which is to be created,  *)
(* and a user who goes back and forth.                                     *)
EXTENDS ChatPage

CONSTANTS A, B
=============================================================================
