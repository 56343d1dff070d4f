--------------------------- MODULE MCChatHistory ---------------------------
(* Small instances of ChatHistory: one model or two, and in each behaviour *)
(* a few of the things that can be done to a chat.                         *)
EXTENDS ChatHistory

Mixed ==
  {1, 2} \X {{"title"}, {"rate", "follow"}, {"edit", "delete"}, {"merge", "stop"}, {"offline", "fail"}}
    \cup {1} \X {{"pair", "delete"}, {"title", "delete"}, {"fail", "stop"}, {"continue", "fail"}, {"regenerate", "delete"}}
    \cup {2} \X {{"copy", "delete"}}
Stops == {<<2, {"stop", "fail"}>>}
=============================================================================
