------------------------------- MODULE Server -------------------------------
(* What the pools of backend/open_webui/socket/main.py have in common: the *)
(* server processes and the Socket.IO sessions that are connected to them. *)
CONSTANTS
  Instance,  \* server processes
  Sid,       \* Socket.IO session ids; each connection has a new one
  Home       \* the process a session is connected to

ASSUME ServerAssumption == Home \in [Sid -> Instance]
=============================================================================
