------------------------------- MODULE Monitor -------------------------------
(***************************************************************************)
(* The thread of monitor.c: it opens a socket under a fixed path and       *)
(* answers one visitor at a time with the state of the system.  The path   *)
(* outlives the process.                                                   *)
(***************************************************************************)
EXTENDS Process

CONSTANTS Server, Client  \* the users of the socket's and a visitor's number

ASSUME MonitorAssumption ==
  /\ Server # Free /\ Client # Free /\ Server # Client
  /\ \E a, b \in Numbers : a # b

VARIABLES monOn,    \* thread_ctx.running
          mon,      \* where the thread is
          server,   \* mon->server_fd; None is -1
          client,   \* client_fd
          path,     \* what is at socket_path: "none", "ours" or "stale"
          usable,   \* socket, path and directory can be used
          visitor,  \* "none", "waiting" for its answer or "gone"
          failed    \* history: the thread has given up with its socket open

monVars == <<monOn, mon, server, client, path, usable, visitor, failed>>

MonInit == /\ monOn = TRUE
           /\ mon = "starting"
           /\ server = None
           /\ client = None
           /\ path \in {"none", "stale"}
           /\ usable \in BOOLEAN
           /\ visitor = "none"
           /\ failed = FALSE

MonStarts == /\ monOn' = TRUE
             /\ mon' = "starting"
             /\ server' = None
             /\ client' = None
             /\ path' = IF path = "none" THEN "none" ELSE "stale"
             /\ usable' \in BOOLEAN
             /\ visitor' = "none"
             /\ failed' = FALSE

-----------------------------------------------------------------------------
Socket == /\ mon = "starting"
          /\ \E n \in Numbers : Opens(Server, n) /\ server' = n
          /\ mon' = "unlinking"
          /\ UNCHANGED <<monOn, client, path, usable, visitor, failed, alive>>

SocketFails == /\ mon = "starting"
               /\ ~usable \/ Available = {}
               /\ mon' = "ended"
               /\ UNCHANGED <<monOn, server, client, path, usable, visitor,
                              failed, owner, alive>>

UnlinkBug == /\ mon = "unlinking"
             /\ mon' = "binding"
             /\ UNCHANGED <<monOn, server, client, path, usable, visitor,
                            failed, owner, alive>>

(* The path that a process left which was killed is cleared first.         *)
Unlink == /\ mon = "unlinking"
          /\ path' \in {"none"} \cup IF usable THEN {} ELSE {path}
          /\ mon' = "binding"
          /\ UNCHANGED <<monOn, server, client, usable, visitor, failed, owner,
                         alive>>

Bind == /\ mon = "binding"
        /\ path = "none"
        /\ path' = "ours"
        /\ mon' = "binding done"
        /\ UNCHANGED <<monOn, server, client, usable, visitor, failed, owner,
                       alive>>

(* The socket is closed, and mon->server_fd keeps its number.              *)
GiveUp == /\ Closes(server)
          /\ failed' = TRUE
          /\ mon' = "ended"
          /\ UNCHANGED <<monOn, server, client, path, usable, visitor, alive>>

BindFails == /\ mon = "binding"
             /\ ~usable \/ path # "none"
             /\ GiveUp

Listen == /\ mon = "binding done"
          /\ mon' = "serving"
          /\ UNCHANGED <<monOn, server, client, path, usable, visitor, failed,
                         owner, alive>>

ListenFails == /\ mon = "binding done"
               /\ ~usable
               /\ GiveUp

(* select returns; after a timeout it is called again.                     *)
Select == /\ mon = "serving"
          /\ monOn
          /\ visitor # "none"
          /\ mon' = "accepting"
          /\ UNCHANGED <<monOn, server, client, path, usable, visitor, failed,
                         owner, alive>>

Accept == /\ mon = "accepting"
          /\ \E n \in Numbers : Opens(Client, n) /\ client' = n
          /\ mon' = "answering"
          /\ UNCHANGED <<monOn, server, path, usable, visitor, failed, alive>>

(* The visitor stays at the door, and the thread tries again at once.      *)
AcceptFails == /\ mon = "accepting"
               /\ Available = {}
               /\ mon' = "serving"
               /\ UNCHANGED <<monOn, server, client, path, usable, visitor,
                              failed, owner, alive>>

(* send() raises SIGPIPE, which nobody handles, if the visitor has left.   *)
Answer == /\ mon = "answering"
          /\ alive' = (visitor # "gone")
          /\ mon' = "closing"
          /\ UNCHANGED <<monOn, server, client, path, usable, visitor, failed,
                         owner>>

CloseClient == /\ mon = "closing"
               /\ Closes(client)
               /\ client' = None
               /\ visitor' = "none"
               /\ mon' = "serving"
               /\ UNCHANGED <<monOn, server, path, usable, failed, alive>>

MonExitBug == /\ mon = "serving"
              /\ ~monOn
              /\ Closes(server)  \* as the error paths do
              /\ mon' = "ended"
              /\ UNCHANGED <<monOn, server, client, path, usable, visitor,
                             failed, alive>>

MonExit == /\ mon = "serving"
           /\ ~monOn
           /\ mon' = "ended"
           /\ UNCHANGED <<monOn, server, client, path, usable, visitor, failed,
                          owner, alive>>

MonStep == \/ Socket
           \/ SocketFails
           \/ Unlink
           \/ Bind
           \/ BindFails
           \/ Listen
           \/ ListenFails
           \/ Select
           \/ Accept
           \/ AcceptFails
           \/ Answer
           \/ CloseClient
           \/ MonExit

Visit == /\ mon \in {"serving", "accepting", "answering", "closing"}
         /\ visitor = "none"
         /\ visitor' = "waiting"
         /\ UNCHANGED <<monOn, mon, server, client, path, usable, failed, owner,
                        alive>>

Leave == /\ visitor = "waiting"
         /\ visitor' = "gone"
         /\ UNCHANGED <<monOn, mon, server, client, path, usable, failed, owner,
                        alive>>

MonPlaces == {"starting", "unlinking", "binding", "binding done", "serving",
              "accepting", "answering", "closing", "ended"}
=============================================================================
