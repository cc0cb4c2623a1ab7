------------------------------- MODULE Plugin -------------------------------
(***************************************************************************)
(* The strategy as a library of the simulator (Strategy.cpp), and the      *)
(* connection it opens to the debug console when it is loaded              *)
(* (winDebugger/Client.cpp, ../ConsoleDebugger/Server.cpp).  In every      *)
(* frame the receiver's tactic sends a message over it, after the          *)
(* goalkeeper has been commanded and before the others are; a socket whose *)
(* peer does not read blocks the frame there.  The console accepts one     *)
(* connection, reads it for ever, and leaves its listening socket open.    *)
(*                                                                         *)
(* Run.bat kills both processes and starts them again, in an order nobody  *)
(* waits for; the simulator may also load the library again.  The loads    *)
(* are numbered; the frame counter, which nothing reads, is left out.      *)
(***************************************************************************)
EXTENDS Naturals

CONSTANTS
  MaxLoads,  \* a bound on the loads of a behaviour
  Room       \* the messages that fit between the two ends of a connection

VARIABLES
  console,  \* "off", "waiting" in accept, or "serving"
  pending,  \* connections of its listening socket it has not accepted
  served,   \* the connection it reads, or 0
  loads,    \* the last load
  alive,    \* connections whose two processes run; none is ever closed
  unread,   \* the messages in a connection
  step,     \* of the strategy: "off", "idle", "sending", "rest" of the frame
  first     \* the first connection made to the running console, or 0

vars == <<console, pending, served, loads, alive, unread, step, first>>

Loads == 1 .. MaxLoads

TypeOK ==
  /\ console \in {"off", "waiting", "serving"}
  /\ pending \in SUBSET Loads /\ \A a, b \in pending : a = b
  /\ served \in {0} \cup Loads /\ first \in {0} \cup Loads
  /\ loads \in {0} \cup Loads /\ alive \in SUBSET Loads
  /\ unread \in [Loads -> 0 .. Room]
  /\ step \in {"off", "idle", "sending", "rest"}

Init ==
  /\ console = "off" /\ pending = {} /\ served = 0
  /\ loads = 0 /\ alive = {} /\ unread = [l \in Loads |-> 0]
  /\ step = "off" /\ first = 0

-----------------------------------------------------------------------------
(* The console *)

ConsoleStart ==
  /\ console = "off"
  /\ console' = "waiting"
  /\ UNCHANGED <<pending, served, loads, alive, unread, step, first>>

\* Its sockets go with it.
ConsoleKill ==
  /\ console # "off"
  /\ console' = "off" /\ pending' = {} /\ served' = 0 /\ first' = 0
  /\ alive' = {} /\ unread' = [l \in Loads |-> 0]
  /\ UNCHANGED <<loads, step>>

Serve(l) == console' = "serving" /\ served' = l /\ UNCHANGED first

\* accept fails, and is called again.
Dropped(l) ==
  l \notin alive /\ first' = 0 /\ UNCHANGED <<console, served>>

\* Mutant: connections are accepted while one is read, and read in its place.
AcceptEvery ==
  \E l \in pending :
    /\ pending' = {} /\ (Serve(l) \/ Dropped(l))
    /\ UNCHANGED <<loads, alive, unread, step>>

\* Mutant: the accepted socket is not kept, and nothing arrives at the other.
AcceptUnassigned ==
  /\ console = "waiting" /\ pending # {}
  /\ console' = "serving" /\ pending' = {}
  /\ UNCHANGED <<served, loads, alive, unread, step, first>>

\* The constructor of the server.
Accept ==
  /\ console = "waiting"
  /\ \E l \in pending :
       /\ pending' = {} /\ (Serve(l) \/ Dropped(l))
       /\ UNCHANGED <<loads, alive, unread, step>>

\* One turn of RecieveMessage, which ends at a message "close" that nobody
\* sends; with a dead peer it prints empty lines for ever.
RecieveMessage ==
  /\ console = "serving" /\ served \in alive
  /\ \E n \in 0 .. Room :
       n < unread[served] /\ unread' = [unread EXCEPT ![served] = n]
  /\ UNCHANGED <<console, pending, served, loads, alive, step, first>>

-----------------------------------------------------------------------------
(* The simulator *)

\* Mutant: the backlog of the listening socket has no limit.
ListensToAll == console # "off"

\* Another connection can be made: listen keeps one that is not accepted.
Listens == console # "off" /\ pending = {}

\* The process ends: a connection that waits may stay in the backlog or leave it.
Ends ==
  /\ step' = "off" /\ alive' = {}
  /\ \/ UNCHANGED <<pending, first>>
     \/ pending' = {} /\ first' = IF console = "waiting" THEN 0 ELSE first

\* The library is loaded: its static client connects, or ends the process.
Load ==
  LET l == loads + 1
  IN /\ step = "off" /\ loads < MaxLoads
     /\ loads' = l
     /\ \/ /\ Listens
           /\ pending' = pending \cup {l} /\ alive' = alive \cup {l}
           /\ first' = IF first = 0 THEN l ELSE first
           /\ step' = "idle"
        \/ ~Listens /\ Ends
     /\ UNCHANGED <<console, served, unread>>

\* Destroy does nothing, and no destructor closes the socket: the connection
\* stays, without a library that sends.
Unload ==
  /\ step = "idle"
  /\ step' = "off"
  /\ UNCHANGED <<console, pending, served, loads, alive, unread, first>>

SimulatorKill ==
  /\ step # "off" \/ alive # {}
  /\ Ends
  /\ UNCHANGED <<console, served, loads, unread>>

-----------------------------------------------------------------------------
(* A frame *)

\* The filter, the belief, and the goalkeeper's commands.
BeginFrame ==
  /\ step = "idle"
  /\ step' = "sending"
  /\ UNCHANGED <<console, pending, served, loads, alive, unread, first>>

\* send waits for room in the connection; on a broken one it returns an error,
\* which nobody looks at.
SendMessages ==
  /\ step = "sending"
  /\ step' = "rest"
  /\ \/ loads \notin alive /\ UNCHANGED unread
     \/ /\ loads \in alive /\ unread[loads] < Room
        /\ unread' = [unread EXCEPT ![loads] = @ + 1]
  /\ UNCHANGED <<console, pending, served, loads, alive, first>>

\* The commands of the receiver and of the other robots.
FinishFrame ==
  /\ step = "rest"
  /\ step' = "idle"
  /\ UNCHANGED <<console, pending, served, loads, alive, unread, first>>

-----------------------------------------------------------------------------
Next ==
  \/ ConsoleStart \/ ConsoleKill \/ Accept \/ RecieveMessage
  \/ Load \/ Unload \/ SimulatorKill
  \/ BeginFrame \/ SendMessages \/ FinishFrame

Spec == Init /\ [][Next]_vars

\* Processes that run are scheduled, and the simulator calls for every frame.
\* Nothing is assumed of loads, starts and kills.
Fairness ==
  /\ WF_vars(Accept) /\ WF_vars(RecieveMessage)
  /\ WF_vars(BeginFrame) /\ WF_vars(SendMessages) /\ WF_vars(FinishFrame)

-----------------------------------------------------------------------------
(* Properties *)

\* As long as its process lives, the first connection made to a console is the
\* one it accepts and the only one it reads, whatever others are made after it
\* and stay in the backlog.
FirstIsServed ==
  first \in alive =>
    \/ console = "waiting" /\ pending = {first}
    \/ console = "serving" /\ served = first

\* A strategy that is blocked in its frame for ever did not connect first: the
\* first one to connect to a console plays on, also over the end of the console.
FirstComerPlays ==
  <>[](step = "sending") => <>[](loads # first)
=============================================================================
