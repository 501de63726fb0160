---------------------------- MODULE BlenderSocket ----------------------------
(***************************************************************************)
(* The one socket to Blender: BlenderSocketClient.send_command             *)
(* (adapters/mcp/blender_mcp_adapter.py), called by any number of asyncio  *)
(* tasks, and the add-on at the other end (blender_addon/addon.py): an     *)
(* accepting thread, one handler thread for each connection, and Blender's *)
(* main thread, which executes what the handlers register with             *)
(* bpy.app.timers.                                                         *)
(*                                                                         *)
(* Messages carry no request id.  An element of Command is one call of     *)
(* send_command; its payload stands for itself on the way up and its reply *)
(* stands for itself on the way down.  TCP keeps order and loses data only *)
(* with the connection.  The chunks in which a command or a reply arrives  *)
(* are not modelled: both ends wait until they can parse the whole of it.  *)
(* The wait for a closing transport (wait_closed) is part of the step that *)
(* closes it.  An error of a connection that was made is a ConnectionError *)
(* (another OSError would leave send_command without a disconnect, and     *)
(* call_tool as a plain failure).                                          *)
(***************************************************************************)
EXTENDS Naturals, Sequences, FiniteSets

CONSTANTS
    Command,     \* calls of send_command
    None,
    Fin,         \* end of stream
    MaxConns,    \* bound: connections dialled in one behaviour
    MaxFaults    \* bound: stops of the add-on and deaths of Blender

Conn == 1..MaxConns
Job  == [conn : Conn, cmd : Command]

ASSUME SocketAssumption ==
    /\ None \notin Command \union Conn \union Job \union {Fin}
    /\ Fin \notin Command
    /\ MaxConns \in Nat
    /\ MaxFaults \in Nat

VARIABLES
    pc,          \* where each call is
    lock,        \* the call that holds BlenderSocketClient._lock
    conn,        \* the connection behind _reader and _writer
    eof,         \* the reader of conn was fed EOF
    got,         \* the reply send_command returned
    up,          \* what each connection still carries to the add-on ...
    down,        \* ... and back
    server,      \* the add-on listens
    handler,     \* the handler thread of each connection
    bound,       \* the variable `command` its execute_wrapper closes over
    timers,      \* execute_wrappers registered and not started
    main,        \* the wrapper Blender's main thread executes
    runs,        \* how often Blender began to execute a command
    faults

clientVars == <<pc, lock, conn, eof, got>>
addonVars  == <<server, handler, bound, timers>>
vars == <<clientVars, up, down, addonVars, main, runs, faults>>

Sent    == {"reading", "answered", "unknown"}
Place   == Sent \union {"idle", "queued", "dialing", "refused", "dropped"}
Reading == {"recv", "last"}     \* blocked in recv, the latter after stop()
Open    == Reading \union {"check", "quit"}

TypeOK ==
    /\ pc \in [Command -> Place]
    /\ lock \in Command \union {None}
    /\ conn \in Conn \union {None}
    /\ eof \in BOOLEAN
    /\ got \in [Command -> Command \union {None}]
    /\ up \in [Conn -> Seq(Command \union {Fin})]
    /\ down \in [Conn -> Seq(Command \union {Fin})]
    /\ server \in BOOLEAN
    /\ handler \in [Conn -> Open \union {"none", "closed"}]
    /\ bound \in [Conn -> Command \union {None}]
    /\ timers \in [Conn -> Nat]
    /\ main \in Job \union {None}
    /\ runs \in [Command -> Nat]
    /\ faults \in Nat

\* The API's lifespan has called connect(), or it found no add-on.
Init ==
    /\ pc = [k \in Command |-> "idle"]
    /\ lock = None
    /\ server \in BOOLEAN
    /\ conn \in {None} \union {c \in Conn : server /\ c = 1}
    /\ eof = FALSE
    /\ got = [k \in Command |-> None]
    /\ up = [c \in Conn |-> <<>>]
    /\ down = [c \in Conn |-> <<>>]
    /\ handler = [c \in Conn |-> IF c = conn THEN "check" ELSE "none"]
    /\ bound = [c \in Conn |-> None]
    /\ timers = [c \in Conn |-> 0]
    /\ main = None
    /\ runs = [k \in Command |-> 0]
    /\ faults = 0

-----------------------------------------------------------------------------
(* BlenderSocketClient *)

IsConnected == conn # None /\ ~eof

\* The next item of a stream, None while there is none.
First(s) == IF s = <<>> THEN None ELSE Head(s)

\* Mutant of Disconnect: the stream is kept for the next call.
DisconnectSkipped == UNCHANGED <<conn, eof, up>>

\* disconnect(): nobody reads the old connection again; its end is signalled.
Disconnect ==
    /\ conn' = None
    /\ eof' = FALSE
    /\ up' = [c \in Conn |-> IF c = conn THEN Append(up[c], Fin) ELSE up[c]]

\* The call ends and leaves the lock.
Ends(k, place) ==
    /\ pc' = [pc EXCEPT ![k] = place]
    /\ lock' = None

Call(k) ==
    /\ pc[k] = "idle"
    /\ pc' = [pc EXCEPT ![k] = "queued"]
    /\ UNCHANGED <<lock, conn, eof, got, up, down, addonVars, main, runs, faults>>

\* The lock is free: write to the open connection, or drop its rest and dial.
Acquire(k) ==
    /\ pc[k] = "queued"
    /\ lock = None
    /\ lock' = k
    /\ \/ /\ IsConnected
          /\ pc' = [pc EXCEPT ![k] = "reading"]
          /\ up' = [up EXCEPT ![conn] = Append(@, k)]
          /\ UNCHANGED <<conn, eof>>
       \/ /\ ~IsConnected
          /\ pc' = [pc EXCEPT ![k] = "dialing"]
          /\ Disconnect
    /\ UNCHANGED <<got, down, addonVars, main, runs, faults>>

\* connect() succeeds and the command is written to the new connection.
Dial(k, c) ==
    /\ pc[k] = "dialing"
    /\ server
    /\ handler[c] = "none"
    /\ \A d \in Conn : d < c => handler[d] # "none"
    /\ pc' = [pc EXCEPT ![k] = "reading"]
    /\ conn' = c
    /\ eof' = FALSE
    /\ up' = [up EXCEPT ![c] = <<k>>]
    /\ handler' = [handler EXCEPT ![c] = "check"]
    /\ UNCHANGED <<lock, got, down, server, bound, timers, main, runs, faults>>

\* connect() raises BlenderConnectionError: refused, or ten seconds are over.
DialFails(k) ==
    /\ pc[k] = "dialing"
    /\ Ends(k, "refused")
    /\ UNCHANGED <<conn, eof, got, up, down, addonVars, main, runs, faults>>

\* Mutant of ReadReply: the end of the stream is taken for a reply.
ReadReplyOrEof(k) ==
    /\ pc[k] = "reading"
    /\ First(down[conn]) # None
    /\ got' = [got EXCEPT ![k] = Head(down[conn])]
    /\ down' = [down EXCEPT ![conn] = Tail(@)]
    /\ Ends(k, "answered")
    /\ UNCHANGED <<conn, eof, up, addonVars, main, runs, faults>>

\* A whole reply is parsed and returned.
ReadReply(k) ==
    /\ pc[k] = "reading"
    /\ First(down[conn]) \in Command
    /\ got' = [got EXCEPT ![k] = Head(down[conn])]
    /\ down' = [down EXCEPT ![conn] = Tail(@)]
    /\ Ends(k, "answered")
    /\ UNCHANGED <<conn, eof, up, addonVars, main, runs, faults>>

\* Mutant of ReadEof: the command is sent once more, on a new connection.
ReadEofSendsAgain(k) ==
    /\ pc[k] = "reading"
    /\ eof
    /\ pc' = [pc EXCEPT ![k] = "dialing"]
    /\ Disconnect
    /\ UNCHANGED <<lock, got, down, addonVars, main, runs, faults>>

\* read() returned no data, or the peer reset the connection.
ReadEof(k) ==
    /\ pc[k] = "reading"
    /\ eof
    /\ Ends(k, "unknown")
    /\ Disconnect
    /\ UNCHANGED <<got, down, addonVars, main, runs, faults>>

\* Mutant of GivesUp: no deadline while the connection is open.
GivesUpIfClosed(k) == ReadEof(k)

\* The deadline passes, the task is cancelled, or the reply is unusable.
GivesUp(k) ==
    /\ pc[k] = "reading"
    /\ Ends(k, "unknown")
    /\ Disconnect
    /\ UNCHANGED <<got, down, addonVars, main, runs, faults>>

\* The task is cancelled before anything was written.
Dropped(k) ==
    /\ pc[k] \in {"queued", "dialing"}
    /\ pc' = [pc EXCEPT ![k] = "dropped"]
    /\ lock' = IF lock = k THEN None ELSE lock
    /\ UNCHANGED <<conn, eof, got, up, down, addonVars, main, runs, faults>>

-----------------------------------------------------------------------------
(* The network and the add-on *)

\* The event loop learns of the peer's FIN; a reply before it is read first.
FinArrives ==
    /\ conn # None
    /\ First(down[conn]) = Fin
    /\ eof' = TRUE
    /\ down' = [down EXCEPT ![conn] = Tail(@)]
    /\ UNCHANGED <<pc, lock, conn, got, up, addonVars, main, runs, faults>>

\* `while self.running` of _handle_client, then recv.
LoopAgain(c) ==
    /\ handler[c] = "check"
    /\ handler' = [handler EXCEPT ![c] = "recv"]
    /\ UNCHANGED <<clientVars, up, down, server, bound, timers, main, runs, faults>>

\* A command is parsed: `command` is rebound and a wrapper registered.
Receive(c) ==
    /\ handler[c] \in Reading
    /\ First(up[c]) \in Command
    /\ up' = [up EXCEPT ![c] = Tail(@)]
    /\ bound' = [bound EXCEPT ![c] = Head(up[c])]
    /\ timers' = [timers EXCEPT ![c] = @ + 1]
    /\ handler' = [handler EXCEPT ![c] = IF @ = "last" THEN "quit" ELSE "check"]
    /\ UNCHANGED <<clientVars, down, server, main, runs, faults>>

\* The handler thread closes its socket: the client is gone, or stop() was called.
HandlerEnds(c) ==
    /\ \/ handler[c] = "quit"
       \/ handler[c] \in Reading /\ First(up[c]) = Fin
    /\ handler' = [handler EXCEPT ![c] = "closed"]
    /\ up' = [up EXCEPT ![c] = <<>>]
    /\ down' = [down EXCEPT ![c] = Append(@, Fin)]
    /\ UNCHANGED <<clientVars, server, bound, timers, main, runs, faults>>

\* The main thread starts one of the registered wrappers, in any order; the
\* wrapper looks `command` up only now.
RunTimer(c) ==
    /\ main = None
    /\ timers[c] > 0
    /\ timers' = [timers EXCEPT ![c] = @ - 1]
    /\ main' = [conn |-> c, cmd |-> bound[c]]
    /\ runs' = [runs EXCEPT ![bound[c]] = @ + 1]
    /\ UNCHANGED <<clientVars, up, down, server, handler, bound, faults>>

\* execute_command returned (a result or an error); sendall fails on a socket
\* the handler has closed, and nobody reads one the client has closed.
Finish ==
    /\ main # None
    /\ main' = None
    /\ down' = IF handler[main.conn] \in Open
               THEN [down EXCEPT ![main.conn] = Append(@, main.cmd)]
               ELSE down
    /\ UNCHANGED <<clientVars, up, addonVars, runs, faults>>

\* BLENDERMCP_OT_StopServer, an operator on the main thread: a handler inside
\* recv reads once more before it looks at `running`.
AddonStops ==
    /\ main = None
    /\ server
    /\ faults < MaxFaults
    /\ faults' = faults + 1
    /\ server' = FALSE
    /\ handler' = [c \in Conn |-> CASE handler[c] = "recv"  -> "last"
                                    [] handler[c] = "check" -> "quit"
                                    [] OTHER -> handler[c]]
    /\ UNCHANGED <<clientVars, up, down, bound, timers, main, runs>>

\* BLENDERMCP_OT_StartServer, or launchd starts Blender again.
AddonStarts ==
    /\ ~server
    /\ server' = TRUE
    /\ UNCHANGED <<clientVars, up, down, handler, bound, timers, main, runs, faults>>

\* Every thread of Blender is gone; a reply on its way may be lost with it.
BlenderDies ==
    /\ faults < MaxFaults
    /\ faults' = faults + 1
    /\ server' = FALSE
    /\ handler' = [c \in Conn |-> IF handler[c] \in Open THEN "closed" ELSE handler[c]]
    /\ timers' = [c \in Conn |-> 0]
    /\ main' = None
    /\ up' = [c \in Conn |-> IF handler[c] \in Open THEN <<>> ELSE up[c]]
    /\ \E lost \in BOOLEAN :
          down' = [c \in Conn |-> IF handler[c] \in Open
                                  THEN Append(IF lost THEN <<>> ELSE down[c], Fin)
                                  ELSE down[c]]
    /\ UNCHANGED <<clientVars, bound, runs>>

-----------------------------------------------------------------------------
Client(k) ==
    \/ Acquire(k)
    \/ \E c \in Conn : Dial(k, c)
    \/ DialFails(k)
    \/ ReadReply(k)
    \/ ReadEof(k)
    \/ GivesUp(k)

Handler(c) == LoopAgain(c) \/ Receive(c) \/ HandlerEnds(c)

MainThread == (\E c \in Conn : RunTimer(c)) \/ Finish

Next ==
    \/ \E k \in Command : Call(k) \/ Client(k) \/ Dropped(k)
    \/ FinArrives
    \/ \E c \in Conn : Handler(c)
    \/ MainThread
    \/ AddonStops
    \/ AddonStarts
    \/ BlenderDies

Spec == Init /\ [][Next]_vars

-----------------------------------------------------------------------------
(* Properties *)

\* A caller is given the reply of its own command although replies are not
\* numbered and other calls were abandoned on the same socket (send_command).
ReplyMatches == \A k \in Command : got[k] \in {k, None}

\* What the caller knows of a call that is at place p.
Outcome(p) ==
    CASE p = "answered" -> "answered"
      [] p \in {"refused", "dropped"} -> "refused"
      [] p = "unknown" -> "lost"
      [] OTHER -> "open"

\* The calls, the connections and the threads implement a channel on which a
\* command takes effect at most once, before its answer and never after a
\* refusal (send_command, call_tool; _handle_client).  An effect is a start of
\* execute_command, and every start counts.
Channel == INSTANCE CommandChannel WITH
    outcome <- [k \in Command |-> Outcome(pc[k])],
    effects <- runs

ImplementsChannel == Channel!Spec
=============================================================================
