-------------------------------- MODULE Engine --------------------------------
(***************************************************************************)
(* The engine process in its listen mode: main() (engine/src/main.cpp),    *)
(* the life of its Transport from constructor to destructor, the thread    *)
(* that accepts admin connections and the detached thread of each          *)
(* connection (engine/src/admin_server.cpp).                               *)
(*                                                                         *)
(* A step is what a thread does up to a blocking call or to a flag another *)
(* thread or the signal handler may set.  What a request does to streams   *)
(* and buffers is in AdminStreams; here a start request only holds         *)
(* stream_start_mutex_ for as long as it likes, any other is a poll.       *)
(* Lengths are in blocks.                                                  *)
(***************************************************************************)
EXTENDS Integers, FiniteSets

CONSTANTS
    Connections,    \* admin connections clients may open
    NoConnection,   \* none of them
    Requests,       \* what a client may send: see RequestsAssumption
    kBufferSize,    \* a connection stops reading here
    MaxSignals      \* bound: how many signals the process is sent

ASSUME ConnectionsAssumption == IsFiniteSet(Connections) /\ NoConnection \notin Connections
\* starts: POST /admin/streams; head, body: lengths; declared: Content-Length is there.
ASSUME RequestsAssumption ==
    Requests \subseteq [starts : BOOLEAN, head : Nat \ {0}, body : Nat, declared : BOOLEAN]
ASSUME BoundsAssumption == kBufferSize \in Nat \ {0} /\ MaxSignals \in Nat

VARIABLES
    main,       \* where main() has got to
    running,    \* Transport::running_
    signals,    \* signals sent so far
    serving,    \* AdminServer::running_
    listening,  \* listen_fd_ is open
    server,     \* where server_thread_ has got to
    conn,       \* where each connection and its thread have got to
    request,    \* what its client sends
    raw,        \* how much of it was read
    stalled,    \* it stopped reading because the client was silent for 2 s
    starter     \* the connection that holds stream_start_mutex_

mainVars == <<main, running, signals>>
serverVars == <<serving, listening, server>>
connVars == <<conn, request, raw, stalled, starter>>
vars == <<mainVars, serverVars, connVars>>

Total(r) == r.head + r.body

Init ==
    /\ main = "start" /\ running = FALSE /\ signals = 0
    /\ serving = FALSE /\ listening = FALSE /\ server = "none"
    /\ conn = [c \in Connections |-> "none"]
    /\ request \in [Connections -> Requests]
    /\ raw = [c \in Connections |-> 0] /\ stalled = [c \in Connections |-> FALSE]
    /\ starter = NoConnection

\* The process is there: main() has not returned and no signal has killed it.
Up == main \notin {"exited", "killed"}

-----------------------------------------------------------------------------
(* main()                                                                  *)

Goto(from, to) == main = from /\ main' = to

\* The Transport is constructed; main() ends when it or the output file throws.
Construct ==
    /\ Goto("start", "constructed") \/ Goto("start", "exited")
    /\ UNCHANGED <<running, signals, serverVars, connVars>>

\* start_admin_server: the engine goes on without one when the port is taken.
StartAdmin ==
    /\ Goto("constructed", "unarmed")
    /\ \/ serving' = TRUE /\ listening' = TRUE /\ server' = "checking"
       \/ UNCHANGED serverVars
    /\ UNCHANGED <<running, signals, connVars>>

\* From here on SIGINT and SIGTERM run on_signal.
ArmSignals == Goto("unarmed", "armed") /\ UNCHANGED <<running, signals, serverVars, connVars>>

\* Transport::run begins.
EnterLoop ==
    /\ Goto("armed", "looping")
    /\ running' = TRUE
    /\ UNCHANGED <<signals, serverVars, connVars>>

\* The event loop looks at running_ at least every kEpollTimeoutMs.
LeaveLoop ==
    /\ ~running /\ Goto("looping", "left")
    /\ UNCHANGED <<running, signals, serverVars, connVars>>

\* epoll_wait fails, and not because a signal came in: the loop ends without a stop().
LoopFails ==
    /\ Goto("looping", "left")
    /\ running' = FALSE
    /\ UNCHANGED <<signals, serverVars, connVars>>

\* ~Transport: stop(), and the sockets are closed.
CloseSockets ==
    /\ Goto("left", "closing")
    /\ running' = FALSE
    /\ UNCHANGED <<signals, serverVars, connVars>>

\* Members go in reverse order: buffers, streams and mutexes before admin_server_.
DestroyMembers ==
    /\ Goto("closing", "stopping")
    /\ UNCHANGED <<running, signals, serverVars, connVars>>

\* Seeded fault: the accepting thread is not told to stop.
StopAdmin_Silent ==
    /\ Goto("stopping", "joining")
    /\ listening' = FALSE
    /\ UNCHANGED <<running, signals, serving, server, connVars>>

\* AdminServer::stop up to the join.
StopAdmin ==
    /\ Goto("stopping", "joining")
    /\ serving' = FALSE /\ listening' = FALSE
    /\ UNCHANGED <<running, signals, server, connVars>>

\* The join, and the return of main(): the detached threads end with the process.
Exit ==
    /\ server \in {"none", "ended"}
    /\ Goto("joining", "exited")
    /\ UNCHANGED <<running, signals, serverVars, connVars>>

Main ==
    \/ Construct \/ StartAdmin \/ ArmSignals \/ EnterLoop \/ LeaveLoop
    \/ CloseSockets \/ DestroyMembers \/ StopAdmin \/ Exit

\* A signal kills the process before on_signal is installed, and runs stop()
\* after: also on a Transport half destroyed, for g_transport is never reset.
Signal ==
    /\ Up /\ signals < MaxSignals
    /\ signals' = signals + 1
    /\ IF main \in {"start", "constructed", "unarmed"}
       THEN main' = "killed" /\ UNCHANGED running
       ELSE running' = FALSE /\ UNCHANGED main
    /\ UNCHANGED <<serverVars, connVars>>

-----------------------------------------------------------------------------
(* AdminServer::run_server, in server_thread_                              *)

Check ==
    /\ Up /\ server = "checking"
    /\ server' = IF serving THEN "accepting" ELSE "ended"
    /\ UNCHANGED <<mainVars, serving, listening, connVars>>

\* accept() returns a connection, and a thread of its own takes it.  It may do
\* so after listen_fd_ was closed, if it was waiting by then.
Accept(c) ==
    /\ Up /\ server = "accepting" /\ conn[c] = "queued"
    /\ conn' = [conn EXCEPT ![c] = "reading"] /\ server' = "checking"
    /\ UNCHANGED <<mainVars, serving, listening, request, raw, stalled, starter>>

\* Seeded fault: a time-out of accept() ends the thread.
AcceptFails_Ends ==
    /\ Up /\ server = "accepting"
    /\ server' = "ended"
    /\ UNCHANGED <<mainVars, serving, listening, connVars>>

\* Nobody connected for a second, or the socket was closed.
AcceptFails ==
    /\ Up /\ server = "accepting"
    /\ server' = "checking"
    /\ UNCHANGED <<mainVars, serving, listening, connVars>>

-----------------------------------------------------------------------------
(* A client, and AdminServer::handle_connection in its thread              *)

Connect(c) ==
    /\ Up /\ listening /\ conn[c] = "none"
    /\ conn' = [conn EXCEPT ![c] = "queued"]
    /\ UNCHANGED <<mainVars, serverVars, request, raw, stalled, starter>>

\* Seeded fault: the rest of the body is not waited for.
Enough_HeadOnly(r, n) == n >= r.head \/ n >= kBufferSize

\* The request has been read, as far as the loop that reads it can tell.
Enough(r, n) ==
    \/ n >= r.head /\ (r.declared => n >= Total(r))
    \/ n >= kBufferSize

\* One recv(): it brings any part of what is left.
Recv(c) ==
    /\ Up /\ conn[c] = "reading"
    /\ \E n \in raw[c] + 1 .. Total(request[c]) :
        /\ raw' = [raw EXCEPT ![c] = n]
        /\ conn' = IF Enough(request[c], n) THEN [conn EXCEPT ![c] = "read"] ELSE conn
    /\ UNCHANGED <<mainVars, serverVars, request, stalled, starter>>

\* recv() returns nothing: the client was silent for two seconds, or is gone.
RecvFails(c) ==
    /\ Up /\ conn[c] = "reading"
    /\ conn' = [conn EXCEPT ![c] = "read"] /\ stalled' = [stalled EXCEPT ![c] = TRUE]
    /\ UNCHANGED <<mainVars, serverVars, request, raw, starter>>

Parsed(c) == raw[c] >= request[c].head

\* Without the end of the headers the answer is 400, and it is for a start request whose
\* body, as far as it was read, names no input; any other start request waits for the
\* one before it; anything else is answered at once.
Refuse(c) ==
    /\ Up /\ conn[c] = "read" /\ ~Parsed(c)
    /\ conn' = [conn EXCEPT ![c] = "answered"]
    /\ UNCHANGED <<mainVars, serverVars, request, raw, stalled, starter>>

RefuseStart(c) ==
    /\ Up /\ conn[c] = "read" /\ Parsed(c) /\ request[c].starts
    /\ conn' = [conn EXCEPT ![c] = "answered"]
    /\ UNCHANGED <<mainVars, serverVars, request, raw, stalled, starter>>

\* Seeded fault: two start requests at a time.
BeginStart_Together(c) ==
    /\ Up /\ conn[c] = "read" /\ Parsed(c) /\ request[c].starts
    /\ starter' = c
    /\ conn' = [conn EXCEPT ![c] = "starting"]
    /\ UNCHANGED <<mainVars, serverVars, request, raw, stalled>>

BeginStart(c) ==
    /\ Up /\ conn[c] = "read" /\ Parsed(c) /\ request[c].starts
    /\ starter = NoConnection /\ starter' = c
    /\ conn' = [conn EXCEPT ![c] = "starting"]
    /\ UNCHANGED <<mainVars, serverVars, request, raw, stalled>>

\* A request works on members of Transport: once they are destroyed it may bring
\* the process down.
UseMembers ==
    /\ \/ UNCHANGED main
       \/ main \in {"stopping", "joining"} /\ main' = "killed"
    /\ UNCHANGED <<running, signals>>

FinishStart(c) ==
    /\ Up /\ conn[c] = "starting"
    /\ UseMembers
    /\ starter' = NoConnection
    /\ conn' = [conn EXCEPT ![c] = "answered"]
    /\ UNCHANGED <<serverVars, request, raw, stalled>>

\* Seeded fault: every request takes stream_start_mutex_.
AnswerPoll_Locks(c) ==
    /\ Up /\ conn[c] = "read" /\ Parsed(c) /\ ~request[c].starts
    /\ starter = NoConnection
    /\ UseMembers
    /\ conn' = [conn EXCEPT ![c] = "answered"]
    /\ UNCHANGED <<serverVars, request, raw, stalled, starter>>

AnswerPoll(c) ==
    /\ Up /\ conn[c] = "read" /\ Parsed(c) /\ ~request[c].starts
    /\ UseMembers
    /\ conn' = [conn EXCEPT ![c] = "answered"]
    /\ UNCHANGED <<serverVars, request, raw, stalled, starter>>

\* What the thread of a connection does; how long a start takes is open, and which body
\* names an input is not said.
Thread(c) == Recv(c) \/ RecvFails(c) \/ Refuse(c) \/ AnswerPoll(c)

Server == Check \/ AcceptFails \/ \E c \in Connections : Accept(c)

Next ==
    \/ Main \/ LoopFails \/ Signal \/ Server
    \/ \E c \in Connections :
        Connect(c) \/ Thread(c) \/ RefuseStart(c) \/ BeginStart(c) \/ FinishStart(c)

Spec == Init /\ [][Next]_vars

\* Threads that can go on do.  A connection that waits is accepted before
\* accept() times out; a start request may take for ever, clients may stay away, and
\* epoll_wait need not fail.
Fairness ==
    /\ WF_vars(Main)
    /\ WF_vars(Check \/ AcceptFails)
    /\ \A c \in Connections : SF_vars(Accept(c)) /\ WF_vars(Thread(c))

FairSpec == Spec /\ Fairness
-----------------------------------------------------------------------------

TypeOK ==
    /\ main \in {"start", "constructed", "unarmed", "armed", "looping", "left", "closing",
                 "stopping", "joining", "exited", "killed"}
    /\ running \in BOOLEAN /\ signals \in 0 .. MaxSignals
    /\ serving \in BOOLEAN /\ listening \in BOOLEAN
    /\ server \in {"none", "checking", "accepting", "ended"}
    /\ conn \in [Connections -> {"none", "queued", "reading", "read", "starting", "answered"}]
    /\ request \in [Connections -> Requests]
    /\ raw \in [Connections -> Nat] /\ \A c \in Connections : raw[c] <= Total(request[c])
    /\ stalled \in [Connections -> BOOLEAN]
    /\ starter \in Connections \cup {NoConnection}
    /\ \A c \in Connections : conn[c] = "starting" <=> starter = c

\* A request that starts a stream is acted on with its whole body, in however
\* many reads it came (admin_server.cpp:101), unless the client fell silent, did
\* not say how long the body is, or sent more than the connection reads.
WholeBody ==
    \A c \in Connections :
        LET r == request[c] IN
        /\ conn[c] = "starting" /\ ~stalled[c] /\ r.declared
        /\ raw[c] < kBufferSize
        => raw[c] = Total(r)

\* Only the end of the process ends the admin server: as long as the event loop
\* runs, the thread that accepts connections is there to accept them.
Serving == main \in {"unarmed", "armed", "looping"} => server # "ended"

\* Requests that do not start a stream are answered while one that does takes
\* its time (admin_server.cpp:93-95), as long as the engine runs.
PollsAnswered ==
    \A c \in Connections :
        conn[c] = "queued" /\ ~request[c].starts ~> conn[c] = "answered" \/ main # "looping"

\* Once running_ is cleared, the process ends: the accepting thread, which may be
\* waiting in accept(), is joined, and requests under way, however long they
\* take, do not hold the process up (admin_server.cpp:77).
Stops == main = "looping" /\ ~running ~> ~Up
=============================================================================
