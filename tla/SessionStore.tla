---------------------------- MODULE SessionStore ----------------------------
(***************************************************************************)
(* One session of the control plane: its record and its metrics record in  *)
(* Redis, the API requests about it (control-plane/app/api/sessions.py and *)
(* metrics.py) and the metrics WebSockets that show it (metrics_stream of  *)
(* bridge/websocket_bridge.py).                                            *)
(*                                                                         *)
(* Every handler is a coroutine of one event loop, so a step is what one   *)
(* does between two awaits of a Redis command: a handler reads a record,   *)
(* works on its copy and writes it back, and others run in between.        *)
(* Session ids are UUIDs: a session is created once, and the handlers of   *)
(* two sessions have nothing in common but the gauges.                     *)
(***************************************************************************)
EXTENDS Integers, FiniteSets

CONSTANTS
    Updates,        \* PUT requests
    Deletes,        \* DELETE requests
    Reads,          \* GET requests for the metrics
    Posts,          \* POST requests with metrics
    Sockets,        \* metrics WebSockets
    MaxFailures     \* Redis commands that fail

ASSUME FiniteAssumption == IsFiniteSet(Sockets) /\ IsFiniteSet(Deletes)
ASSUME FailuresAssumption == MaxFailures \in Nat

\* A request is of one kind, and no handler is mistaken for none.
ASSUME KindsAssumption ==
    /\ Updates \cap (Deletes \cup Reads \cup Posts \cup Sockets) = {}
    /\ Deletes \cap (Reads \cup Posts \cup Sockets) = {}
    /\ Reads \cap (Posts \cup Sockets) = {} /\ Posts \cap Sockets = {}

Handlers == Updates \cup Deletes \cup Reads \cup Posts \cup Sockets
Keepers == Updates \cup Sockets     \* those that write a session record back

States == {"handshaking", "connected", "disconnected"}

\* connected_at is TRUE where it is not None.
Records == [state : States, connected_at : BOOLEAN]
None == [state |-> "none", connected_at |-> FALSE]
Written == [state |-> "handshaking", connected_at |-> FALSE]

ASSUME NoneAssumption == None \notin Keepers

VARIABLES
    session,    \* the record under session:{id}, or None
    metrics,    \* there is a record under metrics:{id}
    created,    \* create_session has run
    pc,         \* where each handler has got to
    copy,       \* the record an update or a socket has read
    author,     \* history: who wrote the session record, for want of one itself
    quiet,      \* history: deletes that removed the record while no handler was
                \* between what it had read and what it would write
    sockets,    \* the gauge socketcast_websocket_connections{type="metrics"}
    failures    \* Redis commands that failed so far

vars == <<session, metrics, created, pc, copy, author, quiet, sockets, failures>>

Init ==
    /\ session = None /\ metrics = FALSE /\ created = FALSE
    /\ pc = [h \in Handlers |-> "idle"] /\ copy = [h \in Keepers |-> None]
    /\ author = None /\ quiet = {} /\ sockets = 0 /\ failures = 0

At(h, here) == pc[h] = here
Goto(h, there) == pc' = [pc EXCEPT ![h] = there]

\* h reads the session record: not there, it is answered with 404.
Look(h, found, missing) ==
    /\ Goto(h, IF session = None THEN missing ELSE found)
    /\ copy' = IF h \in Keepers THEN [copy EXCEPT ![h] = session] ELSE copy

Store(h, record) == session' = record /\ author' = h

-----------------------------------------------------------------------------
(* sessions.py                                                             *)

CreateSession ==
    /\ ~created /\ created' = TRUE
    /\ Store(None, Written)
    /\ UNCHANGED <<metrics, pc, copy, quiet, sockets, failures>>

UpdateReads(u) ==
    /\ At(u, "idle") /\ Look(u, "got", "done")
    /\ UNCHANGED <<session, metrics, created, author, quiet, sockets, failures>>

\* Seeded fault: the time of the connection is not set.
UpdateWrites_NoTime(u) ==
    /\ At(u, "got") /\ Goto(u, "done")
    /\ \E st \in States : Store(u, [copy[u] EXCEPT !.state = st])
    /\ UNCHANGED <<metrics, created, copy, quiet, sockets, failures>>

UpdateWrites(u) ==
    /\ At(u, "got") /\ Goto(u, "done")
    /\ \E st \in States : Store(u, [state |-> st, connected_at |-> st = "connected"])
    /\ UNCHANGED <<metrics, created, copy, quiet, sockets, failures>>

DeleteReads(d) ==
    /\ At(d, "idle") /\ Look(d, "got", "done")
    /\ UNCHANGED <<session, metrics, created, author, quiet, sockets, failures>>

\* Handlers that will write a record, of the session or of its metrics, whatever
\* becomes of the session until then.
UnderWay ==
    {h \in Keepers : pc[h] \in {"got", "open", "leaving"}}
        \cup {h \in Reads \cup Posts : pc[h] \in {"checked", "absent"}}

DeleteSession(d) ==
    /\ At(d, "got") /\ Goto(d, "removed")
    /\ session' = None /\ author' = None
    /\ quiet' = IF UnderWay = {} THEN quiet \cup {d} ELSE quiet
    /\ UNCHANGED <<metrics, created, copy, sockets, failures>>

\* Seeded fault: the metrics are left to expire.
DeleteMetrics_Forgets(d) ==
    /\ At(d, "removed") /\ Goto(d, "deleted")
    /\ UNCHANGED <<session, metrics, created, copy, author, quiet, sockets, failures>>

DeleteMetrics(d) ==
    /\ At(d, "removed") /\ Goto(d, "deleted")
    /\ metrics' = FALSE
    /\ UNCHANGED <<session, created, copy, author, quiet, sockets, failures>>

-----------------------------------------------------------------------------
(* metrics.py                                                              *)

CheckSession(h) ==
    /\ At(h, "idle") /\ Look(h, "checked", "done")
    /\ UNCHANGED <<session, metrics, created, author, quiet, sockets, failures>>

ReadMetrics(g) ==
    /\ At(g, "checked") /\ Goto(g, IF metrics THEN "done" ELSE "absent")
    /\ UNCHANGED <<session, metrics, created, copy, author, quiet, sockets, failures>>

\* update_session_metrics stores what it was given, get_session_metrics a record
\* of zeros where it found none.
WriteMetrics(h) ==
    /\ At(h, IF h \in Posts THEN "checked" ELSE "absent") /\ Goto(h, "done")
    /\ metrics' = TRUE
    /\ UNCHANGED <<session, created, copy, author, quiet, sockets, failures>>

-----------------------------------------------------------------------------
(* metrics_stream                                                          *)

\* Seeded fault: a socket is counted once its session is found, and not before.
Accept_NotCounted(w) ==
    /\ At(w, "idle") /\ Goto(w, "accepted")
    /\ UNCHANGED <<session, metrics, created, copy, author, quiet, sockets, failures>>

Accept(w) ==
    /\ At(w, "idle") /\ Goto(w, "accepted")
    /\ sockets' = sockets + 1
    /\ UNCHANGED <<session, metrics, created, copy, author, quiet, failures>>

\* Seeded fault: a socket refused with 4004 stays in the gauge.
Admit_KeepsGauge(w) ==
    /\ At(w, "accepted") /\ Look(w, "got", "done")
    /\ UNCHANGED <<session, metrics, created, author, quiet, sockets, failures>>

Admit(w) ==
    /\ At(w, "accepted") /\ Look(w, "got", "done")
    /\ sockets' = IF session = None THEN sockets - 1 ELSE sockets
    /\ UNCHANGED <<session, metrics, created, author, quiet, failures>>

Connected(w) ==
    /\ At(w, "got") /\ Goto(w, "open")
    /\ Store(w, [state |-> "connected", connected_at |-> TRUE])
    /\ UNCHANGED <<metrics, created, copy, quiet, sockets, failures>>

\* One round of the loop: where the engine answers, its statistics are stored.
\* The session is not looked at again.
Round(w) ==
    /\ At(w, "open")
    /\ metrics' = TRUE
    /\ UNCHANGED <<session, created, pc, copy, author, quiet, sockets, failures>>

\* The browser has gone, or an exception ends the loop.
Leave(w) ==
    /\ At(w, "open") /\ Goto(w, "closing")
    /\ sockets' = sockets - 1
    /\ UNCHANGED <<session, metrics, created, copy, author, quiet, failures>>

\* Seeded fault: the record is left as it is.
LastLook_Skips(w) ==
    /\ At(w, "closing") /\ Goto(w, "done")
    /\ UNCHANGED <<session, metrics, created, copy, author, quiet, sockets, failures>>

LastLook(w) ==
    /\ At(w, "closing") /\ Look(w, "leaving", "done")
    /\ UNCHANGED <<session, metrics, created, author, quiet, sockets, failures>>

\* connected_at is kept.
Disconnected(w) ==
    /\ At(w, "leaving") /\ Goto(w, "done")
    /\ Store(w, [copy[w] EXCEPT !.state = "disconnected"])
    /\ UNCHANGED <<metrics, created, copy, quiet, sockets, failures>>

-----------------------------------------------------------------------------
(* Redis                                                                   *)

\* A command raises: a request is answered with 500; a socket in its loop goes
\* on to the finally block, in the finally block it gives up there, and before
\* the try block it is over at once and stays in the gauge.
CommandFails(h) ==
    /\ failures < MaxFailures /\ failures' = failures + 1
    /\ ~At(h, "done") /\ ~At(h, "deleted") /\ (h \in Sockets => ~At(h, "idle"))
    /\ IF h \in Sockets /\ pc[h] \in {"got", "open"}
       THEN Goto(h, "closing") /\ sockets' = sockets - 1
       ELSE Goto(h, IF h \in Sockets THEN "lost" ELSE "done") /\ UNCHANGED sockets
    /\ ~At(h, "lost")
    /\ UNCHANGED <<session, metrics, created, copy, author, quiet>>

\* A record nobody has written for an hour.
Expire ==
    /\ \/ session' = None /\ author' = None /\ UNCHANGED metrics
       \/ metrics' = FALSE /\ UNCHANGED <<session, author>>
    /\ UNCHANGED <<created, pc, copy, quiet, sockets, failures>>

Next ==
    \/ CreateSession
    \/ \E u \in Updates : UpdateReads(u) \/ UpdateWrites(u)
    \/ \E d \in Deletes : DeleteReads(d) \/ DeleteSession(d) \/ DeleteMetrics(d)
    \/ \E g \in Reads : CheckSession(g) \/ ReadMetrics(g) \/ WriteMetrics(g)
    \/ \E p \in Posts : CheckSession(p) \/ WriteMetrics(p)
    \/ \E w \in Sockets :
        \/ Accept(w) \/ Admit(w) \/ Connected(w) \/ Round(w)
        \/ Leave(w) \/ LastLook(w) \/ Disconnected(w)
    \/ \E h \in Handlers : CommandFails(h)
    \/ Expire

Spec == Init /\ [][Next]_vars

-----------------------------------------------------------------------------

\* Sockets that are accepted and not yet in their finally block.
Open == {w \in Sockets : pc[w] \in {"accepted", "got", "open"}}

TypeOK ==
    /\ session \in Records \cup {None} /\ metrics \in BOOLEAN /\ created \in BOOLEAN
    /\ pc \in [Handlers -> {"idle", "got", "removed", "deleted", "checked", "absent", "accepted",
                            "open", "closing", "leaving", "lost", "done"}]
    /\ copy \in [Keepers -> Records \cup {None}]
    /\ author \in Keepers \cup {None} /\ (session # None => created)
    /\ quiet \subseteq Deletes
    /\ sockets \in 0 .. Cardinality(Sockets) /\ failures \in 0 .. MaxFailures

\* Every pc but these is of a handler that has seen the session.
NotCreated == ~created => \A h \in Handlers : pc[h] \in {"idle", "accepted", "lost", "done"}

\* After a quiet delete nobody is about to write, and nobody gets to it any more.
Quieted ==
    /\ quiet # {} => created /\ session = None /\ UnderWay = {}
    /\ \A d \in quiet : pc[d] \in {"removed", "deleted", "done"}
    /\ (\E d \in quiet : pc[d] = "deleted") => ~metrics

\* A session that was deleted while no other handler was half way through is gone
\* for good, and so are its metrics: a handler that comes later finds nothing to
\* write back (sessions.py:96-107, 119-128; websocket_bridge.py:29-33).
QuietDeleteIsFinal ==
    (\E d \in quiet : pc[d] = "deleted") => session = None /\ ~metrics

\* A session a socket has marked as connected has that socket: whatever other
\* sockets, updates and deletes do in between, the last word of a socket is
\* "disconnected", unless Redis fails it (websocket_bridge.py:44-47, 141-148).
ConnectedHasSocket ==
    session.state = "connected" /\ author \in Sockets =>
        pc[author] \in {"open", "closing", "leaving", "lost"}

\* A session shown as connected says since when (sessions.py:102-105,
\* websocket_bridge.py:45-46).
ConnectedSince == session.state = "connected" => session.connected_at

\* The gauge never misses an open socket, and counts no other unless Redis failed
\* before the try block (websocket_bridge.py:26-33, 133).
GaugeCoversSockets ==
    /\ Cardinality(Open) <= sockets
    /\ sockets <= Cardinality(Open) + failures
=============================================================================
