-------------------------- MODULE SessionStoreProofs --------------------------
(***************************************************************************)
(* Theorems about SessionStore, for any number of requests of each kind,   *)
(* of metrics sockets and of failing Redis commands.                       *)
(***************************************************************************)
EXTENDS SessionStore, FiniteSetTheorems, TLAPS

\* The type of everything but the gauge.
Places == {"idle", "got", "removed", "deleted", "checked", "absent", "accepted",
           "open", "closing", "leaving", "lost", "done"}

StoreType ==
    /\ session \in Records \cup {None} /\ metrics \in BOOLEAN /\ created \in BOOLEAN
    /\ pc \in [Handlers -> Places]
    /\ copy \in [Keepers -> Records \cup {None}]
    /\ author \in Keepers \cup {None} /\ (session # None => created)
    /\ quiet \subseteq Deletes

-----------------------------------------------------------------------------

\* The steps a handler takes once, by kind.
UpdateStep(u) == UpdateReads(u) \/ UpdateWrites(u)
DeleteStep(d) == DeleteReads(d) \/ DeleteSession(d) \/ DeleteMetrics(d)
MetricsStep(h) == CheckSession(h) \/ (h \in Reads /\ ReadMetrics(h)) \/ WriteMetrics(h)
SocketStep(w) ==
    \/ Accept(w) \/ Admit(w) \/ Connected(w) \/ Round(w)
    \/ Leave(w) \/ LastLook(w) \/ Disconnected(w)

LEMMA RecordTypes ==
    /\ Written \in Records /\ Written # None /\ Written.state # "connected"
    /\ None.state # "connected" /\ None \notin Records
    /\ \A st \in States : [state |-> st, connected_at |-> st = "connected"] \in Records
    /\ [state |-> "connected", connected_at |-> TRUE] \in Records
    /\ \A c \in Records \cup {None} : [c EXCEPT !.state = "disconnected"] \in Records
<1>1. Written \in Records /\ Written # None /\ Written.state # "connected"
  BY DEF Written, None, Records, States
<1>2. None.state # "connected" /\ None \notin Records
  <2>1. None.state = "none" /\ \A r \in Records : r.state \in States
    BY DEF None, Records
  <2>2. "none" \notin States
    BY DEF States
  <2> QED BY <2>1, <2>2
<1>3. ASSUME NEW st \in States
      PROVE  [state |-> st, connected_at |-> st = "connected"] \in Records
  <2>1. (st = "connected") \in BOOLEAN
    OBVIOUS
  <2> QED BY <2>1 DEF Records
<1>4. [state |-> "connected", connected_at |-> TRUE] \in Records
  BY DEF Records, States
<1>5. ASSUME NEW c \in Records \cup {None}
      PROVE  [c EXCEPT !.state = "disconnected"] \in Records
  <2>1. CASE c \in Records
    BY <2>1 DEF Records, States
  <2>2. CASE c = None
    BY <2>2 DEF None, Records, States
  <2> QED BY <2>1, <2>2
<1> QED BY <1>1, <1>2, <1>3, <1>4, <1>5

\* A handler that moves to a place it may be in keeps the type of pc.
LEMMA GotoType ==
    ASSUME StoreType, NEW h \in Handlers, NEW there \in Places, Goto(h, there)
    PROVE  /\ pc' \in [Handlers -> Places] /\ pc'[h] = there
           /\ \A other \in Handlers : other # h => pc'[other] = pc[other]
BY DEF StoreType, Goto

LEMMA LookType ==
    ASSUME StoreType, NEW h \in Handlers, NEW found \in Places, NEW missing \in Places,
           Look(h, found, missing)
    PROVE  /\ pc' \in [Handlers -> Places] /\ copy' \in [Keepers -> Records \cup {None}]
           /\ pc'[h] = IF session = None THEN missing ELSE found
           /\ \A other \in Handlers : other # h => pc'[other] = pc[other]
<1>1. (IF session = None THEN missing ELSE found) \in Places
  OBVIOUS
<1>2. copy' \in [Keepers -> Records \cup {None}]
  BY DEF Look, StoreType
<1> QED BY <1>1, <1>2, GotoType DEF Look

LEMMA TypeStep ==
    ASSUME StoreType, NotCreated, [Next]_vars
    PROVE  StoreType' /\ NotCreated'
<1> USE DEF StoreType
<1>0. /\ Updates \subseteq Handlers /\ Deletes \subseteq Handlers /\ Reads \subseteq Handlers
      /\ Posts \subseteq Handlers /\ Sockets \subseteq Handlers
      /\ Updates \subseteq Keepers /\ Sockets \subseteq Keepers
  BY DEF Handlers, Keepers
<1>p. {"idle", "got", "removed", "deleted", "checked", "absent", "accepted",
       "open", "closing", "leaving", "lost", "done"} \subseteq Places
  BY DEF Places
<1>1. CASE CreateSession
  BY <1>1, RecordTypes DEF CreateSession, Store, NotCreated
<1>2. ASSUME NEW h \in Handlers, NEW found \in Places, NEW missing \in Places,
             Look(h, found, missing), missing = "done",
             UNCHANGED <<session, metrics, created, author, quiet>>
      PROVE  StoreType' /\ NotCreated'
  <2>1. StoreType'
    BY <1>2, LookType
  <2>2. NotCreated'
    <3>1. ~created => session = None
      OBVIOUS
    <3> QED BY <1>2, <3>1, LookType DEF NotCreated
  <2> QED BY <2>1, <2>2
<1>3. ASSUME NEW h \in Handlers, NEW there \in Places, Goto(h, there), created' = created,
             created \/ there \in {"idle", "accepted", "lost", "done"},
             session' \in Records \cup {None}, metrics' \in BOOLEAN,
             author' \in Keepers \cup {None}, session' # None => created,
             quiet' \subseteq Deletes, copy' = copy
      PROVE  StoreType' /\ NotCreated'
  <2>1. StoreType'
    BY <1>3, GotoType
  <2>2. NotCreated'
    BY <1>3, GotoType DEF NotCreated
  <2> QED BY <2>1, <2>2
<1>4. ASSUME NEW u \in Updates, UpdateStep(u) PROVE StoreType' /\ NotCreated'
  <2>1. CASE UpdateReads(u)
    BY <1>0, <1>2, <1>p, <2>1 DEF UpdateReads
  <2>2. CASE UpdateWrites(u)
    <3>1. session' \in Records /\ author' = u
      BY <2>2, RecordTypes DEF UpdateWrites, Store
    <3>2. created
      BY <1>0, <2>2 DEF UpdateWrites, At, NotCreated
    <3> QED BY <1>0, <1>3, <1>p, <2>2, <3>1, <3>2 DEF UpdateWrites
  <2> QED BY <1>4, <2>1, <2>2 DEF UpdateStep
<1>5. ASSUME NEW d \in Deletes, DeleteStep(d) PROVE StoreType' /\ NotCreated'
  <2>1. CASE DeleteReads(d)
    BY <1>0, <1>2, <1>p, <2>1 DEF DeleteReads
  <2>2. CASE DeleteSession(d) \/ DeleteMetrics(d)
    <3>1. created
      BY <1>0, <2>2 DEF DeleteSession, DeleteMetrics, At, NotCreated
    <3> QED BY <1>0, <1>3, <1>p, <2>2, <3>1 DEF DeleteSession, DeleteMetrics
  <2> QED BY <1>5, <2>1, <2>2 DEF DeleteStep
<1>6. ASSUME NEW h \in Reads \cup Posts, MetricsStep(h) PROVE StoreType' /\ NotCreated'
  <2>1. CASE CheckSession(h)
    BY <1>0, <1>2, <1>6, <1>p, <2>1 DEF CheckSession
  <2>2. CASE (h \in Reads /\ ReadMetrics(h)) \/ WriteMetrics(h)
    <3>1. created
      BY <1>0, <1>6, <2>2 DEF ReadMetrics, WriteMetrics, At, NotCreated
    <3> QED BY <1>0, <1>3, <1>6, <1>p, <2>2, <3>1 DEF ReadMetrics, WriteMetrics
  <2> QED BY <1>6, <2>1, <2>2 DEF MetricsStep
<1>7. ASSUME NEW w \in Sockets, SocketStep(w) PROVE StoreType' /\ NotCreated'
  <2>1. CASE Accept(w)
    BY <1>0, <1>3, <1>p, <2>1 DEF Accept
  <2>2. CASE Admit(w)
    BY <1>0, <1>2, <1>p, <2>2 DEF Admit
  <2>3. CASE LastLook(w)
    BY <1>0, <1>2, <1>p, <2>3 DEF LastLook
  <2>4. CASE Round(w)
    BY <2>4 DEF Round, NotCreated
  <2>5. CASE Connected(w) \/ Leave(w) \/ Disconnected(w)
    <3>1. created
      BY <1>0, <2>5 DEF Connected, Leave, Disconnected, At, NotCreated
    <3>2. session' \in Records \cup {None} /\ author' \in Keepers \cup {None}
      <4>1. CASE Connected(w)
        BY <1>0, <4>1, RecordTypes DEF Connected, Store
      <4>2. CASE Leave(w)
        BY <4>2 DEF Leave
      <4>3. CASE Disconnected(w)
        <5>1. copy[w] \in Records \cup {None}
          BY <1>0
        <5> QED BY <1>0, <4>3, <5>1, RecordTypes DEF Disconnected, Store
      <4> QED BY <2>5, <4>1, <4>2, <4>3
    <3> QED BY <1>0, <1>3, <1>p, <2>5, <3>1, <3>2 DEF Connected, Leave, Disconnected
  <2> QED BY <1>7, <2>1, <2>2, <2>3, <2>4, <2>5 DEF SocketStep
<1>8. ASSUME NEW h \in Handlers, CommandFails(h) PROVE StoreType' /\ NotCreated'
  <2>1. UNCHANGED <<session, metrics, created, copy, author, quiet>>
    BY <1>8 DEF CommandFails
  <2>2. \/ Goto(h, "closing") /\ pc[h] \in {"got", "open"}
        \/ Goto(h, "lost") \/ Goto(h, "done")
    BY <1>8 DEF CommandFails
  <2>3. Goto(h, "closing") /\ pc[h] \in {"got", "open"} => created
    BY DEF NotCreated
  <2> QED BY <1>3, <1>p, <2>1, <2>2, <2>3
<1>9. CASE Expire \/ UNCHANGED vars
  BY <1>9 DEF Expire, vars, NotCreated
<1> QED BY <1>1, <1>4, <1>5, <1>6, <1>7, <1>8, <1>9
        DEF Next, UpdateStep, DeleteStep, MetricsStep, SocketStep

-----------------------------------------------------------------------------
(* What a delete leaves behind *)

\* Once a quiet delete has removed the session, no step brings anything back.
LEMMA QuietStep ==
    ASSUME StoreType, NotCreated, Quieted, [Next]_vars
    PROVE  Quieted'
<1> USE DEF StoreType
<1>0. /\ Updates \subseteq Handlers /\ Deletes \subseteq Handlers /\ Reads \subseteq Handlers
      /\ Posts \subseteq Handlers /\ Sockets \subseteq Handlers
      /\ Updates \subseteq Keepers /\ Sockets \subseteq Keepers /\ Keepers \subseteq Handlers
      /\ (Deletes \cap (Keepers \cup Reads \cup Posts)) = {}
  BY KindsAssumption DEF Handlers, Keepers
<1>p. {"idle", "got", "removed", "deleted", "checked", "absent", "accepted",
       "open", "closing", "leaving", "lost", "done"} \subseteq Places
  BY DEF Places
\* A handler that is not about to write stays so.
<1>1. ASSUME NEW h \in Handlers, NEW there \in Places, Goto(h, there),
             h \in Deletes \/ there \in {"idle", "accepted", "closing", "lost", "done"},
             h \in quiet => there \in {"deleted", "done"},
             there = "deleted" => ~metrics',
             UNCHANGED <<session, created, quiet>>, metrics' = metrics \/ ~metrics'
      PROVE  Quieted'
  <2>1. UnderWay = {} => UnderWay' = {}
    BY <1>0, <1>1, GotoType DEF UnderWay
  <2>2. \A d \in quiet : pc'[d] \in {"removed", "deleted", "done"}
    BY <1>0, <1>1, GotoType DEF Quieted
  <2>3. (\E d \in quiet : pc'[d] = "deleted") => ~metrics'
    BY <1>0, <1>1, GotoType DEF Quieted
  <2> QED BY <1>1, <2>1, <2>2, <2>3 DEF Quieted
<1>2. ASSUME quiet = {}, quiet' = {} PROVE Quieted'
  BY <1>2 DEF Quieted
<1>3. ASSUME NEW h \in Handlers, NEW found \in Places, Look(h, found, "done"),
             UNCHANGED <<session, metrics, created, quiet>>,
             h \in quiet => session = None
      PROVE  Quieted'
  <2>1. CASE quiet # {}
    <3>1. Goto(h, "done") /\ "done" \in Places
      BY <1>3, <1>p, <2>1 DEF Look, Quieted
    <3> QED BY <1>1, <1>3, <3>1
  <2>2. CASE quiet = {}
    BY <1>2, <1>3, <2>2
  <2> QED BY <2>1, <2>2
\* A handler that is about to write is not met after a quiet delete.
<1>4. ASSUME NEW h \in UnderWay, quiet' = quiet PROVE Quieted'
  <2>1. quiet = {}
    BY <1>4 DEF Quieted
  <2> QED BY <1>2, <1>4, <2>1
<1>5. CASE CreateSession
  <2>1. quiet = {} /\ quiet' = {}
    BY <1>5 DEF CreateSession, Quieted
  <2> QED BY <1>2, <2>1
<1>6. ASSUME NEW u \in Updates, UpdateStep(u) PROVE Quieted'
  <2>1. CASE UpdateReads(u)
    BY <1>0, <1>3, <1>p, <2>1 DEF UpdateReads, Quieted
  <2>2. CASE UpdateWrites(u)
    BY <1>0, <1>4, <2>2 DEF UpdateWrites, At, UnderWay
  <2> QED BY <1>6, <2>1, <2>2 DEF UpdateStep
<1>7. ASSUME NEW d \in Deletes, DeleteStep(d) PROVE Quieted'
  <2>1. CASE DeleteReads(d)
    BY <1>0, <1>3, <1>p, <2>1 DEF DeleteReads, Quieted
  <2>2. CASE DeleteSession(d)
    <3>1. /\ Goto(d, "removed") /\ "removed" \in Places /\ session' = None
          /\ UNCHANGED <<created, metrics>>
          /\ pc[d] = "got" /\ created /\ d \notin quiet
      BY <1>0, <1>p, <2>2 DEF DeleteSession, At, NotCreated, Quieted
    <3>2. UnderWay = {} => UnderWay' = {}
      BY <1>0, <3>1, GotoType DEF UnderWay
    <3>3. quiet' \subseteq quiet \cup {d} /\ (quiet' # {} => UnderWay = {})
      BY <2>2 DEF DeleteSession, Quieted
    <3>4. \A e \in quiet' : pc'[e] \in {"removed", "deleted", "done"}
      BY <1>0, <3>1, <3>3, GotoType DEF Quieted
    <3>5. \A e \in quiet' : pc'[e] = "deleted" => e \in quiet /\ pc[e] = "deleted"
      BY <1>0, <3>1, <3>3, GotoType
    <3> QED BY <3>1, <3>2, <3>3, <3>4, <3>5 DEF Quieted
  <2>3. CASE DeleteMetrics(d)
    BY <1>0, <1>1, <1>p, <2>3 DEF DeleteMetrics
  <2> QED BY <1>7, <2>1, <2>2, <2>3 DEF DeleteStep
<1>8. ASSUME NEW h \in Reads \cup Posts, MetricsStep(h) PROVE Quieted'
  <2>0. h \notin quiet
    BY <1>0
  <2>1. CASE CheckSession(h)
    BY <1>0, <1>3, <1>8, <1>p, <2>0, <2>1 DEF CheckSession
  <2>2. CASE (h \in Reads /\ ReadMetrics(h)) \/ WriteMetrics(h)
    <3>1. h \in UnderWay /\ quiet' = quiet
      BY <1>8, <2>2 DEF ReadMetrics, WriteMetrics, At, UnderWay
    <3> QED BY <1>4, <3>1
  <2> QED BY <1>8, <2>1, <2>2 DEF MetricsStep
<1>9. ASSUME NEW w \in Sockets, SocketStep(w) PROVE Quieted'
  <2>0. w \notin quiet /\ w \in Handlers /\ w \in Keepers
    BY <1>0
  <2>1. CASE Accept(w)
    BY <1>1, <1>p, <2>0, <2>1 DEF Accept
  <2>2. CASE Admit(w)
    BY <1>3, <1>p, <2>0, <2>2 DEF Admit
  <2>3. CASE LastLook(w)
    BY <1>3, <1>p, <2>0, <2>3 DEF LastLook
  <2>4. CASE Connected(w) \/ Round(w) \/ Leave(w) \/ Disconnected(w)
    <3>1. w \in UnderWay /\ quiet' = quiet
      BY <2>0, <2>4 DEF Connected, Round, Leave, Disconnected, At, UnderWay
    <3> QED BY <1>4, <3>1
  <2> QED BY <1>9, <2>1, <2>2, <2>3, <2>4 DEF SocketStep
<1>10. ASSUME NEW h \in Handlers, CommandFails(h) PROVE Quieted'
  <2>1. UNCHANGED <<session, metrics, created, quiet>>
    BY <1>10 DEF CommandFails
  <2>2. \/ Goto(h, "closing") /\ h \in Sockets
        \/ Goto(h, "lost") /\ h \in Sockets
        \/ Goto(h, "done")
    BY <1>10 DEF CommandFails
  <2> QED BY <1>0, <1>1, <1>p, <2>1, <2>2
<1>11. CASE Expire \/ UNCHANGED vars
  <2>1. /\ UNCHANGED <<created, pc, quiet>> /\ (session' = session \/ session' = None)
        /\ metrics' = metrics \/ ~metrics'
    BY <1>11 DEF Expire, vars
  <2> QED BY <2>1 DEF Quieted, UnderWay
<1> QED BY <1>5, <1>6, <1>7, <1>8, <1>9, <1>10, <1>11
        DEF Next, UpdateStep, DeleteStep, MetricsStep, SocketStep

-----------------------------------------------------------------------------
(* The connected state *)

LEMMA ConnectedStep ==
    ASSUME StoreType, StoreType', ConnectedHasSocket, ConnectedSince, [Next]_vars
    PROVE  ConnectedHasSocket' /\ ConnectedSince'
<1> USE DEF StoreType, ConnectedHasSocket, ConnectedSince
<1>0. /\ Updates \subseteq Handlers /\ Deletes \subseteq Handlers /\ Reads \subseteq Handlers
      /\ Posts \subseteq Handlers /\ Sockets \subseteq Handlers
      /\ Sockets \subseteq Keepers /\ Sockets \cap (Handlers \ Sockets) = {}
      /\ (Updates \cup Deletes \cup Reads \cup Posts) \cap Sockets = {}
  BY KindsAssumption DEF Handlers, Keepers
<1>p. {"idle", "got", "removed", "deleted", "checked", "absent", "accepted",
       "open", "closing", "leaving", "lost", "done"} \subseteq Places
  BY DEF Places
\* A handler that leaves the record alone, and either is no socket or does not
\* forget that it has marked the session.
<1>1. ASSUME NEW h \in Handlers, NEW there \in Places, Goto(h, there),
             UNCHANGED <<session, author>>,
             \/ h \notin Sockets
             \/ there \in {"open", "closing", "leaving", "lost"}
             \/ pc[h] \notin {"open", "closing", "leaving", "lost"}
             \/ session.state # "connected"
      PROVE  ConnectedHasSocket' /\ ConnectedSince'
  BY <1>0, <1>1, GotoType
<1>2. ASSUME session'.state # "connected" PROVE ConnectedHasSocket' /\ ConnectedSince'
  BY <1>2
<1>3. CASE CreateSession
  BY <1>2, <1>3, RecordTypes DEF CreateSession, Store
<1>4. ASSUME NEW u \in Updates, UpdateStep(u)
      PROVE  ConnectedHasSocket' /\ ConnectedSince'
  <2>1. CASE UpdateReads(u)
    BY <1>0, <1>1, <1>p, <2>1 DEF UpdateReads, Look
  <2>2. CASE UpdateWrites(u)
    <3>1. PICK st \in States : /\ session' = [state |-> st, connected_at |-> st = "connected"]
                               /\ author' = u
      BY <2>2 DEF UpdateWrites, Store
    <3> QED BY <1>0, <3>1
  <2> QED BY <1>4, <2>1, <2>2 DEF UpdateStep
<1>5. ASSUME NEW d \in Deletes, DeleteStep(d)
      PROVE  ConnectedHasSocket' /\ ConnectedSince'
  <2>1. CASE DeleteReads(d)
    BY <1>0, <1>1, <1>p, <2>1 DEF DeleteReads, Look
  <2>2. CASE DeleteSession(d)
    BY <1>2, <2>2, RecordTypes DEF DeleteSession
  <2>3. CASE DeleteMetrics(d)
    BY <1>0, <1>1, <1>p, <2>3 DEF DeleteMetrics
  <2> QED BY <1>5, <2>1, <2>2, <2>3 DEF DeleteStep
<1>6. ASSUME NEW h \in Reads \cup Posts, MetricsStep(h)
      PROVE  ConnectedHasSocket' /\ ConnectedSince'
  BY <1>0, <1>1, <1>6, <1>p DEF MetricsStep, CheckSession, ReadMetrics, WriteMetrics, Look
<1>7. ASSUME NEW w \in Sockets, SocketStep(w)
      PROVE  ConnectedHasSocket' /\ ConnectedSince'
  <2>1. CASE Accept(w)
    BY <1>0, <1>1, <1>p, <2>1 DEF Accept, At
  <2>2. CASE Admit(w)
    BY <1>0, <1>1, <1>p, <2>2 DEF Admit, At, Look
  <2>3. CASE Connected(w)
    <3>1. session' = [state |-> "connected", connected_at |-> TRUE] /\ author' = w
          /\ pc'[w] = "open"
      BY <1>0, <1>p, <2>3, GotoType DEF Connected, Store
    <3> QED BY <3>1
  <2>4. CASE Round(w)
    BY <2>4 DEF Round
  <2>5. CASE Leave(w)
    BY <1>0, <1>1, <1>p, <2>5 DEF Leave
  <2>6. CASE LastLook(w)
    <3>1. session = None => session.state # "connected"
      BY RecordTypes
    <3> QED BY <1>0, <1>1, <1>p, <2>6, <3>1 DEF LastLook, Look
  <2>7. CASE Disconnected(w)
    <3>1. session' = [copy[w] EXCEPT !.state = "disconnected"] /\ copy[w] \in Records \cup {None}
      BY <1>0, <2>7 DEF Disconnected, Store
    <3>2. session'.state = "disconnected"
      BY <3>1 DEF Records, None
    <3> QED BY <1>2, <3>2
  <2> QED BY <1>7, <2>1, <2>2, <2>3, <2>4, <2>5, <2>6, <2>7 DEF SocketStep
<1>8. ASSUME NEW h \in Handlers, CommandFails(h)
      PROVE  ConnectedHasSocket' /\ ConnectedSince'
  <2>1. UNCHANGED <<session, author>>
    BY <1>8 DEF CommandFails
  <2>2. Goto(h, "closing") \/ Goto(h, "lost") \/ (Goto(h, "done") /\ h \notin Sockets)
    BY <1>8 DEF CommandFails
  <2> QED BY <1>1, <1>p, <2>1, <2>2
<1>9. CASE Expire \/ UNCHANGED vars
  <2>1. pc' = pc /\ (UNCHANGED <<session, author>> \/ session' = None)
    BY <1>9 DEF Expire, vars
  <2> QED BY <1>2, <2>1, RecordTypes
<1> QED BY <1>3, <1>4, <1>5, <1>6, <1>7, <1>8, <1>9
        DEF Next, UpdateStep, DeleteStep, MetricsStep, SocketStep

-----------------------------------------------------------------------------
(* The gauge *)

\* Sockets Redis failed, before or after they were taken out of the gauge.
Lost == {w \in Sockets : pc[w] = "lost"}

\* The gauge between the open sockets and those that are open or lost.
GaugeInv ==
    /\ GaugeCoversSockets
    /\ sockets \in Nat /\ failures \in 0 .. MaxFailures
    /\ sockets <= Cardinality(Open \cup Lost)

\* Finite sets of sockets that differ by one have cardinalities that do.
LEMMA SocketSets ==
    ASSUME NEW S \in SUBSET Sockets, NEW T \in SUBSET Sockets
    PROVE  /\ IsFiniteSet(S) /\ Cardinality(S) \in Nat
           /\ S \subseteq T => Cardinality(S) <= Cardinality(T)
           /\ \A w \in Sockets : w \notin S /\ T = S \cup {w}
                                    => Cardinality(T) = Cardinality(S) + 1
           /\ \A w \in S : T = S \ {w} => Cardinality(T) = Cardinality(S) - 1
<1>1. IsFiniteSet(S) /\ IsFiniteSet(T)
  BY FiniteAssumption, FS_Subset
<1>2. Cardinality(S) \in Nat
  BY <1>1, FS_CardinalityType
<1>3. S \subseteq T => Cardinality(S) <= Cardinality(T)
  BY <1>1, FS_Subset
<1>4. ASSUME NEW w \in Sockets, w \notin S, T = S \cup {w}
      PROVE  Cardinality(T) = Cardinality(S) + 1
  BY <1>1, <1>4, FS_AddElement
<1>5. ASSUME NEW w \in S, T = S \ {w}
      PROVE  Cardinality(T) = Cardinality(S) - 1
  BY <1>1, <1>5, FS_RemoveElement
<1> QED BY <1>1, <1>2, <1>3, <1>4, <1>5

\* What the move of one socket does to the two sets.
LEMMA SocketMoves ==
    ASSUME StoreType, NEW w \in Sockets, NEW there \in Places, Goto(w, there)
    PROVE  /\ Open' = IF there \in {"accepted", "got", "open"} THEN Open \cup {w} ELSE Open \ {w}
           /\ Lost' = IF there = "lost" THEN Lost \cup {w} ELSE Lost \ {w}
<1>1. w \in Handlers /\ Sockets \subseteq Handlers
  BY DEF Handlers
<1>2. /\ pc'[w] = there
      /\ \A other \in Sockets : other # w => pc'[other] = pc[other]
  BY <1>1, GotoType
<1> QED BY <1>2 DEF Open, Lost

LEMMA GaugeStep ==
    ASSUME StoreType, GaugeInv, [Next]_vars
    PROVE  GaugeInv'
<1> USE DEF StoreType
<1>0. Sockets \subseteq Handlers /\ (Updates \cup Deletes \cup Reads \cup Posts) \cap Sockets = {}
  BY KindsAssumption DEF Handlers
<1>p. {"idle", "got", "removed", "deleted", "checked", "absent", "accepted",
       "open", "closing", "leaving", "lost", "done"} \subseteq Places
  BY DEF Places
<1>s. /\ Open \subseteq Sockets /\ Lost \subseteq Sockets /\ Open \cap Lost = {}
      /\ Open' \subseteq Sockets /\ Lost' \subseteq Sockets
  BY DEF Open, Lost
<1>c. /\ Cardinality(Open) \in Nat /\ Cardinality(Open') \in Nat
      /\ Cardinality(Open \cup Lost) \in Nat /\ Cardinality((Open \cup Lost)') \in Nat
      /\ sockets \in Nat /\ failures \in Nat /\ failures <= MaxFailures /\ MaxFailures \in Nat
  BY <1>s, SocketSets, FailuresAssumption DEF GaugeInv
\* Nothing moves among the sets, and nothing is counted.
<1>1. ASSUME Open' = Open, Lost' = Lost, sockets' = sockets,
             failures' = failures \/ (failures' = failures + 1 /\ failures < MaxFailures)
      PROVE  GaugeInv'
  BY <1>1, <1>c DEF GaugeInv, GaugeCoversSockets
\* A handler that is no socket, or one that stays on its side.
<1>2. ASSUME NEW h \in Handlers, NEW there \in Places, Goto(h, there), sockets' = sockets,
             failures' = failures \/ (failures' = failures + 1 /\ failures < MaxFailures),
             \/ h \notin Sockets
             \/ h \in Open /\ there \in {"accepted", "got", "open"}
             \/ h \notin Open \cup Lost /\ there \in {"leaving", "done"}
      PROVE  GaugeInv'
  <2>1. CASE h \notin Sockets
    <3>1. \A w \in Sockets : pc'[w] = pc[w]
      BY <1>0, <1>2, <2>1, GotoType
    <3> QED BY <1>1, <1>2, <3>1 DEF Open, Lost
  <2>2. CASE h \in Sockets
    BY <1>1, <1>2, <1>s, <2>2, SocketMoves
  <2> QED BY <2>1, <2>2
\* A socket that opens, and one that closes and is taken out of the gauge.
<1>3. ASSUME NEW w \in Sockets, Goto(w, "accepted"), w \notin Open \cup Lost,
             sockets' = sockets + 1, failures' = failures
      PROVE  GaugeInv'
  <2>1. Open' = Open \cup {w} /\ Lost' = Lost
    BY <1>3, <1>p, SocketMoves
  <2>2. (Open \cup Lost)' = (Open \cup Lost) \cup {w}
    BY <2>1
  <2>3. Cardinality(Open') = Cardinality(Open) + 1
    BY <1>3, <1>s, <2>1, SocketSets
  <2>4. Cardinality((Open \cup Lost)') = Cardinality(Open \cup Lost) + 1
    BY <1>3, <1>s, <2>2, SocketSets
  <2> QED BY <1>3, <1>c, <2>3, <2>4 DEF GaugeInv, GaugeCoversSockets
<1>4. ASSUME NEW w \in Sockets, NEW there \in {"closing", "done"}, Goto(w, there), w \in Open,
             sockets' = sockets - 1,
             failures' = failures \/ (failures' = failures + 1 /\ failures < MaxFailures)
      PROVE  GaugeInv'
  <2>1. Open' = Open \ {w} /\ Lost' = Lost
    <3>1. there \in Places /\ there \notin {"accepted", "got", "open"} /\ there # "lost"
      BY <1>p
    <3>2. Open' = Open \ {w} /\ Lost' = Lost \ {w}
      BY <1>4, <3>1, SocketMoves
    <3> QED BY <1>4, <1>s, <3>2
  <2>2. (Open \cup Lost)' = (Open \cup Lost) \ {w}
    BY <1>4, <1>s, <2>1
  <2>3. Cardinality(Open') = Cardinality(Open) - 1
    BY <1>4, <1>s, <2>1, SocketSets
  <2>4. Cardinality((Open \cup Lost)') = Cardinality(Open \cup Lost) - 1
    BY <1>4, <1>s, <2>2, SocketSets
  <2> QED BY <1>4, <1>c, <2>3, <2>4 DEF GaugeInv, GaugeCoversSockets
\* A socket Redis fails outside its loop.
<1>5. ASSUME NEW w \in Sockets, Goto(w, "lost"), sockets' = sockets,
             failures' = failures + 1, failures < MaxFailures
      PROVE  GaugeInv'
  <2>1. Open' = Open \ {w} /\ Lost' = Lost \cup {w}
    BY <1>5, <1>p, SocketMoves
  <2>2. Cardinality(Open \cup Lost) <= Cardinality((Open \cup Lost)')
    <3>1. Open \cup Lost \subseteq (Open \cup Lost)'
      BY <2>1
    <3> QED BY <1>s, <3>1, SocketSets
  <2>3. Cardinality(Open') = Cardinality(Open) \/ Cardinality(Open') = Cardinality(Open) - 1
    <3>1. CASE w \in Open
      BY <1>s, <2>1, <3>1, SocketSets
    <3>2. CASE w \notin Open
      <4>1. Open' = Open
        BY <2>1, <3>2
      <4> QED BY <4>1
    <3> QED BY <3>1, <3>2
  <2> QED BY <1>5, <1>c, <2>2, <2>3 DEF GaugeInv, GaugeCoversSockets
<1>6. CASE CreateSession \/ Expire \/ UNCHANGED vars
  <2>1. UNCHANGED <<pc, sockets, failures>>
    BY <1>6 DEF CreateSession, Expire, vars
  <2> QED BY <1>1, <2>1 DEF Open, Lost
<1>7. ASSUME NEW h \in Handlers, h \notin Sockets,
             \/ h \in Updates /\ UpdateStep(h)
             \/ h \in Deletes /\ DeleteStep(h)
             \/ MetricsStep(h)
      PROVE  GaugeInv'
  <2>1. UNCHANGED <<sockets, failures>>
    BY <1>7 DEF UpdateStep, DeleteStep, MetricsStep, UpdateReads, UpdateWrites, DeleteReads,
                DeleteSession, DeleteMetrics, CheckSession, ReadMetrics, WriteMetrics
  <2>2. \E there \in Places : Goto(h, there)
    BY <1>7, <1>p
       DEF UpdateStep, DeleteStep, MetricsStep, UpdateReads, UpdateWrites, DeleteReads,
           DeleteSession, DeleteMetrics, CheckSession, ReadMetrics, WriteMetrics, Look
  <2> QED BY <1>2, <1>7, <2>1, <2>2
<1>8. ASSUME NEW w \in Sockets, SocketStep(w) PROVE GaugeInv'
  <2>1. CASE Accept(w)
    BY <1>3, <2>1 DEF Accept, At, Open, Lost
  <2>2. CASE Admit(w)
    <3>1. w \in Open
      BY <2>2 DEF Admit, At, Open
    <3> QED BY <1>0, <1>2, <1>4, <1>p, <2>2, <3>1 DEF Admit, Look
  <2>3. CASE Connected(w)
    <3>1. w \in Open
      BY <2>3 DEF Connected, At, Open
    <3> QED BY <1>0, <1>2, <1>p, <2>3, <3>1 DEF Connected
  <2>4. CASE Round(w)
    BY <1>1, <2>4 DEF Round, Open, Lost
  <2>5. CASE Leave(w)
    BY <1>4, <2>5 DEF Leave, At, Open
  <2>6. CASE LastLook(w) \/ Disconnected(w)
    <3>1. w \notin Open \cup Lost
      BY <2>6 DEF LastLook, Disconnected, At, Open, Lost
    <3> QED BY <1>0, <1>2, <1>p, <2>6, <3>1 DEF LastLook, Disconnected, Look
  <2> QED BY <1>8, <2>1, <2>2, <2>3, <2>4, <2>5, <2>6 DEF SocketStep
<1>9. ASSUME NEW h \in Handlers, CommandFails(h) PROVE GaugeInv'
  <2>1. failures' = failures + 1 /\ failures < MaxFailures
    BY <1>9 DEF CommandFails
  <2>2. CASE h \in Sockets /\ pc[h] \in {"got", "open"}
    BY <1>4, <1>9, <2>1, <2>2 DEF CommandFails, Open
  <2>3. CASE h \in Sockets /\ pc[h] \notin {"got", "open"}
    BY <1>5, <1>9, <2>1, <2>3 DEF CommandFails
  <2>4. CASE h \notin Sockets
    BY <1>2, <1>9, <1>p, <2>1, <2>4 DEF CommandFails
  <2> QED BY <2>2, <2>3, <2>4
<1>a. /\ Updates \subseteq Handlers /\ Deletes \subseteq Handlers
      /\ Reads \subseteq Handlers /\ Posts \subseteq Handlers
  BY DEF Handlers
<1> QED BY <1>0, <1>6, <1>7, <1>8, <1>9, <1>a
        DEF Next, UpdateStep, DeleteStep, MetricsStep, SocketStep

-----------------------------------------------------------------------------
(* The theorems *)

\* The type, and what NotCreated says of handlers that have seen the session.
THEOREM StoreTypeCorrect == Spec => [](StoreType /\ NotCreated)
<1>1. Init => StoreType /\ NotCreated
  BY RecordTypes DEF Init, StoreType, NotCreated, Places
<1>2. StoreType /\ NotCreated /\ [Next]_vars => (StoreType /\ NotCreated)'
  BY TypeStep
<1> QED BY <1>1, <1>2, PTL DEF Spec

\* The gauge invariant.
THEOREM GaugeInvariant == Spec => []GaugeInv
<1>1. Init => GaugeInv
  <2> SUFFICES ASSUME Init PROVE GaugeInv
    OBVIOUS
  <2>1. Open = {} /\ Lost = {}
    <3>1. \A w \in Sockets : pc[w] = "idle"
      BY DEF Init, Handlers
    <3> QED BY <3>1 DEF Open, Lost
  <2> QED BY <2>1, FS_EmptySet, FailuresAssumption DEF Init, GaugeInv, GaugeCoversSockets
<1>2. StoreType /\ GaugeInv /\ [Next]_vars => GaugeInv'
  BY GaugeStep
<1> QED BY <1>1, <1>2, StoreTypeCorrect, PTL DEF Spec

\* The gauge of the metrics sockets covers the open ones, and exceeds them by no
\* more than the Redis commands that failed, for any number of sockets
\* (websocket_bridge.py:26-33, 133).
THEOREM GaugeCorrect == Spec => []GaugeCoversSockets
<1>1. GaugeInv => GaugeCoversSockets
  BY DEF GaugeInv
<1> QED BY <1>1, GaugeInvariant, PTL

\* The type invariant: the gauge included, which never exceeds the number of
\* sockets there ever were.
THEOREM SessionStoreTypeCorrect == Spec => []TypeOK
<1>1. StoreType /\ GaugeInv => TypeOK
  <2> SUFFICES ASSUME StoreType, GaugeInv PROVE TypeOK
    OBVIOUS
  <2>1. /\ Cardinality(Open \cup Lost) <= Cardinality(Sockets)
        /\ Cardinality(Open \cup Lost) \in Nat /\ Cardinality(Sockets) \in Nat
    <3>1. Open \cup Lost \subseteq Sockets /\ Sockets \subseteq Sockets
      BY DEF Open, Lost
    <3> QED BY <3>1, SocketSets
  <2>2. sockets \in 0 .. Cardinality(Sockets) /\ failures \in 0 .. MaxFailures
    BY <2>1 DEF GaugeInv
  <2> QED BY <2>2 DEF StoreType, TypeOK, Places
<1> QED BY <1>1, GaugeInvariant, StoreTypeCorrect, PTL

\* A session that was deleted while no handler was half way through stays deleted,
\* and so do its metrics, whatever requests and sockets come later
\* (sessions.py:96-107, 119-128; websocket_bridge.py:29-33).
THEOREM QuietDeletesAreFinal == Spec => []QuietDeleteIsFinal
<1>1. Init => Quieted
  BY DEF Init, Quieted
<1>2. StoreType /\ NotCreated /\ Quieted /\ [Next]_vars => Quieted'
  BY QuietStep
<1>3. Quieted => QuietDeleteIsFinal
  BY DEF Quieted, QuietDeleteIsFinal
<1> QED BY <1>1, <1>2, <1>3, StoreTypeCorrect, PTL DEF Spec

\* What is said of a connected session is an invariant.
THEOREM ConnectedInvariant == Spec => [](ConnectedHasSocket /\ ConnectedSince)
<1>1. Init => ConnectedHasSocket /\ ConnectedSince
  BY RecordTypes DEF Init, ConnectedHasSocket, ConnectedSince
<1>2. StoreType /\ StoreType' /\ ConnectedHasSocket /\ ConnectedSince /\ [Next]_vars
        => (ConnectedHasSocket /\ ConnectedSince)'
  BY ConnectedStep
<1> QED BY <1>1, <1>2, StoreTypeCorrect, PTL DEF Spec

\* A session that a socket has marked as connected has that socket, unless Redis
\* failed it in its last words (websocket_bridge.py:44-47, 141-148).
THEOREM SocketBehindConnected == Spec => []ConnectedHasSocket
BY ConnectedInvariant, PTL

\* A session shown as connected says since when (sessions.py:102-105;
\* websocket_bridge.py:45-46).
THEOREM ConnectedHasTime == Spec => []ConnectedSince
BY ConnectedInvariant, PTL
=============================================================================
