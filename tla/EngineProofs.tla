----------------------------- MODULE EngineProofs -----------------------------
(***************************************************************************)
(* The safety of Engine for every number of connections, every set of      *)
(* requests and any number of signals.  The conjunction of the three       *)
(* invariants is inductive with two additions: while main() can still use  *)
(* the admin server, the thread that accepts has not been told to stop; and*)
(* a request is whole when it has been read, before it is acted on.        *)
(***************************************************************************)
EXTENDS Engine, TLAPS

\* AdminServer::running_ is cleared by the destructor only.
NotStopped ==
    /\ server \in {"checking", "accepting"}
            /\ main \in {"unarmed", "armed", "looping", "left", "closing", "stopping"} => serving
    /\ main \in {"start", "constructed"} => server = "none"

\* WholeBody from the moment the connection stops reading.
ReadWhole ==
    \A c \in Connections :
        conn[c] \in {"read", "starting"} /\ ~stalled[c] /\ request[c].declared
            /\ raw[c] < kBufferSize
        => raw[c] = Total(request[c])

EngineInv == TypeOK /\ ReadWhole /\ Serving /\ NotStopped

LEMMA RequestFields ==
    ASSUME NEW r \in Requests
    PROVE  /\ r.starts \in BOOLEAN /\ r.declared \in BOOLEAN
           /\ r.head \in Nat \ {0} /\ r.body \in Nat /\ Total(r) \in Nat
BY RequestsAssumption DEF Total

LEMMA EngineInit_Inv == Init => EngineInv
<1> SUFFICES ASSUME Init PROVE EngineInv  OBVIOUS
<1>1. \A c \in Connections : request[c] \in Requests  BY DEF Init
<1>2. \A c \in Connections : 0 <= Total(request[c])  BY <1>1, RequestFields
<1>3. \A c \in Connections : conn[c] # "starting" /\ starter # c
  BY ConnectionsAssumption DEF Init
<1>4. request \in [Connections -> Requests] /\ signals \in 0 .. MaxSignals
  BY BoundsAssumption DEF Init
<1>5. \A c \in Connections : raw[c] = 0  BY DEF Init
<1>6. TypeOK
  BY <1>2, <1>3, <1>4, <1>5 DEF Init, TypeOK
<1> QED BY <1>6 DEF Init, EngineInv, ReadWhole, Serving, NotStopped

\* What main(), a signal and the accepting thread do leaves the requests alone.
LEMMA Quiet ==
    ASSUME ReadWhole, UNCHANGED <<conn, request, raw, stalled>>
    PROVE  ReadWhole'
BY DEF ReadWhole

LEMMA MainStep == EngineInv /\ (Main \/ LoopFails) => EngineInv'
<1> SUFFICES ASSUME EngineInv, Main \/ LoopFails PROVE EngineInv'  OBVIOUS
<1>1. UNCHANGED connVars
  BY DEF Main, Construct, StartAdmin, ArmSignals, EnterLoop, LeaveLoop, LoopFails,
         CloseSockets, DestroyMembers, StopAdmin, Exit
<1>2. ReadWhole'  BY <1>1, Quiet DEF EngineInv, connVars
<1>3. TypeOK'
  <2>1. /\ main' \in {"start", "constructed", "unarmed", "armed", "looping", "left", "closing",
                      "stopping", "joining", "exited", "killed"}
        /\ running' \in BOOLEAN /\ signals' = signals
        /\ serving' \in BOOLEAN /\ listening' \in BOOLEAN
        /\ server' \in {"none", "checking", "accepting", "ended"}
    BY DEF EngineInv, TypeOK, Main, Construct, StartAdmin, ArmSignals, EnterLoop, LeaveLoop,
           LoopFails, CloseSockets, DestroyMembers, StopAdmin, Exit, Goto, serverVars
  <2> QED BY <1>1, <2>1 DEF EngineInv, TypeOK, connVars
<1>4. Serving' /\ NotStopped'
  BY DEF EngineInv, TypeOK, Serving, NotStopped, Main, Construct, StartAdmin, ArmSignals,
         EnterLoop, LeaveLoop, LoopFails, CloseSockets, DestroyMembers, StopAdmin, Exit, Goto,
         serverVars
<1> QED BY <1>2, <1>3, <1>4 DEF EngineInv

LEMMA SignalStep == EngineInv /\ Signal => EngineInv'
<1> SUFFICES ASSUME EngineInv, Signal PROVE EngineInv'  OBVIOUS
<1>1. UNCHANGED <<serverVars, connVars>>  BY DEF Signal
<1>2. ReadWhole'  BY <1>1, Quiet DEF EngineInv, connVars
<1>3. signals' \in 0 .. MaxSignals
  BY BoundsAssumption DEF Signal, EngineInv, TypeOK
<1>4. TypeOK'
  BY <1>1, <1>3 DEF Signal, EngineInv, TypeOK, connVars, serverVars
<1>5. Serving' /\ NotStopped'
  BY <1>1 DEF Signal, EngineInv, Serving, NotStopped, serverVars
<1> QED BY <1>2, <1>4, <1>5 DEF EngineInv

LEMMA ServerStep == EngineInv /\ Server => EngineInv'
<1> SUFFICES ASSUME EngineInv, Server PROVE EngineInv'  OBVIOUS
<1>1. CASE Check
  <2>1. ReadWhole'  BY <1>1, Quiet DEF Check, EngineInv, connVars
  <2>2. TypeOK'  BY <1>1 DEF Check, EngineInv, TypeOK, connVars, mainVars
  <2>3. Serving' /\ NotStopped'
    BY <1>1 DEF Check, EngineInv, TypeOK, Serving, NotStopped, mainVars
  <2> QED BY <2>1, <2>2, <2>3 DEF EngineInv
<1>2. CASE AcceptFails
  <2>1. ReadWhole'  BY <1>2, Quiet DEF AcceptFails, EngineInv, connVars
  <2>2. TypeOK'  BY <1>2 DEF AcceptFails, EngineInv, TypeOK, connVars, mainVars
  <2>3. Serving' /\ NotStopped'
    BY <1>2 DEF AcceptFails, EngineInv, TypeOK, Serving, NotStopped, mainVars
  <2> QED BY <2>1, <2>2, <2>3 DEF EngineInv
<1>3. CASE \E c \in Connections : Accept(c)
  <2>1. PICK c \in Connections : Accept(c)  BY <1>3
  <2>2. TypeOK'  BY <2>1 DEF Accept, EngineInv, TypeOK, mainVars
  <2>3. ReadWhole'  BY <2>1 DEF Accept, EngineInv, TypeOK, ReadWhole
  <2>4. Serving' /\ NotStopped'
    BY <2>1 DEF Accept, EngineInv, TypeOK, Serving, NotStopped, mainVars
  <2> QED BY <2>2, <2>3, <2>4 DEF EngineInv
<1> QED BY <1>1, <1>2, <1>3 DEF Server

\* A step of one connection and its client.
LEMMA ConnectionStep ==
    ASSUME NEW c \in Connections, EngineInv,
           Connect(c) \/ Thread(c) \/ RefuseStart(c) \/ BeginStart(c) \/ FinishStart(c)
    PROVE  EngineInv'
<1> USE DEF EngineInv
<1>1. request[c] \in Requests /\ request' = request  
  BY DEF TypeOK, Connect, Thread, Recv, RecvFails, Refuse, AnswerPoll, RefuseStart, BeginStart,
         FinishStart
<1>2. server' = server /\ serving' = serving /\ listening' = listening
  BY DEF Connect, Thread, Recv, RecvFails, Refuse, AnswerPoll, RefuseStart, BeginStart,
         FinishStart, serverVars
<1>3. main' = main \/ (main \in {"stopping", "joining"} /\ main' = "killed")
  BY DEF Connect, Thread, Recv, RecvFails, Refuse, AnswerPoll, RefuseStart, BeginStart,
         FinishStart, UseMembers,
         mainVars
<1>4. running' = running /\ signals' = signals
  BY DEF Connect, Thread, Recv, RecvFails, Refuse, AnswerPoll, RefuseStart, BeginStart,
         FinishStart, UseMembers,
         mainVars
<1>5. Serving' /\ NotStopped'
  BY <1>2, <1>3 DEF TypeOK, Serving, NotStopped
<1>6. TypeOK' /\ ReadWhole'
  <2>1. CASE Connect(c)
    BY <1>1, <1>2, <1>3, <1>4, <2>1 DEF Connect, TypeOK, ReadWhole
  <2>2. CASE Recv(c)
    <3>1. PICK n \in raw[c] + 1 .. Total(request[c]) :
              /\ raw' = [raw EXCEPT ![c] = n]
              /\ conn' = IF Enough(request[c], n) THEN [conn EXCEPT ![c] = "read"] ELSE conn
      BY <2>2 DEF Recv
    <3>2. /\ n \in Nat /\ n <= Total(request[c]) /\ Total(request[c]) \in Nat
          /\ request[c].declared \in BOOLEAN
      BY <1>1, <3>1, RequestFields DEF TypeOK
    <3>3. conn[c] = "reading" /\ UNCHANGED <<stalled, starter>>  BY <2>2 DEF Recv
    <3>4. TypeOK'  BY <1>1, <1>2, <1>3, <1>4, <3>1, <3>2, <3>3 DEF TypeOK
    <3>5. Enough(request[c], n) /\ request[c].declared /\ n < kBufferSize => n = Total(request[c])
      BY <3>2, BoundsAssumption DEF Enough
    <3>6. ReadWhole'  BY <1>1, <3>1, <3>3, <3>5 DEF TypeOK, ReadWhole
    <3> QED BY <3>4, <3>6
  <2>3. CASE RecvFails(c)
    BY <1>1, <1>2, <1>3, <1>4, <2>3 DEF RecvFails, TypeOK, ReadWhole
  <2>4. CASE Refuse(c)
    BY <1>1, <1>2, <1>3, <1>4, <2>4 DEF Refuse, TypeOK, ReadWhole
  <2>5. CASE AnswerPoll(c)
    BY <1>1, <1>2, <1>3, <1>4, <2>5 DEF AnswerPoll, TypeOK, ReadWhole
  <2>6. CASE BeginStart(c)
    BY <1>1, <1>2, <1>3, <1>4, <2>6, ConnectionsAssumption DEF BeginStart, TypeOK, ReadWhole
  <2>7. CASE FinishStart(c)
    BY <1>1, <1>2, <1>3, <1>4, <2>7, ConnectionsAssumption DEF FinishStart, TypeOK, ReadWhole
  <2>8. CASE RefuseStart(c)
    BY <1>1, <1>2, <1>3, <1>4, <2>8 DEF RefuseStart, TypeOK, ReadWhole
  <2> QED BY <2>1, <2>2, <2>3, <2>4, <2>5, <2>6, <2>7, <2>8 DEF Thread
<1> QED BY <1>5, <1>6

LEMMA EngineNext_Inv == EngineInv /\ [Next]_vars => EngineInv'
<1> SUFFICES ASSUME EngineInv, [Next]_vars PROVE EngineInv'  OBVIOUS
<1>1. CASE Main \/ LoopFails  BY <1>1, MainStep
<1>2. CASE Signal  BY <1>2, SignalStep
<1>3. CASE Server  BY <1>3, ServerStep
<1>4. CASE \E c \in Connections :
             Connect(c) \/ Thread(c) \/ RefuseStart(c) \/ BeginStart(c) \/ FinishStart(c)
  BY <1>4, ConnectionStep
<1>5. CASE UNCHANGED vars
  BY <1>5 DEF vars, mainVars, serverVars, connVars, EngineInv, TypeOK, ReadWhole, Serving, NotStopped
<1> QED BY <1>1, <1>2, <1>3, <1>4, <1>5 DEF Next

\* The inductive invariant of the engine process, for all constants.
THEOREM EngineInvariant == Spec => []EngineInv
BY EngineInit_Inv, EngineNext_Inv, PTL DEF Spec

\* Types, and one start request at a time: the one that holds stream_start_mutex_.
THEOREM EngineTypeCorrect == Spec => []TypeOK
BY EngineInvariant, PTL DEF EngineInv

\* A start request is acted on with its whole body, however it was cut into reads.
THEOREM RequestsWhole == Spec => []WholeBody
<1>1. EngineInv => WholeBody  BY DEF EngineInv, ReadWhole, WholeBody
<1> QED BY <1>1, EngineInvariant, PTL

\* The accepting thread does not end before the event loop does.
THEOREM ServingWhileRunning == Spec => []Serving
BY EngineInvariant, PTL DEF EngineInv
=============================================================================
