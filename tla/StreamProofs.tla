----------------------------- MODULE StreamProofs -----------------------------
(***************************************************************************)
(* Theorems about SessionLink as a whole: no packet is ever unaccounted    *)
(* for; in a dummy transfer without overtaking or listener restarts the    *)
(* two ends' windows agree and every gap can be filled; a FIN comes after  *)
(* everything else; the listener starts over for a new process only; a     *)
(* dummy transfer implements ReliableStream, and any transfer LiveStream.  *)
(***************************************************************************)
EXTENDS SessionProofs, FiniteSetTheorems

-----------------------------------------------------------------------------
(* The sliding window *)

\* Any step of a sending process.
SendingStep ==
    \/ Launch \/ Exit \/ HandshakeTick \/ RetryLimit \/ Tick
    \/ \E p \in down :
        \/ /\ running /\ p.port = inc
           /\ OnSynAck(p) \/ OnFinAck(p) \/ OnAck(p) \/ \E late \in BOOLEAN : OnNack(p, late)
        \/ ToDeadPort(p)

\* Any step of the listening process.
ListeningStep ==
    \/ \E p \in up : OnSyn(p) \/ OnHsAck(p) \/ OnFin(p) \/ OnData(p)
    \/ SynAckTick \/ ListenerRestart

\* A datagram of the current process, of a packet it has handed over.
Own(q) == q.port = inc /\ (q.type = "Data" => q.seq < next_seq)

\* What one step of a sending process does to the packets it has sent: it may
\* forget some of those in flight, as acknowledged or (in media mode) as late,
\* and then send the next ones.
LEMMA SendingEffect ==
    ASSUME TypeOK, SendingStep, ~Launch
    PROVE  \E confirmed, late \in SUBSET in_flight :
             /\ inc' = inc
             /\ confirmed = {} \/ \E p \in down : /\ p.type = "Ack" /\ p.port = inc
                                                  /\ confirmed = in_flight \cap {p.seq}
             /\ confirmed \cap late = {}
             /\ late # {} => MediaMode
             /\ acked' = acked \cup confirmed
             /\ dropped' = dropped \cup late
             /\ down' \subseteq down
             /\ \/ /\ in_flight' = (in_flight \ confirmed) \ late
                   /\ next_seq' = next_seq
                   /\ \A q \in up' : q \in up \/ Own(q)
                \/ \E st, sent : /\ sent \subseteq UpPackets /\ \A q \in sent : Own(q)
                                 /\ FillWindow((in_flight \ confirmed) \ late, st, sent)
<1> USE DEF TypeOK, ITypeOK
<1>a. running => inc \in Ports
  BY MaxIncAssumption DEF ControlType, Ports
<1>b. \A s \in in_flight : s < next_seq
  BY DEF SenderType
<1>1. CASE Exit \/ HandshakeTick \/ RetryLimit
  <2>1. UNCHANGED <<inc, acked, dropped, in_flight, next_seq, down>>
    BY <1>1 DEF Exit, HandshakeTick, RetryLimit, senderVars, wireVars
  <2>3. Own(Syn(inc))
    BY PacketFields DEF Own
  <2>2. \A q \in up' : q \in up \/ Own(q)
    BY <1>1, <2>3 DEF Exit, HandshakeTick, RetryLimit, wireVars
  <2> WITNESS {} \in SUBSET in_flight, {} \in SUBSET in_flight
  <2> QED BY <2>1, <2>2
<1>2. CASE Tick
  <2>1. PICK expired \in ExpiredSets : \E late \in SUBSET expired :
          /\ late # {} => MediaMode
          /\ dropped' = dropped \cup late
          /\ FillWindow(in_flight \ late, istate, {Data(s, inc) : s \in expired \ late})
    BY <1>2 DEF Tick
  <2>2. PICK late \in SUBSET expired :
          /\ late # {} => MediaMode
          /\ dropped' = dropped \cup late
          /\ FillWindow(in_flight \ late, istate, {Data(s, inc) : s \in expired \ late})
    BY <2>1
  <2>3. expired \subseteq in_flight /\ expired \subseteq Seqs
    BY TotalAssumption DEF ExpiredSets, SenderType, Seqs
  <2>4. inc \in Ports /\ UNCHANGED <<inc, acked, down>>
    BY <1>2, <1>a DEF Tick, controlVars
  <2>5. {Data(s, inc) : s \in expired \ late} \subseteq UpPackets
    BY <2>3, <2>4, UpSent
  <2>8. \A q \in {Data(s, inc) : s \in expired \ late} : Own(q)
    <3> QED BY <2>3, <1>b, PacketFields DEF Own
  <2>6. (in_flight \ {}) \ late = in_flight \ late
    OBVIOUS
  <2>7. {} \in SUBSET in_flight /\ late \in SUBSET in_flight
    BY <2>2, <2>3
  <2> HIDE DEF TypeOK, ITypeOK
  <2> QED BY <2>2, <2>4, <2>5, <2>6, <2>7, <2>8
<1>3. ASSUME NEW p \in down, running, OnSynAck(p)
      PROVE  /\ UNCHANGED <<inc, acked, dropped>> /\ down' \subseteq down
             /\ \/ UNCHANGED <<in_flight, next_seq>> /\ \A q \in up' : q \in up \/ Own(q)
                \/ \E st, sent : /\ sent \subseteq UpPackets /\ \A q \in sent : Own(q)
                                 /\ FillWindow(in_flight, st, sent)
  <2>1. {HsAck(inc)} \subseteq UpPackets /\ Own(HsAck(inc))
    BY <1>3, <1>a, UpSent, PacketFields DEF Own
  <2>4. down' \subseteq down
    BY <1>3, ReceivedSubset DEF OnSynAck
  <2>2. CASE istate = "Handshaking"
    BY <1>3, <2>1, <2>2, <2>4 DEF OnSynAck
  <2>3. CASE istate # "Handshaking"
    BY <1>3, <2>1, <2>3, <2>4 DEF OnSynAck, senderVars
  <2> QED BY <2>2, <2>3
<1>4. ASSUME NEW p \in down, OnFinAck(p) \/ ToDeadPort(p)
      PROVE  UNCHANGED <<inc, acked, dropped, in_flight, next_seq, up>> /\ down' \subseteq down
  BY <1>4, ReceivedSubset DEF OnFinAck, ToDeadPort, initiatorVars, controlVars, senderVars
<1>5. ASSUME NEW p \in down, running, p.port = inc, OnAck(p)
      PROVE  /\ down' \subseteq down
             /\ \/ UNCHANGED <<inc, acked, dropped, in_flight, next_seq, up>>
                \/ /\ inc' = inc /\ p.type = "Ack"
                   /\ acked' = acked \cup (in_flight \cap {p.seq}) /\ dropped' = dropped
                   /\ \/ /\ in_flight' = in_flight \ {p.seq} /\ next_seq' = next_seq
                         /\ \A q \in up' : q \in up \/ Own(q)
                      \/ FillWindow(in_flight \ {p.seq}, istate, {})
  <2>1. down' \subseteq down
    BY <1>5, ReceivedSubset DEF OnAck
  <2>2. Own(Fin(inc))
    BY PacketFields DEF Own
  <2> QED BY <1>5, <2>1, <2>2 DEF OnAck, senderVars
<1>6. ASSUME NEW p \in down, NEW late \in BOOLEAN, OnNack(p, late)
      PROVE  /\ UNCHANGED <<inc, acked, next_seq>> /\ down' \subseteq down
             /\ \A q \in up' : q \in up \/ Own(q)
             /\ \/ UNCHANGED <<in_flight, dropped>>
                \/ /\ MediaMode /\ p.seq \in in_flight
                   /\ in_flight' = in_flight \ {p.seq} /\ dropped' = dropped \cup {p.seq}
  <2>1. UNCHANGED <<inc, acked, next_seq>> /\ down' \subseteq down
    BY <1>6, ReceivedSubset DEF OnNack, controlVars
  <2>2. p.seq \in in_flight => Own(Data(p.seq, inc))
    BY <1>b, PacketFields DEF Own
  <2>3. up' = up \/ (p.seq \in in_flight /\ up' = up \cup {Data(p.seq, inc)})
    BY <1>6 DEF OnNack
  <2> QED BY <1>6, <2>1, <2>2, <2>3 DEF OnNack
<1>7. CASE /\ UNCHANGED <<inc, acked, dropped>> /\ down' \subseteq down
           /\ \/ UNCHANGED <<in_flight, next_seq>> /\ \A q \in up' : q \in up \/ Own(q)
              \/ \E st, sent : /\ sent \subseteq UpPackets /\ \A q \in sent : Own(q)
                               /\ FillWindow(in_flight, st, sent)
  <2>1. (in_flight \ {}) \ {} = in_flight
    OBVIOUS
  <2> WITNESS {} \in SUBSET in_flight, {} \in SUBSET in_flight
  <2> QED BY <1>7, <2>1
<1>8. ASSUME NEW p \in down, p.port = inc, inc' = inc, p.type = "Ack", down' \subseteq down,
             acked' = acked \cup (in_flight \cap {p.seq}), dropped' = dropped,
             \/ /\ in_flight' = in_flight \ {p.seq} /\ next_seq' = next_seq
                /\ \A q \in up' : q \in up \/ Own(q)
             \/ FillWindow(in_flight \ {p.seq}, istate, {})
      PROVE  \E confirmed, late \in SUBSET in_flight :
             /\ inc' = inc
             /\ confirmed = {} \/ \E r \in down : /\ r.type = "Ack" /\ r.port = inc
                                                  /\ confirmed = in_flight \cap {r.seq}
             /\ confirmed \cap late = {}
             /\ late # {} => MediaMode
             /\ acked' = acked \cup confirmed
             /\ dropped' = dropped \cup late
             /\ down' \subseteq down
             /\ \/ /\ in_flight' = (in_flight \ confirmed) \ late
                   /\ next_seq' = next_seq
                   /\ \A q \in up' : q \in up \/ Own(q)
                \/ \E st, sent : /\ sent \subseteq UpPackets /\ \A q \in sent : Own(q)
                                 /\ FillWindow((in_flight \ confirmed) \ late, st, sent)
  <2>1. (in_flight \ (in_flight \cap {p.seq})) \ {} = in_flight \ {p.seq}
    OBVIOUS
  <2> WITNESS in_flight \cap {p.seq} \in SUBSET in_flight, {} \in SUBSET in_flight
  <2> QED BY <1>8, <2>1
<1>9. ASSUME NEW p \in down, UNCHANGED <<inc, acked, next_seq>>, MediaMode,
             down' \subseteq down, \A q \in up' : q \in up \/ Own(q), p.seq \in in_flight,
             in_flight' = in_flight \ {p.seq}, dropped' = dropped \cup {p.seq}
      PROVE  \E confirmed, late \in SUBSET in_flight :
             /\ inc' = inc
             /\ confirmed = {} \/ \E r \in down : /\ r.type = "Ack" /\ r.port = inc
                                                  /\ confirmed = in_flight \cap {r.seq}
             /\ confirmed \cap late = {}
             /\ late # {} => MediaMode
             /\ acked' = acked \cup confirmed
             /\ dropped' = dropped \cup late
             /\ down' \subseteq down
             /\ \/ /\ in_flight' = (in_flight \ confirmed) \ late
                   /\ next_seq' = next_seq
                   /\ \A q \in up' : q \in up \/ Own(q)
                \/ \E st, sent : /\ sent \subseteq UpPackets /\ \A q \in sent : Own(q)
                                 /\ FillWindow((in_flight \ confirmed) \ late, st, sent)
  <2>1. (in_flight \ {}) \ {p.seq} = in_flight \ {p.seq}
    OBVIOUS
  <2>2. {p.seq} \in SUBSET in_flight
    BY <1>9
  <2> QED BY <1>9, <2>1, <2>2
<1> QED BY <1>1, <1>2, <1>3, <1>4, <1>5, <1>6, <1>7, <1>8, <1>9 DEF SendingStep

\* Filling the window adds the next packets to those in flight.
LEMMA FillExtends ==
    ASSUME TypeOK, NEW flight \in SUBSET in_flight, NEW st, NEW sent, FillWindow(flight, st, sent)
    PROVE  \E k \in Nat :
             /\ next_seq' = next_seq + k
             /\ in_flight' = flight \cup (next_seq .. next_seq + k - 1)
             /\ up' = up \cup sent \cup {Data(s, inc) : s \in next_seq .. next_seq + k - 1}
             /\ k = 0 \/ Cardinality(flight) + k <= kSendWindow
<1>1. PICK k \in 0 .. Total, skip \in {0, 1} :
        /\ IF st = "Active" THEN FillChoice(flight, k, skip) ELSE k = 0 /\ skip = 0
        /\ in_flight' = flight \cup (next_seq .. next_seq + k - 1)
        /\ up' = up \cup sent \cup {Data(s, inc) : s \in next_seq .. next_seq + k - 1}
        /\ next_seq' = next_seq + k
  BY DEF FillWindow
<1>2. IsFiniteSet(flight) /\ Cardinality(flight) \in Nat
  <2>1. IsFiniteSet(0 .. next_seq - 1)
    BY FS_Interval, TotalAssumption DEF TypeOK, ITypeOK, SenderType
  <2>2. flight \subseteq 0 .. next_seq - 1
    BY DEF TypeOK, ITypeOK, SenderType
  <2> QED BY <2>1, <2>2, FS_Subset, FS_CardinalityType
<1>3. k \in Nat /\ (k = 0 \/ Cardinality(flight) + k <= kSendWindow)
  BY <1>1, <1>2, TotalAssumption, WindowAssumption DEF FillChoice, Fits
<1> QED BY <1>1, <1>3

-----------------------------------------------------------------------------
(* No packet is lost track of *)

\* A step of the sending process settles a packet at most once.
LEMMA SendingKeepsAccounts ==
    ASSUME TypeOK, Accounted, SendingStep
    PROVE  Accounted'
<1>1. CASE Launch
  BY <1>1 DEF Launch, Accounted
<1>2. CASE ~Launch
  <2>1. PICK confirmed, late \in SUBSET in_flight :
          /\ confirmed \cap late = {}
          /\ acked' = acked \cup confirmed /\ dropped' = dropped \cup late
          /\ \/ /\ in_flight' = (in_flight \ confirmed) \ late
                /\ next_seq' = next_seq
             \/ \E st, sent : FillWindow((in_flight \ confirmed) \ late, st, sent)
    BY <1>2, SendingEffect
  <2>2. CASE /\ in_flight' = (in_flight \ confirmed) \ late
             /\ next_seq' = next_seq
    BY <2>1, <2>2 DEF Accounted
  <2>3. CASE \E st, sent : FillWindow((in_flight \ confirmed) \ late, st, sent)
    <3>1. PICK k \in Nat :
            /\ next_seq' = next_seq + k
            /\ in_flight' = ((in_flight \ confirmed) \ late) \cup (next_seq .. next_seq + k - 1)
      BY <2>3, FillExtends
    <3>2. next_seq \in Nat
      BY TotalAssumption DEF TypeOK, ITypeOK, SenderType
    <3>3. 0 .. next_seq + k - 1 = (0 .. next_seq - 1) \cup (next_seq .. next_seq + k - 1)
      BY <3>2
    <3>4. (0 .. next_seq - 1) \cap (next_seq .. next_seq + k - 1) = {}
      BY <3>2
    <3>5. in_flight \cup acked \cup dropped = 0 .. next_seq - 1
      BY DEF Accounted
    <3>6. in_flight' \cup acked' \cup dropped' = 0 .. next_seq' - 1
      <4>1. ((in_flight \ confirmed) \ late) \cup acked' \cup dropped' = 0 .. next_seq - 1
        BY <2>1, <3>5
      <4>2. next_seq' - 1 = next_seq + k - 1
        BY <3>1, <3>2
      <4> QED BY <3>1, <3>3, <4>1, <4>2
    <3>7. /\ acked' \cap (next_seq .. next_seq + k - 1) = {}
          /\ dropped' \cap (next_seq .. next_seq + k - 1) = {}
      BY <2>1, <3>4, <3>5
    <3> QED BY <2>1, <3>1, <3>6, <3>7 DEF Accounted
  <2> QED BY <2>1, <2>2, <2>3
<1> QED BY <1>1, <1>2

\* Every packet handed over is in flight, acknowledged or given up as late, and
\* only one of these, in both modes and on every network: no handler forgets a
\* packet or settles it twice (session.cpp:375-383, 405-408, 464).
THEOREM NoPacketForgotten == Spec => []Accounted
<1>1. Init => Accounted
  BY DEF Init, IInit, Accounted
<1>2. TypeOK /\ Accounted /\ [Next]_vars => Accounted'
  <2> SUFFICES ASSUME TypeOK, Accounted, [Next]_vars PROVE Accounted'
    OBVIOUS
  <2>1. CASE InitiatorSteps \/ \E p \in down : InitiatorReceives(p)
    BY <2>1, SendingKeepsAccounts DEF InitiatorSteps, InitiatorReceives, SendingStep
  <2>2. CASE \/ ListenerSteps \/ Lose \/ UNCHANGED vars
             \/ \E p \in up : ListenerReceives(p)
    BY <2>2 DEF ListenerSteps, Lose, vars, ListenerReceives, initiatorVars, senderVars, Accounted
  <2> QED BY <2>1, <2>2 DEF Next
<1> QED BY <1>1, <1>2, TypeCorrect, PTL DEF Spec

-----------------------------------------------------------------------------
(* The window invariant *)

\* The dummy transfers it is about.
DummyTransfer == ~MediaMode /\ ~Overtaking /\ MaxRestarts = 0

LEMMA SendingKeepsWindow ==
    ASSUME DummyTransfer, TypeOK, TypeOK', WindowInv, SendingStep,
           UNCHANGED <<listenerVars, epoch>>
    PROVE  WindowInv'
<1> USE DEF WindowInv
<1>0. /\ inc \in Nat /\ next_seq \in Nat /\ epoch \in Nat
      /\ next_expected' = next_expected /\ epoch' = epoch
  BY MaxIncAssumption, TotalAssumption
    DEF TypeOK, ITypeOK, ControlType, SenderType, listenerVars, receiverVars
<1>1. Accounted'
  BY SendingKeepsAccounts
<1>2. CASE Launch
  <2>1. SentByCurrent'
    <3>1. \A p \in up : p.port \in Nat /\ p.port <= inc
      BY UpPacket DEF TypeOK, SentByCurrent, Ports
    <3>2. up' = up \cup {Syn(inc + 1)} /\ inc' = inc + 1
      BY <1>2 DEF Launch
    <3> QED BY <1>0, <3>1, <3>2, PacketFields DEF SentByCurrent
  <2>2. AcksBehind'
    BY <1>0, <1>2 DEF Launch, AcksBehind
  <2>3. WithinWindow' /\ dropped' = {}
    BY <1>2, FS_EmptySet, WindowAssumption DEF Launch, WithinWindow
  <2> QED BY <1>1, <2>1, <2>2, <2>3
<1>3. CASE ~Launch
  <2>1. PICK confirmed, late \in SUBSET in_flight :
          /\ inc' = inc
          /\ confirmed = {} \/ \E p \in down : /\ p.type = "Ack" /\ p.port = inc
                                               /\ confirmed = in_flight \cap {p.seq}
          /\ late # {} => MediaMode
          /\ acked' = acked \cup confirmed
          /\ dropped' = dropped \cup late
          /\ down' \subseteq down
          /\ \/ /\ in_flight' = (in_flight \ confirmed) \ late
                /\ next_seq' = next_seq
                /\ \A q \in up' : q \in up \/ Own(q)
             \/ \E st, sent : /\ sent \subseteq UpPackets /\ \A q \in sent : Own(q)
                              /\ FillWindow((in_flight \ confirmed) \ late, st, sent)
    BY <1>3, SendingEffect
  <2>2. late = {} /\ dropped' = {}
    BY <2>1 DEF DummyTransfer
  <2>3. PICK k \in Nat :
          /\ next_seq' = next_seq + k
          /\ in_flight' = (in_flight \ confirmed) \cup (next_seq .. next_seq + k - 1)
          /\ \A q \in up' : q \in up \/ Own(q)
                             \/ \E s \in next_seq .. next_seq + k - 1 : q = Data(s, inc)
          /\ k = 0 \/ Cardinality(in_flight \ confirmed) + k <= kSendWindow
    <3>1. (in_flight \ confirmed) \ late = in_flight \ confirmed
      BY <2>2
    <3>2. CASE /\ in_flight' = in_flight \ confirmed /\ next_seq' = next_seq
               /\ \A q \in up' : q \in up \/ Own(q)
      <4>1. next_seq' = next_seq + 0 /\ next_seq .. next_seq + 0 - 1 = {}
        BY <1>0, <3>2
      <4> QED BY <3>2, <4>1
    <3>3. ASSUME NEW st, NEW sent, \A q \in sent : Own(q),
                 FillWindow(in_flight \ confirmed, st, sent)
          PROVE  \E k \in Nat :
                   /\ next_seq' = next_seq + k
                   /\ in_flight' = (in_flight \ confirmed) \cup (next_seq .. next_seq + k - 1)
                   /\ \A q \in up' : q \in up \/ Own(q)
                                      \/ \E s \in next_seq .. next_seq + k - 1 : q = Data(s, inc)
                   /\ k = 0 \/ Cardinality(in_flight \ confirmed) + k <= kSendWindow
      <4>1. in_flight \ confirmed \in SUBSET in_flight
        OBVIOUS
      <4>2. PICK k \in Nat :
              /\ next_seq' = next_seq + k
              /\ in_flight' = (in_flight \ confirmed) \cup (next_seq .. next_seq + k - 1)
              /\ up' = up \cup sent \cup {Data(s, inc) : s \in next_seq .. next_seq + k - 1}
              /\ k = 0 \/ Cardinality(in_flight \ confirmed) + k <= kSendWindow
        BY <3>3, <4>1, FillExtends
      <4> QED BY <3>3, <4>2
    <3> QED BY <2>1, <3>1, <3>2, <3>3
  <2>4. SentByCurrent'
    <3> SUFFICES ASSUME NEW q \in up'
                 PROVE  q.port <= inc /\ (q.type = "Data" /\ q.port = inc => q.seq < next_seq + k)
      BY <1>0, <2>1, <2>3 DEF SentByCurrent
    <3>1. CASE q \in up
      <4>1. q.type = "Data" => q.seq \in Nat
        BY <3>1, UpPacket, TotalAssumption DEF TypeOK, Seqs
      <4> QED BY <1>0, <3>1, <4>1 DEF SentByCurrent
    <3>2. CASE Own(q) /\ q \notin up
      <4>1. q.type = "Data" => q.seq \in Nat
        BY <3>2, UpPacket, TotalAssumption DEF TypeOK, Seqs
      <4> QED BY <1>0, <3>2, <4>1 DEF Own
    <3>3. CASE \E s \in next_seq .. next_seq + k - 1 : q = Data(s, inc)
      BY <1>0, <3>3, PacketFields
    <3> QED BY <2>3, <3>1, <3>2, <3>3
  <2>5. AcksBehind'
    <3>1. \A s \in confirmed : epoch = 2 * inc + 1 /\ s < next_expected
      BY <1>0, <2>1 DEF AcksBehind, SentByCurrent
    <3> QED BY <1>0, <2>1, <3>1 DEF AcksBehind
  <2>6. WithinWindow'
    <3>1. IsFiniteSet(in_flight)
      <4>1. in_flight \subseteq 0 .. next_seq - 1
        BY DEF TypeOK, ITypeOK, SenderType
      <4>2. IsFiniteSet(0 .. next_seq - 1)
        BY <1>0, FS_Interval
      <4> QED BY <4>1, <4>2, FS_Subset
    <3>2. /\ IsFiniteSet(in_flight \ confirmed)
          /\ Cardinality(in_flight \ confirmed) <= Cardinality(in_flight)
          /\ Cardinality(in_flight \ confirmed) \in Nat /\ Cardinality(in_flight) \in Nat
      BY <3>1, FS_Subset, FS_CardinalityType
    <3>3. CASE k = 0
      <4>1. next_seq .. next_seq + k - 1 = {}
        BY <1>0, <3>3
      <4>2. in_flight' = in_flight \ confirmed
        BY <2>3, <4>1
      <4> QED BY <3>2, <4>2, WindowAssumption DEF WithinWindow
    <3>4. CASE k # 0
      <4>1. /\ IsFiniteSet(next_seq .. next_seq + k - 1)
            /\ Cardinality(next_seq .. next_seq + k - 1) = k
        BY <1>0, FS_Interval
      <4>2. (in_flight \ confirmed) \cap (next_seq .. next_seq + k - 1) = {}
        BY <1>0 DEF TypeOK, ITypeOK, SenderType
      <4>4. Cardinality((in_flight \ confirmed) \cup (next_seq .. next_seq + k - 1))
              = Cardinality(in_flight \ confirmed) + k - Cardinality({})
        BY <3>2, <4>1, <4>2, FS_Union
      <4>3. Cardinality(in_flight') = Cardinality(in_flight \ confirmed) + k
        BY <2>3, <3>2, <4>4, FS_EmptySet
      <4> QED BY <2>3, <3>4, <4>3 DEF WithinWindow
    <3> QED BY <3>3, <3>4
  <2> QED BY <1>1, <2>2, <2>4, <2>5, <2>6
<1> QED BY <1>2, <1>3

\* What a datagram does to the receive position: a SYN takes it back to the
\* start, and it never goes back otherwise.  Acknowledged are the packets before
\* it, to the sender of the datagram.
LEMMA ListeningEffect ==
    ASSUME TypeOK, NEW p \in up, OnSyn(p) \/ OnHsAck(p) \/ OnFin(p) \/ OnData(p)
    PROVE  /\ up' \subseteq up
           /\ \A q \in down' : \/ q \in down
                              \/ q.type # "Ack"
                              \/ (p.flags # {"SYN"} /\ q.port = p.port /\ q.seq < next_expected')
           /\ p.flags = {"SYN"} \/ next_expected' >= next_expected
<1> USE DEF TypeOK, LTypeOK
<1>0. next_expected \in Nat
  BY TotalAssumption DEF ReceiverType
<1>1. CASE OnSyn(p)
  <2>1. p.flags = {"SYN"} /\ up' \subseteq up /\ down' = down \cup {SynAck(p.port)}
    BY <1>1, HandshakeFlags, ReceivedSubset DEF OnSyn
  <2>2. SynAck(p.port).type # "Ack"
    BY PacketFields
  <2> QED BY <2>1, <2>2
<1>2. CASE OnHsAck(p)
  <2>1. up' \subseteq up /\ next_expected' = next_expected /\ down' = down
    BY <1>2, ReceivedSubset DEF OnHsAck, receiverVars
  <2> QED BY <1>0, <2>1
<1>3. CASE OnFin(p)
  <2>1. up' \subseteq up /\ next_expected' = next_expected /\ down' \subseteq down \cup {FinAck(p.port)}
    BY <1>3, ReceivedSubset DEF OnFin, receiverVars
  <2>2. FinAck(p.port).type # "Ack"
    BY PacketFields
  <2> QED BY <1>0, <2>1, <2>2
<1>4. CASE OnData(p)
  <2>1. up' \subseteq up
    BY <1>4, ReceivedSubset DEF OnData
  <2>2. p.seq \in Nat /\ p.port \in Ports /\ p.flags # {"SYN"}
    <3>1. p.seq \in Nat /\ p.port \in Ports /\ p = Data(p.seq, p.port)
      BY <1>4, UpPacket, TotalAssumption DEF OnData, Seqs
    <3> QED BY <3>1, PacketFields
  <2>3. CASE Discard(p)
    BY <1>0, <2>1, <2>3 DEF Discard, receiverVars
  <2>4. CASE Reacknowledge(p)
    BY <1>0, <2>1, <2>2, <2>4, PacketFields DEF Reacknowledge, receiverVars
  <2>5. CASE BeyondWindow(p)
    BY <1>0, <2>1, <2>5, PacketFields DEF BeyondWindow, receiverVars
  <2>6. CASE Hold(p)
    BY <1>0, <2>1, <2>6, PacketFields DEF Hold
  <2>7. CASE Deliver(p)
    <3>1. PICK n \in next_expected + 1 .. next_expected + kSendWindow :
            /\ down' = down \cup {Ack(s, p.port) : s \in next_expected .. n - 1}
            /\ next_expected' = n
      BY <2>7 DEF Deliver
    <3>2. n \in Nat /\ n >= next_expected /\ \A s \in next_expected .. n - 1 : s < n
      BY <1>0, WindowAssumption
    <3> QED BY <2>1, <2>2, <3>1, <3>2, PacketFields
  <2> QED BY <1>4, <2>3, <2>4, <2>5, <2>6, <2>7 DEF OnData
<1> QED BY <1>1, <1>2, <1>3, <1>4

LEMMA ListeningKeepsWindow ==
    ASSUME DummyTransfer, TypeOK, TypeOK', WindowInv, NEW p \in up, ListenerReceives(p)
    PROVE  WindowInv'
<1> USE DEF WindowInv
<1>0. /\ inc \in Nat /\ epoch \in Nat /\ next_expected \in Nat /\ next_expected' \in Nat
      /\ p.port \in Nat
  BY UpPacket, MaxIncAssumption, TotalAssumption
    DEF TypeOK, ITypeOK, ControlType, LTypeOK, ReceiverType, Ports
<1>1. /\ up' \subseteq up
      /\ \A q \in down' : \/ q \in down
                         \/ q.type # "Ack"
                         \/ (p.flags # {"SYN"} /\ q.port = p.port /\ q.seq < next_expected')
      /\ p.flags = {"SYN"} \/ next_expected' >= next_expected
  BY ListeningEffect DEF ListenerReceives
<1>2. UNCHANGED <<inc, next_seq, in_flight, acked, dropped>>
  BY DEF ListenerReceives, initiatorVars, controlVars, senderVars
<1>3. epoch' = EpochOf(p) /\ epoch' >= epoch
  BY DEF ListenerReceives, DummyTransfer
<1>4. p.port <= inc
  BY DEF SentByCurrent
<1>5. EpochOf(p) = 2 * p.port \/ EpochOf(p) = 2 * p.port + 1
  BY DEF EpochOf
<1>6. SentByCurrent'
  BY <1>0, <1>1, <1>2, <1>3, <1>4, <1>5 DEF SentByCurrent
<1>7. \A q \in down' : q.type = "Ack" => q.port \in Nat /\ q.seq \in Nat
  BY DownPacket, MaxIncAssumption, TotalAssumption DEF TypeOK, Ports, Seqs
<1>8. \A s \in acked : s \in Nat
  BY DEF TypeOK, ITypeOK, SenderType
<1>9. CASE p.flags = {"SYN"}
  <2>1. epoch' = 2 * p.port
    BY <1>3, <1>9 DEF EpochOf
  <2>2. acked = {}
    BY <1>0, <1>3, <1>4, <2>1 DEF AcksBehind
  <2>3. ASSUME NEW q \in down', q.type = "Ack"
        PROVE  2 * q.port < epoch' /\ epoch' # 2 * q.port + 1
    BY <1>0, <1>1, <1>3, <1>7, <1>9, <2>1, <2>3 DEF AcksBehind
  <2>4. AcksBehind'
    BY <1>2, <2>2, <2>3 DEF AcksBehind
  <2> QED BY <1>2, <1>6, <2>4 DEF WithinWindow, Accounted
<1>10. CASE p.flags # {"SYN"}
  <2>1. epoch' = 2 * p.port + 1 /\ next_expected' >= next_expected
    BY <1>1, <1>3, <1>10 DEF EpochOf
  <2>2. ASSUME NEW q \in down', q.type = "Ack"
        PROVE  2 * q.port < epoch' /\ (epoch' = 2 * q.port + 1 => q.seq < next_expected')
    <3>1. CASE q \in down
      <4>1. 2 * q.port < epoch /\ (epoch = 2 * q.port + 1 => q.seq < next_expected)
        BY <2>2, <3>1 DEF AcksBehind
      <4> QED BY <1>0, <1>3, <1>7, <2>1, <2>2, <4>1
    <3>2. CASE q \notin down
      BY <1>0, <1>1, <1>7, <2>1, <2>2, <3>2
    <3> QED BY <3>1, <3>2
  <2>3. \A s \in acked : epoch' = 2 * inc + 1 /\ s < next_expected'
    BY <1>0, <1>3, <1>4, <1>8, <2>1 DEF AcksBehind
  <2>4. AcksBehind'
    BY <1>2, <2>2, <2>3 DEF AcksBehind
  <2> QED BY <1>2, <1>6, <2>4 DEF WithinWindow, Accounted
<1> QED BY <1>9, <1>10

\* The window invariant holds throughout a dummy transfer without overtaking and
\* listener restarts.
THEOREM WindowInvariant ==
    ASSUME DummyTransfer
    PROVE  Spec => []WindowInv
<1>1. Init => WindowInv
  BY FS_EmptySet, WindowAssumption
    DEF Init, IInit, LInit, WindowInv, SentByCurrent, AcksBehind, WithinWindow, Accounted
<1>2. TypeOK /\ TypeOK' /\ WindowInv /\ [Next]_vars => WindowInv'
  <2> SUFFICES ASSUME TypeOK, TypeOK', WindowInv, [Next]_vars PROVE WindowInv'
    OBVIOUS
  <2> USE DEF WindowInv
  <2>1. ASSUME NEW p \in up, ListenerReceives(p) PROVE WindowInv'
    BY <2>1, ListeningKeepsWindow
  <2>2. CASE InitiatorSteps \/ \E p \in down : InitiatorReceives(p)
    BY <2>2, SendingKeepsWindow DEF InitiatorSteps, InitiatorReceives, SendingStep
  <2>3. CASE Lose
    <3>1. up' \subseteq up /\ down' \subseteq down
          /\ UNCHANGED <<inc, next_seq, in_flight, acked, dropped, next_expected, epoch>>
      BY <2>3 DEF Lose, initiatorVars, controlVars, senderVars, listenerVars, receiverVars
    <3> QED BY <3>1 DEF SentByCurrent, AcksBehind, WithinWindow, Accounted
  <2>4. CASE ListenerSteps
    <3>1. SynAckTick
      BY <2>4, RestartsAssumption DEF ListenerSteps, ListenerRestart, DummyTransfer, TypeOK,
                                      LTypeOK, ListenerControlType
    <3>2. /\ UNCHANGED <<inc, next_seq, in_flight, acked, dropped, next_expected, epoch, up>>
          /\ down' \subseteq down \cup {SynAck(peer)}
      BY <2>4, <3>1 DEF ListenerSteps, SynAckTick, initiatorVars, controlVars, senderVars, receiverVars
    <3>3. SynAck(peer).type # "Ack"
      BY PacketFields
    <3> QED BY <3>2, <3>3 DEF SentByCurrent, AcksBehind, WithinWindow, Accounted
  <2>5. CASE UNCHANGED vars
    BY <2>5 DEF vars, initiatorVars, controlVars, senderVars, listenerVars, receiverVars, wireVars,
                SentByCurrent, AcksBehind, WithinWindow, Accounted
  <2> QED BY <2>1, <2>2, <2>3, <2>4, <2>5 DEF Next
<1> QED BY <1>1, <1>2, TypeCorrect, PTL DEF Spec

\* Everything acknowledged is behind the receive position.
LEMMA WaitedForIsInFlight ==
    ASSUME TypeOK, WindowInv, NEW s \in Nat, next_expected <= s, s < next_seq
    PROVE  s \in in_flight
<1>1. next_expected \in Nat /\ next_seq \in Nat
  BY TotalAssumption DEF TypeOK, ITypeOK, SenderType, LTypeOK, ReceiverType
<1>2. s \in in_flight \cup acked
  BY <1>1 DEF WindowInv, Accounted
<1>3. s \notin acked
  BY <1>1 DEF WindowInv, AcksBehind
<1> QED BY <1>2, <1>3

\* A gap in what the listener has delivered can always be filled: the sender
\* forgets only packets the listener has delivered (session.cpp:356, 365 wait for
\* them; 375-383 forgets them).
THEOREM GapsAreRecoverable ==
    ASSUME DummyTransfer
    PROVE  Spec => []GapRecoverable
<1>1. TypeOK /\ WindowInv => GapRecoverable
  <2> SUFFICES ASSUME TypeOK, WindowInv, NEW s \in next_expected .. next_seq - 1
               PROVE  s \in in_flight
    BY DEF GapRecoverable
  <2>1. next_expected \in Nat /\ next_seq \in Nat
    BY TotalAssumption DEF TypeOK, ITypeOK, SenderType, LTypeOK, ReceiverType
  <2>2. s \in Nat /\ next_expected <= s /\ s < next_seq
    BY <2>1
  <2> QED BY <2>2, WaitedForIsInFlight
<1> QED BY <1>1, TypeCorrect, WindowInvariant, PTL

\* The two windows agree: no packet of the current process is ever beyond the
\* receive window (session.cpp:167, 237 against 355).  Otherwise the packets from
\* the receive position to it would all be in flight, one more than fit.
THEOREM WindowsAgree ==
    ASSUME DummyTransfer
    PROVE  Spec => []WindowAgreement
<1>1. TypeOK /\ WindowInv => WindowAgreement
  <2> SUFFICES ASSUME TypeOK, WindowInv, NEW p \in up, p.type = "Data", p.port = inc,
                      ~(p.seq < next_expected + kSendWindow)
               PROVE  FALSE
    BY DEF WindowAgreement
  <2>1. /\ next_expected \in Nat /\ next_seq \in Nat /\ p.seq \in Nat
        /\ kSendWindow \in Nat
    BY UpPacket, TotalAssumption, WindowAssumption
      DEF TypeOK, ITypeOK, SenderType, LTypeOK, ReceiverType, Seqs
  <2>2. p.seq < next_seq
    BY DEF WindowInv, SentByCurrent
  <2>3. next_expected .. next_expected + kSendWindow \subseteq in_flight
    <3> SUFFICES ASSUME NEW s \in next_expected .. next_expected + kSendWindow
                 PROVE  s \in in_flight
      OBVIOUS
    <3>1. s \in Nat /\ next_expected <= s /\ s < next_seq
      BY <2>1, <2>2
    <3> QED BY <3>1, WaitedForIsInFlight
  <2>4. IsFiniteSet(in_flight)
    <3>1. in_flight \subseteq 0 .. next_seq - 1
      BY DEF TypeOK, ITypeOK, SenderType
    <3>2. IsFiniteSet(0 .. next_seq - 1)
      BY <2>1, FS_Interval
    <3> QED BY <3>1, <3>2, FS_Subset
  <2>5. Cardinality(next_expected .. next_expected + kSendWindow) = kSendWindow + 1
    BY <2>1, FS_Interval
  <2>6. kSendWindow + 1 <= Cardinality(in_flight) /\ Cardinality(in_flight) \in Nat
    BY <2>3, <2>4, <2>5, FS_Subset, FS_CardinalityType
  <2> QED BY <2>1, <2>6 DEF WindowInv, WithinWindow
<1> QED BY <1>1, TypeCorrect, WindowInvariant, PTL

-----------------------------------------------------------------------------
(* What a step of the sending process does to the phase of its session *)

\* Filling the window never undoes completion, sends no FIN, and sends nothing
\* if nothing is in flight afterwards.
LEMMA FillOutcome ==
    ASSUME TypeOK, NEW flight \in SUBSET in_flight, NEW st, NEW sent, Fin(inc) \notin sent,
           FillWindow(flight, st, sent)
    PROVE  /\ next_seq' \in next_seq .. Total /\ taken <= taken'
           /\ Done(flight) => taken' = Total /\ in_flight' = {}
           /\ Fin(inc) \in up' => Fin(inc) \in up
           /\ ~MediaMode => taken' - taken = next_seq' - next_seq
           /\ in_flight' = {} => next_seq' = next_seq
<1>0. next_seq \in Nat /\ taken \in Nat /\ next_seq <= taken /\ taken <= Total
  BY TotalAssumption DEF TypeOK, ITypeOK, SenderType
<1>1. PICK k \in 0 .. Total, skip \in {0, 1} :
        /\ IF st = "Active" THEN FillChoice(flight, k, skip) ELSE k = 0 /\ skip = 0
        /\ in_flight' = flight \cup (next_seq .. next_seq + k - 1)
        /\ up' = up \cup sent \cup {Data(s, inc) : s \in next_seq .. next_seq + k - 1}
        /\ next_seq' = next_seq + k
        /\ taken' = taken + k + skip
  BY DEF FillWindow
<1>2. k \in Nat /\ taken + k + skip <= Total /\ (skip = 1 => MediaMode)
  BY <1>0, <1>1, TotalAssumption DEF FillChoice, Fits
<1>3. next_seq' \in next_seq .. Total /\ taken <= taken'
  BY <1>0, <1>1, <1>2, TotalAssumption
<1>4. ASSUME Done(flight) PROVE taken' = Total /\ in_flight' = {}
  <2>1. k = 0 /\ skip = 0
    BY <1>0, <1>2, <1>4, TotalAssumption DEF Done
  <2>2. next_seq .. next_seq + k - 1 = {}
    BY <1>0, <2>1
  <2>3. in_flight' = {}
    BY <1>1, <1>4, <2>2 DEF Done
  <2> QED BY <1>0, <1>1, <1>4, <2>1, <2>3 DEF Done
<1>5. Fin(inc) \in up' => Fin(inc) \in up
  BY <1>1, PacketFields
<1>6. ~MediaMode => taken' - taken = next_seq' - next_seq
  <2>1. ~MediaMode => skip = 0
    BY <1>2
  <2> QED BY <1>0, <1>1, <1>2, <2>1
<1>7. in_flight' = {} => next_seq' = next_seq
  <2>1. k # 0 => next_seq \in next_seq .. next_seq + k - 1
    BY <1>0, <1>2
  <2>2. in_flight' = {} => k = 0
    BY <1>1, <2>1
  <2> QED BY <1>0, <1>1, <2>2
<1> QED BY <1>3, <1>4, <1>5, <1>6, <1>7

\* Once a session has nothing left to send and nothing in flight it stays so, and
\* only then is there a FIN.  The handshake is never entered again, and a session
\* that fails is closed.
PhaseEffect ==
    /\ inc' = inc /\ down' \subseteq down
    /\ next_seq' \in next_seq .. Total /\ taken <= taken'
    /\ Done(in_flight) => taken' = Total /\ in_flight' = {}
    /\ Fin(inc) \in up' => \/ Fin(inc) \in up
                           \/ taken' = Total /\ in_flight' = {} /\ istate' # "Handshaking"
    /\ ~MediaMode => taken' - taken = next_seq' - next_seq
    /\ in_flight' = {} => next_seq' = next_seq
    /\ istate' = "Handshaking" => istate = "Handshaking"
    /\ (ifailed => istate = "Closed") => (ifailed' => istate' = "Closed")

LEMMA SendingPhase ==
    ASSUME TypeOK, SendingStep, ~Launch
    PROVE  PhaseEffect
<1>0. /\ next_seq \in Nat /\ taken \in Nat /\ taken <= taken /\ next_seq \in next_seq .. Total
      /\ taken - taken = next_seq - next_seq
  BY TotalAssumption DEF TypeOK, ITypeOK, SenderType
<1>a. Fin(inc) # Syn(inc) /\ Fin(inc) # HsAck(inc) /\ \A s : Fin(inc) # Data(s, inc)
  <2>1. {"FIN"} # {"SYN"} /\ {"FIN"} # {"ACK"}
    OBVIOUS
  <2> QED BY <2>1, PacketFields
<1>1. CASE Exit \/ HandshakeTick \/ RetryLimit
  <2>1. UNCHANGED <<inc, down, next_seq, taken, in_flight>>
    BY <1>1 DEF Exit, HandshakeTick, RetryLimit, senderVars, wireVars
  <2>2. Fin(inc) \in up' => Fin(inc) \in up
    BY <1>1, <1>a DEF Exit, HandshakeTick, RetryLimit, wireVars
  <2>3. (istate' = "Handshaking" => istate = "Handshaking") /\ (ifailed' => ifailed \/ istate' = "Closed")
          /\ (istate = "Closed" => istate' = "Closed")
    BY <1>1 DEF Exit, HandshakeTick, RetryLimit
  <2> QED BY <1>0, <2>1, <2>2, <2>3 DEF PhaseEffect, Done
<1>2. CASE Tick
  <2>1. PICK expired \in ExpiredSets : \E late \in SUBSET expired :
          FillWindow(in_flight \ late, istate, {Data(s, inc) : s \in expired \ late})
    BY <1>2 DEF Tick
  <2>2. PICK late \in SUBSET expired :
          FillWindow(in_flight \ late, istate, {Data(s, inc) : s \in expired \ late})
    BY <2>1
  <2>3. Fin(inc) \notin {Data(s, inc) : s \in expired \ late}
    BY <1>a
  <2>4. UNCHANGED <<inc, istate, ifailed, down>>
    BY <1>2 DEF Tick, controlVars
  <2>5. Done(in_flight) => Done(in_flight \ late)
    BY DEF Done
  <2> QED BY <2>2, <2>3, <2>4, <2>5, FillOutcome DEF PhaseEffect
<1>3. ASSUME NEW p \in down, OnSynAck(p) PROVE PhaseEffect
  <2>1. UNCHANGED <<inc, ifailed>> /\ down' \subseteq down
    BY <1>3, ReceivedSubset DEF OnSynAck
  <2>2. CASE istate = "Handshaking"
    <3>1. istate' = "Active" /\ FillWindow(in_flight, "Active", {HsAck(inc)})
      BY <1>3, <2>2 DEF OnSynAck
    <3>2. Fin(inc) \notin {HsAck(inc)} /\ istate # "Closed"
      BY <1>a, <2>2
    <3>3. in_flight \in SUBSET in_flight
      OBVIOUS
    <3> QED BY <2>1, <3>1, <3>2, <3>3, FillOutcome DEF PhaseEffect
  <2>3. CASE istate # "Handshaking"
    BY <1>0, <1>3, <1>a, <2>1, <2>3 DEF OnSynAck, senderVars, PhaseEffect, Done
  <2> QED BY <2>2, <2>3
<1>4. ASSUME NEW p \in down, OnFinAck(p) \/ ToDeadPort(p) PROVE PhaseEffect
  <2>1. UNCHANGED <<inc, ifailed, next_seq, taken, in_flight, up>> /\ down' \subseteq down
    BY <1>4, ReceivedSubset DEF OnFinAck, ToDeadPort, initiatorVars, controlVars, senderVars
  <2>2. istate' = istate \/ istate' = "Closed"
    BY <1>4 DEF OnFinAck, ToDeadPort, initiatorVars, controlVars
  <2> QED BY <1>0, <2>1, <2>2 DEF PhaseEffect, Done
<1>5. ASSUME NEW p \in down, OnAck(p) PROVE PhaseEffect
  <2>1. UNCHANGED <<inc, ifailed>> /\ down' \subseteq down
    BY <1>5, ReceivedSubset DEF OnAck
  <2>2. CASE ~Serving
    BY <1>0, <1>5, <2>1, <2>2 DEF OnAck, senderVars, PhaseEffect, Done
  <2>3. CASE Serving
    <3>1. istate # "Closed" /\ in_flight \ {p.seq} \in SUBSET in_flight
      BY <2>3 DEF Serving
    <3>2. CASE Done(in_flight \ {p.seq}) /\ ~fin_sent
      BY <1>0, <1>5, <2>1, <2>3, <3>1, <3>2 DEF OnAck, PhaseEffect, Done
    <3>3. CASE ~(Done(in_flight \ {p.seq}) /\ ~fin_sent)
      <4>1. FillWindow(in_flight \ {p.seq}, istate, {}) /\ istate' = istate
        BY <1>5, <2>3, <3>3 DEF OnAck
      <4>2. Done(in_flight) => Done(in_flight \ {p.seq})
        BY DEF Done
      <4> QED BY <2>1, <3>1, <4>1, <4>2, FillOutcome DEF PhaseEffect
    <3> QED BY <3>2, <3>3
  <2> QED BY <2>2, <2>3
<1>6. ASSUME NEW p \in down, NEW late \in BOOLEAN, OnNack(p, late) PROVE PhaseEffect
  <2>1. UNCHANGED <<inc, istate, ifailed, next_seq, taken>> /\ down' \subseteq down
    BY <1>6, ReceivedSubset DEF OnNack, controlVars
  <2>2. in_flight' \subseteq in_flight /\ (Fin(inc) \in up' => Fin(inc) \in up)
    BY <1>6, <1>a DEF OnNack
  <2> QED BY <1>0, <2>1, <2>2 DEF PhaseEffect, Done
<1> QED BY <1>1, <1>2, <1>3, <1>4, <1>5, <1>6 DEF SendingStep

-----------------------------------------------------------------------------
(* FIN *)

\* No datagram is from a process that has not started.
NoneAhead == \A p \in up : p.port <= inc

\* A sending process puts only datagrams of its own on the wire.
LEMMA SendingSends ==
    ASSUME TypeOK, SendingStep, ~Launch
    PROVE  \A q \in up' : q \in up \/ q.port = inc
<1>1. PICK confirmed, late \in SUBSET in_flight :
        \/ \A q \in up' : q \in up \/ Own(q)
        \/ \E st, sent : /\ \A q \in sent : Own(q)
                         /\ FillWindow((in_flight \ confirmed) \ late, st, sent)
  BY SendingEffect
<1>2. ASSUME NEW st, NEW sent, \A q \in sent : Own(q),
             FillWindow((in_flight \ confirmed) \ late, st, sent)
      PROVE  \A q \in up' : q \in up \/ q.port = inc
  <2>1. (in_flight \ confirmed) \ late \in SUBSET in_flight
    OBVIOUS
  <2>2. PICK k \in Nat :
          up' = up \cup sent \cup {Data(s, inc) : s \in next_seq .. next_seq + k - 1}
    BY <1>2, <2>1, FillExtends
  <2> QED BY <1>2, <2>2, PacketFields DEF Own
<1> QED BY <1>1, <1>2 DEF Own

\* A FIN of the current process says that its transfer is settled: everything was
\* taken from the source and no packet is in flight, now or later
\* (session.cpp:385-388).  It holds in both modes, on every network, and whatever
\* the listener does.
THEOREM FinAfterEverything == Spec => []FinMeansDone
<1>1. Init => NoneAhead /\ FinMeansDone
  BY DEF Init, IInit, NoneAhead, FinMeansDone
<1>2. TypeOK /\ NoneAhead /\ FinMeansDone /\ [Next]_vars
        => (NoneAhead /\ FinMeansDone)'
  <2> SUFFICES ASSUME TypeOK, NoneAhead, FinMeansDone, [Next]_vars
               PROVE  (NoneAhead /\ FinMeansDone)'
    OBVIOUS
  <2>0. inc \in Nat /\ \A p \in up : p.port \in Nat
    BY UpPacket, MaxIncAssumption DEF TypeOK, ITypeOK, ControlType, Ports
  <2>1. CASE InitiatorSteps \/ \E p \in down : InitiatorReceives(p)
    <3>1. SendingStep
      BY <2>1 DEF InitiatorSteps, InitiatorReceives, SendingStep
    <3>2. CASE Launch
      <4>1. up' = up \cup {Syn(inc + 1)} /\ inc' = inc + 1
        BY <3>2 DEF Launch
      <4>2. NoneAhead'
        BY <2>0, <4>1, PacketFields DEF NoneAhead
      <4>3. Fin(inc + 1) \notin up
        <5>1. Fin(inc + 1).port = inc + 1
          BY PacketFields
        <5> QED BY <2>0, <5>1 DEF NoneAhead
      <4>4. Fin(inc + 1) # Syn(inc + 1)
        <5>1. {"FIN"} # {"SYN"}
          OBVIOUS
        <5> QED BY <5>1, PacketFields
      <4> QED BY <4>1, <4>2, <4>3, <4>4 DEF FinMeansDone
    <3>3. CASE ~Launch
      <4>1. PhaseEffect
        BY <3>1, <3>3, SendingPhase
      <4>2. FinMeansDone'
        BY <4>1 DEF PhaseEffect, FinMeansDone, Done
      <4>3. \A q \in up' : q \in up \/ q.port = inc
        BY <3>1, <3>3, SendingSends
      <4>4. NoneAhead'
        BY <2>0, <4>1, <4>3 DEF PhaseEffect, NoneAhead
      <4> QED BY <4>2, <4>4
    <3> QED BY <3>2, <3>3
  <2>2. CASE \E p \in up : ListenerReceives(p)
    <3>1. up' \subseteq up /\ UNCHANGED <<inc, taken, in_flight>>
      BY <2>2, ReceivedSubset DEF ListenerReceives, OnSyn, OnHsAck, OnFin, OnData,
                                  initiatorVars, controlVars, senderVars
    <3> QED BY <3>1 DEF NoneAhead, FinMeansDone
  <2>3. CASE ListenerSteps \/ Lose \/ UNCHANGED vars
    <3>1. up' \subseteq up /\ UNCHANGED <<inc, taken, in_flight>>
      BY <2>3 DEF ListenerSteps, SynAckTick, ListenerRestart, Lose, vars, wireVars,
                  initiatorVars, controlVars, senderVars
    <3> QED BY <3>1 DEF NoneAhead, FinMeansDone
  <2> QED BY <2>1, <2>2, <2>3 DEF Next
<1> QED BY <1>1, <1>2, TypeCorrect, PTL DEF Spec

-----------------------------------------------------------------------------
(* What the listener does with a datagram *)

\* What receiving a datagram does to the receive state and the epoch: a SYN
\* empties it; anything else belongs to the second epoch of its process.
LEMMA ReceivingEffect ==
    ASSUME TypeOK, ~Overtaking, NEW p \in up, ListenerReceives(p)
    PROVE  /\ peer' = p.port /\ epoch' = EpochOf(p) /\ epoch' >= epoch
           /\ UNCHANGED <<initiatorVars, restarts>>
           /\ \/ /\ p.flags = {"SYN"} /\ epoch' = 2 * p.port
                 /\ next_expected' = 0 /\ reorder' = {} /\ sources' = {}
              \/ /\ p.flags # {"SYN"} /\ epoch' = 2 * p.port + 1
                 /\ sources \subseteq sources'
                 /\ \/ UNCHANGED <<next_expected, reorder>>
                    \/ p.type = "Data" /\ (Hold(p) \/ Deliver(p))
<1>1. epoch' = EpochOf(p) /\ epoch' >= epoch /\ UNCHANGED initiatorVars
  BY DEF ListenerReceives
<1>2. CASE OnSyn(p)
  BY <1>1, <1>2, HandshakeFlags DEF OnSyn, EpochOf
<1>3. CASE OnHsAck(p) \/ OnFin(p)
  <2>1. p.flags # {"SYN"}
    <3>1. {"FIN"} # {"SYN"} /\ {"ACK"} # {"SYN"}
      OBVIOUS
    <3> QED BY <1>3, <3>1, HandshakeFlags DEF OnHsAck, OnFin
  <2> QED BY <1>1, <1>3, <2>1 DEF OnHsAck, OnFin, receiverVars, EpochOf
<1>4. CASE OnData(p)
  <2>1. p.flags # {"SYN"}
    <3>1. p = Data(p.seq, p.port)
      BY <1>4, UpPacket DEF OnData, TypeOK
    <3> QED BY <3>1, PacketFields
  <2>2. CASE Discard(p) \/ Reacknowledge(p) \/ BeyondWindow(p)
    BY <1>1, <1>4, <2>1, <2>2 DEF OnData, Discard, Reacknowledge, BeyondWindow, receiverVars, EpochOf
  <2>3. CASE Hold(p)
    BY <1>1, <1>4, <2>1, <2>3 DEF OnData, Hold, EpochOf
  <2>4. CASE Deliver(p)
    BY <1>1, <1>4, <2>1, <2>4 DEF OnData, Deliver, EpochOf
  <2> QED BY <1>4, <2>2, <2>3, <2>4 DEF OnData
<1> QED BY <1>2, <1>3, <1>4 DEF ListenerReceives

-----------------------------------------------------------------------------
(* A dummy transfer implements the reliable stream *)

\* A FIN|ACK is told from a SYN|ACK, and from that of another process.
LEMMA FinAckDiffers ==
    ASSUME NEW i, NEW j
    PROVE  FinAck(i) # SynAck(j) /\ (FinAck(i) = FinAck(j) => i = j)
<1>1. {"FIN", "ACK"} # {"SYN", "ACK"}
  <2>1. "FIN" \notin {"SYN", "ACK"}
    OBVIOUS
  <2> QED BY <2>1
<1>2. FinAck(i).flags = {"FIN", "ACK"} /\ SynAck(j).flags = {"SYN", "ACK"}
  BY DEF FinAck, SynAck, Handshake
<1>3. FinAck(i).port = i /\ FinAck(j).port = j
  BY DEF FinAck, Handshake
<1> QED BY <1>1, <1>2, <1>3

LEMMA SendingKeepsStream ==
    ASSUME DummyTransfer, TypeOK, TypeOK', DeliveryInv, WindowInv, StreamInv, SendingStep,
           UNCHANGED <<listenerVars, epoch>>
    PROVE  StreamInv'
<1> USE DEF StreamInv
<1>0. /\ inc \in Nat /\ epoch \in Nat /\ next_seq \in Nat /\ taken \in Nat
      /\ UNCHANGED <<peer, next_expected, reorder, epoch>>
  BY MaxIncAssumption, TotalAssumption
    DEF TypeOK, ITypeOK, ControlType, SenderType, listenerVars, receiverVars
<1>1. \A q \in reorder : q.port \in Nat /\ q.seq \in Nat /\ q.port <= inc
  <2>1. \A q \in reorder : q.port \in Nat /\ q.seq \in Nat
    BY DataPacket, MaxIncAssumption, TotalAssumption DEF TypeOK, LTypeOK, ReceiverType, Ports, Seqs
  <2>2. \A q \in reorder : 2 * q.port <= epoch
    BY DEF DeliveryInv, ReceivesCurrent, Current, DummyTransfer
  <2> QED BY <1>0, <2>1, <2>2 DEF WindowInv, SentByCurrent
<1>2. CASE Launch
  <2>1. /\ inc' = inc + 1 /\ ~ifailed' /\ istate' = "Handshaking"
        /\ up' = up \cup {Syn(inc + 1)} /\ down' = down /\ next_seq' = 0 /\ taken' = 0
    BY <1>2 DEF Launch
  <2>2. Fin(inc + 1) \notin up'
    <3>1. {"FIN"} # {"SYN"}
      OBVIOUS
    <3>2. Fin(inc + 1) # Syn(inc + 1) /\ Fin(inc + 1).port = inc + 1
      BY <3>1, PacketFields
    <3> QED BY <1>0, <2>1, <3>2 DEF WindowInv, SentByCurrent
  <2>3. FinAck(inc + 1) \notin down'
    <3>1. FinAck(inc + 1).port = inc + 1
      BY PacketFields
    <3>2. \A p \in down : 2 * p.port <= epoch
      BY DEF DeliveryInv, HeardFirst, Heard, DummyTransfer
    <3> QED BY <1>0, <2>1, <3>1, <3>2 DEF WindowInv, SentByCurrent
  <2>4. \A q \in reorder : q.port # inc + 1
    BY <1>0, <1>1
  <2> QED BY <1>0, <2>1, <2>2, <2>3, <2>4 DEF FollowsLatest, PhasesInOrder, HeldWasSent
<1>3. CASE ~Launch
  <2>1. PhaseEffect
    BY <1>3, SendingPhase
  <2>2. PhasesInOrder'
    BY <2>1 DEF PhaseEffect, PhasesInOrder
  <2>3. HeldWasSent'
    BY <1>0, <1>1, <2>1 DEF PhaseEffect, HeldWasSent
  <2>4. taken' = next_seq'
    <3>1. taken' \in Nat /\ next_seq' \in Nat
      BY TotalAssumption DEF TypeOK, ITypeOK, SenderType
    <3> QED BY <1>0, <2>1, <3>1 DEF PhaseEffect, DummyTransfer
  <2> QED BY <1>0, <2>2, <2>3, <2>4 DEF FollowsLatest
<1> QED BY <1>2, <1>3

\* A FIN|ACK to the current process answers a FIN of it.
LEMMA FinAckAnswersFin ==
    ASSUME TypeOK, NEW p \in up, ListenerReceives(p), FinAck(inc) \in down'
    PROVE  FinAck(inc) \in down \/ Fin(inc) \in up
<1>1. CASE OnFin(p)
  <2>1. down' \subseteq down \cup {FinAck(p.port)} /\ Fin(p.port) \in up
    BY <1>1 DEF OnFin
  <2>2. FinAck(inc) = FinAck(p.port) => p.port = inc
    BY FinAckDiffers
  <2> QED BY <2>1, <2>2
<1>2. CASE OnSyn(p) \/ OnHsAck(p)
  <2>1. down' \subseteq down \cup {SynAck(p.port)}
    BY <1>2 DEF OnSyn, OnHsAck
  <2>2. FinAck(inc) # SynAck(p.port)
    BY FinAckDiffers
  <2> QED BY <2>1, <2>2
<1>3. CASE OnData(p)
  <2>1. \A q \in down' : q \in down \/ q.type = "Ack" \/ q.type = "Nack"
    <3>1. ASSUME Reacknowledge(p) \/ BeyondWindow(p) \/ Hold(p)
          PROVE  \A q \in down' : q \in down \/ q.type = "Ack" \/ q.type = "Nack"
      BY <3>1, PacketFields DEF Reacknowledge, BeyondWindow, Hold
    <3>2. ASSUME Deliver(p)
          PROVE  \A q \in down' : q \in down \/ q.type = "Ack"
      <4>1. PICK n : down' = down \cup {Ack(s, p.port) : s \in next_expected .. n - 1}
        BY <3>2 DEF Deliver
      <4> QED BY <4>1, PacketFields
    <3>3. Discard(p) => down' = down
      BY DEF Discard
    <3> QED BY <1>3, <3>1, <3>2, <3>3 DEF OnData
  <2>2. FinAck(inc).type = "Handshake"
    BY PacketFields
  <2> QED BY <2>1, <2>2
<1> QED BY <1>1, <1>2, <1>3 DEF ListenerReceives

LEMMA ListeningKeepsStream ==
    ASSUME DummyTransfer, TypeOK, TypeOK', WindowInv, StreamInv, NEW p \in up, ListenerReceives(p)
    PROVE  StreamInv'
<1> USE DEF StreamInv
<1>1. /\ peer' = p.port /\ UNCHANGED initiatorVars
      /\ \/ p.flags = {"SYN"} /\ epoch' = 2 * p.port /\ next_expected' = 0 /\ reorder' = {}
         \/ /\ epoch' = 2 * p.port + 1
            /\ \/ UNCHANGED <<next_expected, reorder>>
               \/ p.type = "Data" /\ (Hold(p) \/ Deliver(p))
  BY ReceivingEffect DEF DummyTransfer
<1>2. UNCHANGED <<inc, istate, ifailed, next_seq, taken>>
  BY <1>1 DEF initiatorVars, controlVars, senderVars
<1>3. p.port \in Nat
  BY UpPacket, MaxIncAssumption DEF TypeOK, Ports
<1>4. FollowsLatest'
  BY <1>1, <1>3 DEF FollowsLatest
<1>5. HeldWasSent'
  <2>1. reorder' \subseteq reorder \/ (p.type = "Data" /\ reorder' \subseteq reorder \cup {p})
    BY <1>1 DEF Hold, Deliver, Held
  <2> QED BY <1>2, <2>1 DEF HeldWasSent, WindowInv, SentByCurrent
<1>6. PhasesInOrder'
  <2>1. up' \subseteq up
    BY ListeningEffect DEF ListenerReceives
  <2>2. FinAck(inc) \in down' => FinAck(inc) \in down \/ Fin(inc) \in up
    BY FinAckAnswersFin
  <2> QED BY <1>2, <2>1, <2>2 DEF PhasesInOrder
<1> QED BY <1>2, <1>4, <1>5, <1>6

\* The stream invariant holds throughout a dummy transfer.
THEOREM StreamInvariant ==
    ASSUME DummyTransfer
    PROVE  Spec => []StreamInv
<1>0. OrderedEpochs
  BY DEF OrderedEpochs, DummyTransfer
<1>1. Init => StreamInv
  BY DEF Init, IInit, LInit, StreamInv, FollowsLatest, PhasesInOrder, HeldWasSent
<1>2. TypeOK /\ TypeOK' /\ DeliveryInv /\ WindowInv /\ StreamInv /\ [Next]_vars => StreamInv'
  <2> SUFFICES ASSUME TypeOK, TypeOK', DeliveryInv, WindowInv, StreamInv, [Next]_vars
               PROVE  StreamInv'
    OBVIOUS
  <2>1. ASSUME NEW p \in up, ListenerReceives(p) PROVE StreamInv'
    BY <2>1, ListeningKeepsStream
  <2>2. CASE InitiatorSteps \/ \E p \in down : InitiatorReceives(p)
    BY <2>2, SendingKeepsStream DEF InitiatorSteps, InitiatorReceives, SendingStep
  <2>3. CASE Lose \/ ListenerSteps \/ UNCHANGED vars
    <3>1. /\ up' \subseteq up
          /\ UNCHANGED <<inc, istate, ifailed, next_seq, taken, peer, next_expected, reorder, epoch>>
          /\ FinAck(inc) \in down' => FinAck(inc) \in down
      <4>1. CASE Lose \/ UNCHANGED vars
        BY <4>1 DEF Lose, vars, initiatorVars, controlVars, senderVars, listenerVars,
                    receiverVars, wireVars
      <4>2. CASE ListenerSteps
        <5>1. SynAckTick
          BY <4>2, RestartsAssumption DEF ListenerSteps, ListenerRestart, DummyTransfer, TypeOK,
                                          LTypeOK, ListenerControlType
        <5>2. FinAck(inc) # SynAck(peer)
          BY FinAckDiffers
        <5> QED BY <4>2, <5>1, <5>2 DEF ListenerSteps, SynAckTick, initiatorVars, controlVars,
                                        senderVars, receiverVars
      <4> QED BY <2>3, <4>1, <4>2
    <3> QED BY <3>1 DEF StreamInv, FollowsLatest, PhasesInOrder, HeldWasSent
  <2> QED BY <2>1, <2>2, <2>3 DEF Next
<1> QED BY <1>0, <1>1, <1>2, TypeCorrect, DeliveryInvariant, WindowInvariant, PTL DEF Spec

\* A step of a sender whose handshake is over, and that does not fail, is one of
\* the abstract sender: it goes on, finishes, or nothing changes.
LEMMA SenderMaps ==
    ASSUME DummyTransfer, TypeOK, TypeOK', WindowInv, WindowInv', StreamInv, StreamInv',
           PhaseEffect, ~ifailed, ~ifailed', istate' # "Handshaking", acked \subseteq acked',
           peer = inc, peer' = peer, next_expected' = next_expected
    PROVE  Stream!StreamNext \/ UNCHANGED Stream!streamVars
<1>1. /\ inc' = inc /\ next_seq' \in next_seq .. Total
      /\ next_seq = taken /\ next_seq' = taken'
      /\ next_expected \in 0 .. Total /\ Total \in Nat /\ next_seq \in Nat
  BY TotalAssumption DEF PhaseEffect, StreamInv, TypeOK, LTypeOK, ReceiverType, ITypeOK, SenderType
<1>2. acked' \subseteq 0 .. next_expected - 1
  <2>1. \A s \in acked' : s < next_expected
    BY DEF WindowInv, AcksBehind
  <2>2. acked' \subseteq 0 .. next_seq' - 1
    BY DEF TypeOK, ITypeOK, SenderType
  <2>3. ASSUME NEW s \in acked' PROVE s \in Nat
    BY <2>2
  <2> QED BY <1>1, <2>1, <2>3
<1>3. Done(in_flight) => acked = 0 .. Total - 1
  BY <1>1 DEF Done, WindowInv, Accounted
<1>4. taken' = Total /\ in_flight' = {} => acked' = 0 .. Total - 1
  BY <1>1 DEF WindowInv, Accounted
<1>5. Outcome' = IF taken' = Total /\ in_flight' = {} THEN "complete" ELSE "open"
  BY DEF Outcome, Done
<1>6. CASE Outcome = "complete"
  <2>1. Done(in_flight)
    BY <1>6 DEF Outcome
  <2>2. taken' = Total /\ in_flight' = {} /\ next_seq' = next_seq
    BY <2>1 DEF PhaseEffect
  <2> QED BY <1>1, <1>3, <1>4, <1>5, <1>6, <2>1, <2>2 DEF Stream!streamVars
<1>7. CASE Outcome = "open" /\ taken' = Total /\ in_flight' = {}
  <2>1. next_seq' = next_seq /\ acked' = 0 .. Total - 1
    BY <1>4, <1>7 DEF PhaseEffect
  <2>2. next_expected = Total
    <3>1. Total > 0 => Total - 1 \in 0 .. next_expected - 1
      BY <1>1, <1>2, <2>1
    <3> QED BY <1>1, <3>1
  <2>3. Stream!Finish
    BY <1>1, <1>5, <1>7, <2>1, <2>2 DEF Stream!Finish
  <2> QED BY <2>3 DEF Stream!StreamNext
<1>8. CASE Outcome = "open" /\ ~(taken' = Total /\ in_flight' = {})
  <2>1. Stream!Advance
    BY <1>1, <1>2, <1>5, <1>8 DEF Stream!Advance
  <2> QED BY <2>1 DEF Stream!StreamNext
<1> QED BY <1>6, <1>7, <1>8 DEF Outcome

LEMMA SendingMaps ==
    ASSUME DummyTransfer, TypeOK, TypeOK', DeliveryInv, WindowInv, WindowInv', StreamInv,
           StreamInv', SendingStep, UNCHANGED <<listenerVars, epoch>>
    PROVE  Stream!StreamNext \/ UNCHANGED Stream!streamVars
<1>0. UNCHANGED <<peer, next_expected>> /\ peer \in Nat /\ inc \in Nat /\ epoch \in Nat
  BY MaxIncAssumption DEF listenerVars, receiverVars, TypeOK, ITypeOK, ControlType, LTypeOK,
                          ListenerControlType
<1>1. Heard(inc) => peer = inc
  BY <1>0 DEF Heard, DummyTransfer, WindowInv, SentByCurrent, StreamInv, FollowsLatest
<1>2. Serving => peer = inc /\ ~ifailed
  BY <1>1 DEF Serving, DeliveryInv, HeardFirst, StreamInv, PhasesInOrder
<1>3. UNCHANGED <<inc, next_seq, acked, Outcome>> => UNCHANGED Stream!streamVars
  BY <1>0 DEF Stream!streamVars
<1>a. inc' = inc => PhaseEffect
  <2>1. inc' = inc => ~Launch
    BY <1>0 DEF Launch
  <2> QED BY <2>1, SendingPhase
<1>4. CASE Launch
  <2>1. Outcome' = "open"
    BY <1>4 DEF Launch, Outcome
  <2>2. Stream!Open
    BY <1>0, <1>4, <2>1 DEF Launch, Stream!Open
  <2> QED BY <2>2 DEF Stream!StreamNext
<1>5. CASE Exit
  BY <1>3, <1>5 DEF Exit, senderVars, Outcome, Done
<1>6. CASE HandshakeTick
  <2>1. UNCHANGED <<inc, next_seq, acked, taken, in_flight>> /\ Outcome = "open"
    BY <1>6 DEF HandshakeTick, senderVars, Outcome
  <2>2. CASE ifailed'
    <3>1. Stream!Fail
      BY <1>0, <2>1, <2>2 DEF Outcome, Stream!Fail
    <3> QED BY <3>1 DEF Stream!StreamNext
  <2>3. CASE ~ifailed'
    <3>1. Outcome' = "open"
      BY <1>6, <2>3 DEF HandshakeTick, Outcome
    <3> QED BY <1>3, <2>1, <3>1
  <2> QED BY <2>2, <2>3
<1>7. CASE RetryLimit
  <2>1. UNCHANGED <<inc, next_seq, acked>> /\ ifailed'
    BY <1>7 DEF RetryLimit, senderVars
  <2>2. in_flight # {}
    BY <1>7 DEF RetryLimit, ExpiredSets
  <2>3. Outcome = "open"
    BY <1>2, <1>7, <2>2 DEF RetryLimit, Outcome, Done
  <2>4. Stream!Fail
    BY <1>0, <2>1, <2>3 DEF Outcome, Stream!Fail
  <2> QED BY <2>4 DEF Stream!StreamNext
<1>8. CASE Tick
  <2>1. Serving /\ UNCHANGED <<istate, ifailed, acked>>
    BY <1>8 DEF Tick, controlVars
  <2>2. PhaseEffect
    BY <1>8, <1>a DEF Tick, controlVars
  <2>3. ~ifailed /\ ~ifailed' /\ istate' # "Handshaking" /\ peer = inc
    BY <1>2, <2>1 DEF Serving
  <2> QED BY <1>0, <2>1, <2>2, <2>3, SenderMaps
<1>9. ASSUME NEW p \in down, running, p.port = inc, OnSynAck(p)
      PROVE  Stream!StreamNext \/ UNCHANGED Stream!streamVars
  <2>1. UNCHANGED <<inc, ifailed>> /\ peer = inc
    BY <1>1, <1>9 DEF OnSynAck, DeliveryInv, HeardFirst
  <2>2. CASE istate = "Handshaking"
    <3>1. istate' = "Active" /\ UNCHANGED acked
      BY <1>9, <2>2 DEF OnSynAck
    <3>2. PhaseEffect
      BY <1>a, <2>1
    <3>3. ~ifailed
      BY <2>2 DEF StreamInv, PhasesInOrder
    <3> QED BY <1>0, <2>1, <3>1, <3>2, <3>3, SenderMaps
  <2>3. CASE istate # "Handshaking"
    BY <1>3, <1>9, <2>1, <2>3 DEF OnSynAck, senderVars, Outcome, Done
  <2> QED BY <2>2, <2>3
<1>10. ASSUME NEW p \in down, OnFinAck(p)
       PROVE  UNCHANGED Stream!streamVars
  <2>1. istate # "Handshaking" /\ istate' = "Closed"
    BY <1>10 DEF OnFinAck, StreamInv, PhasesInOrder
  <2> QED BY <1>3, <1>10, <2>1 DEF OnFinAck, senderVars, Outcome, Done
<1>11. ASSUME NEW p \in down, running, p.port = inc, OnAck(p)
       PROVE  Stream!StreamNext \/ UNCHANGED Stream!streamVars
  <2>1. UNCHANGED <<inc, ifailed>>
    BY <1>11 DEF OnAck
  <2>2. CASE ~Serving
    BY <1>3, <1>11, <2>1, <2>2 DEF OnAck, senderVars, Outcome, Done
  <2>3. CASE Serving
    <3>1. PhaseEffect
      BY <1>a, <2>1
    <3>2. acked \subseteq acked' /\ istate' # "Handshaking"
      BY <1>11, <2>3 DEF OnAck, Serving
    <3> QED BY <1>0, <1>2, <2>1, <2>3, <3>1, <3>2, SenderMaps
  <2> QED BY <2>2, <2>3
<1>12. ASSUME NEW p \in down, NEW late \in BOOLEAN, OnNack(p, late)
       PROVE  UNCHANGED Stream!streamVars
  <2>1. UNCHANGED <<inc, istate, ifailed, next_seq, taken, acked, in_flight>>
    BY <1>12 DEF OnNack, controlVars, DummyTransfer
  <2> QED BY <1>3, <2>1 DEF Outcome, Done
<1>13. ASSUME NEW p \in down, ToDeadPort(p)
       PROVE  UNCHANGED Stream!streamVars
  BY <1>3, <1>13 DEF ToDeadPort, initiatorVars, controlVars, senderVars, Outcome, Done
<1> QED BY <1>4, <1>5, <1>6, <1>7, <1>8, <1>9, <1>10, <1>11, <1>12, <1>13 DEF SendingStep

LEMMA ReceivingMaps ==
    ASSUME DummyTransfer, TypeOK, TypeOK', DeliveryInv, WindowInv, StreamInv, NEW p \in up,
           ListenerReceives(p)
    PROVE  Stream!StreamNext \/ UNCHANGED Stream!streamVars
<1>1. /\ peer' = p.port /\ epoch' >= epoch /\ UNCHANGED initiatorVars
      /\ \/ p.flags = {"SYN"} /\ epoch' = 2 * p.port /\ next_expected' = 0
         \/ /\ p.flags # {"SYN"} /\ epoch' = 2 * p.port + 1
            /\ next_expected' = next_expected \/ (p.type = "Data" /\ (Hold(p) \/ Deliver(p)))
  BY ReceivingEffect DEF DummyTransfer
<1>2. UNCHANGED <<inc, next_seq, acked, Outcome>>
  BY <1>1 DEF initiatorVars, controlVars, senderVars, Outcome, Done
<1>3. /\ p.port \in Ports /\ p.port \in Nat /\ p.port > 0 /\ peer \in Nat /\ inc \in Nat
      /\ p.port <= inc
  BY UpPacket, MaxIncAssumption DEF TypeOK, ITypeOK, ControlType, LTypeOK, ListenerControlType,
                                    Ports, WindowInv, SentByCurrent
<1>4. epoch = 2 * peer \/ epoch = 2 * peer + 1
  BY DEF StreamInv, FollowsLatest
<1>5. CASE p.flags = {"SYN"}
  <2>1. CASE p.port = peer
    <3>1. next_expected = 0
      BY <1>1, <1>3, <1>4, <1>5, <2>1 DEF StreamInv, FollowsLatest
    <3> QED BY <1>1, <1>2, <1>5, <2>1, <3>1 DEF Stream!streamVars
  <2>2. CASE p.port # peer
    <3>1. p.port \in peer + 1 .. inc
      BY <1>1, <1>3, <1>4, <1>5, <2>2
    <3>2. Stream!Follow
      BY <1>1, <1>2, <1>5, <3>1 DEF Stream!Follow
    <3> QED BY <3>2 DEF Stream!StreamNext
  <2> QED BY <2>1, <2>2
<1>6. CASE p.flags # {"SYN"}
  <2>1. p.port = peer
    <3>1. 2 * p.port <= epoch
      BY <1>6 DEF DeliveryInv, HeardFirst, Heard, DummyTransfer
    <3> QED BY <1>1, <1>3, <1>4, <1>6, <3>1
  <2>2. CASE next_expected' = next_expected
    BY <1>1, <1>2, <2>1, <2>2 DEF Stream!streamVars
  <2>3. CASE p.type = "Data" /\ Deliver(p)
    <3>1. PICK n \in next_expected + 1 .. next_expected + kSendWindow :
            RunEnd(Held(p), n) /\ next_expected' = n
      BY <2>3 DEF Deliver
    <3>2. next_expected \in Nat /\ n \in next_expected + 1 .. Total
      BY <3>1, TotalAssumption, WindowAssumption DEF TypeOK, LTypeOK, ReceiverType
    <3>3. ASSUME peer = inc PROVE n <= next_seq
      <4>1. n - 1 \in next_expected .. n - 1
        BY <3>2, TotalAssumption
      <4>2. PICK q \in Held(p) : q.seq = n - 1
        BY <3>1, <4>1 DEF RunEnd, Holds
      <4>3. q.seq < next_seq
        <5>1. CASE q = p
          BY <2>1, <2>3, <3>3, <5>1 DEF WindowInv, SentByCurrent
        <5>2. CASE q \in reorder
          <6>1. 2 * q.port <= epoch /\ epoch <= 2 * q.port + 1
            BY <5>2 DEF DeliveryInv, ReceivesCurrent, Current, DummyTransfer
          <6>2. q.port \in Nat
            BY <5>2, DataPacket, MaxIncAssumption DEF TypeOK, LTypeOK, ReceiverType, Ports
          <6>3. q.port = inc
            BY <1>3, <1>4, <3>3, <6>1, <6>2
          <6> QED BY <5>2, <6>3 DEF StreamInv, HeldWasSent
        <5> QED BY <5>1, <5>2 DEF Held
      <4>4. next_seq \in Nat /\ n \in Nat
        BY <3>2, TotalAssumption DEF TypeOK, ITypeOK, SenderType
      <4> QED BY <4>2, <4>3, <4>4
    <3>4. Stream!DeliverRun
      BY <1>1, <1>2, <1>3, <2>1, <3>1, <3>2, <3>3 DEF Stream!DeliverRun
    <3> QED BY <3>4 DEF Stream!StreamNext
  <2>4. Hold(p) => next_expected' = next_expected
    BY DEF Hold
  <2> QED BY <1>1, <1>6, <2>2, <2>3, <2>4
<1> QED BY <1>5, <1>6

\* A dummy transfer without overtaking and listener restarts implements the
\* reliable ordered stream of ReliableStream: sessions one after the other, each
\* packet of the one the listener follows delivered once and in order, and no
\* session complete before everything of it was (session.cpp:52-61, 285-412).
THEOREM ImplementsReliableStream ==
    ASSUME DummyTransfer
    PROVE  Spec => ImplementsStream
<1>0. OrderedEpochs
  BY DEF OrderedEpochs, DummyTransfer
<1>1. Init => Stream!StreamInit
  BY DEF Init, IInit, LInit, Stream!StreamInit, Outcome
<1>2. TypeOK /\ TypeOK' /\ DeliveryInv /\ WindowInv /\ WindowInv' /\ StreamInv /\ StreamInv'
        /\ [Next]_vars => [Stream!StreamNext]_(Stream!streamVars)
  <2> SUFFICES ASSUME TypeOK, TypeOK', DeliveryInv, WindowInv, WindowInv', StreamInv,
                      StreamInv', [Next]_vars
               PROVE  [Stream!StreamNext]_(Stream!streamVars)
    OBVIOUS
  <2>1. ASSUME NEW p \in up, ListenerReceives(p)
        PROVE  Stream!StreamNext \/ UNCHANGED Stream!streamVars
    BY <2>1, ReceivingMaps
  <2>2. CASE InitiatorSteps \/ \E p \in down : InitiatorReceives(p)
    BY <2>2, SendingMaps DEF InitiatorSteps, InitiatorReceives, SendingStep
  <2>3. CASE Lose \/ ListenerSteps \/ UNCHANGED vars
    <3>1. ~ListenerRestart
      BY RestartsAssumption DEF ListenerRestart, DummyTransfer, TypeOK, LTypeOK,
                                ListenerControlType
    <3>2. UNCHANGED <<inc, next_seq, acked, ifailed, istate, taken, in_flight, peer, next_expected>>
      BY <2>3, <3>1 DEF Lose, ListenerSteps, SynAckTick, vars, initiatorVars, controlVars,
                        senderVars, listenerVars, receiverVars
    <3> QED BY <3>2 DEF Stream!streamVars, Outcome, Done
  <2> QED BY <2>1, <2>2, <2>3 DEF Next
<1> QED BY <1>0, <1>1, <1>2, TypeCorrect, DeliveryInvariant, WindowInvariant, StreamInvariant, PTL
        DEF Spec, ImplementsStream, Stream!StreamSpec


-----------------------------------------------------------------------------
(* The live invariant *)

\* What receiving a datagram changes is about the process that sent it, or about
\* one whose packets are held.
LEMMA ReceivingNews ==
    ASSUME TypeOK, NEW p \in up, ListenerReceives(p)
    PROVE  /\ peer' = p.port /\ up' \subseteq up /\ UNCHANGED initiatorVars
           /\ \A q \in down' : q \in down \/ q.port = p.port
           /\ \A q \in reorder' : q \in reorder \/ q = p
           /\ \A g \in got' : \/ g \in got
                              \/ /\ p.flags # {"SYN"}
                                 /\ \E q \in reorder \cup {p} : g[1] = q.port
<1>1. up' \subseteq up /\ UNCHANGED initiatorVars /\ peer' = p.port
  BY ReceivedSubset DEF ListenerReceives, OnSyn, OnHsAck, OnFin, OnData
<1>2. CASE OnSyn(p)
  <2>1. down' = down \cup {SynAck(p.port)} /\ reorder' = {} /\ got' = got
    BY <1>2 DEF OnSyn
  <2>2. SynAck(p.port).port = p.port
    BY PacketFields
  <2>3. \A q \in down' : q \in down \/ q.port = p.port
    BY <2>1, <2>2
  <2> QED BY <1>1, <2>1, <2>3
<1>3. CASE OnHsAck(p) \/ OnFin(p)
  <2>1. down' \subseteq down \cup {FinAck(p.port)} /\ reorder' = reorder /\ got' = got
    BY <1>3 DEF OnHsAck, OnFin, receiverVars
  <2>2. FinAck(p.port).port = p.port
    BY PacketFields
  <2>3. \A q \in down' : q \in down \/ q.port = p.port
    BY <2>1, <2>2
  <2> QED BY <1>1, <2>1, <2>3
<1>4. CASE OnData(p)
  <2>1. p.flags # {"SYN"}
    <3>1. p = Data(p.seq, p.port)
      BY <1>4, UpPacket DEF OnData, TypeOK
    <3> QED BY <3>1, PacketFields
  <2>2. Held(p) \subseteq reorder \cup {p}
    BY DEF Held
  <2>3. CASE Discard(p) \/ Reacknowledge(p) \/ BeyondWindow(p)
    <3>1. /\ down' \subseteq down \cup {Ack(p.seq, p.port), Nack(next_expected, p.port)}
          /\ reorder' = reorder /\ got' = got
      BY <2>3 DEF Discard, Reacknowledge, BeyondWindow, receiverVars
    <3> QED BY <1>1, <3>1, PacketFields
  <2>4. CASE Hold(p)
    <3>1. /\ down' = down \cup {Nack(next_expected, p.port)}
          /\ reorder' = Held(p) /\ got' = got
      BY <2>4 DEF Hold
    <3> QED BY <1>1, <2>2, <3>1, PacketFields
  <2>5. CASE Deliver(p)
    <3>1. PICK n :
            /\ reorder' \subseteq Held(p)
            /\ got' = got \cup {<<q.port, q.seq>> : q \in {r \in Held(p) : r.seq < n}}
            /\ down' = down \cup {Ack(s, p.port) : s \in next_expected .. n - 1}
      BY <2>5 DEF Deliver
    <3>2. \A q \in down' : q \in down \/ q.port = p.port
      BY <3>1, PacketFields
    <3>3. ASSUME NEW g \in got', g \notin got
          PROVE  \E q \in reorder \cup {p} : g[1] = q.port
      <4>1. PICK q \in Held(p) : g = <<q.port, q.seq>>
        BY <3>1, <3>3
      <4> QED BY <2>2, <4>1
    <3> QED BY <1>1, <2>1, <2>2, <3>1, <3>2, <3>3
  <2> QED BY <1>4, <2>3, <2>4, <2>5 DEF OnData
<1> QED BY <1>2, <1>3, <1>4 DEF ListenerReceives

\* A sending process that goes on puts on the wire only what it has handed over
\* by then, and in a dummy transfer gives nothing up.
LEMMA SendingNews ==
    ASSUME TypeOK, TypeOK', SendingStep, ~Launch
    PROVE  /\ inc' = inc /\ down' \subseteq down /\ next_seq <= next_seq'
           /\ acked \subseteq acked' /\ dropped \subseteq dropped'
           /\ MediaMode \/ dropped' = dropped
           /\ \A q \in up' : \/ q \in up
                             \/ q.port = inc /\ (q.type = "Data" => q.seq < next_seq')
<1>0. next_seq \in Nat
  BY TotalAssumption DEF TypeOK, ITypeOK, SenderType
<1>a. \A q \in up' : q.type = "Data" => q.seq \in Nat
  BY UpPacket, TotalAssumption DEF TypeOK, Seqs
<1>1. PICK confirmed, late \in SUBSET in_flight :
        /\ inc' = inc /\ down' \subseteq down
        /\ late # {} => MediaMode
        /\ acked' = acked \cup confirmed
        /\ dropped' = dropped \cup late
        /\ \/ next_seq' = next_seq /\ \A q \in up' : q \in up \/ Own(q)
           \/ \E st, sent : /\ \A q \in sent : Own(q)
                            /\ FillWindow((in_flight \ confirmed) \ late, st, sent)
  BY SendingEffect
<1>2. CASE next_seq' = next_seq /\ \A q \in up' : q \in up \/ Own(q)
  BY <1>0, <1>1, <1>2 DEF Own
<1>3. ASSUME NEW st, NEW sent, \A q \in sent : Own(q),
             FillWindow((in_flight \ confirmed) \ late, st, sent)
      PROVE  /\ next_seq <= next_seq'
             /\ \A q \in up' : \/ q \in up
                               \/ q.port = inc /\ (q.type = "Data" => q.seq < next_seq')
  <2>1. (in_flight \ confirmed) \ late \in SUBSET in_flight
    OBVIOUS
  <2>2. PICK k \in Nat :
          /\ next_seq' = next_seq + k
          /\ in_flight' = ((in_flight \ confirmed) \ late) \cup (next_seq .. next_seq + k - 1)
          /\ up' = up \cup sent \cup {Data(s, inc) : s \in next_seq .. next_seq + k - 1}
          /\ k = 0 \/ Cardinality((in_flight \ confirmed) \ late) + k <= kSendWindow
    BY <1>3, <2>1, FillExtends
  <2>3. ASSUME NEW q \in sent
        PROVE  q.port = inc /\ (q.type = "Data" => q.seq < next_seq + k)
    <3>1. q \in up'
      BY <2>2
    <3> QED BY <1>0, <1>3, <1>a, <3>1 DEF Own
  <2>4. \A s \in next_seq .. next_seq + k - 1 :
          Data(s, inc).port = inc /\ Data(s, inc).seq < next_seq + k
    BY <1>0, PacketFields
  <2> QED BY <1>0, <2>2, <2>3, <2>4
<1> QED BY <1>1, <1>2, <1>3

LEMMA SendingKeepsLive ==
    ASSUME TypeOK, TypeOK', LiveInv, SendingStep, UNCHANGED <<listenerVars, epoch>>
    PROVE  LiveInv'
<1> USE DEF LiveInv
<1>0. /\ inc \in Nat /\ next_seq \in Nat /\ taken \in Nat /\ peer \in Nat
      /\ UNCHANGED <<peer, reorder, got, epoch>>
  BY MaxIncAssumption, TotalAssumption
    DEF TypeOK, ITypeOK, ControlType, SenderType, LTypeOK, ListenerControlType,
        listenerVars, receiverVars
<1>1. GotHeard'
  BY <1>0 DEF GotHeard, Heard
<1>2. /\ \A q \in up \cup down \cup reorder : q.port \in Nat
      /\ \A g \in got : g[1] \in Nat
  BY UpPacket, DownPacket, DataPacket, MaxIncAssumption DEF TypeOK, LTypeOK, ReceiverType, Ports
<1>3. \A q \in up \cup reorder : q.type = "Data" => q.seq \in Nat
  BY UpPacket, DataPacket, TotalAssumption DEF TypeOK, LTypeOK, ReceiverType, Seqs
<1>4. CASE Launch
  <2>1. /\ inc' = inc + 1 /\ ~ifailed' /\ istate' = "Handshaking"
        /\ up' = up \cup {Syn(inc + 1)} /\ down' = down
        /\ next_seq' = 0 /\ taken' = 0 /\ dropped' = {}
    BY <1>4 DEF Launch
  <2>2. /\ Syn(inc + 1).port = inc + 1 /\ Syn(inc + 1).type # "Data"
        /\ Fin(inc + 1).port = inc + 1 /\ FinAck(inc + 1).port = inc + 1
        /\ Fin(inc + 1) # Syn(inc + 1)
    <3>1. {"FIN"} # {"SYN"}
      OBVIOUS
    <3> QED BY <3>1, PacketFields
  <2>3. \A q \in up \cup down \cup reorder : q.port # inc + 1 /\ q.port <= inc + 1
    BY <1>0, <1>2 DEF NothingAhead
  <2>4. NothingAhead'
    <3>1. peer' <= inc' /\ \A g \in got' : g[1] <= inc'
      BY <1>0, <1>2, <2>1 DEF NothingAhead
    <3>2. \A p \in (up \cup down \cup reorder)' : p.port <= inc'
      BY <1>0, <2>1, <2>2, <2>3
    <3>3. \A p \in (up \cup reorder)' : p.type = "Data" => p.port # inc'
      BY <1>0, <2>1, <2>2, <2>3
    <3> QED BY <3>1, <3>2, <3>3 DEF NothingAhead
  <2>5. Fin(inc + 1) \notin up' /\ FinAck(inc + 1) \notin down'
    BY <2>1, <2>2, <2>3
  <2> QED BY <1>1, <2>1, <2>4, <2>5 DEF PhasesInOrder, DummyKeepsAll
<1>5. CASE ~Launch
  <2>1. /\ inc' = inc /\ down' \subseteq down /\ next_seq <= next_seq'
        /\ MediaMode \/ dropped' = dropped
        /\ \A q \in up' : q \in up \/ (q.port = inc /\ (q.type = "Data" => q.seq < next_seq'))
    BY <1>5, SendingNews
  <2>2. PhaseEffect
    BY <1>5, SendingPhase
  <2>3. next_seq' \in Nat /\ taken' \in Nat
    BY TotalAssumption DEF TypeOK, ITypeOK, SenderType
  <2>4. NothingAhead'
    <3>1. peer' <= inc' /\ \A g \in got' : g[1] <= inc'
      BY <1>0, <2>1 DEF NothingAhead
    <3>2. \A p \in (up \cup down \cup reorder)' : p.port <= inc'
      BY <1>0, <2>1 DEF NothingAhead
    <3>3. ASSUME NEW q \in (up \cup reorder)', q.type = "Data", q.port = inc'
          PROVE  q.seq < next_seq'
      <4>1. CASE q \in up \cup reorder
        BY <1>0, <1>3, <2>1, <2>3, <3>3, <4>1 DEF NothingAhead
      <4>2. CASE q \notin up \cup reorder
        BY <1>0, <2>1, <3>3, <4>2
      <4> QED BY <4>1, <4>2
    <3> QED BY <3>1, <3>2, <3>3 DEF NothingAhead
  <2>5. PhasesInOrder'
    BY <2>2 DEF PhaseEffect, PhasesInOrder
  <2>6. DummyKeepsAll'
    BY <1>0, <2>1, <2>2, <2>3 DEF PhaseEffect, DummyKeepsAll
  <2> QED BY <1>1, <2>4, <2>5, <2>6
<1> QED BY <1>4, <1>5

LEMMA ListeningKeepsLive ==
    ASSUME TypeOK, TypeOK', DeliveryInv, LiveInv, NEW p \in up, ListenerReceives(p)
    PROVE  LiveInv'
<1> USE DEF LiveInv
<1>1. /\ peer' = p.port /\ up' \subseteq up /\ UNCHANGED initiatorVars
      /\ \A q \in down' : q \in down \/ q.port = p.port
      /\ \A q \in reorder' : q \in reorder \/ q = p
      /\ \A g \in got' : \/ g \in got
                         \/ p.flags # {"SYN"} /\ \E q \in reorder \cup {p} : g[1] = q.port
  BY ReceivingNews
<1>2. UNCHANGED <<inc, istate, ifailed, next_seq, taken, dropped>>
  BY <1>1 DEF initiatorVars, controlVars, senderVars
<1>3. NothingAhead'
  BY <1>1, <1>2 DEF NothingAhead
<1>4. GotHeard'
  <2>1. ASSUME NEW i \in Nat, Heard(i) PROVE Heard(i)'
    BY <2>1, MaxIncAssumption DEF Heard, ListenerReceives, EpochOf, TypeOK
  <2>2. \A q \in reorder : Heard(q.port)
    BY DEF DeliveryInv, ReceivesCurrent, Current, Heard
  <2>3. p.flags # {"SYN"} => Heard(p.port)
    BY DEF DeliveryInv, HeardFirst
  <2>4. /\ p.port \in Nat /\ \A q \in reorder : q.port \in Nat
        /\ \A g \in got : g[1] \in Nat
    BY UpPacket, DataPacket, MaxIncAssumption DEF TypeOK, LTypeOK, ReceiverType, Ports
  <2>5. ASSUME NEW g \in got' PROVE g[1] \in Nat /\ Heard(g[1])
    BY <1>1, <2>2, <2>3, <2>4 DEF GotHeard
  <2> QED BY <2>1, <2>5 DEF GotHeard
<1>5. PhasesInOrder'
  BY <1>1, <1>2, FinAckAnswersFin DEF PhasesInOrder
<1> QED BY <1>2, <1>3, <1>4, <1>5 DEF DummyKeepsAll

\* On the same links as the delivery invariant, in both modes, the live invariant
\* holds throughout.
THEOREM LiveInvariant ==
    ASSUME OrderedEpochs
    PROVE  Spec => []LiveInv
<1>1. Init => LiveInv
  BY DEF Init, IInit, LInit, LiveInv, NothingAhead, GotHeard, PhasesInOrder, DummyKeepsAll
<1>2. TypeOK /\ TypeOK' /\ DeliveryInv /\ LiveInv /\ [Next]_vars => LiveInv'
  <2> SUFFICES ASSUME TypeOK, TypeOK', DeliveryInv, LiveInv, [Next]_vars
               PROVE  LiveInv'
    OBVIOUS
  <2>1. ASSUME NEW p \in up, ListenerReceives(p) PROVE LiveInv'
    BY <2>1, ListeningKeepsLive
  <2>2. CASE InitiatorSteps \/ \E p \in down : InitiatorReceives(p)
    BY <2>2, SendingKeepsLive DEF InitiatorSteps, InitiatorReceives, SendingStep
  <2>3. CASE Lose \/ ListenerSteps \/ UNCHANGED vars
    <3>1. /\ up' \subseteq up /\ reorder' \subseteq reorder /\ UNCHANGED <<got, epoch>>
          /\ UNCHANGED <<inc, istate, ifailed, next_seq, taken, dropped>>
          /\ peer' = peer \/ peer' = 0
          /\ down' \subseteq down \/ down' \subseteq down \cup {SynAck(peer)}
      <4>1. CASE Lose \/ UNCHANGED vars
        BY <4>1 DEF Lose, vars, initiatorVars, controlVars, senderVars, listenerVars,
                    receiverVars, wireVars
      <4>2. CASE ListenerSteps
        BY <4>2 DEF ListenerSteps, SynAckTick, ListenerRestart, initiatorVars, controlVars,
                    senderVars, receiverVars, wireVars
      <4> QED BY <2>3, <4>1, <4>2
    <3>2. /\ SynAck(peer).port = peer /\ FinAck(inc) # SynAck(peer)
          /\ peer <= inc /\ 0 <= inc
      <4>1. SynAck(peer).port = peer
        BY PacketFields
      <4>2. FinAck(inc) # SynAck(peer)
        BY FinAckDiffers
      <4> QED BY <4>1, <4>2, MaxIncAssumption DEF LiveInv, NothingAhead, TypeOK, ITypeOK, ControlType
    <3>3. \A q \in down' : q \in down \/ q = SynAck(peer)
      BY <3>1
    <3>4. NothingAhead'
      BY <3>1, <3>2, <3>3 DEF LiveInv, NothingAhead
    <3>5. PhasesInOrder'
      BY <3>1, <3>2, <3>3 DEF LiveInv, PhasesInOrder
    <3> QED BY <3>1, <3>4, <3>5 DEF LiveInv, GotHeard, Heard, DummyKeepsAll
  <2> QED BY <2>1, <2>2, <2>3 DEF Next
<1> QED BY <1>1, <1>2, TypeCorrect, DeliveryInvariant, PTL DEF Spec


-----------------------------------------------------------------------------
(* The two hosts implement the live stream *)

\* A step of a sender whose handshake is over, and that does not fail, is one of
\* the abstract sender: packets are taken, sent and settled, perhaps the last of
\* them, or nothing changes.
LEMMA ProgressMaps ==
    ASSUME TypeOK, TypeOK', Accounted, Accounted', DeliveryInv', LiveInv, LiveInv',
           PhaseEffect, ~ifailed, ~ifailed', istate' # "Handshaking",
           acked \subseteq acked', dropped \subseteq dropped',
           UNCHANGED <<next_expected, sources, got>>
    PROVE  LiveSession!LiveNext \/ UNCHANGED LiveSession!liveVars
<1>1. /\ inc' = inc /\ Total \in Nat /\ next_seq \in Nat /\ next_seq' \in Nat
      /\ next_seq' \in next_seq .. taken' /\ taken' \in taken .. Total
      /\ UNCHANGED LiveSession!receiverSide
  BY TotalAssumption DEF PhaseEffect, TypeOK, ITypeOK, SenderType, LiveSession!receiverSide
<1>2. /\ acked' \cap dropped' = {}
      /\ in_flight' \cup acked' \cup dropped' = 0 .. next_seq' - 1
      /\ \A n \in acked' : <<inc, n>> \in got
      /\ MediaMode \/ (next_seq' = taken' /\ dropped' = {})
  BY <1>1 DEF Accounted, DeliveryInv, AcksDelivered, AckSound, LiveInv, DummyKeepsAll
<1>3. Outcome' = IF taken' = Total /\ in_flight' = {} THEN "complete" ELSE "open"
  BY DEF Outcome, Done
<1>4. CASE Outcome = "complete"
  <2>1. Done(in_flight)
    BY <1>4 DEF Outcome
  <2>2. taken' = Total /\ taken = Total /\ in_flight = {} /\ in_flight' = {}
    BY <2>1 DEF PhaseEffect, Done
  <2>3. next_seq' = next_seq
    BY <2>2 DEF PhaseEffect
  <2>4. acked' = acked /\ dropped' = dropped
    BY <1>2, <2>2, <2>3 DEF Accounted
  <2> QED BY <1>1, <1>3, <1>4, <2>2, <2>3, <2>4 DEF LiveSession!liveVars, LiveSession!senderSide
<1>5. CASE Outcome = "open"
  <2>1. LiveSession!Progress
    BY <1>1, <1>2, <1>5 DEF LiveSession!Progress
  <2>2. CASE taken' = Total /\ in_flight' = {}
    <3>1. acked' \cup dropped' = 0 .. next_seq' - 1
      BY <1>2, <2>2
    <3>2. LiveSession!Finish
      BY <1>3, <2>1, <2>2, <3>1 DEF LiveSession!Finish
    <3> QED BY <3>2 DEF LiveSession!LiveNext
  <2>3. CASE ~(taken' = Total /\ in_flight' = {})
    <3>1. LiveSession!Advance
      BY <1>3, <2>1, <2>3 DEF LiveSession!Advance
    <3> QED BY <3>1 DEF LiveSession!LiveNext
  <2> QED BY <2>2, <2>3
<1> QED BY <1>4, <1>5 DEF Outcome

LEMMA SendingMapsLive ==
    ASSUME TypeOK, TypeOK', Accounted, Accounted', DeliveryInv', LiveInv, LiveInv',
           SendingStep, UNCHANGED <<listenerVars, epoch>>
    PROVE  LiveSession!LiveNext \/ UNCHANGED LiveSession!liveVars
<1>0. UNCHANGED <<next_expected, sources, got>> /\ inc \in Nat
  BY MaxIncAssumption DEF listenerVars, receiverVars, TypeOK, ITypeOK, ControlType
<1>1. UNCHANGED LiveSession!receiverSide
  BY <1>0 DEF LiveSession!receiverSide
<1>2. Serving => ~ifailed
  BY DEF Serving, LiveInv, PhasesInOrder
<1>3. UNCHANGED <<inc, taken, next_seq, acked, dropped, Outcome>>
        => UNCHANGED LiveSession!liveVars
  BY <1>1 DEF LiveSession!liveVars, LiveSession!senderSide
<1>4. ASSUME ~Launch, ~ifailed, ~ifailed', istate' # "Handshaking"
      PROVE  LiveSession!LiveNext \/ UNCHANGED LiveSession!liveVars
  <2>1. PhaseEffect /\ acked \subseteq acked' /\ dropped \subseteq dropped'
    BY <1>4, SendingPhase, SendingNews
  <2> QED BY <1>0, <1>4, <2>1, ProgressMaps
<1>5. CASE Launch
  <2>1. Outcome' = "open"
    BY <1>5 DEF Launch, Outcome
  <2>2. LiveSession!Open
    BY <1>1, <1>5, <2>1 DEF Launch, LiveSession!Open
  <2> QED BY <2>2 DEF LiveSession!LiveNext
<1>a. inc' = inc => ~Launch
  BY <1>0 DEF Launch
<1>6. CASE Exit
  BY <1>3, <1>6 DEF Exit, senderVars, Outcome, Done
<1>7. CASE HandshakeTick \/ RetryLimit
  <2>1. UNCHANGED <<inc, next_seq, acked, dropped, taken, in_flight>>
    BY <1>7 DEF HandshakeTick, RetryLimit, senderVars
  <2>2. Outcome = "open"
    <3>1. RetryLimit => in_flight # {}
      BY DEF RetryLimit, ExpiredSets
    <3> QED BY <1>2, <1>7, <3>1 DEF HandshakeTick, RetryLimit, Outcome, Done
  <2>3. CASE ifailed'
    <3>1. LiveSession!Fail
      BY <1>1, <2>1, <2>2, <2>3 DEF Outcome, LiveSession!Fail
    <3> QED BY <3>1 DEF LiveSession!LiveNext
  <2>4. CASE ~ifailed'
    <3>1. Outcome' = "open"
      BY <1>7, <2>4 DEF HandshakeTick, RetryLimit, Outcome
    <3> QED BY <1>3, <2>1, <2>2, <3>1
  <2> QED BY <2>3, <2>4
<1>8. CASE Tick
  <2>1. Serving /\ UNCHANGED <<inc, istate, ifailed>>
    BY <1>8 DEF Tick, controlVars
  <2> QED BY <1>2, <1>4, <1>a, <2>1 DEF Serving
<1>9. ASSUME NEW p \in down, OnSynAck(p)
      PROVE  LiveSession!LiveNext \/ UNCHANGED LiveSession!liveVars
  <2>1. UNCHANGED <<inc, ifailed>>
    BY <1>9 DEF OnSynAck
  <2>2. CASE istate = "Handshaking"
    <3>1. istate' = "Active" /\ ~ifailed
      BY <1>9, <2>2 DEF OnSynAck, LiveInv, PhasesInOrder
    <3> QED BY <1>4, <1>a, <2>1, <3>1
  <2>3. CASE istate # "Handshaking"
    BY <1>3, <1>9, <2>1, <2>3 DEF OnSynAck, senderVars, Outcome, Done
  <2> QED BY <2>2, <2>3
<1>10. ASSUME NEW p \in down, p.port = inc, OnFinAck(p)
       PROVE  UNCHANGED LiveSession!liveVars
  <2>1. istate # "Handshaking" /\ istate' = "Closed"
    BY <1>10 DEF OnFinAck, LiveInv, PhasesInOrder
  <2> QED BY <1>3, <1>10, <2>1 DEF OnFinAck, senderVars, Outcome, Done
<1>11. ASSUME NEW p \in down, OnAck(p)
       PROVE  LiveSession!LiveNext \/ UNCHANGED LiveSession!liveVars
  <2>1. UNCHANGED <<inc, ifailed>>
    BY <1>11 DEF OnAck
  <2>2. CASE ~Serving
    BY <1>3, <1>11, <2>1, <2>2 DEF OnAck, senderVars, Outcome, Done
  <2>3. CASE Serving
    <3>1. istate' # "Handshaking"
      BY <1>11, <2>3 DEF OnAck, Serving
    <3> QED BY <1>2, <1>4, <1>a, <2>1, <2>3, <3>1
  <2> QED BY <2>2, <2>3
<1>12. ASSUME NEW p \in down, NEW late \in BOOLEAN, OnNack(p, late)
       PROVE  LiveSession!LiveNext \/ UNCHANGED LiveSession!liveVars
  <2>1. UNCHANGED <<inc, istate, ifailed, next_seq, taken, acked>>
    BY <1>12 DEF OnNack, controlVars
  <2>2. CASE ~Serving
    <3>1. UNCHANGED <<in_flight, dropped>>
      BY <1>12, <2>2 DEF OnNack
    <3> QED BY <1>3, <2>1, <3>1 DEF Outcome, Done
  <2>3. CASE Serving
    BY <1>2, <1>4, <1>a, <2>1, <2>3 DEF Serving
  <2> QED BY <2>2, <2>3
<1>13. ASSUME NEW p \in down, ToDeadPort(p)
       PROVE  UNCHANGED LiveSession!liveVars
  BY <1>3, <1>13 DEF ToDeadPort, initiatorVars, controlVars, senderVars, Outcome, Done
<1> QED BY <1>5, <1>6, <1>7, <1>8, <1>9, <1>10, <1>11, <1>12, <1>13 DEF SendingStep

\* The run of packets a datagram completes comes from the process that sent the
\* datagram, no earlier one than any heard before, which has sent all of it.
LEMMA DeliveryMaps ==
    ASSUME OrderedEpochs, TypeOK, TypeOK', DeliveryInv, LiveInv, NEW p \in up,
           ListenerReceives(p), p.type = "Data", Deliver(p)
    PROVE  LiveSession!LiveNext
<1>1. /\ p \in DataPackets /\ p.port \in Ports /\ p.port \in Nat /\ p.flags # {"SYN"}
      /\ p.seq = next_expected
  <2>1. p \in DataPackets /\ p.port \in Ports /\ p = Data(p.seq, p.port)
    BY UpPacket DEF TypeOK
  <2>2. p.flags # {"SYN"}
    BY <2>1, PacketFields
  <2>3. p.port \in Nat
    BY <2>1, MaxIncAssumption DEF Ports
  <2> QED BY <2>1, <2>2, <2>3 DEF Deliver
<1>2. PICK n \in next_expected + 1 .. next_expected + kSendWindow :
        /\ RunEnd(Held(p), n)
        /\ sources' = sources \cup {q.port : q \in {r \in Held(p) : r.seq < n}}
        /\ got' = got \cup {<<q.port, q.seq>> : q \in {r \in Held(p) : r.seq < n}}
        /\ next_expected' = n
  BY DEF Deliver
<1>3. /\ next_expected \in Nat /\ n \in 1 .. Total /\ n \in Nat /\ n > next_expected
      /\ Held(p) = reorder \cup {p}
  BY <1>1, <1>2, RunEndType, TotalAssumption, WindowAssumption DEF TypeOK, LTypeOK, ReceiverType
<1>4. UNCHANGED initiatorVars /\ epoch \in Nat
  BY MaxIncAssumption DEF ListenerReceives, TypeOK
<1>5. Current(p.port)
  BY <1>1, ReceivedCurrent DEF ListenerReceives, DeliveryInv
<1>6. \A q \in Held(p) : q.port = p.port
  <2>1. \A q \in reorder : q.port \in Ports /\ Current(q.port)
    BY DataPacket DEF TypeOK, LTypeOK, ReceiverType, DeliveryInv, ReceivesCurrent
  <2> QED BY <1>1, <1>3, <1>4, <1>5, <2>1, OneCurrent
<1>7. sources \subseteq {p.port}
  <2>1. \A i \in sources : i \in Ports /\ Current(i)
    BY DEF TypeOK, LTypeOK, ReceiverType, DeliveryInv, ReceivesCurrent
  <2> QED BY <1>1, <1>4, <1>5, <2>1, OneCurrent
<1>8. \A d \in got : d[1] <= p.port
  <2> SUFFICES ASSUME NEW d \in got PROVE d[1] <= p.port
    OBVIOUS
  <2>1. d[1] \in Ports /\ d[1] \in Nat /\ Heard(d[1])
    BY MaxIncAssumption DEF TypeOK, LTypeOK, ReceiverType, Ports, LiveInv, GotHeard
  <2> QED BY <1>1, <1>4, <1>5, <2>1 DEF Heard, Current, OrderedEpochs, Ports
<1>9. p.port = inc => n <= next_seq
  <2>1. n - 1 \in next_expected .. n - 1
    BY <1>3
  <2>2. PICK q \in Held(p) : q.seq = n - 1
    BY <1>2, <2>1 DEF RunEnd, Holds
  <2>3. q \in up \cup reorder /\ q.type = "Data" /\ q.port = p.port
    BY <1>3, <1>6, <2>2, DataPacket DEF TypeOK, LTypeOK, ReceiverType
  <2>4. p.port = inc => q.seq < next_seq
    BY <2>3 DEF LiveInv, NothingAhead
  <2>5. next_seq \in Nat
    BY TotalAssumption DEF TypeOK, ITypeOK, SenderType
  <2> QED BY <1>3, <2>2, <2>4, <2>5
<1>10. sources' = {p.port}
  BY <1>1, <1>2, <1>3, <1>6, <1>7
<1>11. got' = got \cup {<<p.port, s>> : s \in next_expected .. n - 1}
  <2>1. ASSUME NEW q \in Held(p), q.seq < n
        PROVE  q.port = p.port /\ q.seq \in next_expected .. n - 1
    <3>1. q.seq \in Nat
      BY <1>1, <1>3, DataPacket, TotalAssumption DEF TypeOK, LTypeOK, ReceiverType, Seqs
    <3>2. q.seq >= next_expected
      BY <1>1, <1>3, <3>1 DEF TypeOK, LTypeOK, ReceiverType
    <3> QED BY <1>3, <1>6, <2>1, <3>1, <3>2
  <2>2. ASSUME NEW s \in next_expected .. n - 1
        PROVE  \E q \in {r \in Held(p) : r.seq < n} : <<q.port, q.seq>> = <<p.port, s>>
    <3>1. PICK q \in Held(p) : q.seq = s
      BY <1>2 DEF RunEnd, Holds
    <3>2. q.seq < n
      BY <1>3, <3>1
    <3> QED BY <1>6, <3>1, <3>2
  <2>3. {<<q.port, q.seq>> : q \in {r \in Held(p) : r.seq < n}}
          = {<<p.port, s>> : s \in next_expected .. n - 1}
    BY <2>1, <2>2
  <2> QED BY <1>2, <2>3
<1>12. UNCHANGED LiveSession!senderSide
  BY <1>4 DEF initiatorVars, controlVars, senderVars, LiveSession!senderSide, Outcome, Done
<1>13. LiveSession!DeliverRun(p.port, n)
  BY <1>2, <1>3, <1>7, <1>8, <1>9, <1>10, <1>11, <1>12 DEF LiveSession!DeliverRun
<1>14. p.port \in 1 .. inc
  BY <1>1, MaxIncAssumption DEF Ports, LiveInv, NothingAhead, TypeOK, ITypeOK, ControlType
<1> QED BY <1>3, <1>13, <1>14 DEF LiveSession!LiveNext

LEMMA ReceivingMapsLive ==
    ASSUME OrderedEpochs, TypeOK, TypeOK', DeliveryInv, LiveInv, NEW p \in up,
           ListenerReceives(p)
    PROVE  LiveSession!LiveNext \/ UNCHANGED LiveSession!liveVars
<1>1. UNCHANGED LiveSession!senderSide
  BY DEF ListenerReceives, initiatorVars, controlVars, senderVars, LiveSession!senderSide,
         Outcome, Done
<1>2. CASE OnSyn(p)
  <2>1. LiveSession!StartOver
    BY <1>1, <1>2 DEF OnSyn, LiveSession!StartOver
  <2> QED BY <2>1 DEF LiveSession!LiveNext
<1>3. CASE OnHsAck(p) \/ OnFin(p)
  BY <1>1, <1>3 DEF OnHsAck, OnFin, receiverVars, LiveSession!liveVars, LiveSession!receiverSide
<1>4. CASE OnData(p)
  <2>1. CASE Discard(p) \/ Reacknowledge(p) \/ BeyondWindow(p) \/ Hold(p)
    BY <1>1, <2>1 DEF Discard, Reacknowledge, BeyondWindow, Hold, receiverVars,
                      LiveSession!liveVars, LiveSession!receiverSide
  <2>2. CASE Deliver(p)
    BY <1>4, <2>2, DeliveryMaps DEF OnData
  <2> QED BY <1>4, <2>1, <2>2 DEF OnData
<1> QED BY <1>2, <1>3, <1>4 DEF ListenerReceives

\* In both modes, with packets given up as late, chunks refused and either host
\* restarted, the two hosts implement LiveStream: between two starts the listener
\* delivers the packets of one process in order and without a gap, never going
\* back to an earlier process; the sender settles each packet once, believes
\* delivered only what was, and is complete only with everything settled
\* (session.cpp:163-241, 285-412, 464).
THEOREM ImplementsLive ==
    ASSUME OrderedEpochs
    PROVE  Spec => ImplementsLiveStream
<1>1. Init => LiveSession!LiveInit
  BY DEF Init, IInit, LInit, LiveSession!LiveInit, Outcome
<1>2. TypeOK /\ TypeOK' /\ Accounted /\ Accounted' /\ DeliveryInv /\ DeliveryInv'
        /\ LiveInv /\ LiveInv' /\ [Next]_vars
        => [LiveSession!LiveNext]_(LiveSession!liveVars)
  <2> SUFFICES ASSUME TypeOK, TypeOK', Accounted, Accounted', DeliveryInv, DeliveryInv',
                      LiveInv, LiveInv', [Next]_vars
               PROVE  LiveSession!LiveNext \/ UNCHANGED LiveSession!liveVars
    OBVIOUS
  <2>1. ASSUME NEW p \in up, ListenerReceives(p)
        PROVE  LiveSession!LiveNext \/ UNCHANGED LiveSession!liveVars
    BY <2>1, ReceivingMapsLive
  <2>2. CASE InitiatorSteps \/ \E p \in down : InitiatorReceives(p)
    BY <2>2, SendingMapsLive DEF InitiatorSteps, InitiatorReceives, SendingStep
  <2>3. CASE Lose \/ UNCHANGED vars
    BY <2>3 DEF Lose, vars, initiatorVars, controlVars, senderVars, listenerVars, receiverVars,
                Outcome, Done, LiveSession!liveVars, LiveSession!senderSide,
                LiveSession!receiverSide
  <2>4. CASE ListenerSteps
    <3>1. UNCHANGED LiveSession!senderSide
      BY <2>4 DEF ListenerSteps, initiatorVars, controlVars, senderVars, Outcome, Done,
                  LiveSession!senderSide
    <3>2. CASE SynAckTick
      BY <3>1, <3>2 DEF SynAckTick, receiverVars, LiveSession!liveVars, LiveSession!receiverSide
    <3>3. CASE ListenerRestart
      <4>1. LiveSession!StartOver
        BY <3>1, <3>3 DEF ListenerRestart, LiveSession!StartOver
      <4> QED BY <4>1 DEF LiveSession!LiveNext
    <3> QED BY <2>4, <3>2, <3>3 DEF ListenerSteps
  <2> QED BY <2>1, <2>2, <2>3, <2>4 DEF Next
<1> QED BY <1>1, <1>2, TypeCorrect, NoPacketForgotten, DeliveryInvariant, LiveInvariant, PTL
        DEF Spec, ImplementsLiveStream, LiveSession!LiveSpec
=============================================================================
