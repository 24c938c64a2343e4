---------------------------- MODULE SessionProofs ----------------------------
(***************************************************************************)
(* Theorems about SessionLink, for every value of its constants.           *)
(***************************************************************************)
EXTENDS SessionLink, TLAPS

-----------------------------------------------------------------------------
(* Facts about datagrams *)

\* The fields of a datagram determine it, and each kind differs from the others.
LEMMA PacketFields ==
    ASSUME NEW s, NEW i
    PROVE  /\ Data(s, i).type = "Data" /\ Data(s, i).seq = s /\ Data(s, i).port = i
           /\ Data(s, i).flags = {}
           /\ Ack(s, i).type = "Ack" /\ Ack(s, i).seq = s /\ Ack(s, i).port = i
           /\ Nack(s, i).type = "Nack" /\ Nack(s, i).seq = s /\ Nack(s, i).port = i
           /\ Syn(i).type = "Handshake" /\ Syn(i).flags = {"SYN"} /\ Syn(i).port = i
           /\ HsAck(i).type = "Handshake" /\ HsAck(i).flags = {"ACK"} /\ HsAck(i).port = i
           /\ Fin(i).type = "Handshake" /\ Fin(i).flags = {"FIN"} /\ Fin(i).port = i
           /\ SynAck(i).type = "Handshake" /\ SynAck(i).flags = {"SYN", "ACK"}
           /\ SynAck(i).port = i
           /\ FinAck(i).type = "Handshake" /\ FinAck(i).flags = {"FIN", "ACK"}
           /\ FinAck(i).port = i
BY DEF Data, Ack, Nack, Syn, HsAck, Fin, SynAck, FinAck, Handshake

\* What the type of a datagram on its way to the listener says about it.
LEMMA UpPacket ==
    ASSUME NEW p \in UpPackets
    PROVE  /\ p.port \in Ports
           /\ p.type = "Data" => p.seq \in Seqs /\ p = Data(p.seq, p.port)
           /\ p.type = "Data" => p \in DataPackets
<1>1. CASE p \in DataPackets
  <2>1. PICK s \in Seqs, i \in Ports : p = Data(s, i)
    BY <1>1 DEF DataPackets
  <2>2. p.type = "Data" /\ p.seq = s /\ p.port = i
    BY <2>1, PacketFields
  <2> QED BY <1>1, <2>1, <2>2
<1>2. CASE p \notin DataPackets
  <2>1. PICK i \in Ports : p = Syn(i) \/ p = HsAck(i) \/ p = Fin(i)
    BY <1>2 DEF UpPackets
  <2>2. p.type = "Handshake" /\ p.port = i
    BY <2>1 DEF Syn, HsAck, Fin, Handshake
  <2> QED BY <2>2
<1> QED BY <1>1, <1>2

LEMMA DownPacket ==
    ASSUME NEW p \in DownPackets
    PROVE  /\ p.port \in Ports
           /\ p.type = "Ack" => p.seq \in Seqs /\ p = Ack(p.seq, p.port)
           /\ p.type = "Nack" => p.seq \in 0 .. Total /\ p = Nack(p.seq, p.port)
<1>1. CASE \E s \in Seqs, i \in Ports : p = Ack(s, i)
  BY <1>1, PacketFields
<1>2. CASE \E s \in 0 .. Total, i \in Ports : p = Nack(s, i)
  BY <1>2, PacketFields
<1>3. CASE \E i \in Ports : p = SynAck(i) \/ p = FinAck(i)
  BY <1>3, PacketFields
<1> QED BY <1>1, <1>2, <1>3 DEF DownPackets

LEMMA DataPacket ==
    ASSUME NEW p \in DataPackets
    PROVE  p.type = "Data" /\ p.seq \in Seqs /\ p.port \in Ports /\ p = Data(p.seq, p.port)
BY PacketFields DEF DataPackets

LEMMA UpSent ==
    ASSUME NEW i \in Ports
    PROVE  /\ Syn(i) \in UpPackets /\ HsAck(i) \in UpPackets /\ Fin(i) \in UpPackets
           /\ \A s \in Seqs : Data(s, i) \in UpPackets /\ Data(s, i) \in DataPackets
BY DEF UpPackets, DataPackets

LEMMA DownSent ==
    ASSUME NEW i \in Ports
    PROVE  /\ SynAck(i) \in DownPackets /\ FinAck(i) \in DownPackets
           /\ \A s \in Seqs : Ack(s, i) \in DownPackets
           /\ \A s \in 0 .. Total : Nack(s, i) \in DownPackets
BY DEF DownPackets

\* The handlers recognise a handshake datagram by its flags.
LEMMA HandshakeFlags ==
    ASSUME NEW p
    PROVE  /\ p = Syn(p.port) => p.flags = {"SYN"}
           /\ p = Fin(p.port) => p.flags = {"FIN"}
BY DEF Syn, Fin, Handshake

LEMMA ReceivedSubset == ASSUME NEW c, NEW p PROVE Received(c, p) \subseteq c
BY DEF Received

-----------------------------------------------------------------------------
(* The window *)

\* What filling the window does to the sender, whatever the slots it starts from.
LEMMA FillWindowType ==
    ASSUME SenderType, inc \in Ports, up \subseteq UpPackets,
           NEW flight \in SUBSET in_flight, NEW st, NEW sent \in SUBSET UpPackets,
           FillWindow(flight, st, sent)
    PROVE  /\ next_seq' \in next_seq .. taken' /\ taken' \in taken .. Total
           /\ in_flight' = flight \cup (next_seq .. next_seq' - 1)
           /\ up' = up \cup sent \cup {Data(s, inc) : s \in next_seq .. next_seq' - 1}
           /\ in_flight' \subseteq 0 .. next_seq' - 1
           /\ 0 .. next_seq - 1 \subseteq 0 .. next_seq' - 1
           /\ up' \subseteq UpPackets
<1>1. PICK k \in 0 .. Total, skip \in {0, 1} :
        /\ IF st = "Active" THEN FillChoice(flight, k, skip) ELSE k = 0 /\ skip = 0
        /\ in_flight' = flight \cup (next_seq .. next_seq + k - 1)
        /\ up' = up \cup sent \cup {Data(s, inc) : s \in next_seq .. next_seq + k - 1}
        /\ next_seq' = next_seq + k
        /\ taken' = taken + k + skip
  BY DEF FillWindow
<1>2. taken + k + skip <= Total
  BY <1>1 DEF SenderType, FillChoice, Fits
<1>3. next_seq' \in next_seq .. taken' /\ taken' \in taken .. Total
  BY <1>1, <1>2, TotalAssumption DEF SenderType
<1>4. 0 .. next_seq - 1 \subseteq 0 .. next_seq' - 1 /\ in_flight' \subseteq 0 .. next_seq' - 1
  BY <1>1, <1>3 DEF SenderType
<1>5. next_seq .. next_seq + k - 1 \subseteq Seqs
  BY <1>1, <1>3, TotalAssumption DEF SenderType, Seqs
<1>6. up' \subseteq UpPackets
  <2>1. \A s \in next_seq .. next_seq + k - 1 : Data(s, inc) \in UpPackets
    BY <1>5, UpSent
  <2> QED BY <1>1, <2>1
<1>7. next_seq' - 1 = next_seq + k - 1
  BY <1>1 DEF SenderType
<1> QED BY <1>1, <1>3, <1>4, <1>6, <1>7

\* A window filled from some of the packets in flight keeps the sender's type,
\* given what the rest of the handler does to the other variables.
LEMMA FillKeepsType ==
    ASSUME SenderType, inc \in Ports, up \subseteq UpPackets,
           NEW flight \in SUBSET in_flight, NEW st, NEW sent \in SUBSET UpPackets,
           FillWindow(flight, st, sent),
           retries' \in [Seqs -> 0 .. kMaxRetries],
           acked' \subseteq 0 .. next_seq - 1, dropped' \subseteq 0 .. next_seq - 1
    PROVE  SenderType' /\ up' \subseteq UpPackets
<1>1. /\ next_seq' \in next_seq .. taken' /\ taken' \in taken .. Total
      /\ in_flight' \subseteq 0 .. next_seq' - 1
      /\ 0 .. next_seq - 1 \subseteq 0 .. next_seq' - 1
      /\ up' \subseteq UpPackets
  BY FillWindowType
<1>2. next_seq' \in 0 .. taken' /\ taken' \in 0 .. Total
  BY <1>1, TotalAssumption DEF SenderType
<1>3. acked' \subseteq 0 .. next_seq' - 1 /\ dropped' \subseteq 0 .. next_seq' - 1
  BY <1>1
<1> QED BY <1>1, <1>2, <1>3 DEF SenderType

\* Filling the window sends datagrams of the sending process only.
LEMMA FillSends ==
    ASSUME SenderType, inc \in Ports, up \subseteq UpPackets,
           NEW flight \in SUBSET in_flight, NEW st, NEW sent \in SUBSET UpPackets,
           \A q \in sent : q.port = inc,
           FillWindow(flight, st, sent)
    PROVE  \A q \in up' : q \in up \/ q.port = inc
<1> SUFFICES ASSUME NEW q \in up', q \notin up, q \notin sent
             PROVE  q.port = inc
  OBVIOUS
<1>1. up' = up \cup sent \cup {Data(s, inc) : s \in next_seq .. next_seq' - 1}
  BY FillWindowType
<1>2. PICK s \in next_seq .. next_seq' - 1 : q = Data(s, inc)
  BY <1>1
<1> QED BY <1>2, PacketFields

-----------------------------------------------------------------------------
(* Type correctness *)

NetType == up \subseteq UpPackets /\ down \subseteq DownPackets

\* The parts of the type that a sending process keeps.
SendingType == ControlType /\ SenderType /\ NetType

\* Every step of a sending process keeps its own variables, and the network,
\* within their types.
LEMMA InitiatorType ==
    ASSUME SendingType,
           \/ Launch \/ Exit \/ HandshakeTick \/ RetryLimit \/ Tick
           \/ \E p \in down :
                \/ /\ running /\ p.port = inc
                   /\ OnSynAck(p) \/ OnFinAck(p) \/ OnAck(p)
                      \/ \E late \in BOOLEAN : OnNack(p, late)
                \/ ToDeadPort(p)
    PROVE  SendingType'
<1> USE DEF SendingType
<1>a. running => inc \in Ports
  BY MaxIncAssumption DEF ControlType, Ports
<1>b. in_flight \subseteq Seqs
  BY TotalAssumption DEF SenderType, Seqs
<1>c. retries \in [Seqs -> 0 .. kMaxRetries] /\ 0 \in 0 .. kMaxRetries
  BY RetriesAssumption DEF SenderType
<1>1. CASE Launch
  <2>1. inc + 1 \in Ports
    BY <1>1, MaxIncAssumption DEF Launch, ControlType, Ports
  <2>2. NetType'
    BY <1>1, <2>1, UpSent DEF Launch, NetType
  <2>3. retries' \in [Seqs -> 0 .. kMaxRetries]
    BY <1>1, RetriesAssumption DEF Launch
  <2>4. SenderType'
    BY <1>1, <2>3, TotalAssumption DEF Launch, SenderType
  <2>5. ControlType'
    <3>1. inc' \in 0 .. MaxInc /\ inc' > 0 /\ hs_retries' \in 0 .. kMaxRetries
      BY <1>1, MaxIncAssumption, RetriesAssumption DEF Launch, ControlType
    <3> QED BY <1>1, <3>1 DEF Launch, ControlType
  <2> QED BY <2>2, <2>4, <2>5
<1>2. CASE Exit
  BY <1>2 DEF Exit, ControlType, SenderType, NetType, senderVars, wireVars
<1>3. CASE HandshakeTick
  <2>1. NetType'
    BY <1>3, <1>a, UpSent DEF HandshakeTick, NetType
  <2>2. ControlType'
    <3>1. CASE hs_retries = kMaxRetries
      BY <1>3, <3>1 DEF HandshakeTick, ControlType
    <3>2. CASE hs_retries # kMaxRetries
      <4>1. hs_retries' \in 0 .. kMaxRetries
        BY <1>3, <3>2, RetriesAssumption DEF HandshakeTick, ControlType
      <4> QED BY <1>3, <3>2, <4>1 DEF HandshakeTick, ControlType
    <3> QED BY <3>1, <3>2
  <2>3. SenderType'
    BY <1>3 DEF HandshakeTick, SenderType, senderVars
  <2> QED BY <2>1, <2>2, <2>3
<1>4. CASE RetryLimit
  BY <1>4 DEF RetryLimit, ControlType, SenderType, NetType, senderVars, wireVars
<1>5. CASE Tick
  <2>1. PICK expired \in ExpiredSets : \E late \in SUBSET expired :
          /\ \A s \in expired : retries[s] < kMaxRetries
          /\ retries' = [s \in Seqs |-> IF s \in late THEN 0
                                        ELSE IF s \in expired THEN retries[s] + 1
                                        ELSE retries[s]]
          /\ dropped' = dropped \cup late
          /\ FillWindow(in_flight \ late, istate, {Data(s, inc) : s \in expired \ late})
    BY <1>5 DEF Tick
  <2>2. PICK late \in SUBSET expired :
          /\ \A s \in expired : retries[s] < kMaxRetries
          /\ retries' = [s \in Seqs |-> IF s \in late THEN 0
                                        ELSE IF s \in expired THEN retries[s] + 1
                                        ELSE retries[s]]
          /\ dropped' = dropped \cup late
          /\ FillWindow(in_flight \ late, istate, {Data(s, inc) : s \in expired \ late})
    BY <2>1
  <2>3. expired \subseteq in_flight
    BY DEF ExpiredSets
  <2>4. {Data(s, inc) : s \in expired \ late} \subseteq UpPackets
    <3>1. \A s \in Seqs : Data(s, inc) \in UpPackets
      BY <1>5, <1>a, UpSent DEF Tick
    <3> QED BY <1>b, <2>3, <3>1
  <2>5. retries' \in [Seqs -> 0 .. kMaxRetries]
    BY <1>b, <2>2, <2>3, RetriesAssumption DEF SenderType
  <2>6. acked' = acked /\ down' = down /\ UNCHANGED controlVars /\ running
    BY <1>5 DEF Tick
  <2>7. acked' \subseteq 0 .. next_seq - 1 /\ dropped' \subseteq 0 .. next_seq - 1
    BY <2>2, <2>3, <2>6 DEF SenderType
  <2>8. SenderType' /\ up' \subseteq UpPackets
    BY <1>a, <2>2, <2>4, <2>5, <2>6, <2>7, FillKeepsType DEF NetType
  <2>9. ControlType'
    BY <2>6 DEF ControlType, controlVars
  <2> QED BY <2>6, <2>8, <2>9 DEF NetType
<1>6. ASSUME NEW p \in down, running, OnSynAck(p) PROVE SendingType'
  <2>1. /\ UNCHANGED <<inc, running, ifailed, fin_sent, hs_retries>>
        /\ down' \subseteq DownPackets /\ {HsAck(inc)} \subseteq UpPackets
    BY <1>6, <1>a, UpSent, ReceivedSubset DEF OnSynAck, NetType
  <2>2. CASE istate = "Handshaking"
    <3>1. /\ istate' = "Active" /\ UNCHANGED <<retries, acked, dropped>>
          /\ FillWindow(in_flight, "Active", {HsAck(inc)})
      BY <1>6, <2>2 DEF OnSynAck
    <3>2. retries' \in [Seqs -> 0 .. kMaxRetries] /\ acked' \subseteq 0 .. next_seq - 1
          /\ dropped' \subseteq 0 .. next_seq - 1
      BY <3>1 DEF SenderType
    <3>3. SenderType' /\ up' \subseteq UpPackets
      BY <1>6, <1>a, <2>1, <3>1, <3>2, FillKeepsType DEF NetType
    <3> QED BY <2>1, <3>1, <3>3 DEF ControlType, NetType
  <2>3. CASE istate # "Handshaking"
    <3>1. UNCHANGED <<istate, senderVars>> /\ up' = up \cup {HsAck(inc)}
      BY <1>6, <2>3 DEF OnSynAck
    <3> QED BY <2>1, <3>1 DEF ControlType, SenderType, NetType, senderVars
  <2> QED BY <2>2, <2>3
<1>7. ASSUME NEW p \in down, running, OnFinAck(p) PROVE SendingType'
  BY <1>7, ReceivedSubset DEF OnFinAck, ControlType, SenderType, NetType, senderVars
<1>8. ASSUME NEW p \in down, running, OnAck(p) PROVE SendingType'
  <2> DEFINE flight == in_flight \ {p.seq}
  <2>1. down' \subseteq DownPackets /\ UNCHANGED <<inc, running, ifailed, hs_retries>>
    BY <1>8, ReceivedSubset DEF OnAck, NetType
  <2>2. CASE ~Serving
    <3>1. UNCHANGED <<istate, fin_sent, senderVars, up>>
      BY <1>8, <2>2 DEF OnAck
    <3> QED BY <2>1, <3>1 DEF ControlType, SenderType, NetType, senderVars
  <2>3. CASE Serving
    <3>1. /\ retries' = [s \in Seqs |-> IF s = p.seq THEN 0 ELSE retries[s]]
          /\ acked' = acked \cup (in_flight \cap {p.seq}) /\ UNCHANGED dropped
      BY <1>8, <2>3 DEF OnAck
    <3>2. /\ retries' \in [Seqs -> 0 .. kMaxRetries] /\ acked' \subseteq 0 .. next_seq - 1
          /\ dropped' \subseteq 0 .. next_seq - 1
      <4>1. retries' \in [Seqs -> 0 .. kMaxRetries]
        BY <3>1, <1>c
      <4>2. acked' \subseteq 0 .. next_seq - 1 /\ dropped' \subseteq 0 .. next_seq - 1
        BY <3>1 DEF SenderType
      <4> QED BY <4>1, <4>2
    <3>3. CASE Done(flight) /\ ~fin_sent
      <4>1. /\ fin_sent' = TRUE /\ istate' = "Closing" /\ in_flight' = flight
            /\ up' = up \cup {Fin(inc)} /\ UNCHANGED <<next_seq, taken>>
        BY <1>8, <2>3, <3>3 DEF OnAck
      <4>2. up' \subseteq UpPackets
        BY <4>1, <1>8, <1>a, UpSent DEF NetType
      <4>3. SenderType'
        BY <4>1, <3>2 DEF SenderType
      <4> QED BY <4>1, <4>2, <4>3, <2>1 DEF ControlType, NetType
    <3>4. CASE ~(Done(flight) /\ ~fin_sent)
      <4>1. FillWindow(flight, istate, {}) /\ UNCHANGED <<istate, fin_sent>>
        BY <1>8, <2>3, <3>4 DEF OnAck
      <4>2. SenderType' /\ up' \subseteq UpPackets
        BY <1>8, <1>a, <3>2, <4>1, FillKeepsType DEF NetType
      <4> QED BY <4>1, <4>2, <2>1 DEF ControlType, NetType
    <3> QED BY <3>3, <3>4
  <2> QED BY <2>2, <2>3
<1>9. ASSUME NEW p \in down, running, NEW late \in BOOLEAN, OnNack(p, late)
      PROVE  SendingType'
  <2>1. down' \subseteq DownPackets /\ UNCHANGED <<controlVars, next_seq, taken, acked>>
    BY <1>9, ReceivedSubset DEF OnNack, NetType
  <2>2. ControlType'
    BY <2>1 DEF ControlType, controlVars
  <2>3. CASE UNCHANGED <<in_flight, retries, dropped, up>>
    BY <2>1, <2>2, <2>3 DEF SenderType, NetType
  <2>4. CASE /\ p.seq \in in_flight /\ in_flight' = in_flight \ {p.seq}
             /\ retries' = [retries EXCEPT ![p.seq] = 0]
             /\ dropped' = dropped \cup {p.seq}
             /\ UNCHANGED up
    <3>1. retries' \in [Seqs -> 0 .. kMaxRetries]
      BY <1>b, <1>c, <2>4
    <3> QED BY <2>1, <2>2, <2>4, <3>1 DEF SenderType, NetType
  <2>5. CASE /\ p.seq \in in_flight
             /\ retries' = [retries EXCEPT ![p.seq] = OneMore(@)]
             /\ up' = up \cup {Data(p.seq, inc)}
             /\ UNCHANGED <<in_flight, dropped>>
    <3>1. up' \subseteq UpPackets
      BY <1>b, <2>5, <1>9, <1>a, UpSent DEF NetType
    <3>2. retries' \in [Seqs -> 0 .. kMaxRetries]
      <4>1. p.seq \in Seqs
        BY <1>b, <2>5
      <4>2. OneMore(retries[p.seq]) \in 0 .. kMaxRetries
        BY <1>c, <4>1, RetriesAssumption DEF OneMore
      <4> QED BY <1>c, <2>5, <4>2
    <3> QED BY <2>1, <2>2, <2>5, <3>1, <3>2 DEF SenderType, NetType
  <2> QED BY <1>9, <2>3, <2>4, <2>5 DEF OnNack
<1>10. ASSUME NEW p \in down, ToDeadPort(p) PROVE SendingType'
  BY <1>10, ReceivedSubset
  DEF ToDeadPort, ControlType, SenderType, NetType, initiatorVars, controlVars, senderVars
<1> QED BY <1>1, <1>2, <1>3, <1>4, <1>5, <1>6, <1>7, <1>8, <1>9, <1>10
\* A run of deliverable packets, the expected one first, ends at a sequence
\* number that may be expected next.
LEMMA RunEndType ==
    ASSUME ReceiverType, NEW p \in DataPackets, p.seq = next_expected,
           NEW n \in next_expected + 1 .. next_expected + kSendWindow, RunEnd(Held(p), n)
    PROVE  /\ n \in 0 .. Total /\ n > next_expected
           /\ \A s \in next_expected .. n - 1 : s \in Seqs
           /\ Held(p) = reorder \cup {p}
<1>1. Held(p) = reorder \cup {p}
  BY DEF ReceiverType, Held, Holds
<1>2. next_expected \in Nat /\ n \in Nat /\ n - 1 \in next_expected .. n - 1
  BY TotalAssumption, WindowAssumption DEF ReceiverType
<1>3. ASSUME NEW s \in next_expected .. n - 1 PROVE s \in Seqs
  <2>1. PICK q \in Held(p) : q.seq = s
    BY DEF RunEnd, Holds
  <2>2. q \in DataPackets
    BY <1>1 DEF ReceiverType
  <2> QED BY <2>1, <2>2, DataPacket
<1>4. n - 1 \in Seqs
  BY <1>2, <1>3
<1> QED BY <1>1, <1>2, <1>3, <1>4, TotalAssumption DEF Seqs

\* The parts of the type that the listening process keeps.
ListeningType == ListenerControlType /\ ReceiverType /\ NetType

LEMMA DataType ==
    ASSUME ListeningType, NEW p \in up, OnData(p)
    PROVE  ListeningType'
<1> USE DEF ListeningType
<1>1. p \in DataPackets /\ p.port \in Ports /\ p.seq \in Seqs
  BY UpPacket, DataPacket DEF OnData, NetType
<1>2. next_expected \in 0 .. Total /\ next_expected \in Nat /\ p.seq \in Nat
      /\ Seqs \subseteq 0 .. Total
  BY <1>1, TotalAssumption DEF ReceiverType, Seqs
<1>3. up' \subseteq UpPackets
  BY ReceivedSubset DEF OnData, NetType
<1>4. ListenerControlType'
  <2>1. peer' \in Ports /\ peer' \in 0 .. MaxInc
    BY <1>1, MaxIncAssumption DEF OnData, Ports
  <2>2. lstate' \in {"Handshaking", "Active", "Closing", "Closed"}
    BY DEF OnData, AfterData, ListenerControlType
  <2> QED BY <2>1, <2>2 DEF OnData, ListenerControlType
<1>5. \A s \in Seqs : Ack(s, p.port) \in DownPackets
  BY <1>1, DownSent
<1>6. Nack(next_expected, p.port) \in DownPackets
  BY <1>1, <1>2, DownSent
<1>7. CASE Discard(p)
  BY <1>3, <1>4, <1>7 DEF Discard, ReceiverType, receiverVars, NetType
<1>8. CASE Reacknowledge(p)
  BY <1>1, <1>3, <1>4, <1>5, <1>8 DEF Reacknowledge, ReceiverType, receiverVars, NetType
<1>9. CASE BeyondWindow(p)
  BY <1>3, <1>4, <1>6, <1>9 DEF BeyondWindow, ReceiverType, receiverVars, NetType
<1>10. CASE Hold(p)
  <2>1. /\ reorder' = Held(p) /\ down' = down \cup {Nack(next_expected, p.port)}
        /\ UNCHANGED <<next_expected, sources, got>>
        /\ p.seq > next_expected /\ p.seq < next_expected + kSendWindow
    BY <1>10 DEF Hold
  <2>2. down' \subseteq DownPackets
    BY <1>6, <2>1 DEF NetType
  <2>3. CASE Holds(reorder, p.seq)
    BY <1>3, <1>4, <2>1, <2>2, <2>3 DEF Held, ReceiverType, NetType
  <2>4. CASE ~Holds(reorder, p.seq)
    <3>1. reorder' = reorder \cup {p} /\ \A q \in reorder : q.seq # p.seq
      BY <2>1, <2>4 DEF Held, Holds
    <3> QED BY <1>1, <1>3, <1>4, <2>1, <2>2, <3>1 DEF ReceiverType, NetType
  <2> QED BY <2>3, <2>4
<1>11. CASE Deliver(p)
  <2>0. p.seq = next_expected
    BY <1>11 DEF Deliver
  <2>1. PICK n \in next_expected + 1 .. next_expected + kSendWindow :
          /\ RunEnd(Held(p), n)
          /\ reorder' = Held(p) \ {q \in Held(p) : q.seq < n}
          /\ sources' = sources \cup {q.port : q \in {r \in Held(p) : r.seq < n}}
          /\ got' = got \cup {<<q.port, q.seq>> : q \in {r \in Held(p) : r.seq < n}}
          /\ down' = down \cup {Ack(s, p.port) : s \in next_expected .. n - 1}
          /\ next_expected' = n
    BY <1>11 DEF Deliver
  <2>2. /\ n \in 0 .. Total /\ n > next_expected
        /\ \A s \in next_expected .. n - 1 : s \in Seqs
        /\ Held(p) = reorder \cup {p}
    BY <1>1, <2>0, <2>1, RunEndType
  <2>3. down' \subseteq DownPackets
    BY <1>5, <2>1, <2>2 DEF NetType
  <2>4. Held(p) \subseteq DataPackets
    BY <1>1, <2>2 DEF ReceiverType
  <2>5. sources' \subseteq Ports /\ got' \subseteq Ports \X Seqs
    BY <2>1, <2>4, DataPacket DEF ReceiverType
  <2>6. reorder' \subseteq reorder
    BY <1>2, <2>0, <2>1, <2>2
  <2>7. \A q \in reorder' : q.seq > n /\ q.seq < n + kSendWindow
    <3> SUFFICES ASSUME NEW q \in reorder' PROVE q.seq > n /\ q.seq < n + kSendWindow
      OBVIOUS
    <3>1. q \in reorder /\ q.seq \in Nat /\ ~(q.seq < n) /\ q.seq < next_expected + kSendWindow
      BY <2>1, <2>4, <2>6, DataPacket, TotalAssumption DEF ReceiverType, Seqs
    <3>2. q.seq # n
      BY <2>1 DEF RunEnd, Holds
    <3> QED BY <1>2, <2>2, <3>1, <3>2, WindowAssumption
  <2>8. ReceiverType'
    BY <2>1, <2>2, <2>5, <2>6, <2>7 DEF ReceiverType
  <2> QED BY <1>3, <1>4, <2>3, <2>8 DEF NetType
<1> QED BY <1>7, <1>8, <1>9, <1>10, <1>11 DEF OnData

\* Every step of the listening process keeps its own variables, and the
\* network, within their types.
LEMMA ListenerStepType ==
    ASSUME ListeningType,
           \/ \E p \in up : OnSyn(p) \/ OnHsAck(p) \/ OnFin(p) \/ OnData(p)
           \/ SynAckTick \/ ListenerRestart
    PROVE  ListeningType'
<1> USE DEF ListeningType
<1>a. \A p \in up : p.port \in Ports /\ p.port \in 0 .. MaxInc
  BY UpPacket, MaxIncAssumption DEF NetType, Ports
<1>1. ASSUME NEW p \in up, OnSyn(p) PROVE ListeningType'
  <2>1. NetType'
    BY <1>1, <1>a, DownSent, ReceivedSubset DEF OnSyn, NetType
  <2>2. ReceiverType'
    BY <1>1, TotalAssumption DEF OnSyn, ReceiverType
  <2>3. ListenerControlType'
    <3>1. 0 \in 0 .. kMaxRetries
      BY RetriesAssumption
    <3> QED BY <1>1, <1>a, <3>1 DEF OnSyn, ListenerControlType
  <2> QED BY <2>1, <2>2, <2>3
<1>2. ASSUME NEW p \in up, OnHsAck(p) PROVE ListeningType'
  <2>1. NetType' /\ ReceiverType'
    BY <1>2, ReceivedSubset DEF OnHsAck, NetType, ReceiverType, receiverVars
  <2>2. ListenerControlType'
    BY <1>2, <1>a DEF OnHsAck, ListenerControlType
  <2> QED BY <2>1, <2>2
<1>3. ASSUME NEW p \in up, OnFin(p) PROVE ListeningType'
  <2>1. NetType'
    BY <1>3, <1>a, DownSent, ReceivedSubset DEF OnFin, NetType
  <2>2. ReceiverType'
    BY <1>3 DEF OnFin, ReceiverType, receiverVars
  <2>3. ListenerControlType'
    BY <1>3, <1>a DEF OnFin, ListenerControlType
  <2> QED BY <2>1, <2>2, <2>3
<1>4. CASE SynAckTick
  <2>1. NetType'
    BY <1>4, DownSent DEF SynAckTick, NetType, ListenerControlType
  <2>2. ReceiverType'
    BY <1>4 DEF SynAckTick, ReceiverType, receiverVars
  <2>3. lhs_retries' \in 0 .. kMaxRetries
    BY <1>4, RetriesAssumption DEF SynAckTick, ListenerControlType
  <2>4. ListenerControlType'
    BY <1>4, <2>3 DEF SynAckTick, ListenerControlType
  <2> QED BY <2>1, <2>2, <2>4
<1>5. CASE ListenerRestart
  <2>1. NetType' /\ ReceiverType'
    BY <1>5, TotalAssumption DEF ListenerRestart, ReceiverType, NetType, wireVars
  <2>2. ListenerControlType'
    <3>1. 0 \in 0 .. kMaxRetries /\ 0 \in 0 .. MaxInc
      BY RetriesAssumption, MaxIncAssumption
    <3>2. restarts' \in 0 .. MaxRestarts
      BY <1>5, RestartsAssumption DEF ListenerRestart, ListenerControlType
    <3> QED BY <1>5, <3>1, <3>2 DEF ListenerRestart, ListenerControlType
  <2> QED BY <2>1, <2>2
<1> QED BY <1>1, <1>2, <1>3, <1>4, <1>5, DataType

\* Whatever the constants, and whatever the network does, every variable keeps
\* its type; in particular no sequence number beyond the transfer is ever sent,
\* expected, held or acknowledged, and the receiver holds at most one packet of
\* a sequence number, only within its window (session.cpp:351-360).
THEOREM TypeCorrect == Spec => []TypeOK
<1>1. Init => TypeOK
  <2> SUFFICES ASSUME Init PROVE TypeOK
    OBVIOUS
  <2>1. /\ 0 \in 0 .. kMaxRetries /\ 0 \in 0 .. MaxInc /\ 0 \in 0 .. Total
        /\ 0 \in 0 .. MaxRestarts /\ 0 \in 0 .. MaxLoss /\ 0 \in 0 .. 2 * MaxInc + 1
    BY MaxIncAssumption, TotalAssumption, RetriesAssumption, RestartsAssumption, LossAssumption
  <2>2. ControlType
    BY <2>1 DEF Init, IInit, ControlType
  <2>3. SenderType
    <3>1. retries \in [Seqs -> 0 .. kMaxRetries]
      BY <2>1 DEF Init, IInit
    <3> QED BY <2>1, <3>1 DEF Init, IInit, SenderType
  <2>4. LTypeOK
    BY <2>1 DEF Init, LInit, LTypeOK, ListenerControlType, ReceiverType
  <2> QED BY <2>1, <2>2, <2>3, <2>4 DEF Init, TypeOK, ITypeOK
<1>2. TypeOK /\ [Next]_vars => TypeOK'
  <2> SUFFICES ASSUME TypeOK, [Next]_vars PROVE TypeOK'
    OBVIOUS
  <2> USE DEF TypeOK, ITypeOK, LTypeOK, SendingType, ListeningType, NetType
  <2>1. ASSUME NEW p \in up, ListenerReceives(p) PROVE TypeOK'
    <3>1. ListeningType'
      BY <2>1, ListenerStepType DEF ListenerReceives
    <3>2. EpochOf(p) \in 0 .. 2 * MaxInc + 1
      BY UpPacket, MaxIncAssumption DEF EpochOf, Ports
    <3>3. ITypeOK'
      BY <2>1 DEF ListenerReceives, initiatorVars, controlVars, senderVars, ControlType, SenderType
    <3> QED BY <2>1, <3>1, <3>2, <3>3 DEF ListenerReceives
  <2>2. ASSUME NEW p \in down, InitiatorReceives(p) PROVE TypeOK'
    <3>1. SendingType'
      BY <2>2, InitiatorType DEF InitiatorReceives
    <3>2. LTypeOK'
      BY <2>2 DEF InitiatorReceives, listenerVars, receiverVars, ListenerControlType, ReceiverType
    <3> QED BY <2>2, <3>1, <3>2 DEF InitiatorReceives
  <2>3. CASE Lose
    <3>1. up' \subseteq up /\ down' \subseteq down /\ losses' \in 0 .. MaxLoss /\ epoch' = epoch
      BY <2>3, LossAssumption DEF Lose
    <3>2. ITypeOK' /\ LTypeOK'
      BY <2>3 DEF Lose, initiatorVars, controlVars, senderVars, ControlType, SenderType,
                  listenerVars, receiverVars, ListenerControlType, ReceiverType
    <3> QED BY <3>1, <3>2
  <2>4. CASE InitiatorSteps
    <3>1. SendingType'
      BY <2>4, InitiatorType DEF InitiatorSteps
    <3>2. LTypeOK'
      BY <2>4 DEF InitiatorSteps, listenerVars, receiverVars, ListenerControlType, ReceiverType
    <3> QED BY <2>4, <3>1, <3>2 DEF InitiatorSteps
  <2>5. CASE ListenerSteps
    <3>1. ListeningType'
      BY <2>5, ListenerStepType DEF ListenerSteps
    <3>2. ITypeOK'
      BY <2>5 DEF ListenerSteps, initiatorVars, controlVars, senderVars, ControlType, SenderType
    <3> QED BY <2>5, <3>1, <3>2 DEF ListenerSteps
  <2>6. CASE UNCHANGED vars
    BY <2>6 DEF vars, initiatorVars, controlVars, senderVars, ControlType, SenderType,
                listenerVars, receiverVars, ListenerControlType, ReceiverType, wireVars
  <2> QED BY <2>1, <2>2, <2>3, <2>4, <2>5, <2>6 DEF Next
<1> QED BY <1>1, <1>2, PTL DEF Spec
-----------------------------------------------------------------------------
(* An acknowledged packet was delivered *)

\* The links AckSound is claimed for: no datagram overtakes one of a later
\* epoch, or only one process ever sends.
OrderedEpochs == ~Overtaking \/ MaxInc = 1

\* A sending process puts only datagrams of its own on the wire, and once its
\* handshake is over, acknowledges only what an ACK to its own port names.
LEMMA InitiatorEffect ==
    ASSUME TypeOK, HeardFirst,
           \/ Launch \/ Exit \/ HandshakeTick \/ RetryLimit \/ Tick
           \/ \E p \in down :
                \/ /\ running /\ p.port = inc
                   /\ OnSynAck(p) \/ OnFinAck(p) \/ OnAck(p)
                      \/ \E late \in BOOLEAN : OnNack(p, late)
                \/ ToDeadPort(p)
    PROVE  /\ \A q \in up' : q \in up \/ q.flags = {"SYN"} \/ (q.port = inc /\ Heard(inc))
           /\ down' \subseteq down
           /\ istate' \in {"Active", "Closing"} => inc' = inc /\ Heard(inc)
           /\ \/ inc' = inc /\ acked' \subseteq acked
              \/ acked' = {}
              \/ \E p \in down : /\ p.type = "Ack" /\ p.port = inc /\ inc' = inc
                                 /\ acked' \subseteq acked \cup {p.seq}
<1> USE DEF TypeOK, ITypeOK
<1>a. running => inc \in Ports
  BY MaxIncAssumption DEF ControlType, Ports
<1>b. Serving => Heard(inc)
  BY DEF Serving, HeardFirst
<1>1. CASE Launch
  BY <1>1, PacketFields DEF Launch
<1>2. CASE Exit
  BY <1>2, <1>b DEF Exit, senderVars, wireVars, Serving
<1>3. CASE HandshakeTick
  BY <1>3, PacketFields DEF HandshakeTick, senderVars
<1>4. CASE RetryLimit
  BY <1>4 DEF RetryLimit, senderVars, wireVars
<1>5. CASE Tick
  <2>0. Serving /\ inc \in Ports /\ Heard(inc)
    BY <1>5, <1>a, <1>b DEF Tick
  <2>1. PICK expired \in ExpiredSets : \E late \in SUBSET expired :
          FillWindow(in_flight \ late, istate, {Data(s, inc) : s \in expired \ late})
    BY <1>5 DEF Tick
  <2>2. PICK late \in SUBSET expired :
          FillWindow(in_flight \ late, istate, {Data(s, inc) : s \in expired \ late})
    BY <2>1
  <2>3. expired \subseteq Seqs
    BY TotalAssumption DEF ExpiredSets, SenderType, Seqs
  <2>4. {Data(s, inc) : s \in expired \ late} \in SUBSET UpPackets
    BY <2>0, <2>3, UpSent
  <2>5. \A q \in {Data(s, inc) : s \in expired \ late} : q.port = inc
    BY PacketFields
  <2>6. \A q \in up' : q \in up \/ q.port = inc
    BY <2>0, <2>2, <2>4, <2>5, FillSends
  <2> QED BY <1>5, <2>0, <2>6 DEF Tick, controlVars
<1>6. ASSUME NEW p \in down, running, p.port = inc, OnSynAck(p)
      PROVE  /\ \A q \in up' : q \in up \/ q.port = inc
             /\ Heard(inc) /\ inc' = inc /\ acked' = acked /\ down' \subseteq down
  <2>1. Heard(inc) /\ inc' = inc /\ down' \subseteq down
    BY <1>6, ReceivedSubset DEF OnSynAck, HeardFirst
  <2>2. CASE istate = "Handshaking"
    <3>1. FillWindow(in_flight, "Active", {HsAck(inc)}) /\ acked' = acked
      BY <1>6, <2>2 DEF OnSynAck
    <3>2. {HsAck(inc)} \in SUBSET UpPackets /\ HsAck(inc).port = inc
      <4>1. inc \in Ports
        BY <1>6, <1>a
      <4>2. {HsAck(inc)} \in SUBSET UpPackets
        BY <4>1, UpSent
      <4> QED BY <4>2, PacketFields
    <3>3. \A q \in up' : q \in up \/ q.port = inc
      BY <1>6, <1>a, <3>1, <3>2, FillSends
    <3> QED BY <2>1, <3>1, <3>3
  <2>3. CASE istate # "Handshaking"
    <3>1. acked' = acked /\ up' = up \cup {HsAck(inc)}
      BY <1>6, <2>3 DEF OnSynAck, senderVars
    <3>2. HsAck(inc).port = inc
      BY PacketFields
    <3>3. \A q \in up' : q \in up \/ q.port = inc
      BY <3>1, <3>2
    <3> QED BY <2>1, <3>1, <3>3
  <2> QED BY <2>2, <2>3
<1>7. ASSUME NEW p \in down, OnFinAck(p)
      PROVE  up' = up /\ istate' = "Closed" /\ inc' = inc /\ acked' = acked /\ down' \subseteq down
  BY <1>7, ReceivedSubset DEF OnFinAck, senderVars
<1>8. ASSUME NEW p \in down, running, p.port = inc, OnAck(p)
      PROVE  /\ \A q \in up' : q \in up \/ (q.port = inc /\ Heard(inc))
             /\ inc' = inc /\ acked' \subseteq acked \cup {p.seq} /\ down' \subseteq down
             /\ p.type = "Ack"
             /\ istate' \in {"Active", "Closing"} => Heard(inc)
  <2>1. inc' = inc /\ down' \subseteq down /\ p.type = "Ack"
    BY <1>8, ReceivedSubset DEF OnAck
  <2>2. CASE ~Serving
    BY <1>8, <2>1, <2>2 DEF OnAck, senderVars, Serving
  <2>3. CASE Serving
    <3>1. acked' \subseteq acked \cup {p.seq} /\ Heard(inc)
      BY <1>8, <1>b, <2>3 DEF OnAck
    <3>2. up' = up \cup {Fin(inc)} \/ FillWindow(in_flight \ {p.seq}, istate, {})
      BY <1>8, <2>3 DEF OnAck
    <3>3. CASE up' = up \cup {Fin(inc)}
      BY <2>1, <3>1, <3>3, PacketFields
    <3>4. CASE FillWindow(in_flight \ {p.seq}, istate, {})
      <4>1. \A q \in up' : q \in up \/ q.port = inc
        BY <1>8, <1>a, <3>4, FillSends
      <4> QED BY <2>1, <3>1, <4>1
    <3> QED BY <3>2, <3>3, <3>4
  <2> QED BY <2>2, <2>3
<1>9. ASSUME NEW p \in down, NEW late \in BOOLEAN, OnNack(p, late)
      PROVE  /\ \A q \in up' : q \in up \/ (q.port = inc /\ Heard(inc))
             /\ inc' = inc /\ istate' = istate /\ acked' = acked /\ down' \subseteq down
  <2>1. inc' = inc /\ istate' = istate /\ acked' = acked /\ down' \subseteq down
    BY <1>9, ReceivedSubset DEF OnNack, controlVars
  <2>2. up' = up \/ (Serving /\ up' = up \cup {Data(p.seq, inc)})
    BY <1>9 DEF OnNack
  <2> QED BY <1>b, <2>1, <2>2, PacketFields
<1>10. ASSUME NEW p \in down, ToDeadPort(p)
       PROVE  up' = up /\ inc' = inc /\ istate' = istate /\ acked' = acked /\ down' \subseteq down
  BY <1>10, ReceivedSubset DEF ToDeadPort, initiatorVars, controlVars, senderVars
<1> QED BY <1>1, <1>2, <1>3, <1>4, <1>5, <1>6, <1>7, <1>8, <1>9, <1>10 DEF HeardFirst
\* Two processes the receive state could be about are the same.
LEMMA OneCurrent ==
    ASSUME OrderedEpochs, epoch \in Nat, NEW i \in Ports, NEW j \in Ports, Current(i), Current(j)
    PROVE  i = j
BY MaxIncAssumption DEF OrderedEpochs, Current, Ports

\* A datagram other than a SYN that is received comes from the current process;
\* so the epoch moves from one process to the next with a SYN only.
LEMMA ReceivedCurrent ==
    ASSUME TypeOK, HeardFirst, NEW p \in up, Overtaking \/ EpochOf(p) >= epoch,
           epoch' = IF Overtaking THEN epoch ELSE EpochOf(p), p.flags # {"SYN"}
    PROVE  /\ Current(p.port)
           /\ \A i \in Ports : Current(i) <=> Current(i)'
           /\ \A i \in Ports : Heard(i) <=> Heard(i)'
<1>1. p.port \in Ports /\ p.port \in Nat /\ epoch \in Nat
  BY UpPacket, MaxIncAssumption DEF TypeOK, Ports
<1>2. Heard(p.port)
  BY DEF HeardFirst
<1>3. EpochOf(p) = 2 * p.port + 1
  BY DEF EpochOf
<1>4. Current(p.port)
  BY <1>1, <1>2, <1>3 DEF Heard, Current
<1>5. ASSUME NEW i \in Ports PROVE (Current(i) <=> Current(i)') /\ (Heard(i) <=> Heard(i)')
  BY <1>1, <1>2, <1>3 DEF Heard, Current, Ports
<1> QED BY <1>4, <1>5

\* A datagram the listener receives takes the invariant to the next state.
LEMMA ListenerKeepsDelivery ==
    ASSUME TypeOK, TypeOK', OrderedEpochs, DeliveryInv, NEW p \in up, ListenerReceives(p)
    PROVE  DeliveryInv'
<1> USE DEF DeliveryInv
<1>a. /\ Overtaking \/ EpochOf(p) >= epoch
      /\ epoch' = IF Overtaking THEN epoch ELSE EpochOf(p)
      /\ UNCHANGED <<inc, istate, acked>>
      /\ epoch \in Nat /\ epoch' \in Nat
  BY MaxIncAssumption DEF ListenerReceives, initiatorVars, controlVars, senderVars, TypeOK
<1>b. p.port \in Ports /\ p.port \in Nat /\ \A i \in Ports : i \in Nat
  BY UpPacket, MaxIncAssumption DEF TypeOK, Ports
<1>c. \A q \in up \cup down : q.port \in Ports
  BY UpPacket, DownPacket DEF TypeOK
<1>d. up' \subseteq up /\ peer' = p.port
  BY ReceivedSubset DEF ListenerReceives, OnSyn, OnHsAck, OnFin, OnData
<1>e. \A i \in Nat : Heard(i) => Heard(i)'
  BY <1>a DEF Heard
<1>f. inc \in Nat /\ peer \in Nat
  BY MaxIncAssumption DEF TypeOK, ITypeOK, ControlType, LTypeOK, ListenerControlType
<1>1. CASE OnSyn(p)
  <2>1. /\ EpochOf(p) = 2 * p.port
        /\ next_expected' = 0 /\ reorder' = {} /\ sources' = {} /\ got' = got
        /\ down' = down \cup {SynAck(p.port)}
    <3>1. p.flags = {"SYN"}
      BY <1>1, HandshakeFlags DEF OnSyn
    <3> QED BY <1>1, <3>1 DEF OnSyn, EpochOf
  <2>3. Heard(p.port)'
    BY <1>a, <1>b, <2>1 DEF Heard
  <2>4. SynAck(p.port).port = p.port /\ SynAck(p.port).type # "Ack"
    BY PacketFields
  <2>6. HeardFirst'
    BY <1>a, <1>b, <1>c, <1>d, <1>e, <1>f, <2>1, <2>3, <2>4 DEF HeardFirst
  <2>7. ReceivesCurrent'
    BY <2>1 DEF ReceivesCurrent
  <2>8. AcksDelivered'
    BY <1>a, <2>1, <2>4 DEF AcksDelivered, AckSound
  <2> QED BY <2>6, <2>7, <2>8
<1>2. CASE p.flags # {"SYN"}
  <2>1. /\ Current(p.port) /\ Heard(p.port)'
        /\ \A i \in Ports : Current(i) <=> Current(i)'
        /\ \A i \in Ports : Heard(i) <=> Heard(i)'
    <3>1. Heard(p.port)
      BY <1>2 DEF HeardFirst
    <3> QED BY <1>2, <1>a, <1>b, <3>1, ReceivedCurrent
  <2>2. UNCHANGED receiverVars \/ Hold(p) \/ Deliver(p)
    <3>1. ~OnSyn(p)
      BY <1>2, HandshakeFlags DEF OnSyn
    <3>2. OnHsAck(p) \/ OnFin(p) \/ OnData(p)
      BY <3>1 DEF ListenerReceives
    <3>3. OnHsAck(p) \/ OnFin(p) => UNCHANGED receiverVars
      BY DEF OnHsAck, OnFin
    <3>4. OnData(p) => UNCHANGED receiverVars \/ Hold(p) \/ Deliver(p)
      BY DEF OnData, Discard, Reacknowledge, BeyondWindow
    <3> QED BY <3>2, <3>3, <3>4
  <2>3. ReceivesCurrent' /\ got \subseteq got'
    <3>1. CASE UNCHANGED receiverVars
      <4>1. \A q \in reorder : q.port \in Ports
        BY DataPacket DEF TypeOK, LTypeOK, ReceiverType
      <4>2. \A i \in sources : i \in Ports
        BY DEF TypeOK, LTypeOK, ReceiverType
      <4> QED BY <2>1, <3>1, <4>1, <4>2 DEF ReceivesCurrent, receiverVars
    <3>2. \A q \in Held(p) : q.port \in Ports /\ Current(q.port) /\ Current(q.port)'
      <4>1. Held(p) \subseteq reorder \cup {p}
        BY DEF Held
      <4>2. \A q \in reorder : q.port \in Ports /\ Current(q.port)
        BY DataPacket DEF TypeOK, LTypeOK, ReceiverType, ReceivesCurrent
      <4> QED BY <1>b, <2>1, <4>1, <4>2
    <3>3. CASE Hold(p)
      <4>1. reorder' = Held(p) /\ UNCHANGED <<next_expected, sources, got>>
        BY <3>3 DEF Hold
      <4>2. \A i \in sources : i \in Ports
        BY DEF TypeOK, LTypeOK, ReceiverType
      <4> QED BY <2>1, <3>2, <4>1, <4>2 DEF ReceivesCurrent
    <3>4. CASE Deliver(p)
      <4>1. PICK n \in next_expected + 1 .. next_expected + kSendWindow :
              /\ RunEnd(Held(p), n)
              /\ reorder' = Held(p) \ {q \in Held(p) : q.seq < n}
              /\ sources' = sources \cup {q.port : q \in {r \in Held(p) : r.seq < n}}
              /\ got' = got \cup {<<q.port, q.seq>> : q \in {r \in Held(p) : r.seq < n}}
              /\ next_expected' = n
        BY <3>4 DEF Deliver
      <4>2. next_expected \in Nat /\ n \in Nat
        BY TotalAssumption, WindowAssumption DEF TypeOK, LTypeOK, ReceiverType
      <4>3. \A q \in reorder' : Current(q.port)'
        BY <3>2, <4>1
      <4>4. \A i \in sources' : Current(i)'
        <5>1. \A i \in sources : i \in Ports /\ Current(i)
          BY DEF TypeOK, LTypeOK, ReceiverType, ReceivesCurrent
        <5> QED BY <2>1, <3>2, <4>1, <5>1
      <4>5. ASSUME NEW i \in Ports, Current(i)', NEW s \in 0 .. next_expected' - 1
            PROVE  <<i, s>> \in got'
        <5>1. Current(i)
          BY <2>1, <4>5
        <5>2. CASE s < next_expected
          <6>1. s \in 0 .. next_expected - 1
            BY <4>2, <4>5, <5>2
          <6> QED BY <4>1, <5>1, <6>1 DEF ReceivesCurrent
        <5>3. CASE ~(s < next_expected)
          <6>1. s \in next_expected .. n - 1
            BY <4>1, <4>2, <4>5, <5>3
          <6>2. PICK q \in Held(p) : q.seq = s
            BY <4>1, <6>1 DEF RunEnd, Holds
          <6>3. q.port = i
            BY <1>a, <3>2, <5>1, OneCurrent
          <6>4. q.seq < n
            BY <4>2, <6>1, <6>2
          <6> QED BY <4>1, <6>2, <6>3, <6>4
        <5> QED BY <5>2, <5>3
      <4> QED BY <4>1, <4>3, <4>4, <4>5 DEF ReceivesCurrent
    <3> QED BY <2>2, <3>1, <3>3, <3>4 DEF receiverVars, Hold, Deliver
  <2>4. ASSUME NEW q \in down', q \notin down
        PROVE  q.port = p.port /\ (q.type = "Ack" => <<q.port, q.seq>> \in got')
    <3>1. CASE OnHsAck(p)
      BY <2>4, <3>1 DEF OnHsAck
    <3>2. CASE OnFin(p)
      <4>1. q = FinAck(p.port)
        BY <2>4, <3>2 DEF OnFin
      <4> QED BY <4>1, PacketFields
    <3>3. CASE OnData(p)
      <4>1. CASE q = Nack(next_expected, p.port)
        BY <4>1, PacketFields
      <4>2. CASE Reacknowledge(p)
        <5>1. q = Ack(p.seq, p.port) /\ p.seq < next_expected
          BY <2>4, <4>2 DEF Reacknowledge
        <5>2. p.seq \in Seqs /\ next_expected \in Nat
          BY <3>3, UpPacket, TotalAssumption DEF OnData, TypeOK, LTypeOK, ReceiverType
        <5>3. p.seq \in 0 .. next_expected - 1
          BY <5>1, <5>2 DEF Seqs
        <5>4. <<p.port, p.seq>> \in got
          BY <1>b, <2>1, <5>3 DEF ReceivesCurrent
        <5> QED BY <2>3, <5>1, <5>4, PacketFields
      <4>3. CASE Deliver(p)
        <5>1. PICK n \in next_expected + 1 .. next_expected + kSendWindow :
                /\ down' = down \cup {Ack(s, p.port) : s \in next_expected .. n - 1}
                /\ next_expected' = n
          BY <4>3 DEF Deliver
        <5>a. next_expected \in Nat /\ n \in Nat
          BY TotalAssumption, WindowAssumption DEF TypeOK, LTypeOK, ReceiverType
        <5>b. PICK s \in next_expected .. n - 1 : q = Ack(s, p.port)
          BY <2>4, <5>1
        <5>2. s \in 0 .. next_expected' - 1
          BY <5>1, <5>a
        <5>3. <<p.port, s>> \in got'
          BY <1>b, <2>1, <2>3, <5>2 DEF ReceivesCurrent
        <5> QED BY <5>b, <5>3, PacketFields
      <4>4. q = Nack(next_expected, p.port) \/ Reacknowledge(p) \/ Deliver(p)
        BY <2>4, <3>3 DEF OnData, Discard, BeyondWindow, Hold
      <4> QED BY <4>1, <4>2, <4>3, <4>4
    <3>4. ~OnSyn(p)
      BY <1>2, HandshakeFlags DEF OnSyn
    <3> QED BY <3>1, <3>2, <3>3, <3>4 DEF ListenerReceives
  <2>5. HeardFirst'
    BY <1>a, <1>c, <1>d, <1>e, <1>f, <2>1, <2>4 DEF HeardFirst
  <2>6. AcksDelivered'
    BY <1>a, <2>3, <2>4 DEF AcksDelivered, AckSound
  <2> QED BY <2>3, <2>5, <2>6
<1>3. OnSyn(p) \/ p.flags # {"SYN"}
  <2>1. {"ACK"} # {"SYN"} /\ {"FIN"} # {"SYN"} /\ {} # {"SYN"}
    OBVIOUS
  <2>2. OnHsAck(p) => p.flags = {"ACK"}
    BY DEF OnHsAck
  <2>3. OnFin(p) => p.flags = {"FIN"}
    BY HandshakeFlags DEF OnFin
  <2>4. OnData(p) => p.flags = {}
    BY UpPacket, PacketFields DEF OnData, TypeOK
  <2> QED BY <2>1, <2>2, <2>3, <2>4 DEF ListenerReceives
<1> QED BY <1>1, <1>2, <1>3
\* A step that leaves the listener alone, and sends only what InitiatorEffect
\* allows, takes the invariant to the next state.
LEMMA InitiatorKeepsDelivery ==
    ASSUME TypeOK, DeliveryInv, UNCHANGED <<listenerVars, epoch>>,
           \/ Launch \/ Exit \/ HandshakeTick \/ RetryLimit \/ Tick
           \/ \E p \in down :
                \/ /\ running /\ p.port = inc
                   /\ OnSynAck(p) \/ OnFinAck(p) \/ OnAck(p)
                      \/ \E late \in BOOLEAN : OnNack(p, late)
                \/ ToDeadPort(p)
    PROVE  DeliveryInv'
<1> USE DEF DeliveryInv
<1>1. /\ \A q \in up' : q \in up \/ q.flags = {"SYN"} \/ (q.port = inc /\ Heard(inc))
      /\ down' \subseteq down
      /\ istate' \in {"Active", "Closing"} => inc' = inc /\ Heard(inc)
      /\ \/ inc' = inc /\ acked' \subseteq acked
         \/ acked' = {}
         \/ \E p \in down : /\ p.type = "Ack" /\ p.port = inc /\ inc' = inc
                            /\ acked' \subseteq acked \cup {p.seq}
  BY InitiatorEffect
<1>2. /\ UNCHANGED <<peer, reorder, sources, next_expected, got, epoch>>
      /\ \A i : (Heard(i)' <=> Heard(i)) /\ (Current(i)' <=> Current(i))
  BY DEF listenerVars, receiverVars, Heard, Current
<1>3. HeardFirst'
  BY <1>1, <1>2 DEF HeardFirst
<1>4. ReceivesCurrent'
  BY <1>2 DEF ReceivesCurrent
<1>5. AcksDelivered'
  BY <1>1, <1>2 DEF AcksDelivered, AckSound
<1> QED BY <1>3, <1>4, <1>5

\* On a link whose epochs arrive in order, or with a single sending process,
\* the delivery invariant holds throughout.
THEOREM DeliveryInvariant ==
    ASSUME OrderedEpochs
    PROVE  Spec => []DeliveryInv
<1>1. Init => DeliveryInv
  BY DEF Init, IInit, LInit, DeliveryInv, HeardFirst, ReceivesCurrent, AcksDelivered, AckSound
<1>2. TypeOK /\ TypeOK' /\ DeliveryInv /\ [Next]_vars => DeliveryInv'
  <2> SUFFICES ASSUME TypeOK, TypeOK', DeliveryInv, [Next]_vars
               PROVE  DeliveryInv'
    OBVIOUS
  <2>1. ASSUME NEW p \in up, ListenerReceives(p) PROVE DeliveryInv'
    BY <2>1, ListenerKeepsDelivery
  <2>2. ASSUME NEW p \in down, InitiatorReceives(p) PROVE DeliveryInv'
    BY <2>2, InitiatorKeepsDelivery DEF InitiatorReceives
  <2>3. CASE InitiatorSteps
    BY <2>3, InitiatorKeepsDelivery DEF InitiatorSteps
  <2>4. CASE Lose
    <3>1. up' \subseteq up /\ down' \subseteq down /\ UNCHANGED <<initiatorVars, listenerVars, epoch>>
      BY <2>4 DEF Lose
    <3>2. UNCHANGED <<inc, istate, acked, peer, reorder, sources, next_expected, got, epoch>>
      BY <3>1 DEF initiatorVars, controlVars, senderVars, listenerVars, receiverVars
    <3> QED BY <3>1, <3>2 DEF DeliveryInv, HeardFirst, ReceivesCurrent, AcksDelivered,
                              AckSound, Heard, Current
  <2>5. CASE ListenerSteps
    <3>1. UNCHANGED <<inc, istate, acked, epoch, got>> /\ up' = up
      BY <2>5 DEF ListenerSteps, SynAckTick, ListenerRestart, initiatorVars, controlVars,
                  senderVars, receiverVars, wireVars
    <3>2. CASE SynAckTick
      <4>1. UNCHANGED <<peer, reorder, sources, next_expected>> /\ peer \in Ports
            /\ down' \subseteq down \cup {SynAck(peer)}
        BY <3>2 DEF SynAckTick, receiverVars, TypeOK, LTypeOK, ListenerControlType
      <4>2. SynAck(peer).port = peer /\ SynAck(peer).type # "Ack" /\ peer # 0
        <5>1. peer # 0
          BY <4>1, MaxIncAssumption DEF Ports
        <5> QED BY <5>1, PacketFields
      <4> QED BY <3>1, <4>1, <4>2 DEF DeliveryInv, HeardFirst, ReceivesCurrent, AcksDelivered,
                                      AckSound, Heard, Current
    <3>3. CASE ListenerRestart
      <4>1. /\ peer' = 0 /\ reorder' = {} /\ sources' = {} /\ next_expected' = 0 /\ down' = down
        BY <3>3 DEF ListenerRestart, wireVars
      <4> QED BY <3>1, <4>1 DEF DeliveryInv, HeardFirst, ReceivesCurrent, AcksDelivered,
                                AckSound, Heard, Current
    <3> QED BY <2>5, <3>2, <3>3 DEF ListenerSteps
  <2>6. CASE UNCHANGED vars
    BY <2>6 DEF vars, initiatorVars, controlVars, senderVars, listenerVars, receiverVars, wireVars,
                DeliveryInv, HeardFirst, ReceivesCurrent, AcksDelivered, AckSound, Heard, Current
  <2> QED BY <2>1, <2>2, <2>3, <2>4, <2>5, <2>6 DEF Next
<1> QED BY <1>1, <1>2, TypeCorrect, PTL DEF Spec

\* An acknowledged packet has been delivered, from the process that sent it:
\* the listener acknowledges only what it delivers now or has delivered before,
\* and the initiator believes only acknowledgements (session.cpp:351-363,
\* 375-384).  Loss, duplication, reordering and restarts of either side change
\* nothing about it.
THEOREM AcknowledgedIsDelivered ==
    ASSUME OrderedEpochs
    PROVE  Spec => []AckSound
<1>1. DeliveryInv => AckSound
  BY DEF DeliveryInv, AcksDelivered
<1> QED BY <1>1, DeliveryInvariant, PTL

\* Between two resets the listener delivers the packets of one process only.
THEOREM OneSourcePerSession ==
    ASSUME OrderedEpochs
    PROVE  Spec => []OneSource
<1>1. TypeOK /\ DeliveryInv => OneSource
  <2> SUFFICES ASSUME TypeOK, DeliveryInv, NEW i \in sources, NEW j \in sources
               PROVE  i = j
    BY DEF OneSource
  <2>1. i \in Ports /\ j \in Ports /\ epoch \in Nat
    BY MaxIncAssumption DEF TypeOK, LTypeOK, ReceiverType
  <2>2. Current(i) /\ Current(j)
    BY DEF DeliveryInv, ReceivesCurrent
  <2> QED BY <2>1, <2>2, OneCurrent
<1> QED BY <1>1, TypeCorrect, DeliveryInvariant, PTL
=============================================================================
