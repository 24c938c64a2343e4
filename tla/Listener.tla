------------------------------- MODULE Listener -------------------------------
(***************************************************************************)
(* Session in the role Listener: the receiving half of the protocol        *)
(* (engine/src/session.cpp), with the peer bookkeeping Transport does for  *)
(* it.  The process may be killed and started again on the same port.      *)
(*                                                                         *)
(* Its failed_ flag is left out: only Mode::Send looks at it.  So is what  *)
(* deliver_in_order hands to the media sink and the jitter buffer.         *)
(***************************************************************************)
EXTENDS Wire

CONSTANT
    MaxRestarts     \* listener processes killed and started again

ASSUME RestartsAssumption == MaxRestarts \in Nat

VARIABLES
    lstate,         \* state_
    fin_received,   \* fin_received_
    peer,           \* peer_: the port datagrams are sent to, 0 before the first
    syn_seen,       \* last_handshake_sent_ is set
    lhs_retries,    \* handshake_retries_
    next_expected,  \* next_expected_
    reorder,        \* the packets of reorder_, at most one per sequence number
    sources,        \* history: senders of the packets delivered since the last reset
    got,            \* history: every packet ever delivered, as <<sender, seq>>
    restarts        \* listener processes killed so far

receiverVars == <<next_expected, reorder, sources, got>>
listenerVars == <<lstate, fin_received, peer, syn_seen, lhs_retries, receiverVars, restarts>>

LInit ==
    /\ lstate = "Handshaking" /\ fin_received = FALSE /\ peer = 0
    /\ syn_seen = FALSE /\ lhs_retries = 0
    /\ next_expected = 0 /\ reorder = {} /\ sources = {} /\ got = {}
    /\ restarts = 0

-----------------------------------------------------------------------------
(* on_packet.  Transport answers to the sender of the latest datagram,     *)
(* whichever it is (set_peer).                                             *)

\* Seeded fault: a SYN keeps the packets held for the sender before.
OnSyn_KeepsReorder(p) ==
    /\ p = Syn(p.port)
    /\ peer' = p.port
    /\ lstate' = "Handshaking" /\ fin_received' = FALSE
    /\ syn_seen' = TRUE /\ lhs_retries' = 0
    /\ next_expected' = 0 /\ sources' = {}
    /\ up' = Received(up, p) /\ down' = down \cup {SynAck(p.port)}
    /\ UNCHANGED <<reorder, got, restarts>>

\* A SYN starts the session over in any state.
OnSyn(p) ==
    /\ p = Syn(p.port)
    /\ peer' = p.port
    /\ lstate' = "Handshaking" /\ fin_received' = FALSE
    /\ syn_seen' = TRUE /\ lhs_retries' = 0
    /\ next_expected' = 0 /\ reorder' = {} /\ sources' = {}
    /\ up' = Received(up, p) /\ down' = down \cup {SynAck(p.port)}
    /\ UNCHANGED <<got, restarts>>

OnHsAck(p) ==
    /\ p.type = "Handshake" /\ p.flags = {"ACK"}
    /\ peer' = p.port
    /\ lstate' = IF lstate = "Handshaking" /\ p.sid = kListenerStreamId
                 THEN "Active" ELSE lstate
    /\ up' = Received(up, p)
    /\ UNCHANGED <<fin_received, syn_seen, lhs_retries, receiverVars, restarts, down>>

\* Only a first FIN is answered.
OnFin(p) ==
    /\ p = Fin(p.port)
    /\ peer' = p.port
    /\ up' = Received(up, p)
    /\ IF fin_received
       THEN UNCHANGED <<lstate, fin_received, down>>
       ELSE /\ fin_received' = TRUE /\ lstate' = "Closing"
            /\ down' = down \cup {FinAck(p.port)}
    /\ UNCHANGED <<syn_seen, lhs_retries, receiverVars, restarts>>

-----------------------------------------------------------------------------
(* on_packet for DATA *)

Receiving == lstate # "Closed"

\* The first DATA completes a handshake whose ACK it overtook.
AfterData == IF lstate = "Handshaking" THEN "Active" ELSE lstate

Holds(packets, seq) == \E q \in packets : q.seq = seq

\* reorder_.emplace: a second packet with a sequence number changes nothing.
Held(p) == IF Holds(reorder, p.seq) THEN reorder ELSE reorder \cup {p}

\* Seeded fault: the run of deliverable packets is taken one too long.
RunEnd_OffByOne(packets, n) ==
    /\ \A s \in next_expected .. n - 2 : Holds(packets, s)
    /\ ~Holds(packets, n)

\* n is the first sequence number from next_expected on that is not held.
RunEnd(packets, n) ==
    /\ \A s \in next_expected .. n - 1 : Holds(packets, s)
    /\ ~Holds(packets, n)

Discard(p) ==
    /\ ~Receiving
    /\ UNCHANGED <<receiverVars, down>>

\* Seeded fault: a packet delivered before is not acknowledged again.
Reacknowledge_Silent(p) ==
    /\ Receiving /\ p.seq < next_expected
    /\ UNCHANGED <<receiverVars, down>>

Reacknowledge(p) ==
    /\ Receiving /\ p.seq < next_expected
    /\ down' = down \cup {Ack(p.seq, p.port)}
    /\ UNCHANGED receiverVars

BeyondWindow(p) ==
    /\ Receiving /\ p.seq >= next_expected + kSendWindow
    /\ down' = down \cup {Nack(next_expected, p.port)}
    /\ UNCHANGED receiverVars

\* Seeded fault: a packet held for later is acknowledged on arrival.
Hold_Acks(p) ==
    /\ Receiving /\ p.seq > next_expected /\ p.seq < next_expected + kSendWindow
    /\ reorder' = Held(p)
    /\ down' = down \cup {Nack(next_expected, p.port), Ack(p.seq, p.port)}
    /\ UNCHANGED <<next_expected, sources, got>>

\* A packet with a gap before it is held, and the gap is reported.
Hold(p) ==
    /\ Receiving /\ p.seq > next_expected /\ p.seq < next_expected + kSendWindow
    /\ reorder' = Held(p)
    /\ down' = down \cup {Nack(next_expected, p.port)}
    /\ UNCHANGED <<next_expected, sources, got>>

\* deliver_in_order: the expected packet and those held right behind it.  Each
\* is acknowledged to the sender of the datagram that closed the gap.
Deliver(p) ==
    /\ Receiving /\ p.seq = next_expected
    /\ \E n \in next_expected + 1 .. next_expected + kSendWindow :
        /\ RunEnd(Held(p), n)
        /\ LET run == {q \in Held(p) : q.seq < n}
           IN  /\ reorder' = Held(p) \ run
               /\ sources' = sources \cup {q.port : q \in run}
               /\ got' = got \cup {<<q.port, q.seq>> : q \in run}
        /\ down' = down \cup {Ack(s, p.port) : s \in next_expected .. n - 1}
        /\ next_expected' = n

OnData(p) ==
    /\ p.type = "Data"
    /\ peer' = p.port
    /\ up' = Received(up, p)
    /\ lstate' = AfterData
    /\ Discard(p) \/ Reacknowledge(p) \/ BeyondWindow(p) \/ Hold(p) \/ Deliver(p)
    /\ UNCHANGED <<fin_received, syn_seen, lhs_retries, restarts>>

-----------------------------------------------------------------------------
(* on_tick: a listener has nothing in flight, so only the handshake timer  *)
(* matters.  It goes to whoever sent the latest datagram.                  *)

SynAckTick ==
    /\ lstate = "Handshaking" /\ syn_seen
    /\ Spurious \/ Quiet
    /\ IF lhs_retries = kMaxRetries
       THEN /\ lstate' = "Closed"
            /\ UNCHANGED <<lhs_retries, down>>
       ELSE /\ lhs_retries' = lhs_retries + 1
            /\ down' = down \cup {SynAck(peer)}
            /\ UNCHANGED lstate
    /\ UNCHANGED <<fin_received, peer, syn_seen, receiverVars, restarts, up>>

\* The process is killed and started again with nothing remembered.
ListenerRestart ==
    /\ restarts < MaxRestarts
    /\ restarts' = restarts + 1
    /\ lstate' = "Handshaking" /\ fin_received' = FALSE /\ peer' = 0
    /\ syn_seen' = FALSE /\ lhs_retries' = 0
    /\ next_expected' = 0 /\ reorder' = {} /\ sources' = {}
    /\ UNCHANGED <<got, wireVars>>

-----------------------------------------------------------------------------

ListenerControlType ==
    /\ lstate \in {"Handshaking", "Active", "Closing", "Closed"}
    /\ fin_received \in BOOLEAN /\ syn_seen \in BOOLEAN
    /\ peer \in 0 .. MaxInc
    /\ syn_seen => peer \in Ports
    /\ lhs_retries \in 0 .. kMaxRetries
    /\ restarts \in 0 .. MaxRestarts

\* The reorder buffer holds one packet per sequence number, and only beyond
\* the expected one but within the window.
ReceiverType ==
    /\ next_expected \in 0 .. Total
    /\ reorder \subseteq DataPackets
    /\ \A p, q \in reorder : p.seq = q.seq => p = q
    /\ \A p \in reorder : p.seq > next_expected /\ p.seq < next_expected + kSendWindow
    /\ sources \subseteq Ports
    /\ got \subseteq Ports \X Seqs

LTypeOK == ListenerControlType /\ ReceiverType
=============================================================================
