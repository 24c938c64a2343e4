----------------------------- MODULE SessionLink -----------------------------
(***************************************************************************)
(* One sending host and one listening host over UDP: initiator processes   *)
(* (Initiator) one after the other, a listener (Listener), and the network *)
(* between them (Wire).                                                    *)
(*                                                                         *)
(* DATA carries nothing that tells one handshake from another, so what the *)
(* listener can promise depends on how far the network reorders.  Each     *)
(* datagram towards the listener belongs to an epoch: a SYN of process i   *)
(* to epoch 2i, anything else of process i to epoch 2i + 1.  Where         *)
(* Overtaking is FALSE no datagram arrives after one of a later epoch has; *)
(* within an epoch everything may be reordered, lost or duplicated.        *)
(***************************************************************************)
EXTENDS Initiator, Listener

CONSTANTS
    Overtaking,     \* TRUE: epochs may arrive in any order
    MaxLoss         \* datagrams lost where Duplicates is FALSE (where it is
                    \* TRUE a lost datagram is one that is never received)

ASSUME OvertakingAssumption == Overtaking \in BOOLEAN
ASSUME LossAssumption == MaxLoss \in Nat

VARIABLES
    epoch,  \* the latest epoch to have reached the listener; 0 before any,
            \* and where Overtaking is TRUE
    losses  \* datagrams lost so far

vars == <<initiatorVars, listenerVars, wireVars, epoch, losses>>

Init ==
    /\ IInit /\ LInit
    /\ up = {} /\ down = {} /\ epoch = 0 /\ losses = 0

EpochOf(p) == IF p.flags = {"SYN"} THEN 2 * p.port ELSE 2 * p.port + 1

\* Transport::on_readable of the listening host.
ListenerReceives(p) ==
    /\ p \in up
    /\ Overtaking \/ EpochOf(p) >= epoch
    /\ epoch' = IF Overtaking THEN epoch ELSE EpochOf(p)
    /\ OnSyn(p) \/ OnHsAck(p) \/ OnFin(p) \/ OnData(p)
    /\ UNCHANGED <<initiatorVars, losses>>

\* Transport::on_readable of the sending host.
InitiatorReceives(p) ==
    /\ p \in down
    /\ \/ /\ running /\ p.port = inc
          /\ OnSynAck(p) \/ OnFinAck(p) \/ OnAck(p) \/ \E late \in BOOLEAN : OnNack(p, late)
       \/ ToDeadPort(p)
    /\ UNCHANGED <<listenerVars, epoch, losses>>

\* Where a datagram arrives at most once, it may also get lost, or be too late
\* to arrive at all.
Lose ==
    /\ ~Duplicates
    /\ \/ \E p \in up : up' = up \ {p} /\ UNCHANGED down
       \/ \E p \in down : down' = down \ {p} /\ UNCHANGED up
    /\ losses < MaxLoss /\ losses' = losses + 1
    /\ UNCHANGED <<initiatorVars, listenerVars, epoch>>

InitiatorSteps ==
    /\ Launch \/ Exit \/ HandshakeTick \/ RetryLimit \/ Tick
    /\ UNCHANGED <<listenerVars, epoch, losses>>

ListenerSteps ==
    /\ SynAckTick \/ ListenerRestart
    /\ UNCHANGED <<initiatorVars, epoch, losses>>

Next ==
    \/ \E p \in up : ListenerReceives(p)
    \/ \E p \in down : InitiatorReceives(p)
    \/ Lose
    \/ InitiatorSteps
    \/ ListenerSteps

Spec == Init /\ [][Next]_vars

\* The hosts keep running their event loops (epoll_wait times out every 10 ms)
\* and what the network has not lost arrives.  Nothing starts a process.
Fairness ==
    /\ WF_vars(\E p \in up : ListenerReceives(p))
    /\ WF_vars(\E p \in down : InitiatorReceives(p))
    /\ WF_vars((Exit \/ HandshakeTick \/ RetryLimit \/ Tick)
               /\ UNCHANGED <<listenerVars, epoch, losses>>)
    /\ WF_vars(SynAckTick /\ UNCHANGED <<initiatorVars, epoch, losses>>)

FairSpec == Spec /\ Fairness

-----------------------------------------------------------------------------

\* Every variable of the two hosts and the network stays within its type, the
\* receive buffer within the window of session.cpp:351-360.
TypeOK ==
    /\ ITypeOK /\ LTypeOK
    /\ up \subseteq UpPackets /\ down \subseteq DownPackets
    /\ epoch \in 0 .. 2 * MaxInc + 1
    /\ losses \in 0 .. MaxLoss

\* What a process has had acknowledged, the listener has delivered, from that
\* process: an ACK is never sent for a packet that is only held, nor on the
\* strength of a predecessor's packets (session.cpp:351-363, 375-384).
AckSound == \A s \in acked : <<inc, s>> \in got

\* A sequence number is in one place: in flight, acknowledged or given up as
\* late.  No handler loses a packet or settles it twice.
Accounted ==
    /\ in_flight \cup acked \cup dropped = 0 .. next_seq - 1
    /\ in_flight \cap acked = {} /\ in_flight \cap dropped = {} /\ acked \cap dropped = {}

\* The sender of a dummy transfer still holds every packet the listener is
\* waiting for, so no gap is left that nobody will fill (session.cpp:356, 365
\* ask for it; 375-383, 405-408 and 464 forget packets).
GapRecoverable == next_expected .. next_seq - 1 \subseteq in_flight

\* The sender's window and the receiver's never drift apart: no packet of the
\* current process arrives beyond the receive window (session.cpp:355-359 is
\* never taken).
WindowAgreement ==
    \A p \in up : p.type = "Data" /\ p.port = inc => p.seq < next_expected + kSendWindow

\* What the listener delivers between two resets comes from one process.
OneSource == \A i, j \in sources : i = j

\* A FIN of the current process means its transfer is settled: everything was
\* taken from the source and nothing is in flight, now or later.
FinMeansDone == Fin(inc) \in up => taken = Total /\ in_flight = {}

\* The session an initiator process stands for is open, complete or failed as
\* is_complete() and failed() tell Transport::run.
Outcome == IF ifailed THEN "failed"
           ELSE IF istate # "Handshaking" /\ Done(in_flight) THEN "complete" ELSE "open"

Stream == INSTANCE ReliableStream WITH
    Sessions <- MaxInc, Length <- Total,
    session <- inc, sent <- next_seq, confirmed <- acked, outcome <- Outcome,
    heard <- peer, delivered <- next_expected

\* A dummy transfer on a link without overtaking is the reliable ordered stream
\* of ReliableStream: Session and Transport together implement it.
ImplementsStream == Stream!StreamSpec

LiveSession == INSTANCE LiveStream WITH
    Sessions <- MaxInc, Length <- Total, Live <- MediaMode,
    session <- inc, sent <- next_seq, confirmed <- acked, abandoned <- dropped,
    outcome <- Outcome, position <- next_expected, delivered <- got

\* In both modes and with restarts of either host, the two implement LiveStream,
\* as long as epochs arrive in order or there is a single process.
ImplementsLiveStream == LiveSession!LiveSpec

-----------------------------------------------------------------------------
(* The inductive invariant behind AckSound and OneSource.  Without         *)
(* overtaking, the latest epoch to have arrived names the one process the  *)
(* listener's receive state can be about; with a single process there is   *)
(* nothing to tell apart.                                                  *)

\* The SYN of process i has arrived.
Heard(i) == Overtaking \/ 2 * i <= epoch

\* The receive state is about process i.
Current(i) == Overtaking \/ (2 * i <= epoch /\ epoch <= 2 * i + 1)

\* Only a process whose SYN was heard gets to send anything else.
HeardFirst ==
    /\ \A p \in up : p.flags # {"SYN"} => Heard(p.port)
    /\ \A p \in down : Heard(p.port)
    /\ istate \in {"Active", "Closing"} => Heard(inc)
    /\ peer # 0 => Heard(peer)

\* What is held and what was delivered comes from the current process, and
\* everything before next_expected was delivered.
ReceivesCurrent ==
    /\ \A q \in reorder : Current(q.port)
    /\ \A i \in sources : Current(i)
    /\ \A i \in Ports : Current(i) => \A s \in 0 .. next_expected - 1 : <<i, s>> \in got

\* An acknowledgement follows the delivery, in transit and once received.
AcksDelivered ==
    /\ \A p \in down : p.type = "Ack" => <<p.port, p.seq>> \in got
    /\ AckSound

DeliveryInv == HeardFirst /\ ReceivesCurrent /\ AcksDelivered

-----------------------------------------------------------------------------
(* The inductive invariant behind GapRecoverable and WindowAgreement, for  *)
(* dummy transfers without overtaking and without listener restarts.       *)

\* Nothing in transit is ahead of the process that runs now.
SentByCurrent ==
    /\ epoch <= 2 * inc + 1
    /\ \A p \in up : /\ p.port <= inc
                     /\ p.type = "Data" /\ p.port = inc => p.seq < next_seq

\* The receive position is past every packet acknowledged to the process the
\* listener follows.
AcksBehind ==
    /\ \A p \in down : p.type = "Ack" =>
          2 * p.port < epoch /\ (epoch = 2 * p.port + 1 => p.seq < next_expected)
    /\ \A s \in acked : epoch = 2 * inc + 1 /\ s < next_expected

\* The sender keeps to its window.
WithinWindow == Cardinality(in_flight) <= kSendWindow

WindowInv == SentByCurrent /\ AcksBehind /\ WithinWindow /\ Accounted /\ dropped = {}

-----------------------------------------------------------------------------
(* What ImplementsStream rests on besides.                                 *)

\* The listener follows the process the latest epoch belongs to, and only a
\* datagram other than the SYN takes it past the start.
FollowsLatest ==
    /\ epoch \in {2 * peer, 2 * peer + 1}
    /\ epoch = 2 * peer => next_expected = 0

\* A failed session is closed, and a process says FIN after its handshake.
PhasesInOrder ==
    /\ ifailed => istate = "Closed"
    /\ Fin(inc) \in up \/ FinAck(inc) \in down => istate # "Handshaking"

\* What is held from the process that runs now, it has sent.
HeldWasSent == \A q \in reorder : q.port = inc => q.seq < next_seq

StreamInv == FollowsLatest /\ PhasesInOrder /\ HeldWasSent /\ taken = next_seq

-----------------------------------------------------------------------------
(* What ImplementsLiveStream rests on besides, whatever the mode and       *)
(* whoever restarts.                                                       *)

\* Nothing in transit, held or delivered is from a later process, or ahead of
\* what the current one has sent.
NothingAhead ==
    /\ peer <= inc
    /\ \A p \in up \cup down \cup reorder : p.port <= inc
    /\ \A p \in up \cup reorder : p.type = "Data" /\ p.port = inc => p.seq < next_seq
    /\ \A g \in got : g[1] <= inc

\* What was delivered comes from processes the listener has heard of.
GotHeard == \A g \in got : Heard(g[1])

\* A dummy transfer sends what it takes and gives nothing up.
DummyKeepsAll == ~MediaMode => taken = next_seq /\ dropped = {}

LiveInv == NothingAhead /\ GotHeard /\ PhasesInOrder /\ DummyKeepsAll

-----------------------------------------------------------------------------
(* Liveness *)

\* A process that keeps running gets out of the transfer, one way or another.
Terminates == running ~> ~running

\* With few enough losses a transfer succeeds: everything is delivered.
Completes == (inc > 0) ~> (next_expected = Total /\ acked = Seqs /\ ~ifailed)

-----------------------------------------------------------------------------
(* What the documents say and the code does not do.                        *)

\* A chunk the token bucket has no room for waits for the next tick
\* (Doc/protocol.md:236-237 "else: defer (try again next tick)"); the code has
\* taken it from the source by then and forgets it (session.cpp:178-186).
NoChunkDiscarded == taken = next_seq

\* A packet given up as too late is concealed: the receiver gets past it
\* (README.md:94).
GivenUpIsConcealed == \A s \in Seqs : (s \in dropped) ~> (next_expected > s)
=============================================================================
