------------------------------ MODULE LiveStream ------------------------------
(***************************************************************************)
(* What the session protocol promises when packets may be given up as late *)
(* and either host may be restarted at any time, with no network, window,  *)
(* retransmission or handshake in sight.  The listener may start over      *)
(* whenever it likes; from then on it delivers the packets 0, 1, 2, ... of *)
(* one session, without a gap, never from a session before one it has      *)
(* delivered from and never ahead of the sender.  The sender is told only  *)
(* of packets that were delivered, from the session it is in.  It settles  *)
(* a packet as confirmed or as given up and never goes back on it, and it  *)
(* calls a session complete only when the source has run dry and every     *)
(* packet is settled.                                                      *)
(***************************************************************************)
EXTENDS Integers

CONSTANTS
    Sessions,   \* sessions opened, one after the other
    Length,     \* packets the source of a session has
    Live        \* FALSE: every packet taken is sent, and none is given up

VARIABLES
    session,    \* the session the sender is in, 0 before the first
    taken,      \* packets of it taken from the source so far
    sent,       \* packets of it handed to the network so far
    confirmed,  \* packets of it the sender knows to be delivered
    abandoned,  \* packets of it the sender has given up
    outcome,    \* of that session: "open", "complete" or "failed"
    position,   \* packets delivered since the listener last started over
    sources,    \* the session they are from; {} before the first
    delivered   \* every packet ever delivered, as <<session, number>>

senderSide == <<session, taken, sent, confirmed, abandoned, outcome>>
receiverSide == <<position, sources, delivered>>
liveVars == <<senderSide, receiverSide>>

LiveInit ==
    /\ session = 0 /\ taken = 0 /\ sent = 0
    /\ confirmed = {} /\ abandoned = {} /\ outcome = "open"
    /\ position = 0 /\ sources = {} /\ delivered = {}

Open ==
    /\ session < Sessions
    /\ session' = session + 1 /\ taken' = 0 /\ sent' = 0
    /\ confirmed' = {} /\ abandoned' = {} /\ outcome' = "open"
    /\ UNCHANGED receiverSide

\* The sender takes, sends and settles packets, each of them once.
Progress ==
    /\ outcome = "open"
    /\ taken' \in taken .. Length /\ sent' \in sent .. taken'
    /\ confirmed \subseteq confirmed' /\ abandoned \subseteq abandoned'
    /\ confirmed' \cap abandoned' = {}
    /\ confirmed' \cup abandoned' \subseteq 0 .. sent' - 1
    /\ \A n \in confirmed' : <<session, n>> \in delivered
    /\ Live \/ (sent' = taken' /\ abandoned' = {})
    /\ UNCHANGED <<session, receiverSide>>

Advance == Progress /\ outcome' = "open"

\* The packets that were still open may be settled in the same step.
Finish ==
    /\ Progress /\ outcome' = "complete"
    /\ taken' = Length
    /\ confirmed' \cup abandoned' = 0 .. sent' - 1

Fail ==
    /\ outcome = "open" /\ outcome' = "failed"
    /\ UNCHANGED <<session, taken, sent, confirmed, abandoned, receiverSide>>

\* The listener is started again, or turns to a session that opens.
StartOver ==
    /\ position' = 0 /\ sources' = {}
    /\ UNCHANGED <<senderSide, delivered>>

\* A run of packets of session i is delivered, up to the one before n.
DeliverRun(i, n) ==
    /\ n > position /\ sources \subseteq {i}
    /\ \A d \in delivered : d[1] <= i
    /\ i = session => n <= sent
    /\ position' = n /\ sources' = {i}
    /\ delivered' = delivered \cup {<<i, s>> : s \in position .. n - 1}
    /\ UNCHANGED senderSide

LiveNext ==
    \/ Open \/ Advance \/ Finish \/ Fail \/ StartOver
    \/ \E i \in 1 .. session, n \in 1 .. Length : DeliverRun(i, n)

LiveSpec == LiveInit /\ [][LiveNext]_liveVars
=============================================================================
