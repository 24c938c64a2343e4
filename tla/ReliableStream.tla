---------------------------- MODULE ReliableStream ----------------------------
(***************************************************************************)
(* What the session protocol promises its user, with no network, window,   *)
(* retransmission or handshake in sight: sessions are opened one after the *)
(* other, the listener follows the latest one it has heard of, and of that *)
(* one it delivers the packets 0, 1, 2, ... each once and in order, never  *)
(* ahead of the sender.  The sender is told only of packets that were      *)
(* delivered, and calls a session complete only when all of them were.     *)
(***************************************************************************)
EXTENDS Integers

CONSTANTS
    Sessions,   \* sessions opened, one after the other
    Length      \* packets of a session

VARIABLES
    session,    \* the session the sender is in, 0 before the first
    sent,       \* packets of it handed to the network so far
    confirmed,  \* packets of it the sender knows to be delivered
    outcome,    \* of that session: "open", "complete" or "failed"
    heard,      \* the session the listener follows, 0 before the first
    delivered   \* packets of it delivered so far

streamVars == <<session, sent, confirmed, outcome, heard, delivered>>

StreamInit ==
    /\ session = 0 /\ sent = 0 /\ confirmed = {} /\ outcome = "open"
    /\ heard = 0 /\ delivered = 0

Open ==
    /\ session < Sessions
    /\ session' = session + 1 /\ sent' = 0 /\ confirmed' = {} /\ outcome' = "open"
    /\ UNCHANGED <<heard, delivered>>

\* The sender learns of deliveries, and may hand over more packets.
Advance ==
    /\ outcome = "open" /\ heard = session
    /\ sent' \in sent .. Length
    /\ confirmed \subseteq confirmed' /\ confirmed' \subseteq 0 .. delivered - 1
    /\ UNCHANGED <<session, outcome, heard, delivered>>

\* The last packet may be confirmed and the session complete in one step.
Finish ==
    /\ outcome = "open" /\ heard = session
    /\ delivered = Length
    /\ outcome' = "complete" /\ confirmed' = 0 .. Length - 1
    /\ UNCHANGED <<session, sent, heard, delivered>>

Fail ==
    /\ outcome = "open" /\ outcome' = "failed"
    /\ UNCHANGED <<session, sent, confirmed, heard, delivered>>

\* The listener turns to a later session.
Follow ==
    /\ heard' \in heard + 1 .. session /\ delivered' = 0
    /\ UNCHANGED <<session, sent, confirmed, outcome>>

\* A run of packets is delivered, none that the session did not send.
DeliverRun ==
    /\ heard > 0
    /\ delivered' \in delivered + 1 .. Length
    /\ heard = session => delivered' <= sent
    /\ UNCHANGED <<session, sent, confirmed, outcome, heard>>

StreamNext == Open \/ Advance \/ Finish \/ Fail \/ Follow \/ DeliverRun

StreamSpec == StreamInit /\ [][StreamNext]_streamVars
=============================================================================
