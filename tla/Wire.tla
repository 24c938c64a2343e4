-------------------------------- MODULE Wire --------------------------------
(***************************************************************************)
(* The UDP datagrams two hosts of one session exchange, and what the       *)
(* network may do to them.  Only what the session logic reads is kept of a *)
(* packet: its type, its flags, its stream id, its sequence number, and    *)
(* the initiator's UDP port, which a datagram carries as its source        *)
(* address on the way up and as its destination on the way down.  A        *)
(* restarted initiator binds a new port, so ports number its incarnations. *)
(* Checksum, version and length rejections happen below this module: a     *)
(* damaged datagram is a lost one.  The constants of session.hpp both      *)
(* roles share are declared here.                                          *)
(***************************************************************************)
EXTENDS Integers

CONSTANTS
    MaxInc,             \* initiator processes started one after the other
    Total,              \* packets (dummy mode) or chunks (media mode) to send
    kListenerStreamId,  \* the only id a listener ever assigns
    kSendWindow,        \* packets in flight at most, and the receive window
    kMaxRetries,        \* timeouts of one packet, or of the handshake, survived
    Spurious,           \* TRUE: a timer may expire before an answer in transit
                        \* arrives; FALSE: only when nothing is in transit
    Duplicates          \* TRUE: a datagram may arrive any number of times, in
                        \* any order or never; FALSE: at most once

ASSUME MaxIncAssumption == MaxInc \in Nat \ {0}
ASSUME TotalAssumption == Total \in Nat
ASSUME StreamIdAssumption == kListenerStreamId \in Nat \ {0}
ASSUME WindowAssumption == kSendWindow \in Nat \ {0}
ASSUME RetriesAssumption == kMaxRetries \in Nat
ASSUME SpuriousAssumption == Spurious \in BOOLEAN
ASSUME DuplicatesAssumption == Duplicates \in BOOLEAN

VARIABLES
    up,     \* datagrams sent by initiators, towards the listener
    down    \* datagrams sent by the listener, towards an initiator's port

wireVars == <<up, down>>

Ports == 1 .. MaxInc
Seqs == 0 .. Total - 1

Handshake(flags, sid, port) ==
    [type |-> "Handshake", flags |-> flags, sid |-> sid, seq |-> 0, port |-> port]

Data(seq, port) ==
    [type |-> "Data", flags |-> {}, sid |-> kListenerStreamId, seq |-> seq, port |-> port]

Ack(seq, port) ==
    [type |-> "Ack", flags |-> {}, sid |-> kListenerStreamId, seq |-> seq, port |-> port]

Nack(seq, port) ==
    [type |-> "Nack", flags |-> {}, sid |-> kListenerStreamId, seq |-> seq, port |-> port]

\* The handshake datagrams, by the flags each role tests.
Syn(port) == Handshake({"SYN"}, 0, port)
SynAck(port) == Handshake({"SYN", "ACK"}, kListenerStreamId, port)
HsAck(port) == Handshake({"ACK"}, kListenerStreamId, port)
Fin(port) == Handshake({"FIN"}, kListenerStreamId, port)
FinAck(port) == Handshake({"FIN", "ACK"}, kListenerStreamId, port)

DataPackets == {Data(s, i) : s \in Seqs, i \in Ports}

UpPackets ==
    DataPackets \cup {Syn(i) : i \in Ports} \cup {HsAck(i) : i \in Ports}
                \cup {Fin(i) : i \in Ports}

DownPackets ==
    {SynAck(i) : i \in Ports} \cup {FinAck(i) : i \in Ports}
        \cup {Ack(s, i) : s \in Seqs, i \in Ports}
        \cup {Nack(s, i) : s \in 0 .. Total, i \in Ports}

\* What is left in a direction once p has been received.
Received(channel, p) == IF Duplicates THEN channel ELSE channel \ {p}

Quiet == up = {} /\ down = {}
=============================================================================
