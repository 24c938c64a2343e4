------------------------------ MODULE Initiator ------------------------------
(***************************************************************************)
(* Session in the role Initiator: the sending half of the selective-repeat *)
(* protocol (engine/src/session.cpp), driven by Transport::run in Mode::Send*)
(* A process sends Total packets and exits when they are done with or the  *)
(* session has failed; MaxInc processes may follow one another.            *)
(*                                                                         *)
(* Time is abstracted: which retransmission timers have expired at a tick, *)
(* which retransmissions the playback deadline rules out, how far pacing   *)
(* and the token bucket let the window fill, are choices of the            *)
(* environment, each limited to what the conditions in the code allow.     *)
(***************************************************************************)
EXTENDS Wire, FiniteSets

CONSTANT
    MediaMode       \* FALSE: set_dummy_send, TRUE: set_media_send

ASSUME ModeAssumption == MediaMode \in BOOLEAN

VARIABLES
    inc,        \* the current process; 0 before the first
    running,    \* Transport::run has not returned
    istate,     \* state_
    ifailed,    \* failed_
    fin_sent,   \* fin_sent_
    hs_retries, \* handshake_retries_
    next_seq,   \* next_seq_
    taken,      \* packets counted off dummy_remaining_, or chunks popped
                \* from the media source: eof once all Total are
    in_flight,  \* the keys of in_flight_
    retries,    \* InFlight::retries, 0 for a packet not in flight; counted up
                \* to kMaxRetries, past which the code tells no values apart
    acked,      \* history: packets an ACK erased (stats_.acked counts them)
    dropped     \* history: packets erased as too late (stats_.deadline_drops)

senderVars == <<next_seq, taken, in_flight, retries, acked, dropped>>
controlVars == <<inc, running, istate, ifailed, fin_sent, hs_retries>>
initiatorVars == <<controlVars, senderVars>>

IInit ==
    /\ inc = 0 /\ running = FALSE /\ istate = "Handshaking"
    /\ ifailed = FALSE /\ fin_sent = FALSE /\ hs_retries = 0
    /\ next_seq = 0 /\ taken = 0 /\ in_flight = {}
    /\ retries = [s \in Seqs |-> 0] /\ acked = {} /\ dropped = {}

-----------------------------------------------------------------------------
(* The send window *)

Serving == istate \in {"Active", "Closing"}

\* Seeded fault: the window admits one packet too many.
Fits_WindowOffByOne(flight, k) ==
    taken + k <= Total /\ Cardinality(flight) + k <= kSendWindow + 1

\* k more packets are available and fit in the window beside those in flight.
Fits(flight, k) == taken + k <= Total /\ Cardinality(flight) + k <= kSendWindow

\* fill_window sends k packets and, if skip is 1, takes one chunk more that
\* the token bucket then refuses.  Dummy mode fills the window.  Media mode
\* may stop earlier, for pacing or for tokens, but only once a first packet
\* has set the stream's clock: pacing reads it, and the bucket's initial 50 ms
\* of tokens always covers the first packet.
FillChoice(flight, k, skip) ==
    \/ /\ skip = 0
       /\ Fits(flight, k)
       /\ Fits(flight, k + 1) => MediaMode /\ next_seq + k > 0
    \/ /\ skip = 1
       /\ MediaMode /\ next_seq + k > 0
       /\ Fits(flight, k + 1)

\* Seeded fault: a refused chunk has used up a sequence number.
FillWindow_SkipsSeq(flight, st, sent) ==
    \E k \in 0 .. Total, skip \in {0, 1} :
        /\ IF st = "Active" THEN FillChoice(flight, k, skip) ELSE k = 0 /\ skip = 0
        /\ LET new == next_seq .. next_seq + k - 1
           IN  /\ in_flight' = flight \cup new
               /\ up' = up \cup sent \cup {Data(s, inc) : s \in new}
        /\ next_seq' = next_seq + k + skip
        /\ taken' = taken + k + skip

\* The window is filled from the slots in flight, in state st; the datagrams
\* in sent go out first.
FillWindow(flight, st, sent) ==
    \E k \in 0 .. Total, skip \in {0, 1} :
        /\ IF st = "Active" THEN FillChoice(flight, k, skip) ELSE k = 0 /\ skip = 0
        /\ LET new == next_seq .. next_seq + k - 1
           IN  /\ in_flight' = flight \cup new
               /\ up' = up \cup sent \cup {Data(s, inc) : s \in new}
        /\ next_seq' = next_seq + k
        /\ taken' = taken + k + skip

\* Seeded fault: completion does not wait for the packets in flight.
Done_IgnoringFlight(flight) == taken = Total

\* is_complete for a session that has left the handshake and not failed.
Done(flight) == taken = Total /\ flight = {}

Complete == ~ifailed /\ istate # "Handshaking" /\ Done(in_flight)

-----------------------------------------------------------------------------
(* Process start and exit *)

\* A new process: main -> Transport::run -> Session::start.  The one before
\* it has exited, or is killed at this point, whatever it was doing.
Launch ==
    /\ inc < MaxInc
    /\ inc' = inc + 1 /\ running' = TRUE /\ istate' = "Handshaking"
    /\ ifailed' = FALSE /\ fin_sent' = FALSE /\ hs_retries' = 0
    /\ next_seq' = 0 /\ taken' = 0 /\ in_flight' = {}
    /\ retries' = [s \in Seqs |-> 0] /\ acked' = {} /\ dropped' = {}
    /\ up' = up \cup {Syn(inc + 1)}
    /\ UNCHANGED down

\* Seeded fault: the process waits for the FIN|ACK.
Exit_WhenClosed ==
    /\ running /\ istate = "Closed"
    /\ running' = FALSE
    /\ UNCHANGED <<inc, istate, ifailed, fin_sent, hs_retries, senderVars, wireVars>>

\* The test at the top of the loop of Transport::run.
Exit ==
    /\ running /\ (Complete \/ ifailed)
    /\ running' = FALSE
    /\ UNCHANGED <<inc, istate, ifailed, fin_sent, hs_retries, senderVars, wireVars>>

-----------------------------------------------------------------------------
(* on_packet, for a datagram p that reached the socket of this process.    *)
(* Data and bare FINs are only ever sent towards the listener.             *)

OnSynAck(p) ==
    /\ p = SynAck(inc)
    /\ down' = Received(down, p)
    /\ IF istate = "Handshaking"
       THEN /\ istate' = "Active"
            /\ FillWindow(in_flight, "Active", {HsAck(inc)})
            /\ UNCHANGED <<retries, acked, dropped>>
       ELSE /\ up' = up \cup {HsAck(inc)}
            /\ UNCHANGED <<istate, senderVars>>
    /\ UNCHANGED <<inc, running, ifailed, fin_sent, hs_retries>>

OnFinAck(p) ==
    /\ p = FinAck(inc)
    /\ down' = Received(down, p)
    /\ istate' = "Closed"
    /\ UNCHANGED <<inc, running, ifailed, fin_sent, hs_retries, senderVars, up>>

\* The last ACK of the transfer sends the FIN, every other one (duplicates
\* included) lets the window fill.
OnAck(p) ==
    /\ p.type = "Ack"
    /\ down' = Received(down, p)
    /\ LET flight == in_flight \ {p.seq}
       IN  IF ~Serving
           THEN UNCHANGED <<istate, fin_sent, senderVars, up>>
           ELSE /\ acked' = acked \cup (in_flight \cap {p.seq})
                /\ retries' = [s \in Seqs |-> IF s = p.seq THEN 0 ELSE retries[s]]
                /\ IF Done(flight) /\ ~fin_sent
                   THEN /\ fin_sent' = TRUE /\ istate' = "Closing"
                        /\ in_flight' = flight
                        /\ up' = up \cup {Fin(inc)}
                        /\ UNCHANGED <<next_seq, taken>>
                   ELSE /\ FillWindow(flight, istate, {})
                        /\ UNCHANGED <<istate, fin_sent>>
                /\ UNCHANGED dropped
    /\ UNCHANGED <<inc, running, ifailed, hs_retries>>

OneMore(r) == IF r < kMaxRetries THEN r + 1 ELSE r

\* Seeded fault: a NACKed packet is given up in dummy mode too.
OnNack_GivesUp(p, late) ==
    /\ p.type = "Nack" /\ ~late
    /\ down' = Received(down, p)
    /\ Serving
    /\ in_flight' = in_flight \ {p.seq}
    /\ dropped' = dropped \cup (in_flight \cap {p.seq})
    /\ UNCHANGED <<inc, running, istate, ifailed, fin_sent, hs_retries, next_seq, taken,
                   retries, acked, up>>

\* A NACK retransmits the packet or, in media mode when the deadline leaves
\* no time for that (late), gives it up.  It counts as a retry either way the
\* timeout does, but the retry limit is not tested here.
OnNack(p, late) ==
    /\ p.type = "Nack"
    /\ late => MediaMode /\ Serving /\ p.seq \in in_flight
    /\ down' = Received(down, p)
    /\ IF ~Serving \/ p.seq \notin in_flight
       THEN UNCHANGED <<in_flight, retries, dropped, up>>
       ELSE IF late
       THEN /\ in_flight' = in_flight \ {p.seq}
            /\ retries' = [retries EXCEPT ![p.seq] = 0]
            /\ dropped' = dropped \cup {p.seq}
            /\ UNCHANGED up
       ELSE /\ retries' = [retries EXCEPT ![p.seq] = OneMore(@)]
            /\ up' = up \cup {Data(p.seq, inc)}
            /\ UNCHANGED <<in_flight, dropped>>
    /\ UNCHANGED <<controlVars, next_seq, taken, acked>>

\* A datagram for the port of a process that is gone.
ToDeadPort(p) ==
    /\ p.port # inc \/ ~running
    /\ down' = Received(down, p)
    /\ UNCHANGED <<initiatorVars, up>>

-----------------------------------------------------------------------------
(* on_tick *)

\* The timers of the packets in flight that have expired at this tick.
ExpiredSets == IF Spurious THEN SUBSET in_flight
               ELSE IF Quiet THEN {{}, in_flight} ELSE {{}}

HandshakeTick ==
    /\ running /\ istate = "Handshaking" /\ ~ifailed
    /\ Spurious \/ Quiet
    /\ IF hs_retries = kMaxRetries
       THEN /\ ifailed' = TRUE /\ istate' = "Closed"
            /\ UNCHANGED <<hs_retries, up>>
       ELSE /\ hs_retries' = hs_retries + 1
            /\ up' = up \cup {Syn(inc)}
            /\ UNCHANGED <<ifailed, istate>>
    /\ UNCHANGED <<inc, running, fin_sent, senderVars, down>>

\* Some packet times out once too often.  The slots before it have been seen
\* to by then, but nothing reads them again and their datagrams are discarded.
RetryLimit ==
    /\ running /\ Serving
    /\ \E expired \in ExpiredSets : \E s \in expired : retries[s] = kMaxRetries
    /\ ifailed' = TRUE /\ istate' = "Closed"
    /\ UNCHANGED <<inc, running, fin_sent, hs_retries, senderVars, wireVars>>

\* Each expired packet is sent again or, in media mode, given up as late;
\* then the window fills.
Tick ==
    /\ running /\ Serving
    /\ \E expired \in ExpiredSets : \E late \in SUBSET expired :
        /\ late # {} => MediaMode
        /\ \A s \in expired : retries[s] < kMaxRetries
        /\ retries' = [s \in Seqs |-> IF s \in late THEN 0
                                      ELSE IF s \in expired THEN retries[s] + 1
                                      ELSE retries[s]]
        /\ dropped' = dropped \cup late
        /\ FillWindow(in_flight \ late, istate, {Data(s, inc) : s \in expired \ late})
    /\ UNCHANGED <<controlVars, acked, down>>

-----------------------------------------------------------------------------

ControlType ==
    /\ inc \in 0 .. MaxInc /\ (running => inc > 0)
    /\ running \in BOOLEAN /\ ifailed \in BOOLEAN /\ fin_sent \in BOOLEAN
    /\ istate \in {"Handshaking", "Active", "Closing", "Closed"}
    /\ hs_retries \in 0 .. kMaxRetries

SenderType ==
    /\ next_seq \in 0 .. taken /\ taken \in 0 .. Total
    /\ in_flight \subseteq 0 .. next_seq - 1
    /\ retries \in [Seqs -> 0 .. kMaxRetries]
    /\ acked \subseteq 0 .. next_seq - 1
    /\ dropped \subseteq 0 .. next_seq - 1

ITypeOK == ControlType /\ SenderType
=============================================================================
