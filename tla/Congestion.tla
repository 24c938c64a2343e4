------------------------------ MODULE Congestion ------------------------------
(***************************************************************************)
(* What a sending session learns from acknowledgements and losses: the     *)
(* retransmission time-out (engine/src/rto.cpp) and the token bucket with  *)
(* its rate (engine/src/rate_controller.cpp).  Session calls on_ack for an *)
(* ACK of a packet in flight, on_loss for a NACK or a time-out, on_tick    *)
(* whenever it fills its window or ticks, and consume for a chunk of media *)
(* that it sends for the first time.  A packet it sends again, and a packet*)
(* of dummy data, asks for no tokens: the bucket does not bound those.     *)
(*                                                                         *)
(* Times are in units of which Second make a second, and round trips are   *)
(* in the unit of the RTO limits; rate is bytes per unit of time.  Doubles *)
(* are integers, rounded down.                                             *)
(***************************************************************************)
EXTENDS Integers, Sequences, SequencesExt

CONSTANTS
    kDefaultRto, kMinRto, kMaxRto,  \* limits of the time-out
    RoundTrips,                     \* round trips that may be measured
    kMinRate, kMaxRate, InitialRate,
    Second,                         \* units of time in a second
    kRttWindowSize, Trend,          \* samples kept; oldest and newest compared
    kRttTrendThreshold,
    PacketSizes,                    \* bytes of a packet of media
    Steps, MaxEvents, MaxNow        \* bounds: clock steps, acks and losses, clock

ASSUME RtoAssumption ==
    /\ kDefaultRto \in Nat /\ kMinRto \in Nat /\ kMaxRto \in Nat
    /\ kMinRto <= kDefaultRto /\ kDefaultRto <= kMaxRto
    /\ RoundTrips \subseteq Nat \ {0}
ASSUME RateAssumption ==
    /\ kMinRate \in Nat \ {0} /\ kMaxRate \in Nat /\ InitialRate \in Nat
    /\ kMinRate <= InitialRate /\ InitialRate <= kMaxRate
    /\ Second \in Nat \ {0}
ASSUME TrendAssumption ==
    Trend \in Nat \ {0} /\ kRttWindowSize \in Nat /\ 2 * Trend <= kRttWindowSize
    /\ kRttTrendThreshold \in Nat
ASSUME SizesAssumption == PacketSizes \subseteq Nat \ {0}
ASSUME BoundsAssumption == Steps \subseteq Nat \ {0} /\ MaxEvents \in Nat /\ MaxNow \in Nat

VARIABLES
    rtt,        \* RtoEstimator: srtt_us_, rttvar_us_ and initialized_
    rate,       \* rate_bps_
    tokens,     \* tokens_
    refilled,   \* last_refill_, 0 before the first tick
    samples,    \* rtt_samples_us_
    acked,      \* packets_sent_, which counts acknowledgements
    lost,       \* packets_lost_
    now,        \* the steady clock
    spent,      \* history: bytes of media that asked for tokens and got them
    ticked,     \* history: when the first tick was
    seen        \* history: the least and the greatest round trip

estimatorVars == <<rtt, seen>>
bucketVars == <<tokens, refilled, spent, ticked>>
adaptVars == <<rate, samples, acked, lost>>
congestionVars == <<estimatorVars, bucketVars, adaptVars, now>>

LeastOf(a, b) == IF a <= b THEN a ELSE b
GreatestOf(a, b) == IF a >= b THEN a ELSE b

\* 50 ms worth of tokens to begin with.
Burst == (InitialRate * Second) \div 20

CongestionInit ==
    /\ rtt = [srtt |-> 0, var |-> 0, known |-> FALSE]
    /\ seen = [least |-> 0, greatest |-> 0]
    /\ rate = InitialRate /\ tokens = Burst /\ refilled = 0
    /\ samples = <<>> /\ acked = 0 /\ lost = 0
    /\ now \in Steps /\ spent = 0 /\ ticked = 0

-----------------------------------------------------------------------------
(* RtoEstimator                                                            *)

Distance(a, b) == IF a >= b THEN a - b ELSE b - a

\* Seeded fault: the variance follows the signed error.
OnRttSample_Signed(e, r) ==
    IF e.known
    THEN [e EXCEPT !.srtt = @ + ((r - @) \div 8), !.var = @ + (((r - e.srtt) - @) \div 4)]
    ELSE [srtt |-> r, var |-> r \div 2, known |-> TRUE]

OnRttSample(e, r) ==
    IF e.known
    THEN [e EXCEPT !.srtt = @ + ((r - @) \div 8), !.var = @ + ((Distance(r, e.srtt) - @) \div 4)]
    ELSE [srtt |-> r, var |-> r \div 2, known |-> TRUE]

Clamped(x) == LeastOf(GreatestOf(x, kMinRto), kMaxRto)

CurrentRto == IF rtt.known THEN Clamped(rtt.srtt + 4 * rtt.var) ELSE kDefaultRto

-----------------------------------------------------------------------------
(* RateController                                                          *)

\* The sum of the samples from the i-th to the j-th.
Sum(s, i, j) == FoldLeft(LAMBDA a, b : a + b, 0, SubSeq(s, i, j))

\* The newest samples are well above the oldest of the window.
Rising(s) ==
    /\ Len(s) >= 2 * Trend
    /\ Sum(s, Len(s) - Trend + 1, Len(s)) \div Trend > Sum(s, 1, Trend) \div Trend + kRttTrendThreshold

\* adaptRate: losses against acknowledgements since the session began, 5 in 100
\* and 1 in 100 being the thresholds, and none before the first acknowledgement.
Adapted(r, a, l, s) ==
    CASE a > 0 /\ l * 20 > a -> GreatestOf(kMinRate, (r * 4) \div 5)
      [] (a = 0 \/ l * 20 <= a) /\ Rising(s) -> GreatestOf(kMinRate, (r * 9) \div 10)
      [] (a = 0 \/ l * 100 < a) /\ ~Rising(s) /\ r < kMaxRate -> LeastOf(kMaxRate, (r * 21) \div 20)
      [] OTHER -> r

Window(s) == IF Len(s) > kRttWindowSize THEN Tail(s) ELSE s

OnAck ==
    /\ acked + lost < MaxEvents
    /\ \E r \in RoundTrips :
        /\ rtt' = OnRttSample(rtt, r)
        /\ seen' = [least |-> IF rtt.known THEN LeastOf(seen.least, r) ELSE r,
                    greatest |-> GreatestOf(seen.greatest, r)]
        /\ samples' = Window(Append(samples, r))
    /\ acked' = acked + 1
    /\ rate' = Adapted(rate, acked', lost, samples')
    /\ UNCHANGED <<bucketVars, lost, now>>

OnLoss ==
    /\ acked + lost < MaxEvents
    /\ lost' = lost + 1
    /\ rate' = Adapted(rate, acked, lost', samples)
    /\ UNCHANGED <<estimatorVars, bucketVars, samples, acked, now>>

\* Seeded fault: the first refill is for all the time since the clock began.
OnTick_FromEpoch ==
    /\ refilled' = now
    /\ ticked' = IF refilled = 0 THEN now ELSE ticked
    /\ tokens' = LeastOf(tokens + rate * (now - refilled), rate * Second)
    /\ UNCHANGED <<estimatorVars, spent, adaptVars, now>>

\* Refill for the time since the last tick, up to a second's worth.
OnTick ==
    /\ refilled' = now
    /\ ticked' = IF refilled = 0 THEN now ELSE ticked
    /\ tokens' = IF refilled = 0 THEN tokens
                 ELSE LeastOf(tokens + rate * (now - refilled), rate * Second)
    /\ UNCHANGED <<estimatorVars, spent, adaptVars, now>>

\* consumeTokens, for a chunk that is sent for the first time: fill_window asks for no
\* more than availableTokens() and sends the chunk right after it.
Consume(bytes) ==
    /\ bytes <= tokens
    /\ tokens' = tokens - bytes /\ spent' = spent + bytes
    /\ UNCHANGED <<estimatorVars, refilled, ticked, adaptVars, now>>

Elapse ==
    /\ \E d \in Steps : now + d <= MaxNow /\ now' = now + d
    /\ UNCHANGED <<estimatorVars, bucketVars, adaptVars>>

CongestionNext == OnAck \/ OnLoss \/ OnTick \/ (\E bytes \in PacketSizes : Consume(bytes)) \/ Elapse

CongestionSpec == CongestionInit /\ [][CongestionNext]_congestionVars
-----------------------------------------------------------------------------

CongestionTypeOK ==
    /\ rtt \in [srtt : Nat, var : Nat, known : BOOLEAN]
    /\ seen \in [least : Nat, greatest : Nat]
    /\ rate \in kMinRate .. kMaxRate /\ tokens \in Nat
    /\ refilled \in 0 .. now /\ samples \in Seq(Nat)
    /\ acked \in Nat /\ lost \in Nat /\ now \in Nat
    /\ spent \in Nat /\ ticked \in 0 .. refilled

\* However the round trips vary, the time-out is not below the fastest one there
\* was, nor above five times the slowest, within its limits (rto.cpp:15-36): the
\* estimator does not fall behind a path it knows, nor run away from it.
RtoCovers ==
    rtt.known => /\ Clamped(seen.least) <= CurrentRto
                 /\ CurrentRto <= Clamped(5 * seen.greatest)

\* Whatever the rate does, and however ticks and packets fall, the media sent for the
\* first time is within the first 50 ms' worth and the highest rate for the time since
\* the first tick (rate_controller.cpp:9-12, 14-29, 48-52; session.cpp:184-187).
\* Retransmissions (session.cpp:401-404, 457-461) and dummy packets come on top.
Bucketed == spent <= Burst + kMaxRate * (now - ticked)
=============================================================================
