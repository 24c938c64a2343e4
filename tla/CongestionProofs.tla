--------------------------- MODULE CongestionProofs ---------------------------
(***************************************************************************)
(* What Congestion guarantees for every value of its constants.  The rate  *)
(* stays within its limits whatever the trend of the round trips is, so a  *)
(* refill is at most the highest rate for the time since the last one, and *)
(* what is spent, on media sent for the first time, came from a refill or  *)
(* from the first burst: that is the inductive invariant behind Bucketed.  *)
(* RtoCovers rests on the smoothed round trip being between the fastest    *)
(* and the slowest one.                                                    *)
(***************************************************************************)
EXTENDS Congestion, TLAPS

\* The estimate lies between the extremes seen, and its variation within the slowest.
Estimates ==
    rtt.known => /\ seen.least <= rtt.srtt /\ rtt.srtt <= seen.greatest
                 /\ rtt.var <= seen.greatest

\* What is spent and what is left to spend were granted by the burst and by ticks.
Granted == spent + tokens <= Burst + kMaxRate * (refilled - ticked)

CongestionInv == CongestionTypeOK /\ Estimates /\ Granted

\* An eighth or a quarter of a step towards a value does not go past it, either way.
LEMMA PartStep ==
    ASSUME NEW x \in Nat, NEW y \in Nat, NEW k \in {4, 8}
    PROVE  /\ x + ((y - x) \div k) \in Nat
           /\ LeastOf(x, y) <= x + ((y - x) \div k)
           /\ x + ((y - x) \div k) <= GreatestOf(x, y)
<1>1. CASE k = 4  BY <1>1, SMT DEF LeastOf, GreatestOf
<1>2. CASE k = 8  BY <1>2, SMT DEF LeastOf, GreatestOf
<1> QED BY <1>1, <1>2

\* A sample leaves the estimate between the extremes, the sample among them.
LEMMA SampleKeepsEstimates ==
    ASSUME NEW e \in [srtt : Nat, var : Nat, known : BOOLEAN], NEW r \in Nat \ {0},
           NEW least \in Nat, NEW greatest \in Nat,
           e.known => /\ least <= e.srtt /\ e.srtt <= greatest /\ e.var <= greatest
    PROVE  LET f == OnRttSample(e, r)
               l == IF e.known THEN LeastOf(least, r) ELSE r
               g == GreatestOf(greatest, r)
           IN  /\ f \in [srtt : Nat, var : Nat, known : BOOLEAN] /\ f.known
               /\ l \in Nat /\ g \in Nat
               /\ l <= f.srtt /\ f.srtt <= g /\ f.var <= g
<1>1. CASE e.known
  <2> DEFINE d == Distance(r, e.srtt)
  <2>1. d \in Nat /\ (e.srtt <= greatest => d <= GreatestOf(greatest, r))
    BY SMT DEF Distance, GreatestOf
  <2>2. /\ e.srtt + ((r - e.srtt) \div 8) \in Nat
        /\ LeastOf(e.srtt, r) <= e.srtt + ((r - e.srtt) \div 8)
        /\ e.srtt + ((r - e.srtt) \div 8) <= GreatestOf(e.srtt, r)
    BY PartStep
  <2>3. e.var + ((d - e.var) \div 4) \in Nat /\ e.var + ((d - e.var) \div 4) <= GreatestOf(e.var, d)
    BY <2>1, PartStep
  <2>4. OnRttSample(e, r) = [srtt |-> e.srtt + ((r - e.srtt) \div 8),
                             var |-> e.var + ((d - e.var) \div 4), known |-> TRUE]
    BY <1>1 DEF OnRttSample
  <2> HIDE DEF d
  <2>5. /\ LeastOf(least, r) <= e.srtt + ((r - e.srtt) \div 8)
        /\ e.srtt + ((r - e.srtt) \div 8) <= GreatestOf(greatest, r)
    BY <1>1, <2>2, SMT DEF LeastOf, GreatestOf
  <2>6. e.var + ((d - e.var) \div 4) <= GreatestOf(greatest, r)
    BY <1>1, <2>1, <2>3, SMT DEF GreatestOf
  <2>7. LeastOf(least, r) \in Nat /\ GreatestOf(greatest, r) \in Nat
    BY DEF LeastOf, GreatestOf
  <2> QED BY <1>1, <2>2, <2>3, <2>4, <2>5, <2>6, <2>7
<1>2. CASE ~e.known
  <2>1. r \div 2 \in Nat /\ r \div 2 <= r  BY SMT
  <2> QED BY <1>2, <2>1, SMT DEF OnRttSample, GreatestOf
<1> QED BY <1>1, <1>2

\* Whatever the losses and the trend, the rate stays within its limits.
LEMMA RateInLimits ==
    ASSUME NEW r \in kMinRate .. kMaxRate, NEW a \in Nat, NEW l \in Nat, NEW s
    PROVE  Adapted(r, a, l, s) \in kMinRate .. kMaxRate
<1>1. (r * 4) \div 5 \in Int /\ (r * 4) \div 5 <= r /\ (r * 9) \div 10 \in Int /\ (r * 9) \div 10 <= r
      /\ (r * 21) \div 20 \in Int /\ r <= (r * 21) \div 20
  BY RateAssumption, SMT
<1>2. GreatestOf(kMinRate, (r * 4) \div 5) \in kMinRate .. kMaxRate
  BY <1>1, RateAssumption DEF GreatestOf
<1>3. GreatestOf(kMinRate, (r * 9) \div 10) \in kMinRate .. kMaxRate
  BY <1>1, RateAssumption DEF GreatestOf
<1>4. LeastOf(kMaxRate, (r * 21) \div 20) \in kMinRate .. kMaxRate
  BY <1>1, RateAssumption DEF LeastOf
<1> HIDE DEF GreatestOf, LeastOf
<1> QED BY <1>2, <1>3, <1>4, Zenon DEF Adapted

\* A refill is at most the highest rate for the time it is for.
LEMMA RefillInLimits ==
    ASSUME NEW r \in kMinRate .. kMaxRate, NEW d \in Nat
    PROVE  r * d \in Nat /\ r * d <= kMaxRate * d
<1>1. r \in Nat /\ kMaxRate \in Nat /\ r <= kMaxRate  BY RateAssumption
<1> QED BY <1>1, SMT

LEMMA CongestionInit_Inv == CongestionInit => CongestionInv
<1> SUFFICES ASSUME CongestionInit PROVE CongestionInv  OBVIOUS
<1>1. Burst \in Nat  BY RateAssumption, SMT DEF Burst
<1>2. now \in Nat  BY BoundsAssumption DEF CongestionInit
<1>3. CongestionTypeOK
  BY <1>1, <1>2, RateAssumption DEF CongestionInit, CongestionTypeOK
<1>4. Estimates  BY DEF CongestionInit, Estimates
<1>5. kMaxRate * (0 - 0) = 0  BY RateAssumption, SMT
<1>6. Granted  BY <1>1, <1>5 DEF CongestionInit, Granted
<1> QED BY <1>3, <1>4, <1>6 DEF CongestionInv

LEMMA CongestionNext_Inv == CongestionInv /\ [CongestionNext]_congestionVars => CongestionInv'
<1> SUFFICES ASSUME CongestionInv, [CongestionNext]_congestionVars PROVE CongestionInv'  OBVIOUS
<1> USE DEF CongestionInv
<1>0. Burst \in Nat /\ kMaxRate \in Nat  BY RateAssumption, SMT DEF Burst
<1>1. CASE OnAck
  <2>1. PICK r \in RoundTrips :
            /\ rtt' = OnRttSample(rtt, r)
            /\ seen' = [least |-> IF rtt.known THEN LeastOf(seen.least, r) ELSE r,
                        greatest |-> GreatestOf(seen.greatest, r)]
            /\ samples' = Window(Append(samples, r))
    BY <1>1 DEF OnAck
  <2>2. r \in Nat \ {0}  BY RtoAssumption
  <2>3. seen.least \in Nat /\ seen.greatest \in Nat  BY DEF CongestionTypeOK
  <2>4. Estimates' /\ rtt' \in [srtt : Nat, var : Nat, known : BOOLEAN]
        /\ seen' \in [least : Nat, greatest : Nat]
    BY <2>1, <2>2, <2>3, SampleKeepsEstimates DEF Estimates, CongestionTypeOK
  <2>5. acked' \in Nat /\ lost' \in Nat  BY <1>1 DEF OnAck, CongestionTypeOK
  <2>6. rate' \in kMinRate .. kMaxRate
    BY <1>1, <2>5, RateInLimits DEF OnAck, CongestionTypeOK
  <2>7. samples' \in Seq(Nat)
    BY <2>1, <2>2 DEF Window, CongestionTypeOK
  <2>8. UNCHANGED <<bucketVars, now>>  BY <1>1 DEF OnAck
  <2>9. CongestionTypeOK'
    BY <2>4, <2>5, <2>6, <2>7, <2>8 DEF CongestionTypeOK, bucketVars
  <2>10. Granted'  BY <2>8 DEF Granted, bucketVars
  <2> QED BY <2>4, <2>9, <2>10
<1>2. CASE OnLoss
  <2>1. lost' \in Nat /\ acked' \in Nat  BY <1>2 DEF OnLoss, CongestionTypeOK
  <2>2. rate' \in kMinRate .. kMaxRate
    BY <1>2, <2>1, RateInLimits DEF OnLoss, CongestionTypeOK
  <2> QED BY <1>2, <2>1, <2>2
      DEF OnLoss, CongestionTypeOK, Estimates, Granted, estimatorVars, bucketVars
<1>3. CASE OnTick
  <2>1. UNCHANGED <<estimatorVars, spent, adaptVars, now>>  BY <1>3 DEF OnTick
  <2>2. Estimates'  BY <2>1 DEF Estimates, estimatorVars
  <2>3. /\ now \in Nat /\ refilled \in Nat /\ ticked \in Nat /\ tokens \in Nat /\ spent \in Nat
        /\ refilled <= now /\ ticked <= refilled /\ rate \in kMinRate .. kMaxRate
    BY DEF CongestionTypeOK
  <2>4. CASE refilled = 0
    <3>1. refilled' = now /\ ticked' = now /\ tokens' = tokens  BY <1>3, <2>4 DEF OnTick
    <3>2. CongestionTypeOK'
      BY <2>1, <2>3, <3>1 DEF CongestionTypeOK, estimatorVars, adaptVars
    <3>3. ticked = 0  BY <2>3, <2>4
    <3>4. kMaxRate * (refilled - ticked) = kMaxRate * (refilled' - ticked')
      BY <1>0, <2>3, <2>4, <3>1, <3>3, SMT
    <3> QED BY <2>1, <2>2, <3>1, <3>2, <3>4 DEF Granted
  <2>5. CASE refilled # 0
    <3>1. refilled' = now /\ ticked' = ticked
          /\ tokens' = LeastOf(tokens + rate * (now - refilled), rate * Second)
      BY <1>3, <2>5 DEF OnTick
    <3>2. now - refilled \in Nat  BY <2>3
    <3>3. rate * (now - refilled) \in Nat /\ rate * (now - refilled) <= kMaxRate * (now - refilled)
      BY <2>3, <3>2, RefillInLimits
    <3>4. rate * Second \in Nat  BY <2>3, RateAssumption, RefillInLimits
    <3>5. tokens' \in Nat /\ tokens' <= tokens + rate * (now - refilled)
      BY <2>3, <3>1, <3>3, <3>4 DEF LeastOf
    <3>6. kMaxRate * (refilled - ticked) + kMaxRate * (now - refilled) = kMaxRate * (now - ticked)
          /\ kMaxRate * (refilled - ticked) \in Int /\ kMaxRate * (now - refilled) \in Int
          /\ kMaxRate * (now - ticked) \in Int
      BY <1>0, <2>3, SMT
    <3>7. Granted'
      BY <1>0, <2>1, <2>3, <3>1, <3>3, <3>5, <3>6 DEF Granted, adaptVars
    <3>8. CongestionTypeOK'
      BY <2>1, <2>3, <3>1, <3>5 DEF CongestionTypeOK, estimatorVars, adaptVars
    <3> QED BY <2>2, <3>7, <3>8
  <2> QED BY <2>4, <2>5
<1>4. CASE \E bytes \in PacketSizes : Consume(bytes)
  <2>1. PICK bytes \in PacketSizes : Consume(bytes)  BY <1>4
  <2>2. bytes \in Nat  BY SizesAssumption
  <2> QED BY <2>1, <2>2
      DEF Consume, CongestionTypeOK, Estimates, Granted, estimatorVars, adaptVars
<1>5. CASE Elapse
  <2>1. PICK d \in Steps : now' = now + d  BY <1>5 DEF Elapse
  <2>2. d \in Nat  BY BoundsAssumption
  <2> QED BY <1>5, <2>1, <2>2
      DEF Elapse, CongestionTypeOK, Estimates, Granted, estimatorVars, bucketVars, adaptVars
<1>6. CASE UNCHANGED congestionVars
  BY <1>6 DEF congestionVars, CongestionTypeOK, Estimates, Granted, estimatorVars, bucketVars,
              adaptVars
<1> QED BY <1>1, <1>2, <1>3, <1>4, <1>5, <1>6 DEF CongestionNext

LEMMA CongestionInv_Bucketed == CongestionInv => Bucketed
<1> SUFFICES ASSUME CongestionInv PROVE Bucketed  OBVIOUS
<1>1. Burst \in Nat /\ kMaxRate \in Nat  BY RateAssumption, SMT DEF Burst
<1>2. now \in Nat /\ refilled \in 0 .. now /\ ticked \in 0 .. refilled /\ tokens \in Nat
      /\ spent \in Nat
  BY DEF CongestionInv, CongestionTypeOK
<1>3. kMaxRate * (refilled - ticked) <= kMaxRate * (now - ticked)
      /\ kMaxRate * (refilled - ticked) \in Int /\ kMaxRate * (now - ticked) \in Int
  BY <1>1, <1>2, SMT
<1> QED BY <1>1, <1>2, <1>3 DEF CongestionInv, Granted, Bucketed

LEMMA CongestionInv_RtoCovers == CongestionInv => RtoCovers
<1> SUFFICES ASSUME CongestionInv, rtt.known PROVE RtoCovers  BY DEF RtoCovers
<1>1. /\ rtt.srtt \in Nat /\ rtt.var \in Nat /\ seen.least \in Nat /\ seen.greatest \in Nat
      /\ seen.least <= rtt.srtt /\ rtt.srtt <= seen.greatest /\ rtt.var <= seen.greatest
  BY DEF CongestionInv, CongestionTypeOK, Estimates
<1>2. CurrentRto = Clamped(rtt.srtt + 4 * rtt.var)  BY DEF CurrentRto
<1>3. Clamped(seen.least) <= Clamped(rtt.srtt + 4 * rtt.var)
  BY <1>1, RtoAssumption DEF Clamped, LeastOf, GreatestOf
<1>4. Clamped(rtt.srtt + 4 * rtt.var) <= Clamped(5 * seen.greatest)
  BY <1>1, RtoAssumption DEF Clamped, LeastOf, GreatestOf
<1> QED BY <1>2, <1>3, <1>4 DEF RtoCovers

\* The invariant, for all constants: the rate within its limits, the smoothed
\* round trip between the extremes, and nothing spent that was not granted.
THEOREM CongestionInvariant == CongestionSpec => []CongestionInv
BY CongestionInit_Inv, CongestionNext_Inv, PTL DEF CongestionSpec

\* The media that is sent for the first time stays within the first burst and the
\* highest rate for the time since the first tick, whatever acknowledgements and losses
\* do to the rate (session.cpp:184-187).  Nothing is said of retransmissions and of dummy
\* packets, which do not pass consumeTokens.
THEOREM SpendingBounded == CongestionSpec => []Bucketed
BY CongestionInvariant, CongestionInv_Bucketed, PTL

\* The time-out covers the fastest round trip seen and stays within five times
\* the slowest, up to its own limits, for any sequence of samples.
THEOREM TimeoutCoversPath == CongestionSpec => []RtoCovers
BY CongestionInvariant, CongestionInv_RtoCovers, PTL
=============================================================================
