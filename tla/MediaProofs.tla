----------------------------- MODULE MediaProofs -----------------------------
(***************************************************************************)
(* What the media path of a session and its jitter buffer guarantee: an    *)
(* overrun costs the least important packets (OverrunsCostTheLowest), the  *)
(* scan finds the units of every well-formed file (ScanFindsUnits), and    *)
(* what is captured on the way out and on arrival is those units, frame by *)
(* frame (CapturesWhole, ArrivesWhole).                                    *)
(*                                                                         *)
(* Scan and FlattenSeq are recursive functions, and what they compute is   *)
(* proved by induction.  The induction theorems of the library are about   *)
(* operators, so it is done here with a set: of the numbers for which      *)
(* nothing fails, the least one that is missing contradicts itself.        *)
(***************************************************************************)
EXTENDS MediaPath, JitterBuffer, SequenceTheorems, FiniteSetTheorems,
        WellFoundedInduction, TLAPS

-----------------------------------------------------------------------------
(* Induction over the natural numbers, about sets of them *)

Less == {p \in Nat \X Nat : p[1] < p[2]}

LEMMA LessWellFounded == IsWellFoundedOn(Less, Nat)
BY NatLessThanWellFounded, Zenon DEF Less, OpToRel

LEMMA LessIs == \A m, n \in Nat : m < n => <<m, n>> \in Less
BY DEF Less

\* A set of numbers that is not empty has a least one.
LEMMA LeastNumber ==
    ASSUME NEW S, S \subseteq Nat, S # {}
    PROVE  \E m \in S : \A n \in S : m <= n
<1>1. PICK m \in S : \A n \in S : <<n, m>> \notin Less
  BY WFMin, LessWellFounded
<1>2. SUFFICES ASSUME NEW n \in S PROVE m <= n
  OBVIOUS
<1>3. m \in Nat /\ n \in Nat /\ ~(n < m)
  BY <1>1, LessIs
<1> QED BY <1>3

\* A set that has 0 and with each number the next one has all.
LEMMA SetInduction ==
    ASSUME NEW S, 0 \in S, \A n \in Nat : n \in S => n + 1 \in S
    PROVE  \A n \in Nat : n \in S
<1> SUFFICES ASSUME Nat \ S # {} PROVE FALSE
  OBVIOUS
<1>1. PICK m \in Nat \ S : \A n \in Nat \ S : m <= n
  BY LeastNumber
<1>2. PICK n \in Nat : n + 1 = m
  BY <1>1
<1> QED BY <1>1, <1>2

\* A set that has each number all smaller ones of which it has, has all.
LEMMA StrongSetInduction ==
    ASSUME NEW S, \A n \in Nat : (\A m \in Nat : m < n => m \in S) => n \in S
    PROVE  \A n \in Nat : n \in S
<1> SUFFICES ASSUME Nat \ S # {} PROVE FALSE
  OBVIOUS
<1>1. PICK m \in Nat \ S : \A n \in Nat \ S : m <= n
  BY LeastNumber
<1> QED BY <1>1

-----------------------------------------------------------------------------
(* The jitter buffer *)

\* The packet came before number s of initiator n.
Earlier(p, n, s) == p.from < n \/ (p.from = n /\ p.seq < s)

\* What came before the next packet came before the one after it, and before a SYN.
LEMMA EarlierStays ==
    ASSUME NEW p \in Packets, NEW n \in Nat, NEW s \in Nat, Earlier(p, n, s)
    PROVE  Earlier(p, n, s + 1) /\ Earlier(p, n + 1, 0)
BY DEF Earlier, Packets

\* The order of what was popped and of what waits, the one before the other.
InOrder ==
    /\ Ordered(popped) /\ Ordered(buffer)
    /\ \A i \in 1 .. Len(popped), j \in 1 .. Len(buffer) : Before(popped[i], buffer[j])
    /\ \A i \in 1 .. Len(popped) : Earlier(popped[i], initiator, pushed)
    /\ \A j \in 1 .. Len(buffer) : Earlier(buffer[j], initiator, pushed)

\* What is owed to the listener is of the higher priority and somewhere.
Owed ==
    \A p \in owed : /\ p.priority = 1
                   /\ \/ \E i \in 1 .. Len(popped) : popped[i] = p
                      \/ \E j \in 1 .. Len(buffer) : buffer[j] = p

JitterType ==
    /\ buffer \in Seq(Packets) /\ Len(buffer) <= kMaxBufferSize
    /\ popped \in Seq(Packets) /\ time \in Nat /\ initiator \in Nat /\ pushed \in Nat

JitterInv == JitterType /\ InOrder /\ Owed

\* A sequence without its v-th element.
LEMMA RemoveAtProperties ==
    ASSUME NEW S, NEW s \in Seq(S), NEW v \in 1 .. Len(s)
    PROVE  /\ RemoveAt(s, v) \in Seq(S) /\ Len(RemoveAt(s, v)) = Len(s) - 1
           /\ \A i \in 1 .. Len(s) - 1 : RemoveAt(s, v)[i] = IF i < v THEN s[i] ELSE s[i + 1]
<1>0. Len(s) \in Nat /\ \A i \in 1 .. Len(s) : s[i] \in S
  BY LenProperties, ElementOfSeq
<1>1. /\ SubSeq(s, 1, v - 1) \in Seq(S) /\ Len(SubSeq(s, 1, v - 1)) = v - 1
      /\ \A i \in 1 .. v - 1 : SubSeq(s, 1, v - 1)[i] = s[i]
  <2>1. 1 \in Int /\ v - 1 \in Int /\ \A i \in 1 .. v - 1 : s[i] \in S
    BY <1>0
  <2> QED BY <2>1, SubSeqProperties
<1>2. /\ SubSeq(s, v + 1, Len(s)) \in Seq(S) /\ Len(SubSeq(s, v + 1, Len(s))) = Len(s) - v
      /\ \A i \in 1 .. Len(s) - v : SubSeq(s, v + 1, Len(s))[i] = s[v + i]
  <2>1. v + 1 \in Int /\ Len(s) \in Int /\ \A i \in v + 1 .. Len(s) : s[i] \in S
    BY <1>0
  <2> QED BY <1>0, <2>1, SubSeqProperties
<1> DEFINE t == SubSeq(s, 1, v - 1)
           u == SubSeq(s, v + 1, Len(s))
<1>3. /\ t \o u \in Seq(S) /\ Len(t \o u) = Len(t) + Len(u)
      /\ \A i \in 1 .. Len(t) + Len(u) : (t \o u)[i] = IF i <= Len(t) THEN t[i] ELSE u[i - Len(t)]
  BY <1>1, <1>2, ConcatProperties
<1>4. RemoveAt(s, v) = t \o u
  BY DEF RemoveAt
<1> HIDE DEF t, u
<1>5. Len(t) = v - 1 /\ Len(u) = Len(s) - v
  BY <1>1, <1>2 DEF t, u
<1>6. ASSUME NEW i \in 1 .. Len(s) - 1
      PROVE  (t \o u)[i] = IF i < v THEN s[i] ELSE s[i + 1]
  <2>1. CASE i < v
    <3>1. i <= Len(t) /\ i \in 1 .. Len(t) + Len(u) /\ i \in 1 .. v - 1
      BY <1>0, <1>5, <2>1
    <3>2. (t \o u)[i] = t[i] /\ t[i] = s[i]
      BY <1>1, <1>3, <3>1 DEF t
    <3> QED BY <2>1, <3>2
  <2>2. CASE ~(i < v)
    <3>1. ~(i <= Len(t)) /\ i \in 1 .. Len(t) + Len(u) /\ i - Len(t) \in 1 .. Len(s) - v
          /\ v + (i - Len(t)) = i + 1
      BY <1>0, <1>5, <2>2
    <3>2. (t \o u)[i] = u[i - Len(t)] /\ u[i - Len(t)] = s[v + (i - Len(t))]
      BY <1>2, <1>3, <3>1 DEF u
    <3> QED BY <2>2, <3>1, <3>2
  <2> QED BY <2>1, <2>2
<1>7. t \o u \in Seq(S) /\ Len(t \o u) = Len(s) - 1
  BY <1>0, <1>3, <1>5
<1> QED BY <1>4, <1>6, <1>7, Zenon

\* There is a victim in a full buffer, and it is of the lowest priority there.
LEMMA VictimIsLowest ==
    ASSUME NEW b \in Seq(Packets), b # <<>>
    PROVE  /\ Victim(b) \in 1 .. Len(b)
           /\ \A j \in 1 .. Len(b) : b[Victim(b)].priority <= b[j].priority
<1>1. /\ Len(b) \in Nat \ {0} /\ DOMAIN b = 1 .. Len(b)
      /\ \A i \in 1 .. Len(b) : b[i].priority \in {0, 1}
  <2>1. \A i \in 1 .. Len(b) : b[i] \in Packets
    BY ElementOfSeq
  <2>2. Len(b) \in Nat \ {0} /\ DOMAIN b = 1 .. Len(b)
    BY EmptySeq, LenProperties
  <2> QED BY <2>1, <2>2 DEF Packets, Priorities
<1> DEFINE Lowest(i) == \A j \in DOMAIN b :
                            \/ b[i].priority < b[j].priority
                            \/ b[i].priority = b[j].priority /\ i <= j
           Zeros == {i \in 1 .. Len(b) : b[i].priority = 0}
<1>2. \E i \in DOMAIN b : Lowest(i)
  <2>1. CASE Zeros # {}
    <3>0. Zeros \subseteq Nat
      BY <1>1
    <3>1. PICK i \in Zeros : \A j \in Zeros : i <= j
      BY <2>1, <3>0, LeastNumber, Zenon
    <3>2. ASSUME NEW j \in 1 .. Len(b)
          PROVE  \/ b[i].priority < b[j].priority
                 \/ b[i].priority = b[j].priority /\ i <= j
      <4>1. b[i].priority = 0 /\ b[j].priority \in {0, 1}
        BY <1>1, <3>1
      <4>2. b[j].priority = 0 => i <= j
        BY <3>1
      <4> QED BY <4>1, <4>2
    <3>3. i \in DOMAIN b /\ Lowest(i)
      BY <1>1, <3>1, <3>2
    <3> QED BY <3>3, Zenon
  <2>2. CASE Zeros = {}
    <3>1. \A j \in 1 .. Len(b) : b[j].priority = 1
      BY <1>1, <2>2
    <3>2. 1 \in DOMAIN b
      BY <1>1
    <3>3. \A j \in 1 .. Len(b) : b[1].priority = b[j].priority /\ 1 <= j
      BY <1>1, <3>1
    <3>4. Lowest(1)
      BY <1>1, <3>3
    <3> QED BY <3>2, <3>4, Zenon
  <2> QED BY <2>1, <2>2
<1>3. Victim(b) \in DOMAIN b /\ Lowest(Victim(b))
  <2>1. Victim(b) = CHOOSE i \in DOMAIN b : Lowest(i)
    BY Zenon DEF Victim
  <2> HIDE DEF Lowest
  <2> QED BY <1>2, <2>1
<1>4. ASSUME NEW j \in 1 .. Len(b) PROVE b[Victim(b)].priority <= b[j].priority
  <2>1. /\ b[Victim(b)].priority \in {0, 1} /\ b[j].priority \in {0, 1}
        /\ \/ b[Victim(b)].priority < b[j].priority
           \/ b[Victim(b)].priority = b[j].priority
    BY <1>1, <1>3
  <2> QED BY <2>1
<1> QED BY <1>1, <1>3, <1>4

\* What Push does to the buffer, whichever way it goes.
LEMMA PushEffect ==
    ASSUME JitterInv, NEW p \in Priorities, Push(p)
    PROVE  \E new \in Packets, kept \in Seq(Packets) :
              /\ new = [from |-> initiator, seq |-> pushed, at |-> time, priority |-> p]
              /\ pushed' = pushed + 1 /\ UNCHANGED <<time, initiator, popped>>
              /\ owed' \in {owed, owed \cup {new}} /\ (owed' # owed => p = 1)
              /\ \/ buffer' = buffer /\ (owed' = owed \cup {new} => owed' = owed)
                 \/ buffer' = Append(kept, new) /\ Len(kept) < kMaxBufferSize
              /\ \/ kept = buffer
                 \/ \E v \in 1 .. Len(buffer) :
                       /\ buffer[v].priority = 0 /\ Len(kept) = Len(buffer) - 1
                       /\ \A i \in 1 .. Len(buffer) - 1 :
                             kept[i] = IF i < v THEN buffer[i] ELSE buffer[i + 1]
<1> DEFINE new == [from |-> initiator, seq |-> pushed, at |-> time, priority |-> p]
           room == Len(buffer) < kMaxBufferSize
           evicts == ~room /\ buffer[Victim(buffer)].priority < p
           kept == IF evicts THEN RemoveAt(buffer, Victim(buffer)) ELSE buffer
<1>1. /\ buffer \in Seq(Packets) /\ Len(buffer) \in Nat /\ Len(buffer) <= kMaxBufferSize
      /\ DOMAIN buffer = 1 .. Len(buffer)
      /\ \A i \in 1 .. Len(buffer) : buffer[i].priority \in {0, 1}
  <2>1. buffer \in Seq(Packets) /\ Len(buffer) <= kMaxBufferSize
    BY DEF JitterInv, JitterType
  <2>2. \A i \in 1 .. Len(buffer) : buffer[i] \in Packets
    BY <2>1, ElementOfSeq
  <2> QED BY <2>1, <2>2, LenProperties DEF Packets, Priorities
<1>2. new \in Packets /\ p \in {0, 1}
  BY DEF Packets, Priorities, JitterInv, JitterType
<1>3. /\ pushed' = pushed + 1 /\ UNCHANGED <<time, initiator, popped>>
      /\ buffer' = IF room \/ evicts THEN Append(kept, new) ELSE buffer
      /\ owed' = IF p = 1 /\ (room \/ \E i \in DOMAIN buffer : buffer[i].priority = 0)
                 THEN owed \cup {new} ELSE owed
  BY Zenon DEF Push
<1>4. ~room => buffer # <<>>
  BY <1>1, JitterAssumption, EmptySeq
<1>5. ~room => /\ Victim(buffer) \in 1 .. Len(buffer)
               /\ \A j \in 1 .. Len(buffer) : buffer[Victim(buffer)].priority <= buffer[j].priority
  BY <1>1, <1>4, VictimIsLowest
<1>6. evicts => /\ buffer[Victim(buffer)].priority = 0
                /\ kept \in Seq(Packets) /\ Len(kept) = Len(buffer) - 1
                /\ \A i \in 1 .. Len(buffer) - 1 :
                      kept[i] = IF i < Victim(buffer) THEN buffer[i] ELSE buffer[i + 1]
  <2> SUFFICES ASSUME evicts
               PROVE  /\ buffer[Victim(buffer)].priority = 0
                      /\ kept \in Seq(Packets) /\ Len(kept) = Len(buffer) - 1
                      /\ \A i \in 1 .. Len(buffer) - 1 :
                            kept[i] = IF i < Victim(buffer) THEN buffer[i] ELSE buffer[i + 1]
    OBVIOUS
  <2>1. kept = RemoveAt(buffer, Victim(buffer)) /\ Victim(buffer) \in 1 .. Len(buffer)
    BY <1>5
  <2>2. buffer[Victim(buffer)].priority = 0
    BY <1>1, <1>2, <2>1
  <2>3. buffer \in Seq(Packets)
    BY <1>1
  <2> HIDE DEF kept
  <2>4. /\ RemoveAt(buffer, Victim(buffer)) \in Seq(Packets)
        /\ Len(RemoveAt(buffer, Victim(buffer))) = Len(buffer) - 1
        /\ \A i \in 1 .. Len(buffer) - 1 : RemoveAt(buffer, Victim(buffer))[i]
              = IF i < Victim(buffer) THEN buffer[i] ELSE buffer[i + 1]
    BY <2>1, <2>3, RemoveAtProperties
  <2> QED BY <2>1, <2>2, <2>4, Zenon
<1>7. ~evicts => kept = buffer
  OBVIOUS
<1>8. ~room /\ p = 1 /\ (\E i \in DOMAIN buffer : buffer[i].priority = 0) => evicts
  <2> SUFFICES ASSUME ~room, p = 1, NEW i \in DOMAIN buffer, buffer[i].priority = 0
               PROVE  buffer[Victim(buffer)].priority < p
    OBVIOUS
  <2>1. /\ buffer[Victim(buffer)].priority \in {0, 1}
        /\ buffer[Victim(buffer)].priority <= buffer[i].priority
    BY <1>1, <1>5
  <2> QED BY <2>1
<1>9. kept \in Seq(Packets) /\ (room \/ evicts => Len(kept) < kMaxBufferSize)
  <2>1. CASE evicts
    <3>1. kept \in Seq(Packets) /\ Len(kept) = Len(buffer) - 1
      BY <1>6, <2>1, Zenon
    <3> HIDE DEF kept
    <3> QED BY <1>1, <3>1, JitterAssumption
  <2>2. CASE ~evicts
    <3>1. kept = buffer
      BY <1>7, <2>2, Zenon
    <3> HIDE DEF kept
    <3> QED BY <1>1, <2>2, <3>1
  <2> QED BY <2>1, <2>2, Zenon
<1> HIDE DEF kept, evicts, room, new
<1>10. new = [from |-> initiator, seq |-> pushed, at |-> time, priority |-> p]
  BY DEF new
<1>11. owed' \in {owed, owed \cup {new}} /\ (owed' # owed => p = 1)
  BY <1>3
<1>12. \/ buffer' = buffer /\ (owed' = owed \cup {new} => owed' = owed)
       \/ buffer' = Append(kept, new) /\ Len(kept) < kMaxBufferSize
  BY <1>3, <1>8, <1>9
<1>13. \/ kept = buffer
       \/ \E v \in 1 .. Len(buffer) :
             /\ buffer[v].priority = 0 /\ Len(kept) = Len(buffer) - 1
             /\ \A i \in 1 .. Len(buffer) - 1 :
                   kept[i] = IF i < v THEN buffer[i] ELSE buffer[i + 1]
  <2>1. CASE evicts
    <3>1. Victim(buffer) \in 1 .. Len(buffer)
      BY <1>5, <2>1 DEF evicts
    <3> QED BY <1>6, <2>1, <3>1
  <2> QED BY <1>7, <2>1
<1> QED BY <1>2, <1>3, <1>9, <1>10, <1>11, <1>12, <1>13, Zenon

\* A push keeps the order, and nothing that is owed is lost.
LEMMA PushKeeps ==
    ASSUME JitterInv, NEW p \in Priorities, Push(p)
    PROVE  JitterInv'
<1>1. PICK new \in Packets, kept \in Seq(Packets) :
              /\ new = [from |-> initiator, seq |-> pushed, at |-> time, priority |-> p]
              /\ pushed' = pushed + 1 /\ UNCHANGED <<time, initiator, popped>>
              /\ owed' \in {owed, owed \cup {new}} /\ (owed' # owed => p = 1)
              /\ \/ buffer' = buffer /\ (owed' = owed \cup {new} => owed' = owed)
                 \/ buffer' = Append(kept, new) /\ Len(kept) < kMaxBufferSize
              /\ \/ kept = buffer
                 \/ \E v \in 1 .. Len(buffer) :
                       /\ buffer[v].priority = 0 /\ Len(kept) = Len(buffer) - 1
                       /\ \A i \in 1 .. Len(buffer) - 1 :
                             kept[i] = IF i < v THEN buffer[i] ELSE buffer[i + 1]
  BY PushEffect
<1>2. /\ buffer \in Seq(Packets) /\ Len(buffer) \in Nat /\ Len(buffer) <= kMaxBufferSize
      /\ DOMAIN buffer = 1 .. Len(buffer) /\ \A i \in 1 .. Len(buffer) : buffer[i] \in Packets
      /\ popped \in Seq(Packets) /\ Len(popped) \in Nat
      /\ DOMAIN popped = 1 .. Len(popped) /\ \A i \in 1 .. Len(popped) : popped[i] \in Packets
      /\ time \in Nat /\ initiator \in Nat /\ pushed \in Nat /\ Len(kept) \in Nat
  <2>1. /\ buffer \in Seq(Packets) /\ Len(buffer) <= kMaxBufferSize /\ popped \in Seq(Packets)
        /\ time \in Nat /\ initiator \in Nat /\ pushed \in Nat
    BY DEF JitterInv, JitterType
  <2>2. /\ \A i \in 1 .. Len(buffer) : buffer[i] \in Packets
        /\ \A i \in 1 .. Len(popped) : popped[i] \in Packets
    BY <2>1, ElementOfSeq
  <2> QED BY <2>1, <2>2, LenProperties
<1>3. /\ new.priority = p /\ ~Earlier(new, initiator, pushed)
      /\ Earlier(new, initiator', pushed')
      /\ pushed' = pushed + 1 /\ time' = time /\ initiator' = initiator /\ popped' = popped
      /\ \A q \in Packets : Earlier(q, initiator, pushed) =>
            Earlier(q, initiator', pushed') /\ Before(q, new)
      /\ initiator \in Nat /\ pushed \in Nat /\ Len(kept) \in Nat
  <2>1. new = [from |-> initiator, seq |-> pushed, at |-> time, priority |-> p]
    BY <1>1
  <2>2. pushed' = pushed + 1 /\ time' = time /\ initiator' = initiator /\ popped' = popped
    BY <1>1
  <2>3. initiator \in Nat /\ pushed \in Nat /\ Len(kept) \in Nat
    BY <1>2
  <2>4. new.from = initiator /\ new.seq = pushed /\ new.priority = p
    BY <2>1
  <2>5. ~Earlier(new, initiator, pushed) /\ Earlier(new, initiator, pushed + 1)
    BY <2>3, <2>4 DEF Earlier
  <2>6. ASSUME NEW q \in Packets, Earlier(q, initiator, pushed)
        PROVE  Earlier(q, initiator, pushed + 1) /\ Before(q, new)
    <3>1. Before(q, new)
      BY <2>4, <2>6 DEF Earlier, Before
    <3> QED BY <2>3, <2>6, <3>1, EarlierStays
  <2> QED BY <2>2, <2>3, <2>4, <2>5, <2>6
\* Each packet that is kept was in the buffer, and their order is the same.
<1>4. PICK from \in [1 .. Len(kept) -> 1 .. Len(buffer)] :
        /\ \A i \in 1 .. Len(kept) : kept[i] = buffer[from[i]]
        /\ \A i, j \in 1 .. Len(kept) : i < j => from[i] < from[j]
        /\ \A k \in 1 .. Len(buffer) :
              buffer[k].priority = 1 => \E i \in 1 .. Len(kept) : from[i] = k
  <2>1. CASE kept = buffer
    <3> DEFINE id == [i \in 1 .. Len(kept) |-> i]
    <3>1. /\ id \in [1 .. Len(kept) -> 1 .. Len(buffer)]
          /\ \A i \in 1 .. Len(kept) : id[i] = i
      BY <2>1
    <3> HIDE DEF id
    <3> QED BY <1>2, <2>1, <3>1
  <2>2. ASSUME NEW v \in 1 .. Len(buffer),
               buffer[v].priority = 0, Len(kept) = Len(buffer) - 1,
               \A i \in 1 .. Len(buffer) - 1 :
                  kept[i] = IF i < v THEN buffer[i] ELSE buffer[i + 1]
        PROVE  \E from \in [1 .. Len(kept) -> 1 .. Len(buffer)] :
                 /\ \A i \in 1 .. Len(kept) : kept[i] = buffer[from[i]]
                 /\ \A i, j \in 1 .. Len(kept) : i < j => from[i] < from[j]
                 /\ \A k \in 1 .. Len(buffer) :
                       buffer[k].priority = 1 => \E i \in 1 .. Len(kept) : from[i] = k
    <3> DEFINE skip == [i \in 1 .. Len(kept) |-> IF i < v THEN i ELSE i + 1]
    <3>1. /\ skip \in [1 .. Len(kept) -> 1 .. Len(buffer)]
          /\ \A i \in 1 .. Len(kept) : skip[i] = IF i < v THEN i ELSE i + 1
      BY <1>2, <2>2
    <3> HIDE DEF skip
    <3>2. \A i \in 1 .. Len(kept) : kept[i] = buffer[skip[i]]
      BY <2>2, <3>1
    <3>3. \A i, j \in 1 .. Len(kept) : i < j => skip[i] < skip[j]
      BY <1>2, <3>1
    <3>4. ASSUME NEW k \in 1 .. Len(buffer), buffer[k].priority = 1
          PROVE  \E i \in 1 .. Len(kept) : skip[i] = k
      <4>1. k # v
        BY <2>2, <3>4
      <4>2. CASE k < v
        <5>1. k \in 1 .. Len(kept) /\ skip[k] = k
          BY <1>2, <2>2, <3>1, <4>2
        <5> QED BY <5>1
      <4>3. CASE k > v
        <5>1. k - 1 \in 1 .. Len(kept) /\ skip[k - 1] = k
          BY <1>2, <2>2, <3>1, <4>3
        <5> QED BY <5>1
      <4> QED BY <4>1, <4>2, <4>3
    <3> QED BY <3>1, <3>2, <3>3, <3>4
  <2> QED BY <1>1, <2>1, <2>2
<1>5. CASE buffer' = buffer /\ owed' = owed
  <2>1. JitterType'
    BY <1>3, <1>5 DEF JitterInv, JitterType
  <2>2. InOrder'
    <3>1. /\ \A i \in 1 .. Len(popped) : Earlier(popped[i], initiator', pushed')
          /\ \A j \in 1 .. Len(buffer) : Earlier(buffer[j], initiator', pushed')
      BY <1>2, <1>3 DEF JitterInv, InOrder
    <3> QED BY <1>3, <1>5, <3>1 DEF JitterInv, InOrder, Ordered
  <2>3. Owed'
    BY <1>3, <1>5 DEF JitterInv, Owed
  <2> QED BY <2>1, <2>2, <2>3 DEF JitterInv
<1>6. CASE buffer' = Append(kept, new) /\ Len(kept) < kMaxBufferSize
  <2>1. /\ buffer' \in Seq(Packets) /\ Len(buffer') = Len(kept) + 1
        /\ \A i \in 1 .. Len(kept) : buffer'[i] = kept[i]
        /\ buffer'[Len(kept) + 1] = new
    BY <1>6, AppendProperties
  <2>2. DOMAIN buffer' = 1 .. Len(kept) + 1
    BY <2>1, LenProperties
  <2>3. JitterType'
    <3>1. Len(buffer') <= kMaxBufferSize
      BY <1>2, <1>6, <2>1, JitterAssumption
    <3> QED BY <1>2, <1>3, <2>1, <3>1 DEF JitterType
  <2>4. \A i \in 1 .. Len(kept) : /\ from[i] \in 1 .. Len(buffer) /\ buffer'[i] = buffer[from[i]]
                                 /\ buffer'[i] \in Packets /\ Earlier(buffer'[i], initiator, pushed)
    <3> SUFFICES ASSUME NEW i \in 1 .. Len(kept)
                 PROVE  /\ from[i] \in 1 .. Len(buffer) /\ buffer'[i] = buffer[from[i]]
                        /\ buffer'[i] \in Packets /\ Earlier(buffer'[i], initiator, pushed)
      OBVIOUS
    <3>1. from[i] \in 1 .. Len(buffer) /\ buffer'[i] = buffer[from[i]]
      BY <1>4, <2>1
    <3>2. Earlier(buffer[from[i]], initiator, pushed)
      BY <3>1 DEF JitterInv, InOrder
    <3>3. buffer[from[i]] \in Packets
      BY <1>2, <3>1
    <3> QED BY <3>1, <3>2, <3>3, Zenon
  <2>5. Ordered(buffer')
    <3> SUFFICES ASSUME NEW i \in 1 .. Len(kept) + 1, NEW j \in 1 .. Len(kept) + 1, i < j
                 PROVE  Before(buffer'[i], buffer'[j])
      BY <2>2 DEF Ordered
    <3>1. CASE j = Len(kept) + 1
      <4>1. i \in 1 .. Len(kept)
        BY <1>2, <3>1
      <4> QED BY <1>3, <2>1, <2>4, <3>1, <4>1
    <3>2. CASE j # Len(kept) + 1
      <4>0. i \in 1 .. Len(kept) /\ j \in 1 .. Len(kept)
        <5>1. i \in Nat \ {0} /\ j \in Nat \ {0} /\ i <= Len(kept) + 1 /\ j <= Len(kept) + 1
          BY <1>3
        <5> QED BY <1>3, <3>2, <5>1
      <4>1. from[i] < from[j]
        BY <1>4, <4>0
      <4>2. Before(buffer[from[i]], buffer[from[j]])
        BY <1>2, <2>4, <4>0, <4>1 DEF JitterInv, InOrder, Ordered
      <4> QED BY <2>4, <4>0, <4>2
    <3> QED BY <3>1, <3>2
  <2>6. \A i \in 1 .. Len(popped), j \in 1 .. Len(kept) + 1 : Before(popped[i], buffer'[j])
    <3> SUFFICES ASSUME NEW i \in 1 .. Len(popped), NEW j \in 1 .. Len(kept) + 1
                 PROVE  Before(popped[i], buffer'[j])
      OBVIOUS
    <3>1. CASE j = Len(kept) + 1
      <4>1. popped[i] \in Packets /\ Earlier(popped[i], initiator, pushed)
        BY <1>2 DEF JitterInv, InOrder
      <4> QED BY <1>3, <2>1, <3>1, <4>1
    <3>2. CASE j # Len(kept) + 1
      <4>1. j \in 1 .. Len(kept)
        BY <1>2, <3>2
      <4> QED BY <2>4, <4>1 DEF JitterInv, InOrder
    <3> QED BY <3>1, <3>2
  <2>7. \A i \in 1 .. Len(popped) : Earlier(popped[i], initiator', pushed')
    BY <1>2, <1>3 DEF JitterInv, InOrder
  <2>8. \A j \in 1 .. Len(kept) + 1 : Earlier(buffer'[j], initiator', pushed')
    <3> SUFFICES ASSUME NEW j \in 1 .. Len(kept) + 1 PROVE Earlier(buffer'[j], initiator', pushed')
      OBVIOUS
    <3>1. CASE j = Len(kept) + 1
      BY <1>2, <1>3, <2>1, <3>1
    <3>2. CASE j # Len(kept) + 1
      <4>1. j \in 1 .. Len(kept)
        BY <1>2, <3>2
      <4> QED BY <1>3, <2>4, <4>1
    <3> QED BY <3>1, <3>2
  <2>9. InOrder'
    BY <1>1, <2>1, <2>5, <2>6, <2>7, <2>8 DEF InOrder, JitterInv
  <2>10. Owed'
    <3> SUFFICES ASSUME NEW q \in owed'
                 PROVE  /\ q.priority = 1
                        /\ \/ \E i \in 1 .. Len(popped) : popped[i] = q
                           \/ \E j \in 1 .. Len(kept) + 1 : buffer'[j] = q
      BY <1>1, <2>1 DEF Owed
    <3>1. CASE q \in owed
      <4>1. CASE \E i \in 1 .. Len(popped) : popped[i] = q
        BY <3>1, <4>1 DEF JitterInv, Owed
      <4>2. ASSUME NEW k \in 1 .. Len(buffer), buffer[k] = q
            PROVE  q.priority = 1 /\ \E j \in 1 .. Len(kept) + 1 : buffer'[j] = q
        <5>1. q.priority = 1
          BY <3>1 DEF JitterInv, Owed
        <5>2. PICK i \in 1 .. Len(kept) : from[i] = k
          BY <1>4, <4>2, <5>1
        <5>3. i \in 1 .. Len(kept) + 1 /\ buffer'[i] = q
          BY <1>2, <2>4, <4>2, <5>2
        <5> QED BY <5>1, <5>3
      <4> QED BY <3>1, <4>1, <4>2 DEF JitterInv, Owed
    <3>2. CASE q \notin owed
      <4>1. q = new /\ p = 1
        BY <1>1, <3>2
      <4>2. Len(kept) + 1 \in 1 .. Len(kept) + 1
        BY <1>2
      <4> QED BY <1>3, <2>1, <4>1, <4>2
    <3> QED BY <3>1, <3>2
  <2> QED BY <2>3, <2>9, <2>10 DEF JitterInv
<1>7. buffer' = buffer => owed' = owed
  <2> SUFFICES ASSUME buffer' = buffer, buffer' = Append(kept, new) PROVE FALSE
    BY <1>1
  <2>1. buffer'[Len(kept) + 1] = new /\ Len(buffer') = Len(kept) + 1
    BY AppendProperties
  <2>2. Len(kept) + 1 \in 1 .. Len(buffer)
    BY <1>2, <2>1
  <2>3. Earlier(buffer[Len(kept) + 1], initiator, pushed)
    BY <2>2 DEF JitterInv, InOrder
  <2> QED BY <1>2, <1>3, <2>1, <2>3
<1> QED BY <1>1, <1>5, <1>6, <1>7

\* What is popped leaves the front of the buffer for the end of what was popped.
LEMMA PopKeeps ==
    ASSUME JitterInv, Pop
    PROVE  JitterInv'
<1>1. /\ buffer \in Seq(Packets) /\ buffer # <<>> /\ Len(buffer) <= kMaxBufferSize
      /\ popped \in Seq(Packets) /\ time \in Nat /\ initiator \in Nat /\ pushed \in Nat
      /\ buffer' = Tail(buffer) /\ popped' = Append(popped, Head(buffer))
      /\ time' = time /\ initiator' = initiator /\ pushed' = pushed /\ owed' = owed
  BY DEF JitterInv, JitterType, Pop
<1>2. Len(buffer) \in Nat \ {0} /\ Len(popped) \in Nat /\ Head(buffer) = buffer[1]
  BY <1>1, EmptySeq, LenProperties
<1>3. /\ buffer' \in Seq(Packets) /\ Len(buffer') = Len(buffer) - 1
      /\ \A i \in 1 .. Len(buffer') : buffer'[i] = buffer[i + 1]
      /\ Head(buffer) \in Packets
  BY <1>1, HeadTailProperties
<1>4. /\ popped' \in Seq(Packets) /\ Len(popped') = Len(popped) + 1
      /\ \A i \in 1 .. Len(popped) : popped'[i] = popped[i]
      /\ popped'[Len(popped) + 1] = buffer[1]
  BY <1>1, <1>2, <1>3, AppendProperties
<1>5. /\ DOMAIN buffer = 1 .. Len(buffer) /\ DOMAIN buffer' = 1 .. Len(buffer) - 1
      /\ DOMAIN popped = 1 .. Len(popped) /\ DOMAIN popped' = 1 .. Len(popped) + 1
  BY <1>1, <1>3, <1>4, LenProperties
<1>6. JitterType'
  BY <1>1, <1>2, <1>3, <1>4, JitterAssumption DEF JitterType
<1>7. /\ \A i, j \in 1 .. Len(buffer) : i < j => Before(buffer[i], buffer[j])
      /\ \A i, j \in 1 .. Len(popped) : i < j => Before(popped[i], popped[j])
      /\ \A i \in 1 .. Len(popped), j \in 1 .. Len(buffer) : Before(popped[i], buffer[j])
      /\ \A i \in 1 .. Len(popped) : Earlier(popped[i], initiator, pushed)
      /\ \A j \in 1 .. Len(buffer) : Earlier(buffer[j], initiator, pushed)
  BY <1>5 DEF JitterInv, InOrder, Ordered
<1>8. /\ 1 \in 1 .. Len(buffer)
      /\ \A j \in 1 .. Len(buffer) - 1 : j + 1 \in 1 .. Len(buffer) /\ 1 < j + 1
      /\ \A i \in 1 .. Len(popped) + 1 : i \in 1 .. Len(popped) \/ i = Len(popped) + 1
  BY <1>2
<1>9. InOrder'
  <2>1. Ordered(popped')
    <3> SUFFICES ASSUME NEW i \in 1 .. Len(popped) + 1, NEW j \in 1 .. Len(popped) + 1, i < j
                 PROVE  Before(popped'[i], popped'[j])
      BY <1>5 DEF Ordered
    <3>1. i \in 1 .. Len(popped)
      BY <1>2
    <3>2. CASE j = Len(popped) + 1
      BY <1>4, <1>7, <1>8, <3>1, <3>2
    <3>3. CASE j \in 1 .. Len(popped)
      BY <1>4, <1>7, <3>1, <3>3
    <3> QED BY <1>8, <3>2, <3>3
  <2>2. Ordered(buffer')
    <3> SUFFICES ASSUME NEW i \in 1 .. Len(buffer) - 1, NEW j \in 1 .. Len(buffer) - 1, i < j
                 PROVE  Before(buffer'[i], buffer'[j])
      BY <1>5 DEF Ordered
    <3>1. i + 1 < j + 1
      BY <1>2
    <3> QED BY <1>3, <1>7, <1>8, <3>1
  <2>3. \A i \in 1 .. Len(popped) + 1, j \in 1 .. Len(buffer) - 1 : Before(popped'[i], buffer'[j])
    BY <1>3, <1>4, <1>7, <1>8
  <2>4. \A i \in 1 .. Len(popped) + 1 : Earlier(popped'[i], initiator, pushed)
    BY <1>4, <1>7, <1>8
  <2>5. \A j \in 1 .. Len(buffer) - 1 : Earlier(buffer'[j], initiator, pushed)
    BY <1>3, <1>7, <1>8
  <2> QED BY <1>1, <1>3, <1>4, <2>1, <2>2, <2>3, <2>4, <2>5 DEF InOrder
<1>10. Owed'
  <2> SUFFICES ASSUME NEW q \in owed
               PROVE  /\ q.priority = 1
                      /\ \/ \E i \in 1 .. Len(popped) + 1 : popped'[i] = q
                         \/ \E j \in 1 .. Len(buffer) - 1 : buffer'[j] = q
    <3>1. owed' = owed /\ Len(popped') = Len(popped) + 1 /\ Len(buffer') = Len(buffer) - 1
      BY <1>1, <1>3, <1>4
    <3> QED BY <3>1, Zenon DEF Owed
  <2>1. /\ q.priority = 1
        /\ \/ \E i \in 1 .. Len(popped) : popped[i] = q
           \/ \E j \in 1 .. Len(buffer) : buffer[j] = q
    BY DEF JitterInv, Owed
  <2>2. ASSUME NEW i \in 1 .. Len(popped), popped[i] = q
        PROVE  \E k \in 1 .. Len(popped) + 1 : popped'[k] = q
    <3>1. i \in 1 .. Len(popped) + 1
      BY <1>2
    <3> QED BY <1>4, <2>2, <3>1
  <2>3. ASSUME NEW j \in 1 .. Len(buffer), buffer[j] = q
        PROVE  \/ \E k \in 1 .. Len(popped) + 1 : popped'[k] = q
               \/ \E k \in 1 .. Len(buffer) - 1 : buffer'[k] = q
    <3>1. CASE j = 1
      <4>1. Len(popped) + 1 \in 1 .. Len(popped) + 1
        BY <1>2
      <4> QED BY <1>4, <2>3, <3>1, <4>1
    <3>2. CASE j # 1
      <4>1. j - 1 \in 1 .. Len(buffer) - 1 /\ (j - 1) + 1 = j
        BY <1>2, <3>2
      <4>2. buffer'[j - 1] = q
        BY <1>3, <2>3, <4>1
      <4> QED BY <4>1, <4>2
    <3> QED BY <3>1, <3>2
  <2> QED BY <2>1, <2>2, <2>3
<1> QED BY <1>6, <1>9, <1>10 DEF JitterInv

\* A SYN leaves everything where it is: what is in the buffer came before number 0 of
\* the next initiator.
LEMMA RestartKeeps ==
    ASSUME JitterInv, Restart
    PROVE  JitterInv'
<1>1. /\ buffer \in Seq(Packets) /\ popped \in Seq(Packets)
      /\ initiator \in Nat /\ pushed \in Nat
  BY DEF JitterInv, JitterType
<1>2. /\ \A i \in 1 .. Len(buffer) : buffer[i] \in Packets
      /\ \A i \in 1 .. Len(popped) : popped[i] \in Packets
  BY <1>1, ElementOfSeq
<1>3. /\ initiator' = initiator + 1 /\ pushed' = 0
      /\ buffer' = buffer /\ time' = time /\ owed' = owed /\ popped' = popped
  BY DEF Restart
<1>4. /\ \A i \in 1 .. Len(popped) : Earlier(popped[i], initiator', pushed')
      /\ \A j \in 1 .. Len(buffer) : Earlier(buffer[j], initiator', pushed')
  BY <1>1, <1>2, <1>3, EarlierStays DEF JitterInv, InOrder
<1>5. InOrder'
  BY <1>3, <1>4 DEF JitterInv, InOrder, Ordered
<1> QED BY <1>1, <1>3, <1>5 DEF JitterInv, JitterType, Owed

\* Packets come out of the jitter buffer initiator by initiator and in the order of
\* their numbers, and an overrun costs no packet of a keyframe or of audio as long as
\* there is another in the buffer (jitter_buffer.cpp:22-35, 41-62, session.cpp:292-305).
THEOREM OverrunsCostTheLowest == JitterSpec => []Playout
<1>1. JitterInit => JitterInv
  <2> SUFFICES ASSUME JitterInit PROVE JitterInv
    OBVIOUS
  <2>1. /\ buffer = <<>> /\ popped = <<>> /\ owed = {}
        /\ time = 0 /\ initiator = 0 /\ pushed = 0
        /\ <<>> \in Seq(Packets) /\ Len(<<>>) = 0 /\ DOMAIN <<>> = {}
    BY EmptySeq DEF JitterInit
  <2> QED BY <2>1, JitterAssumption DEF JitterInv, JitterType, InOrder, Owed, Ordered
<1>2. JitterInv /\ [JitterNext]_jitterVars => JitterInv'
  <2> SUFFICES ASSUME JitterInv, [JitterNext]_jitterVars PROVE JitterInv'
    OBVIOUS
  <2>1. ASSUME NEW p \in Priorities, Push(p) PROVE JitterInv'
    BY <2>1, PushKeeps
  <2>2. CASE Pop
    BY <2>2, PopKeeps
  <2>3. CASE Pass \/ UNCHANGED jitterVars
    <3>1. /\ buffer' = buffer /\ popped' = popped /\ owed' = owed
          /\ initiator' = initiator /\ pushed' = pushed /\ time' \in Nat
      BY <2>3 DEF Pass, jitterVars, JitterInv, JitterType
    <3> QED BY <3>1 DEF JitterInv, JitterType, InOrder, Owed, Ordered
  <2>4. CASE Restart
    BY <2>4, RestartKeeps
  <2> QED BY <2>1, <2>2, <2>3, <2>4 DEF JitterNext
<1>3. JitterInv => Playout
  <2> SUFFICES ASSUME JitterInv PROVE Playout
    OBVIOUS
  <2> DEFINE all == popped \o buffer
  <2>1. /\ buffer \in Seq(Packets) /\ Len(buffer) \in Nat /\ DOMAIN buffer = 1 .. Len(buffer)
        /\ popped \in Seq(Packets) /\ Len(popped) \in Nat /\ DOMAIN popped = 1 .. Len(popped)
    BY LenProperties DEF JitterInv, JitterType
  <2>2. /\ all \in Seq(Packets) /\ Len(all) = Len(popped) + Len(buffer)
        /\ \A i \in 1 .. Len(popped) + Len(buffer) :
              all[i] = IF i <= Len(popped) THEN popped[i] ELSE buffer[i - Len(popped)]
    BY <2>1, ConcatProperties
  <2> HIDE DEF all
  <2>3. DOMAIN all = 1 .. Len(popped) + Len(buffer)
    BY <2>2, LenProperties
  <2>4. ASSUME NEW i \in 1 .. Len(popped) + Len(buffer), NEW j \in 1 .. Len(popped) + Len(buffer),
               i < j
        PROVE  Before(all[i], all[j])
    <3>1. CASE j <= Len(popped)
      <4>1. i \in 1 .. Len(popped) /\ j \in 1 .. Len(popped) /\ all[i] = popped[i] /\ all[j] = popped[j]
        BY <2>1, <2>2, <2>4, <3>1
      <4> QED BY <2>1, <2>4, <4>1 DEF JitterInv, InOrder, Ordered
    <3>2. CASE i <= Len(popped) /\ ~(j <= Len(popped))
      <4>1. /\ i \in 1 .. Len(popped) /\ j - Len(popped) \in 1 .. Len(buffer)
            /\ all[i] = popped[i] /\ all[j] = buffer[j - Len(popped)]
        BY <2>1, <2>2, <3>2
      <4> QED BY <4>1 DEF JitterInv, InOrder
    <3>3. CASE ~(i <= Len(popped))
      <4>1. /\ i - Len(popped) \in 1 .. Len(buffer) /\ j - Len(popped) \in 1 .. Len(buffer)
            /\ i - Len(popped) < j - Len(popped)
            /\ all[i] = buffer[i - Len(popped)] /\ all[j] = buffer[j - Len(popped)]
        BY <2>1, <2>2, <2>4, <3>3
      <4> QED BY <2>1, <4>1 DEF JitterInv, InOrder, Ordered
    <3> QED BY <3>1, <3>2, <3>3
  <2>5. ASSUME NEW q \in owed PROVE \E i \in 1 .. Len(all) : all[i] = q
    <3>1. ASSUME NEW i \in 1 .. Len(popped), popped[i] = q
          PROVE  i \in 1 .. Len(all) /\ all[i] = q
      BY <2>1, <2>2, <3>1
    <3>2. ASSUME NEW j \in 1 .. Len(buffer), buffer[j] = q
          PROVE  Len(popped) + j \in 1 .. Len(all) /\ all[Len(popped) + j] = q
      <4>1. /\ Len(popped) + j \in 1 .. Len(popped) + Len(buffer)
            /\ ~(Len(popped) + j <= Len(popped)) /\ (Len(popped) + j) - Len(popped) = j
        BY <2>1
      <4> QED BY <2>2, <3>2, <4>1
    <3> QED BY <3>1, <3>2 DEF JitterInv, Owed
  <2>6. Ordered(all)
    BY <2>3, <2>4 DEF Ordered
  <2> QED BY <2>5, <2>6 DEF Playout, Contains, all
<1> QED BY <1>1, <1>2, <1>3, PTL DEF JitterSpec

-----------------------------------------------------------------------------
(* Start codes *)

Byte == 0 .. 255

\* A sequence that is the tuple of its three or four elements.
LEMMA ShortTuples ==
    ASSUME NEW s \in Seq(Byte)
    PROVE  /\ s = <<0, 0, 1>> <=> Len(s) = 3 /\ s[1] = 0 /\ s[2] = 0 /\ s[3] = 1
           /\ s = <<0, 0, 0, 1>>
                <=> Len(s) = 4 /\ s[1] = 0 /\ s[2] = 0 /\ s[3] = 0 /\ s[4] = 1
<1>1. /\ <<0, 0, 1>> \in Seq(Byte) /\ Len(<<0, 0, 1>>) = 3
      /\ <<0, 0, 0, 1>> \in Seq(Byte) /\ Len(<<0, 0, 0, 1>>) = 4
  BY DEF Byte
<1>2. /\ Len(s) = 3 /\ s[1] = 0 /\ s[2] = 0 /\ s[3] = 1
        => \A i \in 1 .. Len(s) : s[i] = <<0, 0, 1>>[i]
      /\ Len(s) = 4 /\ s[1] = 0 /\ s[2] = 0 /\ s[3] = 0 /\ s[4] = 1
        => \A i \in 1 .. Len(s) : s[i] = <<0, 0, 0, 1>>[i]
  OBVIOUS
<1> QED BY <1>1, <1>2, SeqEqual

\* Part of a file.
LEMMA PartOfFile ==
    ASSUME NEW d \in Seq(Byte), NEW i \in Nat, NEW j \in Nat, j <= Len(d)
    PROVE  /\ SubSeq(d, i + 1, j) \in Seq(Byte)
           /\ Len(SubSeq(d, i + 1, j)) = IF i <= j THEN j - i ELSE 0
           /\ \A k \in 1 .. j - i : SubSeq(d, i + 1, j)[k] = d[i + k]
<1>1. i + 1 \in Int /\ j \in Int /\ \A k \in i + 1 .. j : d[k] \in Byte
  BY ElementOfSeq, LenProperties
<1>2. /\ SubSeq(d, i + 1, j) \in Seq(Byte)
      /\ Len(SubSeq(d, i + 1, j)) = IF i + 1 <= j THEN j - (i + 1) + 1 ELSE 0
      /\ \A k \in 1 .. j - (i + 1) + 1 : SubSeq(d, i + 1, j)[k] = d[(i + 1) + k - 1]
  BY <1>1, SubSeqProperties
<1>3. \A k \in Nat : (i + 1) + k - 1 = i + k
  OBVIOUS
<1>4. j - (i + 1) + 1 = j - i
  OBVIOUS
<1> QED BY <1>2, <1>3, <1>4

LEMMA MarkIs ==
    ASSUME NEW d \in Seq(Byte), NEW i \in Nat
    PROVE  i \in Marks(d) <=> /\ i + 3 <= Len(d)
                              /\ d[i + 1] = 0 /\ d[i + 2] = 0 /\ d[i + 3] = 1
<1>1. CASE i + 3 <= Len(d)
  <2>1. /\ SubSeq(d, i + 1, i + 3) \in Seq(Byte) /\ Len(SubSeq(d, i + 1, i + 3)) = 3
        /\ SubSeq(d, i + 1, i + 3)[1] = d[i + 1]
        /\ SubSeq(d, i + 1, i + 3)[2] = d[i + 2]
        /\ SubSeq(d, i + 1, i + 3)[3] = d[i + 3]
    BY <1>1, PartOfFile
  <2>2. SubSeq(d, i + 1, i + 3) = <<0, 0, 1>> <=> d[i + 1] = 0 /\ d[i + 2] = 0 /\ d[i + 3] = 1
    BY <2>1, ShortTuples
  <2> QED BY <1>1, <2>2, LenProperties DEF Marks
<1>2. CASE ~(i + 3 <= Len(d))
  BY <1>2, LenProperties DEF Marks
<1> QED BY <1>1, <1>2

\* A start code of three bytes is a mark, one of four a zero and a mark.
LEMMA StartCodeIs ==
    ASSUME NEW d \in Seq(Byte), NEW i \in Nat
    PROVE  /\ StartCode(d, i) \in {0, 3, 4}
           /\ StartCode(d, i) = 4 <=> i + 1 \in Marks(d) /\ d[i + 1] = 0
           /\ StartCode(d, i) = 3 <=> i \in Marks(d)
<1> DEFINE Four == i + 4 <= Len(d) /\ SubSeq(d, i + 1, i + 4) = <<0, 0, 0, 1>>
           Three == i + 3 <= Len(d) /\ SubSeq(d, i + 1, i + 3) = <<0, 0, 1>>
<1>0. Len(d) \in Nat
  BY LenProperties
<1>1. Four <=> /\ i + 4 <= Len(d)
               /\ d[i + 1] = 0 /\ d[i + 2] = 0 /\ d[i + 3] = 0 /\ d[i + 4] = 1
  <2> SUFFICES ASSUME i + 4 <= Len(d)
               PROVE  SubSeq(d, i + 1, i + 4) = <<0, 0, 0, 1>>
                        <=> d[i + 1] = 0 /\ d[i + 2] = 0 /\ d[i + 3] = 0 /\ d[i + 4] = 1
    OBVIOUS
  <2>1. /\ SubSeq(d, i + 1, i + 4) \in Seq(Byte) /\ Len(SubSeq(d, i + 1, i + 4)) = 4
        /\ SubSeq(d, i + 1, i + 4)[1] = d[i + 1]
        /\ SubSeq(d, i + 1, i + 4)[2] = d[i + 2]
        /\ SubSeq(d, i + 1, i + 4)[3] = d[i + 3]
        /\ SubSeq(d, i + 1, i + 4)[4] = d[i + 4]
    <3>1. i + 4 \in Nat /\ i <= i + 4 /\ (i + 4) - i = 4
      OBVIOUS
    <3>2. /\ SubSeq(d, i + 1, i + 4) \in Seq(Byte) /\ Len(SubSeq(d, i + 1, i + 4)) = 4
          /\ \A k \in 1 .. 4 : SubSeq(d, i + 1, i + 4)[k] = d[i + k]
      BY <3>1, PartOfFile
    <3> QED BY <3>2
  <2> QED BY <2>1, ShortTuples
<1>2. Three <=> i \in Marks(d)
  BY <1>0 DEF Marks
<1>3. i + 1 \in Marks(d) <=> i + 4 <= Len(d) /\ d[i + 2] = 0 /\ d[i + 3] = 0 /\ d[i + 4] = 1
  BY MarkIs
<1>4. Four => ~Three
  BY <1>1, <1>2, MarkIs
<1>5. StartCode(d, i) = IF Four THEN 4 ELSE IF Three THEN 3 ELSE 0
  BY <1>4 DEF StartCode
<1> HIDE DEF Four, Three
<1> QED BY <1>1, <1>2, <1>3, <1>4, <1>5

LEMMA MarksFacts ==
    ASSUME NEW d \in Seq(Byte)
    PROVE  /\ Marks(d) \subseteq Nat /\ \A m \in Marks(d) : m + 3 <= Len(d)
           /\ IsFiniteSet(Marks(d)) /\ \A T \in SUBSET Marks(d) : IsFiniteSet(T)
<1>1. Marks(d) \subseteq Nat /\ Len(d) \in Nat /\ \A m \in Marks(d) : m + 3 <= Len(d)
  BY LenProperties DEF Marks
<1>2. IsFiniteSet(Marks(d))
  <2>1. \A m \in Marks(d) : m <= Len(d)
    BY <1>1
  <2> QED BY <1>1, <2>1, FS_BoundedSetOfNaturals
<1> QED BY <1>1, <1>2, FS_Subset

\* The least of a set of numbers.
LEMMA MinIs ==
    ASSUME NEW S, S \subseteq Nat, S # {}
    PROVE  /\ Min(S) \in S /\ \A n \in S : Min(S) <= n
           /\ \A m \in S : (\A n \in S : m <= n) => Min(S) = m
<1>1. \E m \in S : \A n \in S : m <= n
  BY LeastNumber
<1>2. Min(S) \in S /\ \A n \in S : Min(S) <= n
  BY <1>1, Zenon DEF Min
<1>3. ASSUME NEW m \in S, \A n \in S : m <= n PROVE Min(S) = m
  <2>1. Min(S) <= m /\ m <= Min(S) /\ m \in Nat /\ Min(S) \in Nat
    BY <1>2, <1>3
  <2> QED BY <2>1
<1> QED BY <1>2, <1>3

\* In a well-formed file the marks are apart: behind each is a header that is not 0.
LEMMA MarksApart ==
    ASSUME NEW d \in Seq(Byte), WellFormed(d), NEW m \in Marks(d), NEW n \in Marks(d), n > m
    PROVE  n >= m + 4 /\ (d[n] = 0 => n > m + 4)
<1>1. /\ m \in Nat /\ n \in Nat
      /\ d[m + 1] = 0 /\ d[m + 2] = 0 /\ d[m + 3] = 1 /\ d[m + 4] # 0
      /\ d[n + 1] = 0 /\ d[n + 2] = 0 /\ d[n + 3] = 1
  BY MarksFacts, MarkIs DEF WellFormed
<1>2. n # m + 1 /\ n # m + 2 /\ n # m + 3
  <2>1. CASE n = m + 1
    <3>1. n + 2 = m + 3
      BY <1>1, <2>1
    <3> QED BY <1>1, <3>1
  <2>2. CASE n = m + 2
    <3>1. n + 1 = m + 3
      BY <1>1, <2>2
    <3> QED BY <1>1, <3>1
  <2>3. CASE n = m + 3
    <3>1. n + 1 = m + 4
      BY <1>1, <2>3
    <3> QED BY <1>1, <3>1
  <2> QED BY <2>1, <2>2, <2>3
<1>3. n >= m + 4
  BY <1>1, <1>2
<1>4. n = m + 4 => d[n] # 0
  BY <1>1
<1> QED BY <1>1, <1>3, <1>4

\* The search for the next start code ends where the unit does, and skips no mark.
LEMMA NextUnitEnds ==
    ASSUME NEW d \in Seq(Byte), WellFormed(d), NEW m \in Marks(d)
    PROVE  /\ NextUnit(d, m + 4) \in m + 4 .. Len(d)
           /\ UnitAt(d, m) = SubSeq(d, m + 4, NextUnit(d, m + 4))
           /\ {n \in Marks(d) : n >= NextUnit(d, m + 4)} = {n \in Marks(d) : n > m}
<1> DEFINE starts == {i \in m + 4 .. Len(d) - 4 : StartCode(d, i) > 0}
           later == {n \in Marks(d) : n > m}
<1>1. /\ m \in Nat /\ Len(d) \in Nat /\ Marks(d) \subseteq Nat
      /\ \A n \in Marks(d) : n + 3 < Len(d)
      /\ starts \subseteq Nat /\ later \subseteq Nat
  BY MarksFacts, LenProperties DEF WellFormed
<1>2. NextUnit(d, m + 4) = IF starts = {} THEN Len(d) ELSE Min(starts)
  BY DEF NextUnit
<1>3. \A n \in later : n >= m + 4 /\ (d[n] = 0 => n > m + 4)
  BY MarksApart
<1>4. \A i \in Nat : StartCode(d, i) > 0 <=> i \in Marks(d) \/ (i + 1 \in Marks(d) /\ d[i + 1] = 0)
  <2> SUFFICES ASSUME NEW i \in Nat
               PROVE  StartCode(d, i) > 0
                        <=> i \in Marks(d) \/ (i + 1 \in Marks(d) /\ d[i + 1] = 0)
    OBVIOUS
  <2> QED BY StartCodeIs
<1>5. CASE later = {}
  <2>1. starts = {}
    <3> SUFFICES ASSUME NEW i \in starts PROVE FALSE
      OBVIOUS
    <3>1. i \in Nat /\ i >= m + 4 /\ (i \in Marks(d) \/ i + 1 \in Marks(d))
      BY <1>1, <1>4
    <3>2. i > m /\ i + 1 > m
      BY <1>1, <3>1
    <3> QED BY <1>5, <3>1, <3>2
  <2>2. NextUnit(d, m + 4) = Len(d)
    BY <1>2, <2>1
  <2>3. UnitAt(d, m) = SubSeq(d, m + 4, Len(d))
    BY <1>5 DEF UnitAt
  <2>4. {n \in Marks(d) : n >= Len(d)} = {}
    BY <1>1
  <2>5. Len(d) \in m + 4 .. Len(d)
    BY <1>1
  <2> QED BY <1>5, <2>2, <2>3, <2>4, <2>5
<1>6. CASE later # {}
  <2> DEFINE x == Min(later)
  <2>1. x \in later /\ \A n \in later : x <= n
    BY <1>1, <1>6, MinIs
  <2>2. UnitAt(d, m) = SubSeq(d, m + 4, IF d[x] = 0 THEN x - 1 ELSE x)
    BY <1>6 DEF UnitAt
  <2> HIDE DEF x
  <2>3. x \in Nat /\ x \in Marks(d) /\ x > m /\ x + 3 < Len(d) /\ x >= m + 4
        /\ (d[x] = 0 => x > m + 4)
    BY <1>1, <1>3, <2>1
  <2> DEFINE end == IF d[x] = 0 THEN x - 1 ELSE x
  <2>4. end \in m + 4 .. Len(d) - 4 /\ end \in Nat /\ end <= x /\ x <= end + 1
    BY <1>1, <2>3
  <2>5. StartCode(d, end) > 0
    <3>1. CASE d[x] = 0
      <4>1. end = x - 1 /\ end + 1 = x
        BY <2>3, <3>1
      <4> QED BY <1>4, <2>3, <2>4, <3>1, <4>1
    <3>2. CASE d[x] # 0
      <4>1. end = x
        BY <3>2
      <4> QED BY <1>4, <2>3, <4>1
    <3> QED BY <3>1, <3>2
  <2>6. end \in starts
    BY <2>4, <2>5
  <2>7. ASSUME NEW i \in starts PROVE end <= i
    <3>1. i \in Nat /\ i >= m + 4 /\ (i \in Marks(d) \/ (i + 1 \in Marks(d) /\ d[i + 1] = 0))
      BY <1>1, <1>4
    <3>2. CASE i \in Marks(d)
      <4>1. i \in later
        BY <1>1, <3>1, <3>2
      <4>2. x <= i
        BY <2>1, <4>1
      <4> QED BY <2>3, <2>4, <3>1, <4>2
    <3>3. CASE i + 1 \in Marks(d) /\ d[i + 1] = 0
      <4>1. i + 1 \in later
        BY <1>1, <3>1, <3>3
      <4>2. x <= i + 1
        BY <2>1, <4>1
      <4>3. CASE x = i + 1
        <5>1. end = x - 1
          BY <3>3, <4>3
        <5> QED BY <2>3, <3>1, <4>3, <5>1
      <4>4. CASE x # i + 1
        BY <2>3, <2>4, <3>1, <4>2, <4>4
      <4> QED BY <4>3, <4>4
    <3> QED BY <3>1, <3>2, <3>3
  <2> HIDE DEF end
  <2>8. NextUnit(d, m + 4) = end
    BY <1>1, <1>2, <2>6, <2>7, MinIs
  <2>9. {n \in Marks(d) : n >= end} = later
    <3>1. ASSUME NEW n \in Marks(d), n >= end PROVE n > m
      BY <1>1, <2>4, <3>1
    <3>2. ASSUME NEW n \in Marks(d), n > m PROVE n >= end
      <4>1. n \in Nat /\ x <= n
        BY <1>1, <2>1, <3>2
      <4> QED BY <2>3, <2>4, <4>1
    <3> QED BY <3>1, <3>2
  <2>10. UnitAt(d, m) = SubSeq(d, m + 4, end)
    BY <2>2 DEF end
  <2>11. end \in m + 4 .. Len(d)
    BY <1>1, <2>4
  <2> QED BY <2>8, <2>9, <2>10, <2>11
<1> QED BY <1>5, <1>6

-----------------------------------------------------------------------------
(* The scan finds the units *)

Unit == {u \in Seq(Byte) : Len(u) > 0}

\* The next start code is further on, in any file.
LEMMA NextUnitAfter ==
    ASSUME NEW d \in Seq(Byte), NEW from \in 0 .. Len(d)
    PROVE  NextUnit(d, from) \in from .. Len(d)
<1> DEFINE later == {i \in from .. Len(d) - 4 : StartCode(d, i) > 0}
<1>1. Len(d) \in Nat /\ later \subseteq Nat /\ later \subseteq from .. Len(d)
  BY LenProperties
<1>2. NextUnit(d, from) = IF later = {} THEN Len(d) ELSE Min(later)
  BY DEF NextUnit
<1> HIDE DEF later
<1>3. CASE later = {}
  BY <1>1, <1>2, <1>3
<1>4. CASE later # {}
  <2>1. Min(later) \in later
    BY <1>1, <1>4, MinIs
  <2> QED BY <1>1, <1>2, <1>4, <2>1
<1> QED BY <1>3, <1>4

\* One round of the scan only asks what the later ones found.
LEMMA ScanAtLater ==
    ASSUME NEW d \in Seq(Byte), NEW i \in 0 .. Len(d), NEW g, NEW h,
           \A j \in i + 1 .. Len(d) : g[j] = h[j] /\ g[j] \in Seq(Unit)
    PROVE  ScanAt(d, i, g) = ScanAt(d, i, h) /\ ScanAt(d, i, g) \in Seq(Unit)
<1> DEFINE at == i + StartCode(d, i)
           next == NextUnit(d, at + 1)
<1>1. Len(d) \in Nat /\ i \in Nat /\ at \in {i, i + 3, i + 4}
  BY LenProperties, StartCodeIs
<1>2. CASE i + 3 >= Len(d) \/ (at > i /\ at >= Len(d))
  <2>1. ScanAt(d, i, g) = <<>> /\ ScanAt(d, i, h) = <<>>
    BY <1>1, <1>2 DEF ScanAt
  <2> QED BY <2>1, EmptySeq
<1>3. CASE i + 3 < Len(d) /\ at = i
  <2>1. ScanAt(d, i, g) = g[i + 1] /\ ScanAt(d, i, h) = h[i + 1] /\ i + 1 \in i + 1 .. Len(d)
    BY <1>1, <1>3 DEF ScanAt
  <2> QED BY <2>1
<1>4. CASE i + 3 < Len(d) /\ at > i /\ at < Len(d)
  <2>1. at + 1 \in 0 .. Len(d) /\ at + 1 \in Nat
    BY <1>1, <1>4
  <2>2. next \in at + 1 .. Len(d)
    BY <2>1, NextUnitAfter
  <2>3. next \in i + 1 .. Len(d) /\ next \in Nat /\ next <= Len(d)
    BY <1>1, <1>4, <2>2
  <2>4. /\ ScanAt(d, i, g) = <<SubSeq(d, at + 1, next)>> \o g[next]
        /\ ScanAt(d, i, h) = <<SubSeq(d, at + 1, next)>> \o h[next]
    <3>1. /\ ~(i + 3 >= Len(d)) /\ ~(i + 3 < Len(d) /\ at = i)
          /\ ~(i + 3 < Len(d) /\ at > i /\ at >= Len(d))
      BY <1>1, <1>4
    <3> QED BY <3>1, Zenon DEF ScanAt
  <2>5. SubSeq(d, at + 1, next) \in Unit
    <3>1. at \in Nat /\ next \in Nat /\ at < next /\ next <= Len(d)
      BY <1>1, <2>2
    <3> HIDE DEF at, next
    <3>2. SubSeq(d, at + 1, next) \in Seq(Byte) /\ Len(SubSeq(d, at + 1, next)) = next - at
      BY <3>1, PartOfFile
    <3> QED BY <3>1, <3>2 DEF Unit
  <2>6. <<SubSeq(d, at + 1, next)>> \in Seq(Unit)
    BY <2>5
  <2>7. g[next] = h[next] /\ g[next] \in Seq(Unit)
    BY <2>3
  <2> HIDE DEF next, at
  <2> QED BY <2>4, <2>6, <2>7, ConcatProperties
<1> QED BY <1>1, <1>2, <1>3, <1>4

\* The recursion of Scan has a solution: it goes from the end to the beginning.
LEMMA ScanExists ==
    ASSUME NEW d \in Seq(Byte)
    PROVE  \E g \in [0 .. Len(d) -> Seq(Unit)] : g = [i \in 0 .. Len(d) |-> ScanAt(d, i, g)]
<1> DEFINE last == Len(d)
           Good == {n \in Nat : n <= last => \E g \in [last - n .. last -> Seq(Unit)] :
                                               \A i \in last - n .. last : g[i] = ScanAt(d, i, g)}
<1>0. last \in Nat
  BY LenProperties
<1>1. 0 \in Good
  <2>1. \A h : ScanAt(d, last, h) = <<>>
    BY <1>0 DEF ScanAt
  <2> DEFINE g == [i \in last - 0 .. last |-> <<>>]
  <2>2. g \in [last - 0 .. last -> Seq(Unit)]
    BY EmptySeq
  <2>3. \A i \in last - 0 .. last : i = last /\ g[i] = <<>>
    BY <1>0
  <2>4. \A i \in last - 0 .. last : g[i] = ScanAt(d, i, g)
    BY <2>1, <2>3
  <2> HIDE DEF g
  <2> QED BY <2>2, <2>4
<1>2. ASSUME NEW n \in Nat, n \in Good PROVE n + 1 \in Good
  <2> SUFFICES ASSUME n + 1 <= last
               PROVE  \E h \in [last - (n + 1) .. last -> Seq(Unit)] :
                        \A i \in last - (n + 1) .. last : h[i] = ScanAt(d, i, h)
    OBVIOUS
  <2>1. PICK g \in [last - n .. last -> Seq(Unit)] :
          \A i \in last - n .. last : g[i] = ScanAt(d, i, g)
    BY <1>0, <1>2
  <2> DEFINE first == last - (n + 1)
             h == [i \in first .. last |-> IF i = first THEN ScanAt(d, first, g) ELSE g[i]]
  <2>2. /\ first \in 0 .. last /\ first + 1 = last - n
        /\ \A i \in first .. last : i = first \/ i \in last - n .. last
        /\ \A i \in last - n .. last : i \in first .. last /\ i # first
        /\ \A i \in first .. last : \A j \in i + 1 .. last : j \in last - n .. last /\ i \in 0 .. last
    BY <1>0
  <2>8. first \in Nat
    BY <1>0
  <2>3. \A i \in first .. last : \A j \in i + 1 .. last : g[j] = h[j] /\ g[j] \in Seq(Unit)
    BY <2>1, <2>2
  <2>4. \A i \in first .. last : ScanAt(d, i, g) = ScanAt(d, i, h) /\ ScanAt(d, i, g) \in Seq(Unit)
    <3> SUFFICES ASSUME NEW i \in first .. last
                 PROVE  ScanAt(d, i, g) = ScanAt(d, i, h) /\ ScanAt(d, i, g) \in Seq(Unit)
      OBVIOUS
    <3>1. i \in 0 .. Len(d)
      <4>1. first \in Nat
        BY <2>8
      <4>2. i \in Int /\ first <= i /\ i <= last
        BY <1>0, <4>1
      <4> HIDE DEF first
      <4> QED BY <1>0, <4>1, <4>2
    <3>2. \A j \in i + 1 .. Len(d) : g[j] = h[j] /\ g[j] \in Seq(Unit)
      BY <2>3
    <3> HIDE DEF h
    <3> QED BY <3>1, <3>2, ScanAtLater
  <2>5. \A i \in first .. last : h[i] = IF i = first THEN ScanAt(d, first, g) ELSE g[i]
    OBVIOUS
  <2>6. h \in [first .. last -> Seq(Unit)]
    <3>1. \A i \in first .. last : (IF i = first THEN ScanAt(d, first, g) ELSE g[i]) \in Seq(Unit)
      BY <2>1, <2>2, <2>4
    <3> QED BY <3>1
  <2> HIDE DEF h
  <2>7. \A i \in first .. last : h[i] = ScanAt(d, i, h)
    BY <2>1, <2>2, <2>4, <2>5
  <2> QED BY <2>6, <2>7
<1> HIDE DEF Good
<1>3. last \in Good
  BY <1>0, <1>1, <1>2, SetInduction
<1>4. PICK g \in [last - last .. last -> Seq(Unit)] :
        \A i \in last - last .. last : g[i] = ScanAt(d, i, g)
  BY <1>0, <1>3 DEF Good
<1>5. last - last = 0
  BY <1>0
<1>6. g \in [0 .. last -> Seq(Unit)] /\ g = [i \in 0 .. last |-> ScanAt(d, i, g)]
  BY <1>4, <1>5
<1> QED BY <1>6

\* What Scan computes is the value at 0 of a function that obeys ScanAt.
LEMMA ScanObeys ==
    ASSUME NEW d \in Seq(Byte)
    PROVE  \E scan \in [0 .. Len(d) -> Seq(Unit)] :
              /\ Scan(d) = scan[0]
              /\ \A i \in 0 .. Len(d) : scan[i] = ScanAt(d, i, scan)
<1> DEFINE Solves(g) == g = [i \in 0 .. Len(d) |-> ScanAt(d, i, g)]
           scan == CHOOSE g : Solves(g)
<1>1. Solves(scan)
  <2>1. \E g : Solves(g)
    BY ScanExists, Zenon
  <2> HIDE DEF Solves
  <2> QED BY <2>1, Zenon
<1>2. Scan(d) = scan[0]
  BY Zenon DEF Scan
<1> HIDE DEF scan
<1>3. \A i \in 0 .. Len(d) : scan[i] = ScanAt(d, i, scan)
  BY <1>1
<1>4. scan \in [0 .. Len(d) -> Seq(Unit)]
  <2> DEFINE last == Len(d)
             Good == {n \in Nat : n <= last => scan[last - n] \in Seq(Unit)}
  <2>0. last \in Nat
    BY LenProperties
  <2>1. ASSUME NEW n \in Nat, \A m \in Nat : m < n => m \in Good PROVE n \in Good
    <3> SUFFICES ASSUME n <= last PROVE scan[last - n] \in Seq(Unit)
      OBVIOUS
    <3>1. last - n \in 0 .. Len(d)
      BY <2>0
    <3>2. ASSUME NEW j \in (last - n) + 1 .. Len(d) PROVE scan[j] \in Seq(Unit)
      <4>1. last - j \in Nat /\ last - j < n /\ last - j <= last /\ last - (last - j) = j
        BY <2>0
      <4>2. last - j \in Good
        BY <2>1, <4>1
      <4> QED BY <4>1, <4>2
    <3>3. ScanAt(d, last - n, scan) \in Seq(Unit)
      BY <3>1, <3>2, ScanAtLater
    <3> QED BY <1>3, <3>1, <3>3
  <2> HIDE DEF Good
  <2>2. \A n \in Nat : n \in Good
    BY <2>1, StrongSetInduction
  <2>3. ASSUME NEW i \in 0 .. Len(d) PROVE scan[i] \in Seq(Unit)
    <3>1. last - i \in Nat /\ last - i <= last /\ last - (last - i) = i
      BY <2>0
    <3>2. last - i \in Good
      BY <2>2, <3>1
    <3> QED BY <3>1, <3>2 DEF Good
  <2> QED BY <1>1, <2>3
<1> QED BY <1>2, <1>3, <1>4


\* The marks from offset i on.
From(d, i) == {n \in Marks(d) : n >= i}

\* The round at i finds the unit of mark m and goes on at offset next.
FindsUnit(d, i, g, m, next) ==
    /\ ScanAt(d, i, g) = <<UnitAt(d, m)>> \o g[next]
    /\ From(d, i) = From(d, next) \cup {m}
    /\ \A n \in From(d, next) : n > m

\* One round finds nothing and nothing is left, moves on by a byte that is no mark, or
\* finds the unit of the first mark that is left.
LEMMA ScanRound ==
    ASSUME NEW d \in Seq(Byte), WellFormed(d), NEW i \in 0 .. Len(d), NEW g
    PROVE  \/ From(d, i) = {} /\ ScanAt(d, i, g) = <<>>
           \/ i + 1 \in 0 .. Len(d) /\ From(d, i) = From(d, i + 1) /\ ScanAt(d, i, g) = g[i + 1]
           \/ \E m \in Marks(d) : \E next \in i + 1 .. Len(d) : FindsUnit(d, i, g, m, next)
<1> DEFINE at == i + StartCode(d, i)
<1>1. Len(d) \in Nat /\ i \in Nat /\ at \in {i, i + 3, i + 4}
  <2>1. Len(d) \in Nat
    BY LenProperties
  <2>2. StartCode(d, i) \in {0, 3, 4}
    BY StartCodeIs
  <2> QED BY <2>1, <2>2
<1>2. Marks(d) \subseteq Nat /\ \A n \in Marks(d) : n + 3 < Len(d)
  BY MarksFacts DEF WellFormed
<1>3. CASE i + 3 >= Len(d)
  <2>1. ScanAt(d, i, g) = <<>>
    BY <1>3 DEF ScanAt
  <2>2. ASSUME NEW n \in Marks(d) PROVE ~(n >= i)
    BY <1>1, <1>2, <1>3
  <2> QED BY <2>1, <2>2 DEF From
<1>4. CASE i + 3 < Len(d) /\ at = i
  <2>1. ScanAt(d, i, g) = g[i + 1] /\ i + 1 \in 0 .. Len(d)
    BY <1>1, <1>4 DEF ScanAt
  <2>2. i \notin Marks(d)
    BY <1>1, <1>4, StartCodeIs
  <2>3. ASSUME NEW n \in Marks(d) PROVE n >= i <=> n >= i + 1
    BY <1>1, <1>2, <2>2
  <2> QED BY <2>1, <2>3 DEF From
<1>5. CASE i + 3 < Len(d) /\ at > i
  <2>1. PICK m \in Marks(d) : at = m + 3 /\ (m = i \/ (m = i + 1 /\ i \notin Marks(d)))
    <3>1. CASE StartCode(d, i) = 3
      <4>1. i \in Marks(d) /\ at = i + 3
        BY <1>1, <3>1, StartCodeIs
      <4> QED BY <4>1
    <3>2. CASE StartCode(d, i) = 4
      <4>1. i + 1 \in Marks(d) /\ i \notin Marks(d) /\ at = (i + 1) + 3
        BY <1>1, <3>2, StartCodeIs
      <4> QED BY <4>1
    <3> QED BY <1>1, <1>5, <3>1, <3>2, StartCodeIs
  <2>2. m \in Nat /\ m >= i /\ at < Len(d) /\ at + 1 = m + 4
    BY <1>1, <1>2, <2>1
  <2> DEFINE stop == NextUnit(d, m + 4)
  <2>3. ScanAt(d, i, g) = <<SubSeq(d, m + 4, stop)>> \o g[stop]
    <3>1. ScanAt(d, i, g) =
            <<SubSeq(d, at + 1, NextUnit(d, at + 1))>> \o g[NextUnit(d, at + 1)]
      BY <1>1, <1>5, <2>2 DEF ScanAt
    <3> QED BY <2>2, <3>1, Zenon
  <2>4. /\ stop \in m + 4 .. Len(d) /\ UnitAt(d, m) = SubSeq(d, m + 4, stop)
        /\ {n \in Marks(d) : n >= stop} = {n \in Marks(d) : n > m}
    BY NextUnitEnds
  <2> HIDE DEF stop, at
  <2>5. stop \in i + 1 .. Len(d)
    BY <1>1, <2>2, <2>4
  <2>6. ASSUME NEW n \in Marks(d) PROVE n >= i <=> n = m \/ n > m
    BY <1>1, <1>2, <2>1, <2>2
  <2>7. From(d, i) = From(d, stop) \cup {m} /\ \A n \in From(d, stop) : n > m
    BY <2>4, <2>6 DEF From
  <2>8. ScanAt(d, i, g) = <<UnitAt(d, m)>> \o g[stop]
    BY <2>3, <2>4, Zenon
  <2>9. FindsUnit(d, i, g, m, stop)
    BY <2>7, <2>8 DEF FindsUnit
  <2> QED BY <2>5, <2>9
<1> QED BY <1>1, <1>3, <1>4, <1>5

\* The k-th of the units is the one behind the k-th of the marks.
InOrderOf(d, marks, units) ==
    /\ Len(units) = Cardinality(marks)
    /\ \A k \in 1 .. Len(units) :
          \E m \in marks : /\ Cardinality({n \in marks : n < m}) = k - 1
                          /\ units[k] = UnitAt(d, m)

\* A unit in front of the others.
LEMMA OneMoreUnit ==
    ASSUME NEW d \in Seq(Byte), NEW marks \in SUBSET Nat, IsFiniteSet(marks), NEW m \in Nat,
           \A n \in marks : n > m,
           NEW units \in Seq(Unit), InOrderOf(d, marks, units), UnitAt(d, m) \in Unit
    PROVE  InOrderOf(d, marks \cup {m}, <<UnitAt(d, m)>> \o units)
<1> DEFINE more == marks \cup {m}
           longer == <<UnitAt(d, m)>> \o units
<1>1. Len(units) \in Nat /\ Len(units) = Cardinality(marks)
  BY LenProperties DEF InOrderOf
<1>2. /\ Len(longer) = 1 + Len(units) /\ longer[1] = UnitAt(d, m)
      /\ \A k \in 2 .. 1 + Len(units) : longer[k] = units[k - 1]
  <2>1. <<UnitAt(d, m)>> \in Seq(Unit) /\ Len(<<UnitAt(d, m)>>) = 1
    OBVIOUS
  <2>2. /\ Len(longer) = 1 + Len(units)
        /\ \A k \in 1 .. 1 + Len(units) :
              longer[k] = IF k <= 1 THEN <<UnitAt(d, m)>>[k] ELSE units[k - 1]
    BY <2>1, ConcatProperties
  <2> HIDE DEF longer
  <2> QED BY <1>1, <2>2
<1> HIDE DEF longer
<1>3. m \notin marks
  OBVIOUS
<1>4. Len(longer) = Cardinality(more)
  <2>1. Cardinality(more) = Cardinality(marks) + 1
    BY <1>3, FS_AddElement
  <2> QED BY <1>1, <1>2, <2>1
<1>5. ASSUME NEW k \in 1 .. 1 + Len(units)
      PROVE  \E x \in more : /\ Cardinality({n \in more : n < x}) = k - 1
                             /\ longer[k] = UnitAt(d, x)
  <2>1. CASE k = 1
    <3>1. {n \in more : n < m} = {}
      <4>1. \A n \in more : n \in Nat /\ ~(n < m)
        OBVIOUS
      <4> QED BY <4>1
    <3>2. Cardinality({n \in more : n < m}) = k - 1
      <4>1. Cardinality({n \in more : n < m}) = 0
        BY <3>1, FS_EmptySet
      <4> QED BY <2>1, <4>1
    <3>3. longer[k] = UnitAt(d, m)
      BY <1>2, <2>1
    <3> QED BY <3>2, <3>3
  <2>2. CASE k # 1
    <3>1. k - 1 \in 1 .. Len(units) /\ k \in 2 .. 1 + Len(units)
      BY <1>1, <2>2
    <3>2. PICK x \in marks : /\ Cardinality({n \in marks : n < x}) = (k - 1) - 1
                            /\ units[k - 1] = UnitAt(d, x)
      BY <3>1 DEF InOrderOf
    <3>3. {n \in more : n < x} = {n \in marks : n < x} \cup {m} /\ m \notin {n \in marks : n < x}
      BY <1>3
    <3>4. IsFiniteSet({n \in marks : n < x})
      BY FS_Subset
    <3>5. Cardinality({n \in more : n < x}) = ((k - 1) - 1) + 1
      BY <3>2, <3>3, <3>4, FS_AddElement
    <3>6. ((k - 1) - 1) + 1 = k - 1
      BY <1>1
    <3>7. longer[k] = UnitAt(d, x)
      BY <1>2, <3>1, <3>2
    <3> QED BY <3>2, <3>5, <3>6, <3>7
  <2> QED BY <2>1, <2>2
<1> QED BY <1>2, <1>4, <1>5 DEF InOrderOf, longer

\* Two marks with as many before them are one.
LEMMA MarkOfRank ==
    ASSUME NEW d \in Seq(Byte), NEW m \in Marks(d), NEW k,
           Cardinality({n \in Marks(d) : n < m}) = k - 1
    PROVE  Mark(d, k) = m
<1> DEFINE before(x) == {n \in Marks(d) : n < x}
<1>1. Marks(d) \subseteq Nat /\ \A T \in SUBSET Marks(d) : IsFiniteSet(T)
  BY MarksFacts
<1>2. ASSUME NEW x \in Marks(d), NEW y \in Marks(d), x < y
      PROVE  Cardinality(before(x)) # Cardinality(before(y))
  <2>1. before(x) \in SUBSET before(y) /\ IsFiniteSet(before(y)) /\ x \in before(y) \ before(x)
    BY <1>1, <1>2
  <2> QED BY <2>1, FS_Subset
<1>3. \A x \in Marks(d) : Cardinality(before(x)) = k - 1 => x = m
  <2> SUFFICES ASSUME NEW x \in Marks(d), Cardinality(before(x)) = k - 1, x # m PROVE FALSE
    OBVIOUS
  <2>1. Cardinality(before(x)) = Cardinality(before(m))
    OBVIOUS
  <2> HIDE DEF before
  <2>2. x \in Nat /\ m \in Nat /\ (x < m \/ m < x)
    BY <1>1
  <2> QED BY <1>2, <2>1, <2>2
<1>4. Mark(d, k) \in Marks(d) /\ Cardinality(before(Mark(d, k))) = k - 1
  BY Zenon DEF Mark
<1> HIDE DEF before
<1> QED BY <1>3, <1>4

LEMMA UnitIsUnit ==
    ASSUME NEW d \in Seq(Byte), WellFormed(d), NEW m \in Marks(d)
    PROVE  UnitAt(d, m) \in Unit
<1>1. /\ NextUnit(d, m + 4) \in m + 4 .. Len(d)
      /\ UnitAt(d, m) = SubSeq(d, m + 4, NextUnit(d, m + 4))
  BY NextUnitEnds
<1>2. m + 3 \in Nat /\ (m + 3) + 1 = m + 4 /\ NextUnit(d, m + 4) \in Nat
      /\ NextUnit(d, m + 4) <= Len(d) /\ m + 3 < NextUnit(d, m + 4)
  BY <1>1, MarksFacts, LenProperties
<1>3. /\ SubSeq(d, (m + 3) + 1, NextUnit(d, m + 4)) \in Seq(Byte)
      /\ Len(SubSeq(d, (m + 3) + 1, NextUnit(d, m + 4))) = NextUnit(d, m + 4) - (m + 3)
  BY <1>2, PartOfFile
<1> QED BY <1>1, <1>2, <1>3 DEF Unit

LEMMA ScanInOrder ==
    ASSUME NEW d \in Seq(Byte)
    PROVE  Scan(d) \in Seq(Unit) /\ (WellFormed(d) => InOrderOf(d, Marks(d), Scan(d)))
<1>0. Len(d) \in Nat /\ Marks(d) \subseteq Nat /\ IsFiniteSet(Marks(d))
      /\ \A T \in SUBSET Marks(d) : IsFiniteSet(T)
  BY LenProperties, MarksFacts
<1>1. PICK scan \in [0 .. Len(d) -> Seq(Unit)] :
         /\ Scan(d) = scan[0]
         /\ \A i \in 0 .. Len(d) : scan[i] = ScanAt(d, i, scan)
  BY ScanObeys
<1>2. Scan(d) \in Seq(Unit)
  BY <1>0, <1>1
<1> SUFFICES ASSUME WellFormed(d) PROVE InOrderOf(d, Marks(d), Scan(d))
  BY <1>2
<1> DEFINE last == Len(d)
           Good == {n \in Nat : n <= last =>
                       InOrderOf(d, From(d, last - n), scan[last - n])}
<1>3. ASSUME NEW n \in Nat, \A m \in Nat : m < n => m \in Good PROVE n \in Good
  <2> SUFFICES ASSUME n <= last PROVE InOrderOf(d, From(d, last - n), scan[last - n])
    BY Zenon
  <2> DEFINE i == last - n
  <2>1. i \in 0 .. last /\ i \in Nat /\ scan[i] = ScanAt(d, i, scan)
    BY <1>0, <1>1
  <2>2. ASSUME NEW j \in i + 1 .. last PROVE InOrderOf(d, From(d, j), scan[j])
    <3>1. last - j \in Nat /\ last - j < n /\ last - j <= last /\ last - (last - j) = j
      BY <1>0
    <3>2. last - j \in Good
      BY <1>3, <3>1
    <3> QED BY <3>1, <3>2
  <2> SUFFICES InOrderOf(d, From(d, i), scan[i])
    OBVIOUS
  <2> HIDE DEF i, Good
  <2>3. CASE From(d, i) = {} /\ ScanAt(d, i, scan) = <<>>
    <3>1. scan[i] = <<>> /\ Len(<<>>) = 0 /\ Cardinality({}) = 0 /\ \A k \in 1 .. 0 : FALSE
      BY <2>1, <2>3, FS_EmptySet
    <3>2. InOrderOf(d, {}, <<>>)
      BY <3>1 DEF InOrderOf
    <3> QED BY <2>3, <3>1, <3>2, Zenon
  <2>4. CASE i + 1 \in 0 .. last /\ From(d, i) = From(d, i + 1) /\ ScanAt(d, i, scan) = scan[i + 1]
    <3>1. i + 1 \in i + 1 .. last
      BY <1>0, <2>1, <2>4
    <3>2. InOrderOf(d, From(d, i + 1), scan[i + 1])
      BY <2>2, <3>1
    <3> QED BY <2>1, <2>4, <3>2, Zenon
  <2>5. ASSUME NEW m \in Marks(d), NEW next \in i + 1 .. last,
               FindsUnit(d, i, scan, m, next)
        PROVE  InOrderOf(d, From(d, i), scan[i])
    <3>1. From(d, next) \in SUBSET Nat /\ IsFiniteSet(From(d, next)) /\ m \in Nat
      BY <1>0 DEF From
    <3>2. scan[next] \in Seq(Unit)
      BY <1>0, <1>1, <2>1
    <3>3. InOrderOf(d, From(d, next) \cup {m}, <<UnitAt(d, m)>> \o scan[next])
      BY UnitIsUnit, <2>2, <2>5, <3>1, <3>2, OneMoreUnit DEF FindsUnit
    <3> QED BY <2>1, <2>5, <3>3, Zenon DEF FindsUnit
  <2>6. QED
    <3>1. WellFormed(d) /\ i \in 0 .. Len(d)
      BY <2>1
    <3> QED BY <2>3, <2>4, <2>5, <3>1, ScanRound
<1> HIDE DEF Good
<1>4. last \in Good
  BY <1>0, <1>3, StrongSetInduction
<1> QED
  <2>1. last <= last /\ last - last = 0
    BY <1>0
  <2>2. From(d, 0) = Marks(d)
    BY <1>0 DEF From
  <2> QED BY <1>1, <1>4, <2>1, <2>2 DEF Good

\* The scan finds the units of a file that is as H.264 allows, in their order: where it
\* looks for a start code and where it stops (scan_annex_b, nal_parser.cpp:39-70) are
\* the marks of Annex B, and it skips none.
THEOREM ScanFindsUnits ==
    \A d \in Seq(Byte) : WellFormed(d) => Scan(d) = Units(d)
<1> SUFFICES ASSUME NEW d \in Seq(Byte), WellFormed(d) PROVE Scan(d) = Units(d)
  OBVIOUS
<1>1. InOrderOf(d, Marks(d), Scan(d)) /\ Scan(d) \in Seq(Unit)
  BY ScanInOrder
<1>2. Scan(d) = [k \in 1 .. Len(Scan(d)) |-> UnitAt(d, Mark(d, k))]
  <2>1. ASSUME NEW k \in 1 .. Len(Scan(d)) PROVE Scan(d)[k] = UnitAt(d, Mark(d, k))
    <3>1. PICK m \in Marks(d) : /\ Cardinality({n \in Marks(d) : n < m}) = k - 1
                               /\ Scan(d)[k] = UnitAt(d, m)
      BY <1>1 DEF InOrderOf
    <3> QED BY <3>1, MarkOfRank
  <2>2. Scan(d) \in [1 .. Len(Scan(d)) -> Unit]
    BY <1>1, LenProperties
  <2> QED BY <2>1, <2>2
<1> QED BY <1>1, <1>2 DEF Units, InOrderOf


-----------------------------------------------------------------------------
(* Sequences put behind one another *)

FlattenAt(ss, i, f) == IF i = 1 THEN ss[i] ELSE f[i - 1] \o ss[i]

LEMMA FlattenExists ==
    ASSUME NEW S, NEW ss \in Seq(Seq(S))
    PROVE  \E f \in [1 .. Len(ss) -> Seq(S)] : f = [i \in 1 .. Len(ss) |-> FlattenAt(ss, i, f)]
<1> DEFINE last == Len(ss)
           Good == {n \in Nat : n <= last => \E f \in [1 .. n -> Seq(S)] :
                                               \A i \in 1 .. n : f[i] = FlattenAt(ss, i, f)}
<1>0. last \in Nat /\ \A i \in 1 .. last : ss[i] \in Seq(S)
  BY LenProperties, ElementOfSeq
<1>1. 0 \in Good
  <2> DEFINE f == [i \in 1 .. 0 |-> <<>>]
  <2>1. f \in [1 .. 0 -> Seq(S)] /\ \A i \in 1 .. 0 : f[i] = FlattenAt(ss, i, f)
    BY EmptySeq
  <2> HIDE DEF f
  <2> QED BY <2>1
<1>2. ASSUME NEW n \in Nat, n \in Good PROVE n + 1 \in Good
  <2>0. n + 1 \in Nat /\ (n + 1 <= last => n <= last)
    BY <1>0
  <2> SUFFICES ASSUME n + 1 <= last
               PROVE  \E g \in [1 .. n + 1 -> Seq(S)] :
                        \A i \in 1 .. n + 1 : g[i] = FlattenAt(ss, i, g)
    BY <2>0, Zenon
  <2>1. PICK f \in [1 .. n -> Seq(S)] : \A i \in 1 .. n : f[i] = FlattenAt(ss, i, f)
    BY <1>2, <2>0, Zenon
  <2> DEFINE next == FlattenAt(ss, n + 1, f)
             g == [i \in 1 .. n + 1 |-> IF i = n + 1 THEN next ELSE f[i]]
  <2>2. next \in Seq(S)
    <3>1. n + 1 \in 1 .. last /\ ss[n + 1] \in Seq(S)
      BY <1>0
    <3>2. CASE n = 0
      BY <3>1, <3>2 DEF FlattenAt
    <3>3. CASE n # 0
      <4>1. n \in 1 .. n /\ (n + 1) - 1 = n /\ n + 1 # 1 /\ f[n] \in Seq(S)
        BY <2>1, <3>3
      <4>2. next = f[n] \o ss[n + 1]
        BY <4>1 DEF FlattenAt
      <4> HIDE DEF next
      <4> QED BY <3>1, <4>1, <4>2, ConcatProperties
    <3> QED BY <3>2, <3>3
  <2>3. g \in [1 .. n + 1 -> Seq(S)]
    <3> HIDE DEF next
    <3>1. \A i \in 1 .. n + 1 : (IF i = n + 1 THEN next ELSE f[i]) \in Seq(S)
      BY <2>1, <2>2
    <3> QED BY <3>1
  <2>4. \A i \in 1 .. n + 1 : g[i] = IF i = n + 1 THEN next ELSE f[i]
    OBVIOUS
  <2> HIDE DEF g
  <2>5. \A i \in 1 .. n + 1 : FlattenAt(ss, i, g) = FlattenAt(ss, i, f)
    <3> SUFFICES ASSUME NEW i \in 1 .. n + 1, i # 1
                 PROVE  g[i - 1] \o ss[i] = f[i - 1] \o ss[i]
      BY DEF FlattenAt
    <3>1. i - 1 \in 1 .. n + 1 /\ i - 1 # n + 1
      OBVIOUS
    <3>2. g[i - 1] = f[i - 1]
      BY <2>4, <3>1
    <3> QED BY <3>2
  <2>6. ASSUME NEW i \in 1 .. n + 1 PROVE g[i] = FlattenAt(ss, i, g)
    <3>1. CASE i = n + 1
      <4>1. g[i] = next /\ FlattenAt(ss, i, f) = next
        BY <2>4, <3>1
      <4> QED BY <2>5, <4>1
    <3>2. CASE i # n + 1
      <4>1. i \in 1 .. n
        BY <3>2
      <4>2. g[i] = f[i]
        BY <2>4, <3>2
      <4> QED BY <2>1, <2>5, <4>1, <4>2
    <3> QED BY <3>1, <3>2
  <2> QED BY <2>3, <2>6
<1> HIDE DEF Good
<1>3. last \in Good
  BY <1>0, <1>1, <1>2, SetInduction
<1>4. PICK f \in [1 .. last -> Seq(S)] : \A i \in 1 .. last : f[i] = FlattenAt(ss, i, f)
  BY <1>0, <1>3 DEF Good
<1>5. f = [i \in 1 .. last |-> FlattenAt(ss, i, f)]
  BY <1>4
<1> QED BY <1>4, <1>5

\* What FlattenSeq computes is the last value of a function that obeys FlattenAt.
LEMMA FlattenObeys ==
    ASSUME NEW S, NEW ss \in Seq(Seq(S)), Len(ss) # 0
    PROVE  \E f \in [1 .. Len(ss) -> Seq(S)] :
              /\ FlattenSeq(ss) = f[Len(ss)]
              /\ \A i \in 1 .. Len(ss) : f[i] = FlattenAt(ss, i, f)
<1> DEFINE Solves(f) == f = [i \in 1 .. Len(ss) |-> FlattenAt(ss, i, f)]
           flatten == CHOOSE f : Solves(f)
<1>0. Len(ss) \in Nat /\ \A i \in 1 .. Len(ss) : ss[i] \in Seq(S)
  BY LenProperties, ElementOfSeq
<1>1. Solves(flatten)
  <2>1. \E f : Solves(f)
    <3>1. PICK f \in [1 .. Len(ss) -> Seq(S)] : f = [i \in 1 .. Len(ss) |-> FlattenAt(ss, i, f)]
      BY FlattenExists
    <3>2. Solves(f)
      BY <3>1
    <3> QED BY <3>2, Zenon
  <2> HIDE DEF Solves
  <2> QED BY <2>1, Zenon
<1>2. FlattenSeq(ss) = flatten[Len(ss)]
  BY Zenon DEF FlattenSeq, FlattenAt
<1> HIDE DEF flatten
<1>3. \A i \in 1 .. Len(ss) : flatten[i] = FlattenAt(ss, i, flatten)
  BY <1>1
<1> DEFINE Good == {n \in Nat : n \in 1 .. Len(ss) => flatten[n] \in Seq(S)}
<1>4. 0 \in Good
  OBVIOUS
<1>5. ASSUME NEW n \in Nat, n \in Good PROVE n + 1 \in Good
  <2> SUFFICES ASSUME n + 1 \in 1 .. Len(ss) PROVE flatten[n + 1] \in Seq(S)
    OBVIOUS
  <2>1. CASE n = 0
    BY <1>0, <1>3, <2>1 DEF FlattenAt
  <2>2. CASE n # 0
    <3>1. n \in 1 .. Len(ss) /\ (n + 1) - 1 = n /\ n + 1 # 1
      BY <1>0, <2>2
    <3>2. flatten[n] \in Seq(S) /\ ss[n + 1] \in Seq(S)
      BY <1>0, <1>5, <3>1
    <3>3. flatten[n + 1] = flatten[n] \o ss[n + 1]
      BY <1>3, <3>1 DEF FlattenAt
    <3> QED BY <3>2, <3>3, ConcatProperties
  <2> QED BY <2>1, <2>2
<1> HIDE DEF Good
<1>6. \A n \in Nat : n \in Good
  BY <1>4, <1>5, SetInduction
<1>7. \A n \in 1 .. Len(ss) : flatten[n] \in Seq(S)
  BY <1>6 DEF Good
<1>8. flatten \in [1 .. Len(ss) -> Seq(S)]
  BY <1>1, <1>7
<1> QED BY <1>2, <1>3, <1>8

\* One more sequence goes to the end.
LEMMA FlattenAppend ==
    ASSUME NEW S, NEW ss \in Seq(Seq(S)), NEW e \in Seq(S)
    PROVE  /\ FlattenSeq(ss) \in Seq(S)
           /\ FlattenSeq(Append(ss, e)) = FlattenSeq(ss) \o e
<1> DEFINE tt == Append(ss, e)
<1>0. Len(ss) \in Nat
  BY LenProperties
<1>1. /\ tt \in Seq(Seq(S)) /\ Len(tt) = Len(ss) + 1
      /\ \A i \in 1 .. Len(ss) : tt[i] = ss[i]
      /\ tt[Len(ss) + 1] = e
  BY AppendProperties
<1> HIDE DEF tt
<1>2. PICK g \in [1 .. Len(tt) -> Seq(S)] :
        FlattenSeq(tt) = g[Len(tt)] /\ \A i \in 1 .. Len(tt) : g[i] = FlattenAt(tt, i, g)
  <2>1. Len(tt) # 0
    BY <1>0, <1>1
  <2> QED BY <1>1, <2>1, FlattenObeys
<1>3. CASE Len(ss) = 0
  <2>1. ss = <<>> /\ FlattenSeq(ss) = <<>>
    BY <1>3, EmptySeq DEF FlattenSeq
  <2>2. g[1] = e /\ FlattenSeq(tt) = g[1]
    BY <1>1, <1>2, <1>3 DEF FlattenAt
  <2>3. <<>> \in Seq(S) /\ <<>> \o e = e
    BY EmptySeq, ConcatEmptySeq
  <2> QED BY <2>1, <2>2, <2>3 DEF tt
<1>4. CASE Len(ss) # 0
  <2>1. PICK f \in [1 .. Len(ss) -> Seq(S)] :
          FlattenSeq(ss) = f[Len(ss)] /\ \A i \in 1 .. Len(ss) : f[i] = FlattenAt(ss, i, f)
    BY <1>4, FlattenObeys
  <2> DEFINE Good == {n \in Nat : n \in 1 .. Len(ss) => g[n] = f[n]}
  <2>2. 0 \in Good
    OBVIOUS
  <2>3. ASSUME NEW n \in Nat, n \in Good PROVE n + 1 \in Good
    <3> SUFFICES ASSUME n + 1 \in 1 .. Len(ss) PROVE g[n + 1] = f[n + 1]
      OBVIOUS
    <3>1. n + 1 \in 1 .. Len(tt) /\ tt[n + 1] = ss[n + 1]
      BY <1>0, <1>1
    <3>2. CASE n = 0
      <4>1. n + 1 = 1
        BY <3>2
      <4>2. g[n + 1] = tt[n + 1] /\ f[n + 1] = ss[n + 1]
        BY <1>2, <2>1, <3>1, <4>1 DEF FlattenAt
      <4> QED BY <3>1, <4>2
    <3>3. CASE n # 0
      <4>1. n \in 1 .. Len(ss) /\ (n + 1) - 1 = n /\ n + 1 # 1
        BY <1>0, <3>3
      <4>2. g[n] = f[n]
        BY <2>3, <4>1
      <4>3. g[n + 1] = g[n] \o tt[n + 1] /\ f[n + 1] = f[n] \o ss[n + 1]
        BY <1>2, <2>1, <3>1, <4>1 DEF FlattenAt
      <4> QED BY <3>1, <4>2, <4>3
    <3> QED BY <3>2, <3>3
  <2> HIDE DEF Good
  <2>4. \A n \in Nat : n \in Good
    BY <2>2, <2>3, SetInduction
  <2>5. g[Len(ss)] = f[Len(ss)]
    <3>1. Len(ss) \in Good /\ Len(ss) \in 1 .. Len(ss)
      BY <1>0, <1>4, <2>4
    <3> QED BY <3>1 DEF Good
  <2>6. FlattenSeq(tt) = g[Len(ss)] \o tt[Len(ss) + 1]
    <3>1. Len(tt) \in 1 .. Len(tt) /\ Len(tt) - 1 = Len(ss) /\ Len(tt) # 1
      BY <1>0, <1>1, <1>4
    <3>2. g[Len(tt)] = g[Len(tt) - 1] \o tt[Len(tt)]
      BY <1>2, <3>1 DEF FlattenAt
    <3> QED BY <1>1, <1>2, <3>1, <3>2
  <2>7. f[Len(ss)] \in Seq(S)
    <3>1. Len(ss) \in 1 .. Len(ss)
      BY <1>0, <1>4
    <3> QED BY <2>1, <3>1
  <2> QED BY <1>1, <2>1, <2>5, <2>6, <2>7 DEF tt
<1> QED BY <1>3, <1>4

\* It does not matter which two of three sequences are put together first.
Associates(S) == \A a, b, c \in Seq(S) : (a \o b) \o c = a \o (b \o c)

LEMMA ConcatAssociates ==
    ASSUME NEW S
    PROVE  Associates(S)
<1> SUFFICES ASSUME NEW a \in Seq(S), NEW b \in Seq(S), NEW c \in Seq(S)
             PROVE  (a \o b) \o c = a \o (b \o c)
  BY Zenon DEF Associates
<1> QED BY ConcatAssociative

\* How much comes before the k+1-st sequence.
Preceding(ss, k) == Len(FlattenSeq(SubSeq(ss, 1, k)))

\* What b is in the middle of the three.
Middle(a, b, c) ==
    /\ (a \o b) \o c = a \o (b \o c)
    /\ Len(a \o b) = Len(a) + Len(b) /\ Len(a \o b) <= Len((a \o b) \o c)
    /\ \A p \in 1 .. Len(b) : ((a \o b) \o c)[Len(a) + p] = b[p]

LEMMA ConcatThree ==
    ASSUME NEW S, NEW a \in Seq(S), NEW b \in Seq(S), NEW c \in Seq(S)
    PROVE  b \o c \in Seq(S) /\ Middle(a, b, c)
<1>1. Len(a) \in Nat /\ Len(b) \in Nat /\ Len(c) \in Nat
  BY LenProperties
<1>2. /\ a \o b \in Seq(S) /\ Len(a \o b) = Len(a) + Len(b)
      /\ \A i \in 1 .. Len(a) + Len(b) : (a \o b)[i] = IF i <= Len(a) THEN a[i] ELSE b[i - Len(a)]
  BY ConcatProperties
<1> DEFINE ab == a \o b
<1> HIDE DEF ab
<1>3. /\ ab \in Seq(S) /\ Len(ab) = Len(a) + Len(b)
      /\ \A i \in 1 .. Len(a) + Len(b) : ab[i] = IF i <= Len(a) THEN a[i] ELSE b[i - Len(a)]
  BY <1>2 DEF ab
<1>4. /\ Len(ab \o c) = Len(ab) + Len(c)
      /\ \A i \in 1 .. Len(ab) + Len(c) : (ab \o c)[i] = IF i <= Len(ab) THEN ab[i] ELSE c[i - Len(ab)]
  <2>1. ab \in Seq(S)
    BY <1>3
  <2> QED BY <2>1, ConcatProperties
<1>5. ASSUME NEW p \in 1 .. Len(b) PROVE (ab \o c)[Len(a) + p] = b[p]
  <2> DEFINE i == Len(a) + p
  <2>1. /\ i \in 1 .. Len(a) + Len(b) /\ i \in 1 .. Len(ab) + Len(c) /\ i <= Len(ab)
        /\ ~(i <= Len(a)) /\ i - Len(a) = p
    BY <1>1, <1>3
  <2> HIDE DEF i
  <2>2. (ab \o c)[i] = ab[i] /\ ab[i] = b[p]
    BY <1>3, <1>4, <2>1
  <2> QED BY <2>2 DEF i
<1>6. (a \o b) \o c = a \o (b \o c) /\ b \o c \in Seq(S)
  <2>1. (a \o b) \o c = a \o (b \o c)
    BY ConcatAssociative
  <2>2. b \o c \in Seq(S)
    BY ConcatProperties
  <2> QED BY <2>1, <2>2
<1>7. Len(ab) <= Len(ab \o c)
  BY <1>1, <1>3, <1>4
<1> QED BY <1>2, <1>5, <1>6, <1>7, Zenon DEF ab, Middle

\* The p-th of the k-th is there, behind what comes before.
LEMMA FlattenElements ==
    ASSUME NEW S, NEW ss \in Seq(Seq(S))
    PROVE  /\ Preceding(ss, 0) = 0 /\ Len(FlattenSeq(ss)) = Preceding(ss, Len(ss))
           /\ \A k \in 1 .. Len(ss) : /\ Preceding(ss, k - 1) \in Nat
                                      /\ Preceding(ss, k) = Preceding(ss, k - 1) + Len(ss[k])
                                      /\ Preceding(ss, k) <= Len(FlattenSeq(ss))
           /\ \A k \in 1 .. Len(ss) : \A p \in 1 .. Len(ss[k]) :
                 FlattenSeq(ss)[Preceding(ss, k - 1) + p] = ss[k][p]
<1> DEFINE last == Len(ss)
           Pre(k) == FlattenSeq(SubSeq(ss, 1, k))
<1>0. last \in Nat /\ \A i \in 1 .. last : ss[i] \in Seq(S)
  BY LenProperties, ElementOfSeq
<1>1. \A k \in 0 .. last : SubSeq(ss, 1, k) \in Seq(Seq(S)) /\ Pre(k) \in Seq(S)
  <2> SUFFICES ASSUME NEW k \in 0 .. last
               PROVE  SubSeq(ss, 1, k) \in Seq(Seq(S)) /\ Pre(k) \in Seq(S)
    OBVIOUS
  <2>1. SubSeq(ss, 1, k) \in Seq(Seq(S))
    BY <1>0, SubSeqProperties
  <2> QED BY <2>1, FlattenAppend, EmptySeq
<1>m. \A a, b, c \in Seq(S) : b \o c \in Seq(S) /\ Middle(a, b, c)
  BY ConcatThree
<1>2. Pre(0) = <<>>
  <2>1. SubSeq(ss, 1, 0) = <<>>
    BY SubSeqEmpty
  <2>2. FlattenSeq(<<>>) = <<>>
    BY DEF FlattenSeq
  <2> QED BY <2>1, <2>2
<1>3. Pre(last) = FlattenSeq(ss)
  BY SubSeqFull
<1>4. \A k \in 1 .. last : Pre(k) = Pre(k - 1) \o ss[k]
  <2> SUFFICES ASSUME NEW k \in 1 .. last PROVE Pre(k) = Pre(k - 1) \o ss[k]
    OBVIOUS
  <2>1. k - 1 \in 0 .. last /\ 1 \in 1 .. last /\ k \in 1 .. last
    BY <1>0
  <2>2. SubSeq(ss, 1, k - 1) \in Seq(Seq(S)) /\ ss[k] \in Seq(S)
    BY <1>0, <1>1, <2>1
  <2>3. SubSeq(ss, 1, k) = SubSeq(ss, 1, k - 1) \o <<ss[k]>>
    BY <2>1, SubSeqRecursiveSecond
  <2>4. SubSeq(ss, 1, k) = Append(SubSeq(ss, 1, k - 1), ss[k])
    BY <2>2, <2>3, AppendIsConcat
  <2> QED BY <2>2, <2>4, FlattenAppend
<1> DEFINE Good == {n \in Nat : n <= last =>
                       \E r \in Seq(S) : FlattenSeq(ss) = Pre(last - n) \o r}
<1>5. 0 \in Good
  <2>1. last - 0 = last /\ <<>> \in Seq(S) /\ FlattenSeq(ss) \in Seq(S)
    BY <1>0, <1>1, <1>3, EmptySeq
  <2>2. FlattenSeq(ss) = Pre(last - 0) \o <<>>
    BY <1>3, <2>1, ConcatEmptySeq
  <2> HIDE DEF Pre
  <2> QED BY <2>1, <2>2
<1>6. ASSUME NEW n \in Nat, n \in Good PROVE n + 1 \in Good
  <2>0. n + 1 \in Nat /\ (n + 1 <= last => n <= last)
    BY <1>0
  <2> SUFFICES ASSUME n + 1 <= last
               PROVE  \E r \in Seq(S) : FlattenSeq(ss) = Pre(last - (n + 1)) \o r
    BY <2>0, Zenon
  <2>1. PICK r \in Seq(S) : FlattenSeq(ss) = Pre(last - n) \o r
    BY <1>6, <2>0, Zenon
  <2>2. last - n \in 1 .. last /\ (last - n) - 1 = last - (n + 1) /\ last - (n + 1) \in 0 .. last
    BY <1>0
  <2>3. Pre(last - n) = Pre(last - (n + 1)) \o ss[last - n]
    BY <1>4, <2>2
  <2>4. Pre(last - (n + 1)) \in Seq(S) /\ ss[last - n] \in Seq(S)
    BY <1>0, <1>1, <2>2
  <2> HIDE DEF Pre
  <2>5. /\ (Pre(last - (n + 1)) \o ss[last - n]) \o r = Pre(last - (n + 1)) \o (ss[last - n] \o r)
        /\ ss[last - n] \o r \in Seq(S)
    <3>1. ss[last - n] \o r \in Seq(S) /\ Middle(Pre(last - (n + 1)), ss[last - n], r)
      BY <1>m, <2>4, Zenon
    <3> QED BY <3>1, Zenon DEF Middle
  <2>6. FlattenSeq(ss) = Pre(last - (n + 1)) \o (ss[last - n] \o r)
    BY <2>1, <2>3, <2>5, Zenon
  <2> QED BY <2>5, <2>6, Zenon
<1> HIDE DEF Good
<1>7. \A n \in Nat : n \in Good
  BY <1>5, <1>6, SetInduction
<1>8. \A k \in 0 .. last : \E r \in Seq(S) : FlattenSeq(ss) = Pre(k) \o r
  <2> SUFFICES ASSUME NEW k \in 0 .. last
               PROVE  \E r \in Seq(S) : FlattenSeq(ss) = Pre(k) \o r
    OBVIOUS
  <2>1. last - k \in Nat /\ last - k <= last /\ last - (last - k) = k
    BY <1>0
  <2>2. last - k \in Good
    BY <1>7, <2>1
  <2> QED BY <2>1, <2>2 DEF Good
<1> HIDE DEF Pre
<1>9. ASSUME NEW k \in 1 .. last
      PROVE  /\ Len(Pre(k - 1)) \in Nat /\ Len(Pre(k)) = Len(Pre(k - 1)) + Len(ss[k])
             /\ Len(Pre(k)) <= Len(FlattenSeq(ss))
             /\ \A p \in 1 .. Len(ss[k]) : FlattenSeq(ss)[Len(Pre(k - 1)) + p] = ss[k][p]
  <2>1. k - 1 \in 0 .. last /\ k \in 0 .. last
    BY <1>0
  <2>2. Pre(k - 1) \in Seq(S) /\ ss[k] \in Seq(S) /\ Pre(k) \in Seq(S) /\ Pre(k) = Pre(k - 1) \o ss[k]
    BY <1>0, <1>1, <1>4, <2>1
  <2>3. PICK r \in Seq(S) : FlattenSeq(ss) = Pre(k) \o r
    BY <1>8, <2>1
  <2>4. Len(Pre(k - 1)) \in Nat
    BY <2>2, LenProperties
  <2>5. FlattenSeq(ss) = (Pre(k - 1) \o ss[k]) \o r
    BY <2>2, <2>3, Zenon
  <2>6. /\ Len(Pre(k - 1) \o ss[k]) = Len(Pre(k - 1)) + Len(ss[k])
        /\ Len(Pre(k - 1) \o ss[k]) <= Len((Pre(k - 1) \o ss[k]) \o r)
        /\ \A p \in 1 .. Len(ss[k]) : ((Pre(k - 1) \o ss[k]) \o r)[Len(Pre(k - 1)) + p] = ss[k][p]
    <3>1. Pre(k - 1) \in Seq(S)
      BY <2>2
    <3>2. ss[k] \in Seq(S)
      BY <2>2
    <3>3. Middle(Pre(k - 1), ss[k], r)
      BY <1>m, <3>1, <3>2, Zenon
    <3> QED BY <3>3, Zenon DEF Middle
  <2> QED BY <2>2, <2>4, <2>5, <2>6, Zenon
<1>10. \A k : Preceding(ss, k) = Len(Pre(k))
  BY DEF Preceding, Pre
<1>11. Preceding(ss, 0) = 0 /\ Len(FlattenSeq(ss)) = Preceding(ss, Len(ss))
  BY <1>2, <1>3, <1>10, EmptySeq
<1> HIDE DEF Pre, last
<1>13. ASSUME NEW k \in 1 .. last
       PROVE  /\ Preceding(ss, k - 1) \in Nat /\ Preceding(ss, k) = Preceding(ss, k - 1) + Len(ss[k])
              /\ Preceding(ss, k) <= Len(FlattenSeq(ss))
              /\ \A p \in 1 .. Len(ss[k]) : FlattenSeq(ss)[Preceding(ss, k - 1) + p] = ss[k][p]
  <2>1. Preceding(ss, k) = Len(Pre(k)) /\ Preceding(ss, k - 1) = Len(Pre(k - 1))
    BY <1>10
  <2> QED BY <1>9, <2>1, Zenon
<1> QED BY <1>11, <1>13 DEF last


-----------------------------------------------------------------------------
(* The chunks of a unit *)

LEMMA Products ==
    ASSUME NEW a \in Nat, NEW k \in Nat, k > 0
    PROVE  /\ a * k \in Nat /\ 0 * k = 0 /\ 1 * k = k /\ (a + 1) * k = a * k + k
           /\ \A b \in Nat : a <= b => a * k <= b * k
           /\ a \div k \in Nat /\ (a \div k) * k <= a /\ a < (a \div k) * k + k
OBVIOUS

\* Where the p-th chunk of the bytes w ends.
End(w, p) == IF p * kMaxPayloadLength < Len(w) THEN p * kMaxPayloadLength ELSE Len(w)

\* The chunks cover the bytes, each of them once, and none is empty.
LEMMA PiecesOf ==
    ASSUME NEW w \in Seq(Byte), Len(w) > 0
    PROVE  /\ chunk_payload(w) \in Seq(Seq(Byte)) /\ Len(chunk_payload(w)) \in Nat \ {0}
           /\ End(w, 0) = 0 /\ End(w, Len(chunk_payload(w))) = Len(w)
           /\ \A p \in 1 .. Len(chunk_payload(w)) :
                /\ End(w, p - 1) \in Nat /\ End(w, p) \in Nat
                /\ End(w, p - 1) < End(w, p) /\ End(w, p) <= Len(w)
                /\ p > 1 => End(w, p - 1) > 4
                /\ Len(w) > 4 => End(w, p) > 4
                /\ chunk_payload(w)[p] = SubSeq(w, End(w, p - 1) + 1, End(w, p))
<1> DEFINE K == kMaxPayloadLength
           L == Len(w)
           N == (L + K - 1) \div K
           part(p) == SubSeq(w, (p - 1) * K + 1, IF p * K < L THEN p * K ELSE L)
<1>0. L \in Nat /\ L > 0 /\ K \in Nat /\ K > 4 /\ L + K - 1 \in Nat
  BY LenProperties, PayloadAssumption
<1>1. N \in Nat /\ N * K <= L + K - 1 /\ L + K - 1 < N * K + K /\ 0 * K = 0
  <2> HIDE DEF K, L
  <2> QED BY <1>0, Products
<1> HIDE DEF N
<1>2. N * K >= L /\ N # 0 /\ N * K < L + K
  <2> HIDE DEF K, L
  <2> QED BY <1>0, <1>1
<1>3. ASSUME NEW p \in 1 .. N
      PROVE  /\ p \in Nat /\ p - 1 \in Nat /\ (p - 1) * K \in Nat /\ p * K = (p - 1) * K + K
             /\ (p - 1) * K < L /\ (p > 1 => (p - 1) * K >= K)
  <2> HIDE DEF K, L
  <2>1. p - 1 \in Nat /\ p \in Nat /\ N - 1 \in Nat /\ p - 1 <= N - 1
        /\ (p - 1) + 1 = p /\ (N - 1) + 1 = N /\ (p > 1 => 1 <= p - 1)
    BY <1>1
  <2>2. (p - 1) * K \in Nat /\ p * K = (p - 1) * K + K /\ (p - 1) * K <= (N - 1) * K
    BY <1>0, <2>1, Products
  <2>3. (N - 1) * K \in Nat /\ N * K = (N - 1) * K + K
    BY <1>0, <2>1, Products
  <2>4. p > 1 => 1 * K <= (p - 1) * K /\ 1 * K = K
    BY <1>0, <2>1, Products
  <2>5. (p - 1) * K < L
    BY <1>0, <1>2, <2>2, <2>3
  <2> QED BY <1>0, <2>1, <2>2, <2>4, <2>5
<1>4. chunk_payload(w) = [p \in 1 .. N |-> part(p)]
  BY DEF chunk_payload, N
<1>5. ASSUME NEW p \in 1 .. N
      PROVE  /\ End(w, p - 1) = (p - 1) * K /\ part(p) = SubSeq(w, End(w, p - 1) + 1, End(w, p))
             /\ End(w, p) \in Nat /\ End(w, p - 1) < End(w, p) /\ End(w, p) <= L
             /\ L > 4 => End(w, p) > 4
  <2>1. End(w, p - 1) = (p - 1) * K
    BY <1>3 DEF End
  <2>2. End(w, p) = IF p * K < L THEN p * K ELSE L
    BY DEF End
  <2>3. part(p) = SubSeq(w, End(w, p - 1) + 1, End(w, p))
    BY <2>1, <2>2
  <2> HIDE DEF K, L, part
  <2>4. p * K \in Nat /\ (p - 1) * K \in Nat /\ p * K = (p - 1) * K + K /\ (p - 1) * K < L
    BY <1>0, <1>3
  <2>5. /\ End(w, p) \in Nat /\ End(w, p - 1) < End(w, p) /\ End(w, p) <= L
        /\ L > 4 => End(w, p) > 4
    BY <1>0, <2>1, <2>2, <2>4
  <2> QED BY <2>1, <2>3, <2>5
<1>6. End(w, 0) = 0 /\ End(w, N) = L
  BY <1>0, <1>1, <1>2 DEF End
<1>7. \A p \in 1 .. N : part(p) \in Seq(Byte)
  <2> SUFFICES ASSUME NEW p \in 1 .. N PROVE part(p) \in Seq(Byte)
    OBVIOUS
  <2>1. End(w, p - 1) \in Nat /\ End(w, p) \in Nat /\ End(w, p) <= Len(w)
    BY <1>3, <1>5
  <2>2. SubSeq(w, End(w, p - 1) + 1, End(w, p)) \in Seq(Byte)
    BY <2>1, PartOfFile
  <2> QED BY <1>5, <2>2, Zenon
<1> HIDE DEF part
<1>8. chunk_payload(w) \in Seq(Seq(Byte)) /\ Len(chunk_payload(w)) = N
  BY <1>1, <1>4, <1>7
<1>9. ASSUME NEW p \in 1 .. N
      PROVE  /\ End(w, p - 1) \in Nat /\ p > 1 => End(w, p - 1) > 4
             /\ chunk_payload(w)[p] = SubSeq(w, End(w, p - 1) + 1, End(w, p))
  <2>1. End(w, p - 1) \in Nat /\ (p > 1 => End(w, p - 1) > 4)
    <3>1. End(w, p - 1) = (p - 1) * K
      BY <1>5
    <3> DEFINE x == (p - 1) * K
    <3> HIDE DEF K, x
    <3>2. x \in Nat /\ (p > 1 => x >= K)
      BY <1>3 DEF x
    <3>3. p > 1 => x > 4
      BY <1>0, <3>2
    <3> QED BY <3>1, <3>2, <3>3 DEF x
  <2>2. chunk_payload(w)[p] = part(p)
    BY <1>4
  <2> QED BY <1>5, <2>1, <2>2
<1> QED BY <1>1, <1>2, <1>5, <1>6, <1>8, <1>9

\* No start code begins in a unit of a well-formed file, and its header is not 0.
Clean(u) == u \in Unit /\ u[1] # 0 /\ Marks(u) = {}

LEMMA UnitsAreClean ==
    ASSUME NEW d \in Seq(Byte), WellFormed(d), NEW m \in Marks(d)
    PROVE  Clean(UnitAt(d, m))
<1> DEFINE end == NextUnit(d, m + 4)
           u == UnitAt(d, m)
<1>1. /\ end \in m + 4 .. Len(d) /\ u = SubSeq(d, m + 4, end)
      /\ {n \in Marks(d) : n >= end} = {n \in Marks(d) : n > m}
  BY NextUnitEnds
<1>2. /\ m \in Nat /\ m + 3 \in Nat /\ (m + 3) + 1 = m + 4 /\ end \in Nat /\ m + 3 < end
      /\ end <= Len(d)
  <2>1. m \in Nat /\ Len(d) \in Nat
    BY MarksFacts, LenProperties
  <2> HIDE DEF end
  <2> QED BY <1>1, <2>1
<1> HIDE DEF end
<1>3. /\ SubSeq(d, (m + 3) + 1, end) \in Seq(Byte)
      /\ Len(SubSeq(d, (m + 3) + 1, end)) = end - (m + 3)
      /\ \A k \in 1 .. end - (m + 3) : SubSeq(d, (m + 3) + 1, end)[k] = d[(m + 3) + k]
  BY <1>2, PartOfFile
<1>4. /\ u \in Seq(Byte) /\ Len(u) = end - (m + 3)
      /\ \A k \in 1 .. end - (m + 3) : u[k] = d[(m + 3) + k]
  BY <1>1, <1>2, <1>3, Zenon
<1>5. u \in Unit
  BY UnitIsUnit
<1> HIDE DEF u
<1>6. u[1] # 0
  <2>1. 1 \in 1 .. end - (m + 3) /\ (m + 3) + 1 = m + 4
    BY <1>2
  <2>2. u[1] = d[m + 4]
    BY <1>4, <2>1
  <2> QED BY <2>2 DEF WellFormed
<1>7. ASSUME NEW i \in Marks(u) PROVE FALSE
  <2>1. i \in Nat
    BY <1>4, MarksFacts
  <2>2. i + 3 <= Len(u) /\ u[i + 1] = 0 /\ u[i + 2] = 0 /\ u[i + 3] = 1
    BY <1>4, <2>1, MarkIs
  <2> DEFINE j == m + 3 + i
  <2>3. /\ i + 1 \in 1 .. end - (m + 3) /\ i + 2 \in 1 .. end - (m + 3) /\ i + 3 \in 1 .. end - (m + 3)
        /\ (m + 3) + (i + 1) = j + 1 /\ (m + 3) + (i + 2) = j + 2 /\ (m + 3) + (i + 3) = j + 3
        /\ j \in Nat /\ j + 3 <= Len(d) /\ j > m /\ j < end
    BY <1>2, <1>4, <2>1, <2>2
  <2> HIDE DEF j
  <2>4. d[j + 1] = 0 /\ d[j + 2] = 0 /\ d[j + 3] = 1
    BY <1>4, <2>2, <2>3
  <2>5. j \in Marks(d)
    BY <2>3, <2>4, MarkIs
  <2>6. ~(j >= end)
    BY <1>2, <2>3
  <2> QED BY <1>1, <2>3, <2>5, <2>6
<1> QED BY <1>5, <1>6, <1>7 DEF Clean, u

\* A unit with its start code, as it is sent.
Whole(u) == StartBytes \o u

LEMMA WholeIs ==
    ASSUME NEW u \in Unit
    PROVE  /\ Whole(u) \in Seq(Byte) /\ Len(Whole(u)) = 4 + Len(u) /\ Len(Whole(u)) > 4
           /\ Whole(u)[1] = 0 /\ Whole(u)[2] = 0 /\ Whole(u)[3] = 0 /\ Whole(u)[4] = 1
           /\ \A i \in 1 .. Len(u) : Whole(u)[4 + i] = u[i]
<1>1. StartBytes \in Seq(Byte) /\ Len(StartBytes) = 4
  BY DEF StartBytes, Byte
<1>2. u \in Seq(Byte) /\ Len(u) \in Nat /\ Len(u) > 0
  BY LenProperties DEF Unit
<1>3. StartBytes[1] = 0 /\ StartBytes[2] = 0 /\ StartBytes[3] = 0 /\ StartBytes[4] = 1
  BY DEF StartBytes
<1>4. /\ Whole(u) \in Seq(Byte) /\ Len(Whole(u)) = 4 + Len(u)
      /\ \A i \in 1 .. 4 + Len(u) : Whole(u)[i] = IF i <= 4 THEN StartBytes[i] ELSE u[i - 4]
  <2> DEFINE t == StartBytes
  <2> HIDE DEF t
  <2>1. t \in Seq(Byte)
    BY <1>1 DEF t
  <2>2. u \in Seq(Byte)
    BY <1>2
  <2>3. /\ t \o u \in Seq(Byte) /\ Len(t \o u) = Len(t) + Len(u)
        /\ \A i \in 1 .. Len(t) + Len(u) : (t \o u)[i] = IF i <= Len(t) THEN t[i] ELSE u[i - Len(t)]
    BY <2>1, <2>2, ConcatProperties
  <2>4. Len(t) = 4
    BY <1>1 DEF t
  <2> QED BY <2>3, <2>4, Zenon DEF t, Whole
<1>5. \A i \in 1 .. Len(u) : Whole(u)[4 + i] = u[i]
  <2> SUFFICES ASSUME NEW i \in 1 .. Len(u) PROVE Whole(u)[4 + i] = u[i]
    OBVIOUS
  <2>1. 4 + i \in 1 .. 4 + Len(u) /\ ~(4 + i <= 4) /\ (4 + i) - 4 = i
    BY <1>2
  <2> QED BY <1>4, <2>1
<1> QED BY <1>2, <1>3, <1>4, <1>5

\* The first of its chunks begins with a start code and has the header, and no other does.
LEMMA ChunksOfUnit ==
    ASSUME NEW u, Clean(u), NEW p \in 1 .. Len(chunk_payload(Whole(u)))
    PROVE  /\ starts_with_annex_b(chunk_payload(Whole(u))[p]) <=> p = 1
           /\ p = 1 => /\ StartCode(chunk_payload(Whole(u))[p], 0) = 4
                       /\ chunk_payload(Whole(u))[p][5] = u[1]
<1> DEFINE w == Whole(u)
           c == chunk_payload(w)[p]
           s == End(w, p - 1)
           e == End(w, p)
<1>0. u \in Unit /\ u \in Seq(Byte) /\ Len(u) \in Nat /\ Len(u) > 0
  BY LenProperties DEF Clean, Unit
<1>1. /\ w \in Seq(Byte) /\ Len(w) = 4 + Len(u) /\ Len(w) > 4
      /\ w[1] = 0 /\ w[2] = 0 /\ w[3] = 0 /\ w[4] = 1
      /\ \A i \in 1 .. Len(u) : w[4 + i] = u[i]
  BY <1>0, WholeIs
<1> HIDE DEF w
<1>2. /\ s \in Nat /\ e \in Nat /\ s < e /\ e <= Len(w) /\ (p > 1 => s > 4) /\ e > 4
      /\ c = SubSeq(w, s + 1, e) /\ Len(chunk_payload(w)) \in Nat /\ End(w, 0) = 0
  <2>1. p \in 1 .. Len(chunk_payload(w))
    BY DEF w
  <2>2. Len(w) > 0
    BY <1>0, <1>1
  <2> QED BY <1>1, <2>1, <2>2, PiecesOf
<1>3. p = 1 => s = 0
  BY <1>2
<1> HIDE DEF s, e, c
<1>4. c \in Seq(Byte) /\ Len(c) = e - s /\ \A k \in 1 .. e - s : c[k] = w[s + k]
  BY <1>1, <1>2, PartOfFile
<1>5. \A i \in Marks(w) : i <= 1
  <2> SUFFICES ASSUME NEW i \in Marks(w), i > 1 PROVE FALSE
    BY <1>1, MarksFacts
  <2>1. i \in Nat
    BY <1>1, MarksFacts
  <2>2. i + 3 <= Len(w) /\ w[i + 1] = 0 /\ w[i + 2] = 0 /\ w[i + 3] = 1
    BY <1>1, <2>1, MarkIs
  <2>3. CASE i = 2
    BY <1>1, <2>2, <2>3
  <2>4. CASE i = 3
    BY <1>1, <2>2, <2>4
  <2>5. CASE i > 3
    <3> DEFINE j == i - 4
    <3>1. /\ j \in Nat /\ j + 3 <= Len(u) /\ j + 1 \in 1 .. Len(u) /\ j + 2 \in 1 .. Len(u)
          /\ j + 3 \in 1 .. Len(u)
          /\ 4 + (j + 1) = i + 1 /\ 4 + (j + 2) = i + 2 /\ 4 + (j + 3) = i + 3
      BY <1>0, <1>1, <2>1, <2>2, <2>5
    <3> HIDE DEF j
    <3>2. u[j + 1] = 0 /\ u[j + 2] = 0 /\ u[j + 3] = 1
      BY <1>1, <2>2, <3>1
    <3>3. j \in Marks(u)
      BY <1>0, <3>1, <3>2, MarkIs
    <3> QED BY <3>3 DEF Clean
  <2> QED BY <2>1, <2>3, <2>4, <2>5
<1>6. /\ starts_with_annex_b(c) <=> StartCode(c, 0) > 0
      /\ StartCode(c, 0) \in {0, 3, 4}
      /\ StartCode(c, 0) = 4 <=> 1 \in Marks(c) /\ c[1] = 0
      /\ StartCode(c, 0) = 3 <=> 0 \in Marks(c)
  <2>1. 0 \in Nat /\ 0 + 1 = 1
    OBVIOUS
  <2>2. /\ StartCode(c, 0) \in {0, 3, 4}
        /\ StartCode(c, 0) = 4 <=> 0 + 1 \in Marks(c) /\ c[0 + 1] = 0
        /\ StartCode(c, 0) = 3 <=> 0 \in Marks(c)
    BY <1>4, <2>1, StartCodeIs
  <2> QED BY <2>1, <2>2 DEF starts_with_annex_b
<1>7. CASE p = 1
  <2>1. s = 0 /\ Len(c) = e /\ e > 4 /\ \A k \in 1 .. e : c[k] = w[k]
    BY <1>2, <1>3, <1>4, <1>7
  <2>2. c[1] = 0 /\ c[2] = 0 /\ c[3] = 0 /\ c[4] = 1 /\ c[5] = w[5]
    BY <1>1, <1>2, <2>1
  <2>3. 1 \in Marks(c)
    <3>1. 1 \in Nat /\ 1 + 3 <= Len(c) /\ c[1 + 1] = 0 /\ c[1 + 2] = 0 /\ c[1 + 3] = 1
      BY <1>2, <2>1, <2>2
    <3> QED BY <1>4, <3>1, MarkIs
  <2>4. w[5] = u[1]
    <3>1. 1 \in 1 .. Len(u) /\ 4 + 1 = 5
      BY <1>0
    <3> QED BY <1>1, <3>1
  <2> QED BY <1>6, <1>7, <2>2, <2>3, <2>4 DEF c, w
<1>8. CASE p # 1
  <2>1. s > 4
    BY <1>2, <1>8
  <2>2. ASSUME NEW i \in {0, 1}, i \in Marks(c) PROVE FALSE
    <3>1. i \in Nat /\ i + 3 <= Len(c) /\ c[i + 1] = 0 /\ c[i + 2] = 0 /\ c[i + 3] = 1
      BY <1>4, <2>2, MarkIs
    <3> DEFINE j == s + i
    <3>2. /\ j \in Nat /\ j + 3 <= Len(w) /\ j > 1
          /\ i + 1 \in 1 .. e - s /\ i + 2 \in 1 .. e - s /\ i + 3 \in 1 .. e - s
          /\ s + (i + 1) = j + 1 /\ s + (i + 2) = j + 2 /\ s + (i + 3) = j + 3
      BY <1>1, <1>2, <1>4, <2>1, <3>1
    <3> HIDE DEF j
    <3>3. w[j + 1] = 0 /\ w[j + 2] = 0 /\ w[j + 3] = 1
      BY <1>4, <3>1, <3>2
    <3>4. j \in Marks(w)
      BY <1>1, <3>2, <3>3, MarkIs
    <3> QED BY <1>5, <3>2, <3>4
  <2>3. StartCode(c, 0) = 0
    BY <1>6, <2>2
  <2> QED BY <1>6, <1>8, <2>3 DEF c, w
<1> QED BY <1>7, <1>8


-----------------------------------------------------------------------------
(* The chunks of a file *)

Types == {"Keyframe", "Control", "PFrame"}

Chunk == [payload : Seq(Byte), type : Types, pts : Nat]

Frame == [data : Seq(Byte), pts : Nat, key : BOOLEAN]

\* The chunks of each of its units.
Chunks(d) == LET units == Scan(d) IN [k \in DOMAIN units |-> UnitChunks(units, k)]

LEMMA PtsType ==
    ASSUME NEW units \in Seq(Unit), NEW k \in 1 .. Len(units)
    PROVE  Pts(units, k) \in Nat
<1> DEFINE pictures == {j \in 1 .. k - 1 : IsPicture(units[j])}
<1>1. IsFiniteSet(1 .. k - 1)
  BY FS_Interval
<1>2. IsFiniteSet(pictures)
  <2>1. pictures \in SUBSET (1 .. k - 1)
    OBVIOUS
  <2> QED BY <1>1, <2>1, FS_Subset
<1>3. Cardinality(pictures) \in Nat
  BY <1>2, FS_CardinalityType
<1>4. Pts(units, k) = IF IsPicture(units[k]) THEN Cardinality(pictures) * Duration ELSE 0
  BY DEF Pts
<1> HIDE DEF pictures
<1> DEFINE n == Cardinality(pictures)
<1>5. n \in Nat /\ Duration \in Nat
  BY <1>3, TimesAssumption
<1> HIDE DEF n
<1>6. n * Duration \in Nat
  BY <1>5
<1> QED BY <1>4, <1>6 DEF n

LEMMA UnitChunksIs ==
    ASSUME NEW units \in Seq(Unit), NEW k \in 1 .. Len(units)
    PROVE  /\ UnitChunks(units, k) \in Seq(Chunk)
           /\ Len(UnitChunks(units, k)) = Len(chunk_payload(Whole(units[k])))
           /\ Len(UnitChunks(units, k)) \in Nat \ {0}
           /\ \A p \in 1 .. Len(UnitChunks(units, k)) :
                UnitChunks(units, k)[p] =
                  [payload |-> chunk_payload(Whole(units[k]))[p],
                   type |-> classify_nal_header(units[k][1]), pts |-> Pts(units, k)]
<1> DEFINE pieces == chunk_payload(Whole(units[k]))
           chunk(p) == [payload |-> pieces[p], type |-> classify_nal_header(units[k][1]),
                        pts |-> Pts(units, k)]
<1>1. units[k] \in Unit
  BY ElementOfSeq
<1>2. Whole(units[k]) \in Seq(Byte) /\ Len(Whole(units[k])) > 0
  <2>1. Whole(units[k]) \in Seq(Byte) /\ Len(Whole(units[k])) > 4
    BY <1>1, WholeIs
  <2>2. Len(Whole(units[k])) \in Nat
    BY <2>1, LenProperties
  <2> QED BY <2>1, <2>2
<1>3. pieces \in Seq(Seq(Byte)) /\ Len(pieces) \in Nat \ {0}
  BY <1>2, PiecesOf
<1>4. UnitChunks(units, k) = [p \in DOMAIN pieces |-> chunk(p)]
  BY DEF UnitChunks, Whole
<1> HIDE DEF pieces
<1>5. DOMAIN pieces = 1 .. Len(pieces) /\ \A p \in 1 .. Len(pieces) : pieces[p] \in Seq(Byte)
  BY <1>3, LenProperties, ElementOfSeq
<1>6. classify_nal_header(units[k][1]) \in Types
  BY DEF classify_nal_header, Types
<1>7. Pts(units, k) \in Nat
  BY PtsType
<1>8. \A p \in 1 .. Len(pieces) : chunk(p) \in Chunk
  BY <1>5, <1>6, <1>7 DEF Chunk
<1>9. UnitChunks(units, k) = [p \in 1 .. Len(pieces) |-> chunk(p)]
  BY <1>4, <1>5, Zenon
<1>10. UnitChunks(units, k) \in Seq(Chunk) /\ Len(UnitChunks(units, k)) = Len(pieces)
  <2> HIDE DEF chunk
  <2> QED BY <1>3, <1>8, <1>9
<1>11. \A p \in 1 .. Len(pieces) : UnitChunks(units, k)[p] = chunk(p)
  <2> HIDE DEF chunk
  <2> QED BY <1>9
<1> QED BY <1>3, <1>10, <1>11 DEF pieces

LEMMA ChunksIs ==
    ASSUME NEW d \in Seq(Byte)
    PROVE  /\ Len(Scan(d)) \in Nat /\ Chunks(d) \in Seq(Seq(Chunk)) /\ Len(Chunks(d)) = Len(Scan(d))
           /\ \A k \in 1 .. Len(Scan(d)) :
                Chunks(d)[k] = UnitChunks(Scan(d), k) /\ Len(Chunks(d)[k]) \in Nat \ {0}
           /\ ChunkQueue(d) = FlattenSeq(Chunks(d)) /\ ChunkQueue(d) \in Seq(Chunk)
<1>1. Scan(d) \in Seq(Unit)
  BY ScanInOrder
<1>2. Len(Scan(d)) \in Nat /\ DOMAIN Scan(d) = 1 .. Len(Scan(d))
  BY <1>1, LenProperties
<1>3. \A k \in 1 .. Len(Scan(d)) :
         UnitChunks(Scan(d), k) \in Seq(Chunk) /\ Len(UnitChunks(Scan(d), k)) \in Nat \ {0}
  BY <1>1, UnitChunksIs
<1>4. Chunks(d) = [k \in 1 .. Len(Scan(d)) |-> UnitChunks(Scan(d), k)]
  BY <1>2, Zenon DEF Chunks
<1>5. Chunks(d) \in Seq(Seq(Chunk)) /\ Len(Chunks(d)) = Len(Scan(d))
  BY <1>2, <1>3, <1>4
<1>6. \A k \in 1 .. Len(Scan(d)) : Chunks(d)[k] = UnitChunks(Scan(d), k)
  BY <1>4
<1>7. ChunkQueue(d) = FlattenSeq(Chunks(d))
  BY Zenon DEF ChunkQueue, Chunks
<1>8. ChunkQueue(d) \in Seq(Chunk)
  BY <1>5, <1>7, FlattenAppend, EmptySeq
<1> QED BY <1>2, <1>3, <1>5, <1>6, <1>7, <1>8

\* The chunk after which count of them are over is the p-th of the k-th unit.
At(d, count, k, p) ==
    /\ k \in 1 .. Len(Scan(d)) /\ p \in 1 .. Len(Chunks(d)[k])
    /\ count = Preceding(Chunks(d), k - 1) + p

\* It is at its place in the queue, and after it comes the next of its unit or the first
\* of the next unit.
InPlace(d, count, k, p) ==
    /\ count \in Nat /\ count > 0 /\ count <= Len(ChunkQueue(d))
    /\ ChunkQueue(d)[count] = Chunks(d)[k][p]
    /\ p < Len(Chunks(d)[k]) => At(d, count + 1, k, p + 1)
    /\ p = Len(Chunks(d)[k]) /\ k < Len(Scan(d)) => At(d, count + 1, k + 1, 1)
    /\ p = Len(Chunks(d)[k]) /\ k = Len(Scan(d)) => count = Len(ChunkQueue(d))

LEMMA NextChunk ==
    ASSUME NEW d \in Seq(Byte)
    PROVE  /\ Len(ChunkQueue(d)) \in Nat
           /\ Len(ChunkQueue(d)) = 0 <=> Len(Scan(d)) = 0
           /\ Len(Scan(d)) # 0 => At(d, 1, 1, 1)
           /\ \A count, k, p : At(d, count, k, p) => InPlace(d, count, k, p)
<1> DEFINE n == Len(Scan(d))
           Q == ChunkQueue(d)
           C == Chunks(d)
<1>1. /\ n \in Nat /\ C \in Seq(Seq(Chunk)) /\ Len(C) = n
      /\ \A k \in 1 .. n : Len(C[k]) \in Nat \ {0}
      /\ Q = FlattenSeq(C) /\ Q \in Seq(Chunk) /\ Len(Q) \in Nat
  BY ChunksIs, LenProperties
<1> HIDE DEF n, Q, C
<1>2. /\ Preceding(C, 0) = 0 /\ Len(Q) = Preceding(C, n)
      /\ \A k \in 1 .. n : /\ Preceding(C, k - 1) \in Nat
                           /\ Preceding(C, k) = Preceding(C, k - 1) + Len(C[k])
                           /\ Preceding(C, k) <= Len(Q)
      /\ \A k \in 1 .. n : \A p \in 1 .. Len(C[k]) : Q[Preceding(C, k - 1) + p] = C[k][p]
  <2>1. C \in Seq(Seq(Chunk)) /\ Len(C) = n /\ Q = FlattenSeq(C)
    BY <1>1
  <2>2. /\ Preceding(C, 0) = 0 /\ Len(FlattenSeq(C)) = Preceding(C, Len(C))
        /\ \A k \in 1 .. Len(C) : /\ Preceding(C, k - 1) \in Nat
                                  /\ Preceding(C, k) = Preceding(C, k - 1) + Len(C[k])
                                  /\ Preceding(C, k) <= Len(FlattenSeq(C))
        /\ \A k \in 1 .. Len(C) : \A p \in 1 .. Len(C[k]) :
              FlattenSeq(C)[Preceding(C, k - 1) + p] = C[k][p]
    BY <2>1, FlattenElements
  <2> QED BY <2>1, <2>2
<1>3. \A count, k, p : At(d, count, k, p) <=>
         k \in 1 .. n /\ p \in 1 .. Len(C[k]) /\ count = Preceding(C, k - 1) + p
  BY DEF At, n, C
<1>4. n = 0 => Len(Q) = 0
  BY <1>2
<1>5. n # 0 => Len(Q) # 0 /\ At(d, 1, 1, 1)
  <2> SUFFICES ASSUME n # 0 PROVE Len(Q) # 0 /\ At(d, 1, 1, 1)
    OBVIOUS
  <2>1. 1 \in 1 .. n /\ 1 - 1 = 0 /\ Len(C[1]) \in Nat \ {0} /\ 1 \in 1 .. Len(C[1])
    BY <1>1
  <2>2. Preceding(C, 1) = 0 + Len(C[1]) /\ Preceding(C, 1) <= Len(Q)
    BY <1>2, <2>1
  <2>3. Len(Q) # 0
    BY <1>1, <2>1, <2>2
  <2>4. 1 = Preceding(C, 1 - 1) + 1
    BY <1>2, <2>1
  <2>5. At(d, 1, 1, 1)
    BY <1>3, <2>1, <2>4
  <2> QED BY <2>3, <2>5
<1>6. ASSUME NEW count, NEW k, NEW p, At(d, count, k, p)
      PROVE  /\ count \in Nat /\ count > 0 /\ count <= Len(Q) /\ Q[count] = C[k][p]
             /\ p < Len(C[k]) => At(d, count + 1, k, p + 1)
             /\ p = Len(C[k]) /\ k < n => At(d, count + 1, k + 1, 1)
             /\ p = Len(C[k]) /\ k = n => count = Len(Q)
  <2>1. k \in 1 .. n /\ p \in 1 .. Len(C[k]) /\ count = Preceding(C, k - 1) + p
    BY <1>3, <1>6
  <2>2. /\ Preceding(C, k - 1) \in Nat /\ Preceding(C, k) = Preceding(C, k - 1) + Len(C[k])
        /\ Preceding(C, k) <= Len(Q) /\ Len(C[k]) \in Nat
    BY <1>1, <1>2, <2>1
  <2>3. count \in Nat /\ count > 0 /\ count <= Len(Q)
    BY <1>1, <2>1, <2>2
  <2>4. Q[count] = C[k][p]
    BY <1>2, <2>1
  <2>5. p < Len(C[k]) => At(d, count + 1, k, p + 1)
    <3> SUFFICES ASSUME p < Len(C[k]) PROVE At(d, count + 1, k, p + 1)
      OBVIOUS
    <3>1. p + 1 \in 1 .. Len(C[k]) /\ count + 1 = Preceding(C, k - 1) + (p + 1)
      BY <2>1, <2>2
    <3> QED BY <1>3, <2>1, <3>1
  <2>6. p = Len(C[k]) /\ k < n => At(d, count + 1, k + 1, 1)
    <3> SUFFICES ASSUME p = Len(C[k]), k < n PROVE At(d, count + 1, k + 1, 1)
      OBVIOUS
    <3>1. k + 1 \in 1 .. n /\ (k + 1) - 1 = k
      BY <1>1, <2>1
    <3>2. Len(C[k + 1]) \in Nat \ {0} /\ 1 \in 1 .. Len(C[k + 1])
      BY <1>1, <3>1
    <3>3. count + 1 = Preceding(C, (k + 1) - 1) + 1
      BY <2>1, <2>2, <3>1
    <3> QED BY <1>3, <3>1, <3>2, <3>3
  <2>7. p = Len(C[k]) /\ k = n => count = Len(Q)
    BY <1>2, <2>1, <2>2
  <2> QED BY <2>3, <2>4, <2>5, <2>6, <2>7
<1>7. \A count, k, p : At(d, count, k, p) => InPlace(d, count, k, p)
  <2> SUFFICES ASSUME NEW count, NEW k, NEW p, At(d, count, k, p) PROVE InPlace(d, count, k, p)
    OBVIOUS
  <2>1. /\ count \in Nat /\ count > 0 /\ count <= Len(Q) /\ Q[count] = C[k][p]
        /\ p < Len(C[k]) => At(d, count + 1, k, p + 1)
        /\ p = Len(C[k]) /\ k < n => At(d, count + 1, k + 1, 1)
        /\ p = Len(C[k]) /\ k = n => count = Len(Q)
    BY <1>6
  <2> QED BY <2>1 DEF n, Q, C, InPlace
<1> QED BY <1>1, <1>4, <1>5, <1>7 DEF n, Q, C


-----------------------------------------------------------------------------
(* The frames of a file *)

LEMMA FramesIs ==
    ASSUME NEW d \in Seq(Byte), WellFormed(d)
    PROVE  /\ Frames(d) \in Seq(Frame) /\ Len(Frames(d)) = Len(Scan(d))
           /\ \A k \in 1 .. Len(Scan(d)) :
                /\ Clean(Scan(d)[k]) /\ Frames(d)[k] \in Frame
                /\ Frames(d)[k].data = Whole(Scan(d)[k])
                /\ Frames(d)[k].pts = Pts(Scan(d), k)
                /\ Frames(d)[k].key <=> Scan(d)[k][1] % 32 = 5
<1> DEFINE units == Scan(d)
           frame(k) == [data |-> Whole(units[k]), pts |-> Pts(units, k),
                        key |-> units[k][1] % 32 = 5]
<1>1. Scan(d) = Units(d) /\ Scan(d) \in Seq(Unit) /\ InOrderOf(d, Marks(d), Scan(d))
  BY ScanFindsUnits, ScanInOrder
<1>2. Len(units) \in Nat /\ DOMAIN units = 1 .. Len(units)
  BY <1>1, LenProperties
<1>3. Frames(d) = [k \in 1 .. Len(units) |-> frame(k)]
  BY <1>1, <1>2, Zenon DEF Frames, Whole
<1>4. \A k \in 1 .. Len(units) : Clean(units[k])
  <2> SUFFICES ASSUME NEW k \in 1 .. Len(units) PROVE Clean(units[k])
    OBVIOUS
  <2>1. PICK m \in Marks(d) : units[k] = UnitAt(d, m)
    BY <1>1 DEF InOrderOf
  <2> QED BY <2>1, UnitsAreClean, Zenon
<1>5. \A k \in 1 .. Len(units) : frame(k) \in Frame
  <2> SUFFICES ASSUME NEW k \in 1 .. Len(units) PROVE frame(k) \in Frame
    OBVIOUS
  <2>1. units[k] \in Unit
    BY <1>1, ElementOfSeq
  <2>2. Whole(units[k]) \in Seq(Byte)
    BY <2>1, WholeIs
  <2>3. Pts(units, k) \in Nat
    BY <1>1, PtsType
  <2>4. (units[k][1] % 32 = 5) \in BOOLEAN
    OBVIOUS
  <2> QED BY <2>2, <2>3, <2>4 DEF Frame
<1>6. Frames(d) \in Seq(Frame) /\ Len(Frames(d)) = Len(units)
  <2> HIDE DEF frame
  <2> QED BY <1>2, <1>3, <1>5
<1>7. \A k \in 1 .. Len(units) : Frames(d)[k] = frame(k)
  <2> HIDE DEF frame
  <2> QED BY <1>3
<1>8. ASSUME NEW k \in 1 .. Len(units)
      PROVE  /\ Frames(d)[k].data = Whole(units[k]) /\ Frames(d)[k].pts = Pts(units, k)
             /\ Frames(d)[k].key <=> units[k][1] % 32 = 5
  <2> DEFINE idr == units[k][1] % 32 = 5
  <2>1. Frames(d)[k] = [data |-> Whole(units[k]), pts |-> Pts(units, k), key |-> idr]
    BY <1>7
  <2> HIDE DEF units, idr
  <2>2. Frames(d)[k].data = Whole(units[k]) /\ Frames(d)[k].pts = Pts(units, k)
    BY <2>1
  <2>3. Frames(d)[k].key = idr
    BY <2>1
  <2> QED BY <2>2, <2>3 DEF idr
<1> QED BY <1>4, <1>5, <1>6, <1>7, <1>8

\* A chunk has the time and the type of its unit, and only the first has a start code,
\* behind which is the header.
LEMMA ChunkOfFrame ==
    ASSUME NEW d \in Seq(Byte), WellFormed(d), NEW count, NEW k, NEW p, At(d, count, k, p)
    PROVE  /\ Chunks(d)[k][p] \in Chunk
           /\ starts_with_annex_b(Chunks(d)[k][p].payload) <=> p = 1
           /\ Chunks(d)[k][p].pts = Frames(d)[k].pts
           /\ Chunks(d)[k][p].type = "Keyframe" <=> Frames(d)[k].key
           /\ p = 1 => classify_nal_header(Chunks(d)[k][p].payload[
                                             StartCode(Chunks(d)[k][p].payload, 0) + 1])
                         = Chunks(d)[k][p].type
<1> DEFINE u == Scan(d)[k]
           c == Chunks(d)[k][p]
<1>1. k \in 1 .. Len(Scan(d)) /\ p \in 1 .. Len(Chunks(d)[k]) /\ Scan(d) \in Seq(Unit)
  BY ScanInOrder DEF At
<1>2. Chunks(d)[k] = UnitChunks(Scan(d), k)
  BY <1>1, ChunksIs
<1>3. /\ Len(Chunks(d)[k]) = Len(chunk_payload(Whole(u))) /\ Chunks(d)[k] \in Seq(Chunk)
      /\ c = [payload |-> chunk_payload(Whole(u))[p], type |-> classify_nal_header(u[1]),
              pts |-> Pts(Scan(d), k)]
  BY <1>1, <1>2, UnitChunksIs
<1>4. c \in Chunk
  BY <1>1, <1>3, ElementOfSeq
<1>5. /\ Clean(u) /\ Frames(d)[k].pts = Pts(Scan(d), k)
      /\ Frames(d)[k].key <=> u[1] % 32 = 5
  BY <1>1, FramesIs
<1>6. p \in 1 .. Len(chunk_payload(Whole(u)))
  BY <1>1, <1>3
<1>7. /\ starts_with_annex_b(chunk_payload(Whole(u))[p]) <=> p = 1
      /\ p = 1 => /\ StartCode(chunk_payload(Whole(u))[p], 0) = 4
                  /\ chunk_payload(Whole(u))[p][5] = u[1]
  BY <1>5, <1>6, ChunksOfUnit
<1> HIDE DEF u, c
<1>8. /\ c.payload = chunk_payload(Whole(u))[p] /\ c.type = classify_nal_header(u[1])
      /\ c.pts = Pts(Scan(d), k)
  BY <1>3
<1>9. starts_with_annex_b(c.payload) <=> p = 1
  BY <1>7, <1>8
<1>10. c.type = "Keyframe" <=> Frames(d)[k].key
  <2>1. classify_nal_header(u[1]) = "Keyframe" <=> u[1] % 32 = 5
    <3> DEFINE t == u[1] % 32
    <3>1. classify_nal_header(u[1]) = CASE t = 5 -> "Keyframe"
                                        [] t \in 6 .. 9 -> "Control"
                                        [] OTHER -> "PFrame"
      BY DEF classify_nal_header
    <3> HIDE DEF t
    <3>2. CASE t = 5
      <4>1. t \notin 6 .. 9
        BY <3>2
      <4> QED BY <3>1, <3>2, <4>1 DEF t
    <3>3. CASE t # 5
      BY <3>1, <3>3 DEF t
    <3> QED BY <3>2, <3>3
  <2> QED BY <1>5, <1>8, <2>1
<1>11. p = 1 => classify_nal_header(c.payload[StartCode(c.payload, 0) + 1]) = c.type
  <2> SUFFICES ASSUME p = 1
               PROVE  classify_nal_header(c.payload[StartCode(c.payload, 0) + 1]) = c.type
    OBVIOUS
  <2>1. StartCode(c.payload, 0) = 4 /\ c.payload[5] = u[1] /\ 4 + 1 = 5
    BY <1>7, <1>8
  <2>2. c.payload[StartCode(c.payload, 0) + 1] = u[1]
    BY <2>1
  <2> QED BY <1>8, <2>2, Zenon
<1> QED BY <1>4, <1>5, <1>8, <1>9, <1>10, <1>11 DEF c

\* The bytes of the k-th frame after p of its chunks.
Sofar(d, k, p) == SubSeq(Whole(Scan(d)[k]), 1, End(Whole(Scan(d)[k]), p))

\* They are one chunk more than before, and in the end all.
Grown(d, k, p) ==
    /\ Sofar(d, k, p) \in Seq(Byte) /\ Sofar(d, k, p) # <<>>
    /\ p = 1 => Sofar(d, k, p) = Chunks(d)[k][p].payload
    /\ p > 1 => Sofar(d, k, p) = Sofar(d, k, p - 1) \o Chunks(d)[k][p].payload
    /\ p = Len(Chunks(d)[k]) => Sofar(d, k, p) = Frames(d)[k].data

LEMMA SofarGrows ==
    ASSUME NEW d \in Seq(Byte), WellFormed(d), NEW count, NEW k, NEW p, At(d, count, k, p)
    PROVE  Grown(d, k, p)
<1> DEFINE u == Scan(d)[k]
           w == Whole(u)
           c == Chunks(d)[k][p]
           s == End(w, p - 1)
           e == End(w, p)
<1>1. k \in 1 .. Len(Scan(d)) /\ p \in 1 .. Len(Chunks(d)[k]) /\ Scan(d) \in Seq(Unit)
  BY ScanInOrder DEF At
<1>2. Chunks(d)[k] = UnitChunks(Scan(d), k) /\ Len(Chunks(d)[k]) \in Nat
  BY <1>1, ChunksIs
<1>3. Len(Chunks(d)[k]) = Len(chunk_payload(w)) /\ c.payload = chunk_payload(w)[p]
  <2>1. /\ Len(Chunks(d)[k]) = Len(chunk_payload(w))
        /\ c = [payload |-> chunk_payload(w)[p], type |-> classify_nal_header(u[1]),
                pts |-> Pts(Scan(d), k)]
    BY <1>1, <1>2, UnitChunksIs
  <2> HIDE DEF c, w, u
  <2> QED BY <2>1
<1>4. u \in Unit /\ Frames(d)[k].data = w
  BY <1>1, FramesIs, ElementOfSeq
<1>5. w \in Seq(Byte) /\ Len(w) > 4
  BY <1>4, WholeIs
<1>6. Sofar(d, k, p) = SubSeq(w, 1, e) /\ Sofar(d, k, p - 1) = SubSeq(w, 1, s)
  BY DEF Sofar
<1> HIDE DEF w, c, u
<1>7. /\ s \in Nat /\ e \in Nat /\ s < e /\ e <= Len(w) /\ c.payload = SubSeq(w, s + 1, e)
      /\ End(w, 0) = 0 /\ End(w, Len(chunk_payload(w))) = Len(w) /\ Len(w) \in Nat
  <2>1. p \in 1 .. Len(chunk_payload(w)) /\ Len(w) > 0 /\ Len(w) \in Nat
    BY <1>1, <1>3, <1>5, LenProperties
  <2> QED BY <1>3, <1>5, <2>1, PiecesOf
<1>8. p = 1 => s = 0
  BY <1>7
<1>9. p = Len(Chunks(d)[k]) => e = Len(w)
  BY <1>3, <1>7
<1> HIDE DEF s, e
<1>10. SubSeq(w, 1, e) \in Seq(Byte) /\ Len(SubSeq(w, 1, e)) = e
  <2>1. /\ SubSeq(w, 0 + 1, e) \in Seq(Byte)
        /\ Len(SubSeq(w, 0 + 1, e)) = IF 0 <= e THEN e - 0 ELSE 0
    BY <1>5, <1>7, PartOfFile
  <2> QED BY <1>7, <2>1
<1>11. SubSeq(w, 1, s) \o SubSeq(w, s + 1, e) = SubSeq(w, 1, e)
  <2>1. 1 \in 1 .. Len(w) + 1 /\ s \in 1 - 1 .. Len(w) /\ e \in s .. Len(w)
    BY <1>7
  <2> QED BY <1>5, <2>1, ConcatAdjacentSubSeq
<1>12. p = 1 => SubSeq(w, 1, e) = c.payload
  BY <1>7, <1>8
<1>13. e = Len(w) => SubSeq(w, 1, e) = w
  BY <1>5, SubSeqFull
<1>14. SubSeq(w, 1, e) # <<>>
  BY <1>7, <1>10, EmptySeq
<1> QED BY <1>4, <1>6, <1>7, <1>9, <1>10, <1>11, <1>12, <1>13, <1>14 DEF c, Grown


-----------------------------------------------------------------------------
(* The types of the media path, and the bytes on their way *)

MediaType ==
    /\ annex_b \in Seq(Byte) /\ refused \in BOOLEAN
    /\ pending \in Seq(Chunk) /\ sent \in Seq(Chunk)
    /\ building \in Frame /\ captured \in Seq(Frame)
    /\ received \in Nat /\ received <= Len(sent)
    /\ disorder \in Nat /\ came \in Seq(Chunk)
    /\ gathering \in Frame /\ arrived \in Seq(Frame)

LEMMA NothingIs == Nothing \in Frame /\ Nothing.data = <<>>
<1>1. <<>> \in Seq(Byte) /\ 0 \in Nat
  BY EmptySeq
<1> QED BY <1>1 DEF Nothing, Frame

\* What fill_window captures and goes on with once the chunk is in.
FramesThen == IF Complete(building, Head(pending)) THEN Append(captured, building) ELSE captured

FrameThen ==
    LET chunk == Head(pending) IN
    [data |-> (IF Complete(building, chunk) THEN <<>> ELSE building.data) \o chunk.payload,
     pts |-> chunk.pts,
     key |-> IF starts_with_annex_b(chunk.payload) THEN chunk.type = "Keyframe"
             ELSE building.key]

LEMMA SendEffect ==
    ASSUME MediaType, SendChunk
    PROVE  /\ pending # <<>> /\ Head(pending) \in Chunk /\ Head(pending).payload \in Seq(Byte)
           /\ FramesThen \in Seq(Frame) /\ FrameThen \in Frame
           /\ captured' = IF Tail(pending) = <<>> THEN Flush(FramesThen, FrameThen) ELSE FramesThen
           /\ building' = IF Tail(pending) = <<>> THEN Nothing ELSE FrameThen
           /\ sent' = Append(sent, Head(pending)) /\ pending' = Tail(pending)
           /\ UNCHANGED <<annex_b, refused, arrivalVars>>
<1> DEFINE chunk == Head(pending)
           starts == starts_with_annex_b(chunk.payload)
           frame == IF Complete(building, chunk) THEN Nothing ELSE building
           idr == chunk.type = "Keyframe"
           longer == [data |-> frame.data \o chunk.payload, pts |-> chunk.pts,
                      key |-> IF starts THEN idr ELSE building.key]
<1>1. /\ pending # <<>> /\ FlushFinal(FramesThen, longer)
      /\ sent' = Append(sent, chunk) /\ pending' = Tail(pending)
      /\ UNCHANGED <<annex_b, refused, arrivalVars>>
  BY Zenon DEF SendChunk, FramesThen
<1>2. chunk \in Chunk
  BY <1>1, HeadTailProperties DEF MediaType
<1>3. chunk.payload \in Seq(Byte) /\ chunk.pts \in Nat
  BY <1>2 DEF Chunk
<1>4. building \in Frame /\ building.data \in Seq(Byte) /\ building.key \in BOOLEAN
      /\ captured \in Seq(Frame)
  BY DEF MediaType, Frame
<1>5. FramesThen \in Seq(Frame)
  BY <1>4, AppendProperties DEF FramesThen
<1>6. frame.data = IF Complete(building, chunk) THEN <<>> ELSE building.data
  BY NothingIs
<1>7. longer = FrameThen
  <2> HIDE DEF chunk, frame
  <2>1. longer = [data |-> (IF Complete(building, chunk) THEN <<>> ELSE building.data) \o chunk.payload,
                  pts |-> chunk.pts, key |-> IF starts THEN idr ELSE building.key]
    BY <1>6, Zenon
  <2> QED BY <2>1, Zenon DEF FrameThen, chunk
<1>8. longer \in Frame
  <2>1. frame.data \in Seq(Byte)
    BY <1>4, <1>6, EmptySeq
  <2>2. idr \in BOOLEAN /\ (IF starts THEN idr ELSE building.key) \in BOOLEAN
    BY <1>4
  <2> HIDE DEF frame, chunk, starts, idr
  <2>3. frame.data \o chunk.payload \in Seq(Byte)
    BY <1>3, <2>1, ConcatProperties
  <2> QED BY <1>3, <2>2, <2>3 DEF Frame
<1>9. /\ captured' = IF Tail(pending) = <<>> THEN Flush(FramesThen, longer) ELSE FramesThen
      /\ building' = IF Tail(pending) = <<>> THEN Nothing ELSE longer
  BY <1>1, Zenon DEF FlushFinal
<1> HIDE DEF longer
<1> QED BY <1>1, <1>2, <1>3, <1>5, <1>7, <1>8, <1>9

\* What on_readable has captured once the packet is in.
ArrivedThen(chunk) == IF Complete(gathering, chunk) THEN Append(arrived, gathering) ELSE arrived

LEMMA ReceiveEffect ==
    ASSUME MediaType, NEW i \in DOMAIN sent, Receive(i)
    PROVE  LET chunk == sent[i]
               type == IF starts_with_annex_b(chunk.payload)
                       THEN classify_nal_header(chunk.payload[StartCode(chunk.payload, 0) + 1])
                       ELSE chunk.type
           IN  /\ chunk \in Chunk /\ chunk.payload \in Seq(Byte)
               /\ arrived' = ArrivedThen(chunk) /\ arrived' \in Seq(Frame) /\ gathering' \in Frame
               /\ gathering'.data = (IF Complete(gathering, chunk) THEN <<>> ELSE gathering.data)
                                      \o chunk.payload
               /\ gathering'.key <=> type = "Keyframe"
<1> DEFINE chunk == sent[i]
           type == IF starts_with_annex_b(chunk.payload)
                   THEN classify_nal_header(chunk.payload[StartCode(chunk.payload, 0) + 1])
                   ELSE chunk.type
           frame == IF Complete(gathering, chunk) THEN Nothing ELSE gathering
           idr == type = "Keyframe"
           pts == IF chunk.pts # 0 THEN chunk.pts ELSE Clock + Len(came)
<1>1. /\ arrived' = ArrivedThen(chunk)
      /\ gathering' = [data |-> frame.data \o chunk.payload, pts |-> pts, key |-> idr]
  BY Zenon DEF Receive, Capture, ArrivedThen
<1>2. chunk \in Chunk
  <2>1. sent \in Seq(Chunk)
    BY DEF MediaType
  <2>2. i \in 1 .. Len(sent)
    BY <2>1, LenProperties
  <2> QED BY <2>1, <2>2, ElementOfSeq
<1>3. chunk.payload \in Seq(Byte) /\ chunk.pts \in Nat
  BY <1>2 DEF Chunk
<1>4. gathering \in Frame /\ gathering.data \in Seq(Byte) /\ arrived \in Seq(Frame)
  BY DEF MediaType, Frame
<1>5. ArrivedThen(chunk) \in Seq(Frame)
  BY <1>4, AppendProperties DEF ArrivedThen
<1>6. frame.data = IF Complete(gathering, chunk) THEN <<>> ELSE gathering.data
  BY NothingIs
<1>7. pts \in Nat
  <2>1. Len(came) \in Nat
    BY LenProperties DEF MediaType
  <2> QED BY <1>3, <2>1, TimesAssumption
<1>8. idr \in BOOLEAN
  OBVIOUS
<1>9. frame.data \o chunk.payload \in Seq(Byte)
  <2>1. frame.data \in Seq(Byte)
    BY <1>4, <1>6, EmptySeq
  <2> HIDE DEF frame, chunk
  <2> QED BY <1>3, <2>1, ConcatProperties
<1> DEFINE data == frame.data \o chunk.payload
<1>10. gathering' = [data |-> data, pts |-> pts, key |-> idr]
  BY <1>1, Zenon
<1>11. data = (IF Complete(gathering, chunk) THEN <<>> ELSE gathering.data) \o chunk.payload
  BY <1>6, Zenon
<1> HIDE DEF data, pts, idr
<1>12. gathering' \in Frame /\ gathering'.data = data /\ gathering'.key = idr
  BY <1>7, <1>8, <1>9, <1>10 DEF Frame, data
<1>13. gathering'.key <=> type = "Keyframe"
  BY <1>12 DEF idr
<1> HIDE DEF chunk, type
<1> QED BY <1>1, <1>2, <1>3, <1>5, <1>11, <1>12, <1>13, Zenon DEF chunk, type

LEMMA FlushType ==
    ASSUME NEW frames \in Seq(Frame), NEW frame \in Frame
    PROVE  Flush(frames, frame) \in Seq(Frame)
BY AppendProperties DEF Flush

LEMMA MediaTypeHolds == MediaSpec => []MediaType
<1>1. MediaInit => MediaType
  <2> SUFFICES ASSUME MediaInit PROVE MediaType
    OBVIOUS
  <2>1. annex_b \in Seq(Byte)
    BY FilesAssumption DEF MediaInit, Byte
  <2>2. pending \in Seq(Chunk)
    BY <2>1, ChunksIs DEF MediaInit
  <2>3. /\ sent = <<>> /\ captured = <<>> /\ arrived = <<>> /\ received = 0 /\ refused = FALSE
        /\ disorder = 0 /\ came = <<>> /\ building = Nothing /\ gathering = Nothing
    BY DEF MediaInit
  <2>4. 0 <= Len(<<>>) /\ <<>> \in Seq(Chunk) /\ <<>> \in Seq(Frame)
    BY EmptySeq
  <2> QED BY <2>1, <2>2, <2>3, <2>4, NothingIs DEF MediaType
<1>2. MediaType /\ [MediaNext]_mediaVars => MediaType'
  <2> SUFFICES ASSUME MediaType, [MediaNext]_mediaVars PROVE MediaType'
    OBVIOUS
  <2>0. Len(sent) \in Nat /\ received \in Nat /\ received <= Len(sent) /\ disorder \in Nat
    BY LenProperties DEF MediaType
  <2>1. CASE SendChunk
    <3>1. /\ Tail(pending) \in Seq(Chunk) /\ Append(sent, Head(pending)) \in Seq(Chunk)
          /\ Len(Append(sent, Head(pending))) = Len(sent) + 1
      BY <2>1, SendEffect, HeadTailProperties, AppendProperties DEF MediaType
    <3>2. captured' \in Seq(Frame) /\ building' \in Frame
      BY <2>1, SendEffect, FlushType, NothingIs
    <3>3. /\ sent' = Append(sent, Head(pending)) /\ pending' = Tail(pending)
          /\ UNCHANGED <<annex_b, refused, received, disorder, came, gathering, arrived>>
      BY <2>1, SendEffect DEF arrivalVars
    <3>4. received' \in Nat /\ received' <= Len(sent')
      BY <2>0, <3>1, <3>3
    <3> QED BY <3>1, <3>2, <3>3, <3>4 DEF MediaType
  <2>2. CASE RefuseChunk
    <3>1. Tail(pending) \in Seq(Chunk)
      BY <2>2, HeadTailProperties DEF MediaType, RefuseChunk
    <3>2. captured' \in Seq(Frame) /\ building' \in Frame
      BY <2>2, FlushType, NothingIs DEF RefuseChunk, FlushFinal, MediaType
    <3> QED BY <2>2, <3>1, <3>2 DEF MediaType, RefuseChunk, arrivalVars
  <2>3. ASSUME NEW i \in DOMAIN sent, Receive(i) PROVE MediaType'
    <3>1. sent[i] \in Chunk /\ arrived' \in Seq(Frame) /\ gathering' \in Frame
      BY <2>3, ReceiveEffect, Zenon
    <3>2. /\ i \in 1 .. Len(sent) /\ came' = Append(came, sent[i])
          /\ received' = IF i > received THEN i ELSE received
          /\ disorder' = IF i = received + 1 THEN disorder ELSE disorder + 1
          /\ UNCHANGED <<annex_b, pending, building, captured, sent, refused>>
      BY <2>3 DEF Receive, Arrives, senderVars
    <3>3. received' \in Nat /\ received' <= Len(sent') /\ disorder' \in Nat
      BY <2>0, <3>2
    <3>4. came' \in Seq(Chunk)
      BY <3>1, <3>2, AppendProperties DEF MediaType
    <3> QED BY <3>1, <3>2, <3>3, <3>4 DEF MediaType
  <2>4. CASE UNCHANGED mediaVars
    BY <2>4 DEF mediaVars, senderVars, arrivalVars, MediaType
  <2> QED BY <2>1, <2>2, <2>3, <2>4 DEF MediaNext
<1> QED BY <1>1, <1>2, PTL DEF MediaSpec


\* The bytes of the packets that were sent.
Payloads(chunks) == FlattenSeq([k \in DOMAIN chunks |-> chunks[k].payload])

LEMMA BytesAppend ==
    ASSUME NEW frames \in Seq(Frame), NEW frame \in Frame
    PROVE  /\ Bytes(<<>>) = <<>> /\ Bytes(frames) \in Seq(Byte)
           /\ Bytes(Append(frames, frame)) = Bytes(frames) \o frame.data
<1> DEFINE datas == [k \in 1 .. Len(frames) |-> frames[k].data]
           longer == Append(frames, frame)
<1>1. Len(frames) \in Nat /\ DOMAIN frames = 1 .. Len(frames)
      /\ \A k \in 1 .. Len(frames) : frames[k] \in Frame
  BY LenProperties, ElementOfSeq
<1>2. \A k \in 1 .. Len(frames) : frames[k].data \in Seq(Byte)
  BY <1>1 DEF Frame
<1>3. datas \in Seq(Seq(Byte)) /\ Len(datas) = Len(frames)
  BY <1>1, <1>2
<1>4. frame.data \in Seq(Byte)
  BY DEF Frame
<1>5. /\ longer \in Seq(Frame) /\ Len(longer) = Len(frames) + 1
      /\ \A k \in 1 .. Len(frames) : longer[k] = frames[k]
      /\ longer[Len(frames) + 1] = frame
  BY AppendProperties
<1>6. DOMAIN longer = 1 .. Len(frames) + 1
  BY <1>5, LenProperties
<1> HIDE DEF longer
<1>7. [k \in DOMAIN longer |-> longer[k].data] = Append(datas, frame.data)
  <2> DEFINE s == [k \in 1 .. Len(frames) + 1 |-> longer[k].data]
             t == Append(datas, frame.data)
  <2>1. /\ t \in Seq(Seq(Byte)) /\ Len(t) = Len(frames) + 1
        /\ \A k \in 1 .. Len(frames) : t[k] = datas[k]
        /\ t[Len(frames) + 1] = frame.data
    BY <1>3, <1>4, AppendProperties
  <2>2. \A k \in 1 .. Len(frames) : datas[k] = frames[k].data
    OBVIOUS
  <2> HIDE DEF t
  <2>3. ASSUME NEW k \in 1 .. Len(frames) + 1 PROVE longer[k].data = t[k]
    <3>1. CASE k = Len(frames) + 1
      BY <1>5, <2>1, <3>1
    <3>2. CASE k # Len(frames) + 1
      <4>1. k \in 1 .. Len(frames)
        BY <1>1, <3>2
      <4> QED BY <1>5, <2>1, <2>2, <4>1
    <3> QED BY <3>1, <3>2
  <2>4. t \in [1 .. Len(frames) + 1 -> Seq(Byte)]
    BY <2>1, LenProperties
  <2>5. s = t
    BY <2>3, <2>4
  <2> QED BY <1>6, <2>5, Zenon DEF t
<1>8. Bytes(frames) = FlattenSeq(datas)
  BY <1>1, Zenon DEF Bytes
<1>9. Bytes(longer) = FlattenSeq(Append(datas, frame.data))
  BY <1>7, Zenon DEF Bytes
<1> HIDE DEF datas
<1>10. FlattenSeq(datas) \in Seq(Byte)
       /\ FlattenSeq(Append(datas, frame.data)) = FlattenSeq(datas) \o frame.data
  BY <1>3, <1>4, FlattenAppend
<1>11. Bytes(<<>>) = <<>>
  <2>1. [k \in DOMAIN <<>> |-> <<>>[k].data] = <<>>
    OBVIOUS
  <2>2. FlattenSeq(<<>>) = <<>>
    BY DEF FlattenSeq
  <2> QED BY <2>1, <2>2 DEF Bytes
<1> QED BY <1>8, <1>9, <1>10, <1>11 DEF longer

LEMMA PayloadsAppend ==
    ASSUME NEW chunks \in Seq(Chunk), NEW chunk \in Chunk
    PROVE  /\ Payloads(<<>>) = <<>> /\ Payloads(chunks) \in Seq(Byte)
           /\ Payloads(Append(chunks, chunk)) = Payloads(chunks) \o chunk.payload
<1> DEFINE datas == [k \in 1 .. Len(chunks) |-> chunks[k].payload]
           longer == Append(chunks, chunk)
<1>1. Len(chunks) \in Nat /\ DOMAIN chunks = 1 .. Len(chunks)
      /\ \A k \in 1 .. Len(chunks) : chunks[k] \in Chunk
  BY LenProperties, ElementOfSeq
<1>2. \A k \in 1 .. Len(chunks) : chunks[k].payload \in Seq(Byte)
  BY <1>1 DEF Chunk
<1>3. datas \in Seq(Seq(Byte)) /\ Len(datas) = Len(chunks)
  BY <1>1, <1>2
<1>4. chunk.payload \in Seq(Byte)
  BY DEF Chunk
<1>5. /\ longer \in Seq(Chunk) /\ Len(longer) = Len(chunks) + 1
      /\ \A k \in 1 .. Len(chunks) : longer[k] = chunks[k]
      /\ longer[Len(chunks) + 1] = chunk
  BY AppendProperties
<1>6. DOMAIN longer = 1 .. Len(chunks) + 1
  BY <1>5, LenProperties
<1> HIDE DEF longer
<1>7. [k \in DOMAIN longer |-> longer[k].payload] = Append(datas, chunk.payload)
  <2> DEFINE s == [k \in 1 .. Len(chunks) + 1 |-> longer[k].payload]
             t == Append(datas, chunk.payload)
  <2>1. /\ t \in Seq(Seq(Byte)) /\ Len(t) = Len(chunks) + 1
        /\ \A k \in 1 .. Len(chunks) : t[k] = datas[k]
        /\ t[Len(chunks) + 1] = chunk.payload
    BY <1>3, <1>4, AppendProperties
  <2>2. \A k \in 1 .. Len(chunks) : datas[k] = chunks[k].payload
    OBVIOUS
  <2> HIDE DEF t
  <2>3. ASSUME NEW k \in 1 .. Len(chunks) + 1 PROVE longer[k].payload = t[k]
    <3>1. CASE k = Len(chunks) + 1
      BY <1>5, <2>1, <3>1
    <3>2. CASE k # Len(chunks) + 1
      <4>1. k \in 1 .. Len(chunks)
        BY <1>1, <3>2
      <4> QED BY <1>5, <2>1, <2>2, <4>1
    <3> QED BY <3>1, <3>2
  <2>4. t \in [1 .. Len(chunks) + 1 -> Seq(Byte)]
    BY <2>1, LenProperties
  <2>5. s = t
    BY <2>3, <2>4
  <2> QED BY <1>6, <2>5, Zenon DEF t
<1>8. Payloads(chunks) = FlattenSeq(datas)
  BY <1>1, Zenon DEF Payloads
<1>9. Payloads(longer) = FlattenSeq(Append(datas, chunk.payload))
  BY <1>7, Zenon DEF Payloads
<1> HIDE DEF datas
<1>10. FlattenSeq(datas) \in Seq(Byte)
       /\ FlattenSeq(Append(datas, chunk.payload)) = FlattenSeq(datas) \o chunk.payload
  BY <1>3, <1>4, FlattenAppend
<1>11. Payloads(<<>>) = <<>>
  <2>1. [k \in DOMAIN <<>> |-> <<>>[k].payload] = <<>>
    OBVIOUS
  <2>2. FlattenSeq(<<>>) = <<>>
    BY DEF FlattenSeq
  <2> QED BY <2>1, <2>2 DEF Payloads
<1> QED BY <1>8, <1>9, <1>10, <1>11 DEF longer

LEMMA FlushKeepsBytes ==
    ASSUME NEW frames \in Seq(Frame), NEW frame \in Frame
    PROVE  Bytes(Flush(frames, frame)) \o Nothing.data = Bytes(frames) \o frame.data
<1>1. Bytes(frames) \in Seq(Byte) /\ frame.data \in Seq(Byte)
  BY BytesAppend DEF Frame
<1>2. Bytes(frames) \o frame.data \in Seq(Byte)
  BY <1>1, ConcatProperties
<1>3. CASE frame.data = <<>>
  <2>1. Flush(frames, frame) = frames
    BY <1>3 DEF Flush
  <2> QED BY <1>3, <2>1, NothingIs
<1>4. CASE frame.data # <<>>
  <2>1. Bytes(Flush(frames, frame)) = Bytes(frames) \o frame.data
    BY <1>4, BytesAppend DEF Flush
  <2>2. (Bytes(frames) \o frame.data) \o <<>> = Bytes(frames) \o frame.data
    BY <1>2, ConcatEmptySeq
  <2> QED BY <2>1, <2>2, NothingIs
<1> QED BY <1>3, <1>4

\* What is captured on the way out is what is sent, refused chunks and files that are
\* not well-formed included.
BytesKept == Bytes(captured) \o building.data = Payloads(sent)

LEMMA BytesStay ==
    ASSUME MediaType, BytesKept, [MediaNext]_mediaVars
    PROVE  BytesKept'
<1>0. /\ building \in Frame /\ building.data \in Seq(Byte) /\ captured \in Seq(Frame)
      /\ sent \in Seq(Chunk) /\ Bytes(captured) \in Seq(Byte)
  BY BytesAppend DEF MediaType, Frame
<1>1. CASE SendChunk
  <2> DEFINE c == Head(pending)
  <2>1. /\ c \in Chunk /\ c.payload \in Seq(Byte) /\ sent' = Append(sent, c)
        /\ FramesThen \in Seq(Frame) /\ FrameThen \in Frame
        /\ captured' = IF Tail(pending) = <<>> THEN Flush(FramesThen, FrameThen) ELSE FramesThen
        /\ building' = IF Tail(pending) = <<>> THEN Nothing ELSE FrameThen
    BY <1>1, SendEffect
  <2>2. FrameThen.data = (IF Complete(building, c) THEN <<>> ELSE building.data) \o c.payload
    BY DEF FrameThen
  <2> HIDE DEF c
  <2>3. Bytes(captured') \o building'.data = Bytes(FramesThen) \o FrameThen.data
    <3>1. CASE Tail(pending) = <<>>
      <4>1. captured' = Flush(FramesThen, FrameThen) /\ building' = Nothing
        BY <2>1, <3>1
      <4>2. Bytes(Flush(FramesThen, FrameThen)) \o Nothing.data = Bytes(FramesThen) \o FrameThen.data
        BY <2>1, FlushKeepsBytes
      <4> QED BY <4>1, <4>2, Zenon
    <3>2. CASE Tail(pending) # <<>>
      BY <2>1, <3>2
    <3> QED BY <3>1, <3>2
  <2>4. Bytes(FramesThen) \o FrameThen.data = (Bytes(captured) \o building.data) \o c.payload
    <3>1. CASE Complete(building, c)
      <4>1. FramesThen = Append(captured, building) /\ FrameThen.data = <<>> \o c.payload
        BY <2>2, <3>1, Zenon DEF FramesThen, c
      <4>2. <<>> \o c.payload = c.payload
        BY <2>1, ConcatEmptySeq
      <4>3. Bytes(Append(captured, building)) = Bytes(captured) \o building.data
        BY <1>0, BytesAppend
      <4> QED BY <4>1, <4>2, <4>3, Zenon
    <3>2. CASE ~Complete(building, c)
      <4>1. FramesThen = captured /\ FrameThen.data = building.data \o c.payload
        BY <2>2, <3>2, Zenon DEF FramesThen, c
      <4>2. (Bytes(captured) \o building.data) \o c.payload
              = Bytes(captured) \o (building.data \o c.payload)
        <5>1. Associates(Byte)
          BY ConcatAssociates
        <5> QED BY <1>0, <2>1, <5>1, Zenon DEF Associates
      <4> QED BY <4>1, <4>2, Zenon
    <3> QED BY <3>1, <3>2
  <2>5. Payloads(Append(sent, c)) = Payloads(sent) \o c.payload
    BY <1>0, <2>1, PayloadsAppend
  <2>6. Bytes(captured') \o building'.data = Payloads(sent')
    BY <2>1, <2>3, <2>4, <2>5, Zenon DEF BytesKept
  <2> QED BY <2>6, Zenon DEF BytesKept, Bytes, Payloads
<1>2. CASE RefuseChunk
  <2>1. /\ sent' = sent
        /\ captured' = IF Tail(pending) = <<>> THEN Flush(captured, building) ELSE captured
        /\ building' = IF Tail(pending) = <<>> THEN Nothing ELSE building
    BY <1>2, Zenon DEF RefuseChunk, FlushFinal
  <2>2. Bytes(captured') \o building'.data = Bytes(captured) \o building.data
    <3>1. CASE Tail(pending) = <<>>
      <4>1. captured' = Flush(captured, building) /\ building' = Nothing
        BY <2>1, <3>1
      <4>2. Bytes(Flush(captured, building)) \o Nothing.data = Bytes(captured) \o building.data
        BY <1>0, FlushKeepsBytes
      <4> QED BY <4>1, <4>2, Zenon
    <3>2. CASE Tail(pending) # <<>>
      BY <2>1, <3>2
    <3> QED BY <3>1, <3>2
  <2>3. Bytes(captured') \o building'.data = Payloads(sent')
    BY <2>1, <2>2, Zenon DEF BytesKept
  <2> QED BY <2>3, Zenon DEF BytesKept, Bytes, Payloads
<1>3. ASSUME NEW i \in DOMAIN sent, Receive(i) PROVE BytesKept'
  BY <1>3, Zenon DEF Receive, senderVars, BytesKept, Bytes, Payloads
<1>4. CASE UNCHANGED mediaVars
  BY <1>4, Zenon DEF mediaVars, senderVars, BytesKept, Bytes, Payloads
<1> QED BY <1>1, <1>2, <1>3, <1>4 DEF MediaNext

\* What is captured on arrival is what has arrived, over any network.
BytesArrived == Bytes(arrived) \o gathering.data = Payloads(came)

LEMMA BytesArrivedStay ==
    ASSUME MediaType, BytesArrived, [MediaNext]_mediaVars
    PROVE  BytesArrived'
<1>0. /\ gathering \in Frame /\ gathering.data \in Seq(Byte) /\ arrived \in Seq(Frame)
      /\ came \in Seq(Chunk) /\ Bytes(arrived) \in Seq(Byte)
  BY BytesAppend DEF MediaType, Frame
<1>1. ASSUME NEW i \in DOMAIN sent, Receive(i) PROVE BytesArrived'
  <2> DEFINE c == sent[i]
  <2>1. /\ c \in Chunk /\ c.payload \in Seq(Byte) /\ arrived' = ArrivedThen(c)
        /\ gathering'.data = (IF Complete(gathering, c) THEN <<>> ELSE gathering.data) \o c.payload
    BY <1>1, ReceiveEffect, Zenon
  <2>2. came' = Append(came, c)
    BY <1>1 DEF Receive, Arrives
  <2> HIDE DEF c
  <2>3. Bytes(arrived') \o gathering'.data = (Bytes(arrived) \o gathering.data) \o c.payload
    <3>1. CASE Complete(gathering, c)
      <4>1. arrived' = Append(arrived, gathering) /\ gathering'.data = <<>> \o c.payload
        BY <2>1, <3>1, Zenon DEF ArrivedThen
      <4>2. <<>> \o c.payload = c.payload
        BY <2>1, ConcatEmptySeq
      <4>3. Bytes(Append(arrived, gathering)) = Bytes(arrived) \o gathering.data
        BY <1>0, BytesAppend
      <4> QED BY <4>1, <4>2, <4>3, Zenon
    <3>2. CASE ~Complete(gathering, c)
      <4>1. arrived' = arrived /\ gathering'.data = gathering.data \o c.payload
        BY <2>1, <3>2, Zenon DEF ArrivedThen
      <4>2. (Bytes(arrived) \o gathering.data) \o c.payload
              = Bytes(arrived) \o (gathering.data \o c.payload)
        <5>1. Associates(Byte)
          BY ConcatAssociates
        <5> QED BY <1>0, <2>1, <5>1, Zenon DEF Associates
      <4> QED BY <4>1, <4>2, Zenon
    <3> QED BY <3>1, <3>2
  <2>4. Payloads(Append(came, c)) = Payloads(came) \o c.payload
    BY <1>0, <2>1, PayloadsAppend
  <2>5. Bytes(arrived') \o gathering'.data = Payloads(came')
    BY <2>2, <2>3, <2>4, Zenon DEF BytesArrived
  <2> QED BY <2>5, Zenon DEF BytesArrived, Bytes, Payloads
<1>2. CASE SendChunk \/ RefuseChunk \/ UNCHANGED mediaVars
  <2>1. UNCHANGED <<arrived, gathering, came>>
    BY <1>2 DEF SendChunk, RefuseChunk, mediaVars, arrivalVars
  <2> QED BY <2>1, Zenon DEF BytesArrived, Bytes, Payloads
<1> QED BY <1>1, <1>2 DEF MediaNext


-----------------------------------------------------------------------------
(* One frame per unit *)

\* The chunk has the time and the keyframe flag of the k-th frame, and if it is the first
\* it has the header, too.
OfFrame(d, chunk, k) ==
    /\ k \in 1 .. Len(Scan(d)) /\ chunk \in Chunk
    /\ chunk.pts = Frames(d)[k].pts
    /\ chunk.type = "Keyframe" <=> Frames(d)[k].key
    /\ starts_with_annex_b(chunk.payload) =>
         classify_nal_header(chunk.payload[StartCode(chunk.payload, 0) + 1]) = chunk.type

LEMMA ChunkIsOfFrame ==
    ASSUME NEW d \in Seq(Byte), WellFormed(d), NEW count, NEW k, NEW p, At(d, count, k, p)
    PROVE  /\ OfFrame(d, ChunkQueue(d)[count], k)
           /\ starts_with_annex_b(ChunkQueue(d)[count].payload) <=> p = 1
           /\ ChunkQueue(d)[count] = Chunks(d)[k][p]
<1>1. ChunkQueue(d)[count] = Chunks(d)[k][p] /\ k \in 1 .. Len(Scan(d))
  <2>1. InPlace(d, count, k, p)
    BY NextChunk
  <2> QED BY <2>1 DEF InPlace, At
<1> DEFINE c == Chunks(d)[k][p]
<1>2. /\ c \in Chunk /\ c.pts = Frames(d)[k].pts
      /\ starts_with_annex_b(c.payload) <=> p = 1
      /\ c.type = "Keyframe" <=> Frames(d)[k].key
      /\ p = 1 => classify_nal_header(c.payload[StartCode(c.payload, 0) + 1]) = c.type
  BY ChunkOfFrame
<1> HIDE DEF c
<1>3. OfFrame(d, c, k)
  BY <1>1, <1>2 DEF OfFrame
<1> QED BY <1>1, <1>2, <1>3, Zenon DEF c

\* The first chunk begins the first frame.
LEMMA FirstOne ==
    ASSUME NEW d \in Seq(Byte), WellFormed(d), 0 < Len(ChunkQueue(d))
    PROVE  /\ At(d, 1, 1, 1) /\ OfFrame(d, ChunkQueue(d)[1], 1)
           /\ starts_with_annex_b(ChunkQueue(d)[1].payload)
           /\ Sofar(d, 1, 1) = ChunkQueue(d)[1].payload
<1>1. At(d, 1, 1, 1)
  <2>1. Len(ChunkQueue(d)) # 0
    OBVIOUS
  <2> QED BY <2>1, NextChunk
<1>2. /\ OfFrame(d, ChunkQueue(d)[1], 1) /\ starts_with_annex_b(ChunkQueue(d)[1].payload)
      /\ ChunkQueue(d)[1] = Chunks(d)[1][1]
  BY <1>1, ChunkIsOfFrame
<1>3. Sofar(d, 1, 1) = Chunks(d)[1][1].payload
  <2>1. Grown(d, 1, 1)
    BY <1>1, SofarGrows
  <2> QED BY <2>1 DEF Grown
<1> QED BY <1>1, <1>2, <1>3, Zenon

\* Each later one goes on with a frame that is not complete, or begins the next one.
GoesOn(d, count, k, p) ==
    /\ At(d, count + 1, k, p + 1) /\ OfFrame(d, ChunkQueue(d)[count + 1], k)
    /\ ~starts_with_annex_b(ChunkQueue(d)[count + 1].payload)
    /\ Sofar(d, k, p + 1) = Sofar(d, k, p) \o ChunkQueue(d)[count + 1].payload

Begins(d, count, k, p) ==
    /\ At(d, count + 1, k + 1, 1) /\ OfFrame(d, ChunkQueue(d)[count + 1], k + 1)
    /\ starts_with_annex_b(ChunkQueue(d)[count + 1].payload)
    /\ Sofar(d, k, p) = Frames(d)[k].data
    /\ Sofar(d, k + 1, 1) = ChunkQueue(d)[count + 1].payload

LEMMA NextOne ==
    ASSUME NEW d \in Seq(Byte), WellFormed(d), NEW count, NEW k, NEW p, At(d, count, k, p),
           count < Len(ChunkQueue(d))
    PROVE  GoesOn(d, count, k, p) \/ Begins(d, count, k, p)
<1>1. /\ k \in 1 .. Len(Scan(d)) /\ p \in 1 .. Len(Chunks(d)[k])
      /\ Len(Scan(d)) \in Nat /\ Len(Chunks(d)[k]) \in Nat
  BY ChunksIs DEF At
<1>2. /\ count \in Nat /\ Len(ChunkQueue(d)) \in Nat
      /\ p < Len(Chunks(d)[k]) => At(d, count + 1, k, p + 1)
      /\ p = Len(Chunks(d)[k]) /\ k < Len(Scan(d)) => At(d, count + 1, k + 1, 1)
      /\ p = Len(Chunks(d)[k]) /\ k = Len(Scan(d)) => count = Len(ChunkQueue(d))
  <2>1. InPlace(d, count, k, p) /\ Len(ChunkQueue(d)) \in Nat
    BY NextChunk
  <2> QED BY <2>1 DEF InPlace
<1>3. CASE p < Len(Chunks(d)[k])
  <2>1. At(d, count + 1, k, p + 1)
    BY <1>2, <1>3
  <2>2. p + 1 # 1 /\ p + 1 > 1 /\ (p + 1) - 1 = p
    BY <1>1
  <2>3. /\ OfFrame(d, ChunkQueue(d)[count + 1], k)
        /\ starts_with_annex_b(ChunkQueue(d)[count + 1].payload) <=> p + 1 = 1
        /\ ChunkQueue(d)[count + 1] = Chunks(d)[k][p + 1]
    BY <2>1, ChunkIsOfFrame
  <2>4. p + 1 > 1 => Sofar(d, k, p + 1) = Sofar(d, k, (p + 1) - 1) \o Chunks(d)[k][p + 1].payload
    <3>1. Grown(d, k, p + 1)
      BY <2>1, SofarGrows
    <3> QED BY <3>1, Zenon DEF Grown
  <2>5. Sofar(d, k, p + 1) = Sofar(d, k, p) \o ChunkQueue(d)[count + 1].payload
    BY <2>2, <2>3, <2>4, Zenon
  <2>6. GoesOn(d, count, k, p)
    BY <2>1, <2>2, <2>3, <2>5, Zenon DEF GoesOn
  <2> QED BY <2>6
<1>4. CASE p = Len(Chunks(d)[k])
  <2>1. At(d, count + 1, k + 1, 1)
    BY <1>1, <1>2, <1>4
  <2>2. /\ OfFrame(d, ChunkQueue(d)[count + 1], k + 1)
        /\ starts_with_annex_b(ChunkQueue(d)[count + 1].payload)
        /\ ChunkQueue(d)[count + 1] = Chunks(d)[k + 1][1]
    BY <2>1, ChunkIsOfFrame
  <2>3. Sofar(d, k + 1, 1) = Chunks(d)[k + 1][1].payload
    <3>1. Grown(d, k + 1, 1)
      BY <2>1, SofarGrows
    <3> QED BY <3>1, Zenon DEF Grown
  <2>4. Sofar(d, k, p) = Frames(d)[k].data
    <3>1. Grown(d, k, p)
      BY SofarGrows
    <3> QED BY <1>4, <3>1, Zenon DEF Grown
  <2>5. Begins(d, count, k, p)
    BY <2>1, <2>2, <2>3, <2>4, Zenon DEF Begins
  <2> QED BY <2>5
<1> QED BY <1>1, <1>3, <1>4

\* After the last chunk the last frame is complete.
LEMMA LastOne ==
    ASSUME NEW d \in Seq(Byte), WellFormed(d), NEW k, NEW p,
           At(d, Len(ChunkQueue(d)), k, p)
    PROVE  k = Len(Scan(d)) /\ Sofar(d, k, p) = Frames(d)[k].data
<1> DEFINE count == Len(ChunkQueue(d))
<1>1. /\ k \in 1 .. Len(Scan(d)) /\ p \in 1 .. Len(Chunks(d)[k])
      /\ Len(Scan(d)) \in Nat /\ Len(Chunks(d)[k]) \in Nat
  BY ChunksIs DEF At
<1>2. /\ count \in Nat
      /\ p < Len(Chunks(d)[k]) => At(d, count + 1, k, p + 1)
      /\ p = Len(Chunks(d)[k]) /\ k < Len(Scan(d)) => At(d, count + 1, k + 1, 1)
  <2>1. InPlace(d, count, k, p)
    BY NextChunk
  <2> QED BY <2>1 DEF InPlace
<1>3. \A j, q : ~At(d, count + 1, j, q)
  <2> SUFFICES ASSUME NEW j, NEW q, At(d, count + 1, j, q) PROVE FALSE
    OBVIOUS
  <2>1. InPlace(d, count + 1, j, q)
    BY NextChunk
  <2> QED BY <1>2, <2>1 DEF InPlace
<1>4. p = Len(Chunks(d)[k]) /\ k = Len(Scan(d))
  BY <1>1, <1>2, <1>3
<1>5. Sofar(d, k, p) = Frames(d)[k].data
  <2>1. Grown(d, k, p)
    BY SofarGrows
  <2> QED BY <1>4, <2>1, Zenon DEF Grown
<1> QED BY <1>4, <1>5

\* An element goes from the front of one sequence to the end of the other.
LEMMA MoveOne ==
    ASSUME NEW S, NEW s \in Seq(S), NEW t \in Seq(S), t # <<>>
    PROVE  /\ Append(s, Head(t)) \o Tail(t) = s \o t
           /\ (s \o t)[Len(s) + 1] = Head(t)
           /\ Len(s) < Len(s \o t)
           /\ Tail(t) = <<>> <=> Len(s) + 1 = Len(s \o t)
<1>1. /\ Len(s) \in Nat /\ Len(t) \in Nat /\ Len(t) # 0 /\ Tail(t) \in Seq(S) /\ Head(t) \in S
      /\ Len(Tail(t)) = Len(t) - 1
  BY LenProperties, HeadTailProperties, EmptySeq
<1>2. Append(s, Head(t)) = s \o <<Head(t)>> /\ <<Head(t)>> \in Seq(S)
  BY <1>1, AppendIsConcat
<1>3. <<Head(t)>> \o Tail(t) = t
  <2>1. 1 \in 1 .. Len(t) /\ Len(t) \in 1 .. Len(t)
    BY <1>1
  <2>2. SubSeq(t, 1, Len(t)) = <<t[1]>> \o SubSeq(t, 2, Len(t))
    <3>1. 1 + 1 = 2
      OBVIOUS
    <3>2. SubSeq(t, 1, Len(t)) = <<t[1]>> \o SubSeq(t, 1 + 1, Len(t))
      BY <2>1, SubSeqRecursiveFirst
    <3> QED BY <3>1, <3>2
  <2>3. SubSeq(t, 1, Len(t)) = t
    BY SubSeqFull
  <2>4. SubSeq(t, 2, Len(t)) = Tail(t)
    BY TailIsSubSeq
  <2>5. Head(t) = t[1]
    OBVIOUS
  <2> QED BY <2>2, <2>3, <2>4, <2>5, Zenon
<1>4. (s \o <<Head(t)>>) \o Tail(t) = s \o (<<Head(t)>> \o Tail(t))
  <2>1. Associates(S)
    BY ConcatAssociates
  <2> QED BY <1>1, <1>2, <2>1, Zenon DEF Associates
<1>5. Append(s, Head(t)) \o Tail(t) = s \o t
  BY <1>2, <1>3, <1>4, Zenon
<1>6. /\ Len(s \o t) = Len(s) + Len(t)
      /\ \A i \in 1 .. Len(s) + Len(t) : (s \o t)[i] = IF i <= Len(s) THEN s[i] ELSE t[i - Len(s)]
  BY ConcatProperties
<1>7. (s \o t)[Len(s) + 1] = Head(t)
  <2>1. Len(s) + 1 \in 1 .. Len(s) + Len(t) /\ ~(Len(s) + 1 <= Len(s)) /\ (Len(s) + 1) - Len(s) = 1
    BY <1>1
  <2>2. (s \o t)[Len(s) + 1] = t[1]
    BY <1>6, <2>1
  <2> QED BY <2>2
<1>8. Len(s) < Len(s \o t)
  BY <1>1, <1>6
<1>9. Tail(t) = <<>> <=> Len(s) + 1 = Len(s \o t)
  <2>1. Tail(t) = <<>> <=> Len(Tail(t)) = 0
    BY <1>1, EmptySeq
  <2> QED BY <1>1, <1>6, <2>1
<1> QED BY <1>5, <1>7, <1>8, <1>9

\* The first frames and the next one.
LEMMA OneMoreFrame ==
    ASSUME NEW S, NEW s \in Seq(S), NEW k \in 1 .. Len(s)
    PROVE  /\ Append(SubSeq(s, 1, k - 1), s[k]) = SubSeq(s, 1, k)
           /\ SubSeq(s, 1, k - 1) \in Seq(S) /\ Len(SubSeq(s, 1, k - 1)) = k - 1
<1>1. Len(s) \in Nat /\ s[k] \in S
  BY LenProperties, ElementOfSeq
<1>2. /\ SubSeq(s, 1, k - 1) \in Seq(S)
      /\ Len(SubSeq(s, 1, k - 1)) = IF 1 <= k - 1 THEN (k - 1) - 1 + 1 ELSE 0
  <2>1. 1 \in Int /\ k - 1 \in Int /\ \A i \in 1 .. k - 1 : s[i] \in S
    BY <1>1, ElementOfSeq
  <2> QED BY <2>1, SubSeqProperties
<1>3. SubSeq(s, 1, k) = SubSeq(s, 1, k - 1) \o <<s[k]>>
  <2>1. 1 \in 1 .. Len(s) /\ k \in 1 .. Len(s)
    BY <1>1
  <2> QED BY <2>1, SubSeqRecursiveSecond
<1>4. Append(SubSeq(s, 1, k - 1), s[k]) = SubSeq(s, 1, k - 1) \o <<s[k]>>
  BY <1>1, <1>2, AppendIsConcat
<1>5. Len(SubSeq(s, 1, k - 1)) = k - 1
  BY <1>1, <1>2
<1> QED BY <1>2, <1>3, <1>4, <1>5

\* A frame is its bytes, its time and its flag.
LEMMA SameFrame ==
    ASSUME NEW f \in Frame, NEW g \in Frame, f.data = g.data, f.pts = g.pts, f.key <=> g.key
    PROVE  f = g
<1>1. f.key = g.key
  BY DEF Frame
<1>2. f = [data |-> f.data, pts |-> f.pts, key |-> f.key]
      /\ g = [data |-> g.data, pts |-> g.pts, key |-> g.key]
  BY DEF Frame
<1> QED BY <1>1, <1>2


\* After count chunks the frames in front of the k-th are complete, and p chunks of the
\* k-th are in.
Underway(d, count, frames, frame, k, p) ==
    /\ At(d, count, k, p)
    /\ frames = SubSeq(Frames(d), 1, k - 1)
    /\ frame.data = Sofar(d, k, p)
    /\ frame.pts = Frames(d)[k].pts
    /\ frame.key <=> Frames(d)[k].key

\* The chunks are sent in the order of the queue, and what is captured meanwhile is what
\* the frames there should be say.
SendsInOrder == sent \o pending = ChunkQueue(annex_b)

Sending ==
    /\ pending = <<>> => captured = Frames(annex_b)
    /\ pending # <<>> /\ sent = <<>> => captured = <<>> /\ building.data = <<>>
    /\ pending # <<>> /\ sent # <<>> =>
         \E k, p : Underway(annex_b, Len(sent), captured, building, k, p)

SendInv == ~refused => SendsInOrder /\ (WellFormed(annex_b) => Sending)

\* The next chunk leaves the frames underway.
LEMMA SendOne ==
    ASSUME MediaType, SendInv, ~refused, WellFormed(annex_b), SendChunk
    PROVE  \E k, p : Underway(annex_b, Len(sent) + 1, FramesThen, FrameThen, k, p)
<1> DEFINE d == annex_b
           c == Head(pending)
           F == Frames(d)
<1>1. /\ d \in Seq(Byte) /\ building \in Frame /\ captured \in Seq(Frame)
      /\ sent \in Seq(Chunk) /\ pending \in Seq(Chunk) /\ Len(sent) \in Nat
  BY LenProperties DEF MediaType
<1>2. pending # <<>> /\ c \in Chunk /\ c.payload \in Seq(Byte)
  BY SendEffect
<1>3. sent \o pending = ChunkQueue(d) /\ Sending
  BY DEF SendInv, SendsInOrder
<1>4. c = ChunkQueue(d)[Len(sent) + 1] /\ Len(sent) < Len(ChunkQueue(d))
  <2>1. (sent \o pending)[Len(sent) + 1] = Head(pending) /\ Len(sent) < Len(sent \o pending)
    BY <1>1, <1>2, MoveOne
  <2> QED BY <1>3, <2>1
<1>5. Complete(building, c) <=> starts_with_annex_b(c.payload) /\ building.data # <<>>
  BY DEF Complete
<1>6. /\ FramesThen = IF Complete(building, c) THEN Append(captured, building) ELSE captured
      /\ FrameThen.data = (IF Complete(building, c) THEN <<>> ELSE building.data) \o c.payload
      /\ FrameThen.pts = c.pts
      /\ starts_with_annex_b(c.payload) => (FrameThen.key <=> c.type = "Keyframe")
      /\ ~starts_with_annex_b(c.payload) => FrameThen.key = building.key
  BY DEF FramesThen, FrameThen
<1>7. <<>> \o c.payload = c.payload
  BY <1>2, ConcatEmptySeq
<1>8. F \in Seq(Frame) /\ Len(F) = Len(Scan(d)) /\ \A k \in 1 .. Len(Scan(d)) : F[k] \in Frame
  BY <1>1, FramesIs
<1> HIDE DEF d, c, F
<1>9. WellFormed(d)
  BY DEF d
<1>10. CASE sent = <<>>
  <2>1. captured = <<>> /\ building.data = <<>>
    BY <1>2, <1>3, <1>10 DEF Sending
  <2>2. Len(sent) = 0 /\ Len(sent) + 1 = 1 /\ 0 < Len(ChunkQueue(d))
    BY <1>4, <1>10, EmptySeq
  <2>3. /\ At(d, 1, 1, 1) /\ OfFrame(d, ChunkQueue(d)[1], 1)
        /\ starts_with_annex_b(ChunkQueue(d)[1].payload)
        /\ Sofar(d, 1, 1) = ChunkQueue(d)[1].payload
    BY <1>1, <1>9, <2>2, FirstOne
  <2>4. c = ChunkQueue(d)[1]
    BY <1>4, <2>2
  <2>5. ~Complete(building, c)
    BY <1>5, <2>1
  <2>6. FramesThen = <<>> /\ FrameThen.data = Sofar(d, 1, 1)
    BY <1>6, <1>7, <2>1, <2>3, <2>4, <2>5, Zenon
  <2>7. FrameThen.pts = F[1].pts /\ (FrameThen.key <=> F[1].key)
    BY <1>6, <2>3, <2>4 DEF OfFrame, F
  <2>8. SubSeq(F, 1, 1 - 1) = <<>>
    BY SubSeqEmpty
  <2>9. Underway(d, Len(sent) + 1, FramesThen, FrameThen, 1, 1)
    <3>1. At(d, Len(sent) + 1, 1, 1)
      BY <2>2, <2>3
    <3> QED BY <2>6, <2>7, <2>8, <3>1, Zenon DEF Underway, F
  <2> QED BY <2>9, Zenon DEF d
<1>11. CASE sent # <<>>
  <2>1. PICK k, p : Underway(d, Len(sent), captured, building, k, p)
    BY <1>2, <1>3, <1>11, Zenon DEF Sending, d
  <2>2. /\ At(d, Len(sent), k, p) /\ captured = SubSeq(F, 1, k - 1)
        /\ building.data = Sofar(d, k, p) /\ building.pts = F[k].pts
        /\ building.key <=> F[k].key
    BY <2>1 DEF Underway, F
  <2>3. k \in 1 .. Len(F) /\ k \in 1 .. Len(Scan(d)) /\ Len(F) \in Nat
    BY <1>8, <2>2, LenProperties DEF At
  <2>4. Sofar(d, k, p) # <<>>
    <3>1. Grown(d, k, p)
      BY <1>1, <1>9, <2>2, SofarGrows
    <3> QED BY <3>1 DEF Grown
  <2>5. GoesOn(d, Len(sent), k, p) \/ Begins(d, Len(sent), k, p)
    BY <1>1, <1>4, <1>9, <2>2, NextOne
  <2>6. CASE GoesOn(d, Len(sent), k, p)
    <3>1. /\ At(d, Len(sent) + 1, k, p + 1) /\ OfFrame(d, c, k)
          /\ ~starts_with_annex_b(c.payload)
          /\ Sofar(d, k, p + 1) = Sofar(d, k, p) \o c.payload
      BY <1>4, <2>6, Zenon DEF GoesOn
    <3>2. FramesThen = captured /\ FrameThen.data = Sofar(d, k, p + 1)
      BY <1>5, <1>6, <2>2, <3>1, Zenon
    <3>3. FrameThen.pts = F[k].pts /\ (FrameThen.key <=> F[k].key)
      BY <1>6, <2>2, <3>1 DEF OfFrame, F
    <3>4. Underway(d, Len(sent) + 1, FramesThen, FrameThen, k, p + 1)
      BY <2>2, <3>1, <3>2, <3>3, Zenon DEF Underway, F
    <3> QED BY <3>4, Zenon DEF d
  <2>7. CASE Begins(d, Len(sent), k, p)
    <3>1. /\ At(d, Len(sent) + 1, k + 1, 1) /\ OfFrame(d, c, k + 1)
          /\ starts_with_annex_b(c.payload)
          /\ Sofar(d, k, p) = F[k].data
          /\ Sofar(d, k + 1, 1) = c.payload
      BY <1>4, <2>7, Zenon DEF Begins, F
    <3>2. Complete(building, c)
      BY <1>5, <2>2, <2>4, <3>1
    <3>3. building = F[k]
      BY <1>1, <1>8, <2>2, <2>3, <3>1, SameFrame
    <3>4. Append(SubSeq(F, 1, k - 1), F[k]) = SubSeq(F, 1, k) /\ (k + 1) - 1 = k
      BY <1>8, <2>3, OneMoreFrame
    <3>5. FramesThen = SubSeq(F, 1, (k + 1) - 1) /\ FrameThen.data = Sofar(d, k + 1, 1)
      BY <1>6, <1>7, <2>2, <3>1, <3>2, <3>3, <3>4, Zenon
    <3>6. FrameThen.pts = F[k + 1].pts /\ (FrameThen.key <=> F[k + 1].key)
      BY <1>6, <3>1 DEF OfFrame, F
    <3>7. Underway(d, Len(sent) + 1, FramesThen, FrameThen, k + 1, 1)
      BY <3>1, <3>5, <3>6, Zenon DEF Underway, F
    <3> QED BY <3>7, Zenon DEF d
  <2> QED BY <2>5, <2>6, <2>7
<1> QED BY <1>10, <1>11

\* Once all chunks are in, flushing what is being put together completes the frames.
LEMMA FlushCompletes ==
    ASSUME NEW d \in Seq(Byte), WellFormed(d), NEW frames \in Seq(Frame), NEW frame \in Frame,
           NEW k, NEW p, Underway(d, Len(ChunkQueue(d)), frames, frame, k, p)
    PROVE  Flush(frames, frame) = Frames(d)
<1> DEFINE F == Frames(d)
<1>1. /\ At(d, Len(ChunkQueue(d)), k, p) /\ frames = SubSeq(F, 1, k - 1)
      /\ frame.data = Sofar(d, k, p) /\ frame.pts = F[k].pts /\ (frame.key <=> F[k].key)
  BY DEF Underway
<1>2. F \in Seq(Frame) /\ Len(F) = Len(Scan(d)) /\ \A j \in 1 .. Len(Scan(d)) : F[j] \in Frame
  BY FramesIs
<1>3. k = Len(Scan(d)) /\ Sofar(d, k, p) = F[k].data /\ k \in 1 .. Len(Scan(d))
  BY <1>1, LastOne DEF At
<1>4. Sofar(d, k, p) # <<>>
  <2>1. Grown(d, k, p)
    BY <1>1, SofarGrows
  <2> QED BY <2>1 DEF Grown
<1> HIDE DEF F
<1>5. frame = F[k]
  BY <1>1, <1>2, <1>3, SameFrame
<1>6. Append(SubSeq(F, 1, k - 1), F[k]) = SubSeq(F, 1, k)
  BY <1>2, <1>3, OneMoreFrame
<1>7. SubSeq(F, 1, k) = F
  BY <1>2, <1>3, SubSeqFull
<1>8. Flush(frames, frame) = Append(frames, frame)
  BY <1>1, <1>4, Zenon DEF Flush
<1> QED BY <1>1, <1>5, <1>6, <1>7, <1>8, Zenon DEF F

LEMMA SendInvStays ==
    ASSUME MediaType, SendInv, [MediaNext]_mediaVars
    PROVE  SendInv'
<1>0. /\ annex_b \in Seq(Byte) /\ sent \in Seq(Chunk) /\ pending \in Seq(Chunk) /\ Len(sent) \in Nat
  BY LenProperties DEF MediaType
<1>1. CASE SendChunk
  <2> SUFFICES ASSUME ~refused' PROVE SendsInOrder' /\ (WellFormed(annex_b)' => Sending')
    BY DEF SendInv
  <2>1. /\ pending # <<>> /\ Head(pending) \in Chunk
        /\ FramesThen \in Seq(Frame) /\ FrameThen \in Frame
        /\ captured' = IF Tail(pending) = <<>> THEN Flush(FramesThen, FrameThen) ELSE FramesThen
        /\ building' = IF Tail(pending) = <<>> THEN Nothing ELSE FrameThen
        /\ sent' = Append(sent, Head(pending)) /\ pending' = Tail(pending)
        /\ annex_b' = annex_b /\ refused' = refused
    BY <1>1, SendEffect
  <2>2. sent \o pending = ChunkQueue(annex_b)
    BY <2>1 DEF SendInv, SendsInOrder
  <2>3. /\ Append(sent, Head(pending)) \o Tail(pending) = sent \o pending
        /\ Tail(pending) = <<>> <=> Len(sent) + 1 = Len(sent \o pending)
    BY <1>0, <2>1, MoveOne
  <2>4. SendsInOrder'
    <3>1. sent' \o pending' = ChunkQueue(annex_b')
      BY <2>1, <2>2, <2>3, Zenon
    <3> QED BY <3>1, Zenon DEF SendsInOrder, ChunkQueue, Scan
  <2>5. ASSUME WellFormed(annex_b) PROVE Sending'
    <3>1. PICK k, p : Underway(annex_b, Len(sent) + 1, FramesThen, FrameThen, k, p)
      BY <1>1, <2>1, <2>5, SendOne
    <3>2. Len(sent') = Len(sent) + 1 /\ sent' # <<>>
      <4>1. Head(pending) \in Chunk /\ sent' = Append(sent, Head(pending))
        BY <2>1
      <4>2. Len(Append(sent, Head(pending))) = Len(sent) + 1 /\ Append(sent, Head(pending)) # <<>>
        BY <1>0, <4>1, AppendProperties
      <4> QED BY <4>1, <4>2, Zenon
    <3>3. CASE Tail(pending) = <<>>
      <4>1. Len(sent) + 1 = Len(ChunkQueue(annex_b))
        BY <2>2, <2>3, <3>3, Zenon
      <4>2. Flush(FramesThen, FrameThen) = Frames(annex_b)
        BY <1>0, <2>1, <2>5, <3>1, <4>1, FlushCompletes
      <4>3. captured' = Frames(annex_b') /\ pending' = <<>>
        BY <2>1, <3>3, <4>2, Zenon
      <4> QED BY <4>3, Zenon DEF Sending, Frames, Units
    <3>4. CASE Tail(pending) # <<>>
      <4>1. pending' # <<>> /\ captured' = FramesThen /\ building' = FrameThen
        BY <2>1, <3>4
      <4>2. Underway(annex_b', Len(sent'), captured', building', k, p)
        BY <2>1, <3>1, <3>2, <4>1, Zenon
      <4>3. \E j, q : Underway(annex_b', Len(sent'), captured', building', j, q)
        BY <4>2
      <4>4. (\E j, q : Underway(annex_b, Len(sent), captured, building, j, q))'
        BY <4>3, Zenon
      <4> QED BY <3>2, <4>1, <4>4, Zenon DEF Sending
    <3> QED BY <3>3, <3>4
  <2>6. WellFormed(annex_b)' => WellFormed(annex_b)
    BY <2>1, Zenon DEF WellFormed
  <2> QED BY <2>4, <2>5, <2>6
<1>2. CASE RefuseChunk
  BY <1>2 DEF RefuseChunk, SendInv
<1>3. ASSUME NEW i \in DOMAIN sent, Receive(i) PROVE SendInv'
  <2>1. UNCHANGED <<annex_b, pending, building, captured, sent, refused>>
    BY <1>3 DEF Receive, senderVars
  <2> QED BY <2>1, Zenon DEF SendInv, SendsInOrder, Sending
<1>4. CASE UNCHANGED mediaVars
  <2>1. UNCHANGED <<annex_b, pending, building, captured, sent, refused>>
    BY <1>4 DEF mediaVars, senderVars
  <2> QED BY <2>1, Zenon DEF SendInv, SendsInOrder, Sending
<1> QED BY <1>1, <1>2, <1>3, <1>4 DEF MediaNext


\* After count packets the frames in front of the k-th have arrived, all but their times,
\* and p chunks of the k-th are in.
ArrivedUpTo(d, count, frames, frame, k, p) ==
    /\ At(d, count, k, p)
    /\ Len(frames) = k - 1
    /\ \A j \in 1 .. k - 1 : frames[j].data = Frames(d)[j].data /\ (frames[j].key <=> Frames(d)[j].key)
    /\ frame.data = Sofar(d, k, p)
    /\ frame.key <=> Frames(d)[k].key

Receiving ==
    /\ received = 0 => arrived = <<>> /\ gathering.data = <<>>
    /\ received > 0 => \E k, p : ArrivedUpTo(annex_b, received, arrived, gathering, k, p)

ReceiveInv == disorder = 0 /\ ~refused /\ WellFormed(annex_b) => Receiving

\* The next packet is the next chunk of the queue.
LEMMA NextPacket ==
    ASSUME MediaType, SendInv, ~refused, received < Len(sent)
    PROVE  sent[received + 1] = ChunkQueue(annex_b)[received + 1] /\ received < Len(ChunkQueue(annex_b))
<1>1. /\ sent \in Seq(Chunk) /\ pending \in Seq(Chunk) /\ received \in Nat
      /\ Len(sent) \in Nat /\ Len(pending) \in Nat
  BY LenProperties DEF MediaType
<1>2. sent \o pending = ChunkQueue(annex_b)
  BY DEF SendInv, SendsInOrder
<1>3. /\ Len(sent \o pending) = Len(sent) + Len(pending)
      /\ \A i \in 1 .. Len(sent) + Len(pending) :
           (sent \o pending)[i] = IF i <= Len(sent) THEN sent[i] ELSE pending[i - Len(sent)]
  BY <1>1, ConcatProperties
<1>4. received + 1 \in 1 .. Len(sent) + Len(pending) /\ received + 1 <= Len(sent)
  BY <1>1
<1>5. (sent \o pending)[received + 1] = sent[received + 1]
  BY <1>3, <1>4
<1>6. received < Len(sent \o pending)
  BY <1>1, <1>3
<1> QED BY <1>2, <1>5, <1>6, Zenon

\* It leaves the frames that have arrived as they should be.
LEMMA ReceiveOne ==
    ASSUME MediaType, SendInv, ReceiveInv, disorder = 0, ~refused, WellFormed(annex_b),
           received + 1 \in DOMAIN sent, Receive(received + 1)
    PROVE  \E k, p : ArrivedUpTo(annex_b, received + 1, arrived', gathering', k, p)
<1> DEFINE d == annex_b
           c == sent[received + 1]
           F == Frames(d)
           type == IF starts_with_annex_b(c.payload)
                   THEN classify_nal_header(c.payload[StartCode(c.payload, 0) + 1])
                   ELSE c.type
<1>1. /\ d \in Seq(Byte) /\ gathering \in Frame /\ arrived \in Seq(Frame)
      /\ received \in Nat /\ Len(arrived) \in Nat
  BY LenProperties DEF MediaType
<1>2. /\ received < Len(sent) /\ c \in Chunk /\ c.payload \in Seq(Byte)
      /\ arrived' = IF Complete(gathering, c) THEN Append(arrived, gathering) ELSE arrived
      /\ gathering'.data = (IF Complete(gathering, c) THEN <<>> ELSE gathering.data) \o c.payload
      /\ gathering'.key <=> type = "Keyframe"
  <2>1. received < Len(sent)
    <3>1. received + 1 \in 1 .. Len(sent) /\ Len(sent) \in Nat
      BY LenProperties DEF MediaType
    <3> QED BY <1>1, <3>1
  <2>2. /\ c \in Chunk /\ c.payload \in Seq(Byte) /\ arrived' = ArrivedThen(c)
        /\ gathering'.data = (IF Complete(gathering, c) THEN <<>> ELSE gathering.data) \o c.payload
        /\ gathering'.key <=> type = "Keyframe"
    BY ReceiveEffect, Zenon
  <2> QED BY <2>1, <2>2, Zenon DEF ArrivedThen
<1>3. Receiving
  BY DEF ReceiveInv
<1>4. c = ChunkQueue(d)[received + 1] /\ received < Len(ChunkQueue(d))
  BY <1>2, NextPacket
<1>5. Complete(gathering, c) <=> starts_with_annex_b(c.payload) /\ gathering.data # <<>>
  BY DEF Complete
<1>6. ASSUME NEW k, OfFrame(d, c, k) PROVE gathering'.key <=> F[k].key
  <2>1. type = c.type /\ (c.type = "Keyframe" <=> F[k].key)
    BY <1>6 DEF OfFrame
  <2> QED BY <1>2, <2>1, Zenon
<1>7. <<>> \o c.payload = c.payload
  BY <1>2, ConcatEmptySeq
<1>8. Len(F) = Len(Scan(d)) /\ Len(Scan(d)) \in Nat
  BY <1>1, FramesIs, ChunksIs
<1> HIDE DEF d, c, F, type
<1>9. WellFormed(d)
  BY DEF d
<1>10. CASE received = 0
  <2>1. arrived = <<>> /\ gathering.data = <<>>
    BY <1>3, <1>10 DEF Receiving
  <2>2. received + 1 = 1 /\ 0 < Len(ChunkQueue(d))
    BY <1>4, <1>10
  <2>3. /\ At(d, 1, 1, 1) /\ OfFrame(d, ChunkQueue(d)[1], 1)
        /\ starts_with_annex_b(ChunkQueue(d)[1].payload)
        /\ Sofar(d, 1, 1) = ChunkQueue(d)[1].payload
    BY <1>1, <1>9, <2>2, FirstOne
  <2>4. c = ChunkQueue(d)[1]
    BY <1>4, <2>2
  <2>5. ~Complete(gathering, c)
    BY <1>5, <2>1
  <2>6. arrived' = <<>> /\ gathering'.data = Sofar(d, 1, 1)
    BY <1>2, <1>7, <2>1, <2>3, <2>4, <2>5, Zenon
  <2>7. gathering'.key <=> F[1].key
    BY <1>6, <2>3, <2>4
  <2>8. Len(arrived') = 1 - 1
    BY <2>6, EmptySeq
  <2>9. At(d, received + 1, 1, 1)
    BY <2>2, <2>3
  <2>10. \A j \in 1 .. 1 - 1 : /\ arrived'[j].data = Frames(d)[j].data
                               /\ arrived'[j].key <=> Frames(d)[j].key
    OBVIOUS
  <2>11. ArrivedUpTo(d, received + 1, arrived', gathering', 1, 1)
    BY <2>6, <2>7, <2>8, <2>9, <2>10, Zenon DEF ArrivedUpTo, F
  <2> QED BY <2>11, Zenon DEF d
<1>11. CASE received # 0
  <2>1. PICK k, p : ArrivedUpTo(d, received, arrived, gathering, k, p)
    <3>1. received > 0
      BY <1>1, <1>11
    <3> QED BY <1>3, <3>1, Zenon DEF Receiving, d
  <2>2. /\ At(d, received, k, p) /\ Len(arrived) = k - 1
        /\ \A j \in 1 .. k - 1 : arrived[j].data = F[j].data /\ (arrived[j].key <=> F[j].key)
        /\ gathering.data = Sofar(d, k, p)
        /\ gathering.key <=> F[k].key
    BY <2>1, Zenon DEF ArrivedUpTo, F
  <2>3. k \in 1 .. Len(Scan(d)) /\ k \in Nat
    BY <1>8, <2>2 DEF At
  <2>4. Sofar(d, k, p) # <<>>
    <3>1. Grown(d, k, p)
      BY <1>1, <1>9, <2>2, SofarGrows
    <3> QED BY <3>1 DEF Grown
  <2>5. GoesOn(d, received, k, p) \/ Begins(d, received, k, p)
    BY <1>1, <1>4, <1>9, <2>2, NextOne
  <2>6. CASE GoesOn(d, received, k, p)
    <3>1. /\ At(d, received + 1, k, p + 1) /\ OfFrame(d, c, k)
          /\ ~starts_with_annex_b(c.payload)
          /\ Sofar(d, k, p + 1) = Sofar(d, k, p) \o c.payload
      BY <1>4, <2>6, Zenon DEF GoesOn
    <3>2. arrived' = arrived /\ gathering'.data = Sofar(d, k, p + 1)
      BY <1>2, <1>5, <2>2, <3>1, Zenon
    <3>3. gathering'.key <=> F[k].key
      BY <1>6, <3>1
    <3>4. ArrivedUpTo(d, received + 1, arrived', gathering', k, p + 1)
      BY <2>2, <3>1, <3>2, <3>3, Zenon DEF ArrivedUpTo, F
    <3> QED BY <3>4, Zenon DEF d
  <2>7. CASE Begins(d, received, k, p)
    <3>1. /\ At(d, received + 1, k + 1, 1) /\ OfFrame(d, c, k + 1)
          /\ starts_with_annex_b(c.payload)
          /\ Sofar(d, k, p) = F[k].data
          /\ Sofar(d, k + 1, 1) = c.payload
      BY <1>4, <2>7, Zenon DEF Begins, F
    <3>2. Complete(gathering, c)
      BY <1>5, <2>2, <2>4, <3>1
    <3>3. arrived' = Append(arrived, gathering) /\ gathering'.data = Sofar(d, k + 1, 1)
      BY <1>2, <1>7, <3>1, <3>2, Zenon
    <3>4. Len(arrived') = (k + 1) - 1
      BY <1>1, <2>2, <2>3, <3>3, AppendProperties
    <3>5. \A j \in 1 .. (k + 1) - 1 : arrived'[j].data = F[j].data /\ (arrived'[j].key <=> F[j].key)
      <4> SUFFICES ASSUME NEW j \in 1 .. (k + 1) - 1
                   PROVE  arrived'[j].data = F[j].data /\ (arrived'[j].key <=> F[j].key)
        OBVIOUS
      <4>1. CASE j = k
        <5>1. arrived'[j] = gathering
          BY <1>1, <2>2, <2>3, <3>3, <4>1, AppendProperties
        <5> QED BY <2>2, <3>1, <4>1, <5>1, Zenon
      <4>2. CASE j # k
        <5>1. j \in 1 .. k - 1 /\ j \in 1 .. Len(arrived)
          BY <2>2, <2>3, <4>2
        <5>2. arrived'[j] = arrived[j]
          BY <1>1, <3>3, <5>1, AppendProperties
        <5> QED BY <2>2, <5>1, <5>2
      <4> QED BY <4>1, <4>2
    <3>6. gathering'.key <=> F[k + 1].key
      BY <1>6, <3>1
    <3>7. ArrivedUpTo(d, received + 1, arrived', gathering', k + 1, 1)
      BY <3>1, <3>3, <3>4, <3>5, <3>6, Zenon DEF ArrivedUpTo, F
    <3> QED BY <3>7, Zenon DEF d
  <2> QED BY <2>5, <2>6, <2>7
<1> QED BY <1>10, <1>11

LEMMA ReceiveInvStays ==
    ASSUME MediaType, SendInv, ReceiveInv, [MediaNext]_mediaVars
    PROVE  ReceiveInv'
<1>1. ASSUME UNCHANGED <<annex_b, refused, received, disorder, gathering, arrived>> PROVE ReceiveInv'
  BY <1>1, Zenon DEF ReceiveInv, Receiving, WellFormed
<1>2. CASE SendChunk
  BY <1>1, <1>2 DEF SendChunk, arrivalVars
<1>3. CASE RefuseChunk
  BY <1>3 DEF RefuseChunk, ReceiveInv
<1>4. ASSUME NEW i \in DOMAIN sent, Receive(i) PROVE ReceiveInv'
  <2>1. /\ received' = IF i > received THEN i ELSE received
        /\ disorder' = IF i = received + 1 THEN disorder ELSE disorder + 1
        /\ annex_b' = annex_b /\ refused' = refused
    BY <1>4 DEF Receive, Arrives, senderVars
  <2>2. received \in Nat /\ disorder \in Nat
    BY DEF MediaType
  <2>3. ASSUME disorder' = 0, ~refused, WellFormed(annex_b) PROVE Receiving'
    <3>1. i = received + 1 /\ disorder = 0 /\ received' = received + 1
      BY <2>1, <2>2, <2>3
    <3>2. PICK k, p : ArrivedUpTo(annex_b, received + 1, arrived', gathering', k, p)
      BY <1>4, <2>3, <3>1, ReceiveOne
    <3>3. ArrivedUpTo(annex_b', received', arrived', gathering', k, p)
      BY <2>1, <3>1, <3>2, Zenon
    <3>4. \E j, q : ArrivedUpTo(annex_b', received', arrived', gathering', j, q)
      BY <3>3
    <3>5. (\E j, q : ArrivedUpTo(annex_b, received, arrived, gathering, j, q))'
      BY <3>4, Zenon
    <3>6. received' # 0
      BY <2>2, <3>1
    <3> QED BY <3>5, <3>6, Zenon DEF Receiving
  <2>4. WellFormed(annex_b)' => WellFormed(annex_b)
    BY <2>1, Zenon DEF WellFormed
  <2> QED BY <2>1, <2>3, <2>4, Zenon DEF ReceiveInv
<1>5. CASE UNCHANGED mediaVars
  BY <1>1, <1>5 DEF mediaVars, senderVars, arrivalVars
<1> QED BY <1>2, <1>3, <1>4, <1>5 DEF MediaNext


-----------------------------------------------------------------------------
(* What is captured, on both sides *)

MediaInv == MediaType /\ BytesKept /\ BytesArrived /\ SendInv /\ ReceiveInv

LEMMA MediaInvStarts == MediaInit /\ MediaType => MediaInv
<1> SUFFICES ASSUME MediaInit, MediaType PROVE MediaInv
  OBVIOUS
<1>1. /\ sent = <<>> /\ captured = <<>> /\ arrived = <<>> /\ received = 0 /\ came = <<>>
      /\ building = Nothing /\ gathering = Nothing /\ pending = ChunkQueue(annex_b)
      /\ annex_b \in Seq(Byte) /\ pending \in Seq(Chunk)
  BY DEF MediaInit, MediaType
<1>2. building.data = <<>> /\ gathering.data = <<>>
  BY <1>1, NothingIs
<1>3. BytesKept /\ BytesArrived
  <2>1. /\ <<>> \in Seq(Frame) /\ <<>> \in Seq(Chunk) /\ Nothing \in Frame
    BY EmptySeq, NothingIs
  <2>2. Bytes(<<>>) = <<>>
    BY <2>1, BytesAppend
  <2>3. Payloads(<<>>) = <<>>
    <3>1. <<>> \in Seq(Byte) /\ 0 \in Nat /\ "PFrame" \in Types
      BY EmptySeq DEF Types
    <3>2. [payload |-> <<>>, type |-> "PFrame", pts |-> 0] \in Chunk
      BY <3>1 DEF Chunk
    <3> QED BY <2>1, <3>2, PayloadsAppend
  <2>4. <<>> \o <<>> = <<>>
    BY <2>1, ConcatEmptySeq
  <2> QED BY <1>1, <1>2, <2>2, <2>3, <2>4, Zenon DEF BytesKept, BytesArrived
<1>4. SendsInOrder
  <2>1. <<>> \o pending = pending
    BY <1>1, ConcatEmptySeq
  <2> QED BY <1>1, <2>1, Zenon DEF SendsInOrder
<1>5. ASSUME WellFormed(annex_b) PROVE Sending
  <2>1. pending = <<>> => captured = Frames(annex_b)
    <3> SUFFICES ASSUME pending = <<>> PROVE Frames(annex_b) = <<>>
      BY <1>1
    <3>1. Len(ChunkQueue(annex_b)) = 0
      BY <1>1, EmptySeq
    <3>2. Len(Scan(annex_b)) = 0
      BY <1>1, <3>1, NextChunk
    <3>3. Frames(annex_b) \in Seq(Frame) /\ Len(Frames(annex_b)) = 0
      BY <1>1, <1>5, <3>2, FramesIs
    <3> QED BY <3>3, EmptySeq
  <2> QED BY <1>1, <1>2, <2>1, Zenon DEF Sending
<1>6. Receiving
  <2>1. ~(received > 0)
    BY <1>1
  <2> QED BY <1>1, <1>2, <2>1, Zenon DEF Receiving
<1> QED BY <1>3, <1>4, <1>5, <1>6 DEF MediaInv, SendInv, ReceiveInv

LEMMA MediaInvHolds == MediaSpec => [](MediaType /\ MediaInv)
<1>1. MediaInit /\ MediaType => MediaInv
  BY MediaInvStarts
<1>2. MediaType /\ MediaType' /\ MediaInv /\ [MediaNext]_mediaVars => MediaInv'
  BY BytesStay, BytesArrivedStay, SendInvStays, ReceiveInvStays DEF MediaInv
<1>3. MediaSpec => []MediaType
  BY MediaTypeHolds
<1> QED BY <1>1, <1>2, <1>3, PTL DEF MediaSpec

\* What a session captures on the way out is what it sends, byte for byte; and as long
\* as the token bucket refuses no chunk it is one frame per NAL unit of a well-formed
\* file, in order, with its time and keyframe flag, and in the end all of them
\* (session.cpp:196-234, nal_parser.cpp:39-71, media_source.cpp:106-130).
THEOREM CapturesWhole == MediaSpec => []CapturedWhole
<1>1. MediaType /\ MediaInv => CapturedWhole
  <2> SUFFICES ASSUME MediaType, MediaInv PROVE CapturedWhole
    OBVIOUS
  <2>1. Bytes(captured) \o building.data = FlattenSeq([k \in DOMAIN sent |-> sent[k].payload])
    BY Zenon DEF MediaInv, BytesKept, Payloads
  <2>2. ASSUME ~refused, WellFormed(annex_b)
        PROVE  IF pending = <<>> THEN captured = Frames(annex_b)
               ELSE IsPrefix(captured, Frames(annex_b))
    <3> DEFINE F == Frames(annex_b)
    <3>1. Sending
      BY <2>2 DEF MediaInv, SendInv
    <3>2. F \in Seq(Frame) /\ Len(F) = Len(Scan(annex_b)) /\ Len(F) \in Nat
      BY <2>2, FramesIs, LenProperties DEF MediaType
    <3> HIDE DEF F
    <3>3. CASE pending = <<>>
      BY <3>1, <3>3 DEF Sending
    <3>4. CASE pending # <<>> /\ sent = <<>>
      <4>1. captured = <<>> /\ Len(captured) = 0
        BY <3>1, <3>4, EmptySeq DEF Sending
      <4>2. SubSeq(captured, 1, Len(captured)) = <<>> /\ SubSeq(F, 1, Len(captured)) = <<>>
        BY <4>1, SubSeqEmpty
      <4>3. IsPrefix(captured, F)
        BY <3>2, <4>1, <4>2 DEF IsPrefix
      <4> QED BY <3>4, <4>3 DEF F
    <3>5. CASE pending # <<>> /\ sent # <<>>
      <4>1. PICK k, p : Underway(annex_b, Len(sent), captured, building, k, p)
        BY <3>1, <3>5, Zenon DEF Sending
      <4>2. captured = SubSeq(F, 1, k - 1) /\ k \in 1 .. Len(F)
        BY <3>2, <4>1 DEF Underway, At, F
      <4>3. captured \in Seq(Frame) /\ Len(captured) = k - 1
        BY <3>2, <4>2, OneMoreFrame
      <4>4. SubSeq(captured, 1, Len(captured)) = captured
        BY <4>3, SubSeqFull
      <4>5. IsPrefix(captured, F)
        BY <3>2, <4>2, <4>3, <4>4 DEF IsPrefix
      <4> QED BY <3>5, <4>5 DEF F
    <3> QED BY <3>3, <3>4, <3>5
  <2> QED BY <2>1, <2>2 DEF CapturedWhole
<1> QED BY <1>1, MediaInvHolds, PTL

\* What a listener captures on arrival is what arrives, byte for byte and in this order,
\* whatever the network loses, repeats or mixes up.  As long as it does nothing of the
\* kind and no chunk is refused, that is one frame per NAL unit of the file as well, each
\* flushed when the next one begins; in the end the last one still waits in the
\* accumulator (transport.cpp:247-279).
THEOREM ArrivesWhole == MediaSpec => []ArrivedWhole
<1>1. MediaType /\ MediaInv => ArrivedWhole
  <2>0. MediaInv => Bytes(arrived) \o gathering.data = FlattenSeq([k \in DOMAIN came |-> came[k].payload])
    BY Zenon DEF MediaInv, BytesArrived, Payloads
  <2> SUFFICES ASSUME MediaType, MediaInv, disorder = 0, ~refused, WellFormed(annex_b)
               PROVE  LET frames == Frames(annex_b) IN
                      /\ Len(arrived) <= Len(frames)
                      /\ \A k \in DOMAIN arrived :
                          arrived[k].data = frames[k].data /\ arrived[k].key = frames[k].key
                      /\ pending = <<>> /\ received = Len(sent) /\ frames # <<>> =>
                          /\ Len(arrived) = Len(frames) - 1
                          /\ gathering.data = Last(frames).data
    BY <2>0, Zenon DEF ArrivedWhole
  <2> DEFINE F == Frames(annex_b)
             Q == ChunkQueue(annex_b)
  <2>1. /\ annex_b \in Seq(Byte) /\ received \in Nat /\ arrived \in Seq(Frame)
        /\ Len(arrived) \in Nat /\ DOMAIN arrived = 1 .. Len(arrived)
        /\ sent \in Seq(Chunk) /\ Len(sent) \in Nat
    BY LenProperties DEF MediaType
  <2>2. /\ F \in Seq(Frame) /\ Len(F) = Len(Scan(annex_b)) /\ Len(F) \in Nat
        /\ \A k \in 1 .. Len(F) : F[k] \in Frame
    BY <2>1, FramesIs, LenProperties
  <2>3. Receiving /\ sent \o pending = Q
    BY DEF MediaInv, ReceiveInv, SendInv, SendsInOrder
  <2>4. pending = <<>> => sent = Q
    BY <2>1, <2>3, ConcatEmptySeq
  <2>5. Len(Q) = 0 => F = <<>>
    <3> SUFFICES ASSUME Len(Q) = 0 PROVE F = <<>>
      OBVIOUS
    <3>1. Len(Scan(annex_b)) = 0
      BY <2>1, NextChunk
    <3> QED BY <2>2, <3>1, EmptySeq
  <2> HIDE DEF F, Q
  <2>6. CASE received = 0
    <3>1. Len(arrived) = 0
      BY <2>3, <2>6, EmptySeq DEF Receiving
    <3>2. pending = <<>> /\ received = Len(sent) => F = <<>>
      BY <2>4, <2>5, <2>6
    <3> QED BY <2>1, <2>2, <3>1, <3>2 DEF F
  <2>7. CASE received # 0
    <3>1. PICK k, p : ArrivedUpTo(annex_b, received, arrived, gathering, k, p)
      <4>1. received > 0
        BY <2>1, <2>7
      <4> QED BY <2>3, <4>1, Zenon DEF Receiving
    <3>2. /\ At(annex_b, received, k, p) /\ Len(arrived) = k - 1
          /\ \A j \in 1 .. k - 1 : arrived[j].data = F[j].data /\ (arrived[j].key <=> F[j].key)
          /\ gathering.data = Sofar(annex_b, k, p)
      BY <3>1, Zenon DEF ArrivedUpTo, F
    <3>3. k \in 1 .. Len(F)
      BY <2>2, <3>2 DEF At
    <3>4. Len(arrived) <= Len(F)
      BY <2>2, <3>2, <3>3
    <3>5. ASSUME NEW j \in DOMAIN arrived
          PROVE  arrived[j].data = F[j].data /\ arrived[j].key = F[j].key
      <4>1. j \in 1 .. k - 1 /\ j \in 1 .. Len(F) /\ arrived[j] \in Frame
        BY <2>1, <2>2, <3>2, <3>3, ElementOfSeq
      <4>2. arrived[j].key \in BOOLEAN /\ F[j].key \in BOOLEAN
        BY <2>2, <4>1 DEF Frame
      <4> QED BY <3>2, <4>1, <4>2
    <3>6. ASSUME pending = <<>>, received = Len(sent)
          PROVE  Len(arrived) = Len(F) - 1 /\ gathering.data = Last(F).data
      <4>1. At(annex_b, Len(Q), k, p)
        BY <2>4, <3>2, <3>6
      <4>2. k = Len(Scan(annex_b)) /\ Sofar(annex_b, k, p) = F[k].data
        BY <2>1, <4>1, LastOne DEF Q, F
      <4>3. k = Len(F)
        BY <2>2, <4>2
      <4>4. gathering.data = F[Len(F)].data
        BY <3>2, <4>2, <4>3, Zenon
      <4> QED BY <3>2, <4>3, <4>4 DEF Last
    <3> QED BY <3>4, <3>5, <3>6 DEF F
  <2> QED BY <2>6, <2>7
<1> QED BY <1>1, MediaInvHolds, PTL
=============================================================================
