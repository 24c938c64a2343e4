----------------------------- MODULE JitterBuffer -----------------------------
(***************************************************************************)
(* The jitter buffer (engine/src/jitter_buffer.cpp) of a listening session,*)
(* which pushes every packet it delivers, in the order of their sequence   *)
(* numbers, and pops what is due.  A SYN starts the numbers again and      *)
(* leaves the buffer as it is.  It holds what is known of a packet, not    *)
(* its payload.  The jitter estimate has no effect on it and is left out.  *)
(***************************************************************************)
EXTENDS Integers, Sequences, SequencesExt

CONSTANTS
    kMaxBufferSize,     \* packets it holds at most
    TargetDepth,        \* how long a packet waits for newer ones
    MaxPushes, MaxTime, \* bounds: packets of an initiator, clock
    MaxRestarts         \* bound: SYNs that start the numbers again

ASSUME JitterAssumption ==
    /\ kMaxBufferSize \in Nat \ {0} /\ TargetDepth \in Nat
    /\ MaxPushes \in Nat /\ MaxTime \in Nat /\ MaxRestarts \in Nat

VARIABLES
    buffer,     \* buffer_
    time,       \* the clock
    initiator,  \* how many initiators have said SYN before the present one
    pushed,     \* the next sequence number: next_expected_
    owed,       \* history: keyframe and audio packets there was or could be room for
    popped      \* history: packets popped, in this order

jitterVars == <<buffer, time, initiator, pushed, owed, popped>>

Priorities == {0, 1}    \* a packet of a picture, a packet of a keyframe or of audio
Packets == [from : Nat, seq : Nat, at : Nat, priority : Priorities]

JitterInit ==
    /\ buffer = <<>> /\ time = 0 /\ initiator = 0 /\ pushed = 0
    /\ owed = {} /\ popped = <<>>

\* Seeded fault: the oldest packet makes room, whatever it is.
Victim_Oldest(b) == 1

\* Where the oldest packet of the lowest priority is: arrivals are in order.
Victim(b) ==
    CHOOSE i \in DOMAIN b :
        \A j \in DOMAIN b : \/ b[i].priority < b[j].priority
                            \/ b[i].priority = b[j].priority /\ i <= j

\* A packet that finds the buffer full takes the place of one of lower priority,
\* or is turned away.
Push(priority) ==
    LET packet == [from |-> initiator, seq |-> pushed, at |-> time, priority |-> priority]
        room == Len(buffer) < kMaxBufferSize
        evicts == ~room /\ buffer[Victim(buffer)].priority < priority
        kept == IF evicts THEN RemoveAt(buffer, Victim(buffer)) ELSE buffer
        taken == room \/ evicts
    IN  /\ pushed < MaxPushes /\ pushed' = pushed + 1
        /\ buffer' = IF taken THEN Append(kept, packet) ELSE buffer
        /\ owed' = IF priority = 1 /\ (room \/ \E i \in DOMAIN buffer : buffer[i].priority = 0)
                   THEN owed \cup {packet} ELSE owed
        /\ UNCHANGED <<time, initiator, popped>>

\* A SYN: the session expects number 0, and does not touch the buffer.
Restart ==
    /\ initiator < MaxRestarts /\ initiator' = initiator + 1
    /\ pushed' = 0
    /\ UNCHANGED <<buffer, time, owed, popped>>

\* The first packet, once it has waited long enough or nothing waits behind it.
Pop ==
    /\ buffer # <<>>
    /\ time - Head(buffer).at >= TargetDepth \/ Len(buffer) = 1
    /\ buffer' = Tail(buffer) /\ popped' = Append(popped, Head(buffer))
    /\ UNCHANGED <<time, initiator, pushed, owed>>

Pass ==
    /\ time < MaxTime /\ time' = time + 1
    /\ UNCHANGED <<buffer, initiator, pushed, owed, popped>>

JitterNext == (\E p \in Priorities : Push(p)) \/ Restart \/ Pop \/ Pass

JitterSpec == JitterInit /\ [][JitterNext]_jitterVars
-----------------------------------------------------------------------------

Before(p, q) == p.from < q.from \/ (p.from = q.from /\ p.seq < q.seq)

Ordered(s) == \A i, j \in DOMAIN s : i < j => Before(s[i], s[j])

\* An overrun costs packets of the lowest priority only, and no order: packets come
\* out initiator by initiator, those the one before left in the buffer first, and in
\* the order of their sequence numbers; and a keyframe packet that came while there
\* was room, or something else in the buffer, is in there or has come out, over a
\* SYN, too (jitter_buffer.cpp:22-35, session.cpp:292-305).
Playout ==
    /\ Ordered(popped \o buffer)
    /\ \A p \in owed : Contains(popped \o buffer, p)
=============================================================================
