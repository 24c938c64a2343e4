----------------------------- MODULE MCAlgorithms -----------------------------
(***************************************************************************)
(* The parts of a session that compute, for TLC: one of them at a time,    *)
(* driven by whatever the others may do to it.                             *)
(*                                                                         *)
(* The files are all sequences of up to six bytes that can be part of a    *)
(* start code or a header, and those put together of up to three units,    *)
(* with start codes of either length and bodies longer than a chunk or     *)
(* with zeros inside, and perhaps with garbage in front.                   *)
(***************************************************************************)
EXTENDS MediaPath, Congestion, JitterBuffer

VARIABLE subject

MCVars == <<subject, mediaVars, congestionVars, jitterVars>>

Starts == {<<0, 0, 1>>, <<0, 0, 0, 1>>}
Bodies == {<<7>>, <<5, 0, 0, 3, 0, 0, 9>>, <<1, 8>>, <<65, 0, 0>>}
Garbage == {<<>>, <<9>>}
OneUnit == {s \o b : s \in Starts, b \in Bodies}
Short == {s \o b : s \in Starts, b \in {<<7>>, <<1, 8>>}}
MCFiles ==
    SeqOf({0, 1, 5}, 6) \cup {g \o u : g \in Garbage, u \in OneUnit}
        \cup {u \o v : u \in OneUnit, v \in OneUnit}
        \cup {g \o u \o v : g \in Garbage, u \in Short, v \in OneUnit}
        \cup {u \o v \o u : u \in Short, v \in Short}

Idle(file) ==
    /\ annex_b = file /\ pending = ChunkQueue(file)
    /\ building = Nothing /\ captured = <<>> /\ sent = <<>> /\ refused = FALSE
    /\ received = 0 /\ disorder = 0 /\ came = <<>> /\ gathering = Nothing /\ arrived = <<>>

MCInit ==
    /\ subject \in {"media", "congestion", "jitter"}
    /\ CongestionInit /\ JitterInit
    /\ IF subject = "media" THEN MediaInit ELSE Idle(<<>>)

MCNext ==
    /\ UNCHANGED subject
    /\ \/ subject = "media" /\ MediaNext /\ UNCHANGED <<congestionVars, jitterVars>>
       \/ subject = "congestion" /\ CongestionNext /\ UNCHANGED <<mediaVars, jitterVars>>
       \/ subject = "jitter" /\ JitterNext /\ UNCHANGED <<mediaVars, congestionVars>>

MCSpec == MCInit /\ [][MCNext]_MCVars
=============================================================================
