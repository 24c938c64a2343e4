------------------------------ MODULE MediaPath ------------------------------
(***************************************************************************)
(* The bytes of one video on their way through a sender and a listener:    *)
(* an Annex B file is scanned for NAL units (nal_parser.cpp), each unit is *)
(* cut into chunks (media_source.cpp), the chunks are sent and captured on *)
(* the way out (Session::fill_window), and captured again where they       *)
(* arrive (Transport::on_readable), straight from the socket: what arrives *)
(* twice, late or out of order is captured like that, Session sees it only *)
(* on its own account (SessionLink).  Bytes matter here, and nothing else. *)
(*                                                                         *)
(* Offsets are those of the code, from 0; d[i + 1] is the byte at offset i.*)
(***************************************************************************)
EXTENDS Integers, FiniteSets, Sequences, SequencesExt

CONSTANTS
    Files,              \* the files a sender may be given: sequences of bytes
    kMaxPayloadLength,  \* bytes in a chunk
    Duration,           \* frame_duration_us_
    Clock,              \* the listener's clock, in its process later than any picture
    MaxDisorder         \* bound: packets that arrive other than next in turn

ASSUME FilesAssumption == \A f \in Files : f \in Seq(0 .. 255)
\* A start code and the header behind it fit one chunk.
ASSUME PayloadAssumption == kMaxPayloadLength \in Nat /\ kMaxPayloadLength > 4
ASSUME TimesAssumption == Duration \in Nat \ {0} /\ Clock \in Nat \ {0}
ASSUME DisorderAssumption == MaxDisorder \in Nat

-----------------------------------------------------------------------------
(* nal_parser.cpp                                                          *)

\* classify_nal_header: IDR slices are keyframes, SEI to AUD are not pictures.
classify_nal_header(header) ==
    LET type == header % 32 IN
    CASE type = 5 -> "Keyframe"
      [] type \in 6 .. 9 -> "Control"
      [] OTHER -> "PFrame"

\* The length of the start code at offset i, 0 when there is none.
StartCode(d, i) ==
    CASE i + 4 <= Len(d) /\ SubSeq(d, i + 1, i + 4) = <<0, 0, 0, 1>> -> 4
      [] i + 3 <= Len(d) /\ SubSeq(d, i + 1, i + 3) = <<0, 0, 1>> -> 3
      [] OTHER -> 0

\* Seeded fault: the unit runs up to the three bytes 0 0 1, and keeps the first
\* byte of a start code of four.
NextUnit_Three(d, from) ==
    LET later == {i \in from .. Len(d) - 4 : StartCode(d, i) = 3}
    IN  IF later = {} THEN Len(d) ELSE Min(later)

\* Where the unit that has its second byte at offset from ends.
NextUnit(d, from) ==
    LET later == {i \in from .. Len(d) - 4 : StartCode(d, i) > 0}
    IN  IF later = {} THEN Len(d) ELSE Min(later)

\* One round of the loop of scan_annex_b: the units from offset i on, where scan
\* has those from the later ones.
ScanAt(d, i, scan) ==
    LET at == i + StartCode(d, i) IN
    CASE i + 3 >= Len(d) -> <<>>
      [] i + 3 < Len(d) /\ at = i -> scan[i + 1]
      [] i + 3 < Len(d) /\ at > i /\ at >= Len(d) -> <<>>
      [] OTHER -> <<SubSeq(d, at + 1, NextUnit(d, at + 1))>> \o scan[NextUnit(d, at + 1)]

\* scan_annex_b
Scan(d) == LET scan[i \in 0 .. Len(d)] == ScanAt(d, i, scan) IN scan[0]

chunk_payload(d) ==
    [k \in 1 .. (Len(d) + kMaxPayloadLength - 1) \div kMaxPayloadLength |->
        SubSeq(d, (k - 1) * kMaxPayloadLength + 1,
                  IF k * kMaxPayloadLength < Len(d) THEN k * kMaxPayloadLength ELSE Len(d))]

\* Seeded fault: two zeros are taken for a start code.
starts_with_annex_b_TwoZeros(d) == Len(d) >= 3 /\ d[1] = 0 /\ d[2] = 0

starts_with_annex_b(d) == StartCode(d, 0) > 0

-----------------------------------------------------------------------------
(* media_source.cpp                                                        *)

StartBytes == <<0, 0, 0, 1>>

IsPicture(unit) == classify_nal_header(unit[1]) # "Control"

\* Pictures are numbered in the order of the file; what is no picture is of time 0.
Pts(units, k) ==
    IF IsPicture(units[k])
    THEN Cardinality({j \in 1 .. k - 1 : IsPicture(units[j])}) * Duration
    ELSE 0

\* The chunks of the k-th unit.
UnitChunks(units, k) ==
    LET pieces == chunk_payload(StartBytes \o units[k]) IN
    [p \in DOMAIN pieces |->
        [payload |-> pieces[p], type |-> classify_nal_header(units[k][1]),
         pts |-> Pts(units, k)]]

\* build_chunk_queue
ChunkQueue(d) ==
    LET units == Scan(d) IN FlattenSeq([k \in DOMAIN units |-> UnitChunks(units, k)])

-----------------------------------------------------------------------------

VARIABLES
    annex_b,    \* the file
    pending,    \* pending_: the chunks that are not sent yet
    building,   \* pending_frame_, its time and its keyframe flag
    captured,   \* frames captured on the way out
    sent,       \* history: the packets sent
    refused,    \* history: the token bucket has refused a chunk
    received,   \* the latest packet, in the order they were sent, that has arrived
    disorder,   \* how many arrived that were not the next after it
    came,       \* history: the packets as they arrived
    gathering,  \* frame_accumulator_, its time and its type
    arrived     \* frames captured on arrival

senderVars == <<annex_b, pending, building, captured, sent, refused>>
arrivalVars == <<received, disorder, came, gathering, arrived>>
mediaVars == <<senderVars, arrivalVars>>

Nothing == [data |-> <<>>, pts |-> 0, key |-> FALSE]

MediaInit ==
    /\ annex_b \in Files
    /\ pending = ChunkQueue(annex_b)
    /\ building = Nothing /\ captured = <<>> /\ sent = <<>> /\ refused = FALSE
    /\ received = 0 /\ disorder = 0 /\ came = <<>> /\ gathering = Nothing /\ arrived = <<>>

\* A frame gets the bytes of one more chunk; before a start code, the frame that
\* was being put together is complete.
Complete(frame, chunk) == starts_with_annex_b(chunk.payload) /\ frame.data # <<>>

Flush(frames, frame) == IF frame.data = <<>> THEN frames ELSE Append(frames, frame)

\* The final unit is flushed once the source has no more chunks.
FlushFinal(frames, frame) ==
    LET eof == Tail(pending) = <<>> IN
    /\ captured' = IF eof THEN Flush(frames, frame) ELSE frames
    /\ building' = IF eof THEN Nothing ELSE frame

\* One round of the loop of fill_window, the flush after it included.
SendChunk ==
    /\ pending # <<>>
    /\ LET chunk == Head(pending)
           starts == starts_with_annex_b(chunk.payload)
           frame == IF Complete(building, chunk) THEN Nothing ELSE building
           frames == IF Complete(building, chunk) THEN Append(captured, building) ELSE captured
           longer == [data |-> frame.data \o chunk.payload, pts |-> chunk.pts,
                      key |-> IF starts THEN chunk.type = "Keyframe" ELSE building.key]
       IN  /\ FlushFinal(frames, longer)
           /\ sent' = Append(sent, chunk)
    /\ pending' = Tail(pending)
    /\ UNCHANGED <<annex_b, refused, arrivalVars>>

\* A chunk the token bucket refuses is gone, and ends the loop.
RefuseChunk ==
    /\ pending # <<>>
    /\ pending' = Tail(pending) /\ refused' = TRUE
    /\ FlushFinal(captured, building)
    /\ UNCHANGED <<annex_b, sent, arrivalVars>>

\* The next packet in turn arrives; or one that arrived before, or that others
\* have overtaken, or one that overtakes others, which may be lost.
Arrives(i) ==
    /\ i \in 1 .. Len(sent)
    /\ disorder' = IF i = received + 1 THEN disorder ELSE disorder + 1
    /\ disorder' <= MaxDisorder
    /\ received' = IF i > received THEN i ELSE received
    /\ came' = Append(came, sent[i])

\* on_readable captures DATA as it arrives; a packet of time 0 gets the clock's.
Capture(chunk) ==
    LET starts == starts_with_annex_b(chunk.payload)
        frame == IF Complete(gathering, chunk) THEN Nothing ELSE gathering
        type == IF starts
                THEN classify_nal_header(chunk.payload[StartCode(chunk.payload, 0) + 1])
                ELSE chunk.type
    IN  /\ arrived' = IF Complete(gathering, chunk) THEN Append(arrived, gathering) ELSE arrived
        /\ gathering' = [data |-> frame.data \o chunk.payload,
                         pts |-> IF chunk.pts # 0 THEN chunk.pts ELSE Clock + Len(came),
                         key |-> type = "Keyframe"]

Receive(i) == Arrives(i) /\ Capture(sent[i]) /\ UNCHANGED senderVars

MediaNext == SendChunk \/ RefuseChunk \/ \E i \in DOMAIN sent : Receive(i)

MediaSpec == MediaInit /\ [][MediaNext]_mediaVars
-----------------------------------------------------------------------------

\* Offsets of 0 0 1: where a start code is, whichever its length.
Marks(d) == {i \in 0 .. Len(d) - 3 : SubSeq(d, i + 1, i + 3) = <<0, 0, 1>>}

\* What H.264 allows: every start code is followed by a unit, whose header is
\* not 0 (nal_unit_type 0 is not specified).
WellFormed(d) == \A i \in Marks(d) : i + 3 < Len(d) /\ d[i + 4] # 0

\* The k-th of them, in the order of the file.
Mark(d, k) == CHOOSE m \in Marks(d) : Cardinality({n \in Marks(d) : n < m}) = k - 1

\* A unit as Annex B defines it: what lies between the start code with its last
\* three bytes at m and the next one, a zero in front of 0 0 1 being part of it.
UnitAt(d, m) ==
    LET later == {n \in Marks(d) : n > m}
        end == CASE later = {} -> Len(d)
                 [] later # {} /\ d[Min(later)] = 0 -> Min(later) - 1
                 [] OTHER -> Min(later)
    IN  SubSeq(d, m + 4, end)

Units(d) == [k \in 1 .. Cardinality(Marks(d)) |-> UnitAt(d, Mark(d, k))]

\* The frames there should be: one per unit, with its time and keyframe flag.
Frames(d) ==
    LET units == Units(d) IN
    [k \in DOMAIN units |->
        [data |-> StartBytes \o units[k], pts |-> Pts(units, k),
         key |-> units[k][1] % 32 = 5]]

Bytes(frames) == FlattenSeq([k \in DOMAIN frames |-> frames[k].data])

\* What is captured on the way out is what is sent, byte for byte; and as long
\* as no chunk is refused it is one frame per NAL unit of a well-formed file
\* (session.cpp:196-198), in order, with its time, and in the end all of them.
CapturedWhole ==
    /\ Bytes(captured) \o building.data = FlattenSeq([k \in DOMAIN sent |-> sent[k].payload])
    /\ ~refused /\ WellFormed(annex_b) =>
        IF pending = <<>> THEN captured = Frames(annex_b) ELSE IsPrefix(captured, Frames(annex_b))

\* What is captured on arrival is what has arrived, byte for byte and in this order,
\* whatever the network lost, repeated or mixed up; and as long as it did nothing
\* of the kind and no chunk was refused it is one frame per NAL unit as well,
\* flushed when the next one begins (transport.cpp:247): in the end all but the last.
ArrivedWhole ==
    /\ Bytes(arrived) \o gathering.data = FlattenSeq([k \in DOMAIN came |-> came[k].payload])
    /\ disorder = 0 /\ ~refused /\ WellFormed(annex_b) =>
        LET frames == Frames(annex_b) IN
        /\ Len(arrived) <= Len(frames)
        /\ \A k \in DOMAIN arrived :
            arrived[k].data = frames[k].data /\ arrived[k].key = frames[k].key
        /\ pending = <<>> /\ received = Len(sent) /\ frames # <<>> =>
            /\ Len(arrived) = Len(frames) - 1
            /\ gathering.data = Last(frames).data

\* "pts is strictly increasing from the source" (dashboard/src/hooks/useStream.ts:123),
\* of the pictures an engine captures on arrival, over a network that keeps order.
ArrivalTimes ==
    LET picture(f) == IsPicture(SubSeq(f.data, 5, Len(f.data))) IN
    disorder = 0 /\ ~refused /\ WellFormed(annex_b) =>
        \A j, k \in DOMAIN arrived :
            j < k /\ picture(arrived[j]) /\ picture(arrived[k]) => arrived[j].pts < arrived[k].pts
=============================================================================
