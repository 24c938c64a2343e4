----------------------------- MODULE AdminStreams -----------------------------
(***************************************************************************)
(* The streams an engine in Mode::Listen sends on request of the control   *)
(* plane (engine/src/transport.cpp): admin threads start and stop them and *)
(* poll for captured frames, the event loop of Transport::run shakes hands *)
(* for them, sends their media and captures every NAL unit on the way out. *)
(*                                                                         *)
(* A step is what a thread does between two points where another thread    *)
(* can come in: one critical section, or one datagram.  stream_start_mutex_*)
(* is held over a whole start request; active_streams_mutex_ over one      *)
(* critical section of an admin thread, but by the event loop for as long  *)
(* as it captures; param_sets_mutex_ and the buffers' own mutexes never    *)
(* longer than a step.                                                     *)
(*                                                                         *)
(* The streams are sent to the engine's own socket, as the control plane's *)
(* defaults have it.  Of Session only the handshake and the progress of    *)
(* the sender are kept; SessionLink has the protocol.  Every stream has    *)
(* stream id 1, so ACKs, NACKs and FINs that an earlier one left behind    *)
(* reach the active one, too.  All they do to it is to let it send sooner, *)
(* to complete it, or to close it, so that it sends no more: that is Send  *)
(* and Retire, which need no reason and may never come.  A NAL unit fits   *)
(* one packet, and the first one of a stream is its parameter sets.        *)
(***************************************************************************)
EXTENDS Integers, FiniteSets, Sequences, Functions

CONSTANTS
    Streams,        \* the start requests, and the streams they create
    NoStream,       \* none of them
    NalCount,       \* NAL units of a stream: parameter sets, a keyframe, others
    AudioChunks,    \* audio chunks of a stream
    max_frames      \* capacity of the frame buffer

ASSUME StreamsAssumption == IsFiniteSet(Streams) /\ NoStream \notin Streams
ASSUME NalCountAssumption == NalCount \in Nat \ {0}
ASSUME AudioAssumption == AudioChunks \in Nat
ASSUME FramesAssumption == max_frames \in Nat \ {0}

Nals == Streams \X (1 .. NalCount)
Echo == <<NoStream, 0>> \* a frame captured on arrival, whatever NAL unit it has
Frames == Nals \cup {Echo}

VARIABLES
    request,    \* where the start request of each stream has got to
    starting,   \* the request that holds stream_start_mutex_, or NoStream
    audio,      \* audio_buffer_: the chunks in it
    active,     \* the keys of active_streams_
    pending,    \* pending_stream_starts_
    params,     \* the stream whose SPS and PPS are cached, or NoStream
    keyframe,   \* the stream whose keyframe is cached, or NoStream
    frames,     \* frame_buffer_
    accumulator,\* frame_accumulator_: there is a NAL unit in it
    ids,        \* event loop: streams collected to be started
    captures,   \* event loop: NAL units of the active stream left to capture
    cached,     \* event loop: the first of them went through the caches
    hs,         \* state_ of each stream's session, as far as the handshake
    started,    \* streams whose session was told to start()
    sent,       \* NAL units each stream has sent
    listening,  \* session_, the listener, shakes hands
    shakes,     \* the kinds of handshake packets in the socket
    handed      \* history: NAL units captured on the way out that a poll has taken

requestVars == <<request, starting, audio>>
cacheVars == <<params, keyframe>>
bufferVars == <<frames, accumulator, handed>>
sessionVars == <<hs, started, sent>>
socketVars == <<listening, shakes>>
loopVars == <<ids, captures, cached>>
vars == <<requestVars, active, pending, cacheVars, bufferVars, loopVars, sessionVars, socketVars>>

Init ==
    /\ request = [s \in Streams |-> "none"] /\ starting = NoStream /\ audio = {}
    /\ active = {} /\ pending = {} /\ params = NoStream /\ keyframe = NoStream
    /\ frames = <<>> /\ accumulator = FALSE /\ handed = {}
    /\ ids = {} /\ captures = <<>> /\ cached = FALSE
    /\ hs = [s \in Streams |-> "Handshaking"] /\ started = {}
    /\ sent = [s \in Streams |-> 0]
    /\ listening = FALSE /\ shakes = {}

\* The event loop does not hold active_streams_mutex_.
ActiveFree == captures = <<>>

\* Seeded fault: the buffer is not bounded.
PushFrame_Unbounded(buffer, frame) == Append(buffer, frame)

\* FrameBuffer::push_frame: a full buffer loses its oldest frame.
PushFrame(buffer, frame) ==
    Append(IF Len(buffer) >= max_frames THEN Tail(buffer) ELSE buffer, frame)

-----------------------------------------------------------------------------
(* on_start_stream, in an admin thread                                     *)

At(s, here) == request[s] = here

Goto(s, there) == request' = [request EXCEPT ![s] = there]

\* The request comes in, and waits for stream_start_mutex_.
AskStart(s) ==
    /\ At(s, "none") /\ Goto(s, "waiting")
    /\ UNCHANGED <<starting, audio, active, pending, cacheVars, bufferVars, loopVars, sessionVars,
                   socketVars>>

BeginStart(s) ==
    /\ At(s, "waiting") /\ starting = NoStream
    /\ starting' = s /\ Goto(s, "opening")
    /\ UNCHANGED <<audio, active, pending, cacheVars, bufferVars, loopVars, sessionVars, socketVars>>

\* Seeded fault: the mutex is kept when the media file cannot be opened.
OpenFails_KeepsLock(s) ==
    /\ At(s, "opening") /\ Goto(s, "refused")
    /\ UNCHANGED <<starting, audio, active, pending, cacheVars, bufferVars, loopVars, sessionVars,
                   socketVars>>

OpenFails(s) ==
    /\ At(s, "opening") /\ Goto(s, "refused")
    /\ starting' = NoStream
    /\ UNCHANGED <<audio, active, pending, cacheVars, bufferVars, loopVars, sessionVars, socketVars>>

\* Seeded fault: the audio of the stream before stays in the buffer.
DropAudio_Keeps(s) ==
    /\ At(s, "opening") /\ Goto(s, "loading")
    /\ UNCHANGED <<starting, audio, active, pending, cacheVars, bufferVars, loopVars, sessionVars,
                   socketVars>>

DropAudio(s) ==
    /\ At(s, "opening") /\ Goto(s, "loading")
    /\ audio' = {}
    /\ UNCHANGED <<starting, active, pending, cacheVars, bufferVars, loopVars, sessionVars, socketVars>>

\* One push_frame of the loop that loads the audio.
LoadAudio(s) ==
    /\ At(s, "loading")
    /\ \E i \in 1 .. AudioChunks :
        /\ <<s, i>> \notin audio /\ \A j \in 1 .. i - 1 : <<s, j>> \in audio
        /\ audio' = audio \cup {<<s, i>>}
    /\ UNCHANGED <<request, starting, active, pending, cacheVars, bufferVars, loopVars, sessionVars,
                   socketVars>>

\* The new stream replaces whatever is active or waiting to start.
Install(s) ==
    /\ At(s, "loading") /\ \A i \in 1 .. AudioChunks : <<s, i>> \in audio
    /\ ActiveFree
    /\ active' = {s} /\ pending' = {s} /\ Goto(s, "installed")
    /\ UNCHANGED <<starting, audio, cacheVars, bufferVars, loopVars, sessionVars, socketVars>>

\* Seeded fault: the keyframe of the stream before stays cached.
ClearParams_KeepsKeyframe(s) ==
    /\ At(s, "installed") /\ Goto(s, "cleared")
    /\ params' = NoStream
    /\ UNCHANGED <<keyframe, starting, audio, active, pending, bufferVars, loopVars, sessionVars,
                   socketVars>>

ClearParams(s) ==
    /\ At(s, "installed") /\ Goto(s, "cleared")
    /\ params' = NoStream /\ keyframe' = NoStream
    /\ UNCHANGED <<starting, audio, active, pending, bufferVars, loopVars, sessionVars, socketVars>>

DropFrames(s) ==
    /\ At(s, "cleared") /\ Goto(s, "dropped")
    /\ accumulator' = FALSE /\ frames' = <<>>
    /\ UNCHANGED <<starting, audio, active, pending, cacheVars, handed, loopVars,
                   sessionVars, socketVars>>

\* The loop is woken, which it need not be: it looks every 10 ms.
FinishStart(s) ==
    /\ At(s, "dropped") /\ Goto(s, "done")
    /\ starting' = NoStream
    /\ UNCHANGED <<audio, active, pending, cacheVars, bufferVars, loopVars, sessionVars, socketVars>>

StartRequest(s) ==
    \/ BeginStart(s) \/ OpenFails(s) \/ DropAudio(s) \/ LoadAudio(s) \/ Install(s)
    \/ ClearParams(s) \/ DropFrames(s) \/ FinishStart(s)

-----------------------------------------------------------------------------
(* The other admin requests                                                *)

\* on_stop_stream.
Stop(s) ==
    /\ s \in active /\ ActiveFree
    /\ active' = active \ {s}
    /\ UNCHANGED <<requestVars, pending, cacheVars, bufferVars, loopVars, sessionVars, socketVars>>

\* Seeded fault: a poll leaves the frames in the buffer.
Poll_Peeks ==
    /\ frames # <<>>
    /\ handed' = handed \cup (Range(frames) \ {Echo})
    /\ UNCHANGED <<requestVars, active, pending, cacheVars, frames, accumulator, loopVars,
                   sessionVars, socketVars>>

\* on_get_frames: the poll takes all there is.
Poll ==
    /\ frames # <<>>
    /\ frames' = <<>>
    /\ handed' = handed \cup (Range(frames) \ {Echo})
    /\ UNCHANGED <<requestVars, active, pending, cacheVars, accumulator, loopVars,
                   sessionVars, socketVars>>

-----------------------------------------------------------------------------
(* The event loop                                                          *)

LoopIdle == ids = {} /\ captures = <<>>

\* start_pending_streams: the list is taken in one critical section ...
Collect ==
    /\ LoopIdle /\ pending # {}
    /\ ids' = pending /\ pending' = {}
    /\ UNCHANGED <<requestVars, active, cacheVars, bufferVars, captures, cached, sessionVars, socketVars>>

\* Seeded fault: what came in while the list was worked on is thrown away.
StartOne_ClearsPending(s) ==
    /\ s \in ids
    /\ ids' = ids \ {s} /\ pending' = {}
    /\ IF s \in active
       THEN started' = started \cup {s} /\ shakes' = shakes \cup {"SYN"}
       ELSE UNCHANGED <<started, shakes>>
    /\ UNCHANGED <<requestVars, active, cacheVars, bufferVars, captures, cached, hs, sent,
                   listening>>

\* ... and each stream still there is started in another.
StartOne(s) ==
    /\ s \in ids
    /\ ids' = ids \ {s}
    /\ IF s \in active
       THEN started' = started \cup {s} /\ shakes' = shakes \cup {"SYN"}
       ELSE UNCHANGED <<started, shakes>>
    /\ UNCHANGED <<requestVars, active, pending, cacheVars, bufferVars, captures, cached, hs, sent,
                   listening>>

\* Session::fill_window sends k more NAL units of s.  One is complete, and
\* captured, when the next one starts or, the last one, at the end of the file.
FillWindow(s, k) ==
    LET last == sent[s] + k
        from == IF sent[s] = 0 THEN 1 ELSE sent[s]
        to == IF last = NalCount THEN last ELSE last - 1
    IN  /\ sent' = [sent EXCEPT ![s] = last]
        /\ captures' = [i \in 1 .. (IF k > 0 THEN to - from + 1 ELSE 0) |-> <<s, from + i - 1>>]

\* Of the handshake packets of one kind, which nothing tells apart, one is
\* taken from the socket; there may be another.
Take(kind) == {shakes, shakes \ {kind}}

\* on_readable of a SYN: the listening session of the same process answers it.
ReceiveSyn ==
    /\ LoopIdle /\ "SYN" \in shakes
    /\ \E left \in Take("SYN") : shakes' = left \cup {"SYN|ACK"}
    /\ listening' = TRUE
    /\ UNCHANGED <<requestVars, active, pending, cacheVars, bufferVars, loopVars, sessionVars>>

\* on_readable of a SYN|ACK: it goes to the active stream if its session is
\* shaking hands, for whichever stream it was an answer.
ReceiveSynAck ==
    /\ LoopIdle /\ "SYN|ACK" \in shakes
    /\ \E left \in Take("SYN|ACK") :
        \/ /\ \A t \in active : hs[t] # "Handshaking"
           /\ shakes' = left
           /\ UNCHANGED <<hs, sent, captures>>
        \/ \E t \in active : \E k \in 1 .. NalCount :
           /\ hs[t] = "Handshaking"
           /\ shakes' = left \cup {"ACK"}
           /\ hs' = [hs EXCEPT ![t] = "Active"]
           /\ FillWindow(t, k)
    /\ UNCHANGED <<requestVars, active, pending, cacheVars, bufferVars, ids, cached, started, listening>>

\* on_readable of the bare ACK of a handshake: the listening session is Active.
ReceiveAck ==
    /\ LoopIdle /\ "ACK" \in shakes
    /\ shakes' \in Take("ACK")
    /\ listening' = FALSE
    /\ UNCHANGED <<requestVars, active, pending, cacheVars, bufferVars, loopVars, sessionVars>>

\* on_readable of a FIN or of the FIN|ACK it is answered with, which a stream that has
\* sent everything leaves behind: the listening session shakes hands no more.
ReceiveFin ==
    /\ LoopIdle /\ \E s \in Streams : sent[s] = NalCount
    /\ listening' = FALSE
    /\ UNCHANGED <<requestVars, active, pending, cacheVars, bufferVars, loopVars, sessionVars,
                   shakes>>

\* on_readable of DATA: what a stream has sent may be in the socket, and again
\* when it was sent again.  It is an echo of the engine's own stream if the active
\* stream's session knows its stream id; otherwise it is captured on arrival,
\* the NAL unit before it going to the buffer.
ReceiveData(s, n) ==
    /\ LoopIdle /\ n <= sent[s]
    /\ IF \E t \in active : hs[t] = "Active"
       THEN UNCHANGED <<frames, accumulator>>
       ELSE /\ accumulator' = TRUE
            /\ frames' = IF accumulator THEN PushFrame(frames, Echo) ELSE frames
    /\ listening' = FALSE
    /\ UNCHANGED <<requestVars, active, pending, cacheVars, handed, loopVars, sessionVars,
                   shakes>>

\* on_tick of a session that shakes hands: its SYN or SYN|ACK may be due again.
ResendHandshake ==
    /\ LoopIdle
    /\ \/ /\ \E s \in active \cap started : hs[s] = "Handshaking"
          /\ shakes' = shakes \cup {"SYN"}
       \/ /\ listening
          /\ shakes' = shakes \cup {"SYN|ACK"}
    /\ UNCHANGED <<requestVars, active, pending, cacheVars, bufferVars, loopVars, sessionVars, listening>>

\* on_tick, or an ACK, of whichever stream it is: the window fills as far as pacing and
\* the ACKs allow.
Send(s) ==
    /\ LoopIdle /\ s \in active /\ hs[s] = "Active"
    /\ \E k \in 1 .. NalCount - sent[s] : FillWindow(s, k)
    /\ UNCHANGED <<requestVars, active, pending, cacheVars, bufferVars, ids, cached, hs, started,
                   listening, shakes>>

\* push_captured_frame, while the loop holds active_streams_mutex_: first the
\* caches ...
CacheNal ==
    /\ captures # <<>> /\ ~cached
    /\ LET nal == Head(captures)
       IN  /\ params' = IF nal[2] = 1 THEN nal[1] ELSE params
           /\ keyframe' = IF nal[2] = 2 THEN nal[1] ELSE keyframe
    /\ cached' = TRUE
    /\ UNCHANGED <<requestVars, active, pending, bufferVars, ids, captures, sessionVars, socketVars>>

\* ... then the buffer.
PushNal ==
    /\ captures # <<>> /\ cached
    /\ frames' = PushFrame(frames, Head(captures))
    /\ captures' = Tail(captures) /\ cached' = FALSE
    /\ UNCHANGED <<requestVars, active, pending, cacheVars, accumulator, handed, ids, sessionVars,
                   socketVars>>

\* The end of run()'s iteration: a stream that has sent may be complete or, as
\* one that shakes hands in vain, have failed.
Retire(s) ==
    /\ LoopIdle /\ s \in active /\ (s \in started \/ hs[s] = "Active")
    /\ active' = active \ {s}
    /\ UNCHANGED <<requestVars, pending, cacheVars, bufferVars, loopVars, sessionVars, socketVars>>

Loop ==
    \/ Collect \/ (\E s \in ids : StartOne(s))
    \/ ReceiveSyn \/ ReceiveSynAck \/ ReceiveAck \/ ReceiveFin \/ ResendHandshake
    \/ \E s \in Streams : Send(s) \/ Retire(s) \/ \E n \in 1 .. NalCount : ReceiveData(s, n)
    \/ CacheNal \/ PushNal

Next ==
    \/ \E s \in Streams : AskStart(s) \/ StartRequest(s) \/ Stop(s)
    \/ Poll
    \/ Loop

Spec == Init /\ [][Next]_vars

\* Threads get to run, and a mutex that is free again and again is acquired in
\* the end by whoever waits for it.
Fairness ==
    /\ WF_vars(Collect) /\ WF_vars(\E s \in ids : StartOne(s))
    /\ WF_vars(CacheNal) /\ WF_vars(PushNal)
    /\ \A s \in Streams : SF_vars(StartRequest(s))

FairSpec == Spec /\ Fairness

-----------------------------------------------------------------------------

TypeOK ==
    /\ request \in [Streams -> {"none", "waiting", "opening", "refused", "loading", "installed", "cleared",
                                "dropped", "done"}]
    /\ starting \in Streams \cup {NoStream}
    /\ audio \subseteq Streams \X (1 .. AudioChunks)
    /\ active \subseteq Streams /\ pending \subseteq Streams /\ ids \subseteq Streams
    /\ params \in Streams \cup {NoStream} /\ keyframe \in Streams \cup {NoStream}
    /\ frames \in Seq(Frames) /\ Len(frames) <= max_frames
    /\ accumulator \in BOOLEAN /\ handed \subseteq Nals
    /\ captures \in Seq(Nals) /\ cached \in BOOLEAN
    /\ hs \in [Streams -> {"Handshaking", "Active"}] /\ started \subseteq Streams
    /\ sent \in [Streams -> 0 .. NalCount]
    /\ listening \in BOOLEAN
    /\ shakes \subseteq {"SYN", "SYN|ACK", "ACK"}

\* A start that was accepted is not lost: until its session was told to start,
\* an active stream is on the list or with the loop (transport.cpp:388-413,
\* 450-458).
StartNotLost == \A s \in active : s \in started \/ s \in pending \cup ids

\* Once a start request is done and no other is under way, nothing of an earlier
\* stream is left in the caches or, captured on the way out, in the buffer
\* (transport.cpp:460-470).
FreshCapture ==
    starting = NoStream => \A s \in active :
        /\ params \in {s, NoStream} /\ keyframe \in {s, NoStream}
        /\ Range(frames) \subseteq ({s} \X (1 .. NalCount)) \cup {Echo}

\* ... and the audio buffer has the whole audio of the active stream and nothing
\* else, whatever requests ran side by side (transport.cpp:418, 428-440).
AudioMatches ==
    starting = NoStream => \A s \in active : audio = {s} \X (1 .. AudioChunks)

\* No frame captured on the way out is handed to two polls (transport.cpp:505).
HandedOnce == Range(frames) \cap handed = {}

\* Every start request is answered.
Answered == \A s \in Streams : (request[s] = "waiting") ~> (request[s] \in {"done", "refused"})

\* ... and what the request installed is started by the loop, or is gone
\* (transport.cpp:296, 317-321).
Started == \A s \in Streams : (s \in active) ~> (s \in started \/ s \notin active)

-----------------------------------------------------------------------------
(* What a comment says and the code does not do.                           *)

\* "Always prepend cached SPS/PPS so a late-joining browser can configure
\* WebCodecs mid-GOP" (transport.cpp:510-511): once the start request is done, a
\* poll that finds a frame of the active stream finds its parameter sets cached.
ParamsKept ==
    starting = NoStream => \A s \in active :
        Range(frames) \cap ({s} \X (1 .. NalCount)) # {} => params = s
=============================================================================
