-------------------------------- MODULE Viewer --------------------------------
(***************************************************************************)
(* Dashboards that watch the engine's stream: what the engine hands out at *)
(* /admin/frames and /admin/audio, the stream bridge of each dashboard's   *)
(* WebSocket (stream_bridge of bridge/websocket_bridge.py) and the browser *)
(* end of it (dashboard/src/hooks/useStream.ts).                           *)
(*                                                                         *)
(* A NAL is its kind, its stream and its time; time is counted in frames,  *)
(* from 0 in every stream as in MediaSource, and the 100 ms of             *)
(* kMaxDecodeGapUs are kMaxDecodeGap frames.  SPS and PPS are one NAL.     *)
(* The chunks of audio a bridge sends in one round are one message.        *)
(* AdminStreams has the engine's half in detail; here it is what a bridge  *)
(* can see of it.  When a frame is due for drawing is up to the clock.     *)
(***************************************************************************)
EXTENDS Integers, Sequences, Functions

CONSTANTS
    Viewers,            \* WebSockets, each with the effect that opened it
    MaxStreams,         \* streams started one after the other
    NumFrames,          \* pictures in a stream
    Keyframes,          \* those that are IDR pictures
    AudioChunks,        \* chunks of audio the source of each stream has
    max_frames,         \* room in the frame buffer
    kMaxDecodeGap,      \* the gap between two pictures the decoder is not spared
    kMaxQueuedFrames,   \* decoded pictures that wait to be drawn
    MaxBacklog,         \* messages a socket has under way when it takes more
    MaxFaults           \* requests that time out and errors a decoder reports

ASSUME FramesAssumption ==
    /\ NumFrames \in Nat \ {0} /\ Keyframes \subseteq 0 .. NumFrames - 1 /\ 0 \in Keyframes
ASSUME LimitsAssumption ==
    /\ max_frames \in Nat \ {0} /\ kMaxDecodeGap \in Nat \ {0}
    /\ kMaxQueuedFrames \in Nat \ {0}
ASSUME BoundsAssumption ==
    MaxStreams \in Nat /\ MaxBacklog \in Nat /\ MaxFaults \in Nat
ASSUME AudioAssumption == AudioChunks \in [1 .. MaxStreams -> Nat]

Nothing == -1

Frame(s, n) == [kind |-> "frame", stream |-> s, pts |-> n]
Params(s) == [kind |-> "params", stream |-> s, pts |-> 0]
Audio(s, n) == [kind |-> "audio", stream |-> s, chunks |-> n]
NoFrame == Frame(0, 0)
IsKey(nal) == nal.pts \in Keyframes

VARIABLES
    stream,             \* the stream that plays, numbered from 1, or 0
    request,            \* what the request that started it has done last
    next_frame,         \* its first picture that is not captured yet, or Nothing
                        \* if its SPS and PPS are not
    cached_params,      \* the stream whose SPS and PPS are cached, or 0
    cached_keyframe,    \* the picture cached as the last keyframe, or NoFrame
    buffer,             \* the frame buffer
    audio               \* how many chunks the audio buffer holds

engineVars ==
    <<stream, request, next_frame, cached_params, cached_keyframe, buffer, audio>>

VARIABLES
    bridge,             \* where the loop of stream_bridge has got to
    frames,             \* what it got from /admin/frames in this round
    audio_sent

bridgeVars == <<bridge, frames, audio_sent>>

VARIABLES
    page,               \* "new", "open" or "closed"
    channel,            \* messages on their way to the browser
    configured, needKey, highest,   \* highest is highestDecodedPtsUs
    decoding,           \* pictures the decoder has and has not put out
    renderQueue,
    drawn,              \* the picture on the canvas, or Nothing
    painted,            \* history: it is of this decoder
    heard,              \* audio has arrived
    decoded             \* history: all pictures given to this decoder

decoderVars == <<configured, needKey, highest, decoding, renderQueue, drawn, painted, decoded>>
pageVars == <<page, channel, decoderVars, heard>>

VARIABLES
    timeouts,           \* requests that timed out so far
    errors              \* decoder errors so far

vars == <<engineVars, bridgeVars, pageVars, timeouts, errors>>

Init ==
    /\ stream = 0 /\ request = "none" /\ next_frame = Nothing
    /\ cached_params = 0 /\ cached_keyframe = NoFrame
    /\ buffer = <<>> /\ audio = 0
    /\ bridge = [v \in Viewers |-> "idle"] /\ frames = [v \in Viewers |-> <<>>]
    /\ audio_sent = [v \in Viewers |-> FALSE]
    /\ page = [v \in Viewers |-> "new"] /\ channel = [v \in Viewers |-> <<>>]
    /\ configured = [v \in Viewers |-> FALSE] /\ needKey = [v \in Viewers |-> TRUE]
    /\ highest = [v \in Viewers |-> Nothing] /\ decoding = [v \in Viewers |-> <<>>]
    /\ renderQueue = [v \in Viewers |-> <<>>] /\ drawn = [v \in Viewers |-> Nothing]
    /\ painted = [v \in Viewers |-> FALSE]
    /\ heard = [v \in Viewers |-> FALSE] /\ decoded = [v \in Viewers |-> {}]
    /\ timeouts = 0 /\ errors = 0

-----------------------------------------------------------------------------
(* The engine                                                              *)

\* Whose audio the audio buffer holds.
AudioStream == IF request = "emptied" THEN stream + 1 ELSE stream

\* on_start_stream, one at a time, empties the audio buffer, fills it chunk by chunk
\* from its own media, which may have no audio ...
DropAudio ==
    /\ request = "none" /\ stream < MaxStreams /\ request' = "emptied" /\ audio' = 0
    /\ UNCHANGED <<stream, next_frame, cached_params, cached_keyframe, buffer, bridgeVars,
                   pageVars, timeouts, errors>>

LoadAudio ==
    /\ request = "emptied" /\ audio < AudioChunks[AudioStream] /\ audio' = audio + 1
    /\ UNCHANGED <<stream, request, next_frame, cached_params, cached_keyframe, buffer, bridgeVars,
                   pageVars, timeouts, errors>>

\* ... puts its stream in the place of the one before ...
StartStream ==
    /\ request = "emptied" /\ audio = AudioChunks[AudioStream] /\ request' = "installed"
    /\ stream' = stream + 1 /\ next_frame' = Nothing
    /\ UNCHANGED <<cached_params, cached_keyframe, buffer, audio, bridgeVars, pageVars, timeouts,
                   errors>>

\* ... and then drops what the caches and the frame buffer hold, by then perhaps
\* of the new stream.
ClearCaches ==
    /\ request = "installed" /\ request' = "cleared"
    /\ cached_params' = 0 /\ cached_keyframe' = NoFrame
    /\ UNCHANGED <<stream, next_frame, buffer, audio, bridgeVars, pageVars, timeouts, errors>>

DropFrames ==
    /\ request = "cleared" /\ request' = "none"
    /\ buffer' = <<>>
    /\ UNCHANGED <<stream, next_frame, cached_params, cached_keyframe, audio, bridgeVars, pageVars,
                   timeouts, errors>>

\* Seeded fault: a full buffer takes the frame all the same.
Pushed_Unbounded(nal) == Append(buffer, nal)

Pushed(nal) == Append(IF Len(buffer) >= max_frames THEN Tail(buffer) ELSE buffer, nal)

\* push_captured_frame: a NAL is cached and pushed.
CaptureParams ==
    /\ stream > 0 /\ next_frame = Nothing /\ next_frame' = 0
    /\ cached_params' = stream /\ buffer' = Pushed(Params(stream))
    /\ UNCHANGED <<stream, request, cached_keyframe, audio, bridgeVars, pageVars, timeouts,
                   errors>>

Capture ==
    /\ next_frame \in 0 .. NumFrames - 1 /\ next_frame' = next_frame + 1
    /\ LET nal == Frame(stream, next_frame)
       IN  /\ cached_keyframe' = IF IsKey(nal) THEN nal ELSE cached_keyframe
           /\ buffer' = Pushed(nal)
    /\ UNCHANGED <<stream, request, cached_params, audio, bridgeVars, pageVars, timeouts,
                   errors>>

-----------------------------------------------------------------------------
(* stream_bridge                                                           *)

At(v, here) == bridge[v] = here
Goto(v, there) == bridge' = [bridge EXCEPT ![v] = there]

\* The dashboard opens the WebSocket of a session that is there.
Open(v) ==
    /\ page[v] = "new" /\ page' = [page EXCEPT ![v] = "open"]
    /\ Goto(v, "polling")
    /\ UNCHANGED <<engineVars, frames, audio_sent, channel, decoderVars, heard, timeouts, errors>>

\* The request for frames reaches the engine, which takes what is buffered ...
Drain(v) ==
    /\ At(v, "polling") /\ Goto(v, "drained")
    /\ frames' = [frames EXCEPT ![v] = buffer] /\ buffer' = <<>>
    /\ UNCHANGED <<stream, request, next_frame, cached_params, cached_keyframe, audio,
                   audio_sent, pageVars, timeouts, errors>>

\* Seeded fault: SPS and PPS are only sent along with the keyframe.
Prepended_WithKeyframe(resend) ==
    IF resend THEN <<Params(cached_params), cached_keyframe>> ELSE <<>>

Prepended(resend) ==
    (IF cached_params = 0 THEN <<>> ELSE <<Params(cached_params)>>)
        \o (IF resend THEN <<cached_keyframe>> ELSE <<>>)

\* ... and then looks up what to put before it: the last keyframe too, if
\* kKeyframeResendInterval has passed since that was done, for whichever dashboard.
Prepend(v) ==
    /\ At(v, "drained") /\ Goto(v, "sending")
    /\ \E resend \in {FALSE, cached_keyframe # NoFrame} :
        frames' = [frames EXCEPT ![v] = IF @ = <<>> THEN @ ELSE Prepended(resend) \o @]
    /\ UNCHANGED <<engineVars, audio_sent, pageVars, timeouts, errors>>

\* The answer is late: what the engine took from its buffer for it is gone.
FramesTimeout(v) ==
    /\ timeouts + errors < MaxFaults /\ timeouts' = timeouts + 1
    /\ bridge[v] \in {"polling", "drained"} /\ Goto(v, "sending")
    /\ frames' = [frames EXCEPT ![v] = <<>>]
    /\ UNCHANGED <<engineVars, audio_sent, pageVars, errors>>

\* Seeded fault: the first round counts as the one that brought the audio.
Sent_AtOnce(v, audio_frames) == TRUE

Sent(v, audio_frames) == audio_sent[v] \/ audio_frames

\* What came goes to the socket, the pictures first; a socket that is closed takes
\* nothing, and nothing is kept for another one.  Sending waits for a socket that has
\* too much under way.
Send(v, audio_frames) ==
    /\ Len(channel[v]) <= MaxBacklog /\ Goto(v, "polling")
    /\ channel' = [channel EXCEPT ![v] =
            IF page[v] # "open" THEN @
            ELSE @ \o frames[v] \o (IF audio_frames THEN <<Audio(AudioStream, audio)>> ELSE <<>>)]
    /\ audio_sent' = [audio_sent EXCEPT ![v] = Sent(v, audio_frames)]
    /\ frames' = [frames EXCEPT ![v] = <<>>]
    /\ UNCHANGED <<engineVars, page, decoderVars, heard, errors>>

\* The audio, as long as it was not sent, is asked for first: all there is by then.
Forward(v) ==
    /\ At(v, "sending") /\ Send(v, audio > 0 /\ ~audio_sent[v]) /\ UNCHANGED timeouts

AudioTimeout(v) ==
    /\ timeouts + errors < MaxFaults /\ timeouts' = timeouts + 1
    /\ At(v, "sending") /\ ~audio_sent[v] /\ Send(v, FALSE)

Disconnect(v) ==
    /\ At(v, "polling") /\ page[v] = "closed" /\ Goto(v, "over")
    /\ UNCHANGED <<engineVars, frames, audio_sent, pageVars, timeouts, errors>>

-----------------------------------------------------------------------------
(* useStream                                                               *)

\* Seeded fault: pictures that wait to be drawn survive their decoder.
CloseDecoder_KeepsQueue(v) ==
    /\ needKey' = [needKey EXCEPT ![v] = TRUE] /\ highest' = [highest EXCEPT ![v] = Nothing]
    /\ decoding' = [decoding EXCEPT ![v] = <<>>] /\ painted' = [painted EXCEPT ![v] = FALSE]
    /\ decoded' = [decoded EXCEPT ![v] = {}]
    /\ UNCHANGED <<renderQueue, drawn>>

\* What is on the canvas stays there.
CloseDecoder(v) ==
    /\ needKey' = [needKey EXCEPT ![v] = TRUE] /\ highest' = [highest EXCEPT ![v] = Nothing]
    /\ decoding' = [decoding EXCEPT ![v] = <<>>] /\ painted' = [painted EXCEPT ![v] = FALSE]
    /\ decoded' = [decoded EXCEPT ![v] = {}]
    /\ renderQueue' = [renderQueue EXCEPT ![v] = <<>>]
    /\ UNCHANGED drawn

\* ensureDecoder: a new one, unless one is configured already.
OnParams(v) ==
    /\ configured' = [configured EXCEPT ![v] = TRUE]
    /\ IF configured[v]
       THEN UNCHANGED <<needKey, highest, decoding, renderQueue, drawn, painted, decoded>>
       ELSE CloseDecoder(v)
    /\ UNCHANGED <<heard>>

\* A picture that is not to be decoded.
Skip(v) ==
    UNCHANGED <<configured, highest, decoding, renderQueue, drawn, painted, decoded, heard>>

NotConfigured(v) ==
    ~configured[v] /\ Skip(v) /\ UNCHANGED needKey

WaitForKey(v, nal) ==
    /\ configured[v] /\ needKey[v] /\ ~IsKey(nal)
    /\ Skip(v) /\ UNCHANGED needKey

Wanted(v, nal) == configured[v] /\ (needKey[v] => IsKey(nal))

StaleResend(v, nal) ==
    /\ Wanted(v, nal) /\ nal.pts <= highest[v]
    /\ Skip(v) /\ UNCHANGED needKey

Gap(v, nal) ==
    ~IsKey(nal) /\ highest[v] # Nothing /\ nal.pts - highest[v] > kMaxDecodeGap

Discontinuity(v, nal) ==
    /\ Wanted(v, nal) /\ nal.pts > highest[v] /\ Gap(v, nal)
    /\ needKey' = [needKey EXCEPT ![v] = TRUE]
    /\ Skip(v)

\* Seeded fault: any picture will do that is newer than the last one.
Decode_AnyGap(v, nal) ==
    /\ Wanted(v, nal) /\ nal.pts > highest[v]
    /\ needKey' = [needKey EXCEPT ![v] = @ /\ ~IsKey(nal)]
    /\ highest' = [highest EXCEPT ![v] = nal.pts]
    /\ decoding' = [decoding EXCEPT ![v] = Append(@, nal.pts)]
    /\ decoded' = [decoded EXCEPT ![v] = @ \cup {nal}]
    /\ UNCHANGED <<configured, renderQueue, drawn, painted, heard>>

Decode(v, nal) ==
    /\ Wanted(v, nal) /\ nal.pts > highest[v] /\ ~Gap(v, nal)
    /\ needKey' = [needKey EXCEPT ![v] = @ /\ ~IsKey(nal)]
    /\ highest' = [highest EXCEPT ![v] = nal.pts]
    /\ decoding' = [decoding EXCEPT ![v] = Append(@, nal.pts)]
    /\ decoded' = [decoded EXCEPT ![v] = @ \cup {nal}]
    /\ UNCHANGED <<configured, renderQueue, drawn, painted, heard>>

OnAudio(v) ==
    /\ heard' = [heard EXCEPT ![v] = TRUE]
    /\ UNCHANGED decoderVars

\* onmessage
OnMessage(v) ==
    /\ channel[v] # <<>> /\ channel' = [channel EXCEPT ![v] = Tail(@)]
    /\ LET nal == Head(channel[v])
       IN  \/ nal.kind = "params" /\ OnParams(v)
           \/ nal.kind = "audio" /\ OnAudio(v)
           \/ /\ nal.kind = "frame"
              /\ \/ NotConfigured(v) \/ WaitForKey(v, nal) \/ StaleResend(v, nal)
                 \/ Discontinuity(v, nal) \/ Decode(v, nal)
    /\ UNCHANGED <<engineVars, bridgeVars, page, timeouts, errors>>

\* The decoder puts out the picture it got first.
Output(v) ==
    /\ decoding[v] # <<>> /\ decoding' = [decoding EXCEPT ![v] = Tail(@)]
    /\ renderQueue' = [renderQueue EXCEPT ![v] = Append(@, Head(decoding[v]))]
    /\ UNCHANGED <<engineVars, bridgeVars, page, channel, configured, needKey, highest, drawn,
                   painted, decoded, heard, timeouts, errors>>

DecoderError(v) ==
    /\ timeouts + errors < MaxFaults /\ errors' = errors + 1
    /\ configured[v] /\ configured' = [configured EXCEPT ![v] = FALSE]
    /\ CloseDecoder(v)
    /\ UNCHANGED <<engineVars, bridgeVars, page, channel, heard, timeouts>>

\* renderLoop: of a queue that is too long the oldest go; of the pictures that are
\* due, the last is drawn and those before it are closed.
RenderLoop(v) ==
    LET surplus == IF Len(renderQueue[v]) > kMaxQueuedFrames
                   THEN Len(renderQueue[v]) - kMaxQueuedFrames ELSE 0
    IN  /\ renderQueue[v] # <<>>
        /\ \E due \in surplus .. Len(renderQueue[v]) :
            /\ renderQueue' = [renderQueue EXCEPT ![v] = SubSeq(@, due + 1, Len(@))]
            /\ drawn' = [drawn EXCEPT ![v] = IF due > surplus THEN renderQueue[v][due] ELSE @]
            /\ painted' = [painted EXCEPT ![v] = @ \/ due > surplus]
        /\ UNCHANGED <<engineVars, bridgeVars, page, channel, configured, needKey, highest,
                       decoding, decoded, heard, timeouts, errors>>

\* The cleanup of the effect.
Close(v) ==
    /\ page[v] = "open" /\ page' = [page EXCEPT ![v] = "closed"]
    /\ channel' = [channel EXCEPT ![v] = <<>>]
    /\ configured' = [configured EXCEPT ![v] = FALSE] /\ CloseDecoder(v)
    /\ UNCHANGED <<engineVars, bridgeVars, heard, timeouts, errors>>

-----------------------------------------------------------------------------

Round(v) ==
    \/ Drain(v) \/ Prepend(v) \/ FramesTimeout(v) \/ Forward(v) \/ AudioTimeout(v)
    \/ Disconnect(v)

Next ==
    \/ DropAudio \/ LoadAudio \/ StartStream \/ ClearCaches \/ DropFrames
    \/ CaptureParams \/ Capture
    \/ \E v \in Viewers :
        \/ Open(v) \/ Round(v) \/ OnMessage(v) \/ Output(v) \/ DecoderError(v)
        \/ RenderLoop(v) \/ Close(v)

Spec == Init /\ [][Next]_vars

-----------------------------------------------------------------------------

Nals == {Frame(s, n) : s \in 1 .. MaxStreams, n \in 0 .. NumFrames - 1}
            \cup {Params(s) : s \in 1 .. MaxStreams}
Audios == UNION {{Audio(s, n) : n \in 1 .. AudioChunks[s]} : s \in 1 .. MaxStreams}
Messages == Nals \cup Audios
Times == Nothing .. NumFrames - 1

TypeOK ==
    /\ stream \in 0 .. MaxStreams /\ request \in {"none", "emptied", "installed", "cleared"}
    /\ next_frame \in Nothing .. NumFrames
    /\ cached_params \in 0 .. MaxStreams /\ cached_keyframe \in Nals \cup {NoFrame}
    /\ audio \in 0 .. (IF AudioStream = 0 THEN 0 ELSE AudioChunks[AudioStream])
    /\ buffer \in Seq(Nals) /\ Len(buffer) <= max_frames
    /\ bridge \in [Viewers -> {"idle", "polling", "drained", "sending", "over"}]
    /\ frames \in [Viewers -> Seq(Nals)]
    /\ audio_sent \in [Viewers -> BOOLEAN] /\ page \in [Viewers -> {"new", "open", "closed"}]
    /\ channel \in [Viewers -> Seq(Messages)]
    /\ configured \in [Viewers -> BOOLEAN] /\ needKey \in [Viewers -> BOOLEAN]
    /\ highest \in [Viewers -> Times] /\ decoding \in [Viewers -> Seq(Times \ {Nothing})]
    /\ renderQueue \in [Viewers -> Seq(Times \ {Nothing})] /\ drawn \in [Viewers -> Times]
    /\ decoded \in [Viewers -> SUBSET Nals]
    /\ painted \in [Viewers -> BOOLEAN] /\ heard \in [Viewers -> BOOLEAN]
    /\ timeouts \in Nat /\ errors \in Nat /\ timeouts + errors <= MaxFaults

\* The last picture this decoder's output drew, if any.
Shown(v) == IF painted[v] THEN drawn[v] ELSE Nothing

\* What a decoder's output drew, what waits to be drawn and what is being decoded are
\* in the order of their times, whatever was resent or lost in between; and as long as
\* no decoder has failed the picture on the canvas is this decoder's, so that the
\* canvas never goes back (useStream.ts:247-330, 512-542).  After an error it may: the
\* next decoder begins with a keyframe resent, which may be older than what was drawn.
PipelineOrdered ==
    \A v \in Viewers :
        LET pictures == (IF Shown(v) = Nothing THEN <<>> ELSE <<Shown(v)>>)
                            \o renderQueue[v] \o decoding[v]
        IN  /\ \A i \in 1 .. Len(pictures) - 1 : pictures[i] < pictures[i + 1]
            /\ pictures # <<>> => pictures[Len(pictures)] <= highest[v]
            /\ errors = 0 /\ page[v] = "open" => Shown(v) = drawn[v]

OneStream(pictures) == \A a, b \in pictures : a.stream = b.stream

\* As long as a decoder is given pictures of one stream only, it begins with a keyframe,
\* and no picture that needs another reaches it more than the tolerated gap behind one
\* it has (useStream.ts:512-532).  Nothing is promised to a decoder that is kept over a
\* change of streams: it may get pictures whose keyframe was dropped as stale.
Referenced ==
    \A v \in Viewers : OneStream(decoded[v]) => \A nal \in decoded[v] :
        \/ IsKey(nal)
        \/ \E earlier \in decoded[v] :
            /\ earlier.stream = nal.stream
            /\ earlier.pts < nal.pts /\ nal.pts - earlier.pts <= kMaxDecodeGap

\* Who joins in the middle of the first stream has a decoder when the first picture
\* comes, whichever rounds were lost: SPS and PPS come with every batch, as long as
\* the cache has them (transport.cpp:510-532; ParamsKept of AdminStreams is about how
\* it may lose them).
NeverBlind ==
    \A v \in Viewers :
        channel[v] # <<>> /\ Head(channel[v]).kind = "frame" /\ stream = 1 /\ cached_params = 1
            /\ errors = 0 => configured[v]

\* The bridge stops asking for audio only when some is on its way to the dashboard,
\* whichever requests time out and however late the engine has it: nobody would send
\* it again (websocket_bridge.py:178-181, 206, 233-248).  Whether it is all of it is
\* another question: a bridge that asks between two chunks gets the part there is.
AudioArrives ==
    \A v \in Viewers :
        audio_sent[v] =>
            \/ heard[v] \/ page[v] = "closed"
            \/ \E message \in Range(channel[v]) : message.kind = "audio"
=============================================================================
