----------------------------- MODULE ViewerProofs -----------------------------
(***************************************************************************)
(* Theorems about Viewer, for any number of dashboards, streams, pictures  *)
(* and keyframes, and buffers and queues of any size.                      *)
(***************************************************************************)
EXTENDS Viewer, SequenceTheorems, TLAPS

\* The kinds and times of NAL units, and audio is none.
LEMMA NalFacts ==
    /\ \A nal \in Nals : nal.kind \in {"frame", "params"} /\ nal.pts \in 0 .. NumFrames - 1
    /\ \A s \in 1 .. MaxStreams : Params(s) \in Nals
    /\ \A s \in 1 .. MaxStreams, n \in 0 .. NumFrames - 1 : Frame(s, n) \in Nals
    /\ \A s, n : Frame(s, n).kind = "frame" /\ Params(s).kind = "params"
    /\ \A m \in Audios : m.kind = "audio" /\ m \notin Nals
    /\ \A s \in 1 .. MaxStreams : \A n \in 1 .. AudioChunks[s] : Audio(s, n) \in Audios
    /\ Nals \subseteq Messages /\ Audios \subseteq Messages
    /\ \A m \in Messages : m \in Nals \/ m \in Audios
<1>1. \A s, n : /\ Frame(s, n).kind = "frame" /\ Frame(s, n).pts = n
                /\ Params(s).kind = "params" /\ Params(s).pts = 0
  BY DEF Frame, Params
<1>2. 0 \in 0 .. NumFrames - 1
  BY FramesAssumption
<1>3. \A nal \in Nals : nal.kind \in {"frame", "params"} /\ nal.pts \in 0 .. NumFrames - 1
  BY <1>1, <1>2 DEF Nals
<1>4. \A m \in Audios : m.kind = "audio"
  BY DEF Audios, Audio
<1>5. /\ \A s \in 1 .. MaxStreams : Params(s) \in Nals
      /\ \A s \in 1 .. MaxStreams, n \in 0 .. NumFrames - 1 : Frame(s, n) \in Nals
  BY DEF Nals
<1>6. \A s \in 1 .. MaxStreams : \A n \in 1 .. AudioChunks[s] : Audio(s, n) \in Audios
  BY DEF Audios
<1>7. \A m \in Audios : m \notin Nals
  BY <1>3, <1>4
<1> QED BY <1>1, <1>3, <1>4, <1>5, <1>6, <1>7 DEF Messages

-----------------------------------------------------------------------------
(* Types *)

TypeInv ==
    /\ TypeOK
    /\ request = "emptied" => stream < MaxStreams
    /\ next_frame # Nothing => stream > 0

\* The frame buffer stays within its capacity.
LEMMA PushedEffect ==
    ASSUME TypeOK, NEW nal \in Nals
    PROVE  /\ Pushed(nal) \in Seq(Nals) /\ Len(Pushed(nal)) <= max_frames
           /\ Pushed(nal) # <<>>
<1> DEFINE kept == IF Len(buffer) >= max_frames THEN Tail(buffer) ELSE buffer
<1>0. buffer \in Seq(Nals) /\ Len(buffer) <= max_frames /\ max_frames \in Nat \ {0}
  BY LimitsAssumption DEF TypeOK
<1>1. kept \in Seq(Nals) /\ Len(kept) + 1 <= max_frames
  <2>1. CASE Len(buffer) >= max_frames
    <3>1. buffer # <<>>
      BY <1>0, <2>1
    <3> QED BY <1>0, <2>1, <3>1, HeadTailProperties
  <2>2. CASE ~(Len(buffer) >= max_frames)
    BY <1>0, <2>2, LenProperties
  <2> QED BY <2>1, <2>2
<1>2. Pushed(nal) = Append(kept, nal)
  BY DEF Pushed
<1>3. Append(kept, nal) \in Seq(Nals) /\ Len(Append(kept, nal)) = Len(kept) + 1 /\ Len(kept) \in Nat
  BY <1>1
<1>4. Append(kept, nal) # <<>>
  BY <1>3, EmptySeq
<1> QED BY <1>1, <1>2, <1>3, <1>4

\* The steps of the engine.
LEMMA EngineTypeStep ==
    ASSUME TypeInv,
           \/ DropAudio \/ LoadAudio \/ StartStream \/ ClearCaches \/ DropFrames
           \/ CaptureParams \/ Capture
    PROVE  TypeInv'
<1> USE DEF TypeInv, TypeOK, AudioStream
<1>0. MaxStreams \in Nat /\ NumFrames \in Nat \ {0} /\ max_frames \in Nat \ {0} /\ Nothing = -1
  BY FramesAssumption, LimitsAssumption, BoundsAssumption DEF Nothing
<1>1. CASE DropAudio \/ LoadAudio
  <2>1. stream \in 0 .. MaxStreams /\ stream < MaxStreams /\ request' = "emptied" /\ stream' = stream
    BY <1>1 DEF DropAudio, LoadAudio
  <2>2. stream + 1 # 0 /\ AudioChunks[stream + 1] \in Nat
    BY <1>0, <2>1, AudioAssumption
  <2>3. audio' = 0 \/ (request = "emptied" /\ audio < AudioChunks[stream + 1] /\ audio' = audio + 1)
    BY <1>1 DEF DropAudio, LoadAudio
  <2>4. audio' \in 0 .. AudioChunks[stream + 1]
    BY <2>2, <2>3
  <2> QED BY <1>1, <2>1, <2>2, <2>4 DEF DropAudio, LoadAudio, bridgeVars, pageVars, decoderVars
<1>2. CASE StartStream
  BY <1>0, <1>2 DEF StartStream, bridgeVars, pageVars, decoderVars
<1>3. CASE ClearCaches
  BY <1>0, <1>3 DEF ClearCaches, bridgeVars, pageVars, decoderVars
<1>4. CASE DropFrames
  <2>1. buffer' \in Seq(Nals) /\ Len(buffer') <= max_frames
    BY <1>0, <1>4, EmptySeq DEF DropFrames
  <2> QED BY <1>4, <2>1 DEF DropFrames, bridgeVars, pageVars, decoderVars
<1>5. CASE CaptureParams
  <2>1. stream \in 1 .. MaxStreams /\ Params(stream) \in Nals
    BY <1>0, <1>5, NalFacts DEF CaptureParams
  <2>2. buffer' \in Seq(Nals) /\ Len(buffer') <= max_frames
    BY <1>5, <2>1, PushedEffect DEF CaptureParams
  <2>3. next_frame' \in Nothing .. NumFrames /\ cached_params' \in 0 .. MaxStreams /\ stream > 0
    BY <1>0, <1>5, <2>1 DEF CaptureParams
  <2> QED BY <1>5, <2>2, <2>3 DEF CaptureParams, bridgeVars, pageVars, decoderVars
<1>6. CASE Capture
  <2>1. stream > 0 /\ next_frame \in 0 .. NumFrames - 1
    BY <1>0, <1>6 DEF Capture
  <2>2. Frame(stream, next_frame) \in Nals
    BY <1>0, <2>1, NalFacts
  <2>3. buffer' \in Seq(Nals) /\ Len(buffer') <= max_frames
    BY <1>6, <2>2, PushedEffect DEF Capture
  <2>4. cached_keyframe' \in Nals \cup {NoFrame}
    BY <1>6, <2>2 DEF Capture
  <2>5. next_frame' \in Nothing .. NumFrames
    BY <1>0, <1>6, <2>1 DEF Capture
  <2> QED BY <1>6, <2>1, <2>3, <2>4, <2>5 DEF Capture, bridgeVars, pageVars, decoderVars
<1> QED BY <1>1, <1>2, <1>3, <1>4, <1>5, <1>6

\* What a round puts together is of NAL units.
LEMMA PrependedEffect ==
    ASSUME TypeOK, NEW resend \in {FALSE, cached_keyframe # NoFrame}
    PROVE  /\ Prepended(resend) \in Seq(Nals)
           /\ cached_params # 0 => Len(Prepended(resend)) >= 1 /\ Prepended(resend)[1].kind = "params"
<1> DEFINE first == IF cached_params = 0 THEN <<>> ELSE <<Params(cached_params)>>
           second == IF resend THEN <<cached_keyframe>> ELSE <<>>
<1>1. first \in Seq(Nals) /\ (cached_params # 0 => Len(first) = 1 /\ first[1].kind = "params")
  <2>1. CASE cached_params = 0
    BY <2>1, EmptySeq
  <2>2. CASE cached_params # 0
    <3>1. Params(cached_params) \in Nals
      BY <2>2, NalFacts, BoundsAssumption DEF TypeOK
    <3> QED BY <2>2, <3>1, NalFacts
  <2> QED BY <2>1, <2>2
<1>2. second \in Seq(Nals)
  <2>1. CASE resend
    <3>1. cached_keyframe \in Nals
      BY <2>1 DEF TypeOK
    <3> QED BY <2>1, <3>1
  <2> QED BY <2>1, EmptySeq
<1>3. Prepended(resend) = first \o second
  BY DEF Prepended
<1> HIDE DEF first, second
<1>4. /\ first \o second \in Seq(Nals) /\ Len(first \o second) = Len(first) + Len(second)
      /\ Len(first) \in Nat /\ Len(second) \in Nat
      /\ \A i \in 1 .. Len(first) + Len(second) :
            (first \o second)[i] = IF i <= Len(first) THEN first[i] ELSE second[i - Len(first)]
  BY <1>1, <1>2, ConcatProperties, LenProperties
<1>5. ASSUME cached_params # 0 PROVE Len(first \o second) >= 1 /\ (first \o second)[1] = first[1]
  <2>1. Len(first) = 1
    BY <1>1, <1>5
  <2>2. 1 \in 1 .. Len(first) + Len(second) /\ 1 <= Len(first) /\ Len(first) + Len(second) >= 1
    BY <1>4, <2>1
  <2> QED BY <1>4, <2>2
<1> QED BY <1>1, <1>3, <1>4, <1>5

\* The audio buffer holds audio of a stream, and no more than that has.
LEMMA AudioOfStream ==
    ASSUME TypeInv, audio > 0
    PROVE  Audio(AudioStream, audio) \in Audios
<1>1. AudioStream \in 0 .. MaxStreams /\ AudioStream # 0 /\ MaxStreams \in Nat
  BY BoundsAssumption DEF TypeInv, TypeOK, AudioStream
<1>2. AudioStream \in 1 .. MaxStreams /\ audio \in 1 .. AudioChunks[AudioStream]
  BY <1>1, AudioAssumption DEF TypeInv, TypeOK
<1> QED BY <1>2, NalFacts

\* The steps of a bridge.
LEMMA RoundTypeStep ==
    ASSUME TypeInv, NEW v \in Viewers, Open(v) \/ Round(v)
    PROVE  TypeInv'
<1> USE DEF TypeInv, TypeOK, AudioStream
<1>0. MaxFaults \in Nat
  BY BoundsAssumption
<1>1. CASE Open(v)
  BY <1>1 DEF Open, Goto, engineVars, decoderVars
<1>2. CASE Drain(v)
  <2>1. buffer' \in Seq(Nals) /\ Len(buffer') <= max_frames
    BY <1>2, EmptySeq, LimitsAssumption DEF Drain
  <2> QED BY <1>2, <2>1 DEF Drain, Goto, pageVars, decoderVars
<1>3. CASE Prepend(v)
  <2>1. PICK resend \in {FALSE, cached_keyframe # NoFrame} :
            frames' = [frames EXCEPT ![v] = IF @ = <<>> THEN @ ELSE Prepended(resend) \o @]
    BY <1>3 DEF Prepend
  <2>2. Prepended(resend) \in Seq(Nals) /\ frames[v] \in Seq(Nals)
    BY PrependedEffect
  <2>3. Prepended(resend) \o frames[v] \in Seq(Nals)
    BY <2>2, ConcatProperties
  <2>4. frames' \in [Viewers -> Seq(Nals)]
    BY <2>1, <2>2, <2>3
  <2> QED BY <1>3, <2>4 DEF Prepend, Goto, engineVars, pageVars, decoderVars
<1>4. CASE FramesTimeout(v)
  <2>1. frames' \in [Viewers -> Seq(Nals)]
    BY <1>4, EmptySeq DEF FramesTimeout
  <2> QED BY <1>0, <1>4, <2>1 DEF FramesTimeout, Goto, engineVars, pageVars, decoderVars
<1>5. ASSUME NEW audio_frames \in BOOLEAN, Send(v, audio_frames), audio_frames => audio > 0
      PROVE  /\ channel' \in [Viewers -> Seq(Messages)] /\ frames' \in [Viewers -> Seq(Nals)]
             /\ audio_sent' \in [Viewers -> BOOLEAN]
             /\ bridge' \in [Viewers -> {"idle", "polling", "drained", "sending", "over"}]
             /\ UNCHANGED <<engineVars, page, decoderVars, heard, errors>>
  <2> DEFINE more == IF audio_frames THEN <<Audio(AudioStream, audio)>> ELSE <<>>
  <2>1. channel[v] \in Seq(Messages) /\ frames[v] \in Seq(Messages)
    BY NalFacts, SeqMonotonic
  <2>2. more \in Seq(Messages)
    <3>1. audio_frames => Audio(AudioStream, audio) \in Messages
      BY <1>5, AudioOfStream, NalFacts
    <3> QED BY <3>1, EmptySeq
  <2>3. channel[v] \o frames[v] \o more \in Seq(Messages)
    BY <2>1, <2>2, ConcatProperties
  <2>4. channel' \in [Viewers -> Seq(Messages)]
    BY <1>5, <2>1, <2>3 DEF Send
  <2>5. frames' \in [Viewers -> Seq(Nals)]
    BY <1>5, EmptySeq DEF Send
  <2>6. audio_sent' \in [Viewers -> BOOLEAN]
    BY <1>5 DEF Send, Sent
  <2>7. bridge' \in [Viewers -> {"idle", "polling", "drained", "sending", "over"}]
    BY <1>5 DEF Send, Goto
  <2> QED BY <1>5, <2>4, <2>5, <2>6, <2>7 DEF Send
<1>6. CASE Forward(v)
  <2>1. (audio > 0 /\ ~audio_sent[v]) \in BOOLEAN
    OBVIOUS
  <2>2. Send(v, audio > 0 /\ ~audio_sent[v]) /\ timeouts' = timeouts
    BY <1>6 DEF Forward
  <2> QED BY <1>5, <2>1, <2>2 DEF engineVars, decoderVars
<1>7. CASE AudioTimeout(v)
  <2>1. Send(v, FALSE) /\ timeouts' = timeouts + 1 /\ timeouts + errors < MaxFaults
    BY <1>7 DEF AudioTimeout
  <2>2. errors' = errors
    BY <2>1 DEF Send
  <2>3. timeouts' \in Nat /\ timeouts' + errors' <= MaxFaults
    BY <1>0, <2>1, <2>2
  <2> QED BY <1>5, <2>1, <2>2, <2>3 DEF engineVars, decoderVars
<1>8. CASE Disconnect(v)
  BY <1>8 DEF Disconnect, Goto, engineVars, pageVars, decoderVars
<1> QED BY <1>1, <1>2, <1>3, <1>4, <1>6, <1>7, <1>8 DEF Round

\* The message that arrives.
LEMMA MessageFacts ==
    ASSUME TypeOK, NEW v \in Viewers, channel[v] # <<>>
    PROVE  /\ Tail(channel[v]) \in Seq(Messages)
           /\ Head(channel[v]) \in Messages
           /\ Head(channel[v]).kind # "audio"
                => Head(channel[v]) \in Nals /\ Head(channel[v]).pts \in 0 .. NumFrames - 1
           /\ Head(channel[v]).kind = "audio" => Head(channel[v]) \in Audios
<1>1. channel[v] \in Seq(Messages)
  BY DEF TypeOK
<1>2. Tail(channel[v]) \in Seq(Messages) /\ Head(channel[v]) \in Messages
  BY <1>1, HeadTailProperties
<1> QED BY <1>2, NalFacts

\* Nothing is in a sequence but its head and what its tail has.
LEMMA HeadAndTail ==
    ASSUME NEW S, NEW s \in Seq(S), s # <<>>
    PROVE  Range(s) \subseteq {Head(s)} \cup Range(Tail(s))
<1>1. /\ Tail(s) \in Seq(S) /\ Len(Tail(s)) = Len(s) - 1 /\ Head(s) = s[1]
      /\ \A i \in 1 .. Len(Tail(s)) : Tail(s)[i] = s[i + 1]
  BY HeadTailProperties
<1>2. Len(s) \in Nat \ {0} /\ DOMAIN s = 1 .. Len(s) /\ DOMAIN Tail(s) = 1 .. Len(s) - 1
  BY <1>1, LenProperties, EmptySeq
<1>3. \A i \in 1 .. Len(s) : i = 1 \/ (i - 1 \in 1 .. Len(s) - 1 /\ Tail(s)[i - 1] = s[i])
  BY <1>1, <1>2
<1>4. \A i \in DOMAIN s : s[i] = Head(s) \/ \E j \in DOMAIN Tail(s) : s[i] = Tail(s)[j]
  BY <1>1, <1>2, <1>3
<1> QED BY <1>4 DEF Range

\* The variables of a dashboard have their types.
PageType ==
    /\ configured \in [Viewers -> BOOLEAN] /\ needKey \in [Viewers -> BOOLEAN]
    /\ highest \in [Viewers -> Times] /\ decoding \in [Viewers -> Seq(Times \ {Nothing})]
    /\ renderQueue \in [Viewers -> Seq(Times \ {Nothing})] /\ drawn \in [Viewers -> Times]
    /\ decoded \in [Viewers -> SUBSET Nals] /\ heard \in [Viewers -> BOOLEAN]
    /\ painted \in [Viewers -> BOOLEAN]

\* Times are those of pictures, and one before them all.
LEMMA TimeFacts ==
    /\ Nothing = -1 /\ Nothing \in Times /\ Times \ {Nothing} = 0 .. NumFrames - 1
    /\ NumFrames \in Nat \ {0}
  BY FramesAssumption DEF Nothing, Times

\* A decoder that is closed leaves nothing behind.
LEMMA CloseDecoderType ==
    ASSUME PageType, NEW v \in Viewers, CloseDecoder(v)
    PROVE  /\ needKey' \in [Viewers -> BOOLEAN] /\ highest' \in [Viewers -> Times]
           /\ decoding' \in [Viewers -> Seq(Times \ {Nothing})]
           /\ renderQueue' \in [Viewers -> Seq(Times \ {Nothing})] /\ drawn' \in [Viewers -> Times]
           /\ decoded' \in [Viewers -> SUBSET Nals] /\ painted' \in [Viewers -> BOOLEAN]
<1>1. <<>> \in Seq(Times \ {Nothing})
  BY EmptySeq
<1> QED BY <1>1, TimeFacts DEF PageType, CloseDecoder

\* What is drawn is the last of the pictures taken from the render queue, if any.
LEMMA RenderEffect ==
    ASSUME TypeOK, NEW v \in Viewers, RenderLoop(v)
    PROVE  \E due \in 0 .. Len(renderQueue[v]) :
            /\ renderQueue' = [renderQueue EXCEPT ![v] =
                                    SubSeq(renderQueue[v], due + 1, Len(renderQueue[v]))]
            /\ \/ drawn' = drawn /\ painted' = painted
               \/ /\ due >= 1 /\ drawn' = [drawn EXCEPT ![v] = renderQueue[v][due]]
                  /\ painted' = [painted EXCEPT ![v] = TRUE]
<1> DEFINE queue == renderQueue[v]
           surplus == IF Len(queue) > kMaxQueuedFrames THEN Len(queue) - kMaxQueuedFrames ELSE 0
<1>1. queue \in Seq(Times \ {Nothing}) /\ Len(queue) \in Nat /\ drawn \in [Viewers -> Times]
      /\ painted \in [Viewers -> BOOLEAN]
  BY LenProperties DEF TypeOK
<1>2. surplus \in Nat
  BY <1>1, LimitsAssumption
<1>3. PICK due \in surplus .. Len(queue) :
        /\ renderQueue' = [renderQueue EXCEPT ![v] = SubSeq(@, due + 1, Len(@))]
        /\ drawn' = [drawn EXCEPT ![v] = IF due > surplus THEN queue[due] ELSE @]
        /\ painted' = [painted EXCEPT ![v] = @ \/ due > surplus]
  BY DEF RenderLoop
<1> HIDE DEF surplus
<1>4. due \in 0 .. Len(queue) /\ (due > surplus => due >= 1)
  BY <1>1, <1>2
<1>5. CASE due > surplus
  BY <1>3, <1>4, <1>5
<1>6. CASE ~(due > surplus)
  BY <1>1, <1>3, <1>4, <1>6
<1> QED BY <1>5, <1>6

\* The steps of a dashboard.
LEMMA PageTypeStep ==
    ASSUME TypeInv, NEW v \in Viewers,
           OnMessage(v) \/ Output(v) \/ DecoderError(v) \/ RenderLoop(v) \/ Close(v)
    PROVE  TypeInv'
<1>0. TypeOK /\ PageType /\ channel \in [Viewers -> Seq(Messages)]
  BY DEF TypeInv, TypeOK, PageType
<1>1. CASE OnMessage(v)
  <2> DEFINE nal == Head(channel[v])
  <2>1. /\ channel[v] # <<>> /\ channel' = [channel EXCEPT ![v] = Tail(@)]
        /\ UNCHANGED <<engineVars, bridgeVars, page, timeouts, errors>>
        /\ \/ nal.kind = "params" /\ OnParams(v)
           \/ nal.kind = "audio" /\ OnAudio(v)
           \/ /\ nal.kind = "frame"
              /\ \/ NotConfigured(v) \/ WaitForKey(v, nal) \/ StaleResend(v, nal)
                 \/ Discontinuity(v, nal) \/ Decode(v, nal)
    BY <1>1 DEF OnMessage
  <2>2. channel' \in [Viewers -> Seq(Messages)]
    BY <1>0, <2>1, MessageFacts
  <2>3. nal.kind = "frame" => nal \in Nals /\ nal.pts \in Times \ {Nothing}
    BY <1>0, <2>1, MessageFacts, TimeFacts
  <2> HIDE DEF nal
  <2>4. PageType'
    <3>1. CASE OnParams(v)
      BY <1>0, <3>1, CloseDecoderType DEF OnParams, PageType
    <3>2. CASE OnAudio(v)
      BY <1>0, <3>2 DEF OnAudio, PageType, decoderVars
    <3>3. CASE NotConfigured(v) \/ WaitForKey(v, nal) \/ StaleResend(v, nal) \/ Discontinuity(v, nal)
      BY <1>0, <3>3 DEF NotConfigured, WaitForKey, StaleResend, Discontinuity, Skip, PageType
    <3>4. ASSUME nal.kind = "frame", Decode(v, nal) PROVE PageType'
      <4>1. decoding[v] \in Seq(Times \ {Nothing}) /\ nal.pts \in Times \ {Nothing} /\ nal \in Nals
        BY <1>0, <2>3, <3>4 DEF PageType
      <4>2. Append(decoding[v], nal.pts) \in Seq(Times \ {Nothing})
        BY <4>1
      <4>3. (needKey[v] /\ ~IsKey(nal)) \in BOOLEAN
        OBVIOUS
      <4>4. /\ decoding' \in [Viewers -> Seq(Times \ {Nothing})] /\ highest' \in [Viewers -> Times]
            /\ decoded' \in [Viewers -> SUBSET Nals]
        BY <1>0, <3>4, <4>1, <4>2 DEF Decode, PageType
      <4>5. needKey' \in [Viewers -> BOOLEAN]
        BY <1>0, <3>4, <4>3 DEF Decode, PageType
      <4> QED BY <1>0, <3>4, <4>4, <4>5 DEF Decode, PageType
    <3> QED BY <2>1, <3>1, <3>2, <3>3, <3>4
  <2> QED BY <2>1, <2>2, <2>4 DEF TypeInv, TypeOK, PageType, engineVars, bridgeVars, AudioStream
<1>2. CASE Output(v)
  <2>1. decoding[v] # <<>> /\ decoding[v] \in Seq(Times \ {Nothing})
        /\ renderQueue[v] \in Seq(Times \ {Nothing})
    BY <1>0, <1>2 DEF Output, PageType
  <2>2. Tail(decoding[v]) \in Seq(Times \ {Nothing}) /\ Head(decoding[v]) \in Times \ {Nothing}
    BY <2>1, HeadTailProperties
  <2>3. Append(renderQueue[v], Head(decoding[v])) \in Seq(Times \ {Nothing})
    BY <2>1, <2>2
  <2>4. /\ decoding' \in [Viewers -> Seq(Times \ {Nothing})]
        /\ renderQueue' \in [Viewers -> Seq(Times \ {Nothing})]
    BY <1>0, <1>2, <2>2, <2>3 DEF Output, PageType
  <2> QED BY <1>2, <2>4 DEF Output, TypeInv, TypeOK, engineVars, bridgeVars, AudioStream
<1>3. CASE DecoderError(v)
  <2>1. errors' = errors + 1 /\ timeouts' = timeouts /\ timeouts + errors < MaxFaults
    BY <1>3 DEF DecoderError
  <2>2. errors' \in Nat /\ timeouts' + errors' <= MaxFaults
    BY <2>1, BoundsAssumption DEF TypeInv, TypeOK
  <2>3. configured' \in [Viewers -> BOOLEAN] /\ CloseDecoder(v)
    BY <1>0, <1>3 DEF DecoderError, PageType
  <2> QED BY <1>0, <1>3, <2>1, <2>2, <2>3, CloseDecoderType
          DEF DecoderError, PageType, TypeInv, TypeOK, engineVars, bridgeVars, AudioStream
<1>4. CASE RenderLoop(v)
  <2> DEFINE queue == renderQueue[v]
  <2>1. queue \in Seq(Times \ {Nothing}) /\ Len(queue) \in Nat
    BY <1>0, LenProperties DEF PageType
  <2>2. PICK due \in 0 .. Len(queue) :
        /\ renderQueue' = [renderQueue EXCEPT ![v] = SubSeq(queue, due + 1, Len(queue))]
        /\ \/ drawn' = drawn /\ painted' = painted
           \/ /\ due >= 1 /\ drawn' = [drawn EXCEPT ![v] = queue[due]]
              /\ painted' = [painted EXCEPT ![v] = TRUE]
    BY <1>0, <1>4, RenderEffect
  <2>3. \A i \in due + 1 .. Len(queue) : queue[i] \in Times \ {Nothing}
    BY <2>1, ElementOfSeq
  <2>4. SubSeq(queue, due + 1, Len(queue)) \in Seq(Times \ {Nothing})
    BY <2>1, <2>3, SubSeqProperties
  <2>5. due >= 1 => queue[due] \in Times
    BY <2>1, ElementOfSeq
  <2>6. /\ renderQueue' \in [Viewers -> Seq(Times \ {Nothing})] /\ drawn' \in [Viewers -> Times]
        /\ painted' \in [Viewers -> BOOLEAN]
    BY <1>0, <2>2, <2>4, <2>5 DEF PageType
  <2> QED BY <1>4, <2>6 DEF RenderLoop, TypeInv, TypeOK, engineVars, bridgeVars, AudioStream
<1>5. CASE Close(v)
  <2>1. channel' \in [Viewers -> Seq(Messages)]
    BY <1>0, <1>5, EmptySeq DEF Close
  <2> QED BY <1>0, <1>5, <2>1, CloseDecoderType
          DEF Close, PageType, TypeInv, TypeOK, engineVars, bridgeVars, AudioStream
<1> QED BY <1>1, <1>2, <1>3, <1>4, <1>5

\* Every step keeps the types.
LEMMA TypeStep ==
    ASSUME TypeInv, [Next]_vars
    PROVE  TypeInv'
<1>1. CASE UNCHANGED vars
  BY <1>1 DEF vars, engineVars, bridgeVars, pageVars, decoderVars, TypeInv, TypeOK, AudioStream
<1> QED BY <1>1, EngineTypeStep, RoundTypeStep, PageTypeStep DEF Next

\* They hold at first.
LEMMA ViewerInit == Init => TypeInv
<1> SUFFICES ASSUME Init PROVE TypeInv
  OBVIOUS
<1>1. /\ buffer \in Seq(Nals) /\ Len(buffer) <= max_frames
      /\ frames \in [Viewers -> Seq(Nals)] /\ channel \in [Viewers -> Seq(Messages)]
      /\ decoding \in [Viewers -> Seq(Times \ {Nothing})]
      /\ renderQueue \in [Viewers -> Seq(Times \ {Nothing})]
  BY EmptySeq, LimitsAssumption DEF Init
<1>2. /\ next_frame \in Nothing .. NumFrames /\ highest \in [Viewers -> Times]
      /\ drawn \in [Viewers -> Times]
  BY TimeFacts DEF Init
<1>3. stream \in 0 .. MaxStreams /\ cached_params \in 0 .. MaxStreams
  BY BoundsAssumption DEF Init
<1>5. audio = 0 /\ AudioStream = 0
  BY DEF Init, AudioStream
<1>4. timeouts \in Nat /\ errors \in Nat /\ timeouts + errors <= MaxFaults
  BY BoundsAssumption DEF Init
<1> QED BY <1>1, <1>2, <1>3, <1>4, <1>5 DEF Init, TypeInv, TypeOK

\* Type correctness: among it, that the frame buffer never outgrows its capacity and
\* only pictures with a time get into the decoder and the render queue
\* (frame_buffer.cpp, useStream.ts:247-330).
THEOREM ViewerTypeCorrect == Spec => []TypeOK
<1>1. TypeInv => TypeOK
  BY DEF TypeInv
<1> QED BY <1>1, ViewerInit, TypeStep, PTL DEF Spec

-----------------------------------------------------------------------------
(* The audio *)

\* The steps of the engine change nothing of a bridge or a dashboard.
LEMMA EngineApart ==
    ASSUME \/ DropAudio \/ LoadAudio \/ StartStream \/ ClearCaches \/ DropFrames
           \/ CaptureParams \/ Capture
    PROVE  UNCHANGED <<bridge, audio_sent, pageVars, timeouts, errors>>
  BY DEF DropAudio, LoadAudio, StartStream, ClearCaches, DropFrames, CaptureParams, Capture, bridgeVars

\* Only a bridge whose dashboard has opened its socket is at work.
AudioInv == AudioArrives /\ \A v \in Viewers : page[v] = "new" => bridge[v] = "idle"

\* What is sent goes behind what is under way.
LEMMA SendEffect ==
    ASSUME TypeInv, NEW v \in Viewers, NEW audio_frames \in BOOLEAN, Send(v, audio_frames),
           audio_frames => audio > 0
    PROVE  /\ \A w \in Viewers : w # v \/ page[v] # "open" => channel'[w] = channel[w]
           /\ page[v] = "open"
                => /\ Range(channel[v]) \cup Range(frames[v]) \subseteq Range(channel'[v])
                   /\ audio_frames => \E m \in Range(channel'[v]) : m \in Audios
                   /\ \E more \in Seq(Audios) : channel'[v] = channel[v] \o frames[v] \o more
<1> DEFINE S == Messages
           audios == Audio(AudioStream, audio)
           more == IF audio_frames THEN <<audios>> ELSE <<>>
<1>1. channel \in [Viewers -> Seq(S)] /\ frames[v] \in Seq(S)
  BY NalFacts, SeqMonotonic DEF TypeInv, TypeOK
<1>2. ASSUME NEW s1 \in Seq(S), NEW s2 \in Seq(S)
      PROVE  s1 \o s2 \in Seq(S) /\ Range(s1 \o s2) = Range(s1) \cup Range(s2)
  <2>1. /\ s1 \o s2 \in Seq(S) /\ Len(s1 \o s2) = Len(s1) + Len(s2)
        /\ \A i \in 1 .. Len(s1) + Len(s2) :
                (s1 \o s2)[i] = IF i <= Len(s1) THEN s1[i] ELSE s2[i - Len(s1)]
    BY ConcatProperties
  <2>2. /\ DOMAIN s1 = 1 .. Len(s1) /\ DOMAIN s2 = 1 .. Len(s2) /\ Len(s1) \in Nat /\ Len(s2) \in Nat
        /\ DOMAIN (s1 \o s2) = 1 .. Len(s1) + Len(s2)
    BY <2>1, LenProperties
  <2>3. Range(s1 \o s2) \subseteq Range(s1) \cup Range(s2)
    <3> SUFFICES ASSUME NEW i \in 1 .. Len(s1) + Len(s2)
                 PROVE  (s1 \o s2)[i] \in Range(s1) \cup Range(s2)
      BY <2>2 DEF Range
    <3>1. CASE i <= Len(s1)
      BY <2>1, <2>2, <3>1 DEF Range
    <3>2. CASE ~(i <= Len(s1))
      <4>1. i - Len(s1) \in 1 .. Len(s2)
        BY <2>2, <3>2
      <4> QED BY <2>1, <2>2, <3>2, <4>1 DEF Range
    <3> QED BY <3>1, <3>2
  <2>4. Range(s1) \subseteq Range(s1 \o s2)
    <3>1. \A i \in 1 .. Len(s1) : i \in 1 .. Len(s1) + Len(s2) /\ (s1 \o s2)[i] = s1[i]
      BY <2>1, <2>2
    <3> QED BY <2>2, <3>1 DEF Range
  <2>5. Range(s2) \subseteq Range(s1 \o s2)
    <3>1. \A i \in 1 .. Len(s2) : /\ i + Len(s1) \in 1 .. Len(s1) + Len(s2)
                                  /\ (s1 \o s2)[i + Len(s1)] = s2[i]
      BY <2>1, <2>2
    <3> QED BY <2>2, <3>1 DEF Range
  <2> QED BY <2>1, <2>3, <2>4, <2>5
<1>3. more \in Seq(Audios) /\ more \in Seq(S) /\ (audio_frames => audios \in Range(more) /\ audios \in Audios)
  <2>0. audio_frames => audios \in Audios
    BY AudioOfStream
  <2> HIDE DEF audios
  <2>1. /\ audio_frames => <<audios>> \in Seq(Audios) /\ <<audios>> \in Seq(S)
        /\ <<>> \in Seq(Audios) /\ <<>> \in Seq(S)
        /\ DOMAIN <<audios>> = 1 .. 1 /\ <<audios>>[1] = audios
    BY <2>0, NalFacts, EmptySeq
  <2>2. audios \in Range(<<audios>>)
    BY <2>1 DEF Range
  <2>3. CASE audio_frames
    BY <2>0, <2>1, <2>2, <2>3
  <2>4. CASE ~audio_frames
    BY <2>1, <2>4
  <2> QED BY <2>3, <2>4
<1>4. channel' = [channel EXCEPT ![v] = IF page[v] # "open" THEN @ ELSE @ \o frames[v] \o more]
  BY DEF Send
<1> HIDE DEF more, audios
<1>5. \A w \in Viewers : w # v \/ page[v] # "open" => channel'[w] = channel[w]
  BY <1>1, <1>4
<1>6. page[v] = "open" => channel'[v] = channel[v] \o frames[v] \o more
  BY <1>1, <1>4
<1>7. ASSUME page[v] = "open"
      PROVE  /\ Range(channel[v]) \cup Range(frames[v]) \subseteq Range(channel'[v])
             /\ audio_frames => \E m \in Range(channel'[v]) : m \in Audios
  <2>1. channel'[v] = (channel[v] \o frames[v]) \o more
    BY <1>1, <1>4, <1>7
  <2>2. channel[v] \o frames[v] \in Seq(S)
        /\ Range(channel[v] \o frames[v]) = Range(channel[v]) \cup Range(frames[v])
    BY <1>1, <1>2
  <2>3. Range(channel'[v]) = Range(channel[v] \o frames[v]) \cup Range(more)
    BY <1>2, <1>3, <2>1, <2>2
  <2> QED BY <1>3, <2>2, <2>3
<1> QED BY <1>3, <1>5, <1>6, <1>7

\* audio_sent is set with the audio in the socket, and taken out with heard set.
LEMMA AudioStep ==
    ASSUME TypeInv, AudioInv, [Next]_vars
    PROVE  AudioInv'
<1> USE DEF AudioInv, AudioArrives
<1>0. /\ TypeOK /\ audio_sent \in [Viewers -> BOOLEAN] /\ heard \in [Viewers -> BOOLEAN]
      /\ page \in [Viewers -> {"new", "open", "closed"}]
      /\ channel \in [Viewers -> Seq(Messages)]
      /\ bridge \in [Viewers -> {"idle", "polling", "drained", "sending", "over"}]
  BY DEF TypeInv, TypeOK
<1>1. CASE \/ DropAudio \/ LoadAudio \/ StartStream \/ ClearCaches \/ DropFrames
           \/ CaptureParams \/ Capture
  BY <1>1, EngineApart DEF pageVars
<1>2. CASE UNCHANGED vars
  BY <1>2 DEF vars, bridgeVars, pageVars
<1>3. ASSUME NEW v \in Viewers, Open(v) PROVE AudioInv'
  BY <1>0, <1>3 DEF Open, Goto
<1>4. ASSUME NEW v \in Viewers, Drain(v) \/ Prepend(v) \/ FramesTimeout(v) \/ Disconnect(v)
      PROVE  AudioInv'
  <2>1. UNCHANGED <<audio_sent, pageVars>> /\ bridge[v] # "idle"
        /\ \A w \in Viewers : w # v => bridge'[w] = bridge[w]
    BY <1>0, <1>4 DEF Drain, Prepend, FramesTimeout, Disconnect, At, Goto
  <2> QED BY <1>0, <2>1 DEF pageVars
<1>5. ASSUME NEW v \in Viewers, Forward(v) \/ AudioTimeout(v) PROVE AudioInv'
  <2>1. PICK audio_frames \in BOOLEAN : Send(v, audio_frames) /\ (audio_frames => audio > 0)
    BY <1>5 DEF Forward, AudioTimeout
  <2>2. bridge[v] = "sending"
    BY <1>5 DEF Forward, AudioTimeout, At
  <2>3. /\ UNCHANGED <<page, heard>> /\ audio_sent' = [audio_sent EXCEPT ![v] = @ \/ audio_frames]
        /\ \A w \in Viewers : w # v => bridge'[w] = bridge[w] /\ audio_sent'[w] = audio_sent[w]
    BY <1>0, <2>1 DEF Send, Sent, Goto
  <2>4. audio_sent'[v] => audio_sent[v] \/ audio_frames
    BY <1>0, <2>3
  <2>5. page[v] = "open" \/ page[v] = "closed"
    BY <1>0, <2>2
  <2>6. \A w \in Viewers : page'[w] = "new" => bridge'[w] = "idle"
    BY <1>0, <2>2, <2>3
  <2>7. \A w \in Viewers : w # v => channel'[w] = channel[w]
    BY <1>0, <2>1, SendEffect
  <2>8. audio_sent'[v] => \/ heard'[v] \/ page'[v] = "closed"
                         \/ \E m \in Range(channel'[v]) : m.kind = "audio"
    BY <1>0, <2>1, <2>3, <2>4, <2>5, SendEffect, NalFacts
  <2> QED BY <2>3, <2>6, <2>7, <2>8
<1>6. ASSUME NEW v \in Viewers, OnMessage(v) PROVE AudioInv'
  <2>1. /\ channel[v] # <<>> /\ channel' = [channel EXCEPT ![v] = Tail(@)]
        /\ UNCHANGED <<bridge, audio_sent, page>>
        /\ heard' = heard \/ heard' = [heard EXCEPT ![v] = TRUE]
        /\ Head(channel[v]).kind = "audio" => heard' = [heard EXCEPT ![v] = TRUE]
    BY <1>6 DEF OnMessage, OnParams, OnAudio, NotConfigured, WaitForKey, StaleResend, Discontinuity,
                Decode, Skip, bridgeVars
  <2>2. Head(channel[v]).kind = "audio" => heard'[v]
    BY <1>0, <2>1
  <2>3. Range(channel[v]) \subseteq {Head(channel[v])} \cup Range(Tail(channel[v]))
    BY <1>0, <2>1, HeadAndTail
  <2>4. \A w \in Viewers : heard[w] => heard'[w]
    BY <1>0, <2>1
  <2>5. /\ channel'[v] = Tail(channel[v])
        /\ \A w \in Viewers : w # v => channel'[w] = channel[w]
    BY <1>0, <2>1
  <2> QED BY <2>1, <2>2, <2>3, <2>4, <2>5
<1>7. ASSUME NEW v \in Viewers, Output(v) \/ DecoderError(v) \/ RenderLoop(v) PROVE AudioInv'
  BY <1>7 DEF Output, DecoderError, RenderLoop, bridgeVars
<1>8. ASSUME NEW v \in Viewers, Close(v) PROVE AudioInv'
  <2>1. /\ page' = [page EXCEPT ![v] = "closed"] /\ channel' = [channel EXCEPT ![v] = <<>>]
        /\ UNCHANGED <<bridge, audio_sent, heard>>
    BY <1>8 DEF Close, bridgeVars
  <2> QED BY <1>0, <2>1
<1> QED BY <1>1, <1>2, <1>3, <1>4, <1>5, <1>6, <1>7, <1>8 DEF Next, Round

\* A bridge stops asking for the audio only when it is on its way to the dashboard
\* (websocket_bridge.py:178-181, 206, 233-248).
THEOREM AudioReaches == Spec => []AudioArrives
<1>1. Init => AudioInv
  BY DEF Init, AudioInv, AudioArrives
<1>2. TypeInv /\ AudioInv /\ [Next]_vars => TypeInv' /\ AudioInv'
  BY TypeStep, AudioStep
<1>3. AudioInv => AudioArrives
  BY DEF AudioInv
<1> QED BY <1>1, <1>2, <1>3, ViewerInit, PTL DEF Spec

-----------------------------------------------------------------------------
(* The decoder *)

pipeVars == <<needKey, highest, decoding, renderQueue, drawn, painted, decoded>>

\* The steps that touch the decoder and what comes out of it.
LEMMA DecoderSteps ==
    ASSUME TypeInv, [Next]_vars
    PROVE  \/ UNCHANGED pipeVars
           \/ \E v \in Viewers :
                \/ CloseDecoder(v)
                \/ \E nal \in Nals : Decode(v, nal)
                \/ /\ needKey' = [needKey EXCEPT ![v] = TRUE]
                   /\ UNCHANGED <<highest, decoding, renderQueue, drawn, painted, decoded>>
                \/ Output(v) \/ RenderLoop(v)
<1>1. CASE \/ DropAudio \/ LoadAudio \/ StartStream \/ ClearCaches \/ DropFrames
           \/ CaptureParams \/ Capture
  BY <1>1, EngineApart DEF pageVars, decoderVars, pipeVars
<1>2. CASE UNCHANGED vars
  BY <1>2 DEF vars, pageVars, decoderVars, pipeVars
<1>3. ASSUME NEW v \in Viewers, Open(v) \/ Round(v) PROVE UNCHANGED pipeVars
  BY <1>3 DEF Open, Round, Drain, Prepend, FramesTimeout, Forward, AudioTimeout, Send, Disconnect,
              pageVars, decoderVars, pipeVars
<1>4. ASSUME NEW v \in Viewers, OnMessage(v)
      PROVE  \/ UNCHANGED pipeVars
             \/ CloseDecoder(v)
             \/ \E nal \in Nals : Decode(v, nal)
             \/ /\ needKey' = [needKey EXCEPT ![v] = TRUE]
                /\ UNCHANGED <<highest, decoding, renderQueue, drawn, painted, decoded>>
  <2> DEFINE nal == Head(channel[v])
  <2>1. nal.kind = "frame" => nal \in Nals
    BY <1>4, MessageFacts DEF OnMessage, TypeInv
  <2>2. \/ OnParams(v) \/ OnAudio(v)
        \/ /\ nal.kind = "frame"
           /\ \/ NotConfigured(v) \/ WaitForKey(v, nal) \/ StaleResend(v, nal)
              \/ Discontinuity(v, nal) \/ Decode(v, nal)
    BY <1>4 DEF OnMessage
  <2> HIDE DEF nal
  <2>3. CASE OnParams(v) \/ OnAudio(v)
    BY <2>3 DEF OnParams, OnAudio, decoderVars, pipeVars
  <2>4. CASE NotConfigured(v) \/ WaitForKey(v, nal) \/ StaleResend(v, nal) \/ Discontinuity(v, nal)
    BY <2>4 DEF NotConfigured, WaitForKey, StaleResend, Discontinuity, Skip, pipeVars
  <2> QED BY <2>1, <2>2, <2>3, <2>4
<1>5. ASSUME NEW v \in Viewers, DecoderError(v) \/ Close(v) PROVE CloseDecoder(v)
  BY <1>5 DEF DecoderError, Close
<1> QED BY <1>1, <1>2, <1>3, <1>4, <1>5 DEF Next

\* A decoder that wants no keyframe has been given a picture, the last one of them at
\* highestDecodedPtsUs; and each is a keyframe or near an earlier one, of whatever stream.
DecoderInv ==
    \A v \in Viewers :
        /\ \A nal \in decoded[v] :
            \/ IsKey(nal)
            \/ \E earlier \in decoded[v] :
                earlier.pts < nal.pts /\ nal.pts - earlier.pts <= kMaxDecodeGap
        /\ needKey[v] \/ highest[v] # Nothing
        /\ highest[v] # Nothing => \E nal \in decoded[v] : nal.pts = highest[v]

\* A picture that is decoded is a keyframe or near the last one that was.
LEMMA DecoderStep ==
    ASSUME TypeInv, DecoderInv, [Next]_vars
    PROVE  DecoderInv'
<1> USE DEF DecoderInv
<1>0. /\ needKey \in [Viewers -> BOOLEAN] /\ highest \in [Viewers -> Times]
      /\ decoded \in [Viewers -> SUBSET Nals]
  BY DEF TypeInv, TypeOK
<1>1. CASE UNCHANGED <<needKey, highest, decoded>>
  BY <1>1
<1>2. ASSUME NEW v \in Viewers, CloseDecoder(v) PROVE DecoderInv'
  BY <1>0, <1>2 DEF CloseDecoder
<1>3. ASSUME NEW v \in Viewers, NEW nal \in Nals, Decode(v, nal) PROVE DecoderInv'
  <2>1. /\ highest' = [highest EXCEPT ![v] = nal.pts] /\ decoded' = [decoded EXCEPT ![v] = @ \cup {nal}]
        /\ nal.pts > highest[v] /\ ~Gap(v, nal) /\ (needKey[v] => IsKey(nal))
        /\ \A w \in Viewers : w # v => needKey'[w] = needKey[w]
    BY <1>0, <1>3 DEF Decode, Wanted
  <2>2. nal.pts \in 0 .. NumFrames - 1 /\ nal.pts # Nothing
    BY NalFacts, TimeFacts
  <2>3. \A w \in Viewers : needKey'[w] \/ highest'[w] # Nothing
    BY <1>0, <2>1, <2>2
  <2>4. \A w \in Viewers : highest'[w] # Nothing => \E e \in decoded'[w] : e.pts = highest'[w]
    BY <1>0, <2>1, <2>2
  <2>5. \/ IsKey(nal)
        \/ \E earlier \in decoded[v] : earlier.pts < nal.pts /\ nal.pts - earlier.pts <= kMaxDecodeGap
    <3> SUFFICES ASSUME ~IsKey(nal)
                 PROVE  \E earlier \in decoded[v] :
                            earlier.pts < nal.pts /\ nal.pts - earlier.pts <= kMaxDecodeGap
      OBVIOUS
    <3>1. highest[v] # Nothing
      BY <1>0, <2>1
    <3>2. PICK earlier \in decoded[v] : earlier.pts = highest[v]
      BY <3>1
    <3>3. ~(nal.pts - highest[v] > kMaxDecodeGap)
      BY <2>1, <3>1 DEF Gap
    <3>4. highest[v] \in Int /\ nal.pts \in Int /\ kMaxDecodeGap \in Int
      BY <1>0, <2>2, TimeFacts, LimitsAssumption DEF Times
    <3>5. earlier.pts < nal.pts /\ nal.pts - earlier.pts <= kMaxDecodeGap
      BY <2>1, <3>2, <3>3, <3>4
    <3> QED BY <3>5
  <2>6. \A w \in Viewers : decoded[w] \subseteq decoded'[w]
        /\ \A e \in decoded'[w] : e \in decoded[w] \/ (w = v /\ e = nal)
    BY <1>0, <2>1
  <2>7. \A w \in Viewers : \A e \in decoded'[w] :
            \/ IsKey(e)
            \/ \E earlier \in decoded'[w] :
                earlier.pts < e.pts /\ e.pts - earlier.pts <= kMaxDecodeGap
    BY <2>5, <2>6
  <2> QED BY <2>3, <2>4, <2>7
<1>4. ASSUME NEW v \in Viewers, needKey' = [needKey EXCEPT ![v] = TRUE], UNCHANGED <<highest, decoded>>
      PROVE  DecoderInv'
  BY <1>0, <1>4
<1>5. ASSUME NEW v \in Viewers, Output(v) \/ RenderLoop(v) PROVE UNCHANGED <<needKey, highest, decoded>>
  BY <1>5 DEF Output, RenderLoop
<1> QED BY <1>1, <1>2, <1>3, <1>4, <1>5, DecoderSteps DEF pipeVars

\* A decoder that is given pictures of one stream only begins with a keyframe, and a
\* picture that needs another is at most the tolerated gap behind one of the same
\* stream that it has (useStream.ts:512-532).
THEOREM DecoderHasReferences == Spec => []Referenced
<1>1. Init => DecoderInv
  BY DEF Init, DecoderInv
<1>2. TypeInv /\ DecoderInv /\ [Next]_vars => TypeInv' /\ DecoderInv'
  BY TypeStep, DecoderStep
<1>3. DecoderInv => Referenced
  BY DEF DecoderInv, Referenced, OneStream
<1> QED BY <1>1, <1>2, <1>3, ViewerInit, PTL DEF Spec

-----------------------------------------------------------------------------
(* The order of the pictures *)

Pictures == Times \ {Nothing}

\* What was drawn, the queue and what is being decoded rise, up to highest at most.
Rising(last, queue, inside, top) ==
    /\ \A i, j \in 1 .. Len(queue) : i < j => queue[i] < queue[j]
    /\ \A i, j \in 1 .. Len(inside) : i < j => inside[i] < inside[j]
    /\ \A i \in 1 .. Len(queue), j \in 1 .. Len(inside) : queue[i] < inside[j]
    /\ \A i \in 1 .. Len(queue) : last < queue[i] /\ queue[i] <= top
    /\ \A j \in 1 .. Len(inside) : last < inside[j] /\ inside[j] <= top
    /\ last <= top

OrderInv ==
    \A v \in Viewers : Rising(Shown(v), renderQueue[v], decoding[v], highest[v])

\* A picture newer than all goes in at the end ...
LEMMA RisingDecode ==
    ASSUME NEW last \in Times, NEW queue \in Seq(Pictures), NEW inside \in Seq(Pictures),
           NEW top \in Times, Rising(last, queue, inside, top),
           NEW n \in Pictures, n > top
    PROVE  Rising(last, queue, Append(inside, n), n)
<1> DEFINE more == Append(inside, n)
<1>0. Times \subseteq Int /\ Pictures \subseteq Int /\ Len(queue) \in Nat /\ Len(inside) \in Nat
  BY TimeFacts, LenProperties DEF Times, Pictures
<1>1. /\ Len(more) = Len(inside) + 1 /\ more[Len(inside) + 1] = n
      /\ \A i \in 1 .. Len(inside) : more[i] = inside[i]
  OBVIOUS
<1>2. \A i \in 1 .. Len(queue) : queue[i] \in Int
  BY <1>0, ElementOfSeq
<1>3. \A i \in 1 .. Len(inside) : inside[i] \in Int
  BY <1>0, ElementOfSeq
<1>4. \A i \in 1 .. Len(more) : i \in 1 .. Len(inside) \/ i = Len(inside) + 1
  BY <1>0, <1>1
<1>5. \A i, j \in 1 .. Len(more) : i < j => more[i] < more[j]
  BY <1>0, <1>1, <1>3, <1>4 DEF Rising
<1>6. \A i \in 1 .. Len(queue), j \in 1 .. Len(more) : queue[i] < more[j]
  BY <1>0, <1>1, <1>2, <1>4 DEF Rising
<1>7. \A j \in 1 .. Len(more) : last < more[j] /\ more[j] <= n
  BY <1>0, <1>1, <1>3, <1>4 DEF Rising
<1>8. last <= n /\ \A i \in 1 .. Len(queue) : last < queue[i] /\ queue[i] <= n
  BY <1>0, <1>2 DEF Rising
<1> QED BY <1>5, <1>6, <1>7, <1>8 DEF Rising

\* ... moves from the decoder to the queue ...
LEMMA RisingOutput ==
    ASSUME NEW last \in Times, NEW queue \in Seq(Pictures), NEW inside \in Seq(Pictures),
           NEW top \in Times, Rising(last, queue, inside, top), inside # <<>>
    PROVE  Rising(last, Append(queue, Head(inside)), Tail(inside), top)
<1> DEFINE more == Append(queue, Head(inside))
           rest == Tail(inside)
<1>0. Times \subseteq Int /\ Pictures \subseteq Int /\ Len(queue) \in Nat /\ Len(inside) \in Nat \ {0}
  BY TimeFacts, LenProperties, EmptySeq DEF Times, Pictures
<1>1. /\ Head(inside) \in Pictures /\ Head(inside) = inside[1] /\ Len(rest) = Len(inside) - 1
      /\ \A i \in 1 .. Len(rest) : rest[i] = inside[i + 1]
  BY HeadTailProperties
<1>2. /\ Len(more) = Len(queue) + 1 /\ more[Len(queue) + 1] = inside[1]
      /\ \A i \in 1 .. Len(queue) : more[i] = queue[i]
  BY <1>1
<1>3. \A i \in 1 .. Len(more) : i \in 1 .. Len(queue) \/ i = Len(queue) + 1
  BY <1>0, <1>2
<1>4. \A i \in 1 .. Len(rest) : i + 1 \in 1 .. Len(inside) /\ 1 < i + 1
  BY <1>0, <1>1
<1>5. 1 \in 1 .. Len(inside)
  BY <1>0
<1>6. \A i, j \in 1 .. Len(more) : i < j => more[i] < more[j]
  BY <1>0, <1>2, <1>3, <1>5 DEF Rising
<1>7. \A i, j \in 1 .. Len(rest) : i < j => rest[i] < rest[j]
  <2> SUFFICES ASSUME NEW i \in 1 .. Len(rest), NEW j \in 1 .. Len(rest), i < j
               PROVE  rest[i] < rest[j]
    OBVIOUS
  <2>1. i + 1 \in 1 .. Len(inside) /\ j + 1 \in 1 .. Len(inside) /\ i + 1 < j + 1
    BY <1>4
  <2> QED BY <1>1, <2>1 DEF Rising
<1>8. \A i \in 1 .. Len(more), j \in 1 .. Len(rest) : more[i] < rest[j]
  BY <1>1, <1>2, <1>3, <1>4, <1>5 DEF Rising
<1>9. \A i \in 1 .. Len(more) : last < more[i] /\ more[i] <= top
  BY <1>2, <1>3, <1>5 DEF Rising
<1>10. \A i \in 1 .. Len(rest) : last < rest[i] /\ rest[i] <= top
  BY <1>1, <1>4 DEF Rising
<1> QED BY <1>6, <1>7, <1>8, <1>9, <1>10 DEF Rising

\* ... and is drawn, or dropped, before those behind it.
LEMMA RisingDraw ==
    ASSUME NEW last \in Times, NEW queue \in Seq(Pictures), NEW inside \in Seq(Pictures),
           NEW top \in Times, Rising(last, queue, inside, top),
           NEW due \in 0 .. Len(queue), NEW next \in Times,
           next = last \/ (due >= 1 /\ next = queue[due])
    PROVE  Rising(next, SubSeq(queue, due + 1, Len(queue)), inside, top)
<1> DEFINE rest == SubSeq(queue, due + 1, Len(queue))
<1>0. Times \subseteq Int /\ Pictures \subseteq Int /\ Len(queue) \in Nat /\ Len(inside) \in Nat
  BY TimeFacts, LenProperties DEF Times, Pictures
<1>1. \A i \in due + 1 .. Len(queue) : queue[i] \in Pictures
  BY <1>0, ElementOfSeq
<1>2. /\ Len(rest) = Len(queue) - due
      /\ \A i \in 1 .. Len(queue) - due : rest[i] = queue[due + i]
  <2>1. /\ Len(rest) = IF due + 1 <= Len(queue) THEN Len(queue) - (due + 1) + 1 ELSE 0
        /\ \A i \in 1 .. Len(queue) - (due + 1) + 1 : rest[i] = queue[(due + 1) + i - 1]
    BY <1>0, <1>1, SubSeqProperties
  <2>2. \A i \in 1 .. Len(queue) - due : (due + 1) + i - 1 = due + i
    BY <1>0
  <2> QED BY <1>0, <2>1, <2>2
<1> HIDE DEF rest
<1>3. \A i \in 1 .. Len(rest) : due + i \in 1 .. Len(queue) /\ due < due + i /\ rest[i] = queue[due + i]
  BY <1>0, <1>2
<1>4. due >= 1 => due \in 1 .. Len(queue)
  BY <1>0
<1>5. \A i, j \in 1 .. Len(rest) : i < j => rest[i] < rest[j]
  <2> SUFFICES ASSUME NEW i \in 1 .. Len(rest), NEW j \in 1 .. Len(rest), i < j
               PROVE  rest[i] < rest[j]
    OBVIOUS
  <2>1. due + i < due + j
    BY <1>0, <1>2
  <2> QED BY <1>3, <2>1 DEF Rising
<1>6. \A i \in 1 .. Len(rest), j \in 1 .. Len(inside) : rest[i] < inside[j]
  BY <1>3 DEF Rising
<1>7. \A i \in 1 .. Len(rest) : next < rest[i] /\ rest[i] <= top
  BY <1>3, <1>4 DEF Rising
<1>8. next <= top /\ \A j \in 1 .. Len(inside) : next < inside[j] /\ inside[j] <= top
  BY <1>4 DEF Rising
<1>9. \A i, j \in 1 .. Len(inside) : i < j => inside[i] < inside[j]
  BY DEF Rising
<1> QED BY <1>5, <1>6, <1>7, <1>8, <1>9 DEF Rising, rest

\* Two rising sequences, one below the other, make one.
LEMMA RisingConcat ==
    ASSUME NEW s1 \in Seq(Pictures), NEW s2 \in Seq(Pictures),
           \A i, j \in 1 .. Len(s1) : i < j => s1[i] < s1[j],
           \A i, j \in 1 .. Len(s2) : i < j => s2[i] < s2[j],
           \A i \in 1 .. Len(s1), j \in 1 .. Len(s2) : s1[i] < s2[j]
    PROVE  /\ s1 \o s2 \in Seq(Pictures)
           /\ \A i, j \in 1 .. Len(s1 \o s2) : i < j => (s1 \o s2)[i] < (s1 \o s2)[j]
           /\ \A k \in 1 .. Len(s1 \o s2) : \/ \E i \in 1 .. Len(s1) : (s1 \o s2)[k] = s1[i]
                                            \/ \E j \in 1 .. Len(s2) : (s1 \o s2)[k] = s2[j]
<1> DEFINE s == s1 \o s2
<1>1. /\ s \in Seq(Pictures) /\ Len(s) = Len(s1) + Len(s2)
      /\ \A i \in 1 .. Len(s1) + Len(s2) : s[i] = IF i <= Len(s1) THEN s1[i] ELSE s2[i - Len(s1)]
  BY ConcatProperties
<1>2. Len(s1) \in Nat /\ Len(s2) \in Nat
  BY LenProperties
<1> HIDE DEF s
<1>3. \A i \in 1 .. Len(s) :
        \/ i \in 1 .. Len(s1) /\ s[i] = s1[i]
        \/ i > Len(s1) /\ i - Len(s1) \in 1 .. Len(s2) /\ s[i] = s2[i - Len(s1)]
  BY <1>1, <1>2
<1>4. ASSUME NEW i \in 1 .. Len(s), NEW j \in 1 .. Len(s), i < j PROVE s[i] < s[j]
  <2>1. CASE j <= Len(s1)
    <3>1. i \in 1 .. Len(s1) /\ j \in 1 .. Len(s1) /\ s[i] = s1[i] /\ s[j] = s1[j]
      BY <1>1, <1>2, <1>4, <2>1
    <3> QED BY <1>4, <3>1
  <2>2. CASE i <= Len(s1) /\ j > Len(s1)
    <3>1. i \in 1 .. Len(s1) /\ j - Len(s1) \in 1 .. Len(s2) /\ s[i] = s1[i] /\ s[j] = s2[j - Len(s1)]
      BY <1>1, <1>2, <1>4, <2>2
    <3> QED BY <3>1
  <2>3. CASE i > Len(s1)
    <3>1. /\ i - Len(s1) \in 1 .. Len(s2) /\ j - Len(s1) \in 1 .. Len(s2) /\ i - Len(s1) < j - Len(s1)
          /\ s[i] = s2[i - Len(s1)] /\ s[j] = s2[j - Len(s1)]
      BY <1>1, <1>2, <1>4, <2>3
    <3> QED BY <3>1
  <2> QED BY <1>2, <2>1, <2>2, <2>3
<1> QED BY <1>1, <1>3, <1>4 DEF s

\* Every step keeps the order.
LEMMA OrderStep ==
    ASSUME TypeInv, OrderInv, [Next]_vars
    PROVE  OrderInv'
<1> USE DEF OrderInv
<1>0. /\ highest \in [Viewers -> Times] /\ decoding \in [Viewers -> Seq(Pictures)]
      /\ renderQueue \in [Viewers -> Seq(Pictures)] /\ drawn \in [Viewers -> Times] /\ TypeOK
      /\ painted \in [Viewers -> BOOLEAN] /\ \A v \in Viewers : Shown(v) \in Times
  BY TimeFacts DEF TypeInv, TypeOK, Pictures, Shown
<1>1. CASE UNCHANGED <<highest, decoding, renderQueue, drawn, painted>>
  BY <1>1 DEF Shown
<1>2. ASSUME NEW v \in Viewers, CloseDecoder(v) PROVE OrderInv'
  <2>1. Rising(Nothing, <<>>, <<>>, Nothing)
    BY TimeFacts DEF Rising
  <2>2. /\ Shown(v)' = Nothing /\ renderQueue'[v] = <<>> /\ decoding'[v] = <<>> /\ highest'[v] = Nothing
        /\ \A w \in Viewers : w # v => /\ Shown(w)' = Shown(w) /\ renderQueue'[w] = renderQueue[w]
                                       /\ decoding'[w] = decoding[w] /\ highest'[w] = highest[w]
    BY <1>0, <1>2 DEF CloseDecoder, Shown
  <2> QED BY <2>1, <2>2
<1>3. ASSUME NEW v \in Viewers, NEW nal \in Nals, Decode(v, nal) PROVE OrderInv'
  <2>1. /\ nal.pts > highest[v] /\ highest'[v] = nal.pts /\ decoding'[v] = Append(decoding[v], nal.pts)
        /\ UNCHANGED renderQueue /\ \A w \in Viewers : Shown(w)' = Shown(w)
        /\ \A w \in Viewers : w # v => decoding'[w] = decoding[w] /\ highest'[w] = highest[w]
    BY <1>0, <1>3 DEF Decode, Shown
  <2>2. nal.pts \in Pictures
    BY NalFacts, TimeFacts DEF Pictures
  <2>3. Rising(Shown(v), renderQueue[v], Append(decoding[v], nal.pts), nal.pts)
    BY <1>0, <2>1, <2>2, RisingDecode
  <2> QED BY <2>1, <2>3
<1>4. ASSUME NEW v \in Viewers, Output(v) PROVE OrderInv'
  <2>1. /\ decoding[v] # <<>> /\ decoding'[v] = Tail(decoding[v])
        /\ renderQueue'[v] = Append(renderQueue[v], Head(decoding[v]))
        /\ UNCHANGED highest /\ \A w \in Viewers : Shown(w)' = Shown(w)
        /\ \A w \in Viewers : w # v => decoding'[w] = decoding[w] /\ renderQueue'[w] = renderQueue[w]
    BY <1>0, <1>4 DEF Output, Shown
  <2>2. Rising(Shown(v), Append(renderQueue[v], Head(decoding[v])), Tail(decoding[v]), highest[v])
    BY <1>0, <2>1, RisingOutput
  <2> QED BY <2>1, <2>2
<1>5. ASSUME NEW v \in Viewers, RenderLoop(v) PROVE OrderInv'
  <2>1. PICK due \in 0 .. Len(renderQueue[v]) :
        /\ renderQueue' = [renderQueue EXCEPT ![v] =
                                SubSeq(renderQueue[v], due + 1, Len(renderQueue[v]))]
        /\ \/ drawn' = drawn /\ painted' = painted
           \/ /\ due >= 1 /\ drawn' = [drawn EXCEPT ![v] = renderQueue[v][due]]
              /\ painted' = [painted EXCEPT ![v] = TRUE]
    BY <1>0, <1>5, RenderEffect
  <2>2. Shown(v)' \in Times
    BY TypeStep, TimeFacts DEF TypeInv, TypeOK, Shown
  <2>3. /\ renderQueue'[v] = SubSeq(renderQueue[v], due + 1, Len(renderQueue[v]))
        /\ Shown(v)' = Shown(v) \/ (due >= 1 /\ Shown(v)' = renderQueue[v][due])
        /\ \A w \in Viewers : w # v => renderQueue'[w] = renderQueue[w] /\ Shown(w)' = Shown(w)
        /\ UNCHANGED <<highest, decoding>>
    BY <1>0, <1>5, <2>1 DEF RenderLoop, Shown
  <2>4. Rising(Shown(v)', SubSeq(renderQueue[v], due + 1, Len(renderQueue[v])), decoding[v], highest[v])
    BY <1>0, <2>2, <2>3, RisingDraw
  <2> QED BY <2>3, <2>4
<1> QED BY <1>1, <1>2, <1>3, <1>4, <1>5, DecoderSteps DEF pipeVars

\* As long as no decoder has failed, what is on the canvas is of the decoder there is.
CanvasInv ==
    errors = 0 => \A v \in Viewers : page[v] # "closed" =>
        /\ Shown(v) = drawn[v]
        /\ configured[v] \/ (drawn[v] = Nothing /\ renderQueue[v] = <<>> /\ decoding[v] = <<>>)

\* Only an error takes the decoder away from an open page that has drawn something.
LEMMA CanvasStep ==
    ASSUME TypeInv, CanvasInv, [Next]_vars
    PROVE  CanvasInv'
<1> USE DEF CanvasInv
<1>0. /\ drawn \in [Viewers -> Times] /\ painted \in [Viewers -> BOOLEAN] /\ TypeOK
      /\ configured \in [Viewers -> BOOLEAN] /\ decoding \in [Viewers -> Seq(Pictures)]
      /\ renderQueue \in [Viewers -> Seq(Pictures)] /\ errors \in Nat
      /\ page \in [Viewers -> {"new", "open", "closed"}]
  BY DEF TypeInv, TypeOK, Pictures
<1>1. CASE UNCHANGED <<decoderVars, errors>>
           /\ \A v \in Viewers : page'[v] # "closed" => page[v] # "closed"
  BY <1>1 DEF decoderVars, Shown
<1>2. CASE \/ DropAudio \/ LoadAudio \/ StartStream \/ ClearCaches \/ DropFrames
           \/ CaptureParams \/ Capture \/ UNCHANGED vars
  BY <1>1, <1>2, EngineApart DEF pageVars, vars
<1>3. ASSUME NEW v \in Viewers, Open(v) \/ Round(v) PROVE CanvasInv'
  <2>1. CASE Open(v)
    BY <1>0, <1>1, <2>1 DEF Open
  <2>2. CASE Round(v)
    BY <1>1, <2>2 DEF Round, Drain, Prepend, FramesTimeout, Forward, AudioTimeout, Send, Disconnect,
                      pageVars
  <2> QED BY <1>3, <2>1, <2>2
<1>4. ASSUME NEW v \in Viewers, OnMessage(v) PROVE CanvasInv'
  <2> DEFINE nal == Head(channel[v])
  <2>1. /\ UNCHANGED <<page, errors>>
        /\ \/ OnParams(v) \/ OnAudio(v)
           \/ NotConfigured(v) \/ WaitForKey(v, nal) \/ StaleResend(v, nal)
           \/ Discontinuity(v, nal) \/ Decode(v, nal)
    BY <1>4 DEF OnMessage
  <2> HIDE DEF nal
  <2>2. CASE OnParams(v)
    <3>1. CASE configured[v]
      BY <1>0, <2>1, <2>2, <3>1 DEF OnParams, Shown
    <3>2. CASE ~configured[v]
      BY <1>0, <2>1, <2>2, <3>2 DEF OnParams, CloseDecoder, Shown
    <3> QED BY <3>1, <3>2
  <2>3. CASE OnAudio(v)
    BY <1>1, <2>1, <2>3 DEF OnAudio
  <2>4. CASE NotConfigured(v) \/ WaitForKey(v, nal) \/ StaleResend(v, nal) \/ Discontinuity(v, nal)
    BY <2>1, <2>4 DEF NotConfigured, WaitForKey, StaleResend, Discontinuity, Skip, Shown
  <2>5. CASE Decode(v, nal)
    BY <1>0, <2>1, <2>5 DEF Decode, Wanted, Shown
  <2> QED BY <2>1, <2>2, <2>3, <2>4, <2>5
<1>5. ASSUME NEW v \in Viewers, Output(v) PROVE CanvasInv'
  <2>1. /\ decoding[v] # <<>> /\ UNCHANGED <<page, errors, configured, drawn, painted>>
        /\ \A w \in Viewers : w # v => decoding'[w] = decoding[w] /\ renderQueue'[w] = renderQueue[w]
    BY <1>0, <1>5 DEF Output
  <2> QED BY <2>1 DEF Shown
<1>6. ASSUME NEW v \in Viewers, RenderLoop(v) PROVE CanvasInv'
  <2>1. PICK due \in 0 .. Len(renderQueue[v]) :
        \/ drawn' = drawn /\ painted' = painted
        \/ /\ due >= 1 /\ drawn' = [drawn EXCEPT ![v] = renderQueue[v][due]]
           /\ painted' = [painted EXCEPT ![v] = TRUE]
    BY <1>0, <1>6, RenderEffect
  <2>2. /\ renderQueue[v] # <<>> /\ UNCHANGED <<page, errors, configured, decoding>>
        /\ \A w \in Viewers : w # v => renderQueue'[w] = renderQueue[w]
    BY <1>0, <1>6 DEF RenderLoop
  <2>3. \A w \in Viewers : /\ Shown(w) = drawn[w] => Shown(w)' = drawn'[w]
                           /\ w # v => drawn'[w] = drawn[w]
    BY <1>0, <2>1 DEF Shown
  <2> QED BY <2>2, <2>3
<1>7. ASSUME NEW v \in Viewers, DecoderError(v) PROVE CanvasInv'
  <2>1. errors' = errors + 1
    BY <1>7 DEF DecoderError
  <2> QED BY <1>0, <2>1
<1>8. ASSUME NEW v \in Viewers, Close(v) PROVE CanvasInv'
  <2>1. /\ page'[v] = "closed" /\ UNCHANGED <<errors, drawn>>
        /\ \A w \in Viewers : w # v => /\ page'[w] = page[w] /\ painted'[w] = painted[w]
                                       /\ configured'[w] = configured[w]
                                       /\ decoding'[w] = decoding[w] /\ renderQueue'[w] = renderQueue[w]
    BY <1>0, <1>8 DEF Close, CloseDecoder
  <2> QED BY <2>1 DEF Shown
<1> QED BY <1>2, <1>3, <1>4, <1>5, <1>6, <1>7, <1>8 DEF Next

\* What a decoder puts out is drawn in the order of its times, whatever was resent or
\* lost in between; and as long as no decoder has failed, the canvas never goes back
\* (useStream.ts:247-330, 512-542).
THEOREM PicturesInOrder == Spec => []PipelineOrdered
<1>1. Init => OrderInv /\ CanvasInv
  <2> SUFFICES ASSUME Init PROVE OrderInv /\ CanvasInv
    OBVIOUS
  <2>1. Rising(Nothing, <<>>, <<>>, Nothing)
    BY TimeFacts DEF Rising
  <2> QED BY <2>1 DEF Init, OrderInv, CanvasInv, Shown
<1>2. TypeInv /\ OrderInv /\ CanvasInv /\ [Next]_vars => TypeInv' /\ OrderInv' /\ CanvasInv'
  BY TypeStep, OrderStep, CanvasStep
<1>3. TypeInv /\ OrderInv /\ CanvasInv => PipelineOrdered
  <2> SUFFICES ASSUME TypeInv, OrderInv, CanvasInv, NEW v \in Viewers
               PROVE  LET pictures == (IF Shown(v) = Nothing THEN <<>> ELSE <<Shown(v)>>)
                                          \o renderQueue[v] \o decoding[v]
                      IN  /\ \A i \in 1 .. Len(pictures) - 1 : pictures[i] < pictures[i + 1]
                          /\ pictures # <<>> => pictures[Len(pictures)] <= highest[v]
                          /\ errors = 0 /\ page[v] = "open" => Shown(v) = drawn[v]
    BY DEF PipelineOrdered
  <2> DEFINE first == IF Shown(v) = Nothing THEN <<>> ELSE <<Shown(v)>>
             queue == renderQueue[v]
             inside == decoding[v]
             pictures == first \o queue \o inside
             last == Shown(v)
  <2>1. /\ queue \in Seq(Pictures) /\ inside \in Seq(Pictures) /\ last \in Times
        /\ Rising(last, queue, inside, highest[v])
    BY TimeFacts DEF TypeInv, TypeOK, OrderInv, Pictures, Shown
  <2>2. /\ first \in Seq(Pictures)
        /\ \A i, j \in 1 .. Len(first) : ~(i < j)
        /\ \A i \in 1 .. Len(first) : first[i] = last
    <3>1. CASE Shown(v) = Nothing
      BY <3>1, EmptySeq
    <3>2. CASE Shown(v) # Nothing
      <4>1. Shown(v) \in Pictures
        BY <2>1, <3>2 DEF Pictures
      <4> QED BY <3>2, <4>1
    <3> QED BY <3>1, <3>2
  <2> HIDE DEF first, queue, inside, last
  <2>3. /\ first \o queue \in Seq(Pictures)
        /\ \A i, j \in 1 .. Len(first \o queue) : i < j => (first \o queue)[i] < (first \o queue)[j]
        /\ \A k \in 1 .. Len(first \o queue) : \/ (first \o queue)[k] = last
                                               \/ \E i \in 1 .. Len(queue) : (first \o queue)[k] = queue[i]
    <3>1. /\ \A i, j \in 1 .. Len(first) : i < j => first[i] < first[j]
          /\ \A i, j \in 1 .. Len(queue) : i < j => queue[i] < queue[j]
          /\ \A i \in 1 .. Len(first), j \in 1 .. Len(queue) : first[i] < queue[j]
      BY <2>1, <2>2 DEF Rising
    <3>2. first \in Seq(Pictures) /\ queue \in Seq(Pictures)
      BY <2>1, <2>2
    <3>3. /\ first \o queue \in Seq(Pictures)
          /\ \A i, j \in 1 .. Len(first \o queue) : i < j => (first \o queue)[i] < (first \o queue)[j]
          /\ \A k \in 1 .. Len(first \o queue) : \/ \E i \in 1 .. Len(first) : (first \o queue)[k] = first[i]
                                                 \/ \E i \in 1 .. Len(queue) : (first \o queue)[k] = queue[i]
      BY <3>1, <3>2, RisingConcat
    <3> QED BY <2>2, <3>3
  <2>4. /\ pictures \in Seq(Pictures)
        /\ \A i, j \in 1 .. Len(pictures) : i < j => pictures[i] < pictures[j]
        /\ \A k \in 1 .. Len(pictures) : \/ \E i \in 1 .. Len(first \o queue) : pictures[k] = (first \o queue)[i]
                                         \/ \E j \in 1 .. Len(inside) : pictures[k] = inside[j]
    <3>1. \A i \in 1 .. Len(first \o queue), j \in 1 .. Len(inside) : (first \o queue)[i] < inside[j]
      BY <2>1, <2>3 DEF Rising
    <3>2. \A i, j \in 1 .. Len(inside) : i < j => inside[i] < inside[j]
      BY <2>1 DEF Rising
    <3> QED BY <2>1, <2>3, <3>1, <3>2, RisingConcat
  <2> HIDE DEF pictures
  <2>5. Len(pictures) \in Nat /\ (pictures # <<>> => Len(pictures) \in 1 .. Len(pictures))
    BY <2>4, LenProperties, EmptySeq
  <2>6. ASSUME NEW i \in 1 .. Len(pictures) - 1 PROVE pictures[i] < pictures[i + 1]
    <3>1. i \in 1 .. Len(pictures) /\ i + 1 \in 1 .. Len(pictures) /\ i < i + 1
      BY <2>5
    <3> QED BY <2>4, <3>1
  <2>7. \A k \in 1 .. Len(pictures) : pictures[k] <= highest[v]
    BY <2>1, <2>3, <2>4 DEF Rising
  <2>8. errors = 0 /\ page[v] = "open" => Shown(v) = drawn[v]
    BY DEF CanvasInv
  <2> QED BY <2>5, <2>6, <2>7, <2>8 DEF pictures, first, queue, inside
<1> QED BY <1>1, <1>2, <1>3, ViewerInit, PTL DEF Spec

-----------------------------------------------------------------------------
(* SPS and PPS *)

\* No picture comes before SPS and PPS.
ParamsFirst(c) ==
    \A i \in 1 .. Len(c) : c[i].kind = "frame" => \E j \in 1 .. Len(c) : j < i /\ c[j].kind = "params"

\* Before the first stream has captured anything, nothing is anywhere.
BeforeCapture ==
    stream = 0 \/ (stream = 1 /\ next_frame = Nothing)
        => /\ cached_params = 0 /\ buffer = <<>>
           /\ \A v \in Viewers : /\ frames[v] = <<>>
                                 /\ \A i \in 1 .. Len(channel[v]) : channel[v][i].kind # "frame"

\* As long as the first stream's SPS and PPS are cached, every batch brings them, to
\* whoever has no decoder yet.
BatchesReady ==
    stream = 1 /\ cached_params = 1 /\ errors = 0
        => \A v \in Viewers : /\ bridge[v] = "sending" => ParamsFirst(frames[v])
                              /\ configured[v] \/ ParamsFirst(channel[v])

BlindInv == BeforeCapture /\ BatchesReady

\* Batches that begin with SPS and PPS may follow one another ...
LEMMA ParamsFirstConcat ==
    ASSUME NEW S, NEW s1 \in Seq(S), NEW s2 \in Seq(S), ParamsFirst(s1), ParamsFirst(s2)
    PROVE  ParamsFirst(s1 \o s2)
<1> DEFINE s == s1 \o s2
<1>1. /\ Len(s) = Len(s1) + Len(s2) /\ Len(s1) \in Nat /\ Len(s2) \in Nat
      /\ \A i \in 1 .. Len(s1) + Len(s2) : s[i] = IF i <= Len(s1) THEN s1[i] ELSE s2[i - Len(s1)]
  BY ConcatProperties, LenProperties
<1> HIDE DEF s
<1> SUFFICES ASSUME NEW i \in 1 .. Len(s), s[i].kind = "frame"
             PROVE  \E j \in 1 .. Len(s) : j < i /\ s[j].kind = "params"
  BY DEF ParamsFirst, s
<1>2. CASE i <= Len(s1)
  <2>1. i \in 1 .. Len(s1) /\ s[i] = s1[i]
    BY <1>1, <1>2
  <2>2. PICK j \in 1 .. Len(s1) : j < i /\ s1[j].kind = "params"
    BY <2>1 DEF ParamsFirst
  <2>3. j \in 1 .. Len(s) /\ s[j] = s1[j]
    BY <1>1
  <2> QED BY <2>2, <2>3
<1>3. CASE i > Len(s1)
  <2>1. i - Len(s1) \in 1 .. Len(s2) /\ s[i] = s2[i - Len(s1)]
    BY <1>1, <1>3
  <2>2. PICK j \in 1 .. Len(s2) : j < i - Len(s1) /\ s2[j].kind = "params"
    BY <2>1 DEF ParamsFirst
  <2>3. /\ j + Len(s1) \in 1 .. Len(s1) + Len(s2) /\ ~(j + Len(s1) <= Len(s1))
        /\ (j + Len(s1)) - Len(s1) = j /\ j + Len(s1) < i
    BY <1>1, <2>2
  <2>4. j + Len(s1) \in 1 .. Len(s) /\ s[j + Len(s1)] = s2[j]
    BY <1>1, <2>3
  <2> QED BY <2>2, <2>3, <2>4
<1> QED BY <1>1, <1>2, <1>3

\* ... whatever follows, once there are SPS and PPS in front.
LEMMA ParamsInFront ==
    ASSUME NEW S, NEW s1 \in Seq(S), NEW s2 \in Seq(S), Len(s1) >= 1, s1[1].kind = "params"
    PROVE  ParamsFirst(s1 \o s2)
<1> DEFINE s == s1 \o s2
<1>1. /\ Len(s) = Len(s1) + Len(s2) /\ Len(s1) \in Nat /\ Len(s2) \in Nat
      /\ \A i \in 1 .. Len(s1) + Len(s2) : s[i] = IF i <= Len(s1) THEN s1[i] ELSE s2[i - Len(s1)]
  BY ConcatProperties, LenProperties
<1>2. 1 \in 1 .. Len(s) /\ s[1] = s1[1]
  BY <1>1
<1> HIDE DEF s
<1>3. \A i \in 1 .. Len(s) : i = 1 \/ 1 < i
  BY <1>1
<1>4. \A i \in 1 .. Len(s) : s[i].kind = "frame" => i # 1
  BY <1>2
<1> QED BY <1>2, <1>3, <1>4 DEF ParamsFirst, s

\* Such a batch does not begin with a picture; what it begins with may go.
LEMMA ParamsFirstTail ==
    ASSUME NEW S, NEW s \in Seq(S), s # <<>>, ParamsFirst(s), Head(s).kind # "params"
    PROVE  ParamsFirst(Tail(s)) /\ Head(s).kind # "frame"
<1>1. /\ Len(Tail(s)) = Len(s) - 1 /\ Head(s) = s[1]
      /\ \A i \in 1 .. Len(Tail(s)) : Tail(s)[i] = s[i + 1]
  BY HeadTailProperties
<1>2. Len(s) \in Nat \ {0}
  BY LenProperties, EmptySeq
<1>3. ASSUME NEW i \in 1 .. Len(Tail(s)), Tail(s)[i].kind = "frame"
      PROVE  \E j \in 1 .. Len(Tail(s)) : j < i /\ Tail(s)[j].kind = "params"
  <2>1. i + 1 \in 1 .. Len(s) /\ s[i + 1].kind = "frame"
    BY <1>1, <1>2, <1>3
  <2>2. PICK j \in 1 .. Len(s) : j < i + 1 /\ s[j].kind = "params"
    BY <2>1 DEF ParamsFirst
  <2>3. j # 1
    BY <1>1, <2>2
  <2>4. j - 1 \in 1 .. Len(Tail(s)) /\ j - 1 < i /\ (j - 1) + 1 = j
    BY <1>1, <1>2, <2>2, <2>3
  <2>5. Tail(s)[j - 1] = s[j]
    BY <1>1, <2>4
  <2> QED BY <2>2, <2>4, <2>5
<1>4. Head(s).kind # "frame"
  <2>1. 1 \in 1 .. Len(s) /\ \A j \in 1 .. Len(s) : ~(j < 1)
    BY <1>2
  <2> QED BY <1>1, <2>1 DEF ParamsFirst
<1> QED BY <1>3, <1>4 DEF ParamsFirst

\* Every step keeps SPS and PPS in front.
LEMMA BlindStep ==
    ASSUME TypeInv, BlindInv, [Next]_vars
    PROVE  BlindInv'
<1> USE DEF BlindInv
<1>0. /\ TypeOK /\ channel \in [Viewers -> Seq(Messages)] /\ frames \in [Viewers -> Seq(Nals)]
      /\ bridge \in [Viewers -> {"idle", "polling", "drained", "sending", "over"}]
      /\ configured \in [Viewers -> BOOLEAN] /\ errors \in Nat /\ stream \in 0 .. MaxStreams
      /\ MaxStreams \in Nat /\ (next_frame # Nothing => stream > 0)
  BY BoundsAssumption DEF TypeInv, TypeOK
<1>1. ParamsFirst(<<>>)
  BY DEF ParamsFirst
\* The engine: the first stream's SPS and PPS are cached before it captures a picture.
<1>2. CASE DropAudio \/ LoadAudio
  BY <1>2 DEF DropAudio, LoadAudio, BeforeCapture, BatchesReady, bridgeVars, pageVars, decoderVars
<1>3. CASE StartStream
  <2>1. /\ stream' = stream + 1 /\ next_frame' = Nothing
        /\ UNCHANGED <<cached_params, buffer, bridge, frames, channel, configured, errors>>
    BY <1>3 DEF StartStream, bridgeVars, pageVars, decoderVars
  <2>2. BeforeCapture'
    BY <1>0, <2>1 DEF BeforeCapture
  <2>3. BatchesReady'
    BY <1>0, <2>1 DEF BeforeCapture, BatchesReady
  <2> QED BY <2>2, <2>3
<1>4. CASE ClearCaches
  BY <1>4 DEF ClearCaches, BeforeCapture, BatchesReady, bridgeVars, pageVars, decoderVars
<1>5. CASE DropFrames
  BY <1>5 DEF DropFrames, BeforeCapture, BatchesReady, bridgeVars, pageVars, decoderVars
<1>6. CASE CaptureParams
  <2>1. /\ stream > 0 /\ next_frame = Nothing /\ next_frame' = 0
        /\ UNCHANGED <<stream, bridge, frames, channel, configured, errors>>
    BY <1>6 DEF CaptureParams, bridgeVars, pageVars, decoderVars
  <2>2. BeforeCapture'
    BY <2>1, TimeFacts DEF BeforeCapture
  <2>3. BatchesReady'
    BY <1>1, <2>1 DEF BeforeCapture, BatchesReady, ParamsFirst
  <2> QED BY <2>2, <2>3
<1>7. CASE Capture
  <2>1. /\ next_frame # Nothing /\ next_frame' # Nothing
        /\ UNCHANGED <<stream, cached_params, bridge, frames, channel, configured, errors>>
    BY <1>7, TimeFacts DEF Capture, bridgeVars, pageVars, decoderVars
  <2> QED BY <1>0, <2>1 DEF BeforeCapture, BatchesReady
\* A bridge.
<1>8. ASSUME NEW v \in Viewers, Open(v) \/ Disconnect(v) PROVE BlindInv'
  <2>1. /\ UNCHANGED <<engineVars, frames, channel, configured, errors>>
        /\ \A w \in Viewers : bridge'[w] = "sending" => bridge[w] = "sending"
    BY <1>0, <1>8 DEF Open, Disconnect, Goto, pageVars, decoderVars
  <2> QED BY <2>1 DEF BeforeCapture, BatchesReady, engineVars
<1>9. ASSUME NEW v \in Viewers, Drain(v) PROVE BlindInv'
  <2>1. /\ UNCHANGED <<stream, next_frame, cached_params, channel, configured, errors>> /\ buffer' = <<>>
        /\ frames' = [frames EXCEPT ![v] = buffer] /\ bridge' = [bridge EXCEPT ![v] = "drained"]
    BY <1>9 DEF Drain, Goto, pageVars, decoderVars
  <2>2. BeforeCapture'
    BY <1>0, <2>1 DEF BeforeCapture
  <2>3. BatchesReady'
    BY <1>0, <2>1 DEF BatchesReady
  <2> QED BY <2>2, <2>3
<1>10. ASSUME NEW v \in Viewers, Prepend(v) PROVE BlindInv'
  <2>1. PICK resend \in {FALSE, cached_keyframe # NoFrame} :
            frames' = [frames EXCEPT ![v] = IF @ = <<>> THEN @ ELSE Prepended(resend) \o @]
    BY <1>10 DEF Prepend
  <2>2. /\ UNCHANGED <<stream, next_frame, cached_params, buffer, channel, configured, errors>>
        /\ \A w \in Viewers : w # v => bridge'[w] = bridge[w] /\ frames'[w] = frames[w]
        /\ frames'[v] = IF frames[v] = <<>> THEN <<>> ELSE Prepended(resend) \o frames[v]
    BY <1>0, <1>10, <2>1 DEF Prepend, Goto, engineVars, pageVars, decoderVars
  <2>3. BeforeCapture'
    BY <2>2 DEF BeforeCapture
  <2>4. cached_params # 0 => ParamsFirst(frames'[v])
    <3> SUFFICES ASSUME cached_params # 0, frames[v] # <<>> PROVE ParamsFirst(Prepended(resend) \o frames[v])
      BY <1>1, <2>2
    <3>1. /\ Prepended(resend) \in Seq(Nals) /\ frames[v] \in Seq(Nals)
          /\ Len(Prepended(resend)) >= 1 /\ Prepended(resend)[1].kind = "params"
      BY <1>0, PrependedEffect
    <3> QED BY <3>1, ParamsInFront
  <2>5. BatchesReady'
    BY <2>2, <2>4 DEF BatchesReady
  <2> QED BY <2>3, <2>5
<1>11. ASSUME NEW v \in Viewers, FramesTimeout(v) PROVE BlindInv'
  <2>1. /\ UNCHANGED <<engineVars, channel, configured, errors>>
        /\ \A w \in Viewers : w # v => bridge'[w] = bridge[w] /\ frames'[w] = frames[w]
        /\ frames'[v] = <<>>
    BY <1>0, <1>11 DEF FramesTimeout, Goto, pageVars, decoderVars
  <2> QED BY <1>1, <2>1 DEF BeforeCapture, BatchesReady, engineVars
<1>12. ASSUME NEW v \in Viewers, Forward(v) \/ AudioTimeout(v) PROVE BlindInv'
  <2>1. PICK audio_frames \in BOOLEAN : Send(v, audio_frames) /\ (audio_frames => audio > 0)
    BY <1>12 DEF Forward, AudioTimeout
  <2>2. /\ bridge[v] = "sending" /\ UNCHANGED <<engineVars, configured, errors>>
        /\ frames'[v] = <<>> /\ bridge'[v] = "polling"
        /\ \A w \in Viewers : w # v => bridge'[w] = bridge[w] /\ frames'[w] = frames[w]
    BY <1>0, <1>12, <2>1 DEF Forward, AudioTimeout, At, Goto, Send, decoderVars
  <2>3. PICK more \in Seq(Audios) :
        /\ \A w \in Viewers : w # v => channel'[w] = channel[w]
        /\ channel'[v] = channel[v] \/ channel'[v] = channel[v] \o frames[v] \o more
    BY <2>1, SendEffect, EmptySeq
  <2>4. /\ more \in Seq(Messages) /\ \A i \in 1 .. Len(more) : more[i].kind # "frame"
    BY NalFacts, SeqMonotonic, ElementOfSeq
  <2>5. ParamsFirst(more)
    BY <2>4 DEF ParamsFirst
  <2>6. channel[v] \in Seq(Messages) /\ frames[v] \in Seq(Messages)
    BY <1>0, NalFacts, SeqMonotonic
  <2>7. ParamsFirst(channel[v]) /\ ParamsFirst(frames[v]) => ParamsFirst(channel'[v])
    <3> SUFFICES ASSUME ParamsFirst(channel[v]), ParamsFirst(frames[v])
                 PROVE  ParamsFirst(channel[v] \o frames[v] \o more)
      BY <2>3
    <3>1. ParamsFirst(channel[v] \o frames[v]) /\ channel[v] \o frames[v] \in Seq(Messages)
      BY <2>6, ParamsFirstConcat, ConcatProperties
    <3> QED BY <2>4, <2>5, <3>1, ParamsFirstConcat
  <2>8. BatchesReady'
    <3> SUFFICES ASSUME stream = 1, cached_params = 1, errors = 0, NEW w \in Viewers
                 PROVE  /\ bridge'[w] = "sending" => ParamsFirst(frames'[w])
                        /\ configured[w] \/ ParamsFirst(channel'[w])
      BY <2>2 DEF BatchesReady, engineVars
    <3>1. bridge[w] = "sending" => ParamsFirst(frames[w])
      BY DEF BatchesReady
    <3>2. configured[w] \/ ParamsFirst(channel[w])
      BY DEF BatchesReady
    <3>3. CASE w # v
      BY <2>2, <2>3, <3>1, <3>2, <3>3
    <3>4. CASE w = v
      BY <2>2, <2>7, <3>1, <3>2, <3>4
    <3> QED BY <3>3, <3>4
  <2>9. ASSUME frames[v] = <<>>, \A i \in 1 .. Len(channel[v]) : channel[v][i].kind # "frame"
        PROVE  \A i \in 1 .. Len(channel'[v]) : channel'[v][i].kind # "frame"
    <3>1. channel'[v] = channel[v] \/ channel'[v] = channel[v] \o more
      BY <2>3, <2>6, <2>9, ConcatEmptySeq
    <3>2. /\ Len(channel[v] \o more) = Len(channel[v]) + Len(more)
          /\ Len(channel[v]) \in Nat /\ Len(more) \in Nat
          /\ \A i \in 1 .. Len(channel[v]) + Len(more) : (channel[v] \o more)[i] =
                    IF i <= Len(channel[v]) THEN channel[v][i] ELSE more[i - Len(channel[v])]
      BY <2>4, <2>6, ConcatProperties, LenProperties
    <3>3. \A i \in 1 .. Len(channel[v]) + Len(more) :
                i \in 1 .. Len(channel[v]) \/ i - Len(channel[v]) \in 1 .. Len(more)
      BY <3>2
    <3>4. \A i \in 1 .. Len(channel[v] \o more) : (channel[v] \o more)[i].kind # "frame"
      BY <2>4, <2>9, <3>2, <3>3
    <3> QED BY <2>9, <3>1, <3>4
  <2>10. BeforeCapture'
    BY <2>2, <2>3, <2>9 DEF BeforeCapture, engineVars
  <2> QED BY <2>8, <2>10
\* A dashboard.
<1>13. ASSUME NEW v \in Viewers, OnMessage(v) PROVE BlindInv'
  <2>1. /\ channel[v] # <<>> /\ UNCHANGED <<engineVars, bridge, frames, errors>>
        /\ channel' = [channel EXCEPT ![v] = Tail(@)]
        /\ \/ Head(channel[v]).kind = "params" /\ configured' = [configured EXCEPT ![v] = TRUE]
           \/ Head(channel[v]).kind # "params" /\ configured' = configured
    BY <1>13 DEF OnMessage, OnParams, OnAudio, NotConfigured, WaitForKey, StaleResend, Discontinuity,
                 Decode, Skip, bridgeVars, decoderVars
  <2>2. /\ channel'[v] = Tail(channel[v]) /\ channel[v] \in Seq(Messages)
        /\ \A w \in Viewers : w # v => channel'[w] = channel[w] /\ configured'[w] = configured[w]
        /\ configured[v] => configured'[v]
    BY <1>0, <2>1
  <2>3. ParamsFirst(channel[v]) => configured'[v] \/ ParamsFirst(channel'[v])
    BY <1>0, <2>1, <2>2, ParamsFirstTail
  <2>4. BatchesReady'
    <3> SUFFICES ASSUME stream = 1, cached_params = 1, errors = 0, NEW w \in Viewers
                 PROVE  /\ bridge[w] = "sending" => ParamsFirst(frames[w])
                        /\ configured'[w] \/ ParamsFirst(channel'[w])
      BY <2>1 DEF BatchesReady, engineVars
    <3>1. bridge[w] = "sending" => ParamsFirst(frames[w])
      BY DEF BatchesReady
    <3>2. configured[w] \/ ParamsFirst(channel[w])
      BY DEF BatchesReady
    <3>3. CASE w # v
      BY <2>2, <3>1, <3>2, <3>3
    <3>4. CASE w = v
      BY <2>2, <2>3, <3>1, <3>2, <3>4
    <3> QED BY <3>3, <3>4
  <2>5. \A i \in 1 .. Len(channel'[v]) : i + 1 \in 1 .. Len(channel[v]) /\ channel'[v][i] = channel[v][i + 1]
    <3>1. /\ Len(Tail(channel[v])) = Len(channel[v]) - 1 /\ Len(channel[v]) \in Nat
          /\ \A i \in 1 .. Len(Tail(channel[v])) : Tail(channel[v])[i] = channel[v][i + 1]
      BY <2>1, <2>2, HeadTailProperties, LenProperties
    <3> QED BY <2>2, <3>1
  <2>6. BeforeCapture'
    BY <2>1, <2>2, <2>5 DEF BeforeCapture, engineVars
  <2> QED BY <2>4, <2>6
<1>14. ASSUME NEW v \in Viewers, Output(v) \/ RenderLoop(v) PROVE BlindInv'
  BY <1>14 DEF Output, RenderLoop, engineVars, bridgeVars, BeforeCapture, BatchesReady
<1>15. ASSUME NEW v \in Viewers, DecoderError(v) PROVE BlindInv'
  <2>1. UNCHANGED <<engineVars, bridge, frames, channel>> /\ errors' = errors + 1 /\ errors' # 0
    BY <1>0, <1>15 DEF DecoderError, bridgeVars
  <2> QED BY <2>1 DEF BeforeCapture, BatchesReady, engineVars
<1>16. ASSUME NEW v \in Viewers, Close(v) PROVE BlindInv'
  <2>1. /\ UNCHANGED <<engineVars, bridge, frames, errors>> /\ channel'[v] = <<>>
        /\ \A w \in Viewers : w # v => channel'[w] = channel[w] /\ configured'[w] = configured[w]
    BY <1>0, <1>16 DEF Close, bridgeVars
  <2> QED BY <1>1, <2>1 DEF BeforeCapture, BatchesReady, engineVars
<1>17. CASE UNCHANGED vars
  BY <1>17 DEF vars, engineVars, bridgeVars, pageVars, decoderVars, BeforeCapture, BatchesReady
<1> QED BY <1>2, <1>3, <1>4, <1>5, <1>6, <1>7, <1>8, <1>9, <1>10, <1>11, <1>12, <1>13, <1>14, <1>15,
           <1>16, <1>17 DEF Next, Round

\* Who joins in the middle of the first stream has a decoder when the first picture
\* comes, whichever rounds were lost (transport.cpp:510-532).
THEOREM NeverWithoutDecoder == Spec => []NeverBlind
<1>1. Init => BlindInv
  BY DEF Init, BlindInv, BeforeCapture, BatchesReady, ParamsFirst
<1>2. TypeInv /\ BlindInv /\ [Next]_vars => TypeInv' /\ BlindInv'
  BY TypeStep, BlindStep
<1>3. TypeInv /\ BlindInv => NeverBlind
  <2> SUFFICES ASSUME TypeInv, BlindInv, NEW v \in Viewers, channel[v] # <<>>,
                      Head(channel[v]).kind = "frame", stream = 1, cached_params = 1, errors = 0
               PROVE  configured[v]
    BY DEF NeverBlind
  <2>1. channel[v] \in Seq(Messages)
    BY DEF TypeInv, TypeOK
  <2>2. ~ParamsFirst(channel[v])
    BY <2>1, ParamsFirstTail
  <2> QED BY <2>2 DEF BlindInv, BatchesReady
<1> QED BY <1>1, <1>2, <1>3, ViewerInit, PTL DEF Spec
=============================================================================
