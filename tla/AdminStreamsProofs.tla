-------------------------- MODULE AdminStreamsProofs --------------------------
(***************************************************************************)
(* Theorems about AdminStreams, for any number of start requests, NAL      *)
(* units and audio chunks, and buffers of any size.                        *)
(***************************************************************************)
EXTENDS AdminStreams, SequenceTheorems, TLAPS

-----------------------------------------------------------------------------
(* The inductive invariant, in parts *)

\* The request that holds stream_start_mutex_ is the one that is being worked on.
Holding == {"opening", "loading", "installed", "cleared", "dropped"}
Locked == \A s \in Streams : request[s] \in Holding <=> starting = s

\* Only one stream is active at a time, and it has been installed.
OneActive ==
    /\ \A s, t \in active : s = t
    /\ \A s \in active : request[s] \in {"installed", "cleared", "dropped", "done"}

\* The audio in the buffer is that of the stream being loaded or, where none is, of
\* the active one.
Audio(s) == {s} \X (1 .. AudioChunks)
AudioInv ==
    /\ \A s \in Streams : request[s] = "loading" => audio \subseteq Audio(s)
    /\ (\A s \in Streams : request[s] # "loading") => \A s \in active : audio = Audio(s)

\* What the event loop captures is of the active stream, which stays so.
CapturesActive == \A x \in Range(captures) : x[1] \in active

\* The caches and the buffer are those of the active stream from the point on where
\* its start request has emptied them.
CachesFresh ==
    \A s \in active : request[s] \in {"cleared", "dropped", "done"}
        => params \in {s, NoStream} /\ keyframe \in {s, NoStream}
FramesFresh ==
    \A s \in active : request[s] \in {"dropped", "done"}
        => Range(frames) \subseteq ({s} \X (1 .. NalCount)) \cup {Echo}

\* A stream has sent nothing while it shakes hands.
ShakesFirst == \A s \in Streams : hs[s] = "Handshaking" => sent[s] = 0

\* The NAL units of s that are known to be complete, and captured, by now.
Complete(s) == IF sent[s] = NalCount THEN NalCount ELSE IF sent[s] = 0 THEN 0 ELSE sent[s] - 1

\* Only these are anywhere, and each is in one place: with the loop, in the buffer
\* or handed to a poll.
InOnePlace ==
    /\ \A x \in (Range(frames) \ {Echo}) \cup handed \cup Range(captures) : x[2] <= Complete(x[1])
    /\ Range(captures) \cap (Range(frames) \cup handed) = {}
    /\ \A i, j \in DOMAIN captures : captures[i] = captures[j] => i = j
    /\ HandedOnce

-----------------------------------------------------------------------------
(* Start requests, the mutex and the audio *)

RequestType ==
    /\ request \in [Streams -> {"none", "waiting", "opening", "refused", "loading", "installed",
                                "cleared", "dropped", "done"}]
    /\ starting \in Streams \cup {NoStream}
    /\ audio \subseteq Streams \X (1 .. AudioChunks)
    /\ active \subseteq Streams

RequestInv == RequestType /\ Locked /\ OneActive /\ AudioInv

\* Whoever holds the mutex empties and fills the audio buffer; nobody else does.
LEMMA RequestStep ==
    ASSUME RequestInv, [Next]_vars
    PROVE  RequestInv'
<1> USE DEF RequestInv, RequestType
<1>0. NoStream \notin Streams
  BY StreamsAssumption
\* No part of it changes, or active loses a stream.
<1>1. ASSUME UNCHANGED requestVars, active' \subseteq active PROVE RequestInv'
  BY <1>1 DEF requestVars, Locked, OneActive, AudioInv
\* A request goes on, in the mutex or out of it; the audio and active stay.
<1>2. ASSUME NEW s \in Streams,
             NEW there \in {"waiting", "opening", "refused", "cleared", "dropped", "done"},
             Goto(s, there), UNCHANGED <<audio, active>>, starting' \in Streams \cup {NoStream},
             s \in active => there \in {"installed", "cleared", "dropped", "done"},
             request[s] # "loading", Locked'
      PROVE  RequestInv'
  <2>1. /\ RequestType' /\ request'[s] = there /\ there # "loading"
        /\ \A t \in Streams : t # s => request'[t] = request[t]
    BY <1>2 DEF Goto
  <2>2. OneActive'
    BY <1>2, <2>1 DEF OneActive
  <2>3. \A t \in Streams : request'[t] = "loading" <=> request[t] = "loading"
    BY <1>2, <2>1
  <2>4. AudioInv'
    BY <1>2, <2>3 DEF AudioInv
  <2> QED BY <1>2, <2>1, <2>2, <2>4
<1>3. ASSUME NEW s \in Streams, AskStart(s) PROVE RequestInv'
  <2>1. Goto(s, "waiting") /\ UNCHANGED <<starting, audio, active>> /\ request[s] = "none"
    BY <1>3 DEF AskStart, At
  <2>2. Locked' /\ s \notin active
    BY <2>1 DEF Goto, Locked, Holding, OneActive
  <2> QED BY <1>2, <2>1, <2>2
<1>4. ASSUME NEW s \in Streams, BeginStart(s) PROVE RequestInv'
  <2>1. /\ Goto(s, "opening") /\ UNCHANGED <<audio, active>> /\ request[s] = "waiting"
        /\ starting = NoStream /\ starting' = s
    BY <1>4 DEF BeginStart, At
  <2>2. Locked' /\ s \notin active
    BY <1>0, <2>1 DEF Goto, Locked, Holding, OneActive
  <2> QED BY <1>2, <2>1, <2>2
<1>5. ASSUME NEW s \in Streams, OpenFails(s) PROVE RequestInv'
  <2>1. /\ Goto(s, "refused") /\ UNCHANGED <<audio, active>> /\ request[s] = "opening"
        /\ starting' = NoStream
    BY <1>5 DEF OpenFails, At
  <2>2. Locked' /\ s \notin active
    BY <1>0, <2>1 DEF Goto, Locked, Holding, OneActive
  <2> QED BY <1>2, <2>1, <2>2
<1>6. ASSUME NEW s \in Streams, DropAudio(s) PROVE RequestInv'
  <2>1. /\ Goto(s, "loading") /\ UNCHANGED <<starting, active>> /\ request[s] = "opening"
        /\ audio' = {}
    BY <1>6 DEF DropAudio, At
  <2>2. RequestType' /\ request'[s] = "loading"
        /\ \A t \in Streams : t # s => request'[t] = request[t]
    BY <2>1 DEF Goto
  <2>3. Locked' /\ OneActive'
    BY <2>1, <2>2 DEF Locked, Holding, OneActive
  <2>4. AudioInv'
    BY <2>1, <2>2 DEF AudioInv
  <2> QED BY <2>2, <2>3, <2>4
<1>7. ASSUME NEW s \in Streams, LoadAudio(s) PROVE RequestInv'
  <2>1. UNCHANGED <<request, starting, active>> /\ request[s] = "loading"
    BY <1>7 DEF LoadAudio, At
  <2>2. PICK i \in 1 .. AudioChunks : audio' = audio \cup {<<s, i>>}
    BY <1>7 DEF LoadAudio
  <2>3. \A t \in Streams : request[t] = "loading" => t = s
    BY <2>1 DEF Locked, Holding
  <2>4. AudioInv'
    BY <2>1, <2>2, <2>3 DEF AudioInv, Audio
  <2> QED BY <2>1, <2>2, <2>4 DEF Locked, OneActive
<1>8. ASSUME NEW s \in Streams, Install(s) PROVE RequestInv'
  <2>1. /\ Goto(s, "installed") /\ UNCHANGED <<starting, audio>> /\ request[s] = "loading"
        /\ active' = {s} /\ \A i \in 1 .. AudioChunks : <<s, i>> \in audio
    BY <1>8 DEF Install, At
  <2>2. RequestType' /\ request'[s] = "installed"
        /\ \A t \in Streams : t # s => request'[t] = request[t]
    BY <2>1 DEF Goto
  <2>3. Locked' /\ OneActive'
    BY <2>1, <2>2 DEF Locked, Holding, OneActive
  <2>4. audio = Audio(s)
    BY <2>1 DEF AudioInv, Audio
  <2>5. \A t \in Streams : request'[t] # "loading"
    BY <2>1, <2>2 DEF Locked, Holding
  <2> QED BY <2>1, <2>2, <2>3, <2>4, <2>5 DEF AudioInv, Audio
<1>9. ASSUME NEW s \in Streams, ClearParams(s) \/ DropFrames(s) \/ FinishStart(s) PROVE RequestInv'
  <2>1. /\ UNCHANGED <<audio, active>> /\ request[s] \in {"installed", "cleared", "dropped"}
        /\ \/ Goto(s, "cleared") /\ starting' = starting
           \/ Goto(s, "dropped") /\ starting' = starting
           \/ Goto(s, "done") /\ starting' = NoStream
    BY <1>9 DEF ClearParams, DropFrames, FinishStart, At
  <2>2. Locked'
    BY <1>0, <2>1 DEF Goto, Locked, Holding
  <2> QED BY <1>2, <2>1, <2>2
<1>10. CASE Poll \/ Loop \/ \E s \in Streams : Stop(s)
  <2>1. UNCHANGED requestVars /\ active' \subseteq active
    BY <1>10 DEF Poll, Loop, Stop, Collect, StartOne, ReceiveSyn, ReceiveSynAck, ReceiveAck,
                 ReceiveFin, ResendHandshake, Send, Retire, ReceiveData, CacheNal, PushNal
  <2> QED BY <1>1, <2>1
<1>11. CASE UNCHANGED vars
  BY <1>1, <1>11 DEF vars
<1> QED BY <1>3, <1>4, <1>5, <1>6, <1>7, <1>8, <1>9, <1>10, <1>11 DEF Next, StartRequest

\* The invariant of start requests, mutex and audio (transport.cpp:415-470).
THEOREM RequestInvariant == Spec => []RequestInv
<1>1. Init => RequestInv
  <2> SUFFICES ASSUME Init PROVE RequestInv
    OBVIOUS
  <2>1. RequestType /\ OneActive /\ AudioInv
    BY DEF Init, RequestType, OneActive, AudioInv
  <2>2. Locked
    BY StreamsAssumption DEF Init, Locked, Holding
  <2> QED BY <2>1, <2>2 DEF RequestInv
<1> QED BY <1>1, RequestStep, PTL DEF Spec

\* While no start request is being worked on, an active stream's is done.
LEMMA DoneWhenFree ==
    ASSUME RequestInv, starting = NoStream, NEW s \in active
    PROVE  request[s] = "done"
  BY StreamsAssumption DEF RequestInv, RequestType, Locked, Holding, OneActive

\* The audio buffer is that of the active stream, whatever start requests ran side
\* by side: the chunks are pushed one by one, but under stream_start_mutex_
\* (transport.cpp:418, 428-440).
THEOREM AudioCorrect == Spec => []AudioMatches
<1>1. RequestInv => AudioMatches
  <2> SUFFICES ASSUME RequestInv, starting = NoStream, NEW s \in active
               PROVE  audio = {s} \X (1 .. AudioChunks)
    BY DEF AudioMatches
  <2>1. \A t \in Streams : request[t] # "loading"
    BY StreamsAssumption DEF RequestInv, Locked, Holding
  <2> QED BY <2>1 DEF RequestInv, AudioInv, Audio
<1> QED BY <1>1, RequestInvariant, PTL

\* No start that was accepted gets lost between the admin thread that asks for it
\* and the loop that takes the list (transport.cpp:388-413, 450-458).
THEOREM StartsKept == Spec => []StartNotLost
<1>1. Init => StartNotLost
  BY DEF Init, StartNotLost
<1>2. StartNotLost /\ [Next]_vars => StartNotLost'
  <2> SUFFICES ASSUME StartNotLost, [Next]_vars PROVE StartNotLost'
    OBVIOUS
  <2> USE DEF StartNotLost
  <2>1. ASSUME NEW s \in Streams, Install(s) PROVE StartNotLost'
    BY <2>1 DEF Install
  <2>2. CASE Collect
    BY <2>2 DEF Collect, LoopIdle, sessionVars
  <2>3. ASSUME NEW s \in ids, StartOne(s) PROVE StartNotLost'
    BY <2>3 DEF StartOne
  <2>4. ASSUME active' \subseteq active, UNCHANGED <<pending, ids, started>> PROVE StartNotLost'
    BY <2>4
  <2>5. ASSUME NEW s \in Streams,
               \/ AskStart(s) \/ BeginStart(s) \/ OpenFails(s) \/ DropAudio(s) \/ LoadAudio(s)
               \/ ClearParams(s) \/ DropFrames(s) \/ FinishStart(s)
        PROVE  active' \subseteq active /\ UNCHANGED <<pending, ids, started>>
    BY <2>5 DEF AskStart, BeginStart, OpenFails, DropAudio, LoadAudio, ClearParams, DropFrames,
                FinishStart, loopVars, sessionVars
  <2>6. ASSUME NEW s \in Streams, Stop(s) \/ Retire(s)
        PROVE  active' \subseteq active /\ UNCHANGED <<pending, ids, started>>
    BY <2>6 DEF Stop, Retire, loopVars, sessionVars
  <2>7. CASE Poll \/ UNCHANGED vars
    BY <2>4, <2>7 DEF Poll, vars, loopVars, sessionVars
  <2>8. CASE \/ ReceiveSyn \/ ReceiveSynAck \/ ReceiveAck \/ ReceiveFin \/ ResendHandshake
             \/ CacheNal \/ PushNal
             \/ \E s \in Streams : Send(s) \/ \E n \in 1 .. NalCount : ReceiveData(s, n)
    BY <2>4, <2>8 DEF ReceiveSyn, ReceiveSynAck, ReceiveAck, ReceiveFin, ResendHandshake,
                      CacheNal, PushNal, Send, ReceiveData, loopVars, sessionVars
  <2> QED BY <2>1, <2>2, <2>3, <2>4, <2>5, <2>6, <2>7, <2>8 DEF Next, StartRequest, Loop
<1> QED BY <1>1, <1>2, PTL DEF Spec

-----------------------------------------------------------------------------
(* The buffer and the window *)

\* The frame buffer stays within its capacity.
LEMMA PushFrameEffect ==
    ASSUME NEW buffer \in Seq(Frames), Len(buffer) <= max_frames, NEW frame \in Frames
    PROVE  /\ PushFrame(buffer, frame) \in Seq(Frames)
           /\ Len(PushFrame(buffer, frame)) <= max_frames
           /\ Range(PushFrame(buffer, frame)) \subseteq Range(buffer) \cup {frame}
<1> DEFINE kept == IF Len(buffer) >= max_frames THEN Tail(buffer) ELSE buffer
<1>1. kept \in Seq(Frames) /\ Len(kept) + 1 <= max_frames /\ Range(kept) \subseteq Range(buffer)
  <2>1. CASE Len(buffer) >= max_frames
    <3>1. buffer # <<>>
      BY <2>1, FramesAssumption
    <3>2. /\ Tail(buffer) \in Seq(Frames) /\ Len(Tail(buffer)) = Len(buffer) - 1
          /\ \A i \in 1 .. Len(Tail(buffer)) : Tail(buffer)[i] = buffer[i + 1]
      BY <3>1, HeadTailProperties
    <3>3. Len(buffer) \in Nat /\ DOMAIN buffer = 1 .. Len(buffer)
          /\ DOMAIN Tail(buffer) = 1 .. Len(buffer) - 1
      BY <3>2, LenProperties
    <3>4. Range(Tail(buffer)) \subseteq Range(buffer)
      BY <3>2, <3>3 DEF Range
    <3> QED BY <2>1, <3>2, <3>3, <3>4, FramesAssumption
  <2>2. CASE ~(Len(buffer) >= max_frames)
    BY <2>2, FramesAssumption, LenProperties
  <2> QED BY <2>1, <2>2
<1>2. PushFrame(buffer, frame) = Append(kept, frame)
  BY DEF PushFrame
<1>3. /\ Append(kept, frame) \in Seq(Frames) /\ Len(Append(kept, frame)) = Len(kept) + 1
      /\ \A i \in 1 .. Len(kept) : Append(kept, frame)[i] = kept[i]
      /\ Append(kept, frame)[Len(kept) + 1] = frame
  BY <1>1
<1>4. /\ Len(kept) \in Nat /\ DOMAIN kept = 1 .. Len(kept)
      /\ DOMAIN Append(kept, frame) = 1 .. Len(kept) + 1
  BY <1>1, <1>3, LenProperties
<1>5. \A i \in 1 .. Len(kept) + 1 : i \in 1 .. Len(kept) \/ i = Len(kept) + 1
  BY <1>4
<1>6. Range(Append(kept, frame)) \subseteq Range(kept) \cup {frame}
  BY <1>3, <1>4, <1>5 DEF Range
<1> QED BY <1>1, <1>2, <1>3, <1>6

\* Filling the window captures, once each, the NAL units that it makes complete.
LEMMA FillEffect ==
    ASSUME sent \in [Streams -> 0 .. NalCount], NEW s \in Streams,
           NEW k \in 1 .. NalCount - sent[s], FillWindow(s, k)
    PROVE  /\ sent' = [sent EXCEPT ![s] = sent[s] + k] /\ sent' \in [Streams -> 0 .. NalCount]
           /\ captures' \in Seq(Nals)
           /\ \A x \in Range(captures') : x[1] = s /\ Complete(s) < x[2] /\ x[2] <= Complete(s)'
           /\ \A i, j \in DOMAIN captures' : captures'[i] = captures'[j] => i = j
           /\ Complete(s) <= Complete(s)'
<1> DEFINE from == Complete(s) + 1
           to == Complete(s)'
<1>0. sent[s] \in 0 .. NalCount /\ NalCount \in Nat
  BY NalCountAssumption
<1>1. /\ sent' = [sent EXCEPT ![s] = sent[s] + k] /\ sent'[s] = sent[s] + k
      /\ sent' \in [Streams -> 0 .. NalCount]
  BY <1>0 DEF FillWindow
<1>2. /\ from = IF sent[s] = 0 THEN 1 ELSE sent[s]
      /\ to = IF sent[s] + k = NalCount THEN sent[s] + k ELSE sent[s] + k - 1
  BY <1>0, <1>1 DEF Complete
<1>3. from \in 1 .. NalCount /\ to \in 0 .. NalCount /\ to - from + 1 \in Nat
  BY <1>0, <1>2
<1>4. captures' = [i \in 1 .. to - from + 1 |-> <<s, from + i - 1>>]
  BY <1>0, <1>2 DEF FillWindow
<1> HIDE DEF from, to
<1>5. \A i \in 1 .. to - from + 1 : from + i - 1 \in from .. to
  BY <1>3
<1>6. \A i \in 1 .. to - from + 1 : <<s, from + i - 1>> \in Nals
  <2>1. \A n \in from .. to : n \in 1 .. NalCount
    BY <1>0, <1>3
  <2> QED BY <1>5, <2>1 DEF Nals
<1>7. captures' \in [1 .. to - from + 1 -> Nals]
  BY <1>4, <1>6
<1>8. captures' \in Seq(Nals)
  BY <1>3, <1>7, SeqDef
<1>9. DOMAIN captures' = 1 .. to - from + 1
  BY <1>4
<1>10. \A x \in Range(captures') : x[1] = s /\ x[2] \in from .. to
  BY <1>4, <1>5, <1>9 DEF Range
<1>11. \A i, j \in DOMAIN captures' : captures'[i] = captures'[j] => i = j
  BY <1>3, <1>4, <1>9
<1>12. Complete(s) \in Int /\ Complete(s) <= to /\ from = Complete(s) + 1
  BY <1>0, <1>1 DEF from, to, Complete
<1>13. \A n \in from .. to : Complete(s) < n /\ n <= to
  BY <1>3, <1>12
<1> QED BY <1>1, <1>8, <1>10, <1>11, <1>12, <1>13 DEF to

-----------------------------------------------------------------------------
(* Types *)

TypeInv == TypeOK /\ ShakesFirst

\* Every step keeps the types.
LEMMA TypeStep ==
    ASSUME TypeInv, [Next]_vars
    PROVE  TypeInv'
<1> USE DEF TypeInv, TypeOK
<1>1. NoStream \notin Streams /\ Echo \in Frames /\ NalCount \in Nat \ {0} /\ Nals \subseteq Frames
  BY StreamsAssumption, NalCountAssumption DEF Frames
<1>2. ASSUME NEW s \in Streams,
             \/ AskStart(s) \/ BeginStart(s) \/ OpenFails(s) \/ DropAudio(s) \/ LoadAudio(s)
             \/ Install(s) \/ ClearParams(s) \/ DropFrames(s) \/ FinishStart(s)
      PROVE  TypeInv'
  <2> USE DEF ShakesFirst, Goto, cacheVars, bufferVars, loopVars, sessionVars, socketVars
  <2>1. CASE AskStart(s) \/ BeginStart(s) \/ OpenFails(s) \/ FinishStart(s)
    BY <2>1 DEF AskStart, BeginStart, OpenFails, FinishStart
  <2>2. CASE DropAudio(s)
    BY <2>2 DEF DropAudio
  <2>3. CASE Install(s) \/ ClearParams(s)
    BY <2>3 DEF Install, ClearParams
  <2>4. CASE DropFrames(s)
    <3>1. frames' \in Seq(Frames) /\ Len(frames') <= max_frames
      BY <2>4, EmptySeq, FramesAssumption DEF DropFrames
    <3> QED BY <2>4, <3>1 DEF DropFrames
  <2>5. CASE LoadAudio(s)
    <3>1. PICK i \in 1 .. AudioChunks : audio' = audio \cup {<<s, i>>}
      BY <2>5 DEF LoadAudio
    <3>2. audio' \subseteq Streams \X (1 .. AudioChunks)
      BY <3>1
    <3> QED BY <2>5, <3>2 DEF LoadAudio
  <2> QED BY <1>2, <2>1, <2>2, <2>3, <2>4, <2>5
<1>3. ASSUME NEW s \in Streams, Stop(s) \/ Retire(s) PROVE TypeInv'
  BY <1>3 DEF Stop, Retire, ShakesFirst, requestVars, cacheVars, bufferVars, loopVars, sessionVars,
              socketVars
<1>4. CASE Poll
  <2>1. frames' \in Seq(Frames) /\ Len(frames') <= max_frames
    BY <1>4, EmptySeq, FramesAssumption DEF Poll
  <2>2. Range(frames) \subseteq Frames
    BY LenProperties DEF Range
  <2>3. handed' \subseteq Nals
    BY <1>4, <2>2 DEF Poll, Frames
  <2> QED BY <1>4, <2>1, <2>3 DEF Poll, ShakesFirst, requestVars, cacheVars, loopVars, sessionVars,
                                  socketVars
<1>5. CASE Collect
  BY <1>5 DEF Collect, ShakesFirst, requestVars, cacheVars, bufferVars, sessionVars, socketVars
<1>6. ASSUME NEW s \in ids, StartOne(s) PROVE TypeInv'
  BY <1>6 DEF StartOne, ShakesFirst, requestVars, cacheVars, bufferVars
<1>7. CASE ReceiveSyn \/ ReceiveAck \/ ReceiveFin \/ ResendHandshake
  BY <1>7 DEF ReceiveSyn, ReceiveAck, ReceiveFin, ResendHandshake, Take, ShakesFirst, requestVars, cacheVars,
              bufferVars, loopVars, sessionVars
<1>8. CASE ReceiveSynAck
  <2>1. PICK left \in Take("SYN|ACK") :
        \/ shakes' = left /\ UNCHANGED <<hs, sent, captures>>
        \/ \E t \in active : \E k \in 1 .. NalCount :
            /\ hs[t] = "Handshaking" /\ shakes' = left \cup {"ACK"}
            /\ hs' = [hs EXCEPT ![t] = "Active"] /\ FillWindow(t, k)
    BY <1>8 DEF ReceiveSynAck
  <2>2. shakes' \subseteq {"SYN", "SYN|ACK", "ACK"}
    BY <2>1 DEF Take
  <2>3. /\ hs' \in [Streams -> {"Handshaking", "Active"}]
        /\ sent' \in [Streams -> 0 .. NalCount] /\ captures' \in Seq(Nals) /\ ShakesFirst'
    <3>1. CASE UNCHANGED <<hs, sent, captures>>
      BY <3>1 DEF ShakesFirst
    <3>2. ASSUME NEW t \in active, NEW k \in 1 .. NalCount, hs[t] = "Handshaking",
                 hs' = [hs EXCEPT ![t] = "Active"], FillWindow(t, k)
          PROVE  /\ hs' \in [Streams -> {"Handshaking", "Active"}]
                 /\ sent' \in [Streams -> 0 .. NalCount] /\ captures' \in Seq(Nals) /\ ShakesFirst'
      <4>1. k \in 1 .. NalCount - sent[t]
        BY <1>1, <3>2 DEF ShakesFirst
      <4>2. /\ sent' = [sent EXCEPT ![t] = sent[t] + k] /\ sent' \in [Streams -> 0 .. NalCount]
            /\ captures' \in Seq(Nals)
        BY <3>2, <4>1, FillEffect
      <4> QED BY <3>2, <4>2 DEF ShakesFirst
    <3> QED BY <2>1, <3>1, <3>2
  <2> QED BY <1>8, <2>2, <2>3 DEF ReceiveSynAck, requestVars, cacheVars, bufferVars
<1>9. ASSUME NEW s \in Streams, Send(s) PROVE TypeInv'
  <2>1. PICK k \in 1 .. NalCount - sent[s] : FillWindow(s, k)
    BY <1>9 DEF Send
  <2>2. /\ sent' = [sent EXCEPT ![s] = sent[s] + k] /\ sent' \in [Streams -> 0 .. NalCount]
        /\ captures' \in Seq(Nals)
    BY <2>1, FillEffect
  <2>3. hs' = hs /\ hs[s] # "Handshaking"
    BY <1>9 DEF Send
  <2>4. ShakesFirst'
    BY <2>2, <2>3 DEF ShakesFirst
  <2> QED BY <1>9, <2>2, <2>4 DEF Send, requestVars, cacheVars, bufferVars
<1>10. ASSUME NEW s \in Streams, NEW n \in 1 .. NalCount, ReceiveData(s, n) PROVE TypeInv'
  <2>1. frames' \in Seq(Frames) /\ Len(frames') <= max_frames
    BY <1>1, <1>10, PushFrameEffect DEF ReceiveData
  <2> QED BY <1>10, <2>1 DEF ReceiveData, ShakesFirst, requestVars, cacheVars, loopVars, sessionVars
<1>11. CASE CacheNal
  <2>1. captures # <<>> /\ Head(captures) \in Nals
    BY <1>11, HeadTailProperties DEF CacheNal
  <2>2. Head(captures)[1] \in Streams
    BY <2>1 DEF Nals
  <2>3. params' \in Streams \cup {NoStream} /\ keyframe' \in Streams \cup {NoStream}
    BY <1>11, <2>2 DEF CacheNal
  <2> QED BY <1>11, <2>3 DEF CacheNal, ShakesFirst, requestVars, bufferVars, sessionVars, socketVars
<1>12. CASE PushNal
  <2>1. captures # <<>> /\ Head(captures) \in Nals /\ Tail(captures) \in Seq(Nals)
    BY <1>12, HeadTailProperties DEF PushNal
  <2>2. frames' \in Seq(Frames) /\ Len(frames') <= max_frames
    BY <1>1, <1>12, <2>1, PushFrameEffect DEF PushNal
  <2> QED BY <1>12, <2>1, <2>2 DEF PushNal, ShakesFirst, requestVars, cacheVars, sessionVars, socketVars
<1>13. CASE UNCHANGED vars
  BY <1>13 DEF vars, ShakesFirst, requestVars, cacheVars, bufferVars, loopVars, sessionVars, socketVars
<1> QED BY <1>2, <1>3, <1>4, <1>5, <1>6, <1>7, <1>8, <1>9, <1>10, <1>11, <1>12, <1>13
        DEF Next, StartRequest, Loop

\* They hold at first.
LEMMA AdminInit == Init => TypeInv
<1> SUFFICES ASSUME Init PROVE TypeInv
  OBVIOUS
<1>1. /\ frames \in Seq(Frames) /\ captures \in Seq(Nals) /\ Len(frames) <= max_frames
  BY EmptySeq, FramesAssumption DEF Init
<1>2. 0 \in 0 .. NalCount
  BY NalCountAssumption
<1>3. /\ request \in [Streams -> {"none", "waiting", "opening", "refused", "loading", "installed",
                                   "cleared", "dropped", "done"}]
      /\ hs \in [Streams -> {"Handshaking", "Active"}]
      /\ sent \in [Streams -> 0 .. NalCount]
  BY <1>2 DEF Init
<1>4. ShakesFirst
  BY DEF Init, ShakesFirst
<1> QED BY <1>1, <1>3, <1>4 DEF Init, TypeInv, TypeOK

\* Type correctness: among it, that the frame buffer never outgrows its capacity
\* (frame_buffer.cpp).
THEOREM AdminTypeCorrect == Spec => []TypeOK
<1>1. Init => TypeInv
  BY AdminInit
<1>2. TypeInv => TypeOK
  BY DEF TypeInv
<1> QED BY <1>1, <1>2, TypeStep, PTL DEF Spec

-----------------------------------------------------------------------------
(* What is cached and captured *)

\* The NAL unit that goes to the buffer is not among those left to capture.
LEMMA NextCapture ==
    ASSUME NEW c \in Seq(Nals), c # <<>>
    PROVE  /\ Head(c) \in Range(c) /\ Head(c) \in Nals /\ Range(Tail(c)) \subseteq Range(c)
           /\ (\A i, j \in DOMAIN c : c[i] = c[j] => i = j)
              => /\ Head(c) \notin Range(Tail(c))
                 /\ \A i, j \in DOMAIN Tail(c) : Tail(c)[i] = Tail(c)[j] => i = j
<1>1. /\ Tail(c) \in Seq(Nals) /\ Len(Tail(c)) = Len(c) - 1 /\ Head(c) \in Nals
      /\ \A i \in 1 .. Len(Tail(c)) : Tail(c)[i] = c[i + 1]
  BY HeadTailProperties
<1>2. /\ Len(c) \in Nat /\ DOMAIN c = 1 .. Len(c) /\ DOMAIN Tail(c) = 1 .. Len(c) - 1
      /\ Len(c) \in Nat \ {0}
  BY <1>1, LenProperties, EmptySeq
<1>3. Head(c) = c[1] /\ 1 \in DOMAIN c
  BY <1>2
<1>4. \A i \in 1 .. Len(c) - 1 : i + 1 \in DOMAIN c /\ Tail(c)[i] = c[i + 1] /\ i + 1 # 1
  BY <1>1, <1>2
<1>5. Range(Tail(c)) \subseteq Range(c)
  BY <1>2, <1>4 DEF Range
<1>6. ASSUME \A i, j \in DOMAIN c : c[i] = c[j] => i = j
      PROVE  /\ Head(c) \notin Range(Tail(c))
             /\ \A i, j \in DOMAIN Tail(c) : Tail(c)[i] = Tail(c)[j] => i = j
  <2>1. Head(c) \notin Range(Tail(c))
    BY <1>2, <1>3, <1>4, <1>6 DEF Range
  <2>2. ASSUME NEW i \in 1 .. Len(c) - 1, NEW j \in 1 .. Len(c) - 1, Tail(c)[i] = Tail(c)[j]
        PROVE  i = j
    <3>1. i + 1 = j + 1
      BY <1>4, <1>6, <2>2
    <3> QED BY <3>1
  <2> QED BY <1>2, <2>1, <2>2
<1> QED BY <1>1, <1>3, <1>5, <1>6 DEF Range

\* What a step of the loop that sends does: it captures NAL units of an active stream.
LEMMA SendEffect ==
    ASSUME TypeInv, ReceiveSynAck \/ \E s \in Streams : Send(s)
    PROVE  /\ captures = <<>> /\ UNCHANGED <<requestVars, active, cacheVars, bufferVars>>
           /\ \/ UNCHANGED <<sent, captures>>
              \/ \E s \in active : \E k \in 1 .. NalCount - sent[s] : FillWindow(s, k)
<1>1. CASE ReceiveSynAck
  <2>1. \A t \in Streams : hs[t] = "Handshaking" => NalCount - sent[t] = NalCount
    BY NalCountAssumption DEF TypeInv, ShakesFirst
  <2> QED BY <1>1, <2>1 DEF ReceiveSynAck, LoopIdle, TypeInv, TypeOK
<1>2. ASSUME NEW s \in Streams, Send(s) 
      PROVE  /\ captures = <<>> /\ UNCHANGED <<requestVars, active, cacheVars, bufferVars>>
             /\ \E t \in active : \E k \in 1 .. NalCount - sent[t] : FillWindow(t, k)
  BY <1>2 DEF Send, LoopIdle
<1> QED BY <1>1, <1>2

FreshInv == CapturesActive /\ CachesFresh /\ FramesFresh

\* A start request empties caches and buffer in turn; what the loop captures in between
\* is of the stream that is active by then.
LEMMA FreshStep ==
    ASSUME TypeInv, RequestInv, FreshInv, [Next]_vars
    PROVE  FreshInv'
<1> USE DEF FreshInv
<1>0. /\ request \in [Streams -> {"none", "waiting", "opening", "refused", "loading", "installed",
                                  "cleared", "dropped", "done"}]
      /\ active \subseteq Streams /\ captures \in Seq(Nals) /\ frames \in Seq(Frames)
      /\ Len(frames) <= max_frames
  BY DEF TypeInv, TypeOK
<1>1. Range(<<>>) = {}
  BY DEF Range
\* The caches, the buffer and the captures stay, and no active stream gets so far
\* as to empty one.
<1>2. ASSUME UNCHANGED <<cacheVars, frames, captures>>, active' \subseteq active,
             active' = active \/ captures = <<>>,
             \A t \in Streams : request'[t] \in {"cleared", "dropped", "done"}
                => request'[t] = request[t] \/ (request[t] = "dropped" /\ request'[t] = "done")
      PROVE  FreshInv'
  <2>1. CapturesActive'
    BY <1>1, <1>2 DEF CapturesActive
  <2>2. CachesFresh'
    BY <1>0, <1>2 DEF CachesFresh, cacheVars
  <2>3. FramesFresh'
    BY <1>0, <1>2 DEF FramesFresh
  <2> QED BY <2>1, <2>2, <2>3
<1>3. ASSUME NEW s \in Streams,
             AskStart(s) \/ BeginStart(s) \/ OpenFails(s) \/ DropAudio(s) \/ LoadAudio(s) \/ FinishStart(s)
      PROVE  FreshInv'
  <2>1. /\ UNCHANGED <<cacheVars, frames, captures, active>>
        /\ \/ request' = request
           \/ \E there \in {"waiting", "opening", "refused", "loading"} : Goto(s, there)
           \/ request[s] = "dropped" /\ Goto(s, "done")
    BY <1>3 DEF AskStart, BeginStart, OpenFails, DropAudio, LoadAudio, FinishStart, At, bufferVars,
                loopVars
  <2>2. \A t \in Streams : request'[t] \in {"cleared", "dropped", "done"}
            => request'[t] = request[t] \/ (request[t] = "dropped" /\ request'[t] = "done")
    BY <1>0, <2>1 DEF Goto
  <2> QED BY <1>2, <2>1, <2>2
<1>4. ASSUME NEW s \in Streams, Install(s) PROVE FreshInv'
  <2>1. /\ active' = {s} /\ request'[s] = "installed" /\ captures = <<>> /\ captures' = captures
    BY <1>0, <1>4 DEF Install, Goto, ActiveFree, loopVars
  <2> QED BY <1>1, <2>1 DEF CapturesActive, CachesFresh, FramesFresh
<1>5. ASSUME NEW s \in Streams, ClearParams(s) PROVE FreshInv'
  <2>1. /\ UNCHANGED <<frames, captures, active>> /\ params' = NoStream /\ keyframe' = NoStream
        /\ request'[s] = "cleared" /\ \A t \in Streams : t # s => request'[t] = request[t]
    BY <1>0, <1>5 DEF ClearParams, Goto, bufferVars, loopVars
  <2> QED BY <1>0, <2>1 DEF CapturesActive, CachesFresh, FramesFresh
<1>6. ASSUME NEW s \in Streams, DropFrames(s) PROVE FreshInv'
  <2>1. /\ UNCHANGED <<cacheVars, captures, active>> /\ frames' = <<>> /\ request[s] = "cleared"
        /\ request'[s] = "dropped" /\ \A t \in Streams : t # s => request'[t] = request[t]
    BY <1>0, <1>6 DEF DropFrames, At, Goto, loopVars
  <2>2. CachesFresh'
    BY <1>0, <2>1 DEF CachesFresh, cacheVars
  <2> QED BY <1>1, <2>1, <2>2 DEF CapturesActive, FramesFresh
<1>7. ASSUME NEW s \in Streams, Stop(s) \/ Retire(s) PROVE FreshInv'
  BY <1>2, <1>7 DEF Stop, Retire, ActiveFree, LoopIdle, requestVars, bufferVars, loopVars
<1>8. CASE Poll
  BY <1>1, <1>8 DEF Poll, requestVars, cacheVars, loopVars, CapturesActive, CachesFresh, FramesFresh
<1>9. CASE \/ Collect \/ (\E s \in ids : StartOne(s))
           \/ ReceiveSyn \/ ReceiveAck \/ ReceiveFin \/ ResendHandshake
           \/ UNCHANGED vars
  BY <1>2, <1>9 DEF Collect, StartOne, ReceiveSyn, ReceiveAck, ReceiveFin, ResendHandshake, vars, requestVars,
                    bufferVars, loopVars
<1>10. CASE ReceiveSynAck \/ \E s \in Streams : Send(s)
  <2>1. /\ captures = <<>> /\ UNCHANGED <<requestVars, active, cacheVars, bufferVars>>
        /\ \/ UNCHANGED <<sent, captures>>
           \/ \E s \in active : \E k \in 1 .. NalCount - sent[s] : FillWindow(s, k)
    BY <1>10, SendEffect
  <2>2. CachesFresh' /\ FramesFresh'
    BY <2>1 DEF CachesFresh, FramesFresh, requestVars, cacheVars, bufferVars
  <2>3. ASSUME NEW s \in active, NEW k \in 1 .. NalCount - sent[s], FillWindow(s, k)
        PROVE  CapturesActive'
    <3>1. \A x \in Range(captures') : x[1] = s
      BY <1>0, <2>3, FillEffect DEF TypeInv, TypeOK
    <3> QED BY <2>1, <3>1 DEF CapturesActive
  <2> QED BY <1>1, <2>1, <2>2, <2>3 DEF CapturesActive
<1>11. ASSUME NEW s \in Streams, NEW n \in 1 .. NalCount, ReceiveData(s, n) PROVE FreshInv'
  <2>1. /\ UNCHANGED <<request, active, cacheVars, captures>>
        /\ frames' = frames \/ frames' = PushFrame(frames, Echo)
    BY <1>11 DEF ReceiveData, requestVars, loopVars
  <2>2. Range(frames') \subseteq Range(frames) \cup {Echo}
    BY <1>0, <2>1, PushFrameEffect DEF Frames
  <2> QED BY <2>1, <2>2 DEF CapturesActive, CachesFresh, FramesFresh, cacheVars
<1>12. CASE CacheNal
  <2>1. /\ UNCHANGED <<request, active, frames, captures>> /\ captures # <<>>
        /\ params' \in {params, Head(captures)[1]} /\ keyframe' \in {keyframe, Head(captures)[1]}
    BY <1>12 DEF CacheNal, requestVars, bufferVars
  <2>2. Head(captures)[1] \in active
    BY <1>0, <2>1, NextCapture DEF CapturesActive
  <2>3. \A s \in active : s = Head(captures)[1]
    BY <2>2 DEF RequestInv, OneActive
  <2> QED BY <2>1, <2>3 DEF CapturesActive, CachesFresh, FramesFresh
<1>13. CASE PushNal
  <2>1. /\ UNCHANGED <<request, active, cacheVars>> /\ captures # <<>> /\ captures' = Tail(captures)
        /\ frames' = PushFrame(frames, Head(captures))
    BY <1>13 DEF PushNal, requestVars
  <2>2. /\ Head(captures)[1] \in active /\ Head(captures) \in Nals
        /\ Range(captures') \subseteq Range(captures)
    BY <1>0, <2>1, NextCapture DEF CapturesActive
  <2>3. Range(frames') \subseteq Range(frames) \cup {Head(captures)}
    BY <1>0, <2>1, <2>2, PushFrameEffect DEF Frames
  <2>4. \A s \in active : Head(captures) \in {s} \X (1 .. NalCount)
    BY <2>2 DEF RequestInv, OneActive, Nals
  <2>5. CapturesActive' /\ CachesFresh'
    BY <2>1, <2>2 DEF CapturesActive, CachesFresh, cacheVars
  <2>6. FramesFresh'
    BY <2>1, <2>3, <2>4 DEF FramesFresh
  <2> QED BY <2>5, <2>6
<1> QED BY <1>3, <1>4, <1>5, <1>6, <1>7, <1>8, <1>9, <1>10, <1>11, <1>12, <1>13
        DEF Next, StartRequest, Loop

\* Once a start request is done and no other is under way, the caches have nothing of
\* an earlier stream, and the buffer nothing of one that was captured on the way out
\* (transport.cpp:460-470).  Frames captured on arrival are excepted: the DATA of an
\* earlier stream may still come in, and goes to the buffer (transport.cpp:252-279).
THEOREM CaptureIsFresh == Spec => []FreshCapture
<1>1. Init => TypeInv /\ FreshInv
  <2> SUFFICES ASSUME Init PROVE FreshInv
    BY AdminInit
  <2> QED BY DEF Init, FreshInv, CapturesActive, CachesFresh, FramesFresh, Range
<1>2. TypeInv /\ RequestInv /\ RequestInv' /\ FreshInv /\ [Next]_vars => TypeInv' /\ FreshInv'
  BY TypeStep, FreshStep
<1>3. RequestInv /\ FreshInv => FreshCapture
  BY DoneWhenFree DEF FreshCapture, FreshInv, CachesFresh, FramesFresh
<1> QED BY <1>1, <1>2, <1>3, RequestInvariant, PTL DEF Spec

\* A NAL unit goes from the loop to the buffer and from there to one poll, or is lost.
LEMMA OnePlaceStep ==
    ASSUME TypeInv, InOnePlace, [Next]_vars
    PROVE  InOnePlace'
<1> USE DEF InOnePlace, HandedOnce
<1>0. /\ captures \in Seq(Nals) /\ frames \in Seq(Frames) /\ Len(frames) <= max_frames
      /\ handed \subseteq Nals /\ sent \in [Streams -> 0 .. NalCount] /\ active \subseteq Streams
  BY DEF TypeInv, TypeOK
<1>1. /\ Range(<<>>) = {} /\ Echo \notin Nals /\ Range(captures) \subseteq Nals
      /\ Range(frames) \subseteq Nals \cup {Echo}
  BY <1>0, StreamsAssumption, LenProperties DEF Range, Nals, Echo, Frames
\* Nothing moves; or what is in the buffer goes to a poll or is dropped.
<1>2. ASSUME UNCHANGED <<captures, sent, frames, handed>> PROVE InOnePlace'
  BY <1>2 DEF Complete
<1>3. ASSUME UNCHANGED <<captures, sent>>, frames' = <<>>,
             handed' \subseteq handed \cup (Range(frames) \ {Echo})
      PROVE  InOnePlace'
  BY <1>1, <1>3 DEF Complete
<1>4. ASSUME NEW s \in Streams,
             AskStart(s) \/ (StartRequest(s) /\ ~DropFrames(s)) \/ Stop(s) \/ Retire(s)
      PROVE  UNCHANGED <<captures, sent, frames, handed>>
  BY <1>4 DEF StartRequest, AskStart, BeginStart, OpenFails, DropAudio, LoadAudio, Install, ClearParams,
              FinishStart, Stop, Retire, bufferVars, loopVars, sessionVars
<1>5. ASSUME NEW s \in Streams, DropFrames(s) PROVE InOnePlace'
  BY <1>3, <1>5 DEF DropFrames, loopVars, sessionVars
<1>6. CASE Poll
  BY <1>3, <1>6 DEF Poll, loopVars, sessionVars
<1>7. CASE \/ Collect \/ (\E s \in ids : StartOne(s))
           \/ ReceiveSyn \/ ReceiveAck \/ ReceiveFin \/ ResendHandshake
           \/ CacheNal \/ UNCHANGED vars
  BY <1>2, <1>7 DEF Collect, StartOne, ReceiveSyn, ReceiveAck, ReceiveFin, ResendHandshake, CacheNal, vars,
                    bufferVars, loopVars, sessionVars
<1>8. ASSUME NEW s \in Streams, NEW n \in 1 .. NalCount, ReceiveData(s, n) PROVE InOnePlace'
  <2>1. /\ UNCHANGED <<captures, sent, handed>>
        /\ frames' = frames \/ frames' = PushFrame(frames, Echo)
    BY <1>8 DEF ReceiveData, loopVars, sessionVars
  <2>2. Range(frames') \subseteq Range(frames) \cup {Echo}
    BY <1>0, <2>1, PushFrameEffect DEF Frames
  <2> QED BY <1>0, <1>1, <2>1, <2>2 DEF Complete
<1>9. CASE ReceiveSynAck \/ \E s \in Streams : Send(s)
  <2>1. /\ captures = <<>> /\ UNCHANGED bufferVars
        /\ \/ UNCHANGED <<sent, captures>>
           \/ \E s \in active : \E k \in 1 .. NalCount - sent[s] : FillWindow(s, k)
    BY <1>9, SendEffect
  <2>2. CASE UNCHANGED <<sent, captures>>
    BY <1>2, <2>1, <2>2 DEF bufferVars
  <2>3. ASSUME NEW s \in active, NEW k \in 1 .. NalCount - sent[s], FillWindow(s, k)
        PROVE  InOnePlace'
    <3>1. /\ sent' = [sent EXCEPT ![s] = sent[s] + k] /\ sent' \in [Streams -> 0 .. NalCount]
          /\ \A x \in Range(captures') : x[1] = s /\ Complete(s) < x[2] /\ x[2] <= Complete(s)'
          /\ \A i, j \in DOMAIN captures' : captures'[i] = captures'[j] => i = j
          /\ Complete(s) <= Complete(s)' /\ captures' \in Seq(Nals)
      BY <1>0, <2>3, FillEffect
    <3> DEFINE old == (Range(frames) \ {Echo}) \cup handed
    <3>2. old \subseteq Nals /\ \A x \in old : x[2] <= Complete(x[1])
      BY <1>0, <1>1
    <3>3. \A t \in Streams : /\ t # s => Complete(t)' = Complete(t)
                             /\ Complete(t) \in Int /\ Complete(t)' \in Int
      BY <1>0, <3>1, NalCountAssumption DEF Complete
    <3>4. \A x \in old : x[1] \in Streams /\ x[2] \in Int
      BY <3>2 DEF Nals
    <3>5. \A x \in old : x[2] <= Complete(x[1])'
      BY <1>0, <3>1, <3>2, <3>3, <3>4
    <3>6. Range(captures') \subseteq Nals
      BY <3>1, LenProperties DEF Range
    <3>7. Range(captures') \cap old = {}
      <4> SUFFICES ASSUME NEW x \in Range(captures'), x \in old PROVE FALSE
        OBVIOUS
      <4>1. x[2] \in Int /\ Complete(s) \in Int /\ x[2] <= Complete(s) /\ Complete(s) < x[2]
        BY <1>0, <3>1, <3>2, <3>3, <3>4
      <4> QED BY <4>1
    <3>8. \A x \in Range(captures') : x[2] <= Complete(x[1])'
      BY <3>1
    <3> QED BY <1>1, <2>1, <3>1, <3>5, <3>6, <3>7, <3>8 DEF bufferVars
  <2> QED BY <2>1, <2>2, <2>3
<1>10. CASE PushNal
  <2>1. /\ UNCHANGED <<sent, handed>> /\ captures # <<>> /\ captures' = Tail(captures)
        /\ frames' = PushFrame(frames, Head(captures))
    BY <1>10 DEF PushNal, sessionVars
  <2>2. /\ Head(captures) \in Range(captures) /\ Head(captures) \in Nals
        /\ Range(captures') \subseteq Range(captures) /\ Head(captures) \notin Range(captures')
        /\ \A i, j \in DOMAIN captures' : captures'[i] = captures'[j] => i = j
    BY <1>0, <2>1, NextCapture
  <2>3. Range(frames') \subseteq Range(frames) \cup {Head(captures)}
    BY <1>0, <2>1, <2>2, PushFrameEffect DEF Frames
  <2> QED BY <2>1, <2>2, <2>3 DEF Complete
<1> QED BY <1>2, <1>4, <1>5, <1>6, <1>7, <1>8, <1>9, <1>10 DEF Next, StartRequest, Loop

\* No frame captured on the way out is handed to two polls (transport.cpp:505).
THEOREM FramesHandedOnce == Spec => []HandedOnce
<1>1. Init => TypeInv /\ InOnePlace
  <2> SUFFICES ASSUME Init PROVE InOnePlace
    BY AdminInit
  <2> QED BY DEF Init, InOnePlace, HandedOnce, Range
<1>2. TypeInv /\ InOnePlace /\ [Next]_vars => TypeInv' /\ InOnePlace'
  BY TypeStep, OnePlaceStep
<1>3. InOnePlace => HandedOnce
  BY DEF InOnePlace
<1> QED BY <1>1, <1>2, <1>3, PTL DEF Spec
=============================================================================
