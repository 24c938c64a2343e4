# SocketCast: a verification development

TLA+ models of SocketCast, TLC configurations that check them on small
instances, and TLAPS proofs of what holds for every instance. Paths below are
relative to `src/` of the repository unless they begin with `src/`.

SocketCast sends live video over its own UDP protocol (the C++ engine), lets a
control plane (FastAPI and Redis) start streams and keep sessions, and shows
them in a browser (React). Seven behaviours make it hard to get right, and they
decide what is modelled here:

1. a selective-repeat transport over a network that loses, duplicates and
   reorders, whose two hosts restart independently and share no connection id;
2. an engine whose admin threads start and stop streams, and poll them, while
   the event loop runs the very same streams over a loopback socket;
3. control-plane handlers that read a Redis record, wait, and write it back;
4. a destructive hand-out of frames (`/admin/frames` drains the buffer) to
   dashboards that come and go, with resent keyframes in between;
5. a decoder in the browser that begins with a keyframe, is spared gaps that are
   too large, and is replaced, with all that depends on it, when it fails;
6. a process with a detached thread per admin connection, requests that come in
   pieces or take for ever, and a signal that may stop it at any point;
7. computations with many boundary cases: NAL units cut into chunks and put
   together again twice, a time-out and a token bucket driven by measurements, a
   jitter buffer that overruns.

## Inventory

| Part | State | Operations | What makes it correct |
|---|---|---|---|
| session (`engine/src/session.cpp`) | `state_`, `failed_`, `fin_sent_`, `handshake_retries_`, `next_seq_`, `in_flight_`, `next_expected_`, `reorder_` | `start`, `on_packet`, `on_tick`, `fill_window`, `deliver_in_order` | what is acknowledged was delivered; delivery is in order, once, and from one process; windows agree; transfers end |
| packet (`packet.cpp`) | none | serialize, deserialize, checksum | damaged datagrams are rejected |
| transport (`transport.cpp`) | `active_streams_`, `pending_stream_starts_`, caches, buffers, four mutexes | `run`, `on_readable`, `start_pending_streams`, `on_start_stream`, `on_stop_stream`, `on_get_frames`, `on_get_audio`, `push_captured_frame` | an accepted start is not lost; caches and buffers belong to the active stream; a frame is handed out once |
| frame_buffer, audio_buffer | a bounded queue each | push, drain, peek | bounded, oldest dropped first |
| main, admin_server (`main.cpp`, `admin_server.cpp`) | `running_` of Transport and of AdminServer, `listen_fd_`, a thread that accepts and one per connection | start, accept, `handle_connection`, signal, stop, join | every request is read whole and answered, none waits for a slow start; a stop ends the process and nothing else does |
| rto, rate_controller | `srtt_us_`, `rttvar_us_`; `rate_bps_`, `tokens_`, `last_refill_`, RTT samples, two counters | `onRttSample`, `currentRto`; `onAck`, `onLoss`, `onTick`, `consumeTokens` | the time-out stays with the path; media sent for the first time stays within the rate |
| jitter_buffer | packets in the order they were delivered | `push`, `pop` | order, initiator by initiator, and an overrun costs the least important packets |
| nal_parser, media_source, media_sink | the file, a queue of chunks with times | `scan_annex_b`, `chunk_payload`, `build_chunk_queue`, `next_chunks`; write | no NAL unit lost, split or glued to another; times increase |
| native client (`client/src/client.cpp`) | a Transport it never runs, a byte buffer | display loop | |
| sessions, metrics API (`control-plane/app/api`) | Redis records `session:{id}`, `metrics:{id}` | create, get, list, update, delete; read and write metrics | a delete is final; states follow sockets |
| bridge (`control-plane/app/bridge/websocket_bridge.py`) | a coroutine per WebSocket, gauges | `metrics_stream`, `stream_bridge` | gauges count open sockets; audio reaches each dashboard |
| stream hook (`dashboard/src/hooks/useStream.ts`) | decoder, `needKey`, `highestDecodedPtsUs`, `renderQueue` | `onmessage`, decoder callbacks, `renderLoop`, cleanup | a decoder's pictures never go back; it begins with a keyframe and meets no gap beyond the tolerated one |
| other hooks, components, configuration, deployment | | thin wrappers, rendering | |

How they interact. Two engines exchange UDP datagrams (session). Within one
engine, admin threads call into transport while `Transport::run` owns the
sockets; they share `active_streams_` and `pending_stream_starts_` under one
mutex, the SPS/PPS/keyframe caches under another, and buffers with their own.
The control plane calls the admin port over HTTP with a timeout; each dashboard
WebSocket is one coroutine that polls the engine and forwards what it gets. The
API handlers and metrics sockets share Redis records, without transactions.

`PROJECT.json` lists every part with its status under `components`, and under
`hazards` each place where this can go wrong, with the property that watches it
or the reason why none does yet.

## Modules

```
Wire  <-  Initiator, Listener  <-  SessionLink  <-  MCSessionLink, SessionProofs
                                   SessionLink uses Stream == INSTANCE ReliableStream
                                   and LiveSession == INSTANCE LiveStream
SessionProofs  <-  StreamProofs
AdminStreams   <-  MCAdminStreams, AdminStreamsProofs
SessionStore   <-  MCSessionStore, SessionStoreProofs
Viewer         <-  MCViewer, ViewerProofs
Engine         <-  MCEngine, EngineProofs
MediaPath, Congestion, JitterBuffer  <-  MCAlgorithms
Congestion     <-  CongestionProofs
MediaPath, JitterBuffer  <-  MediaProofs
```

**Wire** has the datagrams and what becomes of one that was received. **Initiator**
and **Listener** are the two roles of `Session` as `Transport::run` drives them:
one action per kind of datagram in `on_packet`, one per outcome of `on_tick`.
Each is the whole handler: an acknowledgement that empties the flight sends the
FIN, any other fills the window again, in one step. **SessionLink** composes
them, adds the network, and states the properties. **ReliableStream** is what
the protocol promises its user with nothing of the protocol in sight;
`SessionLink!Stream` instantiates it with `sent <- next_seq`,
`confirmed <- acked`, `heard <- peer`, `delivered <- next_expected` and the
outcome as `is_complete()` and `failed()` tell it. **LiveStream** is what is left of
the promise when packets may be given up as late and either host restarted: a
listener that may start over at any time, and a sender that settles each packet once,
as confirmed or as given up (`abandoned <- dropped`, `delivered <- got`).

| Model | Code |
|---|---|
| `inc`, `running` | the sender's process, known to the listener by its UDP port, and whether `run` has returned |
| `istate`, `ifailed`, `fin_sent`, `hs_retries`; `lstate`, `fin_received`, `lhs_retries` | `state_`, `failed_`, `fin_sent_`, `fin_received_`, `handshake_retries_` of either session |
| `taken`, `next_seq`, `in_flight`, `retries` | `dummy_remaining_` or chunks popped, `next_seq_`, `in_flight_` |
| `next_expected`, `reorder`, `peer`, `syn_seen` | `next_expected_`, `reorder_`, `peer_`, whether `last_handshake_sent_` is set |
| `restarts` | listener processes killed so far (`MaxRestarts`) |
| `acked`, `dropped`, `got`, `sources` | history: what was acknowledged and given up, and what was delivered from whom |
| `up`, `down`, `epoch`, `losses` | the network |

**AdminStreams** is the engine in listen mode under admin requests. A step is
what one thread does between two points where another can come in: one critical
section or one datagram. A start request waits for `stream_start_mutex_`, opens
the source, replaces the audio, installs the stream, clears the caches, drops
the frames and answers, one step each. The loop collects pending starts, starts
them, shakes hands over the loopback socket, sends, captures (cache and buffer
in two steps, holding `active_streams_mutex_`) and retires streams.

**SessionStore** is one session of the control plane: its two Redis records, the
requests about it and the metrics sockets that show it. A step is what a
coroutine does between two awaits of a Redis command.

**Viewer** is the dashboard path from end to end: the start request and the
captures as a bridge can see them, the audio buffer as it fills chunk by chunk, the
rounds of `stream_bridge`, the WebSocket, and the decoder gate, decoder, render queue
and cleanup of `useStream`. A decoder that is closed leaves its last picture on the
canvas (`drawn`); `painted` tells whether the present one has drawn.

**Engine** is the process in listen mode. `main` says where main() has got to,
from the constructor of its Transport to the members its destructor takes down in
reverse order; `running`, `serving` and `listening` are the two `running_` flags
and the open `listen_fd_`; `server` is the thread that accepts, and `conn`, `raw`
and `stalled` are each connection, how much of its request was read, and whether
its client fell silent. A step is what a thread does up to a blocking call or a
flag that another may set. What a request does is in AdminStreams: here a start
holds `stream_start_mutex_` (`starter`) for as long as it likes, or is refused for
what it says (`RefuseStart`), and any other request is a poll. The loop ends by a stop
(`LeaveLoop`) or because `epoll_wait` fails (`LoopFails`).

**MediaPath** follows the bytes of one video: `Scan`, `chunk_payload` and
`ChunkQueue` are operators with the offsets and comparisons of the code, and the
two captures (`Session::fill_window` as it sends, `Transport::on_readable` as
packets arrive) are state machines over the chunks. The second takes datagrams straight
from the socket, before the session looks for duplicates and holes, so any packet that
was sent may arrive next: `came` has them as they came, and `disorder` counts those that
were not the next in turn. `Units` says what Annex B
means by a unit, independently of the scan. **Congestion** is `RtoEstimator` and
`RateController` with every call Session makes of them, on integers.
**JitterBuffer** is the buffer of a listener, with what it knows of a packet and the
SYNs that start the sequence numbers again and leave the buffer as it is.

`MC*` modules only add model values and the inputs to try; **MCAlgorithms** runs
the last three modules one at a time. `map` in `PROJECT.json` gives, for each
definition that models code, the lines it stands for.

### Abstractions

* *Time* is a number only in Congestion, JitterBuffer and as picture times. Which timers have
  expired, whether a playback deadline rules a retransmission out, how far
  pacing and tokens let the window fill, whether the keyframe-resend interval
  has passed and when a picture is due are free choices, within what the
  conditions of the code allow.
* *Data* is its identity. A packet is its sequence number; a NAL unit fits one
  packet; SPS and PPS are one unit; a checksum failure is a loss.
* *The network* of SessionLink is a set, so that with `Duplicates` a datagram
  may arrive any number of times, in any order, or never. With `Duplicates`
  FALSE it arrives at most once and at most `MaxLoss` are lost.
* *Epochs.* DATA and ACK carry nothing that tells one handshake from another. A
  SYN of process i is of epoch 2i, its other datagrams of epoch 2i+1; with
  `Overtaking` FALSE nothing arrives after a datagram of a later epoch. Within
  an epoch, which is the whole of a transfer, everything may be reordered. This is
  an assumption about the network, not a property of the code: without it (MediaLink
  has `Overtaking` TRUE) a SYN of the same process that arrives late resets the
  listener as if its sender were new.
* *Retries* are counted to `kMaxRetries`, past which no code tells them apart.
* *AdminStreams* sends to the engine's own socket, as the control plane's
  defaults do; handshake datagrams are kinds, not instances. A poll is one step:
  its two halves take two locks, and Viewer has them apart. Frames
  captured on arrival are one value, `Echo`. Every stream has stream id 1, so that what an
  earlier one left in the socket reaches the active one: such an ACK, NACK or FIN lets it
  send sooner, completes it or closes it, which `Send` and `Retire` do without a reason
  and need not do; `ReceiveFin` is what a FIN does to the listening session.
* *SessionStore.* Ids are UUIDs, so a session is created once. A failing Redis
  command has no effect. State strings are the three documented ones.
* *Viewer.* Captures cache and push in one step. A round that brings nothing is
  a round that timed out; another dashboard that drains the buffer looks the
  same to this one. Audio is a number of chunks of a stream, and what one round brings
  is one message. Sending waits while
  messages are under way (`MaxBacklog`, 0: one batch at a time). Time-outs and
  decoder errors share the budget `MaxFaults`.
* *Engine.* Lengths of requests are in blocks; what JSON and request lines say is
  parsed or not. A request that works on members which are gone may or may not
  bring the process down (`UseMembers`).
* *MediaPath.* Bytes are bytes. At most `MaxDisorder` packets arrive that are not the
  next in turn (again, late, or past others, which may be lost). Pacing and a full window only decide when
  the loop goes on. ADTS audio is left out.
* *Congestion.* Doubles are integers, rounded down; rates are bytes per unit of
  time. The thresholds of losses are the code's, the windows smaller. Only what asks
  for tokens spends them: media sent for the first time.

## Runs

Every run completes its state space; there is no depth bound. `Spec` runs have no
fairness; `FairSpec` is used only for liveness. Deadlock is not checked: a
transfer that is over, sockets that are closed and requests that are answered
really are the end.

| Run | Instance | Question and answer |
|---|---|---|
| DummyLink | 2 processes, 4 packets, window 2, 1 retry, duplicates, spurious timeouts | What does the protocol guarantee for dummy transfers, across a restart of the sender? `AckSound`, `GapRecoverable`, `WindowAgreement`, `OneSource`, `FinMeansDone`, and it implements ReliableStream. |
| MediaLink | 1 process, 3 chunks, window 2, listener restarts once, overtaking | What is left in media mode, where packets are given up and the listener forgets? `Accounted`, `FinMeansDone`, and it implements LiveStream (`ImplementsLiveStream`). |
| LossyLink | 1 process, 4 packets, 4 retries, 2 losses, fair | Does a transfer end, and end well? `Terminates`, `Completes`. |
| AdminStreams | 2 start requests, 2 NAL units, 1 audio chunk, buffer of 1, fair | Do racing starts, a stop, polls and the loop leave one consistent stream, and is every request answered? |
| SessionStore | an update, 2 deletes, a read, a post, 2 sockets, 1 failing command, expiry | What do a delete, a socket's last word and the gauge guarantee under interleaving? |
| Viewer | 1 dashboard, 2 streams of 3 pictures, 1 keyframe and 1 or 2 chunks of audio each, tolerated gap 1, buffer of 1, 1 fault | Are a decoder's pictures in order, does it begin with a keyframe and meet no large gap, and is some audio on its way before a bridge stops asking? |
| Engine | 2 connections, requests of 1 to 5 blocks with and without Content-Length, buffer of 4, 2 signals, `epoll_wait` may fail, fair | Are requests read whole, do polls get past a start that hangs, does a stop end the process, and only a stop the server? |
| Algorithms | files of up to 6 bytes out of 0, 1, 5, and of up to 3 units; chunks of 5 bytes, 2 packets out of turn; 5 acknowledgements and losses, clock to 9; 2 initiators of 4 packets through a buffer of 3, clock to 3 | Do parser, captures, time-out, bucket and jitter buffer do what their definitions say? |
| TokenDrop | media, 3 chunks | *Violated:* a chunk the token bucket refuses is lost (session.cpp:184; protocol.md says defer). |
| Concealment | media, fair, 1 loss | *Violated:* a packet given up as late is never passed by the receiver (session.cpp:256, 355; README says concealed). |
| ArrivalTimes | as Algorithms, packets in turn | *Violated:* the first picture captured on arrival gets the listener's clock and is later than all others (transport.cpp:254; useStream.ts:123 says strictly increasing, and drops the rest). |
| WipedParams | as AdminStreams, buffer of 2 | *Violated:* the start request wipes SPS/PPS its stream has just captured (transport.cpp:460). |

Bounds. A window of 2 with 4 packets lets the window slide past packets in
flight, held and delivered at once, and leaves room for a packet beyond it; two
processes are what it takes for an old datagram to meet a new transfer. One
retry reaches both sides of the limit, and LossyLink's 4 exceed what two losses
can use up. Two start requests are what a race takes; a buffer of one drops as
soon as there is a second frame. In SessionStore the two sockets and deletes are
symmetric, and no property relates three handlers. In Viewer three pictures with
a tolerated gap of one are the fewest that make a gap too large after a loss,
and two streams the fewest that repeat a time; two chunks of audio are what it takes
to peek between them. In Engine two connections are a
start and a poll, or two starts; the requests reach every side of the test that
ends the reading, the full buffer included. In Algorithms six bytes are two start
codes with a header each, in every overlap; chunks of five bytes are filled
exactly, split and left half empty by the unit bodies; two packets out of turn are a
loss and a duplicate, or two that are swapped; a jump between round trips
of 10 and 100 in five samples brings the variance to both ends; the clock passes
the second at which tokens are capped; and the jitter buffer takes more than it
holds from either of two initiators. Every property of a passing run has a mutant of mapped code that violates
it, under `mutants`; mutants are marked `Seeded fault` and unused in the models.

Fairness. LossyLink: `epoll_wait` returns at least every 10 ms, so ticks and the
test at the top of the loop happen (`Exit`, `HandshakeTick`, `RetryLimit`,
`Tick`, `SynAckTick`: weak), and what the network has not lost arrives. A timer
there expires only when nothing is in transit, so that an answer under way is
not beaten for ever; nothing forces a process to start. AdminStreams: the loop's
own steps are weakly fair; a request's are strongly fair, since it competes for
mutexes that are free again and again. Engine: main() and the accepting thread go
on (weak), since `accept` returns within a second, and so does each connection's
thread, since `recv` gives up after two; a connection that waits is accepted
(strong), for `accept` times out only when none does. How long a start takes is
not assumed, nor that clients come or a signal is sent.

## Proofs

Checked by TLAPS, for every value of the constants within the assumptions named.

| Theorem | Assumes | Says |
|---|---|---|
| `TypeCorrect` | constants' types | `TypeOK`: among others, the receiver holds one packet per number and only within its window |
| `NoPacketForgotten` | constants' types | `Accounted`: a sequence number is in flight, acknowledged or given up, and only one of these |
| `AcknowledgedIsDelivered` | `OrderedEpochs` | `AckSound` |
| `OneSourcePerSession` | `OrderedEpochs` | `OneSource` |
| `GapsAreRecoverable` | `DummyTransfer` | `GapRecoverable` |
| `WindowsAgree` | `DummyTransfer` | `WindowAgreement` |
| `FinAfterEverything` | constants' types | `FinMeansDone`, also in media mode and across restarts |
| `ImplementsReliableStream` | `DummyTransfer` | `ImplementsStream`: each step of SessionLink is one of ReliableStream or a stutter |
| `ImplementsLive` | `OrderedEpochs` | `ImplementsLiveStream`: each step of SessionLink, in both modes and with restarts of both hosts, is one of LiveStream or a stutter |
| `AdminTypeCorrect` | constants' types | `TypeOK` of AdminStreams: among others, the frame buffer stays within its capacity |
| `StartsKept` | the same | `StartNotLost` |
| `AudioCorrect` | the same | `AudioMatches`, for any number of racing start requests |
| `CaptureIsFresh` | the same | `FreshCapture`: caches and the frames captured on the way out; what is captured on arrival (`Echo`) is excepted |
| `FramesHandedOnce` | the same | `HandedOnce` |
| `SessionStoreTypeCorrect` | constants' types, kinds of handlers disjoint | `TypeOK` of SessionStore |
| `QuietDeletesAreFinal` | the same | `QuietDeleteIsFinal` |
| `SocketBehindConnected` | the same | `ConnectedHasSocket` |
| `ConnectedHasTime` | the same | `ConnectedSince` |
| `GaugeCorrect` | the same | `GaugeCoversSockets`, for any number of sockets and failing commands |
| `ViewerTypeCorrect` | constants' types, stream begins with a keyframe | `TypeOK` of Viewer |
| `PicturesInOrder` | the same | `PipelineOrdered`: the pictures of each decoder, and the canvas until one fails, for any number of dashboards, streams, pictures |
| `DecoderHasReferences` | the same | `Referenced`: of decoders given one stream only, for any tolerated gap and any keyframes |
| `NeverWithoutDecoder` | the same | `NeverBlind` |
| `AudioReaches` | the same | `AudioArrives`: some of the audio, not all of it |
| `EngineTypeCorrect` | constants' types | `TypeOK` of Engine: among others, one start request at a time |
| `RequestsWhole` | constants' types | `WholeBody`, for requests and buffers of any length |
| `ServingWhileRunning` | constants' types | `Serving` |
| `SpendingBounded` | constants' types and order of the limits | `Bucketed`: media sent for the first time, for any rates, clock steps and packet sizes |
| `TimeoutCoversPath` | the same | `RtoCovers`, for any round trips |
| `OverrunsCostTheLowest` | capacity and delay are numbers, capacity not 0 | `Playout`, for any pushes, SYNs and pops |
| `ScanFindsUnits` | none | the scan of every well-formed file, of any length, yields `Units` |
| `CapturesWhole` | files are bytes, chunks longer than 4 bytes, a frame takes time | `CapturedWhole`, for any file and chunk size |
| `ArrivesWhole` | the same | `ArrivedWhole`: the bytes over any network, whole units over one that keeps order, for any file, chunk size and interleaving |

`OrderedEpochs == ~Overtaking \/ MaxInc = 1`: with two processes and overtaking
the listener cannot know whose packets it holds. `DummyTransfer == ~MediaMode /\
~Overtaking /\ MaxRestarts = 0`: in media mode packets are given up, and a
restarted listener or a late SYN starts over at 0, which are the very gaps
nobody fills.

*Delivery* (`SessionProofs`). `AckSound` is not inductive: an ACK in transit may
be believed later. `DeliveryInv` adds that ACKs in transit tell of deliveries
(`AcksDelivered`), for which every packet held or delivered must come from the
process the listener's state is about, with everything below `next_expected`
delivered from it (`ReceivesCurrent`), for which a process other than the latest
must not have sent anything but a SYN before its SYN was heard (`HeardFirst`).
The proof has one lemma per kind of datagram; the arrivals are split by whether
they raise the epoch.

*Window* (`StreamProofs`, first half). `Accounted` is inductive with the type invariant.
`WindowInv` adds that ACKs in transit and acknowledged packets are behind
`next_expected` (`AcksBehind`), that nothing in transit is ahead of the sender
(`SentByCurrent`), and that the sender keeps to its window (`WithinWindow`). Then
a packet the listener waits for is neither acknowledged nor given up, so it is
in flight: no gap is left behind. If a packet were beyond the receive window, all of
`next_expected .. next_expected + kSendWindow` would be in flight, one more than
fit.

*Stream* (`StreamProofs`, second half). For the refinement the two invariants above do not
suffice: `StreamInv` adds that the latest epoch is one of the process the listener
is about (`FollowsLatest`), so that the abstract `heard` only grows; that only a
session which shook hands says FIN, and that a failed one is closed
(`PhasesInOrder`), so that the outcome is settled once; and that what is held was
sent (`HeldWasSent`). A delivery is then a step of the abstract stream that stays
at or below `sent`, because the packets that fill the gap are all held, and
`FinMeansDone` with `WindowInv` makes a completed transfer a complete one.
`FinMeansDone` needs, by itself, only that no datagram and no session is of a process
yet to come.

*Live stream* (`StreamProofs`, end). In media mode the windows do not agree and gaps
stay, so `WindowInv` and `StreamInv` are not to be had; what LiveStream promises needs
less. `LiveInv` says, whatever the mode and whoever restarts, that nothing in transit,
held or delivered is of a later process or ahead of what the current one sent
(`NothingAhead`), that what was delivered came from processes the listener has heard
of (`GotHeard`), and again `PhasesInOrder`; with `DeliveryInv` and `Accounted` it is
enough. A run that is delivered comes from one process because all that is held does;
from none before an earlier delivery, because the latest epoch is one of that process;
and the sender's steps are those of the abstract sender because a packet leaves the
flight as acknowledged or as given up and never both (`ProgressMaps`). MediaLink has
one process and a listener that restarts; the refinement was checked besides with
two processes (`MaxInc = 2`, `Total = 2`, `Overtaking = FALSE`), in both modes, and is
proved for any number.

*AdminStreams* (`AdminStreamsProofs`). `AudioMatches` speaks of a moment when no
request is under way; `RequestInv` says what holds in between: the request that
holds `stream_start_mutex_` is the only one at work (`Locked`), one stream is
active (`OneActive`), and the audio is part of that of the stream being loaded or
all of that of the active one (`AudioInv`). `FreshCapture` adds that the loop holds
captures of active streams only (`CapturesActive`, which is what holding
`active_streams_mutex_` while it captures is for) and that caches and buffer are
fresh from the step on which empties them (`CachesFresh`, `FramesFresh`). A NAL unit
is handed out once because it is captured when the next one is begun or the last
one was sent (`Complete`), and is with the loop, in the buffer or handed out, and
in one of these only (`InOnePlace`).

*SessionStore* (`SessionStoreProofs`). `Quieted`: after a quiet delete no handler is
about to write, and each that comes later finds no record. `GaugeInv` relates the
gauge to the sockets that are open or lost their last word to a failure, by their
number (`FiniteSetTheorems`). `ConnectedHasSocket` and `ConnectedSince` are
inductive with the types.

*Viewer* (`ViewerProofs`). `PipelineOrdered` needs the place of every picture:
what was drawn is before what waits, that before what is being decoded, and all of it
up to `highestDecodedPtsUs` (`Rising`); each way on, and each way out, keeps that.
What was drawn counts as long as its decoder is there (`Shown`): closing a decoder starts
the order again and leaves the canvas alone. `CanvasInv` says that as long as no decoder
has failed an open page has a picture on its canvas only if the present decoder drew it.
`DecoderInv` says that a decoder which asks for no keyframe was given the picture
that `highest` names. That is of the stream of the picture that comes next only if all
are of one stream, which is why `Referenced` says no more. `NeverBlind` needs a look at the engine and at the wire: SPS
and PPS are cached before the first picture is captured (`BeforeCapture`), and each
batch, on its way or being sent, brings them before its first picture
(`BatchesReady`). `AudioInv` adds only that no bridge works for a page that has not
opened its socket.

*Engine* (`EngineProofs`). `EngineInvariant` adds to the type invariant that a
thread which has stopped reading has read enough, fell silent or filled its buffer,
and that the accepting thread ends only once `serving` was cleared, which happens
after main() has left the loop.

*Congestion* (`CongestionProofs`). `Bucketed` speaks of what takes tokens, media sent
for the first time, and is not inductive: tokens not spent yet may be. The invariant counts them in, up to the last refill. For `RtoCovers` it
keeps the smoothed round trip between the least and the greatest sample and the
variance not above the greatest.

*Jitter buffer* (`MediaProofs`). `Playout` says that what was popped and what
waits, put together, rise: by initiator, and by number among those of one (`Before`). The
invariant has the two apart: each rises, everything popped is before everything that
waits, all of it before the packet that is delivered next (`Earlier`), which a SYN keeps
since that packet is then of a later initiator, and what is owed is in the one or the other. A push into a full
buffer takes a packet out of the middle; it is none that is owed, because `Victim` is of
the lowest priority there and goes only for a packet of a higher one.

*Media path* (`MediaProofs`), in three stages. First the scan. `Scan` is a recursive
function over offsets; that it exists and obeys its definition is proved by
induction on the distance from the end of the file (`ScanExists`), and so is that
from any offset on it yields the units whose marks lie there (`ScanInOrder`): each
round either steps over one byte that is no mark, or takes a unit whose start code
of three or four bytes has its mark at `m` and goes on at the next start code, which
well-formedness keeps from overlapping. Second the queue. `FlattenSeq` is recursive,
too; each chunk of the file has one place in the queue, the p-th of the k-th unit
(`At`), and what follows is the next of its unit or the first of the next one
(`InPlace`). Only the first chunk of a unit has a start code (`ChunkOfFrame`): a unit
holds no mark, it does not begin with 0, and a start code with its header fits one
chunk. Third the two state machines. Neither property is inductive: `CapturedWhole`
says nothing of what is being put together. `SendInv` says that what was sent and what is
pending make up the queue, and for some k and p that the frames in front of the k-th
are captured and p chunks of the k-th are in (`Underway`); `ReceiveInv` says the same
of the listener, without times, as long as packets came in turn (`disorder = 0`).
`BytesKept` and `BytesArrived` are the parts that hold for any file, with chunks refused
and over any network. The three were checked on the instance of Algorithms before
they were proved. That a chunk holds more than four bytes is the one assumption
on its size (the code has 1200, packet.hpp:14): a start code is never split, and the
header that on_readable reads is in the chunk that has the start code, which makes its
test that there is one (transport.cpp:275) always true.

The library's induction theorems take a predicate as a parameter, which these provers
cannot instantiate. `MediaProofs` begins with induction about sets of numbers instead
(`SetInduction`, `StrongSetInduction`), from the well-foundedness of `<`: the least
number outside such a set contradicts itself.

Every safety property that a passing run checks is a theorem. Liveness (`Terminates`,
`Completes`, `Answered`, `Started`, `PollsAnswered`, `Stops`) is out of the prover's
reach and only model-checked, as are the properties of the runs that expect a
violation.

## Observations without a run

The models show more than the runs state; these are known and not checked.

* A SYN that the same process sent again, or the network doubled, and that arrives
  after data was delivered resets the listener (session.cpp:292-301), although the
  comment there speaks of a new initiator: the sender will not send again what was
  acknowledged, and the transfer stalls until the sender gives up. The jitter buffer is
  not cleared and then holds packets of both numberings.
* A deleted session comes back: every handler half way through writes back what it
  read (sessions.py:107, metrics.py:41, websocket_bridge.py:47, 146), and an open
  metrics socket stores its metrics every second (websocket_bridge.py:120).
  `QuietDeleteIsFinal` is what is left of a delete.
* A resent keyframe may be newer than pictures of its own batch, which are then
  dropped as stale (useStream.ts:515), and so is a whole new stream under an open
  dashboard, up to the time the old one had reached. What follows is decoded by the
  decoder of the old stream, without the keyframe it refers to.
* After a decoder error the canvas may go back: `highestDecodedPtsUs` is forgotten
  (useStream.ts:314-330), and the next decoder begins with a keyframe the engine sends
  again (transport.cpp:534-537), which may be older than the picture that is shown.
* A bridge that asks for the audio while it is being loaded gets the part there is, and
  never asks for the rest (transport.cpp:433-437, websocket_bridge.py:248).
* The token bucket is asked for media that is sent for the first time
  (session.cpp:178-187). Retransmissions (session.cpp:401-404, 457-461) and dummy packets
  are sent past it, while Doc/protocol.md:220-238 has it in front of every DATA packet.
* What an engine captures on arrival (transport.cpp:247-279) it takes from the socket:
  a datagram that came twice is in the frame twice, and one that came late in another.
* A signal between `std::signal` and `run()` is lost: `run` sets `running_` again
  (transport.cpp:288).
* A request that stalls for two seconds is acted on with the part that came
  (admin_server.cpp:117), so that a start may run with defaults.
* `onLoss`, which "may lower bitrate" (rate_controller.hpp:33), raises it by 5 %
  while losses are below 1 % or nothing was acknowledged yet (rate_controller.cpp:109).
* An ACK of a retransmitted packet is taken for an answer to the last copy
  (session.cpp:377), which may give a round trip that is too short.

## Not modelled

Packet headers, checksums, Annex B to avcC, base64 and JSON, which unit and fuzz
tests reach; the ADTS audio parser; files, ffmpeg and sinks; statistics and
Prometheus counters that only grow; command lines and the engine's send and stream
modes, which are a session of SessionLink run to its end; rendering, themes and
deployment. The native client is a shell around a `Transport` whose `run` it never
calls, so no packet reaches it. Hazards without a property are listed with the
reason.

## Plan

1. **Audio**: the packets `pumpAudio` holds back, drops or schedules against the
   picture's clock.
2. **Timed sessions**: the time-out and the tokens of Congestion in place of the
   free choices of Initiator.
3. **Proofs**: for the timed sessions, that they implement the free ones; then
   everything proved about these holds of them, too.

To run: `tlc -config DummyLink.cfg MCSessionLink` (the module of each run is in
`PROJECT.json`), and `tlapm` on each `*Proofs.tla`. The longest run, AdminStreams,
takes between two and three minutes on two workers; Viewer, Algorithms and Engine take
about one.
