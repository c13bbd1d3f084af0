# Verification of the native player and of FFmpegKit

This directory holds TLA+ models of the concurrent parts of this repository, the
configurations that model-check them with TLC, and proofs checked by TLAPS. Paths
are relative to the repository; `L/` stands for `src/ffmpegLibrary422/src/main/`.

The repository is an Android sample with two programs of its own around vendored
FFmpeg sources: a native player (`L/cpp/player`, C++ threads that decode and play
a file) and a copy of FFmpegKit (`L/cpp/ffmpeg`, `L/java/com/top/ffmpeg/ffmpeg`),
which runs the FFmpeg command line tools inside the process. There are no tests of
either beyond the generated `2 + 2 = 4`, so the source and its comments are the only
reference.

## The system

| Part | State it keeps | Operations | Talks to |
|---|---|---|---|
| Decoder thread (`player/decoder`) | `m_DecoderState`, `m_SeekPosition`, `m_SeekSuccess`, time stamps, FFmpeg contexts, the thread | Start, Pause, Stop, SeekToPosition, UnInit; the decoding loop | its owner (shared fields), its subclass (OnDecoderReady, OnFrameAvailable, ClearCache, OnDecoderDone) |
| Audio output (`player/render/audio`) | frame queue, `m_Exit`, player and queue interfaces, waiting thread | Init, RenderAudioFrame, ClearAudioCache, UnInit; the callback | the audio decode thread, OpenSL (calls and callbacks) |
| Video output (`player/render/video`) | the window and its size | Init, RenderVideoFrame | the video decode thread |
| Media player and JNI (`player/mediaplayer`, `Player.cpp`, Java `FFMediaPlayer`) | the two decoders, the two outputs, the handle kept in Java | init, play, pause, seek, stop, unInit | the decoders; the screen that owns the surface |
| Log redirection (`ffmpegkit.c`) | callback data list, `redirectionEnabled`, handlers, counts in transit | enable, disable, append, remove, count | session threads, callback thread, Java |
| Sessions (`AbstractSession`, `FFmpegKitConfig`, `ffmpegkit.c`) | session state, return code, `sessionMap`, history, executor | execute, cancel, history, concurrency limit | `fftools/ffmpeg.c`, redirection |
| MediaCodec decoders (`decoder/base/BaseDecoder.java`) | `mState`, `mRunning`, lock | run, pause, resume, stop | MediaCodec, renderer |
| WebRTC client (`app/.../webrtc`) | peer connection, sources | connect, callbacks, destroy | the WebRTC library, a server |
| Vendored and user interface code | | | |

What is hard in it: fields shared without a lock or with half of one (the decoder),
a mutex and waits across three threads with an external callback (the audio
output), counts that lag behind a queue, flags that are switched in several steps
(the redirection), global signal variables shared by concurrent sessions.
`PROJECT.json` lists every hazard at its line with the properties that watch it.

## Modules

| Module | Models | Extended or instantiated by |
|---|---|---|
| `DecoderLifecycle` | what a decoder promises to its subclass and its owner | `DecoderBase` (refinement) |
| `DecodeThread` | a decode thread and its owner, as far as they can tell of each other | `DecoderBase` (refinement), `NativePlayer` (one for each decoder) |
| `DecoderBase` | `DecoderBase.cpp`, both subclasses at their call-backs | `DecoderBaseProofs` |
| `DecoderBaseProofs` | theorems about the decoder | |
| `OpenSLRender` | `OpenSLRender.cpp` and the external OpenSL buffer queue | `OpenSLRenderProofs` |
| `OpenSLRenderProofs` | theorems about the audio output | |
| `MessageChannel` | what the redirection promises to one session: a channel, ordered until redirection is enabled again | `LogRedirection` (refinement) |
| `LogRedirection` | logs and statistics of `ffmpegkit.c` on their way to Java | `LogRedirectionProofs` |
| `LogRedirectionProofs` | theorems about the messages, their order and their counts | |
| `SessionContract` | what a Java session shows to the program that created it | `FFmpegSession` (refinement) |
| `FFmpegSession` | running and cancelling sessions: `FFmpegKitConfig.ffmpegExecute`, `sessionMap`, the signal variables and main loop of `ffmpeg.c` | `FFmpegSessionProofs` |
| `FFmpegSessionProofs` | theorems about sessions and their cancellation | |
| `FFmpegKitConfig` | the session history and the executor of `FFmpegKitConfig.java` | `FFmpegKitConfigProofs` |
| `FFmpegKitConfigProofs` | theorems about the history, the replacement of the executor and what executors have accepted | |
| `NativePlayer` | the player screen, `FFMediaPlayer` and its two decoders | `NativePlayerProofs` |
| `NativePlayerProofs` | theorems about the calls and the teardown | |
| `MediaCodecDecoder` | `BaseDecoder.java` with `AudioDecoder` and `VideoDecoder` | `MediaCodecDecoderProofs` |
| `MediaCodecDecoderProofs` | theorems about pause, release, stop and the crash | |

Operators named `X_Something` next to an action `X`, introduced by "Mutant:", are
faulty versions of the action. No specification uses them; replacing the action by
one must break a property, which shows that the property depends on that code.

### DecoderBase

One decoder with two threads: the one that owns it and the decode thread
(`DoAVDecoding`). A program counter `thread` gives the next step of the latter.
`m_Mutex` guards short sections with one effect only, and the decode thread reads
the shared fields without it, so every read of a shared field is a step: the test
for PAUSE (line 161), for STOP (168), for a recorded seek (227), the read of its
position (229), the seek itself (233), the read of the next packet (244). The two
writes of `m_DecoderState` by the decode thread (156 and 178) are `EnterLoop` and
`PauseAtEnd`. `volatile` makes each access happen; that the accesses race is part
of the model, as the order of the steps.

The media is `NumFrames` frames, and a position is the index of a frame; a seek
lands on the last key frame not behind its target. Time is abstracted to the
relation that matters: `m_StartTimeStamp` is *unset*, *current* (it belongs to the
position being read) or *stale* (a seek has moved the reads and the time base has
not followed). Sleeping in `AVSync` is not modelled. `owner` is *free*, *join*
(inside `UnInit`) or *gone*. `plainSeeks` is a history variable: no seek was to 0, and
none has been refused by the demuxer. The time base is right only as long as it holds.

`InitFFDecoder` follows `ret`, as the caller does: opening may fail at any point
(everything opened so far is held), and a missing stream is a success without a
codec. `HasStream` says whether the file has a stream of the decoder's kind.

Both writes replace a `STOP` that the owner has just made. `decoder_lost_stop` shows it for line 156, on
the shortest way: the owner calls `UnInit` before the thread has entered its loop. `PauseAtEnd` can do the same at
the end of the file. `UnInitReturnsUnlessOverwritten` is about a `STOP` that neither replaces.

Three flaws are steps of the model with no run of their own: a seek that is asked for
while the one before it is being carried out is erased when that ends
(`DecoderBase.cpp:198` clears `m_SeekPosition`), a seek to 0 is not seen as a seek (line 196
tests for a positive position) and leaves the time base where it was, and a file without
the stream is opened with a null codec context (line 86), which the subclass then uses.
`plainSeeks` in `RenderedFramesSynced` and `HasStream` in `NeverNull` name what they need.

`activity` maps the steps of the thread to those of `DecodeThread`, which keeps of a decoder
what its owner can tell: all tests and writes of `m_DecoderState`, when frames are rendered,
and when the thread ends. Seeks and reads are one place there (*decode*), and so are a paused thread and
its next test. `ImplementsThread` states the refinement. It needs the stream to be there: without it, a
decoder that failed to open goes on as if it were ready.

### OpenSLRender

Three threads. The decode thread's calls are `OutputInit`, `RenderAudioFrame`,
`ClearAudioCache` and `UnInit`, split where they take the mutex or call OpenSL; its
program counter is `decoder`. The waiting thread and the callback run the same
`HandleAudioFrameQueue`; `pc` gives the next step of each. The mutex is a variable
where it is held over several steps (`HandleLock` to `HandleEnqueue`) and a test that it
is free where a section has one effect. The 15 ms sleep and the 10 ms waits are loops
that test again, hence a guard.

OpenSL is external: a queue of `DeviceSlots` buffers that, while playing, finishes
them in order and calls back once for each, on one thread. It may refuse a buffer
(`EnqueueMayFail`) or the creation of an object (`InitMayFail`), and `Destroy` may or may
not wait for a running callback: its documentation leaves this to the implementation, so
`destroyWaits` is a variable that the initial state chooses, and everything is checked and
proved for both. The history variable `refused` says that OpenSL has refused a buffer, or that
there was none to give it. A frame is its number. `crashed` is undefined behaviour that ends
the process; where the code may also survive it (`front()` of an empty queue, whose result may
be null, be refused, or end the process where it is read), each outcome is possible.

A seek clears the cache, and nothing bounds how many do so before the next frame is rendered:
`ClearAudioCache` is always possible while the decode thread runs. Each clear removes half of the
frames, rounded up, so two of them empty a full cache of three, and a consumer that had seen it
full calls `front()` on nothing (`OpenSLRender.cpp:251`). The history variable `clears` counts the clears since the last frame,
up to two; two is kept until the cache is full again. `EnqueueOnlyRealFrame` and the
theorem `RealFrames` say that this is the only way: unless the cache was cleared twice in a row, what is
enqueued is a frame of the queue. That two clears do lead there is a flaw of the code with no run of its own,
since nothing written in the code says that they do not.

The same holds for the wait at line 52 once a buffer was refused: nothing enqueues again, only the
thread that waits sets `m_Exit`, and it waits forever. `RenderReturnsUnlessRefused` is stated
for the time before. The comment at line 51 calls the wait a provisional solution and promises no end of it.

### LogRedirection

Sessions (the threads that run them; 0 stands for threads that run none) append to
`callbackData` and count afterwards; callback threads take from it, call Java, and
discount; controllers are Java threads that switch the redirection. `lockMutex`
protects the list and the flag in sections with one effect, so each is a step; the
count, the installation of the two handlers and the creation of the thread are steps
outside it. A wait on the monitor ends after 100 ms whether or not it is signalled, so
`MonitorWait` is always enabled and `monitorNotify` has no effect to model.

A message is a record of its session and its number. Logs and statistics travel the
same list, so they differ only in the handler that must be installed. `delivered` is
what Java has received; what `FFmpegKitConfig.log` does with it is not modelled. The
part of a session modelled here is its effect on the counts and messages; cancellation
is the subject of the next module. `ImplementsChannel` maps `ordered` to "redirection has not
been enabled again": a second enable may leave two callback threads, and then only order is lost.

Four things follow from the code that no run singles out, because each is a variant
of a run there is. Two controllers that switch at the same time can leave the handlers
installed with redirection off (`ffmpegkit.c:635`: the flag changes inside the lock and
the handlers outside). A disable followed by an enable may leave two callback threads
(line 630), which deliver one session's messages out of order. The count of a message
lags behind its entry in the list and can be -1 for a moment (line 290,
`CountLagsByOne` bounds it). Two session ids that share a slot of the map share its count
(line 431), so that one session's messages delay the other.

### FFmpegSession

`Threads` run sessions, one after the other, each from `CREATED` to `COMPLETED` or
`FAILED`. `thread[t].pc` is the next step of the thread:

| `pc` | Code |
|---|---|
| `register` | `startRunning` has been called; next `nativeFFmpegExecute` stores 1 in `sessionMap` (`ffmpegkit.c:736-738`) |
| `clearSigterm`, `clearSignals` | `ffmpeg_var_cleanup` resets the signal variables, one after the other (`ffmpeg.c:4977-5011`) |
| `open` | options, files, `transcode_init` |
| `loop`, `step` | the test and the body of the loop of `transcode` (`ffmpeg.c:4811-4835`) |
| `finish` | flush, trailers, `exit_program` with 255 if a signal was counted |
| `readSignals`, `readCancel` | after the `longjmp`, the two reads that decide for 255 (`ffmpeg.c:5111-5112`) |
| `unregister`, `return`, `complete` | the slot is set to 0, `complete` sets the code and then the state |

`longjmp_value` and `transcode_init_done` are `__thread` variables and fields of the
thread's record; `received_sigterm` and `received_nb_signals` are plain globals and
variables of the module. The non-atomic increment of the handler is a load and a store
(`LoadCount`, `StoreCount`), with the limit tested afterwards (`TestLimit`: above it the handler
calls `exit(123)`, the variable `exited`).

There are two ways to cancel. `Cancel(s)` is `cancel(id)`, from the map to the
map: nothing of a session reads it before the session is over. `Signal(c)` and
`Handler(c)` are `cancel()`: it ends the loop of every session, by the test of
`received_sigterm` or by `decode_interrupt_cb` (`Interrupt`), and every session that starts
resets it. `AbstractSession.cancel` tests for `RUNNING` and calls `cancel(id)`; since the test may
be out of date when the call is made, it is `Cancel(s)` as well.

Three history variables: `grounds` (sessions somebody asked to cancel while they could
hear it, by their id, by an id of the same slot or by a signal), `byId` and `bySignal`
(requests that nothing has overwritten). What overwrites one is in the actions that
remove it: `AddSession` of an id of the same slot (the slot becomes 1), `RemoveSession`
of another (0), and `ClearSignals` of any session. A request made before `AddSession`
is overwritten by it. `CancelReported` is about the requests that are left; a
session whose request was overwritten may end in `SUCCESS`.

The tables of files, streams and filters are not `__thread` either (`ffmpeg.c:171-182`): a
session that starts resets them (4993-5006), and one that ends frees them, under a session that runs
on another thread. What that session sees is outside any order the C code has, so the model keeps only the outcomes: its loop may
end early, which `TestSigterm` and `TranscodeStep` allow at any time, or an access ends the
process (`TablesLost`, possible from the moment the other session has reset its variables).

Left open: what is transcoded (a step of the loop goes on, ends or fails), the
keyboard test (`check_keyboard_interaction`, which ends the loop on a counted signal or not,
part of `TestSigterm`'s choice), and that flushing ends (`Finish`). `Fail` stands for any
exception before the native call. FFprobe sessions use the same protocol and are not
modelled.

### FFmpegKitConfig

Two parts of `FFmpegKitConfig.java` with the sessions in common. `phase[s]` is how far the
thread that deals with a session has come: *constructed*, *adding* (between the two halves
of `addSession`, with `sessionHistoryLock`), *created*, then *running* on the thread that
created it, or *fetched* (it has read the executor), *queued* or *rejected*, *running*, *done*.

The history is a map and a list, each the sequence of its sessions. `addSession` reads
`sessionHistorySize` once for each (`removeEldestEntry`, line 161, and line 1112), and
`setSessionHistorySize` writes it without the lock, so that map and list may be cut to
different sizes. `added` and `sizes` are history variables, the sessions added and the sizes
in force since the last clear; `HistoryIsRecent` says what is left of the promise: each view
is the end of `added`, complete up to the smallest size and no longer than the largest.
A session that has been cut from the map still runs, and its logs find no session.

`setAsyncConcurrencyLimit` holds no lock. Its four accesses are steps: the limit is written
(`SetLimit`), the old executor is read (`ReadOld`), a new one takes its place (`NewPool`), the
old one is shut down (`ShutDown`). An executor is a queue and a number of threads that take
from it in order, also when it is shut; a submit to one that is shut is rejected. A session
that has fetched the old executor and submits after the shut down is rejected, and a new
executor starts while the old one still runs its sessions: both are behaviours of the model.
`CurrentPoolOpen` says that nothing worse happens.

What a task does (`AsyncFFmpegExecuteTask` and its siblings) is `Return`: it ends whether the
command succeeds or throws, and catches what its callbacks throw.

### NativePlayer

The composition of the player as its owner sees it. `AWindowNativeVideoPlayerActivity` has
its surface callbacks and its button on the main thread, so a callback is a list of calls
(`todo`) that the main thread works off before it takes the next: `SurfaceChanged` starts the
video and then the audio decoder, `PauseButton` pauses both, and `SurfaceDestroyed` does what
`stop()` and `unInit()` do (`Teardown`): both are stopped, then each decoder is stopped again by
its destructor, joined and deleted with its render after it, and at last the player.

The two decode threads run meanwhile. Of each, only what the owner can tell is kept: what
it reads and writes of `m_DecoderState` (the tests for `PAUSE` and for `STOP` are steps of their own, so
that a `PAUSE` between them is seen one packet later), when it uses its render (`Using`) and when it
ends; `DecoderBase` and `OpenSLRender` have the rest. That nothing is lost is checked from both
sides, with `DecodeThread` between: `DecoderBase` implements it, the player lets a decoder
do all that it says (theorem `ThreadsCovered`), and the screen calls each decoder only as it allows
(theorem `DecodersAlone`). The one thing the player adds is `blocked`, an audio thread in
`RenderAudioFrame` after OpenSL has refused a buffer (the case that `RenderReturnsUnlessRefused`
of `OpenSLRender` excludes).
`overwritten` remembers the decoders whose thread has replaced the latest `STOP`
(`decoder_lost_stop`): `DestroyReturns` says that these two are the only ways in which
`surfaceDestroyed` hangs the main thread.

Assumed of the screen: the button is clicked only while its screen is shown, and calls are made on
the main thread, as this activity makes them. The Java handle is not cleared by `unInit()`
(`FFMediaPlayer.java:98`); `CallsReachPlayer` says that this screen never uses it afterwards.

### MediaCodecDecoder

`pc` is the next step of the decode thread, from the pool to its end, and `owner` that of
the thread that calls `pause`, `resume` and `stop`. `mState` and `mRunning` are plain fields
that the thread tests without `mLock` (`TestRunning`, `TestState`, `TestStop`), one access a
step; `WaitDecode` is the wait under the lock, which tests nothing again and has no
timeout. `notifyAll` (`Wake`) moves a thread that waits by then and does nothing to one that
does not: this is how a stop is lost. The video decoder may wait for its surface on the same
lock (`WaitSurface`), so that a resume or a stop wakes it too, and it then starts a codec that
was never configured. What is open is `codec` and `held`; an initialisation that
fails releases nothing. `frames` (rendered since a pause) and `stopped` are history variables.

Most calls of `MediaCodec`, `MediaExtractor` and `AudioTrack` may throw, and where they do decides what
follows. Whatever the loop throws is caught, and the thread goes to `doneDecode` and `release`
(`DecodeThrows`). `init()` runs outside the `try` of `run()` and `initCodec` catches an `IOException` only:
any other exception of `createDecoderByType`, `configure` or `start`, for a codec that was never
configured or for any other reason, and a negative buffer size in `AudioDecoder.initRender`, end
the process (`InitThrows`, `pc = "crashed"`). So does an exception of `AudioTrack.stop()` in
`doneDecode`, which is called in the `finally` block ahead of `release()` (`DoneDecodeThrows`).
`release()` has one `try` for its three calls and swallows what they throw: when the codec
has failed (`CodecFails`, codec *error*) its `stop()` may throw, and `mCodec.release()` is skipped.
`ReleasedAtEnd` therefore speaks of a codec that is released *or has failed*.

Assumed: `stop()` is the owner's last call, as in the screens; `mLock.wait()` returns only when it is
notified; and `MediaCodec.stop()` of a codec that has not failed, and the release of the extractor,
do not throw.

## Runs

All instances set `CHECK_DEADLOCK FALSE`: the systems stop by design, when the
owner is gone, the output is down, the sessions have ended with redirection off, every
session is over, the process or the decode thread has ended, or nobody clicks any more.

| Run | Question | Result |
|---|---|---|
| `decoder` | The lifecycle, what is released, the time base after seeks, what a stop, a pause and a resume achieve, and that the thread is the one its owner takes it for, under every interleaving and failure | holds |
| `decoder_lost_stop` | Does `UnInit` return (`UnInitReturns`)? | no: a STOP written before the thread enters its loop is overwritten with DECODING when it does (line 156), and `UnInit` joins a thread that plays to the end and is paused there |
| `opensl` | Cache bound, live player, real frames unless the cache was cleared twice in a row, order, one buffer in flight, the end of the teardown, and the acceptance of a frame while nothing is refused | holds |
| `opensl_early_stop` | Is the player there when the waiting thread starts it (`PlayerWhenStarted`)? | no, if the output is taken down early |
| `redirect` | Is every message in one place, does what the counts say follow, does the order last until redirection is enabled again, does all arrive and do threads end? | holds, with two callback threads and threads that fail to start |
| `session` | Does a request show in the return code unless it is overwritten, does a session show its program one life, and do two signals end what it is doing? | holds |
| `session_ignored` | Does a session that is cancelled by its id stop (`CancelledStops`)? | no: the loop never reads the map |
| `kitconfig` | Do map and list keep the latest sessions while the size changes, and does one thread that replaces the executor leave no other open? | holds |
| `kitconfig_setters` | With two threads that replace the executor at once, is the one in force open, and is what any of them accepted run? | holds |
| `mediacodec` | Does a pause take effect within a frame, is everything but a failed codec released at the end, and is a stop seen that comes before the tests of the thread? | holds |
| `mediacodec_lost_stop` | Does the thread end after `stop()` (`StopEnds`)? | no: the notification comes between its test and its wait |
| `player` | Does every call reach a player that exists, does no thread outlive its render or the surface, and does `surfaceDestroyed` return? | holds, but for a decoder whose STOP was overwritten and an audio thread that waits for room |

Each violated property states what a comment, a document or a test in the
code next to it says of the program; `PROJECT.json` quotes it under `findings`. The
passing runs have the counterparts that say under which condition the promise is kept:
`UnInitReturnsUnlessOverwritten` in `decoder`, `CancelReported` in `session` and `StopNoticed` in
`mediacodec`.

Bounds.

- Decoder: 4 frames and key frames 0 and 2, so that a seek can land before its
  target, at it, and behind the current position, and a packet may hold several
  frames. The state has no counter; the instance is explored in full.
- Audio output: the code's 3 frames of cache and 2 device buffers, and up to 9
  frames in all: enough to fill the cache, play, clear it and fill it again. Clears are not
  bounded (31,051 states).
- Redirection: one session and one thread of no session (id 0), 2 messages each, 2
  callback threads and one re-enable, the least with which two callback threads coexist
  and a session's messages can be reordered. `SESSION_MAP_SIZE` is 2 instead of 1000, so
  that ids 0 and 1 do not collide.
- Sessions: ids 1 and 3 on a map of 2 slots, so that they share one; 2 threads, so that
  the sessions overlap or follow each other on a thread (where
  `transcode_init_done` is left over); 1 caller and up to 3 counted signals, with the
  process ended above 2 instead of 3 (`HARD_EXIT`): one more would only add one more
  harmless signal. With one caller the load and the store of the count race only with the
  reset by a session that starts; the theorems cover any number of callers.
- Kit configuration: 3 sessions, sizes 1 and 2 so that one, two or no session is cut, the
  refused size 0, a limit of 2 after the first of 1 and the refused limit 0, two executors
  and one thread that replaces them (407,628 states). In `kitconfig_setters` two threads replace the
  executor, with room for four: both read the same one, or one replaces the other's, and a third
  replacement follows; the size of the history stays as it is, and two sessions are enough for one in a queue
  and one that is late (98,543 states). `Open`, `History`, `AcceptedOnce` and `TypeCorrect` are proved for any number of threads that set limits; `PoolsSettled` is not
  true of two, which may leave an executor that nobody shuts down.
- MediaCodec decoder and player: no counter but `frames`, which stays at most 1, so that
  both instances are explored in full (2,825 and 3,436 states), the first for both kinds of
  decoder.

Fairness. `FairSpec` gives weak fairness to the steps a running thread takes by
itself: the decode thread, the waiting thread, the callback, the OpenSL device
while it plays, the callback threads of the redirection, the rest of a
call that has begun (`UnInitJoin`, `DecoderCall`, `InHandler`, `Switching`, `Handler`), and the steps of
a session that wait for nothing but the processor (`Compute`). In the other modules it has the
workers of an executor and the end of each command (`TakeTask`, `Return`), the decode thread of
`MediaCodecDecoder` and the rest of an owner's call (`Thread`, `Finishing`), the main thread's
work on a callback (`MainStep`) and both decode threads of the player (`DecodeStep`, whose opens
and reads answer). The
operating system schedules runnable threads, and nearly every wait of the C code is timed;
a wait that is not (`Join`, and `waiting` in `MediaCodecDecoder`) ends only by a step of
another thread, and fairness does not help it.
No fairness is given to the environment: nobody need press a button, seek, stop, log,
switch, or start a session, and under `FairSpec` a file or a stream of a session need never answer.
`AnsweringSpec` adds that it answers, with data or an error (`Transfer`); it makes
the counterexample of `session_ignored` stronger, since the session goes on although
its input never blocks. Weak fairness is enough: no step of these threads needs a
lock that others hold again and again while the step waits (the sections are short, and
TLC shows the properties with weak fairness).

## Proofs

TLAPS checks the theorems below for every value of the constants that satisfies
their named assumptions (positive sizes, key frames inside the media with frame 0
among them, and so on).

`DecoderBaseProofs`:

- `TypeCorrect`: `Spec => []TypeOK`.
- `Disposal`: `Spec => []DisposedIsReleased`. Not inductive: that nothing is held when
  the thread has ended follows from *where* contexts may be held. The invariant
  `HeldOnlyWhileRunning` says it (contexts are closed before the thread starts and
  after `UnInitDecoder`, and `owner = "gone"` only with no thread left).
- `Synchronised`: `Spec => [](SeekSuccessHasTarget /\ StaleOnlyAfterSeek /\ RenderedFramesSynced)`: while no seek was to 0 or refused
  (`plainSeeks`), frames are rendered with a time base of their position. The inductive
  invariant `SeekInv` relates `m_SeekPosition`, `m_SeekSuccess`, the time base and the
  step of the thread: from the seek to its first frame the position stays positive,
  because the only step that clears it is the one that takes the frame.
- `NeverNull`: if `HasStream`, `Spec => []NoNullCodec`. `ReadyIsOpen` says that the
  contexts are open when the thread gets to `OnDecoderReady`.
- `Refinement`: `Spec => ImplementsLifecycle`, step by step, under the mapping
  `phase`.
- `ThreadRefinement`: if `HasStream`, `Spec => ImplementsThread`, under the mapping `activity`.
  `ReadyIsOpen` is what the failed opening needs, `DisposedIsReleased` what the owner's last call needs.

`OpenSLRenderProofs`:

- `TypeCorrect`: needs that a frame to be pushed is one of the `MaxFrames` (`FrameToCome`).
- `EnqueueSafe`: `Spec => []EnqueueOnLivePlayer`, whether or not `Destroy` waits for a callback.
  `PlayerInv` ties together the mutex and its holder, the step of `UnInit`, `m_Exit`
  and the player: a consumer that has passed its test holds the mutex, and
  `Destroy` comes after a section that needs it.
- `CacheBounded`: `Spec => []QueueBounded`: once the decode thread has seen room,
  only it can add a frame (`RoomForPush`).
- `SingleBuffer`: `Spec => []OneInFlight`: buffers, callbacks due and consumers at work
  count to one licence to enqueue (`Licence`), handed from one to the next.
- `RealFrames`: `Spec => []EnqueueOnlyRealFrame`, for any number of clears and whether or not
  OpenSL refuses buffers. `FramesLeft` says that, between the wait for a full cache and `front()`,
  at least two frames are left as long as nothing was cleared, and at least one after one clear.
- `InOrderPlayed`: `Spec => []PlayedInOrder`. `InOrder` says it without concatenation: OpenSL's
  frames and the queue are increasing, both above what was heard and at most `produced`, and
  each of the former below each of the latter (`InLine`). One lemma per way the line changes:
  a frame is pushed, the queue is cleared to its half, one is enqueued, one is finished.
- `FeedingGoesOn`: `Spec => []WaitsForSomebody`, the safety half of `RenderReturnsUnlessRefused`.
  A decode thread that waits for room is never alone: unless OpenSL has refused a buffer, a buffer is
  being played, a callback is due or a consumer is on its way to enqueue. `Baton` says that
  `Licence` is exactly one from the first start of the player until the teardown begins.
- `RefusedByOpenSL`: if OpenSL takes whatever it has room for (`~EnqueueMayFail`), then
  `Spec => RefusedAfterClears`: the first refusal finds a cache that was cleared twice in a row. The
  program never offers a buffer too many; what it may offer is none.

`FFmpegSessionProofs` (for any sessions, threads, callers and size of the map):

- `TypeCorrect`: `Spec => []TypeOK`. The actions write fields of records in a
  function; `Moved`, `Working`, `Passing`, `Beginning` and `Ending` say once what each does to
  its thread (`Moves`), and the later proofs use nothing else of the records.
- `Heard`: `Spec => []HeardWhileRunning`, from the invariant `Executed`: no two threads
  run the same session, a session that runs is `RUNNING`, and it has no return code before
  its thread is about to complete it.
- `Reports`: `Spec => []CancelReported`. By itself not inductive, because it speaks of
  sessions that are over. `Reported` follows a request from where it is stored (the slot is 2,
  a signal is counted) to where it is remembered (`longjmp_value` is `CANCEL`), for
  each step of the thread (`Remembers`).
- `Refinement`: `Spec => ImplementsContract`. `Grounded` says that whatever could make a
  session say `CANCEL` (a 2 in its slot, a counted signal, its `longjmp_value`) was
  put there while it ran. This is what `AddSession` and `ClearSignals` are needed for: they
  wipe out what was left by earlier sessions and requests.
- `CancelFinal`: `Spec => RequestsKept` if no two sessions share a slot (`OwnSlots`): a request
  by id is never overwritten. With `Reports`, a session cancelled by its id while it can hear it
  returns `CANCEL`. With ids that share a slot, as in the run `session`, it is false.

Assumed besides are only the named assumptions: session ids are positive, `NoSession` is none of
them, and the map is not empty.

`LogRedirectionProofs` (for any sessions, callback threads and controllers):

- `TypeCorrect`: `Spec => []TypeOK`.
- `NoLoss`: `Spec => []NothingLostOrDoubled`. The invariant speaks of cardinalities, which no
  prover handles well, so the inductive one, `PlacedOnce`, follows each message: it has been
  generated if and only if it is in the list, with a thread or in Java, in one of them only,
  and once. Each step moves at most one message (`Moves`).
- `Refinement`: `Spec => ImplementsChannel`. Until redirection is enabled again there is one
  callback thread (`Alone`), the list holds a session's messages in their order (`Sorted`) and
  what has left a place is older than what is still there (`Follows`).
- `CountLag` and `AllArrived`: `CountLagsByOne` and `AllArrivedAtZero`, assuming that no two
  sessions share a slot (`OwnSlots`). The invariant accounts for a slot: its count is the number
  of messages in the list and of those with a thread, less those appended and not yet counted.
  With a shared slot both fail, because the count is that of two sessions.
- `SlotCounts`: `SlotsBalanced` and `ArrivedInSlot`, the same for slots that are used again, as they
  are by ids 1000 apart. Instead of `OwnSlots` it assumes that a session starts
  (`ffmpegkit.c:740` sets its slot to 0) only while no message of the slot is on its way
  (`QuietStarts`). The code does not enforce it; it is what ids given out in order provide
  unless 1000 sessions start while one still has messages to deliver. Session 0 never starts
  and shares slot 0 with session 1000.

`FFmpegKitConfigProofs` (for any number of sessions, sizes and limits):

- `TypeCorrect`: from `SetterOK` and `FieldsOK`.
- `Open`: `Spec => []CurrentPoolOpen`, for any number of setters. `SetterOK`: the executor in
  force is the one made last, and a setter shuts down an older one.
- `Settled`: `Spec => []PoolsSettled` if there is one setter (`Setters = {only}`).
- `History`: `Spec => []HistoryIsRecent`. `HistoryOK` adds that the size in force is among
  `sizes` and that the session whose thread holds the lock is the last of `added`.
- `AcceptedOnce`: `Spec => []Accepted`, the safety half of `AcceptedAreRun`. A session that was
  accepted is in the queue of one executor, once, until a thread of that executor takes it; an
  executor whose queue is not empty has a thread, and runs no more sessions at once than it was made for. Replacing
  executors moves no session.

`MediaCodecDecoderProofs`:

- `TypeCorrect`, and `Released` (`ReleasedOK`: the track is released one step before the rest): whatever
  throws, a thread that has ended after its loop holds no track or extractor, and a codec only if that has failed.
- `Paused` (`PausedOK`: while a pause is in force the state does not play, and a thread that has
  rendered its one frame passes the wait only if it is stopped).
- `CrashesExplained`: `Spec => []CrashNeedsCause`. Once the codec runs, the process ends only from
  `AudioDecoder.doneDecode`, with both resources still open, or from a surface callback that
  configures the codec again. `CrashOK` follows the codec, what is held and the callback through the
  initialisation and the loop. What may throw during the initialisation is not restricted.
- `Stopped`: `Spec => StopIsFinal`. After a stop nothing sets `mRunning` again and no packet is
  begun: what `StopNoticed` says of the end of the thread rests on it.

`NativePlayerProofs`:

- `TypeCorrect`, `Reached` (`CallsReachPlayer`) and `RendersLast` (`RendersOutliveThreads`), all
  from `PlayerOK`: nothing is shown and no thread is there, or the player is alive with both
  renders and at most one call of each decoder to make, or the main thread is before the k-th
  call of the teardown and the threads it has joined are gone.
- `DecodersAlone`: `Spec => DecodersAsAlone`. Each decoder takes part in every step as a
  `DecodeThread` does, or not at all.
- `ThreadsCovered`: every step that `DecodeThread` lets a thread take is a step of the player's,
  but for an audio thread that waits for room. With `ThreadRefinement` the theorems about the
  player hold with the decode loop of `DecoderBase.cpp` in it.
- `JoinsStopped`: `Spec => []JoinWaitsForStopped`, the safety half of `DestroyReturns`. A decoder
  whose thread is being joined has been stopped, and if its state is not `STOP` its own thread
  has replaced it.

Only model-checked: all liveness, which this prover does not treat; the proofs of
`FeedingGoesOn`, `AcceptedOnce`, `Stopped` and `JoinsStopped` are of the safety facts that four of these
properties rest on. Every invariant that a passing run checks, and every refinement, is
proved as well.

## Not modelled

The other rows of the table of parts, with the reasons in `PROJECT.json`. In the
modelled parts: pixel and sample data, formats and time stamps in units, the layout
of logs, the memory of a frame (`OpenSLRender.cpp:258` frees it right after it was
enqueued), and the statistics of the media.

- FFprobe sessions store and remove their id in the map as FFmpeg sessions do and read
  neither the map nor a signal in between (`ffprobekit.c:83-92`): there is no interleaving that
  `FFmpegSession` does not have.
- SAF urls: the native library registers neither `safOpen` nor `safClose` (`ffmpegkit.c:953-954`
  are comments), so nothing calls them.
- The sizes computed by `NativeRender`: a pure computation that divides by sizes of the
  video and the window; its life is in `NativePlayer`.
- WebRTC signalling: callbacks around a library whose protocol is the library's.
- `seekToPosition` and the media parameters of the JNI, which no screen calls; a
  seek is modelled in `DecoderBase`.
- Levels and callbacks of `FFmpegKitConfig.log`, argument parsing, JSON, the OpenGL samples,
  library loading and CPU features have no state shared by two actors.

Most lines of the repository are none of its own: the headers of FFmpeg
(`L/cpp/include`), the ijkplayer sources (`L/cpp/ijkmedia`), which the CMake build does not compile,
and the command line tools (`L/cpp/fftools`), of which only the changes for FFmpegKit, the
main loop and the exits are modelled. What is mapped is therefore a small share of all
lines, though most of the program's own concurrent code.

## Plan

Done: the decoder, the audio output, the redirection, sessions, history and executor,
the MediaCodec decoder and the player, with the proofs above. Left, in this order:

1. The safety facts below the remaining liveness properties, as `FeedingGoesOn` is below
   `RenderReturnsUnlessRefused`: what makes two signals stop a session, what the callback threads
   of the redirection wait for, and what a paused decoder may still do.
2. The dispatch of `FFmpegKitConfig.log` and `statistics` to a session of the history, with
   sessions that have been cut from it, as a composition of `LogRedirection` and
   `FFmpegKitConfig`.
