------------------------- MODULE MediaCodecDecoder -------------------------
(***************************************************************************)
(* The Java decoders (decoder/base/BaseDecoder.java and its subclasses):   *)
(* a thread of a pool opens a file, decodes it with MediaCodec and renders *)
(* it, while the screen pauses, resumes and stops it.                      *)
(*                                                                         *)
(* mState and mRunning are plain fields: the thread tests them without     *)
(* mLock, and waits under mLock without testing them again and without a   *)
(* timeout.  Every access is a step; the thread waits until it is          *)
(* notified, and reads what was written last.                              *)
(*                                                                         *)
(* MediaCodec, MediaExtractor and AudioTrack are external, and most of     *)
(* their calls may throw.  What the loop throws is caught, and so is what  *)
(* release() throws; what init() or doneDecode() throws is not, and ends   *)
(* the process.                                                            *)
(***************************************************************************)
EXTENDS Integers

CONSTANT Kinds  \* of decoders looked at

ASSUME KindsAssumption == Kinds \subseteq {"audio", "video"}

VARIABLES
  kind,       \* AudioDecoder, or VideoDecoder, whose surface may not exist yet
  mState,
  mRunning,
  mIsEOS,
  pc,         \* the next step of the decode thread
  owner,      \* the next step of the thread that calls pause, resume and stop
  codec,      \* the life of mCodec; "error" once it has failed for good
  held,       \* of mExtractor and the AudioTrack, what is open
  callback,   \* VideoDecoder waits for the surface to be created
  stopped,    \* history: stop() has returned
  frames      \* history: frames rendered since a pause(), -1 if not paused

vars == <<kind, mState, mRunning, mIsEOS, pc, owner, codec, held, callback, stopped, frames>>

DecodeState == {"START", "DECODING", "PAUSE", "FINISH", "STOP", "null"}
\* SEEKING plays as well, but nothing ever sets it.
Playing == {"START", "DECODING"}
InitSteps == {"init", "configure", "waitSurface", "waitingSurface", "start"}
LoopSteps == {"testRunning", "testState", "enterWait", "waiting", "testStop", "decode", "finish"}
EndSteps == {"doneDecode", "release"}
Ended == {"notOpened", "ended", "crashed"}
Resources == {"extractor", "track"}

Goes(from, to) == pc = from /\ pc' = to

Init ==
  /\ kind \in Kinds
  /\ mState = "null"
  /\ mRunning = TRUE
  /\ mIsEOS = FALSE
  /\ pc = "pool"
  /\ owner = "idle"
  /\ codec = "none"
  /\ held = {}
  /\ callback = FALSE
  /\ stopped = FALSE
  /\ frames = -1

-----------------------------------------------------------------------------
(* The owner.                                                              *)

\* The screen pauses and resumes until it stops the decoder, which is its last call.
CanCall == owner = "idle" /\ ~stopped /\ pc # "crashed"

\* notifyAll: the thread goes on if it waits by now.
Wake == CASE pc = "waiting" -> "testStop"
          [] pc = "waitingSurface" -> "start"
          [] pc \notin {"waiting", "waitingSurface"} -> pc

Pause ==
  /\ CanCall
  /\ mState' = "PAUSE"
  /\ frames' = IF pc = "pool" \/ frames >= 0 THEN frames ELSE 0
  /\ UNCHANGED <<kind, mRunning, mIsEOS, pc, owner, codec, held, callback, stopped>>

Resume ==
  /\ CanCall
  /\ owner' = "resumeNotify"
  /\ mState' = "DECODING"
  /\ frames' = -1
  /\ UNCHANGED <<kind, mRunning, mIsEOS, pc, codec, held, callback, stopped>>

ResumeNotify ==
  /\ owner = "resumeNotify" /\ pc # "crashed"
  /\ owner' = "idle"
  /\ pc' = Wake
  /\ UNCHANGED <<kind, mState, mRunning, mIsEOS, codec, held, callback, stopped, frames>>

Stop ==
  /\ CanCall
  /\ owner' = "stopRunning"
  /\ mState' = "STOP"
  /\ UNCHANGED <<kind, mRunning, mIsEOS, pc, codec, held, callback, stopped, frames>>

StopRunning ==
  /\ owner = "stopRunning" /\ pc # "crashed"
  /\ owner' = "stopNotify"
  /\ mRunning' = FALSE
  /\ UNCHANGED <<kind, mState, mIsEOS, pc, codec, held, callback, stopped, frames>>

StopNotify ==
  /\ owner = "stopNotify" /\ pc # "crashed"
  /\ owner' = "idle"
  /\ pc' = Wake
  /\ stopped' = TRUE
  /\ UNCHANGED <<kind, mState, mRunning, mIsEOS, codec, held, callback, frames>>

\* The callback VideoDecoder.configCodec registers; it is never removed, and configuring
\* a codec that is not just created throws on the thread of the screen; so may a first
\* configure().
SurfaceCreated ==
  /\ callback /\ pc # "crashed"
  /\ \/ codec = "created" /\ codec' = "configured" /\ pc' = Wake
     \/ pc' = "crashed" /\ UNCHANGED codec
  /\ UNCHANGED <<kind, mState, mRunning, mIsEOS, owner, held, callback, stopped, frames>>

-----------------------------------------------------------------------------
(* The decode thread.                                                      *)

Run ==
  /\ Goes("pool", "init")
  /\ mState' = "START"
  /\ UNCHANGED <<kind, mRunning, mIsEOS, owner, codec, held, callback, stopped, frames>>

\* The extractor, the format, the renderer and the codec are made, and what has been made
\* is not released when a later one fails.
InitOk ==
  /\ Goes("init", "configure")
  /\ held' = IF kind = "video" THEN {"extractor"} ELSE Resources
  /\ codec' = "created"
  /\ UNCHANGED <<kind, mState, mRunning, mIsEOS, owner, callback, stopped, frames>>

InitFails ==
  /\ Goes("init", "notOpened")
  /\ held' \in {{}, {"extractor"}} \cup (IF kind = "video" THEN {} ELSE {Resources})
  /\ UNCHANGED <<kind, mState, mRunning, mIsEOS, owner, codec, callback, stopped, frames>>

\* Mutant: whatever init() throws is caught, and the thread goes on to its loop.
InitThrows_Caught ==
  /\ pc \in {"init", "configure", "start"}
  /\ pc' = "testRunning"
  /\ UNCHANGED <<kind, mState, mRunning, mIsEOS, owner, codec, held, callback, stopped, frames>>

\* initCodec catches an IOException only, and run() calls init() outside its try: an exception
\* of createDecoderByType(), configure() or start(), or a negative length of the buffer that
\* AudioDecoder.initRender makes, ends the process.
InitThrows ==
  /\ pc \in {"init", "configure", "start"}
  /\ pc' = "crashed"
  /\ UNCHANGED <<kind, mState, mRunning, mIsEOS, owner, codec, held, callback, stopped, frames>>

ConfigCodec ==
  /\ Goes("configure", "start")
  /\ codec' = "configured"
  /\ UNCHANGED <<kind, mState, mRunning, mIsEOS, owner, held, callback, stopped, frames>>

ConfigLater ==
  /\ kind = "video"
  /\ Goes("configure", "waitSurface")
  /\ callback' = TRUE
  /\ UNCHANGED <<kind, mState, mRunning, mIsEOS, owner, codec, held, stopped, frames>>

WaitSurface ==
  /\ Goes("waitSurface", "waitingSurface")
  /\ UNCHANGED <<kind, mState, mRunning, mIsEOS, owner, codec, held, callback, stopped, frames>>

\* Any notification ends the wait for the surface, but a codec that is not configured does
\* not start: InitThrows.
StartCodec ==
  /\ codec = "configured"
  /\ Goes("start", "testRunning")
  /\ codec' = "started"
  /\ UNCHANGED <<kind, mState, mRunning, mIsEOS, owner, held, callback, stopped, frames>>

\* Mutant: the loop does not look at mRunning.
TestRunning_Never ==
  /\ Goes("testRunning", "testState")
  /\ UNCHANGED <<kind, mState, mRunning, mIsEOS, owner, codec, held, callback, stopped, frames>>

TestRunning ==
  /\ Goes("testRunning", IF mRunning THEN "testState" ELSE "doneDecode")
  /\ UNCHANGED <<kind, mState, mRunning, mIsEOS, owner, codec, held, callback, stopped, frames>>

\* Mutant: a decoder that is paused goes on.
TestState_PauseForgotten ==
  /\ Goes("testState", IF mState \in Playing \cup {"PAUSE"} THEN "testStop" ELSE "enterWait")
  /\ UNCHANGED <<kind, mState, mRunning, mIsEOS, owner, codec, held, callback, stopped, frames>>

\* A STOP waits as well.
TestState ==
  /\ Goes("testState", IF mState \in Playing THEN "testStop" ELSE "enterWait")
  /\ UNCHANGED <<kind, mState, mRunning, mIsEOS, owner, codec, held, callback, stopped, frames>>

WaitDecode ==
  /\ Goes("enterWait", "waiting")
  /\ UNCHANGED <<kind, mState, mRunning, mIsEOS, owner, codec, held, callback, stopped, frames>>

\* Of the reasons to wait, only a stop is tested again.
TestStop ==
  /\ pc = "testStop"
  /\ IF ~mRunning \/ mState = "STOP"
       THEN mRunning' = FALSE /\ pc' = "doneDecode"
       ELSE pc' = "decode" /\ UNCHANGED mRunning
  /\ UNCHANGED <<kind, mState, mIsEOS, owner, codec, held, callback, stopped, frames>>

\* Data is pushed until the end of the file, and what the codec has decoded is rendered;
\* the last buffer carries the end of the stream.
Decode ==
  /\ pc = "decode"
  /\ codec = "started"
  /\ mIsEOS' \in {mIsEOS, TRUE}
  /\ \/ pc' = "testRunning" /\ UNCHANGED frames
     \/ /\ pc' \in {"testRunning"} \cup (IF mIsEOS' THEN {"finish"} ELSE {})
        /\ frames' = IF frames = -1 THEN -1 ELSE frames + 1
  /\ UNCHANGED <<kind, mState, mRunning, owner, codec, held, callback, stopped>>

\* Any call may throw, also after the last buffer was pushed or a frame was rendered.
DecodeThrows ==
  /\ Goes("decode", "doneDecode")
  /\ mIsEOS' \in {mIsEOS, TRUE}
  /\ frames' \in {frames, IF frames = -1 THEN -1 ELSE frames + 1}
  /\ UNCHANGED <<kind, mState, mRunning, owner, codec, held, callback, stopped>>

Finish ==
  /\ Goes("finish", "testRunning")
  /\ mState' = "FINISH"
  /\ UNCHANGED <<kind, mRunning, mIsEOS, owner, codec, held, callback, stopped, frames>>

DoneDecode ==
  /\ Goes("doneDecode", "release")
  /\ held' = held \ {"track"}
  /\ UNCHANGED <<kind, mState, mRunning, mIsEOS, owner, codec, callback, stopped, frames>>

\* AudioTrack.stop() may throw, out of the finally block and past release().
DoneDecodeThrows ==
  /\ kind = "audio"
  /\ Goes("doneDecode", "crashed")
  /\ UNCHANGED <<kind, mState, mRunning, mIsEOS, owner, codec, held, callback, stopped, frames>>

\* Mutant: the codec is stopped but not released.
Release_StopsOnly ==
  /\ Goes("release", "ended")
  /\ mState' = "STOP"
  /\ mIsEOS' = FALSE
  /\ held' = held \ {"extractor"}
  /\ codec' = "created"
  /\ UNCHANGED <<kind, mRunning, owner, callback, stopped, frames>>

\* One try for three calls: a stop() that throws, which that of a codec that has failed may,
\* is swallowed and the codec is not released.
Release ==
  /\ Goes("release", "ended")
  /\ mState' = "STOP"
  /\ mIsEOS' = FALSE
  /\ held' = held \ {"extractor"}
  /\ codec' \in {"released"} \cup (IF codec = "error" THEN {"error"} ELSE {})
  /\ UNCHANGED <<kind, mRunning, owner, callback, stopped, frames>>

-----------------------------------------------------------------------------
(* MediaCodec.                                                             *)

\* A codec that runs may fail for good at any time: its calls throw from then on.
CodecFails ==
  /\ codec = "started" /\ pc # "crashed"
  /\ codec' = "error"
  /\ UNCHANGED <<kind, mState, mRunning, mIsEOS, pc, owner, held, callback, stopped, frames>>

-----------------------------------------------------------------------------

Call == Pause \/ Resume \/ Stop
Finishing == ResumeNotify \/ StopRunning \/ StopNotify
Thread ==
  \/ Run \/ InitOk \/ InitFails \/ InitThrows
  \/ ConfigCodec \/ ConfigLater \/ WaitSurface \/ StartCodec
  \/ TestRunning \/ TestState \/ WaitDecode \/ TestStop \/ Decode \/ DecodeThrows \/ Finish
  \/ DoneDecode \/ DoneDecodeThrows \/ Release

Next == Call \/ Finishing \/ SurfaceCreated \/ CodecFails \/ Thread

Spec == Init /\ [][Next]_vars

\* Both threads are scheduled; nobody has to call anything.
FairSpec == Spec /\ WF_vars(Thread) /\ WF_vars(Finishing)

-----------------------------------------------------------------------------

\* Every field and step is in its range; a codec is started before it decodes.
TypeOK ==
  /\ kind \in Kinds
  /\ mState \in DecodeState
  /\ mRunning \in BOOLEAN /\ mIsEOS \in BOOLEAN
  /\ pc \in {"pool"} \cup InitSteps \cup LoopSteps \cup EndSteps \cup Ended
  /\ owner \in {"idle", "resumeNotify", "stopRunning", "stopNotify"}
  /\ codec \in {"none", "created", "configured", "started", "error", "released"}
  /\ pc \in LoopSteps \cup EndSteps => codec \in {"started", "error"}
  /\ held \subseteq Resources
  /\ callback \in BOOLEAN /\ stopped \in BOOLEAN
  /\ frames \in Nat \cup {-1}

\* Once the thread runs, a pause() lets it render one more frame at most before a
\* resume(), wherever it is (BaseDecoder.java, 100-137): also when it was just woken and
\* does not test the state again.
PausedSoon == frames <= 1

\* Whatever ends the loop, a stop or an exception, the track and the extractor are closed and
\* the codec is released, unless it has failed: the finally block of run(), and release(),
\* which gives up at the first call that throws (BaseDecoder.java, 143-146 and 161-172).
ReleasedAtEnd == pc = "ended" => held = {} /\ codec \in {"released", "error"}

\* Under FairSpec: once mRunning is FALSE, a thread that has yet to test it ends; it can
\* miss a stop() only between that test and its wait (BaseDecoder.java, 99-109).
StopNoticed ==
  (~mRunning /\ pc \in {"start", "testRunning", "testStop", "decode", "finish"} \cup EndSteps)
    ~> pc \in Ended

\* "停止解码", stop decoding, says IDecoder.java:10 of stop().
StopEnds == stopped ~> pc \in Ended
=============================================================================
