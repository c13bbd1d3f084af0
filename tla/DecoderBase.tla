---------------------------- MODULE DecoderBase ----------------------------
(***************************************************************************)
(* One decoder of the native player (player/decoder/DecoderBase.cpp): the  *)
(* decode thread of DoAVDecoding, and the thread that owns the decoder and *)
(* calls Start, Pause, Stop, SeekToPosition and UnInit.  The two share     *)
(* m_DecoderState, m_SeekPosition and m_SeekSuccess.  The owner writes     *)
(* them under m_Mutex; the decode thread reads them without it, so every   *)
(* read of a shared field is a step of its own.  m_Mutex protects only     *)
(* short sections with a single effect: each is one step.                  *)
(*                                                                         *)
(* The media is NumFrames frames; a position is the index of a frame.      *)
(***************************************************************************)
EXTENDS Integers

CONSTANTS
  NumFrames,    \* frames in the decoded stream
  KeyFrames,    \* frames the demuxer can seek to
  SeekTargets,  \* positions the owner asks for
  HasStream,    \* the file has a stream of m_MediaType with a known codec
  SeekMayFail,  \* avformat_seek_file may return an error
  ReadMayFail   \* av_read_frame may return an error before the end

ASSUME NumFramesAssumption == NumFrames \in Nat \ {0}
ASSUME KeyFramesAssumption == KeyFrames \subseteq 0..(NumFrames - 1) /\ 0 \in KeyFrames
ASSUME SeekTargetsAssumption == SeekTargets \subseteq 0..(NumFrames - 1)
ASSUME FlagsAssumption == {HasStream, SeekMayFail, ReadMayFail} \subseteq BOOLEAN

VARIABLES
  m_DecoderState,
  m_SeekPosition,    \* 0: no seek is asked for
  m_SeekSuccess,
  m_CurTimeStamp,    \* the frame whose time stamp was taken last
  m_StartTimeStamp,  \* how the time base relates to the frames being read
  m_Frame,           \* the decoded frame
  demux,             \* the next frame av_read_frame returns
  target,            \* seek_target, local to DecodeOnePacket
  ctx,               \* the FFmpeg contexts held
  thread,            \* the next step of the decode thread
  owner,             \* the owning thread: free, in UnInit, or done with it
  plainSeeks         \* history: no seek was to 0, and none has failed

vars == <<m_DecoderState, m_SeekPosition, m_SeekSuccess, m_CurTimeStamp,
          m_StartTimeStamp, m_Frame, demux, target, ctx, thread, owner,
          plainSeeks>>

seekVars == <<m_SeekPosition, m_SeekSuccess, target, plainSeeks>>
mediaVars == <<m_CurTimeStamp, m_StartTimeStamp, m_Frame, demux>>

-----------------------------------------------------------------------------

DecoderState == {"UNKNOWN", "DECODING", "PAUSE", "STOP"}
Position == 0..(NumFrames - 1)

\* "stale": the reads continue at another position than the time base is for.
TimeBase == {"unset", "current", "stale"}
Contexts == {"closed", "format", "full"}

LoopSteps == {"Enter", "TestPause", "Paused", "TestStop", "TestSeek", "ReadTarget",
              "SeekFile", "ReadFrame", "UpdateTimeStamp", "Render", "PauseAtEnd"}

ThreadSteps == {"null", "InitFFDecoder", "OnDecoderReady", "UnInitDecoder",
                "OnDecoderDone", "ended", "crashed"} \union LoopSteps

\* A backward seek to p lands on the last key frame not behind it.
LandsOn(p, k) ==
  /\ k \in KeyFrames
  /\ k <= p
  /\ \A j \in KeyFrames : j <= p => j <= k

TypeOK ==
  /\ m_DecoderState \in DecoderState
  /\ m_SeekPosition \in Position
  /\ m_SeekSuccess \in BOOLEAN
  /\ m_CurTimeStamp \in Position
  /\ m_StartTimeStamp \in TimeBase
  /\ m_Frame \in Position
  /\ demux \in 0..NumFrames
  /\ target \in Position
  /\ ctx \in Contexts
  /\ thread \in ThreadSteps
  /\ owner \in {"free", "join", "gone"}
  /\ plainSeeks \in BOOLEAN

Init ==
  /\ m_DecoderState = "UNKNOWN"
  /\ m_SeekPosition = 0
  /\ m_SeekSuccess = FALSE
  /\ m_CurTimeStamp = 0
  /\ m_StartTimeStamp = "unset"
  /\ m_Frame = 0
  /\ demux = 0
  /\ target = 0
  /\ ctx = "closed"
  /\ thread = "null"
  /\ owner = "free"
  /\ plainSeeks = TRUE

-----------------------------------------------------------------------------
(* The owning thread.  A crash of the decode thread ends the process.      *)

CanCall == owner = "free" /\ thread # "crashed"

Start ==
  /\ CanCall
  /\ IF thread = "null"
       THEN thread' = "InitFFDecoder" /\ UNCHANGED m_DecoderState
       ELSE m_DecoderState' = "DECODING" /\ UNCHANGED thread
  /\ UNCHANGED <<seekVars, mediaVars, ctx, owner>>

Pause ==
  /\ CanCall
  /\ m_DecoderState' = "PAUSE"
  /\ UNCHANGED <<seekVars, mediaVars, ctx, thread, owner>>

Stop ==
  /\ CanCall
  /\ m_DecoderState' = "STOP"
  /\ UNCHANGED <<seekVars, mediaVars, ctx, thread, owner>>

SeekToPosition(p) ==
  /\ CanCall
  /\ m_SeekPosition' = p
  /\ m_DecoderState' = "DECODING"
  /\ plainSeeks' = (plainSeeks /\ p > 0)
  /\ UNCHANGED <<m_SeekSuccess, target, mediaVars, ctx, thread, owner>>

\* UnInit of a decoder that was never started has nothing to stop.
UnInitStop ==
  /\ CanCall
  /\ IF thread = "null"
       THEN owner' = "gone" /\ UNCHANGED m_DecoderState
       ELSE owner' = "join" /\ m_DecoderState' = "STOP"
  /\ UNCHANGED <<seekVars, mediaVars, ctx, thread>>

\* Mutant: UnInit does not join the thread.
UnInitJoin_NoJoin ==
  /\ owner = "join"
  /\ owner' = "gone"
  /\ UNCHANGED <<m_DecoderState, seekVars, mediaVars, ctx, thread>>

UnInitJoin ==
  /\ owner = "join"
  /\ thread = "ended"
  /\ owner' = "gone"
  /\ UNCHANGED <<m_DecoderState, seekVars, mediaVars, ctx, thread>>

-----------------------------------------------------------------------------
(* The decode thread.                                                      *)

GoTo(step, next) == thread = step /\ thread' = next

\* Mutant: the result of opening the media is not tested.
InitFFDecoder_Untested ==
  /\ ctx' \in {"closed", "format", "full"}
  /\ GoTo("InitFFDecoder", "OnDecoderReady")
  /\ UNCHANGED <<m_DecoderState, seekVars, mediaVars, owner>>

\* avformat_find_stream_info leaves ret at 0, and the two breaks for a missing
\* stream and a missing decoder do not change it: the caller sees success.
InitFFDecoder ==
  /\ \/ /\ ctx' \in {"closed", "format", "full"}
        /\ GoTo("InitFFDecoder", "UnInitDecoder")
     \/ /\ ctx' = IF HasStream THEN "full" ELSE "format"
        /\ GoTo("InitFFDecoder", "OnDecoderReady")
  /\ UNCHANGED <<m_DecoderState, seekVars, mediaVars, owner>>

\* Both subclasses read fields of the codec context here.
OnDecoderReady ==
  /\ GoTo("OnDecoderReady", IF ctx = "full" THEN "Enter" ELSE "crashed")
  /\ UNCHANGED <<m_DecoderState, seekVars, mediaVars, ctx, owner>>

EnterLoop ==
  /\ GoTo("Enter", "TestPause")
  /\ m_DecoderState' = "DECODING"
  /\ UNCHANGED <<seekVars, mediaVars, ctx, owner>>

\* Mutant: the loop does not look at PAUSE.
TestPause_Never ==
  /\ GoTo("TestPause", "TestStop")
  /\ UNCHANGED <<m_DecoderState, seekVars, mediaVars, ctx, owner>>

TestPause ==
  /\ GoTo("TestPause", IF m_DecoderState = "PAUSE" THEN "Paused" ELSE "TestStop")
  /\ UNCHANGED <<m_DecoderState, seekVars, mediaVars, ctx, owner>>

\* Mutant: after the wait the state is not tested again.
PausedWait_NoRetest ==
  /\ GoTo("Paused", "Paused")
  /\ m_StartTimeStamp' = IF m_StartTimeStamp = "stale" THEN "stale" ELSE "current"
  /\ UNCHANGED <<m_DecoderState, seekVars, m_CurTimeStamp, m_Frame, demux, ctx, owner>>

\* wait_for ends by a notification or after 10 ms; the time base then follows
\* m_CurTimeStamp, which a seek has not moved yet.
PausedWait ==
  /\ GoTo("Paused", "TestPause")
  /\ m_StartTimeStamp' = IF m_StartTimeStamp = "stale" THEN "stale" ELSE "current"
  /\ UNCHANGED <<m_DecoderState, seekVars, m_CurTimeStamp, m_Frame, demux, ctx, owner>>

\* Mutant: the way out of the loop skips UnInitDecoder.
TestStop_SkipsRelease ==
  /\ GoTo("TestStop", IF m_DecoderState = "STOP" THEN "OnDecoderDone" ELSE "TestSeek")
  /\ UNCHANGED <<m_DecoderState, seekVars, mediaVars, ctx, owner>>

TestStop ==
  /\ GoTo("TestStop", IF m_DecoderState = "STOP" THEN "UnInitDecoder" ELSE "TestSeek")
  /\ m_StartTimeStamp' = IF m_DecoderState # "STOP" /\ m_StartTimeStamp = "unset"
                           THEN "current" ELSE m_StartTimeStamp
  /\ UNCHANGED <<m_DecoderState, seekVars, m_CurTimeStamp, m_Frame, demux, ctx, owner>>

TestSeek ==
  /\ GoTo("TestSeek", IF m_SeekPosition > 0 THEN "ReadTarget" ELSE "ReadFrame")
  /\ UNCHANGED <<m_DecoderState, seekVars, mediaVars, ctx, owner>>

ReadTarget ==
  /\ GoTo("ReadTarget", "SeekFile")
  /\ target' = m_SeekPosition
  /\ UNCHANGED <<m_DecoderState, m_SeekPosition, m_SeekSuccess, plainSeeks, mediaVars, ctx,
                 owner>>

SeekFile ==
  /\ GoTo("SeekFile", "ReadFrame")
  /\ \/ /\ m_SeekSuccess' = TRUE
        /\ \E k \in KeyFrames : LandsOn(target, k) /\ demux' = k
        /\ m_StartTimeStamp' = "stale"
        /\ UNCHANGED plainSeeks
     \/ /\ SeekMayFail
        /\ m_SeekSuccess' = FALSE
        /\ plainSeeks' = FALSE
        /\ UNCHANGED <<demux, m_StartTimeStamp>>
  /\ UNCHANGED <<m_DecoderState, m_SeekPosition, target, m_CurTimeStamp,
                 m_Frame, ctx, owner>>

\* Mutant: reading on behind the end of the stream.
Receive_PastEnd ==
  /\ m_Frame' = demux
  /\ demux' = demux + 1
  /\ thread' = "UpdateTimeStamp"

\* A decoder yields the next frame.
Receive ==
  /\ demux < NumFrames
  /\ m_Frame' = demux
  /\ demux' = demux + 1
  /\ thread' = "UpdateTimeStamp"

ReadFrame ==
  /\ thread = "ReadFrame"
  /\ \/ Receive
     \/ /\ demux = NumFrames \/ ReadMayFail
        /\ thread' = "PauseAtEnd"
        /\ UNCHANGED <<m_Frame, demux>>
  /\ UNCHANGED <<m_DecoderState, seekVars, m_CurTimeStamp, m_StartTimeStamp, ctx, owner>>

\* Mutant: the end of a seek leaves the time base as it was.
UpdateTimeStamp_NoRebase ==
  /\ GoTo("UpdateTimeStamp", "Render")
  /\ m_CurTimeStamp' = m_Frame
  /\ m_SeekPosition' = 0
  /\ m_SeekSuccess' = FALSE
  /\ UNCHANGED <<m_DecoderState, m_StartTimeStamp, target, plainSeeks, m_Frame, demux,
                 ctx, owner>>

UpdateTimeStamp ==
  /\ GoTo("UpdateTimeStamp", "Render")
  /\ m_CurTimeStamp' = m_Frame
  /\ IF m_SeekPosition > 0 /\ m_SeekSuccess
       THEN /\ m_StartTimeStamp' = "current"
            /\ m_SeekPosition' = 0
            /\ m_SeekSuccess' = FALSE
       ELSE UNCHANGED <<m_StartTimeStamp, m_SeekPosition, m_SeekSuccess>>
  /\ UNCHANGED <<m_DecoderState, target, plainSeeks, m_Frame, demux, ctx, owner>>

\* AVSync and OnFrameAvailable.  The packet is done, or it holds another frame:
\* a key frame starts a packet.
Render ==
  /\ thread = "Render"
  /\ \/ /\ thread' = "TestPause"
        /\ UNCHANGED <<m_Frame, demux>>
     \/ demux \notin KeyFrames /\ Receive
  /\ UNCHANGED <<m_DecoderState, seekVars, m_CurTimeStamp, m_StartTimeStamp, ctx, owner>>

PauseAtEnd ==
  /\ GoTo("PauseAtEnd", "TestPause")
  /\ m_DecoderState' = "PAUSE"
  /\ UNCHANGED <<seekVars, mediaVars, ctx, owner>>

UnInitDecoder ==
  /\ GoTo("UnInitDecoder", "OnDecoderDone")
  /\ ctx' = "closed"
  /\ UNCHANGED <<m_DecoderState, seekVars, mediaVars, owner>>

OnDecoderDone ==
  /\ GoTo("OnDecoderDone", "ended")
  /\ UNCHANGED <<m_DecoderState, seekVars, mediaVars, ctx, owner>>

DecodingLoop ==
  \/ EnterLoop \/ TestPause \/ PausedWait \/ TestStop
  \/ TestSeek \/ ReadTarget \/ SeekFile
  \/ ReadFrame \/ UpdateTimeStamp \/ Render \/ PauseAtEnd

DoAVDecoding ==
  InitFFDecoder \/ OnDecoderReady \/ DecodingLoop \/ UnInitDecoder \/ OnDecoderDone

Owner ==
  \/ Start \/ Pause \/ Stop
  \/ \E p \in SeekTargets : SeekToPosition(p)
  \/ UnInitStop \/ UnInitJoin

Next == Owner \/ DoAVDecoding

Spec == Init /\ [][Next]_vars

\* The threads are scheduled; the user need not call anything.
FairSpec == Spec /\ WF_vars(DoAVDecoding) /\ WF_vars(UnInitJoin)

-----------------------------------------------------------------------------
(* Safety.                                                                 *)

\* OnDecoderReady of a subclass finds a codec context: a thread that failed to
\* open the media never reports it ready (lines 281-284).
NoNullCodec == thread # "crashed"

\* When UnInit has returned, so that the owner deletes the decoder, no thread of
\* the decoder is left and nothing it opened is still held (lines 50-57).
DisposedIsReleased ==
  owner = "gone" => thread \in {"null", "ended"} /\ ctx = "closed"

\* While every seek is to a positive position and accepted, m_SeekSuccess tells that
\* the frames being read are those of the seek recorded in m_SeekPosition (lines
\* 196-200): it never outlives its seek.
SeekSuccessHasTarget == plainSeeks /\ m_SeekSuccess => m_SeekPosition > 0

\* And the time base is off only from a successful seek to its first frame.
StaleOnlyAfterSeek == plainSeeks /\ m_StartTimeStamp = "stale" => m_SeekSuccess

\* A frame is handed to AVSync only with a time base that belongs to the position
\* it was read from ("synchronise to the system clock", line 213).
Synced == thread = "Render" => m_StartTimeStamp = "current"

\* This holds until a seek to 0 or a refused seek, however the calls fall.
RenderedFramesSynced == plainSeeks => Synced

\* The decoder keeps the promises of DecoderLifecycle: opened once, ready only
\* when open, released before done, done before disposed of.
phase ==
  IF owner = "gone" THEN "disposed"
  ELSE IF thread = "null" THEN "absent"
  ELSE IF thread = "InitFFDecoder" THEN "opening"
  ELSE IF thread = "UnInitDecoder" THEN "closing"
  ELSE IF thread = "OnDecoderDone" THEN "released"
  ELSE IF thread = "ended" THEN "finished"
  ELSE "active"

Lifecycle == INSTANCE DecoderLifecycle WITH phase <- phase, ctx <- ctx

ImplementsLifecycle == Lifecycle!LifecycleSpec

\* To its owner, a decoder that finds its stream is the DecodeThread that NativePlayer
\* takes it for: between the test for PAUSE and the test for STOP it may still be paused
\* (lines 160-180).
activity ==
  IF owner = "gone" THEN "absent"
  ELSE CASE thread = "null" -> "absent"
         [] thread = "InitFFDecoder" -> "opening"
         [] thread = "OnDecoderReady" -> "ready"
         [] thread = "Enter" -> "entering"
         [] thread \in {"TestPause", "Paused"} -> "loop"
         [] thread = "TestStop" -> "testStop"
         [] thread \in {"TestSeek", "ReadTarget", "SeekFile", "ReadFrame", "PauseAtEnd"} -> "decode"
         [] thread \in {"UpdateTimeStamp", "Render"} -> "frame"
         [] thread = "UnInitDecoder" -> "closing"
         [] thread = "OnDecoderDone" -> "done"
         [] thread \in {"ended", "crashed"} -> thread

Reduced == INSTANCE DecodeThread WITH thread <- activity

ImplementsThread == Reduced!ThreadSpec

-----------------------------------------------------------------------------
(* Liveness, under FairSpec.                                               *)

\* UnInit returns as long as nobody overwrites the STOP it wrote (lines 50-57).
UnInitReturnsUnlessOverwritten ==
  (owner = "join" /\ m_DecoderState = "STOP" /\ thread # "crashed")
    ~> (owner = "gone" \/ m_DecoderState # "STOP" \/ thread = "crashed")

\* A pause that stays in force ends the delivery of frames (lines 161-166).
PauseQuiesces ==
  <>[](m_DecoderState = "PAUSE")
    => <>[](thread \in {"TestPause", "Paused", "null", "ended", "crashed"})

\* A paused thread that is resumed decodes again: no wake-up is lost.
ResumeEndsPause ==
  (thread = "Paused" /\ m_DecoderState = "DECODING")
    ~> (thread = "ReadFrame" \/ m_DecoderState # "DECODING")

\* A STOP ends the decoding loop ("if (m_DecoderState == STATE_STOP)", line 168), so UnInit, which
\* writes STOP and then joins the thread (lines 52-53), returns.  It need not: a thread that enters
\* the loop afterwards writes DECODING over it (line 156).
UnInitReturns == (owner = "join") ~> (owner = "gone")
=============================================================================
