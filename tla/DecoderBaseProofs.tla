-------------------------- MODULE DecoderBaseProofs --------------------------
(***************************************************************************)
(* Proofs about DecoderBase, for every media length, set of key frames and *)
(* set of seek targets.                                                    *)
(***************************************************************************)
EXTENDS DecoderBase, TLAPS

USE DEF DecoderState, TimeBase, Contexts, ThreadSteps, LoopSteps,
        seekVars, mediaVars, GoTo, CanCall

LEMMA FirstPosition == 0 \in Position /\ 0 \in 0..NumFrames
BY NumFramesAssumption DEF Position

LEMMA KeyFramePosition ==
  ASSUME NEW k \in KeyFrames
  PROVE  k \in Position /\ k \in 0..NumFrames
BY NumFramesAssumption, KeyFramesAssumption DEF Position

LEMMA NextPosition ==
  ASSUME NEW d \in 0..NumFrames, d < NumFrames
  PROVE  d \in Position /\ d + 1 \in 0..NumFrames
BY NumFramesAssumption DEF Position

LEMMA TargetPosition == SeekTargets \subseteq Position
BY SeekTargetsAssumption DEF Position

\* Every field keeps its type through every call and every step of the decode
\* thread; in particular the demuxer never reads behind the stream.
THEOREM TypeCorrect == Spec => []TypeOK
<1>1. Init => TypeOK
  BY FirstPosition DEF Init, TypeOK
<1>2. TypeOK /\ [Next]_vars => TypeOK'
  <2> SUFFICES ASSUME TypeOK, [Next]_vars
               PROVE  TypeOK'
    OBVIOUS
  <2> USE DEF TypeOK
  <2>1. CASE Start
    BY <2>1 DEF Start
  <2>2. CASE Pause
    BY <2>2 DEF Pause
  <2>3. CASE Stop
    BY <2>3 DEF Stop
  <2>4. ASSUME NEW p \in SeekTargets, SeekToPosition(p)
        PROVE  TypeOK'
    BY <2>4, TargetPosition DEF SeekToPosition
  <2>5. CASE UnInitStop
    BY <2>5 DEF UnInitStop
  <2>6. CASE UnInitJoin
    BY <2>6 DEF UnInitJoin
  <2>7. CASE InitFFDecoder
    BY <2>7, FlagsAssumption DEF InitFFDecoder
  <2>8. CASE OnDecoderReady
    BY <2>8 DEF OnDecoderReady
  <2>9. CASE EnterLoop
    BY <2>9 DEF EnterLoop
  <2>10. CASE TestPause
    BY <2>10 DEF TestPause
  <2>11. CASE PausedWait
    BY <2>11 DEF PausedWait
  <2>12. CASE TestStop
    BY <2>12 DEF TestStop
  <2>13. CASE TestSeek
    BY <2>13 DEF TestSeek
  <2>14. CASE ReadTarget
    BY <2>14 DEF ReadTarget
  <2>15. CASE SeekFile
    BY <2>15, KeyFramePosition DEF SeekFile
  <2>16. CASE ReadFrame
    BY <2>16, NextPosition DEF ReadFrame, Receive
  <2>17. CASE UpdateTimeStamp
    BY <2>17, FirstPosition DEF UpdateTimeStamp
  <2>18. CASE Render
    BY <2>18, NextPosition DEF Render, Receive
  <2>19. CASE PauseAtEnd
    BY <2>19 DEF PauseAtEnd
  <2>20. CASE UnInitDecoder
    BY <2>20 DEF UnInitDecoder
  <2>21. CASE OnDecoderDone
    BY <2>21 DEF OnDecoderDone
  <2>22. CASE UNCHANGED vars
    BY <2>22 DEF vars
  <2> QED
    BY <2>1, <2>2, <2>3, <2>4, <2>5, <2>6, <2>7, <2>8, <2>9, <2>10, <2>11, <2>12,
       <2>13, <2>14, <2>15, <2>16, <2>17, <2>18, <2>19, <2>20, <2>21, <2>22
       DEF Next, Owner, DoAVDecoding, DecodingLoop
<1> QED
  BY <1>1, <1>2, PTL DEF Spec

-----------------------------------------------------------------------------

\* What DisposedIsReleased rests on: outside of its own run the thread holds
\* nothing, because UnInitDecoder is on every way to the end of DoAVDecoding.
HeldOnlyWhileRunning ==
  /\ thread \in {"null", "InitFFDecoder", "OnDecoderDone", "ended"} => ctx = "closed"
  /\ DisposedIsReleased

\* UnInit returns only when the thread has ended and everything it opened has
\* been released, whatever calls came before (lines 50-57 and 279-289).
THEOREM Disposal == Spec => []DisposedIsReleased
<1>1. Init => HeldOnlyWhileRunning
  BY DEF Init, HeldOnlyWhileRunning, DisposedIsReleased
<1>2. TypeOK /\ HeldOnlyWhileRunning /\ [Next]_vars => HeldOnlyWhileRunning'
  <2> SUFFICES ASSUME TypeOK, HeldOnlyWhileRunning, [Next]_vars
               PROVE  HeldOnlyWhileRunning'
    OBVIOUS
  <2> USE DEF TypeOK, HeldOnlyWhileRunning, DisposedIsReleased
  <2>1. CASE Start
    BY <2>1 DEF Start
  <2>2. CASE Pause \/ Stop \/ \E p \in SeekTargets : SeekToPosition(p)
    BY <2>2 DEF Pause, Stop, SeekToPosition
  <2>3. CASE UnInitStop
    BY <2>3 DEF UnInitStop
  <2>4. CASE UnInitJoin
    BY <2>4 DEF UnInitJoin
  <2>5. CASE InitFFDecoder
    BY <2>5 DEF InitFFDecoder
  <2>6. CASE OnDecoderReady
    BY <2>6 DEF OnDecoderReady
  <2>7. CASE DecodingLoop
    <3>1. CASE EnterLoop \/ TestPause \/ PausedWait
      BY <3>1 DEF EnterLoop, TestPause, PausedWait
    <3>2. CASE TestStop
      BY <3>2 DEF TestStop
    <3>3. CASE TestSeek \/ ReadTarget \/ SeekFile
      BY <3>3 DEF TestSeek, ReadTarget, SeekFile
    <3>4. CASE ReadFrame \/ Render
      BY <3>4 DEF ReadFrame, Render, Receive
    <3>5. CASE UpdateTimeStamp \/ PauseAtEnd
      BY <3>5 DEF UpdateTimeStamp, PauseAtEnd
    <3> QED
      BY <2>7, <3>1, <3>2, <3>3, <3>4, <3>5 DEF DecodingLoop
  <2>8. CASE UnInitDecoder
    BY <2>8 DEF UnInitDecoder
  <2>9. CASE OnDecoderDone
    BY <2>9 DEF OnDecoderDone
  <2>10. CASE UNCHANGED vars
    BY <2>10 DEF vars
  <2> QED
    BY <2>1, <2>2, <2>3, <2>4, <2>5, <2>6, <2>7, <2>8, <2>9, <2>10
       DEF Next, Owner, DoAVDecoding
<1>3. HeldOnlyWhileRunning => DisposedIsReleased
  BY DEF HeldOnlyWhileRunning
<1> QED
  BY <1>1, <1>2, <1>3, TypeCorrect, PTL DEF Spec

-----------------------------------------------------------------------------

\* What NoNullCodec rests on: whoever reports the media ready has opened all of it.
ReadyIsOpen == NoNullCodec /\ (thread = "OnDecoderReady" => ctx = "full")

\* With a stream of the decoder's kind, a thread whose opening fails at any step never
\* gets to OnDecoderReady, and no other thread takes the contexts away (lines 59-122).
LEMMA ReadyIsOpenInductive ==
  ASSUME HasStream
  PROVE  Spec => []ReadyIsOpen
<1>1. Init => ReadyIsOpen
  BY DEF Init, ReadyIsOpen, NoNullCodec
<1>2. ReadyIsOpen /\ [Next]_vars => ReadyIsOpen'
  <2> SUFFICES ASSUME ReadyIsOpen, [Next]_vars
               PROVE  ReadyIsOpen'
    OBVIOUS
  <2> USE DEF ReadyIsOpen, NoNullCodec
  <2>1. CASE Owner
    BY <2>1 DEF Owner, Start, Pause, Stop, SeekToPosition, UnInitStop, UnInitJoin
  <2>2. CASE InitFFDecoder
    BY <2>2, HasStream DEF InitFFDecoder
  <2>3. CASE OnDecoderReady
    BY <2>3 DEF OnDecoderReady
  <2>4. CASE DecodingLoop
    <3>1. CASE EnterLoop \/ TestPause \/ PausedWait \/ TestStop
      BY <3>1 DEF EnterLoop, TestPause, PausedWait, TestStop
    <3>2. CASE TestSeek \/ ReadTarget \/ SeekFile
      BY <3>2 DEF TestSeek, ReadTarget, SeekFile
    <3>3. CASE ReadFrame \/ Render
      BY <3>3 DEF ReadFrame, Render, Receive
    <3>4. CASE UpdateTimeStamp \/ PauseAtEnd
      BY <3>4 DEF UpdateTimeStamp, PauseAtEnd
    <3> QED
      BY <2>4, <3>1, <3>2, <3>3, <3>4 DEF DecodingLoop
  <2>5. CASE UnInitDecoder \/ OnDecoderDone
    BY <2>5 DEF UnInitDecoder, OnDecoderDone
  <2>6. CASE UNCHANGED vars
    BY <2>6 DEF vars
  <2> QED
    BY <2>1, <2>2, <2>3, <2>4, <2>5, <2>6 DEF Next, DoAVDecoding
<1> QED
  BY <1>1, <1>2, PTL DEF Spec

\* OnDecoderReady never reads the fields of a codec context that is not there (lines
\* 281-284).
THEOREM NeverNull ==
  ASSUME HasStream
  PROVE  Spec => []NoNullCodec
<1>1. ReadyIsOpen => NoNullCodec
  BY DEF ReadyIsOpen
<1> QED
  BY <1>1, ReadyIsOpenInductive, PTL

-----------------------------------------------------------------------------

\* The steps after the loop has set m_StartTimeStamp for the first time.
TimedSteps == {"TestSeek", "ReadTarget", "SeekFile", "ReadFrame", "UpdateTimeStamp",
               "Render", "PauseAtEnd"}

\* The life of a seek that succeeds: m_SeekPosition is reset by nobody but
\* UpdateTimeStamp, which resets m_SeekSuccess with it and fixes the time base.
SeekInv ==
  /\ SeekSuccessHasTarget
  /\ plainSeeks /\ thread \in {"ReadTarget", "SeekFile"} => m_SeekPosition > 0
  /\ StaleOnlyAfterSeek
  /\ thread \in TimedSteps => m_StartTimeStamp # "unset"
  /\ RenderedFramesSynced

LEMMA SeekInvInductive == Spec => []SeekInv
<1> USE DEF SeekInv, SeekSuccessHasTarget, StaleOnlyAfterSeek, RenderedFramesSynced,
            Synced, TimedSteps
<1>1. Init => SeekInv
  BY DEF Init
<1>2. TypeOK /\ SeekInv /\ [Next]_vars => SeekInv'
  <2> SUFFICES ASSUME TypeOK, SeekInv, [Next]_vars
               PROVE  SeekInv'
    OBVIOUS
  <2> USE DEF TypeOK
  <2>1. CASE Start \/ Pause \/ Stop \/ UnInitStop \/ UnInitJoin
    BY <2>1 DEF Start, Pause, Stop, UnInitStop, UnInitJoin
  <2>2. ASSUME NEW p \in SeekTargets, SeekToPosition(p)
        PROVE  SeekInv'
    <3>1. p \in Nat
      BY SeekTargetsAssumption, NumFramesAssumption
    <3> QED
      BY <2>2, <3>1 DEF SeekToPosition
  <2>3. CASE InitFFDecoder \/ OnDecoderReady \/ UnInitDecoder \/ OnDecoderDone
    BY <2>3 DEF InitFFDecoder, OnDecoderReady, UnInitDecoder, OnDecoderDone
  <2>4. CASE EnterLoop \/ TestPause \/ PausedWait
    BY <2>4 DEF EnterLoop, TestPause, PausedWait
  <2>5. CASE TestStop
    BY <2>5 DEF TestStop
  <2>6. CASE TestSeek \/ ReadTarget
    BY <2>6 DEF TestSeek, ReadTarget
  <2>7. CASE SeekFile
    BY <2>7 DEF SeekFile
  <2>8. CASE ReadFrame \/ Render
    BY <2>8 DEF ReadFrame, Render, Receive
  <2>9. CASE UpdateTimeStamp
    BY <2>9 DEF UpdateTimeStamp
  <2>10. CASE PauseAtEnd
    BY <2>10 DEF PauseAtEnd
  <2>11. CASE UNCHANGED vars
    BY <2>11 DEF vars
  <2> QED
    BY <2>1, <2>2, <2>3, <2>4, <2>5, <2>6, <2>7, <2>8, <2>9, <2>10, <2>11
       DEF Next, Owner, DoAVDecoding, DecodingLoop
<1> QED
  BY <1>1, <1>2, TypeCorrect, PTL DEF Spec

\* As long as nobody has sought to the very start and the demuxer has accepted every
\* seek, frames are synchronised with a time base of their own position, however the
\* calls of the owner fall between the steps of the decode thread.
THEOREM Synchronised ==
  Spec => [](SeekSuccessHasTarget /\ StaleOnlyAfterSeek /\ RenderedFramesSynced)
<1>1. SeekInv => SeekSuccessHasTarget /\ StaleOnlyAfterSeek /\ RenderedFramesSynced
  BY DEF SeekInv
<1> QED
  BY <1>1, SeekInvInductive, PTL

-----------------------------------------------------------------------------

\* Under the mapping phase, every call of the owner and every step of the decode
\* thread is a step of DecoderLifecycle or changes nothing that it speaks of.
THEOREM Refinement == Spec => ImplementsLifecycle
<1> USE DEF phase
<1>1. Init => Lifecycle!LifecycleInit
  BY DEF Init, Lifecycle!LifecycleInit
<1>2. TypeOK /\ DisposedIsReleased /\ [Next]_vars
        => [Lifecycle!LifecycleNext]_<<phase, ctx>>
  <2> SUFFICES ASSUME TypeOK, DisposedIsReleased, [Next]_vars
               PROVE  [Lifecycle!LifecycleNext]_<<phase, ctx>>
    OBVIOUS
  <2> USE DEF TypeOK, DisposedIsReleased, Lifecycle!LifecycleNext
  <2>1. CASE Start
    BY <2>1 DEF Start, Lifecycle!Launch
  <2>2. CASE Pause \/ Stop \/ \E p \in SeekTargets : SeekToPosition(p)
    BY <2>2 DEF Pause, Stop, SeekToPosition
  <2>3. CASE UnInitStop
    BY <2>3 DEF UnInitStop, Lifecycle!Dispose
  <2>4. CASE UnInitJoin
    BY <2>4 DEF UnInitJoin, Lifecycle!Dispose
  <2>5. CASE InitFFDecoder
    BY <2>5 DEF InitFFDecoder, Lifecycle!Open, Lifecycle!FailToOpen, Lifecycle!Contexts
  <2>6. CASE OnDecoderReady
    BY <2>6 DEF OnDecoderReady
  <2>7. CASE DecodingLoop
    <3>1. CASE EnterLoop \/ TestPause \/ PausedWait
      BY <3>1 DEF EnterLoop, TestPause, PausedWait
    <3>2. CASE TestStop
      BY <3>2 DEF TestStop, Lifecycle!Leave
    <3>3. CASE TestSeek \/ ReadTarget \/ SeekFile
      BY <3>3 DEF TestSeek, ReadTarget, SeekFile
    <3>4. CASE ReadFrame \/ Render
      BY <3>4 DEF ReadFrame, Render, Receive
    <3>5. CASE UpdateTimeStamp \/ PauseAtEnd
      BY <3>5 DEF UpdateTimeStamp, PauseAtEnd
    <3> QED
      BY <2>7, <3>1, <3>2, <3>3, <3>4, <3>5 DEF DecodingLoop
  <2>8. CASE UnInitDecoder
    BY <2>8 DEF UnInitDecoder, Lifecycle!Release
  <2>9. CASE OnDecoderDone
    BY <2>9 DEF OnDecoderDone, Lifecycle!ReportDone
  <2>10. CASE UNCHANGED vars
    BY <2>10 DEF vars
  <2> QED
    BY <2>1, <2>2, <2>3, <2>4, <2>5, <2>6, <2>7, <2>8, <2>9, <2>10
       DEF Next, Owner, DoAVDecoding
<1> QED
  BY <1>1, <1>2, TypeCorrect, Disposal, PTL
     DEF Spec, ImplementsLifecycle, Lifecycle!LifecycleSpec, Lifecycle!lifecycleVars

-----------------------------------------------------------------------------

\* Under the mapping activity, every call of the owner and every step of the decode
\* thread is one of DecodeThread, or nothing that NativePlayer could tell: the decoders
\* that the player is composed of lose no behaviour of this one.
THEOREM ThreadRefinement ==
  ASSUME HasStream
  PROVE  Spec => ImplementsThread
<1> USE DEF activity
<1>1. Init => Reduced!ThreadInit
  BY DEF Init, Reduced!ThreadInit
<1>2. TypeOK /\ DisposedIsReleased /\ ReadyIsOpen /\ [Next]_vars
        => [Reduced!ThreadNext]_<<m_DecoderState, activity>>
  <2> SUFFICES ASSUME TypeOK, DisposedIsReleased, ReadyIsOpen, [Next]_vars
               PROVE  [Reduced!ThreadNext]_<<m_DecoderState, activity>>
    OBVIOUS
  <2> USE DEF TypeOK, DisposedIsReleased, ReadyIsOpen, NoNullCodec, Reduced!ThreadNext,
              Reduced!OwnerStep, Reduced!ThreadStep, Reduced!Moves
  <2>1. CASE Start
    BY <2>1 DEF Start, Reduced!Start
  <2>2. CASE Pause \/ Stop \/ \E p \in SeekTargets : SeekToPosition(p)
    BY <2>2 DEF Pause, Stop, SeekToPosition, Reduced!Command
  <2>3. CASE UnInitStop
    BY <2>3 DEF UnInitStop, Reduced!Command
  <2>4. CASE UnInitJoin
    BY <2>4 DEF UnInitJoin, Reduced!Join
  <2>5. CASE InitFFDecoder
    BY <2>5 DEF InitFFDecoder, Reduced!Open
  <2>6. CASE OnDecoderReady \/ EnterLoop
    BY <2>6 DEF OnDecoderReady, EnterLoop, Reduced!Enter
  <2>7. CASE TestPause \/ TestStop
    BY <2>7 DEF TestPause, TestStop, Reduced!Test
  <2>8. CASE PausedWait \/ TestSeek \/ ReadTarget \/ SeekFile
    BY <2>8 DEF PausedWait, TestSeek, ReadTarget, SeekFile
  <2>9. CASE ReadFrame \/ UpdateTimeStamp \/ Render \/ PauseAtEnd
    BY <2>9 DEF ReadFrame, UpdateTimeStamp, Render, PauseAtEnd, Receive, Reduced!Decode
  <2>10. CASE UnInitDecoder \/ OnDecoderDone
    BY <2>10 DEF UnInitDecoder, OnDecoderDone, Reduced!Close
  <2>11. CASE UNCHANGED vars
    BY <2>11 DEF vars
  <2> QED
    BY <2>1, <2>2, <2>3, <2>4, <2>5, <2>6, <2>7, <2>8, <2>9, <2>10, <2>11
       DEF Next, Owner, DoAVDecoding, DecodingLoop
<1> QED
  BY <1>1, <1>2, TypeCorrect, Disposal, ReadyIsOpenInductive, PTL
     DEF Spec, ImplementsThread, Reduced!ThreadSpec, Reduced!threadVars

=============================================================================
