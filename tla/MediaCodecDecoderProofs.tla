----------------------- MODULE MediaCodecDecoderProofs -----------------------
(***************************************************************************)
(* Theorems about MediaCodecDecoder.tla, for both kinds of decoder and     *)
(* every interleaving of the two threads.                                  *)
(***************************************************************************)
EXTENDS MediaCodecDecoder, TLAPS

LEMMA WakeSteps ==
  /\ pc = "waiting" => Wake = "testStop"
  /\ pc = "waitingSurface" => Wake = "start"
  /\ pc \notin {"waiting", "waitingSurface"} => Wake = pc
BY DEF Wake

LEMMA TypeInductive == TypeOK /\ [Next]_vars => TypeOK'
<1> SUFFICES ASSUME TypeOK, [Next]_vars PROVE TypeOK'
  OBVIOUS
<1> USE DEF TypeOK
<1>1. CASE Pause
  BY <1>1 DEF Pause, DecodeState
<1>2. CASE Resume
  BY <1>2 DEF Resume, CanCall, DecodeState
<1>3. CASE ResumeNotify
  BY <1>3, WakeSteps DEF ResumeNotify, InitSteps, LoopSteps, EndSteps, Ended
<1>4. CASE Stop
  BY <1>4 DEF Stop, DecodeState
<1>5. CASE StopRunning
  BY <1>5 DEF StopRunning
<1>6. CASE StopNotify
  BY <1>6, WakeSteps DEF StopNotify, InitSteps, LoopSteps, EndSteps, Ended
<1>7. CASE SurfaceCreated
  BY <1>7, WakeSteps DEF SurfaceCreated, InitSteps, LoopSteps, EndSteps, Ended
<1>8. CASE Run
  BY <1>8 DEF Run, Goes, DecodeState, InitSteps, LoopSteps, EndSteps, Ended
<1>9. CASE InitOk \/ InitFails \/ InitThrows
  BY <1>9 DEF InitOk, InitFails, InitThrows, Goes, Resources, InitSteps, LoopSteps, EndSteps, Ended
<1>10. CASE ConfigCodec \/ ConfigLater \/ WaitSurface \/ StartCodec
  <2>1. CASE ConfigCodec
    BY <1>10, <2>1 DEF ConfigCodec, Goes, InitSteps, LoopSteps, EndSteps
  <2>2. CASE ConfigLater \/ WaitSurface
    BY <1>10, <2>2 DEF ConfigLater, WaitSurface, Goes, InitSteps, LoopSteps, EndSteps
  <2>3. CASE StartCodec
    BY <1>10, <2>3 DEF StartCodec, Goes, InitSteps, LoopSteps, EndSteps, Ended
  <2> QED BY <1>10, <2>1, <2>2, <2>3
<1>11. CASE TestRunning \/ TestState \/ WaitDecode \/ TestStop
  <2>1. pc' \in {"testState", "doneDecode", "testStop", "enterWait", "waiting", "decode"}
        /\ codec \in {"started", "error"} /\ mRunning' \in BOOLEAN
    BY <1>11 DEF TestRunning, TestState, WaitDecode, TestStop, Goes, LoopSteps
  <2> QED BY <1>11, <2>1 DEF TestRunning, TestState, WaitDecode, TestStop, LoopSteps, EndSteps
<1>12. CASE Decode
  <2>1. mIsEOS' \in BOOLEAN
    BY <1>12 DEF Decode
  <2>2. pc' \in {"testRunning", "finish"} /\ codec = "started"
    BY <1>12 DEF Decode, LoopSteps
  <2>3. frames' \in Nat \cup {-1}
    BY <1>12 DEF Decode
  <2> QED BY <1>12, <2>1, <2>2, <2>3 DEF Decode, LoopSteps, EndSteps
<1>13. CASE DecodeThrows \/ Finish \/ DoneDecode
  <2>1. CASE DecodeThrows
    <3>1. mIsEOS' \in BOOLEAN
      BY <2>1 DEF DecodeThrows
    <3>2. frames' \in Nat \cup {-1}
      BY <2>1 DEF DecodeThrows
    <3>3. pc' = "doneDecode" /\ pc = "decode"
      BY <2>1 DEF DecodeThrows, Goes
    <3> QED BY <2>1, <3>1, <3>2, <3>3 DEF DecodeThrows, LoopSteps, EndSteps
  <2>2. CASE Finish \/ DoneDecode
    BY <2>2 DEF Finish, DoneDecode, Goes, DecodeState, LoopSteps, EndSteps
  <2> QED BY <1>13, <2>1, <2>2
<1>14. CASE DoneDecodeThrows \/ Release
  BY <1>14 DEF DoneDecodeThrows, Release, Goes, DecodeState, InitSteps, LoopSteps, EndSteps, Ended
<1>15. CASE CodecFails
  BY <1>15 DEF CodecFails
<1>16. CASE UNCHANGED vars
  BY <1>16 DEF vars
<1> HIDE DEF TypeOK
<1> QED
  BY <1>1, <1>2, <1>3, <1>4, <1>5, <1>6, <1>7, <1>8, <1>9, <1>10, <1>11, <1>12, <1>13, <1>14,
     <1>15, <1>16
  DEF Next, Call, Finishing, Thread

LEMMA TypeInit == Init => TypeOK
BY DEF Init, TypeOK, DecodeState, InitSteps, LoopSteps, EndSteps

\* Every field stays in its range, and only a codec that was started decodes.
THEOREM TypeCorrect == Spec => []TypeOK
BY TypeInit, TypeInductive, PTL DEF Spec

-----------------------------------------------------------------------------
(* What is left open.                                                      *)

\* The track is released one step before the rest.
ReleasedOK == ReleasedAtEnd /\ (pc = "release" => "track" \notin held)

LEMMA ReleasedInductive == TypeOK /\ ReleasedOK /\ [Next]_vars => ReleasedOK'
<1> SUFFICES ASSUME TypeOK, ReleasedOK, [Next]_vars PROVE ReleasedOK'
  OBVIOUS
<1> USE DEF ReleasedOK, ReleasedAtEnd
<1>1. CASE Call \/ Finishing
  BY <1>1, WakeSteps
  DEF Call, Pause, Resume, Stop, Finishing, ResumeNotify, StopRunning, StopNotify
<1>2. CASE SurfaceCreated
  BY <1>2, WakeSteps DEF SurfaceCreated
<1>3. CASE Release \/ CodecFails
  BY <1>3 DEF Release, CodecFails, Goes, TypeOK, Resources
<1>4. CASE DoneDecode \/ DoneDecodeThrows
  BY <1>4 DEF DoneDecode, DoneDecodeThrows, Goes
<1>5. CASE Run \/ InitOk \/ InitFails \/ InitThrows \/ ConfigCodec \/ ConfigLater \/ WaitSurface
           \/ StartCodec
  BY <1>5
  DEF Run, InitOk, InitFails, InitThrows, ConfigCodec, ConfigLater, WaitSurface, StartCodec, Goes
<1>6. CASE TestRunning \/ TestState \/ WaitDecode \/ TestStop \/ Decode \/ DecodeThrows \/ Finish
  BY <1>6
  DEF TestRunning, TestState, WaitDecode, TestStop, Decode, DecodeThrows, Finish, Goes
<1>7. CASE UNCHANGED vars
  BY <1>7 DEF vars
<1> QED BY <1>1, <1>2, <1>3, <1>4, <1>5, <1>6, <1>7 DEF Next, Thread

\* A thread that has left its loop, however it did, leaves nothing open but a codec that failed.
THEOREM Released == Spec => []ReleasedAtEnd
<1>1. Init => ReleasedOK
  BY DEF Init, ReleasedOK, ReleasedAtEnd
<1>2. ReleasedOK => ReleasedAtEnd
  BY DEF ReleasedOK
<1> QED BY TypeInit, TypeInductive, <1>1, ReleasedInductive, <1>2, PTL DEF Spec

-----------------------------------------------------------------------------
(* Frames after a pause.                                                   *)

\* While a pause() is in force the state does not play, and once a frame was rendered only
\* a stop() lets the thread pass its wait.
PausedOK ==
  /\ frames \in {-1, 0, 1}
  /\ owner = "stopNotify" => ~mRunning
  /\ frames # -1 => mState \notin Playing /\ pc # "pool" /\ owner # "resumeNotify"
  /\ frames = 1 => pc # "decode" /\ (pc = "testStop" => ~mRunning)

LEMMA PausedInductive == TypeOK /\ PausedOK /\ [Next]_vars => PausedOK'
<1> SUFFICES ASSUME TypeOK, PausedOK, [Next]_vars PROVE PausedOK'
  OBVIOUS
<1> USE DEF PausedOK, Playing
<1>1. CASE Call
  BY <1>1 DEF Call, Pause, Resume, Stop, CanCall
<1>2. CASE Finishing
  BY <1>2, WakeSteps DEF Finishing, ResumeNotify, StopRunning, StopNotify
<1>3. CASE SurfaceCreated
  <2>1. codec = "created" => pc # "waiting"
    BY DEF TypeOK, LoopSteps
  <2> QED BY <1>3, <2>1, WakeSteps DEF SurfaceCreated
<1>4. CASE Run \/ InitOk \/ InitFails \/ InitThrows \/ ConfigCodec \/ ConfigLater \/ WaitSurface
           \/ StartCodec
  BY <1>4
  DEF Run, InitOk, InitFails, InitThrows, ConfigCodec, ConfigLater, WaitSurface, StartCodec, Goes
<1>5. CASE TestRunning \/ TestState \/ WaitDecode
  BY <1>5 DEF TestRunning, TestState, WaitDecode, Goes
<1>6. CASE TestStop
  BY <1>6 DEF TestStop
<1>7. CASE Decode
  BY <1>7 DEF Decode
<1>8. CASE DecodeThrows \/ Finish \/ DoneDecode \/ DoneDecodeThrows \/ Release \/ CodecFails
  <2>1. CASE DecodeThrows
    <3>1. frames \in {-1, 0} /\ pc' = "doneDecode"
      BY <2>1 DEF DecodeThrows, Goes
    <3>2. frames' \in {frames, IF frames = -1 THEN -1 ELSE frames + 1}
      BY <2>1 DEF DecodeThrows
    <3>3. frames' \in {-1, 0, 1} /\ (frames' # -1 => frames # -1)
      BY <3>1, <3>2
    <3> QED BY <2>1, <3>1, <3>3 DEF DecodeThrows
  <2>2. CASE Finish \/ DoneDecode \/ DoneDecodeThrows
    BY <2>2 DEF Finish, DoneDecode, DoneDecodeThrows, Goes
  <2>3. CASE Release \/ CodecFails
    BY <2>3 DEF Release, CodecFails, Goes
  <2> QED BY <1>8, <2>1, <2>2, <2>3
<1>9. CASE UNCHANGED vars
  BY <1>9 DEF vars
<1> QED BY <1>1, <1>2, <1>3, <1>4, <1>5, <1>6, <1>7, <1>8, <1>9 DEF Next, Thread

\* One frame at most is rendered between a pause() and the next resume().
THEOREM Paused == Spec => []PausedSoon
<1>1. Init => PausedOK
  BY DEF Init, PausedOK
<1>2. PausedOK => PausedSoon
  BY DEF PausedOK, PausedSoon
<1> QED BY TypeInit, TypeInductive, <1>1, PausedInductive, <1>2, PTL DEF Spec

-----------------------------------------------------------------------------
(* What can crash, and what a stop() achieves.                             *)

\* Once its codec runs, a decoder ends the process only from AudioDecoder.doneDecode, with all it
\* had opened still open, or from a callback of its surface that configures the codec once more
\* (AudioDecoder.java, 129-132; VideoDecoder.java, 63-68): whatever the loop, pause(), resume(),
\* stop() or release() meet is caught.
CrashNeedsCause ==
  pc = "crashed" =>
    \/ codec \in {"none", "created", "configured"}
    \/ kind = "audio" /\ held = Resources /\ codec \in {"started", "error"}
    \/ kind = "video" /\ callback

\* A codec runs from the end of init() on, and an audio decoder keeps both of its resources until
\* doneDecode().
CrashOK ==
  /\ CrashNeedsCause
  /\ callback => kind = "video"
  /\ pc \in {"pool", "notOpened"} \cup InitSteps =>
       codec \in {"none", "created", "configured"} \/ callback
  /\ kind = "audio" /\ pc \in LoopSteps \cup {"configure", "start", "doneDecode"} =>
       held = Resources
  /\ kind = "audio" => pc \notin {"waitSurface", "waitingSurface"}

LEMMA CrashInductive == TypeOK /\ CrashOK /\ [Next]_vars => CrashOK'
<1> SUFFICES ASSUME TypeOK, CrashOK, [Next]_vars PROVE CrashOK'
  OBVIOUS
<1>0. kind \in {"audio", "video"}
  BY KindsAssumption DEF TypeOK
<1> USE <1>0 DEF CrashOK, CrashNeedsCause, InitSteps
<1>1. CASE Call
  <2>1. UNCHANGED <<kind, pc, codec, held, callback>>
    BY <1>1 DEF Call, Pause, Resume, Stop
  <2> QED BY <2>1 DEF LoopSteps
<1>2. CASE Finishing
  <2>1. pc' \in {pc, "testStop", "start"} /\ (pc' = "start" => pc \in {"start", "waitingSurface"})
        /\ (pc' = "testStop" => pc \in {"testStop", "waiting"})
    BY <1>2, WakeSteps DEF Finishing, ResumeNotify, StopRunning, StopNotify
  <2>2. UNCHANGED <<kind, codec, held, callback>>
    BY <1>2 DEF Finishing, ResumeNotify, StopRunning, StopNotify
  <2>3. CASE pc' = pc
    BY <2>2, <2>3
  <2>4. CASE pc' = "testStop" /\ pc = "waiting"
    BY <2>2, <2>4 DEF LoopSteps
  <2>5. CASE pc' = "start" /\ pc = "waitingSurface"
    <3>1. kind = "video"
      BY <1>0, <2>5
    <3>2. codec \in {"none", "created", "configured"} \/ callback
      BY <2>5
    <3> QED BY <2>2, <2>5, <3>1, <3>2
  <2> QED BY <2>1, <2>3, <2>4, <2>5
<1>3. CASE SurfaceCreated
  <2>1. kind = "video"
    BY <1>3 DEF SurfaceCreated
  <2> QED BY <1>3, <2>1 DEF SurfaceCreated
<1>4. CASE Run \/ InitOk \/ InitFails \/ InitThrows
  BY <1>4 DEF Run, InitOk, InitFails, InitThrows, Goes, LoopSteps
<1>5. CASE ConfigCodec \/ ConfigLater \/ WaitSurface \/ StartCodec
  BY <1>5 DEF ConfigCodec, ConfigLater, WaitSurface, StartCodec, Goes, LoopSteps
<1>6. CASE TestRunning \/ TestState \/ WaitDecode \/ TestStop \/ Decode \/ DecodeThrows \/ Finish
  <2>1. pc \in LoopSteps /\ pc' \in LoopSteps \cup {"doneDecode"}
        /\ UNCHANGED <<kind, codec, held, callback>>
    <3>1. CASE TestRunning \/ TestState \/ WaitDecode
      BY <3>1 DEF TestRunning, TestState, WaitDecode, Goes, LoopSteps
    <3>2. CASE TestStop \/ Decode
      BY <3>2 DEF TestStop, Decode, LoopSteps
    <3>3. CASE DecodeThrows \/ Finish
      BY <3>3 DEF DecodeThrows, Finish, Goes, LoopSteps
    <3> QED BY <1>6, <3>1, <3>2, <3>3
  <2> QED BY <2>1 DEF LoopSteps
<1>7. CASE DoneDecode \/ DoneDecodeThrows \/ Release
  BY <1>7 DEF DoneDecode, DoneDecodeThrows, Release, Goes, LoopSteps, EndSteps, TypeOK
<1>8. CASE CodecFails
  BY <1>8 DEF CodecFails
<1>9. CASE UNCHANGED vars
  BY <1>9 DEF vars
<1> QED BY <1>1, <1>2, <1>3, <1>4, <1>5, <1>6, <1>7, <1>8, <1>9 DEF Next, Thread

\* No exception of the loop or of release() ends the process, at whatever moment the decoder is
\* paused, resumed or stopped and whenever its codec fails.
THEOREM CrashesExplained == Spec => []CrashNeedsCause
<1>1. Init => CrashOK
  BY DEF Init, CrashOK, CrashNeedsCause, InitSteps, LoopSteps
<1>2. CrashOK => CrashNeedsCause
  BY DEF CrashOK
<1> QED BY TypeInit, TypeInductive, <1>1, CrashInductive, <1>2, PTL DEF Spec

\* After stop() the thread decodes no packet but the one it is at, and nothing makes it run again.
StopIsFinal == [][~mRunning => ~mRunning' /\ (pc' = "decode" => pc = "decode")]_vars

\* Every step keeps it.
LEMMA StopStep ==
  ASSUME TypeOK, [Next]_vars, ~mRunning
  PROVE  ~mRunning' /\ (pc' = "decode" => pc = "decode")
<1>1. CASE Call \/ Finishing
  BY <1>1, WakeSteps
  DEF Call, Pause, Resume, Stop, Finishing, ResumeNotify, StopRunning, StopNotify
<1>2. CASE SurfaceCreated
  BY <1>2, WakeSteps DEF SurfaceCreated
<1>3. CASE Run \/ InitOk \/ InitFails \/ InitThrows \/ ConfigCodec \/ ConfigLater \/ WaitSurface
           \/ StartCodec
  BY <1>3
  DEF Run, InitOk, InitFails, InitThrows, ConfigCodec, ConfigLater, WaitSurface, StartCodec, Goes
<1>4. CASE TestRunning \/ TestState \/ WaitDecode \/ TestStop \/ Decode \/ DecodeThrows \/ Finish
  <2>1. CASE TestRunning \/ TestState \/ WaitDecode
    BY <2>1 DEF TestRunning, TestState, WaitDecode, Goes
  <2>2. CASE TestStop
    BY <2>2 DEF TestStop
  <2>3. CASE Decode
    BY <2>3 DEF Decode
  <2>4. CASE DecodeThrows
    <3>1. UNCHANGED mRunning /\ pc' = "doneDecode"
      BY <2>4 DEF DecodeThrows, Goes
    <3> QED BY <3>1
  <2>5. CASE Finish
    BY <2>5 DEF Finish, Goes
  <2> QED BY <1>4, <2>1, <2>2, <2>3, <2>4, <2>5
<1>5. CASE DoneDecode \/ DoneDecodeThrows \/ Release \/ CodecFails
  BY <1>5 DEF DoneDecode, DoneDecodeThrows, Release, CodecFails, Goes
<1>6. CASE UNCHANGED vars
  BY <1>6 DEF vars
<1> QED BY <1>1, <1>2, <1>3, <1>4, <1>5, <1>6 DEF Next, Thread

\* A stop is final whenever it comes (BaseDecoder.java, 99-115 and 315-320): what StopNoticed says
\* of the end of the thread under fairness rests on it.
THEOREM Stopped == Spec => StopIsFinal
<1>1. TypeOK /\ [Next]_vars => [~mRunning => ~mRunning' /\ (pc' = "decode" => pc = "decode")]_vars
  BY StopStep
<1> QED BY TypeInit, TypeInductive, <1>1, PTL DEF Spec, StopIsFinal
=============================================================================
