------------------------- MODULE OpenSLRenderProofs -------------------------
(***************************************************************************)
(* Proofs about OpenSLRender, for every size of the frame cache and of the *)
(* OpenSL buffer queue and any number of frames.                           *)
(***************************************************************************)
EXTENDS OpenSLRender, SequenceTheorems, TLAPS

USE DEF Consumers, ConsumerSteps, DecoderSteps, queueVars, playerVars, deviceVars,
        DecoderGoTo, Goes, Finished

\* Clearing drops the older half of the frames and keeps the order of the rest.
LEMMA HalfClearedFrames ==
  ASSUME NEW S, NEW q \in Seq(S)
  PROVE  /\ HalfCleared(q) \in Seq(S)
         /\ Len(HalfCleared(q)) = Len(q) \div 2
         /\ \A i \in 1..Len(HalfCleared(q)) :
              HalfCleared(q)[i] = q[i + (Len(q) + 1) \div 2]
<1> DEFINE m == (Len(q) + 1) \div 2 + 1
<1>1. Len(q) \in Nat /\ m \in Int /\ m >= 1
  OBVIOUS
<1>2. \A i \in m..Len(q) : q[i] \in S
  BY <1>1
<1>3. /\ SubSeq(q, m, Len(q)) \in Seq(S)
      /\ Len(SubSeq(q, m, Len(q))) = IF m <= Len(q) THEN Len(q) - m + 1 ELSE 0
      /\ \A i \in 1..(Len(q) - m + 1) : SubSeq(q, m, Len(q))[i] = q[m + i - 1]
  <2> HIDE DEF m
  <2> QED
    BY <1>1, <1>2, SubSeqProperties
<1>4. (IF m <= Len(q) THEN Len(q) - m + 1 ELSE 0) = Len(q) \div 2
  BY <1>1
<1>5. \A i \in 1..(Len(q) \div 2) : i \in 1..(Len(q) - m + 1) /\ m + i - 1 = i + (Len(q) + 1) \div 2
  BY <1>1
<1> QED
  BY <1>3, <1>4, <1>5 DEF HalfCleared

LEMMA NoFrames == <<>> \in Seq(1..MaxFrames) /\ Len(<<>>) = 0
OBVIOUS

\* What handing the first frame of the cache to OpenSL does to the two sequences.
LEMMA HandedOver ==
  ASSUME NEW q \in Seq(1..MaxFrames), q # <<>>, NEW d \in Seq(1..MaxFrames)
  PROVE  /\ Head(q) \in 1..MaxFrames
         /\ Tail(q) \in Seq(1..MaxFrames)
         /\ Len(Tail(q)) = Len(q) - 1
         /\ Append(d, Head(q)) \in Seq(1..MaxFrames)
         /\ Len(Append(d, Head(q))) = Len(d) + 1
<1>1. Head(q) \in 1..MaxFrames /\ Tail(q) \in Seq(1..MaxFrames) /\ Len(Tail(q)) = Len(q) - 1
  BY HeadTailProperties
<1>2. Append(d, Head(q)) \in Seq(1..MaxFrames) /\ Len(Append(d, Head(q))) = Len(d) + 1
  BY <1>1, AppendProperties
<1> QED
  BY <1>1, <1>2

-----------------------------------------------------------------------------

\* A call under way has a number for its frame.
FrameToCome == decoder \in {"Rendering", "Push"} => produced < MaxFrames

\* Every field keeps its type through all interleavings of the threads with OpenSL.
THEOREM TypeCorrect == Spec => []TypeOK
<1>1. Init => TypeOK /\ FrameToCome
  <2> SUFFICES ASSUME Init
               PROVE  TypeOK /\ FrameToCome
    OBVIOUS
  <2>1. 0 \in 0..MaxFrames /\ 0 \in 0..2
    BY SizesAssumption
  <2>2. pc \in [Consumers -> ConsumerSteps]
    BY DEF Init
  <2> QED
    BY <2>1, <2>2, NoFrames DEF Init, TypeOK, FrameToCome
<1>2. TypeOK /\ FrameToCome /\ [Next]_vars => (TypeOK /\ FrameToCome)'
  <2> SUFFICES ASSUME TypeOK, FrameToCome, [Next]_vars
               PROVE  (TypeOK /\ FrameToCome)'
    OBVIOUS
  <2> USE DEF TypeOK, FrameToCome
  <2>1. CASE OutputInit
    BY <2>1 DEF OutputInit
  <2>2. CASE OutputInitFails
    BY <2>2 DEF OutputInitFails
  <2>3. CASE RenderAudioFrame
    BY <2>3 DEF RenderAudioFrame
  <2>4. CASE RenderWait
    BY <2>4 DEF RenderWait
  <2>5. CASE RenderPush
    <3>1. produced' \in 0..MaxFrames /\ produced' \in 1..MaxFrames
      BY <2>5, SizesAssumption DEF RenderPush
    <3>2. clears' \in 0..2
      BY <2>5 DEF RenderPush, ClearsAfterPush
    <3> QED
      BY <2>5, <3>1, <3>2 DEF RenderPush
  <2>6. CASE ClearAudioCache
    <3>1. clears' \in 0..2
      BY <2>6 DEF ClearAudioCache
    <3> QED
      BY <2>6, <3>1, HalfClearedFrames DEF ClearAudioCache
  <2>7. CASE OnDecoderDone
    BY <2>7 DEF OnDecoderDone
  <2>8. CASE UnInitStopPlay
    BY <2>8 DEF UnInitStopPlay
  <2>9. CASE UnInitSetExit
    BY <2>9 DEF UnInitSetExit
  <2>10. CASE UnInitDestroy
    BY <2>10, NoFrames DEF UnInitDestroy
  <2>11. CASE UnInitClear
    BY <2>11, HalfClearedFrames DEF UnInitClear
  <2>12. CASE UnInitJoin
    BY <2>12 DEF UnInitJoin
  <2>13. CASE StartWait
    BY <2>13 DEF StartWait
  <2>14. CASE ReadPlay
    BY <2>14 DEF ReadPlay
  <2>15. CASE SetPlaying
    <3>1. crashed' \in BOOLEAN /\ playing' \in BOOLEAN
      BY <2>15 DEF SetPlaying
    <3>2. pc' \in [Consumers -> ConsumerSteps]
      BY <2>15 DEF SetPlaying
    <3> QED
      BY <2>15, <3>1, <3>2 DEF SetPlaying
  <2>16. ASSUME NEW t \in Consumers, HandleAudioFrameQueue(t)
         PROVE  (TypeOK /\ FrameToCome)'
    BY <2>16 DEF HandleAudioFrameQueue
  <2>17. ASSUME NEW t \in Consumers, HandleWait(t)
         PROVE  (TypeOK /\ FrameToCome)'
    BY <2>17 DEF HandleWait
  <2>18. ASSUME NEW t \in Consumers, HandleLock(t)
         PROVE  (TypeOK /\ FrameToCome)'
    BY <2>18 DEF HandleLock
  <2>19. ASSUME NEW t \in Consumers, HandleFront(t)
         PROVE  (TypeOK /\ FrameToCome)'
    <3>1. crashed' \in BOOLEAN
      BY <2>19 DEF HandleFront
    <3>2. pc' \in [Consumers -> ConsumerSteps]
      BY <2>19 DEF HandleFront
    <3> QED
      BY <2>19, <3>1, <3>2 DEF HandleFront
  <2>20. ASSUME NEW t \in Consumers, HandleEnqueue(t)
         PROVE  (TypeOK /\ FrameToCome)'
    <3>2. device' \in Seq(1..MaxFrames) /\ m_AudioFrameQueue' \in Seq(1..MaxFrames)
      BY <2>20, HandedOver DEF HandleEnqueue
    <3>3. pc' \in [Consumers -> ConsumerSteps] /\ refused' \in BOOLEAN /\ crashed' \in BOOLEAN
      BY <2>20 DEF HandleEnqueue
    <3> QED
      BY <2>20, <3>2, <3>3 DEF HandleEnqueue
  <2>21. CASE BufferFinished
    <3>1. Head(device) \in 1..MaxFrames /\ Tail(device) \in Seq(1..MaxFrames)
      BY <2>21, HeadTailProperties DEF BufferFinished
    <3>2. due' \in Nat
      BY <2>21 DEF BufferFinished
    <3>3. heard' \in 0..MaxFrames
      BY <2>21, <3>1, SizesAssumption DEF BufferFinished
    <3> QED
      BY <2>21, <3>1, <3>2, <3>3 DEF BufferFinished
  <2>22. CASE CallBack
    BY <2>22 DEF CallBack
  <2>23. CASE UNCHANGED vars
    BY <2>23 DEF vars
  <2> QED
    BY <2>1, <2>2, <2>3, <2>4, <2>5, <2>6, <2>7, <2>8, <2>9, <2>10, <2>11, <2>12, <2>13,
       <2>14, <2>15, <2>16, <2>17, <2>18, <2>19, <2>20, <2>21, <2>22, <2>23
       DEF Next, Decoder, DecoderCall, Waiter, Consumer, Device
<1> QED
  BY <1>1, <1>2, PTL DEF Spec
-----------------------------------------------------------------------------
(* The player interface is there only between Init and the first step of   *)
(* UnInit, all of them steps of the decode thread; m_Exit separates its    *)
(* end from the destruction of the object, and cannot be set while a       *)
(* consumer is between its test of the interface and its Enqueue.          *)

ClosingSteps == {"Destroy", "Clear", "Join", "done"}

PlayerInv ==
  /\ m_AudioPlayerPlay => m_AudioPlayerObj = "live" /\ ~m_Exit
  /\ decoder = "start" => ~m_AudioPlayerPlay /\ ~m_Exit /\ m_AudioPlayerObj = "none"
  /\ decoder \in {"Rendering", "Push"} => m_AudioPlayerPlay
  /\ decoder \in {"SetExit"} \union ClosingSteps => ~m_AudioPlayerPlay
  /\ decoder \in ClosingSteps => m_Exit
  /\ m_AudioPlayerObj = "destroyed" => m_Exit
  /\ \A t \in Consumers :
       /\ pc[t] \in {"Front", "Enqueue"} => m_Mutex = t
       /\ pc[t] = "Enqueue" => m_AudioPlayerObj = "live" /\ ~m_Exit

LEMMA PlayerInvInductive ==
  /\ Init => PlayerInv
  /\ TypeOK /\ PlayerInv /\ [Next]_vars => PlayerInv'
<1>1. Init => PlayerInv
  BY DEF Init, PlayerInv, ClosingSteps
<1>2. TypeOK /\ PlayerInv /\ [Next]_vars => PlayerInv'
  <2> SUFFICES ASSUME TypeOK, PlayerInv, [Next]_vars
               PROVE  PlayerInv'
    OBVIOUS
  <2> USE DEF TypeOK, PlayerInv, ClosingSteps
  <2>1. CASE OutputInit
    BY <2>1 DEF OutputInit
  <2>2. CASE OutputInitFails
    BY <2>2 DEF OutputInitFails
  <2>3. CASE RenderAudioFrame
    BY <2>3 DEF RenderAudioFrame
  <2>4. CASE RenderWait
    BY <2>4 DEF RenderWait
  <2>5. CASE RenderPush
    BY <2>5 DEF RenderPush
  <2>6. CASE ClearAudioCache
    BY <2>6 DEF ClearAudioCache
  <2>7. CASE OnDecoderDone
    BY <2>7 DEF OnDecoderDone
  <2>8. CASE UnInitStopPlay
    BY <2>8 DEF UnInitStopPlay
  <2>9. CASE UnInitSetExit
    BY <2>9 DEF UnInitSetExit
  <2>10. CASE UnInitDestroy
    BY <2>10 DEF UnInitDestroy
  <2>11. CASE UnInitClear
    BY <2>11 DEF UnInitClear
  <2>12. CASE UnInitJoin
    BY <2>12 DEF UnInitJoin
  <2>13. CASE StartWait
    BY <2>13 DEF StartWait
  <2>14. CASE ReadPlay
    BY <2>14 DEF ReadPlay
  <2>15. CASE SetPlaying
    BY <2>15 DEF SetPlaying
  <2>16. ASSUME NEW t \in Consumers, HandleAudioFrameQueue(t)
         PROVE  PlayerInv'
    BY <2>16 DEF HandleAudioFrameQueue
  <2>17. ASSUME NEW t \in Consumers, HandleWait(t)
         PROVE  PlayerInv'
    BY <2>17 DEF HandleWait
  <2>18. ASSUME NEW t \in Consumers, HandleLock(t)
         PROVE  PlayerInv'
    BY <2>18 DEF HandleLock
  <2>19. ASSUME NEW t \in Consumers, HandleFront(t)
         PROVE  PlayerInv'
    BY <2>19 DEF HandleFront
  <2>20. ASSUME NEW t \in Consumers, HandleEnqueue(t)
         PROVE  PlayerInv'
    BY <2>20 DEF HandleEnqueue
  <2>21. CASE BufferFinished
    BY <2>21 DEF BufferFinished
  <2>22. CASE CallBack
    BY <2>22 DEF CallBack
  <2>23. CASE UNCHANGED vars
    BY <2>23 DEF vars
  <2> QED
    BY <2>1, <2>2, <2>3, <2>4, <2>5, <2>6, <2>7, <2>8, <2>9, <2>10, <2>11, <2>12, <2>13,
       <2>14, <2>15, <2>16, <2>17, <2>18, <2>19, <2>20, <2>21, <2>22, <2>23
       DEF Next, Decoder, DecoderCall, Waiter, Consumer, Device
<1> QED
  BY <1>1, <1>2

\* No buffer is ever given to a destroyed player (lines 66-80 and 250-254).
THEOREM EnqueueSafe == Spec => []EnqueueOnLivePlayer
<1>1. PlayerInv => EnqueueOnLivePlayer
  BY DEF PlayerInv, EnqueueOnLivePlayer
<1> QED
  BY <1>1, PlayerInvInductive, TypeCorrect, PTL DEF Spec

-----------------------------------------------------------------------------
(* The size is tested and the frame pushed in two critical sections; in    *)
(* between only the consumers, who take frames away, touch the queue.      *)

RoomForPush ==
  /\ QueueBounded
  /\ decoder = "Push" => Len(m_AudioFrameQueue) < MAX_QUEUE_BUFFER_SIZE

\* The cache never grows beyond its limit (lines 52-61).
THEOREM CacheBounded == Spec => []QueueBounded
<1>1. Init => RoomForPush
  BY SizesAssumption DEF Init, RoomForPush, QueueBounded
<1>2. TypeOK /\ PlayerInv /\ RoomForPush /\ [Next]_vars => RoomForPush'
  <2> SUFFICES ASSUME TypeOK, PlayerInv, RoomForPush, [Next]_vars
               PROVE  RoomForPush'
    OBVIOUS
  <2> USE SizesAssumption DEF TypeOK, RoomForPush, QueueBounded
  <2>1. CASE OutputInit
    BY <2>1 DEF OutputInit
  <2>2. CASE OutputInitFails
    BY <2>2 DEF OutputInitFails
  <2>3. CASE RenderAudioFrame
    BY <2>3 DEF RenderAudioFrame
  <2>4. CASE RenderWait
    BY <2>4, PlayerInv DEF RenderWait, PlayerInv
  <2>5. CASE RenderPush
    BY <2>5, AppendProperties DEF RenderPush
  <2>6. CASE ClearAudioCache
    BY <2>6, HalfClearedFrames DEF ClearAudioCache
  <2>7. CASE OnDecoderDone
    BY <2>7 DEF OnDecoderDone
  <2>8. CASE UnInitStopPlay
    BY <2>8 DEF UnInitStopPlay
  <2>9. CASE UnInitSetExit
    BY <2>9 DEF UnInitSetExit
  <2>10. CASE UnInitDestroy
    BY <2>10 DEF UnInitDestroy
  <2>11. CASE UnInitClear
    BY <2>11, HalfClearedFrames DEF UnInitClear
  <2>12. CASE UnInitJoin
    BY <2>12 DEF UnInitJoin
  <2>13. CASE StartWait
    BY <2>13 DEF StartWait
  <2>14. CASE ReadPlay
    BY <2>14 DEF ReadPlay
  <2>15. CASE SetPlaying
    BY <2>15 DEF SetPlaying
  <2>16. ASSUME NEW t \in Consumers, HandleAudioFrameQueue(t)
         PROVE  RoomForPush'
    BY <2>16 DEF HandleAudioFrameQueue
  <2>17. ASSUME NEW t \in Consumers, HandleWait(t)
         PROVE  RoomForPush'
    BY <2>17 DEF HandleWait
  <2>18. ASSUME NEW t \in Consumers, HandleLock(t)
         PROVE  RoomForPush'
    BY <2>18 DEF HandleLock
  <2>19. ASSUME NEW t \in Consumers, HandleFront(t)
         PROVE  RoomForPush'
    BY <2>19 DEF HandleFront
  <2>20. ASSUME NEW t \in Consumers, HandleEnqueue(t)
         PROVE  RoomForPush'
    BY <2>20, HandedOver DEF HandleEnqueue
  <2>21. CASE BufferFinished
    BY <2>21 DEF BufferFinished
  <2>22. CASE CallBack
    BY <2>22 DEF CallBack
  <2>23. CASE UNCHANGED vars
    BY <2>23 DEF vars
  <2> QED
    BY <2>1, <2>2, <2>3, <2>4, <2>5, <2>6, <2>7, <2>8, <2>9, <2>10, <2>11, <2>12, <2>13,
       <2>14, <2>15, <2>16, <2>17, <2>18, <2>19, <2>20, <2>21, <2>22, <2>23
       DEF Next, Decoder, DecoderCall, Waiter, Consumer, Device
<1>3. RoomForPush => QueueBounded
  BY DEF RoomForPush
<1> QED
  BY <1>1, <1>2, <1>3, PlayerInvInductive, TypeCorrect, PTL DEF Spec

-----------------------------------------------------------------------------
(* The waiting thread starts with the only licence to enqueue and passes   *)
(* it on with its buffer; the callback for a buffer receives it.           *)

Licence ==
  /\ OneInFlight
  /\ decoder = "start" =>
       device = <<>> /\ due = 0 /\ pc["waiter"] = "absent" /\ pc["callback"] = "idle"

LEMMA LicenceInductive ==
  /\ Init => Licence
  /\ TypeOK /\ Licence /\ [Next]_vars => Licence'
<1>1. Init => Licence
  BY NoFrames DEF Init, Licence, OneInFlight, Answering
<1>2. TypeOK /\ Licence /\ [Next]_vars => Licence'
  <2> SUFFICES ASSUME TypeOK, Licence, [Next]_vars
               PROVE  Licence'
    OBVIOUS
  <2> USE DEF TypeOK, Licence, OneInFlight, Answering
  <2>1. CASE OutputInit
    BY <2>1, NoFrames DEF OutputInit
  <2>2. CASE OutputInitFails
    BY <2>2 DEF OutputInitFails
  <2>3. CASE RenderAudioFrame
    BY <2>3 DEF RenderAudioFrame
  <2>4. CASE RenderWait
    BY <2>4 DEF RenderWait
  <2>5. CASE RenderPush
    BY <2>5 DEF RenderPush
  <2>6. CASE ClearAudioCache
    BY <2>6 DEF ClearAudioCache
  <2>7. CASE OnDecoderDone
    BY <2>7 DEF OnDecoderDone
  <2>8. CASE UnInitStopPlay
    BY <2>8 DEF UnInitStopPlay
  <2>9. CASE UnInitSetExit
    BY <2>9 DEF UnInitSetExit
  <2>10. CASE UnInitDestroy
    BY <2>10, NoFrames DEF UnInitDestroy
  <2>11. CASE UnInitClear
    BY <2>11 DEF UnInitClear
  <2>12. CASE UnInitJoin
    BY <2>12 DEF UnInitJoin
  <2>13. CASE StartWait
    BY <2>13 DEF StartWait
  <2>14. CASE ReadPlay
    BY <2>14 DEF ReadPlay
  <2>15. CASE SetPlaying
    BY <2>15 DEF SetPlaying
  <2>16. ASSUME NEW t \in Consumers, HandleAudioFrameQueue(t)
         PROVE  Licence'
    BY <2>16 DEF HandleAudioFrameQueue
  <2>17. ASSUME NEW t \in Consumers, HandleWait(t)
         PROVE  Licence'
    BY <2>17 DEF HandleWait
  <2>18. ASSUME NEW t \in Consumers, HandleLock(t)
         PROVE  Licence'
    BY <2>18 DEF HandleLock
  <2>19. ASSUME NEW t \in Consumers, HandleFront(t)
         PROVE  Licence'
    BY <2>19 DEF HandleFront
  <2>20. ASSUME NEW t \in Consumers, HandleEnqueue(t)
         PROVE  Licence'
    BY <2>20, HandedOver DEF HandleEnqueue
  <2>21. CASE BufferFinished
    BY <2>21, HeadTailProperties DEF BufferFinished
  <2>22. CASE CallBack
    BY <2>22 DEF CallBack
  <2>23. CASE UNCHANGED vars
    BY <2>23 DEF vars
  <2> QED
    BY <2>1, <2>2, <2>3, <2>4, <2>5, <2>6, <2>7, <2>8, <2>9, <2>10, <2>11, <2>12, <2>13,
       <2>14, <2>15, <2>16, <2>17, <2>18, <2>19, <2>20, <2>21, <2>22, <2>23
       DEF Next, Decoder, DecoderCall, Waiter, Consumer, Device
<1> QED
  BY <1>1, <1>2

\* At most one buffer is in flight, so the second slot of the OpenSL queue and the
\* two consumers of the cache are never used at the same time (lines 238-264).
THEOREM SingleBuffer == Spec => []OneInFlight
<1>1. Licence => OneInFlight
  BY DEF Licence
<1> QED
  BY <1>1, LicenceInductive, TypeCorrect, PTL DEF Spec

-----------------------------------------------------------------------------
(* A consumer waits for a full cache and looks at its front later.  No     *)
(* other consumer is at work meanwhile; a clear halves what is there, and  *)
(* the next one finds the frame handed over since, unless there was none.  *)

FramesLeft ==
  \A t \in Consumers :
    /\ pc[t] \in {"Lock", "Front"} /\ ~m_Exit => Len(m_AudioFrameQueue) >= 2 - clears
    /\ pc[t] = "Enqueue" => Len(m_AudioFrameQueue) >= 1 \/ clears = 2

LEMMA FramesLeftInductive ==
  /\ Init => FramesLeft
  /\ TypeOK /\ PlayerInv /\ Licence /\ FramesLeft /\ [Next]_vars => FramesLeft'
<1>1. Init => FramesLeft
  BY DEF Init, FramesLeft
<1>2. TypeOK /\ PlayerInv /\ Licence /\ FramesLeft /\ [Next]_vars => FramesLeft'
  <2> SUFFICES ASSUME TypeOK, PlayerInv, Licence, FramesLeft, [Next]_vars
               PROVE  FramesLeft'
    OBVIOUS
  <2> USE SizesAssumption DEF TypeOK, PlayerInv, FramesLeft, ClosingSteps
  <2>1. CASE OutputInit
    BY <2>1 DEF OutputInit
  <2>2. CASE OutputInitFails
    BY <2>2 DEF OutputInitFails
  <2>3. CASE RenderAudioFrame
    BY <2>3 DEF RenderAudioFrame
  <2>4. CASE RenderWait
    BY <2>4 DEF RenderWait
  <2>5. CASE RenderPush
    <3>1. Len(m_AudioFrameQueue') = Len(m_AudioFrameQueue) + 1 /\ Len(m_AudioFrameQueue) \in Nat
      BY <2>5, AppendProperties DEF RenderPush
    <3>2. clears' = ClearsAfterPush /\ UNCHANGED <<pc, m_Exit>>
      BY <2>5 DEF RenderPush
    <3>3. \/ clears' = 2 /\ clears = 2
          \/ clears' = 0 /\ (clears # 2 \/ Len(m_AudioFrameQueue') >= 2)
      BY <3>1, <3>2 DEF ClearsAfterPush
    <3> QED
      BY <3>1, <3>2, <3>3
  <2>6. CASE ClearAudioCache
    BY <2>6, HalfClearedFrames DEF ClearAudioCache
  <2>7. CASE OnDecoderDone
    BY <2>7 DEF OnDecoderDone
  <2>8. CASE UnInitStopPlay
    BY <2>8 DEF UnInitStopPlay
  <2>9. CASE UnInitSetExit
    BY <2>9 DEF UnInitSetExit
  <2>10. CASE UnInitDestroy
    BY <2>10 DEF UnInitDestroy
  <2>11. CASE UnInitClear
    BY <2>11, HalfClearedFrames DEF UnInitClear
  <2>12. CASE UnInitJoin
    BY <2>12 DEF UnInitJoin
  <2>13. CASE StartWait
    BY <2>13 DEF StartWait
  <2>14. CASE ReadPlay
    BY <2>14 DEF ReadPlay
  <2>15. CASE SetPlaying
    BY <2>15 DEF SetPlaying
  <2>16. ASSUME NEW t \in Consumers, HandleAudioFrameQueue(t)
         PROVE  FramesLeft'
    BY <2>16 DEF HandleAudioFrameQueue
  <2>17. ASSUME NEW t \in Consumers, HandleWait(t)
         PROVE  FramesLeft'
    BY <2>17 DEF HandleWait, QueueFilled
  <2>18. ASSUME NEW t \in Consumers, HandleLock(t)
         PROVE  FramesLeft'
    BY <2>18 DEF HandleLock
  <2>19. ASSUME NEW t \in Consumers, HandleFront(t)
         PROVE  FramesLeft'
    BY <2>19 DEF HandleFront
  <2>20. ASSUME NEW t \in Consumers, HandleEnqueue(t)
         PROVE  FramesLeft'
    BY <2>20, HandedOver DEF HandleEnqueue, Licence, OneInFlight, Answering
  <2>21. CASE BufferFinished
    BY <2>21 DEF BufferFinished
  <2>22. CASE CallBack
    BY <2>22 DEF CallBack
  <2>23. CASE UNCHANGED vars
    BY <2>23 DEF vars
  <2> QED
    BY <2>1, <2>2, <2>3, <2>4, <2>5, <2>6, <2>7, <2>8, <2>9, <2>10, <2>11, <2>12, <2>13,
       <2>14, <2>15, <2>16, <2>17, <2>18, <2>19, <2>20, <2>21, <2>22, <2>23
       DEF Next, Decoder, DecoderCall, Waiter, Consumer, Device
<1> QED
  BY <1>1, <1>2

\* While the cache has not been cleared twice with no frame in between since it was full,
\* OpenSL is given only frames that are in it (lines 38-45 and 245-253).
THEOREM RealFrames == Spec => []EnqueueOnlyRealFrame
<1>1. TypeOK /\ FramesLeft => EnqueueOnlyRealFrame
  BY NoFrames DEF TypeOK, FramesLeft, EnqueueOnlyRealFrame
<1> QED
  BY <1>1, FramesLeftInductive, LicenceInductive, PlayerInvInductive, TypeCorrect, PTL
     DEF Spec

-----------------------------------------------------------------------------
(* The licence is not lost either while the player is there and OpenSL     *)
(* takes every buffer: the safety that RenderReturnsUnlessRefused rests    *)
(* on.                                                                     *)

\* A player that is not playing yet will be set going by the waiting thread.
Started == playing \/ pc["waiter"] \in {"StartWait", "ReadPlay", "SetPlaying"}

Fed == m_AudioPlayerPlay /\ decoder \in {"run", "Rendering", "Push"} /\ ~refused /\ ~crashed

Baton ==
  /\ Fed => Started /\ Len(device) + due + Answering("waiter") + Answering("callback") = 1
  /\ m_Mutex \in Consumers => pc[m_Mutex] \in {"Front", "Enqueue"}
  /\ pc["callback"] # "absent"

LEMMA BatonInductive ==
  /\ Init => Baton
  /\ TypeOK /\ PlayerInv /\ Licence /\ Baton /\ [Next]_vars => Baton'
<1>1. Init => Baton
  BY DEF Init, Baton, Fed
<1>2. TypeOK /\ PlayerInv /\ Licence /\ Baton /\ [Next]_vars => Baton'
  <2> SUFFICES ASSUME TypeOK, PlayerInv, Licence, Baton, [Next]_vars
               PROVE  Baton'
    OBVIOUS
  <2> USE DEF TypeOK, PlayerInv, Baton, Fed, Started, Answering, ClosingSteps
  <2>1. CASE OutputInit
    BY <2>1, NoFrames DEF OutputInit, Licence
  <2>2. CASE OutputInitFails
    BY <2>2 DEF OutputInitFails
  <2>3. CASE RenderAudioFrame
    BY <2>3 DEF RenderAudioFrame
  <2>4. CASE RenderWait
    BY <2>4 DEF RenderWait
  <2>5. CASE RenderPush
    BY <2>5 DEF RenderPush
  <2>6. CASE ClearAudioCache
    BY <2>6 DEF ClearAudioCache
  <2>7. CASE OnDecoderDone
    BY <2>7 DEF OnDecoderDone
  <2>8. CASE UnInitStopPlay
    BY <2>8 DEF UnInitStopPlay
  <2>9. CASE UnInitSetExit
    BY <2>9 DEF UnInitSetExit
  <2>10. CASE UnInitDestroy
    BY <2>10 DEF UnInitDestroy
  <2>11. CASE UnInitClear
    BY <2>11 DEF UnInitClear
  <2>12. CASE UnInitJoin
    BY <2>12 DEF UnInitJoin
  <2>13. CASE StartWait
    BY <2>13 DEF StartWait
  <2>14. CASE ReadPlay
    BY <2>14 DEF ReadPlay
  <2>15. CASE SetPlaying
    BY <2>15 DEF SetPlaying
  <2>16. ASSUME NEW t \in Consumers, HandleAudioFrameQueue(t)
         PROVE  Baton'
    BY <2>16 DEF HandleAudioFrameQueue
  <2>17. ASSUME NEW t \in Consumers, HandleWait(t)
         PROVE  Baton'
    BY <2>17 DEF HandleWait
  <2>18. ASSUME NEW t \in Consumers, HandleLock(t)
         PROVE  Baton'
    BY <2>18 DEF HandleLock
  <2>19. ASSUME NEW t \in Consumers, HandleFront(t)
         PROVE  Baton'
    BY <2>19 DEF HandleFront
  <2>20. ASSUME NEW t \in Consumers, HandleEnqueue(t)
         PROVE  Baton'
    BY <2>20, HandedOver DEF HandleEnqueue
  <2>21. CASE BufferFinished
    BY <2>21, HeadTailProperties DEF BufferFinished
  <2>22. CASE CallBack
    BY <2>22 DEF CallBack
  <2>23. CASE UNCHANGED vars
    BY <2>23 DEF vars
  <2> QED
    BY <2>1, <2>2, <2>3, <2>4, <2>5, <2>6, <2>7, <2>8, <2>9, <2>10, <2>11, <2>12, <2>13,
       <2>14, <2>15, <2>16, <2>17, <2>18, <2>19, <2>20, <2>21, <2>22, <2>23
       DEF Next, Decoder, DecoderCall, Waiter, Consumer, Device
<1> QED
  BY <1>1, <1>2

\* Somebody will make room in the cache: a consumer at work that no other one keeps out, a
\* buffer that is being played, or a call of the callback that is due.
SomebodyFeeds ==
  \/ \E t \in Consumers : Answering(t) = 1 /\ m_Mutex \in {"free", t}
  \/ playing /\ device # <<>>
  \/ due > 0 /\ pc["callback"] = "idle"

\* The decode thread, in its wait for room in the cache, is never the only one that is not
\* idle, unless OpenSL has refused a buffer (lines 52-61 and 238-264).
WaitsForSomebody ==
  decoder \in {"Rendering", "Push"} /\ ~refused /\ ~crashed => SomebodyFeeds

\* A decode thread never waits for room that nobody will make, as long as nothing was refused: what
\* RenderReturnsUnlessRefused says under fairness rests on it.
THEOREM FeedingGoesOn == Spec => []WaitsForSomebody
<1>1. TypeOK /\ PlayerInv /\ Baton => WaitsForSomebody
  <2> SUFFICES ASSUME TypeOK, PlayerInv, Baton, decoder \in {"Rendering", "Push"}, ~refused, ~crashed
               PROVE  SomebodyFeeds
    BY DEF WaitsForSomebody
  <2>1. Started /\ Len(device) + due + Answering("waiter") + Answering("callback") = 1
    BY DEF PlayerInv, Baton, Fed
  <2>2. Len(device) \in Nat /\ due \in Nat
    BY DEF TypeOK
  <2>3. Len(device) = 1 => device # <<>>
    BY NoFrames
  <2>4. CASE \E t \in Consumers : Answering(t) = 1
    <3>1. PICK t \in Consumers : Answering(t) = 1
      BY <2>4
    <3>2. m_Mutex \in Consumers => Answering(m_Mutex) = 1
      BY DEF Baton, Answering
    <3>3. m_Mutex \in Consumers \union {"free"}
      BY DEF TypeOK
    <3> QED
      BY <3>1, <3>2, <3>3 DEF SomebodyFeeds
  <2>5. CASE \A t \in Consumers : Answering(t) # 1
    <3>1. Answering("waiter") = 0 /\ Answering("callback") = 0
      BY <2>5 DEF Answering
    <3>2. playing /\ pc["callback"] = "idle"
      BY <2>1, <3>1 DEF Baton, Started, Answering
    <3>3. Len(device) + due = 1
      BY <2>1, <2>2, <3>1
    <3>4. Len(device) = 1 \/ due > 0
      <4>1. \A m, n \in Nat : m + n = 1 => m = 1 \/ n > 0
        OBVIOUS
      <4> QED
        BY <2>2, <3>3, <4>1
    <3> QED
      BY <2>3, <3>2, <3>4 DEF SomebodyFeeds
  <2> QED
    BY <2>4, <2>5
<1> QED
  BY <1>1, BatonInductive, LicenceInductive, PlayerInvInductive, TypeCorrect, PTL DEF Spec

\* The cache was cleared twice with no frame in between when a buffer is first refused.
RefusedAfterClears == [][~refused /\ refused' => clears = 2]_vars

\* While OpenSL takes what it has room for, it refuses only what two clears with no frame in
\* between have left to be enqueued: it is never given a buffer too many.
THEOREM RefusedByOpenSL ==
  ASSUME ~EnqueueMayFail
  PROVE  Spec => RefusedAfterClears
<1>1. TypeOK /\ Licence /\ FramesLeft /\ [Next]_vars => [~refused /\ refused' => clears = 2]_vars
  <2> SUFFICES ASSUME TypeOK, Licence, FramesLeft, ~refused, clears # 2, [Next]_vars
               PROVE  ~refused'
    OBVIOUS
  <2>1. ASSUME NEW t \in Consumers, HandleEnqueue(t)
        PROVE  ~refused'
    <3>1. Len(device) = 0
      BY <2>1 DEF HandleEnqueue, TypeOK, Licence, OneInFlight, Answering
    <3>2. m_AudioFrameQueue # <<>>
      BY <2>1, NoFrames DEF HandleEnqueue, TypeOK, FramesLeft
    <3>3. DeviceSlots \in Nat /\ DeviceSlots > 0
      BY SizesAssumption
    <3> QED
      BY <2>1, <3>1, <3>2, <3>3 DEF HandleEnqueue
  <2>2. CASE Decoder
    BY <2>2 DEF Decoder, DecoderCall, OutputInit, OutputInitFails, RenderAudioFrame, RenderWait,
       RenderPush, ClearAudioCache, OnDecoderDone, UnInitStopPlay, UnInitSetExit, UnInitDestroy,
       UnInitClear, UnInitJoin
  <2>3. CASE StartWait \/ ReadPlay \/ SetPlaying \/ Device
    BY <2>3 DEF StartWait, ReadPlay, SetPlaying, Device, BufferFinished, CallBack
  <2>4. ASSUME NEW t \in Consumers,
               HandleAudioFrameQueue(t) \/ HandleWait(t) \/ HandleLock(t) \/ HandleFront(t)
        PROVE  ~refused'
    BY <2>4 DEF HandleAudioFrameQueue, HandleWait, HandleLock, HandleFront
  <2>5. CASE UNCHANGED vars
    BY <2>5 DEF vars
  <2> QED
    BY <2>1, <2>2, <2>3, <2>4, <2>5 DEF Next, Waiter, Consumer
<1> QED
  BY <1>1, FramesLeftInductive, LicenceInductive, PlayerInvInductive, TypeCorrect, PTL
     DEF Spec, RefusedAfterClears

-----------------------------------------------------------------------------
(* The order of the frames.                                                *)

Increasing(q) == \A i, j \in 1..Len(q) : i < j => q[i] < q[j]
Within(low, q, high) == \A i \in 1..Len(q) : low < q[i] /\ q[i] <= high
Before(d, q) == \A i \in 1..Len(d), j \in 1..Len(q) : d[i] < q[j]

\* What was heard is older than what OpenSL holds, and that than what is queued.
InLine(h, d, q, n) ==
  /\ h <= n /\ Increasing(d) /\ Increasing(q)
  /\ Within(h, d, n) /\ Within(h, q, n) /\ Before(d, q)

InOrder == InLine(heard, device, m_AudioFrameQueue, produced)

\* Taking frames away, but for the last ones, leaves a sequence increasing.
LEMMA EndInLine ==
  ASSUME NEW h \in Nat, NEW n \in Nat, NEW d \in Seq(1..MaxFrames), NEW q \in Seq(1..MaxFrames),
         InLine(h, d, q, n), NEW r \in Seq(1..MaxFrames), NEW k \in Nat, Len(r) + k <= Len(q),
         \A i \in 1..Len(r) : r[i] = q[i + k]
  PROVE  InLine(h, d, r, n)
<1>1. \A i \in 1..Len(r) : i + k \in 1..Len(q)
  OBVIOUS
<1>2. Increasing(r)
  BY <1>1 DEF InLine, Increasing
<1>3. Within(h, r, n) /\ Before(d, r)
  BY <1>1 DEF InLine, Within, Before
<1> QED
  BY <1>2, <1>3 DEF InLine

LEMMA ClearedInLine ==
  ASSUME NEW h \in Nat, NEW n \in Nat, NEW d \in Seq(1..MaxFrames), NEW q \in Seq(1..MaxFrames),
         InLine(h, d, q, n)
  PROVE  InLine(h, d, HalfCleared(q), n)
<1> DEFINE r == HalfCleared(q)
           k == (Len(q) + 1) \div 2
<1>1. /\ r \in Seq(1..MaxFrames) /\ Len(r) = Len(q) \div 2
      /\ \A i \in 1..Len(r) : r[i] = q[i + k]
  BY HalfClearedFrames
<1>2. k \in Nat /\ Len(r) + k <= Len(q)
  BY <1>1
<1> HIDE DEF r, k
<1>3. InLine(h, d, r, n)
  BY <1>1, <1>2, EndInLine
<1> QED
  BY <1>3 DEF r

\* A frame handed over is the last of the line,
LEMMA PushedInLine ==
  ASSUME NEW h \in Nat, NEW n \in Nat, NEW d \in Seq(1..MaxFrames), NEW q \in Seq(1..MaxFrames),
         InLine(h, d, q, n), n + 1 \in 1..MaxFrames
  PROVE  InLine(h, d, Append(q, n + 1), n + 1)
<1> DEFINE r == Append(q, n + 1)
<1>1. /\ Len(q) \in Nat /\ Len(r) = Len(q) + 1 /\ r[Len(q) + 1] = n + 1
      /\ \A i \in 1..Len(q) : r[i] = q[i] /\ q[i] \in Nat
      /\ \A i \in 1..Len(d) : d[i] \in Nat
  <2>1. /\ \A i \in 1..Len(q) : q[i] \in 1..MaxFrames
        /\ \A i \in 1..Len(d) : d[i] \in 1..MaxFrames
    BY ElementOfSeq
  <2>2. /\ Len(q) \in Nat /\ Len(r) = Len(q) + 1 /\ r[Len(q) + 1] = n + 1
        /\ \A i \in 1..Len(q) : r[i] = q[i]
    BY AppendProperties
  <2> QED
    BY <2>1, <2>2
<1> HIDE DEF r
<1>2. \A i \in 1..Len(r) : i \in 1..Len(q) \/ i = Len(q) + 1
  BY <1>1
<1>3. Increasing(r)
  <2> SUFFICES ASSUME NEW i \in 1..Len(r), NEW j \in 1..Len(r), i < j
               PROVE  r[i] < r[j]
    BY DEF Increasing
  <2>1. i \in 1..Len(q)
    BY <1>1
  <2>2. CASE j = Len(q) + 1
    <3>1. q[i] <= n
      BY <2>1 DEF InLine, Within
    <3> QED
      BY <1>1, <2>1, <2>2, <3>1
  <2>3. CASE j \in 1..Len(q)
    BY <1>1, <2>1, <2>3 DEF InLine, Increasing
  <2> QED
    BY <1>2, <2>2, <2>3
<1>4. Within(h, d, n + 1)
  BY <1>1 DEF InLine, Within
<1>5. Within(h, r, n + 1)
  <2> SUFFICES ASSUME NEW i \in 1..Len(r)
               PROVE  h < r[i] /\ r[i] <= n + 1
    BY DEF Within
  <2>1. CASE i = Len(q) + 1
    BY <1>1, <2>1 DEF InLine
  <2>2. CASE i \in 1..Len(q)
    <3>1. h < q[i] /\ q[i] <= n
      BY <2>2 DEF InLine, Within
    <3> QED
      BY <1>1, <2>2, <3>1
  <2> QED
    BY <1>2, <2>1, <2>2
<1>6. Before(d, r)
  <2> SUFFICES ASSUME NEW i \in 1..Len(d), NEW j \in 1..Len(r)
               PROVE  d[i] < r[j]
    BY DEF Before
  <2>1. CASE j = Len(q) + 1
    <3>1. d[i] <= n
      BY DEF InLine, Within
    <3> QED
      BY <1>1, <2>1, <3>1
  <2>2. CASE j \in 1..Len(q)
    BY <1>1, <2>2 DEF InLine, Before
  <2> QED
    BY <1>2, <2>1, <2>2
<1> QED
  BY <1>3, <1>4, <1>5, <1>6 DEF InLine, r

LEMMA FirstAndRest ==
  ASSUME NEW q \in Seq(1..MaxFrames), q # <<>>
  PROVE  /\ Len(q) \in Nat /\ Len(q) > 0
         /\ Tail(q) \in Seq(1..MaxFrames) /\ Len(Tail(q)) + 1 = Len(q)
         /\ \A i \in 1..Len(Tail(q)) : Tail(q)[i] = q[i + 1]
         /\ Head(q) = q[1] /\ Head(q) \in 1..MaxFrames
<1>1. Len(q) \in Nat /\ Len(q) # 0 /\ Head(q) = q[1]
  OBVIOUS
<1>2. /\ Head(q) \in 1..MaxFrames /\ Tail(q) \in Seq(1..MaxFrames) /\ Len(Tail(q)) = Len(q) - 1
      /\ \A i \in 1..Len(Tail(q)) : Tail(q)[i] = q[i + 1]
  BY HeadTailProperties
<1> QED
  BY <1>1, <1>2

\* OpenSL takes the eldest of the queue,
LEMMA EnqueuedInLine ==
  ASSUME NEW h \in Nat, NEW n \in Nat, NEW d \in Seq(1..MaxFrames), NEW q \in Seq(1..MaxFrames),
         InLine(h, d, q, n), q # <<>>
  PROVE  InLine(h, Append(d, Head(q)), Tail(q), n)
<1> DEFINE e == Head(q)
           c == Append(d, e)
           r == Tail(q)
<1>1. /\ Len(q) \in Nat /\ Len(q) > 0 /\ r \in Seq(1..MaxFrames) /\ Len(r) + 1 = Len(q)
      /\ \A i \in 1..Len(r) : r[i] = q[i + 1]
      /\ e = q[1] /\ e \in 1..MaxFrames
  BY FirstAndRest
<1>2. /\ Len(d) \in Nat /\ Len(c) = Len(d) + 1 /\ c[Len(d) + 1] = e
      /\ \A i \in 1..Len(d) : c[i] = d[i] /\ d[i] \in Nat
  <2>1. \A i \in 1..Len(d) : d[i] \in 1..MaxFrames
    BY ElementOfSeq
  <2>2. /\ Len(d) \in Nat /\ Len(c) = Len(d) + 1 /\ c[Len(d) + 1] = e
        /\ \A i \in 1..Len(d) : c[i] = d[i]
    BY <1>1, AppendProperties
  <2> QED
    BY <2>1, <2>2
<1> HIDE DEF e, c, r
<1>3. InLine(h, d, r, n)
  <2>1. 1 \in Nat /\ Len(r) + 1 <= Len(q)
    BY <1>1
  <2> QED
    BY <1>1, <2>1, EndInLine
<1>4. \A i \in 1..Len(c) : i \in 1..Len(d) \/ i = Len(d) + 1
  BY <1>2
<1>5. /\ h < e /\ e <= n
      /\ \A i \in 1..Len(d) : d[i] < e
      /\ \A j \in 1..Len(r) : e < r[j]
  <2>1. 1 \in 1..Len(q) /\ \A j \in 1..Len(r) : j + 1 \in 1..Len(q) /\ 1 < j + 1
    BY <1>1
  <2> QED
    BY <1>1, <2>1 DEF InLine, Within, Before, Increasing
<1>6. Increasing(c)
  <2> SUFFICES ASSUME NEW i \in 1..Len(c), NEW j \in 1..Len(c), i < j
               PROVE  c[i] < c[j]
    BY DEF Increasing
  <2>1. i \in 1..Len(d)
    BY <1>2
  <2>2. CASE j = Len(d) + 1
    BY <1>2, <1>5, <2>1, <2>2
  <2>3. CASE j \in 1..Len(d)
    BY <1>2, <2>1, <2>3 DEF InLine, Increasing
  <2> QED
    BY <1>4, <2>2, <2>3
<1>7. Within(h, c, n)
  BY <1>2, <1>4, <1>5 DEF InLine, Within
<1>8. Before(c, r)
  BY <1>2, <1>3, <1>4, <1>5 DEF InLine, Before
<1> QED
  BY <1>3, <1>6, <1>7, <1>8 DEF InLine, e, c, r

\* and has finished with the eldest of its own.
LEMMA FinishedInLine ==
  ASSUME NEW h \in Nat, NEW n \in Nat, NEW d \in Seq(1..MaxFrames), NEW q \in Seq(1..MaxFrames),
         InLine(h, d, q, n), d # <<>>
  PROVE  InLine(Head(d), Tail(d), q, n)
<1> DEFINE e == Head(d)
           c == Tail(d)
<1>1. /\ Len(d) \in Nat /\ Len(d) > 0 /\ Len(c) + 1 = Len(d)
      /\ \A i \in 1..Len(c) : c[i] = d[i + 1]
      /\ e = d[1] /\ e \in 1..MaxFrames
  BY FirstAndRest
<1> HIDE DEF e, c
<1>2. 1 \in 1..Len(d) /\ \A j \in 1..Len(c) : j + 1 \in 1..Len(d) /\ 1 < j + 1
  BY <1>1
<1>3. Increasing(c) /\ e <= n
  BY <1>1, <1>2 DEF InLine, Increasing, Within
<1>4. Within(e, c, n)
  BY <1>1, <1>2 DEF InLine, Within, Increasing
<1>5. Within(e, q, n) /\ Before(c, q)
  BY <1>1, <1>2 DEF InLine, Within, Before
<1> QED
  BY <1>3, <1>4, <1>5 DEF InLine, e, c

LEMMA InOrderInductive ==
  /\ Init => InOrder
  /\ TypeOK /\ TypeOK' /\ InOrder /\ [Next]_vars => InOrder'
<1>1. Init => InOrder
  BY DEF Init, InOrder, InLine, Increasing, Within, Before
<1>2. TypeOK /\ TypeOK' /\ InOrder /\ [Next]_vars => InOrder'
  <2> SUFFICES ASSUME TypeOK, TypeOK', InOrder, [Next]_vars
               PROVE  InLine(heard', device', m_AudioFrameQueue', produced')
    BY DEF InOrder
  <2>1. /\ heard \in Nat /\ produced \in Nat /\ device \in Seq(1..MaxFrames)
        /\ m_AudioFrameQueue \in Seq(1..MaxFrames)
        /\ InLine(heard, device, m_AudioFrameQueue, produced)
    BY SizesAssumption DEF TypeOK, InOrder
  <2>2. CASE RenderPush
    <3>1. produced' = produced + 1 /\ produced' \in 0..MaxFrames
      BY <2>2 DEF RenderPush, TypeOK
    <3>2. produced + 1 \in 1..MaxFrames
      BY <2>1, <3>1
    <3>3. InLine(heard, device, Append(m_AudioFrameQueue, produced + 1), produced + 1)
      BY <2>1, <3>2, PushedInLine
    <3> QED
      BY <2>2, <3>1, <3>3 DEF RenderPush
  <2>3. CASE ClearAudioCache \/ UnInitClear
    BY <2>1, <2>3, ClearedInLine DEF ClearAudioCache, UnInitClear
  <2>4. CASE UnInitDestroy
    <3>1. InLine(heard, <<>>, m_AudioFrameQueue, produced)
      BY <2>1 DEF InLine, Increasing, Within, Before
    <3> QED
      BY <2>4, <3>1 DEF UnInitDestroy
  <2>5. ASSUME NEW t \in Consumers, HandleEnqueue(t)
        PROVE  InLine(heard', device', m_AudioFrameQueue', produced')
    BY <2>1, <2>5, EnqueuedInLine DEF HandleEnqueue
  <2>6. CASE BufferFinished
    BY <2>1, <2>6, FinishedInLine DEF BufferFinished
  <2>7. CASE /\ ~RenderPush /\ ~ClearAudioCache /\ ~UnInitClear /\ ~UnInitDestroy
             /\ ~BufferFinished /\ ~\E t \in Consumers : HandleEnqueue(t)
    <3>1. UNCHANGED <<heard, device, m_AudioFrameQueue, produced>>
      BY <2>7
      DEF Next, Decoder, DecoderCall, Waiter, Consumer, Device, OutputInit, OutputInitFails,
          RenderAudioFrame, RenderWait, OnDecoderDone, UnInitStopPlay, UnInitSetExit, UnInitJoin,
          StartWait, ReadPlay, SetPlaying, HandleAudioFrameQueue, HandleWait, HandleLock,
          HandleFront, CallBack, vars
    <3> QED
      BY <2>1, <3>1
  <2> QED
    BY <2>2, <2>3, <2>4, <2>5, <2>6, <2>7
<1> QED
  BY <1>1, <1>2

\* The frames in line, one after the other, are increasing.
LEMMA LineIncreases ==
  ASSUME NEW h \in Nat, NEW n \in Nat, NEW d \in Seq(Nat), NEW q \in Seq(Nat), InLine(h, d, q, n)
  PROVE  LET line == <<h>> \o d \o q
         IN  \A i \in 1..(Len(line) - 1) : line[i] < line[i + 1]
<1> DEFINE c == <<h>> \o d
           line == c \o q
<1>1. <<h>> \in Seq(Nat) /\ Len(<<h>>) = 1 /\ <<h>>[1] = h
  OBVIOUS
<1>2. /\ c \in Seq(Nat) /\ Len(c) = Len(d) + 1 /\ c[1] = h
      /\ \A i \in 1..Len(d) : c[i + 1] = d[i]
  <2>1. /\ c \in Seq(Nat) /\ Len(c) = 1 + Len(d)
        /\ \A i \in 1..(1 + Len(d)) : c[i] = IF i <= 1 THEN <<h>>[i] ELSE d[i - 1]
    BY <1>1, ConcatProperties
  <2> HIDE DEF c
  <2> QED
    BY <1>1, <2>1
<1> HIDE DEF c
<1>3. /\ Len(line) = Len(c) + Len(q)
      /\ \A i \in 1..Len(c) : line[i] = c[i]
      /\ \A j \in 1..Len(q) : line[Len(c) + j] = q[j]
  <2>1. /\ Len(line) = Len(c) + Len(q)
        /\ \A i \in 1..(Len(c) + Len(q)) : line[i] = IF i <= Len(c) THEN c[i] ELSE q[i - Len(c)]
    BY <1>2, ConcatProperties
  <2> HIDE DEF line
  <2>2. Len(c) \in Nat /\ Len(q) \in Nat
    BY <1>2
  <2>3. \A j \in 1..Len(q) : /\ Len(c) + j \in 1..(Len(c) + Len(q)) /\ ~(Len(c) + j <= Len(c))
                             /\ (Len(c) + j) - Len(c) = j
    BY <2>2
  <2>4. \A j \in 1..Len(q) : line[Len(c) + j] = q[j]
    BY <2>1, <2>3
  <2> QED
    BY <2>1, <2>2, <2>4
<1> HIDE DEF line
<1>4. Len(d) \in Nat /\ Len(q) \in Nat
  OBVIOUS
<1>5. ASSUME NEW i \in 1..(Len(line) - 1)
      PROVE  line[i] < line[i + 1]
  <2>1. CASE i <= Len(d)
    <3>1. line[i + 1] = d[i] /\ line[i] = c[i]
      BY <1>2, <1>3, <1>4, <2>1
    <3>2. CASE i = 1
      <4>1. line[i] = h /\ 1 \in 1..Len(d)
        BY <1>2, <2>1, <3>1, <3>2
      <4> QED
        BY <3>1, <3>2, <4>1 DEF InLine, Within
    <3>3. CASE i # 1
      <4>1. i - 1 \in 1..Len(d) /\ i \in 1..Len(d) /\ (i - 1) + 1 = i /\ i - 1 < i
        BY <1>4, <2>1, <3>3
      <4>2. c[i] = d[i - 1]
        BY <1>2, <4>1
      <4> QED
        BY <3>1, <4>1, <4>2 DEF InLine, Increasing
    <3> QED
      BY <3>2, <3>3
  <2>2. CASE i = Len(d) + 1
    <3>1. 1 \in 1..Len(q) /\ line[i] = c[i] /\ line[i + 1] = q[1]
      BY <1>2, <1>3, <1>4, <2>2
    <3>2. CASE Len(d) = 0
      BY <1>2, <2>2, <3>1, <3>2 DEF InLine, Within
    <3>3. CASE Len(d) # 0
      <4>1. Len(d) \in 1..Len(d)
        BY <1>4, <3>3
      <4>2. c[i] = d[Len(d)]
        BY <1>2, <2>2, <4>1
      <4> QED
        BY <3>1, <4>1, <4>2 DEF InLine, Before
    <3> QED
      BY <3>2, <3>3
  <2>3. CASE i > Len(d) + 1
    <3> DEFINE j == i - Len(c)
    <3>1. j \in 1..Len(q) /\ j + 1 \in 1..Len(q) /\ i = Len(c) + j /\ i + 1 = Len(c) + (j + 1)
      BY <1>2, <1>3, <1>4, <2>3
    <3> HIDE DEF j
    <3>2. line[i] = q[j] /\ line[i + 1] = q[j + 1]
      <4>1. line[Len(c) + j] = q[j] /\ line[Len(c) + (j + 1)] = q[j + 1]
        BY ONLY <1>3, <3>1, Zenon
      <4> QED
        BY ONLY <3>1, <4>1, Zenon
    <3>3. j < j + 1
      BY <3>1
    <3> QED
      BY <3>1, <3>2, <3>3 DEF InLine, Increasing
  <2> QED
    BY <1>4, <2>1, <2>2, <2>3
<1> QED
  BY <1>5 DEF line, c

\* Frames are played in the order they were handed over, none of them twice, for any size of
\* the cache and of the OpenSL queue (lines 253-258).
THEOREM InOrderPlayed == Spec => []PlayedInOrder
<1>1. TypeOK /\ InOrder => PlayedInOrder
  <2> SUFFICES ASSUME TypeOK, InOrder
               PROVE  PlayedInOrder
    OBVIOUS
  <2>1. /\ heard \in Nat /\ produced \in Nat
        /\ device \in Seq(Nat) /\ m_AudioFrameQueue \in Seq(Nat)
    BY SizesAssumption DEF TypeOK
  <2> QED
    BY <2>1, LineIncreases DEF InOrder, PlayedInOrder
<1> QED
  BY <1>1, InOrderInductive, TypeCorrect, PTL DEF Spec
=============================================================================
