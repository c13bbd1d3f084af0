------------------------- MODULE NativePlayerProofs -------------------------
(***************************************************************************)
(* Theorems about NativePlayer.tla.  What the main thread still has to do  *)
(* is the rest of one of three fixed lists of calls; that rest tells which *)
(* threads and renders exist.                                              *)
(***************************************************************************)
EXTENDS NativePlayer, SequenceTheorems, TLAPS

Calls == Ops \X Decoders

\* What is left of play(), and of pause().
Starting == {Both("Start"), << <<"Start", "audio">> >>}
Pausing == {Both("Pause"), << <<"Pause", "audio">> >>}

FieldsOK ==
  /\ m_DecoderState \in [Decoders -> DecoderState]
  /\ thread \in [Decoders -> ThreadSteps]
  /\ render \subseteq Decoders /\ overwritten \subseteq Decoders

NoThreads == \A d \in Decoders : thread[d] = "absent"

NothingShown ==
  /\ surface = "none" /\ player \in {"null", "deleted"}
  /\ todo = <<>>
  /\ NoThreads

Showing ==
  /\ surface \in {"created", "shown"} /\ player = "live"
  /\ render = Decoders
  /\ todo \in {<<>>} \cup Starting \cup Pausing
  /\ surface = "created" => NoThreads /\ todo \notin Starting

\* With the main thread before the k-th call of the teardown.
Tearing(k) ==
  /\ surface = "destroying" /\ player = "live"
  /\ todo = SubSeq(Teardown, k, 9)
  /\ k > 4 => thread["video"] = "absent"
  /\ k > 7 => thread["audio"] = "absent"
  /\ k <= 5 => "video" \in render
  /\ k <= 8 => "audio" \in render

PlayerOK == FieldsOK /\ (NothingShown \/ Showing \/ \E k \in 1..9 : Tearing(k))

-----------------------------------------------------------------------------
(* The lists.                                                              *)

LEMMA TeardownSeq == Teardown \in Seq(Calls) /\ Len(Teardown) = 9
BY DEF Teardown, Calls, Ops, Decoders

LEMMA TeardownCalls ==
  /\ Teardown[1] = <<"Stop", "video">> /\ Teardown[2] = <<"Stop", "audio">>
  /\ Teardown[3] = <<"UnInitStop", "video">> /\ Teardown[4] = <<"Join", "video">>
  /\ Teardown[5] = <<"DeleteRender", "video">> /\ Teardown[6] = <<"UnInitStop", "audio">>
  /\ Teardown[7] = <<"Join", "audio">> /\ Teardown[8] = <<"DeleteRender", "audio">>
  /\ Teardown[9] = <<"Delete", "video">>
BY DEF Teardown

\* What is left of the teardown begins with the k-th call.
LEMMA Rest ==
  ASSUME NEW k \in 1..9
  PROVE  /\ SubSeq(Teardown, k, 9) # <<>>
         /\ SubSeq(Teardown, k, 9) \in Seq(Calls)
         /\ Head(SubSeq(Teardown, k, 9)) = Teardown[k]
         /\ Tail(SubSeq(Teardown, k, 9)) = SubSeq(Teardown, k + 1, 9)
<1>1. k \in 1..Len(Teardown) /\ 9 \in k..Len(Teardown)
  BY TeardownSeq
<1>2. /\ Head(SubSeq(Teardown, k, 9)) = Teardown[k]
      /\ Tail(SubSeq(Teardown, k, 9)) = SubSeq(Teardown, k + 1, 9)
  BY <1>1, TeardownSeq, HeadTailOfSubSeq
<1>3. \A i \in k..9 : Teardown[i] \in Calls
  <2> SUFFICES ASSUME NEW i \in k..9 PROVE Teardown[i] \in Calls
    OBVIOUS
  <2>1. i \in 1..Len(Teardown)
    BY TeardownSeq
  <2> QED BY <2>1, TeardownSeq, ElementOfSeq
<1>4. SubSeq(Teardown, k, 9) \in Seq(Calls) /\ Len(SubSeq(Teardown, k, 9)) = 9 - k + 1
  <2> DEFINE rest == SubSeq(Teardown, k, 9)
  <2>1. rest \in Seq(Calls) /\ Len(rest) = IF k <= 9 THEN 9 - k + 1 ELSE 0
    BY <1>3, SubSeqProperties
  <2> HIDE DEF rest
  <2>2. Len(rest) = 9 - k + 1
    BY <2>1
  <2> QED BY <2>1, <2>2 DEF rest
<1>5. SubSeq(Teardown, k, 9) # <<>>
  <2>1. Len(SubSeq(Teardown, k, 9)) # 0
    BY <1>4
  <2> QED BY <2>1, EmptySeq
<1> QED BY <1>2, <1>4, <1>5

\* The lists of play() and pause(), peeled.
LEMMA Short ==
  ASSUME NEW op \in Ops
  PROVE  /\ Both(op) # <<>> /\ Both(op) \in Seq(Calls)
         /\ Head(Both(op)) = <<op, "video">>
         /\ Tail(Both(op)) = << <<op, "audio">> >>
         /\ << <<op, "audio">> >> # <<>> /\ << <<op, "audio">> >> \in Seq(Calls)
         /\ Head(<< <<op, "audio">> >>) = <<op, "audio">>
         /\ Tail(<< <<op, "audio">> >>) = <<>>
BY DEF Both, Calls, Decoders

\* A call that is made while the screen is shown belongs to play() or to pause().
LEMMA WhileShowing ==
  ASSUME Showing, NEW op, NEW d, Doing(op, d)
  PROVE  /\ op \in {"Start", "Pause"}
         /\ todo' \in {<<>>} \cup Starting \cup Pausing
         /\ surface = "created" => op = "Pause" /\ todo' \notin Starting
<1> USE DEF Showing, Doing
<1>0. "Start" \in Ops /\ "Pause" \in Ops
  BY DEF Ops
<1>1. CASE todo \in Starting
  <2>1. Head(todo) \in {<<"Start", "video">>, <<"Start", "audio">>}
        /\ Tail(todo) \in {<<>>, << <<"Start", "audio">> >>}
    BY <1>0, <1>1, Short DEF Starting
  <2> QED BY <1>1, <2>1 DEF Starting
<1>2. CASE todo \in Pausing
  <2>1. Head(todo) \in {<<"Pause", "video">>, <<"Pause", "audio">>}
        /\ Tail(todo) \in {<<>>, << <<"Pause", "audio">> >>}
    BY <1>0, <1>2, Short DEF Pausing
  <2>2. Tail(todo) \notin Starting
    BY <2>1, <1>0, Short DEF Starting, Both
  <2> QED BY <2>1, <2>2 DEF Pausing
<1> QED BY <1>1, <1>2

\* One that is made during the teardown is the k-th.
LEMMA WhileTearing ==
  ASSUME NEW k \in 1..9, Tearing(k), NEW op, NEW d, Doing(op, d)
  PROVE  Teardown[k] = <<op, d>> /\ todo' = SubSeq(Teardown, k + 1, 9)
BY Rest DEF Tearing, Doing

\* What a decode thread does to the fields, and that it does not begin by itself.
LEMMA DecodeKeeps ==
  ASSUME FieldsOK, NEW d \in Decoders, DecodeStep(d)
  PROVE  /\ FieldsOK'
         /\ UNCHANGED <<surface, player, todo, render>>
         /\ \A e \in Decoders : thread[e] = "absent" => thread'[e] = "absent"
<1>1. UNCHANGED <<surface, player, todo, render>>
  BY DEF DecodeStep, Open, OnDecoderReady, EnterLoop, TestPause, TestStop, DecodeOnePacket, PauseAtEnd,
         OnFrameAvailable, UnInitDecoder, OnDecoderDone, Writes
<1>2. PICK from \in ThreadSteps \ {"absent"}, to \in ThreadSteps : Goes(d, from, to)
  BY DEF DecodeStep, Open, OnDecoderReady, EnterLoop, TestPause, TestStop, DecodeOnePacket, PauseAtEnd,
         OnFrameAvailable, UnInitDecoder, OnDecoderDone, ThreadSteps, Using
<1>3. thread' \in [Decoders -> ThreadSteps]
  BY <1>2 DEF Goes, FieldsOK
<1>4. \A e \in Decoders : thread[e] = "absent" => thread'[e] = "absent"
  BY <1>2 DEF Goes, FieldsOK
<1>5. \/ UNCHANGED <<m_DecoderState, overwritten>>
      \/ Writes(d, "DECODING") \/ Writes(d, "PAUSE")
  BY DEF DecodeStep, Open, OnDecoderReady, EnterLoop, TestPause, TestStop, DecodeOnePacket, PauseAtEnd,
         OnFrameAvailable, UnInitDecoder, OnDecoderDone
<1>6. m_DecoderState' \in [Decoders -> DecoderState] /\ overwritten' \subseteq Decoders
  BY <1>5 DEF Writes, FieldsOK, DecoderState
<1> QED BY <1>1, <1>3, <1>4, <1>6 DEF FieldsOK

LEMMA PlayerInit == Init => PlayerOK
BY DEF Init, PlayerOK, FieldsOK, NothingShown, NoThreads, DecoderState, ThreadSteps

LEMMA PlayerInductive == PlayerOK /\ [Next]_vars => PlayerOK'
<1> SUFFICES ASSUME PlayerOK, [Next]_vars PROVE PlayerOK'
  OBVIOUS
<1>0. FieldsOK /\ (NothingShown \/ Showing \/ \E k \in 1..9 : Tearing(k))
  BY DEF PlayerOK
<1>1. ASSUME todo = <<>> PROVE NothingShown \/ Showing
  BY <1>0, <1>1, Rest DEF Tearing
<1>2. CASE SurfaceCreated
  <2>1. FieldsOK' /\ Showing'
    BY <1>0, <1>2
    DEF SurfaceCreated, Showing, FieldsOK, NoThreads, DecoderState, ThreadSteps, Starting, Both
  <2> QED BY <2>1 DEF PlayerOK
<1>3. CASE SurfaceChanged
  <2>1. FieldsOK' /\ Showing
    BY <1>0, <1>1, <1>3 DEF SurfaceChanged, NothingShown, FieldsOK
  <2>2. Showing'
    BY <1>3, <2>1 DEF SurfaceChanged, Showing, Starting
  <2> QED BY <2>1, <2>2 DEF PlayerOK
<1>4. CASE PauseButton
  <2>1. FieldsOK' /\ Showing
    BY <1>0, <1>1, <1>4 DEF PauseButton, NothingShown, FieldsOK
  <2>2. Both("Pause") \notin Starting
    BY DEF Starting, Both
  <2>3. Showing'
    BY <1>4, <2>1, <2>2 DEF PauseButton, Showing, Pausing, NoThreads
  <2> QED BY <2>1, <2>3 DEF PlayerOK
<1>5. CASE SurfaceDestroyed
  <2>1. FieldsOK' /\ Showing
    BY <1>0, <1>1, <1>5 DEF SurfaceDestroyed, NothingShown, FieldsOK
  <2>2. todo' = SubSeq(Teardown, 1, 9)
    BY <1>5, TeardownSeq, SubSeqFull DEF SurfaceDestroyed
  <2>3. Tearing(1)'
    BY <1>5, <2>1, <2>2 DEF SurfaceDestroyed, Showing, Tearing, Decoders
  <2> QED BY <2>1, <2>3 DEF PlayerOK
<1>6. CASE Delete
  <2>1. ~Showing /\ ~NothingShown
    BY <1>6, WhileShowing DEF Delete, Doing, NothingShown
  <2>2. PICK k \in 1..9 : Tearing(k)
    BY <1>0, <2>1
  <2>3. Teardown[k] = <<"Delete", "video">> /\ todo' = SubSeq(Teardown, k + 1, 9)
    BY <1>6, <2>2, WhileTearing DEF Delete
  <2>4. k = 9
    BY <2>3, TeardownCalls
  <2>5. todo' = <<>>
    BY <2>3, <2>4, SubSeqEmpty
  <2>6. FieldsOK' /\ NothingShown'
    BY <1>0, <1>6, <2>2, <2>4, <2>5
    DEF Delete, FieldsOK, NothingShown, NoThreads, Tearing, Decoders
  <2> QED BY <2>6 DEF PlayerOK
<1>7. ASSUME NEW d \in Decoders, DecoderStep(d) PROVE PlayerOK'
  <2>1. FieldsOK'
    BY <1>0, <1>7
    DEF DecoderStep, Start, Pause, Stop, UnInitStop, Join, DeleteRender, FieldsOK, DecoderState,
        ThreadSteps
  <2>2. surface' = surface /\ player' = player
    BY <1>7 DEF DecoderStep, Start, Pause, Stop, UnInitStop, Join, DeleteRender
  <2>3. PICK op \in {"Start", "Pause", "Stop", "UnInitStop", "Join", "DeleteRender"} : Doing(op, d)
    BY <1>7 DEF DecoderStep, Start, Pause, Stop, UnInitStop, Join, DeleteRender
  <2>4. CASE Showing
    <3>1. /\ op \in {"Start", "Pause"} /\ todo' \in {<<>>} \cup Starting \cup Pausing
          /\ surface = "created" => op = "Pause" /\ todo' \notin Starting
      BY <2>3, <2>4, WhileShowing
    <3>2. (Start(d) /\ op = "Start") \/ (Pause(d) /\ op = "Pause")
      BY <1>7, <2>3, <3>1
      DEF DecoderStep, Start, Pause, Stop, UnInitStop, Join, DeleteRender, Doing
    <3>3. render' = render /\ (op = "Pause" => thread' = thread)
      BY <3>2 DEF Start, Pause
    <3>4. Showing'
      BY <2>2, <2>4, <3>1, <3>3 DEF Showing, NoThreads
    <3> QED BY <2>1, <3>4 DEF PlayerOK
  <2>5. ASSUME NEW k \in 1..9, Tearing(k) PROVE PlayerOK'
    <3>1. Teardown[k] = <<op, d>> /\ todo' = SubSeq(Teardown, k + 1, 9)
      BY <2>3, <2>5, WhileTearing
    <3>2. k \in 1..8
      BY <2>3, <2>5, <3>1, TeardownCalls
    <3>3. op \in {"Stop", "UnInitStop", "Join", "DeleteRender"}
      BY <3>1, <3>2, TeardownCalls
    <3>4. \/ (Stop(d) \/ UnInitStop(d)) /\ op \in {"Stop", "UnInitStop"}
          \/ Join(d) /\ op = "Join"
          \/ DeleteRender(d) /\ op = "DeleteRender"
      BY <1>7, <2>3, <3>3
      DEF DecoderStep, Start, Pause, Stop, UnInitStop, Join, DeleteRender, Doing
    <3>5. CASE Stop(d) \/ UnInitStop(d)
      <4>1. thread' = thread /\ render' = render /\ k \notin {4, 7}
        BY <3>1, <3>5, <2>3, TeardownCalls DEF Stop, UnInitStop, Doing
      <4>2. Tearing(k + 1)'
        BY <2>2, <2>5, <3>1, <3>2, <4>1 DEF Tearing
      <4> QED BY <2>1, <3>2, <4>2 DEF PlayerOK
    <3>6. CASE Join(d) /\ op = "Join"
      <4>1. render' = render /\ thread' = [thread EXCEPT ![d] = "absent"]
        BY <3>6 DEF Join
      <4>2. (k = 4 /\ d = "video") \/ (k = 7 /\ d = "audio")
        BY <3>1, <3>2, <3>6, TeardownCalls
      <4>3. Tearing(k + 1)'
        BY <1>0, <2>2, <2>5, <3>1, <3>2, <4>1, <4>2 DEF Tearing, FieldsOK, Decoders
      <4> QED BY <2>1, <3>2, <4>3 DEF PlayerOK
    <3>7. CASE DeleteRender(d) /\ op = "DeleteRender"
      <4>1. thread' = thread /\ render' = render \ {d}
        BY <3>7 DEF DeleteRender
      <4>2. (k = 5 /\ d = "video") \/ (k = 8 /\ d = "audio")
        BY <3>1, <3>2, <3>7, TeardownCalls
      <4>3. Tearing(k + 1)'
        BY <2>2, <2>5, <3>1, <3>2, <4>1, <4>2 DEF Tearing
      <4> QED BY <2>1, <3>2, <4>3 DEF PlayerOK
    <3> QED BY <3>4, <3>5, <3>6, <3>7
  <2>6. CASE NothingShown
    BY <2>3, <2>6 DEF NothingShown, Doing
  <2> QED BY <1>0, <2>4, <2>5, <2>6
<1>8. ASSUME NEW d \in Decoders, DecodeStep(d) PROVE PlayerOK'
  <2>1. /\ FieldsOK' /\ UNCHANGED <<surface, player, todo, render>>
        /\ \A e \in Decoders : thread[e] = "absent" => thread'[e] = "absent"
    BY <1>0, <1>8, DecodeKeeps
  <2>2. NothingShown => NothingShown'
    BY <2>1 DEF NothingShown, NoThreads
  <2>3. Showing => Showing'
    BY <2>1 DEF Showing, NoThreads
  <2>4. ASSUME NEW k \in 1..9 PROVE Tearing(k) => Tearing(k)'
    BY <2>1 DEF Tearing, Decoders
  <2> QED BY <1>0, <2>1, <2>2, <2>3, <2>4 DEF PlayerOK
<1>9. CASE UNCHANGED vars
  BY <1>0, <1>9 DEF vars, PlayerOK, FieldsOK, NothingShown, Showing, Tearing, NoThreads
<1> QED BY <1>2, <1>3, <1>4, <1>5, <1>6, <1>7, <1>8, <1>9 DEF Next, Callback, MainStep

-----------------------------------------------------------------------------

LEMMA PlayerImplies == PlayerOK => TypeOK /\ CallsReachPlayer /\ RendersOutliveThreads
<1> SUFFICES ASSUME PlayerOK PROVE TypeOK /\ CallsReachPlayer /\ RendersOutliveThreads
  OBVIOUS
<1>0. "Start" \in Ops /\ "Pause" \in Ops
  BY DEF Ops
<1>1. CASE NothingShown
  BY <1>1
  DEF PlayerOK, FieldsOK, NothingShown, NoThreads, TypeOK, CallsReachPlayer,
      RendersOutliveThreads, Using
<1>2. CASE Showing
  <2>1. todo \in Seq(Calls)
    <3>1. Starting \subseteq Seq(Calls) /\ Pausing \subseteq Seq(Calls)
      BY <1>0, Short DEF Starting, Pausing
    <3>2. <<>> \in Seq(Calls)
      BY EmptySeq
    <3> QED BY <1>2, <3>1, <3>2 DEF Showing
  <2>2. surface \in {"created", "shown"} /\ player = "live" /\ FieldsOK
    BY <1>2 DEF PlayerOK, Showing
  <2>3. TypeOK /\ CallsReachPlayer
    BY <2>1, <2>2 DEF FieldsOK, TypeOK, CallsReachPlayer, Calls
  <2>4. RendersOutliveThreads
    BY <1>2 DEF Showing, NoThreads, RendersOutliveThreads, Using
  <2> QED BY <2>3, <2>4
<1>3. ASSUME NEW k \in 1..9, Tearing(k)
      PROVE TypeOK /\ CallsReachPlayer /\ RendersOutliveThreads
  <2>1. todo \in Seq(Calls) /\ player = "live" /\ surface = "destroying"
    BY <1>3, Rest DEF Tearing
  <2>2. TypeOK /\ CallsReachPlayer
    BY <2>1 DEF PlayerOK, FieldsOK, TypeOK, CallsReachPlayer, Calls
  <2>3. ASSUME NEW d \in Decoders, thread[d] \in Using PROVE d \in render
    BY <1>3, <2>3 DEF Tearing, Decoders, Using
  <2> QED BY <2>1, <2>2, <2>3 DEF RendersOutliveThreads
<1> QED BY <1>1, <1>2, <1>3 DEF PlayerOK

\* Every field stays in its range, and the main thread's list is one of calls.
THEOREM TypeCorrect == Spec => []TypeOK
BY PlayerInit, PlayerInductive, PlayerImplies, PTL DEF Spec

\* No call of a callback is made on a player that does not exist yet or any more.
THEOREM Reached == Spec => []CallsReachPlayer
BY PlayerInit, PlayerInductive, PlayerImplies, PTL DEF Spec

\* Neither a render nor the surface goes before the thread that uses it.
THEOREM RendersLast == Spec => []RendersOutliveThreads
BY PlayerInit, PlayerInductive, PlayerImplies, PTL DEF Spec

-----------------------------------------------------------------------------
(* The decoders of the player are those of DecodeThread: they have none of *)
(* its steps too few, and none too many.                                   *)

\* A call for one decoder, as that decoder sees it.
LEMMA CallAlone ==
  ASSUME FieldsOK, NEW d \in Decoders, DecoderStep(d)
  PROVE  [Alone(d)!ThreadNext]_<<m_DecoderState[d], Seen(d)>>
<1> USE DEF FieldsOK, Seen, Alone!ThreadNext, Alone!OwnerStep
<1>1. CASE Start(d)
  BY <1>1 DEF Start, Alone!Start
<1>2. CASE Pause(d) \/ Stop(d)
  BY <1>2 DEF Pause, Stop, Alone!Command
<1>3. CASE UnInitStop(d)
  BY <1>3 DEF UnInitStop, Alone!Command
<1>4. CASE Join(d)
  BY <1>4 DEF Join, Alone!Join
<1>5. CASE DeleteRender(d)
  BY <1>5 DEF DeleteRender
<1> QED BY <1>1, <1>2, <1>3, <1>4, <1>5 DEF DecoderStep

\* A step of its thread.
LEMMA DecodeAlone ==
  ASSUME FieldsOK, NEW d \in Decoders, DecodeStep(d)
  PROVE  [Alone(d)!ThreadNext]_<<m_DecoderState[d], Seen(d)>>
<1> USE DEF FieldsOK, Seen, Goes, Writes, Alone!ThreadNext, Alone!ThreadStep, Alone!Moves
<1>1. CASE Open(d)
  BY <1>1 DEF Open, Alone!Open
<1>2. CASE OnDecoderReady(d) \/ EnterLoop(d)
  BY <1>2 DEF OnDecoderReady, EnterLoop, Alone!Enter
<1>3. CASE TestPause(d) \/ TestStop(d)
  BY <1>3 DEF TestPause, TestStop, Alone!Test
<1>4. CASE DecodeOnePacket(d) \/ PauseAtEnd(d)
  BY <1>4 DEF DecodeOnePacket, PauseAtEnd, Alone!Decode
<1>5. CASE OnFrameAvailable(d)
  BY <1>5 DEF OnFrameAvailable, Alone!Decode
<1>6. CASE UnInitDecoder(d) \/ OnDecoderDone(d)
  BY <1>6 DEF UnInitDecoder, OnDecoderDone, Alone!Close
<1> QED BY <1>1, <1>2, <1>3, <1>4, <1>5, <1>6 DEF DecodeStep

\* What is done for one decoder is nothing to the other.
LEMMA OthersAlone ==
  ASSUME FieldsOK, NEW d \in Decoders, NEW e \in Decoders \ {d}, DecoderStep(e) \/ DecodeStep(e)
  PROVE  UNCHANGED <<m_DecoderState[d], Seen(d)>>
<1>1. m_DecoderState'[d] = m_DecoderState[d] /\ thread'[d] = thread[d]
  <2>1. CASE DecoderStep(e)
    BY <2>1 DEF FieldsOK, DecoderStep, Start, Pause, Stop, UnInitStop, Join, DeleteRender
  <2>2. CASE DecodeStep(e)
    BY <2>2 DEF FieldsOK, Goes, Writes, DecodeStep, Open, OnDecoderReady, EnterLoop, TestPause,
         TestStop, DecodeOnePacket, PauseAtEnd, OnFrameAvailable, UnInitDecoder, OnDecoderDone
  <2> QED BY <2>1, <2>2
<1> QED BY <1>1 DEF Seen

\* Whatever the screen and the other decoder do, each decoder behaves like one alone with
\* its owner.  A player is made only when the threads of the last one are gone: otherwise
\* Create would be a step that no decoder takes (FFMediaPlayer.cpp, 12-33 and 35-54).
THEOREM DecodersAlone == Spec => DecodersAsAlone
<1>1. Init => \A d \in Decoders : Alone(d)!ThreadInit
  BY DEF Init, Seen, Alone!ThreadInit
<1>2. PlayerOK /\ [Next]_vars
        => [\A d \in Decoders : [Alone(d)!ThreadNext]_<<m_DecoderState[d], Seen(d)>>]_vars
  <2> SUFFICES ASSUME PlayerOK, [Next]_vars, NEW d \in Decoders
               PROVE  [Alone(d)!ThreadNext]_<<m_DecoderState[d], Seen(d)>>
    OBVIOUS
  <2>0. FieldsOK /\ (NothingShown \/ Showing \/ \E k \in 1..9 : Tearing(k))
    BY DEF PlayerOK
  <2>1. CASE SurfaceCreated
    <3>1. thread[d] = "absent"
      BY <2>0, <2>1, Rest DEF SurfaceCreated, NothingShown, NoThreads, Showing, Tearing
    <3> QED
      BY <2>1, <3>1 DEF SurfaceCreated, Seen, Alone!ThreadNext, Alone!OwnerStep, Alone!Create
  <2>2. CASE SurfaceChanged \/ PauseButton \/ SurfaceDestroyed \/ Delete \/ UNCHANGED vars
    <3>1. UNCHANGED <<m_DecoderState, thread>>
      BY <2>2 DEF SurfaceChanged, PauseButton, SurfaceDestroyed, Delete, vars
    <3> QED BY <3>1 DEF Seen
  <2>3. ASSUME NEW e \in Decoders, DecoderStep(e) \/ DecodeStep(e)
        PROVE  [Alone(d)!ThreadNext]_<<m_DecoderState[d], Seen(d)>>
    BY <2>0, <2>3, CallAlone, DecodeAlone, OthersAlone
  <2> QED BY <2>1, <2>2, <2>3 DEF Next, Callback, MainStep
<1> QED BY <1>1, <1>2, PlayerInit, PlayerInductive, PTL DEF Spec, DecodersAsAlone

\* Nothing but the thread of d takes a step, and it has not gone to wait for room.
OnlyThread(d) ==
  /\ thread' = [thread EXCEPT ![d] = Seen(d)']
  /\ m_DecoderState' = [m_DecoderState EXCEPT ![d] = m_DecoderState[d]']
  /\ overwritten' = IF m_DecoderState[d] = "STOP" /\ m_DecoderState[d]' # "STOP"
                      THEN overwritten \cup {d} ELSE overwritten
  /\ UNCHANGED <<surface, player, todo, render>>

\* Conversely the player takes every step of a thread into account that does not wait for
\* room in its render.  With ThreadRefinement of DecoderBaseProofs: what is proved of the
\* player holds with the decode loop of DecoderBase.cpp in it.
THEOREM ThreadsCovered ==
  ASSUME FieldsOK, NEW d \in Decoders, thread[d] # "blocked",
         Alone(d)!ThreadStep, OnlyThread(d)
  PROVE  DecodeStep(d)
<1> USE DEF FieldsOK, Seen, OnlyThread, Goes, DecodeStep, Alone!Moves
<1>1. CASE Alone(d)!Open
  BY <1>1 DEF Open, Alone!Open
<1>2. CASE Alone(d)!Enter
  BY <1>2 DEF OnDecoderReady, EnterLoop, Writes, Alone!Enter
<1>3. CASE Alone(d)!Test
  BY <1>3 DEF TestPause, TestStop, Alone!Test
<1>4. CASE Alone(d)!Decode
  BY <1>4 DEF DecodeOnePacket, PauseAtEnd, OnFrameAvailable, Writes, Alone!Decode
<1>5. CASE Alone(d)!Close
  BY <1>5 DEF UnInitDecoder, OnDecoderDone, Alone!Close
<1> QED BY <1>1, <1>2, <1>3, <1>4, <1>5 DEF Alone!ThreadStep

-----------------------------------------------------------------------------

\* What Join waits for is a thread that has been told to stop, or that has forgotten it:
\* the safety that DestroyReturns rests on.
JoinWaitsForStopped ==
  \A d \in Decoders :
    todo # <<>> /\ Head(todo) = <<"Join", d>>
      => thread[d] = "absent" \/ m_DecoderState[d] = "STOP" \/ d \in overwritten

LEMMA JoinFollowsStop ==
  ASSUME PlayerOK, NEW d \in Decoders, DecoderStep(d) \/ Delete, NEW e \in Decoders,
         todo' # <<>>, Head(todo') = <<"Join", e>>
  PROVE  UnInitStop(d) /\ e = d
<1>0. NothingShown \/ Showing \/ \E k \in 1..9 : Tearing(k)
  BY DEF PlayerOK
<1>1. PICK op \in Ops, c \in Decoders :
        /\ Doing(op, c)
        /\ op = "UnInitStop" => UnInitStop(d) /\ c = d
  BY DEF DecoderStep, Start, Pause, Stop, UnInitStop, Join, DeleteRender, Delete, Doing, Ops, Decoders
<1>2. ~NothingShown
  BY <1>1 DEF NothingShown, Doing
<1>3. ~Showing
  <2>1. SUFFICES ASSUME Showing PROVE FALSE
    OBVIOUS
  <2>2. todo' \in Starting \cup Pausing
    BY <1>1, <2>1, WhileShowing
  <2>3. "Start" \in Ops /\ "Pause" \in Ops
    BY DEF Ops
  <2>4. ASSUME NEW list \in Starting \cup Pausing PROVE Head(list) # <<"Join", e>>
    <3>1. PICK op2 \in {"Start", "Pause"} : list \in {Both(op2), << <<op2, "audio">> >>}
      BY <2>4 DEF Starting, Pausing
    <3>2. Head(list) \in {<<op2, "video">>, <<op2, "audio">>}
      BY <2>3, <3>1, Short
    <3> QED BY <3>1, <3>2
  <2> QED BY <2>2, <2>4
<1>4. PICK k \in 1..9 : Tearing(k)
  BY <1>0, <1>2, <1>3
<1>5. Teardown[k] = <<op, c>> /\ todo' = SubSeq(Teardown, k + 1, 9)
  BY <1>1, <1>4, WhileTearing
<1>6. k # 9
  BY <1>5, SubSeqEmpty
<1>7. Teardown[k + 1] = <<"Join", e>>
  BY <1>5, <1>6, Rest
<1>8. k + 1 \in {4, 7}
  BY <1>6, <1>7, TeardownCalls
<1>9. op = "UnInitStop" /\ c = e
  BY <1>5, <1>7, <1>8, TeardownCalls
<1> QED BY <1>1, <1>9

\* The destructor of a decoder stops its thread before it waits for it, and nobody but that
\* thread can take the STOP back (DecoderBase.cpp, 50-57, 156 and 178).
THEOREM JoinsStopped == Spec => []JoinWaitsForStopped
<1>1. Init => JoinWaitsForStopped
  BY DEF Init, JoinWaitsForStopped
<1>2. PlayerOK /\ JoinWaitsForStopped /\ [Next]_vars => JoinWaitsForStopped'
  <2> SUFFICES ASSUME PlayerOK, JoinWaitsForStopped, [Next]_vars, NEW e \in Decoders,
                      todo' # <<>>, Head(todo') = <<"Join", e>>
               PROVE  thread'[e] = "absent" \/ m_DecoderState'[e] = "STOP" \/ e \in overwritten'
    BY DEF JoinWaitsForStopped
  <2>0. FieldsOK
    BY DEF PlayerOK
  <2>1. CASE Callback
    <3>1. SurfaceCreated => todo' = <<>>
      BY DEF SurfaceCreated
    <3>2. Head(Both("Start")) # <<"Join", e>> /\ Head(Both("Pause")) # <<"Join", e>>
      BY DEF Both
    <3>3. Head(Teardown) # <<"Join", e>>
      BY DEF Teardown
    <3> QED
      BY <2>1, <3>1, <3>2, <3>3 DEF Callback, SurfaceChanged, PauseButton, SurfaceDestroyed
  <2>2. CASE MainStep
    <3>1. PICK d \in Decoders : DecoderStep(d) \/ Delete
      BY <2>2 DEF MainStep, Decoders
    <3>2. UnInitStop(d) /\ e = d
      BY <3>1, JoinFollowsStop
    <3> QED BY <2>0, <3>2 DEF UnInitStop, FieldsOK
  <2>3. ASSUME NEW d \in Decoders, DecodeStep(d)
        PROVE  thread'[e] = "absent" \/ m_DecoderState'[e] = "STOP" \/ e \in overwritten'
    <3>1. todo' = todo /\ (thread[e] = "absent" => thread'[e] = "absent")
      BY <2>0, <2>3, DecodeKeeps
    <3>2. thread[e] = "absent" \/ m_DecoderState[e] = "STOP" \/ e \in overwritten
      BY <3>1 DEF JoinWaitsForStopped
    <3>3. \/ UNCHANGED <<m_DecoderState, overwritten>>
          \/ Writes(d, "DECODING") \/ Writes(d, "PAUSE")
      BY <2>3 DEF DecodeStep, Open, OnDecoderReady, EnterLoop, TestPause, TestStop, DecodeOnePacket,
           PauseAtEnd, OnFrameAvailable, UnInitDecoder, OnDecoderDone
    <3> QED BY <2>0, <3>1, <3>2, <3>3 DEF Writes, FieldsOK
  <2>4. CASE UNCHANGED vars
    BY <2>4 DEF vars, JoinWaitsForStopped
  <2> QED BY <2>1, <2>2, <2>3, <2>4 DEF Next
<1> QED BY <1>1, <1>2, PlayerInit, PlayerInductive, PTL DEF Spec
=============================================================================
