---------------------------- MODULE NativePlayer ----------------------------
(***************************************************************************)
(* The native player as the screen uses it: the surface callbacks and the  *)
(* pause button of AWindowNativeVideoPlayerActivity, which all run on the  *)
(* main thread, through FFMediaPlayer.java and its JNI functions to the    *)
(* two decoders that FFMediaPlayer.cpp owns, with their threads and the    *)
(* renders these use.                                                      *)
(*                                                                         *)
(* A call goes to the video decoder and then to the audio decoder, a step  *)
(* each.  Of a decode thread only what its owner can tell is kept: what it *)
(* reads and writes of m_DecoderState, when it uses its render and when it *)
(* ends.  DecoderBase.tla and OpenSLRender.tla have the rest.              *)
(***************************************************************************)
EXTENDS Integers, Sequences

VARIABLES
  surface,         \* of the screen
  player,          \* what mNativePlayerHandle of the screen's player points to
  todo,            \* what the main thread still has to do of the callback it is in
  m_DecoderState,  \* of each decoder
  thread,          \* where the thread of each decoder is
  render,          \* the decoders whose render exists
  overwritten      \* history: decoders whose thread has replaced the latest STOP

vars == <<surface, player, todo, m_DecoderState, thread, render, overwritten>>

Decoders == {"video", "audio"}
DecoderState == {"UNKNOWN", "DECODING", "PAUSE", "STOP"}
Ops == {"Start", "Pause", "Stop", "UnInitStop", "Join", "DeleteRender", "Delete"}

\* Where a decode thread calls its render, or is about to.
Using == {"ready", "frame", "blocked", "done"}
ThreadSteps == Using \cup {"absent", "opening", "entering", "loop", "testStop", "decode",
                         "closing", "ended"}

Both(op) == << <<op, "video">>, <<op, "audio">> >>

\* stop(), and unInit(): FFMediaPlayer::UnInit deletes a decoder, whose destructor calls
\* DecoderBase::UnInit, and then its render, and Player::UnInit deletes the player.
Teardown ==
  << <<"Stop", "video">>, <<"Stop", "audio">>,
     <<"UnInitStop", "video">>, <<"Join", "video">>, <<"DeleteRender", "video">>,
     <<"UnInitStop", "audio">>, <<"Join", "audio">>, <<"DeleteRender", "audio">>,
     <<"Delete", "video">> >>

Init ==
  /\ surface = "none"
  /\ player = "null"
  /\ todo = <<>>
  /\ m_DecoderState = [d \in Decoders |-> "UNKNOWN"]
  /\ thread = [d \in Decoders |-> "absent"]
  /\ render = {}
  /\ overwritten = {}

-----------------------------------------------------------------------------
(* The callbacks of the screen, one at a time on the main thread.          *)

\* A new Java player is initialised: its decoders have no thread yet.
SurfaceCreated ==
  /\ surface = "none" /\ todo = <<>>
  /\ surface' = "created"
  /\ player' = "live"
  /\ m_DecoderState' = [d \in Decoders |-> "UNKNOWN"]
  /\ thread' = [d \in Decoders |-> "absent"]
  /\ render' = Decoders
  /\ overwritten' = {}
  /\ UNCHANGED todo

\* Mutant: the screen plays before it has a player.
SurfaceChanged_Early ==
  /\ surface # "destroying" /\ todo = <<>>
  /\ surface' = "shown"
  /\ todo' = Both("Start")
  /\ UNCHANGED <<player, m_DecoderState, thread, render, overwritten>>

\* Called at least once, and whenever the surface changes: it plays, also after a pause.
SurfaceChanged ==
  /\ surface \in {"created", "shown"} /\ todo = <<>>
  /\ surface' = "shown"
  /\ todo' = Both("Start")
  /\ UNCHANGED <<player, m_DecoderState, thread, render, overwritten>>

\* The button, while its screen is shown.
PauseButton ==
  /\ surface \in {"created", "shown"} /\ todo = <<>>
  /\ todo' = Both("Pause")
  /\ UNCHANGED <<surface, player, m_DecoderState, thread, render, overwritten>>

\* Mutant: unInit() is called before stop().
SurfaceDestroyed_Swapped ==
  /\ surface \in {"created", "shown"} /\ todo = <<>>
  /\ surface' = "destroying"
  /\ todo' = SubSeq(Teardown, 3, 9) \o Both("Stop")
  /\ UNCHANGED <<player, m_DecoderState, thread, render, overwritten>>

\* Mutant: the main thread does not wait for the decode threads.
SurfaceDestroyed_NoJoin ==
  /\ surface \in {"created", "shown"} /\ todo = <<>>
  /\ surface' = "destroying"
  /\ todo' = SelectSeq(Teardown, LAMBDA call : call[1] # "Join")
  /\ UNCHANGED <<player, m_DecoderState, thread, render, overwritten>>

\* The surface is valid until the callback returns.
SurfaceDestroyed ==
  /\ surface \in {"created", "shown"} /\ todo = <<>>
  /\ surface' = "destroying"
  /\ todo' = Teardown
  /\ UNCHANGED <<player, m_DecoderState, thread, render, overwritten>>

-----------------------------------------------------------------------------
(* The steps of a callback.                                                *)

Doing(op, d) == todo # <<>> /\ Head(todo) = <<op, d>> /\ todo' = Tail(todo)

Start(d) ==
  /\ Doing("Start", d)
  /\ IF thread[d] = "absent"
       THEN thread' = [thread EXCEPT ![d] = "opening"] /\ UNCHANGED m_DecoderState
       ELSE m_DecoderState' = [m_DecoderState EXCEPT ![d] = "DECODING"] /\ UNCHANGED thread
  /\ UNCHANGED <<surface, player, render, overwritten>>

Stop(d) ==
  /\ Doing("Stop", d)
  /\ m_DecoderState' = [m_DecoderState EXCEPT ![d] = "STOP"]
  /\ overwritten' = overwritten \ {d}
  /\ UNCHANGED <<surface, player, thread, render>>

Pause(d) ==
  /\ Doing("Pause", d)
  /\ m_DecoderState' = [m_DecoderState EXCEPT ![d] = "PAUSE"]
  /\ UNCHANGED <<surface, player, thread, render, overwritten>>

\* Mutant: the decoder is paused.
UnInitStop_Pauses(d) ==
  /\ Doing("UnInitStop", d)
  /\ IF thread[d] = "absent"
       THEN UNCHANGED <<m_DecoderState, overwritten>>
       ELSE /\ m_DecoderState' = [m_DecoderState EXCEPT ![d] = "PAUSE"]
            /\ overwritten' = overwritten \ {d}
  /\ UNCHANGED <<surface, player, thread, render>>

\* The destructor of the decoder stops it again, if it has a thread,
UnInitStop(d) ==
  /\ Doing("UnInitStop", d)
  /\ IF thread[d] = "absent"
       THEN UNCHANGED <<m_DecoderState, overwritten>>
       ELSE /\ m_DecoderState' = [m_DecoderState EXCEPT ![d] = "STOP"]
            /\ overwritten' = overwritten \ {d}
  /\ UNCHANGED <<surface, player, thread, render>>

\* and waits for that to end.
Join(d) ==
  /\ Doing("Join", d)
  /\ thread[d] \in {"absent", "ended"}
  /\ thread' = [thread EXCEPT ![d] = "absent"]
  /\ UNCHANGED <<surface, player, m_DecoderState, render, overwritten>>

DeleteRender(d) ==
  /\ Doing("DeleteRender", d)
  /\ render' = render \ {d}
  /\ UNCHANGED <<surface, player, m_DecoderState, thread, overwritten>>

\* The native player is deleted; the Java one keeps its handle.  Then the callback returns.
Delete ==
  /\ Doing("Delete", "video")
  /\ player' = "deleted"
  /\ surface' = "none"
  /\ UNCHANGED <<m_DecoderState, thread, render, overwritten>>

-----------------------------------------------------------------------------
(* The decode threads.                                                     *)

Goes(d, from, to) == thread[d] = from /\ thread' = [thread EXCEPT ![d] = to]

\* The thread writes this state over whatever the main thread has written.
Writes(d, value) ==
  /\ m_DecoderState' = [m_DecoderState EXCEPT ![d] = value]
  /\ overwritten' = IF m_DecoderState[d] = "STOP" THEN overwritten \cup {d} ELSE overwritten
  /\ UNCHANGED <<surface, player, todo, render>>

Open(d) ==
  /\ \E next \in {"ready", "closing"} : Goes(d, "opening", next)
  /\ UNCHANGED <<surface, player, todo, m_DecoderState, render, overwritten>>

OnDecoderReady(d) ==
  /\ Goes(d, "ready", "entering")
  /\ UNCHANGED <<surface, player, todo, m_DecoderState, render, overwritten>>

EnterLoop(d) == Goes(d, "entering", "loop") /\ Writes(d, "DECODING")

TestPause(d) ==
  /\ m_DecoderState[d] # "PAUSE"
  /\ Goes(d, "loop", "testStop")
  /\ UNCHANGED <<surface, player, todo, m_DecoderState, render, overwritten>>

\* The state is read again: it may be PAUSE by now.
TestStop(d) ==
  /\ Goes(d, "testStop", IF m_DecoderState[d] = "STOP" THEN "closing" ELSE "decode")
  /\ UNCHANGED <<surface, player, todo, m_DecoderState, render, overwritten>>

\* A packet may hold no frame, or a frame to render.
DecodeOnePacket(d) ==
  /\ \E next \in {"loop", "frame"} : Goes(d, "decode", next)
  /\ UNCHANGED <<surface, player, todo, m_DecoderState, render, overwritten>>

PauseAtEnd(d) == Goes(d, "decode", "loop") /\ Writes(d, "PAUSE")

\* RenderAudioFrame never returns once OpenSL has refused a buffer and the cache is full.
OnFrameAvailable(d) ==
  /\ \E next \in {"loop"} \cup (IF d = "audio" THEN {"blocked"} ELSE {}) : Goes(d, "frame", next)
  /\ UNCHANGED <<surface, player, todo, m_DecoderState, render, overwritten>>

UnInitDecoder(d) ==
  /\ Goes(d, "closing", "done")
  /\ UNCHANGED <<surface, player, todo, m_DecoderState, render, overwritten>>

OnDecoderDone(d) ==
  /\ Goes(d, "done", "ended")
  /\ UNCHANGED <<surface, player, todo, m_DecoderState, render, overwritten>>

-----------------------------------------------------------------------------

Callback == SurfaceCreated \/ SurfaceChanged \/ PauseButton \/ SurfaceDestroyed
DecoderStep(d) == Start(d) \/ Pause(d) \/ Stop(d) \/ UnInitStop(d) \/ Join(d) \/ DeleteRender(d)
MainStep == Delete \/ \E d \in Decoders : DecoderStep(d)
DecodeStep(d) ==
  \/ Open(d) \/ OnDecoderReady(d) \/ EnterLoop(d) \/ TestPause(d) \/ TestStop(d)
  \/ DecodeOnePacket(d) \/ PauseAtEnd(d) \/ OnFrameAvailable(d) \/ UnInitDecoder(d) \/ OnDecoderDone(d)

Next == Callback \/ MainStep \/ \E d \in Decoders : DecodeStep(d)

Spec == Init /\ [][Next]_vars

\* All threads are scheduled, and opening and reading answer; the user does what he likes.
FairSpec == Spec /\ WF_vars(MainStep) /\ \A d \in Decoders : WF_vars(DecodeStep(d))

-----------------------------------------------------------------------------

\* Every variable is in its range; the main thread has nothing to do for a player that it
\* has not made.
TypeOK ==
  /\ surface \in {"none", "created", "shown", "destroying"}
  /\ player \in {"null", "live", "deleted"}
  /\ todo \in Seq(Ops \X Decoders)
  /\ player = "null" => todo = <<>>
  /\ m_DecoderState \in [Decoders -> DecoderState]
  /\ thread \in [Decoders -> ThreadSteps]
  /\ render \subseteq Decoders /\ overwritten \subseteq Decoders

\* Every call of a callback reaches a player that exists, although the handle is kept
\* after unInit() (FFMediaPlayer.java, 98-104; AWindowNativeVideoPlayerActivity.kt, 53-60).
CallsReachPlayer == todo # <<>> => player = "live"

\* A decode thread uses its render only while that exists, and the surface is the
\* screen's until the thread has ended (FFMediaPlayer.cpp, 35-54).
RendersOutliveThreads ==
  \A d \in Decoders :
    /\ thread[d] \in Using => d \in render
    /\ thread[d] \notin {"absent", "ended"} => surface \in {"shown", "destroying"}

\* Each decoder is the DecodeThread that DecoderBase implements; an audio thread that waits
\* for room in its render stays at its frame.
Seen(d) == IF thread[d] = "blocked" THEN "frame" ELSE thread[d]

Alone(d) == INSTANCE DecodeThread WITH m_DecoderState <- m_DecoderState[d], thread <- Seen(d)

DecodersAsAlone ==
  /\ \A d \in Decoders : Alone(d)!ThreadInit
  /\ [][\A d \in Decoders : [Alone(d)!ThreadNext]_<<m_DecoderState[d], Seen(d)>>]_vars

\* Under FairSpec: surfaceDestroyed returns to the system, unless a decode thread has
\* overwritten the STOP of its destructor (DecoderBase.cpp, 156 and 178), or the audio
\* thread waits for room in a cache that nothing empties (OpenSLRender.cpp, 52).
DestroyReturns ==
  surface = "destroying"
    ~> (surface = "none" \/ overwritten # {} \/ thread["audio"] = "blocked")
=============================================================================
