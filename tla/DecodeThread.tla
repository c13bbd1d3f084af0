---------------------------- MODULE DecodeThread ----------------------------
(***************************************************************************)
(* A decode thread of the native player and its owner, as far as they can  *)
(* tell of each other: the state they share, when the thread uses the      *)
(* render of its decoder, and when it ends.  DecoderBase.tla implements    *)
(* it.  NativePlayer.tla keeps no more of its decoders, so that what it    *)
(* says of the player holds for decoders that behave like DecoderBase.     *)
(***************************************************************************)

VARIABLES
  m_DecoderState,
  thread           \* where the decode thread is

threadVars == <<m_DecoderState, thread>>

ThreadInit ==
  /\ m_DecoderState = "UNKNOWN"
  /\ thread = "absent"

-----------------------------------------------------------------------------
(* The owner.                                                              *)

\* Another decoder takes the place of one whose thread is gone.
Create ==
  /\ thread = "absent"
  /\ m_DecoderState' = "UNKNOWN"
  /\ UNCHANGED thread

\* Only the first call launches the thread.
Start ==
  \/ thread = "absent" /\ thread' = "opening" /\ UNCHANGED m_DecoderState
  \/ thread # "absent" /\ m_DecoderState' = "DECODING" /\ UNCHANGED thread

\* Pause, Stop, a seek, and what UnInit does to a thread that it is going to join.
Command ==
  /\ m_DecoderState' \in {"PAUSE", "STOP", "DECODING"}
  /\ UNCHANGED thread

Join ==
  /\ thread = "ended"
  /\ thread' = "absent"
  /\ UNCHANGED m_DecoderState

OwnerStep == Create \/ Start \/ Command \/ Join

-----------------------------------------------------------------------------
(* The decode thread.                                                      *)

Moves(from, to) == thread = from /\ thread' = to

\* A thread that does not open the media has nothing to report but its end.
Open ==
  /\ Moves("opening", "ready") \/ Moves("opening", "closing")
  /\ UNCHANGED m_DecoderState

Enter ==
  \/ Moves("ready", "entering") /\ UNCHANGED m_DecoderState
  \/ Moves("entering", "loop") /\ m_DecoderState' = "DECODING"

\* The loop tests the state twice: a PAUSE may come after the test for it.
Test ==
  /\ \/ m_DecoderState # "PAUSE" /\ Moves("loop", "testStop")
     \/ m_DecoderState = "STOP" /\ Moves("testStop", "closing")
     \/ m_DecoderState # "STOP" /\ Moves("testStop", "decode")
  /\ UNCHANGED m_DecoderState

\* What has been read is no frame, or frames to render, or the end of the media.
Decode ==
  \/ /\ Moves("decode", "loop") \/ Moves("decode", "frame") \/ Moves("frame", "loop")
     /\ UNCHANGED m_DecoderState
  \/ Moves("decode", "loop") /\ m_DecoderState' = "PAUSE"

\* Everything is released before the owner's subclass is told.
Close ==
  /\ Moves("closing", "done") \/ Moves("done", "ended")
  /\ UNCHANGED m_DecoderState

ThreadStep == Open \/ Enter \/ Test \/ Decode \/ Close

-----------------------------------------------------------------------------

ThreadNext == OwnerStep \/ ThreadStep

ThreadSpec == ThreadInit /\ [][ThreadNext]_threadVars
=============================================================================
