-------------------------- MODULE DecoderLifecycle --------------------------
(***************************************************************************)
(* What a decoder of the native player promises to its subclass and to its *)
(* owner, whatever the player calls do to m_DecoderState: the thread opens *)
(* the media once, reports OnDecoderReady at most once and only with the   *)
(* media open, releases everything it opened before it reports             *)
(* OnDecoderDone, and the object is disposed of only when no thread of it  *)
(* is running.  DecoderBase.tla is shown to implement this.                *)
(***************************************************************************)

VARIABLES
  phase,  \* where the decoder is in its life
  ctx     \* the FFmpeg contexts it holds

lifecycleVars == <<phase, ctx>>

\* "format": only the container is open; "full": the codec is open as well.
Contexts == {"closed", "format", "full"}

Phases == {"absent", "opening", "active", "closing", "released", "finished",
           "disposed"}

LifecycleTypeOK ==
  /\ phase \in Phases
  /\ ctx \in Contexts

LifecycleInit ==
  /\ phase = "absent"
  /\ ctx = "closed"

Launch ==
  /\ phase = "absent"
  /\ phase' = "opening"
  /\ UNCHANGED ctx

\* The subclass is about to be told OnDecoderReady.
Open ==
  /\ phase = "opening"
  /\ ctx' \in {"format", "full"}
  /\ phase' = "active"

\* Nothing will be reported but OnDecoderDone.
FailToOpen ==
  /\ phase = "opening"
  /\ ctx' \in Contexts
  /\ phase' = "closing"

Leave ==
  /\ phase = "active"
  /\ phase' = "closing"
  /\ UNCHANGED ctx

Release ==
  /\ phase = "closing"
  /\ ctx' = "closed"
  /\ phase' = "released"

ReportDone ==
  /\ phase = "released"
  /\ phase' = "finished"
  /\ UNCHANGED ctx

Dispose ==
  /\ phase \in {"absent", "finished"}
  /\ phase' = "disposed"
  /\ UNCHANGED ctx

LifecycleNext ==
  \/ Launch
  \/ Open
  \/ FailToOpen
  \/ Leave
  \/ Release
  \/ ReportDone
  \/ Dispose

LifecycleSpec == LifecycleInit /\ [][LifecycleNext]_lifecycleVars
=============================================================================
