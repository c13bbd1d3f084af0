---------------------------- MODULE OpenSLRender ----------------------------
(***************************************************************************)
(* The audio output of the native player (player/render/audio/             *)
(* OpenSLRender.cpp).  Three threads meet here: the audio decode thread,   *)
(* which initialises the output, hands frames over, clears the cache after *)
(* a seek and takes the output down; the waiting thread started by Init,   *)
(* which sets the player going; and the thread OpenSL runs its callback    *)
(* on.  The last two run HandleAudioFrameQueue, and m_Mutex is held across *)
(* several of its steps; all other critical sections have one effect and   *)
(* are one step.  The sleeps and timed waits are loops that test again.    *)
(*                                                                         *)
(* OpenSL itself is external: a buffer queue that, while playing, finishes *)
(* its buffers in order and then calls back once for each.                 *)
(***************************************************************************)
EXTENDS Integers, Sequences

CONSTANTS
  MAX_QUEUE_BUFFER_SIZE,
  DeviceSlots,      \* buffers the OpenSL queue takes
  MaxFrames,        \* bound: frames the decoder hands over
  InitMayFail,      \* OpenSL may refuse to create an object
  EnqueueMayFail    \* OpenSL may refuse a buffer

ASSUME SizesAssumption ==
  /\ MAX_QUEUE_BUFFER_SIZE \in Nat \ {0, 1}
  /\ DeviceSlots \in Nat \ {0}
  /\ MaxFrames \in Nat
ASSUME OutputFlagsAssumption == {InitMayFail, EnqueueMayFail} \subseteq BOOLEAN

VARIABLES
  m_AudioFrameQueue,
  m_Exit,
  m_Mutex,            \* the consumer that holds it, or "free"
  m_AudioPlayerPlay,  \* the interface pointer is not null
  m_AudioPlayerObj,   \* "none", "live" or "destroyed"
  decoder,            \* the next step of the decode thread
  closing,            \* UnInit was called by OnDecoderDone
  pc,                 \* the next step of each consumer
  produced,           \* frames handed over so far
  clears,             \* history: clears since the last frame; 2 stays until the cache is full
  device,             \* the OpenSL buffer queue
  playing,
  due,                \* finished buffers not called back for yet
  heard,              \* the last frame finished
  refused,            \* a buffer was refused, or there was none to enqueue
  destroyWaits,       \* Destroy waits for a running callback: OpenSL does not say
  crashed             \* undefined behaviour ended the process

queueVars == <<m_AudioFrameQueue, produced, clears>>
playerVars == <<m_AudioPlayerPlay, m_AudioPlayerObj>>
deviceVars == <<device, playing, due, heard, refused, destroyWaits>>
vars == <<m_Exit, m_Mutex, decoder, closing, pc, crashed, queueVars, playerVars,
          deviceVars>>

-----------------------------------------------------------------------------

Consumers == {"waiter", "callback"}

ConsumerSteps == {"absent", "idle", "StartWait", "ReadPlay", "SetPlaying", "Handle",
                  "HandleWait", "Lock", "Front", "Enqueue"}

DecoderSteps == {"start", "run", "Rendering", "Push", "StopPlay", "SetExit", "Destroy",
                 "Clear", "Join", "done"}

UnInitSteps == {"StopPlay", "SetExit", "Destroy", "Clear", "Join"}

TypeOK ==
  /\ m_AudioFrameQueue \in Seq(1..MaxFrames)
  /\ m_Exit \in BOOLEAN
  /\ m_Mutex \in Consumers \union {"free"}
  /\ m_AudioPlayerPlay \in BOOLEAN
  /\ m_AudioPlayerObj \in {"none", "live", "destroyed"}
  /\ decoder \in DecoderSteps
  /\ closing \in BOOLEAN
  /\ pc \in [Consumers -> ConsumerSteps]
  /\ produced \in 0..MaxFrames
  /\ clears \in 0..2
  /\ device \in Seq(1..MaxFrames)
  /\ playing \in BOOLEAN
  /\ due \in Nat
  /\ heard \in 0..MaxFrames
  /\ refused \in BOOLEAN
  /\ destroyWaits \in BOOLEAN
  /\ crashed \in BOOLEAN

Init ==
  /\ m_AudioFrameQueue = <<>>
  /\ m_Exit = FALSE
  /\ m_Mutex = "free"
  /\ m_AudioPlayerPlay = FALSE
  /\ m_AudioPlayerObj = "none"
  /\ decoder = "start"
  /\ closing = FALSE
  /\ pc = [t \in Consumers |-> IF t = "waiter" THEN "absent" ELSE "idle"]
  /\ produced = 0
  /\ clears = 0
  /\ device = <<>>
  /\ playing = FALSE
  /\ due = 0
  /\ heard = 0
  /\ refused = FALSE
  /\ destroyWaits \in BOOLEAN
  /\ crashed = FALSE

-----------------------------------------------------------------------------
(* The decode thread.                                                      *)

DecoderGoTo(step, next) == ~crashed /\ decoder = step /\ decoder' = next

\* Mutant: the clear loop empties the queue.
HalfCleared_All(q) == SubSeq(q, Len(q) + 1, Len(q))

\* Both loops that clear the queue compare a growing index with a shrinking size,
\* and stop after half of the frames, rounded up.
HalfCleared(q) == SubSeq(q, (Len(q) + 1) \div 2 + 1, Len(q))

\* CreateEngine, CreateOutputMixer, CreateAudioPlayer and the waiting thread.
OutputInit ==
  /\ DecoderGoTo("start", "run")
  /\ m_AudioPlayerObj' = "live"
  /\ m_AudioPlayerPlay' = TRUE
  /\ pc' = [pc EXCEPT !["waiter"] = "StartWait"]
  /\ UNCHANGED <<m_Exit, m_Mutex, closing, crashed, queueVars, deviceVars>>

\* Init calls UnInit when an object cannot be created; the decoder goes on.
OutputInitFails ==
  /\ InitMayFail
  /\ DecoderGoTo("start", "StopPlay")
  /\ m_AudioPlayerObj' \in {"none", "live"}
  /\ m_AudioPlayerPlay' \in BOOLEAN
  /\ m_AudioPlayerPlay' => m_AudioPlayerObj' = "live"
  /\ UNCHANGED <<m_Exit, m_Mutex, closing, crashed, pc, queueVars, deviceVars>>

\* A call with no player is ignored.
RenderAudioFrame ==
  /\ m_AudioPlayerPlay
  /\ produced < MaxFrames
  /\ DecoderGoTo("run", "Rendering")
  /\ UNCHANGED <<m_Exit, m_Mutex, closing, crashed, pc, queueVars, playerVars, deviceVars>>

\* Mutant: the loop lets one frame too many in.
RenderWait_OffByOne ==
  /\ m_Mutex = "free"
  /\ Len(m_AudioFrameQueue) <= MAX_QUEUE_BUFFER_SIZE \/ m_Exit
  /\ DecoderGoTo("Rendering", "Push")
  /\ UNCHANGED <<m_Exit, m_Mutex, closing, crashed, pc, queueVars, playerVars, deviceVars>>

\* The loop of 15 ms sleeps ends.
RenderWait ==
  /\ m_Mutex = "free"
  /\ Len(m_AudioFrameQueue) < MAX_QUEUE_BUFFER_SIZE \/ m_Exit
  /\ DecoderGoTo("Rendering", "Push")
  /\ UNCHANGED <<m_Exit, m_Mutex, closing, crashed, pc, queueVars, playerVars, deviceVars>>

ClearsAfterPush ==
  IF clears = 2 /\ Len(m_AudioFrameQueue) + 1 < MAX_QUEUE_BUFFER_SIZE THEN 2 ELSE 0

\* Mutant: the frame before the one handed over is pushed.
RenderPush_Previous ==
  /\ m_Mutex = "free"
  /\ DecoderGoTo("Push", "run")
  /\ produced' = produced + 1
  /\ m_AudioFrameQueue' = Append(m_AudioFrameQueue, produced)
  /\ clears' = ClearsAfterPush
  /\ UNCHANGED <<m_Exit, m_Mutex, closing, crashed, pc, playerVars, deviceVars>>

RenderPush ==
  /\ m_Mutex = "free"
  /\ DecoderGoTo("Push", "run")
  /\ produced' = produced + 1
  /\ m_AudioFrameQueue' = Append(m_AudioFrameQueue, produced')
  /\ clears' = ClearsAfterPush
  /\ UNCHANGED <<m_Exit, m_Mutex, closing, crashed, pc, playerVars, deviceVars>>

ClearAudioCache ==
  /\ m_Mutex = "free"
  /\ DecoderGoTo("run", "run")
  /\ clears' = IF clears = 0 THEN 1 ELSE 2
  /\ m_AudioFrameQueue' = HalfCleared(m_AudioFrameQueue)
  /\ UNCHANGED <<m_Exit, m_Mutex, closing, crashed, pc, produced, playerVars, deviceVars>>

\* OnDecoderDone calls UnInit, after OnDecoderReady or without it.
OnDecoderDone ==
  /\ \/ DecoderGoTo("run", "StopPlay")
     \/ DecoderGoTo("start", "StopPlay")
  /\ closing' = TRUE
  /\ UNCHANGED <<m_Exit, m_Mutex, crashed, pc, queueVars, playerVars, deviceVars>>

UnInitStopPlay ==
  /\ DecoderGoTo("StopPlay", "SetExit")
  /\ m_AudioPlayerPlay' = FALSE
  /\ playing' = FALSE
  /\ UNCHANGED <<m_Exit, m_Mutex, closing, crashed, pc, queueVars, m_AudioPlayerObj,
                 device, due, heard, refused, destroyWaits>>

\* Mutant: m_Exit is set without the lock.
UnInitSetExit_Unlocked ==
  /\ DecoderGoTo("SetExit", "Destroy")
  /\ m_Exit' = TRUE
  /\ UNCHANGED <<m_Mutex, closing, crashed, pc, queueVars, playerVars, deviceVars>>

\* Mutant: m_Exit is not set.
UnInitSetExit_Forgotten ==
  /\ m_Mutex = "free"
  /\ DecoderGoTo("SetExit", "Destroy")
  /\ UNCHANGED <<m_Exit, m_Mutex, closing, crashed, pc, queueVars, playerVars, deviceVars>>

UnInitSetExit ==
  /\ m_Mutex = "free"
  /\ DecoderGoTo("SetExit", "Destroy")
  /\ m_Exit' = TRUE
  /\ UNCHANGED <<m_Mutex, closing, crashed, pc, queueVars, playerVars, deviceVars>>

UnInitDestroy ==
  /\ destroyWaits => pc["callback"] = "idle"
  /\ DecoderGoTo("Destroy", "Clear")
  /\ m_AudioPlayerObj' = IF m_AudioPlayerObj = "live" THEN "destroyed" ELSE m_AudioPlayerObj
  /\ device' = <<>>
  /\ playing' = FALSE
  /\ due' = 0
  /\ UNCHANGED <<m_Exit, m_Mutex, closing, crashed, pc, queueVars, m_AudioPlayerPlay, heard,
                 refused, destroyWaits>>

UnInitClear ==
  /\ m_Mutex = "free"
  /\ DecoderGoTo("Clear", "Join")
  /\ m_AudioFrameQueue' = HalfCleared(m_AudioFrameQueue)
  /\ UNCHANGED <<m_Exit, m_Mutex, closing, crashed, pc, produced, clears, playerVars,
                 deviceVars>>

UnInitJoin ==
  /\ pc["waiter"] = "absent"
  /\ DecoderGoTo("Join", IF closing THEN "done" ELSE "run")
  /\ UNCHANGED <<m_Exit, m_Mutex, closing, crashed, pc, queueVars, playerVars, deviceVars>>

-----------------------------------------------------------------------------
(* The waiting thread and the callback.                                    *)

Goes(t, step, next) == ~crashed /\ pc[t] = step /\ pc' = [pc EXCEPT ![t] = next]

QueueFilled == Len(m_AudioFrameQueue) >= MAX_QUEUE_BUFFER_SIZE

StartWait ==
  /\ m_Mutex = "free"
  /\ QueueFilled \/ m_Exit
  /\ Goes("waiter", "StartWait", "ReadPlay")
  /\ UNCHANGED <<m_Exit, m_Mutex, decoder, closing, crashed, queueVars, playerVars, deviceVars>>

\* The pointer is dereferenced whether it is null or not.
ReadPlay ==
  /\ Goes("waiter", "ReadPlay", "SetPlaying")
  /\ crashed' = ~m_AudioPlayerPlay
  /\ UNCHANGED <<m_Exit, m_Mutex, decoder, closing, queueVars, playerVars, deviceVars>>

\* A call on a destroyed player is undefined.
SetPlaying ==
  /\ Goes("waiter", "SetPlaying", "Handle")
  /\ playing' = (m_AudioPlayerObj = "live")
  /\ crashed' \in (IF m_AudioPlayerObj = "live" THEN {FALSE} ELSE BOOLEAN)
  /\ UNCHANGED <<m_Exit, m_Mutex, decoder, closing, queueVars, playerVars, device, due, heard,
                 refused, destroyWaits>>

\* Mutant: the waiting thread goes on feeding the player.
Finished_Again(t) == IF t = "waiter" THEN "Handle" ELSE "idle"

\* The waiting thread ends, the callback returns to OpenSL.
Finished(t) == IF t = "waiter" THEN "absent" ELSE "idle"

HandleAudioFrameQueue(t) ==
  /\ Goes(t, "Handle", IF m_AudioPlayerPlay THEN "HandleWait" ELSE Finished(t))
  /\ UNCHANGED <<m_Exit, m_Mutex, decoder, closing, crashed, queueVars, playerVars, deviceVars>>

\* Mutant: more frames than the cache can hold are waited for.
HandleWait_TooMany(t) ==
  /\ m_Mutex = "free"
  /\ Len(m_AudioFrameQueue) > MAX_QUEUE_BUFFER_SIZE \/ m_Exit
  /\ Goes(t, "HandleWait", "Lock")
  /\ UNCHANGED <<m_Exit, m_Mutex, decoder, closing, crashed, queueVars, playerVars, deviceVars>>

HandleWait(t) ==
  /\ m_Mutex = "free"
  /\ QueueFilled \/ m_Exit
  /\ Goes(t, "HandleWait", "Lock")
  /\ UNCHANGED <<m_Exit, m_Mutex, decoder, closing, crashed, queueVars, playerVars, deviceVars>>

HandleLock(t) ==
  /\ m_Mutex = "free"
  /\ m_Mutex' = t
  /\ Goes(t, "Lock", "Front")
  /\ UNCHANGED <<m_Exit, decoder, closing, crashed, queueVars, playerVars, deviceVars>>

\* front() of an empty queue is undefined: it may trap, or yield a wild pointer.
HandleFront(t) ==
  /\ Goes(t, "Front", IF m_AudioPlayerPlay THEN "Enqueue" ELSE Finished(t))
  /\ m_Mutex' = IF m_AudioPlayerPlay THEN t ELSE "free"
  /\ crashed' \in (IF m_AudioFrameQueue = <<>> THEN BOOLEAN ELSE {FALSE})
  /\ UNCHANGED <<m_Exit, decoder, closing, queueVars, playerVars, deviceVars>>

\* Mutant: the frame stays in the queue.
HandleEnqueue_KeepsFrame(t) ==
  /\ Goes(t, "Enqueue", Finished(t))
  /\ m_Mutex' = "free"
  /\ m_AudioFrameQueue # <<>>
  /\ Len(device) < DeviceSlots
  /\ device' = Append(device, Head(m_AudioFrameQueue))
  /\ UNCHANGED <<m_Exit, decoder, closing, crashed, queueVars, playerVars, playing, due, heard,
                 refused, destroyWaits>>

\* The frame leaves m_AudioFrameQueue only if OpenSL has taken it.  What front() of an empty
\* queue has yielded is null and passed over, or refused, or the process ends where it is read;
\* were it accepted, pop() of the empty queue would be undefined as well.
HandleEnqueue(t) ==
  /\ Goes(t, "Enqueue", Finished(t))
  /\ m_Mutex' = "free"
  /\ \/ /\ m_AudioFrameQueue # <<>>
        /\ Len(device) < DeviceSlots
        /\ device' = Append(device, Head(m_AudioFrameQueue))
        /\ m_AudioFrameQueue' = Tail(m_AudioFrameQueue)
        /\ UNCHANGED <<refused, crashed>>
     \/ /\ EnqueueMayFail \/ Len(device) >= DeviceSlots \/ m_AudioFrameQueue = <<>>
        /\ refused' = TRUE
        /\ UNCHANGED <<device, m_AudioFrameQueue, crashed>>
     \/ /\ m_AudioFrameQueue = <<>>
        /\ crashed' = TRUE
        /\ UNCHANGED <<device, m_AudioFrameQueue, refused>>
  /\ UNCHANGED <<m_Exit, decoder, closing, produced, clears, playerVars,
                 playing, due, heard, destroyWaits>>

-----------------------------------------------------------------------------
(* OpenSL.                                                                 *)

BufferFinished ==
  /\ ~crashed
  /\ playing
  /\ device # <<>>
  /\ heard' = Head(device)
  /\ device' = Tail(device)
  /\ due' = due + 1
  /\ UNCHANGED <<m_Exit, m_Mutex, decoder, closing, crashed, pc, queueVars, playerVars, playing, refused,
                 destroyWaits>>

CallBack ==
  /\ due > 0
  /\ due' = due - 1
  /\ Goes("callback", "idle", "Handle")
  /\ UNCHANGED <<m_Exit, m_Mutex, decoder, closing, crashed, queueVars, playerVars,
                 device, playing, heard, refused, destroyWaits>>

-----------------------------------------------------------------------------

\* What the decode thread does on its own once it is in a call.
DecoderCall ==
  \/ RenderWait \/ RenderPush
  \/ UnInitStopPlay \/ UnInitSetExit \/ UnInitDestroy \/ UnInitClear \/ UnInitJoin

Decoder ==
  \/ OutputInit \/ OutputInitFails
  \/ RenderAudioFrame \/ ClearAudioCache \/ OnDecoderDone
  \/ DecoderCall

Consumer(t) ==
  \/ HandleAudioFrameQueue(t) \/ HandleWait(t) \/ HandleLock(t)
  \/ HandleFront(t) \/ HandleEnqueue(t)

Waiter == StartWait \/ ReadPlay \/ SetPlaying \/ Consumer("waiter")

Device == BufferFinished \/ CallBack

Next == Decoder \/ Waiter \/ Consumer("callback") \/ Device

Spec == Init /\ [][Next]_vars

\* Threads are scheduled and a playing device plays; the decoder need not call.
FairSpec ==
  /\ Spec
  /\ WF_vars(DecoderCall)
  /\ WF_vars(Waiter)
  /\ WF_vars(Consumer("callback"))
  /\ WF_vars(Device)

-----------------------------------------------------------------------------
(* Safety.                                                                 *)

\* The cache never holds more frames than its limit, although the size is tested
\* in one critical section and the frame is pushed in another (lines 52-61).
QueueBounded == Len(m_AudioFrameQueue) <= MAX_QUEUE_BUFFER_SIZE

\* No buffer is given to a player that UnInit has destroyed: Destroy is behind the
\* critical section that sets m_Exit, and the test of the player is inside one
\* (lines 66-80 and 250-254).
EnqueueOnLivePlayer == \A t \in Consumers : pc[t] = "Enqueue" => m_AudioPlayerObj = "live"

\* What is given to OpenSL is a frame of the queue: between the wait for a full cache and
\* front() (lines 245-253) a clear cannot empty it, nor can several, unless two of them came
\* with no frame rendered in between.  Those can: two seeks leave one frame of three, then
\* none (lines 38-45), and front() of an empty queue is undefined.
EnqueueOnlyRealFrame ==
  \A t \in Consumers : pc[t] = "Enqueue" => m_AudioFrameQueue # <<>> \/ clears = 2

\* Frames are played in the order they were handed over, none of them twice: what
\* was heard, what OpenSL holds and what is queued are increasing (lines 253-258).
PlayedInOrder ==
  LET line == <<heard>> \o device \o m_AudioFrameQueue
  IN  \A i \in 1..(Len(line) - 1) : line[i] < line[i + 1]

\* One buffer is in flight at most: every Enqueue is the answer to the buffer
\* before it, so the second slot of the OpenSL queue is never used (lines 238-264).
Answering(t) == IF pc[t] \in {"absent", "idle"} THEN 0 ELSE 1
OneInFlight ==
  Len(device) + due + Answering("waiter") + Answering("callback") <= 1

\* The player is there when the waiting thread sets it going, as HandleAudioFrameQueue
\* tests before it uses it ("if (m_AudioPlayerPlay == nullptr) return", line 243).
PlayerWhenStarted == pc["waiter"] = "ReadPlay" => m_AudioPlayerPlay

-----------------------------------------------------------------------------
(* Liveness, under FairSpec.                                               *)

\* UnInit ends, whatever the waiting thread and the callback are doing: m_Exit is
\* set before Destroy waits for the callback and before the thread is joined.
UnInitEnds == (decoder \in UnInitSteps) ~> (decoder \in {"run", "done"} \/ crashed)

\* A frame handed over is accepted while OpenSL takes buffers: each one that is
\* finished makes room for the next (lines 52-54 and 245-258).
RenderReturnsUnlessRefused == (decoder = "Rendering") ~> (decoder = "run" \/ crashed \/ refused)
=============================================================================
