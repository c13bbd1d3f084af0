--------------------------- MODULE LogRedirection ---------------------------
(***************************************************************************)
(* The redirection of FFmpeg's logs and statistics to Java                 *)
(* (cpp/ffmpeg/ffmpegkit.c).  The threads that run sessions append to a    *)
(* list of callback data, a callback thread takes it from there and calls  *)
(* into Java, and any Java thread may switch the redirection on and off.   *)
(* A session counts its message after it has been appended, the callback   *)
(* thread discounts it after the Java call, and getAllLogs and             *)
(* getAllStatistics take a count of zero to mean that all has arrived.     *)
(*                                                                         *)
(* lockMutex protects the list and the flag in short sections, each of     *)
(* which is one step; everything else is a step per access.  A wait on     *)
(* monitorCondition ends after 100 ms at the latest, whether it is         *)
(* signalled or not: a notification only makes it shorter.                 *)
(***************************************************************************)
EXTENDS Integers, Sequences, FiniteSets

CONSTANTS
  Sessions,          \* session ids; 0 stands for threads that run no session
  SESSION_MAP_SIZE,
  CallbackThreads,
  Controllers,       \* Java threads that enable and disable redirection
  MaxMessages,       \* bound: messages of a session
  MaxEnables,        \* bound: enables that take effect after the first
  CreateMayFail      \* pthread_create or AttachCurrentThread may fail

ASSUME SessionsAssumption == Sessions \subseteq Nat
ASSUME MapSizeAssumption == SESSION_MAP_SIZE \in Nat \ {0}
ASSUME BoundsAssumption == MaxMessages \in Nat /\ MaxEnables \in Nat
ASSUME CreateAssumption == CreateMayFail \in BOOLEAN

VARIABLES
  callbackData,        \* the list from callbackDataHead to callbackDataTail
  redirectionEnabled,
  handlers,            \* the callbacks installed in libavutil and in fftools
  inTransit,           \* sessionInTransitMessageCountMap
  session,             \* the next step of the thread that runs each session
  generated,           \* messages each session has appended so far
  delivered,           \* what the Java session has received
  thread,              \* the next step of each callback thread
  data,                \* the callback data each callback thread holds
  control,             \* the next step of each controller
  enables              \* enables that have taken effect

sessionVars == <<session, generated>>
threadVars == <<thread, data>>
controlVars == <<redirectionEnabled, handlers, control, enables>>
vars == <<callbackData, inTransit, delivered, sessionVars, threadVars, controlVars>>

-----------------------------------------------------------------------------

Handlers == {"log", "statistics"}
Messages == [session : Sessions, n : 1..MaxMessages]
NoData == [session |-> 0, n |-> 0]
Slot(s) == s % SESSION_MAP_SIZE

SessionSteps == {"created", "running", "adding", "counting", "ended"}
ThreadSteps == {"absent", "attach", "test", "remove", "deliver", "uncount", "wait", "ended"}
ControlSteps == {"idle", "create", "installLog", "installStatistics", "uninstallLog",
                 "uninstallStatistics"}

TypeOK ==
  /\ callbackData \in Seq(Messages)
  /\ redirectionEnabled \in BOOLEAN
  /\ handlers \subseteq Handlers
  /\ inTransit \in [0..(SESSION_MAP_SIZE - 1) -> Int]
  /\ session \in [Sessions -> SessionSteps]
  /\ generated \in [Sessions -> 0..MaxMessages]
  /\ delivered \in [Sessions -> Seq(1..MaxMessages)]
  /\ thread \in [CallbackThreads -> ThreadSteps]
  /\ data \in [CallbackThreads -> Messages \union {NoData}]
  /\ control \in [Controllers -> ControlSteps]
  /\ enables \in 0..MaxEnables

\* The static initialiser of FFmpegKitConfig has enabled redirection.
Init ==
  /\ callbackData = <<>>
  /\ redirectionEnabled = TRUE
  /\ inTransit = [i \in 0..(SESSION_MAP_SIZE - 1) |-> 0]
  /\ session = [s \in Sessions |-> IF s = 0 THEN "running" ELSE "created"]
  /\ generated = [s \in Sessions |-> 0]
  /\ delivered = [s \in Sessions |-> <<>>]
  /\ \/ /\ handlers = Handlers
        /\ \E t \in CallbackThreads :
             thread = [u \in CallbackThreads |-> IF u = t THEN "attach" ELSE "absent"]
     \/ /\ CreateMayFail
        /\ handlers = {}
        /\ thread = [u \in CallbackThreads |-> "absent"]
  /\ data = [t \in CallbackThreads |-> NoData]
  /\ control = [c \in Controllers |-> "idle"]
  /\ enables = 0

-----------------------------------------------------------------------------
(* The threads that run sessions.                                          *)

SessionGoes(s, step, next) == session[s] = step /\ session' = [session EXCEPT ![s] = next]

\* nativeFFmpegExecute and nativeFFprobeExecute, up to the run itself.
ResetMessagesInTransmit(s) ==
  /\ SessionGoes(s, "created", "running")
  /\ inTransit' = [inTransit EXCEPT ![Slot(s)] = 0]
  /\ UNCHANGED <<callbackData, delivered, generated, threadVars, controlVars>>

\* A message is redirected if its handler is installed when it is emitted.
Emit(s, kind) ==
  /\ kind \in handlers
  /\ generated[s] < MaxMessages
  /\ SessionGoes(s, "running", "adding")
  /\ UNCHANGED <<callbackData, inTransit, delivered, generated, threadVars, controlVars>>

\* Mutant: the data is put at the head of the list.
CallbackDataAdd_AtHead(s) ==
  /\ SessionGoes(s, "adding", "counting")
  /\ generated' = [generated EXCEPT ![s] = @ + 1]
  /\ callbackData' = <<[session |-> s, n |-> generated'[s]]>> \o callbackData
  /\ UNCHANGED <<inTransit, delivered, threadVars, controlVars>>

CallbackDataAdd(s) ==
  /\ SessionGoes(s, "adding", "counting")
  /\ generated' = [generated EXCEPT ![s] = @ + 1]
  /\ callbackData' = Append(callbackData, [session |-> s, n |-> generated'[s]])
  /\ UNCHANGED <<inTransit, delivered, threadVars, controlVars>>

\* Mutant: the message is not counted.
CountMessage_Omitted(s) ==
  /\ SessionGoes(s, "counting", "running")
  /\ UNCHANGED <<callbackData, inTransit, delivered, generated, threadVars, controlVars>>

\* The notification and the count, after the list has been unlocked.
CountMessage(s) ==
  /\ SessionGoes(s, "counting", "running")
  /\ inTransit' = [inTransit EXCEPT ![Slot(s)] = @ + 1]
  /\ UNCHANGED <<callbackData, delivered, generated, threadVars, controlVars>>

EndExecution(s) ==
  /\ s # 0
  /\ SessionGoes(s, "running", "ended")
  /\ UNCHANGED <<callbackData, inTransit, delivered, generated, threadVars, controlVars>>

-----------------------------------------------------------------------------
(* The callback threads.                                                   *)

ThreadGoes(t, step, next) == thread[t] = step /\ thread' = [thread EXCEPT ![t] = next]

\* A thread that cannot attach ends, and leaves redirectionEnabled set.
AttachCurrentThread(t) ==
  /\ \/ ThreadGoes(t, "attach", "test")
     \/ CreateMayFail /\ ThreadGoes(t, "attach", "ended")
  /\ UNCHANGED <<callbackData, inTransit, delivered, data, sessionVars, controlVars>>

\* Mutant: the loop has no condition.
TestEnabled_Never(t) ==
  /\ ThreadGoes(t, "test", "remove")
  /\ UNCHANGED <<callbackData, inTransit, delivered, data, sessionVars, controlVars>>

TestEnabled(t) ==
  /\ ThreadGoes(t, "test", IF redirectionEnabled THEN "remove" ELSE "ended")
  /\ UNCHANGED <<callbackData, inTransit, delivered, data, sessionVars, controlVars>>

\* Mutant: the element taken stays in the list while another follows it.
CallbackDataRemove_Keeps(t) ==
  /\ ThreadGoes(t, "remove", IF callbackData = <<>> THEN "wait" ELSE "deliver")
  /\ data' = [data EXCEPT ![t] = IF callbackData = <<>> THEN NoData ELSE Head(callbackData)]
  /\ callbackData' = IF Len(callbackData) > 1 THEN callbackData ELSE <<>>
  /\ UNCHANGED <<inTransit, delivered, sessionVars, controlVars>>

\* Mutant: the test for an empty list is missing.
CallbackDataRemove_Untested(t) ==
  /\ ThreadGoes(t, "remove", "deliver")
  /\ data' = [data EXCEPT ![t] = IF callbackData = <<>> THEN NoData ELSE Head(callbackData)]
  /\ callbackData' = IF callbackData = <<>> THEN <<>> ELSE Tail(callbackData)
  /\ UNCHANGED <<inTransit, delivered, sessionVars, controlVars>>

CallbackDataRemove(t) ==
  /\ ThreadGoes(t, "remove", IF callbackData = <<>> THEN "wait" ELSE "deliver")
  /\ data' = [data EXCEPT ![t] = IF callbackData = <<>> THEN NoData ELSE Head(callbackData)]
  /\ callbackData' = IF callbackData = <<>> THEN <<>> ELSE Tail(callbackData)
  /\ UNCHANGED <<inTransit, delivered, sessionVars, controlVars>>

CallJava(t) ==
  /\ ThreadGoes(t, "deliver", "uncount")
  /\ delivered' = [delivered EXCEPT ![data[t].session] = Append(@, data[t].n)]
  /\ UNCHANGED <<callbackData, inTransit, data, sessionVars, controlVars>>

\* Mutant: the message is not discounted.
UncountMessage_Omitted(t) ==
  /\ ThreadGoes(t, "uncount", "test")
  /\ data' = [data EXCEPT ![t] = NoData]
  /\ UNCHANGED <<callbackData, inTransit, delivered, sessionVars, controlVars>>

UncountMessage(t) ==
  /\ ThreadGoes(t, "uncount", "test")
  /\ inTransit' = [inTransit EXCEPT ![Slot(data[t].session)] = @ - 1]
  /\ data' = [data EXCEPT ![t] = NoData]
  /\ UNCHANGED <<callbackData, delivered, sessionVars, controlVars>>

MonitorWait(t) ==
  /\ ThreadGoes(t, "wait", "test")
  /\ UNCHANGED <<callbackData, inTransit, delivered, data, sessionVars, controlVars>>

-----------------------------------------------------------------------------
(* Switching the redirection on and off.  A call that finds it as wanted   *)
(* changes nothing.                                                        *)

ControlGoes(c, step, next) == control[c] = step /\ control' = [control EXCEPT ![c] = next]

EnableNativeRedirection(c) ==
  /\ ~redirectionEnabled
  /\ enables < MaxEnables
  /\ enables' = enables + 1
  /\ redirectionEnabled' = TRUE
  /\ ControlGoes(c, "idle", "create")
  /\ UNCHANGED <<callbackData, inTransit, delivered, sessionVars, threadVars, handlers>>

\* When pthread_create fails, redirectionEnabled stays set and no handler is installed.
CreateCallbackThread(c) ==
  /\ \/ /\ \E t \in CallbackThreads : ThreadGoes(t, "absent", "attach")
        /\ ControlGoes(c, "create", "installLog")
     \/ /\ CreateMayFail
        /\ ControlGoes(c, "create", "idle")
        /\ UNCHANGED thread
  /\ UNCHANGED <<callbackData, inTransit, delivered, sessionVars, data,
                 redirectionEnabled, handlers, enables>>

InstallLog(c) ==
  /\ ControlGoes(c, "installLog", "installStatistics")
  /\ handlers' = handlers \union {"log"}
  /\ UNCHANGED <<callbackData, inTransit, delivered, sessionVars, threadVars,
                 redirectionEnabled, enables>>

InstallStatistics(c) ==
  /\ ControlGoes(c, "installStatistics", "idle")
  /\ handlers' = handlers \union {"statistics"}
  /\ UNCHANGED <<callbackData, inTransit, delivered, sessionVars, threadVars,
                 redirectionEnabled, enables>>

DisableNativeRedirection(c) ==
  /\ redirectionEnabled
  /\ redirectionEnabled' = FALSE
  /\ ControlGoes(c, "idle", "uninstallLog")
  /\ UNCHANGED <<callbackData, inTransit, delivered, sessionVars, threadVars, handlers, enables>>

UninstallLog(c) ==
  /\ ControlGoes(c, "uninstallLog", "uninstallStatistics")
  /\ handlers' = handlers \ {"log"}
  /\ UNCHANGED <<callbackData, inTransit, delivered, sessionVars, threadVars,
                 redirectionEnabled, enables>>

UninstallStatistics(c) ==
  /\ ControlGoes(c, "uninstallStatistics", "idle")
  /\ handlers' = handlers \ {"statistics"}
  /\ UNCHANGED <<callbackData, inTransit, delivered, sessionVars, threadVars,
                 redirectionEnabled, enables>>

-----------------------------------------------------------------------------

\* What a session does on its own once a handler has been called.
InHandler(s) == CallbackDataAdd(s) \/ CountMessage(s)

Session(s) ==
  \/ ResetMessagesInTransmit(s)
  \/ \E kind \in Handlers : Emit(s, kind)
  \/ InHandler(s)
  \/ EndExecution(s)

CallbackThread(t) ==
  \/ AttachCurrentThread(t) \/ TestEnabled(t) \/ CallbackDataRemove(t)
  \/ CallJava(t) \/ UncountMessage(t) \/ MonitorWait(t)

\* What a controller does on its own once it has changed redirectionEnabled.
Switching(c) ==
  \/ CreateCallbackThread(c) \/ InstallLog(c) \/ InstallStatistics(c)
  \/ UninstallLog(c) \/ UninstallStatistics(c)

Controller(c) == EnableNativeRedirection(c) \/ DisableNativeRedirection(c) \/ Switching(c)

Next ==
  \/ \E s \in Sessions : Session(s)
  \/ \E t \in CallbackThreads : CallbackThread(t)
  \/ \E c \in Controllers : Controller(c)

Spec == Init /\ [][Next]_vars

\* Threads are scheduled; nobody need emit a message, end a session or switch.
FairSpec ==
  /\ Spec
  /\ \A s \in Sessions : WF_vars(InHandler(s))
  /\ \A t \in CallbackThreads : WF_vars(CallbackThread(t))
  /\ \A c \in Controllers : WF_vars(Switching(c))

-----------------------------------------------------------------------------
(* Safety.                                                                 *)

Numbers(queue, s) == {m.n : m \in {queue[i] : i \in {j \in DOMAIN queue : queue[j].session = s}}}
Held(s) == {data[t].n : t \in {u \in CallbackThreads :
                                 thread[u] = "deliver" /\ data[u].session = s}}
Uncounted(s) == {t \in CallbackThreads :
                  thread[t] \in {"deliver", "uncount"} /\ data[t].session = s}
Arrived(s) == {delivered[s][i] : i \in DOMAIN delivered[s]}

\* Every message is in one place only: in the list, with a callback thread, or in
\* Java.  None is lost or delivered twice, although a disable followed by an enable
\* makes two callback threads empty the list (lines 355-382 and 524-562).
NothingLostOrDoubled ==
  \A s \in Sessions :
    LET queued == Numbers(callbackData, s)
    IN  /\ queued \union Held(s) \union Arrived(s) = 1..generated[s]
        /\ Cardinality(queued) + Cardinality(Held(s)) + Len(delivered[s]) = generated[s]

\* A session that has ended and has no message in transit has received all it
\* generated, which getAllLogs relies on: the count may be late while the session
\* runs, never after (ffmpegkit.c 290 and 550-553, AbstractSession 186-194).
AllArrivedAtZero ==
  \A s \in Sessions :
    session[s] = "ended" /\ inTransit[Slot(s)] = 0 => Len(delivered[s]) = generated[s]

\* The count that messagesInTransmit returns is the number of messages of the session
\* that were appended and not discounted, but for the one being counted (lines 290,
\* 550-553): the error never grows beyond one per message being logged.
CountLagsByOne ==
  \A s \in Sessions :
    inTransit[Slot(s)] - Cardinality(Numbers(callbackData, s)) - Cardinality(Uncounted(s))
      \in (IF session[s] = "counting" THEN {-1} ELSE {0})

Channel == INSTANCE MessageChannel WITH
  sent <- generated, received <- delivered, ordered <- (enables = 0)

\* A session and its Java object are the two ends of a channel that keeps the order
\* while redirection is enabled only once (lines 262-291 and 355-382).
ImplementsChannel == Channel!ChannelSpec

-----------------------------------------------------------------------------
(* Liveness, under FairSpec.                                               *)

Running(t) == thread[t] \notin {"absent", "ended"}

\* If redirection stays enabled and a callback thread could be started for it, all
\* that was generated arrives and every count settles at zero, what a disable left in
\* the list included (lines 524-562).
SettlesWhenEnabled ==
  <>[](redirectionEnabled /\ \E t \in CallbackThreads : Running(t))
    => <>[](\A s \in Sessions : Len(delivered[s]) = generated[s] /\ inTransit[Slot(s)] = 0)

\* If redirection stays disabled, every callback thread ends (lines 524 and 564-567).
ThreadsEndWhenDisabled ==
  <>[]~redirectionEnabled
    => <>[](\A t \in CallbackThreads : ~Running(t))
=============================================================================
