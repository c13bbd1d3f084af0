--------------------------- MODULE FFmpegSession ---------------------------
(***************************************************************************)
(* Running and cancelling FFmpeg sessions, from FFmpegKitConfig's          *)
(* ffmpegExecute down to the transcoding loop of fftools/ffmpeg.c, which   *)
(* this library runs as a function on any thread of the process.           *)
(*                                                                         *)
(* There are two ways to cancel.  FFmpegKit.cancel(id) writes into         *)
(* sessionMap, which a session reads when it is over.  FFmpegKit.cancel()  *)
(* calls the signal handler of the ffmpeg program, whose two variables are *)
(* shared by all sessions, and which each session that starts resets.      *)
(* Nothing is locked: every access to a shared variable is a step.         *)
(***************************************************************************)
EXTENDS Integers, FiniteSets

CONSTANTS
  Sessions,          \* session ids
  SESSION_MAP_SIZE,
  Threads,           \* threads that run sessions, one after the other
  Callers,           \* threads that call FFmpegKit.cancel()
  NoSession,         \* what an idle thread runs
  HARD_EXIT,         \* the handler ends the process above this many signals
  MaxSignals         \* bound: signals that are counted at the same time

ASSUME SessionsAssumption == Sessions \subseteq Nat \ {0} /\ NoSession \notin Sessions
ASSUME MapSizeAssumption == SESSION_MAP_SIZE \in Nat \ {0}
ASSUME SignalsAssumption == HARD_EXIT \in Nat /\ MaxSignals \in Nat

VARIABLES
  state,                \* of each Java session
  returnCode,           \* of each Java session
  sessionMap,           \* 0: free, 1: running, 2: cancel requested
  received_sigterm,     \* the handler has been called
  received_nb_signals,  \* how many times
  thread,               \* what each thread is doing, with its __thread variables
  caller,               \* the next step of each caller and the count it has loaded
  exited,               \* the process has ended
  grounds,              \* history: sessions with a reason to return CANCEL
  byId, bySignal        \* history: sessions cancelled while they ran, by a request
                        \* that nothing has overwritten since

javaVars == <<state, returnCode>>
signalVars == <<received_sigterm, received_nb_signals>>
historyVars == <<grounds, byId, bySignal>>
vars == <<javaVars, sessionMap, signalVars, thread, caller, exited, historyVars>>

-----------------------------------------------------------------------------

Slots == 0..SESSION_MAP_SIZE - 1
Slot(s) == s % SESSION_MAP_SIZE
Codes == {"SUCCESS", "ERROR", "CANCEL"}

\* Where a thread is while the session's id is in the map and its code is open.
Transcoding == {"open", "loop", "step"}
Cleaned == Transcoding \cup {"finish", "readSignals"}
Awaiting == Cleaned \cup {"clearSigterm", "clearSignals", "readCancel"}
ThreadSteps == Awaiting \cup {"idle", "register", "unregister", "return", "complete"}
CallerSteps == {"idle", "load", "store", "test"}

\* The sessions whose thread is at one of these steps.
SessionsAt(steps) == {s \in Sessions : \E t \in Threads : thread[t].session = s /\ thread[t].pc \in steps}
SameSlot(s) == {u \in Sessions : Slot(u) = Slot(s)}

Init ==
  /\ state = [s \in Sessions |-> "CREATED"]
  /\ returnCode = [s \in Sessions |-> "null"]
  /\ sessionMap = [k \in Slots |-> 0]
  /\ received_sigterm = FALSE
  /\ received_nb_signals = 0
  /\ thread = [t \in Threads |-> [pc |-> "idle", session |-> NoSession,
                                  longjmp_value |-> "SUCCESS", transcode_init_done |-> 0]]
  /\ caller = [c \in Callers |-> [pc |-> "idle", count |-> 0]]
  /\ exited = FALSE
  /\ grounds = {}
  /\ byId = {}
  /\ bySignal = {}

-----------------------------------------------------------------------------
(* Cancelling.                                                             *)

\* FFmpegKit.cancel(id), which AbstractSession.cancel calls as well once it has found
\* the session RUNNING: by now it may not have started or be over.
Cancel(s) ==
  /\ sessionMap' = [sessionMap EXCEPT ![Slot(s)] = 2]
  /\ grounds' = grounds \cup (SameSlot(s) \cap SessionsAt(Awaiting))
  /\ byId' = byId \cup ({s} \cap SessionsAt(Awaiting))
  /\ UNCHANGED <<javaVars, signalVars, thread, caller, exited, bySignal>>

\* FFmpegKit.cancel(): the handler writes its two variables one after the other, and
\* counts without an atomic increment.
Signal(c) ==
  /\ received_nb_signals < MaxSignals
  /\ caller[c].pc = "idle"
  /\ caller' = [caller EXCEPT ![c].pc = "load"]
  /\ received_sigterm' = TRUE
  /\ UNCHANGED <<javaVars, sessionMap, received_nb_signals, thread, exited, historyVars>>

LoadCount(c) ==
  /\ caller[c].pc = "load"
  /\ caller' = [caller EXCEPT ![c] = [pc |-> "store", count |-> received_nb_signals]]
  /\ UNCHANGED <<javaVars, sessionMap, signalVars, thread, exited, historyVars>>

StoreCount(c) ==
  /\ caller[c].pc = "store"
  /\ caller' = [caller EXCEPT ![c] = [pc |-> "test", count |-> 0]]
  /\ received_nb_signals' = caller[c].count + 1
  /\ grounds' = grounds \cup SessionsAt(Cleaned)
  /\ bySignal' = bySignal \cup SessionsAt(Cleaned)
  /\ UNCHANGED <<javaVars, sessionMap, received_sigterm, thread, exited, byId>>

TestLimit(c) ==
  /\ caller[c].pc = "test"
  /\ caller' = [caller EXCEPT ![c].pc = "idle"]
  /\ exited' = (received_nb_signals > HARD_EXIT)
  /\ UNCHANGED <<javaVars, sessionMap, signalVars, thread, historyVars>>

-----------------------------------------------------------------------------
(* Running a session.                                                      *)

Goes(t, from, to) == thread[t].pc = from /\ thread' = [thread EXCEPT ![t].pc = to]

Start(t, s) ==
  /\ thread[t].pc = "idle"
  /\ state[s] = "CREATED"
  /\ state' = [state EXCEPT ![s] = "RUNNING"]
  /\ thread' = [thread EXCEPT ![t].pc = "register", ![t].session = s]
  /\ UNCHANGED <<returnCode, sessionMap, signalVars, caller, exited, historyVars>>

\* An exception before the native call is left.
Fail(t) ==
  /\ thread[t].pc = "register"
  /\ state' = [state EXCEPT ![thread[t].session] = "FAILED"]
  /\ thread' = [thread EXCEPT ![t].pc = "idle", ![t].session = NoSession]
  /\ UNCHANGED <<returnCode, sessionMap, signalVars, caller, exited, historyVars>>

\* Mutant: registering counts instead of storing 1.
AddSession_Counts(t) ==
  /\ Goes(t, "register", "clearSigterm")
  /\ sessionMap' = [sessionMap EXCEPT ![Slot(thread[t].session)] = @ + 1]
  /\ byId' = byId \ SameSlot(thread[t].session)
  /\ UNCHANGED <<javaVars, signalVars, caller, exited, grounds, bySignal>>

AddSession(t) ==
  /\ Goes(t, "register", "clearSigterm")
  /\ sessionMap' = [sessionMap EXCEPT ![Slot(thread[t].session)] = 1]
  /\ byId' = byId \ SameSlot(thread[t].session)
  /\ UNCHANGED <<javaVars, signalVars, caller, exited, grounds, bySignal>>

\* ffmpeg_var_cleanup resets the signals of all sessions, and the tables of their files:
\* TablesLost.  Of the __thread variables, transcode_init_done keeps the value an earlier
\* session left.
ClearSigterm(t) ==
  /\ Goes(t, "clearSigterm", "clearSignals")
  /\ received_sigterm' = FALSE
  /\ UNCHANGED <<javaVars, sessionMap, received_nb_signals, caller, exited, historyVars>>

\* Mutant: the count of signals is not reset.
ClearSignals_Omitted(t) ==
  /\ thread[t].pc = "clearSignals"
  /\ thread' = [thread EXCEPT ![t].pc = "open", ![t].longjmp_value = "SUCCESS"]
  /\ bySignal' = {}
  /\ UNCHANGED <<javaVars, sessionMap, signalVars, caller, exited, grounds, byId>>

ClearSignals(t) ==
  /\ thread[t].pc = "clearSignals"
  /\ thread' = [thread EXCEPT ![t].pc = "open", ![t].longjmp_value = "SUCCESS"]
  /\ received_nb_signals' = 0
  /\ bySignal' = {}
  /\ UNCHANGED <<javaVars, sessionMap, received_sigterm, caller, exited, grounds, byId>>

\* exit_program: back to the setjmp of ffmpeg_execute with this value.
ExitProgram(t, value) ==
  thread' = [thread EXCEPT ![t].pc = "readSignals", ![t].longjmp_value = value]

\* Options are parsed, files opened and the transcoder set up, or something fails.
OpenFiles(t) ==
  /\ thread[t].pc = "open"
  /\ \/ thread' = [thread EXCEPT ![t].pc = "loop", ![t].transcode_init_done = 1]
     \/ ExitProgram(t, "ERROR")
  /\ UNCHANGED <<javaVars, sessionMap, signalVars, caller, exited, historyVars>>

\* The test of the main loop.  Without a signal the loop goes on or ends, because no
\* more output is needed or because the keyboard test finds a counted signal, which it
\* looks for or not according to the options of the latest session.
TestSigterm(t) ==
  /\ \E next \in IF received_sigterm THEN {"finish"} ELSE {"finish", "step"} : Goes(t, "loop", next)
  /\ UNCHANGED <<javaVars, sessionMap, signalVars, caller, exited, historyVars>>

TranscodeStep(t) ==
  /\ thread[t].pc = "step"
  /\ \/ \E next \in {"loop", "finish"} : thread' = [thread EXCEPT ![t].pc = next]
     \/ ExitProgram(t, "ERROR")
  /\ UNCHANGED <<javaVars, sessionMap, signalVars, caller, exited, historyVars>>

\* Mutant: one signal more is let pass.
Interrupt_OffByOne(t) ==
  /\ received_nb_signals > thread[t].transcode_init_done + 1
  /\ \/ thread[t].pc \in {"open", "step"} /\ ExitProgram(t, "ERROR")
     \/ Goes(t, "step", "loop")
  /\ UNCHANGED <<javaVars, sessionMap, signalVars, caller, exited, historyVars>>

\* decode_interrupt_cb ends an open or a read that would block, above the count of
\* signals that transcode_init_done lets pass: the open fails, and the read ends the
\* file it read, or the session if it has -xerror.
Interrupt(t) ==
  /\ received_nb_signals > thread[t].transcode_init_done
  /\ \/ thread[t].pc \in {"open", "step"} /\ ExitProgram(t, "ERROR")
     \/ Goes(t, "step", "loop")
  /\ UNCHANGED <<javaVars, sessionMap, signalVars, caller, exited, historyVars>>

\* The streams are flushed and closed, which is taken to end, and ffmpeg_execute calls
\* exit_program.
Finish(t) ==
  /\ thread[t].pc = "finish"
  /\ \/ ExitProgram(t, IF received_nb_signals > 0 THEN "CANCEL" ELSE "SUCCESS")
     \/ ExitProgram(t, "ERROR")
  /\ UNCHANGED <<javaVars, sessionMap, signalVars, caller, exited, historyVars>>

\* The tables of files, streams and filters are not __thread: the session of u that starts
\* resets them, and frees them as it ends, while that of t uses them.  The loop of t then ends
\* early, which TestSigterm and TranscodeStep allow at any time, or an access ends the process.
TablesLost(t, u) ==
  /\ t # u
  /\ thread[t].pc \in Transcoding \cup {"finish"}
  /\ thread[u].pc \in Cleaned
  /\ exited' = TRUE
  /\ UNCHANGED <<javaVars, sessionMap, signalVars, thread, caller, historyVars>>

ReadSignals(t) ==
  /\ thread[t].pc = "readSignals"
  /\ thread' = IF received_nb_signals > 0
                 THEN [thread EXCEPT ![t].pc = "unregister", ![t].longjmp_value = "CANCEL"]
                 ELSE [thread EXCEPT ![t].pc = "readCancel"]
  /\ UNCHANGED <<javaVars, sessionMap, signalVars, caller, exited, historyVars>>

\* Mutant: only the signals make the code CANCEL.
ReadCancel_Ignored(t) ==
  /\ Goes(t, "readCancel", "unregister")
  /\ UNCHANGED <<javaVars, sessionMap, signalVars, caller, exited, historyVars>>

ReadCancel(t) ==
  /\ thread[t].pc = "readCancel"
  /\ thread' = IF sessionMap[Slot(thread[t].session)] = 2
                 THEN [thread EXCEPT ![t].pc = "unregister", ![t].longjmp_value = "CANCEL"]
                 ELSE [thread EXCEPT ![t].pc = "unregister"]
  /\ UNCHANGED <<javaVars, sessionMap, signalVars, caller, exited, historyVars>>

RemoveSession(t) ==
  /\ Goes(t, "unregister", "return")
  /\ sessionMap' = [sessionMap EXCEPT ![Slot(thread[t].session)] = 0]
  /\ byId' = byId \ (SameSlot(thread[t].session) \ {thread[t].session})
  /\ UNCHANGED <<javaVars, signalVars, caller, exited, grounds, bySignal>>

SetReturnCode(t) ==
  /\ Goes(t, "return", "complete")
  /\ returnCode' = [returnCode EXCEPT ![thread[t].session] = thread[t].longjmp_value]
  /\ UNCHANGED <<state, sessionMap, signalVars, caller, exited, historyVars>>

\* The thread may run the next session; its longjmp_value is not read before that
\* session resets it, so that it need not be kept here.
Complete(t) ==
  /\ thread[t].pc = "complete"
  /\ state' = [state EXCEPT ![thread[t].session] = "COMPLETED"]
  /\ thread' = [thread EXCEPT ![t].pc = "idle", ![t].session = NoSession,
                               ![t].longjmp_value = "SUCCESS"]
  /\ UNCHANGED <<returnCode, sessionMap, signalVars, caller, exited, historyVars>>

-----------------------------------------------------------------------------

Handler(c) == LoadCount(c) \/ StoreCount(c) \/ TestLimit(c)

\* Steps that wait for nothing but the processor.
Compute(t) ==
  \/ AddSession(t) \/ ClearSigterm(t) \/ ClearSignals(t)
  \/ TestSigterm(t) \/ Interrupt(t) \/ Finish(t)
  \/ ReadSignals(t) \/ ReadCancel(t) \/ RemoveSession(t)
  \/ SetReturnCode(t) \/ Complete(t)

\* Steps that wait for the files or streams of the session.
Transfer(t) == OpenFiles(t) \/ TranscodeStep(t)

Next ==
  /\ ~exited
  /\ \/ \E s \in Sessions : Cancel(s)
     \/ \E c \in Callers : Signal(c) \/ Handler(c)
     \/ \E t \in Threads : Compute(t) \/ Transfer(t) \/ Fail(t)
     \/ \E t, u \in Threads : TablesLost(t, u)
     \/ \E t \in Threads, s \in Sessions : Start(t, s)

Spec == Init /\ [][Next]_vars

Running(A) == ~exited /\ A

\* The threads are scheduled, but a file or a stream may never answer.
FairSpec ==
  /\ Spec
  /\ \A t \in Threads : WF_vars(Running(Compute(t)))
  /\ \A c \in Callers : WF_vars(Running(Handler(c)))

\* Every file and stream answers, if only with an error or with more data for ever.
AnsweringSpec == FairSpec /\ \A t \in Threads : WF_vars(Running(Transfer(t)))

-----------------------------------------------------------------------------
(* Safety.                                                                 *)

\* Every variable is in its range, and a thread runs a session exactly when it is not
\* idle.
TypeOK ==
  /\ state \in [Sessions -> {"CREATED", "RUNNING", "COMPLETED", "FAILED"}]
  /\ returnCode \in [Sessions -> Codes \cup {"null"}]
  /\ sessionMap \in [Slots -> 0..2]
  /\ received_sigterm \in BOOLEAN
  /\ received_nb_signals \in Nat
  /\ thread \in [Threads -> [pc : ThreadSteps, session : Sessions \cup {NoSession},
                             longjmp_value : Codes, transcode_init_done : 0..1]]
  /\ \A t \in Threads : thread[t].session = NoSession <=> thread[t].pc = "idle"
  /\ caller \in [Callers -> [pc : CallerSteps, count : Nat]]
  /\ exited \in BOOLEAN
  /\ grounds \subseteq Sessions /\ byId \subseteq Sessions /\ bySignal \subseteq Sessions

\* A request made while the session ran, and overwritten neither by a session of the
\* same slot nor by the start of another session, shows in the return code (lines
\* 5110-5112 of ffmpeg.c, 347-423 of ffmpegkit.c).
CancelReported ==
  \A s \in byId \cup bySignal : state[s] = "COMPLETED" => returnCode[s] = "CANCEL"

\* cancel(id) is forwarded only to a RUNNING session (AbstractSession, 294-298): it is
\* RUNNING all the time a request by its id would be heard.
HeardWhileRunning == \A s \in SessionsAt(Awaiting) : state[s] = "RUNNING"

Contract == INSTANCE SessionContract WITH asked <- grounds

\* A session does what Session.java says of its state and return code, whatever else
\* runs: in particular CANCEL is never left over from a request made earlier.
ImplementsContract == Contract!ContractSpec

-----------------------------------------------------------------------------
(* Liveness.                                                               *)

\* Under FairSpec two calls of cancel() end what a session is doing, even when its
\* input never answers, unless a session that starts resets them (ffmpeg.c, 513-515).
TwoSignalsStop ==
  \A t \in Threads :
    (thread[t].pc \in Transcoding /\ received_sigterm /\ received_nb_signals > 1)
      ~> (thread[t].pc \notin Transcoding \/ ~received_sigterm \/ received_nb_signals < 2 \/ exited)

\* Under AnsweringSpec: a session that is cancelled by its id stops.  FFmpegKit.java:278
\* says so of cancel(sessionId).
CancelledStops ==
  \A t \in Threads :
    (thread[t].pc \in Transcoding /\ thread[t].session \in byId)
      ~> (thread[t].pc \notin Transcoding \/ thread[t].session \notin byId \/ exited)
=============================================================================
