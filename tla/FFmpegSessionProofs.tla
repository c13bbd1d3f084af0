------------------------- MODULE FFmpegSessionProofs -------------------------
(***************************************************************************)
(* Proofs about FFmpegSession, for any number of sessions, threads and     *)
(* callers and every size of the session map.                              *)
(***************************************************************************)
EXTENDS FFmpegSession, TLAPS

USE DEF javaVars, signalVars, historyVars, Goes, ExitProgram

\* Every session has its slot in the map.
LEMMA SlotInMap == \A s \in Sessions : Slot(s) \in Slots
BY SessionsAssumption, MapSizeAssumption DEF Slot, Slots

\* The map after one of its slots has been written.
LEMMA MapWritten ==
  ASSUME NEW f \in [Slots -> 0..2], NEW s \in Sessions, NEW v \in 0..2
  PROVE  /\ [f EXCEPT ![Slot(s)] = v] \in [Slots -> 0..2]
         /\ \A u \in Sessions : [f EXCEPT ![Slot(s)] = v][Slot(u)]
                                  = IF u \in SameSlot(s) THEN v ELSE f[Slot(u)]
<1> DEFINE g == [f EXCEPT ![Slot(s)] = v]
<1>1. g \in [Slots -> 0..2]
  OBVIOUS
<1>2. ASSUME NEW u \in Sessions
      PROVE  g[Slot(u)] = IF u \in SameSlot(s) THEN v ELSE f[Slot(u)]
  <2> Slot(u) \in Slots /\ Slot(s) \in Slots
    BY SlotInMap
  <2> u \in SameSlot(s) <=> Slot(u) = Slot(s)
    BY DEF SameSlot
  <2> HIDE DEF Slot, SameSlot
  <2> QED
    OBVIOUS
<1> QED
  BY <1>1, <1>2

-----------------------------------------------------------------------------
(* The threads.  The proofs below use only what these lemmas say of a step. *)

ThreadRecord == [pc : ThreadSteps, session : Sessions \cup {NoSession},
                 longjmp_value : Codes, transcode_init_done : 0..1]

ThreadsOK(f) ==
  /\ f \in [Threads -> ThreadRecord]
  /\ \A t \in Threads : f[t].session = NoSession <=> f[t].pc = "idle"

\* Thread t, busy with a session, goes on with it at step p with the value v.
Moves(t, p, v) ==
  /\ ThreadsOK(thread')
  /\ thread'[t].pc = p
  /\ thread'[t].session = thread[t].session
  /\ thread[t].session \in Sessions
  /\ thread'[t].longjmp_value = v
  /\ \A u \in Threads \ {t} : thread'[u] = thread[u]

LEMMA TypedThreads == TypeOK => ThreadsOK(thread)
BY DEF TypeOK, ThreadsOK, ThreadRecord

LEMMA Busy ==
  ASSUME TypeOK, NEW t \in Threads, thread[t].pc # "idle"
  PROVE  thread[t].session \in Sessions /\ thread[t].longjmp_value \in Codes
BY DEF TypeOK

\* The three ways in which an action writes a thread that keeps its session.
LEMMA Moved ==
  ASSUME TypeOK, NEW t \in Threads, thread[t].pc # "idle",
         NEW p \in ThreadSteps \ {"idle"}, NEW v \in Codes,
         \/ thread' = [thread EXCEPT ![t].pc = p] /\ v = thread[t].longjmp_value
         \/ thread' = [thread EXCEPT ![t].pc = p, ![t].longjmp_value = v]
         \/ /\ thread' = [thread EXCEPT ![t].pc = p, ![t].transcode_init_done = 1]
            /\ v = thread[t].longjmp_value
  PROVE  Moves(t, p, v)
<1>0. ThreadsOK(thread) /\ thread[t].session \in Sessions
  BY TypedThreads, Busy
<1>1. thread[t] \in ThreadRecord /\ thread[t].session # NoSession
  BY <1>0 DEF ThreadsOK
<1> DEFINE Changed(r) == /\ thread' = [thread EXCEPT ![t] = r]
                         /\ r \in ThreadRecord
                         /\ r.pc = p /\ r.session = thread[t].session /\ r.longjmp_value = v
<1>2. ASSUME NEW r, Changed(r)
      PROVE  Moves(t, p, v)
  BY <1>0, <1>1, <1>2 DEF ThreadsOK, Moves
<1>3. CASE thread' = [thread EXCEPT ![t].pc = p] /\ v = thread[t].longjmp_value
  <2>1. Changed([thread[t] EXCEPT !.pc = p])
    BY <1>0, <1>1, <1>3 DEF ThreadsOK, ThreadRecord
  <2> QED
    BY <1>2, <2>1
<1>4. CASE thread' = [thread EXCEPT ![t].pc = p, ![t].longjmp_value = v]
  <2>1. Changed([thread[t] EXCEPT !.pc = p, !.longjmp_value = v])
    BY <1>0, <1>1, <1>4 DEF ThreadsOK, ThreadRecord
  <2> QED
    BY <1>2, <2>1
<1>5. CASE /\ thread' = [thread EXCEPT ![t].pc = p, ![t].transcode_init_done = 1]
           /\ v = thread[t].longjmp_value
  <2> DEFINE r == [thread[t] EXCEPT !.pc = p, !.transcode_init_done = 1]
  <2> DEFINE d == 1
  <2>0. d \in 0..1
    OBVIOUS
  <2>1. r \in ThreadRecord /\ r.pc = p /\ r.session = thread[t].session /\ r.longjmp_value = v
    <3> r = [thread[t] EXCEPT !.pc = p, !.transcode_init_done = d]
      OBVIOUS
    <3> HIDE DEF d
    <3> QED
      BY <1>1, <1>5, <2>0 DEF ThreadRecord
  <2>2. thread' = [thread EXCEPT ![t] = r]
    BY <1>0, <1>1, <1>5 DEF ThreadsOK, ThreadRecord
  <2>3. Changed(r)
    BY <2>1, <2>2
  <2> QED
    BY <1>2, <2>3
<1> QED
  BY <1>3, <1>4, <1>5

LEMMA StepSets ==
  /\ Cleaned \subseteq ThreadSteps \ {"idle"}
  /\ {"clearSigterm", "clearSignals", "readCancel", "unregister", "return", "complete"}
       \subseteq ThreadSteps \ {"idle"}
  /\ {"register", "idle"} \subseteq ThreadSteps
  /\ {"open", "loop", "step", "finish", "readSignals"} \subseteq Cleaned
  /\ {"SUCCESS", "ERROR", "CANCEL"} \subseteq Codes
BY DEF ThreadSteps, Awaiting, Cleaned, Transcoding, Codes

\* From opening its files to the end of its work a session only moves among the steps
\* of Cleaned, and decides for CANCEL only when it sees a signal counted.
Works(t) ==
  \/ OpenFiles(t) \/ TestSigterm(t) \/ TranscodeStep(t) \/ Interrupt(t) \/ Finish(t)

LEMMA Working ==
  ASSUME TypeOK, NEW t \in Threads, Works(t)
  PROVE  /\ thread[t].pc \in Cleaned
         /\ \E p \in Cleaned, v \in Codes :
              /\ Moves(t, p, v)
              /\ v = "CANCEL" => received_nb_signals > 0 \/ thread[t].longjmp_value = "CANCEL"
         /\ UNCHANGED <<javaVars, sessionMap, signalVars, caller, exited, historyVars>>
<1>1. CASE OpenFiles(t)
  <2>1. thread[t].pc = "open"
    BY <1>1 DEF OpenFiles
  <2>2. Moves(t, "loop", thread[t].longjmp_value) \/ Moves(t, "readSignals", "ERROR")
    BY <1>1, <2>1, Busy, Moved, StepSets DEF OpenFiles
  <2> QED
    BY <1>1, <2>1, <2>2, Busy, StepSets DEF OpenFiles
<1>2. CASE TestSigterm(t)
  <2>1. thread[t].pc = "loop"
    BY <1>2 DEF TestSigterm
  <2>2. Moves(t, "finish", thread[t].longjmp_value) \/ Moves(t, "step", thread[t].longjmp_value)
    BY <1>2, <2>1, Busy, Moved, StepSets DEF TestSigterm
  <2> QED
    BY <1>2, <2>1, <2>2, Busy, StepSets DEF TestSigterm
<1>3. CASE TranscodeStep(t)
  <2>1. thread[t].pc = "step"
    BY <1>3 DEF TranscodeStep
  <2>2. \/ Moves(t, "loop", thread[t].longjmp_value)
        \/ Moves(t, "finish", thread[t].longjmp_value)
        \/ Moves(t, "readSignals", "ERROR")
    BY <1>3, <2>1, Busy, Moved, StepSets DEF TranscodeStep
  <2> QED
    BY <1>3, <2>1, <2>2, Busy, StepSets DEF TranscodeStep
<1>4. CASE Interrupt(t)
  <2>1. thread[t].pc \in {"open", "step"}
    BY <1>4 DEF Interrupt
  <2>2. Moves(t, "loop", thread[t].longjmp_value) \/ Moves(t, "readSignals", "ERROR")
    BY <1>4, <2>1, Busy, Moved, StepSets DEF Interrupt
  <2> QED
    BY <1>4, <2>1, <2>2, Busy, StepSets DEF Interrupt
<1>5. CASE Finish(t)
  <2>1. thread[t].pc = "finish"
    BY <1>5 DEF Finish
  <2>2. \/ Moves(t, "readSignals", "CANCEL") /\ received_nb_signals > 0
        \/ Moves(t, "readSignals", "SUCCESS")
        \/ Moves(t, "readSignals", "ERROR")
    BY <1>5, <2>1, Busy, Moved, StepSets DEF Finish
  <2> QED
    BY <1>5, <2>1, <2>2, Busy, StepSets DEF Finish
<1> QED
  BY <1>1, <1>2, <1>3, <1>4, <1>5 DEF Works

\* The other steps of a thread with its session.
LEMMA Passing ==
  ASSUME TypeOK, NEW t \in Threads
  PROVE  /\ AddSession(t) => Moves(t, "clearSigterm", thread[t].longjmp_value)
         /\ ClearSigterm(t) => Moves(t, "clearSignals", thread[t].longjmp_value)
         /\ ClearSignals(t) => Moves(t, "open", "SUCCESS")
         /\ ReadSignals(t) => \/ received_nb_signals > 0 /\ Moves(t, "unregister", "CANCEL")
                              \/ /\ ~(received_nb_signals > 0)
                                 /\ Moves(t, "readCancel", thread[t].longjmp_value)
         /\ ReadCancel(t) =>
              \/ /\ sessionMap[Slot(thread[t].session)] = 2
                 /\ Moves(t, "unregister", "CANCEL")
              \/ /\ sessionMap[Slot(thread[t].session)] # 2
                 /\ Moves(t, "unregister", thread[t].longjmp_value)
         /\ RemoveSession(t) => Moves(t, "return", thread[t].longjmp_value)
         /\ SetReturnCode(t) => Moves(t, "complete", thread[t].longjmp_value)
<1>1. AddSession(t) => Moves(t, "clearSigterm", thread[t].longjmp_value)
  BY Busy, Moved, StepSets DEF AddSession
<1>2. ClearSigterm(t) => Moves(t, "clearSignals", thread[t].longjmp_value)
  BY Busy, Moved, StepSets DEF ClearSigterm
<1>3. ClearSignals(t) => Moves(t, "open", "SUCCESS")
  BY Busy, Moved, StepSets DEF ClearSignals
<1>4. ASSUME ReadSignals(t)
      PROVE  \/ received_nb_signals > 0 /\ Moves(t, "unregister", "CANCEL")
             \/ /\ ~(received_nb_signals > 0)
                /\ Moves(t, "readCancel", thread[t].longjmp_value)
  BY <1>4, Busy, Moved, StepSets DEF ReadSignals
<1>5. ASSUME ReadCancel(t)
      PROVE  \/ /\ sessionMap[Slot(thread[t].session)] = 2
                /\ Moves(t, "unregister", "CANCEL")
             \/ /\ sessionMap[Slot(thread[t].session)] # 2
                /\ Moves(t, "unregister", thread[t].longjmp_value)
  BY <1>5, Busy, Moved, StepSets DEF ReadCancel
<1>6. RemoveSession(t) => Moves(t, "return", thread[t].longjmp_value)
  BY Busy, Moved, StepSets DEF RemoveSession
<1>7. SetReturnCode(t) => Moves(t, "complete", thread[t].longjmp_value)
  BY Busy, Moved, StepSets DEF SetReturnCode
<1> QED
  BY <1>1, <1>2, <1>3, <1>4, <1>5, <1>6, <1>7

\* A thread takes a session up, and lays it down.
LEMMA Beginning ==
  ASSUME TypeOK, NEW t \in Threads, NEW s \in Sessions, Start(t, s)
  PROVE  /\ ThreadsOK(thread')
         /\ thread'[t] = [thread[t] EXCEPT !.pc = "register", !.session = s]
         /\ thread'[t].pc = "register" /\ thread'[t].session = s
         /\ thread'[t].longjmp_value = thread[t].longjmp_value
         /\ \A u \in Threads \ {t} : thread'[u] = thread[u]
BY TypedThreads, StepSets, SessionsAssumption DEF Start, ThreadsOK, ThreadRecord

LEMMA Ending ==
  ASSUME TypeOK, NEW t \in Threads, Fail(t) \/ Complete(t)
  PROVE  /\ ThreadsOK(thread')
         /\ thread[t].session \in Sessions
         /\ thread'[t].pc = "idle" /\ thread'[t].session = NoSession
         /\ thread'[t].longjmp_value \in {thread[t].longjmp_value, "SUCCESS"}
         /\ \A u \in Threads \ {t} : thread'[u] = thread[u]
<1> ThreadsOK(thread)
  BY TypedThreads
<1>1. CASE Fail(t)
  BY <1>1, Busy, StepSets DEF Fail, ThreadsOK, ThreadRecord
<1>2. CASE Complete(t)
  BY <1>2, Busy, StepSets DEF Complete, ThreadsOK, ThreadRecord
<1> QED
  BY <1>1, <1>2

-----------------------------------------------------------------------------
(* Types.                                                                  *)

LEMMA TypeFromThreads ==
  ASSUME ThreadsOK(thread')
  PROVE  /\ thread' \in [Threads -> [pc : ThreadSteps, session : Sessions \cup {NoSession},
                                     longjmp_value : Codes, transcode_init_done : 0..1]]
         /\ \A t \in Threads : thread'[t].session = NoSession <=> thread'[t].pc = "idle"
BY DEF ThreadsOK, ThreadRecord

LEMMA TypeInit == Init => TypeOK
<1> SUFFICES ASSUME Init
             PROVE  TypeOK
  OBVIOUS
<1>1. /\ state \in [Sessions -> {"CREATED", "RUNNING", "COMPLETED", "FAILED"}]
      /\ returnCode \in [Sessions -> Codes \cup {"null"}]
      /\ sessionMap \in [Slots -> 0..2]
  BY DEF Init
<1>2. caller \in [Callers -> [pc : CallerSteps, count : Nat]]
  BY DEF Init, CallerSteps
<1>3. ThreadsOK(thread)
  BY StepSets DEF Init, ThreadsOK, ThreadRecord
<1> QED
  BY <1>1, <1>2, <1>3 DEF Init, TypeOK, ThreadsOK, ThreadRecord

LEMMA TypeStep == TypeOK /\ [Next]_vars => TypeOK'
<1> SUFFICES ASSUME TypeOK, [Next]_vars
             PROVE  TypeOK'
  OBVIOUS
<1> USE DEF TypeOK
<1>1. ASSUME NEW s \in Sessions, Cancel(s)
      PROVE  TypeOK'
  BY <1>1, MapWritten DEF Cancel, SessionsAt, SameSlot
<1>2. ASSUME NEW c \in Callers, Signal(c)
      PROVE  TypeOK'
  BY <1>2 DEF Signal, CallerSteps
<1>3. ASSUME NEW c \in Callers, LoadCount(c)
      PROVE  TypeOK'
  BY <1>3 DEF LoadCount, CallerSteps
<1>4. ASSUME NEW c \in Callers, StoreCount(c)
      PROVE  TypeOK'
  BY <1>4 DEF StoreCount, SessionsAt, CallerSteps
<1>5. ASSUME NEW c \in Callers, TestLimit(c)
      PROVE  TypeOK'
  BY <1>5 DEF TestLimit, CallerSteps
<1>6. ASSUME NEW t \in Threads, NEW s \in Sessions, Start(t, s)
      PROVE  TypeOK'
  <2>1. ThreadsOK(thread')
    BY <1>6, Beginning
  <2> QED
    BY <1>6, <2>1, TypeFromThreads DEF Start
<1>7. ASSUME NEW t \in Threads, Fail(t)
      PROVE  TypeOK'
  <2>1. ThreadsOK(thread') /\ thread[t].session \in Sessions
    BY <1>7, Ending
  <2> QED
    BY <1>7, <2>1, TypeFromThreads DEF Fail
<1>8. ASSUME NEW t \in Threads, Complete(t)
      PROVE  TypeOK'
  <2>1. ThreadsOK(thread') /\ thread[t].session \in Sessions
    BY <1>8, Ending
  <2> QED
    BY <1>8, <2>1, TypeFromThreads DEF Complete
<1>9. ASSUME NEW t \in Threads, AddSession(t)
      PROVE  TypeOK'
  <2>1. ThreadsOK(thread') /\ thread[t].session \in Sessions
    BY <1>9, Passing DEF Moves
  <2>2. sessionMap' \in [Slots -> 0..2]
    BY <1>9, <2>1, MapWritten DEF AddSession
  <2> QED
    BY <1>9, <2>1, <2>2, TypeFromThreads DEF AddSession, SameSlot
<1>10. ASSUME NEW t \in Threads, ClearSigterm(t)
       PROVE  TypeOK'
  <2>1. ThreadsOK(thread')
    BY <1>10, Passing DEF Moves
  <2> QED
    BY <1>10, <2>1, TypeFromThreads DEF ClearSigterm
<1>11. ASSUME NEW t \in Threads, ClearSignals(t)
       PROVE  TypeOK'
  <2>1. ThreadsOK(thread')
    BY <1>11, Passing DEF Moves
  <2> QED
    BY <1>11, <2>1, TypeFromThreads DEF ClearSignals
<1>12. ASSUME NEW t \in Threads, Works(t)
       PROVE  TypeOK'
  <2>1. ThreadsOK(thread')
    BY <1>12, Working DEF Moves
  <2>2. UNCHANGED <<javaVars, sessionMap, signalVars, caller, exited, historyVars>>
    BY <1>12, Working
  <2> QED
    BY <2>1, <2>2, TypeFromThreads
<1>13. ASSUME NEW t \in Threads, ReadSignals(t)
       PROVE  TypeOK'
  <2>1. ThreadsOK(thread')
    BY <1>13, Passing DEF Moves
  <2> QED
    BY <1>13, <2>1, TypeFromThreads DEF ReadSignals
<1>14. ASSUME NEW t \in Threads, ReadCancel(t)
       PROVE  TypeOK'
  <2>1. ThreadsOK(thread')
    BY <1>14, Passing DEF Moves
  <2> QED
    BY <1>14, <2>1, TypeFromThreads DEF ReadCancel
<1>15. ASSUME NEW t \in Threads, RemoveSession(t)
       PROVE  TypeOK'
  <2>1. ThreadsOK(thread') /\ thread[t].session \in Sessions
    BY <1>15, Passing DEF Moves
  <2>2. sessionMap' \in [Slots -> 0..2]
    BY <1>15, <2>1, MapWritten DEF RemoveSession
  <2> QED
    BY <1>15, <2>1, <2>2, TypeFromThreads DEF RemoveSession
<1>16. ASSUME NEW t \in Threads, SetReturnCode(t)
       PROVE  TypeOK'
  <2>1. ThreadsOK(thread') /\ thread[t].longjmp_value \in Codes
    BY <1>16, Passing DEF Moves, SetReturnCode
  <2> QED
    BY <1>16, <2>1, TypeFromThreads DEF SetReturnCode
<1>17. ASSUME NEW t \in Threads, NEW u \in Threads, TablesLost(t, u)
      PROVE  TypeOK'
  BY <1>17 DEF TablesLost
<1>18. CASE UNCHANGED vars
  BY <1>18 DEF vars
<1> QED
  BY <1>1, <1>2, <1>3, <1>4, <1>5, <1>6, <1>7, <1>8, <1>9, <1>10, <1>11, <1>12, <1>13, <1>14,
     <1>15, <1>16, <1>17, <1>18 DEF Next, Handler, Compute, Transfer, Works

\* Every variable keeps its range, and a thread its session while it is not idle.
THEOREM TypeCorrect == Spec => []TypeOK
BY TypeInit, TypeStep, PTL DEF Spec

-----------------------------------------------------------------------------
(* What a thread and its Java session know of each other.                  *)

\* No two threads run the same session, a session that runs is RUNNING, and it has no
\* return code before its thread is about to complete it.
Executed ==
  /\ \A t, u \in Threads : thread[t].session = thread[u].session /\ t # u
                             => thread[t].session = NoSession
  /\ \A t \in Threads : thread[t].pc # "idle" => state[thread[t].session] = "RUNNING"
  /\ \A s \in Sessions : state[s] = "CREATED" => returnCode[s] = "null"
  /\ \A t \in Threads : thread[t].pc \notin {"idle", "complete"}
                          => returnCode[thread[t].session] = "null"
  /\ \A t \in Threads : thread[t].pc = "complete"
                          => returnCode[thread[t].session] = thread[t].longjmp_value

LEMMA CleanedOnly ==
  Cleaned \cap {"idle", "register", "clearSigterm", "clearSignals", "readCancel",
                "unregister", "return", "complete"} = {}
BY DEF Cleaned, Transcoding

\* A step of a thread with its session, before it has set the return code.
LEMMA ExecutedMoves ==
  ASSUME TypeOK, Executed, NEW t \in Threads, NEW p, NEW v, Moves(t, p, v),
         thread[t].pc # "complete", p \notin {"idle", "complete"}, UNCHANGED javaVars
  PROVE  Executed'
<1> USE DEF Executed, Moves
<1>1. thread[t].pc # "idle" /\ thread[t].session # NoSession
  BY SessionsAssumption DEF TypeOK
<1>2. \A u \in Threads : thread'[u].session = thread[u].session
  OBVIOUS
<1>3. \A u \in Threads : u # t => thread'[u] = thread[u]
  OBVIOUS
<1>4. \A u \in Threads : thread'[u].pc # "idle" => state'[thread'[u].session] = "RUNNING"
  BY <1>1, <1>2, <1>3
<1>5. \A u \in Threads : thread'[u].pc \notin {"idle", "complete"}
                           => returnCode'[thread'[u].session] = "null"
  BY <1>1, <1>2, <1>3
<1>6. \A u \in Threads : thread'[u].pc = "complete"
                           => returnCode'[thread'[u].session] = thread'[u].longjmp_value
  BY <1>1, <1>2, <1>3
<1> QED
  BY <1>2, <1>4, <1>5, <1>6

LEMMA ExecutedStep ==
  ASSUME TypeOK, Executed, [Next]_vars
  PROVE  Executed'
<1> USE DEF TypeOK, Executed
<1>1. ASSUME NEW s \in Sessions, Cancel(s)
      PROVE  Executed'
  BY <1>1 DEF Cancel
<1>2. ASSUME NEW c \in Callers, Signal(c)
      PROVE  Executed'
  BY <1>2 DEF Signal
<1>3. ASSUME NEW c \in Callers, LoadCount(c)
      PROVE  Executed'
  BY <1>3 DEF LoadCount
<1>4. ASSUME NEW c \in Callers, StoreCount(c)
      PROVE  Executed'
  BY <1>4 DEF StoreCount
<1>5. ASSUME NEW c \in Callers, TestLimit(c)
      PROVE  Executed'
  BY <1>5 DEF TestLimit
<1>6. ASSUME NEW t \in Threads, NEW s \in Sessions, Start(t, s)
      PROVE  Executed'
  <2>0. /\ thread'[t].pc = "register" /\ thread'[t].session = s
        /\ \A u \in Threads \ {t} : thread'[u] = thread[u]
    BY <1>6, Beginning
  <2>1. /\ thread'[t].pc = "register" /\ thread'[t].session = s
        /\ \A u \in Threads \ {t} : thread'[u] = thread[u]
        /\ state[s] = "CREATED" /\ returnCode[s] = "null" /\ returnCode' = returnCode
        /\ state' = [state EXCEPT ![s] = "RUNNING"]
    BY <1>6, <2>0 DEF Start
  <2>2. \A u \in Threads : thread[u].session # s
    BY <2>1, SessionsAssumption
  <2>3. \A u, w \in Threads : thread'[u].session = thread'[w].session /\ u # w
                                => thread'[u].session = NoSession
    BY <2>1, <2>2
  <2>4. \A u \in Threads : thread'[u].pc # "idle" => state'[thread'[u].session] = "RUNNING"
    BY <2>1, <2>2
  <2>5. \A u \in Threads : thread'[u].pc \notin {"idle", "complete"}
                             => returnCode'[thread'[u].session] = "null"
    BY <2>1
  <2>6. \A u \in Threads : thread'[u].pc = "complete"
                             => returnCode'[thread'[u].session] = thread'[u].longjmp_value
    BY <2>1
  <2> QED
    BY <2>1, <2>3, <2>4, <2>5, <2>6
<1>7. ASSUME NEW t \in Threads, Fail(t)
      PROVE  Executed'
  <2>1. /\ thread'[t].pc = "idle" /\ thread'[t].session = NoSession
        /\ \A u \in Threads \ {t} : thread'[u] = thread[u]
        /\ thread[t].session \in Sessions
        /\ returnCode' = returnCode
        /\ state' = [state EXCEPT ![thread[t].session] = "FAILED"]
    BY <1>7, Ending DEF Fail
  <2>2. \A u \in Threads \ {t} : thread[u].session # thread[t].session
    BY <2>1, SessionsAssumption
  <2>3. \A u, w \in Threads : thread'[u].session = thread'[w].session /\ u # w
                                => thread'[u].session = NoSession
    BY <2>1
  <2>4. \A u \in Threads : thread'[u].pc # "idle" => state'[thread'[u].session] = "RUNNING"
    BY <2>1, <2>2
  <2>5. /\ \A u \in Threads : thread'[u].pc \notin {"idle", "complete"}
                                => returnCode'[thread'[u].session] = "null"
        /\ \A u \in Threads : thread'[u].pc = "complete"
                                => returnCode'[thread'[u].session] = thread'[u].longjmp_value
    BY <2>1
  <2>6. \A s \in Sessions : state'[s] = "CREATED" => returnCode'[s] = "null"
    BY <2>1
  <2> QED
    BY <2>3, <2>4, <2>5, <2>6
<1>8. ASSUME NEW t \in Threads, Complete(t)
      PROVE  Executed'
  <2>1. /\ thread'[t].pc = "idle" /\ thread'[t].session = NoSession
        /\ \A u \in Threads \ {t} : thread'[u] = thread[u]
        /\ thread[t].session \in Sessions
        /\ returnCode' = returnCode
        /\ state' = [state EXCEPT ![thread[t].session] = "COMPLETED"]
    BY <1>8, Ending DEF Complete
  <2>2. \A u \in Threads \ {t} : thread[u].session # thread[t].session
    BY <2>1, SessionsAssumption
  <2>3. \A u, w \in Threads : thread'[u].session = thread'[w].session /\ u # w
                                => thread'[u].session = NoSession
    BY <2>1
  <2>4. \A u \in Threads : thread'[u].pc # "idle" => state'[thread'[u].session] = "RUNNING"
    BY <2>1, <2>2
  <2>5. /\ \A u \in Threads : thread'[u].pc \notin {"idle", "complete"}
                                => returnCode'[thread'[u].session] = "null"
        /\ \A u \in Threads : thread'[u].pc = "complete"
                                => returnCode'[thread'[u].session] = thread'[u].longjmp_value
    BY <2>1
  <2>6. \A s \in Sessions : state'[s] = "CREATED" => returnCode'[s] = "null"
    BY <2>1
  <2> QED
    BY <2>3, <2>4, <2>5, <2>6
<1>9. ASSUME NEW t \in Threads, AddSession(t)
      PROVE  Executed'
  BY <1>9, Passing, ExecutedMoves DEF AddSession
<1>10. ASSUME NEW t \in Threads, ClearSigterm(t)
       PROVE  Executed'
  BY <1>10, Passing, ExecutedMoves DEF ClearSigterm
<1>11. ASSUME NEW t \in Threads, ClearSignals(t)
       PROVE  Executed'
  BY <1>11, Passing, ExecutedMoves DEF ClearSignals
<1>12. ASSUME NEW t \in Threads, Works(t)
       PROVE  Executed'
  BY <1>12, Working, StepSets, CleanedOnly, ExecutedMoves
<1>13. ASSUME NEW t \in Threads, ReadSignals(t)
       PROVE  Executed'
  <2>1. \E p \in {"unregister", "readCancel"} : \E v : Moves(t, p, v)
    BY <1>13, Passing
  <2> QED
    BY <1>13, <2>1, ExecutedMoves DEF ReadSignals
<1>14. ASSUME NEW t \in Threads, ReadCancel(t)
       PROVE  Executed'
  <2>1. \E v : Moves(t, "unregister", v)
    BY <1>14, Passing
  <2> QED
    BY <1>14, <2>1, ExecutedMoves DEF ReadCancel
<1>15. ASSUME NEW t \in Threads, RemoveSession(t)
       PROVE  Executed'
  BY <1>15, Passing, ExecutedMoves DEF RemoveSession
<1>16. ASSUME NEW t \in Threads, SetReturnCode(t)
       PROVE  Executed'
  <2>1. /\ Moves(t, "complete", thread[t].longjmp_value)
        /\ thread[t].session # NoSession
        /\ state' = state
        /\ returnCode' = [returnCode EXCEPT ![thread[t].session] = thread[t].longjmp_value]
        /\ thread[t].pc = "return"
    BY <1>16, Passing, SessionsAssumption DEF SetReturnCode, Moves
  <2> QED
    BY <2>1 DEF Moves
<1>17. ASSUME NEW t \in Threads, NEW u \in Threads, TablesLost(t, u)
      PROVE  Executed'
  BY <1>17 DEF TablesLost
<1>18. CASE UNCHANGED vars
  BY <1>18 DEF vars
<1> QED
  BY <1>1, <1>2, <1>3, <1>4, <1>5, <1>6, <1>7, <1>8, <1>9, <1>10, <1>11, <1>12, <1>13,
     <1>14, <1>15, <1>16, <1>17, <1>18
     DEF Next, Handler, Compute, Transfer, Works

-----------------------------------------------------------------------------
(* Why a session says CANCEL only if somebody asked for it.                *)

\* A request that a running session may still see, or has seen, was made while it ran.
Grounded ==
  \A t \in Threads :
    /\ thread[t].pc \in Awaiting /\ sessionMap[Slot(thread[t].session)] = 2
         => thread[t].session \in grounds
    /\ thread[t].pc \in Cleaned /\ received_nb_signals > 0 => thread[t].session \in grounds
    /\ thread[t].longjmp_value = "CANCEL"
         => thread[t].pc \notin {"idle", "register"} /\ thread[t].session \in grounds

LEMMA AwaitingSteps ==
  /\ Awaiting = Cleaned \cup {"clearSigterm", "clearSignals", "readCancel"}
  /\ Awaiting \cap {"idle", "register", "unregister", "return", "complete"} = {}
BY CleanedOnly DEF Awaiting

\* A step of a thread that adds no request: what it has to establish for itself.
LEMMA GroundedMoves ==
  ASSUME Grounded, NEW t \in Threads, NEW p, NEW v, Moves(t, p, v),
         p \notin {"idle", "register"}, grounds' = grounds,
         \A s \in Sessions : sessionMap'[Slot(s)] = 2 => sessionMap[Slot(s)] = 2,
         received_nb_signals' > 0 => received_nb_signals > 0,
         p \in Awaiting => \/ thread[t].pc \in Awaiting
                           \/ sessionMap'[Slot(thread[t].session)] # 2,
         p \in Cleaned => thread[t].pc \in Cleaned \/ ~(received_nb_signals' > 0),
         v = "CANCEL" => thread[t].longjmp_value = "CANCEL" \/ thread[t].session \in grounds,
         TypeOK
  PROVE  Grounded'
<1>1. \A u \in Threads : thread'[u].session = thread[u].session
  BY DEF Moves
<1>2. /\ p \in Awaiting /\ sessionMap'[Slot(thread[t].session)] = 2
           => thread[t].session \in grounds'
      /\ p \in Cleaned /\ received_nb_signals' > 0 => thread[t].session \in grounds'
      /\ v = "CANCEL" => thread[t].session \in grounds'
  BY DEF Grounded, Moves
<1>3. ASSUME NEW u \in Threads \ {t}
      PROVE  /\ thread[u].pc \in Awaiting /\ sessionMap'[Slot(thread[u].session)] = 2
                  => thread[u].session \in grounds'
             /\ thread[u].pc \in Cleaned /\ received_nb_signals' > 0
                  => thread[u].session \in grounds'
             /\ thread[u].longjmp_value = "CANCEL"
                  => /\ thread[u].pc \notin {"idle", "register"}
                     /\ thread[u].session \in grounds'
  <2>1. thread[u].pc \in Awaiting => thread[u].session \in Sessions
    BY AwaitingSteps, Busy
  <2> QED
    BY <2>1 DEF Grounded
<1> QED
  BY <1>1, <1>2, <1>3 DEF Grounded, Moves

LEMMA GroundedStep ==
  ASSUME TypeOK, Executed, Grounded, [Next]_vars
  PROVE  Grounded'
<1>1. ASSUME NEW s \in Sessions, Cancel(s)
      PROVE  Grounded'
  <2>1. \A u \in Sessions : sessionMap'[Slot(u)] = IF u \in SameSlot(s) THEN 2 ELSE sessionMap[Slot(u)]
    BY <1>1, MapWritten DEF Cancel, TypeOK
  <2>2. \A t \in Threads : thread[t].pc \in Awaiting
                             => thread[t].session \in Sessions /\ thread[t].session \in SessionsAt(Awaiting)
    BY AwaitingSteps, Busy DEF SessionsAt
  <2> QED
    BY <1>1, <2>1, <2>2 DEF Cancel, Grounded
<1>2. ASSUME NEW c \in Callers, Signal(c)
      PROVE  Grounded'
  BY <1>2 DEF Signal, Grounded
<1>3. ASSUME NEW c \in Callers, LoadCount(c)
      PROVE  Grounded'
  BY <1>3 DEF LoadCount, Grounded
<1>4. ASSUME NEW c \in Callers, StoreCount(c)
      PROVE  Grounded'
  <2>1. \A t \in Threads : thread[t].pc \in Cleaned => thread[t].session \in SessionsAt(Cleaned)
    BY CleanedOnly, Busy DEF SessionsAt
  <2> QED
    BY <1>4, <2>1 DEF StoreCount, Grounded
<1>5. ASSUME NEW c \in Callers, TestLimit(c)
      PROVE  Grounded'
  BY <1>5 DEF TestLimit, Grounded
<1>6. ASSUME NEW t \in Threads, NEW s \in Sessions, Start(t, s)
      PROVE  Grounded'
  <2>1. /\ thread'[t].pc = "register"
        /\ thread'[t].longjmp_value = thread[t].longjmp_value
        /\ thread[t].pc = "idle"
        /\ \A u \in Threads \ {t} : thread'[u] = thread[u]
    BY <1>6, Beginning DEF Start
  <2>2. UNCHANGED <<sessionMap, signalVars, grounds>>
    BY <1>6 DEF Start
  <2>3. thread'[t].pc \notin Awaiting /\ thread'[t].pc \notin Cleaned
    BY <2>1, AwaitingSteps, CleanedOnly
  <2>4. thread'[t].longjmp_value # "CANCEL"
    BY <2>1 DEF Grounded
  <2> QED
    BY <2>1, <2>2, <2>3, <2>4 DEF Grounded
<1>7. ASSUME NEW t \in Threads, Fail(t) \/ Complete(t)
      PROVE  Grounded'
  <2>1. /\ thread'[t].pc = "idle"
        /\ thread'[t].longjmp_value # "CANCEL"
        /\ \A u \in Threads \ {t} : thread'[u] = thread[u]
    <3>1. CASE Fail(t)
      BY <1>7, <3>1, Ending DEF Grounded, Fail
    <3>2. CASE Complete(t)
      BY <1>7, <3>2, Ending, TypedThreads DEF Complete, ThreadsOK, ThreadRecord
    <3> QED
      BY <1>7, <3>1, <3>2
  <2>2. UNCHANGED <<sessionMap, signalVars, grounds>>
    BY <1>7 DEF Fail, Complete
  <2> QED
    BY <2>1, <2>2, AwaitingSteps, CleanedOnly DEF Grounded
<1>8. ASSUME NEW t \in Threads, AddSession(t)
      PROVE  Grounded'
  <2>1. Moves(t, "clearSigterm", thread[t].longjmp_value) /\ thread[t].session \in Sessions
    BY <1>8, Passing DEF Moves
  <2>2. \A u \in Sessions : sessionMap'[Slot(u)] = IF u \in SameSlot(thread[t].session)
                                                    THEN 1 ELSE sessionMap[Slot(u)]
    BY <1>8, <2>1, MapWritten DEF AddSession, TypeOK
  <2>3. sessionMap'[Slot(thread[t].session)] # 2
    BY <2>1, <2>2 DEF SameSlot
  <2>4. \A u \in Sessions : sessionMap'[Slot(u)] = 2 => sessionMap[Slot(u)] = 2
    BY <2>2
  <2>5. UNCHANGED <<signalVars, grounds>>
    BY <1>8 DEF AddSession
  <2> QED
    BY <2>1, <2>3, <2>4, <2>5, CleanedOnly, GroundedMoves
<1>9. ASSUME NEW t \in Threads, ClearSigterm(t)
      PROVE  Grounded'
  <2>1. Moves(t, "clearSignals", thread[t].longjmp_value)
    BY <1>9, Passing
  <2>2. thread[t].pc \in Awaiting /\ UNCHANGED <<sessionMap, received_nb_signals, grounds>>
    BY <1>9, AwaitingSteps DEF ClearSigterm
  <2> QED
    BY <2>1, <2>2, CleanedOnly, GroundedMoves
<1>10. ASSUME NEW t \in Threads, ClearSignals(t)
       PROVE  Grounded'
  <2>1. Moves(t, "open", "SUCCESS")
    BY <1>10, Passing
  <2>2. /\ thread[t].pc \in Awaiting /\ UNCHANGED <<sessionMap, grounds>>
        /\ received_nb_signals' = 0
    BY <1>10, AwaitingSteps DEF ClearSignals
  <2>3. ~(received_nb_signals' > 0)
    BY <2>2
  <2> QED
    BY <2>1, <2>2, <2>3, GroundedMoves
<1>11. ASSUME NEW t \in Threads, Works(t)
       PROVE  Grounded'
  <2>1. /\ thread[t].pc \in Cleaned
        /\ UNCHANGED <<sessionMap, signalVars, grounds>>
    BY <1>11, Working
  <2>2. PICK p \in Cleaned, v \in Codes :
          /\ Moves(t, p, v)
          /\ v = "CANCEL" => received_nb_signals > 0 \/ thread[t].longjmp_value = "CANCEL"
    BY <1>11, Working
  <2>3. v = "CANCEL" => thread[t].longjmp_value = "CANCEL" \/ thread[t].session \in grounds
    BY <2>1, <2>2 DEF Grounded
  <2>4. p \notin {"idle", "register"} /\ thread[t].pc \in Awaiting
    BY <2>1, CleanedOnly, AwaitingSteps
  <2> QED
    BY <2>1, <2>2, <2>3, <2>4, GroundedMoves
<1>12. ASSUME NEW t \in Threads, ReadSignals(t)
       PROVE  Grounded'
  <2>1. /\ thread[t].pc = "readSignals" /\ thread[t].pc \in Cleaned
        /\ UNCHANGED <<sessionMap, signalVars, grounds>>
    BY <1>12, StepSets DEF ReadSignals
  <2>2. CASE received_nb_signals > 0 /\ Moves(t, "unregister", "CANCEL")
    <3>1. thread[t].session \in grounds
      BY <2>1, <2>2 DEF Grounded
    <3> QED
      BY <2>1, <2>2, <3>1, AwaitingSteps, CleanedOnly, GroundedMoves
  <2>3. CASE Moves(t, "readCancel", thread[t].longjmp_value)
    BY <2>1, <2>3, AwaitingSteps, CleanedOnly, GroundedMoves
  <2> QED
    BY <1>12, <2>2, <2>3, Passing
<1>13. ASSUME NEW t \in Threads, ReadCancel(t)
       PROVE  Grounded'
  <2>1. /\ thread[t].pc = "readCancel" /\ thread[t].pc \in Awaiting
        /\ UNCHANGED <<sessionMap, signalVars, grounds>>
    BY <1>13, AwaitingSteps DEF ReadCancel
  <2>2. CASE sessionMap[Slot(thread[t].session)] = 2 /\ Moves(t, "unregister", "CANCEL")
    <3>1. thread[t].session \in grounds
      BY <2>1, <2>2 DEF Grounded
    <3> QED
      BY <2>1, <2>2, <3>1, AwaitingSteps, CleanedOnly, GroundedMoves
  <2>3. CASE Moves(t, "unregister", thread[t].longjmp_value)
    BY <2>1, <2>3, AwaitingSteps, CleanedOnly, GroundedMoves
  <2> QED
    BY <1>13, <2>2, <2>3, Passing
<1>14. ASSUME NEW t \in Threads, RemoveSession(t)
       PROVE  Grounded'
  <2>1. Moves(t, "return", thread[t].longjmp_value) /\ thread[t].session \in Sessions
    BY <1>14, Passing DEF Moves
  <2>2. \A u \in Sessions : sessionMap'[Slot(u)] = IF u \in SameSlot(thread[t].session)
                                                    THEN 0 ELSE sessionMap[Slot(u)]
    BY <1>14, <2>1, MapWritten DEF RemoveSession, TypeOK
  <2>3. \A u \in Sessions : sessionMap'[Slot(u)] = 2 => sessionMap[Slot(u)] = 2
    BY <2>2
  <2>4. UNCHANGED <<signalVars, grounds>>
    BY <1>14 DEF RemoveSession
  <2> QED
    BY <2>1, <2>3, <2>4, AwaitingSteps, CleanedOnly, GroundedMoves
<1>15. ASSUME NEW t \in Threads, SetReturnCode(t)
       PROVE  Grounded'
  <2>1. Moves(t, "complete", thread[t].longjmp_value)
    BY <1>15, Passing
  <2>2. UNCHANGED <<sessionMap, signalVars, grounds>>
    BY <1>15 DEF SetReturnCode
  <2> QED
    BY <2>1, <2>2, AwaitingSteps, CleanedOnly, GroundedMoves
<1>16. ASSUME NEW t \in Threads, NEW u \in Threads, TablesLost(t, u)
      PROVE  Grounded'
  BY <1>16 DEF TablesLost, Grounded
<1>17. CASE UNCHANGED vars
  BY <1>17 DEF vars, Grounded
<1> QED
  BY <1>1, <1>2, <1>3, <1>4, <1>5, <1>6, <1>7, <1>8, <1>9, <1>10, <1>11, <1>12, <1>13,
     <1>14, <1>15, <1>16, <1>17
     DEF Next, Handler, Compute, Transfer, Works

-----------------------------------------------------------------------------
(* Why a request shows in the return code.                                 *)

\* After a session has looked for requests.
Over == {"unregister", "return", "complete"}

\* Where a session has not been signalled: before it clears the signals, and after it
\* has found none.
Unsignalled == {"register", "clearSigterm", "clearSignals", "readCancel"}

\* What holds of a thread, of step pc and session s, with longjmp_value v.
Remembers(pc, s, v) ==
  /\ pc \in Awaiting /\ s \in byId => sessionMap[Slot(s)] = 2
  /\ pc \in Cleaned /\ s \in bySignal => received_nb_signals > 0
  /\ pc \in Unsignalled => s \notin bySignal
  /\ pc \in Over /\ s \in byId \cup bySignal => v = "CANCEL"

\* A request that nothing has overwritten is in the variable where its session will
\* look for it, until the session has found it.
Reported ==
  /\ CancelReported
  /\ \A s \in byId \cup bySignal : state[s] # "CREATED"
  /\ \A t \in Threads : Remembers(thread[t].pc, thread[t].session, thread[t].longjmp_value)

LEMMA RememberingSteps ==
  /\ Awaiting \cap Over = {}
  /\ Cleaned \cap (Over \cup Unsignalled) = {}
  /\ Cleaned \subseteq Awaiting
  /\ Over \cap Unsignalled = {}
  /\ "idle" \notin Awaiting \cup Cleaned \cup Over \cup Unsignalled
BY CleanedOnly DEF Awaiting, Over, Unsignalled

\* The other threads run other sessions.
LEMMA Others ==
  ASSUME TypeOK, Executed, NEW t \in Threads, NEW u \in Threads \ {t}, thread[u].pc # "idle"
  PROVE  thread[u].session \in Sessions \ {thread[t].session}
BY Busy, SessionsAssumption DEF Executed

\* A step of thread t that makes no request: what it has to establish for itself, if
\* what it writes is of no concern to the requests of the other sessions.
LEMMA ReportedMoves ==
  ASSUME TypeOK, Executed, Reported, NEW t \in Threads, NEW p, NEW v, Moves(t, p, v),
         NEW s, s = thread[t].session, state' = state,
         returnCode' = returnCode \/ /\ state[s] = "RUNNING"
                                     /\ \A u \in Sessions \ {s} : returnCode'[u] = returnCode[u],
         byId' \subseteq byId, bySignal' \subseteq bySignal,
         \A u \in byId' \ {s} : sessionMap'[Slot(u)] = sessionMap[Slot(u)],
         bySignal' = {} \/ received_nb_signals' = received_nb_signals,
         Remembers(p, s, v)'
  PROVE  Reported'
<1>1. CancelReported'
  <2> SUFFICES ASSUME NEW u \in byId' \cup bySignal', state'[u] = "COMPLETED"
               PROVE  returnCode'[u] = "CANCEL"
    BY DEF CancelReported
  <2>1. u \in Sessions /\ returnCode[u] = "CANCEL"
    BY DEF TypeOK, Reported, CancelReported
  <2>2. returnCode'[u] = returnCode[u]
    BY <2>1
  <2> QED
    BY <2>1, <2>2
<1>2. \A u \in byId' \cup bySignal' : state'[u] # "CREATED"
  BY DEF Reported
<1>3. ASSUME NEW u \in Threads \ {t}
      PROVE  Remembers(thread[u].pc, thread[u].session, thread[u].longjmp_value)'
  <2>1. Remembers(thread[u].pc, thread[u].session, thread[u].longjmp_value)
    BY DEF Reported
  <2>2. thread'[u] = thread[u]
    BY DEF Moves
  <2>3. thread[u].pc # "idle" => thread[u].session # thread[t].session
    BY Others
  <2> QED
    BY <2>1, <2>2, <2>3, RememberingSteps DEF Remembers
<1>4. Remembers(thread[t].pc, thread[t].session, thread[t].longjmp_value)'
  BY DEF Moves, Remembers
<1> QED
  BY <1>1, <1>2, <1>3, <1>4 DEF Reported

\* Where a session's thread is when a request reaches the session.
LEMMA SessionsAtSteps ==
  ASSUME TypeOK, Executed
  PROVE  /\ \A s \in SessionsAt(Awaiting) : state[s] = "RUNNING" /\ returnCode[s] = "null"
         /\ SessionsAt(Cleaned) \subseteq SessionsAt(Awaiting)
         /\ \A t \in Threads : thread[t].session \in SessionsAt(Awaiting)
                                 => thread[t].pc \in Awaiting
         /\ \A t \in Threads : thread[t].session \in SessionsAt(Cleaned)
                                 => thread[t].pc \in Cleaned
<1>1. \A s \in SessionsAt(Awaiting) : state[s] = "RUNNING" /\ returnCode[s] = "null"
  BY AwaitingSteps DEF SessionsAt, Executed
<1>2. SessionsAt(Cleaned) \subseteq SessionsAt(Awaiting)
  BY RememberingSteps DEF SessionsAt
<1>3. ASSUME NEW t \in Threads, NEW u \in Threads, NEW s \in Sessions,
             thread[t].session = s, thread[u].session = s
      PROVE  t = u
  BY <1>3, SessionsAssumption DEF Executed
<1>4. \A t \in Threads : thread[t].session \in SessionsAt(Awaiting) => thread[t].pc \in Awaiting
  BY <1>3 DEF SessionsAt
<1>5. \A t \in Threads : thread[t].session \in SessionsAt(Cleaned) => thread[t].pc \in Cleaned
  BY <1>3 DEF SessionsAt
<1> QED
  BY <1>1, <1>2, <1>4, <1>5

LEMMA ReportedStep ==
  ASSUME TypeOK, Executed, Reported, [Next]_vars
  PROVE  Reported'
<1>1. ASSUME NEW s \in Sessions, Cancel(s)
      PROVE  Reported'
  <2>1. \A u \in Sessions : sessionMap'[Slot(u)] = IF u \in SameSlot(s) THEN 2 ELSE sessionMap[Slot(u)]
    BY <1>1, MapWritten DEF Cancel, TypeOK
  <2>2. /\ byId' = byId \cup ({s} \cap SessionsAt(Awaiting))
        /\ UNCHANGED <<javaVars, signalVars, thread, bySignal>>
    BY <1>1 DEF Cancel
  <2>3. CancelReported' /\ \A u \in byId' \cup bySignal' : state'[u] # "CREATED"
    BY <2>2, SessionsAtSteps DEF Reported, CancelReported
  <2>4. ASSUME NEW t \in Threads
        PROVE  Remembers(thread[t].pc, thread[t].session, thread[t].longjmp_value)'
    <3>1. Remembers(thread[t].pc, thread[t].session, thread[t].longjmp_value)
      BY DEF Reported
    <3>2. thread[t].pc \in Awaiting => thread[t].session \in Sessions
      BY AwaitingSteps, Busy
    <3>3. s \in SameSlot(s)
      BY DEF SameSlot
    <3>4. thread[t].pc \in Over => thread[t].session \notin SessionsAt(Awaiting)
      BY SessionsAtSteps, RememberingSteps
    <3> QED
      BY <2>1, <2>2, <3>1, <3>2, <3>3, <3>4 DEF Remembers
  <2> QED
    BY <2>3, <2>4 DEF Reported
<1>2. ASSUME NEW c \in Callers, Signal(c)
      PROVE  Reported'
  BY <1>2 DEF Signal, Reported, CancelReported, Remembers
<1>3. ASSUME NEW c \in Callers, LoadCount(c)
      PROVE  Reported'
  BY <1>3 DEF LoadCount, Reported, CancelReported, Remembers
<1>4. ASSUME NEW c \in Callers, StoreCount(c)
      PROVE  Reported'
  <2>1. /\ bySignal' = bySignal \cup SessionsAt(Cleaned)
        /\ received_nb_signals' > 0
        /\ UNCHANGED <<javaVars, sessionMap, thread, byId>>
    BY <1>4 DEF StoreCount, TypeOK
  <2>2. CancelReported' /\ \A u \in byId' \cup bySignal' : state'[u] # "CREATED"
    BY <2>1, SessionsAtSteps DEF Reported, CancelReported
  <2>3. ASSUME NEW t \in Threads
        PROVE  Remembers(thread[t].pc, thread[t].session, thread[t].longjmp_value)'
    <3>1. Remembers(thread[t].pc, thread[t].session, thread[t].longjmp_value)
      BY DEF Reported
    <3>2. thread[t].pc \in Over \cup Unsignalled => thread[t].session \notin SessionsAt(Cleaned)
      BY SessionsAtSteps, RememberingSteps
    <3> QED
      BY <2>1, <3>1, <3>2 DEF Remembers
  <2> QED
    BY <2>2, <2>3 DEF Reported
<1>5. ASSUME NEW c \in Callers, TestLimit(c)
      PROVE  Reported'
  BY <1>5 DEF TestLimit, Reported, CancelReported, Remembers
<1>6. ASSUME NEW t \in Threads, NEW s \in Sessions, Start(t, s)
      PROVE  Reported'
  <2>1. /\ thread'[t].pc = "register" /\ thread'[t].session = s
        /\ \A u \in Threads \ {t} : thread'[u] = thread[u]
    BY <1>6, Beginning
  <2>2. /\ state[s] = "CREATED" /\ state' = [state EXCEPT ![s] = "RUNNING"]
        /\ UNCHANGED <<returnCode, sessionMap, signalVars, byId, bySignal>>
    BY <1>6 DEF Start
  <2>3. s \notin byId \cup bySignal
    BY <2>2 DEF Reported
  <2>4. CancelReported' /\ \A u \in byId' \cup bySignal' : state'[u] # "CREATED"
    BY <2>2 DEF Reported, CancelReported, TypeOK
  <2>5. ASSUME NEW u \in Threads
        PROVE  Remembers(thread[u].pc, thread[u].session, thread[u].longjmp_value)'
    <3>1. CASE u = t
      BY <2>1, <2>2, <2>3, <3>1, RememberingSteps, AwaitingSteps, CleanedOnly DEF Remembers, Over
    <3>2. CASE u # t
      BY <2>1, <2>2, <3>2 DEF Remembers, Reported
    <3> QED
      BY <3>1, <3>2
  <2> QED
    BY <2>4, <2>5 DEF Reported
<1>7. ASSUME NEW t \in Threads, Fail(t) \/ Complete(t)
      PROVE  Reported'
  <2>1. /\ thread'[t].pc = "idle" /\ thread[t].session \in Sessions
        /\ \A u \in Threads \ {t} : thread'[u] = thread[u]
    BY <1>7, Ending
  <2>2. UNCHANGED <<returnCode, sessionMap, signalVars, byId, bySignal>>
    BY <1>7 DEF Fail, Complete
  <2>3. \/ state' = [state EXCEPT ![thread[t].session] = "FAILED"]
        \/ /\ state' = [state EXCEPT ![thread[t].session] = "COMPLETED"]
           /\ thread[t].session \in byId \cup bySignal
                => returnCode[thread[t].session] = "CANCEL"
    <3>1. CASE Fail(t)
      BY <3>1 DEF Fail
    <3>2. CASE Complete(t)
      <4>1. thread[t].pc = "complete" /\ "complete" \in Over
        BY <3>2 DEF Complete, Over
      <4>2. returnCode[thread[t].session] = thread[t].longjmp_value
        BY <4>1 DEF Executed
      <4>3. thread[t].session \in byId \cup bySignal => thread[t].longjmp_value = "CANCEL"
        BY <4>1 DEF Reported, Remembers
      <4> QED
        BY <3>2, <4>2, <4>3 DEF Complete
    <3> QED
      BY <1>7, <3>1, <3>2
  <2>4. CancelReported' /\ \A u \in byId' \cup bySignal' : state'[u] # "CREATED"
    BY <2>1, <2>2, <2>3 DEF Reported, CancelReported, TypeOK
  <2>5. ASSUME NEW u \in Threads
        PROVE  Remembers(thread[u].pc, thread[u].session, thread[u].longjmp_value)'
    <3>1. CASE u = t
      BY <2>1, <3>1, RememberingSteps DEF Remembers
    <3>2. CASE u # t
      BY <2>1, <2>2, <3>2 DEF Remembers, Reported
    <3> QED
      BY <3>1, <3>2
  <2> QED
    BY <2>4, <2>5 DEF Reported
<1>8. ASSUME NEW t \in Threads, AddSession(t)
      PROVE  Reported'
  <2>1. PICK s \in Sessions, v \in Codes :
          s = thread[t].session /\ v = thread[t].longjmp_value /\ Moves(t, "clearSigterm", v)
    BY <1>8, Busy, Passing DEF AddSession
  <2>2. /\ byId' = byId \ SameSlot(s)
        /\ UNCHANGED <<javaVars, signalVars, bySignal>>
        /\ thread[t].pc = "register"
    BY <1>8, <2>1 DEF AddSession
  <2>3. \A u \in Sessions : sessionMap'[Slot(u)] = IF u \in SameSlot(s)
                                                    THEN 1 ELSE sessionMap[Slot(u)]
    BY <1>8, <2>1, MapWritten DEF AddSession, TypeOK
  <2>4. \A u \in byId' : sessionMap'[Slot(u)] = sessionMap[Slot(u)]
    BY <2>2, <2>3 DEF TypeOK
  <2>5. Remembers("clearSigterm", s, v)'
    <3>1. s \notin byId'
      BY <2>1, <2>2 DEF SameSlot
    <3>2. s \notin bySignal'
      BY <2>1, <2>2 DEF Reported, Remembers, Unsignalled
    <3> QED
      BY <3>1, <3>2 DEF Remembers
  <2> QED
    BY <2>1, <2>2, <2>4, <2>5, ReportedMoves
<1>9. ASSUME NEW t \in Threads, ClearSigterm(t)
      PROVE  Reported'
  <2>1. PICK s, v : /\ s = thread[t].session /\ v = thread[t].longjmp_value
                    /\ Moves(t, "clearSignals", v)
    BY <1>9, Passing
  <2>2. /\ thread[t].pc = "clearSigterm"
        /\ UNCHANGED <<javaVars, sessionMap, received_nb_signals, byId, bySignal>>
    BY <1>9 DEF ClearSigterm
  <2>3. Remembers("clearSignals", s, v)'
    BY <2>1, <2>2, AwaitingSteps, CleanedOnly DEF Reported, Remembers, Unsignalled, Over
  <2> QED
    BY <2>1, <2>2, <2>3, ReportedMoves
<1>10. ASSUME NEW t \in Threads, ClearSignals(t)
       PROVE  Reported'
  <2>1. PICK s : s = thread[t].session /\ Moves(t, "open", "SUCCESS")
    BY <1>10, Passing
  <2>2. /\ thread[t].pc = "clearSignals" /\ bySignal' = {}
        /\ UNCHANGED <<javaVars, sessionMap, byId>>
    BY <1>10 DEF ClearSignals
  <2>3. s \in byId => sessionMap[Slot(s)] = 2
    BY <2>1, <2>2, AwaitingSteps DEF Reported, Remembers
  <2>4. Remembers("open", s, "SUCCESS")'
    BY <2>2, <2>3, StepSets, RememberingSteps DEF Remembers
  <2> QED
    BY <2>1, <2>2, <2>4, ReportedMoves
<1>11. ASSUME NEW t \in Threads, Works(t)
       PROVE  Reported'
  <2>1. /\ thread[t].pc \in Cleaned
        /\ UNCHANGED <<javaVars, sessionMap, signalVars, byId, bySignal>>
    BY <1>11, Working
  <2>2. PICK p \in Cleaned, v \in Codes : Moves(t, p, v)
    BY <1>11, Working
  <2>3. PICK s : s = thread[t].session
    OBVIOUS
  <2>4. Remembers(p, s, v)'
    BY <2>1, <2>3, RememberingSteps DEF Reported, Remembers
  <2> QED
    BY <2>1, <2>2, <2>3, <2>4, ReportedMoves
<1>12. ASSUME NEW t \in Threads, ReadSignals(t)
       PROVE  Reported'
  <2>1. /\ thread[t].pc = "readSignals" /\ thread[t].pc \in Cleaned
        /\ UNCHANGED <<javaVars, sessionMap, signalVars, byId, bySignal>>
    BY <1>12, StepSets DEF ReadSignals
  <2>2. PICK s, v : s = thread[t].session /\ v = thread[t].longjmp_value
    OBVIOUS
  <2>3. CASE Moves(t, "unregister", "CANCEL")
    <3>1. Remembers("unregister", s, "CANCEL")'
      BY AwaitingSteps, CleanedOnly DEF Remembers, Unsignalled
    <3> QED
      BY <2>1, <2>2, <2>3, <3>1, ReportedMoves
  <2>4. CASE ~(received_nb_signals > 0) /\ Moves(t, "readCancel", v)
    <3>1. s \notin bySignal /\ (s \in byId => sessionMap[Slot(s)] = 2)
      BY <2>1, <2>2, <2>4, RememberingSteps DEF Reported, Remembers
    <3>2. Remembers("readCancel", s, v)'
      BY <2>1, <3>1, CleanedOnly DEF Remembers, Over
    <3> QED
      BY <2>1, <2>2, <2>4, <3>2, ReportedMoves
  <2> QED
    BY <1>12, <2>2, <2>3, <2>4, Passing
<1>13. ASSUME NEW t \in Threads, ReadCancel(t)
       PROVE  Reported'
  <2>1. /\ thread[t].pc = "readCancel" /\ thread[t].pc \in Awaiting
        /\ UNCHANGED <<javaVars, sessionMap, signalVars, byId, bySignal>>
    BY <1>13, AwaitingSteps DEF ReadCancel
  <2>2. PICK s, v : s = thread[t].session /\ v = thread[t].longjmp_value
    OBVIOUS
  <2>3. CASE Moves(t, "unregister", "CANCEL")
    <3>1. Remembers("unregister", s, "CANCEL")'
      BY AwaitingSteps, CleanedOnly DEF Remembers, Unsignalled
    <3> QED
      BY <2>1, <2>2, <2>3, <3>1, ReportedMoves
  <2>4. CASE sessionMap[Slot(s)] # 2 /\ Moves(t, "unregister", v)
    <3>1. s \notin byId \cup bySignal
      BY <2>1, <2>2, <2>4 DEF Reported, Remembers, Unsignalled
    <3>2. Remembers("unregister", s, v)'
      BY <2>1, <3>1 DEF Remembers
    <3> QED
      BY <2>1, <2>2, <2>4, <3>2, ReportedMoves
  <2> QED
    BY <1>13, <2>2, <2>3, <2>4, Passing
<1>14. ASSUME NEW t \in Threads, RemoveSession(t)
       PROVE  Reported'
  <2>1. PICK s \in Sessions, v \in Codes :
          s = thread[t].session /\ v = thread[t].longjmp_value /\ Moves(t, "return", v)
    BY <1>14, Busy, Passing DEF RemoveSession
  <2>2. /\ byId' = byId \ (SameSlot(s) \ {s})
        /\ UNCHANGED <<javaVars, signalVars, bySignal>>
        /\ thread[t].pc = "unregister"
    BY <1>14, <2>1 DEF RemoveSession
  <2>3. \A u \in Sessions : sessionMap'[Slot(u)] = IF u \in SameSlot(s)
                                                    THEN 0 ELSE sessionMap[Slot(u)]
    BY <1>14, <2>1, MapWritten DEF RemoveSession, TypeOK
  <2>4. \A u \in byId' \ {s} : sessionMap'[Slot(u)] = sessionMap[Slot(u)]
    BY <2>2, <2>3 DEF TypeOK
  <2>5. Remembers("return", s, v)'
    BY <2>1, <2>2, AwaitingSteps, CleanedOnly DEF Reported, Remembers, Unsignalled, Over
  <2> QED
    BY <2>1, <2>2, <2>4, <2>5, ReportedMoves
<1>15. ASSUME NEW t \in Threads, SetReturnCode(t)
       PROVE  Reported'
  <2>1. PICK s, v : /\ s = thread[t].session /\ v = thread[t].longjmp_value
                    /\ Moves(t, "complete", v)
    BY <1>15, Passing
  <2>2. /\ UNCHANGED <<state, sessionMap, signalVars, byId, bySignal>>
        /\ returnCode' = [returnCode EXCEPT ![s] = v]
        /\ thread[t].pc = "return"
    BY <1>15, <2>1 DEF SetReturnCode
  <2>3. state[s] = "RUNNING"
    BY <2>1, <2>2 DEF Executed
  <2>4. Remembers("complete", s, v)'
    BY <2>1, <2>2, AwaitingSteps, CleanedOnly DEF Reported, Remembers, Unsignalled, Over
  <2>5. \A u \in Sessions \ {s} : returnCode'[u] = returnCode[u]
    BY <2>2 DEF TypeOK
  <2> QED
    BY <2>1, <2>2, <2>3, <2>4, <2>5, ReportedMoves
<1>16. ASSUME NEW t \in Threads, NEW u \in Threads, TablesLost(t, u)
      PROVE  Reported'
  BY <1>16 DEF TablesLost, Reported, CancelReported, Remembers
<1>17. CASE UNCHANGED vars
  BY <1>17 DEF vars, Reported, CancelReported, Remembers
<1> QED
  BY <1>1, <1>2, <1>3, <1>4, <1>5, <1>6, <1>7, <1>8, <1>9, <1>10, <1>11, <1>12, <1>13,
     <1>14, <1>15, <1>16, <1>17
     DEF Next, Handler, Compute, Transfer, Works

-----------------------------------------------------------------------------
(* The theorems.                                                           *)

Inv == TypeOK /\ Executed /\ Grounded /\ Reported

LEMMA InvInit == Init => Inv
<1> SUFFICES ASSUME Init
             PROVE  Inv
  OBVIOUS
<1>1. TypeOK
  BY TypeInit
<1>2. Executed
  BY DEF Init, Executed
<1>3. Grounded
  BY CleanedOnly, AwaitingSteps DEF Init, Grounded
<1>4. Reported
  BY DEF Init, Reported, CancelReported, Remembers
<1> QED
  BY <1>1, <1>2, <1>3, <1>4 DEF Inv

LEMMA InvStep == Inv /\ [Next]_vars => Inv'
BY TypeStep, ExecutedStep, GroundedStep, ReportedStep DEF Inv

LEMMA Invariant == Spec => []Inv
BY InvInit, InvStep, PTL DEF Spec

\* A request that nothing has overwritten shows in the return code of the session.
THEOREM Reports == Spec => []CancelReported
<1>1. Inv => CancelReported
  BY DEF Inv, Reported
<1> QED
  BY <1>1, Invariant, PTL

\* A session is RUNNING while it would hear a request: cancel(id), which is forwarded
\* to RUNNING sessions only, is withheld from none that would hear it.
THEOREM Heard == Spec => []HeardWhileRunning
<1>1. Inv => HeardWhileRunning
  BY SessionsAtSteps DEF Inv, HeardWhileRunning
<1> QED
  BY <1>1, Invariant, PTL

\* A session lives once, has its return code before it is COMPLETED, and says CANCEL
\* only if somebody asked for it while it ran.
THEOREM Refinement == Spec => ImplementsContract
<1>1. Init => Contract!ContractInit
  BY DEF Init, Contract!ContractInit
<1>2. Inv /\ [Next]_vars => [Contract!ContractNext]_<<state, returnCode, grounds>>
  <2> SUFFICES ASSUME Inv, [Next]_vars
               PROVE  [Contract!ContractNext]_<<state, returnCode, grounds>>
    OBVIOUS
  <2> DEFINE CanHear == {s \in Sessions : state[s] = "RUNNING" /\ returnCode[s] = "null"}
  <2>1. ASSUME NEW cancelled \in SUBSET CanHear, grounds' = grounds \cup cancelled,
               UNCHANGED javaVars
        PROVE  Contract!Ask
    BY <2>1 DEF Contract!Ask
  <2>2. SessionsAt(Awaiting) \subseteq CanHear /\ SessionsAt(Cleaned) \subseteq CanHear
    BY SessionsAtSteps DEF Inv, SessionsAt
  <2>3. ASSUME NEW s \in Sessions, Cancel(s)
        PROVE  Contract!Ask
    BY <2>1, <2>2, <2>3 DEF Cancel
  <2>4. ASSUME NEW c \in Callers, StoreCount(c)
        PROVE  Contract!Ask
    BY <2>1, <2>2, <2>4 DEF StoreCount
  <2>5. ASSUME NEW t \in Threads, NEW s \in Sessions, Start(t, s)
        PROVE  Contract!StartRunning(s)
    BY <2>5 DEF Start, Contract!StartRunning
  <2>6. ASSUME NEW t \in Threads, Fail(t)
        PROVE  thread[t].session \in Sessions /\ Contract!FailWith(thread[t].session)
    BY <2>6, Busy DEF Fail, Contract!FailWith, Inv, Executed
  <2>7. ASSUME NEW t \in Threads, Complete(t)
        PROVE  thread[t].session \in Sessions /\ Contract!Complete(thread[t].session)
    <3>1. thread[t].session \in Sessions /\ thread[t].longjmp_value \in Codes
      BY <2>7, Busy DEF Complete, Inv
    <3>2. /\ state[thread[t].session] = "RUNNING"
          /\ returnCode[thread[t].session] = thread[t].longjmp_value
      BY <2>7 DEF Complete, Inv, Executed
    <3>3. "null" \notin Codes
      BY DEF Codes
    <3> QED
      BY <2>7, <3>1, <3>2, <3>3 DEF Complete, Contract!Complete
  <2>8. ASSUME NEW t \in Threads, SetReturnCode(t)
        PROVE  thread[t].session \in Sessions /\ Contract!Return(thread[t].session)
    <3>1. thread[t].session \in Sessions /\ thread[t].longjmp_value \in Codes
      BY <2>8, Busy DEF SetReturnCode, Inv
    <3>2. /\ state[thread[t].session] = "RUNNING"
          /\ returnCode[thread[t].session] = "null"
      BY <2>8 DEF SetReturnCode, Inv, Executed
    <3>3. thread[t].longjmp_value = "CANCEL" => thread[t].session \in grounds
      BY DEF Inv, Grounded
    <3> QED
      BY <2>8, <3>1, <3>2, <3>3 DEF SetReturnCode, Contract!Return, Codes
  <2>9. ASSUME NEW t \in Threads, Works(t)
        PROVE  UNCHANGED <<state, returnCode, grounds>>
    BY <2>9, Working DEF Inv
  <2>10. ASSUME NEW t \in Threads,
                \/ AddSession(t) \/ ClearSigterm(t) \/ ClearSignals(t)
                \/ ReadSignals(t) \/ ReadCancel(t) \/ RemoveSession(t)
         PROVE  UNCHANGED <<state, returnCode, grounds>>
    BY <2>10 DEF AddSession, ClearSigterm, ClearSignals, ReadSignals, ReadCancel, RemoveSession
  <2>11. ASSUME NEW c \in Callers, Signal(c) \/ LoadCount(c) \/ TestLimit(c)
         PROVE  UNCHANGED <<state, returnCode, grounds>>
    BY <2>11 DEF Signal, LoadCount, TestLimit
  <2>12. ASSUME NEW t \in Threads, NEW u \in Threads, TablesLost(t, u)
         PROVE  UNCHANGED <<state, returnCode, grounds>>
    BY <2>12 DEF TablesLost
  <2>13. CASE UNCHANGED vars
    BY <2>13 DEF vars
  <2> QED
    BY <2>3, <2>4, <2>5, <2>6, <2>7, <2>8, <2>9, <2>10, <2>11, <2>12, <2>13
       DEF Next, Handler, Compute, Transfer, Works, Contract!ContractNext
<1> QED
  BY <1>1, <1>2, Invariant, PTL
     DEF Spec, ImplementsContract, Contract!ContractSpec, Contract!contractVars

-----------------------------------------------------------------------------
(* Sessions with slots of their own.                                       *)

\* No two sessions share a slot of the map, as with ids less than SESSION_MAP_SIZE apart.
OwnSlots == \A s, u \in Sessions : Slot(s) = Slot(u) => s = u

\* A request by id that a session could hear is never forgotten.
RequestsKept == [][byId \subseteq byId']_vars

\* A session that has yet to register has not been cancelled while it ran.
Unasked == \A t \in Threads : thread[t].pc = "register" => thread[t].session \notin byId

LEMMA UnaskedStep ==
  ASSUME Inv, Unasked, [Next]_vars
  PROVE  Unasked'
<1>0. TypeOK /\ Executed /\ Reported
  BY DEF Inv
<1>1. ASSUME NEW t \in Threads, NEW p, NEW v, Moves(t, p, v), p # "register", byId' \subseteq byId
      PROVE  Unasked'
  BY <1>1 DEF Moves, Unasked
<1>2. ASSUME UNCHANGED <<thread, byId>> PROVE Unasked'
  BY <1>2 DEF Unasked
<1>3. ASSUME NEW s \in Sessions, Cancel(s) PROVE Unasked'
  <2>1. byId' = byId \cup ({s} \cap SessionsAt(Awaiting)) /\ thread' = thread
    BY <1>3 DEF Cancel
  <2>2. \A t \in Threads : thread[t].pc = "register" => thread[t].session \notin SessionsAt(Awaiting)
    BY <1>0, SessionsAtSteps, AwaitingSteps
  <2> QED BY <2>1, <2>2 DEF Unasked
<1>4. ASSUME NEW c \in Callers, Signal(c) \/ Handler(c) PROVE Unasked'
  BY <1>2, <1>4 DEF Signal, Handler, LoadCount, StoreCount, TestLimit, historyVars
<1>5. ASSUME NEW t \in Threads, NEW s \in Sessions, Start(t, s) PROVE Unasked'
  <2>1. /\ thread'[t].session = s
        /\ \A u \in Threads \ {t} : thread'[u] = thread[u]
    BY <1>0, <1>5, Beginning
  <2>2. state[s] = "CREATED" /\ byId' = byId
    BY <1>5 DEF Start, historyVars
  <2>3. s \notin byId
    BY <1>0, <2>2 DEF Reported
  <2> QED BY <2>1, <2>2, <2>3 DEF Unasked
<1>6. ASSUME NEW t \in Threads, Fail(t) \/ Complete(t) PROVE Unasked'
  <2>1. byId' = byId
    BY <1>6 DEF Fail, Complete, historyVars
  <2> QED BY <1>0, <1>6, <2>1, Ending DEF Unasked
<1>7. ASSUME NEW t \in Threads, Works(t) PROVE Unasked'
  <2>1. /\ \E p \in Cleaned, v \in Codes : Moves(t, p, v)
        /\ byId' = byId
    BY <1>0, <1>7, Working DEF historyVars
  <2> QED BY <1>1, <2>1, CleanedOnly
<1>8. ASSUME NEW t \in Threads,
             AddSession(t) \/ ClearSigterm(t) \/ ClearSignals(t) \/ ReadSignals(t) \/ ReadCancel(t)
             \/ RemoveSession(t) \/ SetReturnCode(t)
      PROVE  Unasked'
  <2>1. byId' \subseteq byId
    BY <1>8
    DEF AddSession, ClearSigterm, ClearSignals, ReadSignals, ReadCancel, RemoveSession,
        SetReturnCode, historyVars
  <2>2. \E p, v : p # "register" /\ Moves(t, p, v)
    BY <1>0, <1>8, Passing, StepSets
  <2> QED BY <1>1, <2>1, <2>2
<1>9. ASSUME NEW t \in Threads, NEW u \in Threads, TablesLost(t, u) PROVE Unasked'
  BY <1>2, <1>9 DEF TablesLost, historyVars
<1>10. CASE UNCHANGED vars
  BY <1>2, <1>10 DEF vars, historyVars
<1> QED
  BY <1>3, <1>4, <1>5, <1>6, <1>7, <1>8, <1>9, <1>10 DEF Next, Compute, Transfer, Works

\* A request that AbstractSession forwards to a session (AbstractSession.java, 294-298) is never
\* overwritten if no other session uses its slot (ffmpegkit.c, 347-423).  With Reports: a session
\* that was cancelled by its id while it ran returns CANCEL, whatever else starts and ends.
THEOREM CancelFinal == ASSUME OwnSlots PROVE Spec => RequestsKept
<1>1. Init => Unasked
  BY DEF Init, Unasked
<1>2. Inv /\ Unasked /\ [Next]_vars => Unasked'
  BY UnaskedStep
<1>3. Inv /\ Unasked /\ [Next]_vars => [byId \subseteq byId']_vars
  <2> SUFFICES ASSUME Inv, Unasked, [Next]_vars PROVE byId \subseteq byId'
    OBVIOUS
  <2>0. TypeOK /\ byId \subseteq Sessions
    BY DEF Inv, TypeOK
  <2>1. ASSUME NEW t \in Threads, AddSession(t) PROVE byId \subseteq byId'
    <3>1. thread[t].session \in Sessions /\ thread[t].session \notin byId
      BY <2>0, <2>1, Busy DEF AddSession, Goes, Unasked
    <3>2. byId' = byId \ SameSlot(thread[t].session)
      BY <2>1 DEF AddSession
    <3>3. SameSlot(thread[t].session) = {thread[t].session}
      BY <3>1 DEF OwnSlots, SameSlot
    <3> QED BY <3>1, <3>2, <3>3
  <2>2. ASSUME NEW t \in Threads, RemoveSession(t) PROVE byId \subseteq byId'
    <3>1. thread[t].session \in Sessions
      BY <2>0, <2>2, Busy DEF RemoveSession, Goes
    <3>2. byId' = byId \ (SameSlot(thread[t].session) \ {thread[t].session})
      BY <2>2 DEF RemoveSession
    <3>3. SameSlot(thread[t].session) = {thread[t].session}
      BY <3>1 DEF OwnSlots, SameSlot
    <3> QED BY <3>2, <3>3
  <2>3. ASSUME NEW s \in Sessions, Cancel(s) PROVE byId \subseteq byId'
    BY <2>3 DEF Cancel
  <2>4. ASSUME NEW c \in Callers, Signal(c) \/ Handler(c) PROVE byId \subseteq byId'
    BY <2>4 DEF Signal, Handler, LoadCount, StoreCount, TestLimit, historyVars
  <2>5. ASSUME NEW t \in Threads,
               \/ ClearSigterm(t) \/ ClearSignals(t) \/ ReadSignals(t) \/ ReadCancel(t)
               \/ SetReturnCode(t) \/ Fail(t) \/ Complete(t) \/ Works(t)
               \/ \E s \in Sessions : Start(t, s)
        PROVE  byId \subseteq byId'
    BY <2>0, <2>5, Working
    DEF ClearSigterm, ClearSignals, ReadSignals, ReadCancel, SetReturnCode, Fail, Complete, Start,
        historyVars
  <2>6. ASSUME NEW t \in Threads, NEW u \in Threads, TablesLost(t, u) PROVE byId \subseteq byId'
    BY <2>6 DEF TablesLost, historyVars
  <2>7. CASE UNCHANGED vars
    BY <2>7 DEF vars, historyVars
  <2> QED BY <2>1, <2>2, <2>3, <2>4, <2>5, <2>6, <2>7 DEF Next, Compute, Transfer, Works
<1> QED BY <1>1, <1>2, <1>3, Invariant, PTL DEF Spec, RequestsKept
=============================================================================
