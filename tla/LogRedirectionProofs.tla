------------------------- MODULE LogRedirectionProofs -------------------------
(***************************************************************************)
(* Proofs about LogRedirection, for any number of sessions, messages,      *)
(* callback threads and controllers.                                       *)
(***************************************************************************)
EXTENDS LogRedirection, SequenceTheorems, FiniteSetTheorems, TLAPS

USE SessionsAssumption, MapSizeAssumption, BoundsAssumption

-----------------------------------------------------------------------------
(* Types.                                                                  *)

\* What TypeOK rests on: a session that is to append has not reached its bound, and a
\* thread that is to deliver or to discount holds a message.
Typed ==
  /\ TypeOK
  /\ \A s \in Sessions : session[s] = "adding" => generated[s] < MaxMessages
  /\ \A t \in CallbackThreads : thread[t] \in {"deliver", "uncount"} => data[t] \in Messages

LEMMA SlotInRange == ASSUME NEW s \in Nat PROVE Slot(s) \in 0..(SESSION_MAP_SIZE - 1)
BY DEF Slot

LEMMA TypedInit == Init => Typed
BY DEF Init, Typed, TypeOK, SessionSteps, ThreadSteps, ControlSteps, Messages, NoData

\* A session keeps the types.
LEMMA TypedSession ==
  ASSUME Typed, NEW s \in Sessions, Session(s)
  PROVE  Typed'
<1> USE DEF Typed, TypeOK, SessionSteps, SessionGoes, threadVars, controlVars
<1>1. CASE ResetMessagesInTransmit(s)
  <2> DEFINE k == Slot(s)
  <2>1. k \in 0..(SESSION_MAP_SIZE - 1)
    BY SlotInRange
  <2>2. inTransit' = [inTransit EXCEPT ![k] = 0]
    BY <1>1 DEF ResetMessagesInTransmit
  <2>3. inTransit' \in [0..(SESSION_MAP_SIZE - 1) -> Int]
    <3> HIDE DEF k
    <3> QED
      BY <2>1, <2>2
  <2> QED
    BY <1>1, <2>3 DEF ResetMessagesInTransmit
<1>2. ASSUME NEW kind \in Handlers, Emit(s, kind)
      PROVE  Typed'
  BY <1>2 DEF Emit
<1>3. CASE CallbackDataAdd(s)
  <2> DEFINE m == [session |-> s, n |-> generated[s] + 1]
  <2>1. generated' = [generated EXCEPT ![s] = generated[s] + 1] /\ m \in Messages
    BY <1>3 DEF CallbackDataAdd, Messages
  <2>2. callbackData' = Append(callbackData, m)
    BY <1>3 DEF CallbackDataAdd
  <2>3. callbackData' \in Seq(Messages)
    BY <2>1, <2>2
  <2> QED
    BY <1>3, <2>1, <2>3 DEF CallbackDataAdd
<1>4. CASE CountMessage(s)
  <2> DEFINE k == Slot(s)
  <2>1. k \in 0..(SESSION_MAP_SIZE - 1)
    BY SlotInRange
  <2>2. inTransit' = [inTransit EXCEPT ![k] = inTransit[k] + 1]
    BY <1>4 DEF CountMessage
  <2>3. inTransit' \in [0..(SESSION_MAP_SIZE - 1) -> Int]
    <3> HIDE DEF k
    <3> QED
      BY <2>1, <2>2
  <2> QED
    BY <1>4, <2>3 DEF CountMessage
<1>5. CASE EndExecution(s)
  BY <1>5 DEF EndExecution
<1> QED
  BY <1>1, <1>2, <1>3, <1>4, <1>5 DEF Session, InHandler

\* So does a callback thread,
LEMMA TypedThread ==
  ASSUME Typed, NEW t \in CallbackThreads, CallbackThread(t)
  PROVE  Typed'
<1> USE DEF Typed, TypeOK, ThreadSteps, ThreadGoes, sessionVars, controlVars
<1>1. CASE AttachCurrentThread(t)
  BY <1>1 DEF AttachCurrentThread
<1>2. CASE TestEnabled(t)
  BY <1>2 DEF TestEnabled
<1>3. CASE CallbackDataRemove(t)
  <2>1. CASE callbackData = <<>>
    BY <1>3, <2>1 DEF CallbackDataRemove
  <2>2. CASE callbackData # <<>>
    <3>1. Head(callbackData) \in Messages /\ Tail(callbackData) \in Seq(Messages)
      BY <2>2, HeadTailProperties
    <3> QED
      BY <1>3, <2>2, <3>1 DEF CallbackDataRemove
  <2> QED
    BY <2>1, <2>2
<1>4. CASE CallJava(t)
  <2>1. data[t].session \in Sessions /\ data[t].n \in 1..MaxMessages
    BY <1>4 DEF CallJava, Messages
  <2>2. delivered' \in [Sessions -> Seq(1..MaxMessages)]
    <3> DEFINE x == data[t].session
               q == Append(delivered[x], data[t].n)
    <3>1. delivered[x] \in Seq(1..MaxMessages)
      BY <2>1
    <3>2. q \in Seq(1..MaxMessages)
      BY <2>1, <3>1, AppendProperties
    <3>3. delivered' = [delivered EXCEPT ![x] = q]
      BY <1>4 DEF CallJava
    <3> HIDE DEF x, q
    <3> QED
      BY <3>2, <3>3
  <2> QED
    BY <1>4, <2>2 DEF CallJava
<1>5. CASE UncountMessage(t)
  <2> DEFINE k == Slot(data[t].session)
  <2>1. k \in 0..(SESSION_MAP_SIZE - 1)
    BY <1>5, SlotInRange DEF UncountMessage, Messages
  <2>2. inTransit' = [inTransit EXCEPT ![k] = inTransit[k] - 1]
    BY <1>5 DEF UncountMessage
  <2>3. inTransit' \in [0..(SESSION_MAP_SIZE - 1) -> Int]
    <3> HIDE DEF k
    <3> QED
      BY <2>1, <2>2
  <2> QED
    BY <1>5, <2>3 DEF UncountMessage
<1>6. CASE MonitorWait(t)
  BY <1>6 DEF MonitorWait
<1> QED
  BY <1>1, <1>2, <1>3, <1>4, <1>5, <1>6 DEF CallbackThread

\* and a controller.
LEMMA TypedController ==
  ASSUME Typed, NEW c \in Controllers, Controller(c)
  PROVE  Typed'
<1> USE DEF Typed, TypeOK, ControlSteps, ThreadSteps, Handlers, ControlGoes, sessionVars,
        threadVars
<1>1. CASE EnableNativeRedirection(c)
  BY <1>1 DEF EnableNativeRedirection
<1>2. CASE CreateCallbackThread(c)
  BY <1>2 DEF CreateCallbackThread, ThreadGoes
<1>3. CASE InstallLog(c) \/ InstallStatistics(c)
  BY <1>3 DEF InstallLog, InstallStatistics
<1>4. CASE DisableNativeRedirection(c)
  BY <1>4 DEF DisableNativeRedirection
<1>5. CASE UninstallLog(c) \/ UninstallStatistics(c)
  BY <1>5 DEF UninstallLog, UninstallStatistics
<1> QED
  BY <1>1, <1>2, <1>3, <1>4, <1>5 DEF Controller, Switching

LEMMA TypedInductive == Typed /\ [Next]_vars => Typed'
<1>1. CASE UNCHANGED vars
  BY <1>1 DEF Typed, TypeOK, vars, sessionVars, threadVars, controlVars
<1> QED
  BY <1>1, TypedSession, TypedThread, TypedController DEF Next

\* Every count, every list and every step stays in its range, for any number of sessions
\* that share a slot, and a thread never delivers what is not a message.
THEOREM TypeCorrect == Spec => []TypeOK
<1>1. Typed => TypeOK
  BY DEF Typed
<1> QED
  BY <1>1, TypedInit, TypedInductive, PTL DEF Spec

-----------------------------------------------------------------------------
(* Sequences without a repeated element.                                   *)

In(e, q) == \E i \in 1..Len(q) : q[i] = e
NoCopy(q) == \A i, j \in 1..Len(q) : q[i] = q[j] => i = j

LEMMA NewAppended ==
  ASSUME NEW S, NEW q \in Seq(S), NEW e \in S, NoCopy(q), ~In(e, q)
  PROVE  /\ NoCopy(Append(q, e))
         /\ \A x : In(x, Append(q, e)) <=> In(x, q) \/ x = e
<1> DEFINE r == Append(q, e)
<1>1. /\ Len(q) \in Nat /\ Len(r) = Len(q) + 1
      /\ \A i \in 1..Len(q) : r[i] = q[i]
      /\ r[Len(q) + 1] = e
  BY AppendProperties
<1> HIDE DEF r
<1>2. NoCopy(r)
  BY <1>1 DEF NoCopy, In
<1>3. ASSUME NEW x
      PROVE  In(x, r) <=> In(x, q) \/ x = e
  <2>1. ASSUME In(x, r)
        PROVE  In(x, q) \/ x = e
    <3>1. PICK i \in 1..Len(r) : r[i] = x
      BY <2>1 DEF In
    <3> QED
      BY <3>1, <1>1 DEF In
  <2>2. ASSUME In(x, q)
        PROVE  In(x, r)
    <3>1. PICK i \in 1..Len(q) : q[i] = x
      BY <2>2 DEF In
    <3>2. i \in 1..Len(r) /\ r[i] = x
      BY <3>1, <1>1
    <3> QED
      BY <3>2 DEF In
  <2>3. In(e, r)
    <3>1. Len(q) + 1 \in 1..Len(r)
      BY <1>1
    <3> QED
      BY <3>1, <1>1 DEF In
  <2> QED
    BY <2>1, <2>2, <2>3
<1> QED
  BY <1>2, <1>3 DEF r

LEMMA HeadTaken ==
  ASSUME NEW S, NEW q \in Seq(S), q # <<>>, NoCopy(q)
  PROVE  /\ Head(q) \in S /\ In(Head(q), q)
         /\ NoCopy(Tail(q))
         /\ \A x : In(x, Tail(q)) <=> In(x, q) /\ x # Head(q)
<1> DEFINE r == Tail(q)
<1>1. /\ Len(q) \in Nat /\ Len(q) > 0 /\ Len(r) = Len(q) - 1
      /\ \A i \in 1..Len(r) : r[i] = q[i + 1]
      /\ Head(q) = q[1] /\ Head(q) \in S
  BY HeadTailProperties
<1> HIDE DEF r
<1>2. NoCopy(r)
  <2> SUFFICES ASSUME NEW i \in 1..Len(r), NEW j \in 1..Len(r), r[i] = r[j]
               PROVE  i = j
    BY DEF NoCopy
  <2>1. i + 1 \in 1..Len(q) /\ j + 1 \in 1..Len(q) /\ q[i + 1] = q[j + 1]
    BY <1>1
  <2>2. i + 1 = j + 1
    BY <2>1 DEF NoCopy
  <2> QED
    BY <2>2, <1>1
<1>3. ASSUME NEW x
      PROVE  In(x, r) <=> In(x, q) /\ x # Head(q)
  <2>1. ASSUME In(x, r)
        PROVE  In(x, q) /\ x # Head(q)
    <3>1. PICK i \in 1..Len(r) : r[i] = x
      BY <2>1 DEF In
    <3>2. i + 1 \in 1..Len(q) /\ 1 \in 1..Len(q) /\ i + 1 # 1 /\ q[i + 1] = x
      BY <3>1, <1>1
    <3>3. q[i + 1] # q[1]
      BY <3>2 DEF NoCopy
    <3> QED
      BY <3>2, <3>3, <1>1 DEF In
  <2>2. ASSUME In(x, q), x # Head(q)
        PROVE  In(x, r)
    <3>1. PICK i \in 1..Len(q) : q[i] = x
      BY <2>2 DEF In
    <3>2. i # 1
      BY <3>1, <2>2, <1>1
    <3>3. i - 1 \in 1..Len(r) /\ r[i - 1] = q[(i - 1) + 1] /\ (i - 1) + 1 = i
      BY <3>1, <3>2, <1>1
    <3> QED
      BY <3>1, <3>3 DEF In
  <2> QED
    BY <2>1, <2>2
<1>4. In(Head(q), q)
  BY <1>1 DEF In
<1> QED
  BY <1>1, <1>2, <1>3, <1>4 DEF r

\* A sequence without a repeated element is as long as it has elements.
LEMMA NoCopyCount ==
  ASSUME NEW S, NEW q \in Seq(S), NoCopy(q)
  PROVE  Cardinality({q[i] : i \in DOMAIN q}) = Len(q)
<1> DEFINE n == Len(q)
           T == {q[i] : i \in DOMAIN q}
<1>1. n \in Nat /\ DOMAIN q = 1..n /\ q \in [1..n -> S]
  OBVIOUS
<1>2. q \in [1..n -> T]
  BY <1>1
<1>3. \A i, j \in 1..n : q[i] = q[j] => i = j
  BY DEF NoCopy
<1>4. \A x \in T : \E i \in 1..n : q[i] = x
  BY <1>1
<1> HIDE DEF n, T
<1>5. q \in Bijection(1..n, T)
  BY <1>2, <1>3, <1>4 DEF Bijection, Injection, Surjection, IsInjective
<1>6. ExistsBijection(1..n, T)
  BY <1>5 DEF ExistsBijection
<1>7. Cardinality(T) = n
  BY <1>1, <1>6, FS_CountingElements
<1> QED
  BY <1>7 DEF n, T

-----------------------------------------------------------------------------
(* Every message in one place.                                             *)

Queued(m) == In(m, callbackData)
Carried(m) == \E t \in CallbackThreads : thread[t] = "deliver" /\ data[t] = m
Delivered(m) == In(m.n, delivered[m.session])

\* No place holds a message twice,
Copies ==
  /\ NoCopy(callbackData)
  /\ \A s \in Sessions : NoCopy(delivered[s])
  /\ \A t, u \in CallbackThreads :
       thread[t] = "deliver" /\ thread[u] = "deliver" /\ data[t] = data[u] => t = u

\* and what has been generated is in the list, with a thread, or in Java.
Placed(m) ==
  /\ m.n <= generated[m.session] <=> Queued(m) \/ Carried(m) \/ Delivered(m)
  /\ ~(Queued(m) /\ Carried(m)) /\ ~(Queued(m) /\ Delivered(m)) /\ ~(Carried(m) /\ Delivered(m))

PlacedOnce == Copies /\ \A m \in Messages : Placed(m)

\* What a step does to a message: it leaves each place as it is, but for the new ones.
Moves(m, queued, carried, arrived) ==
  (Queued(m)' <=> queued) /\ (Carried(m)' <=> carried) /\ (Delivered(m)' <=> arrived)

LEMMA PlacedInit == Init => PlacedOnce
<1> SUFFICES ASSUME Init
             PROVE  PlacedOnce
  OBVIOUS
<1>1. Copies
  BY DEF Init, Copies, NoCopy
<1>2. ASSUME NEW m \in Messages
      PROVE  Placed(m)
  <2>1. m.n > 0 /\ m.session \in Sessions
    BY DEF Messages
  <2>2. ~Queued(m) /\ ~Carried(m) /\ ~Delivered(m) /\ generated[m.session] = 0
    BY <2>1 DEF Init, Queued, Carried, Delivered, In
  <2> QED
    BY <2>1, <2>2 DEF Placed, Messages
<1> QED
  BY <1>1, <1>2 DEF PlacedOnce

\* A step that moves no message.
LEMMA NothingMoves ==
  ASSUME PlacedOnce, UNCHANGED <<callbackData, delivered, generated>>,
         \A t \in CallbackThreads :
           /\ thread[t] = "deliver" <=> thread'[t] = "deliver"
           /\ thread[t] = "deliver" => data'[t] = data[t]
  PROVE  PlacedOnce' /\ \A m \in Messages : Moves(m, Queued(m), Carried(m), Delivered(m))
<1>1. Copies'
  BY DEF PlacedOnce, Copies, NoCopy
<1>2. ASSUME NEW m \in Messages
      PROVE  Placed(m)' /\ Moves(m, Queued(m), Carried(m), Delivered(m))
  <2>1. Queued(m)' <=> Queued(m)
    BY DEF Queued, In
  <2>2. Delivered(m)' <=> Delivered(m)
    BY DEF Delivered, In
  <2>3. Carried(m)' <=> Carried(m)
    BY DEF Carried
  <2>4. Placed(m)
    BY DEF PlacedOnce
  <2> QED
    BY <2>1, <2>2, <2>3, <2>4 DEF Placed, Moves
<1> QED
  BY <1>1, <1>2 DEF PlacedOnce

NewMessage(s) == [session |-> s, n |-> generated[s] + 1]

\* callbackDataAdd: the message is new.
LEMMA MessageAdded ==
  ASSUME Typed, PlacedOnce, NEW s \in Sessions, CallbackDataAdd(s)
  PROVE  /\ PlacedOnce'
         /\ \A m \in Messages :
              Moves(m, Queued(m) \/ m = NewMessage(s), Carried(m), Delivered(m))
<1> DEFINE e == NewMessage(s)
<1>1. /\ e \in Messages /\ e.session = s /\ e.n = generated[s] + 1
      /\ generated[s] \in Nat /\ callbackData \in Seq(Messages)
  BY DEF CallbackDataAdd, SessionGoes, Typed, TypeOK, Messages, NewMessage
<1>2. /\ generated' = [generated EXCEPT ![s] = generated[s] + 1]
      /\ UNCHANGED <<delivered, thread, data>>
      /\ generated \in [Sessions -> 0..MaxMessages]
  BY DEF CallbackDataAdd, threadVars, Typed, TypeOK
<1>3. callbackData' = Append(callbackData, e)
  BY <1>2 DEF CallbackDataAdd, Typed, TypeOK, NewMessage
<1>4. \A m \in Messages : m.session = s /\ m.n = generated[s] + 1 => m = e
  BY DEF Messages, NewMessage
<1> HIDE DEF e
<1>5. ~Queued(e) /\ ~Carried(e) /\ ~Delivered(e)
  <2>1. Placed(e)
    BY <1>1 DEF PlacedOnce
  <2> QED
    BY <1>1, <2>1 DEF Placed
<1>6. NoCopy(callbackData') /\ \A m : In(m, callbackData') <=> In(m, callbackData) \/ m = e
  BY <1>1, <1>3, <1>5, NewAppended DEF PlacedOnce, Copies, Queued
<1>7. Copies'
  BY <1>2, <1>6 DEF PlacedOnce, Copies, NoCopy
<1>8. ASSUME NEW m \in Messages
      PROVE  Placed(m)' /\ Moves(m, Queued(m) \/ m = e, Carried(m), Delivered(m))
  <2>1. Queued(m)' <=> Queued(m) \/ m = e
    BY <1>6 DEF Queued, In
  <2>2. (Carried(m)' <=> Carried(m)) /\ (Delivered(m)' <=> Delivered(m))
    BY <1>2 DEF Carried, Delivered, In
  <2>3. Placed(m) /\ m.session \in Sessions /\ m.n \in Nat
    BY DEF PlacedOnce, Messages
  <2>4. m.n <= generated'[m.session] <=> m.n <= generated[m.session] \/ m = e
    <3>1. CASE m.session = s
      <4>1. generated'[m.session] = generated[s] + 1
        BY <1>2, <3>1
      <4> QED
        BY <1>1, <1>4, <2>3, <3>1, <4>1
    <3>2. CASE m.session # s
      BY <1>1, <1>2, <2>3, <3>2
    <3> QED
      BY <3>1, <3>2
  <2> QED
    BY <1>5, <2>1, <2>2, <2>3, <2>4 DEF Placed, Moves
<1> QED
  BY <1>7, <1>8 DEF PlacedOnce, e

\* callbackDataRemove: the thread takes the head of the list.
LEMMA MessageTaken ==
  ASSUME Typed, PlacedOnce, NEW t \in CallbackThreads, CallbackDataRemove(t)
  PROVE  /\ PlacedOnce'
         /\ \A m \in Messages :
              LET h == Head(callbackData)
              IN  IF callbackData = <<>>
                    THEN Moves(m, Queued(m), Carried(m), Delivered(m))
                    ELSE Moves(m, Queued(m) /\ m # h, Carried(m) \/ m = h, Delivered(m))
<1>1. CASE callbackData = <<>>
  <2>1. \A u \in CallbackThreads :
          /\ thread[u] = "deliver" <=> thread'[u] = "deliver"
          /\ thread[u] = "deliver" => data'[u] = data[u]
    BY <1>1 DEF CallbackDataRemove, ThreadGoes, Typed, TypeOK
  <2>2. UNCHANGED <<callbackData, delivered, generated>>
    BY <1>1 DEF CallbackDataRemove, sessionVars
  <2> QED
    BY <1>1, <2>1, <2>2, NothingMoves
<1>2. CASE callbackData # <<>>
  <2> DEFINE h == Head(callbackData)
  <2>1. /\ callbackData' = Tail(callbackData)
        /\ thread[t] = "remove" /\ thread' = [thread EXCEPT ![t] = "deliver"]
        /\ data' = [data EXCEPT ![t] = h]
        /\ UNCHANGED <<delivered, generated>>
    BY <1>2 DEF CallbackDataRemove, ThreadGoes, sessionVars
  <2>2. /\ callbackData \in Seq(Messages)
        /\ thread \in [CallbackThreads -> ThreadSteps]
        /\ DOMAIN data = CallbackThreads
    BY DEF Typed, TypeOK
  <2>3. /\ h \in Messages /\ In(h, callbackData) /\ NoCopy(Tail(callbackData))
        /\ \A m : In(m, Tail(callbackData)) <=> In(m, callbackData) /\ m # h
    BY <1>2, <2>2, HeadTaken DEF PlacedOnce, Copies
  <2> HIDE DEF h
  <2>4. Placed(h) /\ Queued(h)
    BY <2>3 DEF PlacedOnce, Queued
  <2>5. ~Carried(h)
    BY <2>4 DEF Placed
  <2>6. \A u \in CallbackThreads :
          /\ thread'[u] = "deliver" <=> thread[u] = "deliver" \/ u = t
          /\ data'[u] = IF u = t THEN h ELSE data[u]
    BY <2>1, <2>2
  <2>7. Copies'
    <3>1. NoCopy(callbackData')
      BY <2>1, <2>3
    <3>2. NoCopy(callbackData)'
      BY <3>1 DEF NoCopy
    <3>3. \A s \in Sessions : NoCopy(delivered[s])'
      BY <2>1 DEF PlacedOnce, Copies, NoCopy
    <3>4. ASSUME NEW u \in CallbackThreads, NEW v \in CallbackThreads,
                 thread'[u] = "deliver", thread'[v] = "deliver", data'[u] = data'[v]
          PROVE  u = v
      BY <2>1, <2>5, <2>6, <3>4 DEF PlacedOnce, Copies, Carried
    <3> QED
      BY <3>2, <3>3, <3>4 DEF Copies
  <2>8. ASSUME NEW m \in Messages
        PROVE  Placed(m)' /\ Moves(m, Queued(m) /\ m # h, Carried(m) \/ m = h, Delivered(m))
    <3>1. Queued(m)' <=> Queued(m) /\ m # h
      BY <2>1, <2>3 DEF Queued, In
    <3>2. Carried(m)' <=> Carried(m) \/ m = h
      BY <2>1, <2>6 DEF Carried
    <3>3. (Delivered(m)' <=> Delivered(m)) /\ generated' = generated
      BY <2>1 DEF Delivered, In
    <3>4. Placed(m)
      BY DEF PlacedOnce
    <3> QED
      BY <2>4, <3>1, <3>2, <3>3, <3>4 DEF Placed, Moves
  <2> QED
    BY <1>2, <2>7, <2>8 DEF PlacedOnce, h
<1> QED
  BY <1>1, <1>2

\* The call into Java: the message arrives.
LEMMA MessageArrives ==
  ASSUME Typed, PlacedOnce, NEW t \in CallbackThreads, CallJava(t)
  PROVE  /\ PlacedOnce'
         /\ \A m \in Messages :
              Moves(m, Queued(m), Carried(m) /\ m # data[t], Delivered(m) \/ m = data[t])
<1> DEFINE e == data[t]
           x == e.session
           q == delivered[x]
<1>1. e \in Messages /\ x \in Sessions /\ e.n \in 1..MaxMessages
  BY DEF CallJava, ThreadGoes, Typed, Messages
<1>2. /\ thread[t] = "deliver" /\ thread' = [thread EXCEPT ![t] = "uncount"]
      /\ delivered' = [delivered EXCEPT ![x] = Append(q, e.n)]
      /\ UNCHANGED <<callbackData, data, generated>>
  BY DEF CallJava, ThreadGoes, sessionVars
<1>3. /\ thread \in [CallbackThreads -> ThreadSteps]
      /\ delivered \in [Sessions -> Seq(1..MaxMessages)]
  BY DEF Typed, TypeOK
<1>4. q \in Seq(1..MaxMessages) /\ NoCopy(q)
  BY <1>1, <1>3 DEF PlacedOnce, Copies
<1>5. \A m \in Messages : m.session = x /\ m.n = e.n => m = e
  BY <1>1 DEF Messages
<1>6. \A u \in CallbackThreads : thread'[u] = "deliver" <=> thread[u] = "deliver" /\ u # t
  BY <1>2, <1>3
<1>7. Placed(e) /\ Carried(e)
  BY <1>1, <1>2 DEF PlacedOnce, Carried
<1>8. ~In(e.n, q)
  BY <1>7 DEF Placed, Delivered
<1>9. NoCopy(Append(q, e.n)) /\ \A n : In(n, Append(q, e.n)) <=> In(n, q) \/ n = e.n
  BY <1>1, <1>4, <1>8, NewAppended
<1>10. delivered'[x] = Append(q, e.n) /\ \A s \in Sessions : s # x => delivered'[s] = delivered[s]
  BY <1>1, <1>2, <1>3
<1> HIDE DEF e, x, q
<1>11. Copies'
  <2>1. NoCopy(callbackData)'
    BY <1>2 DEF PlacedOnce, Copies, NoCopy
  <2>2. ASSUME NEW s \in Sessions
        PROVE  NoCopy(delivered[s])'
    <3>1. NoCopy(delivered'[s])
      BY <1>9, <1>10 DEF PlacedOnce, Copies
    <3> QED
      BY <3>1 DEF NoCopy
  <2>3. \A u, v \in CallbackThreads :
          thread'[u] = "deliver" /\ thread'[v] = "deliver" /\ data'[u] = data'[v] => u = v
    BY <1>2, <1>6 DEF PlacedOnce, Copies
  <2> QED
    BY <2>1, <2>2, <2>3 DEF Copies
<1>12. ASSUME NEW m \in Messages
       PROVE  Placed(m)' /\ Moves(m, Queued(m), Carried(m) /\ m # e, Delivered(m) \/ m = e)
  <2>1. Queued(m)' <=> Queued(m)
    BY <1>2 DEF Queued, In
  <2>2. Carried(m)' <=> Carried(m) /\ m # e
    <3>1. \A u \in CallbackThreads : thread[u] = "deliver" /\ data[u] = e => u = t
      BY <1>2 DEF PlacedOnce, Copies, e
    <3>2. data[t] = e
      BY DEF e
    <3> QED
      BY <1>2, <1>6, <3>1, <3>2 DEF Carried
  <2>3. Delivered(m)' <=> Delivered(m) \/ m = e
    <3>1. m.session \in Sessions
      BY DEF Messages
    <3>2. In(m.n, delivered'[m.session]) <=> In(m.n, delivered[m.session]) \/ m = e
      BY <1>5, <1>9, <1>10, <3>1 DEF x, q
    <3> QED
      BY <3>2 DEF Delivered, In
  <2>4. Placed(m) /\ generated' = generated
    BY <1>2 DEF PlacedOnce
  <2> QED
    BY <1>7, <2>1, <2>2, <2>3, <2>4 DEF Placed, Moves
<1> QED
  BY <1>11, <1>12 DEF PlacedOnce, e

\* Every other step moves no message.
LEMMA NothingElseMoves ==
  ASSUME Typed, PlacedOnce, [Next]_vars, ~\E s \in Sessions : CallbackDataAdd(s),
         ~\E t \in CallbackThreads : CallbackDataRemove(t) \/ CallJava(t)
  PROVE  /\ PlacedOnce' /\ callbackData' = callbackData
         /\ \A m \in Messages : Moves(m, Queued(m), Carried(m), Delivered(m))
<1> DEFINE Result == /\ PlacedOnce' /\ callbackData' = callbackData
                     /\ \A m \in Messages : Moves(m, Queued(m), Carried(m), Delivered(m))
<1>1. ASSUME NEW s \in Sessions, Session(s)
      PROVE  Result
  <2>1. UNCHANGED <<callbackData, delivered, generated, thread, data>>
    BY <1>1
    DEF Session, InHandler, ResetMessagesInTransmit, Emit, CountMessage, EndExecution, threadVars
  <2> QED
    BY <2>1, NothingMoves
<1>2. ASSUME NEW t \in CallbackThreads, CallbackThread(t)
      PROVE  Result
  <2>1. CASE AttachCurrentThread(t) \/ TestEnabled(t) \/ MonitorWait(t)
    <3>1. /\ UNCHANGED <<callbackData, delivered, generated, data>>
          /\ thread[t] # "deliver"
          /\ \E step \in {"test", "remove", "ended"} : thread' = [thread EXCEPT ![t] = step]
      BY <2>1 DEF AttachCurrentThread, TestEnabled, MonitorWait, ThreadGoes, sessionVars
    <3>2. \A u \in CallbackThreads : thread[u] = "deliver" <=> thread'[u] = "deliver"
      BY <3>1 DEF Typed, TypeOK
    <3> QED
      BY <3>1, <3>2, NothingMoves
  <2>2. CASE UncountMessage(t)
    <3>1. /\ UNCHANGED <<callbackData, delivered, generated>>
          /\ thread[t] = "uncount" /\ thread' = [thread EXCEPT ![t] = "test"]
          /\ data' = [data EXCEPT ![t] = NoData]
      BY <2>2 DEF UncountMessage, ThreadGoes, sessionVars
    <3>2. \A u \in CallbackThreads :
            /\ thread[u] = "deliver" <=> thread'[u] = "deliver"
            /\ thread[u] = "deliver" => data'[u] = data[u]
      BY <3>1 DEF Typed, TypeOK
    <3> QED
      BY <3>1, <3>2, NothingMoves
  <2> QED
    BY <1>2, <2>1, <2>2 DEF CallbackThread
<1>3. ASSUME NEW c \in Controllers, Controller(c)
      PROVE  Result
  <2>1. UNCHANGED <<callbackData, delivered, generated, data>>
    BY <1>3 DEF Controller, Switching, EnableNativeRedirection, CreateCallbackThread, InstallLog,
       InstallStatistics, DisableNativeRedirection, UninstallLog, UninstallStatistics,
       sessionVars, threadVars
  <2>2. \/ UNCHANGED thread
        \/ \E t \in CallbackThreads : thread[t] = "absent" /\ thread' = [thread EXCEPT ![t] = "attach"]
    BY <1>3 DEF Controller, Switching, EnableNativeRedirection, CreateCallbackThread, InstallLog,
       InstallStatistics, DisableNativeRedirection, UninstallLog, UninstallStatistics,
       threadVars, ThreadGoes
  <2>3. \A u \in CallbackThreads : thread[u] = "deliver" <=> thread'[u] = "deliver"
    BY <2>2 DEF Typed, TypeOK
  <2> QED
    BY <2>1, <2>3, NothingMoves
<1>4. CASE UNCHANGED vars
  BY <1>4, NothingMoves DEF vars, sessionVars, threadVars
<1> QED
  BY <1>1, <1>2, <1>3, <1>4 DEF Next

LEMMA PlacedInductive == Typed /\ PlacedOnce /\ [Next]_vars => PlacedOnce'
BY MessageAdded, MessageTaken, MessageArrives, NothingElseMoves

\* Numbers are those of the messages of a session in a list.
LEMMA NumbersIn ==
  ASSUME NEW q \in Seq(Messages), NEW s \in Sessions
  PROVE  /\ Numbers(q, s) = {n \in 1..MaxMessages : In([session |-> s, n |-> n], q)}
         /\ IsFiniteSet(Numbers(q, s))
<1> DEFINE m(n) == [session |-> s, n |-> n]
<1>1. DOMAIN q = 1..Len(q) /\ \A i \in 1..Len(q) : q[i] \in Messages
  OBVIOUS
<1>2. \A e \in Messages : e.n \in 1..MaxMessages /\ (e.session = s => e = m(e.n))
  BY DEF Messages
<1>3. \A n : m(n).session = s /\ m(n).n = n
  OBVIOUS
<1> HIDE DEF m
<1>4. ASSUME NEW n \in Numbers(q, s)
      PROVE  n \in 1..MaxMessages /\ In(m(n), q)
  <2>1. PICK i \in 1..Len(q) : q[i].session = s /\ q[i].n = n
    BY <1>1 DEF Numbers
  <2>2. q[i] = m(n) /\ n \in 1..MaxMessages
    BY <1>1, <1>2, <2>1
  <2> QED
    BY <2>2 DEF In
<1>5. ASSUME NEW n \in 1..MaxMessages, In(m(n), q)
      PROVE  n \in Numbers(q, s)
  <2>1. PICK i \in 1..Len(q) : q[i] = m(n)
    BY <1>5 DEF In
  <2> QED
    BY <1>1, <1>3, <2>1 DEF Numbers
<1>6. Numbers(q, s) = {n \in 1..MaxMessages : In(m(n), q)}
  BY <1>4, <1>5
<1>7. IsFiniteSet(1..MaxMessages)
  BY FS_Interval
<1>8. IsFiniteSet(Numbers(q, s))
  BY <1>6, <1>7, FS_Subset
<1> QED
  BY <1>6, <1>8 DEF m

\* Numbers, Held and Arrived are what is queued, carried and delivered of a session.
LEMMA PlacesOfSession ==
  ASSUME Typed, NEW s \in Sessions
  PROVE  LET m(n) == [session |-> s, n |-> n]
         IN  /\ Numbers(callbackData, s) = {n \in 1..MaxMessages : Queued(m(n))}
             /\ Held(s) = {n \in 1..MaxMessages : Carried(m(n))}
             /\ Arrived(s) = {n \in 1..MaxMessages : Delivered(m(n))}
<1> DEFINE m(n) == [session |-> s, n |-> n]
<1>1. /\ callbackData \in Seq(Messages) /\ DOMAIN callbackData = 1..Len(callbackData)
      /\ delivered[s] \in Seq(1..MaxMessages) /\ DOMAIN delivered[s] = 1..Len(delivered[s])
      /\ \A i \in 1..Len(callbackData) : callbackData[i] \in Messages
      /\ \A i \in 1..Len(delivered[s]) : delivered[s][i] \in 1..MaxMessages
  BY DEF Typed, TypeOK
<1>2. \A e \in Messages : e.n \in 1..MaxMessages /\ (e.session = s => e = m(e.n))
  BY DEF Messages
<1>3. \A n : m(n).session = s /\ m(n).n = n
  OBVIOUS
<1> HIDE DEF m
<1>4. Numbers(callbackData, s) = {n \in 1..MaxMessages : Queued(m(n))}
  BY <1>1, NumbersIn DEF Queued, m
<1>5. Held(s) = {n \in 1..MaxMessages : Carried(m(n))}
  <2>1. ASSUME NEW n \in Held(s)
        PROVE  n \in 1..MaxMessages /\ Carried(m(n))
    <3>1. PICK t \in CallbackThreads :
            thread[t] = "deliver" /\ data[t].session = s /\ data[t].n = n
      BY DEF Held
    <3>2. data[t] = m(n) /\ n \in 1..MaxMessages
      BY <1>2, <3>1 DEF Typed
    <3> QED
      BY <3>1, <3>2 DEF Carried
  <2>2. ASSUME NEW n \in 1..MaxMessages, Carried(m(n))
        PROVE  n \in Held(s)
    BY <1>3, <2>2 DEF Carried, Held
  <2> QED
    BY <2>1, <2>2
<1>6. Arrived(s) = {n \in 1..MaxMessages : Delivered(m(n))}
  <2>1. Arrived(s) = {delivered[s][i] : i \in 1..Len(delivered[s])}
    BY <1>1 DEF Arrived
  <2>2. \A n : Delivered(m(n)) <=> \E i \in 1..Len(delivered[s]) : delivered[s][i] = n
    BY <1>3 DEF Delivered, In
  <2> QED
    BY <1>1, <2>1, <2>2
<1> QED
  BY <1>4, <1>5, <1>6 DEF m

\* Three sets that share nothing and make up an interval have its size.
LEMMA ThreeParts ==
  ASSUME NEW g \in Nat, NEW Q, NEW H, NEW A, Q \cup H \cup A = 1..g,
         Q \cap H = {}, Q \cap A = {}, H \cap A = {}
  PROVE  Cardinality(Q) + Cardinality(H) + Cardinality(A) = g
<1>1. IsFiniteSet(1..g) /\ Cardinality(1..g) = g
  BY FS_Interval
<1>2. IsFiniteSet(Q) /\ IsFiniteSet(H) /\ IsFiniteSet(A)
  BY <1>1, FS_Subset
<1>3. /\ IsFiniteSet(Q \cup H)
      /\ Cardinality(Q \cup H) = Cardinality(Q) + Cardinality(H) - Cardinality(Q \cap H)
  BY <1>2, FS_Union
<1>4. Cardinality((Q \cup H) \cup A)
        = Cardinality(Q \cup H) + Cardinality(A) - Cardinality((Q \cup H) \cap A)
  BY <1>2, <1>3, FS_Union
<1>5. Cardinality({}) = 0
  BY FS_EmptySet
<1>6. (Q \cup H) \cap A = {}
  OBVIOUS
<1>7. /\ Cardinality(Q) \in Nat /\ Cardinality(H) \in Nat /\ Cardinality(A) \in Nat
  BY <1>2, FS_CardinalityType
<1>8. Cardinality(Q \cap H) = 0 /\ Cardinality((Q \cup H) \cap A) = 0
  BY <1>5, <1>6
<1>9. Cardinality((Q \cup H) \cup A) = g
  BY <1>1
<1>10. Cardinality(Q \cup H) = Cardinality(Q) + Cardinality(H)
  BY <1>3, <1>7, <1>8
<1> QED
  BY <1>4, <1>7, <1>8, <1>9, <1>10

LEMMA PlacedOnceCounts == Typed /\ PlacedOnce => NothingLostOrDoubled
<1> SUFFICES ASSUME Typed, PlacedOnce, NEW s \in Sessions
             PROVE  LET queued == Numbers(callbackData, s)
                    IN  /\ queued \union Held(s) \union Arrived(s) = 1..generated[s]
                        /\ Cardinality(queued) + Cardinality(Held(s)) + Len(delivered[s])
                              = generated[s]
  BY DEF NothingLostOrDoubled
<1> DEFINE m(n) == [session |-> s, n |-> n]
           Q == Numbers(callbackData, s)
           H == Held(s)
           A == Arrived(s)
<1>1. /\ Q = {n \in 1..MaxMessages : Queued(m(n))}
      /\ H = {n \in 1..MaxMessages : Carried(m(n))}
      /\ A = {n \in 1..MaxMessages : Delivered(m(n))}
  BY PlacesOfSession
<1>2. \A n \in 1..MaxMessages : m(n) \in Messages /\ m(n).n = n /\ m(n).session = s
  BY DEF Messages
<1>3. generated[s] \in 0..MaxMessages /\ delivered[s] \in Seq(1..MaxMessages)
  BY DEF Typed, TypeOK
<1>4. Cardinality(A) = Len(delivered[s])
  BY <1>3, NoCopyCount DEF PlacedOnce, Copies, Arrived
<1> HIDE DEF m, Q, H, A
<1>5. \A n \in 1..MaxMessages : Placed(m(n))
  BY <1>2 DEF PlacedOnce
<1>6. \A n \in 1..MaxMessages : n <= generated[s] <=> n \in Q \cup H \cup A
  BY <1>1, <1>2, <1>5 DEF Placed
<1>7. Q \cup H \cup A = 1..generated[s]
  BY <1>1, <1>3, <1>6
<1>8. Q \cap H = {} /\ Q \cap A = {} /\ H \cap A = {}
  BY <1>1, <1>5 DEF Placed
<1>9. Cardinality(Q) + Cardinality(H) + Cardinality(A) = generated[s]
  <2> DEFINE g == generated[s]
  <2>1. g \in Nat /\ Q \cup H \cup A = 1..g
    BY <1>3, <1>7
  <2> HIDE DEF g
  <2>2. Cardinality(Q) + Cardinality(H) + Cardinality(A) = g
    BY <1>8, <2>1, ThreeParts
  <2> QED
    BY <2>2 DEF g
<1> QED
  BY <1>4, <1>7, <1>9 DEF Q, H, A

\* No message of a session is lost or delivered twice on its way to Java, for any number of
\* callback threads that empty the list (lines 355-382 and 524-562).
THEOREM NoLoss == Spec => []NothingLostOrDoubled
<1> QED
  BY TypedInit, TypedInductive, PlacedInit, PlacedInductive, PlacedOnceCounts, PTL DEF Spec

-----------------------------------------------------------------------------
(* The order, until redirection is enabled again.                          *)

\* There is one callback thread at most,
Alone ==
  /\ \A t, u \in CallbackThreads : thread[t] # "absent" /\ thread[u] # "absent" => t = u
  /\ \A c \in Controllers : control[c] # "create"

\* the list holds the messages of a session in their order,
Sorted(q) ==
  \A i, j \in 1..Len(q) : q[i].session = q[j].session /\ i < j => q[i].n < q[j].n

\* and what has left a place is older than what is still there.
Follows(m, k) ==
  m.session = k.session
    => /\ Queued(k) /\ (Carried(m) \/ Delivered(m)) => m.n < k.n
       /\ Carried(k) /\ Delivered(m) => m.n < k.n

Ordered ==
  enables = 0 => Alone /\ Sorted(callbackData) /\ \A m, k \in Messages : Follows(m, k)

LEMMA OrderedInit == Init => Ordered
<1> SUFFICES ASSUME Init
             PROVE  Alone /\ Sorted(callbackData) /\ \A m, k \in Messages : Follows(m, k)
  BY DEF Ordered
<1>1. Alone
  BY DEF Init, Alone
<1>2. callbackData = <<>>
  BY DEF Init
<1>3. Sorted(callbackData)
  BY <1>2 DEF Sorted
<1>4. ASSUME NEW k \in Messages
      PROVE  ~Queued(k) /\ ~Carried(k)
  BY <1>2 DEF Init, Queued, Carried, In
<1> QED
  BY <1>1, <1>3, <1>4 DEF Follows

\* Only enabling makes a callback thread.
LEMMA AloneKept == Typed /\ Alone /\ enables = 0 /\ enables' = 0 /\ [Next]_vars => Alone'
<1> SUFFICES ASSUME Typed, Alone, enables = 0, enables' = 0, [Next]_vars
             PROVE  Alone'
  OBVIOUS
<1>1. ASSUME NEW s \in Sessions, Session(s)
      PROVE  Alone'
  <2>1. UNCHANGED <<thread, control>>
    BY <1>1 DEF Session, InHandler, ResetMessagesInTransmit, Emit, CallbackDataAdd, CountMessage,
       EndExecution, threadVars, controlVars
  <2> QED
    BY <2>1 DEF Alone
<1>2. ASSUME NEW t \in CallbackThreads, CallbackThread(t)
      PROVE  Alone'
  <2>1. /\ thread[t] # "absent" /\ UNCHANGED control
        /\ \E step \in ThreadSteps : thread' = [thread EXCEPT ![t] = step]
    BY <1>2 DEF CallbackThread, AttachCurrentThread, TestEnabled, CallbackDataRemove, CallJava,
       UncountMessage, MonitorWait, ThreadGoes, controlVars, ThreadSteps
  <2>2. \A u \in CallbackThreads : thread'[u] # "absent" => thread[u] # "absent"
    BY <2>1
  <2> QED
    BY <2>1, <2>2 DEF Alone
<1>3. ASSUME NEW c \in Controllers, Controller(c)
      PROVE  Alone'
  <2>1. ~EnableNativeRedirection(c) /\ ~CreateCallbackThread(c)
    BY DEF EnableNativeRedirection, CreateCallbackThread, ControlGoes, Alone
  <2>2. /\ UNCHANGED thread
        /\ \E step \in ControlSteps \ {"create"} : control' = [control EXCEPT ![c] = step]
    BY <1>3, <2>1 DEF Controller, Switching, InstallLog, InstallStatistics,
       DisableNativeRedirection, UninstallLog, UninstallStatistics, ControlGoes, threadVars,
       ControlSteps
  <2>3. \A d \in Controllers : control'[d] # "create"
    BY <2>2 DEF Alone, Typed, TypeOK
  <2> QED
    BY <2>2, <2>3 DEF Alone
<1>4. CASE UNCHANGED vars
  BY <1>4 DEF vars, threadVars, controlVars, Alone
<1> QED
  BY <1>1, <1>2, <1>3, <1>4 DEF Next

\* A step that moves no message leaves the order as it is.
LEMMA OrderUnmoved ==
  ASSUME Sorted(callbackData), \A m, k \in Messages : Follows(m, k),
         callbackData' = callbackData,
         \A m \in Messages : Moves(m, Queued(m), Carried(m), Delivered(m))
  PROVE  Sorted(callbackData)' /\ \A m, k \in Messages : Follows(m, k)'
<1>1. Sorted(callbackData)'
  BY DEF Sorted
<1> QED
  BY <1>1 DEF Follows, Moves

\* A new message is the last of its session,
LEMMA OrderAdded ==
  ASSUME Typed, PlacedOnce, Sorted(callbackData), \A m, k \in Messages : Follows(m, k),
         NEW s \in Sessions, CallbackDataAdd(s)
  PROVE  Sorted(callbackData)' /\ \A m, k \in Messages : Follows(m, k)'
<1> DEFINE e == NewMessage(s)
           q == callbackData
<1>1. /\ e \in Messages /\ e.session = s /\ e.n = generated[s] + 1
      /\ generated[s] \in Nat /\ q \in Seq(Messages)
  BY DEF CallbackDataAdd, SessionGoes, Typed, TypeOK, Messages, NewMessage
<1>2. callbackData' = Append(q, e)
  BY DEF CallbackDataAdd, Typed, TypeOK, NewMessage
<1>3. \A m \in Messages : Moves(m, Queued(m) \/ m = e, Carried(m), Delivered(m))
  BY MessageAdded
<1> HIDE DEF e
<1>4. ASSUME NEW m \in Messages, m.session = s, Queued(m) \/ Carried(m) \/ Delivered(m)
      PROVE  m.n < e.n
  <2>1. m.n <= generated[s]
    BY <1>4 DEF PlacedOnce, Placed
  <2>2. m.n \in Nat
    BY DEF Messages
  <2> QED
    BY <1>1, <2>1, <2>2
<1>5. Sorted(Append(q, e))
  <2> DEFINE r == Append(q, e)
  <2>1. /\ Len(q) \in Nat /\ Len(r) = Len(q) + 1 /\ r[Len(q) + 1] = e
        /\ \A i \in 1..Len(q) : r[i] = q[i] /\ q[i] \in Messages /\ Queued(q[i])
    <3>1. \A i \in 1..Len(q) : Queued(q[i])
      BY DEF Queued, In
    <3> QED
      BY <1>1, <3>1, AppendProperties
  <2> HIDE DEF r, q
  <2>2. ASSUME NEW i \in 1..Len(r), NEW j \in 1..Len(r), r[i].session = r[j].session, i < j
        PROVE  r[i].n < r[j].n
    <3>1. CASE j = Len(q) + 1
      <4>1. i \in 1..Len(q) /\ r[j] = e
        BY <2>1, <2>2, <3>1
      <4> QED
        BY <1>1, <1>4, <2>1, <2>2, <4>1
    <3>2. CASE j # Len(q) + 1
      <4>1. i \in 1..Len(q) /\ j \in 1..Len(q)
        BY <2>1, <2>2, <3>2
      <4> QED
        BY <2>1, <2>2, <4>1 DEF Sorted, q
    <3> QED
      BY <3>1, <3>2
  <2> QED
    BY <2>2 DEF Sorted, r
<1>6. Sorted(callbackData)'
  BY <1>2, <1>5 DEF Sorted
<1>7. ASSUME NEW m \in Messages, NEW k \in Messages
      PROVE  Follows(m, k)'
  <2>1. Follows(m, k)
    OBVIOUS
  <2> QED
    BY <1>1, <1>3, <1>4, <2>1 DEF Follows, Moves
<1> QED
  BY <1>6, <1>7

\* the thread takes the eldest,
LEMMA OrderTaken ==
  ASSUME Typed, PlacedOnce, Sorted(callbackData), \A m, k \in Messages : Follows(m, k),
         NEW t \in CallbackThreads, CallbackDataRemove(t)
  PROVE  Sorted(callbackData)' /\ \A m, k \in Messages : Follows(m, k)'
<1>1. CASE callbackData = <<>>
  <2>1. callbackData' = callbackData
    BY <1>1 DEF CallbackDataRemove
  <2> QED
    BY <1>1, <2>1, MessageTaken, OrderUnmoved
<1>2. CASE callbackData # <<>>
  <2> DEFINE h == Head(callbackData)
             q == callbackData
             r == Tail(callbackData)
  <2>1. callbackData' = r
    BY <1>2 DEF CallbackDataRemove
  <2>2. \A m \in Messages : Moves(m, Queued(m) /\ m # h, Carried(m) \/ m = h, Delivered(m))
    BY <1>2, MessageTaken
  <2>3. /\ Len(q) \in Nat /\ Len(q) > 0 /\ Len(r) = Len(q) - 1 /\ h = q[1]
        /\ \A i \in 1..Len(r) : r[i] = q[i + 1]
    BY <1>2, HeadTailProperties DEF Typed, TypeOK
  <2>4. Queued(h) /\ h \in Messages
    BY <1>2, HeadTaken DEF Typed, TypeOK, PlacedOnce, Copies, Queued
  <2> HIDE DEF h, r
  <2>5. Sorted(r)
    <3>1. \A i \in 1..Len(r) : i + 1 \in 1..Len(q)
      BY <2>3
    <3> QED
      BY <2>3, <3>1 DEF Sorted
  <2>6. Sorted(callbackData)'
    BY <2>1, <2>5 DEF Sorted
  <2>7. ASSUME NEW k \in Messages, Queued(k), k # h, k.session = h.session
        PROVE  h.n < k.n
    <3>1. PICK i \in 1..Len(q) : q[i] = k
      BY <2>7 DEF Queued, In
    <3>2. 1 \in 1..Len(q) /\ i # 1 /\ 1 < i
      BY <2>3, <2>7, <3>1
    <3> QED
      BY <2>3, <2>7, <3>1, <3>2 DEF Sorted
  <2>8. ASSUME NEW m \in Messages, NEW k \in Messages
        PROVE  Follows(m, k)'
    <3>1. Follows(m, k) /\ Follows(m, h)
      BY <2>4
    <3> QED
      BY <2>2, <2>4, <2>7, <3>1 DEF Follows, Moves
  <2> QED
    BY <2>6, <2>8
<1> QED
  BY <1>1, <1>2

\* and delivers it before it takes another.
LEMMA OrderArrives ==
  ASSUME Typed, PlacedOnce, Alone, Sorted(callbackData), \A m, k \in Messages : Follows(m, k),
         NEW t \in CallbackThreads, CallJava(t)
  PROVE  Sorted(callbackData)' /\ \A m, k \in Messages : Follows(m, k)'
<1> DEFINE e == data[t]
<1>1. callbackData' = callbackData /\ thread[t] = "deliver"
  BY DEF CallJava, ThreadGoes
<1>2. \A m \in Messages : Moves(m, Queued(m), Carried(m) /\ m # e, Delivered(m) \/ m = e)
  BY MessageArrives
<1>3. e \in Messages /\ Carried(e)
  BY <1>1 DEF Typed, Carried
<1>4. \A m \in Messages : Carried(m) => m = e
  BY <1>1 DEF Carried, Alone
<1> HIDE DEF e
<1>5. Sorted(callbackData)'
  BY <1>1 DEF Sorted
<1>6. ASSUME NEW m \in Messages, NEW k \in Messages
      PROVE  Follows(m, k)'
  <2>1. Follows(m, k)
    OBVIOUS
  <2> QED
    BY <1>2, <1>3, <1>4, <2>1 DEF Follows, Moves
<1> QED
  BY <1>5, <1>6

LEMMA OrderedInductive == Typed /\ PlacedOnce /\ Ordered /\ [Next]_vars => Ordered'
<1> SUFFICES ASSUME Typed, PlacedOnce, Ordered, [Next]_vars, enables' = 0
             PROVE  Alone' /\ Sorted(callbackData)' /\ \A m, k \in Messages : Follows(m, k)'
  BY DEF Ordered
<1>1. enables = 0
  <2>1. enables' = enables \/ enables' = enables + 1
    BY DEF Next, Session, InHandler, ResetMessagesInTransmit, Emit, CallbackDataAdd, CountMessage,
       EndExecution, CallbackThread, AttachCurrentThread, TestEnabled, CallbackDataRemove,
       CallJava, UncountMessage, MonitorWait, Controller, Switching, EnableNativeRedirection,
       CreateCallbackThread, InstallLog, InstallStatistics, DisableNativeRedirection,
       UninstallLog, UninstallStatistics, vars, controlVars
  <2> QED
    BY <2>1 DEF Typed, TypeOK
<1>2. Alone /\ Sorted(callbackData) /\ \A m, k \in Messages : Follows(m, k)
  BY <1>1 DEF Ordered
<1>3. Alone'
  BY <1>1, <1>2, AloneKept
<1>4. CASE \E s \in Sessions : CallbackDataAdd(s)
  BY <1>2, <1>3, <1>4, OrderAdded
<1>5. CASE \E t \in CallbackThreads : CallbackDataRemove(t)
  BY <1>2, <1>3, <1>5, OrderTaken
<1>6. CASE \E t \in CallbackThreads : CallJava(t)
  BY <1>2, <1>3, <1>6, OrderArrives
<1>7. CASE /\ ~\E s \in Sessions : CallbackDataAdd(s)
           /\ ~\E t \in CallbackThreads : CallbackDataRemove(t) \/ CallJava(t)
  BY <1>2, <1>3, <1>7, NothingElseMoves, OrderUnmoved
<1> QED
  BY <1>4, <1>5, <1>6, <1>7

\* So what a thread carries is the next message of its session.
LEMMA CarriesNext ==
  ASSUME Typed, PlacedOnce, Alone, \A m, k \in Messages : Follows(m, k),
         NEW t \in CallbackThreads, thread[t] = "deliver"
  PROVE  data[t].n = Len(delivered[data[t].session]) + 1
<1> DEFINE e == data[t]
           s == e.session
           n == e.n
           m(k) == [session |-> s, n |-> k]
           A == Arrived(s)
<1>1. e \in Messages /\ s \in Sessions /\ n \in 1..MaxMessages /\ Carried(e)
  BY DEF Typed, Messages, Carried
<1>2. A = {k \in 1..MaxMessages : Delivered(m(k))}
  BY <1>1, PlacesOfSession
<1>3. \A k \in 1..MaxMessages : m(k) \in Messages /\ m(k).session = s /\ m(k).n = k
  BY <1>1 DEF Messages
<1>4. \A f \in Messages : Carried(f) => f = e
  BY DEF Carried, Alone
<1>5. n <= generated[s] /\ generated[s] \in 0..MaxMessages
  BY <1>1 DEF PlacedOnce, Placed, Typed, TypeOK
<1>6. delivered[s] \in Seq(1..MaxMessages) /\ NoCopy(delivered[s])
  BY <1>1 DEF Typed, TypeOK, PlacedOnce, Copies
<1>7. Cardinality(A) = Len(delivered[s])
  BY <1>6, NoCopyCount DEF Arrived
<1> HIDE DEF m, A
<1>8. ASSUME NEW k \in 1..(n - 1)
      PROVE  k \in A
  <2>1. k \in 1..MaxMessages /\ k < n /\ k <= generated[s]
    BY <1>1, <1>5
  <2>2. m(k) \in Messages /\ m(k).session = s /\ m(k).n = k
    BY <1>3, <2>1
  <2>3. Queued(m(k)) \/ Carried(m(k)) \/ Delivered(m(k))
    BY <2>1, <2>2 DEF PlacedOnce, Placed
  <2>4. ~Queued(m(k))
    <3>1. Follows(e, m(k))
      BY <1>1, <2>2
    <3>2. ~(n < k)
      BY <1>1, <2>1
    <3> QED
      BY <1>1, <2>2, <3>1, <3>2 DEF Follows
  <2>5. ~Carried(m(k))
    BY <1>1, <1>4, <2>1, <2>2
  <2> QED
    BY <1>2, <2>1, <2>3, <2>4, <2>5
<1>9. ASSUME NEW k \in A
      PROVE  k \in 1..(n - 1)
  <2>1. k \in 1..MaxMessages /\ Delivered(m(k))
    BY <1>2
  <2>2. Follows(m(k), e)
    BY <1>1, <1>3, <2>1
  <2>3. k < n
    BY <1>1, <1>3, <2>1, <2>2 DEF Follows
  <2> QED
    BY <1>1, <2>1, <2>3
<1>10. Cardinality(A) = n - 1
  <2> DEFINE j == n - 1
  <2>1. j \in Nat
    <3> HIDE DEF n
    <3> QED
      BY <1>1
  <2>2. A = 1..j
    <3> HIDE DEF j
    <3>1. \A k : k \in A <=> k \in 1..j
      BY <1>8, <1>9 DEF j
    <3> QED
      BY <3>1, Zenon
  <2>3. Cardinality(A) = j
    <3> HIDE DEF j
    <3> QED
      BY <2>1, <2>2, FS_Interval
  <2> QED
    BY <2>3
<1> QED
  BY <1>1, <1>7, <1>10

LEMMA ChannelStep ==
  Typed /\ PlacedOnce /\ Ordered /\ [Next]_vars
    => [Channel!ChannelNext]_(Channel!channelVars)
<1> SUFFICES ASSUME Typed, PlacedOnce, Ordered, [Next]_vars
             PROVE  [Channel!ChannelNext]_(Channel!channelVars)
  OBVIOUS
<1> USE DEF Channel!ChannelNext, Channel!channelVars
<1>1. ASSUME NEW s \in Sessions, CallbackDataAdd(s)
      PROVE  Channel!Send(s)
  BY <1>1 DEF CallbackDataAdd, controlVars, Channel!Send
<1>2. ASSUME NEW t \in CallbackThreads, CallJava(t)
      PROVE  Channel!Receive(data[t].session)
  <2> DEFINE e == data[t]
             s == e.session
  <2>1. /\ thread[t] = "deliver" /\ delivered' = [delivered EXCEPT ![s] = Append(delivered[s], e.n)]
        /\ UNCHANGED <<generated, enables>>
    BY <1>2 DEF CallJava, ThreadGoes, sessionVars, controlVars
  <2>2. e \in Messages /\ Carried(e) /\ s \in Sessions /\ e.n \in 1..MaxMessages
    BY <2>1 DEF Typed, Carried, Messages
  <2>3. e.n \in 1..generated[s] /\ ~Delivered(e)
    <3>1. e.n <= generated[s] /\ ~Delivered(e)
      BY <2>2 DEF PlacedOnce, Placed
    <3>2. generated[s] \in Nat
      <4> HIDE DEF e, s
      <4> QED
        BY <2>2 DEF Typed, TypeOK
    <3> QED
      BY <2>2, <3>1, <3>2
  <2>4. \A i \in DOMAIN delivered[s] : delivered[s][i] # e.n
    <3>1. DOMAIN delivered[s] = 1..Len(delivered[s])
      BY <2>2 DEF Typed, TypeOK
    <3> QED
      BY <2>3, <3>1 DEF Delivered, In
  <2>5. enables = 0 => e.n = Len(delivered[s]) + 1
    BY <2>1, CarriesNext DEF Ordered
  <2> HIDE DEF e, s
  <2>6. Channel!Receive(s)
    BY <2>1, <2>3, <2>4, <2>5 DEF Channel!Receive
  <2> QED
    BY <2>6 DEF e, s
<1>3. ASSUME NEW c \in Controllers, EnableNativeRedirection(c)
      PROVE  Channel!EnableAgain
  BY <1>3 DEF EnableNativeRedirection, sessionVars, Typed, TypeOK, Channel!EnableAgain
<1>4. CASE /\ ~\E s \in Sessions : CallbackDataAdd(s)
           /\ ~\E t \in CallbackThreads : CallJava(t)
           /\ ~\E c \in Controllers : EnableNativeRedirection(c)
  <2>1. UNCHANGED <<generated, delivered, enables>>
    BY <1>4 DEF Next, Session, InHandler, ResetMessagesInTransmit, Emit, CountMessage,
       EndExecution, CallbackThread, AttachCurrentThread, TestEnabled, CallbackDataRemove,
       UncountMessage, MonitorWait, Controller, Switching, CreateCallbackThread, InstallLog,
       InstallStatistics, DisableNativeRedirection, UninstallLog, UninstallStatistics, vars,
       sessionVars, controlVars
  <2> QED
    BY <2>1
<1>5. ASSUME NEW t \in CallbackThreads, CallJava(t)
      PROVE  data[t].session \in Sessions
  BY <1>5 DEF CallJava, ThreadGoes, Typed, Messages
<1> QED
  BY <1>1, <1>2, <1>3, <1>4, <1>5

\* A session and its Java object are the two ends of a channel that loses and repeats
\* nothing, and keeps the order until redirection is enabled again (lines 262-291, 355-382).
THEOREM Refinement == Spec => ImplementsChannel
<1>1. Init => Channel!ChannelInit
  BY DEF Init, Channel!ChannelInit
<1> QED
  BY <1>1, TypedInit, TypedInductive, PlacedInit, PlacedInductive, OrderedInit, OrderedInductive,
     ChannelStep, PTL DEF Spec, ImplementsChannel, Channel!ChannelSpec

-----------------------------------------------------------------------------
(* The counts.  Every SESSION_MAP_SIZE-th session has the same slot of the *)
(* array of counts, and resets it when it starts.                          *)

Slots == 0..(SESSION_MAP_SIZE - 1)

QueuedIn(k) == {m \in Messages : Queued(m) /\ Slot(m.session) = k}
UncountedIn(k) == {t \in CallbackThreads :
                    thread[t] \in {"deliver", "uncount"} /\ Slot(data[t].session) = k}
CountingIn(k) == {s \in Sessions : session[s] = "counting" /\ Slot(s) = k}

\* No session starts while a message is on its way of another one with its slot: sessions
\* that share a slot are SESSION_MAP_SIZE calls apart.
QuietSlot(k) == QueuedIn(k) = {} /\ UncountedIn(k) = {} /\ CountingIn(k) = {}
QuietStarts == \A s \in Sessions : ResetMessagesInTransmit(s) => QuietSlot(Slot(s))

\* A count is that of the messages of its slot that are in transit, but for those just
\* appended.
SlotBalance(k) ==
  /\ IsFiniteSet(QueuedIn(k)) /\ IsFiniteSet(UncountedIn(k)) /\ IsFiniteSet(CountingIn(k))
  /\ inTransit[k] =
       Cardinality(QueuedIn(k)) + Cardinality(UncountedIn(k)) - Cardinality(CountingIn(k))

SlotsBalanced == \A k \in Slots : SlotBalance(k)

LEMMA SlotsInit == Init => SlotsBalanced
<1> SUFFICES ASSUME Init, NEW k \in Slots
             PROVE  SlotBalance(k)
  BY DEF SlotsBalanced
<1>1. QueuedIn(k) = {} /\ UncountedIn(k) = {} /\ CountingIn(k) = {}
  BY DEF Init, QueuedIn, Queued, In, UncountedIn, CountingIn
<1>2. inTransit[k] = 0
  BY DEF Init, Slots
<1> QED
  BY <1>1, <1>2, FS_EmptySet DEF SlotBalance

\* What a step adds to the three sets it adds to the count.
LEMMA SlotSums ==
  ASSUME Typed, NEW k \in Slots, SlotBalance(k),
         NEW q \in Int, NEW u \in Int, NEW c \in Int,
         IsFiniteSet(QueuedIn(k))', Cardinality(QueuedIn(k))' = Cardinality(QueuedIn(k)) + q,
         IsFiniteSet(UncountedIn(k))', Cardinality(UncountedIn(k))' = Cardinality(UncountedIn(k)) + u,
         IsFiniteSet(CountingIn(k))', Cardinality(CountingIn(k))' = Cardinality(CountingIn(k)) + c,
         inTransit'[k] = inTransit[k] + (q + u - c)
  PROVE  SlotBalance(k)'
<1> DEFINE Q == Cardinality(QueuedIn(k))
           U == Cardinality(UncountedIn(k))
           C == Cardinality(CountingIn(k))
<1>1. Q \in Nat /\ U \in Nat /\ C \in Nat
  BY FS_CardinalityType DEF SlotBalance
<1>2. inTransit[k] = Q + U - C
  BY DEF SlotBalance
<1>3. Q' = Q + q /\ U' = U + u /\ C' = C + c /\ inTransit'[k] = inTransit[k] + (q + u - c)
  OBVIOUS
<1> HIDE DEF Q, U, C
<1>4. inTransit'[k] = (Q + q) + (U + u) - (C + c)
  BY <1>1, <1>2, <1>3
<1>5. inTransit'[k] = Q' + U' - C'
  BY <1>3, <1>4
<1> QED
  BY <1>5 DEF SlotBalance, Q, U, C

\* A step that changes none of the three.
LEMMA SlotKept ==
  ASSUME Typed, NEW k \in Slots, SlotBalance(k), QueuedIn(k)' = QueuedIn(k),
         UncountedIn(k)' = UncountedIn(k), CountingIn(k)' = CountingIn(k),
         inTransit'[k] = inTransit[k]
  PROVE  SlotBalance(k)'
BY DEF SlotBalance

LEMMA SlotChanged ==
  ASSUME Typed, NEW s \in Sessions, NEW n, inTransit' = [inTransit EXCEPT ![Slot(s)] = n],
         NEW k \in Slots
  PROVE  inTransit'[k] = IF k = Slot(s) THEN n ELSE inTransit[k]
<1> DEFINE j == Slot(s)
<1>1. j \in Slots
  BY SlotInRange DEF Slots
<1> HIDE DEF j
<1>2. inTransit' = [inTransit EXCEPT ![j] = n]
  BY DEF j
<1>3. inTransit'[k] = IF k = j THEN n ELSE inTransit[k]
  BY <1>1, <1>2 DEF Typed, TypeOK, Slots
<1> QED
  BY <1>3 DEF j

\* The thread of a session.
LEMMA SlotSession ==
  ASSUME Typed, PlacedOnce, NEW s \in Sessions, Session(s), QuietStarts,
         NEW k \in Slots, SlotBalance(k)
  PROVE  SlotBalance(k)'
<1>1. UncountedIn(k)' = UncountedIn(k)
  BY DEF Session, InHandler, ResetMessagesInTransmit, Emit, CallbackDataAdd, CountMessage,
     EndExecution, threadVars, UncountedIn
<1>2. \A step : session' = [session EXCEPT ![s] = step]
        => \A r \in Sessions : session'[r] = IF r = s THEN step ELSE session[r]
  BY DEF Typed, TypeOK
<1>3. inTransit[k] \in Int
  BY DEF Typed, TypeOK, Slots
<1>4. ASSUME callbackData' = callbackData
      PROVE  QueuedIn(k)' = QueuedIn(k)
  BY <1>4 DEF QueuedIn, Queued, In
<1>5. CASE ResetMessagesInTransmit(s)
  <2>1. /\ session[s] = "created" /\ session' = [session EXCEPT ![s] = "running"]
        /\ inTransit' = [inTransit EXCEPT ![Slot(s)] = 0]
        /\ callbackData' = callbackData
    BY <1>5 DEF ResetMessagesInTransmit, SessionGoes
  <2>2. CountingIn(k)' = CountingIn(k)
    BY <1>2, <2>1 DEF CountingIn
  <2>3. k = Slot(s) => inTransit[k] = 0
    BY <1>5, FS_EmptySet DEF QuietStarts, QuietSlot, SlotBalance
  <2>4. inTransit'[k] = inTransit[k]
    BY <2>1, <2>3, SlotChanged
  <2> QED
    BY <1>1, <1>4, <2>1, <2>2, <2>4, SlotKept
<1>6. CASE EndExecution(s) \/ \E kind \in Handlers : Emit(s, kind)
  <2>1. /\ session[s] # "counting"
        /\ \E step \in {"adding", "ended"} : session' = [session EXCEPT ![s] = step]
        /\ UNCHANGED <<inTransit, callbackData>>
    BY <1>6 DEF EndExecution, Emit, SessionGoes
  <2>2. CountingIn(k)' = CountingIn(k)
    BY <1>2, <2>1 DEF CountingIn
  <2> QED
    BY <1>1, <1>4, <2>1, <2>2, SlotKept
<1>7. CASE CountMessage(s)
  <2>1. /\ session[s] = "counting" /\ session' = [session EXCEPT ![s] = "running"]
        /\ inTransit' = [inTransit EXCEPT ![Slot(s)] = inTransit[Slot(s)] + 1]
        /\ callbackData' = callbackData
    BY <1>7 DEF CountMessage, SessionGoes
  <2>2. inTransit'[k] = IF k = Slot(s) THEN inTransit[k] + 1 ELSE inTransit[k]
    BY <2>1, SlotChanged
  <2>3. CASE k = Slot(s)
    <3>1. s \in CountingIn(k) /\ CountingIn(k)' = CountingIn(k) \ {s}
      <4>1. \A r \in Sessions : session'[r] = IF r = s THEN "running" ELSE session[r]
        BY <1>2, <2>1
      <4> QED
        BY <2>1, <2>3, <4>1 DEF CountingIn
    <3>2. IsFiniteSet(CountingIn(k))' /\ Cardinality(CountingIn(k))' = Cardinality(CountingIn(k)) - 1
      BY <3>1, FS_RemoveElement DEF SlotBalance
    <3>3. Cardinality(CountingIn(k)) \in Nat /\ Cardinality(QueuedIn(k)) \in Nat
          /\ Cardinality(UncountedIn(k)) \in Nat
      BY FS_CardinalityType DEF SlotBalance
    <3> DEFINE c == 0 - 1
    <3>4. c \in Int /\ Cardinality(CountingIn(k))' = Cardinality(CountingIn(k)) + c
      BY <3>2, <3>3
    <3>5. inTransit'[k] = inTransit[k] + (0 + 0 - c)
      BY <1>3, <2>2, <2>3
    <3> HIDE DEF c
    <3>6. /\ IsFiniteSet(QueuedIn(k))' /\ Cardinality(QueuedIn(k))' = Cardinality(QueuedIn(k)) + 0
          /\ IsFiniteSet(UncountedIn(k))'
          /\ Cardinality(UncountedIn(k))' = Cardinality(UncountedIn(k)) + 0
      BY <1>1, <1>4, <2>1, <3>3 DEF SlotBalance
    <3> QED
      BY <3>2, <3>4, <3>5, <3>6, SlotSums
  <2>4. CASE k # Slot(s)
    <3>1. CountingIn(k)' = CountingIn(k)
      BY <1>2, <2>1, <2>4 DEF CountingIn
    <3> QED
      BY <1>1, <1>4, <2>1, <2>2, <2>4, <3>1, SlotKept
  <2> QED
    BY <2>3, <2>4
<1>8. CASE CallbackDataAdd(s)
  <2> DEFINE e == NewMessage(s)
  <2>1. /\ session[s] = "adding" /\ session' = [session EXCEPT ![s] = "counting"]
        /\ UNCHANGED inTransit
    BY <1>8 DEF CallbackDataAdd, SessionGoes
  <2>2. e \in Messages /\ e.session = s /\ ~Queued(e)
    BY <2>1 DEF Typed, TypeOK, Messages, NewMessage, PlacedOnce, Placed
  <2>3. \A m \in Messages : Queued(m)' <=> Queued(m) \/ m = e
    BY <1>8, MessageAdded DEF Moves
  <2> HIDE DEF e
  <2>4. CASE k = Slot(s)
    <3>1. QueuedIn(k)' = QueuedIn(k) \cup {e} /\ e \notin QueuedIn(k)
      BY <2>2, <2>3, <2>4 DEF QueuedIn
    <3>2. CountingIn(k)' = CountingIn(k) \cup {s} /\ s \notin CountingIn(k)
      BY <1>2, <2>1, <2>4 DEF CountingIn
    <3>3. IsFiniteSet(QueuedIn(k))' /\ Cardinality(QueuedIn(k))' = Cardinality(QueuedIn(k)) + 1
      BY <3>1, FS_AddElement DEF SlotBalance
    <3>4. IsFiniteSet(CountingIn(k))' /\ Cardinality(CountingIn(k))' = Cardinality(CountingIn(k)) + 1
      BY <3>2, FS_AddElement DEF SlotBalance
    <3>5. Cardinality(UncountedIn(k)) \in Nat
      BY FS_CardinalityType DEF SlotBalance
    <3>6. /\ IsFiniteSet(UncountedIn(k))'
          /\ Cardinality(UncountedIn(k))' = Cardinality(UncountedIn(k)) + 0
      BY <1>1, <3>5 DEF SlotBalance
    <3>7. inTransit'[k] = inTransit[k] + (1 + 0 - 1)
      BY <1>3, <2>1
    <3> QED
      BY <3>3, <3>4, <3>6, <3>7, SlotSums
  <2>5. CASE k # Slot(s)
    <3>1. QueuedIn(k)' = QueuedIn(k)
      BY <2>2, <2>3, <2>5 DEF QueuedIn
    <3>2. CountingIn(k)' = CountingIn(k)
      BY <1>2, <2>1, <2>5 DEF CountingIn
    <3> QED
      BY <1>1, <2>1, <3>1, <3>2, SlotKept
  <2> QED
    BY <2>4, <2>5
<1> QED
  BY <1>5, <1>6, <1>7, <1>8 DEF Session, InHandler

\* callbackDataRemove: a message goes from the list to a thread, and is still not discounted.
LEMMA SlotRemove ==
  ASSUME Typed, PlacedOnce, NEW t \in CallbackThreads, CallbackDataRemove(t), callbackData # <<>>,
         NEW k \in Slots, SlotBalance(k)
  PROVE  SlotBalance(k)'
<1> DEFINE h == Head(callbackData)
<1>1. /\ thread[t] = "remove" /\ thread' = [thread EXCEPT ![t] = "deliver"]
      /\ data' = [data EXCEPT ![t] = h]
      /\ UNCHANGED <<inTransit, session>>
  BY DEF CallbackDataRemove, ThreadGoes, sessionVars
<1>2. h \in Messages /\ Queued(h)
  BY HeadTaken DEF Typed, TypeOK, PlacedOnce, Copies, Queued
<1>3. \A m \in Messages : Queued(m)' <=> Queued(m) /\ m # h
  BY MessageTaken DEF Moves
<1> HIDE DEF h
<1>4. \A u \in CallbackThreads :
        /\ thread'[u] = IF u = t THEN "deliver" ELSE thread[u]
        /\ data'[u] = IF u = t THEN h ELSE data[u]
  BY <1>1 DEF Typed, TypeOK
<1>5. CountingIn(k)' = CountingIn(k)
  BY <1>1 DEF CountingIn
<1>6. CASE Slot(h.session) = k
  <2>1. QueuedIn(k)' = QueuedIn(k) \ {h} /\ h \in QueuedIn(k)
    BY <1>2, <1>3, <1>6 DEF QueuedIn
  <2>2. UncountedIn(k)' = UncountedIn(k) \cup {t} /\ t \notin UncountedIn(k)
    BY <1>1, <1>4, <1>6 DEF UncountedIn
  <2>3. IsFiniteSet(QueuedIn(k))' /\ Cardinality(QueuedIn(k))' = Cardinality(QueuedIn(k)) - 1
    BY <2>1, FS_RemoveElement DEF SlotBalance
  <2>4. IsFiniteSet(UncountedIn(k))' /\ Cardinality(UncountedIn(k))' = Cardinality(UncountedIn(k)) + 1
    BY <2>2, FS_AddElement DEF SlotBalance
  <2>5. Cardinality(CountingIn(k)) \in Nat /\ Cardinality(QueuedIn(k)) \in Nat
    BY FS_CardinalityType DEF SlotBalance
  <2>6. Cardinality(QueuedIn(k))' = Cardinality(QueuedIn(k)) + (-1)
    BY <2>3, <2>5
  <2>7. /\ IsFiniteSet(CountingIn(k))'
        /\ Cardinality(CountingIn(k))' = Cardinality(CountingIn(k)) + 0
    BY <1>5, <2>5 DEF SlotBalance
  <2>8. inTransit'[k] = inTransit[k] + (-1 + 1 - 0)
    BY <1>1 DEF Typed, TypeOK, Slots
  <2> QED
    BY <2>3, <2>4, <2>6, <2>7, <2>8, SlotSums
<1>7. CASE Slot(h.session) # k
  <2>1. QueuedIn(k)' = QueuedIn(k)
    BY <1>2, <1>3, <1>7 DEF QueuedIn
  <2>2. UncountedIn(k)' = UncountedIn(k)
    BY <1>1, <1>4, <1>7 DEF UncountedIn
  <2> QED
    BY <1>1, <1>5, <2>1, <2>2, SlotKept
<1> QED
  BY <1>6, <1>7

\* The message of a thread is discounted.
LEMMA SlotUncount ==
  ASSUME Typed, NEW t \in CallbackThreads, UncountMessage(t), NEW k \in Slots, SlotBalance(k)
  PROVE  SlotBalance(k)'
<1> DEFINE s == data[t].session
<1>1. /\ thread[t] = "uncount" /\ thread' = [thread EXCEPT ![t] = "test"]
      /\ data' = [data EXCEPT ![t] = NoData]
      /\ inTransit' = [inTransit EXCEPT ![Slot(s)] = inTransit[Slot(s)] - 1]
      /\ UNCHANGED <<callbackData, session>>
  BY DEF UncountMessage, ThreadGoes, sessionVars
<1>2. s \in Sessions
  BY <1>1 DEF Typed, Messages
<1>3. \A u \in CallbackThreads :
        /\ thread'[u] = IF u = t THEN "test" ELSE thread[u]
        /\ u # t => data'[u] = data[u]
  BY <1>1 DEF Typed, TypeOK
<1>4. CountingIn(k)' = CountingIn(k) /\ QueuedIn(k)' = QueuedIn(k)
  BY <1>1 DEF CountingIn, QueuedIn, Queued, In
<1>5. inTransit'[k] = IF k = Slot(s) THEN inTransit[k] - 1 ELSE inTransit[k]
  <2> DEFINE n == inTransit[Slot(s)] - 1
  <2>1. inTransit' = [inTransit EXCEPT ![Slot(s)] = n]
    BY <1>1
  <2> HIDE DEF n, s
  <2>2. inTransit'[k] = IF k = Slot(s) THEN n ELSE inTransit[k]
    BY <1>2, <2>1, SlotChanged
  <2> QED
    BY <2>2 DEF n
<1>6. CASE Slot(s) = k
  <2>1. UncountedIn(k)' = UncountedIn(k) \ {t} /\ t \in UncountedIn(k)
    BY <1>1, <1>3, <1>6 DEF UncountedIn
  <2>2. /\ IsFiniteSet(UncountedIn(k))'
        /\ Cardinality(UncountedIn(k))' = Cardinality(UncountedIn(k)) - 1
    BY <2>1, FS_RemoveElement DEF SlotBalance
  <2>3. /\ Cardinality(CountingIn(k)) \in Nat /\ Cardinality(QueuedIn(k)) \in Nat
        /\ Cardinality(UncountedIn(k)) \in Nat
    BY FS_CardinalityType DEF SlotBalance
  <2>4. Cardinality(UncountedIn(k))' = Cardinality(UncountedIn(k)) + (-1)
    BY <2>2, <2>3
  <2>5. /\ IsFiniteSet(CountingIn(k))' /\ Cardinality(CountingIn(k))' = Cardinality(CountingIn(k)) + 0
        /\ IsFiniteSet(QueuedIn(k))' /\ Cardinality(QueuedIn(k))' = Cardinality(QueuedIn(k)) + 0
    BY <1>4, <2>3 DEF SlotBalance
  <2>6. inTransit'[k] = inTransit[k] + (0 + (-1) - 0)
    <3>1. inTransit[k] \in Int
      BY DEF Typed, TypeOK, Slots
    <3> QED
      BY <1>5, <1>6, <3>1
  <2> QED
    BY <2>2, <2>4, <2>5, <2>6, SlotSums
<1>7. CASE Slot(s) # k
  <2>1. UncountedIn(k)' = UncountedIn(k)
    BY <1>1, <1>3, <1>7 DEF UncountedIn
  <2> QED
    BY <1>4, <1>5, <1>7, <2>1, SlotKept
<1> QED
  BY <1>6, <1>7

LEMMA SlotsInductive ==
  Typed /\ PlacedOnce /\ SlotsBalanced /\ [Next]_vars /\ [QuietStarts]_vars => SlotsBalanced'
<1> SUFFICES ASSUME Typed, PlacedOnce, SlotsBalanced, [Next]_vars, [QuietStarts]_vars,
                    NEW k \in Slots
             PROVE  SlotBalance(k)'
  BY DEF SlotsBalanced
<1>1. SlotBalance(k)
  BY DEF SlotsBalanced
<1>2. ASSUME UNCHANGED <<callbackData, inTransit, session>>, UncountedIn(k)' = UncountedIn(k)
      PROVE  SlotBalance(k)'
  <2>1. QueuedIn(k)' = QueuedIn(k) /\ CountingIn(k)' = CountingIn(k)
    BY <1>2 DEF QueuedIn, Queued, In, CountingIn
  <2> QED
    BY <1>1, <1>2, <2>1, SlotKept
<1>3. CASE UNCHANGED vars
  BY <1>2, <1>3 DEF vars, sessionVars, threadVars, UncountedIn
<1>4. ASSUME NEW s \in Sessions, Session(s), ~UNCHANGED vars
      PROVE  SlotBalance(k)'
  BY <1>1, <1>4, SlotSession
<1>5. ASSUME NEW t \in CallbackThreads, CallbackThread(t)
      PROVE  SlotBalance(k)'
  <2>1. CASE CallbackDataRemove(t) /\ callbackData # <<>>
    BY <1>1, <2>1, SlotRemove
  <2>2. CASE UncountMessage(t)
    BY <1>1, <2>2, SlotUncount
  <2>3. CASE CallJava(t)
    <3>1. /\ thread[t] = "deliver" /\ thread' = [thread EXCEPT ![t] = "uncount"]
          /\ UNCHANGED <<callbackData, inTransit, session, data>>
      BY <2>3 DEF CallJava, ThreadGoes, sessionVars
    <3>2. UncountedIn(k)' = UncountedIn(k)
      BY <3>1 DEF UncountedIn, Typed, TypeOK
    <3> QED
      BY <1>2, <3>1, <3>2
  <2>4. CASE \/ AttachCurrentThread(t) \/ TestEnabled(t) \/ MonitorWait(t)
             \/ CallbackDataRemove(t) /\ callbackData = <<>>
    <3>1. /\ thread[t] \notin {"deliver", "uncount"}
          /\ \E step \in {"test", "remove", "ended", "wait"} : thread' = [thread EXCEPT ![t] = step]
          /\ \E d : data' = [data EXCEPT ![t] = d]
          /\ UNCHANGED <<callbackData, inTransit, session>>
      <4>1. CASE CallbackDataRemove(t) /\ callbackData = <<>>
        BY <4>1 DEF CallbackDataRemove, ThreadGoes, sessionVars
      <4>2. CASE AttachCurrentThread(t) \/ TestEnabled(t) \/ MonitorWait(t)
        <5>1. data' = [data EXCEPT ![t] = data[t]]
          BY <4>2 DEF AttachCurrentThread, TestEnabled, MonitorWait, Typed, TypeOK
        <5> QED
          BY <4>2, <5>1 DEF AttachCurrentThread, TestEnabled, MonitorWait, ThreadGoes, sessionVars
      <4> QED
        BY <2>4, <4>1, <4>2
    <3>2. UncountedIn(k)' = UncountedIn(k)
      BY <3>1 DEF UncountedIn, Typed, TypeOK
    <3> QED
      BY <1>2, <3>1, <3>2
  <2> QED
    BY <1>5, <2>1, <2>2, <2>3, <2>4 DEF CallbackThread
<1>6. ASSUME NEW c \in Controllers, Controller(c)
      PROVE  SlotBalance(k)'
  <2>1. UNCHANGED <<callbackData, inTransit, session, data>>
    BY <1>6 DEF Controller, Switching, EnableNativeRedirection, CreateCallbackThread, InstallLog,
       InstallStatistics, DisableNativeRedirection, UninstallLog, UninstallStatistics,
       sessionVars, threadVars
  <2>2. \/ UNCHANGED thread
        \/ \E t \in CallbackThreads :
             thread[t] = "absent" /\ thread' = [thread EXCEPT ![t] = "attach"]
    BY <1>6 DEF Controller, Switching, EnableNativeRedirection, CreateCallbackThread, InstallLog,
       InstallStatistics, DisableNativeRedirection, UninstallLog, UninstallStatistics,
       threadVars, ThreadGoes
  <2>3. UncountedIn(k)' = UncountedIn(k)
    BY <2>1, <2>2 DEF UncountedIn, Typed, TypeOK
  <2> QED
    BY <1>2, <2>1, <2>3
<1> QED
  BY <1>3, <1>4, <1>5, <1>6 DEF Next

\* With no message of its slot in transit or being counted, a session has received all it
\* generated.
ArrivedInSlot ==
  \A s \in Sessions :
    CountingIn(Slot(s)) = {} /\ inTransit[Slot(s)] = 0 => Len(delivered[s]) = generated[s]

LEMMA EmptySlot ==
  ASSUME NEW Q, NEW U, IsFiniteSet(Q), IsFiniteSet(U), 0 = Cardinality(Q) + Cardinality(U) - 0
  PROVE  Q = {} /\ U = {}
<1>1. Cardinality(Q) \in Nat /\ Cardinality(U) \in Nat
  BY FS_CardinalityType
<1>2. Cardinality(Q) = 0 /\ Cardinality(U) = 0
  BY <1>1
<1> QED
  BY <1>2, FS_EmptySet

LEMMA BalancedArrived == Typed /\ PlacedOnce /\ SlotsBalanced => ArrivedInSlot
<1> SUFFICES ASSUME Typed, PlacedOnce, SlotsBalanced, NEW s \in Sessions,
                    CountingIn(Slot(s)) = {}, inTransit[Slot(s)] = 0
             PROVE  Len(delivered[s]) = generated[s]
  BY DEF ArrivedInSlot
<1> DEFINE k == Slot(s)
<1>1. SlotBalance(k)
  BY SlotInRange DEF SlotsBalanced, Slots
<1>2. 0 = Cardinality(QueuedIn(k)) + Cardinality(UncountedIn(k)) - 0
  BY <1>1, FS_EmptySet DEF SlotBalance
<1>3. QueuedIn(k) = {} /\ UncountedIn(k) = {}
  BY <1>1, <1>2, EmptySlot DEF SlotBalance
<1>4. Numbers(callbackData, s) = {}
  <2>1. \A n \in 1..MaxMessages : [session |-> s, n |-> n] \in Messages
    BY DEF Messages
  <2>2. \A n \in 1..MaxMessages : ~Queued([session |-> s, n |-> n])
    BY <1>3, <2>1 DEF QueuedIn
  <2> QED
    BY <2>2, PlacesOfSession
<1>5. Held(s) = {}
  BY <1>3 DEF Held, UncountedIn
<1>6. Len(delivered[s]) \in Nat
  BY DEF Typed, TypeOK
<1>7. Cardinality(Numbers(callbackData, s)) = 0 /\ Cardinality(Held(s)) = 0
  BY <1>4, <1>5, FS_EmptySet
<1> QED
  BY <1>6, <1>7, PlacedOnceCounts DEF NothingLostOrDoubled

\* However often the slots are used again, a count is that of the messages in transit in its
\* slot, less those being counted, and at zero with none being counted all of the slot has
\* arrived, as long as no session starts before all of the slot's last one has been discounted
\* (lines 290, 550-553 and 740).
THEOREM SlotCounts == Spec /\ [][QuietStarts]_vars => [](SlotsBalanced /\ ArrivedInSlot)
BY TypedInit, TypedInductive, PlacedInit, PlacedInductive, SlotsInit, SlotsInductive,
   BalancedArrived, PTL DEF Spec

-----------------------------------------------------------------------------
(* The counts, when no two sessions share a slot.                          *)

OwnSlots == \A s, r \in Sessions : Slot(s) = Slot(r) => s = r

\* A session that has not started has nothing in transit.
Started ==
  /\ \A s \in Sessions : session[s] = "created" => generated[s] = 0
  /\ \A t \in CallbackThreads :
       thread[t] \in {"deliver", "uncount"} => data[t].n <= generated[data[t].session]

LEMMA StartedInit == Init => Started
BY DEF Init, Started

LEMMA StartedInductive == Typed /\ PlacedOnce /\ Started /\ [Next]_vars => Started'
<1> SUFFICES ASSUME Typed, PlacedOnce, Started, [Next]_vars
             PROVE  Started'
  OBVIOUS
<1>1. ASSUME NEW s \in Sessions, Session(s)
      PROVE  Started'
  <2>1. UNCHANGED <<thread, data>>
    BY <1>1 DEF Session, InHandler, ResetMessagesInTransmit, Emit, CallbackDataAdd, CountMessage,
       EndExecution, threadVars
  <2>2. \/ UNCHANGED generated
        \/ session[s] = "adding" /\ generated' = [generated EXCEPT ![s] = generated[s] + 1]
    BY <1>1 DEF Session, InHandler, ResetMessagesInTransmit, Emit, CallbackDataAdd, CountMessage,
       EndExecution, SessionGoes
  <2>3. \E step \in SessionSteps \ {"created"} : session' = [session EXCEPT ![s] = step]
    BY <1>1 DEF Session, InHandler, ResetMessagesInTransmit, Emit, CallbackDataAdd, CountMessage,
       EndExecution, SessionGoes, SessionSteps
  <2>4. \A r \in Sessions : generated[r] \in Nat /\ generated'[r] \in Nat /\ generated[r] <= generated'[r]
    BY <2>2 DEF Typed, TypeOK
  <2>5. \A r \in Sessions : session'[r] = "created" => session[r] = "created" /\ generated'[r] = generated[r]
    BY <2>2, <2>3 DEF Typed, TypeOK
  <2>6. ASSUME NEW t \in CallbackThreads, thread'[t] \in {"deliver", "uncount"}
        PROVE  data'[t].n <= generated'[data'[t].session]
    <3>1. data[t] \in Messages /\ data[t].n <= generated[data[t].session]
      BY <2>1, <2>6 DEF Typed, Started
    <3>2. data[t].n \in Nat /\ data[t].session \in Sessions
      BY <3>1 DEF Messages
    <3>3. generated[data[t].session] <= generated'[data[t].session]
      BY <2>4, <3>2
    <3>4. data' = data
      BY <2>1
    <3> DEFINE n == data[t].n
               x == data[t].session
    <3>5. n \in Nat /\ generated[x] \in Nat /\ generated'[x] \in Nat
      BY <2>4, <3>2
    <3>6. n <= generated[x] /\ generated[x] <= generated'[x]
      BY <3>1, <3>3
    <3> HIDE DEF n, x
    <3>7. n <= generated'[x]
      BY <3>5, <3>6
    <3> QED
      BY <3>4, <3>7 DEF n, x
  <2> QED
    BY <2>5, <2>6 DEF Started
<1>2. ASSUME NEW t \in CallbackThreads, CallbackThread(t)
      PROVE  Started'
  <2>1. UNCHANGED <<session, generated>>
    BY <1>2 DEF CallbackThread, AttachCurrentThread, TestEnabled, CallbackDataRemove, CallJava,
       UncountMessage, MonitorWait, sessionVars
  <2>2. CASE CallbackDataRemove(t) /\ callbackData # <<>>
    <3>1. /\ thread' = [thread EXCEPT ![t] = "deliver"]
          /\ data' = [data EXCEPT ![t] = Head(callbackData)]
      BY <2>2 DEF CallbackDataRemove, ThreadGoes
    <3>2. Head(callbackData) \in Messages /\ In(Head(callbackData), callbackData)
      BY <2>2, HeadTaken DEF Typed, TypeOK, PlacedOnce, Copies
    <3>3. Head(callbackData).n <= generated[Head(callbackData).session]
      BY <3>2 DEF PlacedOnce, Placed, Queued
    <3> QED
      BY <2>1, <3>1, <3>3 DEF Started, Typed, TypeOK
  <2>3. CASE CallbackDataRemove(t) /\ callbackData = <<>>
    <3>1. /\ thread' = [thread EXCEPT ![t] = "wait"]
          /\ \E d : data' = [data EXCEPT ![t] = d]
      BY <2>3 DEF CallbackDataRemove, ThreadGoes
    <3> QED
      BY <2>1, <3>1 DEF Started, Typed, TypeOK
  <2>4. CASE AttachCurrentThread(t) \/ TestEnabled(t) \/ MonitorWait(t)
    <3>1. /\ UNCHANGED data
          /\ \E step \in {"test", "remove", "ended"} : thread' = [thread EXCEPT ![t] = step]
      BY <2>4 DEF AttachCurrentThread, TestEnabled, MonitorWait, ThreadGoes
    <3> QED
      BY <2>1, <3>1 DEF Started, Typed, TypeOK
  <2>5. CASE CallJava(t)
    BY <2>1, <2>5 DEF CallJava, ThreadGoes, Started, Typed, TypeOK
  <2>6. CASE UncountMessage(t)
    BY <2>1, <2>6 DEF UncountMessage, ThreadGoes, Started, Typed, TypeOK
  <2> QED
    BY <1>2, <2>2, <2>3, <2>4, <2>5, <2>6 DEF CallbackThread
<1>3. ASSUME NEW c \in Controllers, Controller(c)
      PROVE  Started'
  <2>1. UNCHANGED <<session, generated, data>>
    BY <1>3 DEF Controller, Switching, EnableNativeRedirection, CreateCallbackThread, InstallLog,
       InstallStatistics, DisableNativeRedirection, UninstallLog, UninstallStatistics,
       sessionVars, threadVars
  <2>2. \/ UNCHANGED thread
        \/ \E t \in CallbackThreads : thread' = [thread EXCEPT ![t] = "attach"]
    BY <1>3 DEF Controller, Switching, EnableNativeRedirection, CreateCallbackThread, InstallLog,
       InstallStatistics, DisableNativeRedirection, UninstallLog, UninstallStatistics,
       threadVars, ThreadGoes
  <2> QED
    BY <2>1, <2>2 DEF Started, Typed, TypeOK
<1>4. CASE UNCHANGED vars
  BY <1>4 DEF vars, sessionVars, threadVars, Started
<1> QED
  BY <1>1, <1>2, <1>3, <1>4 DEF Next

\* With slots of their own, sessions start quietly.
LEMMA OwnSlotsQuiet ==
  ASSUME OwnSlots
  PROVE  Typed /\ PlacedOnce /\ Started => [QuietStarts]_vars
<1> SUFFICES ASSUME Typed, PlacedOnce, Started, NEW s \in Sessions, ResetMessagesInTransmit(s)
             PROVE  QuietSlot(Slot(s))
  BY DEF QuietStarts
<1>1. session[s] = "created" /\ generated[s] = 0
  BY DEF ResetMessagesInTransmit, SessionGoes, Started
<1>2. QueuedIn(Slot(s)) = {}
  <2> SUFFICES ASSUME NEW m \in Messages, Queued(m), Slot(m.session) = Slot(s)
               PROVE  FALSE
    BY DEF QueuedIn
  <2>1. m.session = s /\ m.n \in 1..MaxMessages
    BY DEF Messages, OwnSlots
  <2> QED
    BY <1>1, <2>1 DEF PlacedOnce, Placed
<1>3. UncountedIn(Slot(s)) = {}
  <2> SUFFICES ASSUME NEW t \in CallbackThreads, thread[t] \in {"deliver", "uncount"},
                      Slot(data[t].session) = Slot(s)
               PROVE  FALSE
    BY DEF UncountedIn
  <2>1. data[t] \in Messages /\ data[t].n <= generated[data[t].session]
    BY DEF Typed, Started
  <2>2. data[t].session = s /\ data[t].n \in 1..MaxMessages
    BY <2>1 DEF Messages, OwnSlots
  <2> QED
    BY <1>1, <2>1, <2>2
<1>4. CountingIn(Slot(s)) = {}
  BY <1>1 DEF CountingIn, OwnSlots
<1> QED
  BY <1>2, <1>3, <1>4 DEF QuietSlot

\* What is in the slot of a session is the session's.
LEMMA OwnSets ==
  ASSUME OwnSlots, Typed, NEW s \in Sessions
  PROVE  /\ Cardinality(QueuedIn(Slot(s))) = Cardinality(Numbers(callbackData, s))
         /\ UncountedIn(Slot(s)) = Uncounted(s)
         /\ CountingIn(Slot(s)) = IF session[s] = "counting" THEN {s} ELSE {}
<1> DEFINE N == Numbers(callbackData, s)
           Q == QueuedIn(Slot(s))
           m(n) == [session |-> s, n |-> n]
           f == [n \in N |-> m(n)]
<1>1. N = {n \in 1..MaxMessages : Queued(m(n))} /\ IsFiniteSet(N)
  BY PlacesOfSession, NumbersIn DEF Typed, TypeOK
<1>2. \A e \in Messages : Slot(e.session) = Slot(s) => e = m(e.n) /\ e.n \in 1..MaxMessages
  <2>1. \A e \in Messages :
          /\ e.session \in Sessions /\ e.n \in 1..MaxMessages
          /\ e.session = s => e = m(e.n)
    BY DEF Messages
  <2> QED
    BY <2>1 DEF OwnSlots
<1>3. \A n \in 1..MaxMessages : m(n) \in Messages /\ m(n).session = s /\ m(n).n = n
  BY DEF Messages
<1> HIDE DEF m
<1>4. \A n \in N : m(n) \in Q
  BY <1>1, <1>3 DEF QueuedIn
<1>5. \A e \in Q : e.n \in N /\ m(e.n) = e
  BY <1>1, <1>2 DEF QueuedIn
<1>6. \A n, k \in N : m(n) = m(k) => n = k
  <2>1. \A n \in N : m(n).n = n
    BY <1>1, <1>3
  <2> QED
    BY <2>1
<1> HIDE DEF N, Q
<1>7. f \in Bijection(N, Q)
  <2>1. f \in [N -> Q]
    BY <1>4
  <2>2. f \in Injection(N, Q)
    BY <1>6, <2>1 DEF Injection, IsInjective
  <2>3. f \in Surjection(N, Q)
    BY <1>5, <2>1 DEF Surjection
  <2> QED
    BY <2>2, <2>3 DEF Bijection
<1>8. Cardinality(Q) = Cardinality(N)
  BY <1>1, <1>7, FS_Bijection DEF ExistsBijection
<1>9. UncountedIn(Slot(s)) = Uncounted(s)
  <2>1. \A t \in CallbackThreads : thread[t] \in {"deliver", "uncount"} => data[t].session \in Sessions
    BY DEF Typed, Messages
  <2> QED
    BY <2>1 DEF UncountedIn, Uncounted, OwnSlots
<1>10. CountingIn(Slot(s)) = IF session[s] = "counting" THEN {s} ELSE {}
  BY DEF CountingIn, OwnSlots
<1> QED
  BY <1>8, <1>9, <1>10 DEF N, Q

LEMMA OwnCounts ==
  ASSUME OwnSlots, Typed, SlotsBalanced, ArrivedInSlot
  PROVE  CountLagsByOne /\ AllArrivedAtZero
<1>1. CountLagsByOne
  <2> SUFFICES ASSUME NEW s \in Sessions
               PROVE  inTransit[Slot(s)] - Cardinality(Numbers(callbackData, s))
                        - Cardinality(Uncounted(s))
                          \in (IF session[s] = "counting" THEN {-1} ELSE {0})
    BY DEF CountLagsByOne
  <2> DEFINE k == Slot(s)
             Q == Cardinality(QueuedIn(k))
             U == Cardinality(UncountedIn(k))
             C == Cardinality(CountingIn(k))
  <2>1. SlotBalance(k)
    BY SlotInRange DEF SlotsBalanced, Slots
  <2>2. Q \in Nat /\ U \in Nat
    BY <2>1, FS_CardinalityType DEF SlotBalance
  <2>3. C = IF session[s] = "counting" THEN 1 ELSE 0
    BY OwnSets, FS_EmptySet, FS_Singleton
  <2>4. inTransit[k] = Q + U - C
    BY <2>1 DEF SlotBalance
  <2>5. Q = Cardinality(Numbers(callbackData, s)) /\ U = Cardinality(Uncounted(s))
    BY OwnSets
  <2> HIDE DEF Q, U, C, k
  <2>6. inTransit[k] - Q - U = 0 - C
    BY <2>2, <2>3, <2>4
  <2> QED
    BY <2>3, <2>5, <2>6 DEF k
<1>2. AllArrivedAtZero
  BY OwnSets DEF AllArrivedAtZero, ArrivedInSlot
<1> QED
  BY <1>1, <1>2

LEMMA OwnSlotsCount ==
  ASSUME OwnSlots
  PROVE  Spec => [](CountLagsByOne /\ AllArrivedAtZero)
<1>1. Spec => [](Typed /\ PlacedOnce /\ Started)
  BY TypedInit, TypedInductive, PlacedInit, PlacedInductive, StartedInit, StartedInductive,
     PTL DEF Spec
<1>2. Spec => [][QuietStarts]_vars
  BY <1>1, OwnSlotsQuiet, PTL
<1> QED
  BY <1>1, <1>2, SlotCounts, OwnCounts, PTL

\* With a slot of its own, what messagesInTransmit returns for a session is the number of
\* its messages not yet discounted, less the one being counted, for any number of callback
\* threads (lines 290 and 550-553).
THEOREM CountLag ==
  ASSUME OwnSlots
  PROVE  Spec => []CountLagsByOne
BY OwnSlotsCount, PTL

\* and a session that has ended with a count of zero has received all it generated, which
\* is what getAllLogs waits for (AbstractSession 186-194).
THEOREM AllArrived ==
  ASSUME OwnSlots
  PROVE  Spec => []AllArrivedAtZero
BY OwnSlotsCount, PTL
===============================================================================
