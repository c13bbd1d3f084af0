----------------------- MODULE FFmpegKitConfigProofs -----------------------
(***************************************************************************)
(* Theorems about FFmpegKitConfig.tla.  The executor in force is the one   *)
(* made last, and a setter shuts down one that was made before the one it  *)
(* has put in its place: this is inductive for any number of setters, and  *)
(* with a single one it accounts for all executors.                        *)
(***************************************************************************)
EXTENDS FFmpegKitConfig, SequenceTheorems, FiniteSetTheorems, TLAPS

SetterState == [pc : SetterSteps, limit : Nat \ {0}, old : Nat \ {0}]

\* What is assigned to the setters keeps their type.
LEMMA SetterMoves ==
  ASSUME NEW st, st \in [Setters -> SetterState], NEW c \in Setters,
         NEW step \in SetterSteps, NEW old \in Nat \ {0}
  PROVE  /\ [st EXCEPT ![c].pc = step] \in [Setters -> SetterState]
         /\ [st EXCEPT ![c].pc = step, ![c].old = old] \in [Setters -> SetterState]
BY DEF SetterState

LEMMA SetterAssigned ==
  ASSUME NEW st, st \in [Setters -> SetterState], NEW c \in Setters,
         NEW step \in SetterSteps, NEW n \in Nat \ {0}
  PROVE  [st EXCEPT ![c] = [pc |-> step, limit |-> n, old |-> 1]] \in [Setters -> SetterState]
BY DEF SetterState

\* The fields that only setters write, with their executors in the order of making.
SetterOK ==
  /\ made \in Pools
  /\ asyncExecutorService = made
  /\ shut \subseteq 1..(made - 1)
  /\ setter \in [Setters -> SetterState]
  /\ \A c \in Setters :
       /\ setter[c].old <= made
       /\ setter[c].pc = "shutdown" => setter[c].old < made

\* A step that belongs to no setter leaves their fields alone.
Others ==
  \/ \E s \in Sessions : Create(s) \/ Async(s) \/ ExecuteHere(s) \/ Return(s)
  \/ \E n \in Sizes : SetSessionHistorySize(n)
  \/ ClearSessions
  \/ \E p \in Pools : TakeTask(p)

LEMMA OthersKeep == Others \/ UNCHANGED vars => UNCHANGED poolVars
BY DEF Others, Create, Async, Construct, AddToMap, AddToList, FetchExecutor, Submit, Reject,
       ExecuteHere, Return, SetSessionHistorySize, ClearSessions, TakeTask, vars

LEMMA SetterInit == Init => SetterOK
BY BoundsAssumption, LimitsAssumption
   DEF Init, SetterOK, NoCall, SetterState, SetterSteps, Pools

LEMMA SetterInductive == SetterOK /\ [Next]_vars => SetterOK'
<1> SUFFICES ASSUME SetterOK, [Next]_vars PROVE SetterOK'
  OBVIOUS
<1> USE BoundsAssumption DEF SetterOK, Pools
<1>1. CASE Others \/ UNCHANGED vars
  BY <1>1, OthersKeep DEF poolVars
<1>2. ASSUME NEW c \in Setters, NEW n \in Limits, SetLimit(c, n) PROVE SetterOK'
  <2>1. n \in Nat \ {0} /\ "read" \in SetterSteps
    BY <1>2, LimitsAssumption DEF SetLimit, SetterSteps
  <2>2. setter' = [setter EXCEPT ![c] = [pc |-> "read", limit |-> n, old |-> 1]]
    BY <1>2 DEF SetLimit
  <2>3. setter' \in [Setters -> SetterState]
    BY <2>1, <2>2, SetterAssigned
  <2>4. ASSUME NEW d \in Setters
        PROVE  /\ setter'[d].old <= made
               /\ setter'[d].pc = "shutdown" => setter'[d].old < made
    BY <2>2
  <2> QED BY <1>2, <2>3, <2>4 DEF SetLimit
<1>3. ASSUME NEW c \in Setters, ReadOld(c) PROVE SetterOK'
  <2>1. setter' = [setter EXCEPT ![c].pc = "assign", ![c].old = made]
    BY <1>3 DEF ReadOld
  <2>2. setter' \in [Setters -> SetterState]
    <3>1. "assign" \in SetterSteps /\ made \in Nat \ {0}
      BY DEF SetterSteps
    <3> QED BY <2>1, <3>1, SetterMoves
  <2>3. ASSUME NEW d \in Setters
        PROVE  /\ setter'[d].old <= made
               /\ setter'[d].pc = "shutdown" => setter'[d].old < made
    BY <2>1 DEF SetterState
  <2> QED BY <1>3, <2>2, <2>3 DEF ReadOld
<1>4. ASSUME NEW c \in Setters, NewPool(c) PROVE SetterOK'
  <2>1. setter' = [setter EXCEPT ![c].pc = "shutdown"] /\ made' = made + 1
    BY <1>4 DEF NewPool
  <2>2. setter' \in [Setters -> SetterState]
    <3>1. "shutdown" \in SetterSteps /\ 1 \in Nat \ {0}
      BY DEF SetterSteps
    <3> QED BY <2>1, <3>1, SetterMoves
  <2>3. ASSUME NEW d \in Setters PROVE setter'[d].old < made'
    BY <2>1 DEF SetterState
  <2>4. \A d \in Setters : setter'[d].old <= made'
    BY <2>2, <2>3, <2>1 DEF SetterState
  <2> QED BY <1>4, <2>2, <2>3, <2>4 DEF NewPool
<1>5. ASSUME NEW c \in Setters, ShutDown(c) PROVE SetterOK'
  <2>1. setter' = [setter EXCEPT ![c] = NoCall]
    BY <1>5 DEF ShutDown
  <2>2. setter' \in [Setters -> SetterState]
    <3>1. "idle" \in SetterSteps /\ InitialLimit \in Nat \ {0}
      BY LimitsAssumption DEF SetterSteps
    <3> QED BY <2>1, <3>1, SetterAssigned DEF NoCall
  <2>3. ASSUME NEW d \in Setters
        PROVE  /\ setter'[d].old <= made
               /\ setter'[d].pc = "shutdown" => setter'[d].old < made
    BY <2>1 DEF NoCall
  <2>4. shut' \subseteq 1..(made - 1)
    <3>1. setter[c].old \in Nat \ {0}
      BY DEF SetterState
    <3>2. setter[c].old < made /\ made \in Nat
      BY <1>5 DEF ShutDown
    <3>3. setter[c].old \in 1..(made - 1)
      BY <3>1, <3>2
    <3> QED BY <1>5, <3>3 DEF ShutDown
  <2> QED BY <1>5, <2>2, <2>3, <2>4 DEF ShutDown
<1> QED BY <1>1, <1>2, <1>3, <1>4, <1>5 DEF Next, Others

\* The executor in force is never shut down, for any number of threads that replace it.
THEOREM Open == Spec => []CurrentPoolOpen
<1>1. SetterOK => CurrentPoolOpen
  BY DEF SetterOK, CurrentPoolOpen, Pools
<1> QED BY SetterInit, SetterInductive, <1>1, PTL DEF Spec

-----------------------------------------------------------------------------
(* The ranges of all variables.                                            *)

\* TypeOK without the fields that SetterOK is about.
FieldsOK ==
  /\ sessionIdGenerator \in 1..MaxSessions + 1
  /\ phase \in [Sessions -> Phases]
  /\ sessionHistoryMap \in Seq(Sessions) /\ sessionHistoryList \in Seq(Sessions)
  /\ sessionHistorySize \in 1..999
  /\ asyncConcurrencyLimit \in Nat \ {0}
  /\ poolSize \in [Pools -> Nat]
  /\ queue \in [Pools -> Seq(Sessions)]
  /\ home \in [Sessions -> 0..made]
  /\ added \in Seq(Sessions) /\ sizes \subseteq 1..999

LEMMA Together == SetterOK /\ FieldsOK => TypeOK
<1> SUFFICES ASSUME SetterOK, FieldsOK PROVE TypeOK
  OBVIOUS
<1>1. setter \in [Setters -> [pc : SetterSteps, limit : Nat \ {0}, old : 1..made]]
  BY BoundsAssumption DEF SetterOK, SetterState, Pools
<1>2. made \in Pools /\ asyncExecutorService \in 1..made /\ shut \subseteq 1..made
  BY BoundsAssumption DEF SetterOK, Pools
<1> QED BY <1>1, <1>2 DEF FieldsOK, TypeOK

LEMMA FieldsInit == Init => FieldsOK
BY BoundsAssumption, SizesAssumption, LimitsAssumption
   DEF Init, FieldsOK, Phases, Pools, Sessions

\* A sequence stays one when something is added and its head is dropped.
LEMMA Added ==
  ASSUME NEW q \in Seq(Sessions), NEW s \in Sessions
  PROVE  /\ Append(q, s) \in Seq(Sessions)
         /\ Tail(Append(q, s)) \in Seq(Sessions)
         /\ q # <<>> => Tail(q) \in Seq(Sessions)
<1>1. Append(q, s) \in Seq(Sessions) /\ Append(q, s) # <<>>
  <2>1. Len(Append(q, s)) = Len(q) + 1 /\ Len(q) \in Nat
    OBVIOUS
  <2>2. Append(q, s) # <<>>
    BY <2>1
  <2> QED BY <2>2
<1>2. \A r \in Seq(Sessions) : r # <<>> => Tail(r) \in Seq(Sessions)
  OBVIOUS
<1> QED BY <1>1, <1>2

LEMMA Moved ==
  ASSUME FieldsOK, NEW s \in Sessions, NEW from, NEW to \in Phases, Goes(s, from, to)
  PROVE  phase' \in [Sessions -> Phases]
BY DEF FieldsOK, Goes

LEMMA FieldsInductive == SetterOK /\ SetterOK' /\ FieldsOK /\ [Next]_vars => FieldsOK'
<1> SUFFICES ASSUME SetterOK, SetterOK', FieldsOK, [Next]_vars PROVE FieldsOK'
  OBVIOUS
<1> USE BoundsAssumption DEF FieldsOK
<1>1. ASSUME NEW s \in Sessions, Construct(s) PROVE FieldsOK'
  <2>1. phase' \in [Sessions -> Phases]
    BY <1>1, Moved DEF Construct, Phases
  <2> QED BY <1>1, <2>1 DEF Construct, Sessions, historyVars, poolVars
<1>2. ASSUME NEW s \in Sessions, AddToMap(s) PROVE FieldsOK'
  <2>1. phase' \in [Sessions -> Phases]
    BY <1>2, Moved DEF AddToMap, Phases
  <2>2. sessionHistoryMap' \in Seq(Sessions) /\ added' \in Seq(Sessions)
    BY <1>2, Added DEF AddToMap
  <2> QED BY <1>2, <2>1, <2>2 DEF AddToMap, poolVars
<1>3. ASSUME NEW s \in Sessions, AddToList(s) PROVE FieldsOK'
  <2>1. phase' \in [Sessions -> Phases]
    BY <1>3, Moved DEF AddToList, Phases
  <2>2. sessionHistoryList' \in Seq(Sessions)
    BY <1>3, Added DEF AddToList
  <2> QED BY <1>3, <2>1, <2>2 DEF AddToList, poolVars
<1>4. ASSUME NEW s \in Sessions, FetchExecutor(s) PROVE FieldsOK'
  <2>1. phase' \in [Sessions -> Phases]
    BY <1>4, Moved DEF FetchExecutor, Phases
  <2>2. asyncExecutorService \in 0..made /\ made' = made
    BY <1>4 DEF FetchExecutor, poolVars, SetterOK, Pools
  <2>3. home' \in [Sessions -> 0..made']
    BY <1>4, <2>2 DEF FetchExecutor
  <2> QED BY <1>4, <2>1, <2>3 DEF FetchExecutor, historyVars, poolVars
<1>5. ASSUME NEW s \in Sessions, Submit(s) PROVE FieldsOK'
  <2>1. phase' \in [Sessions -> Phases]
    BY <1>5, Moved DEF Submit, Phases
  <2>2. queue' \in [Pools -> Seq(Sessions)]
    <3>1. \A p \in Pools : Append(queue[p], s) \in Seq(Sessions)
      BY Added
    <3> QED BY <1>5, <3>1 DEF Submit
  <2> QED BY <1>5, <2>1, <2>2 DEF Submit, historyVars, poolVars
<1>6. ASSUME NEW s \in Sessions, Reject(s) PROVE FieldsOK'
  <2>1. phase' \in [Sessions -> Phases]
    BY <1>6, Moved DEF Reject, Phases
  <2>2. 0 \in 0..made /\ made' = made
    BY <1>6 DEF Reject, poolVars, SetterOK, Pools
  <2>3. home' \in [Sessions -> 0..made']
    BY <1>6, <2>2 DEF Reject
  <2> QED BY <1>6, <2>1, <2>3 DEF Reject, historyVars, poolVars
<1>7. ASSUME NEW s \in Sessions, ExecuteHere(s) PROVE FieldsOK'
  <2>1. phase' \in [Sessions -> Phases]
    BY <1>7, Moved DEF ExecuteHere, Phases
  <2> QED BY <1>7, <2>1 DEF ExecuteHere, historyVars, poolVars
<1>8. ASSUME NEW s \in Sessions, Return(s) PROVE FieldsOK'
  <2>1. phase' \in [Sessions -> Phases]
    BY <1>8, Moved DEF Return, Phases
  <2>2. 0 \in 0..made /\ made' = made
    BY <1>8 DEF Return, poolVars, SetterOK, Pools
  <2>3. home' \in [Sessions -> 0..made']
    BY <1>8, <2>2 DEF Return
  <2> QED BY <1>8, <2>1, <2>3 DEF Return, historyVars, poolVars
<1>9. ASSUME NEW n \in Sizes, SetSessionHistorySize(n) PROVE FieldsOK'
  BY <1>9, SizesAssumption DEF SetSessionHistorySize, sessionVars, poolVars
<1>10. CASE ClearSessions
  BY <1>10 DEF ClearSessions, sessionVars, poolVars
<1>11. ASSUME NEW p \in Pools, TakeTask(p) PROVE FieldsOK'
  <2>1. queue[p] \in Seq(Sessions) /\ Head(queue[p]) \in Sessions
    BY <1>11 DEF TakeTask
  <2>2. phase' \in [Sessions -> Phases]
    BY <1>11, <2>1, Moved DEF TakeTask, Phases
  <2>3. Tail(queue[p]) \in Seq(Sessions)
    BY <1>11, <2>1, Added DEF TakeTask
  <2>4. queue' \in [Pools -> Seq(Sessions)]
    BY <1>11, <2>3 DEF TakeTask
  <2> QED BY <1>11, <2>2, <2>4 DEF TakeTask, historyVars, poolVars
<1>12. ASSUME NEW c \in Setters, NEW n \in Limits, SetLimit(c, n) PROVE FieldsOK'
  BY <1>12, LimitsAssumption DEF SetLimit, sessionVars, historyVars
<1>13. ASSUME NEW c \in Setters, ReadOld(c) PROVE FieldsOK'
  BY <1>13 DEF ReadOld, sessionVars, historyVars
<1>14. ASSUME NEW c \in Setters, NewPool(c) PROVE FieldsOK'
  <2>1. setter[c].limit \in Nat
    BY DEF SetterOK, SetterState
  <2>2. poolSize' \in [Pools -> Nat]
    BY <1>14, <2>1 DEF NewPool
  <2>3. home' \in [Sessions -> 0..made']
    BY <1>14 DEF NewPool, sessionVars, SetterOK, Pools
  <2> QED BY <1>14, <2>2, <2>3 DEF NewPool, sessionVars, historyVars
<1>15. ASSUME NEW c \in Setters, ShutDown(c) PROVE FieldsOK'
  BY <1>15 DEF ShutDown, sessionVars, historyVars
<1>16. CASE UNCHANGED vars
  BY <1>16 DEF vars, sessionVars, historyVars, poolVars
<1> HIDE DEF FieldsOK
<1> QED
  BY <1>1, <1>2, <1>3, <1>4, <1>5, <1>6, <1>7, <1>8, <1>9, <1>10, <1>11, <1>12, <1>13,
     <1>14, <1>15, <1>16
  DEF Next, Create, Async

\* Every field stays in its range, whatever is asked of the two setting functions and however many
\* sessions there are.
THEOREM TypeCorrect == Spec => []TypeOK
<1>1. Init => SetterOK /\ FieldsOK
  BY SetterInit, FieldsInit
<1>2. SetterOK /\ FieldsOK /\ [Next]_vars => SetterOK' /\ FieldsOK'
  BY SetterInductive, FieldsInductive
<1> QED BY <1>1, <1>2, Together, PTL DEF Spec

-----------------------------------------------------------------------------
(* One setter.                                                             *)

\* With the only setter where it is, what is shut and how large the executor in force is.
Accounted(c) ==
  /\ shut = IF setter[c].pc = "shutdown" THEN 1..(made - 2) ELSE 1..(made - 1)
  /\ setter[c].pc = "assign" => setter[c].old = made
  /\ setter[c].pc = "shutdown" => setter[c].old = made - 1
  /\ setter[c].pc \in Making => setter[c].limit = asyncConcurrencyLimit
  /\ setter[c].pc \notin Making => poolSize[made] = asyncConcurrencyLimit

LEMMA AccountedInductive ==
  ASSUME NEW c, Setters = {c}
  PROVE  SetterOK /\ FieldsOK /\ Accounted(c) /\ [Next]_vars => Accounted(c)'
<1> SUFFICES ASSUME SetterOK, FieldsOK, Accounted(c), [Next]_vars PROVE Accounted(c)'
  OBVIOUS
<1> USE BoundsAssumption DEF Accounted, Making
<1>0. setter \in [Setters -> SetterState] /\ c \in Setters /\ made \in Nat \ {0}
  BY DEF SetterOK, Pools
<1>1. CASE Others \/ UNCHANGED vars
  BY <1>1, OthersKeep DEF poolVars
<1>2. ASSUME NEW n \in Limits, SetLimit(c, n) PROVE Accounted(c)'
  <2>1. setter'[c] = [pc |-> "read", limit |-> n, old |-> 1]
    BY <1>0, <1>2 DEF SetLimit
  <2> QED BY <1>2, <2>1 DEF SetLimit
<1>3. CASE ReadOld(c)
  <2>1. setter'[c].pc = "assign" /\ setter'[c].old = made /\ setter'[c].limit = setter[c].limit
    BY <1>0, <1>3 DEF ReadOld, SetterOK, SetterState
  <2> QED BY <1>3, <2>1 DEF ReadOld
<1>4. CASE NewPool(c)
  <2>1. setter'[c].pc = "shutdown" /\ setter'[c].old = setter[c].old
    BY <1>0, <1>4 DEF NewPool, SetterState
  <2>2. poolSize'[made'] = asyncConcurrencyLimit
    <3>1. made + 1 \in Pools /\ poolSize \in [Pools -> Nat]
      BY <1>0, <1>4 DEF NewPool, FieldsOK, Pools
    <3>2. poolSize' = [poolSize EXCEPT ![made + 1] = setter[c].limit] /\ made' = made + 1
      BY <1>4 DEF NewPool
    <3>3. setter[c].limit = asyncConcurrencyLimit
      BY <1>4 DEF NewPool
    <3> QED BY <3>1, <3>2, <3>3
  <2> QED BY <1>0, <1>4, <2>1, <2>2 DEF NewPool
<1>5. CASE ShutDown(c)
  <2>1. setter'[c].pc = "idle"
    BY <1>0, <1>5 DEF ShutDown, NoCall
  <2>2. shut' = 1..(made - 2) \cup {made - 1}
    BY <1>5 DEF ShutDown
  <2>3. shut' = 1..(made - 1)
    <3>1. CASE made = 1
      BY <1>0, <1>5, <3>1 DEF ShutDown, SetterOK, SetterState
    <3>2. CASE made > 1
      BY <1>0, <2>2, <3>2
    <3> QED BY <1>0, <3>1, <3>2
  <2> QED BY <1>5, <2>1, <2>3 DEF ShutDown
<1> QED BY <1>1, <1>2, <1>3, <1>4, <1>5 DEF Next, Others

\* A single thread that sets limits leaves one executor that takes sessions, with as many
\* workers as it asked for last.
THEOREM Settled == ASSUME NEW only, Setters = {only} PROVE Spec => []PoolsSettled
<1>1. Init => SetterOK /\ FieldsOK
  BY SetterInit, FieldsInit
<1>2. Init => Accounted(only)
  BY BoundsAssumption, LimitsAssumption DEF Init, Accounted, NoCall, Making, Pools
<1>3. SetterOK /\ FieldsOK /\ [Next]_vars => SetterOK' /\ FieldsOK'
  BY SetterInductive, FieldsInductive
<1>4. SetterOK /\ FieldsOK /\ Accounted(only) /\ [Next]_vars => Accounted(only)'
  BY AccountedInductive
<1>5. SetterOK /\ Accounted(only) => PoolsSettled
  BY BoundsAssumption DEF SetterOK, Accounted, PoolsSettled, Making, Pools
<1> QED BY <1>1, <1>2, <1>3, <1>4, <1>5, PTL DEF Spec

-----------------------------------------------------------------------------
(* The history.                                                            *)

\* What a view is to what has been added: the same end of it.
IsEnd(view, all) == Len(view) <= Len(all) /\ view = Last(all, Len(view))

\* Adding to both keeps it,
LEMMA EndAppended ==
  ASSUME NEW q \in Seq(Sessions), NEW r \in Seq(Sessions), NEW s \in Sessions, IsEnd(q, r)
  PROVE  /\ IsEnd(Append(q, s), Append(r, s))
         /\ Len(Append(q, s)) = Len(q) + 1 /\ Len(Append(r, s)) = Len(r) + 1
<1> DEFINE n == Len(q)
           k == Len(r) - n
           whole == Append(r, s)
<1>1. /\ n \in Nat /\ k \in Nat /\ Append(q, s) \in Seq(Sessions) /\ whole \in Seq(Sessions)
      /\ Len(Append(q, s)) = n + 1 /\ Len(whole) = k + n + 1
  BY DEF IsEnd
<1>2. \A i \in 1..n : q[i] = r[k + i]
  <2>1. q = SubSeq(r, k + 1, Len(r))
    BY DEF IsEnd, Last
  <2> QED BY <2>1, <1>1
<1>3. \A i \in 1..(n + 1) : Append(q, s)[i] = whole[k + i]
  BY <1>1, <1>2
<1> DEFINE end == SubSeq(whole, k + 1, k + n + 1)
<1>4. end \in Seq(Sessions) /\ Len(end) = n + 1 /\ \A i \in 1..(n + 1) : end[i] = whole[k + i]
  <2>1. \A i \in (k + 1)..(k + n + 1) : whole[i] \in Sessions
    BY <1>1
  <2> HIDE DEF whole, k, n
  <2>2. /\ end \in Seq(Sessions)
        /\ Len(end) = (k + n + 1) - (k + 1) + 1
        /\ \A i \in 1..((k + n + 1) - (k + 1) + 1) : end[i] = whole[(k + 1) + i - 1]
    BY <2>1, <1>1, SubSeqProperties
  <2> QED BY <2>2, <1>1
<1>5. Append(q, s) = end
  <2> HIDE DEF end
  <2>1. \A i \in 1..Len(Append(q, s)) : Append(q, s)[i] = end[i]
    BY <1>1, <1>3, <1>4
  <2> QED BY <2>1, <1>1, <1>4, SeqEqual
<1> QED BY <1>1, <1>5 DEF IsEnd, Last

\* and so does dropping the head of the view.
LEMMA EndShortened ==
  ASSUME NEW q \in Seq(Sessions), NEW r \in Seq(Sessions), IsEnd(q, r), q # <<>>
  PROVE  IsEnd(Tail(q), r) /\ Len(Tail(q)) = Len(q) - 1
<1>1. Len(q) \in 1..Len(r) /\ Len(r) \in Nat
  BY DEF IsEnd
<1>2. Tail(q) = SubSeq(r, Len(r) - Len(q) + 2, Len(r))
  <2>1. q = SubSeq(r, Len(r) - Len(q) + 1, Len(r))
    BY DEF IsEnd, Last
  <2>2. Len(r) - Len(q) + 1 \in 1..Len(r) /\ Len(r) \in (Len(r) - Len(q) + 1)..Len(r)
    BY <1>1
  <2>3. Tail(SubSeq(r, Len(r) - Len(q) + 1, Len(r)))
          = SubSeq(r, (Len(r) - Len(q) + 1) + 1, Len(r))
    BY <2>2, HeadTailOfSubSeq
  <2> QED BY <2>1, <2>3, <1>1
<1>3. Len(Tail(q)) = Len(q) - 1
  OBVIOUS
<1> QED BY <1>1, <1>2, <1>3 DEF IsEnd, Last

\* What addSession does to a view, with a size that is in force.
LEMMA RecentAdded ==
  ASSUME NEW q \in Seq(Sessions), NEW r \in Seq(Sessions), NEW s \in Sessions,
         sizes \subseteq 1..999, NEW size \in sizes, Recent(q, r),
         NEW view,
         view = IF Len(Append(q, s)) > size THEN Tail(Append(q, s)) ELSE Append(q, s)
  PROVE  Recent(view, Append(r, s))
<1>1. IsEnd(q, r)
  BY DEF Recent, IsEnd
<1>2. /\ IsEnd(Append(q, s), Append(r, s))
      /\ Len(Append(q, s)) = Len(q) + 1 /\ Len(Append(r, s)) = Len(r) + 1
  BY <1>1, EndAppended
<1>3. Append(q, s) \in Seq(Sessions) /\ Append(r, s) \in Seq(Sessions)
  OBVIOUS
<1>4. Append(q, s) # <<>>
  BY <1>2
<1>5. IsEnd(view, Append(r, s))
  BY <1>2, <1>3, <1>4, EndShortened
<1>6. Len(view) = IF Len(q) + 1 > size THEN Len(q) ELSE Len(q) + 1
  BY <1>2, <1>3, <1>4, EndShortened
<1>7. Len(q) \in Nat /\ Len(r) \in Nat /\ size \in Nat
  OBVIOUS
<1>8. PICK n \in sizes : Len(q) <= n
  BY DEF Recent
<1>9. PICK m \in sizes : Len(q) = Len(r) \/ Len(q) >= m
  BY DEF Recent
<1>10. \E k \in sizes : Len(view) <= k
  BY <1>6, <1>7, <1>8
<1>11. \E k \in sizes : Len(view) = Len(Append(r, s)) \/ Len(view) >= k
  BY <1>2, <1>6, <1>7, <1>9
<1> QED BY <1>5, <1>10, <1>11 DEF Recent, IsEnd

\* The view that is being added to is behind by the session whose thread holds the lock.
HistoryOK ==
  /\ sessionHistorySize \in sizes
  /\ \A s \in Sessions : phase[s] = "adding" => added # <<>> /\ added[Len(added)] = s
  /\ HistoryIsRecent

LEMMA HistoryInit == Init => HistoryOK
<1> SUFFICES ASSUME Init PROVE HistoryOK
  OBVIOUS
<1>1. Last(<<>>, 0) = <<>>
  BY DEF Last
<1>2. Recent(<<>>, <<>>)
  BY <1>1, SizesAssumption DEF Init, Recent
<1>3. LockFree
  BY DEF Init, LockFree
<1> QED BY <1>2, <1>3 DEF Init, HistoryOK, HistoryIsRecent, Listed

\* Steps in which no lock changes hands and the history stays as it is.
LEMMA HistoryKept ==
  ASSUME HistoryOK, UNCHANGED historyVars,
         \A s \in Sessions : phase'[s] = "adding" <=> phase[s] = "adding"
  PROVE  HistoryOK'
<1>1. LockFree' <=> LockFree
  BY DEF LockFree
<1> QED BY <1>1 DEF HistoryOK, HistoryIsRecent, Listed, Recent, historyVars

LEMMA HistoryInductive == FieldsOK /\ HistoryOK /\ [Next]_vars => HistoryOK'
<1> SUFFICES ASSUME FieldsOK, HistoryOK, [Next]_vars PROVE HistoryOK'
  OBVIOUS
<1>0. /\ phase \in [Sessions -> Phases] /\ sizes \subseteq 1..999 /\ sessionHistorySize \in sizes
      /\ added \in Seq(Sessions)
      /\ sessionHistoryMap \in Seq(Sessions) /\ sessionHistoryList \in Seq(Sessions)
  BY DEF FieldsOK, HistoryOK
<1>1. ASSUME NEW s \in Sessions, AddToMap(s) PROVE HistoryOK'
  <2>1. LockFree /\ ~LockFree'
    BY <1>0, <1>1 DEF AddToMap, Goes, LockFree
  <2>2. Recent(sessionHistoryMap, added) /\ Recent(sessionHistoryList, added)
    BY <2>1 DEF HistoryOK, HistoryIsRecent, Listed
  <2>3. Recent(sessionHistoryMap', Append(added, s))
    BY <1>0, <1>1, <2>2, RecentAdded DEF AddToMap
  <2>4. /\ added' = Append(added, s) /\ Len(added') = Len(added) + 1 /\ added' \in Seq(Sessions)
        /\ added'[Len(added')] = s
    BY <1>0, <1>1 DEF AddToMap
  <2>5. SubSeq(added', 1, Len(added') - 1) = added
    <3> DEFINE front == SubSeq(added', 1, Len(added') - 1)
    <3>1. \A i \in 1..Len(added) : added'[i] = added[i] /\ added'[i] \in Sessions
      BY <1>0, <2>4
    <3>2. /\ front \in Seq(Sessions) /\ Len(front) = Len(added)
          /\ \A i \in 1..Len(added) : front[i] = added[i]
      BY <1>0, <2>4, <3>1, SubSeqProperties
    <3> QED BY <1>0, <3>2, SeqEqual
  <2>6. \A t \in Sessions : phase'[t] = "adding" => t = s
    BY <1>0, <1>1, <2>1 DEF AddToMap, Goes, LockFree
  <2>7. sizes' = sizes /\ sessionHistorySize' = sessionHistorySize
        /\ sessionHistoryList' = sessionHistoryList
    BY <1>1 DEF AddToMap
  <2>8. Recent(sessionHistoryMap, added)'
    BY <2>3, <2>4, <2>7 DEF Recent
  <2>9. Listed' = added
    BY <2>1, <2>5 DEF Listed
  <2>10. Recent(sessionHistoryList, Listed)'
    BY <2>2, <2>7, <2>9 DEF Recent
  <2>11. added' # <<>>
    BY <1>0, <2>4
  <2> QED BY <1>0, <2>4, <2>6, <2>7, <2>8, <2>10, <2>11 DEF HistoryOK, HistoryIsRecent
<1>2. ASSUME NEW s \in Sessions, AddToList(s) PROVE HistoryOK'
  <2> DEFINE front == SubSeq(added, 1, Len(added) - 1)
  <2>1. phase[s] = "adding" /\ ~LockFree /\ added # <<>> /\ added[Len(added)] = s
    BY <1>0, <1>2 DEF AddToList, Goes, LockFree, HistoryOK
  <2>2. \A t \in Sessions : phase'[t] # "adding"
    BY <1>0, <1>2, <2>1 DEF AddToList, Goes, HistoryOK
  <2>3. Recent(sessionHistoryMap, added) /\ Recent(sessionHistoryList, front)
    BY <2>1 DEF HistoryOK, HistoryIsRecent, Listed
  <2>4. front \in Seq(Sessions) /\ Append(front, s) = added
    <3>1. Len(added) \in Nat \ {0} /\ \A i \in 1..(Len(added) - 1) : added[i] \in Sessions
      BY <1>0, <2>1
    <3>2. /\ front \in Seq(Sessions) /\ Len(front) = Len(added) - 1
          /\ \A i \in 1..(Len(added) - 1) : front[i] = added[i]
      <4> DEFINE n == Len(added) - 1
      <4>1. n \in Nat /\ \A i \in 1..n : added[i] \in Sessions
        BY <3>1
      <4> HIDE DEF n
      <4>2. /\ SubSeq(added, 1, n) \in Seq(Sessions)
            /\ Len(SubSeq(added, 1, n)) = IF 1 <= n THEN n - 1 + 1 ELSE 0
            /\ \A i \in 1..(n - 1 + 1) : SubSeq(added, 1, n)[i] = added[1 + i - 1]
        BY <4>1, SubSeqProperties
      <4>3. /\ SubSeq(added, 1, n) \in Seq(Sessions) /\ Len(SubSeq(added, 1, n)) = n
            /\ \A i \in 1..n : SubSeq(added, 1, n)[i] = added[i]
        BY <4>1, <4>2
      <4> QED BY <4>3 DEF n
    <3> HIDE DEF front
    <3>3. Append(front, s) \in Seq(Sessions) /\ Len(Append(front, s)) = Len(added)
      BY <3>1, <3>2
    <3>4. \A i \in 1..Len(Append(front, s)) : Append(front, s)[i] = added[i]
      BY <2>1, <3>1, <3>2, <3>3
    <3> QED BY <1>0, <3>2, <3>3, <3>4, SeqEqual
  <2> HIDE DEF front
  <2>5. Recent(sessionHistoryList', Append(front, s))
    BY <1>0, <1>2, <2>3, <2>4, RecentAdded DEF AddToList
  <2>6. /\ sizes' = sizes /\ sessionHistorySize' = sessionHistorySize
        /\ added' = added /\ sessionHistoryMap' = sessionHistoryMap
    BY <1>2 DEF AddToList
  <2>7. Listed' = added
    BY <2>2, <2>6 DEF Listed, LockFree
  <2>8. Recent(sessionHistoryMap, added)' /\ Recent(sessionHistoryList, Listed)'
    BY <2>3, <2>4, <2>5, <2>6, <2>7 DEF Recent
  <2> QED BY <1>0, <2>2, <2>6, <2>8 DEF HistoryOK, HistoryIsRecent
<1>3. ASSUME NEW n \in Sizes, SetSessionHistorySize(n) PROVE HistoryOK'
  <2>1. /\ sizes' = sizes \cup {n} /\ sessionHistorySize' = n /\ added' = added /\ phase' = phase
        /\ sessionHistoryMap' = sessionHistoryMap /\ sessionHistoryList' = sessionHistoryList
    BY <1>3 DEF SetSessionHistorySize, sessionVars
  <2>2. Listed' = Listed
    BY <2>1 DEF Listed, LockFree
  <2>3. Recent(sessionHistoryMap, added)' /\ Recent(sessionHistoryList, Listed)'
    BY <2>1, <2>2 DEF HistoryOK, HistoryIsRecent, Recent
  <2> QED BY <2>1, <2>3 DEF HistoryOK, HistoryIsRecent
<1>4. CASE ClearSessions
  <2>1. /\ sizes' = {sessionHistorySize} /\ sessionHistorySize' = sessionHistorySize
        /\ added' = <<>> /\ sessionHistoryMap' = <<>> /\ sessionHistoryList' = <<>>
        /\ LockFree /\ phase' = phase
    BY <1>4 DEF ClearSessions, sessionVars
  <2>2. Listed' = <<>> /\ \A s \in Sessions : phase'[s] # "adding"
    BY <2>1 DEF Listed, LockFree
  <2>3. Last(<<>>, 0) = <<>>
    BY DEF Last
  <2>4. Recent(sessionHistoryMap, added)' /\ Recent(sessionHistoryList, Listed)'
    BY <1>0, <2>1, <2>2, <2>3 DEF Recent
  <2> QED BY <2>1, <2>2, <2>4 DEF HistoryOK, HistoryIsRecent
<1>5. ASSUME NEW s \in Sessions, Construct(s) \/ Async(s) \/ ExecuteHere(s) \/ Return(s)
      PROVE HistoryOK'
  <2>1. UNCHANGED historyVars
    BY <1>5 DEF Construct, Async, FetchExecutor, Submit, Reject, ExecuteHere, Return
  <2>2. \A t \in Sessions : phase'[t] = "adding" <=> phase[t] = "adding"
    BY <1>0, <1>5
    DEF Construct, Async, FetchExecutor, Submit, Reject, ExecuteHere, Return, Goes
  <2> QED BY <2>1, <2>2, HistoryKept
<1>6. ASSUME NEW p \in Pools, TakeTask(p) PROVE HistoryOK'
  <2>1. UNCHANGED historyVars
    BY <1>6 DEF TakeTask
  <2>2. \A t \in Sessions : phase'[t] = "adding" <=> phase[t] = "adding"
    BY <1>0, <1>6 DEF TakeTask, Goes
  <2> QED BY <2>1, <2>2, HistoryKept
<1>7. ASSUME NEW c \in Setters,
             ReadOld(c) \/ NewPool(c) \/ ShutDown(c) \/ \E n \in Limits : SetLimit(c, n)
      PROVE HistoryOK'
  <2>1. UNCHANGED historyVars /\ phase' = phase
    BY <1>7 DEF ReadOld, NewPool, ShutDown, SetLimit, sessionVars
  <2> QED BY <2>1, HistoryKept
<1>8. CASE UNCHANGED vars
  <2>1. UNCHANGED historyVars /\ phase' = phase
    BY <1>8 DEF vars, sessionVars
  <2> QED BY <2>1, HistoryKept
<1> QED BY <1>1, <1>2, <1>3, <1>4, <1>5, <1>6, <1>7, <1>8 DEF Next, Create

\* Map and list keep the latest sessions in order, however many there are and however the
\* size changes while they are added.
THEOREM History == Spec => []HistoryIsRecent
<1>1. Init => SetterOK /\ FieldsOK /\ HistoryOK
  BY SetterInit, FieldsInit, HistoryInit
<1>2. SetterOK /\ FieldsOK /\ HistoryOK /\ [Next]_vars => SetterOK' /\ FieldsOK' /\ HistoryOK'
  BY SetterInductive, FieldsInductive, HistoryInductive
<1>3. HistoryOK => HistoryIsRecent
  BY DEF HistoryOK
<1> QED BY <1>1, <1>2, <1>3, PTL DEF Spec

-----------------------------------------------------------------------------
(* What an executor has accepted.                                          *)

\* The thread of a session knows an executor only from the moment it has read the field until the
\* session is over or rejected, and none when it runs the session itself.
HomesOK ==
  \A s \in Sessions :
    /\ phase[s] \in {"fetched", "queued"} => home[s] \in 1..made
    /\ phase[s] \in {"absent", "constructed", "adding", "created"} => home[s] = 0

\* What waits in an executor's queue has been accepted by it and waits there once.
QueuesOK ==
  \A p \in Pools :
    /\ \A i \in 1..Len(queue[p]) : phase[queue[p][i]] = "queued" /\ home[queue[p][i]] = p
    /\ \A i, j \in 1..Len(queue[p]) : queue[p][i] = queue[p][j] => i = j

\* A session that has been accepted waits in the queue of its executor.
AcceptedWait ==
  \A s \in Sessions : phase[s] = "queued" => \E i \in 1..Len(queue[home[s]]) : queue[home[s]][i] = s

\* An executor has a thread at least, and never runs more sessions than it has threads.
WorkersOK ==
  \A p \in 1..made : poolSize[p] > 0 /\ Cardinality(Workers(p)) <= poolSize[p]

Accepted == HomesOK /\ QueuesOK /\ AcceptedWait /\ WorkersOK

\* The fields, once for the steps below.
LEMMA Fields ==
  ASSUME SetterOK, FieldsOK
  PROVE  /\ phase \in [Sessions -> Phases] /\ home \in [Sessions -> 0..made]
         /\ queue \in [Pools -> Seq(Sessions)] /\ poolSize \in [Pools -> Nat]
         /\ made \in Nat \ {0} /\ 1..made \subseteq Pools
         /\ \A p \in Pools : \A i \in 1..Len(queue[p]) : queue[p][i] \in Sessions
<1>1. \A p \in Pools : queue[p] \in Seq(Sessions)
  BY DEF FieldsOK
<1>2. \A p \in Pools : \A i \in 1..Len(queue[p]) : queue[p][i] \in Sessions
  BY <1>1, ElementOfSeq
<1> QED BY <1>2, BoundsAssumption DEF SetterOK, FieldsOK, Pools

LEMMA WorkersFinite ==
  ASSUME NEW p
  PROVE  IsFiniteSet(Workers(p)) /\ Cardinality(Workers(p)) \in Nat
         /\ IsFiniteSet(Workers(p)') /\ Cardinality(Workers(p)') \in Nat
<1>1. IsFiniteSet(Sessions)
  BY BoundsAssumption, FS_Interval DEF Sessions
<1>2. Workers(p) \in SUBSET Sessions /\ Workers(p)' \in SUBSET Sessions
  BY DEF Workers
<1> QED BY <1>1, <1>2, FS_Subset, FS_CardinalityType

\* A step that lets nobody enter or leave a queue,
LEMMA QueuesKept ==
  ASSUME SetterOK, FieldsOK, QueuesOK, AcceptedWait, queue' = queue,
         \A s \in Sessions : phase'[s] = "queued" <=> phase[s] = "queued",
         \A s \in Sessions : phase[s] = "queued" => home'[s] = home[s]
  PROVE  QueuesOK' /\ AcceptedWait'
<1>1. ASSUME NEW p \in Pools, NEW i \in 1..Len(queue[p])
      PROVE  phase'[queue[p][i]] = "queued" /\ home'[queue[p][i]] = p
  <2>1. queue[p][i] \in Sessions
    BY Fields
  <2>2. phase[queue[p][i]] = "queued" /\ home[queue[p][i]] = p
    BY DEF QueuesOK
  <2> QED BY <2>1, <2>2
<1>2. QueuesOK'
  BY <1>1 DEF QueuesOK
<1>3. AcceptedWait'
  BY DEF AcceptedWait
<1> QED BY <1>2, <1>3

\* and one that gives no executor a session to run.
LEMMA WorkersKept ==
  ASSUME SetterOK, FieldsOK, WorkersOK,
         \A p \in 1..made' : /\ p \in 1..made /\ poolSize'[p] = poolSize[p]
                             /\ Workers(p)' \subseteq Workers(p)
  PROVE  WorkersOK'
<1> SUFFICES ASSUME NEW p \in 1..made'
             PROVE  poolSize'[p] > 0 /\ Cardinality(Workers(p)') <= poolSize'[p]
  BY DEF WorkersOK
<1>1. p \in 1..made /\ poolSize'[p] = poolSize[p] /\ Workers(p)' \in SUBSET Workers(p)
  OBVIOUS
<1>2. Cardinality(Workers(p)') <= Cardinality(Workers(p))
  BY <1>1, WorkersFinite, FS_Subset
<1>3. poolSize[p] > 0 /\ Cardinality(Workers(p)) <= poolSize[p]
  BY <1>1 DEF WorkersOK
<1>4. poolSize[p] \in Nat
  BY <1>1, Fields
<1>5. \A i, j, k \in Nat : i <= j /\ j <= k => i <= k
  OBVIOUS
<1>6. Cardinality(Workers(p)') <= poolSize[p]
  BY <1>2, <1>3, <1>4, <1>5, WorkersFinite
<1> QED BY <1>1, <1>3, <1>6

LEMMA AcceptedInit == Init => Accepted
<1> SUFFICES ASSUME Init PROVE Accepted
  OBVIOUS
<1>1. HomesOK /\ AcceptedWait
  BY DEF Init, HomesOK, AcceptedWait
<1>2. QueuesOK
  BY DEF Init, QueuesOK
<1>3. ASSUME NEW p \in 1..made PROVE poolSize[p] > 0 /\ Cardinality(Workers(p)) <= poolSize[p]
  <2>1. p = 1 /\ p \in Pools /\ poolSize[p] = InitialLimit
    BY <1>3, BoundsAssumption DEF Init, Pools
  <2>2. Workers(p) = {}
    BY DEF Init, Workers
  <2> QED BY <2>1, <2>2, LimitsAssumption, FS_EmptySet
<1> QED BY <1>1, <1>2, <1>3 DEF Accepted, WorkersOK

\* The steps of a session that no queue and no executor's thread takes part in.
LEMMA AcceptedAlone ==
  ASSUME SetterOK, FieldsOK, Accepted, NEW s \in Sessions,
         Create(s) \/ FetchExecutor(s) \/ Reject(s) \/ ExecuteHere(s) \/ Return(s)
  PROVE  Accepted'
<1> USE Fields
<1>1. /\ queue' = queue /\ UNCHANGED poolVars
      /\ \A t \in Sessions \ {s} : phase'[t] = phase[t] /\ home'[t] = home[t]
      /\ phase[s] # "queued" /\ phase'[s] # "queued"
  BY DEF Create, Construct, AddToMap, AddToList, FetchExecutor, Reject, ExecuteHere, Return, Goes
<1>2. QueuesOK' /\ AcceptedWait'
  BY <1>1, QueuesKept DEF Accepted
<1>3. HomesOK'
  <2>1. made' = made
    BY <1>1 DEF poolVars
  <2>2. /\ phase'[s] \in {"fetched", "queued"} => home'[s] \in 1..made
        /\ phase'[s] \in {"absent", "constructed", "adding", "created"} => home'[s] = 0
    BY DEF Create, Construct, AddToMap, AddToList, FetchExecutor, Reject, ExecuteHere, Return,
           Goes, Accepted, HomesOK, SetterOK
  <2> QED BY <1>1, <2>1, <2>2 DEF Accepted, HomesOK
<1>4. WorkersOK'
  <2>1. ASSUME NEW p \in 1..made PROVE Workers(p)' \subseteq Workers(p)
    <3>1. phase'[s] = "running" => home'[s] = 0
      BY DEF Create, Construct, AddToMap, AddToList, FetchExecutor, Reject, ExecuteHere, Return,
             Goes, Accepted, HomesOK
    <3> QED BY <1>1, <3>1 DEF Workers
  <2> QED BY <1>1, <2>1, WorkersKept DEF Accepted, poolVars
<1> QED BY <1>2, <1>3, <1>4 DEF Accepted

LEMMA AcceptedSubmit ==
  ASSUME SetterOK, FieldsOK, Accepted, NEW s \in Sessions, Submit(s)
  PROVE  Accepted'
<1> DEFINE h == home[s]
<1> USE Fields
<1>1. /\ phase[s] = "fetched" /\ phase' = [phase EXCEPT ![s] = "queued"]
      /\ home' = home /\ UNCHANGED poolVars
  BY DEF Submit, Goes
<1>2. h \in 1..made /\ h \in Pools /\ queue[h] \in Seq(Sessions)
  BY <1>1 DEF Accepted, HomesOK
<1>3. /\ queue'[h] = Append(queue[h], s)
      /\ \A p \in Pools \ {h} : queue'[p] = queue[p]
  BY <1>2 DEF Submit
<1>4. /\ Len(queue[h]) \in Nat /\ Len(queue'[h]) = Len(queue[h]) + 1
      /\ queue'[h][Len(queue[h]) + 1] = s
      /\ \A i \in 1..Len(queue[h]) : queue'[h][i] = queue[h][i]
  BY <1>2, <1>3
<1>5. HomesOK'
  BY <1>1, <1>2 DEF Accepted, HomesOK, poolVars
<1>6. QueuesOK'
  <2>1. ASSUME NEW p \in Pools, NEW i \in 1..Len(queue'[p])
        PROVE  /\ queue'[p][i] = s => p = h /\ i = Len(queue[h]) + 1
               /\ queue'[p][i] # s => i \in 1..Len(queue[p]) /\ queue'[p][i] = queue[p][i]
    BY <1>1, <1>3, <1>4 DEF Accepted, QueuesOK
  <2>2. ASSUME NEW p \in Pools, NEW i \in 1..Len(queue'[p])
        PROVE  phase'[queue'[p][i]] = "queued" /\ home'[queue'[p][i]] = p
    <3>1. CASE queue'[p][i] = s
      BY <1>1, <2>1, <2>2, <3>1
    <3>2. CASE queue'[p][i] # s
      <4>1. i \in 1..Len(queue[p]) /\ queue'[p][i] = queue[p][i]
        BY <2>1, <2>2, <3>2
      <4>2. queue[p][i] \in Sessions /\ phase[queue[p][i]] = "queued" /\ home[queue[p][i]] = p
        BY <4>1 DEF Accepted, QueuesOK
      <4> QED BY <1>1, <3>2, <4>1, <4>2
    <3> QED BY <3>1, <3>2
  <2>3. ASSUME NEW p \in Pools, NEW i \in 1..Len(queue'[p]), NEW j \in 1..Len(queue'[p]),
               queue'[p][i] = queue'[p][j]
        PROVE  i = j
    <3>1. CASE queue'[p][i] = s
      BY <2>1, <2>3, <3>1
    <3>2. CASE queue'[p][i] # s
      BY <2>1, <2>3, <3>2 DEF Accepted, QueuesOK
    <3> QED BY <3>1, <3>2
  <2> QED BY <2>2, <2>3 DEF QueuesOK
<1>7. AcceptedWait'
  <2>1. ASSUME NEW t \in Sessions, phase'[t] = "queued"
        PROVE  \E i \in 1..Len(queue'[home[t]]) : queue'[home[t]][i] = t
    <3>1. CASE t = s
      BY <1>4, <3>1
    <3>2. CASE t # s
      <4>1. phase[t] = "queued" /\ home[t] \in Pools
        BY <1>1, <2>1, <3>2 DEF Accepted, HomesOK
      <4>2. PICK i \in 1..Len(queue[home[t]]) : queue[home[t]][i] = t
        BY <4>1 DEF Accepted, AcceptedWait
      <4>3. CASE home[t] = h
        <5>1. i \in 1..Len(queue[h]) /\ queue[h][i] = t
          BY <4>2, <4>3
        <5>2. i \in 1..Len(queue'[h]) /\ queue'[h][i] = t
          BY <1>4, <5>1
        <5> QED BY <4>3, <5>2
      <4>4. CASE home[t] # h
        BY <1>3, <4>1, <4>2, <4>4
      <4> QED BY <4>3, <4>4
    <3> QED BY <3>1, <3>2
  <2> QED BY <1>1, <2>1 DEF AcceptedWait
<1>8. WorkersOK'
  <2>1. ASSUME NEW p \in 1..made PROVE Workers(p)' \subseteq Workers(p)
    BY <1>1 DEF Workers
  <2> QED BY <1>1, <2>1, WorkersKept DEF Accepted, poolVars
<1> QED BY <1>5, <1>6, <1>7, <1>8 DEF Accepted

LEMMA AcceptedTaken ==
  ASSUME SetterOK, FieldsOK, Accepted, NEW p \in Pools, TakeTask(p)
  PROVE  Accepted'
<1> DEFINE s == queue[p][1]
           n == Len(queue[p])
<1> USE Fields
<1>1. /\ queue[p] # <<>> /\ queue[p] \in Seq(Sessions) /\ Head(queue[p]) = s
      /\ phase[s] = "queued" /\ phase' = [phase EXCEPT ![s] = "running"]
      /\ home' = home /\ UNCHANGED poolVars /\ Cardinality(Workers(p)) < poolSize[p]
  BY DEF TakeTask, Goes
<1>2. n \in Nat \ {0} /\ s \in Sessions /\ home[s] = p /\ p \in 1..made
  BY <1>1 DEF Accepted, QueuesOK, HomesOK
<1>3. queue'[p] = Tail(queue[p]) /\ \A q \in Pools \ {p} : queue'[q] = queue[q]
  BY DEF TakeTask
<1>4. Len(queue'[p]) = n - 1 /\ \A i \in 1..(n - 1) : queue'[p][i] = queue[p][i + 1]
  BY <1>1, <1>2, <1>3
<1>5. HomesOK'
  BY <1>1, <1>2 DEF Accepted, HomesOK, poolVars
<1>6. QueuesOK'
  <2>1. ASSUME NEW i \in 1..Len(queue'[p])
        PROVE  i + 1 \in 1..n /\ queue'[p][i] = queue[p][i + 1] /\ queue'[p][i] # s
    BY <1>2, <1>4 DEF Accepted, QueuesOK
  <2>2. ASSUME NEW q \in Pools, NEW i \in 1..Len(queue'[q])
        PROVE  phase'[queue'[q][i]] = "queued" /\ home'[queue'[q][i]] = q
    <3>1. CASE q = p
      BY <1>1, <2>1, <2>2, <3>1 DEF Accepted, QueuesOK
    <3>2. CASE q # p
      <4>1. phase[queue[q][i]] = "queued" /\ home[queue[q][i]] = q /\ queue'[q] = queue[q]
        BY <1>3, <2>2, <3>2 DEF Accepted, QueuesOK
      <4> QED BY <1>1, <1>2, <4>1, <3>2
    <3> QED BY <3>1, <3>2
  <2>3. ASSUME NEW q \in Pools, NEW i \in 1..Len(queue'[q]), NEW j \in 1..Len(queue'[q]),
               queue'[q][i] = queue'[q][j]
        PROVE  i = j
    <3>1. CASE q = p
      <4>1. i \in Int /\ j \in Int /\ i + 1 = j + 1
        BY <2>1, <2>3, <3>1 DEF Accepted, QueuesOK
      <4> QED BY <4>1
    <3>2. CASE q # p
      BY <1>3, <2>3, <3>2 DEF Accepted, QueuesOK
    <3> QED BY <3>1, <3>2
  <2> QED BY <2>2, <2>3 DEF QueuesOK
<1>7. AcceptedWait'
  <2>1. ASSUME NEW t \in Sessions, phase'[t] = "queued"
        PROVE  \E i \in 1..Len(queue'[home[t]]) : queue'[home[t]][i] = t
    <3>1. t # s /\ phase[t] = "queued" /\ home[t] \in Pools
      BY <1>1, <1>2, <2>1 DEF Accepted, HomesOK
    <3>2. PICK i \in 1..Len(queue[home[t]]) : queue[home[t]][i] = t
      BY <3>1 DEF Accepted, AcceptedWait
    <3>3. CASE home[t] = p
      <4>1. i # 1 /\ i \in 1..n
        BY <3>1, <3>2, <3>3
      <4>2. i - 1 \in 1..(n - 1) /\ (i - 1) + 1 = i
        BY <1>2, <4>1
      <4>3. queue'[p][i - 1] = t
        BY <1>4, <3>2, <3>3, <4>2
      <4> QED BY <1>4, <3>3, <4>2, <4>3
    <3>4. CASE home[t] # p
      BY <1>3, <3>1, <3>2, <3>4
    <3> QED BY <3>3, <3>4
  <2> QED BY <1>1, <2>1 DEF AcceptedWait
<1>8. WorkersOK'
  <2> SUFFICES ASSUME NEW q \in 1..made
               PROVE  poolSize[q] > 0 /\ Cardinality(Workers(q)') <= poolSize[q]
    BY <1>1 DEF WorkersOK, poolVars
  <2>1. poolSize[q] > 0 /\ Cardinality(Workers(q)) <= poolSize[q] /\ poolSize[q] \in Nat
    BY DEF Accepted, WorkersOK
  <2>2. CASE q = p
    <3>1. Workers(p)' = Workers(p) \cup {s} /\ s \notin Workers(p)
      BY <1>1, <1>2 DEF Workers
    <3>2. Cardinality(Workers(p)') = Cardinality(Workers(p)) + 1
      BY <3>1, WorkersFinite, FS_AddElement
    <3> QED BY <1>1, <2>1, <2>2, <3>2, WorkersFinite
  <2>3. CASE q # p
    <3>1. Workers(q)' = Workers(q)
      BY <1>1, <1>2, <2>3 DEF Workers
    <3> QED BY <2>1, <3>1
  <2> QED BY <2>2, <2>3
<1> QED BY <1>5, <1>6, <1>7, <1>8 DEF Accepted

\* Setting the limit: an executor that is shut down keeps its queue and its threads.
LEMMA AcceptedSetter ==
  ASSUME SetterOK, FieldsOK, Accepted, NEW c \in Setters,
         ReadOld(c) \/ NewPool(c) \/ ShutDown(c) \/ \E n \in Limits : SetLimit(c, n)
  PROVE  Accepted'
<1> USE Fields
<1>1. UNCHANGED <<phase, home, queue>>
  BY DEF ReadOld, NewPool, ShutDown, SetLimit, sessionVars
<1>2. QueuesOK' /\ AcceptedWait'
  BY <1>1, QueuesKept DEF Accepted
<1>3. CASE UNCHANGED <<made, poolSize>>
  <2>1. WorkersOK'
    BY <1>1, <1>3 DEF Accepted, WorkersOK, Workers
  <2>2. HomesOK'
    BY <1>1, <1>3 DEF Accepted, HomesOK
  <2> QED BY <1>2, <2>1, <2>2 DEF Accepted
<1>4. CASE NewPool(c)
  <2>1. /\ made' = made + 1 /\ made + 1 \in Pools
        /\ poolSize' = [poolSize EXCEPT ![made + 1] = setter[c].limit]
        /\ setter[c].limit \in Nat \ {0}
    BY <1>4, BoundsAssumption DEF NewPool, SetterOK, SetterState, Pools
  <2>2. HomesOK'
    BY <1>1, <2>1 DEF Accepted, HomesOK
  <2>3. ASSUME NEW p \in 1..made' PROVE poolSize'[p] > 0 /\ Cardinality(Workers(p)') <= poolSize'[p]
    <3>1. CASE p \in 1..made
      <4>1. poolSize'[p] = poolSize[p] /\ Workers(p)' = Workers(p)
        BY <1>1, <2>1, <3>1 DEF Workers
      <4> QED BY <3>1, <4>1 DEF Accepted, WorkersOK
    <3>2. CASE p \notin 1..made
      <4>1. p = made + 1
        BY <2>1, <3>2
      <4>2. Workers(p)' = {}
        BY <1>1, <4>1 DEF Workers
      <4>3. poolSize'[p] = setter[c].limit
        BY <2>1, <4>1
      <4> QED BY <2>1, <4>2, <4>3, FS_EmptySet
    <3> QED BY <3>1, <3>2
  <2> QED BY <1>2, <2>2, <2>3 DEF Accepted, WorkersOK
<1> QED BY <1>3, <1>4 DEF ReadOld, ShutDown, SetLimit

LEMMA AcceptedInductive == SetterOK /\ FieldsOK /\ Accepted /\ [Next]_vars => Accepted'
<1> SUFFICES ASSUME SetterOK, FieldsOK, Accepted, [Next]_vars PROVE Accepted'
  OBVIOUS
<1>1. CASE UNCHANGED vars \/ (\E n \in Sizes : SetSessionHistorySize(n)) \/ ClearSessions
  <2>1. UNCHANGED <<phase, home, queue, made, poolSize>>
    BY <1>1 DEF vars, sessionVars, poolVars, SetSessionHistorySize, ClearSessions
  <2> QED BY <2>1 DEF Accepted, HomesOK, QueuesOK, AcceptedWait, WorkersOK, Workers
<1> QED BY <1>1, AcceptedAlone, AcceptedSubmit, AcceptedTaken, AcceptedSetter DEF Next, Async

\* An accepted session waits in one place, in the queue of its executor, until that executor takes
\* it; an executor has a thread for it and runs no more at once than it was made for.  Replacing and
\* shutting down executors (FFmpegKitConfig.java, 823-837) changes none of this, with any number of
\* threads that do it.
THEOREM AcceptedOnce == Spec => []Accepted
<1>1. Init => SetterOK /\ FieldsOK /\ Accepted
  BY SetterInit, FieldsInit, AcceptedInit
<1>2. SetterOK /\ FieldsOK /\ Accepted /\ [Next]_vars => SetterOK' /\ FieldsOK' /\ Accepted'
  BY SetterInductive, FieldsInductive, AcceptedInductive
<1> QED BY <1>1, <1>2, PTL DEF Spec
=============================================================================
