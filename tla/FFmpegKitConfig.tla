-------------------------- MODULE FFmpegKitConfig --------------------------
(***************************************************************************)
(* The two things FFmpegKitConfig keeps for all sessions: the history of   *)
(* the sessions created, where the native library's logs find the session  *)
(* they belong to, and the executor that runs sessions asynchronously.     *)
(*                                                                         *)
(* The history is a map and a list, changed under one lock and bounded by  *)
(* sessionHistorySize, which is written without it and read once for each. *)
(* The executor is replaced by setAsyncConcurrencyLimit with no lock at    *)
(* all, while other threads submit to it and its workers run.  What a      *)
(* session does while it runs is the subject of FFmpegSession.tla.         *)
(***************************************************************************)
EXTENDS Integers, Sequences, FiniteSets

CONSTANTS
  MaxSessions,   \* bound: sessions created
  Sizes,         \* arguments of setSessionHistorySize
  InitialSize,
  Limits,        \* arguments of setAsyncConcurrencyLimit
  InitialLimit,
  Setters,       \* threads that call setAsyncConcurrencyLimit
  MaxPools       \* bound: executors made

Sessions == 1..MaxSessions
Pools == 1..MaxPools

ASSUME BoundsAssumption == MaxSessions \in Nat \ {0} /\ MaxPools \in Nat \ {0}
ASSUME SizesAssumption == Sizes \subseteq Int /\ InitialSize \in 1..999
ASSUME LimitsAssumption == Limits \subseteq Int /\ InitialLimit \in Nat \ {0}

VARIABLES
  sessionIdGenerator,
  phase,                 \* how far the thread that deals with a session has come
  sessionHistoryMap,     \* its keys, the eldest first
  sessionHistoryList,
  sessionHistorySize,
  asyncConcurrencyLimit,
  asyncExecutorService,  \* the number of the current executor
  made,                  \* how many executors have been made
  poolSize, queue, shut, \* of each executor
  home,                  \* the executor a session is for, 0 for none
  setter,                \* of each setter: its next step, its limit, its old executor
  added,                 \* history: the sessions added since the last clear
  sizes                  \* history: the sizes in force since the last clear

sessionVars == <<sessionIdGenerator, phase, home>>
historyVars == <<sessionHistoryMap, sessionHistoryList, sessionHistorySize, added, sizes>>
poolVars == <<asyncConcurrencyLimit, asyncExecutorService, made, poolSize, shut, setter>>
vars == <<sessionVars, historyVars, poolVars, queue>>

-----------------------------------------------------------------------------

SetterSteps == {"idle", "read", "assign", "shutdown"}
Phases ==
  {"absent", "constructed", "adding", "created", "fetched", "queued", "rejected", "running", "done"}

Last(q, n) == SubSeq(q, Len(q) - n + 1, Len(q))

\* What a setter that calls nothing remembers.
NoCall == [pc |-> "idle", limit |-> InitialLimit, old |-> 1]

\* Where a setter is about to make an executor.
Making == {"read", "assign"}

Workers(p) == {s \in Sessions : home[s] = p /\ phase[s] = "running"}

\* sessionHistoryLock is held between the two halves of addSession.
LockFree == \A s \in Sessions : phase[s] # "adding"

Goes(s, from, to) == phase[s] = from /\ phase' = [phase EXCEPT ![s] = to]

Init ==
  /\ sessionIdGenerator = 1
  /\ phase = [s \in Sessions |-> "absent"]
  /\ sessionHistoryMap = <<>>
  /\ sessionHistoryList = <<>>
  /\ sessionHistorySize = InitialSize
  /\ asyncConcurrencyLimit = InitialLimit
  /\ asyncExecutorService = 1
  /\ made = 1
  /\ poolSize = [p \in Pools |-> IF p = 1 THEN InitialLimit ELSE 0]
  /\ queue = [p \in Pools |-> <<>>]
  /\ shut = {}
  /\ home = [s \in Sessions |-> 0]
  /\ setter = [c \in Setters |-> NoCall]
  /\ added = <<>>
  /\ sizes = {InitialSize}

-----------------------------------------------------------------------------
(* Creating sessions, and the history.                                     *)

\* The constructor of AbstractSession takes an id and then adds the session.
Construct(s) ==
  /\ sessionIdGenerator = s
  /\ Goes(s, "absent", "constructed")
  /\ sessionIdGenerator' = s + 1
  /\ UNCHANGED <<home, historyVars, poolVars, queue>>

\* Mutant: the map keeps one session less.
AddToMap_OffByOne(s) ==
  /\ LockFree
  /\ Goes(s, "constructed", "adding")
  /\ LET m == Append(sessionHistoryMap, s)
     IN sessionHistoryMap' = IF Len(m) >= sessionHistorySize THEN Tail(m) ELSE m
  /\ added' = Append(added, s)
  /\ UNCHANGED <<sessionIdGenerator, home, sessionHistoryList,
                 sessionHistorySize, sizes, poolVars, queue>>

\* A session is constructed once, so that its id is not in the map yet.  The map removes
\* its eldest entry by removeEldestEntry.
AddToMap(s) ==
  /\ LockFree
  /\ Goes(s, "constructed", "adding")
  /\ LET m == Append(sessionHistoryMap, s)
     IN sessionHistoryMap' = IF Len(m) > sessionHistorySize THEN Tail(m) ELSE m
  /\ added' = Append(added, s)
  /\ UNCHANGED <<sessionIdGenerator, home, sessionHistoryList,
                 sessionHistorySize, sizes, poolVars, queue>>

\* Mutant: the latest session is removed instead of the eldest.
AddToList_RemovesLast(s) ==
  /\ Goes(s, "adding", "created")
  /\ sessionHistoryList' = IF Len(sessionHistoryList) + 1 > sessionHistorySize
                             THEN sessionHistoryList
                             ELSE Append(sessionHistoryList, s)
  /\ UNCHANGED <<sessionIdGenerator, home, sessionHistoryMap,
                 sessionHistorySize, added, sizes, poolVars, queue>>

AddToList(s) ==
  /\ Goes(s, "adding", "created")
  /\ LET l == Append(sessionHistoryList, s)
     IN sessionHistoryList' = IF Len(l) > sessionHistorySize THEN Tail(l) ELSE l
  /\ UNCHANGED <<sessionIdGenerator, home, sessionHistoryMap,
                 sessionHistorySize, added, sizes, poolVars, queue>>

\* Not synchronised with anything; other sizes are ignored or refused.
SetSessionHistorySize(n) ==
  /\ n > 0 /\ n < 1000
  /\ sessionHistorySize' = n
  /\ sizes' = sizes \cup {n}
  /\ UNCHANGED <<sessionVars, sessionHistoryMap, sessionHistoryList, added, poolVars, queue>>

ClearSessions ==
  /\ LockFree
  /\ sessionHistoryMap' = <<>>
  /\ sessionHistoryList' = <<>>
  /\ added' = <<>>
  /\ sizes' = {sessionHistorySize}
  /\ UNCHANGED <<sessionVars, sessionHistorySize, poolVars, queue>>

-----------------------------------------------------------------------------
(* The executor.                                                           *)

\* asyncFFmpegExecute and its siblings read the field and submit to what they have read.
FetchExecutor(s) ==
  /\ Goes(s, "created", "fetched")
  /\ home' = [home EXCEPT ![s] = asyncExecutorService]
  /\ UNCHANGED <<sessionIdGenerator, historyVars, poolVars, queue>>

Submit(s) ==
  /\ home[s] \notin shut
  /\ Goes(s, "fetched", "queued")
  /\ queue' = [queue EXCEPT ![home[s]] = Append(@, s)]
  /\ UNCHANGED <<sessionIdGenerator, home, historyVars, poolVars>>

\* RejectedExecutionException: the session stays as it was created.
Reject(s) ==
  /\ home[s] \in shut
  /\ Goes(s, "fetched", "rejected")
  /\ home' = [home EXCEPT ![s] = 0]
  /\ UNCHANGED <<sessionIdGenerator, historyVars, poolVars, queue>>

\* Mutant: the limit is not looked at.
SetLimit_Unchecked(c, n) ==
  /\ setter[c].pc = "idle"
  /\ made + Cardinality({d \in Setters : setter[d].pc \in Making}) < MaxPools
  /\ asyncConcurrencyLimit' = n
  /\ setter' = [setter EXCEPT ![c] = [pc |-> "read", limit |-> n, old |-> 1]]
  /\ UNCHANGED <<sessionVars, historyVars, asyncExecutorService, made, poolSize, shut, queue>>

\* setAsyncConcurrencyLimit writes the limit,
SetLimit(c, n) ==
  /\ n > 0
  /\ setter[c].pc = "idle"
  /\ made + Cardinality({d \in Setters : setter[d].pc \in Making}) < MaxPools
  /\ asyncConcurrencyLimit' = n
  /\ setter' = [setter EXCEPT ![c] = [pc |-> "read", limit |-> n, old |-> 1]]
  /\ UNCHANGED <<sessionVars, historyVars, asyncExecutorService, made, poolSize, shut, queue>>

\* reads the executor it is to replace,
ReadOld(c) ==
  /\ setter[c].pc = "read"
  /\ setter' = [setter EXCEPT ![c].pc = "assign", ![c].old = asyncExecutorService]
  /\ UNCHANGED <<sessionVars, historyVars, asyncConcurrencyLimit, asyncExecutorService,
                 made, poolSize, shut, queue>>

\* Mutant: the new executor has as many threads as the first one.
NewPool_FirstLimit(c) ==
  /\ setter[c].pc = "assign"
  /\ made < MaxPools
  /\ made' = made + 1
  /\ poolSize' = [poolSize EXCEPT ![made + 1] = InitialLimit]
  /\ asyncExecutorService' = made + 1
  /\ setter' = [setter EXCEPT ![c].pc = "shutdown"]
  /\ UNCHANGED <<sessionVars, historyVars, asyncConcurrencyLimit, shut, queue>>

\* puts a new one in its place,
NewPool(c) ==
  /\ setter[c].pc = "assign"
  /\ made < MaxPools
  /\ made' = made + 1
  /\ poolSize' = [poolSize EXCEPT ![made + 1] = setter[c].limit]
  /\ asyncExecutorService' = made + 1
  /\ setter' = [setter EXCEPT ![c].pc = "shutdown"]
  /\ UNCHANGED <<sessionVars, historyVars, asyncConcurrencyLimit, shut, queue>>

\* Mutant: what the field holds now is shut down.
ShutDown_Current(c) ==
  /\ setter[c].pc = "shutdown"
  /\ shut' = shut \cup {asyncExecutorService}
  /\ setter' = [setter EXCEPT ![c] = NoCall]
  /\ UNCHANGED <<sessionVars, historyVars, asyncConcurrencyLimit, asyncExecutorService,
                 made, poolSize, queue>>

\* Mutant: shutdownNow, which drops what is queued.
ShutDown_Now(c) ==
  /\ setter[c].pc = "shutdown"
  /\ shut' = shut \cup {setter[c].old}
  /\ queue' = [queue EXCEPT ![setter[c].old] = <<>>]
  /\ setter' = [setter EXCEPT ![c] = NoCall]
  /\ UNCHANGED <<sessionVars, historyVars, asyncConcurrencyLimit, asyncExecutorService,
                 made, poolSize>>

\* and shuts the old one down.
ShutDown(c) ==
  /\ setter[c].pc = "shutdown"
  /\ shut' = shut \cup {setter[c].old}
  /\ setter' = [setter EXCEPT ![c] = NoCall]
  /\ UNCHANGED <<sessionVars, historyVars, asyncConcurrencyLimit, asyncExecutorService,
                 made, poolSize, queue>>

-----------------------------------------------------------------------------
(* Running a session, on a worker or on the thread that created it.        *)

\* A fixed pool takes tasks in order, one for each thread, and goes on when it is shut.
TakeTask(p) ==
  /\ queue[p] # <<>>
  /\ Cardinality(Workers(p)) < poolSize[p]
  /\ Goes(Head(queue[p]), "queued", "running")
  /\ queue' = [queue EXCEPT ![p] = Tail(@)]
  /\ UNCHANGED <<sessionIdGenerator, home, historyVars, poolVars>>

ExecuteHere(s) ==
  /\ Goes(s, "created", "running")
  /\ UNCHANGED <<sessionIdGenerator, home, historyVars, poolVars, queue>>

\* ffmpegExecute, ffprobeExecute and getMediaInformationExecute return whether the command
\* succeeds, fails or throws; the task then calls the callback of the session and the
\* global one, whose exceptions it catches, and its worker is free.
Return(s) ==
  /\ Goes(s, "running", "done")
  /\ home' = [home EXCEPT ![s] = 0]
  /\ UNCHANGED <<sessionIdGenerator, historyVars, poolVars, queue>>

-----------------------------------------------------------------------------

Create(s) == Construct(s) \/ AddToMap(s) \/ AddToList(s)
Async(s) == FetchExecutor(s) \/ Submit(s) \/ Reject(s)

Next ==
  \/ \E s \in Sessions : Create(s) \/ Async(s) \/ ExecuteHere(s) \/ Return(s)
  \/ \E n \in Sizes : SetSessionHistorySize(n)
  \/ ClearSessions
  \/ \E c \in Setters : ReadOld(c) \/ NewPool(c) \/ ShutDown(c) \/ \E n \in Limits : SetLimit(c, n)
  \/ \E p \in Pools : TakeTask(p)

Spec == Init /\ [][Next]_vars

\* The workers of the executors are scheduled, and every command ends.
FairSpec ==
  /\ Spec
  /\ \A p \in Pools : WF_vars(TakeTask(p))
  /\ \A s \in Sessions : WF_vars(Return(s))

-----------------------------------------------------------------------------
(* Safety.                                                                 *)

\* Every variable is in its range: in particular the executor in force is one of those
\* that have been made.
TypeOK ==
  /\ sessionIdGenerator \in 1..MaxSessions + 1
  /\ phase \in [Sessions -> Phases]
  /\ sessionHistoryMap \in Seq(Sessions) /\ sessionHistoryList \in Seq(Sessions)
  /\ sessionHistorySize \in 1..999
  /\ asyncConcurrencyLimit \in Nat \ {0}
  /\ made \in Pools /\ asyncExecutorService \in 1..made
  /\ poolSize \in [Pools -> Nat]
  /\ queue \in [Pools -> Seq(Sessions)]
  /\ shut \subseteq 1..made
  /\ home \in [Sessions -> 0..made]
  /\ setter \in [Setters -> [pc : SetterSteps, limit : Nat \ {0}, old : 1..made]]
  /\ added \in Seq(Sessions) /\ sizes \subseteq 1..999

\* A view of the history is the end of what has been added: it is complete up to the
\* smallest size in force, and no longer than the largest.
Recent(view, all) ==
  /\ Len(view) <= Len(all) /\ view = Last(all, Len(view))
  /\ \E n \in sizes : Len(view) <= n
  /\ \E n \in sizes : Len(view) = Len(all) \/ Len(view) >= n

\* What the list can know of while addSession is between its halves.
Listed == IF LockFree THEN added ELSE SubSeq(added, 1, Len(added) - 1)

\* However sizes change between the two reads of addSession (FFmpegKitConfig.java,
\* 160-162 and 1108-1115), map and list keep the latest sessions, in order.
HistoryIsRecent == Recent(sessionHistoryMap, added) /\ Recent(sessionHistoryList, Listed)

\* A session is rejected only if its executor was replaced after it had been fetched:
\* the one in the field is never shut down, however many threads replace it
\* (FFmpegKitConfig.java, 823-837).
CurrentPoolOpen == asyncExecutorService \notin shut

\* With one thread that sets limits: once it is done, every other executor is shut down
\* and takes no new session, and the limit is the size of the one in force.
PoolsSettled ==
  (\A c \in Setters : setter[c].pc = "idle")
    => /\ shut = 1..made \ {asyncExecutorService}
       /\ poolSize[asyncExecutorService] = asyncConcurrencyLimit

-----------------------------------------------------------------------------
(* Liveness.                                                               *)

\* Under FairSpec: a session that an executor has accepted is run and its callbacks are
\* called, also when the executor is replaced while it waits.
AcceptedAreRun == \A s \in Sessions : phase[s] = "queued" ~> phase[s] = "done"
=============================================================================
