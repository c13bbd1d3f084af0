--------------------------- MODULE MessageChannel ---------------------------
(***************************************************************************)
(* What the log redirection of FFmpegKit promises to a session: each       *)
(* message the session generates reaches its Java object once, and in the  *)
(* order of generation until redirection is enabled again, which may leave *)
(* two threads delivering.  LogRedirection.tla is shown to implement this. *)
(***************************************************************************)
EXTENDS Integers, Sequences

CONSTANT Sessions

VARIABLES
  sent,      \* messages each session has generated
  received,  \* the numbers of those that reached Java, in order of arrival
  ordered    \* there is still one thread that delivers

channelVars == <<sent, received, ordered>>

ChannelInit ==
  /\ sent = [s \in Sessions |-> 0]
  /\ received = [s \in Sessions |-> <<>>]
  /\ ordered = TRUE

Send(s) ==
  /\ sent' = [sent EXCEPT ![s] = @ + 1]
  /\ UNCHANGED <<received, ordered>>

Receive(s) ==
  \E n \in 1..sent[s] :
    /\ \A i \in DOMAIN received[s] : received[s][i] # n
    /\ ordered => n = Len(received[s]) + 1
    /\ received' = [received EXCEPT ![s] = Append(@, n)]
    /\ UNCHANGED <<sent, ordered>>

EnableAgain ==
  /\ ordered' = FALSE
  /\ UNCHANGED <<sent, received>>

ChannelNext == (\E s \in Sessions : Send(s) \/ Receive(s)) \/ EnableAgain

ChannelSpec == ChannelInit /\ [][ChannelNext]_channelVars
=============================================================================
