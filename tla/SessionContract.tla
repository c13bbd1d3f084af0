--------------------------- MODULE SessionContract ---------------------------
(***************************************************************************)
(* What a Java session shows to the program that created it: it runs once, *)
(* it has its return code before it is COMPLETED, neither changes again,   *)
(* and the code says CANCEL only if somebody asked for it while it ran.    *)
(* FFmpegSession.tla is shown to implement this.                           *)
(***************************************************************************)
CONSTANT Sessions

VARIABLES
  state,       \* AbstractSession.state
  returnCode,  \* AbstractSession.returnCode
  asked        \* sessions that somebody asked to cancel while they ran

contractVars == <<state, returnCode, asked>>

ContractInit ==
  /\ state = [s \in Sessions |-> "CREATED"]
  /\ returnCode = [s \in Sessions |-> "null"]
  /\ asked = {}

StartRunning(s) ==
  /\ state[s] = "CREATED"
  /\ state' = [state EXCEPT ![s] = "RUNNING"]
  /\ UNCHANGED <<returnCode, asked>>

Ask ==
  \E cancelled \in SUBSET {s \in Sessions : state[s] = "RUNNING" /\ returnCode[s] = "null"} :
    /\ asked' = asked \cup cancelled
    /\ UNCHANGED <<state, returnCode>>

Return(s) ==
  \E code \in {"SUCCESS", "ERROR", "CANCEL"} :
    /\ state[s] = "RUNNING"
    /\ returnCode[s] = "null"
    /\ code = "CANCEL" => s \in asked
    /\ returnCode' = [returnCode EXCEPT ![s] = code]
    /\ UNCHANGED <<state, asked>>

Complete(s) ==
  /\ state[s] = "RUNNING"
  /\ returnCode[s] # "null"
  /\ state' = [state EXCEPT ![s] = "COMPLETED"]
  /\ UNCHANGED <<returnCode, asked>>

FailWith(s) ==
  /\ state[s] = "RUNNING"
  /\ returnCode[s] = "null"
  /\ state' = [state EXCEPT ![s] = "FAILED"]
  /\ UNCHANGED <<returnCode, asked>>

ContractNext ==
  \/ Ask
  \/ \E s \in Sessions : StartRunning(s) \/ Return(s) \/ Complete(s) \/ FailWith(s)

ContractSpec == ContractInit /\ [][ContractNext]_contractVars
=============================================================================
