---------------------------- MODULE OneShotDispatch ----------------------------
(***************************************************************************)
(* What the gate promises about external side effects, with no ledger,     *)
(* process or crash in sight.  An operation identity is used up once: by   *)
(* the call it is reserved for, or by a reservation that led to no call.   *)
(* An operation is carried out only after it was called, and acknowledged  *)
(* only after it was carried out.  None of this is ever taken back.        *)
(***************************************************************************)
CONSTANT Operation  \* identities of external side effects

VARIABLES
  used,     \* identities that can no longer be called
  called,   \* operations handed to their external service
  done,     \* operations the service carried out
  answered  \* operations acknowledged to the agent

Init == used = {} /\ called = {} /\ done = {} /\ answered = {}

\* Identities may be used up at any time, and stay so.
UsedGrows == used \subseteq used' /\ used' \subseteq Operation

\* Call fresh identities, using them up; or just use some up.
Use ==
  /\ UsedGrows
  /\ called \subseteq called'
  /\ called' \ called \subseteq used' \ used
  /\ UNCHANGED <<done, answered>>

CarryOut(op) ==
  /\ op \in called \ done
  /\ done' = done \cup {op}
  /\ UNCHANGED <<used, called, answered>>

\* The record of an acknowledgement makes every earlier reservation certain.
Acknowledge(op) ==
  /\ op \in done
  /\ answered' = answered \cup {op}
  /\ UsedGrows
  /\ UNCHANGED <<called, done>>

Next ==
  \/ Use
  \/ \E op \in Operation : CarryOut(op) \/ Acknowledge(op)

Spec == Init /\ [][Next]_<<used, called, done, answered>>
===============================================================================
