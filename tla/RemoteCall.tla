----------------------------- MODULE RemoteCall -----------------------------
(***************************************************************************)
(* What the TNFS client (tnfs_client.c) promises the AT+N... commands of   *)
(* its requests to the server: one at a time, each carried out once at     *)
(* most unless the server cannot recognise its repetition, and an answer   *)
(* that is the answer to that request.                                     *)
(***************************************************************************)
EXTENDS Naturals

CONSTANT Calls      \* requests are numbered 1..Calls

VARIABLES
  issued,     \* how many requests have been made
  repeatable, \* those the server cannot recognise a repetition of
  open,       \* the last one is still awaited
  runs,       \* how often the server carried each one out
  outcome     \* what the client was told last

vars == <<issued, repeatable, open, runs, outcome>>

\* "done" by the server, "refused" by it, "unknown": no usable answer.
Outcomes == [call : 0..Calls, result : {"none", "done", "refused", "unknown"}]

Init ==
  /\ issued = 0 /\ repeatable = {} /\ open = FALSE
  /\ runs = [i \in 1..Calls |-> 0]
  /\ outcome = [call |-> 0, result |-> "none"]

Issue ==
  /\ ~open /\ issued < Calls
  /\ issued' = issued + 1 /\ open' = TRUE
  /\ repeatable' \in {repeatable, repeatable \cup {issued + 1}}
  /\ UNCHANGED <<runs, outcome>>

\* The server may be late: a request given up can still be carried out.
Execute(i) ==
  /\ i <= issued
  /\ runs[i] = 0 \/ i \in repeatable
  /\ runs' = [runs EXCEPT ![i] = @ + 1]
  /\ UNCHANGED <<issued, repeatable, open, outcome>>

Return(result) ==
  /\ open
  /\ result = "done" => runs[issued] # 0
  /\ result = "refused" => runs[issued] = 0
  /\ open' = FALSE
  /\ outcome' = [call |-> issued, result |-> result]
  /\ UNCHANGED <<issued, repeatable, runs>>

Next ==
  \/ Issue
  \/ \E i \in 1..Calls : Execute(i)
  \/ \E result \in {"done", "refused", "unknown"} : Return(result)

Spec == Init /\ [][Next]_vars
=============================================================================
