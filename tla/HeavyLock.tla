----------------------------- MODULE HeavyLock -----------------------------
(***************************************************************************)
(* What the budget governor's heavy slot promises (AcquireHeavy and the    *)
(* release it returns, api-go/internal/budget/governor.go): heavy work     *)
(* runs one at a time, and everyone who asks is answered, with the slot or *)
(* with a refusal, whatever the work before them does.                     *)
(***************************************************************************)
CONSTANT Callers

VARIABLE status   \* caller -> what it has asked for and been told

Status == [Callers -> {"idle", "asked", "granted", "refused"}]

Ask(c) ==
    /\ status[c] = "idle"
    /\ status' = [status EXCEPT ![c] = "asked"]

Grant(c) ==
    /\ status[c] = "asked"
    /\ \A d \in Callers : status[d] # "granted"
    /\ status' = [status EXCEPT ![c] = "granted"]

Refuse(c) ==
    /\ status[c] = "asked"
    /\ status' = [status EXCEPT ![c] = "refused"]

Leave(c) ==
    /\ status[c] \in {"granted", "refused"}
    /\ status' = [status EXCEPT ![c] = "idle"]

Init == status = [c \in Callers |-> "idle"]
Next == \E c \in Callers : Ask(c) \/ Grant(c) \/ Refuse(c) \/ Leave(c)

Safety == Init /\ [][Next]_status
Spec == Safety /\ \A c \in Callers : WF_status(Grant(c) \/ Refuse(c))
=============================================================================
