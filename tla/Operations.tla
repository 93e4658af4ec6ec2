----------------------------- MODULE Operations -----------------------------
(***************************************************************************)
(* What a CassandraBackup and a CassandraRestore promise whoever looks at  *)
(* their status: the state that is shown is one the operation really       *)
(* reached, a completed operation stays completed, and a failed one is     *)
(* shown as failed until it starts again.  Module Backups implements it.   *)
(***************************************************************************)
CONSTANTS
    Resources,   \* backups and restores
    Keys         \* what an operation is known by: its kind and its tag

VARIABLES
    shown,       \* the state each resource's status shows
    key,         \* the key of the operation each resource stands for
    outcomes     \* <<key, state>> of every operation that has ended

vars == <<shown, key, outcomes>>

Final == {"COMPLETED", "FAILED"}
States == {"", "PENDING"} \cup Final

Init ==
    /\ shown = [r \in Resources |-> ""]
    /\ key \in [Resources -> Keys]
    /\ outcomes = {}

\* The user writes or removes a resource; one that is created shows no state.
Write(r) ==
    /\ \E k \in Keys : key' = [key EXCEPT ![r] = k]
    /\ shown' \in {shown, [shown EXCEPT ![r] = ""]}
    /\ UNCHANGED outcomes

\* An operation ends, perhaps one that nobody sees the status of.
End ==
    /\ outcomes' \in SUBSET (Keys \X Final) /\ outcomes \subseteq outcomes'
    /\ UNCHANGED <<shown, key>>

\* The status follows the operation.
Show(r, s) ==
    /\ shown[r] # "COMPLETED"
    /\ shown[r] = "FAILED" => s \in {"", "PENDING"}
    /\ s \in Final => <<key[r], s>> \in outcomes
    /\ shown' = [shown EXCEPT ![r] = s]
    /\ UNCHANGED <<key, outcomes>>

Next ==
    \/ End
    \/ \E r \in Resources : Write(r) \/ \E s \in States : Show(r, s)

Spec == Init /\ [][Next]_vars
=============================================================================
