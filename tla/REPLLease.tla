------------------------------ MODULE REPLLease ------------------------------
(***************************************************************************)
(* What a capped pool of exclusive resources promises its clients, with    *)
(* none of the pool's mechanism: at most Limit handles are idle, leased or *)
(* being created, and a handle is idle or leased to one client.  The       *)
(* high-concurrency pool of fabricspark/db.go implements it (REPLPool).    *)
(***************************************************************************)
EXTENDS Integers, FiniteSets

CONSTANTS Clients, Handles, None, Limit

VARIABLES
    idle,       \* handles ready to be taken
    creating,   \* clients entitled to one new handle
    lease       \* the handle each client holds

vars == <<idle, creating, lease>>

Leased == {lease[c] : c \in Clients} \ {None}
Entitled == {c \in Clients : c \in creating \/ lease[c] # None}
InUse == Cardinality(idle) + Cardinality(Entitled)

Init ==
    /\ idle = {}
    /\ creating = {}
    /\ lease = [c \in Clients |-> None]

Reserve(c) ==
    /\ c \notin Entitled
    /\ InUse < Limit
    /\ creating' = creating \cup {c}
    /\ UNCHANGED <<idle, lease>>

Abandon(c) ==
    /\ c \in creating
    /\ creating' = creating \ {c}
    /\ UNCHANGED <<idle, lease>>

Create(c) ==
    /\ c \in creating
    /\ \E h \in Handles \ (idle \cup Leased) :
           lease' = [lease EXCEPT ![c] = h]
    /\ creating' = creating \ {c}
    /\ UNCHANGED idle

Take(c) ==
    /\ c \notin Entitled
    /\ \E h \in idle : /\ lease' = [lease EXCEPT ![c] = h]
                       /\ idle' = idle \ {h}
    /\ UNCHANGED creating

GiveBack(c) ==
    /\ lease[c] # None
    /\ idle' = idle \cup {lease[c]}
    /\ lease' = [lease EXCEPT ![c] = None]
    /\ UNCHANGED creating

Drop(c) ==
    /\ lease[c] # None
    /\ lease' = [lease EXCEPT ![c] = None]
    /\ UNCHANGED <<idle, creating>>

Next == \E c \in Clients :
    Reserve(c) \/ Abandon(c) \/ Create(c) \/ Take(c) \/ GiveBack(c) \/ Drop(c)

Spec == Init /\ [][Next]_vars
=============================================================================
