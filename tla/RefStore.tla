------------------------------ MODULE RefStore ------------------------------
(***************************************************************************)
(* What a reference store promises (refs.h, "Reference transaction         *)
(* updates").  Every reference is an atomic register.  A transaction asks  *)
(* for an update of some references, each with the value the reference     *)
(* must have before.  An update that is performed finds that value, is     *)
(* performed once, and nothing else changes a reference.  A transaction    *)
(* may be performed piece by piece and may stop half-way.                  *)
(***************************************************************************)
CONSTANTS
    Ref,        \* the reference names
    Client,     \* the processes that run transactions
    Oid,        \* the object names
    None,       \* null_oid: the reference does not exist
    NoOld,      \* old_oid is NULL: the old value is not checked
    NoNew,      \* new_oid is NULL: the reference is not changed
    Transactions \* the transactions a client may ask for

VARIABLES
    val,        \* the value of each reference
    request,    \* the transaction of each client
    performed   \* the references each client's transaction has updated

Init ==
    /\ val \in [Ref -> Oid \cup {None}]
    /\ request = [c \in Client |-> <<>>]
    /\ performed = [c \in Client |-> {}]

(* A client starts its one transaction. *)
Begin(c) ==
    /\ request[c] = <<>>
    /\ \E t \in Transactions : request' = [request EXCEPT ![c] = t]
    /\ UNCHANGED <<val, performed>>

Asks(c, r) == r \in DOMAIN request[c] /\ request[c][r].new # NoNew

(* Some of the updates a client asked for take effect together. *)
Perform(c, S) ==
    /\ \A r \in S :
         /\ Asks(c, r)
         /\ r \notin performed[c]
         /\ request[c][r].old \in {NoOld, val[r]}
    /\ val' = [r \in Ref |-> IF r \in S THEN request[c][r].new ELSE val[r]]
    /\ performed' = [performed EXCEPT ![c] = @ \cup S]
    /\ UNCHANGED request

Next == \E c \in Client : Begin(c) \/ \E S \in SUBSET Ref : Perform(c, S)

Spec == Init /\ [][Next]_<<val, request, performed>>
=============================================================================
