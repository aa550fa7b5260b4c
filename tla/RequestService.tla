--------------------------- MODULE RequestService ---------------------------
(***************************************************************************)
(* What the private websocket of an account and the REST connection of the *)
(* same account promise each other (gateway/request.hpp): the websocket    *)
(* asks for a kind of data, as often as it likes, and every request that   *)
(* was asked for is committed in the end.  OrderEntry implements this, and *)
(* DropCopy uses nothing else of it.                                       *)
(***************************************************************************)
CONSTANT Kinds    \* what can be asked for

VARIABLE status   \* of each kind: nothing asked, asked, answered

Init == status = [k \in Kinds |-> "idle"]

(* Asking again makes an answer that is there be forgotten.                *)
Ask(k) == status' = [status EXCEPT ![k] = "pending"]

Commit(k) ==
    /\ status[k] = "pending"
    /\ status' = [status EXCEPT ![k] = "done"]

Next == \E k \in Kinds : Ask(k) \/ Commit(k)

Spec == Init /\ [][Next]_status

FairSpec == Spec /\ \A k \in Kinds : WF_status(Commit(k))
=============================================================================
