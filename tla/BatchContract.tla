--------------------------- MODULE BatchContract ---------------------------
(***************************************************************************)
(* What a batch of tool calls promises the rest of the agent, whatever     *)
(* interrupts it: conflicting calls run one after the other in the order   *)
(* they were emitted, every call is answered exactly once, the answer says *)
(* truthfully whether the tool ran, and nothing runs after the batch has   *)
(* returned.                                                               *)
(***************************************************************************)
EXTENDS Integers

CONSTANT N

Calls == 1..N

VARIABLES
    exclusive,  \* the calls that tolerate no other beside them
    life,       \* what has become of each call
    told,       \* what its answer claims
    returned

vars == <<exclusive, life, told, returned>>

Lives == {"pending", "forgone", "running", "ran", "broken"}
Tales == {"nothing", "outcome", "cutShort", "notRun"}

(* The answers a call may truthfully get. *)
Truthful(l) ==
    CASE l = "ran"     -> {"outcome"}
      [] l = "broken"  -> {"outcome", "cutShort"}
      [] l = "forgone" -> {"outcome", "notRun"}
      [] OTHER         -> {}

(* Nothing of the call is still to come. *)
Over(c) == life[c] = "forgone" \/ told[c] # "nothing"

Conflict(i, j) == exclusive[i] \/ exclusive[j]

Init ==
    /\ exclusive \in [Calls -> BOOLEAN]
    /\ life = [c \in Calls |-> "pending"]
    /\ told = [c \in Calls |-> "nothing"]
    /\ returned = FALSE

Run(c) ==
    /\ ~returned
    /\ life[c] = "pending"
    /\ \A i \in Calls : i < c /\ Conflict(i, c) => Over(i)
    /\ life' = [life EXCEPT ![c] = "running"]
    /\ UNCHANGED <<exclusive, told, returned>>

Finish(c) ==
    /\ ~returned
    /\ life[c] = "running"
    /\ \E l \in {"ran", "broken"} : life' = [life EXCEPT ![c] = l]
    /\ UNCHANGED <<exclusive, told, returned>>

(* The call will never run; it may be told so at once. *)
Forgo(c) ==
    /\ ~returned
    /\ life[c] = "pending"
    /\ life' = [life EXCEPT ![c] = "forgone"]
    /\ \E t \in {"nothing"} \cup Truthful("forgone") : told' = [told EXCEPT ![c] = t]
    /\ UNCHANGED <<exclusive, returned>>

Answer(c) ==
    /\ ~returned
    /\ told[c] = "nothing"
    /\ \E t \in Truthful(life[c]) : told' = [told EXCEPT ![c] = t]
    /\ UNCHANGED <<exclusive, life, returned>>

(* The batch returns, answering whatever is still unanswered. *)
Return ==
    /\ ~returned
    /\ returned' = TRUE
    /\ told' \in [Calls -> Tales \ {"nothing"}]
    /\ \A c \in Calls : IF told[c] = "nothing"
                        THEN told'[c] \in Truthful(life[c])
                        ELSE told'[c] = told[c]
    /\ UNCHANGED <<exclusive, life>>

Next == Return \/ \E c \in Calls : Run(c) \/ Finish(c) \/ Forgo(c) \/ Answer(c)

Spec == Init /\ [][Next]_vars
=============================================================================
