---------------------------- MODULE MatchContract ----------------------------
(***************************************************************************)
(* What local services promise about a request, whatever calls, timeouts    *)
(* and operators do: the customer asks one provider at a time, a job begins *)
(* only when the one who is asked agrees, and a provider who has had the    *)
(* chance (agreed, declined, let it lapse or backed out) is never asked     *)
(* again.  Once a request is done or over, nothing happens to it.           *)
(***************************************************************************)
CONSTANTS Requests, Providers, None

VARIABLES
    phase,   \* where each request is
    with,    \* who it is with: the one asked, at work or paid for the work
    spent    \* who has had the chance

vars == <<phase, with, spent>>

Move(r, to, p) ==
    /\ phase' = [phase EXCEPT ![r] = to]
    /\ with' = [with EXCEPT ![r] = p]

Spend(r) == spent' = [spent EXCEPT ![r] = @ \cup ({with[r]} \ {None})]

Publish(r) ==
    /\ phase[r] = "absent"
    /\ Move(r, "open", None)
    /\ UNCHANGED spent

\* The one asked before has let the time to answer pass.
Ask(r, p) ==
    /\ phase[r] \in {"open", "asked"}
    /\ p \notin spent[r] \cup {with[r]}
    /\ Move(r, "asked", p)
    /\ Spend(r)

Agree(r) ==
    /\ phase[r] = "asked"
    /\ Move(r, "engaged", with[r])
    /\ Spend(r)

\* Declined, not answered, or backed out.
Release(r) ==
    /\ phase[r] \in {"asked", "engaged"}
    /\ Move(r, "open", None)
    /\ Spend(r)

Finish(r) ==
    /\ phase[r] = "engaged"
    /\ Move(r, "done", with[r])
    /\ UNCHANGED spent

Close(r) ==
    /\ phase[r] \in {"open", "asked", "engaged"}
    /\ Move(r, "over", None)
    /\ Spend(r)

Init ==
    /\ phase = [r \in Requests |-> "absent"]
    /\ with = [r \in Requests |-> None]
    /\ spent = [r \in Requests |-> {}]

Next ==
    \E r \in Requests :
        \/ Publish(r) \/ Agree(r) \/ Release(r) \/ Finish(r) \/ Close(r)
        \/ \E p \in Providers : Ask(r, p)

Spec == Init /\ [][Next]_vars
=============================================================================
