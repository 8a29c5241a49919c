--------------------------- MODULE MatchRefinement ---------------------------
(* Matching implements MatchContract: the refinement mapping.              *)
EXTENDS Matching

Phase(status) ==
    CASE status = "pending_confirmation" -> "asked"
      [] status \in JobStatus -> "engaged"
      [] status = "completed" -> "done"
      [] status \in {"cancelled", "expired"} -> "over"
      [] OTHER -> status

With(r) ==
    CASE req[r].status = "pending_confirmation" -> req[r].sel
      [] req[r].status \in JobStatus \cup {"completed"} -> MatchedProvider(r)
      [] OTHER -> None

Spent(r) == {p \in Providers : offer[r][p] \in {"accepted", "rejected", "expired"}}

phases == [r \in Requests |-> Phase(req[r].status)]
parties == [r \in Requests |-> With(r)]
spents == [r \in Requests |-> Spent(r)]

Contract == INSTANCE MatchContract WITH
    phase <- phases, with <- parties, spent <- spents

\* Three tables moved by stale calls, lazy timeouts and cancels never do more
\* than the contract between a customer and the providers allows: every
\* transaction is one of its steps, or none.
ContractIsKept == Contract!Spec
=============================================================================
