-------------------------- MODULE MCAdminAuthToken --------------------------
(* Small instances of AdminAuthToken for TLC. *)
EXTENDS AdminAuthToken, TLC

CONSTANTS c1, c2, c3, v1

MCPolicies == {v1}

TwoCallers == {c1, c2}
ThreeCallers == {c1, c2, c3}

Ask(kind, policy) == [kind |-> kind, policy |-> policy]

\* Every kind of call, with and without a validation policy.
AllRequests == [kind : Kinds, policy : {v1, NoPolicy}]

\* A mix in which calls that probe, refresh and invalidate meet.
MixedRequests == {Ask("get", v1), Ask("reject", NoPolicy), Ask("invalidate", NoPolicy)}

\* One of each way to get a token.
TokenRequests == {Ask("get", v1), Ask("refresh", NoPolicy), Ask("reject", v1)}

CallerSymmetry == Permutations(Callers)
=============================================================================
