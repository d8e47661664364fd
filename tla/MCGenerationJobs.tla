-------------------------- MODULE MCGenerationJobs --------------------------
(* GenerationJobs on two workers and the adapters of the code.             *)
EXTENDS GenerationJobs

\* volcengine-seedance and comfyui; tkmarket, which reports its usage in a
\* receipt; and two plugin adapters that declare provable idempotency, the
\* second with a protocol that is never resubmitted.
MCDrivers ==
    {[provable |-> FALSE, resubmits |-> TRUE, cancels |-> TRUE, receipts |-> FALSE],
     [provable |-> FALSE, resubmits |-> FALSE, cancels |-> FALSE, receipts |-> TRUE],
     [provable |-> TRUE, resubmits |-> TRUE, cancels |-> FALSE, receipts |-> FALSE],
     [provable |-> TRUE, resubmits |-> FALSE, cancels |-> FALSE, receipts |-> TRUE]}

=============================================================================
