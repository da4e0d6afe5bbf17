------------------------------ MODULE MCQuota ------------------------------
(* A small instance of Quota: one handler beside the sweeper, and two limits. *)
EXTENDS Quota

Limit(bytes, enforce, windowed) == [bytes |-> bytes, enforce |-> enforce, windowed |-> windowed]

\* A limit per window, and a larger one over all time; both enforce, so that every
\* path that can stop the subject is taken.
MixedLimits == {Limit(1, TRUE, TRUE), Limit(2, TRUE, FALSE)}
=============================================================================
