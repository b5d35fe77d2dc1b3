-------------------------- MODULE MCPaymentSystem --------------------------
(* Values of the constants for the TLC runs of the payment pipeline.       *)
EXTENDS PaymentProperties

\* Everything that can go wrong inside the worker, the webhook and Redis.
WorkerFaults == FaultKinds \ {"GetPaymentStatus", "UpdateStatus", "SweepQuery", "ApiCrash"}

\* What can go wrong while somebody asks Platega for a status.
AskFaults == {"GetPaymentStatus", "UpdateStatus", "SweepQuery", "ApiCrash"}

\* What the worker retries until it works or is dead-lettered.
RetriedFaults == {"EnsureOnce", "Remnawave"}
=============================================================================
