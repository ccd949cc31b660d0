------------------------- MODULE AtMostOnceDelivery -------------------------
(***************************************************************************)
(* What completion delivery promises its reader, without processes, locks  *)
(* or files: one record, the number of helper invocations admitted, and    *)
(* whether the single retry has been spent.  An invocation is admitted     *)
(* only under a claim, a claim that admitted one never reopens, and the    *)
(* record reopens only for a failure known to precede admission, once.     *)
(***************************************************************************)
EXTENDS Naturals

VARIABLES record, retried, admitted

avars == <<record, retried, admitted>>

RecordStates == {"fresh", "retryable", "claimed", "closed"}

AInit ==
    /\ record \in {"fresh", "closed"}     \* closed: a legacy skipped record
    /\ retried = FALSE
    /\ admitted = 0

Claim ==
    /\ \/ record = "fresh" /\ ~retried
       \/ record = "retryable" /\ retried
    /\ record' = "claimed"
    /\ UNCHANGED <<retried, admitted>>

\* An attempt starts from a record that already failed before admission.
SpendRetry ==
    /\ record = "retryable"
    /\ retried' = TRUE
    /\ UNCHANGED <<record, admitted>>

Admit ==
    /\ record = "claimed"
    /\ admitted = 0
    /\ admitted' = 1
    /\ UNCHANGED <<record, retried>>

\* A failure known to precede admission, with the retry still to spend
Reopen ==
    /\ record \in {"fresh", "claimed"}
    /\ admitted = 0
    /\ ~retried
    /\ record' = "retryable"
    /\ UNCHANGED <<retried, admitted>>

\* An outcome, one that can no longer be learnt, or a final failure
Close ==
    /\ record # "closed"
    /\ record' = "closed"
    /\ UNCHANGED <<retried, admitted>>

ANext == Claim \/ SpendRetry \/ Admit \/ Reopen \/ Close

ASpec == AInit /\ [][ANext]_avars
=============================================================================
