------------------------------ MODULE AuditLog ------------------------------
(***************************************************************************)
(* What the audit trail of a workspace promises: events are only ever      *)
(* added at the end, and retention only ever cuts a prefix off.            *)
(***************************************************************************)
EXTENDS Integers, Sequences

CONSTANT Events

VARIABLES
    log,        \* every event that was ever committed, in order
    trimmed     \* how many of them retention has removed

LogInit == log = <<>> /\ trimmed = 0

AppendEvent ==
    /\ \E e \in Events : log' = Append(log, e)
    /\ UNCHANGED trimmed

Trim ==
    /\ trimmed' \in trimmed .. Len(log)
    /\ UNCHANGED log

LogSpec == LogInit /\ [][AppendEvent \/ Trim]_<<log, trimmed>>
=============================================================================
