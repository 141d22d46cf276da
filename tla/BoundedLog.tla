----------------------------- MODULE BoundedLog -----------------------------
(***************************************************************************)
(* What the audit log promises: records are added at the end, and the only *)
(* ones to go are the oldest, once enough are kept.                        *)
(***************************************************************************)
EXTENDS Naturals, Sequences

CONSTANT Record

VARIABLE records

LogInit == records = <<>>

Add == \E r \in Record : records' = Append(records, r)

\* At least k are kept.
DropOldest(k) ==
    \E n \in k..Len(records) : records' = SubSeq(records, Len(records) - n + 1, Len(records))

LogNext(k) == Add \/ DropOldest(k)

=============================================================================
