--------------------------- MODULE AppendOnlyLog ---------------------------
(***************************************************************************)
(* What a hash-chained log promises its readers (app/ledger.py), said       *)
(* without locks, transactions in progress or row ids: a sequence of        *)
(* entries, each naming the hash of the entry before it, to which an owner  *)
(* adds one contiguous block, once. AuditLedger implements it.              *)
(***************************************************************************)
EXTENDS Integers, Sequences

CONSTANTS
    Owners,    \* who publishes: the committed transactions
    MaxBlock   \* bound: entries of one block

Genesis == 0

VARIABLE log  \* sequence of entries [hash, prev, owner]

HashBefore(entries, k) == IF k = 1 THEN Genesis ELSE entries[k - 1].hash

Init == log = <<>>

\* Nobody's entries change, and the block of o is chained to what was there,
\* entry by entry, with hashes not seen before.
Publish(o) ==
    /\ \A k \in DOMAIN log : log[k].owner # o
    /\ Len(log') \in Len(log) + 1 .. Len(log) + MaxBlock
    /\ SubSeq(log', 1, Len(log)) = log
    /\ \A k \in Len(log) + 1 .. Len(log') :
          /\ log'[k].owner = o
          /\ log'[k].prev = HashBefore(log', k)
          /\ \A j \in 1 .. k - 1 : log'[j].hash # log'[k].hash

Next == \E o \in Owners : Publish(o)

Spec == Init /\ [][Next]_log

=============================================================================
