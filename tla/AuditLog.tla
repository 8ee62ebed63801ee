------------------------------ MODULE AuditLog ------------------------------
(***************************************************************************)
(* What the signal_audit table promises to a reader: an append-only log    *)
(* whose rows form one hash chain.  A row carries the hash of the row      *)
(* before it; a hash is abstracted to the id of the row it belongs to      *)
(* (SHA-256 is taken to be injective), and Genesis is the anchor of the    *)
(* first row.  Rows arrive in batches, one per committed transaction; how  *)
(* a writer finds the head of the chain is left to the implementation.     *)
(***************************************************************************)
EXTENDS Naturals

VARIABLE log

Genesis == 0

\* The walk of verify_chain over a whole table, as a predicate on its rows:
\* every row names the row just before it, and the first one names Genesis.
Linked(rows) ==
    /\ \A r, s \in rows : r.id = s.id => r = s
    /\ \A r \in rows :
          /\ r.prev < r.id
          /\ r.prev = Genesis \/ \E s \in rows : s.id = r.prev
          /\ ~ \E s \in rows : r.prev < s.id /\ s.id < r.id

\* No two rows continue the same predecessor.
ForkFree(rows) ==
    \A r, s \in rows : r.prev = s.prev => r = s

Init == log = {}

\* One transaction commits its rows: nothing is rewritten or removed, the new
\* rows come after every old one, and the whole is still one chain.
Append ==
    /\ log \subseteq log'
    /\ \A old \in log, new \in log' \ log : old.id < new.id
    /\ Linked(log')

Spec == Init /\ [][Append]_log
=============================================================================
