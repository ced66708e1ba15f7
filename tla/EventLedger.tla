----------------------------- MODULE EventLedger ----------------------------
(***************************************************************************)
(* What a Session promises the clients that follow its history: a ledger   *)
(* whose entries are numbered without gaps and never change, which is      *)
(* forgotten from the old end only, and in which a request that carries a  *)
(* mutation id is entered at most once: under the number its receipt       *)
(* names, or, when it enters several things, all of them in one step.      *)
(***************************************************************************)
EXTENDS Integers, Tables

CONSTANT NoMutation   \* the mutation of an entry that no request asked for

VARIABLES
    head,      \* the number of the newest entry
    low,       \* entries up to this number are forgotten
    entries,   \* number -> entry
    receipts   \* mutation id -> number of its entry, 0 when it made none

vars == <<head, low, entries, receipts>>

Init ==
    /\ head = 0 /\ low = 0
    /\ entries = NoRows /\ receipts = NoRows

\* One new entry after the head; the receipt of its request is new, too.
Append ==
    /\ head' = head + 1
    /\ low' = low
    /\ DOMAIN entries' = DOMAIN entries \cup {head'}
    /\ \A i \in DOMAIN entries : entries'[i] = entries[i]
    /\ LET m == entries'[head'].mutation
       IN  IF m = NoMutation
           THEN receipts' = receipts
           ELSE m \notin DOMAIN receipts /\ receipts' = Put(receipts, m, head')

\* One request makes several entries, each about another thing; its receipt names
\* none of them.
Enter ==
    /\ head' \in Nat /\ head' > head
    /\ low' = low
    /\ DOMAIN entries' = DOMAIN entries \cup (head + 1)..head'
    /\ \A i \in DOMAIN entries : entries'[i] = entries[i]
    /\ \E m \in DOMAIN receipts' \ DOMAIN receipts :
          /\ receipts' = Put(receipts, m, 0)
          /\ \A i \in (head + 1)..head' : entries'[i].mutation = m
    /\ \A i, j \in (head + 1)..head' :
          entries'[i].entity = entries'[j].entity => i = j

\* A request gets a receipt that names no entry; old entries may go with it.
Answer ==
    /\ head' = head
    /\ low' \in low..head
    /\ entries' = Without(entries, (low + 1)..low')
    /\ \E m \in DOMAIN receipts' \ DOMAIN receipts : receipts' = Put(receipts, m, 0)

Next == Append \/ Enter \/ Answer

Spec == Init /\ [][Next]_vars
=============================================================================
