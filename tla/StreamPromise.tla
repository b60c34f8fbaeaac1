--------------------------- MODULE StreamPromise ----------------------------
(***************************************************************************)
(* What scarlet-stream-v2 promises a client, without threads, live streams *)
(* and pages: rows are published under numbers that leave no hole, and the *)
(* client is delivered one row per number, in order, and never retracts    *)
(* what it delivered.  StreamReplay implements this module.                *)
(***************************************************************************)
EXTENDS Integers, Sequences

VARIABLES
    log,        \* the published rows
    delivered   \* the rows the client has applied, in order

\* One row is added; every smaller number already has a row.
Publish ==
    /\ \E e \in log' \ log :
         /\ log' = log \cup {e}
         /\ e.seq \in Nat \ {0}
         /\ \A k \in 1..(e.seq - 1) : \E f \in log : f.seq = k
    /\ UNCHANGED delivered

\* The client goes on by one number or by several at once.
Deliver ==
    /\ delivered' \in Seq(log)
    /\ Len(delivered) < Len(delivered')
    /\ \A i \in 1..Len(delivered') :
         /\ delivered'[i].seq = i
         /\ i <= Len(delivered) => delivered'[i] = delivered[i]
    /\ UNCHANGED log

Init == log = {} /\ delivered = <<>>

Next == Publish \/ Deliver

Spec == Init /\ [][Next]_<<log, delivered>>

=============================================================================
