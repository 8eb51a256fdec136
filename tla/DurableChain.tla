---------------------------- MODULE DurableChain ----------------------------
(***************************************************************************)
(* What the blockchain's storage promises: a log of blocks that survives   *)
(* every stop of the node and only grows at its end, and a node that, when *)
(* it runs, shows the log followed by blocks not yet in it.  The one thing *)
(* that replaces the log is a start that misreads it: that node begins a   *)
(* log of its own, whose first block replaces the old one.                 *)
(***************************************************************************)
EXTENDS Naturals, Sequences

CONSTANT Block

VARIABLES
    log,    \* the durable chain
    view,   \* the chain of the running node, <<>> when none runs
    misread \* a start has taken a log for empty

vars == <<log, view, misread>>

IsPrefixOf(s, t) == Len(s) <= Len(t) /\ \A i \in 1..Len(s) : s[i] = t[i]

Init == log = <<>> /\ view = <<>> /\ misread = FALSE

(* A node starts and finds what was durable.                               *)
Open == view = <<>> /\ log # <<>> /\ view' = log /\ UNCHANGED <<log, misread>>

(* A new block, the genesis block when there is none yet.                  *)
Mine ==
    /\ log # <<>> => view # <<>>
    /\ \E b \in Block : view' = Append(view, b)
    /\ UNCHANGED <<log, misread>>

(* A node starts, cannot read the log and begins another.                  *)
BeginAnew ==
    /\ view = <<>> /\ log # <<>>
    /\ \E b \in Block : view' = <<b>>
    /\ misread' = TRUE
    /\ UNCHANGED log

(* The running node's chain becomes durable: it extends the log, or is the *)
(* first block of one begun anew.                                          *)
Commit ==
    /\ \/ IsPrefixOf(log, view)
       \/ misread /\ Len(view) = 1
    /\ log' = view
    /\ UNCHANGED <<view, misread>>

(* The node stops: blocks that were not durable are gone.                  *)
Stop == view' = <<>> /\ UNCHANGED <<log, misread>>

Next == Open \/ Mine \/ BeginAnew \/ Commit \/ Stop

Spec == Init /\ [][Next]_vars
=============================================================================
