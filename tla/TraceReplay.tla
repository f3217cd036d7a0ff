---------------------------- MODULE TraceReplay ----------------------------
(***************************************************************************)
(* What a replay promises, whatever threads and queues it is made of: each *)
(* record of the trace is replayed once, and never ahead of a record of    *)
(* the same process that came first, or of another process that returned   *)
(* before it was called.                                                   *)
(***************************************************************************)
EXTENDS Integers

CONSTANT Traces      \* traces: functions from unique ids to records

VARIABLES trace, replayed

vars == <<trace, replayed>>

Due(r) ==
    {q \in DOMAIN trace :
        \/ trace[q].returned < trace[r].called
        \/ trace[q].pid = trace[r].pid /\ trace[q].called < trace[r].called}

\* The first record is replayed before anything else.
Init == trace \in Traces /\ \E r \in DOMAIN trace : Due(r) = {} /\ replayed = {r}

Replay(r) ==
    /\ r \notin replayed /\ Due(r) \subseteq replayed
    /\ replayed' = replayed \cup {r}
    /\ UNCHANGED trace

Next == \E r \in DOMAIN trace : Replay(r)

Spec == Init /\ [][Next]_vars
FairSpec == Spec /\ WF_vars(Next)
=============================================================================
