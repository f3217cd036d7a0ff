------------------------ MODULE MCReplayScheduler ------------------------
(* Small instances of ReplayScheduler for TLC. *)
EXTENDS ReplayScheduler

CONSTANTS Length      \* records of a trace

TwoTypes == {"umask", "read"}
ClonerTypes == {"umask", "clone"}
Elsewhere == "elsewhere"     \* an index of no counter

\* A record called at 2u that returns d calls later.
Record(u, type, pid, d, child) ==
    [type |-> type, pid |-> pid, called |-> 2 * u, returned |-> 2 * u + 2 * d - 1,
     child |-> child]

\* One process, every order of two types.
OneProcessTraces ==
    {t \in {[u \in 0 .. Length - 1 |-> Record(u, k[u], 1, 1, NoChild)] :
               k \in [0 .. Length - 1 -> TwoTypes]} :
        {t[u].type : u \in DOMAIN t} = TwoTypes}

\* process 1 clones 2 with record 1; the records after it are 1's or 2's and may last
\* as long as the next record of their process allows, up to three calls.
Sequential(t) ==
    \A u, v \in DOMAIN t : u < v /\ t[u].pid = t[v].pid => t[u].returned < t[v].called

\* A file of one record more than the first batch loads, or none.
TwoProcessTraces ==
    {t \in {[u \in 0 .. Length - 1 |->
                IF u <= 1 THEN Record(u, IF u = 0 THEN "umask" ELSE "clone", 1,
                                      IF u = 0 THEN 1 ELSE d[u],
                                      IF u = 1 THEN 2 ELSE NoChild)
                ELSE Record(u, IF u = 3 /\ short THEN "clone" ELSE "umask", pid[u], d[u], NoChild)] :
               pid \in [0 .. Length - 1 -> {1, 2}], d \in [0 .. Length - 1 -> 1 .. 3],
               short \in BOOLEAN} :
        Sequential(t) /\ (t[3].type = "umask" => \A u \in DOMAIN t : t[u].returned < t[u].called + 4)}

OnePid == {1}
TwoPids == {1, 2}
NoStray == {Elsewhere}
AnyStray == TwoTypes \cup {Elsewhere}
UmaskStray == {"umask"}
=============================================================================
