----------------------------- MODULE KernelFds -----------------------------
(***************************************************************************)
(* The operating system underneath (external): a descriptor table is a     *)
(* function from open descriptor numbers to what they designate. The       *)
(* kernel hands out the lowest free number, below a limit.                 *)
(***************************************************************************)
EXTENDS DescriptorTable

EBADF == SYSCALL_FAILURE      \* every failing call returns -1

FreeFds(open, limit) == (0 .. limit - 1) \ DOMAIN open

IsLowest(n, S) == n \in S /\ \A m \in S : n <= m

\* The number open(), dup(), ... return, -1 when the limit is reached (EMFILE).
NewFd(open, limit) ==
    IF FreeFds(open, limit) = {} THEN SYSCALL_FAILURE
    ELSE CHOOSE n \in FreeFds(open, limit) : IsLowest(n, FreeFds(open, limit))

\* The state after a call returned n and made it designate file.
Opened(open, n, file) == IF n = SYSCALL_FAILURE THEN open ELSE Put(open, n, file)

Closed(open, n) == IF n \in DOMAIN open THEN Without(open, n) ELSE open

ClosedAll(open, S) == [n \in DOMAIN open \ S |-> open[n]]

\* dup(n)
DupReturns(open, limit, n) ==
    IF n \in DOMAIN open THEN NewFd(open, limit) ELSE EBADF

AfterDup(open, limit, n) ==
    IF n \in DOMAIN open THEN Opened(open, NewFd(open, limit), open[n]) ELSE open

\* dup2(old, new), and dup3, which refuses old = new.
Dup2Returns(open, limit, old, new) ==
    IF old \in DOMAIN open /\ new \in 0 .. limit - 1 THEN new ELSE EBADF

Dup3Returns(open, limit, old, new) ==
    IF old = new THEN SYSCALL_FAILURE ELSE Dup2Returns(open, limit, old, new)

AfterDup2(open, old, returned) ==
    IF returned = EBADF THEN open ELSE Put(open, returned, open[old])
=============================================================================
