---------------------------- MODULE MCLockManager ----------------------------
(* Three acquisitions of one merchant's wallet: enough for a holder, one   *)
(* that came after it and one that finds the key the two left behind.  The *)
(* first asks for less time and fewer attempts than the others.            *)
EXTENDS LockManager

CONSTANTS c1, c2, c3, w1

MCWants      == [c \in Acquirers |-> w1]
MCTTL        == [c \in Acquirers |-> IF c = c1 THEN 1 ELSE 2]
MCRetries    == [c \in Acquirers |-> IF c = c1 THEN 1 ELSE 2]
MCExtensions == {-1, 0, 1, 3}
=============================================================================
