---------------------------- MODULE LeakyBucket ----------------------------
(***************************************************************************)
(* What the rate limiter of app/rate_limiter.py promises, without buckets  *)
(* that are created, refilled lazily and thrown away: every client owes    *)
(* something for each admitted request, the debt drains with time, and a   *)
(* request is admitted exactly when its cost still fits under the          *)
(* capacity.  Nothing one client does changes what another one may do.     *)
(***************************************************************************)
EXTENDS Integers

CONSTANTS
  Clients,
  Cost,      \* what one request adds to the debt
  Capacity,  \* the highest debt
  Absent

VARIABLES
  debt,   \* [Clients -> 0..Capacity]
  reply   \* the last answer: the client and whether it was let through

LeakyInit ==
  /\ debt = [c \in Clients |-> 0]
  /\ reply = Absent

Fits(c) == debt[c] + Cost <= Capacity

Request(c) ==
  /\ reply' = [client |-> c, allowed |-> Fits(c)]
  /\ debt' = [debt EXCEPT ![c] = IF Fits(c) THEN @ + Cost ELSE @]

Drain ==
  /\ debt' = [c \in Clients |-> IF debt[c] > 0 THEN debt[c] - 1 ELSE 0]
  /\ UNCHANGED reply

LeakyNext == Drain \/ \E c \in Clients : Request(c)

LeakySpec == LeakyInit /\ [][LeakyNext]_<<debt, reply>>

=============================================================================
