-------------------------------- MODULE Clock --------------------------------
(* The database's clock_timestamp(), in the units in which the deadlines of  *)
(* tasks, leases, reservations and health checks differ.                     *)
EXTENDS Integers

CONSTANT MaxTime        \* bound
ASSUME ClockTypes == MaxTime \in Nat \ {0}

VARIABLE now
==============================================================================
