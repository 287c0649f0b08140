------------------------------ MODULE Timespec ------------------------------
(***************************************************************************)
(* The arithmetic of FlowGen on timespecs, with the widths of the code:    *)
(* timespec_add() sums in a uint32_t, timeval_subtract() multiplies in an  *)
(* int.  A timespec is a record of seconds and nanoseconds and need not be *)
(* normal: nsec may reach a second, and may be negative.                   *)
(***************************************************************************)
EXTENDS Integers

CONSTANTS
  Nsec,      \* the units of a second: 1000000000 in the code
  UInt32Mod  \* 2^32 in the code: between four and five seconds of units

ASSUME TimespecAssumption ==
  /\ Nsec \in Nat \ {0}
  /\ UInt32Mod \in Nat
  /\ 4 * Nsec < UInt32Mod /\ UInt32Mod < 5 * Nsec

\* What fits a uint32_t and, as two's complement, an int.
uint32(n) == n % UInt32Mod
Int32Half == UInt32Mod \div 2
int32(n) == ((n + Int32Half) % UInt32Mod) - Int32Half

\* The time a timespec stands for, in units.
Total(t) == t.sec * Nsec + t.nsec

Normal(t) == t.nsec >= 0 /\ t.nsec < Nsec

\* The timespec that the clock gives at a time in units.
Timespec(time) == [sec |-> time \div Nsec, nsec |-> time % Nsec]

\* A bug: what exceeds a second is dropped.
timespec_add_lost(x, y) ==
  [sec |-> x.sec + y.sec, nsec |-> (x.nsec + y.nsec) % Nsec]

\* When the sum reaches a second, a second is carried and its nanoseconds are
\* added, where they had to be subtracted.
timespec_add(x, y) ==
  LET sub == uint32(x.nsec + y.nsec)
  IN  IF sub >= Nsec
      THEN [sec |-> x.sec + y.sec + 1, nsec |-> uint32(sub + Nsec)]
      ELSE [sec |-> x.sec + y.sec, nsec |-> sub]

-----------------------------------------------------------------------------
(* timeval_subtract(result, x, y) borrows seconds of y, in place. *)

\* What the code's 1000000000 * n may be: an int that overflows is undefined,
\* and a build either lets it wrap or keeps the product.
product(n) == {Nsec * n, int32(Nsec * n)}

\* A bug: the seconds are not given what the nanoseconds lose.
Borrow_nsec_only(x, y) ==
  IF x.nsec < y.nsec
  THEN {[y EXCEPT !.nsec = @ - p] : p \in product((y.nsec - x.nsec) \div Nsec + 1)}
  ELSE {y}

Borrow(x, y) ==
  LET n == (y.nsec - x.nsec) \div Nsec + 1
  IN  IF x.nsec < y.nsec
      THEN {[sec |-> y.sec + n, nsec |-> y.nsec - p] : p \in product(n)}
      ELSE {y}

GiveBack(x, y) ==
  LET n == (x.nsec - y.nsec) \div Nsec
  IN  IF x.nsec - y.nsec > Nsec
      THEN {[sec |-> y.sec - n, nsec |-> y.nsec + p] : p \in product(n)}
      ELSE {y}

\* What y may be after the call; then the result, and whether it is negative.
Changed(x, y) == UNION {GiveBack(x, z) : z \in Borrow(x, y)}
Difference(x, y) == [sec |-> x.sec - y.sec, nsec |-> x.nsec - y.nsec]
IsNegative(x, y) == x.sec < y.sec
=============================================================================
