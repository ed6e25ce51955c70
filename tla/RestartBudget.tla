----------------------------- MODULE RestartBudget -----------------------------
(***************************************************************************)
(* How long to wait for a restart (systemd_restart.go): the two timeouts   *)
(* systemd reports are sums of terms, added in signed integers of a fixed  *)
(* width, and a wrong sum would be a short wait for a long restart.        *)
(*                                                                         *)
(* Durations are integers in -Limit - 1 .. Limit; the computer adds modulo *)
(* their number.  Limit is 2^63 - 1 in the code.                           *)
(***************************************************************************)
EXTENDS Integers

CONSTANTS
  Limit,   \* the largest duration
  MaxWait, \* systemdRestartMaximumWait
  MinWait, \* systemdRestartMinimumWait
  Grace    \* systemdRestartGrace

Duration == -Limit - 1 .. Limit

\* What the computer gets for a sum of two durations.
Add(a, b) == IF a + b > Limit THEN a + b - (2 * Limit + 2)
             ELSE IF a + b < -Limit - 1 THEN a + b + (2 * Limit + 2)
             ELSE a + b

Sub(a, b) == Add(a, IF b = -Limit - 1 THEN b ELSE -b)

-------------------------------------------------------------------------------
\* parseSystemdRestartDuration: one more term of a timeout; zero and negative
\* terms do not shorten it, and the sum is refused before it is made.
TermAllowed(total, term) == term >= 0 /\ ~(term > Sub(Limit, total))

NextTotal(total, term) == Add(total, term)

\* systemdRestartBudget: compare before adding.
Available == Sub(MaxWait, Grace)

BudgetAllowed(stop, start) == ~(stop > Available) /\ ~(start > Sub(Available, stop))

Sum(stop, start) == Add(Add(stop, start), Grace)

Budget(stop, start) == IF Sum(stop, start) < MinWait THEN MinWait ELSE Sum(stop, start)
=============================================================================
