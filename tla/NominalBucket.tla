---------------------------- MODULE NominalBucket ----------------------------
(***************************************************************************)
(* What the rate limiter promises the provider: a bucket that holds        *)
(* nominalRps * burstFactor tokens at most, refills at nominalRps and      *)
(* grants a call only for a whole token. Quantities are in units of        *)
(* 1/Scale token, time in ticks.                                           *)
(***************************************************************************)
EXTENDS Integers

CONSTANTS
  Scale,        \* units per token
  NominalRate,  \* units refilled per tick at nominalRps
  MaxBurst,     \* nominalRps * burstFactor
  Operator      \* an operator may reconfigure the limit

VARIABLE credit \* units that may still be granted

Init == credit = MaxBurst

Elapse == credit' = IF credit + NominalRate <= MaxBurst THEN credit + NominalRate ELSE MaxBurst

Grant ==
  /\ credit >= Scale
  /\ credit' = credit - Scale

\* An operator changed the limit: the bucket is full again.
Refresh == Operator /\ credit' = MaxBurst

Next == Elapse \/ Grant \/ Refresh

Spec == Init /\ [][Next]_credit
=============================================================================
