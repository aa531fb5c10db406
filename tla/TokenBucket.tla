---------------------------- MODULE TokenBucket ----------------------------
(***************************************************************************)
(* What the per-IP rate limiter promises: every source address owns a      *)
(* token bucket for ever.  The bucket starts full, gains `rate` units per  *)
(* tick up to its burst, and an admitted connection costs one token (Unit  *)
(* units, so fractional rates stay integral).  Nothing is ever forgotten,  *)
(* and nothing is swept: the bookkeeping of the implementation must not be *)
(* visible at this level.                                                  *)
(***************************************************************************)
EXTENDS Integers

CONSTANTS IP,      \* the source addresses
          Rates,   \* refill rates the operator may configure, in units per tick
          Unit,    \* units in one token
          TicksPerSec  \* clock ticks in a second

VARIABLES rate,    \* the configured refill rate; 0 disables limiting
          level,   \* level[ip]: units the bucket of ip holds now
          verdict  \* the last answer given: the address, and whether it got in

vars == <<rate, level, verdict>>

NoVerdict == [ip |-> "none", admitted |-> FALSE]

Smaller(a, b) == IF a <= b THEN a ELSE b

Burst == IF rate * TicksPerSec <= Unit THEN Unit ELSE rate * TicksPerSec

Init ==
  /\ rate \in Rates
  /\ level = [ip \in IP |-> Burst]
  /\ verdict = NoVerdict

\* Time passes: every bucket gains its refill.
Refill ==
  /\ level' = [ip \in IP |-> Smaller(level[ip] + rate, Burst)]
  /\ UNCHANGED <<rate, verdict>>

Admit(ip) ==
  /\ rate # 0
  /\ level[ip] >= Unit
  /\ level' = [level EXCEPT ![ip] = @ - Unit]
  /\ verdict' = [ip |-> ip, admitted |-> TRUE]
  /\ UNCHANGED rate

\* A source that has spent its budget is turned away, at no further cost.
RefuseEmpty(ip) ==
  /\ rate # 0
  /\ level[ip] < Unit
  /\ verdict' = [ip |-> ip, admitted |-> FALSE]
  /\ UNCHANGED <<rate, level>>

\* Under an address flood a source may be turned away although its bucket is
\* full.  A source with a bucket in use never is: it has been counted already.
RefuseOverload(ip) ==
  /\ rate # 0
  /\ level[ip] = Burst
  /\ verdict' = [ip |-> ip, admitted |-> FALSE]
  /\ UNCHANGED <<rate, level>>

Unlimited(ip) ==
  /\ rate = 0
  /\ verdict' = [ip |-> ip, admitted |-> TRUE]
  /\ UNCHANGED <<rate, level>>

Next ==
  \/ Refill
  \/ \E ip \in IP : \/ Admit(ip)
                    \/ RefuseEmpty(ip)
                    \/ RefuseOverload(ip)
                    \/ Unlimited(ip)

Spec == Init /\ [][Next]_vars
=============================================================================
