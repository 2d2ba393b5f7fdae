------------------------------- MODULE Keypad -------------------------------
(***************************************************************************)
(* The keys of input.c: eight directions whose power goes up by one step   *)
(* per push and stops at LIMIT, and a central key that takes it all back.  *)
(* The force is their sum, compared after each key with the one written    *)
(* last, and written to the server only if either axis differs from it.    *)
(* Forces are kept in half steps, a diagonal counting one half per axis.   *)
(***************************************************************************)
EXTENDS Integers

CONSTANTS
  LIMIT,     \* the most steps one direction can have
  MaxPushes  \* bound: pushes of one direction since the last D

ASSUME LimitAssumption == LIMIT \in Nat \ {0}
ASSUME BoundAssumption == MaxPushes \in Nat

\* The keys of the eight directions, as they are laid out.
Dirs == {"W", "E", "R", "S", "F", "X", "C", "V"}

VARIABLES
  power,   \* active_power
  result,  \* resulting_power, in half steps
  old,     \* resulting_power_old: what a new force is compared with
  sent,    \* what was written last; before that the 0 the server starts with
  pushes   \* history: pushes of each direction since the last D

vars == <<power, result, old, sent, pushes>>

NoPower == [k \in Dirs |-> 0]

ResultWrongSign(p) ==
  <<2 * (p["F"] - p["S"]) - p["W"] - p["X"] + p["R"] + p["V"],
    2 * (p["E"] - p["C"]) + p["W"] + p["R"] - p["X"] + p["V"]>>

\* The sum of the powers, as <<right, up>>.
Result(p) ==
  <<2 * (p["F"] - p["S"]) - p["W"] - p["X"] + p["R"] + p["V"],
    2 * (p["E"] - p["C"]) + p["W"] + p["R"] - p["X"] - p["V"]>>

Init ==
  /\ power = NoPower /\ result = <<0, 0>> /\ old = <<0, 0>> /\ sent = <<0, 0>>
  /\ pushes = NoPower

-----------------------------------------------------------------------------
WriteChangeOldRight ==
  IF result'[1] = old[1] /\ result'[2] = old[2]
  THEN UNCHANGED <<old, sent>>
  ELSE sent' = result' /\ old' = <<result'[1], old[2]>>

\* After each key: the force is written if it is not the one written last.
WriteChange ==
  IF result'[1] = old[1] /\ result'[2] = old[2]
  THEN UNCHANGED <<old, sent>>
  ELSE sent' = result' /\ old' = result'

PushNoLimit(k) ==
  /\ pushes[k] < MaxPushes
  /\ pushes' = [pushes EXCEPT ![k] = @ + 1]
  /\ power' = [power EXCEPT ![k] = @ + 1]
  /\ result' = Result(power')
  /\ WriteChange

\* A direction is pushed, which changes nothing once it has reached LIMIT.
Push(k) ==
  /\ pushes[k] < MaxPushes
  /\ pushes' = [pushes EXCEPT ![k] = @ + 1]
  /\ power' = [power EXCEPT ![k] = IF @ < LIMIT THEN @ + 1 ELSE @]
  /\ result' = Result(power')
  /\ WriteChange

\* D is pushed.
Release ==
  /\ power' = NoPower /\ pushes' = NoPower
  /\ result' = Result(NoPower)
  /\ WriteChange

Next == (\E k \in Dirs : Push(k)) \/ Release

Spec == Init /\ [][Next]_vars

-----------------------------------------------------------------------------
(* Properties.                                                             *)

TypeOK ==
  /\ power \in [Dirs -> 0 .. LIMIT]
  /\ result \in Int \X Int /\ old \in Int \X Int /\ sent \in Int \X Int
  /\ pushes \in [Dirs -> 0 .. MaxPushes]

\* The force the server was given last is the one of the powers on the keys,
\* although most keys may be pushed without a write: at the limit, or D with
\* nothing pushed, or one axis alone changed (input.c:156).
SentIsCurrent == sent = Result(power)

Opposite == [k \in Dirs |-> CASE k = "W" -> "V" [] k = "V" -> "W"
                             [] k = "E" -> "C" [] k = "C" -> "E"
                             [] k = "R" -> "X" [] k = "X" -> "R"
                             [] k = "S" -> "F" [] k = "F" -> "S"]

\* README.md:192: pushing every direction as often as its opposite has the
\* effect of D, in whatever order and however far beyond the limit.
OppositesCancel ==
  (\A k \in Dirs : pushes[k] = pushes[Opposite[k]]) => result = <<0, 0>>
=============================================================================
