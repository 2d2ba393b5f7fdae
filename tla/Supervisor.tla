----------------------------- MODULE Supervisor -----------------------------
(***************************************************************************)
(* What the watchdog of wd.c promises, without signals, counters or kill   *)
(* loops: a group of members that serve together and go down together.     *)
(* A member may stop serving at any time; the supervisor then gives up the *)
(* whole group, and it is done only when no member is left.  It may also   *)
(* give the group up for no reason, and it may hang: the code does both.   *)
(***************************************************************************)
CONSTANT Members

VARIABLES
  serving,  \* the members that do their work
  present,  \* the members that still exist
  verdict   \* "none", "condemned", "hung" or "over"

vars == <<serving, present, verdict>>

Init ==
  /\ serving = Members
  /\ present = Members
  /\ verdict = "none"

\* Members stop serving, or cease to exist; none comes back.
Fail ==
  /\ verdict # "over"
  /\ serving' \subseteq serving
  /\ present' \subseteq present
  /\ serving' \subseteq present'
  /\ UNCHANGED verdict

Condemn ==
  /\ verdict = "none"
  /\ verdict' = "condemned"
  /\ UNCHANGED <<serving, present>>

Hang ==
  /\ verdict \in {"none", "condemned"}
  /\ verdict' = "hung"
  /\ UNCHANGED <<serving, present>>

Finish ==
  /\ verdict = "condemned"
  /\ verdict' = "over"
  /\ serving' = {}
  /\ present' = {}

Next == Fail \/ Condemn \/ Hang \/ Finish

\* A member that has failed is noticed, and a condemned group is finished.
Fairness ==
  /\ WF_vars(serving # Members /\ (Condemn \/ Hang))
  /\ WF_vars(verdict = "condemned" /\ (Finish \/ Hang))

Spec == Init /\ [][Next]_vars /\ Fairness
=============================================================================
