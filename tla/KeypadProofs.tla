---------------------------- MODULE KeypadProofs -----------------------------
(***************************************************************************)
(* Proofs about Keypad for every limit.                                    *)
(***************************************************************************)
EXTENDS Keypad, TLAPS

\* The power of a direction is the number of its pushes, cut off at LIMIT.
Capped == \A k \in Dirs : power[k] = IF pushes[k] < LIMIT THEN pushes[k] ELSE LIMIT

LEMMA ResultType ==
  ASSUME NEW p \in [Dirs -> Int]
  PROVE  Result(p) \in Int \X Int
BY DEF Result, Dirs

\* What a new force is compared with is what was written, and the force of
\* the powers on the keys: only so may a key go without a write.
OldIsSent == old = sent /\ old = result /\ result = Result(power)

KeysInv == TypeOK /\ Capped /\ OldIsSent

\* After the comparison the force that was written last is the new one,
\* whether it was written now or left as it is.
LEMMA WriteOrSame ==
  ASSUME old \in Int \X Int, result' \in Int \X Int, old = sent, WriteChange
  PROVE  old' = result' /\ sent' = result'
<1>1. ASSUME result'[1] = old[1], result'[2] = old[2]
      PROVE  result' = old
  BY <1>1
<1>2. CASE result'[1] = old[1] /\ result'[2] = old[2]
  BY <1>1, <1>2 DEF WriteChange
<1>3. CASE ~ (result'[1] = old[1] /\ result'[2] = old[2])
  BY <1>3 DEF WriteChange
<1> QED
  BY <1>2, <1>3

\* The types, the cut-off and what was written last hold in every state.
THEOREM KeypadInv == Spec => []KeysInv
<1> USE LimitAssumption, BoundAssumption
<1>1. Init => KeysInv
  <2>1. Result(NoPower) = <<0, 0>>
    BY DEF Result, NoPower, Dirs
  <2> QED
    BY <2>1 DEF Init, KeysInv, TypeOK, Capped, OldIsSent, NoPower
<1>2. KeysInv /\ [Next]_vars => KeysInv'
  <2> SUFFICES ASSUME KeysInv, [Next]_vars
               PROVE  KeysInv'
    OBVIOUS
  <2>1. old \in Int \X Int /\ old = sent
    BY DEF KeysInv, TypeOK, OldIsSent
  <2>2. ASSUME NEW k \in Dirs, Push(k)
        PROVE  KeysInv'
    <3>1. power' \in [Dirs -> 0 .. LIMIT] /\ pushes' \in [Dirs -> 0 .. MaxPushes]
      BY <2>2 DEF Push, KeysInv, TypeOK
    <3>2. result' = Result(power') /\ result' \in Int \X Int
      <4>1. power' \in [Dirs -> Int]
        BY <3>1
      <4> QED
        BY <2>2, <4>1, ResultType DEF Push
    <3>3. old' = result' /\ sent' = result'
      BY <2>1, <2>2, <3>2, WriteOrSame DEF Push
    <3>4. Capped'
      BY <2>2 DEF Push, KeysInv, TypeOK, Capped
    <3> QED
      BY <3>1, <3>2, <3>3, <3>4 DEF KeysInv, TypeOK, OldIsSent
  <2>3. CASE Release
    <3>1. NoPower \in [Dirs -> 0 .. LIMIT] /\ NoPower \in [Dirs -> 0 .. MaxPushes]
      BY DEF NoPower
    <3>2. power' = NoPower /\ pushes' = NoPower /\ result' = Result(power')
      BY <2>3 DEF Release
    <3>3. result' \in Int \X Int
      BY <3>2, ResultType DEF NoPower
    <3>4. old' = result' /\ sent' = result'
      BY <2>1, <2>3, <3>3, WriteOrSame DEF Release
    <3>5. Capped'
      BY <3>2 DEF NoPower, Capped
    <3> QED
      BY <3>1, <3>2, <3>3, <3>4, <3>5 DEF KeysInv, TypeOK, OldIsSent
  <2>4. CASE UNCHANGED vars
    BY <2>4 DEF vars, KeysInv, TypeOK, Capped, OldIsSent
  <2> QED
    BY <2>2, <2>3, <2>4 DEF Next
<1> QED
  BY <1>1, <1>2, PTL DEF Spec

\* No direction ever has more power than LIMIT.
THEOREM TypeCorrect == Spec => []TypeOK
<1>1. KeysInv => TypeOK
  BY DEF KeysInv
<1> QED
  BY <1>1, KeypadInv, PTL

\* What the server was given last is the force of the powers on the keys,
\* although a key after which the force is the same is not written.
THEOREM SentIsCurrentAlways == Spec => []SentIsCurrent
<1>1. KeysInv => SentIsCurrent
  BY DEF KeysInv, OldIsSent, SentIsCurrent
<1> QED
  BY <1>1, KeypadInv, PTL

\* Opposite directions pushed equally often cancel, for every limit and in
\* every order of the pushes.
THEOREM OppositesCancelAlways == Spec => []OppositesCancel
<1>1. ASSUME KeysInv, \A k \in Dirs : pushes[k] = pushes[Opposite[k]]
      PROVE  result = <<0, 0>>
  <2>1. /\ power["W"] = power["V"] /\ power["E"] = power["C"]
        /\ power["R"] = power["X"] /\ power["S"] = power["F"]
    BY <1>1 DEF KeysInv, Capped, Opposite, Dirs
  <2>2. \A k \in Dirs : power[k] \in Int
    BY <1>1, LimitAssumption DEF KeysInv, TypeOK
  <2>3. Result(power) = <<0, 0>>
    BY <2>1, <2>2 DEF Result, Dirs
  <2> QED
    BY <1>1, <2>3 DEF KeysInv, OldIsSent
<1>2. KeysInv => OppositesCancel
  BY <1>1 DEF OppositesCancel
<1> QED
  BY <1>2, KeypadInv, PTL
=============================================================================
