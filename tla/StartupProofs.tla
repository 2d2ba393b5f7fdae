---------------------------- MODULE StartupProofs ----------------------------
(***************************************************************************)
(* Proofs about Startup for every number of children and every set of      *)
(* children that may fail.  TypeOK, Handshake and LostPidMeansDead are     *)
(* inductive together: a lost pid says something of earlier children only  *)
(* because Handshake says that they were all born.                         *)
(***************************************************************************)
EXTENDS Startup, TLAPS

IndInv == TypeOK /\ Handshake /\ LostPidMeansDead

LEMMA Constants ==
  /\ NumKids \in Nat /\ NumKids >= 3
  /\ Kids = 0 .. NumKids - 1
  /\ Socket \in Kids /\ Rule \in Kids /\ Server \in Kids
  /\ Monitored = Kids \ {Rule}
  /\ Socket = 0 /\ Rule = 1 /\ Server = 2
BY NumKidsAssumption DEF Kids, Monitored, Socket, Rule, Server

\* Where a read that is over leaves the master.
LEMMA NextKidSteps ==
  ASSUME TypeOK, phase = "read", NextKid
  PROVE  \/ k + 1 < NumKids /\ k' = k + 1 /\ phase' = "fork"
         \/ k = NumKids - 1 /\ k' = k /\ phase' = "wait"
BY Constants DEF TypeOK, NextKid

-----------------------------------------------------------------------------
LEMMA InitInv == Init => IndInv
BY Constants DEF Init, IndInv, TypeOK, Handshake, LostPidMeansDead, Settled, Born, Told

LEMMA Typed ==
  ASSUME IndInv, Next
  PROVE  TypeOK'
<1> USE Constants DEF IndInv, TypeOK, masterVars, wdVars
<1>1. CASE Fork
  BY <1>1 DEF Fork
<1>2. CASE ReceivePid
  <2>1. k' \in Kids /\ phase' \in {"fork", "wait"}
    BY <1>2, NextKidSteps DEF ReceivePid
  <2>2. pids' \in [Kids -> {"none", "right", "garbage"}]
    BY <1>2 DEF ReceivePid
  <2>3. pipe' \subseteq Kids
    BY <1>2 DEF ReceivePid
  <2>4. UNCHANGED <<kid, armed, client, size, w, sig>>
    BY <1>2 DEF ReceivePid
  <2> QED
    BY <2>1, <2>2, <2>3, <2>4
<1>3. ASSUME NEW p \in Kids, Start(p)
      PROVE  TypeOK'
  BY <1>3 DEF Start, Arm, TellPid
<1>4. ASSUME NEW p \in Kids, Die(p)
      PROVE  TypeOK'
  BY <1>4 DEF Die
<1>5. ASSUME NEW p \in Kids, Answer(p)
      PROVE  TypeOK'
  BY <1>5 DEF Answer
<1>6. CASE ForkClient
  BY <1>6 DEF ForkClient
<1>7. CASE DieClient
  BY <1>7 DEF DieClient
<1>8. CASE SendSize
  BY <1>8 DEF SendSize
<1>9. CASE TakeSize
  BY <1>9 DEF TakeSize
<1>10. CASE WdPing
  BY <1>10 DEF WdPing
<1>11. CASE AnswerAndExit
  BY <1>11 DEF AnswerAndExit
<1>12. CASE Condemn
  BY <1>12 DEF Condemn
<1> QED
  BY <1>1, <1>2, <1>3, <1>4, <1>5, <1>6, <1>7, <1>8, <1>9, <1>10, <1>11, <1>12
     DEF Next

-----------------------------------------------------------------------------
(* The handshake.  Most steps only let children advance, or die.           *)

\* A step that leaves the master alone and loses nothing that was told.
LEMMA KidsAdvance ==
  ASSUME IndInv, TypeOK', UNCHANGED masterVars,
         \A p \in Kids : kid[p] = "none" <=> kid'[p] = "none",
         \A p \in Kids : Told(p) => Told(p)',
         \A p \in pipe' : p \in pipe \/ Told(p)',
         sig' \subseteq sig
  PROVE  Handshake'
BY Constants DEF IndInv, TypeOK, Handshake, Settled, Born, masterVars

LEMMA ForkKeeps ==
  ASSUME IndInv, Fork
  PROVE  Handshake'
BY Constants DEF IndInv, TypeOK, Fork, Handshake, Settled, Born, Told, masterVars, wdVars

LEMMA ReceivePidKeeps ==
  ASSUME IndInv, ReceivePid
  PROVE  Handshake'
<1> USE Constants DEF IndInv, TypeOK
<1>1. /\ phase = "read"
      /\ \/ k + 1 < NumKids /\ k' = k + 1 /\ phase' = "fork"
         \/ k = NumKids - 1 /\ k' = k /\ phase' = "wait"
  BY NextKidSteps DEF ReceivePid
<1>2. /\ \E v \in {"right", "garbage"} :
            pids' = [pids EXCEPT ![k] = v] /\ (v = "right" => k \in pipe)
      /\ pipe' \subseteq pipe
      /\ UNCHANGED <<kid, armed, sig>>
  BY DEF ReceivePid, wdVars
<1>3. (\A p \in Kids : Settled(p) <=> pids[p] # "none")'
  <2>1. \A p \in Kids : Settled(p) <=> p < k
    BY <1>1 DEF Settled
  <2>2. \A p \in Kids : Settled(p)' <=> p <= k
    BY <1>1 DEF Settled
  <2>3. \A p \in Kids : pids'[p] # "none" <=> (p = k \/ pids[p] # "none")
    BY <1>2
  <2> QED
    BY <2>1, <2>2, <2>3 DEF Handshake
<1>4. (\A p \in Kids : Born(p) <=> kid[p] # "none")'
  BY <1>1, <1>2 DEF Handshake, Born
<1>5. (\A p \in Kids : p \in pipe \/ pids[p] = "right" => Told(p))'
  BY <1>2 DEF Handshake, Told
<1>6. (\A p \in sig : pids[p] = "right")'
  BY <1>1, <1>2 DEF Handshake, Settled
<1>7. (phase \in {"wait", "condemned"} => k = NumKids - 1)'
  BY <1>1
<1> QED
  BY <1>3, <1>4, <1>5, <1>6, <1>7 DEF Handshake

LEMMA StartKeeps ==
  ASSUME IndInv, TypeOK', NEW p \in Kids, Start(p)
  PROVE  Handshake'
<1> USE Constants DEF IndInv, TypeOK, Told, wdVars
<1>1. CASE Arm(p)
  BY <1>1, KidsAdvance DEF Arm
<1>2. CASE TellPid(p)
  BY <1>2, KidsAdvance DEF TellPid
<1> QED
  BY <1>1, <1>2 DEF Start

LEMMA DieKeeps ==
  ASSUME IndInv, TypeOK', NEW p \in Kids, Die(p)
  PROVE  Handshake'
BY Constants, KidsAdvance DEF IndInv, TypeOK, Told, Die, Alive, wdVars

LEMMA AnswerKeeps ==
  ASSUME IndInv, TypeOK', NEW p \in Kids, Answer(p)
  PROVE  Handshake'
BY Constants, KidsAdvance DEF IndInv, TypeOK, Told, Answer, Alive, wdVars

LEMMA OthersKeep ==
  ASSUME IndInv, TypeOK',
         ForkClient \/ DieClient \/ SendSize \/ TakeSize \/ AnswerAndExit
  PROVE  Handshake'
<1> USE Constants DEF IndInv, TypeOK, Told, wdVars
<1>1. CASE ForkClient
  BY <1>1, KidsAdvance DEF ForkClient
<1>2. CASE DieClient
  BY <1>2, KidsAdvance DEF DieClient
<1>3. CASE SendSize
  BY <1>3, KidsAdvance DEF SendSize
<1>4. CASE TakeSize
  BY <1>4, KidsAdvance DEF TakeSize
<1>5. CASE AnswerAndExit
  BY <1>5, KidsAdvance DEF AnswerAndExit
<1> QED
  BY <1>1, <1>2, <1>3, <1>4, <1>5

LEMMA WdPingKeeps ==
  ASSUME IndInv, WdPing
  PROVE  Handshake'
BY Constants DEF IndInv, TypeOK, WdPing, Reachable, Handshake, Settled, Born,
   Told, masterVars

LEMMA CondemnKeeps ==
  ASSUME IndInv, Condemn
  PROVE  Handshake'
BY Constants DEF IndInv, TypeOK, Condemn, Reachable, Alive, Handshake, Settled,
   Born, Told, wdVars

LEMMA HandshakeKept ==
  ASSUME IndInv, Next
  PROVE  Handshake'
<1>1. TypeOK'
  BY Typed
<1> QED
  BY <1>1, ForkKeeps, ReceivePidKeeps, StartKeeps, DieKeeps, AnswerKeeps,
     OthersKeep, WdPingKeeps, CondemnKeeps DEF Next

-----------------------------------------------------------------------------
(* Lost pids: the dead stay dead, and only a read can lose a pid.          *)

LEMMA DeadStayDead ==
  ASSUME IndInv, Next, ~ Fork
  PROVE  \A p \in Kids : kid[p] = "dead" => kid'[p] = "dead"
BY Constants
   DEF IndInv, TypeOK, Next, ReceivePid, Start, Arm, TellPid, Die, Answer,
       ForkClient, DieClient, SendSize, TakeSize, WdPing, AnswerAndExit, Condemn

LEMMA PidsKept ==
  ASSUME Next, ~ ReceivePid
  PROVE  pids' = pids
BY DEF Next, Fork, Start, Arm, TellPid, Die, Answer, ForkClient, DieClient,
       SendSize, TakeSize, WdPing, AnswerAndExit, Condemn, masterVars

LEMMA LostPidKept ==
  ASSUME IndInv, Next
  PROVE  LostPidMeansDead'
<1> USE Constants DEF IndInv, TypeOK
<1>1. CASE Fork
  <2>1. \A p \in Kids : pids[p] = "garbage" => p < k
    BY <1>1 DEF Fork, Handshake, Settled
  <2>2. pids' = pids /\ \A q \in Kids : q < k => kid'[q] = kid[q]
    BY <1>1 DEF Fork
  <2> QED
    BY <2>1, <2>2 DEF LostPidMeansDead
<1>2. CASE ReceivePid
  <2>1. \A p \in Kids : pids'[p] = "garbage" => pids[p] = "garbage" \/ (p = k /\ Unheld(k))
    BY <1>2 DEF ReceivePid
  <2>2. Unheld(k) => \A q \in 0 .. k : kid[q] = "dead"
    BY <1>2 DEF ReceivePid, Unheld, Alive, Handshake, Born
  <2>3. kid' = kid
    BY <1>2 DEF ReceivePid
  <2> QED
    BY <2>1, <2>2, <2>3 DEF LostPidMeansDead
<1>3. CASE ~ Fork /\ ~ ReceivePid
  <2>1. \A p \in Kids : \A q \in 0 .. p : q \in Kids
    OBVIOUS
  <2> QED
    BY <1>3, <2>1, DeadStayDead, PidsKept DEF LostPidMeansDead
<1> QED
  BY <1>1, <1>2, <1>3

-----------------------------------------------------------------------------
THEOREM IndInvAlways == Spec => []IndInv
<1>1. IndInv /\ UNCHANGED vars => IndInv'
  BY DEF vars, masterVars, wdVars, IndInv, TypeOK, Handshake, LostPidMeansDead,
     Settled, Born, Told
<1>2. IndInv /\ Next => IndInv'
  BY Typed, HandshakeKept, LostPidKept DEF IndInv
<1> QED
  BY <1>1, <1>2, InitInv, PTL DEF Spec

\* Every variable of Startup keeps its type.
THEOREM TypeCorrect == Spec => []TypeOK
BY IndInvAlways, PTL DEF IndInv

\* The pids the master holds are those of children that have told them, and
\* told they have only with their handler installed.
THEOREM HandshakeAlways == Spec => []Handshake
BY IndInvAlways, PTL DEF IndInv

\* However long a child takes to come up, no ping finds it without a handler.
THEOREM PingFindsHandlerAlways == Spec => []PingFindsHandler
<1>1. IndInv => PingFindsHandler
  BY Constants DEF IndInv, TypeOK, Handshake, Told, PingFindsHandler
<1> QED
  BY <1>1, IndInvAlways, PTL

\* A pid is lost only with the process it belongs to and all earlier ones.
THEOREM LostPidMeansDeadAlways == Spec => []LostPidMeansDead
BY IndInvAlways, PTL DEF IndInv
=============================================================================
