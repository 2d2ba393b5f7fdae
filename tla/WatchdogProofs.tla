--------------------------- MODULE WatchdogProofs ----------------------------
(***************************************************************************)
(* Proofs about Watchdog for every number of processes, however they are   *)
(* spread over konsoles and whatever lies behind the pid arrays.  IndInv   *)
(* and TypeOK are inductive together: the range of the counter rests on    *)
(* PingInv, and PingInv on the types.                                      *)
(***************************************************************************)
EXTENDS Watchdog, TLAPS

LEMMA Constants ==
  /\ NumPs \in Nat \ {0}
  /\ Konsoles \subseteq Procs /\ Loggers \subseteq Procs
  /\ Procs \subseteq Nat /\ None \notin Procs
  /\ \A p \in Procs : p < NumPs
BY NumPsAssumption, KonsoleAssumption DEF Procs, None

-----------------------------------------------------------------------------
(* Types.                                                                  *)

LEMMA MainTyped ==
  ASSUME TypeOK, IndInv, WdMain
  PROVE  TypeOK'
<1> USE Constants DEF TypeOK, procVars, mVars, Condemned, KillLoop, Over
<1>1. CASE WdPing
  BY <1>1 DEF WdPing
<1>2. CASE WdLoad
  BY <1>2 DEF WdLoad, IndInv, PingInv, Answered
<1>3. CASE WdStore
  BY <1>3 DEF WdStore
<1>4. CASE WdSleep
  BY <1>4 DEF WdSleep
<1>5. CASE WdCheck
  BY <1>5 DEF WdCheck
<1>6. CASE WdNext
  BY <1>6 DEF WdNext, Procs
<1>7. CASE WdKillProc
  BY <1>7 DEF WdKillProc, KillProcess, KillGroup, Procs
<1>8. CASE WdLogProc
  BY <1>8 DEF WdLogProc
<1>9. CASE WdKillTerm
  BY <1>9 DEF WdKillTerm, KillProcess, KillGroup, Procs
<1>10. CASE WdKillNext
  BY <1>10 DEF WdKillNext
<1> QED
  BY <1>1, <1>2, <1>3, <1>4, <1>5, <1>6, <1>7, <1>8, <1>9, <1>10 DEF WdMain

LEMMA OthersTyped ==
  ASSUME TypeOK, IndInv, Next, ~ WdMain
  PROVE  TypeOK'
<1> USE Constants DEF TypeOK, wdVars, procVars, mVars
<1>1. CASE WdHandler
  <2>1. counter' \in -1 .. 1 /\ lost' \in 0 .. 1
    BY <1>1 DEF WdHandler, IndInv, PingInv, Answered
  <2>2. pc' \in {pc, "check"} /\ usr2' = None /\ heard' = usr2
    BY <1>1 DEF WdHandler
  <2> QED
    BY <1>1, <2>1, <2>2 DEF WdHandler
<1>2. CASE WdHandlerHangs
  BY <1>2 DEF WdHandlerHangs, Condemned
<1>3. ASSUME NEW p \in Procs, Answer(p)
      PROVE  TypeOK'
  BY <1>3 DEF Answer
<1>4. ASSUME NEW p \in Procs, Exit(p) \/ HangUp(p)
      PROVE  TypeOK'
  BY <1>4 DEF Exit, HangUp, KillProcess
<1>5. ASSUME NEW p \in Procs, CloseKonsole(p)
      PROVE  TypeOK'
  BY <1>5 DEF CloseKonsole
<1>6. CASE MasterWait
  BY <1>6 DEF MasterWait, IndInv, KillInv
<1> QED
  BY <1>1, <1>2, <1>3, <1>4, <1>5, <1>6 DEF Next

-----------------------------------------------------------------------------
(* The counter: who may still answer, and what an answer does to it.       *)

LEMMA MainPing ==
  ASSUME TypeOK, PingInv, WdMain
  PROVE  PingInv'
<1> USE DEF TypeOK, PingInv, Answered, procVars, mVars
<1>1. CASE WdPing
  <2>1. usr1' \subseteq {i} /\ usr2' = None /\ heard' = None /\ i' = i
    BY <1>1 DEF WdPing
  <2>2. pc' = "load" /\ counter' = 0 /\ lost' = 0
    BY <1>1 DEF WdPing
  <2> QED
    BY <2>1, <2>2
<1>2. CASE WdLoad
  BY <1>2, Constants DEF WdLoad
<1>3. CASE WdStore
  BY <1>3, Constants DEF WdStore
<1>4. CASE WdSleep
  BY <1>4 DEF WdSleep
<1>5. CASE WdCheck
  BY <1>5, Constants DEF WdCheck
<1>6. CASE WdNext
  BY <1>6, Constants DEF WdNext
<1>7. CASE WdKillProc \/ WdKillTerm
  <2>1. pc' \notin {"ping", "load", "store", "log_alive"} /\ usr1' \subseteq usr1
    BY <1>7 DEF WdKillProc, WdKillTerm, KillProcess, KillGroup
  <2>2. UNCHANGED <<i, counter, heard, lost, usr2>>
    BY <1>7 DEF WdKillProc, WdKillTerm
  <2>3. pc \notin {"ping", "load", "store", "log_alive"}
    BY <1>7 DEF WdKillProc, WdKillTerm
  <2> QED
    BY <2>1, <2>2, <2>3
<1>8. CASE WdLogProc \/ WdKillNext
  BY <1>8 DEF WdLogProc, WdKillNext
<1> QED
  BY <1>1, <1>2, <1>3, <1>4, <1>5, <1>6, <1>7, <1>8 DEF WdMain

LEMMA OthersPing ==
  ASSUME TypeOK, PingInv, Next, ~ WdMain
  PROVE  PingInv'
<1> USE DEF TypeOK, PingInv, Answered, wdVars, procVars, mVars
<1>1. CASE WdHandler
  <2>1. usr2 = i /\ usr1 = {} /\ heard = None /\ lost = 0 /\ pc # "ping"
    BY <1>1, Constants DEF WdHandler
  <2>2. /\ usr2' = None /\ usr1' = {} /\ heard' = i /\ i' = i /\ reg' = reg
        /\ counter' = counter - 1
        /\ lost' = IF pc = "store" THEN 1 ELSE 0
        /\ pc' = IF pc = "sleep" THEN "check" ELSE pc
    BY <1>1, <2>1 DEF WdHandler
  <2> QED
    BY <2>1, <2>2, Constants
<1>2. CASE WdHandlerHangs
  BY <1>2, Constants DEF WdHandlerHangs, Logging
<1>3. ASSUME NEW p \in Procs, Answer(p)
      PROVE  PingInv'
  <2>1. p \in usr1 /\ usr1 # {}
    BY <1>3 DEF Answer
  <2>2. pc # "ping" /\ usr2 = None /\ heard = None
    BY <2>1
  <2>3. p = i /\ usr1 = {i}
    BY <2>1, <2>2
  <2>4. usr1' = {} /\ usr2' = i /\ UNCHANGED wdVars
    BY <1>3, <2>2, <2>3 DEF Answer
  <2> QED
    BY <2>2, <2>4
<1>4. ASSUME NEW p \in Procs, Exit(p) \/ HangUp(p) \/ CloseKonsole(p)
      PROVE  PingInv'
  BY <1>4 DEF Exit, HangUp, CloseKonsole, KillProcess
<1>5. CASE MasterWait
  BY <1>5 DEF MasterWait
<1> QED
  BY <1>1, <1>2, <1>3, <1>4, <1>5 DEF Next

-----------------------------------------------------------------------------
(* The kill loop: what is behind it is dead and stays dead.                *)

LEMMA MainKill ==
  ASSUME TypeOK, KillInv, WdMain
  PROVE  KillInv'
<1> USE Constants DEF TypeOK, KillInv, KillLoop, Over, procVars, mVars
<1>1. CASE WdPing \/ WdLoad \/ WdStore \/ WdSleep \/ WdNext
  BY <1>1 DEF WdPing, WdLoad, WdStore, WdSleep, WdNext
<1>2. CASE WdCheck
  BY <1>2 DEF WdCheck, Procs
<1>3. CASE WdKillProc
  BY <1>3 DEF WdKillProc, KillProcess, KillGroup, AllGone, Procs
<1>4. CASE WdLogProc
  BY <1>4 DEF WdLogProc
<1>5. CASE WdKillTerm
  BY <1>5 DEF WdKillTerm, KillProcess, KillGroup, AllGone, Procs
<1>6. CASE WdKillNext
  BY <1>6 DEF WdKillNext, AllGone, Procs
<1> QED
  BY <1>1, <1>2, <1>3, <1>4, <1>5, <1>6 DEF WdMain

\* Nothing but the watchdog itself moves the kill loop, and nothing revives
\* a process or opens a konsole.
LEMMA DeadStaysDead ==
  ASSUME TypeOK, KillInv, UNCHANGED <<pc, j, mVars>>, term' \subseteq term,
         \A p \in Procs : proc[p] = "dead" => proc'[p] = "dead"
  PROVE  KillInv'
<1>1. AllGone => AllGone'
  BY DEF AllGone
<1>2. ASSUME pc \in KillLoop
      PROVE  /\ \A p \in Procs : p < j => proc'[p] = "dead" /\ p \notin term'
             /\ pc # "kill_proc" /\ j < NumPs => proc'[j] = "dead"
             /\ pc = "log_term" => j \notin term'
  <2>1. j < NumPs /\ proc[j] = "dead" => proc'[j] = "dead"
    BY Constants DEF TypeOK, Procs
  <2> QED
    BY <1>2, <2>1 DEF KillInv
<1> QED
  BY <1>1, <1>2 DEF KillInv, mVars

LEMMA OthersKill ==
  ASSUME TypeOK, KillInv, Next, ~ WdMain
  PROVE  KillInv'
<1> USE Constants DEF TypeOK, KillInv, KillLoop, Over, wdVars, procVars, mVars
<1>1. CASE WdHandler
  <2>1. pc' = pc \/ (pc' = "check" /\ pc = "sleep")
    BY <1>1 DEF WdHandler
  <2>2. UNCHANGED <<j, procVars, mVars>>
    BY <1>1 DEF WdHandler
  <2> QED
    BY <1>1, <2>1, <2>2 DEF WdHandler, AllGone
<1>2. CASE WdHandlerHangs
  BY <1>2 DEF WdHandlerHangs, Logging
<1>3. ASSUME NEW p \in Procs, Answer(p)
      PROVE  KillInv'
  BY <1>3, DeadStaysDead DEF Answer
<1>4. ASSUME NEW p \in Procs, Exit(p) \/ HangUp(p)
      PROVE  KillInv'
  BY <1>4, DeadStaysDead DEF Exit, HangUp, KillProcess
<1>5. ASSUME NEW p \in Procs, CloseKonsole(p)
      PROVE  KillInv'
  BY <1>5, DeadStaysDead DEF CloseKonsole
<1>6. CASE MasterWait
  <2>1. UNCHANGED <<pc, j, proc, term>> /\ (AllGone' <=> AllGone)
    BY <1>6 DEF MasterWait, AllGone
  <2> QED
    BY <1>6, <2>1 DEF MasterWait
<1> QED
  BY <1>1, <1>2, <1>3, <1>4, <1>5, <1>6 DEF Next

-----------------------------------------------------------------------------
(* The theorems.                                                           *)

\* The types and the inductive invariant hold in every reachable state.
THEOREM IndInvAlways == Spec => [](TypeOK /\ IndInv)
<1>1. Init => TypeOK /\ IndInv
  <2>1. Init => TypeOK
    BY Constants DEF Init, TypeOK, Procs
  <2>2. Init => IndInv
    BY Constants DEF Init, IndInv, PingInv, KillInv, KillLoop, Over
  <2> QED
    BY <2>1, <2>2
<1>2. TypeOK /\ IndInv /\ [Next]_vars => (TypeOK /\ IndInv)'
  <2> SUFFICES ASSUME TypeOK, IndInv, [Next]_vars
               PROVE  (TypeOK /\ IndInv)'
    OBVIOUS
  <2>1. CASE WdMain
    BY <2>1, MainTyped, MainPing, MainKill DEF IndInv
  <2>2. CASE Next /\ ~ WdMain
    BY <2>2, OthersTyped, OthersPing, OthersKill DEF IndInv
  <2>3. CASE UNCHANGED vars
    BY <2>3 DEF vars, wdVars, procVars, mVars, TypeOK, IndInv, PingInv, KillInv,
       KillLoop, Over, Answered, AllGone
  <2> QED
    BY <2>1, <2>2, <2>3
<1> QED
  BY <1>1, <1>2, PTL DEF Spec

\* Every variable of Watchdog keeps its type; in particular the counter stays
\* between -1 and 1 however late the answers come.
THEOREM TypeCorrect == Spec => []TypeOK
BY IndInvAlways, PTL

\* No answer of one process is ever credited to another one, or to a later
\* ping, although the handler does not look at who has sent it.
THEOREM AliveMeansAnsweredAlways == Spec => []AliveMeansAnswered
<1>1. TypeOK /\ IndInv => AliveMeansAnswered
  BY DEF IndInv, PingInv, AliveMeansAnswered
<1> QED
  BY <1>1, IndInvAlways, PTL

\* The verdict condemns in two cases only: no answer was handled, or the one
\* answer fell between the load and the store of counter++.
THEOREM VerdictExplainedAlways == Spec => []VerdictExplained
<1>1. TypeOK /\ IndInv => VerdictExplained
  BY Constants DEF TypeOK, IndInv, PingInv, Answered, VerdictExplained
<1> QED
  BY <1>1, IndInvAlways, PTL

\* The kill loop leaves nothing behind, whatever its round past the end of
\* the arrays hits.
THEOREM KillIsCompleteAlways == Spec => []KillIsComplete
<1>1. IndInv => KillIsComplete
  BY DEF IndInv, KillInv, KillIsComplete
<1> QED
  BY <1>1, IndInvAlways, PTL

\* The master returns only after the whole system is down.
THEOREM MasterReturnsLastAlways == Spec => []MasterReturnsLast
<1>1. IndInv => MasterReturnsLast
  BY DEF IndInv, KillInv, MasterReturnsLast
<1> QED
  BY <1>1, IndInvAlways, PTL

-----------------------------------------------------------------------------
(* Refinement: every step of the watchdog is a step of Supervisor, or      *)
(* leaves what Supervisor sees unchanged.                                  *)

LEMMA InitSupervises == Init => Sup!Init
BY DEF Init, Sup!Init, KillLoop, Over

\* A step that leaves pc on its side of the verdict and revives nobody.
LEMMA FailStep ==
  ASSUME pc \notin Over,
         pc \in KillLoop <=> pc' \in KillLoop, pc' \notin Over,
         pc = "stuck" <=> pc' = "stuck",
         \A p \in Procs : proc'[p] = proc[p] \/ proc'[p] \in {"stuck", "dead"},
         \A p \in Procs : proc[p] = "dead" => proc'[p] = "dead",
         term' \subseteq term
  PROVE  Sup!Fail
BY DEF Sup!Fail, Over, KillLoop

LEMMA MainSupervises ==
  ASSUME TypeOK, IndInv, WdMain, IndInv', TypeOK'
  PROVE  [Sup!Next]_(Sup!vars)
<1> USE Constants DEF KillLoop, Over
<1>1. CASE WdPing
  BY <1>1 DEF WdPing, procVars, Sup!vars
<1>2. CASE WdLoad
  BY <1>2 DEF WdLoad, procVars, Sup!vars
<1>3. CASE WdStore
  BY <1>3 DEF WdStore, procVars, Sup!vars
<1>4. CASE WdSleep
  BY <1>4 DEF WdSleep, procVars, Sup!vars
<1>5. CASE WdCheck
  <2>1. CASE counter = 0
    BY <1>5, <2>1 DEF WdCheck, procVars, Sup!vars
  <2>2. CASE counter # 0
    BY <1>5, <2>2 DEF WdCheck, procVars, Sup!Next, Sup!Condemn
  <2> QED
    BY <2>1, <2>2
<1>6. CASE WdNext
  BY <1>6 DEF WdNext, procVars, Sup!vars
<1>7. CASE WdKillProc
  <2>1. CASE pc' = "killed"
    <3>1. AllGone'
      BY <2>1 DEF IndInv, KillInv
    <3> QED
      BY <1>7, <2>1, <3>1 DEF WdKillProc, AllGone, Sup!Next, Sup!Finish
  <2>2. CASE pc' = "log_proc"
    <3>1. Sup!Fail
      <4>1. \A p \in Procs : proc'[p] = proc[p] \/ proc'[p] = "dead"
        BY <1>7, <2>2 DEF WdKillProc, KillProcess, KillGroup, procVars, TypeOK
      <4>2. term' \subseteq term
        BY <1>7, <2>2 DEF WdKillProc, KillProcess, KillGroup, procVars
      <4>3. pc \in KillLoop /\ pc' \in KillLoop
        BY <1>7, <2>2 DEF WdKillProc
      <4> QED
        BY <4>1, <4>2, <4>3, FailStep
    <3> QED
      BY <3>1 DEF Sup!Next
  <2> QED
    BY <1>7, <2>1, <2>2 DEF WdKillProc, KillGroup
<1>8. CASE WdLogProc
  BY <1>8 DEF WdLogProc, procVars, Sup!vars
<1>9. CASE WdKillTerm
  <2>1. CASE pc' = "killed"
    <3>1. AllGone'
      BY <2>1 DEF IndInv, KillInv
    <3> QED
      BY <1>9, <2>1, <3>1 DEF WdKillTerm, AllGone, Sup!Next, Sup!Finish
  <2>2. CASE pc' = "log_term"
    <3>1. Sup!Fail
      <4>1. \A p \in Procs : proc'[p] = proc[p] \/ proc'[p] = "dead"
        BY <1>9, <2>2 DEF WdKillTerm, KillProcess, KillGroup, procVars, TypeOK
      <4>2. term' \subseteq term
        BY <1>9, <2>2 DEF WdKillTerm, KillProcess, KillGroup, procVars
      <4>3. pc \in KillLoop /\ pc' \in KillLoop
        BY <1>9, <2>2 DEF WdKillTerm
      <4> QED
        BY <4>1, <4>2, <4>3, FailStep
    <3> QED
      BY <3>1 DEF Sup!Next
  <2> QED
    BY <1>9, <2>1, <2>2 DEF WdKillTerm, KillGroup
<1>10. CASE WdKillNext
  <2>1. CASE j < NumPs
    BY <1>10, <2>1 DEF WdKillNext, procVars, Sup!vars
  <2>2. CASE ~ (j < NumPs)
    <3>1. pc' = "done" /\ AllGone'
      BY <1>10, <2>2 DEF WdKillNext, IndInv, KillInv
    <3> QED
      BY <1>10, <3>1 DEF WdKillNext, AllGone, Sup!Next, Sup!Finish
  <2> QED
    BY <2>1, <2>2
<1> QED
  BY <1>1, <1>2, <1>3, <1>4, <1>5, <1>6, <1>7, <1>8, <1>9, <1>10 DEF WdMain

LEMMA OthersSupervise ==
  ASSUME TypeOK, IndInv, Next, ~ WdMain
  PROVE  [Sup!Next]_(Sup!vars)
<1>1. CASE WdHandler
  BY <1>1 DEF WdHandler, procVars, Sup!vars, KillLoop, Over
<1>2. CASE WdHandlerHangs
  BY <1>2 DEF WdHandlerHangs, Logging, procVars, Sup!Next, Sup!Hang, KillLoop, Over
<1>3. CASE MasterWait
  BY <1>3 DEF MasterWait, wdVars, procVars, Sup!vars, KillLoop, Over
<1>4. CASE pc \notin Over /\ \E p \in Procs : Answer(p) \/ Exit(p) \/ CloseKonsole(p) \/ HangUp(p)
  <2>1. Sup!Fail
    BY <1>4, FailStep
       DEF Answer, Exit, CloseKonsole, HangUp, KillProcess, wdVars, TypeOK
  <2> QED
    BY <2>1 DEF Sup!Next
<1>5. CASE pc \in Over /\ \E p \in Procs : Answer(p) \/ Exit(p) \/ CloseKonsole(p) \/ HangUp(p)
  BY <1>5 DEF IndInv, KillInv, AllGone, Answer, Exit, CloseKonsole, HangUp
<1> QED
  BY <1>1, <1>2, <1>3, <1>4, <1>5 DEF Next

\* The watchdog does what Supervisor allows and nothing else: the members
\* go down together or not at all, none comes back, and the watchdog is done
\* only when none is left.
THEOREM WatchdogImplementsSupervisor ==
  Spec => Sup!Init /\ [][Sup!Next]_(Sup!vars)
<1>1. TypeOK /\ IndInv /\ TypeOK' /\ IndInv' /\ [Next]_vars => [Sup!Next]_(Sup!vars)
  <2> SUFFICES ASSUME TypeOK, IndInv, TypeOK', IndInv', [Next]_vars
               PROVE  [Sup!Next]_(Sup!vars)
    OBVIOUS
  <2>1. CASE WdMain
    BY <2>1, MainSupervises
  <2>2. CASE Next /\ ~ WdMain
    BY <2>2, OthersSupervise
  <2>3. CASE UNCHANGED vars
    BY <2>3 DEF vars, wdVars, procVars, Sup!vars, KillLoop, Over
  <2> QED
    BY <2>1, <2>2, <2>3
<1> QED
  BY <1>1, InitSupervises, IndInvAlways, PTL DEF Spec
=============================================================================
