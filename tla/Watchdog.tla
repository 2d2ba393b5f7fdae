------------------------------ MODULE Watchdog ------------------------------
(***************************************************************************)
(* The watchdog of wd.c, the processes it monitors and the master that     *)
(* waits for them.                                                         *)
(*                                                                         *)
(* The watchdog pings the monitored processes one after the other with     *)
(* SIGUSR1; the handler of each process answers with SIGUSR2; the handler  *)
(* of the watchdog takes one off the global `counter', which its main loop *)
(* increments after each ping.  A counter that is not back at 0 one second *)
(* after a ping condemns the whole system: every process and every konsole *)
(* is sent SIGKILL, in the order of the pid arrays, and the loop runs one  *)
(* index too far.                                                          *)
(*                                                                         *)
(* counter++ is a load, an addition and a store in the code gcc emits      *)
(* without optimisation (run.sh), so a handler may run in between.  The    *)
(* log functions call localtime(), which holds a lock of the C library:    *)
(* a handler that logs while the code it interrupted is logging may wait   *)
(* for that lock for ever.  Both are modelled as choices.                  *)
(***************************************************************************)
EXTENDS Integers

CONSTANTS
  NumPs,     \* PROCESS_NUMBER, the monitored processes
  Konsoles,  \* the processes that run in a konsole of their own
  Loggers,   \* the processes whose main code still writes to a log
  OobPids    \* what the slot after the last pid of an array may hold:
             \*   "group"  - 0, i.e. the watchdog's own process group
             \*   "nobody" - the pid of no process

Procs == 0 .. NumPs - 1

ASSUME NumPsAssumption   == NumPs \in Nat \ {0}
ASSUME KonsoleAssumption == Konsoles \subseteq Procs /\ Loggers \subseteq Procs
ASSUME OobAssumption     == OobPids # {} /\ OobPids \subseteq {"group", "nobody"}

None == -1   \* no process

VARIABLES
  pc,       \* where the watchdog's main function is
  i,        \* the process it is checking
  j,        \* the process it is killing
  counter,  \* pings sent minus answers handled
  reg,      \* the register between the load and the store of counter++
  usr2,     \* si_pid of the SIGUSR2 pending at the watchdog, or None
  heard,    \* sender in the last "received signal from" line since the ping
  lost,     \* answers to this ping lost between load and store
  proc,     \* proc[p]: "run", "stuck" (hanging in its handler) or "dead"
  usr1,     \* the processes at which SIGUSR1 is pending
  term,     \* the konsoles that are open
  master,   \* the master: "waiting", "returned" or "killed"
  m         \* the index of the child the master waits for

wdVars   == <<pc, i, j, counter, reg, heard, lost>>
procVars == <<proc, term>>
mVars    == <<master, m>>
vars     == <<wdVars, usr2, usr1, procVars, mVars>>

\* The places in main at which the watchdog is inside writeLog_wd.
Logging == {"log_alive", "log_proc", "log_term"}
\* The places after the verdict: main kills, or is done killing.
KillLoop  == {"kill_proc", "log_proc", "kill_term", "log_term"}
Over      == {"done", "killed"}
Condemned == KillLoop \cup {"stuck"} \cup Over

Init ==
  /\ pc = "ping" /\ i = 0 /\ j = 0
  /\ counter = 0 /\ reg = 0
  /\ usr2 = None /\ heard = None /\ lost = 0
  /\ proc = [p \in Procs |-> "run"]
  /\ usr1 = {}
  /\ term = Konsoles
  /\ master = "waiting" /\ m = 0

-----------------------------------------------------------------------------
(* The main loop of the watchdog, one action per access to shared state.   *)

\* kill(pids_from_process[i], SIGUSR1): lost on a process that is gone.
WdPing ==
  /\ pc = "ping"
  /\ usr1' = IF proc[i] = "dead" THEN usr1 ELSE usr1 \cup {i}
  /\ heard' = None /\ lost' = 0
  /\ pc' = "load"
  /\ UNCHANGED <<i, j, counter, reg, usr2, procVars, mVars>>

WdLoad ==
  /\ pc = "load"
  /\ reg' = counter
  /\ pc' = "store"
  /\ UNCHANGED <<i, j, counter, heard, lost, usr2, usr1, procVars, mVars>>

WdStore ==
  /\ pc = "store"
  /\ counter' = reg + 1
  /\ pc' = "sleep"
  /\ UNCHANGED <<i, j, reg, heard, lost, usr2, usr1, procVars, mVars>>

\* sleep(1) runs out.  A signal that is pending by then is handled before
\* sleep returns, so that case is WdHandler's.
WdSleep ==
  /\ pc = "sleep"
  /\ usr2 = None
  /\ pc' = "check"
  /\ UNCHANGED <<i, j, counter, reg, heard, lost, usr2, usr1, procVars, mVars>>

WdCheckOffByOne ==
  /\ pc = "check"
  /\ IF counter <= 1 THEN pc' = "log_alive" /\ j' = j
                     ELSE pc' = "kill_proc" /\ j' = 0
  /\ UNCHANGED <<i, counter, reg, heard, lost, usr2, usr1, procVars, mVars>>

WdCheck ==
  /\ pc = "check"
  /\ IF counter = 0 THEN pc' = "log_alive" /\ j' = j
                    ELSE pc' = "kill_proc" /\ j' = 0
  /\ UNCHANGED <<i, counter, reg, heard, lost, usr2, usr1, procVars, mVars>>

WdNextNoWrap ==
  /\ pc = "log_alive"
  /\ i' = i + 1
  /\ pc' = "ping"
  /\ UNCHANGED <<j, counter, reg, heard, lost, usr2, usr1, procVars, mVars>>

WdNextSkipsLast ==
  /\ pc = "log_alive"
  /\ IF i + 1 < NumPs - 1 THEN i' = i + 1 /\ UNCHANGED counter
                          ELSE i' = 0 /\ counter' = 0
  /\ pc' = "ping"
  /\ UNCHANGED <<j, reg, heard, lost, usr2, usr1, procVars, mVars>>

\* The process is logged as alive, the second sleep(1) passes, and the loop
\* goes on; a new round starts with counter = 0.
WdNext ==
  /\ pc = "log_alive"
  /\ IF i + 1 < NumPs THEN i' = i + 1 /\ UNCHANGED counter
                      ELSE i' = 0 /\ counter' = 0
  /\ pc' = "ping"
  /\ UNCHANGED <<j, reg, heard, lost, usr2, usr1, procVars, mVars>>

-----------------------------------------------------------------------------
(* The handler of SIGUSR2.  It logs first and counts second, and main does *)
(* not move while it runs.  It ends the sleep it interrupts.               *)

HandlerResets ==
  /\ usr2 # None
  /\ pc \notin Over \cup {"stuck"}
  /\ usr2' = None
  /\ heard' = usr2
  /\ counter' = 0
  /\ lost' = IF pc = "store" THEN lost + 1 ELSE lost
  /\ pc' = IF pc = "sleep" THEN "check" ELSE pc
  /\ UNCHANGED <<i, j, reg, usr1, procVars, mVars>>

WdHandler ==
  /\ usr2 # None
  /\ pc \notin Over \cup {"stuck"}
  /\ usr2' = None
  /\ heard' = usr2
  /\ counter' = counter - 1
  /\ lost' = IF pc = "store" THEN lost + 1 ELSE lost
  /\ pc' = IF pc = "sleep" THEN "check" ELSE pc
  /\ UNCHANGED <<i, j, reg, usr1, procVars, mVars>>

\* The handler interrupts writeLog_wd while it holds the lock of localtime.
WdHandlerHangs ==
  /\ usr2 # None
  /\ pc \in Logging
  /\ usr2' = None
  /\ pc' = "stuck"
  /\ UNCHANGED <<i, j, counter, reg, heard, lost, usr1, procVars, mVars>>

-----------------------------------------------------------------------------
(* The kill loop: j runs over 0 .. NumPs, one index more than the arrays   *)
(* have, so its last round reads whatever lies behind them on the stack.   *)

\* SIGKILL to process p.
KillProcess(p) ==
  /\ proc' = [proc EXCEPT ![p] = "dead"]
  /\ usr1' = usr1 \ {p}

\* SIGKILL to the process group: the master, the konsoles, the processes
\* without a konsole, and the watchdog itself.
KillGroup ==
  /\ pc' = "killed"
  /\ proc' = [p \in Procs |-> IF p \in Konsoles THEN proc[p] ELSE "dead"]
  /\ usr1' = usr1 \cap Konsoles
  /\ term' = {}
  /\ master' = IF master = "waiting" THEN "killed" ELSE master
  /\ UNCHANGED m

\* kill(pids_from_process[j], SIGKILL)
WdKillProc ==
  /\ pc = "kill_proc"
  /\ \/ /\ j < NumPs
        /\ KillProcess(j)
        /\ pc' = "log_proc"
        /\ UNCHANGED <<term, mVars>>
     \/ /\ j = NumPs /\ "nobody" \in OobPids
        /\ pc' = "log_proc"
        /\ UNCHANGED <<usr1, procVars, mVars>>
     \/ /\ j = NumPs /\ "group" \in OobPids
        /\ KillGroup
  /\ UNCHANGED <<i, j, counter, reg, heard, lost, usr2>>

WdLogProc ==
  /\ pc = "log_proc"
  /\ pc' = "kill_term"
  /\ UNCHANGED <<i, j, counter, reg, heard, lost, usr2, usr1, procVars, mVars>>

\* kill(pids_from_master[j], SIGKILL): the konsole of j, or j once more.
WdKillTerm ==
  /\ pc = "kill_term"
  /\ \/ /\ j < NumPs /\ j \in Konsoles
        /\ term' = term \ {j}
        /\ pc' = "log_term"
        /\ UNCHANGED <<usr1, proc, mVars>>
     \/ /\ j < NumPs /\ j \notin Konsoles
        /\ KillProcess(j)
        /\ pc' = "log_term"
        /\ UNCHANGED <<term, mVars>>
     \/ /\ j = NumPs /\ "nobody" \in OobPids
        /\ pc' = "log_term"
        /\ UNCHANGED <<usr1, procVars, mVars>>
     \/ /\ j = NumPs /\ "group" \in OobPids
        /\ KillGroup
  /\ UNCHANGED <<i, j, counter, reg, heard, lost, usr2>>

WdKillNextShort ==
  /\ pc = "log_term"
  /\ IF j + 1 < NumPs - 1 THEN j' = j + 1 /\ pc' = "kill_proc"
                          ELSE j' = j /\ pc' = "done"
  /\ UNCHANGED <<i, counter, reg, heard, lost, usr2, usr1, procVars, mVars>>

WdKillNextNoReturn ==
  /\ pc = "log_term"
  /\ IF j < NumPs THEN j' = j + 1 /\ pc' = "kill_proc" /\ UNCHANGED <<i, counter>>
                  ELSE j' = j /\ pc' = "ping" /\ i' = 0 /\ counter' = 0
  /\ UNCHANGED <<reg, heard, lost, usr2, usr1, procVars, mVars>>

WdKillNext ==
  /\ pc = "log_term"
  /\ IF j < NumPs THEN j' = j + 1 /\ pc' = "kill_proc"
                  ELSE j' = j /\ pc' = "done"
  /\ UNCHANGED <<i, counter, reg, heard, lost, usr2, usr1, procVars, mVars>>

-----------------------------------------------------------------------------
(* The monitored processes.                                                *)

\* The handler of SIGUSR1: it signals the watchdog (a SIGUSR2 that is
\* already pending absorbs this one) and then logs.
Answer(p) ==
  /\ p \in usr1 /\ proc[p] = "run"
  /\ usr1' = usr1 \ {p}
  /\ usr2' = IF usr2 = None THEN p ELSE usr2
  /\ \/ UNCHANGED proc
     \/ /\ p \in Loggers     \* main was inside writeLog
        /\ proc' = [proc EXCEPT ![p] = "stuck"]
  /\ UNCHANGED <<wdVars, term, mVars>>

\* A process ends: the user quits, the game is won, a call fails.
Exit(p) ==
  /\ proc[p] = "run"
  /\ KillProcess(p)
  /\ UNCHANGED <<wdVars, usr2, term, mVars>>

\* A konsole closes, by itself when its program has ended or by the user.
CloseKonsole(p) ==
  /\ p \in term
  /\ term' = term \ {p}
  /\ UNCHANGED <<wdVars, usr2, usr1, proc, mVars>>

\* The program of a konsole that is gone is hung up on.
HangUp(p) ==
  /\ p \in Konsoles \ term
  /\ proc[p] # "dead"
  /\ KillProcess(p)
  /\ UNCHANGED <<wdVars, usr2, term, mVars>>

-----------------------------------------------------------------------------
(* The master waits for its children, the konsole instead of the process   *)
(* where there is one, and for the watchdog last.                          *)

ChildEnded(p) == IF p \in Konsoles THEN p \notin term ELSE proc[p] = "dead"

MasterWaitShort ==
  /\ master = "waiting"
  /\ m < NumPs /\ ChildEnded(m)
  /\ m' = m + 1
  /\ master' = IF m + 1 = NumPs THEN "returned" ELSE master
  /\ UNCHANGED <<wdVars, usr2, usr1, procVars>>

MasterWait ==
  /\ master = "waiting"
  /\ IF m < NumPs THEN ChildEnded(m) ELSE pc \in Over
  /\ m' = m + 1
  /\ master' = IF m = NumPs THEN "returned" ELSE master
  /\ UNCHANGED <<wdVars, usr2, usr1, procVars>>

-----------------------------------------------------------------------------
WdMain ==
  \/ WdPing \/ WdLoad \/ WdStore \/ WdSleep \/ WdCheck \/ WdNext
  \/ WdKillProc \/ WdLogProc \/ WdKillTerm \/ WdKillNext

Next ==
  \/ WdMain \/ WdHandler \/ WdHandlerHangs
  \/ \E p \in Procs : Answer(p) \/ Exit(p) \/ CloseKonsole(p) \/ HangUp(p)
  \/ MasterWait

\* The watchdog and the master are scheduled and pending signals are
\* delivered.  Nothing is assumed of the processes: they may never answer.
Fairness ==
  /\ WF_vars(WdMain)
  /\ WF_vars(WdHandler \/ WdHandlerHangs)
  /\ WF_vars(MasterWait)

Spec == Init /\ [][Next]_vars /\ Fairness

-----------------------------------------------------------------------------
(* Properties.                                                             *)

TypeOK ==
  /\ pc \in {"ping", "load", "store", "sleep", "check", "log_alive"} \cup Condemned
  /\ i \in Procs /\ j \in 0 .. NumPs
  /\ counter \in -1 .. 1 /\ reg \in -1 .. 0
  /\ usr2 \in Procs \cup {None} /\ heard \in Procs \cup {None}
  /\ lost \in 0 .. 1
  /\ proc \in [Procs -> {"run", "stuck", "dead"}]
  /\ usr1 \subseteq Procs /\ term \subseteq Konsoles
  /\ master \in {"waiting", "returned", "killed"} /\ m \in 0 .. NumPs + 1

\* The system is down: no monitored process and no konsole is left.
AllGone == term = {} /\ \A p \in Procs : proc[p] = "dead"

\* What the counter holds between two pings, and whose signals may be under
\* way: only the process pinged last owes an answer, and it owes one answer.
Answered == IF heard = None THEN 0 ELSE -1

PingInv ==
  \/ /\ pc = "ping"
     /\ usr1 = {} /\ usr2 = None /\ counter = 0
  \/ /\ pc # "ping"
     /\ usr1 \subseteq {i} /\ usr2 \in {None, i} /\ heard \in {None, i}
     /\ usr2 # None => usr1 = {}
     /\ heard # None => usr1 = {} /\ usr2 = None
     /\ lost # 0 => heard = i
     /\ pc = "load" => lost = 0 /\ counter = Answered
     /\ pc = "store" => \/ lost = 0 /\ reg = Answered /\ counter = Answered
                        \/ lost = 1 /\ reg = 0 /\ counter = -1
     /\ pc \notin {"load", "store"} => counter = 1 + Answered + lost
     /\ pc = "log_alive" => heard = i /\ lost = 0

\* How far the kill loop has come, and what the master has waited for.
KillInv ==
  /\ pc \in KillLoop =>
       /\ \A p \in Procs : p < j => proc[p] = "dead" /\ p \notin term
       /\ pc # "kill_proc" /\ j < NumPs => proc[j] = "dead"
       /\ pc = "log_term" => j \notin term
  /\ pc \in Over => AllGone
  /\ master = "waiting" => m <= NumPs
  /\ master = "returned" => pc \in Over

\* The inductive invariant.
IndInv == PingInv /\ KillInv

\* A process is logged as alive only when the answer counted was its own and
\* to this very ping: the handler never looks at si_pid, so a late answer of
\* one process must never be credited to the next one.
AliveMeansAnswered == pc = "log_alive" => heard = i

\* At the verdict the counter condemns exactly when no answer was handled or
\* an answer was lost between the load and the store of counter++: there is
\* no other way to kill a system whose process answered in time.
VerdictExplained == pc = "check" => (counter # 0 <=> (heard = None \/ lost > 0))

\* When the watchdog is gone nothing it had to kill is left, although its
\* kill loop runs past the arrays and may end in the middle of that round.
KillIsComplete == pc \in Over => AllGone

\* The master returns from main only after the whole system is down, though
\* it waits for konsoles and not for the programs that run in them.
MasterReturnsLast == master = "returned" => AllGone /\ pc \in Over

\* A process that has ended, or hangs in its handler, makes the watchdog
\* condemn the system, whatever the other processes do.
DeathIsNoticed ==
  (\E p \in Procs : proc[p] \in {"stuck", "dead"}) ~> pc \in Condemned

\* Once condemned the system goes down and the master with it, unless the
\* watchdog hangs in its own handler.
ShutdownCompletes ==
  pc \in Condemned ~> \/ AllGone /\ master # "waiting"
                      \/ pc = "stuck"

\* The members of the group and what the watchdog has decided, as Supervisor
\* sees them: a process whose konsole is still open is still present.
Sup == INSTANCE Supervisor WITH
  Members <- Procs,
  serving <- {p \in Procs : proc[p] = "run"},
  present <- {p \in Procs : proc[p] # "dead" \/ p \in term},
  verdict <- CASE pc \in KillLoop -> "condemned"
               [] pc = "stuck"     -> "hung"
               [] pc \in Over      -> "over"
               [] OTHER            -> "none"

\* The watchdog of wd.c implements the supervisor, its fairness included.
ImplementsSupervisor == Sup!Spec

\* README.md:180: "If the watchdog receives the signal back, everything is
\* okay; otherwise ... it kills all the processes": only a process whose
\* answer has not been received condemns the system.
CondemnsOnlySilent ==
  [][pc = "check" /\ pc' = "kill_proc" => heard = None]_vars
=============================================================================
