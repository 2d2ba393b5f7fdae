------------------------------ MODULE Startup -------------------------------
(***************************************************************************)
(* How the master starts the system: it creates every pipe, then forks one *)
(* child after the other and blocks, after each fork, until the child has  *)
(* written its pid into the pipe made for it.  Only then the watchdog is   *)
(* started with the pids collected, and the pings begin.                   *)
(*                                                                         *)
(* A child installs its SIGUSR1 handler before it tells its pid.  All the  *)
(* pipes exist before the first fork, so a child inherits the write ends   *)
(* of the pid pipes of all the children after it and never closes them: a  *)
(* read of the master sees the end of the file only when the child it      *)
(* waits for and all earlier ones are gone, and then leaves the pid as it  *)
(* was, uninitialised.                                                     *)
(*                                                                         *)
(* The socket process goes on to fork its client half, which inherits the  *)
(* same write ends, and to wait for the size of the window of the server   *)
(* in a read that is not repeated after a signal.                          *)
(***************************************************************************)
EXTENDS Integers

CONSTANTS
  NumKids,  \* children that tell their pid, in the order of the forks
  MayFail   \* those of them that may end by themselves

Kids == 0 .. NumKids - 1

ASSUME NumKidsAssumption == NumKids \in Nat /\ NumKids >= 3
ASSUME MayFailAssumption == MayFail \subseteq Kids

\* The children with a part of their own: the socket is the first, the rule
\* window the second, the server the third.
Socket == 0
Rule   == 1
Server == 2

\* The watchdog monitors all of them but the rule window.
Monitored == Kids \ {Rule}

VARIABLES
  phase,   \* of the master: "fork", "read" or "wait" (the watchdog runs),
           \* and "condemned" once the watchdog kills the system
  k,       \* the child the master forks or reads the pid of
  kid,     \* kid[p]: "none", "born", "told" (pid written), "ready" (part in
           \* the start done), "dead"; the socket is also "forked", waiting
           \* for the window size
  armed,   \* the children that have installed a handler of SIGUSR1
  client,  \* the client half of the socket: "none", "run" or "dead"
  pipe,    \* the children whose pid is in their pipe
  pids,    \* pids[p]: "none", "right" or "garbage" (never read)
  size,    \* the window size: "none", "sent" or "taken"
  w,       \* the process the watchdog pings
  sig      \* the processes at which SIGUSR1 is pending

masterVars == <<phase, k, pids>>
wdVars     == <<w, sig>>
vars       == <<masterVars, kid, armed, client, pipe, size, wdVars>>

Alive(p) == kid[p] \notin {"none", "dead"}

Init ==
  /\ phase = "fork" /\ k = 0
  /\ kid = [p \in Kids |-> "none"]
  /\ armed = {}
  /\ client = "none"
  /\ pipe = {}
  /\ pids = [p \in Kids |-> "none"]
  /\ size = "none"
  /\ w = Server /\ sig = {}

-----------------------------------------------------------------------------
(* The master.                                                             *)

\* spawn: fork and execvp.  A call that fails is a child that dies at once.
Fork ==
  /\ phase = "fork"
  /\ kid' = [kid EXCEPT ![k] = "born"]
  /\ phase' = "read"
  /\ UNCHANGED <<k, pids, armed, client, pipe, size, wdVars>>

\* Nobody is left who could write into the pid pipe of p: its own end of it
\* the master has closed, p and all children before p have had one.
Unheld(p) == client # "run" /\ \A q \in 0 .. p : ~ Alive(q)

NextKidNoEnd == k' = k + 1 /\ phase' = "fork"

\* The read is over: the next child, or the watchdog after the last one.
NextKid ==
  IF k + 1 < NumKids THEN k' = k + 1 /\ phase' = "fork"
                     ELSE k' = k /\ phase' = "wait"

ReceivePidNoWait ==
  /\ phase = "read"
  /\ \/ /\ k \in pipe
        /\ pids' = [pids EXCEPT ![k] = "right"]
        /\ pipe' = pipe \ {k}
     \/ /\ k \notin pipe
        /\ pids' = [pids EXCEPT ![k] = "garbage"]
        /\ UNCHANGED pipe
  /\ NextKid
  /\ UNCHANGED <<kid, armed, client, size, wdVars>>

\* recive_correct_pid: the read blocks while the pipe is empty and held.
ReceivePid ==
  /\ phase = "read"
  /\ \/ /\ k \in pipe
        /\ pids' = [pids EXCEPT ![k] = "right"]
        /\ pipe' = pipe \ {k}
     \/ /\ k \notin pipe /\ Unheld(k)
        /\ pids' = [pids EXCEPT ![k] = "garbage"]
        /\ UNCHANGED pipe
  /\ NextKid
  /\ UNCHANGED <<kid, armed, client, size, wdVars>>

-----------------------------------------------------------------------------
(* The children.                                                           *)

\* sigaction(SIGUSR1); the rule window has no handler.
Arm(p) ==
  /\ p # Rule /\ kid[p] = "born" /\ p \notin armed
  /\ armed' = armed \cup {p}
  /\ UNCHANGED <<masterVars, kid, client, pipe, size, wdVars>>

TellPidUnarmed(p) ==
  /\ kid[p] = "born"
  /\ kid' = [kid EXCEPT ![p] = "told"]
  /\ pipe' = pipe \cup {p}
  /\ UNCHANGED <<masterVars, armed, client, size, wdVars>>

TellPidNowhere(p) ==
  /\ kid[p] = "born" /\ (p # Rule => p \in armed)
  /\ kid' = [kid EXCEPT ![p] = "told"]
  /\ UNCHANGED <<masterVars, armed, client, pipe, size, wdVars>>

\* write(fd[1], &pid): the pid goes into the pipe.
TellPid(p) ==
  /\ kid[p] = "born" /\ (p # Rule => p \in armed)
  /\ kid' = [kid EXCEPT ![p] = "told"]
  /\ pipe' = pipe \cup {p}
  /\ UNCHANGED <<masterVars, armed, client, size, wdVars>>

ForkClientOnly ==
  /\ kid[Socket] = "told" /\ client = "none"
  /\ client' = "run"
  /\ UNCHANGED <<masterVars, kid, armed, pipe, size, wdVars>>

\* The socket forks its client half and goes on as the server half.
ForkClient ==
  /\ kid[Socket] = "told"
  /\ kid' = [kid EXCEPT ![Socket] = "forked"]
  /\ client' = "run"
  /\ UNCHANGED <<masterVars, armed, pipe, size, wdVars>>

\* The server has opened its window and sends the size of it.
SendSize ==
  /\ kid[Server] = "told"
  /\ kid' = [kid EXCEPT ![Server] = "ready"]
  /\ size' = "sent"
  /\ UNCHANGED <<masterVars, armed, client, pipe, wdVars>>

TakeSize ==
  /\ kid[Socket] = "forked" /\ size = "sent"
  /\ kid' = [kid EXCEPT ![Socket] = "ready"]
  /\ size' = "taken"
  /\ UNCHANGED <<masterVars, armed, client, pipe, wdVars>>

\* A child ends: a call fails, or somebody ends it.
Die(p) ==
  /\ p \in MayFail /\ Alive(p)
  /\ kid' = [kid EXCEPT ![p] = "dead"]
  /\ UNCHANGED <<masterVars, armed, client, pipe, size, wdVars>>

DieClient ==
  /\ Socket \in MayFail /\ client = "run"
  /\ client' = "dead"
  /\ UNCHANGED <<masterVars, kid, armed, pipe, size, wdVars>>

-----------------------------------------------------------------------------
(* The watchdog, as far as the start matters: it begins with the server    *)
(* and comes to the socket last; Watchdog has the rest.                    *)

\* The watchdog got this pid right and the process is still there.
Reachable(p) == pids[p] = "right" /\ Alive(p)

WdPing ==
  /\ phase = "wait" /\ sig = {}
  /\ Reachable(w)
  /\ sig' = {w}
  /\ w' = CASE w = Socket -> Server
            [] w = NumKids - 1 -> Socket
            [] OTHER -> w + 1
  /\ UNCHANGED <<masterVars, kid, armed, client, pipe, size>>

\* SIGUSR1 reaches p: the handler answers, and the call it interrupts goes
\* on, or is repeated by its caller.  Without a handler the signal kills.
Answer(p) ==
  /\ p \in sig /\ Alive(p)
  /\ sig' = sig \ {p}
  /\ kid' = IF p \in armed THEN kid ELSE [kid EXCEPT ![p] = "dead"]
  /\ UNCHANGED <<masterVars, armed, client, pipe, size, w>>

\* The socket answers too, but the read of the window size returns EINTR
\* and the socket exits.
AnswerAndExit ==
  /\ Socket \in sig
  /\ kid[Socket] = "forked" /\ size = "none"
  /\ sig' = sig \ {Socket}
  /\ kid' = [kid EXCEPT ![Socket] = "dead"]
  /\ UNCHANGED <<masterVars, armed, client, pipe, size, w>>

\* A ping that is not answered condemns all that have a known pid.
Condemn ==
  /\ phase = "wait"
  /\ IF sig = {} THEN ~ Reachable(w) ELSE \A p \in sig : ~ Alive(p)
  /\ phase' = "condemned"
  /\ kid' = [p \in Kids |->
               IF p \in Monitored /\ Reachable(p) THEN "dead" ELSE kid[p]]
  /\ UNCHANGED <<k, pids, armed, client, pipe, size, wdVars>>

-----------------------------------------------------------------------------
Start(p) == Arm(p) \/ TellPid(p)

Next ==
  \/ Fork \/ ReceivePid
  \/ \E p \in Kids : Start(p) \/ Die(p) \/ Answer(p)
  \/ ForkClient \/ DieClient \/ SendSize \/ TakeSize
  \/ WdPing \/ AnswerAndExit \/ Condemn

\* Every process is scheduled; that one of them dies is never assumed.
Fairness ==
  /\ WF_vars(Fork) /\ WF_vars(ReceivePid)
  /\ \A p \in Kids : WF_vars(Start(p)) /\ WF_vars(Answer(p))
  /\ WF_vars(ForkClient) /\ WF_vars(SendSize) /\ WF_vars(TakeSize)
  /\ WF_vars(WdPing) /\ WF_vars(Condemn)

Spec == Init /\ [][Next]_vars /\ Fairness

-----------------------------------------------------------------------------
(* Properties.                                                             *)

TypeOK ==
  /\ phase \in {"fork", "read", "wait", "condemned"}
  /\ k \in Kids
  /\ kid \in [Kids -> {"none", "born", "told", "forked", "ready", "dead"}]
  /\ armed \subseteq Kids \ {Rule}
  /\ client \in {"none", "run", "dead"}
  /\ pipe \subseteq Kids
  /\ pids \in [Kids -> {"none", "right", "garbage"}]
  /\ size \in {"none", "sent", "taken"}
  /\ w \in Monitored /\ sig \subseteq Monitored

\* What the master knows of its children: those behind it are settled, the
\* one it waits for is born, those to come do not exist.
Settled(p) == p < k \/ phase \in {"wait", "condemned"}
Told(p)    == kid[p] \notin {"none", "born"} /\ (p # Rule => p \in armed)
Born(p)    == p < k \/ (p = k /\ phase # "fork")

Handshake ==
  /\ \A p \in Kids : Settled(p) <=> pids[p] # "none"
  /\ \A p \in Kids : Born(p) <=> kid[p] # "none"
  /\ phase \in {"wait", "condemned"} => k = NumKids - 1
  /\ \A p \in Kids : p \in pipe \/ pids[p] = "right" => Told(p)
  /\ \A p \in sig : pids[p] = "right"

\* A ping never reaches a process that has not installed its handler, which
\* it would kill: the order of the calls in the children and the blocking
\* reads in the master see to it together.
PingFindsHandler == sig \subseteq armed

\* A pid the master fails to get is the pid of a process that is gone, with
\* everything that was started before it: the watchdog loses no live process.
LostPidMeansDead ==
  \A p \in Kids : pids[p] = "garbage" => \A q \in 0 .. p : kid[q] = "dead"

\* The master waits for a pid that nobody will ever write.
Stalled == phase = "read" /\ k \notin pipe /\ kid[k] = "dead" /\ ~ Unheld(k)

\* The watchdog starts, unless the master stalls: a child that dies before it
\* has told its pid is the only thing that can hold up the start.
StartsOrStalls == <>(phase = "wait") \/ <>[]Stalled

\* The size the server sends reaches the socket, if both live to see it.
SizeArrives ==
  (size = "sent" /\ kid[Socket] # "dead") ~> (size = "taken" \/ kid[Socket] = "dead")
=============================================================================
