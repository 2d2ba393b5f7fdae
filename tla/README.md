# A TLA+ model of the drone simulator

This directory models, checks and proves properties of the simulator in this
repository: a game of several Unix processes (`src/*.c`, built by `run.sh`) joined
by pipes, a socket and signals.

## Inventory

`master` creates all the pipes, starts the other processes with `spawn`
(`arplib.c:13`), learns the pid of each one through a pipe, starts the watchdog with
the pids and waits. Everything else goes on between the children.

| Component | State | Operations | Talks to |
| --- | --- | --- | --- |
| `master.c` | pipes, children, their pids | spawn, `recive_correct_pid`, wait | all (pid pipes, argv) |
| `wd.c` | the two pid arrays, `counter` | ping, count the answer, kill loop | monitored processes (SIGUSR1, SIGUSR2, SIGKILL) |
| SIGUSR1 handlers | none | answer, log | watchdog |
| `server.c`, control loop | last force, position, obstacles; forces | select, read, compute, write, redraw | drone, input, socket (pipes) |
| `server.c`, targets | targets as fractions and as cells, two counts | convert, collect, win, resize | socket (window size, `GE`) |
| `drone.c` | last force, velocity, position, tick | select, read, integrate, write | server (two pipes) |
| `input.c` | powers of the eight keys, last force | push, release, write | server (pipe) |
| `socket.c` | a father, a handler per connection, two clients | connect, send a set, parse it, pass it on, end of game | target, obstacle, server (pipes), the other host (TCP) |
| `arplib.c`, codec | none | `data_organizer`, `parseMessage` | `socket.c` |
| `target.c`, `obstacle.c` | random sets | generate and write | socket (pipes) |
| `rule_print.c` | the line typed in | ask, check, hand to the socket | master, socket |
| `socket_server.c`, `prove.c` | | | not built (`run.sh:16`), not started |

What is hard here, and what makes each component correct:

- **Watchdog.** A signal handler interrupts a main loop at any instruction: the
  counter is not atomic, the handler logs, and it does not look at who has signalled.
  The kill loop reads one element past its arrays. Correct: an answer is credited
  to the ping it answers, a process that is gone or hangs brings the system down,
  a system in order is not killed, nothing survives the kill loop, and the master
  outlives it all.
- **Start.** Fork, exec, handler, pid and ping are steps of three processes. Correct:
  no ping before the handler, the pids are those of the children, a child that dies
  is noticed.
- **Control loop.** Two processes write to each other through bounded pipes with
  blocking writes, at rates that nothing controls, and are interrupted by pings.
  Correct: they never block each other, data is boundedly old, every key and move
  takes effect.
- **Targets.** Three ways to count a target, two systems of coordinates, a
  comparison by equality. Correct: the game is won when all targets are reached.
- **Codec.** Formatter and parser have to agree on the separators; the array the
  parser fills outlives the message. Correct: what is sent arrives.
- **Keypad.** Powers with a limit, a force sent only on change. Correct: the server
  has the current force, opposite keys cancel.
- **Socket processes.** Nobody looks at how much a read has returned, a client
  connects once, the end of the game reaches several processes in different ways, and the
  watchdog knows none of the handlers and clients. Correct: an answer belongs to what was
  sent, sets arrive in order, the game begins, its end is heard, no handler is left
  with the socket that listens.
- **Rule window.** A line is checked in one process and parsed again in another.
  Correct: what is accepted leads to the other host.
- **Dynamics.** Forces with truncation, edges tested by equality, a first round
  before there are obstacles. Correct: the drone stays inside and stops without keys.

`PROJECT.json` lists the hazards one by one with the lines where they bite, and the
properties that cover them.

## Modules

| Module | Of | Kind |
| --- | --- | --- |
| `Supervisor` | what the watchdog promises | abstract specification |
| `Watchdog` | `wd.c`, SIGUSR1 handlers, the wait of `master.c` | component, implements `Supervisor` |
| `Startup` | `master.c`, `spawn`, `recive_correct_pid`, first steps of each child | component |
| `ControlLoop` | `server.c` and `drone.c` main loops, their pipes | two components, composed |
| `Victory` | the targets in `server.c` | component |
| `MCVictory` | points and cells for TLC | instance of `Victory` |
| `Keypad` | `manage_input` and the loop of `input.c` | component |
| `Codec` | `data_organizer`, `parseMessage`, client and handler around them | algorithm and component |
| `RuleWindow` | `rule_print.c`, `string_parser_sock` | component |
| `SocketLink` | father, handlers and clients of `socket.c`, the generators and the sockets of `server.c` around them | several components, composed with `RuleWindow` (EXTENDS) |
| `Dynamics` | the force of `server.c`, the integration of `drone.c` | component |
| `*Proofs` | theorems about the module of that name | proofs |

A definition called like a variant of another one (`WdNextNoWrap`,
`DroneReadAlwaysMoves`, ...) stands before it and is a plausible mistake; it takes
no part in the specification and is used only to see that a property would notice it.

### Watchdog

One value of `pc` per access to shared state in `main` of `wd.c`. `counter++` is
three instructions without optimisation, so it is `WdLoad` and `WdStore` with the
register in `reg`; `WdHandler` may run between any two steps, once SIGUSR2 is pending
(`usr2`: ordinary signals do not queue). `usr1` holds the processes with SIGUSR1
pending. `Answer` is the handler of all monitored processes. It logs, and
`localtime()` takes a lock of the C library, so a handler that has interrupted
a log call may hang: `stuck` (`Loggers` says which processes log in their main
code, `WdHandlerHangs` is the same for the watchdog). `Konsoles` are the processes
`master` starts inside a `konsole`, for which the watchdog has two pids.
The kill loop has an index too many (`wd.c:126`); `OobPids` is what the memory there
may hold: 0, which `kill` takes as the process group of the caller, or a pid that
belongs to nobody. A pid that belongs to a stranger looks like "nobody" from inside.
`heard` and `lost` are history.

`Supervisor` speaks of members that serve together and go down together. The mapping
takes a process as present while it, or its konsole, is there, and the verdict from
`pc`; `hung` is the watchdog waiting for itself, which the code can do.

### Startup

`Fork`, `ReceivePid` are the steps of the master; `Arm`, `TellPid` those of every child;
`ForkClient`, `TakeSize` and `SendSize` the first steps of socket and server after that.
The important detail is who holds the write end of a pid pipe (`Unheld`): all pipes are
created first (`master.c:49-165`), so every child that was started earlier has them
too, and the socket's client with it. A read of the master therefore ends without
a pid only if the child *and everything before it* is gone; otherwise it blocks. `AnswerAndExit` is the one read in the start that is not
repeated after a signal (`socket.c:237`). Of the watchdog only the ping and the
verdict are here.

### ControlLoop

`SrvRound` is `select`, the reads it allows and the computation; then come two writes
of the force (`server.c:454` and `457`), and `SrvScreen`. The writes
are separate actions because each may block. `DronePoll`, `DroneRead`, `DroneWrite`
are the drone's; `tick` is `speed_index % FFAST`. A force is the number of the key
it comes from, a position the number of moves made. `ReadObstacleOrInput` keeps
the effect of the inner loop that reuses the index of the outer one (`server.c:331`):
a round that reads obstacles does not read the input.

### Victory

Fractions are points over `Den`, so that the conversion `(int)((p - 0.5) * size)`
and, after a resize, `(int)(p * size)` are exact integer operations, truncation
towards zero included. `Draw(d)` is a round that redraws with the drone in cell `d`;
the check of the window size at the end of a round is part of it. `reached` is history.

### Keypad

Forces are in half steps. `Push` and `Release` are `manage_input` with the loop
around it; `WriteChange` is the comparison in that loop (`input.c:156`), which writes the
force and remembers it in `old` if either axis differs from `old`. `sent` is what the server has been
given; it is `old` only because every write is remembered whole. `pushes` is history.

### Codec

A message is a sequence of tokens: header, rows, bars. `DataOrganizer` and
`ParseMessage` are the two functions as operators; `Handle` is a round of the handler.
`divided` in a row counts the divisions by the window size not matched by the
multiplication of the client.

### RuleWindow

A line is how many words it has, what the first names and which number the second
is. `InputValidation` is the check, `Destination` what the socket process makes of
a line that has passed it. `Ask` is one line; the loop ends with one that is accepted.

### SocketLink

One direction between two hosts: the father, two handlers and the game of this one,
the rule window, two clients and two generators of the other. Every host plays
both parts, and the directions share nothing but the user. `father`, `handler` and
`client` are the program counters, `toH` and `toC` what is under way in either direction
of a connection, `out` the pipes to the game.

A read from a socket takes a whole message or part of it (`Arrivals`). Nobody checks
(`socket.c:107`, `:420`, `:500`). `Cuts` says where a short read may end: behind the text, and
what is left are zeros (`Rest`), which are taken for a message; or inside it, and what is left is the end of a text (`Scrap`). What
is left is read alone or with the beginning of the next message, of which nothing
is seen but what the text before the first zero has. A text without a bar (`Blank`) ends the handler or, in its
first round, may pass anything on (`PassBlank`); one that has bars but does not begin with an id (`Junk`)
is not passed on (`PassNothing`); one that begins like a set and ends early (`part`) is passed on with
rows of earlier sets in it, which is the `NoSet` in `out`. `torn` is history: the connections
whose handler has had a short read.
A connection is open on this host as long as one process has it (`Held`): handlers
inherit the connections accepted before theirs and, since the `close` at
`socket.c:289` is commented out, the socket that listens. Once nobody has
it, reads return the end of the file, which is no error either; writes succeed until
the reset has come (`Break`).
`CondemnHere` and `CondemnThere` are the kill loop of either watchdog, which knows
the father and the generators but no handler and no client (`wd.c:129`). The rule window of this host
is not on its list either, and has inherited the read ends of the pipes to the game (`master.c:193`):
as long as it is open (`game = "held"`) a handler can go on writing, until the pipe is full; after `CloseWindow`
(`"killed"`) the next write is a SIGPIPE (`PassToNobody`).
`SendStale` is a client whose generator is gone: `read` returns 0 and the set in memory
is multiplied and sent once more.

### Dynamics

One axis. `TotalForce` is what `server.c:369-442` computes, `Move` one step of
`drone.c`. Forces and velocities are in tenths and positions in hundredths, rounded
towards zero, where the program has doubles; cells are the `int` conversions
of the program. The position the force is computed from is the one after the
move before, as for a drone that keeps up with the server; how far another one
can fall behind is `DisplayLag` of `ControlLoop`. Of the obstacles only those that are within reach on
the other axis count, and those that count share one cell. The other axis differs in the force
of the edge, so `axis` is a choice in `Init`. `fast` is history: the drone has been faster
than `SafeSpeed` since it was last off the edges.

## Runs

Pass runs first. `socket` takes about three minutes, `dynamics` under one, the
others a few seconds.

| Run | Instance | Shows |
| --- | --- | --- |
| `watchdog` | 3 processes: konsole and logs, konsole only, logs only; both kinds of overrun | `AliveMeansAnswered`: no answer is credited to another process or ping. `VerdictExplained`: the only ways to be condemned. `KillIsComplete`, `MasterReturnsLast`: shutdown leaves nothing, overrun or not. `DeathIsNoticed`, `ShutdownCompletes`: liveness. `ImplementsSupervisor`: refinement with fairness. |
| `startup` | all 7 children, each may die at any time | `PingFindsHandler`, `LostPidMeansDead`; `StartsOrStalls`: a dead child is the only thing that holds up the start; `SizeArrives`. |
| `control_loop` | pipes of 6 and 3, `FFAST` 3 | `InFlight`, `DroneNeverBlocks`, `DisplayLag`; `LastKeyApplied` and `MovesAreShown`: every key reaches the drone, every move the map. |
| `victory` | 3 targets, 4 points, two window sizes, two resizes | `CountedOncePerLayout`, `OvershootIsFinal`; `PlainGameIsFair`: without targets in the lower left quarter and without resizes, won means all reached and all reached means won. |
| `keypad` | limit 2, 3 pushes of each key | `SentIsCurrent`: the server has the current force although most keys are not followed by a write. `OppositesCancel`. |
| `socket` | 2 set numbers, pipes of 1, one fault: a short read or a game condemned at either end | `AnswersInStep`: without short reads a client finds the answer to what it has sent, or `GE`. `SetsInOrder`: no set is lost or doubled between others by a handler that has read whole messages. `GameBegins`, `EndIsHeard`: liveness, with the exceptions named. `EndFreesPort`, `OnlyIdleRemain`, `OnlyIdleSurvive`: what is left when a game has ended or been condemned. |
| `dynamics` | 6 cells, either axis, force 10, all obstacles | `OnlyFastDronesLeave`: the edges hold every drone that comes no faster than `SafeSpeed`. `StopsOrBounces`: without keys it comes to rest, unless an edge keeps throwing it back. |
| `codec` | 3 rows, 4 positions, 2 sets | `ShiftedByOne`, `LastRowIsJunk`: exactly what the game gets instead of the set. |

The violation runs show where the program does not do what its documents or comments
say; each has one property, whose comment quotes the text.

| Run | The text | What happens |
| --- | --- | --- |
| `wd_condemns_silent` | README.md:180 | An answer between load and store of `counter++` is lost; all is killed. |
| `server_pinged` | server.c:275 | The second write of the force is not repeated after a ping; the server exits. |
| `victory_overshoot` | server.c:568 | A target of the lower left quarter counts twice; all reached, no victory. |
| `codec_arrives` | socket.c:125 | No bar before the first row: it is lost, and the last one is junk. `log/logfile_sock.txt:43` shows it. |

Divergences noticed while modelling that have no run of their own, because
a reader sees them in the action named:

Start and watchdog:

- the watchdog may hang in its own handler on the lock of `localtime`, and then kills
  nobody (`WdHandlerHangs`, `wd.c:26`), where README.md:180 says that it kills all;
- a child that dies before it has told its pid blocks the master, and no watchdog is
  there to notice (`ReceivePid`, `arplib.c:253`); the end of `StartsOrStalls`;
- at the end of a pid pipe the pid stays uninitialised (`ReceivePid`, `arplib.c:253`);
- a ping during the read of the window size ends the socket process
  (`AnswerAndExit`, `socket.c:237`);
- the extra round of the kill loop may kill the master before it has waited
  (`KillGroup`, `wd.c:126`).

Game:

- a target in the lower left quarter counts as reached on arrival, so the game can
  be won too early (`Receive`, `server.c:246`), the counterpart of `victory_overshoot`;
- the drone reads after a `select` that has timed out, and blocks (`DronePoll`, `drone.c:143`);
- key `D` takes back all steps and not one (`Release`; README.md:55), and beyond the
  limit pushes have no effect (`Push`; README.md:192);
- before the first set has come all 20 obstacles are zero, which is where the drone
  starts: they push it with 120 on both axes (`Init` of `Dynamics`), where the comment
  at `server.c:369` says that "for the first iteration the drone don't have repulsive force";
- `obstacle.c:84` fills about half of the rows; the others stay zero and are obstacles
  in the lower left corner (`Sets`);
- next to an obstacle the force is 6 (`server.c:390`) and not K as README.md says;
- the generators send values from 0 to 1 (`target.c:73`, `obstacle.c:86`), not from -0.5 to
  0.5 as README.md says; the server does the shift;
- a drone that is fast enough is beyond the edge before anybody looks and nothing pushes it
  back (`OnlyFastDronesLeave`), and one between two edges or an edge and an obstacle may bounce
  for ever, where README.md:191 says that it "will stop as an effect of the drag" (`StopsOrBounces`).

Connections:

- the retries of `bind` on the next port (`socket.c:208`) and of `connect` (`socket.c:384`)
  never happen, as `error_sock` exits; so a client that comes too early is refused for good
  (`Connect`), its game waits for targets for ever, and only port 50000 is ever served;
- `inet_pton` returns 0 for what is not an address, and the check is for less (`rule_print.c:146`): any
  word is accepted (`InputValidation`); so is `singleplayer`, which leads nowhere
  (`Destination`); a line of blanks ends the rule window (`Crashes`, `rule_print.c:114`);
- a client for targets that has no set left waits for its generator and never reads
  `GE` (`OnlyIdleRemain`); a `GE` that comes in the handshake is taken for the size of the window
  (`ReadSize`);
- a read of a handler that ends inside a text (`socket.c:107`) loses a set in the middle: the beginning is
  passed on with rows of earlier sets, the end and the next set have no id and are
  dropped, and the one after them is passed on whole (`PassOn`, `PassNothing`);
- the handlers of a condemned game live on and hold port 50000, and the next
  game cannot bind it (`OnlyIdleSurvive`); while the rule window is open (the user has not
  typed an address yet) they do not even get a SIGPIPE, but fill the pipe and wait for ever (`CloseWindow`).

### Bounds, and why they are enough

- `NumPs = 3` (6 in `config.h`): a ping concerns the process pinged, the one pinged
  before it, whose answer must not be taken for its own, and any other one; the three have the three combinations of
  konsole and logging that occur. The order of the array is the only other
  thing that matters, and the theorems are for any number.
- `NumKids = 7` is the real number.
- `ForceCap = 6`, `PosCap = 3`, `FFAST = 3` (4096, 4096 and 50 with Linux pipes and
  `config.h`): `FFAST * PosCap` is one more than `ForceCap + 2`, the tightest pipes the
  assumption admits. `MaxKeys = 2`, `MaxObst = 1`: a key overtaken by obstacles and by
  another key. `MaxMoves = 4`: more than `PosCap`, so the pipe could overflow.
- `MaxResizes = 2`: after one resize the cells are measured from the edge, after two
  they move again; three targets allow one early, one reached and one left.
- `LIMIT = 2`, `MaxPushes = 3`: one push below, at and beyond the limit.
- `SetNums = 2`: a set is told from the one before and the one after by its number
  modulo 2, as client and handler are at most one message apart. `OutCap = 1` makes the handler
  block. `MaxFaults = 1`: one message read in two pieces puts a connection out of step, and what is left
  of it may be read with any part of the next message, which leaves a rest again, so that one fault lasts
  as long as the connection does; what two condemned games do to each other is not explored. `TargetSets = 2` is the
  real number.
- `Size = 6`, `Powers = {100}`, `ObstNum = 20` (the real one), `MaxKeys = 2`, `MaxSets = 1`: a push and a release, and a set
  of obstacles anywhere in between; in six cells the drone comes to either edge with and
  without speed and every cell is within reach of some obstacle. Smaller windows
  leave no room to accelerate. `Beyond = 3`: nothing but the input and an obstacle acts on a drone
  that has left, and it is not followed farther.
- `Lenght = 3`, `MaxSets = 2`: first, middle and last row; a second set over the first.

`CHECK_DEADLOCK FALSE` is used where the system does stop: the system is killed, the
start stalls, the game is won, the last set is handled.

### Fairness

Weak fairness of a process is that the kernel schedules it when it can run; of a
handler, that a pending signal is delivered. The steps of main in `wd.c`, its handler,
the wait of the master, each child's steps of the start, the loops of server and
drone have it. Dying, answering (in `Watchdog`), pressing keys, sending obstacles,
closing konsoles, being pinged have none: nothing makes them happen. In `Startup`
handlers do run, as signals are delivered. `Supervisor` has fairness of its two
decisions; the watchdog's fairness implies it, as TLC checks.

In `SocketLink` the father, each handler, each client and the reads of the game are fair.
`Break(c)` is weakly fair of its own: a client that waits on a connection nobody has open, or goes on with it, is
answered by a reset, which makes a call fail. The user, `TellEnd`, short reads and the
watchdogs are not fair: users may stay away and games go on. In `Dynamics` only `Move` is fair, as
the server sends forces in every round.

## Proofs

All theorems hold for every value of the constants that satisfies the named
assumptions; TLC checks the assumptions on the instances.

- **`WatchdogProofs`** (`NumPs > 0`, any `Konsoles`, `Loggers`, non-empty `OobPids`).
  The invariant is `TypeOK /\ IndInv`, the two together: the range of the counter needs
  the protocol and the protocol needs the types. `IndInv` is `PingInv`, which says
  that only the process pinged last may owe an answer, that pending SIGUSR1, pending SIGUSR2
  and a handled answer exclude each other, and what `counter` and `reg` are in terms
  of `heard` and `lost`; and `KillInv`, which says how far the kill loop has come. `AliveMeansAnswered` is not
  inductive: a late answer is harmless only because the watchdog, once it has gone on
  without one, pings nobody any more. From it follow `TypeCorrect`, `AliveMeansAnsweredAlways`,
  `VerdictExplainedAlways`, `KillIsCompleteAlways`, `MasterReturnsLastAlways`.
  `WatchdogImplementsSupervisor` shows that initial states map to initial states and
  every step to a step of `Supervisor` or a stutter; it needs `KillInv` for the step
  that ends the kill loop.
- **`StartupProofs`** (at least three children, any of which may fail).
  The invariant is types, `Handshake` and `LostPidMeansDead`. `Handshake` ties the master's
  place to the states of the children and puts a handler behind every pid in
  a pipe or an array; a lost pid needs that dead children stay dead (`DeadStayDead`).
- **`ControlLoopProofs`** (`FFAST >= 2`, `FFAST * PosCap > ForceCap + 2`).
  `TypeCorrect` first. Then the budget: weigh a position as `FFAST` forces; the server
  adds two forces at most per round and takes out a position whenever there is one,
  the drone makes a position out of `FFAST` forces. Then
  `FFAST * Len(positions) + Len(forces) + Taken + Owed` never exceeds
  `ForceCap + FFAST + 2`. `InFlight` adds that the positions in the pipe are exactly the
  moves the server has not seen. `DroneNeverBlocks` and `DisplayLag` (82 moves with the
  real constants) follow. `KeyOrder` says that keys and forces are under way in the order of the keys
  pressed with no key missing. From it and from `InFlight` come `KeysInOrder` and
  `PositionsInOrder`: the safety part of `LastKeyApplied` and `MovesAreShown`. Nothing
  is skipped or taken back on the way; that it arrives in the end is left to TLC.
- **`KeypadProofs`** (any limit, any number of pushes). Powers are pushes cut off at `LIMIT`,
  so equal pushes give equal powers and the sums cancel. That the server has the current force is
  inductive only together with `OldIsSent`: what the program compares a new force with is what it has written
  last. Then a key without a write leaves the force as it is (`WriteOrSame`).
- **`VictoryProofs`** (any finite non-empty set of targets, any windows below 2000 cells,
  which keeps every target away from the cell that stands for "collected").
  The counter is a number and the properties speak of sets, so the invariant ties the two
  together: the counter is bounded by the targets taken off the map in this layout, and equals the number of
  targets reached as long as the window keeps its size. Then a target counts at most once per
  layout, the plain game is won exactly when all are reached, and a count that is too high stays so.
- **`SocketLinkProofs`** (at least two set numbers, any capacity, any number of faults).
  The invariant is types, `FatherInv` and `LockStep`. `FatherInv` says which handlers the father
  has started and killed; it gives `EndFreesPort`, which is about the handlers that have the
  listening socket, and not about the time the kernel itself keeps a port (`socket.c:191-208` sets no `SO_REUSEADDR`). `AnswersInStep` speaks of the head of one queue and
  is far from inductive: `LockStep` lists for each pair of states of a client and its
  living handler what is under way in both directions, and for a handler that is gone what it
  may have left (`Leftover`). `SetsInOrder` is about every handler that has read only whole messages,
  whatever has happened to its client and on the other connection, where `LockStep` may be
  lost. Its invariant is `OrderInv`, which adds `Order(c)` for every connection not in `torn`: what a handler has passed on, what it
  holds and the sets on their way to it are successive numbers that end with the last set of the
  client. A handler that has read a message in parts may lose the set after it, and the theorem does not speak of it.
  Only when the generators are gone (`feed = 0`) may a number be repeated.
- **`DynamicsProofs`** (windows of two cells or more, any powers, any obstacles, both axes).
  That the drone is inside is not inductive: a drone in the cell of the edge has to be turned round in time.
  On a column the push of 60 does so at once. On a row the push of 30 takes two moves, so
  `RowHolds` says how far into the cell the drone can be for its speed. Keys and obstacles are
  irrelevant while it is there, as the force of the edge replaces theirs. `SpeedLimit` bounds the speed
  of every drone by the power of the keys and the number of obstacles: the drag of a tenth of the velocity
  outweighs any bounded force. `CoastingSlowsDown` is the safety part of `StopsOrBounces`:
  a drone that no key pushes gets slower with every move until it stands, unless an edge
  or an obstacle in its cell pushes it, the only two forces that do not depend on the keys.
- **`CodecProofs`** (sets of any length, any positions, any number of sets). The invariant
  says that a message is the formatted set, that the array holds the set handled
  last moved up by one place, and that its last row is junk that was divided once per set. It rests on
  where the parser finds the bars: the n-th one at token `2 * n + 1`. The places are a recursive
  function, and the proof takes the least `n` for which the place would be another (`LeastElement`),
  as the induction theorems of the library cannot be used.
  `NeverWhole` makes the finding of `codec_arrives` general: no set, of whatever length, arrives
  as it was sent.

Every invariant the passing runs check is a theorem, and so are the action properties
`OvershootIsFinal` and `SetsInOrder`.

Only model-checked, because they rest on fairness, which the prover does not handle:
`DeathIsNoticed`, `ShutdownCompletes` and the fairness half of `ImplementsSupervisor`;
`StartsOrStalls` and `SizeArrives`; `LastKeyApplied` and `MovesAreShown`; `GameBegins`,
`EndIsHeard`, `OnlyIdleRemain` and `OnlyIdleSurvive`; `StopsOrBounces`.

## Not modelled

Drawing, wording and layout; log files, but for the lock; `socket_server.c` and
`prove.c`, which are not built; the resize of the window in `Dynamics`
(`server.c:541-545`), which moves the edges and may leave the drone beyond one (in `Victory` it is there);
how long the kernel keeps a port after the last process has closed it; `string_parser_master`, which nobody calls; closing of
descriptors, where no property sees the difference. Rounding of doubles beyond hundredths. What the
doubles of a message lose in `%.3f`. Both axes at once, and obstacles in more than one cell:
the state space of `Dynamics` is per axis, and the theorem about the edges does
not depend on the obstacles.

## Plan

Done: `Watchdog` with `Supervisor`, `Startup`, `ControlLoop`, `Keypad`, `Victory`, `SocketLink`
with `RuleWindow`, `Dynamics` and `Codec`, each but `Supervisor` and `RuleWindow` with its proofs. What would add most next:

1. A composition of two hosts, each with its `SocketLink` in both directions: the
   end of one game while the other goes on.
2. `Dynamics` on both axes with several obstacles, on a grid coarse enough for TLC.
