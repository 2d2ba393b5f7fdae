----------------------------- MODULE SocketLink ------------------------------
(***************************************************************************)
(* socket.c from its start on: how the obstacles and targets of one host   *)
(* reach the game of the other.  This host has the father, who listens and *)
(* forks a handler for each connection, and the game; the other one has    *)
(* the rule window, the two clients and their generators.  Each host plays *)
(* both parts; the two directions share nothing but the user.              *)
(*                                                                         *)
(* A client sends a set and waits for the echo; the handler echoes what it *)
(* has read before it parses it and passes it on to the game.  When the    *)
(* game is won the father, if he has both connections, kills the handlers  *)
(* and writes GE to the clients, who look at it only when they wait for an *)
(* echo.  Nobody checks how much a read has returned: part of a message,   *)
(* the end of one with the beginning of the next, or nothing at the end of *)
(* the file, is taken for a message.                                       *)
(*                                                                         *)
(* A connection lives as long as a process of this host has it open: the   *)
(* father, its handler, and the handlers forked after it, which inherit it *)
(* with the socket that listens.                                           *)
(*                                                                         *)
(* The rule window of this host is here only for the read ends of the      *)
(* pipes to the game, which it has inherited: as long as it is open, the   *)
(* handlers of a game that was condemned can write without a SIGPIPE.      *)
(*                                                                         *)
(* Data: a set is its number modulo SetNums.  The text of a message, an    *)
(* id, the number of rows and the rows with bars between them, is followed *)
(* by the zeros that fill the 1024 bytes.  What a short read leaves before *)
(* the next message is told apart by whether it has a bar.                 *)
(***************************************************************************)
EXTENDS RuleWindow, Sequences

CONSTANTS
  SetNums,   \* set numbers in use
  OutCap,    \* sets the pipe from a handler to the game can hold
  MaxFaults  \* bound: whole messages read in parts and games condemned

ASSUME SetNumsAssumption == SetNums \in Nat /\ SetNums >= 2
ASSUME CapAssumption     == OutCap \in Nat \ {0}
ASSUME BoundAssumption   == MaxFaults \in Nat

OI == "OI"
TI == "TI"
Clients == {OI, TI}
SetNum  == 0 .. SetNums - 1
NoSet   == SetNums
Succ(n) == IF n >= SetNums - 1 THEN 0 ELSE n + 1

\* target.c writes TARGET_NUMBER rows at once, the client takes
\* MAX_TARG_ARR_SIZE at a time.
TargetSets == 2

VARIABLES
  father,   \* "down", "accept", "wait", "kill", "write", "ended"
            \* or "killed" by the watchdog
  idx,      \* of the loops that kill the handlers and write GE
  accepted, \* the connections, in the order they were accepted
  handler,  \* handler[c]: "none", "id", "size", "ack", "read", "pass" or "gone"
  cur,      \* cur[c]: what the handler has read
  passed,   \* passed[c]: number of the set it has passed on last
  game,     \* "targets", "play", "over"; when it is condemned "held" as
            \* long as the rule window is open, and "killed" after that
  ge,       \* the game's message to the father: 0 or 1
  out,      \* out[c]: the pipe from the handler to the game
  client,   \* client[c]: "new", "greet", "size", "select", "echo",
            \* "ended" by GE, "refused" or "gone" otherwise
  heard,    \* the clients whose buffer_rec holds GE
  sent,     \* sent[c]: number of the set it has sent last
  targets,  \* sets of targets the client has not taken yet
  feed,     \* 1, or 0 once the generators have been killed
  toH, toC, \* the messages under way to the handler and to the client
  shorts,   \* history: short reads so far
  torn      \* history: the connections on which the handler had one

hereVars  == <<father, idx, accepted, handler, cur, passed, game, ge, out>>
thereVars == <<dest, client, heard, sent, targets, feed>>
netVars   == <<toH, toC, shorts, torn>>
vars      == <<hereVars, thereVars, netVars>>

Message(kind, n) == [kind |-> kind, n |-> n]
Plain(kind) == Message(kind, NoSet)
Blank == Plain("blank")   \* 1024 zeros, or what a read of zeros returns
Rest  == Plain("rest")    \* what a short read has left: no bar in it
Scrap == Plain("scrap")   \* ... or at least one bar
Junk  == Plain("junk")    \* a text with bars that does not begin with an id
GE    == Plain("GE")

FatherAlive    == father \notin {"down", "ended", "killed"}
HandlerAlive(c) == handler[c] \notin {"none", "gone"}
ClientGone(c)  == client[c] \in {"ended", "gone"}
Connected(c)   == client[c] \notin {"new", "refused"}
IsAccepted(c)  == \E p \in DOMAIN accepted : accepted[p] = c

\* The handler of d has the connection of c: its own, one accepted before,
\* and through the listening socket one that is not accepted yet.
Inherits(d, c) ==
  \/ d = c
  \/ ~ IsAccepted(c)
  \/ \E p, q \in DOMAIN accepted : p < q /\ accepted[p] = c /\ accepted[q] = d

Condemned  == game \in {"held", "killed"}
FaultsLeft == shorts + (1 - feed) + (IF Condemned THEN 1 ELSE 0) < MaxFaults

Held(c)   == FatherAlive \/ \E d \in Clients : HandlerAlive(d) /\ Inherits(d, c)
Listening == FatherAlive \/ \E d \in Clients : HandlerAlive(d)

Init ==
  /\ dest = "none"
  /\ father = "down" /\ idx = 1 /\ accepted = <<>>
  /\ handler = [c \in Clients |-> "none"]
  /\ cur = [c \in Clients |-> Blank]
  /\ passed = [c \in Clients |-> NoSet]
  /\ game = "targets" /\ ge = 0
  /\ out = [c \in Clients |-> <<>>]
  /\ client = [c \in Clients |-> "new"]
  /\ heard = {}
  /\ sent = [c \in Clients |-> NoSet]
  /\ targets = TargetSets /\ feed = 1
  /\ toH = [c \in Clients |-> <<>>] /\ toC = [c \in Clients |-> <<>>]
  /\ shorts = 0 /\ torn = {}

-----------------------------------------------------------------------------
(* Reads from a socket.                                                    *)

Remains == {Rest, Scrap}

\* What a read finds that begins where m does and goes on at least as far.
Found(m) == CASE m = Rest  -> Blank
              [] m = Scrap -> Junk
              [] OTHER     -> m

\* A read that ends within m: what it finds, and what it leaves.  It may end
\* behind the text or in it; in a set, before or behind the first bar and
\* the last.  The 8 bytes of an id come at once.
Cuts(m) ==
  LET into(found, rest) == [found |-> found, rest |-> rest]
      part == Message("part", m.n)
  IN  CASE m.kind = "set" -> {into(m, Rest), into(part, Rest),
                              into(part, Scrap), into(Blank, Scrap)}
        [] m = Scrap      -> {into(Junk, Rest), into(Junk, Scrap), into(Blank, Scrap)}
        [] m = GE         -> {into(GE, Rest), into(Blank, Rest)}
        [] m.kind = "id"  -> {}
        [] OTHER          -> {into(Found(m), Rest)}

\* What a read may return, and what it leaves: the first message; part of
\* it; or what was left of one with part of the next, which nobody will find
\* there, as a text ends with the first zero.
Arrivals(queue) ==
  LET first == Head(queue)
      whole == {[msg |-> Found(first), left |-> Tail(queue), short |-> 0]}
      short == {[msg |-> x.found, left |-> <<x.rest>> \o Tail(queue), short |-> 1]
                  : x \in Cuts(first)}
      mixed == {[msg |-> Found(first), left |-> <<x.rest>> \o SubSeq(queue, 3, Len(queue)),
                 short |-> 0] : x \in Cuts(queue[2])}
  IN  IF queue = <<>> THEN {} ELSE
      whole \cup (IF FaultsLeft THEN short ELSE {})
            \cup (IF first \in Remains /\ Len(queue) > 1 THEN mixed ELSE {})

HandlerReads(c, a) ==
  /\ toH' = [toH EXCEPT ![c] = a.left]
  /\ shorts' = shorts + a.short
  /\ torn' = IF a.short = 1 THEN torn \cup {c} ELSE torn

ClientReads(c, a) ==
  /\ toC' = [toC EXCEPT ![c] = a.left]
  /\ shorts' = shorts + a.short
  /\ UNCHANGED torn

\* The client writes.  If nobody here has the connection any more that
\* succeeds until the reset has come which it causes; then there is an error.
ClientWrites(c, m) ==
  toH' = IF Held(c) /\ handler[c] # "gone" THEN [toH EXCEPT ![c] = Append(@, m)] ELSE toH

\* The handler or the father writes; what goes to a client that is gone is lost.
HereWrites(c, m) ==
  toC' = IF ClientGone(c) THEN toC ELSE [toC EXCEPT ![c] = Append(@, m)]

-----------------------------------------------------------------------------
(* The handlers: serverHandlingFunction.                                   *)

\* What was on its way to a handler that is gone nobody will read.
HandlerEnds(c) ==
  /\ handler' = [handler EXCEPT ![c] = "gone"]
  /\ cur' = [cur EXCEPT ![c] = Blank]
  /\ toH' = [toH EXCEPT ![c] = <<>>]

HandlerGoes(c, from, to) ==
  /\ handler[c] = from
  /\ handler' = [handler EXCEPT ![c] = to]
  /\ UNCHANGED <<thereVars, father, idx, accepted, game, ge>>

\* read and write back: what was read is the echo, before it is looked at.
EchoId(c) ==
  /\ HandlerGoes(c, "id", "size")
  /\ \E a \in Arrivals(toH[c]) : HandlerReads(c, a) /\ HereWrites(c, Plain("echo"))
  /\ UNCHANGED <<cur, passed, out>>

SendSize(c) ==
  /\ HandlerGoes(c, "size", "ack")
  /\ HereWrites(c, Plain("size"))
  /\ UNCHANGED <<cur, passed, out, toH, shorts, torn>>

ReadAck(c) ==
  /\ HandlerGoes(c, "ack", "read")
  /\ \E a \in Arrivals(toH[c]) : HandlerReads(c, a)
  /\ UNCHANGED <<cur, passed, out, toC>>

EchoSetCleared(c) ==
  /\ HandlerGoes(c, "read", "pass")
  /\ \E a \in Arrivals(toH[c]) :
       HandlerReads(c, a) /\ HereWrites(c, Blank) /\ cur' = [cur EXCEPT ![c] = a.msg]
  /\ UNCHANGED <<passed, out>>

EchoSet(c) ==
  /\ HandlerGoes(c, "read", "pass")
  /\ \E a \in Arrivals(toH[c]) :
       HandlerReads(c, a) /\ HereWrites(c, a.msg) /\ cur' = [cur EXCEPT ![c] = a.msg]
  /\ UNCHANGED <<passed, out>>

PassOnNeverBlocks(c) ==
  /\ HandlerGoes(c, "pass", "read")
  /\ cur[c].kind \in {"set", "part"}
  /\ out' = [out EXCEPT ![c] = Append(@, cur[c].n)]
  /\ passed' = [passed EXCEPT ![c] = cur[c].n]
  /\ cur' = [cur EXCEPT ![c] = Blank]
  /\ UNCHANGED netVars

PassOnOrDrop(c) ==
  /\ HandlerGoes(c, "pass", "read")
  /\ cur[c].kind \in {"set", "part"}
  /\ IF Len(out[c]) < OutCap
     THEN /\ out' = [out EXCEPT ![c] = Append(@, IF cur[c].kind = "set" THEN cur[c].n ELSE NoSet)]
          /\ passed' = [passed EXCEPT ![c] = cur[c].n]
     ELSE UNCHANGED <<out, passed>>
  /\ cur' = [cur EXCEPT ![c] = Blank]
  /\ UNCHANGED netVars

\* parseMessage, and the write to the game, which blocks when the pipe is
\* full.  Part of a set is filled up with rows of those before: no set.
PassOn(c) ==
  /\ HandlerGoes(c, "pass", "read")
  /\ cur[c].kind \in {"set", "part"} /\ Len(out[c]) < OutCap
  /\ out' = [out EXCEPT ![c] = Append(@, IF cur[c].kind = "set" THEN cur[c].n ELSE NoSet)]
  /\ passed' = [passed EXCEPT ![c] = cur[c].n]
  /\ cur' = [cur EXCEPT ![c] = Blank]
  /\ UNCHANGED netVars

\* Not an id: nothing is passed on.  But the rows are divided, as many as
\* array_size says; in the first round that is uninitialised.
PassNothing(c) ==
  /\ cur[c] = Junk
  /\ \/ /\ HandlerGoes(c, "pass", "read")
        /\ cur' = [cur EXCEPT ![c] = Blank] /\ UNCHANGED toH
     \/ passed[c] = NoSet /\ handler[c] = "pass" /\ HandlerEnds(c)
  /\ UNCHANGED <<thereVars, father, idx, accepted, game, ge, passed, out, toC, shorts, torn>>

\* A message without a bar: strchr finds none, and sscanf is given NULL if
\* array_size still has its value from the round before.  In the first round
\* array_size and id are uninitialised: anything may be passed on.
PassBlank(c) ==
  /\ cur[c].kind \notin {"set", "part", "junk"}
  /\ \/ handler[c] = "pass" /\ HandlerEnds(c) /\ UNCHANGED out
     \/ /\ passed[c] = NoSet
        /\ HandlerGoes(c, "pass", "read")
        /\ \/ UNCHANGED out
           \/ Len(out[c]) < OutCap /\ out' = [out EXCEPT ![c] = Append(@, NoSet)]
        /\ cur' = [cur EXCEPT ![c] = Blank] /\ UNCHANGED toH
  /\ UNCHANGED <<thereVars, father, idx, accepted, game, ge, passed, toC, shorts, torn>>

PassToNobodyGoesOn(c) ==
  /\ game = "killed" /\ HandlerGoes(c, "pass", "read")
  /\ cur' = [cur EXCEPT ![c] = Blank]
  /\ UNCHANGED <<passed, out, netVars>>

\* SIGPIPE: the game and the rule window, who could read the pipe, are gone.
PassToNobody(c) ==
  /\ game = "killed" /\ handler[c] = "pass" /\ HandlerEnds(c)
  /\ UNCHANGED <<thereVars, father, idx, accepted, game, ge, passed, out, toC, shorts, torn>>

\* End of file or reset: the client is gone.  The handler ends in its next
\* write or parse; in the first round it may pass on what was in its array.
HangUp(c) ==
  /\ ClientGone(c)
  /\ handler[c] \in {"id", "size", "ack", "read"} /\ HandlerEnds(c)
  /\ \/ UNCHANGED out
     \/ /\ handler[c] = "read" /\ passed[c] = NoSet /\ Len(out[c]) < OutCap
        /\ out' = [out EXCEPT ![c] = Append(@, NoSet)]
  /\ UNCHANGED <<thereVars, father, idx, accepted, game, ge, passed, toC, shorts, torn>>

Handler(c) ==
  \/ EchoId(c) \/ SendSize(c) \/ ReadAck(c) \/ EchoSet(c)
  \/ PassOn(c) \/ PassNothing(c) \/ PassBlank(c) \/ PassToNobody(c)
  \/ HangUp(c)

-----------------------------------------------------------------------------
(* The clients.                                                            *)

ClientGoes(c, from, to) ==
  /\ client[c] = from
  /\ client' = [client EXCEPT ![c] = to]
  /\ UNCHANGED <<hereVars, dest, feed>>

\* connect, once: whatever goes wrong ends the client.  Then its id.
Connect(c) ==
  /\ dest \in {"peer", "nowhere"}
  /\ IF dest = "peer" /\ Listening
     THEN ClientGoes(c, "new", "greet") /\ ClientWrites(c, Plain("id"))
     ELSE ClientGoes(c, "new", "refused") /\ UNCHANGED toH
  /\ UNCHANGED <<heard, sent, targets, toC, shorts, torn>>

Hears(c, m) == heard' = IF m = GE THEN heard \cup {c} ELSE heard \ {c}

EndOfFile(c) ==
  toC[c] = <<>> /\ ~ Held(c) /\ UNCHANGED <<toC, shorts, torn>>

ReadGreet(c) ==
  /\ ClientGoes(c, "greet", "size")
  /\ \/ \E a \in Arrivals(toC[c]) : ClientReads(c, a)
     \/ EndOfFile(c)
  /\ UNCHANGED <<heard, sent, targets, toH>>

\* What comes next is taken for the size of the window, and sent back; the
\* handler does not look at that, so it is a "size" whatever it was.
ReadSize(c) ==
  /\ ClientGoes(c, "size", "select")
  /\ \/ \E a \in Arrivals(toC[c]) :
          ClientReads(c, a) /\ Hears(c, a.msg) /\ ClientWrites(c, Plain("size"))
     \/ EndOfFile(c) /\ UNCHANGED heard /\ ClientWrites(c, Plain("size"))
  /\ UNCHANGED <<sent, targets>>

\* select says that the pipe from the generator has a set: target.c writes
\* once, obstacle.c again and again until it is killed.
HasSet(c) == IF c = TI THEN targets > 0 ELSE feed = 1

SendSet(c) ==
  /\ HasSet(c)
  /\ ClientGoes(c, "select", "echo")
  /\ targets' = IF c = TI THEN targets - 1 ELSE targets
  /\ sent' = [sent EXCEPT ![c] = Succ(@)]
  /\ ClientWrites(c, Message("set", sent'[c]))
  /\ UNCHANGED <<heard, toC, shorts, torn>>

\* ... or that it has come to its end: the read returns 0, and the set in
\* memory is multiplied by the window size once more and sent again.
SendStale(c) ==
  /\ ~ HasSet(c) /\ feed = 0
  /\ ClientGoes(c, "select", "echo")
  /\ ClientWrites(c, Message("set", sent[c]))
  /\ UNCHANGED <<heard, sent, targets, toC, shorts, torn>>

\* Only an echo that is GE ends the client.  At the end of the file
\* buffer_rec keeps the echo before.
ReadEcho(c) ==
  /\ \/ \E a \in Arrivals(toC[c]) : ClientReads(c, a) /\ Hears(c, a.msg)
     \/ EndOfFile(c) /\ UNCHANGED heard
  /\ ClientGoes(c, "echo", IF c \in heard' THEN "ended" ELSE "select")
  /\ UNCHANGED <<sent, targets, toH>>

BreakOnOverflow(c) ==
  /\ ~ HasSet(c) /\ feed = 0 /\ ClientGoes(c, "select", "gone")
  /\ UNCHANGED <<heard, sent, targets, netVars>>

\* A call on the connection fails; or stale sets, whose numbers get longer
\* with every round, have outgrown the buffer.
Break(c) ==
  /\ \/ ~ Held(c) /\ \E from \in {"greet", "size", "select", "echo"} :
                              ClientGoes(c, from, "gone") /\ (from = "select" => HasSet(c) \/ feed = 0)
     \/ ~ HasSet(c) /\ feed = 0 /\ ClientGoes(c, "select", "gone")
  /\ UNCHANGED <<heard, sent, targets, netVars>>

Client(c) ==
  \/ Connect(c) \/ ReadGreet(c) \/ ReadSize(c)
  \/ SendSet(c) \/ SendStale(c) \/ ReadEcho(c) \/ Break(c)

\* The watchdog of the other host ends its game, which its clients survive.
CondemnThere ==
  /\ FaultsLeft /\ feed = 1 /\ feed' = 0
  /\ UNCHANGED <<hereVars, dest, client, heard, sent, targets, netVars>>

-----------------------------------------------------------------------------
(* The father: server() of socket.c.                                       *)

FatherGoes(from, to) ==
  /\ father = from /\ father' = to
  /\ UNCHANGED <<thereVars, passed, game, ge, out, shorts, torn>>

\* bind and listen; then the size of the window (Startup).
Listen == FatherGoes("down", "accept") /\ UNCHANGED <<idx, accepted, handler, cur, toH, toC>>

AcceptOne(c) ==
  /\ Connected(c) /\ ~ IsAccepted(c)
  /\ FatherGoes("accept", "wait")
  /\ accepted' = Append(accepted, c)
  /\ handler' = [handler EXCEPT ![c] = "id"]
  /\ UNCHANGED <<idx, cur, toH, toC>>

Accept(c) ==
  /\ Connected(c) /\ ~ IsAccepted(c)
  /\ FatherGoes("accept", IF accepted = <<>> THEN "accept" ELSE "wait")
  /\ accepted' = Append(accepted, c)
  /\ handler' = [handler EXCEPT ![c] = "id"]
  /\ UNCHANGED <<idx, cur, toH, toC>>

HearEnd ==
  /\ ge = 1 /\ FatherGoes("wait", "kill")
  /\ UNCHANGED <<idx, accepted, handler, cur, toH, toC>>

KillFirst ==
  /\ father = "kill"
  /\ HandlerEnds(accepted[idx])
  /\ idx' = 1 /\ FatherGoes("kill", "write")
  /\ UNCHANGED <<accepted, toC>>

KillHandler ==
  /\ father = "kill"
  /\ HandlerEnds(accepted[idx])
  /\ IF idx < Len(accepted) THEN idx' = idx + 1 /\ FatherGoes("kill", "kill")
                            ELSE idx' = 1 /\ FatherGoes("kill", "write")
  /\ UNCHANGED <<accepted, toC>>

\* GE to one client after the other; SIGPIPE if that client is gone.
WriteGE ==
  LET c == accepted[idx] IN
  /\ father = "write"
  /\ \/ /\ HereWrites(c, GE)
        /\ IF idx < Len(accepted) THEN idx' = idx + 1 /\ FatherGoes("write", "write")
                                  ELSE idx' = idx /\ FatherGoes("write", "ended")
     \/ ClientGone(c) /\ FatherGoes("write", "ended") /\ UNCHANGED <<idx, toC>>
  /\ UNCHANGED <<accepted, handler, cur, toH>>

Father == Listen \/ (\E c \in Clients : Accept(c)) \/ HearEnd \/ KillHandler \/ WriteGE

-----------------------------------------------------------------------------
(* The game of this host, as far as its sockets are concerned.             *)

GameGoes(from, to) ==
  /\ game = from /\ game' = to
  /\ UNCHANGED <<thereVars, netVars, idx, accepted, handler, cur, passed>>

Takes(c) == out[c] # <<>> /\ out' = [out EXCEPT ![c] = Tail(@)]

ReadTargets   == GameGoes("targets", "play") /\ Takes(TI) /\ UNCHANGED <<father, ge>>
ReadObstacles == GameGoes("play", "play") /\ Takes(OI) /\ UNCHANGED <<father, ge>>

TellNobody == GameGoes("play", "over") /\ UNCHANGED <<father, ge, out>>

\* The game is won, and the user has left the screen that says so.
TellEnd == GameGoes("play", "over") /\ ge' = 1 /\ UNCHANGED <<father, out>>

\* The watchdog of this host ends its game; the handlers are not on its
\* list, and the rule window is not either.
CondemnHere ==
  /\ FaultsLeft
  /\ \E from \in {"targets", "play", "over"} : GameGoes(from, "held")
  /\ father' = IF FatherAlive THEN "killed" ELSE father
  /\ UNCHANGED <<ge, out>>

\* The user's line is accepted, perhaps long ago, or he closes the window.
CloseWindow == GameGoes("held", "killed") /\ UNCHANGED <<father, ge, out>>

User == Ask /\ UNCHANGED <<hereVars, netVars, client, heard, sent, targets, feed>>

Next ==
  \/ User \/ Father \/ CondemnThere
  \/ \E c \in Clients : Handler(c) \/ Client(c)
  \/ ReadTargets \/ ReadObstacles \/ TellEnd \/ CondemnHere \/ CloseWindow

\* Processes run and the network delivers; the user may stay away, and no
\* watchdog has to condemn anybody.
Fairness ==
  /\ WF_vars(Father) /\ WF_vars(ReadTargets \/ ReadObstacles)
  /\ \A c \in Clients : WF_vars(Handler(c)) /\ WF_vars(Client(c)) /\ WF_vars(Break(c))

Spec == Init /\ [][Next]_vars /\ Fairness

-----------------------------------------------------------------------------
(* Properties.                                                             *)

Messages == {Plain(k) : k \in {"id", "echo", "size", "blank", "rest", "scrap", "junk", "GE"}}
            \cup {Message(k, n) : k \in {"set", "part"}, n \in SetNum \cup {NoSet}}

TypeOK ==
  /\ dest \in {"none", "peer", "nowhere", "crashed"}
  /\ father \in {"down", "accept", "wait", "kill", "write", "ended", "killed"}
  /\ idx \in 1 .. 2
  /\ accepted \in Seq(Clients) /\ Len(accepted) <= 2
  /\ handler \in [Clients -> {"none", "id", "size", "ack", "read", "pass", "gone"}]
  /\ cur \in [Clients -> Messages]
  /\ passed \in [Clients -> SetNum \cup {NoSet}]
  /\ game \in {"targets", "play", "over", "held", "killed"} /\ ge \in {0, 1}
  /\ out \in [Clients -> Seq(SetNum \cup {NoSet})] /\ \A c \in Clients : Len(out[c]) <= OutCap
  /\ client \in [Clients -> {"new", "greet", "size", "select", "echo", "ended", "gone", "refused"}]
  /\ heard \subseteq Clients
  /\ sent \in [Clients -> SetNum \cup {NoSet}]
  /\ targets \in 0 .. TargetSets /\ feed \in {0, 1}
  /\ toH \in [Clients -> Seq(Messages)] /\ toC \in [Clients -> Seq(Messages)]
  /\ shorts \in 0 .. MaxFaults /\ torn \subseteq Clients

\* The answer a client finds, when it waits for one, is the one to what it
\* has sent, or GE, for as long as no read was short: with the number of
\* bytes unchecked (socket.c:420, :500) everything depends on that.
Answer(c) == CASE client[c] = "greet" -> Plain("echo")
               [] client[c] = "size"  -> Plain("size")
               [] OTHER               -> Message("set", sent[c])

AnswersInStep ==
  \A c \in Clients :
    client[c] \in {"greet", "size", "echo"} /\ toC[c] # <<>> /\ shorts = 0
      => Head(toC[c]) \in {Answer(c), GE}

\* The game gets the sets in the order the generator made them, none left
\* out and none twice for as long as the game at the other end runs, from
\* every handler whose reads were whole: short reads of its client, and what
\* happens on the other connection, change nothing.  (A handler that reads a
\* set in parts may lose the next: it begins where the last one ends.)
SetsInOrder ==
  [][\A c \in Clients \ torn : Len(out'[c]) > Len(out[c]) /\ passed[c] # NoSet
         => \/ out'[c] = Append(out[c], Succ(passed[c]))
            \/ out'[c] = Append(out[c], passed[c]) /\ feed = 0]_vars

\* The father that has heard of the end leaves no handler behind, and with
\* that none of this host's processes has the socket that listens any more
\* (the handlers inherit it, socket.c:289).
EndFreesPort == father = "ended" => \A c \in Clients : ~ HandlerAlive(c)

\* The game begins once both clients have connected; nothing but a
\* short read can lose its targets.
GameBegins ==
  (\A c \in Clients : Connected(c)) ~> (game # "targets" \/ shorts > 0)

\* The father hears of the end, unless he is still waiting for a connection
\* that will never come, as its client was refused and does not try again.
EndIsHeard ==
  game = "over" ~> \/ father \in {"ended", "killed"}
                   \/ father = "accept" /\ \E c \in Clients : ~ Connected(c)

\* What the end leaves at the other host: the client of the obstacles is
\* gone, and the one of the targets too unless it has no set left to send.
OnlyIdleRemain ==
  father = "ended" ~>
    \A c \in Clients : ClientGone(c) \/ (c = TI /\ client[c] = "select" /\ targets = 0)

\* A game that the watchdog condemns leaves its handlers, who hold its port,
\* behind.  Each ends as soon as its client has a set for it (SIGPIPE), which
\* the client of the targets may never have; but while the rule window is
\* open it goes on until the pipe is full, and waits for ever.
OnlyIdleSurvive ==
  Condemned ~>
    \A c \in Clients : HandlerAlive(c) =>
      \/ c = TI /\ client[c] = "select" /\ targets = 0
      \/ game = "held" /\ handler[c] = "pass" /\ Len(out[c]) = OutCap
=============================================================================
