-------------------------- MODULE SocketLinkProofs ---------------------------
(***************************************************************************)
(* Proofs about SocketLink for any number of sets, any capacity of the     *)
(* pipes and any number of faults: its types, that the father who has      *)
(* heard of the end leaves no handler behind, that client and handler      *)
(* answer each other in step as long as no read is short, and that the     *)
(* game gets the sets in the order they were made from every handler whose *)
(* own reads were whole.                                                   *)
(***************************************************************************)
EXTENDS SocketLink, SequenceTheorems, TLAPS

\* How far the father is, which connections he has accepted, and which of
\* their handlers he has killed.
FatherInv ==
  /\ father = "down" => accepted = <<>> /\ \A c \in Clients : client[c] \in {"new", "refused"}
  /\ father = "accept" => Len(accepted) <= 1
  /\ father \in {"wait", "kill", "write", "ended"} => Len(accepted) = 2
  /\ father \in {"down", "accept", "wait"} => idx = 1
  /\ Len(accepted) = 2 => accepted[1] # accepted[2]
  /\ \A c \in Clients : handler[c] # "none" <=> IsAccepted(c)
  /\ father = "kill" /\ idx = 2 => handler[accepted[1]] = "gone"
  /\ father \in {"write", "ended"} => handler[accepted[1]] = "gone" /\ handler[accepted[2]] = "gone"

FatherDead == father \in {"ended", "killed"}

Echo == Plain("echo")
Size == Plain("size")
Set(c) == Message("set", sent[c])

\* Between a client and its living handler there is nothing but what the
\* protocol has under way at that place.
PairInStep(c) ==
  \/ client[c] = "greet" /\ handler[c] = "id"   /\ toH[c] = <<Plain("id")>> /\ toC[c] = <<>>
  \/ client[c] = "greet" /\ handler[c] = "size" /\ toH[c] = <<>> /\ toC[c] = <<Echo>>
  \/ client[c] = "greet" /\ handler[c] = "ack"  /\ toH[c] = <<>> /\ toC[c] = <<Echo, Size>>
  \/ client[c] = "size"  /\ handler[c] = "size" /\ toH[c] = <<>> /\ toC[c] = <<>>
  \/ client[c] = "size"  /\ handler[c] = "ack"  /\ toH[c] = <<>> /\ toC[c] = <<Size>>
  \/ client[c] = "select" /\ handler[c] = "ack" /\ toH[c] = <<Size>> /\ toC[c] = <<>>
  \/ client[c] = "select" /\ handler[c] \in {"read", "pass"} /\ toH[c] = <<>> /\ toC[c] = <<>>
  \/ client[c] = "echo" /\ handler[c] = "ack" /\ toH[c] = <<Size, Set(c)>> /\ toC[c] = <<>>
  \/ client[c] = "echo" /\ handler[c] \in {"read", "pass"} /\ toH[c] = <<Set(c)>> /\ toC[c] = <<>>
  \/ client[c] = "echo" /\ handler[c] \in {"read", "pass"} /\ toH[c] = <<>> /\ toC[c] = <<Set(c)>>

\* What a handler that is gone has left to its client: what the protocol
\* expects, then GE.
Leftover(c) ==
  \A i \in 1 .. Len(toC[c]) :
    \/ toC[c][i] = GE
    \/ i = 1 /\ client[c] = "greet" /\ toC[c][i] = Echo
    \/ i = 2 /\ client[c] = "greet" /\ toC[c][i] = Size
    \/ i = 1 /\ client[c] = "size"  /\ toC[c][i] = Size
    \/ i = 1 /\ client[c] = "echo"  /\ toC[c][i] = Set(c)

LockStep(c) ==
  /\ client[c] \in {"new", "refused"} => handler[c] = "none" /\ toH[c] = <<>> /\ toC[c] = <<>>
  /\ Connected(c) /\ ~ ClientGone(c) /\ shorts = 0 =>
       /\ handler[c] = "none" => /\ toC[c] = <<>>
                                 /\ FatherDead \/ (client[c] = "greet" /\ toH[c] = <<Plain("id")>>)
       /\ handler[c] = "gone" => Leftover(c)
       /\ HandlerAlive(c)     => PairInStep(c)

IndInv == TypeOK /\ FatherInv /\ \A c \in Clients : LockStep(c)

-----------------------------------------------------------------------------
(* Sequences and messages.                                                 *)

LEMMA Constants ==
  /\ SetNums \in Nat /\ SetNums >= 2 /\ OutCap \in Nat /\ OutCap > 0 /\ MaxFaults \in Nat
  /\ TargetSets = 2
  /\ Clients = {"OI", "TI"} /\ OI = "OI" /\ TI = "TI"
BY SetNumsAssumption, CapAssumption, BoundAssumption DEF Clients, OI, TI, TargetSets

LEMMA ShortSequences ==
  ASSUME NEW S, NEW a \in S, NEW b \in S
  PROVE  /\ Head(<<a>>) = a /\ Tail(<<a>>) = <<>>
         /\ Head(<<a, b>>) = a /\ Tail(<<a, b>>) = <<b>>
         /\ Append(<<>>, a) = <<a>> /\ Append(<<a>>, b) = <<a, b>>
         /\ <<a>> # <<>> /\ <<a, b>> # <<>>
         /\ <<a>> \in Seq(S) /\ <<a, b>> \in Seq(S)
<1>1. <<a>> \in Seq(S) /\ <<a, b>> \in Seq(S) /\ <<>> \in Seq(S) /\ <<b>> \in Seq(S)
  OBVIOUS
<1>2. Len(<<a>>) = 1 /\ Len(<<a, b>>) = 2 /\ Len(<<>>) = 0
  OBVIOUS
<1>3. <<a>> # <<>> /\ <<a, b>> # <<>>
  BY <1>2
<1>4. Head(<<a>>) = a /\ Head(<<a, b>>) = a
  OBVIOUS
<1>5. Tail(<<a>>) = <<>>
  BY <1>1, <1>2, <1>3, HeadTailProperties, SeqEqual
<1>6. Tail(<<a, b>>) = <<b>>
  BY <1>1, <1>2, <1>3, HeadTailProperties, SeqEqual
<1>7. Append(<<>>, a) = <<a>>
  BY <1>1, <1>2, AppendProperties, SeqEqual
<1>8. Append(<<a>>, b) = <<a, b>>
  <2>1. /\ Append(<<a>>, b) \in Seq(S) /\ Len(Append(<<a>>, b)) = 2
        /\ Append(<<a>>, b)[1] = <<a>>[1] /\ Append(<<a>>, b)[2] = b
    BY <1>1, <1>2, AppendProperties
  <2>2. \A i \in 1 .. 2 : Append(<<a>>, b)[i] = <<a, b>>[i]
    <3> SUFFICES ASSUME NEW i \in 1 .. 2
                 PROVE  Append(<<a>>, b)[i] = <<a, b>>[i]
      OBVIOUS
    <3>1. i = 1 \/ i = 2
      OBVIOUS
    <3> QED
      BY <2>1, <3>1
  <2> QED
    BY <1>1, <1>2, <2>1, <2>2, SeqEqual
<1> QED
  BY <1>1, <1>3, <1>4, <1>5, <1>6, <1>7, <1>8

LEMMA MessageTypes ==
  /\ \A k \in {"id", "echo", "size", "blank", "rest", "scrap", "junk", "GE"} : Plain(k) \in Messages
  /\ \A n \in SetNum \cup {NoSet} : Message("set", n) \in Messages /\ Message("part", n) \in Messages
  /\ Blank \in Messages /\ Rest \in Messages /\ Scrap \in Messages /\ Junk \in Messages /\ GE \in Messages
  /\ \A m \in Messages : m.n \in SetNum \cup {NoSet}
<1>1. \A k \in {"id", "echo", "size", "blank", "rest", "scrap", "junk", "GE"} : Plain(k) \in Messages
  BY DEF Messages
<1>2. \A n \in SetNum \cup {NoSet} : Message("set", n) \in Messages /\ Message("part", n) \in Messages
  BY DEF Messages
<1>3. \A k : Plain(k).n = NoSet
  BY DEF Plain, Message
<1>4. \A k, n : Message(k, n).n = n
  BY DEF Message
<1>5. \A m \in Messages : m.n \in SetNum \cup {NoSet}
  BY <1>3, <1>4 DEF Messages
<1> QED
  BY <1>1, <1>2, <1>5 DEF Blank, Rest, Scrap, Junk, GE

LEMMA Successor ==
  ASSUME NEW n \in SetNum \cup {NoSet}
  PROVE  Succ(n) \in SetNum
BY Constants DEF Succ, SetNum, NoSet

\* What a read finds, and the pieces it cuts a message into, are messages.
LEMMA PieceTypes ==
  ASSUME NEW m \in Messages
  PROVE  /\ Found(m) \in Messages
         /\ m \notin Remains => Found(m) = m
         /\ \A x \in Cuts(m) : x.found \in Messages /\ x.rest \in Messages
<1>1. Found(m) \in Messages
  BY MessageTypes DEF Found
<1>2. m \notin Remains => Found(m) = m
  BY DEF Found, Remains
<1>3. m.n \in SetNum \cup {NoSet}
  BY MessageTypes
<1> DEFINE part == Message("part", m.n)
<1>4. /\ part \in Messages /\ Rest \in Messages /\ Scrap \in Messages
      /\ Blank \in Messages /\ Junk \in Messages /\ GE \in Messages
  BY <1>3, MessageTypes
<1>5. ASSUME NEW x \in Cuts(m)
      PROVE  x.found \in {m, part, Blank, Junk, GE, Found(m)} /\ x.rest \in {Rest, Scrap}
  <2> DEFINE into(found, rest) == [found |-> found, rest |-> rest]
             Pieces == {into(f, l) : f \in {m, part, Blank, Junk, GE, Found(m)}, l \in {Rest, Scrap}}
  <2>1. x \in Pieces
    <3>1. CASE m.kind = "set"
      BY <1>5, <3>1 DEF Cuts
    <3>2. CASE m.kind # "set" /\ m = Scrap
      BY <1>5, <3>2 DEF Cuts
    <3>3. CASE m.kind # "set" /\ m # Scrap /\ m = GE
      BY <1>5, <3>3 DEF Cuts
    <3>4. CASE m.kind # "set" /\ m # Scrap /\ m # GE
      BY <1>5, <3>4 DEF Cuts
    <3> QED
      BY <3>1, <3>2, <3>3, <3>4
  <2> QED
    BY <2>1
<1> QED
  BY <1>1, <1>2, <1>4, <1>5

\* The three kinds of reads.
LEMMA ArrivalCases ==
  ASSUME NEW queue, NEW a \in Arrivals(queue)
  PROVE  /\ queue # <<>>
         /\ \/ a = [msg |-> Found(Head(queue)), left |-> Tail(queue), short |-> 0]
            \/ /\ FaultsLeft
               /\ \E x \in Cuts(Head(queue)) :
                    a = [msg |-> x.found, left |-> <<x.rest>> \o Tail(queue), short |-> 1]
            \/ /\ Head(queue) \in Remains /\ Len(queue) > 1
               /\ \E x \in Cuts(queue[2]) :
                    a = [msg |-> Found(Head(queue)),
                         left |-> <<x.rest>> \o SubSeq(queue, 3, Len(queue)), short |-> 0]
<1>1. queue # <<>>
  BY DEF Arrivals
<1> DEFINE first == Head(queue)
           whole == {[msg |-> Found(first), left |-> Tail(queue), short |-> 0]}
           short == {[msg |-> x.found, left |-> <<x.rest>> \o Tail(queue), short |-> 1]
                       : x \in Cuts(first)}
           mixed == {[msg |-> Found(first), left |-> <<x.rest>> \o SubSeq(queue, 3, Len(queue)),
                      short |-> 0] : x \in Cuts(queue[2])}
<1>2. a \in whole \cup (IF FaultsLeft THEN short ELSE {})
              \cup (IF first \in Remains /\ Len(queue) > 1 THEN mixed ELSE {})
  BY <1>1, Zenon DEF Arrivals
<1>3. \/ a \in whole
      \/ FaultsLeft /\ a \in short
      \/ first \in Remains /\ Len(queue) > 1 /\ a \in mixed
  <2> HIDE DEF whole, short, mixed, first
  <2> QED
    BY <1>2
<1> QED
  BY <1>1, <1>3, Zenon

\* What a read returns and leaves, and that it counts if it is short.
LEMMA ArrivalTypes ==
  ASSUME NEW queue \in Seq(Messages), NEW a \in Arrivals(queue)
  PROVE  /\ a.msg \in Messages /\ a.left \in Seq(Messages)
         /\ a.short \in {0, 1}
         /\ a.short = 1 => FaultsLeft
<1>1. queue # <<>>
  BY ArrivalCases
<1>2. Head(queue) \in Messages /\ Tail(queue) \in Seq(Messages) /\ Len(queue) \in Nat
  BY <1>1, HeadTailProperties, LenProperties
<1>3. SubSeq(queue, 3, Len(queue)) \in Seq(Messages)
  BY <1>2, SubSeqProperties, ElementOfSeq
<1>4. ASSUME NEW m \in Messages, NEW x \in Cuts(m), NEW q \in Seq(Messages)
      PROVE  x.found \in Messages /\ <<x.rest>> \o q \in Seq(Messages)
  <2>1. x.found \in Messages /\ x.rest \in Messages
    BY PieceTypes
  <2>2. <<x.rest>> \in Seq(Messages)
    BY <2>1
  <2> QED
    BY <2>1, <2>2, ConcatProperties
<1>5. CASE a = [msg |-> Found(Head(queue)), left |-> Tail(queue), short |-> 0]
  BY <1>2, <1>5, PieceTypes
<1>6. ASSUME FaultsLeft, NEW x \in Cuts(Head(queue)),
             a = [msg |-> x.found, left |-> <<x.rest>> \o Tail(queue), short |-> 1]
      PROVE  a.msg \in Messages /\ a.left \in Seq(Messages) /\ a.short = 1
  <2>1. x.found \in Messages /\ <<x.rest>> \o Tail(queue) \in Seq(Messages)
    BY <1>2, <1>4
  <2> QED
    BY <1>6, <2>1
<1>7. ASSUME Len(queue) > 1, NEW x \in Cuts(queue[2]),
             a = [msg |-> Found(Head(queue)),
                  left |-> <<x.rest>> \o SubSeq(queue, 3, Len(queue)), short |-> 0]
      PROVE  a.msg \in Messages /\ a.left \in Seq(Messages) /\ a.short = 0
  <2>1. queue[2] \in Messages
    <3>1. 2 \in 1 .. Len(queue)
      BY <1>2, <1>7
    <3> QED
      BY <3>1, ElementOfSeq
  <2>2. <<x.rest>> \o SubSeq(queue, 3, Len(queue)) \in Seq(Messages)
    BY <1>3, <1>4, <2>1
  <2>3. Found(Head(queue)) \in Messages
    BY <1>2, PieceTypes
  <2> QED
    BY <1>7, <2>2, <2>3
<1>8. \/ a = [msg |-> Found(Head(queue)), left |-> Tail(queue), short |-> 0]
      \/ FaultsLeft /\ a.msg \in Messages /\ a.left \in Seq(Messages) /\ a.short = 1
      \/ a.msg \in Messages /\ a.left \in Seq(Messages) /\ a.short = 0
  BY <1>6, <1>7, ArrivalCases, Zenon
<1> QED
  BY <1>5, <1>8

\* Of a queue that does not begin with what a read has left, a read that is
\* not short takes the first message.
LEMMA WholeArrival ==
  ASSUME NEW queue \in Seq(Messages), NEW a \in Arrivals(queue),
         Head(queue) \notin Remains, a.short = 0
  PROVE  queue # <<>> /\ a.msg = Head(queue) /\ a.left = Tail(queue)
<1>1. queue # <<>>
  BY ArrivalCases
<1>2. Head(queue) \in Messages
  BY <1>1, HeadTailProperties
<1>3. a = [msg |-> Found(Head(queue)), left |-> Tail(queue), short |-> 0]
  <2>1. ~ \E x \in Cuts(Head(queue)) :
             a = [msg |-> x.found, left |-> <<x.rest>> \o Tail(queue), short |-> 1]
    <3>1. ASSUME NEW x \in Cuts(Head(queue)), NEW q, a = [msg |-> x.found, left |-> q, short |-> 1]
          PROVE  FALSE
      BY <3>1
    <3> QED
      BY <3>1, Zenon
  <2> QED
    BY <2>1, ArrivalCases, Zenon
<1>4. Found(Head(queue)) = Head(queue)
  BY <1>2, PieceTypes
<1> QED
  BY <1>1, <1>3, <1>4

-----------------------------------------------------------------------------
(* Types.                                                                  *)

\* Reads and writes keep the queues typed.
LEMMA ReadsTyped ==
  ASSUME TypeOK, NEW c \in Clients
  PROVE  /\ \A a \in Arrivals(toH[c]) : HandlerReads(c, a)
              => toH' \in [Clients -> Seq(Messages)] /\ shorts' \in 0 .. MaxFaults /\ torn' \subseteq Clients /\ a.msg \in Messages
         /\ \A a \in Arrivals(toC[c]) : ClientReads(c, a)
              => toC' \in [Clients -> Seq(Messages)] /\ shorts' \in 0 .. MaxFaults /\ torn' \subseteq Clients /\ a.msg \in Messages
<1>1. /\ toH \in [Clients -> Seq(Messages)] /\ toC \in [Clients -> Seq(Messages)]
      /\ shorts \in 0 .. MaxFaults /\ torn \subseteq Clients /\ feed \in {0, 1}
  BY DEF TypeOK
<1>2. FaultsLeft => shorts < MaxFaults
  BY <1>1, Constants DEF FaultsLeft
<1>3. ASSUME NEW a \in Arrivals(toH[c]), HandlerReads(c, a)
      PROVE  toH' \in [Clients -> Seq(Messages)] /\ shorts' \in 0 .. MaxFaults /\ torn' \subseteq Clients /\ a.msg \in Messages
  <2>1. /\ a.msg \in Messages /\ a.left \in Seq(Messages)
        /\ a.short \in {0, 1} /\ (a.short = 1 => FaultsLeft)
    BY <1>1, ArrivalTypes
  <2> QED
    BY <1>1, <1>2, <1>3, <2>1, Constants DEF HandlerReads
<1>4. ASSUME NEW a \in Arrivals(toC[c]), ClientReads(c, a)
      PROVE  toC' \in [Clients -> Seq(Messages)] /\ shorts' \in 0 .. MaxFaults /\ torn' \subseteq Clients /\ a.msg \in Messages
  <2>1. /\ a.msg \in Messages /\ a.left \in Seq(Messages)
        /\ a.short \in {0, 1} /\ (a.short = 1 => FaultsLeft)
    BY <1>1, ArrivalTypes
  <2> QED
    BY <1>1, <1>2, <1>4, <2>1, Constants DEF ClientReads
<1> QED
  BY <1>3, <1>4

LEMMA WritesTyped ==
  ASSUME TypeOK, NEW c \in Clients, NEW m \in Messages
  PROVE  /\ ClientWrites(c, m) => toH' \in [Clients -> Seq(Messages)]
         /\ HereWrites(c, m) => toC' \in [Clients -> Seq(Messages)]
<1>1. toH \in [Clients -> Seq(Messages)] /\ toC \in [Clients -> Seq(Messages)]
  BY DEF TypeOK
<1>2. Append(toH[c], m) \in Seq(Messages) /\ Append(toC[c], m) \in Seq(Messages)
  BY <1>1, AppendProperties
<1> QED
  BY <1>1, <1>2 DEF ClientWrites, HereWrites

\* The same for the pipes to the game.
LEMMA OutTyped ==
  ASSUME TypeOK, NEW c \in Clients
  PROVE  /\ \A n \in SetNum \cup {NoSet} :
              /\ Append(out[c], n) \in Seq(SetNum \cup {NoSet})
              /\ Len(out[c]) < OutCap => Len(Append(out[c], n)) <= OutCap
         /\ out[c] # <<>> => /\ Tail(out[c]) \in Seq(SetNum \cup {NoSet})
                             /\ Len(Tail(out[c])) <= OutCap
<1>1. out[c] \in Seq(SetNum \cup {NoSet}) /\ Len(out[c]) <= OutCap /\ Len(out[c]) \in Nat
  BY LenProperties DEF TypeOK
<1>2. \A n \in SetNum \cup {NoSet} :
         Append(out[c], n) \in Seq(SetNum \cup {NoSet}) /\ Len(Append(out[c], n)) = Len(out[c]) + 1
  BY <1>1, AppendProperties
<1>3. out[c] # <<>> => /\ Tail(out[c]) \in Seq(SetNum \cup {NoSet})
                       /\ Len(Tail(out[c])) = Len(out[c]) - 1
  BY <1>1, HeadTailProperties
<1> QED
  BY <1>1, <1>2, <1>3, Constants

\* The state of this host, the state of the other one and the network.
HereTyped ==
  /\ father \in {"down", "accept", "wait", "kill", "write", "ended", "killed"}
  /\ idx \in 1 .. 2
  /\ accepted \in Seq(Clients) /\ Len(accepted) <= 2
  /\ handler \in [Clients -> {"none", "id", "size", "ack", "read", "pass", "gone"}]
  /\ cur \in [Clients -> Messages]
  /\ passed \in [Clients -> SetNum \cup {NoSet}]
  /\ game \in {"targets", "play", "over", "held", "killed"} /\ ge \in {0, 1}
OutOK == out \in [Clients -> Seq(SetNum \cup {NoSet})] /\ \A c \in Clients : Len(out[c]) <= OutCap
ThereTyped ==
  /\ dest \in {"none", "peer", "nowhere", "crashed"}
  /\ client \in [Clients -> {"new", "greet", "size", "select", "echo", "ended", "gone", "refused"}]
  /\ heard \subseteq Clients
  /\ sent \in [Clients -> SetNum \cup {NoSet}]
  /\ targets \in 0 .. TargetSets /\ feed \in {0, 1}
NetTyped ==
  /\ toH \in [Clients -> Seq(Messages)] /\ toC \in [Clients -> Seq(Messages)]
  /\ shorts \in 0 .. MaxFaults /\ torn \subseteq Clients

LEMMA TypeParts == TypeOK <=> HereTyped /\ OutOK /\ ThereTyped /\ NetTyped
BY DEF TypeOK, HereTyped, OutOK, ThereTyped, NetTyped

LEMMA TypePartsPrime == TypeOK' <=> HereTyped' /\ OutOK' /\ ThereTyped' /\ NetTyped'
BY DEF TypeOK, HereTyped, OutOK, ThereTyped, NetTyped

\* What a step leaves alone stays typed.
LEMMA HereFrame == HereTyped /\ UNCHANGED <<father, idx, accepted, handler, cur, passed, game, ge>> => HereTyped'
BY DEF HereTyped
LEMMA OutFrame == OutOK /\ UNCHANGED out => OutOK'
BY DEF OutOK
LEMMA ThereFrame == ThereTyped /\ UNCHANGED thereVars => ThereTyped'
BY DEF ThereTyped, thereVars
LEMMA NetFrame == NetTyped /\ UNCHANGED netVars => NetTyped'
BY DEF NetTyped, netVars

LEMMA HandlerTyped ==
  ASSUME TypeOK, NEW c \in Clients, Handler(c)
  PROVE  TypeOK'
<1>1. HereTyped /\ OutOK /\ ThereTyped /\ NetTyped
  BY TypeParts
<1>2. UNCHANGED thereVars /\ UNCHANGED <<father, idx, accepted, game, ge>>
  BY DEF Handler, EchoId, SendSize, ReadAck, EchoSet, PassOn, PassNothing, PassBlank, PassToNobody, HangUp, HandlerGoes
<1>3. ThereTyped'
  BY <1>1, <1>2, ThereFrame
<1>4. ASSUME handler' \in [Clients -> {"none", "id", "size", "ack", "read", "pass", "gone"}],
             cur' \in [Clients -> Messages], passed' \in [Clients -> SetNum \cup {NoSet}],
             OutOK', NetTyped'
      PROVE  TypeOK'
  BY <1>1, <1>2, <1>3, <1>4, TypePartsPrime DEF HereTyped
<1>5. HandlerEnds(c) => /\ handler' \in [Clients -> {"none", "id", "size", "ack", "read", "pass", "gone"}]
                        /\ cur' \in [Clients -> Messages]
                        /\ toH' \in [Clients -> Seq(Messages)]
  BY <1>1, MessageTypes, EmptySeq DEF HandlerEnds, HereTyped, NetTyped
<1>6. \A from, to \in {"none", "id", "size", "ack", "read", "pass", "gone"} : HandlerGoes(c, from, to)
        => handler' \in [Clients -> {"none", "id", "size", "ack", "read", "pass", "gone"}]
  BY <1>1 DEF HandlerGoes, HereTyped
<1>7. ASSUME NEW n \in SetNum \cup {NoSet}, Len(out[c]) < OutCap, out' = [out EXCEPT ![c] = Append(@, n)]
      PROVE  OutOK'
  <2>1. Append(out[c], n) \in Seq(SetNum \cup {NoSet}) /\ Len(Append(out[c], n)) <= OutCap
    BY <1>7, OutTyped
  <2> QED
    BY <1>1, <1>7, <2>1 DEF OutOK
<1>8. cur[c] \in Messages /\ cur[c].n \in SetNum \cup {NoSet} /\ NoSet \in SetNum \cup {NoSet}
  BY <1>1, MessageTypes DEF HereTyped
<1>9. \A m \in Messages : [cur EXCEPT ![c] = m] \in [Clients -> Messages]
  BY <1>1 DEF HereTyped
<1>10. Plain("echo") \in Messages /\ Plain("size") \in Messages /\ Blank \in Messages
  BY MessageTypes
<1>11. HereTyped /\ NetTyped
  BY <1>1
<1>12. ASSUME EchoId(c)
       PROVE  TypeOK'
  <2>1. PICK a \in Arrivals(toH[c]) : HandlerReads(c, a) /\ HereWrites(c, Plain("echo"))
    BY <1>12 DEF EchoId
  <2>2. NetTyped'
    BY <2>1, <1>10, ReadsTyped, WritesTyped DEF NetTyped
  <2>3. UNCHANGED <<cur, passed, out>> /\ HandlerGoes(c, "id", "size")
    BY <1>12 DEF EchoId
  <2> QED
    BY <1>1, <1>4, <1>6, <2>2, <2>3, OutFrame DEF HereTyped
<1>13. ASSUME SendSize(c)
       PROVE  TypeOK'
  <2>1. NetTyped'
    BY <1>11, <1>13, <1>10, WritesTyped DEF NetTyped, SendSize
  <2>2. UNCHANGED <<cur, passed, out>> /\ HandlerGoes(c, "size", "ack")
    BY <1>13 DEF SendSize
  <2> QED
    BY <1>1, <1>4, <1>6, <2>1, <2>2, OutFrame DEF HereTyped
<1>14. ASSUME ReadAck(c)
       PROVE  TypeOK'
  <2>1. PICK a \in Arrivals(toH[c]) : HandlerReads(c, a)
    BY <1>14 DEF ReadAck
  <2>2. UNCHANGED <<cur, passed, out, toC>> /\ HandlerGoes(c, "ack", "read")
    BY <1>14 DEF ReadAck
  <2>3. NetTyped'
    BY <1>11, <2>1, <2>2, ReadsTyped DEF NetTyped
  <2> QED
    BY <1>1, <1>4, <1>6, <2>2, <2>3, OutFrame DEF HereTyped
<1>15. ASSUME EchoSet(c)
       PROVE  TypeOK'
  <2>1. PICK a \in Arrivals(toH[c]) : /\ HandlerReads(c, a) /\ HereWrites(c, a.msg)
                                      /\ cur' = [cur EXCEPT ![c] = a.msg]
    BY <1>15 DEF EchoSet
  <2>2. a.msg \in Messages /\ NetTyped'
    BY <2>1, ReadsTyped, WritesTyped DEF NetTyped
  <2>3. UNCHANGED <<passed, out>> /\ HandlerGoes(c, "read", "pass")
    BY <1>15 DEF EchoSet
  <2>4. cur' \in [Clients -> Messages]
    BY <1>9, <2>1, <2>2
  <2> QED
    BY <1>1, <1>4, <1>6, <2>2, <2>3, <2>4, OutFrame DEF HereTyped
<1>16. ASSUME PassOn(c)
       PROVE  TypeOK'
  <2>1. OutOK'
    <3>1. PICK n \in SetNum \cup {NoSet} :
            Len(out[c]) < OutCap /\ out' = [out EXCEPT ![c] = Append(@, n)]
      BY <1>8, <1>16, Zenon DEF PassOn
    <3> QED
      BY <1>7, <3>1
  <2>2. HandlerGoes(c, "pass", "read") /\ UNCHANGED netVars
    BY <1>16 DEF PassOn
  <2>3. cur' \in [Clients -> Messages] /\ passed' \in [Clients -> SetNum \cup {NoSet}]
    BY <1>8, <1>9, <1>10, <1>11, <1>16 DEF PassOn, HereTyped
  <2> QED
    BY <1>1, <1>4, <1>6, <2>1, <2>2, <2>3, NetFrame
<1>20. ASSUME PassNothing(c)
       PROVE  TypeOK'
  <2>1. UNCHANGED <<passed, out, toC, shorts, torn>>
    BY <1>20 DEF PassNothing
  <2>2. CASE HandlerEnds(c)
    BY <1>1, <1>4, <1>5, <2>1, <2>2, OutFrame DEF HereTyped, NetTyped
  <2>3. CASE HandlerGoes(c, "pass", "read") /\ cur' = [cur EXCEPT ![c] = Blank] /\ UNCHANGED toH
    BY <1>1, <1>4, <1>6, <1>9, <1>10, <2>1, <2>3, OutFrame DEF HereTyped, NetTyped
  <2> QED
    BY <1>20, <2>2, <2>3 DEF PassNothing
<1>17. ASSUME PassBlank(c)
       PROVE  TypeOK'
  <2>1. UNCHANGED <<passed, toC, shorts, torn>>
    BY <1>17 DEF PassBlank
  <2>2. CASE handler[c] = "pass" /\ HandlerEnds(c) /\ UNCHANGED out
    BY <1>1, <1>4, <1>5, <2>1, <2>2, OutFrame DEF HereTyped, NetTyped
  <2>3. CASE /\ HandlerGoes(c, "pass", "read") /\ cur' = [cur EXCEPT ![c] = Blank] /\ UNCHANGED toH
             /\ \/ UNCHANGED out
                \/ Len(out[c]) < OutCap /\ out' = [out EXCEPT ![c] = Append(@, NoSet)]
    <3>1. OutOK'
      BY <1>1, <1>7, <1>8, <2>3, OutFrame
    <3>2. cur' \in [Clients -> Messages]
      BY <1>9, <1>10, <2>3
    <3> QED
      BY <1>1, <1>4, <1>6, <2>1, <2>3, <3>1, <3>2 DEF HereTyped, NetTyped
  <2> QED
    BY <1>17, <2>2, <2>3 DEF PassBlank
<1>18. ASSUME PassToNobody(c)
       PROVE  TypeOK'
  BY <1>1, <1>4, <1>5, <1>18, OutFrame DEF PassToNobody, HereTyped, NetTyped
<1>19. ASSUME HangUp(c)
       PROVE  TypeOK'
  <2>1. OutOK'
    BY <1>1, <1>7, <1>8, <1>19, OutFrame DEF HangUp
  <2> QED
    BY <1>1, <1>4, <1>5, <1>19, <2>1 DEF HangUp, HereTyped, NetTyped
<1> QED
  BY <1>12, <1>13, <1>14, <1>15, <1>16, <1>17, <1>18, <1>19, <1>20 DEF Handler

LEMMA ClientTyped ==
  ASSUME TypeOK, NEW c \in Clients, Client(c)
  PROVE  TypeOK'
<1>1. HereTyped /\ OutOK /\ ThereTyped /\ NetTyped
  BY TypeParts
<1>2. UNCHANGED <<hereVars, dest, feed>>
  BY DEF Client, Connect, ReadGreet, ReadSize, SendSet, SendStale, ReadEcho, Break, ClientGoes
<1>3. HereTyped' /\ OutOK'
  BY <1>1, <1>2, HereFrame, OutFrame DEF hereVars
<1>4. ASSUME client' \in [Clients -> {"new", "greet", "size", "select", "echo", "ended", "gone", "refused"}],
             heard' \subseteq Clients, sent' \in [Clients -> SetNum \cup {NoSet}],
             targets' \in 0 .. TargetSets, NetTyped'
      PROVE  TypeOK'
  BY <1>1, <1>2, <1>3, <1>4, TypePartsPrime DEF ThereTyped
<1>5. \A from, to \in {"new", "greet", "size", "select", "echo", "ended", "gone", "refused"} :
        ClientGoes(c, from, to)
          => client' \in [Clients -> {"new", "greet", "size", "select", "echo", "ended", "gone", "refused"}]
  BY <1>1 DEF ClientGoes, ThereTyped
<1>6. \A m : Hears(c, m) => heard' \subseteq Clients
  BY <1>1 DEF Hears, ThereTyped
<1>7. Plain("id") \in Messages /\ Plain("size") \in Messages
      /\ \A n \in SetNum \cup {NoSet} : Message("set", n) \in Messages
  BY MessageTypes
<1>8. /\ heard \subseteq Clients /\ sent \in [Clients -> SetNum \cup {NoSet}]
      /\ targets \in 0 .. TargetSets
  BY <1>1 DEF ThereTyped
<1>9. ASSUME Connect(c)
      PROVE  TypeOK'
  <2>1. UNCHANGED <<heard, sent, targets, toC, shorts, torn>>
    BY <1>9 DEF Connect
  <2>2. client' \in [Clients -> {"new", "greet", "size", "select", "echo", "ended", "gone", "refused"}]
    BY <1>5, <1>9 DEF Connect
  <2>3. toH' \in [Clients -> Seq(Messages)]
    BY <1>1, <1>7, <1>9, WritesTyped DEF Connect, NetTyped
  <2> QED
    BY <1>1, <1>4, <1>8, <2>1, <2>2, <2>3 DEF NetTyped
<1>10. ASSUME ReadGreet(c)
       PROVE  TypeOK'
  <2>1. UNCHANGED <<heard, sent, targets, toH>> /\ ClientGoes(c, "greet", "size")
    BY <1>10 DEF ReadGreet
  <2>2. toC' \in [Clients -> Seq(Messages)] /\ shorts' \in 0 .. MaxFaults /\ torn' \subseteq Clients
    BY <1>1, <1>10, ReadsTyped DEF ReadGreet, EndOfFile, NetTyped
  <2> QED
    BY <1>1, <1>4, <1>5, <1>8, <2>1, <2>2 DEF NetTyped
<1>11. ASSUME ReadSize(c)
       PROVE  TypeOK'
  <2>1. UNCHANGED <<sent, targets>> /\ ClientGoes(c, "size", "select")
    BY <1>11 DEF ReadSize
  <2>2. toC' \in [Clients -> Seq(Messages)] /\ shorts' \in 0 .. MaxFaults /\ torn' \subseteq Clients
    BY <1>1, <1>11, ReadsTyped DEF ReadSize, EndOfFile, NetTyped
  <2>3. toH' \in [Clients -> Seq(Messages)]
    BY <1>7, <1>11, WritesTyped DEF ReadSize
  <2>4. heard' \subseteq Clients
    BY <1>6, <1>8, <1>11 DEF ReadSize
  <2> QED
    BY <1>4, <1>5, <1>8, <2>1, <2>2, <2>3, <2>4 DEF NetTyped
<1>12. ASSUME SendSet(c)
       PROVE  TypeOK'
  <2>1. /\ UNCHANGED <<heard, toC, shorts, torn>> /\ ClientGoes(c, "select", "echo")
        /\ sent' = [sent EXCEPT ![c] = Succ(@)] /\ ClientWrites(c, Message("set", sent'[c]))
    BY <1>12 DEF SendSet
  <2>2. sent' \in [Clients -> SetNum \cup {NoSet}]
    BY <1>8, <2>1, Successor
  <2>3. toH' \in [Clients -> Seq(Messages)]
    BY <1>7, <2>1, <2>2, WritesTyped
  <2>4. targets' \in 0 .. TargetSets
    BY <1>8, <1>12, Constants DEF SendSet, HasSet
  <2> QED
    BY <1>1, <1>4, <1>5, <1>8, <2>1, <2>2, <2>3, <2>4 DEF NetTyped
<1>13. ASSUME SendStale(c)
       PROVE  TypeOK'
  <2>1. /\ UNCHANGED <<heard, sent, targets, toC, shorts, torn>> /\ ClientGoes(c, "select", "echo")
        /\ ClientWrites(c, Message("set", sent[c]))
    BY <1>13 DEF SendStale
  <2>2. toH' \in [Clients -> Seq(Messages)]
    BY <1>7, <1>8, <2>1, WritesTyped
  <2> QED
    BY <1>1, <1>4, <1>5, <1>8, <2>1, <2>2 DEF NetTyped
<1>14. ASSUME ReadEcho(c)
       PROVE  TypeOK'
  <2>1. UNCHANGED <<sent, targets, toH>>
    BY <1>14 DEF ReadEcho
  <2>2. toC' \in [Clients -> Seq(Messages)] /\ shorts' \in 0 .. MaxFaults /\ torn' \subseteq Clients
    BY <1>1, <1>14, ReadsTyped DEF ReadEcho, EndOfFile, NetTyped
  <2>3. heard' \subseteq Clients
    BY <1>6, <1>8, <1>14 DEF ReadEcho
  <2>4. client' \in [Clients -> {"new", "greet", "size", "select", "echo", "ended", "gone", "refused"}]
    BY <1>5, <1>14 DEF ReadEcho
  <2> QED
    BY <1>1, <1>4, <1>8, <2>1, <2>2, <2>3, <2>4 DEF NetTyped
<1>15. ASSUME Break(c)
       PROVE  TypeOK'
  <2>1. UNCHANGED <<heard, sent, targets, netVars>>
    BY <1>15 DEF Break
  <2>2. client' \in [Clients -> {"new", "greet", "size", "select", "echo", "ended", "gone", "refused"}]
    BY <1>5, <1>15 DEF Break
  <2> QED
    BY <1>1, <1>4, <1>8, <2>1, <2>2, NetFrame
<1> QED
  BY <1>9, <1>10, <1>11, <1>12, <1>13, <1>14, <1>15 DEF Client

\* The two connections of a father who has both.
LEMMA BothAccepted ==
  ASSUME TypeOK, Len(accepted) = 2
  PROVE  accepted[1] \in Clients /\ accepted[2] \in Clients /\ DOMAIN accepted = 1 .. 2
<1>1. accepted \in Seq(Clients)
  BY DEF TypeOK
<1>2. accepted \in [1 .. 2 -> Clients]
  BY <1>1, LenProperties
<1> QED
  BY <1>2

LEMMA FatherTyped ==
  ASSUME TypeOK, FatherInv, Father
  PROVE  TypeOK'
<1>1. HereTyped /\ OutOK /\ ThereTyped /\ NetTyped
  BY TypeParts
<1>2. UNCHANGED <<thereVars, passed, game, ge, out, shorts, torn>>
  BY DEF Father, Listen, Accept, HearEnd, KillHandler, WriteGE, FatherGoes
<1>3. ThereTyped' /\ OutOK'
  BY <1>1, <1>2, ThereFrame, OutFrame
<1>4. ASSUME father' \in {"down", "accept", "wait", "kill", "write", "ended", "killed"},
             idx' \in 1 .. 2, accepted' \in Seq(Clients), Len(accepted') <= 2,
             handler' \in [Clients -> {"none", "id", "size", "ack", "read", "pass", "gone"}],
             cur' \in [Clients -> Messages], NetTyped'
      PROVE  TypeOK'
  BY <1>1, <1>2, <1>3, <1>4, TypePartsPrime DEF HereTyped
<1>5. \A c \in Clients : HandlerEnds(c)
        => /\ handler' \in [Clients -> {"none", "id", "size", "ack", "read", "pass", "gone"}]
           /\ cur' \in [Clients -> Messages]
           /\ toH' \in [Clients -> Seq(Messages)]
  BY <1>1, MessageTypes, EmptySeq DEF HandlerEnds, HereTyped, NetTyped
<1>6. ASSUME Listen
      PROVE  TypeOK'
  BY <1>1, <1>2, <1>4, <1>6 DEF Listen, FatherGoes, HereTyped, NetTyped
<1>7. ASSUME NEW c \in Clients, Accept(c)
      PROVE  TypeOK'
  <2>1. Len(accepted) <= 1 /\ father' \in {"accept", "wait"} /\ UNCHANGED <<idx, cur, toH, toC>>
    BY <1>7 DEF Accept, FatherGoes, FatherInv
  <2>2. accepted' = Append(accepted, c) /\ handler' = [handler EXCEPT ![c] = "id"]
    BY <1>7 DEF Accept
  <2>3. accepted' \in Seq(Clients) /\ Len(accepted') <= 2
    BY <1>1, <2>1, <2>2, AppendProperties, LenProperties DEF HereTyped
  <2> QED
    BY <1>1, <1>2, <1>4, <2>1, <2>2, <2>3 DEF HereTyped, NetTyped
<1>8. ASSUME HearEnd
      PROVE  TypeOK'
  BY <1>1, <1>2, <1>4, <1>8 DEF HearEnd, FatherGoes, HereTyped, NetTyped
<1>9. ASSUME KillHandler
      PROVE  TypeOK'
  <2>1. father = "kill" /\ Len(accepted) = 2
    BY <1>9 DEF KillHandler, FatherInv
  <2>2. accepted[idx] \in Clients
    BY <1>1, <2>1, BothAccepted DEF HereTyped
  <2>3. HandlerEnds(accepted[idx]) /\ UNCHANGED <<accepted, toC>>
    BY <1>9 DEF KillHandler
  <2>4. father' \in {"kill", "write"} /\ idx' \in 1 .. 2
    BY <1>1, <1>9, <2>1 DEF KillHandler, FatherGoes, HereTyped
  <2>5. /\ handler' \in [Clients -> {"none", "id", "size", "ack", "read", "pass", "gone"}]
        /\ cur' \in [Clients -> Messages] /\ toH' \in [Clients -> Seq(Messages)]
    BY <1>5, <2>2, <2>3
  <2> QED
    BY <1>1, <1>2, <1>4, <2>3, <2>4, <2>5 DEF HereTyped, NetTyped
<1>10. ASSUME WriteGE
       PROVE  TypeOK'
  <2>1. father = "write" /\ Len(accepted) = 2 /\ UNCHANGED <<accepted, handler, cur, toH>>
    BY <1>10 DEF WriteGE, FatherInv
  <2>2. accepted[idx] \in Clients
    BY <1>1, <2>1, BothAccepted DEF HereTyped
  <2>3. HereWrites(accepted[idx], GE) \/ UNCHANGED toC
    BY <1>10 DEF WriteGE
  <2>4. father' \in {"write", "ended"} /\ idx' \in 1 .. 2
    BY <1>1, <1>10, <2>1 DEF WriteGE, FatherGoes, HereTyped
  <2>5. toC' \in [Clients -> Seq(Messages)]
    BY <1>1, <2>2, <2>3, WritesTyped, MessageTypes DEF NetTyped
  <2> QED
    BY <1>1, <1>2, <1>4, <2>1, <2>4, <2>5 DEF HereTyped, NetTyped
<1> QED
  BY <1>6, <1>7, <1>8, <1>9, <1>10 DEF Father

\* What the game and the user do.
OtherStep == ReadTargets \/ ReadObstacles \/ TellEnd \/ CondemnHere \/ CloseWindow \/ CondemnThere \/ User

LEMMA OthersTyped ==
  ASSUME TypeOK, OtherStep
  PROVE  TypeOK'
<1>1. HereTyped /\ OutOK /\ ThereTyped /\ NetTyped
  BY TypeParts
<1>2. UNCHANGED netVars /\ NetTyped'
  BY <1>1, NetFrame DEF OtherStep, ReadTargets, ReadObstacles, TellEnd, CondemnHere, CloseWindow, CondemnThere, User, GameGoes
<1>3. ASSUME NEW c \in Clients, Takes(c)
      PROVE  OutOK'
  <2>1. Tail(out[c]) \in Seq(SetNum \cup {NoSet}) /\ Len(Tail(out[c])) <= OutCap
    BY <1>3, OutTyped DEF Takes
  <2> QED
    BY <1>1, <1>3, <2>1 DEF Takes, OutOK
<1>4. OI \in Clients /\ TI \in Clients
  BY DEF Clients
<1>5. CASE ReadTargets
  <2>1. OutOK'
    BY <1>3, <1>4, <1>5 DEF ReadTargets
  <2>2. HereTyped' /\ ThereTyped'
    BY <1>1, <1>5, ThereFrame DEF ReadTargets, GameGoes, HereTyped
  <2> QED
    BY <1>2, <2>1, <2>2, TypePartsPrime
<1>6. CASE ReadObstacles
  <2>1. OutOK'
    BY <1>3, <1>4, <1>6 DEF ReadObstacles
  <2>2. HereTyped' /\ ThereTyped'
    BY <1>1, <1>6, ThereFrame DEF ReadObstacles, GameGoes, HereTyped
  <2> QED
    BY <1>2, <2>1, <2>2, TypePartsPrime
<1>7. CASE TellEnd
  BY <1>1, <1>2, <1>7, ThereFrame, OutFrame, TypePartsPrime DEF TellEnd, GameGoes, HereTyped
<1>8. CASE CondemnHere
  BY <1>1, <1>2, <1>8, ThereFrame, OutFrame, TypePartsPrime DEF CondemnHere, GameGoes, HereTyped
<1>11. CASE CloseWindow
  BY <1>1, <1>2, <1>11, ThereFrame, OutFrame, TypePartsPrime DEF CloseWindow, GameGoes, HereTyped
<1>9. CASE CondemnThere
  <2>1. HereTyped' /\ OutOK'
    BY <1>1, <1>9, HereFrame, OutFrame DEF CondemnThere, hereVars
  <2>2. ThereTyped'
    BY <1>1, <1>9 DEF CondemnThere, ThereTyped
  <2> QED
    BY <1>2, <2>1, <2>2, TypePartsPrime
<1>10. CASE User
  <2>1. HereTyped' /\ OutOK'
    BY <1>1, <1>10, HereFrame, OutFrame DEF User, hereVars
  <2>2. dest' \in {"none", "peer", "nowhere", "crashed"}
    BY <1>10 DEF User, Ask, Destination
  <2>3. ThereTyped'
    BY <1>1, <1>10, <2>2 DEF User, ThereTyped
  <2> QED
    BY <1>2, <2>1, <2>3, TypePartsPrime
<1> QED
  BY <1>5, <1>6, <1>7, <1>8, <1>9, <1>10, <1>11 DEF OtherStep

LEMMA Typed ==
  ASSUME TypeOK, FatherInv, Next
  PROVE  TypeOK'
BY HandlerTyped, ClientTyped, FatherTyped, OthersTyped DEF Next, OtherStep

-----------------------------------------------------------------------------
(* The father and his handlers.                                            *)

\* Steps that leave the father alone keep his invariant if living handlers
\* only move on and no client is new again.
LEMMA FatherFrame ==
  ASSUME TypeOK, FatherInv, UNCHANGED <<idx, accepted>>,
         father' = father \/ father' = "killed",
         \A c \in Clients : handler[c] = "gone" => handler'[c] = "gone",
         \A c \in Clients : handler'[c] # "none" <=> handler[c] # "none",
         father = "down" => \A c \in Clients : client'[c] \in {"new", "refused"}
  PROVE  FatherInv'
<1>1. /\ Len(accepted) = 2 => accepted[1] \in Clients /\ accepted[2] \in Clients
      /\ father \in {"write", "ended", "kill"} => Len(accepted) = 2
  BY BothAccepted DEF FatherInv
<1>2. father \in {"write", "ended"} => handler'[accepted[1]] = "gone" /\ handler'[accepted[2]] = "gone"
  BY <1>1 DEF FatherInv
<1>3. father = "kill" /\ idx = 2 => handler'[accepted[1]] = "gone"
  BY <1>1 DEF FatherInv
<1>4. \A c \in Clients : handler'[c] # "none" <=> IsAccepted(c)'
  BY DEF FatherInv, IsAccepted
<1>5. Len(accepted) = 2 => accepted[1] # accepted[2]
  BY DEF FatherInv
<1>6. CASE father' = father
  BY <1>2, <1>3, <1>4, <1>5, <1>6 DEF FatherInv
<1>7. CASE father' = "killed"
  BY <1>4, <1>5, <1>7 DEF FatherInv
<1> QED
  BY <1>6, <1>7

LEMMA FatherStep ==
  ASSUME TypeOK, FatherInv, Next
  PROVE  FatherInv'
<1>1. /\ father \in {"down", "accept", "wait", "kill", "write", "ended", "killed"} /\ idx \in 1 .. 2
      /\ accepted \in Seq(Clients) /\ handler \in [Clients -> {"none", "id", "size", "ack", "read", "pass", "gone"}]
      /\ client \in [Clients -> {"new", "greet", "size", "select", "echo", "ended", "gone", "refused"}]
  BY DEF TypeOK
<1>2. ASSUME NEW c \in Clients, Handler(c)
      PROVE  FatherInv'
  <2>1. UNCHANGED <<idx, accepted, father, client>>
    BY <1>2 DEF Handler, EchoId, SendSize, ReadAck, EchoSet, PassOn, PassNothing, PassBlank, PassToNobody, HangUp, HandlerGoes, thereVars
  <2>2. handler[c] \in {"id", "size", "ack", "read", "pass"}
        /\ \E to \in {"size", "ack", "read", "pass", "gone"} : handler' = [handler EXCEPT ![c] = to]
    BY <1>2 DEF Handler, EchoId, SendSize, ReadAck, EchoSet, PassOn, PassNothing, PassBlank, PassToNobody, HangUp, HandlerGoes, HandlerEnds
  <2>3. \A d \in Clients : /\ handler[d] = "gone" => handler'[d] = "gone"
                           /\ handler'[d] # "none" <=> handler[d] # "none"
    BY <1>1, <2>2
  <2>4. father = "down" => \A d \in Clients : client'[d] \in {"new", "refused"}
    BY <2>1 DEF FatherInv
  <2> QED
    BY <2>1, <2>3, <2>4, FatherFrame
<1>3. ASSUME NEW c \in Clients, Client(c)
      PROVE  FatherInv'
  <2>1. UNCHANGED <<idx, accepted, father, handler>>
    BY <1>3 DEF Client, Connect, ReadGreet, ReadSize, SendSet, SendStale, ReadEcho, Break, ClientGoes, hereVars
  <2>2. ASSUME father = "down", NEW d \in Clients
        PROVE  client'[d] \in {"new", "refused"}
    <3>1. accepted = <<>> /\ client[c] \in {"new", "refused"} /\ client[d] \in {"new", "refused"}
      BY <2>2 DEF FatherInv
    <3>2. DOMAIN accepted = {}
      BY <1>1, <3>1, LenProperties, EmptySeq
    <3>3. \A e \in Clients : handler[e] = "none"
      BY <3>2 DEF FatherInv, IsAccepted
    <3>4. ~ Listening
      BY <2>2, <3>3 DEF Listening, FatherAlive, HandlerAlive
    <3>5. Connect(c)
      BY <1>3, <3>1 DEF Client, ReadGreet, ReadSize, SendSet, SendStale, ReadEcho, Break, ClientGoes
    <3>6. client' = [client EXCEPT ![c] = "refused"]
      BY <3>4, <3>5 DEF Connect, ClientGoes
    <3> QED
      BY <1>1, <3>1, <3>6
  <2> QED
    BY <2>1, <2>2, FatherFrame
<1>4. ASSUME OtherStep
      PROVE  FatherInv'
  <2>1. UNCHANGED <<idx, accepted, handler, client>> /\ (father' = father \/ father' = "killed")
    BY <1>4 DEF OtherStep, ReadTargets, ReadObstacles, TellEnd, CondemnHere, CloseWindow, CondemnThere, User, GameGoes, hereVars, thereVars
  <2>2. father = "down" => \A d \in Clients : client'[d] \in {"new", "refused"}
    BY <2>1 DEF FatherInv
  <2> QED
    BY <2>1, <2>2, FatherFrame
<1>5. ASSUME Listen
      PROVE  FatherInv'
  <2>1. father = "down" /\ accepted = <<>> /\ idx = 1
    BY <1>5 DEF Listen, FatherGoes, FatherInv
  <2>2. father' = "accept" /\ UNCHANGED <<idx, accepted, handler, client>>
    BY <1>5 DEF Listen, FatherGoes, thereVars
  <2>3. Len(accepted) = 0
    BY <2>1, EmptySeq
  <2> QED
    BY <2>1, <2>2, <2>3 DEF FatherInv, IsAccepted
<1>6. ASSUME NEW c \in Clients, Accept(c)
      PROVE  FatherInv'
  <2>1. /\ father = "accept" /\ ~ IsAccepted(c) /\ Len(accepted) <= 1 /\ idx = 1 /\ UNCHANGED <<idx, client>>
        /\ father' = (IF accepted = <<>> THEN "accept" ELSE "wait")
        /\ accepted' = Append(accepted, c) /\ handler' = [handler EXCEPT ![c] = "id"]
    BY <1>6 DEF Accept, FatherGoes, FatherInv, thereVars
  <2>2. Len(accepted) \in Nat /\ DOMAIN accepted = 1 .. Len(accepted)
        /\ (accepted = <<>> => Len(accepted) = 0) /\ (accepted # <<>> => Len(accepted) > 0)
    BY <1>1, LenProperties, EmptySeq
  <2>3. /\ accepted' \in Seq(Clients) /\ Len(accepted') = Len(accepted) + 1
        /\ \A i \in 1 .. Len(accepted) : accepted'[i] = accepted[i]
        /\ accepted'[Len(accepted) + 1] = c
    BY <1>1, <2>1, AppendProperties
  <2>4. DOMAIN accepted' = 1 .. Len(accepted) + 1
    BY <2>3, LenProperties
  <2>5. Len(accepted') = 2 => accepted'[1] # accepted'[2]
    BY <2>1, <2>2, <2>3 DEF IsAccepted
  <2>6. \A d \in Clients : IsAccepted(d) \/ d = c <=> IsAccepted(d)'
    <3>1. DOMAIN accepted' = DOMAIN accepted \cup {Len(accepted) + 1}
      BY <2>2, <2>4
    <3> QED
      BY <2>2, <2>3, <3>1 DEF IsAccepted
  <2>7. \A d \in Clients : handler'[d] # "none" <=> IsAccepted(d)'
    BY <1>1, <2>1, <2>6 DEF FatherInv
  <2>8. (father' = "accept" => Len(accepted') <= 1) /\ (father' = "wait" => Len(accepted') = 2)
    BY <2>1, <2>2, <2>3
  <2> QED
    BY <2>1, <2>5, <2>7, <2>8 DEF FatherInv
<1>7. ASSUME HearEnd
      PROVE  FatherInv'
  BY <1>7 DEF HearEnd, FatherGoes, FatherInv, IsAccepted
<1>8. ASSUME KillHandler
      PROVE  FatherInv'
  <2>1. father = "kill" /\ Len(accepted) = 2 /\ accepted[1] # accepted[2] /\ UNCHANGED accepted
    BY <1>8 DEF KillHandler, FatherInv
  <2>2. accepted[1] \in Clients /\ accepted[2] \in Clients
    BY <2>1, BothAccepted
  <2>3. handler' = [handler EXCEPT ![accepted[idx]] = "gone"]
    BY <1>8 DEF KillHandler, HandlerEnds
  <2>4. \A d \in Clients : /\ handler[d] = "gone" => handler'[d] = "gone"
                           /\ handler'[d] # "none" <=> handler[d] # "none" \/ d = accepted[idx]
    BY <1>1, <2>3
  <2>5. DOMAIN accepted = 1 .. 2
    BY <2>1, BothAccepted
  <2>6. \A d \in Clients : handler'[d] # "none" <=> IsAccepted(d)'
    BY <1>1, <2>1, <2>4, <2>5 DEF FatherInv, IsAccepted
  <2>7. CASE idx = 1
    <3>1. father' = "kill" /\ idx' = 2 /\ handler'[accepted[1]] = "gone"
      BY <1>1, <1>8, <2>1, <2>2, <2>3, <2>7 DEF KillHandler, FatherGoes
    <3> QED
      BY <2>1, <2>6, <3>1 DEF FatherInv
  <2>8. CASE idx = 2
    <3>1. father' = "write" /\ idx' = 1 /\ handler'[accepted[2]] = "gone"
      BY <1>1, <1>8, <2>1, <2>2, <2>3, <2>8 DEF KillHandler, FatherGoes
    <3>2. handler'[accepted[1]] = "gone"
      BY <2>1, <2>2, <2>4, <2>8 DEF FatherInv
    <3> QED
      BY <2>1, <2>6, <3>1, <3>2 DEF FatherInv
  <2> QED
    BY <1>1, <2>7, <2>8
<1>9. ASSUME WriteGE
      PROVE  FatherInv'
  <2>1. father = "write" /\ father' \in {"write", "ended"} /\ UNCHANGED <<accepted, handler, client>>
    BY <1>9 DEF WriteGE, FatherGoes, thereVars
  <2> QED
    BY <2>1 DEF FatherInv, IsAccepted
<1> QED
  BY <1>2, <1>3, <1>4, <1>5, <1>6, <1>7, <1>8, <1>9 DEF Next, OtherStep, Father

-----------------------------------------------------------------------------
(* Client and handler in step.                                             *)

\* What is not touched stays in step.
LEMMA LockFrame ==
  ASSUME NEW d \in Clients, LockStep(d),
         client'[d] = client[d], handler'[d] = handler[d], sent'[d] = sent[d],
         toH'[d] = toH[d], toC'[d] = toC[d],
         shorts' = 0 => shorts = 0, FatherDead => FatherDead'
  PROVE  LockStep(d)'
<1>1. /\ Connected(d)' <=> Connected(d)
      /\ ClientGone(d)' <=> ClientGone(d)
      /\ HandlerAlive(d)' <=> HandlerAlive(d)
  BY DEF Connected, ClientGone, HandlerAlive
<1>2. Leftover(d) => Leftover(d)'
  BY DEF Leftover, Set
<1>3. PairInStep(d) => PairInStep(d)'
  BY DEF PairInStep, Set
<1> QED
  BY <1>1, <1>2, <1>3 DEF LockStep

\* Messages of the protocol differ from each other and from what a short
\* read leaves.
LEMMA Distinct ==
  /\ Echo \notin Remains /\ Size \notin Remains /\ GE \notin Remains /\ Plain("id") \notin Remains
  /\ \A n : Message("set", n) \notin Remains /\ Message("set", n) # GE
  /\ Echo # GE /\ Size # GE
BY DEF Echo, Size, GE, Remains, Rest, Scrap, Plain, Message

\* What a handler that ends leaves to its client.
LEMMA LeftBehind ==
  ASSUME NEW c \in Clients, PairInStep(c)
  PROVE  Leftover(c)
<1>1. CASE toC[c] = <<>>
  BY <1>1, EmptySeq DEF Leftover
<1>2. CASE client[c] = "greet" /\ toC[c] = <<Echo>>
  BY <1>2 DEF Leftover
<1>3. CASE client[c] = "greet" /\ toC[c] = <<Echo, Size>>
  BY <1>3 DEF Leftover
<1>4. CASE client[c] = "size" /\ toC[c] = <<Size>>
  BY <1>4 DEF Leftover
<1>5. CASE client[c] = "echo" /\ toC[c] = <<Set(c)>>
  BY <1>5 DEF Leftover
<1> QED
  BY <1>1, <1>2, <1>3, <1>4, <1>5 DEF PairInStep

\* What a read takes out of queues as short as those of the protocol.
LEMMA ProtocolReads ==
  ASSUME NEW q, NEW a \in Arrivals(q), a.short = 0
  PROVE  /\ q # <<>>
         /\ \A x \in Messages : q = <<x>> /\ x \notin Remains => a.msg = x /\ a.left = <<>>
         /\ \A x, y \in Messages : q = <<x, y>> /\ x \notin Remains => a.msg = x /\ a.left = <<y>>
<1>1. q # <<>>
  BY ArrivalCases
<1>2. ASSUME NEW x \in Messages, q = <<x>>, x \notin Remains
      PROVE  a.msg = x /\ a.left = <<>>
  <2>1. Head(q) = x /\ Tail(q) = <<>> /\ q \in Seq(Messages)
    BY <1>2, ShortSequences
  <2> QED
    BY <1>2, <2>1, WholeArrival
<1>3. ASSUME NEW x \in Messages, NEW y \in Messages, q = <<x, y>>, x \notin Remains
      PROVE  a.msg = x /\ a.left = <<y>>
  <2>1. Head(q) = x /\ Tail(q) = <<y>> /\ q \in Seq(Messages)
    BY <1>3, ShortSequences
  <2> QED
    BY <1>3, <2>1, WholeArrival
<1> QED
  BY <1>1, <1>2, <1>3

\* The messages of the protocol.
LEMMA ProtocolMessages ==
  ASSUME TypeOK, NEW c \in Clients
  PROVE  /\ Plain("id") \in Messages /\ Echo \in Messages /\ Size \in Messages /\ Set(c) \in Messages
         /\ Plain("id") \notin Remains /\ Echo \notin Remains /\ Size \notin Remains /\ Set(c) \notin Remains /\ Set(c) # GE
BY MessageTypes, Distinct DEF TypeOK, Echo, Size, Set

\* The queues of a living handler, when it takes its steps.
LEMMA HandlerPairs ==
  ASSUME TypeOK, NEW c \in Clients, PairInStep(c), ~ ClientGone(c), shorts' = 0, shorts \in Nat,
         EchoId(c) \/ SendSize(c) \/ ReadAck(c) \/ EchoSet(c) \/ PassOn(c)
  PROVE  PairInStep(c)'
<1>1. /\ UNCHANGED <<client, sent>>
      /\ toH \in [Clients -> Seq(Messages)] /\ toC \in [Clients -> Seq(Messages)]
      /\ handler \in [Clients -> {"none", "id", "size", "ack", "read", "pass", "gone"}]
  BY DEF TypeOK, EchoId, SendSize, ReadAck, EchoSet, PassOn, HandlerGoes, thereVars
<1>2. Set(c)' = Set(c)
  BY <1>1 DEF Set
<1>3. \A m : HereWrites(c, m) => toC'[c] = Append(toC[c], m)
  BY <1>1 DEF HereWrites
<1>4. /\ Append(<<>>, Echo) = <<Echo>> /\ Append(<<>>, Size) = <<Size>>
      /\ Append(<<Echo>>, Size) = <<Echo, Size>> /\ Append(<<>>, Set(c)) = <<Set(c)>>
  BY ProtocolMessages, ShortSequences
<1>5. CASE EchoId(c)
  <2>1. PICK a \in Arrivals(toH[c]) : HandlerReads(c, a) /\ HereWrites(c, Echo)
    BY <1>5 DEF EchoId, Echo
  <2>2. handler[c] = "id" /\ handler'[c] = "size"
    BY <1>1, <1>5 DEF EchoId, HandlerGoes
  <2>3. client[c] = "greet" /\ toH[c] = <<Plain("id")>> /\ toC[c] = <<>>
    BY <2>2 DEF PairInStep
  <2>4. a.short = 0
    <3>1. a.short \in {0, 1}
      BY <1>1, ArrivalTypes
    <3> QED
      BY <2>1, <3>1 DEF HandlerReads
  <2>5. a.left = <<>>
    BY <2>3, <2>4, ProtocolReads, ProtocolMessages
  <2>6. toH'[c] = <<>> /\ toC'[c] = <<Echo>>
    BY <1>1, <1>3, <1>4, <2>1, <2>3, <2>5 DEF HandlerReads
  <2> QED
    BY <1>1, <2>2, <2>3, <2>6 DEF PairInStep
<1>6. CASE SendSize(c)
  <2>1. handler[c] = "size" /\ handler'[c] = "ack" /\ HereWrites(c, Size) /\ UNCHANGED toH
    BY <1>1, <1>6 DEF SendSize, HandlerGoes, Size
  <2>2. \/ client[c] = "greet" /\ toH[c] = <<>> /\ toC[c] = <<Echo>>
        \/ client[c] = "size" /\ toH[c] = <<>> /\ toC[c] = <<>>
    BY <2>1 DEF PairInStep
  <2> QED
    BY <1>1, <1>3, <1>4, <2>1, <2>2 DEF PairInStep
<1>7. CASE ReadAck(c)
  <2>1. PICK a \in Arrivals(toH[c]) : HandlerReads(c, a)
    BY <1>7 DEF ReadAck
  <2>2. handler[c] = "ack" /\ handler'[c] = "read" /\ UNCHANGED toC
    BY <1>1, <1>7 DEF ReadAck, HandlerGoes
  <2>3. a.short = 0
    <3>1. a.short \in {0, 1}
      BY <1>1, ArrivalTypes
    <3> QED
      BY <2>1, <3>1 DEF HandlerReads
  <2>4. toH[c] # <<>>
    BY <2>3, ProtocolReads
  <2>5. \/ client[c] = "select" /\ toH[c] = <<Size>> /\ toC[c] = <<>>
        \/ client[c] = "echo" /\ toH[c] = <<Size, Set(c)>> /\ toC[c] = <<>>
    BY <2>2, <2>4 DEF PairInStep
  <2>6. /\ toH[c] = <<Size>> => a.left = <<>>
        /\ toH[c] = <<Size, Set(c)>> => a.left = <<Set(c)>>
    <3>1. Size \in Messages /\ Set(c) \in Messages /\ Size \notin Remains
      BY ProtocolMessages
    <3>2. CASE toH[c] = <<Size>>
      <4>1. a.left = <<>>
        BY <2>3, <3>1, <3>2, ProtocolReads
      <4>2. <<Size>> # <<Size, Set(c)>>
        OBVIOUS
      <4> QED
        BY <3>2, <4>1, <4>2
    <3>3. CASE toH[c] = <<Size, Set(c)>>
      <4>1. a.left = <<Set(c)>>
        BY <2>3, <3>1, <3>3, ProtocolReads
      <4>2. <<Size>> # <<Size, Set(c)>>
        OBVIOUS
      <4> QED
        BY <3>3, <4>1, <4>2
    <3> QED
      BY <2>5, <3>2, <3>3
  <2>7. toH'[c] = a.left
    BY <1>1, <2>1 DEF HandlerReads
  <2> QED
    BY <1>1, <1>2, <2>2, <2>5, <2>6, <2>7 DEF PairInStep
<1>8. CASE EchoSet(c)
  <2>1. PICK a \in Arrivals(toH[c]) : HandlerReads(c, a) /\ HereWrites(c, a.msg)
    BY <1>8 DEF EchoSet
  <2>2. handler[c] = "read" /\ handler'[c] = "pass"
    BY <1>1, <1>8 DEF EchoSet, HandlerGoes
  <2>3. a.short = 0
    <3>1. a.short \in {0, 1}
      BY <1>1, ArrivalTypes
    <3> QED
      BY <2>1, <3>1 DEF HandlerReads
  <2>4. toH[c] # <<>>
    BY <2>3, ProtocolReads
  <2>5. client[c] = "echo" /\ toH[c] = <<Set(c)>> /\ toC[c] = <<>>
    BY <2>2, <2>4 DEF PairInStep
  <2>6. a.left = <<>> /\ a.msg = Set(c)
    BY <2>3, <2>5, ProtocolReads, ProtocolMessages
  <2>7. toH'[c] = <<>> /\ toC'[c] = <<Set(c)>>
    BY <1>1, <1>3, <1>4, <2>1, <2>5, <2>6 DEF HandlerReads
  <2> QED
    BY <1>1, <1>2, <2>2, <2>5, <2>7 DEF PairInStep
<1>9. CASE PassOn(c)
  <2>1. handler[c] = "pass" /\ handler'[c] = "read" /\ UNCHANGED netVars
    BY <1>1, <1>9 DEF PassOn, HandlerGoes
  <2> QED
    BY <1>1, <1>2, <2>1 DEF PairInStep, netVars
<1> QED
  BY <1>5, <1>6, <1>7, <1>8, <1>9

\* No handler steps out of step.
LEMMA HandlerLock ==
  ASSUME TypeOK, NEW c \in Clients, Handler(c), NEW d \in Clients, LockStep(d)
  PROVE  LockStep(d)'
<1>1. /\ UNCHANGED <<client, sent, father>> /\ shorts' \in Nat /\ shorts \in Nat
      /\ handler \in [Clients -> {"none", "id", "size", "ack", "read", "pass", "gone"}]
      /\ toH \in [Clients -> Seq(Messages)] /\ toC \in [Clients -> Seq(Messages)]
  <2>1. UNCHANGED <<client, sent, father>>
    BY DEF Handler, EchoId, SendSize, ReadAck, EchoSet, PassOn, PassNothing, PassBlank, PassToNobody, HangUp, HandlerGoes, thereVars
  <2> QED
    BY <2>1, HandlerTyped, Constants DEF TypeOK
<1>2. shorts' = 0 => shorts = 0
  <2>1. \A a \in Arrivals(toH[c]) : a.short \in {0, 1}
    BY <1>1, ArrivalTypes
  <2>2. ASSUME NEW a \in Arrivals(toH[c]), HandlerReads(c, a)
        PROVE  shorts' >= shorts
    <3>1. a.short = 0 \/ a.short = 1
      BY <2>1
    <3>2. shorts' = shorts + a.short
      BY <2>2 DEF HandlerReads
    <3>3. CASE a.short = 0
      BY <1>1, <3>2, <3>3
    <3>4. CASE a.short = 1
      BY <1>1, <3>2, <3>4
    <3> QED
      BY <3>1, <3>3, <3>4
  <2>3. CASE EchoId(c) \/ ReadAck(c) \/ EchoSet(c)
    <3>1. \E a \in Arrivals(toH[c]) : HandlerReads(c, a)
      BY <2>3 DEF EchoId, ReadAck, EchoSet
    <3> QED
      BY <1>1, <2>2, <3>1
  <2>4. CASE SendSize(c) \/ PassOn(c) \/ PassNothing(c) \/ PassBlank(c) \/ PassToNobody(c) \/ HangUp(c)
    BY <2>4 DEF SendSize, PassOn, PassNothing, PassBlank, PassToNobody, HangUp, netVars
  <2> QED
    BY <1>1, <2>3, <2>4 DEF Handler
<1>3. ASSUME d # c
      PROVE  LockStep(d)'
  <2>1. handler'[d] = handler[d]
    BY <1>1, <1>3 DEF Handler, EchoId, SendSize, ReadAck, EchoSet, PassOn, PassNothing, PassBlank, PassToNobody, HangUp, HandlerGoes, HandlerEnds
  <2>2. toH'[d] = toH[d]
    BY <1>1, <1>3 DEF Handler, EchoId, SendSize, ReadAck, EchoSet, PassOn, PassNothing, PassBlank, PassToNobody, HangUp, HandlerReads, HandlerEnds, netVars
  <2>3. toC'[d] = toC[d]
    BY <1>1, <1>3 DEF Handler, EchoId, SendSize, ReadAck, EchoSet, PassOn, PassNothing, PassBlank, PassToNobody, HangUp, HereWrites, netVars
  <2> QED
    BY <1>1, <1>2, <2>1, <2>2, <2>3, LockFrame DEF FatherDead
<1>4. ASSUME Connected(c), ~ ClientGone(c), shorts' = 0, LockStep(c)
      PROVE  /\ handler'[c] # "none"
             /\ handler'[c] = "gone" => Leftover(c)'
             /\ HandlerAlive(c)' => PairInStep(c)'
  <2>1. handler[c] \in {"id", "size", "ack", "read", "pass"}
    BY DEF Handler, EchoId, SendSize, ReadAck, EchoSet, PassOn, PassNothing, PassBlank, PassToNobody, HangUp, HandlerGoes
  <2>2. PairInStep(c)
    BY <1>2, <1>4, <2>1 DEF LockStep, HandlerAlive
  <2>3. ASSUME EchoId(c) \/ SendSize(c) \/ ReadAck(c) \/ EchoSet(c) \/ PassOn(c)
        PROVE  PairInStep(c)'
    BY <1>1, <1>4, <2>2, <2>3, HandlerPairs
  <2>4. ASSUME EchoId(c) \/ SendSize(c) \/ ReadAck(c) \/ EchoSet(c) \/ PassOn(c)
        PROVE  handler'[c] \notin {"none", "gone"}
    BY <1>1, <2>4 DEF EchoId, SendSize, ReadAck, EchoSet, PassOn, HandlerGoes
  <2>5. ASSUME PassNothing(c) \/ PassBlank(c) \/ PassToNobody(c) \/ HangUp(c)
        PROVE  UNCHANGED <<toC, client, sent>> /\ Leftover(c)'
    <3>1. UNCHANGED toC
      BY <2>5 DEF PassNothing, PassBlank, PassToNobody, HangUp
    <3> QED
      BY <1>1, <2>2, <3>1, LeftBehind DEF Leftover, Set
  <2>6. ASSUME PassNothing(c) \/ PassBlank(c) \/ PassToNobody(c) \/ HangUp(c)
        PROVE  \/ handler'[c] = "gone"
               \/ handler[c] = "pass" /\ handler'[c] = "read" /\ UNCHANGED toH
    BY <1>1, <2>6 DEF PassNothing, PassBlank, PassToNobody, HangUp, HandlerEnds, HandlerGoes
  <2>7. ASSUME PassNothing(c) \/ PassBlank(c) \/ PassToNobody(c) \/ HangUp(c), handler'[c] # "gone"
        PROVE  PairInStep(c)'
    BY <1>1, <2>2, <2>5, <2>6, <2>7 DEF PairInStep, Set
  <2> QED
    BY <2>3, <2>4, <2>5, <2>6, <2>7 DEF Handler, HandlerAlive
<1>5. ASSUME d = c
      PROVE  LockStep(c)'
  <2>1. handler[c] # "none"
    BY DEF Handler, EchoId, SendSize, ReadAck, EchoSet, PassOn, PassNothing, PassBlank, PassToNobody, HangUp, HandlerGoes
  <2>2. client[c] \notin {"new", "refused"}
    BY <1>5, <2>1 DEF LockStep
  <2>3. (Connected(c)' <=> Connected(c)) /\ (ClientGone(c)' <=> ClientGone(c))
    BY <1>1 DEF Connected, ClientGone
  <2>4. LockStep(c)
    BY <1>5
  <2>5. Connected(c)' /\ ~ ClientGone(c)' /\ shorts' = 0
          => /\ handler'[c] # "none"
             /\ handler'[c] = "gone" => Leftover(c)'
             /\ HandlerAlive(c)' => PairInStep(c)'
    BY <1>4, <2>3, <2>4
  <2>6. client'[c] = client[c]
    BY <1>1
  <2> QED
    BY <2>2, <2>5, <2>6 DEF LockStep
<1> QED
  BY <1>3, <1>5

\* A read of the client that is not short.
LEMMA ClientReadsWhole ==
  ASSUME TypeOK, NEW c \in Clients, NEW a \in Arrivals(toC[c]), ClientReads(c, a)
  PROVE  /\ shorts' >= shorts /\ shorts' \in Nat
         /\ shorts' = 0 => a.short = 0
         /\ toC'[c] = a.left
         /\ \A d \in Clients \ {c} : toC'[d] = toC[d]
<1>1. toC \in [Clients -> Seq(Messages)] /\ shorts \in Nat
  BY Constants DEF TypeOK
<1>2. a.short \in {0, 1}
  BY <1>1, ArrivalTypes
<1>3. shorts' = shorts + a.short /\ toC' = [toC EXCEPT ![c] = a.left]
  BY DEF ClientReads
<1>4. CASE a.short = 0
  BY <1>1, <1>3, <1>4
<1>5. CASE a.short = 1
  BY <1>1, <1>3, <1>5
<1> QED
  BY <1>2, <1>4, <1>5

\* The steps of a client up to its end.
Steps(c) == ReadGreet(c) \/ ReadSize(c) \/ SendSet(c) \/ SendStale(c) \/ ReadEcho(c)

\* What a step of a client leaves alone, and what it does to the rest.
LEMMA ClientFrame ==
  ASSUME TypeOK, NEW c \in Clients, Client(c)
  PROVE  /\ UNCHANGED <<father, handler, accepted>>
         /\ shorts' = 0 => shorts = 0
         /\ \A d \in Clients \ {c} : /\ client'[d] = client[d] /\ sent'[d] = sent[d]
                                     /\ toH'[d] = toH[d] /\ toC'[d] = toC[d]
<1>1. /\ client \in [Clients -> {"new", "greet", "size", "select", "echo", "ended", "gone", "refused"}]
      /\ sent \in [Clients -> SetNum \cup {NoSet}]
      /\ toH \in [Clients -> Seq(Messages)] /\ toC \in [Clients -> Seq(Messages)] /\ shorts \in Nat
  BY Constants DEF TypeOK
<1>2. UNCHANGED <<father, handler, accepted>> /\ \A d \in Clients \ {c} : client'[d] = client[d]
  BY <1>1 DEF Client, Connect, ReadGreet, ReadSize, SendSet, SendStale, ReadEcho, Break, ClientGoes, hereVars
<1>3. \A d \in Clients \ {c} : sent'[d] = sent[d]
  BY <1>1 DEF Client, Connect, ReadGreet, ReadSize, SendSet, SendStale, ReadEcho, Break
<1>4. \A d \in Clients \ {c} : toH'[d] = toH[d]
  <2>1. \A m : ClientWrites(c, m) => \A d \in Clients \ {c} : toH'[d] = toH[d]
    BY <1>1 DEF ClientWrites
  <2> QED
    BY <2>1 DEF Client, Connect, ReadGreet, ReadSize, SendSet, SendStale, ReadEcho, Break, netVars
<1>5. (\E a \in Arrivals(toC[c]) : ClientReads(c, a)) \/ UNCHANGED <<toC, shorts, torn>>
  BY DEF Client, Connect, ReadGreet, ReadSize, SendSet, SendStale, ReadEcho, Break, EndOfFile, netVars
<1>6. \A d \in Clients \ {c} : toC'[d] = toC[d]
  BY <1>5, ClientReadsWhole
<1>7. shorts' = 0 => shorts = 0
  BY <1>1, <1>5, ClientReadsWhole
<1> QED
  BY <1>2, <1>3, <1>4, <1>6, <1>7

\* A client whose handler lives.
LEMMA ClientPairs ==
  ASSUME TypeOK, NEW c \in Clients, Steps(c), PairInStep(c), HandlerAlive(c), shorts' = 0
  PROVE  PairInStep(c)' \/ ClientGone(c)'
<1>1. /\ client \in [Clients -> {"new", "greet", "size", "select", "echo", "ended", "gone", "refused"}]
      /\ sent \in [Clients -> SetNum \cup {NoSet}]
      /\ handler \in [Clients -> {"none", "id", "size", "ack", "read", "pass", "gone"}]
      /\ toH \in [Clients -> Seq(Messages)] /\ toC \in [Clients -> Seq(Messages)] /\ shorts \in Nat
  BY Constants DEF TypeOK
<1>2. Held(c) /\ handler[c] # "gone" /\ UNCHANGED handler
  BY DEF Held, HandlerAlive, Inherits, Steps, ReadGreet, ReadSize, SendSet, SendStale, ReadEcho, ClientGoes, hereVars
<1>3. \A m : ClientWrites(c, m) => toH'[c] = Append(toH[c], m)
  BY <1>1, <1>2 DEF ClientWrites
<1>4. ~ EndOfFile(c)
  BY <1>2 DEF EndOfFile
<1>5. ASSUME NEW x \in Messages, NEW m \in Messages
      PROVE  Append(<<>>, m) = <<m>> /\ Append(<<x>>, m) = <<x, m>> /\ <<m>> # <<>> /\ <<x, m>> # <<>>
  BY ShortSequences
<1>6. ASSUME ReadGreet(c)
      PROVE  PairInStep(c)'
  <2>1. PICK a \in Arrivals(toC[c]) : ClientReads(c, a)
    BY <1>4, <1>6 DEF ReadGreet
  <2>2. client[c] = "greet" /\ client'[c] = "size" /\ UNCHANGED <<toH, sent>>
    BY <1>1, <1>6 DEF ReadGreet, ClientGoes
  <2>3. a.short = 0 /\ toC'[c] = a.left
    BY <2>1, ClientReadsWhole
  <2>4. toC[c] # <<>>
    BY <2>3, ProtocolReads
  <2>5. Echo \in Messages /\ Size \in Messages /\ Echo \notin Remains
    BY ProtocolMessages
  <2>6. CASE handler[c] = "size" /\ toH[c] = <<>> /\ toC[c] = <<Echo>>
    <3>1. a.left = <<>>
      BY <2>3, <2>5, <2>6, ProtocolReads
    <3> QED
      BY <1>2, <2>2, <2>3, <2>6, <3>1 DEF PairInStep
  <2>7. CASE handler[c] = "ack" /\ toH[c] = <<>> /\ toC[c] = <<Echo, Size>>
    <3>1. a.left = <<Size>>
      BY <2>3, <2>5, <2>7, ProtocolReads
    <3> QED
      BY <1>2, <2>2, <2>3, <2>7, <3>1 DEF PairInStep
  <2> QED
    BY <2>2, <2>4, <2>6, <2>7 DEF PairInStep
<1>7. ASSUME ReadSize(c)
      PROVE  PairInStep(c)'
  <2>1. PICK a \in Arrivals(toC[c]) : ClientReads(c, a) /\ ClientWrites(c, Size)
    BY <1>4, <1>7 DEF ReadSize, Size
  <2>2. client[c] = "size" /\ client'[c] = "select" /\ UNCHANGED sent
    BY <1>1, <1>7 DEF ReadSize, ClientGoes
  <2>3. a.short = 0 /\ toC'[c] = a.left
    BY <2>1, ClientReadsWhole
  <2>4. toC[c] # <<>>
    BY <2>3, ProtocolReads
  <2>5. Size \in Messages /\ Size \notin Remains
    BY ProtocolMessages
  <2>6. handler[c] = "ack" /\ toH[c] = <<>> /\ toC[c] = <<Size>>
    BY <2>2, <2>4 DEF PairInStep
  <2>7. a.left = <<>>
    BY <2>3, <2>5, <2>6, ProtocolReads
  <2>8. toH'[c] = <<Size>>
    BY <1>3, <1>5, <2>1, <2>5, <2>6
  <2> QED
    BY <1>2, <2>2, <2>3, <2>6, <2>7, <2>8 DEF PairInStep
<1>8. ASSUME SendSet(c) \/ SendStale(c)
      PROVE  PairInStep(c)'
  <2>1. client[c] = "select" /\ client'[c] = "echo" /\ UNCHANGED toC
    BY <1>1, <1>8 DEF SendSet, SendStale, ClientGoes
  <2>2. ClientWrites(c, Set(c)') /\ sent'[c] \in SetNum \cup {NoSet}
    BY <1>1, <1>8, Successor DEF SendSet, SendStale, Set
  <2>3. Set(c)' \in Messages /\ Size \in Messages
    BY <2>2, MessageTypes DEF Set, Size
  <2>4. CASE handler[c] = "ack" /\ toH[c] = <<Size>> /\ toC[c] = <<>>
    <3>1. toH'[c] = <<Size, Set(c)'>>
      BY <1>3, <1>5, <2>2, <2>3, <2>4
    <3> QED
      BY <1>2, <2>1, <2>4, <3>1 DEF PairInStep
  <2>5. CASE handler[c] \in {"read", "pass"} /\ toH[c] = <<>> /\ toC[c] = <<>>
    <3>1. toH'[c] = <<Set(c)'>>
      BY <1>3, <1>5, <2>2, <2>3, <2>5
    <3> QED
      BY <1>2, <2>1, <2>5, <3>1 DEF PairInStep
  <2> QED
    BY <2>1, <2>4, <2>5 DEF PairInStep
<1>9. ASSUME ReadEcho(c)
      PROVE  PairInStep(c)' \/ ClientGone(c)'
  <2>1. PICK a \in Arrivals(toC[c]) : ClientReads(c, a)
    BY <1>4, <1>9 DEF ReadEcho
  <2>2. client[c] = "echo" /\ client'[c] \in {"ended", "select"} /\ UNCHANGED <<toH, sent>>
    BY <1>1, <1>9 DEF ReadEcho, ClientGoes
  <2>3. a.short = 0 /\ toC'[c] = a.left
    BY <2>1, ClientReadsWhole
  <2>4. toC[c] # <<>>
    BY <2>3, ProtocolReads
  <2>5. Set(c) \in Messages /\ Set(c) \notin Remains
    BY ProtocolMessages
  <2>6. handler[c] \in {"read", "pass"} /\ toH[c] = <<>> /\ toC[c] = <<Set(c)>>
    BY <2>2, <2>4 DEF PairInStep
  <2>7. a.left = <<>>
    BY <2>3, <2>5, <2>6, ProtocolReads
  <2> QED
    BY <1>2, <2>2, <2>3, <2>6, <2>7 DEF PairInStep, ClientGone
<1> QED
  BY <1>6, <1>7, <1>8, <1>9 DEF Steps

\* A client whose handler is gone.
LEMMA ClientLeftover ==
  ASSUME TypeOK, NEW c \in Clients, Steps(c), Leftover(c), shorts' = 0
  PROVE  Leftover(c)'
<1>1. /\ client \in [Clients -> {"new", "greet", "size", "select", "echo", "ended", "gone", "refused"}]
      /\ toC \in [Clients -> Seq(Messages)]
  BY DEF TypeOK
<1>2. CASE SendSet(c) \/ SendStale(c)
  <2>1. client[c] = "select" /\ client'[c] = "echo" /\ UNCHANGED toC
    BY <1>1, <1>2 DEF SendSet, SendStale, ClientGoes
  <2> QED
    BY <2>1 DEF Leftover
<1>3. CASE ReadGreet(c) \/ ReadSize(c) \/ ReadEcho(c)
  <2>1. \/ client[c] = "greet" /\ client'[c] = "size"
        \/ client[c] \in {"size", "echo"} /\ client'[c] \in {"select", "ended"}
    BY <1>1, <1>3 DEF ReadGreet, ReadSize, ReadEcho, ClientGoes
  <2>2. CASE EndOfFile(c)
    <3>1. toC'[c] = <<>>
      BY <2>2 DEF EndOfFile
    <3> QED
      BY <3>1, EmptySeq DEF Leftover
  <2>3. ASSUME NEW a \in Arrivals(toC[c]), ClientReads(c, a)
        PROVE  Leftover(c)'
    <3>1. a.short = 0 /\ toC'[c] = a.left
      BY <2>3, ClientReadsWhole
    <3>2. toC[c] # <<>> /\ toC[c] \in Seq(Messages)
      BY <1>1, ArrivalCases
    <3>3. Len(toC[c]) \in Nat \ {0} /\ Head(toC[c]) = toC[c][1]
      BY <3>2, EmptySeq
    <3>4. Head(toC[c]) \notin Remains
      BY <3>3, Distinct DEF Leftover, Set
    <3>5. toC'[c] = Tail(toC[c])
      BY <3>1, <3>2, <3>4, WholeArrival
    <3>6. /\ Len(toC'[c]) = Len(toC[c]) - 1
          /\ \A i \in 1 .. Len(toC'[c]) : toC'[c][i] = toC[c][i + 1]
      BY <3>2, <3>5, HeadTailProperties
    <3>7. ASSUME NEW i \in 1 .. Len(toC'[c])
          PROVE  toC'[c][i] = GE \/ (i = 1 /\ client[c] = "greet" /\ toC'[c][i] = Size)
      <4>1. i + 1 \in 1 .. Len(toC[c]) /\ i + 1 # 1 /\ (i + 1 = 2 => i = 1)
        BY <3>3, <3>6
      <4>2. toC[c][i + 1] = GE \/ (i + 1 = 2 /\ client[c] = "greet" /\ toC[c][i + 1] = Size)
        BY <4>1 DEF Leftover
      <4> QED
        BY <3>6, <4>1, <4>2
    <3> QED
      BY <2>1, <3>7 DEF Leftover
  <2> QED
    BY <1>3, <2>2, <2>3 DEF ReadGreet, ReadSize, ReadEcho
<1> QED
  BY <1>2, <1>3 DEF Steps

\* As long as there is a father a client that connects sends its id.
LEMMA ConnectSendsId ==
  ASSUME TypeOK, FatherInv, NEW c \in Clients, Connect(c), LockStep(c)
  PROVE  /\ client[c] = "new" /\ handler[c] = "none" /\ toH[c] = <<>> /\ toC'[c] = <<>>
         /\ client'[c] = "greet" /\ ~ FatherDead => toH'[c] = <<Plain("id")>>
<1>1. /\ client \in [Clients -> {"new", "greet", "size", "select", "echo", "ended", "gone", "refused"}]
      /\ toH \in [Clients -> Seq(Messages)]
      /\ father \in {"down", "accept", "wait", "kill", "write", "ended", "killed"}
  BY DEF TypeOK
<1>2. client[c] = "new" /\ handler[c] = "none" /\ toH[c] = <<>> /\ toC[c] = <<>> /\ UNCHANGED toC
  BY DEF Connect, ClientGoes, LockStep
<1>3. ASSUME client'[c] = "greet", ~ FatherDead
      PROVE  toH'[c] = <<Plain("id")>>
  <2>1. Listening /\ ClientWrites(c, Plain("id"))
    BY <1>1, <1>3 DEF Connect, ClientGoes
  <2>2. father # "down"
    <3>1. SUFFICES ASSUME father = "down"
                   PROVE  FALSE
      OBVIOUS
    <3>2. accepted = <<>> /\ accepted \in Seq(Clients)
      BY <3>1 DEF FatherInv, TypeOK
    <3>3. DOMAIN accepted = {}
      BY <3>2, LenProperties, EmptySeq
    <3>4. \A e \in Clients : handler[e] = "none"
      BY <3>3 DEF FatherInv, IsAccepted
    <3> QED
      BY <2>1, <3>1, <3>4 DEF Listening, FatherAlive, HandlerAlive
  <2>3. Held(c)
    BY <1>1, <1>3, <2>2 DEF Held, FatherAlive, FatherDead
  <2>4. toH'[c] = Append(<<>>, Plain("id"))
    BY <1>1, <1>2, <2>1, <2>3 DEF ClientWrites
  <2> QED
    BY <2>4, ProtocolMessages, ShortSequences
<1> QED
  BY <1>2, <1>3

\* No client steps out of step.
LEMMA ClientLock ==
  ASSUME TypeOK, FatherInv, NEW c \in Clients, Client(c), NEW d \in Clients, LockStep(d)
  PROVE  LockStep(d)'
<1>1. /\ client \in [Clients -> {"new", "greet", "size", "select", "echo", "ended", "gone", "refused"}]
      /\ handler \in [Clients -> {"none", "id", "size", "ack", "read", "pass", "gone"}]
      /\ toH \in [Clients -> Seq(Messages)] /\ toC \in [Clients -> Seq(Messages)]
      /\ father \in {"down", "accept", "wait", "kill", "write", "ended", "killed"}
  BY DEF TypeOK
<1>2. UNCHANGED <<father, handler>> /\ (shorts' = 0 => shorts = 0)
  BY ClientFrame
<1>3. ASSUME d # c
      PROVE  LockStep(d)'
  <2>1. client'[d] = client[d] /\ sent'[d] = sent[d] /\ toH'[d] = toH[d] /\ toC'[d] = toC[d]
    BY <1>3, ClientFrame
  <2> QED
    BY <1>2, <2>1, LockFrame DEF FatherDead
<1>4. ASSUME d = c, Connect(c)
      PROVE  LockStep(c)'
  <2>1. /\ client[c] = "new" /\ handler[c] = "none" /\ toH[c] = <<>> /\ toC'[c] = <<>>
        /\ client'[c] = "greet" /\ ~ FatherDead => toH'[c] = <<Plain("id")>>
    BY <1>4, ConnectSendsId
  <2>2. handler'[c] = "none" /\ (FatherDead' <=> FatherDead)
    BY <1>2, <2>1 DEF FatherDead
  <2>3. CASE client' = [client EXCEPT ![c] = "refused"] /\ UNCHANGED toH
    BY <1>1, <2>1, <2>2, <2>3 DEF LockStep, Connected
  <2>4. CASE client' = [client EXCEPT ![c] = "greet"]
    <3>1. client'[c] = "greet"
      BY <1>1, <2>4
    <3> QED
      BY <2>1, <2>2, <3>1 DEF LockStep, HandlerAlive
  <2> QED
    BY <1>4, <2>3, <2>4 DEF Connect, ClientGoes
<1>5. ASSUME Break(c)
      PROVE  LockStep(c)'
  <2>1. client'[c] = "gone"
    BY <1>1, <1>5 DEF Break, ClientGoes
  <2> QED
    BY <2>1 DEF LockStep, ClientGone
<1>6. ASSUME d = c, Steps(c)
      PROVE  LockStep(c)'
  <2>1. /\ client[c] \in {"greet", "size", "select", "echo"}
        /\ client'[c] \in {"size", "select", "echo", "ended"}
    BY <1>1, <1>6 DEF Steps, ReadGreet, ReadSize, SendSet, SendStale, ReadEcho, ClientGoes
  <2>2. LockStep(c) /\ Connected(c) /\ ~ ClientGone(c)
    BY <1>6, <2>1 DEF Connected, ClientGone
  <2>3. ASSUME shorts' = 0, handler[c] = "none"
        PROVE  toC'[c] = <<>> /\ FatherDead
    <3>1. toC[c] = <<>> /\ (FatherDead \/ client[c] = "greet")
      BY <1>2, <2>2, <2>3 DEF LockStep
    <3>2. Arrivals(toC[c]) = {}
      BY <3>1 DEF Arrivals
    <3>3. EndOfFile(c) \/ SendSet(c) \/ SendStale(c)
      BY <1>6, <3>2 DEF Steps, ReadGreet, ReadSize, ReadEcho
    <3>4. UNCHANGED toC
      BY <3>3 DEF EndOfFile, SendSet, SendStale
    <3>5. client[c] = "greet" => EndOfFile(c)
      BY <3>3 DEF SendSet, SendStale, ClientGoes
    <3>6. father # "down"
      BY <2>1 DEF FatherInv
    <3>7. client[c] = "greet" => FatherDead
      BY <1>1, <3>5, <3>6 DEF EndOfFile, Held, FatherAlive, FatherDead
    <3> QED
      BY <3>1, <3>4, <3>7
  <2>4. ASSUME shorts' = 0, handler[c] = "gone"
        PROVE  Leftover(c)'
    BY <1>2, <1>6, <2>2, <2>4, ClientLeftover DEF LockStep
  <2>5. ASSUME shorts' = 0, HandlerAlive(c)
        PROVE  PairInStep(c)' \/ ClientGone(c)'
    BY <1>2, <1>6, <2>2, <2>5, ClientPairs DEF LockStep
  <2>6. (HandlerAlive(c)' <=> HandlerAlive(c)) /\ handler'[c] = handler[c] /\ (FatherDead' <=> FatherDead)
    BY <1>2 DEF HandlerAlive, FatherDead
  <2>7. client'[c] \notin {"new", "refused"}
    BY <2>1
  <2> QED
    BY <2>3, <2>4, <2>5, <2>6, <2>7 DEF LockStep
<1> QED
  BY <1>3, <1>4, <1>5, <1>6 DEF Client, Steps

\* The father kills handlers and writes GE, and nobody gets out of step.
LEMMA FatherLock ==
  ASSUME TypeOK, FatherInv, Father, NEW d \in Clients, LockStep(d)
  PROVE  LockStep(d)'
<1>1. /\ UNCHANGED <<client, sent, shorts, torn>> /\ (FatherDead => FatherDead')
      /\ handler \in [Clients -> {"none", "id", "size", "ack", "read", "pass", "gone"}]
      /\ toH \in [Clients -> Seq(Messages)] /\ toC \in [Clients -> Seq(Messages)]
      /\ accepted \in Seq(Clients) /\ idx \in 1 .. 2
  BY DEF TypeOK, Father, Listen, Accept, HearEnd, KillHandler, WriteGE, FatherGoes, FatherDead, thereVars
<1>2. (Connected(d)' <=> Connected(d)) /\ (ClientGone(d)' <=> ClientGone(d))
  BY <1>1 DEF Connected, ClientGone
<1>3. CASE Listen \/ HearEnd
  BY <1>1, <1>3, LockFrame DEF Listen, HearEnd
<1>4. ASSUME NEW c \in Clients, Accept(c)
      PROVE  LockStep(d)'
  <2>1. /\ father = "accept" /\ Connected(c) /\ ~ IsAccepted(c)
        /\ handler' = [handler EXCEPT ![c] = "id"] /\ UNCHANGED <<toH, toC>>
    BY <1>4 DEF Accept, FatherGoes
  <2>2. CASE d # c
    <3>1. handler'[d] = handler[d]
      BY <1>1, <2>1, <2>2
    <3> QED
      BY <1>1, <2>1, <3>1, LockFrame
  <2>3. CASE d = c
    <3>1. handler[c] = "none" /\ handler'[c] = "id"
      BY <1>1, <2>1 DEF FatherInv
    <3>2. ASSUME ~ ClientGone(c), shorts = 0
          PROVE  client[c] = "greet" /\ toH[c] = <<Plain("id")>> /\ toC[c] = <<>>
      BY <2>1, <2>3, <3>1, <3>2 DEF LockStep, FatherDead
    <3>3. ASSUME ~ ClientGone(c), shorts = 0
          PROVE  PairInStep(c)'
      BY <1>1, <2>1, <3>1, <3>2, <3>3 DEF PairInStep
    <3>4. client'[c] \notin {"new", "refused"}
      BY <1>1, <2>1 DEF Connected
    <3> QED
      BY <1>1, <1>2, <2>3, <3>1, <3>3, <3>4 DEF LockStep
  <2> QED
    BY <2>2, <2>3
<1>5. ASSUME father \in {"kill", "write"}
      PROVE  accepted[idx] \in Clients /\ handler[accepted[idx]] # "none"
  <2>1. Len(accepted) = 2
    BY <1>5 DEF FatherInv
  <2>2. DOMAIN accepted = 1 .. 2 /\ accepted[idx] \in Clients
    BY <1>1, <2>1, BothAccepted
  <2>3. IsAccepted(accepted[idx])
    BY <1>1, <2>2 DEF IsAccepted
  <2> QED
    BY <2>2, <2>3 DEF FatherInv
<1>6. CASE KillHandler
  <2>1. father = "kill" /\ HandlerEnds(accepted[idx]) /\ UNCHANGED toC
    BY <1>6 DEF KillHandler
  <2>2. PICK c \in Clients : c = accepted[idx] /\ handler[c] # "none"
    BY <1>5, <2>1
  <2>3. handler' = [handler EXCEPT ![c] = "gone"] /\ toH' = [toH EXCEPT ![c] = <<>>]
    BY <2>1, <2>2 DEF HandlerEnds
  <2>4. CASE d # c
    <3>1. handler'[d] = handler[d] /\ toH'[d] = toH[d]
      BY <1>1, <2>3, <2>4
    <3> QED
      BY <1>1, <2>1, <3>1, LockFrame
  <2>5. CASE d = c
    <3>1. handler'[d] = "gone" /\ handler[d] # "none"
      BY <1>1, <2>2, <2>3, <2>5
    <3>2. client[d] \notin {"new", "refused"}
      BY <3>1 DEF LockStep
    <3>3. ASSUME Connected(d), ~ ClientGone(d), shorts = 0
          PROVE  Leftover(d)
      BY <3>1, <3>3, LeftBehind DEF LockStep, HandlerAlive
    <3>4. Leftover(d) => Leftover(d)'
      BY <1>1, <2>1 DEF Leftover, Set
    <3> QED
      BY <1>1, <1>2, <3>1, <3>2, <3>3, <3>4 DEF LockStep, HandlerAlive
  <2> QED
    BY <2>4, <2>5
<1>7. CASE WriteGE
  <2>1. father = "write" /\ UNCHANGED <<handler, toH>> /\ (HereWrites(accepted[idx], GE) \/ UNCHANGED toC)
    BY <1>7 DEF WriteGE
  <2>2. PICK c \in Clients : c = accepted[idx]
    BY <1>5, <2>1
  <2>3. CASE UNCHANGED toC
    BY <1>1, <2>1, <2>3, LockFrame
  <2>4. CASE toC' = [toC EXCEPT ![c] = Append(@, GE)]
    <3>1. CASE d # c
      <4>1. toC'[d] = toC[d]
        BY <1>1, <2>4, <3>1
      <4> QED
        BY <1>1, <2>1, <4>1, LockFrame
    <3>2. CASE d = c
      <4>1. handler[d] = "gone"
        <5>1. Len(accepted) = 2 /\ handler[accepted[1]] = "gone" /\ handler[accepted[2]] = "gone"
          BY <2>1 DEF FatherInv
        <5> QED
          BY <1>1, <2>2, <3>2, <5>1
      <4>2. /\ Len(toC'[d]) = Len(toC[d]) + 1 /\ Len(toC[d]) \in Nat
            /\ \A i \in 1 .. Len(toC[d]) : toC'[d][i] = toC[d][i]
            /\ toC'[d][Len(toC[d]) + 1] = GE
        BY <1>1, <2>4, <3>2, MessageTypes, AppendProperties, LenProperties
      <4>3. ASSUME Leftover(d), NEW i \in 1 .. Len(toC'[d])
            PROVE  toC'[d][i] = GE \/ (i \in 1 .. Len(toC[d]) /\ toC'[d][i] = toC[d][i])
        BY <4>2
      <4>4. Leftover(d) => Leftover(d)'
        BY <1>1, <4>3 DEF Leftover, Set
      <4>5. client[d] \notin {"new", "refused"}
        BY <4>1 DEF LockStep
      <4> QED
        BY <1>1, <1>2, <2>1, <4>1, <4>4, <4>5 DEF LockStep, HandlerAlive
    <3> QED
      BY <3>1, <3>2
  <2> QED
    BY <2>1, <2>2, <2>3, <2>4 DEF HereWrites
<1> QED
  BY <1>3, <1>4, <1>6, <1>7 DEF Father

LEMMA OthersLock ==
  ASSUME TypeOK, OtherStep, NEW d \in Clients, LockStep(d)
  PROVE  LockStep(d)'
<1>1. UNCHANGED <<client, handler, sent, toH, toC, shorts, torn>> /\ (father' = father \/ father' = "killed")
  BY DEF OtherStep, ReadTargets, ReadObstacles, TellEnd, CondemnHere, CloseWindow, CondemnThere, User, GameGoes,
         hereVars, thereVars, netVars
<1> QED
  BY <1>1, LockFrame DEF FatherDead

-----------------------------------------------------------------------------
(* The theorems.                                                           *)

LEMMA InitInv == Init => IndInv
<1> SUFFICES ASSUME Init
             PROVE  IndInv
  OBVIOUS
<1>1. TypeOK
  <2>1. HereTyped /\ OutOK /\ ThereTyped /\ NetTyped
    BY MessageTypes, EmptySeq, Constants DEF Init, HereTyped, OutOK, ThereTyped, NetTyped, SetNum, NoSet
  <2> QED
    BY <2>1, TypeParts
<1>2. FatherInv
  BY EmptySeq DEF Init, FatherInv, IsAccepted
<1>3. \A c \in Clients : LockStep(c)
  BY DEF Init, LockStep, Connected
<1> QED
  BY <1>1, <1>2, <1>3 DEF IndInv

LEMMA StepInv == IndInv /\ [Next]_vars => IndInv'
<1> SUFFICES ASSUME IndInv, [Next]_vars
             PROVE  IndInv'
  OBVIOUS
<1>1. TypeOK /\ FatherInv /\ \A c \in Clients : LockStep(c)
  BY DEF IndInv
<1>2. CASE Next
  <2>1. TypeOK' /\ FatherInv'
    BY <1>1, <1>2, Typed, FatherStep
  <2>2. ASSUME NEW d \in Clients
        PROVE  LockStep(d)'
    BY <1>1, <1>2, HandlerLock, ClientLock, FatherLock, OthersLock DEF Next, OtherStep
  <2> QED
    BY <2>1, <2>2 DEF IndInv
<1>3. CASE UNCHANGED vars
  <2>1. UNCHANGED <<dest, father, idx, accepted, handler, cur, passed, game, ge, out,
                    client, heard, sent, targets, feed, toH, toC, shorts, torn>>
    BY <1>3 DEF vars, hereVars, thereVars, netVars
  <2>2. TypeOK' /\ FatherInv'
    BY <1>1, <2>1 DEF TypeOK, FatherInv, IsAccepted
  <2>3. ASSUME NEW d \in Clients
        PROVE  LockStep(d)'
    BY <1>1, <2>1, LockFrame DEF FatherDead
  <2> QED
    BY <2>2, <2>3 DEF IndInv
<1> QED
  BY <1>2, <1>3

\* The inductive invariant: types, the father's progress, and what may be
\* between a client and its handler.
THEOREM IndInvAlways == Spec => []IndInv
BY InitInv, StepInv, PTL DEF Spec

\* Types of SocketLink for any number of sets, any pipe and any number of
\* faults.
THEOREM TypeCorrect == Spec => []TypeOK
<1>1. IndInv => TypeOK
  BY DEF IndInv
<1> QED
  BY <1>1, IndInvAlways, PTL

\* When the father has written GE and ended (socket.c:337) no handler is
\* alive, each of which has the socket that listens (socket.c:289).
THEOREM EndFreesPortAlways == Spec => []EndFreesPort
<1>1. IndInv => EndFreesPort
  <2> SUFFICES ASSUME IndInv, father = "ended", NEW c \in Clients
               PROVE  ~ HandlerAlive(c)
    BY DEF EndFreesPort
  <2>1. TypeOK /\ FatherInv
    BY DEF IndInv
  <2>2. Len(accepted) = 2 /\ handler[accepted[1]] = "gone" /\ handler[accepted[2]] = "gone"
    BY <2>1 DEF FatherInv
  <2>3. DOMAIN accepted = 1 .. 2
    BY <2>1, <2>2, BothAccepted
  <2>4. handler[c] # "none" => c = accepted[1] \/ c = accepted[2]
    BY <2>1, <2>3 DEF FatherInv, IsAccepted
  <2> QED
    BY <2>2, <2>4 DEF HandlerAlive
<1> QED
  BY <1>1, IndInvAlways, PTL

\* As long as no read is short, what a client reads is the answer to what it
\* has sent last, or GE.
THEOREM AnswersInStepAlways == Spec => []AnswersInStep
<1>1. IndInv => AnswersInStep
  <2> SUFFICES ASSUME IndInv, NEW c \in Clients,
                      client[c] \in {"greet", "size", "echo"}, toC[c] # <<>>, shorts = 0
               PROVE  Head(toC[c]) \in {Answer(c), GE}
    BY DEF AnswersInStep
  <2>1. TypeOK /\ LockStep(c) /\ Connected(c) /\ ~ ClientGone(c)
    BY DEF IndInv, Connected, ClientGone
  <2>2. toC[c] \in Seq(Messages)
    BY <2>1 DEF TypeOK
  <2>3. handler[c] # "none" /\ Leftover(c)
    BY <2>1, LeftBehind DEF LockStep, HandlerAlive
  <2>4. Head(toC[c]) = toC[c][1] /\ 1 \in 1 .. Len(toC[c])
    BY <2>2, EmptySeq
  <2>5. \/ toC[c][1] = GE
        \/ client[c] = "greet" /\ toC[c][1] = Echo
        \/ client[c] = "size"  /\ toC[c][1] = Size
        \/ client[c] = "echo"  /\ toC[c][1] = Set(c)
    BY <2>3, <2>4 DEF Leftover
  <2> QED
    BY <2>4, <2>5 DEF Answer, Echo, Size, Set
<1> QED
  BY <1>1, IndInvAlways, PTL
-----------------------------------------------------------------------------
(* Sets in order.                                                          *)

\* After the set a comes its successor, or a once more if the generators
\* are gone.
Linked(f, a, b) == b = Succ(a) \/ (b = a /\ f = 0)

\* A queue of sets without a gap, the last of which is n.
InChain(f, q, n) ==
  /\ \A i \in 1 .. Len(q) : q[i].kind = "set"
  /\ \A i \in 2 .. Len(q) : Linked(f, q[i - 1].n, q[i].n)
  /\ q # <<>> => q[Len(q)].n = n

\* The queue q, sent up to n, goes on where a was.
Follows(f, a, q, n) == IF q = <<>> THEN a = n ELSE Linked(f, a, Head(q).n)

\* The set the handler has read last.
Taken(c) == IF cur[c].kind = "set" THEN cur[c].n ELSE passed[c]

\* The queue of a handler that has not read the answer to the size yet.
SizeFirst(c) ==
  /\ toH[c] # <<>> /\ Head(toH[c]) = Size
  /\ InChain(feed, Tail(toH[c]), sent[c])

\* No set is missing between what the handler has passed on, what it holds
\* and what is on its way to it.
NoneMissing(c) ==
  /\ client[c] \notin {"new", "refused", "greet", "size"}
  /\ handler[c] = "pass" => cur[c].kind = "set"
  /\ InChain(feed, toH[c], sent[c])
  /\ cur[c].kind = "set" /\ passed[c] # NoSet => Linked(feed, passed[c], cur[c].n)
  /\ Taken(c) # NoSet => Follows(feed, Taken(c), toH[c], sent[c])

IdFirst(c) == client[c] = "greet" /\ toH[c] = <<Plain("id")>> /\ toC[c] = <<>>

\* What the sets of a client depend on, from its id to its last set.
Order(c) ==
  /\ handler[c] # "pass" => cur[c] = Blank
  /\ handler[c] \in {"none", "id", "size", "ack"} => passed[c] = NoSet
  /\ handler[c] = "none" /\ ~ FatherDead /\ Connected(c) => IdFirst(c)
  /\ handler[c] = "id" => IdFirst(c)
  /\ handler[c] \in {"size", "ack"} =>
       IF client[c] \in {"greet", "size"} THEN toH[c] = <<>> ELSE SizeFirst(c)
  /\ handler[c] \in {"read", "pass"} => NoneMissing(c)

OrderInv == IndInv /\ \A c \in Clients \ torn : Order(c)

\* Taking the first set, or sending another one, leaves a queue without gap.
LEMMA ChainTail ==
  ASSUME NEW f, NEW n, NEW q \in Seq(Messages), q # <<>>, InChain(f, q, n)
  PROVE  /\ Head(q).kind = "set"
         /\ InChain(f, Tail(q), n)
         /\ Follows(f, Head(q).n, Tail(q), n)
<1>1. /\ Len(q) \in Nat /\ Len(q) >= 1 /\ Head(q) = q[1]
      /\ Tail(q) \in Seq(Messages) /\ Len(Tail(q)) = Len(q) - 1
      /\ \A i \in 1 .. Len(Tail(q)) : Tail(q)[i] = q[i + 1]
  BY HeadTailProperties, LenProperties, EmptySeq
<1>2. Head(q).kind = "set"
  BY <1>1 DEF InChain
<1>3. \A i \in 1 .. Len(Tail(q)) : Tail(q)[i].kind = "set"
  BY <1>1 DEF InChain
<1>4. ASSUME NEW i \in 2 .. Len(Tail(q))
      PROVE  Linked(f, Tail(q)[i - 1].n, Tail(q)[i].n)
  <2>1. Tail(q)[i] = q[i + 1] /\ Tail(q)[i - 1] = q[(i - 1) + 1] /\ (i - 1) + 1 = (i + 1) - 1
    BY <1>1
  <2>2. i + 1 \in 2 .. Len(q)
    BY <1>1
  <2>3. Linked(f, q[(i + 1) - 1].n, q[i + 1].n)
    BY <2>2 DEF InChain
  <2> QED
    BY <2>1, <2>3, Zenon
<1>5. Tail(q) = <<>> <=> Len(q) = 1
  BY <1>1, EmptySeq
<1>6. ASSUME Tail(q) # <<>>
      PROVE  Tail(q)[Len(Tail(q))] = q[Len(q)] /\ Head(Tail(q)) = q[2] /\ 2 \in 2 .. Len(q)
  <2>1. Len(Tail(q)) \in 1 .. Len(Tail(q)) /\ Len(Tail(q)) + 1 = Len(q) /\ 1 \in 1 .. Len(Tail(q))
    BY <1>1, <1>5, <1>6
  <2>2. Head(Tail(q)) = Tail(q)[1]
    BY <1>1, <1>6, HeadTailProperties
  <2> QED
    BY <1>1, <2>1, <2>2
<1>7. InChain(f, Tail(q), n)
  BY <1>3, <1>4, <1>6 DEF InChain
<1>8. Follows(f, Head(q).n, Tail(q), n)
  <2>1. CASE Tail(q) = <<>>
    BY <1>1, <1>5, <2>1 DEF Follows, InChain
  <2>2. CASE Tail(q) # <<>>
    <3>1. Linked(f, q[2 - 1].n, q[2].n)
      BY <1>6, <2>2 DEF InChain
    <3>2. q[2 - 1] = Head(q)
      BY <1>1
    <3> QED
      BY <1>6, <2>2, <3>1, <3>2, Zenon DEF Follows
  <2> QED
    BY <2>1, <2>2
<1> QED
  BY <1>2, <1>7, <1>8

LEMMA ChainAppend ==
  ASSUME NEW f, NEW n, NEW q \in Seq(Messages), NEW m \in Messages,
         InChain(f, q, n), m.kind = "set", Linked(f, n, m.n)
  PROVE  /\ InChain(f, Append(q, m), m.n)
         /\ \A a : Follows(f, a, q, n) => Follows(f, a, Append(q, m), m.n)
<1> DEFINE r == Append(q, m)
<1>1. /\ Len(q) \in Nat /\ Len(r) = Len(q) + 1 /\ r # <<>> /\ r \in Seq(Messages)
      /\ \A i \in 1 .. Len(q) : r[i] = q[i]
      /\ r[Len(q) + 1] = m
  BY AppendProperties, LenProperties
<1>2. q = <<>> <=> Len(q) = 0
  BY EmptySeq
<1>3. Head(r) = r[1]
  BY <1>1
<1> HIDE DEF r
<1>4. ASSUME NEW i \in 1 .. Len(r)
      PROVE  r[i].kind = "set"
  <2>1. i \in 1 .. Len(q) \/ i = Len(q) + 1
    BY <1>1
  <2> QED
    BY <1>1, <2>1 DEF InChain
<1>5. ASSUME NEW i \in 2 .. Len(r)
      PROVE  Linked(f, r[i - 1].n, r[i].n)
  <2>1. CASE i \in 2 .. Len(q)
    <3>1. r[i] = q[i] /\ r[i - 1] = q[i - 1]
      BY <1>1, <2>1
    <3>2. Linked(f, q[i - 1].n, q[i].n)
      BY <2>1 DEF InChain
    <3> QED
      BY <3>1, <3>2, Zenon
  <2>2. CASE i = Len(q) + 1
    <3>1. r[i] = m /\ r[i - 1] = q[Len(q)] /\ Len(q) # 0
      BY <1>1, <2>2
    <3>2. q[Len(q)].n = n
      BY <1>2, <3>1 DEF InChain
    <3> QED
      BY <3>1, <3>2, Zenon
  <2> QED
    BY <1>1, <2>1, <2>2
<1>6. InChain(f, r, m.n)
  BY <1>1, <1>4, <1>5 DEF InChain
<1>7. ASSUME NEW a, Follows(f, a, q, n)
      PROVE  Follows(f, a, r, m.n)
  <2>1. CASE q = <<>>
    <3>1. Head(r) = m
      BY <1>1, <1>2, <1>3, <2>1
    <3>2. a = n
      BY <1>7, <2>1 DEF Follows
    <3> QED
      BY <1>1, <3>1, <3>2 DEF Follows
  <2>2. CASE q # <<>>
    <3>1. Head(r) = Head(q)
      BY <1>1, <1>2, <1>3, <2>2
    <3> QED
      BY <1>1, <1>7, <2>2, <3>1 DEF Follows
  <2> QED
    BY <2>1, <2>2
<1> QED
  BY <1>6, <1>7 DEF r

\* A queue without gap remains one when the generators are killed.
LEMMA ChainFeed ==
  ASSUME NEW f
  PROVE  /\ \A a, b : Linked(f, a, b) => Linked(0, a, b)
         /\ \A q, n : InChain(f, q, n) => InChain(0, q, n)
         /\ \A a, q, n : Follows(f, a, q, n) => Follows(0, a, q, n)
<1>1. \A a, b : Linked(f, a, b) => Linked(0, a, b)
  BY DEF Linked
<1> QED
  BY <1>1, Zenon DEF InChain, Follows

\* Two places next to each other, the second of them not behind the last.
LEMMA BeforeLast ==
  ASSUME NEW n \in Nat, NEW k, k = n - 1, NEW i \in 1 .. n, i # n
  PROVE  i \in 1 .. k /\ i + 1 \in 1 .. n
OBVIOUS

\* What is appended to a queue that is not empty leaves its head alone.
LEMMA TailAppend ==
  ASSUME NEW q \in Seq(Messages), NEW m \in Messages, q # <<>>
  PROVE  /\ Tail(Append(q, m)) = Append(Tail(q), m) /\ Tail(q) \in Seq(Messages)
         /\ Append(q, m) # <<>> /\ Head(Append(q, m)) = Head(q)
<1> DEFINE r == Append(q, m)
<1>1. /\ Len(q) \in Nat /\ Len(r) = Len(q) + 1 /\ r # <<>> /\ r \in Seq(Messages)
      /\ \A i \in 1 .. Len(q) : r[i] = q[i]
      /\ r[Len(q) + 1] = m
  BY AppendProperties, LenProperties
<1>2. Head(r) = r[1] /\ Len(q) # 0 /\ Head(q) = q[1]
  BY <1>1, EmptySeq
<1> HIDE DEF r
<1>3. Head(r) = Head(q)
  BY <1>1, <1>2
<1>4. Tail(r) = Append(Tail(q), m) /\ Tail(q) \in Seq(Messages)
  <2>1. /\ Tail(q) \in Seq(Messages) /\ Len(Tail(q)) = Len(q) - 1
        /\ \A i \in 1 .. Len(Tail(q)) : Tail(q)[i] = q[i + 1]
    BY HeadTailProperties
  <2>2. /\ Tail(r) \in Seq(Messages) /\ Len(Tail(r)) = Len(r) - 1
        /\ \A i \in 1 .. Len(Tail(r)) : Tail(r)[i] = r[i + 1]
    BY <1>1, HeadTailProperties
  <2>3. /\ Append(Tail(q), m) \in Seq(Messages) /\ Len(Append(Tail(q), m)) = Len(Tail(q)) + 1
        /\ \A i \in 1 .. Len(Tail(q)) : Append(Tail(q), m)[i] = Tail(q)[i]
        /\ Append(Tail(q), m)[Len(Tail(q)) + 1] = m
    BY <2>1, AppendProperties
  <2>4. Len(Tail(r)) = Len(Append(Tail(q), m)) /\ Len(Tail(r)) = Len(q)
    BY <1>1, <2>1, <2>2, <2>3
  <2>5. ASSUME NEW i \in 1 .. Len(q)
        PROVE  Tail(r)[i] = Append(Tail(q), m)[i]
    <3>1. Tail(r)[i] = r[i + 1]
      BY <2>2, <2>4
    <3>2. CASE i = Len(q)
      <4>1. Len(q) \in Nat /\ Len(Tail(q)) = Len(q) - 1
        BY <1>1, <2>1
      <4>2. Len(Tail(q)) + 1 = i /\ i + 1 = Len(q) + 1
        BY <3>2, <4>1
      <4>3. Append(Tail(q), m)[i] = m
        BY <2>3, <4>2
      <4>4. Tail(r)[i] = m
        BY <1>1, <3>1, <4>2
      <4> QED
        BY <4>3, <4>4
    <3>3. CASE i # Len(q)
      <4>1. Len(q) \in Nat /\ Len(Tail(q)) = Len(q) - 1
        BY <1>1, <2>1
      <4>2. i \in 1 .. Len(Tail(q)) /\ i + 1 \in 1 .. Len(q)
        BY <3>3, <4>1, BeforeLast, Zenon
      <4>3. Append(Tail(q), m)[i] = q[i + 1]
        BY <2>1, <2>3, <4>2
      <4>4. Tail(r)[i] = q[i + 1]
        BY <1>1, <3>1, <4>2
      <4> QED
        BY <4>3, <4>4
    <3> QED
      BY <3>2, <3>3
  <2> QED
    BY <2>1, <2>2, <2>3, <2>4, <2>5, SeqEqual
<1> QED
  BY <1>1, <1>3, <1>4 DEF r

\* A handler that has not had a short read takes whole messages.
LEMMA UntornReads ==
  ASSUME TypeOK, NEW c \in Clients, NEW a \in Arrivals(toH[c]), HandlerReads(c, a),
         c \notin torn', Head(toH[c]) \notin Remains
  PROVE  /\ toH[c] # <<>> /\ toH[c] \in Seq(Messages)
         /\ a.msg = Head(toH[c]) /\ toH'[c] = Tail(toH[c])
<1>1. toH \in [Clients -> Seq(Messages)]
  BY DEF TypeOK
<1>2. a.short \in {0, 1}
  BY <1>1, ArrivalTypes
<1>3. a.short = 0
  BY <1>2 DEF HandlerReads
<1>4. toH[c] # <<>> /\ a.msg = Head(toH[c]) /\ a.left = Tail(toH[c])
  BY <1>1, <1>3, WholeArrival
<1> QED
  BY <1>1, <1>4 DEF HandlerReads

\* A channel that a step does not touch keeps its order.
LEMMA OrderFrame ==
  ASSUME NEW d \in Clients, Order(d),
         client'[d] = client[d], handler'[d] = handler[d], sent'[d] = sent[d],
         cur'[d] = cur[d], passed'[d] = passed[d], toH'[d] = toH[d],
         handler[d] \in {"none", "id"} => toC'[d] = toC[d],
         feed' = feed \/ feed' = 0, FatherDead => FatherDead'
  PROVE  Order(d)'
<1>1. /\ Connected(d)' <=> Connected(d)
      /\ Taken(d)' = Taken(d)
  BY DEF Connected, Taken
<1>2. SizeFirst(d) => SizeFirst(d)'
  BY ChainFeed, Zenon DEF SizeFirst
<1>3. NoneMissing(d) => NoneMissing(d)'
  <2> SUFFICES ASSUME NoneMissing(d)
               PROVE  NoneMissing(d)'
    OBVIOUS
  <2>1. InChain(feed, toH[d], sent[d])'
    BY ChainFeed, Zenon DEF NoneMissing
  <2>2. (cur[d].kind = "set" /\ passed[d] # NoSet => Linked(feed, passed[d], cur[d].n))'
    BY ChainFeed, Zenon DEF NoneMissing
  <2>3. (Taken(d) # NoSet => Follows(feed, Taken(d), toH[d], sent[d]))'
    BY <1>1, ChainFeed, Zenon DEF NoneMissing
  <2> QED
    BY <2>1, <2>2, <2>3 DEF NoneMissing
<1>4. IdFirst(d) /\ handler[d] \in {"none", "id"} => IdFirst(d)'
  BY DEF IdFirst
<1> QED
  BY <1>1, <1>2, <1>3, <1>4, Zenon DEF Order

\* A handler that is gone has no order to keep.
LEMMA GoneOrder ==
  ASSUME TypeOK, NEW c \in Clients, HandlerEnds(c)
  PROVE  Order(c)'
<1>1. /\ handler \in [Clients -> {"none", "id", "size", "ack", "read", "pass", "gone"}]
      /\ cur \in [Clients -> Messages]
  BY DEF TypeOK
<1>2. handler'[c] = "gone" /\ cur'[c] = Blank
  BY <1>1 DEF HandlerEnds
<1> QED
  BY <1>2 DEF Order

\* A set the handler reads is the next one of the queue.
LEMMA EchoOrder ==
  ASSUME TypeOK, NEW c \in Clients, EchoSet(c), c \notin torn', Order(c)
  PROVE  Order(c)'
<1>1. /\ handler \in [Clients -> {"none", "id", "size", "ack", "read", "pass", "gone"}]
      /\ cur \in [Clients -> Messages] /\ toH \in [Clients -> Seq(Messages)]
  BY DEF TypeOK
<1>2. /\ handler[c] = "read" /\ handler'[c] = "pass"
      /\ UNCHANGED <<client, sent, feed, passed>>
  BY <1>1 DEF EchoSet, HandlerGoes, thereVars
<1>3. PICK a \in Arrivals(toH[c]) : HandlerReads(c, a) /\ cur' = [cur EXCEPT ![c] = a.msg]
  BY DEF EchoSet
<1>4. NoneMissing(c) /\ cur[c] = Blank
  BY <1>2 DEF Order
<1>5. toH[c] \in Seq(Messages) /\ toH[c] # <<>>
  BY <1>1, <1>3, ArrivalCases
<1>6. /\ Head(toH[c]).kind = "set"
      /\ InChain(feed, Tail(toH[c]), sent[c])
      /\ Follows(feed, Head(toH[c]).n, Tail(toH[c]), sent[c])
  <2>1. InChain(feed, toH[c], sent[c])
    BY <1>4 DEF NoneMissing
  <2> QED
    BY <1>5, <2>1, ChainTail
<1>7. Head(toH[c]) \notin Remains
  BY <1>6 DEF Remains, Rest, Scrap, Plain, Message
<1>8. a.msg = Head(toH[c]) /\ toH'[c] = Tail(toH[c])
  BY <1>3, <1>7, UntornReads
<1>9. cur'[c] = Head(toH[c])
  BY <1>1, <1>3, <1>8
<1>10. passed[c] # NoSet => Linked(feed, passed[c], Head(toH[c]).n)
  <2>1. Taken(c) = passed[c]
    BY <1>4 DEF Taken, Blank, Plain, Message
  <2> QED
    BY <1>4, <1>5, <2>1 DEF NoneMissing, Follows
<1>11. (cur[c].kind = "set" /\ passed[c] # NoSet => Linked(feed, passed[c], cur[c].n))'
  BY <1>2, <1>9, <1>10
<1>12. (Taken(c) # NoSet => Follows(feed, Taken(c), toH[c], sent[c]))'
  <2>1. Taken(c)' = Head(toH[c]).n
    BY <1>6, <1>9 DEF Taken
  <2> QED
    BY <1>2, <1>6, <1>8, <2>1
<1>13. NoneMissing(c)'
  BY <1>2, <1>4, <1>6, <1>8, <1>9, <1>11, <1>12 DEF NoneMissing
<1> QED
  BY <1>2, <1>13 DEF Order

\* What it passes on goes on where it was, and so does what comes next.
LEMMA PassOrder ==
  ASSUME TypeOK, NEW c \in Clients, PassOn(c), Order(c)
  PROVE  Order(c)'
<1>1. /\ handler \in [Clients -> {"none", "id", "size", "ack", "read", "pass", "gone"}]
      /\ cur \in [Clients -> Messages] /\ passed \in [Clients -> SetNum \cup {NoSet}]
  BY DEF TypeOK
<1>2. Blank.kind # "set"
  BY DEF Blank, Plain, Message
<1>3. /\ handler[c] = "pass" /\ handler'[c] = "read" /\ cur'[c] = Blank
      /\ UNCHANGED <<client, sent, feed, toH>> /\ passed'[c] = cur[c].n
  BY <1>1 DEF PassOn, HandlerGoes, thereVars, netVars
<1>4. NoneMissing(c) /\ cur[c].kind = "set"
  BY <1>3 DEF Order, NoneMissing
<1>5. Taken(c)' = Taken(c)
  BY <1>2, <1>3, <1>4 DEF Taken
<1>6. (Taken(c) # NoSet => Follows(feed, Taken(c), toH[c], sent[c]))'
  BY <1>3, <1>4, <1>5 DEF NoneMissing
<1>7. NoneMissing(c)'
  BY <1>2, <1>3, <1>4, <1>6 DEF NoneMissing
<1> QED
  BY <1>3, <1>7 DEF Order

\* It holds a set, so nothing else can happen to what it has read.
LEMMA HoldsSet ==
  ASSUME NEW c \in Clients, Order(c), PassNothing(c) \/ PassBlank(c)
  PROVE  FALSE
<1>1. handler[c] = "pass" /\ cur[c].kind # "set"
  BY DEF PassNothing, PassBlank, HandlerGoes, Junk, Plain, Message
<1> QED
  BY <1>1 DEF Order, NoneMissing

\* No handler brings the sets out of order.
LEMMA HandlerOrder ==
  ASSUME TypeOK, NEW c \in Clients, Handler(c), NEW d \in Clients, d \notin torn', LockStep(d), Order(d)
  PROVE  Order(d)'
<1>1. /\ UNCHANGED <<client, sent, feed, father>>
      /\ handler \in [Clients -> {"none", "id", "size", "ack", "read", "pass", "gone"}]
      /\ cur \in [Clients -> Messages] /\ passed \in [Clients -> SetNum \cup {NoSet}]
      /\ toH \in [Clients -> Seq(Messages)] /\ toC \in [Clients -> Seq(Messages)]
  BY DEF TypeOK, Handler, EchoId, SendSize, ReadAck, EchoSet, PassOn, PassNothing, PassBlank, PassToNobody, HangUp,
         HandlerGoes, thereVars
<1>2. ASSUME d # c
      PROVE  Order(d)'
  <2>1. handler'[d] = handler[d]
    BY <1>1, <1>2 DEF Handler, EchoId, SendSize, ReadAck, EchoSet, PassOn, PassNothing, PassBlank, PassToNobody, HangUp, HandlerGoes, HandlerEnds
  <2>2. toH'[d] = toH[d]
    BY <1>1, <1>2 DEF Handler, EchoId, SendSize, ReadAck, EchoSet, PassOn, PassNothing, PassBlank, PassToNobody, HangUp, HandlerReads, HandlerEnds, netVars
  <2>3. toC'[d] = toC[d]
    BY <1>1, <1>2 DEF Handler, EchoId, SendSize, ReadAck, EchoSet, PassOn, PassNothing, PassBlank, PassToNobody, HangUp, HereWrites, netVars
  <2>4. cur'[d] = cur[d]
    BY <1>1, <1>2 DEF Handler, EchoId, SendSize, ReadAck, EchoSet, PassOn, PassNothing, PassBlank, PassToNobody, HangUp, HandlerEnds
  <2>5. passed'[d] = passed[d]
    BY <1>1, <1>2 DEF Handler, EchoId, SendSize, ReadAck, EchoSet, PassOn, PassNothing, PassBlank, PassToNobody, HangUp
  <2> QED
    BY <1>1, <2>1, <2>2, <2>3, <2>4, <2>5, OrderFrame DEF FatherDead
<1>3. CASE EchoId(c) /\ d = c
  <2>1. PICK a \in Arrivals(toH[c]) : HandlerReads(c, a)
    BY <1>3 DEF EchoId
  <2>2. handler[c] = "id" /\ handler'[c] = "size" /\ UNCHANGED <<cur, passed>>
    BY <1>1, <1>3 DEF EchoId, HandlerGoes
  <2>3. client[c] = "greet" /\ toH[c] = <<Plain("id")>> /\ cur[c] = Blank /\ passed[c] = NoSet
    BY <1>3, <2>2 DEF Order, IdFirst
  <2>4. Head(toH[c]) \notin Remains /\ Tail(toH[c]) = <<>>
    BY <2>3, MessageTypes, ShortSequences, Distinct
  <2>5. toH'[c] = <<>>
    BY <1>3, <2>1, <2>4, UntornReads
  <2> QED
    BY <1>1, <1>3, <2>2, <2>3, <2>5 DEF Order
<1>4. CASE SendSize(c) /\ d = c
  <2>1. handler[c] = "size" /\ handler'[c] = "ack" /\ UNCHANGED <<cur, passed, toH>>
    BY <1>1, <1>4 DEF SendSize, HandlerGoes
  <2>2. SizeFirst(c) => SizeFirst(c)'
    BY <1>1, <2>1 DEF SizeFirst
  <2> QED
    BY <1>1, <1>4, <2>1, <2>2 DEF Order
<1>5. CASE ReadAck(c) /\ d = c
  <2>1. handler[c] = "ack" /\ handler'[c] = "read" /\ UNCHANGED <<cur, passed>>
    BY <1>1, <1>5 DEF ReadAck, HandlerGoes
  <2>2. PICK a \in Arrivals(toH[c]) : HandlerReads(c, a)
    BY <1>5 DEF ReadAck
  <2>3. toH[c] # <<>>
    BY <2>2, ArrivalCases
  <2>4. client[c] \notin {"greet", "size"} /\ SizeFirst(c) /\ cur[c] = Blank /\ passed[c] = NoSet
    BY <1>5, <2>1, <2>3 DEF Order
  <2>5. client[c] \notin {"new", "refused"}
    BY <1>5, <2>1 DEF LockStep
  <2>6. toH'[c] = Tail(toH[c])
    BY <1>5, <2>2, <2>4, UntornReads, Distinct DEF SizeFirst
  <2>7. Taken(c)' = NoSet /\ cur'[c].kind # "set"
    BY <2>1, <2>4 DEF Taken, Blank, Plain, Message
  <2>8. NoneMissing(c)'
    BY <1>1, <2>1, <2>4, <2>5, <2>6, <2>7 DEF NoneMissing, SizeFirst
  <2> QED
    BY <1>5, <2>1, <2>4, <2>8 DEF Order
<1>6. CASE PassToNobody(c) \/ HangUp(c)
  <2>1. HandlerEnds(c)
    BY <1>6 DEF PassToNobody, HangUp
  <2> QED
    BY <1>2, <2>1, GoneOrder
<1> QED
  BY <1>2, <1>3, <1>4, <1>5, <1>6, EchoOrder, PassOrder, HoldsSet DEF Handler

\* A client that waits for the echo of its id can do nothing before the
\* handler has read it.
LEMMA WaitsForId ==
  ASSUME NEW c \in Clients, IdFirst(c), Held(c), Client(c)
  PROVE  FALSE
<1>1. client[c] = "greet" /\ toC[c] = <<>>
  BY DEF IdFirst
<1>2. Arrivals(toC[c]) = {}
  BY <1>1 DEF Arrivals
<1>3. ~ EndOfFile(c)
  BY DEF EndOfFile
<1> QED
  BY <1>1, <1>2, <1>3 DEF Client, Connect, ReadGreet, ReadSize, SendSet, SendStale, ReadEcho, Break, ClientGoes

\* What a client sends is the next set, or the one before once more if its
\* generator is gone.
LEMMA SendsLinked ==
  ASSUME TypeOK, NEW c \in Clients, SendSet(c) \/ SendStale(c), HandlerAlive(c)
  PROVE  /\ client[c] = "select" /\ client'[c] = "echo" /\ UNCHANGED feed
         /\ toH'[c] = Append(toH[c], Message("set", sent'[c]))
         /\ Message("set", sent'[c]) \in Messages
         /\ Linked(feed, sent[c], sent'[c])
<1>1. /\ client \in [Clients -> {"new", "greet", "size", "select", "echo", "ended", "gone", "refused"}]
      /\ toH \in [Clients -> Seq(Messages)] /\ sent \in [Clients -> SetNum \cup {NoSet}]
  BY DEF TypeOK
<1>2. client[c] = "select" /\ client'[c] = "echo" /\ UNCHANGED feed
  BY <1>1 DEF SendSet, SendStale, ClientGoes
<1>3. \A m : ClientWrites(c, m) => toH'[c] = Append(toH[c], m)
  BY <1>1 DEF ClientWrites, Held, HandlerAlive, Inherits
<1>4. CASE SendSet(c)
  <2>1. sent'[c] = Succ(sent[c]) /\ ClientWrites(c, Message("set", sent'[c]))
    BY <1>1, <1>4 DEF SendSet
  <2>2. sent'[c] \in SetNum
    BY <1>1, <2>1, Successor
  <2> QED
    BY <1>2, <1>3, <2>1, <2>2, MessageTypes DEF Linked
<1>5. CASE SendStale(c)
  <2>1. sent' = sent /\ feed = 0 /\ ClientWrites(c, Message("set", sent[c]))
    BY <1>5 DEF SendStale
  <2>2. sent'[c] = sent[c] /\ sent[c] \in SetNum \cup {NoSet} /\ ClientWrites(c, Message("set", sent'[c]))
    BY <1>1, <2>1
  <2> QED
    BY <1>2, <1>3, <2>1, <2>2, MessageTypes DEF Linked
<1> QED
  BY <1>4, <1>5

\* A set that is sent goes to the end of the queue, and leaves no gap.
LEMMA SendOrder ==
  ASSUME TypeOK, NEW c \in Clients, SendSet(c) \/ SendStale(c), HandlerAlive(c), Order(c),
         UNCHANGED <<handler, cur, passed>>
  PROVE  Order(c)'
<1> DEFINE m == Message("set", sent'[c])
<1>1. toH[c] \in Seq(Messages)
  BY DEF TypeOK
<1>2. /\ client[c] = "select" /\ client'[c] = "echo" /\ UNCHANGED feed
      /\ toH'[c] = Append(toH[c], m) /\ m \in Messages /\ Linked(feed, sent[c], m.n)
      /\ m.kind = "set" /\ m.n = sent'[c]
  BY SendsLinked DEF Message
<1> HIDE DEF m
<1>3. ASSUME NEW q \in Seq(Messages), InChain(feed, q, sent[c])
      PROVE  /\ InChain(feed, Append(q, m), sent'[c])
             /\ \A a : Follows(feed, a, q, sent[c])
                         => Follows(feed, a, Append(q, m), sent'[c])
  BY <1>2, <1>3, ChainAppend
<1>4. SizeFirst(c) => SizeFirst(c)'
  BY <1>1, <1>2, <1>3, TailAppend DEF SizeFirst
<1>5. Taken(c)' = Taken(c)
  BY DEF Taken
<1>6. NoneMissing(c) => NoneMissing(c)'
  BY <1>1, <1>2, <1>3, <1>5 DEF NoneMissing
<1> QED
  BY <1>2, <1>4, <1>6 DEF Order, HandlerAlive, IdFirst

\* An empty queue has no gap.
LEMMA EmptyChain == \A f, n : InChain(f, <<>>, n)
<1>1. Len(<<>>) = 0
  OBVIOUS
<1> QED
  BY <1>1 DEF InChain

\* No client does.
LEMMA ClientOrder ==
  ASSUME TypeOK, FatherInv, NEW c \in Clients, Client(c), NEW d \in Clients, LockStep(d), Order(d)
  PROVE  Order(d)'
<1>1. /\ client \in [Clients -> {"new", "greet", "size", "select", "echo", "ended", "gone", "refused"}]
      /\ handler \in [Clients -> {"none", "id", "size", "ack", "read", "pass", "gone"}]
      /\ father \in {"down", "accept", "wait", "kill", "write", "ended", "killed"}
      /\ toH \in [Clients -> Seq(Messages)]
  BY DEF TypeOK
<1>2. UNCHANGED <<father, handler, cur, passed, feed>>
  BY DEF Client, Connect, ReadGreet, ReadSize, SendSet, SendStale, ReadEcho, Break, ClientGoes, hereVars
<1>3. ASSUME d # c
      PROVE  Order(d)'
  <2>1. client'[d] = client[d] /\ sent'[d] = sent[d] /\ toH'[d] = toH[d] /\ toC'[d] = toC[d]
    BY <1>3, ClientFrame
  <2> QED
    BY <1>2, <2>1, OrderFrame DEF FatherDead
<1>4. ASSUME d = c
      PROVE  LockStep(c) /\ Order(c)
  BY <1>4
<1>5. ASSUME d = c, handler[c] = "none"
      PROVE  Order(c)'
  <2>1. cur'[c] = Blank /\ passed'[c] = NoSet /\ handler'[c] = "none"
    BY <1>2, <1>4, <1>5 DEF Order
  <2>2. CASE FatherDead
    BY <1>2, <2>1, <2>2 DEF Order, FatherDead
  <2>3. CASE ~ FatherDead /\ Connect(c)
    <3>1. client[c] = "new" /\ toC'[c] = <<>> /\ (client'[c] = "greet" => toH'[c] = <<Plain("id")>>)
      BY <1>4, <1>5, <2>3, ConnectSendsId
    <3>2. client'[c] \in {"greet", "refused"}
      BY <1>1, <2>3 DEF Connect, ClientGoes
    <3> QED
      BY <2>1, <3>1, <3>2 DEF Order, IdFirst, Connected
  <2>4. CASE ~ FatherDead /\ ~ Connect(c)
    <3>1. Connected(c)
      BY <2>4 DEF Client, ReadGreet, ReadSize, SendSet, SendStale, ReadEcho, Break, ClientGoes, Connected
    <3>2. IdFirst(c)
      BY <1>4, <1>5, <2>4, <3>1 DEF Order
    <3>3. father # "down"
      BY <3>2 DEF FatherInv, IdFirst
    <3>4. Held(c)
      BY <1>1, <2>4, <3>3 DEF Held, FatherAlive, FatherDead
    <3> QED
      BY <3>2, <3>4, WaitsForId
  <2> QED
    BY <2>2, <2>3, <2>4
<1>6. ASSUME d = c, HandlerAlive(c)
      PROVE  Order(c)'
  <2>1. Held(c)
    BY <1>6 DEF Held, Inherits
  <2>2. handler[c] # "id"
    BY <1>4, <1>6, <2>1, WaitsForId DEF Order
  <2>3. Connected(c)
    BY <1>4, <1>6 DEF Connected, HandlerAlive, LockStep
  <2>4. ~ Connect(c)
    BY <2>3 DEF Connect, ClientGoes, Connected
  <2>5. CASE SendSet(c) \/ SendStale(c)
    BY <1>2, <1>4, <1>6, <2>5, SendOrder
  <2>6. CASE ReadGreet(c)
    <3>1. client[c] = "greet" /\ client'[c] = "size" /\ toH'[c] = toH[c]
      BY <1>1, <2>6 DEF ReadGreet, ClientGoes
    <3> QED
      BY <1>2, <1>4, <1>6, <2>2, <3>1 DEF Order, HandlerAlive, NoneMissing
  <2>7. CASE ReadSize(c)
    <3>1. client[c] = "size" /\ client'[c] = "select" /\ ClientWrites(c, Size)
      BY <1>1, <2>7 DEF ReadSize, ClientGoes, Size
    <3>2. handler[c] \in {"size", "ack"} /\ toH[c] = <<>>
      BY <1>1, <1>4, <1>6, <2>2, <3>1 DEF Order, HandlerAlive, NoneMissing
    <3>3. toH'[c] = Append(<<>>, Size)
      BY <1>1, <1>6, <2>1, <3>1, <3>2 DEF ClientWrites, HandlerAlive
    <3>4. toH'[c] # <<>> /\ Head(toH'[c]) = Size /\ Tail(toH'[c]) = <<>>
      BY <3>3, ProtocolMessages, ShortSequences
    <3>5. SizeFirst(c)'
      <4>1. InChain(feed', Tail(toH'[c]), sent'[c])
        BY <3>4, EmptyChain, Zenon
      <4> QED
        BY <3>4, <4>1 DEF SizeFirst
    <3>6. cur[c] = Blank /\ passed[c] = NoSet
      BY <1>4, <1>6, <3>2 DEF Order
    <3>7. /\ handler'[c] \in {"size", "ack"} /\ client'[c] \notin {"greet", "size"}
          /\ cur'[c] = Blank /\ passed'[c] = NoSet
      BY <1>2, <3>1, <3>2, <3>6
    <3> HIDE DEF SizeFirst
    <3> QED
      BY <3>5, <3>7 DEF Order
  <2>8. CASE ReadEcho(c) \/ Break(c)
    <3>1. /\ client[c] \in {"select", "echo"} /\ client'[c] \in {"select", "ended", "gone"}
          /\ UNCHANGED <<toH, sent>>
      <4>1. Break(c) => client[c] = "select"
        BY <2>1 DEF Break, ClientGoes
      <4>2. UNCHANGED <<toH, sent>>
        BY <2>8 DEF ReadEcho, Break, netVars
      <4>3. ReadEcho(c) => client[c] = "echo" /\ client'[c] \in {"ended", "select"}
        BY <1>1 DEF ReadEcho, ClientGoes
      <4>4. Break(c) => client'[c] = "gone"
        BY <1>1 DEF Break, ClientGoes
      <4> QED
        BY <2>8, <4>1, <4>2, <4>3, <4>4
    <3>2. SizeFirst(c) => SizeFirst(c)'
      BY <1>2, <3>1 DEF SizeFirst
    <3>3. NoneMissing(c) => NoneMissing(c)'
      BY <1>2, <3>1 DEF NoneMissing, Taken
    <3> QED
      BY <1>2, <1>4, <1>6, <2>2, <3>1, <3>2, <3>3 DEF Order, HandlerAlive
  <2> QED
    BY <2>4, <2>5, <2>6, <2>7, <2>8 DEF Client
<1>7. ASSUME d = c, handler[c] = "gone"
      PROVE  Order(c)'
  BY <1>2, <1>4, <1>7 DEF Order
<1> QED
  BY <1>3, <1>5, <1>6, <1>7 DEF HandlerAlive

\* Nor does the father.
LEMMA FatherOrder ==
  ASSUME TypeOK, FatherInv, Father, NEW d \in Clients, LockStep(d), Order(d)
  PROVE  Order(d)'
<1>1. /\ UNCHANGED <<client, sent, feed, passed>> /\ (FatherDead => FatherDead')
      /\ handler \in [Clients -> {"none", "id", "size", "ack", "read", "pass", "gone"}]
      /\ toH \in [Clients -> Seq(Messages)] /\ toC \in [Clients -> Seq(Messages)]
      /\ cur \in [Clients -> Messages]
      /\ accepted \in Seq(Clients) /\ idx \in 1 .. 2
  BY DEF TypeOK, Father, Listen, Accept, HearEnd, KillHandler, WriteGE, FatherGoes, FatherDead, thereVars
<1>2. CASE Listen \/ HearEnd
  BY <1>1, <1>2, OrderFrame DEF Listen, HearEnd
<1>3. ASSUME NEW c \in Clients, Accept(c)
      PROVE  Order(d)'
  <2>1. /\ father = "accept" /\ Connected(c) /\ ~ IsAccepted(c)
        /\ handler' = [handler EXCEPT ![c] = "id"] /\ UNCHANGED <<cur, toH, toC>>
    BY <1>3 DEF Accept, FatherGoes
  <2>2. CASE d # c
    <3>1. handler'[d] = handler[d]
      BY <1>1, <2>1, <2>2
    <3> QED
      BY <1>1, <2>1, <3>1, OrderFrame
  <2>3. CASE d = c
    <3>1. handler[c] = "none" /\ handler'[c] = "id"
      BY <1>1, <2>1 DEF FatherInv
    <3>2. IdFirst(c) /\ cur[c] = Blank /\ passed[c] = NoSet
      BY <2>1, <2>3, <3>1 DEF Order, FatherDead
    <3>3. IdFirst(c)'
      BY <1>1, <2>1, <3>2 DEF IdFirst
    <3> QED
      BY <1>1, <2>1, <2>3, <3>1, <3>2, <3>3 DEF Order
  <2> QED
    BY <2>2, <2>3
<1>4. ASSUME father \in {"kill", "write"}
      PROVE  accepted[idx] \in Clients
  <2>1. Len(accepted) = 2
    BY <1>4 DEF FatherInv
  <2> QED
    BY <1>1, <2>1, BothAccepted
<1>5. CASE KillHandler
  <2>1. father = "kill" /\ HandlerEnds(accepted[idx]) /\ UNCHANGED toC
    BY <1>5 DEF KillHandler
  <2>2. PICK c \in Clients : c = accepted[idx]
    BY <1>4, <2>1
  <2>3. HandlerEnds(c)
    BY <2>1, <2>2
  <2>4. CASE d # c
    <3>1. handler'[d] = handler[d] /\ toH'[d] = toH[d] /\ cur'[d] = cur[d]
      BY <1>1, <2>3, <2>4 DEF HandlerEnds
    <3> QED
      BY <1>1, <2>1, <3>1, OrderFrame
  <2>5. CASE d = c
    BY <2>3, <2>5, GoneOrder
  <2> QED
    BY <2>4, <2>5
<1>6. CASE WriteGE
  <2>1. father = "write" /\ UNCHANGED <<handler, cur, toH>>
    BY <1>6 DEF WriteGE
  <2>2. handler[d] = "gone"
    <3>1. Len(accepted) = 2 /\ accepted[1] # accepted[2]
      BY <2>1 DEF FatherInv
    <3>2. accepted[1] \in Clients /\ accepted[2] \in Clients
      BY <1>1, <3>1, BothAccepted
    <3>3. d = accepted[1] \/ d = accepted[2]
      BY <3>1, <3>2, Constants
    <3> QED
      BY <2>1, <3>3 DEF FatherInv
  <2> QED
    BY <1>1, <2>1, <2>2, OrderFrame
<1> QED
  BY <1>2, <1>3, <1>5, <1>6 DEF Father

LEMMA OthersOrder ==
  ASSUME TypeOK, OtherStep, NEW d \in Clients, Order(d)
  PROVE  Order(d)'
<1>1. /\ UNCHANGED <<client, handler, sent, cur, passed, toH, toC>>
      /\ father' = father \/ father' = "killed"
      /\ feed' = feed \/ feed' = 0
  BY DEF OtherStep, ReadTargets, ReadObstacles, TellEnd, CondemnHere, CloseWindow, CondemnThere, User, GameGoes,
         hereVars, thereVars, netVars
<1> QED
  BY <1>1, OrderFrame DEF FatherDead

\* A connection whose handler has had a short read is never whole again.
LEMMA TornStays ==
  ASSUME TypeOK, [Next]_vars
  PROVE  torn \subseteq torn'
<1>1. \A c, a : HandlerReads(c, a) => torn \subseteq torn'
  BY DEF HandlerReads
<1>2. \A c, a : ClientReads(c, a) => torn \subseteq torn'
  BY DEF ClientReads
<1>3. ASSUME NEW c \in Clients, Handler(c)
      PROVE  torn \subseteq torn'
  <2>1. \/ \E a \in Arrivals(toH[c]) : HandlerReads(c, a)
        \/ UNCHANGED torn
    BY <1>3 DEF Handler, EchoId, SendSize, ReadAck, EchoSet, PassOn, PassNothing, PassBlank, PassToNobody,
                HangUp, netVars
  <2> QED
    BY <1>1, <2>1
<1>4. ASSUME NEW c \in Clients, Client(c)
      PROVE  torn \subseteq torn'
  <2>1. \/ \E a \in Arrivals(toC[c]) : ClientReads(c, a)
        \/ UNCHANGED torn
    BY <1>4 DEF Client, Connect, ReadGreet, ReadSize, SendSet, SendStale, ReadEcho, Break, EndOfFile, netVars
  <2> QED
    BY <1>2, <2>1
<1>5. CASE Father
  BY <1>5 DEF Father, Listen, Accept, HearEnd, KillHandler, WriteGE, FatherGoes
<1>6. CASE OtherStep
  BY <1>6 DEF OtherStep, ReadTargets, ReadObstacles, TellEnd, CondemnHere, CloseWindow, CondemnThere, User,
              GameGoes, netVars
<1>7. CASE UNCHANGED vars
  BY <1>7 DEF vars, netVars
<1> QED
  BY <1>3, <1>4, <1>5, <1>6, <1>7 DEF Next, OtherStep

\* The stronger inductive invariant: between the generators and the game no
\* set is missing, on every connection whose handler has read nothing but
\* whole messages (socket.c:107).
THEOREM OrderAlways == Spec => []OrderInv
<1>1. Init => OrderInv
  <2> SUFFICES ASSUME Init
               PROVE  OrderInv
    OBVIOUS
  <2>1. IndInv
    BY InitInv
  <2>2. \A c \in Clients : Order(c)
    BY DEF Init, Order, Connected
  <2> QED
    BY <2>1, <2>2 DEF OrderInv
<1>2. OrderInv /\ [Next]_vars => OrderInv'
  <2> SUFFICES ASSUME OrderInv, [Next]_vars
               PROVE  OrderInv'
    OBVIOUS
  <2>1. IndInv /\ TypeOK /\ FatherInv /\ \A c \in Clients : LockStep(c)
    BY DEF OrderInv, IndInv
  <2>2. IndInv'
    BY <2>1, StepInv
  <2>3. ASSUME NEW d \in Clients, d \notin torn'
        PROVE  Order(d)'
    <3>1. Order(d)
      BY <2>1, <2>3, TornStays DEF OrderInv
    <3>2. CASE Next
      BY <2>1, <2>3, <3>1, <3>2, HandlerOrder, ClientOrder, FatherOrder, OthersOrder DEF Next, OtherStep
    <3>3. CASE UNCHANGED vars
      <4>1. UNCHANGED <<father, handler, cur, passed, client, sent, feed, toH, toC>>
        BY <3>3 DEF vars, hereVars, thereVars, netVars
      <4> QED
        BY <3>1, <4>1, OrderFrame DEF FatherDead
    <3> QED
      BY <3>2, <3>3
  <2> QED
    BY <2>2, <2>3 DEF OrderInv
<1> QED
  BY <1>1, <1>2, PTL DEF Spec

\* What lengthens the pipe to the game, and by what.
LEMMA PipeGrows ==
  ASSUME TypeOK, Next, NEW c \in Clients, Len(out'[c]) > Len(out[c]), passed[c] # NoSet
  PROVE  PassOn(c)
<1>1. out \in [Clients -> Seq(SetNum \cup {NoSet})]
  BY DEF TypeOK
<1>2. Len(out[c]) \in Nat /\ (out[c] # <<>> => Len(Tail(out[c])) = Len(out[c]) - 1)
  BY <1>1, LenProperties, HeadTailProperties
<1>3. out'[c] # out[c]
  BY <1>2
<1>4. ~ (Father \/ CondemnThere \/ User \/ TellEnd \/ CondemnHere \/ CloseWindow)
  BY <1>3 DEF Father, Listen, Accept, HearEnd, KillHandler, WriteGE, FatherGoes, CondemnThere, User,
              TellEnd, CondemnHere, CloseWindow, hereVars
<1>5. \A d \in Clients : ~ Client(d)
  BY <1>3 DEF Client, Connect, ReadGreet, ReadSize, SendSet, SendStale, ReadEcho, Break, ClientGoes, hereVars
<1>6. ~ (ReadTargets \/ ReadObstacles)
  <2>1. ASSUME NEW d \in Clients, Takes(d)
        PROVE  FALSE
    <3>1. d = c
      BY <1>1, <1>3, <2>1 DEF Takes
    <3>2. out[c] # <<>> /\ out'[c] = Tail(out[c])
      BY <1>1, <2>1, <3>1 DEF Takes
    <3> QED
      BY <1>2, <3>2
  <2> QED
    BY <2>1, Constants DEF ReadTargets, ReadObstacles
<1>7. PICK d \in Clients : Handler(d)
  BY <1>4, <1>5, <1>6 DEF Next
<1>8. d = c
  BY <1>1, <1>3, <1>7 DEF Handler, EchoId, SendSize, ReadAck, EchoSet, PassOn, PassNothing, PassBlank, PassToNobody, HangUp
<1>9. ~ (EchoId(c) \/ SendSize(c) \/ ReadAck(c) \/ EchoSet(c) \/ PassToNobody(c))
  BY <1>3 DEF EchoId, SendSize, ReadAck, EchoSet, PassToNobody
<1>10. ~ (PassNothing(c) \/ PassBlank(c) \/ HangUp(c))
  BY <1>3 DEF PassNothing, PassBlank, HangUp
<1> QED
  BY <1>7, <1>8, <1>9, <1>10 DEF Handler

\* From a handler whose reads were whole the game gets every set after the
\* one the generator made before it, or that one once more when the generators
\* are gone (socket.c:101-169), whatever its client reads, and whatever happens
\* on the other connection, to the father and to the games.
THEOREM SetsInOrderAlways == Spec => SetsInOrder
<1>1. ASSUME OrderInv, [Next]_vars, NEW c \in Clients \ torn, Len(out'[c]) > Len(out[c]), passed[c] # NoSet
      PROVE  \/ out'[c] = Append(out[c], Succ(passed[c]))
             \/ out'[c] = Append(out[c], passed[c]) /\ feed = 0
  <2>1. TypeOK /\ Order(c)
    BY <1>1 DEF OrderInv, IndInv
  <2>2. out \in [Clients -> Seq(SetNum \cup {NoSet})]
    BY <2>1 DEF TypeOK
  <2>3. ~ UNCHANGED vars
    <3>1. Len(out[c]) \in Nat
      BY <2>2, LenProperties
    <3> QED
      BY <1>1, <3>1 DEF vars, hereVars
  <2>4. PassOn(c)
    BY <1>1, <2>1, <2>3, PipeGrows
  <2>5. handler[c] = "pass"
    BY <2>4 DEF PassOn, HandlerGoes
  <2>6. cur[c].kind = "set"
    BY <2>1, <2>5 DEF Order, NoneMissing
  <2>7. out'[c] = Append(out[c], cur[c].n)
    BY <2>2, <2>4, <2>6 DEF PassOn
  <2>8. Linked(feed, passed[c], cur[c].n)
    BY <1>1, <2>1, <2>5, <2>6 DEF Order, NoneMissing
  <2> QED
    BY <2>7, <2>8 DEF Linked
<1>2. OrderInv /\ [Next]_vars
        => [\A c \in Clients \ torn : Len(out'[c]) > Len(out[c]) /\ passed[c] # NoSet
              => \/ out'[c] = Append(out[c], Succ(passed[c]))
                 \/ out'[c] = Append(out[c], passed[c]) /\ feed = 0]_vars
  BY <1>1
<1> QED
  BY <1>2, OrderAlways, PTL DEF Spec, SetsInOrder
=============================================================================
