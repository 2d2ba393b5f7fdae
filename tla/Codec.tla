------------------------------- MODULE Codec --------------------------------
(***************************************************************************)
(* How a set of obstacles or targets travels over the socket: formatted by *)
(* a client of socket.c, parsed by the handler at the other end, and       *)
(* passed on to the game through a pipe.                                   *)
(*                                                                         *)
(* A message is a header with the number of rows, and the rows with a bar  *)
(* between one and the next.  The parser takes a row to be what follows a  *)
(* bar, and there is none between the header and the first row.  The array *)
(* it parses into belongs to the handler: it starts uninitialised and      *)
(* keeps a row that a message does not set.  All rows announced are then   *)
(* divided by the size of the window, the stale ones once more each time.  *)
(*                                                                         *)
(* Data: a row is a value of Rows with the number of times it was divided  *)
(* by the window size without being multiplied by it (the client           *)
(* multiplies every row it sends; printing three decimals is left out).    *)
(***************************************************************************)
EXTENDS Integers, Sequences

CONSTANTS
  Rows,     \* the positions a row may hold
  Junk,     \* what an uninitialised row holds
  Header,   \* the header of a message, e.g. O[20]
  Bar,      \* the bar between two rows
  Lenght,   \* rows in a set, as `lenght' of the client
  MaxSets   \* bound: sets sent

ASSUME TokenAssumption  ==
  /\ Junk \notin Rows
  /\ {Header, Bar} \cap (Rows \cup {Junk}) = {} /\ Header # Bar
ASSUME LenghtAssumption == Lenght \in Nat \ {0, 1}
ASSUME BoundAssumption  == MaxSets \in Nat

VARIABLES
  sets,    \* how many sets have been sent
  sent,    \* the last of them
  msg,     \* the message under way, or <<>>
  array,   \* result_array of the handler
  passed   \* the set the handler has passed on last, or <<>>

vars == <<sets, sent, msg, array, passed>>

Index == 1 .. Lenght
None  == 0

Init ==
  /\ sets = 0 /\ sent = <<>> /\ msg = <<>> /\ passed = <<>>
  /\ array = [n \in Index |-> [pos |-> Junk, divided |-> 0]]

-----------------------------------------------------------------------------
DataOrganizerNoBars(set) == <<Header>> \o set

\* data_organizer: the header, then the rows with a bar after each but the
\* last.
DataOrganizer(set) ==
  <<Header>> \o [n \in 1 .. 2 * Lenght - 1 |->
                   IF n % 2 = 1 THEN set[(n + 1) \div 2] ELSE Bar]

\* strchr(m, '|') from behind place p.
NextBar(m, p) ==
  LET bars == {q \in p + 1 .. Len(m) : m[q] = Bar}
  IN  IF bars = {} THEN None
                   ELSE CHOOSE q \in bars : \A r \in bars : q <= r

\* The bars in their order: the n-th one, or None if there are fewer.
BarPlaces(m) ==
  LET at[n \in Index] ==
        IF n = 1 THEN NextBar(m, 0)
        ELSE IF at[n - 1] = None THEN None ELSE NextBar(m, at[n - 1])
  IN  at

ParseMessageShort(m, old) ==
  LET at == BarPlaces(m)
  IN  [n \in Index |->
         IF n < Lenght - 1 /\ at[n] # None THEN [pos |-> m[at[n] + 1], divided |-> -1]
                                           ELSE old[n]]

\* parseMessage: round n of the loop reads the row behind the n-th bar, and
\* the loop ends when there is no bar left.  Rows sent count as multiplied.
ParseMessage(m, old) ==
  LET at == BarPlaces(m)
  IN  [n \in Index |->
         IF at[n] # None THEN [pos |-> m[at[n] + 1], divided |-> -1]
                         ELSE old[n]]

\* The client reads a set from its process and sends it; the echo it waits
\* for is written before the handler parses.
Send ==
  /\ msg = <<>> /\ sets < MaxSets
  /\ sets' = sets + 1
  /\ sent' \in [Index -> Rows]
  /\ msg' = DataOrganizer(sent')
  /\ UNCHANGED <<array, passed>>

HandleDividesParsed ==
  /\ msg # <<>>
  /\ array' = [n \in Index |->
                 LET row == ParseMessage(msg, array)[n]
                 IN  IF row = array[n] THEN row ELSE [row EXCEPT !.divided = @ + 1]]
  /\ passed' = array'
  /\ msg' = <<>>
  /\ UNCHANGED <<sets, sent>>

\* One round of the loop of the handler.
Handle ==
  /\ msg # <<>>
  /\ array' = [n \in Index |->
                 [ParseMessage(msg, array)[n] EXCEPT !.divided = @ + 1]]
  /\ passed' = array'
  /\ msg' = <<>>
  /\ UNCHANGED <<sets, sent>>

Next == Send \/ Handle

Spec == Init /\ [][Next]_vars

-----------------------------------------------------------------------------
(* Properties.                                                             *)

TypeOK ==
  LET cell == [pos : Rows \cup {Junk}, divided : 0 .. MaxSets]
  IN  /\ sets \in 0 .. MaxSets
      /\ sent \in [Index -> Rows] \cup {<<>>}
      /\ Len(msg) \in {0, 2 * Lenght}
      /\ array \in [Index -> cell]
      /\ passed \in {<<>>, array}

\* What the game gets of a set: every row but the first, in order, one place
\* too early, none of them mixed with rows of an earlier set.
ShiftedByOne ==
  msg = <<>> /\ sets > 0 =>
    \A n \in 1 .. Lenght - 1 : passed[n] = [pos |-> sent[n + 1], divided |-> 0]

\* And the last row is never one that was sent: it is what the memory of the
\* handler held, divided by the window once more with every set.
LastRowIsJunk ==
  msg = <<>> => array[Lenght] = [pos |-> Junk, divided |-> sets]

\* socket.c:125 "parse the message comes from client, and save the result in
\* result_array": the game gets the set that was sent.
SetArrives ==
  msg = <<>> /\ sets > 0 =>
    \A n \in Index : passed[n] = [pos |-> sent[n], divided |-> 0]
=============================================================================
