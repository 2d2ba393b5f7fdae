---------------------------- MODULE CodecProofs ------------------------------
(***************************************************************************)
(* Proofs about Codec for sets of any length, any positions and any number *)
(* of sets: what the parser makes of a formatted message, and what         *)
(* therefore becomes of the sets that are sent.                            *)
(*                                                                         *)
(* The places of the bars are defined by recursion.  That the n-th one is  *)
(* at 2 * n + 1 follows from the least-number principle: there is no       *)
(* smallest n for which it is elsewhere.                                   *)
(***************************************************************************)
EXTENDS Codec, WellFoundedInduction, SequenceTheorems, TLAPS

Cells == [pos : Rows \cup {Junk}, divided : Nat]

\* The sets handled so far.
Handled == IF msg = <<>> THEN sets ELSE sets - 1

\* The rows of a set that has been handled, but for the last one.
Shifted(set) == \A n \in 1 .. Lenght - 1 : array[n] = [pos |-> set[n + 1], divided |-> 0]

IndInv ==
  /\ sets \in 0 .. MaxSets
  /\ sent \in [Index -> Rows] \cup {<<>>}
  /\ array \in [Index -> Cells]
  /\ passed \in {<<>>, array}
  /\ msg # <<>> => sets > 0 /\ sent \in [Index -> Rows] /\ msg = DataOrganizer(sent)
  /\ msg = <<>> /\ sets > 0 => passed = array /\ Shifted(sent)
  /\ \A n \in 1 .. Lenght - 1 : array[n].divided = 0
  /\ array[Lenght] = [pos |-> Junk, divided |-> Handled]

-----------------------------------------------------------------------------
(* Natural numbers and messages.                                           *)

\* Every set of natural numbers that is not empty has a least element.
LEMMA LeastElement ==
  ASSUME NEW T \in SUBSET Nat, T # {}
  PROVE  \E x \in T : \A y \in T : x <= y
<1> DEFINE R == OpToRel(<, Nat)
<1>1. IsWellFoundedOn(R, Nat)
  BY NatLessThanWellFounded, Zenon
<1>2. \A x \in Nat, y \in Nat : y < x => <<y, x>> \in R
  BY SMT DEF OpToRel
<1> HIDE DEF R
<1>3. PICK x \in T : \A y \in T : ~ (<<y, x>> \in R)
  BY <1>1, WFMin, Zenon
<1>4. \A y \in T : ~ (y < x)
  BY <1>2, <1>3, Zenon
<1>5. \A y \in T : x <= y
  BY <1>4, SMT
<1> QED BY <1>5, Zenon

\* The message of a set: a header, then its rows with bars in between.
LEMMA Message ==
  ASSUME NEW set \in [Index -> Rows]
  PROVE  LET m == DataOrganizer(set)
         IN  /\ m # <<>>
             /\ Len(m) = 2 * Lenght
             /\ m[1] # Bar
             /\ \A k \in 1 .. Lenght : m[2 * k] = set[k] /\ m[2 * k] # Bar
             /\ \A k \in 1 .. Lenght - 1 : m[2 * k + 1] = Bar
<1> DEFINE rest == [n \in 1 .. 2 * Lenght - 1 |-> IF n % 2 = 1 THEN set[(n + 1) \div 2] ELSE Bar]
           m == DataOrganizer(set)
           S == Rows \cup {Bar, Header}
<1>1. \A n \in 1 .. 2 * Lenght - 1 : n % 2 = 1 => (n + 1) \div 2 \in Index
  BY LenghtAssumption, SMT DEF Index
<1>2. rest \in [1 .. 2 * Lenght - 1 -> S]
  BY <1>1, SMT
<1>3. 2 * Lenght - 1 \in Nat
  BY LenghtAssumption, SMT
<1>4. rest \in Seq(S) /\ Len(rest) = 2 * Lenght - 1
  BY <1>2, <1>3, SeqDef, LenProperties, SMT
<1>5. <<Header>> \in Seq(S) /\ Len(<<Header>>) = 1 /\ <<Header>>[1] = Header
  BY SMT
<1>6. m = <<Header>> \o rest
  BY Zenon DEF DataOrganizer
<1> HIDE DEF m, rest, S
<1>7. /\ Len(m) = 1 + (2 * Lenght - 1)
      /\ \A i \in 1 .. 1 + (2 * Lenght - 1) :
           m[i] = IF i <= 1 THEN Header ELSE rest[i - 1]
  BY <1>3, <1>4, <1>5, <1>6, ConcatProperties, SMT
<1>8. m # <<>> /\ Len(m) = 2 * Lenght
  BY <1>7, LenghtAssumption, SMT
<1>9. m[1] # Bar
  BY <1>7, LenghtAssumption, TokenAssumption, SMT
<1>10. ASSUME NEW k \in 1 .. Lenght
       PROVE  m[2 * k] = set[k] /\ m[2 * k] # Bar
  <2>1. 2 * k \in 1 .. 1 + (2 * Lenght - 1) /\ 2 * k > 1 /\ 2 * k - 1 \in 1 .. 2 * Lenght - 1
    BY LenghtAssumption, SMT
  <2>2. (2 * k - 1) % 2 = 1 /\ ((2 * k - 1) + 1) \div 2 = k
    BY SMT
  <2>3. m[2 * k] = rest[2 * k - 1]
    BY <1>7, <2>1, SMT
  <2>4. rest[2 * k - 1] = set[k]
    BY <2>1, <2>2, Zenon DEF rest
  <2>5. set[k] \in Rows
    BY Zenon DEF Index
  <2> QED BY <2>3, <2>4, <2>5, TokenAssumption, Zenon
<1>11. ASSUME NEW k \in 1 .. Lenght - 1
       PROVE  m[2 * k + 1] = Bar
  <2>1. 2 * k + 1 \in 1 .. 1 + (2 * Lenght - 1) /\ 2 * k + 1 > 1 /\ 2 * k \in 1 .. 2 * Lenght - 1
    BY LenghtAssumption, SMT
  <2>2. (2 * k) % 2 # 1 /\ (2 * k + 1) - 1 = 2 * k
    BY SMT
  <2>3. m[2 * k + 1] = rest[2 * k]
    BY <1>7, <2>1, <2>2, SMT
  <2> QED BY <2>1, <2>2, <2>3, Zenon DEF rest
<1> QED BY <1>8, <1>9, <1>10, <1>11, Zenon DEF m

\* From the header the next bar is the one behind the first row; from one
\* bar it is two places on; and behind the last row there is none.
LEMMA NextBarOf ==
  ASSUME NEW set \in [Index -> Rows]
  PROVE  LET m == DataOrganizer(set)
         IN  /\ NextBar(m, 0) = 3
             /\ \A k \in 1 .. Lenght - 2 : NextBar(m, 2 * k + 1) = 2 * (k + 1) + 1
             /\ NextBar(m, 2 * (Lenght - 1) + 1) = None
<1> DEFINE m == DataOrganizer(set)
<1>1. /\ Len(m) = 2 * Lenght /\ m[1] # Bar
      /\ \A k \in 1 .. Lenght : m[2 * k] # Bar
      /\ \A k \in 1 .. Lenght - 1 : m[2 * k + 1] = Bar
  BY Message
<1> HIDE DEF m
<1>2. ASSUME NEW p \in Int, NEW q \in p + 1 .. Len(m), m[q] = Bar,
             \A r \in p + 1 .. Len(m) : m[r] = Bar => q <= r, Len(m) \in Int
      PROVE  NextBar(m, p) = q
  <2> DEFINE bars == {r \in p + 1 .. Len(m) : m[r] = Bar}
             first == CHOOSE r \in bars : \A s \in bars : r <= s
  <2>1. q \in bars /\ \A s \in bars : q <= s
    BY <1>2, Zenon
  <2>2. first \in bars /\ \A s \in bars : first <= s
    BY <2>1, Zenon
  <2>3. first = q
    <3>1. first \in Int /\ q \in Int
      BY <2>2, <1>2, SMT
    <3>2. first <= q /\ q <= first
      BY <2>1, <2>2, Zenon
    <3> QED BY <3>1, <3>2, SMT
  <2>4. NextBar(m, p) = first
    BY <2>1, Zenon DEF NextBar
  <2> QED BY <2>3, <2>4, Zenon
<1>3. NextBar(m, 0) = 3
  <2>1. 3 \in 0 + 1 .. Len(m) /\ m[3] = Bar /\ Len(m) \in Int
    BY <1>1, LenghtAssumption, SMT
  <2>2. \A r \in 0 + 1 .. Len(m) : m[r] = Bar => 3 <= r
    <3>1. m[2] # Bar
      BY <1>1, LenghtAssumption, SMT
    <3>2. \A r \in 0 + 1 .. Len(m) : r = 1 \/ r = 2 \/ 3 <= r
      BY <1>1, LenghtAssumption, SMT
    <3> QED BY <1>1, <3>1, <3>2, Zenon
  <2> QED BY <1>2, <2>1, <2>2, SMT
<1>4. ASSUME NEW k \in 1 .. Lenght - 2
      PROVE  NextBar(m, 2 * k + 1) = 2 * (k + 1) + 1
  <2> DEFINE p == 2 * k + 1
             q == 2 * (k + 1) + 1
  <2>1. p \in Int /\ q \in p + 1 .. Len(m) /\ Len(m) \in Int /\ k + 1 \in 1 .. Lenght - 1 /\ k + 1 \in 1 .. Lenght
    BY <1>1, LenghtAssumption, SMT
  <2>2. m[q] = Bar /\ m[2 * (k + 1)] # Bar
    BY <1>1, <2>1, Zenon
  <2>3. \A r \in p + 1 .. Len(m) : r = 2 * (k + 1) \/ q <= r
    BY <1>1, <2>1, LenghtAssumption, SMT
  <2>4. \A r \in p + 1 .. Len(m) : m[r] = Bar => q <= r
    BY <2>2, <2>3, Zenon
  <2> HIDE DEF p, q
  <2>5. NextBar(m, p) = q
    BY <1>2, <2>1, <2>2, <2>4, Zenon
  <2> QED BY <2>5, Zenon DEF p, q
<1>5. NextBar(m, 2 * (Lenght - 1) + 1) = None
  <2>1. \A r \in 2 * (Lenght - 1) + 1 + 1 .. Len(m) : r = 2 * Lenght
    BY <1>1, LenghtAssumption, SMT
  <2>2. m[2 * Lenght] # Bar
    <3>1. Lenght \in 1 .. Lenght
      BY LenghtAssumption, SMT
    <3> QED BY <1>1, <3>1, Zenon
  <2>3. {r \in 2 * (Lenght - 1) + 1 + 1 .. Len(m) : m[r] = Bar} = {}
    BY <2>1, <2>2, Zenon
  <2> QED BY <2>3, Zenon DEF NextBar
<1> QED BY <1>3, <1>4, <1>5, Zenon DEF m

\* All bars of a message.
LEMMA BarPlacesOf ==
  ASSUME NEW set \in [Index -> Rows]
  PROVE  BarPlaces(DataOrganizer(set)) = [n \in Index |-> IF n < Lenght THEN 2 * n + 1 ELSE None]
<1> DEFINE m == DataOrganizer(set)
           places == [n \in Index |-> IF n < Lenght THEN 2 * n + 1 ELSE None]
           Round(g) == [n \in Index |->
                         IF n = 1 THEN NextBar(m, 0)
                         ELSE IF g[n - 1] = None THEN None ELSE NextBar(m, g[n - 1])]
           at == CHOOSE g : g = Round(g)
<1>1. BarPlaces(m) = at
  BY Zenon DEF BarPlaces
<1>2. /\ NextBar(m, 0) = 3
      /\ \A k \in 1 .. Lenght - 2 : NextBar(m, 2 * k + 1) = 2 * (k + 1) + 1
      /\ NextBar(m, 2 * (Lenght - 1) + 1) = None
  BY NextBarOf
<1> HIDE DEF m
<1>3. places = Round(places)
  <2>1. ASSUME NEW n \in Index
        PROVE  places[n] = Round(places)[n]
    <3>1. CASE n = 1
      BY <1>2, <3>1, LenghtAssumption, SMT DEF Index
    <3>2. CASE n # 1
      <4>1. n \in 2 .. Lenght /\ n - 1 \in Index /\ n - 1 < Lenght /\ n - 1 >= 1
        BY <3>2, LenghtAssumption, SMT DEF Index
      <4>2. places[n - 1] = 2 * (n - 1) + 1 /\ places[n - 1] # None
        BY <4>1, SMT DEF None
      <4>3. Round(places)[n] = NextBar(m, 2 * (n - 1) + 1)
        BY <3>2, <4>2, Zenon
      <4>4. CASE n < Lenght
        <5>1. n - 1 \in 1 .. Lenght - 2
          BY <4>1, <4>4, LenghtAssumption, SMT
        <5>2. NextBar(m, 2 * (n - 1) + 1) = 2 * ((n - 1) + 1) + 1
          BY <1>2, <5>1, Zenon
        <5>3. 2 * ((n - 1) + 1) + 1 = 2 * n + 1
          BY <4>1, SMT
        <5> QED BY <4>3, <4>4, <5>2, <5>3, Zenon
      <4>5. CASE ~ (n < Lenght)
        <5>1. n = Lenght
          BY <4>1, <4>5, LenghtAssumption, SMT
        <5> QED BY <1>2, <4>3, <4>5, <5>1, Zenon
      <4> QED BY <4>4, <4>5
    <3> QED BY <3>1, <3>2
  <2> QED BY <2>1, Zenon
<1>4. at = Round(at)
  BY <1>3, Zenon
<1> HIDE DEF at
<1>5. ASSUME NEW n \in Index
      PROVE  at[n] = IF n = 1 THEN NextBar(m, 0)
                     ELSE IF at[n - 1] = None THEN None ELSE NextBar(m, at[n - 1])
  BY <1>4, Zenon
<1>6. ASSUME NEW n \in Index
      PROVE  places[n] = IF n = 1 THEN NextBar(m, 0)
                         ELSE IF places[n - 1] = None THEN None ELSE NextBar(m, places[n - 1])
  BY <1>3, Zenon
<1> HIDE DEF places
<1>7. \A n \in Index : at[n] = places[n]
  <2> DEFINE T == {n \in Index : at[n] # places[n]}
  <2>1. SUFFICES ASSUME T # {} PROVE FALSE
    BY Zenon
  <2>2. T \in SUBSET Nat
    BY LenghtAssumption, SMT DEF Index
  <2>3. PICK n \in T : \A k \in T : n <= k
    BY <2>1, <2>2, LeastElement, Zenon
  <2>4. n \in Index /\ n \in Nat
    BY <2>2, <2>3, Zenon
  <2>5. CASE n = 1
    BY <1>5, <1>6, <2>3, <2>4, <2>5, Zenon
  <2>6. CASE n # 1
    <3>1. n - 1 \in Index /\ ~ (n <= n - 1)
      BY <2>4, <2>6, LenghtAssumption, SMT DEF Index
    <3>2. at[n - 1] = places[n - 1]
      BY <2>3, <3>1, Zenon
    <3> QED BY <1>5, <1>6, <2>3, <2>4, <3>2, Zenon
  <2> QED BY <2>5, <2>6
<1>8. at = [n \in Index |-> at[n]] /\ places = [n \in Index |-> places[n]]
  <2>1. at = [n \in Index |-> at[n]]
    BY <1>4, Zenon
  <2> QED BY <2>1, Zenon DEF places
<1>9. at = places
  BY <1>7, <1>8, Zenon
<1> QED BY <1>1, <1>9, Zenon DEF m, places

\* What the parser makes of the message of a set: every row but the first,
\* one place early, and in the last place what was there before.
LEMMA Parsed ==
  ASSUME NEW set \in [Index -> Rows], NEW old
  PROVE  /\ \A n \in 1 .. Lenght - 1 :
              ParseMessage(DataOrganizer(set), old)[n] = [pos |-> set[n + 1], divided |-> -1]
         /\ ParseMessage(DataOrganizer(set), old)[Lenght] = old[Lenght]
<1> DEFINE m == DataOrganizer(set)
<1>1. BarPlaces(m) = [n \in Index |-> IF n < Lenght THEN 2 * n + 1 ELSE None]
  BY BarPlacesOf
<1>2. \A k \in 1 .. Lenght : m[2 * k] = set[k]
  BY Message
<1> HIDE DEF m
<1>3. ParseMessage(m, old) = [n \in Index |-> IF BarPlaces(m)[n] # None
                                              THEN [pos |-> m[BarPlaces(m)[n] + 1], divided |-> -1]
                                              ELSE old[n]]
  BY Zenon DEF ParseMessage
<1>4. ASSUME NEW n \in 1 .. Lenght - 1
      PROVE  ParseMessage(m, old)[n] = [pos |-> set[n + 1], divided |-> -1]
  <2>1. n \in Index /\ n < Lenght /\ n + 1 \in 1 .. Lenght
    BY LenghtAssumption, SMT DEF Index
  <2>2. BarPlaces(m)[n] = 2 * n + 1
    BY <1>1, <2>1, Zenon
  <2>3. 2 * n + 1 # None /\ (2 * n + 1) + 1 = 2 * (n + 1)
    BY SMT DEF None
  <2>4. m[(2 * n + 1) + 1] = set[n + 1]
    <3>1. m[2 * (n + 1)] = set[n + 1]
      BY <1>2, <2>1, Zenon
    <3> QED BY <2>3, <3>1, Zenon
  <2> QED BY <1>3, <2>1, <2>2, <2>3, <2>4, Zenon
<1>5. ParseMessage(m, old)[Lenght] = old[Lenght]
  <2>1. Lenght \in Index /\ ~ (Lenght < Lenght)
    BY LenghtAssumption, SMT DEF Index
  <2>2. BarPlaces(m)[Lenght] = None
    BY <1>1, <2>1, Zenon
  <2> QED BY <1>3, <2>1, <2>2, Zenon
<1> QED BY <1>4, <1>5, Zenon DEF m
-----------------------------------------------------------------------------
(* The invariant.                                                          *)

\* The rows a message sets, once they have been divided.
LEMMA RowDivided ==
  ASSUME NEW x
  PROVE  /\ [[pos |-> x, divided |-> -1] EXCEPT !.divided = @ + 1] = [pos |-> x, divided |-> 0]
         /\ [pos |-> x, divided |-> 0].divided = 0
<1>1. -1 + 1 = 0
  BY SMT
<1> QED BY <1>1, SMT

LEMMA InitIndInv == Init => IndInv
<1> SUFFICES ASSUME Init PROVE IndInv
  OBVIOUS
<1>1. sets = 0 /\ sent = <<>> /\ msg = <<>> /\ passed = <<>>
  BY Zenon DEF Init
<1>2. \A n \in Index : array[n] = [pos |-> Junk, divided |-> 0]
  BY Zenon DEF Init
<1>3. array \in [Index -> Cells]
  BY SMT DEF Init, Cells
<1>4. sets \in 0 .. MaxSets /\ ~ (sets > 0)
  BY <1>1, BoundAssumption, SMT
<1>5. \A n \in 1 .. Lenght - 1 : n \in Index
  BY LenghtAssumption, SMT DEF Index
<1>6. Lenght \in Index
  BY LenghtAssumption, SMT DEF Index
<1>7. \A n \in 1 .. Lenght - 1 : array[n].divided = 0
  BY <1>2, <1>5, RowDivided, Zenon
<1>8. array[Lenght] = [pos |-> Junk, divided |-> Handled]
  BY <1>1, <1>2, <1>6, Zenon DEF Handled
<1> QED BY <1>1, <1>3, <1>4, <1>7, <1>8, Zenon DEF IndInv

LEMMA SendIndInv ==
  ASSUME IndInv, Send
  PROVE  IndInv'
<1>1. /\ msg = <<>> /\ sets < MaxSets /\ sets' = sets + 1
      /\ sent' \in [Index -> Rows] /\ msg' = DataOrganizer(sent')
      /\ array' = array /\ passed' = passed
  BY Zenon DEF Send
<1>2. /\ sets \in 0 .. MaxSets /\ array \in [Index -> Cells] /\ passed \in {<<>>, array}
      /\ \A n \in 1 .. Lenght - 1 : array[n].divided = 0
      /\ array[Lenght] = [pos |-> Junk, divided |-> Handled]
  BY Zenon DEF IndInv
<1>3. sets' \in 0 .. MaxSets /\ sets' > 0 /\ sets' - 1 = sets
  BY <1>1, <1>2, BoundAssumption, SMT
<1>4. msg' # <<>>
  BY <1>1, Message, Zenon
<1>5. Handled' = Handled
  BY <1>1, <1>3, <1>4, Zenon DEF Handled
<1> QED BY <1>1, <1>2, <1>3, <1>4, <1>5, Zenon DEF IndInv

\* The rows parsed are divided once and so are what was sent; the last one
\* is divided once more.
LEMMA HandleIndInv ==
  ASSUME IndInv, Handle
  PROVE  IndInv'
<1> DEFINE parsed == ParseMessage(msg, array)
<1>1. /\ msg # <<>> /\ msg' = <<>> /\ sets' = sets /\ sent' = sent /\ passed' = array'
      /\ array' = [n \in Index |-> [parsed[n] EXCEPT !.divided = @ + 1]]
  BY Zenon DEF Handle
<1>2. /\ sets \in 0 .. MaxSets /\ sets > 0
      /\ sent \in [Index -> Rows] /\ msg = DataOrganizer(sent)
      /\ array[Lenght] = [pos |-> Junk, divided |-> Handled]
  BY <1>1, Zenon DEF IndInv
<1>3. /\ \A n \in 1 .. Lenght - 1 : parsed[n] = [pos |-> sent[n + 1], divided |-> -1]
      /\ parsed[Lenght] = array[Lenght]
  BY <1>2, Parsed, Zenon
<1> HIDE DEF parsed
<1>4. \A n \in 1 .. Lenght - 1 : array'[n] = [pos |-> sent[n + 1], divided |-> 0]
  <2> SUFFICES ASSUME NEW n \in 1 .. Lenght - 1
               PROVE  array'[n] = [pos |-> sent[n + 1], divided |-> 0]
    OBVIOUS
  <2>1. n \in Index
    BY LenghtAssumption, SMT DEF Index
  <2>2. array'[n] = [parsed[n] EXCEPT !.divided = @ + 1]
    BY <1>1, <2>1, Zenon
  <2>3. parsed[n] = [pos |-> sent[n + 1], divided |-> -1]
    BY <1>3, Zenon
  <2> QED BY <2>2, <2>3, RowDivided, Zenon
<1>5. array'[Lenght] = [pos |-> Junk, divided |-> sets]
  <2>1. Lenght \in Index
    BY LenghtAssumption, SMT DEF Index
  <2>2. array'[Lenght] = [parsed[Lenght] EXCEPT !.divided = @ + 1]
    BY <1>1, <2>1, Zenon
  <2>3. parsed[Lenght] = [pos |-> Junk, divided |-> sets - 1]
    BY <1>1, <1>2, <1>3, Zenon DEF Handled
  <2> QED BY <1>2, <2>2, <2>3, SMT
<1>6. array' \in [Index -> Cells]
  <2>1. ASSUME NEW n \in Index
        PROVE  array'[n] \in Cells
    <3>1. CASE n = Lenght
      BY <1>2, <1>5, <3>1, SMT DEF Cells
    <3>2. CASE n # Lenght
      <4>1. n \in 1 .. Lenght - 1 /\ n + 1 \in Index
        BY <3>2, LenghtAssumption, SMT DEF Index
      <4>2. sent[n + 1] \in Rows
        BY <1>2, <4>1, Zenon
      <4>3. array'[n] = [pos |-> sent[n + 1], divided |-> 0]
        BY <1>4, <4>1, Zenon
      <4>4. [pos |-> sent[n + 1], divided |-> 0] \in Cells
        <5>1. \A x \in Rows : [pos |-> x, divided |-> 0] \in Cells
          BY SMT DEF Cells
        <5> QED BY <4>2, <5>1, Zenon
      <4> QED BY <4>3, <4>4, Zenon
    <3> QED BY <3>1, <3>2
  <2>2. array' = [n \in Index |-> array'[n]]
    BY <1>1, Zenon
  <2> QED BY <2>1, <2>2, Zenon
<1>7. \A n \in 1 .. Lenght - 1 : array'[n].divided = 0
  BY <1>4, RowDivided, Zenon
<1>8. Handled' = sets
  BY <1>1, Zenon DEF Handled
<1>9. Shifted(sent)'
  BY <1>1, <1>4, Zenon DEF Shifted
<1>10. array'[Lenght] = [pos |-> Junk, divided |-> Handled']
  BY <1>5, <1>8, Zenon
<1> QED BY <1>1, <1>2, <1>6, <1>7, <1>9, <1>10, Zenon DEF IndInv

LEMMA StepIndInv == IndInv /\ [Next]_vars => IndInv'
<1> SUFFICES ASSUME IndInv, [Next]_vars PROVE IndInv'
  OBVIOUS
<1>1. CASE Send
  BY <1>1, SendIndInv
<1>2. CASE Handle
  BY <1>2, HandleIndInv
<1>3. CASE UNCHANGED vars
  BY <1>3, Zenon DEF vars, IndInv, Handled, Shifted
<1> QED BY <1>1, <1>2, <1>3, Zenon DEF Next

-----------------------------------------------------------------------------
(* The theorems.                                                           *)

\* What is in the array of the handler and what is under way, for sets of
\* any length: the inductive invariant of the codec.
THEOREM IndInvAlways == Spec => []IndInv
BY InitIndInv, StepIndInv, PTL DEF Spec

\* Types: in particular a message of n rows has 2 * n tokens and no row is
\* divided more often than sets have come (socket.c:138).
THEOREM TypeCorrect == Spec => []TypeOK
<1>1. IndInv => TypeOK
  <2> SUFFICES ASSUME IndInv PROVE TypeOK
    OBVIOUS
  <2> DEFINE cell == [pos : Rows \cup {Junk}, divided : 0 .. MaxSets]
  <2>1. /\ sets \in 0 .. MaxSets /\ sent \in [Index -> Rows] \cup {<<>>}
        /\ array \in [Index -> Cells] /\ passed \in {<<>>, array}
        /\ msg # <<>> => sets > 0 /\ sent \in [Index -> Rows] /\ msg = DataOrganizer(sent)
        /\ \A n \in 1 .. Lenght - 1 : array[n].divided = 0
        /\ array[Lenght] = [pos |-> Junk, divided |-> Handled]
    BY Zenon DEF IndInv
  <2>2. Len(msg) \in {0, 2 * Lenght}
    <3>1. CASE msg = <<>>
      BY <3>1, SMT
    <3>2. CASE msg # <<>>
      <4>1. Len(msg) = 2 * Lenght
        BY <2>1, <3>2, Message, Zenon
      <4> QED BY <4>1, Zenon
    <3> QED BY <3>1, <3>2
  <2>3. array \in [Index -> cell]
    <3>1. Handled \in 0 .. MaxSets
      BY <2>1, BoundAssumption, SMT DEF Handled
    <3>2. ASSUME NEW n \in Index
          PROVE  array[n].divided \in 0 .. MaxSets
      <4>1. n = Lenght \/ n \in 1 .. Lenght - 1
        BY LenghtAssumption, SMT DEF Index
      <4>2. CASE n = Lenght
        BY <2>1, <3>1, <4>2, SMT
      <4>3. CASE n \in 1 .. Lenght - 1
        BY <2>1, <4>3, BoundAssumption, SMT
      <4> QED BY <4>1, <4>2, <4>3
    <3>3. ASSUME NEW n \in Index
          PROVE  array[n] \in cell
      <4>1. array[n] \in Cells
        BY <2>1, Zenon
      <4> QED BY <3>2, <4>1, SMT DEF Cells
    <3> QED BY <2>1, <3>3, Zenon
  <2> QED BY <2>1, <2>2, <2>3, Zenon DEF TypeOK
<1> QED BY <1>1, IndInvAlways, PTL

\* The game gets every row of a set but the first, one place early, for sets
\* of any length: the parser starts behind the first bar (arplib.c:322).
THEOREM ShiftedByOneAlways == Spec => []ShiftedByOne
<1>1. IndInv => ShiftedByOne
  BY Zenon DEF IndInv, Shifted, ShiftedByOne
<1> QED BY <1>1, IndInvAlways, PTL

\* And its last row never comes from a set, whatever the length and however
\* many sets have come (socket.c:138).
THEOREM LastRowIsJunkAlways == Spec => []LastRowIsJunk
<1>1. IndInv => LastRowIsJunk
  BY Zenon DEF IndInv, Handled, LastRowIsJunk
<1> QED BY <1>1, IndInvAlways, PTL

\* So no set ever arrives as it was sent (socket.c:125 says that the message
\* is parsed and saved in result_array): SetArrives fails for every set, not
\* only in the state a run finds.
THEOREM NeverWhole ==
  Spec => [](msg = <<>> /\ sets > 0
               => ~ \A n \in Index : passed[n] = [pos |-> sent[n], divided |-> 0])
<1>1. ASSUME IndInv, msg = <<>>, sets > 0, \A n \in Index : passed[n] = [pos |-> sent[n], divided |-> 0]
      PROVE  FALSE
  <2>1. passed = array /\ array[Lenght] = [pos |-> Junk, divided |-> Handled] /\ sets \in 0 .. MaxSets
    BY <1>1, Zenon DEF IndInv
  <2>2. Handled = sets
    BY <1>1, Zenon DEF Handled
  <2>3. Lenght \in Index
    BY LenghtAssumption, SMT DEF Index
  <2>4. passed[Lenght] = [pos |-> sent[Lenght], divided |-> 0]
    BY <1>1, <2>3, Zenon
  <2>5. passed[Lenght].divided = 0 /\ array[Lenght].divided = sets
    BY <2>1, <2>2, <2>4, SMT
  <2> QED
    BY <1>1, <2>1, <2>5, SMT
<1>2. IndInv => (msg = <<>> /\ sets > 0
                   => ~ \A n \in Index : passed[n] = [pos |-> sent[n], divided |-> 0])
  BY <1>1, Zenon
<1> QED BY <1>2, IndInvAlways, PTL
=============================================================================
