----------------------------- MODULE RuleWindow ------------------------------
(***************************************************************************)
(* The rule window of a host: it asks the user for the address of the      *)
(* other host until the line passes input_validation, and hands the line   *)
(* to the client half of the socket process, which parses it again and     *)
(* starts the two clients.                                                 *)
(*                                                                         *)
(* Data: a line is how many words it has, what its first word names and    *)
(* the number its second word begins with.                                 *)
(***************************************************************************)
EXTENDS Integers

VARIABLES
  dest   \* where the clients connect to: "none" as long as no line was
         \* accepted, "peer", "nowhere", or "crashed" with the rule window

\* The only port a server half ever binds.
ServerPort == 50000

Lines == [length : {4, 5}, words : 0 .. 2,
          first : {"singleplayer", "peer", "other"},
          port : {49151, 49152, ServerPort, 65535, 65536}]

\* strtok finds no first word in a line of blanks and strcpy is given NULL.
Crashes(line) == line.length >= 5 /\ line.words = 0

\* input_validation: what follows `singleplayer', and whether the first of two
\* words is an address, makes no difference (inet_pton returns 0, not -1, when
\* it is not one).
InputValidation(line) ==
  /\ line.length >= 5
  /\ \/ line.words = 1 /\ line.first = "singleplayer"
     \/ line.words = 2 /\ line.port \in 49152 .. 65535

\* string_parser_sock, gethostbyname and the port of connect.
Destination(line) ==
  IF line.words = 2 /\ line.first = "peer" /\ line.port = ServerPort
  THEN "peer" ELSE "nowhere"

Ask ==
  /\ dest = "none"
  /\ \E line \in Lines :
       dest' = IF Crashes(line) THEN "crashed"
               ELSE IF InputValidation(line) THEN Destination(line) ELSE "none"
=============================================================================
