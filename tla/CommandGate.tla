------------------------------ MODULE CommandGate ------------------------------
(***************************************************************************)
(* What the command filter promises its operators: as if it were the shell   *)
(* itself, it holds the line being typed and, when the line is submitted,    *)
(* either runs the command or refuses it: a command of ASCII characters by   *)
(* the rules of that moment, one typed with others in either way.  What is   *)
(* refused leaves nothing of the line behind.  How rules and commands are    *)
(* compared is left open.                                                    *)
(***************************************************************************)
EXTENDS Naturals, Sequences

CONSTANTS
  Chars,     \* the ASCII characters that can be typed
  Wide,      \* the other ones
  RuleSets,  \* the rules there can be
  User,      \* who types
  checkBlocked(_, _, _),  \* whether rules forbid a command to a user
  TrimSpace(_)            \* the command on a line

VARIABLES
  line,      \* the line being typed
  wide,      \* whether a character beyond ASCII was typed on it
  ran,       \* the commands that ran, in order
  refused,   \* the commands that were refused, in order
  rules      \* the rules in force

Init ==
  /\ line = <<>> /\ wide = FALSE /\ ran = <<>> /\ refused = <<>>
  /\ rules \in RuleSets

Type ==
  /\ \E c \in Chars \cup Wide : line' = Append(line, c) /\ wide' = (wide \/ c \in Wide)
  /\ UNCHANGED <<ran, refused, rules>>

\* The last character is taken back, or the whole line given up.
Erase ==
  /\ \/ line # <<>> /\ line' = SubSeq(line, 1, Len(line) - 1) /\ UNCHANGED wide
     \/ line' = <<>> /\ wide' = FALSE
  /\ UNCHANGED <<ran, refused, rules>>

Run ==
  /\ wide \/ ~checkBlocked(rules, line, User)
  /\ ran' = IF TrimSpace(line) = <<>> THEN ran ELSE Append(ran, TrimSpace(line))
  /\ line' = <<>> /\ wide' = FALSE
  /\ UNCHANGED <<refused, rules>>

\* Of a line that is not ASCII, what is written down may be another command.
Refuse ==
  /\ wide \/ checkBlocked(rules, line, User)
  /\ Len(refused') = Len(refused) + 1
  /\ SubSeq(refused', 1, Len(refused)) = refused
  /\ wide \/ refused' = Append(refused, TrimSpace(line))
  /\ line' = <<>> /\ wide' = FALSE
  /\ UNCHANGED <<ran, rules>>

ChangeRules ==
  /\ rules' \in RuleSets
  /\ UNCHANGED <<line, wide, ran, refused>>

Next == Type \/ Erase \/ Run \/ Refuse \/ ChangeRules

Spec == Init /\ [][Next]_<<line, wide, ran, refused, rules>>
=============================================================================
