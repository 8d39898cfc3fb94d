----------------------------- MODULE CommandFilter -----------------------------
(***************************************************************************)
(* The interception of commands on their way to a target host, by the SSH   *)
(* gateway (sshserver/terminal/handler.go) and by the web terminal          *)
(* (api/handler/connection_handler.go), with the cached rules of            *)
(* bastion/blacklist/manager.go.                                            *)
(*                                                                         *)
(* Every key is forwarded as it is typed, and a copy of the line is kept;   *)
(* what runs is decided by the target's own line, which the keys reach      *)
(* later.  The input is a line typed key by key at a shell prompt:          *)
(* characters, backspace, Ctrl+C and Enter.  A character beyond ASCII is    *)
(* several bytes: the gateway forwards them and keeps none, the web         *)
(* terminal keeps each of them, and both take back one byte for a           *)
(* backspace that takes a character from the line.  What other control keys *)
(* and pasted text do is not claimed.                                       *)
(***************************************************************************)
EXTENDS Blacklist

CONSTANTS
  Chars,      \* the printable ASCII characters that can be typed
  Wide,       \* the characters beyond ASCII that can be typed
  RuleSets,   \* the enabled rules the table may hold
  Defaults,   \* the rules of setDefaultBlacklist
  User,       \* who types
  Patterns,   \* patterns to compare the matching on
  MaxKeys,    \* keys typed (bound)
  MaxEdits,   \* changes of the table (bound)
  MaxFaults   \* failing reads of the table (bound)

ASSUME CommandFilterAssumption ==
  /\ (Chars \cup Wide) \cap {"del", "intr", "enter", "tail"} = {}
  /\ Chars \cap Wide = {}
  /\ \A p \in Patterns : p \in Seq(Range(p))
  /\ MaxKeys \in Nat /\ MaxEdits \in Nat /\ MaxFaults \in Nat \ {0}

VARIABLES
  kind,       \* which of the two filters this is
  buffer,     \* commandBuffer, byte by byte
  wide,       \* history: a character beyond ASCII was typed on this line
  pipe,       \* keys written to the target and not read there
  shell,      \* the target: its line and the commands it ran
  refused,    \* the commands audited as blocked
  table,      \* the enabled rows of blacklist_rules
  rules,      \* globalRules and userRules of the filter's Manager
  keys, edits, faults

rulesVars == <<table, rules, edits, faults>>
vars == <<kind, buffer, wide, pipe, shell, refused, table, rules, keys, edits, faults>>

Text == Chars \cup Wide
Key == Text \cup {"del", "intr", "enter"}
\* A character beyond ASCII is a first byte, named as the character, and one
\* that follows.
Bytes == Text \cup {"tail"}

TypeOK ==
  /\ kind \in {"gateway", "web"}
  /\ buffer \in Seq(Bytes) /\ wide \in BOOLEAN
  /\ pipe \in Seq(Key)
  /\ shell \in [line : Seq(Text), ran : Seq(Seq(Text))]
  /\ refused \in Seq(Seq(Bytes))
  /\ table \in RuleSets
  /\ rules \in RuleSets \cup {Defaults}
  /\ keys \in 0 .. MaxKeys /\ edits \in 0 .. MaxEdits /\ faults \in 0 .. MaxFaults

\* NewManagerFromDB: the rules are loaded, or the default ones taken.
Init ==
  /\ kind \in {"gateway", "web"}
  /\ buffer = <<>> /\ wide = FALSE /\ pipe = <<>> /\ refused = <<>>
  /\ shell = [line |-> <<>>, ran |-> <<>>]
  /\ table \in RuleSets
  /\ \/ rules = table /\ faults = 0
     \/ rules = Defaults /\ faults = 1
  /\ keys = 0 /\ edits = 0

Press(sent) ==
  /\ keys < MaxKeys
  /\ keys' = keys + 1
  /\ pipe' = pipe \o sent
  /\ UNCHANGED <<kind, shell, rulesVars>>

\* Mistake: the web terminal, too, keeps ASCII only.
CopyAscii(c) == IF c \in Chars THEN <<c>> ELSE <<>>

\* The bytes kept of a character: 32 to 126 by the gateway, all by the web
\* terminal.
Copy(c) ==
  IF c \in Chars THEN <<c>> ELSE IF kind = "web" THEN <<c, "tail">> ELSE <<>>

TypeChar(c) ==
  /\ Press(<<c>>)
  /\ buffer' = buffer \o Copy(c)
  /\ wide' = (wide \/ c \in Wide)
  /\ UNCHANGED refused

\* Mistake: a backspace is only forwarded.
BackspaceForwarded ==
  /\ Press(<<"del">>)
  /\ UNCHANGED <<buffer, wide, refused>>

Backspace ==
  /\ Press(<<"del">>)
  /\ buffer' = IF buffer = <<>> THEN buffer ELSE Front(buffer)
  /\ UNCHANGED <<wide, refused>>

\* Mistake: Ctrl+C is kept like a character.
CtrlCKept ==
  /\ Press(<<"intr">>)
  /\ buffer' = Append(buffer, "intr")
  /\ UNCHANGED <<wide, refused>>

CtrlC ==
  /\ Press(<<"intr">>)
  /\ buffer' = <<>> /\ wide' = FALSE
  /\ UNCHANGED refused

\* Mistake: the web terminal erases as many characters as the command has
\* without the blanks around it.
EraserTrimmed ==
  IF kind = "gateway" THEN <<"intr">>
  ELSE [i \in 1 .. Len(TrimSpace(buffer)) |-> "del"] \o <<"enter">>

\* What keeps the target from running the line it already holds: the gateway
\* interrupts it, the web terminal erases it and asks for a new prompt.
Eraser ==
  IF kind = "gateway" THEN <<"intr">>
  ELSE [i \in 1 .. Len(buffer) |-> "del"] \o <<"enter">>

EnterBlocked ==
  /\ checkBlocked(rules, buffer, User)
  /\ Press(Eraser)
  /\ refused' = Append(refused, TrimSpace(buffer))
  /\ buffer' = <<>> /\ wide' = FALSE

EnterPassed ==
  /\ ~checkBlocked(rules, buffer, User)
  /\ Press(<<"enter">>)
  /\ buffer' = <<>> /\ wide' = FALSE
  /\ UNCHANGED refused

\* A shell's line editor reads one key.
ShellReads(sh, key) ==
  CASE key = "del"   -> [sh EXCEPT !.line = IF @ = <<>> THEN @ ELSE Front(@)]
    [] key = "intr"  -> [sh EXCEPT !.line = <<>>]
    [] key = "enter" -> [line |-> <<>>,
                         ran |-> IF TrimSpace(sh.line) = <<>> THEN sh.ran
                                 ELSE Append(sh.ran, TrimSpace(sh.line))]
    [] OTHER         -> [sh EXCEPT !.line = Append(@, key)]

Deliver ==
  /\ pipe # <<>>
  /\ shell' = ShellReads(shell, Head(pipe))
  /\ pipe' = Tail(pipe)
  /\ UNCHANGED <<kind, buffer, wide, refused, keys, rulesVars>>

\* An administrator creates, updates or deletes a rule.
EditRules ==
  /\ edits < MaxEdits
  /\ edits' = edits + 1
  /\ table' \in RuleSets \ {table}
  /\ UNCHANGED <<kind, buffer, wide, pipe, shell, refused, rules, keys, faults>>

\* Mistake: the rules are read again only while the default ones are in use.
RefreshOnce ==
  /\ kind = "web" /\ rules = Defaults
  /\ rules' = table
  /\ UNCHANGED <<kind, buffer, wide, pipe, shell, refused, table, keys, edits, faults>>

\* refreshFromDB, every five minutes; a read that fails changes nothing.  Only
\* the web terminal's Manager is started.
Refresh ==
  /\ kind = "web"
  /\ \/ rules' = table /\ UNCHANGED faults
     \/ faults < MaxFaults /\ faults' = faults + 1 /\ UNCHANGED rules
  /\ UNCHANGED <<kind, buffer, wide, pipe, shell, refused, table, keys, edits>>

Next ==
  \/ \E c \in Text : TypeChar(c)
  \/ Backspace \/ CtrlC \/ EnterBlocked \/ EnterPassed
  \/ Deliver \/ EditRules \/ Refresh

Spec == Init /\ [][Next]_vars

\* The refresh loop keeps running and the target reads its input; nothing is
\* assumed of the user or the administrator.
FairSpec == Spec /\ WF_vars(Refresh) /\ WF_vars(Deliver)

-----------------------------------------------------------------------------
(* Properties.                                                              *)

\* The target once it has read what is on its way.
Reads(sh, sent) ==
  LET after[i \in 0 .. Len(sent)] ==
        IF i = 0 THEN sh ELSE ShellReads(after[i - 1], sent[i])
  IN  after[Len(sent)]
Settled == Reads(shell, pipe)

\* The copy of a line of ASCII is the line the target will hold, whatever is
\* still on its way: what Enter checks is what Enter would run (handler.go
\* 424-531, connection_handler.go 648-720).
BufferIsLine == ~wide => Settled.line = buffer

\* The backspaces that the web terminal sends for a refused command, one for
\* each byte of its copy, are enough for every line (connection_handler.go
\* 683-687): nothing is left for the Enter behind them to run.
ErasesWholeLine == kind = "web" => Len(Settled.line) <= Len(buffer)

\* The filter is well typed, its copy of a line of ASCII is the target's line
\* once the keys on their way have arrived, and its copy of any line is long
\* enough to erase it by.
FilterSound == TypeOK /\ BufferIsLine /\ ErasesWholeLine

\* The filter with its copies and its cleaning up behaves as if it were the
\* shell: a command of ASCII characters runs or is refused by the rules of the
\* moment it is submitted, any other one by some copy of it, and one that is
\* refused never runs, not even in part.
Gate == INSTANCE CommandGate WITH
          line <- Settled.line, ran <- Settled.ran,
          RuleSets <- RuleSets \cup {Defaults}

ImplementsGate == Gate!Spec

\* Whether s matches the whole of the wildcard pattern p: m[j][i] says that the
\* first i characters of s match the first j of p, where a star stands for any
\* characters, or none.
Glob(s, p) ==
  LET m[j \in 0 .. Len(p)] ==
        IF j = 0 THEN [i \in 0 .. Len(s) |-> i = 0]
        ELSE IF p[j] = Star THEN [i \in 0 .. Len(s) |-> \E k \in 0 .. i : m[j - 1][k]]
        ELSE [i \in 0 .. Len(s) |-> i > 0 /\ s[i] = p[j] /\ m[j - 1][i - 1]]
  IN  m[Len(p)][Len(s)]

\* matchPattern looks for one part after the other and never goes back
\* (manager.go 388-410); it still finds every match there is, the pattern
\* being allowed to begin and end anywhere in the command.  Every line can be
\* typed without corrections, so that only such lines need be looked at.
GreedyFindsEveryMatch ==
  keys <= Len(buffer) /\ pipe = <<>> =>
    \A p \in Patterns :
      matchPattern(buffer, p) <=> Glob(buffer, <<Star>> \o p \o <<Star>>)

\* A change of the rules reaches the web terminal's filter.
RulesArrive == kind = "web" => <>[](rules = table)
=============================================================================
