------------------------------- MODULE Blacklist -------------------------------
(***************************************************************************)
(* The matching of command rules (bastion/blacklist/manager.go).  A string  *)
(* is a sequence of characters; a rule is a record of its scope, its        *)
(* pattern and the users it is for.  AdvancedDetector is left out: to the   *)
(* command filter it is one more set of commands that are refused.          *)
(***************************************************************************)
EXTENDS Naturals, SequencesExt

Blank == " "
Star  == "*"

\* strings.ToLower on the characters that have a capital here.
LowerChar(c) == IF c = "R" THEN "r" ELSE c
ToLower(s) == [i \in 1 .. Len(s) |-> LowerChar(s[i])]

\* strings.TrimSpace.
TrimSpace(s) ==
  LET ink == {i \in 1 .. Len(s) : s[i] # Blank}
  IN  IF ink = {} THEN <<>> ELSE SubSeq(s, Min(ink), Max(ink))

\* strings.Fields(s)[0] for a trimmed string.
FirstField(s) ==
  LET gap == {i \in 1 .. Len(s) : s[i] = Blank}
  IN  IF gap = {} THEN s ELSE SubSeq(s, 1, Min(gap) - 1)

\* strings.Split(pattern, "*"), character by character: a star begins a new
\* part, any other character goes on with the last one.
Split(pattern) ==
  LET parts[i \in 0 .. Len(pattern)] ==
        IF i = 0 THEN <<<<>>>>
        ELSE IF pattern[i] = Star THEN Append(parts[i - 1], <<>>)
        ELSE [parts[i - 1] EXCEPT ![Len(parts[i - 1])] = Append(@, pattern[i])]
  IN  parts[Len(pattern)]

\* strings.Index(str[pos:], part) as a position in str: where the part begins
\* at the earliest, or -1.
Index(str, pos, part) ==
  LET at == {i \in pos .. Len(str) - Len(part) :
               SubSeq(str, i + 1, i + Len(part)) = part}
  IN  IF at = {} THEN -1 ELSE Min(at)

\* Mistake: the search begins again at the start of the found part.
AdvanceTooLittle(str, pos, part) ==
  LET idx == Index(str, pos, part) IN IF idx = -1 THEN -1 ELSE idx

\* One round of the loop: the position after the part, or -1.
Advance(str, pos, part) ==
  LET idx == Index(str, pos, part)
  IN  IF idx = -1 THEN -1 ELSE idx + Len(part)

\* Every part is found, each after the one before it.
matchPattern(str, pattern) ==
  LET parts == Split(pattern)
      pos[i \in 0 .. Len(parts)] ==
        IF i = 0 THEN 0
        ELSE IF pos[i - 1] = -1 \/ parts[i] = <<>> THEN pos[i - 1]
        ELSE Advance(str, pos[i - 1], parts[i])
  IN  pos[Len(parts)] # -1

\* The command is the pattern, matches its wildcards, or its first word begins
\* with it.
matchCommand(command, pattern) ==
  \/ command = pattern
  \/ Star \in Range(pattern) /\ matchPattern(command, pattern)
  \/ /\ Star \notin Range(pattern)
     /\ command # <<>>
     /\ IsPrefix(pattern, FirstField(command))

\* The rules that are for a user: the global ones and those that name the user.
For(rule, user) ==
  rule.scope = "global" \/ (rule.scope = "user" /\ user \in rule.users)

\* The command, trimmed and not empty, meets a global rule or one of the
\* user's own.
checkBlocked(rules, command, user) ==
  /\ TrimSpace(command) # <<>>
  /\ \E rule \in rules :
       /\ For(rule, user)
       /\ matchCommand(ToLower(TrimSpace(command)), ToLower(rule.pattern))
=============================================================================
