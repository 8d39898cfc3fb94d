---------------------------- MODULE Account_proofs -----------------------------
(***************************************************************************)
(* What holds of one account for any number of requests in flight, any       *)
(* secrets, lifetimes and bounds: its row stays sound although requests save  *)
(* whole copies over each other, a mark stands for a warning unless the date  *)
(* was changed under a check, and a check disables only what has expired.    *)
(***************************************************************************)
EXTENDS Account, TLAPS

-----------------------------------------------------------------------------
(* The inductive invariant.                                                 *)

\* A copy that a request has read and may still write.
Holds(r) == req[r].stage \in {"read", "date"}

Whole(u) ==
  /\ u.enabled = "yes" <=> u.secret # "none"
  /\ u.enabled = "yes" <=> u.backup = "set"

Backed(u) == u.method = "publickey" /\ keyless = "no" => u.key = "set"

\* What makes the row sound makes every copy of it sound: a copy is of an
\* account that is there, and whole.  An absent account has no copies but absent
\* ones, which is why an insert cannot meet a copy of an earlier account.
CopiesInv ==
  /\ Whole(row) /\ Backed(row)
  /\ created = (IF Exists THEN 1 ELSE 0)
  /\ \A r \in Requests :
       /\ Whole(req[r].user)
       /\ req[r].user.status # "absent" => Exists /\ Backed(req[r].user)
       /\ req[r].stage = "info" => Exists
       /\ req[r].stage = "date" => req[r].user.status # "absent"

\* An administrator's row, and every copy of one, is of today; so a token that
\* says admin is not younger than the last day on which the row did.
AdminInv ==
  /\ lastAdmin <= clock
  /\ Exists /\ row.role = "admin" => lastAdmin = clock
  /\ \A r \in Requests :
       req[r].stage # "idle" /\ req[r].user.status # "absent" /\ req[r].user.role = "admin"
         => lastAdmin = clock
  /\ \A t \in tokens : t.role = "admin" => t.at <= lastAdmin
  /\ AdminLag

\* A marked date, of the row or of a copy, was told about or crossed a check.
Truthful(u) == u.warned = "yes" => u.expires \in told \cup crossed

\* Every mark is truthful, in copies that may be saved later as well; a check
\* between its list and its mark has the row's date or one that crossed it, and
\* has told about its own when it comes to the mark.
WarnInv ==
  /\ Truthful(row) /\ \A r \in Requests : Truthful(req[r].user)
  /\ \A k \in Checks :
       /\ Warns(k) => sweep[k].expires = row.expires \/ row.expires \in crossed
       /\ sweep[k].stage = "mark" => sweep[k].expires \in told
  /\ WarningsMatchDate

\* A listed account is there, and had expired when the check started.
SweepInv ==
  \A k \in Checks :
    /\ sweep[k].now <= clock
    /\ sweep[k].stage = "due" => /\ Exists
                                 /\ sweep[k].expires # 0 /\ sweep[k].expires <= sweep[k].now

AccountInv == TypeOK /\ CopiesInv /\ AdminInv /\ WarnInv /\ SweepInv

-----------------------------------------------------------------------------
(* Rows and copies.                                                         *)

\* An inserted row is one of the table, whole and not marked (NewUser).
LEMMA NewUserSound ==
  ASSUME NEW role \in Roles, NEW method \in Methods
  PROVE  LET u == NewUser(role, method)
         IN /\ u \in User /\ Whole(u) /\ u.status = "active" /\ u.role = role
            /\ u.method = method /\ u.warned = "no"
BY AccountAssumption DEF NewUser, User, Whole, Roles, Methods, Days, YesNo

\* Nobody is a row of the table that holds no account.
LEMMA NobodySound ==
  Nobody \in User /\ Whole(Nobody) /\ Nobody.status = "absent"
    /\ Nobody.role = "user" /\ Nobody.method = "password" /\ Nobody.warned = "no"
BY AccountAssumption DEF Nobody, NewUser, User, Whole, Roles, Methods, Days, YesNo

\* A request's entry after its end.
LEMMA IdleSound ==
  /\ Idle \in [stage : {"idle", "read", "info", "date"}, by : Rights, user : User]
  /\ Idle.stage = "idle" /\ Idle.user = Nobody
BY NobodySound DEF Idle, Rights

\* What a request with an account in its hands may rely on: the account is
\* there, its copy is sound, and its mark truthful.
LEMMA CopySound ==
  ASSUME AccountInv, NEW r \in Requests, Holds(r), req[r].user.status # "absent"
  PROVE  /\ req[r].user \in User /\ Whole(req[r].user) /\ Backed(req[r].user) /\ Exists
         /\ Truthful(req[r].user)
BY DEF AccountInv, TypeOK, CopiesInv, WarnInv

-----------------------------------------------------------------------------
(* The writes.  Whatever a handler writes, it writes a sound row.            *)

SameDate(u, v) == v.expires = u.expires /\ v.warned = u.warned

Written(u) == u \in User /\ u.status # "absent" /\ Whole(u) /\ Truthful(u)

\* The account is saved, or inserted where there was none.
Fits(u) ==
  \/ Exists /\ UNCHANGED <<created, keyless>> /\ Backed(u)
  \/ /\ ~Exists /\ created' = created + 1 /\ keyless' \in YesNo
     /\ u.method = "publickey" => keyless' = "yes"

\* The request ends, or goes on to the second part of UpdateUserByAdmin.
Ends(r) ==
  \/ Finish(r)
  \/ /\ req[r].stage # "idle"
     /\ req' = [req EXCEPT ![r] = [@ EXCEPT !.stage = "info", !.user = Nobody]]

Writes(r, u) ==
  /\ row' = u /\ Wrote(u) /\ Fits(u) /\ Ends(r)
  /\ tokens' = tokens \/ GenerateToken(u)
  /\ UNCHANGED <<clock, policy, sweep, count, faults>>

\* The entries of the other requests stay, and the one of r holds no copy.
LEMMA EndsSound ==
  ASSUME AccountInv, NEW r \in Requests, Ends(r)
  PROVE  /\ req' \in [Requests -> [stage : {"idle", "read", "info", "date"},
                                   by : Rights, user : User]]
         /\ req'[r].stage \in {"idle", "info"} /\ req'[r].user = Nobody
         /\ req'[r].stage # "idle" => req[r].stage # "idle" /\ req'[r].by = req[r].by
         /\ \A x \in Requests : x # r => req'[x] = req[x]
<1>1. req \in [Requests -> [stage : {"idle", "read", "info", "date"},
                            by : Rights, user : User]]
  BY DEF AccountInv, TypeOK
<1>2. CASE Finish(r)
  BY <1>1, <1>2, IdleSound DEF Finish
<1>3. CASE /\ req[r].stage # "idle"
           /\ req' = [req EXCEPT ![r] = [@ EXCEPT !.stage = "info", !.user = Nobody]]
  BY <1>1, <1>3, NobodySound
<1>4. QED
  BY <1>2, <1>3 DEF Ends

\* Every write of a sound row keeps the invariant.
LEMMA WriteKeeps ==
  ASSUME AccountInv, NEW r \in Requests, NEW u, Written(u), Writes(r, u)
  PROVE  AccountInv'
<1>1. /\ req' \in [Requests -> [stage : {"idle", "read", "info", "date"},
                                by : Rights, user : User]]
      /\ req'[r].stage \in {"idle", "info"} /\ req'[r].user = Nobody
      /\ req'[r].stage # "idle" => req[r].stage # "idle" /\ req'[r].by = req[r].by
      /\ \A x \in Requests : x # r => req'[x] = req[x]
  BY EndsSound DEF Writes
<1>2. /\ row' = u /\ u \in User /\ u.status # "absent" /\ Whole(u)
      /\ clock' = clock /\ policy' = policy /\ sweep' = sweep /\ count' = count
      /\ faults' = faults
  BY DEF Writes, Written
<1>3. lastAdmin' \in 0 .. MaxTime /\ lastAdmin <= lastAdmin' /\ lastAdmin' <= clock
      /\ (u.role = "admin" => lastAdmin' = clock) /\ (lastAdmin = clock => lastAdmin' = clock)
  BY <1>2, AccountAssumption DEF Writes, Wrote, AccountInv, TypeOK, AdminInv
<1>4. tokens' \subseteq Token
      /\ \A t \in tokens' : t \in tokens \/ (t.role = u.role /\ t.at = clock)
  <2>1. [role |-> u.role, at |-> clock] \in Token
    BY <1>2 DEF Token, User, AccountInv, TypeOK
  <2>2. QED
    BY <2>1 DEF Writes, GenerateToken, AccountInv, TypeOK
<1>5. TypeOK'
  <2>1. created' \in Nat /\ keyless' \in YesNo
    BY DEF Writes, Fits, AccountInv, TypeOK
  <2>2. /\ told' \subseteq 0 .. MaxTime /\ crossed' \subseteq 0 .. MaxTime
        /\ unmarked' \subseteq 0 .. MaxTime
    <3>1. u.expires \in 0 .. MaxTime
      BY <1>2, AccountAssumption DEF User, Days
    <3>2. QED
      BY <3>1 DEF Writes, Wrote, AccountInv, TypeOK
  <2>3. QED
    BY <1>1, <1>2, <1>3, <1>4, <2>1, <2>2 DEF AccountInv, TypeOK
<1>6. CopiesInv'
  <2>1. Exists'
    BY <1>2 DEF Exists
  <2>2. created' = 1
    BY DEF Writes, Fits, AccountInv, CopiesInv
  <2>3. Whole(row)' /\ Backed(row)'
    BY <1>2 DEF Writes, Fits, Whole, Backed
  <2>4. ASSUME NEW x \in Requests
        PROVE  /\ Whole(req[x].user)'
               /\ req'[x].user.status # "absent" => Backed(req[x].user)'
               /\ req'[x].stage = "date" => req'[x].user.status # "absent"
    <3>1. CASE x = r
      BY <1>1, <3>1, NobodySound DEF Whole
    <3>2. CASE x # r
      <4>1. req'[x] = req[x]
        BY <1>1, <3>2
      <4>2. Whole(req'[x].user) /\ (req'[x].stage = "date" => req'[x].user.status # "absent")
        BY <4>1 DEF AccountInv, CopiesInv
      <4>3. req[x].user.status # "absent" => keyless' = keyless /\ Backed(req[x].user)
        BY DEF AccountInv, CopiesInv, Writes, Fits
      <4>4. QED
        BY <4>1, <4>2, <4>3 DEF Whole, Backed
    <3>3. QED
      BY <3>1, <3>2
  <2>5. QED
    BY <2>1, <2>2, <2>3, <2>4 DEF CopiesInv
<1>7. AdminInv'
  <2>1. Exists' /\ row'.role = "admin" => lastAdmin' = clock'
    BY <1>2, <1>3
  <2>2. ASSUME NEW x \in Requests, req'[x].stage # "idle",
               req'[x].user.status # "absent", req'[x].user.role = "admin"
        PROVE  lastAdmin' = clock'
    BY <1>1, <1>2, <1>3, <2>2, NobodySound DEF AccountInv, AdminInv
  <2>3. ASSUME NEW t \in tokens', t.role = "admin"
        PROVE  t.at <= lastAdmin'
    <3>1. CASE t \in tokens
      <4>1. t.at <= lastAdmin /\ t.at \in Nat /\ lastAdmin \in Nat
        BY <2>3, <3>1 DEF AccountInv, AdminInv, TypeOK, Token
      <4>2. QED
        BY <4>1, <1>3
    <3>2. CASE t.role = u.role /\ t.at = clock
      BY <1>3, <2>3, <3>2 DEF AccountInv, TypeOK
    <3>3. QED
      BY <1>4, <3>1, <3>2
  <2>4. AdminLag'
    <3>1. ASSUME NEW x \in Requests, req'[x].stage # "idle", req'[x].by = "selfAdmin"
          PROVE  clock' <= lastAdmin' + TokenLife
      <4>1. req[x].stage # "idle" /\ req[x].by = "selfAdmin"
        BY <1>1, <3>1
      <4>2. clock <= lastAdmin + TokenLife
        BY <4>1 DEF AccountInv, AdminInv, AdminLag
      <4>3. clock \in Nat /\ lastAdmin \in Nat /\ lastAdmin' \in Nat /\ TokenLife \in Nat
        BY <1>3, AccountAssumption DEF AccountInv, TypeOK
      <4>4. lastAdmin <= lastAdmin' /\ clock' = clock
        BY <1>2, <1>3
      <4>5. \A a, b, c, d \in Nat : a <= b + c /\ b <= d => a <= d + c
        OBVIOUS
      <4>6. QED
        BY <4>2, <4>3, <4>4, <4>5
    <3>2. QED
      BY <3>1 DEF AdminLag
  <2>5. QED
    BY <1>2, <1>3, <2>1, <2>2, <2>3, <2>4 DEF AdminInv
<1>8. WarnInv'
  <2>1. /\ told' = told /\ crossed \subseteq crossed' /\ unmarked \subseteq unmarked'
        /\ u.expires # row.expires /\ (\E k \in Checks : Warns(k)) => u.expires \in crossed'
        /\ u.warned = "no" /\ u.expires \in told
             /\ (row.warned = "yes" \/ u.expires # row.expires) => u.expires \in unmarked'
    BY DEF Writes, Wrote
  <2>2. Truthful(u)' /\ Truthful(row)'
    BY <1>2, <2>1 DEF Written, Truthful
  <2>3. ASSUME NEW x \in Requests PROVE Truthful(req[x].user)'
    BY <1>1, <2>1, NobodySound DEF AccountInv, WarnInv, Truthful
  <2>4. ASSUME NEW k \in Checks
        PROVE  /\ Warns(k)' => sweep'[k].expires = row'.expires \/ row'.expires \in crossed'
               /\ sweep'[k].stage = "mark" => sweep'[k].expires \in told'
    BY <1>2, <2>1 DEF AccountInv, WarnInv, Warns
  <2>5. WarningsMatchDate'
    <3>1. row'.warned = "yes" => row'.expires \in told' \cup crossed'
      BY <2>2 DEF Truthful
    <3>2. ASSUME row'.warned = "no", row'.expires \in told', row'.expires \notin unmarked'
          PROVE  \E k \in Checks : sweep'[k].stage = "mark" /\ sweep'[k].expires = row'.expires
      <4>1. row.warned # "yes" /\ u.expires = row.expires /\ row.expires \notin unmarked
        BY <1>2, <2>1, <3>2
      <4>2. row.warned = "no" /\ row.expires \in told
        BY <1>2, <2>1, <3>2, <4>1 DEF AccountInv, TypeOK, User, YesNo
      <4>3. QED
        BY <1>2, <4>1, <4>2 DEF AccountInv, WarnInv, WarningsMatchDate
    <3>3. QED
      BY <3>1, <3>2 DEF WarningsMatchDate
  <2>6. QED
    BY <2>2, <2>3, <2>4, <2>5 DEF WarnInv
<1>9. SweepInv'
  BY <1>2 DEF AccountInv, SweepInv, Exists
<1>10. QED
  BY <1>5, <1>6, <1>7, <1>8, <1>9 DEF AccountInv


-----------------------------------------------------------------------------
(* The handlers, each with the row that it writes.                           *)

\* A handler of an account it found saves a changed copy.
LEMMA SaveKeeps ==
  ASSUME AccountInv, NEW r \in Requests, Holds(r), req[r].user.status # "absent",
         NEW u, u \in User, Whole(u), Backed(u), u.status # "absent",
         u.warned = "no" \/ SameDate(req[r].user, u),
         UpdateUser(r, u), Ends(r)
  PROVE  AccountInv'
<1>1. Exists /\ Truthful(req[r].user)
  BY CopySound
<1>2. Written(u)
  BY <1>1 DEF Written, Truthful, SameDate
<1>3. Writes(r, u)
  BY <1>1 DEF UpdateUser, Writes, Fits
<1>4. QED
  BY <1>2, <1>3, WriteKeeps

\* A handler updates columns of the row as it is now.
LEMMA UpdateKeeps ==
  ASSUME AccountInv, NEW r \in Requests, Holds(r), req[r].user.status # "absent",
         NEW u, u \in User, u.status # "absent",
         \A c \in {"method", "key", "enabled", "secret", "backup"} : u[c] = row[c],
         u.warned = "no" \/ SameDate(row, u),
         row' = u, Wrote(u), Finish(r),
         UNCHANGED <<clock, policy, tokens, sweep, count, faults, created, keyless>>
  PROVE  AccountInv'
<1>1. Exists
  BY CopySound
<1>2. Whole(u) /\ Backed(u)
  BY DEF AccountInv, CopiesInv, Whole, Backed
<1>3. Written(u)
  BY <1>2 DEF Written, Truthful, SameDate, AccountInv, WarnInv
<1>4. Writes(r, u)
  BY <1>1, <1>2 DEF Writes, Fits, Ends
<1>5. QED
  BY <1>3, <1>4, WriteKeeps

\* An insert: there was no account, so that no request has a copy of one.
LEMMA InsertKeeps ==
  ASSUME AccountInv, NEW r \in Requests, NEW role \in Roles, NEW method \in Methods,
         Insert(r, role, method)
  PROVE  AccountInv'
<1> DEFINE u == NewUser(role, method)
<1>1. /\ u \in User /\ Whole(u) /\ u.status = "active"
      /\ u.method = method /\ u.warned = "no"
  BY NewUserSound
<1>2. CreateUser(r, u) /\ Finish(r)
  BY DEF Insert
<1> HIDE DEF u
<1>3. Written(u)
  BY <1>1 DEF Written, Truthful
<1>4. Fits(u)
  BY <1>1, <1>2 DEF CreateUser, Fits, YesNo
<1>5. Writes(r, u)
  BY <1>2, <1>4 DEF CreateUser, Writes, Ends
<1>6. QED
  BY <1>3, <1>5, WriteKeeps

\* What a handler that saves must give the table: a row that is sound, with the
\* date and the mark that it read.
SoundRow(u) == u \in User /\ Whole(u) /\ Backed(u) /\ u.status # "absent"


\* The columns that the handlers change leave a sound copy sound.
LEMMA ColumnsSound ==
  ASSUME NEW u, SoundRow(u)
  PROVE  /\ SoundRow(WithKey(u)) /\ SameDate(u, WithKey(u))
         /\ SoundRow(WithoutKey(u)) /\ SameDate(u, WithoutKey(u))
         /\ SoundRow(WithoutTwoFactor(u)) /\ SameDate(u, WithoutTwoFactor(u))
         /\ \A method \in Methods : MayUse(u, method) =>
              LET v == [u EXCEPT !.method = method] IN SoundRow(v) /\ SameDate(u, v)
         /\ \A s \in Secrets :
              LET v == [u EXCEPT !.enabled = "yes", !.secret = s, !.backup = "set"]
              IN  SoundRow(v) /\ SameDate(u, v)
         /\ u.enabled = "yes" =>
              LET v == [u EXCEPT !.backup = "set"] IN SoundRow(v) /\ SameDate(u, v)
         /\ \A auto \in YesNo :
              LET v == [u EXCEPT !.auto = auto] IN SoundRow(v) /\ SameDate(u, v)
         /\ \A auto \in YesNo, d \in Days \cup {0} :
              LET v == [u EXCEPT !.expires = d, !.warned = "no", !.auto = auto]
              IN  SoundRow(v) /\ v.warned = "no"
<1>1. SoundRow(WithKey(u)) /\ SameDate(u, WithKey(u))
  BY DEF WithKey, SoundRow, SameDate, User, Whole, Backed
<1>2. SoundRow(WithoutKey(u)) /\ SameDate(u, WithoutKey(u))
  BY DEF WithoutKey, SoundRow, SameDate, User, Whole, Backed, Methods
<1>3. SoundRow(WithoutTwoFactor(u)) /\ SameDate(u, WithoutTwoFactor(u))
  BY DEF WithoutTwoFactor, SoundRow, SameDate, User, Whole, Backed, YesNo
<1>4. ASSUME NEW method \in Methods, MayUse(u, method)
      PROVE  LET v == [u EXCEPT !.method = method] IN SoundRow(v) /\ SameDate(u, v)
  BY <1>4 DEF MayUse, SoundRow, SameDate, User, Whole, Backed, Methods
<1>5. ASSUME NEW s \in Secrets
      PROVE  LET v == [u EXCEPT !.enabled = "yes", !.secret = s, !.backup = "set"]
             IN  SoundRow(v) /\ SameDate(u, v)
  BY AccountAssumption DEF SoundRow, SameDate, User, Whole, Backed, YesNo
<1>6. ASSUME u.enabled = "yes"
      PROVE  LET v == [u EXCEPT !.backup = "set"] IN SoundRow(v) /\ SameDate(u, v)
  BY <1>6 DEF SoundRow, SameDate, User, Whole, Backed
<1>7. ASSUME NEW auto \in YesNo
      PROVE  LET v == [u EXCEPT !.auto = auto] IN SoundRow(v) /\ SameDate(u, v)
  BY DEF SoundRow, SameDate, User, Whole, Backed
<1>8. ASSUME NEW auto \in YesNo, NEW d \in Days \cup {0}
      PROVE  LET v == [u EXCEPT !.expires = d, !.warned = "no", !.auto = auto]
             IN  SoundRow(v) /\ v.warned = "no"
  BY DEF SoundRow, User, Whole, Backed, YesNo
<1>9. QED
  BY <1>1, <1>2, <1>3, <1>4, <1>5, <1>6, <1>7, <1>8

-----------------------------------------------------------------------------
(* The steps of a request that leave the row alone.                          *)

\* A request reads the row, or reads it again, and takes a copy.
LEMMA ReadKeeps ==
  ASSUME AccountInv, NEW r \in Requests, NEW q,
         q \in [stage : {"read", "date"}, by : Rights, user : {row}],
         q.stage = "date" => Exists,
         q.by = "selfAdmin" => clock <= lastAdmin + TokenLife,
         req' = [req EXCEPT ![r] = q],
         UNCHANGED <<clock, row, policy, tokens, sweep, faults, history>>,
         count' \in 0 .. MaxRequests
  PROVE  AccountInv'
<1>1. /\ q.stage \in {"read", "date"} /\ q.by \in Rights /\ q.user = row
      /\ q \in [stage : {"idle", "read", "info", "date"}, by : Rights, user : User]
  BY DEF AccountInv, TypeOK
<1>2. /\ req'[r] = q /\ \A x \in Requests : x # r => req'[x] = req[x]
      /\ req' \in [Requests -> [stage : {"idle", "read", "info", "date"},
                                by : Rights, user : User]]
  BY <1>1 DEF AccountInv, TypeOK
<1>3. /\ clock' = clock /\ row' = row /\ policy' = policy /\ tokens' = tokens
      /\ sweep' = sweep /\ created' = created /\ keyless' = keyless
      /\ lastAdmin' = lastAdmin /\ told' = told /\ crossed' = crossed
      /\ unmarked' = unmarked /\ faults' = faults
  BY DEF history
<1>4. TypeOK'
  BY <1>2, <1>3 DEF AccountInv, TypeOK
<1>5. CopiesInv'
  BY <1>1, <1>2, <1>3 DEF AccountInv, CopiesInv, Whole, Backed, Exists
<1>6. AdminInv'
  BY <1>1, <1>2, <1>3 DEF AccountInv, AdminInv, AdminLag, Exists
<1>7. WarnInv'
  BY <1>1, <1>2, <1>3 DEF AccountInv, WarnInv, Truthful, Warns, WarningsMatchDate
<1>8. SweepInv'
  BY <1>3 DEF AccountInv, SweepInv, Exists
<1>9. QED
  BY <1>4, <1>5, <1>6, <1>7, <1>8 DEF AccountInv

\* A request ends without a write, with a token or without one.
LEMMA EndKeeps ==
  ASSUME AccountInv, NEW r \in Requests, Finish(r), tokens' \subseteq Token,
         \A t \in tokens' : \/ t \in tokens
                            \/ t.at = clock /\ (t.role = "admin" => lastAdmin = clock),
         UNCHANGED <<clock, row, policy, sweep, count, faults, history>>
  PROVE  AccountInv'
<1>1. /\ req' \in [Requests -> [stage : {"idle", "read", "info", "date"},
                                by : Rights, user : User]]
      /\ req'[r].stage = "idle" /\ req'[r].user = Nobody
      /\ \A x \in Requests : x # r => req'[x] = req[x]
  BY IdleSound DEF Finish, AccountInv, TypeOK
<1>2. /\ clock' = clock /\ row' = row /\ policy' = policy /\ count' = count
      /\ sweep' = sweep /\ created' = created /\ keyless' = keyless
      /\ lastAdmin' = lastAdmin /\ told' = told /\ crossed' = crossed
      /\ unmarked' = unmarked /\ faults' = faults
  BY DEF history
<1>3. TypeOK'
  BY <1>1, <1>2 DEF AccountInv, TypeOK
<1>4. CopiesInv'
  BY <1>1, <1>2, NobodySound DEF AccountInv, CopiesInv, Whole, Backed, Exists
<1>5. AdminInv'
  <2>1. \A t \in tokens' : t.role = "admin" => t.at <= lastAdmin'
    BY <1>2 DEF AccountInv, TypeOK, AdminInv, Token
  <2>2. QED
    BY <1>1, <1>2, <2>1 DEF AccountInv, AdminInv, AdminLag, Exists
<1>6. WarnInv'
  BY <1>1, <1>2, NobodySound DEF AccountInv, WarnInv, Truthful, Warns, WarningsMatchDate
<1>7. SweepInv'
  BY <1>2 DEF AccountInv, SweepInv, Exists
<1>8. QED
  BY <1>3, <1>4, <1>5, <1>6, <1>7 DEF AccountInv

\* A request is refused.
LEMMA RefuseKeeps ==
  ASSUME AccountInv, NEW r \in Requests, Refuse(r)
  PROVE  AccountInv'
BY EndKeeps DEF Refuse, AccountInv, TypeOK, history

\* A handler of an account that it found: what Handles and the stage give.
LEMMA HandlesSound ==
  ASSUME AccountInv, NEW r \in Requests,
         \/ req[r].stage = "read" /\ req[r].user.status # "absent"
         \/ req[r].stage = "date"
  PROVE  Holds(r) /\ SoundRow(req[r].user) /\ Exists
BY CopySound DEF Holds, SoundRow, AccountInv, CopiesInv

\* Every handler that writes keeps the invariant.
LEMMA ManageKeeps ==
  ASSUME AccountInv, NEW r \in Requests, Manage(r)
  PROVE  AccountInv'
<1> DEFINE u == req[r].user
<1>0. ASSUME NEW v, SoundRow(v), SameDate(u, v), Holds(r), u.status # "absent",
             UpdateUser(r, v), Ends(r)
      PROVE  AccountInv'
  BY <1>0, SaveKeeps DEF SoundRow, SameDate
<1>1. CASE Register(r)
  BY <1>1, InsertKeeps DEF Register, Roles, Methods
<1>2. CASE CreateUserByAdmin(r)
  BY <1>2, InsertKeeps DEF CreateUserByAdmin
<1>a. ASSUME NEW rights, Handles(r, rights)
      PROVE  Holds(r) /\ SoundRow(u) /\ Exists /\ u.status # "absent"
  BY <1>a, HandlesSound DEF Handles
<1>3. CASE UpdateUserInfo(r)
  <2>1. Holds(r) /\ SoundRow(u) /\ u.status # "absent"
    BY <1>3, <1>a DEF UpdateUserInfo
  <2>2. UpdateUser(r, u) /\ Ends(r)
    BY <1>3, <2>1 DEF UpdateUserInfo, Ends, Holds
  <2>3. SameDate(u, u)
    BY DEF SameDate
  <2>4. QED
    BY <2>1, <2>2, <2>3, <1>0
<1>4. CASE UpdateUserByAdmin(r)
  <2>1. /\ req[r].stage = "info"
        /\ req' = [req EXCEPT ![r].stage = "date", ![r].user = row]
        /\ UNCHANGED <<clock, row, policy, tokens, sweep, count, faults, history>>
    BY <1>4 DEF UpdateUserByAdmin
  <2> DEFINE q == [[req[r] EXCEPT !.stage = "date"] EXCEPT !.user = row]
  <2>2. /\ q \in [stage : {"read", "date"}, by : Rights, user : {row}] /\ Exists
        /\ q.stage = "date" /\ q.by = req[r].by
    <3>1. ASSUME NEW e \in [stage : {"idle", "read", "info", "date"},
                            by : Rights, user : User]
          PROVE  LET f == [[e EXCEPT !.stage = "date"] EXCEPT !.user = row]
                 IN /\ f \in [stage : {"read", "date"}, by : Rights, user : {row}]
                    /\ f.stage = "date" /\ f.by = e.by
      OBVIOUS
    <3>2. QED
      BY <2>1, <3>1 DEF AccountInv, TypeOK, CopiesInv
  <2>3. q.by = "selfAdmin" => clock <= lastAdmin + TokenLife
    BY <2>1, <2>2 DEF AccountInv, AdminInv, AdminLag
  <2>4. req' = [req EXCEPT ![r] = q]
    BY <2>1 DEF AccountInv, TypeOK
  <2>5. count' \in 0 .. MaxRequests
    BY <2>1 DEF AccountInv, TypeOK
  <2> HIDE DEF q
  <2>6. QED
    BY <2>1, <2>2, <2>3, <2>4, <2>5, ReadKeeps
<1>5. CASE UpdateUserExpiration(r)
  <2>1. Holds(r) /\ SoundRow(u) /\ u.status # "absent" /\ Ends(r)
    BY <1>5, HandlesSound DEF UpdateUserExpiration, SoundRow, Ends
  <2>2. PICK auto \in YesNo :
          \/ UpdateUser(r, [u EXCEPT !.auto = auto])
          \/ \E d \in Days \cup {0} :
               UpdateUser(r, [u EXCEPT !.expires = d, !.warned = "no",
                                       !.auto = auto])
    BY <1>5 DEF UpdateUserExpiration
  <2>3. CASE UpdateUser(r, [u EXCEPT !.auto = auto])
    BY <2>1, <2>3, <1>0, ColumnsSound
  <2>4. ASSUME NEW d \in Days \cup {0},
               UpdateUser(r, [u EXCEPT !.expires = d, !.warned = "no",
                                       !.auto = auto])
        PROVE  AccountInv'
    <3> DEFINE v == [u EXCEPT !.expires = d, !.warned = "no", !.auto = auto]
    <3>1. SoundRow(v) /\ v.warned = "no"
      BY <2>1, ColumnsSound
    <3>2. UpdateUser(r, v)
      BY <2>4
    <3> HIDE DEF v
    <3>3. QED
      BY <2>1, <3>1, <3>2, SaveKeeps DEF SoundRow
  <2>5. QED
    BY <2>2, <2>3, <2>4
<1>6. CASE ChangeRole(r)
  <2>1. Holds(r) /\ u.status # "absent" /\ Exists /\ Finish(r)
    BY <1>6, <1>a DEF ChangeRole
  <2>2. PICK role \in Roles : UpdateUserRole(r, role)
    BY <1>6 DEF ChangeRole
  <2> DEFINE v == [row EXCEPT !.role = role]
  <2>3. /\ v \in User /\ v.status # "absent" /\ SameDate(row, v)
        /\ \A c \in {"method", "key", "enabled", "secret", "backup"} : v[c] = row[c]
    BY <2>1 DEF AccountInv, TypeOK, User, SameDate, Exists
  <2>4. /\ row' = v /\ Wrote(v)
        /\ UNCHANGED <<clock, policy, tokens, sweep, count, faults, created, keyless>>
    BY <2>2 DEF UpdateUserRole
  <2> HIDE DEF v
  <2>5. QED
    BY <2>1, <2>3, <2>4, UpdateKeeps DEF SameDate
<1>b. ASSUME NEW status \in {"active", "inactive"}, UpdateUserStatus(r, status),
             Holds(r), u.status # "absent", Finish(r)
      PROVE  AccountInv'
  <2> DEFINE v == [row EXCEPT !.status = status]
  <2>1. /\ v \in User /\ v.status # "absent" /\ SameDate(row, v)
        /\ \A c \in {"method", "key", "enabled", "secret", "backup"} : v[c] = row[c]
    BY DEF AccountInv, TypeOK, User, SameDate
  <2>2. /\ row' = v /\ Wrote(v)
        /\ UNCHANGED <<clock, policy, tokens, sweep, count, faults, created, keyless>>
    BY <1>b DEF UpdateUserStatus
  <2> HIDE DEF v
  <2>3. QED
    BY <1>b, <2>1, <2>2, UpdateKeeps DEF SameDate
<1>7. CASE ChangeStatus(r)
  BY <1>7, <1>a, <1>b DEF ChangeStatus
<1>8. CASE DeleteUser(r)
  BY <1>8, <1>a, <1>b DEF DeleteUser
<1>9. CASE ResetUserPassword(r)
  <2>1. Holds(r) /\ SoundRow(u) /\ u.status # "absent" /\ SameDate(u, u)
    BY <1>9, <1>a DEF ResetUserPassword, SameDate
  <2>2. UpdateUser(r, u) /\ Ends(r)
    BY <1>9 DEF ResetUserPassword, WithNewPassword, Ends
  <2>3. QED
    BY <2>1, <2>2, <1>0
<1>10. CASE RenewUserExpiration(r)
  <2>1. Holds(r) /\ u.status # "absent" /\ Exists /\ Finish(r)
    BY <1>10, <1>a DEF RenewUserExpiration
  <2>2. PICK d \in Days \cup {0} :
          /\ row' = [row EXCEPT !.expires = d, !.warned = "no",
                       !.status = IF d > clock /\ u.status = "inactive"
                                  THEN "active" ELSE @]
          /\ Wrote(row')
    BY <1>10 DEF RenewUserExpiration
  <2>3. /\ row' \in User /\ row'.status # "absent" /\ row'.warned = "no"
        /\ \A c \in {"method", "key", "enabled", "secret", "backup"} : row'[c] = row[c]
    BY <2>1, <2>2 DEF AccountInv, TypeOK, User, Exists, YesNo
  <2>4. UNCHANGED <<clock, policy, tokens, sweep, count, faults, created, keyless>>
    BY <1>10 DEF RenewUserExpiration
  <2>5. QED
    BY <2>1, <2>2, <2>3, <2>4, UpdateKeeps
<1>11. CASE GenerateSSHKey(r)
  BY <1>11, <1>0, <1>a, ColumnsSound DEF GenerateSSHKey, Ends
<1>12. CASE DeleteSSHKey(r)
  BY <1>12, <1>0, <1>a, ColumnsSound DEF DeleteSSHKey, Ends
<1>13. CASE UpdateUserAuthMethod(r)
  BY <1>13, <1>0, <1>a, ColumnsSound DEF UpdateUserAuthMethod, Ends
<1>14. CASE SetupTwoFactor(r)
  BY <1>14, RefuseKeeps DEF SetupTwoFactor, Refuse
<1>15. CASE VerifyTwoFactor(r)
  BY <1>15, <1>0, <1>a, ColumnsSound DEF VerifyTwoFactor, Ends
<1>16. CASE DisableTwoFactor(r)
  BY <1>16, <1>0, <1>a, ColumnsSound DEF DisableTwoFactor, Ends
<1>17. CASE ResetUserTwoFactor(r)
  BY <1>17, <1>0, <1>a, ColumnsSound DEF ResetUserTwoFactor, Ends
<1>18. CASE RegenerateBackupCodes(r)
  BY <1>18, <1>0, <1>a, ColumnsSound DEF RegenerateBackupCodes, Ends
<1>19. QED
  BY <1>1, <1>2, <1>3, <1>4, <1>5, <1>6, <1>7, <1>8, <1>9, <1>10, <1>11, <1>12, <1>13,
     <1>14, <1>15, <1>16, <1>17, <1>18 DEF Manage


-----------------------------------------------------------------------------
(* Requests arrive and log in.                                               *)

\* A request arrives: its token, if it says admin, is not older than TokenLife,
\* and the row said admin when it was given out.
LEMMA ReceiveKeeps ==
  ASSUME AccountInv, NEW r \in Requests, NEW by \in Rights, Receive(r, by)
  PROVE  AccountInv'
<1> DEFINE q == [stage |-> "read", by |-> by, user |-> row]
<1>1. q \in [stage : {"read", "date"}, by : Rights, user : {row}] /\ q.stage = "read"
  OBVIOUS
<1>2. ASSUME by = "selfAdmin"
      PROVE  clock <= lastAdmin + TokenLife
  <2>1. PICK t \in tokens : ValidateToken(t) /\ t.role = "admin"
    BY <1>2 DEF Receive, AdminMiddleware
  <2>2. t.at <= lastAdmin /\ t.at \in Nat /\ lastAdmin \in Nat /\ clock \in Nat
    BY <2>1 DEF AccountInv, TypeOK, AdminInv, Token
  <2>3. clock < t.at + TokenLife /\ TokenLife \in Nat
    BY <2>1, AccountAssumption DEF ValidateToken
  <2>4. QED
    BY <2>2, <2>3
<1>3. q.by = "selfAdmin" => clock <= lastAdmin + TokenLife
  BY <1>2
<1>4. /\ req' = [req EXCEPT ![r] = q]
      /\ UNCHANGED <<clock, row, policy, tokens, sweep, faults, history>>
  BY DEF Receive
<1>5. count' \in 0 .. MaxRequests
  BY AccountAssumption DEF Receive, AccountInv, TypeOK
<1> HIDE DEF q
<1>6. QED
  BY <1>1, <1>3, <1>4, <1>5, ReadKeeps

\* A sign-on that fails before the account is read leaves only its count.
LEMMA SSOCallbackKeeps ==
  ASSUME AccountInv, NEW r \in Requests, SSOCallback(r)
  PROVE  AccountInv'
<1>1. CASE Receive(r, "anonymous")
  BY <1>1, ReceiveKeeps DEF Rights
<1>2. CASE /\ req[r].stage = "idle" /\ count < MaxRequests
           /\ count' = count + 1
           /\ UNCHANGED <<clock, row, policy, tokens, req, sweep, faults, history>>
  <2>1. /\ clock' = clock /\ row' = row /\ policy' = policy /\ tokens' = tokens
        /\ req' = req /\ sweep' = sweep /\ created' = created /\ keyless' = keyless
        /\ lastAdmin' = lastAdmin /\ told' = told /\ crossed' = crossed
        /\ unmarked' = unmarked /\ faults' = faults
    BY <1>2 DEF history
  <2>2. count' \in 0 .. MaxRequests
    BY <1>2, AccountAssumption DEF AccountInv, TypeOK
  <2>3. QED
    BY <2>1, <2>2 DEF AccountInv, TypeOK, CopiesInv, Backed, Exists, AdminInv, AdminLag,
                      WarnInv, Truthful, Warns, WarningsMatchDate, SweepInv
<1>3. QED
  BY <1>1, <1>2 DEF SSOCallback

\* A login's token says admin only if the row did today.
LEMMA LoginKeeps ==
  ASSUME AccountInv, NEW r \in Requests, Login(r)
  PROVE  AccountInv'
<1> DEFINE u == req[r].user
<1>1. req[r].stage = "read" /\ u.status = "active" /\ Finish(r)
  BY DEF Login, AuthenticateWithPassword
<1>2. u \in User /\ clock \in 0 .. MaxTime /\ tokens \subseteq Token
  BY DEF AccountInv, TypeOK
<1>3. u.role = "admin" => lastAdmin = clock
  BY <1>1 DEF AccountInv, AdminInv
<1>4. tokens' = tokens \cup {[role |-> u.role, at |-> clock]}
  BY DEF Login, GenerateToken
<1>5. tokens' \subseteq Token
  BY <1>2, <1>4 DEF Token, User
<1>6. \A t \in tokens' : \/ t \in tokens
                         \/ t.at = clock /\ (t.role = "admin" => lastAdmin = clock)
  BY <1>3, <1>4
<1>7. UNCHANGED <<clock, row, policy, sweep, count, faults, history>>
  BY DEF Login
<1>8. QED
  BY <1>1, <1>5, <1>6, <1>7, EndKeeps

\* A sign-on inserts the account or saves its copy, and may give out a token
\* with the role of what it wrote.
LEMMA LoginWithSSOKeeps ==
  ASSUME AccountInv, NEW r \in Requests, LoginWithSSO(r)
  PROVE  AccountInv'
<1> DEFINE c == req[r].user
           u == SSOUser(c)
<1>1. /\ req[r].stage = "read" /\ Finish(r) /\ row' = u
      /\ Wrote(u)
      /\ \/ c.status # "absent" /\ UNCHANGED <<created, keyless>>
         \/ c.status = "absent" /\ ~Exists /\ created' = created + 1 /\ keyless' = "no"
      /\ tokens' = tokens \/ GenerateToken(u)
      /\ UNCHANGED <<clock, policy, sweep, count, faults>>
  BY DEF LoginWithSSO, CreateOrUpdateSSOUser
<1>2. CASE c.status = "absent"
  <2>1. /\ u \in User /\ Whole(u) /\ u.status = "active"
        /\ u.method = "password" /\ u.warned = "no"
    BY <1>2, NewUserSound DEF SSOUser, Roles, Methods
  <2> HIDE DEF u
  <2>2. Written(u)
    BY <2>1 DEF Written, Truthful
  <2>3. Fits(u)
    BY <1>1, <1>2, <2>1 DEF Fits, YesNo
  <2>4. Wrote(u)
    BY <1>1, <1>2
  <2>5. Writes(r, u)
    BY <1>1, <2>3, <2>4 DEF Writes, Ends
  <2>6. QED
    BY <2>2, <2>5, WriteKeeps
<1>3. CASE c.status # "absent"
  <2>1. u = c
    BY <1>3 DEF SSOUser
  <2>2. /\ c \in User /\ Whole(c) /\ Backed(c) /\ Exists
        /\ Truthful(c)
    BY <1>1, <1>3, CopySound DEF Holds
  <2> HIDE DEF u
  <2>3. Written(u)
    BY <1>3, <2>1, <2>2 DEF Written
  <2>4. Fits(u)
    BY <1>1, <1>3, <2>1, <2>2 DEF Fits
  <2>5. Wrote(u)
    BY <1>1, <1>3
  <2>6. Writes(r, u)
    BY <1>1, <2>4, <2>5 DEF Writes, Ends
  <2>7. QED
    BY <2>3, <2>6, WriteKeeps
<1>4. QED
  BY <1>2, <1>3

-----------------------------------------------------------------------------
(* The check and the clock.                                                 *)

Entries == [stage : {"idle", "warn", "mark", "list", "due"}, now : 0 .. MaxTime,
            expires : 0 .. MaxTime, auto : YesNo]

\* What every step of a check has in common: it changes its own entry, and of the
\* row the status or the mark; dates told about stay so, and those crossed.
CheckStep(k) ==
  /\ sweep'[k] \in Entries /\ sweep' = [sweep EXCEPT ![k] = sweep'[k]]
  /\ \/ row' = row
     \/ row' = [row EXCEPT !.warned = "yes"]
     \/ row' = [row EXCEPT !.status = "inactive"] /\ Exists
  /\ told \subseteq told' /\ told' \subseteq 0 .. MaxTime
  /\ unmarked \subseteq unmarked' /\ unmarked' \subseteq 0 .. MaxTime
  /\ faults' \in 0 .. MaxFaults
  /\ sweep'[k].now <= clock
  /\ sweep'[k].stage = "due" => /\ Exists /\ sweep'[k].expires # 0
                                /\ sweep'[k].expires <= sweep'[k].now

\* Whichever step a check takes, or breaks off.
LEMMA CheckSteps ==
  ASSUME AccountInv, NEW k \in Checks, Sweep(k) \/ BreakOff(k)
  PROVE  CheckStep(k) /\ \E e : Goes(k, e)
<1>1. /\ sweep \in [Checks -> Entries] /\ sweep[k] \in Entries /\ clock \in 0 .. MaxTime
      /\ row \in User /\ row.expires \in 0 .. MaxTime /\ row.auto \in YesNo
      /\ told \subseteq 0 .. MaxTime /\ unmarked \subseteq 0 .. MaxTime
      /\ faults \in 0 .. MaxFaults /\ sweep[k].expires \in 0 .. MaxTime
      /\ sweep[k].now \in 0 .. MaxTime /\ sweep[k].now <= clock
  BY AccountAssumption DEF AccountInv, TypeOK, User, Days, Entries, SweepInv
<1>2. Waiting \in Entries /\ Waiting.now = 0 /\ Waiting.stage = "idle" /\ 0 <= clock
  BY <1>1, AccountAssumption DEF Waiting, YesNo, Entries
<1>3. ASSUME NEW e \in Entries, Goes(k, e)
      PROVE  sweep'[k] = e /\ sweep' = [sweep EXCEPT ![k] = sweep'[k]]
  BY <1>1, <1>3 DEF Goes
<1>4. CASE PerformCheck(k)
  <2>1. PICK e \in Entries : e.stage \in {"warn", "list"} /\ e.now = clock /\ Goes(k, e)
    <3> DEFINE a == [Waiting EXCEPT !.stage = "warn", !.now = clock, !.expires = row.expires]
               b == [Waiting EXCEPT !.stage = "list", !.now = clock]
    <3>1. /\ a \in Entries /\ a.stage = "warn" /\ a.now = clock
          /\ b \in Entries /\ b.stage = "list" /\ b.now = clock
      BY <1>1, <1>2 DEF Entries
    <3>2. Goes(k, a) \/ Goes(k, b)
      BY <1>4 DEF PerformCheck
    <3> HIDE DEF a, b
    <3>3. QED
      BY <3>1, <3>2
  <2>2. QED
    BY <1>1, <1>3, <1>4, <2>1 DEF PerformCheck, CheckStep
<1>5. CASE Warn(k)
  <2> DEFINE e == [sweep[k] EXCEPT !.stage = "mark"]
  <2>1. e \in Entries /\ e.stage = "mark" /\ e.now = sweep[k].now /\ Goes(k, e)
    BY <1>1, <1>5 DEF Warn, Entries
  <2> HIDE DEF e
  <2>2. QED
    BY <1>1, <1>3, <1>5, <2>1 DEF Warn, CheckStep
<1>6. CASE Mark(k)
  <2> DEFINE e == [sweep[k] EXCEPT !.stage = "list", !.expires = 0]
  <2>1. e \in Entries /\ e.stage = "list" /\ e.now = sweep[k].now /\ Goes(k, e)
    <3>1. 0 \in 0 .. MaxTime
      BY AccountAssumption
    <3>2. QED
      BY <1>1, <1>6, <3>1 DEF Mark, Entries
  <2> HIDE DEF e
  <2>2. QED
    BY <1>1, <1>3, <1>6, <2>1, AccountAssumption DEF Mark, CheckStep
<1>7. CASE ListExpired(k)
  <2> DEFINE e == [sweep[k] EXCEPT !.stage = "due", !.expires = row.expires, !.auto = row.auto]
  <2>1. /\ e \in Entries /\ e.stage = "due" /\ e.now = sweep[k].now
        /\ e.expires = row.expires
    BY <1>1 DEF Entries
  <2>2. CASE Due(row, sweep[k].now) /\ Goes(k, e)
    <3>1. Exists /\ row.expires # 0 /\ row.expires <= sweep[k].now
      BY <2>2 DEF Due, Exists
    <3> HIDE DEF e
    <3>2. QED
      BY <1>1, <1>3, <1>7, <2>1, <2>2, <3>1 DEF ListExpired, CheckStep
  <2>3. CASE Goes(k, Waiting)
    BY <1>1, <1>2, <1>3, <1>7, <2>3 DEF ListExpired, CheckStep
  <2>4. QED
    BY <1>7, <2>2, <2>3 DEF ListExpired
<1>8. CASE Disable(k)
  <2>1. Exists
    BY <1>8 DEF Disable, AccountInv, SweepInv
  <2>2. QED
    BY <1>1, <1>2, <1>3, <1>8, <2>1, AccountAssumption DEF Disable, CheckStep
<1>9. CASE NotifyOnly(k)
  BY <1>1, <1>2, <1>3, <1>9 DEF NotifyOnly, CheckStep
<1>10. CASE BreakOff(k)
  BY <1>1, <1>2, <1>3, <1>10, AccountAssumption DEF BreakOff, CheckStep
<1>11. QED
  BY <1>4, <1>5, <1>6, <1>7, <1>8, <1>9, <1>10 DEF Sweep

\* The check lists, warns, marks, lists again and disables, or breaks off.
LEMMA SweepKeeps ==
  ASSUME AccountInv, NEW k \in Checks, Sweep(k) \/ BreakOff(k)
  PROVE  AccountInv'
<1>1. CheckStep(k) /\ \E e : Goes(k, e)
  BY CheckSteps
<1>2. /\ clock' = clock /\ policy' = policy /\ tokens' = tokens /\ req' = req
      /\ count' = count /\ created' = created /\ keyless' = keyless
      /\ lastAdmin' = lastAdmin /\ crossed' = crossed
  BY <1>1 DEF Goes
<1>3. /\ row' \in User /\ (row'.status = "absent" <=> row.status = "absent")
      /\ \A c \in {"role", "method", "key", "expires", "enabled", "secret", "backup"} :
           row'[c] = row[c]
      /\ row'.expires = row.expires /\ row'.warned \in {row.warned, "yes"}
  BY <1>1 DEF CheckStep, AccountInv, TypeOK, User, YesNo, Exists
<1>4. CopiesInv' /\ AdminInv'
  BY <1>2, <1>3 DEF AccountInv, CopiesInv, AdminInv, AdminLag, Whole, Backed, Exists
<1>5. sweep \in [Checks -> Entries] /\ sweep' \in [Checks -> Entries]
      /\ \A x \in Checks : x # k => sweep'[x] = sweep[x]
  BY <1>1 DEF CheckStep, AccountInv, TypeOK, Entries
<1>6. TypeOK'
  BY <1>1, <1>2, <1>3, <1>5 DEF AccountInv, TypeOK, CheckStep, Entries
<1>7. SweepInv'
  <2>1. ASSUME NEW x \in Checks
        PROVE  /\ sweep'[x].now <= clock
               /\ sweep'[x].stage = "due" => /\ Exists /\ sweep'[x].expires # 0
                                             /\ sweep'[x].expires <= sweep'[x].now
    BY <1>1, <1>5 DEF CheckStep, AccountInv, SweepInv
  <2>2. Exists' <=> Exists
    BY <1>3 DEF Exists
  <2>3. QED
    BY <1>2, <2>1, <2>2 DEF SweepInv
<1>8. WarnInv'
  <2>1. told \subseteq told' /\ unmarked \subseteq unmarked'
    BY <1>1 DEF CheckStep
  <2>2. \A r \in Requests : Truthful(req[r].user)'
    BY <1>2, <2>1 DEF AccountInv, WarnInv, Truthful
  \* What the check itself does between its list and the mark.
  <2>3. /\ Warns(k)' => sweep'[k].expires = row.expires \/ row.expires \in crossed
        /\ sweep'[k].stage = "mark" => sweep'[k].expires \in told'
    <3>1. CASE Warn(k)
      BY <1>5, <3>1 DEF Warn, Goes, Warns, Entries, AccountInv, WarnInv
    <3>2. CASE PerformCheck(k)
      <4>1. CASE ToWarn(row, clock)
        BY <1>5, <3>2, <4>1 DEF PerformCheck, Goes, Warns, Waiting, Entries
      <4>2. CASE ~ToWarn(row, clock)
        BY <1>5, <3>2, <4>2 DEF PerformCheck, Goes, Warns, Waiting, Entries
      <4>3. QED
        BY <4>1, <4>2
    <3>3. CASE Mark(k)
      BY <1>5, <3>3 DEF Mark, Goes, Warns, Entries
    <3>4. CASE ListExpired(k)
      BY <1>5, <3>4 DEF ListExpired, Goes, Warns, Waiting, Entries
    <3>5. CASE Disable(k) \/ NotifyOnly(k) \/ BreakOff(k)
      BY <1>5, <3>5 DEF Disable, NotifyOnly, BreakOff, Goes, Warns, Waiting
    <3>6. QED
      BY <3>1, <3>2, <3>3, <3>4, <3>5 DEF Sweep
  <2>4. ASSUME NEW x \in Checks
        PROVE  /\ Warns(x)' => sweep'[x].expires = row'.expires \/ row'.expires \in crossed'
               /\ sweep'[x].stage = "mark" => sweep'[x].expires \in told'
    BY <1>2, <1>3, <1>5, <2>1, <2>3 DEF AccountInv, WarnInv, Warns
  \* Only Mark marks, and then the date is the one told about, or crossed.
  <2>5. Truthful(row)'
    <3>1. CASE row'.warned = row.warned
      BY <1>2, <1>3, <2>1, <3>1 DEF AccountInv, WarnInv, Truthful
    <3>2. CASE row'.warned # row.warned
      <4>1. Mark(k)
        BY <3>2 DEF Sweep, BreakOff, PerformCheck, Warn, ListExpired, Disable, NotifyOnly,
                    AccountInv, TypeOK, User
      <4>2. Warns(k) /\ sweep[k].stage = "mark"
        BY <4>1 DEF Mark, Warns
      <4>3. QED
        BY <1>2, <1>3, <2>1, <4>2 DEF AccountInv, WarnInv, Truthful
    <3>3. QED
      BY <3>1, <3>2
  <2>6. ASSUME row'.warned = "no", row'.expires \in told', row'.expires \notin unmarked'
        PROVE  \E x \in Checks : sweep'[x].stage = "mark" /\ sweep'[x].expires = row'.expires
    <3>1. row.warned = "no" /\ row.expires = row'.expires /\ row.expires \notin unmarked
      BY <1>3, <2>1, <2>6
    <3>2. CASE row.expires \in told
      <4>1. PICK x \in Checks : sweep[x].stage = "mark" /\ sweep[x].expires = row.expires
        BY <3>1, <3>2 DEF AccountInv, WarnInv, WarningsMatchDate
      <4>2. CASE x # k
        BY <1>5, <3>1, <4>1, <4>2
      <4>3. CASE x = k
        <5>1. Mark(k) \/ BreakOff(k)
          BY <4>1, <4>3 DEF Sweep, PerformCheck, Warn, ListExpired, Disable, NotifyOnly
        <5>2. row.expires \in unmarked' \/ row'.warned = "yes"
          BY <4>1, <4>3, <5>1 DEF Mark, BreakOff, AccountInv, TypeOK, User
        <5>3. QED
          BY <2>6, <3>1, <5>2
      <4>4. QED
        BY <4>2, <4>3
    <3>3. CASE row.expires \notin told
      <4>1. Warn(k) /\ sweep[k].expires = row.expires
        BY <2>6, <3>1, <3>3 DEF Sweep, BreakOff, PerformCheck, Warn, Mark, ListExpired, Disable,
                                NotifyOnly
      <4>2. sweep'[k].stage = "mark" /\ sweep'[k].expires = row.expires
        BY <1>5, <4>1 DEF Warn, Goes, Entries
      <4>3. QED
        BY <3>1, <4>2
    <3>4. QED
      BY <3>2, <3>3
  <2>7. WarningsMatchDate'
    BY <2>5, <2>6 DEF WarningsMatchDate, Truthful
  <2>8. QED
    BY <2>2, <2>4, <2>5, <2>7 DEF WarnInv
<1>9. QED
  BY <1>4, <1>6, <1>7, <1>8 DEF AccountInv

\* A day passes only while no request is in flight.
LEMMA TickKeeps ==
  ASSUME AccountInv, Tick
  PROVE  AccountInv'
<1>1. /\ clock \in Nat /\ clock' = clock + 1 /\ clock' \in 0 .. MaxTime
      /\ lastAdmin \in 0 .. MaxTime
      /\ lastAdmin' = IF Exists /\ row.role = "admin" THEN clock' ELSE lastAdmin
  BY AccountAssumption DEF Tick, AccountInv, TypeOK
<1>2. \A r \in Requests : req[r].stage = "idle"
  BY DEF Tick
<1>3. UNCHANGED <<row, policy, tokens, req, sweep, count, faults, created, keyless,
                  told, crossed, unmarked>>
  BY DEF Tick
<1>4. TypeOK'
  BY <1>1, <1>3 DEF AccountInv, TypeOK
<1>5. CopiesInv'
  BY <1>3 DEF AccountInv, CopiesInv, Backed, Exists
<1>6. AdminInv'
  <2>1. lastAdmin <= lastAdmin' /\ lastAdmin' <= clock' /\ lastAdmin' \in Nat
    BY <1>1 DEF AccountInv, AdminInv
  <2>2. Exists' /\ row'.role = "admin" => lastAdmin' = clock'
    BY <1>1, <1>3 DEF Exists
  <2>3. \A t \in tokens' : t.role = "admin" => t.at <= lastAdmin'
    <3>1. ASSUME NEW t \in tokens, t.role = "admin"
          PROVE  t.at <= lastAdmin /\ t.at \in Nat
      BY <3>1 DEF AccountInv, AdminInv, TypeOK, Token
    <3>2. QED
      BY <1>1, <1>3, <2>1, <3>1
  <2>4. QED
    BY <1>2, <1>3, <2>1, <2>2, <2>3 DEF AdminInv, AdminLag
<1>7. WarnInv'
  BY <1>3 DEF AccountInv, WarnInv, Truthful, Warns, WarningsMatchDate
<1>8. SweepInv'
  <2>1. \A k \in Checks : sweep[k].now \in Nat
    BY DEF AccountInv, TypeOK
  <2>2. QED
    BY <1>1, <1>3, <2>1 DEF AccountInv, SweepInv, Exists
<1>9. QED
  BY <1>4, <1>5, <1>6, <1>7, <1>8 DEF AccountInv

-----------------------------------------------------------------------------
(* The theorems.                                                            *)

\* The account starts sound: nobody, an administrator or a user with a date.
LEMMA InitSound == Init => AccountInv
<1> SUFFICES ASSUME Init PROVE AccountInv
  OBVIOUS
<1>1. /\ NewUser("admin", "password") \in User /\ Whole(NewUser("admin", "password"))
      /\ NewUser("user", "password") \in User /\ Whole(NewUser("user", "password"))
  BY NewUserSound DEF Roles, Methods
<1>2. MaxTime - 1 \in Days \cup {0}
  BY AccountAssumption DEF Days
<1>3. /\ row \in User /\ Whole(row) /\ row.method = "password" /\ row.warned = "no"
  BY <1>1, <1>2, NobodySound DEF Init, NewUser, User, Whole
<1>4. /\ \A r \in Requests : req[r] = Idle
      /\ req \in [Requests -> [stage : {"idle", "read", "info", "date"},
                               by : Rights, user : User]]
  BY IdleSound DEF Init
<1>5. TypeOK
  BY <1>3, <1>4, AccountAssumption DEF Init, TypeOK, Waiting, YesNo
<1>6. CopiesInv
  BY <1>3, <1>4, IdleSound, NobodySound DEF Init, CopiesInv, Backed, Exists
<1>7. AdminInv
  BY <1>4, IdleSound DEF Init, AdminInv, AdminLag
<1>8. WarnInv /\ SweepInv
  BY <1>3, <1>4, IdleSound, NobodySound
     DEF Init, WarnInv, Truthful, Warns, WarningsMatchDate, SweepInv, Waiting
<1>9. QED
  BY <1>5, <1>6, <1>7, <1>8 DEF AccountInv

\* No step of the account breaks the invariant.
LEMMA NextKeeps == AccountInv /\ [Next]_vars => AccountInv'
<1> SUFFICES ASSUME AccountInv, [Next]_vars PROVE AccountInv'
  OBVIOUS
<1>1. CASE Tick
  BY <1>1, TickKeeps
<1>2. ASSUME NEW k \in Checks, Sweep(k) \/ BreakOff(k)
      PROVE  AccountInv'
  BY <1>2, SweepKeeps
<1>3. ASSUME NEW r \in Requests, SSOCallback(r) \/ \E by \in Rights : Receive(r, by)
      PROVE  AccountInv'
  BY <1>3, SSOCallbackKeeps, ReceiveKeeps
<1>4. ASSUME NEW r \in Requests, Answer(r) PROVE AccountInv'
  BY <1>4, RefuseKeeps DEF Answer
<1>5. ASSUME NEW r \in Requests, Manage(r) \/ Login(r) \/ LoginWithSSO(r)
      PROVE  AccountInv'
  BY <1>5, ManageKeeps, LoginKeeps, LoginWithSSOKeeps
<1>6. CASE UNCHANGED vars
  <2>1. /\ clock' = clock /\ row' = row /\ policy' = policy /\ tokens' = tokens
        /\ req' = req /\ sweep' = sweep /\ count' = count /\ created' = created
        /\ keyless' = keyless /\ lastAdmin' = lastAdmin /\ told' = told /\ crossed' = crossed
        /\ unmarked' = unmarked /\ faults' = faults
    BY <1>6 DEF vars, history
  <2>2. QED
    BY <2>1 DEF AccountInv, TypeOK, CopiesInv, Backed, Exists, AdminInv, AdminLag,
                WarnInv, Truthful, Warns, WarningsMatchDate, SweepInv
<1>7. QED
  BY <1>1, <1>2, <1>3, <1>4, <1>5, <1>6 DEF Next

\* The invariant holds of every reachable state.
THEOREM AccountInvHolds == Spec => []AccountInv
BY InitSound, NextKeeps, PTL DEF Spec

\* UsersSound, for any number of requests: although requests save whole copies
\* over each other (user_repository.go), the columns of the second factor and of
\* the key fit together, a name is inserted once, and a role that was taken
\* away works on for TokenLife days at most (middleware/auth.go).
THEOREM UsersSoundHolds == Spec => []UsersSound
<1>1. AccountInv => UsersSound
  <2> SUFFICES ASSUME AccountInv PROVE UsersSound
    OBVIOUS
  <2>1. TwoFactorWhole /\ KeyBacksMethod /\ OneRow
    BY DEF AccountInv, CopiesInv, Whole, Backed, TwoFactorWhole, KeyBacksMethod, OneRow
  <2>2. QED
    BY <2>1 DEF AccountInv, AdminInv, UsersSound
<1>2. QED
  BY <1>1, AccountInvHolds, PTL

\* WarningsMatchDate, for any number of checks, requests and failures: a marked
\* date was told about, or was written while a check stood between its list and
\* its mark, and a date told about is marked or about to be, unless the mark was
\* lost or written over (expiration_service.go and the handlers' saves).
THEOREM WarningsMatchDateHolds == Spec => []WarningsMatchDate
<1>1. AccountInv => WarningsMatchDate
  BY DEF AccountInv, WarnInv
<1>2. QED
  BY <1>1, AccountInvHolds, PTL

\* DisabledWhenDue: a check disables without another look at the row
\* (expiration_service.go), and yet only accounts that have expired, unless the
\* date was changed after they were listed.
THEOREM DisabledWhenDueHolds == Spec => DisabledWhenDue
<1>1. AccountInv /\ [Next]_vars =>
        [\A k \in Checks :
           sweep[k].stage # "idle" /\ sweep'[k].stage = "idle" /\ row'.status # row.status
             => (row.expires # 0 /\ row.expires <= clock) \/ row.expires # sweep[k].expires]_vars
  <2> SUFFICES ASSUME AccountInv, Next, NEW k \in Checks,
                      sweep[k].stage # "idle", sweep'[k].stage = "idle",
                      row'.status # row.status, row.expires = sweep[k].expires
               PROVE  row.expires # 0 /\ row.expires <= clock
    BY DEF vars
  <2>1. Disable(k)
    <3>1. sweep' # sweep /\ row' # row /\ sweep'[k] # sweep[k]
      OBVIOUS
    <3>2. ~Tick
      BY <3>1 DEF Tick
    <3>3. ASSUME NEW r \in Requests PROVE ~SSOCallback(r) /\ \A by \in Rights : ~Receive(r, by)
      BY <3>1 DEF SSOCallback, Receive
    <3>4. ASSUME NEW r \in Requests PROVE ~Answer(r) /\ ~Login(r) /\ ~LoginWithSSO(r)
      BY <3>1 DEF Answer, Refuse, Login, LoginWithSSO
    <3>5. ASSUME NEW r \in Requests PROVE ~Manage(r)
      BY <3>1 DEF Manage, Register, CreateUserByAdmin, Insert, CreateUser, UpdateUserInfo,
           UpdateUserByAdmin, UpdateUserExpiration, ChangeRole, ChangeStatus, DeleteUser,
           ResetUserPassword, RenewUserExpiration, GenerateSSHKey, DeleteSSHKey,
           UpdateUserAuthMethod, SetupTwoFactor, VerifyTwoFactor, DisableTwoFactor,
           ResetUserTwoFactor, RegenerateBackupCodes, UpdateUser, UpdateUserRole,
           UpdateUserStatus
    <3>6. PICK x \in Checks : Sweep(x) \/ BreakOff(x)
      BY <3>2, <3>3, <3>4, <3>5 DEF Next
    <3>7. x = k
      BY <3>1, <3>6, CheckSteps DEF CheckStep, AccountInv, TypeOK
    <3>8. ~Mark(k)
      BY DEF Mark, AccountInv, TypeOK, User
    <3>9. QED
      BY <3>1, <3>6, <3>7, <3>8
         DEF Sweep, PerformCheck, Warn, ListExpired, NotifyOnly, BreakOff
  <2>2. sweep[k].expires # 0 /\ sweep[k].expires <= sweep[k].now /\ sweep[k].now <= clock
    BY <2>1 DEF Disable, AccountInv, SweepInv
  <2>3. sweep[k].expires \in Nat /\ sweep[k].now \in Nat /\ clock \in Nat
    BY DEF AccountInv, TypeOK
  <2>4. QED
    BY <2>2, <2>3
<1>2. QED
  BY <1>1, AccountInvHolds, PTL DEF Spec, DisabledWhenDue

=============================================================================
