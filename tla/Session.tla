------------------------------ MODULE Session -------------------------------
(***************************************************************************)
(* Login by a code (UserService.go), the token it returns and the          *)
(* middleware that checks and refreshes it (jwt.go), and the handlers that *)
(* sign a user in for the day.  A client is a device, which keeps one      *)
(* token and has one request under way.                                    *)
(***************************************************************************)
EXTENDS Clock, Sequences

CONSTANTS
  Phones,
  Lifetime,      \* of a token: 7 days
  RefreshBuffer, \* TokenRefreshBuffer: 30 minutes
  DayLength,     \* ticks
  MonthLength    \* days

ASSUME PhonesAssumption == "none" \notin Phones
ASSUME LifetimeAssumption == Lifetime \in Nat /\ RefreshBuffer \in 0..Lifetime
ASSUME CalendarAssumption == DayLength \in Nat \ {0} /\ MonthLength \in Nat \ {0}

VARIABLES
  codes,     \* phones whose login:code: key is there
  accounts,  \* rows of tb_user, by id: their phones
  device,    \* per client: its request's next call, kind, phone; when it was
             \* made and the expiry of the token it leaves the device with
  token,     \* per client: the account its token names (0: none), its expiry
  seen,      \* per client: when it made the last request it had an answer to
  twins,     \* phones whose SELECT failed or raced another login's INSERT
  signs      \* bits of sign:<id>:<month>: <<id, day>>, days counted on

sessionVars == <<codes, accounts, device, token, seen, twins, signs>>

Idle == [at |-> "idle", kind |-> "none", phone |-> "none", made |-> 0, exp |-> 0]

\* Some codes have just been sent.
SessionInit ==
  /\ codes    \in SUBSET Phones
  /\ accounts = <<>>
  /\ device   = [c \in Clients |-> Idle]
  /\ token    = [c \in Clients |-> [id |-> 0, exp |-> 0]]
  /\ seen     = [c \in Clients |-> 0]
  /\ twins    = {}
  /\ signs    = {}

Continue(c, at) == device' = [device EXCEPT ![c].at = at]

Ends(c) == device' = [device EXCEPT ![c] = Idle]

-----------------------------------------------------------------------------
(***************************************************************************)
(* Codes and login.                                                        *)
(***************************************************************************)
OnlyLogin == UNCHANGED <<codes, signs, now>>
KeepsToken == UNCHANGED <<token, seen>>

SendCode(p) ==
  /\ Arrive
  /\ codes' = codes \cup {p}
  /\ UNCHANGED <<accounts, device, token, seen, twins, signs, now>>

\* LOGIN_VERIFY_CODE_TTL
ExpireCode(p) ==
  /\ p \in codes
  /\ codes' = codes \ {p}
  /\ NoFault /\ UNCHANGED <<accounts, device, token, seen, twins, signs, now>>

Login(c, p) ==
  /\ Arrive
  /\ device[c] = Idle
  /\ device' = [device EXCEPT ![c] = [Idle EXCEPT !.at = "code", !.kind = "login", !.phone = p]]
  /\ OnlyLogin /\ KeepsToken /\ UNCHANGED <<accounts, twins>>

\* The right code; a wrong one ends the request like one that is gone.
GetCode(c) ==
  /\ device[c].at = "code"
  /\ IF device[c].phone \in codes THEN Continue(c, "select") ELSE Ends(c)
  /\ OnlyLogin /\ KeepsToken /\ NoFault /\ UNCHANGED <<accounts, twins>>

\* CreateClaims, CreateToken; the answer reaches the device.
Issue(c, id) ==
  /\ token' = [token EXCEPT ![c] = [id |-> id, exp |-> now + Lifetime]]
  /\ seen'  = [seen EXCEPT ![c] = now]
  /\ Ends(c)

Rows(p) == {i \in DOMAIN accounts : accounts[i] = p}

\* First: of the rows, the one with the smallest id.
FirstRow(p) == {i \in Rows(p) : \A j \in Rows(p) : i <= j}

Inserting(p) == \E d \in Clients : device[d].at = "insert" /\ device[d].phone = p

\* Mutant: whether there is a row is not looked at.
SelectUserAlwaysNew(c) ==
  /\ device[c].at = "select"
  /\ Continue(c, "insert")
  /\ twins' = IF Inserting(device[c].phone) THEN twins \cup {device[c].phone} ELSE twins
  /\ OnlyLogin /\ KeepsToken /\ NoFault /\ UNCHANGED accounts

SelectUser(c) ==
  LET p == device[c].phone IN
  /\ device[c].at = "select"
  /\ \/ \E id \in FirstRow(p) : Issue(c, id) /\ UNCHANGED twins
     \/ /\ Rows(p) = {}
        /\ Continue(c, "insert") /\ KeepsToken
        /\ twins' = IF Inserting(p) THEN twins \cup {p} ELSE twins
  /\ OnlyLogin /\ NoFault /\ UNCHANGED accounts

\* Any error is taken for a phone without an account.
SelectUserError(c) ==
  /\ device[c].at = "select"
  /\ Continue(c, "insert")
  /\ twins' = twins \cup {device[c].phone}
  /\ OnlyLogin /\ KeepsToken /\ Fault /\ UNCHANGED accounts

InsertUser(c) ==
  /\ device[c].at = "insert"
  /\ accounts' = Append(accounts, device[c].phone)
  /\ Issue(c, Len(accounts) + 1)
  /\ OnlyLogin /\ NoFault /\ UNCHANGED twins

LoginError(c) ==
  /\ device[c].at \in {"code", "insert"}
  /\ accounts' \in {accounts, IF device[c].at = "insert" THEN Append(accounts, device[c].phone)
                                                         ELSE accounts}
  /\ Ends(c)
  /\ OnlyLogin /\ KeepsToken /\ Fault /\ UNCHANGED twins

-----------------------------------------------------------------------------
(***************************************************************************)
(* Requests with a token: GlobalTokenMiddleware, AuthRequired, a handler.  *)
(***************************************************************************)
OnlyToken == UNCHANGED <<codes, accounts, twins, now>>

Expired(c) == now >= token[c].exp

\* ParseToken.  An expired token has no claims: it is not refreshed, whatever
\* its BufferTime, and AuthRequired refuses the request.
Request(c, kind) ==
  /\ Arrive
  /\ device[c] = Idle /\ token[c].id # 0
  /\ device' = [device EXCEPT ![c] =
       IF Expired(c) THEN Idle
                     ELSE [@ EXCEPT !.at = "claims", !.kind = kind, !.made = now]]
  /\ OnlyToken /\ KeepsToken /\ UNCHANGED signs

\* Mutant: the old expiry is prolonged.
ExpiryProlonged(exp) == IF exp - now < RefreshBuffer THEN exp + Lifetime ELSE exp

\* Mutant: only a token in its last tick is refreshed.
ExpiryUnlessLast(exp) == IF exp - now < 1 THEN now + Lifetime ELSE exp

ExpiryAfter(exp) == IF exp - now < RefreshBuffer THEN now + Lifetime ELSE exp

\* A token that expires within the buffer, or just did, is replaced by the
\* one in X-New-Token.
Refresh(c) ==
  /\ device[c].at = "claims"
  /\ device' = [device EXCEPT ![c].at = "handler", ![c].exp = ExpiryAfter(token[c].exp)]
  /\ OnlyToken /\ KeepsToken /\ NoFault /\ UNCHANGED signs

Today == now \div DayLength

\* sign sets today's bit; me, sign/count and the other handlers only read.
SignsAfter(c) ==
  IF device[c].kind = "sign" THEN signs \cup {<<token[c].id, Today>>} ELSE signs

Arrives(c) ==
  /\ token' = [token EXCEPT ![c].exp = device[c].exp]
  /\ seen'  = [seen EXCEPT ![c] = device[c].made]

Answer(c) ==
  /\ device[c].at = "handler"
  /\ signs' = SignsAfter(c)
  /\ Arrives(c) /\ Ends(c)
  /\ OnlyToken /\ NoFault

\* The handler's call fails, executed or not, or the answer is lost.
AnswerError(c) ==
  /\ device[c].at = "handler"
  /\ signs' \in {signs, SignsAfter(c)}
  /\ Arrives(c) \/ KeepsToken
  /\ Ends(c)
  /\ OnlyToken /\ Fault

SessionCrash ==
  device' = [c \in Clients |-> Idle] /\ UNCHANGED <<codes, accounts, token, seen, twins, signs, now>>

SessionNext ==
  \/ \E p \in Phones : SendCode(p) \/ ExpireCode(p) \/ \E c \in Clients : Login(c, p)
  \/ \E c \in Clients, kind \in {"me", "sign"} : Request(c, kind)
  \/ \E c \in Clients :
       \/ GetCode(c) \/ SelectUser(c) \/ SelectUserError(c) \/ InsertUser(c) \/ LoginError(c)
       \/ Refresh(c) \/ Answer(c) \/ AnswerError(c)

-----------------------------------------------------------------------------
(***************************************************************************)
(* GetSignCount: BITFIELD GET u<day> 0 reads the month's first bits as a   *)
(* number, the first day highest, whose low bits are then counted.         *)
(***************************************************************************)
DayOfMonth == (Today % MonthLength) + 1

MonthStart == Today - (DayOfMonth - 1)

Signed(id, day) == <<id, MonthStart + day - 1>> \in signs

\* Mutant: one bit less is read.
BitFieldShort(id) ==
  LET upTo[day \in 0..MonthLength] ==
        IF day = 0 THEN 0 ELSE 2 * upTo[day - 1] + (IF Signed(id, day) THEN 1 ELSE 0)
  IN upTo[DayOfMonth - 1]

BitField(id) ==
  LET upTo[day \in 0..MonthLength] ==
        IF day = 0 THEN 0 ELSE 2 * upTo[day - 1] + (IF Signed(id, day) THEN 1 ELSE 0)
  IN upTo[DayOfMonth]

GetSignCount(id) ==
  LET ones[num \in Nat] == IF num % 2 = 0 THEN 0 ELSE 1 + ones[num \div 2] IN ones[BitField(id)]

-----------------------------------------------------------------------------
SessionTypeOK ==
  /\ codes \subseteq Phones
  /\ accounts \in Seq(Phones)
  /\ device \in [Clients -> [at: {"idle", "code", "select", "insert", "claims", "handler"},
                             kind: {"none", "login", "me", "sign"}, phone: Phones \cup {"none"},
                             made: 0..MaxTime, exp: 0..MaxTime + Lifetime]]
  /\ token \in [Clients -> [id: 0..Len(accounts), exp: 0..MaxTime + Lifetime]]
  /\ seen \in [Clients -> 0..MaxTime]
  /\ twins \subseteq Phones
  /\ signs \subseteq (1..Len(accounts)) \X (0..MaxTime)

(***************************************************************************)
(* A phone has one account, although logins of one phone overlap and       *)
(* INSERTs fail with or without effect, unless a SELECT failed or two      *)
(* first logins passed it together (UserService.go:63-74; the table's      *)
(* schema is not in the repository, the code relies on no unique index).   *)
(***************************************************************************)
OneAccount == \A i, j \in DOMAIN accounts : accounts[i] = accounts[j] => i = j \/ accounts[i] \in twins

(***************************************************************************)
(* A device whose last answered request is less than TokenRefreshBuffer    *)
(* old is never refused, however long it goes on, however slow the handler *)
(* and whichever answers were lost: the refresh before expiry is enough by *)
(* itself (jwt.go:136-156).                                                *)
(***************************************************************************)
ActiveStaysLoggedIn ==
  \A c \in Clients : token[c].id # 0 /\ now - seen[c] < RefreshBuffer => ~Expired(c)

(***************************************************************************)
(* The count is the length of the run of signed days that ends today and   *)
(* does not reach over the month's first day (UserService.go:113-147).     *)
(***************************************************************************)
RunOf(id, n) == \A day \in DayOfMonth - n + 1 .. DayOfMonth : Signed(id, day)

SignCountIsRun ==
  \A id \in DOMAIN accounts :
    LET n == GetSignCount(id) IN
      /\ n \in 0..DayOfMonth /\ RunOf(id, n)
      /\ n < DayOfMonth => ~RunOf(id, n + 1)

=============================================================================
