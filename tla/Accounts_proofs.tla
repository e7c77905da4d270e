-------------------------- MODULE Accounts_proofs ---------------------------
(***************************************************************************)
(* Theorems about Accounts, for any devices, phones, lifetimes, calendars, *)
(* bits of a count and bounds.                                             *)
(***************************************************************************)
EXTENDS Accounts, Counting, SequenceTheorems

USE CallsAssumption, ClockAssumption, PhonesAssumption, LifetimeAssumption,
    CalendarAssumption, CountAssumption

-----------------------------------------------------------------------------
(***************************************************************************)
(* Arithmetic.                                                             *)
(***************************************************************************)
\* An instant's day is not after it.
LEMMA DayBound ==
  ASSUME NEW t \in Nat, NEW d \in Nat \ {0}
  PROVE  t \div d \in 0..t
<1>1. t \div d \in Int /\ t = d * (t \div d) + (t % d) /\ t % d \in 0..(d - 1)
  OBVIOUS
<1>2. t \div d >= 0
  BY <1>1
<1>3. d * (t \div d) >= t \div d
  BY <1>1, <1>2
<1> QED BY <1>1, <1>2, <1>3

\* Second and count can be told from an id.
LEMMA IdsDiffer ==
  ASSUME NEW s \in Nat, NEW t \in Nat, NEW m \in 0..(CountLimit - 1), NEW n \in 0..(CountLimit - 1),
         Id(s, m) = Id(t, n)
  PROVE  s = t /\ m = n
<1>1. s * CountLimit + m = t * CountLimit + n
  BY DEF Id
<1>2. ~(s < t)
  <2> SUFFICES ASSUME s + 1 <= t PROVE FALSE
    OBVIOUS
  <2>1. (s + 1) * CountLimit <= t * CountLimit
    OBVIOUS
  <2>2. (s + 1) * CountLimit = s * CountLimit + CountLimit
    OBVIOUS
  <2> QED BY <1>1, <2>1, <2>2
<1>3. ~(t < s)
  <2> SUFFICES ASSUME t + 1 <= s PROVE FALSE
    OBVIOUS
  <2>1. (t + 1) * CountLimit <= s * CountLimit
    OBVIOUS
  <2>2. (t + 1) * CountLimit = t * CountLimit + CountLimit
    OBVIOUS
  <2> QED BY <1>1, <2>1, <2>2
<1>4. s = t
  BY <1>2, <1>3
<1> QED BY <1>1, <1>4

-----------------------------------------------------------------------------
(***************************************************************************)
(* Types.                                                                  *)
(***************************************************************************)
LEMMA InitType == Init => TypeOK
<1> SUFFICES ASSUME Init PROVE TypeOK
  OBVIOUS
<1>1. SessionTypeOK
  BY DEF Init, SessionInit, SessionTypeOK, Idle
<1>2. IdTypeOK
  BY FS_EmptySet DEF Init, IdInit, IdTypeOK, NoId
<1>3. ClockTypeOK /\ CallsTypeOK
  BY DEF Init, ClockInit, CallsInit, ClockTypeOK, CallsTypeOK
<1> QED BY <1>1, <1>2, <1>3 DEF TypeOK

LEMMA CallsType ==
  ASSUME CallsTypeOK, Arrive \/ NoFault \/ Fault \/ Restart
  PROVE  CallsTypeOK'
BY DEF CallsTypeOK, Arrive, NoFault, Fault, Restart, callVars

LEMMA NextCalls == TypeOK /\ [Next]_accountsVars => CallsTypeOK' /\ ClockTypeOK'
<1> SUFFICES ASSUME TypeOK, [Next]_accountsVars PROVE CallsTypeOK' /\ ClockTypeOK'
  OBVIOUS
<1>1. now' = now \/ (now' = now + 1 /\ now < MaxTime)
  <2>1. SessionNext => now' = now
    BY Zenon DEF SessionNext, SendCode, ExpireCode, Login, Request, GetCode, SelectUser, SelectUserError,
           InsertUser, LoginError, Refresh, Answer, AnswerError, OnlyLogin, OnlyToken
  <2>2. IdNext => now' = now
    BY DEF IdNext, NextId, Incr, IncrResent, IncrError
  <2> QED BY <2>1, <2>2, SMTT(30) DEF Next, Tick, Crash, SessionCrash, accountsVars
<1>2. UNCHANGED callVars => CallsTypeOK'
  BY DEF TypeOK, CallsTypeOK, callVars
<1>3. Arrive \/ NoFault \/ Fault \/ Restart => CallsTypeOK'
  BY CallsType, Zenon DEF TypeOK
<1>4. Arrive \/ NoFault \/ Fault \/ Restart \/ UNCHANGED callVars
  BY Zenon DEF Next, SessionNext, IdNext, Tick, Crash, accountsVars,
         SendCode, ExpireCode, Login, Request, GetCode, SelectUser, SelectUserError, InsertUser,
         LoginError, Refresh, Answer, AnswerError, NextId, Incr, IncrResent, IncrError
<1>5. ClockTypeOK'
  BY <1>1 DEF TypeOK, ClockTypeOK
<1> QED BY <1>2, <1>3, <1>4, <1>5

LEMMA NextIdType == TypeOK /\ [Next]_accountsVars => IdTypeOK'
<1> SUFFICES ASSUME TypeOK, [Next]_accountsVars PROVE IdTypeOK'
  OBVIOUS
<1> USE DEF TypeOK, IdTypeOK, NoId, EndId
<1>1. CASE UNCHANGED idVars
  BY <1>1 DEF idVars
<1>2. CASE IdCrash
  BY <1>2 DEF IdCrash
<1>3. ASSUME NEW c \in Clients, NextId(c) PROVE IdTypeOK'
  BY <1>3 DEF NextId, ClockTypeOK
<1>4. ASSUME NEW c \in Clients, Incr(c) PROVE IdTypeOK'
  <2>1. /\ idReq[c].stamp \in 0..MaxTime
        /\ IdDay(idReq[c].stamp) \in IdDays
    BY DEF IdDays
  <2> DEFINE new == Id(idReq[c].stamp, counters[IdDay(idReq[c].stamp)] + 1)
  <2>2. new \in Nat
    BY <2>1 DEF Id
  <2>3. ids' = ids \cup {new}
    BY <1>4 DEF Incr
  <2> HIDE DEF new
  <2>4. ids' \subseteq Nat /\ IsFiniteSet(ids')
    BY <2>2, <2>3, FS_AddElement
  <2>5. counters' \in [IdDays -> Nat] /\ issued' \in Nat
    BY <1>4, <2>1 DEF Incr
  <2>6. idReq' \in [Clients -> [at: {"idle", "incr"}, stamp: 0..MaxTime]]
    BY <1>4 DEF Incr
  <2> QED BY <2>4, <2>5, <2>6
<1>5. ASSUME NEW c \in Clients, IncrError(c) \/ IncrResent(c) PROVE IdTypeOK'
  <2>1. /\ idReq[c].stamp \in 0..MaxTime
        /\ IdDay(idReq[c].stamp) \in IdDays
    BY DEF IdDays
  <2>2. [counters EXCEPT ![IdDay(idReq[c].stamp)] = @ + 1] \in [IdDays -> Nat]
    BY <2>1
  <2>3. CASE IncrError(c)
    BY <2>2, <2>3 DEF IncrError
  <2>4. CASE IncrResent(c)
    BY <2>2, <2>4 DEF IncrResent
  <2> QED BY <1>5, <2>3, <2>4
<1> QED BY <1>1, <1>2, <1>3, <1>4, <1>5 DEF Next, IdNext, Crash, accountsVars


Device == [at: {"idle", "code", "select", "insert", "claims", "handler"},
           kind: {"none", "login", "me", "sign"}, phone: Phones \cup {"none"},
           made: 0..MaxTime, exp: 0..MaxTime + Lifetime]

Token(n) == [id: 0..n, exp: 0..MaxTime + Lifetime]

\* What a request may do to its device keeps the device's type.
LEMMA DeviceType ==
  ASSUME NEW c \in Clients, device \in [Clients -> Device]
  PROVE  /\ device[c] \in Device /\ Idle \in Device
         /\ Ends(c) => device' \in [Clients -> Device]
         /\ \A at \in {"code", "select", "insert", "claims", "handler"} :
              Continue(c, at) => device' \in [Clients -> Device]
<1>1. Idle \in Device
  BY DEF Idle, Device
<1>2. Ends(c) => device' \in [Clients -> Device]
  BY <1>1 DEF Ends
<1>3. ASSUME NEW at \in {"code", "select", "insert", "claims", "handler"}, Continue(c, at)
      PROVE  device' \in [Clients -> Device]
  <2>1. [device[c] EXCEPT !.at = at] \in Device
    BY DEF Device
  <2> QED BY <1>3, <2>1 DEF Continue
<1> QED BY <1>1, <1>2, <1>3

\* So does the token it is answered with.
LEMMA IssueType ==
  ASSUME NEW c \in Clients, NEW n \in Nat, NEW id \in 0..n, now \in 0..MaxTime,
         device \in [Clients -> Device], token \in [Clients -> Token(n)],
         seen \in [Clients -> 0..MaxTime], Issue(c, id)
  PROVE  /\ device' \in [Clients -> Device]
         /\ token' \in [Clients -> Token(n)]
         /\ seen' \in [Clients -> 0..MaxTime]
<1>1. now + Lifetime \in 0..MaxTime + Lifetime
  OBVIOUS
<1>2. [id |-> id, exp |-> now + Lifetime] \in Token(n)
  BY <1>1 DEF Token
<1> QED BY <1>2, DeviceType DEF Issue

LEMMA MoreAccounts ==
  ASSUME accounts \in Seq(Phones), NEW p \in Phones, accounts' = Append(accounts, p)
  PROVE  /\ accounts' \in Seq(Phones)
         /\ Len(accounts') = Len(accounts) + 1
         /\ \A i \in 1..Len(accounts) : accounts'[i] = accounts[i]
         /\ accounts'[Len(accounts')] = p
BY AppendProperties

-----------------------------------------------------------------------------
\* A request that logs in names a phone; one that carries a token has one.
Asking ==
  \A c \in Clients :
    /\ device[c].at \in {"code", "select", "insert"} => device[c].phone \in Phones
    /\ device[c].at \in {"claims", "handler"} => token[c].id # 0

LEMMA NextSessionType ==
  TypeOK /\ Asking /\ [Next]_accountsVars => SessionTypeOK' /\ Asking'
<1> SUFFICES ASSUME TypeOK, Asking, [Next]_accountsVars PROVE SessionTypeOK' /\ Asking'
  OBVIOUS
<1> DEFINE N == Len(accounts)
<1>0. /\ now \in 0..MaxTime /\ Today \in 0..MaxTime
      /\ N \in Nat
      /\ accounts \in Seq(Phones)
      /\ device \in [Clients -> Device]
      /\ token \in [Clients -> Token(N)]
      /\ seen \in [Clients -> 0..MaxTime]
      /\ codes \subseteq Phones /\ twins \subseteq Phones
      /\ signs \subseteq (1..N) \X (0..MaxTime)
  <2>1. now \in Nat /\ now <= MaxTime
    BY DEF TypeOK, ClockTypeOK
  <2>2. Today \in 0..now
    BY <2>1, DayBound DEF Today
  <2> QED BY <2>1, <2>2 DEF TypeOK, SessionTypeOK, Device, Token
\* What has to be shown of a step that leaves the accounts alone.
<1>a. ASSUME accounts' = accounts, device' \in [Clients -> Device], token' \in [Clients -> Token(N)],
             seen' \in [Clients -> 0..MaxTime], codes' \subseteq Phones, twins' \subseteq Phones,
             signs' \subseteq (1..N) \X (0..MaxTime)
      PROVE  SessionTypeOK'
  BY <1>0, <1>a DEF SessionTypeOK, Device, Token
\* And of one that adds an account.
<1>b. ASSUME NEW p \in Phones, accounts' = Append(accounts, p), device' \in [Clients -> Device],
             token' \in [Clients -> Token(N + 1)], UNCHANGED <<codes, twins, signs>>,
             seen' \in [Clients -> 0..MaxTime]
      PROVE  SessionTypeOK'
  <2>1. accounts' \in Seq(Phones) /\ Len(accounts') = N + 1
    BY <1>0, <1>b, MoreAccounts
  <2>2. signs' \subseteq (1..N + 1) \X (0..MaxTime)
    BY <1>0, <1>b
  <2> QED BY <1>0, <1>b, <2>1, <2>2 DEF SessionTypeOK, Device, Token
<1>c. \A n \in Nat : token \in [Clients -> Token(n)] => token \in [Clients -> Token(n + 1)]
  BY DEF Token
<1> HIDE DEF N
<1>1. CASE UNCHANGED sessionVars
  BY <1>0, <1>1, <1>a DEF sessionVars, Asking
<1>2. CASE SessionCrash
  <2>1. Idle \in Device /\ Idle.at = "idle"
    BY DEF Idle, Device
  <2> QED BY <1>0, <1>2, <1>a, <2>1 DEF SessionCrash, Asking
<1>3. ASSUME NEW p \in Phones, SendCode(p) \/ ExpireCode(p) PROVE SessionTypeOK' /\ Asking'
  BY <1>0, <1>3, <1>a DEF SendCode, ExpireCode, Asking
<1>4. ASSUME NEW c \in Clients, NEW p \in Phones, Login(c, p) PROVE SessionTypeOK' /\ Asking'
  <2> DEFINE d == [Idle EXCEPT !.at = "code", !.kind = "login", !.phone = p]
  <2>0. Idle \in Device
    BY <1>0, DeviceType
  <2>1. d \in Device /\ d.at = "code" /\ d.phone = p
    BY <2>0 DEF Device
  <2>2. device' = [device EXCEPT ![c] = d]
    BY <1>4 DEF Login
  <2> HIDE DEF d
  <2>3. device' \in [Clients -> Device]
    BY <1>0, <2>1, <2>2
  <2>4. SessionTypeOK'
    BY <1>0, <1>4, <1>a, <2>3 DEF Login, OnlyLogin, KeepsToken
  <2> QED BY <1>0, <1>4, <2>1, <2>2, <2>4 DEF Login, KeepsToken, Asking
<1>5. ASSUME NEW c \in Clients, NEW kind \in {"me", "sign"}, Request(c, kind)
      PROVE  SessionTypeOK' /\ Asking'
  <2> DEFINE d == [device[c] EXCEPT !.at = "claims", !.kind = kind, !.made = now]
  <2>0. device[c] \in Device /\ Idle \in Device /\ Idle.at = "idle"
    BY <1>0, DeviceType DEF Idle
  <2>1. d \in Device /\ d.at = "claims"
    BY <1>0, <2>0 DEF Device
  <2>2. device' = [device EXCEPT ![c] = IF Expired(c) THEN Idle ELSE d]
    BY <1>5 DEF Request
  <2> HIDE DEF d
  <2>3. device' \in [Clients -> Device]
    BY <1>0, <2>0, <2>1, <2>2
  <2>4. SessionTypeOK'
    BY <1>0, <1>5, <1>a, <2>3 DEF Request, OnlyToken, KeepsToken
  <2> QED BY <1>0, <1>5, <2>0, <2>1, <2>2, <2>4 DEF Request, KeepsToken, Asking
<1>6. ASSUME NEW c \in Clients, GetCode(c) PROVE SessionTypeOK' /\ Asking'
  <2>1. device' \in [Clients -> Device]
    BY <1>0, <1>6, DeviceType DEF GetCode
  <2>2. SessionTypeOK'
    BY <1>0, <1>6, <1>a, <2>1 DEF GetCode, OnlyLogin, KeepsToken
  <2>3. device[c].phone \in Phones /\ Idle.at = "idle" /\ token' = token
    BY <1>6 DEF GetCode, KeepsToken, Asking, Idle
  <2>4. CASE Continue(c, "select")
    BY <1>0, <2>2, <2>3, <2>4, ZenonT(40) DEF Asking, Continue, Device
  <2>5. CASE Ends(c)
    BY <1>0, <2>2, <2>3, <2>5 DEF Asking, Ends
  <2> QED BY <1>6, <2>4, <2>5 DEF GetCode
<1>7. ASSUME NEW c \in Clients, SelectUser(c) PROVE SessionTypeOK' /\ Asking'
  <2> DEFINE p == device[c].phone
  <2>0. p \in Phones /\ device[c].at = "select"
    BY <1>7 DEF SelectUser, Asking
  <2>1. ASSUME NEW id \in FirstRow(p), Issue(c, id), twins' = twins
        PROVE  SessionTypeOK' /\ Asking'
    <3>1. id \in 1..N
      BY <1>0, <2>1 DEF FirstRow, Rows, N
    <3>2. /\ device' \in [Clients -> Device]
          /\ token' \in [Clients -> Token(N)]
          /\ seen' \in [Clients -> 0..MaxTime]
      BY <1>0, <2>1, <3>1, IssueType, SMTT(30)
    <3>3. SessionTypeOK'
      BY <1>0, <1>7, <1>a, <2>1, <3>2 DEF SelectUser, OnlyLogin
    <3> QED BY <1>0, <2>1, <3>3 DEF Issue, Ends, Asking, Idle
  <2>2. ASSUME Continue(c, "insert"), KeepsToken, twins' \subseteq Phones
        PROVE  SessionTypeOK' /\ Asking'
    <3>1. device' \in [Clients -> Device]
      BY <1>0, <2>2, DeviceType
    <3>2. SessionTypeOK'
      BY <1>0, <1>7, <1>a, <2>2, <3>1 DEF SelectUser, OnlyLogin, KeepsToken
    <3> QED BY <1>0, <2>0, <2>2, <3>2, ZenonT(30) DEF KeepsToken, Asking, Continue, Device
  <2>3. twins \cup {p} \subseteq Phones
    BY <1>0, <2>0
  <2> QED BY <1>0, <1>7, <2>1, <2>2, <2>3 DEF SelectUser
<1>8. ASSUME NEW c \in Clients, SelectUserError(c) PROVE SessionTypeOK' /\ Asking'
  <2>1. device' \in [Clients -> Device] /\ twins' \subseteq Phones
    BY <1>0, <1>8, DeviceType DEF SelectUserError, Asking
  <2>2. SessionTypeOK'
    BY <1>0, <1>8, <1>a, <2>1 DEF SelectUserError, OnlyLogin, KeepsToken
  <2> QED BY <1>0, <1>8, <2>2, ZenonT(30) DEF SelectUserError, KeepsToken, Asking, Continue, Device
<1>9. ASSUME NEW c \in Clients, InsertUser(c) PROVE SessionTypeOK' /\ Asking'
  <2>1. device[c].phone \in Phones /\ N + 1 \in Nat /\ Issue(c, N + 1)
    BY <1>0, <1>9 DEF InsertUser, Asking, N
  <2>2. /\ device' \in [Clients -> Device]
        /\ token' \in [Clients -> Token(N + 1)]
        /\ seen' \in [Clients -> 0..MaxTime]
    <3>1. token \in [Clients -> Token(N + 1)]
      BY <1>0, <1>c, Zenon
    <3>2. N + 1 \in 0..(N + 1)
      BY <1>0
    <3> QED BY <1>0, <2>1, <3>1, <3>2, IssueType, Zenon
  <2>3. SessionTypeOK'
    BY <1>0, <1>9, <1>b, <2>1, <2>2, SMTT(30) DEF InsertUser, OnlyLogin
  <2> QED BY <1>0, <2>1, <2>3 DEF Issue, Ends, Asking, Idle
<1>10. ASSUME NEW c \in Clients, LoginError(c) PROVE SessionTypeOK' /\ Asking'
  <2>1. device' \in [Clients -> Device]
    BY <1>0, <1>10, DeviceType DEF LoginError
  <2>2. \/ accounts' = accounts
        \/ device[c].phone \in Phones /\ accounts' = Append(accounts, device[c].phone)
    BY <1>10 DEF LoginError, Asking
  <2>3. SessionTypeOK'
    BY <1>0, <1>10, <1>a, <1>b, <1>c, <2>1, <2>2 DEF LoginError, OnlyLogin, KeepsToken
  <2> QED BY <1>0, <1>10, <2>3 DEF LoginError, KeepsToken, Asking, Ends, Idle
<1>11. ASSUME NEW c \in Clients, Refresh(c) PROVE SessionTypeOK' /\ Asking'
  <2>1. token[c].exp \in 0..MaxTime + Lifetime
    BY <1>0 DEF Token
  <2>2. ExpiryAfter(token[c].exp) \in 0..MaxTime + Lifetime
    BY <1>0, <2>1 DEF ExpiryAfter
  <2> DEFINE d == [device[c] EXCEPT !.at = "handler", !.exp = ExpiryAfter(token[c].exp)]
  <2>3. d \in Device /\ d.at = "handler"
    BY <1>0, <2>2 DEF Device
  <2>4. device' = [device EXCEPT ![c] = d]
    BY <1>0, <1>11 DEF Refresh, Device
  <2> HIDE DEF d
  <2>5. device' \in [Clients -> Device]
    BY <1>0, <2>3, <2>4
  <2>6. SessionTypeOK'
    BY <1>0, <1>11, <1>a, <2>5 DEF Refresh, OnlyToken, KeepsToken
  <2>7. device[c].at = "claims"
    BY <1>11 DEF Refresh
  <2> QED BY <1>0, <1>11, <2>3, <2>4, <2>6, <2>7 DEF Refresh, KeepsToken, Asking
<1>12. ASSUME NEW c \in Clients, Answer(c) \/ AnswerError(c) PROVE SessionTypeOK' /\ Asking'
  <2>0. token[c].id \in 1..N /\ device[c] \in Device /\ token[c] \in Token(N)
    BY <1>0, <1>12 DEF Answer, AnswerError, Asking, Token
  <2>1. device' \in [Clients -> Device]
    BY <1>0, <1>12, DeviceType DEF Answer, AnswerError
  <2>2. signs' \subseteq (1..N) \X (0..MaxTime)
    BY <1>0, <1>12, <2>0 DEF Answer, AnswerError, SignsAfter
  <2>3. [token[c] EXCEPT !.exp = device[c].exp] \in Token(N)
    BY <2>0 DEF Token, Device
  <2>4. /\ token' \in [Clients -> Token(N)]
        /\ seen' \in [Clients -> 0..MaxTime]
        /\ \A d \in Clients : token'[d].id = token[d].id
    <3>1. CASE KeepsToken
      BY <1>0, <3>1 DEF KeepsToken
    <3>2. CASE Arrives(c)
      BY <1>0, <2>0, <2>3, <3>2 DEF Arrives, Device, Token
    <3> QED BY <1>12, <3>1, <3>2 DEF Answer, AnswerError
  <2>5. SessionTypeOK'
    BY <1>0, <1>12, <1>a, <2>1, <2>2, <2>4 DEF Answer, AnswerError, OnlyToken
  <2>6. device' = [device EXCEPT ![c] = Idle]
    BY <1>12 DEF Answer, AnswerError, Ends
  <2>7. Idle.at = "idle"
    BY DEF Idle
  <2> QED BY <1>0, <2>4, <2>5, <2>6, <2>7 DEF Asking
<1>13. CASE UNCHANGED sessionVars \/ SessionNext \/ SessionCrash
  BY <1>1, <1>2, <1>3, <1>4, <1>5, <1>6, <1>7, <1>8, <1>9, <1>10, <1>11, <1>12, <1>13
  DEF SessionNext
<1> QED BY <1>13 DEF Next, Crash, accountsVars

-----------------------------------------------------------------------------
TypeInv == TypeOK /\ Asking

LEMMA InitTypeInv == Init => TypeInv
BY InitType DEF TypeInv, Asking, Init, SessionInit, Idle

LEMMA NextTypeInv == TypeInv /\ [Next]_accountsVars => TypeInv'
BY NextCalls, NextIdType, NextSessionType DEF TypeInv, TypeOK

(***************************************************************************)
(* Type correctness: rows, tokens, bits and ids are what they should be,   *)
(* and a token names an account that is there.                             *)
(***************************************************************************)
THEOREM TypeCorrect == Spec => []TypeOK
<1>1. TypeInv => TypeOK
  BY DEF TypeInv
<1> QED BY <1>1, InitTypeInv, NextTypeInv, PTL DEF Spec

LEMMA TypeInvariant == Spec => []TypeInv
BY InitTypeInv, NextTypeInv, PTL DEF Spec

-----------------------------------------------------------------------------
(***************************************************************************)
(* Sessions: a token outlasts the last answered request by the refresh     *)
(* buffer, and so does the one a request is about to bring.                *)
(***************************************************************************)
TokenLasts(c) ==
  /\ token[c].id # 0 => token[c].exp - seen[c] >= RefreshBuffer
  /\ device[c].at \in {"claims", "handler"} => device[c].made <= now
  /\ device[c].at = "handler" => device[c].exp - device[c].made >= RefreshBuffer

TokensLast == \A c \in Clients : TokenLasts(c)

LEMMA InitTokensLast == Init => TokensLast
<1> SUFFICES ASSUME Init, NEW c \in Clients PROVE TokenLasts(c)
  BY DEF TokensLast
<1>1. device = [d \in Clients |-> Idle] /\ token = [d \in Clients |-> [id |-> 0, exp |-> 0]]
  BY DEF Init, SessionInit
<1>2. Idle.at = "idle"
  BY DEF Idle
<1> QED BY <1>1, <1>2 DEF TokenLasts

LEMMA NextTokensLast == TypeInv /\ TokensLast /\ [Next]_accountsVars => TokensLast'
<1> SUFFICES ASSUME TypeInv, TokensLast, [Next]_accountsVars PROVE TokensLast'
  OBVIOUS
<1>0. /\ now \in Nat /\ device \in [Clients -> Device] /\ seen \in [Clients -> Nat]
      /\ token \in [Clients -> [id: Nat, exp: Nat]]
      /\ \A c \in Clients : device[c].made \in Nat /\ device[c].exp \in Nat
  BY DEF TypeInv, TypeOK, SessionTypeOK, ClockTypeOK, Device
<1>1. CASE UNCHANGED <<token, seen, device>> /\ now' \in {now, now + 1}
  BY <1>0, <1>1 DEF TokensLast, TokenLasts
<1>2. CASE UNCHANGED <<token, seen, now>> /\ device' = [c \in Clients |-> Idle]
  BY <1>0, <1>2 DEF TokensLast, TokenLasts, Idle
\* Another client's part is left alone.
<1>3. ASSUME NEW c \in Clients, now' = now, TokenLasts(c)',
             \A d \in Clients \ {c} : device'[d] = device[d] /\ token'[d] = token[d] /\ seen'[d] = seen[d]
      PROVE  TokensLast'
  BY <1>3 DEF TokensLast, TokenLasts
<1>4. ASSUME NEW c \in Clients, KeepsToken, now' = now, NEW d, device' = [device EXCEPT ![c] = d],
             d.at \notin {"claims", "handler"}
      PROVE  TokensLast'
  BY <1>0, <1>3, <1>4 DEF TokensLast, TokenLasts, KeepsToken
<1>5. ASSUME NEW c \in Clients, NEW id, Issue(c, id), now' = now PROVE TokensLast'
  <2>1. /\ token'[c] = [id |-> id, exp |-> now + Lifetime] /\ seen'[c] = now /\ device'[c] = Idle
        /\ \A d \in Clients \ {c} : device'[d] = device[d] /\ token'[d] = token[d] /\ seen'[d] = seen[d]
    BY <1>0, <1>5 DEF Issue, Ends
  <2>2. (now + Lifetime) - now >= RefreshBuffer
    BY <1>0
  <2> QED BY <1>3, <1>5, <2>1, <2>2 DEF TokenLasts, Idle
<1>6. ASSUME NEW c \in Clients, NEW p \in Phones, Login(c, p) PROVE TokensLast'
  BY <1>4, <1>6 DEF Login, OnlyLogin, Idle
<1>7. ASSUME NEW c \in Clients, NEW kind \in {"me", "sign"}, Request(c, kind) PROVE TokensLast'
  <2>1. CASE Expired(c)
    BY <1>4, <1>7, <2>1 DEF Request, OnlyToken, Idle
  <2>2. CASE ~Expired(c)
    <3>1. /\ device'[c] = [device[c] EXCEPT !.at = "claims", !.kind = kind, !.made = now]
          /\ KeepsToken /\ now' = now
          /\ \A d \in Clients \ {c} : device'[d] = device[d]
      BY <1>0, <1>7, <2>2 DEF Request, OnlyToken
    <3>2. device'[c].at = "claims" /\ device'[c].made = now
      BY <1>0, <3>1 DEF Device
    <3>3. token[c].id # 0 => token[c].exp - seen[c] >= RefreshBuffer
      BY DEF TokensLast, TokenLasts
    <3>4. TokenLasts(c)'
      BY <1>0, <3>1, <3>2, <3>3 DEF TokenLasts, KeepsToken
    <3> QED BY <1>3, <3>1, <3>4 DEF KeepsToken
  <2> QED BY <2>1, <2>2
<1>8. ASSUME NEW c \in Clients, GetCode(c) PROVE TokensLast'
  <2>1. CASE Continue(c, "select")
    <3> DEFINE d == [device[c] EXCEPT !.at = "select"]
    <3>1. device' = [device EXCEPT ![c] = d] /\ d.at = "select"
      BY <1>0, <2>1 DEF Continue, Device
    <3> HIDE DEF d
    <3> QED BY <1>4, <1>8, <3>1 DEF GetCode, OnlyLogin
  <2>2. CASE Ends(c)
    BY <1>4, <1>8, <2>2 DEF GetCode, OnlyLogin, Ends, Idle
  <2> QED BY <1>8, <2>1, <2>2 DEF GetCode
<1>9. ASSUME NEW c \in Clients, SelectUser(c) \/ SelectUserError(c) PROVE TokensLast'
  <2>0. now' = now
    BY <1>9 DEF SelectUser, SelectUserError, OnlyLogin
  <2>1. CASE Continue(c, "insert") /\ KeepsToken
    <3> DEFINE d == [device[c] EXCEPT !.at = "insert"]
    <3>1. device' = [device EXCEPT ![c] = d] /\ d.at = "insert"
      BY <1>0, <2>1 DEF Continue, Device
    <3> HIDE DEF d
    <3> QED BY <1>4, <2>0, <2>1, <3>1
  <2> QED BY <1>5, <1>9, <2>0, <2>1 DEF SelectUser, SelectUserError
<1>10. ASSUME NEW c \in Clients, InsertUser(c) PROVE TokensLast'
  BY <1>5, <1>10 DEF InsertUser, OnlyLogin
<1>11. ASSUME NEW c \in Clients, LoginError(c) PROVE TokensLast'
  BY <1>4, <1>11 DEF LoginError, OnlyLogin, Ends, Idle
<1>12. ASSUME NEW c \in Clients, Refresh(c) PROVE TokensLast'
  <2> DEFINE e == ExpiryAfter(token[c].exp)
  <2>1. e - now >= RefreshBuffer /\ e \in Nat
    BY <1>0 DEF ExpiryAfter
  <2>2. /\ KeepsToken /\ now' = now /\ device[c].at = "claims"
        /\ \A d \in Clients \ {c} : device'[d] = device[d]
    BY <1>0, <1>12 DEF Refresh, OnlyToken
  <2>3. device'[c].at = "handler" /\ device'[c].exp = e /\ device'[c].made = device[c].made
    BY <1>0, <1>12 DEF Refresh, Device
  <2> HIDE DEF e
  <2>4. device[c].made <= now
    BY <2>2 DEF TokensLast, TokenLasts
  <2> QED BY <1>0, <1>3, <2>1, <2>2, <2>3, <2>4 DEF TokensLast, TokenLasts, KeepsToken
<1>13. ASSUME NEW c \in Clients, Answer(c) \/ AnswerError(c) PROVE TokensLast'
  <2>1. now' = now /\ device' = [device EXCEPT ![c] = Idle] /\ Idle.at = "idle" /\ device[c].at = "handler"
    BY <1>13 DEF Answer, AnswerError, OnlyToken, Ends, Idle
  <2>2. CASE KeepsToken
    BY <1>4, <2>1, <2>2
  <2>3. CASE Arrives(c)
    <3>1. /\ token'[c].exp = device[c].exp /\ seen'[c] = device[c].made
          /\ \A d \in Clients \ {c} : token'[d] = token[d] /\ seen'[d] = seen[d]
      BY <1>0, <2>3 DEF Arrives
    <3> QED BY <1>0, <1>3, <2>1, <3>1 DEF TokensLast, TokenLasts
  <2> QED BY <1>13, <2>2, <2>3 DEF Answer, AnswerError
<1>14. CASE SessionNext
  <2>1. ASSUME NEW p \in Phones, SendCode(p) \/ ExpireCode(p) PROVE TokensLast'
    BY <1>1, <2>1 DEF SendCode, ExpireCode
  <2> QED BY <1>6, <1>7, <1>8, <1>9, <1>10, <1>11, <1>12, <1>13, <1>14, <2>1 DEF SessionNext
<1>15. CASE IdNext /\ UNCHANGED sessionVars
  BY <1>1, <1>15 DEF IdNext, NextId, Incr, IncrResent, IncrError, sessionVars
<1>16. CASE Tick /\ UNCHANGED sessionVars
  BY <1>1, <1>16 DEF Tick, sessionVars
<1>17. CASE Crash
  BY <1>2, <1>17 DEF Crash, SessionCrash
<1>18. CASE UNCHANGED accountsVars
  BY <1>1, <1>18 DEF accountsVars, sessionVars
<1> QED BY <1>14, <1>15, <1>16, <1>17, <1>18 DEF Next

(***************************************************************************)
(* A device whose last answered request is less than the buffer old is not *)
(* refused: the token it got with that answer, refreshed or not, was good  *)
(* for the buffer from the moment the request was made.                    *)
(***************************************************************************)
THEOREM ActiveSessions == Spec => []ActiveStaysLoggedIn
<1>1. ASSUME TypeInv, TokensLast PROVE ActiveStaysLoggedIn
  <2>1. SUFFICES ASSUME NEW c \in Clients, token[c].id # 0, now - seen[c] < RefreshBuffer
                 PROVE  ~Expired(c)
    BY DEF ActiveStaysLoggedIn
  <2>2. now \in Nat /\ seen[c] \in Nat /\ token[c].exp \in Nat
    BY <1>1 DEF TypeInv, TypeOK, SessionTypeOK, ClockTypeOK
  <2>3. token[c].exp - seen[c] >= RefreshBuffer
    BY <1>1, <2>1 DEF TokensLast, TokenLasts
  <2> QED BY <2>1, <2>2, <2>3 DEF Expired
<1>2. Spec => []TokensLast
  BY TypeInvariant, InitTokensLast, NextTokensLast, PTL DEF Spec
<1> QED BY <1>1, <1>2, TypeInvariant, PTL

-----------------------------------------------------------------------------
(***************************************************************************)
(* Ids: a count never reaches the bits of the second, as an INCR is a      *)
(* request's only one or the repetition of one that failed, and every id   *)
(* returned holds a count that its day's counter has passed.               *)
(***************************************************************************)
Incrementing == {c \in Clients : idReq[c].at = "incr"}

CountsLeft ==
  /\ IsFiniteSet(Incrementing)
  /\ \A d \in IdDays : counters[d] + Cardinality(Incrementing) <= requests + faults

IdsUsed ==
  \A x \in ids : \E t \in 0..MaxTime : \E n \in 1..counters[IdDay(t)] : x = Id(t, n)

IdInv == CountsLeft /\ IdsUsed /\ IdsDistinct

LEMMA InitIdInv == Init => IdInv
<1> SUFFICES ASSUME Init PROVE IdInv
  OBVIOUS
<1>1. Incrementing = {} /\ ids = {} /\ issued = 0 /\ requests + faults = 0
  BY DEF Init, IdInit, CallsInit, NoId, Incrementing
<1>2. \A d \in IdDays : counters[d] = 0
  BY DEF Init, IdInit
<1> QED BY <1>1, <1>2, FS_EmptySet DEF IdInv, CountsLeft, IdsUsed, IdsDistinct

\* A step of the sessions takes no count.
LEMMA OtherIdInv ==
  ASSUME TypeInv, TypeInv', IdInv, UNCHANGED idVars, requests' >= requests, faults' >= faults
  PROVE  IdInv'
<1>1. Incrementing' = Incrementing
  BY DEF Incrementing, idVars
<1>2. /\ requests \in Nat /\ requests' \in Nat /\ faults \in Nat /\ faults' \in Nat
      /\ counters \in [IdDays -> Nat]
      /\ Cardinality(Incrementing) \in Nat
  BY FS_CardinalityType DEF TypeInv, TypeOK, IdTypeOK, CallsTypeOK, IdInv, CountsLeft
<1> QED BY <1>1, <1>2 DEF IdInv, CountsLeft, IdsUsed, IdsDistinct, idVars

\* A request that ends leaves one INCR less to come.
LEMMA LessToCome ==
  ASSUME NEW c \in Clients, TypeInv, IdInv, idReq[c].at = "incr", EndId(c)
  PROVE  /\ IsFiniteSet(Incrementing')
         /\ Cardinality(Incrementing') = Cardinality(Incrementing) - 1
         /\ Cardinality(Incrementing) \in Nat
<1>1. Incrementing' = Incrementing \ {c} /\ c \in Incrementing
  BY DEF TypeInv, TypeOK, IdTypeOK, EndId, NoId, Incrementing
<1> QED BY <1>1, FS_RemoveElement, FS_CardinalityType DEF IdInv, CountsLeft

LEMMA NextIdInv == TypeInv /\ TypeInv' /\ IdInv /\ [Next]_accountsVars => IdInv'
<1> SUFFICES ASSUME TypeInv, TypeInv', IdInv, [Next]_accountsVars PROVE IdInv'
  OBVIOUS
<1>0. /\ requests \in Nat /\ requests' \in Nat /\ requests <= MaxRequests
      /\ faults \in Nat /\ faults' \in Nat /\ faults <= MaxFaults /\ MaxFaults \in Nat
      /\ counters \in [IdDays -> Nat]
      /\ idReq \in [Clients -> [at: {"idle", "incr"}, stamp: 0..MaxTime]]
      /\ ids \subseteq Nat /\ IsFiniteSet(ids) /\ issued \in Nat /\ now \in 0..MaxTime
      /\ IsFiniteSet(Incrementing) /\ Cardinality(Incrementing) \in Nat
      /\ MaxRequests \in Nat
  BY FS_CardinalityType, SMTT(30)
  DEF TypeInv, TypeOK, IdTypeOK, CallsTypeOK, ClockTypeOK, IdInv, CountsLeft
<1>1. ASSUME NEW c \in Clients, NextId(c) PROVE IdInv'
  <2>1. Incrementing' = Incrementing \cup {c} /\ requests' = requests + 1 /\ faults' = faults /\ UNCHANGED <<counters, ids, issued>>
    BY <1>0, <1>1 DEF NextId, Arrive, Incrementing
  <2>2. /\ IsFiniteSet(Incrementing') /\ Cardinality(Incrementing') \in Nat
        /\ Cardinality(Incrementing') <= Cardinality(Incrementing) + 1
    <3> DEFINE I == Incrementing \cup {c}
    <3>1. IsFiniteSet(I) /\ Cardinality(I) \in {Cardinality(Incrementing), Cardinality(Incrementing) + 1}
      BY <1>0, FS_AddElement
    <3>2. Incrementing' = I
      BY <2>1
    <3> HIDE DEF I
    <3> QED BY <1>0, <3>1, <3>2
  <2>3. CountsLeft'
    <3>1. ASSUME NEW d \in IdDays PROVE counters'[d] + Cardinality(Incrementing') <= requests' + faults'
      <4>1. counters[d] \in Nat /\ counters[d] + Cardinality(Incrementing) <= requests + faults
        BY <1>0 DEF IdInv, CountsLeft
      <4>2. counters'[d] = counters[d]
        BY <2>1
      <4> QED BY <1>0, <2>1, <2>2, <4>1, <4>2
    <3> QED BY <2>2, <3>1 DEF CountsLeft
  <2> QED BY <2>1, <2>3 DEF IdInv, IdsUsed, IdsDistinct
<1>2. ASSUME NEW c \in Clients, Incr(c) PROVE IdInv'
  <2> DEFINE s == idReq[c].stamp
             day == IdDay(s)
             n == counters[day] + 1
  <2>1. s \in 0..MaxTime /\ day \in IdDays /\ n \in Nat /\ n >= 1
    BY <1>0 DEF IdDays
  <2>2. /\ counters' = [counters EXCEPT ![day] = n] /\ requests' = requests
        /\ ids' = ids \cup {Id(s, n)} /\ issued' = issued + 1 /\ faults' = faults
    BY <1>2 DEF Incr, NoFault, callVars
  <2>3. /\ IsFiniteSet(Incrementing')
        /\ Cardinality(Incrementing') = Cardinality(Incrementing) - 1
    BY <1>2, LessToCome DEF Incr
  <2>4. n <= requests + faults
    <3>1. Cardinality(Incrementing) >= 1
      <4>1. Cardinality(Incrementing') \in Nat
        BY <2>3, FS_CardinalityType
      <4> QED BY <1>0, <2>3, <4>1
    <3> QED BY <1>0, <2>1, <3>1 DEF IdInv, CountsLeft
  <2> HIDE DEF n
  <2>5. CountsLeft'
    <3>1. ASSUME NEW d \in IdDays PROVE counters'[d] + Cardinality(Incrementing') <= requests' + faults'
      <4>1. counters[d] + Cardinality(Incrementing) <= requests + faults /\ counters[d] \in Nat
        BY <1>0 DEF IdInv, CountsLeft
      <4>2. counters'[d] \in {counters[d], counters[d] + 1}
        BY <1>0, <2>1, <2>2 DEF n
      <4> QED BY <1>0, <2>2, <2>3, <4>1, <4>2
    <3> QED BY <2>3, <3>1 DEF CountsLeft
  <2>6. IdsUsed'
    <3> SUFFICES ASSUME NEW x \in ids' PROVE \E t \in 0..MaxTime : \E k \in 1..counters'[IdDay(t)] : x = Id(t, k)
      BY DEF IdsUsed
    <3>1. CASE x \in ids
      <4>1. PICK t \in 0..MaxTime : \E k \in 1..counters[IdDay(t)] : x = Id(t, k)
        BY <3>1 DEF IdInv, IdsUsed
      <4>2. PICK k \in 1..counters[IdDay(t)] : x = Id(t, k)
        BY <4>1
      <4>3. IdDay(t) \in IdDays
        BY DEF IdDays
      <4>4. counters'[IdDay(t)] \in {counters[IdDay(t)], counters[IdDay(t)] + 1} /\ counters[IdDay(t)] \in Nat
        BY <1>0, <2>1, <2>2, <4>3 DEF n
      <4>5. k \in 1..counters'[IdDay(t)]
        BY <4>4
      <4> QED BY <4>2, <4>5
    <3>2. CASE x = Id(s, n)
      <4>1. counters'[IdDay(s)] = n /\ n \in 1..n
        BY <1>0, <2>1, <2>2
      <4> QED BY <2>1, <3>2, <4>1
    <3> QED BY <2>2, <3>1, <3>2
  <2>7. Id(s, n) \notin ids
    <3> SUFFICES ASSUME Id(s, n) \in ids PROVE FALSE
      OBVIOUS
    <3>1. PICK t \in 0..MaxTime : \E k \in 1..counters[IdDay(t)] : Id(s, n) = Id(t, k)
      BY DEF IdInv, IdsUsed
    <3>2. PICK k \in 1..counters[IdDay(t)] : Id(s, n) = Id(t, k)
      BY <3>1
    <3>3. IdDay(t) \in IdDays
      BY DEF IdDays
    <3>4. counters[IdDay(t)] \in Nat /\ counters[IdDay(t)] <= requests + faults
      BY <1>0, <3>3 DEF IdInv, CountsLeft
    <3>5. k \in 0..(CountLimit - 1) /\ n \in 0..(CountLimit - 1) /\ s \in Nat /\ t \in Nat
      BY <1>0, <2>1, <2>4, <3>4
    <3>6. s = t /\ n = k
      BY <3>2, <3>5, IdsDiffer
    <3> QED BY <2>1, <3>4, <3>6 DEF n
  <2>8. Cardinality(ids') = issued'
    BY <1>0, <2>2, <2>7, FS_AddElement DEF IdInv, IdsDistinct
  <2> QED BY <2>5, <2>6, <2>8 DEF IdInv, IdsDistinct
<1>3. ASSUME NEW c \in Clients, IncrError(c) \/ IncrResent(c) PROVE IdInv'
  <2> DEFINE day == IdDay(idReq[c].stamp)
  <2>1. day \in IdDays
    BY <1>0 DEF IdDays
  <2>2. /\ counters' \in {counters, [counters EXCEPT ![day] = @ + 1]} /\ requests' = requests
        /\ faults' = faults + 1 /\ UNCHANGED <<ids, issued>>
    BY <1>3 DEF IncrError, IncrResent, Fault
  <2>3. /\ IsFiniteSet(Incrementing')
        /\ Cardinality(Incrementing') \in Nat /\ Cardinality(Incrementing') <= Cardinality(Incrementing)
    <3>1. CASE IncrError(c)
      BY <1>0, <3>1, LessToCome, FS_CardinalityType DEF IncrError
    <3>2. CASE IncrResent(c)
      <4>1. Incrementing' = Incrementing
        BY <3>2 DEF IncrResent, Incrementing
      <4> QED BY <1>0, <4>1
    <3> QED BY <1>3, <3>1, <3>2
  <2>4. \A d \in IdDays : counters[d] \in Nat /\ counters'[d] \in {counters[d], counters[d] + 1}
    BY <1>0, <2>1, <2>2
  <2> HIDE DEF day
  <2>5. CountsLeft'
    <3>1. ASSUME NEW d \in IdDays PROVE counters'[d] + Cardinality(Incrementing') <= requests' + faults'
      BY <1>0, <2>2, <2>3, <2>4 DEF IdInv, CountsLeft
    <3> QED BY <2>3, <3>1 DEF CountsLeft
  <2>6. IdsUsed'
    <3> SUFFICES ASSUME NEW x \in ids PROVE \E t \in 0..MaxTime : \E k \in 1..counters'[IdDay(t)] : x = Id(t, k)
      BY <2>2 DEF IdsUsed
    <3>1. PICK t \in 0..MaxTime : \E k \in 1..counters[IdDay(t)] : x = Id(t, k)
      BY DEF IdInv, IdsUsed
    <3>2. PICK k \in 1..counters[IdDay(t)] : x = Id(t, k)
      BY <3>1
    <3>3. IdDay(t) \in IdDays
      BY DEF IdDays
    <3>4. k \in 1..counters'[IdDay(t)]
      BY <2>4, <3>3
    <3> QED BY <3>2, <3>4
  <2> QED BY <2>2, <2>5, <2>6 DEF IdInv, IdsDistinct
<1>4. CASE Crash
  <2>1. Incrementing' = {} /\ requests' = requests /\ faults' = faults
        /\ UNCHANGED <<counters, ids, issued>>
    BY <1>4 DEF Crash, IdCrash, Restart, NoId, Incrementing
  <2>2. CountsLeft'
    BY <1>0, <2>1, FS_EmptySet DEF IdInv, CountsLeft
  <2> QED BY <2>1, <2>2 DEF IdInv, IdsUsed, IdsDistinct
<1>5. CASE UNCHANGED idVars
  <2>1. requests' = requests \/ requests' = requests + 1
    BY Zenon DEF Next, SessionNext, IdNext, Tick, Crash, accountsVars, callVars, Arrive, NoFault, Fault, Restart,
           SendCode, ExpireCode, Login, Request, GetCode, SelectUser, SelectUserError, InsertUser,
           LoginError, Refresh, Answer, AnswerError, NextId, Incr, IncrResent, IncrError
  <2>2. requests' >= requests
    BY <1>0, <2>1
  <2>3. faults' = faults \/ faults' = faults + 1
    BY Zenon DEF Next, SessionNext, IdNext, Tick, Crash, accountsVars, callVars, Arrive, NoFault, Fault, Restart,
           SendCode, ExpireCode, Login, Request, GetCode, SelectUser, SelectUserError, InsertUser,
           LoginError, Refresh, Answer, AnswerError, NextId, Incr, IncrResent, IncrError
  <2>4. faults' >= faults
    BY <1>0, <2>3
  <2> QED BY <1>5, <2>2, <2>4, OtherIdInv, Zenon
<1> QED BY <1>1, <1>2, <1>3, <1>4, <1>5 DEF Next, IdNext, accountsVars

(***************************************************************************)
(* No id is returned twice.                                                *)
(***************************************************************************)
THEOREM NoIdTwice == Spec => []IdsDistinct
<1>1. IdInv => IdsDistinct
  BY DEF IdInv
<1> QED BY <1>1, TypeInvariant, InitIdInv, NextIdInv, PTL DEF Spec

-----------------------------------------------------------------------------
(***************************************************************************)
(* Accounts: whoever is about to insert a row is alone with it, or its     *)
(* phone is among those the property excepts.                              *)
(***************************************************************************)
Inserts(c) == device[c].at = "insert"

Alone(c) ==
  \/ device[c].phone \in twins
  \/ /\ Rows(device[c].phone) = {}
     /\ \A d \in Clients : Inserts(d) /\ device[d].phone = device[c].phone => d = c

InsertsAlone == \A c \in Clients : Inserts(c) => Alone(c)

RowInv == InsertsAlone /\ OneAccount

LEMMA InitRowInv == Init => RowInv
<1> SUFFICES ASSUME Init PROVE RowInv
  OBVIOUS
<1>1. device = [d \in Clients |-> Idle] /\ Idle.at = "idle" /\ DOMAIN accounts = {}
  BY DEF Init, SessionInit, Idle
<1> QED BY <1>1 DEF RowInv, InsertsAlone, Inserts, OneAccount

\* A step that adds no row and lets nobody else go to insert one.
LEMMA NoRow ==
  ASSUME RowInv, accounts' = accounts, twins \subseteq twins',
         \A d \in Clients : Inserts(d)' => Inserts(d) /\ device'[d].phone = device[d].phone
  PROVE  RowInv'
BY DEF RowInv, InsertsAlone, Inserts, Alone, OneAccount, Rows

\* A step that inserts the row.
LEMMA NewRow ==
  ASSUME TypeInv, RowInv, NEW c \in Clients, Inserts(c), twins' = twins, Ends(c),
         accounts' = Append(accounts, device[c].phone)
  PROVE  RowInv'
<1> DEFINE p == device[c].phone
           N == Len(accounts)
<1>1. /\ accounts \in Seq(Phones) /\ p \in Phones
      /\ device \in [Clients -> Device]
  BY DEF TypeInv, Asking, TypeOK, SessionTypeOK, Inserts, Device
<1>2. /\ DOMAIN accounts = 1..N /\ DOMAIN accounts' = 1..(N + 1) /\ N \in Nat
      /\ accounts'[N + 1] = p /\ \A i \in 1..N : accounts'[i] = accounts[i]
  BY <1>1, MoreAccounts
<1>3. Alone(c)
  BY DEF RowInv, InsertsAlone
<1>4. OneAccount'
  <2> SUFFICES ASSUME NEW i \in 1..(N + 1), NEW j \in 1..(N + 1), accounts'[i] = accounts'[j], i # j
               PROVE  accounts'[i] \in twins
    BY <1>2 DEF OneAccount
  <2>1. CASE i \in 1..N /\ j \in 1..N
    BY <1>2, <2>1 DEF RowInv, OneAccount
  <2>2. CASE i = N + 1 \/ j = N + 1
    <3>1. accounts'[i] = p /\ \E k \in 1..N : accounts[k] = p
      BY <1>2, <2>2
    <3>2. Rows(p) # {}
      BY <1>2, <3>1 DEF Rows
    <3> QED BY <1>3, <3>1, <3>2 DEF Alone
  <2> QED BY <2>1, <2>2
<1>5. ASSUME NEW d \in Clients, Inserts(d)' PROVE Alone(d)'
  <2>1. d # c /\ Inserts(d) /\ device'[d] = device[d] /\ \A e \in Clients : Inserts(e)' => Inserts(e) /\ device'[e] = device[e]
    BY <1>1, <1>5 DEF Ends, Idle, Inserts
  <2>2. CASE device[d].phone = p
    BY <1>3, <2>1, <2>2 DEF Alone
  <2>3. CASE device[d].phone # p
    <3>1. Alone(d)
      BY <2>1 DEF RowInv, InsertsAlone
    <3>2. Rows(device[d].phone)' = Rows(device[d].phone)
      BY <1>2, <2>1, <2>3 DEF Rows
    <3> QED BY <2>1, <3>1, <3>2 DEF Alone
  <2> QED BY <2>2, <2>3
<1> QED BY <1>4, <1>5 DEF RowInv, InsertsAlone

LEMMA NextRowInv == TypeInv /\ RowInv /\ [Next]_accountsVars => RowInv'
<1> SUFFICES ASSUME TypeInv, RowInv, [Next]_accountsVars PROVE RowInv'
  OBVIOUS
<1>0. device \in [Clients -> Device] /\ Idle.at = "idle"
  BY DEF TypeInv, TypeOK, SessionTypeOK, Device, Idle
<1>1. CASE UNCHANGED <<accounts, twins, device>>
  BY <1>1, NoRow DEF Inserts
<1>2. ASSUME NEW c \in Clients, UNCHANGED <<accounts, twins>>, NEW d, d.at # "insert",
             device' = [device EXCEPT ![c] = d]
      PROVE  RowInv'
  BY <1>0, <1>2, NoRow DEF Inserts
<1>3. ASSUME NEW c \in Clients, UNCHANGED <<accounts, twins>>, Ends(c) PROVE RowInv'
  BY <1>0, <1>2, <1>3 DEF Ends
<1>4. ASSUME NEW c \in Clients, NEW p \in Phones, Login(c, p) PROVE RowInv'
  <2>1. [Idle EXCEPT !.at = "code", !.kind = "login", !.phone = p].at # "insert"
    BY DEF Idle
  <2> QED BY <1>2, <1>4, <2>1 DEF Login
<1>5. ASSUME NEW c \in Clients, NEW kind \in {"me", "sign"}, Request(c, kind) PROVE RowInv'
  <2> DEFINE d == [device[c] EXCEPT !.at = "claims", !.kind = kind, !.made = now]
  <2>1. d.at # "insert" /\ device' = [device EXCEPT ![c] = IF Expired(c) THEN Idle ELSE d]
    BY <1>0, <1>5 DEF Request, Device
  <2> HIDE DEF d
  <2> QED BY <1>0, <1>2, <1>5, <2>1 DEF Request, OnlyToken
<1>6. ASSUME NEW c \in Clients, GetCode(c) PROVE RowInv'
  <2>1. CASE Continue(c, "select")
    <3> DEFINE d == [device[c] EXCEPT !.at = "select"]
    <3>1. d.at # "insert" /\ device' = [device EXCEPT ![c] = d]
      BY <1>0, <2>1 DEF Continue, Device
    <3> HIDE DEF d
    <3> QED BY <1>2, <1>6, <3>1 DEF GetCode
  <2> QED BY <1>3, <1>6, <2>1 DEF GetCode
<1>7. ASSUME NEW c \in Clients, SelectUser(c) \/ SelectUserError(c) PROVE RowInv'
  <2> DEFINE p == device[c].phone
  <2>1. accounts' = accounts
    BY <1>7 DEF SelectUser, SelectUserError
  <2>2. ASSUME NEW id, Issue(c, id), twins' = twins PROVE RowInv'
    BY <1>3, <2>1, <2>2 DEF Issue
  <2>3. ASSUME Continue(c, "insert"), twins \subseteq twins',
               p \in twins' \/ (Rows(p) = {} /\ ~Inserting(p))
        PROVE  RowInv'
    <3>1. /\ \A d \in Clients \ {c} : device'[d] = device[d]
          /\ device'[c].phone = p
      BY <1>0, <2>3 DEF Continue, Device
    <3>2. Alone(c)'
      BY <2>1, <2>3, <3>1 DEF Alone, Rows, Inserts, Inserting
    <3>3. ASSUME NEW d \in Clients \ {c}, Inserts(d)' PROVE Alone(d)'
      <4>1. Inserts(d) /\ Alone(d)
        BY <3>1, <3>3 DEF Inserts, RowInv, InsertsAlone
      <4>2. CASE device[d].phone = p
        BY <2>3, <3>1, <4>1, <4>2 DEF Alone, Inserts, Inserting
      <4>3. CASE device[d].phone # p
        BY <2>1, <2>3, <3>1, <4>1, <4>3 DEF Alone, Rows, Inserts
      <4> QED BY <4>2, <4>3
    <3> QED BY <2>1, <2>3, <3>2, <3>3 DEF RowInv, InsertsAlone, OneAccount
  <2> QED BY <1>7, <2>2, <2>3 DEF SelectUser, SelectUserError
<1>8. ASSUME NEW c \in Clients, InsertUser(c) PROVE RowInv'
  BY <1>8, NewRow DEF InsertUser, Issue, Inserts
<1>9. ASSUME NEW c \in Clients, LoginError(c) PROVE RowInv'
  BY <1>3, <1>9, NewRow DEF LoginError, Inserts
<1>10. ASSUME NEW c \in Clients, Refresh(c) PROVE RowInv'
  <2> DEFINE d == [device[c] EXCEPT !.at = "handler", !.exp = ExpiryAfter(token[c].exp)]
  <2>1. d.at # "insert" /\ device' = [device EXCEPT ![c] = d]
    BY <1>0, <1>10 DEF Refresh, Device
  <2> HIDE DEF d
  <2> QED BY <1>2, <1>10, <2>1 DEF Refresh, OnlyToken
<1>11. ASSUME NEW c \in Clients, Answer(c) \/ AnswerError(c) PROVE RowInv'
  BY <1>3, <1>11 DEF Answer, AnswerError, OnlyToken
<1>12. ASSUME NEW p \in Phones, SendCode(p) \/ ExpireCode(p) PROVE RowInv'
  BY <1>1, <1>12 DEF SendCode, ExpireCode
<1>13. CASE SessionNext
  BY <1>4, <1>5, <1>6, <1>7, <1>8, <1>9, <1>10, <1>11, <1>12, <1>13 DEF SessionNext
<1>14. CASE Crash
  BY <1>0, <1>14, NoRow DEF Crash, SessionCrash, Inserts
<1>15. CASE UNCHANGED sessionVars
  BY <1>1, <1>15 DEF sessionVars
<1> QED BY <1>13, <1>14, <1>15 DEF Next, accountsVars

(***************************************************************************)
(* One account per phone, but for the two exceptions the property names.   *)
(***************************************************************************)
THEOREM OneAccountEach == Spec => []OneAccount
<1>1. RowInv => OneAccount
  BY DEF RowInv
<1> QED BY <1>1, TypeInvariant, InitRowInv, NextRowInv, PTL DEF Spec

-----------------------------------------------------------------------------
(***************************************************************************)
(* The bit field and its low ones.  A recursive function is a CHOOSE of a  *)
(* table that satisfies its equation: the lemmas show that there is one,   *)
(* the sizes without a table having no least one, and then that the low    *)
(* ones of the first d days' field are the signed days that end with d.    *)
(***************************************************************************)
FieldTable(f, id, n) ==
  f = [day \in 0..n |-> IF day = 0 THEN 0 ELSE 2 * f[day - 1] + (IF Signed(id, day) THEN 1 ELSE 0)]

OnesTable(g, n) == g = [num \in 0..n |-> IF num % 2 = 0 THEN 0 ELSE 1 + g[num \div 2]]

\* The first n days of a month have their table of fields.
LEMMA FieldTableExists ==
  ASSUME NEW n \in Nat, NEW id
  PROVE  \E f : FieldTable(f, id, n)
<1> DEFINE Bad == {m \in Nat : ~ \E f : FieldTable(f, id, m)}
<1>1. ASSUME Bad # {} PROVE FALSE
  <2>1. PICK m \in Bad : \A k \in Bad : m <= k
    BY <1>1, LeastElement
  <2>2. m # 0
    <3>1. FieldTable([day \in 0..0 |-> 0], id, 0)
      BY Zenon, SMT DEF FieldTable
    <3> QED BY <3>1
  <2>3. PICK f : FieldTable(f, id, m - 1)
    BY <2>1, <2>2
  <2> DEFINE Entry(g, day) == IF day = 0 THEN 0 ELSE 2 * g[day - 1] + (IF Signed(id, day) THEN 1 ELSE 0)
             h == [day \in 0..m |-> Entry(f, day)]
  <2>4. \A day \in 0..m : day # 0 => h[day - 1] = f[day - 1]
    <3>1. f = [day \in 0..(m - 1) |-> Entry(f, day)]
      BY <2>3, Zenon DEF FieldTable
    <3> HIDE DEF Entry
    <3>2. \A day \in 0..(m - 1) : [e \in 0..(m - 1) |-> Entry(f, e)][day] = h[day]
      OBVIOUS
    <3>3. \A day \in 0..(m - 1) : f[day] = h[day]
      BY <3>1, <3>2, Zenon
    <3> HIDE DEF h
    <3> QED BY <3>3
  <2>5. FieldTable(h, id, m)
    <3> SUFFICES ASSUME NEW day \in 0..m PROVE Entry(f, day) = Entry(h, day)
      BY Zenon DEF FieldTable
    <3> QED BY <2>4, Zenon
  <2> QED BY <2>1, <2>5, Zenon
<1> QED BY <1>1, Zenon

\* What BITFIELD returns: the month's bits, read from the first day on.
LEMMA FieldOfMonth ==
  ASSUME NEW id
  PROVE  \E f : /\ f[0] = 0 /\ BitField(id) = f[DayOfMonth]
                /\ \A day \in 1..MonthLength :
                     f[day] = 2 * f[day - 1] + (IF Signed(id, day) THEN 1 ELSE 0)
<1> DEFINE Entry(g, day) == IF day = 0 THEN 0 ELSE 2 * g[day - 1] + (IF Signed(id, day) THEN 1 ELSE 0)
           upTo == CHOOSE f : FieldTable(f, id, MonthLength)
<1>1. FieldTable(upTo, id, MonthLength)
  BY FieldTableExists, Zenon
<1>2. BitField(id) = upTo[DayOfMonth]
  BY Zenon DEF BitField, FieldTable
<1>3. upTo = [day \in 0..MonthLength |-> Entry(upTo, day)]
  BY <1>1, Zenon DEF FieldTable
<1> HIDE DEF upTo, Entry
<1>4. \A day \in 0..MonthLength : upTo[day] = Entry(upTo, day)
  BY <1>3, Zenon
<1>5. upTo[0] = 0
  BY <1>4 DEF Entry
<1>6. \A day \in 1..MonthLength : upTo[day] = 2 * upTo[day - 1] + (IF Signed(id, day) THEN 1 ELSE 0)
  BY <1>4 DEF Entry
<1> QED BY <1>2, <1>5, <1>6, Zenon

\* The numbers up to n have their table of low ones, and one only.
LEMMA OnesTableExists ==
  ASSUME NEW n \in Nat
  PROVE  \E g : OnesTable(g, n)
<1> DEFINE Bad == {m \in Nat : ~ \E g : OnesTable(g, m)}
<1>1. ASSUME Bad # {} PROVE FALSE
  <2>1. PICK m \in Bad : \A k \in Bad : m <= k
    BY <1>1, LeastElement
  <2>2. m # 0
    <3>1. OnesTable([num \in 0..0 |-> 0], 0)
      BY Zenon, SMT DEF OnesTable
    <3> QED BY <3>1
  <2>3. PICK g : OnesTable(g, m - 1)
    BY <2>1, <2>2
  <2> DEFINE Entry(t, num) == IF num % 2 = 0 THEN 0 ELSE 1 + t[num \div 2]
             h == [num \in 0..m |-> Entry(g, num)]
  <2>4. \A num \in 0..m : num % 2 # 0 => h[num \div 2] = g[num \div 2]
    <3>1. g = [num \in 0..(m - 1) |-> Entry(g, num)]
      BY <2>3, Zenon DEF OnesTable
    <3> HIDE DEF Entry
    <3>2. \A num \in 0..(m - 1) : [e \in 0..(m - 1) |-> Entry(g, e)][num] = h[num]
      OBVIOUS
    <3>3. \A num \in 0..(m - 1) : g[num] = h[num]
      BY <3>1, <3>2, Zenon
    <3> HIDE DEF h
    <3> QED BY <3>3
  <2>5. OnesTable(h, m)
    <3> SUFFICES ASSUME NEW num \in 0..m PROVE Entry(g, num) = Entry(h, num)
      BY Zenon DEF OnesTable
    <3> QED BY <2>4, Zenon
  <2> QED BY <2>1, <2>5, Zenon
<1> QED BY <1>1, Zenon

LEMMA OnesTableEntry ==
  ASSUME NEW g, NEW n, OnesTable(g, n), NEW num \in 0..n
  PROVE  g[num] = IF num % 2 = 0 THEN 0 ELSE 1 + g[num \div 2]
<1> DEFINE Entry(t, m) == IF m % 2 = 0 THEN 0 ELSE 1 + t[m \div 2]
<1>1. g = [m \in 0..n |-> Entry(g, m)]
  BY Zenon DEF OnesTable
<1> HIDE DEF Entry
<1>2. g[num] = Entry(g, num)
  BY <1>1, Zenon
<1> QED BY <1>2, Zenon DEF Entry

LEMMA OnesTablesAgree ==
  ASSUME NEW g, NEW h, NEW m \in Nat, NEW n \in Nat, OnesTable(g, m), OnesTable(h, n),
         NEW i \in 0..m, i <= n
  PROVE  g[i] = h[i]
<1> DEFINE Bad == {k \in Nat : k <= m /\ k <= n /\ g[k] # h[k]}
<1>1. ASSUME Bad # {} PROVE FALSE
  <2>1. PICK k \in Bad : \A l \in Bad : k <= l
    BY <1>1, LeastElement
  <2>2. /\ g[k] = IF k % 2 = 0 THEN 0 ELSE 1 + g[k \div 2]
        /\ h[k] = IF k % 2 = 0 THEN 0 ELSE 1 + h[k \div 2]
    BY <2>1, OnesTableEntry
  <2>3. k % 2 # 0 /\ g[k \div 2] # h[k \div 2]
    BY <2>1, <2>2
  <2>4. k \div 2 \in Nat /\ k \div 2 < k
    BY <2>1, <2>3
  <2>5. k \div 2 \in Bad
    BY <2>1, <2>3, <2>4
  <2> QED BY <2>1, <2>4, <2>5
<1> QED BY <1>1

\* What the loop over the number's low bits counts.
LEMMA OnesOfNumber ==
  ASSUME NEW id
  PROVE  \E g : /\ GetSignCount(id) = g[BitField(id)]
                /\ \A num \in Nat : g[num] = IF num % 2 = 0 THEN 0 ELSE 1 + g[num \div 2]
<1> DEFINE Entry(t, num) == IF num % 2 = 0 THEN 0 ELSE 1 + t[num \div 2]
           A(n) == CHOOSE g : OnesTable(g, n)
           h == [num \in Nat |-> A(num)[num]]
           ones == CHOOSE g : g = [num \in Nat |-> Entry(g, num)]
<1>1. \A n \in Nat : OnesTable(A(n), n)
  BY OnesTableExists, Zenon
<1>2. \A num \in Nat : h[num] = Entry(h, num)
  <2> SUFFICES ASSUME NEW num \in Nat PROVE h[num] = Entry(h, num)
    OBVIOUS
  <2> HIDE DEF A
  <2>1. A(num)[num] = IF num % 2 = 0 THEN 0 ELSE 1 + A(num)[num \div 2]
    BY <1>1, OnesTableEntry
  <2>2. num \div 2 \in Nat /\ num \div 2 <= num
    OBVIOUS
  <2>3. A(num)[num \div 2] = A(num \div 2)[num \div 2]
    BY <1>1, <2>2, OnesTablesAgree
  <2>4. h[num] = A(num)[num] /\ h[num \div 2] = A(num \div 2)[num \div 2]
    BY <2>2
  <2> HIDE DEF h
  <2> QED BY <2>1, <2>3, <2>4
<1>3. h = [num \in Nat |-> Entry(h, num)]
  <2> HIDE DEF Entry
  <2> QED BY <1>2, Zenon
<1>4. ones = [num \in Nat |-> Entry(ones, num)]
  <2> HIDE DEF h, Entry
  <2> QED BY <1>3, Zenon
<1>5. GetSignCount(id) = ones[BitField(id)]
  BY Zenon DEF GetSignCount
<1> HIDE DEF ones, Entry
<1>6. \A num \in Nat : ones[num] = Entry(ones, num)
  BY <1>4, Zenon
<1> QED BY <1>5, <1>6, Zenon DEF Entry

\* Day by day: the low ones of the first d days' field are the signed days
\* that end with d.
LEMMA OnesAreRun ==
  ASSUME NEW f, NEW g, NEW S, NEW L \in Nat, f[0] = 0,
         \A day \in 1..L : f[day] = 2 * f[day - 1] + (IF day \in S THEN 1 ELSE 0),
         \A num \in Nat : g[num] = IF num % 2 = 0 THEN 0 ELSE 1 + g[num \div 2],
         NEW d \in 0..L
  PROVE  /\ f[d] \in Nat /\ g[f[d]] \in 0..d
         /\ \A day \in d - g[f[d]] + 1 .. d : day \in S
         /\ g[f[d]] < d => d - g[f[d]] \notin S
<1> DEFINE Good(e) == /\ f[e] \in Nat /\ g[f[e]] \in 0..e
                      /\ \A day \in e - g[f[e]] + 1 .. e : day \in S
                      /\ g[f[e]] < e => e - g[f[e]] \notin S
           Bad == {e \in 0..L : ~Good(e)}
<1>1. ASSUME Bad # {} PROVE FALSE
  <2>1. PICK e \in Bad : \A k \in Bad : e <= k
    <3>1. Bad \subseteq Nat
      OBVIOUS
    <3> HIDE DEF Bad
    <3> QED BY <1>1, <3>1, LeastElement
  <2>2. Good(0)
    BY 0 % 2 = 0
  <2>3. e \in 1..L /\ e - 1 \in Nat /\ Good(e - 1)
    <3>1. e # 0
      BY <2>1, <2>2
    <3> HIDE DEF Good
    <3>2. e - 1 \in 0..L /\ ~(e <= e - 1)
      BY <2>1, <3>1
    <3> QED BY <2>1, <3>1, <3>2
  <2>4. f[e - 1] \in Nat /\ g[f[e - 1]] \in 0..(e - 1)
    BY <2>3
  <2>5. CASE e \in S
    <3>1. f[e] = 2 * f[e - 1] + 1
      BY <2>3, <2>5
    <3> DEFINE F == f[e - 1]
               p == g[F]
    <3>2. F \in Nat /\ f[e] = 2 * F + 1
      BY <2>4, <3>1
    <3>3. /\ p \in 0..(e - 1)
          /\ \A day \in e - p .. e - 1 : day \in S
          /\ p < e - 1 => e - 1 - p \notin S
      BY <2>3
    <3> HIDE DEF Good, Bad, F
    <3>4. f[e] \in Nat /\ f[e] % 2 # 0 /\ f[e] \div 2 = F
      BY <3>2
    <3>5. g[f[e]] = 1 + p
      BY <3>4
    <3> HIDE DEF p
    <3>6. Good(e)
      <4>1. \A day \in e - p .. e : day \in S
        BY <2>3, <2>5, <3>3
      <4> QED BY <2>3, <3>3, <3>4, <3>5, <4>1 DEF Good
    <3> QED BY <2>1, <3>6 DEF Bad
  <2>6. CASE e \notin S
    <3>1. f[e] = 2 * f[e - 1]
      BY <2>3, <2>4, <2>6
    <3>2. f[e] \in Nat /\ f[e] % 2 = 0
      BY <2>4, <3>1
    <3>3. g[f[e]] = 0
      BY <3>2
    <3>4. Good(e)
      BY <2>3, <2>6, <3>2, <3>3
    <3> QED BY <2>1, <3>4
  <2> QED BY <2>5, <2>6
<1> QED BY <1>1

\* The count of every account, in every state.
LEMMA CountOfRun == TypeOK => SignCountIsRun
<1> SUFFICES ASSUME TypeOK, NEW id \in DOMAIN accounts
             PROVE  LET n == GetSignCount(id) IN
                      /\ n \in 0..DayOfMonth /\ RunOf(id, n)
                      /\ n < DayOfMonth => ~RunOf(id, n + 1)
  BY Zenon DEF SignCountIsRun
<1>1. DayOfMonth \in 1..MonthLength
  <2>1. now \in Nat
    BY DEF TypeOK, ClockTypeOK
  <2>2. Today \in Int
    BY <2>1 DEF Today
  <2> QED BY <2>2 DEF DayOfMonth
<1> DEFINE S == {day \in 1..MonthLength : Signed(id, day)}
<1>2. PICK f : /\ f[0] = 0 /\ BitField(id) = f[DayOfMonth]
               /\ \A day \in 1..MonthLength :
                    f[day] = 2 * f[day - 1] + (IF Signed(id, day) THEN 1 ELSE 0)
  BY FieldOfMonth, Zenon
<1>3. PICK g : /\ GetSignCount(id) = g[BitField(id)]
               /\ \A num \in Nat : g[num] = IF num % 2 = 0 THEN 0 ELSE 1 + g[num \div 2]
  BY OnesOfNumber, Zenon
<1>4. \A day \in 1..MonthLength : f[day] = 2 * f[day - 1] + (IF day \in S THEN 1 ELSE 0)
  BY <1>2
<1>5. \A day \in 1..MonthLength : day \in S <=> Signed(id, day)
  OBVIOUS
<1> HIDE DEF S
<1> DEFINE d == DayOfMonth
           n == GetSignCount(id)
<1>6. /\ n \in 0..d
      /\ \A day \in d - n + 1 .. d : day \in S
      /\ n < d => d - n \notin S
  <2>1. n = g[f[d]]
    BY <1>2, <1>3
  <2>2. d \in 0..MonthLength /\ MonthLength \in Nat
    BY <1>1
  <2> HIDE DEF d, n
  <2> QED BY <1>2, <1>3, <1>4, <2>1, <2>2, OnesAreRun
<1> HIDE DEF n
<1>7. RunOf(id, n)
  BY <1>1, <1>5, <1>6 DEF RunOf
<1>8. ASSUME n < d PROVE ~RunOf(id, n + 1)
  BY <1>1, <1>5, <1>6, <1>8 DEF RunOf
<1> QED BY <1>6, <1>7, <1>8 DEF n

(***************************************************************************)
(* sign/count answers the run of days that ends today, for every history   *)
(* of sign-ins, month length and day of the month: BITFIELD's number and   *)
(* the loop over its low bits together compute it.                         *)
(***************************************************************************)
THEOREM SignCount == Spec => []SignCountIsRun
BY TypeCorrect, CountOfRun, PTL

=============================================================================
