------------------------- MODULE UserSessionProofs --------------------------
(***************************************************************************)
(* Proofs about the session, for any accounts, passwords and profiles and  *)
(* any numbers of taps, requests and deaths: its types, that a logged-in   *)
(* user is there, and that the table is his; and, as long as nothing is    *)
(* lost and the app not killed, that the phone keeps of the user what the  *)
(* server knows of him.                                                    *)
(***************************************************************************)
EXTENDS UserSession, FiniteSetTheorems, WellFoundedInduction, TLAPS

-----------------------------------------------------------------------------
(* Lists: functions from positions below some bound.                         *)
Bounded(list, T) == /\ \E n \in Nat : DOMAIN list \subseteq 1 .. n
                    /\ list \in [DOMAIN list -> T]

(* A set of naturals that is not empty has a least element.                  *)
LEMMA LeastNatural ==
  ASSUME NEW S \in SUBSET Nat, S # {}
  PROVE  \E x \in S : \A y \in S : x <= y
<1>1. PICK x \in S : \A y \in S : ~ (<<y, x>> \in OpToRel(<, Nat))
  BY NatLessThanWellFounded, WFMin
<1>2. \A y \in S : ~ (y < x)
  BY <1>1 DEF OpToRel
<1> QED BY <1>2

(* The first position of a list that is not empty is one of its positions.   *)
LEMMA MinOfPositions ==
  ASSUME NEW S \in SUBSET Nat, S # {}
  PROVE  Min(S) \in S
<1>1. PICK x \in S : \A y \in S : x <= y
  BY LeastNatural
<1> QED BY <1>1 DEF Min

(* A bounded set of positions has a last one.                                *)
LEMMA MaxOfPositions ==
  ASSUME NEW n \in Nat, NEW S \in SUBSET (1 .. n), S # {}
  PROVE  /\ Max(S) \in S
         /\ \A y \in S : y <= Max(S)
<1> DEFINE Above == {m \in Nat : S \subseteq 1 .. m}
<1>1. PICK m \in Above : \A k \in Above : m <= k
  <2>1. n \in Above /\ Above \in SUBSET Nat
    OBVIOUS
  <2> QED BY <2>1, LeastNatural
<1>2. m \in S
  <2> SUFFICES ASSUME m \notin S PROVE FALSE
    OBVIOUS
  <2>1. m # 0
    <3>1. ASSUME m = 0 PROVE S = {}
      BY <1>1, <3>1
    <3> QED BY <3>1
  <2>2. S \subseteq 1 .. (m - 1)
    BY <1>1
  <2>3. m - 1 \in Above
    BY <1>1, <2>1, <2>2
  <2> QED BY <1>1, <2>3
<1>3. \A y \in S : y <= m /\ y \in Int
  BY <1>1
<1> QED BY <1>2, <1>3 DEF Max

LEMMA BoundedIsFinite ==
  ASSUME NEW T, NEW list, Bounded(list, T)
  PROVE  IsFiniteSet(DOMAIN list)
<1>1. PICK n \in Nat : DOMAIN list \subseteq 1 .. n
  BY DEF Bounded
<1>2. \A k \in DOMAIN list : k <= n
  BY <1>1
<1>3. DOMAIN list \in SUBSET Nat
  BY <1>1
<1> QED BY <1>2, <1>3, FS_BoundedSetOfNaturals

-----------------------------------------------------------------------------
(* The table.                                                                *)
LEMMA EmptyTable ==
  ASSUME NEW T, Bounded(table, T)
  PROVE  table = <<>> <=> DOMAIN table = {}
  <1>1. CASE DOMAIN table = {}
    BY <1>1 DEF Bounded
  <1>2. CASE DOMAIN table # {}
    BY <1>2
  <1> QED BY <1>1, <1>2

\* A bounded table is a table in the sense of TypeOK.
LEMMA BoundedIsTable ==
  ASSUME NEW T, Bounded(table, T)
  PROVE  IsTable(T)
  <1>1. DOMAIN table \subseteq Nat \ {0} /\ table \in [DOMAIN table -> T]
    BY DEF Bounded
  <1> QED BY <1>1, BoundedIsFinite DEF IsTable

\* The row that is read is one of the table.
LEMMA FirstRowIsRow ==
  ASSUME NEW T, Bounded(table, T), table # <<>>
  PROVE  \E k \in DOMAIN table : FirstRow = table[k] /\ FirstRow \in T
  <1>1. DOMAIN table # {} /\ DOMAIN table \in SUBSET Nat
    BY EmptyTable DEF Bounded
  <1>2. Min(DOMAIN table) \in DOMAIN table
    BY <1>1, MinOfPositions
  <1> QED BY <1>2 DEF FirstRow, Bounded

\* Fewer rows, or others in the same places, are a table again.
LEMMA SameRows ==
  ASSUME NEW T, NEW U, Bounded(table, T), DOMAIN table' \subseteq DOMAIN table,
         table' \in [DOMAIN table' -> U]
  PROVE  Bounded(table, U)'
  BY DEF Bounded

\* An insert makes a table again, and one that is not empty.
LEMMA OneRowMore ==
  ASSUME NEW T, Bounded(table, T), NEW u \in T,
         table' = [k \in DOMAIN table \cup {NewRow} |-> IF k = NewRow THEN u ELSE table[k]]
  PROVE  Bounded(table, T)' /\ table' # <<>>
  <1>1. PICK n \in Nat : DOMAIN table \subseteq 1 .. n
    BY DEF Bounded
  <1>2. NewRow \in 1 .. (n + 1)
    <2>1. CASE table = <<>>
      BY <2>1 DEF NewRow
    <2>2. CASE table # <<>>
      <3>1. DOMAIN table \in SUBSET (1 .. n) /\ DOMAIN table # {}
        BY <1>1, <2>2, EmptyTable
      <3>2. Max(DOMAIN table) \in 1 .. n
        BY <3>1, MaxOfPositions
      <3> QED BY <2>2, <3>2 DEF NewRow
    <2> QED BY <2>1, <2>2
  <1>3. DOMAIN table \cup {NewRow} \subseteq 1 .. (n + 1)
    BY <1>1, <1>2
  <1>4. Bounded(table, T)'
    BY <1>3 DEF Bounded
  <1>5. DOMAIN table' # {}
    OBVIOUS
  <1> QED BY <1>4, <1>5

-----------------------------------------------------------------------------
(* Types.                                                                    *)
\* What an answer may be used for: a login that is granted is one of an account
\* with its password, a change is one of an account.
CallOK(c) ==
  /\ c.kind \in {"splash", "login"} /\ c.answer \notin {"none", "refused", "lost"} =>
       c.id \in Account /\ c.password \in Password
  /\ c.kind = "login" => c.id \in Account /\ {c.password, c.field} \subseteq Password
  /\ c.kind = "profile" => c.id \in Account /\ c.new \in Profile
  /\ c.kind = "reset" => c.id \in Account /\ {c.new, c.field} \subseteq Password
CallsOK == \A s \in Slots : CallOK(calls[s])

Types ==
  /\ currentUser \in AnyUser \cup {NewUser, Null}
  /\ Bounded(table, AnyUser) /\ queue \in Seq(OpType)
  /\ calls \in [Slots -> CallType]
  /\ screen \in {"splash", "app", "login"}
  /\ account \in [Account -> [profile : Profile, password : Password]]
  /\ CallsOK
Flags ==
  /\ loggedIn \in BOOLEAN /\ busy \in BOOLEAN /\ orderly \in BOOLEAN /\ lost \in BOOLEAN
  /\ taps \in 0 .. MaxTaps /\ kills \in 0 .. MaxKills

LEMMA FlagsInit == Init => Flags
  <1> SUFFICES ASSUME Init PROVE Flags
    OBVIOUS
  <1>1. loggedIn \in BOOLEAN /\ busy \in BOOLEAN /\ orderly \in BOOLEAN /\ lost \in BOOLEAN
    BY Zenon DEF Init
  <1>2. taps \in 0 .. MaxTaps /\ kills \in 0 .. MaxKills
    BY BoundAssumption DEF Init
  <1> QED BY <1>1, <1>2 DEF Flags

LEMMA TypesInit == Init => Types
  <1> SUFFICES ASSUME Init PROVE Types
    OBVIOUS
  <1>1. currentUser = NewUser /\ table = <<>> /\ screen = "splash"
    BY DEF Init
  <1>2. Bounded(table, AnyUser)
    <2>1. DOMAIN table = {} /\ DOMAIN table \subseteq 1 .. 0
      BY <1>1
    <2> QED BY <2>1 DEF Bounded
  <1>3. queue \in Seq(OpType)
    BY DEF Init, ReadOp, OpType
  <1>4. calls \in [Slots -> CallType] /\ CallsOK
    BY DEF Init, CallType, NoCall, CallsOK, CallOK
  <1>5. account \in [Account -> [profile : Profile, password : Password]]
    BY FirstAssumption DEF Init
  <1> QED BY <1>1, <1>2, <1>3, <1>4, <1>5 DEF Types

\* Requests and operations have their types.
LEMMA OpTypes ==
  /\ \A from \in {"splash", "login", "reset"} : ReadOp(from) \in OpType
  /\ \A user \in AnyUser : InsertOp(user) \in OpType /\ UpdateOp(user) \in OpType
  /\ \A id \in Account \cup {Null}, password \in Password : PasswordOp(id, password) \in OpType
  /\ \A id \in Account \cup {Null} : DeleteOp(id) \in OpType
  BY DEF OpType, ReadOp, InsertOp, UpdateOp, PasswordOp, DeleteOp

\* A request that is sent has its type.
LEMMA CallTypes ==
  ASSUME Types, NEW kind \in {"splash", "login", "profile", "reset"},
         NEW id \in Account \cup {Null}, NEW password \in Password \cup {Null},
         NEW new \in Password \cup Profile \cup {Null},
         kind = "login" => id \in Account /\ password \in Password,
         kind = "profile" => id \in Account /\ new \in Profile,
         kind = "reset" => id \in Account /\ new \in Password,
         Call(Request(kind, id, password, new))
  PROVE  (calls \in [Slots -> CallType] /\ CallsOK)'
  <1> DEFINE c == Request(kind, id, password, new)
  <1>1. c \in CallType
    BY DEF Request, CallType
  <1>2. CallOK(c)
    BY DEF Request, CallOK
  <1>3. PICK s \in Slots : calls' = [calls EXCEPT ![s] = c]
    BY DEF Call
  <1>4. calls' \in [Slots -> CallType]
    BY <1>1, <1>3 DEF Types
  <1>5. \A r \in Slots : calls'[r] = c \/ calls'[r] = calls[r]
    BY <1>3 DEF Types
  <1>6. CallsOK'
    BY <1>2, <1>5 DEF Types, CallsOK, CallOK
  <1> QED BY <1>4, <1>6

\* The requests left when one has been answered have theirs.
LEMMA AnsweredTypes ==
  ASSUME Types, NEW s \in Slots, NEW kind, Answered(s, kind)
  PROVE  (calls \in [Slots -> CallType] /\ CallsOK)'
  <1>1. calls' \in [Slots -> CallType]
    BY DEF Answered, Types, CallType
  <1>2. \A r \in Slots : calls'[r] = NoCall \/ calls'[r] = calls[r]
    BY DEF Answered, Types
  <1>3. CallOK(NoCall)
    BY DEF CallOK, NoCall
  <1> QED BY <1>1, <1>2, <1>3 DEF Types, CallsOK, CallOK

\* The fields of a request.
LEMMA CallFields ==
  ASSUME Types, NEW s \in Slots, calls[s] # NoCall
  PROVE  /\ calls[s].kind \in {"splash", "login", "profile", "reset"}
         /\ calls[s].id \in Account \cup {Null} /\ calls[s].password \in Password \cup {Null}
         /\ {calls[s].new, calls[s].field} \subseteq Password \cup Profile \cup {Null}
         /\ calls[s].answer \in Profile \cup {"none", "refused", "lost"}
         /\ DOMAIN calls[s] = {"kind", "id", "password", "new", "field", "answer"}
  BY DEF Types, CallType

\* A call that gets an answer keeps the rest.
LEMMA AnswerTypes ==
  ASSUME Types, NEW s \in Slots, calls[s] # NoCall,
         NEW a \in Profile \cup {"none", "refused", "lost"},
         calls' = [calls EXCEPT ![s].answer = a],
         calls[s].kind \in {"splash", "login"} /\ a \notin {"none", "refused", "lost"}
           => calls[s].id \in Account /\ calls[s].password \in Password
  PROVE  (calls \in [Slots -> CallType] /\ CallsOK)'
  <1> DEFINE c == [calls[s] EXCEPT !.answer = a]
  <1>1. c \in CallType
    BY DEF Types, CallType
  <1>2. CallOK(calls[s])
    BY DEF Types, CallsOK
  <1>3. /\ c.kind = calls[s].kind /\ c.id = calls[s].id /\ c.password = calls[s].password
        /\ c.new = calls[s].new /\ c.field = calls[s].field /\ c.answer = a
    BY CallFields
  <1>4. CallOK(c)
    BY <1>2, <1>3 DEF CallOK
  <1>5. \A r \in Slots : calls'[r] = IF r = s THEN c ELSE calls[r]
    BY DEF Types
  <1>6. calls' \in [Slots -> CallType]
    BY <1>1 DEF Types
  <1> QED BY <1>4, <1>5, <1>6 DEF Types, CallsOK, CallOK

\* So does one whose form is filled in again.
LEMMA RetypeTypes ==
  ASSUME Types, NEW s \in Slots, NEW w \in Password, Retype(s, w)
  PROVE  (calls \in [Slots -> CallType] /\ CallsOK)'
  <1> DEFINE c == [calls[s] EXCEPT !.field = w]
  <1>1. /\ calls' = [calls EXCEPT ![s].field = w]
        /\ calls[s].kind \in {"login", "reset"} /\ calls[s] # NoCall
    BY DEF Retype, NoCall
  <1>2. c \in CallType
    BY <1>1 DEF Types, CallType
  <1>3. /\ c.kind = calls[s].kind /\ c.id = calls[s].id /\ c.password = calls[s].password
        /\ c.new = calls[s].new /\ c.field = w /\ c.answer = calls[s].answer
    BY <1>1, CallFields
  <1>4. CallOK(c)
    <2>1. CallOK(calls[s])
      BY DEF Types, CallsOK
    <2> QED BY <2>1, <1>3 DEF CallOK
  <1>5. \A r \in Slots : calls'[r] = IF r = s THEN c ELSE calls[r]
    BY <1>1 DEF Types
  <1>6. calls' \in [Slots -> CallType]
    BY <1>1, <1>2 DEF Types
  <1> QED BY <1>4, <1>5, <1>6 DEF Types, CallsOK, CallOK

\* The fields of the current user, and a user made from an answer.
LEMMA UserTypes ==
  ASSUME Types
  PROVE  /\ NewUser.id = Null /\ NewUser.password = Null
         /\ currentUser # Null => /\ currentUser.id \in Account \cup {Null}
                                  /\ currentUser.password \in Password \cup {Null}
         /\ currentUser \notin {Null, NewUser} => currentUser.id \in Account
         /\ \A id \in Account, profile \in Profile, password \in Password \cup {Null} :
              User(id, profile, password) \in AnyUser
  BY DEF Types, AnyUser, NewUser, User

\* A granted answer holds a profile, and its request named an account.
LEMMA Granting ==
  ASSUME Types, NEW s \in Slots, NEW kind, Answered(s, kind), Granted(s),
         kind \in {"splash", "login", "profile", "reset"}
  PROVE  /\ calls[s].answer \in Profile
         /\ kind # "profile" /\ kind # "reset" => calls[s].id \in Account /\ calls[s].password \in Password
         /\ kind = "profile" => calls[s].id \in Account
         /\ kind \in {"login", "reset"} => calls[s].field \in Password
  <1>1. calls[s].kind = kind /\ calls[s] # NoCall
    BY DEF Answered, NoCall
  <1>2. CallOK(calls[s])
    BY DEF Types, CallsOK
  <1> QED BY <1>1, <1>2, CallFields DEF Granted, CallOK

LEMMA TypesStep == Types /\ [Next]_vars => Types'
  <1> SUFFICES ASSUME Types, [Next]_vars PROVE Types'
    OBVIOUS
  <1> USE DEF memory, ui, past
  <1>same. ASSUME UNCHANGED <<currentUser, table, queue, calls, account>>,
                  screen' \in {"splash", "app", "login"}
           PROVE  Types'
    BY <1>same DEF Types, CallsOK, Bounded
  \* Queue and calls are the parts of which the actions have most to say.
  <1>part. ASSUME UNCHANGED <<table, account>>,
                  currentUser' \in AnyUser \cup {NewUser, Null}, queue' \in Seq(OpType),
                  screen' \in {"splash", "app", "login"},
                  UNCHANGED calls \/ (calls \in [Slots -> CallType] /\ CallsOK)'
           PROVE  Types'
    BY <1>part DEF Types, CallsOK, Bounded
  <1>here. screen \in {"splash", "app", "login"} /\ queue \in Seq(OpType)
           /\ currentUser \in AnyUser \cup {NewUser, Null}
    BY DEF Types
  <1>1. CASE UNCHANGED vars
    BY <1>1, <1>same, <1>here DEF vars
  <1>2. CASE Kill
    <2>1. queue' = <<ReadOp("splash")>> /\ currentUser' = NewUser /\ screen' = "splash"
      BY <1>2 DEF Kill
    <2>2. calls' = [s \in Slots |-> NoCall] /\ CallOK(NoCall)
      BY <1>2 DEF Kill, CallOK, NoCall
    <2>3. (calls \in [Slots -> CallType] /\ CallsOK)'
      BY <2>2 DEF CallType, CallsOK, CallOK
    <2>4. queue' \in Seq(OpType)
      BY <2>1, OpTypes
    <2> QED BY <1>2, <2>1, <2>3, <2>4, <1>part DEF Kill
  <1>3. CASE EnterApp \/ OpenLogin \/ LeaveLogin \/ Back
    BY <1>3, <1>same, <1>here DEF EnterApp, OpenLogin, LeaveLogin, Back
  <1>4. CASE Relaunch
    <2>1. queue' \in Seq(OpType)
      BY <1>4, <1>here, OpTypes DEF Relaunch
    <2> QED BY <1>4, <2>1, <1>part, <1>here DEF Relaunch
  <1>5. CASE LogOut
    <2>1. queue' \in Seq(OpType)
      BY <1>5, <1>here, OpTypes, UserTypes DEF LogOut
    <2> QED BY <1>5, <2>1, <1>part, <1>here DEF LogOut
  <1>6. ASSUME NEW u \in Account, NEW w \in Password, LogIn(u, w) PROVE Types'
    <2>1. (calls \in [Slots -> CallType] /\ CallsOK)'
      BY <1>6, CallTypes DEF LogIn, Send
    <2> QED BY <1>6, <2>1, <1>part, <1>here DEF LogIn
  <1>7. ASSUME NEW p \in Profile, SaveProfile(p) PROVE Types'
    <2>1. (calls \in [Slots -> CallType] /\ CallsOK)'
      BY <1>7, CallTypes, UserTypes DEF SaveProfile, Send
    <2> QED BY <1>7, <2>1, <1>part, <1>here DEF SaveProfile
  <1>8. ASSUME NEW old \in Password, NEW new \in Password, ResetPassword(old, new) PROVE Types'
    <2>1. (calls \in [Slots -> CallType] /\ CallsOK)'
      BY <1>8, CallTypes, UserTypes DEF ResetPassword, Send
    <2> QED BY <1>8, <2>1, <1>part, <1>here DEF ResetPassword
  <1>9. ASSUME NEW s \in Slots, SplashReply(s) PROVE Types'
    <2>1. (calls \in [Slots -> CallType] /\ CallsOK)'
      BY <1>9, AnsweredTypes DEF SplashReply
    <2>2. CASE Granted(s)
      <3> DEFINE user == User(calls[s].id, calls[s].answer, calls[s].password)
      <3>1. user \in AnyUser
        BY <1>9, <2>2, Granting, UserTypes DEF SplashReply
      <3>2. currentUser' = user /\ queue' = queue \o <<InsertOp(user)>> \o <<>>
        BY <1>9, <2>2 DEF SplashReply, SetUserData
      <3>3. queue' \in Seq(OpType)
        BY <3>1, <3>2, OpTypes, <1>here
      <3> QED BY <1>9, <2>1, <3>1, <3>2, <3>3, <1>part, <1>here DEF SplashReply
    <2>3. CASE ~Granted(s)
      BY <1>9, <2>1, <2>3, <1>part, <1>here DEF SplashReply
    <2> QED BY <2>2, <2>3
  <1>10. ASSUME NEW s \in Slots, LogInReply(s) PROVE Types'
    <2>1. (calls \in [Slots -> CallType] /\ CallsOK)'
      BY <1>10, AnsweredTypes DEF LogInReply
    <2>2. CASE Granted(s)
      <3> DEFINE user == User(calls[s].id, calls[s].answer, calls[s].field)
      <3>1. user \in AnyUser
        BY <1>10, <2>2, Granting, UserTypes DEF LogInReply
      <3>2. currentUser' = user /\ queue' = queue \o <<InsertOp(user)>> \o <<ReadOp("login")>>
        BY <1>10, <2>2 DEF LogInReply, SetUserData
      <3>3. queue' \in Seq(OpType)
        BY <3>1, <3>2, OpTypes, <1>here
      <3>4. screen' \in {"splash", "app", "login"}
        BY <1>10, <2>2, <1>here DEF LogInReply
      <3> QED BY <1>10, <2>1, <3>1, <3>2, <3>3, <3>4, <1>part DEF LogInReply
    <2>3. CASE ~Granted(s)
      BY <1>10, <2>1, <2>3, <1>part, <1>here DEF LogInReply
    <2> QED BY <2>2, <2>3
  <1>11. ASSUME NEW s \in Slots, ProfileReply(s) PROVE Types'
    <2>1. (calls \in [Slots -> CallType] /\ CallsOK)'
      BY <1>11, AnsweredTypes DEF ProfileReply
    <2>2. CASE Granted(s) /\ currentUser # Null
      <3> DEFINE user == User(calls[s].id, calls[s].answer, currentUser.password)
      <3>1. user \in AnyUser
        BY <1>11, <2>2, Granting, UserTypes DEF ProfileReply
      <3>2. currentUser' = user /\ queue' = Append(queue, UpdateOp(user))
        BY <1>11, <2>2 DEF ProfileReply
      <3>3. queue' \in Seq(OpType)
        BY <3>1, <3>2, OpTypes, <1>here
      <3> QED BY <1>11, <2>1, <3>1, <3>2, <3>3, <1>part, <1>here DEF ProfileReply
    <2>3. CASE ~(Granted(s) /\ currentUser # Null)
      BY <1>11, <2>1, <2>3, <1>part, <1>here DEF ProfileReply
    <2> QED BY <2>2, <2>3
  <1>12. ASSUME NEW s \in Slots, ResetReply(s) PROVE Types'
    <2>1. (calls \in [Slots -> CallType] /\ CallsOK)'
      BY <1>12, AnsweredTypes DEF ResetReply
    <2>2. queue' \in Seq(OpType)
      <3>1. CASE Granted(s) /\ currentUser # Null
        <4>1. calls[s].field \in Password
          BY <1>12, <3>1, Granting DEF ResetReply
        <4>2. /\ PasswordOp(currentUser.id, calls[s].field) \in OpType
              /\ ReadOp("reset") \in OpType
          BY <4>1, <3>1, OpTypes, UserTypes
        <4> QED BY <1>12, <3>1, <4>2, <1>here DEF ResetReply, StorePassword
      <3>2. CASE ~(Granted(s) /\ currentUser # Null)
        BY <1>12, <3>2, <1>here DEF ResetReply
      <3> QED BY <3>1, <3>2
    <2>3. UNCHANGED <<table, account, currentUser, screen>>
      BY <1>12 DEF ResetReply
    <2> QED BY <2>1, <2>2, <2>3, <1>part, <1>here
  <1>13. ASSUME NEW s \in Slots, Serve(s) PROVE Types'
    <2>1. calls[s] # NoCall /\ UNCHANGED <<table, queue, currentUser, screen>>
      BY <1>13 DEF Serve, ui
    <2>2. calls[s].id \in Account \cup {Null} /\ CallOK(calls[s])
      BY <2>1, CallFields DEF Types, CallsOK
    <2>3. CASE calls[s].kind \in {"splash", "login"}
      <3> DEFINE right == calls[s].id \in Account /\ account[calls[s].id].password = calls[s].password
                 a == IF right THEN account[calls[s].id].profile ELSE "refused"
      <3>1. calls' = [calls EXCEPT ![s].answer = a] /\ UNCHANGED account
        BY <1>13, <2>3 DEF Serve
      <3>2. right => a \in Profile /\ calls[s].password \in Password
        BY DEF Types
      <3>3. a \in Profile \cup {"none", "refused", "lost"}
        BY <3>2
      <3>4. (calls \in [Slots -> CallType] /\ CallsOK)'
        BY <3>1, <3>2, <3>3, <2>1, AnswerTypes
      <3> QED BY <2>1, <3>1, <3>4, <1>part, <1>here
    <2>4. CASE calls[s].kind = "profile"
      <3>1. /\ account' = [account EXCEPT ![calls[s].id].profile = calls[s].new]
            /\ calls' = [calls EXCEPT ![s].answer = calls[s].new]
        BY <1>13, <2>4 DEF Serve
      <3>2. calls[s].new \in Profile /\ calls[s].id \in Account
        BY <2>2, <2>4 DEF CallOK
      <3>3. (calls \in [Slots -> CallType] /\ CallsOK)'
        BY <3>1, <3>2, <2>1, <2>4, AnswerTypes
      <3>4. account' \in [Account -> [profile : Profile, password : Password]]
        BY <3>1, <3>2 DEF Types
      <3> QED BY <2>1, <3>3, <3>4, <1>here DEF Types, Bounded
    <2>5. CASE calls[s].kind = "reset"
      <3>1. calls[s].new \in Password /\ calls[s].id \in Account
        BY <2>2, <2>5 DEF CallOK
      <3>2. \/ /\ account' = [account EXCEPT ![calls[s].id].password = calls[s].new]
               /\ calls' = [calls EXCEPT ![s].answer = account[calls[s].id].profile]
            \/ /\ UNCHANGED account
               /\ calls' = [calls EXCEPT ![s].answer = "refused"]
        BY <1>13, <2>5 DEF Serve
      <3>3. (calls \in [Slots -> CallType] /\ CallsOK)'
        <4>1. account[calls[s].id].profile \in Profile
          BY <3>1 DEF Types
        <4> QED BY <3>2, <4>1, <2>1, <2>5, AnswerTypes
      <3>4. account' \in [Account -> [profile : Profile, password : Password]]
        BY <3>1, <3>2 DEF Types
      <3> QED BY <2>1, <3>3, <3>4, <1>here DEF Types, Bounded
    <2> QED BY <2>1, <2>3, <2>4, <2>5, CallFields
  <1>14. ASSUME NEW s \in Slots, Lose(s) PROVE Types'
    <2>1. calls[s] # NoCall /\ calls' = [calls EXCEPT ![s].answer = "lost"]
      BY <1>14 DEF Lose
    <2>2. (calls \in [Slots -> CallType] /\ CallsOK)'
      BY <2>1, AnswerTypes
    <2>3. UNCHANGED <<table, queue, currentUser, screen, account>>
      BY <1>14 DEF Lose, ui
    <2> QED BY <2>2, <2>3, <1>part, <1>here
  <1>15. CASE ExecRead
    <2>1. queue # <<>> /\ queue' = Tail(queue) /\ UNCHANGED <<table, screen, account>>
      BY <1>15 DEF ExecRead, Running, ui
    <2>2. queue' \in Seq(OpType)
      BY <2>1, <1>here
    <2>3. FirstRow \in AnyUser \cup {NewUser}
      BY FirstRowIsRow DEF FirstRow, Types
    <2>4. FirstRow.id \in Account \cup {Null} /\ FirstRow.password \in Password \cup {Null}
      BY <2>3, UserTypes DEF AnyUser
    <2>5. currentUser' = FirstRow
      BY <1>15 DEF ExecRead
    <2>6. UNCHANGED calls \/ Call(Request("splash", FirstRow.id, FirstRow.password, Null))
      BY <1>15 DEF ExecRead
    <2>7. UNCHANGED calls \/ (calls \in [Slots -> CallType] /\ CallsOK)'
      BY <2>4, <2>6, CallTypes
    <2> QED BY <2>1, <2>2, <2>3, <2>5, <2>7, <1>part, <1>here
  <1>db. ASSUME queue # <<>>, queue' = Tail(queue), UNCHANGED <<calls, screen, account>>,
                currentUser' \in AnyUser \cup {NewUser, Null}, Bounded(table, AnyUser)'
         PROVE  Types'
    <2>1. queue' \in Seq(OpType)
      BY <1>db, <1>here
    <2> QED BY <1>db, <2>1 DEF Types, CallsOK, Bounded
  <1>rows. Bounded(table, AnyUser)
    BY DEF Types
  <1>head. queue # <<>> => Head(queue) \in OpType
    BY <1>here
  <1>16. CASE ExecInsert
    <2>1. /\ queue # <<>> /\ Head(queue).op = "insert" /\ queue' = Tail(queue)
          /\ UNCHANGED <<calls, screen, account, currentUser>>
          /\ table' = [k \in DOMAIN table \cup {NewRow} |->
                         IF k = NewRow THEN Head(queue).user ELSE table[k]]
      BY <1>16 DEF ExecInsert, Running, ui
    <2>2. Head(queue).user \in AnyUser
      BY <2>1, <1>head DEF OpType
    <2>3. Bounded(table, AnyUser)'
      BY <2>1, <2>2, <1>rows, OneRowMore
    <2> QED BY <2>1, <2>3, <1>db, <1>here
  <1>17. CASE ExecUpdate
    <2>1. /\ queue # <<>> /\ Head(queue).op = "update" /\ queue' = Tail(queue)
          /\ UNCHANGED <<calls, screen, account, currentUser>>
          /\ table' = [k \in DOMAIN table |-> IF k \in RowsOf(Head(queue).user.id)
                                              THEN Head(queue).user ELSE table[k]]
      BY <1>17 DEF ExecUpdate, Running, ui
    <2>2. Head(queue).user \in AnyUser
      BY <2>1, <1>head DEF OpType
    <2>3. Bounded(table, AnyUser)'
      BY <2>1, <2>2, <1>rows, SameRows DEF Bounded
    <2> QED BY <2>1, <2>3, <1>db, <1>here
  <1>18. CASE ExecPassword
    <2>1. /\ queue # <<>> /\ Head(queue).op = "password" /\ queue' = Tail(queue)
          /\ UNCHANGED <<calls, screen, account, currentUser>>
          /\ table' = [k \in DOMAIN table |-> IF k \in RowsOf(Head(queue).id)
                 THEN [table[k] EXCEPT !.password = Head(queue).password] ELSE table[k]]
      BY <1>18 DEF ExecPassword, Running, ui
    <2>2. Head(queue).password \in Password
      BY <2>1, <1>head DEF OpType
    <2>3. \A k \in DOMAIN table :
            table[k] \in AnyUser /\ [table[k] EXCEPT !.password = Head(queue).password] \in AnyUser
      BY <2>2, <1>rows DEF AnyUser, Bounded
    <2>4. Bounded(table, AnyUser)'
      BY <2>1, <2>3, <1>rows, SameRows
    <2> QED BY <2>1, <2>4, <1>db, <1>here
  <1>19. CASE ExecDelete
    <2>1. /\ queue # <<>> /\ queue' = Tail(queue) /\ UNCHANGED <<calls, screen, account>>
          /\ currentUser' = Null
          /\ table' = [k \in DOMAIN table \ RowsOf(Head(queue).id) |-> table[k]]
      BY <1>19 DEF ExecDelete, Running, ui, DeleteRows, Restrict
    <2>2. Bounded(table, AnyUser)'
      BY <2>1, <1>rows, SameRows DEF Bounded
    <2> QED BY <2>1, <2>2, <1>db
  <1>retype. ASSUME NEW s \in Slots, NEW w \in Password, Retype(s, w) PROVE Types'
    <2>1. (calls \in [Slots -> CallType] /\ CallsOK)'
      BY <1>retype, RetypeTypes
    <2>2. UNCHANGED <<table, queue, currentUser, screen, account>>
      BY <1>retype DEF Retype
    <2> QED BY <2>1, <2>2, <1>part, <1>here
  <1>20. CASE Tap
    BY <1>20, <1>3, <1>4, <1>5, <1>6, <1>7, <1>8, <1>retype DEF Tap
  <1>21. CASE Database
    BY <1>21, <1>15, <1>16, <1>17, <1>18, <1>19 DEF Database
  <1>22. CASE Server
    BY <1>22, <1>9, <1>10, <1>11, <1>12, <1>13, <1>14 DEF Server, Reply
  <1> QED BY <1>1, <1>2, <1>20, <1>21, <1>22 DEF Next

(* The flags: each action leaves them alone or assigns a truth value.        *)
LEMMA TruthsStep ==
  ASSUME loggedIn \in BOOLEAN, busy \in BOOLEAN, orderly \in BOOLEAN, lost \in BOOLEAN,
         [Next]_vars
  PROVE  loggedIn' \in BOOLEAN /\ busy' \in BOOLEAN /\ orderly' \in BOOLEAN /\ lost' \in BOOLEAN
  <1> USE DEF memory, ui, past
  <1> DEFINE Truths == loggedIn' \in BOOLEAN /\ busy' \in BOOLEAN
                       /\ orderly' \in BOOLEAN /\ lost' \in BOOLEAN
  <1>1. CASE UNCHANGED vars
    BY <1>1, Zenon DEF vars
  <1>2. CASE Kill
    BY <1>2, Zenon DEF Kill
  <1>3. CASE EnterApp \/ Relaunch \/ OpenLogin \/ LeaveLogin \/ LogOut \/ Back
    BY <1>3, Zenon DEF EnterApp, Relaunch, OpenLogin, LeaveLogin, LogOut, Back
  <1>4. ASSUME NEW u \in Account, NEW w \in Password, LogIn(u, w) PROVE Truths
    BY <1>4, Zenon DEF LogIn, Send
  <1>5. ASSUME NEW p \in Profile, SaveProfile(p) PROVE Truths
    BY <1>5, Zenon DEF SaveProfile, Send
  <1>6. ASSUME NEW old \in Password, NEW new \in Password, ResetPassword(old, new) PROVE Truths
    BY <1>6, Zenon DEF ResetPassword, Send
  <1>7. ASSUME NEW s \in Slots, SplashReply(s) PROVE Truths
    BY <1>7, Zenon DEF SplashReply, SetUserData
  <1>8. ASSUME NEW s \in Slots, LogInReply(s) PROVE Truths
    <2>1. CASE Granted(s)
      BY <1>8, <2>1, Zenon DEF LogInReply, SetUserData
    <2>2. CASE ~Granted(s)
      <3>1. UNCHANGED <<loggedIn, orderly, lost>>
        BY <1>8, <2>2, Zenon DEF LogInReply
      <3>2. busy' = busy \/ busy' = FALSE
        BY <1>8, <2>2 DEF LogInReply
      <3> QED BY <3>1, <3>2, Zenon
    <2> QED BY <2>1, <2>2
  <1>9. ASSUME NEW s \in Slots, ProfileReply(s) PROVE Truths
    <2>1. UNCHANGED <<orderly, lost>> /\ (busy' = busy \/ busy' = FALSE)
          /\ (loggedIn' = loggedIn \/ loggedIn' = TRUE)
      BY <1>9 DEF ProfileReply
    <2> QED BY <2>1, Zenon
  <1>10. ASSUME NEW s \in Slots, ResetReply(s) PROVE Truths
    BY <1>10, Zenon DEF ResetReply
  <1>11. ASSUME NEW s \in Slots, Serve(s) \/ Lose(s) PROVE Truths
    BY <1>11, Zenon DEF Serve, Lose
  <1>12. CASE Database
    BY <1>12, Zenon DEF Database, ExecRead, ExecInsert, ExecUpdate, ExecPassword, ExecDelete
  <1>retype. ASSUME NEW s \in Slots, NEW w \in Password, Retype(s, w) PROVE Truths
    BY <1>retype, Zenon DEF Retype
  <1>13. CASE Tap
    BY <1>13, <1>3, <1>4, <1>5, <1>6, <1>retype DEF Tap
  <1>14. CASE Server
    BY <1>14, <1>7, <1>8, <1>9, <1>10, <1>11 DEF Server, Reply
  <1> QED BY <1>1, <1>2, <1>12, <1>13, <1>14 DEF Next

LEMMA CountsStep ==
  ASSUME taps \in 0 .. MaxTaps, kills \in 0 .. MaxKills, [Next]_vars
  PROVE  taps' \in 0 .. MaxTaps /\ kills' \in 0 .. MaxKills
  <1> USE DEF past
  <1>1. \/ UNCHANGED <<taps, kills>>
        \/ taps < MaxTaps /\ taps' = taps + 1 /\ UNCHANGED kills
        \/ kills < MaxKills /\ kills' = kills + 1 /\ UNCHANGED taps
    <2>1. CASE Tap
      BY <2>1 DEF Tap, EnterApp, Relaunch, OpenLogin, LeaveLogin, LogOut, Back, LogIn,
                  SaveProfile, ResetPassword, Send, Retype
    <2>2. CASE Database
      BY <2>2 DEF Database, ExecRead, ExecInsert, ExecUpdate, ExecPassword, ExecDelete
    <2>3. CASE Server
      BY <2>3 DEF Server, Reply, Serve, Lose, SplashReply, LogInReply, ProfileReply, ResetReply
    <2> QED BY <2>1, <2>2, <2>3 DEF Next, Kill, vars
  <1> QED BY <1>1, BoundAssumption

LEMMA FlagsStep == Flags /\ [Next]_vars => Flags'
  BY TruthsStep, CountsStep DEF Flags

-----------------------------------------------------------------------------
(* What holds as long as the screens are used in order.  The parts name      *)
(* whose the rows and the operations are, and what a request in flight keeps *)
(* from changing.                                                            *)
Rows == /\ table \in [DOMAIN table -> StoredUser]
        /\ \A j, k \in DOMAIN table : table[j].id = table[k].id

\* While a request is in flight the database is idle and the user does not change.
CallFits(c) ==
  /\ c.kind = "splash" => screen = "splash" /\ loggedIn /\ c.id = currentUser.id
  /\ c.kind = "login" => /\ busy /\ screen = "login" /\ ~loggedIn /\ table = <<>>
                         /\ c.field = c.password
  /\ c.kind \in {"profile", "reset"} =>
       busy /\ screen = "app" /\ loggedIn /\ c.id = currentUser.id
  /\ c.kind = "reset" => c.field = c.new
CallsFit ==
  /\ \A r, s \in Slots : calls[r] # NoCall /\ calls[s] # NoCall => r = s
  /\ \A s \in Slots : calls[s] # NoCall => queue = <<>> /\ CallFits(calls[s])
  /\ busy => screen # "splash"

\* The splash screen's read is the last operation, a row is only written by the
\* first, and after a delete no user is written or read again.
Writes == {"insert", "update", "password"}
Leaves(o) == o.op = "delete" \/ o = ReadOp("splash")
Shape ==
  \A k \in 1 .. Len(queue) :
    /\ queue[k] = ReadOp("splash") => k = Len(queue) /\ screen = "splash"
    /\ queue[k].op \in Writes => k = 1
    /\ queue[k].op \in {"insert", "update"} => queue[k].user \in StoredUser
    /\ queue[k].op = "delete" => \A l \in k .. Len(queue) : Leaves(queue[l])

\* Who is logged in owns all there is, and has a row or one on its way.
Owned(o) == /\ o.op \in {"insert", "update"} => o.user.id = currentUser.id
            /\ o.op = "delete" => o.id = currentUser.id
LoggedIn ==
  loggedIn =>
    /\ currentUser \in StoredUser
    /\ \A k \in DOMAIN table : table[k].id = currentUser.id
    /\ \A k \in 1 .. Len(queue) : Owned(queue[k])
    /\ table = <<>> => queue # <<>> /\ queue[1].op = "insert"
    /\ screen = "login" => \E k \in 1 .. Len(queue) : queue[k].op = "delete"

\* A guest has no row, but at the start, before the first read.
LoggedOut ==
  ~loggedIn =>
    /\ currentUser \in {NewUser, Null}
    /\ \A k \in 1 .. Len(queue) : Leaves(queue[k])
    /\ table = <<>> \/ (screen = "splash" /\ queue = <<ReadOp("splash")>>)

Orderly == Rows /\ CallsFit /\ Shape /\ LoggedIn /\ LoggedOut

LEMMA OrderlyInit == Init => Orderly
  <1> SUFFICES ASSUME Init PROVE Orderly
    OBVIOUS
  <1>1. /\ currentUser = NewUser /\ loggedIn = FALSE /\ table = <<>>
        /\ queue = <<ReadOp("splash")>> /\ screen = "splash" /\ busy = FALSE
        /\ calls = [s \in Slots |-> NoCall]
    BY DEF Init
  <1>2. Rows
    BY <1>1 DEF Rows
  <1>3. CallsFit
    BY <1>1 DEF CallsFit
  <1>4. Shape
    BY <1>1 DEF Shape, ReadOp, Writes
  <1>5. LoggedIn /\ LoggedOut
    BY <1>1 DEF LoggedIn, LoggedOut, Leaves
  <1> QED BY <1>2, <1>3, <1>4, <1>5 DEF Orderly

\* Away from the splash screen and without a dialog nothing is in flight.
LEMMA NothingInFlight ==
  ASSUME Types, Orderly, ~busy, screen # "splash"
  PROVE  \A s \in Slots : calls[s] = NoCall
  BY CallFields DEF Orderly, CallsFit, CallFits

LEMMA KillOrderly == Orderly /\ Kill => Orderly'
  <1> SUFFICES ASSUME Orderly, Kill PROVE Orderly'
    OBVIOUS
  <1>1. /\ currentUser' = NewUser /\ loggedIn' = FALSE /\ table' = table
        /\ queue' = <<ReadOp("splash")>> /\ screen' = "splash" /\ busy' = FALSE
        /\ calls' = [s \in Slots |-> NoCall]
    BY DEF Kill
  <1>2. Rows'
    BY <1>1 DEF Rows, Orderly
  <1>3. CallsFit'
    BY <1>1 DEF CallsFit
  <1>4. Shape'
    BY <1>1 DEF Shape, ReadOp, Writes
  <1>5. LoggedIn' /\ LoggedOut'
    BY <1>1 DEF LoggedIn, LoggedOut, Leaves
  <1> QED BY <1>2, <1>3, <1>4, <1>5 DEF Orderly

\* Steps that leave rows, user and queue alone and have nothing in flight.
LEMMA ScreenOrderly ==
  ASSUME Types, Orderly,
         (EnterApp /\ orderly') \/ OpenLogin \/ LeaveLogin
  PROVE  Orderly'
  <1> USE DEF memory
  <1>1. /\ UNCHANGED <<currentUser, loggedIn, table, queue, calls, busy>>
        /\ queue \in Seq(OpType)
    BY DEF EnterApp, OpenLogin, LeaveLogin, Types
  <1>2. /\ \A s \in Slots : calls[s] = NoCall
        /\ \A k \in 1 .. Len(queue) : queue[k] # ReadOp("splash")
        /\ screen' # "splash"
        /\ screen' = "login" => ~loggedIn
    <2>1. CASE EnterApp /\ orderly'
      <3>1. \A k \in DOMAIN queue : queue[k] # ReadOp("splash")
        BY <2>1 DEF EnterApp
      <3>2. \A s \in Slots : calls[s] # NoCall => FALSE
        BY <2>1, CallFields DEF EnterApp, Orderly, CallsFit, CallFits
      <3> QED BY <2>1, <1>1, <3>1, <3>2 DEF EnterApp
    <2>2. CASE OpenLogin \/ LeaveLogin
      BY <2>2, NothingInFlight DEF OpenLogin, LeaveLogin, Orderly, Shape
    <2> QED BY <2>1, <2>2
  <1>3. Rows'
    BY <1>1 DEF Rows, Orderly
  <1>4. CallsFit'
    BY <1>1, <1>2 DEF CallsFit, Orderly
  <1>5. Shape'
    BY <1>1, <1>2 DEF Shape, Orderly
  <1>6. LoggedIn'
    BY <1>1, <1>2 DEF LoggedIn, Orderly, Owned
  <1>7. LoggedOut'
    <2>1. queue # <<ReadOp("splash")>>
      BY <1>2
    <2> QED BY <1>1, <2>1 DEF LoggedOut, Orderly, Leaves
  <1> QED BY <1>3, <1>4, <1>5, <1>6, <1>7 DEF Orderly

\* One more operation at the end.
LEMMA Appended ==
  ASSUME Types, NEW o, queue' = Append(queue, o)
  PROVE  /\ Len(queue) \in Nat /\ Len(queue') = Len(queue) + 1 /\ queue' # <<>>
         /\ queue'[Len(queue')] = o
         /\ \A k \in 1 .. Len(queue) : queue'[k] = queue[k]
         /\ \A k \in 1 .. Len(queue') : k \in 1 .. Len(queue) \/ k = Len(queue')
  BY DEF Types

\* The splash screen comes back when nothing is in flight.
LEMMA RelaunchOrderly ==
  ASSUME Types, Orderly, Relaunch
  PROVE  Orderly'
  <1> USE DEF memory
  <1>1. /\ UNCHANGED <<currentUser, loggedIn, table, calls, busy>>
        /\ queue' = Append(queue, ReadOp("splash")) /\ screen = "app" /\ screen' = "splash" /\ ~busy
    BY DEF Relaunch
  <1>2. \A s \in Slots : calls'[s] = NoCall
    BY <1>1, NothingInFlight
  <1>3. /\ Len(queue) \in Nat /\ Len(queue') = Len(queue) + 1 /\ queue' # <<>>
        /\ queue'[Len(queue')] = ReadOp("splash")
        /\ \A k \in 1 .. Len(queue) : queue'[k] = queue[k]
        /\ \A k \in 1 .. Len(queue') : k \in 1 .. Len(queue) \/ k = Len(queue')
    BY <1>1, Appended
  <1>4. Rows'
    BY <1>1 DEF Rows, Orderly
  <1>5. CallsFit'
    BY <1>1, <1>2 DEF CallsFit
  <1>6. Shape'
    <2> SUFFICES ASSUME NEW k \in 1 .. Len(queue')
                 PROVE  /\ queue'[k] = ReadOp("splash") => k = Len(queue')
                        /\ queue'[k].op \in Writes => k = 1
                        /\ queue'[k].op \in {"insert", "update"} => queue'[k].user \in StoredUser
                        /\ queue'[k].op = "delete" => \A l \in k .. Len(queue') : Leaves(queue'[l])
      BY <1>1 DEF Shape, Leaves
    <2>1. CASE k = Len(queue')
      BY <2>1, <1>3 DEF ReadOp, Writes
    <2>2. CASE k \in 1 .. Len(queue)
      <3>1. queue'[k] = queue[k] /\ queue[k] # ReadOp("splash")
        BY <2>2, <1>1, <1>3 DEF Orderly, Shape
      <3>2. queue[k].op = "delete" => \A l \in k .. Len(queue') : Leaves(queue'[l])
        BY <2>2, <1>3 DEF Orderly, Shape, Leaves
      <3> QED BY <2>2, <3>1, <3>2 DEF Orderly, Shape
    <2> QED BY <2>1, <2>2, <1>3
  <1>7. LoggedIn'
    <2>1. Owned(ReadOp("splash"))
      BY DEF Owned, ReadOp
    <2>2. 1 \in 1 .. Len(queue) \/ queue = <<>>
      BY <1>3 DEF Types
    <2> QED BY <1>1, <1>3, <2>1, <2>2 DEF LoggedIn, Orderly, Owned
  <1>8. LoggedOut'
    BY <1>1, <1>3 DEF LoggedOut, Orderly, Leaves
  <1> QED BY <1>4, <1>5, <1>6, <1>7, <1>8 DEF Orderly

\* Whose rows the logout will delete.
LEMMA LogOutOrderly ==
  ASSUME Types, Orderly, LogOut
  PROVE  Orderly'
  <1> USE DEF memory
  <1> DEFINE o == DeleteOp(currentUser.id)
  <1>1. /\ UNCHANGED <<currentUser, loggedIn, table, calls, busy>> /\ ~busy
        /\ queue' = Append(queue, o) /\ screen = "app"
        /\ screen' # "splash"
    BY DEF LogOut
  <1>2. \A s \in Slots : calls'[s] = NoCall
    BY <1>1, NothingInFlight
  <1>3. /\ Len(queue) \in Nat /\ Len(queue') = Len(queue) + 1 /\ queue' # <<>>
        /\ queue'[Len(queue')] = o
        /\ \A k \in 1 .. Len(queue) : queue'[k] = queue[k]
        /\ \A k \in 1 .. Len(queue') : k \in 1 .. Len(queue) \/ k = Len(queue')
    BY <1>1, Appended
  <1>o. o.op = "delete" /\ o.id = currentUser.id /\ o # ReadOp("splash") /\ Leaves(o)
    BY DEF DeleteOp, ReadOp, Leaves
  <1> HIDE DEF o
  <1>4. Rows'
    BY <1>1 DEF Rows, Orderly
  <1>5. CallsFit'
    BY <1>1, <1>2 DEF CallsFit
  <1>6. Shape'
    <2> SUFFICES ASSUME NEW k \in 1 .. Len(queue')
                 PROVE  /\ queue'[k] # ReadOp("splash")
                        /\ queue'[k].op \in Writes => k = 1
                        /\ queue'[k].op \in {"insert", "update"} => queue'[k].user \in StoredUser
                        /\ queue'[k].op = "delete" => \A l \in k .. Len(queue') : Leaves(queue'[l])
      BY DEF Shape, Leaves
    <2>1. CASE k = Len(queue')
      BY <2>1, <1>3, <1>o DEF Writes
    <2>2. CASE k \in 1 .. Len(queue)
      <3>1. queue'[k] = queue[k] /\ queue[k] # ReadOp("splash")
        BY <2>2, <1>1, <1>3 DEF Orderly, Shape
      <3>2. queue[k].op = "delete" => \A l \in k .. Len(queue') : Leaves(queue'[l])
        BY <2>2, <1>3, <1>o DEF Orderly, Shape
      <3> QED BY <2>2, <3>1, <3>2 DEF Orderly, Shape
    <2> QED BY <2>1, <2>2, <1>3
  <1>7. LoggedIn'
    <2>1. Owned(o)
      BY <1>o DEF Owned
    <2>2. 1 \in 1 .. Len(queue) \/ queue = <<>>
      BY <1>3 DEF Types
    <2>3. \E k \in 1 .. Len(queue') : queue'[k].op = "delete"
      BY <1>3, <1>o
    <2> QED BY <1>1, <1>3, <2>1, <2>2, <2>3 DEF LoggedIn, Orderly, Owned
  <1>8. LoggedOut'
    BY <1>1, <1>3, <1>o DEF LoggedOut, Orderly, Leaves
  <1> QED BY <1>4, <1>5, <1>6, <1>7, <1>8 DEF Orderly

\* A form is sent: one request, of which the kind fits the screen.
LEMMA SendOrderly ==
  ASSUME Types, Orderly, NEW c, Send(c), orderly',
         UNCHANGED <<currentUser, loggedIn, table, queue, screen>>,
         screen # "splash", c.kind # "splash", queue = <<>> => CallFits(c)'
  PROVE  Orderly'
  <1>1. queue = <<>> /\ busy' /\ ~busy
    BY DEF Send
  <1>2. \A s \in Slots : calls[s] = NoCall
    BY <1>1, NothingInFlight
  <1>3. PICK s \in Slots : calls' = [calls EXCEPT ![s] = c]
    BY DEF Send, Call
  <1>4. \A r \in Slots : calls'[r] = IF r = s THEN c ELSE NoCall
    BY <1>2, <1>3 DEF Types
  <1>5. CallsFit'
    <2>1. \A r, q \in Slots : calls'[r] # NoCall /\ calls'[q] # NoCall => r = q
      BY <1>4
    <2>2. \A r \in Slots : calls'[r] # NoCall => queue' = <<>> /\ CallFits(calls[r])'
      BY <1>1, <1>4 DEF CallFits
    <2> QED BY <2>1, <2>2 DEF CallsFit
  <1>6. Rows' /\ Shape' /\ LoggedIn' /\ LoggedOut'
    BY DEF Orderly, Rows, Shape, LoggedIn, LoggedOut, Owned, Leaves
  <1> QED BY <1>5, <1>6 DEF Orderly

\* Login, profile and password forms.
LEMMA FormOrderly ==
  ASSUME Types, Orderly, orderly',
         \/ \E u \in Account, w \in Password : LogIn(u, w)
         \/ \E p \in Profile : SaveProfile(p)
         \/ \E old, new \in Password : ResetPassword(old, new)
  PROVE  Orderly'
  <1> USE DEF memory
  <1>1. ASSUME NEW u \in Account, NEW w \in Password, LogIn(u, w) PROVE Orderly'
    <2> DEFINE c == Request("login", u, w, Null)
    <2>1. /\ screen = "login" /\ Send(c)
          /\ UNCHANGED <<currentUser, loggedIn, table, queue, screen>>
      BY <1>1 DEF LogIn
    <2>2. queue = <<>> => ~loggedIn /\ table = <<>>
      <3>1. queue = <<>> => 1 .. Len(queue) = {} /\ queue # <<ReadOp("splash")>>
        OBVIOUS
      <3>2. queue = <<>> => ~loggedIn
        BY <2>1, <3>1 DEF Orderly, LoggedIn
      <3>3. queue = <<>> => table = <<>>
        BY <3>1, <3>2 DEF Orderly, LoggedOut
      <3> QED BY <3>2, <3>3
    <2>3. busy'
      BY <2>1 DEF Send
    <2>4. queue = <<>> => CallFits(c)'
      BY <2>1, <2>2, <2>3 DEF CallFits, Request
    <2> QED BY <2>1, <2>4, SendOrderly DEF Request
  <1>2. ASSUME NEW p \in Profile, SaveProfile(p) PROVE Orderly'
    <2> DEFINE c == Request("profile", currentUser.id, Null, p)
    <2>1. /\ screen = "app" /\ loggedIn /\ Send(c)
          /\ UNCHANGED <<currentUser, loggedIn, table, queue, screen>>
      BY <1>2 DEF SaveProfile
    <2>2. busy'
      BY <2>1 DEF Send
    <2>3. CallFits(c)'
      BY <2>1, <2>2 DEF CallFits, Request
    <2> QED BY <2>1, <2>3, SendOrderly DEF Request
  <1>3. ASSUME NEW old \in Password, NEW new \in Password, ResetPassword(old, new)
        PROVE  Orderly'
    <2> DEFINE c == Request("reset", currentUser.id, old, new)
    <2>1. /\ screen = "app" /\ loggedIn /\ Send(c)
          /\ UNCHANGED <<currentUser, loggedIn, table, queue, screen>>
      BY <1>3 DEF ResetPassword
    <2>2. busy'
      BY <2>1 DEF Send
    <2>3. CallFits(c)'
      BY <2>1, <2>2 DEF CallFits, Request
    <2> QED BY <2>1, <2>3, SendOrderly DEF Request
  <1> QED BY <1>1, <1>2, <1>3

\* A request that gets an answer, or is lost, is still the one in flight.
LEMMA ServerOrderly ==
  ASSUME Types, Orderly, NEW s \in Slots, Serve(s) \/ Lose(s)
  PROVE  Orderly'
  <1>1. /\ UNCHANGED <<currentUser, loggedIn, table, queue, screen, busy>>
        /\ calls[s] # NoCall
        /\ \E a : calls' = [calls EXCEPT ![s].answer = a]
    BY DEF Serve, Lose, memory, ui
  <1>2. PICK a : calls' = [calls EXCEPT ![s].answer = a]
    BY <1>1
  <1>3. \A r \in Slots : calls'[r] = IF r = s THEN [calls[s] EXCEPT !.answer = a] ELSE calls[r]
    BY <1>2 DEF Types
  <1>4. /\ calls'[s].kind = calls[s].kind /\ calls'[s].id = calls[s].id
        /\ calls'[s].password = calls[s].password /\ calls'[s].new = calls[s].new
        /\ calls'[s].field = calls[s].field
    BY <1>1, <1>3, CallFields
  <1>5. CallsFit'
    <2>1. \A r \in Slots : calls'[r] # NoCall => calls[r] # NoCall
      BY <1>1, <1>3
    <2>2. \A r, q \in Slots : calls'[r] # NoCall /\ calls'[q] # NoCall => r = q
      BY <2>1 DEF Orderly, CallsFit
    <2>3. ASSUME NEW r \in Slots, calls'[r] # NoCall PROVE queue' = <<>> /\ CallFits(calls[r])'
      <3>1. queue = <<>> /\ CallFits(calls[r])
        BY <2>1, <2>3 DEF Orderly, CallsFit
      <3>2. /\ calls'[r].kind = calls[r].kind /\ calls'[r].id = calls[r].id
            /\ calls'[r].password = calls[r].password /\ calls'[r].new = calls[r].new
            /\ calls'[r].field = calls[r].field
        BY <1>3, <1>4
      <3> QED BY <1>1, <3>1, <3>2 DEF CallFits
    <2> QED BY <1>1, <2>2, <2>3 DEF CallsFit, Orderly
  <1>6. Rows' /\ Shape' /\ LoggedIn' /\ LoggedOut'
    BY <1>1 DEF Orderly, Rows, Shape, LoggedIn, LoggedOut, Owned, Leaves
  <1> QED BY <1>5, <1>6 DEF Orderly

\* After an answer nothing is in flight, and nothing was given to the database.
LEMMA AnsweredAlone ==
  ASSUME Types, Orderly, NEW s \in Slots, NEW kind, Answered(s, kind), kind # "none",
         busy' => busy, screen' # "splash" \/ screen' = screen
  PROVE  /\ queue = <<>> /\ CallFits(calls[s]) /\ calls[s].kind = kind /\ CallsFit'
         /\ \A r \in Slots : calls'[r] = NoCall
  <1>1. calls[s] # NoCall /\ calls[s].kind = kind /\ calls' = [calls EXCEPT ![s] = NoCall]
    BY DEF Answered, NoCall
  <1>2. \A r \in Slots : calls'[r] = NoCall
    BY <1>1 DEF Types, Orderly, CallsFit
  <1>3. CallsFit'
    BY <1>2 DEF CallsFit, Orderly
  <1> QED BY <1>1, <1>2, <1>3 DEF Orderly, CallsFit

\* The answer has changed neither user nor database.
LEMMA AnswerUnused ==
  ASSUME Types, Orderly, CallsFit', UNCHANGED <<currentUser, loggedIn, table, queue, screen>>
  PROVE  Orderly'
  BY DEF Orderly, Rows, Shape, LoggedIn, LoggedOut, Owned, Leaves

\* The answer gives a user who owns what is stored, and is written first.
LEMMA UserWritten ==
  ASSUME Types, Orderly, CallsFit', queue = <<>>, UNCHANGED table,
         NEW user \in StoredUser, currentUser' = user, loggedIn' = TRUE, screen' # "login",
         NEW first, first.op \in {"insert", "update"}, first.user = user,
         \A k \in DOMAIN table : table[k].id = user.id,
         table = <<>> => first.op = "insert",
         queue' = <<first>> \/ queue' = <<first, ReadOp("login")>>
  PROVE  Orderly'
  <1>1. /\ Len(queue') \in 1 .. 2 /\ queue'[1] = first /\ queue' # <<>>
        /\ Len(queue') = 2 => queue'[2] = ReadOp("login")
    OBVIOUS
  <1>2. first # ReadOp("splash") /\ first.op # "delete"
    BY DEF ReadOp
  <1>3. Len(queue') = 2 => /\ queue'[2].op = "read" /\ queue'[2] # ReadOp("splash")
    BY <1>1 DEF ReadOp
  <1>4. Rows'
    BY DEF Rows, Orderly
  <1>5. Shape'
    BY <1>1, <1>2, <1>3 DEF Shape, Writes
  <1>6. LoggedIn'
    <2>1. \A k \in 1 .. Len(queue') : Owned(queue[k])'
      BY <1>1, <1>2, <1>3 DEF Owned
    <2> QED BY <1>1, <2>1 DEF LoggedIn
  <1>7. LoggedOut'
    BY DEF LoggedOut
  <1> QED BY <1>4, <1>5, <1>6, <1>7 DEF Orderly

\* Two operations one after the other are a list of two.
LEMMA TwoOperations ==
  ASSUME NEW i, NEW r
  PROVE  <<i>> \o <<r>> = <<i, r>>
  <1> DEFINE q == <<i>> \o <<r>>
  <1>1. q \in Seq({i, r})
    OBVIOUS
  <1>2. Len(q) = 2
    OBVIOUS
  <1>3. q[1] = i /\ q[2] = r
    OBVIOUS
  <1> HIDE DEF q
  <1>4. q = <<i, r>>
    BY <1>1, <1>2, <1>3
  <1> QED BY <1>4 DEF q

\* The replies: the user in the answer owns the rows there are.
LEMMA ReplyOrderly ==
  ASSUME Types, Orderly, orderly', NEW s \in Slots, Reply(s)
  PROVE  Orderly'
  <1> USE DEF memory, ui, past
  <1> DEFINE user == User(calls[s].id, calls[s].answer, calls[s].password)
  <1>0. 1 .. Len(<<>>) = {}
    OBVIOUS
  <1>1. CASE SplashReply(s)
    <2>1. Answered(s, "splash") /\ UNCHANGED <<table, screen, busy>>
      BY <1>1 DEF SplashReply
    <2>2. queue = <<>> /\ CallsFit' /\ screen = "splash" /\ loggedIn /\ calls[s].id = currentUser.id
      BY <2>1, AnsweredAlone DEF CallFits
    <2>3. CASE Granted(s)
      <3>1. user \in StoredUser /\ user.id = calls[s].id
        BY <2>1, <2>3, Granting DEF User, StoredUser
      <3>2. currentUser' = user /\ loggedIn' = TRUE /\ queue' = <<InsertOp(user)>>
        BY <1>1, <2>2, <2>3 DEF SplashReply, SetUserData
      <3>3. \A k \in DOMAIN table : table[k].id = user.id
        BY <2>2, <3>1 DEF Orderly, LoggedIn
      <3> HIDE DEF user
      <3>4. InsertOp(user).op = "insert" /\ InsertOp(user).user = user
        BY DEF InsertOp
      <3> QED BY <2>1, <2>2, <3>1, <3>2, <3>3, <3>4, UserWritten
    <2>4. CASE ~Granted(s)
      BY <1>1, <2>1, <2>2, <2>4, AnswerUnused DEF SplashReply
    <2> QED BY <2>3, <2>4
  <1>2. CASE LogInReply(s)
    <2> DEFINE his == User(calls[s].id, calls[s].answer, calls[s].field)
    <2>1. Answered(s, "login") /\ UNCHANGED table
      BY <1>2 DEF LogInReply
    <2>2. CASE Granted(s)
      <3>1. his \in StoredUser /\ his.id = calls[s].id
        BY <2>1, <2>2, Granting DEF User, StoredUser
      <3>2. /\ currentUser' = his /\ loggedIn' = TRUE /\ screen' = "app" /\ busy' = FALSE
            /\ queue' = queue \o <<InsertOp(his)>> \o <<ReadOp("login")>>
        BY <1>2, <2>2 DEF LogInReply, SetUserData
      <3>3. queue = <<>> /\ CallsFit' /\ table = <<>>
        BY <2>1, <3>2, AnsweredAlone DEF CallFits
      <3> HIDE DEF his
      <3>4. InsertOp(his).op = "insert" /\ InsertOp(his).user = his
        BY DEF InsertOp
      <3> DEFINE i == InsertOp(his)
                 r == ReadOp("login")
      <3>5. queue' = <<i, r>>
        <4>1. queue' = (queue \o <<i>>) \o <<r>>
          BY <3>2
        <4> HIDE DEF i, r
        <4>2. queue \o <<i>> = <<i>>
          BY <3>3
        <4>3. <<i>> \o <<r>> = <<i, r>>
          BY TwoOperations
        <4> QED BY <4>1, <4>2, <4>3
      <3>6. \A k \in DOMAIN table : table[k].id = his.id
        BY <3>3
      <3>7. screen' # "login"
        BY <3>2
      <3> HIDE DEF i
      <3>8. i.op = "insert" /\ i.user = his
        BY <3>4 DEF i
      <3>9. queue' = <<i, ReadOp("login")>>
        BY <3>5
      <3>10. queue = <<>> /\ CallsFit' /\ UNCHANGED table /\ currentUser' = his /\ loggedIn' = TRUE
        BY <2>1, <3>2, <3>3
      <3>11. i.op \in {"insert", "update"} /\ (table = <<>> => i.op = "insert")
        BY <3>8
      <3> HIDE DEF r
      <3> QED BY <3>1, <3>6, <3>7, <3>8, <3>9, <3>10, <3>11, UserWritten
    <2>3. CASE ~Granted(s)
      <3>1. UNCHANGED <<currentUser, loggedIn, queue, screen>> /\ (busy' => busy)
        BY <1>2, <2>3 DEF LogInReply
      <3> QED BY <2>1, <3>1, AnsweredAlone, AnswerUnused
    <2> QED BY <2>2, <2>3
  <1>3. CASE ProfileReply(s)
    <2>1. Answered(s, "profile") /\ UNCHANGED <<table, screen>> /\ (busy' => busy)
      BY <1>3 DEF ProfileReply
    <2>2. /\ queue = <<>> /\ CallsFit' /\ screen = "app" /\ loggedIn
          /\ calls[s].id = currentUser.id
      BY <2>1, AnsweredAlone DEF CallFits
    <2>3. currentUser \in StoredUser /\ currentUser # Null /\ table # <<>>
      BY <2>2, NullAssumption DEF Orderly, LoggedIn, StoredUser
    <2>4. CASE Granted(s)
      <3> DEFINE new == User(calls[s].id, calls[s].answer, currentUser.password)
      <3>1. new \in StoredUser /\ new.id = currentUser.id
        BY <2>1, <2>2, <2>3, <2>4, Granting DEF User, StoredUser
      <3>2. /\ currentUser' = new /\ loggedIn' = TRUE
            /\ queue' = Append(queue, UpdateOp(new))
        BY <1>3, <2>3, <2>4 DEF ProfileReply
      <3>3. \A k \in DOMAIN table : table[k].id = new.id
        BY <2>2, <3>1 DEF Orderly, LoggedIn
      <3> HIDE DEF new
      <3>4. UpdateOp(new).op = "update" /\ UpdateOp(new).user = new
        BY DEF UpdateOp
      <3>5. queue' = <<UpdateOp(new)>>
        BY <2>2, <3>2
      <3> QED BY <2>1, <2>2, <2>3, <3>1, <3>2, <3>3, <3>4, <3>5, UserWritten
    <2>5. CASE ~Granted(s)
      BY <1>3, <2>1, <2>2, <2>5, AnswerUnused DEF ProfileReply
    <2> QED BY <2>4, <2>5
  <1>4. CASE ResetReply(s)
    <2>1. /\ Answered(s, "reset") /\ UNCHANGED <<currentUser, loggedIn, table, screen>>
          /\ (busy' => busy)
      BY <1>4 DEF ResetReply
    <2>2. /\ queue = <<>> /\ CallsFit' /\ screen = "app" /\ loggedIn
      BY <2>1, AnsweredAlone DEF CallFits
    <2>3. CASE queue' = queue
      BY <2>1, <2>2, <2>3, AnswerUnused
    <2>4. CASE queue' = queue \o StorePassword(currentUser.id, calls[s].field)
      <3> DEFINE o == PasswordOp(currentUser.id, calls[s].field)
                 r == ReadOp("reset")
      <3>1. queue' = <<o, r>>
        BY <2>2, <2>4 DEF StorePassword
      <3>2. o.op = "password" /\ r.op = "read" /\ o # ReadOp("splash") /\ r # ReadOp("splash")
        BY DEF PasswordOp, ReadOp
      <3> HIDE DEF o, r
      <3>3. Len(queue') = 2 /\ queue'[1] = o /\ queue'[2] = r
        BY <3>1
      <3>4. Rows' /\ LoggedOut'
        BY <2>1, <2>2 DEF Orderly, Rows, LoggedOut
      <3>5. Shape'
        BY <3>2, <3>3 DEF Shape, Writes
      <3>6. LoggedIn'
        BY <2>1, <2>2, <3>2, <3>3 DEF Orderly, LoggedIn, Owned
      <3> QED BY <2>2, <3>4, <3>5, <3>6 DEF Orderly
    <2> QED BY <1>4, <2>3, <2>4 DEF ResetReply
  <1> QED BY <1>1, <1>2, <1>3, <1>4 DEF Reply

\* The database takes the oldest operation; the others keep their shape.
LEMMA Taken ==
  ASSUME Types, Orderly, queue # <<>>, queue' = Tail(queue), UNCHANGED screen
  PROVE  /\ Len(queue) \in Nat /\ Len(queue') = Len(queue) - 1 /\ 1 \in 1 .. Len(queue)
         /\ Head(queue) = queue[1] /\ queue[1] \in OpType
         /\ \A k \in 1 .. Len(queue') : queue'[k] = queue[k + 1] /\ k + 1 \in 1 .. Len(queue)
         /\ \A s \in Slots : calls[s] = NoCall
         /\ Shape'
  <1>1. /\ Len(queue) \in Nat /\ Len(queue') = Len(queue) - 1 /\ 1 \in 1 .. Len(queue)
        /\ Head(queue) = queue[1] /\ queue[1] \in OpType
    BY DEF Types
  <1>2. \A k \in 1 .. Len(queue') : queue'[k] = queue[k + 1] /\ k + 1 \in 1 .. Len(queue)
    BY <1>1 DEF Types
  <1>3. \A s \in Slots : calls[s] = NoCall
    BY DEF Orderly, CallsFit
  <1>4. Shape'
    <2> SUFFICES ASSUME NEW k \in 1 .. Len(queue')
                 PROVE  /\ queue'[k] = ReadOp("splash") => k = Len(queue') /\ screen = "splash"
                        /\ queue'[k].op \notin Writes
                        /\ queue'[k].op \notin {"insert", "update"}
                        /\ queue'[k].op = "delete" => \A l \in k .. Len(queue') : Leaves(queue'[l])
      BY DEF Shape, Leaves
    <2>1. queue'[k] = queue[k + 1] /\ k + 1 \in 1 .. Len(queue) /\ k + 1 # 1
      BY <1>2
    <2>2. queue[k + 1].op \notin Writes
      BY <2>1 DEF Orderly, Shape
    <2>3. queue[k + 1] = ReadOp("splash") => k + 1 = Len(queue) /\ screen = "splash"
      BY <2>1 DEF Orderly, Shape
    <2>4. ASSUME queue[k + 1].op = "delete", NEW l \in k .. Len(queue')
          PROVE  Leaves(queue'[l])
      <3>1. l \in 1 .. Len(queue') /\ l + 1 \in k + 1 .. Len(queue)
        BY <1>1
      <3>2. Leaves(queue[l + 1])
        BY <2>1, <2>4, <3>1 DEF Orderly, Shape
      <3> QED BY <1>2, <3>1, <3>2
    <2>5. queue'[k] = ReadOp("splash") => k = Len(queue') /\ screen = "splash"
      <3>1. k \in Nat
        BY <1>1
      <3>2. k + 1 = Len(queue) => k = Len(queue')
        <4> DEFINE n == Len(queue)
                   m == Len(queue')
        <4>1. n \in Nat /\ m = n - 1
          BY <1>1
        <4> HIDE DEF n, m
        <4>2. k + 1 = n => k = m
          BY <3>1, <4>1
        <4> QED BY <4>2 DEF n, m
      <3> QED BY <2>1, <2>3, <3>2
    <2> QED BY <2>1, <2>2, <2>4, <2>5 DEF Writes
  <1> QED BY <1>1, <1>2, <1>3, <1>4

\* What the operations left behind say of a user who stays, and of a guest.
LEMMA StillOwned ==
  ASSUME Types, Orderly, queue # <<>>, queue' = Tail(queue), UNCHANGED screen,
         loggedIn, currentUser'.id = currentUser.id
  PROVE  /\ \A k \in 1 .. Len(queue') : Owned(queue[k])'
         /\ screen = "login" /\ Head(queue).op # "delete" =>
              \E k \in 1 .. Len(queue') : queue'[k].op = "delete"
  <1>1. /\ Len(queue) \in Nat /\ Len(queue') = Len(queue) - 1 /\ 1 \in 1 .. Len(queue)
        /\ Head(queue) = queue[1]
        /\ \A k \in 1 .. Len(queue') : queue'[k] = queue[k + 1] /\ k + 1 \in 1 .. Len(queue)
    BY Taken
  <1>2. \A k \in 1 .. Len(queue') : Owned(queue[k])'
    BY <1>1 DEF Orderly, LoggedIn, Owned
  <1>3. ASSUME screen = "login", Head(queue).op # "delete"
        PROVE  \E k \in 1 .. Len(queue') : queue'[k].op = "delete"
    <2>1. PICK k \in 1 .. Len(queue) : queue[k].op = "delete"
      BY <1>3 DEF Orderly, LoggedIn
    <2>2. k # 1 /\ k - 1 \in 1 .. Len(queue')
      BY <1>1, <1>3, <2>1
    <2>3. queue'[k - 1] = queue[k]
      BY <1>1, <2>2
    <2> QED BY <2>1, <2>2, <2>3
  <1> QED BY <1>2, <1>3

\* For a guest, and after a delete, only deletes and the splash read are left.
LEMMA StillLeaves ==
  ASSUME Types, Orderly, queue # <<>>, queue' = Tail(queue), UNCHANGED screen,
         ~loggedIn \/ Head(queue).op = "delete"
  PROVE  \A k \in 1 .. Len(queue') : Leaves(queue[k])'
  <1>1. /\ Len(queue) \in Nat /\ 1 \in 1 .. Len(queue) /\ Head(queue) = queue[1]
        /\ \A k \in 1 .. Len(queue') : queue'[k] = queue[k + 1] /\ k + 1 \in 1 .. Len(queue)
    BY Taken
  <1>2. \A k \in 1 .. Len(queue) : Leaves(queue[k])
    <2>1. CASE ~loggedIn
      BY <2>1 DEF Orderly, LoggedOut
    <2>2. CASE Head(queue).op = "delete"
      BY <1>1, <2>2 DEF Orderly, Shape
    <2> QED BY <2>1, <2>2
  <1> QED BY <1>1, <1>2 DEF Leaves

\* A read finds the current user, or the one stored before the start.
LEMMA ReadOrderly ==
  ASSUME Types, Orderly, ExecRead
  PROVE  Orderly'
  <1> USE DEF ui
  <1>1. /\ queue # <<>> /\ Head(queue).op = "read" /\ queue' = Tail(queue)
        /\ UNCHANGED <<table, screen, busy>> /\ currentUser' = FirstRow
    BY DEF ExecRead, Running
  <1>2. /\ Len(queue) \in Nat /\ Len(queue') = Len(queue) - 1 /\ 1 \in 1 .. Len(queue)
        /\ Head(queue) = queue[1] /\ queue[1] \in OpType
        /\ \A s \in Slots : calls[s] = NoCall
        /\ Shape'
    BY <1>1, Taken
  <1>3. loggedIn' <=> loggedIn \/ FirstRow.id # Null
    BY Zenon DEF ExecRead
  <1>4. Rows'
    BY <1>1 DEF Orderly, Rows
  <1>5. \/ UNCHANGED calls
        \/ /\ loggedIn' /\ Head(queue).from = "splash"
           /\ Call(Request("splash", FirstRow.id, FirstRow.password, Null))
    BY DEF ExecRead
  <1>6. CallsFit'
    <2>1. CASE UNCHANGED calls
      BY <1>1, <1>2, <2>1 DEF Orderly, CallsFit
    <2>2. CASE /\ loggedIn' /\ Head(queue).from = "splash"
               /\ Call(Request("splash", FirstRow.id, FirstRow.password, Null))
      <3>0. PICK c : c = Request("splash", FirstRow.id, FirstRow.password, Null) /\ Call(c)
        BY <2>2
      <3>1. PICK s \in Slots : calls' = [calls EXCEPT ![s] = c]
        BY <3>0 DEF Call
      <3>2. \A r \in Slots : calls'[r] = IF r = s THEN c ELSE NoCall
        BY <1>2, <3>1 DEF Types
      <3>3. queue[1] = ReadOp("splash")
        BY <1>1, <1>2, <2>2 DEF OpType, ReadOp
      <3>4. screen = "splash" /\ queue' = <<>>
        <4>1. screen = "splash" /\ Len(queue) = 1
          BY <1>2, <3>3 DEF Orderly, Shape
        <4>2. Len(queue') = 0 /\ queue' \in Seq(OpType)
          BY <1>1, <1>2, <4>1 DEF Types
        <4> QED BY <4>1, <4>2
      <3>5. CallFits(c)'
        BY <1>1, <2>2, <3>0, <3>4 DEF CallFits, Request
      <3>6. \A r, q \in Slots : calls'[r] # NoCall /\ calls'[q] # NoCall => r = q
        BY <3>2
      <3>7. \A r \in Slots : calls'[r] # NoCall => queue' = <<>> /\ CallFits(calls[r])'
        BY <3>2, <3>4, <3>5 DEF CallFits
      <3> QED BY <1>1, <3>6, <3>7 DEF Orderly, CallsFit
    <2> QED BY <1>5, <2>1, <2>2
  <1>row. ASSUME table # <<>>
          PROVE  \E k \in DOMAIN table : FirstRow = table[k] /\ FirstRow \in StoredUser
    BY <1>row, FirstRowIsRow DEF Types, Orderly, Rows
  <1>7. CASE loggedIn
    <2>1. table # <<>>
      BY <1>1, <1>2, <1>7 DEF Orderly, LoggedIn
    <2>2. FirstRow \in StoredUser /\ FirstRow.id = currentUser.id
      BY <1>7, <2>1, <1>row DEF Orderly, LoggedIn
    <2>3. LoggedIn'
      BY <1>1, <1>7, <2>1, <2>2, StillOwned DEF Orderly, LoggedIn
    <2> QED BY <1>2, <1>3, <1>4, <1>6, <1>7, <2>3 DEF Orderly, LoggedOut
  <1>8. CASE ~loggedIn /\ table = <<>>
    <2>1. FirstRow = NewUser /\ FirstRow.id = Null
      BY <1>8 DEF FirstRow, NewUser, User
    <2>2. LoggedOut'
      BY <1>1, <1>8, <2>1, StillLeaves DEF LoggedOut
    <2> QED BY <1>2, <1>3, <1>4, <1>6, <1>8, <2>1, <2>2 DEF Orderly, LoggedIn
  <1>9. CASE ~loggedIn /\ table # <<>>
    <2>1. screen = "splash" /\ queue = <<ReadOp("splash")>>
      BY <1>9 DEF Orderly, LoggedOut
    <2>2. FirstRow \in StoredUser /\ FirstRow.id # Null
      BY <1>9, <1>row, NullAssumption DEF StoredUser
    <2>3. \A k \in DOMAIN table : table[k].id = FirstRow.id
      BY <1>9, <1>row DEF Orderly, Rows
    <2>4. Len(queue') = 0
      BY <1>2, <2>1
    <2>5. LoggedIn'
      BY <1>1, <1>9, <2>1, <2>2, <2>3, <2>4 DEF LoggedIn
    <2> QED BY <1>2, <1>3, <1>4, <1>6, <2>2, <2>5 DEF Orderly, LoggedOut
  <1> QED BY <1>7, <1>8, <1>9

\* A write is one of the user who is logged in, of his rows.
LEMMA WriteOrderly ==
  ASSUME Types, Orderly, ExecInsert \/ ExecUpdate \/ ExecPassword
  PROVE  Orderly'
  <1> USE DEF memory, ui
  <1> DEFINE o == Head(queue)
  <1>1. /\ queue # <<>> /\ o.op \in Writes /\ queue' = Tail(queue)
        /\ UNCHANGED <<currentUser, loggedIn, screen, busy, calls>>
    BY DEF ExecInsert, ExecUpdate, ExecPassword, Running, Writes
  <1>2. /\ Len(queue) \in Nat /\ 1 \in 1 .. Len(queue) /\ o = queue[1] /\ o \in OpType
        /\ \A s \in Slots : calls[s] = NoCall
        /\ Shape'
    BY <1>1, Taken
  <1>3. CallsFit'
    BY <1>1, <1>2 DEF Orderly, CallsFit
  <1>4. loggedIn /\ Owned(o)
    <2>1. ~Leaves(o)
      BY <1>1 DEF Leaves, Writes, ReadOp
    <2>2. loggedIn
      BY <1>2, <2>1 DEF Orderly, LoggedOut
    <2> QED BY <1>2, <2>2 DEF Orderly, LoggedIn
  <1>5. o.op \in {"insert", "update"} => o.user \in StoredUser /\ o.user.id = currentUser.id
    BY <1>2, <1>4 DEF Orderly, Shape, Owned
  <1>6. /\ table \in [DOMAIN table -> StoredUser]
        /\ \A k \in DOMAIN table : table[k].id = currentUser.id
        /\ table = <<>> => o.op = "insert"
        /\ Bounded(table, AnyUser)
    BY <1>2, <1>4 DEF Orderly, Rows, LoggedIn, Types
  \* The rows written are stored users with the id of the one who is logged in.
  <1>7. /\ table' \in [DOMAIN table' -> StoredUser]
        /\ \A k \in DOMAIN table' : table'[k].id = currentUser.id
        /\ table' # <<>>
    <2>1. CASE ExecInsert
      <3>1. /\ o.op = "insert"
            /\ table' = [k \in DOMAIN table \cup {NewRow} |->
                           IF k = NewRow THEN o.user ELSE table[k]]
        BY <2>1 DEF ExecInsert, Running
      <3>2. o.user \in StoredUser /\ o.user.id = currentUser.id
        BY <1>5, <3>1
      <3>3. Bounded(table, StoredUser)
        BY <1>6 DEF Bounded
      <3>4. table' # <<>> /\ Bounded(table, StoredUser)'
        BY <3>1, <3>2, <3>3, OneRowMore
      <3>5. \A k \in DOMAIN table' :
              table'[k] = o.user \/ (k \in DOMAIN table /\ table'[k] = table[k])
        <4> HIDE DEF o
        <4> QED BY <3>1
      <3> QED BY <1>6, <3>2, <3>4, <3>5 DEF Bounded
    <2>2. CASE ExecUpdate
      <3>1. /\ o.op = "update"
            /\ table' = [k \in DOMAIN table |-> IF k \in RowsOf(o.user.id) THEN o.user ELSE table[k]]
        BY <2>2 DEF ExecUpdate, Running
      <3>2. o.user \in StoredUser /\ o.user.id = currentUser.id /\ table # <<>>
        BY <1>5, <1>6, <3>1
      <3>3. DOMAIN table' = DOMAIN table /\ DOMAIN table # {}
        BY <1>6, <3>1, <3>2, EmptyTable
      <3> QED BY <1>6, <3>1, <3>2, <3>3
    <2>3. CASE ExecPassword
      <3>1. /\ o.op = "password"
            /\ table' = [k \in DOMAIN table |-> IF k \in RowsOf(o.id)
                           THEN [table[k] EXCEPT !.password = o.password] ELSE table[k]]
        BY <2>3 DEF ExecPassword, Running
      <3>2. o.password \in Password /\ table # <<>>
        BY <1>2, <1>6, <3>1 DEF OpType
      <3>3. DOMAIN table' = DOMAIN table /\ DOMAIN table # {}
        BY <1>6, <3>1, <3>2, EmptyTable
      <3>4. \A k \in DOMAIN table : /\ [table[k] EXCEPT !.password = o.password] \in StoredUser
                                    /\ [table[k] EXCEPT !.password = o.password].id = table[k].id
        BY <1>6, <3>2 DEF StoredUser
      <3> QED BY <1>6, <3>1, <3>3, <3>4
    <2> QED BY <2>1, <2>2, <2>3
  <1>8. Rows'
    BY <1>7 DEF Rows
  <1>9. LoggedIn'
    <2>1. o.op # "delete"
      BY <1>1 DEF Writes
    <2>2. currentUser \in StoredUser
      BY <1>4 DEF Orderly, LoggedIn
    <2> QED BY <1>1, <1>4, <1>7, <2>1, <2>2, StillOwned DEF LoggedIn
  <1> QED BY <1>1, <1>2, <1>3, <1>4, <1>8, <1>9 DEF Orderly, LoggedOut

\* A delete leaves no row, and a guest.
LEMMA DeleteOrderly ==
  ASSUME Types, Orderly, ExecDelete
  PROVE  Orderly'
  <1> USE DEF ui
  <1> DEFINE o == Head(queue)
  <1>1. /\ queue # <<>> /\ o.op = "delete" /\ queue' = Tail(queue)
        /\ UNCHANGED <<screen, busy, calls>>
        /\ currentUser' = Null /\ loggedIn' = FALSE
        /\ table' = [k \in DOMAIN table \ RowsOf(o.id) |-> table[k]]
    BY DEF ExecDelete, Running, DeleteRows, Restrict
  <1>2. /\ Len(queue) \in Nat /\ 1 \in 1 .. Len(queue) /\ o = queue[1]
        /\ \A s \in Slots : calls[s] = NoCall
        /\ Shape'
    BY <1>1, Taken
  <1>3. CallsFit'
    BY <1>1, <1>2 DEF Orderly, CallsFit
  <1>4. DOMAIN table' = {}
    <2>1. CASE loggedIn
      BY <1>1, <1>2, <2>1 DEF Orderly, LoggedIn, Owned, RowsOf
    <2>2. CASE ~loggedIn
      <3>1. queue # <<ReadOp("splash")>>
        BY <1>1, <1>2 DEF ReadOp
      <3>2. table = <<>>
        BY <2>2, <3>1 DEF Orderly, LoggedOut
      <3> QED BY <1>1, <3>2
    <2> QED BY <2>1, <2>2
  <1>5. table' = <<>> /\ Rows'
    BY <1>1, <1>4 DEF Rows
  <1>6. LoggedOut'
    BY <1>1, <1>5, StillLeaves DEF LoggedOut
  <1> QED BY <1>1, <1>2, <1>3, <1>5, <1>6 DEF Orderly, LoggedIn

-----------------------------------------------------------------------------
(* The theorems.                                                             *)
IInv == Types /\ Flags /\ (orderly => Orderly)

LEMMA OrderlyStep ==
  ASSUME Types, Flags, orderly => Orderly, [Next]_vars
  PROVE  (orderly => Orderly)'
  <1> USE DEF memory, ui, past
  <1>1. orderly' => orderly
    <2>1. CASE Tap
      BY <2>1, Zenon DEF Tap, EnterApp, Relaunch, OpenLogin, LeaveLogin, LogOut, Back, LogIn,
                         SaveProfile, ResetPassword, Send, Retype
    <2>2. CASE Database
      BY <2>2, Zenon DEF Database, ExecRead, ExecInsert, ExecUpdate, ExecPassword, ExecDelete
    <2>3. CASE Server
      BY <2>3, Zenon DEF Server, Reply, Serve, Lose, SplashReply, LogInReply, ProfileReply,
                         ResetReply
    <2> QED BY <2>1, <2>2, <2>3, Zenon DEF Next, Kill, vars
  <1> SUFFICES ASSUME Orderly, orderly' PROVE Orderly'
    BY <1>1, Zenon
  <1>2. CASE UNCHANGED vars
    BY <1>2 DEF vars, Orderly, Rows, CallsFit, CallFits, Shape, LoggedIn, LoggedOut, Owned, Leaves
  <1>3. CASE Kill
    BY <1>3, KillOrderly
  <1>4. CASE Tap
    <2>1. ~Back /\ (\A s \in Slots, w \in Password : ~Retype(s, w))
      BY Zenon DEF Back, Retype
    <2> QED BY <1>4, <2>1, ScreenOrderly, RelaunchOrderly, LogOutOrderly, FormOrderly DEF Tap
  <1>5. CASE Database
    BY <1>5, ReadOrderly, WriteOrderly, DeleteOrderly DEF Database
  <1>6. CASE Server
    BY <1>6, ServerOrderly, ReplyOrderly DEF Server
  <1> QED BY <1>2, <1>3, <1>4, <1>5, <1>6 DEF Next

LEMMA SpecIInv == Spec => []IInv
  <1>1. Init => IInv
    BY TypesInit, FlagsInit, OrderlyInit DEF IInv
  <1>2. IInv /\ [Next]_vars => IInv'
    BY TypesStep, FlagsStep, OrderlyStep DEF IInv
  <1> QED BY <1>1, <1>2, PTL DEF Spec

\* Every variable has its type: what reaches the session and its table from
\* requests and handlers is a user, and in order a stored one has his password.
THEOREM TypesCorrect == Spec => []TypeOK
  <1>1. IInv => TypeOK
    <2> SUFFICES ASSUME IInv PROVE TypeOK
      OBVIOUS
    <2>1. IsTable(IF orderly THEN StoredUser ELSE AnyUser)
      <3>1. IsTable(AnyUser)
        BY BoundedIsTable DEF IInv, Types
      <3>2. orderly => IsTable(StoredUser)
        BY BoundedIsTable DEF IInv, Types, Bounded, Orderly, Rows
      <3> QED BY <3>1, <3>2
    <2> QED BY <2>1, Zenon DEF IInv, Types, Flags, TypeOK
  <1> QED BY <1>1, SpecIInv, PTL

\* A screen that is shown to a logged-in user finds a user, with id and password:
\* no order of taps, answers, database operations and restarts takes him away.
THEOREM UserIsThere == Spec => []LoggedInHasUser
  <1>1. IInv => LoggedInHasUser
    BY DEF IInv, LoggedInHasUser, Orderly, LoggedIn
  <1> QED BY <1>1, SpecIInv, PTL

\* The table holds rows of one account, and none after a logout: the next start
\* logs in the user who was there, or nobody.
THEOREM DiskIsHis == Spec => []DiskIsOfUser
  <1>1. IInv => DiskIsOfUser
    <2> SUFFICES ASSUME IInv, orderly
                 PROVE  /\ \A j, k \in DOMAIN table : table[j].id = table[k].id
                        /\ currentUser = Null /\ queue = <<>> => table = <<>>
      BY DEF DiskIsOfUser
    <2>1. Orderly
      BY DEF IInv
    <2>2. currentUser = Null => ~loggedIn
      BY <2>1, NullAssumption DEF Orderly, LoggedIn, StoredUser
    <2>3. queue = <<>> => queue # <<ReadOp("splash")>>
      OBVIOUS
    <2> QED BY <2>1, <2>2, <2>3 DEF Orderly, Rows, LoggedOut
  <1> QED BY <1>1, SpecIInv, PTL

-----------------------------------------------------------------------------
(* What the phone keeps of what the server knows, as long as the screens are *)
(* used in order, no request is lost and the app is not killed: the current  *)
(* user is the account as the server has it and the rows are copies of him,  *)
(* but while a change is on its way from the one to the other.               *)
Undisturbed == orderly /\ ~lost /\ kills = 0

Known(id) == User(id, account[id].profile, account[id].password)

First(op)  == queue # <<>> /\ queue[1].op = op
Rereading  == queue # <<>> /\ queue[1] = ReadOp("reset")

\* A new password has been written and is about to be read.
RowsKnown == Rereading => \A k \in DOMAIN table : table[k] = Known(currentUser.id)

RowsCurrent ==
  ~Rereading /\ ~First("update") => \A k \in DOMAIN table : table[k] = currentUser

WritesCurrent == First("insert") \/ First("update") => queue[1].user = currentUser

\* The password is the server's, the rest of the user already is.
WritesPassword ==
  First("password") =>
    /\ queue[1].id = currentUser.id /\ Len(queue) >= 2 /\ queue[2] = ReadOp("reset")
    /\ queue[1].password = account[currentUser.id].password
    /\ currentUser.profile = account[currentUser.id].profile

Current ==
  ~Rereading /\ ~First("password") /\ (\A s \in Slots : calls[s] = NoCall) =>
    currentUser = Known(currentUser.id)

\* An answer is what the account now is, and its request told the rest.
Yes(c) == c.answer \notin {"none", "refused", "lost"}
CallKnown(c) ==
  /\ c.answer # "lost"
  /\ c.kind = "splash" => c.password = currentUser.password
  /\ c.kind \in {"splash", "login"} /\ Yes(c) =>
       c.answer = account[c.id].profile /\ c.password = account[c.id].password
  /\ c.kind = "profile" /\ Yes(c) =>
       c.answer = account[c.id].profile /\ currentUser.password = account[c.id].password
  /\ c.kind = "reset" /\ Yes(c) =>
       c.new = account[c.id].password /\ currentUser.profile = account[c.id].profile
  /\ c.kind = "splash" \/ (c.kind \in {"profile", "reset"} /\ ~Yes(c)) =>
       currentUser = Known(currentUser.id)

Mirrored == RowsKnown /\ RowsCurrent /\ WritesCurrent /\ WritesPassword /\ Current

Kept == /\ loggedIn => Mirrored
        /\ ~loggedIn => table = <<>>
        /\ \A s \in Slots : calls[s] # NoCall => CallKnown(calls[s])

-----------------------------------------------------------------------------
LEMMA KeptInit == Init => Kept
<1>. SUFFICES ASSUME Init PROVE Kept
  OBVIOUS
<1>1. loggedIn = FALSE /\ table = <<>> /\ \A s \in Slots : calls[s] = NoCall
  BY DEF Init
<1>. QED BY <1>1 DEF Kept

LEMMA UndisturbedStays ==
  ASSUME Flags, [Next]_vars, Undisturbed'
  PROVE  Undisturbed /\ ~Kill /\ ~Back /\ \A s \in Slots : ~Lose(s)
<1>. USE DEF memory, ui, past
<1>1. orderly' => orderly
  <2>1. CASE Tap
    BY <2>1, Zenon DEF Tap, EnterApp, Relaunch, OpenLogin, LeaveLogin, LogOut, Back, LogIn,
                       SaveProfile, ResetPassword, Send, Retype
  <2>2. CASE Database
    BY <2>2, Zenon DEF Database, ExecRead, ExecInsert, ExecUpdate, ExecPassword, ExecDelete
  <2>3. CASE Server
    BY <2>3, Zenon DEF Server, Reply, Serve, Lose, SplashReply, LogInReply, ProfileReply,
                       ResetReply
  <2> QED BY <2>1, <2>2, <2>3, Zenon DEF Next, Kill, vars
<1>2. ~lost' => ~lost
  <2>1. CASE Tap
    BY <2>1, Zenon DEF Tap, EnterApp, Relaunch, OpenLogin, LeaveLogin, LogOut, Back, LogIn,
                       SaveProfile, ResetPassword, Send, Retype
  <2>2. CASE Database
    BY <2>2, Zenon DEF Database, ExecRead, ExecInsert, ExecUpdate, ExecPassword, ExecDelete
  <2>3. CASE Server
    BY <2>3, Zenon DEF Server, Reply, Serve, Lose, SplashReply, LogInReply, ProfileReply,
                       ResetReply
  <2> QED BY <2>1, <2>2, <2>3, Zenon DEF Next, Kill, vars
<1>3. kills' = kills \/ (kills' = kills + 1 /\ Kill)
  <2>1. CASE Tap
    BY <2>1 DEF Tap, EnterApp, Relaunch, OpenLogin, LeaveLogin, LogOut, Back, LogIn,
                SaveProfile, ResetPassword, Send, Retype
  <2>2. CASE Database
    BY <2>2 DEF Database, ExecRead, ExecInsert, ExecUpdate, ExecPassword, ExecDelete
  <2>3. CASE Server
    BY <2>3 DEF Server, Reply, Serve, Lose, SplashReply, LogInReply, ProfileReply, ResetReply
  <2> QED BY <2>1, <2>2, <2>3 DEF Next, Kill, vars
<1>4. kills \in Nat
  BY BoundAssumption DEF Flags
<1>5. kills = 0 /\ ~Kill
  <2>1. kills' = 0
    BY Zenon DEF Undisturbed
  <2>2. Kill => kills' = kills + 1
    BY DEF Kill
  <2>. QED BY <1>3, <1>4, <2>1, <2>2
<1>6. ~Back /\ \A s \in Slots : ~Lose(s)
  BY Zenon DEF Undisturbed, Back, Lose
<1>. QED BY <1>1, <1>2, <1>5, <1>6, Zenon DEF Undisturbed

\* Steps that only change the screen.
LEMMA ScreenKept ==
  ASSUME Kept, UNCHANGED <<currentUser, loggedIn, table, queue, calls, account>>
  PROVE  Kept'
BY DEF Kept, Mirrored, RowsKnown, RowsCurrent, WritesCurrent, WritesPassword, Current,
       CallKnown, Yes, Known, First, Rereading

\* An operation at the end that neither writes nor reads a new password again.
LEMMA AppendKept ==
  ASSUME Types, Kept, UNCHANGED <<currentUser, loggedIn, table, calls, account>>,
         NEW o, queue' = Append(queue, o), o # ReadOp("reset"), o.op \notin Writes
  PROVE  Kept'
<1>1. queue \in Seq(OpType)
  BY DEF Types
<1>2. queue' # <<>> /\ (queue = <<>> => queue'[1] = o)
  BY <1>1
<1>3. queue # <<>> => queue'[1] = queue[1]
  BY <1>1
<1>4. Len(queue) >= 2 => Len(queue') >= 2 /\ queue'[2] = queue[2]
  BY <1>1
<1>5. Rereading' <=> Rereading
  BY <1>2, <1>3 DEF Rereading
<1>6. \A op \in Writes : First(op)' <=> First(op)
  BY <1>2, <1>3 DEF First
<1>7. /\ First("insert")' <=> First("insert")
      /\ First("update")' <=> First("update")
      /\ First("password")' <=> First("password")
  BY <1>6 DEF Writes
<1>8. First("insert") \/ First("update") \/ First("password") => queue'[1] = queue[1]
  BY <1>3 DEF First
<1>9. loggedIn' => RowsKnown' /\ RowsCurrent'
  BY <1>5, <1>7 DEF Kept, Mirrored, RowsKnown, RowsCurrent, Known
<1>10. loggedIn' => WritesCurrent' /\ WritesPassword'
  BY <1>7, <1>8, <1>4 DEF Kept, Mirrored, WritesCurrent, WritesPassword
<1>11. loggedIn' => Current'
  BY <1>5, <1>7 DEF Kept, Mirrored, Current, Known
<1>12. \A s \in Slots : calls'[s] # NoCall => CallKnown(calls[s])'
  BY DEF Kept, CallKnown, Yes, Known
<1>. QED BY <1>9, <1>10, <1>11, <1>12 DEF Kept, Mirrored

\* A form is sent by a user who is as the server knows him, or by a guest.
LEMMA SendKept ==
  ASSUME Types, Orderly, Kept, orderly',
         NEW kind \in {"login", "profile", "reset"}, NEW id, NEW password, NEW new,
         Send(Request(kind, id, password, new)), kind = "login" \/ loggedIn, screen # "splash",
         UNCHANGED <<currentUser, loggedIn, table, queue, account>>
  PROVE  Kept'
<1> DEFINE c == Request(kind, id, password, new)
<1>1. queue = <<>> /\ ~busy
  BY DEF Send
<1>2. \A s \in Slots : calls[s] = NoCall
  BY <1>1, NothingInFlight
<1>3. PICK s \in Slots : calls' = [calls EXCEPT ![s] = c]
  BY DEF Send, Call
<1>4. \A r \in Slots : calls'[r] = IF r = s THEN c ELSE NoCall
  BY <1>2, <1>3 DEF Types
<1>5. c.answer = "none" /\ c.kind = kind
  BY DEF Request
<1>6. loggedIn => currentUser = Known(currentUser.id)
  BY <1>1, <1>2 DEF Kept, Mirrored, Current, Rereading, First
<1> HIDE DEF c
<1>7. CallKnown(c)'
  BY <1>5, <1>6 DEF CallKnown, Yes, Known
<1>8. \A r \in Slots : calls'[r] # NoCall => CallKnown(calls[r])'
  BY <1>4, <1>7 DEF CallKnown, Yes, Known
<1>9. loggedIn' => RowsKnown' /\ RowsCurrent' /\ WritesCurrent' /\ WritesPassword'
  BY DEF Kept, Mirrored, RowsKnown, RowsCurrent, WritesCurrent, WritesPassword, Known, First,
         Rereading
<1>10. loggedIn' => Current'
  BY <1>6 DEF Current, Known
<1>. QED BY <1>8, <1>9, <1>10 DEF Kept, Mirrored

LEMMA TapKept ==
  ASSUME Types, Orderly, Kept, orderly', Tap, ~Back
  PROVE  Kept'
<1>. USE DEF memory
<1>1. CASE EnterApp \/ OpenLogin \/ LeaveLogin
  BY <1>1, ScreenKept DEF EnterApp, OpenLogin, LeaveLogin
<1>2. CASE Relaunch
  <2>1. ReadOp("splash") # ReadOp("reset") /\ ReadOp("splash").op \notin Writes
    BY DEF ReadOp, Writes
  <2>. QED BY <1>2, <2>1, AppendKept DEF Relaunch
<1>3. CASE LogOut
  <2> DEFINE o == DeleteOp(currentUser.id)
  <2>1. o # ReadOp("reset") /\ o.op \notin Writes
    BY DEF ReadOp, DeleteOp, Writes
  <2>2. queue' = Append(queue, o) /\ UNCHANGED <<currentUser, loggedIn, table, calls, account>>
    BY <1>3 DEF LogOut
  <2> HIDE DEF o
  <2>. QED BY <2>1, <2>2, AppendKept
<1>4. ASSUME NEW u \in Account, NEW w \in Password, LogIn(u, w) PROVE Kept'
  BY <1>4, SendKept DEF LogIn
<1>5. ASSUME NEW p \in Profile, SaveProfile(p) PROVE Kept'
  BY <1>5, SendKept DEF SaveProfile
<1>6. ASSUME NEW old \in Password, NEW new \in Password, ResetPassword(old, new) PROVE Kept'
  BY <1>6, SendKept DEF ResetPassword
<1>7. \A s \in Slots, w \in Password : ~Retype(s, w)
  BY Zenon DEF Retype
<1>. QED BY <1>1, <1>2, <1>3, <1>4, <1>5, <1>6, <1>7 DEF Tap

-----------------------------------------------------------------------------
\* After an answer nothing is in flight.
LEMMA AnsweredKept ==
  ASSUME Types, Orderly, Kept, NEW s \in Slots, NEW kind, Answered(s, kind), kind # "none"
  PROVE  /\ queue = <<>> /\ CallFits(calls[s]) /\ CallKnown(calls[s]) /\ calls[s].kind = kind
         /\ calls[s].answer # "none" /\ \A r \in Slots : calls'[r] = NoCall
<1>1. calls[s] # NoCall /\ calls[s].kind = kind /\ calls' = [calls EXCEPT ![s] = NoCall]
      /\ calls[s].answer # "none"
  BY DEF Answered, NoCall
<1>2. \A r \in Slots : calls'[r] = NoCall
  BY <1>1 DEF Types, Orderly, CallsFit
<1>. QED BY <1>1, <1>2 DEF Orderly, CallsFit, Kept

\* The answer has changed neither user nor database, and the user is known.
LEMMA UnusedKept ==
  ASSUME Kept, queue = <<>>, \A r \in Slots : calls'[r] = NoCall,
         UNCHANGED <<currentUser, loggedIn, table, queue, account>>,
         loggedIn => currentUser = Known(currentUser.id)
  PROVE  Kept'
<1>1. loggedIn' => RowsKnown' /\ RowsCurrent' /\ WritesCurrent' /\ WritesPassword'
  BY DEF Kept, Mirrored, RowsKnown, RowsCurrent, WritesCurrent, WritesPassword, Known, First,
         Rereading
<1>2. loggedIn' => Current'
  BY DEF Current, Known
<1>. QED BY <1>1, <1>2 DEF Kept, Mirrored

\* The answer gives the user as the server knows him, and he is written first.
LEMMA WrittenKept ==
  ASSUME NEW user, currentUser' = user, loggedIn' = TRUE, UNCHANGED <<table, account>>,
         user = Known(user.id), \A r \in Slots : calls'[r] = NoCall,
         NEW first, queue' # <<>>, queue'[1] = first, first.user = user,
         \/ first.op = "insert" /\ \A k \in DOMAIN table : table[k] = user
         \/ first.op = "update"
  PROVE  Kept'
<1>1. first # ReadOp("reset") /\ first.op # "password"
  BY DEF ReadOp
<1>2. ~Rereading' /\ ~First("password")'
  BY <1>1 DEF Rereading, First
<1>3. RowsKnown' /\ RowsCurrent'
  BY <1>2 DEF RowsKnown, RowsCurrent, First
<1>4. WritesCurrent' /\ WritesPassword'
  BY <1>2 DEF WritesCurrent, WritesPassword
<1>5. Current'
  BY DEF Current, Known
<1>. QED BY <1>3, <1>4, <1>5 DEF Kept, Mirrored

LEMMA ReplyKept ==
  ASSUME Types, Orderly, Kept, NEW s \in Slots, Reply(s)
  PROVE  Kept'
<1> USE DEF memory
<1> DEFINE c == calls[s]
           user == User(c.id, c.answer, c.password)
<1>. Granted(s) <=> Yes(c)
  BY DEF Granted, Yes
<1>1. CASE SplashReply(s)
  <2>1. Answered(s, "splash") /\ UNCHANGED <<table, account>>
    BY <1>1 DEF SplashReply
  <2>2. /\ queue = <<>> /\ CallFits(c) /\ CallKnown(c) /\ c.kind = "splash"
        /\ \A r \in Slots : calls'[r] = NoCall
    BY <2>1, AnsweredKept
  <2>3. loggedIn /\ c.id = currentUser.id /\ currentUser = Known(currentUser.id)
    BY <2>2 DEF CallFits, CallKnown
  <2>4. CASE Granted(s)
    <3>1. user = currentUser
      BY <2>2, <2>3, <2>4 DEF CallKnown, Known
    <3>2. currentUser' = user /\ loggedIn' = TRUE /\ queue' = <<InsertOp(user)>>
      BY <1>1, <2>2, <2>4 DEF SplashReply, SetUserData
    <3>3. \A k \in DOMAIN table : table[k] = currentUser
      BY <2>2, <2>3 DEF Kept, Mirrored, RowsCurrent, Rereading, First
    <3>4. InsertOp(user).op = "insert" /\ InsertOp(user).user = user
      BY DEF InsertOp
    <3>5. queue' # <<>> /\ queue'[1] = InsertOp(user)
      BY <3>2
    <3>6. user = Known(user.id) /\ \A k \in DOMAIN table : table[k] = user
      BY <2>3, <3>1, <3>3
    <3> HIDE DEF user
    <3>. QED BY <2>1, <2>2, <3>2, <3>4, <3>5, <3>6, WrittenKept
  <2>5. CASE ~Granted(s)
    BY <1>1, <2>1, <2>2, <2>3, <2>5, UnusedKept DEF SplashReply
  <2>. QED BY <2>4, <2>5
<1>2. CASE LogInReply(s)
  <2> DEFINE his == User(c.id, c.answer, c.field)
  <2>1. Answered(s, "login") /\ UNCHANGED <<table, account>>
    BY <1>2 DEF LogInReply
  <2>2. /\ queue = <<>> /\ CallFits(c) /\ CallKnown(c) /\ c.kind = "login"
        /\ \A r \in Slots : calls'[r] = NoCall
    BY <2>1, AnsweredKept
  <2>3. ~loggedIn /\ table = <<>> /\ c.field = c.password
    BY <2>2 DEF CallFits
  <2>4. CASE Granted(s)
    <3>1. his = Known(c.id) /\ his.id = c.id
      BY <2>2, <2>3, <2>4 DEF CallKnown, Known, User
    <3>2. /\ currentUser' = his /\ loggedIn' = TRUE
          /\ queue' = queue \o <<InsertOp(his)>> \o <<ReadOp("login")>>
      BY <1>2, <2>4 DEF LogInReply, SetUserData
    <3>3. queue' # <<>> /\ queue'[1] = InsertOp(his)
      <4> DEFINE i == InsertOp(his)
                 r == ReadOp("login")
      <4>1. queue' = (queue \o <<i>>) \o <<r>>
        BY <3>2
      <4> HIDE DEF i, r
      <4>2. queue \o <<i>> = <<i>>
        BY <2>2
      <4>3. queue' = <<i, r>>
        BY <4>1, <4>2, TwoOperations
      <4> QED BY <4>3 DEF i
    <3>4. InsertOp(his).op = "insert" /\ InsertOp(his).user = his
      BY DEF InsertOp
    <3>5. \A k \in DOMAIN table : table[k] = his
      BY <2>3
    <3> HIDE DEF his
    <3>. QED BY <2>1, <2>2, <3>1, <3>2, <3>3, <3>4, <3>5, WrittenKept
  <2>5. CASE ~Granted(s)
    BY <1>2, <2>1, <2>2, <2>3, <2>5, UnusedKept DEF LogInReply
  <2>. QED BY <2>4, <2>5
<1>3. CASE ProfileReply(s)
  <2>1. Answered(s, "profile") /\ UNCHANGED <<table, account>>
    BY <1>3 DEF ProfileReply
  <2>2. /\ queue = <<>> /\ CallFits(c) /\ CallKnown(c) /\ c.kind = "profile"
        /\ \A r \in Slots : calls'[r] = NoCall
    BY <2>1, AnsweredKept
  <2>3. loggedIn /\ c.id = currentUser.id
    BY <2>2 DEF CallFits
  <2>4. CASE Granted(s)
    <3> DEFINE new == User(c.id, c.answer, currentUser.password)
    <3>1. new = Known(c.id) /\ new.id = c.id
      BY <2>2, <2>3, <2>4 DEF CallKnown, Known, User
    <3>2. currentUser # Null
      BY <2>3, NullAssumption DEF Orderly, LoggedIn, StoredUser
    <3>3. /\ currentUser' = new /\ loggedIn' = TRUE
          /\ queue' = Append(queue, UpdateOp(new))
      BY <1>3, <2>4, <3>2 DEF ProfileReply
    <3>4. UpdateOp(new).op = "update" /\ UpdateOp(new).user = new
      BY DEF UpdateOp
    <3>5. queue' # <<>> /\ queue'[1] = UpdateOp(new)
      BY <2>2, <3>3
    <3> HIDE DEF new
    <3>. QED BY <2>1, <2>2, <3>1, <3>3, <3>4, <3>5, WrittenKept
  <2>5. CASE ~Granted(s)
    <3>1. currentUser = Known(currentUser.id)
      BY <2>2, <2>5 DEF CallKnown
    <3>. QED BY <1>3, <2>1, <2>2, <2>5, <3>1, UnusedKept DEF ProfileReply
  <2>. QED BY <2>4, <2>5
<1>4. CASE ResetReply(s)
  <2>1. Answered(s, "reset") /\ UNCHANGED <<currentUser, loggedIn, table, account>>
    BY <1>4 DEF ResetReply
  <2>2. /\ queue = <<>> /\ CallFits(c) /\ CallKnown(c) /\ c.kind = "reset"
        /\ \A r \in Slots : calls'[r] = NoCall
    BY <2>1, AnsweredKept
  <2>3. loggedIn /\ c.id = currentUser.id /\ c.field = c.new
    BY <2>2 DEF CallFits
  <2>4. CASE Granted(s)
    <3> DEFINE o == PasswordOp(currentUser.id, c.field)
               r == ReadOp("reset")
    <3>1. currentUser # Null
      BY <2>3, NullAssumption DEF Orderly, LoggedIn, StoredUser
    <3>2. queue' = <<o, r>>
      BY <1>4, <2>2, <2>4, <3>1 DEF ResetReply, StorePassword
    <3>3. o.op = "password" /\ o.id = currentUser.id /\ o.password = c.new /\ o # r
      BY <2>3 DEF PasswordOp, ReadOp
    <3>4. /\ c.new = account[currentUser.id].password
          /\ currentUser.profile = account[currentUser.id].profile
      BY <2>2, <2>3, <2>4 DEF CallKnown
    <3>5. \A k \in DOMAIN table : table[k] = currentUser
      BY <2>2, <2>3 DEF Kept, Mirrored, RowsCurrent, Rereading, First
    <3> HIDE DEF o
    <3>6. queue' # <<>> /\ Len(queue') = 2 /\ queue'[1] = o /\ queue'[2] = ReadOp("reset")
      BY <3>2
    <3>7. ~Rereading' /\ First("password")'
      BY <3>3, <3>6 DEF Rereading, First
    <3>8. RowsKnown' /\ RowsCurrent' /\ Current'
      BY <2>1, <3>5, <3>7 DEF RowsKnown, RowsCurrent, Current
    <3>9. WritesCurrent'
      BY <3>3, <3>6 DEF WritesCurrent, First
    <3>10. WritesPassword'
      BY <2>1, <3>3, <3>4, <3>6 DEF WritesPassword
    <3>. QED BY <2>1, <2>2, <2>3, <3>8, <3>9, <3>10 DEF Kept, Mirrored
  <2>5. CASE ~Granted(s)
    <3>1. currentUser = Known(currentUser.id)
      BY <2>2, <2>5 DEF CallKnown
    <3>. QED BY <1>4, <2>1, <2>2, <2>5, <3>1, UnusedKept DEF ResetReply
  <2>. QED BY <2>4, <2>5
<1>. QED BY <1>1, <1>2, <1>3, <1>4 DEF Reply

\* The server acts on the one request in flight.
LEMMA ServeKept ==
  ASSUME Types, Orderly, Kept, NEW s \in Slots, Serve(s)
  PROVE  Kept'
<1> DEFINE c == calls[s]
           me == currentUser.id
<1>1. /\ UNCHANGED <<currentUser, loggedIn, table, queue>>
      /\ c # NoCall /\ c.answer = "none"
  BY DEF Serve, memory
<1>2. queue = <<>> /\ CallFits(c) /\ CallKnown(c) /\ CallOK(c)
      /\ \A r \in Slots : r # s => calls[r] = NoCall
  BY <1>1 DEF Orderly, CallsFit, Kept, Types, CallsOK
<1>3. c.kind \in {"splash", "login", "profile", "reset"}
  BY <1>1, CallFields
<1>4. c.kind # "login" => loggedIn /\ c.id = me /\ currentUser = Known(me)
  BY <1>1, <1>2, <1>3 DEF CallFits, CallKnown, Yes
<1>5. c.kind # "login" => me \in Account
  BY <1>4 DEF Orderly, LoggedIn, StoredUser
\* The request with its answer.
<1>6. PICK d : d = calls'[s]
  OBVIOUS
<1>a. \E a : calls' = [calls EXCEPT ![s].answer = a]
  BY DEF Serve
<1>b. /\ \A r \in Slots : calls'[r] = IF r = s THEN d ELSE NoCall
      /\ d # NoCall /\ d.kind = c.kind /\ d.id = c.id
      /\ d.password = c.password /\ d.new = c.new
  <2>1. PICK a : calls' = [calls EXCEPT ![s].answer = a]
    BY <1>a
  <2>2. d = [c EXCEPT !.answer = a]
    BY <1>6, <2>1 DEF Types
  <2>3. d # NoCall /\ d.kind = c.kind /\ d.id = c.id /\ d.password = c.password /\ d.new = c.new
    BY <1>1, <2>2, CallFields DEF NoCall
  <2>4. \A r \in Slots : r # s => calls'[r] = NoCall
    BY <1>2, <2>1 DEF Types
  <2>. QED BY <1>6, <2>3, <2>4
<1>c. DOMAIN c = {"kind", "id", "password", "new", "field", "answer"} /\ calls \in [Slots -> CallType]
  BY <1>1, CallFields DEF Types
<1>7. SUFFICES CallKnown(d)'
  <2>. SUFFICES ASSUME CallKnown(d)' PROVE Kept'
    OBVIOUS
  <2>1. \A r \in Slots : calls'[r] # NoCall => CallKnown(calls[r])'
    BY <1>b DEF CallKnown, Yes, Known
  <2>2. loggedIn' => RowsKnown' /\ RowsCurrent' /\ WritesCurrent' /\ WritesPassword' /\ Current'
    BY <1>1, <1>2, <1>b DEF Kept, Mirrored, RowsKnown, RowsCurrent, WritesCurrent,
         WritesPassword, Current, First, Rereading
  <2>. QED BY <1>1, <2>1, <2>2 DEF Kept, Mirrored
<1>8. CASE c.kind \in {"splash", "login"}
  <2> DEFINE right == c.id \in Account /\ account[c.id].password = c.password
             a == IF right THEN account[c.id].profile ELSE "refused"
  <2>1. calls' = [calls EXCEPT ![s].answer = a] /\ UNCHANGED account
    BY <1>8 DEF Serve
  <2>2. right => account[c.id].profile \in Profile
    BY DEF Types
  <2>3. a # "lost" /\ (a \notin {"none", "refused", "lost"} =>
          a = account[c.id].profile /\ c.password = account[c.id].password)
    BY <2>2, AnswerAssumption
  <2> HIDE DEF a
  <2>4. d.answer = a
    BY <1>6, <1>c, <2>1
  <2>. QED BY <1>b, <1>1, <1>2, <1>4, <1>8, <2>1, <2>3, <2>4 DEF CallKnown, Yes, Known
<1>9. CASE c.kind = "profile"
  <2>1. /\ account' = [account EXCEPT ![c.id].profile = c.new]
        /\ calls' = [calls EXCEPT ![s].answer = c.new]
    BY <1>9 DEF Serve
  <2>2. c.new \in Profile /\ c.new \notin {"none", "refused", "lost"}
    BY <1>2, <1>9, AnswerAssumption DEF CallOK
  <2>3. account'[c.id].profile = c.new /\ account'[c.id].password = account[c.id].password
    BY <1>4, <1>5, <1>9, <2>1 DEF Types
  <2>4. currentUser.password = account[c.id].password
    BY <1>4, <1>9 DEF Known, User
  <2>5. d.answer = c.new
    BY <1>6, <1>c, <2>1
  <2>. QED BY <1>b, <1>1, <1>9, <2>2, <2>3, <2>4, <2>5 DEF CallKnown, Yes
<1>10. CASE c.kind = "reset"
  <2> DEFINE right == c.id \in Account /\ account[c.id].password = c.password
  <2>1. CASE right
    <3>1. /\ account' = [account EXCEPT ![c.id].password = c.new]
          /\ calls' = [calls EXCEPT ![s].answer = account[c.id].profile]
      BY <1>10, <2>1 DEF Serve
    <3>2. account[c.id].profile \in Profile
      BY <2>1 DEF Types
    <3>3. account[c.id].profile \notin {"none", "refused", "lost"}
      BY <3>2, AnswerAssumption
    <3>4. account'[c.id].password = c.new /\ account'[c.id].profile = account[c.id].profile
      BY <1>4, <1>5, <1>10, <3>1 DEF Types
    <3>5. currentUser.profile = account[c.id].profile
      BY <1>4, <1>10 DEF Known, User
    <3>6. d.answer = account[c.id].profile
      BY <1>6, <1>c, <3>1
    <3>. QED BY <1>b, <1>1, <1>10, <3>3, <3>4, <3>5, <3>6 DEF CallKnown, Yes
  <2>2. CASE ~right
    <3>1. UNCHANGED account /\ calls' = [calls EXCEPT ![s].answer = "refused"]
      BY <1>10, <2>2 DEF Serve
    <3>2. d.answer = "refused"
      BY <1>6, <1>c, <3>1
    <3>. QED BY <1>b, <1>1, <1>4, <1>10, <3>1, <3>2 DEF CallKnown, Yes, Known
  <2>. QED BY <2>1, <2>2
<1>. QED BY <1>3, <1>8, <1>9, <1>10

-----------------------------------------------------------------------------
(* The database.                                                             *)
\* The oldest operation, and the one that is the oldest then.
LEMMA TakenKept ==
  ASSUME Types, Orderly, Kept, queue # <<>>, queue' = Tail(queue), UNCHANGED screen
  PROVE  /\ Head(queue) = queue[1] /\ queue[1] \in OpType
         /\ \A op \in Writes : ~First(op)'
         /\ Len(queue) >= 2 => queue' # <<>> /\ queue'[1] = queue[2]
         /\ \A s \in Slots : calls[s] = NoCall
<1>1. /\ Len(queue) \in Nat /\ Len(queue') = Len(queue) - 1
      /\ Head(queue) = queue[1] /\ queue[1] \in OpType
      /\ \A k \in 1 .. Len(queue') : queue'[k] = queue[k + 1] /\ k + 1 \in 1 .. Len(queue)
      /\ \A s \in Slots : calls[s] = NoCall
  BY Taken
<1>2. queue' \in Seq(OpType)
  BY DEF Types
<1>3. queue' # <<>> => queue'[1] = queue[2] /\ 2 \in 1 .. Len(queue)
  BY <1>1, <1>2
<1>4. \A op \in Writes : ~First(op)'
  BY <1>3 DEF First, Orderly, Shape
<1>5. Len(queue) >= 2 => queue' # <<>>
  BY <1>1
<1>. QED BY <1>1, <1>3, <1>4, <1>5

\* After it has run, the rows are copies of the user, who is as the server knows him.
LEMMA CopiesKept ==
  ASSUME Kept, \A op \in Writes : ~First(op)', UNCHANGED account, loggedIn',
         (currentUser = Known(currentUser.id))',
         \A k \in DOMAIN table' : table'[k] = currentUser',
         \A s \in Slots : calls'[s] # NoCall => CallKnown(calls[s])'
  PROVE  Kept'
<1>1. ~First("insert")' /\ ~First("update")' /\ ~First("password")'
  BY DEF Writes
<1>2. RowsKnown' /\ RowsCurrent' /\ Current'
  BY DEF RowsKnown, RowsCurrent, Current, Known
<1>3. WritesCurrent' /\ WritesPassword'
  BY <1>1 DEF WritesCurrent, WritesPassword
<1>. QED BY <1>2, <1>3 DEF Kept, Mirrored

LEMMA ReadKept ==
  ASSUME Types, Orderly, Orderly', Kept, ExecRead
  PROVE  Kept'
<1>1. /\ queue # <<>> /\ Head(queue).op = "read" /\ queue' = Tail(queue)
      /\ UNCHANGED <<table, screen, account>> /\ currentUser' = FirstRow
  BY DEF ExecRead, Running, ui
<1>2. /\ queue[1].op = "read" /\ \A op \in Writes : ~First(op)'
      /\ \A s \in Slots : calls[s] = NoCall
  BY <1>1, TakenKept
<1>3. loggedIn' <=> loggedIn \/ FirstRow.id # Null
  BY Zenon DEF ExecRead
<1>4. \/ UNCHANGED calls
      \/ Call(Request("splash", FirstRow.id, FirstRow.password, Null))
  BY DEF ExecRead
<1>5. CASE loggedIn
  <2>1. table # <<>>
    <3>1. Len(queue) \in Nat /\ 1 \in 1 .. Len(queue)
      BY <1>1, Taken
    <3>. QED BY <1>2, <1>5 DEF Orderly, LoggedIn
  <2>2. PICK k \in DOMAIN table : FirstRow = table[k]
    BY <2>1, FirstRowIsRow DEF Types
  <2>3. Rereading => \A j \in DOMAIN table : table[j] = Known(currentUser.id)
    BY <1>5 DEF Kept, Mirrored, RowsKnown
  <2>4. ~Rereading => /\ \A j \in DOMAIN table : table[j] = currentUser
                      /\ currentUser = Known(currentUser.id)
    BY <1>2, <1>5 DEF Kept, Mirrored, RowsCurrent, Current, First
  <2>5. /\ currentUser' = Known(currentUser.id) /\ currentUser'.id = currentUser.id
        /\ \A j \in DOMAIN table : table[j] = currentUser'
    <3>1. Known(currentUser.id).id = currentUser.id
      BY DEF Known, User
    <3>2. CASE Rereading
      BY <1>1, <2>2, <2>3, <3>1, <3>2
    <3>3. CASE ~Rereading
      BY <1>1, <2>2, <2>4, <3>3
    <3>. QED BY <3>2, <3>3
  <2>6. (currentUser = Known(currentUser.id))'
    BY <1>1, <2>5 DEF Known
  <2>7. ASSUME NEW s \in Slots, calls'[s] # NoCall PROVE CallKnown(calls[s])'
    <3>1. PICK c : c = Request("splash", FirstRow.id, FirstRow.password, Null)
      OBVIOUS
    <3>2. calls'[s] = c
      BY <1>2, <1>4, <2>7, <3>1 DEF Call, Types
    <3>3. c.answer = "none" /\ c.kind = "splash" /\ c.password = currentUser'.password
      BY <1>1, <3>1 DEF Request
    <3>. QED BY <2>6, <3>2, <3>3 DEF CallKnown, Yes
  <2>8. (\A op \in Writes : ~First(op)') /\ \A j \in DOMAIN table' : table'[j] = currentUser'
    BY <1>1, <1>2, <2>5
  <2>. QED BY <1>1, <1>3, <1>5, <2>5, <2>6, <2>7, <2>8, CopiesKept DEF Known
<1>6. CASE ~loggedIn
  <2>1. table = <<>> /\ FirstRow = NewUser /\ FirstRow.id = Null
    BY <1>6 DEF Kept, FirstRow, NewUser, User
  <2>2. ~loggedIn' /\ table' = <<>>
    BY <1>1, <1>3, <1>6, <2>1
  <2>3. UNCHANGED calls
    BY <2>2, Zenon DEF ExecRead
  <2>. QED BY <1>2, <2>2, <2>3 DEF Kept
<1>. QED BY <1>5, <1>6

LEMMA WriteKept ==
  ASSUME Types, Orderly, Kept, ExecInsert \/ ExecUpdate \/ ExecPassword
  PROVE  Kept'
<1> DEFINE o == Head(queue)
           me == currentUser.id
<1>1. /\ queue # <<>> /\ o.op \in Writes /\ queue' = Tail(queue)
      /\ UNCHANGED <<currentUser, loggedIn, screen, calls, account>>
  BY DEF ExecInsert, ExecUpdate, ExecPassword, Running, Writes, memory, ui
<1>2. /\ o = queue[1] /\ \A op \in Writes : ~First(op)'
      /\ \A s \in Slots : calls[s] = NoCall
      /\ Len(queue) >= 2 => queue' # <<>> /\ queue'[1] = queue[2]
  BY <1>1, TakenKept
<1>3. loggedIn
  <2>1. ~Leaves(o) /\ 1 \in 1 .. Len(queue)
    BY <1>1, Taken DEF Leaves, Writes, ReadOp
  <2>. QED BY <1>2, <2>1 DEF Orderly, LoggedOut
<1>4. Mirrored /\ loggedIn' /\ ~Rereading
  BY <1>1, <1>2, <1>3 DEF Kept, Rereading, ReadOp, Writes
<1>5. \A k \in DOMAIN table : table[k].id = me
  BY <1>3 DEF Orderly, LoggedIn
\* A user written over his rows.
<1>6. ASSUME o.op \in {"insert", "update"}, \A k \in DOMAIN table' : table'[k] = o.user
      PROVE  Kept'
  <2>1. o.user = currentUser
    BY <1>1, <1>2, <1>4, <1>6 DEF Mirrored, WritesCurrent, First
  <2>2. currentUser = Known(me)
    BY <1>2, <1>4, <1>6 DEF Mirrored, Current, First
  <2>3. (currentUser = Known(currentUser.id))'
    BY <1>1, <2>2 DEF Known
  <2>4. \A k \in DOMAIN table' : table'[k] = currentUser'
    BY <1>1, <1>6, <2>1
  <2>5. \A s \in Slots : calls'[s] = NoCall
    BY <1>1, <1>2
  <2>. QED BY <1>1, <1>2, <1>4, <2>3, <2>4, <2>5, CopiesKept
<1>7. CASE ExecInsert
  <2>1. /\ o.op = "insert"
        /\ table' = [k \in DOMAIN table \cup {NewRow} |->
                       IF k = NewRow THEN o.user ELSE table[k]]
    BY <1>7 DEF ExecInsert, Running
  <2>2. o.user = currentUser
    BY <1>1, <1>2, <1>4, <2>1 DEF Mirrored, WritesCurrent, First
  <2>3. \A k \in DOMAIN table : table[k] = currentUser
    BY <1>2, <1>4, <2>1 DEF Mirrored, RowsCurrent, First
  <2>4. \A k \in DOMAIN table' : table'[k] = o.user
    BY <2>1, <2>2, <2>3
  <2>. QED BY <1>6, <2>1, <2>4
<1>8. CASE ExecUpdate
  <2>1. /\ o.op = "update"
        /\ table' = [k \in DOMAIN table |-> IF k \in RowsOf(o.user.id) THEN o.user ELSE table[k]]
    BY <1>8 DEF ExecUpdate, Running
  <2>2. o.user = currentUser
    BY <1>1, <1>2, <1>4, <2>1 DEF Mirrored, WritesCurrent, First
  <2>3. \A k \in DOMAIN table' : table'[k] = o.user
    BY <1>5, <2>1, <2>2 DEF RowsOf
  <2>. QED BY <1>6, <2>1, <2>3
<1>9. CASE ExecPassword
  <2>1. /\ o.op = "password"
        /\ table' = [k \in DOMAIN table |-> IF k \in RowsOf(o.id)
                       THEN [table[k] EXCEPT !.password = o.password] ELSE table[k]]
    BY <1>9 DEF ExecPassword, Running
  <2>2. /\ o.id = me /\ Len(queue) >= 2 /\ queue[2] = ReadOp("reset")
        /\ o.password = account[me].password /\ currentUser.profile = account[me].profile
    BY <1>1, <1>2, <1>4, <2>1 DEF Mirrored, WritesPassword, First
  <2>3. \A k \in DOMAIN table : table[k] = currentUser
    BY <1>2, <1>4, <2>1 DEF Mirrored, RowsCurrent, First
  <2>4. [currentUser EXCEPT !.password = o.password] = Known(me)
    <3>1. currentUser \in StoredUser
      BY <1>3 DEF Orderly, LoggedIn
    <3>. QED BY <2>2, <3>1 DEF Known, User, StoredUser
  <2> HIDE DEF o
  <2>5. \A k \in DOMAIN table' : table'[k] = Known(me)
    BY <1>5, <2>1, <2>2, <2>3, <2>4 DEF RowsOf
  <2>6. Rereading' /\ ~First("insert")' /\ ~First("update")' /\ ~First("password")'
    BY <1>2, <2>2 DEF Rereading, Writes
  <2>7. RowsKnown'
    BY <1>1, <2>5 DEF RowsKnown, Known
  <2>8. RowsCurrent' /\ WritesCurrent' /\ WritesPassword' /\ Current'
    BY <2>6 DEF RowsCurrent, WritesCurrent, WritesPassword, Current
  <2>. QED BY <1>1, <1>2, <1>4, <2>7, <2>8 DEF Kept, Mirrored
<1>. QED BY <1>7, <1>8, <1>9

LEMMA DeleteKept ==
  ASSUME Types, Orderly, Kept, ExecDelete
  PROVE  Kept'
<1> DEFINE o == Head(queue)
<1>1. /\ queue # <<>> /\ o.op = "delete" /\ queue' = Tail(queue)
      /\ UNCHANGED <<screen, calls>> /\ loggedIn' = FALSE
      /\ table' = [k \in DOMAIN table \ RowsOf(o.id) |-> table[k]]
  BY DEF ExecDelete, Running, DeleteRows, Restrict, ui
<1>2. 1 \in 1 .. Len(queue) /\ o = queue[1] /\ \A s \in Slots : calls[s] = NoCall
  BY <1>1, Taken
<1>3. DOMAIN table' = {}
  <2>1. CASE loggedIn
    BY <1>1, <1>2, <2>1 DEF Orderly, LoggedIn, Owned, RowsOf
  <2>2. CASE ~loggedIn
    BY <1>1, <2>2 DEF Kept
  <2> QED BY <2>1, <2>2
<1>4. table' = <<>>
  BY <1>1, <1>3
<1>. QED BY <1>1, <1>2, <1>4 DEF Kept

-----------------------------------------------------------------------------
\* As long as the screens are used in order, nothing is lost and the app lives,
\* the rows on disk, the writes waiting and the answers on their way are what the
\* server knows of the user.
THEOREM SpecKept == Spec => [](Undisturbed => Kept)
<1>1. Init => Kept
  BY KeptInit
<1>2. IInv /\ (Undisturbed => Kept) /\ [Next]_vars /\ IInv' => (Undisturbed => Kept)'
  <2> SUFFICES ASSUME IInv, Undisturbed => Kept, [Next]_vars, IInv', Undisturbed' PROVE Kept'
    BY Zenon
  <2>1. Undisturbed /\ ~Kill /\ ~Back /\ \A s \in Slots : ~Lose(s)
    BY UndisturbedStays DEF IInv
  <2>2. Types /\ Orderly /\ Orderly' /\ orderly' /\ Kept
    BY <2>1, Zenon DEF IInv, Undisturbed
  <2>3. CASE UNCHANGED vars
    BY <2>2, <2>3, ScreenKept DEF vars, memory
  <2>4. CASE Tap
    BY <2>1, <2>2, <2>4, TapKept
  <2>5. CASE Database
    BY <2>2, <2>5, ReadKept, WriteKept, DeleteKept DEF Database
  <2>6. CASE Server
    BY <2>1, <2>2, <2>6, ServeKept, ReplyKept DEF Server
  <2>. QED BY <2>1, <2>3, <2>4, <2>5, <2>6 DEF Next
<1>. QED BY <1>1, <1>2, SpecIInv, PTL DEF Spec

\* A restart finds the user as he is on screen: once the database has caught up,
\* the first row is the current user, whatever profiles and passwords were saved.
THEOREM RestartKeepsHim == Spec => []RestartKeepsUser
<1>1. IInv /\ (Undisturbed => Kept) => RestartKeepsUser
  <2> SUFFICES ASSUME IInv, Undisturbed, Kept, queue = <<>>, loggedIn
               PROVE  table # <<>> /\ currentUser = FirstRow
    BY Zenon DEF RestartKeepsUser, Undisturbed
  <2>1. table # <<>>
    BY DEF IInv, Undisturbed, Orderly, LoggedIn
  <2>2. PICK k \in DOMAIN table : FirstRow = table[k]
    BY <2>1, FirstRowIsRow DEF IInv, Types
  <2>3. table[k] = currentUser
    BY DEF Kept, Mirrored, RowsCurrent, Rereading, First
  <2>. QED BY <2>1, <2>2, <2>3
<1>. QED BY <1>1, SpecIInv, SpecKept, PTL

\* The password with which the next start will ask is the account's, however many
\* times it was changed.
THEOREM PasswordIsKnown == Spec => []StoredPasswordWorks
<1>1. (Undisturbed => Kept) => StoredPasswordWorks
  <2> SUFFICES ASSUME Kept, Quiet, loggedIn
               PROVE  currentUser.password = account[currentUser.id].password
    BY Zenon DEF StoredPasswordWorks, Undisturbed
  <2>1. currentUser = Known(currentUser.id)
    BY DEF Kept, Mirrored, Current, Quiet, Rereading, First
  <2>. QED BY <2>1 DEF Known, User
<1>. QED BY <1>1, SpecKept, PTL
=============================================================================
