----------------------------- MODULE UserSession -----------------------------
(***************************************************************************)
(* Who is logged in: lib/controllers/user_controller.dart, the table of    *)
(* lib/services/local_storage/user_db.dart, and the handlers that log in,  *)
(* log out, save the profile and the password (login_screen, sign_up_screen,*)
(* profile_screen, drawer, account_screen, splash_controller).             *)
(*                                                                         *)
(* As in Cart, a handler runs to its next await; queue holds the database  *)
(* operations given and not yet executed, calls the requests in flight.    *)
(* The server answers in two steps, Serve and the reply, so that a reply   *)
(* can be overtaken or lost after the server has acted.  While a handler   *)
(* waits a loading dialog covers the screen (busy), except at the start:   *)
(* there the splash screen waits for nobody and leaves after some seconds. *)
(***************************************************************************)
EXTENDS Integers, Sequences, FiniteSetsExt, Functions, SequencesExt

CONSTANTS
  Account,      \* the ids of the users known to the server
  Password,     \* passwords
  Profile,      \* contents of a profile
  FirstPassword, FirstProfile, \* of every account
  Null,         \* Dart's null
  MaxTaps,      \* bound: handlers started by the user
  MaxCalls,     \* bound: requests in flight
  MaxKills      \* bound: times the process is killed

ASSUME FirstAssumption == FirstPassword \in Password /\ FirstProfile \in Profile
ASSUME NullAssumption ==
  Null \notin Account \cup [id : Account, profile : Profile, password : Password]
ASSUME BoundAssumption == {MaxTaps, MaxCalls, MaxKills} \subseteq Nat
\* How an answer without a profile is written is no profile.
ASSUME AnswerAssumption == Profile \cap {"none", "refused", "lost"} = {}

VARIABLES
  currentUser,  \* a User object, or Null
  loggedIn,
  table,        \* the rows of the user table, at the positions they were inserted at
  queue, calls,
  screen,       \* "splash", "app", or "login" (login, sign up)
  busy,         \* a loading dialog is on screen
  account,      \* what the server knows of each account
  taps, kills,
  orderly,      \* history: the splash screen has been left only after its request was
                \* answered, a form has been sent only after the database had caught up,
                \* no loading dialog has been left with the back button (nor a form been
                \* filled in again under its request), no login screen kept after a login
  lost          \* history: a request or its reply has been lost

memory == <<currentUser, loggedIn>>
ui     == <<screen, busy>>
past   == <<orderly, lost>>
vars   == <<memory, table, queue, calls, ui, account, taps, kills, past>>

-----------------------------------------------------------------------------
User(id, profile, password) == [id |-> id, profile |-> profile, password |-> password]
NewUser == User(Null, Null, Null)   \* User()

\* getUserData: the first row, or User() when there is none.
FirstRow == IF table = <<>> THEN NewUser ELSE table[Min(DOMAIN table)]
NewRow == IF table = <<>> THEN 1 ELSE Max(DOMAIN table) + 1

ReadOp(from) == [op |-> "read", from |-> from]
InsertOp(user) == [op |-> "insert", user |-> user]
UpdateOp(user) == [op |-> "update", user |-> user]
PasswordOp(id, password) == [op |-> "password", id |-> id, password |-> password]
DeleteOp(id) == [op |-> "delete", id |-> id]

NoCall == [kind |-> "none"]
Slots == 1 .. MaxCalls
Call(c) == \E s \in Slots : /\ calls[s] = NoCall
                            /\ \A r \in Slots : r < s => calls[r] # NoCall
                            /\ calls' = [calls EXCEPT ![s] = c]

\* A request: what is asked of which account, the answer once there is one, and
\* what the password field of the form holds, which its handler will read again.
Request(kind, id, password, new) ==
  [kind |-> kind, id |-> id, password |-> password, new |-> new,
   field |-> IF kind = "login" THEN password ELSE new, answer |-> "none"]
Answered(s, kind) == /\ calls[s].kind = kind /\ calls[s].answer # "none"
                     /\ calls' = [calls EXCEPT ![s] = NoCall]
Granted(s) == calls[s].answer \notin {"none", "refused", "lost"}

\* Mutants are changed forms of the definition that follows them, the way a bug
\* would change it: each must break a property.  Here the user is not stored.
SetUserDataQuietly(user, then) ==
  /\ currentUser' = user
  /\ loggedIn' = TRUE
  /\ queue' = queue \o then
\* setUserData: user.id is never null here; what follows it in the handler.
SetUserData(user, then) ==
  /\ currentUser' = user
  /\ loggedIn' = TRUE
  /\ queue' = queue \o <<InsertOp(user)>> \o then

-----------------------------------------------------------------------------
(* The splash screen: checkIfUserLoggedIn has asked for the stored user.     *)
\* The app is installed: nobody has logged in, every account is as it was made.
Init ==
  /\ currentUser = NewUser /\ loggedIn = FALSE
  /\ table = <<>> /\ queue = <<ReadOp("splash")>> /\ calls = [s \in Slots |-> NoCall]
  /\ screen = "splash" /\ busy = FALSE
  /\ account = [u \in Account |-> [profile |-> FirstProfile, password |-> FirstPassword]]
  /\ taps = 0 /\ kills = 0
  /\ orderly = TRUE /\ lost = FALSE

Kill ==
  /\ kills < MaxKills /\ kills' = kills + 1
  /\ currentUser' = NewUser /\ loggedIn' = FALSE
  /\ queue' = <<ReadOp("splash")>> /\ calls' = [s \in Slots |-> NoCall]
  /\ screen' = "splash" /\ busy' = FALSE
  /\ UNCHANGED <<table, account, taps, past>>

\* navigateToApp: a timer, whatever checkIfUserLoggedIn is waiting for.
EnterApp ==
  /\ screen = "splash" /\ screen' = "app"
  /\ orderly' = (orderly /\ (\A k \in DOMAIN queue : queue[k] # ReadOp("splash"))
                          /\ (\A s \in Slots : calls[s].kind # "splash"))
  /\ UNCHANGED <<memory, table, queue, calls, busy, account, taps, kills, lost>>

\* The language is changed: the splash screen is shown again.
Relaunch ==
  /\ screen = "app" /\ ~busy /\ taps < MaxTaps /\ taps' = taps + 1
  /\ screen' = "splash"
  /\ queue' = Append(queue, ReadOp("splash"))
  /\ UNCHANGED <<memory, table, calls, busy, account, kills, past>>

\* Mutant: the answer has no password, and none is put into it.
SplashReplyAsItCame(s) ==
  /\ Answered(s, "splash")
  /\ IF Granted(s)
     THEN SetUserData(User(calls[s].id, calls[s].answer, Null), <<>>)
     ELSE UNCHANGED <<memory, queue>>
  /\ UNCHANGED <<table, ui, account, taps, kills, past>>
\* The request of the splash screen has been answered.  When there is no user in
\* the answer the handler ends with an error.
SplashReply(s) ==
  /\ Answered(s, "splash")
  /\ IF Granted(s)
     THEN SetUserData(User(calls[s].id, calls[s].answer, calls[s].password), <<>>)
     ELSE UNCHANGED <<memory, queue>>
  /\ UNCHANGED <<table, ui, account, taps, kills, past>>

-----------------------------------------------------------------------------
(* Login, sign up and logout                                                 *)
OpenLogin ==
  /\ screen = "app" /\ ~busy /\ ~loggedIn /\ screen' = "login"
  /\ UNCHANGED <<memory, table, queue, calls, busy, account, taps, kills, past>>

LeaveLogin ==
  /\ screen = "login" /\ ~busy /\ screen' = "app"
  /\ UNCHANGED <<memory, table, queue, calls, busy, account, taps, kills, past>>

\* A form has been filled in and its button tapped: showLoadingDialog, then the
\* request.
Send(c) ==
  /\ orderly' = (orderly /\ queue = <<>>) /\ UNCHANGED lost
  /\ ~busy /\ busy' = TRUE /\ taps < MaxTaps /\ taps' = taps + 1
  /\ Call(c)

LogIn(u, password) ==
  /\ screen = "login"
  /\ Send(Request("login", u, password, Null))
  /\ UNCHANGED <<memory, table, queue, screen, account, kills>>

\* Who has left the loading dialog can fill in the form again: its button saves the
\* field, also when the text is then refused.  (One that sends it is LogIn or
\* ResetPassword after this.)
Retype(s, w) ==
  /\ ~busy /\ orderly' = FALSE /\ taps < MaxTaps /\ taps' = taps + 1
  /\ \/ calls[s].kind = "login" /\ screen = "login"
     \/ calls[s].kind = "reset" /\ screen = "app"
  /\ w # calls[s].field
  /\ calls' = [calls EXCEPT ![s].field = w]
  /\ UNCHANGED <<memory, table, queue, ui, account, kills, lost>>

\* Only an answer that has data closes the loading dialog; the data may still hold
\* no user.  The password stored is that of the field, read after the await.
LogInReply(s) ==
  /\ Answered(s, "login")
  /\ IF Granted(s)
     THEN /\ SetUserData(User(calls[s].id, calls[s].answer, calls[s].field),
                         <<ReadOp("login")>>)
          /\ busy' = FALSE
          /\ screen' \in {"app", screen} /\ orderly' = (orderly /\ screen' = "app")
     ELSE /\ busy' \in {busy} \cup IF calls[s].answer = "refused" THEN {FALSE} ELSE {}
          /\ UNCHANGED <<memory, queue, screen, orderly>>
  /\ UNCHANGED <<table, account, taps, kills, lost>>

\* logOut up to its await.  The drawer's button goes on to the login screen, and
\* calls logOut for a guest too; when currentUser is null the call is an error.
LogOut ==
  /\ screen = "app" /\ ~busy /\ taps < MaxTaps /\ taps' = taps + 1
  /\ currentUser # Null
  /\ queue' = Append(queue, DeleteOp(currentUser.id))
  /\ screen' \in {"login"} \cup IF loggedIn THEN {"app"} ELSE {}
  /\ UNCHANGED <<memory, table, calls, busy, account, kills, past>>

-----------------------------------------------------------------------------
(* Profile and password                                                      *)
SaveProfile(profile) ==
  /\ screen = "app" /\ loggedIn /\ currentUser \notin {Null, NewUser} /\ profile # currentUser.profile
  /\ Send(Request("profile", currentUser.id, Null, profile))
  /\ UNCHANGED <<memory, table, queue, screen, account, kills>>

\* updateUserData with the password of the current user; an error when there is
\* none.
ProfileReply(s) ==
  /\ Answered(s, "profile")
  /\ IF Granted(s)
     THEN /\ busy' = FALSE
          /\ IF currentUser = Null THEN UNCHANGED <<memory, queue>>
             ELSE LET user == User(calls[s].id, calls[s].answer, currentUser.password)
                  IN  /\ currentUser' = user /\ loggedIn' = TRUE
                      /\ queue' = Append(queue, UpdateOp(user))
     ELSE UNCHANGED <<memory, queue, busy>>
  /\ UNCHANGED <<table, screen, account, taps, kills, past>>

ResetPassword(old, new) ==
  /\ screen = "app" /\ loggedIn /\ currentUser \notin {Null, NewUser} /\ old # new
  /\ Send(Request("reset", currentUser.id, old, new))
  /\ UNCHANGED <<memory, table, queue, screen, account, kills>>

\* Mutant: the password is not written.
ReadAgain(id, password) == <<ReadOp("reset")>>
\* updatePassword, which also reads the table for nobody, then getUserData.
StorePassword(id, password) == <<PasswordOp(id, password), ReadOp("reset")>>

ResetReply(s) ==
  /\ Answered(s, "reset")
  /\ busy' = (busy /\ calls[s].answer = "lost")
  /\ queue' = IF Granted(s) /\ currentUser # Null
              THEN queue \o StorePassword(currentUser.id, calls[s].field) ELSE queue
  /\ UNCHANGED <<memory, table, screen, account, taps, kills, past>>

\* The loading dialog is left; what it covered goes on.
Back ==
  /\ busy /\ busy' = FALSE /\ orderly' = FALSE
  /\ UNCHANGED <<memory, table, queue, calls, screen, account, taps, kills, lost>>

-----------------------------------------------------------------------------
(* The server                                                                *)
\* The server acts on the request: an answer is the profile, or "refused".
Serve(s) ==
  /\ calls[s] # NoCall /\ calls[s].answer = "none"
  /\ LET c == calls[s]
         known == c.id \in Account
         right == known /\ account[c.id].password = c.password
         Answer(a) == calls' = [calls EXCEPT ![s].answer = a]
     IN  \/ /\ c.kind \in {"splash", "login"}
            /\ Answer(IF right THEN account[c.id].profile ELSE "refused")
            /\ UNCHANGED account
         \/ /\ c.kind = "profile"
            /\ account' = [account EXCEPT ![c.id].profile = c.new]
            /\ Answer(c.new)
         \/ /\ c.kind = "reset" /\ right
            /\ account' = [account EXCEPT ![c.id].password = c.new]
            /\ Answer(account[c.id].profile)
         \/ /\ c.kind = "reset" /\ ~right
            /\ Answer("refused")
            /\ UNCHANGED account
  /\ UNCHANGED <<memory, table, queue, ui, taps, kills, past>>

\* A request or its reply is lost: postData throws.
Lose(s) ==
  /\ calls[s] # NoCall /\ calls[s].answer # "lost"
  /\ calls' = [calls EXCEPT ![s].answer = "lost"]
  /\ lost' = TRUE
  /\ UNCHANGED <<memory, table, queue, ui, account, taps, kills, orderly>>

-----------------------------------------------------------------------------
(* The database executes the oldest operation and the awaiting code goes on. *)
Running(o) == queue # <<>> /\ Head(queue).op = o /\ queue' = Tail(queue)
RowsOf(id) == {k \in DOMAIN table : table[k].id = id}

\* getUserData: loggedIn is only ever set here, never reset.  On the splash
\* screen checkIfUserLoggedIn goes on with the user it has read.
ExecRead ==
  /\ Running("read")
  /\ currentUser' = FirstRow
  /\ loggedIn' = (loggedIn \/ FirstRow.id # Null)
  /\ IF Head(queue).from = "splash" /\ loggedIn'
     THEN Call(Request("splash", FirstRow.id, FirstRow.password, Null))
     ELSE UNCHANGED calls
  /\ UNCHANGED <<table, ui, account, taps, kills, past>>

ExecInsert ==
  /\ Running("insert")
  /\ table' = [k \in DOMAIN table \cup {NewRow} |->
                IF k = NewRow THEN Head(queue).user ELSE table[k]]
  /\ UNCHANGED <<memory, calls, ui, account, taps, kills, past>>

ExecUpdate ==
  /\ Running("update")
  /\ table' = [k \in DOMAIN table |-> IF k \in RowsOf(Head(queue).user.id)
                                     THEN Head(queue).user ELSE table[k]]
  /\ UNCHANGED <<memory, calls, ui, account, taps, kills, past>>

ExecPassword ==
  /\ Running("password")
  /\ table' = [k \in DOMAIN table |-> IF k \in RowsOf(Head(queue).id)
                 THEN [table[k] EXCEPT !.password = Head(queue).password] ELSE table[k]]
  /\ UNCHANGED <<memory, calls, ui, account, taps, kills, past>>

\* Mutant: only the row that is read is deleted.
DeleteFirstRow(id) ==
  Restrict(table, DOMAIN table \ (IF RowsOf(id) = {} THEN {} ELSE {Min(RowsOf(id))}))
DeleteRows(id) == Restrict(table, DOMAIN table \ RowsOf(id))

\* Mutant: loggedIn is not reset.
ExecDeleteOnly ==
  /\ Running("delete")
  /\ table' = DeleteRows(Head(queue).id)
  /\ currentUser' = Null
  /\ UNCHANGED <<loggedIn, calls, ui, account, taps, kills, past>>
\* deleteUserData returns nothing, which the rest of logOut assigns.
ExecDelete ==
  /\ Running("delete")
  /\ table' = DeleteRows(Head(queue).id)
  /\ currentUser' = Null /\ loggedIn' = FALSE
  /\ UNCHANGED <<calls, ui, account, taps, kills, past>>

-----------------------------------------------------------------------------
Tap == \/ EnterApp \/ Relaunch \/ OpenLogin \/ LeaveLogin \/ LogOut \/ Back
       \/ \E u \in Account, w \in Password : LogIn(u, w)
       \/ \E p \in Profile : SaveProfile(p)
       \/ \E old, new \in Password : ResetPassword(old, new)
       \/ \E s \in Slots, w \in Password : Retype(s, w)

Database == ExecRead \/ ExecInsert \/ ExecUpdate \/ ExecPassword \/ ExecDelete

Reply(s) == SplashReply(s) \/ LogInReply(s) \/ ProfileReply(s) \/ ResetReply(s)

Server == \E s \in Slots : Serve(s) \/ Lose(s) \/ Reply(s)

Next == Tap \/ Database \/ Server \/ Kill

Spec == Init /\ [][Next]_vars

-----------------------------------------------------------------------------
(* Properties                                                                *)
StoredUser == [id : Account, profile : Profile, password : Password]
AnyUser == [id : Account, profile : Profile, password : Password \cup {Null}]
OpType == [op : {"read"}, from : {"splash", "login", "reset"}]
          \cup [op : {"insert", "update"}, user : AnyUser]
          \cup [op : {"password"}, id : Account \cup {Null}, password : Password]
          \cup [op : {"delete"}, id : Account \cup {Null}]
IsTable(T) == /\ DOMAIN table \subseteq Nat \ {0} /\ IsFiniteSet(DOMAIN table)
              /\ table \in [DOMAIN table -> T]
CallType == {NoCall} \cup
  [kind : {"splash", "login", "profile", "reset"}, id : Account \cup {Null},
   password : Password \cup {Null}, new : Password \cup Profile \cup {Null},
   field : Password \cup Profile \cup {Null}, answer : Profile \cup {"none", "refused", "lost"}]

TypeOK ==
  /\ currentUser \in AnyUser \cup {NewUser, Null} /\ loggedIn \in BOOLEAN
  /\ IsTable(IF orderly THEN StoredUser ELSE AnyUser) /\ queue \in Seq(OpType)
  /\ calls \in [Slots -> CallType]
  /\ screen \in {"splash", "app", "login"} /\ busy \in BOOLEAN
  /\ account \in [Account -> [profile : Profile, password : Password]]
  /\ taps \in 0 .. MaxTaps /\ kills \in 0 .. MaxKills
  /\ orderly \in BOOLEAN /\ lost \in BOOLEAN

Quiet == queue = <<>> /\ \A s \in Slots : calls[s] = NoCall

\* The screens of a logged-in user read its name and id: there is such a user.
LoggedInHasUser == orderly /\ loggedIn => currentUser \in StoredUser

\* All rows belong to one account: the first, which is the one read, to the user
\* who logged in last.  'logged_out_successfully': none is left then that would
\* log the user in again at the next start.
DiskIsOfUser ==
  orderly => /\ \A j, k \in DOMAIN table : table[j].id = table[k].id
             /\ currentUser = Null /\ queue = <<>> => table = <<>>

\* A restart finds the user as he is on screen.
RestartKeepsUser ==
  orderly /\ ~lost /\ kills = 0 /\ queue = <<>> /\ loggedIn
    => table # <<>> /\ currentUser = FirstRow

\* The password kept for the next start is the one the server knows.
StoredPasswordWorks ==
  orderly /\ ~lost /\ kills = 0 /\ Quiet /\ loggedIn
    => currentUser.password = account[currentUser.id].password

\* 'logged_out_successfully': the answer to the request of the splash screen does
\* not log in a user who has logged out meanwhile.
LogOutLasts ==
  [][ \A s \in Slots :
        currentUser = Null /\ calls[s].kind = "splash" /\ calls'[s] = NoCall
          => ~loggedIn' ]_vars
=============================================================================
