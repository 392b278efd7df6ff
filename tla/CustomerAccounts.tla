--------------------------- MODULE CustomerAccounts ---------------------------
(***************************************************************************)
(* How a customer gets, opens and keeps an account: codes sent by e-mail   *)
(* (CustomerAuthService), registration (CustomerService), logins with a    *)
(* password or with Google, and new passwords.                             *)
(*                                                                         *)
(* A request is a list of steps, each one call of the database, the cache  *)
(* or the mailer; steps of different requests interleave.  A code is       *)
(* cached per kind, address and session, under a key with a version.       *)
(* invalidateQuery reads this counter and sets it in two commands, and the *)
(* counter expires, so it may go back and older entries be current again.  *)
(* A look-up takes the counter and the entry in one step.  A hit writes    *)
(* the code it has read back, under the version it was found.              *)
(***************************************************************************)
EXTENDS Integers, Sequences, FiniteSets

CONSTANTS
  Emails,      \* addresses; a Google account is named by its address
  Sessions,    \* session ids
  Passwords,   \* passwords
  Requests,    \* requests
  Jobs,        \* Jobs[r]: what request r may ask for
  MaxCode,     \* bound: codes generated
  MaxVersion,  \* bound: the counter of a key
  MaxExpiries  \* bound: counters that expire

Kinds == {"verification", "restore-password"}

Providers == {"credentials", "google"}

Keys == [kind : Kinds, email : Emails, session : Sessions]

Codes == 1 .. MaxCode

Versions == 0 .. MaxVersion

None == 0

\* A customer_account row: none, or its password, which may be missing.
Secrets == Passwords \cup {"no row", "no password"}

Operations == {"sendToken", "resendToken", "register", "restorePublic", "restoreAuth",
               "login", "loginWithGoogle"}

\* Registrations present codes for verification.
Job == {j \in [op : Operations, key : Keys, old : Passwords, new : Passwords] :
          j.op = "register" => j.key.kind = "verification"}

ASSUME AccountsAssumption ==
  /\ "no row" \notin Passwords /\ "no password" \notin Passwords
  /\ Jobs \in [Requests -> SUBSET Job]
  /\ MaxCode \in Nat /\ MaxVersion \in Nat /\ MaxExpiries \in Nat

VARIABLES
  customers,  \* addresses with a customer row
  account,    \* account[e][p]: the row of provider p
  code,       \* code[k][v]: the code cached for a key under a version, or None
  version,    \* the counter of a key
  expiries,   \* counters that have expired
  issued,     \* codes generated so far
  todo,       \* the steps a request has still to take
  job,        \* what it has been asked for
  token,      \* the code it presents, generates or has found
  seen,       \* the version under which it looks up, writes and counts on
  row,        \* the account row it has read
  mailed,     \* history: key and code of every e-mail that was sent
  accepted,   \* history: key and code of every code that was accepted
  spent,      \* history: key and code of every code removed after its use
  revived,    \* history: codes written back after they were spent
  reused,     \* history: codes accepted that were spent before the look-up
  setBack,    \* history: keys whose counter has gone back
  password    \* history: the last password set for an address

dbVars == <<customers, account>>
codeVars == <<code, version, expiries, issued>>
requestVars == <<todo, job, token, seen, row>>
history == <<mailed, accepted, spent, revived, reused, setBack, password>>
vars == <<dbVars, codeVars, requestVars, history>>

-----------------------------------------------------------------------------
(* Requests.                                                               *)

\* Mutant: the customer is created before the code is looked at.
RegisterFirst == <<"createCustomer", "validateToken", "removeToken">>

RegisterSteps == <<"validateToken", "createCustomer", "removeToken">>

\* sendTokenToEmail, resendTokenToEmail, register, the two ways to a new
\* password, login, loginWithGoogle.
StepsOf(op) ==
  CASE op = "sendToken" -> <<"findToken", "sendEmail">>
    [] op = "resendToken" -> <<"lookAgain", "count", "invalidate", "findToken", "sendEmail">>
    [] op = "register" -> RegisterSteps
    [] op = "restorePublic" -> <<"readAccount", "validateToken", "setPassword", "removeToken">>
    [] op = "restoreAuth" -> <<"readAccount", "checkOld", "setPassword">>
    [] op = "login" -> <<"readAccount", "checkOld">>
    [] op = "loginWithGoogle" -> <<"findGoogle", "findByEmail", "createGoogle">>

Key(r) == job[r].key

Email(r) == job[r].key.email

\* The code that a look-up finds now.
Current(k) == code[k][version[k]]

At(r, step) == todo[r] # <<>> /\ Head(todo[r]) = step

Continue(r) == todo' = [todo EXCEPT ![r] = Tail(@)]

End(r) == todo' = [todo EXCEPT ![r] = <<>>]

\* A code to restore a password goes to registered addresses only; whoever
\* presents a code has found it in some mailbox.
Receive(r) ==
  /\ job[r].op = "idle"
  /\ \E j \in Jobs[r] : \E t \in {m[2] : m \in mailed} \cup {None} :
       /\ j.op = "sendToken" /\ j.key.kind = "restore-password" => j.key.email \in customers
       /\ (j.op \in {"register", "restorePublic"}) = (t # None)
       /\ job' = [job EXCEPT ![r] = j]
       /\ token' = [token EXCEPT ![r] = t]
       /\ todo' = [todo EXCEPT ![r] = StepsOf(j.op)]
  /\ UNCHANGED <<dbVars, codeVars, seen, row, history>>

\* Any step may throw, and the code may be refused.
Fails(r) ==
  /\ todo[r] # <<>>
  /\ End(r)
  /\ UNCHANGED <<dbVars, codeVars, job, token, seen, row, history>>

-----------------------------------------------------------------------------
(* Codes.                                                                  *)

\* A hit counts itself by writing the entry back.
WriteBack(r, step) ==
  /\ At(r, step)
  /\ Continue(r)
  /\ code' = [code EXCEPT ![Key(r)][seen[r]] = token[r]]
  /\ revived' = revived \cup ({<<Key(r), token[r]>>} \cap spent)
  /\ UNCHANGED <<dbVars, version, expiries, issued, job, token, seen, row,
                 mailed, accepted, spent, reused, setBack, password>>

\* generateVerificationToken: remember with simpleFind.  A hit's code is sent
\* again; a miss generates one and saves it, whoever else has done so since.
FindToken(r) ==
  /\ At(r, "findToken")
  /\ seen' = [seen EXCEPT ![r] = version[Key(r)]]
  /\ IF Current(Key(r)) # None
     THEN token' = [token EXCEPT ![r] = Current(Key(r))] /\ UNCHANGED issued
     ELSE /\ issued < MaxCode
          /\ token' = [token EXCEPT ![r] = issued + 1]
          /\ issued' = issued + 1
  /\ todo' = [todo EXCEPT ![r] = <<"saveToken">> \o Tail(@)]
  /\ UNCHANGED <<dbVars, code, version, expiries, job, row, history>>

SendEmail(r) ==
  /\ At(r, "sendEmail")
  /\ Continue(r)
  /\ mailed' = mailed \cup {<<Key(r), token[r]>>}
  /\ UNCHANGED <<dbVars, codeVars, job, token, seen, row,
                 accepted, spent, revived, reused, setBack, password>>

\* resendTokenToEmail: without a code one is sent, which the next step makes
\* void again.
LookAgain(r) ==
  /\ At(r, "lookAgain")
  /\ seen' = [seen EXCEPT ![r] = version[Key(r)]]
  /\ token' = [token EXCEPT ![r] = Current(Key(r))]
  /\ todo' = [todo EXCEPT ![r] = IF Current(Key(r)) = None
       THEN <<"findToken", "sendEmail">> \o Tail(@) ELSE <<"writeBack">> \o Tail(@)]
  /\ UNCHANGED <<dbVars, codeVars, job, row, history>>

\* invalidateQuery: the counter is read ...
Count(r) ==
  /\ At(r, "count")
  /\ Continue(r)
  /\ seen' = [seen EXCEPT ![r] = version[Key(r)]]
  /\ UNCHANGED <<dbVars, codeVars, job, token, row, history>>

\* ... and set, whatever it is by then.
Invalidate(r) ==
  /\ At(r, "invalidate")
  /\ seen[r] < MaxVersion
  /\ Continue(r)
  /\ version' = [version EXCEPT ![Key(r)] = seen[r] + 1]
  /\ setBack' = IF seen[r] + 1 < version[Key(r)] THEN setBack \cup {Key(r)} ELSE setBack
  /\ UNCHANGED <<dbVars, code, expiries, issued, job, token, seen, row,
                 mailed, accepted, spent, revived, reused, password>>

\* Mutant: the key of the cached code lacks the address.
ValidateTokenOfAnyone(r) ==
  LET use == <<Key(r), token[r]>> IN
  /\ At(r, "validateToken")
  /\ \E e \in Emails : Current([Key(r) EXCEPT !.email = e]) = token[r]
  /\ seen' = [seen EXCEPT ![r] = version[Key(r)]]
  /\ accepted' = accepted \cup {use}
  /\ todo' = [todo EXCEPT ![r] = Tail(@)]
  /\ UNCHANGED <<dbVars, codeVars, job, token, row, mailed, spent, revived, reused, setBack,
                 password>>

\* validateToken: getData and a comparison; a request whose code differs ends.
ValidateToken(r) ==
  LET use == <<Key(r), token[r]>> IN
  /\ At(r, "validateToken")
  /\ Current(Key(r)) = token[r]
  /\ seen' = [seen EXCEPT ![r] = version[Key(r)]]
  /\ accepted' = accepted \cup {use}
  /\ reused' = reused \cup ({use} \cap spent)
  /\ todo' = [todo EXCEPT ![r] = <<"writeBack">> \o Tail(@)]
  /\ UNCHANGED <<dbVars, codeVars, job, token, row, mailed, spent, revived, setBack, password>>

\* Mutant: the code stays after it was used.
KeepToken(r) ==
  /\ At(r, "removeToken")
  /\ Continue(r)
  /\ spent' = spent \cup {<<Key(r), token[r]>>}
  /\ UNCHANGED <<dbVars, codeVars, job, token, seen, row,
                 mailed, accepted, revived, reused, setBack, password>>

\* removeData: whatever code the key has by now, under the version it has.
RemoveToken(r) ==
  /\ At(r, "removeToken")
  /\ Continue(r)
  /\ code' = [code EXCEPT ![Key(r)][version[Key(r)]] = None]
  /\ spent' = spent \cup {<<Key(r), token[r]>>}
  /\ UNCHANGED <<dbVars, version, expiries, issued, job, token, seen, row,
                 mailed, accepted, revived, reused, setBack, password>>

Expires(k, v) ==
  /\ code[k][v] # None
  /\ code' = [code EXCEPT ![k][v] = None]
  /\ UNCHANGED <<dbVars, version, expiries, issued, requestVars, history>>

\* The counter expires, too, and starts over.
VersionExpires(k) ==
  /\ version[k] # 0
  /\ expiries < MaxExpiries
  /\ expiries' = expiries + 1
  /\ version' = [version EXCEPT ![k] = 0]
  /\ setBack' = setBack \cup {k}
  /\ UNCHANGED <<dbVars, code, issued, requestVars,
                 mailed, accepted, spent, revived, reused, password>>

-----------------------------------------------------------------------------
(* Accounts.                                                               *)

Rows(e) == {p \in Providers : account[e][p] # "no row"}

\* Mutant: the two rows are not created in one transaction.
CreateCustomerOnly(r) ==
  LET e == Email(r) IN
  /\ At(r, "createCustomer")
  /\ e \notin customers
  /\ Continue(r)
  /\ customers' = customers \cup {e}
  /\ UNCHANGED <<account, codeVars, job, token, seen, row, history>>

\* register's transaction; the address is unique.
CreateCustomer(r) ==
  LET e == Email(r) IN
  /\ At(r, "createCustomer")
  /\ e \notin customers
  /\ Continue(r)
  /\ customers' = customers \cup {e}
  /\ account' = [account EXCEPT ![e]["credentials"] = job[r].new]
  /\ password' = [password EXCEPT ![e] = job[r].new]
  /\ UNCHANGED <<codeVars, job, token, seen, row, mailed, accepted, spent, revived, reused,
                 setBack>>

\* accounts[0] of a query without an order is any of the customer's rows.
ReadAccount(r) ==
  /\ At(r, "readAccount")
  /\ Email(r) \in customers
  /\ \E p \in Rows(Email(r)) :
       row' = [row EXCEPT ![r] = [provider |-> p, secret |-> account[Email(r)][p]]]
  /\ Continue(r)
  /\ UNCHANGED <<dbVars, codeVars, job, token, seen, history>>

\* bcrypt throws when the row has no password.
Compares(r, given) == row[r].secret # "no password"

CheckOld(r) ==
  /\ At(r, "checkOld")
  /\ Compares(r, job[r].old)
  /\ row[r].secret = job[r].old
  /\ Continue(r)
  /\ UNCHANGED <<dbVars, codeVars, job, token, seen, row, history>>

\* Mutant: the row is looked up again instead of updated by its id.
SetPasswordOfAnyRow(r) ==
  LET e == Email(r) IN
  /\ At(r, "setPassword")
  /\ row[r].secret \notin {"no password", job[r].new}
  /\ Continue(r)
  /\ \E p \in Rows(e) : account' = [account EXCEPT ![e][p] = job[r].new]
  /\ password' = [password EXCEPT ![e] = job[r].new]
  /\ UNCHANGED <<customers, codeVars, job, token, seen, row, mailed, accepted, spent,
                 revived, reused, setBack>>

SetPassword(r) ==
  LET e == Email(r) IN
  /\ At(r, "setPassword")
  /\ Compares(r, job[r].new)
  /\ row[r].secret # job[r].new
  /\ Continue(r)
  /\ account' = [account EXCEPT ![e][row[r].provider] = job[r].new]
  /\ password' = [password EXCEPT ![e] = job[r].new]
  /\ UNCHANGED <<customers, codeVars, job, token, seen, row, mailed, accepted, spent,
                 revived, reused, setBack>>

\* loginWithGoogle: a linked account opens the session ...
FindGoogle(r) ==
  /\ At(r, "findGoogle")
  /\ IF account[Email(r)]["google"] # "no row" THEN End(r) ELSE Continue(r)
  /\ UNCHANGED <<dbVars, codeVars, job, token, seen, row, history>>

\* ... otherwise the address tells whether a customer exists ...
FindByEmail(r) ==
  /\ At(r, "findByEmail")
  /\ row' = [row EXCEPT ![r].provider =
               IF Email(r) \in customers THEN "credentials" ELSE "google"]
  /\ Continue(r)
  /\ UNCHANGED <<dbVars, codeVars, job, token, seen, history>>

\* ... who gets an account row, or who is created with one.  Both are unique.
CreateGoogle(r) ==
  LET e == Email(r) IN
  /\ At(r, "createGoogle")
  /\ account[e]["google"] = "no row"
  /\ (e \in customers) = (row[r].provider = "credentials")
  /\ Continue(r)
  /\ customers' = customers \cup {e}
  /\ account' = [account EXCEPT ![e]["google"] = "no password"]
  /\ UNCHANGED <<codeVars, job, token, seen, row, history>>

-----------------------------------------------------------------------------
Init ==
  /\ customers = {}
  /\ account = [e \in Emails |-> [p \in Providers |-> "no row"]]
  /\ code = [k \in Keys |-> [v \in Versions |-> None]]
  /\ version = [k \in Keys |-> 0]
  /\ expiries = 0
  /\ issued = 0
  /\ todo = [r \in Requests |-> <<>>]
  /\ job = [r \in Requests |-> [op |-> "idle"]]
  /\ token = [r \in Requests |-> None]
  /\ seen = [r \in Requests |-> 0]
  /\ row = [r \in Requests |-> [provider |-> "google", secret |-> "no row"]]
  /\ mailed = {}
  /\ accepted = {}
  /\ spent = {}
  /\ revived = {}
  /\ reused = {}
  /\ setBack = {}
  /\ password = [e \in Emails |-> "no password"]

Next ==
  \/ \E r \in Requests :
       \/ Receive(r) \/ Fails(r)
       \/ FindToken(r) \/ WriteBack(r, "saveToken") \/ WriteBack(r, "writeBack")
       \/ SendEmail(r) \/ LookAgain(r) \/ Count(r) \/ Invalidate(r)
       \/ ValidateToken(r) \/ RemoveToken(r)
       \/ CreateCustomer(r) \/ ReadAccount(r) \/ CheckOld(r) \/ SetPassword(r)
       \/ FindGoogle(r) \/ FindByEmail(r) \/ CreateGoogle(r)
  \/ \E k \in Keys : VersionExpires(k) \/ \E v \in Versions : Expires(k, v)

Spec == Init /\ [][Next]_vars

-----------------------------------------------------------------------------
(* Properties.                                                             *)

Steps == {"findToken", "saveToken", "sendEmail", "lookAgain", "writeBack", "count",
          "invalidate", "validateToken", "removeToken", "createCustomer", "readAccount", "checkOld",
          "setPassword", "findGoogle", "findByEmail", "createGoogle"}

Uses == Keys \X Codes

\* Every variable keeps its type; exactly the customers have account rows.
TypeOK ==
  /\ customers \subseteq Emails
  /\ \A e \in Emails : Rows(e) # {} <=> e \in customers
  /\ account \in [Emails -> [Providers -> Secrets]]
  /\ code \in [Keys -> [Versions -> Codes \cup {None}]]
  /\ version \in [Keys -> Versions]
  /\ expiries \in 0 .. MaxExpiries
  /\ issued \in Codes \cup {None}
  /\ todo \in [Requests -> Seq(Steps)]
  /\ job \in [Requests -> Job \cup {[op |-> "idle"]}]
  /\ token \in [Requests -> Codes \cup {None}]
  /\ seen \in [Requests -> Versions]
  /\ row \in [Requests -> [provider : Providers, secret : Secrets]]
  /\ mailed \subseteq Uses /\ accepted \subseteq Uses /\ spent \subseteq Uses
  /\ revived \subseteq Uses /\ reused \subseteq Uses /\ setBack \subseteq Keys
  /\ password \in [Emails -> Secrets]

\* A code is accepted for an address, a purpose and a session only if it was
\* mailed to that address for that purpose from that session, whatever codes
\* are presented (validateToken, generateVerificationToken).
AcceptedWasMailed == accepted \subseteq mailed

\* The owner of the address stands behind every customer: a code sent to it
\* was presented, or Google vouches for it (register, loginWithGoogle).
CustomersOwnTheirAddress ==
  \A e \in customers :
    \/ account[e]["google"] # "no row"
    \/ \E use \in accepted : use[1].email = e /\ use[1].kind = "verification"

\* A code that was used is not accepted again, although it is removed under
\* the version its key has by then, unless another look-up had read it before
\* it was removed and wrote it back afterwards (getData), or the counter of its
\* key has gone back to the version it was left under (incrementVersion).
SpentUnlessRevived == \A use \in reused : use \in revived \/ use[1] \in setBack

\* A password lets a customer in only if it is the last one set, although
\* accounts[0] may be the Google row: that row never gets a password.
LastPasswordCounts ==
  \A e \in Emails : \A p \in Rows(e) : account[e][p] \in {password[e], "no password"}

=============================================================================
