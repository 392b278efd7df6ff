----------------------- MODULE CustomerAccounts_proofs -----------------------
(***************************************************************************)
(* Proofs about CustomerAccounts for any number of addresses, sessions,    *)
(* requests and codes.                                                     *)
(*                                                                         *)
(* None of the properties is inductive.  What they need to know of a       *)
(* request in the middle of its steps is Progress: which steps may still   *)
(* be ahead, and what those it has taken have established.  That a code    *)
(* accepted for a key was mailed for this very key rests on OneKey: each   *)
(* code was generated for one key, wherever it is found since.  That a     *)
(* spent code stays out of reach rests on VersionsInv: as long as the      *)
(* counter of a key does not go back, everything written under the key     *)
(* lies at or below it, so what a removal misses lies strictly below.      *)
(***************************************************************************)
EXTENDS CustomerAccounts, SequenceTheorems, TLAPS

SendOps == {"sendToken", "resendToken"}

SendSteps == {"findToken", "saveToken", "sendEmail", "lookAgain", "writeBack", "count", "invalidate"}

\* The request's code was accepted.
Accepted(r) == <<Key(r), token[r]>> \in accepted

\* It has read an account row; only the Google row lacks a password, and it
\* never has one.
HasRead(r) ==
  /\ Email(r) \in customers
  /\ row[r].secret # "no row"
  /\ row[r].provider = "google" => row[r].secret = "no password"

\* The steps that may be ahead of a request, and what holds before them.
Sending(r) ==
  /\ todo[r] \in Seq(SendSteps)
  /\ todo[r] # <<>> /\ Head(todo[r]) \notin {"findToken", "lookAgain"} => token[r] # None

Registering(r) ==
  \/ todo[r] = RegisterSteps
  \/ /\ todo[r] \in Seq({"writeBack", "createCustomer", "removeToken"})
     /\ todo[r] # <<>> => Accepted(r)

Restoring(r) ==
  \/ todo[r] = <<"readAccount", "validateToken", "setPassword", "removeToken">>
  \/ todo[r] = <<"validateToken", "setPassword", "removeToken">> /\ HasRead(r)
  \/ /\ todo[r] \in Seq({"writeBack", "setPassword", "removeToken"})
     /\ todo[r] # <<>> => Accepted(r) /\ HasRead(r)

Comparing(r) ==
  \/ todo[r] = StepsOf(job[r].op)
  \/ /\ todo[r] \in Seq({"checkOld", "setPassword"})
     /\ todo[r] # <<>> => HasRead(r)

Progress(r) ==
  /\ job[r].op = "idle" => todo[r] = <<>>
  /\ job[r].op \in SendOps => Sending(r)
  /\ job[r].op \in {"register", "restorePublic"} => token[r] # None
  /\ job[r].op = "register" => Registering(r) /\ Key(r).kind = "verification"
  /\ job[r].op = "restorePublic" => Restoring(r)
  /\ job[r].op \in {"restoreAuth", "login"} => Comparing(r)
  /\ job[r].op = "loginWithGoogle" =>
       todo[r] \in Seq({"findGoogle", "findByEmail", "createGoogle"})

ProgressInv == \A r \in Requests : Progress(r)

\* Where codes are found: in the cache, in mailboxes, with who generates or
\* sends them.
Found(k, n) ==
  \/ \E v \in Versions : code[k][v] = n
  \/ <<k, n>> \in mailed
  \/ \E r \in Requests : job[r].op \in SendOps /\ Key(r) = k /\ token[r] = n

OneKey ==
  \A n \in Codes : \A k, l \in Keys : Found(k, n) /\ Found(l, n) => k = l /\ n <= issued

\* A code in the cache that was spent was written back, or lies under an older
\* version.
OutOfReach(k, v) ==
  \/ code[k][v] = None \/ <<k, code[k][v]>> \notin spent
  \/ <<k, code[k][v]>> \in revived
  \/ k \in setBack
  \/ v < version[k]

BackAgain == \A k \in Keys : \A v \in Versions : OutOfReach(k, v)

\* What is cached, and what a request counts on, is as old as the counter.
VersionsInv ==
  /\ \A k \in Keys \ setBack : \A v \in Versions : code[k][v] # None => v <= version[k]
  /\ \A r \in Requests : IF job[r].op = "idle" THEN seen[r] = 0
                          ELSE Key(r) \in setBack \/ seen[r] <= version[Key(r)]

\* A step leaves the cached codes, or removes some.
CodesOnlyGo == \A k \in Keys : \A v \in Versions : code'[k][v] \in {code[k][v], None}

\* Nobody sets a password in the Google row.
GoogleHasNone ==
  \A e \in Emails : account[e]["google"] # "no row" => account[e]["google"] = "no password"

-----------------------------------------------------------------------------
\* What is left of a list of steps, and a step put before it.
LEMMA TailStays ==
  ASSUME NEW S, NEW q \in Seq(S), q # <<>>
  PROVE  Tail(q) \in Seq(S) /\ Head(q) \in S
  BY HeadTailProperties

LEMMA Prepended ==
  ASSUME NEW S, NEW q \in Seq(S), NEW x \in S
  PROVE  <<x>> \o q \in Seq(S)
<1>1. <<x>> \in Seq(S)
  OBVIOUS
<1> QED
  BY <1>1, ConcatProperties

LEMMA PrependedTwo ==
  ASSUME NEW S, NEW q \in Seq(S), NEW x \in S, NEW y \in S
  PROVE  <<x, y>> \o q \in Seq(S)
<1>1. <<x, y>> \in Seq(S)
  OBVIOUS
<1> QED
  BY <1>1, ConcatProperties

LEMMA HeadOfPrepended ==
  ASSUME NEW S, NEW q \in Seq(S), NEW x
  PROVE  Head(<<x>> \o q) = x
  OBVIOUS

LEMMA HeadOfPrependedTwo ==
  ASSUME NEW S, NEW q \in Seq(S), NEW x, NEW y
  PROVE  Head(<<x, y>> \o q) = x
  OBVIOUS

LEMMA FewInSeq ==
  ASSUME NEW S, NEW a \in S, NEW b \in S, NEW c \in S, NEW d \in S
  PROVE  <<a>> \in Seq(S) /\ <<a, b>> \in Seq(S) /\ <<a, b, c, d>> \in Seq(S)
  OBVIOUS

LEMMA TailOfTwo ==
  ASSUME NEW a, NEW b
  PROVE  Tail(<<a, b>>) = <<b>>
  OBVIOUS

LEMMA TailOfThree ==
  ASSUME NEW a, NEW b, NEW c
  PROVE  Tail(<<a, b, c>>) = <<b, c>>
  OBVIOUS

LEMMA TailOfFour ==
  ASSUME NEW a, NEW b, NEW c, NEW d
  PROVE  Tail(<<a, b, c, d>>) = <<b, c, d>>
  OBVIOUS

LEMMA StepsTyped ==
  ASSUME NEW op \in Operations
  PROVE  StepsOf(op) \in Seq(Steps)
<1>1. CASE op = "sendToken"
  BY <1>1 DEF StepsOf, Steps
<1>2. CASE op = "resendToken"
  BY <1>2 DEF StepsOf, Steps
<1>3. CASE op = "register"
  BY <1>3 DEF StepsOf, RegisterSteps, Steps
<1>4. CASE op = "restorePublic"
  BY <1>4 DEF StepsOf, Steps
<1>5. CASE op = "restoreAuth"
  BY <1>5 DEF StepsOf, Steps
<1>6. CASE op = "login"
  BY <1>6 DEF StepsOf, Steps
<1>7. CASE op = "loginWithGoogle"
  BY <1>7 DEF StepsOf, Steps
<1> QED
  BY <1>1, <1>2, <1>3, <1>4, <1>5, <1>6, <1>7 DEF Operations

-----------------------------------------------------------------------------
(* Types.                                                                  *)

DbType ==
  /\ customers \subseteq Emails
  /\ account \in [Emails -> [Providers -> Secrets]]
  /\ \A e \in Emails : Rows(e) # {} <=> e \in customers

CodeType ==
  /\ code \in [Keys -> [Versions -> Codes \cup {None}]]
  /\ version \in [Keys -> Versions]
  /\ expiries \in 0 .. MaxExpiries
  /\ issued \in Codes \cup {None}

TodoType == todo \in [Requests -> Seq(Steps)]

RequestType ==
  /\ job \in [Requests -> Job \cup {[op |-> "idle"]}]
  /\ token \in [Requests -> Codes \cup {None}]
  /\ seen \in [Requests -> Versions]
  /\ row \in [Requests -> [provider : Providers, secret : Secrets]]

HistoryType ==
  /\ mailed \subseteq Uses /\ accepted \subseteq Uses /\ spent \subseteq Uses
  /\ revived \subseteq Uses /\ reused \subseteq Uses /\ setBack \subseteq Keys
  /\ password \in [Emails -> Secrets]

LEMMA TypeParts == TypeOK <=> DbType /\ CodeType /\ TodoType /\ RequestType /\ HistoryType
  BY DEF TypeOK, DbType, CodeType, TodoType, RequestType, HistoryType

LEMMA TypePartsNext ==
  DbType' /\ CodeType' /\ TodoType' /\ RequestType' /\ HistoryType' => TypeOK'
  BY DEF TypeOK, DbType, CodeType, TodoType, RequestType, HistoryType

LEMMA VersionsInt ==
  /\ 0 \in Versions /\ 0 \in 0 .. MaxExpiries
  /\ \A v \in Versions : v \in Int /\ 0 <= v /\ v <= v /\ ~(v < v)
  /\ \A v \in Versions : v < MaxVersion => v + 1 \in Versions
<1>1. MaxVersion \in Nat /\ MaxExpiries \in Nat
  BY AccountsAssumption
<1> QED
  BY <1>1 DEF Versions

LEMMA TypeInit ==
  ASSUME Init
  PROVE  TypeOK
<1>1. DbType
  BY DEF Init, DbType, Rows, Secrets
<1>2. CodeType
  <2>1. /\ code = [k \in Keys |-> [v \in Versions |-> 0]]
        /\ version = [k \in Keys |-> 0] /\ issued = 0 /\ expiries = 0
    BY DEF Init, None
  <2>2. 0 \in Versions /\ 0 \in 0 .. MaxExpiries
    BY VersionsInt
  <2> QED
    BY <2>1, <2>2 DEF CodeType, None
<1>3. TodoType
  BY EmptySeq DEF Init, TodoType
<1>4. RequestType
  <2>1. 0 \in Versions
    BY VersionsInt
  <2> QED
    BY <2>1 DEF Init, RequestType, Providers, Secrets
<1>5. HistoryType
  BY DEF Init, HistoryType, Secrets
<1> QED
  BY <1>1, <1>2, <1>3, <1>4, <1>5, TypeParts

\* Another code may be generated.
LEMMA NextCode ==
  ASSUME CodeType, issued < MaxCode
  PROVE  issued + 1 \in Codes
<1>1. MaxCode \in Nat
  BY AccountsAssumption
<1>2. issued \in 1 .. MaxCode \/ issued = 0
  BY DEF CodeType, Codes, None
<1> QED
  BY <1>1, <1>2 DEF Codes

LEMMA CodesAreNone ==
  ASSUME NEW n \in Codes
  PROVE  n # None
  BY DEF Codes, None

LEMMA JobTyped ==
  ASSUME NEW r \in Requests, NEW j \in Jobs[r]
  PROVE  /\ j \in Job /\ j.op \in Operations /\ j.key \in Keys
         /\ j.op = "register" => j.key.kind = "verification"
<1>1. j \in Job
  BY AccountsAssumption
<1> QED
  BY <1>1 DEF Job

\* A request with steps ahead has a job.
LEMMA NotIdle ==
  ASSUME RequestType, ProgressInv, NEW r \in Requests, todo[r] # <<>>
  PROVE  /\ job[r] \in Job /\ Key(r) \in Keys /\ Email(r) \in Emails
         /\ Key(r).email = Email(r)
<1>1. job[r].op # "idle"
  BY DEF ProgressInv, Progress
<1>2. job[r] \in Job
  BY <1>1 DEF RequestType
<1> QED
  BY <1>2 DEF Job, Key, Email, Keys

\* Which request takes a step, and what holds when it does.
LEMMA HeadStep ==
  ASSUME RequestType, ProgressInv, NEW r \in Requests, todo[r] # <<>>
  PROVE  /\ job[r].op \in Operations
         /\ job[r].op \in SendOps =>
              /\ Head(todo[r]) \in SendSteps
              /\ Head(todo[r]) \notin {"findToken", "lookAgain"} => token[r] # None
         /\ job[r].op \in {"register", "restorePublic"} => token[r] # None
         /\ job[r].op = "register" =>
              \/ Head(todo[r]) = "validateToken"
              \/ Head(todo[r]) \in {"writeBack", "createCustomer", "removeToken"} /\ Accepted(r)
         /\ job[r].op = "restorePublic" =>
              \/ Head(todo[r]) = "readAccount"
              \/ Head(todo[r]) = "validateToken" /\ HasRead(r)
              \/ /\ Head(todo[r]) \in {"writeBack", "setPassword", "removeToken"}
                 /\ Accepted(r) /\ HasRead(r)
         /\ job[r].op \in {"restoreAuth", "login"} =>
              \/ Head(todo[r]) = "readAccount"
              \/ Head(todo[r]) \in {"checkOld", "setPassword"} /\ HasRead(r)
         /\ job[r].op = "loginWithGoogle" =>
              Head(todo[r]) \in {"findGoogle", "findByEmail", "createGoogle"}
<1>1. Progress(r)
  BY DEF ProgressInv
<1>2. job[r].op \in Operations
  BY <1>1 DEF Progress, RequestType, Job
<1>3. /\ job[r].op \in SendOps =>
           /\ Head(todo[r]) \in SendSteps
           /\ Head(todo[r]) \notin {"findToken", "lookAgain"} => token[r] # None
      /\ job[r].op \in {"register", "restorePublic"} => token[r] # None
  BY <1>1, TailStays DEF Progress, Sending
<1>4. ASSUME job[r].op = "register"
      PROVE  \/ Head(todo[r]) = "validateToken"
             \/ Head(todo[r]) \in {"writeBack", "createCustomer", "removeToken"} /\ Accepted(r)
  BY <1>1, <1>4, TailStays DEF Progress, Registering, RegisterSteps
<1>5. ASSUME job[r].op = "restorePublic"
      PROVE  \/ Head(todo[r]) = "readAccount"
             \/ Head(todo[r]) = "validateToken" /\ HasRead(r)
             \/ /\ Head(todo[r]) \in {"writeBack", "setPassword", "removeToken"}
                /\ Accepted(r) /\ HasRead(r)
  BY <1>1, <1>5, TailStays DEF Progress, Restoring
<1>6. ASSUME job[r].op \in {"restoreAuth", "login"}
      PROVE  \/ Head(todo[r]) = "readAccount"
             \/ Head(todo[r]) \in {"checkOld", "setPassword"} /\ HasRead(r)
  <2>1. Comparing(r)
    BY <1>1, <1>6 DEF Progress
  <2>2. CASE todo[r] = StepsOf(job[r].op)
    BY <1>6, <2>2 DEF StepsOf
  <2> QED
    BY <2>1, <2>2, TailStays DEF Comparing
<1>7. job[r].op = "loginWithGoogle" =>
        Head(todo[r]) \in {"findGoogle", "findByEmail", "createGoogle"}
  BY <1>1, TailStays DEF Progress
<1> QED
  BY <1>2, <1>3, <1>4, <1>5, <1>6, <1>7

LEMMA DbTypeStep ==
  ASSUME TypeOK, ProgressInv, [Next]_vars
  PROVE  DbType'
<1> USE TypeParts DEF DbType
<1>1. ASSUME NEW r \in Requests, CreateCustomer(r)
      PROVE  DbType'
  <2>1. Email(r) \in Emails /\ job[r] \in Job
    BY <1>1, NotIdle DEF CreateCustomer, At
  <2>2. job[r].new \in Secrets /\ job[r].new # "no row"
    BY <2>1, AccountsAssumption DEF Job, Secrets
  <2>3. PICK e \in Emails, p \in Secrets \ {"no row"} :
          /\ account' = [account EXCEPT ![e]["credentials"] = p]
          /\ customers' = customers \cup {e}
    BY <1>1, <2>1, <2>2 DEF CreateCustomer
  <2>4. account' \in [Emails -> [Providers -> Secrets]]
    BY <2>3
  <2>5. "credentials" \in Rows(e)'
    BY <2>3 DEF Rows, Providers
  <2>6. \A x \in Emails \ {e} : Rows(x)' = Rows(x)
    BY <2>3 DEF Rows
  <2> QED
    BY <2>3, <2>4, <2>5, <2>6
<1>2. ASSUME NEW r \in Requests, CreateGoogle(r)
      PROVE  DbType'
  <2>1. Email(r) \in Emails
    BY <1>2, NotIdle DEF CreateGoogle, At
  <2>2. PICK e \in Emails :
          /\ account' = [account EXCEPT ![e]["google"] = "no password"]
          /\ customers' = customers \cup {e}
    BY <1>2, <2>1 DEF CreateGoogle
  <2>3. account' \in [Emails -> [Providers -> Secrets]]
    BY <2>2 DEF Secrets
  <2>4. "google" \in Rows(e)'
    BY <2>2 DEF Rows, Providers
  <2>5. \A x \in Emails \ {e} : Rows(x)' = Rows(x)
    BY <2>2 DEF Rows
  <2> QED
    BY <2>2, <2>3, <2>4, <2>5
<1>3. ASSUME NEW r \in Requests, SetPassword(r)
      PROVE  DbType'
  <2>1. Email(r) \in Emails /\ job[r] \in Job
    BY <1>3, NotIdle DEF SetPassword, At
  <2>2. job[r].new \in Secrets /\ job[r].new # "no row"
    BY <2>1, AccountsAssumption DEF Job, Secrets
  <2>3. Email(r) \in customers
    BY <1>3, HeadStep DEF SetPassword, At, HasRead, SendOps, SendSteps, Operations
  <2>4. PICK e \in customers, p \in Secrets \ {"no row"}, q \in Providers :
          /\ account' = [account EXCEPT ![e][q] = p]
          /\ customers' = customers
    BY <1>3, <2>2, <2>3 DEF SetPassword, RequestType
  <2>5. account' \in [Emails -> [Providers -> Secrets]]
    BY <2>4
  <2>6. q \in Rows(e)'
    BY <2>4 DEF Rows
  <2>7. \A x \in Emails \ {e} : Rows(x)' = Rows(x)
    BY <2>4 DEF Rows
  <2> QED
    BY <2>4, <2>5, <2>6, <2>7
<1>4. ASSUME UNCHANGED dbVars
      PROVE  DbType'
  BY <1>4 DEF dbVars, Rows
<1>5. ASSUME NEW r \in Requests,
             \/ Receive(r) \/ Fails(r) \/ FindToken(r)
             \/ WriteBack(r, "saveToken") \/ WriteBack(r, "writeBack")
             \/ SendEmail(r) \/ LookAgain(r) \/ Count(r) \/ Invalidate(r)
             \/ ValidateToken(r) \/ RemoveToken(r) \/ ReadAccount(r) \/ CheckOld(r) \/ FindGoogle(r) \/ FindByEmail(r)
      PROVE  UNCHANGED dbVars
  BY <1>5 DEF Receive, Fails, FindToken, WriteBack, SendEmail, LookAgain, Count,
              Invalidate, ValidateToken, RemoveToken, ReadAccount, CheckOld, FindGoogle, FindByEmail
<1>6. ASSUME NEW k \in Keys, VersionExpires(k) \/ \E v \in Versions : Expires(k, v)
      PROVE  UNCHANGED dbVars
  BY <1>6 DEF Expires, VersionExpires
<1> QED
  BY <1>1, <1>2, <1>3, <1>4, <1>5, <1>6 DEF Next, vars

LEMMA CodeTypeStep ==
  ASSUME TypeOK, ProgressInv, [Next]_vars
  PROVE  CodeType'
<1> USE TypeParts DEF CodeType
<1>1. ASSUME NEW r \in Requests, NEW s, WriteBack(r, s)
      PROVE  CodeType'
  <2>1. Key(r) \in Keys /\ token[r] \in Codes \cup {None} /\ seen[r] \in Versions
    BY <1>1, NotIdle DEF WriteBack, At, RequestType
  <2>2. code' = [code EXCEPT ![Key(r)][seen[r]] = token[r]]
    BY <1>1 DEF WriteBack
  <2> QED
    BY <1>1, <2>1, <2>2 DEF WriteBack
<1>2. ASSUME NEW r \in Requests, FindToken(r)
      PROVE  CodeType'
  <2>1. issued < MaxCode => issued + 1 \in Codes
    BY NextCode
  <2> QED
    BY <1>2, <2>1 DEF FindToken
<1>3. ASSUME NEW r \in Requests, Invalidate(r)
      PROVE  CodeType'
  <2>1. Key(r) \in Keys /\ seen[r] \in Versions
    BY <1>3, NotIdle DEF Invalidate, At, RequestType
  <2>2. seen[r] + 1 \in Versions
    BY <1>3, <2>1, VersionsInt DEF Invalidate
  <2> QED
    BY <1>3, <2>1, <2>2 DEF Invalidate
<1>4. ASSUME NEW r \in Requests, RemoveToken(r)
      PROVE  CodeType'
  <2>1. Key(r) \in Keys
    BY <1>4, NotIdle DEF RemoveToken, At
  <2> QED
    BY <1>4, <2>1 DEF RemoveToken
<1>5. ASSUME NEW k \in Keys, NEW v \in Versions, Expires(k, v)
      PROVE  CodeType'
  BY <1>5 DEF Expires
<1>6. ASSUME NEW k \in Keys, VersionExpires(k)
      PROVE  CodeType'
  <2>1. 0 \in Versions
    BY VersionsInt
  <2>2. expiries + 1 \in 0 .. MaxExpiries
    <3>1. MaxExpiries \in Nat
      BY AccountsAssumption
    <3> QED
      BY <1>6, <3>1 DEF VersionExpires
  <2> QED
    BY <1>6, <2>1, <2>2 DEF VersionExpires
<1>7. ASSUME UNCHANGED codeVars
      PROVE  CodeType'
  BY <1>7 DEF codeVars
<1>8. ASSUME NEW r \in Requests,
             \/ Receive(r) \/ Fails(r) \/ SendEmail(r) \/ LookAgain(r) \/ Count(r)
             \/ ValidateToken(r)
             \/ CreateCustomer(r) \/ ReadAccount(r) \/ CheckOld(r) \/ SetPassword(r)
             \/ FindGoogle(r) \/ FindByEmail(r) \/ CreateGoogle(r)
      PROVE  UNCHANGED codeVars
  BY <1>8 DEF Receive, Fails, SendEmail, LookAgain, Count, ValidateToken, CreateCustomer,
              ReadAccount, CheckOld, SetPassword, FindGoogle, FindByEmail, CreateGoogle
<1> QED
  BY <1>1, <1>2, <1>3, <1>4, <1>5, <1>6, <1>7, <1>8 DEF Next, vars

LEMMA TodoTypeStep ==
  ASSUME TypeOK, ProgressInv, [Next]_vars
  PROVE  TodoType'
<1> USE TypeParts DEF TodoType
<1>1. ASSUME NEW r \in Requests, todo[r] # <<>>
      PROVE  /\ <<>> \in Seq(Steps) /\ Tail(todo[r]) \in Seq(Steps)
             /\ <<"saveToken">> \o Tail(todo[r]) \in Seq(Steps)
             /\ <<"writeBack">> \o Tail(todo[r]) \in Seq(Steps)
             /\ <<"findToken", "sendEmail">> \o Tail(todo[r]) \in Seq(Steps)
  <2>1. Tail(todo[r]) \in Seq(Steps)
    BY <1>1, TailStays
  <2> QED
    BY <2>1, Prepended, PrependedTwo, EmptySeq DEF Steps
<1>2. ASSUME NEW r \in Requests, Receive(r)
      PROVE  TodoType'
  <2>1. PICK j \in Jobs[r] : todo' = [todo EXCEPT ![r] = StepsOf(j.op)]
    BY <1>2 DEF Receive
  <2>2. j.op \in Operations
    BY JobTyped
  <2> QED
    BY <2>1, <2>2, StepsTyped
<1>3. ASSUME NEW r \in Requests,
             \/ Fails(r) \/ FindToken(r) \/ SendEmail(r) \/ LookAgain(r) \/ Count(r)
             \/ Invalidate(r) \/ ValidateToken(r) \/ RemoveToken(r)
      PROVE  TodoType'
  BY <1>1, <1>3 DEF Fails, FindToken, SendEmail, LookAgain, Count, Invalidate,
                    ValidateToken, RemoveToken, At, Continue, End
<1>4. ASSUME NEW r \in Requests,
             \/ WriteBack(r, "saveToken") \/ WriteBack(r, "writeBack")
             \/ CreateCustomer(r) \/ ReadAccount(r) \/ CheckOld(r) \/ SetPassword(r)
             \/ FindGoogle(r) \/ FindByEmail(r) \/ CreateGoogle(r)
      PROVE  TodoType'
  BY <1>1, <1>4 DEF WriteBack, CreateCustomer, ReadAccount, CheckOld, SetPassword, FindGoogle,
                    FindByEmail, CreateGoogle, At, Continue, End
<1>5. ASSUME UNCHANGED todo
      PROVE  TodoType'
  BY <1>5
<1> QED
  BY <1>2, <1>3, <1>4, <1>5 DEF Next, vars, requestVars, Expires, VersionExpires

LEMMA RequestTypeStep ==
  ASSUME TypeOK, ProgressInv, [Next]_vars
  PROVE  RequestType'
<1> USE TypeParts DEF RequestType
<1>1. ASSUME NEW r \in Requests, Receive(r)
      PROVE  RequestType'
  <2>1. PICK j \in Jobs[r], t \in {m[2] : m \in mailed} \cup {None} :
          job' = [job EXCEPT ![r] = j] /\ token' = [token EXCEPT ![r] = t]
    BY <1>1 DEF Receive
  <2>2. j \in Job
    BY JobTyped
  <2>3. t \in Codes \cup {None}
    <3>1. \A m \in Uses : m[2] \in Codes
      BY DEF Uses
    <3> QED
      BY <3>1 DEF HistoryType
  <2> QED
    BY <1>1, <2>1, <2>2, <2>3 DEF Receive
<1>2. ASSUME NEW r \in Requests, FindToken(r)
      PROVE  RequestType'
  <2>1. Key(r) \in Keys
    BY <1>2, NotIdle DEF FindToken, At
  <2>2. issued < MaxCode => issued + 1 \in Codes
    BY NextCode
  <2>3. Current(Key(r)) \in Codes \cup {None} /\ version[Key(r)] \in Versions
    BY <2>1 DEF CodeType, Current
  <2>4. token' \in [Requests -> Codes \cup {None}]
    BY <1>2, <2>2, <2>3 DEF FindToken
  <2>5. seen' \in [Requests -> Versions]
    BY <1>2, <2>3 DEF FindToken
  <2> QED
    BY <1>2, <2>4, <2>5 DEF FindToken
<1>3. ASSUME NEW r \in Requests, LookAgain(r) \/ Count(r) \/ ValidateToken(r)
      PROVE  RequestType'
  <2>1. Key(r) \in Keys
    BY <1>3, NotIdle DEF LookAgain, Count, ValidateToken, At
  <2>2. version[Key(r)] \in Versions /\ Current(Key(r)) \in Codes \cup {None}
    BY <2>1 DEF CodeType, Current
  <2> QED
    BY <1>3, <2>2 DEF LookAgain, Count, ValidateToken
<1>4. ASSUME NEW r \in Requests, ReadAccount(r)
      PROVE  RequestType'
  <2>1. Email(r) \in Emails
    BY <1>4, NotIdle DEF ReadAccount, At
  <2>2. PICK p \in Rows(Email(r)) :
          row' = [row EXCEPT ![r] = [provider |-> p, secret |-> account[Email(r)][p]]]
    BY <1>4 DEF ReadAccount
  <2>3. p \in Providers /\ account[Email(r)][p] \in Secrets
    BY <2>1 DEF Rows, DbType
  <2> QED
    BY <1>4, <2>2, <2>3 DEF ReadAccount
<1>5. ASSUME NEW r \in Requests, FindByEmail(r)
      PROVE  RequestType'
  <2>1. PICK p \in Providers : row' = [row EXCEPT ![r].provider = p]
    BY <1>5 DEF FindByEmail, Providers
  <2> QED
    BY <1>5, <2>1 DEF FindByEmail
<1>6. ASSUME UNCHANGED <<job, token, seen, row>>
      PROVE  RequestType'
  BY <1>6
<1>7. ASSUME NEW r \in Requests,
             \/ Fails(r) \/ WriteBack(r, "saveToken") \/ WriteBack(r, "writeBack")
             \/ SendEmail(r) \/ Invalidate(r) \/ RemoveToken(r) \/ CreateCustomer(r)
             \/ CheckOld(r) \/ SetPassword(r) \/ FindGoogle(r) \/ CreateGoogle(r)
      PROVE  UNCHANGED <<job, token, seen, row>>
  BY <1>7 DEF Fails, WriteBack, SendEmail, Invalidate, RemoveToken, CreateCustomer, CheckOld,
              SetPassword, FindGoogle, CreateGoogle
<1> QED
  BY <1>1, <1>2, <1>3, <1>4, <1>5, <1>6, <1>7 DEF Next, vars, requestVars, Expires,
     VersionExpires

LEMMA HistoryTypeStep ==
  ASSUME TypeOK, ProgressInv, [Next]_vars
  PROVE  HistoryType'
<1> USE TypeParts DEF HistoryType
<1>1. ASSUME NEW r \in Requests, NEW s, s \in {"saveToken", "writeBack"}, WriteBack(r, s)
      PROVE  HistoryType'
  BY <1>1 DEF WriteBack
<1>2. ASSUME NEW r \in Requests, todo[r] # <<>>, Head(todo[r]) \in {"sendEmail", "removeToken"}
      PROVE  <<Key(r), token[r]>> \in Uses
  <2>1. token[r] # None
    BY <1>2, HeadStep DEF SendOps, SendSteps, Operations
  <2> QED
    BY <1>2, <2>1, NotIdle DEF RequestType, Uses
<1>3. ASSUME NEW r \in Requests, SendEmail(r) \/ RemoveToken(r)
      PROVE  HistoryType'
  <2>1. <<Key(r), token[r]>> \in Uses
    BY <1>2, <1>3 DEF SendEmail, RemoveToken, At
  <2> QED
    BY <1>3, <2>1 DEF SendEmail, RemoveToken
<1>4. ASSUME NEW r \in Requests, ValidateToken(r)
      PROVE  HistoryType'
  <2>1. <<Key(r), token[r]>> \in Uses
    <3>1. token[r] # None
      BY <1>4, HeadStep DEF ValidateToken, At, SendOps, SendSteps, Operations
    <3> QED
      BY <1>4, <3>1, NotIdle DEF ValidateToken, At, RequestType, Uses
  <2> QED
    BY <1>4, <2>1 DEF ValidateToken
<1>5. ASSUME NEW r \in Requests, CreateCustomer(r) \/ SetPassword(r)
      PROVE  HistoryType'
  <2>1. Email(r) \in Emails /\ job[r].new \in Secrets
    BY <1>5, NotIdle DEF CreateCustomer, SetPassword, At, Job, Secrets
  <2> QED
    BY <1>5, <2>1 DEF CreateCustomer, SetPassword
<1>6. ASSUME UNCHANGED history
      PROVE  HistoryType'
  BY <1>6 DEF history
<1>8. ASSUME NEW r \in Requests, Invalidate(r)
      PROVE  HistoryType'
  <2>1. Key(r) \in Keys
    BY <1>8, NotIdle DEF Invalidate, At
  <2> QED
    BY <1>8, <2>1 DEF Invalidate
<1>9. ASSUME NEW k \in Keys, VersionExpires(k)
      PROVE  HistoryType'
  BY <1>9 DEF VersionExpires
<1>7. ASSUME NEW r \in Requests,
             \/ Receive(r) \/ Fails(r) \/ FindToken(r) \/ LookAgain(r) \/ Count(r)
             \/ ReadAccount(r) \/ CheckOld(r) \/ FindGoogle(r) \/ FindByEmail(r) \/ CreateGoogle(r)
      PROVE  UNCHANGED history
  BY <1>7 DEF Receive, Fails, FindToken, LookAgain, Count, ReadAccount, CheckOld,
              FindGoogle, FindByEmail, CreateGoogle
<1> QED
  BY <1>1, <1>3, <1>4, <1>5, <1>6, <1>7, <1>8, <1>9 DEF Next, vars, Expires

LEMMA TypeStep ==
  ASSUME TypeOK, ProgressInv, [Next]_vars
  PROVE  TypeOK'
  BY DbTypeStep, CodeTypeStep, TodoTypeStep, RequestTypeStep, HistoryTypeStep, TypePartsNext

-----------------------------------------------------------------------------
(* Progress of the requests.                                               *)

\* A step takes nothing from requests it does not touch ...
LEMMA OthersProgress ==
  ASSUME NEW q \in Requests, Progress(q),
         todo'[q] = todo[q], job'[q] = job[q], token'[q] = token[q], row'[q] = row[q],
         accepted \subseteq accepted', customers \subseteq customers'
  PROVE  Progress(q)'
<1>1. Accepted(q) => Accepted(q)'
  BY DEF Accepted, Key
<1>2. HasRead(q) => HasRead(q)'
  BY DEF HasRead, Email
<1>3. Key(q)' = Key(q)
  BY DEF Key
<1>4. Sending(q) => Sending(q)'
  BY DEF Sending
<1>5. Registering(q) => Registering(q)'
  BY <1>1 DEF Registering
<1>6. Restoring(q) => Restoring(q)'
  BY <1>1, <1>2 DEF Restoring
<1>7. Comparing(q) => Comparing(q)'
  BY <1>2 DEF Comparing
<1> QED
  BY <1>3, <1>4, <1>5, <1>6, <1>7 DEF Progress

\* ... and one that only goes on needs nothing more, unless it is the step
\* that reads the account or looks at the code.
LEMMA GoesOn ==
  ASSUME NEW r \in Requests, RequestType, ProgressInv, todo[r] # <<>>,
         Head(todo[r]) \notin {"readAccount", "validateToken", "findToken", "lookAgain"},
         todo'[r] \in {Tail(todo[r]), <<>>},
         job'[r] = job[r], token'[r] = token[r],
         row'[r] = row[r] \/ job[r].op = "loginWithGoogle",
         accepted \subseteq accepted', customers \subseteq customers'
  PROVE  Progress(r)'
<1>1. Progress(r) /\ job[r].op \in Operations
  BY HeadStep DEF ProgressInv
<1>2. Key(r)' = Key(r)
  BY DEF Key
<1>3. Accepted(r) => Accepted(r)'
  BY DEF Accepted, Key
<1>4. row'[r] = row[r] /\ HasRead(r) => HasRead(r)'
  BY DEF HasRead, Email
<1>5. ASSUME NEW S, todo[r] \in Seq(S)
      PROVE  todo'[r] \in Seq(S)
  <2>1. Tail(todo[r]) \in Seq(S)
    BY <1>5, TailStays
  <2>2. <<>> \in Seq(S)
    BY EmptySeq
  <2> QED
    BY <2>1, <2>2
<1>6. CASE job[r].op \in SendOps
  <2>1. Sending(r)
    BY <1>1, <1>6 DEF Progress
  <2>2. token[r] # None
    BY <1>6, HeadStep
  <2>3. Sending(r)'
    BY <1>5, <2>1, <2>2 DEF Sending
  <2> QED
    BY <1>6, <2>3 DEF Progress, SendOps
<1>7. CASE job[r].op = "register"
  <2>1. Registering(r) /\ Key(r).kind = "verification" /\ token[r] # None
    BY <1>1, <1>7 DEF Progress
  <2>2. Registering(r)'
    <3>1. todo[r] # RegisterSteps
      BY DEF RegisterSteps
    <3> QED
      BY <1>3, <1>5, <2>1, <3>1 DEF Registering
  <2> QED
    BY <1>2, <1>7, <2>1, <2>2 DEF Progress, SendOps
<1>8. CASE job[r].op = "restorePublic"
  <2>1. Restoring(r) /\ token[r] # None /\ row'[r] = row[r]
    BY <1>1, <1>8 DEF Progress
  <2>2. Restoring(r)'
    BY <1>3, <1>4, <1>5, <2>1 DEF Restoring
  <2> QED
    BY <1>8, <2>1, <2>2 DEF Progress, SendOps
<1>9. CASE job[r].op \in {"restoreAuth", "login"}
  <2>1. Comparing(r) /\ row'[r] = row[r]
    BY <1>1, <1>9 DEF Progress
  <2>2. todo[r] # StepsOf(job[r].op)
    BY <1>9 DEF StepsOf
  <2>3. Comparing(r)'
    BY <1>4, <1>5, <2>1, <2>2 DEF Comparing
  <2> QED
    BY <1>9, <2>3 DEF Progress, SendOps
<1>10. CASE job[r].op = "loginWithGoogle"
  BY <1>1, <1>5, <1>10 DEF Progress, SendOps
<1> QED
  BY <1>1, <1>6, <1>7, <1>8, <1>9, <1>10 DEF Operations, SendOps

LEMMA ProgressInit ==
  ASSUME Init
  PROVE  ProgressInv
  BY DEF Init, ProgressInv, Progress, SendOps

\* Every step leaves every request where Progress says.
LEMMA ProgressStep ==
  ASSUME TypeOK, ProgressInv, GoogleHasNone, [Next]_vars
  PROVE  ProgressInv'
<1> USE TypeParts
<1>1. ASSUME UNCHANGED requestVars, UNCHANGED <<accepted, customers>>
      PROVE  ProgressInv'
  BY <1>1, OthersProgress DEF ProgressInv, requestVars
<1>2. ASSUME NEW r \in Requests, Progress(r)',
             \A q \in Requests \ {r} : /\ todo'[q] = todo[q] /\ job'[q] = job[q]
                                       /\ token'[q] = token[q] /\ row'[q] = row[q],
             accepted \subseteq accepted', customers \subseteq customers'
      PROVE  ProgressInv'
  <2>1. ASSUME NEW q \in Requests \ {r}
        PROVE  Progress(q)'
    BY <1>2, <2>1, OthersProgress DEF ProgressInv
  <2> QED
    BY <1>2, <2>1 DEF ProgressInv
<1>3. ASSUME NEW r \in Requests, Receive(r)
      PROVE  ProgressInv'
  <2>1. PICK j \in Jobs[r], t \in {m[2] : m \in mailed} \cup {None} :
          /\ (j.op \in {"register", "restorePublic"}) = (t # None)
          /\ job' = [job EXCEPT ![r] = j]
          /\ token' = [token EXCEPT ![r] = t]
          /\ todo' = [todo EXCEPT ![r] = StepsOf(j.op)]
    BY <1>3 DEF Receive
  <2>2. /\ j.op \in Operations
        /\ j.op = "register" => j.key.kind = "verification"
    BY JobTyped
  <2>3. job'[r] = j /\ token'[r] = t /\ todo'[r] = StepsOf(j.op) /\ Key(r)' = j.key
    BY <2>1 DEF RequestType, TodoType, Key
  <2>4. ASSUME j.op \in SendOps
        PROVE  Sending(r)'
    <3>1. \/ todo'[r] = <<"findToken", "sendEmail">>
          \/ todo'[r] = <<"lookAgain", "count", "invalidate", "findToken", "sendEmail">>
      BY <2>3, <2>4 DEF StepsOf, SendOps
    <3>2. todo'[r] \in Seq(SendSteps) /\ Head(todo'[r]) \in {"findToken", "lookAgain"}
      <4>1. CASE todo'[r] = <<"findToken", "sendEmail">>
        BY <4>1, FewInSeq DEF SendSteps
      <4>2. CASE todo'[r] = <<"lookAgain", "count", "invalidate", "findToken", "sendEmail">>
        BY <4>2, FewInSeq DEF SendSteps
      <4> QED
        BY <3>1, <4>1, <4>2
    <3> QED
      BY <3>2 DEF Sending
  <2>5. ASSUME j.op = "loginWithGoogle"
        PROVE  todo'[r] \in Seq({"findGoogle", "findByEmail", "createGoogle"})
    BY <2>3, <2>5 DEF StepsOf
  <2>6. ASSUME j.op = "register"
        PROVE  Registering(r)'
    BY <2>3, <2>6 DEF Registering, StepsOf
  <2>7. ASSUME j.op = "restorePublic"
        PROVE  Restoring(r)'
    BY <2>3, <2>7 DEF Restoring, StepsOf
  <2>8. ASSUME j.op \in {"restoreAuth", "login"}
        PROVE  Comparing(r)'
    BY <2>3, <2>8 DEF Comparing
  <2>9. Progress(r)'
    BY <2>1, <2>2, <2>3, <2>4, <2>5, <2>6, <2>7, <2>8 DEF Progress, Operations
  <2> QED
    BY <1>2, <1>3, <2>1, <2>9 DEF Receive, history, dbVars, RequestType, TodoType
<1>4. ASSUME NEW r \in Requests, Fails(r)
      PROVE  ProgressInv'
  <2>1. todo'[r] = <<>>
    BY <1>4 DEF Fails, End, TodoType
  <2>2. Progress(r) /\ Key(r)' = Key(r) /\ job' = job /\ token' = token
    BY <1>4 DEF ProgressInv, Fails, Key
  <2>3. \A S : <<>> \in Seq(S)
    BY EmptySeq
  <2>4. Progress(r)'
    BY <2>1, <2>2, <2>3 DEF Progress, Sending, Registering, Restoring, Comparing
  <2> QED
    BY <1>2, <1>4, <2>4 DEF Fails, End, history, dbVars, TodoType
<1>5. ASSUME NEW r \in Requests, FindToken(r)
      PROVE  ProgressInv'
  <2>1. job[r].op \in SendOps /\ Sending(r)
    BY <1>5, HeadStep DEF FindToken, At, ProgressInv, Progress, SendOps, Operations
  <2>2. todo'[r] = <<"saveToken">> \o Tail(todo[r])
    BY <1>5 DEF FindToken, TodoType
  <2>3. Tail(todo[r]) \in Seq(SendSteps)
    BY <1>5, <2>1, TailStays DEF FindToken, At, Sending
  <2>4. todo'[r] \in Seq(SendSteps) /\ Head(todo'[r]) = "saveToken"
    BY <2>2, <2>3, Prepended, HeadOfPrepended DEF SendSteps
  <2>5. token'[r] # None
    <3>1. Key(r) \in Keys
      BY <1>5, NotIdle DEF FindToken, At
    <3>2. issued < MaxCode => issued + 1 \in Codes
      BY NextCode
    <3>3. issued < MaxCode => issued + 1 # None
      BY <3>2, CodesAreNone
    <3> QED
      BY <1>5, <3>3 DEF FindToken, RequestType
  <2>6. Progress(r)'
    BY <1>5, <2>1, <2>4, <2>5 DEF Progress, Sending, FindToken, SendOps
  <2> QED
    BY <1>2, <1>5, <2>6 DEF FindToken, history, dbVars, TodoType, RequestType
<1>6. ASSUME NEW r \in Requests, LookAgain(r)
      PROVE  ProgressInv'
  <2>1. job[r].op \in SendOps /\ Sending(r)
    BY <1>6, HeadStep DEF LookAgain, At, ProgressInv, Progress, SendOps, Operations
  <2>2. Tail(todo[r]) \in Seq(SendSteps)
    BY <1>6, <2>1, TailStays DEF LookAgain, At, Sending
  <2>3. /\ token'[r] = Current(Key(r))
        /\ todo'[r] = IF Current(Key(r)) = None
             THEN <<"findToken", "sendEmail">> \o Tail(todo[r])
             ELSE <<"writeBack">> \o Tail(todo[r])
    BY <1>6 DEF LookAgain, TodoType, RequestType
  <2>4. ASSUME Current(Key(r)) = None
       PROVE  Progress(r)'
    <3>1. todo'[r] \in Seq(SendSteps) /\ Head(todo'[r]) = "findToken"
      BY <2>2, <2>3, <2>4, PrependedTwo, HeadOfPrependedTwo DEF SendSteps
    <3> QED
      BY <1>6, <2>1, <3>1 DEF Progress, Sending, LookAgain, SendOps
  <2>5. ASSUME Current(Key(r)) # None
       PROVE  Progress(r)'
    <3>1. todo'[r] \in Seq(SendSteps)
      BY <2>2, <2>3, <2>5, Prepended DEF SendSteps
    <3> QED
      BY <1>6, <2>1, <2>3, <2>5, <3>1 DEF Progress, Sending, LookAgain, SendOps
  <2>6. Progress(r)'
    BY <2>4, <2>5
  <2> QED
    BY <1>2, <1>6, <2>6 DEF LookAgain, history, dbVars, TodoType, RequestType
<1>7. ASSUME NEW r \in Requests, ValidateToken(r)
      PROVE  ProgressInv'
  <2>1. /\ job[r].op \in {"register", "restorePublic"}
        /\ Head(todo[r]) = "validateToken" /\ todo[r] # <<>> /\ Progress(r)
    BY <1>7, HeadStep DEF ValidateToken, At, ProgressInv, SendOps, SendSteps, Operations
  <2>2. /\ todo'[r] = <<"writeBack">> \o Tail(todo[r])
        /\ Accepted(r)' /\ Key(r)' = Key(r) /\ job' = job /\ token' = token
    BY <1>7 DEF ValidateToken, Accepted, Key, TodoType
  <2>3. ASSUME job[r].op = "register"
       PROVE  Progress(r)'
    <3>1. todo[r] = RegisterSteps
      BY <2>1, <2>3, TailStays DEF Progress, Registering
    <3>2. todo'[r] \in Seq({"writeBack", "createCustomer", "removeToken"})
      BY <2>2, <3>1, TailOfThree, Prepended DEF RegisterSteps
    <3>3. Registering(r)'
      BY <2>2, <3>2 DEF Registering
    <3> QED
      BY <2>1, <2>2, <2>3, <3>3 DEF Progress, SendOps
  <2>4. ASSUME job[r].op = "restorePublic"
       PROVE  Progress(r)'
    <3>1. todo[r] = <<"validateToken", "setPassword", "removeToken">> /\ HasRead(r)
      BY <2>1, <2>4, TailStays DEF Progress, Restoring
    <3>2. todo'[r] \in Seq({"writeBack", "setPassword", "removeToken"})
      BY <2>2, <3>1, TailOfThree, Prepended
    <3>3. HasRead(r)'
      BY <1>7, <3>1 DEF HasRead, Email, ValidateToken, dbVars
    <3>4. Restoring(r)'
      BY <2>2, <3>2, <3>3 DEF Restoring
    <3> QED
      BY <2>1, <2>2, <2>4, <3>4 DEF Progress, SendOps
  <2>5. Progress(r)'
    BY <2>1, <2>3, <2>4
  <2> QED
    BY <1>2, <1>7, <2>5 DEF ValidateToken, dbVars, TodoType, RequestType
<1>8. ASSUME NEW r \in Requests, ReadAccount(r)
      PROVE  ProgressInv'
  <2>1. /\ job[r].op \in {"restorePublic", "restoreAuth", "login"}
        /\ Head(todo[r]) = "readAccount" /\ todo[r] # <<>> /\ Progress(r)
    BY <1>8, HeadStep DEF ReadAccount, At, ProgressInv, SendOps, SendSteps, Operations
  <2>2. todo'[r] = Tail(todo[r]) /\ Key(r)' = Key(r) /\ job' = job /\ token' = token
    BY <1>8 DEF ReadAccount, Continue, Key, TodoType
  <2>3. HasRead(r)'
    <3>1. PICK p \in Rows(Email(r)) :
            row' = [row EXCEPT ![r] = [provider |-> p, secret |-> account[Email(r)][p]]]
      BY <1>8 DEF ReadAccount
    <3>2. row'[r].provider = p /\ row'[r].secret = account[Email(r)][p]
      BY <3>1 DEF RequestType
    <3>3. Email(r) \in Emails /\ account[Email(r)][p] # "no row"
      BY <2>1, <3>1, NotIdle DEF Rows
    <3> QED
      BY <1>8, <3>2, <3>3 DEF HasRead, GoogleHasNone, Email, ReadAccount, dbVars
  <2>4. ASSUME job[r].op = "restorePublic"
       PROVE  Progress(r)'
    <3>1. todo[r] = <<"readAccount", "validateToken", "setPassword", "removeToken">>
      BY <2>1, <2>4, TailStays DEF Progress, Restoring
    <3>2. Restoring(r)'
      BY <2>2, <2>3, <3>1, TailOfFour DEF Restoring
    <3> QED
      BY <2>1, <2>2, <2>4, <3>2 DEF Progress, SendOps
  <2>5. ASSUME job[r].op \in {"restoreAuth", "login"}
       PROVE  Progress(r)'
    <3>1. todo[r] = StepsOf(job[r].op)
      BY <2>1, <2>5, TailStays DEF Progress, Comparing
    <3>2. \/ todo[r] = <<"readAccount", "checkOld", "setPassword">>
          \/ todo[r] = <<"readAccount", "checkOld">>
      BY <2>5, <3>1 DEF StepsOf
    <3>3. todo'[r] \in Seq({"checkOld", "setPassword"})
      <4>1. CASE todo[r] = <<"readAccount", "checkOld", "setPassword">>
        BY <2>2, <4>1, TailOfThree, FewInSeq
      <4>2. CASE todo[r] = <<"readAccount", "checkOld">>
        BY <2>2, <4>2, TailOfTwo, FewInSeq
      <4> QED
        BY <3>2, <4>1, <4>2
    <3>4. Comparing(r)'
      BY <2>3, <3>3 DEF Comparing
    <3> QED
      BY <2>2, <2>5, <3>4 DEF Progress, SendOps
  <2>6. Progress(r)'
    BY <2>1, <2>4, <2>5
  <2> QED
    BY <1>2, <1>8, <2>6 DEF ReadAccount, Continue, history, dbVars, TodoType, RequestType
<1>9. ASSUME NEW r \in Requests,
             \/ WriteBack(r, "saveToken") \/ WriteBack(r, "writeBack")
             \/ SendEmail(r) \/ Count(r) \/ Invalidate(r) \/ RemoveToken(r)
      PROVE  ProgressInv'
  <2>1. /\ todo[r] # <<>> /\ todo' = [todo EXCEPT ![r] = Tail(@)]
        /\ Head(todo[r]) \in {"saveToken", "writeBack", "sendEmail", "count", "invalidate",
                             "removeToken"}
        /\ UNCHANGED <<job, token, row, accepted, customers>>
    BY <1>9 DEF WriteBack, SendEmail, Count, Invalidate, RemoveToken, At, Continue, history, dbVars
  <2>2. Progress(r)'
    BY <2>1, GoesOn DEF TodoType
  <2> QED
    BY <1>2, <2>1, <2>2 DEF TodoType
<1>10. ASSUME NEW r \in Requests,
              CreateCustomer(r) \/ CheckOld(r) \/ SetPassword(r) \/ CreateGoogle(r)
      PROVE  ProgressInv'
  <2>1. /\ todo[r] # <<>> /\ todo' = [todo EXCEPT ![r] = Tail(@)]
        /\ Head(todo[r]) \in {"createCustomer", "checkOld", "setPassword", "createGoogle"}
        /\ UNCHANGED <<job, token, row, accepted>> /\ customers \subseteq customers'
    BY <1>10 DEF CreateCustomer, CheckOld, SetPassword, CreateGoogle, At, Continue, history, dbVars
  <2>2. Progress(r)'
    BY <2>1, GoesOn DEF TodoType
  <2> QED
    BY <1>2, <2>1, <2>2 DEF TodoType
<1>11. ASSUME NEW r \in Requests, FindGoogle(r) \/ FindByEmail(r)
      PROVE  ProgressInv'
  <2>1. /\ todo[r] # <<>> /\ todo'[r] \in {Tail(todo[r]), <<>>}
        /\ Head(todo[r]) \in {"findGoogle", "findByEmail"}
        /\ UNCHANGED <<job, token, accepted, customers>>
        /\ \A q \in Requests \ {r} : todo'[q] = todo[q] /\ row'[q] = row[q]
    BY <1>11 DEF FindGoogle, FindByEmail, At, Continue, End, history, dbVars, TodoType, RequestType
  <2>2. job[r].op = "loginWithGoogle"
    BY <2>1, HeadStep DEF SendOps, SendSteps, Operations
  <2>3. Progress(r)'
    BY <2>1, <2>2, GoesOn
  <2> QED
    BY <1>2, <2>1, <2>3
<1>12. ASSUME NEW k \in Keys, VersionExpires(k) \/ \E v \in Versions : Expires(k, v)
      PROVE  ProgressInv'
  BY <1>1, <1>12 DEF Expires, VersionExpires, history, dbVars
<1>13. CASE UNCHANGED vars
  BY <1>1, <1>13 DEF vars, history, dbVars
<1> QED
  BY <1>3, <1>4, <1>5, <1>6, <1>7, <1>8, <1>9, <1>10, <1>11, <1>12, <1>13 DEF Next

-----------------------------------------------------------------------------
(* Accounts.                                                               *)

\* What sets a password has read a row that has one: not the Google row.
LEMMA SetsItsRow ==
  ASSUME TypeOK, ProgressInv, NEW r \in Requests, SetPassword(r)
  PROVE  /\ row[r].provider = "credentials"
         /\ Email(r) \in Emails /\ Email(r) \in customers
<1> USE TypeParts
<1>1. HasRead(r)
  BY HeadStep DEF SetPassword, At, SendOps, SendSteps, Operations
<1>2. row[r].provider \in Providers /\ row[r].secret # "no password"
  BY DEF SetPassword, Compares, RequestType
<1> QED
  BY <1>1, <1>2, NotIdle DEF HasRead, Providers, SetPassword, At

\* Registrations have had a code accepted before they create the customer.
LEMMA CreatesWithCode ==
  ASSUME TypeOK, ProgressInv, NEW r \in Requests, CreateCustomer(r)
  PROVE  Accepted(r) /\ Key(r).kind = "verification" /\ Key(r).email = Email(r) /\ Email(r) \in Emails
<1> USE TypeParts
<1>1. todo[r] # <<>> /\ Head(todo[r]) = "createCustomer"
  BY DEF CreateCustomer, At
<1>2. job[r].op = "register" /\ Accepted(r)
  BY <1>1, HeadStep DEF SendOps, SendSteps, Operations
<1> QED
  BY <1>1, <1>2, NotIdle DEF ProgressInv, Progress

AccountInv == GoogleHasNone /\ CustomersOwnTheirAddress /\ LastPasswordCounts

LEMMA AccountInit ==
  ASSUME Init
  PROVE  AccountInv
  BY DEF Init, AccountInv, GoogleHasNone, CustomersOwnTheirAddress, LastPasswordCounts, Rows, Providers

LEMMA AccountStep ==
  ASSUME TypeOK, ProgressInv, AccountInv, [Next]_vars
  PROVE  AccountInv'
<1> USE TypeParts DEF AccountInv, DbType, HistoryType
<1>1. ASSUME NEW r \in Requests, CreateCustomer(r)
      PROVE  AccountInv'
  <2>1. Email(r) \in Emails
    BY <1>1, CreatesWithCode
  <2>2. PICK e, p : /\ e \in Emails /\ e = Email(r)
                    /\ account' = [account EXCEPT ![e]["credentials"] = p]
                    /\ password' = [password EXCEPT ![e] = p]
                    /\ customers' = customers \cup {e}
    BY <1>1, <2>1 DEF CreateCustomer
  <2>3. \A x \in Emails : account'[x]["google"] = account[x]["google"]
    BY <2>2 DEF Providers
  <2>4. \A x \in Emails : x # e => account'[x] = account[x] /\ password'[x] = password[x]
    BY <2>2
  <2>5. account'[e]["credentials"] = password'[e]
    BY <2>2 DEF Providers
  <2>6. GoogleHasNone'
    BY <2>3 DEF GoogleHasNone
  <2>7. CustomersOwnTheirAddress'
    <3>1. \E use \in accepted : use[1].email = e /\ use[1].kind = "verification"
      BY <1>1, <2>2, CreatesWithCode DEF Accepted
    <3>2. accepted' = accepted
      BY <1>1 DEF CreateCustomer
    <3> QED
      BY <2>2, <2>3, <3>1, <3>2 DEF CustomersOwnTheirAddress
  <2>8. LastPasswordCounts'
    BY <2>4, <2>5, <2>6 DEF LastPasswordCounts, GoogleHasNone, Rows, Providers
  <2> QED
    BY <2>6, <2>7, <2>8
<1>2. ASSUME NEW r \in Requests, SetPassword(r)
      PROVE  AccountInv'
  <2>1. PICK e, p : /\ e \in Emails
                    /\ account' = [account EXCEPT ![e]["credentials"] = p]
                    /\ password' = [password EXCEPT ![e] = p]
                    /\ UNCHANGED <<customers, accepted>>
    BY <1>2, SetsItsRow DEF SetPassword
  <2>2. \A x \in Emails : account'[x]["google"] = account[x]["google"]
    BY <2>1 DEF Providers
  <2>3. \A x \in Emails : x # e => account'[x] = account[x] /\ password'[x] = password[x]
    BY <2>1
  <2>4. account'[e]["credentials"] = password'[e]
    BY <2>1 DEF Providers
  <2>5. GoogleHasNone'
    BY <2>2 DEF GoogleHasNone
  <2>6. CustomersOwnTheirAddress'
    <3>1. ASSUME NEW x \in customers
          PROVE  \/ account'[x]["google"] # "no row"
                 \/ \E use \in accepted : use[1].email = x /\ use[1].kind = "verification"
      BY <2>2, <3>1 DEF CustomersOwnTheirAddress
    <3> QED
      BY <2>1, <3>1 DEF CustomersOwnTheirAddress
  <2>7. LastPasswordCounts'
    BY <2>3, <2>4, <2>5 DEF LastPasswordCounts, GoogleHasNone, Rows, Providers
  <2> QED
    BY <2>5, <2>6, <2>7
<1>3. ASSUME NEW r \in Requests, CreateGoogle(r)
      PROVE  AccountInv'
  <2>1. Email(r) \in Emails
    BY <1>3, NotIdle DEF CreateGoogle, At
  <2>2. PICK e \in Emails : /\ account' = [account EXCEPT ![e]["google"] = "no password"]
                            /\ customers' = customers \cup {e}
                            /\ UNCHANGED <<password, accepted>>
    BY <1>3, <2>1 DEF CreateGoogle, history
  <2>3. account'[e]["google"] = "no password"
    BY <2>2 DEF Providers
  <2>4. \A x \in Emails : x # e => account'[x] = account[x]
    BY <2>2
  <2>5. \A x \in Emails : account'[x]["credentials"] = account[x]["credentials"]
    BY <2>2 DEF Providers
  <2>6. GoogleHasNone'
    BY <2>3, <2>4 DEF GoogleHasNone
  <2>7. CustomersOwnTheirAddress'
    <3>1. ASSUME NEW x \in customers
          PROVE  \/ account'[x]["google"] # "no row"
                 \/ \E use \in accepted : use[1].email = x /\ use[1].kind = "verification"
      BY <2>3, <2>4, <3>1 DEF CustomersOwnTheirAddress
    <3> QED
      BY <2>2, <2>3, <3>1 DEF CustomersOwnTheirAddress
  <2>8. LastPasswordCounts'
    BY <2>2, <2>5, <2>6 DEF LastPasswordCounts, GoogleHasNone, Rows, Providers
  <2> QED
    BY <2>6, <2>7, <2>8
<1>4. ASSUME UNCHANGED <<dbVars, password>>, accepted \subseteq accepted'
      PROVE  AccountInv'
  BY <1>4 DEF dbVars, GoogleHasNone, CustomersOwnTheirAddress, LastPasswordCounts, Rows
<1>5. ASSUME NEW r \in Requests,
             \/ Receive(r) \/ Fails(r) \/ FindToken(r)
             \/ WriteBack(r, "saveToken") \/ WriteBack(r, "writeBack")
             \/ SendEmail(r) \/ LookAgain(r) \/ Count(r) \/ Invalidate(r)
             \/ ValidateToken(r) \/ RemoveToken(r) \/ ReadAccount(r) \/ CheckOld(r) \/ FindGoogle(r) \/ FindByEmail(r)
      PROVE  UNCHANGED <<dbVars, password>> /\ accepted \subseteq accepted'
  BY <1>5 DEF Receive, Fails, FindToken, WriteBack, SendEmail, LookAgain, Count,
              Invalidate, ValidateToken, RemoveToken, ReadAccount, CheckOld, FindGoogle, FindByEmail, history
<1>6. ASSUME NEW k \in Keys, VersionExpires(k) \/ \E v \in Versions : Expires(k, v)
      PROVE  UNCHANGED <<dbVars, password>> /\ accepted \subseteq accepted'
  BY <1>6 DEF Expires, VersionExpires, history
<1>7. ASSUME UNCHANGED vars
      PROVE  UNCHANGED <<dbVars, password>> /\ accepted \subseteq accepted'
  BY <1>7 DEF vars, history
<1> QED
  BY <1>1, <1>2, <1>3, <1>4, <1>5, <1>6, <1>7 DEF Next

-----------------------------------------------------------------------------
(* Codes.                                                                  *)

\* Who presents a code has found it in a mailbox, for whatever key.
Presented ==
  \A r \in Requests :
    job[r].op \in {"register", "restorePublic"} => \E k \in Keys : <<k, token[r]>> \in mailed

LEMMA PresentedStep ==
  ASSUME TypeOK, ProgressInv, Presented, [Next]_vars
  PROVE  Presented'
<1> USE TypeParts
<1>1. ASSUME NEW r \in Requests, Receive(r)
      PROVE  Presented'
  <2>1. PICK j \in Jobs[r], t \in {m[2] : m \in mailed} \cup {None} :
          /\ (j.op \in {"register", "restorePublic"}) = (t # None)
          /\ job' = [job EXCEPT ![r] = j]
          /\ token' = [token EXCEPT ![r] = t]
    BY <1>1 DEF Receive
  <2>2. mailed' = mailed
    BY <1>1 DEF Receive, history
  <2>3. ASSUME t # None
        PROVE  \E k \in Keys : <<k, t>> \in mailed
    <3>1. PICK m \in mailed : t = m[2]
      BY <2>1, <2>3
    <3>2. m \in Keys \X Codes
      BY DEF HistoryType, Uses
    <3>3. m[1] \in Keys /\ m = <<m[1], m[2]>>
      BY <3>2
    <3> QED
      BY <3>1, <3>3
  <2> QED
    BY <2>1, <2>2, <2>3 DEF Presented, RequestType
<1>2. ASSUME mailed \subseteq mailed', UNCHANGED <<job, token>>
      PROVE  Presented'
  BY <1>2 DEF Presented
<1>3. ASSUME NEW r \in Requests, FindToken(r) \/ LookAgain(r)
      PROVE  Presented'
  <2>1. job[r].op \in SendOps
    BY <1>3, HeadStep DEF FindToken, LookAgain, At, SendOps, Operations
  <2>2. UNCHANGED <<mailed, job>> /\ \A q \in Requests \ {r} : token'[q] = token[q]
    BY <1>3 DEF FindToken, LookAgain, history, RequestType
  <2> QED
    BY <2>1, <2>2 DEF Presented, SendOps
<1>4. ASSUME NEW r \in Requests,
             \/ Fails(r) \/ WriteBack(r, "saveToken") \/ WriteBack(r, "writeBack")
             \/ SendEmail(r) \/ Count(r) \/ Invalidate(r) \/ ValidateToken(r)
             \/ RemoveToken(r)
             \/ CreateCustomer(r) \/ ReadAccount(r) \/ CheckOld(r) \/ SetPassword(r)
             \/ FindGoogle(r) \/ FindByEmail(r) \/ CreateGoogle(r)
      PROVE  mailed \subseteq mailed' /\ UNCHANGED <<job, token>>
  BY <1>4 DEF Fails, WriteBack, SendEmail, Count, Invalidate, ValidateToken, RemoveToken,
              CreateCustomer, ReadAccount, CheckOld, SetPassword, FindGoogle, FindByEmail, CreateGoogle, history
<1>5. ASSUME NEW k \in Keys, VersionExpires(k) \/ \E v \in Versions : Expires(k, v)
      PROVE  mailed \subseteq mailed' /\ UNCHANGED <<job, token>>
  BY <1>5 DEF Expires, VersionExpires, history, requestVars
<1>6. ASSUME UNCHANGED vars
      PROVE  mailed \subseteq mailed' /\ UNCHANGED <<job, token>>
  BY <1>6 DEF vars, history, requestVars
<1> QED
  BY <1>1, <1>2, <1>3, <1>4, <1>5, <1>6 DEF Next

\* The new code is one nobody has found.
LEMMA NewCode ==
  ASSUME CodeType, NEW n \in Codes
  PROVE  /\ n = issued + 1 => ~(n <= issued)
         /\ n <= issued => n <= issued + 1
         /\ issued + 1 <= issued + 1
<1>1. issued \in Int /\ n \in Int
  BY DEF CodeType, Codes, None
<1> QED
  BY <1>1

\* Steps that move codes about without generating one keep each to its key.
LEMMA OneKeyStays ==
  ASSUME OneKey, issued' = issued,
         \A k \in Keys : \A n \in Codes : Found(k, n)' => Found(k, n)
  PROVE  OneKey'
  BY DEF OneKey

CodeInv ==
  /\ OneKey /\ Presented /\ VersionsInv
  /\ AcceptedWasMailed /\ BackAgain /\ SpentUnlessRevived

LEMMA CodeInit ==
  ASSUME Init
  PROVE  CodeInv
<1>1. \A r \in Requests : job[r].op = "idle"
  BY DEF Init
<1>2. \A k \in Keys : \A n \in Codes : ~Found(k, n)
  BY <1>1, CodesAreNone DEF Init, Found, SendOps
<1>3. OneKey
  BY <1>2 DEF OneKey
<1>4. Presented
  BY <1>1 DEF Presented
<1>5. AcceptedWasMailed /\ BackAgain /\ SpentUnlessRevived
  BY DEF Init, AcceptedWasMailed, BackAgain, OutOfReach, SpentUnlessRevived
<1>6. VersionsInv
  BY <1>1 DEF Init, VersionsInv
<1> QED
  BY <1>3, <1>4, <1>5, <1>6 DEF CodeInv

\* The code that is accepted was mailed for the key it is accepted for.
LEMMA AcceptsMailed ==
  ASSUME TypeOK, ProgressInv, OneKey, Presented, NEW r \in Requests, ValidateToken(r)
  PROVE  <<Key(r), token[r]>> \in mailed /\ token[r] # None
<1> USE TypeParts
<1>1. job[r].op \in {"register", "restorePublic"} /\ token[r] # None
  BY HeadStep DEF ValidateToken, At, SendOps, SendSteps, Operations
<1>2. token[r] \in Codes /\ Key(r) \in Keys
  BY <1>1, NotIdle DEF RequestType, ValidateToken, At
<1>3. PICK k \in Keys : <<k, token[r]>> \in mailed
  BY <1>1 DEF Presented
<1>4. Found(k, token[r]) /\ Found(Key(r), token[r])
  <2>1. code[Key(r)][version[Key(r)]] = token[r] /\ version[Key(r)] \in Versions
    BY <1>2 DEF ValidateToken, Current, CodeType
  <2> QED
    BY <1>3, <2>1 DEF Found
<1>5. k = Key(r)
  BY <1>2, <1>4 DEF OneKey
<1> QED
  BY <1>1, <1>3, <1>5

\* What a request writes to the cache was found for its key.
LEMMA WritesFound ==
  ASSUME TypeOK, ProgressInv, AcceptedWasMailed, NEW r \in Requests,
         WriteBack(r, "saveToken") \/ WriteBack(r, "writeBack")
  PROVE  Found(Key(r), token[r]) /\ Key(r) \in Keys /\ seen[r] \in Versions
<1> USE TypeParts
<1>1. todo[r] # <<>> /\ Head(todo[r]) \in {"saveToken", "writeBack"}
  BY DEF WriteBack, At
<1>2. job[r].op \in SendOps \/ Accepted(r)
  BY <1>1, HeadStep DEF SendOps, SendSteps, Operations
<1> QED
  BY <1>1, <1>2, NotIdle DEF Found, Accepted, AcceptedWasMailed, RequestType

LEMMA Removes ==
  ASSUME TypeOK, ProgressInv, NEW r \in Requests, RemoveToken(r)
  PROVE  /\ CodesOnlyGo
         /\ Key(r) \in Keys /\ code'[Key(r)][version[Key(r)]] = None
<1> USE TypeParts DEF CodeType
<1>1. Key(r) \in Keys
  BY NotIdle DEF RemoveToken, At
<1>2. code' = [code EXCEPT ![Key(r)][version[Key(r)]] = None]
  BY DEF RemoveToken
<1> QED
  BY <1>1, <1>2 DEF CodesOnlyGo

LEMMA ExpiryRemoves ==
  ASSUME TypeOK, NEW k \in Keys, NEW v \in Versions, Expires(k, v)
  PROVE  CodesOnlyGo
  BY TypeParts DEF CodeType, Expires, CodesOnlyGo

LEMMA OneKeyStep ==
  ASSUME TypeOK, ProgressInv, OneKey, AcceptedWasMailed, [Next]_vars
  PROVE  OneKey'
<1> USE TypeParts
<1>1. ASSUME CodesOnlyGo, UNCHANGED <<mailed, job, token, issued>>
      PROVE  OneKey'
  <2>1. ASSUME NEW k \in Keys, NEW n \in Codes, Found(k, n)'
        PROVE  Found(k, n)
    BY <1>1, <2>1, CodesAreNone DEF Found, Key, CodesOnlyGo
  <2> QED
    BY <1>1, <2>1, OneKeyStays
<1>2. ASSUME NEW r \in Requests, Receive(r)
      PROVE  OneKey'
  <2>1. PICK j, t : /\ (j.op \in {"register", "restorePublic"}) = (t # None)
                    /\ job' = [job EXCEPT ![r] = j]
                    /\ token' = [token EXCEPT ![r] = t]
    BY <1>2 DEF Receive
  <2>2. UNCHANGED <<code, mailed, issued>>
    BY <1>2 DEF Receive, codeVars, history
  <2>3. ASSUME NEW k \in Keys, NEW n \in Codes, Found(k, n)'
        PROVE  Found(k, n)
    BY <2>1, <2>2, <2>3, CodesAreNone DEF Found, Key, SendOps, RequestType
  <2> QED
    BY <2>2, <2>3, OneKeyStays
<1>3. ASSUME NEW r \in Requests, FindToken(r), Current(Key(r)) # None
      PROVE  OneKey'
  <2>1. /\ UNCHANGED <<code, mailed, issued, job>>
        /\ token' = [token EXCEPT ![r] = Current(Key(r))]
    BY <1>3 DEF FindToken, history
  <2>2. Key(r) \in Keys /\ version[Key(r)] \in Versions
    BY <1>3, NotIdle DEF FindToken, At, CodeType
  <2>3. ASSUME NEW k \in Keys, NEW n \in Codes, Found(k, n)'
        PROVE  Found(k, n)
    BY <2>1, <2>2, <2>3 DEF Found, Current, Key, RequestType
  <2> QED
    BY <2>1, <2>3, OneKeyStays
<1>4. ASSUME NEW r \in Requests, LookAgain(r)
      PROVE  OneKey'
  <2>1. /\ UNCHANGED <<code, mailed, issued, job>>
        /\ token' = [token EXCEPT ![r] = Current(Key(r))]
    BY <1>4 DEF LookAgain, history, codeVars
  <2>2. Key(r) \in Keys /\ version[Key(r)] \in Versions
    BY <1>4, NotIdle DEF LookAgain, At, CodeType
  <2>3. ASSUME NEW k \in Keys, NEW n \in Codes, Found(k, n)'
        PROVE  Found(k, n)
    BY <2>1, <2>2, <2>3 DEF Found, Current, Key, RequestType
  <2> QED
    BY <2>1, <2>3, OneKeyStays
<1>5. ASSUME NEW r \in Requests, FindToken(r), Current(Key(r)) = None
      PROVE  OneKey'
  <2>1. /\ UNCHANGED <<code, mailed, job>>
        /\ issued < MaxCode /\ issued' = issued + 1
        /\ token' = [token EXCEPT ![r] = issued + 1]
    BY <1>5 DEF FindToken, history
  <2>2. PICK m \in Codes : m = issued + 1
    BY <2>1, NextCode
  <2>3. ASSUME NEW k \in Keys, NEW n \in Codes, Found(k, n)'
        PROVE  Found(k, n) \/ (n = m /\ k = Key(r))
    BY <2>1, <2>2, <2>3 DEF Found, Key, RequestType
  <2>4. \A n \in Codes : \A k \in Keys : Found(k, n) => n <= issued /\ n # m
    BY <2>2, NewCode DEF OneKey
  <2>5. \A n \in Codes : n <= issued \/ n = m => n <= issued'
    BY <2>1, <2>2, NewCode
  <2>6. ASSUME NEW n \in Codes, NEW k \in Keys, NEW l \in Keys, Found(k, n)', Found(l, n)'
        PROVE  k = l /\ n <= issued'
    BY <2>3, <2>4, <2>5, <2>6 DEF OneKey
  <2> QED
    BY <2>6 DEF OneKey
<1>6. ASSUME NEW r \in Requests, WriteBack(r, "saveToken") \/ WriteBack(r, "writeBack")
      PROVE  OneKey'
  <2>1. \A k \in Keys : \A v \in Versions :
           code'[k][v] = code[k][v] \/ (k = Key(r) /\ code'[k][v] = token[r])
    <3>1. code' = [code EXCEPT ![Key(r)][seen[r]] = token[r]]
      BY <1>6 DEF WriteBack
    <3> QED
      BY <1>6, <3>1, WritesFound DEF CodeType
  <2>2. UNCHANGED <<issued, mailed, job, token>>
    BY <1>6 DEF WriteBack
  <2>3. ASSUME NEW k \in Keys, NEW n \in Codes, Found(k, n)'
        PROVE  Found(k, n)
    BY <1>6, <2>1, <2>2, <2>3, WritesFound DEF Found, Key
  <2> QED
    BY <2>2, <2>3, OneKeyStays
<1>7. ASSUME NEW r \in Requests, SendEmail(r)
      PROVE  OneKey'
  <2>1. job[r].op \in SendOps
    BY <1>7, HeadStep DEF SendEmail, At, SendOps, Operations
  <2>2. UNCHANGED <<issued, code, job, token>> /\ mailed' = mailed \cup {<<Key(r), token[r]>>}
    BY <1>7 DEF SendEmail, codeVars
  <2>3. ASSUME NEW k \in Keys, NEW n \in Codes, Found(k, n)'
        PROVE  Found(k, n)
    BY <2>1, <2>2, <2>3 DEF Found, Key
  <2> QED
    BY <2>2, <2>3, OneKeyStays
<1>8. ASSUME NEW r \in Requests, RemoveToken(r)
      PROVE  OneKey'
  BY <1>1, <1>8, Removes DEF RemoveToken
<1>9. ASSUME NEW l \in Keys, NEW w \in Versions, Expires(l, w)
      PROVE  OneKey'
  BY <1>1, <1>9, ExpiryRemoves DEF Expires, history, requestVars
<1>10. ASSUME UNCHANGED <<code, mailed, job, token, issued>>
       PROVE  OneKey'
  BY <1>1, <1>10 DEF CodesOnlyGo
<1>11. ASSUME NEW r \in Requests,
              \/ Fails(r) \/ Count(r) \/ Invalidate(r) \/ ValidateToken(r)
              \/ CreateCustomer(r) \/ ReadAccount(r) \/ CheckOld(r) \/ SetPassword(r)
              \/ FindGoogle(r) \/ FindByEmail(r) \/ CreateGoogle(r)
       PROVE  UNCHANGED <<code, mailed, job, token, issued>>
  BY <1>11 DEF Fails, Count, Invalidate, ValidateToken, CreateCustomer, ReadAccount, CheckOld,
               SetPassword, FindGoogle, FindByEmail, CreateGoogle, history, codeVars
<1>12. ASSUME UNCHANGED vars \/ \E k \in Keys : VersionExpires(k)
       PROVE  UNCHANGED <<code, mailed, job, token, issued>>
  BY <1>12 DEF vars, history, requestVars, codeVars, VersionExpires
<1> QED
  BY <1>2, <1>3, <1>4, <1>5, <1>6, <1>7, <1>8, <1>9, <1>10, <1>11, <1>12 DEF Next

\* A counter that does not go up is one that has been set back.
LEMMA CountsUp ==
  ASSUME TypeOK, ProgressInv, NEW r \in Requests, Invalidate(r)
  PROVE  /\ setBack \subseteq setBack'
         /\ \A k \in Keys : k \in setBack' \/ version[k] <= version'[k]
<1> USE TypeParts DEF CodeType
<1>1. Key(r) \in Keys /\ seen[r] \in Versions
  BY NotIdle DEF Invalidate, At, RequestType
<1>2. /\ version' = [version EXCEPT ![Key(r)] = seen[r] + 1]
      /\ setBack' = IF seen[r] + 1 < version[Key(r)] THEN setBack \cup {Key(r)} ELSE setBack
  BY DEF Invalidate
<1>3. \A v \in Versions : v \in Int
  BY VersionsInt
<1>4. ASSUME NEW k \in Keys
      PROVE  k \in setBack' \/ version[k] <= version'[k]
  <2>1. version[k] \in Int /\ seen[r] \in Int /\ version[Key(r)] \in Int
    BY <1>1, <1>3
  <2>2. CASE k = Key(r)
    BY <1>1, <1>2, <2>1, <2>2
  <2>3. CASE k # Key(r)
    BY <1>2, <2>1, <2>3
  <2> QED
    BY <2>2, <2>3
<1> QED
  BY <1>2, <1>4

LEMMA StartsOver ==
  ASSUME TypeOK, NEW l \in Keys, VersionExpires(l)
  PROVE  /\ setBack \subseteq setBack'
         /\ \A k \in Keys : k \in setBack' \/ version[k] <= version'[k]
<1> USE TypeParts DEF CodeType
<1>1. \A v \in Versions : v <= v
  BY VersionsInt
<1>2. version' = [version EXCEPT ![l] = 0] /\ setBack' = setBack \cup {l}
  BY DEF VersionExpires
<1> QED
  BY <1>1, <1>2

\* Counters go up, or their key is known to have been set back; what is
\* written is written under a version that was current.
LEMMA VersionsStep ==
  ASSUME TypeOK, ProgressInv, AcceptedWasMailed, VersionsInv, [Next]_vars
  PROVE  VersionsInv'
<1> USE TypeParts DEF VersionsInv
<1>1. \A v \in Versions : v \in Int /\ 0 <= v /\ v <= v
  BY VersionsInt
<1>2. ASSUME CodesOnlyGo, UNCHANGED <<version, setBack, job, seen>>
      PROVE  VersionsInv'
  BY <1>2 DEF CodesOnlyGo, Key
<1>3. ASSUME NEW r \in Requests, Receive(r)
      PROVE  VersionsInv'
  <2>1. PICK j \in Jobs[r] : job' = [job EXCEPT ![r] = j]
    BY <1>3 DEF Receive
  <2>2. j.op # "idle" /\ j.key \in Keys
    BY JobTyped DEF Operations
  <2>3. /\ UNCHANGED <<code, version, setBack, seen>> /\ job[r].op = "idle"
        /\ \A q \in Requests : job'[q] = IF q = r THEN j ELSE job[q]
    BY <1>3, <2>1 DEF Receive, codeVars, history, RequestType
  <2>4. seen[r] = 0 /\ 0 <= version[j.key]
    BY <1>1, <2>2, <2>3 DEF CodeType
  <2> QED
    BY <2>2, <2>3, <2>4 DEF Key
<1>4. ASSUME NEW r \in Requests,
             FindToken(r) \/ LookAgain(r) \/ Count(r) \/ ValidateToken(r)
      PROVE  VersionsInv'
  <2>1. /\ UNCHANGED <<code, version, setBack, job>>
        /\ seen' = [seen EXCEPT ![r] = version[Key(r)]]
    BY <1>4 DEF FindToken, LookAgain, Count, ValidateToken, codeVars, history
  <2>2. Key(r) \in Keys /\ job[r].op # "idle"
    BY <1>4, NotIdle, HeadStep DEF FindToken, LookAgain, Count, ValidateToken, At, Operations
  <2>3. version[Key(r)] <= version[Key(r)]
    BY <1>1, <2>2 DEF CodeType
  <2>4. \A q \in Requests : seen'[q] = IF q = r THEN version[Key(r)] ELSE seen[q]
    BY <2>1 DEF RequestType
  <2> QED
    BY <2>1, <2>2, <2>3, <2>4 DEF Key
<1>5. ASSUME NEW r \in Requests, WriteBack(r, "saveToken") \/ WriteBack(r, "writeBack")
      PROVE  VersionsInv'
  <2>1. /\ UNCHANGED <<version, setBack, job, seen>>
        /\ code' = [code EXCEPT ![Key(r)][seen[r]] = token[r]]
    BY <1>5 DEF WriteBack
  <2>2. job[r].op # "idle"
    BY <1>5, HeadStep DEF WriteBack, At, Operations
  <2>3. Key(r) \in setBack \/ seen[r] <= version[Key(r)]
    BY <2>2
  <2>4. \A k \in Keys : \A v \in Versions :
           code'[k][v] = code[k][v] \/ (k = Key(r) /\ v = seen[r])
    BY <1>5, <2>1, WritesFound DEF CodeType
  <2> QED
    BY <2>1, <2>3, <2>4 DEF Key
<1>6. ASSUME UNCHANGED <<code, job, seen>>, setBack \subseteq setBack',
             \A k \in Keys : k \in setBack' \/ version[k] <= version'[k]
      PROVE  VersionsInv'
  <2>1. ASSUME NEW k \in Keys, k \notin setBack', NEW v \in Versions, v <= version[k]
        PROVE  v <= version'[k]
    <3>1. version[k] \in Int /\ version'[k] \in Int /\ v \in Int
      BY <1>1, CodeTypeStep DEF CodeType
    <3> QED
      BY <1>6, <2>1, <3>1
  <2>2. ASSUME NEW k \in Keys \ setBack', NEW v \in Versions, code'[k][v] # None
        PROVE  v <= version'[k]
    BY <1>6, <2>1, <2>2
  <2>3. ASSUME NEW q \in Requests, job[q].op # "idle"
        PROVE  Key(q)' \in setBack' \/ seen'[q] <= version'[Key(q)']
    <3>1. Key(q)' = Key(q) /\ Key(q) \in Keys /\ seen[q] \in Versions
      BY <1>6, <2>3 DEF Key, RequestType, Job
    <3> QED
      BY <1>6, <2>1, <2>3, <3>1
  <2> QED
    BY <1>6, <2>2, <2>3
<1>7. ASSUME NEW r \in Requests, Invalidate(r)
      PROVE  VersionsInv'
  BY <1>6, <1>7, CountsUp DEF Invalidate
<1>8. ASSUME NEW l \in Keys, VersionExpires(l)
      PROVE  VersionsInv'
  BY <1>6, <1>8, StartsOver DEF VersionExpires, requestVars
<1>9. ASSUME NEW r \in Requests, RemoveToken(r)
      PROVE  VersionsInv'
  BY <1>2, <1>9, Removes DEF RemoveToken
<1>10. ASSUME NEW l \in Keys, NEW w \in Versions, Expires(l, w)
      PROVE  VersionsInv'
  BY <1>2, <1>10, ExpiryRemoves DEF Expires, history, requestVars
<1>11. ASSUME UNCHANGED <<code, version, setBack, job, seen>>
      PROVE  VersionsInv'
  BY <1>2, <1>11 DEF CodesOnlyGo
<1>12. ASSUME NEW r \in Requests,
             \/ Fails(r) \/ SendEmail(r) \/ CreateCustomer(r) \/ ReadAccount(r) \/ CheckOld(r)
             \/ SetPassword(r) \/ FindGoogle(r) \/ FindByEmail(r) \/ CreateGoogle(r)
      PROVE  UNCHANGED <<code, version, setBack, job, seen>>
  BY <1>12 DEF Fails, SendEmail, CreateCustomer, ReadAccount, CheckOld, SetPassword, FindGoogle,
               FindByEmail, CreateGoogle, history, codeVars
<1>13. ASSUME UNCHANGED vars
      PROVE  UNCHANGED <<code, version, setBack, job, seen>>
  BY <1>13 DEF vars, history, requestVars, codeVars
<1> QED
  BY <1>3, <1>4, <1>5, <1>7, <1>8, <1>9, <1>10, <1>11, <1>12, <1>13 DEF Next

LEMMA MailedStep ==
  ASSUME TypeOK, ProgressInv, CodeInv, [Next]_vars
  PROVE  AcceptedWasMailed'
<1> USE TypeParts DEF CodeInv, AcceptedWasMailed
<1>1. ASSUME NEW r \in Requests, ValidateToken(r)
      PROVE  AcceptedWasMailed'
  BY <1>1, AcceptsMailed DEF ValidateToken
<1>2. ASSUME mailed \subseteq mailed', UNCHANGED accepted
      PROVE  AcceptedWasMailed'
  BY <1>2
<1>3. ASSUME NEW r \in Requests,
             \/ Receive(r) \/ Fails(r) \/ FindToken(r) \/ WriteBack(r, "saveToken")
             \/ WriteBack(r, "writeBack") \/ SendEmail(r) \/ LookAgain(r) \/ Count(r)
             \/ Invalidate(r) \/ RemoveToken(r) \/ CreateCustomer(r) \/ ReadAccount(r)
             \/ CheckOld(r) \/ SetPassword(r) \/ FindGoogle(r) \/ FindByEmail(r)
             \/ CreateGoogle(r)
      PROVE  mailed \subseteq mailed' /\ UNCHANGED accepted
  BY <1>3 DEF Receive, Fails, FindToken, WriteBack, SendEmail, LookAgain, Count, Invalidate,
              RemoveToken, CreateCustomer, ReadAccount, CheckOld, SetPassword, FindGoogle,
              FindByEmail, CreateGoogle, history
<1>4. ASSUME NEW k \in Keys, VersionExpires(k) \/ \E v \in Versions : Expires(k, v)
      PROVE  mailed \subseteq mailed' /\ UNCHANGED accepted
  BY <1>4 DEF Expires, VersionExpires, history
<1>5. ASSUME UNCHANGED vars
      PROVE  mailed \subseteq mailed' /\ UNCHANGED accepted
  BY <1>5 DEF vars, history
<1> QED
  BY <1>1, <1>2, <1>3, <1>4, <1>5 DEF Next

LEMMA SpentStep ==
  ASSUME TypeOK, ProgressInv, CodeInv, [Next]_vars
  PROVE  BackAgain' /\ SpentUnlessRevived'
<1> USE TypeParts DEF CodeInv, BackAgain, SpentUnlessRevived
<1>1. \A v \in Versions : v \in Int
  BY VersionsInt
<1>2. ASSUME CodesOnlyGo, UNCHANGED <<version, spent, revived, reused, setBack>>
      PROVE  BackAgain' /\ SpentUnlessRevived'
  BY <1>2 DEF CodesOnlyGo, OutOfReach
<1>3. ASSUME NEW r \in Requests, ValidateToken(r)
      PROVE  BackAgain' /\ SpentUnlessRevived'
  <2>1. token[r] # None
    BY <1>3, AcceptsMailed
  <2>2. Key(r) \in Keys /\ code[Key(r)][version[Key(r)]] = token[r]
    BY <1>3, NotIdle DEF ValidateToken, At, Current
  <2>3. version[Key(r)] \in Versions /\ ~(version[Key(r)] < version[Key(r)])
    BY <1>1, <2>2 DEF CodeType
  <2>4. <<Key(r), token[r]>> \in spent =>
           <<Key(r), token[r]>> \in revived \/ Key(r) \in setBack
    BY <2>1, <2>2, <2>3 DEF OutOfReach
  <2>5. /\ UNCHANGED <<code, version, spent, revived, setBack>>
        /\ \A use \in reused' : \/ use \in reused
                                \/ use = <<Key(r), token[r]>> /\ use \in spent
    BY <1>3 DEF ValidateToken, codeVars
  <2>6. BackAgain'
    BY <2>5 DEF OutOfReach
  <2> QED
    BY <2>4, <2>5, <2>6
<1>4. ASSUME NEW r \in Requests, WriteBack(r, "saveToken") \/ WriteBack(r, "writeBack")
      PROVE  BackAgain' /\ SpentUnlessRevived'
  <2>1. /\ UNCHANGED <<spent, reused, version, setBack>>
        /\ revived' = revived \cup ({<<Key(r), token[r]>>} \cap spent)
        /\ code' = [code EXCEPT ![Key(r)][seen[r]] = token[r]]
    BY <1>4 DEF WriteBack
  <2>2. \A k \in Keys : \A v \in Versions :
           code'[k][v] = code[k][v] \/ (k = Key(r) /\ code'[k][v] = token[r])
    BY <1>4, <2>1, WritesFound DEF CodeType
  <2>3. ASSUME NEW k \in Keys, NEW v \in Versions
        PROVE  OutOfReach(k, v)'
    <3>1. CASE code'[k][v] = code[k][v]
      <4>1. OutOfReach(k, v)
        OBVIOUS
      <4> QED
        BY <2>1, <3>1, <4>1 DEF OutOfReach
    <3>2. CASE k = Key(r) /\ code'[k][v] = token[r]
      BY <2>1, <3>2 DEF OutOfReach
    <3> QED
      BY <2>2, <3>1, <3>2
  <2> QED
    BY <2>1, <2>3
<1>5. ASSUME NEW r \in Requests, RemoveToken(r)
      PROVE  BackAgain' /\ SpentUnlessRevived'
  <2>1. /\ UNCHANGED <<version, revived, reused, setBack>>
        /\ spent' = spent \cup {<<Key(r), token[r]>>}
    BY <1>5 DEF RemoveToken
  <2>2. ASSUME NEW k \in Keys, NEW v \in Versions, <<k, code'[k][v]>> \notin spent
        PROVE  OutOfReach(k, v)'
    <3>1. CASE k # Key(r) \/ k \in setBack \/ code'[k][v] = None
      BY <2>1, <2>2, <3>1 DEF OutOfReach
    <3>2. CASE k = Key(r) /\ k \notin setBack /\ code'[k][v] # None
      <4>1. v # version[k] /\ code[k][v] # None
        BY <1>5, <3>2, Removes DEF CodesOnlyGo
      <4>2. v <= version[k]
        BY <3>2, <4>1 DEF VersionsInv
      <4>3. v < version[k]
        <5>1. v \in Int /\ version[k] \in Int
          BY <1>1 DEF CodeType
        <5> QED
          BY <4>1, <4>2, <5>1
      <4> QED
        BY <2>1, <4>3 DEF OutOfReach
    <3> QED
      BY <3>1, <3>2
  <2>3. ASSUME NEW k \in Keys, NEW v \in Versions, <<k, code'[k][v]>> \in spent
        PROVE  OutOfReach(k, v)'
    <3>1. code'[k][v] \in {code[k][v], None} /\ OutOfReach(k, v)
      BY <1>5, Removes DEF CodesOnlyGo
    <3> QED
      BY <2>1, <2>3, <3>1 DEF OutOfReach
  <2> QED
    BY <2>1, <2>2, <2>3
<1>6. ASSUME UNCHANGED <<code, spent, revived, reused>>, setBack \subseteq setBack',
             \A k \in Keys : k \in setBack' \/ version[k] <= version'[k]
      PROVE  BackAgain' /\ SpentUnlessRevived'
  <2>1. ASSUME NEW k \in Keys, NEW v \in Versions, v < version[k]
        PROVE  k \in setBack' \/ v < version'[k]
    <3>1. version[k] \in Int /\ version'[k] \in Int /\ v \in Int
      BY <1>1, CodeTypeStep DEF CodeType
    <3> QED
      BY <1>6, <2>1, <3>1
  <2>2. ASSUME NEW k \in Keys, NEW v \in Versions
        PROVE  OutOfReach(k, v)'
    <3>1. OutOfReach(k, v)
      OBVIOUS
    <3> QED
      BY <1>6, <2>1, <3>1 DEF OutOfReach
  <2> QED
    BY <1>6, <2>2
<1>7. ASSUME NEW r \in Requests, Invalidate(r)
      PROVE  BackAgain' /\ SpentUnlessRevived'
  BY <1>6, <1>7, CountsUp DEF Invalidate
<1>8. ASSUME NEW l \in Keys, VersionExpires(l)
      PROVE  BackAgain' /\ SpentUnlessRevived'
  BY <1>6, <1>8, StartsOver DEF VersionExpires
<1>9. ASSUME NEW l \in Keys, NEW w \in Versions, Expires(l, w)
      PROVE  BackAgain' /\ SpentUnlessRevived'
  BY <1>2, <1>9, ExpiryRemoves DEF Expires, history
<1>10. ASSUME UNCHANGED <<code, version, spent, revived, reused, setBack>>
      PROVE  BackAgain' /\ SpentUnlessRevived'
  BY <1>2, <1>10 DEF CodesOnlyGo
<1>11. ASSUME NEW r \in Requests,
             \/ Receive(r) \/ Fails(r) \/ FindToken(r) \/ SendEmail(r) \/ LookAgain(r)
             \/ Count(r) \/ CreateCustomer(r) \/ ReadAccount(r) \/ CheckOld(r)
             \/ SetPassword(r) \/ FindGoogle(r) \/ FindByEmail(r) \/ CreateGoogle(r)
      PROVE  UNCHANGED <<code, version, spent, revived, reused, setBack>>
  BY <1>11 DEF Receive, Fails, FindToken, SendEmail, LookAgain, Count, CreateCustomer,
               ReadAccount, CheckOld, SetPassword, FindGoogle, FindByEmail, CreateGoogle,
               history, codeVars
<1>12. ASSUME UNCHANGED vars
      PROVE  UNCHANGED <<code, version, spent, revived, reused, setBack>>
  BY <1>12 DEF vars, history, codeVars
<1> QED
  BY <1>3, <1>4, <1>5, <1>7, <1>8, <1>9, <1>10, <1>11, <1>12 DEF Next

-----------------------------------------------------------------------------
(* Theorems.                                                               *)

IInv == TypeOK /\ ProgressInv /\ AccountInv /\ CodeInv

THEOREM Invariance == Spec => []IInv
<1>1. Init => IInv
  BY TypeInit, ProgressInit, AccountInit, CodeInit DEF IInv
<1>2. IInv /\ [Next]_vars => IInv'
  <2> SUFFICES ASSUME IInv, [Next]_vars
               PROVE  IInv'
    OBVIOUS
  <2>1. TypeOK' /\ ProgressInv' /\ AccountInv'
    BY TypeStep, ProgressStep, AccountStep DEF IInv, AccountInv
  <2>2. CodeInv'
    BY PresentedStep, OneKeyStep, VersionsStep, MailedStep, SpentStep DEF IInv, CodeInv
  <2> QED
    BY <2>1, <2>2 DEF IInv
<1> QED
  BY <1>1, <1>2, PTL DEF Spec

\* Every variable keeps its type, and exactly the customers have account rows,
\* although registrations, first logins with Google and new passwords write
\* them in steps of their own.
THEOREM TypeCorrect == Spec => []TypeOK
<1>1. IInv => TypeOK
  BY DEF IInv
<1> QED
  BY <1>1, Invariance, PTL

\* validateToken accepts a code for an address, a purpose and a session only
\* if it was mailed for exactly these, whichever requests write codes back.
THEOREM CodesReachTheirOwner == Spec => []AcceptedWasMailed
<1>1. IInv => AcceptedWasMailed
  BY DEF IInv, CodeInv
<1> QED
  BY <1>1, Invariance, PTL

\* Behind every customer stands the owner of the address: register creates it
\* after a code was accepted, loginWithGoogle with Google's word.
THEOREM OwnersRegister == Spec => []CustomersOwnTheirAddress
<1>1. IInv => CustomersOwnTheirAddress
  BY DEF IInv, AccountInv
<1> QED
  BY <1>1, Invariance, PTL

\* A code is accepted a second time only if some look-up has written it back
\* after removeData, or the counter of its key has gone back to the version
\* under which removeData left it: there is no other way.
THEOREM ReuseNeedsTheRace == Spec => []SpentUnlessRevived
<1>1. IInv => SpentUnlessRevived
  BY DEF IInv, CodeInv
<1> QED
  BY <1>1, Invariance, PTL

\* Whichever row accounts[0] is, the only password that lets a customer in is
\* the last one set by register or by one of the two ways to a new one.
THEOREM OnlyTheLastPassword == Spec => []LastPasswordCounts
<1>1. IInv => LastPasswordCounts
  BY DEF IInv, AccountInv
<1> QED
  BY <1>1, Invariance, PTL

=============================================================================
