--------------------------- MODULE BackOffice_proofs ---------------------------
(***************************************************************************)
(* Proofs about BackOffice for any tables, rows, views and requests.       *)
(*                                                                         *)
(* That views show a change which has been invalidated depends on the      *)
(* order of three requests: the one that changes, commits and invalidates, *)
(* the loads that may save what they have fetched, and others that         *)
(* invalidate too.  BehindInv says of a request that has read the versions *)
(* it invalidates, and is not raced, where its change may still be         *)
(* missing: only under versions up to the one it has read.  CountInv says  *)
(* that it then sets a higher one, which stays unless it is set back; and  *)
(* LoadInv and EntryInv that nothing is saved above the current version.   *)
(*                                                                         *)
(* That there is one superuser, one default address, one review, and that  *)
(* a flag is handed on, depends on where in its list of steps each request *)
(* stands and on what it has read.  FlagInv says of a request that no      *)
(* other has outdated: what it found still holds, and what it has written  *)
(* is what the rule lets it write.                                         *)
(***************************************************************************)
EXTENDS BackOffice, SequenceTheorems, FiniteSetTheorems, TLAPS

NoMore(q, step) == \A i \in DOMAIN q : q[i] # step

Once(q) ==
  \A i, j \in DOMAIN q : q[i] = q[j] /\ q[i] \in {"commit", "invalidate"} => i = j

Loading == {<<"lookup", "fetch", "save">>, <<"fetch", "save">>, <<"save">>}

\* Only loads fetch and save.
LoadsOnly(q) == q \in Loading \/ (NoMore(q, "fetch") /\ NoMore(q, "save"))

\* The steps ahead of a request: it commits and invalidates at most once.
StepsOf(r) ==
  /\ Once(todo[r]) /\ LoadsOnly(todo[r])
  /\ job[r].op = "idle" =>
       todo[r] = <<>> /\ r \notin dropped /\ r \notin committed /\ r \notin counting
  /\ r \in dropped => r \in counting /\ NoMore(todo[r], "invalidate")
  /\ r \in committed => NoMore(todo[r], "commit")

StepsInv == \A r \in Requests : StepsOf(r)

\* A load saves, and an entry is saved, under a version that the view has had.
LoadInv ==
  \A l \in Requests :
    (At(l, "fetch") \/ At(l, "save")) /\ job[l].view \notin setBack =>
      seen[l] <= version[job[l].view]

EntryInv == \A e \in entries : e.view \notin setBack => e.version <= version[e.view]

\* The views that a request drops and that no one has set back.
Watched(r) == (Drops(r) \cap ViewNames) \ setBack

CountInv ==
  \A r \in counting : \A v \in Watched(r) :
    /\ counted[r][v] <= version[v]
    /\ r \in dropped => counted[r][v] < version[v]

\* What misses the changes of S misses that of r, or will when r commits.
Lacks(r, S) == r \in S \/ (r \notin committed /\ todo[r] # <<>>)

\* Where the change of a request that has read the version of view v is missing.
BehindOf(r, v) ==
  /\ \A e \in entries : e.view = v /\ Lacks(r, e.missing) => e.version <= counted[r][v]
  /\ \A l \in Requests :
       At(l, "save") /\ job[l].view = v /\ Lacks(r, missing[l]) => seen[l] <= counted[r][v]

BehindInv == \A r \in counting \ raced : \A v \in Watched(r) : BehindOf(r, v)

ViewsInv == LoadInv /\ EntryInv /\ CountInv /\ BehindInv

IInv == TypeOK /\ StepsInv /\ ViewsInv

-----------------------------------------------------------------------------
(* Lists of steps.                                                         *)

LEMMA TailParts ==
  ASSUME NEW S, NEW q \in Seq(S), q # <<>>
  PROVE  /\ Tail(q) \in Seq(S)
         /\ Len(q) \in Nat \ {0}
         /\ Head(q) = q[1]
         /\ 1 \in DOMAIN q
         /\ DOMAIN Tail(q) = 1 .. Len(q) - 1
         /\ \A i \in DOMAIN Tail(q) : i + 1 \in DOMAIN q /\ Tail(q)[i] = q[i + 1]
<1>1. Len(q) \in Nat \ {0} /\ DOMAIN q = 1 .. Len(q)  BY EmptySeq
<1>2. Tail(q) \in Seq(S) /\ Len(Tail(q)) = Len(q) - 1
      /\ \A i \in 1 .. Len(Tail(q)) : Tail(q)[i] = q[i + 1]
  BY HeadTailProperties
<1>3. DOMAIN Tail(q) = 1 .. Len(q) - 1  BY <1>1, <1>2
<1> QED  BY <1>1, <1>2, <1>3

LEMMA TailNoMore ==
  ASSUME NEW S, NEW q \in Seq(S), q # <<>>, NEW step, NoMore(q, step)
  PROVE  NoMore(Tail(q), step)
BY TailParts DEF NoMore

LEMMA TailOnce ==
  ASSUME NEW S, NEW q \in Seq(S), q # <<>>, Once(q)
  PROVE  /\ Once(Tail(q))
         /\ Head(q) \in {"commit", "invalidate"} => NoMore(Tail(q), Head(q))
<1>1. Once(Tail(q))
  <2> SUFFICES ASSUME NEW i \in DOMAIN Tail(q), NEW j \in DOMAIN Tail(q),
                      Tail(q)[i] = Tail(q)[j], Tail(q)[i] \in {"commit", "invalidate"}
               PROVE  i = j
    BY DEF Once
  <2>1. i + 1 \in DOMAIN q /\ j + 1 \in DOMAIN q /\ q[i + 1] = q[j + 1]
        /\ q[i + 1] \in {"commit", "invalidate"}
    BY TailParts
  <2>2. i + 1 = j + 1  BY <2>1 DEF Once
  <2>3. i \in Int /\ j \in Int  BY TailParts
  <2> QED  BY <2>2, <2>3
<1>2. ASSUME Head(q) \in {"commit", "invalidate"}, NEW i \in DOMAIN Tail(q), Tail(q)[i] = Head(q)
      PROVE  FALSE
  <2>1. i + 1 \in DOMAIN q /\ 1 \in DOMAIN q /\ q[i + 1] = q[1] /\ q[1] \in {"commit", "invalidate"}
    BY <1>2, TailParts
  <2>2. i + 1 = 1  BY <2>1 DEF Once
  <2>3. i \in Nat \ {0}  BY TailParts
  <2> QED  BY <2>2, <2>3
<1> QED  BY <1>1, <1>2 DEF NoMore

LEMMA LoadingTails ==
  /\ Head(<<"lookup", "fetch", "save">>) = "lookup"
  /\ Tail(<<"lookup", "fetch", "save">>) = <<"fetch", "save">>
  /\ Head(<<"fetch", "save">>) = "fetch" /\ Tail(<<"fetch", "save">>) = <<"save">>
  /\ Head(<<"save">>) = "save" /\ Tail(<<"save">>) = <<>>
OBVIOUS

\* What is left of a list, and where a load stands.
LEMMA TailLoads ==
  ASSUME NEW S, NEW q \in Seq(S), q # <<>>, LoadsOnly(q)
  PROVE  /\ LoadsOnly(Tail(q))
         /\ Head(q) \notin {"lookup", "fetch", "save"} =>
              NoMore(Tail(q), "fetch") /\ NoMore(Tail(q), "save")
         /\ Tail(q) # <<>> /\ Head(Tail(q)) = "fetch" => Head(q) = "lookup"
         /\ Tail(q) # <<>> /\ Head(Tail(q)) = "save" => Head(q) = "fetch"
         /\ q \in Loading => Head(q) \in {"lookup", "fetch", "save"}
<1>1. CASE q \in Loading
  <2>1. q = <<"lookup", "fetch", "save">> \/ q = <<"fetch", "save">> \/ q = <<"save">>
    BY <1>1 DEF Loading
  <2>2. NoMore(<<>>, "fetch") /\ NoMore(<<>>, "save")  BY DEF NoMore
  <2>3. <<"fetch", "save">> \in Loading /\ <<"save">> \in Loading  BY DEF Loading
  <2>4. CASE q = <<"lookup", "fetch", "save">>
    BY <2>3, <2>4, LoadingTails DEF LoadsOnly
  <2>5. CASE q = <<"fetch", "save">>
    BY <2>3, <2>5, LoadingTails DEF LoadsOnly
  <2>6. CASE q = <<"save">>
    BY <2>2, <2>6, LoadingTails DEF LoadsOnly
  <2> QED  BY <2>1, <2>4, <2>5, <2>6
<1>2. CASE q \notin Loading
  <2>1. NoMore(q, "fetch") /\ NoMore(q, "save")  BY <1>2 DEF LoadsOnly
  <2>2. NoMore(Tail(q), "fetch") /\ NoMore(Tail(q), "save")  BY <2>1, TailNoMore
  <2>3. Tail(q) # <<>> => Head(Tail(q)) \notin {"fetch", "save"}
    <3> SUFFICES ASSUME Tail(q) # <<>>
                 PROVE  Head(Tail(q)) \notin {"fetch", "save"}
      OBVIOUS
    <3>1. Tail(q) \in Seq(S)  BY TailParts
    <3>2. 1 \in DOMAIN Tail(q) /\ Head(Tail(q)) = Tail(q)[1]  BY <3>1, TailParts
    <3> QED  BY <2>2, <3>2 DEF NoMore
  <2> QED  BY <1>2, <2>2, <2>3 DEF LoadsOnly
<1> QED  BY <1>1, <1>2

\* A version's delete that goes on.
LEMMA GoesOn ==
  ASSUME NEW q \in Seq(Steps)
  PROVE  LET p == <<"read", "promote">> \o q IN
         /\ p \in Seq(Steps)
         /\ Once(q) => Once(p)
         /\ \A step \in {"commit", "invalidate", "fetch", "save"} :
              NoMore(q, step) => NoMore(p, step)
<1> DEFINE p == <<"read", "promote">> \o q
<1>1. <<"read", "promote">> \in Seq(Steps) /\ Len(<<"read", "promote">>) = 2
      /\ <<"read", "promote">>[1] = "read" /\ <<"read", "promote">>[2] = "promote"
  BY DEF Steps
<1>2. p \in Seq(Steps) /\ Len(p) = 2 + Len(q)
      /\ \A i \in 1 .. Len(p) : p[i] = IF i <= 2 THEN <<"read", "promote">>[i] ELSE q[i - 2]
  BY <1>1, ConcatProperties
<1>3. Len(q) \in Nat /\ DOMAIN q = 1 .. Len(q) /\ DOMAIN p = 1 .. Len(p)
  BY <1>2
<1>4. ASSUME NEW i \in DOMAIN p
      PROVE  p[i] \in {"read", "promote"} \/ (i - 2 \in DOMAIN q /\ p[i] = q[i - 2])
  <2>1. CASE i = 1  BY <1>1, <1>2, <1>3, <2>1
  <2>2. CASE i = 2  BY <1>1, <1>2, <1>3, <2>2
  <2>3. CASE i > 2  BY <1>2, <1>3, <2>3
  <2> QED  BY <1>2, <1>3, <2>1, <2>2, <2>3
<1>5. DOMAIN p \subseteq Int  BY <1>3
<1> HIDE DEF p
<1>6. Once(q) => Once(p)
  <2> SUFFICES ASSUME Once(q), NEW i \in DOMAIN p, NEW j \in DOMAIN p,
                      p[i] = p[j], p[i] \in {"commit", "invalidate"}
               PROVE  i = j
    BY DEF Once
  <2>1. i - 2 \in DOMAIN q /\ p[i] = q[i - 2] /\ j - 2 \in DOMAIN q /\ p[j] = q[j - 2]
    BY <1>4
  <2>2. i - 2 = j - 2  BY <2>1 DEF Once
  <2> QED  BY <1>5, <2>2
<1>7. \A step \in {"commit", "invalidate", "fetch", "save"} : NoMore(q, step) => NoMore(p, step)
  BY <1>4 DEF NoMore
<1> QED  BY <1>2, <1>6, <1>7 DEF p

-----------------------------------------------------------------------------
(* Operations.                                                             *)

Lists ==
  {<<"read", "insert", "commit", "invalidate">>, <<"update", "commit", "invalidate">>,
   <<"read", "delete", "commit", "invalidate">>, <<"insert", "commit">>,
   <<"update", "invalidate", "commit">>, <<"delete", "commit", "invalidate">>,
   <<"insert", "invalidate", "commit">>, <<"clear", "update", "invalidate", "commit">>,
   <<"read", "delete", "invalidate", "commit">>, <<"insert", "commit", "invalidate">>,
   <<"read", "clear", "insert", "invalidate", "commit">>,
   <<"read">>,
   <<"delete", "read", "promote", "invalidate", "commit">>,
   <<"read", "toggle", "invalidate", "commit">>, <<"update", "commit">>,
   <<"read", "update", "commit">>,
   <<"lookup", "fetch", "save">>}

GoodOps(ops) == \A name \in DOMAIN ops : name # "idle" /\ ops[name].steps \in Lists

LEMMA StepLists ==
  ASSUME NEW q \in Lists
  PROVE  q \in Seq(Steps) /\ Once(q) /\ LoadsOnly(q) /\ (q # <<>> => Head(q) \notin {"fetch", "save"})
<1>1. q \in Seq(Steps)
  <2>1. /\ <<"read", "insert", "commit", "invalidate">> \in Seq(Steps)
        /\ <<"update", "commit", "invalidate">> \in Seq(Steps)
        /\ <<"read", "delete", "commit", "invalidate">> \in Seq(Steps)
        /\ <<"insert", "commit">> \in Seq(Steps)
        /\ <<"update", "invalidate", "commit">> \in Seq(Steps)
        /\ <<"delete", "commit", "invalidate">> \in Seq(Steps)
        /\ <<"insert", "invalidate", "commit">> \in Seq(Steps)
        /\ <<"clear", "update", "invalidate", "commit">> \in Seq(Steps)
        /\ <<"read", "delete", "invalidate", "commit">> \in Seq(Steps)
        /\ <<"insert", "commit", "invalidate">> \in Seq(Steps)
        /\ <<"read", "clear", "insert", "invalidate", "commit">> \in Seq(Steps)
        /\ <<"read">> \in Seq(Steps)
        /\ <<"delete", "read", "promote", "invalidate", "commit">> \in Seq(Steps)
        /\ <<"read", "toggle", "invalidate", "commit">> \in Seq(Steps)
        /\ <<"update", "commit">> \in Seq(Steps)
        /\ <<"read", "update", "commit">> \in Seq(Steps)
        /\ <<"lookup", "fetch", "save">> \in Seq(Steps)
    BY DEF Steps
  <2> QED  BY <2>1, Zenon DEF Lists
<1>2. Once(q)  BY DEF Lists, Once
<1>3. LoadsOnly(q)  BY DEF Lists, LoadsOnly, NoMore, Loading
<1>4. Head(q) \notin {"fetch", "save"}  BY DEF Lists
<1> QED  BY <1>1, <1>2, <1>3, <1>4

LEMMA OpsAreGood ==
  ASSUME NEW ops \in AllOps
  PROVE  GoodOps(ops)
<1>1. GoodOps(UserOps)  BY DEF UserOps, Op, Lists, GoodOps
<1>2. GoodOps(ProductOps)  BY DEF ProductOps, Op, Lists, GoodOps
<1>3. GoodOps(VersionOps)  BY DEF VersionOps, Op, Lists, GoodOps
<1>4. GoodOps(StockOps)  BY DEF StockOps, Op, Lists, GoodOps
<1>5. GoodOps(CategoryOps)  BY DEF CategoryOps, Op, Lists, GoodOps
<1>6. GoodOps(SubcategoryOps)  BY DEF SubcategoryOps, Op, Lists, GoodOps
<1>7. GoodOps(OfferOps)  BY DEF OfferOps, Op, Lists, GoodOps
<1>8. GoodOps(AddReview)  BY DEF AddReview, Op, Lists, GoodOps
<1>9. GoodOps(DeleteReview)  BY DEF DeleteReview, Op, Lists, GoodOps
<1>10. GoodOps(AddressOps)  BY DEF AddressOps, Op, Lists, GoodOps
<1>11. GoodOps(FavoriteOps)  BY DEF FavoriteOps, Op, Lists, GoodOps
<1>12. GoodOps(ShippingOps)  BY DEF ShippingOps, Op, Lists, GoodOps
<1>13. GoodOps(CustomerOps)  BY DEF CustomerOps, Op, Lists, GoodOps
<1>14. GoodOps(OrderOps)  BY DEF OrderOps, Op, Lists, GoodOps
<1>15. GoodOps(LoadOps)  BY DEF LoadOps, Op, Lists, GoodOps
<1> QED  BY <1>1, <1>2, <1>3, <1>4, <1>5, <1>6, <1>7, <1>8, <1>9, <1>10, <1>11, <1>12, <1>13,
            <1>14, <1>15
         DEF AllOps, Services

LEMMA OpSteps ==
  ASSUME NEW name \in Operations
  PROVE  name # "idle" /\ OpOf(name).steps \in Lists
<1>1. \E ops \in AllOps : name \in DOMAIN ops  BY Zenon DEF Operations
<1> DEFINE ops == CHOOSE o \in AllOps : name \in DOMAIN o
<1>2. ops \in AllOps /\ name \in DOMAIN ops  BY <1>1, Zenon
<1>3. OpOf(name) = ops[name]  BY Zenon DEF OpOf
<1> HIDE DEF ops
<1> QED  BY <1>2, <1>3, OpsAreGood DEF GoodOps

-----------------------------------------------------------------------------
(* Steps.                                                                  *)

LEMMA Working ==
  ASSUME TypeOK, StepsInv, NEW r \in Requests, todo[r] # <<>>
  PROVE  /\ job[r] \in Job /\ job[r].op \in Operations /\ job[r].view \in ViewNames
         /\ Row(r) \in Rows /\ Group(Row(r)) \in Groups
         /\ todo[r] \in Seq(Steps)
         /\ Tail(todo[r]) \in Seq(Steps)
<1>1. job[r].op # "idle"  BY DEF StepsInv, StepsOf
<1>2. job[r] \in Job \cup {[op |-> "idle"]}  BY DEF TypeOK
<1>3. job[r] # [op |-> "idle"]  BY <1>1
<1>4. job[r] \in Job  BY <1>2, <1>3
<1>5. job[r].op \in Operations /\ job[r].view \in ViewNames /\ job[r].row \in Rows
  BY <1>4 DEF Job
<1>6. todo[r] \in Seq(Steps)  BY DEF TypeOK
<1> QED  BY <1>4, <1>5, <1>6, TailParts DEF Row, Groups

\* A request goes on to its next step.
LEMMA Continued ==
  ASSUME TypeOK, StepsInv, NEW r \in Requests, todo[r] # <<>>, Continue(r), job' = job,
         counting' = counting,
         \/ dropped' = dropped
         \/ dropped' = dropped \cup {r} /\ Head(todo[r]) = "invalidate" /\ r \in counting,
         \/ committed' = committed
         \/ committed' = committed \cup {r} /\ Head(todo[r]) = "commit"
  PROVE  StepsInv' /\ todo' \in [Requests -> Seq(Steps)]
<1>1. /\ todo'[r] = Tail(todo[r])
      /\ \A q \in Requests : q # r => todo'[q] = todo[q]
      /\ todo' \in [Requests -> Seq(Steps)]
  BY Working DEF Continue, TypeOK
<1>2. todo[r] \in Seq(Steps) /\ StepsOf(r) /\ job[r].op # "idle"
  BY Working DEF StepsInv, StepsOf
<1>3. Once(todo'[r]) /\ LoadsOnly(todo'[r])
  BY <1>1, <1>2, TailOnce, TailLoads DEF StepsOf
<1>4. r \in dropped' => r \in counting' /\ NoMore(todo'[r], "invalidate")
  BY <1>1, <1>2, TailOnce, TailNoMore DEF StepsOf
<1>5. r \in committed' => NoMore(todo'[r], "commit")
  BY <1>1, <1>2, TailOnce, TailNoMore DEF StepsOf
<1>6. StepsOf(r)'  BY <1>2, <1>3, <1>4, <1>5 DEF StepsOf
<1>7. ASSUME NEW q \in Requests, q # r
      PROVE  StepsOf(q)'
  BY <1>1, <1>7 DEF StepsInv, StepsOf
<1> QED  BY <1>1, <1>6, <1>7 DEF StepsInv

\* No load comes to fetch or save by it, unless it looks up or fetches.
LEMMA NoNewLoads ==
  ASSUME TypeOK, StepsInv, NEW r \in Requests, todo[r] # <<>>, Continue(r),
         NEW l \in Requests, todo'[l] # <<>>
  PROVE  /\ todo[l] # <<>>
         /\ l # r => todo'[l] = todo[l]
         /\ Head(todo'[l]) = "fetch" => Head(todo[l]) = IF l = r THEN "lookup" ELSE "fetch"
         /\ Head(todo'[l]) = "save" => Head(todo[l]) = IF l = r THEN "fetch" ELSE "save"
<1>1. todo' = [todo EXCEPT ![r] = Tail(todo[r])]  BY DEF Continue
<1>2. CASE l = r
  <2>1. todo'[r] = Tail(todo[r])  BY <1>1 DEF TypeOK
  <2>2. todo[r] \in Seq(Steps) /\ LoadsOnly(todo[r])  BY Working DEF StepsInv, StepsOf
  <2> QED  BY <1>2, <2>1, <2>2, TailLoads
<1>3. CASE l # r
  BY <1>1, <1>3 DEF TypeOK
<1> QED  BY <1>2, <1>3

LEMMA ReceiveSteps ==
  ASSUME TypeOK, StepsInv, NEW r \in Requests, Receive(r)
  PROVE  /\ StepsInv'
         /\ todo' \in [Requests -> Seq(Steps)]
         /\ job' \in [Requests -> Job \cup {[op |-> "idle"]}]
         /\ r \notin dropped /\ r \notin committed /\ r \notin counting
         /\ todo'[r] # <<>> => Head(todo'[r]) \notin {"fetch", "save"}
         /\ \A q \in Requests : q # r => todo'[q] = todo[q] /\ job'[q] = job[q]
<1>1. PICK j \in Jobs[r] : job' = [job EXCEPT ![r] = j] /\ todo' = [todo EXCEPT ![r] = OpOf(j.op).steps]
  BY DEF Receive
<1>2. j \in Job  BY BackOfficeAssumption
<1>3. j.op \in Operations  BY <1>2 DEF Job
<1>4. job'[r] = j /\ todo'[r] = OpOf(j.op).steps
      /\ \A q \in Requests : q # r => todo'[q] = todo[q] /\ job'[q] = job[q]
  BY <1>1 DEF TypeOK
<1>5. /\ OpOf(j.op).steps \in Seq(Steps) /\ Once(todo'[r]) /\ LoadsOnly(todo'[r]) /\ j.op # "idle"
      /\ todo'[r] # <<>> => Head(todo'[r]) \notin {"fetch", "save"}
  BY <1>3, <1>4, OpSteps, StepLists
<1>6. UNCHANGED <<dropped, committed, counting>>  BY DEF Receive, viewHistory, cacheVars
<1>7. r \notin dropped /\ r \notin committed /\ r \notin counting
  BY DEF Receive, StepsInv, StepsOf
<1>8. StepsOf(r)'  BY <1>4, <1>5, <1>6, <1>7 DEF StepsOf
<1>9. ASSUME NEW q \in Requests, q # r
      PROVE  StepsOf(q)'
  BY <1>4, <1>6, <1>9 DEF StepsInv, StepsOf
<1>10. todo' \in [Requests -> Seq(Steps)]  BY <1>1, <1>5 DEF TypeOK
<1>11. job' \in [Requests -> Job \cup {[op |-> "idle"]}]  BY <1>1, <1>2 DEF TypeOK
<1> QED  BY <1>4, <1>5, <1>7, <1>8, <1>9, <1>10, <1>11 DEF StepsInv

LEMMA NothingLeft ==
  Once(<<>>) /\ LoadsOnly(<<>>) /\ \A step : NoMore(<<>>, step)
BY DEF Once, LoadsOnly, NoMore

LEMMA FailsSteps ==
  ASSUME TypeOK, StepsInv, NEW r \in Requests, Fails(r)
  PROVE  /\ StepsInv'
         /\ todo' \in [Requests -> Seq(Steps)]
         /\ todo'[r] = <<>>
         /\ \A q \in Requests : q # r => todo'[q] = todo[q]
<1>1. todo' = [todo EXCEPT ![r] = <<>>] /\ UNCHANGED <<job, dropped, committed, counting>>
  BY DEF Fails, viewHistory, cacheVars
<1>2. todo'[r] = <<>> /\ \A q \in Requests : q # r => todo'[q] = todo[q]
  BY <1>1 DEF TypeOK
<1>3. StepsOf(r)'  BY <1>1, <1>2, NothingLeft DEF StepsInv, StepsOf
<1>4. ASSUME NEW q \in Requests, q # r
      PROVE  StepsOf(q)'
  BY <1>1, <1>2, <1>4 DEF StepsInv, StepsOf
<1> QED  BY <1>1, <1>2, <1>3, <1>4 DEF StepsInv, TypeOK

LEMMA DeleteSteps ==
  ASSUME TypeOK, StepsInv, NEW r \in Requests, Delete(r)
  PROVE  /\ StepsInv'
         /\ todo' \in [Requests -> Seq(Steps)]
         /\ todo[r] # <<>>
         /\ todo'[r] # <<>> => Head(todo'[r]) \notin {"fetch", "save"}
         /\ \A q \in Requests : q # r => todo'[q] = todo[q]
<1>1. todo[r] # <<>> /\ Head(todo[r]) \in {"delete", "toggle"}  BY DEF Delete, At
<1>2. UNCHANGED <<job, dropped, committed, counting>>  BY DEF Delete, viewHistory, cacheVars
<1> DEFINE rest == Tail(todo[r])
           more == <<"read", "promote">> \o rest
<1>3. /\ rest \in Seq(Steps) /\ Once(rest) /\ NoMore(rest, "fetch") /\ NoMore(rest, "save")
      /\ r \in dropped => NoMore(rest, "invalidate")
      /\ r \in committed => NoMore(rest, "commit")
  <2>1. todo[r] \in Seq(Steps) /\ StepsOf(r)  BY <1>1, Working DEF StepsInv
  <2> QED  BY <1>1, <2>1, TailParts, TailOnce, TailLoads, TailNoMore DEF StepsOf
<1>4. /\ more \in Seq(Steps) /\ Once(more) /\ NoMore(more, "fetch") /\ NoMore(more, "save")
      /\ r \in dropped => NoMore(more, "invalidate")
      /\ r \in committed => NoMore(more, "commit")
  BY <1>3, GoesOn
<1>5. PICK p \in {rest, more} : todo' = [todo EXCEPT ![r] = p]
  BY DEF Delete
<1> HIDE DEF rest, more
<1>6. todo'[r] = p /\ \A q \in Requests : q # r => todo'[q] = todo[q]
  BY <1>5 DEF TypeOK
<1>7. StepsOf(r)'
  <2>1. job[r].op # "idle" /\ (r \in dropped => r \in counting)
    BY <1>1 DEF StepsInv, StepsOf
  <2> QED  BY <1>2, <1>3, <1>4, <1>5, <1>6, <2>1 DEF StepsOf, LoadsOnly
<1>8. ASSUME NEW q \in Requests, q # r
      PROVE  StepsOf(q)'
  BY <1>2, <1>6, <1>8 DEF StepsInv, StepsOf
<1>9. todo'[r] # <<>> => Head(todo'[r]) \notin {"fetch", "save"}
  <2>1. p \in Seq(Steps) /\ NoMore(p, "fetch") /\ NoMore(p, "save")  BY <1>3, <1>4, <1>5
  <2>2. p # <<>> => 1 \in DOMAIN p /\ Head(p) = p[1]  BY <2>1, TailParts
  <2> QED  BY <1>6, <2>1, <2>2 DEF NoMore
<1>10. todo' \in [Requests -> Seq(Steps)]  BY <1>3, <1>4, <1>5 DEF TypeOK
<1> QED  BY <1>1, <1>6, <1>7, <1>8, <1>9, <1>10 DEF StepsInv

-----------------------------------------------------------------------------
(* Rows.                                                                   *)

Rowsof == [Rows -> States \cup {"same"}]

RowsOK ==
  /\ db \in [Rows -> States]
  /\ pending \in [Requests -> Rowsof]
  /\ \A q, r \in Requests : q # r => Changed(q) \cap Changed(r) = {}

LEMMA SeesType ==
  ASSUME RowsOK, NEW r \in Requests, NEW s \in Rows
  PROVE  Sees(r, s) \in States
BY DEF RowsOK, Sees, Rowsof

LEMMA Written ==
  ASSUME RowsOK, NEW r \in Requests, NEW S \in SUBSET Rows, Free(r, S), NEW f \in [Rows -> States],
         pending' = [pending EXCEPT ![r] = [s \in Rows |-> IF s \in S THEN f[s] ELSE pending[r][s]]],
         db' = db
  PROVE  RowsOK'
<1>1. pending' \in [Requests -> Rowsof]  BY DEF RowsOK, Rowsof
<1>2. /\ pending'[r] = [s \in Rows |-> IF s \in S THEN f[s] ELSE pending[r][s]]
      /\ \A q \in Requests : q # r => pending'[q] = pending[q]
  BY DEF RowsOK
<1>3. ASSUME NEW q \in Requests, q # r, NEW s \in Rows,
             pending'[q][s] # "same", pending'[r][s] # "same"
      PROVE  FALSE
  <2>1. pending[q][s] # "same"  BY <1>2, <1>3
  <2>2. CASE s \in S  BY <1>3, <2>1, <2>2 DEF Free
  <2>3. CASE s \notin S
    <3>1. pending[r][s] # "same"  BY <1>2, <1>3, <2>3
    <3> QED  BY <1>3, <2>1, <3>1 DEF RowsOK, Changed
  <2> QED  BY <2>2, <2>3
<1>4. ASSUME NEW q \in Requests, NEW p \in Requests, q # p, NEW s \in Rows,
             pending'[q][s] # "same", pending'[p][s] # "same"
      PROVE  FALSE
  <2>1. CASE q = r  BY <1>3, <1>4, <2>1
  <2>2. CASE p = r  BY <1>3, <1>4, <2>2
  <2>3. CASE q # r /\ p # r
    <3>1. pending[q][s] # "same" /\ pending[p][s] # "same"  BY <1>2, <1>4, <2>3
    <3> QED  BY <1>4, <3>1 DEF RowsOK, Changed
  <2> QED  BY <2>1, <2>2, <2>3
<1>5. (\A q, p \in Requests : q # p => Changed(q) \cap Changed(p) = {})'
  BY <1>4 DEF Changed
<1> QED  BY <1>1, <1>5 DEF RowsOK

\* A transaction ends: nothing of it is pending.
LEMMA Ended ==
  ASSUME RowsOK, NEW r \in Requests, db' \in [Rows -> States],
         pending' = [pending EXCEPT ![r] = [s \in Rows |-> "same"]]
  PROVE  RowsOK'
<1>1. pending' \in [Requests -> Rowsof]  BY DEF RowsOK, Rowsof
<1>2. /\ \A s \in Rows : pending'[r][s] = "same"
      /\ \A q \in Requests : q # r => pending'[q] = pending[q]
  BY DEF RowsOK
<1>3. \A q, p \in Requests : q # p =>
        {s \in Rows : pending'[q][s] # "same"} \cap {s \in Rows : pending'[p][s] # "same"} = {}
  BY <1>2 DEF RowsOK, Changed
<1> QED  BY <1>1, <1>3 DEF RowsOK, Changed

LEMMA InsertRows ==
  ASSUME RowsOK, NEW r \in Requests, Insert(r), Row(r) \in Rows
  PROVE  RowsOK'
<1> DEFINE f == [s \in Rows |-> FlagToInsert(r)]
<1>1. f \in [Rows -> States]  BY DEF FlagToInsert, States
<1>2. /\ Free(r, {Row(r)}) /\ db' = db
      /\ pending' = [pending EXCEPT ![r] = [s \in Rows |-> IF s \in {Row(r)} THEN f[s] ELSE pending[r][s]]]
  BY DEF Insert, Write, RowsOK
<1> HIDE DEF f
<1> QED  BY <1>1, <1>2, Written

LEMMA DeleteRows ==
  ASSUME RowsOK, NEW r \in Requests, Delete(r), Row(r) \in Rows
  PROVE  RowsOK'
<1> DEFINE f == [s \in Rows |-> "absent"]
           S == {Row(r)} \cup Cascading(Row(r))
<1>1. f \in [Rows -> States]  BY DEF States
<1>2. /\ Free(r, S) /\ db' = db
      /\ pending' = [pending EXCEPT ![r] = [s \in Rows |-> IF s \in S THEN f[s] ELSE pending[r][s]]]
  BY DEF Delete, Write, RowsOK
<1>3. S \in SUBSET Rows  BY DEF Cascading, Referring
<1> HIDE DEF f, S
<1> QED  BY <1>1, <1>2, <1>3, Written

LEMMA ClearRows ==
  ASSUME RowsOK, NEW r \in Requests, Clear(r), Row(r) \in Rows
  PROVE  RowsOK'
<1> DEFINE f == [s \in Rows |-> "plain"]
           S == ToClear(r)
<1>1. f \in [Rows -> States]  BY DEF States
<1>2. /\ Free(r, S) /\ db' = db
      /\ pending' = [pending EXCEPT ![r] = [s \in Rows |-> IF s \in S THEN f[s] ELSE pending[r][s]]]
  BY DEF Clear, Write, RowsOK
<1>3. S \in SUBSET Rows  BY DEF ToClear
<1> HIDE DEF f, S
<1> QED  BY <1>1, <1>2, <1>3, Written

LEMMA UpdateRows ==
  ASSUME RowsOK, NEW r \in Requests, Update(r), Row(r) \in Rows
  PROVE  RowsOK'
<1> DEFINE f == [s \in Rows |->
       CASE job[r].flag = "set" -> "flagged"
         [] job[r].flag = "unset" -> "plain"
         [] OTHER -> Sees(r, s)]
<1>1. f \in [Rows -> States]
  <2>1. "flagged" \in States /\ "plain" \in States  BY DEF States
  <2> QED  BY <2>1, SeesType
<1>2. /\ Free(r, {Row(r)}) /\ db' = db
      /\ pending' = [pending EXCEPT ![r] = [s \in Rows |-> IF s \in {Row(r)} THEN f[s] ELSE pending[r][s]]]
  BY DEF Update, Write, RowsOK
<1> HIDE DEF f
<1> QED  BY <1>1, <1>2, Written

LEMMA PromoteRows ==
  ASSUME RowsOK, NEW r \in Requests, Promote(r), found[r].rows \subseteq Rows
  PROVE  RowsOK'
<1> DEFINE f == [s \in Rows |-> "flagged"]
<1>1. f \in [Rows -> States]  BY DEF States
<1>2. ASSUME NEW s \in found[r].rows, Write(r, {s}, LAMBDA t : "flagged")
      PROVE  RowsOK'
  <2>1. /\ Free(r, {s}) /\ db' = db
        /\ pending' = [pending EXCEPT ![r] = [t \in Rows |-> IF t \in {s} THEN f[t] ELSE pending[r][t]]]
    BY <1>2 DEF Write, RowsOK
  <2> HIDE DEF f
  <2> QED  BY <1>1, <2>1, Written
<1>3. ASSUME UNCHANGED dbVars
      PROVE  RowsOK'
  BY <1>3 DEF dbVars, RowsOK, Changed
<1> QED  BY <1>2, <1>3 DEF Promote

-----------------------------------------------------------------------------
(* Types of the rest.                                                      *)

RestOK ==
  /\ found \in [Requests -> [rows : SUBSET Rows, flagged : SUBSET Rows]]
  /\ entries \subseteq [view : ViewNames, version : Nat, missing : SUBSET Requests]
  /\ version \in [ViewNames -> Nat]
  /\ counting \subseteq Requests
  /\ counted \in [Requests -> [ViewNames -> Nat]]
  /\ expiries \in Nat
  /\ seen \in [Requests -> Nat]
  /\ missing \in [Requests -> SUBSET Requests]
  /\ dropped \subseteq Requests /\ committed \subseteq Requests /\ raced \subseteq Requests
  /\ setBack \subseteq ViewNames
  /\ outdated \subseteq Requests
  /\ outrun \subseteq Groups /\ unset \subseteq Groups

LEMMA TypesSplit ==
  TypeOK <=> /\ RowsOK /\ RestOK
             /\ todo \in [Requests -> Seq(Steps)]
             /\ job \in [Requests -> Job \cup {[op |-> "idle"]}]
BY DEF TypeOK, RowsOK, RestOK, Rowsof

LEMMA TypesJoin ==
  ASSUME TypeOK, RowsOK', RestOK', todo' \in [Requests -> Seq(Steps)],
         job' = job \/ job' \in [Requests -> Job \cup {[op |-> "idle"]}]
  PROVE  TypeOK'
<1>1. job' \in [Requests -> Job \cup {[op |-> "idle"]}]  BY DEF TypeOK
<1> QED  BY <1>1 DEF TypeOK, RowsOK, RestOK, Rowsof

LEMMA ReadRest ==
  ASSUME RestOK, NEW r \in Requests, Read(r)
  PROVE  RestOK'
<1>1. UNCHANGED <<cacheVars, viewHistory, outrun, unset>>  BY DEF Read
<1>2. outdated' \subseteq Requests  BY DEF Read, RestOK
<1>3. found' \in [Requests -> [rows : SUBSET Rows, flagged : SUBSET Rows]]
  <2> DEFINE E == {s \in Siblings(Row(r)) : Sees(r, s) # "absent"}
             F == {s \in E : Sees(r, s) = "flagged"}
  <2>1. found' = [found EXCEPT ![r] = [rows |-> E, flagged |-> F]]  BY DEF Read
  <2>2. E \subseteq Rows /\ F \subseteq Rows  BY DEF Siblings
  <2> HIDE DEF E, F
  <2> QED  BY <2>1, <2>2 DEF RestOK
<1> QED  BY <1>1, <1>2, <1>3 DEF RestOK, cacheVars, viewHistory

LEMMA CommitRest ==
  ASSUME RestOK, NEW r \in Requests, Commit(r)
  PROVE  RestOK'
<1>1. UNCHANGED <<found, version, counting, counted, expiries, seen, dropped, raced, setBack, unset>>
  BY DEF Commit
<1>2. committed' \subseteq Requests /\ outdated' \subseteq Requests  BY DEF Commit, RestOK
<1>3. outrun' \subseteq Groups
  <2>1. {Group(s) : s \in Changed(r)} \subseteq Groups  BY DEF Changed, Groups
  <2>2. outrun' = outrun \/ outrun' = outrun \cup {Group(s) : s \in Changed(r)}  BY DEF Commit
  <2> QED  BY <2>1, <2>2 DEF RestOK
<1>4. entries' \subseteq [view : ViewNames, version : Nat, missing : SUBSET Requests]
  <2>1. PICK B : entries' = {IF e.view \in B THEN [e EXCEPT !.missing = @ \cup {r}] ELSE e : e \in entries}
    BY DEF Commit
  <2> QED  BY <2>1 DEF RestOK
<1>5. missing' \in [Requests -> SUBSET Requests]
  <2>1. DOMAIN missing' = Requests /\ missing' = [l \in Requests |-> missing'[l]]  BY DEF Commit
  <2>2. \A l \in Requests : missing'[l] = missing[l] \cup {r} \/ missing'[l] = missing[l]
    BY DEF Commit
  <2>3. \A l \in Requests : missing'[l] \in SUBSET Requests  BY <2>2 DEF RestOK
  <2> QED  BY <2>1, <2>3
<1> QED  BY <1>1, <1>2, <1>3, <1>4, <1>5 DEF RestOK

LEMMA CountRest ==
  ASSUME RestOK, NEW r \in Requests, Count(r)
  PROVE  RestOK'
<1>1. UNCHANGED <<found, entries, version, expiries, seen, missing, viewHistory, flagHistory>>
  BY DEF Count, requestVars
<1>2. counting' \subseteq Requests  BY DEF Count, RestOK
<1>3. counted' \in [Requests -> [ViewNames -> Nat]]
  <2> DEFINE f == [v \in ViewNames |-> IF v \in Drops(r) THEN version[v] ELSE 0]
  <2>1. f \in [ViewNames -> Nat]  BY DEF RestOK
  <2>2. counted' = [counted EXCEPT ![r] = f]  BY DEF Count
  <2> HIDE DEF f
  <2> QED  BY <2>1, <2>2 DEF RestOK
<1> QED  BY <1>1, <1>2, <1>3 DEF RestOK, viewHistory, flagHistory

LEMMA ExpiryRest ==
  ASSUME RestOK, NEW v \in ViewNames, VersionExpires(v)
  PROVE  RestOK'
<1>1. UNCHANGED <<found, entries, counting, counted, seen, missing, dropped, committed, raced,
                  flagHistory>>
  BY DEF VersionExpires, requestVars
<1>2. version' \in [ViewNames -> Nat] /\ setBack' \subseteq ViewNames /\ expiries' \in Nat
  BY DEF VersionExpires, RestOK
<1> QED  BY <1>1, <1>2 DEF RestOK, flagHistory

LEMMA CacheRest ==
  ASSUME TypeOK, StepsInv, NEW r \in Requests,
         Invalidate(r) \/ Lookup(r) \/ Fetch(r) \/ Save(r)
  PROVE  RestOK'
<1> USE TypesSplit
<1>1. job[r].view \in ViewNames
  <2>1. todo[r] # <<>>  BY DEF Invalidate, Lookup, Fetch, Save, At
  <2> QED  BY <2>1, Working
<1>2. CASE Invalidate(r)
  <2>1. UNCHANGED <<found, entries, counting, counted, expiries, seen, missing, committed, raced,
                    flagHistory>>
    BY <1>2 DEF Invalidate
  <2>2. dropped' \subseteq Requests  BY <1>2 DEF Invalidate, RestOK
  <2>3. version' \in [ViewNames -> Nat]  BY <1>2 DEF Invalidate, RestOK
  <2>4. setBack' \subseteq ViewNames  BY <1>2 DEF Invalidate, RestOK
  <2> QED  BY <2>1, <2>2, <2>3, <2>4 DEF RestOK, flagHistory
<1>3. CASE Lookup(r)
  <2>1. UNCHANGED <<found, entries, version, counting, counted, expiries, missing, viewHistory,
                    flagHistory>>
    BY <1>3 DEF Lookup
  <2>2. seen' \in [Requests -> Nat]  BY <1>1, <1>3 DEF Lookup, RestOK
  <2> QED  BY <2>1, <2>2 DEF RestOK, viewHistory, flagHistory
<1>4. CASE Fetch(r)
  <2>1. UNCHANGED <<found, entries, version, counting, counted, expiries, seen, dropped, committed,
                    setBack, flagHistory>>
    BY <1>4 DEF Fetch
  <2>2. missing' \in [Requests -> SUBSET Requests]  BY <1>4 DEF Fetch, RestOK
  <2>3. raced' \subseteq Requests  BY <1>4 DEF Fetch, RestOK
  <2> QED  BY <2>1, <2>2, <2>3 DEF RestOK, flagHistory
<1>5. CASE Save(r)
  <2>1. UNCHANGED <<found, version, counting, counted, expiries, seen, missing, viewHistory,
                    flagHistory>>
    BY <1>5 DEF Save
  <2>2. [view |-> job[r].view, version |-> seen[r], missing |-> missing[r]]
          \in [view : ViewNames, version : Nat, missing : SUBSET Requests]
    BY <1>1 DEF RestOK
  <2>3. entries' \subseteq [view : ViewNames, version : Nat, missing : SUBSET Requests]
    BY <1>5, <2>2 DEF Save, RestOK
  <2> QED  BY <2>1, <2>3 DEF RestOK, viewHistory, flagHistory
<1> QED  BY <1>2, <1>3, <1>4, <1>5

LEMMA UnsetRest ==
  ASSUME RestOK, UNCHANGED <<found, cacheVars, viewHistory, outdated, outrun>>,
         NEW G \in SUBSET Groups, unset' = unset \/ unset' = unset \cup G
  PROVE  RestOK'
BY DEF RestOK, cacheVars, viewHistory

LEMMA SameRest ==
  ASSUME RestOK, UNCHANGED <<found, cacheVars, viewHistory, flagHistory>>
  PROVE  RestOK'
BY DEF RestOK, cacheVars, viewHistory, flagHistory

-----------------------------------------------------------------------------
(* The views.                                                              *)

LEMMA SameDrops ==
  ASSUME NEW r \in Requests, job'[r] = job[r]
  PROVE  Drops(r)' = Drops(r)
BY DEF Drops, ProductOf, Row

\* A step that leaves the cache alone, and lets no load come to fetch or save.
LEMMA Quiet ==
  ASSUME TypeOK, ViewsInv, UNCHANGED <<cacheVars, viewHistory>>,
         \A l \in Requests :
           todo'[l] # <<>> /\ Head(todo'[l]) \in {"fetch", "save"} =>
             /\ todo[l] # <<>> /\ Head(todo[l]) = Head(todo'[l])
             /\ job'[l] = job[l],
         \A q \in counting : job'[q] = job[q] /\ (todo'[q] # <<>> => todo[q] # <<>>)
  PROVE  ViewsInv'
<1> USE DEF ViewsInv
<1>1. UNCHANGED <<entries, version, counting, counted, seen, missing, dropped, committed, raced,
                  setBack>>
  BY DEF cacheVars, viewHistory
<1>2. LoadInv' /\ EntryInv'  BY <1>1 DEF LoadInv, EntryInv, At
<1>3. ASSUME NEW q \in counting
      PROVE  Watched(q)' = Watched(q)
  <2>1. q \in Requests  BY DEF TypeOK
  <2> QED  BY <1>1, <2>1, SameDrops DEF Watched
<1>4. CountInv'  BY <1>1, <1>3 DEF CountInv
<1>5. ASSUME NEW q \in counting \ raced, NEW v \in Watched(q)
      PROVE  BehindOf(q, v)'
  <2>1. BehindOf(q, v)  BY <1>5 DEF BehindInv
  <2>2. \A S : (q \in S \/ (q \notin committed /\ todo'[q] # <<>>)) => Lacks(q, S)
    BY <1>5 DEF Lacks
  <2> QED  BY <1>1, <2>1, <2>2 DEF BehindOf, Lacks, At
<1> QED  BY <1>1, <1>2, <1>3, <1>4, <1>5 DEF BehindInv

\* Most steps only go on.
LEMMA QuietStep ==
  ASSUME TypeOK, StepsInv, ViewsInv, NEW r \in Requests, todo[r] # <<>>, Continue(r),
         Head(todo[r]) \notin {"lookup", "fetch"}, UNCHANGED <<job, cacheVars, viewHistory>>
  PROVE  ViewsInv'
<1>1. ASSUME NEW l \in Requests, todo'[l] # <<>>
      PROVE  /\ todo[l] # <<>>
             /\ Head(todo'[l]) \in {"fetch", "save"} => Head(todo[l]) = Head(todo'[l])
  BY <1>1, NoNewLoads
<1>2. counting \subseteq Requests  BY DEF TypeOK
<1> QED  BY <1>1, <1>2, Quiet

LEMMA CommitViews ==
  ASSUME TypeOK, StepsInv, ViewsInv, NEW r \in Requests, Commit(r)
  PROVE  ViewsInv'
<1> USE DEF ViewsInv
<1>1. /\ todo[r] # <<>> /\ Head(todo[r]) = "commit" /\ Continue(r)
      /\ UNCHANGED <<job, version, counting, counted, seen, dropped, raced, setBack>>
      /\ committed' = committed \cup {r}
  BY DEF Commit, At
<1>2. ASSUME NEW l \in Requests, todo'[l] # <<>>
      PROVE  /\ todo[l] # <<>>
             /\ Head(todo'[l]) \in {"fetch", "save"} => Head(todo[l]) = Head(todo'[l])
  BY <1>1, <1>2, NoNewLoads
<1>3. /\ \A e \in entries' : \E d \in entries :
           /\ e.view = d.view /\ e.version = d.version
           /\ e.missing = d.missing \/ e.missing = d.missing \cup {r}
      /\ \A l \in Requests : missing'[l] = missing[l] \/ missing'[l] = missing[l] \cup {r}
  <2>1. PICK B : entries' = {IF e.view \in B THEN [e EXCEPT !.missing = @ \cup {r}] ELSE e : e \in entries}
    BY DEF Commit
  <2>2. ASSUME NEW e \in entries'
        PROVE  \E d \in entries :
                 /\ e.view = d.view /\ e.version = d.version
                 /\ e.missing = d.missing \/ e.missing = d.missing \cup {r}
    <3>1. PICK d \in entries : e = IF d.view \in B THEN [d EXCEPT !.missing = @ \cup {r}] ELSE d
      BY <2>1
    <3>2. d \in [view : ViewNames, version : Nat, missing : SUBSET Requests]  BY DEF TypeOK
    <3> QED  BY <3>1, <3>2
  <2>3. \A l \in Requests : missing'[l] = missing[l] \/ missing'[l] = missing[l] \cup {r}
    BY DEF Commit
  <2> QED  BY <2>2, <2>3
<1>4. r \notin committed
  <2>1. todo[r] \in Seq(Steps)  BY <1>1, Working
  <2>2. 1 \in DOMAIN todo[r] /\ todo[r][1] = "commit"  BY <1>1, <2>1, TailParts
  <2> QED  BY <2>2 DEF StepsInv, StepsOf, NoMore
<1>5. LoadInv'  BY <1>1, <1>2 DEF LoadInv, At
<1>6. EntryInv'  BY <1>1, <1>3 DEF EntryInv
<1>7. ASSUME NEW q \in counting
      PROVE  q \in Requests /\ Watched(q)' = Watched(q)
  <2>1. q \in Requests  BY DEF TypeOK
  <2> QED  BY <1>1, <2>1, SameDrops DEF Watched
<1>8. CountInv'  BY <1>1, <1>7 DEF CountInv
<1>9. ASSUME NEW q \in counting \ raced, NEW v \in Watched(q)
      PROVE  BehindOf(q, v)'
  <2>1. BehindOf(q, v) /\ q \in Requests  BY <1>7, <1>9 DEF BehindInv
  <2>2. ASSUME NEW S, NEW T, T = S \/ T = S \cup {r},
               q \in T \/ (q \notin committed' /\ todo'[q] # <<>>)
        PROVE  Lacks(q, S)
    <3>1. CASE q = r  BY <1>1, <1>4, <3>1 DEF Lacks
    <3>2. CASE q # r  BY <1>1, <1>2, <2>1, <2>2, <3>2 DEF Lacks
    <3> QED  BY <3>1, <3>2
  <2>3. ASSUME NEW e \in entries', e.view = v,
               q \in e.missing \/ (q \notin committed' /\ todo'[q] # <<>>)
        PROVE  e.version <= counted[q][v]
    <3>1. PICK d \in entries :
            /\ e.view = d.view /\ e.version = d.version
            /\ e.missing = d.missing \/ e.missing = d.missing \cup {r}
      BY <1>3
    <3>2. Lacks(q, d.missing)  BY <2>2, <2>3, <3>1
    <3> QED  BY <2>1, <2>3, <3>1, <3>2 DEF BehindOf
  <2>4. ASSUME NEW l \in Requests, todo'[l] # <<>>, Head(todo'[l]) = "save", job[l].view = v,
               q \in missing'[l] \/ (q \notin committed' /\ todo'[q] # <<>>)
        PROVE  seen[l] <= counted[q][v]
    <3>1. missing'[l] = missing[l] \/ missing'[l] = missing[l] \cup {r}  BY <1>3
    <3>2. Lacks(q, missing[l])  BY <2>2, <2>4, <3>1
    <3>3. At(l, "save")  BY <1>2, <2>4 DEF At
    <3> QED  BY <2>1, <2>4, <3>2, <3>3 DEF BehindOf
  <2> QED  BY <1>1, <2>3, <2>4 DEF BehindOf, Lacks, At
<1> QED  BY <1>1, <1>5, <1>6, <1>7, <1>8, <1>9 DEF BehindInv

\* What a request has read is at least what was saved so far.
LEMMA CountViews ==
  ASSUME TypeOK, StepsInv, ViewsInv, NEW r \in Requests, Count(r)
  PROVE  ViewsInv'
<1> USE DEF ViewsInv
<1>1. /\ todo[r] # <<>> /\ Head(todo[r]) = "invalidate" /\ r \notin counting
      /\ UNCHANGED <<todo, job, entries, version, seen, missing, dropped, committed, raced, setBack>>
      /\ counting' = counting \cup {r}
  BY DEF Count, At, requestVars, viewHistory
<1>2. /\ \A v \in Drops(r) \cap ViewNames : counted'[r][v] = version[v]
      /\ \A q \in Requests : q # r => counted'[q] = counted[q]
  BY DEF Count, TypeOK
<1>3. LoadInv' /\ EntryInv'  BY <1>1 DEF LoadInv, EntryInv, At
<1>4. ASSUME NEW q \in Requests
      PROVE  Watched(q)' = Watched(q)
  BY <1>1, SameDrops DEF Watched
<1>5. counting' \subseteq Requests /\ r \notin dropped  BY <1>1 DEF TypeOK, StepsInv, StepsOf
<1>6. ASSUME NEW q \in counting', NEW v \in Watched(q)
      PROVE  /\ counted'[q][v] <= version[v]
             /\ q \in dropped => counted'[q][v] < version[v]
  <2>1. v \in Drops(q) \cap ViewNames  BY DEF Watched
  <2>2. CASE q = r
    <3>1. version[v] \in Nat  BY <2>1 DEF TypeOK
    <3> QED  BY <1>2, <1>5, <2>1, <2>2, <3>1
  <2>3. CASE q # r
    <3>1. q \in counting  BY <1>1, <2>3
    <3> QED  BY <1>2, <1>5, <2>3, <3>1 DEF CountInv
  <2> QED  BY <2>2, <2>3
<1>7. CountInv'  BY <1>1, <1>4, <1>5, <1>6 DEF CountInv
<1>8. ASSUME NEW q \in counting' \ raced, NEW v \in Watched(q)
      PROVE  BehindOf(q, v)'
  <2>1. v \in Drops(q) \cap ViewNames /\ v \notin setBack  BY DEF Watched
  <2>2. CASE q = r
    <3>1. counted'[q][v] = version[v]  BY <1>2, <2>1, <2>2
    <3>2. \A e \in entries : e.view = v => e.version <= version[v]  BY <2>1 DEF EntryInv
    <3>3. \A l \in Requests : At(l, "save") /\ job[l].view = v => seen[l] <= version[v]
      BY <2>1 DEF LoadInv
    <3> QED  BY <1>1, <3>1, <3>2, <3>3 DEF BehindOf, At
  <2>3. CASE q # r
    <3>1. q \in counting \ raced  BY <1>1, <2>3
    <3>2. BehindOf(q, v) /\ counted'[q] = counted[q]  BY <1>2, <1>5, <2>3, <3>1 DEF BehindInv
    <3> QED  BY <1>1, <3>2 DEF BehindOf, Lacks, At
  <2> QED  BY <2>2, <2>3
<1> QED  BY <1>1, <1>3, <1>4, <1>5, <1>7, <1>8 DEF BehindInv

LEMMA InvalidateViews ==
  ASSUME TypeOK, StepsInv, ViewsInv, NEW r \in Requests, Invalidate(r)
  PROVE  ViewsInv'
<1> USE DEF ViewsInv
<1>1. /\ todo[r] # <<>> /\ Head(todo[r]) = "invalidate" /\ Continue(r) /\ r \in counting
      /\ UNCHANGED <<job, entries, counting, counted, seen, missing, committed, raced>>
      /\ dropped' = dropped \cup {r} /\ setBack \subseteq setBack'
  BY DEF Invalidate, At
<1>2. \A v \in ViewNames \ setBack' :
        /\ version[v] <= version'[v] /\ version[v] \in Nat /\ version'[v] \in Nat
        /\ v \in Drops(r) => version'[v] = counted[r][v] + 1
  <2> SUFFICES ASSUME NEW v \in ViewNames, v \notin setBack'
               PROVE  /\ version[v] <= version'[v] /\ version[v] \in Nat /\ version'[v] \in Nat
                      /\ v \in Drops(r) => version'[v] = counted[r][v] + 1
    OBVIOUS
  <2>1. version'[v] = IF v \in Drops(r) THEN counted[r][v] + 1 ELSE version[v]
    BY DEF Invalidate
  <2>2. ~(version'[v] < version[v])  BY DEF Invalidate
  <2>3. version[v] \in Nat /\ counted[r][v] \in Nat  BY DEF TypeOK
  <2> QED  BY <2>1, <2>2, <2>3
<1>3. ASSUME NEW l \in Requests, todo'[l] # <<>>
      PROVE  /\ todo[l] # <<>>
             /\ Head(todo'[l]) \in {"fetch", "save"} => Head(todo[l]) = Head(todo'[l])
  BY <1>1, <1>3, NoNewLoads
<1>4. LoadInv'
  <2> SUFFICES ASSUME NEW l \in Requests, todo'[l] # <<>>, Head(todo'[l]) \in {"fetch", "save"},
                      job[l].view \notin setBack'
               PROVE  seen[l] <= version'[job[l].view]
    BY <1>1 DEF LoadInv, At
  <2>1. todo[l] # <<>> /\ Head(todo[l]) = Head(todo'[l])  BY <1>3
  <2>2. job[l].view \in ViewNames /\ seen[l] \in Nat  BY <2>1, Working DEF TypeOK
  <2>3. seen[l] <= version[job[l].view]  BY <1>1, <2>1 DEF LoadInv, At
  <2> QED  BY <1>2, <2>2, <2>3
<1>5. EntryInv'
  <2> SUFFICES ASSUME NEW e \in entries, e.view \notin setBack'
               PROVE  e.version <= version'[e.view]
    BY <1>1 DEF EntryInv
  <2>1. e.view \in ViewNames /\ e.version \in Nat  BY DEF TypeOK
  <2>2. e.version <= version[e.view]  BY <1>1 DEF EntryInv
  <2> QED  BY <1>2, <2>1, <2>2
<1>6. ASSUME NEW q \in counting
      PROVE  q \in Requests /\ Watched(q)' \subseteq Watched(q) /\ Watched(q)' \cap setBack' = {}
             /\ Watched(q)' \subseteq Drops(q) \cap ViewNames
  <2>1. q \in Requests  BY DEF TypeOK
  <2>2. Drops(q)' = Drops(q)  BY <1>1, <2>1, SameDrops
  <2>3. Watched(q)' = (Drops(q) \cap ViewNames) \ setBack'  BY <2>2 DEF Watched
  <2> QED  BY <1>1, <2>1, <2>3 DEF Watched
<1>7. ASSUME NEW q \in counting, NEW v \in Watched(q)'
      PROVE  /\ counted[q][v] <= version'[v]
             /\ q \in dropped' => counted[q][v] < version'[v]
  <2>1. v \in ViewNames \ setBack' /\ v \in Drops(q) /\ v \in Watched(q) /\ q \in Requests
    BY <1>6, <1>7
  <2>2. counted[q][v] \in Nat  BY <2>1 DEF TypeOK
  <2>3. /\ counted[q][v] <= version[v]
        /\ q \in dropped => counted[q][v] < version[v]
    BY <2>1 DEF CountInv
  <2>4. version[v] <= version'[v] /\ version[v] \in Nat /\ version'[v] \in Nat  BY <1>2, <2>1
  <2>5. CASE q = r
    <3>1. version'[v] = counted[q][v] + 1  BY <1>2, <2>1, <2>5
    <3> QED  BY <2>2, <3>1
  <2>6. CASE q # r
    <3>1. q \in dropped' => q \in dropped  BY <1>1, <2>6
    <3> QED  BY <2>2, <2>3, <2>4, <3>1
  <2> QED  BY <2>5, <2>6
<1>8. CountInv'  BY <1>1, <1>7 DEF CountInv
<1>9. ASSUME NEW q \in counting \ raced, NEW v \in Watched(q)'
      PROVE  BehindOf(q, v)'
  <2>1. BehindOf(q, v) /\ q \in Requests  BY <1>6, <1>9 DEF BehindInv
  <2>2. \A S : (q \in S \/ (q \notin committed /\ todo'[q] # <<>>)) => Lacks(q, S)
    BY <1>3, <2>1 DEF Lacks
  <2>3. \A l \in Requests : todo'[l] # <<>> /\ Head(todo'[l]) = "save" => At(l, "save")
    BY <1>3 DEF At
  <2> QED  BY <1>1, <2>1, <2>2, <2>3 DEF BehindOf, Lacks, At
<1> QED  BY <1>1, <1>4, <1>5, <1>8, <1>9 DEF BehindInv

\* A version that expires is one of those set back.
LEMMA ExpiryViews ==
  ASSUME TypeOK, StepsInv, ViewsInv, NEW x \in ViewNames, VersionExpires(x)
  PROVE  ViewsInv'
<1> USE DEF ViewsInv
<1>1. /\ UNCHANGED <<todo, job, entries, counting, counted, seen, missing, dropped, committed, raced>>
      /\ setBack' = setBack \cup {x} /\ version' = [version EXCEPT ![x] = 1]
  BY DEF VersionExpires, requestVars
<1>2. \A v : v \notin setBack' => version'[v] = version[v] /\ v \notin setBack
  BY <1>1 DEF TypeOK
<1>3. LoadInv'  BY <1>1, <1>2 DEF LoadInv, At
<1>4. EntryInv'  BY <1>1, <1>2 DEF EntryInv
<1>5. ASSUME NEW q \in counting
      PROVE  Watched(q)' \subseteq Watched(q) /\ Watched(q)' \cap setBack' = {}
  <2>1. q \in Requests  BY DEF TypeOK
  <2>2. Drops(q)' = Drops(q)  BY <1>1, <2>1, SameDrops
  <2>3. Watched(q)' = (Drops(q) \cap ViewNames) \ setBack'  BY <2>2 DEF Watched
  <2> QED  BY <1>2, <2>3 DEF Watched
<1>6. CountInv'
  <2> SUFFICES ASSUME NEW q \in counting, NEW v \in Watched(q)'
               PROVE  /\ counted[q][v] <= version'[v]
                      /\ q \in dropped => counted[q][v] < version'[v]
    BY <1>1 DEF CountInv
  <2>1. v \in Watched(q) /\ version'[v] = version[v]  BY <1>2, <1>5
  <2> QED  BY <2>1 DEF CountInv
<1>7. ASSUME NEW q \in counting \ raced, NEW v \in Watched(q)'
      PROVE  BehindOf(q, v)'
  <2>1. BehindOf(q, v)  BY <1>5, <1>7 DEF BehindInv
  <2> QED  BY <1>1, <2>1 DEF BehindOf, Lacks, At
<1> QED  BY <1>1, <1>3, <1>4, <1>6, <1>7 DEF BehindInv

LEMMA LookupViews ==
  ASSUME TypeOK, StepsInv, ViewsInv, NEW r \in Requests, Lookup(r)
  PROVE  ViewsInv'
<1> USE DEF ViewsInv
<1>1. /\ todo[r] # <<>> /\ Head(todo[r]) = "lookup" /\ Continue(r)
      /\ UNCHANGED <<job, entries, version, counting, counted, missing, dropped, committed, raced,
                     setBack>>
  BY DEF Lookup, At, viewHistory
<1>2. /\ seen'[r] = version[job[r].view]
      /\ \A l \in Requests : l # r => seen'[l] = seen[l]
  BY DEF Lookup, TypeOK
<1>3. ASSUME NEW l \in Requests, todo'[l] # <<>>
      PROVE  /\ todo[l] # <<>>
             /\ Head(todo'[l]) = "fetch" /\ l # r => Head(todo[l]) = "fetch"
             /\ Head(todo'[l]) = "save" => Head(todo[l]) = "save" /\ l # r
  BY <1>1, <1>3, NoNewLoads
<1>4. LoadInv'
  <2> SUFFICES ASSUME NEW l \in Requests, todo'[l] # <<>>, Head(todo'[l]) \in {"fetch", "save"},
                      job[l].view \notin setBack
               PROVE  seen'[l] <= version[job[l].view]
    BY <1>1 DEF LoadInv, At
  <2>1. CASE l = r
    <3>1. version[job[r].view] \in Nat  BY <1>1, Working DEF TypeOK
    <3> QED  BY <1>2, <2>1, <3>1
  <2>2. CASE l # r  BY <1>2, <1>3, <2>2 DEF LoadInv, At
  <2> QED  BY <2>1, <2>2
<1>5. EntryInv'  BY <1>1 DEF EntryInv
<1>6. ASSUME NEW q \in counting
      PROVE  q \in Requests /\ Watched(q)' = Watched(q)
  <2>1. q \in Requests  BY DEF TypeOK
  <2> QED  BY <1>1, <2>1, SameDrops DEF Watched
<1>7. CountInv'  BY <1>1, <1>6 DEF CountInv
<1>8. ASSUME NEW q \in counting \ raced, NEW v \in Watched(q)
      PROVE  BehindOf(q, v)'
  <2>1. BehindOf(q, v) /\ q \in Requests  BY <1>6, <1>8 DEF BehindInv
  <2>2. \A S : (q \in S \/ (q \notin committed /\ todo'[q] # <<>>)) => Lacks(q, S)
    BY <1>3, <2>1 DEF Lacks
  <2>3. \A l \in Requests :
          todo'[l] # <<>> /\ Head(todo'[l]) = "save" => At(l, "save") /\ seen'[l] = seen[l]
    BY <1>2, <1>3 DEF At
  <2> QED  BY <1>1, <2>1, <2>2, <2>3 DEF BehindOf, Lacks, At
<1> QED  BY <1>1, <1>4, <1>5, <1>6, <1>7, <1>8 DEF BehindInv

LEMMA FetchViews ==
  ASSUME TypeOK, StepsInv, ViewsInv, NEW r \in Requests, Fetch(r)
  PROVE  ViewsInv'
<1> USE DEF ViewsInv
<1>1. /\ todo[r] # <<>> /\ Head(todo[r]) = "fetch" /\ Continue(r)
      /\ UNCHANGED <<job, entries, version, counting, counted, seen, dropped, committed, setBack>>
      /\ raced' = raced \cup
           {q \in counting \ committed : todo[q] # <<>> /\ job[r].view \in Drops(q)}
  BY DEF Fetch, At
<1>2. /\ missing'[r] = {}
      /\ \A l \in Requests : l # r => missing'[l] = missing[l]
  BY DEF Fetch, TypeOK
<1>3. ASSUME NEW l \in Requests, todo'[l] # <<>>
      PROVE  /\ todo[l] # <<>>
             /\ Head(todo'[l]) = "fetch" => Head(todo[l]) = "fetch"
             /\ Head(todo'[l]) = "save" /\ l # r => Head(todo[l]) = "save"
             /\ Head(todo'[l]) = "save" /\ l = r => Head(todo[l]) = "fetch"
  BY <1>1, <1>3, NoNewLoads
<1>4. LoadInv'
  BY <1>1, <1>3 DEF LoadInv, At
<1>5. EntryInv'  BY <1>1 DEF EntryInv
<1>6. ASSUME NEW q \in counting
      PROVE  q \in Requests /\ Watched(q)' = Watched(q)
  <2>1. q \in Requests  BY DEF TypeOK
  <2> QED  BY <1>1, <2>1, SameDrops DEF Watched
<1>7. CountInv'  BY <1>1, <1>6 DEF CountInv
<1>8. ASSUME NEW q \in counting \ raced', NEW v \in Watched(q)
      PROVE  BehindOf(q, v)'
  <2>1. BehindOf(q, v) /\ q \in Requests  BY <1>1, <1>6, <1>8 DEF BehindInv
  <2>2. q \notin committed /\ todo[q] # <<>> => job[r].view # v
    BY <1>1, <1>8 DEF Watched
  <2>3. \A S : (q \in S \/ (q \notin committed /\ todo'[q] # <<>>)) => Lacks(q, S)
    BY <1>3, <2>1 DEF Lacks
  <2>4. ASSUME NEW l \in Requests, todo'[l] # <<>>, Head(todo'[l]) = "save", job[l].view = v,
               q \in missing'[l] \/ (q \notin committed /\ todo'[q] # <<>>)
        PROVE  seen[l] <= counted[q][v]
    <3>1. CASE l = r
      <4>1. q \notin committed /\ todo'[q] # <<>>  BY <1>2, <2>4, <3>1
      <4> QED  BY <1>3, <2>1, <2>2, <2>4, <3>1, <4>1
    <3>2. CASE l # r
      <4>1. At(l, "save") /\ Lacks(q, missing[l])  BY <1>2, <1>3, <2>3, <2>4, <3>2 DEF At
      <4> QED  BY <2>1, <2>4, <4>1 DEF BehindOf
    <3> QED  BY <3>1, <3>2
  <2> QED  BY <1>1, <2>1, <2>3, <2>4 DEF BehindOf, Lacks, At
<1> QED  BY <1>1, <1>4, <1>5, <1>6, <1>7, <1>8 DEF BehindInv

LEMMA SaveViews ==
  ASSUME TypeOK, StepsInv, ViewsInv, NEW r \in Requests, Save(r)
  PROVE  ViewsInv'
<1> USE DEF ViewsInv
<1>1. /\ todo[r] # <<>> /\ Head(todo[r]) = "save" /\ Continue(r) /\ At(r, "save")
      /\ UNCHANGED <<job, version, counting, counted, seen, missing, dropped, committed, raced,
                     setBack>>
  BY DEF Save, At, viewHistory
<1>2. ASSUME NEW e \in entries'
      PROVE  e \in entries \/ (e.view = job[r].view /\ e.version = seen[r] /\ e.missing = missing[r])
  BY DEF Save
<1>3. ASSUME NEW l \in Requests, todo'[l] # <<>>
      PROVE  /\ todo[l] # <<>>
             /\ Head(todo'[l]) \in {"fetch", "save"} => Head(todo[l]) = Head(todo'[l])
  BY <1>1, <1>3, NoNewLoads
<1>4. LoadInv'
  BY <1>1, <1>3 DEF LoadInv, At
<1>5. EntryInv'
  <2> SUFFICES ASSUME NEW e \in entries', e.view \notin setBack
               PROVE  e.version <= version[e.view]
    BY <1>1 DEF EntryInv
  <2>1. CASE e \in entries  BY <2>1 DEF EntryInv
  <2>2. CASE e.view = job[r].view /\ e.version = seen[r]  BY <1>1, <2>2 DEF LoadInv
  <2> QED  BY <1>2, <2>1, <2>2
<1>6. ASSUME NEW q \in counting
      PROVE  q \in Requests /\ Watched(q)' = Watched(q)
  <2>1. q \in Requests  BY DEF TypeOK
  <2> QED  BY <1>1, <2>1, SameDrops DEF Watched
<1>7. CountInv'  BY <1>1, <1>6 DEF CountInv
<1>8. ASSUME NEW q \in counting \ raced, NEW v \in Watched(q)
      PROVE  BehindOf(q, v)'
  <2>1. BehindOf(q, v) /\ q \in Requests  BY <1>6, <1>8 DEF BehindInv
  <2>2. \A S : (q \in S \/ (q \notin committed /\ todo'[q] # <<>>)) => Lacks(q, S)
    BY <1>3, <2>1 DEF Lacks
  <2>3. \A l \in Requests : todo'[l] # <<>> /\ Head(todo'[l]) = "save" => At(l, "save")
    BY <1>3 DEF At
  <2>4. ASSUME NEW e \in entries', e.view = v,
               q \in e.missing \/ (q \notin committed /\ todo'[q] # <<>>)
        PROVE  e.version <= counted[q][v]
    <3>1. Lacks(q, e.missing)  BY <2>2, <2>4
    <3>2. CASE e \in entries  BY <2>1, <2>4, <3>1, <3>2 DEF BehindOf
    <3>3. CASE e.view = job[r].view /\ e.version = seen[r] /\ e.missing = missing[r]
      BY <1>1, <2>1, <2>4, <3>1, <3>3 DEF BehindOf
    <3> QED  BY <1>2, <3>2, <3>3
  <2> QED  BY <1>1, <2>1, <2>2, <2>3, <2>4 DEF BehindOf, Lacks, At
<1> QED  BY <1>1, <1>4, <1>5, <1>6, <1>7, <1>8 DEF BehindInv

-----------------------------------------------------------------------------

LEMMA Initial ==
  ASSUME Init
  PROVE  IInv
<1>1. RowsOK
  BY BackOfficeAssumption DEF Init, RowsOK, Rowsof, Changed
<1>2. RestOK
  BY DEF Init, RestOK
<1>3. todo \in [Requests -> Seq(Steps)]
  <2>1. <<>> \in Seq(Steps)  OBVIOUS
  <2> QED  BY <2>1 DEF Init
<1>4. job \in [Requests -> Job \cup {[op |-> "idle"]}]  BY DEF Init
<1>5. \A r \in Requests : todo[r] = <<>>  BY DEF Init
<1>6. dropped = {} /\ committed = {} /\ counting = {} /\ entries = {}  BY DEF Init
<1>7. StepsInv  BY <1>5, <1>6, NothingLeft DEF StepsInv, StepsOf
<1>8. ViewsInv  BY <1>5, <1>6 DEF ViewsInv, LoadInv, EntryInv, CountInv, BehindInv, At
<1> QED  BY <1>1, <1>2, <1>3, <1>4, <1>7, <1>8, TypesSplit DEF IInv

\* Steps of a transaction that leave the cache alone.
LEMMA RowSteps ==
  ASSUME IInv, NEW r \in Requests,
         Read(r) \/ Insert(r) \/ Promote(r) \/ Clear(r) \/ Update(r)
  PROVE  IInv'
<1> USE DEF IInv
<1>1. /\ todo[r] # <<>> /\ Continue(r) /\ UNCHANGED <<job, cacheVars, viewHistory>>
      /\ Head(todo[r]) \notin {"lookup", "fetch"}
  BY DEF Read, Insert, Promote, Clear, Update, At
<1>2. UNCHANGED <<dropped, committed, counting>>  BY <1>1 DEF viewHistory, cacheVars
<1>3. StepsInv' /\ todo' \in [Requests -> Seq(Steps)]  BY <1>1, <1>2, Continued
<1>4. ViewsInv'  BY <1>1, QuietStep
<1>5. RowsOK /\ RestOK /\ Row(r) \in Rows /\ Group(Row(r)) \in Groups
      /\ found[r].rows \subseteq Rows
  BY <1>1, Working, TypesSplit DEF RestOK
<1>6. RowsOK' /\ RestOK'
  <2>1. CASE Read(r)
    <3>1. RowsOK'  BY <1>5, <2>1 DEF Read, dbVars, RowsOK, Changed
    <3> QED  BY <1>5, <2>1, <3>1, ReadRest
  <2>2. CASE Insert(r)
    <3>1. /\ UNCHANGED <<found, cacheVars, viewHistory, outdated, outrun>>
          /\ unset' = unset \/ unset' = unset \cup {Group(Row(r))}
          /\ {Group(Row(r))} \in SUBSET Groups
      BY <1>5, <2>2 DEF Insert
    <3> QED  BY <1>5, <2>2, <3>1, InsertRows, UnsetRest
  <2>3. CASE Promote(r)
    <3>1. UNCHANGED <<found, cacheVars, viewHistory, flagHistory>>  BY <2>3 DEF Promote
    <3> QED  BY <1>5, <2>3, <3>1, PromoteRows, SameRest
  <2>4. CASE Clear(r)
    <3>1. UNCHANGED <<found, cacheVars, viewHistory, outdated, outrun>>  BY <2>4 DEF Clear
    <3>2. PICK G : unset' = unset \cup G /\ G = {Group(s) : s \in ToClear(r) \ Siblings(Row(r))}
      BY <2>4 DEF Clear
    <3>3. G \in SUBSET Groups  BY <3>2 DEF ToClear, Groups
    <3> QED  BY <1>5, <2>4, <3>1, <3>2, <3>3, ClearRows, UnsetRest
  <2>5. CASE Update(r)
    <3>1. /\ UNCHANGED <<found, cacheVars, viewHistory, outdated, outrun>>
          /\ unset' = unset \/ unset' = unset \cup {Group(Row(r))}
          /\ {Group(Row(r))} \in SUBSET Groups
      BY <1>5, <2>5 DEF Update
    <3> QED  BY <1>5, <2>5, <3>1, UpdateRows, UnsetRest
  <2> QED  BY <2>1, <2>2, <2>3, <2>4, <2>5
<1>7. TypeOK'  BY <1>1, <1>3, <1>6, TypesJoin
<1> QED  BY <1>3, <1>4, <1>7

LEMMA DeleteStep ==
  ASSUME IInv, NEW r \in Requests, Delete(r)
  PROVE  IInv'
<1> USE DEF IInv
<1>1. UNCHANGED <<job, found, cacheVars, viewHistory, flagHistory>>  BY DEF Delete
<1>2. /\ StepsInv' /\ todo' \in [Requests -> Seq(Steps)] /\ todo[r] # <<>>
      /\ todo'[r] # <<>> => Head(todo'[r]) \notin {"fetch", "save"}
      /\ \A q \in Requests : q # r => todo'[q] = todo[q]
  BY DeleteSteps
<1>3. RowsOK /\ RestOK /\ Row(r) \in Rows  BY <1>2, Working, TypesSplit
<1>4. RowsOK' /\ RestOK'  BY <1>1, <1>3, DeleteRows, SameRest
<1>5. \A l \in Requests :
        todo'[l] # <<>> /\ Head(todo'[l]) \in {"fetch", "save"} =>
          /\ todo[l] # <<>> /\ Head(todo[l]) = Head(todo'[l])
          /\ job'[l] = job[l]
  BY <1>1, <1>2
<1>6. \A q \in counting : job'[q] = job[q] /\ (todo'[q] # <<>> => todo[q] # <<>>)
  BY <1>1, <1>2 DEF TypeOK
<1>7. ViewsInv'  BY <1>1, <1>5, <1>6, Quiet
<1>8. TypeOK'  BY <1>1, <1>2, <1>4, TypesJoin
<1> QED  BY <1>2, <1>7, <1>8

LEMMA ReceiveStep ==
  ASSUME IInv, NEW r \in Requests, Receive(r)
  PROVE  IInv'
<1> USE DEF IInv
<1>1. UNCHANGED <<dbVars, found, cacheVars, viewHistory, flagHistory>>  BY DEF Receive
<1>2. /\ StepsInv' /\ todo' \in [Requests -> Seq(Steps)]
      /\ job' \in [Requests -> Job \cup {[op |-> "idle"]}]
      /\ r \notin counting
      /\ todo'[r] # <<>> => Head(todo'[r]) \notin {"fetch", "save"}
      /\ \A q \in Requests : q # r => todo'[q] = todo[q] /\ job'[q] = job[q]
  BY ReceiveSteps
<1>3. RowsOK' /\ RestOK'
  <2>1. RowsOK /\ RestOK  BY TypesSplit
  <2>2. RowsOK'  BY <1>1, <2>1 DEF dbVars, RowsOK, Changed
  <2> QED  BY <1>1, <2>1, <2>2, SameRest
<1>4. \A l \in Requests :
        todo'[l] # <<>> /\ Head(todo'[l]) \in {"fetch", "save"} =>
          /\ todo[l] # <<>> /\ Head(todo[l]) = Head(todo'[l])
          /\ job'[l] = job[l]
  BY <1>2
<1>5. \A q \in counting : job'[q] = job[q] /\ (todo'[q] # <<>> => todo[q] # <<>>)
  BY <1>2 DEF TypeOK
<1>6. ViewsInv'  BY <1>1, <1>4, <1>5, Quiet
<1>7. TypeOK'  BY <1>2, <1>3, TypesJoin
<1> QED  BY <1>2, <1>6, <1>7

LEMMA FailsStep ==
  ASSUME IInv, NEW r \in Requests, Fails(r)
  PROVE  IInv'
<1> USE DEF IInv
<1>1. UNCHANGED <<db, job, found, cacheVars, viewHistory, flagHistory>>  BY DEF Fails
<1>2. /\ StepsInv' /\ todo' \in [Requests -> Seq(Steps)] /\ todo'[r] = <<>>
      /\ \A q \in Requests : q # r => todo'[q] = todo[q]
  BY FailsSteps
<1>3. RowsOK' /\ RestOK'
  <2>1. RowsOK /\ RestOK  BY TypesSplit
  <2>2. pending' = [pending EXCEPT ![r] = [s \in Rows |-> "same"]] /\ db' \in [Rows -> States]
    BY <1>1, <2>1 DEF Fails, RowsOK
  <2> QED  BY <1>1, <2>1, <2>2, Ended, SameRest
<1>4. \A l \in Requests :
        todo'[l] # <<>> /\ Head(todo'[l]) \in {"fetch", "save"} =>
          /\ todo[l] # <<>> /\ Head(todo[l]) = Head(todo'[l])
          /\ job'[l] = job[l]
  BY <1>1, <1>2
<1>5. \A q \in counting : job'[q] = job[q] /\ (todo'[q] # <<>> => todo[q] # <<>>)
  BY <1>1, <1>2 DEF TypeOK
<1>6. ViewsInv'  BY <1>1, <1>4, <1>5, Quiet
<1>7. TypeOK'  BY <1>1, <1>2, <1>3, TypesJoin
<1> QED  BY <1>2, <1>6, <1>7

LEMMA CommitStep ==
  ASSUME IInv, NEW r \in Requests, Commit(r)
  PROVE  IInv'
<1> USE DEF IInv
<1>1. /\ todo[r] # <<>> /\ Head(todo[r]) = "commit" /\ Continue(r) /\ UNCHANGED <<job, dropped, counting>>
      /\ committed' = committed \cup {r}
  BY DEF Commit, At
<1>2. StepsInv' /\ todo' \in [Requests -> Seq(Steps)]  BY <1>1, Continued
<1>3. RowsOK /\ RestOK  BY TypesSplit
<1>4. RowsOK'
  <2>1. db' \in [Rows -> States]  BY <1>3, SeesType DEF Commit
  <2>2. pending' = [pending EXCEPT ![r] = [s \in Rows |-> "same"]]  BY DEF Commit
  <2> QED  BY <1>3, <2>1, <2>2, Ended
<1>5. RestOK'  BY <1>3, CommitRest
<1>6. TypeOK'  BY <1>1, <1>2, <1>4, <1>5, TypesJoin
<1> QED  BY <1>2, <1>6, CommitViews

LEMMA CacheSteps ==
  ASSUME IInv, NEW r \in Requests, Invalidate(r) \/ Lookup(r) \/ Fetch(r) \/ Save(r)
  PROVE  IInv'
<1> USE DEF IInv
<1>1. /\ todo[r] # <<>> /\ Continue(r) /\ UNCHANGED <<dbVars, job, counting, committed>>
      /\ \/ dropped' = dropped
         \/ dropped' = dropped \cup {r} /\ Head(todo[r]) = "invalidate" /\ r \in counting
  BY DEF Invalidate, Lookup, Fetch, Save, At, viewHistory
<1>2. StepsInv' /\ todo' \in [Requests -> Seq(Steps)]  BY <1>1, Continued
<1>3. RowsOK'  BY <1>1, TypesSplit DEF dbVars, RowsOK, Changed
<1>4. RestOK'  BY CacheRest
<1>5. TypeOK'  BY <1>1, <1>2, <1>3, <1>4, TypesJoin
<1>6. ViewsInv'  BY InvalidateViews, LookupViews, FetchViews, SaveViews
<1> QED  BY <1>2, <1>5, <1>6

LEMMA CountStep ==
  ASSUME IInv, NEW r \in Requests, Count(r)
  PROVE  IInv'
<1> USE DEF IInv
<1>1. /\ UNCHANGED <<dbVars, todo, job, dropped, committed>>
      /\ todo[r] # <<>> /\ counting' = counting \cup {r}
  BY DEF Count, At, requestVars, viewHistory
<1>2. StepsInv'
  <2>1. job[r].op # "idle"  BY <1>1 DEF StepsInv, StepsOf
  <2> QED  BY <1>1, <2>1 DEF StepsInv, StepsOf
<1>3. RowsOK'  BY <1>1, TypesSplit DEF dbVars, RowsOK, Changed
<1>4. RestOK'  BY TypesSplit, CountRest
<1>5. todo' \in [Requests -> Seq(Steps)]  BY <1>1 DEF TypeOK
<1>6. TypeOK'  BY <1>1, <1>3, <1>4, <1>5, TypesJoin
<1> QED  BY <1>2, <1>6, CountViews

LEMMA ExpiryStep ==
  ASSUME IInv, NEW v \in ViewNames, VersionExpires(v)
  PROVE  IInv'
<1> USE DEF IInv
<1>1. UNCHANGED <<dbVars, todo, job, counting, dropped, committed>>
  BY DEF VersionExpires, requestVars
<1>2. StepsInv'  BY <1>1 DEF StepsInv, StepsOf
<1>3. RowsOK'  BY <1>1, TypesSplit DEF dbVars, RowsOK, Changed
<1>4. RestOK'  BY TypesSplit, ExpiryRest
<1>5. todo' \in [Requests -> Seq(Steps)]  BY <1>1 DEF TypeOK
<1>6. TypeOK'  BY <1>1, <1>3, <1>4, <1>5, TypesJoin
<1> QED  BY <1>2, <1>6, ExpiryViews

LEMMA Stutters ==
  ASSUME IInv, UNCHANGED vars
  PROVE  IInv'
<1>1. /\ UNCHANGED <<db, pending, todo, job, found, counting, dropped, committed>>
      /\ UNCHANGED <<cacheVars, viewHistory, flagHistory>>
  BY DEF vars, dbVars, requestVars, cacheVars, viewHistory
<1>2. TypeOK'
  <2>1. UNCHANGED <<entries, version, counting, counted, expiries, seen, missing>>
    BY <1>1 DEF cacheVars
  <2>2. UNCHANGED <<dropped, committed, raced, setBack, outdated, outrun, unset>>
    BY <1>1 DEF viewHistory, flagHistory
  <2>3. (\A q, r \in Requests : q # r => Changed(q) \cap Changed(r) = {})'
    BY <1>1 DEF IInv, TypeOK, Changed
  <2> QED  BY <1>1, <2>1, <2>2, <2>3 DEF IInv, TypeOK
<1>3. StepsInv'  BY <1>1 DEF IInv, StepsInv, StepsOf
<1>4. ViewsInv'  BY <1>1, Quiet DEF IInv
<1> QED  BY <1>2, <1>3, <1>4 DEF IInv

LEMMA Preserved == Spec => []IInv
<1>1. Init => IInv  BY Initial
<1>2. IInv /\ [Next]_vars => IInv'
  BY RowSteps, DeleteStep, ReceiveStep, FailsStep, CommitStep, CountStep, CacheSteps, ExpiryStep,
     Stutters DEF Next
<1> QED  BY <1>1, <1>2, PTL DEF Spec

\* Every variable keeps its type, and two transactions never hold changes of the
\* same row.
THEOREM TypeCorrect == Spec => []TypeOK
<1>1. IInv => TypeOK  BY DEF IInv
<1> QED  BY <1>1, Preserved, PTL

\* Once a request that has changed rows and invalidated views is over, those views
\* show the change, however loads and other invalidations overlap with it, unless
\* one of them was loaded after its version was read and before the transaction
\* committed (the services that invalidate inside their transaction), or the view's
\* version was set back: it expired, or an invalidation set it that had read it
\* before others raised it (incrementVersion and incrementEntityVersion).
THEOREM InvalidatedViewsShow == Spec => []ChangesShow
<1>1. IInv => ChangesShow
  <2> SUFFICES ASSUME IInv, NEW e \in entries, e.version = version[e.view], e.view \notin setBack,
                      NEW r \in e.missing, r \in dropped, e.view \in Drops(r), r \notin raced
               PROVE  FALSE
    BY DEF ChangesShow
  <2>1. e.view \in ViewNames /\ r \in Requests /\ e.version \in Nat  BY DEF IInv, TypeOK
  <2>2. r \in counting \ raced  BY <2>1 DEF IInv, StepsInv, StepsOf
  <2>3. e.view \in Watched(r)  BY <2>1 DEF Watched
  <2>4. BehindOf(r, e.view) /\ counted[r][e.view] < version[e.view]
    BY <2>2, <2>3 DEF IInv, ViewsInv, BehindInv, CountInv
  <2>5. e.version <= counted[r][e.view]  BY <2>4 DEF BehindOf, Lacks
  <2>6. counted[r][e.view] \in Nat  BY <2>1 DEF IInv, TypeOK
  <2> QED  BY <2>1, <2>4, <2>5, <2>6
<1> QED  BY <1>1, Preserved, PTL

-----------------------------------------------------------------------------
(* Flags: a request that may change them, and what it goes by.             *)

FlagOps == {"createUser", "updateUser", "removeUser", "addReview", "deleteReview",
            "createAddress", "patchAddress", "deleteAddress", "createVersion",
            "patchVersion", "deleteVersion", "updateStock"}

\* Those that decide without reading.
Blind == {"updateUser", "deleteReview", "createVersion", "patchVersion", "updateStock"}

\* A delete reads and promotes after it.
NextRead == <<"read", "promote", "invalidate", "commit">>

\* The steps that may be ahead of a request that may change flags.
OnPath(op, q) ==
  \/ q = <<>>
  \/ /\ op \in {"createUser", "addReview", "updateUser", "removeUser", "deleteReview"}
     /\ q \in {<<"commit", "invalidate">>, <<"invalidate">>}
  \/ /\ op \in {"createAddress", "deleteAddress", "createVersion", "patchVersion",
                "deleteVersion", "updateStock"}
     /\ q \in {<<"invalidate", "commit">>, <<"commit">>}
  \/ /\ op \in {"createUser", "addReview"}
     /\ q \in {<<"insert", "commit", "invalidate">>, <<"read", "insert", "commit", "invalidate">>}
  \/ op = "updateUser" /\ q = <<"update", "commit", "invalidate">>
  \/ /\ op = "removeUser"
     /\ q \in {<<"delete", "commit", "invalidate">>, <<"read", "delete", "commit", "invalidate">>}
  \/ op = "deleteReview" /\ q = <<"delete", "commit", "invalidate">>
  \/ /\ op = "createAddress"
     /\ q \in {<<"insert", "invalidate", "commit">>, <<"clear", "insert", "invalidate", "commit">>,
               <<"read", "clear", "insert", "invalidate", "commit">>}
  \/ op = "patchAddress" /\ q = <<"read">>
  \/ /\ op = "deleteAddress"
     /\ q \in {<<"promote", "invalidate", "commit">>, NextRead,
               <<"delete", "read", "promote", "invalidate", "commit">>}
  \/ op = "createVersion" /\ q = <<"insert", "invalidate", "commit">>
  \/ /\ op = "patchVersion"
     /\ q \in {<<"update", "invalidate", "commit">>, <<"clear", "update", "invalidate", "commit">>}
  \/ /\ op = "deleteVersion"
     /\ q \in {<<"promote", "invalidate", "commit">>, NextRead,
               <<"delete", "invalidate", "commit">>, <<"read", "delete", "invalidate", "commit">>}
  \/ op = "updateStock" /\ q = <<"update", "invalidate", "commit">>

\* A request that may change flags, at work.
Serving(r) == job[r].op \in FlagOps /\ todo[r] # <<>>

Own(r) == Group(Row(r))

\* The rows of its group that a request sees, and those it sees flagged.
Exist(r) == {s \in Siblings(Row(r)) : Sees(r, s) # "absent"}

Flags(r) == {s \in Siblings(Row(r)) : Sees(r, s) = "flagged"}

DbRows(g) == {s \in Rows : Group(s) = g /\ db[s] # "absent"}

Alone(S) == \A s, t \in S : s = t

Untouched(r) == \A s \in Siblings(Row(r)) : pending[r][s] = "same"

\* What a request may have written: outside its group it only deletes reviews and
\* offers, and takes away flags.
PlaceOf(r) ==
  /\ job[r].op \in FlagOps => OnPath(job[r].op, todo[r])
  /\ job[r].op \in {"idle", "load"} => \A s \in Rows : pending[r][s] = "same"
  /\ job[r].op = "load" => todo[r] = <<>> \/ todo[r] \in Loading
  /\ job[r].op = "idle" => found[r] = [rows |-> {}, flagged |-> {}]
  /\ job[r].op # "idle" =>
       /\ job[r] \in Jobs[r]
       /\ found[r].rows \subseteq Siblings(Row(r))
       /\ \A s \in Rows \ Siblings(Row(r)) :
            \/ pending[r][s] = "same"
            \/ pending[r][s] = "absent" /\ KindOf[s] \in {"review", "offer"}
            \/ pending[r][s] = "plain" /\ Group(s) \in unset

\* What it has written, by the step it takes next.
WrittenOf(r) ==
  Serving(r) =>
    /\ \/ At(r, "clear") \/ At(r, "delete")
       \/ At(r, "read") /\ todo[r] # NextRead
       \/ (At(r, "insert") \/ At(r, "update")) /\ job[r].flag # "set"
       => Untouched(r)
    /\ todo[r] = NextRead => \A s \in Siblings(Row(r)) : pending[r][s] \in {"same", "absent"}
    /\ job[r].op \in {"updateUser", "deleteReview"} => Flags(r) \subseteq FlaggedOf(Own(r))

\* What it has read still holds when it is used, unless it is outdated.
Relies(r) ==
  \/ At(r, "clear") /\ job[r].op = "createAddress"
  \/ At(r, "insert") /\ job[r].op = "createAddress" /\ job[r].flag # "set"
  \/ At(r, "delete") /\ job[r].op = "deleteVersion"
  \/ At(r, "promote")

FoundOf(r) ==
  Serving(r) /\ Relies(r) => found[r].rows = Exist(r) /\ found[r].flagged = Flags(r)

\* It is not about to flag a second row.
OneOf(r) ==
  Serving(r) /\ Kind(r) \in {"user", "address", "review"} /\ Own(r) \notin outrun =>
    /\ Alone(Flags(r))
    /\ At(r, "insert") /\ FlagToInsert(r) = "flagged" => Flags(r) = {}
    /\ At(r, "update") /\ job[r].flag = "set" => Flags(r) \subseteq {Row(r)}

\* It is not about to leave rows without a flag.
Leaves(r) ==
  IF Kind(r) = "address" THEN Exist(r) # {} => Flags(r) # {}
  ELSE IF job[r].op = "deleteVersion" THEN Flags(r) # {}
  ELSE \/ pending[r][Row(r)] = "flagged"
       \/ FlaggedOf(Own(r)) \subseteq Flags(r) /\ DbRows(Own(r)) # {}

KeptOf(r) ==
  /\ Serving(r) /\ Kind(r) \in {"address", "version"} /\ Own(r) \notin outrun \cup unset
  /\ At(r, "invalidate") \/ At(r, "commit")
  => Leaves(r)

ClaimsOf(r) ==
  /\ PlaceOf(r) /\ WrittenOf(r)
  /\ r \notin outdated => FoundOf(r) /\ OneOf(r) /\ KeptOf(r)

OneInv ==
  \A g \in Groups \ outrun : g[1] \in {"user", "address", "review"} => Alone(FlaggedOf(g))

KeptInv ==
  \A g \in Groups \ (outrun \cup unset) :
    g[1] \in {"address", "version"} /\ DbRows(g) # {} => FlaggedOf(g) # {}

FlagInv == OneInv /\ KeptInv /\ \A r \in Requests : ClaimsOf(r)

-----------------------------------------------------------------------------
(* Where an operation goes on.                                             *)

LEMMA EndsOfLists ==
  /\ Head(<<"commit", "invalidate">>) = "commit"
  /\ Tail(<<"commit", "invalidate">>) = <<"invalidate">>
  /\ Head(<<"invalidate">>) = "invalidate"
  /\ Tail(<<"invalidate">>) = <<>>
  /\ Head(<<"invalidate", "commit">>) = "invalidate"
  /\ Tail(<<"invalidate", "commit">>) = <<"commit">>
  /\ Head(<<"commit">>) = "commit"
  /\ Tail(<<"commit">>) = <<>>
  /\ Head(<<"insert", "commit", "invalidate">>) = "insert"
  /\ Tail(<<"insert", "commit", "invalidate">>) = <<"commit", "invalidate">>
  /\ Head(<<"read", "insert", "commit", "invalidate">>) = "read"
  /\ Tail(<<"read", "insert", "commit", "invalidate">>) = <<"insert", "commit", "invalidate">>
  /\ Head(<<"update", "commit", "invalidate">>) = "update"
  /\ Tail(<<"update", "commit", "invalidate">>) = <<"commit", "invalidate">>
  /\ Head(<<"delete", "commit", "invalidate">>) = "delete"
  /\ Tail(<<"delete", "commit", "invalidate">>) = <<"commit", "invalidate">>
  /\ Head(<<"read", "delete", "commit", "invalidate">>) = "read"
  /\ Tail(<<"read", "delete", "commit", "invalidate">>) = <<"delete", "commit", "invalidate">>
  /\ Head(<<"insert", "invalidate", "commit">>) = "insert"
  /\ Tail(<<"insert", "invalidate", "commit">>) = <<"invalidate", "commit">>
  /\ Head(<<"clear", "insert", "invalidate", "commit">>) = "clear"
  /\ Tail(<<"clear", "insert", "invalidate", "commit">>) = <<"insert", "invalidate", "commit">>
  /\ Head(<<"read", "clear", "insert", "invalidate", "commit">>) = "read"
  /\ Tail(<<"read", "clear", "insert", "invalidate", "commit">>) = <<"clear", "insert", "invalidate", "commit">>
  /\ Head(<<"update", "invalidate", "commit">>) = "update"
  /\ Tail(<<"update", "invalidate", "commit">>) = <<"invalidate", "commit">>
  /\ Head(<<"clear", "update", "invalidate", "commit">>) = "clear"
  /\ Tail(<<"clear", "update", "invalidate", "commit">>) = <<"update", "invalidate", "commit">>
  /\ Head(<<"read">>) = "read" /\ Tail(<<"read">>) = <<>>
  /\ Head(<<"promote", "invalidate", "commit">>) = "promote"
  /\ Tail(<<"promote", "invalidate", "commit">>) = <<"invalidate", "commit">>
  /\ Head(<<"read", "promote", "invalidate", "commit">>) = "read"
  /\ Tail(<<"read", "promote", "invalidate", "commit">>) = <<"promote", "invalidate", "commit">>
  /\ Head(<<"delete", "read", "promote", "invalidate", "commit">>) = "delete"
  /\ Tail(<<"delete", "read", "promote", "invalidate", "commit">>) = <<"read", "promote", "invalidate", "commit">>
  /\ Head(<<"delete", "invalidate", "commit">>) = "delete"
  /\ Tail(<<"delete", "invalidate", "commit">>) = <<"invalidate", "commit">>
  /\ Head(<<"read", "delete", "invalidate", "commit">>) = "read"
  /\ Tail(<<"read", "delete", "invalidate", "commit">>) = <<"delete", "invalidate", "commit">>
OBVIOUS

LEMMA AfterRead ==
  ASSUME NEW op, NEW q, OnPath(op, q), q # <<>>, Head(q) = "read"
  PROVE  /\ OnPath(op, Tail(q))
         /\ \/ /\ op \in {"createUser", "addReview"} /\ q # NextRead
               /\ Tail(q) = <<"insert", "commit", "invalidate">>
            \/ /\ op = "removeUser" /\ q # NextRead
               /\ Tail(q) = <<"delete", "commit", "invalidate">>
            \/ /\ op = "createAddress" /\ q # NextRead
               /\ Tail(q) = <<"clear", "insert", "invalidate", "commit">>
            \/ op = "patchAddress" /\ Tail(q) = <<>>
            \/ /\ op \in {"deleteAddress", "deleteVersion"} /\ q = NextRead
               /\ Tail(q) = <<"promote", "invalidate", "commit">>
            \/ /\ op = "deleteVersion" /\ q # NextRead
               /\ Tail(q) = <<"delete", "invalidate", "commit">>
BY EndsOfLists, Zenon DEF OnPath, NextRead

LEMMA AfterClear ==
  ASSUME NEW op, NEW q, OnPath(op, q), q # <<>>, Head(q) = "clear"
  PROVE  /\ OnPath(op, Tail(q))
         /\ \/ op = "createAddress" /\ Tail(q) = <<"insert", "invalidate", "commit">>
            \/ op = "patchVersion" /\ Tail(q) = <<"update", "invalidate", "commit">>
BY EndsOfLists, Zenon DEF OnPath, NextRead

LEMMA AfterWrite ==
  ASSUME NEW op, NEW q, OnPath(op, q), q # <<>>, Head(q) \in {"insert", "update", "promote"}
  PROVE  /\ OnPath(op, Tail(q))
         /\ \/ /\ op \in {"createUser", "addReview"} /\ Head(q) = "insert"
               /\ Tail(q) = <<"commit", "invalidate">>
            \/ /\ op \in {"createAddress", "createVersion"} /\ Head(q) = "insert"
               /\ Tail(q) = <<"invalidate", "commit">>
            \/ /\ op = "updateUser" /\ Head(q) = "update"
               /\ Tail(q) = <<"commit", "invalidate">>
            \/ /\ op \in {"patchVersion", "updateStock"} /\ Head(q) = "update"
               /\ Tail(q) = <<"invalidate", "commit">>
            \/ /\ op \in {"deleteAddress", "deleteVersion"} /\ Head(q) = "promote"
               /\ Tail(q) = <<"invalidate", "commit">>
BY EndsOfLists, Zenon DEF OnPath, NextRead

LEMMA AfterDelete ==
  ASSUME NEW op, NEW q, OnPath(op, q), q # <<>>, Head(q) = "delete"
  PROVE  /\ OnPath(op, Tail(q))
         /\ \/ /\ op \in {"removeUser", "deleteReview"}
               /\ Tail(q) = <<"commit", "invalidate">>
            \/ op = "deleteAddress" /\ Tail(q) = NextRead
            \/ op = "deleteVersion" /\ Tail(q) = <<"invalidate", "commit">>
BY EndsOfLists, Zenon DEF OnPath, NextRead

LEMMA AfterEnd ==
  ASSUME NEW op, NEW q, OnPath(op, q), q # <<>>, Head(q) \in {"commit", "invalidate"}
  PROVE  /\ OnPath(op, Tail(q))
         /\ \/ Tail(q) = <<>>
            \/ /\ op \in {"createUser", "addReview", "updateUser", "removeUser", "deleteReview"}
               /\ Tail(q) = <<"invalidate">>
            \/ /\ Head(q) = "invalidate" /\ Tail(q) = <<"commit">>
BY EndsOfLists, Zenon DEF OnPath, NextRead

LEMMA StepsOnPath ==
  ASSUME NEW op, NEW q, OnPath(op, q), q # <<>>
  PROVE  Head(q) \in {"read", "insert", "clear", "update", "delete", "promote", "commit", "invalidate"}
BY EndsOfLists, Zenon DEF OnPath, NextRead

-----------------------------------------------------------------------------
(* Which operations may change flags.                                      *)

Begins(name, q) ==
  /\ q # <<>> /\ Head(q) \in {"read", "insert", "clear", "update", "delete"}
  /\ Head(q) = "insert" => name = "createVersion"
  /\ Head(q) = "clear" => name = "patchVersion"
  /\ Head(q) = "update" => name \in {"updateUser", "updateStock"}
  /\ Head(q) = "delete" => name \in {"deleteReview", "deleteAddress"}

GoodStarts(ops) ==
  \A name \in DOMAIN ops :
    /\ name \in FlagOps => OnPath(name, ops[name].steps) /\ Begins(name, ops[name].steps)
    /\ name \in FlagOps \ Blind =>
         \E i \in DOMAIN ops[name].steps : ops[name].steps[i] = "read"
    /\ name = "load" => ops[name].steps \in Loading

LEMMA StartsAreGood ==
  ASSUME NEW ops \in AllOps
  PROVE  GoodStarts(ops)
<1>1. GoodStarts(UserOps)  BY DEF UserOps, Op, OnPath, Begins, FlagOps, Blind, GoodStarts
<1>2. GoodStarts(ProductOps)  BY DEF ProductOps, Op, FlagOps, GoodStarts
<1>3. GoodStarts(VersionOps)  BY DEF VersionOps, Op, OnPath, Begins, FlagOps, Blind, GoodStarts
<1>4. GoodStarts(StockOps)  BY DEF StockOps, Op, OnPath, Begins, FlagOps, Blind, GoodStarts
<1>5. GoodStarts(CategoryOps)  BY DEF CategoryOps, Op, FlagOps, GoodStarts
<1>6. GoodStarts(SubcategoryOps)  BY DEF SubcategoryOps, Op, FlagOps, GoodStarts
<1>7. GoodStarts(OfferOps)  BY DEF OfferOps, Op, FlagOps, GoodStarts
<1>8. GoodStarts(AddReview)  BY DEF AddReview, Op, OnPath, Begins, FlagOps, Blind, GoodStarts
<1>9. GoodStarts(DeleteReview)  BY DEF DeleteReview, Op, OnPath, Begins, FlagOps, Blind, GoodStarts
<1>10. GoodStarts(AddressOps)  BY DEF AddressOps, Op, OnPath, Begins, FlagOps, Blind, GoodStarts
<1>11. GoodStarts(FavoriteOps)  BY DEF FavoriteOps, Op, FlagOps, GoodStarts
<1>12. GoodStarts(ShippingOps)  BY DEF ShippingOps, Op, FlagOps, GoodStarts
<1>13. GoodStarts(CustomerOps)  BY DEF CustomerOps, Op, FlagOps, GoodStarts
<1>14. GoodStarts(OrderOps)  BY DEF OrderOps, Op, FlagOps, GoodStarts
<1>15. GoodStarts(LoadOps)  BY DEF LoadOps, Op, FlagOps, GoodStarts, Loading
<1> QED  BY <1>1, <1>2, <1>3, <1>4, <1>5, <1>6, <1>7, <1>8, <1>9, <1>10, <1>11, <1>12, <1>13,
            <1>14, <1>15
         DEF AllOps, Services

LEMMA Starts ==
  ASSUME NEW name \in Operations
  PROVE  /\ name \in FlagOps => OnPath(name, OpOf(name).steps) /\ Begins(name, OpOf(name).steps)
         /\ name \in FlagOps \ Blind =>
              \E i \in DOMAIN OpOf(name).steps : OpOf(name).steps[i] = "read"
         /\ name = "load" => OpOf(name).steps \in Loading
<1>1. \E ops \in AllOps : name \in DOMAIN ops  BY Zenon DEF Operations
<1> DEFINE ops == CHOOSE o \in AllOps : name \in DOMAIN o
<1>2. ops \in AllOps /\ name \in DOMAIN ops  BY <1>1, Zenon
<1>3. OpOf(name) = ops[name]  BY Zenon DEF OpOf
<1> HIDE DEF ops
<1> QED  BY <1>2, <1>3, StartsAreGood DEF GoodStarts

OpsOn(kind) ==
  CASE kind = "user" -> {"createUser", "updateUser", "removeUser"}
    [] kind = "review" -> {"addReview", "deleteReview"}
    [] kind = "address" -> {"createAddress", "patchAddress", "deleteAddress"}
    [] kind = "version" -> {"createVersion", "patchVersion", "deleteVersion", "updateStock"}
    [] OTHER -> {}

GoodTable(t) ==
  \A name \in DOMAIN t[1] :
    /\ t[2] \in {"user", "review", "address", "version"} => name \in OpsOn(t[2])
    /\ name \in FlagOps => t[2] \in {"user", "review", "address", "version"}

LEMMA TablesAreGood ==
  ASSUME NEW t \in Tables
  PROVE  GoodTable(t)
<1>1. GoodTable(<<UserOps, "user">>)  BY DEF UserOps, Op, OpsOn, GoodTable
<1>2. GoodTable(<<ProductOps, "product">>)  BY DEF ProductOps, Op, FlagOps, GoodTable
<1>3. GoodTable(<<VersionOps, "version">>)  BY DEF VersionOps, Op, OpsOn, GoodTable
<1>4. GoodTable(<<StockOps, "version">>)  BY DEF StockOps, Op, OpsOn, GoodTable
<1>5. GoodTable(<<CategoryOps, "category">>)  BY DEF CategoryOps, Op, FlagOps, GoodTable
<1>6. GoodTable(<<SubcategoryOps, "subcategory">>)  BY DEF SubcategoryOps, Op, FlagOps, GoodTable
<1>7. GoodTable(<<OfferOps, "offer">>)  BY DEF OfferOps, Op, FlagOps, GoodTable
<1>8. GoodTable(<<AddReview, "review">>)  BY DEF AddReview, Op, OpsOn, GoodTable
<1>9. GoodTable(<<DeleteReview, "review">>)  BY DEF DeleteReview, Op, OpsOn, GoodTable
<1>10. GoodTable(<<AddressOps, "address">>)  BY DEF AddressOps, Op, OpsOn, GoodTable
<1>11. GoodTable(<<FavoriteOps, "favorite">>)  BY DEF FavoriteOps, Op, FlagOps, GoodTable
<1>12. GoodTable(<<ShippingOps, "shipping">>)  BY DEF ShippingOps, Op, FlagOps, GoodTable
<1>13. GoodTable(<<CustomerOps, "customer">>)  BY DEF CustomerOps, Op, FlagOps, GoodTable
<1>14. GoodTable(<<OrderOps, "order">>)  BY DEF OrderOps, Op, FlagOps, GoodTable
<1> QED  BY <1>1, <1>2, <1>3, <1>4, <1>5, <1>6, <1>7, <1>8, <1>9, <1>10, <1>11, <1>12, <1>13,
            <1>14 DEF Tables

\* An operation that may change flags, and its table, determine each other.
LEMMA KindOfAsked ==
  ASSUME NEW r \in Requests, NEW j \in Jobs[r]
  PROVE  /\ j.op \in FlagOps => KindOf[j.row] \in {"user", "review", "address", "version"}
         /\ j.op # "load" /\ KindOf[j.row] \in {"user", "review", "address", "version"} =>
              j.op \in OpsOn(KindOf[j.row])
         /\ j.op \in {"updateUser", "updateStock"} => j.flag = "keep"
         /\ j.op \in Operations /\ j.row \in Rows
<1>1. j \in Job  BY BackOfficeAssumption
<1>2. j.op \in Operations /\ j.row \in Rows  BY <1>1 DEF Job
<1>3. PICK ops \in AllOps : j.op \in DOMAIN ops  BY <1>2, Zenon DEF Operations
<1>4. j.op \in {"updateUser", "updateStock"} => j.flag = "keep"
  BY TablesAssumption
<1>5. CASE ops = LoadOps
  <2>1. j.op = "load"  BY <1>3, <1>5 DEF LoadOps
  <2> QED  BY <1>2, <1>4, <2>1 DEF FlagOps
<1>6. CASE ops # LoadOps
  <2>1. ops \in Services  BY <1>6 DEF AllOps
  <2>2. PICK t \in Tables : t[1] = ops  BY <2>1 DEF Services, Tables
  <2>3. KindOf[j.row] = t[2]  BY <1>3, <2>2, TablesAssumption
  <2>4. GoodTable(t)  BY TablesAreGood
  <2> QED  BY <1>2, <1>3, <1>4, <2>2, <2>3, <2>4 DEF GoodTable
<1> QED  BY <1>5, <1>6

LEMMA KindOfJob ==
  ASSUME NEW r \in Requests, job[r] \in Jobs[r]
  PROVE  /\ job[r].op \in FlagOps => Kind(r) \in {"user", "review", "address", "version"}
         /\ job[r].op # "load" /\ Kind(r) \in {"user", "review", "address", "version"} =>
              job[r].op \in OpsOn(Kind(r))
         /\ job[r].op \in {"updateUser", "updateStock"} => job[r].flag = "keep"
         /\ Row(r) \in Rows
BY KindOfAsked DEF Kind, Row

-----------------------------------------------------------------------------
(* Steps of others.                                                        *)

LEMMA SameView ==
  ASSUME NEW r \in Requests, UNCHANGED <<job[r], pending[r]>>,
         \A s \in Siblings(Row(r)) : db'[s] = db[s]
  PROVE  /\ Row(r)' = Row(r) /\ Kind(r)' = Kind(r) /\ Own(r)' = Own(r)
         /\ Exist(r)' = Exist(r) /\ Flags(r)' = Flags(r)
         /\ Untouched(r)' <=> Untouched(r)
         /\ FlaggedOf(Own(r))' = FlaggedOf(Own(r)) /\ DbRows(Own(r))' = DbRows(Own(r))
<1>1. Row(r)' = Row(r)  BY DEF Row
<1>2. Kind(r)' = Kind(r) /\ Own(r)' = Own(r)  BY <1>1 DEF Kind, Own, Group
<1>3. Siblings(Row(r))' = Siblings(Row(r))  BY <1>1 DEF Siblings, Group
<1>4. \A s \in Siblings(Row(r)) : Sees(r, s)' = Sees(r, s)  BY DEF Sees
<1>5. Exist(r)' = Exist(r) /\ Flags(r)' = Flags(r)  BY <1>3, <1>4 DEF Exist, Flags
<1>6. Untouched(r)' <=> Untouched(r)  BY <1>3 DEF Untouched
<1>7. \A s \in Rows : Group(s) = Own(r) => s \in Siblings(Row(r))  BY DEF Own, Siblings
<1>8. FlaggedOf(Own(r))' = {s \in Rows : Group(s) = Own(r) /\ db'[s] = "flagged"}
      /\ DbRows(Own(r))' = {s \in Rows : Group(s) = Own(r) /\ db'[s] # "absent"}
  BY <1>2 DEF FlaggedOf, DbRows, Group
<1>9. FlaggedOf(Own(r))' = FlaggedOf(Own(r)) /\ DbRows(Own(r))' = DbRows(Own(r))
  BY <1>7, <1>8 DEF FlaggedOf, DbRows
<1> QED  BY <1>1, <1>2, <1>5, <1>6, <1>9

\* Nothing that a request relies on changes.
LEMMA SameClaims ==
  ASSUME NEW r \in Requests, ClaimsOf(r), UNCHANGED <<job[r], pending[r], todo[r], found[r]>>,
         \A s \in Siblings(Row(r)) : db'[s] = db[s],
         r \in outdated => r \in outdated', outrun \subseteq outrun', unset \subseteq unset'
  PROVE  ClaimsOf(r)'
<1>1. /\ Row(r)' = Row(r) /\ Kind(r)' = Kind(r) /\ Own(r)' = Own(r)
      /\ Exist(r)' = Exist(r) /\ Flags(r)' = Flags(r) /\ (Untouched(r)' <=> Untouched(r))
      /\ FlaggedOf(Own(r))' = FlaggedOf(Own(r)) /\ DbRows(Own(r))' = DbRows(Own(r))
  BY SameView
<1>2. Siblings(Row(r))' = Siblings(Row(r))  BY <1>1 DEF Siblings, Group
<1>3. PlaceOf(r)'  BY <1>2 DEF ClaimsOf, PlaceOf, Group
<1>4. Serving(r)' <=> Serving(r)  BY DEF Serving
<1>5. \A step : At(r, step)' <=> At(r, step)  BY DEF At
<1>6. WrittenOf(r)'  BY <1>1, <1>2, <1>4, <1>5 DEF ClaimsOf, WrittenOf
<1>7. FoundOf(r) => FoundOf(r)'  BY <1>1, <1>4, <1>5 DEF FoundOf, Relies
<1>8. OneOf(r) => OneOf(r)'
  <2>1. FlagToInsert(r)' = FlagToInsert(r)  BY DEF FlagToInsert
  <2> QED  BY <1>1, <1>4, <1>5, <2>1 DEF OneOf
<1>9. KeptOf(r) => KeptOf(r)'
  <2>1. Leaves(r)' <=> Leaves(r)  BY <1>1 DEF Leaves
  <2> QED  BY <1>1, <1>4, <1>5, <2>1 DEF KeptOf
<1> QED  BY <1>3, <1>6, <1>7, <1>8, <1>9 DEF ClaimsOf

\* A step of another that does not commit.
LEMMA StepAside ==
  ASSUME TypeOK, FlagInv, NEW r \in Requests, db' = db, outrun' = outrun, unset \subseteq unset',
         outdated' = outdated \/ outdated' = outdated \ {r},
         \A q \in Requests \ {r} : UNCHANGED <<job[q], pending[q], todo[q], found[q]>>,
         ClaimsOf(r)'
  PROVE  FlagInv'
<1>1. ASSUME NEW q \in Requests
      PROVE  ClaimsOf(q)'
  <2>1. CASE q = r  BY <2>1
  <2>2. CASE q # r
    <3>1. ClaimsOf(q) /\ UNCHANGED <<job[q], pending[q], todo[q], found[q]>>  BY <2>2 DEF FlagInv
    <3>2. q \in outdated => q \in outdated'  BY <2>2
    <3> QED  BY <3>1, <3>2, SameClaims
  <2> QED  BY <2>1, <2>2
<1>2. \A g : FlaggedOf(g)' = FlaggedOf(g) /\ DbRows(g)' = DbRows(g)
  BY DEF FlaggedOf, DbRows, Group
<1>3. OneInv'  BY <1>2 DEF FlagInv, OneInv, Groups, Group
<1>4. KeptInv'  BY <1>2 DEF FlagInv, KeptInv, Groups, Group
<1> QED  BY <1>1, <1>3, <1>4 DEF FlagInv

-----------------------------------------------------------------------------
(* A request's own steps.                                                  *)

LEMMA Acting ==
  ASSUME TypeOK, StepsInv, FlagInv, NEW r \in Requests, todo[r] # <<>>
  PROVE  /\ job[r].op # "idle" /\ job[r] \in Jobs[r] /\ ClaimsOf(r)
         /\ Row(r) \in Rows /\ Own(r) \in Groups /\ Own(r)[1] = Kind(r)
         /\ job[r].op = "load" => Head(todo[r]) \in {"lookup", "fetch", "save"}
         /\ job[r].op \in FlagOps =>
              Serving(r) /\ OnPath(job[r].op, todo[r]) /\ job[r].op \in OpsOn(Kind(r))
         /\ job[r].op \notin FlagOps => Kind(r) \notin {"user", "review", "address", "version"}
                                        \/ job[r].op = "load"
         /\ job[r].op \in {"updateUser", "updateStock"} => job[r].flag = "keep"
<1>1. job[r].op # "idle" /\ Row(r) \in Rows /\ Own(r) \in Groups
  BY Working DEF StepsInv, StepsOf, Own
<1>2. ClaimsOf(r) /\ PlaceOf(r)  BY DEF FlagInv, ClaimsOf
<1>3. job[r] \in Jobs[r]  BY <1>1, <1>2 DEF PlaceOf
<1>4. Own(r)[1] = Kind(r)  BY DEF Own, Group, Kind
<1>5. job[r].op = "load" => Head(todo[r]) \in {"lookup", "fetch", "save"}
  BY <1>2, LoadingTails DEF PlaceOf, Loading
<1>6. /\ job[r].op \in FlagOps => Kind(r) \in {"user", "review", "address", "version"}
      /\ job[r].op # "load" /\ Kind(r) \in {"user", "review", "address", "version"} =>
           job[r].op \in OpsOn(Kind(r))
      /\ job[r].op \in {"updateUser", "updateStock"} => job[r].flag = "keep"
  BY <1>1, <1>3, KindOfJob
<1>7. "load" \notin FlagOps  BY DEF FlagOps
<1>8. \A kind : OpsOn(kind) \subseteq FlagOps  BY DEF OpsOn, FlagOps
<1> QED  BY <1>1, <1>2, <1>3, <1>4, <1>5, <1>6, <1>7, <1>8 DEF Serving, PlaceOf

\* Before it writes a flag, a request sees flags only where they are.
LEMMA NoFlagWritten ==
  ASSUME NEW r \in Requests,
         \A s \in Siblings(Row(r)) : pending[r][s] \in {"same", "absent"}
  PROVE  Flags(r) \subseteq FlaggedOf(Own(r))
BY DEF Flags, FlaggedOf, Own, Siblings, Sees

LEMMA NothingWritten ==
  ASSUME NEW r \in Requests, Untouched(r)
  PROVE  Flags(r) = FlaggedOf(Own(r)) /\ Exist(r) = DbRows(Own(r))
BY DEF Flags, Exist, FlaggedOf, DbRows, Own, Siblings, Sees, Untouched

LEMMA AloneOrNone ==
  ASSUME NEW S, Alone(S), Cardinality(S) # 1
  PROVE  S = {}
<1> SUFFICES ASSUME NEW s \in S
             PROVE  FALSE
  OBVIOUS
<1>1. S = {s}  BY DEF Alone
<1> QED  BY <1>1, FS_Singleton

LEMMA ReadFlags ==
  ASSUME TypeOK, StepsInv, FlagInv, NEW r \in Requests, Read(r)
  PROVE  FlagInv'
<1>1. /\ todo[r] # <<>> /\ Head(todo[r]) = "read"
      /\ todo' = [todo EXCEPT ![r] = Tail(todo[r])]
      /\ UNCHANGED <<db, pending, job, outrun, unset>> /\ outdated' = outdated \ {r}
  BY DEF Read, At, Continue, dbVars
<1>2. /\ found' = [found EXCEPT ![r] = [rows |-> Exist(r), flagged |-> Flags(r)]]
      /\ ~Refused(r, Flags(r))
  <2>1. {s \in Exist(r) : Sees(r, s) = "flagged"} = Flags(r)  BY DEF Exist, Flags
  <2>2. /\ found' = [found EXCEPT ![r] =
             [rows |-> Exist(r), flagged |-> {s \in Exist(r) : Sees(r, s) = "flagged"}]]
        /\ ~Refused(r, {s \in Exist(r) : Sees(r, s) = "flagged"})
    BY DEF Read, Exist
  <2> QED  BY <2>1, <2>2
<1>3. /\ job[r].op # "idle" /\ job[r] \in Jobs[r] /\ ClaimsOf(r) /\ job[r].op # "load"
      /\ Row(r) \in Rows /\ Own(r) \in Groups /\ Own(r)[1] = Kind(r)
      /\ job[r].op \in FlagOps => Serving(r) /\ OnPath(job[r].op, todo[r])
  BY <1>1, Acting
<1>4. todo'[r] = Tail(todo[r]) /\ found'[r].rows = Exist(r) /\ found'[r].flagged = Flags(r)
      /\ \A q \in Requests \ {r} : UNCHANGED <<job[q], pending[q], todo[q], found[q]>>
  BY <1>1, <1>2 DEF TypeOK
<1>5. /\ Row(r)' = Row(r) /\ Kind(r)' = Kind(r) /\ Own(r)' = Own(r)
      /\ Exist(r)' = Exist(r) /\ Flags(r)' = Flags(r) /\ (Untouched(r)' <=> Untouched(r))
  BY <1>1, SameView
<1>6. PlaceOf(r)'
  <2>1. Siblings(Row(r))' = Siblings(Row(r))  BY <1>5 DEF Siblings, Group
  <2>2. job[r].op \in FlagOps => OnPath(job[r].op, Tail(todo[r]))  BY <1>1, <1>3, AfterRead
  <2>3. Exist(r) \subseteq Siblings(Row(r))  BY DEF Exist
  <2> QED  BY <1>1, <1>3, <1>4, <2>1, <2>2, <2>3 DEF ClaimsOf, PlaceOf, Group
<1>7. CASE job[r].op \notin FlagOps \/ job[r].op = "patchAddress"
  <2>0. job[r].op = "patchAddress" => Tail(todo[r]) = <<>>  BY <1>1, <1>3, AfterRead DEF FlagOps
  <2>1. ~Serving(r)'  BY <1>1, <1>4, <1>7, <2>0 DEF Serving
  <2>2. ClaimsOf(r)'  BY <1>6, <2>1 DEF ClaimsOf, WrittenOf, FoundOf, OneOf, KeptOf
  <2> QED  BY <1>1, <1>4, <2>2, StepAside
<1>8. CASE job[r].op \in FlagOps /\ job[r].op # "patchAddress"
  <2> DEFINE q == Tail(todo[r])
  <2>1. \/ /\ job[r].op \in {"createUser", "addReview"} /\ todo[r] # NextRead
           /\ q = <<"insert", "commit", "invalidate">>
        \/ /\ job[r].op = "removeUser" /\ todo[r] # NextRead
           /\ q = <<"delete", "commit", "invalidate">>
        \/ /\ job[r].op = "createAddress" /\ todo[r] # NextRead
           /\ q = <<"clear", "insert", "invalidate", "commit">>
        \/ /\ job[r].op \in {"deleteAddress", "deleteVersion"} /\ todo[r] = NextRead
           /\ q = <<"promote", "invalidate", "commit">>
        \/ /\ job[r].op = "deleteVersion" /\ todo[r] # NextRead
           /\ q = <<"delete", "invalidate", "commit">>
    BY <1>1, <1>3, <1>8, AfterRead
  <2>2. WrittenOf(r) /\ Serving(r)  BY <1>3, <1>8 DEF ClaimsOf
  <2>3. todo[r] # NextRead => Untouched(r)  BY <1>1, <2>2 DEF WrittenOf, At
  <2>4. Head(q) \in {"insert", "delete", "clear", "promote"} /\ q # NextRead
        /\ (Head(q) = "insert" => job[r].op \in {"createUser", "addReview"})
        /\ (Head(q) # "promote" => todo[r] # NextRead)
    BY <2>1, EndsOfLists DEF NextRead
  <2>5. WrittenOf(r)'
    <3>1. job[r].op \notin {"updateUser", "deleteReview", "updateStock"}  BY <2>1
    <3> QED  BY <1>1, <1>4, <1>5, <2>3, <2>4, <3>1 DEF WrittenOf, At
  <2>6. FoundOf(r)'  BY <1>4, <1>5 DEF FoundOf
  <2>7. ASSUME Kind(r) \in {"user", "address", "review"}, Own(r) \notin outrun
        PROVE  /\ Alone(Flags(r))
               /\ Head(q) = "insert" /\ FlagToInsert(r)' = "flagged" => Flags(r) = {}
    <3>1. Flags(r) \subseteq FlaggedOf(Own(r))
      <4>1. \A s \in Siblings(Row(r)) : pending[r][s] \in {"same", "absent"}
        BY <2>2, <2>3 DEF WrittenOf, Untouched
      <4> QED  BY <4>1, NoFlagWritten
    <3>2. Alone(FlaggedOf(Own(r)))  BY <1>3, <2>7 DEF FlagInv, OneInv
    <3>3. Alone(Flags(r))  BY <3>1, <3>2 DEF Alone
    <3>4. CASE job[r].op = "createUser"
      <4>1. FlagToInsert(r)' = "flagged" => job[r].flag = "set"
        BY <1>1, <3>4 DEF FlagToInsert
      <4> QED  BY <1>2, <3>3, <3>4, <4>1, AloneOrNone DEF Refused
    <3>5. CASE job[r].op = "addReview"
      BY <1>2, <3>3, <3>5 DEF Refused
    <3> QED  BY <2>4, <3>3, <3>4, <3>5
  <2>8. OneOf(r)'
    BY <1>1, <1>4, <1>5, <2>4, <2>7 DEF OneOf, At
  <2>9. KeptOf(r)'  BY <1>4, <2>4 DEF KeptOf, At
  <2>10. ClaimsOf(r)'  BY <1>6, <2>5, <2>6, <2>8, <2>9 DEF ClaimsOf
  <2> QED  BY <1>1, <1>4, <2>10, StepAside
<1> QED  BY <1>7, <1>8

\* What a request sees of the rows it has written.
LEMMA WrittenView ==
  ASSUME NEW r \in Requests, NEW S \in SUBSET Rows, NEW f \in [Rows -> States],
         pending'[r] = [s \in Rows |-> IF s \in S THEN f[s] ELSE pending[r][s]],
         db' = db, job'[r] = job[r]
  PROVE  /\ Row(r)' = Row(r) /\ Kind(r)' = Kind(r) /\ Own(r)' = Own(r)
         /\ Siblings(Row(r))' = Siblings(Row(r))
         /\ \A s \in Rows : Sees(r, s)' = IF s \in S THEN f[s] ELSE Sees(r, s)
         /\ FlaggedOf(Own(r))' = FlaggedOf(Own(r)) /\ DbRows(Own(r))' = DbRows(Own(r))
         /\ Flags(r)' = {s \in Siblings(Row(r)) : IF s \in S THEN f[s] = "flagged" ELSE s \in Flags(r)}
         /\ Exist(r)' = {s \in Siblings(Row(r)) : IF s \in S THEN f[s] # "absent" ELSE s \in Exist(r)}
<1>1. Row(r)' = Row(r)  BY DEF Row
<1>2. Kind(r)' = Kind(r) /\ Own(r)' = Own(r)  BY <1>1 DEF Kind, Own, Group
<1>3. Siblings(Row(r))' = Siblings(Row(r))  BY <1>1 DEF Siblings, Group
<1>4. "same" \notin States  BY DEF States
<1>5. \A s \in Rows : Sees(r, s)' = IF s \in S THEN f[s] ELSE Sees(r, s)
  BY <1>4 DEF Sees
<1>6. FlaggedOf(Own(r))' = FlaggedOf(Own(r)) /\ DbRows(Own(r))' = DbRows(Own(r))
  BY <1>2 DEF FlaggedOf, DbRows, Group
<1>7. Siblings(Row(r)) \subseteq Rows  BY DEF Siblings
<1>8. Flags(r)' = {s \in Siblings(Row(r)) : Sees(r, s)' = "flagged"}
      /\ Exist(r)' = {s \in Siblings(Row(r)) : Sees(r, s)' # "absent"}
  BY <1>3 DEF Flags, Exist
<1>9. Flags(r)' = {s \in Siblings(Row(r)) : IF s \in S THEN f[s] = "flagged" ELSE s \in Flags(r)}
      /\ Exist(r)' = {s \in Siblings(Row(r)) : IF s \in S THEN f[s] # "absent" ELSE s \in Exist(r)}
  BY <1>5, <1>7, <1>8 DEF Flags, Exist
<1> QED  BY <1>1, <1>2, <1>3, <1>5, <1>6, <1>9

\* A request goes on after a write to rows of its group.
\* What a statement may write beside the row's siblings.
MayWrite(r, S, f) ==
  \A s \in S : \/ s \in Siblings(Row(r))
               \/ f[s] = "absent" /\ KindOf[s] \in {"review", "offer"}
               \/ f[s] = "plain" /\ Group(s) \in unset'

LEMMA WrittenPlace ==
  ASSUME TypeOK, StepsInv, FlagInv, NEW r \in Requests, todo[r] # <<>>,
         Head(todo[r]) \notin {"lookup", "fetch", "save"},
         NEW S \in SUBSET Rows, NEW f \in [Rows -> States],
         MayWrite(r, S, f), unset \subseteq unset',
         pending'[r] = [s \in Rows |-> IF s \in S THEN f[s] ELSE pending[r][s]],
         UNCHANGED <<db, job[r], found[r]>>,
         job[r].op \in FlagOps => OnPath(job[r].op, todo'[r])
  PROVE  PlaceOf(r)'
<1>1. /\ job[r].op # "idle" /\ job[r] \in Jobs[r] /\ ClaimsOf(r) /\ job[r].op # "load"
      /\ Row(r) \in Rows
  BY Acting
<1>2. Siblings(Row(r))' = Siblings(Row(r))  BY WrittenView
<1>3. PlaceOf(r)  BY <1>1 DEF ClaimsOf
<1>4. ASSUME NEW s \in Rows \ Siblings(Row(r))
      PROVE  \/ pending'[r][s] = "same"
             \/ pending'[r][s] = "absent" /\ KindOf[s] \in {"review", "offer"}
             \/ pending'[r][s] = "plain" /\ Group(s) \in unset'
  <2>1. \/ pending[r][s] = "same"
        \/ pending[r][s] = "absent" /\ KindOf[s] \in {"review", "offer"}
        \/ pending[r][s] = "plain" /\ Group(s) \in unset
    BY <1>1, <1>3 DEF PlaceOf
  <2> QED  BY <2>1 DEF MayWrite
<1> QED  BY <1>1, <1>2, <1>3, <1>4 DEF PlaceOf, Group, MayWrite

LEMMA InsertFlags ==
  ASSUME TypeOK, StepsInv, FlagInv, NEW r \in Requests, Insert(r)
  PROVE  FlagInv'
<1> DEFINE v == FlagToInsert(r)
           f == [s \in Rows |-> v]
           S == {Row(r)}
<1>1. /\ todo[r] # <<>> /\ Head(todo[r]) \in {"insert", "toggle"} /\ db[Row(r)] = "absent"
      /\ todo' = [todo EXCEPT ![r] = Tail(todo[r])]
      /\ UNCHANGED <<db, job, found, outdated, outrun>>
      /\ unset' = IF v = "plain" /\ \A s \in Siblings(Row(r)) : Sees(r, s) = "absent"
                  THEN unset \cup {Own(r)} ELSE unset
  BY DEF Insert, At, Continue, Write, Own
<1>2. /\ job[r].op # "idle" /\ job[r] \in Jobs[r] /\ ClaimsOf(r) /\ job[r].op # "load"
      /\ Row(r) \in Rows /\ Own(r) \in Groups /\ Own(r)[1] = Kind(r)
      /\ job[r].op \in FlagOps =>
           Serving(r) /\ OnPath(job[r].op, todo[r]) /\ job[r].op \in OpsOn(Kind(r))
  BY <1>1, Acting
<1>3. f \in [Rows -> States] /\ v \in {"flagged", "plain"}  BY DEF FlagToInsert, States
<1>4. /\ pending' = [pending EXCEPT ![r] =
             [s \in Rows |-> IF s \in S THEN f[s] ELSE pending[r][s]]]
  BY DEF Insert, Write, TypeOK
<1>5. /\ pending'[r] = [s \in Rows |-> IF s \in S THEN f[s] ELSE pending[r][s]]
      /\ todo'[r] = Tail(todo[r])
      /\ \A q \in Requests \ {r} : UNCHANGED <<job[q], pending[q], todo[q], found[q]>>
  BY <1>1, <1>4 DEF TypeOK
<1>6. f[Row(r)] = v /\ S \in SUBSET Rows /\ Row(r) \in Siblings(Row(r)) /\ (\A s : s \in S <=> s = Row(r))
  BY <1>2 DEF Siblings
<1> HIDE DEF f, S
<1>7. /\ Row(r)' = Row(r) /\ Kind(r)' = Kind(r) /\ Own(r)' = Own(r)
      /\ FlaggedOf(Own(r))' = FlaggedOf(Own(r)) /\ DbRows(Own(r))' = DbRows(Own(r))
      /\ Flags(r)' = {s \in Siblings(Row(r)) :
                        IF s \in S THEN f[s] = "flagged" ELSE s \in Flags(r)}
  BY <1>1, <1>3, <1>5, <1>6, WrittenView
<1>8. Flags(r)' = IF v = "flagged" THEN Flags(r) \cup {Row(r)} ELSE Flags(r) \ {Row(r)}
  BY <1>6, <1>7 DEF Flags
<1>9. \/ /\ job[r].op \in FlagOps
         /\ \/ /\ job[r].op \in {"createUser", "addReview"}
               /\ Tail(todo[r]) = <<"commit", "invalidate">>
            \/ /\ job[r].op \in {"createAddress", "createVersion"}
               /\ Tail(todo[r]) = <<"invalidate", "commit">>
         /\ Head(todo[r]) = "insert" /\ OnPath(job[r].op, Tail(todo[r]))
      \/ job[r].op \notin FlagOps
  <2>1. job[r].op \in FlagOps => Head(todo[r]) = "insert"  BY <1>1, <1>2, StepsOnPath
  <2> QED  BY <1>1, <1>2, <2>1, AfterWrite
<1>10. PlaceOf(r)'
  <2>1. job[r].op \in FlagOps => OnPath(job[r].op, todo'[r])  BY <1>5, <1>9
  <2>2. \A s \in S : s \in Siblings(Row(r))  BY <1>6
  <2>3. Head(todo[r]) \notin {"lookup", "fetch", "save"} /\ UNCHANGED <<db, job[r], found[r]>>
        /\ unset \subseteq unset'
    BY <1>1
  <2>4. MayWrite(r, S, f)  BY <1>1, <2>2 DEF MayWrite
  <2> QED  BY <1>1, <1>3, <1>5, <1>6, <2>1, <2>2, <2>3, <2>4, WrittenPlace
<1>11. CASE job[r].op \notin FlagOps
  <2>1. ~Serving(r)'  BY <1>1, <1>11 DEF Serving
  <2>2. ClaimsOf(r)'  BY <1>10, <2>1 DEF ClaimsOf, WrittenOf, FoundOf, OneOf, KeptOf
  <2> QED  BY <1>1, <1>5, <2>2, StepAside
<1>12. CASE job[r].op \in FlagOps
  <2>1. Head(todo'[r]) \in {"commit", "invalidate"} /\ todo'[r] # NextRead
        /\ (Kind(r) \in {"address", "version"} => job[r].op \in {"createAddress", "createVersion"})
    <3>1. Head(todo'[r]) \in {"commit", "invalidate"} /\ todo'[r] # NextRead
      <4>1. todo'[r] = <<"commit", "invalidate">> \/ todo'[r] = <<"invalidate", "commit">>
        BY <1>5, <1>9, <1>12
      <4>2. Head(NextRead) = "read"  BY EndsOfLists, Zenon DEF NextRead
      <4>3. Head(todo'[r]) \in {"commit", "invalidate"}  BY <4>1, EndsOfLists, Zenon
      <4> QED  BY <4>2, <4>3
    <3>2. job[r].op \in {"createUser", "addReview", "createAddress", "createVersion"}
          /\ job[r].op \in OpsOn(Kind(r))
      BY <1>2, <1>9, <1>12
    <3>3. OpsOn("address") \cap {"createUser", "addReview"} = {}
          /\ OpsOn("version") \cap {"createUser", "addReview"} = {}
      BY DEF OpsOn
    <3> QED  BY <3>1, <3>2, <3>3
  <2>2. WrittenOf(r)'
    <3>1. job'[r].op \notin {"updateUser", "deleteReview", "updateStock"}  BY <1>1, <1>9, <1>12
    <3> QED  BY <2>1, <3>1 DEF WrittenOf, At
  <2>3. FoundOf(r)'  BY <2>1 DEF FoundOf, Relies, At
  <2>4. ASSUME r \notin outdated
        PROVE  OneOf(r)'
    <3>1. OneOf(r) /\ Serving(r)  BY <1>2, <1>12, <2>4 DEF ClaimsOf
    <3>2. ASSUME Kind(r) \in {"user", "address", "review"}, Own(r) \notin outrun
          PROVE  Alone(Flags(r)')
      <4>1. Alone(Flags(r)) /\ (v = "flagged" => Flags(r) = {})
        BY <1>1, <1>9, <1>12, <3>1, <3>2 DEF OneOf, At
      <4> QED  BY <1>8, <4>1 DEF Alone
    <3> QED  BY <1>1, <1>7, <2>1, <3>2 DEF OneOf, At, Alone
  <2>5. ASSUME r \notin outdated, Kind(r) \in {"address", "version"}, Own(r) \notin outrun \cup unset'
        PROVE  Leaves(r)'
    <3>1. CASE v = "flagged"
      <4>1. pending'[r][Row(r)] = "flagged" /\ Flags(r)' # {}  BY <1>2, <1>5, <1>6, <1>8, <3>1
      <4> QED  BY <1>1, <1>7, <2>1, <2>5, <4>1 DEF Leaves
    <3>2. CASE v # "flagged"
      <4>1. Own(r) \notin unset  BY <1>1, <2>5
      <4>2. FlaggedOf(Own(r)) # {} \/ DbRows(Own(r)) = {}
        BY <1>2, <2>5, <4>1 DEF FlagInv, KeptInv
      <4>3. job[r].flag # "set"  BY <3>2 DEF FlagToInsert
      <4>4. Untouched(r)
        BY <1>1, <1>2, <1>9, <1>12, <4>3 DEF ClaimsOf, WrittenOf, At
      <4>5. Flags(r) = FlaggedOf(Own(r)) /\ Exist(r) = DbRows(Own(r))
        BY <4>4, NothingWritten
      <4>6. Row(r) \notin FlaggedOf(Own(r))  BY <1>1 DEF FlaggedOf
      <4>7. Flags(r)' = FlaggedOf(Own(r))  BY <1>8, <3>2, <4>5, <4>6
      <4>8. CASE job[r].op = "createAddress"
        <5>1. found[r].rows # {}  BY <3>2, <4>8 DEF FlagToInsert
        <5>2. found[r].rows = Exist(r)
          BY <1>1, <1>2, <1>9, <1>12, <2>5, <4>3, <4>8 DEF ClaimsOf, FoundOf, Relies, At
        <5>3. Kind(r) = "address"  BY <1>2, <1>12, <2>5, <4>8 DEF OpsOn
        <5> QED  BY <1>7, <4>2, <4>5, <4>7, <5>1, <5>2, <5>3 DEF Leaves
      <4>9. CASE job[r].op = "createVersion"
        <5>1. Kind(r) = "version"  BY <1>2, <1>12, <2>5, <4>9 DEF OpsOn
        <5>2. \E s \in Siblings(Row(r)) : Sees(r, s) # "absent"  BY <1>1, <1>3, <2>5, <3>2
        <5>3. DbRows(Own(r)) # {}  BY <4>5, <5>2 DEF Exist
        <5> QED  BY <1>1, <1>7, <4>7, <4>9, <5>1, <5>3 DEF Leaves
      <4> QED  BY <2>1, <2>5, <4>8, <4>9
    <3> QED  BY <3>1, <3>2
  <2>6. ASSUME r \notin outdated
        PROVE  KeptOf(r)'
    BY <1>1, <1>7, <2>5, <2>6 DEF KeptOf
  <2>7. ClaimsOf(r)'  BY <1>1, <1>10, <2>2, <2>3, <2>4, <2>6 DEF ClaimsOf
  <2> QED  BY <1>1, <1>5, <2>7, StepAside
<1> QED  BY <1>11, <1>12

LEMMA ClearFlags ==
  ASSUME TypeOK, StepsInv, FlagInv, NEW r \in Requests, Clear(r)
  PROVE  FlagInv'
<1> DEFINE f == [s \in Rows |-> "plain"]
           S == ToClear(r)
<1>1. /\ todo[r] # <<>> /\ Head(todo[r]) = "clear"
      /\ todo' = [todo EXCEPT ![r] = Tail(todo[r])]
      /\ UNCHANGED <<db, job, found, outdated, outrun>> /\ unset \subseteq unset'
      /\ \A s \in ToClear(r) \ Siblings(Row(r)) : Group(s) \in unset'
  BY DEF Clear, At, Continue, Write
<1>2. /\ job[r].op # "idle" /\ job[r] \in Jobs[r] /\ ClaimsOf(r) /\ job[r].op # "load"
      /\ Row(r) \in Rows /\ Own(r) \in Groups /\ Own(r)[1] = Kind(r)
      /\ job[r].op \in FlagOps =>
           Serving(r) /\ OnPath(job[r].op, todo[r]) /\ job[r].op \in OpsOn(Kind(r))
  BY <1>1, Acting
<1>3. f \in [Rows -> States]  BY DEF States
<1>4. pending' = [pending EXCEPT ![r] = [s \in Rows |-> IF s \in S THEN f[s] ELSE pending[r][s]]]
  BY DEF Clear, Write, TypeOK
<1>5. /\ pending'[r] = [s \in Rows |-> IF s \in S THEN f[s] ELSE pending[r][s]]
      /\ todo'[r] = Tail(todo[r])
      /\ \A q \in Requests \ {r} : UNCHANGED <<job[q], pending[q], todo[q], found[q]>>
  BY <1>1, <1>4 DEF TypeOK
<1>6. /\ S = IF job[r].flag = "set" /\ (job[r].op = "createAddress" => found[r].rows # {})
             THEN {s \in Rows : Group(s) = Named(r) /\ Sees(r, s) # "absent"} ELSE {}
      /\ job[r].op = "createAddress" => Named(r) = Own(r)
  BY DEF ToClear, Named, Own
<1>7. S \subseteq Rows /\ Siblings(Row(r)) \subseteq Rows
      /\ \A s \in S \ Siblings(Row(r)) : Group(s) \in unset'
  BY <1>1, <1>6 DEF Siblings
<1>8. \A s \in Rows : f[s] = "plain"  OBVIOUS
<1> HIDE DEF f, S
<1>9. /\ Row(r)' = Row(r) /\ Kind(r)' = Kind(r) /\ Own(r)' = Own(r)
      /\ Siblings(Row(r))' = Siblings(Row(r))
      /\ Flags(r)' = {s \in Siblings(Row(r)) : IF s \in S THEN f[s] = "flagged" ELSE s \in Flags(r)}
      /\ Exist(r)' = {s \in Siblings(Row(r)) : IF s \in S THEN f[s] # "absent" ELSE s \in Exist(r)}
  <2>1. S \in SUBSET Rows /\ job'[r] = job[r]  BY <1>1, <1>7
  <2> QED  BY <1>1, <1>3, <1>5, <2>1, WrittenView
<1>10. Flags(r)' = Flags(r) \ S /\ Exist(r)' = Exist(r)
  <2>1. /\ Flags(r) \subseteq Siblings(Row(r)) /\ Exist(r) \subseteq Siblings(Row(r))
        /\ S \cap Siblings(Row(r)) \subseteq Exist(r)
    BY <1>6 DEF Flags, Exist
  <2> QED  BY <1>7, <1>8, <1>9, <2>1
<1>11. job[r].op \in FlagOps =>
         /\ \/ job[r].op = "createAddress" /\ Tail(todo[r]) = <<"insert", "invalidate", "commit">>
            \/ job[r].op = "patchVersion" /\ Tail(todo[r]) = <<"update", "invalidate", "commit">>
         /\ OnPath(job[r].op, Tail(todo[r]))
  BY <1>1, <1>2, AfterClear
<1>12. PlaceOf(r)'
  <2>1. job[r].op \in FlagOps => OnPath(job[r].op, todo'[r])  BY <1>5, <1>11
  <2>2. \A s \in S : s \in Siblings(Row(r)) \/ (f[s] = "plain" /\ Group(s) \in unset')
    BY <1>7, <1>8
  <2>3. Head(todo[r]) \notin {"lookup", "fetch", "save"} /\ UNCHANGED <<db, job[r], found[r]>>
        /\ S \in SUBSET Rows /\ unset \subseteq unset'
    BY <1>1, <1>7
  <2>4. MayWrite(r, S, f)  BY <1>1, <2>2 DEF MayWrite
  <2> QED  BY <1>1, <1>3, <1>5, <2>1, <2>2, <2>3, <2>4, WrittenPlace
<1>13. CASE job[r].op \notin FlagOps
  <2>1. ~Serving(r)'  BY <1>1, <1>13 DEF Serving
  <2>2. ClaimsOf(r)'  BY <1>12, <2>1 DEF ClaimsOf, WrittenOf, FoundOf, OneOf, KeptOf
  <2> QED  BY <1>1, <1>5, <2>2, StepAside
<1>14. CASE job[r].op \in FlagOps
  <2>1. /\ job[r].op \in {"createAddress", "patchVersion"}
        /\ Head(todo'[r]) = IF job[r].op = "createAddress" THEN "insert" ELSE "update"
        /\ todo'[r] # NextRead
    <3>1. Head(NextRead) = "read"  BY EndsOfLists, Zenon DEF NextRead
    <3>2. Head(<<"insert", "invalidate", "commit">>) = "insert"
          /\ Head(<<"update", "invalidate", "commit">>) = "update"
      BY EndsOfLists, Zenon
    <3> QED  BY <1>5, <1>11, <1>14, <3>1, <3>2
  <2>2. Untouched(r)
    <3>1. At(r, "clear")  BY <1>1 DEF At
    <3>2. WrittenOf(r) /\ Serving(r)  BY <1>2, <1>14 DEF ClaimsOf
    <3> QED  BY <3>1, <3>2, Zenon DEF WrittenOf
  <2>3. job[r].flag # "set" => S = {}  BY <1>6
  <2>4. job[r].flag # "set" => Untouched(r)'
    BY <1>5, <1>7, <1>9, <2>2, <2>3 DEF Untouched
  <2>5. WrittenOf(r)'
    BY <1>1, <2>1, <2>4 DEF WrittenOf, At
  <2>6. r \notin outdated /\ job[r].op = "createAddress" =>
          found[r].rows = Exist(r) /\ found[r].flagged = Flags(r)
    BY <1>1, <1>2, <1>14 DEF ClaimsOf, FoundOf, Relies, At
  <2>7. r \notin outdated => FoundOf(r)'
    BY <1>1, <1>10, <2>1, <2>3, <2>6 DEF FoundOf, Relies, At
  <2>8. ASSUME r \notin outdated, Kind(r) \in {"user", "address", "review"}, Own(r) \notin outrun
        PROVE  /\ Alone(Flags(r)')
               /\ job[r].op = "createAddress" /\ FlagToInsert(r) = "flagged" => Flags(r)' = {}
               /\ job[r].op = "createAddress"
    <3>1. Alone(Flags(r))  BY <1>2, <1>14, <2>8 DEF ClaimsOf, OneOf
    <3>2. job[r].op # "patchVersion"
      <4>1. "patchVersion" \notin OpsOn("user") \cup OpsOn("address") \cup OpsOn("review")
        BY DEF OpsOn
      <4> QED  BY <1>2, <1>14, <2>8, <4>1
    <3>3. Flags(r) \subseteq Exist(r)  BY DEF Flags, Exist
    <3>4. job[r].op = "createAddress"  BY <2>1, <3>2
    <3>5. FlagToInsert(r) = "flagged" => job[r].flag = "set" \/ found[r].rows = {}
      BY DEF FlagToInsert
    <3>6. found[r].rows = Exist(r)  BY <2>6, <2>8, <3>4
    <3>7. CASE job[r].flag = "set" /\ Exist(r) # {}
      <4>1. S = {s \in Rows : Group(s) = Own(r) /\ Sees(r, s) # "absent"}  BY <1>6, <3>4, <3>6, <3>7
      <4>2. Exist(r) \subseteq S  BY <4>1 DEF Exist, Siblings, Own
      <4> QED  BY <1>10, <3>3, <3>4, <4>2 DEF Alone
    <3>8. CASE job[r].flag # "set" \/ Exist(r) = {}
      <4>1. Flags(r)' \subseteq Flags(r)  BY <1>10
      <4>2. FlagToInsert(r) = "flagged" => Exist(r) = {}  BY <3>5, <3>6, <3>8
      <4> QED  BY <3>1, <3>3, <3>4, <4>1, <4>2 DEF Alone
    <3> QED  BY <3>7, <3>8
  <2>9. r \notin outdated => OneOf(r)'
    <3>1. FlagToInsert(r)' = FlagToInsert(r)  BY <1>1 DEF FlagToInsert
    <3> QED  BY <1>1, <1>9, <2>1, <2>8, <3>1 DEF OneOf, At
  <2>10. KeptOf(r)'  BY <2>1 DEF KeptOf, At
  <2>11. ClaimsOf(r)'  BY <1>1, <1>12, <2>5, <2>7, <2>9, <2>10 DEF ClaimsOf
  <2> QED  BY <1>1, <1>5, <2>11, StepAside
<1> QED  BY <1>13, <1>14

LEMMA UpdateFlags ==
  ASSUME TypeOK, StepsInv, FlagInv, NEW r \in Requests, Update(r)
  PROVE  FlagInv'
<1> DEFINE f == [s \in Rows |->
                   CASE job[r].flag = "set" -> "flagged"
                     [] job[r].flag = "unset" -> "plain"
                     [] OTHER -> Sees(r, s)]
           S == {Row(r)}
<1>1. /\ todo[r] # <<>> /\ Head(todo[r]) = "update" /\ Sees(r, Row(r)) # "absent"
      /\ todo' = [todo EXCEPT ![r] = Tail(todo[r])]
      /\ UNCHANGED <<db, job, found, outdated, outrun>>
      /\ unset' = IF job[r].flag = "unset" THEN unset \cup {Own(r)} ELSE unset
  BY DEF Update, At, Continue, Write, Own
<1>2. /\ job[r].op # "idle" /\ job[r] \in Jobs[r] /\ ClaimsOf(r) /\ job[r].op # "load"
      /\ Row(r) \in Rows /\ Own(r) \in Groups /\ Own(r)[1] = Kind(r)
      /\ job[r].op \in {"updateUser", "updateStock"} => job[r].flag = "keep"
      /\ job[r].op \in FlagOps =>
           Serving(r) /\ OnPath(job[r].op, todo[r]) /\ job[r].op \in OpsOn(Kind(r))
  BY <1>1, Acting
<1>3. f \in [Rows -> States]
  <2>1. RowsOK  BY TypesSplit
  <2>2. \A s \in Rows : Sees(r, s) \in States  BY <2>1, SeesType
  <2>3. "flagged" \in States /\ "plain" \in States  BY DEF States
  <2> QED  BY <2>2, <2>3
<1>4. pending' = [pending EXCEPT ![r] = [s \in Rows |-> IF s \in S THEN f[s] ELSE pending[r][s]]]
  BY DEF Update, Write, TypeOK
<1>5. /\ pending'[r] = [s \in Rows |-> IF s \in S THEN f[s] ELSE pending[r][s]]
      /\ todo'[r] = Tail(todo[r])
      /\ \A q \in Requests \ {r} : UNCHANGED <<job[q], pending[q], todo[q], found[q]>>
  BY <1>1, <1>4 DEF TypeOK
<1>6. /\ S \in SUBSET Rows /\ Row(r) \in Siblings(Row(r)) /\ (\A s : s \in S <=> s = Row(r))
      /\ job[r].flag = "set" => f[Row(r)] = "flagged"
      /\ job[r].flag = "keep" => f[Row(r)] = Sees(r, Row(r))
      /\ job[r].flag = "unset" => f[Row(r)] = "plain"
  BY <1>2 DEF Siblings
<1>7. job[r].flag \in {"keep", "set", "unset"}
  <2>1. job[r] \in Job  BY <1>2, BackOfficeAssumption
  <2> QED  BY <2>1 DEF Job
<1> HIDE DEF f, S
<1>8. /\ Row(r)' = Row(r) /\ Kind(r)' = Kind(r) /\ Own(r)' = Own(r)
      /\ FlaggedOf(Own(r))' = FlaggedOf(Own(r)) /\ DbRows(Own(r))' = DbRows(Own(r))
      /\ Flags(r)' = {s \in Siblings(Row(r)) : IF s \in S THEN f[s] = "flagged" ELSE s \in Flags(r)}
  <2>1. job'[r] = job[r]  BY <1>1
  <2> QED  BY <1>1, <1>3, <1>5, <1>6, <2>1, WrittenView
<1>9. /\ job[r].flag = "set" => Flags(r)' = Flags(r) \cup {Row(r)}
      /\ job[r].flag = "keep" => Flags(r)' = Flags(r)
      /\ job[r].flag = "unset" => Flags(r)' = Flags(r) \ {Row(r)}
  BY <1>6, <1>8 DEF Flags
<1>10. job[r].op \in FlagOps =>
         /\ \/ job[r].op = "updateUser" /\ Tail(todo[r]) = <<"commit", "invalidate">>
            \/ /\ job[r].op \in {"patchVersion", "updateStock"}
               /\ Tail(todo[r]) = <<"invalidate", "commit">>
         /\ OnPath(job[r].op, Tail(todo[r]))
  BY <1>1, <1>2, AfterWrite
<1>11. PlaceOf(r)'
  <2>1. job[r].op \in FlagOps => OnPath(job[r].op, todo'[r])  BY <1>5, <1>10
  <2>2. \A s \in S : s \in Siblings(Row(r))  BY <1>6
  <2>3. Head(todo[r]) \notin {"lookup", "fetch", "save"} /\ UNCHANGED <<db, job[r], found[r]>>
        /\ unset \subseteq unset'
    BY <1>1
  <2>4. MayWrite(r, S, f)  BY <1>1, <2>2 DEF MayWrite
  <2> QED  BY <1>1, <1>3, <1>5, <1>6, <2>1, <2>2, <2>3, <2>4, WrittenPlace
<1>12. CASE job[r].op \notin FlagOps
  <2>1. ~Serving(r)'  BY <1>1, <1>12 DEF Serving
  <2>2. ClaimsOf(r)'  BY <1>11, <2>1 DEF ClaimsOf, WrittenOf, FoundOf, OneOf, KeptOf
  <2> QED  BY <1>1, <1>5, <2>2, StepAside
<1>13. CASE job[r].op \in FlagOps
  <2>1. Head(todo'[r]) \in {"commit", "invalidate"} /\ todo'[r] # NextRead
    <3>1. Head(NextRead) = "read"  BY EndsOfLists, Zenon DEF NextRead
    <3>2. todo'[r] = <<"commit", "invalidate">> \/ todo'[r] = <<"invalidate", "commit">>
      BY <1>5, <1>10, <1>13
    <3>3. Head(todo'[r]) \in {"commit", "invalidate"}  BY <3>2, EndsOfLists, Zenon
    <3> QED  BY <3>1, <3>3
  <2>2. WrittenOf(r) /\ Serving(r) /\ At(r, "update")  BY <1>1, <1>2, <1>13 DEF ClaimsOf, At
  <2>3. job[r].flag # "set" => Flags(r) = FlaggedOf(Own(r)) /\ Exist(r) = DbRows(Own(r))
    BY <2>2, NothingWritten DEF WrittenOf
  <2>4. WrittenOf(r)'
    <3>1. job[r].op # "deleteReview"  BY <1>10, <1>13
    <3>2. job[r].op = "updateUser" => Flags(r)' = FlaggedOf(Own(r))
      BY <1>2, <1>9, <2>3
    <3> QED  BY <1>1, <1>2, <1>8, <2>1, <3>1, <3>2 DEF WrittenOf, At
  <2>5. FoundOf(r)'  BY <2>1 DEF FoundOf, Relies, At
  <2>6. ASSUME r \notin outdated, Kind(r) \in {"user", "address", "review"}, Own(r) \notin outrun
        PROVE  Alone(Flags(r)')
    <3>1. Alone(Flags(r)) /\ (job[r].flag = "set" => Flags(r) \subseteq {Row(r)})
      BY <1>2, <2>2, <2>6 DEF ClaimsOf, OneOf
    <3> QED  BY <1>7, <1>9, <3>1 DEF Alone
  <2>7. r \notin outdated => OneOf(r)'
    BY <1>1, <1>8, <2>1, <2>6 DEF OneOf, At, Alone
  <2>8. ASSUME Kind(r) \in {"address", "version"}, Own(r) \notin outrun \cup unset'
        PROVE  Leaves(r)'
    <3>1. job[r].flag # "unset" /\ Own(r) \notin unset  BY <1>1, <2>8
    <3>2. job[r].op # "deleteVersion"  BY <1>10, <1>13
    <3>3. CASE job[r].flag = "set"
      <4>1. pending'[r][Row(r)] = "flagged" /\ Flags(r)' # {}  BY <1>2, <1>5, <1>6, <1>9, <3>3
      <4> QED  BY <1>1, <1>8, <2>8, <3>2, <4>1 DEF Leaves
    <3>4. CASE job[r].flag = "keep"
      <4>1. FlaggedOf(Own(r)) # {} \/ DbRows(Own(r)) = {}
        BY <1>2, <2>8, <3>1 DEF FlagInv, KeptInv
      <4>2. Row(r) \in Exist(r)  BY <1>1, <1>6 DEF Exist
      <4>3. DbRows(Own(r)) # {} /\ FlaggedOf(Own(r)) # {} /\ Flags(r)' = FlaggedOf(Own(r))
        BY <1>9, <2>3, <3>4, <4>1, <4>2
      <4> QED  BY <1>1, <1>8, <2>8, <3>2, <4>3 DEF Leaves
    <3> QED  BY <1>7, <3>1, <3>3, <3>4
  <2>9. KeptOf(r)'
    BY <1>1, <1>8, <2>8 DEF KeptOf
  <2>10. ClaimsOf(r)'  BY <1>1, <1>11, <2>4, <2>5, <2>7, <2>9 DEF ClaimsOf
  <2> QED  BY <1>1, <1>5, <2>10, StepAside
<1> QED  BY <1>12, <1>13

LEMMA PromoteFlags ==
  ASSUME TypeOK, StepsInv, FlagInv, NEW r \in Requests, Promote(r)
  PROVE  FlagInv'
<1> DEFINE f == [s \in Rows |-> "flagged"]
           passes == job[r].op = "deleteVersion" \/ (found[r].rows # {} /\ found[r].flagged = {})
<1>1. /\ todo[r] # <<>> /\ Head(todo[r]) = "promote"
      /\ todo' = [todo EXCEPT ![r] = Tail(todo[r])]
      /\ UNCHANGED <<db, job, found, outdated, outrun, unset>>
  BY DEF Promote, At, Continue, Write, dbVars, flagHistory
<1>2. /\ job[r].op # "idle" /\ job[r] \in Jobs[r] /\ ClaimsOf(r) /\ job[r].op # "load"
      /\ Row(r) \in Rows /\ Own(r) \in Groups /\ Own(r)[1] = Kind(r)
      /\ job[r].op \in FlagOps =>
           Serving(r) /\ OnPath(job[r].op, todo[r]) /\ job[r].op \in OpsOn(Kind(r))
  BY <1>1, Acting
<1>3. f \in [Rows -> States] /\ \A s \in Rows : f[s] = "flagged"  BY DEF States
<1>4. found[r].rows \subseteq Siblings(Row(r)) /\ Siblings(Row(r)) \subseteq Rows
  BY <1>2 DEF ClaimsOf, PlaceOf, Siblings
<1>5. PICK S \in SUBSET found[r].rows :
        /\ pending' = [pending EXCEPT ![r] = [s \in Rows |-> IF s \in S THEN f[s] ELSE pending[r][s]]]
        /\ IF passes THEN \E s : S = {s} ELSE S = {}
  <2>0. IF passes
        THEN \E s \in found[r].rows :
               pending' = [pending EXCEPT ![r] =
                             [t \in Rows |-> IF t \in {s} THEN "flagged" ELSE pending[r][t]]]
        ELSE pending' = pending
    BY DEF Promote, Write, dbVars, TypeOK
  <2>1. CASE passes
    <3>1. PICK s \in found[r].rows :
            pending' = [pending EXCEPT ![r] =
                          [t \in Rows |-> IF t \in {s} THEN "flagged" ELSE pending[r][t]]]
      BY <2>0, <2>1
    <3>2. pending' = [pending EXCEPT ![r] =
                        [t \in Rows |-> IF t \in {s} THEN f[t] ELSE pending[r][t]]]
      BY <3>1
    <3>3. {s} \in SUBSET found[r].rows  BY <3>1
    <3> QED  BY <2>1, <3>2, <3>3
  <2>2. CASE ~passes
    <3>1. pending' = pending  BY <2>0, <2>2
    <3>2. pending[r] = [s \in Rows |-> IF s \in {} THEN f[s] ELSE pending[r][s]]
      BY DEF TypeOK
    <3>3. pending' = [pending EXCEPT ![r] =
                        [s \in Rows |-> IF s \in {} THEN f[s] ELSE pending[r][s]]]
      BY <3>1, <3>2 DEF TypeOK
    <3>4. {} \in SUBSET found[r].rows  OBVIOUS
    <3> QED  BY <2>2, <3>3, <3>4
  <2> QED  BY <2>1, <2>2
<1>6. /\ pending'[r] = [s \in Rows |-> IF s \in S THEN f[s] ELSE pending[r][s]]
      /\ todo'[r] = Tail(todo[r])
      /\ \A q \in Requests \ {r} : UNCHANGED <<job[q], pending[q], todo[q], found[q]>>
  BY <1>1, <1>5 DEF TypeOK
<1>7. S \in SUBSET Rows /\ S \subseteq Siblings(Row(r))  BY <1>4
<1> HIDE DEF f
<1>8. /\ Row(r)' = Row(r) /\ Kind(r)' = Kind(r) /\ Own(r)' = Own(r)
      /\ Flags(r)' = {s \in Siblings(Row(r)) : IF s \in S THEN f[s] = "flagged" ELSE s \in Flags(r)}
      /\ Exist(r)' = {s \in Siblings(Row(r)) : IF s \in S THEN f[s] # "absent" ELSE s \in Exist(r)}
  <2>1. job'[r] = job[r]  BY <1>1
  <2> QED  BY <1>1, <1>3, <1>6, <1>7, <2>1, WrittenView
<1>9. Flags(r)' = Flags(r) \cup S
  BY <1>3, <1>7, <1>8 DEF Flags
<1>10. job[r].op \in FlagOps =>
         /\ job[r].op \in {"deleteAddress", "deleteVersion"}
         /\ Tail(todo[r]) = <<"invalidate", "commit">>
         /\ OnPath(job[r].op, Tail(todo[r]))
  BY <1>1, <1>2, AfterWrite
<1>11. PlaceOf(r)'
  <2>1. job[r].op \in FlagOps => OnPath(job[r].op, todo'[r])  BY <1>6, <1>10
  <2>2. \A s \in S : s \in Siblings(Row(r))  BY <1>7
  <2>3. Head(todo[r]) \notin {"lookup", "fetch", "save"} /\ UNCHANGED <<db, job[r], found[r]>>
        /\ unset \subseteq unset'
    BY <1>1
  <2>4. MayWrite(r, S, f)  BY <1>1, <2>2 DEF MayWrite
  <2> QED  BY <1>1, <1>3, <1>6, <1>7, <2>1, <2>2, <2>3, <2>4, WrittenPlace
<1>12. CASE job[r].op \notin FlagOps
  <2>1. ~Serving(r)'  BY <1>1, <1>12 DEF Serving
  <2>2. ClaimsOf(r)'  BY <1>11, <2>1 DEF ClaimsOf, WrittenOf, FoundOf, OneOf, KeptOf
  <2> QED  BY <1>1, <1>6, <2>2, StepAside
<1>13. CASE job[r].op \in FlagOps
  <2>1. Head(todo'[r]) = "invalidate" /\ todo'[r] # NextRead
    <3>1. Head(NextRead) = "read"  BY EndsOfLists, Zenon DEF NextRead
    <3>2. todo'[r] = <<"invalidate", "commit">>  BY <1>6, <1>10, <1>13
    <3>3. Head(todo'[r]) = "invalidate"  BY <3>2, EndsOfLists, Zenon
    <3> QED  BY <3>1, <3>3
  <2>2. WrittenOf(r)'
    <3>1. job[r].op \notin {"updateUser", "updateStock", "deleteReview"}  BY <1>10, <1>13
    <3> QED  BY <1>1, <2>1, <3>1 DEF WrittenOf, At
  <2>3. FoundOf(r)'  BY <2>1 DEF FoundOf, Relies, At
  <2>4. r \notin outdated => found[r].rows = Exist(r) /\ found[r].flagged = Flags(r)
    BY <1>1, <1>2, <1>13 DEF ClaimsOf, FoundOf, Relies, At
  <2>5. ASSUME r \notin outdated, Kind(r) \in {"user", "address", "review"}, Own(r) \notin outrun
        PROVE  Alone(Flags(r)')
    <3>1. job[r].op = "deleteAddress"
      <4>1. "deleteVersion" \notin OpsOn("user") \cup OpsOn("address") \cup OpsOn("review")
        BY DEF OpsOn
      <4> QED  BY <1>2, <1>10, <1>13, <2>5, <4>1
    <3>2. Alone(Flags(r))  BY <1>2, <1>13, <2>5 DEF ClaimsOf, OneOf
    <3>3. CASE passes
      <4>1. Flags(r) = {}  BY <2>4, <2>5, <3>1, <3>3
      <4>2. \E s : S = {s}  BY <1>5, <3>3
      <4> QED  BY <1>9, <4>1, <4>2 DEF Alone
    <3>4. CASE ~passes
      BY <1>5, <1>9, <3>2, <3>4
    <3> QED  BY <3>3, <3>4
  <2>6. r \notin outdated => OneOf(r)'
    BY <1>1, <1>8, <2>1, <2>5 DEF OneOf, At, Alone
  <2>7. ASSUME r \notin outdated
        PROVE  Leaves(r)'
    <3>1. CASE passes
      <4>1. \E s : S = {s}  BY <1>5, <3>1
      <4>2. Flags(r)' # {}  BY <1>9, <4>1
      <4>3. job[r].op = "deleteVersion" \/ Kind(r) = "address"
        BY <1>2, <1>10, <1>13, KindOfJob DEF OpsOn
      <4> QED  BY <1>1, <1>8, <4>2, <4>3 DEF Leaves
    <3>2. CASE ~passes
      <4>1. job[r].op = "deleteAddress" /\ (found[r].rows = {} \/ found[r].flagged # {})
        BY <1>10, <1>13, <3>2
      <4>2. Kind(r) = "address"
        BY <1>2, <1>13, <4>1 DEF OpsOn
      <4>3. S = {}  BY <1>5, <3>2
      <4>4. Flags(r)' = Flags(r) /\ Exist(r)' = Exist(r)  BY <1>8, <4>3 DEF Flags, Exist
      <4> QED  BY <1>8, <2>4, <2>7, <4>1, <4>2, <4>4 DEF Leaves
    <3> QED  BY <3>1, <3>2
  <2>8. r \notin outdated => KeptOf(r)'
    BY <2>7 DEF KeptOf
  <2>9. ClaimsOf(r)'  BY <1>1, <1>11, <2>2, <2>3, <2>6, <2>8 DEF ClaimsOf
  <2> QED  BY <1>1, <1>6, <2>9, StepAside
<1> QED  BY <1>12, <1>13

LEMMA ThenPromotes ==
  <<"read", "promote">> \o <<"invalidate", "commit">> = NextRead
<1> DEFINE p == <<"read", "promote">>
           q == <<"invalidate", "commit">>
<1>1. /\ p \in Seq(Steps) /\ Len(p) = 2 /\ p[1] = "read" /\ p[2] = "promote"
      /\ q \in Seq(Steps) /\ Len(q) = 2 /\ q[1] = "invalidate" /\ q[2] = "commit"
      /\ NextRead \in Seq(Steps) /\ Len(NextRead) = 4
      /\ NextRead[1] = "read" /\ NextRead[2] = "promote"
      /\ NextRead[3] = "invalidate" /\ NextRead[4] = "commit"
  BY DEF Steps, NextRead
<1> HIDE DEF p, q
<1>2. /\ p \o q \in Seq(Steps) /\ Len(p \o q) = 4
      /\ (p \o q)[1] = p[1] /\ (p \o q)[2] = p[2]
      /\ (p \o q)[3] = q[1] /\ (p \o q)[4] = q[2]
  <2>1. /\ p \o q \in Seq(Steps) /\ Len(p \o q) = 4
        /\ \A i \in 1 .. 4 : (p \o q)[i] = IF i <= 2 THEN p[i] ELSE q[i - 2]
    <3>1. p \in Seq(Steps) /\ q \in Seq(Steps) /\ Len(p) = 2 /\ Len(q) = 2  BY <1>1
    <3>2. /\ p \o q \in Seq(Steps) /\ Len(p \o q) = Len(p) + Len(q)
          /\ \A i \in 1 .. Len(p) + Len(q) :
               (p \o q)[i] = IF i <= Len(p) THEN p[i] ELSE q[i - Len(p)]
      BY <3>1, ConcatProperties, Zenon
    <3> QED  BY <3>1, <3>2
  <2>2. 1 \in 1 .. 4 /\ 2 \in 1 .. 4 /\ 3 \in 1 .. 4 /\ 4 \in 1 .. 4 /\ 3 - 2 = 1 /\ 4 - 2 = 2
        /\ ~(3 <= 2) /\ ~(4 <= 2) /\ 1 <= 2 /\ 2 <= 2
    OBVIOUS
  <2> QED  BY <2>1, <2>2
<1>3. \A i \in 1 .. 4 : (p \o q)[i] = NextRead[i]
  BY <1>1, <1>2
<1>4. p \o q = NextRead
  BY <1>1, <1>2, <1>3, SeqEqual
<1> QED  BY <1>4 DEF p, q

LEMMA DeleteFlags ==
  ASSUME TypeOK, StepsInv, FlagInv, NEW r \in Requests, Delete(r)
  PROVE  FlagInv'
<1> DEFINE f == [s \in Rows |-> "absent"]
           S == {Row(r)} \cup Cascading(Row(r))
           goesOn == job[r].op = "deleteVersion" /\ Row(r) \in found[r].flagged
<1>1. /\ todo[r] # <<>> /\ Head(todo[r]) \in {"delete", "toggle"} /\ db[Row(r)] # "absent"
      /\ todo' = [todo EXCEPT ![r] =
                    IF goesOn THEN <<"read", "promote">> \o Tail(todo[r]) ELSE Tail(todo[r])]
      /\ UNCHANGED <<db, job, found, outdated, outrun, unset>>
  BY DEF Delete, At, Write, flagHistory, TypeOK
<1>2. /\ job[r].op # "idle" /\ job[r] \in Jobs[r] /\ ClaimsOf(r) /\ job[r].op # "load"
      /\ Row(r) \in Rows /\ Own(r) \in Groups /\ Own(r)[1] = Kind(r)
      /\ job[r].op \in FlagOps =>
           Serving(r) /\ OnPath(job[r].op, todo[r]) /\ job[r].op \in OpsOn(Kind(r))
  BY <1>1, Acting
<1>3. f \in [Rows -> States] /\ \A s \in Rows : f[s] = "absent"  BY DEF States
<1>4. pending' = [pending EXCEPT ![r] = [s \in Rows |-> IF s \in S THEN f[s] ELSE pending[r][s]]]
  BY DEF Delete, Write, TypeOK
<1>5. /\ pending'[r] = [s \in Rows |-> IF s \in S THEN f[s] ELSE pending[r][s]]
      /\ todo'[r] = IF goesOn THEN <<"read", "promote">> \o Tail(todo[r]) ELSE Tail(todo[r])
      /\ \A q \in Requests \ {r} : UNCHANGED <<job[q], pending[q], todo[q], found[q]>>
  BY <1>1, <1>4 DEF TypeOK
<1>6. /\ S \in SUBSET Rows /\ Row(r) \in Siblings(Row(r))
      /\ \A s \in S : s = Row(r) \/ KindOf[s] \in {"review", "offer"}
      /\ \A s \in Siblings(Row(r)) : KindOf[s] = Kind(r)
  BY <1>2 DEF Siblings, Cascading, Referring, Group, Kind
<1> HIDE DEF f, S
<1>7. /\ Row(r)' = Row(r) /\ Kind(r)' = Kind(r) /\ Own(r)' = Own(r)
      /\ Siblings(Row(r))' = Siblings(Row(r))
      /\ FlaggedOf(Own(r))' = FlaggedOf(Own(r)) /\ DbRows(Own(r))' = DbRows(Own(r))
      /\ Flags(r)' = {s \in Siblings(Row(r)) : IF s \in S THEN f[s] = "flagged" ELSE s \in Flags(r)}
  <2>1. db' = db /\ job'[r] = job[r]  BY <1>1
  <2>2. S \in SUBSET Rows /\ f \in [Rows -> States]  BY <1>3, <1>6
  <2>3. pending'[r] = [s \in Rows |-> IF s \in S THEN f[s] ELSE pending[r][s]]  BY <1>5
  <2> HIDE DEF goesOn
  <2> QED  BY <2>1, <2>2, <2>3, WrittenView
<1>8. Flags(r)' = Flags(r) \ S
  BY <1>3, <1>6, <1>7 DEF Flags
<1>9. job[r].op \in FlagOps =>
        /\ Head(todo[r]) = "delete"
        /\ \/ /\ job[r].op \in {"removeUser", "deleteReview"}
              /\ Tail(todo[r]) = <<"commit", "invalidate">>
           \/ job[r].op = "deleteAddress" /\ Tail(todo[r]) = NextRead
           \/ job[r].op = "deleteVersion" /\ Tail(todo[r]) = <<"invalidate", "commit">>
        /\ OnPath(job[r].op, Tail(todo[r]))
  <2>1. job[r].op \in FlagOps => Head(todo[r]) = "delete"  BY <1>1, <1>2, StepsOnPath
  <2> QED  BY <1>1, <1>2, <2>1, AfterDelete
<1>10. job[r].op \in FlagOps =>
         /\ \/ /\ job[r].op \in {"removeUser", "deleteReview"}
               /\ todo'[r] = <<"commit", "invalidate">>
            \/ job[r].op \in {"deleteAddress", "deleteVersion"} /\ todo'[r] = NextRead
            \/ job[r].op = "deleteVersion" /\ todo'[r] = <<"invalidate", "commit">> /\ ~goesOn
         /\ OnPath(job[r].op, todo'[r])
  <2>1. <<"read", "promote">> \o <<"invalidate", "commit">> = NextRead  BY ThenPromotes
  <2>2. OnPath("deleteVersion", NextRead)  BY DEF OnPath
  <2>3. CASE job[r].op = "deleteVersion"
    <3>1. CASE goesOn  BY <1>5, <1>9, <2>1, <2>2, <2>3, <3>1
    <3>2. CASE ~goesOn  BY <1>5, <1>9, <2>3, <3>2
    <3> QED  BY <3>1, <3>2
  <2>4. CASE job[r].op # "deleteVersion"  BY <1>5, <1>9, <2>4
  <2> QED  BY <2>3, <2>4
<1>11. PlaceOf(r)'
  <2>1. job[r].op \in FlagOps => OnPath(job[r].op, todo'[r])  BY <1>10
  <2>2. \A s \in S : s \in Siblings(Row(r)) \/ (f[s] = "absent" /\ KindOf[s] \in {"review", "offer"})
    BY <1>3, <1>6
  <2>3. Head(todo[r]) \notin {"lookup", "fetch", "save"} /\ UNCHANGED <<db, job[r], found[r]>>
        /\ unset \subseteq unset'
    BY <1>1
  <2>4. MayWrite(r, S, f)  BY <1>1, <2>2 DEF MayWrite
  <2> QED  BY <1>1, <1>3, <1>5, <1>6, <2>1, <2>2, <2>3, <2>4, WrittenPlace
<1>12. CASE job[r].op \notin FlagOps
  <2>1. ~Serving(r)'  BY <1>1, <1>12 DEF Serving
  <2>2. ClaimsOf(r)'  BY <1>11, <2>1 DEF ClaimsOf, WrittenOf, FoundOf, OneOf, KeptOf
  <2> QED  BY <1>1, <1>5, <2>2, StepAside
<1>13. CASE job[r].op \in FlagOps
  <2>1. /\ todo'[r] = NextRead \/ Head(todo'[r]) \in {"commit", "invalidate"}
        /\ Head(todo'[r]) \notin {"insert", "update", "clear", "delete", "promote"}
        /\ todo'[r] = NextRead => Head(todo'[r]) = "read"
    <3>1. Head(NextRead) = "read"  BY EndsOfLists, Zenon DEF NextRead
    <3>2. Head(<<"commit", "invalidate">>) = "commit" /\ Head(<<"invalidate", "commit">>) = "invalidate"
      BY EndsOfLists, Zenon
    <3> QED  BY <1>10, <1>13, <3>1, <3>2
  <2>2. WrittenOf(r) /\ Serving(r) /\ At(r, "delete")  BY <1>1, <1>2, <1>9, <1>13 DEF ClaimsOf, At
  <2>3. Untouched(r)  BY <2>2 DEF WrittenOf
  <2>4. \A s \in Siblings(Row(r)) : pending'[r][s] \in {"same", "absent"}
    BY <1>3, <1>5, <2>3 DEF Untouched, Siblings
  <2>5. WrittenOf(r)'
    <3>1. job[r].op \notin {"updateUser", "updateStock"}  BY <1>9, <1>13
    <3>2. job[r].op = "deleteReview" => Flags(r)' \subseteq FlaggedOf(Own(r))
      BY <1>8, <2>2 DEF WrittenOf
    <3> QED  BY <1>1, <1>7, <2>1, <2>4, <3>1, <3>2 DEF WrittenOf, At
  <2>6. FoundOf(r)'  BY <2>1 DEF FoundOf, Relies, At
  <2>7. r \notin outdated => OneOf(r)'
    <3>1. r \notin outdated => OneOf(r)  BY <1>2 DEF ClaimsOf
    <3> QED  BY <1>1, <1>7, <1>8, <2>1, <2>2, <3>1 DEF OneOf, At, Alone
  <2>8. ASSUME r \notin outdated, Kind(r) \in {"address", "version"}, Own(r) \notin outrun \cup unset,
               Head(todo'[r]) \in {"invalidate", "commit"}
        PROVE  Leaves(r)'
    <3>1. job[r].op = "deleteVersion" /\ ~goesOn
      <4>1. "removeUser" \notin OpsOn("address") \cup OpsOn("version")
            /\ "deleteReview" \notin OpsOn("address") \cup OpsOn("version")
        BY DEF OpsOn
      <4> QED  BY <1>2, <1>10, <1>13, <2>1, <2>8, <4>1
    <3>2. Kind(r) = "version"  BY <1>2, <1>13, <2>8, <3>1 DEF OpsOn
    <3>3. Row(r) \notin Flags(r)
      BY <1>2, <2>2, <2>8, <3>1 DEF ClaimsOf, FoundOf, Relies
    <3>4. Flags(r) = FlaggedOf(Own(r))  BY <2>3, NothingWritten
    <3>5. Row(r) \in DbRows(Own(r))  BY <1>1, <1>2 DEF DbRows, Own
    <3>6. FlaggedOf(Own(r)) # {}  BY <1>2, <2>8, <3>5 DEF FlagInv, KeptInv
    <3>7. Flags(r) \cap S = {}  BY <1>6, <3>2, <3>3 DEF Flags
    <3>8. Flags(r)' # {}  BY <1>8, <3>4, <3>6, <3>7
    <3> QED  BY <1>1, <1>7, <3>1, <3>2, <3>8 DEF Leaves
  <2>9. r \notin outdated => KeptOf(r)'
    BY <1>1, <1>7, <2>8 DEF KeptOf, At
  <2>10. ClaimsOf(r)'  BY <1>1, <1>11, <2>5, <2>6, <2>7, <2>9 DEF ClaimsOf
  <2> QED  BY <1>1, <1>5, <2>10, StepAside
<1> QED  BY <1>12, <1>13

-----------------------------------------------------------------------------
(* Commits.                                                                *)

CommitGroups(r) == {Group(s) : s \in Changed(r)}

LEMMA CommitFacts ==
  ASSUME TypeOK, StepsInv, FlagInv, NEW r \in Requests, Commit(r)
  PROVE  /\ todo[r] # <<>> /\ Head(todo[r]) = "commit"
         /\ todo'[r] = Tail(todo[r])
         /\ \A s \in Rows : db'[s] = Sees(r, s) /\ pending'[r][s] = "same"
         /\ UNCHANGED <<job, found, unset>>
         /\ \A q \in Requests : q \in outdated => q \in outdated'
         /\ \A q \in Requests \ {r} :
              /\ UNCHANGED <<pending[q], todo[q]>>
              /\ todo[q] # <<>> /\ Reads(q) /\ Own(q) \in CommitGroups(r) => q \in outdated'
         /\ outrun \subseteq outrun'
         /\ \A g \in CommitGroups(r) : g \notin outrun' => r \notin outdated
<1>1. /\ todo[r] # <<>> /\ Head(todo[r]) = "commit"
      /\ todo' = [todo EXCEPT ![r] = Tail(todo[r])]
      /\ db' = [s \in Rows |-> Sees(r, s)]
      /\ pending' = [pending EXCEPT ![r] = [s \in Rows |-> "same"]]
      /\ UNCHANGED <<job, found, unset>>
  BY DEF Commit, At, Continue
<1>2. /\ outdated' = outdated \cup
           {q \in Requests \ {r} : todo[q] # <<>> /\ Reads(q) /\ Group(Row(q)) \in CommitGroups(r)}
      /\ outrun' = IF r \in outdated THEN outrun \cup CommitGroups(r) ELSE outrun
  BY DEF Commit, CommitGroups
<1>3. /\ todo'[r] = Tail(todo[r])
      /\ \A s \in Rows : db'[s] = Sees(r, s) /\ pending'[r][s] = "same"
      /\ \A q \in Requests \ {r} : UNCHANGED <<pending[q], todo[q]>>
  BY <1>1 DEF TypeOK
<1> QED  BY <1>1, <1>2, <1>3 DEF Own

\* What a commit makes of the groups of rows.
LEMMA CommitDb ==
  ASSUME TypeOK, StepsInv, FlagInv, NEW r \in Requests, Commit(r), NEW g
  PROVE  /\ g = Own(r) => FlaggedOf(g)' = Flags(r) /\ DbRows(g)' = Exist(r)
         /\ g # Own(r) => FlaggedOf(g)' \subseteq FlaggedOf(g)
         /\ g # Own(r) /\ g[1] \notin {"review", "offer"} => g \notin CommitGroups(r) \/ g \in unset
         /\ g \notin CommitGroups(r) => /\ FlaggedOf(g)' = FlaggedOf(g) /\ DbRows(g)' = DbRows(g)
                                        /\ \A s \in Rows : Group(s) = g => db'[s] = db[s]
<1>1. \A s \in Rows : db'[s] = Sees(r, s)  BY CommitFacts
<1>2. todo[r] # <<>>  BY CommitFacts
<1>3. ClaimsOf(r) /\ job[r].op # "idle"  BY <1>2, Acting
<1>4. \A s \in Rows \ Siblings(Row(r)) :
        \/ pending[r][s] = "same"
        \/ pending[r][s] = "absent" /\ KindOf[s] \in {"review", "offer"}
        \/ pending[r][s] = "plain" /\ Group(s) \in unset
  BY <1>3 DEF ClaimsOf, PlaceOf
<1>5. \A s \in Rows : s \in Siblings(Row(r)) <=> Group(s) = Own(r)  BY DEF Siblings, Own
<1>6. /\ FlaggedOf(g)' = {s \in Rows : Group(s) = g /\ db'[s] = "flagged"}
      /\ DbRows(g)' = {s \in Rows : Group(s) = g /\ db'[s] # "absent"}
  BY DEF FlaggedOf, DbRows, Group
<1>7. g = Own(r) => FlaggedOf(g)' = Flags(r) /\ DbRows(g)' = Exist(r)
  BY <1>1, <1>5, <1>6 DEF Flags, Exist, Siblings
<1>8. ASSUME g # Own(r)
      PROVE  FlaggedOf(g)' \subseteq FlaggedOf(g)
  <2> SUFFICES ASSUME NEW s \in Rows, Group(s) = g, db'[s] = "flagged"
               PROVE  db[s] = "flagged"
    BY <1>6 DEF FlaggedOf
  <2>1. s \in Rows \ Siblings(Row(r))  BY <1>5, <1>8
  <2> QED  BY <1>1, <1>4, <2>1 DEF Sees
<1>9. ASSUME g # Own(r), g[1] \notin {"review", "offer"}, NEW s \in Changed(r), Group(s) = g
      PROVE  g \in unset
  <2>1. s \in Rows \ Siblings(Row(r)) /\ pending[r][s] # "same"  BY <1>5, <1>9 DEF Changed
  <2>2. KindOf[s] \notin {"review", "offer"}  BY <1>9 DEF Group
  <2> QED  BY <1>4, <1>9, <2>1, <2>2
<1>10. ASSUME g \notin CommitGroups(r), NEW s \in Rows, Group(s) = g
       PROVE  db'[s] = db[s]
  <2>1. s \notin Changed(r)  BY <1>10 DEF CommitGroups
  <2> QED  BY <1>1, <2>1 DEF Changed, Sees
<1>11. g \notin CommitGroups(r) => FlaggedOf(g)' = FlaggedOf(g) /\ DbRows(g)' = DbRows(g)
  BY <1>6, <1>10 DEF FlaggedOf, DbRows
<1> QED  BY <1>7, <1>8, <1>9, <1>10, <1>11 DEF CommitGroups

\* A commit that was not outrun leaves its group in order.
LEMMA CommitLeaves ==
  ASSUME TypeOK, StepsInv, FlagInv, NEW r \in Requests, Commit(r), r \notin outdated,
         Kind(r) \in {"address", "version"}, Own(r) \notin outrun \cup unset
  PROVE  /\ Exist(r) # {} => Flags(r) # {}
         /\ Kind(r) = "version" => Flags(r) # {}
<1>1. todo[r] # <<>> /\ Head(todo[r]) = "commit"  BY CommitFacts
<1>2. /\ ClaimsOf(r) /\ Own(r) \in Groups /\ Own(r)[1] = Kind(r) /\ job[r].op # "load"
      /\ Row(r) \in Rows
      /\ job[r].op \notin FlagOps => Kind(r) \notin {"user", "review", "address", "version"}
                                     \/ job[r].op = "load"
  BY <1>1, Acting
<1>3. Serving(r) /\ At(r, "commit")  BY <1>1, <1>2, Acting DEF At
<1>4. Leaves(r)  BY <1>2, <1>3 DEF ClaimsOf, KeptOf
<1>5. FlaggedOf(Own(r)) # {} \/ DbRows(Own(r)) = {}  BY <1>2 DEF FlagInv, KeptInv
<1>6. pending[r][Row(r)] = "flagged" => Row(r) \in Flags(r)
  BY <1>2 DEF Flags, Siblings, Sees
<1> QED  BY <1>4, <1>5, <1>6 DEF Leaves

LEMMA CommitGroupsInOrder ==
  ASSUME TypeOK, StepsInv, FlagInv, NEW r \in Requests, Commit(r)
  PROVE  OneInv' /\ KeptInv'
<1>1. /\ todo[r] # <<>> /\ Head(todo[r]) = "commit" /\ outrun \subseteq outrun' /\ unset' = unset
      /\ \A g \in CommitGroups(r) : g \notin outrun' => r \notin outdated
  BY CommitFacts
<1>2. /\ ClaimsOf(r) /\ Own(r)[1] = Kind(r) /\ job[r].op # "load"
      /\ job[r].op \in FlagOps => Serving(r)
      /\ job[r].op \notin FlagOps => Kind(r) \notin {"user", "review", "address", "version"}
  BY <1>1, Acting
<1>3. ASSUME NEW g \in Groups, g \notin outrun', g[1] \in {"user", "address", "review"}
      PROVE  Alone(FlaggedOf(g)')
  <2>1. Alone(FlaggedOf(g))  BY <1>1, <1>3 DEF FlagInv, OneInv
  <2>2. CASE g # Own(r)
    <3>1. FlaggedOf(g)' \subseteq FlaggedOf(g)  BY <2>2, CommitDb
    <3> QED  BY <2>1, <3>1 DEF Alone
  <2>3. CASE g = Own(r) /\ g \in CommitGroups(r)
    <3>1. r \notin outdated /\ Serving(r)  BY <1>1, <1>2, <1>3, <2>3
    <3>2. Alone(Flags(r))  BY <1>1, <1>2, <1>3, <2>3, <3>1 DEF ClaimsOf, OneOf
    <3>3. FlaggedOf(g)' = Flags(r)  BY <2>3, CommitDb
    <3> QED  BY <3>2, <3>3
  <2>4. CASE g \notin CommitGroups(r)
    <3>1. FlaggedOf(g)' = FlaggedOf(g)  BY <2>4, CommitDb
    <3> QED  BY <2>1, <3>1
  <2> QED  BY <2>2, <2>3, <2>4
<1>4. ASSUME NEW g \in Groups, g \notin outrun' \cup unset', g[1] \in {"address", "version"},
             DbRows(g)' # {}
      PROVE  FlaggedOf(g)' # {}
  <2>1. CASE g \in CommitGroups(r)
    <3>1. g = Own(r)  BY <1>1, <1>4, <2>1, CommitDb
    <3>2. FlaggedOf(g)' = Flags(r) /\ DbRows(g)' = Exist(r)  BY <3>1, CommitDb
    <3>3. r \notin outdated /\ Kind(r) \in {"address", "version"} /\ Own(r) \notin outrun \cup unset
      BY <1>1, <1>2, <1>4, <2>1, <3>1
    <3> QED  BY <1>4, <3>2, <3>3, CommitLeaves
  <2>2. CASE g \notin CommitGroups(r)
    <3>1. FlaggedOf(g)' = FlaggedOf(g) /\ DbRows(g)' = DbRows(g)  BY <2>2, CommitDb
    <3> QED  BY <1>1, <1>4, <3>1 DEF FlagInv, KeptInv
  <2> QED  BY <2>1, <2>2
<1>5. Groups' = Groups  BY DEF Groups, Group
<1>6. OneInv'  BY <1>3, <1>5 DEF OneInv
<1> QED  BY <1>4, <1>5, <1>6 DEF KeptInv

LEMMA SamePlace ==
  ASSUME NEW q \in Requests, PlaceOf(q), UNCHANGED <<job[q], pending[q], todo[q], found[q]>>,
         unset \subseteq unset'
  PROVE  PlaceOf(q)'
<1>1. Row(q)' = Row(q)  BY DEF Row
<1>2. Siblings(Row(q))' = Siblings(Row(q))  BY <1>1 DEF Siblings, Group
<1> QED  BY <1>2 DEF PlaceOf, Group

\* What others rely on when a request commits.
LEMMA CommitAside ==
  ASSUME TypeOK, StepsInv, FlagInv, NEW r \in Requests, Commit(r), OneInv',
         NEW q \in Requests \ {r}
  PROVE  ClaimsOf(q)'
<1>1. /\ UNCHANGED <<job[q], pending[q], todo[q], found[q]>> /\ unset' = unset
      /\ q \in outdated => q \in outdated'
      /\ todo[q] # <<>> /\ Reads(q) /\ Own(q) \in CommitGroups(r) => q \in outdated'
      /\ outrun \subseteq outrun'
      /\ \A g \in CommitGroups(r) : g \notin outrun' => r \notin outdated
  BY CommitFacts
<1>2. ClaimsOf(q)  BY DEF FlagInv
<1>3. PlaceOf(q)'  BY <1>1, <1>2, SamePlace DEF ClaimsOf
<1>4. Row(q)' = Row(q)  BY <1>1 DEF Row
<1>5. Kind(q)' = Kind(q) /\ Own(q)' = Own(q) /\ Siblings(Row(q))' = Siblings(Row(q))
  BY <1>4 DEF Kind, Own, Group, Siblings
<1>6. \A s \in Rows : s \in Siblings(Row(q)) <=> Group(s) = Own(q)  BY DEF Siblings, Own
<1>7. CASE Own(q) \notin CommitGroups(r)
  <2>1. \A s \in Rows : Group(s) = Own(q) => db'[s] = db[s]  BY <1>7, CommitDb
  <2>2. \A s \in Siblings(Row(q)) : db'[s] = db[s]  BY <2>1, <1>6 DEF Siblings
  <2> QED  BY <1>1, <1>2, <2>2, SameClaims
<1>8. CASE Own(q) \in CommitGroups(r) /\ ~Serving(q)
  <2>1. ~Serving(q)'  BY <1>1, <1>8 DEF Serving
  <2> QED  BY <1>3, <2>1 DEF ClaimsOf, WrittenOf, FoundOf, OneOf, KeptOf
<1>9. CASE Own(q) \in CommitGroups(r) /\ Serving(q)
  <2>1. /\ todo[q] # <<>> /\ job[q].op \in FlagOps /\ job[q].op # "idle" /\ Own(q) \in Groups
        /\ OnPath(job[q].op, todo[q]) /\ job[q].op \in OpsOn(Kind(q)) /\ Own(q)[1] = Kind(q)
        /\ job[q].op \in {"updateUser", "updateStock"} => job[q].flag = "keep"
    BY <1>9, Acting DEF Serving
  <2>2. \A s \in Siblings(Row(q)) : pending[q][s] = "same" \/ db'[s] = db[s]
    <3> SUFFICES ASSUME NEW s \in Siblings(Row(q)), pending[q][s] # "same"
                 PROVE  db'[s] = db[s]
      OBVIOUS
    <3>1. s \in Rows /\ s \in Changed(q)  BY DEF Changed, Siblings
    <3>2. s \notin Changed(r)  BY <3>1 DEF TypeOK
    <3>3. db'[s] = Sees(r, s)  BY <3>1, CommitFacts
    <3> QED  BY <3>1, <3>2, <3>3 DEF Changed, Sees
  <2>3. /\ Flags(q)' = {s \in Siblings(Row(q)) : Sees(q, s)' = "flagged"}
        /\ \A s : Sees(q, s)' = IF pending[q][s] = "same" THEN db'[s] ELSE pending[q][s]
        /\ FlaggedOf(Own(q))' = {s \in Siblings(Row(q)) : db'[s] = "flagged"}
        /\ FlaggedOf(Own(q)) = {s \in Siblings(Row(q)) : db[s] = "flagged"}
        /\ DbRows(Own(q))' = {s \in Siblings(Row(q)) : db'[s] # "absent"}
    <3>1. Siblings(Row(q)) = {s \in Rows : Group(s) = Own(q)}  BY DEF Siblings, Own
    <3>2. FlaggedOf(Own(q))' = {s \in Rows : Group(s) = Own(q) /\ db'[s] = "flagged"}
          /\ DbRows(Own(q))' = {s \in Rows : Group(s) = Own(q) /\ db'[s] # "absent"}
      BY <1>5 DEF FlaggedOf, DbRows, Group
    <3>3. \A s : Sees(q, s)' = IF pending[q][s] = "same" THEN db'[s] ELSE pending[q][s]
      BY <1>1 DEF Sees
    <3>4. Flags(q)' = {s \in Siblings(Row(q)) : Sees(q, s)' = "flagged"}  BY <1>5 DEF Flags
    <3> QED  BY <3>1, <3>2, <3>3, <3>4 DEF FlaggedOf
  <2>4. Flags(q) \subseteq FlaggedOf(Own(q)) => Flags(q)' \subseteq FlaggedOf(Own(q))'
    BY <2>2, <2>3 DEF Flags, Sees
  <2>5. WrittenOf(q)'
    <3>1. Untouched(q)' <=> Untouched(q)  BY <1>1, <1>5 DEF Untouched
    <3>2. \A step : At(q, step)' <=> At(q, step)  BY <1>1 DEF At
    <3> QED  BY <1>1, <1>2, <1>5, <1>9, <2>4, <3>1, <3>2 DEF ClaimsOf, WrittenOf, Serving
  <2>6. CASE job[q].op \notin Blind
    <3>1. job[q].op \in Operations
      <4>1. job[q] \in Job  BY <2>1 DEF TypeOK
      <4> QED  BY <4>1 DEF Job
    <3>2. Reads(q)  BY <2>1, <2>6, <3>1, Starts DEF Reads
    <3>3. q \in outdated'  BY <1>1, <1>9, <2>1, <3>2
    <3> QED  BY <1>3, <2>5, <3>3 DEF ClaimsOf
  <2>7. CASE job[q].op \in Blind
    <3>1. Head(todo[q]) \notin {"promote"}
          /\ (Head(todo[q]) = "insert" => job[q].op \notin {"updateUser", "deleteReview"})
          /\ (Head(todo[q]) = "update" => job[q].op # "deleteReview")
      BY <2>1, <2>7, AfterWrite DEF Blind
    <3>2. FoundOf(q)'  BY <1>1, <2>7, <3>1 DEF FoundOf, Relies, Blind, At
    <3>3. Kind(q) \in {"user", "address", "review"} => job[q].op \in {"updateUser", "deleteReview"}
      BY <2>1, <2>7 DEF OpsOn, Blind
    <3>4. ASSUME Kind(q) \in {"user", "address", "review"}, Own(q) \notin outrun'
          PROVE  Alone(Flags(q)')
      <4>1. Flags(q) \subseteq FlaggedOf(Own(q))  BY <1>2, <1>9, <3>3, <3>4 DEF ClaimsOf, WrittenOf
      <4>2. Groups' = Groups  BY DEF Groups, Group
      <4>3. Alone(FlaggedOf(Own(q))')
        <5>1. \A g \in Groups \ outrun' : g[1] \in {"user", "address", "review"} => Alone(FlaggedOf(g)')
          BY <4>2 DEF OneInv
        <5>2. FlaggedOf(Own(q))' = {s \in Rows : Group(s) = Own(q) /\ db'[s] = "flagged"}
          BY <1>5 DEF FlaggedOf, Group
        <5>3. \A g : FlaggedOf(g)' = {s \in Rows : Group(s) = g /\ db'[s] = "flagged"}
          BY DEF FlaggedOf, Group
        <5>4. Alone({s \in Rows : Group(s) = Own(q) /\ db'[s] = "flagged"})
          BY <2>1, <3>4, <5>1, <5>3
        <5> QED  BY <5>2, <5>4
      <4> QED  BY <2>4, <4>1, <4>3 DEF Alone
    <3>5. OneOf(q)'
      BY <1>1, <1>5, <2>1, <3>1, <3>3, <3>4 DEF OneOf, At
    <3>6. ASSUME q \notin outdated', Kind(q) \in {"address", "version"}, Own(q) \notin outrun' \cup unset',
                 At(q, "invalidate") \/ At(q, "commit")
          PROVE  Leaves(q)'
      <4>1. Kind(q) = "version" /\ job[q].op # "deleteVersion"  BY <2>1, <2>7, <3>6 DEF OpsOn, Blind
      <4>2. Leaves(q)  BY <1>1, <1>2, <1>9, <3>6 DEF ClaimsOf, KeptOf
      <4>3. CASE pending[q][Row(q)] = "flagged"
        BY <1>1, <1>4, <1>5, <4>1, <4>3 DEF Leaves
      <4>4. CASE FlaggedOf(Own(q)) \subseteq Flags(q) /\ DbRows(Own(q)) # {}
        <5>1. Own(q) = Own(r)
          <6>1. Own(q)[1] \notin {"review", "offer"} /\ Own(q) \notin unset  BY <1>1, <2>1, <3>6, <4>1
          <6> QED  BY <1>9, <6>1, CommitDb
        <5>2. Kind(r) = "version"  BY <4>1, <5>1 DEF Kind, Own, Group
        <5>3. r \notin outdated /\ Own(r) \notin outrun \cup unset  BY <1>1, <1>9, <3>6, <5>1
        <5>4. Flags(r) # {}  BY <5>2, <5>3, CommitLeaves
        <5>5. \A g : g = Own(r) => FlaggedOf(g)' = Flags(r)  BY CommitDb
        <5>6. \E s \in Siblings(Row(q)) : db'[s] = "flagged"
          <6>1. Siblings(Row(q)) = Siblings(Row(r))  BY <5>1 DEF Siblings, Own
          <6>2. \A s \in Rows : db'[s] = Sees(r, s)  BY CommitFacts
          <6> QED  BY <5>4, <6>1, <6>2 DEF Flags, Siblings
        <5>7. DbRows(Own(q))' # {}  BY <2>3, <5>6
        <5>8. FlaggedOf(Own(q))' \subseteq Flags(q)'
          BY <2>2, <2>3, <4>4 DEF Flags, Sees
        <5> QED  BY <1>1, <1>5, <4>1, <5>7, <5>8 DEF Leaves
      <4> QED  BY <4>1, <4>2, <4>3, <4>4 DEF Leaves
    <3>7. q \notin outdated' => KeptOf(q)'
      BY <1>1, <1>5, <3>6 DEF KeptOf, At
    <3> QED  BY <1>3, <2>5, <3>2, <3>5, <3>7 DEF ClaimsOf
  <2> QED  BY <2>6, <2>7
<1> QED  BY <1>7, <1>8, <1>9

\* What the request that has committed goes on with.
LEMMA CommitSelf ==
  ASSUME TypeOK, StepsInv, FlagInv, NEW r \in Requests, Commit(r), OneInv'
  PROVE  ClaimsOf(r)'
<1>1. /\ todo[r] # <<>> /\ Head(todo[r]) = "commit" /\ todo'[r] = Tail(todo[r])
      /\ \A s \in Rows : pending'[r][s] = "same"
      /\ UNCHANGED <<job, found>>
  BY CommitFacts
<1>2. /\ job[r].op # "idle" /\ job[r] \in Jobs[r] /\ ClaimsOf(r) /\ job[r].op # "load"
      /\ Row(r) \in Rows /\ Own(r) \in Groups /\ Own(r)[1] = Kind(r)
      /\ job[r].op \in FlagOps => OnPath(job[r].op, todo[r]) /\ job[r].op \in OpsOn(Kind(r))
  BY <1>1, Acting
<1>3. Row(r)' = Row(r)  BY <1>1 DEF Row
<1>4. Kind(r)' = Kind(r) /\ Own(r)' = Own(r) /\ Siblings(Row(r))' = Siblings(Row(r))
  BY <1>3 DEF Kind, Own, Group, Siblings
<1>5. job[r].op \in FlagOps =>
        /\ OnPath(job[r].op, Tail(todo[r]))
        /\ \/ Tail(todo[r]) = <<>>
           \/ /\ job[r].op \in {"createUser", "addReview", "updateUser", "removeUser", "deleteReview"}
              /\ Tail(todo[r]) = <<"invalidate">>
  BY <1>1, <1>2, AfterEnd
<1>6. PlaceOf(r)'  BY <1>1, <1>2, <1>4, <1>5 DEF ClaimsOf, PlaceOf
<1>7. CASE ~Serving(r)'
  BY <1>6, <1>7 DEF ClaimsOf, WrittenOf, FoundOf, OneOf, KeptOf
<1>8. CASE Serving(r)'
  <2>1. /\ job[r].op \in {"createUser", "addReview", "updateUser", "removeUser", "deleteReview"}
        /\ todo'[r] = <<"invalidate">> /\ job[r].op \in FlagOps
    BY <1>1, <1>5, <1>8 DEF Serving
  <2>2. Head(todo'[r]) = "invalidate" /\ todo'[r] # NextRead
    <3>1. Head(NextRead) = "read"  BY EndsOfLists, Zenon DEF NextRead
    <3>2. Head(todo'[r]) = "invalidate"  BY <2>1, EndsOfLists, Zenon
    <3> QED  BY <3>1, <3>2
  <2>3. Kind(r) \notin {"address", "version"}  BY <1>2, <2>1 DEF OpsOn
  <2>4. Flags(r)' = {s \in Rows : Group(s) = Own(r) /\ db'[s] = "flagged"}
    BY <1>1, <1>4 DEF Flags, Sees, Siblings, Own
  <2>5. \A g : FlaggedOf(g)' = {s \in Rows : Group(s) = g /\ db'[s] = "flagged"}
    BY DEF FlaggedOf, Group
  <2>6. FlaggedOf(Own(r))' = {s \in Rows : Group(s) = Own(r) /\ db'[s] = "flagged"}
    BY <1>4 DEF FlaggedOf, Group
  <2>7. WrittenOf(r)'  BY <2>2, <2>4, <2>6 DEF WrittenOf, At
  <2>8. FoundOf(r)'  BY <2>2 DEF FoundOf, Relies, At
  <2>9. ASSUME Kind(r) \in {"user", "address", "review"}, Own(r) \notin outrun'
        PROVE  Alone(Flags(r)')
    <3>1. Groups' = Groups  BY DEF Groups, Group
    <3>2. \A g \in Groups \ outrun' : g[1] \in {"user", "address", "review"} => Alone(FlaggedOf(g)')
      BY <3>1 DEF OneInv
    <3> QED  BY <1>2, <2>4, <2>5, <2>9, <3>2
  <2>10. OneOf(r)'  BY <1>4, <2>2, <2>9 DEF OneOf, At
  <2>11. KeptOf(r)'  BY <1>4, <2>3 DEF KeptOf
  <2> QED  BY <1>6, <2>7, <2>8, <2>10, <2>11 DEF ClaimsOf
<1> QED  BY <1>7, <1>8

LEMMA CommitFlags ==
  ASSUME TypeOK, StepsInv, FlagInv, NEW r \in Requests, Commit(r)
  PROVE  FlagInv'
<1>1. OneInv' /\ KeptInv'  BY CommitGroupsInOrder
<1>2. \A q \in Requests \ {r} : ClaimsOf(q)'  BY <1>1, CommitAside
<1>3. ClaimsOf(r)'  BY <1>1, CommitSelf
<1> QED  BY <1>1, <1>2, <1>3 DEF FlagInv

-----------------------------------------------------------------------------
(* Steps that write nothing.                                               *)

LEMMA NotServing ==
  ASSUME NEW r \in Requests, PlaceOf(r)', ~Serving(r)'
  PROVE  ClaimsOf(r)'
BY DEF ClaimsOf, WrittenOf, FoundOf, OneOf, KeptOf

LEMMA ReceiveFlags ==
  ASSUME TypeOK, StepsInv, FlagInv, NEW r \in Requests, Receive(r)
  PROVE  FlagInv'
<1>1. /\ job[r].op = "idle"
      /\ UNCHANGED <<db, pending, found, outdated, outrun, unset>>
  BY DEF Receive, dbVars, flagHistory
<1>2. PICK j \in Jobs[r] : job' = [job EXCEPT ![r] = j] /\ todo' = [todo EXCEPT ![r] = OpOf(j.op).steps]
  BY DEF Receive
<1>3. job'[r] = j /\ todo'[r] = OpOf(j.op).steps
      /\ \A q \in Requests \ {r} : UNCHANGED <<job[q], pending[q], todo[q], found[q]>>
  BY <1>1, <1>2 DEF TypeOK
<1>4. /\ j.op \in FlagOps => KindOf[j.row] \in {"user", "review", "address", "version"}
      /\ j.op # "load" /\ KindOf[j.row] \in {"user", "review", "address", "version"} =>
           j.op \in OpsOn(KindOf[j.row])
      /\ j.op \in {"updateUser", "updateStock"} => j.flag = "keep"
      /\ j.op \in Operations /\ j.row \in Rows
  BY KindOfAsked
<1>5. /\ j.op \in FlagOps => OnPath(j.op, todo'[r]) /\ Begins(j.op, todo'[r])
      /\ j.op = "load" => todo'[r] \in Loading
  BY <1>3, <1>4, Starts
<1>6. (\A s \in Rows : pending[r][s] = "same") /\ found[r] = [rows |-> {}, flagged |-> {}]
  BY <1>1 DEF FlagInv, ClaimsOf, PlaceOf
<1>7. Row(r)' = j.row /\ Kind(r)' = KindOf[j.row] /\ Own(r)' = Group(j.row)
      /\ Siblings(Row(r))' = Siblings(j.row)
  BY <1>3 DEF Row, Kind, Own, Group, Siblings
<1>8. PlaceOf(r)'
  <2>1. j.op # "idle"  BY <1>4, OpSteps
  <2> QED  BY <1>1, <1>3, <1>5, <1>6, <1>7, <2>1 DEF PlaceOf
<1>9. CASE j.op \notin FlagOps
  <2>1. ClaimsOf(r)'  BY <1>3, <1>8, <1>9, NotServing DEF Serving
  <2> QED  BY <1>1, <1>3, <2>1, StepAside
<1>10. CASE j.op \in FlagOps
  <2>1. Begins(j.op, todo'[r])  BY <1>5, <1>10
  <2>2. Untouched(r)'  BY <1>1, <1>6, <1>7 DEF Untouched, Siblings
  <2>3. Flags(r)' = FlaggedOf(Group(j.row)) /\ FlaggedOf(Own(r))' = FlaggedOf(Group(j.row))
    <3>1. Flags(r)' = {s \in Siblings(j.row) : db[s] = "flagged"}
      BY <1>1, <1>6, <1>7 DEF Flags, Sees, Siblings
    <3>2. FlaggedOf(Own(r))' = {s \in Rows : Group(s) = Group(j.row) /\ db[s] = "flagged"}
      BY <1>1, <1>7 DEF FlaggedOf, Group
    <3> QED  BY <3>1, <3>2 DEF FlaggedOf, Siblings
  <2>4. WrittenOf(r)'  BY <2>2, <2>3 DEF WrittenOf, Untouched
  <2>5. FoundOf(r)'  BY <1>3, <2>1 DEF FoundOf, Relies, Begins, At
  <2>6. ASSUME KindOf[j.row] \in {"user", "address", "review"}, Group(j.row) \notin outrun
        PROVE  Alone(Flags(r)')
    <3>1. Group(j.row) \in Groups /\ Group(j.row)[1] = KindOf[j.row]
      BY <1>4 DEF Groups, Group
    <3> QED  BY <2>3, <2>6, <3>1 DEF FlagInv, OneInv
  <2>7. OneOf(r)'
    <3>1. KindOf[j.row] \in {"user", "address", "review"} => j.op # "createVersion"
      BY <1>4, <1>10 DEF OpsOn, FlagOps
    <3>2. ~At(r, "update")' \/ job'[r].flag = "keep"
      BY <1>3, <1>4, <2>1 DEF Begins, At
    <3>3. KindOf[j.row] \in {"user", "address", "review"} => ~At(r, "insert")'
      BY <1>3, <2>1, <3>1 DEF Begins, At
    <3> QED  BY <1>1, <1>7, <2>6, <3>2, <3>3 DEF OneOf, Alone
  <2>8. KeptOf(r)'  BY <2>1 DEF KeptOf, Begins, At
  <2>9. ClaimsOf(r)'  BY <1>8, <2>4, <2>5, <2>7, <2>8 DEF ClaimsOf
  <2> QED  BY <1>1, <1>3, <2>9, StepAside
<1> QED  BY <1>9, <1>10

LEMMA FailsFlags ==
  ASSUME TypeOK, StepsInv, FlagInv, NEW r \in Requests, Fails(r)
  PROVE  FlagInv'
<1>1. /\ todo[r] # <<>> /\ UNCHANGED <<db, job, found, outdated, outrun, unset>>
      /\ todo' = [todo EXCEPT ![r] = <<>>]
      /\ pending' = [pending EXCEPT ![r] = [s \in Rows |-> "same"]]
  BY DEF Fails, flagHistory
<1>2. todo'[r] = <<>> /\ (\A s \in Rows : pending'[r][s] = "same")
      /\ \A q \in Requests \ {r} : UNCHANGED <<job[q], pending[q], todo[q], found[q]>>
  BY <1>1 DEF TypeOK
<1>3. Row(r)' = Row(r)  BY <1>1 DEF Row
<1>4. Siblings(Row(r))' = Siblings(Row(r))  BY <1>3 DEF Siblings, Group
<1>5. PlaceOf(r)'  BY <1>1, <1>2, <1>4 DEF FlagInv, ClaimsOf, PlaceOf, OnPath
<1>6. ClaimsOf(r)'  BY <1>2, <1>5, NotServing DEF Serving
<1> QED  BY <1>1, <1>2, <1>6, StepAside

\* A request takes a step of the cache.
LEMMA CacheGoesOn ==
  ASSUME TypeOK, StepsInv, FlagInv, NEW r \in Requests,
         Invalidate(r) \/ Lookup(r) \/ Fetch(r) \/ Save(r)
  PROVE  /\ todo[r] # <<>> /\ Head(todo[r]) \in {"invalidate", "lookup", "fetch", "save"}
         /\ todo'[r] = Tail(todo[r])
         /\ UNCHANGED <<db, pending, job, found, outdated, outrun, unset>>
         /\ \A q \in Requests \ {r} : UNCHANGED <<job[q], pending[q], todo[q], found[q]>>
<1>1. /\ todo[r] # <<>> /\ Head(todo[r]) \in {"invalidate", "lookup", "fetch", "save"}
      /\ todo' = [todo EXCEPT ![r] = Tail(todo[r])]
      /\ UNCHANGED <<db, pending, job, found, outdated, outrun, unset>>
  BY DEF Invalidate, Lookup, Fetch, Save, At, Continue, dbVars, flagHistory
<1> QED  BY <1>1 DEF TypeOK

LEMMA CacheFlags ==
  ASSUME TypeOK, StepsInv, FlagInv, NEW r \in Requests,
         Invalidate(r) \/ Lookup(r) \/ Fetch(r) \/ Save(r)
  PROVE  FlagInv'
<1>1. /\ todo[r] # <<>> /\ Head(todo[r]) \in {"invalidate", "lookup", "fetch", "save"}
      /\ todo'[r] = Tail(todo[r])
      /\ UNCHANGED <<db, pending, job, found, outdated, outrun, unset>>
      /\ \A q \in Requests \ {r} : UNCHANGED <<job[q], pending[q], todo[q], found[q]>>
  BY CacheGoesOn
<1>2. /\ job[r].op # "idle" /\ job[r] \in Jobs[r] /\ ClaimsOf(r)
      /\ job[r].op \in FlagOps => Serving(r) /\ OnPath(job[r].op, todo[r])
  BY <1>1, Acting
<1>3. /\ Row(r)' = Row(r) /\ Kind(r)' = Kind(r) /\ Own(r)' = Own(r)
      /\ Exist(r)' = Exist(r) /\ Flags(r)' = Flags(r) /\ (Untouched(r)' <=> Untouched(r))
      /\ FlaggedOf(Own(r))' = FlaggedOf(Own(r)) /\ DbRows(Own(r))' = DbRows(Own(r))
  BY <1>1, SameView
<1>4. job[r].op \in FlagOps =>
        /\ OnPath(job[r].op, Tail(todo[r])) /\ Head(todo[r]) = "invalidate"
        /\ Tail(todo[r]) \in {<<>>, <<"invalidate">>, <<"commit">>}
  <2>1. job[r].op \in FlagOps => Head(todo[r]) = "invalidate"  BY <1>1, <1>2, StepsOnPath
  <2> QED  BY <1>1, <1>2, <2>1, AfterEnd
<1>5. job[r].op = "load" => todo'[r] = <<>> \/ todo'[r] \in Loading
  <2>1. job[r].op = "load" => todo[r] \in Loading  BY <1>1, <1>2 DEF ClaimsOf, PlaceOf
  <2>2. \A q \in Loading : Tail(q) = <<>> \/ Tail(q) \in Loading  BY LoadingTails, Zenon DEF Loading
  <2> QED  BY <1>1, <2>1, <2>2
<1>6. PlaceOf(r)'
  <2>1. Siblings(Row(r))' = Siblings(Row(r))  BY <1>3 DEF Siblings, Group
  <2> QED  BY <1>1, <1>2, <1>4, <1>5, <2>1 DEF ClaimsOf, PlaceOf, Group
<1>7. CASE ~Serving(r)'
  <2>1. ClaimsOf(r)'  BY <1>6, <1>7, NotServing
  <2> QED  BY <1>1, <2>1, StepAside
<1>8. CASE Serving(r)'
  <2>1. job[r].op \in FlagOps /\ todo'[r] # <<>>  BY <1>1, <1>8 DEF Serving
  <2>2. Head(todo'[r]) \in {"commit", "invalidate"} /\ todo'[r] # NextRead
    <3>1. Head(NextRead) = "read"  BY EndsOfLists, Zenon DEF NextRead
    <3>2. todo'[r] = <<"commit">> \/ todo'[r] = <<"invalidate">>  BY <1>1, <1>4, <2>1
    <3>3. Head(todo'[r]) \in {"commit", "invalidate"}  BY <3>2, EndsOfLists, Zenon
    <3> QED  BY <3>1, <3>3
  <2>3. Serving(r) /\ At(r, "invalidate")  BY <1>1, <1>2, <1>4, <2>1 DEF At
  <2>4. WrittenOf(r)'  BY <1>1, <1>2, <1>3, <2>2, <2>3 DEF ClaimsOf, WrittenOf, At
  <2>5. FoundOf(r)'  BY <2>2 DEF FoundOf, Relies, At
  <2>6. OneOf(r) => OneOf(r)'  BY <1>1, <1>3, <2>2, <2>3 DEF OneOf, At
  <2>7. KeptOf(r) => KeptOf(r)'
    <3>1. Leaves(r)' <=> Leaves(r)  BY <1>1, <1>3 DEF Leaves
    <3> QED  BY <1>1, <1>3, <2>3, <3>1 DEF KeptOf
  <2>8. ClaimsOf(r)'  BY <1>1, <1>2, <1>6, <2>4, <2>5, <2>6, <2>7 DEF ClaimsOf
  <2> QED  BY <1>1, <2>8, StepAside
<1> QED  BY <1>7, <1>8

LEMMA CountFlags ==
  ASSUME TypeOK, FlagInv,
         (\E r \in Requests : Count(r)) \/ (\E v \in ViewNames : VersionExpires(v))
  PROVE  FlagInv'
<1>1. UNCHANGED <<db, pending, todo, job, found, outdated, outrun, unset>>
  BY DEF Count, VersionExpires, dbVars, requestVars, flagHistory
<1>2. \A q \in Requests : ClaimsOf(q)'
  BY <1>1, SameClaims DEF FlagInv
<1>3. \A g : FlaggedOf(g)' = FlaggedOf(g) /\ DbRows(g)' = DbRows(g)
  BY <1>1 DEF FlaggedOf, DbRows, Group
<1>4. OneInv' /\ KeptInv'  BY <1>1, <1>3 DEF FlagInv, OneInv, KeptInv, Groups, Group
<1> QED  BY <1>2, <1>4 DEF FlagInv

LEMMA StutterFlags ==
  ASSUME TypeOK, FlagInv, UNCHANGED vars
  PROVE  FlagInv'
<1>1. UNCHANGED <<db, pending, todo, job, found, outdated, outrun, unset>>
  BY DEF vars, dbVars, requestVars, flagHistory
<1>2. \A q \in Requests : ClaimsOf(q)'
  BY <1>1, SameClaims DEF FlagInv
<1>3. \A g : FlaggedOf(g)' = FlaggedOf(g) /\ DbRows(g)' = DbRows(g)
  BY <1>1 DEF FlaggedOf, DbRows, Group
<1>4. OneInv' /\ KeptInv'  BY <1>1, <1>3 DEF FlagInv, OneInv, KeptInv, Groups, Group
<1> QED  BY <1>2, <1>4 DEF FlagInv

LEMMA InitialFlags ==
  ASSUME Init
  PROVE  FlagInv
<1>1. db = Initially /\ outrun = {} /\ unset = {}  BY DEF Init
<1>2. ASSUME NEW r \in Requests
      PROVE  ClaimsOf(r)
  <2>1. todo[r] = <<>> /\ job[r].op = "idle" /\ (\A s \in Rows : pending[r][s] = "same")
        /\ found[r] = [rows |-> {}, flagged |-> {}]
    BY DEF Init
  <2>2. PlaceOf(r)  BY <2>1 DEF PlaceOf, OnPath
  <2> QED  BY <2>1, <2>2 DEF ClaimsOf, WrittenOf, FoundOf, OneOf, KeptOf, Serving
<1>3. OneInv
  <2> SUFFICES ASSUME NEW g \in Groups, g[1] \in {"user", "address", "review"},
                      NEW s \in FlaggedOf(g), NEW t \in FlaggedOf(g)
               PROVE  s = t
    BY DEF OneInv, Alone
  <2>1. s \in Rows /\ t \in Rows /\ Group(s) = g /\ Group(t) = g
        /\ Initially[s] = "flagged" /\ Initially[t] = "flagged"
    BY <1>1 DEF FlaggedOf
  <2>2. KindOf[s] = g[1] /\ KindOf[t] = KindOf[s] /\ OwnerOf[t] = OwnerOf[s]  BY <2>1 DEF Group
  <2> QED  BY <2>1, <2>2, FlagsAssumption
<1>4. KeptInv
  <2> SUFFICES ASSUME NEW g \in Groups, g[1] \in {"address", "version"}, NEW s \in DbRows(g)
               PROVE  FlaggedOf(g) # {}
    BY DEF KeptInv
  <2>1. s \in Rows /\ Group(s) = g /\ Initially[s] # "absent"  BY <1>1 DEF DbRows
  <2>2. KindOf[s] = g[1]  BY <2>1 DEF Group
  <2>3. PICK t \in Rows : KindOf[t] = KindOf[s] /\ OwnerOf[t] = OwnerOf[s]
                          /\ Initially[t] = "flagged"
    BY <2>1, <2>2, FlagsAssumption
  <2>4. t \in FlaggedOf(g)  BY <1>1, <2>1, <2>3 DEF FlaggedOf, Group
  <2> QED  BY <2>4
<1> QED  BY <1>2, <1>3, <1>4 DEF FlagInv

LEMMA FlagsPreserved == Spec => []FlagInv
<1>1. Init => FlagInv  BY InitialFlags
<1>2. IInv /\ FlagInv /\ [Next]_vars => FlagInv'
  <2> SUFFICES ASSUME IInv, FlagInv, [Next]_vars
               PROVE  FlagInv'
    OBVIOUS
  <2>1. TypeOK /\ StepsInv  BY DEF IInv
  <2>2. CASE UNCHANGED vars  BY <2>1, <2>2, StutterFlags
  <2>3. CASE Next
    BY <2>1, <2>3, ReceiveFlags, FailsFlags, ReadFlags, InsertFlags, DeleteFlags, PromoteFlags,
       ClearFlags, UpdateFlags, CommitFlags, CountFlags, CacheFlags DEF Next
  <2> QED  BY <2>2, <2>3
<1> QED  BY <1>1, <1>2, Preserved, PTL DEF Spec

\* There is one superuser, a customer has one default address and reviews a version
\* once, unless another request has committed between what a request read and what
\* it wrote (UserService.create, CustomerAddressesService, addReview).
THEOREM OneSuperuserOneDefault == Spec => []AtMostOneUnlessOutrun
<1>1. FlagInv => AtMostOneUnlessOutrun
  <2> SUFFICES ASSUME FlagInv, NEW g \in Groups \ outrun, g[1] \in {"user", "address", "review"}
               PROVE  Cardinality(FlaggedOf(g)) <= 1
    BY DEF AtMostOneUnlessOutrun
  <2>1. Alone(FlaggedOf(g))  BY DEF FlagInv, OneInv
  <2>2. CASE FlaggedOf(g) = {}  BY <2>2, FS_EmptySet
  <2>3. CASE FlaggedOf(g) # {}
    <3>1. PICK s \in FlaggedOf(g) : TRUE  BY <2>3
    <3>2. FlaggedOf(g) = {s}  BY <2>1, <3>1 DEF Alone
    <3>3. Cardinality({s}) = 1  BY FS_Singleton
    <3> QED  BY <3>2, <3>3
  <2> QED  BY <2>2, <2>3
<1> QED  BY <1>1, FlagsPreserved, PTL

\* A customer with addresses has a default one, and a product with versions a main
\* one (the deletes that promote another row), unless a request was outrun, the flag
\* was taken away on purpose, or the patch of a version named another product than
\* its own, whose versions then lose the flag to a version that is not one of them
\* (ProductVersionService.patch).
THEOREM FlagsHandedOn == Spec => []FlagSurvives
<1>1. FlagInv => FlagSurvives
  BY DEF FlagInv, KeptInv, FlagSurvives, DbRows
<1> QED  BY <1>1, FlagsPreserved, PTL

================================================================================
