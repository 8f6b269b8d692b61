------------------------ MODULE NandScheduler_proofs ------------------------
(***************************************************************************)
(* For every number of ways, depth of the controller's command queue,      *)
(* limit of retries and set of request codes: the lists of ways tell the   *)
(* states of the dies, a report is the one of the request under way, a     *)
(* transfer moves the page its trigger loaded, and a request leaves its    *)
(* queue only when the die and the controller are through with it.         *)
(*                                                                         *)
(* The invariant (IInv) has a part for the lists, one for the loops of the *)
(* pass, and three for each way: its request, its commands in the queue of *)
(* the controller and its die. A step moves at most one way, so the proof  *)
(* of a step is that of its way and the lemma that the others are left     *)
(* alone (UntouchedWay).                                                   *)
(***************************************************************************)
EXTENDS NandScheduler, LinkedLists_proofs

\* The lists of part 3 of a pass, and those of them whose ways wait to be issued.
PriorityLists == {"statusCheck", "readTrigger", "erase", "write", "readTransfer"}
IssueLists == PriorityLists \ {"statusCheck"}

\* The ways are numbers below USER_WAYS, and NONE is none of them.
USE SizeAssumption DEF Ways, NONE

\* A way is on the idle list, on the list of the reports or on one of part 3.
LEMMA ListNames == Lists = PriorityLists \cup {"idle", "statusReport"}
<1>1. Len(Priorities) = 5
  BY DEF Priorities
<1>2. {Priorities[i] : i \in 1 .. 5} = PriorityLists
  <2>1. /\ Priorities[1] = "statusCheck" /\ Priorities[2] = "readTrigger" /\ Priorities[3] = "erase"
        /\ Priorities[4] = "write" /\ Priorities[5] = "readTransfer"
    BY DEF Priorities
  <2>2. \A i \in 1 .. 5 : i = 1 \/ i = 2 \/ i = 3 \/ i = 4 \/ i = 5
    OBVIOUS
  <2>. QED
    BY <2>1, <2>2 DEF PriorityLists
<1>. QED
  BY <1>1, <1>2 DEF Lists

\* Part 3 goes on with a list that has a way on it, or the pass ends.
LEMMA FollowingIs ==
    ASSUME NEW p, NEW l
    PROVE  \/ Following(p, l) = "out"
           \/ Following(p, l) \in PriorityLists /\ l[Following(p, l)] # <<>>
<1> DEFINE left == {i \in 1 .. Len(Priorities) :
                    /\ l[Priorities[i]] # <<>>
                    /\ p # "begin" => \E j \in 1 .. i - 1 : Priorities[j] = p}
           i0 == CHOOSE i \in left : \A j \in left : i <= j
<1>1. /\ left = {} => Following(p, l) = "out"
      /\ left # {} => Following(p, l) = Priorities[i0]
  BY DEF Following
<1>2. Len(Priorities) = 5
  BY DEF Priorities
<1>3. left \subseteq {1, 2, 3, 4, 5}
  BY <1>2
<1>4. \A i \in left : Priorities[i] \in PriorityLists /\ l[Priorities[i]] # <<>>
  <2>1. \A i \in {1, 2, 3, 4, 5} : Priorities[i] \in PriorityLists
    BY DEF Priorities, PriorityLists
  <2>. QED
    BY <1>3, <2>1
<1> HIDE DEF left
<1>5. ASSUME left # {} PROVE \E i \in left : \A j \in left : i <= j
  <2>1. CASE 1 \in left
    BY <1>3, <2>1
  <2>2. CASE 1 \notin left /\ 2 \in left
    BY <1>3, <2>2
  <2>3. CASE 1 \notin left /\ 2 \notin left /\ 3 \in left
    BY <1>3, <2>3
  <2>4. CASE 1 \notin left /\ 2 \notin left /\ 3 \notin left /\ 4 \in left
    BY <1>3, <2>4
  <2>5. CASE left \subseteq {5}
    <3>1. PICK i \in left : TRUE
      BY <1>5
    <3>. QED
      BY <2>5, <3>1
  <2>. QED
    BY <1>3, <2>1, <2>2, <2>3, <2>4, <2>5
<1> HIDE DEF i0
<1>6. left # {} => i0 \in left
  BY <1>5 DEF i0
<1>7. CASE left = {}
  BY <1>1, <1>7
<1>8. CASE left # {}
  <2>1. Following(p, l) = Priorities[i0]
    BY <1>1, <1>8
  <2>. QED
    BY <1>4, <1>6, <1>8, <2>1
<1>. QED
  BY <1>7, <1>8
-----------------------------------------------------------------------------
\* The way at position k leaves its list: the ways behind it move up by one.
LEMMA UnlinkAt ==
    ASSUME NEW S, NEW q \in Seq(S), Distinct(q), NEW k \in 1 .. Len(q)
    PROVE  /\ Unlink(q, q[k]) = RemoveAtIndex(q, k)
           /\ Len(Unlink(q, q[k])) = Len(q) - 1
           /\ \A j \in 1 .. Len(q) - 1 : Unlink(q, q[k])[j] = IF j < k THEN q[j] ELSE q[j + 1]
<1>1. (CHOOSE i \in 1 .. Len(q) : q[i] = q[k]) = k
  BY DEF Distinct
<1>2. Unlink(q, q[k]) = RemoveAtIndex(q, k)
  BY <1>1 DEF Unlink, InList
<1>. QED
  BY <1>2, RemoveAtIndexProperties

\* The next way of way k is way k + 1, and the last has none.
LEMMA NextWayIs ==
    ASSUME NEW q \in Seq(Ways), Distinct(q), NEW k \in 1 .. Len(q)
    PROVE  NextWay(q, q[k]) = IF k = Len(q) THEN NONE ELSE q[k + 1]
<1>1. (CHOOSE j \in 1 .. Len(q) : q[j] = q[k]) = k
  BY DEF Distinct
<1>. QED
  BY <1>1 DEF NextWay

\* How many ways wait on list l.
Size(l) == Len(way[l])

\* The entries of all lists together.
Total == Size("idle") + Size("statusReport") + Size("statusCheck")
         + Size("readTrigger") + Size("erase") + Size("write") + Size("readTransfer")

\* Every way is on one list, once. The number of entries is part of it: part 1 and
\* part 2 of a pass count the ways of two lists in one variable, which must not
\* exceed the number of ways.
OnOneList ==
    /\ \A n \in Lists : Distinct(way[n])
    /\ \A w \in Ways : \E n \in Lists : \A m \in Lists : On(w, m) <=> m = n
    /\ Total = USER_WAYS

WayTyped == way \in [Lists -> Seq(Ways)]

\* Moving a way from list m to the end of list n changes these two lists by this
\* way and nothing else.
LEMMA MovedLists ==
    ASSUME WayTyped, OnOneList, NEW w \in Ways, NEW m \in Lists, NEW n \in Lists, m # n, On(w, m)
    PROVE  /\ Moved(w, m, n) \in [Lists -> Seq(Ways)]
           /\ \A l \in Lists : Distinct(Moved(w, m, n)[l])
           /\ \A l \in Lists : \A x : InList(Moved(w, m, n)[l], x) <=> IF x = w THEN l = n ELSE On(x, l)
           /\ Moved(w, m, n)[m] = Unlink(way[m], w)
           /\ Moved(w, m, n)[n] = Append(way[n], w)
           /\ \A l \in Lists \ {m, n} : Moved(w, m, n)[l] = way[l]
           /\ Len(Moved(w, m, n)[m]) = Len(way[m]) - 1
           /\ Len(Moved(w, m, n)[n]) = Len(way[n]) + 1
<1> DEFINE u == Unlink(way[m], w)
           a == Append(way[n], w)
<1>1. Moved(w, m, n) = [way EXCEPT ![m] = u, ![n] = a]
  BY DEF Moved, PutTo, SelectiveGetFrom, WayTyped
<1>2. \A l \in Lists : way[l] \in Seq(Ways) /\ Distinct(way[l])
  BY DEF WayTyped, OnOneList
<1>3. \A l \in Lists : On(w, l) <=> l = m
  BY DEF OnOneList
<1>4. /\ u \in Seq(Ways) /\ Distinct(u)
      /\ \A x : InList(u, x) <=> InList(way[m], x) /\ x # w
  BY <1>2, UnlinkList
<1>5. PICK k \in 1 .. Len(way[m]) : way[m][k] = w
  BY DEF On, InList
<1>6. Len(u) = Len(way[m]) - 1
  BY <1>2, <1>5, UnlinkAt
<1>7. /\ a \in Seq(Ways) /\ Len(a) = Len(way[n]) + 1 /\ Distinct(a)
      /\ \A x : InList(a, x) <=> InList(way[n], x) \/ x = w
  BY <1>2, <1>3, AppendList DEF On
<1> HIDE DEF u, a
<1>8. /\ Moved(w, m, n) \in [Lists -> Seq(Ways)]
      /\ Moved(w, m, n)[m] = u /\ Moved(w, m, n)[n] = a
      /\ \A l \in Lists \ {m, n} : Moved(w, m, n)[l] = way[l]
  BY <1>1, <1>4, <1>7 DEF WayTyped
<1>9. \A l \in Lists : Distinct(Moved(w, m, n)[l])
  BY <1>2, <1>4, <1>7, <1>8
<1>10. ASSUME NEW l \in Lists, NEW x PROVE InList(Moved(w, m, n)[l], x) <=> IF x = w THEN l = n ELSE On(x, l)
  BY <1>3, <1>4, <1>7, <1>8 DEF On
<1>. QED
  BY <1>6, <1>7, <1>8, <1>9, <1>10 DEF u, a

\* A way that is moved is on one list afterwards, like all others.
LEMMA MovedKeepsOneList ==
    ASSUME WayTyped, OnOneList, NEW w \in Ways, NEW m \in Lists, NEW n \in Lists, m # n, On(w, m),
           way' = Moved(w, m, n)
    PROVE  WayTyped' /\ OnOneList'
<1>1. WayTyped'
  BY MovedLists DEF WayTyped
<1>2. \A l \in Lists : Distinct(way'[l])
  BY MovedLists
<1>3. \A l \in Lists : \A x : InList(way'[l], x) <=> IF x = w THEN l = n ELSE On(x, l)
  BY MovedLists
<1>4. ASSUME NEW x \in Ways PROVE \E k \in Lists : \A l \in Lists : InList(way'[l], x) <=> l = k
  BY <1>3 DEF OnOneList
<1>5. /\ Size(m)' = Size(m) - 1 /\ Size(n)' = Size(n) + 1
      /\ \A l \in Lists \ {m, n} : way'[l] = way[l]
  BY MovedLists DEF Size
<1>6. Total' = USER_WAYS
  <2>1. \A l \in Lists : Size(l) \in Nat
    BY LenProperties DEF WayTyped, Size
  <2>2. \A l \in Lists : Size(l)' = IF l = m THEN Size(l) - 1 ELSE IF l = n THEN Size(l) + 1 ELSE Size(l)
    BY <1>5 DEF Size
  <2>3. Total = Size("idle") + Size("statusReport") + Size("statusCheck") + Size("readTrigger") + Size("erase") + Size("write") + Size("readTransfer")
    BY DEF Total
  <2>4. Total' = Size("idle")' + Size("statusReport")' + Size("statusCheck")' + Size("readTrigger")' + Size("erase")' + Size("write")' + Size("readTransfer")'
    BY DEF Total
  <2>5. /\ Size("idle") \in Nat /\ Size("statusReport") \in Nat /\ Size("statusCheck") \in Nat /\ Size("readTrigger") \in Nat
        /\ Size("erase") \in Nat /\ Size("write") \in Nat /\ Size("readTransfer") \in Nat
    BY <2>1, ListNames DEF PriorityLists
  <2>6. \A l \in {"idle", "statusReport", "statusCheck", "readTrigger", "erase", "write", "readTransfer"} :
            Size(l)' = IF l = m THEN Size(l) - 1 ELSE IF l = n THEN Size(l) + 1 ELSE Size(l)
    BY <2>2, ListNames DEF PriorityLists
  <2>7. m \in {"idle", "statusReport", "statusCheck", "readTrigger", "erase", "write", "readTransfer"}
        /\ n \in {"idle", "statusReport", "statusCheck", "readTrigger", "erase", "write", "readTransfer"}
    BY ListNames DEF PriorityLists
  <2>. QED
    BY <2>3, <2>4, <2>5, <2>6, <2>7 DEF OnOneList
<1>. QED
  BY <1>1, <1>2, <1>4, <1>6 DEF OnOneList, On
-----------------------------------------------------------------------------
\* What a queue of requests may hold: the codes the firmware issues and the transfer
\* that a read turns into.
RequestCodes == Codes \cup {"transfer"}
QueuesTyped == nandReqQ \in [Ways -> Seq(RequestCodes)]

\* Queue r is queue q with new requests behind it.
Grown(q, r) ==
    /\ Len(q) <= Len(r)
    /\ \A i \in 1 .. Len(q) : r[i] = q[i]
    /\ \A i \in Len(q) + 1 .. Len(r) : r[i] \in Codes

\* A request that is put to a queue grows it.
LEMMA GrownByOne ==
    ASSUME NEW p \in Seq(RequestCodes), NEW c \in Codes
    PROVE  Append(p, c) \in Seq(RequestCodes) /\ Grown(p, Append(p, c))
<1>1. c \in RequestCodes
  BY DEF RequestCodes
<1>2. /\ Append(p, c) \in Seq(RequestCodes)
      /\ Len(Append(p, c)) = Len(p) + 1
      /\ \A j \in 1 .. Len(p) + 1 : Append(p, c)[j] = IF j <= Len(p) THEN p[j] ELSE c
  BY <1>1, AppendEntry
<1>. QED
  BY <1>2, LenProperties DEF Grown

\* Requests that arrive at any of the given dies grow their queues.
LEMMA ArrivedGrow ==
    ASSUME NEW q \in [Ways -> Seq(RequestCodes)], NEW dies, NEW r \in Arrived(q, dies)
    PROVE  r \in [Ways -> Seq(RequestCodes)] /\ \A v \in Ways : Grown(q[v], r[v])
<1>1. CASE r = q
  BY <1>1, LenProperties DEF Grown
<1>2. ASSUME NEW c \in Codes, NEW w \in {v \in dies : Len(q[v]) < MaxQueued},
             r = [q EXCEPT ![w] = Append(@, c)]
      PROVE  r \in [Ways -> Seq(RequestCodes)] /\ \A v \in Ways : Grown(q[v], r[v])
  <2>1. CASE w \notin Ways
    <3>1. r = q
      BY <1>2, <2>1
    <3>. QED
      BY <1>1, <3>1
  <2>2. CASE w \in Ways
    <3>1. q[w] \in Seq(RequestCodes)
      BY <2>2
    <3>2. Append(q[w], c) \in Seq(RequestCodes) /\ Grown(q[w], Append(q[w], c))
      BY <3>1, GrownByOne
    <3>3. r \in [Ways -> Seq(RequestCodes)] /\ r[w] = Append(q[w], c)
      BY <1>2, <2>2, <3>2
    <3>4. Grown(q[w], r[w])
      BY <3>2, <3>3
    <3>5. ASSUME NEW v \in Ways, v # w PROVE Grown(q[v], r[v])
      BY <1>2, <3>5, LenProperties DEF Grown
    <3>. QED
      BY <3>3, <3>4, <3>5
  <2>. QED
    BY <2>1, <2>2
<1>3. \/ r = q
      \/ \E c \in Codes : \E w \in {v \in dies : Len(q[v]) < MaxQueued} : r = [q EXCEPT ![w] = Append(@, c)]
  <2>1. r \in {q} \/ r \in {[q EXCEPT ![w] = Append(@, c)] : c \in Codes, w \in {v \in dies : Len(q[v]) < MaxQueued}}
    BY DEF Arrived
  <2>. QED
    BY <2>1
<1>4. CASE \E c \in Codes : \E w \in {v \in dies : Len(q[v]) < MaxQueued} : r = [q EXCEPT ![w] = Append(@, c)]
  <2>1. PICK c \in Codes, w \in {v \in dies : Len(q[v]) < MaxQueued} : r = [q EXCEPT ![w] = Append(@, c)]
    BY <1>4
  <2>. QED
    BY <1>2, <2>1
<1>. QED
  BY <1>1, <1>3, <1>4

\* A queue that grew and grew again has grown.
LEMMA GrownTwice ==
    ASSUME NEW p \in Seq(RequestCodes), NEW q \in Seq(RequestCodes), NEW r \in Seq(RequestCodes),
           Grown(p, q), Grown(q, r)
    PROVE  Grown(p, r)
<1>1. Len(p) \in Nat /\ Len(q) \in Nat /\ Len(r) \in Nat
  BY LenProperties
<1>2. ASSUME NEW i \in Len(p) + 1 .. Len(r) PROVE r[i] \in Codes
  BY <1>1 DEF Grown
<1>. QED
  BY <1>1, <1>2 DEF Grown

\* Requests that a finished one releases grow the queues they go to.
LEMMA ReleasedGrow ==
    ASSUME NEW q \in [Ways -> Seq(RequestCodes)], NEW w, NEW r \in Released(q, w)
    PROVE  r \in [Ways -> Seq(RequestCodes)] /\ \A v \in Ways : Grown(q[v], r[v])
<1>1. CASE r = q
  BY <1>1, LenProperties DEF Grown
<1>. QED
  BY <1>1, ArrivedGrow DEF Released

\* A trigger that becomes its transfer stays at the head, before the same requests.
LEMMA HeadReplaced ==
    ASSUME NEW q \in Seq(RequestCodes), q # <<>>, NEW c \in RequestCodes
    PROVE  LET r == [q EXCEPT ![1] = c]
           IN  /\ r \in Seq(RequestCodes) /\ r # <<>> /\ Len(r) = Len(q) /\ Head(r) = c
               /\ \A i \in 2 .. Len(q) : r[i] = q[i]
<1> DEFINE r == [q EXCEPT ![1] = c]
<1>1. Len(q) \in Nat \ {0}
  BY LenProperties, EmptySeq
<1>2. q \in [1 .. Len(q) -> RequestCodes]
  BY LenProperties
<1>3. r \in [1 .. Len(q) -> RequestCodes]
  BY <1>2
<1>4. r \in Seq(RequestCodes) /\ Len(r) = Len(q)
  BY <1>1, <1>3, IsASeq, LenProperties
<1>5. r # <<>> /\ Head(r) = c
  BY <1>1, <1>2, <1>4, EmptySeq, HeadTailProperties
<1>. QED
  BY <1>2, <1>4, <1>5

\* A queue that grows keeps its head; a head it gets is a request of the firmware's,
\* never a transfer.
LEMMA GrownHead ==
    ASSUME NEW q \in Seq(RequestCodes), NEW r \in Seq(RequestCodes), Grown(q, r)
    PROVE  /\ q # <<>> => r # <<>> /\ Head(r) = Head(q)
           /\ q = <<>> /\ r # <<>> => Head(r) \in Codes
           /\ r = <<>> => q = <<>>
           /\ (\A i \in 2 .. Len(q) : q[i] \in Codes) => \A i \in 2 .. Len(r) : r[i] \in Codes
<1>1. Len(q) \in Nat /\ Len(r) \in Nat
  BY LenProperties
<1>2. q # <<>> <=> Len(q) # 0
  BY EmptySeq, LenProperties
<1>3. r # <<>> <=> Len(r) # 0
  BY EmptySeq, LenProperties
<1>4. q # <<>> => Head(q) = q[1]
  BY HeadTailProperties
<1>5. r # <<>> => Head(r) = r[1]
  BY HeadTailProperties
<1>. QED
  BY <1>1, <1>2, <1>3, <1>4, <1>5 DEF Grown

\* Behind the head there are no transfers, so none becomes the head when it leaves.
LEMMA GrownTail ==
    ASSUME NEW q \in Seq(RequestCodes), q # <<>>, NEW r \in Seq(RequestCodes), Grown(Tail(q), r),
           \A i \in 2 .. Len(q) : q[i] \in Codes
    PROVE  \A i \in 1 .. Len(r) : r[i] \in Codes
<1>1. /\ Len(q) \in Nat \ {0} /\ Len(r) \in Nat
      /\ Len(Tail(q)) = Len(q) - 1
      /\ \A i \in 1 .. Len(q) - 1 : Tail(q)[i] = q[i + 1]
  BY LenProperties, EmptySeq, HeadTailProperties
<1>. QED
  BY <1>1 DEF Grown
-----------------------------------------------------------------------------
\* The list of a way tells the state of its die and what the firmware does next with
\* its request (ExecuteNandReq moves the way and sets the state at distant places).
ListState ==
    \A w \in Ways :
        /\ On(w, "idle") => dieState[w] = "idle"
        /\ On(w, "statusCheck") => dieState[w] = "exe" /\ reqStatusCheckOpt[w] = "check"
        /\ On(w, "statusReport") => dieState[w] = "exe" /\ reqStatusCheckOpt[w] \in {"report", "flag"}
        /\ \A n \in IssueLists : On(w, n) =>
              dieState[w] = "idle" /\ nandReqQ[w] # <<>> /\ ListFor(Code(w)) = n

\* Where the pass is: the ways behind wayNo on its list are those not yet looked at,
\* and waitWayCnt has counted the ones before it that stay waiting.
PassInv ==
    /\ at = "idle" => \E k \in 1 .. Size("idle") : way["idle"][k] = wayNo /\ waitWayCnt = k - 1
    /\ at = "beginReport" => waitWayCnt = Size("idle")
    /\ at = "report" => \E k \in 1 .. Size("statusReport") :
                           way["statusReport"][k] = wayNo /\ waitWayCnt = Size("idle") + k - 1
    /\ at = "beginIssue" => waitWayCnt = Size("idle") + Size("statusReport")
    /\ at \in PriorityLists => way[at] # <<>>

\* The request of way w: only a head can be a transfer, and only with its page in the
\* register of the die; a die that executes has a request; retries add up.
RequestOf(w) ==
    /\ \A i \in 2 .. Len(nandReqQ[w]) : nandReqQ[w][i] \in Codes
    /\ nandReqQ[w] # <<>> /\ Code(w) = "transfer" => "read" \in Codes /\ loaded[w]
    /\ dieState[w] = "exe" => nandReqQ[w] # <<>> /\ reqStatusCheckOpt[w] # "none"
    /\ failures[w] + retryLimit[w] = RETRY_LIMIT
RequestInv == \A w \in Ways : RequestOf(w)

\* The commands of way w in the queue of the controller: its request's and a status
\* check behind it, and only those the state of the way speaks of. An answer is
\* missing exactly as long as the command that gives it is queued.
CommandsOf(w) ==
    /\ \A i, j \in 1 .. Len(commands) :
          commands[i][1] = w /\ commands[j][1] = w /\ i < j =>
             commands[i][2] = Code(w) /\ commands[j][2] = "status"
    /\ \A i \in 1 .. Len(commands) : commands[i][1] = w =>
          /\ dieState[w] = "exe"
          /\ commands[i][2] \in {Code(w), "status"}
          /\ commands[i][2] = "status" => reqStatusCheckOpt[w] = "report"
          /\ commands[i][2] = "transfer" => reqStatusCheckOpt[w] = "flag"
    /\ dieState[w] = "exe" =>
          /\ reqStatusCheckOpt[w] = "report" => (statusReport[w] = "none" <=> Pending(w, "status"))
          /\ reqStatusCheckOpt[w] = "report" /\ statusReport[w] # "none" => ~Pending(w, Code(w))
          /\ reqStatusCheckOpt[w] = "flag" <=> Code(w) = "transfer"
          /\ reqStatusCheckOpt[w] = "flag" => (completeFlag[w] = "none" <=> Pending(w, "transfer"))
CommandInv == \A w \in Ways : CommandsOf(w)

\* The die of way w: it works on the request at the head whose command left the
\* queue, and what a status report says is what the operation ended with.
FlashOf(w) ==
    /\ flash[w] # "ready" => dieState[w] = "exe" /\ flash[w] = Code(w) /\ ~Pending(w, Code(w))
    /\ dieState[w] = "exe" /\ reqStatusCheckOpt[w] = "report" /\ statusReport[w] \in {"pass", "fail"} =>
          flash[w] = "ready" /\ statusReport[w] = result[w]
    /\ dieState[w] = "exe" /\ Code(w) = "read" /\ ~Pending(w, "read") /\ flash[w] = "ready"
          /\ result[w] = "pass" => loaded[w]
FlashInv == \A w \in Ways : FlashOf(w)

\* The types of TypeOK, without the count of the waiting ways.
Stations == {"out", "idle", "beginReport", "report", "beginIssue"} \cup PriorityLists
Operations == {"read", "write", "erase", "transfer", "status"}
Typed ==
    /\ QueuesTyped /\ WayTyped
    /\ dieState \in [Ways -> {"idle", "exe"}]
    /\ reqStatusCheckOpt \in [Ways -> {"none", "check", "report", "flag"}]
    /\ completeFlag \in [Ways -> {"none", "pass", "warning", "fail"}]
    /\ statusReport \in [Ways -> {"none", "busy", "pass", "fail"}]
    /\ retryLimit \in [Ways -> 0 .. RETRY_LIMIT]
    /\ at \in Stations
    /\ wayNo \in Ways \cup {NONE}
    /\ readyBusy \subseteq Ways
    /\ commands \in Seq(Ways \X Operations) /\ Len(commands) <= QUEUE_DEPTH
    /\ flash \in [Ways -> {"ready", "read", "write", "erase"}]
    /\ result \in [Ways -> {"pass", "fail"}]
    /\ loaded \in [Ways -> BOOLEAN]
    /\ failures \in [Ways -> Nat]

\* The inductive invariant. No part is inductive alone: the lists say which action is
\* possible, the commands that a report belongs to the request, the die that a
\* transfer finds its page, and the pass that the way it looks at is on its list.
IInv == Typed /\ waitWayCnt \in 0 .. USER_WAYS /\ OnOneList /\ ListState /\ PassInv /\ RequestInv
        /\ CommandInv /\ FlashInv

\* The parts of the invariant give the type invariant the runs check.
LEMMA IInvTypes == Typed /\ waitWayCnt \in 0 .. USER_WAYS => TypeOK
<1>1. {Priorities[i] : i \in 1 .. Len(Priorities)} = PriorityLists
  BY ListNames DEF Lists, PriorityLists, Priorities
<1>. QED
  BY <1>1 DEF Typed, TypeOK, QueuesTyped, WayTyped, RequestCodes, Stations, Operations

\* At the start all ways are idle, on the idle list in ascending order.
LEMMA InitIInv == Init => IInv
<1> SUFFICES ASSUME Init PROVE IInv
  OBVIOUS
<1> USE DEF Init
<1> DEFINE ascending == [i \in 1 .. USER_WAYS |-> i - 1]
<1>1. ascending \in Seq(Ways) /\ Len(ascending) = USER_WAYS /\ \A i \in 1 .. USER_WAYS : ascending[i] = i - 1
  OBVIOUS
<1> HIDE DEF ascending
<1>2. way = [n \in Lists |-> IF n = "idle" THEN ascending ELSE <<>>]
  BY DEF ascending
<1>3. WayTyped
  BY <1>1, <1>2, EmptySeq DEF WayTyped
<1>4. \A n \in Lists : way[n] = IF n = "idle" THEN ascending ELSE <<>>
  BY <1>2
<1>5. /\ "idle" \in Lists /\ "statusReport" \in Lists /\ "statusCheck" \in Lists /\ "readTrigger" \in Lists
      /\ "erase" \in Lists /\ "write" \in Lists /\ "readTransfer" \in Lists
  BY ListNames DEF PriorityLists
<1>6. OnOneList
  <2>1. \A n \in Lists : Distinct(way[n])
    BY <1>1, <1>4, EmptySeq DEF Distinct
  <2>2. ASSUME NEW w \in Ways, NEW m \in Lists PROVE On(w, m) <=> m = "idle"
    <3>1. w + 1 \in 1 .. USER_WAYS /\ ascending[w + 1] = w
      BY <1>1
    <3>. QED
      BY <1>1, <1>4, <3>1, EmptySeq DEF On, InList
  <2>3. Total = USER_WAYS
    BY <1>1, <1>4, <1>5, EmptySeq DEF Total, Size
  <2>. QED
    BY <1>5, <2>1, <2>2, <2>3 DEF OnOneList
<1>7. Typed /\ waitWayCnt \in 0 .. USER_WAYS
  <2>1. QueuesTyped
    BY EmptySeq DEF QueuesTyped
  <2>2. commands \in Seq(Ways \X Operations) /\ Len(commands) <= QUEUE_DEPTH
    BY EmptySeq
  <2>. QED
    BY <1>3, <2>1, <2>2 DEF Typed, Stations
<1>8. ListState
  <2>1. ASSUME NEW w \in Ways, NEW n \in Lists, n # "idle" PROVE ~On(w, n)
    BY <1>4, <2>1, EmptySeq DEF On, InList
  <2>. QED
    BY <2>1, ListNames DEF ListState, IssueLists, PriorityLists
<1>9. PassInv
  BY DEF PassInv, PriorityLists
<1>10. RequestInv
  BY EmptySeq DEF RequestInv, RequestOf
<1>11. CommandInv /\ FlashInv
  BY EmptySeq DEF CommandInv, CommandsOf, FlashInv, FlashOf
<1>. QED
  BY <1>3, <1>6, <1>7, <1>8, <1>9, <1>10, <1>11 DEF IInv

-----------------------------------------------------------------------------
\* Every entry of a list is a way that is on it.
LEMMA WayOn ==
    ASSUME Typed, NEW n \in Lists, NEW k \in 1 .. Size(n)
    PROVE  way[n][k] \in Ways /\ On(way[n][k], n)
<1>1. way[n] \in Seq(Ways)
  BY DEF Typed, WayTyped
<1>. QED
  BY <1>1, ElementOfSeq DEF On, InList, Size

\* Part 1 looks at an idle way, at the position it has counted to.
LEMMA AtIdle ==
    ASSUME IInv, at = "idle"
    PROVE  /\ wayNo \in Ways /\ On(wayNo, "idle") /\ dieState[wayNo] = "idle"
           /\ \E k \in 1 .. Size("idle") : way["idle"][k] = wayNo /\ waitWayCnt = k - 1
<1>1. PICK k \in 1 .. Size("idle") : way["idle"][k] = wayNo /\ waitWayCnt = k - 1
  BY DEF IInv, PassInv
<1>2. "idle" \in Lists
  BY ListNames
<1>. QED
  BY <1>1, <1>2, WayOn DEF IInv, ListState

\* Part 2 looks at a way that executes a request and waits for its report.
LEMMA AtReport ==
    ASSUME IInv, at = "report"
    PROVE  /\ wayNo \in Ways /\ On(wayNo, "statusReport") /\ dieState[wayNo] = "exe"
           /\ reqStatusCheckOpt[wayNo] \in {"report", "flag"}
           /\ nandReqQ[wayNo] \in Seq(RequestCodes) /\ nandReqQ[wayNo] # <<>> /\ Code(wayNo) \in RequestCodes
           /\ \E k \in 1 .. Size("statusReport") :
                 way["statusReport"][k] = wayNo /\ waitWayCnt = Size("idle") + k - 1
<1>1. PICK k \in 1 .. Size("statusReport") :
             way["statusReport"][k] = wayNo /\ waitWayCnt = Size("idle") + k - 1
  BY DEF IInv, PassInv
<1>2. "statusReport" \in Lists
  BY ListNames
<1>3. wayNo \in Ways /\ On(wayNo, "statusReport") /\ dieState[wayNo] = "exe"
      /\ reqStatusCheckOpt[wayNo] \in {"report", "flag"}
  BY <1>1, <1>2, WayOn DEF IInv, ListState
<1>4. nandReqQ[wayNo] \in Seq(RequestCodes) /\ nandReqQ[wayNo] # <<>>
  BY <1>3 DEF IInv, Typed, QueuesTyped, RequestInv, RequestOf
<1>. QED
  BY <1>1, <1>3, <1>4, HeadTailProperties DEF Code

\* Part 3 issues the request at the head of an idle die, of the kind its list is for.
LEMMA AtIssue ==
    ASSUME IInv, IssueNandReq
    PROVE  /\ at \in IssueLists /\ way[at] # <<>> /\ Head(way[at]) \in Ways /\ On(Head(way[at]), at)
           /\ nandReqQ[Head(way[at])] # <<>> /\ Code(Head(way[at])) \in RequestCodes
           /\ ListFor(Code(Head(way[at]))) = at
           /\ dieState[Head(way[at])] = "idle"
<1>1. at \in IssueLists
  BY ListNames DEF IssueNandReq, PriorityLists, IssueLists
<1>2. at \in Lists /\ way[at] # <<>> /\ way[at] \in Seq(Ways)
  BY <1>1, ListNames DEF IInv, PassInv, Typed, WayTyped, IssueLists
<1>3. Len(way[at]) \in Nat \ {0} /\ Head(way[at]) = way[at][1]
  BY <1>2, EmptySeq
<1>4. Head(way[at]) \in Ways /\ On(Head(way[at]), at)
  BY <1>2, <1>3, WayOn DEF IInv, Size
<1>5. nandReqQ[Head(way[at])] # <<>> /\ nandReqQ[Head(way[at])] \in Seq(RequestCodes)
  BY <1>1, <1>4 DEF IInv, ListState, Typed, QueuesTyped
<1>. QED
  BY <1>1, <1>2, <1>4, <1>5, HeadTailProperties DEF IInv, ListState, Code

\* Part 3 asks for the status of a die that executes and was not asked yet.
LEMMA AtAsk ==
    ASSUME IInv, AskStatus, NEW w \in Ways, ReadyToAsk(w)
    PROVE  On(w, "statusCheck") /\ dieState[w] = "exe" /\ reqStatusCheckOpt[w] = "check"
<1>1. On(w, "statusCheck")
  BY DEF ReadyToAsk, On, InList
<1>. QED
  BY <1>1 DEF IInv, ListState
-----------------------------------------------------------------------------
\* Every request has a list to wait on.
LEMMA ListForIs ==
    ASSUME NEW c \in RequestCodes
    PROVE  ListFor(c) \in IssueLists
  BY DEF RequestCodes, ListFor, IssueLists, PriorityLists

\* w is moved from list m to list n.
MovesTo(w, m, n) ==
    w \in Ways /\ m \in Lists /\ n \in Lists /\ m # n /\ On(w, m) /\ way' = Moved(w, m, n)

\* An idle way with a request leaves the idle list for the list of this request.
LEMMA IdleQueue ==
    ASSUME IInv, TakeIdleWay
    PROVE  /\ QueuesTyped'
           /\ \A v \in Ways : Grown(nandReqQ[v], nandReqQ'[v])
           /\ nandReqQ'[wayNo] # <<>> =>
                /\ Head(nandReqQ'[wayNo]) \in RequestCodes
                /\ MovesTo(wayNo, "idle", ListFor(Head(nandReqQ'[wayNo])))
<1>1. wayNo \in Ways /\ On(wayNo, "idle")
  BY AtIdle DEF TakeIdleWay
<1>2. nandReqQ' \in [Ways -> Seq(RequestCodes)] /\ \A v \in Ways : Grown(nandReqQ[v], nandReqQ'[v])
  BY ReleasedGrow DEF TakeIdleWay, IInv, Typed, QueuesTyped
<1>3. ASSUME nandReqQ'[wayNo] # <<>>
      PROVE  Head(nandReqQ'[wayNo]) \in RequestCodes /\ MovesTo(wayNo, "idle", ListFor(Head(nandReqQ'[wayNo])))
  <2>1. Head(nandReqQ'[wayNo]) \in RequestCodes
    BY <1>1, <1>2, <1>3, HeadTailProperties
  <2>2. ListFor(Head(nandReqQ'[wayNo])) \in IssueLists
    BY <2>1, ListForIs
  <2>. QED
    BY <1>1, <1>3, <2>1, <2>2, ListNames DEF MovesTo, TakeIdleWay, IssueLists, PriorityLists
<1>. QED
  BY <1>2, <1>3 DEF QueuesTyped

\* What a finished command leaves of the queue of its way, and where the way goes: a
\* trigger is followed by its transfer, a read that failed by itself, anything else
\* by the next request, if there is one.
LEMMA DoneQueue ==
    ASSUME IInv, CommandDone, NEW w \in Ways, w = wayNo
    PROVE  /\ QueuesTyped'
           /\ \A v \in Ways \ {w} : Grown(nandReqQ[v], nandReqQ'[v])
           /\ \A i \in 2 .. Len(nandReqQ'[w]) : nandReqQ'[w][i] \in Codes
           /\ TriggerDone(w) => nandReqQ'[w] # <<>> /\ Code(w)' = "transfer"
           /\ RetryRead(w) => nandReqQ'[w] # <<>> /\ Code(w)' = "read" /\ "read" \in Codes
           /\ RequestDone(w) /\ nandReqQ'[w] # <<>> => Code(w)' \in Codes
           /\ nandReqQ'[w] # <<>> =>
                Code(w)' \in RequestCodes /\ MovesTo(w, "statusReport", ListFor(Code(w)'))
           /\ nandReqQ'[w] = <<>> => MovesTo(w, "statusReport", "idle")
<1> DEFINE q == nandReqQ[w]
<1>1. /\ w \in Ways /\ On(w, "statusReport") /\ q \in Seq(RequestCodes) /\ q # <<>>
      /\ Code(w) \in RequestCodes
      /\ nandReqQ \in [Ways -> Seq(RequestCodes)]
  BY AtReport DEF CommandDone, IInv, Typed, QueuesTyped
<1>2. \A i \in 2 .. Len(q) : q[i] \in Codes
  BY <1>1 DEF IInv, RequestInv, RequestOf
<1>3. Code(w) = Head(q) /\ Code(w)' = Head(nandReqQ'[w])
  BY DEF Code, q
<1>4. Code(w) = "transfer" => "read" \in Codes
  BY <1>1 DEF IInv, RequestInv, RequestOf
<1> HIDE DEF q
<1> DEFINE Result ==
        /\ nandReqQ' \in [Ways -> Seq(RequestCodes)]
        /\ \A v \in Ways \ {w} : Grown(nandReqQ[v], nandReqQ'[v])
        /\ \A i \in 2 .. Len(nandReqQ'[w]) : nandReqQ'[w][i] \in Codes
<1>5. ASSUME NEW c \in RequestCodes, nandReqQ' = [nandReqQ EXCEPT ![w][1] = c]
      PROVE  Result /\ nandReqQ'[w] # <<>> /\ Code(w)' = c
  <2> DEFINE r == [q EXCEPT ![1] = c]
  <2>1. r \in Seq(RequestCodes) /\ r # <<>> /\ Len(r) = Len(q) /\ Head(r) = c
        /\ \A i \in 2 .. Len(q) : r[i] = q[i]
    BY <1>1, HeadReplaced
  <2>2. nandReqQ' = [nandReqQ EXCEPT ![w] = r]
    BY <1>5 DEF q
  <2> HIDE DEF r
  <2>3. nandReqQ'[w] = r /\ nandReqQ' \in [Ways -> Seq(RequestCodes)]
    BY <1>1, <2>1, <2>2
  <2>4. ASSUME NEW v \in Ways \ {w} PROVE Grown(nandReqQ[v], nandReqQ'[v])
    BY <1>1, <2>2, LenProperties DEF Grown
  <2>. QED
    BY <1>2, <1>3, <2>1, <2>3, <2>4
<1>6. ASSUME TriggerDone(w) PROVE Result /\ nandReqQ'[w] # <<>> /\ Code(w)' = "transfer"
  BY <1>5, <1>6 DEF TriggerDone, RequestCodes
<1>7. ASSUME RetryRead(w) PROVE Result /\ nandReqQ'[w] # <<>> /\ Code(w)' = "read" /\ "read" \in Codes
  <2>1. "read" \in Codes
    BY <1>1, <1>4, <1>7 DEF RetryRead, Retries, RequestCodes
  <2>. QED
    BY <1>5, <1>7, <2>1 DEF RetryRead, RequestCodes
<1>8. ASSUME RequestDone(w)
      PROVE  Result /\ \A i \in 1 .. Len(nandReqQ'[w]) : nandReqQ'[w][i] \in Codes
  <2> DEFINE t == [nandReqQ EXCEPT ![w] = Tail(@)]
  <2>1. PICK r \in Arrived(t, Ways) : nandReqQ' \in Released(r, w)
    BY <1>8 DEF RequestDone
  <2>2. Tail(q) \in Seq(RequestCodes)
    BY <1>1, HeadTailProperties
  <2>3. t \in [Ways -> Seq(RequestCodes)] /\ t[w] = Tail(q) /\ \A v \in Ways \ {w} : t[v] = nandReqQ[v]
    BY <1>1, <2>2 DEF q
  <2> HIDE DEF t
  <2>4. r \in [Ways -> Seq(RequestCodes)] /\ \A v \in Ways : Grown(t[v], r[v])
    BY <2>1, <2>3, ArrivedGrow
  <2>5. nandReqQ' \in [Ways -> Seq(RequestCodes)] /\ \A v \in Ways : Grown(r[v], nandReqQ'[v])
    BY <2>1, <2>4, ReleasedGrow
  <2>6. ASSUME NEW v \in Ways PROVE Grown(t[v], nandReqQ'[v])
    <3>1. t[v] \in Seq(RequestCodes) /\ r[v] \in Seq(RequestCodes) /\ nandReqQ'[v] \in Seq(RequestCodes)
      BY <2>3, <2>4, <2>5
    <3>2. Grown(t[v], r[v]) /\ Grown(r[v], nandReqQ'[v])
      BY <2>4, <2>5
    <3>. QED
      BY <3>1, <3>2, GrownTwice
  <2>7. nandReqQ'[w] \in Seq(RequestCodes) /\ Grown(Tail(q), nandReqQ'[w])
    BY <1>1, <2>3, <2>5, <2>6
  <2>8. \A i \in 1 .. Len(nandReqQ'[w]) : nandReqQ'[w][i] \in Codes
    BY <1>1, <1>2, <2>7, GrownTail
  <2>. QED
    BY <2>3, <2>5, <2>6, <2>8
<1>9. RequestDone(w) /\ nandReqQ'[w] # <<>> => Code(w)' \in Codes
  <2> SUFFICES ASSUME RequestDone(w), nandReqQ'[w] # <<>> PROVE Code(w)' \in Codes
    OBVIOUS
  <2>1. nandReqQ'[w] \in Seq(RequestCodes)
    BY <1>1, <1>8
  <2>2. Len(nandReqQ'[w]) \in Nat \ {0}
    BY <2>1, EmptySeq
  <2>3. Head(nandReqQ'[w]) = nandReqQ'[w][1]
    BY <2>1
  <2>. QED
    BY <1>3, <1>8, <2>2, <2>3
<1>10. Result
  BY <1>6, <1>7, <1>8 DEF CommandDone
<1>11. nandReqQ'[w] # <<>> => Code(w)' \in RequestCodes /\ MovesTo(w, "statusReport", ListFor(Code(w)'))
  <2>1. nandReqQ'[w] # <<>> => Code(w)' \in RequestCodes
    BY <1>1, <1>3, <1>10, HeadTailProperties
  <2>2. nandReqQ'[w] # <<>> => ListFor(Code(w)') \in IssueLists
    BY <2>1, ListForIs
  <2>. QED
    BY <1>1, <1>3, <2>1, <2>2, ListNames DEF MovesTo, CommandDone, IssueLists, PriorityLists
<1>12. nandReqQ'[w] = <<>> => MovesTo(w, "statusReport", "idle")
  BY <1>1, ListNames DEF MovesTo, CommandDone
<1>. QED
  BY <1>5, <1>6, <1>7, <1>9, <1>10, <1>11, <1>12 DEF QueuesTyped
-----------------------------------------------------------------------------
\* The first way of a list, if there is one.
LEMMA FirstIs ==
    ASSUME NEW q \in Seq(Ways)
    PROVE  /\ q = <<>> => First(q) = NONE /\ Len(q) = 0
           /\ q # <<>> => First(q) \in Ways /\ First(q) = q[1] /\ Len(q) \in Nat \ {0}
<1>1. q # <<>> => Len(q) \in Nat \ {0} /\ Head(q) = q[1] /\ Head(q) \in Ways
  BY EmptySeq, HeadTailProperties
<1>. QED
  BY <1>1, EmptySeq DEF First

\* The loop over list n goes on behind position k, or ends with the list.
LEMMA GoOnIs ==
    ASSUME WayTyped, OnOneList, NEW n \in Lists, NEW k \in 1 .. Size(n), wayNo = way[n][k],
           NEW p, NEW next, GoOn(p, NextWay(way[n], wayNo), next)
    PROVE  \/ k = Size(n) /\ at' = next /\ wayNo' = NONE
           \/ k + 1 \in 1 .. Size(n) /\ at' = p /\ wayNo' = way[n][k + 1] /\ wayNo' \in Ways
<1>1. way[n] \in Seq(Ways) /\ Distinct(way[n]) /\ Size(n) \in Nat
  BY LenProperties DEF WayTyped, OnOneList, Size
<1>2. NextWay(way[n], wayNo) = IF k = Size(n) THEN NONE ELSE way[n][k + 1]
  BY <1>1, NextWayIs DEF Size
<1>3. CASE k = Size(n)
  BY <1>2, <1>3 DEF GoOn
<1>4. CASE k # Size(n)
  <2>1. k + 1 \in 1 .. Size(n)
    BY <1>1, <1>4
  <2>2. way[n][k + 1] \in Ways
    BY <1>1, <2>1, ElementOfSeq DEF Size
  <2>3. way[n][k + 1] # NONE
    BY <2>2
  <2>. QED
    BY <1>2, <1>4, <2>1, <2>2, <2>3 DEF GoOn
<1>. QED
  BY <1>3, <1>4

\* Where the ways are after way w was moved.
LEMMA MovedWays ==
    ASSUME WayTyped, OnOneList, NEW w, NEW m, NEW n, MovesTo(w, m, n)
    PROVE  /\ WayTyped' /\ OnOneList'
           /\ \A l \in Lists : On(w, l)' <=> l = n
           /\ \A v \in Ways \ {w} : \A l \in Lists : On(v, l)' <=> On(v, l)
<1>1. WayTyped' /\ OnOneList'
  BY MovedKeepsOneList DEF MovesTo
<1>2. \A l \in Lists : \A x : InList(way'[l], x) <=> IF x = w THEN l = n ELSE On(x, l)
  BY MovedLists DEF MovesTo
<1>. QED
  BY <1>1, <1>2 DEF On

\* The lengths of the lists, which the pass counts with, after way w was moved.
LEMMA MovedLengths ==
    ASSUME WayTyped, OnOneList, NEW w, NEW m, NEW n, MovesTo(w, m, n),
           NEW k \in 1 .. Size(m), w = way[m][k]
    PROVE  /\ Size(m)' = Size(m) - 1
           /\ Size(n)' = Size(n) + 1
           /\ \A l \in Lists \ {m, n} : way'[l] = way[l]
           /\ k + 1 \in 1 .. Size(m) => k \in 1 .. Size(m)' /\ way'[m][k] = way[m][k + 1]
<1>1. /\ Size(m)' = Size(m) - 1
      /\ Size(n)' = Size(n) + 1
      /\ \A l \in Lists \ {m, n} : way'[l] = way[l]
      /\ way'[m] = Unlink(way[m], w)
  BY MovedLists DEF MovesTo, Size
<1>2. way[m] \in Seq(Ways) /\ Distinct(way[m]) /\ Size(m) \in Nat
  BY LenProperties DEF MovesTo, WayTyped, OnOneList, Size
<1>3. \A j \in 1 .. Size(m) - 1 : Unlink(way[m], w)[j] = IF j < k THEN way[m][j] ELSE way[m][j + 1]
  BY <1>2, UnlinkAt DEF Size
<1>. QED
  BY <1>1, <1>2, <1>3
-----------------------------------------------------------------------------
\* A report that says busy sends the way back to the list of status checks.
LEMMA AgainMoves ==
    ASSUME IInv, AskAgain
    PROVE  MovesTo(wayNo, "statusReport", "statusCheck") /\ reqStatusCheckOpt[wayNo] = "report"
           /\ statusReport[wayNo] = "busy"
<1>1. /\ wayNo \in Ways /\ On(wayNo, "statusReport") /\ reqStatusCheckOpt[wayNo] \in {"report", "flag"}
  BY AtReport DEF AskAgain
<1>. QED
  BY <1>1, ListNames DEF AskAgain, MovesTo, PriorityLists, CheckedOpt

\* A way that is asked for its status waits for the report.
LEMMA AskMoves ==
    ASSUME IInv, AskStatus
    PROVE  \E w \in Ways :
              /\ MovesTo(w, "statusCheck", "statusReport")
              /\ dieState[w] = "exe" /\ reqStatusCheckOpt[w] = "check"
              /\ commands' = Append(commands, <<w, "status">>)
              /\ statusReport' = [statusReport EXCEPT ![w] = "none"]
              /\ reqStatusCheckOpt' = [reqStatusCheckOpt EXCEPT ![w] = "report"]
<1>1. PICK w \in Ways :
          /\ ReadyToAsk(w)
          /\ commands' = Append(commands, <<w, "status">>)
          /\ statusReport' = ReportCleared(w)
          /\ reqStatusCheckOpt' = [reqStatusCheckOpt EXCEPT ![w] = "report"]
          /\ way' = Moved(w, "statusCheck", "statusReport")
  BY DEF AskStatus
<1>2. On(w, "statusCheck") /\ dieState[w] = "exe" /\ reqStatusCheckOpt[w] = "check"
  BY <1>1, AtAsk
<1>. QED
  BY <1>1, <1>2, ListNames DEF MovesTo, PriorityLists, ReportCleared

\* A way whose request is issued waits for its status to be asked, or, for a
\* transfer, for the flag the controller sets.
LEMMA IssueMoves ==
    ASSUME IInv, IssueNandReq, NEW w, w = Head(way[at])
    PROVE  MovesTo(w, at, IF Code(w) = "transfer" THEN "statusReport" ELSE "statusCheck")
  BY AtIssue, ListNames DEF IssueNandReq, MovesTo, IssueLists, PriorityLists
-----------------------------------------------------------------------------
\* A command that is taken from the queue leaves commands.
LEMMA TakenTyped ==
    ASSUME Typed, NEW w, NEW op, Takes(w, op)
    PROVE  commands' \in Seq(Ways \X Operations) /\ Len(commands') <= QUEUE_DEPTH
<1>1. PICK i \in 1 .. Len(commands) : commands' = RemoveAtIndex(commands, i)
  BY DEF Takes
<1>2. commands \in Seq(Ways \X Operations) /\ Len(commands) \in Nat /\ Len(commands) <= QUEUE_DEPTH
  BY LenProperties DEF Typed
<1>. QED
  BY <1>1, <1>2, RemoveAtIndexProperties

\* The firmware puts a command to the queue only when there is room for it.
LEMMA IssuedTyped ==
    ASSUME Typed, ~ControllerBusy, NEW w \in Ways, NEW op \in Operations,
           commands' = Append(commands, <<w, op>>)
    PROVE  commands' \in Seq(Ways \X Operations) /\ Len(commands') <= QUEUE_DEPTH
<1>1. commands \in Seq(Ways \X Operations) /\ Len(commands) \in Nat /\ Len(commands) < QUEUE_DEPTH
  BY LenProperties DEF Typed, ControllerBusy
<1>. QED
  BY <1>1, AppendEntry

\* Every step keeps the types and every way on one list.
LEMMA NextTyped ==
    ASSUME IInv, [Next]_vars
    PROVE  Typed' /\ OnOneList'
<1>1. Typed /\ OnOneList /\ WayTyped /\ QueuesTyped
  BY DEF IInv, Typed
<1>2. /\ "idle" \in Lists /\ "statusReport" \in Lists /\ Stations = {"out", "idle", "beginReport", "report", "beginIssue"} \cup PriorityLists
      /\ way["idle"] \in Seq(Ways) /\ way["statusReport"] \in Seq(Ways)
  BY <1>1, ListNames DEF Stations, WayTyped
<1>3. ASSUME UNCHANGED way PROVE WayTyped' /\ OnOneList'
  BY <1>1, <1>3 DEF WayTyped, OnOneList, Total, On, Size
<1>4. ASSUME NEW p, NEW l PROVE After(p, l) \in Stations
  BY <1>2, FollowingIs DEF After
<1>5. CASE UNCHANGED vars
  BY <1>1, <1>3, <1>5 DEF vars, tables, pass, reports, hardware, Typed, QueuesTyped
<1>6. CASE StartPass
  BY <1>1, <1>2, <1>3, <1>6, FirstIs DEF StartPass, tables, reports, hardware, Typed, QueuesTyped
<1>7. CASE TakeIdleWay
  <2>1. PICK k \in 1 .. Size("idle") : way["idle"][k] = wayNo
    BY <1>7, AtIdle DEF TakeIdleWay
  <2>2. at' \in Stations /\ wayNo' \in Ways \cup {NONE}
    BY <1>1, <1>2, <1>7, <2>1, GoOnIs DEF TakeIdleWay
  <2>3. WayTyped' /\ OnOneList'
    BY <1>1, <1>3, <1>7, IdleQueue, MovedWays DEF TakeIdleWay
  <2>. QED
    BY <1>1, <1>7, <2>2, <2>3, IdleQueue DEF TakeIdleWay, tables, reports, hardware, Typed
<1>8. CASE StartReports
  <2>1. at' \in Stations /\ wayNo' \in Ways \cup {NONE}
    BY <1>2, <1>8, FirstIs DEF StartReports, GoOn
  <2>2. readyBusy' \subseteq Ways
    BY <1>8 DEF StartReports, Ready
  <2>. QED
    BY <1>1, <1>3, <1>8, <2>1, <2>2 DEF StartReports, tables, reports, hardware, Typed, QueuesTyped
<1>9. ASSUME at = "report", NextReport PROVE at' \in Stations /\ wayNo' \in Ways \cup {NONE}
  <2>1. PICK k \in 1 .. Size("statusReport") : way["statusReport"][k] = wayNo
    BY <1>9, AtReport
  <2>. QED
    BY <1>1, <1>2, <1>9, <2>1, GoOnIs DEF NextReport
<1>10. CASE StillRunning
  BY <1>1, <1>3, <1>9, <1>10 DEF StillRunning, tables, reports, hardware, Typed, QueuesTyped
<1>11. CASE AskAgain
  <2>1. WayTyped' /\ OnOneList'
    BY <1>1, <1>11, AgainMoves, MovedWays
  <2>. QED
    BY <1>1, <1>9, <1>11, <2>1 DEF AskAgain, reports, hardware, Typed, QueuesTyped
<1>12. CASE CommandDone
  <2>1. wayNo \in Ways
    BY <1>12, AtReport DEF CommandDone
  <2>2. WayTyped' /\ OnOneList' /\ QueuesTyped'
    BY <1>1, <1>12, <2>1, DoneQueue, MovedWays
  <2>3. CheckedOpt(wayNo) \in {"none", "check", "report", "flag"}
    BY <1>1, <2>1 DEF CheckedOpt, Typed
  <2>4. /\ retryLimit' \in [Ways -> 0 .. RETRY_LIMIT] /\ failures' \in [Ways -> Nat]
        /\ loaded' \in [Ways -> BOOLEAN]
    <3>1. CASE TriggerDone(wayNo)
      BY <1>1, <3>1 DEF TriggerDone, Typed
    <3>2. CASE RetryRead(wayNo)
      BY <1>1, <2>1, <3>2 DEF RetryRead, Retries, Typed
    <3>3. CASE RequestDone(wayNo)
      <4>1. /\ retryLimit' = [retryLimit EXCEPT ![wayNo] = RETRY_LIMIT]
            /\ failures' = [failures EXCEPT ![wayNo] = 0]
            /\ loaded' = [loaded EXCEPT ![wayNo] = FALSE]
        BY <3>3 DEF RequestDone, RetryLimitReset
      <4>2. RETRY_LIMIT \in 0 .. RETRY_LIMIT
        OBVIOUS
      <4>. QED
        BY <1>1, <4>1, <4>2 DEF Typed
    <3>. QED
      BY <1>12, <3>1, <3>2, <3>3 DEF CommandDone
  <2>5. at' \in Stations /\ wayNo' \in Ways \cup {NONE}
    BY <1>9, <1>12 DEF CommandDone
  <2>. QED
    BY <1>1, <1>12, <2>2, <2>3, <2>4, <2>5 DEF CommandDone, reports, Typed
<1>13. CASE StartIssuing
  BY <1>1, <1>2, <1>3, <1>4, <1>13 DEF StartIssuing, tables, reports, hardware, Typed, QueuesTyped
<1>14. CASE QueueFull
  BY <1>1, <1>2, <1>3, <1>14 DEF QueueFull, tables, reports, hardware, Typed, QueuesTyped
<1>15. CASE AskStatus
  <2>1. PICK w \in Ways :
              /\ MovesTo(w, "statusCheck", "statusReport")
              /\ commands' = Append(commands, <<w, "status">>)
              /\ statusReport' = [statusReport EXCEPT ![w] = "none"]
              /\ reqStatusCheckOpt' = [reqStatusCheckOpt EXCEPT ![w] = "report"]
    BY <1>15, AskMoves
  <2>2. WayTyped' /\ OnOneList'
    BY <1>1, <2>1, MovedWays
  <2>3. commands' \in Seq(Ways \X Operations) /\ Len(commands') <= QUEUE_DEPTH
    BY <1>1, <1>15, <2>1, IssuedTyped DEF AskStatus, Operations
  <2>. QED
    BY <1>1, <1>4, <1>15, <2>1, <2>2, <2>3 DEF AskStatus, Typed, QueuesTyped
<1>16. CASE NobodyToAsk
  BY <1>1, <1>3, <1>4, <1>16 DEF NobodyToAsk, tables, reports, hardware, Typed, QueuesTyped
<1>17. CASE IssueNandReq
  <2> DEFINE w == Head(way[at])
  <2>1. w \in Ways /\ Code(w) \in RequestCodes
    BY <1>17, AtIssue
  <2>2. WayTyped' /\ OnOneList'
    BY <1>1, <1>17, IssueMoves, MovedWays
  <2>3. commands' \in Seq(Ways \X Operations) /\ Len(commands') <= QUEUE_DEPTH
    BY <1>1, <1>17, <2>1, IssuedTyped DEF IssueNandReq, Operations, RequestCodes
  <2>. QED
    BY <1>1, <1>4, <1>17, <2>1, <2>2, <2>3 DEF IssueNandReq, Typed, QueuesTyped
<1>18. CASE PutToNandReqQ
  BY <1>1, <1>3, <1>18, ArrivedGrow DEF PutToNandReqQ, tables, reports, pass, hardware, Typed, QueuesTyped
<1>19. ASSUME NEW w \in Ways, Hardware(w) PROVE Typed' /\ OnOneList'
  <2>1. CASE FlashStarts(w)
    <3>1. PICK op \in {"read", "write", "erase"} : Takes(w, op) /\ flash' = [flash EXCEPT ![w] = op]
      BY <2>1 DEF FlashStarts
    <3>2. commands' \in Seq(Ways \X Operations) /\ Len(commands') <= QUEUE_DEPTH
      BY <1>1, <3>1, TakenTyped
    <3>. QED
      BY <1>1, <1>3, <2>1, <3>1, <3>2 DEF FlashStarts, tables, reports, pass, Typed, QueuesTyped
  <2>2. CASE FlashEnds(w)
    <3>1. PICK r \in {"pass", "fail"} :
             /\ result' = [result EXCEPT ![w] = r]
             /\ loaded' = [loaded EXCEPT ![w] = flash[w] = "read" /\ r = "pass"]
      BY <2>2 DEF FlashEnds
    <3>2. loaded' \in [Ways -> BOOLEAN]
      BY <1>1, <3>1 DEF Typed
    <3>. QED
      BY <1>1, <1>3, <2>2, <3>1, <3>2 DEF FlashEnds, tables, reports, pass, Typed, QueuesTyped
  <2>3. CASE ReportsStatus(w)
    BY <1>1, <1>3, <1>19, <2>3, TakenTyped DEF ReportsStatus, tables, pass, Typed, QueuesTyped
  <2>4. CASE Transfers(w)
    <3>1. commands' \in Seq(Ways \X Operations) /\ Len(commands') <= QUEUE_DEPTH
      BY <1>1, <2>4, TakenTyped DEF Transfers
    <3>2. completeFlag' \in [Ways -> {"none", "pass", "warning", "fail"}]
      BY <1>1, <2>4 DEF Transfers, Typed
    <3>. QED
      BY <1>1, <1>3, <2>4, <3>1, <3>2 DEF Transfers, tables, pass, Typed, QueuesTyped
  <2>. QED
    BY <1>19, <2>1, <2>2, <2>3, <2>4 DEF Hardware
<1>. QED
  BY <1>5, <1>6, <1>7, <1>8, <1>10, <1>11, <1>12, <1>13, <1>14, <1>15, <1>16, <1>17, <1>18, <1>19
     DEF Next, SchedulingNandReqPerCh
-----------------------------------------------------------------------------
\* The ways counted as waiting are ways of the channel.
LEMMA SizesBound ==
    ASSUME NEW f \in [Lists -> Seq(Ways)],
           Len(f["idle"]) + Len(f["statusReport"]) + Len(f["statusCheck"]) + Len(f["readTrigger"])
              + Len(f["erase"]) + Len(f["write"]) + Len(f["readTransfer"]) = USER_WAYS
    PROVE  /\ Len(f["idle"]) \in Nat /\ Len(f["statusReport"]) \in Nat
           /\ Len(f["idle"]) + Len(f["statusReport"]) <= USER_WAYS
<1> DEFINE size(l) == Len(f[l])
<1>1. \A l \in Lists : size(l) \in Nat
  BY LenProperties
<1>2. /\ size("idle") \in Nat /\ size("statusReport") \in Nat /\ size("statusCheck") \in Nat
      /\ size("readTrigger") \in Nat /\ size("erase") \in Nat /\ size("write") \in Nat
      /\ size("readTransfer") \in Nat
  BY <1>1, ListNames DEF PriorityLists
<1>3. size("idle") + size("statusReport") + size("statusCheck") + size("readTrigger")
         + size("erase") + size("write") + size("readTransfer") = USER_WAYS
  OBVIOUS
<1> HIDE DEF size
<1>4. size("idle") + size("statusReport") <= USER_WAYS
  BY <1>2, <1>3
<1>. QED
  BY <1>2, <1>4 DEF size

\* The loops of a pass look at each way of their list once and count the ways that
\* wait, although each of them may move the way it looks at to another list.
LEMMA NextPassInv ==
    ASSUME IInv, [Next]_vars
    PROVE  PassInv' /\ waitWayCnt' \in 0 .. USER_WAYS
<1>1. /\ WayTyped /\ OnOneList /\ PassInv /\ waitWayCnt \in 0 .. USER_WAYS
      /\ "idle" \in Lists /\ "statusReport" \in Lists
      /\ way["idle"] \in Seq(Ways) /\ way["statusReport"] \in Seq(Ways)
  BY ListNames DEF IInv, Typed, WayTyped
<1>2. /\ Size("idle") \in Nat /\ Size("statusReport") \in Nat /\ Size("idle") + Size("statusReport") <= USER_WAYS
      /\ Size("idle")' \in Nat /\ Size("statusReport")' \in Nat
      /\ Size("idle")' + Size("statusReport")' <= USER_WAYS
  <2>1. WayTyped' /\ Total' = USER_WAYS /\ Total = USER_WAYS
    BY <1>1, NextTyped DEF Typed, OnOneList
  <2>. QED
    BY <1>1, <2>1, SizesBound DEF WayTyped, Total, Size
<1>3. "idle" \notin PriorityLists /\ "report" \notin PriorityLists /\ "beginReport" \notin PriorityLists
      /\ "beginIssue" \notin PriorityLists /\ "out" \notin PriorityLists /\ "statusReport" \notin PriorityLists
  BY DEF PriorityLists
<1>4. ASSUME UNCHANGED <<at, wayNo, waitWayCnt, way>> PROVE PassInv' /\ waitWayCnt' \in 0 .. USER_WAYS
  BY <1>1, <1>2, <1>4 DEF PassInv, Size
\* A loop looks at position k, or is through with its list.
<1>20. ASSUME NEW k \in 1 .. Size("idle")', way'["idle"][k] = wayNo', waitWayCnt' = k - 1, at' = "idle"
       PROVE  PassInv' /\ waitWayCnt' \in 0 .. USER_WAYS
  BY <1>2, <1>3, <1>20 DEF PassInv
<1>21. ASSUME NEW k \in 1 .. Size("statusReport")', way'["statusReport"][k] = wayNo',
              waitWayCnt' = Size("idle")' + k - 1, at' = "report"
       PROVE  PassInv' /\ waitWayCnt' \in 0 .. USER_WAYS
  BY <1>2, <1>3, <1>21 DEF PassInv
<1>22. ASSUME at' = "beginReport", waitWayCnt' = Size("idle")'
       PROVE  PassInv' /\ waitWayCnt' \in 0 .. USER_WAYS
  BY <1>2, <1>3, <1>22 DEF PassInv
<1>23. ASSUME at' = "beginIssue", waitWayCnt' = Size("idle")' + Size("statusReport")'
       PROVE  PassInv' /\ waitWayCnt' \in 0 .. USER_WAYS
  BY <1>2, <1>3, <1>23 DEF PassInv
<1>5. CASE UNCHANGED vars
  BY <1>4, <1>5 DEF vars, pass
<1>6. CASE StartPass
  BY <1>2, <1>1, <1>3, <1>6, FirstIs DEF StartPass, PassInv, Size
<1>7. CASE TakeIdleWay
  <2>1. PICK k \in 1 .. Size("idle") : way["idle"][k] = wayNo /\ waitWayCnt = k - 1
    BY <1>7, AtIdle DEF TakeIdleWay
  <2>2. \/ k = Size("idle") /\ at' = "beginReport"
        \/ k + 1 \in 1 .. Size("idle") /\ at' = "idle" /\ wayNo' = way["idle"][k + 1]
    BY <1>1, <1>7, <2>1, GoOnIs DEF TakeIdleWay
  <2>3. CASE nandReqQ'[wayNo] = <<>>
    <3>1. way' = way /\ waitWayCnt' = waitWayCnt + 1
      BY <1>7, <2>3, Zenon DEF TakeIdleWay
    <3>2. Size("idle")' = Size("idle") /\ waitWayCnt' = k
      BY <1>2, <2>1, <3>1 DEF Size
    <3>3. CASE k = Size("idle") /\ at' = "beginReport"
      BY <1>22, <3>2, <3>3
    <3>4. CASE k + 1 \in 1 .. Size("idle") /\ at' = "idle" /\ wayNo' = way["idle"][k + 1]
      <4>1. waitWayCnt' = (k + 1) - 1 /\ way'["idle"][k + 1] = wayNo' /\ k + 1 \in 1 .. Size("idle")'
        BY <1>2, <2>1, <3>1, <3>2, <3>4
      <4>. QED
        BY <1>20, <3>4, <4>1
    <3>. QED
      BY <2>2, <3>3, <3>4
  <2>4. CASE nandReqQ'[wayNo] # <<>>
    <3>1. waitWayCnt' = k - 1 /\ MovesTo(wayNo, "idle", ListFor(Head(nandReqQ'[wayNo])))
      BY <1>7, <2>1, <2>4, IdleQueue DEF TakeIdleWay
    <3>2. /\ Size("idle")' = Size("idle") - 1
          /\ k + 1 \in 1 .. Size("idle") => k \in 1 .. Size("idle")' /\ way'["idle"][k] = way["idle"][k + 1]
      BY <1>1, <2>1, <3>1, MovedLengths
    <3>3. CASE k = Size("idle") /\ at' = "beginReport"
      BY <1>2, <1>22, <3>1, <3>2, <3>3
    <3>4. CASE k + 1 \in 1 .. Size("idle") /\ at' = "idle" /\ wayNo' = way["idle"][k + 1]
      BY <1>20, <3>1, <3>2, <3>4
    <3>. QED
      BY <2>2, <3>3, <3>4
  <2>. QED
    BY <2>3, <2>4
<1>8. CASE StartReports
  <2>1. way' = way /\ waitWayCnt' = Size("idle")'
    BY <1>1, <1>2, <1>8 DEF StartReports, PassInv, Size
  <2>2. CASE way["statusReport"] = <<>>
    <3>1. at' = "beginIssue" /\ Size("statusReport")' = 0
      BY <1>1, <1>8, <2>1, <2>2, FirstIs DEF StartReports, GoOn, Size
    <3>. QED
      BY <1>2, <1>23, <2>1, <3>1
  <2>3. CASE way["statusReport"] # <<>>
    <3>1. /\ at' = "report" /\ wayNo' = way'["statusReport"][1] /\ Size("statusReport")' \in Nat \ {0}
      BY <1>1, <1>8, <2>1, <2>3, FirstIs DEF StartReports, GoOn, Size
    <3>2. 1 \in 1 .. Size("statusReport")' /\ waitWayCnt' = Size("idle")' + 1 - 1
      BY <1>2, <2>1, <3>1
    <3>. QED
      BY <1>21, <3>1, <3>2
  <2>. QED
    BY <2>2, <2>3
<1>9. ASSUME at = "report", NextReport
      PROVE  /\ wayNo \in Ways
             /\ \E k \in 1 .. Size("statusReport") :
                   /\ way["statusReport"][k] = wayNo /\ waitWayCnt = Size("idle") + k - 1
                   /\ \/ k = Size("statusReport") /\ at' = "beginIssue"
                      \/ k + 1 \in 1 .. Size("statusReport") /\ at' = "report" /\ wayNo' = way["statusReport"][k + 1]
  <2>1. PICK k \in 1 .. Size("statusReport") : way["statusReport"][k] = wayNo /\ waitWayCnt = Size("idle") + k - 1
    BY <1>9, AtReport
  <2>2. \/ k = Size("statusReport") /\ at' = "beginIssue"
        \/ k + 1 \in 1 .. Size("statusReport") /\ at' = "report" /\ wayNo' = way["statusReport"][k + 1]
    BY <1>1, <1>9, <2>1, GoOnIs DEF NextReport
  <2>. QED
    BY <1>9, <2>1, <2>2, AtReport
<1>10. CASE StillRunning
  <2>1. PICK k \in 1 .. Size("statusReport") :
           /\ way["statusReport"][k] = wayNo /\ waitWayCnt = Size("idle") + k - 1
           /\ \/ k = Size("statusReport") /\ at' = "beginIssue"
              \/ k + 1 \in 1 .. Size("statusReport") /\ at' = "report" /\ wayNo' = way["statusReport"][k + 1]
    BY <1>9, <1>10 DEF StillRunning
  <2>2. way' = way /\ waitWayCnt' = waitWayCnt + 1
    BY <1>10, Zenon DEF StillRunning
  <2>3. /\ Size("idle")' = Size("idle") /\ Size("statusReport")' = Size("statusReport")
        /\ waitWayCnt' = Size("idle")' + k
    BY <1>2, <2>1, <2>2 DEF Size
  <2>4. CASE k = Size("statusReport") /\ at' = "beginIssue"
    BY <1>23, <2>3, <2>4
  <2>5. CASE k + 1 \in 1 .. Size("statusReport") /\ at' = "report" /\ wayNo' = way["statusReport"][k + 1]
    <3>1. waitWayCnt' = Size("idle")' + (k + 1) - 1 /\ k + 1 \in 1 .. Size("statusReport")'
          /\ way'["statusReport"][k + 1] = wayNo'
      BY <1>2, <2>1, <2>2, <2>3, <2>5
    <3>. QED
      BY <1>21, <2>5, <3>1
  <2>. QED
    BY <2>1, <2>4, <2>5
\* The way leaves the report list; those that wait are counted.
<1>11. ASSUME NEW n, MovesTo(wayNo, "statusReport", n), at = "report", NextReport,
              IF n = "idle" THEN waitWayCnt' = waitWayCnt + 1 ELSE waitWayCnt' = waitWayCnt
       PROVE  PassInv' /\ waitWayCnt' \in 0 .. USER_WAYS
  <2>1. PICK k \in 1 .. Size("statusReport") :
           /\ way["statusReport"][k] = wayNo /\ waitWayCnt = Size("idle") + k - 1
           /\ \/ k = Size("statusReport") /\ at' = "beginIssue"
              \/ k + 1 \in 1 .. Size("statusReport") /\ at' = "report" /\ wayNo' = way["statusReport"][k + 1]
    BY <1>9, <1>11
  <2>2. /\ Size("statusReport")' = Size("statusReport") - 1
        /\ Size(n)' = Size(n) + 1
        /\ \A l \in Lists \ {"statusReport", n} : way'[l] = way[l]
        /\ k + 1 \in 1 .. Size("statusReport") =>
              k \in 1 .. Size("statusReport")' /\ way'["statusReport"][k] = way["statusReport"][k + 1]
    <3>1. wayNo = way["statusReport"][k]
      BY <2>1
    <3>. QED
      BY <1>1, <1>11, <3>1, MovedLengths
  <2>3. waitWayCnt' = Size("idle")' + k - 1
    <3>1. CASE n = "idle"
      BY <1>1, <1>2, <1>11, <2>1, <2>2, <3>1
    <3>2. CASE n # "idle"
      <4>1. Size("idle")' = Size("idle")
        BY <1>1, <2>2, <3>2 DEF Size
      <4>2. waitWayCnt' = waitWayCnt
        BY <1>11, <3>2
      <4>. QED
        BY <2>1, <4>1, <4>2
    <3>. QED
      BY <3>1, <3>2
  <2>4. CASE k = Size("statusReport") /\ at' = "beginIssue"
    BY <1>2, <1>23, <2>2, <2>3, <2>4
  <2>5. CASE k + 1 \in 1 .. Size("statusReport") /\ at' = "report" /\ wayNo' = way["statusReport"][k + 1]
    BY <1>21, <2>2, <2>3, <2>5
  <2>. QED
    BY <2>1, <2>4, <2>5
<1>12. CASE AskAgain
  BY <1>11, <1>12, AgainMoves DEF AskAgain
<1>13. CASE CommandDone
  <2>1. wayNo \in Ways
    BY <1>13, AtReport DEF CommandDone
  <2>2. CASE nandReqQ'[wayNo] = <<>>
    BY <1>11, <1>13, <2>1, <2>2, DoneQueue DEF CommandDone
  <2>3. CASE nandReqQ'[wayNo] # <<>>
    <3> DEFINE n == ListFor(Head(nandReqQ'[wayNo]))
    <3>1. PICK w \in Ways : w = wayNo
      BY <2>1
    <3>2. Code(w)' = Head(nandReqQ'[wayNo])
      BY <3>1 DEF Code
    <3>3. Head(nandReqQ'[wayNo]) \in RequestCodes /\ MovesTo(wayNo, "statusReport", n)
      BY <1>13, <2>3, <3>1, <3>2, DoneQueue
    <3>4. n # "idle"
      BY <3>3, ListForIs DEF IssueLists, PriorityLists
    <3>5. waitWayCnt' = waitWayCnt /\ at = "report" /\ NextReport
      BY <1>13, <2>3 DEF CommandDone
    <3> HIDE DEF n
    <3>. QED
      BY <1>11, <3>3, <3>4, <3>5
  <2>. QED
    BY <2>2, <2>3
\* Part 3 looks at lists that are not empty.
<1>14. ASSUME NEW p, NEW l, at' = After(p, l), way' = l, waitWayCnt' = 0 \/ waitWayCnt' = waitWayCnt
       PROVE  PassInv' /\ waitWayCnt' \in 0 .. USER_WAYS
  <2>1. at' = "out" \/ (at' \in PriorityLists /\ way'[at'] # <<>>)
    <3>1. at' = Following(p, l) /\ way' = l
      BY <1>14 DEF After
    <3>2. \/ Following(p, l) = "out"
          \/ Following(p, l) \in PriorityLists /\ l[Following(p, l)] # <<>>
      BY FollowingIs
    <3>. QED
      BY <3>1, <3>2
  <2>. QED
    BY <1>1, <1>3, <1>14, <2>1 DEF PassInv
<1>15. CASE StartIssuing
  <2>1. CASE at' = "out"
    BY <1>3, <1>15, <2>1 DEF StartIssuing, PassInv
  <2>2. CASE at' # "out"
    BY <1>14, <1>15, <2>2 DEF StartIssuing
  <2>. QED
    BY <2>1, <2>2
<1>16. CASE QueueFull
  BY <1>1, <1>3, <1>16 DEF QueueFull, PassInv
<1>17. CASE AskStatus \/ NobodyToAsk \/ IssueNandReq
  BY <1>14, <1>17 DEF AskStatus, NobodyToAsk, IssueNandReq
<1>18. CASE PutToNandReqQ
  BY <1>4, <1>18 DEF PutToNandReqQ, pass
<1>19. ASSUME NEW w \in Ways, Hardware(w) PROVE UNCHANGED <<at, wayNo, waitWayCnt, way>>
  BY <1>19 DEF Hardware, FlashStarts, FlashEnds, ReportsStatus, Transfers, pass
<1>. QED
  BY <1>4, <1>5, <1>6, <1>7, <1>8, <1>10, <1>12, <1>13, <1>15, <1>16, <1>17, <1>18, <1>19
     DEF Next, SchedulingNandReqPerCh
-----------------------------------------------------------------------------
\* Only the end of a command takes a request off its queue.
LEMMA QueueStep ==
    ASSUME IInv, [Next]_vars, ~CommandDone
    PROVE  \A v \in Ways : Grown(nandReqQ[v], nandReqQ'[v])
<1>1. nandReqQ \in [Ways -> Seq(RequestCodes)]
  BY DEF IInv, Typed, QueuesTyped
<1>2. ASSUME UNCHANGED nandReqQ PROVE \A v \in Ways : Grown(nandReqQ[v], nandReqQ'[v])
  BY <1>1, <1>2, LenProperties DEF Grown
<1>3. CASE TakeIdleWay
  BY <1>3, IdleQueue
<1>4. CASE PutToNandReqQ
  BY <1>1, <1>4, ArrivedGrow DEF PutToNandReqQ
<1>5. CASE UNCHANGED vars
  BY <1>2, <1>5 DEF vars
<1>6. CASE StartPass \/ StartReports \/ StillRunning \/ AskAgain \/ StartIssuing \/ QueueFull \/ AskStatus
           \/ NobodyToAsk \/ IssueNandReq
  BY <1>2, <1>6, Zenon DEF StartPass, StartReports, StillRunning, AskAgain, StartIssuing, QueueFull, AskStatus, NobodyToAsk, IssueNandReq
<1>7. CASE \E w \in Ways : Hardware(w)
  BY <1>2, <1>7, Zenon DEF Hardware, FlashStarts, FlashEnds, ReportsStatus, Transfers
<1>. QED
  BY <1>3, <1>4, <1>5, <1>6, <1>7 DEF Next, SchedulingNandReqPerCh

\* The request at the head stays while its queue grows.
LEMMA CodeKept ==
    ASSUME QueuesTyped, QueuesTyped', NEW v \in Ways, Grown(nandReqQ[v], nandReqQ'[v]), nandReqQ[v] # <<>>
    PROVE  nandReqQ'[v] # <<>> /\ Code(v)' = Code(v)
<1>1. nandReqQ[v] \in Seq(RequestCodes) /\ nandReqQ'[v] \in Seq(RequestCodes)
  BY DEF QueuesTyped
<1>. QED
  BY <1>1, GrownHead DEF Code
-----------------------------------------------------------------------------
\* A step that moves way w and sets its state as list n tells it keeps ListState.
LEMMA ListStateMoved ==
    ASSUME IInv, NEW w, NEW m, NEW n, MovesTo(w, m, n), QueuesTyped',
           \A v \in Ways \ {w} : /\ dieState'[v] = dieState[v] /\ reqStatusCheckOpt'[v] = reqStatusCheckOpt[v]
                                 /\ Grown(nandReqQ[v], nandReqQ'[v]),
           n = "idle" => dieState'[w] = "idle",
           n = "statusCheck" => dieState'[w] = "exe" /\ reqStatusCheckOpt'[w] = "check",
           n = "statusReport" => dieState'[w] = "exe" /\ reqStatusCheckOpt'[w] \in {"report", "flag"},
           n \in IssueLists => dieState'[w] = "idle" /\ nandReqQ'[w] # <<>> /\ ListFor(Code(w)') = n
    PROVE  ListState'
<1>1. /\ \A l \in Lists : On(w, l)' <=> l = n
      /\ \A v \in Ways \ {w} : \A l \in Lists : On(v, l)' <=> On(v, l)
  BY MovedWays DEF IInv, Typed
<1>2. /\ "idle" \in Lists /\ "statusReport" \in Lists /\ "statusCheck" \in Lists /\ IssueLists \subseteq Lists
  BY ListNames DEF IssueLists, PriorityLists
<1> DEFINE State(v) ==
        /\ On(v, "idle")' => dieState'[v] = "idle"
        /\ On(v, "statusCheck")' => dieState'[v] = "exe" /\ reqStatusCheckOpt'[v] = "check"
        /\ On(v, "statusReport")' => dieState'[v] = "exe" /\ reqStatusCheckOpt'[v] \in {"report", "flag"}
        /\ \A l \in IssueLists : On(v, l)' =>
              dieState'[v] = "idle" /\ nandReqQ'[v] # <<>> /\ ListFor(Code(v)') = l
<1>3. State(w)
  BY <1>1, <1>2
<1>4. ASSUME NEW v \in Ways \ {w} PROVE State(v)
  <2>1. /\ On(v, "idle") => dieState[v] = "idle"
        /\ On(v, "statusCheck") => dieState[v] = "exe" /\ reqStatusCheckOpt[v] = "check"
        /\ On(v, "statusReport") => dieState[v] = "exe" /\ reqStatusCheckOpt[v] \in {"report", "flag"}
        /\ \A l \in IssueLists : On(v, l) =>
              dieState[v] = "idle" /\ nandReqQ[v] # <<>> /\ ListFor(Code(v)) = l
    BY DEF IInv, ListState
  <2>2. nandReqQ[v] # <<>> => nandReqQ'[v] # <<>> /\ Code(v)' = Code(v)
    BY CodeKept DEF IInv, Typed
  <2>. QED
    BY <1>1, <1>2, <2>1, <2>2
<1>. QED
  BY <1>3, <1>4 DEF ListState

\* The lists go on telling the states of their ways.
LEMMA NextListState ==
    ASSUME IInv, [Next]_vars
    PROVE  ListState'
<1>1. QueuesTyped /\ QueuesTyped' /\ Typed /\ "idle" \notin IssueLists /\ "statusReport" \notin IssueLists
      /\ "statusCheck" \notin IssueLists
  BY NextTyped DEF IInv, Typed, IssueLists, PriorityLists
<1>2. ASSUME UNCHANGED <<way, dieState, reqStatusCheckOpt>>, ~CommandDone PROVE ListState'
  <2>1. ASSUME NEW v \in Ways
        PROVE  /\ \A l : On(v, l)' <=> On(v, l)
               /\ nandReqQ[v] # <<>> => nandReqQ'[v] # <<>> /\ Code(v)' = Code(v)
    BY <1>1, <1>2, QueueStep, CodeKept DEF On
  <2>. QED
    BY <1>2, <2>1 DEF IInv, ListState
<1>3. CASE CommandDone
  <2>1. PICK w \in Ways : w = wayNo
    BY <1>3, AtReport DEF CommandDone
  <2>2. /\ \A v \in Ways \ {w} : Grown(nandReqQ[v], nandReqQ'[v])
        /\ nandReqQ'[w] # <<>> =>
                Code(w)' \in RequestCodes /\ MovesTo(w, "statusReport", ListFor(Code(w)'))
        /\ nandReqQ'[w] = <<>> => MovesTo(w, "statusReport", "idle")
    BY <1>3, <2>1, DoneQueue
  <2>3. /\ dieState'[w] = "idle"
        /\ \A v \in Ways \ {w} : dieState'[v] = dieState[v] /\ reqStatusCheckOpt'[v] = reqStatusCheckOpt[v]
    BY <1>1, <1>3, <2>1 DEF CommandDone, Typed
  <2>4. CASE nandReqQ'[w] = <<>>
    BY <1>1, <2>2, <2>3, <2>4, ListStateMoved
  <2>5. CASE nandReqQ'[w] # <<>>
    <3>1. PICK n : n = ListFor(Code(w)')
      OBVIOUS
    <3>2. n \in IssueLists /\ MovesTo(w, "statusReport", n)
      BY <2>2, <2>5, <3>1, ListForIs
    <3>3. n # "idle" /\ n # "statusReport" /\ n # "statusCheck"
      BY <1>1, <3>2
    <3>. QED
      BY <1>1, <2>2, <2>3, <2>5, <3>1, <3>2, <3>3, ListStateMoved
  <2>. QED
    BY <2>4, <2>5
<1> USE QueueStep
<1>4. CASE TakeIdleWay /\ ~CommandDone
  <2>1. PICK w \in Ways : w = wayNo /\ dieState[w] = "idle"
    BY <1>4, AtIdle DEF TakeIdleWay
  <2>2. UNCHANGED <<dieState, reqStatusCheckOpt>>
    BY <1>4 DEF TakeIdleWay, tables
  <2>3. CASE nandReqQ'[wayNo] = <<>>
    BY <1>2, <1>4, <2>2, <2>3, Zenon DEF TakeIdleWay
  <2>4. CASE nandReqQ'[wayNo] # <<>>
    <3>1. PICK n : n = ListFor(Code(w)')
      OBVIOUS
    <3>2. Code(w)' = Head(nandReqQ'[w])
      BY DEF Code
    <3>3. n \in IssueLists /\ MovesTo(w, "idle", n)
      BY <1>4, <2>1, <2>4, <3>1, <3>2, ListForIs, IdleQueue
    <3>4. n # "idle" /\ n # "statusReport" /\ n # "statusCheck"
      BY <1>1, <3>3
    <3>. QED
      BY <1>1, <1>4, <2>1, <2>2, <2>4, <3>1, <3>3, <3>4, ListStateMoved
  <2>. QED
    BY <2>3, <2>4
<1>5. CASE AskAgain /\ ~CommandDone
  <2>1. PICK w \in Ways : w = wayNo /\ dieState[w] = "exe"
    BY <1>5, AtReport DEF AskAgain
  <2>2. MovesTo(w, "statusReport", "statusCheck")
    BY <1>5, <2>1, AgainMoves
  <2>3. /\ dieState' = dieState /\ reqStatusCheckOpt'[w] = "check"
        /\ \A v \in Ways \ {w} : reqStatusCheckOpt'[v] = reqStatusCheckOpt[v]
    BY <1>1, <1>5, <2>1 DEF AskAgain, Typed
  <2>. QED
    BY <1>1, <1>5, <2>1, <2>2, <2>3, ListStateMoved
<1>6. CASE AskStatus /\ ~CommandDone
  <2>1. PICK w \in Ways :
           /\ MovesTo(w, "statusCheck", "statusReport") /\ dieState[w] = "exe"
           /\ reqStatusCheckOpt' = [reqStatusCheckOpt EXCEPT ![w] = "report"]
    BY <1>6, AskMoves
  <2>2. /\ dieState' = dieState /\ reqStatusCheckOpt'[w] = "report"
        /\ \A v \in Ways \ {w} : reqStatusCheckOpt'[v] = reqStatusCheckOpt[v]
    BY <1>1, <1>6, <2>1 DEF AskStatus, Typed
  <2>. QED
    BY <1>1, <1>6, <2>1, <2>2, ListStateMoved
<1>7. CASE IssueNandReq /\ ~CommandDone
  <2>1. PICK w \in Ways : w = Head(way[at])
    BY <1>7, AtIssue
  <2>2. PICK n \in {"statusReport", "statusCheck"} : n = IF Code(w) = "transfer" THEN "statusReport" ELSE "statusCheck"
    OBVIOUS
  <2>3. PICK m \in IssueLists : m = at
    BY <1>7, AtIssue
  <2>4. MovesTo(w, m, n)
    BY <1>7, <2>1, <2>2, <2>3, IssueMoves
  <2>5. /\ dieState' = [dieState EXCEPT ![w] = "exe"]
        /\ reqStatusCheckOpt' = [reqStatusCheckOpt EXCEPT ![w] = IF Code(w) = "transfer" THEN "flag" ELSE "check"]
    BY <1>7, <2>1 DEF IssueNandReq
  <2>6. /\ dieState'[w] = "exe" /\ n = "statusReport" => reqStatusCheckOpt'[w] = "flag"
        /\ n = "statusCheck" => reqStatusCheckOpt'[w] = "check" /\ dieState'[w] = "exe"
        /\ \A v \in Ways \ {w} : dieState'[v] = dieState[v] /\ reqStatusCheckOpt'[v] = reqStatusCheckOpt[v]
    BY <1>1, <2>2, <2>5 DEF Typed
  <2>7. dieState'[w] = "exe" /\ n # "idle" /\ n \notin IssueLists
    BY <1>1, <2>2, <2>5 DEF Typed
  <2>. QED
    BY <1>1, <1>7, <2>2, <2>4, <2>6, <2>7, ListStateMoved
<1>8. CASE UNCHANGED vars
  BY <1>2, <1>3, <1>8 DEF vars, tables
<1>9. CASE StartPass \/ StartReports \/ StillRunning \/ StartIssuing \/ QueueFull \/ NobodyToAsk \/ PutToNandReqQ
  BY <1>2, <1>3, <1>9 DEF StartPass, StartReports, StillRunning, StartIssuing, QueueFull, NobodyToAsk, PutToNandReqQ, tables
<1>10. CASE \E w \in Ways : Hardware(w)
  BY <1>2, <1>3, <1>10 DEF Hardware, FlashStarts, FlashEnds, ReportsStatus, Transfers, tables
<1>. QED
  BY <1>3, <1>4, <1>5, <1>6, <1>7, <1>8, <1>9, <1>10 DEF Next, SchedulingNandReqPerCh
-----------------------------------------------------------------------------
(* The controller's queue.                                                 *)

\* Every command of the queue is a way and an operation.
LEMMA CommandIs ==
    ASSUME Typed, NEW i \in 1 .. Len(commands)
    PROVE  /\ commands[i] \in Ways \X Operations
           /\ commands[i] = <<commands[i][1], commands[i][2]>>
           /\ commands[i][1] \in Ways /\ commands[i][2] \in Operations
<1>1. commands \in Seq(Ways \X Operations)
  BY DEF Typed
<1>2. commands[i] \in Ways \X Operations
  BY <1>1, ElementOfSeq
<1>. QED
  BY <1>2

\* A command that is taken is the request's or a status check of a way that executes.
LEMMA TakenCommand ==
    ASSUME IInv, NEW w \in Ways, NEW op, Takes(w, op)
    PROVE  /\ dieState[w] = "exe" /\ op \in {Code(w), "status"} /\ Pending(w, op)
           /\ op = "status" => reqStatusCheckOpt[w] = "report"
           /\ op = "transfer" => reqStatusCheckOpt[w] = "flag"
           /\ nandReqQ[w] # <<>> /\ Code(w) \in RequestCodes
<1>1. PICK i \in 1 .. Len(commands) : HeadCommand(w, i) /\ commands[i][2] = op
  BY DEF Takes
<1>2. commands[i][1] = w /\ commands[i] = <<w, op>>
  BY <1>1, CommandIs DEF HeadCommand, IInv
<1>3. /\ dieState[w] = "exe" /\ op \in {Code(w), "status"}
      /\ op = "status" => reqStatusCheckOpt[w] = "report"
      /\ op = "transfer" => reqStatusCheckOpt[w] = "flag"
  BY <1>1, <1>2 DEF IInv, CommandInv, CommandsOf
<1>4. nandReqQ[w] # <<>> /\ nandReqQ[w] \in Seq(RequestCodes)
  BY <1>3 DEF IInv, RequestInv, RequestOf, Typed, QueuesTyped
<1>. QED
  BY <1>2, <1>3, <1>4, HeadTailProperties DEF Pending, Code

\* Taking a command leaves the order of the others, and of its way at most the
\* status check behind it.
LEMMA TakenKeeps ==
    ASSUME IInv, NEW w \in Ways, NEW op, Takes(w, op)
    PROVE  /\ \A j \in 1 .. Len(commands') : \E k \in 1 .. Len(commands) : commands'[j] = commands[k]
           /\ \A j1, j2 \in 1 .. Len(commands') : j1 < j2 =>
                \E k1, k2 \in 1 .. Len(commands) :
                   k1 < k2 /\ commands'[j1] = commands[k1] /\ commands'[j2] = commands[k2]
           /\ \A j \in 1 .. Len(commands') : commands'[j][1] = w =>
                commands'[j][2] = "status" /\ op = Code(w)
           /\ \A v, o : <<v, o>> # <<w, op>> => (Pending(v, o)' <=> Pending(v, o))
<1>1. PICK i \in 1 .. Len(commands) :
          HeadCommand(w, i) /\ commands[i][2] = op /\ commands' = RemoveAtIndex(commands, i)
  BY DEF Takes
<1>2. commands[i][1] = w /\ commands[i] = <<w, op>>
  BY <1>1, CommandIs DEF HeadCommand, IInv
<1>3. commands \in Seq(Ways \X Operations) /\ Len(commands) \in Nat
  BY LenProperties DEF IInv, Typed
<1>4. /\ Len(commands') = Len(commands) - 1
      /\ \A j \in 1 .. Len(commands) - 1 : commands'[j] = IF j < i THEN commands[j] ELSE commands[j + 1]
  BY <1>1, <1>3, RemoveAtIndexProperties
<1> DEFINE old(j) == IF j < i THEN j ELSE j + 1
<1>5. \A j \in 1 .. Len(commands') :
         old(j) \in 1 .. Len(commands) /\ old(j) # i /\ commands'[j] = commands[old(j)]
  BY <1>3, <1>4
<1>6. \A j1, j2 \in 1 .. Len(commands') : j1 < j2 => old(j1) < old(j2)
  BY <1>3, <1>4
<1>7. ASSUME NEW k \in 1 .. Len(commands), k # i
      PROVE  \E j \in 1 .. Len(commands') : commands'[j] = commands[k]
  <2>1. CASE k < i
    <3>1. k \in 1 .. Len(commands') /\ commands'[k] = commands[k]
      BY <1>3, <1>4, <2>1
    <3>. QED
      BY <3>1
  <2>2. CASE k > i
    <3>1. k - 1 \in 1 .. Len(commands') /\ commands'[k - 1] = commands[k]
      BY <1>3, <1>4, <2>2
    <3>. QED
      BY <3>1
  <2>. QED
    BY <1>3, <1>7, <2>1, <2>2
<1> HIDE DEF old
<1>8. ASSUME NEW j \in 1 .. Len(commands'), commands'[j][1] = w
      PROVE  commands'[j][2] = "status" /\ op = Code(w)
  <2>1. old(j) \in 1 .. Len(commands) /\ commands[old(j)][1] = w /\ commands'[j] = commands[old(j)] /\ old(j) # i
    BY <1>5, <1>8
  <2>2. i < old(j)
    BY <1>1, <1>3, <2>1 DEF HeadCommand
  <2>. QED
    BY <1>1, <1>2, <2>1, <2>2 DEF IInv, CommandInv, CommandsOf
<1>9. ASSUME NEW v, NEW o, <<v, o>> # <<w, op>>
      PROVE  Pending(v, o)' <=> Pending(v, o)
  BY <1>2, <1>5, <1>7, <1>9 DEF Pending
<1>. QED
  BY <1>5, <1>6, <1>8, <1>9

\* A new command is behind all others.
LEMMA IssuedKeeps ==
    ASSUME Typed, NEW w \in Ways, NEW op \in Operations, commands' = Append(commands, <<w, op>>)
    PROVE  /\ Len(commands) \in Nat /\ Len(commands') = Len(commands) + 1
           /\ \A j \in 1 .. Len(commands) : commands'[j] = commands[j]
           /\ commands'[Len(commands) + 1] = <<w, op>>
           /\ \A v, o : Pending(v, o)' <=> Pending(v, o) \/ <<v, o>> = <<w, op>>
<1>1. commands \in Seq(Ways \X Operations) /\ Len(commands) \in Nat
  BY LenProperties DEF Typed
<1>2. /\ Len(commands') = Len(commands) + 1
      /\ \A j \in 1 .. Len(commands) + 1 : commands'[j] = IF j <= Len(commands) THEN commands[j] ELSE <<w, op>>
  BY <1>1, AppendEntry
<1>3. /\ \A j \in 1 .. Len(commands) : commands'[j] = commands[j]
      /\ commands'[Len(commands) + 1] = <<w, op>>
  BY <1>1, <1>2
<1>4. ASSUME NEW v, NEW o PROVE Pending(v, o)' <=> Pending(v, o) \/ <<v, o>> = <<w, op>>
  <2>1. Pending(v, o)' => Pending(v, o) \/ <<v, o>> = <<w, op>>
    <3>1. SUFFICES ASSUME NEW j \in 1 .. Len(commands'), commands'[j] = <<v, o>>
                   PROVE  Pending(v, o) \/ <<v, o>> = <<w, op>>
      BY DEF Pending
    <3>2. j \in 1 .. Len(commands) \/ j = Len(commands) + 1
      BY <1>1, <1>2
    <3>. QED
      BY <1>3, <3>1, <3>2 DEF Pending
  <2>2. Pending(v, o) \/ <<v, o>> = <<w, op>> => Pending(v, o)'
    <3>1. \A j \in 1 .. Len(commands) : j \in 1 .. Len(commands')
      BY <1>1, <1>2
    <3>2. Len(commands) + 1 \in 1 .. Len(commands')
      BY <1>1, <1>2
    <3>. QED
      BY <1>3, <3>1, <3>2 DEF Pending
  <2>. QED
    BY <2>1, <2>2
<1>. QED
  BY <1>1, <1>2, <1>3, <1>4
-----------------------------------------------------------------------------
\* What the CPU concludes from the answer it looks at.
LEMMA ReqStatusIs ==
    ASSUME Typed, NEW w \in Ways, reqStatusCheckOpt[w] \in {"report", "flag"}
    PROVE  /\ reqStatusCheckOpt[w] = "report" =>
                /\ ReqStatus(w) = "running" <=> statusReport[w] \in {"none", "busy"}
                /\ ReqStatus(w) = "done" <=> statusReport[w] = "pass"
                /\ ReqStatus(w) = "fail" <=> statusReport[w] = "fail"
                /\ ReqStatus(w) # "warning"
           /\ reqStatusCheckOpt[w] = "flag" =>
                /\ ReqStatus(w) = "running" <=> completeFlag[w] = "none"
                /\ ReqStatus(w) = "done" <=> completeFlag[w] = "pass"
                /\ ReqStatus(w) = "fail" <=> completeFlag[w] = "fail"
<1>1. statusReport[w] \in {"none", "busy", "pass", "fail"} /\ completeFlag[w] \in {"none", "pass", "warning", "fail"}
  BY DEF Typed
<1>2. CASE reqStatusCheckOpt[w] = "report"
  <2>1. ReqStatus(w) = CASE statusReport[w] \in {"none", "busy"} -> "running" [] statusReport[w] = "fail" -> "fail"
                         [] statusReport[w] = "warning" -> "warning" [] statusReport[w] = "pass" -> "done"
    BY <1>2 DEF ReqStatus
  <2>. QED
    BY <1>1, <1>2, <2>1
<1>3. CASE reqStatusCheckOpt[w] = "flag"
  <2>1. ReqStatus(w) = CASE completeFlag[w] \in {"none", "busy"} -> "running" [] completeFlag[w] = "fail" -> "fail"
                         [] completeFlag[w] = "warning" -> "warning" [] completeFlag[w] = "pass" -> "done"
    BY <1>3 DEF ReqStatus
  <2>. QED
    BY <1>1, <1>3, <2>1
<1>. QED
  BY <1>2, <1>3

\* A request whose command has an answer is through with the controller and the die.
LEMMA AnsweredRequest ==
    ASSUME IInv, at = "report", NEW w \in Ways, w = wayNo, ReqStatus(w) # "running"
    PROVE  /\ \A i \in 1 .. Len(commands) : commands[i][1] # w
           /\ flash[w] = "ready"
           /\ dieState[w] = "exe" /\ Code(w) \in RequestCodes
           /\ Code(w) = "transfer" => reqStatusCheckOpt[w] = "flag"
           /\ Code(w) # "transfer" => reqStatusCheckOpt[w] = "report" /\ statusReport[w] = result[w]
<1>1. /\ dieState[w] = "exe" /\ reqStatusCheckOpt[w] \in {"report", "flag"} /\ Code(w) \in RequestCodes
  BY AtReport
<1>2. Typed /\ CommandsOf(w) /\ FlashOf(w)
  BY DEF IInv, CommandInv, FlashInv
<1>3. CASE reqStatusCheckOpt[w] = "report"
  <2>1. statusReport[w] \in {"pass", "fail"}
    BY <1>2, <1>3, ReqStatusIs DEF Typed
  <2>2. Code(w) # "transfer" /\ ~Pending(w, "status") /\ ~Pending(w, Code(w))
    BY <1>1, <1>2, <1>3, <2>1 DEF CommandsOf
  <2>3. flash[w] = "ready" /\ statusReport[w] = result[w]
    BY <1>1, <1>2, <1>3, <2>1 DEF FlashOf
  <2>4. ASSUME NEW i \in 1 .. Len(commands), commands[i][1] = w PROVE FALSE
    <3>1. commands[i] = <<w, commands[i][2]>> /\ commands[i][2] \in {Code(w), "status"}
      BY <1>2, <2>4, CommandIs DEF CommandsOf
    <3>. QED
      BY <2>2, <3>1 DEF Pending
  <2>. QED
    BY <1>1, <1>3, <2>2, <2>3, <2>4
<1>4. CASE reqStatusCheckOpt[w] = "flag"
  <2>1. completeFlag[w] # "none"
    BY <1>2, <1>4, ReqStatusIs
  <2>2. Code(w) = "transfer" /\ ~Pending(w, "transfer")
    BY <1>1, <1>2, <1>4, <2>1 DEF CommandsOf
  <2>3. flash[w] = "ready"
    BY <1>2, <2>2 DEF FlashOf, Typed
  <2>4. ASSUME NEW i \in 1 .. Len(commands), commands[i][1] = w PROVE FALSE
    <3>1. commands[i] = <<w, commands[i][2]>> /\ commands[i][2] \in {Code(w), "status"} /\ commands[i][2] # "status"
      BY <1>2, <1>4, <2>4, CommandIs DEF CommandsOf
    <3>. QED
      BY <2>2, <3>1 DEF Pending
  <2>. QED
    BY <1>1, <1>4, <2>2, <2>3, <2>4
<1>. QED
  BY <1>1, <1>3, <1>4

\* A command ends in part 2, with an answer.
LEMMA DoneAnswered ==
    ASSUME CommandDone
    PROVE  at = "report" /\ ReqStatus(wayNo) # "running"
  BY DEF CommandDone, TriggerDone, RetryRead, Retries, RequestDone

\* The page register holds the page of a read that passed.
LEMMA TriggerLoads ==
    ASSUME IInv, at = "report", NEW w \in Ways, w = wayNo, TriggerDone(w)
    PROVE  loaded[w]
<1>1. ReqStatus(w) = "done" /\ Code(w) = "read"
  BY DEF TriggerDone
<1>2. /\ \A i \in 1 .. Len(commands) : commands[i][1] # w
      /\ flash[w] = "ready" /\ dieState[w] = "exe" /\ reqStatusCheckOpt[w] = "report" /\ statusReport[w] = result[w]
  BY <1>1, AnsweredRequest
<1>3. statusReport[w] = "pass"
  BY <1>1, <1>2, ReqStatusIs DEF IInv
<1>4. ~Pending(w, "read")
  BY <1>2 DEF Pending
<1>. QED
  BY <1>1, <1>2, <1>3, <1>4 DEF IInv, FlashInv, FlashOf
-----------------------------------------------------------------------------
\* A step that leaves way v alone: its state and its commands stay, and its queue at
\* most grows.
Untouched(v) ==
    /\ dieState'[v] = dieState[v] /\ reqStatusCheckOpt'[v] = reqStatusCheckOpt[v]
    /\ statusReport'[v] = statusReport[v] /\ completeFlag'[v] = completeFlag[v]
    /\ flash'[v] = flash[v] /\ result'[v] = result[v] /\ loaded'[v] = loaded[v]
    /\ failures'[v] = failures[v] /\ retryLimit'[v] = retryLimit[v]
    /\ Grown(nandReqQ[v], nandReqQ'[v])
    /\ \A o : Pending(v, o)' <=> Pending(v, o)

\* What RequestOf says of a way holds on when a step leaves it alone.
LEMMA UntouchedRequest ==
    ASSUME IInv, QueuesTyped', NEW v \in Ways, Untouched(v)
    PROVE  RequestOf(v)'
<1>1. RequestOf(v)
  BY DEF IInv, RequestInv, RequestOf
<1>2. nandReqQ[v] \in Seq(RequestCodes) /\ nandReqQ'[v] \in Seq(RequestCodes) /\ Grown(nandReqQ[v], nandReqQ'[v])
  BY DEF IInv, Typed, QueuesTyped, Untouched
<1>3. /\ nandReqQ[v] # <<>> => nandReqQ'[v] # <<>> /\ Code(v)' = Code(v)
      /\ nandReqQ[v] = <<>> /\ nandReqQ'[v] # <<>> => Code(v)' \in Codes
      /\ \A i \in 2 .. Len(nandReqQ'[v]) : nandReqQ'[v][i] \in Codes
  BY <1>1, <1>2, GrownHead DEF Code, RequestOf
<1>4. "transfer" \notin Codes
  OBVIOUS
<1>5. /\ dieState'[v] = dieState[v] /\ reqStatusCheckOpt'[v] = reqStatusCheckOpt[v] /\ loaded'[v] = loaded[v]
      /\ failures'[v] = failures[v] /\ retryLimit'[v] = retryLimit[v]
  BY DEF Untouched
<1>6. nandReqQ'[v] # <<>> /\ Code(v)' = "transfer" => "read" \in Codes /\ loaded'[v]
  BY <1>1, <1>3, <1>4, <1>5 DEF RequestOf
<1>7. dieState'[v] = "exe" => nandReqQ'[v] # <<>> /\ reqStatusCheckOpt'[v] # "none"
  BY <1>1, <1>3, <1>5 DEF RequestOf
<1>. QED
  BY <1>1, <1>3, <1>5, <1>6, <1>7 DEF RequestOf

\* What FlashOf says of a way holds on when a step leaves it alone.
LEMMA UntouchedFlash ==
    ASSUME IInv, QueuesTyped', NEW v \in Ways, Untouched(v)
    PROVE  FlashOf(v)'
<1>1. FlashOf(v) /\ QueuesTyped
  BY DEF IInv, FlashInv, Typed
<1>2. dieState[v] = "exe" => Code(v)' = Code(v)
  BY <1>1, CodeKept DEF IInv, RequestInv, RequestOf, Untouched
<1>. QED
  BY <1>1, <1>2 DEF FlashOf, Untouched

\* The commands of way v are some of those it had, in the same order.
OrderKept(v) ==
    /\ \A j \in 1 .. Len(commands') : commands'[j][1] = v =>
          \E k \in 1 .. Len(commands) : commands'[j] = commands[k]
    /\ \A j1, j2 \in 1 .. Len(commands') : commands'[j1][1] = v /\ commands'[j2][1] = v /\ j1 < j2 =>
          \E k1, k2 \in 1 .. Len(commands) :
             k1 < k2 /\ commands'[j1] = commands[k1] /\ commands'[j2] = commands[k2]

\* What the invariant says of the commands of a way stays true of those it keeps.
LEMMA OrderedCommands ==
    ASSUME IInv, NEW v \in Ways, OrderKept(v)
    PROVE  /\ \A j \in 1 .. Len(commands') : commands'[j][1] = v =>
                /\ dieState[v] = "exe"
                /\ commands'[j][2] \in {Code(v), "status"}
                /\ commands'[j][2] = "status" => reqStatusCheckOpt[v] = "report"
                /\ commands'[j][2] = "transfer" => reqStatusCheckOpt[v] = "flag"
           /\ \A j1, j2 \in 1 .. Len(commands') : commands'[j1][1] = v /\ commands'[j2][1] = v /\ j1 < j2 =>
                commands'[j1][2] = Code(v) /\ commands'[j2][2] = "status"
<1>1. /\ \A i, j \in 1 .. Len(commands) :
            commands[i][1] = v /\ commands[j][1] = v /\ i < j =>
               commands[i][2] = Code(v) /\ commands[j][2] = "status"
      /\ \A i \in 1 .. Len(commands) : commands[i][1] = v =>
            /\ dieState[v] = "exe"
            /\ commands[i][2] \in {Code(v), "status"}
            /\ commands[i][2] = "status" => reqStatusCheckOpt[v] = "report"
            /\ commands[i][2] = "transfer" => reqStatusCheckOpt[v] = "flag"
  BY DEF IInv, CommandInv, CommandsOf
<1>2. ASSUME NEW j \in 1 .. Len(commands'), commands'[j][1] = v
      PROVE  /\ dieState[v] = "exe"
             /\ commands'[j][2] \in {Code(v), "status"}
             /\ commands'[j][2] = "status" => reqStatusCheckOpt[v] = "report"
             /\ commands'[j][2] = "transfer" => reqStatusCheckOpt[v] = "flag"
  <2>1. PICK k \in 1 .. Len(commands) : commands'[j] = commands[k]
    BY <1>2 DEF OrderKept
  <2>. QED
    BY <1>1, <1>2, <2>1
<1>3. ASSUME NEW j1 \in 1 .. Len(commands'), NEW j2 \in 1 .. Len(commands'),
             commands'[j1][1] = v, commands'[j2][1] = v, j1 < j2
      PROVE  commands'[j1][2] = Code(v) /\ commands'[j2][2] = "status"
  <2>1. PICK k1 \in 1 .. Len(commands), k2 \in 1 .. Len(commands) :
            k1 < k2 /\ commands'[j1] = commands[k1] /\ commands'[j2] = commands[k2]
    BY <1>3 DEF OrderKept
  <2>. QED
    BY <1>1, <1>3, <2>1
<1>. QED
  BY <1>2, <1>3

\* What CommandsOf says of a way holds on when a step leaves it alone.
LEMMA UntouchedCommands ==
    ASSUME IInv, QueuesTyped', NEW v \in Ways, Untouched(v), OrderKept(v)
    PROVE  CommandsOf(v)'
<1>1. CommandsOf(v) /\ QueuesTyped
  BY DEF IInv, CommandInv, Typed
<1>2. dieState[v] = "exe" => Code(v)' = Code(v)
  BY <1>1, CodeKept DEF IInv, RequestInv, RequestOf, Untouched
<1>3. /\ \A j \in 1 .. Len(commands') : commands'[j][1] = v =>
            /\ dieState[v] = "exe"
            /\ commands'[j][2] \in {Code(v), "status"}
            /\ commands'[j][2] = "status" => reqStatusCheckOpt[v] = "report"
            /\ commands'[j][2] = "transfer" => reqStatusCheckOpt[v] = "flag"
      /\ \A j1, j2 \in 1 .. Len(commands') : commands'[j1][1] = v /\ commands'[j2][1] = v /\ j1 < j2 =>
            commands'[j1][2] = Code(v) /\ commands'[j2][2] = "status"
  BY OrderedCommands
<1>. QED
  BY <1>1, <1>2, <1>3 DEF CommandsOf, Untouched

\* What the invariant says of a way's request, commands and die.
WayInv(v) == RequestOf(v) /\ CommandsOf(v) /\ FlashOf(v)

\* A step keeps the invariant of every way it leaves alone.
LEMMA UntouchedWay ==
    ASSUME IInv, QueuesTyped', NEW v \in Ways, Untouched(v), OrderKept(v)
    PROVE  WayInv(v)'
  BY UntouchedRequest, UntouchedCommands, UntouchedFlash DEF WayInv

\* A step that issues and takes no command keeps their order.
LEMMA SameCommands ==
    ASSUME UNCHANGED commands
    PROVE  \A v : OrderKept(v) /\ \A o : Pending(v, o)' <=> Pending(v, o)
  BY DEF OrderKept, Pending

\* Taking a command keeps the order of the others.
LEMMA TakenOrder ==
    ASSUME IInv, NEW w \in Ways, NEW op, Takes(w, op)
    PROVE  \A v : OrderKept(v)
<1>1. /\ \A j \in 1 .. Len(commands') : \E k \in 1 .. Len(commands) : commands'[j] = commands[k]
      /\ \A j1, j2 \in 1 .. Len(commands') : j1 < j2 =>
            \E k1, k2 \in 1 .. Len(commands) :
               k1 < k2 /\ commands'[j1] = commands[k1] /\ commands'[j2] = commands[k2]
  BY TakenKeeps
<1>. QED
  BY <1>1 DEF OrderKept

\* The steps that only move the pass or add requests.
LEMMA QuietStep ==
    ASSUME IInv, [Next]_vars, ~CommandDone,
           UNCHANGED <<dieState, reqStatusCheckOpt, statusReport, completeFlag, flash, result, loaded,
                       failures, retryLimit, commands>>
    PROVE  \A v \in Ways : WayInv(v)'
<1>1. QueuesTyped' /\ \A v \in Ways : Grown(nandReqQ[v], nandReqQ'[v])
  BY NextTyped, QueueStep DEF Typed
<1>2. ASSUME NEW v \in Ways PROVE Untouched(v) /\ OrderKept(v)
  BY <1>1, SameCommands DEF Untouched
<1>. QED
  BY <1>1, <1>2, UntouchedWay

\* The end of a command.
LEMMA DoneStep ==
    ASSUME IInv, [Next]_vars, CommandDone
    PROVE  \A v \in Ways : WayInv(v)'
<1>1. PICK w \in Ways : w = wayNo
  BY AtReport DEF CommandDone
<1>2. Typed /\ Typed' /\ QueuesTyped'
  BY NextTyped DEF IInv, Typed
<1>3. /\ \A v \in Ways \ {w} : Grown(nandReqQ[v], nandReqQ'[v])
      /\ \A i \in 2 .. Len(nandReqQ'[w]) : nandReqQ'[w][i] \in Codes
      /\ TriggerDone(w) => nandReqQ'[w] # <<>> /\ Code(w)' = "transfer"
      /\ RetryRead(w) => nandReqQ'[w] # <<>> /\ Code(w)' = "read" /\ "read" \in Codes
      /\ RequestDone(w) /\ nandReqQ'[w] # <<>> => Code(w)' \in Codes
  BY <1>1, DoneQueue
<1>4. /\ at = "report" /\ ReqStatus(w) # "running"
      /\ TriggerDone(w) \/ RetryRead(w) \/ RequestDone(w)
      /\ UNCHANGED <<reports, commands, flash, result>>
      /\ dieState' = [dieState EXCEPT ![w] = "idle"]
      /\ reqStatusCheckOpt' = [reqStatusCheckOpt EXCEPT ![w] = CheckedOpt(w)]
  BY <1>1, DoneAnswered DEF CommandDone
<1>5. /\ \A i \in 1 .. Len(commands) : commands[i][1] # w
      /\ flash[w] = "ready"
  BY <1>1, <1>4, AnsweredRequest
<1>6. /\ dieState'[w] = "idle"
      /\ \A v \in Ways \ {w} : dieState'[v] = dieState[v] /\ reqStatusCheckOpt'[v] = reqStatusCheckOpt[v]
  BY <1>2, <1>4 DEF Typed
<1>7. /\ \A v \in Ways \ {w} : failures'[v] = failures[v] /\ retryLimit'[v] = retryLimit[v] /\ loaded'[v] = loaded[v]
      /\ failures'[w] + retryLimit'[w] = RETRY_LIMIT
      /\ TriggerDone(w) => loaded'[w] = loaded[w]
  <2>1. failures[w] + retryLimit[w] = RETRY_LIMIT
    BY DEF IInv, RequestInv, RequestOf
  <2>2. CASE TriggerDone(w)
    BY <2>1, <2>2 DEF TriggerDone
  <2>3. CASE RetryRead(w)
    <3>1. /\ retryLimit' = [retryLimit EXCEPT ![w] = @ - 1] /\ failures' = [failures EXCEPT ![w] = @ + 1]
          /\ loaded' = loaded /\ ~TriggerDone(w)
      BY <2>3 DEF RetryRead, Retries, TriggerDone
    <3>2. /\ failures'[w] = failures[w] + 1 /\ retryLimit'[w] = retryLimit[w] - 1
          /\ \A v \in Ways \ {w} : failures'[v] = failures[v] /\ retryLimit'[v] = retryLimit[v]
      BY <1>2, <3>1 DEF Typed
    <3>3. failures'[w] + retryLimit'[w] = RETRY_LIMIT
      <4>1. failures[w] \in Nat /\ retryLimit[w] \in Nat
        BY <1>2 DEF Typed
      <4>. QED
        BY <2>1, <3>2, <4>1
    <3>. QED
      BY <3>1, <3>2, <3>3
  <2>4. CASE RequestDone(w)
    <3>1. /\ retryLimit' = [retryLimit EXCEPT ![w] = RETRY_LIMIT] /\ failures' = [failures EXCEPT ![w] = 0]
          /\ loaded' = [loaded EXCEPT ![w] = FALSE] /\ ~TriggerDone(w)
      BY <2>4 DEF RequestDone, RetryLimitReset, TriggerDone
    <3>2. failures'[w] = 0 /\ retryLimit'[w] = RETRY_LIMIT
      BY <1>2, <3>1 DEF Typed
    <3>3. failures'[w] + retryLimit'[w] = RETRY_LIMIT
      BY <3>2
    <3>4. \A v \in Ways \ {w} : failures'[v] = failures[v] /\ retryLimit'[v] = retryLimit[v]
      BY <1>2, <3>1 DEF Typed
    <3>5. \A v \in Ways \ {w} : loaded'[v] = loaded[v]
      BY <1>2, <3>1 DEF Typed
    <3>. QED
      BY <3>1, <3>3, <3>4, <3>5
  <2>. QED
    BY <1>4, <2>2, <2>3, <2>4
<1>8. ASSUME NEW v \in Ways \ {w} PROVE WayInv(v)'
  <2>1. Untouched(v) /\ OrderKept(v)
    BY <1>3, <1>4, <1>6, <1>7, SameCommands DEF Untouched, reports
  <2>. QED
    BY <1>2, <2>1, UntouchedWay
<1>9. WayInv(w)'
  <2>1. nandReqQ'[w] # <<>> /\ Code(w)' = "transfer" => "read" \in Codes /\ loaded'[w]
    <3>1. CASE TriggerDone(w)
      <4>1. Code(w) = "read" /\ nandReqQ[w] # <<>>
        BY <1>1, <1>4, <3>1, AtReport DEF TriggerDone
      <4>2. loaded[w]
        BY <1>1, <1>4, <3>1, TriggerLoads
      <4>3. "read" \in Codes
        <5>1. nandReqQ[w] \in Seq(RequestCodes) /\ Head(nandReqQ[w]) \in RequestCodes
          BY <1>2, <4>1, HeadTailProperties DEF Typed, QueuesTyped
        <5>. QED
          BY <4>1, <5>1 DEF Code, RequestCodes
      <4>. QED
        BY <1>7, <3>1, <4>2, <4>3
    <3>2. CASE RetryRead(w)
      BY <1>3, <3>2
    <3>3. CASE RequestDone(w)
      BY <1>3, <3>3
    <3>. QED
      BY <1>4, <3>1, <3>2, <3>3
  <2>2. RequestOf(w)'
    BY <1>3, <1>6, <1>7, <2>1 DEF RequestOf
  <2>3. CommandsOf(w)'
    BY <1>4, <1>5, <1>6 DEF CommandsOf
  <2>4. FlashOf(w)'
    BY <1>4, <1>5, <1>6 DEF FlashOf
  <2>. QED
    BY <2>2, <2>3, <2>4 DEF WayInv
<1>. QED
  BY <1>8, <1>9

\* The report said busy: the die will be asked again.
LEMMA AgainStep ==
    ASSUME IInv, [Next]_vars, AskAgain
    PROVE  \A v \in Ways : WayInv(v)'
<1>1. PICK w \in Ways : w = wayNo /\ dieState[w] = "exe"
  BY AtReport DEF AskAgain
<1>2. Typed /\ QueuesTyped' /\ ~CommandDone
  BY NextTyped, DoneAnswered DEF IInv, Typed, AskAgain
<1>3. /\ reqStatusCheckOpt[w] = "report" /\ statusReport[w] = "busy"
      /\ reqStatusCheckOpt' = [reqStatusCheckOpt EXCEPT ![w] = "check"]
      /\ UNCHANGED <<nandReqQ, dieState, retryLimit, reports, hardware, failures>>
  BY <1>1, AgainMoves DEF AskAgain
<1>4. /\ reqStatusCheckOpt'[w] = "check"
      /\ \A v \in Ways \ {w} : reqStatusCheckOpt'[v] = reqStatusCheckOpt[v]
  BY <1>2, <1>3 DEF Typed
<1>5. /\ UNCHANGED <<nandReqQ, dieState, retryLimit, failures, completeFlag, statusReport, commands, flash, result, loaded>>
      /\ \A v : OrderKept(v) /\ \A o : Pending(v, o)' <=> Pending(v, o)
  BY <1>3, SameCommands DEF reports, hardware
<1>6. ASSUME NEW v \in Ways \ {w} PROVE WayInv(v)'
  <2>1. Grown(nandReqQ[v], nandReqQ'[v])
    BY <1>2, QueueStep
  <2>2. Untouched(v) /\ OrderKept(v)
    BY <1>4, <1>5, <2>1 DEF Untouched
  <2>. QED
    BY <1>2, <2>2, UntouchedWay
<1>7. WayInv(w)'
  <2>1. RequestOf(w) /\ CommandsOf(w) /\ FlashOf(w)
    BY DEF IInv, RequestInv, CommandInv, FlashInv
  <2>2. Code(w)' = Code(w)
    BY <1>5 DEF Code
  <2>3. RequestOf(w)'
    BY <1>4, <1>5, <2>1, <2>2 DEF RequestOf
  <2>4. ~Pending(w, "status") /\ Code(w) # "transfer"
    BY <1>1, <1>3, <2>1 DEF CommandsOf
  <2>5. \A i \in 1 .. Len(commands) : commands[i][1] = w => commands[i][2] = Code(w)
    <3>1. SUFFICES ASSUME NEW i \in 1 .. Len(commands), commands[i][1] = w, commands[i][2] # Code(w) PROVE FALSE
      OBVIOUS
    <3>2. commands[i] = <<w, "status">>
      BY <1>2, <2>1, <3>1, CommandIs DEF CommandsOf
    <3>. QED
      BY <2>4, <3>2 DEF Pending
  <2>6. CommandsOf(w)'
    <3>1. nandReqQ[w] # <<>> /\ nandReqQ[w] \in Seq(RequestCodes)
      BY <1>1, <1>2, <2>1 DEF RequestOf, Typed, QueuesTyped
    <3>2. Code(w) # "status"
      BY <3>1, HeadTailProperties DEF Code, RequestCodes
    <3>. QED
      BY <1>1, <1>4, <1>5, <2>1, <2>2, <2>4, <2>5, <3>2 DEF CommandsOf
  <2>7. FlashOf(w)'
    BY <1>4, <1>5, <2>1, <2>2 DEF FlashOf
  <2>. QED
    BY <2>3, <2>6, <2>7 DEF WayInv
<1>. QED
  BY <1>6, <1>7

\* A command of way w behind the others does not touch another way.
LEMMA IssuedOthers ==
    ASSUME Typed, NEW w \in Ways, NEW op \in Operations, commands' = Append(commands, <<w, op>>)
    PROVE  \A v \in Ways \ {w} : OrderKept(v) /\ \A o : Pending(v, o)' <=> Pending(v, o)
<1>1. /\ Len(commands) \in Nat /\ Len(commands') = Len(commands) + 1
      /\ \A j \in 1 .. Len(commands) : commands'[j] = commands[j]
      /\ commands'[Len(commands) + 1] = <<w, op>>
      /\ \A v, o : Pending(v, o)' <=> Pending(v, o) \/ <<v, o>> = <<w, op>>
  BY IssuedKeeps
<1>2. ASSUME NEW v \in Ways \ {w}, NEW j \in 1 .. Len(commands'), commands'[j][1] = v
      PROVE  j \in 1 .. Len(commands) /\ commands'[j] = commands[j]
  BY <1>1, <1>2
<1>3. ASSUME NEW v \in Ways \ {w} PROVE OrderKept(v)
  BY <1>2 DEF OrderKept
<1>. QED
  BY <1>1, <1>3

\* The status of the die of way w is asked for.
LEMMA AskStep ==
    ASSUME IInv, [Next]_vars, AskStatus
    PROVE  \A v \in Ways : WayInv(v)'
<1>1. PICK w \in Ways :
              /\ dieState[w] = "exe" /\ reqStatusCheckOpt[w] = "check"
              /\ commands' = Append(commands, <<w, "status">>)
              /\ statusReport' = [statusReport EXCEPT ![w] = "none"]
              /\ reqStatusCheckOpt' = [reqStatusCheckOpt EXCEPT ![w] = "report"]
  BY AskMoves
<1>2. Typed /\ QueuesTyped' /\ ~CommandDone
  BY NextTyped, DoneAnswered DEF IInv, Typed, AskStatus
<1>3. UNCHANGED <<nandReqQ, dieState, retryLimit, completeFlag, flash, result, loaded, failures>>
  BY DEF AskStatus
<1>4. /\ reqStatusCheckOpt'[w] = "report" /\ statusReport'[w] = "none"
      /\ \A v \in Ways \ {w} : reqStatusCheckOpt'[v] = reqStatusCheckOpt[v] /\ statusReport'[v] = statusReport[v]
  BY <1>1, <1>2 DEF Typed
<1>5. /\ Len(commands) \in Nat /\ Len(commands') = Len(commands) + 1
      /\ \A j \in 1 .. Len(commands) : commands'[j] = commands[j]
      /\ commands'[Len(commands) + 1] = <<w, "status">>
      /\ \A v, o : Pending(v, o)' <=> Pending(v, o) \/ <<v, o>> = <<w, "status">>
  BY <1>1, <1>2, IssuedKeeps DEF Operations
<1>6. ASSUME NEW v \in Ways \ {w} PROVE WayInv(v)'
  <2>1. OrderKept(v) /\ \A o : Pending(v, o)' <=> Pending(v, o)
    BY <1>1, <1>2, IssuedOthers DEF Operations
  <2>2. Grown(nandReqQ[v], nandReqQ'[v])
    BY <1>2, QueueStep
  <2>3. Untouched(v)
    BY <1>3, <1>4, <2>1, <2>2 DEF Untouched
  <2>. QED
    BY <1>2, <2>1, <2>3, UntouchedWay
<1>7. WayInv(w)'
  <2>1. RequestOf(w) /\ CommandsOf(w) /\ FlashOf(w)
    BY DEF IInv, RequestInv, CommandInv, FlashInv
  <2>2. Code(w)' = Code(w)
    BY <1>3 DEF Code
  <2>3. RequestOf(w)'
    BY <1>3, <1>4, <2>1, <2>2 DEF RequestOf
  <2>4. nandReqQ[w] # <<>> /\ nandReqQ[w] \in Seq(RequestCodes)
    BY <1>1, <1>2, <2>1 DEF RequestOf, Typed, QueuesTyped
  <2>5. Code(w) \in RequestCodes /\ Code(w) # "status" /\ Code(w) # "transfer"
    BY <1>1, <2>1, <2>4, HeadTailProperties DEF Code, RequestCodes, CommandsOf
  <2>6. \A i \in 1 .. Len(commands) : commands[i][1] = w => commands[i][2] = Code(w)
    BY <1>1, <2>1 DEF CommandsOf
  <2>7. /\ Pending(w, "status")'
        /\ \A o : o # "status" => (Pending(w, o)' <=> Pending(w, o))
    BY <1>5
  <2>8. ASSUME NEW j \in 1 .. Len(commands'), commands'[j][1] = w
        PROVE  commands'[j][2] = IF j <= Len(commands) THEN Code(w) ELSE "status"
    BY <1>5, <2>6, <2>8
  <2>9. CommandsOf(w)'
    <3>1. ASSUME NEW i \in 1 .. Len(commands'), NEW j \in 1 .. Len(commands'),
                 commands'[i][1] = w, commands'[j][1] = w, i < j
          PROVE  commands'[i][2] = Code(w) /\ commands'[j][2] = "status"
      <4>1. i <= Len(commands)
        BY <1>5, <3>1
      <4>2. ~(j <= Len(commands))
        BY <1>1, <1>5, <2>1, <2>5, <2>6, <3>1 DEF CommandsOf
      <4>. QED
        BY <2>8, <3>1, <4>1, <4>2
    <3>2. \A j \in 1 .. Len(commands') : commands'[j][1] = w =>
             commands'[j][2] \in {Code(w), "status"} /\ commands'[j][2] # "transfer"
      BY <2>5, <2>8
    <3>3. dieState'[w] = "exe"
      BY <1>1, <1>3
    <3>. QED
      BY <1>4, <2>2, <2>5, <2>7, <3>1, <3>2, <3>3 DEF CommandsOf
  <2>10. FlashOf(w)'
    BY <1>3, <1>4, <2>1, <2>2, <2>5, <2>7 DEF FlashOf
  <2>. QED
    BY <2>3, <2>9, <2>10 DEF WayInv
<1>. QED
  BY <1>6, <1>7

\* The command of an idle way is issued.
LEMMA IssueStep ==
    ASSUME IInv, [Next]_vars, IssueNandReq
    PROVE  \A v \in Ways : WayInv(v)'
<1>1. PICK w \in Ways : w = Head(way[at])
  BY AtIssue
<1>2. Typed /\ QueuesTyped' /\ ~CommandDone
  BY NextTyped, DoneAnswered, AtIssue DEF IInv, Typed, IssueLists, PriorityLists
<1>3. dieState[w] = "idle" /\ nandReqQ[w] # <<>> /\ Code(w) \in RequestCodes
  BY <1>1, AtIssue
<1>4. /\ commands' = Append(commands, <<w, Code(w)>>)
      /\ reqStatusCheckOpt' = [reqStatusCheckOpt EXCEPT ![w] = IF Code(w) = "transfer" THEN "flag" ELSE "check"]
      /\ completeFlag' = [completeFlag EXCEPT ![w] = IF Code(w) = "transfer" THEN "none" ELSE @]
      /\ dieState' = [dieState EXCEPT ![w] = "exe"]
      /\ UNCHANGED <<nandReqQ, retryLimit, statusReport, flash, result, loaded, failures>>
  BY <1>1 DEF IssueNandReq
<1>5. Code(w) \in Operations /\ Code(w) # "status"
  BY <1>3 DEF RequestCodes, Operations
<1>6. /\ reqStatusCheckOpt'[w] = IF Code(w) = "transfer" THEN "flag" ELSE "check"
      /\ Code(w) = "transfer" => completeFlag'[w] = "none"
      /\ dieState'[w] = "exe"
      /\ \A v \in Ways \ {w} : /\ reqStatusCheckOpt'[v] = reqStatusCheckOpt[v] /\ completeFlag'[v] = completeFlag[v]
                               /\ dieState'[v] = dieState[v]
  BY <1>2, <1>4 DEF Typed
<1>7. /\ Len(commands) \in Nat /\ Len(commands') = Len(commands) + 1
      /\ \A j \in 1 .. Len(commands) : commands'[j] = commands[j]
      /\ commands'[Len(commands) + 1] = <<w, Code(w)>>
      /\ \A v, o : Pending(v, o)' <=> Pending(v, o) \/ <<v, o>> = <<w, Code(w)>>
  BY <1>2, <1>4, <1>5, IssuedKeeps
<1>8. ASSUME NEW v \in Ways \ {w} PROVE WayInv(v)'
  <2>1. OrderKept(v) /\ \A o : Pending(v, o)' <=> Pending(v, o)
    BY <1>2, <1>4, <1>5, IssuedOthers
  <2>2. Grown(nandReqQ[v], nandReqQ'[v])
    BY <1>2, QueueStep
  <2>3. Untouched(v)
    BY <1>4, <1>6, <2>1, <2>2 DEF Untouched
  <2>. QED
    BY <1>2, <2>1, <2>3, UntouchedWay
<1>9. WayInv(w)'
  <2>1. RequestOf(w) /\ CommandsOf(w) /\ FlashOf(w)
    BY DEF IInv, RequestInv, CommandInv, FlashInv
  <2>2. Code(w)' = Code(w)
    BY <1>4 DEF Code
  <2>3. RequestOf(w)'
    BY <1>3, <1>4, <1>6, <2>1, <2>2 DEF RequestOf
  <2>4. \A i \in 1 .. Len(commands) : commands[i][1] # w
    BY <1>3, <2>1 DEF CommandsOf
  <2>5. \A j \in 1 .. Len(commands') : commands'[j][1] = w => j = Len(commands) + 1 /\ commands'[j][2] = Code(w)
    BY <1>7, <2>4
  <2>6. Pending(w, Code(w))'
    <3>1. Len(commands) + 1 \in 1 .. Len(commands')
      BY <1>7
    <3>. QED
      BY <1>7, <2>2, <3>1 DEF Pending
  <2>7. CommandsOf(w)'
    BY <1>5, <1>6, <1>7, <2>2, <2>5, <2>6 DEF CommandsOf
  <2>8. flash'[w] = "ready"
    BY <1>3, <1>4, <2>1 DEF FlashOf
  <2>9. FlashOf(w)'
    BY <1>6, <2>2, <2>6, <2>8 DEF FlashOf
  <2>. QED
    BY <2>3, <2>7, <2>9 DEF WayInv
<1>. QED
  BY <1>8, <1>9

\* A die takes the command of its way.
LEMMA StartsStep ==
    ASSUME IInv, [Next]_vars, NEW w \in Ways, FlashStarts(w), ~CommandDone
    PROVE  \A v \in Ways : WayInv(v)'
<1>1. PICK op \in {"read", "write", "erase"} : Takes(w, op) /\ flash' = [flash EXCEPT ![w] = op]
  BY DEF FlashStarts
<1>2. Typed /\ QueuesTyped'
  BY NextTyped DEF IInv, Typed
<1>3. /\ loaded' = [loaded EXCEPT ![w] = FALSE] /\ result' = [result EXCEPT ![w] = "pass"]
      /\ UNCHANGED <<nandReqQ, dieState, reqStatusCheckOpt, retryLimit, completeFlag, statusReport, failures>>
      /\ flash[w] = "ready"
  BY DEF FlashStarts, tables, reports
<1>4. /\ flash'[w] = op
      /\ \A v \in Ways \ {w} : flash'[v] = flash[v] /\ result'[v] = result[v]
  BY <1>1, <1>2, <1>3 DEF Typed
<1>5. \A v \in Ways \ {w} : loaded'[v] = loaded[v]
  BY <1>2, <1>3 DEF Typed
<1>6. /\ dieState[w] = "exe" /\ op = Code(w) /\ Pending(w, op) /\ op # "status"
      /\ nandReqQ[w] # <<>>
  BY <1>1, TakenCommand
<1>7. /\ \A j \in 1 .. Len(commands') : commands'[j][1] = w => commands'[j][2] = "status"
      /\ \A v, o : <<v, o>> # <<w, op>> => (Pending(v, o)' <=> Pending(v, o))
      /\ \A v : OrderKept(v)
  BY <1>1, TakenKeeps, TakenOrder
<1>8. ASSUME NEW v \in Ways \ {w} PROVE WayInv(v)'
  <2>1. Grown(nandReqQ[v], nandReqQ'[v])
    BY <1>2, QueueStep
  <2>2. \A o : Pending(v, o)' <=> Pending(v, o)
    BY <1>7
  <2>3. Untouched(v)
    BY <1>3, <1>4, <1>5, <2>1, <2>2 DEF Untouched
  <2>. QED
    BY <1>2, <1>7, <2>3, UntouchedWay
<1>9. WayInv(w)'
  <2>1. RequestOf(w) /\ CommandsOf(w) /\ FlashOf(w)
    BY DEF IInv, RequestInv, CommandInv, FlashInv
  <2>2. Code(w)' = Code(w) /\ Code(w) # "transfer" /\ Code(w) # "status"
    BY <1>3, <1>6 DEF Code
  <2>3. RequestOf(w)'
    BY <1>3, <2>1, <2>2 DEF RequestOf
  <2>4. ~Pending(w, Code(w))'
    <3>1. SUFFICES ASSUME NEW j \in 1 .. Len(commands'), commands'[j] = <<w, Code(w)>> PROVE FALSE
      BY <2>2 DEF Pending
    <3>. QED
      BY <1>7, <2>2, <3>1
  <2>5. /\ \A j \in 1 .. Len(commands') : commands'[j][1] = w =>
              /\ dieState[w] = "exe"
              /\ commands'[j][2] \in {Code(w), "status"}
              /\ commands'[j][2] = "status" => reqStatusCheckOpt[w] = "report"
              /\ commands'[j][2] = "transfer" => reqStatusCheckOpt[w] = "flag"
        /\ \A j1, j2 \in 1 .. Len(commands') : commands'[j1][1] = w /\ commands'[j2][1] = w /\ j1 < j2 =>
              commands'[j1][2] = Code(w) /\ commands'[j2][2] = "status"
    BY <1>7, OrderedCommands
  <2>6. Pending(w, "status")' <=> Pending(w, "status")
    BY <1>6, <1>7
  <2>7. reqStatusCheckOpt[w] # "flag"
    BY <1>6, <2>1, <2>2 DEF CommandsOf
  <2>8. CommandsOf(w)'
    BY <1>3, <2>1, <2>2, <2>4, <2>5, <2>6, <2>7 DEF CommandsOf
  <2>9. reqStatusCheckOpt[w] = "report" => statusReport[w] = "none"
    BY <1>6, <2>1 DEF CommandsOf
  <2>10. FlashOf(w)'
    BY <1>3, <1>4, <1>6, <2>2, <2>4, <2>9 DEF FlashOf
  <2>. QED
    BY <2>3, <2>8, <2>10 DEF WayInv
<1>. QED
  BY <1>8, <1>9

\* An operation of a die ends.
LEMMA EndsStep ==
    ASSUME IInv, [Next]_vars, NEW w \in Ways, FlashEnds(w), ~CommandDone
    PROVE  \A v \in Ways : WayInv(v)'
<1>1. PICK r \in {"pass", "fail"} :
          /\ result' = [result EXCEPT ![w] = r]
          /\ loaded' = [loaded EXCEPT ![w] = flash[w] = "read" /\ r = "pass"]
  BY DEF FlashEnds
<1>2. Typed /\ QueuesTyped'
  BY NextTyped DEF IInv, Typed
<1>3. /\ flash' = [flash EXCEPT ![w] = "ready"] /\ flash[w] # "ready"
      /\ UNCHANGED <<nandReqQ, dieState, reqStatusCheckOpt, retryLimit, completeFlag, statusReport, failures, commands>>
  BY DEF FlashEnds, tables, reports
<1>4. /\ flash'[w] = "ready" /\ result'[w] = r
      /\ \A v \in Ways \ {w} : flash'[v] = flash[v] /\ result'[v] = result[v]
  BY <1>1, <1>2, <1>3 DEF Typed
<1>5. /\ loaded'[w] <=> flash[w] = "read" /\ r = "pass"
      /\ \A v \in Ways \ {w} : loaded'[v] = loaded[v]
  BY <1>1, <1>2 DEF Typed
<1>6. \A v : OrderKept(v) /\ \A o : Pending(v, o)' <=> Pending(v, o)
  BY <1>3, SameCommands
<1>7. ASSUME NEW v \in Ways \ {w} PROVE WayInv(v)'
  <2>1. Grown(nandReqQ[v], nandReqQ'[v])
    BY <1>2, QueueStep
  <2>2. Untouched(v)
    BY <1>3, <1>4, <1>5, <1>6, <2>1 DEF Untouched
  <2>. QED
    BY <1>2, <1>6, <2>2, UntouchedWay
<1>8. WayInv(w)'
  <2>1. RequestOf(w) /\ CommandsOf(w) /\ FlashOf(w)
    BY DEF IInv, RequestInv, CommandInv, FlashInv
  <2>2. dieState[w] = "exe" /\ flash[w] = Code(w) /\ Code(w) # "transfer" /\ Code(w)' = Code(w)
    BY <1>2, <1>3, <2>1 DEF FlashOf, Code, Typed
  <2>3. RequestOf(w)'
    BY <1>3, <2>1, <2>2 DEF RequestOf
  <2>4. CommandsOf(w)'
    BY <1>3, <1>6, <2>1, <2>2 DEF CommandsOf
  <2>5. reqStatusCheckOpt[w] = "report" => statusReport[w] \notin {"pass", "fail"}
    BY <1>3, <2>1, <2>2 DEF FlashOf
  <2>6. FlashOf(w)'
    BY <1>3, <1>4, <1>5, <2>2, <2>5 DEF FlashOf
  <2>. QED
    BY <2>3, <2>4, <2>6 DEF WayInv
<1>. QED
  BY <1>7, <1>8

\* The controller answers a status check.
LEMMA ReportsStep ==
    ASSUME IInv, [Next]_vars, NEW w \in Ways, ReportsStatus(w), ~CommandDone
    PROVE  \A v \in Ways : WayInv(v)'
<1>1. Takes(w, "status")
  BY DEF ReportsStatus
<1>2. Typed /\ QueuesTyped'
  BY NextTyped DEF IInv, Typed
<1>3. /\ statusReport' = [statusReport EXCEPT ![w] = IF flash[w] = "ready" THEN result[w] ELSE "busy"]
      /\ UNCHANGED <<nandReqQ, dieState, reqStatusCheckOpt, retryLimit, completeFlag, flash, result, loaded, failures>>
  BY DEF ReportsStatus, tables
<1>4. /\ statusReport'[w] = IF flash[w] = "ready" THEN result[w] ELSE "busy"
      /\ statusReport'[w] # "none"
      /\ \A v \in Ways \ {w} : statusReport'[v] = statusReport[v]
  BY <1>2, <1>3 DEF Typed
<1>5. /\ dieState[w] = "exe" /\ reqStatusCheckOpt[w] = "report" /\ Code(w) \in RequestCodes /\ Code(w) # "status"
  BY <1>1, TakenCommand DEF RequestCodes
<1>6. /\ \A j \in 1 .. Len(commands') : commands'[j][1] # w
      /\ \A v, o : <<v, o>> # <<w, "status">> => (Pending(v, o)' <=> Pending(v, o))
      /\ \A v : OrderKept(v)
  BY <1>1, <1>5, TakenKeeps, TakenOrder
<1>7. ASSUME NEW v \in Ways \ {w} PROVE WayInv(v)'
  <2>1. Grown(nandReqQ[v], nandReqQ'[v])
    BY <1>2, QueueStep
  <2>2. \A o : Pending(v, o)' <=> Pending(v, o)
    BY <1>6
  <2>3. Untouched(v)
    BY <1>3, <1>4, <2>1, <2>2 DEF Untouched
  <2>. QED
    BY <1>2, <1>6, <2>3, UntouchedWay
<1>8. WayInv(w)'
  <2>1. RequestOf(w) /\ CommandsOf(w) /\ FlashOf(w)
    BY DEF IInv, RequestInv, CommandInv, FlashInv
  <2>2. Code(w)' = Code(w)
    BY <1>3 DEF Code
  <2>3. RequestOf(w)'
    BY <1>3, <2>1, <2>2 DEF RequestOf
  <2>4. \A o : ~Pending(w, o)'
    BY <1>6 DEF Pending
  <2>5. CommandsOf(w)'
    <3>1. ~Pending(w, Code(w))'
      BY <1>6, <2>2 DEF Pending
    <3>2. Code(w) # "transfer"
      BY <1>5, <2>1 DEF CommandsOf
    <3>. QED
      BY <1>3, <1>4, <1>5, <1>6, <2>2, <2>4, <3>1, <3>2 DEF CommandsOf
  <2>6. ~Pending(w, Code(w))'
    BY <1>6, <2>2 DEF Pending
  <2>7. ~Pending(w, "read")' => ~Pending(w, "read")
    BY <1>6
  <2>8. FlashOf(w)'
    BY <1>3, <1>4, <1>5, <2>1, <2>2, <2>6, <2>7 DEF FlashOf
  <2>. QED
    BY <2>3, <2>5, <2>8 DEF WayInv
<1>. QED
  BY <1>7, <1>8

\* The controller transfers a page.
LEMMA TransfersStep ==
    ASSUME IInv, [Next]_vars, NEW w \in Ways, Transfers(w), ~CommandDone
    PROVE  \A v \in Ways : WayInv(v)'
<1>1. PICK ecc \in {"pass", "warning", "fail"} : completeFlag' = [completeFlag EXCEPT ![w] = ecc]
  BY DEF Transfers
<1>2. Typed /\ QueuesTyped'
  BY NextTyped DEF IInv, Typed
<1>3. /\ Takes(w, "transfer") /\ flash[w] = "ready"
      /\ UNCHANGED <<nandReqQ, dieState, reqStatusCheckOpt, retryLimit, statusReport, flash, result, loaded, failures>>
  BY DEF Transfers, tables
<1>4. /\ completeFlag'[w] # "none"
      /\ \A v \in Ways \ {w} : completeFlag'[v] = completeFlag[v]
  BY <1>1, <1>2 DEF Typed
<1>5. dieState[w] = "exe" /\ reqStatusCheckOpt[w] = "flag" /\ Code(w) = "transfer"
  BY <1>3, TakenCommand
<1>6. /\ \A v, o : <<v, o>> # <<w, "transfer">> => (Pending(v, o)' <=> Pending(v, o))
      /\ \A v : OrderKept(v)
  BY <1>3, TakenKeeps, TakenOrder
<1>7. \A j \in 1 .. Len(commands') : commands'[j][1] # w
  <2>1. SUFFICES ASSUME NEW j \in 1 .. Len(commands'), commands'[j][1] = w PROVE FALSE
    OBVIOUS
  <2>2. commands'[j][2] = "status"
    BY <1>3, <2>1, TakenKeeps
  <2>3. OrderKept(w)
    BY <1>6
  <2>. QED
    BY <1>5, <2>1, <2>2, <2>3, OrderedCommands
<1>8. ASSUME NEW v \in Ways \ {w} PROVE WayInv(v)'
  <2>1. Grown(nandReqQ[v], nandReqQ'[v])
    BY <1>2, QueueStep
  <2>2. \A o : Pending(v, o)' <=> Pending(v, o)
    BY <1>6
  <2>3. Untouched(v)
    BY <1>3, <1>4, <2>1, <2>2 DEF Untouched
  <2>. QED
    BY <1>2, <1>6, <2>3, UntouchedWay
<1>9. WayInv(w)'
  <2>1. RequestOf(w) /\ CommandsOf(w) /\ FlashOf(w)
    BY DEF IInv, RequestInv, CommandInv, FlashInv
  <2>2. Code(w)' = Code(w)
    BY <1>3 DEF Code
  <2>3. RequestOf(w)'
    BY <1>3, <2>1, <2>2 DEF RequestOf
  <2>4. \A o : ~Pending(w, o)'
    BY <1>7 DEF Pending
  <2>5. CommandsOf(w)'
    BY <1>3, <1>4, <1>5, <1>7, <2>2, <2>4 DEF CommandsOf
  <2>6. FlashOf(w)'
    BY <1>3, <1>5, <2>2 DEF FlashOf
  <2>. QED
    BY <2>3, <2>5, <2>6 DEF WayInv
<1>. QED
  BY <1>8, <1>9
-----------------------------------------------------------------------------
(* The invariant and what follows from it.                                 *)

\* Every step keeps the invariant.
LEMMA NextIInv ==
    ASSUME IInv, [Next]_vars
    PROVE  IInv'
<1>1. Typed' /\ OnOneList' /\ ListState' /\ PassInv' /\ (waitWayCnt \in 0 .. USER_WAYS)'
  BY NextTyped, NextListState, NextPassInv
<1>2. \A v \in Ways : WayInv(v)'
  <2>1. CASE CommandDone
    BY <2>1, DoneStep
  <2>2. CASE ~CommandDone
    <3> USE <2>2
    <3>1. CASE UNCHANGED vars
      BY <3>1, QuietStep DEF vars, tables, reports, hardware
    <3>2. CASE StartPass
      BY <3>2, QuietStep DEF StartPass, tables, reports, hardware
    <3>3. CASE TakeIdleWay
      BY <3>3, QuietStep DEF TakeIdleWay, tables, reports, hardware
    <3>4. CASE StartReports
      BY <3>4, QuietStep DEF StartReports, tables, reports, hardware
    <3>5. CASE StillRunning
      BY <3>5, QuietStep DEF StillRunning, tables, reports, hardware
    <3>6. CASE StartIssuing
      BY <3>6, QuietStep DEF StartIssuing, tables, reports, hardware
    <3>7. CASE QueueFull
      BY <3>7, QuietStep DEF QueueFull, tables, reports, hardware
    <3>8. CASE NobodyToAsk
      BY <3>8, QuietStep DEF NobodyToAsk, tables, reports, hardware
    <3>9. CASE PutToNandReqQ
      BY <3>9, QuietStep DEF PutToNandReqQ, tables, reports, hardware
    <3>10. CASE AskAgain
      BY <3>10, AgainStep
    <3>11. CASE AskStatus
      BY <3>11, AskStep
    <3>12. CASE IssueNandReq
      BY <3>12, IssueStep
    <3>13. ASSUME NEW w \in Ways, Hardware(w) PROVE \A v \in Ways : WayInv(v)'
      BY <3>13, StartsStep, EndsStep, ReportsStep, TransfersStep DEF Hardware
    <3>. QED
      BY <3>1, <3>2, <3>3, <3>4, <3>5, <3>6, <3>7, <3>8, <3>9, <3>10, <3>11, <3>12, <3>13
         DEF Next, SchedulingNandReqPerCh
  <2>. QED
    BY <2>1, <2>2
<1>3. RequestInv' /\ CommandInv' /\ FlashInv'
  BY <1>2 DEF WayInv, RequestInv, CommandInv, FlashInv
<1>. QED
  BY <1>1, <1>3 DEF IInv

\* The inductive invariant holds for every number of ways, depth of the command
\* queue, limit of retries and set of request codes.
THEOREM Invariance == Spec => []IInv
<1>1. Init => IInv
  BY InitIInv
<1>2. IInv /\ [Next]_vars => IInv'
  BY NextIInv
<1>. QED
  BY <1>1, <1>2, PTL DEF Spec

\* The tables, the pass and the command queue keep their types: in particular the
\* pass counts at most USER_WAYS waiting ways, and the queue never holds more than
\* QUEUE_DEPTH commands, as the firmware only asks before it issues.
THEOREM TypeCorrect == Spec => []TypeOK
<1>1. IInv => TypeOK
  BY IInvTypes DEF IInv
<1>. QED
  BY <1>1, Invariance, PTL

\* The seven linked lists of ways tell the truth: SelectiveGetFrom... and PutTo... of
\* request_schedule.c never leave a way on two lists or on none, or on one that
\* contradicts the state ExecuteNandReq set.
THEOREM ListsCorrect == Spec => []ListsTellState
<1>1. ASSUME IInv PROVE ListsTellState
  <2>1. at = "beginIssue" => waitWayCnt = Len(way["idle"]) + Len(way["statusReport"])
    BY <1>1 DEF IInv, PassInv, Size
  <2>2. \A n \in Lists : \A i, j \in 1 .. Len(way[n]) : way[n][i] = way[n][j] => i = j
    BY <1>1 DEF IInv, OnOneList, Distinct
  <2>3. ASSUME NEW w \in Ways
        PROVE  \E n \in Lists :
                  /\ On(w, n)
                  /\ \A m \in Lists \ {n} : ~On(w, m)
                  /\ CASE n = "idle"         -> dieState[w] = "idle"
                       [] n = "statusCheck"  -> dieState[w] = "exe" /\ reqStatusCheckOpt[w] = "check"
                       [] n = "statusReport" -> dieState[w] = "exe" /\ reqStatusCheckOpt[w] \in {"report", "flag"}
                       [] OTHER -> dieState[w] = "idle" /\ nandReqQ[w] # <<>> /\ ListFor(Code(w)) = n
    <3>1. PICK n \in Lists : \A m \in Lists : On(w, m) <=> m = n
      BY <1>1 DEF IInv, OnOneList
    <3>2. On(w, n) /\ \A m \in Lists \ {n} : ~On(w, m)
      BY <3>1
    <3>3. n \in {"idle", "statusCheck", "statusReport"} \cup IssueLists
      BY ListNames DEF IssueLists
    <3>4. /\ n = "idle" => dieState[w] = "idle"
          /\ n = "statusCheck" => dieState[w] = "exe" /\ reqStatusCheckOpt[w] = "check"
          /\ n = "statusReport" => dieState[w] = "exe" /\ reqStatusCheckOpt[w] \in {"report", "flag"}
          /\ n \in IssueLists => dieState[w] = "idle" /\ nandReqQ[w] # <<>> /\ ListFor(Code(w)) = n
      BY <1>1, <3>2 DEF IInv, ListState
    <3>. QED
      BY <3>2, <3>3, <3>4
  <2>. QED
    BY <2>1, <2>2, <2>3 DEF ListsTellState
<1>. QED
  BY <1>1, Invariance, PTL

\* ExecuteNandReq never takes the report of an earlier operation for that of the
\* request at the head.
THEOREM ReportsCorrect == Spec => []ReportIsCurrent
<1>1. ASSUME IInv PROVE ReportIsCurrent
  <2>1. ASSUME NEW w \in Ways, reqStatusCheckOpt[w] = "report", dieState[w] = "exe"
        PROVE  /\ statusReport[w] = "none" <=> Pending(w, "status")
               /\ statusReport[w] \in {"pass", "fail"} =>
                     statusReport[w] = result[w] /\ flash[w] = "ready" /\ ~Pending(w, Code(w))
    <3>1. CommandsOf(w) /\ FlashOf(w)
      BY <1>1 DEF IInv, CommandInv, FlashInv
    <3>. QED
      BY <2>1, <3>1 DEF CommandsOf, FlashOf
  <2>. QED
    BY <2>1 DEF ReportIsCurrent
<1>. QED
  BY <1>1, Invariance, PTL

\* A READ_TRANSFER always moves the page of its own READ_TRIGGER, whatever the other
\* ways and the pass did in between.
THEOREM TransfersCorrect == Spec => []TransfersOwnPage
<1>1. ASSUME IInv PROVE TransfersOwnPage
  <2>1. SUFFICES ASSUME NEW w \in Ways, Pending(w, "transfer") PROVE loaded[w] /\ flash[w] = "ready"
    BY DEF TransfersOwnPage
  <2>2. CommandsOf(w) /\ FlashOf(w) /\ RequestOf(w) /\ Typed
    BY <1>1 DEF IInv, CommandInv, FlashInv, RequestInv
  <2>3. PICK i \in 1 .. Len(commands) : commands[i] = <<w, "transfer">>
    BY <2>1 DEF Pending
  <2>4. dieState[w] = "exe" /\ Code(w) = "transfer"
    BY <2>2, <2>3 DEF CommandsOf
  <2>. QED
    BY <2>2, <2>4 DEF FlashOf, RequestOf, Typed
<1>. QED
  BY <1>1, Invariance, PTL

\* A request leaves its queue only when the die and the controller are through with
\* it, and a read that failed only when its retries were spent.
THEOREM DoneCorrect == Spec => DoneWhenExecuted
<1>1. ASSUME IInv, [Next]_vars, NEW w \in Ways, Done(w)
      PROVE  /\ flash[w] = "ready" /\ \A i \in 1 .. Len(commands) : commands[i][1] # w
             /\ Code(w) = "read" => failures[w] = RETRY_LIMIT
             /\ Code(w) = "transfer" /\ completeFlag[w] = "fail" => failures[w] = RETRY_LIMIT
  <2>1. Typed /\ dieState[w] = "exe" /\ dieState'[w] = "idle"
    BY <1>1 DEF IInv, Done
  <2>2. CommandDone /\ w = wayNo
    <3>1. ASSUME IssueNandReq PROVE FALSE
      <4>1. dieState' = [dieState EXCEPT ![Head(way[at])] = "exe"]
        BY <3>1 DEF IssueNandReq
      <4>. QED
        BY <2>1, <4>1 DEF Typed
    <3>2. CommandDone
      BY <1>1, <2>1, <3>1 DEF Next, SchedulingNandReqPerCh, vars, tables, StartPass, TakeIdleWay, StartReports,
         StillRunning, AskAgain, StartIssuing, QueueFull, AskStatus, NobodyToAsk, PutToNandReqQ, Hardware,
         FlashStarts, FlashEnds, ReportsStatus, Transfers
    <3>3. dieState' = [dieState EXCEPT ![wayNo] = "idle"]
      BY <3>2 DEF CommandDone
    <3>. QED
      BY <2>1, <3>2, <3>3 DEF Typed
  <2>3. at = "report" /\ ReqStatus(w) # "running"
    BY <2>2, DoneAnswered
  <2>4. /\ flash[w] = "ready" /\ \A i \in 1 .. Len(commands) : commands[i][1] # w
        /\ Code(w) = "transfer" => reqStatusCheckOpt[w] = "flag"
        /\ Code(w) # "transfer" => reqStatusCheckOpt[w] = "report"
    BY <1>1, <2>2, <2>3, AnsweredRequest
  <2>5. RequestDone(w)
    <3>1. ~TriggerDone(w)
      <4>1. TriggerDone(w) => nandReqQ'[w] # <<>> /\ Code(w)' = "transfer"
        BY <1>1, <2>2, DoneQueue
      <4>2. Code(w)' = Head(nandReqQ'[w])
        BY DEF Code
      <4>. QED
        BY <1>1, <4>1, <4>2 DEF Done
    <3>2. ~RetryRead(w)
      <4>1. RetryRead(w) => failures'[w] = failures[w] + 1
        BY <2>1 DEF RetryRead, Typed
      <4>2. failures[w] \in Nat
        BY <2>1 DEF Typed
      <4>. QED
        BY <1>1, <4>1, <4>2 DEF Done
    <3>. QED
      BY <2>2, <3>1, <3>2 DEF CommandDone
  <2>6. ~(ReqStatus(w) = "done" /\ Code(w) = "read") /\ ~Retries(w) /\ ReqStatus(w) \in {"done", "warning", "fail"}
    BY <2>5 DEF RequestDone
  <2>7. failures[w] + retryLimit[w] = RETRY_LIMIT /\ failures[w] \in Nat /\ retryLimit[w] \in Nat
    BY <1>1, <2>1 DEF IInv, RequestInv, RequestOf, Typed
  <2>8. ASSUME ReqStatus(w) = "fail", Code(w) \in {"read", "transfer"} PROVE failures[w] = RETRY_LIMIT
    BY <2>6, <2>7, <2>8 DEF Retries
  <2>9. Code(w) = "read" => ReqStatus(w) = "fail"
    BY <2>1, <2>4, <2>6, ReqStatusIs
  <2>10. Code(w) = "transfer" /\ completeFlag[w] = "fail" => ReqStatus(w) = "fail"
    BY <2>1, <2>4, ReqStatusIs
  <2>. QED
    BY <2>4, <2>8, <2>9, <2>10
<1>2. IInv /\ [Next]_vars =>
         [\A w \in Ways : Done(w) =>
             /\ flash[w] = "ready" /\ \A i \in 1 .. Len(commands) : commands[i][1] # w
             /\ Code(w) = "read" => failures[w] = RETRY_LIMIT
             /\ Code(w) = "transfer" /\ completeFlag[w] = "fail" => failures[w] = RETRY_LIMIT]_vars
  BY <1>1
<1>. QED
  BY <1>2, Invariance, PTL DEF DoneWhenExecuted, Spec
=============================================================================
