--------------------------- MODULE SchedulerTheorems ---------------------------
(***************************************************************************)
(* What holds of the worker manager for every set of workers and however   *)
(* many items exist at a time, and of what pages show for any number of    *)
(* connections, transactions and downloads.                                *)
(***************************************************************************)
EXTENDS MCScheduler, TLAPS

\* No item waits twice for a lock.
WaitsOnce ==
    \A w \in Workers : \A m, n \in DOMAIN waiters[w] :
        waiters[w][m] = waiters[w][n] => m = n

IInv == TypeOK /\ WaitsOnce /\ OneSchedule

USE NoWorkerAssumption

\* Every worker has an item of its own, and the others are free.
Registered(reg, at) ==
    /\ reg \in [Workers -> Items] /\ at \in [Workers -> {"queued", "due"}]
    /\ \A v, w \in Workers : reg[v] = reg[w] => v = w
    /\ item = [k \in Items |->
                  IF \E w \in Workers : reg[w] = k
                  THEN LET w == CHOOSE v \in Workers : reg[v] = k
                       IN  [place |-> at[w], worker |-> w, kind |-> "periodic"]
                  ELSE NoItem]
    /\ waiters = [w \in Workers |-> <<>>] /\ up \in BOOLEAN

LEMMA RegisteredIs ==
    ASSUME NEW reg, NEW at, Registered(reg, at)
    PROVE  IInv
<1>1. /\ reg \in [Workers -> Items] /\ at \in [Workers -> {"queued", "due"}]
      /\ \A v, w \in Workers : reg[v] = reg[w] => v = w
      /\ item = [k \in Items |->
                    IF \E w \in Workers : reg[w] = k
                    THEN LET w == CHOOSE v \in Workers : reg[v] = k
                         IN  [place |-> at[w], worker |-> w, kind |-> "periodic"]
                    ELSE NoItem]
  BY DEF Registered
<1>2. ASSUME NEW w \in Workers
      PROVE  /\ reg[w] \in Items
             /\ item[reg[w]] = [place |-> at[w], worker |-> w, kind |-> "periodic"]
  <2>1. (CHOOSE v \in Workers : reg[v] = reg[w]) = w
    BY <1>1
  <2> QED
    BY <1>1, <2>1
<1>3. ASSUME NEW k \in Items
      PROVE  item[k] = NoItem \/ \E w \in Workers : reg[w] = k
  BY <1>1
<1>4. waiters = [w \in Workers |-> <<>>] /\ up \in BOOLEAN
  BY DEF Registered
<1>5. TypeOK
  <2>1. ASSUME NEW k \in Items
        PROVE  /\ item[k] \in [place: Place, worker: Workers \union {NoWorker},
                               kind: Kind]
               /\ item[k].place # "free" => item[k].worker \in Workers
    <3>1. CASE item[k] = NoItem
      BY <3>1 DEF NoItem, Place, Kind
    <3>2. CASE \E w \in Workers : reg[w] = k
      <4>1. PICK w \in Workers : reg[w] = k
        BY <3>2
      <4>2. item[k] = [place |-> at[w], worker |-> w, kind |-> "periodic"]
        BY <1>2, <4>1
      <4>3. at[w] \in Place /\ at[w] # "free"
        BY <1>1 DEF Place
      <4> QED
        BY <4>2, <4>3 DEF Kind
    <3> QED
      BY <1>3, <3>1, <3>2
  <2>2. item = [k \in Items |-> item[k]]
    BY <1>1
  <2> QED
    BY <2>1, <2>2, <1>4 DEF TypeOK
<1>6. OneSchedule
  <2> SUFFICES ASSUME NEW w \in Workers
               PROVE  \E k \in Periodic(w) : Periodic(w) = {k}
    BY DEF OneSchedule
  <2>1. reg[w] \in Periodic(w)
    <3>1. item[reg[w]] = [place |-> at[w], worker |-> w, kind |-> "periodic"]
      BY <1>2
    <3>2. reg[w] \in Items
      BY <1>2
    <3> QED
      BY <3>1, <3>2 DEF Periodic
  <2>2. ASSUME NEW k \in Periodic(w) PROVE k = reg[w]
    <3>1. k \in Items /\ item[k].worker = w
      BY <2>2 DEF Periodic
    <3>2. item[k] # NoItem
      BY <3>1 DEF NoItem
    <3>3. PICK v \in Workers : reg[v] = k
      BY <1>3, <3>1, <3>2
    <3>4. item[k] = [place |-> at[v], worker |-> v, kind |-> "periodic"]
      BY <1>2, <3>3
    <3> QED
      BY <3>1, <3>3, <3>4
  <2> QED
    BY <2>1, <2>2
<1> QED
  BY <1>4, <1>5, <1>6 DEF IInv, WaitsOnce

LEMMA Initially == Init => IInv
<1> SUFFICES ASSUME Init PROVE IInv
  OBVIOUS
<1>1. PICK reg \in [Workers -> Items], at \in [Workers -> {"queued", "due"}] :
        /\ \A v, w \in Workers : reg[v] = reg[w] => v = w
        /\ item = [k \in Items |->
                      IF \E w \in Workers : reg[w] = k
                      THEN LET w == CHOOSE v \in Workers : reg[v] = k
                           IN  [place |-> at[w], worker |-> w, kind |-> "periodic"]
                      ELSE NoItem]
  BY DEF Init
<1>2. waiters = [w \in Workers |-> <<>>] /\ up \in BOOLEAN
  BY DEF Init
<1> QED
  BY <1>1, <1>2, RegisteredIs DEF Registered

\* What Periodic selects does not depend on where an item is.
LEMMA PlaceIsIrrelevant ==
    ASSUME IInv,
           item' \in [Items -> [place: Place, worker: Workers \union {NoWorker},
                                kind: Kind]],
           \A k \in Items : /\ item'[k].worker = item[k].worker
                            /\ item'[k].kind = item[k].kind
    PROVE  OneSchedule'
<1>1. ASSUME NEW w \in Workers PROVE Periodic(w)' = Periodic(w)
  BY DEF Periodic
<1> QED
  BY <1>1 DEF OneSchedule, IInv

\* Moving an item keeps its type, its worker and its kind, and the other items.
LEMMA MovedItem ==
    ASSUME TypeOK, NEW k \in Items, NEW p \in Place, Moved(k, p)
    PROVE  /\ item' \in [Items -> [place: Place, worker: Workers \union {NoWorker},
                                   kind: Kind]]
           /\ item'[k].place = p
           /\ \A i \in Items : /\ item'[i].worker = item[i].worker
                               /\ item'[i].kind = item[i].kind
                               /\ i # k => item'[i] = item[i]
  BY DEF TypeOK, Moved

LEMMA DueKeeps == ASSUME IInv, NEW k \in Items, Due(k) PROVE IInv'
<1>1. item' = [item EXCEPT ![k].place = "due"] /\ item[k].place = "queued"
  BY DEF Due, Moved
<1>2. TypeOK' /\ WaitsOnce'
  BY <1>1 DEF IInv, TypeOK, WaitsOnce, Due, Place, Kind
<1>3. OneSchedule'
  BY <1>1, <1>2, PlaceIsIrrelevant DEF TypeOK, IInv
<1> QED
  BY <1>2, <1>3 DEF IInv

LEMMA DispatchKeeps == ASSUME IInv, Dispatch PROVE IInv'
<1>1. item' = [k \in Items |-> IF item[k].place = "due"
                               THEN [item[k] EXCEPT !.place = "started"] ELSE item[k]]
  BY DEF Dispatch
<1>2. UNCHANGED <<waiters, up>>
  BY DEF Dispatch
<1>3. ASSUME NEW k \in Items
      PROVE  /\ item'[k].place \in Place /\ item'[k].worker = item[k].worker
             /\ item'[k].kind = item[k].kind
             /\ item'[k] \in [place: Place, worker: Workers \union {NoWorker}, kind: Kind]
             /\ item'[k].place # "free" => item[k].place # "free"
             /\ item[k].place = "waiting" => item'[k].place = "waiting"
  BY <1>1 DEF IInv, TypeOK, Place
<1>4. TypeOK'
  <2>1. item' = [k \in Items |-> item'[k]]
    BY <1>1
  <2>2. item' \in [Items -> [place: Place, worker: Workers \union {NoWorker}, kind: Kind]]
    BY <1>3, <2>1
  <2>3. ASSUME NEW w \in Workers, NEW n \in DOMAIN waiters[w]
        PROVE  item'[waiters[w][n]].place = "waiting" /\ item'[waiters[w][n]].worker = w
    BY <1>3 DEF IInv, TypeOK
  <2> QED
    BY <1>2, <1>3, <2>2, <2>3 DEF IInv, TypeOK
<1>5. WaitsOnce'
  BY <1>2 DEF IInv, WaitsOnce
<1>6. OneSchedule'
  BY <1>3, <1>4, PlaceIsIrrelevant DEF TypeOK
<1> QED
  BY <1>4, <1>5, <1>6 DEF IInv

LEMMA JoinKeeps == ASSUME IInv, NEW k \in Items, Join(k) PROVE IInv'
<1> DEFINE v == item[k].worker
<1>1. /\ item' = [item EXCEPT ![k].place = "waiting"] /\ item[k].place = "started"
      /\ waiters' = [waiters EXCEPT ![v] = Append(waiters[v], k)] /\ up' = up
      /\ v \in Workers
  BY DEF Join, Moved, IInv, TypeOK
<1>2. /\ \A w \in Workers \ {v} : waiters'[w] = waiters[w]
      /\ waiters'[v] = Append(waiters[v], k)
      /\ waiters' \in [Workers -> Seq(Items)]
  BY <1>1 DEF IInv, TypeOK
<1>3. ASSUME NEW w \in Workers, NEW n \in DOMAIN waiters'[w]
      PROVE  \/ n \in DOMAIN waiters[w] /\ waiters'[w][n] = waiters[w][n]
             \/ w = v /\ n = Len(waiters[v]) + 1 /\ waiters'[w][n] = k
  <2>1. CASE w = v
    <3>1. waiters[v] \in Seq(Items) /\ waiters'[w] = Append(waiters[v], k)
      BY <1>1, <1>2, <2>1 DEF IInv, TypeOK
    <3> QED
      BY <2>1, <3>1
  <2>2. CASE w # v
    BY <1>2, <2>2
  <2> QED
    BY <2>1, <2>2
<1>4. ASSUME NEW w \in Workers, NEW n \in DOMAIN waiters[w]
      PROVE  waiters[w][n] # k /\ waiters[w][n] \in Items
  BY <1>1 DEF IInv, TypeOK
<1>5. TypeOK'
  <2>1. item' \in [Items -> [place: Place, worker: Workers \union {NoWorker},
                             kind: Kind]]
    BY MovedItem DEF Join, IInv, Place
  <2>2. \A i \in Items : item'[i].place # "free" => item'[i].worker \in Workers
    BY <1>1 DEF IInv, TypeOK
  <2>3. ASSUME NEW w \in Workers, NEW n \in DOMAIN waiters'[w]
        PROVE  item'[waiters'[w][n]].place = "waiting" /\ item'[waiters'[w][n]].worker = w
    BY <1>1, <1>3, <1>4 DEF IInv, TypeOK
  <2> QED
    BY <1>1, <1>2, <2>1, <2>2, <2>3 DEF IInv, TypeOK
<1>6. WaitsOnce'
  <2> SUFFICES ASSUME NEW w \in Workers, NEW m \in DOMAIN waiters'[w],
                      NEW n \in DOMAIN waiters'[w], waiters'[w][m] = waiters'[w][n]
               PROVE  m = n
    BY DEF WaitsOnce
  <2> QED
    BY <1>3, <1>4 DEF IInv, WaitsOnce
<1>7. OneSchedule'
  BY <1>1, <1>5, PlaceIsIrrelevant DEF TypeOK, IInv
<1> QED
  BY <1>5, <1>6, <1>7 DEF IInv

LEMMA StartKeeps == ASSUME IInv, NEW w \in Workers, Start(w) PROVE IInv'
<1> DEFINE h == Head(waiters[w])
<1>1. /\ item' = [item EXCEPT ![h].place = "running"]
      /\ waiters' = [waiters EXCEPT ![w] = Tail(waiters[w])] /\ up' = up
      /\ waiters[w] # <<>> /\ waiters[w] \in Seq(Items)
  BY DEF Start, Moved, IInv, TypeOK
<1>2. /\ h = waiters[w][1] /\ 1 \in DOMAIN waiters[w]
      /\ h \in Items /\ item[h].worker = w
  BY <1>1 DEF IInv, TypeOK
<1>3. /\ \A v \in Workers \ {w} : waiters'[v] = waiters[v]
      /\ waiters'[w] = Tail(waiters[w])
      /\ waiters' \in [Workers -> Seq(Items)]
  BY <1>1 DEF IInv, TypeOK
<1>4. ASSUME NEW n \in DOMAIN waiters'[w]
      PROVE  /\ n + 1 \in DOMAIN waiters[w] /\ n \in Nat /\ n # 0
             /\ waiters'[w][n] = waiters[w][n + 1]
  BY <1>1, <1>3
<1>5. TypeOK'
  <2>1. item' \in [Items -> [place: Place, worker: Workers \union {NoWorker},
                             kind: Kind]]
    BY <1>2, MovedItem DEF Start, IInv, Place
  <2>2. \A i \in Items : item'[i].place # "free" => item'[i].worker \in Workers
    BY <1>1, <1>2 DEF IInv, TypeOK
  <2>3. ASSUME NEW v \in Workers, NEW n \in DOMAIN waiters'[v]
        PROVE  item'[waiters'[v][n]].place = "waiting" /\ item'[waiters'[v][n]].worker = v
    <3>1. CASE v = w
      <4>1. waiters[w][n + 1] # h
        BY <1>2, <1>4, <3>1 DEF IInv, WaitsOnce
      <4>2. waiters[w][n + 1] \in Items
        BY <1>1, <1>4, <3>1
      <4> QED
        BY <1>1, <1>4, <3>1, <4>1, <4>2 DEF IInv, TypeOK
    <3>2. CASE v # w
      <4>1. /\ waiters'[v] = waiters[v] /\ waiters[v][n] \in Items
            /\ item[waiters[v][n]].place = "waiting" /\ item[waiters[v][n]].worker = v
        BY <1>3, <3>2 DEF IInv, TypeOK
      <4> QED
        BY <1>1, <1>2, <3>2, <4>1 DEF IInv, TypeOK
    <3> QED
      BY <3>1, <3>2
  <2> QED
    BY <1>1, <1>3, <2>1, <2>2, <2>3 DEF IInv, TypeOK
<1>6. WaitsOnce'
  <2> SUFFICES ASSUME NEW v \in Workers, NEW m \in DOMAIN waiters'[v],
                      NEW n \in DOMAIN waiters'[v], waiters'[v][m] = waiters'[v][n]
               PROVE  m = n
    BY DEF WaitsOnce
  <2>1. CASE v = w
    <3>1. m + 1 = n + 1
      BY <1>4, <2>1 DEF IInv, WaitsOnce
    <3> QED
      BY <1>4, <2>1, <3>1
  <2>2. CASE v # w
    BY <1>3, <2>2 DEF IInv, WaitsOnce
  <2> QED
    BY <2>1, <2>2
<1>7. OneSchedule'
  BY <1>1, <1>5, PlaceIsIrrelevant DEF TypeOK, IInv
<1> QED
  BY <1>5, <1>6, <1>7 DEF IInv

\* An item that is neither waiting nor about to wait is replaced by another one of
\* its worker, or of none: the locks do not see it.
LEMMA ReplacedItem ==
    ASSUME IInv, NEW k \in Items, item[k].place # "waiting",
           NEW i \in [place: Place, worker: Workers \union {NoWorker}, kind: Kind],
           i.place # "free" => i.worker \in Workers,
           item' = [item EXCEPT ![k] = i], UNCHANGED <<waiters, up>>
    PROVE  TypeOK' /\ WaitsOnce'
<1>1. ASSUME NEW w \in Workers, NEW n \in DOMAIN waiters[w]
      PROVE  waiters[w][n] # k /\ waiters[w][n] \in Items
  BY DEF IInv, TypeOK
<1>2. TypeOK'
  BY <1>1 DEF IInv, TypeOK
<1>3. WaitsOnce'
  BY DEF IInv, WaitsOnce
<1> QED
  BY <1>2, <1>3

LEMMA EndKeeps == ASSUME IInv, NEW k \in Items, End(k) PROVE IInv'
<1>1. CASE item[k].kind = "periodic"
  <2>1. PICK i \in Scheduled(item[k].worker) : item' = [item EXCEPT ![k] = i]
    BY <1>1 DEF End
  <2>2. /\ item[k].worker \in Workers
        /\ i \in [place: Place, worker: Workers \union {NoWorker}, kind: Kind]
        /\ i.worker = item[k].worker /\ i.kind = "periodic"
    BY DEF Scheduled, Place, Kind, End, IInv, TypeOK
  <2>3. TypeOK' /\ WaitsOnce'
    BY <2>1, <2>2, ReplacedItem DEF End
  <2>4. ASSUME NEW j \in Items
        PROVE  item'[j].worker = item[j].worker /\ item'[j].kind = item[j].kind
    BY <1>1, <2>1, <2>2 DEF IInv, TypeOK
  <2>5. OneSchedule'
    BY <2>3, <2>4, PlaceIsIrrelevant DEF TypeOK
  <2> QED
    BY <2>3, <2>5 DEF IInv
<1>2. CASE item[k].kind # "periodic"
  <2>1. item' = [item EXCEPT ![k] = NoItem]
    BY <1>2 DEF End
  <2>2. TypeOK' /\ WaitsOnce'
    BY <2>1, ReplacedItem DEF End, NoItem, Place, Kind
  <2>3. ASSUME NEW w \in Workers PROVE Periodic(w)' = Periodic(w)
    BY <1>2, <2>1 DEF Periodic, NoItem, IInv, TypeOK
  <2> QED
    BY <2>2, <2>3 DEF IInv, OneSchedule
<1> QED
  BY <1>1, <1>2

LEMMA TriggerKeeps ==
    ASSUME IInv, NEW w \in Workers, NEW k \in Items, Trigger(w, k) PROVE IInv'
<1>1. /\ item[k] = NoItem
      /\ item' = [item EXCEPT ![k] = [place |-> "due", worker |-> w, kind |-> "manual"]]
  BY DEF Trigger
<1>2. TypeOK' /\ WaitsOnce'
  <2> DEFINE i == [place |-> "due", worker |-> w, kind |-> "manual"]
  <2>1. /\ i \in [place: Place, worker: Workers \union {NoWorker}, kind: Kind]
        /\ i.worker \in Workers
    BY DEF Place, Kind
  <2>2. item[k].place # "waiting" /\ UNCHANGED <<waiters, up>>
    BY <1>1 DEF NoItem, Trigger
  <2> HIDE DEF i
  <2> QED
    BY <1>1, <2>1, <2>2, ReplacedItem DEF i
<1>3. ASSUME NEW v \in Workers PROVE Periodic(v)' = Periodic(v)
  BY <1>1 DEF Periodic, NoItem, IInv, TypeOK
<1> QED
  BY <1>2, <1>3 DEF IInv, OneSchedule

LEMMA Inductive == IInv /\ [Next]_vars => IInv'
<1> SUFFICES ASSUME IInv, [Next]_vars PROVE IInv'
  OBVIOUS
<1>1. ASSUME NEW k \in Items, Due(k) \/ Join(k) \/ End(k) PROVE IInv'
  BY <1>1, DueKeeps, JoinKeeps, EndKeeps
<1>2. ASSUME NEW w \in Workers, Start(w) PROVE IInv'
  BY <1>2, StartKeeps
<1>3. ASSUME NEW w \in Workers, NEW k \in Items, Trigger(w, k) PROVE IInv'
  BY <1>3, TriggerKeeps
<1>4. CASE Dispatch
  BY <1>4, DispatchKeeps
<1>5. CASE Stop \/ UNCHANGED vars
  <2>1. UNCHANGED <<item, waiters>> /\ up' \in BOOLEAN
    BY <1>5 DEF Stop, vars, IInv, TypeOK
  <2>2. TypeOK' /\ WaitsOnce'
    BY <2>1 DEF IInv, TypeOK, WaitsOnce
  <2>3. ASSUME NEW w \in Workers PROVE Periodic(w)' = Periodic(w)
    BY <2>1 DEF Periodic
  <2> QED
    BY <2>2, <2>3 DEF IInv, OneSchedule
<1> QED
  BY <1>1, <1>2, <1>3, <1>4, <1>5 DEF Next

\* The inductive invariant.
THEOREM SchedulerInvariance == Spec => []IInv
<1> QED
  BY Initially, Inductive, PTL DEF Spec

\* The items and the queues of the locks agree: a queue holds the items that wait
\* for this worker's lock, and nothing else.
THEOREM SchedulerTypes == Spec => []TypeOK
<1>1. IInv => TypeOK
  BY DEF IInv
<1> QED
  BY <1>1, SchedulerInvariance, PTL

\* A worker keeps exactly one item that schedules it, whatever is triggered by
\* hand, fails, or runs late (start_worker's requeue).
THEOREM OneScheduleKept == Spec => []OneSchedule
<1>1. IInv => OneSchedule
  BY DEF IInv
<1> QED
  BY <1>1, SchedulerInvariance, PTL

-----------------------------------------------------------------------------
\* The whole that is checked: either part, while the other rests.

\* There is an item for every worker, as registering them needs.
CanRegister == \E reg \in [Workers -> Items] : \A v, w \in Workers : reg[v] = reg[w] => v = w

LEMMA RestIs ==
    ASSUME CanRegister, WorkersRest
    PROVE  IInv
<1> DEFINE reg == CHOOSE r \in [Workers -> Items] : \A v, w \in Workers : r[v] = r[w] => v = w
           at == [w \in Workers |-> "due"]
<1>1. reg \in [Workers -> Items] /\ \A v, w \in Workers : reg[v] = reg[w] => v = w
  BY DEF CanRegister
<1>2. at \in [Workers -> {"queued", "due"}]
  OBVIOUS
<1>3. /\ item = [k \in Items |->
                    IF \E w \in Workers : reg[w] = k
                    THEN [place |-> "due", kind |-> "periodic",
                          worker |-> CHOOSE w \in Workers : reg[w] = k]
                    ELSE NoItem]
      /\ waiters = [w \in Workers |-> <<>>] /\ up \in BOOLEAN
  BY DEF WorkersRest
<1> HIDE DEF reg
<1>4. \A k \in Items : (\E w \in Workers : reg[w] = k) =>
        at[CHOOSE v \in Workers : reg[v] = k] = "due"
  OBVIOUS
<1>5. item = [k \in Items |->
                 IF \E w \in Workers : reg[w] = k
                 THEN LET w == CHOOSE v \in Workers : reg[v] = k
                      IN  [place |-> at[w], worker |-> w, kind |-> "periodic"]
                 ELSE NoItem]
  BY <1>3, <1>4
<1> HIDE DEF at
<1> QED
  BY <1>1, <1>2, <1>3, <1>5, RegisteredIs DEF Registered

\* What is proved of the manager alone holds of the whole: its items and locks
\* agree and a worker is scheduled once, also while only pages are served.
THEOREM SchedulerInTheWhole ==
    ASSUME CanRegister
    PROVE  AllSpec => [](TypeOK /\ OneSchedule)
<1>1. AllInit => IInv
  BY RestIs, Initially DEF AllInit
<1>2. IInv /\ [AllNext]_allVars => IInv'
  <2>1. [AllNext]_allVars => [Next]_vars
    BY DEF AllNext, allVars, workerVars, vars
  <2> QED
    BY <2>1, Inductive
<1>3. IInv => TypeOK /\ OneSchedule
  BY DEF IInv
<1> QED
  BY <1>1, <1>2, <1>3, PTL DEF AllSpec


-----------------------------------------------------------------------------
\* What open pages show.

\* Whenever nothing is left to be done after a commit and the flag is down, a page
\* that has polled the present status and fetched what it was due to fetch shows
\* the committed data and, but for the two cases the code misses, the number of
\* unread notifications. A download shows as it was last polled; what a
\* connection no longer asks for was imported or deleted, and it was told so.
PolledIsRight ==
    /\ ~stale /\ (\A w \in Writers : write[w].pc # "committed") =>
        \A p \in Pages :
            page[p].pc # "closed" /\ page[p].previous = Frame(count) /\ ~page[p].due
                => IsUpToDate(p)
    /\ \A d \in Watched :
        (d \in watch.asked => d \in DOMAIN watch.previous /\ watch.previous[d] = status[d])
            => IsFollowed(d)

FrameSet == [notif : Nat, updated : Nat]

PageSet ==
    [pc : {"closed", "poll", "count"}, value : Nat, late : BOOLEAN,
     previous : {NoFrame} \union FrameSet, shown : {NoFrame} \union FrameSet,
     have : Nat, due : BOOLEAN]

WriteSet ==
    [pc : {"none", "open", "committed"}, kind : {"none", "data", "notify", "snooze", "read"},
     stamp : Nat]

StreamTyped ==
    /\ data \in Nat /\ unread \in Nat /\ snoozed \in Nat /\ stamp \in Nat /\ count \in Nat
    /\ stale \in BOOLEAN /\ missed \in BOOLEAN /\ writes \in Nat
    /\ write \in [Writers -> WriteSet] /\ page \in [Pages -> PageSet]

\* Committed writes that have yet to set the flag, or the time.
ToFlag  == \E w \in Writers : write[w].pc = "committed" /\ write[w].kind # "data"
ToStamp == \E w \in Writers : write[w].pc = "committed" /\ write[w].kind = "data"

\* The number in memory, and the one a page is counting, are right or will be
\* counted again.
Counts(c) == c.pc = "count" /\ ~c.late => c.value = unread \/ ToFlag

CountsAreRight ==
    /\ ~stale /\ ~missed => count = unread \/ ToFlag
    /\ \A p \in Pages : Counts(page[p])

\* No time is taken twice: a page that has seen the present one has seen it since
\* it was set.
Unseen(c) ==
    c.previous # NoFrame =>
        /\ c.previous.updated <= writes
        /\ \A w \in Writers : write[w].pc # "none" => c.previous.updated # write[w].stamp

StampsAreNew ==
    /\ stamp <= writes
    /\ \A w \in Writers : write[w].pc # "none" =>
        /\ write[w].stamp <= writes /\ write[w].stamp # stamp
        /\ \A v \in Writers : write[v].pc # "none" /\ write[v].stamp = write[w].stamp => v = w
    /\ \A p \in Pages : Unseen(page[p])

\* A page that has seen the present time and fetched since has the data.
Seen(c) ==
    c.previous # NoFrame /\ c.previous.updated = stamp /\ ~c.due => c.have = data \/ ToStamp

PagesHaveData == \A p \in Pages : page[p].shown = page[p].previous /\ Seen(page[p])

StatusInv == StreamTyped /\ CountsAreRight /\ StampsAreNew /\ PagesHaveData

\* What a connection was told adds up, and what it dropped it was told of.
WatchInv ==
    /\ watch.asked \subseteq Watched
    /\ \A d \in DOMAIN watch.previous : d \in DOMAIN watch.shown /\ watch.shown[d] = watch.previous[d]
    /\ \A d \in Watched \ watch.asked : d \in DOMAIN watch.shown /\ watch.shown[d] \in Finished

-----------------------------------------------------------------------------
LEMMA OverDomain ==
    ASSUME NEW sent, NEW shown
    PROVE  DOMAIN Over(sent, shown) = DOMAIN sent \union DOMAIN shown
BY DEF Over

LEMMA OverValue ==
    ASSUME NEW sent, NEW shown, NEW f \in DOMAIN sent \union DOMAIN shown
    PROVE  Over(sent, shown)[f] = IF f \in DOMAIN sent THEN sent[f] ELSE shown[f]
BY DEF Over

LEMMA ChangedIs ==
    ASSUME NEW previous, NEW current
    PROVE  /\ \A f : f \in DOMAIN Changed(previous, current) <=>
                    f \in DOMAIN current /\ (f \notin DOMAIN previous \/ previous[f] # current[f])
           /\ \A f \in DOMAIN Changed(previous, current) :
                  Changed(previous, current)[f] = current[f]
<1> DEFINE D == DOMAIN current \ Unchanged(previous, current)
<1>1. \A f : f \in D <=> f \in DOMAIN current /\ (f \notin DOMAIN previous \/ previous[f] # current[f])
  BY DEF Unchanged
<1> HIDE DEF D
<1>2. Changed(previous, current) = [f \in D |-> current[f]]
  BY DEF Changed, D
<1> QED
  BY <1>1, <1>2

\* What was told, laid over what was there, is what is there now.
LEMMA ToldDomain ==
    ASSUME NEW previous, NEW shown, NEW current,
           \A f \in DOMAIN previous : f \in DOMAIN shown /\ shown[f] = previous[f]
    PROVE  DOMAIN Over(Changed(previous, current), shown) = DOMAIN current \union DOMAIN shown
<1> DEFINE sent == Changed(previous, current)
<1>1. \A f : f \in DOMAIN sent <=>
            f \in DOMAIN current /\ (f \notin DOMAIN previous \/ previous[f] # current[f])
  BY ChangedIs
<1> HIDE DEF sent
<1>2. DOMAIN Over(sent, shown) = DOMAIN sent \union DOMAIN shown
  BY OverDomain
<1> QED
  BY <1>1, <1>2 DEF sent

LEMMA ToldValue ==
    ASSUME NEW previous, NEW shown, NEW current,
           \A f \in DOMAIN previous : f \in DOMAIN shown /\ shown[f] = previous[f],
           NEW d \in DOMAIN current
    PROVE  Over(Changed(previous, current), shown)[d] = current[d]
<1> DEFINE sent == Changed(previous, current)
<1>1. /\ d \in DOMAIN sent <=> d \notin DOMAIN previous \/ previous[d] # current[d]
      /\ d \in DOMAIN sent => sent[d] = current[d]
  BY ChangedIs
<1> HIDE DEF sent
<1>2. d \in DOMAIN sent \union DOMAIN shown =>
        Over(sent, shown)[d] = IF d \in DOMAIN sent THEN sent[d] ELSE shown[d]
  BY OverValue
<1> QED
  BY <1>1, <1>2 DEF sent

LEMMA ToldElse ==
    ASSUME NEW previous, NEW shown, NEW current, NEW d \in DOMAIN shown, d \notin DOMAIN current
    PROVE  Over(Changed(previous, current), shown)[d] = shown[d]
<1> DEFINE sent == Changed(previous, current)
<1>1. d \notin DOMAIN sent
  BY ChangedIs
<1> HIDE DEF sent
<1>2. d \in DOMAIN sent \union DOMAIN shown
  OBVIOUS
<1>3. Over(sent, shown)[d] = IF d \in DOMAIN sent THEN sent[d] ELSE shown[d]
  BY <1>2, OverValue
<1> QED
  BY <1>1, <1>3 DEF sent

LEMMA SentIs ==
    ASSUME NEW c \in PageSet, c.shown = c.previous, NEW number \in Nat, stamp \in Nat
    PROVE  /\ Sent(c, number) \in PageSet
           /\ Sent(c, number).pc = "poll" /\ Sent(c, number).have = c.have
           /\ Sent(c, number).previous = Frame(number) /\ Sent(c, number).shown = Frame(number)
           /\ Sent(c, number).due =
                (c.due \/ c.previous = NoFrame \/ c.previous.updated # stamp)
<1> DEFINE current == Frame(number)
           sent == Changed(c.previous, current)
           new == Over(sent, c.shown)
<1>1. /\ current \in FrameSet /\ DOMAIN current = {"notif", "updated"}
      /\ current.notif = number /\ current.updated = stamp
      /\ current = [notif |-> number, updated |-> stamp]
  BY DEF Frame, FrameSet
<1>2. /\ c.previous \in {NoFrame} \union FrameSet /\ c.due \in BOOLEAN
      /\ c.have \in Nat
  BY DEF PageSet
<1>3. /\ DOMAIN NoFrame = {}
      /\ \A f \in FrameSet : DOMAIN f = {"notif", "updated"}
  BY DEF NoFrame, FrameSet
<1> HIDE DEF current
<1>4. /\ DOMAIN new = DOMAIN current \union DOMAIN c.shown
      /\ \A f \in DOMAIN current : new[f] = current[f]
  <2>1. \A f \in DOMAIN c.previous : f \in DOMAIN c.shown /\ c.shown[f] = c.previous[f]
    OBVIOUS
  <2>2. PICK x, y, z : x = c.previous /\ y = c.shown /\ z = current
    OBVIOUS
  <2>3. \A f \in DOMAIN x : f \in DOMAIN y /\ y[f] = x[f]
    BY <2>1, <2>2
  <2>4. DOMAIN Over(Changed(x, z), y) = DOMAIN z \union DOMAIN y
    BY <2>3, ToldDomain
  <2>5. \A f \in DOMAIN z : Over(Changed(x, z), y)[f] = z[f]
    BY <2>3, ToldValue
  <2> QED
    BY <2>2, <2>4, <2>5
<1>5. new = [f \in DOMAIN new |-> new[f]]
  BY DEF Over
<1>6. DOMAIN new = {"notif", "updated"}
  <2> HIDE DEF new
  <2>1. DOMAIN c.shown \subseteq {"notif", "updated"}
    BY <1>2, <1>3
  <2> QED
    BY <1>1, <1>4, <2>1
<1>7. \A f : f \in DOMAIN sent <=>
            f \in DOMAIN current /\ (f \notin DOMAIN c.previous \/ c.previous[f] # current[f])
  BY ChangedIs
<1> DEFINE told == "updated" \in DOMAIN sent
           owes == c.due \/ told
<1> HIDE DEF new, sent
<1>8. new = current
  BY <1>1, <1>4, <1>5, <1>6
<1>9. told <=> c.previous = NoFrame \/ c.previous.updated # stamp
  BY <1>1, <1>2, <1>3, <1>7
<1>10. Sent(c, number) = [c EXCEPT !.pc = "poll", !.value = 0, !.late = FALSE,
                                   !.previous = current, !.shown = new,
                                   !.due = owes]
  BY DEF Sent, current, new, sent
<1>11. owes \in BOOLEAN /\ owes = (c.due \/ c.previous = NoFrame \/ c.previous.updated # stamp)
  BY <1>2, <1>9
<1> HIDE DEF owes
<1>12. /\ Sent(c, number) \in PageSet
       /\ Sent(c, number).pc = "poll" /\ Sent(c, number).have = c.have
       /\ Sent(c, number).previous = current /\ Sent(c, number).shown = current
       /\ Sent(c, number).due = owes
  <2>1. Sent(c, number) = [c EXCEPT !.pc = "poll", !.value = 0, !.late = FALSE,
                                    !.previous = current, !.shown = current, !.due = owes]
    BY <1>8, <1>10
  <2>2. current \in {NoFrame} \union FrameSet
    BY <1>1
  <2> DEFINE frames == {NoFrame} \union FrameSet
             new2 == [pc |-> "poll", value |-> 0, late |-> FALSE, previous |-> current,
                      shown |-> current, have |-> c.have, due |-> owes]
  <2>3. PageSet = [pc : {"closed", "poll", "count"}, value : Nat, late : BOOLEAN,
                   previous : frames, shown : frames, have : Nat, due : BOOLEAN]
    BY DEF PageSet
  <2> HIDE DEF current, frames
  <2>4. Sent(c, number) = new2
    BY <2>1, <2>3
  <2>5. new2 \in PageSet
    BY <1>2, <1>11, <2>2, <2>3 DEF frames
  <2> QED
    BY <2>4, <2>5
<1> QED
  BY <1>11, <1>12 DEF current
-----------------------------------------------------------------------------
\* A step of one page.
LEMMA PageKeeps ==
    ASSUME StatusInv, NEW p \in Pages, NEW c \in PageSet, page' = [page EXCEPT ![p] = c],
           UNCHANGED <<data, unread, snoozed, stamp, write>>,
           writes' \in Nat, writes <= writes', count' \in Nat, stale' \in BOOLEAN, missed' \in BOOLEAN,
           ~stale' /\ ~missed' => count' = unread \/ ToFlag,
           Counts(c), Seen(c), Unseen(c), c.shown = c.previous
    PROVE  StatusInv'
<1>1. /\ page' \in [Pages -> PageSet] /\ page'[p] = c
      /\ \A q \in Pages \ {p} : page'[q] = page[q]
  BY DEF StatusInv, StreamTyped
<1>2. ToFlag' = ToFlag /\ ToStamp' = ToStamp
  BY DEF ToFlag, ToStamp
<1>3. StreamTyped'
  BY <1>1 DEF StatusInv, StreamTyped
<1>4. ASSUME NEW q \in Pages
      PROVE  Counts(page[q])' /\ Seen(page[q])' /\ Unseen(page[q])' /\ page'[q].shown = page'[q].previous
  <2>1. /\ Counts(page'[q]) /\ Seen(page'[q]) /\ Unseen(page'[q])
        /\ page'[q].shown = page'[q].previous
    BY <1>1 DEF StatusInv, CountsAreRight, StampsAreNew, PagesHaveData
  <2>2. writes \in Nat /\ (page'[q].previous # NoFrame => page'[q].previous.updated \in Nat)
    BY <1>1 DEF StatusInv, StreamTyped, PageSet, FrameSet
  <2>3. Counts(page[q])'
    BY <1>2, <2>1 DEF Counts
  <2>4. Seen(page[q])'
    BY <1>2, <2>1 DEF Seen
  <2>5. Unseen(page[q])'
    BY <2>1, <2>2 DEF Unseen
  <2> QED
    BY <2>1, <2>3, <2>4, <2>5
<1>5. CountsAreRight'
  BY <1>2, <1>4 DEF CountsAreRight
<1>6. StampsAreNew'
  <2>1. stamp' <= writes'
    BY DEF StatusInv, StampsAreNew, StreamTyped
  <2>2. ASSUME NEW w \in Writers, write'[w].pc # "none"
        PROVE  /\ write'[w].stamp <= writes' /\ write'[w].stamp # stamp'
               /\ \A v \in Writers : write'[v].pc # "none" /\ write'[v].stamp = write'[w].stamp => v = w
    BY <2>2 DEF StatusInv, StampsAreNew, StreamTyped, WriteSet
  <2> QED
    BY <1>4, <2>1, <2>2 DEF StampsAreNew
<1> QED
  BY <1>3, <1>4, <1>5, <1>6 DEF StatusInv, PagesHaveData

LEMMA ConnectKeeps ==
    ASSUME StatusInv, NEW p \in Pages, Connect(p)
    PROVE  StatusInv'
<1> DEFINE c == [Closed EXCEPT !.pc = "poll"]
<1>1. Closed \in PageSet /\ Closed.previous = NoFrame /\ Closed.shown = NoFrame
  BY DEF Closed, PageSet
<1>2. c \in PageSet /\ c.pc = "poll" /\ c.previous = NoFrame /\ c.shown = c.previous
  BY <1>1 DEF PageSet
<1>3. page' = [page EXCEPT ![p] = c]
  BY DEF Connect
<1> HIDE DEF c
<1>4. Counts(c) /\ Seen(c) /\ Unseen(c)
  BY <1>2 DEF Counts, Seen, Unseen
<1>5. /\ UNCHANGED <<data, unread, snoozed, stamp, write, count, stale, missed>>
      /\ writes' \in Nat /\ writes <= writes'
  BY DEF Connect, StatusInv, StreamTyped
<1>6. /\ count' \in Nat /\ stale' \in BOOLEAN /\ missed' \in BOOLEAN
      /\ ~stale' /\ ~missed' => count' = unread \/ ToFlag
  BY <1>5 DEF StatusInv, StreamTyped, CountsAreRight
<1> QED
  BY <1>2, <1>3, <1>4, <1>5, <1>6, PageKeeps

LEMMA DisconnectKeeps ==
    ASSUME StatusInv, NEW p \in Pages, Disconnect(p)
    PROVE  StatusInv'
<1>1. Closed \in PageSet /\ Closed.pc = "closed" /\ Closed.previous = NoFrame /\ Closed.shown = Closed.previous
  BY DEF PageSet, Closed
<1>2. Counts(Closed) /\ Seen(Closed) /\ Unseen(Closed)
  BY <1>1 DEF Counts, Seen, Unseen
<1>3. /\ page' = [page EXCEPT ![p] = Closed]
      /\ UNCHANGED <<data, unread, snoozed, stamp, write, count, stale, missed, writes>>
  BY DEF Disconnect
<1>4. /\ count' \in Nat /\ stale' \in BOOLEAN /\ missed' \in BOOLEAN /\ writes' \in Nat /\ writes <= writes'
      /\ ~stale' /\ ~missed' => count' = unread \/ ToFlag
  BY <1>3 DEF StatusInv, StreamTyped, CountsAreRight
<1> QED
  BY <1>1, <1>2, <1>3, <1>4, PageKeeps

\* A frame that is sent.
LEMMA SentKeeps ==
    ASSUME StatusInv, NEW p \in Pages, NEW number \in Nat, page' = [page EXCEPT ![p] = Sent(page[p], number)],
           UNCHANGED <<data, unread, snoozed, stamp, write, writes>>,
           count' \in Nat, stale' \in BOOLEAN, missed' \in BOOLEAN,
           ~stale' /\ ~missed' => count' = unread \/ ToFlag
    PROVE  StatusInv'
<1> DEFINE b == page[p]
           c == Sent(b, number)
<1>1. b \in PageSet /\ b.shown = b.previous /\ stamp \in Nat /\ writes \in Nat /\ Seen(b)
  BY DEF StatusInv, StreamTyped, PagesHaveData
<1>2. page' = [page EXCEPT ![p] = c]
  OBVIOUS
<1> HIDE DEF b
<1>3. /\ c \in PageSet /\ c.pc = "poll" /\ c.have = b.have
      /\ c.previous = Frame(number) /\ c.shown = Frame(number)
      /\ c.due = (b.due \/ b.previous = NoFrame \/ b.previous.updated # stamp)
  BY <1>1, SentIs
<1> HIDE DEF c
<1>4. c.previous.updated = stamp
  BY <1>3 DEF Frame
<1>5. Counts(c)
  BY <1>3 DEF Counts
<1>6. Seen(c)
  BY <1>1, <1>3 DEF Seen
<1>7. Unseen(c)
  BY <1>4 DEF Unseen, StatusInv, StampsAreNew
<1>8. c.shown = c.previous
  BY <1>3
<1>9. writes' \in Nat /\ writes <= writes'
  BY <1>1
<1> QED
  BY <1>2, <1>3, <1>5, <1>6, <1>7, <1>8, <1>9, PageKeeps

LEMMA PollKeeps ==
    ASSUME StatusInv, NEW p \in Pages, Poll(p)
    PROVE  StatusInv'
<1> DEFINE b == page[p]
           c == [b EXCEPT !.pc = "count", !.value = unread]
<1>1. /\ UNCHANGED <<data, unread, snoozed, stamp, write, writes, count, stale, missed>>
      /\ page' = [page EXCEPT ![p] = IF stale THEN c ELSE Sent(b, count)]
  BY DEF Poll
<1>2. /\ count' \in Nat /\ stale' \in BOOLEAN /\ missed' \in BOOLEAN /\ writes' \in Nat /\ writes <= writes'
      /\ count \in Nat
  BY <1>1 DEF StatusInv, StreamTyped, CountsAreRight
<1>3. CASE ~stale
  <2>1. page' = [page EXCEPT ![p] = Sent(page[p], count)]
    BY <1>1, <1>3
  <2>2. ~stale' /\ ~missed' => count' = unread \/ ToFlag
    BY <1>1 DEF StatusInv, CountsAreRight
  <2> QED
    BY <1>1, <1>2, <2>1, <2>2, SentKeeps
<1>4. CASE stale
  <2>1. b \in PageSet /\ b.shown = b.previous /\ Seen(b) /\ Unseen(b) /\ unread \in Nat
    BY DEF StatusInv, StreamTyped, PagesHaveData, StampsAreNew
  <2>2. page' = [page EXCEPT ![p] = c]
    BY <1>1, <1>4
  <2> HIDE DEF b
  <2>3. /\ c \in PageSet /\ c.value = unread /\ c.previous = b.previous /\ c.shown = b.shown
        /\ c.due = b.due /\ c.have = b.have
    BY <2>1 DEF PageSet
  <2> HIDE DEF c
  <2>4. Counts(c) /\ Seen(c) /\ Unseen(c) /\ c.shown = c.previous
    BY <2>1, <2>3 DEF Counts, Seen, Unseen
  <2>5. ~stale' /\ ~missed' => count' = unread \/ ToFlag
    BY <1>1, <1>4
  <2> QED
    BY <1>1, <1>2, <2>2, <2>3, <2>4, <2>5, PageKeeps
<1> QED
  BY <1>3, <1>4

LEMMA CountKeeps ==
    ASSUME StatusInv, NEW p \in Pages, CountUnread(p)
    PROVE  StatusInv'
<1>1. /\ UNCHANGED <<data, unread, snoozed, stamp, write, writes>>
      /\ page' = [page EXCEPT ![p] = Sent(page[p], page[p].value)]
      /\ count' = page[p].value /\ stale' = FALSE /\ missed' = page[p].late /\ page[p].pc = "count"
  BY DEF CountUnread
<1>2. page[p].value \in Nat /\ page[p].late \in BOOLEAN
  BY DEF StatusInv, StreamTyped, PageSet
<1>3. ~stale' /\ ~missed' => count' = unread \/ ToFlag
  BY <1>1 DEF StatusInv, CountsAreRight, Counts
<1>4. count' \in Nat /\ stale' \in BOOLEAN /\ missed' \in BOOLEAN
  BY <1>1, <1>2
<1> QED
  BY <1>1, <1>2, <1>3, <1>4, SentKeeps

LEMMA FetchKeeps ==
    ASSUME StatusInv, NEW p \in Pages, Fetch(p)
    PROVE  StatusInv'
<1> DEFINE b == page[p]
           c == [b EXCEPT !.have = data, !.due = FALSE]
<1>1. b \in PageSet /\ b.shown = b.previous /\ Counts(b) /\ Unseen(b) /\ data \in Nat
  BY DEF StatusInv, StreamTyped, PagesHaveData, StampsAreNew, CountsAreRight
<1>2. page' = [page EXCEPT ![p] = c]
  <2>1. page' = [page EXCEPT ![p].have = data, ![p].due = FALSE] /\ page \in [Pages -> PageSet]
    BY DEF Fetch, StatusInv, StreamTyped
  <2> QED
    BY <1>1, <2>1
<1> HIDE DEF b
<1>3. /\ c \in PageSet /\ c.have = data /\ c.previous = b.previous /\ c.shown = b.shown
      /\ c.pc = b.pc /\ c.late = b.late /\ c.value = b.value
  BY <1>1 DEF PageSet
<1> HIDE DEF c
<1>4. Counts(c) /\ Seen(c) /\ Unseen(c) /\ c.shown = c.previous
  BY <1>1, <1>3 DEF Counts, Seen, Unseen
<1>5. UNCHANGED <<data, unread, snoozed, stamp, write, count, stale, missed, writes>>
  BY DEF Fetch
<1>6. /\ count' \in Nat /\ stale' \in BOOLEAN /\ missed' \in BOOLEAN /\ writes' \in Nat /\ writes <= writes'
      /\ ~stale' /\ ~missed' => count' = unread \/ ToFlag
  BY <1>5 DEF StatusInv, StreamTyped, CountsAreRight
<1> QED
  BY <1>2, <1>3, <1>4, <1>5, <1>6, PageKeeps
-----------------------------------------------------------------------------
\* A step of a transaction.
LEMMA StampKeeps ==
    ASSUME StreamTyped, StampsAreNew, UNCHANGED <<stamp, writes, page>>,
           write' \in [Writers -> WriteSet],
           \A w \in Writers : write'[w].pc # "none" =>
                write[w].pc # "none" /\ write'[w].stamp = write[w].stamp
    PROVE  StampsAreNew'
<1>1. \A p \in Pages : Unseen(page[p])'
  BY DEF StampsAreNew, Unseen
<1> QED
  BY <1>1 DEF StampsAreNew

LEMMA WriteKeeps ==
    ASSUME StatusInv, NEW w \in Writers, NEW kind \in {"data", "notify", "snooze", "read"},
           Write(w, kind)
    PROVE  StatusInv'
<1> DEFINE c == [pc |-> "open", kind |-> kind, stamp |-> writes + 1]
<1>1. /\ write[w].pc = "none" /\ writes' = writes + 1 /\ write' = [write EXCEPT ![w] = c]
      /\ UNCHANGED <<data, unread, snoozed, stamp, count, stale, page, missed>>
  BY DEF Write
<1>2. /\ writes \in Nat /\ stamp \in Nat /\ write \in [Writers -> WriteSet] /\ page \in [Pages -> PageSet]
  BY DEF StatusInv, StreamTyped
<1>3. c \in WriteSet /\ c.pc = "open" /\ c.stamp = writes + 1
  BY <1>2 DEF WriteSet
<1> HIDE DEF c
<1>4. /\ write' \in [Writers -> WriteSet] /\ write'[w] = c
      /\ \A v \in Writers \ {w} : write'[v] = write[v]
  BY <1>1, <1>2, <1>3
<1>5. StreamTyped'
  BY <1>1, <1>4 DEF StatusInv, StreamTyped
<1>6. ToFlag' = ToFlag /\ ToStamp' = ToStamp
  BY <1>1, <1>3, <1>4 DEF ToFlag, ToStamp
<1>7. ASSUME NEW p \in Pages
      PROVE  Counts(page[p])' /\ Seen(page[p])' /\ Unseen(page[p])' /\ page'[p].shown = page'[p].previous
  <2>1. /\ Counts(page[p]) /\ Seen(page[p]) /\ Unseen(page[p]) /\ page'[p] = page[p]
        /\ page[p].shown = page[p].previous
    BY <1>1 DEF StatusInv, CountsAreRight, StampsAreNew, PagesHaveData
  <2>2. page[p].previous # NoFrame => page[p].previous.updated \in Nat
    BY <1>2 DEF PageSet, FrameSet
  <2>3. Counts(page[p])' /\ Seen(page[p])'
    BY <1>1, <1>6, <2>1 DEF Counts, Seen
  <2>4. Unseen(page[p])'
    <3> SUFFICES ASSUME page[p].previous # NoFrame
                 PROVE  /\ page[p].previous.updated <= writes + 1
                        /\ \A v \in Writers : write'[v].pc # "none" => page[p].previous.updated # write'[v].stamp
      BY <1>1 DEF Unseen
    <3>1. page[p].previous.updated <= writes
      BY <2>1 DEF Unseen
    <3>2. \A v \in Writers \ {w} : write'[v].pc # "none" => page[p].previous.updated # write'[v].stamp
      BY <1>4, <2>1 DEF Unseen
    <3> QED
      BY <1>2, <1>3, <1>4, <2>2, <3>1, <3>2
  <2> QED
    BY <2>1, <2>3, <2>4
<1>8. CountsAreRight'
  BY <1>1, <1>6, <1>7 DEF CountsAreRight, StatusInv
<1>9. StampsAreNew'
  <2>1. /\ stamp <= writes
        /\ \A v \in Writers : write[v].pc # "none" => write[v].stamp <= writes /\ write[v].stamp # stamp
        /\ \A u, v \in Writers : write[u].pc # "none" /\ write[v].pc # "none"
                /\ write[u].stamp = write[v].stamp => u = v
        /\ \A v \in Writers : write[v].stamp \in Nat
    BY <1>2 DEF StatusInv, StampsAreNew, WriteSet
  <2>2. stamp' <= writes'
    BY <1>1, <1>2, <2>1
  <2>3. ASSUME NEW v \in Writers, write'[v].pc # "none"
        PROVE  write'[v].stamp <= writes' /\ write'[v].stamp # stamp'
    <3>1. CASE v = w
      BY <1>1, <1>2, <1>3, <1>4, <2>1, <3>1
    <3>2. CASE v # w
      BY <1>1, <1>2, <1>4, <2>1, <2>3, <3>2
    <3> QED
      BY <3>1, <3>2
  <2>4. ASSUME NEW u \in Writers, NEW v \in Writers, write'[u].pc # "none", write'[v].pc # "none",
               write'[u].stamp = write'[v].stamp
        PROVE  u = v
    <3>1. CASE u # w /\ v # w
      BY <1>4, <2>1, <2>4, <3>1
    <3>2. CASE u = w /\ v # w
      BY <1>2, <1>3, <1>4, <2>1, <2>4, <3>2
    <3>3. CASE u # w /\ v = w
      BY <1>2, <1>3, <1>4, <2>1, <2>4, <3>3
    <3> QED
      BY <3>1, <3>2, <3>3
  <2> QED
    BY <1>7, <2>2, <2>3, <2>4 DEF StampsAreNew
<1> QED
  BY <1>5, <1>7, <1>8, <1>9 DEF StatusInv, PagesHaveData

LEMMA RollsBackKeeps ==
    ASSUME StatusInv, NEW w \in Writers, RollsBack(w)
    PROVE  StatusInv'
<1>1. /\ write[w].pc = "open" /\ write' = [write EXCEPT ![w] = NoWrite]
      /\ UNCHANGED <<data, unread, snoozed, stamp, count, stale, page, missed, writes>>
  BY DEF RollsBack
<1>2. NoWrite \in WriteSet /\ NoWrite.pc = "none"
  BY DEF NoWrite, WriteSet
<1>3. /\ write' \in [Writers -> WriteSet] /\ write'[w] = NoWrite
      /\ \A v \in Writers \ {w} : write'[v] = write[v]
  BY <1>1, <1>2 DEF StatusInv, StreamTyped
<1>4. StreamTyped'
  BY <1>1, <1>3 DEF StatusInv, StreamTyped
<1>5. ToFlag' = ToFlag /\ ToStamp' = ToStamp
  BY <1>1, <1>2, <1>3 DEF ToFlag, ToStamp
<1>6. \A p \in Pages : Counts(page[p])' /\ Seen(page[p])'
  BY <1>1, <1>5 DEF StatusInv, CountsAreRight, PagesHaveData, Counts, Seen
<1>7. StampsAreNew'
  BY <1>1, <1>2, <1>3, StampKeeps DEF StatusInv
<1>8. CountsAreRight'
  BY <1>1, <1>5, <1>6 DEF StatusInv, CountsAreRight
<1>9. PagesHaveData'
  BY <1>1, <1>6 DEF StatusInv, PagesHaveData
<1> QED
  BY <1>4, <1>7, <1>8, <1>9 DEF StatusInv

LEMMA CommitsKeeps ==
    ASSUME StatusInv, NEW w \in Writers, Commits(w)
    PROVE  StatusInv'
<1> DEFINE c == [write[w] EXCEPT !.pc = "committed"]
<1>1. /\ write[w].pc = "open" /\ UNCHANGED <<stamp, count, stale, page, missed, writes>>
      /\ data' = (IF write[w].kind = "data" THEN data + 1 ELSE data)
      /\ snoozed' = (IF write[w].kind = "snooze" /\ unread > 0 THEN snoozed + 1 ELSE snoozed)
  BY DEF Commits
<1>2. unread' \in Nat /\ (write[w].kind = "data" => unread' = unread)
  <2>1. unread' = CASE write[w].kind = "notify" -> unread + 1
                    [] write[w].kind = "snooze" /\ unread > 0 -> unread - 1
                    [] write[w].kind = "read" -> 0
                    [] OTHER -> unread
    BY DEF Commits
  <2>2. unread \in Nat
    BY DEF StatusInv, StreamTyped
  <2>3. CASE write[w].kind = "notify"
    BY <2>1, <2>2, <2>3
  <2>4. CASE write[w].kind = "snooze" /\ unread > 0
    BY <2>1, <2>2, <2>4
  <2>5. CASE write[w].kind = "read"
    BY <2>1, <2>2, <2>5
  <2>6. CASE write[w].kind \notin {"notify", "read"} /\ ~(write[w].kind = "snooze" /\ unread > 0)
    BY <2>1, <2>2, <2>6
  <2> QED
    BY <2>3, <2>4, <2>5, <2>6
<1>3. write' = [write EXCEPT ![w] = c]
  <2>1. write' = [write EXCEPT ![w].pc = "committed"] /\ write \in [Writers -> WriteSet]
    BY DEF Commits, StatusInv, StreamTyped
  <2> QED
    BY <2>1
<1>4. /\ c \in WriteSet /\ c.pc = "committed" /\ c.kind = write[w].kind /\ c.stamp = write[w].stamp
  BY DEF StatusInv, StreamTyped, WriteSet
<1> HIDE DEF c
<1>5. /\ write' \in [Writers -> WriteSet] /\ write'[w] = c
      /\ \A v \in Writers \ {w} : write'[v] = write[v]
  BY <1>3, <1>4 DEF StatusInv, StreamTyped
<1>6. data' \in Nat /\ snoozed' \in Nat
  BY <1>1 DEF StatusInv, StreamTyped
<1>7. StreamTyped'
  BY <1>1, <1>2, <1>5, <1>6 DEF StatusInv, StreamTyped
<1>8. /\ ToFlag => ToFlag'
      /\ ToStamp => ToStamp'
      /\ write[w].kind = "data" => ToStamp'
      /\ write[w].kind # "data" => ToFlag'
  BY <1>1, <1>4, <1>5 DEF ToFlag, ToStamp
<1>9. unread' = unread \/ ToFlag'
  BY <1>2, <1>8
<1>10. data' = data \/ ToStamp'
  BY <1>1, <1>8
<1>11. \A p \in Pages : Counts(page[p])' /\ Seen(page[p])'
  BY <1>1, <1>8, <1>9, <1>10 DEF StatusInv, CountsAreRight, PagesHaveData, Counts, Seen
<1>12. StampsAreNew'
  <2>1. \A v \in Writers : write'[v].pc # "none" =>
            write[v].pc # "none" /\ write'[v].stamp = write[v].stamp
    BY <1>1, <1>4, <1>5
  <2> QED
    BY <1>1, <1>5, <2>1, StampKeeps DEF StatusInv
<1>13. CountsAreRight'
  BY <1>1, <1>8, <1>9, <1>11 DEF StatusInv, CountsAreRight
<1>14. PagesHaveData'
  BY <1>1, <1>11 DEF StatusInv, PagesHaveData
<1> QED
  BY <1>7, <1>12, <1>13, <1>14 DEF StatusInv

\* Pages that were counting have to count again.
LEMMA OvertakenIs ==
    ASSUME page \in [Pages -> PageSet], NEW p \in Pages
    PROVE  /\ Overtaken[p] \in PageSet /\ (Overtaken[p].pc = "count" => Overtaken[p].late)
           /\ Overtaken[p].pc = page[p].pc /\ Overtaken[p].previous = page[p].previous
           /\ Overtaken[p].shown = page[p].shown /\ Overtaken[p].have = page[p].have
           /\ Overtaken[p].due = page[p].due
<1> DEFINE late == page[p].pc = "count"
<1>1. Overtaken[p] = [page[p] EXCEPT !.late = late]
  BY DEF Overtaken
<1>2. late \in BOOLEAN /\ page[p] \in PageSet
  OBVIOUS
<1> HIDE DEF late
<1>3. /\ Overtaken[p] \in PageSet /\ Overtaken[p].late = late
      /\ Overtaken[p].pc = page[p].pc /\ Overtaken[p].previous = page[p].previous
      /\ Overtaken[p].shown = page[p].shown /\ Overtaken[p].have = page[p].have
      /\ Overtaken[p].due = page[p].due
  BY <1>1, <1>2 DEF PageSet
<1> QED
  BY <1>3 DEF late

LEMMA AllOvertaken ==
    ASSUME page \in [Pages -> PageSet]
    PROVE  Overtaken \in [Pages -> PageSet]
<1>1. \A p \in Pages : Overtaken[p] \in PageSet
  BY OvertakenIs
<1>2. Overtaken = [p \in Pages |-> Overtaken[p]]
  BY DEF Overtaken
<1> QED
  BY <1>1, <1>2

LEMMA AfterCommitKeeps ==
    ASSUME StatusInv, NEW w \in Writers, AfterCommit(w)
    PROVE  StatusInv'
<1>1. /\ write[w].pc = "committed" /\ write' = [write EXCEPT ![w] = NoWrite]
      /\ UNCHANGED <<data, unread, snoozed, count, missed, writes>>
      /\ stamp' = (IF write[w].kind = "data" THEN write[w].stamp ELSE stamp)
      /\ stale' = (stale \/ write[w].kind # "data")
      /\ page' = (IF write[w].kind = "data" THEN page ELSE Overtaken)
  BY DEF AfterCommit
<1>2. NoWrite \in WriteSet /\ NoWrite.pc = "none"
  BY DEF NoWrite, WriteSet
<1>3. /\ write \in [Writers -> WriteSet] /\ page \in [Pages -> PageSet] /\ writes \in Nat /\ stamp \in Nat
  BY DEF StatusInv, StreamTyped
<1>4. /\ write' \in [Writers -> WriteSet] /\ write'[w] = NoWrite
      /\ \A v \in Writers \ {w} : write'[v] = write[v]
  BY <1>1, <1>2, <1>3
<1>5. write[w].stamp \in Nat
  BY <1>3 DEF WriteSet
<1>6. page' \in [Pages -> PageSet]
  BY <1>1, <1>3, AllOvertaken
<1>7. stale' \in BOOLEAN
  BY <1>1
<1>8. StreamTyped'
  BY <1>1, <1>4, <1>5, <1>6, <1>7 DEF StatusInv, StreamTyped
<1>9. ASSUME NEW p \in Pages
      PROVE  /\ page'[p].previous = page[p].previous /\ page'[p].shown = page[p].shown
             /\ page'[p].have = page[p].have /\ page'[p].due = page[p].due
  <2>1. /\ Overtaken[p].previous = page[p].previous /\ Overtaken[p].shown = page[p].shown
        /\ Overtaken[p].have = page[p].have /\ Overtaken[p].due = page[p].due
    BY <1>3, OvertakenIs
  <2>2. page' = page \/ page' = Overtaken
    BY <1>1
  <2> QED
    BY <2>1, <2>2
<1>10. CountsAreRight'
  <2>1. CASE write[w].kind = "data"
    <3>1. ToFlag' = ToFlag
      BY <1>1, <1>2, <1>4, <2>1 DEF ToFlag
    <3>2. page' = page /\ unread' = unread /\ count' = count /\ missed' = missed
      BY <1>1, <2>1
    <3>3. ~stale' => ~stale
      BY <1>1
    <3>4. \A p \in Pages : Counts(page[p])'
      BY <3>1, <3>2 DEF StatusInv, CountsAreRight, Counts
    <3>5. ~stale' /\ ~missed' => count' = unread' \/ ToFlag'
      BY <3>1, <3>2, <3>3 DEF StatusInv, CountsAreRight
    <3> QED
      BY <3>4, <3>5 DEF CountsAreRight
  <2>2. CASE write[w].kind # "data"
    <3>1. stale'
      BY <1>1, <2>2
    <3>2. ASSUME NEW p \in Pages PROVE Counts(page[p])'
      <4>1. page'[p] = Overtaken[p]
        BY <1>1, <2>2
      <4>2. Overtaken[p].pc = "count" => Overtaken[p].late
        BY <1>3, OvertakenIs
      <4> QED
        BY <4>1, <4>2 DEF Counts
    <3> QED
      BY <3>1, <3>2 DEF CountsAreRight
  <2> QED
    BY <2>1, <2>2
<1>11. StampsAreNew'
  <2>1. stamp' <= writes'
    BY <1>1, <1>3, <1>5 DEF StatusInv, StampsAreNew
  <2>2. ASSUME NEW v \in Writers, write'[v].pc # "none"
        PROVE  /\ v # w /\ write'[v] = write[v] /\ write[v].pc # "none"
               /\ write'[v].stamp <= writes' /\ write'[v].stamp # stamp'
               /\ \A u \in Writers : write'[u].pc # "none" /\ write'[u].stamp = write'[v].stamp => u = v
    <3>1. v # w /\ write'[v] = write[v] /\ write[v].pc # "none"
      BY <1>2, <1>4, <2>2
    <3>2. write[v].stamp <= writes /\ write[v].stamp # stamp /\ write[v].stamp # write[w].stamp
      BY <1>1, <3>1 DEF StatusInv, StampsAreNew
    <3>3. \A u \in Writers : write'[u].pc # "none" /\ write'[u].stamp = write'[v].stamp => u = v
      BY <1>2, <1>4, <3>1 DEF StatusInv, StampsAreNew
    <3> QED
      BY <1>1, <3>1, <3>2, <3>3
  <2>3. ASSUME NEW p \in Pages PROVE Unseen(page[p])'
    <3>1. Unseen(page[p]) /\ page'[p].previous = page[p].previous /\ writes' = writes
      BY <1>1, <1>9 DEF StatusInv, StampsAreNew
    <3>2. \A v \in Writers : write'[v].pc # "none" =>
            write[v].pc # "none" /\ write'[v].stamp = write[v].stamp
      BY <2>2
    <3> QED
      BY <3>1, <3>2 DEF Unseen
  <2> QED
    BY <2>1, <2>2, <2>3 DEF StampsAreNew
<1>12. PagesHaveData'
  <2> SUFFICES ASSUME NEW p \in Pages
               PROVE  page'[p].shown = page'[p].previous /\ Seen(page[p])'
    BY DEF PagesHaveData
  <2>1. page[p].shown = page[p].previous /\ Seen(page[p])
    BY DEF StatusInv, PagesHaveData
  <2>2. CASE write[w].kind = "data"
    <3>1. page[p].previous # NoFrame => page[p].previous.updated # stamp'
      BY <1>1, <2>2 DEF StatusInv, StampsAreNew, Unseen
    <3>2. page'[p].previous = page[p].previous /\ page'[p].shown = page[p].shown
      BY <1>9
    <3> QED
      BY <2>1, <3>1, <3>2 DEF Seen
  <2>3. CASE write[w].kind # "data"
    <3>1. ToStamp' = ToStamp /\ stamp' = stamp /\ data' = data
      BY <1>1, <1>2, <1>4, <2>3 DEF ToStamp
    <3>2. /\ page'[p].previous = page[p].previous /\ page'[p].shown = page[p].shown
          /\ page'[p].have = page[p].have /\ page'[p].due = page[p].due
      BY <1>9
    <3> QED
      BY <2>1, <3>1, <3>2 DEF Seen
  <2> QED
    BY <2>2, <2>3
<1> QED
  BY <1>8, <1>10, <1>11, <1>12 DEF StatusInv

LEMMA SnoozeKeeps ==
    ASSUME StatusInv, SnoozeEnds
    PROVE  StatusInv'
<1>1. /\ snoozed > 0 /\ snoozed' = snoozed - 1 /\ unread' = unread + 1 /\ missed' = TRUE
      /\ page' = Overtaken /\ UNCHANGED <<data, stamp, count, stale, write, writes>>
  BY DEF SnoozeEnds
<1>2. page \in [Pages -> PageSet] /\ snoozed \in Nat /\ unread \in Nat
  BY DEF StatusInv, StreamTyped
<1>3. page' \in [Pages -> PageSet]
  BY <1>1, <1>2, AllOvertaken
<1>4. StreamTyped'
  BY <1>1, <1>2, <1>3 DEF StatusInv, StreamTyped
<1>5. ASSUME NEW p \in Pages
      PROVE  /\ page'[p].previous = page[p].previous /\ page'[p].shown = page[p].shown
             /\ page'[p].have = page[p].have /\ page'[p].due = page[p].due
  <2>1. /\ Overtaken[p].previous = page[p].previous /\ Overtaken[p].shown = page[p].shown
        /\ Overtaken[p].have = page[p].have /\ Overtaken[p].due = page[p].due
    BY <1>2, OvertakenIs
  <2> QED
    BY <1>1, <2>1
<1>6. ToStamp' = ToStamp
  BY <1>1 DEF ToStamp
<1>7. CountsAreRight'
  <2>1. ASSUME NEW p \in Pages PROVE Counts(page[p])'
    <3>1. Overtaken[p].pc = "count" => Overtaken[p].late
      BY <1>2, OvertakenIs
    <3> QED
      BY <1>1, <3>1 DEF Counts
  <2> QED
    BY <1>1, <2>1 DEF CountsAreRight
<1>8. StampsAreNew'
  BY <1>1, <1>5 DEF StatusInv, StampsAreNew, Unseen
<1>9. PagesHaveData'
  BY <1>1, <1>5, <1>6 DEF StatusInv, PagesHaveData, Seen
<1> QED
  BY <1>4, <1>7, <1>8, <1>9 DEF StatusInv

LEMMA StatusStarts ==
    ASSUME StatusInit
    PROVE  StatusInv
<1> DEFINE open == [Closed EXCEPT !.pc = "poll"]
<1>1. Closed \in PageSet /\ Closed.pc = "closed" /\ Closed.previous = NoFrame /\ Closed.shown = NoFrame
  BY DEF Closed, PageSet
<1>2. open \in PageSet /\ open.pc = "poll" /\ open.previous = NoFrame /\ open.shown = NoFrame
  BY <1>1 DEF PageSet
<1>3. NoWrite \in WriteSet /\ NoWrite.pc = "none"
  BY DEF NoWrite, WriteSet
<1>4. page \in [Pages -> {Closed, open}]
  BY DEF StatusInit
<1> HIDE DEF open
<1>5. \A p \in Pages : /\ page[p] \in PageSet /\ page[p].pc # "count"
                        /\ page[p].previous = NoFrame /\ page[p].shown = NoFrame
  BY <1>1, <1>2, <1>4
<1>6. write \in [Writers -> WriteSet] /\ \A w \in Writers : write[w].pc = "none"
  BY <1>3 DEF StatusInit
<1>7. page \in [Pages -> PageSet]
  BY <1>4, <1>5
<1>8. StreamTyped
  BY <1>6, <1>7 DEF StatusInit, StreamTyped
<1>9. CountsAreRight
  BY <1>5 DEF StatusInit, CountsAreRight, Counts
<1>10. StampsAreNew
  BY <1>5, <1>6 DEF StatusInit, StampsAreNew, Unseen
<1>11. PagesHaveData
  BY <1>5 DEF PagesHaveData, Seen
<1> QED
  BY <1>8, <1>9, <1>10, <1>11 DEF StatusInv

LEMMA StatusStays ==
    ASSUME StatusInv, UNCHANGED statusVars
    PROVE  StatusInv'
<1>1. UNCHANGED <<data, unread, snoozed, stamp, count, stale, write, page, missed, writes>>
  BY DEF statusVars
<1>2. StreamTyped'
  BY <1>1 DEF StatusInv, StreamTyped
<1>3. CountsAreRight'
  BY <1>1 DEF StatusInv, CountsAreRight, Counts, ToFlag
<1>4. StampsAreNew'
  BY <1>1 DEF StatusInv, StampsAreNew, Unseen
<1>5. PagesHaveData'
  BY <1>1 DEF StatusInv, PagesHaveData, Seen, ToStamp
<1> QED
  BY <1>2, <1>3, <1>4, <1>5 DEF StatusInv

LEMMA StatusStep ==
    ASSUME StatusInv, StatusNext
    PROVE  StatusInv'
<1>1. ASSUME NEW w \in Writers, NEW kind \in {"data", "notify", "snooze", "read"}, Write(w, kind)
      PROVE  StatusInv'
  BY <1>1, WriteKeeps
<1>2. ASSUME NEW w \in Writers, Commits(w)
      PROVE  StatusInv'
  BY <1>2, CommitsKeeps
<1>3. ASSUME NEW w \in Writers, RollsBack(w)
      PROVE  StatusInv'
  BY <1>3, RollsBackKeeps
<1>4. ASSUME NEW w \in Writers, AfterCommit(w)
      PROVE  StatusInv'
  BY <1>4, AfterCommitKeeps
<1>5. ASSUME NEW p \in Pages, Connect(p) \/ Disconnect(p) \/ Poll(p) \/ CountUnread(p) \/ Fetch(p)
      PROVE  StatusInv'
  BY <1>5, ConnectKeeps, DisconnectKeeps, PollKeeps, CountKeeps, FetchKeeps
<1> QED
  BY <1>1, <1>2, <1>3, <1>4, <1>5, SnoozeKeeps DEF StatusNext
-----------------------------------------------------------------------------
\* The connection that follows downloads.
LEMMA WatchStarts ==
    ASSUME WatchInit \/ WatchRests
    PROVE  WatchInv
<1>1. CASE WatchInit
  <2>1. watch.asked = Watched /\ watch.previous = NoFrame
    BY <1>1 DEF WatchInit
  <2>2. DOMAIN NoFrame = {}
    BY DEF NoFrame
  <2> QED
    BY <2>1, <2>2 DEF WatchInv
<1>2. CASE WatchRests
  <2>1. watch.asked = {} /\ watch.previous = status /\ watch.shown = status
    BY <1>2 DEF WatchRests
  <2>2. DOMAIN status = Watched /\ \A d \in Watched : status[d] \in Finished
    BY <1>2 DEF WatchRests, Finished
  <2> QED
    BY <2>1, <2>2 DEF WatchInv
<1> QED
  BY <1>1, <1>2

LEMMA WatchStays ==
    ASSUME WatchInv, UNCHANGED watch
    PROVE  WatchInv'
BY DEF WatchInv

LEMMA SendKeeps ==
    ASSUME WatchInv, SendDownloads
    PROVE  WatchInv'
<1> DEFINE current == [d \in watch.asked |-> status[d]]
           left == {d \in watch.asked : status[d] \notin Finished}
           new == Over(Changed(watch.previous, current), watch.shown)
<1>1. watch'.asked = left /\ watch'.previous = current /\ watch'.shown = new
  BY DEF SendDownloads
<1>2. PICK x, y, z : x = watch.previous /\ y = watch.shown /\ z = current
  OBVIOUS
<1>3. /\ \A d \in DOMAIN x : d \in DOMAIN y /\ y[d] = x[d]
      /\ DOMAIN z = watch.asked /\ \A d \in watch.asked : z[d] = status[d]
      /\ new = Over(Changed(x, z), y)
  BY <1>2 DEF WatchInv
<1> HIDE DEF current, new
<1>4. DOMAIN new = watch.asked \union DOMAIN y
  <2>1. \A f \in DOMAIN x : f \in DOMAIN y /\ y[f] = x[f]
    BY <1>3
  <2>2. DOMAIN Over(Changed(x, z), y) = DOMAIN z \union DOMAIN y
    BY <2>1, ToldDomain
  <2> QED
    BY <1>3, <2>2
<1>5. \A d \in watch.asked : new[d] = status[d]
  <2> TAKE d \in watch.asked
  <2>1. d \in DOMAIN z /\ z[d] = status[d]
    BY <1>3
  <2>2. \A f \in DOMAIN x : f \in DOMAIN y /\ y[f] = x[f]
    BY <1>3
  <2>3. Over(Changed(x, z), y)[d] = z[d]
    BY <2>1, <2>2, ToldValue
  <2> QED
    BY <1>3, <2>1, <2>3
<1>6. ASSUME NEW d \in DOMAIN y, d \notin watch.asked
      PROVE  new[d] = y[d]
  <2>1. d \notin DOMAIN z
    BY <1>3, <1>6
  <2>2. Over(Changed(x, z), y)[d] = y[d]
    BY <2>1, ToldElse
  <2> QED
    BY <1>3, <2>2
<1>7. watch.asked \subseteq Watched
  BY DEF WatchInv
<1>8. left \subseteq Watched
  BY <1>7
<1>9. \A d \in DOMAIN current : d \in DOMAIN new /\ new[d] = current[d]
  BY <1>2, <1>3, <1>4, <1>5
<1>10. ASSUME NEW d \in Watched, d \notin left
       PROVE  d \in DOMAIN new /\ new[d] \in Finished
  <2>1. CASE d \in watch.asked
    BY <1>4, <1>5, <1>10, <2>1
  <2>2. CASE d \notin watch.asked
    <3>1. d \in DOMAIN y /\ y[d] \in Finished
      BY <1>2, <2>2 DEF WatchInv
    <3> QED
      BY <1>4, <1>6, <2>2, <3>1
  <2> QED
    BY <2>1, <2>2
<1> HIDE DEF left
<1> QED
  BY <1>1, <1>8, <1>9, <1>10 DEF WatchInv

LEMMA WatchStep ==
    ASSUME WatchInv, WatchNext
    PROVE  WatchInv'
<1>1. ASSUME NEW d \in Watched, MoveDownload(d)
      PROVE  UNCHANGED watch
  BY <1>1 DEF MoveDownload
<1> QED
  BY <1>1, SendKeeps, WatchStays DEF WatchNext
-----------------------------------------------------------------------------
LEMMA InvTells ==
    ASSUME StatusInv, WatchInv
    PROVE  PolledIsRight
<1>1. ASSUME ~stale, \A w \in Writers : write[w].pc # "committed",
             NEW p \in Pages, page[p].previous = Frame(count), ~page[p].due
      PROVE  IsUpToDate(p)
  <2>1. ~ToFlag /\ ~ToStamp
    BY <1>1 DEF ToFlag, ToStamp
  <2>2. /\ page[p].shown = page[p].previous /\ Seen(page[p])
        /\ ~missed => count = unread
    BY <1>1, <2>1 DEF StatusInv, PagesHaveData, CountsAreRight
  <2>3. /\ page[p].previous # NoFrame /\ page[p].previous.updated = stamp
        /\ page[p].previous.notif = count /\ "notif" \in DOMAIN page[p].previous
    <3>1. /\ Frame(count).updated = stamp /\ Frame(count).notif = count
          /\ DOMAIN Frame(count) = {"notif", "updated"}
      BY DEF Frame
    <3>2. DOMAIN NoFrame = {}
      BY DEF NoFrame
    <3> QED
      BY <1>1, <3>1, <3>2
  <2>4. page[p].have = data
    BY <1>1, <2>1, <2>2, <2>3 DEF Seen
  <2> QED
    BY <2>2, <2>3, <2>4 DEF IsUpToDate
<1>2. ASSUME NEW d \in Watched,
             d \in watch.asked => d \in DOMAIN watch.previous /\ watch.previous[d] = status[d]
      PROVE  IsFollowed(d)
  <2>1. CASE d \in watch.asked
    <3>1. d \in DOMAIN watch.previous /\ watch.previous[d] = status[d]
      BY <1>2, <2>1
    <3> QED
      BY <3>1 DEF WatchInv, IsFollowed
  <2>2. CASE d \notin watch.asked
    BY <2>2 DEF WatchInv, IsFollowed
  <2> QED
    BY <2>1, <2>2
<1> QED
  BY <1>1, <1>2 DEF PolledIsRight

LEMMA StreamsStart ==
    ASSUME AllInit
    PROVE  StatusInv /\ WatchInv
<1>1. StatusInit
  BY DEF AllInit, StatusRests
<1>2. WatchInit \/ WatchRests
  BY DEF AllInit
<1> QED
  BY <1>1, <1>2, StatusStarts, WatchStarts

LEMMA StreamsKeep ==
    ASSUME StatusInv, WatchInv, [AllNext]_allVars
    PROVE  StatusInv' /\ WatchInv'
<1>1. CASE (Next /\ UNCHANGED streamVars) \/ UNCHANGED allVars
  <2>1. UNCHANGED statusVars /\ UNCHANGED watch
    BY <1>1 DEF streamVars, watchVars, allVars
  <2> QED
    BY <2>1, StatusStays, WatchStays
<1>2. CASE StatusNext
  <2>1. UNCHANGED watch
    BY <1>2 DEF StatusNext, Write, Commits, RollsBack, AfterCommit, SnoozeEnds, Connect,
                Disconnect, Poll, CountUnread, Fetch, watchVars
  <2> QED
    BY <1>2, <2>1, StatusStep, WatchStays
<1>3. CASE WatchNext
  <2>1. UNCHANGED statusVars
    BY <1>3 DEF WatchNext, SendDownloads, MoveDownload
  <2> QED
    BY <1>3, <2>1, StatusStays, WatchStep
<1> QED
  BY <1>1, <1>2, <1>3 DEF AllNext

\* What an open page has polled and fetched since nothing was left to do after a
\* commit is what is committed, and a download it follows is shown as polled.
THEOREM PolledPagesAreRight == AllSpec => []PolledIsRight
<1>1. AllInit => StatusInv /\ WatchInv
  BY StreamsStart
<1>2. (StatusInv /\ WatchInv) /\ [AllNext]_allVars => (StatusInv /\ WatchInv)'
  BY StreamsKeep
<1>3. StatusInv /\ WatchInv => PolledIsRight
  BY InvTells
<1> QED
  BY <1>1, <1>2, <1>3, PTL DEF AllSpec
================================================================================
