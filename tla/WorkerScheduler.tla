---------------------------- MODULE WorkerScheduler ----------------------------
(***************************************************************************)
(* WorkerManagerService: the queue of periodic workers, the loop that      *)
(* starts the items that are due, the lock of each worker, and the runs    *)
(* that users trigger by hand.                                             *)
(*                                                                         *)
(* An item is a WorkerItem object. Its next_run is kept as far as the loop *)
(* sees it: in the future ("queued") or past ("due").                      *)
(***************************************************************************)
EXTENDS Sequences, Naturals

CONSTANTS
    Workers,    \* the registered workers
    Items,      \* WorkerItem objects; bound: how many exist at a time
    NoWorker

ASSUME NoWorkerAssumption == NoWorker \notin Workers

VARIABLES
    item,       \* where each item is, its worker; a manual one does not requeue
    waiters,    \* for each worker, the started items that wait for its lock
    up          \* FALSE once stop has cancelled the loop

vars == <<item, waiters, up>>

Place == {"free", "queued", "due", "started", "waiting", "running"}

Kind == {"periodic", "manual"}

NoItem == [place |-> "free", worker |-> NoWorker, kind |-> "manual"]

TypeOK ==
    /\ item \in [Items -> [place: Place, worker: Workers \union {NoWorker},
                           kind: Kind]]
    /\ \A k \in Items : item[k].place # "free" => item[k].worker \in Workers
    /\ waiters \in [Workers -> Seq(Items)]
    /\ \A w \in Workers : \A n \in DOMAIN waiters[w] :
          item[waiters[w][n]].place = "waiting" /\ item[waiters[w][n]].worker = w
    /\ up \in BOOLEAN

Moved(k, p) == item' = [item EXCEPT ![k].place = p]

\* What add_worker puts in the queue for a periodic worker; next_run may be past.
Scheduled(w) == [place: {"queued", "due"}, worker: {w}, kind: {"periodic"}]

CurrentlyRunning(w) == \E k \in Items : item[k].worker = w /\ item[k].place = "running"

-----------------------------------------------------------------------------
\* register_workers, before the loop is started.
Init ==
    /\ \E reg \in [Workers -> Items], at \in [Workers -> {"queued", "due"}] :
          /\ \A v, w \in Workers : reg[v] = reg[w] => v = w
          /\ item = [k \in Items |->
                        IF \E w \in Workers : reg[w] = k
                        THEN LET w == CHOOSE v \in Workers : reg[v] = k
                             IN  [place |-> at[w], worker |-> w, kind |-> "periodic"]
                        ELSE NoItem]
    /\ waiters = [w \in Workers |-> <<>>]
    /\ up = TRUE

\* Time passes.
Due(k) ==
    /\ item[k].place = "queued"
    /\ Moved(k, "due")
    /\ UNCHANGED <<waiters, up>>

\* A slip: the item that ends the inner loop is not put back.
DispatchLosing ==
    /\ up
    /\ \E k \in Items : item[k].place = "due"
    /\ \E l \in Items :
          /\ item[l].place # "queued" => \A k \in Items : item[k].place # "queued"
          /\ item' = [k \in Items |->
                        IF item[k].place = "due" THEN [item[k] EXCEPT !.place = "started"]
                        ELSE IF k = l /\ item[k].place = "queued" THEN NoItem ELSE item[k]]
    /\ UNCHANGED <<waiters, up>>

\* One turn of the loop, which never waits while the queue has items: it starts a
\* task for every item that is due, and puts back the first one that is not.
Dispatch ==
    /\ up
    /\ \E k \in Items : item[k].place = "due"
    /\ item' = [k \in Items |-> IF item[k].place = "due"
                                THEN [item[k] EXCEPT !.place = "started"] ELSE item[k]]
    /\ UNCHANGED <<waiters, up>>

\* A slip: the lock is handed to the item that came last.
JoinFront(k) ==
    /\ item[k].place = "started"
    /\ Moved(k, "waiting")
    /\ waiters' = [waiters EXCEPT ![item[k].worker] = <<k>> \o @]
    /\ UNCHANGED up

\* The task of k begins, and asks for the lock of its worker.
Join(k) ==
    /\ item[k].place = "started"
    /\ Moved(k, "waiting")
    /\ waiters' = [waiters EXCEPT ![item[k].worker] = Append(@, k)]
    /\ UNCHANGED up

\* A slip: the lock keeps the waiter it has woken.
StartKept(w) ==
    /\ waiters[w] # <<>>
    /\ ~CurrentlyRunning(w)
    /\ Moved(Head(waiters[w]), "running")
    /\ UNCHANGED <<waiters, up>>

\* asyncio.Lock serves its waiters in order.
Start(w) ==
    /\ waiters[w] # <<>>
    /\ ~CurrentlyRunning(w)
    /\ Moved(Head(waiters[w]), "running")
    /\ waiters' = [waiters EXCEPT ![w] = Tail(@)]
    /\ UNCHANGED up

\* A slip: triggered runs are scheduled again, too.
EndAlways(k) ==
    /\ item[k].place = "running"
    /\ \E i \in Scheduled(item[k].worker) : item' = [item EXCEPT ![k] = i]
    /\ UNCHANGED <<waiters, up>>

\* The worker returns, raises, or is cancelled: its item requeues a new one,
\* with a later next_run, unless the run took longer than that.
End(k) ==
    /\ item[k].place = "running"
    /\ IF item[k].kind = "periodic"
       THEN \E i \in Scheduled(item[k].worker) : item' = [item EXCEPT ![k] = i]
       ELSE item' = [item EXCEPT ![k] = NoItem]
    /\ UNCHANGED <<waiters, up>>

\* trigger_worker is refused while the worker runs, but not while an item waits.
Trigger(w, k) ==
    /\ ~CurrentlyRunning(w)
    /\ item[k] = NoItem
    /\ item' = [item EXCEPT ![k] = [place |-> "due", worker |-> w, kind |-> "manual"]]
    /\ UNCHANGED <<waiters, up>>

\* stop cancels the loop, which waits in get() or sleep() with no item in hand.
Stop == /\ up /\ up' = FALSE
        /\ UNCHANGED <<item, waiters>>

Next == \/ \E k \in Items : Due(k) \/ Join(k) \/ End(k)
        \/ \E w \in Workers : Start(w) \/ \E k \in Items : Trigger(w, k)
        \/ Dispatch
        \/ Stop

Spec == Init /\ [][Next]_vars

\* The clock and the event loop go on, and a worker's run ends.
Fairness ==
    /\ WF_vars(Dispatch)
    /\ \A k \in Items : WF_vars(Due(k)) /\ WF_vars(Join(k)) /\ WF_vars(End(k))
    /\ \A w \in Workers : WF_vars(Start(w))

FairSpec == Spec /\ Fairness

-----------------------------------------------------------------------------

Periodic(w) == {k \in Items : item[k].worker = w /\ item[k].kind = "periodic"}

\* Whatever is triggered, fails or runs late, a worker has exactly one item that
\* schedules it again: none would stop it for good, two would double its pace.
OneSchedule == \A w \in Workers : \E k \in Periodic(w) : Periodic(w) = {k}

\* Every worker is run again and again by its schedule, however often users
\* trigger it, until the manager is stopped.
RunsAgain ==
    \A w \in Workers : []<>(~up \/ \E k \in Periodic(w) : item[k].place = "running")

\* A trigger that was accepted leads to a run, unless the manager is stopped
\* before its item is started.
TriggersRun ==
    \A k \in Items : item[k].place = "due" /\ item[k].kind = "manual"
                        ~> ~up \/ item[k].place = "running"

=============================================================================
