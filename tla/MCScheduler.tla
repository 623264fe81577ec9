------------------------------ MODULE MCScheduler ------------------------------
(***************************************************************************)
(* What goes on as long as the program runs: in "workers" the worker       *)
(* manager with two workers and room for two triggered items beside the    *)
(* two periodic ones; in "status" and "downloads" the streams to open      *)
(* pages.                                                                  *)
(***************************************************************************)
EXTENDS WorkerScheduler, StatusStream

VARIABLE part

workerVars == <<item, waiters, up>>
allVars    == <<workerVars, streamVars, part>>

\* The manager was stopped before it ran anything.
WorkersRest ==
    LET reg == CHOOSE r \in [Workers -> Items] : \A v, w \in Workers : r[v] = r[w] => v = w
    IN  /\ item = [k \in Items |->
                      IF \E w \in Workers : reg[w] = k
                      THEN [place |-> "due", kind |-> "periodic",
                            worker |-> CHOOSE w \in Workers : reg[w] = k]
                      ELSE NoItem]
        /\ waiters = [w \in Workers |-> <<>>]
        /\ up = FALSE

\* Every download was imported, and the stream has ended.
WatchRests ==
    /\ status = [d \in Watched |-> "processed"]
    /\ watch = [pc |-> "closed", asked |-> {}, previous |-> status, shown |-> status]
    /\ moves = MaxMoves

\* Nobody is connected, and nothing more is written.
StatusRests ==
    /\ StatusInit /\ page = [p \in Pages |-> Closed]

AllInit ==
    /\ part \in {"workers", "status", "downloads"}
    /\ IF part = "workers" THEN Init ELSE WorkersRest
    /\ IF part = "downloads" THEN WatchInit ELSE WatchRests
    /\ IF part = "status" THEN StatusInit ELSE StatusRests

AllNext ==
    /\ UNCHANGED part
    /\ \/ part = "workers" /\ Next /\ UNCHANGED streamVars
       \/ part = "status" /\ StatusNext /\ UNCHANGED workerVars
       \/ part = "downloads" /\ WatchNext /\ UNCHANGED workerVars

AllSpec == AllInit /\ [][AllNext]_allVars /\ Fairness /\ StreamFairness
=============================================================================
