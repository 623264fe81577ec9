---------------------------- MODULE StorageTheorems ---------------------------
(***************************************************************************)
(* What is kept of the outside world: the copies of Caches, the calendar   *)
(* of AiringSchedule and the videos of LibraryFiles, each for every value  *)
(* of its constants.                                                       *)
(***************************************************************************)
EXTENDS Caches, AiringSchedule, LibraryFiles, NaturalsInduction, FiniteSetTheorems, SequenceTheorems,
        TLAPS

-----------------------------------------------------------------------------
\* No other version followed this one before time t.
LastUntil(version, t) == \A u \in origin : u > version => u >= t

CopyStates == [there : BOOLEAN, version : Nat, stamp : Nat]
ReaderStates == [pc : {"idle", "fetch", "store", "update", "create", "touch", "touched", "answered"},
                 want : BOOLEAN, version : Nat, since : Nat]

CacheTypes ==
    /\ kind \in AllKinds /\ now \in 0..MaxTime /\ origin \subseteq 0..now
    /\ copy \in CopyStates /\ reader \in [Readers -> ReaderStates]
    /\ \E t \in origin : \A u \in origin : u <= t

\* What the copy holds was the last version until it was asked for, which is at
\* most a fetch before the time that the copy notes.
CopyIsOfItsTime == copy.there =>
    /\ copy.version \in origin /\ copy.stamp <= now
    /\ LastUntil(copy.version, copy.stamp - MaxFetch)

\* A fetch brings what was the last version when it began, or a later one; an
\* image that is about to be sent does not age, and the time it is given back is
\* one that what it holds may have; an answer that has to be fresh is. A file whose
\* row is to follow, and every one that replaced it since, was fetched just now; a
\* row that was created since has the present time.
ReaderOK(x, c) ==
    /\ x.version <= now /\ x.since <= now
    /\ x.pc \in {"touch", "touched"} => kind = "image"
    /\ x.pc \in {"update", "create"} => kind = "asset" /\ LastUntil(x.version, now - MaxFetch)
    /\ x.pc = "create" \/ (x.pc = "update" /\ c.there) =>
            c.version \in origin /\ LastUntil(c.version, now - MaxFetch)
    /\ x.pc = "create" /\ c.there => c.stamp = now
    /\ x.pc \in {"fetch", "store"} => now <= x.since + MaxFetch
    /\ x.pc = "store" => x.version \in origin /\ LastUntil(x.version, x.since)
    /\ x.pc \in {"touch", "touched"} /\ c.there /\ x.want =>
            LastUntil(c.version, now - Life - MaxFetch)
    /\ x.pc = "touched" /\ c.there => LastUntil(c.version, x.since - MaxFetch)
    /\ x.pc = "answered" /\ x.want => LastUntil(x.version, now - Life - MaxFetch)

CacheInv == CacheTypes /\ CopyIsOfItsTime /\ \A r \in Readers : ReaderOK(reader[r], copy)

\* What the assumption says of each constant.
LEMMA CacheConstants == Life \in Nat /\ MaxFetch \in Nat /\ MaxTime \in Nat
BY CacheAssumption

LEMMA CacheInitially == CacheInit => CacheInv
<1> SUFFICES ASSUME CacheInit PROVE CacheInv
  OBVIOUS
<1>1. NoReader \in ReaderStates /\ NoCopy \in CopyStates /\ NoCopy.there = FALSE
  BY DEF NoReader, At, ReaderStates, NoCopy, CopyStates
<1>2. CacheTypes
  BY <1>1, CacheAssumption, CacheConstants DEF CacheInit, CacheTypes
<1>3. CopyIsOfItsTime
  BY <1>1 DEF CacheInit, CopyIsOfItsTime
<1>4. \A r \in Readers : ReaderOK(reader[r], copy)
  BY DEF CacheInit, ReaderOK, NoReader, At
<1> QED
  BY <1>2, <1>3, <1>4 DEF CacheInv

\* A step of one reader that leaves the copy alone.
LEMMA OneReader ==
    ASSUME CacheInv, NEW r \in Readers, NEW x \in ReaderStates, Becomes(r, x), ReaderOK(x, copy),
           UNCHANGED <<kind, now, origin, copy>>
    PROVE  CacheInv'
<1>1. reader' = [reader EXCEPT ![r] = x] /\ reader \in [Readers -> ReaderStates]
  BY DEF Becomes, CacheInv, CacheTypes
<1>2. CacheTypes' /\ CopyIsOfItsTime'
  BY <1>1 DEF CacheInv, CacheTypes, CopyIsOfItsTime, LastUntil
<1>3. ASSUME NEW q \in Readers PROVE ReaderOK(reader[q], copy)'
  <2>1. ReaderOK(reader'[q], copy)
    BY <1>1 DEF CacheInv
  <2> QED
    BY <2>1 DEF ReaderOK, LastUntil
<1> QED
  BY <1>2, <1>3 DEF CacheInv

\* What was the last version until some time was so until any earlier one.
LEMMA LastUntilEarlier ==
    ASSUME origin \subseteq Nat, NEW v \in Nat, NEW t \in Int, NEW s \in Int, s <= t,
           LastUntil(v, t)
    PROVE  LastUntil(v, s)
BY DEF LastUntil

\* A copy that answers is as fresh as it has to be.
LEMMA CopyAnswers ==
    ASSUME CacheInv, copy.there, NEW want \in BOOLEAN, Answers(want),
           want => kind # "anime", kind = "series" \/ want = (kind # "anime")
    PROVE  want => LastUntil(copy.version, now - Life - MaxFetch)
<1> SUFFICES ASSUME want PROVE LastUntil(copy.version, now - Life - MaxFetch)
  OBVIOUS
<1>1. /\ kind \in AllKinds /\ kind # "anime" /\ now \in Nat /\ copy.stamp \in Nat
      /\ copy.version \in Nat /\ Life \in Nat /\ MaxFetch \in Nat /\ origin \subseteq Nat
  BY CacheConstants DEF CacheInv, CacheTypes, CopyStates
<1>2. copy.stamp >= now - Life
  <2>1. CASE kind = "series"
    BY <1>1, <2>1 DEF Answers, SeriesAnswers
  <2>2. CASE kind = "extras"
    BY <1>1, <2>2 DEF Answers, ExtrasAnswer
  <2>3. CASE kind = "response"
    BY <1>1, <2>3 DEF Answers, ResponseAnswers
  <2>4. CASE kind = "image"
    BY <1>1, <2>4 DEF Answers, ImageAnswers
  <2>5. CASE kind = "asset"
    BY <1>1, <2>5 DEF Answers, AssetAnswers
  <2> QED
    BY <1>1, <2>1, <2>2, <2>3, <2>4, <2>5 DEF AllKinds
<1>3. LastUntil(copy.version, copy.stamp - MaxFetch)
  BY DEF CacheInv, CopyIsOfItsTime
<1> QED
  BY <1>1, <1>2, <1>3, LastUntilEarlier


\* No reader is one that any state allows.
LEMMA NoReaderOK == ASSUME CacheInv PROVE NoReader \in ReaderStates /\ ReaderOK(NoReader, copy)
BY DEF NoReader, At, ReaderStates, ReaderOK, CacheInv, CacheTypes

LEMMA GetKeeps ==
    ASSUME CacheInv, NEW r \in Readers, NEW want \in BOOLEAN, Get(r, want) PROVE CacheInv'
<1> DEFINE touch == At("touch", TRUE, 0, 0)
           found == At("answered", want, copy.version, 0)
           fetch == At("fetch", want, 0, now)
<1>1. /\ UNCHANGED <<kind, now, origin, copy>> /\ now \in Nat /\ copy.version \in Nat
      /\ Life \in Nat /\ MaxFetch \in Nat
      /\ kind = "series" \/ want = (kind # "anime")
  BY CacheConstants DEF Get, CacheInv, CacheTypes, CopyStates
<1>2. touch \in ReaderStates /\ found \in ReaderStates /\ fetch \in ReaderStates
  BY <1>1 DEF ReaderStates, At
<1>3. CASE copy.there /\ Answers(want)
  <2>1. want => LastUntil(copy.version, now - Life - MaxFetch)
    BY <1>1, <1>3, CopyAnswers
  <2>2. copy.version <= now
    BY <1>1, <1>3 DEF CacheInv, CacheTypes, CopyIsOfItsTime
  <2>3. CASE kind = "image"
    <3>1. Becomes(r, touch)
      BY <1>3, <2>3 DEF Get
    <3>2. LastUntil(copy.version, now - Life - MaxFetch)
      <4>1. want
        BY <1>1, <2>3
      <4> QED
        BY <4>1, <2>1
    <3>3. ReaderOK(touch, copy)
      BY <1>1, <2>3, <3>2 DEF ReaderOK, At
    <3> QED
      BY <3>1, <3>3, <1>1, <1>2, OneReader
  <2>4. CASE kind # "image"
    <3>1. Becomes(r, found)
      BY <1>3, <2>4 DEF Get
    <3>2. ReaderOK(found, copy)
      BY <1>1, <2>1, <2>2 DEF ReaderOK, At
    <3> QED
      BY <3>1, <3>2, <1>1, <1>2, OneReader
  <2> QED
    BY <2>3, <2>4
<1>4. CASE ~(copy.there /\ Answers(want))
  <2>1. Becomes(r, fetch)
    BY <1>4 DEF Get
  <2>2. ReaderOK(fetch, copy)
    BY <1>1 DEF ReaderOK, At
  <2> QED
    BY <2>1, <2>2, <1>1, <1>2, OneReader
<1> QED
  BY <1>3, <1>4

LEMMA GetAfreshKeeps == ASSUME CacheInv, NEW r \in Readers, GetAfresh(r) PROVE CacheInv'
<1> DEFINE fetch == At("fetch", TRUE, 0, now)
<1>1. UNCHANGED <<kind, now, origin, copy>> /\ now \in Nat /\ MaxFetch \in Nat
  BY CacheConstants DEF GetAfresh, CacheInv, CacheTypes
<1>2. fetch \in ReaderStates /\ ReaderOK(fetch, copy)
  BY <1>1 DEF ReaderStates, ReaderOK, At
<1>3. Becomes(r, fetch)
  BY DEF GetAfresh
<1> QED
  BY <1>1, <1>2, <1>3, OneReader

\* What is received is the last version of that moment.
LEMMA ReceiveKeeps == ASSUME CacheInv, NEW r \in Readers, Receive(r) PROVE CacheInv'
<1> DEFINE x == reader[r]
           y == At("store", x.want, Latest, x.since)
<1>1. /\ UNCHANGED <<kind, now, origin, copy>> /\ now \in Nat /\ origin \subseteq 0..now
      /\ x \in ReaderStates /\ x.pc = "fetch" /\ ReaderOK(x, copy)
  BY DEF Receive, CacheInv, CacheTypes
<1>2. Latest \in origin /\ \A u \in origin : u <= Latest
  BY DEF Latest, CacheInv, CacheTypes
<1>3. Latest \in Nat /\ Latest <= now
  BY <1>1, <1>2
<1>4. LastUntil(Latest, x.since)
  BY <1>1, <1>2, <1>3 DEF LastUntil
<1>5. y \in ReaderStates
  BY <1>1, <1>3 DEF ReaderStates, At
<1>6. ReaderOK(y, copy)
  BY <1>1, <1>2, <1>3, <1>4 DEF ReaderOK, At
<1>7. Becomes(r, y)
  BY DEF Receive
<1> QED
  BY <1>1, <1>5, <1>6, <1>7, OneReader

LEMMA FailsKeeps == ASSUME CacheInv, NEW r \in Readers, FetchFails(r) PROVE CacheInv'
<1> DEFINE touch == At("touch", FALSE, 0, 0)
<1>1. UNCHANGED <<kind, now, origin, copy>> /\ now \in Nat
  BY DEF FetchFails, CacheInv, CacheTypes
<1>2. touch \in ReaderStates /\ (kind = "image" => ReaderOK(touch, copy))
  BY <1>1 DEF ReaderStates, ReaderOK, At
<1>3. (kind = "image" /\ Becomes(r, touch)) \/ Becomes(r, NoReader)
  BY DEF FetchFails
<1> HIDE DEF touch
<1> QED
  BY <1>1, <1>2, <1>3, NoReaderOK, OneReader

LEMMA LeaveKeeps ==
    ASSUME CacheInv, NEW r \in Readers, TouchFails(r) \/ StoreRowFails(r) \/ Done(r)
    PROVE  CacheInv'
<1>1. UNCHANGED <<kind, now, origin, copy>> /\ Becomes(r, NoReader)
  BY DEF TouchFails, StoreRowFails, Done
<1> QED
  BY <1>1, NoReaderOK, OneReader

LEMMA TouchKeeps == ASSUME CacheInv, NEW r \in Readers, Touch(r) PROVE CacheInv'
<1> DEFINE x == reader[r]
           y == At("touched", x.want, 0, copy.stamp)
<1>1. /\ UNCHANGED <<kind, now, origin, copy>> /\ now \in Nat /\ copy.stamp \in Nat
      /\ x \in ReaderStates /\ x.pc = "touch" /\ ReaderOK(x, copy) /\ copy.there
  BY DEF Touch, CacheInv, CacheTypes, CopyStates
<1>2. copy.stamp <= now /\ LastUntil(copy.version, copy.stamp - MaxFetch)
  BY <1>1 DEF CacheInv, CopyIsOfItsTime
<1>3. y \in ReaderStates
  BY <1>1 DEF ReaderStates, At
<1>4. ReaderOK(y, copy)
  BY <1>1, <1>2 DEF ReaderOK, At
<1>5. Becomes(r, y)
  BY DEF Touch
<1> QED
  BY <1>1, <1>3, <1>4, <1>5, OneReader

\* A step of one reader that also leaves a copy behind which suits the others.
LEMMA OneReaderCopies ==
    ASSUME CacheInv, NEW r \in Readers, NEW x \in ReaderStates, Becomes(r, x), ReaderOK(x, copy'),
           UNCHANGED <<kind, now, origin>>, copy' \in CopyStates, CopyIsOfItsTime',
           \A q \in Readers \ {r} :
                reader[q].pc \in {"update", "create", "touch", "touched"} => ReaderOK(reader[q], copy')
    PROVE  CacheInv'
<1>1. reader' = [reader EXCEPT ![r] = x] /\ reader \in [Readers -> ReaderStates]
  BY DEF Becomes, CacheInv, CacheTypes
<1>2. CacheTypes'
  BY <1>1 DEF CacheInv, CacheTypes
<1>3. ASSUME NEW q \in Readers PROVE ReaderOK(reader[q], copy)'
  <2>1. CASE q = r
    <3>1. reader'[q] = x
      BY <2>1, <1>1
    <3> QED
      BY <3>1 DEF ReaderOK, LastUntil
  <2>2. CASE q # r /\ reader[q].pc \in {"update", "create", "touch", "touched"}
    <3>1. reader'[q] = reader[q] /\ ReaderOK(reader[q], copy')
      BY <2>2, <1>1
    <3> QED
      BY <3>1 DEF ReaderOK, LastUntil
  <2>3. CASE q # r /\ reader[q].pc \notin {"update", "create", "touch", "touched"}
    <3>1. reader'[q] = reader[q] /\ ReaderOK(reader[q], copy)
      BY <2>3, <1>1 DEF CacheInv
    <3> QED
      BY <3>1, <2>3 DEF ReaderOK, LastUntil
  <2> QED
    BY <2>1, <2>2, <2>3
<1> QED
  BY <1>2, <1>3 DEF CacheInv

\* What is stored was asked for a fetch ago at most.
LEMMA StoreKeeps == ASSUME CacheInv, NEW r \in Readers, Store(r) PROVE CacheInv'
<1> DEFINE x == reader[r]
           y == IF kind = "image" THEN At("touch", TRUE, 0, 0)
                ELSE At("answered", x.want, x.version, 0)
<1>1. /\ UNCHANGED <<kind, now, origin>> /\ now \in Nat /\ origin \subseteq Nat
      /\ x \in ReaderStates /\ x.pc = "store" /\ ReaderOK(x, copy) /\ copy \in CopyStates
  BY DEF Store, CacheInv, CacheTypes
<1>2. Life \in Nat /\ MaxFetch \in Nat
  BY CacheConstants
<1>3. /\ x.version \in origin /\ x.version \in Nat /\ x.since \in Nat /\ x.since <= now
      /\ now <= x.since + MaxFetch /\ LastUntil(x.version, x.since) /\ x.version <= now
  BY <1>1 DEF ReaderOK, ReaderStates
<1>4. ASSUME NEW t \in Int, t <= now - MaxFetch PROVE LastUntil(x.version, t)
  BY <1>1, <1>2, <1>3, <1>4, LastUntilEarlier
<1>5. copy' = copy \/ copy' = [there |-> TRUE, version |-> x.version, stamp |-> now]
  BY DEF Store, Upserted, Noted
<1>6. copy'.there => copy'.version = x.version
  <2>1. CASE copy' = copy
    <3>1. \/ copy' = Upserted(x.version)
          \/ copy' = Noted(x.version)
      BY DEF Store
    <3>2. copy' = Upserted(x.version) => (copy'.there => copy'.version = x.version)
      BY DEF Upserted
    <3>3. copy' = Noted(x.version) => copy'.version = x.version
      BY DEF Noted
    <3> QED
      BY <3>1, <3>2, <3>3
  <2>2. CASE copy' = [there |-> TRUE, version |-> x.version, stamp |-> now]
    BY <2>2
  <2> QED
    BY <2>1, <2>2, <1>5
<1>7. copy' \in CopyStates
  <2>1. [there |-> TRUE, version |-> x.version, stamp |-> now] \in CopyStates
    BY <1>1, <1>3 DEF CopyStates
  <2> QED
    BY <2>1, <1>1, <1>5
<1>8. CopyIsOfItsTime'
  <2>1. CASE copy' = copy
    BY <2>1, <1>1 DEF CacheInv, CopyIsOfItsTime, LastUntil
  <2>2. CASE copy' = [there |-> TRUE, version |-> x.version, stamp |-> now]
    <3>1. LastUntil(x.version, now - MaxFetch)
      BY <1>1, <1>2, <1>4
    <3> QED
      BY <2>2, <3>1, <1>1, <1>3 DEF CopyIsOfItsTime, LastUntil
  <2> QED
    BY <2>1, <2>2, <1>5
<1>9. LastUntil(x.version, now - Life - MaxFetch)
  BY <1>1, <1>2, <1>4
<1>10. y \in ReaderStates
  BY <1>1, <1>3 DEF ReaderStates, At
<1>11. ReaderOK(y, copy')
  <2>1. CASE kind = "image"
    <3>1. y = At("touch", TRUE, 0, 0)
      BY <2>1
    <3> HIDE DEF y
    <3>2. copy'.there => LastUntil(copy'.version, now - Life - MaxFetch)
      BY <1>6, <1>9
    <3> QED
      BY <3>1, <3>2, <1>1, <2>1 DEF ReaderOK, At
  <2>2. CASE kind # "image"
    <3>1. y = At("answered", x.want, x.version, 0)
      BY <2>2
    <3> HIDE DEF y
    <3> QED
      BY <3>1, <1>1, <1>3, <1>9 DEF ReaderOK, At
  <2> QED
    BY <2>1, <2>2
<1>12. ASSUME NEW q \in Readers, reader[q].pc \in {"update", "create", "touch", "touched"}
       PROVE  ReaderOK(reader[q], copy')
  <2>1. /\ ReaderOK(reader[q], copy) /\ reader[q] \in ReaderStates
        /\ reader[q].pc \in {"touch", "touched"} /\ kind = "image"
    BY <1>12 DEF CacheInv, CacheTypes, ReaderOK, Store
  <2>2. reader[q].since \in Nat /\ reader[q].since <= now
    BY <2>1 DEF ReaderOK, ReaderStates
  <2>3. LastUntil(x.version, reader[q].since - MaxFetch)
    BY <2>2, <1>1, <1>2, <1>4
  <2>4. copy'.there => /\ LastUntil(copy'.version, now - Life - MaxFetch)
                       /\ LastUntil(copy'.version, reader[q].since - MaxFetch)
    BY <2>3, <1>6, <1>9
  <2> QED
    BY <2>1, <2>4, <1>12 DEF ReaderOK
<1>13. Becomes(r, y)
  BY DEF Store
<1> HIDE DEF x, y
<1> QED
  BY <1>1, <1>7, <1>8, <1>10, <1>11, <1>12, <1>13, OneReaderCopies

\* What the file gets is as new, whatever the row says until it follows.
LEMMA StoreFileKeeps == ASSUME CacheInv, NEW r \in Readers, StoreFile(r) PROVE CacheInv'
<1> DEFINE x == reader[r]
           pc == IF copy.there THEN "update" ELSE "create"
           y == [x EXCEPT !.pc = pc]
<1>1. /\ UNCHANGED <<kind, now, origin>> /\ now \in Nat /\ origin \subseteq Nat /\ kind = "asset"
      /\ x \in ReaderStates /\ x.pc = "store" /\ ReaderOK(x, copy) /\ copy \in CopyStates
      /\ copy' = [copy EXCEPT !.version = x.version] /\ Becomes(r, y)
      /\ MaxFetch \in Nat
  BY CacheConstants DEF StoreFile, CacheInv, CacheTypes
<1>2. /\ x.version \in origin /\ x.version \in Nat /\ x.since \in Nat /\ x.since <= now
      /\ now <= x.since + MaxFetch /\ LastUntil(x.version, x.since) /\ x.version <= now
  BY <1>1 DEF ReaderOK, ReaderStates
<1>3. ASSUME NEW t \in Int, t <= now - MaxFetch PROVE LastUntil(x.version, t)
  BY <1>1, <1>2, <1>3, LastUntilEarlier
<1>4. LastUntil(x.version, now - MaxFetch)
  BY <1>1, <1>3
<1>5. /\ copy' \in CopyStates /\ copy'.there = copy.there /\ copy'.stamp = copy.stamp
      /\ copy'.version = x.version
  BY <1>1, <1>2 DEF CopyStates
<1>6. CopyIsOfItsTime'
  <2> SUFFICES ASSUME copy.there PROVE CopyIsOfItsTime'
    BY <1>5 DEF CopyIsOfItsTime
  <2>1. copy.stamp <= now /\ copy.stamp \in Nat
    BY <1>1 DEF CacheInv, CopyIsOfItsTime, CopyStates
  <2>2. LastUntil(x.version, copy.stamp - MaxFetch)
    BY <2>1, <1>1, <1>3
  <2> QED
    BY <2>1, <2>2, <1>1, <1>2, <1>5 DEF CopyIsOfItsTime, LastUntil
<1>7. /\ y \in ReaderStates /\ y.version = x.version /\ y.since = x.since
      /\ y.pc \in {"update", "create"} /\ (y.pc = "create" => ~copy.there)
  BY <1>1 DEF ReaderStates
<1> HIDE DEF y
<1>8. ReaderOK(y, copy')
  BY <1>1, <1>2, <1>4, <1>5, <1>7 DEF ReaderOK
<1>9. ASSUME NEW q \in Readers, reader[q].pc \in {"update", "create", "touch", "touched"}
      PROVE  ReaderOK(reader[q], copy')
  <2>1. ReaderOK(reader[q], copy) /\ reader[q].pc \in {"update", "create"}
    BY <1>1, <1>9 DEF CacheInv, ReaderOK
  <2> QED
    BY <2>1, <1>2, <1>4, <1>5 DEF ReaderOK
<1> HIDE DEF x
<1> QED
  BY <1>1, <1>5, <1>6, <1>7, <1>8, <1>9, OneReaderCopies

\* The row follows at the moment at which the file was written.
LEMMA StoreRowKeeps == ASSUME CacheInv, NEW r \in Readers, StoreRow(r) PROVE CacheInv'
<1> DEFINE x == reader[r]
           y == At("answered", x.want, x.version, 0)
           noted == [copy EXCEPT !.there = TRUE, !.stamp = now]
<1>1. /\ UNCHANGED <<kind, now, origin>> /\ now \in Nat /\ origin \subseteq Nat
      /\ x \in ReaderStates /\ x.pc \in {"update", "create"} /\ ReaderOK(x, copy)
      /\ copy \in CopyStates /\ Becomes(r, y) /\ Life \in Nat /\ MaxFetch \in Nat
  BY CacheConstants DEF StoreRow, CacheInv, CacheTypes
<1>2. \/ copy' = copy
      \/ copy' = noted /\ (x.pc = "create" \/ copy.there)
  BY <1>1 DEF StoreRow
<1>3. /\ noted \in CopyStates /\ noted.there /\ noted.stamp = now
      /\ noted.version = copy.version
  BY <1>1 DEF CopyStates
<1> HIDE DEF noted
<1>4. copy' \in CopyStates /\ copy'.version = copy.version
  BY <1>1, <1>2, <1>3
<1>5. /\ kind = "asset" /\ LastUntil(x.version, now - MaxFetch) /\ x.version <= now
      /\ x.version \in Nat
      /\ copy' = noted => copy.version \in origin /\ LastUntil(copy.version, now - MaxFetch)
  <2>1. CASE copy' = copy /\ copy' # noted
    BY <2>1, <1>1 DEF ReaderOK, ReaderStates
  <2>2. CASE x.pc = "create" \/ copy.there
    BY <2>2, <1>1 DEF ReaderOK, ReaderStates
  <2>3. CASE copy' = copy /\ copy' = noted
    BY <2>3, <1>1, <1>3 DEF ReaderOK, ReaderStates
  <2> QED
    BY <2>1, <2>2, <2>3, <1>2
<1>6. CopyIsOfItsTime'
  <2>1. CASE copy' = copy
    BY <2>1, <1>1 DEF CacheInv, CopyIsOfItsTime, LastUntil
  <2>2. CASE copy' = noted
    BY <2>2, <1>1, <1>3, <1>5 DEF CopyIsOfItsTime, LastUntil
  <2> QED
    BY <2>1, <2>2, <1>2
<1>7. LastUntil(x.version, now - Life - MaxFetch)
  BY <1>1, <1>5, LastUntilEarlier
<1>8. y \in ReaderStates
  BY <1>1 DEF ReaderStates, At
<1>9. ReaderOK(y, copy')
  BY <1>1, <1>5, <1>7 DEF ReaderOK, At
<1>10. ASSUME NEW q \in Readers, reader[q].pc \in {"update", "create", "touch", "touched"}
       PROVE  ReaderOK(reader[q], copy')
  <2>1. ReaderOK(reader[q], copy) /\ reader[q].pc \in {"update", "create"}
    BY <1>5, <1>10 DEF CacheInv, ReaderOK
  <2>2. CASE copy' = copy
    BY <2>1, <2>2
  <2>3. CASE copy' = noted
    BY <2>1, <2>3, <1>3, <1>5 DEF ReaderOK
  <2> QED
    BY <2>2, <2>3, <1>2
<1> HIDE DEF x, y
<1> QED
  BY <1>1, <1>4, <1>6, <1>8, <1>9, <1>10, OneReaderCopies

\* The time that an image gets back may be an old one: it then looks too old.
LEMMA SentKeeps == ASSUME CacheInv, NEW r \in Readers, Sent(r) PROVE CacheInv'
<1> DEFINE x == reader[r]
           y == At("answered", x.want, copy.version, 0)
<1>1. /\ UNCHANGED <<kind, now, origin>> /\ now \in Nat
      /\ x \in ReaderStates /\ x.pc = "touched" /\ ReaderOK(x, copy) /\ Becomes(r, y)
      /\ copy \in CopyStates /\ copy.there
      /\ copy' = [there |-> TRUE, version |-> copy.version, stamp |-> x.since]
  BY DEF Sent, CacheInv, CacheTypes
<1>2. /\ x.since \in Nat /\ x.since <= now /\ LastUntil(copy.version, x.since - MaxFetch)
      /\ x.want => LastUntil(copy.version, now - Life - MaxFetch)
  BY <1>1 DEF ReaderOK, ReaderStates
<1>3. copy.version \in origin /\ copy.version \in Nat /\ copy.version <= now
  BY <1>1 DEF CacheInv, CacheTypes, CopyIsOfItsTime, CopyStates
<1>4. copy' \in CopyStates /\ copy'.version = copy.version /\ copy'.stamp = x.since
  BY <1>1, <1>2, <1>3 DEF CopyStates
<1>5. CopyIsOfItsTime'
  BY <1>1, <1>2, <1>3, <1>4 DEF CopyIsOfItsTime, LastUntil
<1>6. y \in ReaderStates
  BY <1>1, <1>3 DEF ReaderStates, At
<1>7. ReaderOK(y, copy')
  BY <1>1, <1>2, <1>3 DEF ReaderOK, At
<1>8. ASSUME NEW q \in Readers, reader[q].pc \in {"update", "create", "touch", "touched"}
      PROVE  ReaderOK(reader[q], copy')
  <2>1. /\ ReaderOK(reader[q], copy) /\ reader[q] \in ReaderStates
        /\ reader[q].pc \in {"touch", "touched"}
    BY <1>1, <1>8 DEF CacheInv, CacheTypes, ReaderOK
  <2> QED
    BY <2>1, <1>1, <1>4, <1>8 DEF ReaderOK
<1> HIDE DEF x, y
<1> QED
  BY <1>1, <1>4, <1>5, <1>6, <1>7, <1>8, OneReaderCopies

-----------------------------------------------------------------------------
\* The row that is to be created is not there, or was created at this moment.
LEMMA CleanupKeeps == ASSUME CacheInv, Cleanup PROVE CacheInv'
<1>1. /\ UNCHANGED <<kind, now, origin, reader>> /\ copy' = NoCopy
      /\ copy.there /\ copy.stamp # now
  BY CacheConstants DEF Cleanup, CacheInv, CacheTypes, CopyStates
<1>2. NoCopy \in CopyStates /\ ~NoCopy.there
  BY DEF NoCopy, CopyStates
<1>3. CacheTypes' /\ CopyIsOfItsTime'
  BY <1>1, <1>2 DEF CacheInv, CacheTypes, CopyIsOfItsTime
<1>4. ASSUME NEW q \in Readers PROVE ReaderOK(reader[q], copy)'
  <2>1. ReaderOK(reader[q], copy) /\ reader[q].pc # "create"
    BY <1>1 DEF CacheInv, ReaderOK
  <2> QED
    BY <2>1, <1>1, <1>2 DEF ReaderOK, LastUntil
<1> QED
  BY <1>3, <1>4 DEF CacheInv

\* A new version takes nothing away from what is known of the past.
LEMMA ChangeKeeps == ASSUME CacheInv, Change PROVE CacheInv'
<1>1. /\ UNCHANGED <<kind, now, copy, reader>> /\ origin' = origin \union {now}
      /\ now \in Nat /\ origin \subseteq 0..now
  BY DEF Change, CacheInv, CacheTypes
<1>2. Life \in Nat /\ MaxFetch \in Nat
  BY CacheConstants
<1>3. ASSUME NEW v, NEW t \in Int, t <= now, LastUntil(v, t) PROVE LastUntil(v, t)'
  BY <1>1, <1>3 DEF LastUntil
<1>4. CacheTypes'
  BY <1>1 DEF CacheInv, CacheTypes
<1>5. CopyIsOfItsTime'
  <2> SUFFICES ASSUME copy.there PROVE CopyIsOfItsTime'
    BY <1>1 DEF CopyIsOfItsTime
  <2>1. /\ copy.version \in origin /\ copy.stamp <= now /\ copy.stamp \in Nat
        /\ LastUntil(copy.version, copy.stamp - MaxFetch)
    BY DEF CacheInv, CacheTypes, CopyIsOfItsTime, CopyStates
  <2>2. LastUntil(copy.version, copy.stamp - MaxFetch)'
    <3>1. copy.stamp - MaxFetch \in Int /\ copy.stamp - MaxFetch <= now
      BY <2>1, <1>1, <1>2
    <3> QED
      BY <3>1, <2>1, <1>1, <1>3 DEF LastUntil
  <2> QED
    BY <2>1, <2>2, <1>1 DEF CopyIsOfItsTime
<1>6. ASSUME NEW q \in Readers PROVE ReaderOK(reader[q], copy)'
  <2> DEFINE x == reader[q]
             late == now - Life - MaxFetch
             back == x.since - MaxFetch
  <2>1. ReaderOK(x, copy) /\ x \in ReaderStates
    BY DEF CacheInv, CacheTypes
  <2>2. x.since \in Nat /\ x.since <= now
    BY <2>1 DEF ReaderOK, ReaderStates
  <2>3. late \in Int /\ late <= now /\ back \in Int /\ back <= now
    BY <2>2, <1>1, <1>2
  <2>6. now - MaxFetch \in Int /\ now - MaxFetch <= now
    BY <1>1, <1>2
  <2>7. /\ LastUntil(x.version, now - MaxFetch) => LastUntil(x.version, now - MaxFetch)'
        /\ LastUntil(copy.version, now - MaxFetch) => LastUntil(copy.version, now - MaxFetch)'
    BY <2>6, <1>1, <1>3 DEF LastUntil
  <2>4. /\ LastUntil(x.version, x.since) => LastUntil(x.version, x.since)'
        /\ LastUntil(copy.version, late) => LastUntil(copy.version, late)'
        /\ LastUntil(x.version, late) => LastUntil(x.version, late)'
        /\ LastUntil(copy.version, back) => LastUntil(copy.version, back)'
    BY <2>2, <2>3, <1>1, <1>3 DEF LastUntil
  <2>5. reader'[q] = x /\ UNCHANGED <<kind, now, copy>> /\ origin \subseteq origin'
    BY <1>1
  <2> QED
    BY <2>1, <2>4, <2>5, <2>7 DEF ReaderOK
<1> QED
  BY <1>4, <1>5, <1>6 DEF CacheInv

\* Time passes when nobody has to be done sooner.
LEMMA TickKeeps == ASSUME CacheInv, Tick PROVE CacheInv'
<1> DEFINE next == [r \in Readers |-> IF reader[r].pc = "answered" THEN NoReader ELSE reader[r]]
<1>1. /\ UNCHANGED <<kind, origin, copy>> /\ now' = now + 1 /\ now < MaxTime /\ now \in Nat
      /\ reader' = next /\ MaxTime \in Nat /\ MaxFetch \in Nat
      /\ reader \in [Readers -> ReaderStates]
  BY CacheConstants DEF Tick, CacheInv, CacheTypes
<1>2. ASSUME NEW r \in Readers
      PROVE  /\ reader[r].pc \in {"fetch", "store"} => now < reader[r].since + MaxFetch
             /\ reader[r].pc \notin {"update", "create", "touch", "touched"}
  BY DEF Tick
<1>3. CacheTypes'
  <2>1. next \in [Readers -> ReaderStates]
    BY <1>1, NoReaderOK
  <2> QED
    BY <2>1, <1>1 DEF CacheInv, CacheTypes
<1>4. CopyIsOfItsTime'
  BY <1>1 DEF CacheInv, CacheTypes, CopyIsOfItsTime, CopyStates, LastUntil
<1>5. ASSUME NEW q \in Readers PROVE ReaderOK(reader[q], copy)'
  <2>1. CASE reader[q].pc = "answered"
    BY <2>1, <1>1 DEF ReaderOK, NoReader, At
  <2>2. CASE reader[q].pc # "answered"
    <3>1. ReaderOK(reader[q], copy) /\ reader[q] \in ReaderStates /\ reader'[q] = reader[q]
      BY <2>2, <1>1 DEF CacheInv
    <3>2. reader[q].since \in Nat /\ reader[q].version \in Nat
      BY <3>1 DEF ReaderStates
    <3> QED
      BY <2>2, <3>1, <3>2, <1>1, <1>2 DEF ReaderOK, LastUntil
  <2> QED
    BY <2>1, <2>2
<1> QED
  BY <1>3, <1>4, <1>5 DEF CacheInv

LEMMA CacheStepKeeps == CacheInv /\ [CacheNext]_cacheVars => CacheInv'
<1> SUFFICES ASSUME CacheInv, [CacheNext]_cacheVars PROVE CacheInv'
  OBVIOUS
<1>1. CASE UNCHANGED cacheVars
  BY <1>1 DEF cacheVars, CacheInv, CacheTypes, CopyIsOfItsTime, ReaderOK, LastUntil
<1>2. ASSUME NEW r \in Readers, NEW want \in BOOLEAN, Get(r, want) PROVE CacheInv'
  BY <1>2, GetKeeps
<1>3. ASSUME NEW r \in Readers,
             \/ GetAfresh(r) \/ Receive(r) \/ FetchFails(r)
             \/ Store(r) \/ StoreFile(r) \/ StoreRow(r) \/ StoreRowFails(r)
             \/ Touch(r) \/ Sent(r) \/ TouchFails(r) \/ Done(r)
      PROVE  CacheInv'
  BY <1>3, GetAfreshKeeps, ReceiveKeeps, FailsKeeps, StoreKeeps, StoreFileKeeps, StoreRowKeeps,
     TouchKeeps, SentKeeps, LeaveKeeps
<1>4. CASE Cleanup \/ Change \/ Tick
  BY <1>4, CleanupKeeps, ChangeKeeps, TickKeeps
<1> QED
  BY <1>1, <1>2, <1>3, <1>4 DEF CacheNext

\* Of several moments one is the first.
LEMMA FirstMoment ==
    ASSUME NEW S \in SUBSET Nat, S # {} PROVE \E t \in S : \A u \in S : t <= u
<1>1. PICK t \in S : \A u \in S : ~(<<u, t>> \in OpToRel(<, Nat))
  BY NatLessThanWellFounded, WFMin
<1>2. \A u \in S : ~(u < t)
  BY <1>1 DEF OpToRel
<1> QED
  BY <1>2

\* A version that was the last until some moment is behind since then at most.
LEMMA BehindSince ==
    ASSUME CacheInv, NEW v \in Nat, NEW n \in Nat, LastUntil(v, now - n) PROVE Behind(v) <= n
<1>1. now \in Nat /\ origin \subseteq Nat /\ n \in Nat
  BY DEF CacheInv, CacheTypes
<1>2. CASE \E t \in origin : t > v
  <2> DEFINE later == {t \in origin : t > v}
             first == CHOOSE t \in origin : t > v /\ \A u \in origin : u > v => t <= u
  <2>1. \E t \in later : \A u \in later : t <= u
    <3>1. later \in SUBSET Nat /\ later # {}
      BY <1>1, <1>2
    <3> QED
      BY <3>1, FirstMoment
  <2>2. first \in origin /\ first > v
    BY <2>1
  <2>3. first >= now - n
    BY <2>2 DEF LastUntil
  <2>4. Behind(v) = now - first
    BY <1>2 DEF Behind
  <2> HIDE DEF first
  <2> QED
    BY <2>2, <2>3, <2>4, <1>1
<1>3. CASE ~(\E t \in origin : t > v)
  BY <1>1, <1>3 DEF Behind
<1> QED
  BY <1>2, <1>3

\* What the invariant says of the types and of the answers.
LEMMA CacheInvImplies == CacheInv => CacheTypeOK /\ FreshAnswers
<1> SUFFICES ASSUME CacheInv PROVE CacheTypeOK /\ FreshAnswers
  OBVIOUS
<1>1. CacheTypeOK
  BY DEF CacheInv, CacheTypes, CopyIsOfItsTime, ReaderOK, CopyStates, ReaderStates, CacheTypeOK
<1>2. FreshAnswers
  <2> SUFFICES ASSUME NEW r \in Readers, reader[r].pc = "answered" /\ reader[r].want
               PROVE  Behind(reader[r].version) <= Life + MaxFetch
    BY DEF FreshAnswers
  <2>1. /\ now \in Nat /\ Life \in Nat /\ MaxFetch \in Nat /\ reader[r].version \in Nat
        /\ LastUntil(reader[r].version, now - Life - MaxFetch)
    BY CacheConstants DEF CacheInv, CacheTypes, ReaderOK, ReaderStates
  <2>2. Life + MaxFetch \in Nat /\ now - (Life + MaxFetch) = now - Life - MaxFetch
    BY <2>1
  <2> QED
    BY <2>1, <2>2, BehindSince
<1> QED
  BY <1>1, <1>2

\* The inductive invariant of the caches.
THEOREM CacheInvariance == CacheSpec => []CacheInv
BY CacheInitially, CacheStepKeeps, PTL DEF CacheSpec

\* No answer that has to be fresh is behind the remote by more than its life and
\* one fetch, for every life, any number of requests and any changes of the remote
\* (get_series, get_anime_extras, _get_cached_response, _read_cached_file_if_valid,
\* get_file_path_for_encoded_external_image_url and their clean-ups).
THEOREM AnswersAreFresh == CacheSpec => []FreshAnswers
BY CacheInvariance, CacheInvImplies, PTL

-----------------------------------------------------------------------------
\* The months that the answer in hand was taken from, and those it still waits
\* for, are enough for the range: all that are needed, or one where one will do.
Sufficient(r, S) == S \subseteq Needed(r) /\ S # {} /\ (S = Needed(r) \/ EitherMonth(r))

EnoughFor(r, answer, missing) ==
    /\ r \in Ranges
    /\ \E taken \in SUBSET Needed(r) :
        /\ answer = UNION {Part(r, m) : m \in taken}
        /\ Sufficient(r, taken \union missing)

AskOK == ask # NoAsk => EnoughFor(<<ask.from, ask.to>>, answered, ask.missing)

AskStates == [from : Int, to : Int, missing : SUBSET Months, fetched : SUBSET Months]

AiringInv ==
    /\ months \subseteq Months /\ ask \in AskStates
    /\ ask.missing \intersect ask.fetched = {}
    /\ AskOK

Count == Len(MonthStart)
End == MonthStart[Count]

\* What the assumption says of the calendar: the months follow one another, and
\* the shortest has 28 days.
LEMMA CalendarFacts ==
    /\ Unit \in Nat /\ Unit > 0 /\ Count \in Nat /\ Count > 0 /\ Months = 1..Count - 1
    /\ \A m \in 1..Count : MonthStart[m] \in Nat
    /\ MonthStart[1] = 0 /\ End \in Nat
    /\ \A m, n \in 1..Count : m < n => MonthStart[m] + 28 * Unit <= MonthStart[n]
    /\ \A m, n \in 1..Count : MonthStart[m] < MonthStart[n] => m < n
<1>1. /\ Unit \in Nat /\ Unit > 0 /\ Count \in Nat /\ Count > 0 /\ Months = 1..Count - 1
      /\ \A m \in 1..Count : MonthStart[m] \in Nat
      /\ DOMAIN MonthStart = 1..Count /\ MonthStart[1] = 0
  BY AiringAssumption DEF Count, Months
<1>2. \A m, n \in 1..Count : m < n => MonthStart[m] + 28 * Unit <= MonthStart[n]
  BY <1>1, AiringAssumption DEF Days
<1>3. ASSUME NEW m \in 1..Count, NEW n \in 1..Count, MonthStart[m] < MonthStart[n]
      PROVE  m < n
  <2>1. CASE n < m
    <3>1. MonthStart[n] + 28 * Unit <= MonthStart[m]
      BY <2>1, <1>2
    <3> QED
      BY <3>1, <1>1, <1>3
  <2>2. CASE n = m
    BY <2>2, <1>1, <1>3
  <2> QED
    BY <2>1, <2>2
<1> QED
  BY <1>1, <1>2, <1>3 DEF End

\* Every moment of the calendar is in the month that MonthOf finds.
LEMMA MonthOfFinds ==
    ASSUME NEW t \in 0..End - 1
    PROVE  /\ MonthOf(t) \in Months
           /\ MonthStart[MonthOf(t)] <= t /\ t < MonthStart[MonthOf(t) + 1]
<1> DEFINE later == {k \in 1..Count : t < MonthStart[k]}
<1>1. later \in SUBSET Nat /\ Count \in later
  BY CalendarFacts DEF End
<1>2. PICK k \in later : \A j \in later : k <= j
  BY <1>1, FirstMoment
<1>3. k # 1 /\ k \in 1..Count
  BY <1>2, CalendarFacts
<1>4. k - 1 \in 1..Count /\ k - 1 \notin later /\ k - 1 \in Months /\ k = (k - 1) + 1
  BY <1>2, <1>3, CalendarFacts
<1>5. MonthStart[k - 1] <= t /\ t < MonthStart[(k - 1) + 1]
  BY <1>2, <1>4, CalendarFacts
<1> QED
  BY <1>4, <1>5 DEF MonthOf

\* The range of a request: its ends, and the months they are in.
LEMMA RangeFacts ==
    ASSUME NEW r \in Ranges
    PROVE  /\ r = <<r[1], r[2]>> /\ r[1] \in Nat /\ r[2] \in Nat /\ r[1] < r[2] /\ r[2] <= End
           /\ Needed(r) \subseteq Months /\ Needed(r) # {}
<1> DEFINE all == {<<from, from + Days(n)>> : from \in 0..End - 1, n \in {1, 7}}
                  \union {<<MonthStart[m] + late, MonthStart[m + 1] + late>> :
                              m \in Months, late \in 1 - Unit..Unit - 1}
<1>1. r \in all /\ r[1] >= 0 /\ r[2] <= End
  BY DEF Ranges, End, Count
<1> HIDE DEF all
<1>2. ASSUME NEW from \in 0..End - 1, NEW n \in {1, 7}, r = <<from, from + Days(n)>>
      PROVE  r = <<r[1], r[2]>> /\ r[1] \in Nat /\ r[2] \in Nat /\ r[1] < r[2]
  <2>1. r[1] = from /\ r[2] = from + n * Unit /\ from \in Nat /\ Unit \in Nat /\ Unit > 0
    BY <1>2, CalendarFacts DEF Days
  <2>2. n * Unit = Unit \/ n * Unit = 7 * Unit
    BY <2>1
  <2>3. n * Unit \in Nat /\ n * Unit > 0
    BY <2>1, <2>2
  <2> QED
    BY <1>2, <2>1, <2>3
<1>3. ASSUME NEW m \in Months, NEW late \in 1 - Unit..Unit - 1,
             r = <<MonthStart[m] + late, MonthStart[m + 1] + late>>
      PROVE  r = <<r[1], r[2]>> /\ r[1] \in Nat /\ r[2] \in Nat /\ r[1] < r[2]
  <2>1. MonthStart[m] + 28 * Unit <= MonthStart[m + 1] /\ MonthStart[m] \in Nat
        /\ MonthStart[m + 1] \in Nat /\ Unit \in Nat /\ Unit > 0
    BY CalendarFacts
  <2>2. MonthStart[m] + late < MonthStart[m + 1] + late
    BY <2>1
  <2> QED
    BY <1>1, <1>3, <2>1, <2>2
<1>4. r = <<r[1], r[2]>> /\ r[1] \in Nat /\ r[2] \in Nat /\ r[1] < r[2]
  BY <1>1, <1>2, <1>3 DEF all
<1>5. r[1] \in 0..End - 1 /\ r[2] - 1 \in 0..End - 1
  BY <1>1, <1>4, CalendarFacts
<1> QED
  BY <1>1, <1>4, <1>5, MonthOfFinds DEF Needed

\* Where one of two months will do, the week and the day that are fetched around
\* it reach as far as the range.
LEMMA EitherCovers ==
    ASSUME NEW r \in Ranges, EitherMonth(r), NEW m \in Needed(r)
    PROVE  r[1]..r[2] - 1 \subseteq Window(m)
<1> DEFINE a == r[1]
           b == r[2] - 1
           s == MonthStart[m]
           e == MonthStart[m + 1]
<1>1. /\ a \in Nat /\ b \in Nat /\ a <= b /\ b <= End - 1 /\ End \in Nat
      /\ b - a < 8 * Unit /\ Unit \in Nat
  BY RangeFacts, CalendarFacts DEF EitherMonth, Days
<1>2. a \in 0..End - 1 /\ b \in 0..End - 1
  BY <1>1
<1>3. \/ s <= a /\ a < e
      \/ s <= b /\ b < e
  BY <1>2, MonthOfFinds DEF Needed
<1>4. s \in Nat /\ e \in Nat
  <2>1. m \in Months
    BY RangeFacts
  <2> QED
    BY <2>1, CalendarFacts
<1>5. Window(m) = (s - 8 * Unit)..(e + 8 * Unit - 1)
  BY DEF Window, Days
<1> HIDE DEF a, b, s, e
<1>6. s - 8 * Unit <= a /\ b <= e + 8 * Unit - 1
  BY <1>1, <1>3, <1>4
<1>7. a..b \subseteq Window(m)
  BY <1>1, <1>4, <1>5, <1>6
<1> QED
  BY <1>7 DEF a, b

\* A range is in one month or in two that follow one another: a whole month fits
\* into none that a user can ask for, wherever the user's month begins.
LEMMA NeededAreNeighbours ==
    ASSUME NEW r \in Ranges
    PROVE  MonthOf(r[2] - 1) <= MonthOf(r[1]) + 1
<1> DEFINE a == r[1]
           b == r[2] - 1
           p == MonthOf(a)
           q == MonthOf(b)
           all == {<<from, from + Days(n)>> : from \in 0..End - 1, n \in {1, 7}}
                  \union {<<MonthStart[m] + late, MonthStart[m + 1] + late>> :
                              m \in Months, late \in 1 - Unit..Unit - 1}
<1>1. a \in 0..End - 1 /\ b \in 0..End - 1 /\ a \in Nat /\ b \in Nat
  BY RangeFacts, CalendarFacts
<1>2. p \in Months /\ q \in Months /\ a < MonthStart[p + 1] /\ MonthStart[q] <= b
  BY <1>1, MonthOfFinds
<1>3. r \in all
  BY DEF Ranges, End, Count
<1>4. p \in 1..Count - 1 /\ q \in 1..Count - 1 /\ Count \in Nat /\ Unit \in Nat /\ Unit > 0
  BY <1>2, CalendarFacts
<1> HIDE DEF p, q
<1> SUFFICES ASSUME q > p + 1 PROVE FALSE
  BY <1>4 DEF p, q, a, b
<1>5. p + 1 \in 1..Count /\ p + 2 \in 1..Count /\ q \in 1..Count
  BY <1>4
<1>6. /\ MonthStart[p + 1] \in Nat /\ MonthStart[p + 2] \in Nat /\ MonthStart[q] \in Nat
      /\ MonthStart[p + 1] + 28 * Unit <= MonthStart[p + 2]
      /\ MonthStart[p + 2] <= MonthStart[q]
  <2>1. MonthStart[p + 1] + 28 * Unit <= MonthStart[p + 2]
    BY <1>4, <1>5, CalendarFacts
  <2>2. CASE q = p + 2
    BY <2>1, <2>2, <1>5, CalendarFacts
  <2>3. CASE p + 2 < q
    <3>1. MonthStart[p + 2] + 28 * Unit <= MonthStart[q]
      BY <2>3, <1>5, CalendarFacts
    <3> QED
      BY <2>1, <3>1, <1>4, <1>5, CalendarFacts
  <2> QED
    BY <2>2, <2>3, <1>4
<1>7. MonthStart[p + 2] <= b
  BY <1>1, <1>2, <1>6
<1>8. CASE \E from \in 0..End - 1, n \in {1, 7} : r = <<from, from + Days(n)>>
  <2>1. b <= a + 7 * Unit - 1
    BY <1>4, <1>8, RangeFacts DEF Days
  <2> QED
    BY <2>1, <1>1, <1>2, <1>4, <1>6, <1>7
<1>9. ASSUME NEW m \in Months, NEW late \in 1 - Unit..Unit - 1,
             r = <<MonthStart[m] + late, MonthStart[m + 1] + late>>
      PROVE  FALSE
  <2>1. m \in 1..Count /\ m + 1 \in 1..Count /\ MonthStart[m] \in Nat /\ MonthStart[m + 1] \in Nat
        /\ m \in Nat /\ p \in Nat
        /\ late \in Int /\ late > -Unit /\ late < Unit
    BY <1>4, CalendarFacts
  <2>2. a = MonthStart[m] + late /\ b = MonthStart[m + 1] + late - 1
    <3>1. r[1] = MonthStart[m] + late /\ r[2] = MonthStart[m + 1] + late
      BY <1>9
    <3> QED
      BY <3>1, <2>1
  <2>3. MonthStart[m] + late < MonthStart[p + 1] /\ MonthStart[p + 2] < MonthStart[m + 1] + late
    BY <2>1, <2>2, <1>2, <1>6, <1>7
  <2>4. CASE late <= 0
    <3>1. MonthStart[p + 2] < MonthStart[m + 1]
      BY <2>1, <2>3, <2>4, <1>6
    <3>2. p + 2 < m + 1
      BY <3>1, <2>1, <1>5, CalendarFacts
    <3>3. MonthStart[p + 1] + 28 * Unit <= MonthStart[m]
      BY <3>2, <2>1, <1>5, CalendarFacts
    <3> QED
      BY <3>3, <2>1, <2>3, <1>4, <1>6
  <2>5. CASE late > 0
    <3>1. MonthStart[m] < MonthStart[p + 1]
      BY <2>1, <2>3, <2>5, <1>6
    <3>2. m < p + 1
      BY <3>1, <2>1, <1>5, CalendarFacts
    <3>3. m + 1 < p + 2
      BY <3>2, <2>1
    <3>4. MonthStart[m + 1] + 28 * Unit <= MonthStart[p + 2]
      BY <3>3, <2>1, <1>5, CalendarFacts
    <3> QED
      BY <3>4, <2>1, <2>3, <2>5, <1>4, <1>6
  <2> QED
    BY <2>1, <2>4, <2>5
<1> QED
  BY <1>3, <1>8, <1>9

\* So the months at both ends cover all that lies between.
LEMMA BothCover ==
    ASSUME NEW r \in Ranges, NEW x \in r[1]..r[2] - 1
    PROVE  \E m \in Needed(r) : x \in Window(m)
<1> DEFINE a == r[1]
           b == r[2] - 1
           p == MonthOf(a)
           q == MonthOf(b)
<1>1. a \in 0..End - 1 /\ b \in 0..End - 1 /\ a \in Nat /\ b \in Nat /\ x \in Nat
      /\ a <= x /\ x <= b
  BY RangeFacts, CalendarFacts
<1>2. /\ p \in Months /\ q \in Months /\ MonthStart[p] <= a /\ a < MonthStart[p + 1]
      /\ MonthStart[q] <= b /\ b < MonthStart[q + 1]
  BY <1>1, MonthOfFinds
<1>3. /\ p \in 1..Count - 1 /\ q \in 1..Count - 1 /\ Count \in Nat /\ Unit \in Nat
      /\ q <= p + 1
  BY <1>2, NeededAreNeighbours, CalendarFacts
<1>4. p \in Needed(r) /\ q \in Needed(r)
  BY DEF Needed
<1> HIDE DEF p, q, a, b
<1>5. /\ MonthStart[p] \in Nat /\ MonthStart[p + 1] \in Nat
      /\ MonthStart[q] \in Nat /\ MonthStart[q + 1] \in Nat
      /\ MonthStart[q] <= MonthStart[p + 1]
  <2>1. p \in 1..Count /\ p + 1 \in 1..Count /\ q \in 1..Count /\ q + 1 \in 1..Count
    BY <1>3
  <2>2. /\ MonthStart[p] \in Nat /\ MonthStart[p + 1] \in Nat
        /\ MonthStart[q] \in Nat /\ MonthStart[q + 1] \in Nat
    BY <2>1, CalendarFacts
  <2>3. MonthStart[p + 1] < MonthStart[q] => p + 1 < q
    BY <2>1, CalendarFacts
  <2> QED
    BY <2>2, <2>3, <1>3
<1>6. CASE x < MonthStart[p + 1]
  <2>1. x \in Window(p)
    BY <1>1, <1>2, <1>3, <1>5, <1>6 DEF Window, Days
  <2> QED
    BY <2>1, <1>4
<1>7. CASE x >= MonthStart[p + 1]
  <2>1. x \in Window(q)
    BY <1>1, <1>2, <1>3, <1>5, <1>7 DEF Window, Days
  <2> QED
    BY <2>1, <1>4
<1> QED
  BY <1>1, <1>5, <1>6, <1>7

\* What is taken from enough months is all of the range and nothing else.
LEMMA SufficientCovers ==
    ASSUME NEW r \in Ranges, NEW S, Sufficient(r, S)
    PROVE  UNION {Part(r, m) : m \in S} = r[1]..r[2] - 1
<1>1. ASSUME NEW x \in r[1]..r[2] - 1 PROVE \E m \in S : x \in Part(r, m)
  <2>1. \E m \in S : x \in Window(m)
    <3>1. CASE S = Needed(r)
      BY <3>1, BothCover
    <3>2. CASE EitherMonth(r)
      BY <3>2, EitherCovers DEF Sufficient
    <3> QED
      BY <3>1, <3>2 DEF Sufficient
  <2> QED
    BY <2>1 DEF Part
<1>2. \A m \in S : Part(r, m) \subseteq r[1]..r[2] - 1
  BY DEF Part
<1> QED
  BY <1>1, <1>2

LEMMA AiringInitially == AiringInit => AiringInv
BY DEF AiringInit, AiringInv, AskOK, AskStates, NoAsk, Months

\* Whatever is recorded, what is taken and what is asked for are enough.
LEMMA AskKeeps ==
    ASSUME AiringInv, NEW r \in Ranges, NEW forced \in BOOLEAN, AskSchedule(r, forced)
    PROVE  AiringInv'
<1> DEFINE taken == IF forced THEN {} ELSE Needed(r) \intersect months
<1>1. PICK need \in Missing(r, forced) :
        ask' = [from |-> r[1], to |-> r[2], missing |-> need, fetched |-> {}]
  BY DEF AskSchedule
<1>2. /\ UNCHANGED months /\ months \subseteq Months
      /\ answered' = UNION {Part(r, m) : m \in taken}
  BY DEF AskSchedule, AiringInv
<1>3. taken \subseteq Needed(r) /\ need \subseteq Needed(r) /\ Sufficient(r, taken \union need)
  <2> DEFINE here == Needed(r) \intersect months
  <2>1. Needed(r) # {}
    BY RangeFacts
  <2>2. CASE forced
    <3>1. need = Needed(r) /\ taken = {}
      BY <2>2, <1>1 DEF Missing
    <3> QED
      BY <3>1, <2>1 DEF Sufficient
  <2>3. CASE ~forced /\ here = {} /\ EitherMonth(r)
    <3>1. \E m \in Needed(r) : need = {m}
      BY <2>3, <1>1 DEF Missing
    <3>2. taken \subseteq Needed(r)
      OBVIOUS
    <3> HIDE DEF taken
    <3> QED
      BY <3>1, <3>2, <2>3 DEF Sufficient
  <2>4. CASE ~forced /\ here # {} /\ EitherMonth(r)
    <3>1. need = {} /\ taken = here
      BY <2>4, <1>1 DEF Missing
    <3> QED
      BY <3>1, <2>4 DEF Sufficient
  <2>5. CASE ~forced /\ ~EitherMonth(r)
    <3>1. need = Needed(r) \ here /\ taken = here
      BY <2>5, <1>1 DEF Missing
    <3> QED
      BY <3>1, <2>1 DEF Sufficient
  <2> QED
    BY <2>2, <2>3, <2>4, <2>5
<1>4. /\ r = <<r[1], r[2]>> /\ r[1] \in Int /\ r[2] \in Int /\ Needed(r) \subseteq Months
  BY RangeFacts
<1> HIDE DEF taken
<1>5. ask' \in AskStates /\ ask'.missing \intersect ask'.fetched = {}
  BY <1>1, <1>3, <1>4 DEF AskStates
<1>6. <<ask'.from, ask'.to>> = r /\ ask'.missing = need
  BY <1>1, <1>4
<1>7. AskOK'
  <2>1. EnoughFor(r, answered', need)
    BY <1>2, <1>3 DEF EnoughFor
  <2> QED
    BY <2>1, <1>6 DEF AskOK
<1> QED
  BY <1>2, <1>5, <1>7 DEF AiringInv

LEMMA FetchKeeps == ASSUME AiringInv, NEW n \in Months, FetchMonth(n) PROVE AiringInv'
<1> DEFINE r == <<ask.from, ask.to>>
<1>1. /\ n \in ask.missing /\ ask \in AskStates /\ UNCHANGED months /\ months \subseteq Months
      /\ ask' = [ask EXCEPT !.missing = @ \ {n}, !.fetched = @ \union {n}]
      /\ answered' = answered \union Part(r, n) /\ ask.missing \intersect ask.fetched = {}
  BY DEF FetchMonth, AiringInv
<1>2. ask # NoAsk
  BY <1>1 DEF NoAsk
<1>3. r \in Ranges
  BY <1>2 DEF AiringInv, AskOK, EnoughFor
<1>4. PICK taken \in SUBSET Needed(r) :
        /\ answered = UNION {Part(r, m) : m \in taken}
        /\ Sufficient(r, taken \union ask.missing)
  BY <1>2 DEF AiringInv, AskOK, EnoughFor
<1>5. /\ ask'.from = ask.from /\ ask'.to = ask.to /\ ask'.missing = ask.missing \ {n}
      /\ ask'.fetched = ask.fetched \union {n} /\ ask' \in AskStates
  BY <1>1 DEF AskStates
<1>6. (taken \union {n}) \union (ask.missing \ {n}) = taken \union ask.missing
  BY <1>1
<1>7. n \in Needed(r)
  BY <1>1, <1>4 DEF Sufficient
<1>8. answered' = UNION {Part(r, m) : m \in taken \union {n}}
  BY <1>1, <1>4
<1>9. AskOK'
  <2>1. EnoughFor(r, answered', ask'.missing)
    BY <1>3, <1>4, <1>5, <1>6, <1>7, <1>8 DEF EnoughFor
  <2>2. <<ask'.from, ask'.to>> = r
    BY <1>5
  <2> QED
    BY <2>1, <2>2 DEF AskOK
<1>10. ask'.missing \intersect ask'.fetched = {}
  BY <1>1, <1>5
<1> QED
  BY <1>1, <1>5, <1>9, <1>10 DEF AiringInv

LEMMA AiringStepKeeps == AiringInv /\ [AiringNext]_airingVars => AiringInv'
<1> SUFFICES ASSUME AiringInv, [AiringNext]_airingVars PROVE AiringInv'
  OBVIOUS
<1>1. CASE UNCHANGED airingVars
  BY <1>1 DEF airingVars, AiringInv, AskOK
<1>2. ASSUME NEW r \in Ranges, NEW forced \in BOOLEAN, AskSchedule(r, forced) PROVE AiringInv'
  BY <1>2, AskKeeps
<1>3. ASSUME NEW m \in Months, FetchMonth(m) PROVE AiringInv'
  BY <1>3, FetchKeeps
<1>4. ASSUME NEW m \in Months, ForgetMonth(m) PROVE AiringInv'
  BY <1>4 DEF ForgetMonth, AiringInv, AskOK
<1>5. CASE AnswerSchedule \/ ScheduleFails
  <2>1. ask' = NoAsk /\ months' \subseteq Months
    BY <1>5 DEF AnswerSchedule, ScheduleFails, AiringInv, AskStates
  <2>2. NoAsk \in AskStates /\ NoAsk.missing \intersect NoAsk.fetched = {}
    BY DEF NoAsk, AskStates
  <2> QED
    BY <2>1, <2>2 DEF AiringInv, AskOK
<1> QED
  BY <1>1, <1>2, <1>3, <1>4, <1>5 DEF AiringNext

\* The inductive invariant of the airing schedule.
THEOREM AiringInvariance == AiringSpec => []AiringInv
BY AiringInitially, AiringStepKeeps, PTL DEF AiringSpec

\* A day, a week or a month of any calendar is answered in full, whatever months
\* are recorded, and wherever in the month of UTC the user's month begins
\* (get_airing_schedules_in_range).
THEOREM RangesAreAnswered == AiringSpec => [](AiringTypeOK /\ RangeIsCovered)
<1>1. AiringInv => AiringTypeOK
  BY DEF AiringInv, AskStates, AiringTypeOK
<1>2. AiringInv => RangeIsCovered
  <2> SUFFICES ASSUME AiringInv, ask # NoAsk, ask.missing = {}
               PROVE  answered = ask.from..ask.to - 1
    BY DEF RangeIsCovered
  <2> DEFINE r == <<ask.from, ask.to>>
  <2>1. r \in Ranges /\ r[1] = ask.from /\ r[2] = ask.to
    BY DEF AiringInv, AskOK, EnoughFor
  <2>2. PICK taken \in SUBSET Needed(r) :
            /\ answered = UNION {Part(r, m) : m \in taken}
            /\ Sufficient(r, taken \union ask.missing)
    BY DEF AiringInv, AskOK, EnoughFor
  <2>3. Sufficient(r, taken)
    BY <2>2
  <2> HIDE DEF r
  <2> QED
    BY <2>1, <2>2, <2>3, SufficientCovers
<1> QED
  BY <1>1, <1>2, AiringInvariance, PTL

-----------------------------------------------------------------------------
Names == {Name(r) : r \in Releases}
Videos == [of : Releases \union {0}, whole : BOOLEAN]
TaskStates == [of : Releases, existing : SUBSET Names]
RowStates == [status : LibraryStatus, placed : BOOLEAN, override : BOOLEAN]

LibraryTypes ==
    /\ row \in [Releases -> RowStates] /\ disk \in [Places -> Videos]
    /\ step \in {"rest", "copy", "sweep", "swept"} /\ left \subseteq Names
    /\ tasks \in Seq(TaskStates) /\ intact \in BOOLEAN
    /\ step # "rest" => tasks # <<>>

\* Releases that are named alike come in containers of one kind.
NamesHaveOneSuffix == \A r, s \in Releases : Name(r)[1] = Name(s)[1] => Name(r) = Name(s)

\* A video lies then only where a release has its place.
VideosAreNamed == NamesHaveOneSuffix => \A p \in Places : disk[p] # NoVideo => p \in Names

\* And from the end of its copy on, an import's video is there.
NewVideoIsThere == NamesHaveOneSuffix =>
    (step \in {"sweep", "swept"} /\ intact => disk[Target] = Whole(Current))

LibraryInv == LibraryTypes /\ VideosAreNamed /\ NewVideoIsThere

\* A place is what its name says, and every release has one.
LEMMA PlacesOfReleases ==
    /\ IsFiniteSet(Releases) /\ Releases \subseteq Nat /\ 0 \notin Releases
    /\ Names \subseteq Places
    /\ \A p \in Places : p = <<p[1], p[2]>>
<1>1. IsFiniteSet(Releases) /\ Releases = 1..Cardinality(Releases)
  BY LibraryAssumption
<1>2. Releases \subseteq Nat /\ 0 \notin Releases
  BY <1>1, FS_CardinalityType
<1>3. ASSUME NEW r \in Releases PROVE Name(r) \in Places
  <2>1. Name(r) = <<Name(r)[1], Name(r)[2]>>
    BY LibraryAssumption
  <2>2. <<Name(r)[1], Name(r)[2]>> \in Places
    BY DEF Places, Stems
  <2> QED
    BY <2>1, <2>2
<1> QED
  BY <1>1, <1>2, <1>3 DEF Names, Places

\* The import that is going on, and those that wait.
LEMMA CurrentTask ==
    ASSUME LibraryInv, tasks # <<>>
    PROVE  /\ Current \in Releases /\ Target \in Names /\ Target \in Places
           /\ Head(tasks).existing \subseteq Names /\ Tail(tasks) \in Seq(TaskStates)
<1>1. tasks \in Seq(TaskStates)
  BY DEF LibraryInv, LibraryTypes
<1>2. Head(tasks) \in TaskStates /\ Tail(tasks) \in Seq(TaskStates)
  BY <1>1, HeadTailProperties
<1>3. Current \in Releases /\ Head(tasks).existing \subseteq Names
  BY <1>2 DEF TaskStates, Current
<1> QED
  BY <1>2, <1>3, PlacesOfReleases DEF Target, Names

LEMMA LibraryInitially == LibraryInit => LibraryInv
<1> SUFFICES ASSUME LibraryInit PROVE LibraryInv
  OBVIOUS
<1>1. [status |-> "absent", placed |-> FALSE, override |-> FALSE] \in RowStates
  BY DEF RowStates, LibraryStatus
<1>2. NoVideo \in Videos
  BY DEF NoVideo, Videos
<1>3. <<>> \in Seq(TaskStates)
  OBVIOUS
<1>4. LibraryTypes
  BY <1>1, <1>2, <1>3 DEF LibraryInit, LibraryTypes
<1>5. VideosAreNamed /\ NewVideoIsThere
  BY DEF LibraryInit, VideosAreNamed, NewVideoIsThere
<1> QED
  BY <1>4, <1>5 DEF LibraryInv

\* A step that changes rows only.
LEMMA RowsOnly ==
    ASSUME LibraryInv, row' \in [Releases -> RowStates],
           UNCHANGED <<disk, tasks, step, left, intact>>
    PROVE  LibraryInv'
BY DEF LibraryInv, LibraryTypes, VideosAreNamed, NewVideoIsThere, Target, Current

LEMMA StatusTypes ==
    ASSUME LibraryInv, NEW S, NEW status \in LibraryStatus, SetStatus(S, status)
    PROVE  row' \in [Releases -> RowStates]
<1>1. row \in [Releases -> RowStates]
  BY DEF LibraryInv, LibraryTypes
<1>2. \A r \in Releases : [row[r] EXCEPT !.status = status] \in RowStates
  BY <1>1 DEF RowStates
<1> QED
  BY <1>1, <1>2 DEF SetStatus

LEMMA StatusKeeps ==
    ASSUME LibraryInv, NEW r \in Releases, Create(r) \/ Arrive(r) \/ DeleteRow(r)
    PROVE  LibraryInv'
<1>1. UNCHANGED <<disk, tasks, step, left, intact>>
  BY DEF Create, Arrive, DeleteRow
<1>2. \E status \in LibraryStatus : SetStatus({r}, status)
  BY DEF Create, Arrive, DeleteRow, LibraryStatus
<1> QED
  BY <1>1, <1>2, StatusTypes, RowsOnly

LEMMA FreeStuckKeeps == ASSUME LibraryInv, FreeStuck PROVE LibraryInv'
<1>1. UNCHANGED <<disk, tasks, step, left, intact>>
  BY DEF FreeStuck
<1>2. \E S : SetStatus(S, "failed")
  BY DEF FreeStuck
<1> QED
  BY <1>1, <1>2, StatusTypes, RowsOnly DEF LibraryStatus

LEMMA AskAgainKeeps == ASSUME LibraryInv, NEW r \in Releases, AskAgain(r) PROVE LibraryInv'
<1>1. [status |-> "downloading", placed |-> FALSE, override |-> TRUE] \in RowStates
  BY DEF RowStates, LibraryStatus
<1>2. row' \in [Releases -> RowStates]
  BY <1>1 DEF AskAgain, LibraryInv, LibraryTypes
<1> QED
  BY <1>2, RowsOnly DEF AskAgain

\* A request that removes a file of the import that goes on says so.
LEMMA DeleteFileKeeps == ASSUME LibraryInv, NEW r \in Releases, DeleteFile(r) PROVE LibraryInv'
<1>1. /\ UNCHANGED <<row, tasks, step, left>>
      /\ disk' = [disk EXCEPT ![Name(r)] = NoVideo]
      /\ intact' = (intact /\ (tasks # <<>> => Target # Name(r)))
      /\ disk \in [Places -> Videos] /\ Name(r) \in Places /\ NoVideo \in Videos
  BY PlacesOfReleases DEF DeleteFile, LibraryInv, LibraryTypes, Names, NoVideo, Videos
<1>2. LibraryTypes'
  <2>1. disk' \in [Places -> Videos]
    BY <1>1
  <2>2. intact' \in BOOLEAN
    BY <1>1
  <2> QED
    BY <2>1, <2>2, <1>1 DEF LibraryInv, LibraryTypes
<1>3. VideosAreNamed'
  BY <1>1 DEF LibraryInv, VideosAreNamed
<1>4. NewVideoIsThere'
  <2> SUFFICES ASSUME NamesHaveOneSuffix, step \in {"sweep", "swept"}, intact'
               PROVE  disk'[Target] = Whole(Current)
    BY <1>1 DEF NewVideoIsThere, Target, Current
  <2>1. tasks # <<>>
    BY DEF LibraryInv, LibraryTypes
  <2>2. intact /\ Target # Name(r)
    BY <2>1, <1>1
  <2>3. disk[Target] = Whole(Current)
    BY <2>2 DEF LibraryInv, NewVideoIsThere
  <2>4. Target \in Places
    BY <2>1, CurrentTask
  <2> QED
    BY <2>2, <2>3, <2>4, <1>1
<1> QED
  BY <1>2, <1>3, <1>4 DEF LibraryInv

\* The imports of a run are prepared before the first of them begins.
LEMMA InitiateKeeps == ASSUME LibraryInv, Initiate PROVE LibraryInv'
<1>1. /\ UNCHANGED <<disk, step, left, intact>> /\ step = "rest"
      /\ row \in [Releases -> RowStates]
  BY DEF Initiate, LibraryInv, LibraryTypes
<1> DEFINE due     == {r \in Releases : row[r].status \in {"downloaded", "failed"}}
           dropped == {r \in due : Superseded(r)}
           changed(begun, broken) == [r \in Releases |->
                    CASE r \in dropped -> [row[r] EXCEPT !.status = "discarded"]
                      [] r \in broken  -> [row[r] EXCEPT !.status = "failed"]
                      [] r \in begun   -> [row[r] EXCEPT !.status = "processing", !.placed = TRUE]
                      [] OTHER         -> row[r]]
<1>2. PICK begun \in SUBSET (due \ dropped) :
        /\ row' = changed(begun, (due \ dropped) \ begun)
        /\ \E order \in SetToSeqs(begun) : tasks' = [i \in DOMAIN order |-> Prepared(order[i])]
  BY DEF Initiate
<1>3. row' \in [Releases -> RowStates]
  <2>1. ASSUME NEW r \in Releases
        PROVE  /\ [row[r] EXCEPT !.status = "discarded"] \in RowStates
               /\ [row[r] EXCEPT !.status = "failed"] \in RowStates
               /\ [row[r] EXCEPT !.status = "processing", !.placed = TRUE] \in RowStates
    BY <1>1 DEF RowStates, LibraryStatus
  <2> HIDE DEF dropped, due
  <2> QED
    BY <2>1, <1>1, <1>2
<1>4. tasks' \in Seq(TaskStates)
  <2>1. PICK order \in SetToSeqs(begun) : tasks' = [i \in DOMAIN order |-> Prepared(order[i])]
    BY <1>2
  <2>2. begun \subseteq Releases /\ Cardinality(begun) \in Nat
    <3>1. begun \subseteq Releases
      OBVIOUS
    <3> QED
      BY <3>1, PlacesOfReleases, FS_Subset, FS_CardinalityType
  <2>3. order \in [1..Cardinality(begun) -> Releases]
    BY <2>1, <2>2 DEF SetToSeqs
  <2>4. \A r \in Releases : Prepared(r) \in TaskStates
    BY DEF Prepared, Existing, Names, TaskStates
  <2>5. tasks' \in [1..Cardinality(begun) -> TaskStates]
    BY <2>1, <2>3, <2>4
  <2> QED
    BY <2>2, <2>5
<1>5. LibraryTypes'
  BY <1>1, <1>3, <1>4 DEF LibraryInv, LibraryTypes
<1> QED
  BY <1>1, <1>5 DEF LibraryInv, VideosAreNamed, NewVideoIsThere

LEMMA CopyBeginsKeeps == ASSUME LibraryInv, CopyBegins PROVE LibraryInv'
<1>1. /\ UNCHANGED <<row, tasks, left>> /\ tasks # <<>> /\ step' = "copy" /\ intact' = TRUE
      /\ disk' = [disk EXCEPT ![Target] = CutShort(Current)] /\ disk \in [Places -> Videos]
  BY DEF CopyBegins, LibraryInv, LibraryTypes
<1>2. CutShort(Current) \in Videos
  BY <1>1, CurrentTask DEF CutShort, Videos
<1>3. disk' \in [Places -> Videos]
  BY <1>1, <1>2
<1>4. LibraryTypes'
  BY <1>1, <1>3 DEF LibraryInv, LibraryTypes
<1>5. VideosAreNamed'
  BY <1>1, CurrentTask DEF LibraryInv, VideosAreNamed
<1> QED
  BY <1>1, <1>4, <1>5 DEF LibraryInv, NewVideoIsThere

\* An import that ends, well or badly, leaves the disk as it is.
LEMMA LeavesKeep ==
    ASSUME LibraryInv, tasks # <<>>, CopyFails \/ ImportEnds PROVE LibraryInv'
<1>1. UNCHANGED <<disk, left, intact>> /\ tasks' = Tail(tasks) /\ step' = "rest"
  BY DEF CopyFails, ImportEnds
<1>2. \E S : SetStatus(S, "failed") \/ SetStatus(S, "processed")
  BY DEF CopyFails, ImportEnds, Imported
<1>3. row' \in [Releases -> RowStates]
  BY <1>2, StatusTypes DEF LibraryStatus
<1>4. Tail(tasks) \in Seq(TaskStates)
  BY CurrentTask
<1>5. LibraryTypes'
  BY <1>1, <1>3, <1>4 DEF LibraryInv, LibraryTypes
<1> QED
  BY <1>1, <1>5 DEF LibraryInv, VideosAreNamed, NewVideoIsThere

LEMMA CopyEndsKeeps == ASSUME LibraryInv, CopyEnds PROVE LibraryInv'
<1>1. /\ UNCHANGED <<row, tasks, intact>> /\ tasks # <<>> /\ step' = "sweep"
      /\ left' = Head(tasks).existing /\ disk \in [Places -> Videos]
      /\ disk' = IF intact THEN [disk EXCEPT ![Target] = Whole(Current)] ELSE disk
  BY DEF CopyEnds, LibraryInv, LibraryTypes
<1>2. Whole(Current) \in Videos
  BY <1>1, CurrentTask DEF Whole, Videos
<1>3. disk' \in [Places -> Videos]
  BY <1>1, <1>2
<1>4. LibraryTypes'
  BY <1>1, <1>3, CurrentTask DEF LibraryInv, LibraryTypes
<1>5. VideosAreNamed'
  BY <1>1, CurrentTask DEF LibraryInv, VideosAreNamed
<1>6. NewVideoIsThere'
  BY <1>1, CurrentTask DEF NewVideoIsThere, Target, Current
<1> QED
  BY <1>4, <1>5, <1>6 DEF LibraryInv

\* What a sweep moves or removes has the stem of an older video, and lies where
\* that video lies: at no other place of that stem does a video lie.
LEMMA SweptSpares ==
    ASSUME LibraryInv, NamesHaveOneSuffix, NEW old \in Names, NEW new \in Names, NEW p \in Places
    PROVE  Swept(old, new)[p] = disk[p] \/ (Swept(old, new)[p] = NoVideo /\ p # new)
<1> DEFINE named == <<old[1], p[2]>>
<1>1. old \in Places /\ named \in Places
  BY PlacesOfReleases DEF Places
<1>2. CASE p[1] = old[1] /\ p # new /\ (p = old \/ old[1] # new[1])
  BY <1>2 DEF Swept
<1>3. CASE named # old
  <2>1. named \notin Names
    BY <1>3 DEF NamesHaveOneSuffix, Names
  <2>2. disk[named] = NoVideo
    BY <2>1, <1>1 DEF LibraryInv, VideosAreNamed
  <2>3. (Swept(old, new)[p] = NoVideo /\ p # new) \/ Swept(old, new)[p] = disk[p]
    BY <2>2 DEF Swept
  <2> QED
    BY <2>3
<1>4. CASE named = old /\ ~(p[1] = old[1] /\ p # new /\ (p = old \/ old[1] # new[1]))
  BY <1>4 DEF Swept
<1> QED
  BY <1>2, <1>3, <1>4

LEMMA SweepKeeps == ASSUME LibraryInv, SweepOne PROVE LibraryInv'
<1>1. /\ UNCHANGED <<row, tasks, step, intact>> /\ tasks # <<>> /\ step = "sweep"
      /\ disk \in [Places -> Videos] /\ left \subseteq Names
  BY DEF SweepOne, LibraryInv, LibraryTypes
<1>2. PICK old \in left : disk' = Swept(old, Target) /\ left' = left \ {old}
  BY DEF SweepOne
<1>3. ASSUME NamesHaveOneSuffix
      PROVE  \A p \in Places : disk'[p] = disk[p] \/ (disk'[p] = NoVideo /\ p # Target)
  BY <1>1, <1>2, <1>3, CurrentTask, SweptSpares
<1>4. disk' \in [Places -> Videos]
  <2>1. NoVideo \in Videos
    BY DEF NoVideo, Videos
  <2>2. \A p \in Places : <<old[1], p[2]>> \in Places
    BY <1>1, PlacesOfReleases DEF Places
  <2> QED
    BY <2>1, <2>2, <1>1, <1>2 DEF Swept
<1>5. LibraryTypes'
  BY <1>1, <1>2, <1>4 DEF LibraryInv, LibraryTypes
<1>6. VideosAreNamed'
  BY <1>3 DEF LibraryInv, VideosAreNamed
<1>7. NewVideoIsThere'
  <2>1. NamesHaveOneSuffix => disk'[Target] = disk[Target]
    BY <1>1, <1>3, CurrentTask
  <2> QED
    BY <2>1, <1>1 DEF LibraryInv, NewVideoIsThere, Target, Current
<1> QED
  BY <1>5, <1>6, <1>7 DEF LibraryInv

LEMMA SweepEndsKeeps == ASSUME LibraryInv, SweepEnds PROVE LibraryInv'
<1>1. UNCHANGED <<row, disk, tasks, left, intact>> /\ step = "sweep" /\ step' = "swept"
  BY DEF SweepEnds
<1> QED
  BY <1>1 DEF LibraryInv, LibraryTypes, VideosAreNamed, NewVideoIsThere, Target, Current

LEMMA HaltKeeps == ASSUME LibraryInv, Halt PROVE LibraryInv'
<1>1. UNCHANGED <<disk, intact>> /\ tasks' = <<>> /\ step' = "rest" /\ left' = {}
  BY DEF Halt
<1>2. UNCHANGED row \/ \E S : SetStatus(S, "processed")
  BY DEF Halt, Imported
<1>3. row' \in [Releases -> RowStates]
  BY <1>2, StatusTypes DEF LibraryStatus, LibraryInv, LibraryTypes
<1> QED
  BY <1>1, <1>3 DEF LibraryInv, LibraryTypes, VideosAreNamed, NewVideoIsThere

LEMMA LibraryStepKeeps ==
    ASSUME LibraryInv, [LibraryNext]_libraryVars PROVE LibraryInv'
<1>1. CASE UNCHANGED libraryVars
  BY <1>1 DEF libraryVars, LibraryInv, LibraryTypes, VideosAreNamed, NewVideoIsThere,
     Target, Current
<1>2. ASSUME NEW r \in Releases,
             Create(r) \/ Arrive(r) \/ DeleteFile(r) \/ DeleteRow(r) \/ AskAgain(r)
      PROVE  LibraryInv'
  BY <1>2, StatusKeeps, DeleteFileKeeps, AskAgainKeeps
<1>3. CASE Initiate \/ CopyBegins \/ CopyEnds
  BY <1>3, InitiateKeeps, CopyBeginsKeeps, CopyEndsKeeps
<1>4. CASE CopyFails \/ ImportEnds
  <2>1. tasks # <<>>
    BY <1>4 DEF CopyFails, ImportEnds, LibraryInv, LibraryTypes
  <2> QED
    BY <2>1, <1>4, LeavesKeep
<1>5. CASE SweepOne \/ SweepEnds \/ Halt \/ FreeStuck
  BY <1>5, SweepKeeps, SweepEndsKeeps, HaltKeeps, FreeStuckKeeps
<1> QED
  BY <1>1, <1>2, <1>3, <1>4, <1>5 DEF LibraryNext

\* The inductive invariant of the library.
THEOREM LibraryInvariance == LibrarySpec => []LibraryInv
<1>1. LibraryInv /\ [LibraryNext]_libraryVars => LibraryInv'
  BY LibraryStepKeeps
<1> QED
  BY <1>1, LibraryInitially, PTL DEF LibrarySpec

\* Types of the library's files and rows.
THEOREM LibraryTyped == LibrarySpec => []LibraryTypeOK
<1>1. LibraryInv => LibraryTypeOK
  BY PlacesOfReleases
     DEF LibraryInv, LibraryTypes, LibraryTypeOK, RowStates, Videos
<1> QED
  BY <1>1, LibraryInvariance, PTL

\* Whatever imports of one episode fail, are repeated, halted or overtaken, and
\* whatever requests remove meanwhile, no sweep destroys the video that the import
\* has just copied (_replace_existing_files) - as long as releases that are named
\* alike come in one container; of two containers it is not so.
THEOREM SweptVideoStays == ASSUME NamesHaveOneSuffix PROVE LibrarySpec => []NewVideoStays
<1>1. LibraryInv => NewVideoStays
  BY DEF LibraryInv, NewVideoIsThere, NewVideoStays
<1> QED
  BY <1>1, LibraryInvariance, PTL
=============================================================================
