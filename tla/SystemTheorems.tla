---------------------------- MODULE SystemTheorems ----------------------------
(***************************************************************************)
(* What holds of the program as a whole: the components of MCSystem keep   *)
(* what each of them promises alone, for every instance. Proved here for   *)
(* the settings, the user's list and the services' health; the others      *)
(* have theorems of their own.                                             *)
(***************************************************************************)
EXTENDS MCSystem, BackupTheorems, StorageTheorems

\* Two updates never hold the same row.
RowsAreLocked ==
    \A e, o \in Editors : e # o => update[e].wrote \intersect update[o].wrote = {}

\* What an update has put into memory it has written before; at most one row is
\* ahead of memory, and only while that code is its next one.
SettingsProgress ==
    \A e \in Editors :
        /\ update[e].at = "none" => update[e].kept = {} /\ update[e].wrote = {}
        /\ update[e].at \in {"write", "keep"} => update[e].todo # <<>>
        /\ update[e].at \in {"compare", "write"} => update[e].wrote = update[e].kept
        /\ update[e].at = "keep" => update[e].wrote = update[e].kept \union {Code(e)}

\* Memory holds what an update has put there until it ends.
MemoryIsKept ==
    \A e \in Editors :
        /\ update[e].wrote \union ToSet(update[e].todo) \subseteq DOMAIN update[e].wanted
        /\ \A c \in update[e].kept : memory[c] = update[e].wanted[c]

SettingsInv == SettingsTypeOK /\ RowsAreLocked /\ SettingsProgress /\ MemoryIsKept /\ MemoryFollowsRows

USE SettingsAssumption

\* The values that an update writes are values that the program accepts.
LEMMA WantedValues ==
    ASSUME NEW u \in Updates, NEW c \in DOMAIN u.wanted
    PROVE  c \in Codes /\ u.wanted[c] \in Values
  BY DEF Updates

\* The first code of a form that is not done, and the others.
LEMMA NextCode ==
    ASSUME NEW s \in Seq(Codes), s # <<>>
    PROVE  /\ Head(s) \in ToSet(s) /\ Tail(s) \in Seq(Codes)
           /\ Head(s) \in Codes /\ ToSet(Tail(s)) \subseteq ToSet(s)
<1>1. Len(s) \in Nat \ {0} /\ DOMAIN s = 1..Len(s)
  OBVIOUS
<1>2. Head(s) = s[1] /\ Tail(s) \in Seq(Codes) /\ Len(Tail(s)) = Len(s) - 1
  BY <1>1
<1>3. \A i \in 1..(Len(s) - 1) : Tail(s)[i] = s[i + 1]
  BY <1>1
<1>4. DOMAIN Tail(s) = 1..(Len(s) - 1)
  BY <1>2
<1> QED
  BY <1>1, <1>2, <1>3, <1>4 DEF ToSet

\* No update is well typed.
LEMMA NoUpdateIsOne == NoUpdate \in Updates
<1>1. <<>> \in [{} -> Values]
  OBVIOUS
<1>2. <<>> \in UNION {[S -> Values] : S \in SUBSET Codes}
  <2>1. {} \in SUBSET Codes
    OBVIOUS
  <2> QED
    BY <1>1, <2>1
<1>3. <<>> \in Seq(Codes) /\ {} \in SUBSET Codes
  OBVIOUS
<1> HIDE DEF Values
<1> DEFINE W == UNION {[S -> Values] : S \in SUBSET Codes}
<1> DEFINE U == [at : {"none", "compare", "write", "keep"}, todo : Seq(Codes), wanted : W,
                wrote : SUBSET Codes, kept : SUBSET Codes]
<1>4. <<>> \in W
  BY <1>2
<1>5. [at |-> "none", todo |-> <<>>, wanted |-> <<>>, wrote |-> {}, kept |-> {}] \in U
  <2> HIDE DEF W
  <2> QED
    BY <1>3, <1>4
<1> QED
  BY <1>5 DEF NoUpdate, Updates

\* The invariant holds at the start, and each step keeps it.
LEMMA SettingsInitially == SettingsInit => SettingsInv
<1> SUFFICES ASSUME SettingsInit PROVE SettingsInv
  OBVIOUS
<1>1. SettingsTypeOK
  BY NoUpdateIsOne DEF SettingsInit, SettingsTypeOK
<1>2. \A e \in Editors : update[e] = NoUpdate
  BY DEF SettingsInit
<1>3. RowsAreLocked /\ SettingsProgress
  BY <1>2 DEF RowsAreLocked, SettingsProgress, NoUpdate
<1>4. MemoryIsKept
  <2>1. ToSet(<<>>) = {}
    BY DEF ToSet
  <2> QED
    BY <1>2, <2>1 DEF MemoryIsKept, NoUpdate
<1>5. MemoryFollowsRows
  BY DEF SettingsInit, MemoryFollowsRows
<1> QED
  BY <1>1, <1>3, <1>4, <1>5 DEF SettingsInv

\* An update that ends or begins holds nothing.
LEMMA Released ==
    ASSUME SettingsInv, NEW e \in Editors, NEW u \in Updates,
           update' = [update EXCEPT ![e] = u],
           u.wrote = {}, u.kept = {}, u.at \in {"none", "compare"},
           ToSet(u.todo) \subseteq DOMAIN u.wanted, memory' = memory
    PROVE  /\ update' \in [Editors -> Updates]
           /\ RowsAreLocked' /\ SettingsProgress' /\ MemoryIsKept'
<1>1. update' \in [Editors -> Updates] /\ update'[e] = u
  BY DEF SettingsInv, SettingsTypeOK
<1>2. \A o \in Editors \ {e} : update'[o] = update[o]
  BY DEF SettingsInv, SettingsTypeOK
<1>3. RowsAreLocked'
  BY <1>1, <1>2 DEF SettingsInv, RowsAreLocked
<1>4. SettingsProgress'
  BY <1>1, <1>2 DEF SettingsInv, SettingsProgress, Code
<1>5. MemoryIsKept'
  BY <1>1, <1>2 DEF SettingsInv, MemoryIsKept
<1> QED
  BY <1>1, <1>3, <1>4, <1>5

LEMMA SubmitKeeps ==
    ASSUME SettingsInv, NEW e \in Editors, SubmitForm(e) PROVE SettingsInv'
<1>0. PICK form \in Forms : \E offered \in [ToSet(form) -> Offered] :
        /\ \A c \in ToSet(form) : Valid(form, offered)[c] # Refused
        /\ update' = [update EXCEPT ![e] =
                        [at |-> "compare", todo |-> form, wanted |-> Valid(form, offered),
                         wrote |-> {}, kept |-> {}]]
  BY DEF SubmitForm
<1>1. PICK offered \in [ToSet(form) -> Offered] :
        /\ \A c \in ToSet(form) : Valid(form, offered)[c] # Refused
        /\ update' = [update EXCEPT ![e] =
                        [at |-> "compare", todo |-> form, wanted |-> Valid(form, offered),
                         wrote |-> {}, kept |-> {}]]
  BY <1>0
<1> DEFINE u == [at |-> "compare", todo |-> form, wanted |-> Valid(form, offered),
                 wrote |-> {}, kept |-> {}]
<1>3. form \in Seq(Codes) /\ ToSet(form) \subseteq Codes
  BY DEF ToSet
<1>4. Valid(form, offered) \in [ToSet(form) -> Values]
  BY <1>1, <1>3 DEF Valid, Values
<1>5. u \in Updates
  BY <1>3, <1>4 DEF Updates
<1>6. DOMAIN u.wanted = ToSet(form)
  BY DEF Valid
<1>7. /\ update' = [update EXCEPT ![e] = u] /\ UNCHANGED <<memory, settings, astray>>
      /\ update[e].kept = {} /\ submits' \in 0..MaxSubmits
  <2>1. update' = [update EXCEPT ![e] = u]
    BY <1>1
  <2>2. UNCHANGED <<memory, settings, astray>> /\ submits' = submits + 1 /\ submits < MaxSubmits
    BY DEF SubmitForm
  <2>3. update[e].kept = {}
    BY DEF SubmitForm, SettingsInv, SettingsProgress
  <2> QED
    BY <2>1, <2>2, <2>3 DEF SettingsInv, SettingsTypeOK
<1>8. update' \in [Editors -> Updates] /\ RowsAreLocked' /\ SettingsProgress' /\ MemoryIsKept'
  BY <1>5, <1>6, <1>7, Released
<1>9. SettingsTypeOK'
  BY <1>7, <1>8 DEF SettingsInv, SettingsTypeOK
<1>10. MemoryFollowsRows'
  BY <1>7 DEF SettingsInv, SettingsTypeOK, MemoryFollowsRows
<1> QED
  BY <1>8, <1>9, <1>10 DEF SettingsInv

LEMMA CompareKeeps ==
    ASSUME SettingsInv, NEW e \in Editors, CompareSetting(e) PROVE SettingsInv'
<1>1. /\ update[e] \in Updates /\ update[e].at = "compare" /\ update[e].todo # <<>>
      /\ update[e].todo \in Seq(Codes) /\ UNCHANGED <<memory, settings, astray, submits>>
  BY DEF CompareSetting, SettingsInv, SettingsTypeOK, Updates
<1>2. PICK new \in {[update[e] EXCEPT !.todo = Tail(@)], [update[e] EXCEPT !.at = "write"]} :
        update' = [update EXCEPT ![e] = new]
  <2>1. CASE update' = [update EXCEPT ![e].todo = Tail(@)]
    BY <2>1 DEF SettingsInv, SettingsTypeOK
  <2>2. CASE update' = [update EXCEPT ![e].at = "write"]
    BY <2>2 DEF SettingsInv, SettingsTypeOK
  <2> QED
    BY <2>1, <2>2 DEF CompareSetting
<1>3. new \in Updates
  BY <1>1, <1>2, NextCode DEF Updates
<1>4. update' \in [Editors -> Updates] /\ update'[e] = new
  BY <1>2, <1>3 DEF SettingsInv, SettingsTypeOK
<1>5. \A o \in Editors \ {e} : update'[o] = update[o]
  BY <1>2 DEF SettingsInv, SettingsTypeOK
<1>6. /\ new.wrote = update[e].wrote /\ new.kept = update[e].kept
      /\ new.wanted = update[e].wanted /\ ToSet(new.todo) \subseteq ToSet(update[e].todo)
      /\ new.at = "compare" \/ (new.at = "write" /\ new.todo # <<>>)
  <2>1. CASE new = [update[e] EXCEPT !.todo = Tail(@)]
    BY <1>1, <2>1, NextCode DEF Updates
  <2>2. CASE new = [update[e] EXCEPT !.at = "write"]
    BY <1>1, <2>2 DEF Updates
  <2> QED
    BY <1>2, <2>1, <2>2
<1>7. RowsAreLocked'
  BY <1>4, <1>5, <1>6 DEF SettingsInv, RowsAreLocked
<1>8. SettingsProgress'
  BY <1>1, <1>4, <1>5, <1>6 DEF SettingsInv, SettingsProgress, Code
<1>9. MemoryIsKept'
  BY <1>1, <1>4, <1>5, <1>6 DEF SettingsInv, MemoryIsKept
<1>10. MemoryFollowsRows'
  BY <1>1, <1>4, <1>5, <1>6 DEF SettingsInv, MemoryFollowsRows
<1>11. SettingsTypeOK'
  BY <1>1, <1>4 DEF SettingsInv, SettingsTypeOK
<1> QED
  BY <1>7, <1>8, <1>9, <1>10, <1>11 DEF SettingsInv

LEMMA WriteKeeps ==
    ASSUME SettingsInv, NEW e \in Editors, WriteSetting(e) PROVE SettingsInv'
<1> DEFINE new == [update[e] EXCEPT !.at = "keep", !.wrote = @ \union {Code(e)}]
<1>1. /\ update[e] \in Updates /\ update[e].at = "write" /\ update[e].todo # <<>>
      /\ update[e].todo \in Seq(Codes) /\ UNCHANGED <<memory, settings, astray, submits>>
  BY DEF WriteSetting, SettingsInv, SettingsTypeOK, Updates, SettingsProgress
<1>2. update' = [update EXCEPT ![e] = new]
  BY DEF WriteSetting, SettingsInv, SettingsTypeOK
<1>3. Code(e) \in Codes /\ Code(e) \in ToSet(update[e].todo)
  BY <1>1, NextCode DEF Code
<1>4. /\ new \in Updates /\ new.at = "keep" /\ new.wrote = update[e].wrote \union {Code(e)}
      /\ new.kept = update[e].kept /\ new.todo = update[e].todo
      /\ new.wanted = update[e].wanted
  BY <1>1, <1>3 DEF Updates
<1> HIDE DEF new
<1>5. update' \in [Editors -> Updates] /\ update'[e] = new
  BY <1>2, <1>4 DEF SettingsInv, SettingsTypeOK
<1>6. \A o \in Editors \ {e} : update'[o] = update[o] /\ Code(e) \notin update[o].wrote
  BY <1>2 DEF SettingsInv, SettingsTypeOK, WriteSetting
<1>7. RowsAreLocked'
  BY <1>4, <1>5, <1>6 DEF SettingsInv, RowsAreLocked
<1>8. SettingsProgress'
  BY <1>1, <1>4, <1>5, <1>6 DEF SettingsInv, SettingsProgress, Code
<1>9. MemoryIsKept'
  BY <1>1, <1>3, <1>4, <1>5, <1>6 DEF SettingsInv, MemoryIsKept
<1>10. MemoryFollowsRows'
  BY <1>1, <1>4, <1>5, <1>6 DEF SettingsInv, MemoryFollowsRows
<1>11. SettingsTypeOK'
  BY <1>1, <1>5 DEF SettingsInv, SettingsTypeOK
<1> QED
  BY <1>7, <1>8, <1>9, <1>10, <1>11 DEF SettingsInv

LEMMA KeepKeeps ==
    ASSUME SettingsInv, NEW e \in Editors, KeepSetting(e) PROVE SettingsInv'
<1> DEFINE new == [update[e] EXCEPT !.at = "compare", !.todo = Tail(@),
                                    !.kept = @ \union {Code(e)}]
<1>1. /\ update[e] \in Updates /\ update[e].at = "keep" /\ update[e].todo # <<>>
      /\ update[e].todo \in Seq(Codes) /\ UNCHANGED <<settings, astray, submits>>
      /\ update[e].wrote = update[e].kept \union {Code(e)}
  BY DEF KeepSetting, SettingsInv, SettingsTypeOK, Updates, SettingsProgress
<1>2. update' = [update EXCEPT ![e] = new] /\ memory' = [memory EXCEPT ![Code(e)] = NewValue(e)]
  BY DEF KeepSetting, SettingsInv, SettingsTypeOK
<1>3. Code(e) \in Codes /\ Code(e) \in ToSet(update[e].todo)
  BY <1>1, NextCode DEF Code
<1>4. /\ new \in Updates /\ new.at = "compare" /\ new.wrote = update[e].wrote
      /\ new.kept = update[e].wrote /\ new.wanted = update[e].wanted
      /\ ToSet(new.todo) \subseteq ToSet(update[e].todo)
  BY <1>1, <1>3, NextCode DEF Updates
<1> HIDE DEF new
<1>5. update' \in [Editors -> Updates] /\ update'[e] = new
  BY <1>2, <1>4 DEF SettingsInv, SettingsTypeOK
<1>6. \A o \in Editors \ {e} : update'[o] = update[o]
  BY <1>2 DEF SettingsInv, SettingsTypeOK
<1>7. NewValue(e) = update[e].wanted[Code(e)] /\ NewValue(e) \in Values
  <2>1. Code(e) \in DOMAIN update[e].wanted
    BY <1>3 DEF SettingsInv, MemoryIsKept
  <2> QED
    BY <1>1, <2>1, WantedValues DEF NewValue
<1>8. /\ memory' \in [Codes -> Values] /\ memory'[Code(e)] = update[e].wanted[Code(e)]
      /\ \A c \in Codes \ {Code(e)} : memory'[c] = memory[c]
  BY <1>2, <1>3, <1>7 DEF SettingsInv, SettingsTypeOK
<1>9. RowsAreLocked'
  BY <1>4, <1>5, <1>6 DEF SettingsInv, RowsAreLocked
<1>10. SettingsProgress'
  BY <1>1, <1>4, <1>5, <1>6 DEF SettingsInv, SettingsProgress, Code
<1>11. MemoryIsKept'
  <2>1. ASSUME NEW o \in Editors \ {e}
        PROVE  \A c \in update[o].kept : c \in Codes /\ c # Code(e)
    <3>1. update[o].kept \subseteq update[o].wrote
      BY DEF SettingsInv, SettingsProgress, SettingsTypeOK, Updates
    <3>2. update[o].wrote \subseteq Codes /\ Code(e) \notin update[o].wrote
      BY <1>1 DEF SettingsInv, RowsAreLocked, SettingsTypeOK, Updates
    <3> QED
      BY <3>1, <3>2
  <2>2. ASSUME NEW c \in new.kept PROVE memory'[c] = new.wanted[c]
    BY <1>1, <1>4, <1>8 DEF SettingsInv, MemoryIsKept, SettingsTypeOK, Updates
  <2> QED
    BY <1>4, <1>5, <1>6, <1>8, <2>1, <2>2 DEF SettingsInv, MemoryIsKept
<1>12. MemoryFollowsRows'
  BY <1>1, <1>4, <1>5, <1>6, <1>8 DEF SettingsInv, MemoryFollowsRows
<1>13. SettingsTypeOK'
  BY <1>1, <1>5, <1>8 DEF SettingsInv, SettingsTypeOK
<1> QED
  BY <1>9, <1>10, <1>11, <1>12, <1>13 DEF SettingsInv

\* No update holds anything.
LEMMA Nothing ==
    /\ NoUpdate \in Updates /\ NoUpdate.wrote = {} /\ NoUpdate.kept = {}
    /\ NoUpdate.at = "none" /\ ToSet(NoUpdate.todo) \subseteq DOMAIN NoUpdate.wanted
<1>1. ToSet(<<>>) = {}
  BY DEF ToSet
<1> QED
  BY <1>1, NoUpdateIsOne DEF NoUpdate

LEMMA AnswerKeeps ==
    ASSUME SettingsInv, NEW e \in Editors, AnswerUpdate(e) PROVE SettingsInv'
<1>1. /\ update' = [update EXCEPT ![e] = NoUpdate] /\ UNCHANGED <<memory, submits>>
      /\ settings' = [c \in Codes |-> IF c \in update[e].wrote THEN update[e].wanted[c]
                                      ELSE settings[c]]
      /\ astray' = astray \ update[e].wrote
      /\ update[e].wrote = update[e].kept /\ update[e] \in Updates
  BY DEF AnswerUpdate, SettingsInv, SettingsProgress, SettingsTypeOK
<1>2. update' \in [Editors -> Updates] /\ RowsAreLocked' /\ SettingsProgress' /\ MemoryIsKept'
  BY <1>1, Nothing, Released
<1>3. SettingsTypeOK'
  <2>1. ASSUME NEW c \in update[e].wrote PROVE update[e].wanted[c] \in Values
    BY <1>1, WantedValues DEF SettingsInv, MemoryIsKept
  <2> QED
    BY <1>1, <1>2, <2>1 DEF SettingsInv, SettingsTypeOK
<1>4. MemoryFollowsRows'
  <2> SUFFICES ASSUME NEW c \in Codes, memory[c] # settings'[c]
               PROVE  c \in astray' \/ \E o \in Editors : c \in update'[o].kept
    BY <1>1 DEF MemoryFollowsRows
  <2>1. c \notin update[e].wrote
    BY <1>1 DEF SettingsInv, MemoryIsKept
  <2>2. CASE c \in astray
    BY <1>1, <2>1, <2>2
  <2>3. CASE c \notin astray
    <3>1. memory[c] # settings[c]
      BY <1>1, <2>1
    <3>2. PICK o \in Editors : c \in update[o].kept
      BY <2>3, <3>1 DEF SettingsInv, MemoryFollowsRows
    <3>3. o # e
      BY <1>1, <2>1, <3>2
    <3> QED
      BY <1>1, <3>2, <3>3 DEF SettingsInv, SettingsTypeOK
  <2> QED
    BY <2>2, <2>3
<1> QED
  BY <1>2, <1>3, <1>4 DEF SettingsInv

LEMMA BreakKeeps ==
    ASSUME SettingsInv, NEW e \in Editors, BreakUpdate(e) PROVE SettingsInv'
<1>1. /\ update' = [update EXCEPT ![e] = NoUpdate] /\ UNCHANGED <<memory, settings, submits>>
      /\ astray' = astray \union update[e].kept /\ update[e].kept \subseteq Codes
  BY DEF BreakUpdate, SettingsInv, SettingsTypeOK, Updates
<1>2. update' \in [Editors -> Updates] /\ RowsAreLocked' /\ SettingsProgress' /\ MemoryIsKept'
  BY <1>1, Nothing, Released
<1>3. SettingsTypeOK'
  BY <1>1, <1>2 DEF SettingsInv, SettingsTypeOK
<1>4. MemoryFollowsRows'
  BY <1>1 DEF SettingsInv, SettingsTypeOK, MemoryFollowsRows
<1> QED
  BY <1>2, <1>3, <1>4 DEF SettingsInv

LEMMA RestartKeeps == ASSUME SettingsInv, RestartSettings PROVE SettingsInv'
<1>1. \A e \in Editors : update'[e] = NoUpdate
  BY DEF RestartSettings
<1>2. /\ memory' = settings /\ UNCHANGED <<settings, submits>> /\ astray' = {}
      /\ update' \in [Editors -> Updates]
  BY NoUpdateIsOne DEF RestartSettings
<1>3. SettingsTypeOK' /\ MemoryFollowsRows'
  BY <1>2 DEF SettingsInv, SettingsTypeOK, MemoryFollowsRows
<1>4. RowsAreLocked' /\ SettingsProgress' /\ MemoryIsKept'
  BY <1>1, Nothing DEF RowsAreLocked, SettingsProgress, MemoryIsKept
<1> QED
  BY <1>3, <1>4 DEF SettingsInv

LEMMA SettingsStepKeeps == SettingsInv /\ [SettingsNext]_settingsVars => SettingsInv'
<1> SUFFICES ASSUME SettingsInv, [SettingsNext]_settingsVars PROVE SettingsInv'
  OBVIOUS
<1>1. CASE UNCHANGED settingsVars
  BY <1>1 DEF settingsVars, SettingsInv, SettingsTypeOK, RowsAreLocked, SettingsProgress, MemoryIsKept,
              MemoryFollowsRows, Code
<1>2. CASE RestartSettings
  BY <1>2, RestartKeeps
<1>3. ASSUME NEW e \in Editors,
             \/ SubmitForm(e) \/ CompareSetting(e) \/ WriteSetting(e) \/ KeepSetting(e)
             \/ AnswerUpdate(e) \/ BreakUpdate(e)
      PROVE  SettingsInv'
  BY <1>3, SubmitKeeps, CompareKeeps, WriteKeeps, KeepKeeps, AnswerKeeps, BreakKeeps
<1> QED
  BY <1>1, <1>2, <1>3 DEF SettingsNext

\* The inductive invariant of the settings.
THEOREM SettingsInvariance == SettingsSpec => []SettingsInv
BY SettingsInitially, SettingsStepKeeps, PTL DEF SettingsSpec

\* The types of the settings' state, for every instance.
THEOREM SettingsTypes == SettingsSpec => []SettingsTypeOK
BY SettingsInvariance, PTL DEF SettingsInv

\* Memory and the rows differ only in what a running update has put into memory
\* or a failed one has left there (SettingsComponent.update_settings).
THEOREM MemoryStaysWithRows == SettingsSpec => []MemoryFollowsRows
BY SettingsInvariance, PTL DEF SettingsInv
-----------------------------------------------------------------------------
\* The user's list and its copy.

Lists == UNION {[D -> Entries] : D \in SUBSET Shows}

SessionStates ==
    [op : Wanted \union {"none", "refresh", "login", "logout", "delete"},
     pc : {"idle", "fetch", "fetched", "replaced", "differs", "same", "clear", "call"},
     list : Lists, rows : SUBSET Shows, calls : SUBSET SUBSET Shows]

\* What a refresh has fetched is a whole list, and only a change has calls to make.
SessionOK(c) ==
    /\ c \in SessionStates
    /\ c.pc \in {"fetched", "replaced", "differs", "same"} => c.list \in [Shows -> Entries]
    /\ c.calls # {} => c.op \in Wanted

RowsApart == session["worker"].rows \intersect session["request"].rows = {}

ListInv ==
    /\ account \in Users \union {NoUser} /\ saved \in Users \union {NoUser}
    /\ remote \in [Users -> [Shows -> Entries]] /\ cached \in [Shows -> Entries]
    /\ DOMAIN session = Sessions /\ \A s \in Sessions : SessionOK(session[s])
    /\ session = [s \in Sessions |-> session[s]]
    /\ RowsApart
    /\ edits \in 0..MaxEdits

LEMMA ListsAre ==
    ASSUME NEW D \in SUBSET Shows, NEW f \in [D -> Entries]
    PROVE  f \in Lists
BY DEF Lists

LEMMA ListOf ==
    ASSUME NEW f \in Lists
    PROVE  DOMAIN f \in SUBSET Shows /\ f \in [DOMAIN f -> Entries]
BY DEF Lists

LEMMA IdleIsOne == SessionOK(Idle) /\ Idle.rows = {} /\ Idle \in SessionStates /\ Idle.calls = {}
<1>1. NoList \in Lists
  <2>1. NoList \in [{} -> Entries]
    BY DEF NoList, Entries
  <2> QED
    BY <2>1, ListsAre
<1> HIDE DEF NoList
<1> QED
  BY <1>1 DEF Idle, SessionOK, SessionStates

\* Laid over one another, lists are lists; over a whole one, a whole one.
LEMMA WithIs ==
    ASSUME NEW new \in Lists, NEW old \in Lists
    PROVE  With(new, old) \in Lists /\ DOMAIN With(new, old) = DOMAIN new \union DOMAIN old
<1>1. /\ DOMAIN new \in SUBSET Shows /\ DOMAIN old \in SUBSET Shows
      /\ new \in [DOMAIN new -> Entries] /\ old \in [DOMAIN old -> Entries]
  BY ListOf
<1>2. With(new, old) \in [DOMAIN new \union DOMAIN old -> Entries]
  BY <1>1 DEF With
<1>3. DOMAIN new \union DOMAIN old \in SUBSET Shows
  BY <1>1
<1> QED
  BY <1>2, <1>3, ListsAre

LEMMA WithWhole ==
    ASSUME NEW new \in Lists, NEW old \in [Shows -> Entries]
    PROVE  With(new, old) \in [Shows -> Entries]
<1>1. DOMAIN new \in SUBSET Shows /\ new \in [DOMAIN new -> Entries]
  BY ListOf
<1> QED
  BY <1>1 DEF With

LEMMA ListInitially == ListInit => ListInv
<1> SUFFICES ASSUME ListInit PROVE ListInv
  OBVIOUS
<1>1. account \in Users \union {NoUser} /\ saved \in Users \union {NoUser}
  BY DEF ListInit
<1>2. remote \in [Users -> [Shows -> Entries]]
  BY ListAssumption DEF ListInit
<1>3. cached \in [Shows -> Entries]
  <2>1. \A a \in Shows : account # NoUser => remote[account][a] \in Entries
    BY <1>1, <1>2
  <2> QED
    BY <2>1 DEF ListInit, Entries
<1>4. session = [s \in Sessions |-> Idle] /\ edits = 0
  BY DEF ListInit
<1>5. \A s \in Sessions : session[s] = Idle
  BY <1>4
<1>6. RowsApart
  BY <1>5, IdleIsOne DEF RowsApart, Sessions
<1>7. edits \in 0..MaxEdits
  BY <1>4, ListAssumption
<1> QED
  BY <1>1, <1>2, <1>3, <1>4, <1>5, <1>6, <1>7, IdleIsOne DEF ListInv

\* A step of one transaction.
LEMMA MoveKeeps ==
    ASSUME ListInv, NEW s \in Sessions, NEW c, Move(s, c), SessionOK(c),
           \A t \in Sessions \ {s} : c.rows \intersect session[t].rows = {},
           account' \in Users \union {NoUser}, saved' \in Users \union {NoUser},
           remote' \in [Users -> [Shows -> Entries]], cached' \in [Shows -> Entries],
           edits' \in 0..MaxEdits
    PROVE  ListInv'
<1>1. DOMAIN session = Sessions /\ session' = [session EXCEPT ![s] = c]
  BY DEF ListInv, Move
<1>2. /\ DOMAIN session' = Sessions /\ session'[s] = c
      /\ \A t \in Sessions \ {s} : session'[t] = session[t]
      /\ session' = [t \in Sessions |-> session'[t]]
  BY <1>1
<1>3. \A t \in Sessions : SessionOK(session'[t])
  BY <1>2 DEF ListInv
<1>4. RowsApart'
  <2>1. /\ "worker" \in Sessions /\ "request" \in Sessions /\ Sessions = {"worker", "request"}
    BY DEF Sessions
  <2>2. CASE s = "worker"
    <3>1. session'["worker"].rows = c.rows /\ session'["request"].rows = session["request"].rows
      BY <1>2, <2>1, <2>2
    <3>2. c.rows \intersect session["request"].rows = {}
      BY <2>1, <2>2
    <3> QED
      BY <3>1, <3>2 DEF RowsApart
  <2>3. CASE s = "request"
    <3>1. session'["request"].rows = c.rows /\ session'["worker"].rows = session["worker"].rows
      BY <1>2, <2>1, <2>3
    <3>2. c.rows \intersect session["worker"].rows = {}
      BY <2>1, <2>3
    <3> QED
      BY <3>1, <3>2 DEF RowsApart
  <2> QED
    BY <2>1, <2>2, <2>3
<1>5. \A t \in Sessions : SessionOK(session[t])'
  BY <1>3 DEF SessionOK
<1> QED
  BY <1>2, <1>4, <1>5 DEF ListInv

\* One that keeps what it has written.
LEMMA SameRows ==
    ASSUME ListInv, NEW s \in Sessions, NEW t \in Sessions \ {s}
    PROVE  session[s].rows \intersect session[t].rows = {}
<1>1. (s = "worker" /\ t = "request") \/ (s = "request" /\ t = "worker")
  BY DEF Sessions
<1> QED
  BY <1>1 DEF ListInv, RowsApart

LEMMA MemoryTyped ==
    ASSUME ListInv
    PROVE  /\ account \in Users \union {NoUser} /\ saved \in Users \union {NoUser}
           /\ remote \in [Users -> [Shows -> Entries]] /\ cached \in [Shows -> Entries]
           /\ edits \in 0..MaxEdits
BY DEF ListInv

LEMMA EditTyped == ASSUME ListInv, Edit PROVE edits' \in 0..MaxEdits
BY ListAssumption DEF ListInv, Edit

LEMMA RollbackKeeps == ASSUME ListInv, NEW s \in Sessions, Rollback(s) PROVE ListInv'
<1>1. Move(s, Idle) /\ UNCHANGED <<account, saved, remote, cached, edits>>
  BY DEF Rollback
<1> QED
  BY <1>1, IdleIsOne, MoveKeeps, MemoryTyped

LEMMA FetchListKeeps == ASSUME ListInv, NEW s \in Sessions, Fetch(s) PROVE ListInv'
<1> DEFINE b == session[s]
           o == IF b.op = "none" THEN "refresh" ELSE b.op
           c == [b EXCEPT !.pc = "fetched", !.list = ListOnAniList, !.op = o]
<1>1. account # NoUser /\ UNCHANGED <<account, saved, remote, cached, edits>>
  BY DEF Fetch
<1>2. Move(s, c)
  BY DEF Fetch
<1>3. ListOnAniList \in [Shows -> Entries]
  BY <1>1, MemoryTyped DEF ListOnAniList
<1>4. ListOnAniList \in Lists
  BY <1>3, ListsAre
<1>5. SessionOK(b)
  BY DEF ListInv
<1> HIDE DEF b
<1>6. /\ o \in Wanted \union {"none", "refresh", "login", "logout", "delete"}
      /\ b.op \in Wanted => o = b.op
  BY <1>5, ListAssumption DEF SessionOK, SessionStates, Entries
<1> HIDE DEF o
<1>7. SessionOK(c) /\ c.rows = b.rows
  BY <1>3, <1>4, <1>5, <1>6 DEF SessionOK, SessionStates
<1>8. \A t \in Sessions \ {s} : c.rows \intersect session[t].rows = {}
  BY <1>7, SameRows DEF b
<1> HIDE DEF c
<1> QED
  BY <1>1, <1>2, <1>7, <1>8, MoveKeeps, MemoryTyped

LEMMA ReplaceKeeps == ASSUME ListInv, NEW s \in Sessions, Replace(s) PROVE ListInv'
<1> DEFINE b == session[s]
           rows == Touched(b.list)
           c == [b EXCEPT !.pc = "replaced", !.rows = rows]
<1>1. /\ b.pc = "fetched" /\ ~Locked(Shows, s) /\ Move(s, c)
      /\ UNCHANGED <<account, saved, remote, cached, edits>>
  BY DEF Replace
<1>2. rows \in SUBSET Shows
  BY DEF Touched
<1>3. SessionOK(b)
  BY DEF ListInv
<1>4. \A t \in Sessions \ {s} : session[t].rows = {}
  <2>1. \A t \in Sessions : session[t].rows \in SUBSET Shows
    BY DEF ListInv, SessionOK, SessionStates
  <2> QED
    BY <1>1, <2>1 DEF Locked
<1> HIDE DEF b, rows
<1>5. SessionOK(c) /\ c.rows = rows
  BY <1>1, <1>2, <1>3 DEF SessionOK, SessionStates
<1> HIDE DEF c
<1> QED
  BY <1>1, <1>4, <1>5, MoveKeeps, MemoryTyped

LEMMA UserDataKeeps == ASSUME ListInv, NEW s \in Sessions, UserData(s) PROVE ListInv'
<1> DEFINE b == session[s]
<1>1. /\ b.pc = "replaced" /\ UNCHANGED <<account, saved, remote, cached, edits>>
      /\ \E pc \in {"differs", "same"} : Move(s, [b EXCEPT !.pc = pc])
  BY DEF UserData
<1>2. PICK pc \in {"differs", "same"} : Move(s, [b EXCEPT !.pc = pc])
  BY <1>1
<1> DEFINE c == [b EXCEPT !.pc = pc]
<1>3. SessionOK(b)
  BY DEF ListInv
<1> HIDE DEF b
<1>4. SessionOK(c) /\ c.rows = b.rows
  BY <1>1, <1>3 DEF SessionOK, SessionStates
<1>5. \A t \in Sessions \ {s} : c.rows \intersect session[t].rows = {}
  BY <1>4, SameRows DEF b
<1>6. Move(s, c)
  BY <1>2
<1> HIDE DEF c
<1> QED
  BY <1>1, <1>4, <1>5, <1>6, MoveKeeps, MemoryTyped

LEMMA StoreListKeeps == ASSUME ListInv, NEW s \in Sessions, StoreList(s) PROVE ListInv'
<1>1. /\ session[s].pc \in {"differs", "same"} /\ Move(s, Idle)
      /\ cached' = [a \in Shows |-> IF a \in session[s].rows THEN session[s].list[a] ELSE cached[a]]
      /\ saved' = (IF session[s].op = "login" THEN account ELSE saved)
      /\ UNCHANGED <<account, remote, edits>>
  BY DEF StoreList
<1>2. session[s].list \in [Shows -> Entries]
  BY <1>1 DEF ListInv, SessionOK
<1>3. cached' \in [Shows -> Entries]
  BY <1>1, <1>2, MemoryTyped
<1>4. saved' \in Users \union {NoUser}
  BY <1>1, MemoryTyped
<1> QED
  BY <1>1, <1>3, <1>4, IdleIsOne, MoveKeeps, MemoryTyped

\* What a request begins with.
LEMMA RequestBegins ==
    ASSUME ListInv, NEW c, Move("request", c), SessionOK(c), c.rows = {},
           account' \in Users \union {NoUser}, saved' \in Users \union {NoUser},
           remote' \in [Users -> [Shows -> Entries]], cached' \in [Shows -> Entries],
           edits' \in 0..MaxEdits
    PROVE  ListInv'
<1>1. "request" \in Sessions
  BY DEF Sessions
<1> QED
  BY <1>1, MoveKeeps

LEMMA RequestsKeep ==
    ASSUME ListInv, RequestRefresh \/ Logout \/ \E u \in Users : Login(u)
    PROVE  ListInv'
<1>1. /\ Edit /\ UNCHANGED <<saved, remote, cached>> /\ account' \in Users \union {NoUser}
      /\ \E op \in {"refresh", "login", "logout"}, pc \in {"fetch", "clear"} :
            Move("request", [Idle EXCEPT !.op = op, !.pc = pc])
  BY MemoryTyped DEF RequestRefresh, Logout, Login
<1>2. PICK op \in {"refresh", "login", "logout"}, pc \in {"fetch", "clear"} :
        Move("request", [Idle EXCEPT !.op = op, !.pc = pc])
  BY <1>1
<1> DEFINE c == [Idle EXCEPT !.op = op, !.pc = pc]
<1>3. SessionOK(c) /\ c.rows = {}
  BY IdleIsOne DEF SessionOK, SessionStates
<1>4. Move("request", c)
  BY <1>2
<1> HIDE DEF c
<1> QED
  BY <1>1, <1>3, <1>4, RequestBegins, EditTyped, MemoryTyped

LEMMA ClearKeeps == ASSUME ListInv, Clear PROVE ListInv'
<1>1. /\ Move("request", Idle) /\ cached' = [a \in Shows |-> "absent"] /\ saved' = NoUser
      /\ UNCHANGED <<account, remote, edits>>
  BY DEF Clear
<1>2. cached' \in [Shows -> Entries]
  BY <1>1 DEF Entries
<1> QED
  BY <1>1, <1>2, IdleIsOne, RequestBegins, MemoryTyped

LEMMA UpdateEntriesKeeps ==
    ASSUME ListInv, NEW shows \in SUBSET Shows, NEW new \in Wanted, UpdateEntries(shows, new)
    PROVE  ListInv'
<1> DEFINE calls == {{a \in shows : Kind(cached[a], new) = k} : k \in 1..4} \ {{}}
           c == [Idle EXCEPT !.op = new, !.pc = "call", !.calls = calls]
<1>1. Edit /\ Move("request", c) /\ UNCHANGED <<account, saved, remote, cached>>
  BY DEF UpdateEntries
<1>2. calls \in SUBSET SUBSET Shows
  OBVIOUS
<1> HIDE DEF calls
<1>3. SessionOK(c) /\ c.rows = {}
  BY <1>2, IdleIsOne DEF SessionOK, SessionStates
<1> HIDE DEF c
<1> QED
  BY <1>1, <1>3, RequestBegins, EditTyped, MemoryTyped

LEMMA CallKeeps ==
    ASSUME ListInv, NEW shows \in SUBSET Shows, NEW lost \in BOOLEAN, Call(shows, lost)
    PROVE  ListInv'
<1> DEFINE b == session["request"]
           said == [a \in shows |-> b.op]
           c == [b EXCEPT !.list = With(said, b.list), !.calls = b.calls \ {shows}]
<1>1. /\ shows \in b.calls /\ account # NoUser
      /\ remote' = [remote EXCEPT ![account] = With(said, @)]
      /\ Move("request", IF lost THEN Idle ELSE c)
      /\ UNCHANGED <<account, saved, cached, edits>> /\ b.pc = "call"
  BY DEF Call
<1>2. SessionOK(b) /\ "request" \in Sessions
  BY DEF ListInv, Sessions
<1>3. said \in [shows -> Entries]
  BY <1>1, <1>2, ListAssumption DEF SessionOK
<1>4. said \in Lists
  BY <1>3, ListsAre
<1> HIDE DEF b, said
<1>5. remote' \in [Users -> [Shows -> Entries]]
  <2>1. account \in Users /\ remote[account] \in [Shows -> Entries]
    BY <1>1, MemoryTyped
  <2>2. With(said, remote[account]) \in [Shows -> Entries]
    BY <1>4, <2>1, WithWhole
  <2> QED
    BY <1>1, <2>1, <2>2, MemoryTyped
<1>6. With(said, b.list) \in Lists
  BY <1>2, <1>4, WithIs DEF SessionOK, SessionStates
<1>7. SessionOK(c) /\ c.rows = b.rows
  <2> DEFINE l == With(said, b.list)
             k == b.calls \ {shows}
  <2>1. l \in Lists /\ k \in SUBSET SUBSET Shows /\ (k # {} => b.calls # {})
    BY <1>2, <1>6 DEF SessionOK, SessionStates
  <2> HIDE DEF l, k
  <2>2. c = [b EXCEPT !.list = l, !.calls = k]
    BY DEF l, k
  <2> HIDE DEF c
  <2> QED
    BY <1>1, <1>2, <2>1, <2>2 DEF SessionOK, SessionStates
<1> HIDE DEF c
<1>8. CASE lost
  <2>1. Move("request", Idle)
    BY <1>1, <1>8
  <2> QED
    BY <1>1, <1>5, <2>1, IdleIsOne, RequestBegins, MemoryTyped
<1>9. CASE ~lost
  <2>1. Move("request", c)
    BY <1>1, <1>9
  <2>2. \A t \in Sessions \ {"request"} : c.rows \intersect session[t].rows = {}
    BY <1>2, <1>7, SameRows DEF b
  <2> QED
    BY <1>1, <1>2, <1>5, <1>7, <2>1, <2>2, MoveKeeps, MemoryTyped
<1> QED
  BY <1>8, <1>9

LEMMA DeleteKeeps ==
    ASSUME ListInv, NEW shows \in SUBSET Shows, NEW lost \in BOOLEAN, DeleteEntries(shows, lost)
    PROVE  ListInv'
<1> DEFINE gone == [a \in shows |-> "absent"]
           c == [Idle EXCEPT !.op = "delete", !.pc = "call", !.list = gone]
<1>1. /\ Edit /\ account # NoUser /\ UNCHANGED <<account, saved, cached>>
      /\ remote' = [remote EXCEPT ![account] = With(gone, @)]
      /\ Move("request", IF lost \/ RefusesToDelete(shows) THEN Idle ELSE c)
  BY DEF DeleteEntries
<1>2. gone \in [shows -> Entries]
  BY DEF Entries
<1>3. gone \in Lists
  BY <1>2, ListsAre
<1> HIDE DEF gone
<1>4. remote' \in [Users -> [Shows -> Entries]]
  <2>1. account \in Users /\ remote[account] \in [Shows -> Entries]
    BY <1>1, MemoryTyped
  <2>2. With(gone, remote[account]) \in [Shows -> Entries]
    BY <1>3, <2>1, WithWhole
  <2> QED
    BY <1>1, <2>1, <2>2, MemoryTyped
<1>5. SessionOK(c) /\ c.rows = {}
  BY <1>3, IdleIsOne DEF SessionOK, SessionStates
<1> HIDE DEF c
<1>6. Move("request", Idle) \/ Move("request", c)
  BY <1>1
<1> QED
  BY <1>1, <1>4, <1>5, <1>6, IdleIsOne, RequestBegins, EditTyped, MemoryTyped

LEMMA SaveEntriesKeeps == ASSUME ListInv, SaveEntries PROVE ListInv'
<1>1. /\ Move("request", Idle) /\ cached' = With(session["request"].list, cached)
      /\ UNCHANGED <<account, saved, remote, edits>>
  BY DEF SaveEntries
<1>2. session["request"].list \in Lists
  BY DEF ListInv, SessionOK, SessionStates, Sessions
<1>3. cached' \in [Shows -> Entries]
  BY <1>1, <1>2, WithWhole, MemoryTyped
<1> QED
  BY <1>1, <1>3, IdleIsOne, RequestBegins, MemoryTyped

LEMMA EditElsewhereKeeps ==
    ASSUME ListInv, NEW u \in Users, NEW a \in Shows, NEW new \in Wanted \union {"absent"},
           EditElsewhere(u, a, new)
    PROVE  ListInv'
<1>1. /\ Edit /\ remote' = [remote EXCEPT ![u][a] = new]
      /\ UNCHANGED <<account, saved, cached, session>>
  BY DEF EditElsewhere
<1>2. remote' \in [Users -> [Shows -> Entries]]
  <2>1. new \in Entries
    BY ListAssumption DEF Entries
  <2> QED
    BY <1>1, <2>1, MemoryTyped
<1>3. RowsApart' /\ \A s \in Sessions : SessionOK(session[s])'
  BY <1>1 DEF ListInv, RowsApart, SessionOK
<1> QED
  BY <1>1, <1>2, <1>3, EditTyped DEF ListInv

LEMMA StopAndStartKeeps == ASSUME ListInv, StopAndStart PROVE ListInv'
<1>1. /\ Edit /\ account' = saved /\ session' = [s \in Sessions |-> Idle]
      /\ UNCHANGED <<saved, remote, cached>>
  BY DEF StopAndStart
<1>2. \A s \in Sessions : SessionOK(session[s])' /\ session'[s].rows = {}
  <2>1. \A s \in Sessions : session'[s] = Idle
    BY <1>1
  <2> QED
    BY <2>1, IdleIsOne DEF SessionOK
<1>3. RowsApart'
  BY <1>2 DEF RowsApart, Sessions
<1> QED
  BY <1>1, <1>2, <1>3, EditTyped, MemoryTyped DEF ListInv

LEMMA ListStays == ASSUME ListInv, UNCHANGED listVars PROVE ListInv'
<1>1. UNCHANGED <<account, saved, remote, cached, session, edits>>
  BY DEF listVars
<1>2. RowsApart' /\ \A s \in Sessions : SessionOK(session[s])'
  BY <1>1 DEF ListInv, RowsApart, SessionOK
<1> QED
  BY <1>1, <1>2 DEF ListInv

LEMMA ListStepKeeps == ListInv /\ [ListNext]_listVars => ListInv'
<1> SUFFICES ASSUME ListInv, [ListNext]_listVars PROVE ListInv'
  OBVIOUS
<1>1. ASSUME NEW s \in Sessions, Refresh(s) \/ Rollback(s) PROVE ListInv'
  BY <1>1, FetchListKeeps, ReplaceKeeps, UserDataKeeps, StoreListKeeps, RollbackKeeps DEF Refresh
<1>2. CASE RequestRefresh \/ Logout \/ \E u \in Users : Login(u)
  BY <1>2, RequestsKeep
<1>3. ASSUME NEW shows \in SUBSET Shows, NEW new \in Wanted, UpdateEntries(shows, new) PROVE ListInv'
  BY <1>3, UpdateEntriesKeeps
<1>4. ASSUME NEW shows \in SUBSET Shows, NEW lost \in BOOLEAN,
             Call(shows, lost) \/ DeleteEntries(shows, lost)
      PROVE  ListInv'
  BY <1>4, CallKeeps, DeleteKeeps
<1>5. ASSUME NEW u \in Users, NEW a \in Shows, NEW new \in Wanted \union {"absent"},
             EditElsewhere(u, a, new)
      PROVE  ListInv'
  BY <1>5, EditElsewhereKeeps
<1>6. CASE Clear \/ SaveEntries \/ StopAndStart \/ UNCHANGED listVars
  BY <1>6, ClearKeeps, SaveEntriesKeeps, StopAndStartKeeps, ListStays
<1> QED
  BY <1>1, <1>2, <1>3, <1>4, <1>5, <1>6 DEF ListNext

LEMMA ListInvTypes == ListInv => ListTypeOK
<1> SUFFICES ASSUME ListInv PROVE ListTypeOK
  OBVIOUS
<1>1. \A s \in Sessions : DOMAIN session[s].list \subseteq Shows
  BY ListOf DEF ListInv, SessionOK, SessionStates
<1> QED
  BY <1>1, MemoryTyped DEF ListInv, ListTypeOK, RowsApart
-----------------------------------------------------------------------------
\* The checks of the services and the notifications.

ServiceStates == Faults \union {"ok", "unset"}

Notes ==
    [about : Service \union {"download"}, reason : ServiceStates \union Failures,
     status : {"UNREAD", "READ", "STALE"}]

CheckerStates ==
    [pc : {"idle", "check", "wait", "compare", "notify"}, left : Seq(Service),
     old : {<<>>} \union [Service -> ServiceStates], pending : Seq(Notes)]

\* What a check has left is no longer than the list, it waits for a service it has
\* left, and it notifies of services only.
CheckerOK(c) ==
    /\ c \in CheckerStates /\ Len(c.left) <= Len(Services)
    /\ c.pc \in {"wait", "notify"} => c.left # <<>>
    /\ \A i \in DOMAIN c.pending : c.pending[i].about \in Service

\* A download that is given up is notified once for each status, whatever becomes
\* of the notification.
GivenUpOnce ==
    \A i, j \in DOMAIN notes :
        notes[i].about = "download" /\ notes[j].about = "download" /\ notes[i].reason = notes[j].reason
            => i = j

\* What is about to be inserted is not there yet.
Produced ==
    produce = <<>> \/ \E r \in Failures :
        /\ produce = <<Note("download", r)>>
        /\ \A i \in DOMAIN notes : notes[i].about # "download" \/ notes[i].reason # r

HealthInv ==
    /\ answer \in [Service -> Faults \union {"ok"}] /\ status \in [Service -> ServiceStates]
    /\ DOMAIN checker = Checkers /\ \A c \in Checkers : CheckerOK(checker[c])
    /\ download \in Failures \union {"fine"}
    /\ notes \in Seq(Notes) /\ Len(notes) <= MaxNotes /\ retract \subseteq DOMAIN notes
    /\ GivenUpOnce /\ Produced

LEMMA ServicesAre ==
    /\ Services \in Seq(Service) /\ "download" \notin Service /\ MaxNotes \in Nat
    /\ Len(Services) \in Nat
    /\ \A s \in Service : 1 <= Len(Services)
BY HealthAssumption DEF Service

LEMMA NotCheckingIsOK == CheckerOK(NotChecking) /\ NotChecking.pending = <<>>
BY ServicesAre DEF NotChecking, CheckerOK, CheckerStates

LEMMA HealthInitially == HealthInit => HealthInv
<1> SUFFICES ASSUME HealthInit PROVE HealthInv
  OBVIOUS
<1>1. checker = [c \in Checkers |-> NotChecking] /\ notes = <<>> /\ produce = <<>> /\ retract = {}
  BY DEF HealthInit
<1>2. answer \in [Service -> Faults \union {"ok"}] /\ status \in [Service -> ServiceStates]
  BY DEF HealthInit, ServiceStates
<1>3. GivenUpOnce /\ Produced
  BY <1>1 DEF GivenUpOnce, Produced
<1>4. notes \in Seq(Notes) /\ Len(notes) <= MaxNotes
  BY <1>1, ServicesAre
<1>5. DOMAIN checker = Checkers /\ \A c \in Checkers : CheckerOK(checker[c])
  BY <1>1, NotCheckingIsOK
<1>6. download \in Failures \union {"fine"}
  BY DEF HealthInit
<1> QED
  BY <1>1, <1>2, <1>3, <1>4, <1>5, <1>6 DEF HealthInv

\* A step of one check.
LEMMA GoKeeps ==
    ASSUME HealthInv, NEW c \in Checkers, NEW new, Go(c, new), CheckerOK(new),
           status' \in [Service -> ServiceStates],
           UNCHANGED <<answer, isset, download, notes, retract, produce>>
    PROVE  HealthInv'
<1>1. /\ checker' = [checker EXCEPT ![c] = new] /\ DOMAIN checker = Checkers
      /\ \A d \in Checkers : CheckerOK(checker[d])
  BY DEF Go, HealthInv
<1>2. DOMAIN checker' = Checkers /\ \A d \in Checkers : CheckerOK(checker'[d])
  BY <1>1
<1>3. \A d \in Checkers : CheckerOK(checker[d])'
  BY <1>2 DEF CheckerOK
<1>4. GivenUpOnce' /\ Produced'
  BY DEF HealthInv, GivenUpOnce, Produced
<1> QED
  BY <1>2, <1>3, <1>4 DEF HealthInv

\* A step that leaves the checks alone.
LEMMA NotesKeep ==
    ASSUME HealthInv, UNCHANGED checker,
           answer' \in [Service -> Faults \union {"ok"}], status' \in [Service -> ServiceStates],
           download' \in Failures \union {"fine"},
           notes' \in Seq(Notes), Len(notes') <= MaxNotes, retract' \subseteq DOMAIN notes',
           GivenUpOnce', Produced'
    PROVE  HealthInv'
<1>1. DOMAIN checker' = Checkers /\ \A d \in Checkers : CheckerOK(checker[d])'
  BY DEF HealthInv, CheckerOK
<1> QED
  BY <1>1 DEF HealthInv

LEMMA CheckerTyped ==
    ASSUME HealthInv, NEW c \in Checkers
    PROVE  CheckerOK(checker[c]) /\ status \in [Service -> ServiceStates]
BY DEF HealthInv

LEMMA BeginsKeep ==
    ASSUME HealthInv, NEW c \in Checkers, NEW list \in Seq(Service), Len(list) <= Len(Services),
           Begin(c, list)
    PROVE  HealthInv'
<1> DEFINE new == [NotChecking EXCEPT !.pc = "check", !.left = list, !.old = status]
<1>1. Go(c, new) /\ UNCHANGED <<answer, isset, status, download, notes, retract, produce>>
  BY DEF Begin
<1>2. CheckerOK(new)
  BY CheckerTyped, NotCheckingIsOK DEF CheckerOK, CheckerStates
<1> HIDE DEF new
<1> QED
  BY <1>1, <1>2, CheckerTyped, GoKeeps

\* The rest of a list.
LEMMA RestIs ==
    ASSUME NEW list \in Seq(Service), list # <<>>, Len(list) <= Len(Services)
    PROVE  /\ Head(list) \in Service /\ Tail(list) \in Seq(Service)
           /\ Len(Tail(list)) <= Len(Services)
BY ServicesAre

LEMMA AskServiceKeeps == ASSUME HealthInv, NEW c \in Checkers, Ask(c) PROVE HealthInv'
<1> DEFINE b == checker[c]
           s == Head(b.left)
           wait == [b EXCEPT !.pc = "wait"]
           next == [b EXCEPT !.left = Tail(@)]
<1>1. /\ b.pc = "check" /\ b.left # <<>>
      /\ status' = (IF s \in isset THEN status ELSE [status EXCEPT ![s] = "unset"])
      /\ Go(c, IF s \in isset \union AskedUnset THEN wait ELSE next)
      /\ UNCHANGED <<answer, isset, download, notes, retract, produce>>
  BY DEF Ask
<1>2. CheckerOK(b) /\ status \in [Service -> ServiceStates]
  BY CheckerTyped
<1> HIDE DEF b
<1>3. /\ s \in Service /\ Tail(b.left) \in Seq(Service) /\ Len(Tail(b.left)) <= Len(Services)
  BY <1>1, <1>2, RestIs DEF CheckerOK, CheckerStates
<1> HIDE DEF s
<1>4. status' \in [Service -> ServiceStates]
  BY <1>1, <1>2 DEF ServiceStates
<1>5. CheckerOK(wait)
  BY <1>1, <1>2 DEF CheckerOK, CheckerStates
<1>6. CheckerOK(next)
  BY <1>1, <1>2, <1>3 DEF CheckerOK, CheckerStates
<1> HIDE DEF wait, next
<1>7. Go(c, wait) \/ Go(c, next)
  BY <1>1
<1> QED
  BY <1>1, <1>4, <1>5, <1>6, <1>7, GoKeeps

LEMMA AnsweredKeeps == ASSUME HealthInv, NEW c \in Checkers, Answered(c) PROVE HealthInv'
<1> DEFINE b == checker[c]
           s == Head(b.left)
           new == [b EXCEPT !.pc = "check", !.left = Tail(@)]
<1>1. /\ b.pc = "wait"
      /\ status' = (IF answer[s] = "ok" /\ s \in AskedUnset \ isset THEN status
                    ELSE [status EXCEPT ![s] = answer[s]])
      /\ Go(c, new) /\ UNCHANGED <<answer, isset, download, notes, retract, produce>>
  BY DEF Answered
<1>2. CheckerOK(b) /\ status \in [Service -> ServiceStates] /\ answer \in [Service -> Faults \union {"ok"}]
  BY CheckerTyped DEF HealthInv
<1> HIDE DEF b
<1>3. b.left # <<>> /\ s \in Service /\ Tail(b.left) \in Seq(Service) /\ Len(Tail(b.left)) <= Len(Services)
  BY <1>1, <1>2, RestIs DEF CheckerOK, CheckerStates
<1> HIDE DEF s
<1>4. status' \in [Service -> ServiceStates]
  <2>1. answer[s] \in ServiceStates
    BY <1>2, <1>3 DEF ServiceStates
  <2> QED
    BY <1>1, <1>2, <2>1
<1>5. CheckerOK(new)
  BY <1>1, <1>2, <1>3 DEF CheckerOK, CheckerStates
<1> HIDE DEF new
<1> QED
  BY <1>1, <1>4, <1>5, GoKeeps

LEMMA CheckedKeeps == ASSUME HealthInv, NEW c \in Checkers, Checked(c) PROVE HealthInv'
<1> DEFINE b == checker[c]
           new == [b EXCEPT !.pc = "compare", !.left = Services]
<1>1. Go(c, new) /\ UNCHANGED <<answer, isset, status, download, notes, retract, produce>>
  BY DEF Checked
<1>2. CheckerOK(b) /\ status \in [Service -> ServiceStates]
  BY CheckerTyped
<1> HIDE DEF b
<1>3. Services \in Seq(Service) /\ Len(Services) <= Len(Services)
  BY ServicesAre
<1>4. CheckerOK(new)
  <2>1. new \in CheckerStates
    BY <1>2, <1>3 DEF CheckerOK, CheckerStates
  <2>2. new.pc = "compare" /\ new.left = Services /\ new.pending = b.pending
    BY <1>2 DEF CheckerOK, CheckerStates
  <2> HIDE DEF new
  <2> QED
    BY <1>2, <1>3, <2>1, <2>2 DEF CheckerOK
<1> HIDE DEF new
<1> QED
  BY <1>1, <1>2, <1>4, GoKeeps

LEMMA CompareServicesKeeps == ASSUME HealthInv, NEW c \in Checkers, Compare(c) PROVE HealthInv'
<1> DEFINE b == checker[c]
           told == [b EXCEPT !.pc = "notify"]
           next == [b EXCEPT !.left = Tail(@)]
<1>1. /\ b.pc = "compare" /\ b.left # <<>> /\ (Go(c, told) \/ Go(c, next))
      /\ UNCHANGED <<answer, isset, status, download, notes, retract, produce>>
  BY DEF Compare
<1>2. CheckerOK(b) /\ status \in [Service -> ServiceStates]
  BY CheckerTyped
<1> HIDE DEF b
<1>3. Tail(b.left) \in Seq(Service) /\ Len(Tail(b.left)) <= Len(Services)
  BY <1>1, <1>2, RestIs DEF CheckerOK, CheckerStates
<1>4. CheckerOK(told)
  BY <1>1, <1>2 DEF CheckerOK, CheckerStates
<1>5. CheckerOK(next)
  BY <1>1, <1>2, <1>3 DEF CheckerOK, CheckerStates
<1> HIDE DEF told, next
<1> QED
  BY <1>1, <1>2, <1>4, <1>5, GoKeeps

LEMMA NotifyKeeps == ASSUME HealthInv, NEW c \in Checkers, Notify(c) PROVE HealthInv'
<1> DEFINE b == checker[c]
           s == Head(b.left)
           note == Note(s, status[s])
           more == Append(b.pending, note)
           new == [b EXCEPT !.pc = "compare", !.left = Tail(@), !.pending = more]
<1>1. /\ b.pc = "notify" /\ Go(c, new)
      /\ UNCHANGED <<answer, isset, status, download, notes, retract, produce>>
  BY DEF Notify
<1>2. CheckerOK(b) /\ status \in [Service -> ServiceStates]
  BY CheckerTyped
<1> HIDE DEF b
<1>3. s \in Service /\ Tail(b.left) \in Seq(Service) /\ Len(Tail(b.left)) <= Len(Services)
  BY <1>1, <1>2, RestIs DEF CheckerOK, CheckerStates
<1>4. note \in Notes /\ note.about = s
  BY <1>2, <1>3 DEF Note, Notes
<1> HIDE DEF s, note
<1>5. more \in Seq(Notes) /\ \A i \in DOMAIN more : more[i].about \in Service
  <2>1. b.pending \in Seq(Notes) /\ \A i \in DOMAIN b.pending : b.pending[i].about \in Service
    BY <1>2 DEF CheckerOK, CheckerStates
  <2> QED
    BY <1>3, <1>4, <2>1
<1> HIDE DEF more
<1>6. CheckerOK(new)
  BY <1>2, <1>3, <1>5 DEF CheckerOK, CheckerStates
<1> HIDE DEF new
<1> QED
  BY <1>1, <1>2, <1>6, GoKeeps

\* Notifications of services added to those there are.
LEMMA CommittedKeeps == ASSUME HealthInv, NEW c \in Checkers, Committed(c) PROVE HealthInv'
<1> DEFINE pending == checker[c].pending
<1>1. /\ Len(notes \o pending) <= MaxNotes /\ notes' = notes \o pending /\ Go(c, NotChecking)
      /\ UNCHANGED <<answer, isset, status, download, retract, produce>>
  BY DEF Committed
<1>2. /\ pending \in Seq(Notes) /\ \A i \in DOMAIN pending : pending[i].about \in Service
      /\ notes \in Seq(Notes) /\ retract \subseteq DOMAIN notes
  BY DEF HealthInv, CheckerOK, CheckerStates
<1> HIDE DEF pending
<1>3. /\ notes' \in Seq(Notes) /\ DOMAIN notes \subseteq DOMAIN notes'
      /\ \A i \in DOMAIN notes : notes'[i] = notes[i]
      /\ \A i \in DOMAIN notes' \ DOMAIN notes : notes'[i].about \in Service
  BY <1>1, <1>2
<1>4. \A i \in DOMAIN notes' : notes'[i].about = "download" => i \in DOMAIN notes
  BY <1>3, ServicesAre
<1>5. GivenUpOnce'
  BY <1>3, <1>4 DEF HealthInv, GivenUpOnce
<1>6. Produced'
  BY <1>1, <1>3, <1>4 DEF HealthInv, Produced
<1>7. /\ checker' = [checker EXCEPT ![c] = NotChecking] /\ DOMAIN checker = Checkers
      /\ \A d \in Checkers : CheckerOK(checker[d])
  BY <1>1 DEF Go, HealthInv
<1>8. DOMAIN checker' = Checkers /\ \A d \in Checkers : CheckerOK(checker'[d])
  BY <1>7, NotCheckingIsOK
<1>9. \A d \in Checkers : CheckerOK(checker[d])'
  BY <1>8 DEF CheckerOK
<1> QED
  BY <1>1, <1>2, <1>3, <1>5, <1>6, <1>8, <1>9 DEF HealthInv

\* Notifications keep what they are about and why.
LEMMA StatusOfNotes ==
    ASSUME HealthInv, UNCHANGED <<answer, status, checker, download, produce>>,
           notes' \in Seq(Notes), DOMAIN notes' = DOMAIN notes, Len(notes') = Len(notes),
           \A i \in DOMAIN notes : notes'[i].about = notes[i].about /\ notes'[i].reason = notes[i].reason,
           retract' \subseteq DOMAIN notes
    PROVE  HealthInv'
<1>1. GivenUpOnce' /\ Produced'
  BY DEF HealthInv, GivenUpOnce, Produced
<1> QED
  BY <1>1, NotesKeep DEF HealthInv

LEMMA RewrittenNotes ==
    ASSUME HealthInv, NEW marked, NEW new \in {"READ", "UNREAD", "STALE"},
           UNCHANGED <<answer, status, checker, download, produce>>,
           notes' = [i \in DOMAIN notes |-> IF i \in marked THEN [notes[i] EXCEPT !.status = new]
                                            ELSE notes[i]],
           retract' \subseteq DOMAIN notes
    PROVE  HealthInv'
<1>1. notes \in Seq(Notes) /\ Len(notes) \in Nat /\ DOMAIN notes = 1..Len(notes)
  BY DEF HealthInv
<1>2. DOMAIN notes' = 1..Len(notes)
  BY <1>1
<1>3. ASSUME NEW i \in DOMAIN notes
      PROVE  notes'[i] \in Notes /\ notes'[i].about = notes[i].about /\ notes'[i].reason = notes[i].reason
  <2>1. notes[i] \in Notes
    BY <1>1
  <2>2. /\ [notes[i] EXCEPT !.status = new] \in Notes
        /\ [notes[i] EXCEPT !.status = new].about = notes[i].about
        /\ [notes[i] EXCEPT !.status = new].reason = notes[i].reason
    BY <2>1 DEF Notes
  <2>3. notes'[i] = [notes[i] EXCEPT !.status = new] \/ notes'[i] = notes[i]
    OBVIOUS
  <2> QED
    BY <2>1, <2>2, <2>3
<1>4. notes' = [i \in 1..Len(notes) |-> notes'[i]]
  BY <1>1, <1>2
<1>5. notes' \in Seq(Notes) /\ Len(notes') = Len(notes)
  BY <1>1, <1>2, <1>3, <1>4
<1> QED
  BY <1>1, <1>2, <1>3, <1>5, StatusOfNotes

LEMMA HealthStays == ASSUME HealthInv, UNCHANGED healthVars PROVE HealthInv'
<1>1. /\ UNCHANGED <<answer, status, checker, download, notes, retract, produce>>
      /\ notes \in Seq(Notes) /\ retract \subseteq DOMAIN notes
  BY DEF healthVars, HealthInv
<1> QED
  BY <1>1, StatusOfNotes

LEMMA FindKeeps == ASSUME HealthInv, FindGivenUp PROVE HealthInv'
<1>1. /\ produce' = <<Note("download", download)>> /\ download \in Failures
      /\ \A i \in DOMAIN notes : notes[i].about # "download" \/ notes[i].reason # download
      /\ UNCHANGED <<answer, status, checker, download, notes, retract>>
  BY DEF FindGivenUp
<1>2. Produced'
  <2>1. Note("download", download)' = Note("download", download)
    BY <1>1 DEF Note
  <2> QED
    BY <1>1, <2>1 DEF Produced
<1>3. GivenUpOnce'
  BY <1>1 DEF HealthInv, GivenUpOnce
<1> QED
  BY <1>1, <1>2, <1>3, NotesKeep DEF HealthInv

LEMMA NotifyGivenUpKeeps == ASSUME HealthInv, NotifyGivenUp PROVE HealthInv'
<1>1. /\ produce # <<>> /\ Len(notes \o produce) <= MaxNotes /\ notes' = notes \o produce
      /\ produce' = <<>> /\ UNCHANGED <<answer, status, checker, download, retract>>
  BY DEF NotifyGivenUp
<1>2. PICK r \in Failures :
        /\ produce = <<Note("download", r)>>
        /\ \A i \in DOMAIN notes : notes[i].about # "download" \/ notes[i].reason # r
  BY <1>1 DEF HealthInv, Produced
<1> DEFINE note == Note("download", r)
<1>3. note \in Notes /\ note.about = "download" /\ note.reason = r
  BY DEF Note, Notes
<1> HIDE DEF note
<1>4. notes \in Seq(Notes) /\ Len(notes) \in Nat /\ DOMAIN notes = 1..Len(notes) /\ notes' = notes \o <<note>>
  BY <1>1, <1>2 DEF HealthInv, note
<1>5. /\ notes' \in Seq(Notes) /\ DOMAIN notes' = 1..(Len(notes) + 1)
      /\ \A i \in 1..Len(notes) : notes'[i] = notes[i]
      /\ notes'[Len(notes) + 1] = note
  BY <1>3, <1>4
<1>6. GivenUpOnce'
  <2> SUFFICES ASSUME NEW i \in DOMAIN notes', NEW j \in DOMAIN notes', i < j,
                      notes'[i].about = "download", notes'[j].about = "download",
                      notes'[i].reason = notes'[j].reason
               PROVE  FALSE
    BY <1>5 DEF GivenUpOnce
  <2>1. i \in 1..Len(notes) /\ notes'[i] = notes[i]
    BY <1>4, <1>5
  <2>2. CASE j = Len(notes) + 1
    BY <1>2, <1>3, <1>4, <1>5, <2>1, <2>2
  <2>3. CASE j \in 1..Len(notes)
    BY <1>4, <1>5, <2>1, <2>3 DEF HealthInv, GivenUpOnce
  <2> QED
    BY <1>4, <1>5, <2>2, <2>3
<1>7. Produced'
  BY <1>1 DEF Produced
<1>8. retract' \subseteq DOMAIN notes' /\ Len(notes') <= MaxNotes
  BY <1>1, <1>4, <1>5 DEF HealthInv
<1> QED
  BY <1>1, <1>5, <1>6, <1>7, <1>8, NotesKeep DEF HealthInv

LEMMA ReadUnreadKeeps == ASSUME HealthInv, ReadUnread PROVE HealthInv'
<1>1. /\ retract' \subseteq DOMAIN notes
      /\ UNCHANGED <<answer, status, checker, download, notes, produce>>
  BY DEF ReadUnread
<1>2. notes \in Seq(Notes)
  BY DEF HealthInv
<1> QED
  BY <1>1, <1>2, StatusOfNotes

LEMMA RetractKeeps == ASSUME HealthInv, Retract PROVE HealthInv'
<1> DEFINE marked == {i \in DOMAIN notes : i \in retract /\ Outdated(notes[i])}
<1>1. /\ notes' = [i \in DOMAIN notes |-> IF i \in marked THEN [notes[i] EXCEPT !.status = "STALE"]
                                          ELSE notes[i]]
      /\ retract' = {} /\ UNCHANGED <<answer, status, checker, download, produce>>
  BY DEF Retract
<1> HIDE DEF marked
<1> QED
  BY <1>1, RewrittenNotes

LEMMA MarkNoteKeeps ==
    ASSUME HealthInv, NEW i \in DOMAIN notes, NEW new \in {"READ", "UNREAD"}, Mark(i, new)
    PROVE  HealthInv'
<1> DEFINE marked == {i}
<1>1. /\ notes' = [notes EXCEPT ![i].status = new]
      /\ UNCHANGED <<answer, status, checker, download, retract, produce>>
  BY DEF Mark
<1>2. /\ notes \in Seq(Notes) /\ retract \subseteq DOMAIN notes
      /\ notes = [j \in DOMAIN notes |-> notes[j]]
  BY DEF HealthInv
<1>3. notes' = [j \in DOMAIN notes |-> IF j \in marked THEN [notes[j] EXCEPT !.status = new]
                                           ELSE notes[j]]
  BY <1>1, <1>2
<1>4. new \in {"READ", "UNREAD", "STALE"} /\ retract' \subseteq DOMAIN notes
  BY <1>1, <1>2
<1> HIDE DEF marked
<1> QED
  BY <1>1, <1>3, <1>4, RewrittenNotes

LEMMA MarkAllKeeps == ASSUME HealthInv, MarkAllRead PROVE HealthInv'
<1> DEFINE marked == {i \in DOMAIN notes : notes[i].status = "UNREAD"}
<1>1. /\ notes' = [i \in DOMAIN notes |-> IF i \in marked THEN [notes[i] EXCEPT !.status = "READ"]
                                          ELSE notes[i]]
      /\ UNCHANGED <<answer, status, checker, download, retract, produce>>
  BY DEF MarkAllRead
<1>2. retract' \subseteq DOMAIN notes
  BY <1>1 DEF HealthInv
<1> HIDE DEF marked
<1> QED
  BY <1>1, <1>2, RewrittenNotes

LEMMA ElsewhereKeeps == ASSUME HealthInv, Elsewhere PROVE HealthInv'
<1>1. UNCHANGED <<status, checker, notes, retract, produce>>
  BY DEF Elsewhere
<1>2. answer' \in [Service -> Faults \union {"ok"}] /\ download' \in Failures \union {"fine"}
  BY DEF Elsewhere, HealthInv
<1>3. GivenUpOnce' /\ Produced'
  BY <1>1 DEF HealthInv, GivenUpOnce, Produced
<1> QED
  BY <1>1, <1>2, <1>3, NotesKeep DEF HealthInv

LEMMA HealthStepKeeps == HealthInv /\ [HealthNext]_healthVars => HealthInv'
<1> SUFFICES ASSUME HealthInv, [HealthNext]_healthVars PROVE HealthInv'
  OBVIOUS
<1>1. CASE Poll
  <2>1. "poll" \in Checkers /\ Begin("poll", Services)
    BY <1>1 DEF Poll, Checkers
  <2> QED
    BY <2>1, BeginsKeep, ServicesAre
<1>2. ASSUME NEW s \in Service, ForceCheck(s) PROVE HealthInv'
  <2>1. "request" \in Checkers /\ Begin("request", <<s>>)
    BY <1>2 DEF ForceCheck, Checkers
  <2>2. <<s>> \in Seq(Service) /\ Len(<<s>>) <= Len(Services)
    BY ServicesAre
  <2> QED
    BY <2>1, <2>2, BeginsKeep
<1>3. ASSUME NEW c \in Checkers, CheckStep(c) PROVE HealthInv'
  BY <1>3, AskServiceKeeps, AnsweredKeeps, CheckedKeeps, CompareServicesKeeps, NotifyKeeps,
     CommittedKeeps DEF CheckStep
<1>4. ASSUME NEW i \in DOMAIN notes, NEW new \in {"READ", "UNREAD"}, Mark(i, new) PROVE HealthInv'
  BY <1>4, MarkNoteKeeps
<1>5. CASE FindGivenUp \/ NotifyGivenUp \/ ReadUnread \/ Retract
  BY <1>5, FindKeeps, NotifyGivenUpKeeps, ReadUnreadKeeps, RetractKeeps
<1>6. CASE MarkAllRead \/ Elsewhere \/ UNCHANGED healthVars
  BY <1>6, MarkAllKeeps, ElsewhereKeeps, HealthStays
<1> QED
  BY <1>1, <1>2, <1>3, <1>4, <1>5, <1>6 DEF HealthNext

LEMMA HealthInvTypes == HealthInv => HealthTypeOK
<1> SUFFICES ASSUME HealthInv PROVE HealthTypeOK
  OBVIOUS
<1>1. \A i \in DOMAIN notes : notes[i].about \in Service \union {"download"}
  <2> TAKE i \in DOMAIN notes
  <2>1. notes[i] \in Notes
    BY DEF HealthInv
  <2> QED
    BY <2>1 DEF Notes
<1>2. \A c \in Checkers : Len(checker[c].left) <= Len(Services)
  BY DEF HealthInv, CheckerOK
<1>3. status \in [Service -> Faults \union {"ok", "unset"}]
  BY DEF HealthInv, ServiceStates
<1> QED
  BY <1>1, <1>2, <1>3 DEF HealthInv, HealthTypeOK

-----------------------------------------------------------------------------
\* The whole.

ListSpec   == ListInit /\ [][ListNext]_listVars
HealthSpec == HealthInit /\ [][HealthNext]_healthVars

\* The inductive invariant of the user's list: what each transaction has fetched
\* and written, and that no two have written one row.
THEOREM ListInvariance == ListSpec => []ListInv
BY ListInitially, ListStepKeeps, PTL DEF ListSpec

\* The inductive invariant of checks and notifications.
THEOREM HealthInvariance == HealthSpec => []HealthInv
BY HealthInitially, HealthStepKeeps, PTL DEF HealthSpec

\* A download that is given up is notified once for each status it is given up
\* in, however often it is found, and whatever users and the retracting worker
\* make of the notification (produce_download_error_notifications).
THEOREM NotifiedOnce == HealthSpec => []GivenUpOnce
<1>1. HealthInv => GivenUpOnce
  BY DEF HealthInv
<1> QED
  BY <1>1, HealthInvariance, PTL

\* The program implements the specification of each of its components.
THEOREM SystemIsItsParts ==
    Spec => /\ ListSpec /\ HealthSpec /\ BackupSpec /\ CacheSpec
            /\ AiringSpec /\ LibrarySpec /\ SettingsSpec
<1>1. Init => /\ ListInit /\ HealthInit /\ BackupInit /\ CacheInit
              /\ AiringInit /\ LibraryInit /\ SettingsInit
  BY DEF Init
<1>2. [Next]_vars => /\ [ListNext]_listVars /\ [HealthNext]_healthVars
                     /\ [BackupNext]_backupVars /\ [CacheNext]_cacheVars
                     /\ [AiringNext]_airingVars /\ [LibraryNext]_libraryVars
                     /\ [SettingsNext]_settingsVars
  BY DEF Next, List, Health, Backup, Keeping, Airing, Library, Settings, vars
<1> QED
  BY <1>1, <1>2, PTL DEF Spec, ListSpec, HealthSpec, BackupSpec, CacheSpec, AiringSpec,
                         LibrarySpec, SettingsSpec

\* The types of every component, and that two transactions of the user's list
\* never have one row written.
THEOREM SystemTypes == Spec => []TypeOK
<1>1. ListInv => ListTypeOK
  BY ListInvTypes
<1>2. HealthInv => HealthTypeOK
  BY HealthInvTypes
<1>3. BackupInv => BackupTypeOK
  BY DEF BackupInv
<1>4. CacheInv => CacheTypeOK
  BY CacheInvImplies
<1>5. ListTypeOK /\ HealthTypeOK /\ BackupTypeOK /\ CacheTypeOK /\ AiringTypeOK /\ LibraryTypeOK
        /\ SettingsTypeOK => TypeOK
  BY DEF TypeOK
<1> QED
  BY <1>1, <1>2, <1>3, <1>4, <1>5, SystemIsItsParts, ListInvariance, HealthInvariance,
     BackupInvariance, CacheInvariance, RangesAreAnswered, LibraryTyped, SettingsTypes, PTL

\* What the components promise holds of the program: it serves whole data,
\* answers with what is fresh and covers the range, memory follows the rows, a
\* download is notified once, and no sweep destroys the video it makes room for.
THEOREM SystemKeepsItsPromises ==
    ASSUME NamesHaveOneSuffix
    PROVE  Spec => []/\ ServesWhole /\ FreshAnswers /\ RangeIsCovered
                     /\ NewVideoStays /\ MemoryFollowsRows /\ GivenUpOnce
<1>1. LibrarySpec => []NewVideoStays
  BY SweptVideoStays
<1> QED
  BY <1>1, SystemIsItsParts, ServedDataIsWhole, AnswersAreFresh, RangesAreAnswered,
     MemoryStaysWithRows, NotifiedOnce, PTL
==============================================================================
