----------------------------- MODULE UserSettings -----------------------------
(***************************************************************************)
(* The user's settings: a row of the database for each code, and the copy  *)
(* in memory that the whole program reads. A request changes the codes of  *)
(* one form, one after the other, in one transaction; the copy changes     *)
(* with every row, before the transaction commits.                         *)
(*                                                                         *)
(* Left out: the audit log, which is written in the same transaction, and  *)
(* what a handler does beside its update.                                  *)
(***************************************************************************)
EXTENDS Integers, SequencesExt

CONSTANTS
    Codes,           \* SettingsCode
    Forms,           \* the codes of a request, in the order of its handler
    Offered,         \* what users put into a field
    Validated(_, _), \* what a code makes of a value: the value to store, or Refused
    Refused,
    Editors,         \* the requests that can run at one time
    MaxSubmits       \* bound: requests

ASSUME SettingsAssumption ==
    /\ Forms \subseteq Seq(Codes) /\ <<>> \notin Forms
    /\ MaxSubmits \in Nat

VARIABLES
    memory,   \* config.user_settings
    settings, \* the rows that are committed
    update,   \* what each request is doing
    astray,   \* codes that a failed update has left in memory alone
    submits

settingsVars == <<memory, settings, update, astray, submits>>

Values == {Validated(c, v) : c \in Codes, v \in Offered} \ {Refused}

\* todo: the codes that are left; wanted: all codes and values of the form;
\* wrote: codes whose rows it has locked; kept: those it has put into memory.
NoUpdate == [at |-> "none", todo |-> <<>>, wanted |-> <<>>, wrote |-> {}, kept |-> {}]

SettingsInit ==
    /\ settings \in [Codes -> Values] /\ memory = settings
    /\ update = [e \in Editors |-> NoUpdate]
    /\ astray = {} /\ submits = 0

Code(e)     == Head(update[e].todo)
NewValue(e) == update[e].wanted[Code(e)]

-----------------------------------------------------------------------------
\* validate_setting_value for every code of the form
Valid(form, offered) == [c \in ToSet(form) |-> Validated(c, offered[c])]

\* A form with a value that is refused changes nothing at all.
SubmitForm(e) ==
    /\ update[e].at = "none" /\ submits < MaxSubmits
    /\ \E form \in Forms : \E offered \in [ToSet(form) -> Offered] :
        /\ \A c \in ToSet(form) : Valid(form, offered)[c] # Refused
        /\ update' = [update EXCEPT ![e] =
                        [at |-> "compare", todo |-> form, wanted |-> Valid(form, offered),
                         wrote |-> {}, kept |-> {}]]
    /\ submits' = submits + 1
    /\ UNCHANGED <<memory, settings, astray>>

\* A slip: what is to be written is put into memory before the row is written.
CompareAndKeep(e) ==
    /\ update[e].at = "compare" /\ update[e].todo # <<>>
    /\ IF memory[Code(e)] = NewValue(e)
       THEN update' = [update EXCEPT ![e].todo = Tail(@)]
       ELSE update' = [update EXCEPT ![e].at = "write"]
    /\ memory' = [memory EXCEPT ![Code(e)] = NewValue(e)]
    /\ UNCHANGED <<settings, astray, submits>>

\* What memory already holds is not written.
CompareSetting(e) ==
    /\ update[e].at = "compare" /\ update[e].todo # <<>>
    /\ IF memory[Code(e)] = NewValue(e)
       THEN update' = [update EXCEPT ![e].todo = Tail(@)]
       ELSE update' = [update EXCEPT ![e].at = "write"]
    /\ UNCHANGED <<memory, settings, astray, submits>>

\* The UPDATE waits for the transaction that has the row.
WriteSetting(e) ==
    /\ update[e].at = "write"
    /\ \A o \in Editors \ {e} : Code(e) \notin update[o].wrote
    /\ update' = [update EXCEPT ![e].at = "keep", ![e].wrote = @ \union {Code(e)}]
    /\ UNCHANGED <<memory, settings, astray, submits>>

KeepSetting(e) ==
    /\ update[e].at = "keep"
    /\ memory' = [memory EXCEPT ![Code(e)] = NewValue(e)]
    /\ update' = [update EXCEPT ![e].at = "compare", ![e].todo = Tail(@),
                                ![e].kept = @ \union {Code(e)}]
    /\ UNCHANGED <<settings, astray, submits>>

AnswerUpdate(e) ==
    /\ update[e].at = "compare" /\ update[e].todo = <<>>
    /\ settings' = [c \in Codes |-> IF c \in update[e].wrote THEN update[e].wanted[c]
                                    ELSE settings[c]]
    /\ astray' = astray \ update[e].wrote
    /\ update' = [update EXCEPT ![e] = NoUpdate]
    /\ UNCHANGED <<memory, submits>>

\* The database refuses or breaks a deadlock, or what the handler does after
\* the update fails: the rows are as they were, memory is not.
BreakUpdate(e) ==
    /\ update[e].at # "none"
    /\ astray' = astray \union update[e].kept
    /\ update' = [update EXCEPT ![e] = NoUpdate]
    /\ UNCHANGED <<memory, settings, submits>>

\* load_app_settings
RestartSettings ==
    /\ memory' = settings /\ astray' = {}
    /\ update' = [e \in Editors |-> NoUpdate]
    /\ UNCHANGED <<settings, submits>>

SettingsNext ==
    \/ \E e \in Editors :
        \/ SubmitForm(e) \/ CompareSetting(e) \/ WriteSetting(e) \/ KeepSetting(e)
        \/ AnswerUpdate(e) \/ BreakUpdate(e)
    \/ RestartSettings

SettingsSpec == SettingsInit /\ [][SettingsNext]_settingsVars

-----------------------------------------------------------------------------
Updates == [at : {"none", "compare", "write", "keep"}, todo : Seq(Codes),
            wanted : UNION {[S -> Values] : S \in SUBSET Codes},
            wrote : SUBSET Codes, kept : SUBSET Codes]

SettingsTypeOK ==
    /\ settings \in [Codes -> Values] /\ memory \in [Codes -> Values]
    /\ update \in [Editors -> Updates]
    /\ astray \subseteq Codes /\ submits \in 0..MaxSubmits

\* What the program works with is what a restart would load: memory and the
\* rows differ only in codes that a running update has already put into memory
\* or a failed one has left there, whichever updates overlap
\* (SettingsComponent.update_settings).
MemoryFollowsRows ==
    \A c \in Codes : memory[c] # settings[c] =>
        c \in astray \/ \E e \in Editors : c \in update[e].kept
=============================================================================
