------------------------------- MODULE MCSystem -------------------------------
(***************************************************************************)
(* Seven components that share nothing but the program: every behaviour is   *)
(* of one of them, chosen at the start, and the others rest in one state.  *)
(***************************************************************************)
EXTENDS UserAnimeList, ServiceHealth, BackupRestore, Caches, AiringSchedule, LibraryFiles,
        UserSettings

CONSTANTS show1, show2, user1, user2

\* The first has a list, the second has none.
MCStarting == [u \in {user1, user2} |-> [a \in {show1, show2} |->
                  IF u = user2 THEN "absent" ELSE IF a = show1 THEN "planning" ELSE "repeating"]]
MCServices == <<"qbit", "anilist">>
MCLevel(x) == "DOWN"

\* 31, 28 and 31 days of two moments.
MCMonthStart == <<0, 62, 118, 180>>

MCName(r) == IF r = 3 THEN <<"new", "mkv">> ELSE <<"old", "mkv">>

\* Login, logout, and the general settings, which share a code with the login.
MCForms == {<<"token", "name", "language">>, <<"name", "token">>, <<"language">>}
MCValidated(c, value) == IF c = "language" /\ value = "none" THEN "invalid" ELSE value

Parts == {"list", "health", "backup", "caches", "airing", "library", "settings"}

VARIABLE part

vars == <<part, listVars, healthVars, backupVars, cacheVars, airingVars, libraryVars, settingsVars>>

Init ==
    /\ part \in Parts
    /\ ListInit /\ HealthInit /\ BackupInit /\ CacheInit /\ AiringInit /\ LibraryInit /\ SettingsInit
    /\ part # "list" => account = NoUser
    /\ part # "backup" => version = 1
    /\ part # "caches" => kind = "anime"
    /\ part # "airing" => months = {}
    /\ \A c \in Codes : settings[c] = "x"

List == part = "list" /\ ListNext
        /\ UNCHANGED <<part, healthVars, backupVars, cacheVars, airingVars, libraryVars, settingsVars>>
Health == part = "health" /\ HealthNext
          /\ UNCHANGED <<part, listVars, backupVars, cacheVars, airingVars, libraryVars, settingsVars>>
Backup == part = "backup" /\ BackupNext
          /\ UNCHANGED <<part, listVars, healthVars, cacheVars, airingVars, libraryVars, settingsVars>>
Keeping == part = "caches" /\ CacheNext
           /\ UNCHANGED <<part, listVars, healthVars, backupVars, airingVars, libraryVars, settingsVars>>
Airing == part = "airing" /\ AiringNext
          /\ UNCHANGED <<part, listVars, healthVars, backupVars, cacheVars, libraryVars, settingsVars>>
Library == part = "library" /\ LibraryNext
           /\ UNCHANGED <<part, listVars, healthVars, backupVars, cacheVars, airingVars, settingsVars>>
Settings == part = "settings" /\ SettingsNext
            /\ UNCHANGED <<part, listVars, healthVars, backupVars, cacheVars, airingVars, libraryVars>>

Next == List \/ Health \/ Backup \/ Keeping \/ Airing \/ Library \/ Settings

Spec == Init /\ [][Next]_vars /\ ListFairness /\ HealthFairness

TypeOK ==
    /\ ListTypeOK /\ HealthTypeOK /\ BackupTypeOK
    /\ CacheTypeOK /\ AiringTypeOK /\ LibraryTypeOK /\ SettingsTypeOK
=============================================================================
