----------------------------- MODULE MCSelection -----------------------------
(***************************************************************************)
(* Three releases of one episode, unless a user says otherwise, under four *)
(* profiles.                                                               *)
(***************************************************************************)
EXTENDS TorrentSelection

\* 2 is 1 in a better encoding; 3 is a repack of a second version by a group
\* that not every profile admits.
MCRelease ==
    LET release(version, group, encoding, repack) ==
            [VERSION |-> version, RELEASE_GROUP |-> group, ENCODING |-> encoding,
             RESOLUTION |-> "1080p", SOURCE |-> "Other", LANGUAGE_CODE |-> "JP",
             repack |-> repack]
    IN  <<release(1, "A", "AVC", 0), release(1, "A", "HEVC", 0), release(2, "B", "AVC", 1)>>

MCMatch == <<"e1", "e1", "e1">>

MCProfile(groups, restricted, upgrades, priorities) ==
    [preferred  |-> [RELEASE_GROUP |-> groups, ENCODING |-> <<"HEVC", "AVC">>,
                     RESOLUTION |-> <<"1080p">>, SOURCE |-> <<"Netflix">>,
                     LANGUAGE_CODE |-> <<>>],
     restricted |-> restricted, upgrades |-> upgrades, priorities |-> priorities]

MCProfiles ==
    {MCProfile(<<>>, {}, TRUE, <<"SOURCE", "VERSION", "RELEASE_GROUP", "ENCODING">>),
     MCProfile(<<"B", "A">>, {}, FALSE, <<"LANGUAGE_CODE", "ENCODING", "RESOLUTION">>),
     MCProfile(<<"A">>, {}, TRUE, <<>>),
     MCProfile(<<>>, {"SOURCE"}, TRUE, <<"VERSION">>)}
=============================================================================
