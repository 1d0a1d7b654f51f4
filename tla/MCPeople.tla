------------------------------ MODULE MCPeople -------------------------------
(* Model values of the run of accounts, servants, care and the timeline.   *)
EXTENDS People
CONSTANTS u1, u2, u3, ana, bia, music, media, choir, crew, noShow, decline, inactivity
MCUsers == {u1, u2, u3}
MCServants == {ana, bia}
MCMinistries == {music, media}
MCTeams == {choir, crew}
MCMinistryOf == [t \in MCTeams |-> IF t = choir THEN music ELSE media]

\* A coordinator may be given what overrules nothing, everything (and a ministry,
\* which is dropped), the other ministry, or a team: an ADMIN with it sees the team.
MCGiven == {Unbound("SELF"),
            [scope |-> "GLOBAL", ministries |-> {media}, teams |-> {}],
            [scope |-> "MINISTRY", ministries |-> {media}, teams |-> {}],
            [scope |-> "EQUIPE", ministries |-> {}, teams |-> {choir}]}

\* The third account has the name and the phone of the second servant.
MCLooksLike == [u \in MCUsers |-> IF u = u1 THEN ana ELSE IF u = u3 THEN bia ELSE Nobody]

\* NO_SHOW_IMMEDIATE and a decline come with events, PROLONGED_INACTIVITY is looked
\* for every day; the first and the last ask for a follow-up.
MCKeys == {noShow, decline, inactivity}
MCRecurring == {inactivity}
MCFollowing == {noShow, inactivity}

\* A decline comes by the bus and is not repeated, an executed rule is added up,
\* a confirmation is always told.
MCNews == {<<"SCHEDULE_DECLINED", "none">>, <<"AUTOMATION_RULE_EXECUTED", "rule">>,
           <<"SCHEDULE_CONFIRMED", "none">>}
=============================================================================
