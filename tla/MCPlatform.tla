------------------------------ MODULE MCPlatform ------------------------------
(* An instance of AssistantSlots, ApiSettings and DatabaseStart for TLC.  They *)
(* share no state: a behaviour is one of one of them.                          *)
EXTENDS AssistantSlots, ApiSettings, DatabaseStart, DatabaseSchema, TLC

CONSTANTS w1, w2, r1, r2, r3, c1, c2, l1, p1, p2, s1, s2

\* Two requests at one process and one at another.
MCHome == (r1 :> w1) @@ (r2 :> w1) @@ (r3 :> w2)

\* Two changes and a load at one process.
MCOnePlace == (c1 :> w1) @@ (c2 :> w1) @@ (l1 :> w1)
MCAskedOf ==
    (c1 :> {<<"update", p1>>, <<"create", p2>>, <<"import", p2>>}) @@
    (c2 :> {<<"activate", p2>>, <<"delete", p1>>, <<"order", p1>>})

MCLast == Len(Migrations)

VARIABLE chosen     \* whose behaviour it is

all == <<vars, settingsVars, startVars, chosen>>

Others(p) ==
    /\ UNCHANGED chosen
    /\ p # "slots" => UNCHANGED vars
    /\ p # "settings" => UNCHANGED settingsVars
    /\ p # "start" => UNCHANGED startVars
In(p) == chosen = p /\ Others(p)

MCInit ==
    /\ Init /\ SettingsInit /\ StartInit
    /\ chosen \in {"slots", "settings", "start"} /\ (chosen # "start" => disk = Blank)

MCNext ==
    \/ In("slots") /\ Next
    \/ In("settings") /\ SettingsNext
    \/ In("start") /\ StartNext

\* The fairness of each of them.
MCSpec ==
    /\ MCInit /\ [][MCNext]_all
    /\ \A r \in Requests :
        /\ WF_all(In("slots") /\ Transact(r))
        /\ WF_all(In("slots") /\ (Work(r) \/ Refused(r) \/ StopLost(r)))
        /\ WF_all(In("slots") /\ GiveUp(r))
    /\ \A i \in Slots : WF_all(In("slots") /\ Orphaned(i) /\ Lapse(i))
    /\ \A t \in Requesters : WF_all(In("settings") /\ LoadSteps(t))
    /\ \A t \in Loads : SF_all(In("settings") /\ LoadStart(t))
    /\ \A t \in Changes : WF_all(In("settings") /\ ChangeSteps(t))
    /\ \A p \in Starters :
        WF_all(In("start") /\ (Restart(p) \/ MigrationSteps(p) \/ SearchSteps(p)))

\* Of the processes that start.
StartedAllServe == chosen = "start" => AllServe
=============================================================================
