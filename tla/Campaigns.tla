------------------------------ MODULE Campaigns ------------------------------
(***************************************************************************)
(* Update campaigns (handlers/arcade/campaign/campaign.go): users report   *)
(* that a game is still on the old version or has the new one; the report  *)
(* moves the game, pays experience, and decides what other users are asked.*)
(*                                                                         *)
(* One campaign.  A report is judged, moves the game and is stored in one  *)
(* transaction.  Time is in days; reports are numbered in the order of     *)
(* their "created".  The game states are those of ArcadeGames, reduced to  *)
(* the version and the cabinet of each entry.                              *)
(***************************************************************************)
EXTENDS XpLedger, Sequences, SequencesExt

CONSTANTS
    Games, ArcadeOf, Country,   \* game entries, where they stand, and the country
    Supports,                   \* game_series_version_cabinet: <<version, cabinet>>
    NoCabinet,
    FirstRows,                  \* each game's version and cabinet at the start
    Bodies,                     \* what an administrator may ask a campaign to be
    Window,                     \* campaignRollbackWindow and the review, 7 days
    MaxReports, MaxMoves, EndOfTime

(* Rows of a game state, and what may be asked of a campaign.              *)
VersionIds == {p[1] : p \in Supports} \cup {FirstRows[g].version : g \in Games}
                \cup {b.from : b \in Bodies} \cup {b.to : b \in Bodies}
CabinetIds == {NoCabinet} \cup {p[2] : p \in Supports} \cup {FirstRows[g].cabinet : g \in Games}
Row == [version : VersionIds, cabinet : CabinetIds]
CampaignBody == [status : {"draft", "active", "ended"}, from : VersionIds, to : VersionIds,
                 cabinetScope : {"all", "include"},
                 cabinets : SUBSET UNION {b.cabinets : b \in Bodies},
                 countryScope : {"all", "include", "exclude"},
                 countries : SUBSET UNION {b.countries : b \in Bodies},
                 reward : Nat, start : Nat, end : Nat]

Supported(v, cab) == cab = NoCabinet \/ <<v, cab>> \in Supports

ASSUME CampaignsAssumption ==
    /\ IsFiniteSet(Games) /\ ArcadeOf \in [Games -> {ArcadeOf[g] : g \in Games}]
    /\ FirstRows \in [Games -> {r \in Row : Supported(r.version, r.cabinet)}]
    /\ Bodies \subseteq CampaignBody
    /\ Window \in Nat \ {0} /\ MaxReports \in Nat /\ MaxMoves \in Nat /\ EndOfTime \in Nat

BypassReward == 1
NoCampaign == [status |-> "none"]
Halls == {ArcadeOf[g] : g \in Games}

VARIABLES
    campaign,   \* arcade_campaign
    states,     \* the game states: arcade and rows
    present,    \* arcade.game_v2: the state each arcade is in
    listed,     \* arcades that are public and not closed
    reports,    \* arcade_campaign_check
    seen,       \* arcade_visit: who was where today (older visits are not asked for)
    purse,      \* the ledger
    day

campaignVars == <<campaign, states, present, listed, reports, seen, purse, day>>

FirstState(a) == [arcade |-> a, rows |-> [g \in {h \in Games : ArcadeOf[h] = a} |-> FirstRows[g]]]

CampaignsInit ==
    /\ campaign = NoCampaign
    /\ states = [i \in 1..Cardinality(Halls) |-> FirstState(SetToSeq(Halls)[i])]
    /\ present = [a \in Halls |-> CHOOSE i \in DOMAIN states : states[i].arcade = a]
    /\ listed = Halls
    /\ reports = <<>>
    /\ seen = {}
    /\ purse = [exp |-> [u \in Users |-> 0], log |-> {}]
    /\ day = 0

-------------------------------------------------------------------------------
(* Games and their states.                                                 *)

Rows(a) == states[present[a]].rows
Installed(g) == g \in DOMAIN Rows(ArcadeOf[g])
RowOf(g) == Rows(ArcadeOf[g])[g]

(* updateArcadeGameTx: a new state, in which every row is supported.       *)
MoveTo(a, rows) ==
    /\ states' = Append(states, [arcade |-> a, rows |-> rows])
    /\ present' = [present EXCEPT ![a] = Len(states) + 1]

Moved(g, v) == [Rows(ArcadeOf[g]) EXCEPT ![g].version = v]

CanMove(g, v) == \A h \in DOMAIN Moved(g, v) : Supported(Moved(g, v)[h].version, Moved(g, v)[h].cabinet)

-------------------------------------------------------------------------------
(* The campaign.                                                           *)

Valid(b) ==
    /\ b.reward > 0 /\ b.from # b.to /\ b.start < b.end
    /\ b.cabinetScope = "include" => b.cabinets # {}
    /\ b.countryScope # "all" => b.countries # {}
    /\ \A c \in b.cabinets : Supported(b.from, c) /\ Supported(b.to, c)

Save(b) ==
    /\ Valid(b)
    /\ campaign' = b
    /\ UNCHANGED <<states, present, listed, reports, seen, purse, day>>

CreateCampaign == campaign = NoCampaign /\ \E b \in Bodies : Save(b)
UpdateCampaign == campaign # NoCampaign /\ \E b \in Bodies \ {campaign} : Save(b)

EndCampaign ==
    /\ campaign # NoCampaign /\ campaign.status # "ended"
    /\ campaign' = [campaign EXCEPT !.status = "ended"]
    /\ UNCHANGED <<states, present, listed, reports, seen, purse, day>>

Active == campaign.status = "active" /\ campaign.start <= day /\ day <= campaign.end

CountryMatches(a) ==
    CASE campaign.countryScope = "all"     -> TRUE
      [] campaign.countryScope = "include" -> Country[a] \in campaign.countries
      [] campaign.countryScope = "exclude" -> Country[a] \notin campaign.countries

InCabinets(cab) == campaign.cabinetScope = "include" => cab \in campaign.cabinets

-------------------------------------------------------------------------------
(* Reports.                                                                *)

Latest(Test(_)) == LET S == {i \in DOMAIN reports : Test(reports[i])} IN
                   IF S = {} THEN 0 ELSE Max(S)

LatestOf(u, g) == Latest(LAMBDA r : r.user = u /\ r.game = g)
LatestFor(g, result) == Latest(LAMBDA r : r.game = g /\ r.result = result)

InWindow(i) == i # 0 /\ reports[i].at >= day - Window

(* What every report is judged by.                                         *)
Target(g) ==
    /\ Installed(g)
    /\ RowOf(g).version \in {campaign.from, campaign.to}
    /\ InCabinets(RowOf(g).cabinet)
    /\ RowOf(g).version = campaign.from => Supported(campaign.to, RowOf(g).cabinet)

Admitted(u, g, bypass) ==
    /\ Active /\ ArcadeOf[g] \in listed /\ CountryMatches(ArcadeOf[g])
    /\ bypass \/ <<u, ArcadeOf[g]>> \in seen
    /\ Target(g)

(* A user who said the same before, no less surely, is not heard again.    *)
Repeats(u, g, result, bypass) ==
    LET i == LatestOf(u, g) IN
    /\ i # 0 /\ reports[i].result = result /\ (bypass \/ reports[i].verified)
    /\ IF result = "still_old"
         THEN RowOf(g).version = campaign.from
         ELSE /\ RowOf(g).version = campaign.to
              /\ LatestFor(g, "still_old") <= i

Report(u, g, result, bypass) ==
    reports' = Append(reports,
        [user |-> u, game |-> g, result |-> result, verified |-> ~bypass, at |-> day,
         state |-> present'[ArcadeOf[g]]])

(* Mutant: the bypass pays as a visit does.                                *)
StillOldPay_Unseen(u, g, bypass) ==
    purse' = Award(purse, u, <<"campaign-still-old", g>>, campaign.reward, day)

StillOldPay(u, g, bypass) ==
    purse' = IF bypass THEN purse
             ELSE Award(purse, u, <<"campaign-still-old", g>>, campaign.reward, day)

UpdatedPay(u, g, bypass) ==
    LET i == LatestOf(u, g) IN
    purse' = IF i # 0 /\ reports[i].result = "updated"
               THEN purse
               ELSE Award(purse, u, <<"campaign", g>>,
                          IF bypass THEN BypassReward ELSE campaign.reward, day)

(* A revert needs an update report of the last seven days.                 *)
CanRevert(g) == InWindow(LatestFor(g, "updated"))

ReportStillOld(u, g, bypass) ==
    /\ Admitted(u, g, bypass) /\ ~Repeats(u, g, "still_old", bypass)
    /\ IF RowOf(g).version = campaign.to
         THEN CanRevert(g) /\ CanMove(g, campaign.from) /\ MoveTo(ArcadeOf[g], Moved(g, campaign.from))
         ELSE UNCHANGED <<states, present>>
    /\ StillOldPay(u, g, bypass)
    /\ Report(u, g, "still_old", bypass)
    /\ UNCHANGED <<campaign, listed, seen, day>>

ReportUpdated(u, g, bypass) ==
    /\ Admitted(u, g, bypass) /\ ~Repeats(u, g, "updated", bypass)
    /\ IF RowOf(g).version = campaign.from
         THEN CanMove(g, campaign.to) /\ MoveTo(ArcadeOf[g], Moved(g, campaign.to))
         ELSE UNCHANGED <<states, present>>
    /\ UpdatedPay(u, g, bypass)
    /\ Report(u, g, "updated", bypass)
    /\ UNCHANGED <<campaign, listed, seen, day>>

(* Whether such a report gets an answer other than an error.               *)
Heard(g, result, u, bypass) ==
    /\ Admitted(u, g, bypass)
    /\ result = "still_old" /\ RowOf(g).version = campaign.to =>
         CanRevert(g) /\ CanMove(g, campaign.from)
    /\ result = "updated" /\ RowOf(g).version = campaign.from => CanMove(g, campaign.to)

-------------------------------------------------------------------------------
(* What users are shown.                                                   *)

(* loadCampaignRowsByVersion.                                              *)
ListedAt(g, v, compatible) ==
    /\ Active /\ ArcadeOf[g] \in listed /\ CountryMatches(ArcadeOf[g])
    /\ Installed(g)
    /\ RowOf(g).version = v
    /\ InCabinets(RowOf(g).cabinet)
    /\ compatible => Supported(campaign.to, RowOf(g).cabinet)

Pending(g) == ListedAt(g, campaign.from, TRUE)
Updated(g) == ListedAt(g, campaign.to, FALSE)

(* The detail page asks about an updated machine until one verified or two *)
(* unverified reports since the last wrong one, and at most seven days     *)
(* from the first of them.                                                 *)
Since(g) == {i \in DOMAIN reports : /\ reports[i].game = g /\ reports[i].result = "updated"
                                    /\ i > LatestFor(g, "still_old")}

(* Mutant: only the reports of the last seven days count.                  *)
UnderReview_Recent(g) ==
    LET fresh == {i \in Since(g) : reports[i].at + Window > day} IN
    /\ Updated(g) /\ fresh # {}
    /\ MapThenSumSet(LAMBDA i : IF reports[i].verified THEN 2 ELSE 1, fresh) < 2

UnderReview(g) ==
    /\ Updated(g)
    /\ Since(g) # {} /\ reports[Min(Since(g))].at + Window > day
    /\ MapThenSumSet(LAMBDA i : IF reports[i].verified THEN 2 ELSE 1, Since(g)) < 2

(* loadCampaignCheckRows: the reports of the campaign page are those whose *)
(* state had the game at one of the two versions.                          *)
CheckRows ==
    {i \in DOMAIN reports :
        LET r == reports[i]
            row == states[r.state].rows[r.game] IN
        /\ ArcadeOf[r.game] \in listed /\ CountryMatches(ArcadeOf[r.game])
        /\ InCabinets(row.cabinet)
        /\ row.version = campaign.to \/
           (row.version = campaign.from /\ Supported(campaign.to, row.cabinet))}

(* latestCampaignCheckByTarget, then campaignReportWithinRollbackWindow.   *)
ShownRevertible(g) ==
    LET S == {i \in CheckRows : reports[i].game = g /\ reports[i].result = "updated"} IN
    Updated(g) /\ S # {} /\ InWindow(Max(S))

(* What the page of the campaign says of a machine.                        *)
CampaignPage(g) ==
    IF Updated(g) THEN "updated"
    ELSE IF ~Pending(g) THEN "absent"
    ELSE IF \E i \in CheckRows : reports[i].game = g /\ reports[i].result = "still_old"
           THEN "still_old"
           ELSE "pending"

(* What the page of its arcade asks about.                                 *)
Prompts == {g \in Games : Pending(g) \/ UnderReview(g)}

(* The number beside the campaign in the list, and the one on the map,     *)
(* which counts for itself and leaves out a campaign with nothing pending. *)
TargetCount == Cardinality({g \in Games : Pending(g)}) + Cardinality({g \in Games : Updated(g)})

NearbyCount(a, v, compatible) ==
    LET counts(row) == /\ row.version = v /\ InCabinets(row.cabinet)
                       /\ compatible => Supported(campaign.to, row.cabinet)
    IN IF a \in listed /\ CountryMatches(a)
         THEN Cardinality({g \in DOMAIN Rows(a) : counts(Rows(a)[g])})
         ELSE 0

OnMap(v, compatible) == MapThenSumSet(LAMBDA a : NearbyCount(a, v, compatible), Halls)

NearbyTarget == IF ~Active \/ OnMap(campaign.from, TRUE) = 0 THEN 0
                ELSE OnMap(campaign.from, TRUE) + OnMap(campaign.to, FALSE)

-------------------------------------------------------------------------------
(* The rest of the system.                                                 *)

(* A visit to an arcade, in its local day.                                 *)
VisitHall(u, a) ==
    /\ a \in listed /\ <<u, a>> \notin seen
    /\ seen' = seen \cup {<<u, a>>}
    /\ UNCHANGED <<campaign, states, present, listed, reports, purse, day>>

(* An ordinary edit changes one game or takes it away.                     *)
EditGame(g, v, cab) ==
    /\ Installed(g) /\ ArcadeOf[g] \in listed
    /\ Supported(v, cab) /\ RowOf(g) # [version |-> v, cabinet |-> cab]
    /\ MoveTo(ArcadeOf[g], [Rows(ArcadeOf[g]) EXCEPT ![g] = [version |-> v, cabinet |-> cab]])
    /\ UNCHANGED <<campaign, listed, reports, seen, purse, day>>

RemoveGame(g) ==
    /\ Installed(g) /\ ArcadeOf[g] \in listed
    /\ LET old == Rows(ArcadeOf[g]) IN
       MoveTo(ArcadeOf[g], [h \in DOMAIN old \ {g} |-> old[h]])
    /\ UNCHANGED <<campaign, listed, reports, seen, purse, day>>

SetListed(a) ==
    /\ listed' = IF a \in listed THEN listed \ {a} ELSE listed \cup {a}
    /\ UNCHANGED <<campaign, states, present, reports, seen, purse, day>>

NextDay ==
    /\ day < EndOfTime
    /\ day' = day + 1 /\ seen' = {}
    /\ UNCHANGED <<campaign, states, present, listed, reports, purse>>

CampaignsNext ==
    \/ CreateCampaign
    \/ UpdateCampaign
    \/ EndCampaign
    \/ /\ Len(reports) < MaxReports     \* the bound of the instance
       /\ \E u \in Users, g \in Games, bypass \in BOOLEAN :
             ReportStillOld(u, g, bypass) \/ ReportUpdated(u, g, bypass)
    \/ \E u \in Users, a \in Halls : VisitHall(u, a)
    \/ /\ Len(states) < Cardinality(Halls) + MaxMoves
       /\ \E g \in Games :
             \/ RemoveGame(g)
             \/ \E p \in Supports : EditGame(g, p[1], p[2])
    \/ \E a \in Halls : SetListed(a)
    \/ NextDay

CampaignsSpec == CampaignsInit /\ [][CampaignsNext]_campaignVars

-------------------------------------------------------------------------------
(* Properties.                                                             *)

(* The type invariant: reports and pointers name states that exist.        *)
CampaignsTypeOK ==
    /\ campaign = NoCampaign \/ campaign.status \in {"draft", "active", "ended"}
    /\ \A a \in Halls : present[a] \in DOMAIN states /\ states[present[a]].arcade = a
    /\ \A i \in DOMAIN states : \A g \in DOMAIN states[i].rows :
          /\ ArcadeOf[g] = states[i].arcade
          /\ Supported(states[i].rows[g].version, states[i].rows[g].cabinet)
    /\ \A i \in DOMAIN reports :
          /\ reports[i].state \in DOMAIN states
          /\ reports[i].game \in DOMAIN states[reports[i].state].rows
          /\ reports[i].at \in 0..day
    /\ listed \subseteq Halls /\ day \in 0..EndOfTime

(* A user has the reward of a target exactly if a report of theirs earned  *)
(* it: one for "still old" needs a report from the arcade, one for         *)
(* "updated" any report, and more than the bypass reward only if the first *)
(* of them was made from the arcade.  However often a game goes back and   *)
(* forth, each is paid once (CheckCampaign, saveCampaignCheck,             *)
(* AwardExpTx).                                                            *)
RewardsAreEarned ==
    \A u \in Named, g \in Games :
        LET told(result) == {i \in DOMAIN reports :
                 reports[i].user = u /\ reports[i].game = g /\ reports[i].result = result}
            grants(kind) == {e \in purse.log : e.user = u /\ e.kind = <<kind, g>>}
        IN  /\ Cardinality(grants("campaign-still-old")) =
                 (IF \E i \in told("still_old") : reports[i].verified THEN 1 ELSE 0)
            /\ Cardinality(grants("campaign")) = (IF told("updated") = {} THEN 0 ELSE 1)
            /\ \A e \in grants("campaign") :
                 e.diff > BypassReward => reports[Min(told("updated"))].verified

(* A report is stored with the state it left the arcade in: in it the game *)
(* has the version the report claims, so that the log never shows a        *)
(* "still old" beside the new version (CheckCampaign's state id, the join  *)
(* in loadCampaignCheckRows).                                              *)
ReportsDescribeStates ==
    [][Len(reports') > Len(reports) =>
         LET r == reports'[Len(reports')] IN
         /\ r.state = present'[ArcadeOf[r.game]]
         /\ states'[r.state].rows[r.game].version =
              IF r.result = "updated" THEN campaign.to ELSE campaign.from]_campaignVars

(* What a user is invited to report is accepted: a pending machine takes   *)
(* the new version, and one under review, or shown as revertible, goes     *)
(* back, unless its cabinet never ran the old version; and the map counts  *)
(* what the list counts.  The lists, the number on the map and the handler *)
(* are pieces of code of their own (loadCampaignRowsByVersion,             *)
(* loadCampaignCheckRows, loadNearbyCampaignArcadeCounts, CheckCampaign).  *)
PromptsAreHonest ==
    campaign # NoCampaign =>
      /\ \A g \in Games, u \in Users :
           /\ CampaignPage(g) \in {"pending", "still_old"} => Heard(g, "updated", u, TRUE)
           /\ g \in Prompts => Heard(g, "updated", u, TRUE)
           /\ (g \in Prompts \/ ShownRevertible(g)) /\ Updated(g)
                /\ Supported(campaign.from, RowOf(g).cabinet) => Heard(g, "still_old", u, TRUE)
      /\ NearbyTarget = IF \E g \in Games : Pending(g) THEN TargetCount ELSE 0

(* A question that was answered is not asked again: a machine on the new   *)
(* version whose review ended stays out of the arcade's page until it is   *)
(* reported wrong or its game, its arcade or the campaign is edited.       *)
ReviewEnds ==
    [][\A g \in Games :
         /\ campaign # NoCampaign /\ campaign' = campaign /\ present' = present
         /\ listed' = listed
         /\ Updated(g) /\ Since(g) # {} /\ ~UnderReview(g)
         => ~UnderReview(g)']_campaignVars

(* Rewards and the pages of a campaign follow from its reports.            *)
CampaignsAddUp == CampaignsTypeOK /\ RewardsAreEarned /\ PromptsAreHonest

(* No report or answered question is undone by a step that was meant for   *)
(* something else.                                                         *)
StepsAreMeant == ReportsDescribeStates /\ ReviewEnds
===============================================================================
