---------------------------- MODULE MCOperations ----------------------------
(* Small instances of Campaigns and of Catalog, which the same people run:  *)
(* a behaviour uses some of the operations of one of them.                  *)
EXTENDS Campaigns, Catalog, TLC

CONSTANTS g1, g2, g3, early, both, late, u1, u2,
          m1, m2, s1, v1, v2, c1, c2, o1, o2, o3, q1, q2

MCSymmetry == Permutations({u1, u2}) \cup Permutations({o1, o2, o3}) \cup Permutations({q1, q2})

-------------------------------------------------------------------------------
(* Campaigns.                                                              *)

MCArcadeOf  == [g \in Games |-> IF g = g3 THEN "hall2" ELSE "hall1"]
MCCountry   == [a \in {"hall1", "hall2"} |-> IF a = "hall1" THEN "KR" ELSE "JP"]

(* "early" runs the first version only, "late" the later ones.               *)
MCSupports  == {<<1, early>>} \cup {<<v, both>> : v \in 1..3} \cup {<<2, late>>, <<3, late>>}
MCFirstRows == [g \in Games |-> IF g = g2 THEN [version |-> 1, cabinet |-> early]
                                ELSE [version |-> 1, cabinet |-> both]]

MCBody == [status |-> "active", from |-> 1, to |-> 2, cabinetScope |-> "all", cabinets |-> {},
           countryScope |-> "all", countries |-> {}, reward |-> 3, start |-> 0, end |-> EndOfTime]
MCBodies == {MCBody,
             [MCBody EXCEPT !.from = 2, !.to = 3, !.reward = 2],
             [MCBody EXCEPT !.cabinetScope = "include", !.cabinets = {both}],
             [MCBody EXCEPT !.countryScope = "exclude", !.countries = {"JP"}, !.start = 1],
             [MCBody EXCEPT !.status = "draft", !.countryScope = "include", !.countries = {"JP"}],
             [MCBody EXCEPT !.from = 2]}

-------------------------------------------------------------------------------
(* The catalog: one series with two versions and a cabinet, and room for   *)
(* another maker and another cabinet.                                      *)

MCSeriesOf == [x \in Versions \cup Boxes |-> s1]
MCRecord(maker) == [rev |-> 1, archived |-> FALSE, name |-> "old", maker |-> maker]
MCFirstCatalog ==
    [id \in Ids |-> IF id = s1 THEN MCRecord(m1)
                    ELSE IF id \in {m1, v1, v2, c1, <<v1, c1>>} THEN MCRecord(NoMaker)
                    ELSE Absent]

-------------------------------------------------------------------------------
VARIABLE focus      \* the operations in use

MCCampaignFoci == {"votes", "machines", "setup"}
MCFoci == MCCampaignFoci \cup {"race", "tree", "use"}

MCInit == CampaignsInit /\ CatalogInit /\ focus \in MCFoci

(* votes: two users about one machine; machines: one user, the machines are *)
(* edited; setup: one user, the campaign is edited.                         *)
MCCampaigns ==
    /\ CampaignsNext /\ UNCHANGED catalogVars
    /\ campaign = NoCampaign /\ focus # "setup" => campaign' \in {campaign, MCBody}
    /\ focus = "votes" =>
         /\ campaign # NoCampaign => campaign' = campaign
         /\ \A i \in DOMAIN reports' : reports'[i].game = g1
         /\ Cardinality(seen') <= 1 /\ \A s \in seen' : s[2] = "hall1"
         /\ day' <= 3
         /\ listed' = listed
         /\ Len(states') > Len(states) => reports' # reports
    /\ focus # "votes" =>
         /\ Len(reports') <= 2
         /\ \A i \in DOMAIN reports' : reports'[i].user = u1
         /\ seen' \subseteq {<<u1, "hall1">>}
         /\ Len(states') <= 4 /\ day' <= 2
    /\ focus = "machines" =>
         /\ campaign # NoCampaign => campaign' = campaign
         /\ present'["hall2"] = present["hall2"] /\ "hall2" \in listed'
         /\ day' <= 1
         /\ \A i \in DOMAIN reports' : reports'[i].game # g3
    /\ focus = "setup" =>
         /\ \A s \in DOMAIN states' : g2 \in DOMAIN states'[s].rows => states'[s].rows[g2] = MCFirstRows[g2]
         /\ listed' = listed /\ seen' = {} /\ Len(reports') <= 1

(* race: two requests about a cabinet and its links; tree: one at a time,   *)
(* about everything; use: one at a time, with arcades and a campaign.       *)
MCCatalog ==
    /\ CatalogNext /\ UNCHANGED campaignVars
    /\ focus = "race" =>
         /\ catalog'[<<v2, c1>>] = Absent
         /\ \A q \in Requests : request'[q] # Idle =>
               request'[q].body.id \in {c1, <<v1, c1>>} /\ request'[q].act # "create"
    /\ focus # "race" => \E q \in Requests : request'[q] = Idle
    /\ focus = "tree" =>
         /\ catalog'[c2] = Absent
         /\ \A q \in Requests : request'[q].act = "update" =>
               request'[q].body.name = "old" /\ request'[q].body.id \in Series
         /\ \A q \in Requests : request'[q].act = "create" => request'[q].body.name = "new"
    /\ focus # "use"  => installed' = installed /\ planned' = planned
    /\ focus # "tree" => Len(changes') < MaxChanges
    /\ focus = "use"  =>
         /\ Cardinality(installed') <= 1 /\ installed' \subseteq {<<v1, c1>>, <<v2, NoBox>>}
         /\ planned'.boxes \subseteq {c1} /\ (planned'.status # "ended" => planned = NoPlan)
         /\ \A q \in Requests : request'[q] # Idle => request'[q].act \in {"archive", "revert"}

MCNext ==
    /\ UNCHANGED focus
    /\ IF focus \in MCCampaignFoci THEN MCCampaigns ELSE MCCatalog

MCSpec == MCInit /\ [][MCNext]_<<campaignVars, catalogVars, focus>>
===============================================================================
