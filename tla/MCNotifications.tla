--------------------------- MODULE MCNotifications ---------------------------
(* Small instances of AimeRecovery and Notifications: stories sent out while *)
(* accounts come and go, browsers and reports, an inbox read page by page,   *)
(* and the watch over the game network.                                      *)
EXTENDS AimeRecovery

VARIABLE focus

MCNoticeFoci == {"sending", "devices", "reading", "aime"}

MCMember == [state |-> "active", born |-> 0, role |-> "member", owns |-> {}]
MCOwner == [MCMember EXCEPT !.role = "owner", !.owns = Arcades]
MCStaff == [MCMember EXCEPT !.role = "staff"]

MCNoticeInit ==
    /\ focus \in MCNoticeFoci /\ NoticeInit /\ AimeInit
    /\ focus = "sending" => account \in {(1 :> MCMember @@ 2 :> NoAccount @@ 3 :> MCMember),
                                     (1 :> MCMember @@ 2 :> MCMember @@ 3 :> MCMember)}
    /\ focus = "devices" => account = (1 :> MCOwner @@ 2 :> MCStaff @@ 3 :> NoAccount)
    /\ focus = "reading" => account = (1 :> MCMember @@ 2 :> MCOwner @@ 3 :> NoAccount)
    /\ focus = "aime" => \A u \in Members : account[u] = MCMember
    /\ focus # "aime" => aime = Unwatched

MCFirst(S) == CHOOSE x \in S : TRUE

(* The first story is in English and pushed, the other in all languages.   *)
MCStory(s) ==
    LET first == s = MCFirst(Announcements) IN
    \/ \E texts \in {{"en"}, Locales} : Edit(s, texts)
    \/ Publish(s, IF first THEN {"en"} ELSE Locales, ~first)
    \/ story[s].status = "published" /\ ArchiveStory(s)

MCSending ==
    \/ SignUp(2, "member", {}) \/ Withdraw(3)
    \/ \E s \in Announcements : MCStory(s)
    \/ SendBatch \/ (clock < 1 /\ Tick)
    \/ seq = 0 /\ RegisterDevice(1, MCFirst(Endpoints), "en")

MCDevices ==
    /\ LET f == MCFirst(Flags) IN
       \/ \E u \in {1, 2}, e \in Endpoints : DeviceStep(u, e)
       \/ \E u \in {1, 2} : ReportStep(u, f)
       \/ DeleteFlag(f)
       \/ \E d \in queue : DeliverPush(d)
       \/ Withdraw(2) \/ SignUp(3, "owner", Arcades) \/ ReadAll(1)
       \/ \E n \in inbox : Read(1, n)
    /\ seq' <= 2

MCReading ==
    /\ \/ ReadAll(2) \/ List(2, "en")
       \/ \E f \in Flags : DeleteFlag(f) \/ ReportStep(1, f)
       \/ MCStory(MCFirst(Announcements))
       \/ \E a \in Arcades, internal \in BOOLEAN : SetArcade(a, [public |-> TRUE, internal |-> internal])
       \/ SendBatch \/ More \/ Close
    /\ seq' <= 3

MCPages ==
    [s \in Sources |-> IF s = "diagnostic" THEN "refused" ELSE "ok"]
MCProbes == {MCPages, [MCPages EXCEPT !["maimai"] = "maintenance"],
             [MCPages EXCEPT !["maimai"] = "failed", !["chunithm"] = "maintenance"],
             [MCPages EXCEPT !["chunithm"] = "not_html"], [MCPages EXCEPT !["maimai"] = "refused"],
             [MCPages EXCEPT !["diagnostic"] = "maintenance"]}

MCAime ==
    \/ \E pages \in MCProbes : Probe(pages)
    \/ \E ch \in Channels : Receipt(ch)
    \/ \E u \in Members, enabled \in BOOLEAN : AimeSubscribe(u, enabled)
    \/ DrainAimeRecoveries
    \/ (UNCHANGED aimeVars /\ (Tick \/ Withdraw(1)))

MCNoticeNext ==
    /\ UNCHANGED focus
    /\ \/ focus = "sending" /\ MCSending /\ UNCHANGED aimeVars
       \/ focus = "devices" /\ MCDevices /\ UNCHANGED aimeVars
       \/ focus = "reading" /\ MCReading /\ UNCHANGED aimeVars
       \/ focus = "aime" /\ MCAime

MCNoticeSpec ==
    MCNoticeInit /\ [][MCNoticeNext]_<<watchVars, focus>> /\ WatchFairness

-------------------------------------------------------------------------------
(* What the run checks.                                                      *)

(* What was begun ends, and not before its time: a story goes out to all, a  *)
(* recovery is proven and then told to all who asked.                        *)
WhatIsBegunEnds == StoriesGoOut /\ AskedAreTold /\ RecoveryIsProven
==============================================================================
