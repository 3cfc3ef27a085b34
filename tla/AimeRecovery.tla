---------------------------- MODULE AimeRecovery ----------------------------
(***************************************************************************)
(* The one-off watch over the game network (service/usernotification/      *)
(* aime.go, aime_probe.go): probes of its public pages, the confirmation   *)
(* of its recovery, and the notice to the accounts that asked for it.      *)
(*                                                                         *)
(* Time is the clock of Notifications.  Apart and Gap stand for the five   *)
(* and ten minutes between observations that count.                        *)
(***************************************************************************)
EXTENDS Notifications

CONSTANTS Apart, Gap, Confirmations

ASSUME WatchAssumption ==
    Apart \in Nat /\ Gap \in Nat /\ Confirmations \in Nat \ {0} /\ None \notin Nat

VARIABLES
    aime,           \* the stored state of the watch
    asked,          \* asked[u]: "asked" while there is a row, else how it ended
    run             \* when the observations began to be good without a break, or None

aimeVars == <<aime, asked, run>>
watchVars == <<noticeVars, aimeVars>>

Sources == {"diagnostic", "maimai", "chunithm"}
Statuses == {"available", "blocked", "unknown"}

(* What one page shows: a maintenance text, in any answer, is a block; else *)
(* only a plain success is available.                                      *)
SourceStatus(page) ==
    IF page = "failed" \/ page = "not_html" THEN "unknown"
    ELSE IF page = "maintenance" THEN "blocked"
    ELSE IF page = "ok" THEN "available" ELSE "unknown"

(* The games decide; a block of one outweighs what is not known of another.*)
Observation(pages) ==
    LET games == {SourceStatus(pages[s]) : s \in Sources \ {"diagnostic"}} IN
    IF "blocked" \in games THEN "blocked"
    ELSE IF games = {"available"} THEN "available" ELSE "unknown"

Unwatched == [incident |-> FALSE, recovered |-> FALSE, status |-> "none", count |-> 0, since |-> None,
              candidate |-> FALSE, receipts |-> {}, seen |-> None]

(* Nothing yet, or what was stored when only the answer's code was looked at.*)
AimeInit ==
    /\ aime \in {Unwatched, [Unwatched EXCEPT !.incident = TRUE, !.status = "legacy", !.candidate = TRUE,
                                              !.count = Confirmations - 1, !.since = 0]}
    /\ asked = [u \in Members |-> "no"] /\ run = None

Channels == {"telegram", "discord"}

(* A good observation, in an incident: the first ever and any after a break *)
(* begin to count anew.                                                    *)
Confirmed(st, now) ==
    IF ~st.candidate \/ st.status # "available" \/ st.since = None \/ now - st.since > Gap
      THEN [st EXCEPT !.candidate = TRUE, !.count = 0, !.since = now]
    ELSE IF now - st.since < Apart THEN st
    ELSE LET count == IF st.count = Confirmations THEN st.count ELSE st.count + 1 IN
         [st EXCEPT !.count = count, !.since = now,
                    !.recovered = count = Confirmations /\ st.receipts = Channels]

Observed(old, status, now) ==
    LET st == IF old.status \in Statuses THEN old ELSE [old EXCEPT !.count = 0, !.since = now] IN
    IF status # "available"
      THEN [st EXCEPT !.incident = @ \/ status = "blocked", !.count = 0, !.since = now]
    ELSE IF st.incident THEN Confirmed(st, now) ELSE st

(* Once recovered, it stays so: only the page of the status changes.       *)
Probe(pages) ==
    LET status == Observation(pages) IN
    /\ aime' = [(IF aime.recovered THEN aime ELSE Observed(aime, status, clock))
                  EXCEPT !.status = status, !.seen = clock]
    /\ run' = IF status # "available" THEN None
              ELSE IF run = None \/ clock - aime.seen > Gap THEN clock ELSE run
    /\ UNCHANGED <<noticeVars, asked>>

(* The operators were told over a channel (not in this repository).        *)
Receipt(ch) ==
    /\ aime.candidate /\ ch \notin aime.receipts
    /\ aime' = [aime EXCEPT !.receipts = @ \cup {ch}]
    /\ UNCHANGED <<noticeVars, asked, run>>

Subscribable == aime.incident /\ ~aime.recovered

AimeSubscribe(u, enabled) ==
    /\ ActiveAccount(u) /\ enabled => Subscribable
    /\ asked' = [asked EXCEPT ![u] = IF enabled THEN "asked" ELSE IF @ = "asked" THEN "cancelled" ELSE @]
    /\ UNCHANGED <<noticeVars, aime, run>>

Untold == {u \in Members : asked[u] = "asked"}

(* Those who asked are told once, some at a time; the withdrawn are not.   *)
DrainAimeRecoveries ==
    LET batch == FirstOf(Untold, Batch) IN
    /\ aime.recovered /\ Untold # {}
    /\ Tell(NewEntries(batch, <<"aime">>, None, {}), TRUE)
    /\ asked' = [u \in Members |-> IF u \in batch THEN "served" ELSE asked[u]]
    /\ UNCHANGED <<clock, account, arcade, flag, story, device, pref, browse, aime, run>>

Pages == {"ok", "maintenance", "refused", "failed", "not_html"}

AimeNext ==
    \/ \E pages \in [Sources -> Pages] : Probe(pages)
    \/ \E ch \in Channels : Receipt(ch)
    \/ \E u \in Members, enabled \in BOOLEAN : AimeSubscribe(u, enabled)
    \/ DrainAimeRecoveries

(* The schedulers of the two workers are not in this repository; its docs  *)
(* say they run (docs/architecture-contract.md:1193, 1313).                *)
WatchFairness == WF_watchVars(SendBatch /\ UNCHANGED aimeVars) /\ WF_watchVars(DrainAimeRecoveries)

WatchNext == (NoticeNext /\ UNCHANGED aimeVars) \/ AimeNext

WatchSpec == NoticeInit /\ AimeInit /\ [][WatchNext]_watchVars /\ WatchFairness

-------------------------------------------------------------------------------
(* Properties.                                                             *)

(* Accounts are told of a recovery only after the pages were good for the  *)
(* whole of the confirmation time, every observation of it, with no break  *)
(* between them, and both channels of the operators were told; and it is   *)
(* never taken back (RecordAimeProbe).                                     *)
RecoveryIsProven ==
    [][/\ aime'.recovered /\ ~aime.recovered =>
            /\ run # None /\ clock - run >= Confirmations * Apart
            /\ aime.incident /\ aime.receipts = Channels
       /\ aime.recovered => aime'.recovered]_watchVars

(* Whoever asked, and neither takes it back nor withdraws, is told in the  *)
(* end, though the accounts are told some at a time (DrainAimeRecoveries). *)
AskedAreTold ==
    \A u \in Members :
        aime.recovered /\ asked[u] = "asked" ~> asked[u] = "cancelled" \/ ~ActiveAccount(u) \/ HasNotice(u, <<"aime">>)
=============================================================================
