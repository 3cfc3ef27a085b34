---------------------------- MODULE Notifications ----------------------------
(***************************************************************************)
(* The inbox of an account, the browsers that want its notifications and   *)
(* the queue of what is to be pushed to them (service/usernotification,    *)
(* handlers/user/notifications, handlers/arcade/reporting), with their     *)
(* sources: announcements (handlers/announcement), sent out by a worker a  *)
(* few accounts at a time, reports and reactions.                          *)
(*                                                                         *)
(* Every action is one transaction.  Messages are in Conversation.tla, the *)
(* recovery notice in AimeRecovery.tla.                                    *)
(***************************************************************************)
EXTENDS Integers, Sequences, SequencesExt, FiniteSets

CONSTANTS
    Members,              \* accounts, 1..N: the order of their ids
    Endpoints, Arcades, Flags, Announcements, Locales,
    Batch,              \* accounts told in one step of the worker
    InboxPage,
    MaxClock, MaxSeq,
    None

(* The rows of the tables.                                                 *)
Account == [state : {"absent", "active", "withdrawn"}, born : Nat,
            role : {"member", "owner", "staff"}, owns : SUBSET Arcades]
Story == [status : {"draft", "published", "archived"}, texts : SUBSET Locales,
          locales : SUBSET Locales, at : Nat, cursor : {0} \cup Members,
          sent : BOOLEAN, quiet : BOOLEAN, audience : SUBSET Members]
Events == {<<"arcade_setup">>, <<"aime">>} \cup ({"announcement"} \X Announcements)
            \cup ({"report_created"} \X Flags) \cup ({"report_reaction"} \X Flags \X Members)
Entry == [user : Members, event : Events, where : Arcades \cup {None}, copy : SUBSET Locales,
          read : BOOLEAN, seq : 1..MaxSeq]
Device == [user : Members, locale : Locales]
Push == [user : Members, event : Events, where : Arcades \cup {None}, endpoint : Endpoints,
         done : BOOLEAN]

ASSUME NotificationsAssumption ==
    /\ IsFiniteSet(Members) /\ Members = 1..Cardinality(Members)
    /\ Batch \in Nat \ {0} /\ InboxPage \in Nat \ {0} /\ MaxClock \in Nat /\ MaxSeq \in Nat
    /\ "ko" \in Locales /\ None \notin Device \cup Entry

VARIABLES
    clock,
    account,        \* account[u]: state, time of creation, role and arcades owned
    arcade,         \* arcade[a]: public or not, internal reports or not
    flag,           \* flag[f]: a report, or None
    story,          \* story[s]: an announcement
    inbox,          \* the notifications of all accounts
    seq,            \* number of notifications so far: the order of their times and ids
    device,         \* device[e]: the browser at this endpoint, or None
    pref,           \* pref[<<a, e>>]: what the browser said about reports of the arcade
    queue,          \* pushes to be delivered
    browse          \* one reader of an inbox: the pages it has seen, or None

noticeVars == <<clock, account, arcade, flag, story, inbox, seq, device, pref, queue, browse>>

NoAccount == [state |-> "absent", born |-> 0, role |-> "member", owns |-> {}]
Draft == [status |-> "draft", texts |-> {}, locales |-> {}, at |-> 0, cursor |-> 0,
          sent |-> FALSE, quiet |-> FALSE, audience |-> {}]

ActiveAccount(u) == account[u].state = "active"

(* Staff manage every arcade, an owner those it owns.                      *)
CanManage(u, a) ==
    /\ ActiveAccount(u)
    /\ \/ account[u].role = "staff"
       \/ account[u].role = "owner" /\ a \in account[u].owns

-------------------------------------------------------------------------------
(* Telling an account: one row of the inbox, one push for each browser.    *)

Event(kind, source) == <<kind, source>>

InboxEntry(u, event, where, copy, n) ==
    [user |-> u, event |-> event, where |-> where, copy |-> copy, read |-> FALSE, seq |-> n]

Kind(n) == n.event[1]

(* What the browser said of this arcade counts; if nothing, the owner's do.*)
WantsReport(e, n) ==
    \/ pref[<<n.where, e>>] = "on"
    \/ pref[<<n.where, e>>] = "unset" /\ n.where \in account[n.user].owns

Receives(e, n) ==
    /\ device[e] # None /\ device[e].user = n.user
    /\ Kind(n) = "announcement" => device[e].locale \in n.copy
    /\ Kind(n) = "report_created" => WantsReport(e, n)

Pushes(n) ==
    {[user |-> n.user, event |-> n.event, where |-> n.where, endpoint |-> e, done |-> FALSE] :
        e \in {x \in Endpoints : Receives(x, n)}}

HasNotice(u, event) == \E n \in inbox : n.user = u /\ n.event = event

(* The new rows for accounts that were not told, in the order of their ids.*)
NewEntries(to, event, where, copy) ==
    LET fresh == {u \in to : ActiveAccount(u) /\ ~HasNotice(u, event)}
        place(u) == Cardinality({v \in fresh : v <= u}) IN
    {InboxEntry(u, event, where, copy, seq + place(u)) : u \in fresh}

Tell(new, push) ==
    /\ seq + Cardinality(new) <= MaxSeq
    /\ inbox' = inbox \cup new
    /\ seq' = seq + Cardinality(new)
    /\ queue' = IF push THEN queue \cup UNION {Pushes(n) : n \in new} ELSE queue

-------------------------------------------------------------------------------
(* Accounts (see Accounts.tla) and arcades, as far as they matter here.    *)

SignUp(u, role, owns) ==
    LET new == [state |-> "active", born |-> clock, role |-> role, owns |-> owns]
        setup == IF role = "owner" THEN {InboxEntry(u, <<"arcade_setup">>, None, {}, seq + 1)} ELSE {} IN
    /\ account[u].state = "absent"
    /\ role = "owner" <=> owns # {}
    /\ \A a \in owns : arcade[a].public
    /\ account' = [account EXCEPT ![u] = new]
    /\ Tell(setup, TRUE)
    /\ UNCHANGED <<clock, arcade, flag, story, device, pref, browse>>

Withdraw(u) ==
    /\ ActiveAccount(u)
    /\ account' = [account EXCEPT ![u].state = "withdrawn"]
    /\ UNCHANGED <<clock, arcade, flag, story, inbox, seq, device, pref, queue, browse>>

(* An arcade is hidden or shown, takes reports itself or sends them away.  *)
SetArcade(a, look) ==
    /\ arcade' = [arcade EXCEPT ![a] = look]
    /\ UNCHANGED <<clock, account, flag, story, inbox, seq, device, pref, queue, browse>>

-------------------------------------------------------------------------------
(* Browsers.                                                               *)

Registered(u, e) == device[e] # None /\ device[e].user = u

(* Removing a browser removes what it said and what was queued for it.     *)
Without(e) ==
    /\ pref' = [p \in Arcades \X Endpoints |-> IF p[2] = e THEN "unset" ELSE pref[p]]
    /\ queue' = {d \in queue : d.endpoint # e}

(* A browser belongs to one account: the row of another is removed.        *)
RegisterDevice(u, e, locale) ==
    /\ ActiveAccount(u)
    /\ device' = [device EXCEPT ![e] = [user |-> u, locale |-> locale]]
    /\ IF Registered(u, e) THEN UNCHANGED <<pref, queue>> ELSE Without(e)
    /\ UNCHANGED <<clock, account, arcade, flag, story, inbox, seq, browse>>

RemoveDevice(u, e) ==
    /\ ActiveAccount(u) /\ Registered(u, e)
    /\ device' = [device EXCEPT ![e] = None]
    /\ Without(e)
    /\ UNCHANGED <<clock, account, arcade, flag, story, inbox, seq, browse>>

SyncLocale(u, e, locale) ==
    /\ ActiveAccount(u) /\ Registered(u, e)
    /\ device' = [device EXCEPT ![e].locale = locale]
    /\ UNCHANGED <<clock, account, arcade, flag, story, inbox, seq, pref, queue, browse>>

(* A manager asks for the reports of an arcade on this browser.            *)
Subscribe(u, a, e) ==
    /\ CanManage(u, a)
    /\ IF Registered(u, e)
         THEN /\ pref' = [pref EXCEPT ![<<a, e>>] = "on"]
              /\ UNCHANGED <<device, queue>>
         ELSE /\ device' = [device EXCEPT ![e] = [user |-> u, locale |-> "ko"]]
              /\ pref' = [p \in Arcades \X Endpoints |->
                            IF p[2] # e THEN pref[p] ELSE IF p[1] = a THEN "on" ELSE "unset"]
              /\ queue' = {d \in queue : d.endpoint # e}
    /\ UNCHANGED <<clock, account, arcade, flag, story, inbox, seq, browse>>

(* It need not manage the arcade any more.                                 *)
Unsubscribe(u, a, e) ==
    /\ ActiveAccount(u) /\ Registered(u, e)
    /\ pref' = [pref EXCEPT ![<<a, e>>] = "off"]
    /\ queue' = {IF d.endpoint = e /\ d.event[1] = "report_created" /\ d.where = a
                   THEN [d EXCEPT !.done = TRUE] ELSE d : d \in queue}
    /\ UNCHANGED <<clock, account, arcade, flag, story, inbox, seq, device, browse>>

(* The sender delivers a push, or gives up on it.                          *)
DeliverPush(d) ==
    /\ d \in queue /\ ~d.done
    /\ queue' = (queue \ {d}) \cup {[d EXCEPT !.done = TRUE]}
    /\ UNCHANGED <<clock, account, arcade, flag, story, inbox, seq, device, pref, browse>>

-------------------------------------------------------------------------------
(* Reports.                                                                *)

(* Who owns the arcade and whose browser asked for its reports; the author *)
(* only in the latter case; all who may manage it now.                     *)
Recipients(a, author) ==
    LET owners == {u \in Members : a \in account[u].owns}
        asked == {device[e].user : e \in {x \in Endpoints : device[x] # None /\ pref[<<a, x>>] = "on"}} IN
    {u \in owners \cup asked : CanManage(u, a) /\ (u = author => u \in asked)}

CanWrite(u, a) == ActiveAccount(u) /\ (arcade[a].public \/ account[u].role = "staff")

Submit(u, f, a) ==
    /\ flag[f] = None /\ CanWrite(u, a) /\ arcade[a].internal
    /\ flag' = [flag EXCEPT ![f] = [where |-> a, author |-> u]]
    /\ Tell(NewEntries(Recipients(a, u), Event("report_created", f), a, {}), TRUE)
    /\ UNCHANGED <<clock, account, arcade, story, device, pref, browse>>

React(u, f) ==
    /\ flag[f] # None /\ CanWrite(u, flag[f].where) /\ arcade[flag[f].where].internal
    /\ ~\E n \in inbox : n.event = <<"report_reaction", f, u>>
    /\ Tell(NewEntries({flag[f].author} \ {u}, <<"report_reaction", f, u>>, flag[f].where, {}), TRUE)
    /\ UNCHANGED <<clock, account, arcade, flag, story, device, pref, browse>>

About(event, f) == event[1] \in {"report_created", "report_reaction"} /\ event[2] = f

(* Rows that point to the report go with it, and their pushes with them.   *)
DeleteFlag(f) ==
    /\ flag[f] # None
    /\ flag' = [flag EXCEPT ![f] = None]
    /\ inbox' = {n \in inbox : ~About(n.event, f)}
    /\ queue' = {d \in queue : ~About(d.event, f)}
    /\ UNCHANGED <<clock, account, arcade, story, seq, device, pref, browse>>
-------------------------------------------------------------------------------
(* Announcements.  A text is there or not, for each language.              *)

HasTexts(texts, locales) == locales \subseteq texts

Edit(s, texts) ==
    /\ story[s].status # "archived"
    /\ story[s].status = "published" => HasTexts(texts, story[s].locales)
    /\ story' = [story EXCEPT ![s].texts = texts]
    /\ UNCHANGED <<clock, account, arcade, flag, inbox, seq, device, pref, queue, browse>>

(* The audience is not stored: it is whoever is there at this moment.      *)
Publish(s, locales, quiet) ==
    /\ story[s].status = "draft" /\ locales # {} /\ HasTexts(story[s].texts, locales)
    /\ story' = [story EXCEPT ![s] =
         [@ EXCEPT !.status = "published", !.locales = locales, !.at = clock, !.quiet = quiet,
                   !.audience = {u \in Members : ActiveAccount(u)}]]
    /\ UNCHANGED <<clock, account, arcade, flag, inbox, seq, device, pref, queue, browse>>

ArchiveStory(s) ==
    /\ story[s].status # "archived"
    /\ story' = [story EXCEPT ![s].status = "archived"]
    /\ UNCHANGED <<clock, account, arcade, flag, inbox, seq, device, pref, queue, browse>>

(* The worker: the earliest story that is not all sent, its next accounts. *)
Unsent == {s \in Announcements : story[s].status = "published" /\ ~story[s].sent}

Earliest(S) == CHOOSE s \in S : \A t \in S : story[s].at <= story[t].at

Following(s) ==
    {u \in Members : ActiveAccount(u) /\ u > story[s].cursor /\ account[u].born <= story[s].at}

(* Snapshot: the texts of the languages published.                         *)
Copies(s) == story[s].locales \cap story[s].texts

FirstOf(S, n) == {u \in S : Cardinality({v \in S : v <= u}) <= n}

(* Mutant: where the worker got to is not saved.                           *)
SendBatch_Forgets ==
    LET s == Earliest(Unsent)
        batch == FirstOf(Following(s), Batch)
        new == NewEntries(batch, Event("announcement", s), None, Copies(s)) IN
    /\ Unsent # {}
    /\ Tell(new, ~story[s].quiet)
    /\ story' = [story EXCEPT ![s].sent = Cardinality(batch) < Batch]
    /\ UNCHANGED <<clock, account, arcade, flag, device, pref, browse>>

SendBatch ==
    LET s == Earliest(Unsent)
        batch == FirstOf(Following(s), Batch)
        last == CHOOSE u \in batch \cup {story[s].cursor} : \A v \in batch : v <= u
        new == NewEntries(batch, Event("announcement", s), None, Copies(s)) IN
    /\ Unsent # {}
    /\ Tell(new, ~story[s].quiet)
    /\ story' = [story EXCEPT ![s] = [@ EXCEPT !.cursor = last, !.sent = Cardinality(batch) < Batch]]
    /\ UNCHANGED <<clock, account, arcade, flag, device, pref, browse>>

-------------------------------------------------------------------------------
(* Reading an inbox.                                                       *)

Owner(u) == ActiveAccount(u) /\ account[u].role = "owner"

(* Decided anew for every list: roles, stories and arcades change.         *)
Visible(n) ==
    LET u == n.user IN
    CASE Kind(n) = "aime" -> ActiveAccount(u)
      [] Kind(n) = "arcade_setup" -> Owner(u)
      [] Kind(n) = "announcement" -> ActiveAccount(u) /\ story[n.event[2]].status = "published"
      [] Kind(n) = "report_created" -> arcade[n.where].internal /\ CanManage(u, n.where)
      [] Kind(n) = "report_reaction" ->
            ActiveAccount(u) /\ arcade[n.where].internal /\ (arcade[n.where].public \/ CanManage(u, n.where))

ShownTo(u, locale) ==
    {n \in inbox : n.user = u /\ (Kind(n) = "announcement" => locale \in n.copy) /\ Visible(n)}

(* No two rows have the same time and id.                                  *)
NewestFirst(S) ==
    CHOOSE rows \in [1..Cardinality(S) -> S] :
        \A i, j \in 1..Cardinality(S) : i < j => rows[i].seq > rows[j].seq

(* A page starts below a row of the account; a row that is gone ends it.   *)
PageBelow(S, before) ==
    LET below == {n \in S : before = None \/ n.seq < before.seq}
        count == Cardinality(below)
        rows == NewestFirst(below) IN
    [items |-> [i \in 1..(IF count > InboxPage THEN InboxPage ELSE count) |-> rows[i]],
     next |-> IF count > InboxPage THEN rows[InboxPage] ELSE None]

(* Mutant: the page after so many rows.                                    *)
NextPage_Offset(S, seen, before) ==
    PageBelow({NewestFirst(S)[i] : i \in Len(seen) + 1 .. Cardinality(S)}, None)

NextPage(S, seen, before) == PageBelow(S, before)

Read(u, n) ==
    /\ ActiveAccount(u) /\ n \in inbox /\ n.user = u /\ ~n.read
    /\ inbox' = (inbox \ {n}) \cup {[n EXCEPT !.read = TRUE]}
    /\ UNCHANGED <<clock, account, arcade, flag, story, seq, device, pref, queue, browse>>

ReadAll(u) ==
    /\ ActiveAccount(u)
    /\ inbox' = {IF n.user = u THEN [n EXCEPT !.read = TRUE] ELSE n : n \in inbox}
    /\ UNCHANGED <<clock, account, arcade, flag, story, seq, device, pref, queue, browse>>

Key(n) == <<n.event, n.seq>>
Keys(S) == {Key(n) : n \in S}

(* A reader opens the list and asks for further pages, what it is due being *)
(* whatever it could have been shown each time it asked.                    *)
List(u, locale) ==
    LET rows == ShownTo(u, locale)
        page == PageBelow(rows, None) IN
    /\ ActiveAccount(u) /\ browse = None
    /\ browse' = [user |-> u, locale |-> locale, seen |-> page.items, next |-> page.next,
                  due |-> Keys(rows), lost |-> FALSE]
    /\ UNCHANGED <<clock, account, arcade, flag, story, inbox, seq, device, pref, queue>>

More ==
    LET rows == ShownTo(browse.user, browse.locale)
        gone == ~\E n \in inbox : Key(n) = Key(browse.next)
        page == NextPage(rows, browse.seen, browse.next) IN
    /\ browse # None /\ browse.next # None /\ ActiveAccount(browse.user)
    /\ browse' = IF gone THEN [browse EXCEPT !.next = None, !.lost = TRUE]
                 ELSE [browse EXCEPT !.seen = @ \o page.items, !.next = page.next,
                                     !.due = @ \cap Keys(rows)]
    /\ UNCHANGED <<clock, account, arcade, flag, story, inbox, seq, device, pref, queue>>

Close ==
    /\ browse # None /\ browse' = None
    /\ UNCHANGED <<clock, account, arcade, flag, story, inbox, seq, device, pref, queue>>

Tick ==
    /\ clock < MaxClock
    /\ clock' = clock + 1
    /\ UNCHANGED <<account, arcade, flag, story, inbox, seq, device, pref, queue, browse>>

-------------------------------------------------------------------------------
NoticeInit ==
    /\ clock = 0
    /\ account \in [Members -> {NoAccount} \cup
                     [state : {"active"}, born : {0}, role : {"member", "staff"}, owns : {{}}] \cup
                     [state : {"active"}, born : {0}, role : {"owner"}, owns : (SUBSET Arcades) \ {{}}]]
    /\ arcade = [a \in Arcades |-> [public |-> TRUE, internal |-> TRUE]]
    /\ flag = [f \in Flags |-> None]
    /\ story = [s \in Announcements |-> Draft]
    /\ inbox = {} /\ seq = 0 /\ queue = {}
    /\ device = [e \in Endpoints |-> None]
    /\ pref = [p \in Arcades \X Endpoints |-> "unset"]
    /\ browse = None

AccountStep(u) == Withdraw(u) \/ \E role \in {"member", "owner"}, owns \in SUBSET Arcades : SignUp(u, role, owns)
DeviceStep(u, e) ==
    \/ RemoveDevice(u, e)
    \/ \E l \in Locales : RegisterDevice(u, e, l) \/ SyncLocale(u, e, l)
    \/ \E a \in Arcades : Subscribe(u, a, e) \/ Unsubscribe(u, a, e)
ReportStep(u, f) == React(u, f) \/ \E a \in Arcades : Submit(u, f, a)
StoryStep(s) ==
    \/ \E locales \in SUBSET Locales : Edit(s, locales) \/ \E quiet \in BOOLEAN : Publish(s, locales, quiet)
    \/ ArchiveStory(s)
ReadStep(u) == ReadAll(u) \/ (\E n \in inbox : Read(u, n)) \/ \E l \in Locales : List(u, l)

NoticeNext ==
    \/ \E u \in Members : AccountStep(u) \/ ReadStep(u) \/ \E e \in Endpoints : DeviceStep(u, e)
    \/ \E u \in Members, f \in Flags : ReportStep(u, f)
    \/ \E f \in Flags : DeleteFlag(f)
    \/ \E s \in Announcements : StoryStep(s)
    \/ \E a \in Arcades, look \in [public : BOOLEAN, internal : BOOLEAN] : SetArcade(a, look)
    \/ \E d \in queue : DeliverPush(d)
    \/ SendBatch \/ More \/ Close \/ Tick

-------------------------------------------------------------------------------
(* Properties.                                                             *)

(* The type invariant.                                                     *)
NoticeTypeOK ==
    /\ clock \in 0..MaxClock /\ seq \in 0..MaxSeq
    /\ \A u \in Members : account[u].state \in {"absent", "active", "withdrawn"}
    /\ \A e \in Endpoints : device[e] # None => device[e] \in [user : Members, locale : Locales]
    /\ pref \in [Arcades \X Endpoints -> {"unset", "on", "off"}]
    /\ \A s \in Announcements : story[s].cursor \in {0} \cup Members
    /\ \A n, m \in inbox : n.seq = m.seq => n = m

(* A browser never receives what was meant for another account, though it  *)
(* changes hands while pushes wait (ReleaseOtherEndpointOwnersTx), and a   *)
(* push always has its row in the inbox.                                   *)
PushesAreTheirs ==
    \A d \in queue : Registered(d.user, d.endpoint) /\ HasNotice(d.user, d.event)

(* A browser that does not want the reports of an arcade has none waiting, *)
(* in whatever order it asked, reports came and it was asked again         *)
(* (DeleteSubscription, enqueueDevicesTx).                                 *)
OptOutIsKept ==
    \A d \in queue : d.event[1] = "report_created" /\ pref[<<d.where, d.endpoint>>] = "off" => d.done

(* When the worker has finished a story, everyone who was there when it was *)
(* published and still is has been told; no one who came later was; and     *)
(* what they were given is in the languages published, and pushed unless    *)
(* the story is quiet (FanoutAnnouncementsBatch).                           *)
EveryoneWasTold ==
    \A s \in Announcements :
        LET event == <<"announcement", s>> IN
        /\ story[s].sent => \A u \in story[s].audience : ActiveAccount(u) => HasNotice(u, event)
        /\ \A n \in inbox : n.event = event =>
              account[n.user].born <= story[s].at /\ n.copy = story[s].locales
        /\ story[s].quiet => ~\E d \in queue : d.event = event

(* An inbox is read page by page while notifications arrive, disappear and  *)
(* become visible: none is shown twice, and all that could be shown each    *)
(* time are, unless the row to go on from was deleted (scanInbox).          *)
PagesAreWhole ==
    browse # None =>
        /\ IsInjective([i \in DOMAIN browse.seen |-> Key(browse.seen[i])])
        /\ browse.next = None /\ ~browse.lost => browse.due \subseteq Keys(ToSet(browse.seen))

(* Every published story is sent to the end or archived (the worker takes  *)
(* the earliest: one that never ends would hold up all that follow).       *)
StoriesGoOut ==
    \A s \in Announcements : story[s].status = "published" ~> story[s].sent \/ story[s].status = "archived"

(* Everyone is told who should be, nobody else, once; and the pages of an  *)
(* inbox leave nothing out.                                                *)
TheRightOnesAreTold ==
    NoticeTypeOK /\ PushesAreTheirs /\ OptOutIsKept /\ EveryoneWasTold /\ PagesAreWhole
===============================================================================
