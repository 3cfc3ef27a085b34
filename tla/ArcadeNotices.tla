---------------------------- MODULE ArcadeNotices ----------------------------
(***************************************************************************)
(* The notices of one arcade (handlers/arcade/notice): created, changed    *)
(* and deleted by staff, by the arcade's official account and by           *)
(* supporters of level 30, shown with a limited number of required and of  *)
(* pinned ones, and marked deleted by whoever reads the list after they    *)
(* ran out.                                                                *)
(*                                                                         *)
(* A request enters with the tags its user had then; its handler is one    *)
(* transaction.  Reading the list is several steps: the rows are read, and *)
(* those that ran out are saved one by one.                                *)
(***************************************************************************)
EXTENDS Supporters

CONSTANTS
    Notices, Priorities,
    Nobody,             \* author of a notice older than authorship
    Creator,            \* who created the arcade
    PinnedLimit,        \* 3
    Editors, Viewers, Idle,
    Dates, Never,       \* days a notice may run out; one that does not
    LastTick            \* bound on the clock

ASSUME NoticesAssumption ==
    /\ Nobody \notin People /\ Creator \in People
    /\ PinnedLimit \in Nat \ {0} /\ LastTick \in Nat \ {0}
    /\ Dates \subseteq Nat \ {0} /\ Never \in Nat /\ Never > LastTick
    /\ IsFiniteSet(Notices) /\ Priorities \subseteq Int
    /\ Min(Priorities) \in Priorities

VARIABLES
    notice,     \* arcade_notice
    listed,     \* arcade.public
    write,      \* writing requests, with the user and the tags they entered with
    view,       \* requests to read: the rows still to expire and the answer
    made,       \* creations so far, for the order of creation
    lapsed,     \* history: notices that ran out while they were kept
    removed,    \* history: notices deleted by request
    clock

noticeVars == <<notice, listed, write, view, made, lapsed, removed, clock>>

Modes == {"required", "pinned", "normal"}
Times == Dates \cup {Never}
Notice == [state : {"none", "kept", "deleted"}, mode : Modes, by : People \cup {Nobody},
           until : Times, priority : Priorities, created : Nat]
NoNotice == [state |-> "none", mode |-> "normal", by |-> Nobody, until |-> Never,
             priority |-> Min(Priorities), created |-> 0]

NoticesInit ==
    \* one notice may be from before authorship
    /\ \E old \in SUBSET Notices :
         /\ Cardinality(old) <= 1
         /\ notice = [n \in Notices |->
              IF n \in old THEN [NoNotice EXCEPT !.state = "kept"] ELSE NoNotice]
    /\ listed = TRUE
    /\ write = [c \in Editors |-> Idle]
    /\ view = [r \in Viewers |-> Idle]
    /\ made = 0 /\ lapsed = {} /\ removed = {} /\ clock = 1

-------------------------------------------------------------------------------
(* Who may.                                                                *)

(* hasSupporterNoticeAccess: the level of now, the tag of the request.     *)
LevelReached(u) == Qualified(u)

(* hasOtherOfficialArcadeManager: tags and `owns` of now.                  *)
ManagedByAnother(u) == \E v \in People \ {u} : "arcade_owner" \in role[v]

CanWriteArcade(c) == listed \/ c.by = Creator \/ "moderator" \in c.tags

noticeCreateAccess(c) ==
    \/ c.tags \cap {"moderator", "arcade_owner"} # {}
    \/ "founding_supporter" \in c.tags /\ LevelReached(c.by) /\ ~ManagedByAnother(c.by)

noticeMutationAccess(c, row) ==
    /\ CanWriteArcade(c)
    /\ \/ "moderator" \in c.tags
       \/ row.by = Nobody /\ "arcade_owner" \in c.tags
       \/ /\ row.by = c.by
          /\ \/ "arcade_owner" \in c.tags
             \/ "founding_supporter" \in c.tags => LevelReached(c.by)

-------------------------------------------------------------------------------
(* The limits.                                                             *)

Lapsed(row) == row.until # Never /\ row.until <= clock

Shown(row)  == row.state = "kept" /\ ~Lapsed(row)

Slots(mode) == IF mode = "required" THEN 1 ELSE PinnedLimit

(* Mutant: only a change of the display mode is checked.                   *)
checkNoticeDisplayLimit_OnPromotion(n, row) ==
    row.mode \in {"required", "pinned"} /\ row.mode # notice[n].mode /\ Shown(row) =>
        Cardinality({m \in Notices \ {n} : notice[m].mode = row.mode /\ Shown(notice[m])})
          < Slots(row.mode)

checkNoticeDisplayLimit(n, row) ==
    row.mode \in {"required", "pinned"} /\ Shown(row) =>
        Cardinality({m \in Notices \ {n} : notice[m].mode = row.mode /\ Shown(notice[m])})
          < Slots(row.mode)

-------------------------------------------------------------------------------
(* Writing.                                                                *)

StartWrite(c, u) ==
    /\ write[c] = Idle /\ u \notin gone
    /\ write' = [write EXCEPT ![c] = [by |-> u, tags |-> role[u]]]
    /\ UNCHANGED <<notice, listed, view, made, lapsed, removed, clock>>

DropWrite(c) ==
    /\ write[c] # Idle /\ write' = [write EXCEPT ![c] = Idle]
    /\ UNCHANGED <<notice, listed, view, made, lapsed, removed, clock>>

(* A field that is absent from the body stays; a date cannot be taken away. *)
applyNoticeFields(row, mode, until, priority) ==
    [row EXCEPT !.mode = mode, !.until = until, !.priority = priority]

Kept(n, row) ==
    /\ notice' = [notice EXCEPT ![n] = row]
    /\ lapsed' = IF row.state = "kept" /\ row.until <= clock THEN lapsed \cup {n} ELSE lapsed

CreateArcadeNotice(c, n, mode, until, priority) ==
    /\ write[c] # Idle /\ notice[n].state = "none"
    /\ noticeCreateAccess(write[c]) /\ CanWriteArcade(write[c])
    /\ LET row == applyNoticeFields([NoNotice EXCEPT !.state = "kept", !.by = write[c].by,
                                                     !.created = made + 1],
                                    mode, until, priority) IN
       checkNoticeDisplayLimit(n, row) /\ Kept(n, row)
    /\ made' = made + 1
    /\ write' = [write EXCEPT ![c] = Idle]
    /\ UNCHANGED <<listed, view, removed, clock>>

UpdateArcadeNotice(c, n, mode, until, priority) ==
    /\ write[c] # Idle /\ notice[n].state # "none"
    /\ noticeMutationAccess(write[c], notice[n])
    /\ until # notice[n].until => until # Never
    /\ LET row == applyNoticeFields(notice[n], mode, until, priority) IN
       checkNoticeDisplayLimit(n, row) /\ Kept(n, row)
    /\ write' = [write EXCEPT ![c] = Idle]
    /\ UNCHANGED <<listed, view, made, removed, clock>>

DeleteArcadeNotice(c, n) ==
    /\ write[c] # Idle /\ notice[n].state # "none"
    /\ noticeMutationAccess(write[c], notice[n])
    /\ notice' = [notice EXCEPT ![n].state = "deleted"]
    /\ removed' = removed \cup {n}
    /\ write' = [write EXCEPT ![c] = Idle]
    /\ UNCHANGED <<listed, view, made, lapsed, clock>>

-------------------------------------------------------------------------------
(* Reading: the order of the list, the rows, then the ones that ran out.   *)

Rank(mode) == CASE mode = "required" -> 0 [] mode = "pinned" -> 1 [] OTHER -> 2

(* Among pinned ones the lower priority first, otherwise the newer one.    *)
ListedBefore(a, b) ==
    \/ Rank(a.mode) < Rank(b.mode)
    \/ /\ Rank(a.mode) = Rank(b.mode)
       /\ \/ a.mode = "pinned" /\ a.priority < b.priority
          \/ (a.mode = "pinned" => a.priority = b.priority) /\ a.created > b.created

(* The rows sorted; no two of them were created at the same moment.        *)
InOrder(rows) ==
    CHOOSE list \in [1..Cardinality(rows) -> rows] :
        \A i, j \in 1..Cardinality(rows) : i < j => ListedBefore(list[i], list[j])

ReadNotices(r) ==
    /\ view[r] = Idle /\ listed
    /\ view' = [view EXCEPT ![r] =
         [expire |-> {n \in Notices : notice[n].state = "kept" /\ Lapsed(notice[n])},
          answer |-> InOrder({notice[n] : n \in {m \in Notices : Shown(notice[m])}})]]
    /\ UNCHANGED <<notice, listed, write, made, lapsed, removed, clock>>

(* Only the mark is saved, whatever has become of the row.                 *)
ExpireNotice(r, n) ==
    /\ view[r] # Idle /\ n \in view[r].expire
    /\ notice' = [notice EXCEPT ![n].state = "deleted"]
    /\ view' = [view EXCEPT ![r].expire = @ \ {n}]
    /\ UNCHANGED <<listed, write, made, lapsed, removed, clock>>

ListArcadeNotice(r) ==
    /\ view[r] # Idle /\ view[r].expire = {}
    /\ view' = [view EXCEPT ![r] = Idle]
    /\ UNCHANGED <<notice, listed, write, made, lapsed, removed, clock>>

-------------------------------------------------------------------------------
(* Around them.                                                            *)

(* Staff hides or shows the arcade (ArcadeSections).                       *)
Relist ==
    /\ listed' = ~listed
    /\ UNCHANGED <<notice, write, view, made, lapsed, removed, clock>>

Tick ==
    /\ clock < LastTick /\ clock' = clock + 1
    /\ lapsed' = lapsed \cup {n \in Notices : notice[n].state = "kept"
                                              /\ notice[n].until <= clock'}
    /\ UNCHANGED <<notice, listed, write, view, made, removed>>

NoticesNext ==
    \/ \E c \in Editors, u \in People : StartWrite(c, u)
    \/ \E c \in Editors : DropWrite(c)
    \/ \E c \in Editors, n \in Notices, m \in Modes, t \in Times, p \in Priorities :
         CreateArcadeNotice(c, n, m, t, p) \/ UpdateArcadeNotice(c, n, m, t, p)
    \/ \E c \in Editors, n \in Notices : DeleteArcadeNotice(c, n)
    \/ \E r \in Viewers : ReadNotices(r) \/ ListArcadeNotice(r)
    \/ \E r \in Viewers, n \in Notices : ExpireNotice(r, n)
    \/ Relist \/ Tick

(* Roles, experience and notices move independently of each other.         *)
BoardInit == SupportersInit /\ NoticesInit
BoardNext == \/ NoticesNext /\ UNCHANGED supporterVars
             \/ SupportersNext /\ UNCHANGED noticeVars
BoardSpec == BoardInit /\ [][BoardNext]_<<supporterVars, noticeVars>>

-------------------------------------------------------------------------------
BoardTypeOK ==
    /\ SupportersTypeOK
    /\ notice \in [Notices -> Notice] /\ listed \in BOOLEAN
    /\ lapsed \subseteq Notices /\ removed \subseteq Notices /\ clock \in 1..LastTick
    /\ \A n, m \in Notices : n # m /\ notice[n].created = notice[m].created
                               => notice[n].created = 0

(* At any time one required notice and no more pinned ones than there are  *)
(* slots are shown, whatever was created, promoted, put off and left to    *)
(* run out in which order; and an answer has the required one on top, then *)
(* the pinned ones in the order of their priorities (docs: caps are        *)
(* enforced atomically).                                                   *)
SlotsHold ==
    /\ \A mode \in {"required", "pinned"} :
         Cardinality({n \in Notices : notice[n].mode = mode /\ Shown(notice[n])}) <= Slots(mode)
    /\ \A r \in Viewers : view[r] # Idle =>
         LET rows == view[r].answer IN
         \A i, j \in DOMAIN rows : i < j =>
            /\ rows[j].mode # "required"
            /\ rows[i].mode = "normal" => rows[j].mode = "normal"
            /\ rows[i].mode = "pinned" /\ rows[j].mode = "pinned" =>
                 rows[i].priority <= rows[j].priority

(* A notice is only ever marked deleted if it ran out while it was kept or *)
(* somebody with access deleted it: a reader never takes away one that was *)
(* good all along, however long it held on to its list.                    *)
GoneForAReason ==
    \A n \in Notices : notice[n].state = "deleted" => n \in lapsed \cup removed

(* What an author wrote is changed and deleted by request only by the      *)
(* author and by staff; the official account has the notices nobody wrote, *)
(* whatever roles came and went while requests were under way.             *)
WrittenByTheirs ==
    [][\A n \in Notices :
         notice[n].state # "none" /\ notice'[n] # notice[n] /\ view' = view =>
           \E c \in Editors :
             /\ write[c] # Idle /\ write'[c] = Idle
             /\ \/ write[c].by \in {notice[n].by} \cup Moderators
                \/ notice[n].by = Nobody /\ write[c].by \in Managers]_noticeVars

(* Supporters, the notices of a board and those that went from it have what *)
(* made them so, and nobody changes a notice that is not theirs.            *)
BoardsHold ==
    /\ [](BoardTypeOK /\ SupportersEarnedIt /\ SlotsHold /\ GoneForAReason)
    /\ WrittenByTheirs
===============================================================================
