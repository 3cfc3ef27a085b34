---------------------------- MODULE Conversation ------------------------------
(***************************************************************************)
(* Private messages and inquiries: service/messaging.                      *)
(*                                                                         *)
(* A conversation is a DM between two users, or an inquiry of a user or a  *)
(* guest to an inbox: the arcade's, answered by its official accounts and  *)
(* by staff, or the team's, answered by staff.  An inquiry can start with  *)
(* an automatic reply that offers choices.                                 *)
(*                                                                         *)
(* Every request is one transaction of a database with a single writer,    *)
(* hence one action.  A request the code refuses, or answers from what an  *)
(* earlier one left behind (a retry), changes nothing and has no action.   *)
(***************************************************************************)
EXTENDS Naturals, FiniteSets

CONSTANTS
    Users, Guests,      \* accounts; browsers without one
    Staff,              \* developers and moderators
    None,               \* no sender, no text, no choice, no automatic reply
    Conversations,      \* messaging_conversation records
    Keys,               \* client_message_id, as clients choose it
    Bodies,             \* texts and photos
    Nodes,              \* automatic replies
    Choices, Restart,   \* choices they offer; "__restart"
    Bots,               \* configurations of automatic replies: where they start and lead
    VerifyBot,          \* the one of the official account verification
    FirstBot,           \* what the arcade has at the start
    CreateLimit,        \* conversations a minute: 10
    SendLimit,          \* messages of a sender a minute: 60
    ThreadLimit,        \* ... in one conversation: 30
    BlockLimit,         \* users somebody can block: 100
    Minute,             \* in ticks of the clock
    \* bounds of the model, none of the code:
    MaxTime,            \* the clock stops here
    MaxMessages,        \* messages in one conversation
    Payloads            \* what they send

People == Users \cup Guests

ASSUME PeopleAssumption ==
    /\ Staff \subseteq Users /\ Users \cap Guests = {}
    /\ None \notin People
ASSUME BotsAssumption ==
    /\ None \notin Nodes \cup Choices \cup Bots \cup {Restart} /\ Restart \notin Choices
    /\ VerifyBot \in Bots /\ FirstBot \in Bots \cup {None}
    /\ \A b \in Bots : /\ b.start \in Nodes
                       /\ b.next \in [Nodes -> [Choices -> Nodes \cup {None}]]
ASSUME BoundsAssumption ==
    /\ CreateLimit \in Nat /\ SendLimit \in Nat /\ ThreadLimit \in Nat /\ BlockLimit \in Nat
    /\ Minute \in Nat /\ MaxTime \in Nat /\ MaxMessages \in Nat

VARIABLES
    thread,     \* messaging_conversation, _party, _inquiry and _message
    read,       \* messaging_read: read[c][p] is last_read_sequence, 0 without a row
    notices,    \* user_notification of kind message: [user, sequence] by conversation
    unread,     \* those not read
    owners,     \* official accounts that own the arcade
    banned,     \* user_ban
    receive,    \* users whose messaging_preference is everyone, or is missing
    blocks,     \* messaging_block
    settings,   \* the arcade's inquiry settings and automatic replies
    now         \* time.Now()

world == <<owners, banned, receive, blocks, settings, now>>
vars == <<thread, read, notices, unread, world>>

Statuses == {"waiting", "recognised", "solved"}

\* What payload_hash tells apart.
Payload == [body     : Bodies \cup {None},
            mention  : BOOLEAN,                         \* @musecat
            message  : Nat,                             \* the reply a choice answers
            choice   : Choices \cup {None, Restart},
            context  : {"none", "arcade", "verify"},    \* of an inquiry's first message
            revision : Bots \cup {None}]

NoPayload == [body |-> None, mention |-> FALSE, message |-> 0, choice |-> None,
              context |-> "none", revision |-> None]

ASSUME InputsAssumption ==
    /\ Keys \cap Nat = {}                   \* generated keys are none of a client's
    /\ Payloads \subseteq Payload

Message == [sequence : Nat \ {0},
            author   : People \cup {None},            \* sender_user or sender_guest
            acting   : {"self", "inbox"},
            key      : Keys \cup Nat,                   \* client_message_id; generated: a number
            for      : People \cup {None},            \* whose request botRequestKey names
            kind     : {"text", "bot", "status"},
            payload  : Payload,
            node     : Nodes \cup {None},
            change   : (Statuses \X Statuses) \cup {<<>>},      \* status_change
            at       : Nat]                             \* created

Thread == [kind      : {"none", "dm", "inquiry"},
           creator   : People \cup {None},            \* created_by, the requester
           people    : SUBSET People,                   \* pair_key and the parties of a DM
           created   : Nat,
           inbox     : {"none", "arcade", "team"},
           status    : Statuses \cup {"none"},
           last      : Nat,                             \* last_sequence
           latest    : Nat,                             \* sequence of last_message
           bot       : [config : Bots \cup {None}, node : Nodes \cup {None},
                        message : Nat, active : BOOLEAN],
           messages  : SUBSET Message]

NoState  == [config |-> None, node |-> None, message |-> 0, active |-> FALSE]
NoThread == [kind |-> "none", creator |-> None, people |-> {}, created |-> 0,
             inbox |-> "none", status |-> "none", last |-> 0, latest |-> 0,
             bot |-> NoState, messages |-> {}]

Init ==
    /\ thread = [c \in Conversations |-> NoThread]
    /\ read = [c \in Conversations |-> [p \in People |-> 0]]
    /\ notices = [c \in Conversations |-> {}]
    /\ unread = [c \in Conversations |-> {}]
    /\ owners \in SUBSET Users
    /\ banned = {}
    /\ receive = Users
    /\ blocks = {}
    /\ settings = [intake |-> "internal", login |-> FALSE, bot |-> FirstBot]
    /\ now = 0

-------------------------------------------------------------------------------
(* policy.go                                                               *)

Active(p) == p \notin banned
Requests(p, t) == t.kind = "inquiry" /\ p = t.creator
Responder(p, t) == t.kind = "inquiry" /\ (p \in Staff \/ (t.inbox = "arcade" /\ p \in owners))
Access(p, t) ==
    /\ Active(p)
    /\ IF t.kind = "dm" THEN p \in t.people ELSE Requests(p, t) \/ Responder(p, t)

CanDM(from, to) ==
    /\ to \in receive /\ Active(to)
    /\ <<from, to>> \notin blocks /\ <<to, from>> \notin blocks

\* The identities p can write under: its own, or the inbox's.
Identities(p, t) ==
    {i \in {"self", "inbox"} : (i = "self" /\ (t.kind = "dm" \/ Requests(p, t)))
                               \/ (i = "inbox" /\ Responder(p, t))}

\* The statuses p can choose: inquiryPolicy.
Transitions(p, t) == IF Responder(p, t) THEN Statuses ELSE {}

\* The request names the identity unless there is just one.
Actor(p, t, acting, named) ==
    /\ acting \in Identities(p, t)
    /\ named \/ Identities(p, t) = {acting}
    /\ t.kind = "dm" => \A peer \in t.people \ {p} : CanDM(p, peer)

-------------------------------------------------------------------------------
(* notification.go: who hears of a message                                 *)

Mentioned(t) == \E m \in t.messages : m.kind = "text" /\ m.payload.mention

Audience(t) ==
    IF t.kind = "dm" THEN t.people
    ELSE ({t.creator} \cap Users)
         \cup (IF t.inbox = "team" \/ Mentioned(t) THEN Staff ELSE {})
         \cup (IF t.inbox = "arcade" THEN owners ELSE {})

NotificationRecipient(u, t, m) ==
    /\ u # m.author
    /\ \/ t.kind = "dm"
       \/ m.acting = "inbox" /\ u = t.creator
       \/ m.acting = "self" /\ u # t.creator /\ (t.inbox = "team" \/ u \in owners)
       \/ t.inbox = "arcade" /\ m.payload.mention /\ u \in Staff

\* notifyMessageTx for the message with that sequence.
Notified(t, n) ==
    {[user |-> u, sequence |-> n] : u \in
        {v \in Audience(t) : Active(v) /\
             \E m \in t.messages : m.sequence = n /\ NotificationRecipient(v, t, m)}}

-------------------------------------------------------------------------------
(* saveMessage, changeInquiryStatus, appendBotReply                        *)

\* The status a message leaves the inquiry in.
StatusAfter(t, acting) ==
    IF t.kind # "inquiry" THEN "none" ELSE IF acting = "self" THEN "waiting" ELSE "recognised"

(* Mutant: the history misses the change of status.                        *)
TextMessage_Unexplained(t, p, acting, key, payload) ==
    [sequence |-> t.last + 1, author |-> p, acting |-> acting, key |-> key, for |-> None,
     kind |-> "text", payload |-> payload, node |-> None, change |-> <<>>, at |-> now]

TextMessage(t, p, acting, key, payload) ==
    [sequence |-> t.last + 1, author |-> p, acting |-> acting, key |-> key, for |-> None,
     kind |-> "text", payload |-> payload, node |-> None,
     change |-> IF StatusAfter(t, acting) = t.status THEN <<>>
                ELSE <<t.status, StatusAfter(t, acting)>>,
     at |-> now]

Saved(t, p, acting, key, payload) ==
    [t EXCEPT !.last = t.last + 1, !.latest = t.last + 1, !.status = StatusAfter(t, acting),
              !.messages = t.messages \cup {TextMessage(t, p, acting, key, payload)}]

StatusEntry(t, p, status) ==
    [sequence |-> t.last + 1, author |-> p, acting |-> "inbox", key |-> t.last + 1,
     for |-> None, kind |-> "status", payload |-> NoPayload, node |-> None,
     change |-> <<t.status, status>>, at |-> now]

(* Mutant: the change is written on the newest message, as if it had caused *)
(* it.                                                                     *)
StatusChanged_OnLatest(t, p, status) ==
    [t EXCEPT !.status = status,
              !.messages = {IF m.sequence = t.latest
                              THEN [m EXCEPT !.change = <<t.status, status>>] ELSE m :
                            m \in t.messages}]

StatusChanged(t, p, status) ==
    [t EXCEPT !.last = t.last + 1, !.status = status,
              !.messages = t.messages \cup {StatusEntry(t, p, status)}]

Offers(config, node) == {ch \in Choices : config.next[node][ch] # None}

BotMessage(t, node, key, for, payload) ==
    [sequence |-> t.last + 1, author |-> None, acting |-> "inbox", key |-> key, for |-> for,
     kind |-> "bot", payload |-> payload, node |-> node, change |-> <<>>, at |-> now]

BotReplied(t, config, node, key, for, payload) ==
    [t EXCEPT !.last = t.last + 1, !.latest = t.last + 1,
              !.bot = [config |-> config, node |-> node, message |-> t.last + 1,
                       active |-> Offers(config, node) # {}],
              !.messages = t.messages \cup {BotMessage(t, node, key, for, payload)}]

Deactivated(t) == [t EXCEPT !.bot = [t.bot EXCEPT !.active = FALSE]]

CanRestart(t) ==
    /\ t.bot.message # 0 /\ t.latest = t.bot.message
    /\ t.bot.node # t.bot.config.start
    /\ Offers(t.bot.config, t.bot.config.start) # {}

\* botTransition: the choice is open to p, and where it leads.
Open(p, t, message, choice) ==
    /\ Requests(p, t) /\ message = t.bot.message
    /\ IF choice = Restart THEN CanRestart(t)
                           ELSE t.bot.active /\ choice \in Offers(t.bot.config, t.bot.node)
Target(t, choice) ==
    IF choice = Restart THEN t.bot.config.start ELSE t.bot.config.next[t.bot.node][choice]

(* Mutant: the choices stay open.                                          *)
Continued_Open(before, t, choice) ==
    IF choice # None
      THEN BotReplied(t, before.bot.config, Target(before, choice), t.last + 1, None, NoPayload)
      ELSE t
\* After a message: the reply to its choice, or no more choices.
Continued(before, t, choice) ==
    IF choice # None
      THEN BotReplied(t, before.bot.config, Target(before, choice), t.last + 1, None, NoPayload)
      ELSE Deactivated(t)

-------------------------------------------------------------------------------
(* rateLimit: what p did in the last minute                                *)

Lately(p, c) == {<<c, m.sequence>> : m \in {x \in thread[c].messages :
                                            x.author = p /\ x.at + Minute >= now}}
(* Mutant: only what was sent to this conversation counts.                 *)
MaySend_Here(p, c) == Cardinality(Lately(p, c)) < SendLimit

MaySend(p, c) ==
    /\ Cardinality(UNION {Lately(p, d) : d \in Conversations}) < SendLimit
    /\ Cardinality(Lately(p, c)) < ThreadLimit
MayCreate(p) ==
    Cardinality({c \in Conversations : /\ thread[c].creator = p
                                       /\ thread[c].created + Minute >= now}) < CreateLimit

-------------------------------------------------------------------------------
(* write.go                                                                *)

Fits(t) == t.last <= MaxMessages

\* A committed message notifies and stands in its conversation.
Commit(c, t, heard) ==
    /\ Fits(t)
    /\ thread' = [thread EXCEPT ![c] = t]
    /\ notices' = [notices EXCEPT ![c] = @ \cup heard]
    /\ unread' = [unread EXCEPT ![c] = @ \cup heard]
    /\ UNCHANGED <<read, world>>

Known(p, peer) ==
    \E c \in Conversations : thread[c].kind = "dm" /\ thread[c].people = {p, peer}

(* CreateFor, kind dm.                                                     *)
CreateDM(p, peer) ==
    \E c \in Conversations :
        /\ thread[c].kind = "none"
        /\ Active(p) /\ p # peer /\ CanDM(p, peer) /\ MayCreate(p)
        /\ ~Known(p, peer)
        /\ thread' = [thread EXCEPT ![c] = [NoThread EXCEPT !.kind = "dm", !.creator = p,
                                                 !.people = {p, peer}, !.created = now]]
        /\ UNCHANGED <<read, notices, unread, world>>

\* p has used the key for an inquiry before.
(* Mutant: an inquiry that began with an automatic reply is not found.     *)
Used_Own(p, key) ==
    \E c \in Conversations : \E m \in thread[c].messages :
        /\ thread[c].kind = "inquiry" /\ m.sequence = 1 /\ m.key = key /\ m.author = p

Used(p, key) ==
    \E c \in Conversations : \E m \in thread[c].messages :
        /\ thread[c].kind = "inquiry" /\ m.sequence = 1 /\ m.key = key
        /\ m.author = p \/ m.for = p

\* The automatic replies of a context: of the arcade, of the verification, none.
InquiryBot(context) ==
    CASE context = "arcade" -> settings.bot [] context = "verify" -> VerifyBot [] OTHER -> None

Admitted(p, inbox) ==
    inbox = "arcade" /\ owners # {} =>
        settings.intake = "internal" /\ (settings.login => p \in Users)

(* CreateFor, kind inquiry: an automatic reply, the message, the reply to  *)
(* its choice.                                                             *)
CreateInquiry(p, inbox, key, payload) ==
    LET config  == InquiryBot(payload.context)
        new     == [NoThread EXCEPT !.kind = "inquiry", !.creator = p, !.created = now,
                                    !.inbox = inbox, !.status = "waiting"]
        greeted == IF config = None THEN new
                   ELSE BotReplied(new, config, config.start, key, p, payload)
        asked   == Saved(greeted, p, "self", key, payload) IN
    \E c \in Conversations :
        /\ thread[c].kind = "none"
        /\ Active(p) /\ Admitted(p, inbox) /\ MayCreate(p) /\ ~Used(p, key)
        /\ payload.message = 0
        /\ payload.mention => inbox = "arcade"
        /\ payload.context = "arcade" => inbox = "arcade" /\ config # None
        /\ payload.context = "verify" => inbox = "team"
        /\ payload.revision \in {None, config}
        /\ payload.choice # None =>
               config # None /\ payload.choice \in Choices
               /\ Open(p, greeted, greeted.latest, payload.choice)
        /\ Commit(c, Continued(greeted, asked, payload.choice), Notified(asked, asked.last))

\* existingRetry: p has sent this message already.
Sent(p, c, key) == \E m \in thread[c].messages : m.author = p /\ m.key = key

(* SendFor.                                                                *)
Send(p, c, key, payload, acting, named) ==
    LET t     == thread[c]
        saved == Saved(t, p, acting, key, payload) IN
    /\ Access(p, t)
    /\ payload.context = "none" /\ payload.revision = None
    /\ payload.mention => t.inbox = "arcade"
    /\ ~Sent(p, c, key)
    /\ Actor(p, t, acting, named) /\ MaySend(p, c)
    /\ IF payload.choice = None THEN payload.message = 0
       ELSE acting = "self" /\ Open(p, t, payload.message, payload.choice)
    /\ Commit(c, Continued(t, saved, payload.choice), Notified(saved, saved.last))

(* SetStatusFor.                                                           *)
SetStatus(p, c, status) ==
    /\ Access(p, thread[c]) /\ status \in Transitions(p, thread[c])
    /\ thread[c].status # status
    /\ Commit(c, StatusChanged(thread[c], p, status), {})

\* The notifications still unread once p has seen conversation c so far.
(* Mutant: only the notification of that very message is acknowledged.     *)
Unseen_Exact(c, p, last) == {n \in unread[c] : n.user # p \/ n.sequence # last}

Unseen(c, p, last) == {n \in unread[c] : n.user # p \/ n.sequence > last}

Reached(p, c, through) == IF through > read[c][p] THEN through ELSE read[c][p]

(* SetReadFor: through may lie before the position already reached.        *)
SetRead(p, c, through) ==
    LET last == Reached(p, c, through) IN
    /\ Access(p, thread[c])
    /\ through <= thread[c].last
    /\ read' = [read EXCEPT ![c][p] = last]
    /\ unread' = [unread EXCEPT ![c] = Unseen(c, p, last)]
    /\ UNCHANGED <<thread, notices, world>>

(* notifications.Read of one notification: it and the older ones of its    *)
(* conversation.                                                           *)
Acknowledge(c, notice) ==
    /\ Active(notice.user)
    /\ unread' = [unread EXCEPT ![c] = Unseen(c, notice.user, notice.sequence)]
    /\ UNCHANGED <<thread, read, notices, world>>

(* ... and of all of them.                                                 *)
AcknowledgeAll(u) ==
    /\ Active(u)
    /\ unread' = [c \in Conversations |-> {n \in unread[c] : n.user # u}]
    /\ UNCHANGED <<thread, read, notices, world>>

(* Preference.                                                             *)
Preference(u, everyone) ==
    /\ Active(u)
    /\ receive' = IF everyone THEN receive \cup {u} ELSE receive \ {u}
    /\ UNCHANGED <<thread, read, notices, unread, owners, banned, blocks, settings, now>>

(* Block, and its removal.                                                 *)
Block(u, other) ==
    /\ Active(u) /\ u # other
    /\ <<u, other>> \notin blocks
    /\ Cardinality({b \in blocks : b[1] = u}) < BlockLimit
    /\ blocks' = blocks \cup {<<u, other>>}
    /\ UNCHANGED <<thread, read, notices, unread, owners, banned, receive, settings, now>>

Unblock(u, other) ==
    /\ Active(u)
    /\ blocks' = blocks \ {<<u, other>>}
    /\ UNCHANGED <<thread, read, notices, unread, owners, banned, receive, settings, now>>

-------------------------------------------------------------------------------
(* What others change                                                      *)

(* SetArcadeBot.                                                           *)
SetArcadeBot(u, config) ==
    /\ Active(u) /\ u \in owners \cup Staff
    /\ settings' = [settings EXCEPT !.bot = config]
    /\ UNCHANGED <<thread, read, notices, unread, owners, banned, receive, blocks, now>>

(* The arcade's inquiry settings: where inquiries go, and who may ask.     *)
UpdateInquirySettings(u, intake, login) ==
    /\ Active(u) /\ u \in owners \cup Staff
    /\ settings' = [settings EXCEPT !.intake = intake, !.login = login]
    /\ UNCHANGED <<thread, read, notices, unread, owners, banned, receive, blocks, now>>

(* A user becomes an official account of the arcade, or is none any more.  *)
ChangeOwner(u) ==
    /\ owners' = IF u \in owners THEN owners \ {u} ELSE owners \cup {u}
    /\ UNCHANGED <<thread, read, notices, unread, banned, receive, blocks, settings, now>>

(* A ban begins or ends.                                                   *)
ChangeBan(u) ==
    /\ banned' = IF u \in banned THEN banned \ {u} ELSE banned \cup {u}
    /\ UNCHANGED <<thread, read, notices, unread, owners, receive, blocks, settings, now>>

Tick ==
    /\ now < MaxTime
    /\ now' = now + 1
    /\ UNCHANGED <<thread, read, notices, unread, owners, banned, receive, blocks, settings>>

-------------------------------------------------------------------------------

Request ==
    \/ \E p, peer \in Users : CreateDM(p, peer)
    \/ \E p \in People, inbox \in {"arcade", "team"}, key \in Keys, payload \in Payloads :
           CreateInquiry(p, inbox, key, payload)
    \/ \E p \in People, c \in Conversations :
           \/ \E key \in Keys, payload \in Payloads, acting \in {"self", "inbox"},
                 named \in BOOLEAN : Send(p, c, key, payload, acting, named)
           \/ \E status \in Statuses : SetStatus(p, c, status)
           \/ \E through \in 0 .. MaxMessages : SetRead(p, c, through)
    \/ \E c \in Conversations : \E n \in notices[c] : Acknowledge(c, n)
    \/ \E u \in Users : AcknowledgeAll(u)
    \/ \E u \in Users, everyone \in BOOLEAN : Preference(u, everyone)
    \/ \E u, other \in Users : Block(u, other) \/ Unblock(u, other)

Change ==
    \/ \E u \in Users, config \in Bots \cup {None} : SetArcadeBot(u, config)
    \/ \E u \in Users, intake \in {"internal", "external"}, login \in BOOLEAN :
           UpdateInquirySettings(u, intake, login)
    \/ \E u \in Users : ChangeOwner(u) \/ ChangeBan(u)
    \/ Tick

Next == Request \/ Change

Spec == Init /\ [][Next]_vars

-------------------------------------------------------------------------------
(* What must hold                                                          *)

\* Every record has its type.
TypeOK ==
    /\ thread \in [Conversations -> Thread]
    /\ read \in [Conversations -> [People -> Nat]]
    /\ notices \in [Conversations -> SUBSET [user : Users, sequence : Nat \ {0}]]
    /\ unread \in [Conversations -> SUBSET [user : Users, sequence : Nat \ {0}]]
    /\ owners \in SUBSET Users /\ banned \in SUBSET People /\ receive \in SUBSET Users
    /\ blocks \in SUBSET (Users \X Users)
    /\ settings \in [intake : {"internal", "external"}, login : BOOLEAN,
                     bot : Bots \cup {None}]
    /\ now \in Nat

\* The messages of a conversation are numbered without a gap, status entries
\* and automatic replies included, whoever wrote them; last_message points at
\* the newest one that is not a status entry.
Numbered ==
    \A c \in Conversations : LET t == thread[c] IN
        /\ {m.sequence : m \in t.messages} = 1 .. t.last
        /\ \A m, o \in t.messages : m.sequence = o.sequence => m = o
        /\ \A m \in t.messages : m.kind # "status" => m.sequence <= t.latest
        /\ t.latest # 0 => \E m \in t.messages : m.sequence = t.latest /\ m.kind # "status"

\* A client that repeats a request has made it once: in a conversation a
\* sender uses a clientMessageId for one message, and for one inquiry.
SentOnce ==
    /\ \A c \in Conversations : \A m, o \in thread[c].messages :
           m.author # None /\ m.author = o.author /\ m.key = o.key => m = o
    /\ \A c, d \in Conversations : \A m \in thread[c].messages, o \in thread[d].messages :
           /\ thread[c].kind = "inquiry" /\ thread[c].kind = thread[d].kind
           /\ thread[c].creator = thread[d].creator
           /\ m.sequence = 1 /\ o.sequence = 1 /\ m.key = o.key
           => c = d

\* Two users have one conversation, whoever of them started it.
OnePerPair ==
    \A c, d \in Conversations :
        thread[c].kind = "dm" /\ thread[d].kind = "dm" /\ thread[c].people = thread[d].people
        => c = d

\* The status history explains the status: the changes follow on each other,
\* from waiting to the inquiry's status.
StatusExplained ==
    \A c \in Conversations : LET changes == {m \in thread[c].messages : m.change # <<>>}
                                before(m) == {o \in changes : o.sequence < m.sequence}
                                newest(S) == CHOOSE m \in S : \A o \in S : o.sequence <= m.sequence
                                after(S)  == IF S = {} THEN "waiting" ELSE newest(S).change[2] IN
        thread[c].kind = "inquiry" =>
            /\ thread[c].status = after(changes)
            /\ \A m \in changes : m.change[1] = after(before(m)) /\ m.change[1] # m.change[2]

\* Choices are open only under the newest visible message, which offers them;
\* a choice is answered at once, by the automatic reply it leads to in the
\* configuration the inquiry started with.
BotAnswers ==
    \A c \in Conversations : LET t == thread[c] IN
        /\ t.bot.active => t.latest = t.bot.message
        /\ \A m \in t.messages : m.kind = "bot" =>
              m.node = t.bot.config.start \/
              \E q \in t.messages, o \in t.messages :
                  /\ q.sequence = m.sequence - 1 /\ q.kind = "text"
                  /\ o.kind = "bot" /\ q.payload.message \in {0, o.sequence}
                  /\ o.sequence < q.sequence
                  /\ m.node = t.bot.config.next[o.node][q.payload.choice]
        /\ \A q \in t.messages : q.kind = "text" /\ q.payload.choice # None =>
              \E m \in t.messages : m.sequence = q.sequence + 1 /\ m.kind = "bot"

\* Nobody has read what was never sent, and a notification of what its
\* recipient has read is not unread.
ReadIsAcknowledged ==
    \A c \in Conversations :
        /\ \A p \in People : read[c][p] <= thread[c].last
        /\ unread[c] \subseteq notices[c]
        /\ \A n \in unread[c] : n.sequence > read[c][n.user]

\* The inbox shows of a conversation the latest notification only, and counts
\* that one: no unread notification hides behind a newer one that is read.
NoneHidden ==
    \A c \in Conversations : \A n \in unread[c], m \in notices[c] :
        m.user = n.user /\ m.sequence > n.sequence => m \in unread[c]

\* unreadCount of a summary.
UnreadMessages(p, c, position) ==
    {m \in thread[c].messages :
        /\ m.sequence > position /\ m.author # p /\ m.kind # "status"
        /\ \/ thread[c].kind = "dm"
           \/ thread[c].creator = p /\ m.acting = "inbox"
           \/ thread[c].creator # p /\ m.acting = "self"}

\* latestSequence of a summary: a requester does not see status entries.
LatestSequence(p, c) ==
    IF thread[c].kind = "dm" \/ Responder(p, thread[c]) THEN thread[c].last ELSE thread[c].latest

\* Who reads up to the latest sequence it is shown has nothing unread left,
\* neither messages nor notifications.
ReadingClears ==
    \A c \in Conversations, p \in People : Access(p, thread[c]) =>
        /\ LatestSequence(p, c) <= thread[c].last
        /\ UnreadMessages(p, c, LatestSequence(p, c)) = {}
        /\ \A n \in unread[c] : n.user = p => n.sequence <= LatestSequence(p, c)

\* A notification not read is of a message that counts as unread, except for
\* staff called into an answer of the inbox, which is their own side's.
BadgesAgree ==
    \A c \in Conversations : \A n \in unread[c] :
        \E m \in thread[c].messages :
            /\ m.sequence = n.sequence
            /\ \/ m \in UnreadMessages(n.user, c, read[c][n.user])
               \/ m.acting = "inbox" /\ m.payload.mention /\ n.user \in Staff

\* In no minute does a sender write more than SendLimit messages, ThreadLimit
\* in one conversation (the first ones of its inquiries aside), or start more
\* than CreateLimit conversations, whatever others start with it.
WithinLimits ==
    \A p \in People, since \in 0 .. now :
        LET lately(at) == since <= at /\ at <= since + Minute
            sent(c)    == {<<c, m.sequence>> : m \in {x \in thread[c].messages :
                               /\ x.author = p /\ x.kind = "text" /\ lately(x.at)
                               /\ Requests(p, thread[c]) =>
                                      \E o \in thread[c].messages :
                                          o.author = p /\ o.sequence < x.sequence}} IN
        /\ Cardinality(UNION {sent(c) : c \in Conversations}) <= SendLimit
        /\ \A c \in Conversations : Cardinality(sent(c)) <= ThreadLimit
        /\ Cardinality({c \in Conversations : thread[c].creator = p /\ lately(thread[c].created)})
               <= CreateLimit

\* A conversation keeps its messages, and a reader never goes back:
\* MessageThread is implemented.
History == INSTANCE MessageThread WITH
    Threads <- Conversations, Readers <- People, Nobody <- None,
    posts <- [c \in Conversations |-> thread[c].messages], position <- read
HistoryKept == History!Spec

-------------------------------------------------------------------------------
(* What the runs check                                                     *)

\* A repeated request makes one message, one inquiry and one conversation of
\* two users (existingRetry, pair_key).
OneOfEach == SentOnce /\ OnePerPair

\* The counters of the inbox, of the notifications and of the conversations
\* tell the same story, whatever was read where and in which order.
UnreadIsHonest == ReadIsAcknowledged /\ NoneHidden /\ ReadingClears /\ BadgesAgree

\* What a conversation keeps of itself, numbers, newest message and status,
\* follows from its messages.
HistoryAddsUp == TypeOK /\ Numbered /\ StatusExplained
===============================================================================
