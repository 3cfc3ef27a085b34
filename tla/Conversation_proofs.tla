------------------------- MODULE Conversation_proofs ---------------------------
(***************************************************************************)
(* Theorems about Conversation, for any users, guests, keys, configurations *)
(* of automatic replies, limits and bounds that satisfy the assumptions.    *)
(***************************************************************************)
EXTENDS Conversation, FiniteSetTheorems, TLAPS

USE PeopleAssumption, BotsAssumption, BoundsAssumption, InputsAssumption
    DEF PeopleAssumption, BotsAssumption, BoundsAssumption, InputsAssumption

-------------------------------------------------------------------------------
(* What is true of one conversation at any time                            *)

\* Numbered, and last_message within the conversation.
Counted(t) ==
    /\ {m.sequence : m \in t.messages} = 1 .. t.last
    /\ \A m, o \in t.messages : m.sequence = o.sequence => m = o
    /\ \A m \in t.messages : m.kind # "status" => m.sequence <= t.latest
    /\ t.latest # 0 => \E m \in t.messages : m.sequence = t.latest /\ m.kind # "status"
    /\ t.latest <= t.last

\* A client's key and a generated one are not confused.
Keyed(t) ==
    /\ \A m \in t.messages : m.author # None =>
           \/ m.kind = "text" /\ m.key \in Keys
           \/ m.kind = "status" /\ m.key = m.sequence
    /\ \A m, o \in t.messages :
           m.author # None /\ m.author = o.author /\ m.key = o.key => m = o

Changes(t) == {m \in t.messages : m.change # <<>>}
Newest(S)  == CHOOSE m \in S : \A o \in S : o.sequence <= m.sequence
After(S)   == IF S = {} THEN "waiting" ELSE Newest(S).change[2]
Before(t, m) == {o \in Changes(t) : o.sequence < m.sequence}

\* StatusExplained, of one conversation.
Explained(t) ==
    t.kind = "inquiry" =>
        /\ t.status = After(Changes(t))
        /\ \A m \in Changes(t) : m.change[1] = After(Before(t, m)) /\ m.change[1] # m.change[2]

\* Who is in it, and who wrote what.
Cast(t) ==
    /\ t.kind = "none" => t = NoThread
    /\ t.kind = "dm" => t.status = "none" /\ t.people \subseteq Users
    /\ t.kind = "inquiry" =>
           /\ t.creator \in People /\ t.status \in Statuses
           /\ \A m \in t.messages :
                  /\ m.kind = "text" /\ m.acting = "self" => m.author = t.creator
                  /\ m.sequence = 1 => m.author = t.creator \/ m.for = t.creator

\* Automatic replies: the open one is a message, and each has its reason.
Led(t) ==
    /\ t.bot.active => t.bot.message # 0
    /\ t.bot.message # 0 =>
           /\ t.bot.config \in Bots /\ t.bot.node \in Nodes
           /\ \E m \in t.messages : /\ m.sequence = t.bot.message /\ m.kind = "bot"
                                    /\ m.node = t.bot.node
    /\ \A m \in t.messages : m.kind = "bot" =>
           m.node = t.bot.config.start \/
           \E q \in t.messages, o \in t.messages :
               /\ q.sequence = m.sequence - 1 /\ q.kind = "text"
               /\ o.kind = "bot" /\ q.payload.message \in {0, o.sequence}
               /\ o.sequence < q.sequence
               /\ m.node = t.bot.config.next[o.node][q.payload.choice]

Kept(t) == t \in Thread /\ Counted(t) /\ Keyed(t) /\ Explained(t) /\ Cast(t) /\ Led(t)

\* Between two requests, a choice is answered and no older one is open.
Answered(t) ==
    /\ t.bot.active => t.latest = t.bot.message
    /\ \A q \in t.messages : q.kind = "text" /\ q.payload.choice # None =>
           \E m \in t.messages : m.sequence = q.sequence + 1 /\ m.kind = "bot"

\* u is t with the message m at its end.
Appends(t, u, m) ==
    /\ u.kind = t.kind /\ u.creator = t.creator /\ u.people = t.people
    /\ u.inbox = t.inbox /\ u.created = t.created
    /\ u.last = t.last + 1 /\ m.sequence = t.last + 1
    /\ u.latest = IF m.kind = "status" THEN t.latest ELSE t.last + 1
    /\ u.messages = t.messages \cup {m}

(* A message at the end leaves no gap and no double.                       *)
LEMMA AppendedCounted ==
    ASSUME NEW t \in Thread, NEW u \in Thread, NEW m \in Message, Counted(t), Appends(t, u, m)
    PROVE  Counted(u)
  <1>1. t.last \in Nat /\ t.latest \in Nat
    BY DEF Thread
  <1>2. \A o \in t.messages : o.sequence \in 1 .. t.last
    BY DEF Counted
  <1>3. \A i \in 1 .. t.last : \E o \in t.messages : o.sequence = i
    BY DEF Counted
  <1>4. u.messages = t.messages \cup {m} /\ u.last = t.last + 1 /\ m.sequence = t.last + 1
    BY DEF Appends
  <1>5. {o.sequence : o \in u.messages} = 1 .. u.last
    <2>1. \A o \in u.messages : o.sequence \in 1 .. u.last
      BY <1>1, <1>2, <1>4
    <2>2. \A i \in 1 .. u.last : \E o \in u.messages : o.sequence = i
      <3> SUFFICES ASSUME NEW i \in 1 .. u.last PROVE \E o \in u.messages : o.sequence = i
        OBVIOUS
      <3>1. CASE i = u.last
        BY <1>4, <3>1
      <3>2. CASE i # u.last
        BY <1>1, <1>3, <1>4, <3>2
      <3> QED
        BY <3>1, <3>2
    <2> QED
      BY <2>1, <2>2
  <1>6. \A o, p \in u.messages : o.sequence = p.sequence => o = p
    BY <1>1, <1>2, <1>4 DEF Counted
  <1>7. \A o \in u.messages : o.kind # "status" => o.sequence <= u.latest
    <2>1. u.latest = IF m.kind = "status" THEN t.latest ELSE t.last + 1
      BY DEF Appends
    <2> QED
      BY <1>1, <1>2, <1>4, <2>1 DEF Counted
  <1>8. u.latest # 0 => \E o \in u.messages : o.sequence = u.latest /\ o.kind # "status"
    BY <1>4 DEF Appends, Counted
  <1>9. u.latest <= u.last
    BY <1>1, <1>4 DEF Appends, Counted
  <1> QED
    BY <1>5, <1>6, <1>7, <1>8, <1>9 DEF Counted

(* A new key does not repeat an old one.                                   *)
LEMMA AppendedKeyed ==
    ASSUME NEW t \in Thread, NEW u \in Thread, NEW m \in Message,
           Counted(t), Keyed(t), Appends(t, u, m),
           \/ m.author = None
           \/ m.kind = "status" /\ m.key = m.sequence
           \/ /\ m.kind = "text" /\ m.key \in Keys
              /\ \A o \in t.messages : ~(o.author = m.author /\ o.key = m.key)
    PROVE  Keyed(u)
  <1>1. t.last \in Nat /\ \A o \in t.messages : o.sequence \in 1 .. t.last
    BY DEF Thread, Counted
  <1>2. u.messages = t.messages \cup {m} /\ m.sequence = t.last + 1
    BY DEF Appends
  <1>3. \A o \in u.messages : o.author # None =>
           \/ o.kind = "text" /\ o.key \in Keys
           \/ o.kind = "status" /\ o.key = o.sequence
    BY <1>2 DEF Keyed
  <1>4. \A o \in t.messages : ~(o.author # None /\ o.author = m.author /\ o.key = m.key)
    BY <1>1, <1>2 DEF Keyed
  <1>5. \A o, p \in u.messages :
           o.author # None /\ o.author = p.author /\ o.key = p.key => o = p
    BY <1>2, <1>4 DEF Keyed
  <1> QED
    BY <1>3, <1>5 DEF Keyed

(* The history goes on from the status, or the status stays.               *)
LEMMA AppendedExplained ==
    ASSUME NEW t \in Thread, NEW u \in Thread, NEW m \in Message,
           Counted(t), Explained(t), Appends(t, u, m),
           t.kind = "inquiry" =>
               \/ m.change = <<>> /\ u.status = t.status
               \/ /\ m.change = <<t.status, u.status>> /\ t.status # u.status
                  /\ m.change # <<>>
    PROVE  Explained(u)
  <1> SUFFICES ASSUME u.kind = "inquiry" PROVE Explained(u)
    BY DEF Explained
  <1>1. t.kind = "inquiry" /\ u.messages = t.messages \cup {m} /\ m.sequence = t.last + 1
    BY DEF Appends
  <1>2. t.last \in Nat /\ \A o \in t.messages : o.sequence \in 1 .. t.last
    BY DEF Thread, Counted
  <1>3. m \notin t.messages
    BY <1>1, <1>2
  <1>4. /\ t.status = After(Changes(t))
        /\ \A o \in Changes(t) : o.change[1] = After(Before(t, o)) /\ o.change[1] # o.change[2]
    BY <1>1 DEF Explained
  <1>5. \A o \in Changes(t) : Before(u, o) = Before(t, o)
    BY <1>1, <1>2 DEF Before, Changes
  <1>6. CASE m.change = <<>> /\ u.status = t.status
    <2>1. Changes(u) = Changes(t)
      BY <1>1, <1>6 DEF Changes
    <2> QED
      BY <1>4, <1>5, <1>6, <2>1 DEF Explained
  <1>7. CASE m.change = <<t.status, u.status>> /\ t.status # u.status /\ m.change # <<>>
    <2>1. Changes(u) = Changes(t) \cup {m}
      BY <1>1, <1>7 DEF Changes
    <2>2. Before(u, m) = Changes(t)
      BY <1>1, <1>2, <2>1 DEF Before, Changes
    <2>3. \A o \in Changes(u) : (\A x \in Changes(u) : x.sequence <= o.sequence) <=> o = m
      BY <1>1, <1>2, <2>1 DEF Changes
    <2>4. Newest(Changes(u)) = m
      BY <2>1, <2>3 DEF Newest
    <2>5. After(Changes(u)) = u.status
      BY <1>7, <2>1, <2>4 DEF After
    <2>6. m.change[1] = After(Before(u, m)) /\ m.change[1] # m.change[2]
      BY <1>4, <1>7, <2>2
    <2> QED
      BY <1>4, <1>5, <2>1, <2>5, <2>6 DEF Explained
  <1> QED
    BY <1>1, <1>6, <1>7

(* A message of the requester's side is the requester's, and so is the first. *)
LEMMA AppendedCast ==
    ASSUME NEW t \in Thread, NEW u \in Thread, NEW m \in Message,
           Counted(t), Cast(t), Appends(t, u, m), t.kind # "none",
           t.kind = "dm" => u.status = "none",
           t.kind = "inquiry" =>
               /\ u.status \in Statuses
               /\ m.kind = "text" /\ m.acting = "self" => m.author = t.creator
               /\ t.last = 0 => m.author = t.creator \/ m.for = t.creator
    PROVE  Cast(u)
  <1>1. /\ u.kind = t.kind /\ u.people = t.people /\ u.creator = t.creator
        /\ u.messages = t.messages \cup {m} /\ m.sequence = t.last + 1
    BY DEF Appends
  <1>2. t.last \in Nat
    BY DEF Thread
  <1>3. m.sequence = 1 => t.last = 0
    BY ONLY <1>1, <1>2
  <1>4. t.kind = "inquiry" => \A o \in t.messages :
           /\ o.kind = "text" /\ o.acting = "self" => o.author = t.creator
           /\ o.sequence = 1 => o.author = t.creator \/ o.for = t.creator
    BY DEF Cast
  <1>5. u.kind = "inquiry" => \A o \in u.messages :
           /\ o.kind = "text" /\ o.acting = "self" => o.author = u.creator
           /\ o.sequence = 1 => o.author = u.creator \/ o.for = u.creator
    BY <1>1, <1>3, <1>4
  <1> QED
    BY <1>1, <1>5 DEF Cast

(* A message of somebody leaves the automatic replies as they were.        *)
LEMMA AppendedLed ==
    ASSUME NEW t \in Thread, NEW u \in Thread, NEW m \in Message,
           Counted(t), Led(t), Appends(t, u, m), m.kind # "bot", u.bot = t.bot
    PROVE  Led(u)
  <1>1. u.messages = t.messages \cup {m}
    BY DEF Appends
  <1>2. \A o \in t.messages : o \in u.messages
    BY <1>1
  <1>3. u.bot.active => u.bot.message # 0
    BY DEF Led
  <1>4. u.bot.message # 0 =>
           /\ u.bot.config \in Bots /\ u.bot.node \in Nodes
           /\ \E o \in u.messages : /\ o.sequence = u.bot.message /\ o.kind = "bot"
                                    /\ o.node = u.bot.node
    BY <1>2 DEF Led
  <1>5. ASSUME NEW b \in u.messages, b.kind = "bot"
        PROVE  \/ b.node = u.bot.config.start
               \/ \E q \in u.messages, o \in u.messages :
                     /\ q.sequence = b.sequence - 1 /\ q.kind = "text"
                     /\ o.kind = "bot" /\ q.payload.message \in {0, o.sequence}
                     /\ o.sequence < q.sequence
                     /\ b.node = u.bot.config.next[o.node][q.payload.choice]
    <2>1. b \in t.messages
      BY <1>1, <1>5
    <2> QED
      BY <1>2, <1>5, <2>1 DEF Led
  <1> QED
    BY <1>3, <1>4, <1>5 DEF Led

(* saveMessage keeps a conversation whole.                                 *)
LEMMA SavedKept ==
    ASSUME now \in Nat, NEW t, Kept(t), t.kind # "none",
           NEW p \in People, NEW acting \in {"self", "inbox"},
           NEW key \in Keys, NEW payload \in Payload,
           \A o \in t.messages : ~(o.author = p /\ o.key = key),
           t.kind = "inquiry" /\ (acting = "self" \/ t.last = 0) => p = t.creator
    PROVE  /\ Kept(Saved(t, p, acting, key, payload))
           /\ Appends(t, Saved(t, p, acting, key, payload), TextMessage(t, p, acting, key, payload))
           /\ TextMessage(t, p, acting, key, payload) \in Message
  <1> DEFINE m == TextMessage(t, p, acting, key, payload)
             u == Saved(t, p, acting, key, payload)
  <1>1. t \in Thread /\ t.last \in Nat /\ t.last + 1 \in Nat \ {0}
    BY DEF Kept, Thread
  <1>2. /\ t.kind \in {"dm", "inquiry"}
        /\ t.kind = "dm" => t.status = "none" /\ StatusAfter(t, acting) = "none"
        /\ t.kind = "inquiry" => t.status \in Statuses /\ StatusAfter(t, acting) \in Statuses
    BY <1>1 DEF Kept, Cast, Thread, StatusAfter, Statuses
  <1>3. m.change \in (Statuses \X Statuses) \cup {<<>>}
    BY <1>2 DEF TextMessage
  <1>4. m \in Message
    BY <1>1, <1>3 DEF TextMessage, Message
  <1>5. /\ u.kind = t.kind /\ u.creator = t.creator /\ u.people = t.people
        /\ u.inbox = t.inbox /\ u.created = t.created /\ u.bot = t.bot
        /\ u.last = t.last + 1 /\ u.latest = t.last + 1 /\ u.status = StatusAfter(t, acting)
        /\ u.messages = t.messages \cup {m}
    BY <1>1 DEF Saved, Thread
  <1>6. u \in Thread
    <2>1. t.messages \cup {m} \in SUBSET Message
      BY <1>1, <1>4 DEF Thread
    <2>2. StatusAfter(t, acting) \in Statuses \cup {"none"}
      BY <1>2
    <2> HIDE DEF m
    <2> QED
      BY <1>1, <2>1, <2>2, Zenon DEF Saved, Thread, m
  <1>7. /\ m.sequence = t.last + 1 /\ m.kind = "text" /\ m.author = p /\ m.key = key
        /\ m.acting = acting
        /\ m.change = IF StatusAfter(t, acting) = t.status THEN <<>>
                      ELSE <<t.status, StatusAfter(t, acting)>>
    BY DEF TextMessage
  <1> HIDE DEF m, u
  <1>8. Appends(t, u, m)
    BY <1>5, <1>7 DEF Appends
  <1>9. Counted(u)
    BY <1>1, <1>4, <1>6, <1>8, AppendedCounted DEF Kept
  <1>10. Keyed(u)
    BY <1>1, <1>4, <1>6, <1>7, <1>8, AppendedKeyed DEF Kept
  <1>11. Explained(u)
    <2>1. t.kind = "inquiry" =>
             \/ m.change = <<>> /\ u.status = t.status
             \/ /\ m.change = <<t.status, u.status>> /\ t.status # u.status
                /\ m.change # <<>>
      BY <1>5, <1>7
    <2> QED
      BY <1>1, <1>4, <1>6, <1>8, <2>1, AppendedExplained DEF Kept
  <1>12. Cast(u)
    BY <1>1, <1>2, <1>4, <1>5, <1>6, <1>7, <1>8, AppendedCast DEF Kept
  <1>13. Led(u)
    BY <1>1, <1>4, <1>5, <1>6, <1>7, <1>8, AppendedLed DEF Kept
  <1>14. Kept(u)
    BY <1>6, <1>9, <1>10, <1>11, <1>12, <1>13 DEF Kept
  <1> QED
    BY <1>4, <1>8, <1>14 DEF m, u

(* appendBotReply keeps a conversation whole.                              *)
LEMMA BotRepliedKept ==
    ASSUME now \in Nat, NEW t, Kept(t), t.kind = "inquiry",
           NEW config \in Bots, NEW node \in Nodes, NEW key \in Keys \cup Nat,
           NEW for \in People \cup {None}, NEW payload \in Payload,
           t.messages = {} \/ config = t.bot.config,
           t.last = 0 => for = t.creator,
           \/ node = config.start
           \/ \E q \in t.messages, o \in t.messages :
                 /\ q.sequence = t.last /\ q.kind = "text"
                 /\ o.kind = "bot" /\ q.payload.message \in {0, o.sequence}
                 /\ o.sequence < q.sequence
                 /\ node = config.next[o.node][q.payload.choice]
    PROVE  /\ Kept(BotReplied(t, config, node, key, for, payload))
           /\ Appends(t, BotReplied(t, config, node, key, for, payload),
                         BotMessage(t, node, key, for, payload))
           /\ BotMessage(t, node, key, for, payload) \in Message
  <1> DEFINE m == BotMessage(t, node, key, for, payload)
             u == BotReplied(t, config, node, key, for, payload)
             open == Offers(config, node) # {}
  <1>1. t \in Thread /\ t.last \in Nat /\ t.last + 1 \in Nat \ {0}
    BY DEF Kept, Thread
  <1>2. m \in Message
    BY <1>1 DEF BotMessage, Message
  <1>3. open \in BOOLEAN
    OBVIOUS
  <1>4. /\ u.kind = t.kind /\ u.creator = t.creator /\ u.people = t.people
        /\ u.inbox = t.inbox /\ u.created = t.created /\ u.status = t.status
        /\ u.last = t.last + 1 /\ u.latest = t.last + 1
        /\ u.messages = t.messages \cup {m}
        /\ u.bot = [config |-> config, node |-> node, message |-> t.last + 1, active |-> open]
    BY <1>1 DEF BotReplied, Thread
  <1>5. u \in Thread
    <2>1. t.messages \cup {m} \in SUBSET Message
      BY <1>1, <1>2 DEF Thread
    <2> HIDE DEF m, open
    <2>2. [config |-> config, node |-> node, message |-> t.last + 1, active |-> open]
          \in [config : Bots \cup {None}, node : Nodes \cup {None}, message : Nat,
               active : BOOLEAN]
      BY <1>1, <1>3
    <2> QED
      BY <1>1, <2>1, <2>2, Zenon DEF BotReplied, Thread, m, open
  <1>6. /\ m.sequence = t.last + 1 /\ m.kind = "bot" /\ m.author = None /\ m.key = key
        /\ m.for = for /\ m.acting = "inbox" /\ m.change = <<>> /\ m.node = node
    BY DEF BotMessage
  <1> HIDE DEF m, u, open
  <1>7. Appends(t, u, m)
    BY <1>4, <1>6 DEF Appends
  <1>8. Counted(u)
    BY <1>1, <1>2, <1>5, <1>7, AppendedCounted DEF Kept
  <1>9. Keyed(u)
    BY <1>1, <1>2, <1>5, <1>6, <1>7, AppendedKeyed DEF Kept
  <1>10. Explained(u)
    BY <1>1, <1>2, <1>4, <1>5, <1>6, <1>7, AppendedExplained DEF Kept
  <1>11. Cast(u)
    <2>1. t.status \in Statuses
      BY DEF Kept, Cast
    <2> QED
      BY <1>1, <1>2, <1>4, <1>5, <1>6, <1>7, <2>1, AppendedCast DEF Kept
  <1>12. Led(u)
    <2>1. u.bot.message = t.last + 1 /\ u.bot.node = node /\ u.bot.config = config
      BY <1>4
    <2>2. m \in u.messages /\ \A o \in t.messages : o \in u.messages
      BY <1>4
    <2>3. u.bot.message # 0
      BY <1>1, <2>1
    <2>4. ASSUME NEW b \in u.messages, b.kind = "bot"
          PROVE  \/ b.node = u.bot.config.start
                 \/ \E q \in u.messages, o \in u.messages :
                       /\ q.sequence = b.sequence - 1 /\ q.kind = "text"
                       /\ o.kind = "bot" /\ q.payload.message \in {0, o.sequence}
                       /\ o.sequence < q.sequence
                       /\ b.node = u.bot.config.next[o.node][q.payload.choice]
      <3>1. CASE b \in t.messages
        BY <2>1, <2>2, <2>4, <3>1 DEF Kept, Led
      <3>2. CASE b = m
        <4>1. m.sequence - 1 = t.last
          BY ONLY <1>1, <1>6
        <4> QED
          BY <1>6, <2>1, <2>2, <3>2, <4>1
      <3> QED
        BY <1>4, <3>1, <3>2
    <2> QED
      BY <1>6, <2>1, <2>2, <2>3, <2>4 DEF Led
  <1>13. Kept(u)
    BY <1>5, <1>8, <1>9, <1>10, <1>11, <1>12 DEF Kept
  <1> QED
    BY <1>2, <1>7, <1>13 DEF m, u

(* changeInquiryStatus keeps a conversation whole.                         *)
LEMMA StatusKept ==
    ASSUME now \in Nat, NEW t, Kept(t), Answered(t), t.kind = "inquiry",
           NEW p \in People, NEW status \in Statuses, status # t.status,
           t.last # 0
    PROVE  /\ Kept(StatusChanged(t, p, status)) /\ Answered(StatusChanged(t, p, status))
           /\ Appends(t, StatusChanged(t, p, status), StatusEntry(t, p, status))
           /\ StatusEntry(t, p, status) \in Message
  <1> DEFINE m == StatusEntry(t, p, status)
             u == StatusChanged(t, p, status)
  <1>1. t \in Thread /\ t.last \in Nat /\ t.last + 1 \in Nat \ {0} /\ t.status \in Statuses
    BY DEF Kept, Cast, Thread
  <1>2. m \in Message
    <2>1. NoPayload \in Payload
      BY DEF NoPayload, Payload
    <2> QED
      BY <1>1, <2>1 DEF StatusEntry, Message
  <1>3. /\ u.kind = t.kind /\ u.creator = t.creator /\ u.people = t.people
        /\ u.inbox = t.inbox /\ u.created = t.created /\ u.status = status
        /\ u.last = t.last + 1 /\ u.latest = t.latest /\ u.bot = t.bot
        /\ u.messages = t.messages \cup {m}
    BY <1>1 DEF StatusChanged, Thread
  <1>4. u \in Thread
    <2>1. t.messages \cup {m} \in SUBSET Message
      BY <1>1, <1>2 DEF Thread
    <2> HIDE DEF m
    <2> QED
      BY <1>1, <2>1, Zenon DEF StatusChanged, Thread, m
  <1>5. /\ m.sequence = t.last + 1 /\ m.kind = "status" /\ m.author = p /\ m.key = t.last + 1
        /\ m.acting = "inbox" /\ m.change = <<t.status, status>>
    BY DEF StatusEntry
  <1> HIDE DEF m, u
  <1>6. Appends(t, u, m)
    BY <1>3, <1>5 DEF Appends
  <1>7. Counted(u)
    BY <1>1, <1>2, <1>4, <1>6, AppendedCounted DEF Kept
  <1>8. Keyed(u)
    BY <1>1, <1>2, <1>4, <1>5, <1>6, AppendedKeyed DEF Kept
  <1>9. Explained(u)
    <2>1. m.change = <<t.status, u.status>> /\ t.status # u.status /\ m.change # <<>>
      BY <1>3, <1>5
    <2> QED
      BY <1>1, <1>2, <1>4, <1>6, <2>1, AppendedExplained DEF Kept
  <1>10. Cast(u)
    BY <1>1, <1>2, <1>3, <1>4, <1>5, <1>6, AppendedCast DEF Kept
  <1>11. Led(u)
    BY <1>1, <1>2, <1>3, <1>4, <1>5, <1>6, AppendedLed DEF Kept
  <1>12. Answered(u)
    BY <1>3, <1>5 DEF Answered
  <1>13. Kept(u)
    BY <1>4, <1>7, <1>8, <1>9, <1>10, <1>11 DEF Kept
  <1> QED
    BY <1>2, <1>6, <1>12, <1>13 DEF m, u

(* So does closing the choices.                                            *)
LEMMA DeactivatedKept ==
    ASSUME NEW t, Kept(t), t.kind # "none"
    PROVE  /\ Kept(Deactivated(t))
           /\ Deactivated(t).kind = t.kind
           /\ Deactivated(t).creator = t.creator /\ Deactivated(t).people = t.people
           /\ Deactivated(t).inbox = t.inbox /\ Deactivated(t).created = t.created
           /\ Deactivated(t).status = t.status
           /\ Deactivated(t).last = t.last /\ Deactivated(t).latest = t.latest
           /\ Deactivated(t).messages = t.messages
           /\ Deactivated(t).bot.active = FALSE
  <1> DEFINE u == Deactivated(t)
             b == [t.bot EXCEPT !.active = FALSE]
  <1>1. t \in Thread
    BY DEF Kept
  <1>2. /\ b \in [config : Bots \cup {None}, node : Nodes \cup {None}, message : Nat,
                  active : BOOLEAN]
        /\ b.config = t.bot.config /\ b.node = t.bot.node /\ b.message = t.bot.message
        /\ b.active = FALSE
    BY <1>1 DEF Thread
  <1>3. /\ u.kind = t.kind /\ u.creator = t.creator /\ u.people = t.people
        /\ u.inbox = t.inbox /\ u.created = t.created /\ u.status = t.status
        /\ u.last = t.last /\ u.latest = t.latest /\ u.bot = b
        /\ u.messages = t.messages
    BY <1>1 DEF Deactivated, Thread
  <1> HIDE DEF b
  <1>4. u \in Thread
    BY <1>1, <1>2, Zenon DEF Deactivated, Thread, b
  <1> HIDE DEF u
  <1>5. Counted(u)
    BY <1>3 DEF Kept, Counted
  <1>6. Keyed(u)
    BY <1>3 DEF Kept, Keyed
  <1>7. Explained(u)
    <2>1. Changes(u) = Changes(t) /\ \A m : Before(u, m) = Before(t, m)
      BY <1>3 DEF Changes, Before
    <2> QED
      BY <1>3, <2>1 DEF Kept, Explained
  <1>8. Cast(u)
    BY <1>3 DEF Kept, Cast
  <1>9. Led(u)
    BY <1>2, <1>3, SMTT(30) DEF Kept, Led
  <1> QED
    BY <1>2, <1>3, <1>4, <1>5, <1>6, <1>7, <1>8, <1>9 DEF Kept, u

-------------------------------------------------------------------------------
(* What one request does to one conversation                               *)

\* The requests that write only add at the end.
Grows(t, u) ==
    /\ u.kind = t.kind /\ u.creator = t.creator /\ u.people = t.people
    /\ u.inbox = t.inbox /\ u.created = t.created
    /\ t.last <= u.last /\ t.messages \subseteq u.messages
    /\ \A m \in u.messages \ t.messages : m.sequence > t.last

(* A choice that is open leads to a reply of the configuration.            *)
LEMMA OpenChoice ==
    ASSUME NEW t, Kept(t), NEW p, NEW n, NEW choice, Open(p, t, n, choice)
    PROVE  /\ n = t.bot.message /\ n # 0 /\ t.bot.config \in Bots
           /\ Target(t, choice) \in Nodes
           /\ t.kind = "inquiry" /\ p = t.creator
           /\ \/ Target(t, choice) = t.bot.config.start
              \/ \E o \in t.messages : /\ o.sequence = n /\ o.kind = "bot"
                                       /\ Target(t, choice) = t.bot.config.next[o.node][choice]
  <1>1. n = t.bot.message /\ n # 0
    BY DEF Open, CanRestart, Kept, Led
  <1>2. t.bot.config \in Bots /\ t.bot.node \in Nodes
    BY <1>1 DEF Kept, Led
  <1>3. t.kind = "inquiry" /\ p = t.creator
    BY DEF Open, Requests
  <1>4. CASE choice = Restart
    <2>1. Target(t, choice) = t.bot.config.start
      BY <1>4 DEF Target
    <2> QED
      BY <1>1, <1>2, <1>3, <2>1
  <1>5. CASE choice # Restart
    <2>1. choice \in Choices /\ t.bot.config.next[t.bot.node][choice] # None
      BY <1>5 DEF Open, Offers
    <2>2. Target(t, choice) = t.bot.config.next[t.bot.node][choice]
      BY <1>5 DEF Target
    <2>3. t.bot.config.next \in [Nodes -> [Choices -> Nodes \cup {None}]]
      BY <1>2
    <2>4. Target(t, choice) \in Nodes
      BY <1>2, <2>1, <2>2, <2>3
    <2>5. \E o \in t.messages : /\ o.sequence = n /\ o.kind = "bot" /\ o.node = t.bot.node
      BY <1>1 DEF Kept, Led
    <2> QED
      BY <1>1, <1>2, <1>3, <2>2, <2>4, <2>5
  <1> QED
    BY <1>4, <1>5

(* A message and what follows it in the same transaction: the reply to its *)
(* choice, or the end of the choices.                                      *)
LEMMA WrittenKept ==
    ASSUME now \in Nat, NEW t, Kept(t), Answered(t), t.kind # "none",
           NEW p \in People, NEW acting \in {"self", "inbox"},
           NEW key \in Keys, NEW payload \in Payload,
           \A o \in t.messages : ~(o.author = p /\ o.key = key),
           t.kind = "inquiry" /\ (acting = "self" \/ t.last = 0) => p = t.creator,
           NEW n \in Nat,
           payload.choice # None =>
               Open(p, t, n, payload.choice) /\ payload.message \in {0, n}
    PROVE  LET s == Saved(t, p, acting, key, payload)
               u == Continued(t, s, payload.choice)
               m == TextMessage(t, p, acting, key, payload) IN
           /\ Kept(u) /\ Answered(u) /\ Grows(t, u) /\ t.last < u.last
           /\ m \in u.messages
           /\ \A o \in u.messages \ t.messages : o = m \/ (o.kind = "bot" /\ o.author = None)
           /\ s.kind = t.kind /\ s.creator = t.creator /\ s.people = t.people
           /\ s.inbox = t.inbox /\ s.last = t.last + 1 /\ s.messages = t.messages \cup {m}
  <1> DEFINE s == Saved(t, p, acting, key, payload)
             m == TextMessage(t, p, acting, key, payload)
             u == Continued(t, s, payload.choice)
  <1>1. Kept(s) /\ Appends(t, s, m) /\ m \in Message
    BY SavedKept
  <1>2. s.bot = t.bot /\ t.last \in Nat /\ t.latest \in Nat
    BY DEF Saved, Kept, Thread
  <1>3. /\ m.sequence = t.last + 1 /\ m.kind = "text" /\ m.author = p
        /\ m.payload = payload
    BY DEF TextMessage
  <1>4. \A o \in t.messages : o.sequence \in 1 .. t.last
    BY DEF Kept, Counted
  <1> HIDE DEF s, m
  <1>5. /\ s.kind = t.kind /\ s.creator = t.creator /\ s.people = t.people
        /\ s.inbox = t.inbox /\ s.created = t.created
        /\ s.last = t.last + 1 /\ s.latest = t.last + 1
        /\ s.messages = t.messages \cup {m}
    BY <1>1, <1>3 DEF Appends
  <1>6. CASE payload.choice # None
    <2> DEFINE config == t.bot.config
               node   == Target(t, payload.choice)
               b      == BotMessage(s, node, s.last + 1, None, NoPayload)
    <2>1. u = BotReplied(s, config, node, s.last + 1, None, NoPayload)
      BY <1>6 DEF Continued
    <2>2. /\ n = t.bot.message /\ n # 0 /\ config \in Bots /\ node \in Nodes
          /\ t.kind = "inquiry"
          /\ \/ node = config.start
             \/ \E o \in t.messages : /\ o.sequence = n /\ o.kind = "bot"
                                      /\ node = config.next[o.node][payload.choice]
          /\ payload.message \in {0, n}
      BY <1>6, OpenChoice, SMTT(30)
    <2> HIDE DEF node
    <2>3. \/ node = config.start
          \/ \E q \in s.messages, o \in s.messages :
                 /\ q.sequence = s.last /\ q.kind = "text"
                 /\ o.kind = "bot" /\ q.payload.message \in {0, o.sequence}
                 /\ o.sequence < q.sequence
                 /\ node = config.next[o.node][q.payload.choice]
      <3> SUFFICES ASSUME NEW o \in t.messages, o.sequence = n, o.kind = "bot",
                          node = config.next[o.node][payload.choice]
                   PROVE  \E q \in s.messages, x \in s.messages :
                              /\ q.sequence = s.last /\ q.kind = "text"
                              /\ x.kind = "bot" /\ q.payload.message \in {0, x.sequence}
                              /\ x.sequence < q.sequence
                              /\ node = config.next[x.node][q.payload.choice]
        BY <2>2
      <3>1. o.sequence < m.sequence
        BY <1>2, <1>3, <1>4
      <3>2. m \in s.messages /\ o \in s.messages /\ m.sequence = s.last
        BY <1>3, <1>5
      <3> QED
        BY <1>3, <2>2, <3>1, <3>2, ZenonT(30)
    <2>4. NoPayload \in Payload /\ s.last + 1 \in Nat /\ s.last # 0
      <3>1. NoPayload \in Payload
        BY DEF NoPayload, Payload
      <3>2. s.last + 1 \in Nat /\ s.last # 0
        BY <1>2, <1>5
      <3> QED
        BY <3>1, <3>2
    <2>5. Kept(u) /\ Appends(s, u, b)
      <3> HIDE DEF u
      <3>1. s.last + 1 \in Keys \cup Nat /\ None \in People \cup {None} /\ config = s.bot.config
        BY <1>2, <2>4
      <3>2. s.kind = "inquiry" /\ (s.last = 0 => None = s.creator)
        BY <1>5, <2>2, <2>4
      <3> QED
        BY <1>1, <2>1, <2>2, <2>3, <2>4, <3>1, <3>2, BotRepliedKept, ZenonT(30)
    <2>6. b.sequence = s.last + 1 /\ b.kind = "bot" /\ b.author = None
      BY DEF BotMessage
    <2>7. u.bot.message = s.last + 1 /\ u.latest = s.last + 1
      BY <1>1, <2>1 DEF BotReplied, Kept, Thread
    <2> HIDE DEF b
    <2>8. /\ u.kind = t.kind /\ u.creator = t.creator /\ u.people = t.people
          /\ u.inbox = t.inbox /\ u.created = t.created
          /\ u.last = t.last + 2 /\ u.messages = t.messages \cup {m, b}
          /\ b.sequence = t.last + 2
      BY <1>2, <1>5, <2>5, <2>6 DEF Appends
    <2> HIDE DEF u
    <2>9. Answered(u)
      <3>1. u.bot.active => u.latest = u.bot.message
        BY <2>7
      <3>2. ASSUME NEW q \in u.messages, q.kind = "text", q.payload.choice # None
            PROVE  \E o \in u.messages : o.sequence = q.sequence + 1 /\ o.kind = "bot"
        <4>1. CASE q \in t.messages
          BY <2>8, <3>2, <4>1 DEF Answered
        <4>2. CASE q = m
          <5>1. b.sequence = m.sequence + 1
            BY <1>2, <1>3, <2>8
          <5> QED
            BY <2>6, <2>8, <4>2, <5>1
        <4>3. q # b
          BY <2>6, <3>2
        <4> QED
          BY <2>8, <4>1, <4>2, <4>3
      <3> QED
        BY <3>1, <3>2 DEF Answered
    <2>10. Grows(t, u) /\ t.last < u.last
      <3>1. /\ m.sequence > t.last /\ b.sequence > t.last
            /\ t.last < u.last /\ t.last <= u.last
        BY <1>2, <1>3, <2>8
      <3> QED
        BY <2>8, <3>1 DEF Grows
    <2>11. /\ m \in u.messages
           /\ \A o \in u.messages \ t.messages : o = m \/ (o.kind = "bot" /\ o.author = None)
      <3>1. u.messages = t.messages \cup {m, b} /\ b.kind = "bot" /\ b.author = None
        BY <2>6, <2>8
      <3> QED
        BY ONLY <3>1
    <2> QED
      BY <1>5, <2>5, <2>9, <2>10, <2>11 DEF s, m, u
  <1>7. CASE payload.choice = None
    <2>1. u = Deactivated(s)
      BY <1>7 DEF Continued
    <2> HIDE DEF u
    <2>2. /\ Kept(u) /\ u.kind = t.kind /\ u.creator = t.creator /\ u.people = t.people
          /\ u.inbox = t.inbox /\ u.created = t.created
          /\ u.last = t.last + 1 /\ u.messages = t.messages \cup {m}
          /\ u.bot.active = FALSE
      BY <1>1, <1>5, <2>1, DeactivatedKept
    <2>3. Answered(u)
      BY <1>3, <1>7, <2>2 DEF Answered
    <2>4. Grows(t, u) /\ t.last < u.last
      <3>1. m.sequence > t.last /\ t.last < u.last /\ t.last <= u.last
        BY <1>2, <1>3, <2>2
      <3> QED
        BY <2>2, <3>1 DEF Grows
    <2>5. /\ m \in u.messages
          /\ \A o \in u.messages \ t.messages : o = m \/ (o.kind = "bot" /\ o.author = None)
      BY <2>2
    <2> QED
      BY <1>5, <2>2, <2>3, <2>4, <2>5 DEF s, m, u
  <1> QED
    BY <1>6, <1>7

-------------------------------------------------------------------------------
(* The inductive invariant                                                 *)

\* An inquiry starts with a message.
Begun(t) == t.kind = "inquiry" => t.last # 0

\* A requester starts one inquiry with a key.
OneInquiryPerKey ==
    \A c, d \in Conversations :
        c # d /\ thread[c].kind = "inquiry" /\ thread[d].kind = "inquiry"
        /\ thread[c].creator = thread[d].creator =>
            \A m \in thread[c].messages, o \in thread[d].messages :
                m.sequence = 1 /\ o.sequence = 1 => m.key # o.key

\* The message m of t is one u is to hear of.
Concerns(u, t, m) ==
    /\ m.kind = "text" /\ u # m.author
    /\ \/ t.kind = "dm"
       \/ m.acting = "inbox" /\ u = t.creator
       \/ m.acting = "self" /\ u # t.creator
       \/ m.acting = "inbox" /\ m.payload.mention /\ u \in Staff

\* Every notification is of a message that concerns its recipient.
NoticesHaveCause ==
    \A c \in Conversations : \A n \in notices[c] :
        \E m \in thread[c].messages : m.sequence = n.sequence /\ Concerns(n.user, thread[c], m)

Inv ==
    /\ TypeOK
    /\ \A c \in Conversations : Kept(thread[c]) /\ Answered(thread[c]) /\ Begun(thread[c])
    /\ OneInquiryPerKey /\ OnePerPair
    /\ NoticesHaveCause /\ ReadIsAcknowledged /\ NoneHidden

\* The effect of a request that writes: conversation c becomes u, and the
\* notifications in heard, all of one new message, come to it.
Writes(c, u, heard) ==
    /\ thread' = [thread EXCEPT ![c] = u]
    /\ notices' = [notices EXCEPT ![c] = @ \cup heard]
    /\ unread' = [unread EXCEPT ![c] = @ \cup heard]
    /\ UNCHANGED <<read, world>>
    /\ Kept(u) /\ Answered(u) /\ Begun(u)
    /\ thread[c].kind = "none" \/ Grows(thread[c], u)
    /\ \A n \in heard :
           /\ n \in [user : Users, sequence : Nat \ {0}] /\ n.sequence > thread[c].last
           /\ \E m \in u.messages : m.sequence = n.sequence /\ Concerns(n.user, u, m)
    /\ \A n, k \in heard : n.sequence = k.sequence
    /\ u.kind = "dm" => thread[c].kind = "dm" \/
           \A d \in Conversations : thread[d].kind = "dm" => thread[d].people # u.people
    /\ u.kind = "inquiry" => thread[c].kind = "inquiry" \/
           \A d \in Conversations : thread[d].kind = "inquiry" /\ thread[d].creator = u.creator =>
               \A m \in u.messages, o \in thread[d].messages :
                   m.sequence = 1 /\ o.sequence = 1 => m.key # o.key

(* What a request that writes leaves of each conversation.                 *)
LEMMA WritesFrame ==
    ASSUME Inv, NEW c \in Conversations, NEW u, NEW heard, Writes(c, u, heard)
    PROVE  /\ thread'[c] = u /\ notices'[c] = notices[c] \cup heard
           /\ unread'[c] = unread[c] \cup heard
           /\ \A d \in Conversations \ {c} : /\ thread'[d] = thread[d]
                                             /\ notices'[d] = notices[d] /\ unread'[d] = unread[d]
           /\ read' = read
  <1>1. /\ thread \in [Conversations -> Thread]
        /\ DOMAIN notices = Conversations /\ DOMAIN unread = Conversations
    BY DEF Inv, TypeOK
  <1> QED
    BY <1>1 DEF Writes

(* The old messages of a conversation that grows are numbered up to last.  *)
LEMMA OldMessages ==
    ASSUME Inv, NEW c \in Conversations
    PROVE  /\ thread[c] \in Thread /\ thread[c].last \in Nat /\ thread[c].latest \in Nat
           /\ \A m \in thread[c].messages : m.sequence \in 1 .. thread[c].last
           /\ \A n \in notices[c] : n.sequence \in 1 .. thread[c].last
           /\ thread[c].kind = "none" => thread[c] = NoThread /\ thread[c].last = 0
                                         /\ thread[c].messages = {} /\ notices[c] = {}
  <1>1. Kept(thread[c])
    BY DEF Inv
  <1>2. thread[c] \in Thread /\ thread[c].last \in Nat /\ thread[c].latest \in Nat
    BY <1>1 DEF Kept, Thread
  <1>3. \A m \in thread[c].messages : m.sequence \in 1 .. thread[c].last
    BY <1>1 DEF Kept, Counted
  <1>4. \A n \in notices[c] : \E m \in thread[c].messages : m.sequence = n.sequence
    BY DEF Inv, NoticesHaveCause
  <1>5. ASSUME thread[c].kind = "none"
        PROVE  thread[c] = NoThread /\ thread[c].last = 0 /\ thread[c].messages = {}
    <2>1. thread[c] = NoThread
      BY <1>1, <1>5 DEF Kept, Cast
    <2> QED
      BY <2>1 DEF NoThread
  <1> QED
    BY <1>2, <1>3, <1>4, <1>5

(* A request that writes keeps the invariant.                              *)
LEMMA WritesKeepsInv ==
    ASSUME Inv, NEW c \in Conversations, NEW u, NEW heard, Writes(c, u, heard)
    PROVE  Inv'
  <1>1. /\ thread'[c] = u /\ notices'[c] = notices[c] \cup heard
        /\ unread'[c] = unread[c] \cup heard
        /\ \A d \in Conversations \ {c} : /\ thread'[d] = thread[d]
                                          /\ notices'[d] = notices[d] /\ unread'[d] = unread[d]
        /\ read' = read
    BY WritesFrame
  <1>2. /\ thread[c] \in Thread /\ thread[c].last \in Nat
        /\ \A m \in thread[c].messages : m.sequence \in 1 .. thread[c].last
        /\ \A n \in notices[c] : n.sequence \in 1 .. thread[c].last
        /\ thread[c].kind = "none" => thread[c].last = 0
                                      /\ thread[c].messages = {} /\ notices[c] = {}
    BY OldMessages
  <1>3. /\ Kept(u) /\ Answered(u) /\ Begun(u) /\ u \in Thread /\ u.last \in Nat
        /\ thread[c].kind = "none" \/ Grows(thread[c], u)
    BY DEF Writes, Kept, Thread
  <1>4. TypeOK'
    <2>1. \A n \in heard : n \in [user : Users, sequence : Nat \ {0}]
      BY DEF Writes
    <2>2. /\ thread \in [Conversations -> Thread]
          /\ notices \in [Conversations -> SUBSET [user : Users, sequence : Nat \ {0}]]
          /\ unread \in [Conversations -> SUBSET [user : Users, sequence : Nat \ {0}]]
      BY DEF Inv, TypeOK
    <2>3. thread' \in [Conversations -> Thread]
      BY <1>3, <2>2 DEF Writes
    <2>4. /\ notices' \in [Conversations -> SUBSET [user : Users, sequence : Nat \ {0}]]
          /\ unread' \in [Conversations -> SUBSET [user : Users, sequence : Nat \ {0}]]
      BY <2>1, <2>2 DEF Writes
    <2>5. UNCHANGED <<read, owners, banned, receive, blocks, settings, now>>
      BY DEF Writes, world
    <2> QED
      BY <2>3, <2>4, <2>5 DEF Inv, TypeOK
  <1>5. \A d \in Conversations : Kept(thread'[d]) /\ Answered(thread'[d]) /\ Begun(thread'[d])
    BY <1>1, <1>3 DEF Inv
  <1>6. OneInquiryPerKey'
    <2>1. ASSUME NEW d \in Conversations, d # c, u.kind = "inquiry",
                 thread[d].kind = "inquiry", u.creator = thread[d].creator,
                 NEW m \in u.messages, NEW o \in thread[d].messages,
                 m.sequence = 1, o.sequence = 1
          PROVE  m.key # o.key
      <3>1. CASE thread[c].kind = "inquiry"
        <4>1. Grows(thread[c], u) /\ thread[c].creator = u.creator /\ thread[c].last # 0
          BY <1>3, <3>1 DEF Grows, Inv, Begun
        <4>2. m \in thread[c].messages
          BY <1>2, <2>1, <4>1 DEF Grows
        <4> QED
          BY <2>1, <3>1, <4>1, <4>2 DEF Inv, OneInquiryPerKey
      <3>2. CASE thread[c].kind # "inquiry"
        BY <2>1, <3>2 DEF Writes
      <3> QED
        BY <3>1, <3>2
    <2>2. \A d, e \in Conversations \ {c} :
             d # e /\ thread[d].kind = "inquiry" /\ thread[e].kind = "inquiry"
             /\ thread[d].creator = thread[e].creator =>
                \A m \in thread[d].messages, o \in thread[e].messages :
                    m.sequence = 1 /\ o.sequence = 1 => m.key # o.key
      BY DEF Inv, OneInquiryPerKey
    <2> QED
      BY <1>1, <2>1, <2>2, SMTT(30) DEF OneInquiryPerKey
  <1>7. OnePerPair'
    <2>1. ASSUME NEW d \in Conversations, d # c, u.kind = "dm", thread[d].kind = "dm"
          PROVE  u.people # thread[d].people
      <3>1. CASE thread[c].kind = "dm"
        <4>1. thread[c].people = u.people
          BY <1>3, <3>1 DEF Grows
        <4> QED
          BY <2>1, <3>1, <4>1 DEF Inv, OnePerPair
      <3>2. CASE thread[c].kind # "dm"
        BY <2>1, <3>2 DEF Writes
      <3> QED
        BY <3>1, <3>2
    <2>2. \A d, e \in Conversations \ {c} :
             thread[d].kind = "dm" /\ thread[e].kind = "dm"
             /\ thread[d].people = thread[e].people => d = e
      BY DEF Inv, OnePerPair
    <2> QED
      BY <1>1, <2>1, <2>2 DEF OnePerPair
  <1>8. NoticesHaveCause'
    <2>1. \A d \in Conversations \ {c} : \A n \in notices'[d] :
             \E m \in thread'[d].messages :
                m.sequence = n.sequence /\ Concerns(n.user, thread'[d], m)
      BY <1>1 DEF Inv, NoticesHaveCause
    <2>2. ASSUME NEW n \in notices[c]
          PROVE  \E m \in u.messages : m.sequence = n.sequence /\ Concerns(n.user, u, m)
      <3>1. Grows(thread[c], u)
        BY <1>2, <1>3, <2>2
      <3>2. PICK m \in thread[c].messages :
               m.sequence = n.sequence /\ Concerns(n.user, thread[c], m)
        BY <2>2 DEF Inv, NoticesHaveCause
      <3>3. m \in u.messages /\ Concerns(n.user, u, m)
        BY <3>1, <3>2 DEF Grows, Concerns
      <3> QED
        BY <3>2, <3>3
    <2>3. \A n \in heard :
             \E m \in u.messages : m.sequence = n.sequence /\ Concerns(n.user, u, m)
      BY DEF Writes
    <2> QED
      BY <1>1, <2>1, <2>2, <2>3 DEF NoticesHaveCause
  <1>9. ReadIsAcknowledged'
    <2>1. /\ \A p \in People : read[c][p] \in Nat /\ read[c][p] <= thread[c].last
          /\ unread[c] \subseteq notices[c]
          /\ \A n \in unread[c] : n.sequence > read[c][n.user]
      BY DEF Inv, ReadIsAcknowledged, TypeOK
    <2>2. thread[c].last <= u.last
      BY <1>2, <1>3 DEF Grows
    <2>3. \A p \in People : read[c][p] <= u.last
      BY <1>2, <1>3, <2>1, <2>2
    <2>4. \A n \in heard : n.user \in People /\ n.sequence \in Nat /\ n.sequence > thread[c].last
      BY DEF Writes, People
    <2>5. \A n \in heard : n.sequence > read[c][n.user]
      BY <1>2, <2>1, <2>4
    <2>6. /\ \A p \in People : read'[c][p] <= thread'[c].last
          /\ unread'[c] \subseteq notices'[c]
          /\ \A n \in unread'[c] : n.sequence > read'[c][n.user]
      BY <1>1, <2>1, <2>3, <2>5
    <2>7. \A d \in Conversations \ {c} :
             /\ \A p \in People : read'[d][p] <= thread'[d].last
             /\ unread'[d] \subseteq notices'[d]
             /\ \A n \in unread'[d] : n.sequence > read'[d][n.user]
      BY <1>1 DEF Inv, ReadIsAcknowledged
    <2> QED
      BY <2>6, <2>7 DEF ReadIsAcknowledged
  <1>10. NoneHidden'
    <2>1. ASSUME NEW n \in unread'[c], NEW m \in notices'[c], m.user = n.user,
                 m.sequence > n.sequence
          PROVE  m \in unread'[c]
      <3>1. CASE m \in heard
        BY <1>1, <3>1
      <3>2. CASE m \in notices[c] /\ n \in unread[c]
        BY <1>1, <2>1, <3>2 DEF Inv, NoneHidden
      <3>3. CASE m \in notices[c] /\ n \in heard
        <4>1. n.sequence > thread[c].last /\ n.sequence \in Nat /\ m.sequence \in 1 .. thread[c].last
          BY <1>2, <3>3 DEF Writes
        <4> QED
          BY <1>2, <2>1, <4>1
      <3> QED
        BY <1>1, <3>1, <3>2, <3>3
    <2>2. \A d \in Conversations \ {c} : \A n \in unread'[d], m \in notices'[d] :
             m.user = n.user /\ m.sequence > n.sequence => m \in unread'[d]
      BY <1>1 DEF Inv, NoneHidden
    <2> QED
      BY <2>1, <2>2 DEF NoneHidden
  <1> QED
    BY <1>4, <1>5, <1>6, <1>7, <1>8, <1>9, <1>10 DEF Inv

-------------------------------------------------------------------------------
(* What the requests write                                                 *)

(* notifyMessageTx notifies users whom the new message concerns.           *)
LEMMA NotifiedConcerns ==
    ASSUME Inv, NEW t, Kept(t), t.kind # "none", NEW s, NEW u, NEW m,
           s.kind = t.kind, s.creator = t.creator, s.people = t.people, s.inbox = t.inbox,
           s.last = t.last + 1, s.messages = t.messages \cup {m},
           m.sequence = t.last + 1, m.kind = "text", m.acting \in {"self", "inbox"},
           t.kind = "inquiry" /\ m.acting = "self" => m.author = t.creator,
           Grows(t, u), m \in u.messages
    PROVE  /\ \A n \in Notified(s, s.last) :
                  /\ n \in [user : Users, sequence : Nat \ {0}] /\ n.sequence > t.last
                  /\ \E o \in u.messages : o.sequence = n.sequence /\ Concerns(n.user, u, o)
           /\ \A n, k \in Notified(s, s.last) : n.sequence = k.sequence
  <1>1. /\ t \in Thread /\ t.last \in Nat /\ t.kind \in {"dm", "inquiry"}
        /\ \A o \in t.messages : o.sequence \in 1 .. t.last
    BY DEF Kept, Thread, Counted
  <1>2. Audience(s) \subseteq Users
    <2>1. owners \subseteq Users
      BY DEF Inv, TypeOK
    <2>2. t.kind = "dm" => t.people \subseteq Users
      BY DEF Kept, Cast
    <2> QED
      BY <2>1, <2>2 DEF Audience
  <1>3. t.last + 1 \in Nat \ {0} /\ t.last + 1 > t.last
    BY <1>1
  <1>4. ASSUME NEW v \in Audience(s), NEW o \in s.messages, o.sequence = s.last,
               NotificationRecipient(v, s, o)
        PROVE  Concerns(v, u, m)
    <2>1. o = m
      BY <1>1, <1>4
    <2>2. u.kind = t.kind /\ u.creator = t.creator
      BY DEF Grows
    <2> QED
      BY <1>1, <1>4, <2>1, <2>2 DEF NotificationRecipient, Concerns
  <1>5. ASSUME NEW n \in Notified(s, s.last)
        PROVE  /\ n \in [user : Users, sequence : Nat \ {0}] /\ n.sequence = t.last + 1
               /\ Concerns(n.user, u, m)
    <2>1. PICK v \in Audience(s) : /\ n = [user |-> v, sequence |-> s.last]
                                   /\ \E o \in s.messages : o.sequence = s.last /\ NotificationRecipient(v, s, o)
      BY DEF Notified
    <2>2. v \in Users /\ Concerns(v, u, m)
      BY <1>2, <1>4, <2>1
    <2> QED
      BY <1>3, <2>1, <2>2
  <1> QED
    BY <1>3, <1>5

(* Who may write under an identity.                                        *)
LEMMA Writer ==
    ASSUME NEW p, NEW t, NEW acting, NEW named, Access(p, t), Actor(p, t, acting, named),
           t.kind \in {"none", "dm", "inquiry"}
    PROVE  /\ t.kind # "none" /\ acting \in {"self", "inbox"}
           /\ t.kind = "inquiry" /\ acting = "self" => p = t.creator
  BY DEF Access, Actor, Identities, Requests, Responder

(* SendFor writes one message, and the reply to its choice, if it may.     *)
LEMMA SendWrites ==
    ASSUME Inv, NEW p \in People, NEW c \in Conversations, NEW key \in Keys,
           NEW payload \in Payloads, NEW acting \in {"self", "inbox"}, NEW named \in BOOLEAN,
           Send(p, c, key, payload, acting, named)
    PROVE  LET s == Saved(thread[c], p, acting, key, payload)
               u == Continued(thread[c], s, payload.choice) IN
           /\ Writes(c, u, Notified(s, s.last)) /\ Grows(thread[c], u)
           /\ \A o \in u.messages \ thread[c].messages :
                  o = TextMessage(thread[c], p, acting, key, payload)
                  \/ (o.kind = "bot" /\ o.author = None)
           /\ MaySend(p, c)
  <1> DEFINE t == thread[c]
             s == Saved(t, p, acting, key, payload)
             u == Continued(t, s, payload.choice)
             m == TextMessage(t, p, acting, key, payload)
             heard == Notified(s, s.last)
  <1>1. /\ Access(p, t) /\ ~Sent(p, c, key) /\ Actor(p, t, acting, named)
        /\ IF payload.choice = None THEN payload.message = 0
           ELSE acting = "self" /\ Open(p, t, payload.message, payload.choice)
        /\ Commit(c, u, heard) /\ MaySend(p, c)
    BY Zenon DEF Send
  <1>2. /\ Kept(t) /\ Answered(t) /\ Begun(t) /\ t \in Thread /\ now \in Nat
        /\ t.kind \in {"none", "dm", "inquiry"}
    BY DEF Inv, Kept, TypeOK, Thread
  <1>3. payload \in Payload /\ payload.message \in Nat
    BY DEF Payload
  <1>4. /\ t.kind # "none"
        /\ t.kind = "inquiry" /\ acting = "self" => p = t.creator
        /\ t.kind = "inquiry" => t.last # 0
    BY <1>1, <1>2, Writer DEF Begun
  <1>5. \A o \in t.messages : ~(o.author = p /\ o.key = key)
    BY <1>1 DEF Sent
  <1>6. payload.choice # None => /\ Open(p, t, payload.message, payload.choice)
                                 /\ payload.message \in {0, payload.message}
    BY <1>1
  <1>7. /\ Kept(u) /\ Answered(u) /\ Grows(t, u) /\ t.last < u.last
        /\ m \in u.messages
        /\ \A o \in u.messages \ t.messages : o = m \/ (o.kind = "bot" /\ o.author = None)
        /\ s.kind = t.kind /\ s.creator = t.creator /\ s.people = t.people
        /\ s.inbox = t.inbox /\ s.last = t.last + 1 /\ s.messages = t.messages \cup {m}
    <2> HIDE DEF t
    <2> QED
      BY <1>2, <1>3, <1>4, <1>5, <1>6, WrittenKept
  <1>8. /\ m.sequence = t.last + 1 /\ m.kind = "text" /\ m.acting = acting /\ m.author = p
    BY DEF TextMessage
  <1> HIDE DEF m, s, u, t
  <1>9. /\ \A n \in heard :
              /\ n \in [user : Users, sequence : Nat \ {0}] /\ n.sequence > t.last
              /\ \E o \in u.messages : o.sequence = n.sequence /\ Concerns(n.user, u, o)
        /\ \A n, k \in heard : n.sequence = k.sequence
    BY <1>2, <1>4, <1>7, <1>8, NotifiedConcerns, ZenonT(40)
  <1> HIDE DEF heard
  <1>10. u.kind = t.kind /\ Begun(u)
    <2>1. t.last \in Nat /\ u.last \in Nat
      BY <1>2, <1>7 DEF Thread, Kept
    <2> QED
      BY <1>7, <2>1 DEF Begun, Grows
  <1>11. Writes(c, u, heard)
    <2>1. /\ thread' = [thread EXCEPT ![c] = u]
          /\ notices' = [notices EXCEPT ![c] = @ \cup heard]
          /\ unread' = [unread EXCEPT ![c] = @ \cup heard]
          /\ UNCHANGED <<read, world>>
      BY <1>1 DEF Commit
    <2> QED
      BY <1>4, <1>7, <1>9, <1>10, <2>1 DEF Writes, t
  <1> QED
    BY <1>1, <1>7, <1>11 DEF m, s, u, t, heard

(* SetStatusFor writes one status entry and notifies nobody.               *)
LEMMA SetStatusWrites ==
    ASSUME Inv, NEW p \in People, NEW c \in Conversations, NEW status \in Statuses,
           SetStatus(p, c, status)
    PROVE  LET u == StatusChanged(thread[c], p, status) IN
           /\ Writes(c, u, {}) /\ Grows(thread[c], u)
           /\ \A o \in u.messages \ thread[c].messages : o.kind = "status"
  <1> DEFINE t == thread[c]
             u == StatusChanged(t, p, status)
             m == StatusEntry(t, p, status)
  <1>1. /\ status \in Transitions(p, t) /\ t.status # status /\ Commit(c, u, {})
    BY DEF SetStatus
  <1>2. /\ Kept(t) /\ Answered(t) /\ Begun(t) /\ t \in Thread /\ now \in Nat
    BY DEF Inv, Kept, TypeOK
  <1>3. t.kind = "inquiry" /\ t.last # 0
    BY <1>1, <1>2 DEF Transitions, Responder, Begun
  <1>4. Kept(u) /\ Answered(u) /\ Appends(t, u, m)
    <2> HIDE DEF t
    <2> QED
      BY <1>1, <1>2, <1>3, StatusKept
  <1>5. m.kind = "status"
    BY DEF StatusEntry
  <1> HIDE DEF m, u, t
  <1>6. u.last = t.last + 1 /\ t.last \in Nat /\ u.kind = t.kind
    BY <1>2, <1>4 DEF Appends, Thread
  <1>7. Grows(t, u) /\ Begun(u)
    <2>1. t.last <= u.last /\ u.last # 0 /\ m.sequence > t.last
      BY <1>4, <1>6 DEF Appends
    <2> QED
      BY <1>4, <2>1 DEF Appends, Grows, Begun
  <1>8. \A o \in u.messages \ t.messages : o.kind = "status"
    BY <1>4, <1>5 DEF Appends
  <1>9. Writes(c, u, {})
    <2>1. /\ thread' = [thread EXCEPT ![c] = u]
          /\ notices' = [notices EXCEPT ![c] = @ \cup {}]
          /\ unread' = [unread EXCEPT ![c] = @ \cup {}]
          /\ UNCHANGED <<read, world>>
      BY <1>1 DEF Commit
    <2> QED
      BY <1>3, <1>4, <1>6, <1>7, <2>1 DEF Writes, t
  <1> QED
    BY <1>7, <1>8, <1>9 DEF u, t

(* CreateFor of a DM writes a conversation two users did not have.         *)
LEMMA CreateDMWrites ==
    ASSUME Inv, NEW p \in Users, NEW peer \in Users, CreateDM(p, peer)
    PROVE  \E c \in Conversations :
               LET u == [NoThread EXCEPT !.kind = "dm", !.creator = p,
                                         !.people = {p, peer}, !.created = now] IN
               Writes(c, u, {}) /\ thread[c].kind = "none" /\ MayCreate(p)
  <1> DEFINE u == [NoThread EXCEPT !.kind = "dm", !.creator = p,
                                   !.people = {p, peer}, !.created = now]
  <1>1. PICK c \in Conversations :
           /\ thread[c].kind = "none" /\ ~Known(p, peer) /\ MayCreate(p)
           /\ thread' = [thread EXCEPT ![c] = u]
           /\ UNCHANGED <<read, notices, unread, world>>
    BY Zenon DEF CreateDM
  <1>2. now \in Nat
    BY DEF Inv, TypeOK
  <1>3. /\ u.kind = "dm" /\ u.creator = p /\ u.people = {p, peer} /\ u.created = now
        /\ u.status = "none" /\ u.last = 0 /\ u.latest = 0 /\ u.messages = {}
        /\ u.bot = NoState
    BY DEF NoThread
  <1>4. u \in Thread
    BY <1>2 DEF NoThread, NoState, Thread, People
  <1> HIDE DEF u
  <1>5. Kept(u)
    <2>1. Counted(u)
      BY <1>3 DEF Counted
    <2>2. Keyed(u) /\ Explained(u)
      BY <1>3 DEF Keyed, Explained
    <2>3. Cast(u)
      BY <1>3 DEF Cast
    <2>4. Led(u)
      BY <1>3 DEF Led, NoState
    <2> QED
      BY <1>4, <2>1, <2>2, <2>3, <2>4 DEF Kept
  <1>6. Answered(u) /\ Begun(u)
    BY <1>3 DEF Answered, Begun, NoState
  <1>7. \A d \in Conversations : thread[d].kind = "dm" => thread[d].people # u.people
    BY <1>1, <1>3 DEF Known
  <1>8. notices \in [Conversations -> SUBSET [user : Users, sequence : Nat \ {0}]]
        /\ unread \in [Conversations -> SUBSET [user : Users, sequence : Nat \ {0}]]
    BY DEF Inv, TypeOK
  <1>9. /\ notices' = [notices EXCEPT ![c] = @ \cup {}]
        /\ unread' = [unread EXCEPT ![c] = @ \cup {}]
    BY <1>1, <1>8
  <1>10. Writes(c, u, {})
    BY <1>1, <1>3, <1>5, <1>6, <1>7, <1>9 DEF Writes
  <1> QED
    BY <1>1, <1>10 DEF u

(* An inquiry before its first message.                                    *)
LEMMA Empty ==
    ASSUME Inv, NEW p \in People, NEW inbox \in {"arcade", "team"}
    PROVE  LET new == [NoThread EXCEPT !.kind = "inquiry", !.creator = p, !.created = now,
                                       !.inbox = inbox, !.status = "waiting"] IN
           /\ Kept(new) /\ new.kind = "inquiry" /\ new.creator = p /\ new.created = now
           /\ new.last = 0 /\ new.messages = {} /\ new.bot = NoState
  <1> DEFINE new == [NoThread EXCEPT !.kind = "inquiry", !.creator = p, !.created = now,
                                     !.inbox = inbox, !.status = "waiting"]
  <1>1. now \in Nat
    BY DEF Inv, TypeOK
  <1>2. /\ new.kind = "inquiry" /\ new.creator = p /\ new.people = {} /\ new.created = now
        /\ new.inbox = inbox
        /\ new.status = "waiting" /\ new.last = 0 /\ new.latest = 0 /\ new.messages = {}
        /\ new.bot = NoState
    BY DEF NoThread
  <1>3. new \in Thread
    BY <1>1 DEF NoThread, NoState, Thread, Statuses
  <1> HIDE DEF new
  <1>4. Counted(new)
    BY <1>2 DEF Counted
  <1>5. Keyed(new)
    BY <1>2 DEF Keyed
  <1>6. Explained(new)
    <2>1. Changes(new) = {}
      BY <1>2 DEF Changes
    <2> QED
      BY <1>2, <2>1 DEF Explained, After
  <1>7. Cast(new)
    BY <1>2 DEF Cast, Statuses
  <1>8. Led(new)
    BY <1>2 DEF Led, NoState
  <1>9. Kept(new)
    BY <1>3, <1>4, <1>5, <1>6, <1>7, <1>8 DEF Kept
  <1> QED
    BY <1>2, <1>9 DEF new

\* ... and with the automatic reply of its configuration.
Opened(new, p, key, payload, config) ==
    IF config = None THEN new ELSE BotReplied(new, config, config.start, key, p, payload)

(* The automatic reply is its first message.                               *)
LEMMA Greeted ==
    ASSUME now \in Nat, NEW p \in People, NEW key \in Keys, NEW payload \in Payload,
           NEW config \in Bots \cup {None}, NEW new,
           Kept(new), new.kind = "inquiry", new.creator = p, new.created = now,
           new.last = 0, new.messages = {}, new.bot = NoState
    PROVE  LET b == BotMessage(new, config.start, key, p, payload)
               t == Opened(new, p, key, payload, config) IN
           /\ Kept(t) /\ Answered(t) /\ t.kind = "inquiry" /\ t.creator = p /\ t.created = now
           /\ t.last \in {0, 1} /\ (t.last = 0 <=> t.messages = {})
           /\ t.messages = {} \/ t.messages = {b}
           /\ b.sequence = 1 /\ b.author = None /\ b.kind = "bot" /\ b.key = key
  <1> DEFINE b == BotMessage(new, config.start, key, p, payload)
             r == BotReplied(new, config, config.start, key, p, payload)
             t == Opened(new, p, key, payload, config)
  <1>1. b.sequence = 1 /\ b.author = None /\ b.kind = "bot" /\ b.key = key
    BY DEF BotMessage
  <1>2. Answered(new)
    BY DEF Answered, NoState
  <1>3. ASSUME config # None
        PROVE  /\ Kept(r) /\ Answered(r) /\ r.kind = "inquiry" /\ r.creator = p
               /\ r.created = now /\ r.messages = {b} /\ r.last = 1
    <2>1. config \in Bots /\ config.start \in Nodes
      BY <1>3
    <2>2. Kept(r) /\ Appends(new, r, b)
      <3>1. key \in Keys \cup Nat /\ p \in People \cup {None}
        OBVIOUS
      <3> QED
        BY <2>1, <3>1, BotRepliedKept
    <2>3. r.bot.message = new.last + 1
      BY DEF BotReplied, Kept, Thread
    <2> HIDE DEF r, b
    <2>4. /\ r.kind = "inquiry" /\ r.creator = p /\ r.created = now
          /\ r.messages = {b} /\ r.last = 1 /\ r.latest = 1 /\ r.bot.message = 1
      BY <1>1, <2>2, <2>3 DEF Appends
    <2>5. Answered(r)
      BY <1>1, <2>4 DEF Answered
    <2> QED
      BY <2>2, <2>4, <2>5
  <1> HIDE DEF r, b
  <1>4. /\ Kept(t) /\ Answered(t) /\ t.kind = "inquiry" /\ t.creator = p /\ t.created = now
        /\ t.last \in {0, 1} /\ (t.last = 0 <=> t.messages = {})
        /\ t.messages = {} \/ t.messages = {b}
    <2>1. CASE config = None
      BY <1>2, <2>1 DEF Opened
    <2>2. CASE config # None
      <3>1. {b} # {} /\ 1 # 0
        OBVIOUS
      <3>2. t = r
        BY <2>2 DEF Opened, r
      <3> HIDE DEF t
      <3> QED
        BY <1>3, <2>2, <3>1, <3>2, Zenon
    <2> QED
      BY <2>1, <2>2
  <1> HIDE DEF t
  <1> QED
    BY <1>1, <1>4 DEF r, b, t

(* CreateFor of an inquiry writes its first messages, one of them p's.     *)
LEMMA CreateInquiryWrites ==
    ASSUME Inv, NEW p \in People, NEW inbox \in {"arcade", "team"}, NEW key \in Keys,
           NEW payload \in Payloads, CreateInquiry(p, inbox, key, payload)
    PROVE  \E c \in Conversations : \E u, heard :
               /\ Writes(c, u, heard) /\ thread[c].kind = "none" /\ MayCreate(p)
               /\ u.kind = "inquiry" /\ u.creator = p /\ u.created = now
               /\ \A m \in u.messages : m.author \in {None, p}
               /\ \A m, o \in u.messages : m.author # None /\ o.author # None => m = o
               /\ \A m \in u.messages : m.author # None => m.at = now
  <1> DEFINE config == InquiryBot(payload.context)
             new    == [NoThread EXCEPT !.kind = "inquiry", !.creator = p, !.created = now,
                                        !.inbox = inbox, !.status = "waiting"]
             t      == IF config = None THEN new
                       ELSE BotReplied(new, config, config.start, key, p, payload)
             s      == Saved(t, p, "self", key, payload)
             u      == Continued(t, s, payload.choice)
             m      == TextMessage(t, p, "self", key, payload)
             b      == BotMessage(new, config.start, key, p, payload)
             heard  == Notified(s, s.last)
  <1>1. PICK c \in Conversations :
           /\ thread[c].kind = "none" /\ MayCreate(p) /\ ~Used(p, key) /\ payload.message = 0
           /\ payload.choice # None => Open(p, t, t.latest, payload.choice)
           /\ Commit(c, u, heard)
    BY Zenon DEF CreateInquiry
  <1>2. payload \in Payload /\ now \in Nat
    BY DEF Inv, TypeOK
  <1>3. config \in Bots \cup {None}
    <2>1. settings.bot \in Bots \cup {None}
      BY DEF Inv, TypeOK
    <2> QED
      BY <2>1 DEF InquiryBot
  <1> HIDE DEF config
  <1>4. /\ Kept(t) /\ Answered(t) /\ t.kind = "inquiry" /\ t.creator = p /\ t.created = now
        /\ t.messages = {} \/ t.messages = {b}
        /\ t.last \in {0, 1} /\ (t.last = 0 <=> t.messages = {})
        /\ b.sequence = 1 /\ b.author = None /\ b.kind = "bot" /\ b.key = key
    <2>1. /\ Kept(new) /\ new.kind = "inquiry" /\ new.creator = p /\ new.created = now
          /\ new.last = 0 /\ new.messages = {} /\ new.bot = NoState
      BY Empty, ZenonT(40)
    <2>2. t = Opened(new, p, key, payload, config)
      BY DEF Opened
    <2> HIDE DEF new, t
    <2> QED
      BY <1>2, <1>3, <2>1, <2>2, Greeted, SMTT(30)
  <1> HIDE DEF new, t, b
  <1>5. t.latest \in Nat /\ t.last \in Nat
    BY <1>4 DEF Kept, Thread
  <1>6. \A o \in t.messages : ~(o.author = p /\ o.key = key)
    <2>1. \A o \in t.messages : o = b
      BY <1>4
    <2>2. p # None
      OBVIOUS
    <2> QED
      BY <1>4, <2>1, <2>2, Zenon
  <1>7. /\ Kept(u) /\ Answered(u) /\ Grows(t, u) /\ t.last < u.last
        /\ m \in u.messages
        /\ \A o \in u.messages \ t.messages : o = m \/ (o.kind = "bot" /\ o.author = None)
        /\ s.kind = t.kind /\ s.creator = t.creator /\ s.people = t.people
        /\ s.inbox = t.inbox /\ s.last = t.last + 1 /\ s.messages = t.messages \cup {m}
    <2>1. payload.choice # None =>
             Open(p, t, t.latest, payload.choice) /\ payload.message \in {0, t.latest}
      BY <1>1
    <2>2. t.kind # "none" /\ "self" \in {"self", "inbox"}
      BY <1>4
    <2> QED
      BY <1>2, <1>4, <1>5, <1>6, <2>1, <2>2, WrittenKept
  <1>8. /\ m.sequence = t.last + 1 /\ m.kind = "text" /\ m.acting = "self" /\ m.author = p
        /\ m.key = key /\ m.at = now
    BY DEF TextMessage
  <1> HIDE DEF m, s, u
  <1>9. /\ \A n \in heard :
              /\ n \in [user : Users, sequence : Nat \ {0}] /\ n.sequence > t.last
              /\ \E o \in u.messages : o.sequence = n.sequence /\ Concerns(n.user, u, o)
        /\ \A n, k \in heard : n.sequence = k.sequence
    <2>1. Kept(t) /\ t.kind # "none" /\ m.acting \in {"self", "inbox"} /\ m.author = t.creator
      BY <1>4, <1>8
    <2> QED
      BY <1>7, <1>8, <2>1, NotifiedConcerns, ZenonT(40)
  <1> HIDE DEF heard
  <1>10. /\ u.kind = "inquiry" /\ u.creator = p /\ u.created = now /\ Begun(u)
    BY <1>4, <1>5, <1>7 DEF Grows, Begun
  <1>11. \A o \in u.messages : o = m \/ o.author = None
    BY <1>4, <1>7
  <1>12. \A o \in u.messages : o.sequence = 1 => o.key = key
    <2>1. t.last + 1 > 1 => t.messages = {b}
      BY <1>4, <1>5
    <2>2. \A o \in u.messages \ t.messages : o.sequence > t.last
      BY <1>7 DEF Grows
    <2>3. \A x, y \in u.messages : x.sequence = y.sequence => x = y
      BY <1>7 DEF Kept, Counted
    <2>4. CASE t.last = 0
      <3>1. m.sequence = 1
        BY <1>5, <1>8, <2>4
      <3> QED
        BY <1>7, <1>8, <2>3, <3>1
    <2>5. CASE t.last = 1
      <3>1. t.messages = {b} /\ b \in u.messages
        BY <1>4, <1>7, <2>5 DEF Grows
      <3> QED
        BY <1>4, <1>7, <2>3, <3>1
    <2> QED
      BY <1>4, <2>4, <2>5
  <1>13. \A d \in Conversations : thread[d].kind = "inquiry" /\ thread[d].creator = p =>
            \A x \in u.messages, o \in thread[d].messages :
                x.sequence = 1 /\ o.sequence = 1 => x.key # o.key
    <2> SUFFICES ASSUME NEW d \in Conversations, thread[d].kind = "inquiry",
                        thread[d].creator = p, NEW o \in thread[d].messages, o.sequence = 1
                 PROVE  o.key # key
      BY <1>12
    <2>1. o.author = p \/ o.for = p
      BY DEF Inv, Kept, Cast
    <2> QED
      BY <1>1, <2>1 DEF Used
  <1>14. thread[c].last = 0
    BY <1>1, OldMessages
  <1>15. Writes(c, u, heard)
    <2>1. /\ thread' = [thread EXCEPT ![c] = u]
          /\ notices' = [notices EXCEPT ![c] = @ \cup heard]
          /\ unread' = [unread EXCEPT ![c] = @ \cup heard]
          /\ UNCHANGED <<read, world>>
      BY <1>1 DEF Commit
    <2>2. \A n \in heard : n.sequence > thread[c].last
      BY <1>4, <1>5, <1>9, <1>14
    <2> QED
      BY <1>1, <1>7, <1>9, <1>10, <1>13, <2>1, <2>2 DEF Writes
  <1> QED
    BY <1>1, <1>8, <1>10, <1>11, <1>15

-------------------------------------------------------------------------------
(* The invariant holds                                                     *)

(* Reading keeps the invariant: the positions of the notifications and of  *)
(* the reader move together.                                               *)
LEMMA SetReadKeepsInv ==
    ASSUME Inv, NEW p \in People, NEW c \in Conversations, NEW through \in 0 .. MaxMessages,
           SetRead(p, c, through)
    PROVE  Inv'
  <1> DEFINE last == Reached(p, c, through)
  <1>1. /\ through <= thread[c].last
        /\ read' = [read EXCEPT ![c][p] = last]
        /\ unread' = [unread EXCEPT ![c] = Unseen(c, p, last)]
        /\ thread' = thread /\ notices' = notices
        /\ UNCHANGED <<owners, banned, receive, blocks, settings, now>>
    BY Zenon DEF SetRead, world
  <1>2. /\ read \in [Conversations -> [People -> Nat]] /\ read[c][p] \in Nat /\ through \in Nat
        /\ unread \in [Conversations -> SUBSET [user : Users, sequence : Nat \ {0}]]
        /\ notices \in [Conversations -> SUBSET [user : Users, sequence : Nat \ {0}]]
    BY DEF Inv, TypeOK
  <1>3. thread[c].last \in Nat
    BY OldMessages
  <1>4. last \in Nat /\ last >= read[c][p] /\ last <= thread[c].last
    BY <1>1, <1>2, <1>3 DEF Reached, Inv, ReadIsAcknowledged
  <1> HIDE DEF last
  <1>5. /\ read'[c][p] = last
        /\ \A q \in People \ {p} : read'[c][q] = read[c][q]
        /\ unread'[c] = {n \in unread[c] : n.user # p \/ n.sequence > last}
        /\ \A d \in Conversations \ {c} : read'[d] = read[d] /\ unread'[d] = unread[d]
    BY <1>1, <1>2 DEF Unseen
  <1>6. TypeOK'
    <2>1. read' \in [Conversations -> [People -> Nat]]
      BY <1>1, <1>2, <1>4
    <2>2. unread' \in [Conversations -> SUBSET [user : Users, sequence : Nat \ {0}]]
      BY <1>1, <1>2 DEF Unseen
    <2> QED
      BY <1>1, <2>1, <2>2 DEF Inv, TypeOK
  <1>7. OneInquiryPerKey' /\ OnePerPair' /\ NoticesHaveCause'
    BY <1>1 DEF Inv, OneInquiryPerKey, OnePerPair, NoticesHaveCause
  <1>8. ReadIsAcknowledged'
    <2>1. \A q \in People : read'[c][q] <= thread[c].last
      BY <1>4, <1>5 DEF Inv, ReadIsAcknowledged
    <2>2. \A n \in unread'[c] : n.sequence > read'[c][n.user]
      <3> SUFFICES ASSUME NEW n \in unread'[c] PROVE n.sequence > read'[c][n.user]
        OBVIOUS
      <3>1. n \in unread[c] /\ n.user \in People /\ n.sequence > read[c][n.user]
        BY <1>2, <1>5 DEF Inv, ReadIsAcknowledged, People
      <3> QED
        BY <1>5, <3>1
    <2>3. unread'[c] \subseteq notices[c]
      BY <1>5 DEF Inv, ReadIsAcknowledged
    <2> QED
      BY <1>1, <1>5, <2>1, <2>2, <2>3 DEF Inv, ReadIsAcknowledged
  <1>9. NoneHidden'
    <2>1. ASSUME NEW n \in unread'[c], NEW m \in notices[c], m.user = n.user,
                 m.sequence > n.sequence
          PROVE  m \in unread'[c]
      <3>1. n \in unread[c] /\ m \in unread[c]
        BY <1>5, <2>1 DEF Inv, NoneHidden
      <3>2. n.sequence \in Nat /\ m.sequence \in Nat
        BY <1>2, <3>1
      <3> QED
        BY <1>4, <1>5, <2>1, <3>1, <3>2
    <2> QED
      BY <1>1, <1>5, <2>1 DEF Inv, NoneHidden
  <1> QED
    BY <1>1, <1>6, <1>7, <1>8, <1>9 DEF Inv

(* So does acknowledging a notification and the older ones.                *)
LEMMA AcknowledgeKeepsInv ==
    ASSUME Inv, NEW c \in Conversations, NEW notice \in notices[c], Acknowledge(c, notice)
    PROVE  Inv'
  <1>1. /\ unread' = [unread EXCEPT ![c] = Unseen(c, notice.user, notice.sequence)]
        /\ thread' = thread /\ notices' = notices /\ read' = read
        /\ UNCHANGED <<owners, banned, receive, blocks, settings, now>>
    BY Zenon DEF Acknowledge, world
  <1>2. /\ unread \in [Conversations -> SUBSET [user : Users, sequence : Nat \ {0}]]
        /\ notices \in [Conversations -> SUBSET [user : Users, sequence : Nat \ {0}]]
        /\ notice.sequence \in Nat
    BY DEF Inv, TypeOK
  <1>3. /\ unread'[c] = {n \in unread[c] : n.user # notice.user \/ n.sequence > notice.sequence}
        /\ \A d \in Conversations \ {c} : unread'[d] = unread[d]
    BY <1>1, <1>2 DEF Unseen
  <1>4. TypeOK'
    <2>1. unread' \in [Conversations -> SUBSET [user : Users, sequence : Nat \ {0}]]
      BY <1>1, <1>2 DEF Unseen
    <2> QED
      BY <1>1, <2>1 DEF Inv, TypeOK
  <1>5. OneInquiryPerKey' /\ OnePerPair' /\ NoticesHaveCause'
    BY <1>1 DEF Inv, OneInquiryPerKey, OnePerPair, NoticesHaveCause
  <1>6. ReadIsAcknowledged'
    BY <1>1, <1>3 DEF Inv, ReadIsAcknowledged
  <1>7. NoneHidden'
    <2>1. ASSUME NEW n \in unread'[c], NEW m \in notices[c], m.user = n.user,
                 m.sequence > n.sequence
          PROVE  m \in unread'[c]
      <3>1. n \in unread[c] /\ m \in unread[c]
        BY <1>3, <2>1 DEF Inv, NoneHidden
      <3>2. n.sequence \in Nat /\ m.sequence \in Nat
        BY <1>2, <3>1
      <3> QED
        BY <1>2, <1>3, <2>1, <3>1, <3>2
    <2> QED
      BY <1>1, <1>3, <2>1 DEF Inv, NoneHidden
  <1> QED
    BY <1>1, <1>4, <1>5, <1>6, <1>7 DEF Inv

(* ... and acknowledging all of them.                                      *)
LEMMA AcknowledgeAllKeepsInv ==
    ASSUME Inv, NEW u \in Users, AcknowledgeAll(u)
    PROVE  Inv'
  <1>1. /\ unread' = [c \in Conversations |-> {n \in unread[c] : n.user # u}]
        /\ thread' = thread /\ notices' = notices /\ read' = read
        /\ UNCHANGED <<owners, banned, receive, blocks, settings, now>>
    BY Zenon DEF AcknowledgeAll, world
  <1>2. \A c \in Conversations : unread'[c] = {n \in unread[c] : n.user # u}
    BY <1>1
  <1>3. TypeOK'
    <2>1. unread' \in [Conversations -> SUBSET [user : Users, sequence : Nat \ {0}]]
      BY <1>1 DEF Inv, TypeOK
    <2> QED
      BY <1>1, <2>1 DEF Inv, TypeOK
  <1>4. OneInquiryPerKey' /\ OnePerPair' /\ NoticesHaveCause'
    BY <1>1 DEF Inv, OneInquiryPerKey, OnePerPair, NoticesHaveCause
  <1>5. ReadIsAcknowledged' /\ NoneHidden'
    BY <1>1, <1>2 DEF Inv, ReadIsAcknowledged, NoneHidden
  <1> QED
    BY <1>1, <1>3, <1>4, <1>5 DEF Inv

(* Nothing in the invariant but the types depends on who owns the arcade,  *)
(* who is banned, who receives what, the settings and the clock.           *)
LEMMA WorldKeepsInv ==
    ASSUME Inv, UNCHANGED <<thread, read, notices, unread>>, TypeOK'
    PROVE  Inv'
  <1>1. OneInquiryPerKey' /\ OnePerPair' /\ NoticesHaveCause'
    BY DEF Inv, OneInquiryPerKey, OnePerPair, NoticesHaveCause
  <1>2. ReadIsAcknowledged' /\ NoneHidden'
    BY DEF Inv, ReadIsAcknowledged, NoneHidden
  <1>3. \A c \in Conversations : Kept(thread'[c]) /\ Answered(thread'[c]) /\ Begun(thread'[c])
    BY DEF Inv
  <1> QED
    BY <1>1, <1>2, <1>3 DEF Inv

\* Preferences, blocks and whatever is no request of a conversation.
Settles ==
    \/ \E u \in Users, everyone \in BOOLEAN : Preference(u, everyone)
    \/ \E u, other \in Users : Block(u, other) \/ Unblock(u, other)
    \/ Change

(* These steps keep the conversations as they are.                         *)
LEMMA SettlesFrame ==
    ASSUME Inv, Settles
    PROVE  UNCHANGED <<thread, read, notices, unread>> /\ TypeOK'
  <1>1. TypeOK
    BY DEF Inv
  <1>2. ASSUME NEW u \in Users, NEW everyone \in BOOLEAN, Preference(u, everyone)
        PROVE  UNCHANGED <<thread, read, notices, unread>> /\ TypeOK'
    BY <1>1, <1>2 DEF Preference, TypeOK
  <1>3. ASSUME NEW u \in Users, NEW other \in Users, Block(u, other)
        PROVE  UNCHANGED <<thread, read, notices, unread>> /\ TypeOK'
    BY <1>1, <1>3 DEF Block, TypeOK
  <1>4. ASSUME NEW u \in Users, NEW other \in Users, Unblock(u, other)
        PROVE  UNCHANGED <<thread, read, notices, unread>> /\ TypeOK'
    BY <1>1, <1>4 DEF Unblock, TypeOK
  <1>5. ASSUME NEW u \in Users, NEW config \in Bots \cup {None}, SetArcadeBot(u, config)
        PROVE  UNCHANGED <<thread, read, notices, unread>> /\ TypeOK'
    BY <1>1, <1>5 DEF SetArcadeBot, TypeOK
  <1>6. ASSUME NEW u \in Users, NEW intake \in {"internal", "external"}, NEW login \in BOOLEAN,
               UpdateInquirySettings(u, intake, login)
        PROVE  UNCHANGED <<thread, read, notices, unread>> /\ TypeOK'
    BY <1>1, <1>6 DEF UpdateInquirySettings, TypeOK
  <1>7. ASSUME NEW u \in Users, ChangeOwner(u)
        PROVE  UNCHANGED <<thread, read, notices, unread>> /\ TypeOK'
    BY <1>1, <1>7 DEF ChangeOwner, TypeOK
  <1>8. ASSUME NEW u \in Users, ChangeBan(u)
        PROVE  UNCHANGED <<thread, read, notices, unread>> /\ TypeOK'
    BY <1>1, <1>8 DEF ChangeBan, TypeOK, People
  <1>9. ASSUME Tick
        PROVE  UNCHANGED <<thread, read, notices, unread>> /\ TypeOK'
    BY <1>1, <1>9 DEF Tick, TypeOK
  <1> QED
    BY <1>2, <1>3, <1>4, <1>5, <1>6, <1>7, <1>8, <1>9 DEF Settles, Change

(* Every step writes to one conversation, moves readers and notifications, *)
(* or touches neither.                                                     *)
LEMMA Steps ==
    ASSUME Next
    PROVE  \/ \E p, peer \in Users : CreateDM(p, peer)
           \/ \E p \in People, inbox \in {"arcade", "team"}, key \in Keys, payload \in Payloads :
                  CreateInquiry(p, inbox, key, payload)
           \/ \E p \in People, c \in Conversations, key \in Keys, payload \in Payloads,
                 acting \in {"self", "inbox"}, named \in BOOLEAN :
                  Send(p, c, key, payload, acting, named)
           \/ \E p \in People, c \in Conversations, status \in Statuses : SetStatus(p, c, status)
           \/ \E p \in People, c \in Conversations, through \in 0 .. MaxMessages :
                  SetRead(p, c, through)
           \/ \E c \in Conversations : \E n \in notices[c] : Acknowledge(c, n)
           \/ \E u \in Users : AcknowledgeAll(u)
           \/ Settles
  BY Zenon DEF Next, Request, Settles

(* Nothing is written at the start.                                        *)
LEMMA InitInv == Init => Inv
  <1> SUFFICES ASSUME Init PROVE Inv
    OBVIOUS
  <1>1. /\ thread = [c \in Conversations |-> NoThread]
        /\ read = [c \in Conversations |-> [p \in People |-> 0]]
        /\ notices = [c \in Conversations |-> {}]
        /\ unread = [c \in Conversations |-> {}]
        /\ owners \in SUBSET Users /\ banned = {} /\ receive = Users /\ blocks = {} /\ now = 0
        /\ settings = [intake |-> "internal", login |-> FALSE, bot |-> FirstBot]
    BY Zenon DEF Init
  <1>2. NoThread \in Thread
    BY DEF NoThread, NoState, Thread
  <1>3. Kept(NoThread) /\ Answered(NoThread) /\ Begun(NoThread)
    <2>1. /\ NoThread.kind = "none" /\ NoThread.messages = {}
          /\ NoThread.last = 0 /\ NoThread.latest = 0
          /\ NoThread.bot.active = FALSE /\ NoThread.bot.message = 0
      BY DEF NoThread, NoState
    <2>2. Counted(NoThread) /\ Keyed(NoThread) /\ Explained(NoThread)
      BY <2>1 DEF Counted, Keyed, Explained
    <2>3. Cast(NoThread) /\ Led(NoThread) /\ Answered(NoThread) /\ Begun(NoThread)
      BY <2>1 DEF Cast, Led, Answered, Begun
    <2> QED
      BY <1>2, <2>2, <2>3 DEF Kept
  <1>4. TypeOK
    <2>1. settings \in [intake : {"internal", "external"}, login : BOOLEAN, bot : Bots \cup {None}]
      BY <1>1
    <2>2. thread \in [Conversations -> Thread] /\ read \in [Conversations -> [People -> Nat]]
      BY <1>1, <1>2
    <2>3. /\ notices \in [Conversations -> SUBSET [user : Users, sequence : Nat \ {0}]]
          /\ unread \in [Conversations -> SUBSET [user : Users, sequence : Nat \ {0}]]
      BY <1>1
    <2>4. /\ owners \in SUBSET Users /\ banned \in SUBSET People /\ receive \in SUBSET Users
          /\ blocks \in SUBSET (Users \X Users) /\ now \in Nat
      BY <1>1
    <2> QED
      BY <2>1, <2>2, <2>3, <2>4 DEF TypeOK
  <1>5. \A c \in Conversations : /\ thread[c] = NoThread /\ thread[c].kind = "none"
                                 /\ thread[c].last = 0 /\ \A p \in People : read[c][p] = 0
                                 /\ notices[c] = {} /\ unread[c] = {}
    BY <1>1 DEF NoThread
  <1>6. OneInquiryPerKey /\ OnePerPair
    BY <1>5 DEF OneInquiryPerKey, OnePerPair
  <1>7. NoticesHaveCause /\ ReadIsAcknowledged /\ NoneHidden
    BY <1>5 DEF NoticesHaveCause, ReadIsAcknowledged, NoneHidden
  <1> QED
    BY <1>3, <1>4, <1>5, <1>6, <1>7 DEF Inv

(* The invariant is inductive.                                             *)
LEMMA NextInv == Inv /\ [Next]_vars => Inv'
  <1> SUFFICES ASSUME Inv, [Next]_vars PROVE Inv'
    OBVIOUS
  <1>1. ASSUME NEW p \in Users, NEW peer \in Users, CreateDM(p, peer)
        PROVE  Inv'
    BY <1>1, CreateDMWrites, WritesKeepsInv
  <1>2. ASSUME NEW p \in People, NEW inbox \in {"arcade", "team"}, NEW key \in Keys,
               NEW payload \in Payloads, CreateInquiry(p, inbox, key, payload)
        PROVE  Inv'
    <2>1. PICK c \in Conversations : \E u, heard : Writes(c, u, heard)
      BY <1>2, CreateInquiryWrites
    <2> QED
      BY <2>1, WritesKeepsInv
  <1>3. ASSUME NEW p \in People, NEW c \in Conversations, NEW key \in Keys,
               NEW payload \in Payloads, NEW acting \in {"self", "inbox"}, NEW named \in BOOLEAN,
               Send(p, c, key, payload, acting, named)
        PROVE  Inv'
    <2> DEFINE s == Saved(thread[c], p, acting, key, payload)
               u == Continued(thread[c], s, payload.choice)
               heard == Notified(s, s.last)
    <2>1. Writes(c, u, heard)
      BY <1>3, SendWrites
    <2> HIDE DEF u, heard
    <2> QED
      BY <2>1, WritesKeepsInv
  <1>4. ASSUME NEW p \in People, NEW c \in Conversations, NEW status \in Statuses,
               SetStatus(p, c, status)
        PROVE  Inv'
    BY <1>4, SetStatusWrites, WritesKeepsInv
  <1>5. CASE UNCHANGED vars
    <2>1. UNCHANGED <<thread, read, notices, unread>> /\ TypeOK'
      BY <1>5 DEF vars, world, Inv, TypeOK
    <2> QED
      BY <2>1, WorldKeepsInv
  <1>6. CASE Settles
    BY <1>6, SettlesFrame, WorldKeepsInv
  <1>7. CASE Next
    BY <1>1, <1>2, <1>3, <1>4, <1>6, <1>7, Steps, SetReadKeepsInv, AcknowledgeKeepsInv,
       AcknowledgeAllKeepsInv
  <1> QED
    BY <1>5, <1>7

(* The invariant of conversations, over any behaviour.                     *)
THEOREM Invariance == Spec => []Inv
  BY InitInv, NextInv, PTL DEF Spec

-------------------------------------------------------------------------------
(* What the runs check follows from it                                     *)

(* The invariant implies HistoryAddsUp.                                    *)
LEMMA HistoryFollows == Inv => HistoryAddsUp
  <1> SUFFICES ASSUME Inv PROVE HistoryAddsUp
    OBVIOUS
  <1>1. Numbered
    <2>1. \A c \in Conversations : Counted(thread[c])
      BY DEF Inv, Kept
    <2> QED
      BY <2>1 DEF Numbered, Counted
  <1>2. StatusExplained
    <2>1. ASSUME NEW c \in Conversations, thread[c].kind = "inquiry"
          PROVE  /\ thread[c].status = After(Changes(thread[c]))
                 /\ \A m \in Changes(thread[c]) :
                        /\ m.change[1] = After(Before(thread[c], m))
                        /\ m.change[1] # m.change[2]
      BY <2>1 DEF Inv, Kept, Explained
    <2> QED
      BY <2>1, Zenon DEF StatusExplained, Changes, Before, After, Newest
  <1> QED
    BY <1>1, <1>2 DEF HistoryAddsUp, Inv

(* What a conversation keeps of itself, its numbers, its newest message    *)
(* and its status, follows from its messages (saveMessage,                 *)
(* changeInquiryStatus, appendBotReply).                                   *)
THEOREM HistoryHolds == Spec => []HistoryAddsUp
  BY Invariance, HistoryFollows, PTL

(* The invariant implies OneOfEach.                                        *)
LEMMA OneOfEachFollows == Inv => OneOfEach
  <1> SUFFICES ASSUME Inv PROVE SentOnce
    BY DEF OneOfEach, Inv
  <1>1. \A c \in Conversations : \A m, o \in thread[c].messages :
           m.author # None /\ m.author = o.author /\ m.key = o.key => m = o
    BY DEF Inv, Kept, Keyed
  <1>2. \A c, d \in Conversations : \A m \in thread[c].messages, o \in thread[d].messages :
           /\ thread[c].kind = "inquiry" /\ thread[c].kind = thread[d].kind
           /\ thread[c].creator = thread[d].creator
           /\ m.sequence = 1 /\ o.sequence = 1 /\ m.key = o.key
           => c = d
    BY DEF Inv, OneInquiryPerKey
  <1> QED
    BY <1>1, <1>2 DEF SentOnce

(* A repeated request makes one message, one inquiry and one conversation  *)
(* of two users (existingRetry, pair_key).                                 *)
THEOREM RepeatsAreFound == Spec => []OneOfEach
  BY Invariance, OneOfEachFollows, PTL

(* The invariant implies UnreadIsHonest.                                   *)
LEMMA UnreadFollows == Inv => UnreadIsHonest
  <1> SUFFICES ASSUME Inv PROVE ReadingClears /\ BadgesAgree
    BY DEF UnreadIsHonest, Inv
  <1>1. ASSUME NEW c \in Conversations
        PROVE  /\ thread[c].last \in Nat /\ thread[c].latest \in Nat
               /\ thread[c].latest <= thread[c].last
               /\ \A m \in thread[c].messages : m.sequence \in 1 .. thread[c].last
               /\ \A m \in thread[c].messages : m.kind # "status" => m.sequence <= thread[c].latest
               /\ \A n \in unread[c] : /\ n.user \in Users /\ n.user \in People
                                       /\ n.sequence > read[c][n.user]
               /\ \A n \in unread[c] : \E m \in thread[c].messages :
                      m.sequence = n.sequence /\ Concerns(n.user, thread[c], m)
    <2>1. Kept(thread[c])
      BY DEF Inv
    <2>2. unread[c] \subseteq notices[c] /\ \A n \in unread[c] : n.sequence > read[c][n.user]
      BY DEF Inv, ReadIsAcknowledged
    <2>3. \A n \in unread[c] : n.user \in Users
      BY DEF Inv, TypeOK
    <2>4. \A n \in unread[c] : \E m \in thread[c].messages :
             m.sequence = n.sequence /\ Concerns(n.user, thread[c], m)
      BY <2>2 DEF Inv, NoticesHaveCause
    <2> QED
      BY <2>1, <2>2, <2>3, <2>4, OldMessages DEF Kept, Counted, People
  <1>2. ReadingClears
    <2> SUFFICES ASSUME NEW c \in Conversations, NEW p \in People, Access(p, thread[c])
                 PROVE  /\ LatestSequence(p, c) <= thread[c].last
                        /\ UnreadMessages(p, c, LatestSequence(p, c)) = {}
                        /\ \A n \in unread[c] : n.user = p => n.sequence <= LatestSequence(p, c)
      BY DEF ReadingClears
    <2>1. /\ LatestSequence(p, c) \in Nat
          /\ thread[c].latest <= LatestSequence(p, c) /\ LatestSequence(p, c) <= thread[c].last
      BY <1>1 DEF LatestSequence
    <2>2. \A m \in thread[c].messages :
             m.kind # "status" => m.sequence \in Nat /\ ~(m.sequence > LatestSequence(p, c))
      BY <1>1, <2>1
    <2>3. UnreadMessages(p, c, LatestSequence(p, c)) = {}
      BY <2>2 DEF UnreadMessages
    <2>4. \A n \in unread[c] : n.sequence <= LatestSequence(p, c)
      <3> SUFFICES ASSUME NEW n \in unread[c] PROVE n.sequence <= LatestSequence(p, c)
        OBVIOUS
      <3>1. PICK m \in thread[c].messages : m.sequence = n.sequence /\ m.kind = "text"
        BY <1>1 DEF Concerns
      <3> QED
        BY <1>1, <2>1, <3>1
    <2> QED
      BY <2>1, <2>3, <2>4
  <1>3. BadgesAgree
    <2> SUFFICES ASSUME NEW c \in Conversations, NEW n \in unread[c]
                 PROVE  \E m \in thread[c].messages :
                            /\ m.sequence = n.sequence
                            /\ \/ m \in UnreadMessages(n.user, c, read[c][n.user])
                               \/ m.acting = "inbox" /\ m.payload.mention /\ n.user \in Staff
      BY DEF BadgesAgree
    <2>1. PICK m \in thread[c].messages :
             m.sequence = n.sequence /\ Concerns(n.user, thread[c], m)
      BY <1>1
    <2>2. m.sequence > read[c][n.user]
      BY <1>1, <2>1
    <2> QED
      BY <2>1, <2>2 DEF Concerns, UnreadMessages
  <1> QED
    BY <1>2, <1>3

(* The counters of the inbox, of the notifications and of the              *)
(* conversations tell the same story, whatever was read where and in which *)
(* order (SetReadFor, notifications.Read, the summaries).                  *)
THEOREM CountersAgree == Spec => []UnreadIsHonest
  BY Invariance, UnreadFollows, PTL

(* The invariant implies BotAnswers.                                       *)
LEMMA BotsFollow == Inv => BotAnswers
  <1> SUFFICES ASSUME Inv, NEW c \in Conversations
               PROVE  LET t == thread[c] IN
                      /\ t.bot.active => t.latest = t.bot.message
                      /\ \A m \in t.messages : m.kind = "bot" =>
                            m.node = t.bot.config.start \/
                            \E q \in t.messages, o \in t.messages :
                                /\ q.sequence = m.sequence - 1 /\ q.kind = "text"
                                /\ o.kind = "bot" /\ q.payload.message \in {0, o.sequence}
                                /\ o.sequence < q.sequence
                                /\ m.node = t.bot.config.next[o.node][q.payload.choice]
                      /\ \A q \in t.messages : q.kind = "text" /\ q.payload.choice # None =>
                            \E m \in t.messages : m.sequence = q.sequence + 1 /\ m.kind = "bot"
    BY DEF BotAnswers
  <1>1. Led(thread[c]) /\ Answered(thread[c])
    BY DEF Inv, Kept
  <1> QED
    BY <1>1, Zenon DEF Led, Answered

(* Choices are open only under the newest visible message; a choice is     *)
(* answered by the reply it leads to in the configuration the inquiry      *)
(* started with (botTransition, appendBotReply).                           *)
THEOREM BotsAnswer == Spec => []BotAnswers
  BY Invariance, BotsFollow, PTL

-------------------------------------------------------------------------------
(* Conversations implement MessageThread                                   *)

(* A request that writes posts at the end of one thread.                   *)
LEMMA WritesPost ==
    ASSUME Inv, NEW c \in Conversations, NEW u, NEW heard, Writes(c, u, heard)
    PROVE  History!Post(c)
  <1> DEFINE posts == [d \in Conversations |-> thread[d].messages]
             later == [d \in Conversations |-> thread'[d].messages]
  <1>1. /\ thread'[c] = u /\ read' = read
        /\ \A d \in Conversations \ {c} : thread'[d] = thread[d]
    BY WritesFrame
  <1>2. /\ thread[c].last \in Nat
        /\ \A m \in thread[c].messages : m.sequence \in 1 .. thread[c].last
        /\ thread[c].kind = "none" => thread[c].messages = {} /\ thread[c].last = 0
    BY OldMessages
  <1>3. Kept(u) /\ (thread[c].kind = "none" \/ Grows(thread[c], u))
    BY DEF Writes
  <1>4. /\ u.last \in Nat /\ {m.sequence : m \in u.messages} = 1 .. u.last
        /\ \A m, o \in u.messages : m.sequence = o.sequence => m = o
        /\ \A m, o \in u.messages : m.author # None /\ m.author = o.author /\ m.key = o.key
                                    => m = o
    BY <1>3 DEF Kept, Counted, Keyed, Thread
  <1>5. \A m \in u.messages : m.sequence \in 1 .. u.last
    BY <1>4
  <1>6. thread[c].messages \subseteq u.messages
        /\ \A m \in u.messages \ thread[c].messages : m.sequence > thread[c].last
    <2>1. CASE thread[c].kind = "none"
      BY <1>2, <1>4, <1>5, <2>1
    <2>2. CASE Grows(thread[c], u)
      BY <2>2 DEF Grows
    <2> QED
      BY <1>3, <2>1, <2>2
  <1>7. posts[c] = thread[c].messages /\ later[c] = u.messages
    BY <1>1
  <1>8. later = [posts EXCEPT ![c] = later[c]]
    BY <1>1
  <1>9. ASSUME NEW m \in u.messages \ thread[c].messages
        PROVE  /\ \A old \in thread[c].messages : old.sequence < m.sequence
               /\ \A old \in u.messages \ {m} :
                      /\ old.sequence # m.sequence
                      /\ ~(m.author # None /\ old.author = m.author /\ old.key = m.key)
               /\ 1 .. m.sequence \subseteq {o.sequence : o \in u.messages}
    <2>1. m.sequence > thread[c].last /\ m.sequence \in 1 .. u.last
      BY <1>5, <1>6
    <2>2. \A old \in thread[c].messages : old.sequence < m.sequence
      BY <1>2, <2>1
    <2>3. \A old \in u.messages \ {m} :
             /\ old.sequence # m.sequence
             /\ ~(m.author # None /\ old.author = m.author /\ old.key = m.key)
      BY <1>4
    <2>4. 1 .. m.sequence \subseteq {o.sequence : o \in u.messages}
      BY <1>4, <2>1
    <2> QED
      BY <2>2, <2>3, <2>4
  <1> HIDE DEF posts, later
  <1>10. /\ later = [posts EXCEPT ![c] = later[c]]
         /\ posts[c] \subseteq later[c]
         /\ \A m \in later[c] \ posts[c] :
                /\ \A old \in posts[c] : old.sequence < m.sequence
                /\ \A old \in later[c] \ {m} :
                       /\ old.sequence # m.sequence
                       /\ ~(m.author # None /\ old.author = m.author /\ old.key = m.key)
                /\ 1 .. m.sequence \subseteq {o.sequence : o \in later[c]}
    BY <1>6, <1>7, <1>8, <1>9
  <1> QED
    BY <1>1, <1>10, Zenon DEF History!Post, History!Repeats, History!Sequences, posts, later

(* SetReadFor moves one reader forward, or nobody.                         *)
LEMMA SetReadReads ==
    ASSUME Inv, NEW p \in People, NEW c \in Conversations, NEW through \in 0 .. MaxMessages,
           SetRead(p, c, through)
    PROVE  [History!Next]_History!vars
  <1> DEFINE posts == [d \in Conversations |-> thread[d].messages]
             last  == Reached(p, c, through)
  <1>1. /\ through <= thread[c].last /\ read' = [read EXCEPT ![c][p] = last]
        /\ thread' = thread
    BY Zenon DEF SetRead
  <1>2. /\ read \in [Conversations -> [People -> Nat]] /\ read[c][p] \in Nat /\ through \in Nat
        /\ read[c][p] <= thread[c].last /\ thread[c].last \in Nat
    BY OldMessages DEF Inv, TypeOK, ReadIsAcknowledged
  <1>3. last \in Nat /\ last >= read[c][p] /\ last <= thread[c].last
    BY <1>1, <1>2 DEF Reached
  <1> HIDE DEF last
  <1>4. posts' = posts
    BY <1>1
  <1>5. CASE last = read[c][p]
    <2>1. read' = read
      BY <1>1, <1>2, <1>5
    <2> QED
      BY <1>4, <2>1 DEF History!vars
  <1>6. CASE last # read[c][p]
    <2>1. last > read[c][p] /\ last \in 1 .. thread[c].last
      BY ONLY <1>2, <1>3, <1>6
    <2>2. {m.sequence : m \in thread[c].messages} = 1 .. thread[c].last
      BY DEF Inv, Kept, Counted
    <2>3. last \in History!Sequences(c)
      BY <2>1, <2>2 DEF History!Sequences
    <2>4. History!Read(c, p)
      BY <1>1, <1>4, <2>1, <2>3 DEF History!Read
    <2> QED
      BY <2>4 DEF History!Next
  <1> QED
    BY <1>5, <1>6

(* A conversation keeps its messages in the order in which they were       *)
(* accepted, and a reader never goes back: each request posts at the end   *)
(* of one thread, moves one reader forward, or does neither.               *)
THEOREM ImplementsThread == Spec => HistoryKept
  <1>1. Init => History!Init
    <2> SUFFICES ASSUME Init PROVE History!Init
      OBVIOUS
    <2>1. /\ thread = [c \in Conversations |-> NoThread]
          /\ read = [c \in Conversations |-> [p \in People |-> 0]]
      BY Zenon DEF Init
    <2>2. [c \in Conversations |-> thread[c].messages] = [c \in Conversations |-> {}]
      BY <2>1 DEF NoThread
    <2> QED
      BY <2>1, <2>2, Zenon DEF History!Init
  <1>2. Inv /\ [Next]_vars => [History!Next]_History!vars
    <2> SUFFICES ASSUME Inv, [Next]_vars PROVE [History!Next]_History!vars
      OBVIOUS
    <2>1. ASSUME NEW c \in Conversations, NEW u, NEW heard, Writes(c, u, heard)
          PROVE  History!Next
      BY <2>1, WritesPost DEF History!Next
    <2>2. ASSUME NEW p \in Users, NEW peer \in Users, CreateDM(p, peer)
          PROVE  History!Next
      BY <2>1, <2>2, CreateDMWrites
    <2>3. ASSUME NEW p \in People, NEW inbox \in {"arcade", "team"}, NEW key \in Keys,
                 NEW payload \in Payloads, CreateInquiry(p, inbox, key, payload)
          PROVE  History!Next
      <3>1. PICK c \in Conversations : \E u, heard : Writes(c, u, heard)
        BY <2>3, CreateInquiryWrites
      <3> QED
        BY <2>1, <3>1
    <2>4. ASSUME NEW p \in People, NEW c \in Conversations, NEW key \in Keys,
                 NEW payload \in Payloads, NEW acting \in {"self", "inbox"},
                 NEW named \in BOOLEAN, Send(p, c, key, payload, acting, named)
          PROVE  History!Next
      <3> DEFINE s == Saved(thread[c], p, acting, key, payload)
                 u == Continued(thread[c], s, payload.choice)
                 heard == Notified(s, s.last)
      <3>1. Writes(c, u, heard)
        BY <2>4, SendWrites
      <3> HIDE DEF u, heard
      <3> QED
        BY <2>1, <3>1
    <2>5. ASSUME NEW p \in People, NEW c \in Conversations, NEW status \in Statuses,
                 SetStatus(p, c, status)
          PROVE  History!Next
      BY <2>1, <2>5, SetStatusWrites
    <2>6. ASSUME UNCHANGED <<thread, read>>
          PROVE  UNCHANGED History!vars
      BY <2>6 DEF History!vars
    <2>7. CASE UNCHANGED vars
      BY <2>6, <2>7 DEF vars
    <2>8. ASSUME NEW c \in Conversations, NEW n \in notices[c], Acknowledge(c, n)
          PROVE  UNCHANGED History!vars
      BY <2>6, <2>8, Zenon DEF Acknowledge
    <2>9. ASSUME NEW u \in Users, AcknowledgeAll(u)
          PROVE  UNCHANGED History!vars
      BY <2>6, <2>9, Zenon DEF AcknowledgeAll
    <2>10. CASE Settles
      BY <2>6, <2>10, SettlesFrame
    <2>11. CASE Next
      BY <2>2, <2>3, <2>4, <2>5, <2>8, <2>9, <2>10, <2>11, Steps, SetReadReads
    <2> QED
      BY <2>7, <2>11
  <1> QED
    BY <1>1, <1>2, Invariance, PTL DEF Spec, HistoryKept, History!Spec

-------------------------------------------------------------------------------
(* The limits                                                              *)

\* In the minute from since on.
Within(since, at) == since <= at /\ at <= since + Minute

\* What WithinLimits counts in the conversation t, as the conversation c: the
\* messages of p in the minute from since on, but the first of its inquiry.
Texts(p, c, t, since) ==
    {<<c, m.sequence>> : m \in {x \in t.messages :
        /\ x.author = p /\ x.kind = "text" /\ Within(since, x.at)
        /\ Requests(p, t) => \E o \in t.messages : o.author = p /\ o.sequence < x.sequence}}

AllTexts(p, since) == UNION {Texts(p, c, thread[c], since) : c \in Conversations}

Starts(p, since) ==
    {c \in Conversations : thread[c].creator = p /\ Within(since, thread[c].created)}

WithinLimit(p, since) ==
    /\ Cardinality(AllTexts(p, since)) <= SendLimit
    /\ \A c \in Conversations : Cardinality(Texts(p, c, thread[c], since)) <= ThreadLimit
    /\ Cardinality(Starts(p, since)) <= CreateLimit

Started  == {c \in Conversations : thread[c].kind # "none"}
Numbers  == {x \in Conversations \X Nat : 1 <= x[2] /\ x[2] <= thread[x[1]].last}

\* Finitely many conversations and messages, none from the future.
Timed ==
    /\ IsFiniteSet(Started) /\ IsFiniteSet(Numbers)
    /\ \A c \in Conversations :
           /\ thread[c].created <= now
           /\ \A m \in thread[c].messages : m.kind = "text" /\ m.author # None => m.at <= now

LimitInv == Timed /\ \A p \in People, since \in 0 .. now : WithinLimit(p, since)

(* One more than less than the limit is within the limit.                  *)
LEMMA OneMore ==
    ASSUME NEW S, IsFiniteSet(S), NEW T, NEW x, T \subseteq S \cup {x},
           NEW limit \in Nat, Cardinality(S) < limit
    PROVE  IsFiniteSet(T) /\ Cardinality(T) <= limit
  <1>1. /\ IsFiniteSet(S \cup {x}) /\ Cardinality(S) \in Nat
        /\ Cardinality(S \cup {x}) = IF x \in S THEN Cardinality(S) ELSE Cardinality(S) + 1
    BY FS_AddElement, FS_CardinalityType
  <1>2. Cardinality(S \cup {x}) <= limit
    BY <1>1
  <1>3. T \in SUBSET (S \cup {x})
    OBVIOUS
  <1>4. IsFiniteSet(T) /\ Cardinality(T) <= Cardinality(S \cup {x})
    BY <1>1, <1>3, FS_Subset
  <1>5. Cardinality(T) \in Nat /\ Cardinality(S \cup {x}) \in Nat
    BY <1>1, <1>4, FS_CardinalityType
  <1> QED
    BY <1>2, <1>4, <1>5

(* A set of no elements is within every limit.                             *)
LEMMA NoneIsWithin ==
    ASSUME NEW p \in People, NEW since, \A c \in Conversations : Texts(p, c, thread[c], since) = {},
           Starts(p, since) = {}
    PROVE  WithinLimit(p, since)
  <1>1. Cardinality({}) = 0
    BY FS_EmptySet
  <1>2. AllTexts(p, since) = {}
    <2> SUFFICES ASSUME NEW x \in AllTexts(p, since) PROVE FALSE
      OBVIOUS
    <2>1. PICK c \in Conversations : x \in Texts(p, c, thread[c], since)
      BY DEF AllTexts
    <2> QED
      BY <2>1
  <1>3. Cardinality(AllTexts(p, since)) = 0 /\ Cardinality(Starts(p, since)) = 0
    BY <1>1, <1>2
  <1>4. \A c \in Conversations : Cardinality(Texts(p, c, thread[c], since)) = 0
    BY <1>1
  <1> QED
    BY <1>3, <1>4 DEF WithinLimit

(* What rateLimit counts is finite.                                        *)
LEMMA CountsAreFinite ==
    ASSUME Inv, Timed, NEW p \in People
    PROVE  /\ IsFiniteSet(UNION {Lately(p, d) : d \in Conversations})
           /\ \A c \in Conversations : IsFiniteSet(Lately(p, c))
           /\ IsFiniteSet({c \in Conversations : /\ thread[c].creator = p
                                                 /\ thread[c].created + Minute >= now})
  <1>1. \A c \in Conversations : Lately(p, c) \subseteq Numbers
    <2> SUFFICES ASSUME NEW c \in Conversations, NEW m \in thread[c].messages
                 PROVE  <<c, m.sequence>> \in Numbers
      BY DEF Lately
    <2>1. m.sequence \in 1 .. thread[c].last /\ thread[c].last \in Nat
      BY OldMessages
    <2>2. m.sequence \in Nat /\ 1 <= m.sequence /\ m.sequence <= thread[c].last
      BY <2>1
    <2> QED
      BY <2>2 DEF Numbers
  <1>2. UNION {Lately(p, d) : d \in Conversations} \subseteq Numbers
    BY <1>1
  <1>3. {c \in Conversations : thread[c].creator = p /\ thread[c].created + Minute >= now}
        \subseteq Started
    <2> SUFFICES ASSUME NEW c \in Conversations, thread[c].creator = p
                 PROVE  thread[c].kind # "none"
      BY DEF Started
    <2>1. NoThread.creator = None /\ None # p
      BY DEF NoThread
    <2> QED
      BY <2>1, OldMessages
  <1> QED
    BY <1>1, <1>2, <1>3, FS_Subset DEF Timed

(* WithinLimits is what LimitInv says of the limits.                       *)
LEMMA LimitsFollow == LimitInv => WithinLimits
  BY Zenon DEF LimitInv, WithinLimit, WithinLimits, AllTexts, Texts, Starts, Within

(* What a window that has not ended counts, rateLimit counts.              *)
LEMMA CountedLately ==
    ASSUME Inv, NEW p \in People, NEW since \in 0 .. now, since + Minute >= now
    PROVE  /\ \A c \in Conversations : Texts(p, c, thread[c], since) \subseteq Lately(p, c)
           /\ Starts(p, since) \subseteq {c \in Conversations :
                  thread[c].creator = p /\ thread[c].created + Minute >= now}
  <1>1. now \in Nat /\ since \in Nat
    BY DEF Inv, TypeOK
  <1>2. \A c \in Conversations : thread[c].created \in Nat
                                 /\ \A m \in thread[c].messages : m.at \in Nat
    <2> SUFFICES ASSUME NEW c \in Conversations
                 PROVE  thread[c].created \in Nat /\ \A m \in thread[c].messages : m.at \in Nat
      OBVIOUS
    <2>1. thread[c] \in Thread
      BY OldMessages
    <2> QED
      BY <2>1 DEF Thread, Message
  <1>3. \A at \in Nat : since <= at => at + Minute >= now
    BY <1>1
  <1>4. \A c \in Conversations : Texts(p, c, thread[c], since) \subseteq Lately(p, c)
    <2> SUFFICES ASSUME NEW c \in Conversations, NEW m \in thread[c].messages,
                        m.author = p, since <= m.at
                 PROVE  <<c, m.sequence>> \in Lately(p, c)
      BY DEF Texts, Within
    <2>1. m.at + Minute >= now
      BY <1>2, <1>3
    <2> QED
      BY <2>1 DEF Lately
  <1>5. Starts(p, since) \subseteq {c \in Conversations :
            thread[c].creator = p /\ thread[c].created + Minute >= now}
    BY <1>2, <1>3 DEF Starts, Within
  <1> QED
    BY <1>4, <1>5

\* What p writes into c adds at most one message to what a window counts, and
\* only if rateLimit allows it.
TextsKept(p, c, u, since) == Texts(p, c, u, since) = Texts(p, c, thread[c], since)
TextsGrow(p, c, u, since) ==
    /\ MaySend(p, c) /\ since + Minute >= now
    /\ \E x : Texts(p, c, u, since) \subseteq Texts(p, c, thread[c], since) \cup {x}

(* A request that writes keeps the finiteness and the clock of messages.   *)
LEMMA WritesTimed ==
    ASSUME Inv, Timed, NEW c \in Conversations, NEW u, NEW heard, Writes(c, u, heard),
           u.created <= now,
           \A m \in u.messages : m.kind = "text" /\ m.author # None => m.at <= now
    PROVE  Timed'
  <1>1. /\ thread'[c] = u
        /\ \A d \in Conversations \ {c} : thread'[d] = thread[d]
    BY WritesFrame
  <1>2. now' = now
    BY DEF Writes, world
  <1>3. u.last \in Nat
    BY DEF Writes, Kept, Thread
  <1>4. IsFiniteSet(Started')
    <2>1. IsFiniteSet(Started \cup {c})
      BY FS_AddElement DEF Timed
    <2>2. Started' \in SUBSET (Started \cup {c})
      BY <1>1 DEF Started
    <2> QED
      BY <2>1, <2>2, FS_Subset
  <1>5. IsFiniteSet(Numbers')
    <2>1. IsFiniteSet({c} \X (1 .. u.last))
      <3>1. IsFiniteSet({c})
        BY FS_Singleton
      <3>2. IsFiniteSet(1 .. u.last)
        BY <1>3, FS_Interval
      <3> QED
        BY <3>1, <3>2, FS_Product
    <2>2. IsFiniteSet(Numbers \cup ({c} \X (1 .. u.last)))
      BY <2>1, FS_Union DEF Timed
    <2>3. Numbers' \subseteq Numbers \cup ({c} \X (1 .. u.last))
      <3> SUFFICES ASSUME NEW d \in Conversations, NEW n \in Nat, 1 <= n, n <= thread'[d].last
                   PROVE  <<d, n>> \in Numbers \cup ({c} \X (1 .. u.last))
        BY DEF Numbers
      <3>1. CASE d = c
        BY <1>1, <1>3, <3>1
      <3>2. CASE d # c
        BY <1>1, <3>2 DEF Numbers
      <3> QED
        BY <3>1, <3>2
    <2> QED
      BY <2>2, <2>3, FS_Subset
  <1>6. \A d \in Conversations :
           /\ thread'[d].created <= now
           /\ \A m \in thread'[d].messages : m.kind = "text" /\ m.author # None => m.at <= now
    BY <1>1 DEF Timed
  <1> QED
    BY <1>2, <1>4, <1>5, <1>6 DEF Timed

(* A request that writes stays within the limits if it asked rateLimit.    *)
LEMMA WritesWithin ==
    ASSUME Inv, LimitInv, NEW c \in Conversations, NEW u, NEW heard, Writes(c, u, heard),
           NEW p \in People, NEW since \in 0 .. now,
           TextsKept(p, c, u, since) \/ TextsGrow(p, c, u, since),
           \/ u.creator = thread[c].creator /\ u.created = thread[c].created
           \/ thread[c].kind = "none" /\ u.created = now /\ MayCreate(u.creator)
    PROVE  WithinLimit(p, since)'
  <1>1. /\ thread'[c] = u
        /\ \A d \in Conversations \ {c} : thread'[d] = thread[d]
    BY WritesFrame
  <1>2. now \in Nat /\ since \in Nat
    BY DEF Inv, TypeOK
  <1>3. WithinLimit(p, since) /\ Timed
    BY DEF LimitInv
  <1>4. /\ Texts(p, c, thread'[c], since) = Texts(p, c, u, since)
        /\ \A d \in Conversations \ {c} :
              Texts(p, d, thread'[d], since) = Texts(p, d, thread[d], since)
    BY <1>1
  <1>5. /\ Cardinality(AllTexts(p, since)') <= SendLimit
        /\ \A d \in Conversations : Cardinality(Texts(p, d, thread'[d], since)) <= ThreadLimit
    <2>1. CASE TextsKept(p, c, u, since)
      <3>1. \A d \in Conversations : Texts(p, d, thread'[d], since) = Texts(p, d, thread[d], since)
        BY <1>4, <2>1 DEF TextsKept
      <3>2. AllTexts(p, since)' = AllTexts(p, since)
        BY <3>1 DEF AllTexts
      <3> QED
        BY <1>3, <3>1, <3>2 DEF WithinLimit
    <2>2. CASE TextsGrow(p, c, u, since)
      <3>1. PICK x : Texts(p, c, u, since) \subseteq Texts(p, c, thread[c], since) \cup {x}
        BY <2>2 DEF TextsGrow
      <3>2. \A d \in Conversations : Texts(p, d, thread[d], since) \subseteq Lately(p, d)
        BY <2>2, CountedLately DEF TextsGrow
      <3>3. \A d \in Conversations :
               Texts(p, d, thread'[d], since) \subseteq Lately(p, d) \cup {x}
        BY <1>4, <3>1, <3>2
      <3>4. AllTexts(p, since)' \subseteq (UNION {Lately(p, d) : d \in Conversations}) \cup {x}
        BY <3>3 DEF AllTexts
      <3>5. /\ IsFiniteSet(UNION {Lately(p, d) : d \in Conversations})
            /\ IsFiniteSet(Lately(p, c))
            /\ Cardinality(UNION {Lately(p, d) : d \in Conversations}) < SendLimit
            /\ Cardinality(Lately(p, c)) < ThreadLimit
        BY <1>3, <2>2, CountsAreFinite DEF TextsGrow, MaySend
      <3>6. Cardinality(AllTexts(p, since)') <= SendLimit
        BY <3>4, <3>5, OneMore
      <3>7. Cardinality(Texts(p, c, thread'[c], since)) <= ThreadLimit
        BY <3>3, <3>5, OneMore
      <3>8. \A d \in Conversations \ {c} :
               Cardinality(Texts(p, d, thread'[d], since)) <= ThreadLimit
        BY <1>3, <1>4 DEF WithinLimit
      <3> QED
        BY <3>6, <3>7, <3>8
    <2> QED
      BY <2>1, <2>2
  <1>6. Cardinality(Starts(p, since)') <= CreateLimit
    <2>1. ASSUME \/ u.creator = thread[c].creator /\ u.created = thread[c].created
                 \/ u.creator # p /\ thread[c].creator # p
                 \/ ~Within(since, u.created) /\ thread[c].creator # p
          PROVE  Cardinality(Starts(p, since)') <= CreateLimit
      <3>1. Starts(p, since)' = Starts(p, since)
        BY <1>1, <2>1 DEF Starts
      <3> QED
        BY <1>3, <3>1 DEF WithinLimit
    <2>2. ASSUME u.creator = p, u.created = now, MayCreate(p), Within(since, now)
          PROVE  Cardinality(Starts(p, since)') <= CreateLimit
      <3> DEFINE S == {d \in Conversations : /\ thread[d].creator = p
                                             /\ thread[d].created + Minute >= now}
      <3>1. since + Minute >= now
        BY <1>2, <2>2 DEF Within
      <3>2. Starts(p, since) \subseteq S
        BY <3>1, CountedLately
      <3>3. IsFiniteSet(S) /\ Cardinality(S) < CreateLimit
        BY <1>3, <2>2, CountsAreFinite DEF MayCreate
      <3> HIDE DEF S
      <3>4. Starts(p, since)' \subseteq S \cup {c}
        BY <1>1, <3>2 DEF Starts
      <3> QED
        BY <3>3, <3>4, OneMore
    <2>3. thread[c].kind = "none" => thread[c].creator # p
      <3>1. NoThread.creator = None /\ None # p
        BY DEF NoThread
      <3> QED
        BY <3>1, OldMessages
    <2> QED
      BY <2>1, <2>2, <2>3
  <1> QED
    BY <1>5, <1>6 DEF WithinLimit

\* The message x of t counts.
Counts(p, t, x, since) ==
    /\ x.author = p /\ x.kind = "text" /\ Within(since, x.at)
    /\ Requests(p, t) => \E o \in t.messages : o.author = p /\ o.sequence < x.sequence

(* Later messages do not change whether an earlier one counts.             *)
LEMMA GrownTexts ==
    ASSUME Inv, NEW c \in Conversations, NEW u, Grows(thread[c], u), u.messages \subseteq Message,
           NEW p \in People, NEW since
    PROVE  /\ (\A m \in u.messages \ thread[c].messages :
                  ~(m.kind = "text" /\ m.author = p /\ Within(since, m.at)))
              => TextsKept(p, c, u, since)
           /\ \A m : (\A o \in u.messages \ thread[c].messages : o.author = p => o = m) =>
                  Texts(p, c, u, since) \subseteq
                      Texts(p, c, thread[c], since) \cup {<<c, m.sequence>>}
  <1> DEFINE t == thread[c]
  <1>1. /\ t.last \in Nat /\ \A m \in t.messages : m.sequence \in 1 .. t.last
    BY OldMessages
  <1>2. /\ t.messages \subseteq u.messages /\ \A m \in u.messages \ t.messages : m.sequence > t.last
        /\ Requests(p, t) <=> Requests(p, u)
    BY DEF Grows, Requests
  <1>3. \A m \in u.messages : m.sequence \in Nat
    BY DEF Message
  <1> HIDE DEF t
  <1>4. \A x \in t.messages : Counts(p, u, x, since) <=> Counts(p, t, x, since)
    <2> SUFFICES ASSUME NEW x \in t.messages
                 PROVE  (\E o \in u.messages : o.author = p /\ o.sequence < x.sequence)
                        <=> (\E o \in t.messages : o.author = p /\ o.sequence < x.sequence)
      BY <1>2 DEF Counts
    <2>1. \A o \in u.messages : o.sequence < x.sequence => o \in t.messages
      BY <1>1, <1>2, <1>3
    <2> QED
      BY <1>2, <2>1
  <1>5. /\ Texts(p, c, u, since) = {<<c, m.sequence>> : m \in {x \in u.messages : Counts(p, u, x, since)}}
        /\ Texts(p, c, t, since) = {<<c, m.sequence>> : m \in {x \in t.messages : Counts(p, t, x, since)}}
    BY DEF Texts, Counts
  <1>6. ASSUME \A m \in u.messages \ t.messages :
                   ~(m.kind = "text" /\ m.author = p /\ Within(since, m.at))
        PROVE  Texts(p, c, u, since) = Texts(p, c, t, since)
    <2>1. {x \in u.messages : Counts(p, u, x, since)} = {x \in t.messages : Counts(p, t, x, since)}
      <3>1. \A x \in u.messages : Counts(p, u, x, since) => x \in t.messages
        BY <1>6 DEF Counts
      <3> QED
        BY <1>2, <1>4, <3>1
    <2> QED
      BY <1>5, <2>1
  <1>7. ASSUME NEW m, \A o \in u.messages \ t.messages : o.author = p => o = m
        PROVE  Texts(p, c, u, since) \subseteq Texts(p, c, t, since) \cup {<<c, m.sequence>>}
    <2>1. \A x \in u.messages : Counts(p, u, x, since) =>
             x = m \/ (x \in t.messages /\ Counts(p, t, x, since))
      BY <1>4, <1>7 DEF Counts
    <2> QED
      BY <1>5, <2>1
  <1> QED
    BY <1>6, <1>7 DEF TextsKept, t

(* A request that writes keeps the limits.                                 *)
LEMMA WritesLimits ==
    ASSUME Inv, LimitInv, NEW c \in Conversations, NEW u, NEW heard, Writes(c, u, heard),
           \/ u.creator = thread[c].creator /\ u.created = thread[c].created
           \/ thread[c].kind = "none" /\ u.created = now /\ MayCreate(u.creator),
           \A m \in u.messages : m.kind = "text" /\ m.author # None => m.at <= now,
           \A p \in People, since \in 0 .. now :
               TextsKept(p, c, u, since) \/ TextsGrow(p, c, u, since)
    PROVE  LimitInv'
  <1>1. now' = now /\ now \in Nat
    BY DEF Writes, world, Inv, TypeOK
  <1>2. u.created <= now
    <2>1. thread[c].created <= now
      BY DEF LimitInv, Timed
    <2> QED
      BY <1>1, <2>1
  <1>3. Timed'
    BY <1>2, WritesTimed DEF LimitInv
  <1>4. ASSUME NEW p \in People, NEW since \in 0 .. now
        PROVE  WithinLimit(p, since)'
    <2>1. TextsKept(p, c, u, since) \/ TextsGrow(p, c, u, since)
      OBVIOUS
    <2> QED
      BY <2>1, WritesWithin
  <1> QED
    BY <1>1, <1>3, <1>4 DEF LimitInv

(* A DM is counted as a conversation its creator starts.                   *)
LEMMA CreateDMLimits ==
    ASSUME Inv, LimitInv, NEW p \in Users, NEW peer \in Users, CreateDM(p, peer)
    PROVE  LimitInv'
  <1> DEFINE u == [NoThread EXCEPT !.kind = "dm", !.creator = p,
                                   !.people = {p, peer}, !.created = now]
  <1>1. PICK c \in Conversations : Writes(c, u, {}) /\ thread[c].kind = "none" /\ MayCreate(p)
    BY CreateDMWrites
  <1>2. u.creator = p /\ u.created = now /\ u.messages = {}
    BY DEF NoThread
  <1> HIDE DEF u
  <1>3. thread[c].messages = {}
    BY <1>1, OldMessages
  <1>4. \A q \in People, since \in 0 .. now : TextsKept(q, c, u, since)
    BY <1>2, <1>3 DEF TextsKept, Texts
  <1> QED
    BY <1>1, <1>2, <1>4, WritesLimits

(* An inquiry is counted as a conversation, its message is not.            *)
LEMMA CreateInquiryLimits ==
    ASSUME Inv, LimitInv, NEW p \in People, NEW inbox \in {"arcade", "team"}, NEW key \in Keys,
           NEW payload \in Payloads, CreateInquiry(p, inbox, key, payload)
    PROVE  LimitInv'
  <1>1. PICK c \in Conversations : \E u, heard :
               /\ Writes(c, u, heard) /\ thread[c].kind = "none" /\ MayCreate(p)
               /\ u.kind = "inquiry" /\ u.creator = p /\ u.created = now
               /\ \A m \in u.messages : m.author \in {None, p}
               /\ \A m, o \in u.messages : m.author # None /\ o.author # None => m = o
               /\ \A m \in u.messages : m.author # None => m.at = now
    BY CreateInquiryWrites
  <1>2. PICK u, heard :
               /\ Writes(c, u, heard) /\ thread[c].kind = "none" /\ MayCreate(p)
               /\ u.kind = "inquiry" /\ u.creator = p /\ u.created = now
               /\ \A m \in u.messages : m.author \in {None, p}
               /\ \A m, o \in u.messages : m.author # None /\ o.author # None => m = o
               /\ \A m \in u.messages : m.author # None => m.at = now
    BY <1>1
  <1>3. thread[c].messages = {} /\ now \in Nat
    BY <1>2, OldMessages DEF Inv, TypeOK
  <1>4. ASSUME NEW q \in People, NEW since \in 0 .. now
        PROVE  TextsKept(q, c, u, since)
    <2>1. \A m \in u.messages : m.sequence \in Nat
      BY <1>2 DEF Writes, Kept, Thread, Message
    <2>2. q # None
      OBVIOUS
    <2>3. ASSUME NEW m \in u.messages, m.author = q
          PROVE  Requests(q, u) /\ ~\E o \in u.messages : o.author = q /\ o.sequence < m.sequence
      <3>1. q = p
        BY <1>2, <2>2, <2>3
      <3>2. \A o \in u.messages : o.author = q => o = m
        BY <1>2, <2>2, <2>3
      <3> QED
        BY <1>2, <2>1, <3>1, <3>2 DEF Requests
    <2>4. {x \in u.messages : Counts(q, u, x, since)} = {}
      BY <2>3 DEF Counts
    <2>5. Texts(q, c, u, since) = {<<c, m.sequence>> : m \in {x \in u.messages : Counts(q, u, x, since)}}
      BY DEF Texts, Counts
    <2>6. Texts(q, c, thread[c], since) = {}
      BY <1>3 DEF Texts
    <2> QED
      BY <2>4, <2>5, <2>6 DEF TextsKept
  <1>5. \A m \in u.messages : m.kind = "text" /\ m.author # None => m.at <= now
    BY <1>2, <1>3
  <1> QED
    BY <1>2, <1>4, <1>5, WritesLimits

(* A status entry is not counted.                                          *)
LEMMA SetStatusLimits ==
    ASSUME Inv, LimitInv, NEW p \in People, NEW c \in Conversations, NEW status \in Statuses,
           SetStatus(p, c, status)
    PROVE  LimitInv'
  <1> DEFINE u == StatusChanged(thread[c], p, status)
  <1>1. /\ Writes(c, u, {}) /\ Grows(thread[c], u)
        /\ \A o \in u.messages \ thread[c].messages : o.kind = "status"
    BY SetStatusWrites
  <1> HIDE DEF u
  <1>2. u.messages \subseteq Message
    BY <1>1 DEF Writes, Kept, Thread
  <1>3. \A q \in People, since \in 0 .. now : TextsKept(q, c, u, since)
    BY <1>1, <1>2, GrownTexts
  <1>4. \A m \in u.messages : m.kind = "text" /\ m.author # None => m.at <= now
    BY <1>1 DEF LimitInv, Timed
  <1>5. u.creator = thread[c].creator /\ u.created = thread[c].created
    BY <1>1 DEF Grows
  <1> QED
    BY <1>1, <1>3, <1>4, <1>5, WritesLimits

(* A message is counted for its author only.                               *)
LEMMA SendLimits ==
    ASSUME Inv, LimitInv, NEW p \in People, NEW c \in Conversations, NEW key \in Keys,
           NEW payload \in Payloads, NEW acting \in {"self", "inbox"}, NEW named \in BOOLEAN,
           Send(p, c, key, payload, acting, named)
    PROVE  LimitInv'
  <1> DEFINE s == Saved(thread[c], p, acting, key, payload)
             u == Continued(thread[c], s, payload.choice)
             m == TextMessage(thread[c], p, acting, key, payload)
             heard == Notified(s, s.last)
  <1>1. /\ Writes(c, u, heard) /\ Grows(thread[c], u) /\ MaySend(p, c)
        /\ \A o \in u.messages \ thread[c].messages : o = m \/ (o.kind = "bot" /\ o.author = None)
    BY SendWrites
  <1>2. m.at = now /\ m.author = p
    BY DEF TextMessage
  <1> HIDE DEF u, m, heard
  <1>3. u.messages \subseteq Message /\ now \in Nat
    BY <1>1 DEF Writes, Kept, Thread, Inv, TypeOK
  <1>4. ASSUME NEW q \in People, NEW since \in 0 .. now
        PROVE  TextsKept(q, c, u, since) \/ TextsGrow(q, c, u, since)
    <2>1. CASE q # p \/ ~Within(since, now)
      <3>1. \A o \in u.messages \ thread[c].messages :
               ~(o.kind = "text" /\ o.author = q /\ Within(since, o.at))
        BY <1>1, <1>2, <2>1
      <3> QED
        BY <1>1, <1>3, <3>1, GrownTexts
    <2>2. CASE q = p /\ Within(since, now)
      <3>1. \A o \in u.messages \ thread[c].messages : o.author = q => o = m
        BY <1>1, <2>2
      <3>2. Texts(q, c, u, since) \subseteq Texts(q, c, thread[c], since) \cup {<<c, m.sequence>>}
        BY <1>1, <1>3, <3>1, GrownTexts
      <3>3. since + Minute >= now
        BY <1>3, <2>2 DEF Within
      <3> QED
        BY <1>1, <2>2, <3>2, <3>3 DEF TextsGrow
    <2> QED
      BY <2>1, <2>2
  <1>5. \A o \in u.messages : o.kind = "text" /\ o.author # None => o.at <= now
    <2>1. \A o \in thread[c].messages : o.kind = "text" /\ o.author # None => o.at <= now
      BY DEF LimitInv, Timed
    <2> QED
      BY <1>1, <1>2, <1>3, <2>1
  <1>6. u.creator = thread[c].creator /\ u.created = thread[c].created
    BY <1>1 DEF Grows
  <1> QED
    BY <1>1, <1>4, <1>5, <1>6, WritesLimits

(* A window that begins after everything counts nothing.                   *)
LEMMA LaterLimits ==
    ASSUME Inv, LimitInv, thread' = thread, now' = now \/ now' = now + 1
    PROVE  LimitInv'
  <1>1. now \in Nat
    BY DEF Inv, TypeOK
  <1>2. ASSUME NEW c \in Conversations
        PROVE  /\ thread[c].created \in Nat /\ thread[c].created <= now
               /\ \A m \in thread[c].messages :
                     m.at \in Nat /\ (m.kind = "text" /\ m.author # None => m.at <= now)
    <2>1. thread[c] \in Thread
      BY OldMessages
    <2> QED
      BY <2>1 DEF LimitInv, Timed, Thread, Message
  <1>3. Timed'
    <2>1. \A c \in Conversations :
             /\ thread[c].created <= now'
             /\ \A m \in thread[c].messages : m.kind = "text" /\ m.author # None => m.at <= now'
      BY <1>1, <1>2
    <2>2. IsFiniteSet(Started') /\ IsFiniteSet(Numbers')
      BY DEF LimitInv, Timed, Started, Numbers
    <2> QED
      BY <2>1, <2>2 DEF Timed
  <1>4. ASSUME NEW p \in People, NEW since, WithinLimit(p, since)
        PROVE  WithinLimit(p, since)'
    <2>1. AllTexts(p, since)' = AllTexts(p, since) /\ Starts(p, since)' = Starts(p, since)
      BY DEF AllTexts, Starts
    <2> QED
      BY <1>4, <2>1 DEF WithinLimit
  <1>5. ASSUME NEW p \in People, NEW since \in 0 .. now
        PROVE  WithinLimit(p, since)'
    BY <1>4 DEF LimitInv
  <1>6. ASSUME NEW p \in People, NEW since \in Nat, since > now
        PROVE  WithinLimit(p, since)'
    <2>1. \A c \in Conversations : Texts(p, c, thread[c], since) = {}
      <3>1. ASSUME NEW c \in Conversations, NEW x \in thread[c].messages,
                   x.kind = "text", x.author = p
            PROVE  ~Within(since, x.at)
        <4>1. x.at \in Nat /\ x.at <= now
          BY <1>2, <3>1
        <4> QED
          BY <1>1, <1>6, <4>1 DEF Within
      <3> QED
        BY <3>1 DEF Texts
    <2>2. \A c \in Conversations : ~Within(since, thread[c].created)
      BY <1>1, <1>2, <1>6 DEF Within
    <2>3. Starts(p, since) = {}
      BY <2>2 DEF Starts
    <2>4. WithinLimit(p, since)
      BY <2>1, <2>3, NoneIsWithin
    <2> QED
      BY <1>4, <2>4
  <1>7. ASSUME NEW p \in People, NEW since \in 0 .. now'
        PROVE  WithinLimit(p, since)'
    <2>1. since \in 0 .. now \/ (since \in Nat /\ since > now)
      BY <1>1
    <2> QED
      BY <1>5, <1>6, <2>1
  <1> QED
    BY <1>3, <1>7 DEF LimitInv

(* Nobody has sent or started anything.                                    *)
LEMMA InitLimits == Init => LimitInv
  <1> SUFFICES ASSUME Init PROVE LimitInv
    OBVIOUS
  <1>1. thread = [c \in Conversations |-> NoThread] /\ now = 0
    BY Zenon DEF Init
  <1>2. \A c \in Conversations : /\ thread[c].kind = "none" /\ thread[c].messages = {}
                                 /\ thread[c].creator = None /\ thread[c].created = 0
                                 /\ thread[c].last = 0
    BY <1>1 DEF NoThread
  <1>3. Timed
    <2>1. Started = {} /\ Numbers = {}
      BY <1>2 DEF Started, Numbers
    <2> QED
      BY <1>1, <1>2, <2>1, FS_EmptySet DEF Timed
  <1>4. ASSUME NEW p \in People, NEW since \in 0 .. now
        PROVE  WithinLimit(p, since)
    <2>1. \A c \in Conversations : Texts(p, c, thread[c], since) = {}
      BY <1>2 DEF Texts
    <2>2. p # None
      OBVIOUS
    <2>3. Starts(p, since) = {}
      BY <1>2, <2>2 DEF Starts
    <2> QED
      BY <2>1, <2>3, NoneIsWithin
  <1> QED
    BY <1>3, <1>4 DEF LimitInv

(* The limits are inductive.                                               *)
LEMMA NextLimits == Inv /\ LimitInv /\ [Next]_vars => LimitInv'
  <1> SUFFICES ASSUME Inv, LimitInv, [Next]_vars PROVE LimitInv'
    OBVIOUS
  <1>1. ASSUME NEW p \in People, NEW c \in Conversations, NEW through \in 0 .. MaxMessages,
               SetRead(p, c, through)
        PROVE  LimitInv'
    <2>1. thread' = thread /\ now' = now
      BY <1>1, Zenon DEF SetRead, world
    <2> QED
      BY <2>1, LaterLimits
  <1>2. ASSUME NEW c \in Conversations, NEW n \in notices[c], Acknowledge(c, n)
        PROVE  LimitInv'
    <2>1. thread' = thread /\ now' = now
      BY <1>2, Zenon DEF Acknowledge, world
    <2> QED
      BY <2>1, LaterLimits
  <1>3. ASSUME NEW u \in Users, AcknowledgeAll(u)
        PROVE  LimitInv'
    <2>1. thread' = thread /\ now' = now
      BY <1>3, Zenon DEF AcknowledgeAll, world
    <2> QED
      BY <2>1, LaterLimits
  <1>4. CASE Settles
    <2>1. thread' = thread
      BY <1>4, SettlesFrame
    <2>2. now' = now \/ now' = now + 1
      <3>1. CASE Tick
        BY <3>1 DEF Tick
      <3>2. CASE ~Tick
        BY <1>4, <3>2, Zenon
           DEF Settles, Change, Preference, Block, Unblock, SetArcadeBot,
               UpdateInquirySettings, ChangeOwner, ChangeBan
      <3> QED
        BY <3>1, <3>2
    <2> QED
      BY <2>1, <2>2, LaterLimits
  <1>5. CASE UNCHANGED vars
    BY <1>5, LaterLimits DEF vars, world
  <1>6. CASE Next
    BY <1>1, <1>2, <1>3, <1>4, <1>6, Steps, CreateDMLimits, CreateInquiryLimits,
       SendLimits, SetStatusLimits
  <1> QED
    BY <1>5, <1>6

(* In no minute, wherever it begins, does somebody write or start more     *)
(* than rateLimit allows, although it counts what it finds when it is      *)
(* asked and others write in between.                                      *)
THEOREM LimitsHold == Spec => []WithinLimits
  <1>1. Spec => []LimitInv
    BY Invariance, InitLimits, NextLimits, PTL DEF Spec
  <1> QED
    BY <1>1, LimitsFollow, PTL
===============================================================================
