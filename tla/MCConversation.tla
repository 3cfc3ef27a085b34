--------------------------- MODULE MCConversation -----------------------------
(* Small instances of Conversation: a behaviour is about direct messages,   *)
(* the work on an inquiry, automatic replies, or how inquiries begin.       *)
EXTENDS Conversation, TLC

CONSTANTS r, s, g, body, hello, more, done, pick

\* hello offers pick, which leads to more, which offers pick, which leads to done.
Long  == [start |-> hello,
          next  |-> [n \in Nodes |-> [ch \in Choices |->
                        CASE n = hello -> more [] n = more -> done [] OTHER -> None]]]
\* Another configuration of the same replies.
Short == [start |-> hello,
          next  |-> [n \in Nodes |-> [ch \in Choices |-> IF n = hello THEN done ELSE None]]]
\* One reply without a choice.
Alone == [start |-> hello, next |-> [n \in Nodes |-> [ch \in Choices |-> None]]]

MCBots == {Long, Short, Alone}

Plain     == [NoPayload EXCEPT !.body = body]
Mention   == [Plain EXCEPT !.mention = TRUE]
ToArcade  == [Plain EXCEPT !.context = "arcade"]
Answers   == {[Plain EXCEPT !.message = n, !.choice = ch] :
                 n \in 1 .. MaxMessages, ch \in Choices \cup {Restart}}
Entries   == {[Plain EXCEPT !.context = "verify"]} \cup
             {[ToArcade EXCEPT !.revision = config, !.choice = ch] :
                 config \in {None, Long}, ch \in Choices \cup {None}}

MCPayloads == {Plain, Mention} \cup Answers \cup Entries

Symmetry == Permutations(Conversations) \cup Permutations(Keys)

-------------------------------------------------------------------------------
VARIABLE focus

Fresh == \A c \in Conversations : thread[c].kind = "none"

Ask(people, inboxes, payloads) ==
    \E p \in people, inbox \in inboxes, key \in Keys, payload \in payloads :
        CreateInquiry(p, inbox, key, payload)

Write(people, payloads) ==
    \E p \in people, c \in Conversations, key \in Keys, payload \in payloads,
       acting \in {"self", "inbox"}, named \in BOOLEAN : Send(p, c, key, payload, acting, named)

Reading ==
    \/ \E p \in Users, c \in Conversations, through \in 0 .. 3 : SetRead(p, c, through)
    \/ \E c \in Conversations : \E n \in notices[c] : Acknowledge(c, n)
    \/ \E u \in Users : AcknowledgeAll(u)

Direct ==
    \/ \E p, peer \in Users : CreateDM(p, peer)
    \/ Write(Users, {Plain}) \/ Reading
    \/ \E u \in Users, everyone \in BOOLEAN : Preference(u, everyone)
    \/ \E u, other \in Users : Block(u, other) \/ Unblock(u, other)
    \/ \E u \in Users : ChangeBan(u)

Inquiry ==
    \/ Fresh /\ Ask({r}, {"arcade", "team"}, {Plain, Mention})
    \/ Write(Users, {Plain, Mention}) \/ Reading
    \/ \E p \in Users, c \in Conversations, status \in Statuses : SetStatus(p, c, status)
    \/ \E u \in Users : ChangeOwner(u)

Replies ==
    \/ Fresh /\ Ask({r}, {"arcade", "team"}, {Plain} \cup Entries)
    \/ Write(Users, {Plain} \cup Answers)
    \/ \E p \in Users, c \in Conversations, status \in Statuses : SetStatus(p, c, status)
    \/ \E u \in Users, config \in Bots \cup {None} : SetArcadeBot(u, config)

Entry ==
    \/ Ask({r, g}, {"arcade", "team"}, {Plain, ToArcade})
    \/ Write({r, g}, {Plain})
    \/ Fresh /\ \E intake \in {"internal", "external"}, login \in BOOLEAN :
                    UpdateInquirySettings(r, intake, login)
    \/ Tick

MCInit ==
    /\ Init /\ focus \in {"dm", "inquiry", "bots", "entry"}
    /\ focus = "dm" => owners = {}

MCNext ==
    /\ UNCHANGED focus
    /\ CASE focus = "dm"      -> Direct
         [] focus = "inquiry" -> Inquiry
         [] focus = "bots"    -> Replies
         [] focus = "entry"   -> Entry
    /\ focus # "bots" => \A c \in Conversations : thread'[c].last <= 3

MCSpec == MCInit /\ [][MCNext]_<<vars, focus>>
===============================================================================
