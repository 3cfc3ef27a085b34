------------------------------ MODULE Accounts ------------------------------
(***************************************************************************)
(* Accounts (handlers/user): registration, the one-time sign-up, bans,     *)
(* withdrawal with its re-registration block, staff-made accounts and the  *)
(* credentials of official ones.                                           *)
(*                                                                         *)
(* A request is authenticated when it enters, and holds the record it was  *)
(* authenticated with; its handler runs later, when the account may have   *)
(* changed.  Saving a ban reads the address first and writes afterwards.   *)
(***************************************************************************)
EXTENDS Integers, FiniteSets

CONSTANTS
    Ids,                    \* accounts there may be
    Emails, Names,          \* addresses of people, usernames they may choose
    Staff,                  \* accounts tagged developer or moderator
    NoName, NoEmail,        \* an account before sign-up; an account never withdrawn
    Forever, Cooldown,      \* a ban without an end; 30 days
    Calls,                  \* requests that can be under way at once
    EndTime                 \* bound on the clock

ASSUME AccountsAssumption ==
    /\ Staff \subseteq Ids
    /\ Ids \cap Emails = {} /\ Ids \cap Names = {}
    /\ NoName \notin Names \cup Ids /\ NoEmail \notin Emails \cup Ids
    /\ Cooldown \in Nat \ {0} /\ EndTime \in Nat \ {0}
    /\ Forever \in Nat /\ Forever > EndTime + Cooldown

VARIABLES
    account,    \* the users: email, username, role, withdrawn
    profile,    \* user_info: "none", "own" or "anonymous"
    ban,        \* user_ban, keyed by the account
    session,    \* accounts with a token that is still valid
    call,       \* requests under way, with the record they entered with
    left,       \* history: the address given up, and the promised end of its block
    moderated,  \* history: accounts whose ban staff touched after the withdrawal
    now

accountVars == <<account, profile, ban, session, call, left, moderated, now>>

(* The tombstone address and username of a withdrawn account are its id.   *)
Account == [exists : BOOLEAN, email : Emails \cup Ids \cup {NoEmail},
            name : Names \cup Ids \cup {NoName},
            official : BOOLEAN, withdrawn : BOOLEAN]
NoAccount == [exists |-> FALSE, email |-> NoEmail, name |-> NoName,
              official |-> FALSE, withdrawn |-> FALSE]
Ban == [hash : Emails \cup Ids \cup {NoEmail}, until : 0..Forever]
NoBan == [hash |-> NoEmail, until |-> 0]
Ended == [kind |-> "none"]

AccountsInit ==
    /\ account = [a \in Ids |->
         IF a \in Staff THEN [NoAccount EXCEPT !.exists = TRUE, !.name = a] ELSE NoAccount]
    /\ profile = [a \in Ids |-> IF a \in Staff THEN "own" ELSE "none"]
    /\ ban = [a \in Ids |-> NoBan]
    /\ session = Staff
    /\ call = [c \in Calls |-> Ended]
    /\ left = [a \in Ids |-> [email |-> NoEmail, until |-> 0]]
    /\ moderated = {}
    /\ now = 1

-------------------------------------------------------------------------------
(* Who is blocked.  An address stands for its hash.                        *)

Active(b) == b.until > now

EmailBlocked(e) == e # NoEmail /\ \E a \in Ids : ban[a].hash = e /\ Active(ban[a])

(* findActiveBanForUser: the record of the account, then any with its      *)
(* address.                                                                *)
Banned(a) == Active(ban[a]) \/ EmailBlocked(account[a].email)

(* checkAccountRestrictionWithBan; `user` is the record a request entered  *)
(* with or one it has just read.                                           *)
Restricted(a, user) == user.withdrawn \/ Active(ban[a]) \/ EmailBlocked(user.email)

EmailTaken(e)  == \E a \in Ids : account[a].exists /\ account[a].email = e
NameTaken(n)   == \E a \in Ids : account[a].exists /\ account[a].name = n

(* Nobody else has the username that is the id of the account.             *)
TombstoneFree(a) == \A b \in Ids \ {a} : account[b].exists => account[b].name # a

-------------------------------------------------------------------------------
(* Signing in.                                                             *)

(* Somebody signs in with an address nobody has: an account is made.       *)
Register(a, e) ==
    /\ ~account[a].exists
    /\ ~EmailTaken(e) /\ ~EmailBlocked(e)
    /\ account' = [account EXCEPT ![a] = [NoAccount EXCEPT !.exists = TRUE, !.email = e]]
    /\ session' = session \cup {a}
    /\ UNCHANGED <<profile, ban, call, left, moderated, now>>

(* With an address that has one.  A withdrawn account has neither a        *)
(* password anybody knows nor a linked provider.                           *)
SignIn(a) ==
    /\ account[a].exists /\ ~account[a].withdrawn /\ a \notin session
    /\ ~Banned(a)
    /\ session' = session \cup {a}
    /\ UNCHANGED <<account, profile, ban, call, left, moderated, now>>

(* The middleware: routes other than sign-up and withdrawal ask for an     *)
(* active user, some for staff.                                            *)
Gate(a, kind) ==
    /\ kind \notin {"signUp", "withdraw"} => ~Restricted(a, account[a])
    /\ kind \in {"ban", "unban", "manage"} => a \in Staff
    /\ kind = "credentials" => account[a].official
    /\ kind = "withdraw" => ~account[a].withdrawn

Enter(c, a, kind) ==
    /\ call[c] = Ended /\ a \in session /\ Gate(a, kind)
    /\ call' = [call EXCEPT ![c] = [kind |-> kind, by |-> a, auth |-> account[a]]]
    /\ UNCHANGED <<account, profile, ban, session, left, moderated, now>>

Running(c, kind) == call[c].kind = kind
Finish(c) == call' = [call EXCEPT ![c] = Ended]

(* A request that is refused, or whose client has gone.                    *)
Refuse(c) ==
    /\ call[c] # Ended /\ Finish(c)
    /\ UNCHANGED <<account, profile, ban, session, left, moderated, now>>

-------------------------------------------------------------------------------
(* The handlers.                                                           *)

MaySignUp(a, auth) ==
    /\ ~Banned(a) /\ ~account[a].withdrawn
    /\ account[a].name = NoName /\ profile[a] = "none"

SignUp(c) ==
    /\ Running(c, "signUp")
    /\ LET a == call[c].by IN
       /\ MaySignUp(a, call[c].auth)
       /\ \E n \in Names :
            /\ ~NameTaken(n)
            /\ account' = [account EXCEPT ![a].name = n]
       /\ profile' = [profile EXCEPT ![a] = "own"]
    /\ Finish(c)
    /\ UNCHANGED <<ban, session, left, moderated, now>>

(* upsertUserBanByUserID: an empty hash leaves the old one.                *)
Upserted(a, hash, until) ==
    [hash |-> IF hash = NoEmail THEN ban[a].hash ELSE hash, until |-> until]

BlockEnd(a) == IF Active(ban[a]) THEN Forever ELSE now + Cooldown

(* The profile is made if it is missing.                                   *)
Anonymized(p) == "anonymous"

(* Mutant: the address is replaced first.                                  *)
Withdraw_TombstoneFirst(c) ==
    /\ Running(c, "withdraw")
    /\ LET a == call[c].by
           end == BlockEnd(a) IN
       /\ ~account[a].withdrawn /\ TombstoneFree(a)
       /\ ban' = [ban EXCEPT ![a] = Upserted(a, a, end)]
       /\ account' = [account EXCEPT ![a] =
            [@ EXCEPT !.email = a, !.name = a, !.official = FALSE, !.withdrawn = TRUE]]
       /\ profile' = [profile EXCEPT ![a] = Anonymized(@)]
       /\ session' = session \ {a}
       /\ left' = [left EXCEPT ![a] = [email |-> account[a].email, until |-> end]]
    /\ Finish(c)
    /\ UNCHANGED <<moderated, now>>

Withdraw(c) ==
    /\ Running(c, "withdraw")
    /\ LET a == call[c].by
           end == BlockEnd(a) IN
       /\ ~account[a].withdrawn /\ TombstoneFree(a)
       /\ ban' = [ban EXCEPT ![a] = Upserted(a, account[a].email, end)]
       /\ account' = [account EXCEPT ![a] =
            [@ EXCEPT !.email = a, !.name = a, !.official = FALSE, !.withdrawn = TRUE]]
       /\ profile' = [profile EXCEPT ![a] = Anonymized(@)]
       /\ session' = session \ {a}
       /\ left' = [left EXCEPT ![a] = [email |-> account[a].email, until |-> end]]
    /\ Finish(c)
    /\ UNCHANGED <<moderated, now>>

(* Staff bans an account: its address is read...                           *)
ReadBanned(c, a, until) ==
    /\ Running(c, "ban") /\ account[a].exists
    /\ until > now
    /\ call' = [call EXCEPT ![c] = [kind |-> "banning", by |-> call[c].by, user |-> a,
                                    hash |-> account[a].email, until |-> until]]
    /\ UNCHANGED <<account, profile, ban, session, left, moderated, now>>

(* ...and the record is written.                                           *)
CreateOrUpdateUserBan(c) ==
    /\ Running(c, "banning")
    /\ LET a == call[c].user IN
       /\ ban' = [ban EXCEPT ![a] = Upserted(a, call[c].hash, call[c].until)]
       /\ moderated' = IF account[a].withdrawn THEN moderated \cup {a} ELSE moderated
    /\ Finish(c)
    /\ UNCHANGED <<account, profile, session, left, now>>

DeleteUserBan(c, a) ==
    /\ Running(c, "unban") /\ ban[a] # NoBan
    /\ ban' = [ban EXCEPT ![a] = NoBan]
    /\ moderated' = IF account[a].withdrawn THEN moderated \cup {a} ELSE moderated
    /\ Finish(c)
    /\ UNCHANGED <<account, profile, session, left, now>>

(* Staff makes an account with its profile; the ban hook sees it too.      *)
CreateManagedAccount(c, a, e, n, official) ==
    /\ Running(c, "manage")
    /\ ~account[a].exists /\ ~EmailTaken(e) /\ ~NameTaken(n) /\ ~EmailBlocked(e)
    /\ account' = [account EXCEPT ![a] =
         [exists |-> TRUE, email |-> e, name |-> n, official |-> official, withdrawn |-> FALSE]]
    /\ profile' = [profile EXCEPT ![a] = "own"]
    /\ Finish(c)
    /\ UNCHANGED <<ban, session, left, moderated, now>>

(* Mutant: the record of the request is believed.                          *)
MayChangeCredentials_Entered(a, auth) == auth.official

(* Read again in the transaction, whatever the request entered with.       *)
MayChangeCredentials(a, auth) == ~Restricted(a, account[a]) /\ account[a].official

(* A new address, a new password or both; every session ends.              *)
UpdateArcadeCredentials(c, e) ==
    /\ Running(c, "credentials")
    /\ LET a == call[c].by IN
       /\ MayChangeCredentials(a, call[c].auth)
       /\ e = account[a].email \/ ~EmailTaken(e)
       /\ account' = [account EXCEPT ![a].email = e]
       /\ session' = session \ {a}
    /\ Finish(c)
    /\ UNCHANGED <<profile, ban, left, moderated, now>>

UpdateProfile(c) ==
    /\ Running(c, "profile")
    /\ profile[call[c].by] # "none"
    /\ profile' = [profile EXCEPT ![call[c].by] = "own"]
    /\ Finish(c)
    /\ UNCHANGED <<account, ban, session, left, moderated, now>>

Later ==
    /\ now < EndTime /\ now' = now + 1
    /\ UNCHANGED <<account, profile, ban, session, call, left, moderated>>

Kinds == {"signUp", "withdraw", "ban", "unban", "manage", "credentials", "profile"}

AccountsNext ==
    \/ \E a \in Ids, e \in Emails : Register(a, e)
    \/ \E a \in Ids : SignIn(a)
    \/ \E c \in Calls, a \in Ids, k \in Kinds : Enter(c, a, k)
    \/ \E c \in Calls : Refuse(c)
    \/ \E c \in Calls : SignUp(c)
    \/ \E c \in Calls : Withdraw(c)
    \/ \E c \in Calls, a \in Ids, t \in {now + 1, Forever} : ReadBanned(c, a, t)
    \/ \E c \in Calls : CreateOrUpdateUserBan(c)
    \/ \E c \in Calls, a \in Ids : DeleteUserBan(c, a)
    \/ \E c \in Calls, a \in Ids, e \in Emails, n \in Names, o \in BOOLEAN :
         CreateManagedAccount(c, a, e, n, o)
    \/ \E c \in Calls, e \in Emails : UpdateArcadeCredentials(c, e)
    \/ \E c \in Calls : UpdateProfile(c)
    \/ Later

AccountsSpec == AccountsInit /\ [][AccountsNext]_accountVars

-------------------------------------------------------------------------------
(* The shape of the state; the addresses and usernames of accounts are     *)
(* distinct, as the indexes of the users collection ask, and an account    *)
(* has a profile exactly when it has a username: sign-up, staff and the    *)
(* withdrawal write both or neither.                                       *)
AccountsTypeOK ==
    /\ account \in [Ids -> Account]
    /\ profile \in [Ids -> {"none", "own", "anonymous"}]
    /\ ban \in [Ids -> Ban]
    /\ session \subseteq Ids /\ moderated \subseteq Ids /\ now \in 1..EndTime
    /\ \A a, b \in Ids : a # b /\ account[a].exists /\ account[b].exists =>
         /\ account[a].email = account[b].email => account[a].email = NoEmail
         /\ account[a].name = account[b].name => account[a].name = NoName
    /\ \A a \in Ids : account[a].name = NoName <=> profile[a] = "none"

(* A withdrawn account is over: no request that entered before the         *)
(* withdrawal, no staff and no sign-in changes it or opens a session.      *)
WithdrawnIsFinal ==
    [][\A a \in Ids : account[a].withdrawn =>
         account'[a] = account[a] /\ a \notin session']_accountVars

(* A username is chosen once, however many sign-ups are sent at the same   *)
(* time, and only the withdrawal replaces it.                              *)
NameIsChosenOnce ==
    [][\A a \in Ids : account[a].name # NoName =>
         account'[a].name = account[a].name \/ account'[a].withdrawn]_accountVars

(* The address a person gave up by withdrawing is blocked until the        *)
(* promised end, a ban in force having become one without an end, unless   *)
(* staff touched the ban afterwards: nobody has an account with it that    *)
(* was not there before.                                                   *)
WithdrawalBlocks ==
    \A a \in Ids : left[a].until > now /\ a \notin moderated =>
        EmailBlocked(left[a].email) \/ left[a].email = NoEmail

(* The accounts are in shape, and the block that a withdrawal leaves behind*)
(* holds (Withdraw, CreateOrUpdateUserBan, DeleteUserBan).                 *)
AccountsAreSound == AccountsTypeOK /\ WithdrawalBlocks

(* Requests that overlap with a withdrawal, a sign-up or a change of role  *)
(* change nothing of an account that is no longer theirs to change.        *)
OnlyTheirsChanges == WithdrawnIsFinal /\ NameIsChosenOnce
===============================================================================
